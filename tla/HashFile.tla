------------------------------ MODULE HashFile ------------------------------
(***************************************************************************)
(* The verdict of support/download/check-hash on a downloaded file, as a   *)
(* function of the package's .hash file.  A digest is the content it was   *)
(* computed from: two contents never share one.                            *)
(***************************************************************************)
EXTENDS Naturals, Sequences, FiniteSets

CONSTANTS Content,  \* what a download can leave in a file
          Name      \* base names of downloaded files

\* One line of a .hash file, split by read in the fields t, h and f.
HashLine == [t: {"comment", "none", "digest", "unknown"}, h: Content, f: Name]

\* The argument of -H: not given, naming no file, or a file with its lines;
\* eol says whether the last line ends in a newline.
NoOption == [given |-> "unset", lines |-> << >>, eol |-> TRUE]
NoFile   == [given |-> "missing", lines |-> << >>, eol |-> TRUE]
HashFileOf(lines, eol) == [given |-> "present", lines |-> lines, eol |-> eol]

\* read reports failure on a last line without its newline, so the loop ends
\* before that line is looked at.
LinesRead(hf) == IF hf.eol THEN Len(hf.lines) ELSE Len(hf.lines) - 1

\* check_one_hash: 0 to go on, or the exit code of the script.
CheckOneHash(line, data) ==
  CASE line.t = "none"    -> 0
    [] line.t = "unknown" -> 4
    [] OTHER              -> IF line.h = data THEN 0 ELSE 2

\* The lines of the loop that concern base, and those of them that end it.
Checked(hf, base) ==
  {i \in 1 .. LinesRead(hf) : hf.lines[i].t # "comment" /\ hf.lines[i].f = base}

Failing(hf, base, data) ==
  {i \in Checked(hf, base) : CheckOneHash(hf.lines[i], data) # 0}

\* The exit code of check-hash on data for base; exempt is the list of names
\* in BR_NO_CHECK_HASH_FOR.
CheckHash(hf, base, data, exempt) ==
  IF hf.given # "present" THEN 0
  ELSE IF Checked(hf, base) = {} THEN (IF base \in exempt THEN 0 ELSE 3)
  ELSE IF Failing(hf, base, data) = {} THEN 0
  ELSE LET first == CHOOSE i \in Failing(hf, base, data) :
                      \A j \in Failing(hf, base, data) : i <= j
       IN  CheckOneHash(hf.lines[first], data)

\* The lines that the loop comes to and whose digest it has computed.
Digested(hf, base, data) ==
  {i \in Checked(hf, base) : /\ hf.lines[i].t = "digest"
                             /\ \A j \in Failing(hf, base, data) : i <= j}

\* What check-hash may say when its commands fail: set -e ends it with 1,
\* but a sum command that fails in its pipe leaves an empty digest, no match.
Outcomes(hf, base, data, exempt) ==
  {CheckHash(hf, base, data, exempt), 1}
    \cup {2 : i \in IF hf.given = "present" THEN Digested(hf, base, data) ELSE {}}
=============================================================================
