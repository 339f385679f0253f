--------------------------- MODULE CheckHashLoop ----------------------------
(***************************************************************************)
(* support/download/check-hash as it runs: one line of the .hash file per  *)
(* step, leaving at the first line that fails, or where set -e ends the    *)
(* script because a command failed.                                        *)
(***************************************************************************)
EXTENDS HashFile

CONSTANTS HashFiles,  \* the hash files a run tries
          Exempt,     \* the values of BR_NO_CHECK_HASH_FOR it tries
          Faults      \* what may fail: a sum command, any other command

\* Only a line can lack its newline: an empty file has none that could.
ASSUME HashFilesAssumption ==
  \A hf \in HashFiles :
    \/ hf \in {NoOption, NoFile}
    \/ /\ hf = HashFileOf(hf.lines, hf.eol)
       /\ hf.lines \in Seq(HashLine) /\ hf.eol \in BOOLEAN
       /\ hf.lines = << >> => hf.eol
ASSUME FaultsAssumption == Faults \subseteq {"sum", "command"}

VARIABLES hfile, base, data, exempt,  \* the arguments and the environment
          line,                       \* number of lines read
          nbChecks,
          code,                       \* exit code, NotYet while running
          failed                      \* whether a command has failed
NotYet == 5
args == <<hfile, base, data, exempt>>
vars == <<hfile, base, data, exempt, line, nbChecks, code, failed>>

Init ==
  /\ hfile \in HashFiles
  /\ base \in Name
  /\ data \in Content
  /\ exempt \in Exempt
  /\ line = 0
  /\ nbChecks = 0
  /\ code = NotYet
  /\ failed = FALSE

\* No -H, or a -H that names no file: nothing to check.
BailEarly ==
  /\ code = NotYet
  /\ line = 0
  /\ hfile.given # "present"
  /\ code' = 0
  /\ UNCHANGED <<args, line, nbChecks, failed>>

\* Mutant: check_one_hash returns its code to the loop, which drops it.
ReadLine_dropsCode ==
  /\ code = NotYet
  /\ hfile.given = "present"
  /\ line + 1 <= LinesRead(hfile)
  /\ line' = line + 1
  /\ LET l == hfile.lines[line + 1]
     IN  nbChecks' = IF l.t # "comment" /\ l.f = base THEN nbChecks + 1
                     ELSE nbChecks
  /\ UNCHANGED <<args, code, failed>>

\* A whole line was read: skip it, count it, or leave because it fails.
ReadLine ==
  /\ code = NotYet
  /\ hfile.given = "present"
  /\ line + 1 <= LinesRead(hfile)
  /\ line' = line + 1
  /\ LET l == hfile.lines[line + 1]
         mine == l.t # "comment" /\ l.f = base
     IN  IF mine /\ CheckOneHash(l, data) # 0
         THEN /\ code' = CheckOneHash(l, data)
              /\ UNCHANGED nbChecks
         ELSE /\ nbChecks' = IF mine THEN nbChecks + 1 ELSE nbChecks
              /\ UNCHANGED code
  /\ UNCHANGED <<args, failed>>

\* The sum command fails on the file: no one looks at the status of the first
\* command of a pipe, and its empty output is a digest that differs.
SumFails ==
  /\ "sum" \in Faults
  /\ code = NotYet
  /\ hfile.given = "present"
  /\ line + 1 <= LinesRead(hfile)
  /\ hfile.lines[line + 1].t = "digest" /\ hfile.lines[line + 1].f = base
  /\ line' = line + 1
  /\ code' = 2
  /\ failed' = TRUE
  /\ UNCHANGED <<args, nbChecks>>

\* set -e: cut, a printf or the redirection of the loop fails.
CommandFails ==
  /\ "command" \in Faults
  /\ code = NotYet
  /\ code' = 1
  /\ failed' = TRUE
  /\ UNCHANGED <<args, line, nbChecks>>

\* read failed: at the end of the file, or on a line without a newline.
EndOfFile ==
  /\ code = NotYet
  /\ hfile.given = "present"
  /\ line = LinesRead(hfile)
  /\ code' = IF nbChecks = 0 /\ base \notin exempt THEN 3 ELSE 0
  /\ UNCHANGED <<args, line, nbChecks, failed>>

Next == BailEarly \/ ReadLine \/ SumFails \/ CommandFails \/ EndOfFile

Spec == Init /\ [][Next]_vars /\ WF_vars(Next)

\* The loop computes the verdict the other modules use: the first line that
\* concerns the file and fails decides, whatever follows it; and the codes they
\* reckon with when a command fails.  A complete hash file is enforced: a file
\* whose content is not the one recorded is never accepted, in whatever order
\* the lines are and whatever fails.  And without a failing command only a
\* recorded digest that differs gives 2, on which the wrapper removes the file:
\* an unlisted one is another error (3).  (A sum command that fails gives an
\* empty digest, and 2 for a file that may well match; check-hash:17-18 does not
\* say so.)  (A last line without a newline is
\* never checked: read fails on it.)
VerdictsAreJustified ==
  /\ code # NotYet => /\ code \in Outcomes(hfile, base, data, exempt)
                      /\ failed \/ code = CheckHash(hfile, base, data, exempt)
  /\ (code = 0 /\ hfile.given = "present" /\ hfile.eol) =>
       \A i \in DOMAIN hfile.lines :
         (hfile.lines[i].t = "digest" /\ hfile.lines[i].f = base)
           => hfile.lines[i].h = data
  /\ (code = 2 /\ ~failed) => \E i \in DOMAIN hfile.lines :
                                 /\ hfile.lines[i].f = base
                                 /\ hfile.lines[i].t = "digest"
                                 /\ hfile.lines[i].h # data
=============================================================================
