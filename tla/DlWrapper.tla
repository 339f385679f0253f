----------------------------- MODULE DlWrapper ------------------------------
(***************************************************************************)
(* support/download/dl-wrapper: concurrent invocations that save the same  *)
(* file of BR2_DL_DIR.  Every command of main that touches the file system *)
(* is a step; a step may fail, and an invocation may be killed anywhere.   *)
(***************************************************************************)
EXTENDS HashFile

CONSTANTS Proc,       \* concurrent invocations, each from a make of its own
          Base,       \* the base name of -o
          HashFiles,  \* what -H may be
          Stale,      \* contents the file may have before the first run
          Faults      \* what may go wrong in a run

\* The backend, a command of check-hash, one that the script tests, one that it
\* leaves to set -e, and the whole invocation.
Fault == {"backend", "check", "command", "bare", "kill"}

ASSUME ConstantsAssumption ==
  /\ Base \in Name
  /\ Stale \subseteq Content
  /\ Content \cap {"absent", "empty", "partial"} = {}
  /\ NoOption \in HashFiles
  /\ Faults \subseteq Fault

VARIABLES output,     \* the file in BR2_DL_DIR
          pc, status, \* where each invocation is, and how it ended
          opt,        \* its -H, and whether BR_NO_CHECK_HASH_FOR has Base
          tmpd,       \* its temporary directory: tmpf, once it is there
          tmpOutput,  \* its temporary file next to output
          litter      \* temporaries left by ended invocations

wvars == <<output, pc, status, opt, tmpd, tmpOutput, litter>>

\* A file that is not there, one just made by mktemp (or the directory with
\* nothing in it), and one that cat has not copied to its end.
Absent  == [data |-> "absent", mode |-> "none"]
Empty   == "empty"
Partial == "partial"

\* mktemp leaves 600; the code restores 644, or 755 for an executable tmpf.
NewMode(exec) == IF exec THEN "755" ELSE "644"

File   == [data : Content \cup {Empty, Partial}, mode : {"600", "644", "755"}]
TmpF   == [data : Content, exec : BOOLEAN]
NoDir  == [data |-> "absent", exec |-> FALSE]
NewDir == [data |-> Empty, exec |-> FALSE]
Opt    == [hash : HashFiles, exempt : BOOLEAN]

Verdict(o, data) ==
  CheckHash(o.hash, Base, data, IF o.exempt THEN {Base} ELSE {})

\* The exit codes check-hash may end with.
Codes(o, data) ==
  IF "check" \in Faults
  THEN Outcomes(o.hash, Base, data, IF o.exempt THEN {Base} ELSE {})
  ELSE {Verdict(o, data)}

PCs == {"idle", "exists", "check", "remove", "mktempd", "backend", "evict",
        "verify", "mktemp", "chmod", "cat", "copying", "rmboth", "rmtmpd",
        "mv", "rmoutput", "done", "exited"}
Running == PCs \ {"idle", "exited"}

WrapperInit ==
  /\ output \in {Absent} \cup [data : Stale, mode : {"644"}]
  /\ pc = [p \in Proc |-> "idle"]
  /\ status = [p \in Proc |-> "none"]
  /\ opt = [p \in Proc |-> [hash |-> NoOption, exempt |-> FALSE]]
  /\ tmpd = [p \in Proc |-> NoDir]
  /\ tmpOutput = [p \in Proc |-> Absent]
  /\ litter = {}

Goto(p, to) == pc' = [pc EXCEPT ![p] = to]

\* make runs the wrapper.
Launch(p, o) ==
  /\ pc[p] \in {"idle", "exited"}
  /\ Goto(p, "exists")
  /\ opt' = [opt EXCEPT ![p] = o]
  /\ status' = [status EXCEPT ![p] = "none"]
  /\ UNCHANGED <<output, tmpd, tmpOutput, litter>>

\* The invocation ends.  What it still has stays behind; no later invocation
\* meets it, because mktemp never gives the same name twice.
Leave(p, how, left) ==
  /\ Goto(p, "exited")
  /\ status' = [status EXCEPT ![p] = how]
  /\ tmpd' = [tmpd EXCEPT ![p] = NoDir]
  /\ tmpOutput' = [tmpOutput EXCEPT ![p] = Absent]
  /\ litter' = litter \cup (left \X {how})
  /\ UNCHANGED opt

Held(p) == {k \in {"tmpd", "tmp_output"} :
              IF k = "tmpd" THEN tmpd[p] # NoDir ELSE tmpOutput[p] # Absent}

\* if [ -e "${output}" ]
TestExists(p) ==
  /\ pc[p] = "exists"
  /\ Goto(p, IF output = Absent THEN "mktempd" ELSE "check")
  /\ UNCHANGED <<output, status, opt, tmpd, tmpOutput, litter>>

\* Mutant: only a mismatch is a failure.
CheckFound_unlistedIsFine(p) ==
  /\ pc[p] = "check"
  /\ Goto(p, IF Verdict(opt[p], output.data) = 2 THEN "remove" ELSE "done")
  /\ UNCHANGED <<status, opt, tmpd, tmpOutput, litter>>
  /\ UNCHANGED output

\* check-hash on the file found.  Another invocation may have removed or
\* replaced it since: a file that is gone has no digest.
CheckFound(p) ==
  /\ pc[p] = "check"
  /\ \E v \in Codes(opt[p], output.data) :
       \/ /\ v \in {0, 2}
          /\ Goto(p, IF v = 0 THEN "done" ELSE "remove")
          /\ UNCHANGED <<status, opt, tmpd, tmpOutput, litter>>
       \/ /\ v \notin {0, 2}
          /\ Leave(p, "failed", {})
  /\ UNCHANGED output

\* rm -f "${output}", whatever it holds by now.
RemoveFound(p) ==
  /\ pc[p] = "remove"
  /\ output' = Absent
  /\ Goto(p, "mktempd")
  /\ UNCHANGED <<status, opt, tmpd, tmpOutput, litter>>

MakeTmpDir(p) ==
  /\ pc[p] = "mktempd"
  /\ tmpd' = [tmpd EXCEPT ![p] = NewDir]
  /\ Goto(p, "backend")
  /\ UNCHANGED <<output, status, opt, tmpOutput, litter>>

\* The backend leaves some content in tmpf, cp and scp maybe an executable
\* one, or fails.
Backend(p, data, exec) ==
  /\ pc[p] = "backend"
  /\ tmpd' = [tmpd EXCEPT ![p] = [data |-> data, exec |-> exec]]
  /\ Goto(p, "verify")
  /\ UNCHANGED <<output, status, opt, tmpOutput, litter>>

BackendFails(p) ==
  /\ "backend" \in Faults
  /\ pc[p] = "backend"
  /\ Goto(p, "evict")
  /\ UNCHANGED <<output, status, opt, tmpd, tmpOutput, litter>>

\* Mutant: only a mismatch stops a download.
Verify_onlyMismatch(p) ==
  /\ pc[p] = "verify"
  /\ Goto(p, IF Verdict(opt[p], tmpd[p].data) # 2 THEN "mktemp" ELSE "evict")
  /\ UNCHANGED <<output, status, opt, tmpd, tmpOutput, litter>>

\* Mutant: tmpf is not checked at all.
Verify_skipped(p) ==
  /\ pc[p] = "verify"
  /\ Goto(p, "mktemp")
  /\ UNCHANGED <<output, status, opt, tmpd, tmpOutput, litter>>

\* check-hash on tmpf, under the name of the output.
Verify(p) ==
  /\ pc[p] = "verify"
  /\ \E v \in Codes(opt[p], tmpd[p].data) :
       Goto(p, IF v = 0 THEN "mktemp" ELSE "evict")
  /\ UNCHANGED <<output, status, opt, tmpd, tmpOutput, litter>>

\* rm -rf "${tmpd}"; exit 1
Evict(p) ==
  /\ pc[p] = "evict"
  /\ Leave(p, "failed", {})
  /\ UNCHANGED output

MakeTmpOutput(p) ==
  /\ pc[p] = "mktemp"
  /\ tmpOutput' = [tmpOutput EXCEPT ![p] = [data |-> Empty, mode |-> "600"]]
  /\ Goto(p, "chmod")
  /\ UNCHANGED <<output, status, opt, tmpd, litter>>

Chmod(p) ==
  /\ pc[p] = "chmod"
  /\ tmpOutput' = [tmpOutput EXCEPT ![p].mode = NewMode(tmpd[p].exec)]
  /\ Goto(p, "cat")
  /\ UNCHANGED <<output, status, opt, tmpd, litter>>

\* Mutant: cat writes to the final name.
CatStarts_toOutput(p) ==
  /\ pc[p] = "cat"
  /\ output' = [data |-> Partial, mode |-> "644"]
  /\ Goto(p, "copying")
  /\ UNCHANGED <<status, opt, tmpd, tmpOutput, litter>>

\* cat appends a first part, then the rest or fails (a full disk).
CatStarts(p) ==
  /\ pc[p] = "cat"
  /\ tmpOutput' = [tmpOutput EXCEPT ![p].data = Partial]
  /\ Goto(p, "copying")
  /\ UNCHANGED <<output, status, opt, tmpd, litter>>

CatEnds(p) ==
  /\ pc[p] = "copying"
  /\ tmpOutput' = [tmpOutput EXCEPT ![p].data = tmpd[p].data]
  /\ Goto(p, "rmtmpd")
  /\ UNCHANGED <<output, status, opt, tmpd, litter>>

CatFails(p) ==
  /\ "command" \in Faults
  /\ pc[p] = "copying"
  /\ Goto(p, "rmboth")
  /\ UNCHANGED <<output, status, opt, tmpd, tmpOutput, litter>>

\* rm -rf "${tmpd}" "${tmp_output}"; exit 1
RemoveBoth(p) ==
  /\ pc[p] = "rmboth"
  /\ Leave(p, "failed", {})
  /\ UNCHANGED output

RemoveTmpDir(p) ==
  /\ pc[p] = "rmtmpd"
  /\ tmpd' = [tmpd EXCEPT ![p] = NoDir]
  /\ Goto(p, "mv")
  /\ UNCHANGED <<output, status, opt, tmpOutput, litter>>

\* mv -f: the rename is atomic.
Publish(p) ==
  /\ pc[p] = "mv"
  /\ output' = tmpOutput[p]
  /\ tmpOutput' = [tmpOutput EXCEPT ![p] = Absent]
  /\ Goto(p, "done")
  /\ UNCHANGED <<status, opt, tmpd, litter>>

\* exit 0, or the end of main.
Exit(p) ==
  /\ pc[p] = "done"
  /\ Leave(p, "ok", {})
  /\ UNCHANGED output

MvFails(p) ==
  /\ "command" \in Faults
  /\ pc[p] = "mv"
  /\ Goto(p, "rmoutput")
  /\ UNCHANGED <<output, status, opt, tmpd, tmpOutput, litter>>

\* rm -f "${tmp_output}"; exit 1
RemoveTmpOutput(p) ==
  /\ pc[p] = "rmoutput"
  /\ Leave(p, "failed", {})
  /\ UNCHANGED output

\* set -e: a bare command that fails (one of the cd, too) ends the script on
\* the spot; a failing rm is followed by exit 1 in any case.
CommandFails(p) ==
  /\ "bare" \in Faults
  /\ pc[p] \in {"remove", "mktempd", "backend", "evict", "verify", "mktemp",
               "chmod", "rmboth", "rmtmpd", "rmoutput"}
  /\ Leave(p, "failed", Held(p))
  /\ UNCHANGED output

\* A signal ends the invocation: the script sets no trap.
Kill(p) ==
  /\ "kill" \in Faults
  /\ pc[p] \in Running
  /\ Leave(p, "killed", Held(p))
  /\ UNCHANGED output

\* The steps of an invocation after its launch.
Step(p) ==
  \/ TestExists(p) \/ CheckFound(p) \/ RemoveFound(p) \/ MakeTmpDir(p)
  \/ \E data \in Content, exec \in BOOLEAN : Backend(p, data, exec)
  \/ BackendFails(p) \/ Verify(p) \/ Evict(p) \/ MakeTmpOutput(p) \/ Chmod(p)
  \/ CatStarts(p) \/ CatEnds(p) \/ CatFails(p) \/ RemoveBoth(p)
  \/ RemoveTmpDir(p) \/ Publish(p) \/ Exit(p) \/ MvFails(p)
  \/ RemoveTmpOutput(p) \/ CommandFails(p) \/ Kill(p)

Init == WrapperInit

Next == \E p \in Proc : (\E o \in Opt : Launch(p, o)) \/ Step(p)

Spec == Init /\ [][Next]_wvars /\ \A p \in Proc : WF_wvars(Step(p))

TypeOK ==
  /\ output \in {Absent} \cup File
  /\ pc \in [Proc -> PCs]
  /\ status \in [Proc -> {"none", "ok", "failed", "killed"}]
  /\ opt \in [Proc -> Opt]
  /\ tmpd \in [Proc -> {NoDir, NewDir} \cup TmpF]
  /\ tmpOutput \in [Proc -> {Absent} \cup File]
  /\ litter \subseteq {"tmpd", "tmp_output"} \X {"failed", "killed"}

\* BR2_DL_DIR never shows a partial download under the final name, nor one
\* that only its owner can read, whatever fails and whoever is killed
\* (dl-wrapper:3-6, 104-112).
NeverPartial ==
  output # Absent => output.data \in Content /\ output.mode # "600"

\* Whether a hash file, or the lack of one, can accept the download at all.
Lists(o) == \/ o.hash.given # "present"
            \/ o.exempt
            \/ Checked(o.hash, Base) # {}

\* The inductive form: what an invocation has in its temporaries when it is
\* about to use them.  A content that reaches cat has passed check-hash.
WrapperInv ==
  /\ NeverPartial
  /\ \A p \in Proc :
       /\ pc[p] = "remove" => Lists(opt[p])
       /\ pc[p] \in {"verify", "mktemp", "chmod", "cat", "copying", "rmtmpd"}
            => tmpd[p] \in TmpF
       /\ pc[p] \in {"mktemp", "chmod", "cat", "copying", "rmtmpd"}
            => Verdict(opt[p], tmpd[p].data) = 0
       /\ pc[p] \in {"chmod", "cat", "copying"} => tmpOutput[p] # Absent
       /\ pc[p] \in {"cat", "copying", "rmtmpd", "mv", "rmoutput"}
            => tmpOutput[p].mode \in {"644", "755"}
       /\ pc[p] = "rmtmpd" => tmpOutput[p].data = tmpd[p].data
       /\ pc[p] = "mv" => /\ tmpOutput[p].data \in Content
                          /\ Verdict(opt[p], tmpOutput[p].data) = 0

\* A content that takes the final name was downloaded by the invocation that
\* puts it there and satisfies the hash file of that same invocation.
Published(p) ==
  /\ pc[p] = "mv"
  /\ output' = tmpOutput[p]
  /\ Verdict(opt[p], output'.data) = 0
OnlyValidatedContentIsPublished ==
  [][(output' # output /\ output' # Absent) => \E p \in Proc : Published(p)]_wvars

\* The wrapper says 0 only when the file is there and satisfies the hash file
\* it was given.  Meant for one invocation at a time.
SuccessMeansFile ==
  \A p \in Proc : status[p] = "ok" =>
    output # Absent /\ Verdict(opt[p], output.data) = 0

\* "Ensures that concurrent downloads do not conflict" (dl-wrapper:154-155):
\* the file is removed only while it fails the hashes of the invocation that
\* removes it.  The removal comes after the check, so this fails.
EvictsOnlyMismatch ==
  [][(output # Absent /\ output' = Absent) =>
       \E p \in Proc : pc[p] = "remove" /\ Verdict(opt[p], output.data) = 2]_wvars

\* An existing hash file that does not list the download is a hard error: such
\* an invocation never removes the file it finds, so that no later site is
\* tried for it, and never publishes the one it fetches (dl-wrapper:52-59).
UnlistedNeverChangesFile ==
  [][output' # output =>
       \E p \in Proc : pc'[p] # pc[p] /\ Lists(opt[p])]_wvars

\* The abstract store: what a reader of BR2_DL_DIR and make see of all this.
Store == INSTANCE DownloadStore WITH
  file    <- output.data,
  request <- opt,
  reply   <- [p \in Proc |-> IF pc[p] = "exited" THEN status[p]
                             ELSE IF pc[p] = "done" THEN "served"
                             ELSE IF pc[p] = "idle" THEN "idle" ELSE "busy"]
ImplementsStore == Store!Spec
=============================================================================
