-------------------------- MODULE DlWrapperProofs ---------------------------
(***************************************************************************)
(* Proofs about DlWrapper for any number of invocations, any hash files,   *)
(* any contents and any faults.                                            *)
(***************************************************************************)
EXTENDS DlWrapper, TLAPS

IInv == TypeOK /\ WrapperInv

\* The strings that stand for missing and unfinished contents, and the
\* records built from them, are no contents and no files of the wrapper.
LEMMA Distinct ==
  /\ Absent \notin File
  /\ NoDir \notin TmpF /\ NewDir \notin TmpF
  /\ \A d \in Content : d \notin {"absent", Empty, Partial}
  /\ NoOption \in HashFiles
BY ConstantsAssumption DEF Absent, File, NoDir, NewDir, TmpF, Empty, Partial

\* A hash file that exists and does not list the file yields neither a
\* success nor a mismatch, whatever the content.
LEMMA UnlistedVerdict ==
  ASSUME NEW o, o.exempt \in BOOLEAN, ~Lists(o), NEW data
  PROVE  Verdict(o, data) = 3
BY DEF Lists, Verdict, CheckHash

\* Failing commands add an error, and a mismatch only where a digest of the
\* file is listed; never an acceptance.
LEMMA CodeMeaning ==
  ASSUME NEW o, o.exempt \in BOOLEAN, NEW data, NEW v \in Codes(o, data)
  PROVE  /\ v = 0 => Verdict(o, data) = 0
         /\ v = 2 => Lists(o)
<1>1. v = Verdict(o, data) \/ v = 1 \/ (v = 2 /\ Digested(o.hash, Base, data) # {})
  BY DEF Codes, Outcomes, Verdict
<1>2. Digested(o.hash, Base, data) # {} => Lists(o) BY DEF Digested, Lists
<1>3. Verdict(o, data) = 2 => Lists(o) BY UnlistedVerdict
<1> QED BY <1>1, <1>2, <1>3

LEMMA InitIInv == Init => IInv
BY ConstantsAssumption, Distinct
   DEF Init, WrapperInit, IInv, TypeOK, WrapperInv, NeverPartial, PCs, File,
       Absent, Opt, NoDir, Empty, Partial

\* The invocation that leaves gives up its temporaries and disturbs no other.
LEMMA LeaveIInv ==
  ASSUME IInv, NEW p \in Proc, NEW how \in {"ok", "failed", "killed"},
         NEW left, Leave(p, how, left), left \subseteq {"tmpd", "tmp_output"},
         left = {} \/ how # "ok",
         output' \in {Absent} \cup File, NeverPartial'
  PROVE  IInv'
<1>1. TypeOK'
  BY DEF IInv, TypeOK, Leave, Goto, PCs
<1>2. WrapperInv'
  BY DEF IInv, TypeOK, WrapperInv, Leave, Goto, NeverPartial, Verdict, Lists
<1> QED BY <1>1, <1>2 DEF IInv

\* No step of an invocation disturbs the inductive invariant.
LEMMA StepIInv ==
  ASSUME IInv, NEW p \in Proc, Step(p)
  PROVE  IInv'
<1> USE DEF IInv
<1>1. CASE TestExists(p)
  <2>1. TypeOK' BY <1>1 DEF TypeOK, TestExists, Goto, PCs
  <2>2. WrapperInv'
    BY <1>1 DEF TypeOK, WrapperInv, NeverPartial, TestExists, Goto, Verdict, Lists
  <2> QED BY <2>1, <2>2
<1>2. CASE CheckFound(p)
  <2>1. PICK v \in Codes(opt[p], output.data) :
          \/ /\ v \in {0, 2}
             /\ Goto(p, IF v = 0 THEN "done" ELSE "remove")
             /\ UNCHANGED <<status, opt, tmpd, tmpOutput, litter>>
          \/ /\ v \notin {0, 2}
             /\ Leave(p, "failed", {})
    BY <1>2 DEF CheckFound
  <2>2. output' = output BY <1>2 DEF CheckFound
  <2>3. CASE v \in {0, 2}
    <3>1. TypeOK' BY <2>1, <2>2, <2>3 DEF TypeOK, Goto, PCs
    <3>2. PICK to \in {"done", "remove"} :
            Goto(p, to) /\ (to = "remove" => Lists(opt[p]))
      BY <2>1, <2>3, CodeMeaning DEF TypeOK, Opt
    <3>3. UNCHANGED <<output, opt, tmpd, tmpOutput>> BY <2>1, <2>2, <2>3
    <3>4. WrapperInv'
      BY <3>2, <3>3 DEF TypeOK, WrapperInv, NeverPartial, Goto, Verdict, Lists
    <3> QED BY <3>1, <3>4
  <2>4. CASE v \notin {0, 2}
    BY <2>1, <2>2, <2>4, LeaveIInv DEF TypeOK, WrapperInv, NeverPartial
  <2> QED BY <2>3, <2>4
<1>3. CASE RemoveFound(p)
  <2>1. TypeOK' BY <1>3 DEF TypeOK, RemoveFound, Goto, PCs
  <2>2. WrapperInv'
    BY <1>3 DEF TypeOK, WrapperInv, NeverPartial, RemoveFound, Goto, Verdict, Lists
  <2> QED BY <2>1, <2>2
<1>4. CASE MakeTmpDir(p)
  <2>1. TypeOK' BY <1>4 DEF TypeOK, MakeTmpDir, Goto, PCs
  <2>2. WrapperInv'
    BY <1>4 DEF TypeOK, WrapperInv, NeverPartial, MakeTmpDir, Goto, Verdict, Lists
  <2> QED BY <2>1, <2>2
<1>5. ASSUME NEW data \in Content, NEW exec \in BOOLEAN, Backend(p, data, exec)
      PROVE  IInv'
  <2>1. [data |-> data, exec |-> exec] \in TmpF BY DEF TmpF
  <2>2. TypeOK' BY <1>5, <2>1 DEF TypeOK, Backend, Goto, PCs
  <2>3. WrapperInv'
    BY <1>5, <2>1
       DEF TypeOK, WrapperInv, NeverPartial, Backend, Goto, Verdict, Lists
  <2> QED BY <2>2, <2>3
<1>6. CASE BackendFails(p)
  <2>1. TypeOK' BY <1>6 DEF TypeOK, BackendFails, Goto, PCs
  <2>2. WrapperInv'
    BY <1>6 DEF TypeOK, WrapperInv, NeverPartial, BackendFails, Goto, Verdict, Lists
  <2> QED BY <2>1, <2>2
<1>7. CASE Verify(p)
  <2>1. PICK v \in Codes(opt[p], tmpd[p].data) :
          Goto(p, IF v = 0 THEN "mktemp" ELSE "evict")
    BY <1>7 DEF Verify
  <2>2. v = 0 => Verdict(opt[p], tmpd[p].data) = 0
    BY CodeMeaning DEF TypeOK, Opt
  <2>3. TypeOK' BY <1>7, <2>1 DEF TypeOK, Verify, Goto, PCs
  <2>4. WrapperInv'
    BY <1>7, <2>1, <2>2
       DEF TypeOK, WrapperInv, NeverPartial, Verify, Goto, Verdict, Lists
  <2> QED BY <2>3, <2>4
<1>8. CASE Evict(p)
  BY <1>8, LeaveIInv DEF Evict, TypeOK, WrapperInv, NeverPartial
<1>9. CASE MakeTmpOutput(p)
  <2>1. [data |-> Empty, mode |-> "600"] \in File BY DEF File
  <2>2. TypeOK' BY <1>9, <2>1 DEF TypeOK, MakeTmpOutput, Goto, PCs
  <2>3. WrapperInv'
    BY <1>9, <2>1, Distinct
       DEF TypeOK, WrapperInv, NeverPartial, MakeTmpOutput, Goto, Verdict, Lists
  <2> QED BY <2>2, <2>3
<1>10. CASE Chmod(p)
  <2>1. tmpOutput[p] \in File BY <1>10 DEF Chmod, TypeOK, WrapperInv
  <2>2. NewMode(tmpd[p].exec) \in {"644", "755"} BY DEF NewMode
  <2>3. [tmpOutput[p] EXCEPT !.mode = NewMode(tmpd[p].exec)] \in File
    BY <2>1, <2>2 DEF File
  <2>4. TypeOK' BY <1>10, <2>3 DEF TypeOK, Chmod, Goto, PCs
  <2>5. tmpOutput'[p].mode = NewMode(tmpd[p].exec)
    BY <1>10, <2>1 DEF Chmod, TypeOK, File
  <2>6. tmpOutput'[p] # Absent /\ \A q \in Proc \ {p} : tmpOutput'[q] = tmpOutput[q]
    BY <1>10, <2>3, Distinct DEF Chmod, TypeOK
  <2>7. WrapperInv'
    BY <1>10, <2>2, <2>5, <2>6
       DEF TypeOK, WrapperInv, NeverPartial, Chmod, Goto, Verdict, Lists
  <2> QED BY <2>4, <2>7
<1>11. CASE CatStarts(p)
  <2>1. tmpOutput[p] \in File BY <1>11 DEF CatStarts, TypeOK, WrapperInv
  <2>2. [tmpOutput[p] EXCEPT !.data = Partial] \in File BY <2>1 DEF File
  <2>3. TypeOK' BY <1>11, <2>2 DEF TypeOK, CatStarts, Goto, PCs
  <2>4. tmpOutput'[p].mode = tmpOutput[p].mode
    BY <1>11, <2>1 DEF CatStarts, TypeOK, File
  <2>5. tmpOutput'[p] # Absent /\ \A q \in Proc \ {p} : tmpOutput'[q] = tmpOutput[q]
    BY <1>11, <2>2, Distinct DEF CatStarts, TypeOK
  <2>6. WrapperInv'
    BY <1>11, <2>4, <2>5
       DEF TypeOK, WrapperInv, NeverPartial, CatStarts, Goto, Verdict, Lists
  <2> QED BY <2>3, <2>6
<1>12. CASE CatEnds(p)
  <2>1. tmpOutput[p] \in File /\ tmpd[p] \in TmpF
    BY <1>12 DEF CatEnds, TypeOK, WrapperInv
  <2>2. [tmpOutput[p] EXCEPT !.data = tmpd[p].data] \in File
    BY <2>1 DEF File, TmpF
  <2>3. TypeOK' BY <1>12, <2>2 DEF TypeOK, CatEnds, Goto, PCs
  <2>4. /\ tmpOutput'[p].mode = tmpOutput[p].mode
        /\ tmpOutput'[p].data = tmpd[p].data
    BY <1>12, <2>1 DEF CatEnds, TypeOK, File
  <2>5. \A q \in Proc \ {p} : tmpOutput'[q] = tmpOutput[q]
    BY <1>12 DEF CatEnds, TypeOK
  <2>6. WrapperInv'
    BY <1>12, <2>4, <2>5
       DEF TypeOK, WrapperInv, NeverPartial, CatEnds, Goto, Verdict, Lists
  <2> QED BY <2>3, <2>6
<1>13. CASE CatFails(p)
  <2>1. TypeOK' BY <1>13 DEF TypeOK, CatFails, Goto, PCs
  <2>2. WrapperInv'
    BY <1>13 DEF TypeOK, WrapperInv, NeverPartial, CatFails, Goto, Verdict, Lists
  <2> QED BY <2>1, <2>2
<1>14. CASE RemoveBoth(p)
  BY <1>14, LeaveIInv DEF RemoveBoth, TypeOK, WrapperInv, NeverPartial
<1>15. CASE RemoveTmpDir(p)
  <2>1. TypeOK' BY <1>15 DEF TypeOK, RemoveTmpDir, Goto, PCs
  <2>2. WrapperInv'
    BY <1>15 DEF TypeOK, WrapperInv, NeverPartial, RemoveTmpDir, Goto, Verdict, Lists,
                 TmpF
  <2> QED BY <2>1, <2>2
<1>16. CASE Publish(p)
  <2>1. TypeOK' BY <1>16 DEF Publish, TypeOK, Goto, PCs
  <2>2. NeverPartial' BY <1>16 DEF Publish, TypeOK, WrapperInv, NeverPartial
  <2>3. WrapperInv'
    BY <1>16, <2>2 DEF TypeOK, WrapperInv, Publish, Goto, Verdict, Lists
  <2> QED BY <2>1, <2>3
<1>17. CASE MvFails(p)
  <2>1. TypeOK' BY <1>17 DEF TypeOK, MvFails, Goto, PCs
  <2>2. WrapperInv'
    BY <1>17 DEF TypeOK, WrapperInv, NeverPartial, MvFails, Goto, Verdict, Lists
  <2> QED BY <2>1, <2>2
<1>18. CASE RemoveTmpOutput(p)
  BY <1>18, LeaveIInv DEF RemoveTmpOutput, TypeOK, WrapperInv, NeverPartial
<1>19. CASE CommandFails(p)
  <2>1. Held(p) \subseteq {"tmpd", "tmp_output"} BY DEF Held
  <2> QED BY <1>19, <2>1, LeaveIInv
            DEF CommandFails, TypeOK, WrapperInv, NeverPartial
<1>20. CASE Kill(p)
  <2>1. Held(p) \subseteq {"tmpd", "tmp_output"} BY DEF Held
  <2> QED BY <1>20, <2>1, LeaveIInv DEF Kill, TypeOK, WrapperInv, NeverPartial
<1>21. CASE Exit(p)
  BY <1>21, LeaveIInv DEF Exit, TypeOK, WrapperInv, NeverPartial
<1> QED
  BY <1>1, <1>2, <1>3, <1>4, <1>5, <1>6, <1>7, <1>8, <1>9, <1>10, <1>11, <1>12,
     <1>13, <1>14, <1>15, <1>16, <1>17, <1>18, <1>19, <1>20, <1>21 DEF Step

LEMMA LaunchIInv ==
  ASSUME IInv, NEW p \in Proc, NEW o \in Opt, Launch(p, o)
  PROVE  IInv'
<1>1. TypeOK' BY DEF IInv, TypeOK, Launch, Goto, PCs
<1>2. WrapperInv'
  BY DEF IInv, TypeOK, WrapperInv, NeverPartial, Launch, Goto, Verdict, Lists
<1> QED BY <1>1, <1>2 DEF IInv

LEMMA NextIInv == IInv /\ [Next]_wvars => IInv'
<1> SUFFICES ASSUME IInv, [Next]_wvars PROVE IInv'
  OBVIOUS
<1>1. CASE Next
  BY <1>1, LaunchIInv, StepIInv DEF Next
<1>2. CASE UNCHANGED wvars
  BY <1>2 DEF wvars, IInv, TypeOK, WrapperInv, NeverPartial, Verdict, Lists
<1> QED BY <1>1, <1>2

\* For any number of concurrent invocations, every variable of the wrapper
\* stays of its type and the temporaries hold what the next command expects.
THEOREM Invariant == Spec => [](TypeOK /\ WrapperInv)
<1>1. Init => IInv BY InitIInv
<1>2. IInv /\ [Next]_wvars => IInv' BY NextIInv
<1> QED BY <1>1, <1>2, PTL DEF Spec, IInv

\* BR2_DL_DIR never shows a partial download, nor a file only its owner can
\* read, under the final name.
THEOREM NeverPartialHolds == Spec => []NeverPartial
<1>1. TypeOK /\ WrapperInv => NeverPartial BY DEF WrapperInv
<1> QED BY <1>1, Invariant, PTL

\* The only steps that change the file are the removal and the rename.
LEMMA OutputChanges ==
  ASSUME IInv, Next, output' # output
  PROVE  \E p \in Proc : RemoveFound(p) \/ Publish(p)
BY DEF Next, Launch, Step, TestExists, CheckFound, MakeTmpDir, Backend,
       BackendFails, Verify, Evict, MakeTmpOutput, Chmod, CatStarts, CatEnds,
       CatFails, RemoveBoth, RemoveTmpDir, Exit, MvFails, RemoveTmpOutput,
       CommandFails, Kill

LEMMA PublishValidated ==
  ASSUME IInv, NEW p \in Proc, Publish(p)
  PROVE  Published(p)
BY DEF IInv, WrapperInv, Publish, Published

\* A content takes the final name only from the temporary file of an
\* invocation whose own hash file accepts it.
THEOREM OnlyValidatedPublished == Spec => OnlyValidatedContentIsPublished
<1> DEFINE A == (output' # output /\ output' # Absent)
                  => \E p \in Proc : Published(p)
<1>1. IInv /\ [Next]_wvars => [A]_wvars
  BY OutputChanges, PublishValidated DEF RemoveFound
<1>2. Spec => []IInv BY Invariant, PTL DEF IInv
<1> QED BY <1>1, <1>2, PTL DEF Spec, OnlyValidatedContentIsPublished

\* An invocation whose hash file does not list the download never changes the
\* file: the removal and the rename are both out of its reach.
THEOREM UnlistedNeverChanges == Spec => UnlistedNeverChangesFile
<1> DEFINE A == output' # output =>
                  \E p \in Proc : pc'[p] # pc[p] /\ Lists(opt[p])
<1>1. ASSUME IInv, [Next]_wvars PROVE [A]_wvars
  <2>1. ASSUME NEW p \in Proc, RemoveFound(p)
        PROVE  pc'[p] # pc[p] /\ Lists(opt[p])
    BY <1>1, <2>1 DEF IInv, TypeOK, WrapperInv, RemoveFound, Goto
  <2>2. ASSUME NEW p \in Proc, Publish(p)
        PROVE  pc'[p] # pc[p] /\ Lists(opt[p])
    <3>1. Verdict(opt[p], tmpOutput[p].data) = 0
      BY <1>1, <2>2 DEF IInv, WrapperInv, Publish
    <3>2. Lists(opt[p])
      BY <1>1, <3>1, UnlistedVerdict DEF IInv, TypeOK, Opt
    <3> QED BY <1>1, <2>2, <3>2 DEF IInv, TypeOK, Publish, Goto
  <2> QED BY <1>1, <2>1, <2>2, OutputChanges
<1>2. Spec => []IInv BY Invariant, PTL DEF IInv
<1> QED BY <1>1, <1>2, PTL DEF Spec, UnlistedNeverChangesFile

-----------------------------------------------------------------------------
\* What the steps are to the abstract store: most of them nothing.

LEMMA LaunchAsks ==
  ASSUME IInv, NEW p \in Proc, NEW o \in Opt, Launch(p, o)
  PROVE  Store!Ask(p, o)
BY DEF IInv, TypeOK, Launch, Goto, Store!Ask

\* A step that leaves the file and the requests alone and moves between two
\* running places is a stutter.
LEMMA InnerStutters ==
  ASSUME IInv, NEW p \in Proc, pc[p] \in Running \ {"done"},
         NEW to \in Running \ {"done"}, Goto(p, to), output'.data = output.data, UNCHANGED <<status, opt>>
  PROVE  UNCHANGED Store!vars
BY DEF IInv, TypeOK, Goto, Running, Store!vars

\* Whoever leaves without success gives up.
LEMMA LeaveGivesUp ==
  ASSUME IInv, NEW p \in Proc, pc[p] \in Running,
         NEW how \in {"failed", "killed"}, NEW left, Leave(p, how, left),
         pc[p] = "done" => how = "killed", UNCHANGED output
  PROVE  Store!GiveUp(p)
BY DEF IInv, TypeOK, Leave, Goto, Running, Store!GiveUp

\* The store has a copy of HashFile of its own; its verdicts are the same.
LEMMA SameVerdict ==
  ASSUME NEW o, NEW data
  PROVE  Store!Verdict(o, data) = Verdict(o, data)
BY DEF Verdict, CheckHash, Checked, Failing, CheckOneHash, LinesRead,
       Store!Verdict, Store!CheckHash, Store!Checked, Store!Failing,
       Store!CheckOneHash, Store!LinesRead

LEMMA StepRefines ==
  ASSUME IInv, NEW p \in Proc, Step(p)
  PROVE  Store!Next \/ UNCHANGED Store!vars
<1> USE DEF Running, PCs
<1>1. CASE TestExists(p)
  BY <1>1, InnerStutters DEF TestExists
<1>2. CASE CheckFound(p)
  <2>0. pc[p] = "check" /\ UNCHANGED output BY <1>2 DEF CheckFound
  <2>1. PICK v \in Codes(opt[p], output.data) :
          \/ /\ v \in {0, 2}
             /\ Goto(p, IF v = 0 THEN "done" ELSE "remove")
             /\ UNCHANGED <<status, opt, tmpd, tmpOutput, litter>>
          \/ /\ v \notin {0, 2}
             /\ Leave(p, "failed", {})
    BY <1>2 DEF CheckFound
  <2>2. CASE v = 2
    BY <2>0, <2>1, <2>2, InnerStutters
  <2>3. CASE v = 0
    <3>1. Goto(p, "done") /\ UNCHANGED <<status, opt>> BY <2>1, <2>3
    <3>2. Verdict(opt[p], output.data) = 0
      BY <2>3, CodeMeaning DEF IInv, TypeOK, Opt
    <3>3. Store!Verdict(opt[p], output.data) = 0
      BY <3>2, SameVerdict
    <3>4. Store!Accept(p)
      BY <2>0, <3>1, <3>3 DEF IInv, TypeOK, Goto, Store!Accept
    <3> QED BY <3>4 DEF Store!Next
  <2>4. CASE v \notin {0, 2}
    BY <2>0, <2>1, <2>4, LeaveGivesUp DEF Store!Next
  <2> QED BY <2>2, <2>3, <2>4
<1>3. CASE RemoveFound(p)
  <2>1. Store!Evict(p)
    BY <1>3 DEF IInv, TypeOK, RemoveFound, Goto, Absent, Store!Evict
  <2> QED BY <2>1 DEF Store!Next
<1>4. CASE MakeTmpDir(p) BY <1>4, InnerStutters DEF MakeTmpDir
<1>5. ASSUME NEW data \in Content, NEW exec \in BOOLEAN, Backend(p, data, exec)
      PROVE  UNCHANGED Store!vars
  BY <1>5, InnerStutters DEF Backend
<1>6. CASE BackendFails(p) BY <1>6, InnerStutters DEF BackendFails
<1>7. CASE Verify(p) BY <1>7, InnerStutters DEF Verify
<1>8. CASE Evict(p) BY <1>8, LeaveGivesUp DEF Evict, Store!Next
<1>9. CASE MakeTmpOutput(p) BY <1>9, InnerStutters DEF MakeTmpOutput
<1>10. CASE Chmod(p) BY <1>10, InnerStutters DEF Chmod
<1>11. CASE CatStarts(p) BY <1>11, InnerStutters DEF CatStarts
<1>12. CASE CatEnds(p) BY <1>12, InnerStutters DEF CatEnds
<1>13. CASE CatFails(p) BY <1>13, InnerStutters DEF CatFails
<1>14. CASE RemoveBoth(p) BY <1>14, LeaveGivesUp DEF RemoveBoth, Store!Next
<1>15. CASE RemoveTmpDir(p) BY <1>15, InnerStutters DEF RemoveTmpDir
<1>16. CASE Publish(p)
  <2>1. /\ tmpOutput[p].data \in Content
        /\ Store!Verdict(opt[p], tmpOutput[p].data) = 0
    BY <1>16, SameVerdict DEF IInv, WrapperInv, Publish
  <2>2. PICK d \in Content : d = tmpOutput[p].data BY <2>1
  <2>3. Store!Publish(p, d)
    BY <1>16, <2>1, <2>2 DEF IInv, TypeOK, Publish, Goto, Store!Publish
  <2> QED BY <2>2, <2>3 DEF Store!Next
<1>17. CASE MvFails(p) BY <1>17, InnerStutters DEF MvFails
<1>18. CASE RemoveTmpOutput(p)
  BY <1>18, LeaveGivesUp DEF RemoveTmpOutput, Store!Next
<1>19. CASE CommandFails(p) BY <1>19, LeaveGivesUp DEF CommandFails, Store!Next
<1>20. CASE Kill(p) BY <1>20, LeaveGivesUp DEF Kill, Store!Next
<1>21. CASE Exit(p)
  <2>1. Store!Answer(p)
    BY <1>21 DEF IInv, TypeOK, Exit, Leave, Goto, Store!Answer
  <2> QED BY <2>1 DEF Store!Next
<1> QED
  BY <1>1, <1>2, <1>3, <1>4, <1>5, <1>6, <1>7, <1>8, <1>9, <1>10, <1>11, <1>12,
     <1>13, <1>14, <1>15, <1>16, <1>17, <1>18, <1>19, <1>20, <1>21 DEF Step

\* The wrapper implements the abstract store: whatever fails and whoever is
\* killed, the file changes by an eviction or by a validated publication, and
\* a success is reported only after an instant at which the file is acceptable.
THEOREM WrapperImplementsStore == Spec => ImplementsStore
<1>1. Init => Store!Init
  BY DEF Init, WrapperInit, Store!Init, Absent, NoOption, Store!NoOption
<1>2. ASSUME IInv, [Next]_wvars PROVE [Store!Next]_(Store!vars)
  <2>1. ASSUME NEW p \in Proc, NEW o \in Opt, Launch(p, o) PROVE Store!Next
    BY <1>2, <2>1, LaunchAsks DEF Store!Next, Opt, Store!Request
  <2>2. CASE UNCHANGED wvars BY <2>2 DEF wvars, Store!vars
  <2> QED BY <1>2, <2>1, <2>2, StepRefines DEF Next
<1>3. Spec => []IInv BY Invariant, PTL DEF IInv
<1> QED BY <1>1, <1>2, <1>3, PTL DEF Spec, ImplementsStore, Store!Spec

-----------------------------------------------------------------------------
\* One invocation at a time: nothing comes between the test of the file, the
\* check of its hashes and the report of the success.

Alone == \A p, q \in Proc : p = q

AloneInv ==
  \A p \in Proc :
    /\ status[p] = "ok" => /\ pc[p] = "exited" /\ output # Absent
                          /\ Verdict(opt[p], output.data) = 0
    /\ pc[p] = "check" => output # Absent
    /\ pc[p] = "done" => output # Absent /\ Verdict(opt[p], output.data) = 0

LEMMA AloneStep ==
  ASSUME Alone, IInv, AloneInv, NEW p \in Proc, Step(p)
  PROVE  AloneInv'
<1> USE DEF Alone, IInv, TypeOK, Goto, AloneInv
<1>1. CASE TestExists(p) BY <1>1 DEF TestExists, Verdict
<1>2. CASE CheckFound(p)
  <2>1. PICK v \in Codes(opt[p], output.data) :
          \/ /\ v \in {0, 2}
             /\ Goto(p, IF v = 0 THEN "done" ELSE "remove")
             /\ UNCHANGED <<status, opt, tmpd, tmpOutput, litter>>
          \/ /\ v \notin {0, 2}
             /\ Leave(p, "failed", {})
    BY <1>2 DEF CheckFound
  <2>2. v = 0 => Verdict(opt[p], output.data) = 0 BY CodeMeaning DEF Opt
  <2> QED BY <1>2, <2>1, <2>2 DEF CheckFound, Leave, Verdict
<1>3. CASE RemoveFound(p) BY <1>3 DEF RemoveFound, Verdict
<1>4. CASE Publish(p)
  <2>1. tmpOutput[p] # Absent /\ Verdict(opt[p], tmpOutput[p].data) = 0
    BY <1>4, Distinct DEF Publish, WrapperInv, Absent
  <2> QED BY <1>4, <2>1 DEF Publish, Verdict
<1>5. CASE /\ UNCHANGED <<output, opt>>
           /\ \E how \in {"failed", "killed"} : \E left : Leave(p, how, left)
  BY <1>5 DEF Leave, Verdict
<1>6. CASE /\ UNCHANGED <<output, opt, status>> /\ pc[p] # "exited"
           /\ \E to \in PCs \ {"check", "done", "exited"} : Goto(p, to)
  BY <1>6 DEF Verdict
<1>7. CASE Exit(p) BY <1>7 DEF Exit, Leave, Verdict
<1> QED
  BY <1>1, <1>2, <1>3, <1>4, <1>5, <1>6, <1>7
  DEF Step, PCs, MakeTmpDir, Backend, BackendFails, Verify, Evict,
      MakeTmpOutput, Chmod, CatStarts, CatEnds, CatFails, RemoveBoth,
      RemoveTmpDir, MvFails, RemoveTmpOutput, CommandFails, Kill, Leave

LEMMA AloneInvariant ==
  ASSUME Alone
  PROVE  Spec => []AloneInv
<1>1. Init => AloneInv BY DEF Init, WrapperInit, AloneInv
<1>2. IInv /\ AloneInv /\ [Next]_wvars => AloneInv'
  <2> SUFFICES ASSUME IInv, AloneInv, [Next]_wvars PROVE AloneInv'
    OBVIOUS
  <2>1. ASSUME NEW p \in Proc, NEW o \in Opt, Launch(p, o) PROVE AloneInv'
    BY <2>1 DEF Alone, IInv, TypeOK, AloneInv, Launch, Goto, Verdict
  <2>2. CASE UNCHANGED wvars BY <2>2 DEF wvars, AloneInv, Verdict
  <2> QED BY <2>1, <2>2, AloneStep DEF Next
<1>3. Spec => []IInv BY Invariant, PTL DEF IInv
<1> QED BY <1>1, <1>2, <1>3, PTL DEF Spec

\* An invocation that reports success, with no other one around, has left a
\* file that its hash file accepts.
THEOREM AloneSuccess ==
  ASSUME Alone
  PROVE  Spec => []SuccessMeansFile
<1>1. AloneInv => SuccessMeansFile BY DEF AloneInv, SuccessMeansFile
<1> QED BY <1>1, AloneInvariant, PTL
=============================================================================
