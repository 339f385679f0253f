------------------------- MODULE CheckHashLoopProofs ------------------------
(***************************************************************************)
(* The loop of check-hash computes the verdict CheckHash, for every hash   *)
(* file, name, content and list of exempted names.                         *)
(***************************************************************************)
EXTENDS CheckHashLoop, SequenceTheorems, WellFoundedInduction, TLAPS

TypeOK ==
  /\ hfile \in HashFiles /\ base \in Name /\ data \in Content
  /\ line \in 0 .. LinesRead(hfile)
  /\ nbChecks \in Nat
  /\ code \in 0 .. NotYet
  /\ failed \in BOOLEAN

\* What the loop knows of the lines it has read: it has counted those that
\* concern the file, and none of them failed, or it would have ended.
ReadInv ==
  code = NotYet =>
    /\ nbChecks = 0 <=> \A i \in Checked(hfile, base) : i > line
    /\ \A i \in Failing(hfile, base, data) : i > line

\* The codes it ends with are the ones the other modules reckon with.
VerdictInv ==
  code # NotYet => /\ code \in Outcomes(hfile, base, data, exempt)
                   /\ failed \/ code = CheckHash(hfile, base, data, exempt)

IInv == TypeOK /\ ReadInv /\ VerdictInv

\* A set of numbers that is not empty has a lowest element.
LEMMA Lowest ==
  ASSUME NEW S, S \subseteq Nat, S # {}
  PROVE  \E n \in S : \A m \in S : n <= m
<1> DEFINE Less == {pair \in Nat \X Nat : pair[1] < pair[2]}
<1>1. IsWellFoundedOn(Less, Nat) BY NatLessThanWellFounded DEF OpToRel
<1>2. PICK n \in S : \A m \in S : <<m, n>> \notin Less
  <2> HIDE DEF Less
  <2> QED BY <1>1, WFMin
<1>3. ASSUME NEW m \in S PROVE n <= m
  <2>1. n \in Nat /\ m \in Nat /\ (m < n => <<m, n>> \in Less) OBVIOUS
  <2>2. <<m, n>> \notin Less BY <1>2
  <2> QED BY <2>1, <2>2
<1> QED BY <1>3

\* The lines that are read are lines of the file.
LEMMA LinesReadType ==
  ASSUME NEW hf \in HashFiles
  PROVE  /\ LinesRead(hf) \in Nat
         /\ \A i \in 1 .. LinesRead(hf) : i \in DOMAIN hf.lines /\ hf.lines[i] \in HashLine
         /\ hf.given = "present" => hf.lines \in Seq(HashLine) /\ hf.eol \in BOOLEAN
<1>1. CASE hf \in {NoOption, NoFile}
  BY <1>1 DEF NoOption, NoFile, LinesRead
<1>2. CASE /\ hf = HashFileOf(hf.lines, hf.eol)
           /\ hf.lines \in Seq(HashLine) /\ hf.eol \in BOOLEAN
           /\ hf.lines = << >> => hf.eol
  <2>1. /\ Len(hf.lines) \in Nat /\ DOMAIN hf.lines = 1 .. Len(hf.lines)
        /\ \A i \in 1 .. Len(hf.lines) : hf.lines[i] \in HashLine
    BY <1>2, LenProperties, ElementOfSeq
  <2>2. hf.lines # << >> => Len(hf.lines) >= 1 BY <1>2, EmptySeq
  <2>3. LinesRead(hf) \in 0 .. Len(hf.lines)
    BY <1>2, <2>1, <2>2 DEF LinesRead
  <2> QED BY <1>2, <2>1, <2>3
<1> QED BY <1>1, <1>2, HashFilesAssumption

\* check_one_hash returns one of its codes.
LEMMA CodeType ==
  ASSUME NEW l, NEW d
  PROVE  CheckOneHash(l, d) \in {0, 2, 4}
BY DEF CheckOneHash

LEMMA InitIInv == Init => IInv
<1> SUFFICES ASSUME Init PROVE IInv OBVIOUS
<1>0. LinesRead(hfile) \in Nat BY LinesReadType DEF Init
<1>1. TypeOK
  <2>1. failed \in BOOLEAN BY DEF Init
  <2>2. line \in 0 .. LinesRead(hfile) /\ nbChecks \in Nat /\ code \in 0 .. NotYet
    BY <1>0 DEF Init, NotYet
  <2> QED BY <2>1, <2>2 DEF Init, TypeOK
<1>2. ReadInv BY LinesReadType DEF Init, ReadInv, Checked, Failing
<1> QED BY <1>1, <1>2 DEF Init, IInv, VerdictInv

LEMMA ReadLineIInv == ASSUME IInv, ReadLine PROVE IInv'
<1> DEFINE n == line + 1
           l == hfile.lines[n]
           mine == l.t # "comment" /\ l.f = base
<1>1. /\ line \in Nat /\ n \in 1 .. LinesRead(hfile) /\ LinesRead(hfile) \in Nat
      /\ hfile.given = "present" /\ code = NotYet /\ line' = n
      /\ UNCHANGED <<args, failed>>
  BY LinesReadType DEF IInv, TypeOK, ReadLine
<1>2. /\ n \in Checked(hfile, base) <=> mine
      /\ n \in Failing(hfile, base, data) <=> (mine /\ CheckOneHash(l, data) # 0)
      /\ Failing(hfile, base, data) \subseteq Checked(hfile, base)
      /\ Checked(hfile, base) \subseteq Nat
  BY <1>1 DEF Checked, Failing
<1>3. CASE mine /\ CheckOneHash(l, data) # 0
  <2>1. code' = CheckOneHash(l, data) /\ UNCHANGED nbChecks
    BY <1>3 DEF ReadLine
  <2>2. code' \in {2, 4} BY <1>3, <2>1, CodeType
  <2>3. TypeOK' BY <1>1, <2>1, <2>2 DEF IInv, TypeOK, NotYet, args
  <2>4. \A i \in Failing(hfile, base, data) : n <= i
    BY <1>1, <1>2 DEF IInv, ReadInv
  <2>5. (CHOOSE i \in Failing(hfile, base, data) :
           \A j \in Failing(hfile, base, data) : i <= j) = n
    BY <1>2, <1>3, <2>4
  <2>6. CheckHash(hfile, base, data, exempt) = CheckOneHash(l, data)
    BY <1>1, <1>2, <1>3, <2>5 DEF CheckHash
  <2>7. code' \in Outcomes(hfile, base, data, exempt)
    BY <2>1, <2>6 DEF Outcomes
  <2> QED
    BY <1>1, <2>1, <2>2, <2>3, <2>6, <2>7 DEF IInv, ReadInv, VerdictInv, NotYet, args
<1>4. CASE ~(mine /\ CheckOneHash(l, data) # 0)
  <2>1. code' = code /\ nbChecks' = IF mine THEN nbChecks + 1 ELSE nbChecks
    BY <1>4 DEF ReadLine
  <2>2. TypeOK' BY <1>1, <2>1 DEF IInv, TypeOK, args
  <2>3. \A i \in Failing(hfile, base, data) : i > n
    BY <1>1, <1>2, <1>4 DEF IInv, ReadInv
  <2>4. nbChecks' = 0 <=> \A i \in Checked(hfile, base) : i > n
    BY <1>1, <1>2, <2>1 DEF IInv, TypeOK, ReadInv
  <2> QED BY <1>1, <2>1, <2>2, <2>3, <2>4 DEF IInv, ReadInv, VerdictInv, args
<1> QED BY <1>3, <1>4

\* A sum command fails only on a line whose digest the loop computes: no line
\* before it failed.
LEMMA SumFailsIInv == ASSUME IInv, SumFails PROVE IInv'
<1> DEFINE n == line + 1
<1>1. /\ line \in Nat /\ n \in 1 .. LinesRead(hfile) /\ LinesRead(hfile) \in Nat
      /\ hfile.given = "present" /\ code = NotYet /\ line' = n
      /\ UNCHANGED <<args, nbChecks>> /\ code' = 2 /\ failed' = TRUE
      /\ hfile.lines[n].t = "digest" /\ hfile.lines[n].f = base
  BY LinesReadType DEF IInv, TypeOK, SumFails
<1>2. /\ \A i \in Failing(hfile, base, data) : n <= i
      /\ n \in Checked(hfile, base)
  <2>1. \A i \in Failing(hfile, base, data) : i > line /\ i \in Nat
    BY <1>1 DEF IInv, ReadInv, Failing, Checked
  <2> QED BY <1>1, <2>1 DEF Checked
<1>3. n \in Digested(hfile, base, data) BY <1>1, <1>2 DEF Digested
<1>4. 2 \in Outcomes(hfile, base, data, exempt) BY <1>1, <1>3 DEF Outcomes
<1>5. TypeOK' BY <1>1 DEF IInv, TypeOK, NotYet, args
<1> QED BY <1>1, <1>4, <1>5 DEF IInv, ReadInv, VerdictInv, NotYet, args

LEMMA EndOfFileIInv == ASSUME IInv, EndOfFile PROVE IInv'
<1>1. /\ Checked(hfile, base) \subseteq 1 .. line /\ line \in Nat
      /\ Failing(hfile, base, data) \subseteq Checked(hfile, base)
  BY LinesReadType DEF IInv, TypeOK, EndOfFile, Checked, Failing
<1>2. /\ nbChecks = 0 <=> Checked(hfile, base) = {}
      /\ Failing(hfile, base, data) = {}
  BY <1>1 DEF IInv, ReadInv, EndOfFile
<1>3. code' = CheckHash(hfile, base, data, exempt) /\ code' \in {0, 3}
  BY <1>2 DEF EndOfFile, CheckHash
<1>4. UNCHANGED <<args, line, nbChecks, failed>> BY DEF EndOfFile
<1>5. TypeOK' BY <1>3, <1>4 DEF IInv, TypeOK, NotYet, args
<1> QED BY <1>3, <1>4, <1>5 DEF IInv, ReadInv, VerdictInv, Outcomes, NotYet, args

LEMMA NextIInv == IInv /\ [Next]_vars => IInv'
<1> SUFFICES ASSUME IInv, [Next]_vars PROVE IInv' OBVIOUS
<1>1. CASE BailEarly
  <2>1. /\ code' = 0 /\ UNCHANGED <<args, line, nbChecks, failed>>
        /\ hfile.given # "present"
    BY <1>1 DEF BailEarly
  <2>2. TypeOK' BY <2>1 DEF IInv, TypeOK, NotYet, args
  <2> QED
    BY <2>1, <2>2 DEF IInv, ReadInv, VerdictInv, Outcomes, NotYet, CheckHash, args
<1>2. CASE ReadLine BY <1>2, ReadLineIInv
<1>3. CASE EndOfFile BY <1>3, EndOfFileIInv
<1>4. CASE UNCHANGED vars
  BY <1>4 DEF vars, args, IInv, TypeOK, ReadInv, VerdictInv
<1>5. CASE SumFails BY <1>5, SumFailsIInv
<1>6. CASE CommandFails
  <2>1. code' = 1 /\ failed' = TRUE /\ UNCHANGED <<args, line, nbChecks>>
    BY <1>6 DEF CommandFails
  <2>2. TypeOK' BY <2>1 DEF IInv, TypeOK, NotYet, args
  <2> QED
    BY <2>1, <2>2 DEF IInv, ReadInv, VerdictInv, Outcomes, NotYet, args
<1> QED BY <1>1, <1>2, <1>3, <1>4, <1>5, <1>6 DEF Next

\* A verdict of 0 on a complete hash file means that every digest recorded for
\* the file agrees, and one of 2 that one of them differs, if nothing failed.
LEMMA Justified == IInv => VerdictsAreJustified
<1> SUFFICES ASSUME IInv PROVE VerdictsAreJustified OBVIOUS
<1>1. code # NotYet => /\ code \in Outcomes(hfile, base, data, exempt)
                       /\ failed \/ code = CheckHash(hfile, base, data, exempt)
  BY DEF IInv, VerdictInv
<1>0. code = 0 => CheckHash(hfile, base, data, exempt) = 0
  BY <1>1 DEF Outcomes, NotYet
<1> DEFINE F == Failing(hfile, base, data)
           first == CHOOSE i \in F : \A j \in F : i <= j
<1>2. ASSUME code = 0, hfile.given = "present", hfile.eol,
             NEW i \in DOMAIN hfile.lines,
             hfile.lines[i].t = "digest", hfile.lines[i].f = base
      PROVE  hfile.lines[i].h = data
  <2>1. i \in Checked(hfile, base)
    <3>1. hfile.lines \in Seq(HashLine) BY <1>2, LinesReadType DEF IInv, TypeOK
    <3>2. i \in 1 .. LinesRead(hfile) BY <1>2, <3>1, LenProperties DEF LinesRead
    <3> QED BY <1>2, <3>2 DEF Checked
  <2>2. SUFFICES ASSUME i \in F PROVE FALSE
    BY <1>2, <2>1 DEF Failing, CheckOneHash
  <2>3. \E k \in F : \A j \in F : k <= j
    <3>1. F \subseteq Nat /\ F # {} BY <2>2 DEF Failing, Checked
    <3> HIDE DEF F
    <3> QED BY <3>1, Lowest
  <2>4. first \in F BY <2>3
  <2>5. CheckOneHash(hfile.lines[first], data) # 0 BY <2>4 DEF Failing
  <2>6. CheckHash(hfile, base, data, exempt) = CheckOneHash(hfile.lines[first], data)
    BY <1>2, <2>1, <2>2 DEF CheckHash
  <2> QED BY <1>0, <1>2, <2>5, <2>6
<1>3. ASSUME code = 2, ~failed
      PROVE  \E i \in DOMAIN hfile.lines : /\ hfile.lines[i].f = base
                                           /\ hfile.lines[i].t = "digest"
                                           /\ hfile.lines[i].h # data
  <2>1. CheckHash(hfile, base, data, exempt) = 2 BY <1>1, <1>3 DEF NotYet
  <2>2. F # {} /\ CheckOneHash(hfile.lines[first], data) = 2
    BY <2>1 DEF CheckHash
  <2>3. first \in F
    <3>1. F \subseteq Nat /\ F # {} BY <2>2 DEF Failing, Checked
    <3>2. \E k \in F : \A j \in F : k <= j
      <4> HIDE DEF F
      <4> QED BY <3>1, Lowest
    <3> QED BY <3>2
  <2>4. /\ first \in 1 .. LinesRead(hfile) /\ hfile.lines[first].t # "comment"
        /\ hfile.lines[first].f = base
    BY <2>3 DEF Failing, Checked
  <2>5. first \in DOMAIN hfile.lines /\ hfile.lines[first] \in HashLine
    BY <2>4, LinesReadType DEF IInv, TypeOK
  <2> HIDE DEF first, F
  <2>6. hfile.lines[first].t = "digest" /\ hfile.lines[first].h # data
    BY <2>2, <2>4, <2>5 DEF CheckOneHash, HashLine
  <2> QED BY <2>4, <2>5, <2>6
<1> QED BY <1>1, <1>2, <1>3 DEF VerdictsAreJustified

\* check-hash, reading its file line by line and leaving at the first line
\* that fails, ends with the verdict the other modules use (CheckHash), for any
\* number of lines in any order.  A command that fails under set -e, or a sum
\* command that fails in its pipe, adds only the codes of Outcomes and never a
\* 0: that vouches for every digest recorded in a complete hash file.  A 2, on
\* which the wrapper removes the file, is given for a digest that differs, and
\* besides only where a sum command failed.
THEOREM LoopJustifiesVerdicts == Spec => []VerdictsAreJustified
BY InitIInv, NextIInv, Justified, PTL DEF Spec
=============================================================================
