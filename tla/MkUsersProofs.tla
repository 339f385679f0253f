--------------------------- MODULE MkUsersProofs ----------------------------
(***************************************************************************)
(* For every users table, skeleton and range of ids: the account files     *)
(* stay well formed, no two users ever share a uid, a run that ends well   *)
(* obeys its table, and a further run with that table changes nothing.     *)
(***************************************************************************)
EXTENDS MkUsers, SequenceTheorems, FiniteSetTheorems, FunctionTheorems,
        WellFoundedInduction, TLAPS

\* Between the removal of a user and its return nobody else has its uid.
UidFree ==
  (phase \in UserPhases /\ step = "removed") =>
    /\ uid # None
    /\ \A u \in User : u # L.user => passwd[u].uid # uid

IInv == TypeOK /\ UidsUnique /\ UidFree

\* A set of numbers that is not empty has a lowest element.
LEMMA LowestType ==
  ASSUME NEW S, S \subseteq Nat, S # {}
  PROVE  Lowest(S) \in S /\ \A m \in S : Lowest(S) <= m
<1> DEFINE R == {ss \in Nat \X Nat : ss[1] < ss[2]}
<1>1. IsWellFoundedOn(R, Nat)
  BY NatLessThanWellFounded DEF OpToRel
<1>2. PICK n \in S : \A m \in S : <<m, n>> \notin R
  <2> HIDE DEF R
  <2> QED BY <1>1, WFMin
<1>3. \A m \in S : n <= m
  <2> SUFFICES ASSUME NEW m \in S, m < n PROVE FALSE
    BY <1>2
  <2>1. <<m, n>> \in R OBVIOUS
  <2> QED BY <1>2, <2>1
<1> QED BY <1>3 DEF Lowest

\* The line a running loop is at.
LEMMA LineType ==
  ASSUME TypeOK, phase \in Running
  PROVE  /\ L \in Line
         /\ table \in Seq(Line) /\ line \in 1 .. Len(table)
<1>1. table \in Seq(Line)
  <2>1. << >> \in Seq(Line) OBVIOUS
  <2> QED BY <2>1, MkUsersAssumption DEF TypeOK
<1>2. line \in 1 .. Len(table) BY <1>1 DEF TypeOK
<1> QED BY <1>1, <1>2 DEF L

\* The sed of add_user_to_group keeps a list of names.
LEMMA BlankedType ==
  ASSUME NEW T, Blank \in T, NEW ms \in Seq(T), NEW u
  PROVE  Blanked(ms, u) \in Seq(T)
<1> DEFINE e(i) == IF ms[i] = u THEN Blank ELSE ms[i]
<1>1. Len(ms) \in Nat /\ ms \in [1 .. Len(ms) -> T] /\ DOMAIN ms = 1 .. Len(ms)
  BY LenProperties
<1>2. \A i \in 1 .. Len(ms) : e(i) \in T
  BY <1>1
<1>3. Blanked(ms, u) = [i \in 1 .. Len(ms) |-> e(i)]
  BY <1>1 DEF Blanked
<1>4. [i \in 1 .. Len(ms) |-> e(i)] \in Seq(T)
  <2> HIDE DEF e
  <2> QED BY <1>1, <1>2, IsASeq
<1> QED BY <1>3, <1>4

LEMMA SqueezedType ==
  ASSUME NEW T, NEW s \in Seq(T), Len(s) >= 1, s[Len(s)] # Blank
  PROVE  Squeezed(s) \in Seq(T)
<1> DEFINE K == {i \in 2 .. Len(s) : s[i] # Blank}
           front == IF s[1] = Blank THEN << >> ELSE <<s[1]>>
<1>1. CASE Len(s) = 1 BY <1>1 DEF Squeezed
<1>2. CASE Len(s) # 1
  <2>0. Len(s) \in Nat /\ \A i \in 1 .. Len(s) : s[i] \in T
    BY LenProperties
  <2>1. K \subseteq 2 .. Len(s) /\ Len(s) \in K
    <3>1. \A n \in Nat : n >= 1 /\ n # 1 => n \in 2 .. n OBVIOUS
    <3>2. Len(s) \in 2 .. Len(s)
      <4> HIDE DEF K, front
      <4> QED BY <1>2, <2>0, <3>1
    <3> QED BY <3>2
  <2>2. Lowest(K) \in 2 .. Len(s)
    <3>1. K \subseteq Nat BY <2>0, <2>1
    <3> HIDE DEF K
    <3> QED BY <2>1, <3>1, LowestType
  <2>3. \A i \in Lowest(K) .. Len(s) : s[i] \in T BY <2>0, <2>2
  <2>4. SubSeq(s, Lowest(K), Len(s)) \in Seq(T)
    <3> HIDE DEF K
    <3> QED BY <2>0, <2>2, <2>3, SubSeqProperties
  <2>5. front \in Seq(T)
    <3>1. s[1] \in T BY <2>0, <1>2
    <3>2. << >> \in Seq(T) /\ <<s[1]>> \in Seq(T) BY <3>1
    <3> QED BY <3>2
  <2>6. front \o SubSeq(s, Lowest(K), Len(s)) \in Seq(T)
    <3> HIDE DEF K, front
    <3> QED BY <2>4, <2>5, ConcatProperties
  <2> QED BY <1>2, <2>6 DEF Squeezed
<1> QED BY <1>1, <1>2

LEMMA JoinedType ==
  ASSUME NEW ms \in Seq(User \cup {Blank}), NEW u \in User
  PROVE  Joined(ms, u) \in Seq(User \cup {Blank})
<1> DEFINE T == User \cup {Blank}
<1>1. Blanked(ms, u) \in Seq(T) BY BlankedType
<1> HIDE DEF T
<1>2. u \in T BY DEF T
<1> DEFINE b == Blanked(ms, u)
           s == Append(b, u)
<1>3. s \in Seq(T) /\ Len(s) >= 1 /\ s[Len(s)] = u
  <2> HIDE DEF b
  <2>1. Len(b) \in Nat BY <1>1, LenProperties DEF b
  <2>2. s \in Seq(T) /\ Len(s) = Len(b) + 1 /\ s[Len(b) + 1] = u
    BY <1>1, <1>2, AppendProperties DEF b
  <2> QED BY <2>1, <2>2
<1> HIDE DEF s
<1>4. u # Blank BY MkUsersAssumption
<1>5. Joined(ms, u) \in Seq(T) BY <1>3, <1>4, SqueezedType DEF Joined, s, b
<1> QED BY <1>5 DEF T
-----------------------------------------------------------------------------
\* What the ways out of an action leave.

LEMMA PhaseType ==
  /\ Running = {"fixed groups", "auto groups", "more groups",
                "fixed users", "auto users"}
  /\ \A p \in Running : NextPhase[p] \in Running \cup {"done"}
BY DEF Running, NextPhase

LEMMA TableLength ==
  ASSUME TypeOK
  PROVE  Len(table) \in Nat
<1>1. table \in Seq(Line)
  <2>1. << >> \in Seq(Line) OBVIOUS
  <2> QED BY <2>1, MkUsersAssumption DEF TypeOK
<1> QED BY <1>1, LenProperties

LEMMA MissingType == Missing \in Entry /\ Missing.uid = None /\ None \in Int
BY DEF Missing, Entry, None

\* The part of TypeOK that Advance and Stop see to.
Position ==
  /\ phase \in Running \cup Ended
  /\ line \in 1 .. Len(table) + 1
  /\ phase \in Running => line <= Len(table)
  /\ step \in {"start", "removed", "added"}
  /\ item \in Nat \ {0}
  /\ uid \in Int

LEMMA AdvanceType ==
  ASSUME TypeOK, phase \in Running, Advance, table' = table
  PROVE  Position' /\ step' = "start"
<1>1. Len(table) \in Nat BY TableLength
<1>2. line \in 1 .. Len(table) + 1 /\ line <= Len(table) BY DEF TypeOK
<1>3. phase' \in Running \cup Ended
  BY PhaseType DEF Advance, Ended
<1>4. line' \in 1 .. Len(table) /\ step' = "start" /\ item' = 1 /\ uid' \in Int
  BY <1>1, <1>2, MissingType DEF Advance
<1> QED BY <1>1, <1>3, <1>4 DEF Position

LEMMA StopType ==
  ASSUME TypeOK, NEW how \in {"failed", "killed"}, Stop(how)
  PROVE  Position' /\ step' = "start"
<1>1. Len(table) \in Nat BY TableLength
<1>2. how \in Ended /\ how \notin Running BY PhaseType DEF Ended
<1> QED BY <1>1, <1>2, MissingType DEF Stop, Position

\* The ids that the generators give are numbers.
LEMMA GidType ==
  ASSUME TypeOK, NEW g \in Group, NEW gid \in Int
  PROVE  GidFor(g, gid) \in Int
<1> DEFINE S == {n \in MinId .. MaxId : GroupsWith(n) = {}}
<1>1. S \subseteq Nat /\ \A n \in S : n \in Int BY MkUsersAssumption
<1>2. Lowest(S) \in Int
  <2> HIDE DEF S
  <2>1. CASE S = {}
    <3>1. Lowest(S) = None BY <2>1, Zenon DEF Lowest
    <3> QED BY <3>1, MissingType, Zenon
  <2>2. CASE S # {}
    <3>1. Lowest(S) \in S BY <1>1, <2>2, LowestType
    <3> QED BY <1>1, <3>1, Zenon
  <2> QED BY <2>1, <2>2
<1>3. group[g].gid \in Int BY DEF TypeOK, GroupEntry
<1> QED BY <1>2, <1>3 DEF GidFor

\* The uid that add_one_user gives is a number that no other user has.
LEMMA UidType ==
  ASSUME TypeOK, UidsUnique, L \in Line, L.user \in User, Valid(L),
         UidFor(L.user, L.uid) # None
  PROVE  /\ UidFor(L.user, L.uid) \in Int
         /\ \A u \in User : u # L.user => passwd[u].uid # UidFor(L.user, L.uid)
<1> DEFINE S == {n \in MinId .. MaxId : UsersWith(n) = {}}
           old == passwd[L.user].uid
<1>0. L.uid \in Int /\ old \in Int BY DEF TypeOK, Line, Entry
<1>1. CASE L.uid # None
  <2>1. UidFor(L.user, L.uid) = L.uid BY <1>1 DEF UidFor
  <2>2. UsersWith(L.uid) \subseteq {L.user} BY <1>1 DEF Valid
  <2> QED BY <1>0, <2>1, <2>2 DEF UsersWith
<1>2. CASE L.uid = None /\ old # None
  <2>1. UidFor(L.user, L.uid) = old BY <1>2 DEF UidFor
  <2> QED BY <1>0, <1>2, <2>1 DEF UidsUnique, SameUid
<1>3. CASE L.uid = None /\ old = None
  <2>1. UidFor(L.user, L.uid) = Lowest(S) BY <1>3 DEF UidFor
  <2>2. S \subseteq Nat BY MkUsersAssumption
  <2>3. S # {} BY <2>1 DEF Lowest
  <2>4. Lowest(S) \in S
    <3> HIDE DEF S
    <3> QED BY <2>2, <2>3, LowestType
  <2>5. Lowest(S) \in Int /\ UsersWith(Lowest(S)) = {}
    <3> DEFINE n == Lowest(S)
    <3>1. n \in S BY <2>4
    <3> HIDE DEF n
    <3>2. n \in Int /\ UsersWith(n) = {} BY <3>1, MkUsersAssumption
    <3> QED BY <3>2 DEF n
  <2> HIDE DEF S
  <2> QED BY <2>1, <2>5 DEF UsersWith
<1> QED BY <1>1, <1>2, <1>3

\* Taking a user out of the file gives nobody a uid.
LEMMA RemovedUnique ==
  ASSUME TypeOK, UidsUnique, NEW n, passwd' = [passwd EXCEPT ![n] = Missing]
  PROVE  passwd' \in [User -> Entry] /\ UidsUnique'
<1>1. passwd' \in [User -> Entry] BY MissingType DEF TypeOK
<1>2. \A u \in User : passwd'[u].uid = None \/ passwd'[u] = passwd[u]
  BY MissingType DEF TypeOK
<1> QED BY <1>1, <1>2 DEF UidsUnique, SameUid

\* Nor does putting back the user that was removed.
LEMMA AppendedUnique ==
  ASSUME IInv, AddsUser("removed"), L \in Line, L.user \in User,
         passwd' = [passwd EXCEPT ![L.user] =
                      [uid |-> uid, gid |-> group[L.group].gid]]
  PROVE  passwd' \in [User -> Entry] /\ UidsUnique'
<1>1. uid \in Int /\ group[L.group].gid \in Int
  BY DEF IInv, TypeOK, Line, GroupEntry
<1>2. passwd' \in [User -> Entry]
  BY <1>1 DEF IInv, TypeOK, Entry
<1>3. passwd'[L.user].uid = uid /\ \A u \in User \ {L.user} : passwd'[u] = passwd[u]
  BY DEF IInv, TypeOK
<1>4. \A u \in User \ {L.user} : passwd[u].uid # uid
  BY DEF IInv, UidFree, AddsUser
<1> HIDE DEF UidsUnique
<1>5. UidsUnique' BY <1>3, <1>4 DEF IInv, UidsUnique, SameUid
<1> QED BY <1>2, <1>5
-----------------------------------------------------------------------------
LEMMA InitIInv == Init => IInv
<1> SUFFICES ASSUME Init PROVE IInv OBVIOUS
<1>1. Len(table) = 0 BY DEF Init
<1>2. owner \in [Homes -> Entry] BY MissingType DEF Init
<1>3. passwd \in [User -> Entry] /\ shadow \subseteq User
      /\ group \in [Group -> GroupEntry]
  BY MkUsersAssumption DEF Init
<1>4. phase \in Ended /\ phase \notin Running
  BY PhaseType DEF Init, Ended
<1>5. runs \in 0 .. MaxRuns /\ breaks \in 0 .. MaxBreaks
  BY MkUsersAssumption DEF Init
<1>6. table \in Tables \cup {<< >>} /\ line \in 1 .. Len(table) + 1
      /\ step = "start" /\ item \in Nat \ {0} /\ uid \in Int
  BY <1>1, MissingType DEF Init
<1>7. TypeOK
  BY <1>2, <1>3, <1>4, <1>5, <1>6 DEF TypeOK
<1>8. UidsUnique BY MkUsersAssumption DEF Init, UidsUnique
<1>9. UidFree BY DEF Init, UidFree
<1> QED BY <1>7, <1>8, <1>9 DEF IInv

\* An action that leaves the passwd file alone, and does not end between the
\* removal of a user and its return, needs no more than its types.
LEMMA QuietStep ==
  ASSUME IInv, UNCHANGED passwd, step' # "removed" \/ phase' \notin UserPhases
  PROVE  UidsUnique' /\ UidFree'
BY DEF IInv, UidsUnique, UidFree

LEMMA RunStep ==
  ASSUME IInv, NEW t \in Tables, Run(t)
  PROVE  IInv'
<1>1. t \in Seq(Line) BY MkUsersAssumption
<1>2. Len(t) \in Nat /\ (t # << >> => Len(t) >= 1)
  BY <1>1, EmptySeq, LenProperties
<1>3. owner' \in [Homes -> Entry] BY MissingType DEF Run
<1>4. phase' \in Running \cup Ended /\ (phase' \in Running => t # << >>)
  BY PhaseType DEF Run, Ended
<1>5. runs' \in 0 .. MaxRuns
  <2>1. runs \in 0 .. MaxRuns BY DEF IInv, TypeOK
  <2>2. runs < MaxRuns /\ runs' = runs + 1 BY DEF Run
  <2> QED BY <2>1, <2>2, MkUsersAssumption
<1>6. TypeOK'
  <2>1. table' = t /\ line' = 1 /\ UNCHANGED <<passwd, shadow, group, step, item, uid, breaks>>
    BY DEF Run
  <2>2. line' \in 1 .. Len(table') + 1 /\ (phase' \in Running => line' <= Len(table'))
    BY <1>2, <1>4, <2>1
  <2> QED BY <1>3, <1>4, <1>5, <2>1, <2>2 DEF IInv, TypeOK
<1>7. UidsUnique' BY DEF IInv, UidsUnique, Run
<1>8. UidFree' BY DEF Run, UidFree, UserPhases
<1> QED BY <1>6, <1>7, <1>8 DEF IInv

LEMMA SkipStep == ASSUME IInv, SkipLine PROVE IInv'
<1>1. Position' /\ step' = "start" BY AdvanceType DEF IInv, SkipLine
<1>2. TypeOK'
  BY <1>1 DEF IInv, TypeOK, Position, SkipLine, files, count
<1> QED BY <1>1, <1>2, QuietStep DEF IInv, SkipLine, files

LEMMA AddOneGroupStep == ASSUME IInv, AddOneGroup PROVE IInv'
<1>1. phase \in Running /\ L \in Line BY LineType DEF IInv, AddOneGroup, AddsGroup
<1>2. Wanted.gid \in Int BY <1>1, MissingType DEF Wanted, Line
<1>3. group' \in [Group -> GroupEntry]
  <2>0. group \in [Group -> GroupEntry] BY DEF IInv, TypeOK
  <2>1. CASE Wanted.name \in Group
    <3> DEFINE gid == GidFor(Wanted.name, Wanted.gid)
               entry == [gid |-> gid, members |-> << >>]
    <3>1. gid \in Int BY <1>2, <2>1, GidType DEF IInv
    <3>2. << >> \in Seq(User \cup {Blank}) OBVIOUS
    <3> HIDE DEF gid
    <3>3. entry \in GroupEntry BY <3>1, <3>2 DEF GroupEntry
    <3> HIDE DEF entry
    <3>4. group' = [group EXCEPT ![Wanted.name] = entry]
      BY DEF AddOneGroup, gid, entry
    <3> QED BY <2>0, <3>3, <3>4
  <2>2. CASE Wanted.name \notin Group
    <3>1. group' = group BY <2>0, <2>2 DEF AddOneGroup
    <3> QED BY <2>0, <3>1
  <2> QED BY <2>1, <2>2
<1>4. Position' /\ (step' # "removed" \/ phase' \notin UserPhases)
  <2>1. CASE Advance
    BY <1>1, <2>1, AdvanceType DEF IInv, AddOneGroup
  <2>2. CASE item' = item + 1 /\ UNCHANGED <<phase, line, step, uid>>
    <3>1. table' = table /\ phase \notin UserPhases
      BY DEF AddOneGroup, AddsGroup
    <3>2. item' \in Nat \ {0} BY <2>2 DEF IInv, TypeOK
    <3> QED BY <2>2, <3>1, <3>2 DEF IInv, TypeOK, Position
  <2> QED BY <2>1, <2>2 DEF AddOneGroup
<1>5. TypeOK'
  BY <1>3, <1>4 DEF IInv, TypeOK, Position, AddOneGroup, count
<1> QED BY <1>4, <1>5, QuietStep DEF IInv, AddOneGroup

\* The four actions that end a run early, or refuse a user.
LEMMA StopStep ==
  ASSUME IInv, NEW how \in {"failed", "killed"}, Stop(how), UNCHANGED files,
         breaks' \in 0 .. MaxBreaks
  PROVE  IInv'
<1>1. Position' /\ step' = "start" BY StopType DEF IInv
<1>2. TypeOK' BY <1>1 DEF IInv, TypeOK, Position, Stop, files
<1> QED BY <1>1, <1>2, QuietStep DEF IInv, files

\* A user action works on a line of the table, and on a user.
LEMMA UserLine ==
  ASSUME IInv, NEW at, AddsUser(at)
  PROVE  phase \in Running /\ L \in Line /\ L.user \in User /\ L.group \in Group
<1>1. phase \in Running BY PhaseType DEF AddsUser, UserPhases
<1>2. L \in Line BY <1>1, LineType DEF IInv
<1>3. L.user # NoUser BY DEF AddsUser, Selected, UserPhases
<1> QED BY <1>1, <1>2, <1>3 DEF Line

LEMMA RemoveUserStep == ASSUME IInv, RemoveUser PROVE IInv'
<1>1. phase \in Running /\ L \in Line /\ L.user \in User
  BY UserLine DEF RemoveUser
<1>2. passwd' \in [User -> Entry] /\ UidsUnique'
  BY RemovedUnique DEF IInv, RemoveUser
<1>3. uid' \in Int /\ uid' # None
      /\ \A u \in User : u # L.user => passwd[u].uid # uid'
  BY <1>1, UidType DEF IInv, RemoveUser
<1>4. shadow' \subseteq User BY DEF IInv, TypeOK, RemoveUser
<1>5. TypeOK'
  BY <1>2, <1>3, <1>4 DEF IInv, TypeOK, RemoveUser, count
<1>6. UidFree'
  <2>1. L' = L BY DEF L, RemoveUser
  <2>2. \A u \in User : u # L.user => passwd'[u] = passwd[u]
    BY DEF IInv, TypeOK, RemoveUser
  <2> QED BY <1>3, <2>1, <2>2 DEF UidFree
<1> QED BY <1>2, <1>5, <1>6 DEF IInv

LEMMA AppendUserStep == ASSUME IInv, AppendUser PROVE IInv'
<1>1. L \in Line /\ L.user \in User BY UserLine DEF AppendUser
<1>2. passwd' \in [User -> Entry] /\ UidsUnique'
  BY <1>1, AppendedUnique DEF AppendUser
<1>3. shadow' \subseteq User BY <1>1 DEF IInv, TypeOK, AppendUser
<1>4. TypeOK' BY <1>2, <1>3 DEF IInv, TypeOK, AppendUser, count
<1>5. UidFree' BY DEF UidFree, AppendUser
<1> QED BY <1>2, <1>4, <1>5 DEF IInv

LEMMA AddUserToGroupStep == ASSUME IInv, AddUserToGroup PROVE IInv'
<1>1. L \in Line /\ L.user \in User BY UserLine DEF AddUserToGroup
<1> DEFINE g == L.groups[item]
<1>2. g \in Group
  <2>1. L.groups \in Seq(Group) BY <1>1 DEF Line
  <2>2. item \in 1 .. Len(L.groups)
    BY <2>1, LenProperties DEF IInv, TypeOK, AddUserToGroup
  <2> QED BY <2>1, <2>2, LenProperties
<1> DEFINE ms == IF group[g] = GoneGroup THEN group[g].members
                 ELSE Joined(group[g].members, L.user)
<1>3. group' = [group EXCEPT ![g].members = ms] BY DEF AddUserToGroup
<1> HIDE DEF g
<1>4. group[g] \in GroupEntry /\ group \in [Group -> GroupEntry]
  BY <1>2 DEF IInv, TypeOK
<1>5. ms \in Seq(User \cup {Blank})
  <2>1. group[g].members \in Seq(User \cup {Blank}) BY <1>4 DEF GroupEntry
  <2> QED BY <1>1, <2>1, JoinedType
<1> HIDE DEF ms
<1>6. group' \in [Group -> GroupEntry]
  BY <1>2, <1>3, <1>4, <1>5 DEF GroupEntry
<1>7. item' \in Nat \ {0} BY DEF IInv, TypeOK, AddUserToGroup
<1>8. TypeOK' BY <1>6, <1>7 DEF IInv, TypeOK, AddUserToGroup, count
<1>9. step' # "removed" BY DEF AddUserToGroup, AddsUser
<1> QED BY <1>8, <1>9, QuietStep DEF IInv, AddUserToGroup

LEMMA ChownHomeStep == ASSUME IInv, ChownHome PROVE IInv'
<1>1. phase \in Running /\ L.user \in User BY UserLine DEF ChownHome
<1>2. Position' /\ step' = "start"
  BY <1>1, AdvanceType DEF IInv, ChownHome
<1>3. owner' \in [Homes -> Entry]
  <2>1. owner \in [Homes -> Entry] /\ passwd[L.user] \in Entry
    BY <1>1 DEF IInv, TypeOK
  <2> QED BY <2>1 DEF ChownHome, Chown
<1>4. TypeOK' BY <1>2, <1>3 DEF IInv, TypeOK, Position, ChownHome, count
<1> QED BY <1>2, <1>4, QuietStep DEF IInv, ChownHome

LEMMA BreakStep == ASSUME IInv, Break PROVE IInv'
<1>1. Position' /\ step' = "start" BY StopType DEF IInv, Break
<1>2. /\ passwd' \in [User -> Entry] /\ UidsUnique'
      /\ group' \in [Group -> GroupEntry]
  <2>0. /\ passwd \in [User -> Entry] /\ UidsUnique
        /\ group \in [Group -> GroupEntry]
    BY DEF IInv, TypeOK
  <2>1. CASE UNCHANGED <<passwd, shadow, group>>
    BY <2>0, <2>1 DEF UidsUnique
  <2>2. CASE /\ group' = [group EXCEPT ![Wanted.name] = GoneGroup]
             /\ UNCHANGED <<passwd, shadow>>
    <3>1. << >> \in Seq(User \cup {Blank}) OBVIOUS
    <3>2. GoneGroup \in GroupEntry
      BY <3>1, MissingType DEF GoneGroup, GroupEntry
    <3>3. UidsUnique' BY <2>0, <2>2 DEF UidsUnique
    <3> QED BY <2>0, <2>2, <3>2, <3>3
  <2>3. CASE /\ passwd' = [passwd EXCEPT ![L.user] = Missing]
             /\ UNCHANGED <<shadow, group>>
    BY <2>0, <2>3, RemovedUnique DEF IInv
  <2>4. CASE /\ AddsUser("removed")
             /\ passwd' = [passwd EXCEPT ![L.user] =
                             [uid |-> uid, gid |-> group[L.group].gid]]
             /\ UNCHANGED <<shadow, group>>
    <3>1. L \in Line /\ L.user \in User BY <2>4, UserLine
    <3> QED BY <2>0, <2>4, <3>1, AppendedUnique
  <2> QED BY <2>1, <2>2, <2>3, <2>4 DEF Break
<1>3. shadow' \subseteq User BY DEF IInv, TypeOK, Break
<1>4. breaks' \in 0 .. MaxBreaks
  <2>1. breaks \in 0 .. MaxBreaks BY DEF IInv, TypeOK
  <2>2. breaks < MaxBreaks /\ breaks' = breaks + 1 BY DEF Break
  <2> QED BY <2>1, <2>2, MkUsersAssumption
<1>5. UNCHANGED <<owner, table, found, runs>> BY DEF Break, Stop
<1>6. TypeOK' BY <1>1, <1>2, <1>3, <1>4, <1>5 DEF IInv, TypeOK, Position
<1>7. UidFree' BY <1>1 DEF UidFree
<1> QED BY <1>2, <1>6, <1>7 DEF IInv

LEMMA NextIInv == IInv /\ [Next]_vars => IInv'
<1> SUFFICES ASSUME IInv, [Next]_vars PROVE IInv' OBVIOUS
<1>1. CASE UNCHANGED vars
  BY <1>1 DEF vars, IInv, TypeOK, UidsUnique, UidFree, L
<1>2. CASE \E t \in Tables : Run(t) BY <1>2, RunStep
<1>3. CASE SkipLine BY <1>3, SkipStep
<1>4. CASE AddOneGroup BY <1>4, AddOneGroupStep
<1>5. breaks \in 0 .. MaxBreaks BY DEF IInv, TypeOK
<1>6. CASE NoGidLeft BY <1>5, <1>6, StopStep DEF NoGidLeft
<1>7. CASE RemoveUser BY <1>7, RemoveUserStep
<1>8. CASE RefuseUser BY <1>5, <1>8, StopStep DEF RefuseUser
<1>9. CASE RefuseHome BY <1>5, <1>9, StopStep DEF RefuseHome
<1>10. CASE AppendUser BY <1>10, AppendUserStep
<1>11. CASE AddUserToGroup BY <1>11, AddUserToGroupStep
<1>12. CASE ChownHome BY <1>12, ChownHomeStep
<1>13. CASE Break BY <1>13, BreakStep
<1> QED
  BY <1>1, <1>2, <1>3, <1>4, <1>6, <1>7, <1>8, <1>9, <1>10, <1>11, <1>12,
     <1>13 DEF Next
-----------------------------------------------------------------------------
\* The account files, and the place in the loops of main, are always well
\* formed: no loop runs past the table, every id that is written is a number,
\* and the sed of add_user_to_group makes a list of names of a list of names.
THEOREM MkUsersTypeOK == Spec => []TypeOK
<1>1. IInv => TypeOK BY DEF IInv
<1> QED BY InitIInv, NextIInv, <1>1, PTL DEF Spec

\* "check the uid is not already used for another user" (mkusers:110): whatever
\* the tables ask for, however often the script runs on its own output, and
\* wherever a run fails or is interrupted, no two users share a uid.
THEOREM UidsNeverShared == Spec => []UidsUnique
<1>1. IInv => UidsUnique BY DEF IInv
<1> QED BY InitIInv, NextIInv, <1>1, PTL DEF Spec
-----------------------------------------------------------------------------
\* makeusers-syntax.txt:21-24: an uid is a number, or -1 to have one chosen.  No
\* loop would create a user with a lower one.
UidsAsked ==
  \A t \in Tables : \A i \in DOMAIN t : t[i].user # NoUser => t[i].uid >= -1

\* What the loops over the groups, and those over the users, have done.
GroupDone(i) ==
  \/ phase = "fixed groups" /\ table[i].gid >= 0 /\ i < line
  \/ phase = "auto groups" /\ (table[i].gid >= 0 \/ (table[i].gid = None /\ i < line))
  \/ phase \in {"more groups", "done"} \cup UserPhases /\ table[i].gid >= -1
ExtraDone(i, j) ==
  \/ phase = "more groups" /\ (i < line \/ (i = line /\ j < item))
  \/ phase \in UserPhases \cup {"done"}
UserDone(i) ==
  /\ table[i].user # NoUser /\ table[i].uid >= -1
  /\ \/ phase = "fixed users" /\ table[i].uid >= 0 /\ i < line
     \/ phase = "auto users" /\ (table[i].uid >= 0 \/ i < line)
     \/ phase = "done"
UserAt(i) == phase \in UserPhases /\ step # "start" /\ i = line

\* Where the loops are.
PlaceInv ==
  /\ step = "start" => item = 1 \/ (phase = "more groups" /\ item <= Len(L.groups))
  /\ step # "start" => phase \in UserPhases /\ Selected
  /\ step = "removed" => item = 1

\* A group that a loop has seen to has a gid.
GroupsInv ==
  \A i \in DOMAIN table :
    /\ GroupDone(i) => group[table[i].group].gid # None
    /\ \A j \in DOMAIN table[i].groups :
         ExtraDone(i, j) => group[table[i].groups[j]].gid # None

\* The account of a user, also while it is out of the file to be replaced.
Replaced(u) == phase \in UserPhases /\ step = "removed" /\ u = L.user
Account(u) == IF Replaced(u) THEN [uid |-> uid, gid |-> group[L.group].gid]
              ELSE passwd[u]
Given(i) ==
  LET l   == table[i]
      acc == Account(l.user)
  IN  /\ l.user \in shadow \/ Replaced(l.user)
      /\ acc.uid # None /\ (l.uid # None => acc.uid = l.uid)
      /\ acc.gid # None /\ acc.gid = group[l.group].gid
      /\ l.gid # None => acc.gid = l.gid
Joins(i, j) == Times(table[i].user, group[table[i].groups[j]].members) = 1
OnlyHome(i, h) == /\ Holds(i, h)
                  /\ \A k \in DOMAIN table :
                       Holds(k, h) => table[k].user = table[i].user

\* A user that a loop has seen to has what its line asks for.
UsersInv ==
  \A i \in DOMAIN table :
    /\ UserDone(i) \/ UserAt(i) => Given(i)
    /\ \A j \in DOMAIN table[i].groups :
         UserDone(i) \/ (UserAt(i) /\ step = "added" /\ j < item) => Joins(i, j)
    /\ \A h \in Homes :
         UserDone(i) /\ OnlyHome(i, h) => owner[h] = Account(table[i].user)

TInv == PlaceInv /\ GroupsInv /\ UsersInv

-----------------------------------------------------------------------------
\* Two lists that have a user at corresponding places have it equally often.
LEMMA SameCount ==
  ASSUME NEW A, NEW B, IsFiniteSet(A), NEW f \in [A -> B],
         \A a, b \in A : f[a] = f[b] => a = b, \A b \in B : \E a \in A : f[a] = b
  PROVE  Cardinality(B) = Cardinality(A)
<1>1. f \in Bijection(A, B) BY Fun_IsBij
<1> QED BY <1>1, FS_Bijection DEF ExistsBijection

\* The sed drops blanks and nobody else.
LEMMA SqueezedKeeps ==
  ASSUME NEW T, NEW s \in Seq(T), Len(s) >= 1, s[Len(s)] # Blank, NEW v, v # Blank
  PROVE  Times(v, Squeezed(s)) = Times(v, s)
<1> DEFINE n == Len(s)
           K == {i \in 2 .. n : s[i] # Blank}
           k == Lowest(K)
           front == IF s[1] = Blank THEN << >> ELSE <<s[1]>>
           rest == SubSeq(s, k, n)
           r == front \o rest
           A == {i \in DOMAIN s : s[i] = v}
           B == {i \in DOMAIN r : r[i] = v}
<1>1. CASE n = 1
  <2>1. Squeezed(s) = s BY <1>1 DEF Squeezed
  <2> QED BY <2>1
<1>2. CASE n # 1
  <2>0. n \in Nat /\ n > 1 /\ DOMAIN s = 1 .. n /\ \A i \in 1 .. n : s[i] \in T
    <3>1. n \in Nat /\ DOMAIN s = 1 .. n /\ s \in [1 .. n -> T] BY LenProperties
    <3> HIDE DEF n
    <3>2. n >= 1 BY DEF n
    <3> QED BY <1>2, <3>1, <3>2
  <2>1. K \subseteq Nat /\ n \in K
    <3>1. s[n] # Blank OBVIOUS
    <3> HIDE DEF n
    <3> QED BY <2>0, <3>1
  <2>2. k \in K /\ \A m \in K : k <= m
    <3> HIDE DEF K
    <3> QED BY <2>1, LowestType
  <2>3. k \in 2 .. n /\ \A i \in 2 .. n : i < k => s[i] = Blank
    <3> HIDE DEF k, n
    <3> QED BY <2>0, <2>2
  <2>4. Squeezed(s) = r BY <1>2 DEF Squeezed
  <2> HIDE DEF k
  <2>5. rest \in Seq(T) /\ Len(rest) = n - k + 1
        /\ \A i \in 1 .. n - k + 1 : rest[i] = s[k + i - 1]
    BY <2>0, <2>3, SubSeqProperties
  <2>6. front \in Seq(T) /\ Len(front) = (IF s[1] = Blank THEN 0 ELSE 1)
        /\ (s[1] # Blank => front[1] = s[1])
    BY <2>0
  <2> DEFINE c == Len(front)
  <2>7. /\ c \in {0, 1} /\ DOMAIN r = 1 .. c + (n - k + 1)
        /\ \A i \in 1 .. c + (n - k + 1) :
             r[i] = IF i <= c THEN s[1] ELSE s[k + (i - c) - 1]
    <3>1. /\ r \in Seq(T) /\ Len(r) = Len(front) + Len(rest)
          /\ \A i \in 1 .. Len(front) + Len(rest) :
               r[i] = IF i <= Len(front) THEN front[i] ELSE rest[i - Len(front)]
      <4>1. front \in Seq(T) /\ rest \in Seq(T) BY <2>5, <2>6
      <4> HIDE DEF front, rest, n
      <4> QED BY <4>1, ConcatProperties, Zenon
    <3> HIDE DEF r, rest, front, n
    <3>2. DOMAIN r = 1 .. Len(r) BY <3>1, LenProperties
    <3>3. c \in {0, 1} /\ (c = 1 => front[1] = s[1]) BY <2>6
    <3>4. Len(r) = c + (n - k + 1) BY <2>5, <3>1
    <3>5. ASSUME NEW i \in 1 .. c + (n - k + 1)
          PROVE  r[i] = IF i <= c THEN s[1] ELSE s[k + (i - c) - 1]
      <4>1. r[i] = IF i <= c THEN front[i] ELSE rest[i - c] BY <2>5, <3>1, <3>5
      <4> HIDE DEF c
      <4>2. CASE i <= c
        <5>1. i = 1 /\ c = 1 BY <3>3, <4>2, <2>0, <2>3
        <5> QED BY <5>1, <3>3, <4>1, <4>2
      <4>3. CASE ~(i <= c)
        <5>1. i - c \in 1 .. n - k + 1 BY <3>3, <4>3, <2>0, <2>3
        <5> QED BY <5>1, <2>5, <4>1, <4>3
      <4> QED BY <4>2, <4>3
    <3> QED BY <3>2, <3>3, <3>4, <3>5
  <2> DEFINE f == [i \in B |-> IF i <= c THEN 1 ELSE k + (i - c) - 1]
  <2>8. c = 0 <=> s[1] = Blank BY <2>6
  <2> HIDE DEF r, front, rest, c, n
  <2>9. IsFiniteSet(B)
    <3>1. c + (n - k + 1) \in Int /\ 1 \in Int BY <2>0, <2>3, <2>7
    <3>2. IsFiniteSet(1 .. c + (n - k + 1)) BY <3>1, FS_Interval
    <3>3. B \subseteq 1 .. c + (n - k + 1) BY <2>7
    <3> HIDE DEF B
    <3> QED BY <3>2, <3>3, FS_Subset, Zenon
  <2>10. f \in [B -> A]
    BY <2>0, <2>3, <2>7
  <2>11. ASSUME NEW a \in B, NEW b \in B, f[a] = f[b] PROVE a = b
    BY <2>0, <2>3, <2>7, <2>11
  <2>12. ASSUME NEW b \in A PROVE \E a \in B : f[a] = b
    <3>1. b \in 1 .. n /\ s[b] = v BY <2>0
    <3>2. CASE b = 1
      <4>1. c = 1 BY <3>1, <3>2, <2>7, <2>8
      <4>2. 1 \in B BY <4>1, <3>1, <3>2, <2>7, <2>3, <2>0
      <4> QED BY <4>1, <4>2, <3>2
    <3>3. CASE b # 1
      <4>1. b >= k BY <3>1, <3>3, <2>3, <2>0
      <4> DEFINE a == b - k + 1 + c
      <4>2. a \in 1 .. c + (n - k + 1) /\ ~(a <= c) /\ k + (a - c) - 1 = b
        BY <4>1, <3>1, <2>3, <2>7, <2>0
      <4>3. r[a] = v BY <4>2, <3>1, <2>7
      <4>4. a \in B BY <4>2, <4>3, <2>7
      <4> QED BY <4>2, <4>4
    <3> QED BY <3>2, <3>3
  <2>13. Cardinality(A) = Cardinality(B)
    <3> HIDE DEF A, B, f
    <3> QED BY <2>9, <2>10, <2>11, <2>12, SameCount
  <2>14. Times(v, r) = Times(v, s) BY <2>13 DEF Times
  <2> QED BY <2>4, <2>14
<1> QED BY <1>1, <1>2

\* The user is in the list once, at the end of it, and nobody else comes or goes.
LEMMA TimesJoined ==
  ASSUME NEW ms \in Seq(User \cup {Blank}), NEW u \in User
  PROVE  /\ Times(u, Joined(ms, u)) = 1
         /\ \A v \in User \ {u} : Times(v, Joined(ms, u)) = Times(v, ms)
<1> DEFINE T == User \cup {Blank}
           b == Blanked(ms, u)
           s == Append(b, u)
<1>0. u # Blank /\ Blank \notin User BY MkUsersAssumption
<1>1. b \in Seq(T) BY BlankedType
<1>2. DOMAIN ms = 1 .. Len(ms) /\ Len(ms) \in Nat BY LenProperties
<1>3. DOMAIN b = 1 .. Len(ms) /\ Len(b) = Len(ms)
      /\ \A i \in 1 .. Len(ms) : b[i] = IF ms[i] = u THEN Blank ELSE ms[i]
  <2>1. DOMAIN b = 1 .. Len(ms)
        /\ \A i \in 1 .. Len(ms) : b[i] = IF ms[i] = u THEN Blank ELSE ms[i]
    BY <1>2 DEF Blanked
  <2> HIDE DEF b
  <2>2. Len(b) \in Nat /\ DOMAIN b = 1 .. Len(b)
    <3> HIDE DEF T
    <3> QED BY <1>1, LenProperties
  <2> QED BY <1>2, <2>1, <2>2
<1> HIDE DEF b
<1>4. /\ s \in Seq(T) /\ Len(s) = Len(ms) + 1 /\ s[Len(ms) + 1] = u
      /\ \A i \in 1 .. Len(ms) : s[i] = b[i]
      /\ DOMAIN s = 1 .. Len(ms) + 1
  <2>1. s \in Seq(T) /\ Len(s) = Len(b) + 1 /\ s[Len(b) + 1] = u
        /\ \A i \in 1 .. Len(b) : s[i] = b[i]
    <3>1. u \in T OBVIOUS
    <3> HIDE DEF T
    <3> QED BY <3>1, <1>1, AppendProperties
  <2> HIDE DEF T, s
  <2>2. DOMAIN s = 1 .. Len(s) BY <2>1, LenProperties
  <2> QED BY <1>3, <2>1, <2>2
<1>5. Joined(ms, u) = Squeezed(s) BY DEF Joined, b
<1> HIDE DEF s
<1>6. \A v \in User : Times(v, Joined(ms, u)) = Times(v, s)
  <2> SUFFICES ASSUME NEW v \in User PROVE Times(v, Squeezed(s)) = Times(v, s) BY <1>5
  <2>1. v # Blank /\ Len(s) >= 1 /\ s[Len(s)] # Blank BY <1>0, <1>2, <1>4
  <2> HIDE DEF T
  <2> QED BY <1>4, <2>1, SqueezedKeeps
<1>7. Times(u, s) = 1
  <2>1. {i \in DOMAIN s : s[i] = u} = {Len(ms) + 1} BY <1>0, <1>2, <1>3, <1>4
  <2> QED BY <2>1, FS_Singleton DEF Times
<1>8. ASSUME NEW v \in User \ {u} PROVE Times(v, s) = Times(v, ms)
  <2>1. {i \in DOMAIN s : s[i] = v} = {i \in DOMAIN ms : ms[i] = v}
    BY <1>0, <1>2, <1>3, <1>4
  <2> QED BY <2>1 DEF Times
<1> QED BY <1>6, <1>7, <1>8

LEMMA TableType ==
  ASSUME TypeOK
  PROVE  /\ table \in Seq(Line) /\ Len(table) \in Nat /\ DOMAIN table = 1 .. Len(table)
         /\ \A i \in DOMAIN table : table[i] \in Line
<1>1. table \in Seq(Line)
  <2>1. << >> \in Seq(Line) OBVIOUS
  <2> QED BY <2>1, MkUsersAssumption DEF TypeOK
<1> QED BY <1>1, LenProperties

LEMMA LineParts ==
  ASSUME NEW l \in Line
  PROVE  /\ l.user \in User \cup {NoUser} /\ l.uid \in Int /\ l.group \in Group
         /\ l.gid \in Int /\ l.groups \in Seq(Group)
         /\ Len(l.groups) \in Nat /\ DOMAIN l.groups = 1 .. Len(l.groups)
         /\ \A j \in DOMAIN l.groups : l.groups[j] \in Group
         /\ Len(l.groups) = 0 <=> l.groups = << >>
<1>1. l.user \in User \cup {NoUser} /\ l.uid \in Int /\ l.group \in Group
      /\ l.gid \in Int /\ l.groups \in Seq(Group)
  BY DEF Line
<1> QED BY <1>1, LenProperties, EmptySeq

\* What each loop does for a line.
LEMMA SelectedIs ==
  /\ phase = "fixed groups" => (Selected <=> L.gid >= 0)
  /\ phase = "auto groups" => (Selected <=> L.gid = None)
  /\ phase = "more groups" => (Selected <=> L.groups # << >>)
  /\ phase = "fixed users" => (Selected <=> L.user # NoUser /\ L.uid >= 0)
  /\ phase = "auto users" => (Selected <=> L.user # NoUser /\ L.uid = None)
<1>1. phase = "fixed groups" => (Selected <=> L.gid >= 0) BY Zenon DEF Selected
<1>2. phase = "auto groups" => (Selected <=> L.gid = None) BY Zenon DEF Selected
<1>3. phase = "more groups" => (Selected <=> L.groups # << >>) BY Zenon DEF Selected
<1>4. phase = "fixed users" => (Selected <=> L.user # NoUser /\ L.uid >= 0)
  BY Zenon DEF Selected
<1>5. phase = "auto users" => (Selected <=> L.user # NoUser /\ L.uid = None)
  BY Zenon DEF Selected
<1> QED BY <1>1, <1>2, <1>3, <1>4, <1>5

LEMMA NextPhaseIs ==
  /\ NextPhase["fixed groups"] = "auto groups" /\ NextPhase["auto groups"] = "more groups"
  /\ NextPhase["more groups"] = "fixed users" /\ NextPhase["fixed users"] = "auto users"
  /\ NextPhase["auto users"] = "done"
BY Zenon DEF NextPhase

LEMMA UidsAre ==
  ASSUME UidsAsked, TypeOK, NEW i \in DOMAIN table, table[i].user # NoUser
  PROVE  table[i].uid \in Int /\ table[i].uid >= -1
<1>1. table \in Tables
  <2>1. table # << >> BY TableType
  <2> QED BY <2>1 DEF TypeOK
<1> QED BY <1>1, TableType, LineParts DEF UidsAsked

LEMMA FromNone == \A n \in Int : n >= -1 => n >= 0 \/ n = None BY DEF None

\* The next line has behind it what this one has, and this one.
LEMMA AdvanceDone ==
  ASSUME TypeOK, phase \in Running, Advance, table' = table,
         NEW i \in DOMAIN table
  PROVE  /\ GroupDone(i)' => \/ GroupDone(i)
                             \/ /\ i = line /\ Selected
                                /\ phase \in {"fixed groups", "auto groups"}
         /\ \A j \in Nat \ {0} : ExtraDone(i, j)' =>
              ExtraDone(i, j) \/ (i = line /\ phase = "more groups")
         /\ UserDone(i)' => \/ UserDone(i)
                            \/ i = line /\ Selected /\ phase \in UserPhases
         /\ ~UserAt(i)'
<1>1. i \in 1 .. Len(table) /\ line \in 1 .. Len(table) /\ Len(table) \in Nat
  BY TableType DEF TypeOK
<1>2. table[i].gid \in Int /\ table[i].uid \in Int /\ (i = line => table[i] = L)
  BY TableType, LineParts DEF L
<1>3. /\ table[i].gid >= -1 => table[i].gid >= 0 \/ table[i].gid = None
      /\ table[i].uid >= -1 => table[i].uid >= 0 \/ table[i].uid = None
  BY <1>2, FromNone
<1>4. (i < line' => i < line \/ i = line) /\ (line' = 1 => ~(i < line'))
      /\ (line' # 1 => phase' = phase)
      /\ (phase' # phase => line' = 1 /\ (i < line \/ i = line))
  BY <1>1 DEF Advance
<1>5. phase' = phase \/ phase' = NextPhase[phase] BY DEF Advance
<1>6. ~UserAt(i)' BY DEF Advance, UserAt
<1>7. item' = 1 /\ \A j \in Nat \ {0} : ~(j < item') BY DEF Advance
<1> USE DEF None, UserPhases
<1>8. CASE phase = "fixed groups"
  <2>1. phase' \in {"fixed groups", "auto groups"} BY <1>5, <1>8, NextPhaseIs
  <2>2. GroupDone(i)' => GroupDone(i) \/ (i = line /\ Selected)
    BY <1>2, <1>4, <1>8, <2>1, SelectedIs DEF GroupDone
  <2>3. \A j : ~ExtraDone(i, j)' BY <2>1 DEF ExtraDone
  <2>4. ~UserDone(i)' BY <2>1 DEF UserDone
  <2> QED BY <1>6, <1>8, <2>2, <2>3, <2>4
<1>9. CASE phase = "auto groups"
  <2>1. phase' \in {"auto groups", "more groups"} BY <1>5, <1>9, NextPhaseIs
  <2>2. GroupDone(i)' => GroupDone(i) \/ (i = line /\ Selected)
    <3>1. GroupDone(i)' => table[i].gid >= 0 \/ (table[i].gid = None /\ (i < line \/ i = line))
      BY <1>2, <1>3, <1>4, <1>9, <2>1 DEF GroupDone
    <3> QED BY <1>2, <1>9, <3>1, SelectedIs DEF GroupDone
  <2>3. \A j \in Nat \ {0} : ~ExtraDone(i, j)' BY <1>4, <1>7, <1>9, <2>1 DEF ExtraDone
  <2>4. ~UserDone(i)' BY <2>1 DEF UserDone
  <2> QED BY <1>6, <1>9, <2>2, <2>3, <2>4
<1>10. CASE phase = "more groups"
  <2>1. phase' \in {"more groups", "fixed users"} BY <1>5, <1>10, NextPhaseIs
  <2>2. GroupDone(i)' => GroupDone(i) BY <1>10, <2>1 DEF GroupDone
  <2>3. \A j \in Nat \ {0} : ExtraDone(i, j)' => ExtraDone(i, j) \/ i = line
    BY <1>4, <1>7, <1>10, <2>1 DEF ExtraDone
  <2>4. ~UserDone(i)' BY <1>4, <1>10, <2>1 DEF UserDone
  <2> QED BY <1>6, <1>10, <2>2, <2>3, <2>4
<1>11. CASE phase = "fixed users"
  <2>1. phase' \in {"fixed users", "auto users"} BY <1>5, <1>11, NextPhaseIs
  <2>2. GroupDone(i)' => GroupDone(i) BY <1>11, <2>1 DEF GroupDone
  <2>3. \A j \in Nat \ {0} : ExtraDone(i, j) BY <1>11 DEF ExtraDone
  <2>4. UserDone(i)' => UserDone(i) \/ (i = line /\ Selected)
    BY <1>2, <1>4, <1>11, <2>1, SelectedIs DEF UserDone
  <2> QED BY <1>6, <1>11, <2>2, <2>3, <2>4
<1>12. CASE phase = "auto users"
  <2>1. phase' \in {"auto users", "done"} BY <1>5, <1>12, NextPhaseIs
  <2>2. GroupDone(i)' => GroupDone(i) BY <1>12, <2>1 DEF GroupDone
  <2>3. \A j \in Nat \ {0} : ExtraDone(i, j) BY <1>12 DEF ExtraDone
  <2>4. UserDone(i)' => UserDone(i) \/ (i = line /\ Selected)
    <3>1. UserDone(i)' => table[i].user # NoUser /\ table[i].uid >= -1 BY DEF UserDone
    <3>2. UserDone(i)' => table[i].uid >= 0 \/ i < line \/ i = line
      BY <1>4, <1>12, <2>1 DEF UserDone
    <3> QED BY <1>2, <1>3, <1>12, <3>1, <3>2, SelectedIs DEF UserDone
  <2> QED BY <1>6, <1>12, <2>2, <2>3, <2>4
<1> QED BY <1>8, <1>9, <1>10, <1>11, <1>12, PhaseType

\* The steps within a line.
LEMMA SameLine ==
  ASSUME UNCHANGED <<table, phase, line>>
  PROVE  /\ L' = L /\ Selected' = Selected
         /\ \A i : GroupDone(i)' = GroupDone(i) /\ UserDone(i)' = UserDone(i)
         /\ phase \in UserPhases => \A i, j : ExtraDone(i, j)
<1>1. L' = L BY DEF L
<1>2. Selected' = Selected BY <1>1, Zenon DEF Selected
<1>3. \A i : GroupDone(i)' = GroupDone(i) /\ UserDone(i)' = UserDone(i)
  BY DEF GroupDone, UserDone
<1>4. phase \in UserPhases => \A i, j : ExtraDone(i, j) BY DEF ExtraDone
<1> QED BY <1>1, <1>2, <1>3, <1>4

LEMMA PhasesDiffer ==
  /\ UserPhases \subseteq Running /\ "done" \notin Running
  /\ \A p \in Running \ UserPhases : p \in {"fixed groups", "auto groups", "more groups"}
BY PhaseType DEF UserPhases

\* The loops over the groups have no user behind them.
LEMMA NoUserYet ==
  ASSUME phase \in Running \ UserPhases, NEW i
  PROVE  ~UserDone(i) /\ ~UserAt(i)
BY PhasesDiffer DEF UserDone, UserAt

LEMMA InitTInv == Init => TInv
<1> SUFFICES ASSUME Init PROVE TInv OBVIOUS
<1>1. DOMAIN table = {} /\ step = "start" /\ item = 1 BY DEF Init
<1> QED BY <1>1 DEF TInv, PlaceInv, GroupsInv, UsersInv

\* A run that has been stopped claims nothing.
LEMMA StopTInv ==
  ASSUME NEW how \in {"failed", "killed"}, Stop(how)
  PROVE  TInv'
<1>1. phase' \in {"failed", "killed"} /\ step' = "start" /\ item' = 1 BY DEF Stop
<1>2. PlaceInv' BY <1>1 DEF PlaceInv
<1>3. GroupsInv' BY <1>1 DEF GroupsInv, GroupDone, ExtraDone, UserPhases
<1>4. UsersInv' BY <1>1 DEF UsersInv, UserDone, UserAt, UserPhases
<1> QED BY <1>2, <1>3, <1>4 DEF TInv

LEMMA RunTInv ==
  ASSUME IInv, TInv, NEW t \in Tables, Run(t)
  PROVE  TInv'
<1>1. /\ table' = t /\ line' = 1 /\ UNCHANGED <<step, item>>
      /\ phase' = IF t = << >> THEN "done" ELSE "fixed groups"
  BY DEF Run
<1>2. t \in Seq(Line) BY MkUsersAssumption
<1>3. DOMAIN t = 1 .. Len(t) /\ Len(t) \in Nat BY <1>2, LenProperties
<1>4. step = "start" /\ item = 1
  <2>1. phase \in Ended BY DEF Run
  <2>2. phase \notin UserPhases /\ phase # "more groups" BY <2>1 DEF Ended, UserPhases
  <2>3. step = "start" BY <2>2 DEF TInv, PlaceInv
  <2> QED BY <2>2, <2>3 DEF TInv, PlaceInv
<1>5. PlaceInv' BY <1>1, <1>4 DEF PlaceInv
<1>6. CASE t = << >>
  <2>1. DOMAIN table' = {} BY <1>1, <1>6
  <2> QED BY <1>5, <2>1 DEF TInv, GroupsInv, UsersInv
<1>7. CASE t # << >>
  <2>1. phase' = "fixed groups" /\ \A i \in DOMAIN table' : ~(i < line')
    <3>1. \A i \in 1 .. Len(t) : ~(i < 1) OBVIOUS
    <3> QED BY <1>1, <1>3, <1>7, <3>1
  <2>2. GroupsInv' BY <2>1 DEF GroupsInv, GroupDone, ExtraDone, UserPhases
  <2>3. UsersInv' BY <2>1 DEF UsersInv, UserDone, UserAt, UserPhases
  <2> QED BY <1>5, <2>2, <2>3 DEF TInv
<1> QED BY <1>6, <1>7

LEMMA SkipTInv == ASSUME IInv, TInv, SkipLine PROVE TInv'
<1>1. phase \in Running /\ ~Selected /\ Advance /\ UNCHANGED <<files, table>>
  BY DEF SkipLine
<1>2. step = "start" BY <1>1 DEF TInv, PlaceInv
<1>3. step' = "start" /\ item' = 1 BY <1>1 DEF Advance
<1>4. PlaceInv' BY <1>3 DEF PlaceInv
<1>5. ASSUME NEW i \in DOMAIN table
      PROVE  /\ GroupDone(i)' => GroupDone(i)
             /\ \A j \in DOMAIN table[i].groups : ExtraDone(i, j)' => ExtraDone(i, j)
             /\ UserDone(i)' => UserDone(i)
             /\ ~UserAt(i)'
  <2>1. DOMAIN table[i].groups \subseteq Nat \ {0} BY TableType, LineParts DEF IInv
  <2>2. i = line /\ phase = "more groups" => DOMAIN table[i].groups = {}
    <3>1. DOMAIN << >> = {} OBVIOUS
    <3>2. i = line /\ phase = "more groups" => table[i].groups = << >>
      BY <1>1, SelectedIs DEF L
    <3> QED BY <3>1, <3>2
  <2> QED BY <1>1, <2>1, <2>2, AdvanceDone DEF IInv
<1>6. GroupsInv' BY <1>1, <1>5 DEF TInv, GroupsInv, files
<1>7. \A u : Account(u)' = Account(u) /\ ~Replaced(u) /\ ~Replaced(u)'
  BY <1>1, <1>2, <1>3 DEF Account, Replaced, files
<1>8. ASSUME NEW i \in DOMAIN table, UserDone(i)'
      PROVE  Given(i)' /\ (\A j \in DOMAIN table[i].groups : Joins(i, j)')
             /\ \A h \in Homes :
                  OnlyHome(i, h)' => (owner[h] = Account(table[i].user))'
  <2>1. UserDone(i) BY <1>5, <1>8
  <2>2. Given(i)' BY <1>1, <1>7, <2>1 DEF TInv, UsersInv, Given, files
  <2>3. \A j \in DOMAIN table[i].groups : Joins(i, j)'
    BY <1>1, <2>1 DEF TInv, UsersInv, Joins, files
  <2>4. \A h \in Homes : OnlyHome(i, h)' => OnlyHome(i, h) BY <1>1 DEF OnlyHome, Holds
  <2>5. Account(table[i].user)' = Account(table[i].user)
    <3>1. PICK u : u = table[i].user OBVIOUS
    <3>2. Account(u)' = Account(u) BY <1>7
    <3> QED BY <1>1, <3>1, <3>2 DEF Account, Replaced
  <2> QED BY <1>1, <2>1, <2>2, <2>3, <2>4, <2>5 DEF TInv, UsersInv, files
<1>9. UsersInv' BY <1>1, <1>5, <1>8 DEF UsersInv
<1> QED BY <1>4, <1>6, <1>9 DEF TInv

LEMMA AddOneGroupTInv == ASSUME IInv, TInv, AddOneGroup PROVE TInv'
<1>1. phase \in Running \ UserPhases /\ Selected /\ table' = table
  BY DEF AddOneGroup, AddsGroup
<1>2. L \in Line /\ table[line] = L /\ line \in DOMAIN table
  BY <1>1, LineType, TableType DEF IInv, L
<1>3. phase \in {"fixed groups", "auto groups", "more groups"} BY <1>1, PhasesDiffer
<1>4. step = "start" /\ item \in Nat \ {0} BY <1>1 DEF IInv, TypeOK, TInv, PlaceInv
<1>5. phase = "more groups" => item \in DOMAIN L.groups /\ item <= Len(L.groups)
  <2>1. phase = "more groups" => L.groups # << >> BY <1>1, SelectedIs
  <2>2. Len(L.groups) \in Nat /\ DOMAIN L.groups = 1 .. Len(L.groups)
        /\ (L.groups # << >> => Len(L.groups) # 0)
    BY <1>2, LineParts
  <2>3. phase = "more groups" => item = 1 \/ item <= Len(L.groups)
    BY <1>4 DEF TInv, PlaceInv
  <2>4. \A n \in Nat : n # 0 /\ (item = 1 \/ item <= n) => item \in 1 .. n /\ item <= n
    BY <1>4
  <2> QED BY <2>1, <2>2, <2>3, <2>4
<1>6. Wanted.name \in Group
      /\ (phase = "more groups" => Wanted.name = L.groups[item])
      /\ (phase # "more groups" => Wanted.name = L.group)
  BY <1>2, <1>5, LineParts DEF Wanted
<1> DEFINE name == Wanted.name
           gid == GidFor(name, Wanted.gid)
<1>7. gid # None /\ group' = [group EXCEPT ![name] = [gid |-> gid, members |-> << >>]]
  BY DEF AddOneGroup
<1> HIDE DEF gid, name
<1>8. group'[name].gid # None
      /\ \A g \in Group : group[g].gid # None => group'[g].gid # None
  BY <1>6, <1>7 DEF name, IInv, TypeOK
<1>9. \A i \in DOMAIN table :
        /\ table[i].group \in Group
        /\ \A j \in DOMAIN table[i].groups : j \in Nat \ {0} /\ table[i].groups[j] \in Group
  BY TableType, LineParts DEF IInv
<1>10. CASE phase = "more groups" /\ item < Len(L.groups)
  <2>1. item' = item + 1 /\ UNCHANGED <<phase, line, step>> BY <1>10 DEF AddOneGroup
  <2>2. L' = L BY <1>1, <2>1 DEF L
  <2>3. Len(L.groups) \in Nat BY <1>2, LineParts
  <2>4. PlaceInv'
    <3>1. \A n \in Nat : item < n => item + 1 <= n BY <1>4
    <3>2. item' <= Len(L'.groups) BY <1>10, <2>1, <2>2, <2>3, <3>1
    <3> QED BY <1>4, <1>10, <2>1, <3>2 DEF PlaceInv
  <2>5. ASSUME NEW i \in DOMAIN table
        PROVE  /\ GroupDone(i)' => GroupDone(i)
               /\ \A j \in DOMAIN table[i].groups :
                    ExtraDone(i, j)' => ExtraDone(i, j) \/ (i = line /\ j = item)
               /\ ~UserDone(i)' /\ ~UserAt(i)'
    <3>1. GroupDone(i)' => GroupDone(i) BY <1>1, <2>1 DEF GroupDone
    <3>2. \A j \in Nat : j < item + 1 => j < item \/ j = item BY <1>4
    <3>3. \A j \in DOMAIN table[i].groups :
            ExtraDone(i, j)' => ExtraDone(i, j) \/ (i = line /\ j = item)
      BY <1>9, <1>10, <2>1, <3>2 DEF ExtraDone, UserPhases
    <3>4. phase' \in Running \ UserPhases BY <1>1, <2>1
    <3>5. ~UserDone(i)' /\ ~UserAt(i)' BY <2>1, <1>10 DEF UserDone, UserAt, UserPhases
    <3> QED BY <3>1, <3>3, <3>5
  <2>6. GroupsInv'
    BY <1>1, <1>2, <1>6, <1>8, <1>9, <1>10, <2>5 DEF name, TInv, GroupsInv
  <2>7. UsersInv' BY <1>1, <2>5 DEF UsersInv
  <2> QED BY <2>4, <2>6, <2>7 DEF TInv
<1>11. CASE ~(phase = "more groups" /\ item < Len(L.groups))
  <2>1. Advance BY <1>11 DEF AddOneGroup
  <2>2. PlaceInv' BY <2>1 DEF Advance, PlaceInv
  <2>3. ASSUME NEW i \in DOMAIN table
        PROVE  /\ GroupDone(i)' => GroupDone(i) \/ (i = line /\ phase # "more groups")
               /\ \A j \in DOMAIN table[i].groups :
                    ExtraDone(i, j)' => ExtraDone(i, j) \/ (i = line /\ phase = "more groups")
               /\ ~UserDone(i)' /\ ~UserAt(i)'
    BY <1>1, <1>9, <2>1, AdvanceDone, NoUserYet DEF IInv
  <2>4. ASSUME phase = "more groups", NEW j \in DOMAIN L.groups
        PROVE  ExtraDone(line, j) \/ j = item
    <3>1. Len(L.groups) \in Nat /\ DOMAIN L.groups = 1 .. Len(L.groups)
      BY <1>2, LineParts
    <3>2. \A n \in Nat : ~(item < n) /\ item <= n => \A k \in 1 .. n : k < item \/ k = item
      BY <1>4
    <3>3. j < item \/ j = item BY <1>5, <1>11, <2>4, <3>1, <3>2
    <3> QED BY <2>4, <3>3 DEF ExtraDone
  <2>5. GroupsInv'
    <3>1. ASSUME NEW i \in DOMAIN table, GroupDone(i)'
          PROVE  group'[table[i].group].gid # None
      BY <1>2, <1>6, <1>8, <1>9, <2>3, <3>1 DEF name, TInv, GroupsInv
    <3>2. ASSUME NEW i \in DOMAIN table, NEW j \in DOMAIN table[i].groups, ExtraDone(i, j)'
          PROVE  group'[table[i].groups[j]].gid # None
      <4>1. ExtraDone(i, j) \/ (i = line /\ j = item /\ phase = "more groups")
        BY <1>2, <2>3, <2>4, <3>2
      <4> QED BY <1>2, <1>6, <1>8, <1>9, <4>1 DEF name, TInv, GroupsInv
    <3> QED BY <1>1, <3>1, <3>2 DEF GroupsInv
  <2>6. UsersInv' BY <1>1, <2>3 DEF UsersInv
  <2> QED BY <2>2, <2>5, <2>6 DEF TInv
<1> QED BY <1>10, <1>11

\* What add_one_user works on.
LEMMA UserAction ==
  ASSUME IInv, TInv, NEW at, AddsUser(at)
  PROVE  /\ phase \in UserPhases /\ phase \in Running /\ Selected /\ step = at
         /\ L \in Line /\ L.user \in User /\ L.group \in Group
         /\ line \in DOMAIN table /\ table[line] = L
         /\ \A g \in Group : group[g] \in GroupEntry
         /\ \A u \in User : passwd[u] \in Entry
<1>1. phase \in Running /\ L \in Line /\ L.user \in User /\ L.group \in Group BY UserLine
<1>2. line \in DOMAIN table BY <1>1, LineType, TableType DEF IInv
<1> QED BY <1>1, <1>2 DEF AddsUser, L, IInv, TypeOK

\* An account and groups that stay as they are keep what a line has been given.
LEMMA UserKept ==
  ASSUME TInv, IInv, table' = table, NEW i \in DOMAIN table, UserDone(i) \/ UserAt(i),
         table[i].user # NoUser,
         \A u \in User : u = table[i].user => Account(u)' = Account(u),
         \A u \in User : u = table[i].user => u \in shadow' \/ Replaced(u)',
         \A g \in Group : group'[g].gid = group[g].gid
  PROVE  Given(i)' /\ Account(table[i].user)' = Account(table[i].user)
<1>1. table[i] \in Line /\ table[i].user \in User /\ table[i].group \in Group
  BY TableType, LineParts DEF IInv
<1>2. PICK u \in User : u = table[i].user BY <1>1
<1>3. Account(u)' = Account(u) /\ (u \in shadow' \/ Replaced(u)') BY <1>2
<1>4. Account(table[i].user)' = Account(u)' BY <1>2 DEF Account, Replaced
<1>5. Replaced(table[i].user)' <=> Replaced(u)' BY <1>2 DEF Replaced
<1>6. Given(i) BY DEF TInv, UsersInv
<1> HIDE DEF Account, Replaced
<1>7. Given(i)' BY <1>1, <1>2, <1>3, <1>4, <1>5, <1>6 DEF Given
<1> QED BY <1>2, <1>3, <1>4, <1>7

\* A user that a line has been given keeps its account while a later line
\* replaces it.
LEMMA RemovedKept ==
  ASSUME IInv, TInv, RemoveUser, NEW i \in DOMAIN table, UserDone(i),
         NEW v \in User, v = table[i].user
  PROVE  Account(v)' = Account(v)
<1> DEFINE u == L.user
           old == passwd[u]
<1>1. /\ AddsUser("start") /\ Valid(L) /\ uid' = UidFor(u, L.uid)
      /\ passwd' = [passwd EXCEPT ![u] = Missing]
      /\ step' = "removed" /\ UNCHANGED <<group, table, phase, line>>
  BY DEF RemoveUser
<1>2. /\ phase \in UserPhases /\ step = "start"
      /\ L \in Line /\ u \in User /\ L.group \in Group
      /\ line \in DOMAIN table /\ table[line] = L
      /\ old \in Entry /\ passwd \in [User -> Entry]
  BY <1>1, UserAction DEF IInv, TypeOK
<1>3. L' = L BY <1>1, SameLine
<1>4. group[L.group].gid # None
  <2>1. L.gid >= -1 BY <1>1 DEF Valid
  <2>2. GroupDone(line) BY <1>2, <2>1 DEF GroupDone
  <2> QED BY <1>2, <2>2 DEF TInv, GroupsInv
<1>5. /\ L.uid # None => uid' = L.uid /\ old.uid \in {None, L.uid}
      /\ L.uid = None /\ old.uid # None => uid' = old.uid
      /\ old.gid # None => GroupsWith(old.gid) \subseteq {L.group}
  BY <1>1 DEF Valid, UidFor
<1>6. Account(v) = passwd[v] /\ (v # u => Account(v)' = passwd[v])
      /\ (v = u => Account(v)' = [uid |-> uid', gid |-> group[L.group].gid])
  BY <1>1, <1>2, <1>3 DEF Account, Replaced
<1>7. CASE v = u
  <2>1. Given(i) BY DEF TInv, UsersInv
  <2>2. /\ old.uid # None /\ old.gid # None /\ old.gid = group[table[i].group].gid
        /\ table[i].group \in Group
    BY <1>2, <1>6, <1>7, <2>1, TableType, LineParts DEF Given, IInv
  <2>3. table[i].group = L.group BY <1>5, <2>2 DEF GroupsWith
  <2>4. uid' = old.uid BY <1>5, <2>2
  <2>5. old = [uid |-> uid', gid |-> group[L.group].gid] BY <1>2, <2>2, <2>3, <2>4 DEF Entry
  <2> QED BY <1>6, <1>7, <2>5
<1>8. CASE v # u BY <1>6, <1>8
<1> QED BY <1>7, <1>8

LEMMA RemoveUserTInv == ASSUME IInv, TInv, RemoveUser PROVE TInv'
<1> DEFINE u == L.user
           old == passwd[u]
<1>1. /\ AddsUser("start") /\ Valid(L) /\ uid' = UidFor(u, L.uid) /\ uid' # None
      /\ passwd' = [passwd EXCEPT ![u] = Missing] /\ shadow' = shadow \ {u}
      /\ step' = "removed" /\ UNCHANGED <<group, owner, table, phase, line, item>>
  BY DEF RemoveUser
<1>2. /\ phase \in UserPhases /\ Selected /\ step = "start"
      /\ L \in Line /\ u \in User /\ L.group \in Group
      /\ line \in DOMAIN table /\ table[line] = L
      /\ \A g \in Group : group[g] \in GroupEntry
      /\ old \in Entry /\ passwd \in [User -> Entry]
  BY <1>1, UserAction DEF IInv, TypeOK
<1>3. /\ L' = L /\ Selected' = Selected
      /\ \A i : GroupDone(i)' = GroupDone(i) /\ UserDone(i)' = UserDone(i)
  BY <1>1, SameLine
<1>4. item = 1 BY <1>2 DEF TInv, PlaceInv, UserPhases
<1>5. PlaceInv' BY <1>1, <1>2, <1>3, <1>4 DEF PlaceInv
<1>6. GroupsInv' BY <1>1, <1>3 DEF TInv, GroupsInv, ExtraDone
<1>7. group[L.group].gid # None
  <2>1. L.gid >= -1 BY <1>1 DEF Valid
  <2>2. GroupDone(line) BY <1>2, <2>1 DEF GroupDone
  <2> QED BY <1>2, <2>2 DEF TInv, GroupsInv
<1>8. /\ L.gid # None => group[L.group].gid = L.gid
      /\ L.uid # None => uid' = L.uid /\ old.uid \in {None, L.uid}
      /\ L.uid = None /\ old.uid # None => uid' = old.uid
      /\ old.gid # None => GroupsWith(old.gid) \subseteq {L.group}
  BY <1>1, <1>7 DEF Valid, UidFor
<1>9. /\ \A v \in User : v # u => Account(v)' = passwd[v] /\ ~Replaced(v)'
      /\ \A v \in User : v = u =>
           Account(v)' = [uid |-> uid', gid |-> group[L.group].gid] /\ Replaced(v)'
  BY <1>1, <1>2, <1>3 DEF Account, Replaced
<1>10. \A v \in User : Account(v) = passwd[v] /\ ~Replaced(v)
  BY <1>2 DEF Account, Replaced
<1>11. ASSUME NEW i \in DOMAIN table, UserDone(i)
       PROVE  \A v \in User : v = table[i].user =>
                Account(v)' = Account(v) /\ (v \in shadow' \/ Replaced(v)')
  <2>1. Given(i) BY <1>11 DEF TInv, UsersInv
  <2>2. \A v \in User : v = table[i].user => v \in shadow
    BY <1>10, <2>1 DEF Given
  <2> QED BY <1>1, <1>9, <1>11, <2>2, RemovedKept
<1>12. ASSUME NEW i \in DOMAIN table, UserDone(i)
       PROVE  Given(i)' /\ Account(table[i].user)' = Account(table[i].user)
  <2>1. table[i].user # NoUser BY <1>12 DEF UserDone
  <2> QED BY <1>1, <1>11, <1>12, <2>1, UserKept
<1>13. ASSUME NEW i \in DOMAIN table, i = line PROVE Given(i)'
  <2>1. PICK v \in User : v = u BY <1>2
  <2>2. /\ Account(v)'.uid = uid' /\ Account(v)'.gid = group[L.group].gid /\ Replaced(v)'
    BY <1>9, <2>1
  <2>3. table'[i] = L /\ table'[i].user = v BY <1>1, <1>2, <1>13, <2>1
  <2>4. Account(table[i].user)' = Account(v)' /\ (Replaced(table[i].user)' <=> Replaced(v)')
    BY <2>3 DEF Account, Replaced
  <2> HIDE DEF u
  <2> QED BY <1>1, <1>2, <1>7, <1>8, <2>2, <2>3, <2>4 DEF Given
<1>14. UsersInv'
  <2>1. \A i \in DOMAIN table : (UserDone(i) \/ UserAt(i))' => UserDone(i) \/ i = line
    BY <1>1, <1>3 DEF UserAt
  <2>2. \A i \in DOMAIN table : (UserDone(i) \/ UserAt(i))' => Given(i)'
    BY <1>12, <1>13, <2>1
  <2>3. ASSUME NEW i \in DOMAIN table, NEW j \in DOMAIN table[i].groups,
               (UserDone(i) \/ (UserAt(i) /\ step = "added" /\ j < item))'
        PROVE  Joins(i, j)'
    <3>1. UserDone(i) BY <1>1, <1>3, <2>3
    <3> QED BY <1>1, <3>1 DEF TInv, UsersInv, Joins
  <2>4. ASSUME NEW i \in DOMAIN table, NEW h \in Homes, (UserDone(i) /\ OnlyHome(i, h))'
        PROVE  (owner[h] = Account(table[i].user))'
    <3>1. UserDone(i) /\ OnlyHome(i, h) BY <1>1, <1>3, <2>4 DEF OnlyHome, Holds
    <3> QED BY <1>1, <1>12, <3>1 DEF TInv, UsersInv
  <2> QED BY <1>1, <2>2, <2>3, <2>4 DEF UsersInv
<1> QED BY <1>5, <1>6, <1>14 DEF TInv

LEMMA AppendUserTInv == ASSUME IInv, TInv, AppendUser PROVE TInv'
<1> DEFINE u == L.user
<1>1. /\ AddsUser("removed")
      /\ passwd' = [passwd EXCEPT ![u] = [uid |-> uid, gid |-> group[L.group].gid]]
      /\ shadow' = shadow \cup {u}
      /\ step' = "added" /\ UNCHANGED <<group, owner, table, phase, line, item, uid>>
  BY DEF AppendUser
<1>2. /\ phase \in UserPhases /\ Selected /\ step = "removed"
      /\ L \in Line /\ u \in User /\ passwd \in [User -> Entry]
      /\ line \in DOMAIN table /\ table[line] = L
  BY <1>1, UserAction DEF IInv, TypeOK
<1>3. /\ L' = L /\ Selected' = Selected
      /\ \A i : GroupDone(i)' = GroupDone(i) /\ UserDone(i)' = UserDone(i)
  BY <1>1, SameLine
<1>4. item = 1 BY <1>2 DEF TInv, PlaceInv
<1>5. PlaceInv' BY <1>1, <1>2, <1>3 DEF PlaceInv
<1>6. GroupsInv' BY <1>1, <1>3 DEF TInv, GroupsInv, ExtraDone
<1>7. \A v \in User : Account(v)' = Account(v) /\ ~Replaced(v)'
  BY <1>1, <1>2, <1>3 DEF Account, Replaced
<1>8. \A i \in DOMAIN table : UserAt(i)' <=> UserAt(i) BY <1>1, <1>2 DEF UserAt
<1>9. ASSUME NEW i \in DOMAIN table, UserDone(i) \/ UserAt(i)
      PROVE  Given(i)' /\ Account(table[i].user)' = Account(table[i].user)
  <2>1. table[i].user # NoUser
    <3>1. UserAt(i) => table[i].user = u BY <1>2 DEF UserAt
    <3>2. UserDone(i) => table[i].user # NoUser BY DEF UserDone
    <3> QED BY <1>2, <1>9, <3>1, <3>2, MkUsersAssumption
  <2>2. \A v \in User : v = table[i].user => v \in shadow' \/ Replaced(v)'
    <3>1. Given(i) BY <1>9 DEF TInv, UsersInv
    <3>2. \A v \in User : v = table[i].user => v \in shadow \/ v = u
      BY <3>1 DEF Given, Replaced
    <3> QED BY <1>1, <3>2
  <2>3. \A g \in Group : group'[g].gid = group[g].gid BY <1>1
  <2> QED BY <1>1, <1>7, <1>9, <2>1, <2>2, <2>3, UserKept
<1>10. UsersInv'
  <2>1. \A i \in DOMAIN table : (UserDone(i) \/ UserAt(i))' => Given(i)'
    BY <1>3, <1>8, <1>9
  <2>2. ASSUME NEW i \in DOMAIN table, NEW j \in DOMAIN table[i].groups,
               (UserDone(i) \/ (UserAt(i) /\ step = "added" /\ j < item))'
        PROVE  Joins(i, j)'
    <3>1. j \in Nat \ {0} BY TableType, LineParts DEF IInv
    <3>2. ~(j < item') BY <1>1, <1>4, <3>1
    <3>3. UserDone(i) BY <1>3, <2>2, <3>2
    <3> QED BY <1>1, <3>3 DEF TInv, UsersInv, Joins
  <2>3. ASSUME NEW i \in DOMAIN table, NEW h \in Homes, (UserDone(i) /\ OnlyHome(i, h))'
        PROVE  (owner[h] = Account(table[i].user))'
    <3>1. UserDone(i) /\ OnlyHome(i, h) BY <1>1, <1>3, <2>3 DEF OnlyHome, Holds
    <3> QED BY <1>1, <1>9, <3>1 DEF TInv, UsersInv
  <2> QED BY <1>1, <2>1, <2>2, <2>3 DEF UsersInv
<1> QED BY <1>5, <1>6, <1>10 DEF TInv

LEMMA AddUserToGroupTInv == ASSUME IInv, TInv, AddUserToGroup PROVE TInv'
<1> DEFINE u == L.user
           g == L.groups[item]
<1>1. /\ AddsUser("added") /\ item <= Len(L.groups) /\ item' = item + 1
      /\ group' = [group EXCEPT ![g].members =
                     IF group[g] = GoneGroup THEN @ ELSE Joined(@, u)]
      /\ UNCHANGED <<passwd, shadow, owner, table, phase, line, step, uid>>
  BY DEF AddUserToGroup
<1>2. /\ phase \in UserPhases /\ Selected /\ step = "added"
      /\ L \in Line /\ u \in User /\ passwd \in [User -> Entry]
      /\ line \in DOMAIN table /\ table[line] = L
      /\ group \in [Group -> GroupEntry] /\ item \in Nat \ {0}
  BY <1>1, UserAction DEF IInv, TypeOK
<1>3. /\ L' = L /\ Selected' = Selected
      /\ \A i : GroupDone(i)' = GroupDone(i) /\ UserDone(i)' = UserDone(i)
      /\ \A i, j : ExtraDone(i, j)
  BY <1>1, <1>2, SameLine
<1>4. item \in DOMAIN L.groups /\ g \in Group
  <2>1. DOMAIN L.groups = 1 .. Len(L.groups) /\ Len(L.groups) \in Nat
        /\ \A j \in DOMAIN L.groups : L.groups[j] \in Group
    BY <1>2, LineParts
  <2>2. \A n \in Nat : item <= n => item \in 1 .. n BY <1>2
  <2> QED BY <1>1, <2>1, <2>2
<1>5. group[g].gid # None BY <1>2, <1>3, <1>4 DEF TInv, GroupsInv
<1>6. group[g] # GoneGroup
  <2>1. GoneGroup.gid = None BY DEF GoneGroup
  <2> QED BY <1>5, <2>1
<1> DEFINE ms == Joined(group[g].members, u)
<1>7. group' = [group EXCEPT ![g].members = ms] BY <1>1, <1>6
<1>8. /\ Times(u, ms) = 1
      /\ \A v \in User \ {u} : Times(v, ms) = Times(v, group[g].members)
  <2>1. group[g].members \in Seq(User \cup {Blank}) BY <1>2, <1>4 DEF GroupEntry
  <2> QED BY <1>2, <2>1, TimesJoined
<1> HIDE DEF ms, g
<1>9. /\ \A h \in Group : group'[h].gid = group[h].gid
      /\ \A h \in Group : h # g => group'[h].members = group[h].members
      /\ group'[g].members = ms
  BY <1>2, <1>4, <1>7 DEF GroupEntry
<1>10. PlaceInv' BY <1>1, <1>2, <1>3 DEF PlaceInv
<1>11. \A i \in DOMAIN table :
         /\ table[i].group \in Group
         /\ table[i].user \in User \cup {NoUser}
         /\ \A j \in DOMAIN table[i].groups : j \in Nat \ {0} /\ table[i].groups[j] \in Group
  BY TableType, LineParts DEF IInv
<1>12. GroupsInv' BY <1>1, <1>3, <1>9, <1>11 DEF TInv, GroupsInv
<1>13. \A v \in User : Account(v)' = Account(v) /\ ~Replaced(v) /\ ~Replaced(v)'
  BY <1>1, <1>2 DEF Account, Replaced
<1>14. \A i \in DOMAIN table : UserAt(i)' <=> UserAt(i) BY <1>1, <1>2 DEF UserAt
<1>15. \A i \in DOMAIN table : UserDone(i) \/ UserAt(i) => table[i].user \in User
  BY <1>2, <1>11 DEF UserDone, UserAt
<1>16. ASSUME NEW i \in DOMAIN table, UserDone(i) \/ UserAt(i)
       PROVE  Given(i)' /\ Account(table[i].user)' = Account(table[i].user)
  <2>1. table[i].user # NoUser BY <1>15, <1>16, MkUsersAssumption
  <2>2. \A v \in User : v = table[i].user => v \in shadow' \/ Replaced(v)'
    <3>1. Given(i) BY <1>16 DEF TInv, UsersInv
    <3> QED BY <1>1, <1>13, <3>1 DEF Given
  <2> QED BY <1>1, <1>9, <1>13, <1>16, <2>1, <2>2, UserKept
<1>17. ASSUME NEW i \in DOMAIN table, NEW j \in DOMAIN table[i].groups,
              UserDone(i) \/ UserAt(i), Joins(i, j) \/ (i = line /\ j = item)
       PROVE  Joins(i, j)'
  <2>1. table[i].user \in User /\ table[i].groups[j] \in Group BY <1>11, <1>15, <1>17
  <2>2. CASE table[i].groups[j] = g /\ table[i].user = u
    <3>1. Times(table[i].user, group'[table[i].groups[j]].members) = 1
      BY <1>8, <1>9, <2>2
    <3> QED BY <1>1, <3>1 DEF Joins
  <2>3. CASE table[i].groups[j] = g /\ table[i].user # u
    <3>1. i # line BY <1>2, <2>3
    <3>2. Times(table[i].user, group'[table[i].groups[j]].members) = 1
      BY <1>8, <1>9, <1>17, <2>1, <2>3, <3>1 DEF Joins
    <3> QED BY <1>1, <3>2 DEF Joins
  <2>4. CASE table[i].groups[j] # g
    <3>1. ~(i = line /\ j = item) BY <1>2, <2>4 DEF g
    <3>2. Times(table[i].user, group'[table[i].groups[j]].members) = 1
      BY <1>9, <1>17, <2>1, <2>4, <3>1 DEF Joins
    <3> QED BY <1>1, <3>2 DEF Joins
  <2> QED BY <2>2, <2>3, <2>4
<1>18. UsersInv'
  <2>1. \A i \in DOMAIN table : (UserDone(i) \/ UserAt(i))' => Given(i)'
    BY <1>3, <1>14, <1>16
  <2>2. ASSUME NEW i \in DOMAIN table, NEW j \in DOMAIN table[i].groups,
               (UserDone(i) \/ (UserAt(i) /\ step = "added" /\ j < item))'
        PROVE  Joins(i, j)'
    <3>1. UserDone(i) \/ (UserAt(i) /\ (j < item \/ j = item))
      <4>1. \A k \in Nat : k < item + 1 => k < item \/ k = item BY <1>2
      <4>2. j \in Nat BY <1>11
      <4> QED BY <1>1, <1>3, <1>14, <2>2, <4>1, <4>2
    <3>2. UserAt(i) => i = line BY DEF UserAt
    <3> QED BY <1>2, <1>17, <3>1, <3>2 DEF TInv, UsersInv
  <2>3. ASSUME NEW i \in DOMAIN table, NEW h \in Homes, (UserDone(i) /\ OnlyHome(i, h))'
        PROVE  (owner[h] = Account(table[i].user))'
    <3>1. UserDone(i) /\ OnlyHome(i, h) BY <1>1, <1>3, <2>3 DEF OnlyHome, Holds
    <3> QED BY <1>1, <1>16, <3>1 DEF TInv, UsersInv
  <2> QED BY <1>1, <2>1, <2>2, <2>3 DEF UsersInv
<1> QED BY <1>10, <1>12, <1>18 DEF TInv

LEMMA ChownHomeTInv == ASSUME IInv, TInv, ChownHome PROVE TInv'
<1> DEFINE u == L.user
<1>1. /\ AddsUser("added") /\ item > Len(L.groups) /\ Advance
      /\ owner' = Chown(owner, L, passwd[u])
      /\ UNCHANGED <<passwd, shadow, group, table>>
  BY DEF ChownHome
<1>2. /\ phase \in UserPhases /\ phase \in Running /\ Selected /\ step = "added"
      /\ L \in Line /\ u \in User /\ owner \in [Homes -> Entry]
      /\ line \in DOMAIN table /\ table[line] = L /\ item \in Nat
  BY <1>1, UserAction DEF IInv, TypeOK
<1>3. step' = "start" /\ item' = 1 BY <1>1 DEF Advance
<1>4. PlaceInv' BY <1>3 DEF PlaceInv
<1>5. \A i \in DOMAIN table :
        /\ table[i].user \in User \cup {NoUser}
        /\ \A j \in DOMAIN table[i].groups : j \in Nat \ {0}
  BY TableType, LineParts DEF IInv
<1>6. ASSUME NEW i \in DOMAIN table
      PROVE  /\ GroupDone(i)' => GroupDone(i)
             /\ \A j \in DOMAIN table[i].groups : ExtraDone(i, j)
             /\ UserDone(i)' => UserDone(i) \/ UserAt(i)
             /\ ~UserAt(i)'
  <2>1. phase \notin {"fixed groups", "auto groups"} BY <1>2 DEF UserPhases
  <2>2. UserAt(line) BY <1>2 DEF UserAt
  <2>3. \A j : ExtraDone(i, j) BY <1>2 DEF ExtraDone
  <2> QED BY <1>1, <1>2, <2>1, <2>2, <2>3, AdvanceDone DEF IInv
<1>7. GroupsInv' BY <1>1, <1>6 DEF TInv, GroupsInv
<1>8. \A v \in User : Account(v)' = Account(v) /\ Account(v) = passwd[v]
                      /\ ~Replaced(v) /\ ~Replaced(v)'
  BY <1>1, <1>2, <1>3 DEF Account, Replaced
<1>9. ASSUME NEW i \in DOMAIN table, UserDone(i) \/ UserAt(i)
      PROVE  /\ table[i].user \in User
             /\ Given(i)' /\ Account(table[i].user)' = passwd[table[i].user]
             /\ \A j \in DOMAIN table[i].groups : Joins(i, j)'
  <2>1. table[i].user \in User BY <1>2, <1>5, <1>9 DEF UserDone, UserAt
  <2>2. \A v \in User : v = table[i].user => v \in shadow' \/ Replaced(v)'
    <3>1. Given(i) BY <1>9 DEF TInv, UsersInv
    <3> QED BY <1>1, <1>8, <3>1 DEF Given
  <2>3. Given(i)' /\ Account(table[i].user)' = Account(table[i].user)
    BY <1>1, <1>8, <1>9, <2>1, <2>2, MkUsersAssumption, UserKept
  <2>4. ASSUME NEW j \in DOMAIN table[i].groups PROVE Joins(i, j)
    <3>1. UserAt(i) => j < item
      <4>1. Len(L.groups) \in Nat /\ DOMAIN L.groups = 1 .. Len(L.groups) BY <1>2, LineParts
      <4>2. \A n \in Nat : item > n => \A k \in 1 .. n : k < item BY <1>2
      <4> QED BY <1>1, <1>2, <4>1, <4>2 DEF UserAt
    <3> QED BY <1>2, <1>9, <3>1 DEF TInv, UsersInv
  <2>5. \A j \in DOMAIN table[i].groups : Joins(i, j)' BY <1>1, <2>4 DEF Joins
  <2> QED BY <1>8, <2>1, <2>3, <2>5
<1>10. ASSUME NEW i \in DOMAIN table, UserDone(i) \/ UserAt(i),
              NEW h \in Homes, OnlyHome(i, h)
       PROVE  owner'[h] = passwd[table[i].user]
  <2>1. CASE Holds(line, h)
    <3>1. table[i].user = u BY <1>2, <1>10, <2>1 DEF OnlyHome
    <3> QED BY <1>1, <1>2, <2>1, <3>1 DEF Chown, Holds
  <2>2. CASE ~Holds(line, h)
    <3>1. UserDone(i)
      BY <1>2, <1>10, <2>2 DEF UserAt, OnlyHome
    <3>2. owner[h] = passwd[table[i].user]
      BY <1>8, <1>9, <1>10, <3>1 DEF TInv, UsersInv
    <3> QED BY <1>1, <1>2, <2>2, <3>2 DEF Chown, Holds
  <2> QED BY <2>1, <2>2
<1>11. UsersInv'
  <2>1. ASSUME NEW i \in DOMAIN table, NEW h \in Homes, (UserDone(i) /\ OnlyHome(i, h))'
        PROVE  (owner[h] = Account(table[i].user))'
    <3>1. UserDone(i) \/ UserAt(i) BY <1>6, <2>1
    <3>2. OnlyHome(i, h) BY <1>1, <2>1 DEF OnlyHome, Holds
    <3> QED BY <1>1, <1>9, <1>10, <3>1, <3>2
  <2> QED BY <1>1, <1>6, <1>9, <2>1 DEF UsersInv
<1> QED BY <1>4, <1>7, <1>11 DEF TInv

LEMMA NextTInv == IInv /\ TInv /\ [Next]_vars => TInv'
<1> SUFFICES ASSUME IInv, TInv, [Next]_vars PROVE TInv' OBVIOUS
<1>1. CASE UNCHANGED vars
  <2>1. UNCHANGED <<passwd, shadow, group, owner, table, phase, line, step, item, uid>>
    BY <1>1 DEF vars
  <2>2. L' = L /\ Selected' = Selected BY <2>1, SameLine
  <2>3. PlaceInv' BY <2>1, <2>2 DEF TInv, PlaceInv
  <2>4. GroupsInv' BY <2>1 DEF TInv, GroupsInv, GroupDone, ExtraDone
  <2>5. UsersInv'
    <3>1. ASSUME NEW i \in DOMAIN table
          PROVE  /\ UserDone(i)' <=> UserDone(i)
                 /\ UserAt(i)' <=> UserAt(i)
                 /\ Given(i)' <=> Given(i)
                 /\ \A j : Joins(i, j)' <=> Joins(i, j)
                 /\ \A h : OnlyHome(i, h)' <=> OnlyHome(i, h)
                 /\ Account(table[i].user)' = Account(table[i].user)
      <4>1. Account(table[i].user)' = Account(table[i].user)
            /\ (Replaced(table[i].user)' <=> Replaced(table[i].user))
        BY <2>1, <2>2 DEF Account, Replaced
      <4>2. Given(i)' <=> Given(i) BY <2>1, <4>1 DEF Given
      <4> QED BY <2>1, <4>1, <4>2 DEF UserDone, UserAt, Joins, OnlyHome, Holds
    <3> QED BY <2>1, <3>1 DEF TInv, UsersInv
  <2> QED BY <2>3, <2>4, <2>5 DEF TInv
<1>2. CASE \E t \in Tables : Run(t) BY <1>2, RunTInv
<1>3. CASE SkipLine BY <1>3, SkipTInv
<1>4. CASE AddOneGroup BY <1>4, AddOneGroupTInv
<1>5. CASE NoGidLeft BY <1>5, StopTInv DEF NoGidLeft
<1>6. CASE RemoveUser BY <1>6, RemoveUserTInv
<1>7. CASE RefuseUser BY <1>7, StopTInv DEF RefuseUser
<1>8. CASE RefuseHome BY <1>8, StopTInv DEF RefuseHome
<1>9. CASE AppendUser BY <1>9, AppendUserTInv
<1>10. CASE AddUserToGroup BY <1>10, AddUserToGroupTInv
<1>11. CASE ChownHome BY <1>11, ChownHomeTInv
<1>12. CASE Break BY <1>12, StopTInv DEF Break
<1> QED
  BY <1>1, <1>2, <1>3, <1>4, <1>5, <1>6, <1>7, <1>8, <1>9, <1>10, <1>11, <1>12
     DEF Next

LEMMA TInvObeyed == ASSUME UidsAsked PROVE TypeOK /\ TInv => TablesAreObeyed
<1> SUFFICES ASSUME TypeOK, TInv, phase = "done", NEW i \in DOMAIN table, table[i].user # NoUser
             PROVE  Granted(table[i]) /\ HomeOwned(i)
  BY DEF TablesAreObeyed
<1>1. UserDone(i) BY UidsAre DEF UserDone
<1>2. Account(table[i].user) = passwd[table[i].user] /\ ~Replaced(table[i].user)
  BY DEF Account, Replaced, UserPhases
<1>3. Given(i) /\ \A j \in DOMAIN table[i].groups : Joins(i, j)
  BY <1>1 DEF TInv, UsersInv
<1>4. Granted(table[i]) BY <1>2, <1>3 DEF Given, Granted, Joins
<1>5. HomeOwned(i) BY <1>1, <1>2 DEF TInv, UsersInv, OnlyHome, Holds, HomeOwned
<1> QED BY <1>4, <1>5

\* A run that ends well has given every user of its table its uid, its main
\* group with the gid that group has, each additional group exactly once, and its
\* home with what is below it, but for what the home of another user of the table
\* holds, for every table, also one that has a user or a group several times,
\* and on whatever an earlier run has left (makeusers-syntax.txt:21-55).
THEOREM TablesAlwaysObeyed ==
  ASSUME UidsAsked
  PROVE  Spec => []TablesAreObeyed
<1>1. IInv /\ TInv /\ [Next]_vars => (IInv /\ TInv)' BY NextIInv, NextTInv
<1>2. IInv /\ TInv => TablesAreObeyed BY TInvObeyed DEF IInv
<1> QED BY InitIInv, InitTInv, <1>1, <1>2, PTL DEF Spec
-----------------------------------------------------------------------------
\* A user that the run has found has its uid, also while it is replaced.
KeptInv ==
  /\ \A u \in User : passwd[u].uid = None => passwd[u] = Missing
  /\ \A u \in User : found.passwd[u].uid = None => found.passwd[u] = Missing
  /\ phase \in Running \cup {"done"} => \A u \in User :
       found.passwd[u] # Missing => Account(u).uid = found.passwd[u].uid

LEMMA KeptSame ==
  ASSUME KeptInv, UNCHANGED <<passwd, found>>,
         \/ phase' \notin Running \cup {"done"}
         \/ phase \in Running /\ \A u \in User : Account(u)' = Account(u)
  PROVE  KeptInv'
BY DEF KeptInv

LEMMA KeptAdvance ==
  ASSUME KeptInv, UNCHANGED <<passwd, found>>, Advance, phase \in Running, step # "removed"
  PROVE  KeptInv'
<1>1. step' = "start" BY DEF Advance
<1>2. \A u \in User : Account(u)' = Account(u) BY <1>1 DEF Account, Replaced
<1> QED BY <1>2, KeptSame

LEMMA RemoveUserKept == ASSUME IInv, TInv, KeptInv, RemoveUser PROVE KeptInv'
<1> DEFINE u == L.user
<1>1. /\ AddsUser("start") /\ Valid(L) /\ uid' = UidFor(u, L.uid)
      /\ passwd' = [passwd EXCEPT ![u] = Missing] /\ step' = "removed"
      /\ UNCHANGED <<group, table, phase, line, found>>
  BY DEF RemoveUser
<1>2. phase \in UserPhases /\ step = "start" /\ u \in User /\ passwd \in [User -> Entry]
  BY <1>1, UserAction DEF IInv, TypeOK
<1>3. L' = L BY <1>1, SameLine
<1>4. passwd[u].uid # None => uid' = passwd[u].uid BY <1>1 DEF Valid, UidFor
<1>5. \A v \in User : /\ v # u => Account(v)' = passwd[v]
                      /\ v = u => Account(v)'.uid = uid'
                      /\ Account(v) = passwd[v]
  BY <1>1, <1>2, <1>3 DEF Account, Replaced
<1>6. ASSUME NEW v \in User, found.passwd[v] # Missing
      PROVE  Account(v)'.uid = found.passwd[v].uid
  <2>1. passwd[v].uid = found.passwd[v].uid /\ found.passwd[v].uid # None
    BY <1>2, <1>5, <1>6, PhasesDiffer DEF KeptInv
  <2> QED BY <1>4, <1>5, <2>1
<1>7. \A v \in User : passwd'[v].uid = None => passwd'[v] = Missing
  BY <1>1, <1>2 DEF KeptInv
<1> QED BY <1>1, <1>6, <1>7 DEF KeptInv

LEMMA AppendUserKept == ASSUME IInv, TInv, KeptInv, AppendUser PROVE KeptInv'
<1> DEFINE u == L.user
<1>1. /\ AddsUser("removed") /\ step' = "added"
      /\ passwd' = [passwd EXCEPT ![u] = [uid |-> uid, gid |-> group[L.group].gid]]
      /\ UNCHANGED <<group, table, phase, line, uid, found>>
  BY DEF AppendUser
<1>2. phase \in UserPhases /\ step = "removed" /\ u \in User /\ passwd \in [User -> Entry]
  BY <1>1, UserAction DEF IInv, TypeOK
<1>3. L' = L BY <1>1, SameLine
<1>4. \A v \in User : Account(v)' = Account(v) BY <1>1, <1>2, <1>3 DEF Account, Replaced
<1>5. uid # None BY <1>2 DEF IInv, UidFree
<1>6. \A v \in User : passwd'[v].uid = None => passwd'[v] = Missing
  BY <1>1, <1>2, <1>5 DEF KeptInv
<1> QED BY <1>1, <1>2, <1>4, <1>6, PhasesDiffer DEF KeptInv

LEMMA BreakKept == ASSUME IInv, KeptInv, Break PROVE KeptInv'
<1>1. phase' = "killed" /\ found' = found BY DEF Break, Stop
<1>2. "killed" \notin Running \cup {"done"} BY PhaseType
<1>3. passwd \in [User -> Entry] BY DEF IInv, TypeOK
<1>4. \A v \in User : passwd'[v].uid = None => passwd'[v] = Missing
  <2>1. CASE UNCHANGED passwd BY <2>1 DEF KeptInv
  <2>2. CASE passwd' = [passwd EXCEPT ![L.user] = Missing] BY <1>3, <2>2 DEF KeptInv
  <2>3. CASE /\ AddsUser("removed")
             /\ passwd' = [passwd EXCEPT ![L.user] =
                             [uid |-> uid, gid |-> group[L.group].gid]]
    <3>1. uid # None BY <2>3 DEF IInv, UidFree, AddsUser
    <3> QED BY <1>3, <2>3, <3>1 DEF KeptInv
  <2> QED BY <2>1, <2>2, <2>3 DEF Break
<1> QED BY <1>1, <1>2, <1>4 DEF KeptInv

LEMMA NextKept == IInv /\ TInv /\ KeptInv /\ [Next]_vars => KeptInv'
<1> SUFFICES ASSUME IInv, TInv, KeptInv, [Next]_vars PROVE KeptInv' OBVIOUS
<1>1. CASE UNCHANGED vars
  <2>1. UNCHANGED <<passwd, group, table, phase, line, step, uid, found>> BY <1>1 DEF vars
  <2>2. L' = L BY <2>1, SameLine
  <2>3. \A u \in User : Account(u)' = Account(u) BY <2>1, <2>2 DEF Account, Replaced
  <2> QED BY <2>1, <2>3 DEF KeptInv
<1>2. ASSUME NEW t \in Tables, Run(t) PROVE KeptInv'
  <2>1. found'.passwd = passwd /\ passwd' = passwd BY <1>2 DEF Run
  <2>2. phase' \notin UserPhases BY <1>2 DEF Run, UserPhases
  <2>3. \A u \in User : Account(u)' = passwd[u] BY <2>1, <2>2 DEF Account, Replaced
  <2> QED BY <2>1, <2>3 DEF KeptInv
<1>3. ASSUME NEW how \in {"failed", "killed"}, Stop(how), UNCHANGED files PROVE KeptInv'
  <2>1. phase' \notin Running \cup {"done"} BY <1>3, PhaseType DEF Stop
  <2> QED BY <1>3, <2>1, KeptSame DEF Stop, files
<1>4. phase \in Running \ UserPhases => step = "start" BY DEF TInv, PlaceInv
<1>5. CASE SkipLine
  <2>1. phase \in Running /\ ~Selected /\ Advance /\ UNCHANGED <<passwd, found>>
    BY <1>5 DEF SkipLine, files
  <2>2. step = "start" BY <2>1 DEF TInv, PlaceInv
  <2> QED BY <2>1, <2>2, KeptAdvance
<1>6. CASE AddOneGroup
  <2>1. phase \in Running \ UserPhases /\ UNCHANGED <<passwd, found>>
    BY <1>6 DEF AddOneGroup, AddsGroup
  <2>2. CASE Advance BY <1>4, <2>1, <2>2, KeptAdvance
  <2>3. CASE UNCHANGED <<phase, line, step, uid>>
    <3>1. \A u \in User : Account(u)' = Account(u)
      BY <2>1, <2>3 DEF Account, Replaced
    <3> QED BY <2>1, <3>1, KeptSame
  <2> QED BY <1>6, <2>2, <2>3 DEF AddOneGroup
<1>7. CASE NoGidLeft BY <1>3, <1>7 DEF NoGidLeft
<1>8. CASE RemoveUser BY <1>8, RemoveUserKept
<1>9. CASE RefuseUser BY <1>3, <1>9 DEF RefuseUser
<1>10. CASE RefuseHome BY <1>3, <1>10 DEF RefuseHome
<1>11. CASE AppendUser BY <1>11, AppendUserKept
<1>12. CASE AddUserToGroup
  <2>1. step = "added" /\ phase \in UserPhases
        /\ UNCHANGED <<passwd, found, table, phase, line, step>>
    BY <1>12 DEF AddUserToGroup, AddsUser
  <2>2. \A u \in User : Account(u)' = Account(u) BY <2>1 DEF Account, Replaced
  <2> QED BY <2>1, <2>2, PhasesDiffer, KeptSame
<1>13. CASE ChownHome
  <2>1. step = "added" /\ phase \in UserPhases /\ Advance /\ UNCHANGED <<passwd, found>>
    BY <1>13 DEF ChownHome, AddsUser
  <2> QED BY <2>1, PhasesDiffer, KeptAdvance
<1>14. CASE Break BY <1>14, BreakKept
<1> QED
  BY <1>1, <1>2, <1>5, <1>6, <1>7, <1>8, <1>9, <1>10, <1>11, <1>12, <1>13, <1>14
     DEF Next

\* A user whose entry a run finds has the same uid when the run ends well, with
\* any table, and whether or not its entry is what an interrupted run has left
\* (mkusers:231-237, 299-302: a user is removed and added again with its old uid).
THEOREM UidsAlwaysKept == Spec => []UidsAreKept
<1>1. Init => KeptInv
  BY MkUsersAssumption DEF Init, KeptInv, Account, Replaced, UserPhases
<1>2. IInv /\ TInv /\ KeptInv /\ [Next]_vars => (IInv /\ TInv /\ KeptInv)'
  BY NextIInv, NextTInv, NextKept
<1>3. KeptInv => UidsAreKept BY DEF KeptInv, UidsAreKept, Account, Replaced, UserPhases
<1> QED BY InitIInv, InitTInv, <1>1, <1>2, <1>3, PTL DEF Spec
-----------------------------------------------------------------------------
\* A line whose user a loop creates, and a line that wants its group with a gid.
Creates(l) == l.user # NoUser /\ l.uid >= -1
Fixed(t, i, g) == t[i].gid >= 0 /\ t[i].group = g

\* A group that one of the loops over the groups sees to.
Mentioned(t, g) ==
  \E i \in DOMAIN t : \/ t[i].gid >= -1 /\ t[i].group = g
                      \/ \E j \in DOMAIN t[i].groups : t[i].groups[j] = g

\* The loops over the users have two turns for every line; the turn k is for
\* the line At(t, k), and does something if Takes(t, k).
At(t, k) == IF k <= Len(t) THEN k ELSE k - Len(t)
Takes(t, k) ==
  LET l == t[At(t, k)]
  IN  l.user # NoUser /\ IF k <= Len(t) THEN l.uid >= 0 ELSE l.uid = None
Last(t) == 2 * Len(t) + 1
Turn == CASE phase = "fixed users" -> line
          [] phase = "auto users"  -> Len(table) + line
          [] OTHER                 -> Last(table)

\* M is the story of the members up to the group i of turn n: M[<<k, j>>] are the
\* members of the groups before turn k comes to its group j.
Members == [Group -> Seq(User \cup {Blank})]
Entered(m, l, j) == [m EXCEPT ![l.groups[j]] = Joined(@, l.user)]
MembersStory(t, M, n, i) ==
  /\ M \in [Nat \X Nat -> Members]
  /\ M[<<1, 1>>] = [g \in Group |-> << >>]
  /\ \A k \in 1 .. Len(t) + Len(t) : LET l == t[At(t, k)] IN
       /\ k < n => M[<<k + 1, 1>>] =
            IF Takes(t, k) THEN M[<<k, Len(l.groups) + 1>>] ELSE M[<<k, 1>>]
       /\ Takes(t, k) => \A j \in DOMAIN l.groups :
            k < n \/ (k = n /\ j < i) => M[<<k, j + 1>>] = Entered(M[<<k, j>>], l, j)

\* O is the story of the homes: O[k] are the users that have them before turn k.
Holders == [Homes -> User \cup {NoUser}]
Moved(o, l) == Chown(o, l, l.user)
HomesStory(t, O, n) ==
  /\ O \in [Nat -> Holders]
  /\ O[1] = [h \in Homes |-> NoUser]
  /\ \A k \in 1 .. Len(t) + Len(t) :
       k < n => O[k + 1] = IF Takes(t, k) THEN Moved(O[k], t[At(t, k)]) ELSE O[k]

\* The files hold what a story tells.
TellsMembers(t, m, gr) == \A g \in Group : Mentioned(t, g) => gr[g].members = m[g]
TellsHomes(o, pw, ow) ==
  \A h \in Homes : ow[h] = IF o[h] = NoUser THEN Missing ELSE pw[o[h]]

\* What a run that has ended well leaves.
CreatedWell(l, pw, gr) ==
  /\ l.user # "root" /\ l.gid >= -1 /\ l.gid # 0 /\ l.uid # 0 /\ l.home # "refused"
  /\ pw[l.user].uid # None /\ (l.uid # None => pw[l.user].uid = l.uid)
  /\ pw[l.user].gid # None /\ pw[l.user].gid = gr[l.group].gid
  /\ l.gid # None => pw[l.user].gid = l.gid
GroupsWell(t, gr) ==
  \A i \in DOMAIN t :
    /\ t[i].gid >= -1 => gr[t[i].group].gid # None
    /\ \A j \in DOMAIN t[i].groups : gr[t[i].groups[j]].gid # None
LastFixed(t, n, gr) ==
  \A i \in DOMAIN t :
    (/\ i < n /\ t[i].gid >= 0
     /\ \A k \in DOMAIN t : i < k /\ k < n => ~Fixed(t, k, t[i].group))
      => gr[t[i].group].gid = t[i].gid
Finished(t, pw, gr, ow) ==
  /\ \A i \in DOMAIN t : Creates(t[i]) => CreatedWell(t[i], pw, gr)
  /\ GroupsWell(t, gr)
  /\ LastFixed(t, Len(t) + 1, gr)
  /\ \E M, O : /\ MembersStory(t, M, Last(t), 1) /\ TellsMembers(t, M[<<Last(t), 1>>], gr)
               /\ HomesStory(t, O, Last(t)) /\ TellsHomes(O[Last(t)], pw, ow)

\* The run so far.
FixedTo == IF phase = "fixed groups" THEN line ELSE Len(table) + 1
CleanInv ==
  /\ \A i \in DOMAIN table : UserDone(i) \/ UserAt(i) =>
       /\ table[i].user # "root" /\ table[i].gid >= -1 /\ table[i].gid # 0 /\ table[i].uid # 0
       /\ UserDone(i) \/ step = "added" => table[i].home # "refused"
  /\ step = "added" => item <= Len(L.groups) + 1
  /\ phase \in Running \cup {"done"} => LastFixed(table, FixedTo, group)
ResetInv ==
  phase \in Running \ UserPhases =>
    /\ \A h \in Homes : owner[h] = Missing
    /\ \A i \in DOMAIN table :
         /\ GroupDone(i) => group[table[i].group].members = << >>
         /\ \A j \in DOMAIN table[i].groups :
              ExtraDone(i, j) => group[table[i].groups[j]].members = << >>
HolderDone(o) ==
  \A h \in Homes : o[h] # NoUser => \E i \in DOMAIN table : UserDone(i) /\ table[i].user = o[h]
Accounts == [u \in User |-> Account(u)]
StoryInv ==
  phase \in UserPhases \cup {"done"} =>
    \E M, O : /\ MembersStory(table, M, Turn, item) /\ TellsMembers(table, M[<<Turn, item>>], group)
              /\ HomesStory(table, O, Turn) /\ TellsHomes(O[Turn], Accounts, owner)
              /\ HolderDone(O[Turn])
RunInv == CleanInv /\ ResetInv /\ StoryInv

\* What the run has found, if the one before it has ended well.
FoundInv ==
  found.ended = "done" =>
    /\ found.passwd \in [User -> Entry] /\ ~SameUid(found.passwd)
    /\ found.group \in [Group -> GroupEntry]
    /\ found.owner \in [Homes -> Entry]
    /\ Finished(found.table, found.passwd, found.group, found.owner)

\* A run with the table of one that has ended well repeats it.
Again == found.ended = "done" /\ found.table = table /\ ~SameGid(found.group)
SameGids ==
  \A g \in Group :
    \/ group[g].gid = found.group[g].gid
    \/ phase = "fixed groups" /\ \E k \in DOMAIN table : line <= k /\ Fixed(table, k, g)
SameStory ==
  phase \in UserPhases \cup {"done"} =>
    \E M, O : /\ MembersStory(table, M, Last(table), 1)
              /\ TellsMembers(table, M[<<Last(table), 1>>], found.group)
              /\ TellsMembers(table, M[<<Turn, item>>], group)
              /\ HomesStory(table, O, Last(table))
              /\ TellsHomes(O[Last(table)], found.passwd, found.owner)
              /\ TellsHomes(O[Turn], found.passwd, owner)
SameAccounts == \A u \in User : Account(u) = found.passwd[u]
SameOthers == \A g \in Group : ~Mentioned(table, g) => group[g] = found.group[g]
AgainSame == SameAccounts /\ SameOthers /\ SameGids /\ SameStory
AgainInv ==
  Again /\ phase \notin {"none", "killed"} => phase # "failed" /\ AgainSame
-----------------------------------------------------------------------------
\* The parts of a table that a story reads.
LEMMA TurnLine ==
  ASSUME NEW t \in Seq(Line), NEW k \in 1 .. Len(t) + Len(t)
  PROVE  At(t, k) \in 1 .. Len(t) /\ t[At(t, k)] \in Line
<1>1. Len(t) \in Nat BY LenProperties
<1>2. \A n \in Nat : \A j \in 1 .. n + n : (IF j <= n THEN j ELSE j - n) \in 1 .. n OBVIOUS
<1>3. At(t, k) \in 1 .. Len(t) BY <1>1, <1>2 DEF At
<1> QED BY <1>3, LenProperties

LEMMA EnteredType ==
  ASSUME NEW m \in Members, NEW l \in Line, l.user \in User, NEW j \in DOMAIN l.groups
  PROVE  Entered(m, l, j) \in Members
<1>1. l.groups[j] \in Group BY LineParts
<1>2. m[l.groups[j]] \in Seq(User \cup {Blank}) BY <1>1 DEF Members
<1>3. Joined(m[l.groups[j]], l.user) \in Seq(User \cup {Blank}) BY <1>2, JoinedType
<1> QED BY <1>1, <1>3 DEF Entered, Members

LEMMA MovedType ==
  ASSUME NEW o \in Holders, NEW l \in Line
  PROVE  Moved(o, l) \in Holders
<1>1. l.user \in User \cup {NoUser} BY LineParts
<1> QED BY <1>1 DEF Moved, Chown, Holders

\* Where the loops over the users are: the turn of the line.
LEMMA TurnOf ==
  /\ phase = "fixed users" => Turn = line
  /\ phase = "auto users" => Turn = Len(table) + line
  /\ phase \notin UserPhases => Turn = Last(table)
<1>1. phase = "fixed users" => Turn = line BY Zenon DEF Turn
<1>2. phase = "auto users" => Turn = Len(table) + line BY Zenon DEF Turn
<1>3. phase \notin UserPhases => Turn = Last(table) BY Zenon DEF Turn, UserPhases
<1> QED BY <1>1, <1>2, <1>3

LEMMA TurnIs ==
  ASSUME TypeOK, phase \in UserPhases
  PROVE  /\ Len(table) \in Nat /\ line \in 1 .. Len(table)
         /\ Turn \in 1 .. Len(table) + Len(table) /\ At(table, Turn) = line
         /\ Selected <=> Takes(table, Turn)
         /\ Last(table) = Len(table) + Len(table) + 1
<1>0. phase \in Running BY PhasesDiffer
<1>1. Len(table) \in Nat /\ line \in 1 .. Len(table)
  BY <1>0, LineType, LenProperties
<1>2. Last(table) = Len(table) + Len(table) + 1 BY <1>1 DEF Last
<1>3. CASE phase = "fixed users"
  <2>1. Turn = line BY <1>3, TurnOf
  <2>2. Turn \in 1 .. Len(table) + Len(table) /\ At(table, Turn) = line /\ Turn <= Len(table)
    BY <1>1, <2>1 DEF At
  <2> QED BY <1>1, <1>2, <1>3, <2>2, SelectedIs DEF Takes, L
<1>4. CASE phase = "auto users"
  <2>1. Turn = Len(table) + line BY <1>4, TurnOf
  <2>2. Turn \in 1 .. Len(table) + Len(table) /\ At(table, Turn) = line /\ ~(Turn <= Len(table))
    BY <1>1, <2>1 DEF At
  <2> QED BY <1>1, <1>2, <1>4, <2>2, SelectedIs DEF Takes, L
<1> QED BY <1>3, <1>4 DEF UserPhases

\* After its turn comes the next turn.
LEMMA TurnAdvance ==
  ASSUME TypeOK, phase \in UserPhases, Advance, table' = table
  PROVE  /\ Turn' = Turn + 1 /\ item' = 1 /\ step' = "start"
         /\ phase' \in UserPhases \cup {"done"}
<1>1. Len(table) \in Nat /\ line \in 1 .. Len(table) BY TurnIs
<1>2. item' = 1 /\ step' = "start" /\ line' = (IF line < Len(table) THEN line + 1 ELSE 1)
      /\ phase' = (IF line < Len(table) THEN phase ELSE NextPhase[phase])
  BY DEF Advance
<1>3. /\ phase' = "fixed users" => Turn' = line'
      /\ phase' = "auto users" => Turn' = Len(table) + line'
      /\ phase' \notin UserPhases => Turn' = Last(table)
  <2>1. phase' = "fixed users" => Turn' = line' BY Zenon DEF Turn
  <2>2. phase' = "auto users" => Turn' = Len(table') + line' BY Zenon DEF Turn
  <2>3. phase' \notin UserPhases => Turn' = Last(table') BY Zenon DEF Turn, UserPhases
  <2> QED BY <2>1, <2>2, <2>3
<1>4. CASE line < Len(table)
  <2>1. phase' = phase /\ line' = line + 1 BY <1>2, <1>4
  <2>2. CASE phase = "fixed users" BY <1>1, <1>2, <1>3, <2>1, <2>2, TurnOf
  <2>3. CASE phase = "auto users"
    <3>1. Turn = Len(table) + line /\ Turn' = Len(table) + (line + 1)
      BY <1>3, <2>1, <2>3, TurnOf
    <3>2. Turn' = Turn + 1 BY <1>1, <3>1
    <3> QED BY <1>2, <2>1, <3>2
  <2> QED BY <2>2, <2>3 DEF UserPhases
<1>5. CASE ~(line < Len(table))
  <2>1. phase' = NextPhase[phase] /\ line' = 1 /\ line = Len(table) BY <1>1, <1>2, <1>5
  <2>2. CASE phase = "fixed users"
    <3>1. phase' = "auto users" BY <2>1, <2>2, NextPhaseIs
    <3> QED BY <1>1, <1>2, <1>3, <2>1, <2>2, <3>1, TurnOf DEF UserPhases
  <2>3. CASE phase = "auto users"
    <3>1. phase' = "done" BY <2>1, <2>3, NextPhaseIs
    <3>2. Turn = Len(table) + line /\ Turn' = Last(table)
      BY <1>3, <2>3, <3>1, TurnOf DEF UserPhases
    <3>3. Last(table) = Len(table) + Len(table) + 1 BY TurnIs
    <3>4. Turn' = Turn + 1 BY <1>1, <2>1, <3>2, <3>3
    <3> QED BY <1>2, <3>1, <3>4
  <2> QED BY <2>2, <2>3 DEF UserPhases
<1> QED BY <1>4, <1>5

\* A story begins, and goes on with the next group and with the next turn.
LEMMA StoryBegins ==
  ASSUME NEW t \in Seq(Line)
  PROVE  \E M, O : /\ MembersStory(t, M, 1, 1) /\ M[<<1, 1>>] = [g \in Group |-> << >>]
                   /\ HomesStory(t, O, 1) /\ O[1] = [h \in Homes |-> NoUser]
<1> DEFINE m0 == [g \in Group |-> << >>]
           M0 == [p \in Nat \X Nat |-> m0]
           O0 == [k \in Nat |-> [h \in Homes |-> NoUser]]
<1>1. m0 \in Members BY DEF Members
<1>2. M0 \in [Nat \X Nat -> Members] /\ M0[<<1, 1>>] = m0
  <2> HIDE DEF m0
  <2> QED BY <1>1
<1>3. ASSUME NEW k \in 1 .. Len(t) + Len(t)
      PROVE  ~(k < 1) /\ \A j \in DOMAIN t[At(t, k)].groups : ~(j < 1)
  <2>1. t[At(t, k)] \in Line BY TurnLine
  <2>2. DOMAIN t[At(t, k)].groups \subseteq Nat \ {0} BY <2>1, LineParts
  <2>3. Len(t) \in Nat BY LenProperties
  <2> QED BY <2>2, <2>3
<1>4. MembersStory(t, M0, 1, 1)
  <2> HIDE DEF M0
  <2> QED BY <1>2, <1>3 DEF MembersStory
<1>5. HomesStory(t, O0, 1) /\ O0[1] = [h \in Homes |-> NoUser]
  BY <1>3 DEF HomesStory, Holders
<1> QED BY <1>2, <1>4, <1>5

EntersTo(t, N, n, i, m) == MembersStory(t, N, n, i + 1) /\ N[<<n, i + 1>>] = m
TurnOver(t, n, i) == IF Takes(t, n) THEN i = Len(t[At(t, n)].groups) + 1 ELSE i = 1
MovedAt(t, n, o) == IF Takes(t, n) THEN Moved(o, t[At(t, n)]) ELSE o
After(t, N, P, n, m, o) ==
  /\ MembersStory(t, N, n + 1, 1) /\ N[<<n + 1, 1>>] = m
  /\ HomesStory(t, P, n + 1) /\ P[n + 1] = o

LEMMA StoryEnters ==
  ASSUME NEW t \in Seq(Line), NEW n \in 1 .. Len(t) + Len(t), Takes(t, n),
         NEW i \in DOMAIN t[At(t, n)].groups, NEW M, MembersStory(t, M, n, i),
         t[At(t, n)].user \in User
  PROVE  \E N : EntersTo(t, N, n, i, Entered(M[<<n, i>>], t[At(t, n)], i))
<1> DEFINE l == t[At(t, n)]
           m == Entered(M[<<n, i>>], l, i)
           N == [M EXCEPT ![<<n, i + 1>>] = m]
<1>1. l \in Line /\ n \in Nat \ {0} /\ Len(t) \in Nat BY TurnLine, LenProperties
<1>2. DOMAIN l.groups = 1 .. Len(l.groups) /\ Len(l.groups) \in Nat /\ i \in Nat \ {0}
  <2>1. DOMAIN l.groups = 1 .. Len(l.groups) /\ Len(l.groups) \in Nat BY <1>1, LineParts
  <2> HIDE DEF l
  <2> QED BY <2>1 DEF l
<1>3. M \in [Nat \X Nat -> Members] /\ <<n, i>> \in Nat \X Nat
  BY <1>1, <1>2 DEF MembersStory
<1>4. m \in Members BY <1>1, <1>3, EnteredType
<1> HIDE DEF m
<1>5. N \in [Nat \X Nat -> Members] /\ N[<<n, i + 1>>] = m
      /\ \A k, j \in Nat : k # n \/ j # i + 1 => N[<<k, j>>] = M[<<k, j>>]
  BY <1>1, <1>2, <1>3, <1>4
<1> HIDE DEF N
<1>6. N[<<1, 1>>] = M[<<1, 1>>] BY <1>2, <1>5
<1>7. ASSUME NEW k \in 1 .. Len(t) + Len(t), k < n
      PROVE  /\ N[<<k + 1, 1>>] = M[<<k + 1, 1>>] /\ N[<<k, 1>>] = M[<<k, 1>>]
             /\ N[<<k, Len(t[At(t, k)].groups) + 1>>] = M[<<k, Len(t[At(t, k)].groups) + 1>>]
  <2>1. Len(t[At(t, k)].groups) \in Nat BY TurnLine, LineParts
  <2>2. k \in Nat /\ k # n /\ i + 1 # 1 BY <1>1, <1>2, <1>7
  <2> QED BY <1>5, <2>1, <2>2
<1>8. ASSUME NEW k \in 1 .. Len(t) + Len(t), Takes(t, k), NEW j \in DOMAIN t[At(t, k)].groups,
             k < n \/ (k = n /\ j < i + 1)
      PROVE  N[<<k, j + 1>>] = Entered(N[<<k, j>>], t[At(t, k)], j)
  <2>1. j \in Nat \ {0} /\ k \in Nat BY <1>1, TurnLine, LineParts
  <2>2. CASE k < n \/ (k = n /\ j < i)
    <3>1. N[<<k, j + 1>>] = M[<<k, j + 1>>] /\ N[<<k, j>>] = M[<<k, j>>]
      BY <1>1, <1>2, <1>5, <2>1, <2>2
    <3>2. M[<<k, j + 1>>] = Entered(M[<<k, j>>], t[At(t, k)], j)
      BY <1>8, <2>2 DEF MembersStory
    <3> QED BY <3>1, <3>2
  <2>3. CASE k = n /\ j = i
    <3>1. N[<<k, j>>] = M[<<n, i>>] BY <1>1, <1>2, <1>5, <2>3
    <3> QED BY <1>5, <2>3, <3>1 DEF m
  <2> QED BY <1>1, <1>2, <1>8, <2>1, <2>2, <2>3
<1>9. MembersStory(t, N, n, i + 1)
  BY <1>5, <1>6, <1>7, <1>8 DEF MembersStory
<1> QED BY <1>5, <1>9 DEF EntersTo, m

LEMMA StoryTurns ==
  ASSUME NEW t \in Seq(Line), NEW n \in 1 .. Len(t) + Len(t), NEW M, NEW O,
         NEW i, MembersStory(t, M, n, i), HomesStory(t, O, n), TurnOver(t, n, i)
  PROVE  \E N, P : After(t, N, P, n, M[<<n, i>>], MovedAt(t, n, O[n]))
<1>0. /\ Takes(t, n) => i = Len(t[At(t, n)].groups) + 1
      /\ ~Takes(t, n) => i = 1
  BY DEF TurnOver
<1> DEFINE l == t[At(t, n)]
           m == M[<<n, i>>]
           N == [M EXCEPT ![<<n + 1, 1>>] = m]
           o == MovedAt(t, n, O[n])
           P == [O EXCEPT ![n + 1] = o]
<1>1. l \in Line /\ n \in Nat \ {0} /\ Len(t) \in Nat BY TurnLine, LenProperties
<1>2. Len(l.groups) \in Nat /\ DOMAIN l.groups = 1 .. Len(l.groups) BY <1>1, LineParts
<1>3. i \in Nat \ {0} BY <1>0, <1>2
<1>4. M \in [Nat \X Nat -> Members] /\ O \in [Nat -> Holders]
  BY DEF MembersStory, HomesStory
<1>5. m \in Members /\ o \in Holders
  <2>1. m \in Members BY <1>1, <1>3, <1>4
  <2>2. Moved(O[n], l) \in Holders BY <1>1, <1>4, MovedType
  <2> QED BY <1>1, <1>4, <2>1, <2>2 DEF MovedAt
<1> HIDE DEF m, o
<1>6. N \in [Nat \X Nat -> Members] /\ N[<<n + 1, 1>>] = m
      /\ \A k, j \in Nat : k <= n => N[<<k, j>>] = M[<<k, j>>]
  BY <1>1, <1>4, <1>5
<1>7. P \in [Nat -> Holders] /\ P[n + 1] = o /\ \A k \in Nat : k <= n => P[k] = O[k]
  BY <1>1, <1>4, <1>5
<1> HIDE DEF N, P
<1>8. N[<<1, 1>>] = M[<<1, 1>>] /\ P[1] = O[1] BY <1>1, <1>6, <1>7
<1>9. ASSUME NEW k \in 1 .. Len(t) + Len(t), k < n + 1
      PROVE  /\ N[<<k + 1, 1>>] =
                  IF Takes(t, k) THEN N[<<k, Len(t[At(t, k)].groups) + 1>>] ELSE N[<<k, 1>>]
             /\ P[k + 1] = IF Takes(t, k) THEN Moved(P[k], t[At(t, k)]) ELSE P[k]
  <2>1. Len(t[At(t, k)].groups) \in Nat /\ k \in Nat BY <1>1, TurnLine, LineParts
  <2>2. N[<<k, 1>>] = M[<<k, 1>>] /\ P[k] = O[k]
        /\ N[<<k, Len(t[At(t, k)].groups) + 1>>] = M[<<k, Len(t[At(t, k)].groups) + 1>>]
    BY <1>1, <1>6, <1>7, <1>9, <2>1
  <2>3. CASE k < n
    <3>1. N[<<k + 1, 1>>] = M[<<k + 1, 1>>] /\ P[k + 1] = O[k + 1]
      BY <1>1, <1>6, <1>7, <2>1, <2>3
    <3> QED BY <2>2, <2>3, <3>1 DEF MembersStory, HomesStory
  <2>4. CASE k = n
    BY <1>0, <1>6, <1>7, <2>2, <2>4 DEF m, o, MovedAt
  <2> QED BY <1>1, <1>9, <2>1, <2>3, <2>4
<1>10. ASSUME NEW k \in 1 .. Len(t) + Len(t), Takes(t, k), NEW j \in DOMAIN t[At(t, k)].groups,
              k < n + 1 \/ (k = n + 1 /\ j < 1)
       PROVE  N[<<k, j + 1>>] = Entered(N[<<k, j>>], t[At(t, k)], j)
  <2>1. j \in Nat \ {0} /\ k \in Nat BY <1>1, TurnLine, LineParts
  <2>2. k <= n BY <1>1, <1>10, <2>1
  <2>3. N[<<k, j + 1>>] = M[<<k, j + 1>>] /\ N[<<k, j>>] = M[<<k, j>>]
    BY <1>6, <2>1, <2>2
  <2>4. k < n \/ (k = n /\ j < i)
    <3>1. CASE k = n
      <4>1. j \in 1 .. Len(l.groups) /\ i = Len(l.groups) + 1 BY <1>0, <1>2, <1>10, <3>1
      <4> QED BY <1>2, <3>1, <4>1
    <3> QED BY <1>1, <2>1, <2>2, <3>1
  <2> QED BY <1>10, <2>3, <2>4 DEF MembersStory
<1>11. MembersStory(t, N, n + 1, 1)
  BY <1>4, <1>6, <1>8, <1>9, <1>10 DEF MembersStory
<1>12. HomesStory(t, P, n + 1) BY <1>7, <1>8, <1>9 DEF HomesStory
<1> QED BY <1>6, <1>7, <1>11, <1>12 DEF After, m, o

-----------------------------------------------------------------------------
\* What a line of the loops over the groups adds to what is done.
LEMMA SkipDone ==
  ASSUME IInv, TInv, SkipLine, NEW i \in DOMAIN table
  PROVE  /\ GroupDone(i)' => GroupDone(i)
         /\ \A j \in DOMAIN table[i].groups : ExtraDone(i, j)' => ExtraDone(i, j)
         /\ UserDone(i)' => UserDone(i)
         /\ ~UserAt(i)'
<1>1. phase \in Running /\ ~Selected /\ Advance /\ table' = table
  BY DEF SkipLine
<1>2. DOMAIN table[i].groups \subseteq Nat \ {0} BY TableType, LineParts DEF IInv
<1>3. i = line /\ phase = "more groups" => DOMAIN table[i].groups = {}
  <2>1. DOMAIN << >> = {} OBVIOUS
  <2>2. i = line /\ phase = "more groups" => table[i].groups = << >>
    BY <1>1, SelectedIs DEF L
  <2> QED BY <2>1, <2>2
<1> QED BY <1>1, <1>2, <1>3, AdvanceDone DEF IInv

LEMMA AddOneGroupDone ==
  ASSUME IInv, TInv, AddOneGroup
  PROVE  /\ Wanted.name \in Group /\ Mentioned(table, Wanted.name)
         /\ table' = table /\ phase \in Running \ UserPhases
         /\ phase' \in UserPhases => phase' = "fixed users" /\ line' = 1 /\ item' = 1
         /\ \A i \in DOMAIN table :
              /\ GroupDone(i)' => GroupDone(i) \/ table[i].group = Wanted.name
              /\ \A j \in DOMAIN table[i].groups :
                   ExtraDone(i, j)' => ExtraDone(i, j) \/ table[i].groups[j] = Wanted.name
              /\ ~UserDone(i)' /\ ~UserAt(i)'
<1>1. phase \in Running \ UserPhases /\ Selected /\ table' = table
  BY DEF AddOneGroup, AddsGroup
<1>2. L \in Line /\ table[line] = L /\ line \in DOMAIN table
  BY <1>1, LineType, TableType DEF IInv, L
<1>3. phase \in {"fixed groups", "auto groups", "more groups"} BY <1>1, PhasesDiffer
<1>4. step = "start" /\ item \in Nat \ {0} BY <1>1 DEF IInv, TypeOK, TInv, PlaceInv
<1>5. /\ Len(L.groups) \in Nat /\ DOMAIN L.groups = 1 .. Len(L.groups)
      /\ \A j \in DOMAIN L.groups : L.groups[j] \in Group
      /\ L.group \in Group /\ L.gid \in Int
  BY <1>2, LineParts
<1>6. phase = "more groups" => item \in DOMAIN L.groups
  <2>1. phase = "more groups" => L.groups # << >> BY <1>1, SelectedIs
  <2>2. L.groups # << >> => Len(L.groups) # 0 BY <1>2, LineParts
  <2>3. phase = "more groups" => item = 1 \/ item <= Len(L.groups)
    BY <1>4 DEF TInv, PlaceInv
  <2>4. \A n \in Nat : n # 0 /\ (item = 1 \/ item <= n) => item \in 1 .. n BY <1>4
  <2> QED BY <1>5, <2>1, <2>2, <2>3, <2>4
<1>7. /\ phase = "more groups" => Wanted.name = L.groups[item]
      /\ phase # "more groups" => Wanted.name = L.group
  BY DEF Wanted
<1>8. Wanted.name \in Group BY <1>5, <1>6, <1>7
<1>9. Mentioned(table, Wanted.name)
  <2>1. CASE phase = "more groups" BY <1>2, <1>6, <1>7, <2>1 DEF Mentioned
  <2>2. CASE phase # "more groups"
    <3>1. L.gid >= 0 \/ L.gid = -1 BY <1>1, <1>3, <2>2, SelectedIs DEF None
    <3>2. \A n \in Int : n >= 0 \/ n = -1 => n >= -1 OBVIOUS
    <3> QED BY <1>2, <1>5, <1>7, <2>2, <3>1, <3>2 DEF Mentioned
  <2> QED BY <2>1, <2>2
<1>10. \A i \in DOMAIN table : \A j \in DOMAIN table[i].groups : j \in Nat \ {0}
  BY TableType, LineParts DEF IInv
<1>11. CASE phase = "more groups" /\ item < Len(L.groups)
  <2>1. item' = item + 1 /\ UNCHANGED <<phase, line, step>> BY <1>11 DEF AddOneGroup
  <2>2. ASSUME NEW i \in DOMAIN table
        PROVE  /\ GroupDone(i)' => GroupDone(i)
               /\ \A j \in DOMAIN table[i].groups :
                    ExtraDone(i, j)' => ExtraDone(i, j) \/ (i = line /\ j = item)
               /\ ~UserDone(i)' /\ ~UserAt(i)'
    <3>1. GroupDone(i)' => GroupDone(i) BY <1>1, <2>1 DEF GroupDone
    <3>2. \A j \in Nat : j < item + 1 => j < item \/ j = item BY <1>4
    <3>3. \A j \in DOMAIN table[i].groups :
            ExtraDone(i, j)' => ExtraDone(i, j) \/ (i = line /\ j = item)
      BY <1>10, <1>11, <2>1, <3>2 DEF ExtraDone, UserPhases
    <3>4. ~UserDone(i)' /\ ~UserAt(i)' BY <2>1, <1>11 DEF UserDone, UserAt, UserPhases
    <3> QED BY <3>1, <3>3, <3>4
  <2>3. phase' \notin UserPhases BY <1>1, <2>1
  <2> QED BY <1>1, <1>2, <1>7, <1>8, <1>9, <1>11, <2>2, <2>3
<1>12. CASE ~(phase = "more groups" /\ item < Len(L.groups))
  <2>1. Advance BY <1>12 DEF AddOneGroup
  <2>2. ASSUME NEW i \in DOMAIN table
        PROVE  /\ GroupDone(i)' => GroupDone(i) \/ (i = line /\ phase # "more groups")
               /\ \A j \in DOMAIN table[i].groups :
                    ExtraDone(i, j)' => ExtraDone(i, j) \/ (i = line /\ phase = "more groups")
               /\ ~UserDone(i)' /\ ~UserAt(i)'
    BY <1>1, <1>10, <2>1, AdvanceDone, NoUserYet DEF IInv
  <2>3. ASSUME phase = "more groups", NEW j \in DOMAIN L.groups
        PROVE  ExtraDone(line, j) \/ j = item
    <3>1. \A n \in Nat : item \in 1 .. n /\ ~(item < n) => \A k \in 1 .. n : k < item \/ k = item
      BY <1>4
    <3>2. j < item \/ j = item BY <1>5, <1>6, <1>12, <2>3, <3>1
    <3> QED BY <2>3, <3>2 DEF ExtraDone
  <2>4. phase' \in UserPhases => phase' = "fixed users" /\ line' = 1 /\ item' = 1
    <3>1. phase' = phase \/ (phase' = NextPhase[phase] /\ line' = 1) BY <2>1 DEF Advance
    <3> QED BY <1>3, <2>1, <3>1, NextPhaseIs DEF Advance, UserPhases
  <2>5. ASSUME NEW i \in DOMAIN table, NEW j \in DOMAIN table[i].groups, ExtraDone(i, j)'
        PROVE  ExtraDone(i, j) \/ table[i].groups[j] = Wanted.name
    <3>1. ExtraDone(i, j) \/ (i = line /\ phase = "more groups") BY <2>2, <2>5
    <3> QED BY <1>2, <1>7, <2>3, <3>1
  <2> QED BY <1>1, <1>2, <1>7, <1>8, <1>9, <2>2, <2>4, <2>5
<1> QED BY <1>11, <1>12

\* Where the loops over the groups leave off the stories begin.
ResetDone ==
  /\ \A h \in Homes : owner[h] = Missing
  /\ \A i \in DOMAIN table :
       /\ GroupDone(i) => group[table[i].group].members = << >>
       /\ \A j \in DOMAIN table[i].groups :
            ExtraDone(i, j) => group[table[i].groups[j]].members = << >>

LEMMA ResetTells ==
  ASSUME ResetDone, phase = "fixed users", NEW m, NEW o, NEW pw,
         m = [g \in Group |-> << >>], o = [h \in Homes |-> NoUser]
  PROVE  TellsMembers(table, m, group) /\ TellsHomes(o, pw, owner)
<1>1. ASSUME NEW g \in Group, Mentioned(table, g) PROVE group[g].members = << >>
  <2>1. PICK i \in DOMAIN table : \/ table[i].gid >= -1 /\ table[i].group = g
                                  \/ \E j \in DOMAIN table[i].groups : table[i].groups[j] = g
    BY <1>1 DEF Mentioned
  <2>2. table[i].gid >= -1 => GroupDone(i) BY DEF GroupDone, UserPhases
  <2>3. \A j : ExtraDone(i, j) BY DEF ExtraDone, UserPhases
  <2> QED BY <2>1, <2>2, <2>3 DEF ResetDone
<1>2. TellsMembers(table, m, group) BY <1>1 DEF TellsMembers
<1>3. TellsHomes(o, pw, owner) BY DEF TellsHomes, ResetDone
<1> QED BY <1>2, <1>3

LEMMA ResetThenStory ==
  ASSUME IInv, ResetDone, phase \in Running,
         phase \in UserPhases => phase = "fixed users" /\ line = 1 /\ item = 1
  PROVE  ResetInv /\ StoryInv
<1>1. ResetInv BY DEF ResetInv, ResetDone
<1>2. CASE phase \notin UserPhases BY <1>1, <1>2, PhasesDiffer DEF StoryInv
<1>3. CASE phase \in UserPhases
  <2>1. phase = "fixed users" /\ Turn = 1 /\ item = 1 BY <1>3, TurnOf
  <2>2. table \in Seq(Line) BY TableType DEF IInv
  <2>3. PICK M, O : /\ MembersStory(table, M, 1, 1) /\ M[<<1, 1>>] = [g \in Group |-> << >>]
                    /\ HomesStory(table, O, 1) /\ O[1] = [h \in Homes |-> NoUser]
    BY <2>2, StoryBegins
  <2>4. TellsMembers(table, M[<<1, 1>>], group) /\ TellsHomes(O[1], Accounts, owner)
    BY <2>1, <2>3, ResetTells
  <2>5. HolderDone(O[1]) BY <2>3 DEF HolderDone
  <2>6. StoryInv BY <2>1, <2>3, <2>4, <2>5 DEF StoryInv
  <2> QED BY <1>1, <2>6
<1> QED BY <1>2, <1>3

\* The gids that lines have given, the last line for each group.
LEMMA FixedSame ==
  ASSUME NEW t \in Seq(Line), NEW n, NEW gr, NEW hr, LastFixed(t, n, gr),
         \A i \in DOMAIN t : t[i].gid >= 0 /\ gr[t[i].group].gid = t[i].gid
                               => hr[t[i].group].gid = t[i].gid
  PROVE  LastFixed(t, n, hr)
BY DEF LastFixed

LEMMA FixedNext ==
  ASSUME NEW t \in Seq(Line), NEW n \in DOMAIN t, NEW gr, NEW hr, LastFixed(t, n, gr),
         t[n].gid >= 0 => hr[t[n].group].gid = t[n].gid,
         \A g \in Group : ~Fixed(t, n, g) => hr[g].gid = gr[g].gid
  PROVE  LastFixed(t, n + 1, hr)
<1>1. DOMAIN t = 1 .. Len(t) /\ Len(t) \in Nat /\ \A i \in DOMAIN t : t[i] \in Line
  BY LenProperties
<1>2. SUFFICES ASSUME NEW i \in DOMAIN t, i < n + 1, t[i].gid >= 0,
                      \A k \in DOMAIN t : i < k /\ k < n + 1 => ~Fixed(t, k, t[i].group)
               PROVE  hr[t[i].group].gid = t[i].gid
  BY DEF LastFixed
<1>3. CASE i = n BY <1>2, <1>3
<1>4. CASE i # n
  <2>1. i < n /\ n < n + 1 /\ i \in Nat /\ n \in Nat BY <1>1, <1>2, <1>4
  <2>2. ~Fixed(t, n, t[i].group) BY <1>2, <2>1
  <2>3. \A k \in DOMAIN t : i < k /\ k < n => ~Fixed(t, k, t[i].group)
    BY <1>1, <1>2, <2>1
  <2>4. gr[t[i].group].gid = t[i].gid BY <1>2, <2>1, <2>3 DEF LastFixed
  <2>5. t[i].group \in Group BY <1>1, LineParts
  <2> QED BY <2>2, <2>4, <2>5
<1> QED BY <1>3, <1>4

LEMMA FixedAdvance ==
  ASSUME TypeOK, phase \in Running, Advance, table' = table
  PROVE  /\ phase = "fixed groups" => FixedTo' = line + 1 /\ FixedTo = line
         /\ phase # "fixed groups" => FixedTo' = Len(table) + 1 /\ FixedTo = Len(table) + 1
         /\ phase' \in Running \cup {"done"}
<1>1. Len(table) \in Nat /\ line \in 1 .. Len(table)
  BY LineType, LenProperties
<1>2. /\ line' = (IF line < Len(table) THEN line + 1 ELSE 1)
      /\ phase' = (IF line < Len(table) THEN phase ELSE NextPhase[phase])
  BY DEF Advance
<1>3. NextPhase[phase] \in Running \cup {"done"} /\ NextPhase[phase] # "fixed groups"
  BY PhaseType, NextPhaseIs
<1>4. CASE line < Len(table) BY <1>1, <1>2, <1>4 DEF FixedTo
<1>5. CASE ~(line < Len(table))
  <2>1. phase' = NextPhase[phase] /\ line = Len(table) BY <1>1, <1>2, <1>5
  <2>2. phase' \in Running \cup {"done"} /\ phase' # "fixed groups" BY <1>3, <2>1
  <2>3. FixedTo' = Len(table) + 1 BY <2>2 DEF FixedTo
  <2> QED BY <2>1, <2>2, <2>3 DEF FixedTo
<1> QED BY <1>4, <1>5

\* The users that are done stay done, and the user of the line joins them.
LEMMA DoneStays ==
  ASSUME TypeOK, phase \in UserPhases, Advance, table' = table, NEW i \in DOMAIN table
  PROVE  UserDone(i) \/ (i = line /\ Selected) => UserDone(i)'
<1>1. Len(table) \in Nat /\ line \in 1 .. Len(table) /\ i \in 1 .. Len(table)
  BY TurnIs, TableType
<1>2. /\ line' = (IF line < Len(table) THEN line + 1 ELSE 1)
      /\ phase' = (IF line < Len(table) THEN phase ELSE NextPhase[phase])
  BY DEF Advance
<1>3. table[i].uid \in Int /\ (i = line => table[i] = L)
  BY TableType, LineParts DEF L
<1>4. (i = line /\ Selected) =>
        /\ table[i].user # NoUser /\ table[i].uid >= -1
        /\ phase = "fixed users" => table[i].uid >= 0
  <2>1. ASSUME i = line, Selected
        PROVE  /\ L.user # NoUser /\ (L.uid >= 0 \/ L.uid = -1)
               /\ phase = "fixed users" => L.uid >= 0
    BY <2>1, SelectedIs DEF UserPhases, None
  <2>2. \A n \in Int : n >= 0 \/ n = -1 => n >= -1 OBVIOUS
  <2> QED BY <1>3, <2>1, <2>2
<1>5. CASE phase = "fixed users"
  <2>1. line < Len(table) => phase' = "fixed users" BY <1>2, <1>5
  <2>2. ~(line < Len(table)) => phase' = "auto users" BY <1>2, <1>5, NextPhaseIs
  <2>3. (i < line \/ i = line) => (phase' = "fixed users" => i < line')
    <3>1. phase' = "fixed users" => line' = line + 1 BY <1>2, <2>2
    <3>2. i < line + 1 <=> i < line \/ i = line BY <1>1
    <3> QED BY <3>1, <3>2
  <2> QED BY <1>4, <1>5, <2>1, <2>2, <2>3 DEF UserDone
<1>6. CASE phase = "auto users"
  <2>1. line < Len(table) => phase' = "auto users" BY <1>2, <1>6
  <2>2. ~(line < Len(table)) => phase' = "done" BY <1>2, <1>6, NextPhaseIs
  <2>3. (i < line \/ i = line) => (phase' = "auto users" => i < line')
    <3>1. phase' = "auto users" => line' = line + 1 BY <1>2, <2>2
    <3>2. i < line + 1 <=> i < line \/ i = line BY <1>1
    <3> QED BY <3>1, <3>2
  <2> QED BY <1>4, <1>6, <2>1, <2>2, <2>3 DEF UserDone
<1> QED BY <1>5, <1>6 DEF UserPhases

\* The end of a turn, with the homes as the line wants them.
LEMMA TurnEnds ==
  ASSUME IInv, RunInv, phase \in UserPhases, Advance, table' = table,
         Accounts' = Accounts, group' = group,
         Selected => item = Len(L.groups) + 1, ~Selected => item = 1,
         Selected => owner' = Chown(owner, L, Accounts[L.user]),
         ~Selected => owner' = owner,
         Selected => L.user \in User
  PROVE  StoryInv'
<1>1. /\ Turn \in 1 .. Len(table) + Len(table) /\ At(table, Turn) = line
      /\ table[At(table, Turn)] = L /\ (Selected <=> Takes(table, Turn))
  BY TurnIs DEF IInv, L
<1>2. table \in Seq(Line) BY TableType DEF IInv
<1>3. PICK M, O : /\ MembersStory(table, M, Turn, item)
                  /\ TellsMembers(table, M[<<Turn, item>>], group)
                  /\ HomesStory(table, O, Turn) /\ TellsHomes(O[Turn], Accounts, owner)
                  /\ HolderDone(O[Turn])
  BY DEF RunInv, StoryInv
<1>4. PICK N, P : After(table, N, P, Turn, M[<<Turn, item>>], MovedAt(table, Turn, O[Turn]))
  <2>1. TurnOver(table, Turn, item) BY <1>1 DEF TurnOver
  <2> QED BY <1>1, <1>2, <1>3, <2>1, StoryTurns
<1>5. Turn' = Turn + 1 /\ item' = 1 BY TurnAdvance DEF IInv
<1>6. O[Turn] \in Holders /\ owner \in [Homes -> Entry]
  BY <1>1, <1>2, <1>3, LenProperties DEF HomesStory, IInv, TypeOK
<1>7. PICK o, q : o = O[Turn] /\ q = P[Turn + 1] OBVIOUS
<1>11. q = MovedAt(table, Turn, o) /\ HomesStory(table, P, Turn + 1)
       /\ MembersStory(table, N, Turn + 1, 1) /\ N[<<Turn + 1, 1>>] = M[<<Turn, item>>]
  BY <1>4, <1>7 DEF After
<1>8. /\ TellsHomes(q, Accounts, owner')
      /\ \A h \in Homes : q[h] # NoUser => q[h] = o[h] \/ (Selected /\ q[h] = L.user)
  <2>0. /\ o \in Holders /\ TellsHomes(o, Accounts, owner)
        /\ Selected => q = Moved(o, L)
        /\ ~Selected => q = o
    BY <1>1, <1>3, <1>6, <1>7, <1>11 DEF MovedAt
  <2>1. CASE ~Selected
    BY <2>0, <2>1
  <2>2. CASE Selected
    <3> DEFINE C(h) == L.home \in Homes /\ h \in Below[L.home]
    <3>1. q = Chown(o, L, L.user) /\ L.user # NoUser
      BY <2>0, <2>2, MkUsersAssumption DEF Moved
    <3>2. owner' = Chown(owner, L, Accounts[L.user]) BY <2>2
    <3>3. \A h \in Homes : ~C(h) => q[h] = o[h] /\ owner'[h] = owner[h]
      BY <3>1, <3>2 DEF Chown
    <3>4. \A h \in Homes : C(h) => q[h] = L.user /\ owner'[h] = Accounts[L.user]
      BY <3>1, <3>2 DEF Chown
    <3> HIDE DEF C
    <3> QED BY <2>0, <2>2, <3>1, <3>3, <3>4 DEF TellsHomes
  <2> QED BY <2>1, <2>2
<1>9. HolderDone(q)'
  <2>1. ASSUME NEW h \in Homes, q[h] # NoUser
        PROVE  \E i \in DOMAIN table : UserDone(i)' /\ table[i].user = q[h]
    <3>1. CASE q[h] = o[h]
      <4>1. PICK i \in DOMAIN table : UserDone(i) /\ table[i].user = o[h]
        BY <1>3, <1>7, <2>1, <3>1 DEF HolderDone
      <4>2. UserDone(i)' BY <4>1, DoneStays DEF IInv
      <4> QED BY <3>1, <4>1, <4>2
    <3>2. CASE Selected /\ q[h] = L.user
      <4>1. PICK i \in DOMAIN table : i = line /\ table[i] = L
        BY TurnIs, TableType DEF IInv, L
      <4>2. UserDone(i)' BY <3>2, <4>1, DoneStays DEF IInv
      <4> QED BY <3>2, <4>1, <4>2
    <3> QED BY <1>8, <2>1, <3>1, <3>2
  <2> QED BY <2>1 DEF HolderDone
<1>10. /\ MembersStory(table', N, Turn', item') /\ HomesStory(table', P, Turn')
       /\ TellsMembers(table', N[<<Turn', item'>>], group')
       /\ P[Turn'] = q /\ TellsHomes(q, Accounts', owner')
  BY <1>3, <1>5, <1>7, <1>11, <1>8
<1> QED BY <1>9, <1>10 DEF StoryInv
-----------------------------------------------------------------------------
LEMMA ResetThen ==
  /\ IInv /\ ResetDone /\ phase \in Running
  /\ phase \in UserPhases => phase = "fixed users" /\ line = 1 /\ item = 1
  => ResetInv /\ StoryInv
BY ResetThenStory

LEMMA ResetThenNext ==
  (/\ IInv /\ ResetDone /\ phase \in Running
   /\ phase \in UserPhases => phase = "fixed users" /\ line = 1 /\ item = 1)'
  => (ResetInv /\ StoryInv)'
BY ResetThen, PTL

LEMMA InitRun == Init => RunInv /\ FoundInv /\ AgainInv
<1> SUFFICES ASSUME Init PROVE RunInv /\ FoundInv /\ AgainInv OBVIOUS
<1>0. table = << >> /\ step = "start" /\ phase = "none" /\ found.ended = "none"
  BY DEF Init
<1>1. /\ DOMAIN table = {} /\ phase \notin Running \cup {"done"} /\ phase \notin UserPhases
  <2>1. DOMAIN << >> = {} OBVIOUS
  <2>2. phase \notin Running \cup {"done"} /\ phase \notin UserPhases
    BY <1>0, PhaseType DEF UserPhases
  <2> QED BY <1>0, <2>1, <2>2
<1>2. CleanInv BY <1>0, <1>1 DEF CleanInv
<1>3. ResetInv /\ StoryInv BY <1>0, <1>1 DEF ResetInv, StoryInv
<1> QED BY <1>0, <1>2, <1>3 DEF RunInv, FoundInv, AgainInv, Again

\* A run that has been stopped claims nothing.
LEMMA StopRun ==
  ASSUME NEW how \in {"failed", "killed"}, Stop(how)
  PROVE  RunInv'
<1>1. /\ phase' \in {"failed", "killed"} /\ step' = "start"
      /\ phase' \notin Running \cup {"done"} /\ phase' \notin UserPhases
  BY PhaseType DEF Stop, UserPhases
<1>2. \A i : ~UserDone(i)' /\ ~UserAt(i)' BY <1>1 DEF UserDone, UserAt, UserPhases
<1>3. CleanInv' BY <1>1, <1>2 DEF CleanInv
<1>4. ResetInv' /\ StoryInv' BY <1>1 DEF ResetInv, StoryInv
<1> QED BY <1>3, <1>4 DEF RunInv

\* A line that needs nothing from the loop.
LEMMA SkipFixed ==
  ASSUME IInv, RunInv, SkipLine
  PROVE  LastFixed(table, FixedTo', group)
<1>1. phase \in Running /\ ~Selected /\ Advance /\ table' = table
  BY DEF SkipLine
<1>2. LastFixed(table, FixedTo, group) BY <1>1 DEF RunInv, CleanInv
<1>3. CASE phase = "fixed groups"
  <2>1. FixedTo' = line + 1 /\ FixedTo = line BY <1>1, <1>3, FixedAdvance DEF IInv
  <2>2. table \in Seq(Line) /\ line \in DOMAIN table /\ ~(table[line].gid >= 0)
    BY <1>1, <1>3, LineType, SelectedIs, LenProperties DEF IInv, L
  <2>3. PICK n : n = line OBVIOUS
  <2>4. LastFixed(table, n + 1, group) BY <1>2, <2>1, <2>2, <2>3, FixedNext
  <2> QED BY <2>1, <2>3, <2>4
<1>4. CASE phase # "fixed groups"
  <2>1. FixedTo' = FixedTo BY <1>1, <1>4, FixedAdvance DEF IInv
  <2> QED BY <1>2, <2>1
<1> QED BY <1>3, <1>4

LEMMA SkipRun == ASSUME IInv, IInv', TInv, RunInv, SkipLine PROVE RunInv'
<1>1. /\ phase \in Running /\ ~Selected /\ Advance
      /\ UNCHANGED <<passwd, group, owner, table, found>>
  BY DEF SkipLine, files
<1>2. step = "start" /\ step' = "start" /\ item' = 1
  BY <1>1 DEF TInv, PlaceInv, Advance
<1>3. CleanInv'
  <2>1. \A i \in DOMAIN table : UserDone(i)' => UserDone(i) BY SkipDone
  <2>2. \A i \in DOMAIN table : ~UserAt(i)' BY SkipDone
  <2>3. LastFixed(table', FixedTo', group') BY <1>1, SkipFixed
  <2> QED BY <1>1, <1>2, <2>1, <2>2, <2>3 DEF RunInv, CleanInv
<1>4. CASE phase \in UserPhases
  <2>1. \A u \in User : Account(u)' = Account(u)
    BY <1>1, <1>2 DEF Account, Replaced
  <2>2. Accounts' = Accounts BY <2>1 DEF Accounts
  <2>3. item = 1 BY <1>2, <1>4 DEF TInv, PlaceInv, UserPhases
  <2>4. StoryInv' BY <1>1, <1>4, <2>2, <2>3, TurnEnds
  <2>5. phase' \in UserPhases \cup {"done"} BY <1>1, <1>4, TurnAdvance DEF IInv
  <2>6. ResetInv' BY <2>5, PhasesDiffer DEF ResetInv
  <2> QED BY <1>3, <2>4, <2>6 DEF RunInv
<1>5. CASE phase \notin UserPhases
  <2>1. ResetDone'
    <3>1. \A h \in Homes : owner[h] = Missing BY <1>1, <1>5 DEF RunInv, ResetInv
    <3>2. \A i \in DOMAIN table :
            /\ GroupDone(i)' => group[table[i].group].members = << >>
            /\ \A j \in DOMAIN table[i].groups :
                 ExtraDone(i, j)' => group[table[i].groups[j]].members = << >>
      BY <1>1, <1>5, SkipDone DEF RunInv, ResetInv
    <3> QED BY <1>1, <3>1, <3>2 DEF ResetDone
  <2>2. /\ phase' \in Running
        /\ phase' \in UserPhases => phase' = "fixed users" /\ line' = 1 /\ item' = 1
    <3>1. phase \in {"fixed groups", "auto groups", "more groups"}
      BY <1>1, <1>5, PhasesDiffer
    <3>2. phase' = phase \/ (phase' = NextPhase[phase] /\ line' = 1) BY <1>1 DEF Advance
    <3> QED BY <1>2, <3>1, <3>2, NextPhaseIs, PhaseType DEF UserPhases
  <2>3. ResetInv' /\ StoryInv' BY <2>1, <2>2, ResetThenNext
  <2> QED BY <1>3, <2>3 DEF RunInv
<1> QED BY <1>4, <1>5

\* What add_one_group gives a group, and leaves to the others.
LEMMA AddOneGroupGives ==
  ASSUME IInv, TInv, AddOneGroup
  PROVE  /\ \A g \in Group : g # Wanted.name => group'[g] = group[g]
         /\ \A g \in Group : g = Wanted.name =>
              group'[g] = [gid |-> GidFor(g, Wanted.gid), members |-> << >>]
         /\ GidFor(Wanted.name, Wanted.gid) # None
         /\ phase = "fixed groups" => /\ Wanted.name = L.group /\ Wanted.gid = L.gid
                                      /\ L.gid >= 0 /\ L.gid # None
                                      /\ group'[L.group].gid = L.gid
         /\ phase # "fixed groups" =>
              /\ Wanted.gid = None
              /\ \A g \in Group : group[g].gid # None => group'[g].gid = group[g].gid
<1> DEFINE name == Wanted.name
           gid == GidFor(name, Wanted.gid)
<1>1. phase \in Running \ UserPhases /\ Selected BY DEF AddOneGroup, AddsGroup
<1>2. name \in Group BY AddOneGroupDone
<1>3. gid # None /\ group' = [group EXCEPT ![name] = [gid |-> gid, members |-> << >>]]
  BY DEF AddOneGroup
<1>4. group \in [Group -> GroupEntry] BY DEF IInv, TypeOK
<1>5. /\ \A g \in Group : g # name => group'[g] = group[g]
      /\ \A g \in Group : g = name => group'[g] = [gid |-> GidFor(g, Wanted.gid), members |-> << >>]
  <2> HIDE DEF name
  <2> QED BY <1>2, <1>3, <1>4
<1>6. ASSUME phase = "fixed groups"
      PROVE  /\ name = L.group /\ Wanted.gid = L.gid /\ L.gid >= 0 /\ L.gid # None
             /\ group'[L.group].gid = L.gid
  <2>1. name = L.group /\ Wanted.gid = L.gid BY <1>6 DEF Wanted
  <2>2. L.gid >= 0 BY <1>1, <1>6, SelectedIs
  <2>3. L \in Line BY <1>1, LineType DEF IInv
  <2>4. \A n \in Int : n >= 0 => n # -1 OBVIOUS
  <2>5. L.gid # None BY <2>2, <2>3, <2>4, LineParts DEF None
  <2>6. GidFor(L.group, L.gid) = L.gid BY <2>5 DEF GidFor
  <2>7. group'[L.group] = [gid |-> GidFor(L.group, L.gid), members |-> << >>]
    BY <1>2, <1>5, <2>1
  <2> QED BY <2>1, <2>2, <2>5, <2>6, <2>7
<1>7. ASSUME phase # "fixed groups"
      PROVE  /\ Wanted.gid = None
             /\ \A g \in Group : group[g].gid # None => group'[g].gid = group[g].gid
  <2>1. phase \in {"auto groups", "more groups"} BY <1>1, <1>7, PhasesDiffer
  <2>2. Wanted.gid = None BY <1>1, <2>1, SelectedIs DEF Wanted
  <2>3. \A g \in Group : group[g].gid # None => GidFor(g, Wanted.gid) = group[g].gid
    BY <2>2 DEF GidFor
  <2>4. ASSUME NEW g \in Group, group[g].gid # None PROVE group'[g].gid = group[g].gid
    <3>1. CASE g = name
      <4>1. group'[g] = [gid |-> GidFor(g, Wanted.gid), members |-> << >>]
        BY <1>5, <3>1
      <4>2. GidFor(g, Wanted.gid) = group[g].gid BY <2>3, <2>4
      <4> QED BY <4>1, <4>2
    <3>2. CASE g # name BY <1>5, <3>2
    <3> QED BY <3>1, <3>2
  <2> QED BY <2>2, <2>4
<1> QED BY <1>3, <1>5, <1>6, <1>7

LEMMA AddOneGroupPlace ==
  ASSUME IInv, TInv, AddOneGroup
  PROVE  /\ phase' \in Running /\ step' = "start"
         /\ phase = "fixed groups" => Advance
         /\ phase # "fixed groups" => phase' # "fixed groups"
<1>1. phase \in {"fixed groups", "auto groups", "more groups"} /\ step = "start"
  BY PhasesDiffer DEF AddOneGroup, AddsGroup, TInv, PlaceInv
<1>2. CASE phase = "more groups" /\ item < Len(L.groups)
  BY <1>1, <1>2, PhaseType DEF AddOneGroup
<1>3. CASE Advance
  <2>1. step' = "start" /\ (phase' = phase \/ phase' = NextPhase[phase]) BY <1>3 DEF Advance
  <2> QED BY <1>1, <1>3, <2>1, NextPhaseIs, PhaseType
<1> QED BY <1>1, <1>2, <1>3 DEF AddOneGroup

LEMMA AddOneGroupFixed ==
  ASSUME IInv, TInv, RunInv, AddOneGroup
  PROVE  LastFixed(table, FixedTo', group')
<1>1. phase \in Running /\ table' = table /\ table \in Seq(Line) /\ line \in DOMAIN table
  BY LineType, LenProperties DEF AddOneGroup, AddsGroup, IInv
<1>2. LastFixed(table, FixedTo, group) BY <1>1 DEF RunInv, CleanInv
<1>3. CASE phase = "fixed groups"
  <2>1. FixedTo' = line + 1 /\ FixedTo = line
    BY <1>1, <1>3, AddOneGroupPlace, FixedAdvance DEF IInv
  <2>2. PICK n : n = line OBVIOUS
  <2>3. table[n].gid >= 0 => group'[table[n].group].gid = table[n].gid
    BY <1>3, <2>2, AddOneGroupGives DEF L
  <2>4. \A g \in Group : ~Fixed(table, n, g) => group'[g].gid = group[g].gid
    BY <1>3, <2>2, AddOneGroupGives DEF Fixed, L
  <2>5. LastFixed(table, n + 1, group')
    BY <1>1, <1>2, <2>1, <2>2, <2>3, <2>4, FixedNext
  <2> QED BY <2>1, <2>2, <2>5
<1>4. CASE phase # "fixed groups"
  <2>1. FixedTo' = FixedTo BY <1>1, <1>4, AddOneGroupPlace DEF FixedTo
  <2>2. ASSUME NEW i \in DOMAIN table, table[i].gid >= 0, group[table[i].group].gid = table[i].gid
        PROVE  group'[table[i].group].gid = table[i].gid
    <3>1. table[i].gid \in Int /\ table[i].group \in Group BY <1>1, TableType, LineParts DEF IInv
    <3>2. \A n \in Int : n >= 0 => n # -1 OBVIOUS
    <3>3. table[i].gid # None BY <2>2, <3>1, <3>2 DEF None
    <3> QED BY <1>4, <2>2, <3>1, <3>3, AddOneGroupGives
  <2>3. PICK n : n = FixedTo OBVIOUS
  <2>4. LastFixed(table, n, group') BY <1>1, <1>2, <2>2, <2>3, FixedSame
  <2> QED BY <2>1, <2>3, <2>4
<1> QED BY <1>3, <1>4

LEMMA AddOneGroupRun == ASSUME IInv, IInv', TInv, RunInv, AddOneGroup PROVE RunInv'
<1>1. /\ phase \in Running \ UserPhases /\ table' = table /\ owner' = owner
      /\ Wanted.name \in Group
  BY AddOneGroupDone DEF AddOneGroup
<1>2. CleanInv'
  <2>1. step' = "start" BY AddOneGroupPlace
  <2>2. \A i \in DOMAIN table : ~UserDone(i)' /\ ~UserAt(i)' BY AddOneGroupDone
  <2>3. LastFixed(table', FixedTo', group') BY <1>1, AddOneGroupFixed
  <2> QED BY <1>1, <2>1, <2>2, <2>3 DEF CleanInv
<1>3. ResetDone'
  <2>1. \A h \in Homes : owner[h] = Missing BY <1>1 DEF RunInv, ResetInv
  <2>2. ASSUME NEW g \in Group, group[g].members = << >> \/ g = Wanted.name
        PROVE  group'[g].members = << >>
    <3>1. CASE g = Wanted.name
      <4>1. group'[g] = [gid |-> GidFor(g, Wanted.gid), members |-> << >>]
        BY <3>1, AddOneGroupGives
      <4> QED BY <4>1
    <3>2. CASE g # Wanted.name
      <4>1. group'[g] = group[g] BY <3>2, AddOneGroupGives
      <4> QED BY <2>2, <3>2, <4>1
    <3> QED BY <3>1, <3>2
  <2>3. ASSUME NEW i \in DOMAIN table
        PROVE  /\ GroupDone(i)' => group'[table[i].group].members = << >>
               /\ \A j \in DOMAIN table[i].groups :
                    ExtraDone(i, j)' => group'[table[i].groups[j]].members = << >>
    <3>1. table[i].group \in Group /\ \A j \in DOMAIN table[i].groups : table[i].groups[j] \in Group
      BY TableType, LineParts DEF IInv
    <3>2. /\ GroupDone(i)' => GroupDone(i) \/ table[i].group = Wanted.name
          /\ \A j \in DOMAIN table[i].groups :
               ExtraDone(i, j)' => ExtraDone(i, j) \/ table[i].groups[j] = Wanted.name
      BY AddOneGroupDone
    <3>3. /\ GroupDone(i) => group[table[i].group].members = << >>
          /\ \A j \in DOMAIN table[i].groups :
               ExtraDone(i, j) => group[table[i].groups[j]].members = << >>
      BY <1>1 DEF RunInv, ResetInv
    <3> QED BY <2>2, <3>1, <3>2, <3>3
  <2> QED BY <1>1, <2>1, <2>3 DEF ResetDone
<1>4. phase' \in UserPhases => phase' = "fixed users" /\ line' = 1 /\ item' = 1
  BY AddOneGroupDone
<1>5. ResetInv' /\ StoryInv' BY <1>3, <1>4, AddOneGroupPlace, ResetThenNext
<1> QED BY <1>2, <1>5 DEF RunInv

\* A step of add_one_user that leaves the story where it is.
LEMMA StoryStays ==
  ASSUME IInv, RunInv, phase \in UserPhases, UNCHANGED <<group, owner, table, phase, line, item>>,
         \A i \in DOMAIN table : UserDone(i) =>
           \A v \in User : v = table[i].user => Account(v)' = Account(v)
  PROVE  StoryInv'
<1>1. PICK M, O : /\ MembersStory(table, M, Turn, item)
                  /\ TellsMembers(table, M[<<Turn, item>>], group)
                  /\ HomesStory(table, O, Turn) /\ TellsHomes(O[Turn], Accounts, owner)
                  /\ HolderDone(O[Turn])
  BY DEF RunInv, StoryInv
<1>2. Turn' = Turn
  <2>1. Turn' = Turn BY Zenon DEF Turn
  <2> QED BY <2>1
<1>3. PICK o : o = O[Turn] OBVIOUS
<1>4. o \in Holders
  <2>1. Turn \in Nat BY TurnIs DEF IInv
  <2> QED BY <1>1, <1>3, <2>1 DEF HomesStory
<1>5. HolderDone(o)'
  <2>1. \A i : UserDone(i)' = UserDone(i) BY SameLine
  <2> QED BY <1>1, <1>3, <2>1 DEF HolderDone
<1>6. TellsHomes(o, Accounts', owner)
  <2>1. ASSUME NEW h \in Homes, o[h] # NoUser PROVE Accounts'[o[h]] = Accounts[o[h]]
    <3>1. PICK i \in DOMAIN table : UserDone(i) /\ table[i].user = o[h]
      BY <1>1, <1>3, <2>1 DEF HolderDone
    <3>2. PICK v \in User : v = o[h] BY <1>4, <2>1 DEF Holders
    <3>3. Account(v)' = Account(v) BY <3>1, <3>2
    <3>4. Accounts'[v] = Account(v)' /\ Accounts[v] = Account(v) BY DEF Accounts
    <3> QED BY <3>2, <3>3, <3>4
  <2> QED BY <1>1, <1>3, <2>1 DEF TellsHomes
<1>7. /\ MembersStory(table', M, Turn', item') /\ TellsMembers(table', M[<<Turn', item'>>], group')
      /\ HomesStory(table', O, Turn') /\ O[Turn'] = o /\ TellsHomes(o, Accounts', owner')
  BY <1>1, <1>2, <1>3, <1>6
<1> QED BY <1>5, <1>7 DEF StoryInv

LEMMA RemoveUserRun == ASSUME IInv, TInv, RunInv, RemoveUser PROVE RunInv'
<1>1. /\ AddsUser("start") /\ Valid(L) /\ step' = "removed"
      /\ UNCHANGED <<group, owner, table, phase, line, item>>
  BY DEF RemoveUser
<1>2. phase \in UserPhases /\ phase \in Running /\ step = "start" /\ line \in DOMAIN table
      /\ table[line] = L
  BY <1>1, UserAction
<1>3. \A i : UserDone(i)' = UserDone(i) BY <1>1, SameLine
<1>4. CleanInv'
  <2>1. \A i \in DOMAIN table : UserAt(i)' => i = line BY <1>1 DEF UserAt
  <2>2. L.user # "root" /\ L.gid >= -1 /\ L.gid # 0 /\ L.uid # 0 BY <1>1 DEF Valid
  <2>3. FixedTo' = FixedTo BY <1>1 DEF FixedTo
  <2>4. \A i \in DOMAIN table : UserDone(i)' => UserDone(i) BY <1>3
  <2>5. \A i \in DOMAIN table : UserDone(i)' \/ UserAt(i)' =>
          /\ table[i].user # "root" /\ table[i].gid >= -1 /\ table[i].gid # 0 /\ table[i].uid # 0
          /\ UserDone(i)' => table[i].home # "refused"
    BY <1>2, <2>1, <2>2, <2>4 DEF RunInv, CleanInv
  <2>6. LastFixed(table', FixedTo', group') BY <1>1, <1>2, <2>3 DEF RunInv, CleanInv
  <2> QED BY <1>1, <2>5, <2>6 DEF CleanInv
<1>5. ResetInv' BY <1>1, <1>2 DEF ResetInv
<1>6. StoryInv' BY <1>1, <1>2, RemovedKept, StoryStays
<1> QED BY <1>4, <1>5, <1>6 DEF RunInv

LEMMA AppendUserRun == ASSUME IInv, TInv, RunInv, AppendUser PROVE RunInv'
<1>1. /\ AddsUser("removed") /\ step' = "added" /\ L.home # "refused"
      /\ passwd' = [passwd EXCEPT ![L.user] = [uid |-> uid, gid |-> group[L.group].gid]]
      /\ UNCHANGED <<group, owner, table, phase, line, item>>
  BY DEF AppendUser
<1>2. /\ phase \in UserPhases /\ phase \in Running /\ step = "removed" /\ line \in DOMAIN table
      /\ table[line] = L /\ L \in Line /\ L.user \in User /\ passwd \in [User -> Entry]
  BY <1>1, UserAction DEF IInv, TypeOK
<1>3. L' = L /\ \A i : UserDone(i)' = UserDone(i) BY <1>1, SameLine
<1>4. \A v \in User : Account(v)' = Account(v)
  BY <1>1, <1>2, <1>3 DEF Account, Replaced
<1>5. CleanInv'
  <2>1. \A i \in DOMAIN table : UserAt(i)' => UserAt(i) /\ i = line BY <1>1, <1>2 DEF UserAt
  <2>2. FixedTo' = FixedTo BY <1>1 DEF FixedTo
  <2>3. item' <= Len(L'.groups) + 1
    <3>1. item = 1 BY <1>2 DEF TInv, PlaceInv
    <3>2. Len(L.groups) \in Nat BY <1>2, LineParts
    <3> QED BY <1>1, <1>3, <3>1, <3>2
  <2>4. \A i \in DOMAIN table : UserDone(i)' => UserDone(i) BY <1>3
  <2>5. \A i \in DOMAIN table : UserDone(i)' \/ UserAt(i)' =>
          /\ table[i].user # "root" /\ table[i].gid >= -1 /\ table[i].gid # 0 /\ table[i].uid # 0
          /\ table[i].home # "refused"
    BY <1>1, <1>2, <2>1, <2>4 DEF RunInv, CleanInv
  <2>6. LastFixed(table', FixedTo', group') BY <1>1, <1>2, <2>2 DEF RunInv, CleanInv
  <2> QED BY <1>1, <2>3, <2>5, <2>6 DEF CleanInv
<1>6. ResetInv' BY <1>1, <1>2 DEF ResetInv
<1>7. StoryInv' BY <1>1, <1>2, <1>4, StoryStays
<1> QED BY <1>5, <1>6, <1>7 DEF RunInv

\* What add_user_to_group gives a group, and leaves to the others.
LEMMA AddUserToGroupGives ==
  ASSUME IInv, TInv, AddUserToGroup
  PROVE  /\ item \in DOMAIN L.groups /\ L.groups[item] \in Group
         /\ Mentioned(table, L.groups[item])
         /\ \A g \in Group : group'[g].gid = group[g].gid
         /\ \A g \in Group : g # L.groups[item] => group'[g] = group[g]
         /\ \A g \in Group : g = L.groups[item] =>
              group'[g].members = Joined(group[g].members, L.user)
<1> DEFINE u == L.user
           g == L.groups[item]
<1>1. /\ AddsUser("added") /\ item <= Len(L.groups)
      /\ group' = [group EXCEPT ![g].members =
                     IF group[g] = GoneGroup THEN @ ELSE Joined(@, u)]
  BY DEF AddUserToGroup
<1>2. /\ phase \in UserPhases /\ L \in Line /\ line \in DOMAIN table /\ table[line] = L
      /\ group \in [Group -> GroupEntry] /\ item \in Nat \ {0}
  BY <1>1, UserAction DEF IInv, TypeOK
<1>3. item \in DOMAIN L.groups /\ g \in Group
  <2>1. DOMAIN L.groups = 1 .. Len(L.groups) /\ Len(L.groups) \in Nat
        /\ \A j \in DOMAIN L.groups : L.groups[j] \in Group
    BY <1>2, LineParts
  <2>2. \A n \in Nat : item <= n => item \in 1 .. n BY <1>2
  <2> QED BY <1>1, <2>1, <2>2
<1>4. group[g] # GoneGroup
  <2>1. ExtraDone(line, item) BY <1>2 DEF ExtraDone
  <2>2. group[g].gid # None BY <1>2, <1>3, <2>1 DEF TInv, GroupsInv
  <2> QED BY <2>2 DEF GoneGroup
<1>5. Mentioned(table, g) BY <1>2, <1>3 DEF Mentioned
<1>6. group' = [group EXCEPT ![g].members = Joined(group[g].members, u)] BY <1>1, <1>4
<1> HIDE DEF g, u
<1>7. /\ \A h \in Group : group'[h].gid = group[h].gid
      /\ \A h \in Group : h # g => group'[h] = group[h]
      /\ \A h \in Group : h = g => group'[h].members = Joined(group[h].members, u)
  BY <1>2, <1>3, <1>6 DEF GroupEntry
<1> QED BY <1>3, <1>5, <1>7 DEF g, u

LEMMA EnteredTells ==
  ASSUME IInv, TInv, AddUserToGroup, NEW m \in Members, TellsMembers(table, m, group)
  PROVE  TellsMembers(table, Entered(m, L, item), group')
<1>1. PICK h \in Group : h = L.groups[item] BY AddUserToGroupGives
<1>2. ASSUME NEW g \in Group, Mentioned(table, g)
      PROVE  group'[g].members = Entered(m, L, item)[g]
  <2>1. Entered(m, L, item) = [m EXCEPT ![h] = Joined(m[h], L.user)] BY <1>1 DEF Entered
  <2>2. group[g].members = m[g] BY <1>2 DEF TellsMembers
  <2>3. CASE g = h
    <3>1. group'[g].members = Joined(group[g].members, L.user)
      BY <1>1, <2>3, AddUserToGroupGives
    <3> QED BY <1>1, <2>1, <2>2, <2>3, <3>1 DEF Members
  <2>4. CASE g # h
    <3>1. group'[g] = group[g] BY <1>1, <2>4, AddUserToGroupGives
    <3> QED BY <1>1, <2>1, <2>2, <2>4, <3>1 DEF Members
  <2> QED BY <2>3, <2>4
<1> QED BY <1>2 DEF TellsMembers

LEMMA AddUserToGroupRun == ASSUME IInv, TInv, RunInv, AddUserToGroup PROVE RunInv'
<1>1. /\ AddsUser("added") /\ item <= Len(L.groups) /\ item' = item + 1
      /\ UNCHANGED <<passwd, owner, table, phase, line, step, uid>>
  BY DEF AddUserToGroup
<1>2. /\ phase \in UserPhases /\ phase \in Running /\ step = "added" /\ line \in DOMAIN table
      /\ table[line] = L /\ L \in Line /\ L.user \in User /\ Selected /\ item \in Nat
  BY <1>1, UserAction DEF IInv, TypeOK
<1>3. L' = L /\ \A i : UserDone(i)' = UserDone(i) BY <1>1, SameLine
<1>4. CleanInv'
  <2>1. \A i \in DOMAIN table : UserAt(i)' => UserAt(i) BY <1>1 DEF UserAt
  <2>2. FixedTo' = FixedTo BY <1>1 DEF FixedTo
  <2>3. item' <= Len(L'.groups) + 1
    <3>1. Len(L.groups) \in Nat BY <1>2, LineParts
    <3> QED BY <1>1, <1>2, <1>3, <3>1
  <2>4. \A i \in DOMAIN table : UserDone(i)' => UserDone(i) BY <1>3
  <2>5. \A i \in DOMAIN table : UserDone(i)' \/ UserAt(i)' =>
          /\ table[i].user # "root" /\ table[i].gid >= -1 /\ table[i].gid # 0 /\ table[i].uid # 0
          /\ table[i].home # "refused"
    BY <1>1, <1>2, <2>1, <2>4 DEF RunInv, CleanInv
  <2>6. LastFixed(table', FixedTo', group')
    <3>1. PICK n : n = FixedTo OBVIOUS
    <3>2. LastFixed(table, n, group) BY <1>2, <3>1 DEF RunInv, CleanInv
    <3>3. table \in Seq(Line) /\ \A i \in DOMAIN table : table[i].group \in Group
      BY TableType, LineParts DEF IInv
    <3>4. \A i \in DOMAIN table : table[i].gid >= 0 /\ group[table[i].group].gid = table[i].gid
                                   => group'[table[i].group].gid = table[i].gid
      BY <3>3, AddUserToGroupGives
    <3>5. LastFixed(table, n, group') BY <3>2, <3>3, <3>4, FixedSame
    <3> QED BY <1>1, <2>2, <3>1, <3>5
  <2> QED BY <1>1, <2>3, <2>5, <2>6 DEF CleanInv
<1>5. ResetInv' BY <1>1, <1>2 DEF ResetInv
<1>6. StoryInv'
  <2>1. /\ Turn \in 1 .. Len(table) + Len(table) /\ At(table, Turn) = line
        /\ Takes(table, Turn) /\ table \in Seq(Line)
    BY <1>2, TurnIs, TableType DEF IInv
  <2>2. PICK n, i : n = Turn /\ i = item OBVIOUS
  <2>3. PICK M, O : /\ MembersStory(table, M, n, i) /\ TellsMembers(table, M[<<n, i>>], group)
                    /\ HomesStory(table, O, n) /\ TellsHomes(O[n], Accounts, owner)
                    /\ HolderDone(O[n])
    BY <1>2, <2>2 DEF RunInv, StoryInv
  <2>4. PICK N : EntersTo(table, N, n, i, Entered(M[<<n, i>>], table[At(table, n)], i))
    <3>1. i \in DOMAIN table[At(table, n)].groups /\ table[At(table, n)].user \in User
      BY <1>2, <2>1, <2>2, AddUserToGroupGives
    <3> QED BY <2>1, <2>2, <2>3, <3>1, StoryEnters
  <2>5. N[<<n, i + 1>>] = Entered(M[<<n, i>>], L, item) /\ MembersStory(table, N, n, i + 1)
    BY <1>2, <2>1, <2>2, <2>4 DEF EntersTo
  <2>6. M[<<n, i>>] \in Members
    <3>1. n \in Nat /\ i \in Nat BY <1>2, <2>1, <2>2
    <3> QED BY <2>3, <3>1 DEF MembersStory
  <2>7. TellsMembers(table, N[<<n, i + 1>>], group') BY <2>3, <2>5, <2>6, EnteredTells
  <2>8. Turn' = n /\ item' = i + 1
    <3>1. Turn' = Turn BY <1>1, Zenon DEF Turn
    <3> QED BY <1>1, <2>2, <3>1
  <2>9. Accounts' = Accounts
    <3>1. \A u \in User : Account(u)' = Account(u) BY <1>1, <1>2 DEF Account, Replaced
    <3> QED BY <3>1 DEF Accounts
  <2>10. PICK o : o = O[n] OBVIOUS
  <2>11. HolderDone(o)' BY <1>1, <1>3, <2>3, <2>10 DEF HolderDone
  <2>12. /\ MembersStory(table', N, Turn', item') /\ TellsMembers(table', N[<<Turn', item'>>], group')
         /\ HomesStory(table', O, Turn') /\ O[Turn'] = o /\ TellsHomes(o, Accounts', owner')
    BY <1>1, <2>3, <2>5, <2>7, <2>8, <2>9, <2>10
  <2> QED BY <2>11, <2>12 DEF StoryInv
<1> QED BY <1>4, <1>5, <1>6 DEF RunInv

LEMMA ChownHomeRun == ASSUME IInv, TInv, RunInv, ChownHome PROVE RunInv'
<1>1. /\ AddsUser("added") /\ item > Len(L.groups) /\ Advance
      /\ owner' = Chown(owner, L, passwd[L.user])
      /\ UNCHANGED <<passwd, shadow, group, table>>
  BY DEF ChownHome
<1>2. /\ phase \in UserPhases /\ phase \in Running /\ Selected /\ step = "added"
      /\ L \in Line /\ L.user \in User /\ line \in DOMAIN table /\ table[line] = L
      /\ item \in Nat
  BY <1>1, UserAction DEF IInv, TypeOK
<1>3. step' = "start" BY <1>1 DEF Advance
<1>4. ASSUME NEW i \in DOMAIN table
      PROVE  /\ UserDone(i)' => UserDone(i) \/ UserAt(i)
             /\ ~UserAt(i)'
  <2>1. UserAt(line) BY <1>2 DEF UserAt
  <2> QED BY <1>1, <1>2, <2>1, AdvanceDone DEF IInv
<1>5. CleanInv'
  <2>1. FixedTo' = FixedTo
    <3>1. phase # "fixed groups" BY <1>2 DEF UserPhases
    <3> QED BY <1>1, <1>2, <3>1, FixedAdvance DEF IInv
  <2>2. \A i \in DOMAIN table : UserDone(i)' \/ UserAt(i)' =>
          /\ table[i].user # "root" /\ table[i].gid >= -1 /\ table[i].gid # 0 /\ table[i].uid # 0
          /\ table[i].home # "refused"
    BY <1>2, <1>4 DEF RunInv, CleanInv
  <2>3. LastFixed(table', FixedTo', group') BY <1>1, <1>2, <2>1 DEF RunInv, CleanInv
  <2> QED BY <1>1, <1>3, <2>2, <2>3 DEF CleanInv
<1>6. ResetInv'
  <2>1. phase' \in UserPhases \cup {"done"} BY <1>1, <1>2, TurnAdvance DEF IInv
  <2> QED BY <2>1, PhasesDiffer DEF ResetInv
<1>7. StoryInv'
  <2>1. \A u \in User : Account(u)' = Account(u) /\ Account(u) = passwd[u]
    BY <1>1, <1>2, <1>3 DEF Account, Replaced
  <2>2. Accounts' = Accounts /\ Accounts[L.user] = passwd[L.user]
    BY <1>2, <2>1 DEF Accounts
  <2>3. item = Len(L.groups) + 1
    <3>1. item <= Len(L.groups) + 1 /\ Len(L.groups) \in Nat
      BY <1>2, LineParts DEF RunInv, CleanInv
    <3> QED BY <1>1, <1>2, <3>1
  <2> QED BY <1>1, <1>2, <2>2, <2>3, TurnEnds
<1> QED BY <1>5, <1>6, <1>7 DEF RunInv

LEMMA SameRun == ASSUME RunInv, UNCHANGED vars PROVE RunInv'
<1>1. UNCHANGED <<passwd, group, owner, table, phase, line, step, item, uid>> BY DEF vars
<1>2. L' = L /\ FixedTo' = FixedTo /\ Turn' = Turn
      /\ \A i : UserDone(i)' = UserDone(i) /\ UserAt(i)' = UserAt(i)
               /\ GroupDone(i)' = GroupDone(i) /\ \A j : ExtraDone(i, j)' = ExtraDone(i, j)
  <2>1. Turn' = Turn BY <1>1, Zenon DEF Turn
  <2> QED BY <1>1, <2>1, SameLine DEF FixedTo, UserAt, ExtraDone
<1>3. CleanInv' BY <1>1, <1>2 DEF RunInv, CleanInv
<1>4. ResetInv' BY <1>1, <1>2 DEF RunInv, ResetInv
<1>5. Accounts' = Accounts
  <2>1. \A u \in User : Account(u)' = Account(u) BY <1>1, <1>2 DEF Account, Replaced
  <2> QED BY <2>1 DEF Accounts
<1>6. \A o : HolderDone(o)' = HolderDone(o) BY <1>1, <1>2 DEF HolderDone
<1>7. ASSUME phase \in UserPhases \cup {"done"} PROVE StoryInv'
  <2>1. PICK M, O : /\ MembersStory(table, M, Turn, item)
                    /\ TellsMembers(table, M[<<Turn, item>>], group)
                    /\ HomesStory(table, O, Turn) /\ TellsHomes(O[Turn], Accounts, owner)
                    /\ HolderDone(O[Turn])
    BY <1>7 DEF RunInv, StoryInv
  <2>2. PICK o : o = O[Turn] OBVIOUS
  <2>3. HolderDone(o)' BY <1>6, <2>1, <2>2
  <2>4. /\ MembersStory(table', M, Turn', item')
        /\ TellsMembers(table', M[<<Turn', item'>>], group')
        /\ HomesStory(table', O, Turn') /\ O[Turn'] = o /\ TellsHomes(o, Accounts', owner')
    BY <1>1, <1>2, <1>5, <2>1, <2>2
  <2> QED BY <2>3, <2>4 DEF StoryInv
<1>8. StoryInv' BY <1>1, <1>7 DEF StoryInv
<1> QED BY <1>3, <1>4, <1>8 DEF RunInv

\* What the run is that has ended well.
LEMMA DoneFinished ==
  ASSUME IInv, TInv, RunInv, phase = "done"
  PROVE  Finished(table, passwd, group, owner)
<1>1. \A u \in User : Account(u) = passwd[u] BY DEF Account, Replaced, UserPhases
<1>2. Accounts = passwd BY <1>1 DEF Accounts, IInv, TypeOK
<1>3. ASSUME NEW i \in DOMAIN table, Creates(table[i])
      PROVE  CreatedWell(table[i], passwd, group)
  <2>1. UserDone(i) BY <1>3 DEF UserDone, Creates
  <2>2. PICK u : u = table[i].user OBVIOUS
  <2>3. u \in User BY <1>3, <2>2, TableType, LineParts DEF Creates, IInv
  <2>4. Given(i) BY <2>1 DEF TInv, UsersInv
  <2>5. Account(table[i].user) = passwd[table[i].user] BY <1>1, <2>2, <2>3
  <2>6. /\ table[i].user # "root" /\ table[i].gid >= -1 /\ table[i].gid # 0 /\ table[i].uid # 0
        /\ table[i].home # "refused"
    BY <2>1 DEF RunInv, CleanInv
  <2> QED BY <2>4, <2>5, <2>6 DEF Given, CreatedWell
<1>4. GroupsWell(table, group)
  BY DEF GroupsWell, TInv, GroupsInv, GroupDone, ExtraDone
<1>5. LastFixed(table, Len(table) + 1, group) BY DEF RunInv, CleanInv, FixedTo
<1>6. Turn = Last(table) /\ item = 1
  <2>1. Turn = Last(table) BY TurnOf DEF UserPhases
  <2> QED BY <2>1 DEF TInv, PlaceInv, UserPhases
<1>7. \E M, O : /\ MembersStory(table, M, Last(table), 1)
                /\ TellsMembers(table, M[<<Last(table), 1>>], group)
                /\ HomesStory(table, O, Last(table)) /\ TellsHomes(O[Last(table)], passwd, owner)
  BY <1>2, <1>6 DEF RunInv, StoryInv
<1> QED BY <1>3, <1>4, <1>5, <1>7 DEF Finished

\* How a run starts.
LEMMA RunPlace ==
  ASSUME IInv, TInv, NEW t \in Tables, Run(t)
  PROVE  /\ table' = t /\ t \in Seq(Line) /\ line' = 1 /\ step' = "start" /\ item' = 1
         /\ owner' = [h \in Homes |-> Missing] /\ UNCHANGED <<passwd, group>>
         /\ t = << >> => phase' = "done" /\ DOMAIN t = {} /\ Len(t) = 0 /\ Turn' = 1 /\ Last(t) = 1
         /\ t # << >> => phase' = "fixed groups"
         /\ \A i \in DOMAIN t : ~GroupDone(i)' /\ ~UserDone(i)' /\ ~UserAt(i)'
         /\ \A i \in DOMAIN t : \A j : ~ExtraDone(i, j)'
         /\ phase' \notin UserPhases
<1>1. /\ table' = t /\ line' = 1 /\ UNCHANGED <<passwd, group, step, item>>
      /\ phase' = (IF t = << >> THEN "done" ELSE "fixed groups")
      /\ owner' = [h \in Homes |-> Missing] /\ phase \in Ended
  BY DEF Run
<1>2. step = "start" /\ item = 1
  BY <1>1 DEF Ended, UserPhases, TInv, PlaceInv
<1>3. t \in Seq(Line) BY MkUsersAssumption
<1>4. CASE t = << >>
  <2>1. DOMAIN t = {} /\ Len(t) = 0
    <3>1. DOMAIN << >> = {} /\ Len(<< >>) = 0 OBVIOUS
    <3> QED BY <1>4, <3>1
  <2>2. phase' = "done" /\ phase' \notin UserPhases BY <1>1, <1>4 DEF UserPhases
  <2>3. Turn' = Last(table')
    <3>1. Turn' = Last(table') BY <2>2, Zenon DEF Turn, UserPhases
    <3> QED BY <3>1
  <2>4. Last(t) = 1 BY <2>1 DEF Last
  <2> QED BY <1>1, <1>2, <1>3, <1>4, <2>1, <2>2, <2>3, <2>4
<1>5. CASE t # << >>
  <2>1. phase' = "fixed groups" /\ phase' \notin UserPhases BY <1>1, <1>5 DEF UserPhases
  <2>2. \A i \in DOMAIN t : ~(i < line')
    <3>1. DOMAIN t = 1 .. Len(t) /\ Len(t) \in Nat BY <1>3, LenProperties
    <3>2. \A n \in Nat : \A i \in 1 .. n : ~(i < 1) OBVIOUS
    <3> QED BY <1>1, <3>1, <3>2
  <2>3. \A i \in DOMAIN t : /\ ~GroupDone(i)' /\ ~UserDone(i)' /\ ~UserAt(i)'
                           /\ \A j : ~ExtraDone(i, j)'
    BY <2>1, <2>2 DEF GroupDone, UserDone, UserAt, ExtraDone, UserPhases
  <2> QED BY <1>1, <1>2, <1>3, <1>5, <2>1, <2>3
<1> QED BY <1>4, <1>5

LEMMA RunRun == ASSUME IInv, IInv', TInv, NEW t \in Tables, Run(t) PROVE RunInv'
<1>1. CleanInv'
  <2>1. LastFixed(t, FixedTo', group')
    <3>1. \A i \in DOMAIN t : ~(i < FixedTo')
      <4>1. CASE t = << >> BY <4>1, RunPlace
      <4>2. CASE t # << >>
        <5>1. FixedTo' = 1 BY <4>2, RunPlace DEF FixedTo
        <5>2. DOMAIN t = 1 .. Len(t) /\ Len(t) \in Nat BY RunPlace, LenProperties
        <5> QED BY <5>1, <5>2
      <4> QED BY <4>1, <4>2
    <3> QED BY <3>1 DEF LastFixed
  <2> QED BY <2>1, RunPlace DEF CleanInv
<1>2. ResetInv' BY RunPlace DEF ResetInv
<1>3. StoryInv'
  <2>1. CASE t = << >>
    <3>1. PICK M, O : /\ MembersStory(t, M, 1, 1) /\ M[<<1, 1>>] = [g \in Group |-> << >>]
                      /\ HomesStory(t, O, 1) /\ O[1] = [h \in Homes |-> NoUser]
      BY RunPlace, StoryBegins
    <3>2. TellsMembers(t, M[<<1, 1>>], group')
      BY <2>1, RunPlace DEF TellsMembers, Mentioned
    <3>3. TellsHomes(O[1], Accounts', owner') BY <3>1, RunPlace DEF TellsHomes
    <3>4. HolderDone(O[1])' BY <3>1 DEF HolderDone
    <3>5. table' = t /\ Turn' = 1 /\ item' = 1 BY <2>1, RunPlace
    <3> QED BY <3>1, <3>2, <3>3, <3>4, <3>5 DEF StoryInv
  <2>2. CASE t # << >>
    BY <2>2, RunPlace DEF StoryInv
  <2> QED BY <2>1, <2>2
<1> QED BY <1>1, <1>2, <1>3 DEF RunInv

LEMMA NextRun == IInv /\ TInv /\ RunInv /\ [Next]_vars => RunInv'
<1> SUFFICES ASSUME IInv, TInv, RunInv, [Next]_vars PROVE RunInv' OBVIOUS
<1>1. IInv' BY NextIInv
<1>2. CASE UNCHANGED vars BY <1>2, SameRun
<1>3. CASE \E t \in Tables : Run(t) BY <1>1, <1>3, RunRun
<1>4. CASE SkipLine BY <1>1, <1>4, SkipRun
<1>5. CASE AddOneGroup BY <1>1, <1>5, AddOneGroupRun
<1>6. CASE NoGidLeft BY <1>6, StopRun DEF NoGidLeft
<1>7. CASE RemoveUser BY <1>7, RemoveUserRun
<1>8. CASE RefuseUser BY <1>8, StopRun DEF RefuseUser
<1>9. CASE RefuseHome BY <1>9, StopRun DEF RefuseHome
<1>10. CASE AppendUser BY <1>10, AppendUserRun
<1>11. CASE AddUserToGroup BY <1>11, AddUserToGroupRun
<1>12. CASE ChownHome BY <1>12, ChownHomeRun
<1>13. CASE Break BY <1>13, StopRun DEF Break
<1> QED
  BY <1>2, <1>3, <1>4, <1>5, <1>6, <1>7, <1>8, <1>9, <1>10, <1>11, <1>12, <1>13
     DEF Next

\* What a run finds changes only when the next one starts.
LEMMA FoundStays ==
  ASSUME [Next]_vars
  PROVE  (\E t \in Tables : Run(t)) \/ found' = found
BY DEF Next, vars, SkipLine, AddOneGroup, NoGidLeft, RemoveUser, RefuseUser, RefuseHome,
       AppendUser, AddUserToGroup, ChownHome, Break, Stop

LEMMA NextFound == IInv /\ TInv /\ RunInv /\ FoundInv /\ [Next]_vars => FoundInv'
<1> SUFFICES ASSUME IInv, TInv, RunInv, FoundInv, [Next]_vars PROVE FoundInv' OBVIOUS
<1>1. ASSUME NEW t \in Tables, Run(t) PROVE FoundInv'
  <2>1. found' = [passwd |-> passwd, group |-> group, owner |-> owner, table |-> table,
                  ended |-> phase]
    BY <1>1 DEF Run
  <2>2. phase = "done" => Finished(table, passwd, group, owner) BY DoneFinished
  <2>3. /\ found'.passwd = passwd /\ found'.group = group /\ found'.owner = owner
        /\ found'.table = table /\ found'.ended = phase
    BY <2>1
  <2>4. /\ passwd \in [User -> Entry] /\ ~SameUid(passwd) /\ group \in [Group -> GroupEntry]
        /\ owner \in [Homes -> Entry]
    BY DEF IInv, TypeOK, UidsUnique
  <2> QED BY <2>2, <2>3, <2>4 DEF FoundInv
<1>2. CASE found' = found BY <1>2 DEF FoundInv
<1> QED BY <1>1, <1>2, FoundStays
-----------------------------------------------------------------------------
\* What the run finds, and what its lines found before it.
LEMMA FoundIs ==
  ASSUME IInv, FoundInv, Again
  PROVE  /\ found.passwd \in [User -> Entry] /\ found.group \in [Group -> GroupEntry]
         /\ \A u, v \in User : found.passwd[u].uid # None /\ found.passwd[u].uid = found.passwd[v].uid
                               => u = v
         /\ \A g, h \in Group : found.group[g].gid # None /\ found.group[g].gid = found.group[h].gid
                                => g = h
         /\ Finished(table, found.passwd, found.group, found.owner)
<1>1. found.ended = "done" /\ found.table = table /\ ~SameGid(found.group) BY DEF Again
<1>2. /\ found.passwd \in [User -> Entry] /\ ~SameUid(found.passwd)
      /\ found.group \in [Group -> GroupEntry]
      /\ Finished(table, found.passwd, found.group, found.owner)
  BY <1>1 DEF FoundInv
<1>3. \A u, v \in User : found.passwd[u].uid # None /\ found.passwd[u].uid = found.passwd[v].uid
                          => u = v
  BY <1>2 DEF SameUid
<1>4. \A g, h \in Group : found.group[g].gid # None /\ found.group[g].gid = found.group[h].gid
                           => g = h
  BY <1>1 DEF SameGid
<1> QED BY <1>2, <1>3, <1>4

\* A line of the loops over the users has been created before.
LEMMA LineWell ==
  ASSUME IInv, FoundInv, Again, phase \in UserPhases, Selected
  PROVE  L \in Line /\ L.user \in User /\ L.group \in Group /\ L.uid >= -1
         /\ CreatedWell(L, found.passwd, found.group)
<1>1. phase \in Running BY PhasesDiffer
<1>2. L \in Line /\ line \in DOMAIN table /\ table[line] = L
  BY <1>1, LineType, TableType DEF IInv, L
<1>3. L.user # NoUser /\ (L.uid >= 0 \/ L.uid = -1) BY SelectedIs DEF UserPhases, None
<1>4. \A n \in Int : n >= 0 \/ n = -1 => n >= -1 OBVIOUS
<1>5. L.uid >= -1 BY <1>2, <1>3, <1>4, LineParts
<1>6. Creates(table[line]) BY <1>2, <1>3, <1>5 DEF Creates
<1>7. CreatedWell(L, found.passwd, found.group) BY <1>2, <1>6, FoundIs DEF Finished
<1> QED BY <1>2, <1>3, <1>5, <1>7, LineParts

LEMMA RefuseUserNever ==
  ASSUME IInv, TInv, FoundInv, Again, AgainSame, RefuseUser
  PROVE  FALSE
<1> DEFINE u == L.user
           old == passwd[u]
<1>1. phase \in UserPhases /\ Selected /\ step = "start"
      /\ (~Valid(L) \/ UidFor(L.user, L.uid) = None)
  BY DEF RefuseUser, AddsUser
<1>2. L \in Line /\ u \in User /\ L.group \in Group /\ L.uid >= -1
      /\ CreatedWell(L, found.passwd, found.group)
  BY <1>1, LineWell
<1>3. \A v \in User : passwd[v] = found.passwd[v]
  BY <1>1 DEF AgainSame, SameAccounts, Account, Replaced
<1>4. \A g \in Group : group[g].gid = found.group[g].gid
  BY <1>1 DEF AgainSame, SameGids, UserPhases
<1>5. /\ old.uid # None /\ (L.uid # None => old.uid = L.uid)
      /\ old.gid # None /\ old.gid = group[L.group].gid
      /\ (L.gid # None => old.gid = L.gid)
  BY <1>2, <1>3, <1>4 DEF CreatedWell
<1>6. GroupsWith(old.gid) \subseteq {L.group}
  <2>1. ASSUME NEW n \in Group, group[n].gid = old.gid PROVE n = L.group
    BY <1>2, <1>4, <1>5, <2>1, FoundIs
  <2> QED BY <2>1 DEF GroupsWith
<1>7. UsersWith(old.uid) \subseteq {u}
  <2>1. ASSUME NEW n \in User, passwd[n].uid = old.uid PROVE n = u
    BY <1>2, <1>3, <1>5, <2>1, FoundIs
  <2> QED BY <2>1 DEF UsersWith
<1>8. Valid(L) BY <1>2, <1>5, <1>6, <1>7 DEF Valid, CreatedWell
<1>9. UidFor(L.user, L.uid) # None BY <1>5 DEF UidFor
<1> QED BY <1>1, <1>8, <1>9

LEMMA RefuseHomeNever ==
  ASSUME IInv, FoundInv, Again, RefuseHome
  PROVE  FALSE
<1>1. phase \in UserPhases /\ Selected /\ L.home = "refused" BY DEF RefuseHome, AddsUser
<1> QED BY <1>1, LineWell DEF CreatedWell

\* A group that a loop is called for has its gid already, or is given it.
LEMMA WantedWell ==
  ASSUME IInv, TInv, FoundInv, Again, AgainSame, AddsGroup
  PROVE  /\ Wanted.name \in Group /\ GidFor(Wanted.name, Wanted.gid) # None
         /\ phase # "fixed groups" => group[Wanted.name].gid # None
<1>1. phase \in Running \ UserPhases /\ Selected BY DEF AddsGroup
<1>2. L \in Line /\ table[line] = L /\ line \in DOMAIN table
  BY <1>1, LineType, TableType DEF IInv, L
<1>3. phase \in {"fixed groups", "auto groups", "more groups"} BY <1>1, PhasesDiffer
<1>4. step = "start" /\ item \in Nat \ {0} BY <1>1 DEF IInv, TypeOK, TInv, PlaceInv
<1>5. /\ Len(L.groups) \in Nat /\ DOMAIN L.groups = 1 .. Len(L.groups)
      /\ \A j \in DOMAIN L.groups : L.groups[j] \in Group
      /\ L.group \in Group /\ L.gid \in Int
  BY <1>2, LineParts
<1>6. GroupsWell(table, found.group) BY FoundIs DEF Finished
<1>7. CASE phase = "fixed groups"
  <2>1. Wanted.name = L.group /\ Wanted.gid = L.gid BY <1>7 DEF Wanted
  <2>2. L.gid >= 0 BY <1>1, <1>7, SelectedIs
  <2>3. \A n \in Int : n >= 0 => n # -1 OBVIOUS
  <2>4. L.gid # None BY <1>5, <2>2, <2>3 DEF None
  <2>5. GidFor(L.group, L.gid) # None BY <2>4 DEF GidFor
  <2> QED BY <1>5, <1>7, <2>1, <2>5
<1>8. CASE phase # "fixed groups"
  <2>1. Wanted.gid = None BY <1>1, <1>3, <1>8, SelectedIs DEF Wanted
  <2>2. Wanted.name \in Group /\ found.group[Wanted.name].gid # None
    <3>1. CASE phase = "more groups"
      <4>1. L.groups # << >> /\ Len(L.groups) # 0 BY <1>1, <1>2, <3>1, SelectedIs, LineParts
      <4>2. item = 1 \/ item <= Len(L.groups) BY <1>4, <3>1 DEF TInv, PlaceInv
      <4>3. \A n \in Nat : n # 0 /\ (item = 1 \/ item <= n) => item \in 1 .. n BY <1>4
      <4>4. item \in DOMAIN L.groups BY <1>5, <4>1, <4>2, <4>3
      <4>5. Wanted.name = L.groups[item] BY <3>1 DEF Wanted
      <4> QED BY <1>2, <1>5, <1>6, <4>4, <4>5 DEF GroupsWell
    <3>2. CASE phase = "auto groups"
      <4>1. L.gid = -1 BY <1>1, <3>2, SelectedIs DEF None
      <4>2. L.gid >= -1 BY <4>1
      <4>3. Wanted.name = L.group BY <3>2 DEF Wanted
      <4> QED BY <1>2, <1>5, <1>6, <4>2, <4>3 DEF GroupsWell
    <3> QED BY <1>3, <1>8, <3>1, <3>2
  <2>3. group[Wanted.name].gid # None
    BY <1>8, <2>2 DEF AgainSame, SameGids
  <2>4. GidFor(Wanted.name, Wanted.gid) # None BY <2>1, <2>3 DEF GidFor
  <2> QED BY <2>2, <2>3, <2>4
<1> QED BY <1>7, <1>8

LEMMA NoGidLeftNever ==
  ASSUME IInv, TInv, FoundInv, Again, AgainSame, NoGidLeft
  PROVE  FALSE
BY WantedWell DEF NoGidLeft

LEMMA LaterLine ==
  ASSUME NEW n \in Nat, NEW a \in 1 .. n, NEW b \in 1 .. n
  PROVE  /\ a < b => a < n /\ a + 1 <= b
         /\ a <= b /\ a # b => a < b
OBVIOUS

\* On to the next line with the gids as they were before.
LEMMA GidsAdvance ==
  ASSUME IInv, AgainSame, phase \in Running, Advance, table' = table, found' = found,
         \A g \in Group : \/ phase = "fixed groups" /\ Fixed(table, line, g)
                          \/ group'[g].gid = group[g].gid,
         phase = "fixed groups" => \A g \in Group : Fixed(table, line, g) =>
           \/ group'[g].gid = found.group[g].gid
           \/ \E k \in DOMAIN table : line < k /\ Fixed(table, k, g)
  PROVE  SameGids'
<1>1. /\ Len(table) \in Nat /\ line \in 1 .. Len(table) /\ DOMAIN table = 1 .. Len(table)
  BY LineType, TableType DEF IInv
<1>2. /\ line' = (IF line < Len(table) THEN line + 1 ELSE 1)
      /\ phase' = (IF line < Len(table) THEN phase ELSE NextPhase[phase])
  BY DEF Advance
<1>3. ASSUME NEW g \in Group, phase = "fixed groups",
             NEW k \in DOMAIN table, line < k, Fixed(table, k, g)
      PROVE  phase' = "fixed groups" /\ line' <= k
  <2>1. k \in 1 .. Len(table) BY <1>1
  <2>3. line < Len(table) /\ line + 1 <= k BY <1>1, <1>3, <2>1, LaterLine
  <2> QED BY <1>2, <1>3, <2>3
<1>4. ASSUME NEW g \in Group
      PROVE  \/ group'[g].gid = found.group[g].gid
             \/ phase' = "fixed groups" /\ \E k \in DOMAIN table : line' <= k /\ Fixed(table, k, g)
  <2>1. \/ group[g].gid = found.group[g].gid
        \/ phase = "fixed groups" /\ \E k \in DOMAIN table : line <= k /\ Fixed(table, k, g)
    BY DEF AgainSame, SameGids
  <2>2. CASE phase = "fixed groups" /\ Fixed(table, line, g)
    <3>1. CASE \E k \in DOMAIN table : line < k /\ Fixed(table, k, g)
      <4>1. PICK k \in DOMAIN table : line < k /\ Fixed(table, k, g) BY <3>1
      <4> QED BY <1>3, <2>2, <4>1
    <3>2. CASE group'[g].gid = found.group[g].gid BY <3>2
    <3> QED BY <2>2, <3>1, <3>2
  <2>3. CASE ~(phase = "fixed groups" /\ Fixed(table, line, g))
    <3>1. group'[g].gid = group[g].gid BY <2>3
    <3>2. CASE group[g].gid = found.group[g].gid BY <3>1, <3>2
    <3>3. CASE group[g].gid # found.group[g].gid
      <4>1. PICK k \in DOMAIN table : line <= k /\ Fixed(table, k, g) BY <2>1, <3>3
      <4>2. phase = "fixed groups" /\ line # k BY <2>1, <2>3, <3>3, <4>1
      <4>3. line < k BY <1>1, <4>1, <4>2, LaterLine
      <4> QED BY <1>3, <4>1, <4>2, <4>3
    <3> QED BY <3>2, <3>3
  <2> QED BY <2>2, <2>3
<1> QED BY <1>4 DEF SameGids

\* The two runs begin the same story.
LEMMA StoryStart ==
  ASSUME IInv, RunInv, FoundInv, Again, phase = "fixed users", line = 1, item = 1
  PROVE  SameStory
<1>1. Turn = 1 BY TurnOf
<1>2. PICK M, O : /\ MembersStory(table, M, 1, 1) /\ TellsMembers(table, M[<<1, 1>>], group)
                  /\ HomesStory(table, O, 1) /\ TellsHomes(O[1], Accounts, owner)
  BY <1>1 DEF RunInv, StoryInv, UserPhases
<1>3. PICK N, P : /\ MembersStory(table, N, Last(table), 1)
                  /\ TellsMembers(table, N[<<Last(table), 1>>], found.group)
                  /\ HomesStory(table, P, Last(table))
                  /\ TellsHomes(P[Last(table)], found.passwd, found.owner)
  BY FoundIs DEF Finished
<1>4. N[<<1, 1>>] = M[<<1, 1>>] BY <1>2, <1>3 DEF MembersStory
<1>5. P[1] = O[1] /\ O[1] = [h \in Homes |-> NoUser] BY <1>2, <1>3 DEF HomesStory
<1>6. TellsHomes(P[1], found.passwd, owner) BY <1>2, <1>5 DEF TellsHomes
<1> QED BY <1>1, <1>2, <1>3, <1>4, <1>6 DEF SameStory

LEMMA StoryStarts ==
  /\ IInv /\ RunInv /\ FoundInv /\ Again /\ phase = "fixed users" /\ line = 1 /\ item = 1
  => SameStory
BY StoryStart

LEMMA StoryStartsNext ==
  (/\ IInv /\ RunInv /\ FoundInv /\ Again /\ phase = "fixed users" /\ line = 1 /\ item = 1)'
  => SameStory'
BY StoryStarts, PTL

\* What a story that has been told to the end says of a turn.
LEMMA StoryTold ==
  ASSUME NEW t \in Seq(Line), NEW n \in 1 .. Len(t) + Len(t), NEW M, NEW O,
         MembersStory(t, M, Last(t), 1), HomesStory(t, O, Last(t))
  PROVE  /\ \A i : TurnOver(t, n, i) => M[<<n + 1, 1>>] = M[<<n, i>>]
         /\ O[n + 1] = MovedAt(t, n, O[n])
         /\ Takes(t, n) => \A j \in DOMAIN t[At(t, n)].groups :
              M[<<n, j + 1>>] = Entered(M[<<n, j>>], t[At(t, n)], j)
         /\ O[n] \in Holders /\ \A i \in Nat : M[<<n, i>>] \in Members
<1>1. Len(t) \in Nat /\ n \in Nat BY LenProperties
<1>2. n < Last(t) BY <1>1 DEF Last
<1>3. M[<<n + 1, 1>>] = IF Takes(t, n) THEN M[<<n, Len(t[At(t, n)].groups) + 1>>] ELSE M[<<n, 1>>]
  BY <1>2 DEF MembersStory
<1>4. O[n + 1] = IF Takes(t, n) THEN Moved(O[n], t[At(t, n)]) ELSE O[n]
  BY <1>2 DEF HomesStory
<1>5. Takes(t, n) => \A j \in DOMAIN t[At(t, n)].groups :
        M[<<n, j + 1>>] = Entered(M[<<n, j>>], t[At(t, n)], j)
  BY <1>2 DEF MembersStory
<1>6. O[n] \in Holders /\ \A i \in Nat : M[<<n, i>>] \in Members
  BY <1>1 DEF MembersStory, HomesStory
<1>7. ASSUME NEW i, TurnOver(t, n, i) PROVE M[<<n + 1, 1>>] = M[<<n, i>>]
  <2>1. CASE Takes(t, n) BY <1>3, <1>7, <2>1 DEF TurnOver
  <2>2. CASE ~Takes(t, n) BY <1>3, <1>7, <2>2 DEF TurnOver
  <2> QED BY <2>1, <2>2
<1> QED BY <1>4, <1>5, <1>6, <1>7 DEF MovedAt

LEMMA SameStoryTurns ==
  ASSUME IInv, AgainSame, phase \in UserPhases, Advance,
         UNCHANGED <<table, group, found>>,
         Selected => item = Len(L.groups) + 1, ~Selected => item = 1,
         Selected => owner' = Chown(owner, L, found.passwd[L.user]),
         ~Selected => owner' = owner,
         Selected => L.user \in User
  PROVE  SameStory'
<1>1. /\ Turn \in 1 .. Len(table) + Len(table) /\ At(table, Turn) = line
      /\ table[At(table, Turn)] = L /\ (Selected <=> Takes(table, Turn))
      /\ table \in Seq(Line)
  BY TurnIs, TableType DEF IInv, L
<1>2. PICK n, i : n = Turn /\ i = item OBVIOUS
<1>3. PICK M, O : /\ MembersStory(table, M, Last(table), 1)
                  /\ TellsMembers(table, M[<<Last(table), 1>>], found.group)
                  /\ TellsMembers(table, M[<<n, i>>], group)
                  /\ HomesStory(table, O, Last(table))
                  /\ TellsHomes(O[Last(table)], found.passwd, found.owner)
                  /\ TellsHomes(O[n], found.passwd, owner)
  BY <1>2 DEF AgainSame, SameStory
<1>4. TurnOver(table, n, i) BY <1>1, <1>2 DEF TurnOver
<1>5. /\ M[<<n + 1, 1>>] = M[<<n, i>>] /\ O[n + 1] = MovedAt(table, n, O[n])
      /\ O[n] \in Holders
  BY <1>1, <1>2, <1>3, <1>4, StoryTold
<1>6. owner \in [Homes -> Entry] BY DEF IInv, TypeOK
<1>7. PICK o, q : o = O[n] /\ q = O[n + 1] OBVIOUS
<1>8. TellsHomes(q, found.passwd, owner')
  <2>0. /\ o \in Holders /\ TellsHomes(o, found.passwd, owner)
        /\ Selected => q = Moved(o, L)
        /\ ~Selected => q = o
    BY <1>1, <1>2, <1>3, <1>5, <1>7 DEF MovedAt
  <2>1. CASE ~Selected
    BY <2>0, <2>1
  <2>2. CASE Selected
    <3> DEFINE C(h) == L.home \in Homes /\ h \in Below[L.home]
    <3>1. q = Chown(o, L, L.user) /\ L.user # NoUser
      BY <2>0, <2>2, MkUsersAssumption DEF Moved
    <3>2. owner' = Chown(owner, L, found.passwd[L.user]) BY <2>2
    <3>3. \A h \in Homes : ~C(h) => q[h] = o[h] /\ owner'[h] = owner[h]
      BY <3>1, <3>2 DEF Chown
    <3>4. \A h \in Homes : C(h) => q[h] = L.user /\ owner'[h] = found.passwd[L.user]
      BY <3>1, <3>2 DEF Chown
    <3> HIDE DEF C
    <3> QED BY <2>0, <2>2, <3>1, <3>3, <3>4 DEF TellsHomes
  <2> QED BY <2>1, <2>2
<1>9. Turn' = n + 1 /\ item' = 1 BY <1>2, TurnAdvance DEF IInv
<1>10. /\ TellsMembers(table', M[<<Turn', item'>>], group')
       /\ O[Turn'] = q /\ TellsHomes(q, found'.passwd, owner')
  BY <1>3, <1>5, <1>7, <1>8, <1>9
<1> QED BY <1>3, <1>10 DEF SameStory

\* What the steps of a run that repeats another keep.
LEMMA OthersSame ==
  ASSUME SameOthers, UNCHANGED <<table, found>>,
         \A g \in Group : ~Mentioned(table, g) => group'[g] = group[g]
  PROVE  SameOthers'
BY DEF SameOthers

LEMMA GidsSame ==
  ASSUME SameGids, UNCHANGED <<table, found, phase, line>>,
         \A g \in Group : group'[g].gid = group[g].gid
  PROVE  SameGids'
BY DEF SameGids

LEMMA AccountsSame ==
  ASSUME SameAccounts, UNCHANGED found, \A u \in User : Account(u)' = Account(u)
  PROVE  SameAccounts'
BY DEF SameAccounts

LEMMA StorySame ==
  ASSUME SameStory, UNCHANGED <<table, found, phase, line, item, owner, group>>
  PROVE  SameStory'
<1>1. Turn' = Turn
  <2>1. Turn' = Turn BY Zenon DEF Turn
  <2> QED BY <2>1
<1> QED BY <1>1 DEF SameStory

\* The loops over the groups go on, or leave off for those over the users.
LEMMA StoryNotYet ==
  ASSUME IInv', RunInv', FoundInv', Again',
         phase' \in Running, phase' \in UserPhases => phase' = "fixed users" /\ line' = 1 /\ item' = 1
  PROVE  SameStory'
<1>1. CASE phase' \in UserPhases BY <1>1, StoryStartsNext
<1>2. CASE phase' \notin UserPhases BY <1>2, PhasesDiffer DEF SameStory
<1> QED BY <1>1, <1>2

LEMMA SkipAgain ==
  ASSUME IInv, TInv, RunInv, FoundInv, Again, AgainSame, SkipLine
  PROVE  AgainSame'
<1>1. /\ phase \in Running /\ ~Selected /\ Advance
      /\ UNCHANGED <<passwd, group, owner, table, found>>
  BY DEF SkipLine, files
<1>2. step = "start" /\ step' = "start" /\ item' = 1
  BY <1>1 DEF TInv, PlaceInv, Advance
<1>3. IInv' /\ RunInv' /\ FoundInv' /\ Again'
  BY <1>1, NextIInv, NextRun, NextFound DEF Next, Again
<1>4. SameAccounts'
  <2>1. \A u \in User : Account(u)' = Account(u) BY <1>1, <1>2 DEF Account, Replaced
  <2> QED BY <1>1, <2>1, AccountsSame DEF AgainSame
<1>5. SameOthers' BY <1>1, OthersSame DEF AgainSame
<1>6. SameGids'
  <2>1. phase = "fixed groups" => \A g \in Group : ~Fixed(table, line, g)
    BY <1>1, SelectedIs DEF Fixed, L
  <2> QED BY <1>1, <2>1, GidsAdvance
<1>7. SameStory'
  <2>1. CASE phase \in UserPhases
    <3>1. item = 1 BY <1>2, <2>1 DEF TInv, PlaceInv, UserPhases
    <3> QED BY <1>1, <2>1, <3>1, SameStoryTurns
  <2>2. CASE phase \notin UserPhases
    <3>1. phase \in {"fixed groups", "auto groups", "more groups"}
      BY <1>1, <2>2, PhasesDiffer
    <3>2. phase' = phase \/ (phase' = NextPhase[phase] /\ line' = 1) BY <1>1 DEF Advance
    <3>3. /\ phase' \in Running
          /\ phase' \in UserPhases => phase' = "fixed users" /\ line' = 1 /\ item' = 1
      BY <1>2, <3>1, <3>2, NextPhaseIs, PhaseType DEF UserPhases
    <3> QED BY <1>3, <3>3, StoryNotYet
  <2> QED BY <2>1, <2>2
<1> QED BY <1>4, <1>5, <1>6, <1>7 DEF AgainSame

LEMMA AddOneGroupAgain ==
  ASSUME IInv, TInv, RunInv, FoundInv, Again, AgainSame, AddOneGroup
  PROVE  AgainSame'
<1>1. /\ phase \in Running \ UserPhases /\ AddsGroup /\ UNCHANGED <<passwd, table, found>>
      /\ step = "start"
  BY DEF AddOneGroup, AddsGroup, TInv, PlaceInv
<1>2. IInv' /\ RunInv' /\ FoundInv' /\ Again'
  BY <1>1, NextIInv, NextRun, NextFound DEF Next, Again
<1>3. phase' \in Running /\ step' = "start" BY AddOneGroupPlace
<1>4. SameAccounts'
  <2>1. \A u \in User : Account(u)' = Account(u) BY <1>1, <1>3 DEF Account, Replaced
  <2> QED BY <1>1, <2>1, AccountsSame DEF AgainSame
<1>5. SameOthers'
  <2>1. \A g \in Group : ~Mentioned(table, g) => group'[g] = group[g]
    BY AddOneGroupDone, AddOneGroupGives
  <2> QED BY <1>1, <2>1, OthersSame DEF AgainSame
<1>6. SameGids'
  <2>1. CASE phase = "fixed groups"
    <3>1. Advance BY <2>1, AddOneGroupPlace
    <3>2. \A g \in Group : Fixed(table, line, g) \/ group'[g].gid = group[g].gid
      BY <2>1, AddOneGroupGives DEF Fixed, L
    <3>3. ASSUME NEW g \in Group, Fixed(table, line, g),
                 \A k \in DOMAIN table : ~(line < k /\ Fixed(table, k, g))
          PROVE  group'[g].gid = found.group[g].gid
      <4>1. PICK i : i = line OBVIOUS
      <4>2. i \in DOMAIN table /\ i < Len(table) + 1
        <5>1. Len(table) \in Nat /\ i \in 1 .. Len(table) /\ DOMAIN table = 1 .. Len(table)
          BY <1>1, <4>1, LineType, TableType DEF IInv
        <5>2. i < Len(table) + 1 BY <5>1
        <5> QED BY <5>1, <5>2
      <4>3. table[i].gid >= 0 /\ table[i].group = g /\ table[i] = L BY <3>3, <4>1 DEF Fixed, L
      <4>4. LastFixed(table, Len(table) + 1, found.group) BY FoundIs DEF Finished
      <4>5. found.group[g].gid = table[i].gid BY <3>3, <4>1, <4>2, <4>3, <4>4 DEF LastFixed
      <4>6. group'[g].gid = table[i].gid BY <2>1, <4>3, AddOneGroupGives
      <4> QED BY <4>5, <4>6
    <3>4. \A g \in Group : Fixed(table, line, g) =>
            \/ group'[g].gid = found.group[g].gid
            \/ \E k \in DOMAIN table : line < k /\ Fixed(table, k, g)
      BY <3>3
    <3> QED BY <1>1, <2>1, <3>1, <3>2, <3>4, GidsAdvance
  <2>2. CASE phase # "fixed groups"
    <3>1. group[Wanted.name].gid # None /\ Wanted.name \in Group BY <1>1, <2>2, WantedWell
    <3>2. \A g \in Group : group'[g].gid = group[g].gid
      <4>1. ASSUME NEW g \in Group PROVE group'[g].gid = group[g].gid
        <5>1. CASE g = Wanted.name BY <2>2, <3>1, <5>1, AddOneGroupGives
        <5>2. CASE g # Wanted.name
          <6>1. group'[g] = group[g] BY <5>2, AddOneGroupGives
          <6> QED BY <6>1
        <5> QED BY <5>1, <5>2
      <4> QED BY <4>1
    <3> QED BY <1>1, <2>2, <3>2 DEF AgainSame, SameGids
  <2> QED BY <2>1, <2>2
<1>7. SameStory' BY <1>2, <1>3, AddOneGroupDone, StoryNotYet
<1> QED BY <1>4, <1>5, <1>6, <1>7 DEF AgainSame

LEMMA RemoveUserAgain ==
  ASSUME IInv, TInv, FoundInv, Again, AgainSame, RemoveUser
  PROVE  AgainSame'
<1> DEFINE u == L.user
<1>1. /\ AddsUser("start") /\ uid' = UidFor(u, L.uid)
      /\ passwd' = [passwd EXCEPT ![u] = Missing] /\ step' = "removed"
      /\ UNCHANGED <<group, owner, table, phase, line, item, found>>
  BY DEF RemoveUser
<1>2. /\ phase \in UserPhases /\ Selected /\ step = "start" /\ passwd \in [User -> Entry]
      /\ u \in User /\ L.group \in Group
  BY <1>1, UserAction DEF IInv, TypeOK
<1>3. L' = L BY <1>1, SameLine
<1>4. CreatedWell(L, found.passwd, found.group) BY <1>2, LineWell
<1>5. \A v \in User : passwd[v] = found.passwd[v]
  BY <1>2 DEF AgainSame, SameAccounts, Account, Replaced
<1>6. \A g \in Group : group[g].gid = found.group[g].gid
  BY <1>2 DEF AgainSame, SameGids, UserPhases
<1>7. uid' = passwd[u].uid /\ group[L.group].gid = passwd[u].gid
  BY <1>1, <1>2, <1>4, <1>5, <1>6 DEF CreatedWell, UidFor
<1>8. ASSUME NEW v \in User PROVE Account(v)' = passwd[v]
  <2>1. CASE v = u
    <3>1. Account(v)' = [uid |-> uid', gid |-> group[L.group].gid]
      BY <1>1, <1>2, <1>3, <2>1 DEF Account, Replaced
    <3> QED BY <1>2, <1>7, <2>1, <3>1 DEF Entry
  <2>2. CASE v # u
    BY <1>1, <1>2, <1>3, <2>2 DEF Account, Replaced
  <2> QED BY <2>1, <2>2
<1>9. SameAccounts' BY <1>1, <1>5, <1>8 DEF SameAccounts
<1> QED BY <1>1, <1>9, OthersSame, GidsSame, StorySame DEF AgainSame

LEMMA AppendUserAgain ==
  ASSUME IInv, TInv, AgainSame, AppendUser
  PROVE  AgainSame'
<1>1. /\ AddsUser("removed") /\ step' = "added"
      /\ passwd' = [passwd EXCEPT ![L.user] = [uid |-> uid, gid |-> group[L.group].gid]]
      /\ UNCHANGED <<group, owner, table, phase, line, item, found>>
  BY DEF AppendUser
<1>2. phase \in UserPhases /\ step = "removed" /\ L.user \in User /\ passwd \in [User -> Entry]
  BY <1>1, UserAction DEF IInv, TypeOK
<1>3. L' = L BY <1>1, SameLine
<1>4. \A v \in User : Account(v)' = Account(v) BY <1>1, <1>2, <1>3 DEF Account, Replaced
<1> QED BY <1>1, <1>4, AccountsSame, OthersSame, GidsSame, StorySame DEF AgainSame

LEMMA AddUserToGroupAgain ==
  ASSUME IInv, TInv, AgainSame, AddUserToGroup
  PROVE  AgainSame'
<1>1. /\ AddsUser("added") /\ item' = item + 1
      /\ UNCHANGED <<passwd, owner, table, phase, line, step, uid, found>>
  BY DEF AddUserToGroup
<1>2. /\ phase \in UserPhases /\ step = "added" /\ Selected /\ item \in Nat
  BY <1>1, UserAction DEF IInv, TypeOK
<1>3. SameAccounts'
  <2>1. \A v \in User : Account(v)' = Account(v) BY <1>1, <1>2 DEF Account, Replaced
  <2> QED BY <1>1, <2>1, AccountsSame DEF AgainSame
<1>4. SameOthers' /\ SameGids'
  BY <1>1, AddUserToGroupGives, OthersSame, GidsSame DEF AgainSame
<1>5. SameStory'
  <2>1. /\ Turn \in 1 .. Len(table) + Len(table) /\ At(table, Turn) = line
        /\ table[At(table, Turn)] = L /\ Takes(table, Turn) /\ table \in Seq(Line)
    BY <1>2, TurnIs, TableType DEF IInv, L
  <2>2. PICK n, i : n = Turn /\ i = item OBVIOUS
  <2>3. PICK M, O : /\ MembersStory(table, M, Last(table), 1)
                    /\ TellsMembers(table, M[<<Last(table), 1>>], found.group)
                    /\ TellsMembers(table, M[<<n, i>>], group)
                    /\ HomesStory(table, O, Last(table))
                    /\ TellsHomes(O[Last(table)], found.passwd, found.owner)
                    /\ TellsHomes(O[n], found.passwd, owner)
    BY <1>2, <2>2 DEF AgainSame, SameStory
  <2>4. M[<<n, i + 1>>] = Entered(M[<<n, i>>], L, i) /\ M[<<n, i>>] \in Members
    <3>1. i \in DOMAIN table[At(table, n)].groups BY <2>1, <2>2, AddUserToGroupGives
    <3> QED BY <1>2, <2>1, <2>2, <2>3, <3>1, StoryTold
  <2>5. TellsMembers(table, M[<<n, i + 1>>], group') BY <2>2, <2>3, <2>4, EnteredTells
  <2>6. Turn' = n /\ item' = i + 1
    <3>1. Turn' = Turn BY <1>1, Zenon DEF Turn
    <3> QED BY <1>1, <2>2, <3>1
  <2> QED BY <1>1, <2>3, <2>5, <2>6 DEF SameStory
<1> QED BY <1>3, <1>4, <1>5 DEF AgainSame

LEMMA ChownHomeAgain ==
  ASSUME IInv, TInv, RunInv, AgainSame, ChownHome
  PROVE  AgainSame'
<1>1. /\ AddsUser("added") /\ item > Len(L.groups) /\ Advance
      /\ owner' = Chown(owner, L, passwd[L.user])
      /\ UNCHANGED <<passwd, group, table, found>>
  BY DEF ChownHome
<1>2. /\ phase \in UserPhases /\ phase \in Running /\ Selected /\ step = "added"
      /\ L \in Line /\ L.user \in User /\ item \in Nat
  BY <1>1, UserAction DEF IInv, TypeOK
<1>3. step' = "start" BY <1>1 DEF Advance
<1>4. \A u \in User : Account(u)' = Account(u) /\ Account(u) = passwd[u]
  BY <1>1, <1>2, <1>3 DEF Account, Replaced
<1>5. SameAccounts' /\ SameOthers' BY <1>1, <1>4, AccountsSame, OthersSame DEF AgainSame
<1>6. SameGids'
  <2>1. phase # "fixed groups" BY <1>2 DEF UserPhases
  <2> QED BY <1>1, <1>2, <2>1, GidsAdvance
<1>7. SameStory'
  <2>1. passwd[L.user] = found.passwd[L.user] BY <1>2, <1>4 DEF AgainSame, SameAccounts
  <2>2. item = Len(L.groups) + 1
    <3>1. item <= Len(L.groups) + 1 /\ Len(L.groups) \in Nat
      BY <1>2, LineParts DEF RunInv, CleanInv
    <3> QED BY <1>1, <1>2, <3>1
  <2> QED BY <1>1, <1>2, <2>1, <2>2, SameStoryTurns
<1> QED BY <1>5, <1>6, <1>7 DEF AgainSame

LEMMA RunAgain ==
  ASSUME IInv, TInv, RunInv, FoundInv, NEW t \in Tables, Run(t)
  PROVE  AgainInv'
<1>1. /\ found'.passwd = passwd /\ found'.group = group /\ found'.owner = owner
      /\ found'.table = table /\ found'.ended = phase
  BY DEF Run
<1>2. /\ table' = t /\ owner' = [h \in Homes |-> Missing] /\ UNCHANGED <<passwd, group>>
      /\ phase' \in {"done", "fixed groups"} /\ phase' \notin UserPhases
  BY RunPlace
<1>3. \A u \in User : Account(u)' = passwd[u] BY <1>2 DEF Account, Replaced
<1>4. SameAccounts' /\ SameOthers' /\ SameGids'
  BY <1>1, <1>2, <1>3 DEF SameAccounts, SameOthers, SameGids
<1>5. ASSUME Again' PROVE SameStory'
  <2>1. CASE t = << >>
    <3>1. phase = "done" /\ table = t BY <1>1, <1>2, <1>5 DEF Again
    <3>2. PICK M, O : /\ MembersStory(t, M, Last(t), 1)
                      /\ TellsMembers(t, M[<<Last(t), 1>>], group)
                      /\ HomesStory(t, O, Last(t)) /\ TellsHomes(O[Last(t)], passwd, owner)
      BY <3>1, DoneFinished DEF Finished
    <3>3. Turn' = 1 /\ Last(t) = 1 /\ item' = 1 BY <2>1, RunPlace
    <3>4. O[1] = [h \in Homes |-> NoUser] BY <3>2 DEF HomesStory
    <3>5. TellsHomes(O[1], passwd, owner') BY <1>2, <3>4 DEF TellsHomes
    <3> QED BY <1>1, <1>2, <3>1, <3>2, <3>3, <3>5 DEF SameStory
  <2>2. CASE t # << >>
    <3>1. phase' = "fixed groups" BY <2>2, RunPlace
    <3> QED BY <3>1 DEF SameStory, UserPhases
  <2> QED BY <2>1, <2>2
<1> QED BY <1>2, <1>4, <1>5 DEF AgainInv, AgainSame

LEMMA NextAgain ==
  IInv /\ TInv /\ RunInv /\ FoundInv /\ AgainInv /\ [Next]_vars => AgainInv'
<1> SUFFICES ASSUME IInv, TInv, RunInv, FoundInv, AgainInv, [Next]_vars PROVE AgainInv'
  OBVIOUS
<1>1. CASE \E t \in Tables : Run(t) BY <1>1, RunAgain
<1>2. CASE UNCHANGED vars
  <2>1. UNCHANGED <<passwd, group, owner, table, phase, line, step, item, uid, found>>
    BY <1>2 DEF vars
  <2>2. L' = L BY <2>1, SameLine
  <2>3. \A u \in User : Account(u)' = Account(u) BY <2>1, <2>2 DEF Account, Replaced
  <2>4. AgainSame => AgainSame'
    BY <2>1, <2>3, AccountsSame, OthersSame, GidsSame, StorySame DEF AgainSame
  <2> QED BY <2>1, <2>4 DEF AgainInv, Again
<1>3. CASE Break
  <2>1. phase' = "killed" BY <1>3 DEF Break, Stop
  <2> QED BY <2>1 DEF AgainInv
<1>4. ASSUME Next, ~(\E t \in Tables : Run(t)), ~Break, Again'
      PROVE  phase' # "failed" /\ AgainSame'
  <2>1. phase \in Running /\ UNCHANGED <<table, found>>
    BY <1>4, PhasesDiffer DEF Next, SkipLine, AddOneGroup, NoGidLeft, AddsGroup, RemoveUser,
       RefuseUser, RefuseHome, AppendUser, AddUserToGroup, ChownHome, AddsUser, Stop
  <2>2. Again BY <1>4, <2>1 DEF Again
  <2>3. AgainSame BY <2>1, <2>2, PhaseType DEF AgainInv
  <2>4. ~NoGidLeft /\ ~RefuseUser /\ ~RefuseHome
    BY <2>2, <2>3, NoGidLeftNever, RefuseUserNever, RefuseHomeNever
  <2>5. SkipLine \/ AddOneGroup \/ RemoveUser \/ AppendUser \/ AddUserToGroup \/ ChownHome
    BY <1>4, <2>4 DEF Next
  <2>6. AgainSame'
    BY <2>2, <2>3, <2>5, SkipAgain, AddOneGroupAgain, RemoveUserAgain, AppendUserAgain,
       AddUserToGroupAgain, ChownHomeAgain
  <2>7. phase' = phase \/ phase' = NextPhase[phase]
    BY <2>5 DEF SkipLine, AddOneGroup, RemoveUser, AppendUser, AddUserToGroup, ChownHome, Advance
  <2>8. phase' # "failed" BY <2>1, <2>7, PhaseType
  <2> QED BY <2>6, <2>8
<1> QED BY <1>1, <1>2, <1>3, <1>4 DEF AgainInv

\* What is the same at the end of a run with the same table.
LEMMA AgainStable ==
  ASSUME IInv, TInv, FoundInv, AgainInv
  PROVE  SameTableSameAccounts
<1> SUFFICES ASSUME phase \in {"done", "failed"}, Again
             PROVE  /\ phase = "done"
                    /\ passwd = found.passwd /\ group = found.group /\ owner = found.owner
  BY DEF SameTableSameAccounts, Again
<1>1. phase = "done" /\ AgainSame BY DEF AgainInv
<1>2. /\ passwd \in [User -> Entry] /\ group \in [Group -> GroupEntry]
      /\ owner \in [Homes -> Entry] /\ found.owner \in [Homes -> Entry]
  BY DEF IInv, TypeOK, FoundInv, Again
<1>3. \A u \in User : passwd[u] = found.passwd[u]
  BY <1>1 DEF AgainSame, SameAccounts, Account, Replaced, UserPhases
<1>4. passwd = found.passwd
  <2>1. found.passwd \in [User -> Entry] BY FoundIs
  <2> QED BY <1>2, <1>3, <2>1
<1>5. item = 1 /\ Turn = Last(table)
  <2>1. Turn = Last(table) BY <1>1, TurnOf DEF UserPhases
  <2> QED BY <1>1, <2>1 DEF TInv, PlaceInv, UserPhases
<1>6. PICK M, O : /\ TellsMembers(table, M[<<Last(table), 1>>], found.group)
                  /\ TellsMembers(table, M[<<Last(table), 1>>], group)
                  /\ TellsHomes(O[Last(table)], found.passwd, found.owner)
                  /\ TellsHomes(O[Last(table)], found.passwd, owner)
  BY <1>1, <1>5 DEF AgainSame, SameStory
<1>7. group = found.group
  <2>1. ASSUME NEW g \in Group PROVE group[g] = found.group[g]
    <3>1. CASE Mentioned(table, g)
      <4>1. group[g].members = found.group[g].members BY <1>6, <3>1 DEF TellsMembers
      <4>2. group[g].gid = found.group[g].gid BY <1>1 DEF AgainSame, SameGids
      <4>3. group[g] \in GroupEntry /\ found.group[g] \in GroupEntry BY <1>2, FoundIs
      <4> QED BY <4>1, <4>2, <4>3 DEF GroupEntry
    <3>2. CASE ~Mentioned(table, g) BY <1>1, <3>2 DEF AgainSame, SameOthers
    <3> QED BY <3>1, <3>2
  <2>2. found.group \in [Group -> GroupEntry] BY FoundIs
  <2> QED BY <1>2, <2>1, <2>2
<1>8. owner = found.owner
  <2>1. \A h \in Homes : owner[h] = found.owner[h] BY <1>6 DEF TellsHomes
  <2> QED BY <1>2, <2>1
<1> QED BY <1>1, <1>4, <1>7, <1>8

\* What earlier runs have given stays given: a run that follows one that ended well
\* with the same table ends well and changes nothing, not one id, member or home, for
\* every table and skeleton, if no two groups share a gid (mkusers:183-189), and
\* with any table a user that a run finds keeps its uid (mkusers:114-118, 231-237).
THEOREM AccountsAlwaysStable == Spec => []AccountsAreStable
<1> DEFINE Inv == IInv /\ TInv /\ KeptInv /\ RunInv /\ FoundInv /\ AgainInv
<1>1. Init => Inv
  <2>1. Init => KeptInv
    BY MkUsersAssumption DEF Init, KeptInv, Account, Replaced, UserPhases
  <2> QED BY <2>1, InitIInv, InitTInv, InitRun
<1>2. Inv /\ [Next]_vars => Inv'
  BY NextIInv, NextTInv, NextKept, NextRun, NextFound, NextAgain
<1>3. Inv => AccountsAreStable
  <2>1. KeptInv => UidsAreKept BY DEF KeptInv, UidsAreKept, Account, Replaced, UserPhases
  <2> QED BY <2>1, AgainStable DEF AccountsAreStable
<1> QED BY <1>1, <1>2, <1>3, PTL DEF Spec
=============================================================================
