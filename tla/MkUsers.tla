------------------------------ MODULE MkUsers -------------------------------
(***************************************************************************)
(* support/scripts/mkusers: fills the account files of TARGET_DIR from the *)
(* users table of the packages.  It runs once for every root filesystem    *)
(* image and again in every later make, on what earlier runs have left.    *)
(* Users and groups are found by name, so each file is a function of names;*)
(* an entry that is not in the file is Missing.                            *)
(***************************************************************************)
EXTENDS Integers, Sequences, FiniteSets

CONSTANTS User, Group,   \* names that may appear in the files
          MinId, MaxId,  \* MIN_UID = MIN_GID and MAX_UID = MAX_GID
          Homes,         \* home directories
          Below,         \* the homes that each home holds, itself among them
          Tables,        \* the users tables a run tries
          SkelPasswd, SkelGroup,  \* /etc/passwd and /etc/group of the skeleton
          MaxRuns,       \* bound: runs of the script
          MaxBreaks      \* bound: failed commands and interrupts

None == -1               \* no id: "" from a getter, -1 in the table
NoUser == "-"            \* the user name of a line that only wants a group
Missing   == [uid |-> None, gid |-> None]
GoneGroup == [gid |-> None, members |-> << >>]

\* An entry of the table.  home is "-", a directory, or one that is refused.
Line == [user : User \cup {NoUser}, uid : Int, group : Group, gid : Int,
         home : Homes \cup {"-", "refused"}, groups : Seq(Group)]
Entry == [uid : Int, gid : Int]
\* sed may leave an empty name in a list of members.
Blank == "blank"
GroupEntry == [gid : Int, members : Seq(User \cup {Blank})]

SameUid(pw) == \E u, v \in User :
                 u # v /\ pw[u].uid # None /\ pw[u].uid = pw[v].uid
SameGid(gr) == \E g, h \in Group :
                 g # h /\ gr[g].gid # None /\ gr[g].gid = gr[h].gid

ASSUME MkUsersAssumption ==
  /\ NoUser \notin User /\ Blank \notin User
  /\ MinId \in Nat \ {0} /\ MaxId \in Nat
  /\ Below \in [Homes -> SUBSET Homes] /\ \A h \in Homes : h \in Below[h]
  /\ Tables \subseteq Seq(Line)
  /\ SkelPasswd \in [User -> Entry] /\ ~SameUid(SkelPasswd)
  /\ \A u \in User : SkelPasswd[u].uid = None => SkelPasswd[u] = Missing
  /\ SkelGroup \in [Group -> GroupEntry]
  /\ MaxRuns \in Nat /\ MaxBreaks \in Nat

VARIABLES passwd, shadow, group,  \* the files in TARGET_DIR/etc
          owner,    \* what the chown lines of the fakeroot script give Homes
          table,    \* LINES
          phase,    \* the loop of main that runs, or how the run ended
          line,     \* the line it is at
          step,     \* where it is in add_one_user, and
          item,     \* at which of the additional groups
          uid,      \* the uid of that user
          found,    \* what the run found: the state and table before it
          runs, breaks  \* so far

vars == <<passwd, shadow, group, owner, table, phase, line, step, item, uid,
          found, runs, breaks>>
count == <<runs, breaks>>

\* Mutant: the additional groups are created between the loops over the users.
NextPhase_groupsLate ==
  [x \in {"fixed groups", "auto groups", "more groups",
          "fixed users", "auto users"} |->
     CASE x = "fixed groups" -> "auto groups"
       [] x = "auto groups"  -> "fixed users"
       [] x = "fixed users"  -> "more groups"
       [] x = "more groups"  -> "auto users"
       [] OTHER              -> "done"]

\* The order of the loops of main: ids that are given before automatic ones.
NextPhase == [x \in {"fixed groups", "auto groups", "more groups",
                     "fixed users", "auto users"} |->
                CASE x = "fixed groups" -> "auto groups"
                  [] x = "auto groups"  -> "more groups"
                  [] x = "more groups"  -> "fixed users"
                  [] x = "fixed users"  -> "auto users"
                  [] OTHER              -> "done"]
Running == DOMAIN NextPhase
UserPhases == {"fixed users", "auto users"}
Ended == {"none", "done", "failed", "killed"}

L == table[line]
-----------------------------------------------------------------------------
\* The getters, and what the generators make of them.

GroupsWith(g) == {n \in Group : group[n].gid = g}
UsersWith(u)  == {n \in User : passwd[n].uid = u}

Lowest(S) == IF S = {} THEN None ELSE CHOOSE n \in S : \A m \in S : n <= m

\* Mutant: a group that exists gets a new gid.
GidFor_alwaysNew(g, gid) ==
  IF gid # None THEN gid
  ELSE Lowest({n \in MinId .. MaxId : GroupsWith(n) = {}})

\* The gid of a group that the table wants with gid; None if there is none left.
GidFor(g, gid) ==
  IF gid # None THEN gid
  ELSE IF group[g].gid # None THEN group[g].gid
  ELSE Lowest({n \in MinId .. MaxId : GroupsWith(n) = {}})

\* Mutant: a user that exists gets a new uid.
UidFor_alwaysNew(u, want) ==
  IF want # None THEN want
  ELSE Lowest({n \in MinId .. MaxId : UsersWith(n) = {}})

UidFor(u, want) ==
  IF want # None THEN want
  ELSE IF passwd[u].uid # None THEN passwd[u].uid
  ELSE Lowest({n \in MinId .. MaxId : UsersWith(n) = {}})

\* Mutant: the uid of another user is accepted.
Valid_uidTaken(l) ==
  LET old == passwd[l.user]
  IN  /\ l.user # "root"
      /\ l.gid # None => GroupsWith(l.gid) \subseteq {l.group}
      /\ l.uid # None => old.uid \in {None, l.uid}
      /\ old.gid # None => GroupsWith(old.gid) \subseteq {l.group}

\* check_user_validity
Valid(l) ==
  LET old == passwd[l.user]
  IN  /\ l.user # "root"
      /\ l.gid >= -1 /\ l.gid # 0
      /\ l.gid # None => /\ GroupsWith(l.gid) \subseteq {l.group}
                         /\ group[l.group].gid \in {None, l.gid}
                         /\ old.gid \in {None, l.gid}
      /\ l.uid >= -1 /\ l.uid # 0
      /\ l.uid # None => /\ UsersWith(l.uid) \subseteq {l.user}
                         /\ old.uid \in {None, l.uid}
      /\ old.gid # None => GroupsWith(old.gid) \subseteq {l.group}

\* The sed of add_user_to_group: the name is blanked where it stands and put
\* at the end; s/,+/,/ then drops the blanks after the first name only, and
\* s/:,/:/ a blank first name.  The last two also run on the lines of other
\* groups, where an earlier run of theirs has left nothing to do.
Blanked(members, u) ==
  [i \in DOMAIN members |-> IF members[i] = u THEN Blank ELSE members[i]]
Squeezed(s) ==
  IF Len(s) = 1 THEN s
  ELSE (IF s[1] = Blank THEN << >> ELSE <<s[1]>>)
       \o SubSeq(s, Lowest({i \in 2 .. Len(s) : s[i] # Blank}), Len(s))
Joined(members, u) == Squeezed(Append(Blanked(members, u), u))
-----------------------------------------------------------------------------
Init ==
  /\ passwd = SkelPasswd
  /\ shadow = {u \in User : SkelPasswd[u] # Missing}
  /\ group = SkelGroup
  /\ owner = [h \in Homes |-> Missing]
  /\ table = << >> /\ phase = "none" /\ line = 1
  /\ step = "start" /\ item = 1 /\ uid = None
  /\ found = [passwd |-> passwd, group |-> group, owner |-> owner,
              table |-> << >>, ended |-> "none"]
  /\ runs = 0 /\ breaks = 0

files == <<passwd, shadow, group, owner>>

\* fs/common.mk: the rule of an image writes the table and runs the script.
Run(t) ==
  /\ phase \in Ended
  /\ runs < MaxRuns
  /\ runs' = runs + 1
  /\ found' = [passwd |-> passwd, group |-> group, owner |-> owner,
               table |-> table, ended |-> phase]
  /\ table' = t
  /\ phase' = IF t = << >> THEN "done" ELSE "fixed groups"
  /\ line' = 1
  /\ owner' = [h \in Homes |-> Missing]
  /\ UNCHANGED <<passwd, shadow, group, step, item, uid, breaks>>

\* On to the next line, or to the first line of the next loop.
Advance ==
  /\ line' = IF line < Len(table) THEN line + 1 ELSE 1
  /\ phase' = IF line < Len(table) THEN phase ELSE NextPhase[phase]
  /\ step' = "start" /\ item' = 1 /\ uid' = None

Stop(how) ==
  /\ phase' = how
  /\ line' = 1 /\ step' = "start" /\ item' = 1 /\ uid' = None
  /\ UNCHANGED <<table, found, runs>>

\* Whether the loop does anything for the line.
Selected ==
  CASE phase = "fixed groups" -> L.gid >= 0
    [] phase = "auto groups"  -> L.gid = None
    [] phase = "more groups"  -> L.groups # << >>
    [] phase = "fixed users"  -> L.user # NoUser /\ L.uid >= 0
    [] OTHER                  -> L.user # NoUser /\ L.uid = None

SkipLine ==
  /\ phase \in Running
  /\ ~Selected
  /\ Advance
  /\ UNCHANGED <<files, table, found, count>>

\* The group that add_one_group is called for, and the gid it is given.
Wanted == IF phase = "more groups" THEN [name |-> L.groups[item], gid |-> None]
          ELSE [name |-> L.group, gid |-> L.gid]
AddsGroup == phase \in Running \ UserPhases /\ Selected

\* add_one_group: a group that exists loses its members.
AddOneGroup ==
  /\ AddsGroup
  /\ LET gid == GidFor(Wanted.name, Wanted.gid)
     IN  /\ gid # None
         /\ group' = [group EXCEPT ![Wanted.name] =
                        [gid |-> gid, members |-> << >>]]
  /\ IF phase = "more groups" /\ item < Len(L.groups)
     THEN item' = item + 1 /\ UNCHANGED <<phase, line, step, uid>>
     ELSE Advance
  /\ UNCHANGED <<passwd, shadow, owner, table, found, count>>

NoGidLeft ==
  /\ AddsGroup
  /\ GidFor(Wanted.name, Wanted.gid) = None
  /\ Stop("failed")
  /\ UNCHANGED <<files, breaks>>

AddsUser(at) == phase \in UserPhases /\ Selected /\ step = at

\* add_one_user, up to the removal of any previous instance.
RemoveUser ==
  /\ AddsUser("start")
  /\ Valid(L)
  /\ uid' = UidFor(L.user, L.uid) /\ uid' # None
  /\ passwd' = [passwd EXCEPT ![L.user] = Missing]
  /\ shadow' = shadow \ {L.user}
  /\ step' = "removed"
  /\ UNCHANGED <<group, owner, table, phase, line, item, found, count>>

RefuseUser ==
  /\ AddsUser("start")
  /\ ~Valid(L) \/ UidFor(L.user, L.uid) = None
  /\ Stop("failed")
  /\ UNCHANGED <<files, breaks>>

\* home is looked at when the user is already gone from both files.
RefuseHome ==
  /\ AddsUser("removed")
  /\ L.home = "refused"
  /\ Stop("failed")
  /\ UNCHANGED <<files, breaks>>

AppendUser ==
  /\ AddsUser("removed")
  /\ L.home # "refused"
  /\ passwd' = [passwd EXCEPT ![L.user] =
                  [uid |-> uid, gid |-> group[L.group].gid]]
  /\ shadow' = shadow \cup {L.user}
  /\ step' = "added"
  /\ UNCHANGED <<group, owner, table, phase, line, item, uid, found, count>>

AddUserToGroup ==
  /\ AddsUser("added")
  /\ item <= Len(L.groups)
  /\ group' = [group EXCEPT ![L.groups[item]].members =
                 IF group[L.groups[item]] = GoneGroup THEN @ ELSE Joined(@, L.user)]
  /\ item' = item + 1
  /\ UNCHANGED <<passwd, shadow, owner, table, phase, line, step, uid, found,
                 count>>

\* Mutant: chown without -R.
Chown_notBelow(ids, l, id) ==
  [h \in Homes |-> IF h = l.home THEN id ELSE ids[h]]

\* chown -h -R: the home of the line and all below it.
Chown(ids, l, id) ==
  [h \in Homes |-> IF l.home \in Homes /\ h \in Below[l.home] THEN id ELSE ids[h]]

\* The last thing add_one_user does is to print the chown of the home.
ChownHome ==
  /\ AddsUser("added")
  /\ item > Len(L.groups)
  /\ owner' = Chown(owner, L, passwd[L.user])
  /\ Advance
  /\ UNCHANGED <<passwd, shadow, group, table, found, count>>

\* set -e, or an interrupted make: between two of the commands of a step.
Break ==
  /\ breaks < MaxBreaks
  /\ breaks' = breaks + 1
  /\ phase \in Running
  /\ Stop("killed")
  /\ UNCHANGED owner
  /\ \/ UNCHANGED <<passwd, shadow, group>>
     \/ /\ AddsGroup
        /\ group' = [group EXCEPT ![Wanted.name] = GoneGroup]
        /\ UNCHANGED <<passwd, shadow>>
     \/ /\ AddsUser("start") /\ Valid(L)
        /\ passwd' = [passwd EXCEPT ![L.user] = Missing]
        /\ UNCHANGED <<shadow, group>>
     \/ /\ AddsUser("removed") /\ L.home # "refused"
        /\ passwd' = [passwd EXCEPT ![L.user] =
                        [uid |-> uid, gid |-> group[L.group].gid]]
        /\ UNCHANGED <<shadow, group>>

Next ==
  \/ \E t \in Tables : Run(t)
  \/ SkipLine \/ AddOneGroup \/ NoGidLeft
  \/ RemoveUser \/ RefuseUser \/ RefuseHome \/ AppendUser
  \/ AddUserToGroup \/ ChownHome \/ Break

Spec == Init /\ [][Next]_vars
-----------------------------------------------------------------------------
TypeOK ==
  /\ passwd \in [User -> Entry]
  /\ shadow \subseteq User
  /\ group \in [Group -> GroupEntry]
  /\ owner \in [Homes -> Entry]
  /\ table \in Tables \cup {<< >>}
  /\ phase \in Running \cup Ended
  /\ line \in 1 .. Len(table) + 1
  /\ phase \in Running => line <= Len(table)
  /\ step \in {"start", "removed", "added"}
  /\ item \in Nat \ {0}
  /\ uid \in Int
  /\ runs \in 0 .. MaxRuns /\ breaks \in 0 .. MaxBreaks

\* "check the uid is not already used for another user" (mkusers:110): no two
\* users ever share a uid, whatever the tables ask for and wherever a run
\* stops.
UidsUnique == ~SameUid(passwd)

\* A run that ends well has given every user of the table its uid, its main
\* group with the gid that group has now, and each of its additional groups
\* once (makeusers-syntax.txt:21-46).
Times(u, members) == Cardinality({i \in DOMAIN members : members[i] = u})
Granted(l) ==
  /\ l.user \in shadow
  /\ passwd[l.user].uid # None
  /\ l.uid # None => passwd[l.user].uid = l.uid
  /\ passwd[l.user].gid = group[l.group].gid
  /\ l.gid # None => passwd[l.user].gid = l.gid
  /\ \A j \in DOMAIN l.groups : Times(l.user, group[l.groups[j]].members) = 1

\* The home of a user and what is below it belong to that user and its main
\* group (makeusers-syntax.txt:54-55), but for what another user's home holds: of
\* two homes, one below the other, the later line takes over the inner one.
Holds(k, h) == table[k].home \in Homes /\ h \in Below[table[k].home]
HomeOwned(i) ==
  \A h \in Homes :
    (Holds(i, h) /\ \A k \in DOMAIN table : Holds(k, h) => table[k].user = table[i].user)
      => owner[h] = passwd[table[i].user]

\* Every user of a table has what its line asks for.
TablesAreObeyed ==
  phase = "done" => \A i \in DOMAIN table :
    table[i].user # NoUser => Granted(table[i]) /\ HomeOwned(i)

\* Files on the device carry uids: a user that a run finds has the same uid when
\* that run ends well, whatever its table is, and whatever the runs before it
\* wanted and wherever they stopped (mkusers:114-118, 231-237).
UidsAreKept ==
  phase = "done" => \A u \in User :
    found.passwd[u] # Missing => passwd[u].uid = found.passwd[u].uid

\* The same table gives every image the same accounts: a run that follows one
\* that ended well with the same table ends well and changes nothing, if no
\* two groups share a gid (mkusers:183-189: "If the group already exists, then
\* simply report its current GID").
SameTableSameAccounts ==
  (/\ phase \in {"done", "failed"}
   /\ found.ended = "done" /\ found.table = table
   /\ ~SameGid(found.group))
    => /\ phase = "done"
       /\ passwd = found.passwd /\ group = found.group /\ owner = found.owner

\* What earlier runs have given stays given, with the same table or another.
AccountsAreStable == SameTableSameAccounts /\ UidsAreKept
=============================================================================
