----------------------------- MODULE MakeDevs -----------------------------
(***************************************************************************)
(* package/makedevs/makedevs.c, as fs/common.mk runs it: for every image,  *)
(* a fakeroot session gives the whole target tree to root, applies the     *)
(* lines of the device table to it one after the other, and packs the tree *)
(* if makedevs succeeded ("set -e").                                       *)
(*                                                                         *)
(* The files are a function from paths to nodes.  A path is a sequence of  *)
(* components, a component a sequence of tokens: a batch appends the       *)
(* digits of its number to the last one; the root of the tree is << >>.    *)
(***************************************************************************)
EXTENDS Integers, SequencesExt, FiniteSetsExt, TLC

CONSTANTS Tables,     \* the device tables: sequences of lines
          Skeletons,  \* the target trees the packages can leave
          Passwd,     \* the ids of the users in etc/passwd
          Group,      \* the ids of the groups in etc/group
          MaxImages   \* bound: how many images one build makes

Dash == -1      \* "-" in a numeric field
KeepMode == -1  \* the mode "-1"
Limit == 1048575
Special == [c |-> "chr", b |-> "blk", p |-> "fifo"]

\* A line has its first five fields: of a shorter one the user and the group
\* are what the line before left there.
Path == Seq(Seq(STRING))
Id == [name : STRING, num : Nat]
LineType == [name : Path, type : STRING, mode : Nat \cup {KeepMode},
             user : Id, group : Id, nums : Seq(Nat \cup {Dash})]

Kinds == {"dir", "file", "link", "chr", "blk", "fifo"}
IsLink(t, p) == p \in DOMAIN t /\ t[p].kind = "link"
IsPath(p) == p \in Seq(Range(p))
IsNode(n) ==
  n \in [kind : Kinds, mode : {n.mode}, uid : {n.uid}, gid : {n.gid}, dev : {n.dev}, to : {n.to}]

(***************************************************************************)
(* A target tree: what is below something is below a directory, and the    *)
(* place a link leads to in the end has no links on it; nothing need be    *)
(* there.                                                                  *)
(***************************************************************************)
IsTree(t) ==
  /\ << >> \in DOMAIN t /\ t[<< >>].kind = "dir"
  /\ \A p \in DOMAIN t :
       /\ IsPath(p) /\ IsNode(t[p])
       /\ \A i \in 0 .. (Len(p) - 1) :
            SubSeq(p, 1, i) \in DOMAIN t /\ t[SubSeq(p, 1, i)].kind = "dir"
       /\ IsLink(t, p) =>
            IsPath(t[p].to) /\ \A i \in 1 .. Len(t[p].to) : ~IsLink(t, SubSeq(t[p].to, 1, i))

ASSUME ImageBound == MaxImages \in Nat

\* The build, which is not root, makes no devices.
ASSUME SkeletonsAreTrees ==
  \A t \in Skeletons :
    IsTree(t) /\ \A p \in DOMAIN t : t[p].kind \in {"dir", "file", "link"}

\* A line that makes a node names its mode: "mode |= S_IFCHR" leaves "-1" as it is.
ASSUME TablesAreTables ==
  \A tb \in Tables :
    /\ tb \in Seq(LineType)
    /\ \A i \in DOMAIN tb : tb[i].type \in DOMAIN Special => tb[i].mode # KeepMode

VARIABLES table, tree,
          next,    \* the line makedevs reads next
          ret,     \* its exit status so far
          pc,      \* "lines", "failed" or "packed"
          images   \* the trees packed so far
vars == <<table, tree, next, ret, pc, images>>

----------------------------------------------------------------------------
(* The system calls, in a fakeroot session *)

NewNode(kind, mode) == [kind |-> kind, mode |-> mode, uid |-> 0, gid |-> 0, dev |-> <<0, 0>>, to |-> << >>]

Links(t) == [p \in {q \in DOMAIN t : t[q].kind = "link"} |-> t[p].to]

\* Where the prefixes of a path lead: name by name, from link to link.
Walk(links, p) ==
  LET at[i \in 0 .. Len(p)] ==
        IF i = 0 THEN << >>
        ELSE LET q == Append(at[i - 1], p[i]) IN IF q \in DOMAIN links THEN links[q] ELSE q
  IN  at
Followed(t, p) == Walk(Links(t), p)[Len(p)]

\* The file of that name, which may be a link itself.
Found(t, p) == IF p = << >> THEN p ELSE Append(Followed(t, Front(p)), Last(p))
Exists(t, p) == Found(t, p) \in DOMAIN t
Stat(t, p) == LET q == Followed(t, p) IN IF q \in DOMAIN t THEN t[q].kind ELSE "none"
IsDir(t, p) == Stat(t, p) = "dir"

\* fakeroot makes a node by opening the file for writing: an older file is replaced.
CanMknod(t, p) == ~IsDir(t, p) /\ IsDir(t, Front(Followed(t, p)))
MknodNode(kind, mode, dev) == [NewNode(kind, mode) EXCEPT !.dev = dev]

Chmodded(n, mode) == IF mode = KeepMode THEN n ELSE [n EXCEPT !.mode = mode]
Chowned(n, u, g) == [n EXCEPT !.uid = u, !.gid = g]

\* What a session leaves: fakeroot keeps a node as an empty file.
Forgotten(t) ==
  [p \in DOMAIN t |-> IF t[p].kind \in {"chr", "blk", "fifo"}
                      THEN [t[p] EXCEPT !.kind = "file", !.dev = <<0, 0>>] ELSE t[p]]
GivenToRoot(t) == [p \in DOMAIN t |-> [t[p] EXCEPT !.uid = 0, !.gid = 0]]

----------------------------------------------------------------------------
(* The line *)

\* sscanf stops at the first field that is no number; the others stay 0.
Field(l, i) == IF \A j \in 1..i : j <= Len(l.nums) /\ l.nums[j] # Dash THEN l.nums[i] ELSE 0
Major(l) == Field(l, 1)
Minor(l) == Field(l, 2)
Start(l) == Field(l, 3)
Increment(l) == Field(l, 4)
Count(l) == Field(l, 5)

Invalid(l) == \E i \in 1..5 : Field(l, i) > Limit

\* Ids are numbers, or names of the table given; an unknown name is fatal.
Known(id, ids) == id.name = "" \/ id.name \in DOMAIN ids
IdOf(id, ids) == IF id.name = "" THEN id.num ELSE ids[id.name]
Uid(l) == IdOf(l.user, Passwd)
Gid(l) == IdOf(l.group, Group)
Dies(l) == ~Known(l.group, Group) \/ ~Known(l.user, Passwd)

Digits[n \in Nat] == IF n < 10 THEN <<ToString(n)>> ELSE Digits[n \div 10] \o <<ToString(n % 10)>>

Numbered(p, n) == Front(p) \o <<Last(p) \o Digits[n]>>

\* How many nodes a line makes.
Copies(l) == IF Count(l) = 0 THEN 1 ELSE Count(l)

\* Mutant: the minor number of a batch starts with the number of its first name
BatchDev_fromStart(l, i) == <<Major(l), Minor(l) + (Start(l) + i) * Increment(l)>>

\* The i-th node of a line, counted from 0, and its device number.
BatchName(l, i) == IF Count(l) = 0 THEN l.name ELSE Numbered(l.name, Start(l) + i)
BatchDev(l, i) == <<Major(l), Minor(l) + i * Increment(l)>>

----------------------------------------------------------------------------
(* The kinds of lines: each gives the trees and the success it can end with *)

Outcome(t, ok) == [tree |-> t, ok |-> ok]

\* chown, then chmod.
Owned(n, l) == Chmodded(Chowned(n, Uid(l), Gid(l)), l.mode)

\* What the names of a set lead to, owned one after the other.
OwnAll(t, ps, l) ==
  [q \in DOMAIN t |-> IF \E p \in ps : Followed(t, p) = q THEN Owned(t[q], l) ELSE t[q]]

\* Nothing is done after a failure.
Own(t, p, l) == IF Stat(t, p) = "none" THEN Outcome(t, FALSE) ELSE Outcome(OwnAll(t, {p}, l), TRUE)

(***************************************************************************)
(* bb_make_directory: the prefixes of a path in turn.  Those that are      *)
(* there are passed, and end it unless they are directories; the rest is   *)
(* made, and the last one gets its mode if it is new.                      *)
(***************************************************************************)
MakeDirectory(t, p, mode) ==
  LET prefix(i) == SubSeq(p, 1, i)
      there == Max({i \in 0..Len(p) : Exists(t, prefix(i))})
      new == IF IsDir(t, prefix(there)) THEN {Followed(t, prefix(i)) : i \in there + 1 .. Len(p)} ELSE {}
      given == IF mode = KeepMode THEN 7777 ELSE mode
  IN  [q \in DOMAIN t \cup new |->
         IF q \notin new THEN t[q]
         ELSE NewNode("dir", IF q = Followed(t, p) THEN given ELSE 777)]

\* Mutant: the owner and the mode are given to a directory that is new only
DirectoryLine_onlyNew(t, l) ==
  LET made == MakeDirectory(t, l.name, l.mode)
  IN  IF Exists(t, l.name) THEN {Outcome(t, TRUE)} ELSE {Own(made, l.name, l)}

\* The result of making the directory is not looked at.
DirectoryLine(t, l) == {Own(MakeDirectory(t, l.name, l.mode), l.name, l)}

FileLine(t, l) == IF Stat(t, l.name) = "file" THEN {Own(t, l.name, l)} ELSE {Outcome(t, FALSE)}

\* nftw: the files at and below a path, links not followed (FTW_PHYS).
Walked(t, p) == {q \in DOMAIN t : IsPrefix(Found(t, p), q)}

\* bb_recursive on one file after the other, in the order of the directory.
RecursiveLine(t, l) ==
  LET qs == Walked(t, l.name)
      dangling == {q \in qs : Stat(t, q) = "none"}
  IN  IF ~Exists(t, l.name) THEN {Outcome(t, FALSE)}
      ELSE IF dangling = {} THEN {Outcome(OwnAll(t, qs, l), TRUE)}
      ELSE {Outcome(OwnAll(t, done, l), FALSE) : done \in SUBSET (qs \ dangling)}

(***************************************************************************)
(* The nodes of a line, one after the other: of two that lead to the same  *)
(* file the second replaces the first.  A node is owned only if it was     *)
(* made; its mode is set in any case.                                      *)
(***************************************************************************)
NodeLine(t, l) ==
  LET place(n) == Followed(t, BatchName(l, n))
      all == 0 .. (Copies(l) - 1)
      made == {n \in all : CanMknod(t, BatchName(l, n))}
      last(q) == Max({n \in made : place(n) = q})
      node(q) == Owned(MknodNode(Special[l.type], l.mode, BatchDev(l, last(q))), l)
  IN  {Outcome([q \in DOMAIN t \cup {place(n) : n \in made} |->
                  IF q \in {place(n) : n \in made} THEN node(q)
                  ELSE IF q \in {place(n) : n \in all} THEN Chmodded(t[q], l.mode)
                  ELSE t[q]],
               made = all)}

Outcomes(t, l) ==
  CASE Invalid(l) -> {Outcome(t, FALSE)}
    [] ~Invalid(l) /\ l.type = "d" -> DirectoryLine(t, l)
    [] ~Invalid(l) /\ l.type = "f" -> FileLine(t, l)
    [] ~Invalid(l) /\ l.type = "r" -> RecursiveLine(t, l)
    [] ~Invalid(l) /\ l.type \in DOMAIN Special -> NodeLine(t, l)
    [] OTHER -> {Outcome(t, FALSE)}

----------------------------------------------------------------------------
(* The program and the session around it *)

Init ==
  /\ table \in Tables
  /\ tree \in {GivenToRoot(t) : t \in Skeletons}
  /\ next = 1 /\ ret = 0 /\ pc = "lines" /\ images = << >>

Line ==
  /\ pc = "lines" /\ next <= Len(table)
  /\ LET l == table[next]
     IN  /\ Invalid(l) \/ ~Dies(l)
         /\ \E o \in Outcomes(tree, l) :
              /\ tree' = o.tree
              /\ ret' = IF o.ok THEN ret ELSE 1
  /\ next' = next + 1
  /\ UNCHANGED <<table, pc, images>>

\* bb_error_msg_and_die on an unknown name: the rest of the table is not read.
Die ==
  /\ pc = "lines" /\ next <= Len(table)
  /\ ~Invalid(table[next]) /\ Dies(table[next])
  /\ ret' = 1 /\ pc' = "failed"
  /\ UNCHANGED <<table, tree, next, images>>

Fail ==
  /\ pc = "lines" /\ next > Len(table) /\ ret # 0
  /\ pc' = "failed"
  /\ UNCHANGED <<table, tree, next, ret, images>>

Pack ==
  /\ pc = "lines" /\ next > Len(table) /\ ret = 0
  /\ images' = Append(images, tree)
  /\ pc' = "packed"
  /\ UNCHANGED <<table, tree, next, ret>>

\* The next image of the same build, from the tree the session left.
NextImage ==
  /\ pc = "packed" /\ Len(images) < MaxImages
  /\ tree' = GivenToRoot(Forgotten(tree))
  /\ next' = 1 /\ pc' = "lines"
  /\ UNCHANGED <<table, ret, images>>

Next == Line \/ Die \/ Fail \/ Pack \/ NextImage
Spec == Init /\ [][Next]_vars

----------------------------------------------------------------------------
(* What the table asks for, read as a whole *)

\* "/dev/uio b 640 0 0 252 1 6 2 5" makes "/dev/uio[6-10] with minor numbers
\* 1,3,5,7,9": the program's own help.  The manual has the numbers of the names step by the
\* increment, too (makedev-syntax.txt:37-39), which the code does not do.
NodeName(l, n) == IF Count(l) = 0 THEN l.name ELSE Numbered(l.name, Start(l) + n)

\* The line is about the file p.
About(t, l, p) ==
  CASE l.type = "r" -> \E q \in Walked(t, l.name) : Followed(t, q) = p
    [] l.type \in DOMAIN Special ->
         \E n \in 0 .. (Copies(l) - 1) : Followed(t, NodeName(l, n)) = p
    [] OTHER -> Followed(t, l.name) = p
Asked(t, i, p) == About(t, table[i], p)

LastAsking(t, p, lines) == LET is == {i \in lines : Asked(t, i, p)} IN IF is = {} THEN 0 ELSE Max(is)

(***************************************************************************)
(* A recursive line reaches the directories a later line makes only from   *)
(* the second image on: the table has to make them first.                  *)
(***************************************************************************)
RecursiveLinesLast ==
  \A i \in DOMAIN table, j \in DOMAIN table :
     (i < j /\ table[i].type = "r" /\ table[j].type = "d")
       => ~IsStrictPrefix(Found(tree, table[i].name), Followed(tree, table[j].name))

NodeLines == {i \in DOMAIN table : table[i].type \in DOMAIN Special}

(***************************************************************************)
(* An image that is packed is the one the table describes: every file has  *)
(* the owner of the last line that is about it, the mode of the last such  *)
(* line that names a mode, and is a device with the numbers of the last    *)
(* line that makes it, whatever the order of the lines and whatever files  *)
(* they share.  (main makes a success of a table only when every line was  *)
(* applied: ret is never set back.)                                        *)
(***************************************************************************)
Described(t) ==
  \A p \in {q \in DOMAIN t : t[q].kind # "link"} :
     LET owner == LastAsking(t, p, DOMAIN table)
         mode == LastAsking(t, p, {i \in DOMAIN table : table[i].mode # KeepMode})
         node == LastAsking(t, p, NodeLines)
         l == table[node]
     IN  /\ owner # 0 => t[p].uid = Uid(table[owner]) /\ t[p].gid = Gid(table[owner])
         /\ mode # 0 => t[p].mode = table[mode].mode
         /\ t[p].kind \in {"chr", "blk", "fifo"} <=> node # 0
         /\ node # 0 => /\ t[p].kind = Special[l.type]
                        /\ \E n \in 0 .. (Copies(l) - 1) :
                              /\ Followed(t, NodeName(l, n)) = p
                              /\ t[p].dev = <<Major(l), Minor(l) + n * Increment(l)>>

NothingIsMissing(t) ==
  \A i \in DOMAIN table :
     LET l == table[i]
     IN  IF i \in NodeLines
         THEN \A n \in 0 .. (Copies(l) - 1) :
                 Exists(t, NodeName(l, n))
         ELSE Exists(t, l.name)

ImagesAreDescribed ==
  RecursiveLinesLast => \A n \in DOMAIN images : Described(images[n]) /\ NothingIsMissing(images[n])

(***************************************************************************)
(* Every image of a build holds the same files: the nodes and the modes    *)
(* the session before left in the target tree change nothing (fs/common.mk *)
(* runs makedevs on one TARGET_DIR once for each image).                   *)
(***************************************************************************)
ImagesAgree ==
  /\ RecursiveLinesLast => \A n \in DOMAIN images : images[n] = images[1]
  /\ (pc = "failed" => images = << >>)
============================================================================
