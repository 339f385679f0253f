--------------------------- MODULE MakeDevsProofs ---------------------------
(***************************************************************************)
(* For every device table, target tree and number of images: a table that  *)
(* could be applied once can be applied again, and, if its recursive lines *)
(* are in order, a packed image is the one it describes and every image is *)
(* the same.                                                               *)
(***************************************************************************)
EXTENDS MakeDevs, SequenceTheorems, WellFoundedInduction, TLAPS

----------------------------------------------------------------------------
(* The inductive invariant *)

Devices == {"chr", "blk", "fifo"}
Types == {"d", "f", "r"} \cup DOMAIN Special

\* The same links lead to the same places.
SameLinks(t, u) == Links(t) = Links(u)

\* What a tree can become: nothing is removed, and a directory stays one.
Grown(t, u) ==
  /\ IsTree(u)
  /\ DOMAIN t \subseteq DOMAIN u
  /\ SameLinks(t, u)
  /\ \A p \in DOMAIN t : t[p].kind = "dir" <=> u[p].kind = "dir"

SameFiles(t, u) == Grown(t, u) /\ DOMAIN t = DOMAIN u

\* The trees are functions, so that two with the same nodes are equal.
IsFunction(t) == t = [p \in DOMAIN t |-> t[p]]

Files(t) == {p \in DOMAIN t : t[p].kind # "link"}
Batch(l) == 0 .. (Copies(l) - 1)
Place(t, l, n) == Followed(t, BatchName(l, n))
LastCopy(t, l, p) == Max({n \in Batch(l) : Place(t, l, n) = p})

(***************************************************************************)
(* The i-th line of the table tb succeeds on the tree t, whenever a        *)
(* session comes to it: what it names is there and of the right kind, and  *)
(* no line before it makes a device of the file it names.                  *)
(***************************************************************************)
Applies(tb, t, i) ==
  LET l == tb[i]
      f == Followed(t, l.name)
  IN  /\ ~Invalid(l) /\ ~Dies(l) /\ l.type \in Types
      /\ l.type = "d" => f \in DOMAIN t
      /\ l.type = "f" =>
           /\ f \in DOMAIN t /\ t[f].kind # "dir"
           /\ \A k \in 1 .. (i - 1) : tb[k].type \in DOMAIN Special => ~About(t, tb[k], f)
      /\ l.type = "r" =>
           /\ Found(t, l.name) \in DOMAIN t
           /\ \A q \in Walked(t, l.name) : Followed(t, q) \in DOMAIN t
      /\ l.type \in DOMAIN Special =>
           \A n \in Batch(l) : Place(t, l, n) \in DOMAIN t /\ t[Place(t, l, n)].kind # "dir"

\* Of the lines S, j is the last that is about the file p; or none is.
IsLast(tb, t, p, S, j) ==
  j \in S /\ About(t, tb[j], p) /\ \A k \in S : k > j => ~About(t, tb[k], p)
NoneAsks(tb, t, p, S) == \A k \in S : ~About(t, tb[k], p)

\* The lines that make nodes, and those that name a mode, among the first i.
NodesTo(tb, i) == {k \in 1..i : tb[k].type \in DOMAIN Special}
ModesTo(tb, i) == {k \in 1..i : tb[k].mode # KeepMode}

\* The first i lines made these nodes and no others, gave these owners, these modes.
KindsAre(tb, t, i) ==
  \A p \in Files(t) :
    /\ \A j : IsLast(tb, t, p, NodesTo(tb, i), j) =>
         /\ t[p].kind = Special[tb[j].type] /\ t[p].to = << >>
         /\ t[p].dev = BatchDev(tb[j], LastCopy(t, tb[j], p))
    /\ NoneAsks(tb, t, p, NodesTo(tb, i)) => t[p].kind \notin Devices
OwnersAre(tb, t, i) ==
  \A p \in Files(t) :
    /\ \A j : IsLast(tb, t, p, 1..i, j) => t[p].uid = Uid(tb[j]) /\ t[p].gid = Gid(tb[j])
    /\ NoneAsks(tb, t, p, 1..i) => t[p].uid = 0 /\ t[p].gid = 0
ModesAre(tb, t, i) ==
  \A p \in Files(t) : \A j : IsLast(tb, t, p, ModesTo(tb, i), j) => t[p].mode = tb[j].mode
LinksAreRoots(t) == \A p \in DOMAIN t \ Files(t) : t[p].uid = 0 /\ t[p].gid = 0

\* RecursiveLinesLast, of any table and tree.
Ordered(tb, t) ==
  \A i \in DOMAIN tb, j \in DOMAIN tb :
     (i < j /\ tb[i].type = "r" /\ tb[j].type = "d")
       => ~IsStrictPrefix(Found(t, tb[i].name), Followed(t, tb[j].name))

\* What the first i lines made of a tree.
Done(tb, t, i) ==
  /\ \A k \in 1..i : Applies(tb, t, k)
  /\ KindsAre(tb, t, i)
  /\ LinksAreRoots(t)
  /\ Ordered(tb, t) => OwnersAre(tb, t, i) /\ ModesAre(tb, t, i)

\* What they do not change is what it was in the tree b.
RestIs(tb, t, b, i) ==
  /\ SameFiles(b, t)
  /\ \A p \in DOMAIN t \ Files(t) : t[p] = b[p]
  /\ \A p \in Files(t) :
       /\ NoneAsks(tb, t, p, ModesTo(tb, i)) => t[p].mode = b[p].mode
       /\ NoneAsks(tb, t, p, NodesTo(tb, i)) =>
            t[p].kind = b[p].kind /\ t[p].dev = b[p].dev /\ t[p].to = b[p].to

\* What is packed so far: always the same files, and the same image if the table is in order.
Past(tb, t, ims) ==
  \A n \in 1 .. Len(ims) :
    /\ IsTree(ims[n]) /\ IsFunction(ims[n]) /\ SameFiles(ims[n], t)
    /\ Done(tb, ims[n], Len(tb))
    /\ Ordered(tb, t) => ims[n] = ims[1]

\* In a session that is not the first every line of the table applies.
Again(tb, t, ims, i) ==
  ims # << >> =>
    /\ \A k \in 1 .. Len(tb) : Applies(tb, t, k)
    /\ Ordered(tb, t) => RestIs(tb, t, Forgotten(ims[Len(ims)]), i)

TypeInv ==
  /\ table \in Tables
  /\ next \in 1 .. Len(table) + 1
  /\ ret \in {0, 1}
  /\ pc \in {"lines", "failed", "packed"}
  /\ images \in Seq(Range(images))
  /\ IsTree(tree) /\ IsFunction(tree)

SessionInv ==
  /\ ret = 0 => Done(table, tree, next - 1)
  /\ images # << >> => ret = 0 /\ pc # "failed"
  /\ pc = "packed" => images # << >> /\ tree = images[Len(images)]

ImagesInv == Past(table, tree, images)
AgainInv == Again(table, tree, images, next - 1)

IInv == TypeInv /\ SessionInv /\ ImagesInv /\ AgainInv
----------------------------------------------------------------------------
(* Paths *)

\* A sequence of anything is a path.
LEMMA PathIf ==
  ASSUME NEW S, NEW p \in Seq(S)
  PROVE  IsPath(p)
<1>1. Len(p) \in Nat /\ DOMAIN p = 1..Len(p) /\ p \in [1..Len(p) -> S]
  BY LenProperties
<1>2. p \in [1..Len(p) -> Range(p)]
  BY <1>1 DEF Range
<1>3. p \in Seq(Range(p))
  BY <1>1, <1>2, SeqDef
<1> QED BY <1>3 DEF IsPath

\* A prefix of a path, and a prefix of that.
LEMMA PrefixFacts ==
  ASSUME NEW p, IsPath(p), NEW i \in 0..Len(p)
  PROVE  /\ Len(p) \in Nat
         /\ IsPath(SubSeq(p, 1, i))
         /\ Len(SubSeq(p, 1, i)) = i
         /\ \A j \in 0..i : SubSeq(SubSeq(p, 1, i), 1, j) = SubSeq(p, 1, j)
<1> DEFINE S == Range(p)
           q == SubSeq(p, 1, i)
<1>1. p \in Seq(S) BY DEF IsPath
<1> HIDE DEF S
<1>2. Len(p) \in Nat /\ q \in Seq(S) /\ Len(q) = i
  BY <1>1
<1>3. \A j \in 1..i : q[j] = p[j]
  BY <1>1
<1>5. \A j \in 0..i : SubSeq(q, 1, j) = SubSeq(p, 1, j)
  <2> SUFFICES ASSUME NEW j \in 0..i PROVE SubSeq(q, 1, j) = SubSeq(p, 1, j)
    OBVIOUS
  <2>1. /\ SubSeq(q, 1, j) \in Seq(S) /\ Len(SubSeq(q, 1, j)) = j
        /\ SubSeq(p, 1, j) \in Seq(S) /\ Len(SubSeq(p, 1, j)) = j
    BY <1>1, <1>2
  <2>2. \A k \in 1..j : SubSeq(q, 1, j)[k] = SubSeq(p, 1, j)[k]
    BY <1>1, <1>2, <1>3
  <2> QED BY <2>1, <2>2, SeqEqual
<1> QED BY <1>2, <1>5, PathIf

LEMMA WholePrefix ==
  ASSUME NEW p, IsPath(p)
  PROVE  /\ Len(p) \in Nat /\ SubSeq(p, 1, Len(p)) = p /\ SubSeq(p, 1, 0) = << >>
         /\ Len(p) = 0 => p = << >>
<1>1. p \in Seq(Range(p)) BY DEF IsPath
<1>2. SubSeq(p, 1, Len(p)) = p BY <1>1, SubSeqFull
<1>3. SubSeq(p, 1, 0) = << >> BY SubSeqEmpty
<1>4. Len(p) \in Nat BY <1>1, LenProperties
<1> QED BY <1>2, <1>3, <1>4

\* The prefixes in terms of which IsPrefix is defined.
LEMMA PrefixIs ==
  ASSUME NEW p, IsPath(p), NEW q, IsPath(q)
  PROVE  IsPrefix(q, p) <=> \E i \in 0..Len(p) : q = SubSeq(p, 1, i)
<1>1. Len(p) \in Nat /\ Len(q) \in Nat /\ SubSeq(q, 1, Len(q)) = q
  BY WholePrefix
<1>2. ASSUME IsPrefix(q, p) PROVE \E i \in 0..Len(p) : q = SubSeq(p, 1, i)
  <2>1. Len(q) <= Len(p) /\ SubSeq(q, 1, Len(q)) = SubSeq(p, 1, Len(q))
    BY <1>2 DEF IsPrefix
  <2>2. Len(q) \in 0..Len(p) BY <1>1, <2>1
  <2>3. q = SubSeq(p, 1, Len(q)) BY <1>1, <2>1
  <2> QED BY <2>2, <2>3
<1>3. ASSUME NEW i \in 0..Len(p), q = SubSeq(p, 1, i) PROVE IsPrefix(q, p)
  <2>1. Len(q) = i BY <1>3, PrefixFacts
  <2> QED BY <1>1, <1>3, <2>1 DEF IsPrefix
<1> QED BY <1>2, <1>3

LEMMA PrefixOrder ==
  ASSUME NEW p, IsPath(p), NEW q, IsPath(q), NEW r, IsPath(r)
  PROVE  /\ IsPrefix(p, p)
         /\ IsPrefix(p, q) /\ IsPrefix(q, r) => IsPrefix(p, r)
         /\ IsPrefix(p, q) /\ IsPrefix(q, p) => p = q
<1>1. /\ Len(p) \in Nat /\ SubSeq(p, 1, Len(p)) = p
      /\ Len(q) \in Nat /\ SubSeq(q, 1, Len(q)) = q
      /\ Len(r) \in Nat /\ SubSeq(r, 1, Len(r)) = r
  BY WholePrefix
<1>2. IsPrefix(p, p) BY <1>1 DEF IsPrefix
<1>3. ASSUME IsPrefix(p, q), IsPrefix(q, p) PROVE p = q
  <2>1. Len(p) <= Len(q) /\ SubSeq(p, 1, Len(p)) = SubSeq(q, 1, Len(p)) /\ Len(q) <= Len(p)
    BY <1>3 DEF IsPrefix
  <2>2. Len(p) = Len(q)
    <3>1. Len(p) \in Nat /\ Len(q) \in Nat BY <1>1
    <3>2. Len(p) <= Len(q) /\ Len(q) <= Len(p) BY <2>1
    <3> QED BY <3>1, <3>2
  <2> QED BY <1>1, <2>1, <2>2
<1>4. ASSUME IsPrefix(p, q), IsPrefix(q, r) PROVE IsPrefix(p, r)
  <2>1. PICK i \in 0..Len(q) : p = SubSeq(q, 1, i) BY <1>4, PrefixIs
  <2>2. PICK j \in 0..Len(r) : q = SubSeq(r, 1, j) BY <1>4, PrefixIs
  <2>3. Len(q) = j BY <2>2, PrefixFacts
  <2>4. i \in 0..j /\ i \in 0..Len(r) BY <1>1, <2>3
  <2>5. p = SubSeq(r, 1, i) BY <2>1, <2>2, <2>4, PrefixFacts
  <2> QED BY <2>4, <2>5, PrefixIs
<1> QED BY <1>2, <1>3, <1>4

\* Two paths one after the other.
LEMMA JoinedPath ==
  ASSUME NEW p, IsPath(p), NEW q, IsPath(q)
  PROVE  /\ IsPath(p \o q)
         /\ Len(p \o q) = Len(p) + Len(q)
         /\ \A i \in 0..Len(p) : SubSeq(p \o q, 1, i) = SubSeq(p, 1, i)
         /\ \A i \in Len(p)..(Len(p) + Len(q)) :
              SubSeq(p \o q, 1, i) = p \o SubSeq(q, 1, i - Len(p))
<1> DEFINE S == Range(p) \cup Range(q)
           r == p \o q
<1>1. p \in Seq(S) /\ q \in Seq(S)
  BY SeqMonotonic DEF IsPath
<1> HIDE DEF S
<1>2. /\ r \in Seq(S) /\ Len(r) = Len(p) + Len(q)
      /\ \A i \in 1..(Len(p) + Len(q)) : r[i] = IF i <= Len(p) THEN p[i] ELSE q[i - Len(p)]
  BY <1>1, ConcatProperties
<1>3. Len(p) \in Nat /\ Len(q) \in Nat BY <1>1
<1>4. ASSUME NEW i \in 0..Len(p) PROVE SubSeq(r, 1, i) = SubSeq(p, 1, i)
  <2>1. /\ SubSeq(r, 1, i) \in Seq(S) /\ Len(SubSeq(r, 1, i)) = i
        /\ SubSeq(p, 1, i) \in Seq(S) /\ Len(SubSeq(p, 1, i)) = i
    BY <1>1, <1>2, <1>3
  <2>2. \A k \in 1..i : SubSeq(r, 1, i)[k] = SubSeq(p, 1, i)[k]
    BY <1>1, <1>2, <1>3
  <2> QED BY <2>1, <2>2, SeqEqual
<1>5. ASSUME NEW i \in Len(p)..(Len(p) + Len(q))
      PROVE  SubSeq(r, 1, i) = p \o SubSeq(q, 1, i - Len(p))
  <2> DEFINE k == i - Len(p)
             s == SubSeq(q, 1, k)
  <2>1. k \in 0..Len(q) /\ i \in 0..Len(r) /\ i = Len(p) + k BY <1>2, <1>3
  <2>2. s \in Seq(S) /\ Len(s) = k /\ \A j \in 1..k : s[j] = q[j]
    BY <1>1, <1>3, <2>1
  <2>3. /\ p \o s \in Seq(S) /\ Len(p \o s) = Len(p) + k
        /\ \A j \in 1..(Len(p) + k) : (p \o s)[j] = IF j <= Len(p) THEN p[j] ELSE s[j - Len(p)]
    BY <1>1, <2>2, ConcatProperties
  <2>4. /\ SubSeq(r, 1, i) \in Seq(S) /\ Len(SubSeq(r, 1, i)) = i
        /\ \A j \in 1..i : SubSeq(r, 1, i)[j] = r[j]
    BY <1>2, <2>1
  <2>5. ASSUME NEW j \in 1..i PROVE SubSeq(r, 1, i)[j] = (p \o s)[j]
    <3>1. j \in 1..(Len(p) + Len(q)) /\ j \in 1..(Len(p) + k) BY <1>3, <2>1
    <3>2. j > Len(p) => s[j - Len(p)] = q[j - Len(p)] BY <1>3, <2>1, <2>2
    <3> HIDE DEF s, r, k
    <3> QED BY <1>2, <1>3, <2>3, <2>4, <3>1, <3>2
  <2>6. Len(SubSeq(r, 1, i)) = Len(p \o s) /\ Len(SubSeq(r, 1, i)) = i BY <2>1, <2>3, <2>4
  <2>7. \A j \in 1..Len(SubSeq(r, 1, i)) : SubSeq(r, 1, i)[j] = (p \o s)[j] BY <2>5, <2>6
  <2>8. SubSeq(r, 1, i) \in Seq(S) /\ p \o s \in Seq(S) BY <2>3, <2>4
  <2> HIDE DEF s, r
  <2>9. SubSeq(r, 1, i) = p \o s BY <2>6, <2>7, <2>8, SeqEqual
  <2> QED BY <2>9 DEF s, k
<1> QED BY <1>2, <1>4, <1>5, PathIf
\* What is behind a path, with the rest of it.
LEMMA SuffixPath ==
  ASSUME NEW p, IsPath(p), NEW i \in 0..Len(p), NEW j \in i..Len(p)
  PROVE  /\ IsPath(SubSeq(p, i + 1, j)) /\ Len(SubSeq(p, i + 1, j)) = j - i
         /\ SubSeq(p, 1, i) \o SubSeq(p, i + 1, j) = SubSeq(p, 1, j)
         /\ \A k \in i..j : SubSeq(SubSeq(p, i + 1, j), 1, k - i) = SubSeq(p, i + 1, k)
         /\ \A k \in 0..i : SubSeq(p, k + 1, i) \o SubSeq(p, i + 1, j) = SubSeq(p, k + 1, j)
         /\ \A k \in 0..i : SubSeq(SubSeq(p, 1, j), k + 1, j) = SubSeq(p, k + 1, j)
<1> DEFINE S == Range(p)
           q == SubSeq(p, i + 1, j)
<1>1. p \in Seq(S) BY DEF IsPath
<1> HIDE DEF S
<1>2. Len(p) \in Nat /\ q \in Seq(S) /\ Len(q) = j - i /\ \A k \in 1..(j - i) : q[k] = p[i + k]
  BY <1>1
<1> HIDE DEF q
<1>3. ASSUME NEW k \in 0..i
      PROVE  SubSeq(p, k + 1, i) \o SubSeq(p, i + 1, j) = SubSeq(p, k + 1, j)
  <2>1. CASE k + 1 \in 1..Len(p) + 1 /\ i \in k .. Len(p) /\ j \in i..Len(p)
    BY <1>1, <2>1, ConcatAdjacentSubSeq
  <2> QED BY <1>2, <2>1
<1>4. 0 \in 0..i BY <1>2
<1>5. SubSeq(p, 1, i) \o SubSeq(p, i + 1, j) = SubSeq(p, 1, j)
  BY <1>3, <1>4
<1>6. ASSUME NEW k \in i..j PROVE SubSeq(q, 1, k - i) = SubSeq(p, i + 1, k)
  <2>1. k - i \in 0..(j - i) /\ k \in 0..Len(p) BY <1>2
  <2>2. /\ SubSeq(q, 1, k - i) \in Seq(S) /\ Len(SubSeq(q, 1, k - i)) = k - i
        /\ SubSeq(p, i + 1, k) \in Seq(S) /\ Len(SubSeq(p, i + 1, k)) = k - i
    BY <1>1, <1>2, <2>1
  <2>3. \A n \in 1..(k - i) : SubSeq(q, 1, k - i)[n] = q[n]
    BY <1>2, <2>1
  <2>4. \A n \in 1..(k - i) : SubSeq(p, i + 1, k)[n] = p[i + n]
    BY <1>1, <1>2, <2>1
  <2>5. \A n \in 1..(k - i) : q[n] = p[i + n]
    <3>1. \A n \in 1..(k - i) : n \in 1..(j - i) BY <1>2, <2>1
    <3> QED BY <1>2, <3>1
  <2>6. \A n \in 1..(k - i) : SubSeq(q, 1, k - i)[n] = SubSeq(p, i + 1, k)[n]
    BY <2>3, <2>4, <2>5
  <2> QED BY <2>2, <2>6, SeqEqual
<1>7. ASSUME NEW k \in 0..i PROVE SubSeq(SubSeq(p, 1, j), k + 1, j) = SubSeq(p, k + 1, j)
  <2> DEFINE r == SubSeq(p, 1, j)
  <2>1. r \in Seq(S) /\ Len(r) = j /\ \A n \in 1..j : r[n] = p[n]
    BY <1>1, <1>2
  <2>2. /\ SubSeq(r, k + 1, j) \in Seq(S) /\ Len(SubSeq(r, k + 1, j)) = j - k
        /\ SubSeq(p, k + 1, j) \in Seq(S) /\ Len(SubSeq(p, k + 1, j)) = j - k
    BY <1>1, <1>2, <2>1
  <2>3. \A n \in 1..(j - k) : SubSeq(r, k + 1, j)[n] = r[k + n]
    BY <1>2, <2>1
  <2>4. \A n \in 1..(j - k) : SubSeq(p, k + 1, j)[n] = p[k + n]
    BY <1>1, <1>2
  <2>5. \A n \in 1..(j - k) : SubSeq(r, k + 1, j)[n] = SubSeq(p, k + 1, j)[n]
    BY <1>2, <2>1, <2>3, <2>4
  <2> QED BY <2>2, <2>5, SeqEqual
<1> QED BY <1>2, <1>3, <1>5, <1>6, <1>7, PathIf DEF q
----------------------------------------------------------------------------
(* Where paths lead *)

\* The induction over the prefixes of a path.
LEMMA UpTo ==
  ASSUME NEW N \in Nat, NEW S, 0 \in S, \A i \in 1..N : i - 1 \in S => i \in S
  PROVE  \A i \in 0..N : i \in S
<1> DEFINE R == {ss \in Nat \X Nat : ss[1] < ss[2]}
           T == {i \in 0..N : i \notin S}
<1>1. IsWellFoundedOn(R, Nat)
  BY NatLessThanWellFounded DEF OpToRel
<1> SUFFICES ASSUME T # {} PROVE FALSE
  OBVIOUS
<1>2. T \subseteq Nat OBVIOUS
<1>3. PICK n \in T : \A m \in T : <<m, n>> \notin R
  <2> HIDE DEF R, T
  <2> QED BY <1>1, <1>2, WFMin
<1>4. n \in 1..N /\ n - 1 \in 0..N /\ <<n - 1, n>> \in R OBVIOUS
<1>5. n - 1 \notin T BY <1>3, <1>4
<1> QED BY <1>4, <1>5

\* The last name of a prefix.
LEMMA PrefixEnd ==
  ASSUME NEW p, IsPath(p), NEW i \in 1..Len(p)
  PROVE  /\ Append(SubSeq(p, 1, i - 1), p[i]) = SubSeq(p, 1, i)
         /\ Front(SubSeq(p, 1, i)) = SubSeq(p, 1, i - 1)
         /\ Last(SubSeq(p, 1, i)) = p[i] /\ SubSeq(p, 1, i) # << >>
<1> DEFINE S == Range(p)
           q == SubSeq(p, 1, i)
           r == SubSeq(p, 1, i - 1)
<1>1. p \in Seq(S) BY DEF IsPath
<1> HIDE DEF S
<1>2. /\ Len(p) \in Nat /\ q \in Seq(S) /\ Len(q) = i /\ \A k \in 1..i : q[k] = p[k]
      /\ r \in Seq(S) /\ Len(r) = i - 1 /\ \A k \in 1..(i - 1) : r[k] = p[k]
  BY <1>1
<1>3. Append(r, p[i]) = q
  <2>1. p[i] \in S BY <1>1, <1>2
  <2>2. Append(r, p[i]) \in Seq(S) /\ Len(Append(r, p[i])) = i BY <1>2, <2>1
  <2>3. \A k \in 1..i : Append(r, p[i])[k] = q[k] BY <1>2, <2>1
  <2> HIDE DEF q, r
  <2> QED BY <1>2, <2>2, <2>3, SeqEqual
<1>4. Last(q) = p[i] /\ q # << >>
  <2>1. i \in 1..i /\ Len(q) # 0 BY <1>2
  <2> HIDE DEF q
  <2> QED BY <1>2, <2>1 DEF Last
<1>5. Front(q) = r
  <2>1. i - 1 \in 0..i /\ i \in 0..Len(p) BY <1>2
  <2>2. SubSeq(q, 1, i - 1) = r BY <2>1, PrefixFacts
  <2> QED BY <1>2, <2>2 DEF Front
<1> QED BY <1>3, <1>4, <1>5

\* One more name of a path.
Onward(t, f, name) ==
  IF IsLink(t, Append(f, name)) THEN t[Append(f, name)].to ELSE Append(f, name)

\* at is where the first n prefixes of a path lead.
Leads(t, p, n, at) ==
  at = [i \in 0..n |-> IF i = 0 THEN << >> ELSE Onward(t, at[i - 1], p[i])]

LEMMA LeadsOnce ==
  ASSUME NEW t, NEW p, NEW q, NEW m \in Nat, NEW n \in Nat, NEW k \in Nat, k <= m, k <= n,
         \A i \in 1..k : p[i] = q[i],
         NEW at, Leads(t, p, m, at), NEW bt, Leads(t, q, n, bt)
  PROVE  \A i \in 0..k : at[i] = bt[i]
<1> DEFINE S == {i \in 0..k : at[i] = bt[i]}
<1>1. /\ \A i \in 0..m : at[i] = IF i = 0 THEN << >> ELSE Onward(t, at[i - 1], p[i])
      /\ \A i \in 0..n : bt[i] = IF i = 0 THEN << >> ELSE Onward(t, bt[i - 1], q[i])
  BY DEF Leads
<1>2. \A i \in 0..k : i \in 0..m /\ i \in 0..n OBVIOUS
<1>3. 0 \in S BY <1>1, <1>2
<1>4. ASSUME NEW i \in 1..k, i - 1 \in S PROVE i \in S
  <2>1. i \in 0..k /\ i # 0 /\ at[i - 1] = bt[i - 1] BY <1>4
  <2>2. at[i] = Onward(t, at[i - 1], p[i]) /\ bt[i] = Onward(t, bt[i - 1], q[i])
    BY <1>1, <1>2, <2>1
  <2> QED BY <2>1, <2>2
<1> HIDE DEF S
<1>5. \A i \in 0..k : i \in S BY <1>3, <1>4, UpTo
<1> QED BY <1>5 DEF S

LEMMA LeadsExists ==
  ASSUME NEW t, NEW p, NEW N \in Nat
  PROVE  \E at : Leads(t, p, N, at)
<1> DEFINE S == {n \in 0..N : \E at : Leads(t, p, n, at)}
<1>1. 0 \in S
  <2> DEFINE at == [i \in 0..0 |-> << >>]
  <2>1. Leads(t, p, 0, at) BY DEF Leads
  <2> QED BY <2>1
<1>2. ASSUME NEW n \in 1..N, n - 1 \in S PROVE n \in S
  <2>1. PICK at : Leads(t, p, n - 1, at) BY <1>2
  <2>2. \A i \in 0..(n - 1) : at[i] = IF i = 0 THEN << >> ELSE Onward(t, at[i - 1], p[i])
    BY <2>1 DEF Leads
  <2> DEFINE bt == [i \in 0..n |-> IF i = n THEN Onward(t, at[n - 1], p[n]) ELSE at[i]]
  <2>3. \A i \in 0..(n - 1) : bt[i] = at[i] OBVIOUS
  <2>4. ASSUME NEW i \in 0..n
        PROVE  bt[i] = IF i = 0 THEN << >> ELSE Onward(t, bt[i - 1], p[i])
    <3>1. CASE i = n
      <4>1. bt[n] = Onward(t, at[n - 1], p[n]) OBVIOUS
      <4>2. bt[n - 1] = at[n - 1] /\ n # 0 BY <2>3
      <4> HIDE DEF bt
      <4> QED BY <3>1, <4>1, <4>2
    <3>2. CASE i # n
      <4>1. i \in 0..(n - 1) /\ (i # 0 => i - 1 \in 0..(n - 1)) BY <3>2
      <4> HIDE DEF bt
      <4> QED BY <2>2, <2>3, <4>1
    <3> QED BY <3>1, <3>2
  <2>5. bt = [i \in 0..n |-> bt[i]] OBVIOUS
  <2> HIDE DEF bt
  <2>6. Leads(t, p, n, bt) BY <2>4, <2>5 DEF Leads
  <2> QED BY <2>6
<1> HIDE DEF S
<1>3. N \in S BY <1>1, <1>2, UpTo
<1> QED BY <1>3 DEF S

LEMMA WalkLeads ==
  ASSUME NEW t, NEW p, Len(p) \in Nat
  PROVE  Leads(t, p, Len(p), Walk(Links(t), p))
<1> DEFINE links == Links(t)
<1>1. \A q : q \in DOMAIN links <=> IsLink(t, q) BY DEF Links, IsLink
<1>2. \A q \in DOMAIN links : links[q] = t[q].to BY DEF Links
<1> HIDE DEF links
<1>3. \A at : Leads(t, p, Len(p), at) <=>
        at = [i \in 0 .. Len(p) |->
               IF i = 0 THEN << >>
               ELSE LET q == Append(at[i - 1], p[i]) IN IF q \in DOMAIN links THEN links[q] ELSE q]
  <2> SUFFICES ASSUME NEW at PROVE
        Leads(t, p, Len(p), at) <=>
        at = [i \in 0 .. Len(p) |->
               IF i = 0 THEN << >>
               ELSE LET q == Append(at[i - 1], p[i]) IN IF q \in DOMAIN links THEN links[q] ELSE q]
    OBVIOUS
  <2>1. \A f, name : Onward(t, f, name) = LET q == Append(f, name) IN IF q \in DOMAIN links THEN links[q] ELSE q
    BY <1>1, <1>2 DEF Onward
  <2> QED BY <2>1 DEF Leads
<1>4. \E at : Leads(t, p, Len(p), at) BY LeadsExists
<1> QED BY <1>3, <1>4 DEF Walk, links

\* A link on the way leads elsewhere; where the prefixes of a path lead, name by name.
LEMMA FollowedStep ==
  ASSUME NEW t, NEW p, IsPath(p), NEW i \in 1..Len(p)
  PROVE  /\ Found(t, SubSeq(p, 1, i)) = Append(Followed(t, SubSeq(p, 1, i - 1)), p[i])
         /\ Followed(t, SubSeq(p, 1, i)) =
              IF IsLink(t, Found(t, SubSeq(p, 1, i))) THEN t[Found(t, SubSeq(p, 1, i))].to
              ELSE Found(t, SubSeq(p, 1, i))
<1> DEFINE q == SubSeq(p, 1, i)
           r == SubSeq(p, 1, i - 1)
           at == Walk(Links(t), q)
           bt == Walk(Links(t), r)
<1>1. Len(p) \in Nat BY WholePrefix
<1>2. i \in 0..Len(p) /\ i - 1 \in 0..Len(p) /\ i \in 1..i /\ i # 0 /\ i \in Nat /\ i - 1 \in Nat
      /\ i - 1 <= i /\ i - 1 <= i - 1 /\ i \in 0..i /\ i - 1 \in 0..(i - 1)
  BY <1>1
<1>3. IsPath(q) /\ IsPath(r) /\ Len(q) = i /\ Len(r) = i - 1 BY <1>2, PrefixFacts
<1>4. Append(r, p[i]) = q /\ Front(q) = r /\ Last(q) = p[i] /\ q # << >>
  BY PrefixEnd
<1>5. q[i] = p[i] /\ \A k \in 1..(i - 1) : q[k] = r[k]
  <2>1. p \in Seq(Range(p)) BY DEF IsPath
  <2>2. \A k \in 1..i : q[k] = p[k] BY <2>1, <1>1
  <2>3. \A k \in 1..(i - 1) : r[k] = p[k] BY <2>1, <1>1
  <2>4. \A k \in 1..(i - 1) : k \in 1..i BY <1>1
  <2> HIDE DEF q, r
  <2> QED BY <1>2, <2>2, <2>3, <2>4
<1>6. Followed(t, q) = at[i] /\ Followed(t, r) = bt[i - 1] BY <1>3 DEF Followed
<1> HIDE DEF q, r
<1>7. Leads(t, q, i, at) /\ Leads(t, r, i - 1, bt) BY <1>2, <1>3, WalkLeads
<1> HIDE DEF at, bt
<1>8. \A k \in 0..(i - 1) : at[k] = bt[k] BY <1>2, <1>5, <1>7, LeadsOnce
<1>9. at[i] = Onward(t, at[i - 1], q[i]) BY <1>2, <1>7 DEF Leads
<1>10. Followed(t, q) = Onward(t, Followed(t, r), p[i]) BY <1>2, <1>5, <1>6, <1>8, <1>9
<1>11. Found(t, q) = Append(Followed(t, r), p[i]) BY <1>4 DEF Found
<1> QED BY <1>10, <1>11 DEF Onward, q, r

LEMMA FollowedRoot ==
  ASSUME NEW t
  PROVE  Followed(t, << >>) = << >> /\ Found(t, << >>) = << >>
<1>1. Len(<< >>) = 0 /\ 0 \in Nat OBVIOUS
<1>2. Leads(t, << >>, 0, Walk(Links(t), << >>)) BY <1>1, WalkLeads
<1>3. 0 \in 0..0 OBVIOUS
<1>4. Walk(Links(t), << >>)[0] = << >> BY <1>2, <1>3 DEF Leads
<1> QED BY <1>1, <1>4 DEF Followed, Found

\* A path leads where the link of its name does, if it is the name of a link.
LEMMA FollowedIs ==
  ASSUME NEW t, IsTree(t), NEW p, IsPath(p)
  PROVE  Followed(t, p) = IF IsLink(t, Found(t, p)) THEN t[Found(t, p)].to ELSE Found(t, p)
<1>1. Len(p) \in Nat /\ SubSeq(p, 1, Len(p)) = p /\ (Len(p) = 0 => p = << >>) BY WholePrefix
<1>2. CASE Len(p) = 0
  <2>1. p = << >> /\ ~IsLink(t, << >>) BY <1>1, <1>2 DEF IsTree, IsLink
  <2> QED BY <2>1, FollowedRoot
<1>3. CASE Len(p) # 0
  <2>1. Len(p) \in 1..Len(p) BY <1>1, <1>3
  <2>2. PICK n \in 1..Len(p) : SubSeq(p, 1, n) = p BY <1>1, <2>1
  <2>3. Followed(t, SubSeq(p, 1, n)) =
          IF IsLink(t, Found(t, SubSeq(p, 1, n))) THEN t[Found(t, SubSeq(p, 1, n))].to
          ELSE Found(t, SubSeq(p, 1, n))
    BY FollowedStep
  <2> QED BY <2>2, <2>3
<1> QED BY <1>2, <1>3

LEMMA SameFollowed ==
  ASSUME NEW t, NEW u, SameLinks(t, u), NEW p
  PROVE  Followed(t, p) = Followed(u, p) /\ Found(t, p) = Found(u, p)
BY DEF SameLinks, Followed, Found

LEMMA IsLinkIs ==
  ASSUME NEW t, NEW u, SameLinks(t, u)
  PROVE  \A p : /\ IsLink(t, p) <=> IsLink(u, p)
                /\ IsLink(t, p) => t[p].to = u[p].to
<1>1. Links(t) = Links(u) BY DEF SameLinks
<1>2. \A v, p : (IsLink(v, p) <=> p \in DOMAIN Links(v)) /\ (IsLink(v, p) => v[p].to = Links(v)[p])
  BY DEF Links, IsLink
<1> QED BY <1>1, <1>2

\* The root is no link, and there is no link on the place a link leads to.
LEMMA LinkFacts ==
  ASSUME NEW t, IsTree(t), NEW q, IsLink(t, q)
  PROVE  /\ IsPath(q) /\ q # << >>
         /\ IsPath(t[q].to)
         /\ \A i \in 0..Len(t[q].to) : ~IsLink(t, SubSeq(t[q].to, 1, i))
<1>1. q \in DOMAIN t /\ t[q].kind = "link" BY DEF IsLink
<1>2. IsPath(q) /\ q # << >> BY <1>1 DEF IsTree
<1>3. IsPath(t[q].to) /\ \A i \in 1..Len(t[q].to) : ~IsLink(t, SubSeq(t[q].to, 1, i))
  BY <1>1 DEF IsTree
<1>4. Len(t[q].to) \in Nat /\ SubSeq(t[q].to, 1, 0) = << >> BY <1>3, WholePrefix
<1>5. ~IsLink(t, << >>) BY DEF IsTree, IsLink
<1>6. \A i \in 0..Len(t[q].to) : i = 0 \/ i \in 1..Len(t[q].to) BY <1>4
<1> QED BY <1>2, <1>3, <1>4, <1>5, <1>6

\* Where there is no link before the last name, that is the file of the path.
LEMMA FreeIs ==
  ASSUME NEW t, NEW p, IsPath(p),
         \A i \in 1..(Len(p) - 1) : ~IsLink(t, SubSeq(p, 1, i))
  PROVE  Found(t, p) = p /\ (IsTree(t) /\ ~IsLink(t, p) => Followed(t, p) = p)
<1> DEFINE S == {i \in 0..Len(p) : Found(t, SubSeq(p, 1, i)) = SubSeq(p, 1, i)}
<1>1. Len(p) \in Nat /\ SubSeq(p, 1, Len(p)) = p /\ SubSeq(p, 1, 0) = << >> BY WholePrefix
<1>2. 0 \in S
  <2>1. 0 \in 0..Len(p) BY <1>1
  <2> QED BY <1>1, <2>1, FollowedRoot
<1>3. ASSUME NEW i \in 1..Len(p), i - 1 \in S PROVE i \in S
  <2>1. Followed(t, SubSeq(p, 1, i - 1)) = SubSeq(p, 1, i - 1)
    <3>1. CASE i = 1
      <4>1. SubSeq(p, 1, i - 1) = << >> BY <1>1, <3>1
      <4> QED BY <4>1, FollowedRoot
    <3>2. CASE i # 1
      <4>1. i - 1 \in 1..Len(p) /\ i - 1 \in 1..(Len(p) - 1) BY <1>1, <3>2
      <4>2. PICK k \in 1..Len(p) : k = i - 1 BY <4>1
      <4>3. Found(t, SubSeq(p, 1, k)) = SubSeq(p, 1, k) /\ ~IsLink(t, SubSeq(p, 1, k))
        BY <1>3, <4>1, <4>2
      <4>4. Followed(t, SubSeq(p, 1, k)) = SubSeq(p, 1, k) BY <4>3, FollowedStep
      <4> QED BY <4>2, <4>4
    <3> QED BY <3>1, <3>2
  <2>2. Found(t, SubSeq(p, 1, i)) = Append(SubSeq(p, 1, i - 1), p[i]) BY <2>1, FollowedStep
  <2>3. Found(t, SubSeq(p, 1, i)) = SubSeq(p, 1, i) BY <2>2, PrefixEnd
  <2>4. i \in 0..Len(p) BY <1>1
  <2> QED BY <2>3, <2>4
<1>4. Found(t, p) = p
  <2> HIDE DEF S
  <2>1. \A i \in 0..Len(p) : i \in S BY <1>1, <1>2, <1>3, UpTo
  <2>2. Len(p) \in 0..Len(p) BY <1>1
  <2>3. Len(p) \in S BY <2>1, <2>2
  <2> QED BY <1>1, <2>3 DEF S
<1> QED BY <1>4, FollowedIs

\* There is no link on a path that was followed.
LEMMA FollowedFree ==
  ASSUME NEW t, IsTree(t), NEW p, IsPath(p)
  PROVE  /\ IsPath(Followed(t, p))
         /\ \A i \in 0..Len(Followed(t, p)) : ~IsLink(t, SubSeq(Followed(t, p), 1, i))
         /\ ~IsLink(t, Followed(t, p))
         /\ Followed(t, Followed(t, p)) = Followed(t, p)
<1> DEFINE free(f) == IsPath(f) /\ \A i \in 0..Len(f) : ~IsLink(t, SubSeq(f, 1, i))
           S == {i \in 0..Len(p) : free(Followed(t, SubSeq(p, 1, i)))}
           f == Followed(t, p)
<1>1. Len(p) \in Nat /\ SubSeq(p, 1, Len(p)) = p /\ SubSeq(p, 1, 0) = << >> BY WholePrefix
<1>2. 0 \in S
  <2>1. 0 \in 0..Len(p) BY <1>1
  <2>2. IsPath(<< >>) BY DEF IsTree
  <2>3. Len(<< >>) = 0 /\ SubSeq(<< >>, 1, 0) = << >> BY <2>2, WholePrefix
  <2>4. ~IsLink(t, << >>) BY DEF IsTree, IsLink
  <2>5. \A i \in 0..Len(<< >>) : i = 0 BY <2>3
  <2>6. free(<< >>) BY <2>2, <2>3, <2>4, <2>5
  <2> HIDE DEF free
  <2> QED BY <1>1, <2>1, <2>6, FollowedRoot
<1>3. ASSUME NEW i \in 1..Len(p), i - 1 \in S PROVE i \in S
  <2> DEFINE g == Followed(t, SubSeq(p, 1, i - 1))
             q == Append(g, p[i])
  <2>1. free(g) BY <1>3
  <2>2. i \in 0..Len(p) BY <1>1
  <2>3. Followed(t, SubSeq(p, 1, i)) = IF IsLink(t, q) THEN t[q].to ELSE q BY FollowedStep
  <2> HIDE DEF g
  <2>4. ASSUME IsLink(t, q) PROVE free(t[q].to) BY <2>4, LinkFacts
  <2>5. ASSUME ~IsLink(t, q) PROVE free(q)
    <3>1. /\ IsPath(q) /\ Len(q) = Len(g) + 1 /\ Len(g) \in Nat
          /\ \A k \in 0..Len(g) : SubSeq(q, 1, k) = SubSeq(g, 1, k)
          /\ SubSeq(q, 1, Len(q)) = q
      <4>1. g \in Seq(Range(g)) /\ p[i] \in {p[i]} BY <2>1 DEF IsPath
      <4>2. IsPath(<<p[i]>>) /\ Len(<<p[i]>>) = 1
        <5>1. <<p[i]>> \in Seq({p[i]}) /\ Len(<<p[i]>>) = 1 OBVIOUS
        <5> QED BY <5>1, PathIf
      <4>3. q = g \o <<p[i]>>
        <5> HIDE DEF q
        <5>1. Append(g, p[i]) = g \o <<p[i]>> BY <4>1, AppendIsConcat
        <5> QED BY <5>1 DEF q
      <4> HIDE DEF q
      <4>4. IsPath(q) /\ Len(q) = Len(g) + 1 /\ \A k \in 0..Len(g) : SubSeq(q, 1, k) = SubSeq(g, 1, k)
        BY <2>1, <4>2, <4>3, JoinedPath
      <4> QED BY <2>1, <4>4, WholePrefix
    <3> HIDE DEF q
    <3>2. \A k \in 0..Len(q) : k \in 0..Len(g) \/ k = Len(q) BY <3>1
    <3>3. \A k \in 0..Len(q) : ~IsLink(t, SubSeq(q, 1, k)) BY <2>1, <2>5, <3>1, <3>2
    <3> QED BY <3>1, <3>3
  <2> HIDE DEF q, free
  <2> QED BY <2>2, <2>3, <2>4, <2>5
<1>4. free(f)
  <2> HIDE DEF S, free
  <2>1. \A i \in 0..Len(p) : i \in S BY <1>1, <1>2, <1>3, UpTo
  <2>2. Len(p) \in 0..Len(p) BY <1>1
  <2>3. Len(p) \in S BY <2>1, <2>2
  <2> QED BY <1>1, <2>3 DEF S
<1> HIDE DEF S
<1>5. Len(f) \in Nat /\ SubSeq(f, 1, Len(f)) = f BY <1>4, WholePrefix
<1>6. Len(f) \in 0..Len(f) /\ \A i \in 1..(Len(f) - 1) : i \in 0..Len(f) BY <1>5
<1>7. ~IsLink(t, f) /\ \A i \in 1..(Len(f) - 1) : ~IsLink(t, SubSeq(f, 1, i)) BY <1>4, <1>5, <1>6
<1> HIDE DEF f
<1>8. IsPath(f) BY <1>4
<1>9. Followed(t, f) = f BY <1>7, <1>8, FreeIs
<1> QED BY <1>4, <1>7, <1>9 DEF f

\* What is in the tree is where its own path leads, or the link of that name.
LEMMA FollowedInTree ==
  ASSUME NEW t, IsTree(t), NEW p \in DOMAIN t
  PROVE  Found(t, p) = p /\ (~IsLink(t, p) => Followed(t, p) = p)
<1>1. IsPath(p) /\ \A i \in 0..(Len(p) - 1) : t[SubSeq(p, 1, i)].kind = "dir"
  BY DEF IsTree
<1>2. Len(p) \in Nat BY <1>1, WholePrefix
<1>3. \A i \in 1..(Len(p) - 1) : i \in 0..(Len(p) - 1) BY <1>2
<1>4. \A i \in 1..(Len(p) - 1) : ~IsLink(t, SubSeq(p, 1, i)) BY <1>1, <1>3 DEF IsLink
<1> QED BY <1>1, <1>4, FreeIs

\* A path leads on from where its prefix leads, if there is no link between.
LEMMA FollowedOn ==
  ASSUME NEW t, IsTree(t), NEW p, IsPath(p), NEW i \in 0..Len(p), NEW j \in i..Len(p),
         \A m \in (i + 1)..j : ~IsLink(t, Found(t, SubSeq(p, 1, m)))
  PROVE  Followed(t, SubSeq(p, 1, j)) = Followed(t, SubSeq(p, 1, i)) \o SubSeq(p, i + 1, j)
<1> DEFINE f == Followed(t, SubSeq(p, 1, i))
           rest(k) == SubSeq(p, i + 1, i + k)
           S == {k \in 0..(j - i) : Followed(t, SubSeq(p, 1, i + k)) = f \o rest(k)}
<1>1. Len(p) \in Nat BY WholePrefix
<1>2. IsPath(f)
  <2>1. IsPath(SubSeq(p, 1, i)) BY PrefixFacts
  <2> HIDE DEF S
  <2> QED BY <2>1, FollowedFree
<1>3. j - i \in Nat /\ 0 \in 0..(j - i) /\ i + 0 = i BY <1>1
<1>4. 0 \in S
  <2>1. i \in i..Len(p) BY <1>1
  <2>2. IsPath(rest(0)) /\ Len(rest(0)) = i - i BY <1>3, <2>1, SuffixPath
  <2>3. rest(0) = << >> BY <1>1, <2>2, WholePrefix
  <2>4. f \o << >> = f BY <1>2, ConcatEmptySeq DEF IsPath
  <2> HIDE DEF rest, f
  <2> QED BY <1>3, <2>3, <2>4 DEF f
<1>5. ASSUME NEW k \in 1..(j - i), k - 1 \in S PROVE k \in S
  <2> DEFINE n == i + k
  <2>1. n \in 1..Len(p) /\ n \in (i + 1)..j /\ n - 1 = i + (k - 1) /\ k \in 0..(j - i) /\ n - 1 \in i..Len(p)
        /\ n \in (n - 1)..Len(p) /\ n - 1 \in 0..Len(p) /\ i \in 0..(n - 1) /\ n - 1 + 1 = n /\ n \in i..Len(p)
    BY <1>1
  <2> HIDE DEF n
  <2>2. Followed(t, SubSeq(p, 1, n - 1)) = f \o SubSeq(p, i + 1, n - 1) BY <1>5, <2>1
  <2>3. Followed(t, SubSeq(p, 1, n)) = Append(Followed(t, SubSeq(p, 1, n - 1)), p[n])
    <3>1. ~IsLink(t, Found(t, SubSeq(p, 1, n))) BY <2>1
    <3> QED BY <2>1, <3>1, FollowedStep
  <2>4. Append(f \o SubSeq(p, i + 1, n - 1), p[n]) = f \o SubSeq(p, i + 1, n)
    <3> DEFINE s == SubSeq(p, i + 1, n - 1)
               e == SubSeq(p, n, n)
               T == Range(f) \cup Range(s) \cup Range(e)
    <3>1. IsPath(s) BY <2>1, SuffixPath
    <3>2. IsPath(e) /\ e = <<p[n]>>
      <4>1. p \in Seq(Range(p)) BY DEF IsPath
      <4>2. IsPath(e) /\ Len(e) = 1
        <5>1. n - (n - 1) = 1 BY <2>1
        <5>2. IsPath(SubSeq(p, n - 1 + 1, n)) /\ Len(SubSeq(p, n - 1 + 1, n)) = n - (n - 1)
          BY <2>1, SuffixPath
        <5> QED BY <2>1, <5>1, <5>2
      <4>3. e[1] = p[n] BY <1>1, <2>1, <4>1
      <4>4. e = <<p[n]>>
        <5> HIDE DEF e
        <5>1. e \in Seq(Range(e)) BY <4>2 DEF IsPath
        <5> QED BY <4>2, <4>3, <5>1
      <4> QED BY <4>2, <4>4
    <3>3. s \o e = SubSeq(p, i + 1, n)
      <4>1. \A m \in 0..(n - 1) : SubSeq(p, m + 1, n - 1) \o SubSeq(p, n - 1 + 1, n) = SubSeq(p, m + 1, n)
        BY <2>1, SuffixPath
      <4> QED BY <2>1, <4>1
    <3>4. f \in Seq(T) /\ s \in Seq(T) /\ e \in Seq(T)
      BY <1>2, <3>1, <3>2, SeqMonotonic DEF IsPath
    <3> HIDE DEF f, s, e, T
    <3>5. (f \o s) \o e = f \o (s \o e) BY <3>4, ConcatAssociative
    <3>6. f \o s \in Seq(T) BY <3>4
    <3>7. Append(f \o s, p[n]) = (f \o s) \o <<p[n]>> BY <3>6, AppendIsConcat
    <3> QED BY <3>2, <3>3, <3>5, <3>7 DEF s
  <2>5. Followed(t, SubSeq(p, 1, n)) = f \o SubSeq(p, i + 1, n) BY <2>2, <2>3, <2>4
  <2> HIDE DEF f
  <2> QED BY <2>1, <2>5 DEF n
<1> HIDE DEF S
<1>6. \A k \in 0..(j - i) : k \in S BY <1>3, <1>4, <1>5, UpTo
<1>7. j - i \in S BY <1>3, <1>6
<1>8. i + (j - i) = j BY <1>1
<1> HIDE DEF f
<1> QED BY <1>7, <1>8 DEF S, f
----------------------------------------------------------------------------
(* Nodes and trees *)

LEMMA MaxIn ==
  ASSUME NEW N \in Nat, NEW S, S \subseteq 0..N, S # {}
  PROVE  Max(S) \in S /\ \A m \in S : Max(S) >= m
<1> DEFINE R == {ss \in Nat \X Nat : ss[1] < ss[2]}
           T == {N - m : m \in S}
<1>1. IsWellFoundedOn(R, Nat)
  BY NatLessThanWellFounded DEF OpToRel
<1>2. T \subseteq Nat /\ T # {}
  <2>1. \A m \in S : N - m \in Nat OBVIOUS
  <2>2. PICK x \in S : TRUE OBVIOUS
  <2>3. N - x \in T OBVIOUS
  <2> QED BY <2>1, <2>3
<1>3. PICK n \in T : \A m \in T : <<m, n>> \notin R
  <2> HIDE DEF R, T
  <2> QED BY <1>1, <1>2, WFMin
<1>4. PICK x \in S : n = N - x OBVIOUS
<1>5. ASSUME NEW m \in S PROVE x >= m
  <2>1. N - m \in T /\ N - m \in Nat /\ n \in Nat OBVIOUS
  <2>2. ~(N - m < n)
    <3>1. <<N - m, n>> \notin R BY <1>3, <2>1
    <3> QED BY <2>1, <3>1
  <2> HIDE DEF R, T
  <2> QED BY <1>4, <2>1, <2>2
<1>6. \E y \in S : \A m \in S : y >= m BY <1>5
<1> QED BY <1>6 DEF Max

LEMMA NodeOps ==
  ASSUME NEW n, IsNode(n)
  PROVE  /\ \A m : /\ IsNode(Chmodded(n, m))
                   /\ Chmodded(n, m).kind = n.kind /\ Chmodded(n, m).to = n.to
                   /\ Chmodded(n, m).dev = n.dev
                   /\ Chmodded(n, m).uid = n.uid /\ Chmodded(n, m).gid = n.gid
                   /\ Chmodded(n, m).mode = IF m = KeepMode THEN n.mode ELSE m
         /\ \A u, g : /\ IsNode(Chowned(n, u, g))
                      /\ Chowned(n, u, g).kind = n.kind /\ Chowned(n, u, g).to = n.to
                      /\ Chowned(n, u, g).dev = n.dev /\ Chowned(n, u, g).mode = n.mode
                      /\ Chowned(n, u, g).uid = u /\ Chowned(n, u, g).gid = g
<1>1. ASSUME NEW m PROVE
         /\ IsNode(Chmodded(n, m))
         /\ Chmodded(n, m).kind = n.kind /\ Chmodded(n, m).to = n.to
         /\ Chmodded(n, m).dev = n.dev
         /\ Chmodded(n, m).uid = n.uid /\ Chmodded(n, m).gid = n.gid
         /\ Chmodded(n, m).mode = IF m = KeepMode THEN n.mode ELSE m
  <2>1. [n EXCEPT !.mode = m] \in
          [kind : Kinds, mode : {m}, uid : {n.uid}, gid : {n.gid}, dev : {n.dev}, to : {n.to}]
    BY DEF IsNode
  <2>2. [n EXCEPT !.mode = m].kind = n.kind BY DEF IsNode
  <2> QED BY <2>1, <2>2 DEF Chmodded, IsNode
<1>2. ASSUME NEW u, NEW g PROVE
         /\ IsNode(Chowned(n, u, g))
         /\ Chowned(n, u, g).kind = n.kind /\ Chowned(n, u, g).to = n.to
         /\ Chowned(n, u, g).dev = n.dev /\ Chowned(n, u, g).mode = n.mode
         /\ Chowned(n, u, g).uid = u /\ Chowned(n, u, g).gid = g
  <2>1. [n EXCEPT !.uid = u, !.gid = g] \in
          [kind : Kinds, mode : {n.mode}, uid : {u}, gid : {g}, dev : {n.dev}, to : {n.to}]
    BY DEF IsNode
  <2>2. [n EXCEPT !.uid = u, !.gid = g].kind = n.kind BY DEF IsNode
  <2> HIDE DEF IsNode
  <2> QED BY <2>1, <2>2 DEF Chowned, IsNode
<1> QED BY <1>1, <1>2

LEMMA OwnedNode ==
  ASSUME NEW n, IsNode(n), NEW l
  PROVE  /\ IsNode(Owned(n, l))
         /\ Owned(n, l).kind = n.kind /\ Owned(n, l).to = n.to /\ Owned(n, l).dev = n.dev
         /\ Owned(n, l).uid = Uid(l) /\ Owned(n, l).gid = Gid(l)
         /\ Owned(n, l).mode = IF l.mode = KeepMode THEN n.mode ELSE l.mode
<1> DEFINE c == Chowned(n, Uid(l), Gid(l))
<1>1. /\ IsNode(c) /\ c.kind = n.kind /\ c.to = n.to /\ c.dev = n.dev /\ c.mode = n.mode
      /\ c.uid = Uid(l) /\ c.gid = Gid(l)
  BY NodeOps
<1> HIDE DEF c
<1>2. Owned(n, l) = Chmodded(c, l.mode) BY DEF Owned, c
<1> QED BY <1>1, <1>2, NodeOps

LEMMA NewNodeIs ==
  ASSUME NEW k \in Kinds, NEW m, NEW d
  PROVE  /\ IsNode(NewNode(k, m)) /\ NewNode(k, m).kind = k /\ NewNode(k, m).to = << >>
         /\ NewNode(k, m).uid = 0 /\ NewNode(k, m).gid = 0
         /\ IsNode(MknodNode(k, m, d)) /\ MknodNode(k, m, d).kind = k
         /\ MknodNode(k, m, d).to = << >> /\ MknodNode(k, m, d).dev = d
<1> USE DEF IsNode
<1>1. MknodNode(k, m, d) = [kind |-> k, mode |-> m, uid |-> 0, gid |-> 0, dev |-> d, to |-> << >>]
  BY DEF MknodNode, NewNode
<1> QED BY <1>1 DEF NewNode

\* A tree that keeps its directories and links, and gets only new things in directories.
LEMMA GrownIf ==
  ASSUME NEW t, IsTree(t), NEW u, DOMAIN t \subseteq DOMAIN u,
         \A p \in DOMAIN u : IsNode(u[p]),
         \A p \in DOMAIN t : /\ t[p].kind = "dir" <=> u[p].kind = "dir"
                             /\ t[p].kind = "link" <=> u[p].kind = "link"
                             /\ t[p].kind = "link" => u[p].to = t[p].to,
         \A p \in DOMAIN u \ DOMAIN t :
           /\ IsPath(p) /\ u[p].kind # "link"
           /\ \A i \in 0..(Len(p) - 1) :
                SubSeq(p, 1, i) \in DOMAIN u /\ u[SubSeq(p, 1, i)].kind = "dir"
  PROVE  Grown(t, u)
<1>1. SameLinks(t, u)
  <2>1. {q \in DOMAIN t : t[q].kind = "link"} = {q \in DOMAIN u : u[q].kind = "link"} OBVIOUS
  <2>2. \A q \in {r \in DOMAIN t : t[r].kind = "link"} : t[q].to = u[q].to OBVIOUS
  <2> QED BY <2>1, <2>2 DEF SameLinks, Links
<1>2. << >> \in DOMAIN u /\ u[<< >>].kind = "dir" BY DEF IsTree
<1>3. ASSUME NEW p \in DOMAIN u
      PROVE  /\ IsPath(p) /\ IsNode(u[p])
             /\ \A i \in 0..(Len(p) - 1) :
                  SubSeq(p, 1, i) \in DOMAIN u /\ u[SubSeq(p, 1, i)].kind = "dir"
  <2>1. CASE p \in DOMAIN t
    <3>1. /\ IsPath(p)
          /\ \A i \in 0..(Len(p) - 1) :
               SubSeq(p, 1, i) \in DOMAIN t /\ t[SubSeq(p, 1, i)].kind = "dir"
      BY <2>1 DEF IsTree
    <3> QED BY <1>3, <3>1
  <2>2. CASE p \notin DOMAIN t BY <1>3, <2>2
  <2> QED BY <2>1, <2>2
<1>4. ASSUME NEW p \in DOMAIN u, IsLink(u, p)
      PROVE  IsPath(u[p].to) /\ \A i \in 1 .. Len(u[p].to) : ~IsLink(u, SubSeq(u[p].to, 1, i))
  <2>1. \A q : IsLink(t, q) <=> IsLink(u, q) BY <1>1, IsLinkIs
  <2>2. IsLink(t, p) /\ u[p].to = t[p].to BY <1>1, <1>4, IsLinkIs
  <2>3. IsPath(t[p].to) /\ \A i \in 1 .. Len(t[p].to) : ~IsLink(t, SubSeq(t[p].to, 1, i))
    BY <2>2 DEF IsTree, IsLink
  <2> QED BY <2>1, <2>2, <2>3
<1>5. IsTree(u) BY <1>2, <1>3, <1>4 DEF IsTree
<1> QED BY <1>1, <1>5 DEF Grown
----------------------------------------------------------------------------
(* What the lines do to a tree *)

LEMMA RootExists ==
  ASSUME NEW t, IsTree(t)
  PROVE  Exists(t, << >>) /\ Followed(t, << >>) = << >>
<1>1. << >> \in DOMAIN t /\ ~IsLink(t, << >>) BY DEF IsTree, IsLink
<1> QED BY <1>1, FollowedInTree DEF Exists

LEMMA ExistsIf ==
  ASSUME NEW t, IsTree(t), NEW p, IsPath(p)
  PROVE  /\ Followed(t, p) \in DOMAIN t => Exists(t, p)
         /\ ~Exists(t, p) => ~IsLink(t, Found(t, p)) /\ Followed(t, p) \notin DOMAIN t
BY FollowedIs DEF Exists, IsLink

LEMMA MadeDirectory ==
  ASSUME NEW t, IsTree(t), NEW p, IsPath(p), NEW m
  PROVE  LET made == MakeDirectory(t, p, m)
             f == Followed(t, p)
         IN  /\ Grown(t, made)
             /\ \A q \in DOMAIN t : made[q] = t[q]
             /\ \A q \in DOMAIN made \ DOMAIN t :
                  /\ IsPath(q) /\ IsPrefix(q, f) /\ made[q].kind = "dir"
                  /\ made[q].uid = 0 /\ made[q].gid = 0
             /\ f \in DOMAIN t => DOMAIN made = DOMAIN t
<1> DEFINE prefix(i) == SubSeq(p, 1, i)
           S == {i \in 0..Len(p) : Exists(t, prefix(i))}
           there == Max(S)
           new == IF IsDir(t, prefix(there)) THEN {Followed(t, prefix(i)) : i \in there + 1 .. Len(p)} ELSE {}
           given == IF m = KeepMode THEN 7777 ELSE m
           made == MakeDirectory(t, p, m)
           f == Followed(t, p)
           f0 == Followed(t, prefix(there))
<1>1. Len(p) \in Nat /\ prefix(0) = << >> /\ prefix(Len(p)) = p BY WholePrefix
<1>2. S \subseteq 0..Len(p) /\ 0 \in S
  <2>1. Exists(t, prefix(0)) BY <1>1, RootExists
  <2>2. 0 \in 0..Len(p) BY <1>1
  <2> QED BY <2>1, <2>2
<1>3. there \in S /\ \A i \in S : there >= i
  <2> HIDE DEF S
  <2> QED BY <1>1, <1>2, MaxIn
<1>4. there \in 0..Len(p) BY <1>3
<1>5. ASSUME NEW i \in there + 1 .. Len(p)
      PROVE  i \in 0..Len(p) /\ ~IsLink(t, Found(t, prefix(i))) /\ Followed(t, prefix(i)) \notin DOMAIN t
  <2>1. i \in 0..Len(p) /\ i > there BY <1>1, <1>4
  <2>2. ~(there >= i) BY <1>4, <2>1
  <2>3. i \notin S BY <1>3, <2>2
  <2>4. ~Exists(t, prefix(i)) BY <2>1, <2>3
  <2>5. IsPath(prefix(i)) BY <2>1, PrefixFacts
  <2> QED BY <2>1, <2>4, <2>5, ExistsIf
<1>6. /\ DOMAIN made = DOMAIN t \cup new
      /\ \A q \in DOMAIN t \cup new :
           made[q] = IF q \notin new THEN t[q] ELSE NewNode("dir", IF q = f THEN given ELSE 777)
  BY DEF MakeDirectory
<1> HIDE DEF made
<1>7. \A q \in new : \E i \in there + 1 .. Len(p) : q = Followed(t, prefix(i))
  OBVIOUS
<1>8. \A q \in new : q \notin DOMAIN t BY <1>5, <1>7
<1>9. \A q \in DOMAIN t : made[q] = t[q] BY <1>6, <1>8
<1>10. \A q \in new : \E x : made[q] = NewNode("dir", x)
  <2> HIDE DEF new
  <2> SUFFICES ASSUME NEW q \in new PROVE \E x : made[q] = NewNode("dir", x)
    OBVIOUS
  <2>1. made[q] = NewNode("dir", IF q = f THEN given ELSE 777) BY <1>6
  <2> HIDE DEF given, f
  <2> QED BY <2>1, Zenon
<1>11. \A q \in new : IsNode(made[q]) /\ made[q].kind = "dir" /\ made[q].uid = 0 /\ made[q].gid = 0
  <2>1. "dir" \in Kinds BY DEF Kinds
  <2> HIDE DEF new
  <2> QED BY <1>10, <2>1, NewNodeIs
<1>12. ASSUME IsDir(t, prefix(there)), NEW i \in there .. Len(p)
       PROVE  /\ Followed(t, prefix(i)) = f0 \o SubSeq(p, there + 1, i)
              /\ IsPath(SubSeq(p, there + 1, i)) /\ Len(SubSeq(p, there + 1, i)) = i - there
              /\ \A k \in there..i : SubSeq(SubSeq(p, there + 1, i), 1, k - there) = SubSeq(p, there + 1, k)
  <2>1. \A k \in (there + 1)..i : k \in there + 1 .. Len(p) BY <1>1, <1>4
  <2>2. \A k \in (there + 1)..i : ~IsLink(t, Found(t, prefix(k))) BY <1>5, <2>1
  <2> HIDE DEF there
  <2>3. Followed(t, prefix(i)) = f0 \o SubSeq(p, there + 1, i) BY <1>4, <2>2, FollowedOn
  <2> QED BY <1>4, <2>3, SuffixPath
<1>13. ASSUME IsDir(t, prefix(there))
       PROVE  /\ f0 \in DOMAIN t /\ t[f0].kind = "dir" /\ IsPath(f0)
              /\ \A n \in 0..Len(f0) : SubSeq(f0, 1, n) \in DOMAIN t /\ t[SubSeq(f0, 1, n)].kind = "dir"
  <2>1. f0 \in DOMAIN t /\ t[f0].kind = "dir" BY <1>13 DEF IsDir, Stat
  <2>2. /\ IsPath(f0)
        /\ \A n \in 0..(Len(f0) - 1) : SubSeq(f0, 1, n) \in DOMAIN t /\ t[SubSeq(f0, 1, n)].kind = "dir"
    BY <2>1 DEF IsTree
  <2>3. Len(f0) \in Nat /\ SubSeq(f0, 1, Len(f0)) = f0 BY <2>2, WholePrefix
  <2> HIDE DEF f0
  <2>4. \A n \in 0..Len(f0) : n \in 0..(Len(f0) - 1) \/ n = Len(f0)
    <3>1. Len(f0) \in Nat BY <2>3
    <3> QED BY <3>1
  <2> QED BY <2>1, <2>2, <2>3, <2>4
<1>14. ASSUME NEW q \in new
       PROVE  /\ IsPath(q) /\ IsPrefix(q, f)
              /\ \A n \in 0..(Len(q) - 1) : SubSeq(q, 1, n) \in DOMAIN made /\ made[SubSeq(q, 1, n)].kind = "dir"
  <2>1. IsDir(t, prefix(there)) OBVIOUS
  <2>2. PICK i \in there + 1 .. Len(p) : q = Followed(t, prefix(i)) BY <1>7
  <2>3. i \in there .. Len(p) /\ Len(p) \in there .. Len(p) /\ i \in 0..Len(p) BY <1>1, <1>4
  <2> DEFINE rest == SubSeq(p, there + 1, i)
             whole == SubSeq(p, there + 1, Len(p))
  <2>4. /\ q = f0 \o rest /\ IsPath(rest) /\ Len(rest) = i - there
        /\ \A k \in there..i : SubSeq(rest, 1, k - there) = SubSeq(p, there + 1, k)
    BY <1>12, <2>1, <2>2, <2>3
  <2>5. /\ f = f0 \o whole /\ IsPath(whole) /\ Len(whole) = Len(p) - there
        /\ SubSeq(whole, 1, i - there) = rest
    BY <1>1, <1>12, <2>1, <2>3
  <2>6. /\ IsPath(f0) /\ Len(f0) \in Nat
        /\ \A n \in 0..Len(f0) : SubSeq(f0, 1, n) \in DOMAIN made /\ made[SubSeq(f0, 1, n)].kind = "dir"
    <3>1. /\ IsPath(f0)
          /\ \A n \in 0..Len(f0) : SubSeq(f0, 1, n) \in DOMAIN t /\ t[SubSeq(f0, 1, n)].kind = "dir"
      BY <1>13, <2>1
    <3>2. Len(f0) \in Nat BY <3>1, WholePrefix
    <3> HIDE DEF f0, new
    <3> QED BY <1>6, <1>9, <3>1, <3>2
  <2>7. \A k \in there + 1 .. Len(p) :
          Followed(t, prefix(k)) \in DOMAIN made /\ made[Followed(t, prefix(k))].kind = "dir"
    <3>1. \A k \in there + 1 .. Len(p) : Followed(t, prefix(k)) \in new BY <2>1
    <3> HIDE DEF new
    <3> QED BY <1>6, <1>11, <3>1
  <2>8. \A k \in there + 1 .. i : Followed(t, prefix(k)) = f0 \o SubSeq(p, there + 1, k)
    <3>1. \A k \in there + 1 .. i : k \in there..Len(p) BY <1>1, <1>4
    <3> QED BY <1>12, <2>1, <3>1
  <2>9. Len(p) \in Nat /\ i \in Nat /\ there \in Nat /\ there < i /\ i <= Len(p) BY <1>1, <1>4
  <2> HIDE DEF rest, whole, f0, new, there, f, prefix
  <2>10. /\ IsPath(q) /\ Len(q) = Len(f0) + (i - there)
         /\ \A n \in 0..Len(f0) : SubSeq(q, 1, n) = SubSeq(f0, 1, n)
         /\ \A n \in Len(f0)..(Len(f0) + (i - there)) : SubSeq(q, 1, n) = f0 \o SubSeq(rest, 1, n - Len(f0))
    BY <2>4, <2>6, JoinedPath
  <2>11. /\ IsPath(f)
         /\ \A n \in Len(f0)..(Len(f0) + (Len(p) - there)) : SubSeq(f, 1, n) = f0 \o SubSeq(whole, 1, n - Len(f0))
         /\ Len(f) = Len(f0) + (Len(p) - there)
    BY <2>5, <2>6, JoinedPath
  <2>12. IsPrefix(q, f)
    <3> DEFINE n == Len(f0) + (i - there)
    <3>1. n \in Len(f0)..(Len(f0) + (Len(p) - there)) /\ n - Len(f0) = i - there BY <2>6, <2>9
    <3>2. SubSeq(f, 1, n) = f0 \o rest BY <2>5, <2>11, <3>1
    <3>3. n \in 0..Len(f) BY <2>6, <2>9, <2>11
    <3> HIDE DEF n
    <3> QED BY <2>4, <2>10, <2>11, <3>2, <3>3, PrefixIs
  <2>13. ASSUME NEW n \in 0..(Len(q) - 1)
         PROVE  SubSeq(q, 1, n) \in DOMAIN made /\ made[SubSeq(q, 1, n)].kind = "dir"
    <3>0. Len(q) = Len(f0) + (i - there) /\ Len(f0) \in Nat BY <2>6, <2>10
    <3>1. CASE n <= Len(f0)
      <4>1. n \in 0..Len(f0) BY <3>0, <3>1, <2>9
      <4> QED BY <2>6, <2>10, <4>1
    <3>2. CASE n > Len(f0)
      <4> DEFINE k == there + (n - Len(f0))
      <4>1. /\ k \in there + 1 .. i /\ k \in there..i /\ k \in there + 1 .. Len(p) /\ k - there = n - Len(f0)
            /\ n \in Len(f0)..(Len(f0) + (i - there))
        BY <3>0, <3>2, <2>9
      <4> HIDE DEF k
      <4>2. SubSeq(q, 1, n) = f0 \o SubSeq(rest, 1, k - there) BY <2>10, <4>1
      <4>3. SubSeq(rest, 1, k - there) = SubSeq(p, there + 1, k) BY <2>4, <4>1
      <4>4. SubSeq(q, 1, n) = Followed(t, prefix(k)) BY <2>8, <4>1, <4>2, <4>3
      <4> QED BY <2>7, <4>1, <4>4
    <3> QED BY <3>0, <3>1, <3>2, <2>9
  <2> QED BY <2>10, <2>12, <2>13
<1>15. f \in DOMAIN t => DOMAIN made = DOMAIN t
  <2> SUFFICES ASSUME f \in DOMAIN t PROVE new = {}
    <3> HIDE DEF new
    <3> QED BY <1>6
  <2>1. Exists(t, prefix(Len(p))) BY <1>1, ExistsIf
  <2>2. Len(p) \in S BY <1>1, <2>1
  <2>3. there >= Len(p) BY <1>3, <2>2
  <2>4. \A i \in there + 1 .. Len(p) : FALSE BY <1>1, <1>4, <2>3
  <2> QED BY <2>4
<1> HIDE DEF new, f, f0, there, S, prefix
<1>16. Grown(t, made)
  <2>1. DOMAIN t \subseteq DOMAIN made BY <1>6
  <2>2. \A q \in DOMAIN made : IsNode(made[q]) BY <1>6, <1>9, <1>11 DEF IsTree
  <2>3. \A q \in DOMAIN made \ DOMAIN t : q \in new BY <1>6
  <2>4. \A q \in DOMAIN made \ DOMAIN t :
          /\ IsPath(q) /\ made[q].kind # "link"
          /\ \A n \in 0..(Len(q) - 1) : SubSeq(q, 1, n) \in DOMAIN made /\ made[SubSeq(q, 1, n)].kind = "dir"
    BY <1>11, <1>14, <2>3
  <2> QED BY <1>9, <2>1, <2>2, <2>4, GrownIf
<1>17. \A q \in DOMAIN made \ DOMAIN t :
          /\ IsPath(q) /\ IsPrefix(q, f) /\ made[q].kind = "dir"
          /\ made[q].uid = 0 /\ made[q].gid = 0
  BY <1>6, <1>11, <1>14
<1> QED BY <1>9, <1>15, <1>16, <1>17 DEF made, f
LEMMA FileIs ==
  ASSUME NEW t, IsTree(t), NEW p
  PROVE  /\ p \in Files(t) <=> p \in DOMAIN t /\ ~IsLink(t, p)
         /\ p \in Files(t) => IsPath(p) /\ Followed(t, p) = p /\ Found(t, p) = p
<1>1. p \in Files(t) <=> p \in DOMAIN t /\ ~IsLink(t, p) BY DEF Files, IsLink
<1>2. p \in DOMAIN t => IsPath(p) BY DEF IsTree
<1> QED BY <1>1, <1>2, FollowedInTree

LEMMA GrownFacts ==
  ASSUME NEW t, IsTree(t), NEW u, Grown(t, u)
  PROVE  /\ IsTree(u) /\ DOMAIN t \subseteq DOMAIN u
         /\ \A p : /\ IsLink(t, p) <=> IsLink(u, p)
                   /\ Followed(t, p) = Followed(u, p) /\ Found(t, p) = Found(u, p)
         /\ Files(t) \subseteq Files(u)
         /\ \A p \in DOMAIN u \ DOMAIN t : p \in Files(u)
         /\ \A p \in Files(u) : p \in DOMAIN t => p \in Files(t)
<1>1. IsTree(u) /\ DOMAIN t \subseteq DOMAIN u /\ SameLinks(t, u) BY DEF Grown
<1>2. \A p : IsLink(t, p) <=> IsLink(u, p) BY <1>1, IsLinkIs
<1>3. \A p : Followed(t, p) = Followed(u, p) /\ Found(t, p) = Found(u, p)
  BY <1>1, SameFollowed
<1>4. \A p \in DOMAIN u \ DOMAIN t : ~IsLink(t, p) BY DEF IsLink
<1> QED BY <1>1, <1>2, <1>3, <1>4, FileIs

LEMMA SameTree ==
  ASSUME NEW t, IsTree(t)
  PROVE  SameFiles(t, t)
BY DEF SameFiles, Grown, SameLinks

LEMMA GrownOn ==
  ASSUME NEW t, IsTree(t), NEW u, Grown(t, u), NEW v, Grown(u, v)
  PROVE  Grown(t, v) /\ (SameFiles(t, u) /\ SameFiles(u, v) => SameFiles(t, v))
<1>1. SameLinks(t, v) BY DEF Grown, SameLinks
<1>2. \A p \in DOMAIN t : t[p].kind = "dir" <=> v[p].kind = "dir" BY DEF Grown
<1>3. IsTree(v) /\ DOMAIN t \subseteq DOMAIN v BY DEF Grown
<1>4. Grown(t, v) BY <1>1, <1>2, <1>3 DEF Grown
<1> QED BY <1>4 DEF SameFiles

LEMMA OwnedTree ==
  ASSUME NEW t, IsTree(t), NEW ps, NEW l
  PROVE  LET u == OwnAll(t, ps, l)
         IN  /\ SameFiles(t, u)
             /\ \A q \in DOMAIN t :
                  IF \E p \in ps : Followed(t, p) = q
                  THEN /\ u[q].kind = t[q].kind /\ u[q].to = t[q].to /\ u[q].dev = t[q].dev
                       /\ u[q].uid = Uid(l) /\ u[q].gid = Gid(l)
                       /\ u[q].mode = IF l.mode = KeepMode THEN t[q].mode ELSE l.mode
                  ELSE u[q] = t[q]
<1> DEFINE u == OwnAll(t, ps, l)
           At(q) == \E p \in ps : Followed(t, p) = q
<1>1. DOMAIN u = DOMAIN t /\ \A q \in DOMAIN t : u[q] = IF At(q) THEN Owned(t[q], l) ELSE t[q]
  BY DEF OwnAll
<1> HIDE DEF u, At
<1>2. \A q \in DOMAIN t : IsNode(t[q]) BY DEF IsTree
<1>3. \A q \in DOMAIN t :
        /\ IsNode(u[q])
        /\ u[q].kind = t[q].kind /\ u[q].to = t[q].to /\ u[q].dev = t[q].dev
        /\ At(q) => /\ u[q].uid = Uid(l) /\ u[q].gid = Gid(l)
                    /\ u[q].mode = IF l.mode = KeepMode THEN t[q].mode ELSE l.mode
        /\ ~At(q) => u[q] = t[q]
  BY <1>1, <1>2, OwnedNode
<1>4. Grown(t, u) BY <1>1, <1>3, GrownIf
<1>5. SameFiles(t, u) BY <1>1, <1>4 DEF SameFiles
<1> QED BY <1>3, <1>5 DEF u, At
LEMMA BatchNamePath ==
  ASSUME NEW l, IsPath(l.name), NEW n
  PROVE  IsPath(BatchName(l, n)) /\ NodeName(l, n) = BatchName(l, n)
<1>1. NodeName(l, n) = BatchName(l, n) BY DEF NodeName, BatchName
<1>2. ASSUME NEW k PROVE IsPath(Numbered(l.name, k))
  <2> DEFINE x == Last(l.name) \o Digits[k]
             f == Front(l.name)
  <2>1. IsPath(f)
    <3>1. Len(l.name) \in Nat BY WholePrefix
    <3>2. CASE Len(l.name) = 0
      <4>1. f = << >> BY <3>2, SubSeqEmpty DEF Front
      <4>2. << >> \in Seq({}) OBVIOUS
      <4> QED BY <4>1, <4>2, PathIf
    <3>3. CASE Len(l.name) # 0
      <4>1. Len(l.name) - 1 \in 0..Len(l.name) BY <3>1, <3>3
      <4> QED BY <4>1, PrefixFacts DEF Front
    <3> QED BY <3>2, <3>3
  <2>2. << x >> \in Seq({x}) OBVIOUS
  <2>3. IsPath(<< x >>) BY <2>2, PathIf
  <2>4. Numbered(l.name, k) = f \o << x >> BY DEF Numbered
  <2> HIDE DEF f, x
  <2> QED BY <2>1, <2>3, <2>4, JoinedPath
<1> QED BY <1>1, <1>2 DEF BatchName

\* A node can only be made in a directory, in the place of what is none.
LEMMA NodePlace ==
  ASSUME NEW t, IsTree(t), NEW p, IsPath(p), CanMknod(t, p)
  PROVE  LET q == Followed(t, p)
         IN  /\ IsPath(q) /\ ~IsLink(t, q)
             /\ q \in DOMAIN t => t[q].kind # "dir" /\ t[q].kind # "link"
             /\ \A i \in 0..(Len(q) - 1) :
                  SubSeq(q, 1, i) \in DOMAIN t /\ t[SubSeq(q, 1, i)].kind = "dir"
<1> DEFINE q == Followed(t, p)
           f == Front(q)
<1>1. /\ IsPath(q) /\ ~IsLink(t, q) /\ Followed(t, q) = q
      /\ \A i \in 0..Len(q) : ~IsLink(t, SubSeq(q, 1, i))
  BY FollowedFree
<1>2. q \in DOMAIN t => t[q].kind # "dir" /\ t[q].kind # "link"
  BY <1>1 DEF CanMknod, IsDir, Stat, IsLink
<1>3. q # << >> BY <1>2 DEF IsTree
<1>4. Len(q) \in Nat /\ (Len(q) = 0 => q = << >>) BY <1>1, WholePrefix
<1> HIDE DEF q
<1>5. Len(q) - 1 \in 0..Len(q) BY <1>3, <1>4
<1>6. f = SubSeq(q, 1, Len(q) - 1) BY DEF Front
<1>7. /\ IsPath(f) /\ Len(f) = Len(q) - 1
      /\ \A i \in 0..(Len(q) - 1) : SubSeq(f, 1, i) = SubSeq(q, 1, i)
  BY <1>1, <1>5, <1>6, PrefixFacts
<1> HIDE DEF f
<1>8. \A i \in 1..Len(f) : ~IsLink(t, SubSeq(f, 1, i))
  <2>1. \A i \in 1..Len(f) : i \in 0..(Len(q) - 1) /\ i \in 0..Len(q) BY <1>4, <1>7
  <2> QED BY <1>1, <1>7, <2>1
<1>9. Len(f) \in Nat /\ (Len(f) = 0 => f = << >>) /\ SubSeq(f, 1, Len(f)) = f BY <1>7, WholePrefix
<1>10. Followed(t, f) = f
  <2>1. \A i \in 1..(Len(f) - 1) : i \in 1..Len(f) BY <1>9
  <2>2. ~IsLink(t, f)
    <3>1. CASE Len(f) = 0 BY <1>9, <3>1 DEF IsTree, IsLink
    <3>2. CASE Len(f) # 0
      <4>1. Len(f) \in 1..Len(f) BY <1>9, <3>2
      <4> QED BY <1>8, <1>9, <4>1
    <3> QED BY <3>1, <3>2
  <2> QED BY <1>7, <1>8, <2>1, <2>2, FreeIs
<1>11. f \in DOMAIN t /\ t[f].kind = "dir"
  BY <1>10 DEF CanMknod, IsDir, Stat, q, f
<1>12. \A i \in 0..(Len(f) - 1) : SubSeq(f, 1, i) \in DOMAIN t /\ t[SubSeq(f, 1, i)].kind = "dir"
  BY <1>11 DEF IsTree
<1>13. \A i \in 0..(Len(q) - 1) : i \in 0..(Len(f) - 1) \/ i = Len(q) - 1 BY <1>4, <1>7
<1>14. \A i \in 0..(Len(q) - 1) : SubSeq(q, 1, i) \in DOMAIN t /\ t[SubSeq(q, 1, i)].kind = "dir"
  BY <1>6, <1>7, <1>11, <1>12, <1>13
<1> QED BY <1>1, <1>2, <1>14 DEF q

LEMMA NodeTree ==
  ASSUME NEW t, IsTree(t), NEW l, IsPath(l.name), l.type \in DOMAIN Special,
         l.mode # KeepMode, NEW o \in NodeLine(t, l)
  PROVE  LET u == o.tree
         IN  /\ Grown(t, u)
             /\ o.ok => /\ \A n \in Batch(l) : CanMknod(t, BatchName(l, n))
                        /\ DOMAIN u = DOMAIN t \cup {Place(t, l, n) : n \in Batch(l)}
                        /\ \A q \in DOMAIN u :
                             IF \E n \in Batch(l) : Place(t, l, n) = q
                             THEN /\ u[q].kind = Special[l.type] /\ u[q].to = << >>
                                  /\ u[q].dev = BatchDev(l, LastCopy(t, l, q))
                                  /\ u[q].uid = Uid(l) /\ u[q].gid = Gid(l)
                                  /\ u[q].mode = l.mode
                             ELSE u[q] = t[q]
             /\ (\A n \in Batch(l) : CanMknod(t, BatchName(l, n))) => o.ok
<1> DEFINE place(n) == Followed(t, BatchName(l, n))
           all == 0 .. (Copies(l) - 1)
           made == {n \in all : CanMknod(t, BatchName(l, n))}
           last(q) == Max({n \in made : place(n) = q})
           node(q) == Owned(MknodNode(Special[l.type], l.mode, BatchDev(l, last(q))), l)
           places == {place(n) : n \in made}
           u == o.tree
<1>1. o = Outcome([q \in DOMAIN t \cup {place(n) : n \in made} |->
                  IF q \in {place(n) : n \in made} THEN node(q)
                  ELSE IF q \in {place(n) : n \in all} THEN Chmodded(t[q], l.mode)
                  ELSE t[q]],
               made = all)
  BY DEF NodeLine
<1>2. /\ DOMAIN u = DOMAIN t \cup places
      /\ \A q \in places : u[q] = node(q)
      /\ \A q \in DOMAIN t \ places : u[q] = t[q] \/ u[q] = Chmodded(t[q], l.mode)
      /\ \A q \in DOMAIN t \ places : q \notin {place(n) : n \in all} => u[q] = t[q]
      /\ o.ok <=> made = all
  BY <1>1 DEF Outcome
<1>3. \A q \in places : \E n \in made : q = place(n) OBVIOUS
<1> HIDE DEF u
<1>4. ASSUME NEW q \in places
      PROVE  /\ IsPath(q) /\ ~IsLink(t, q)
             /\ q \in DOMAIN t => t[q].kind # "dir" /\ t[q].kind # "link"
             /\ \A i \in 0..(Len(q) - 1) :
                  SubSeq(q, 1, i) \in DOMAIN t /\ t[SubSeq(q, 1, i)].kind = "dir"
  <2>1. PICK n \in made : q = place(n) BY <1>3
  <2>2. CanMknod(t, BatchName(l, n)) /\ IsPath(BatchName(l, n)) BY BatchNamePath
  <2> QED BY <2>1, <2>2, NodePlace
<1>5. Special[l.type] \in Kinds \ {"dir", "link", "file"} BY DEF Special, Kinds
<1>6. ASSUME NEW q \in places
      PROVE  /\ IsNode(u[q]) /\ u[q].kind = Special[l.type] /\ u[q].to = << >>
             /\ u[q].dev = BatchDev(l, last(q))
             /\ u[q].uid = Uid(l) /\ u[q].gid = Gid(l) /\ u[q].mode = l.mode
  <2> DEFINE m == MknodNode(Special[l.type], l.mode, BatchDev(l, last(q)))
  <2>1. u[q] = Owned(m, l) BY <1>2
  <2>2. IsNode(m) /\ m.kind = Special[l.type] /\ m.to = << >> /\ m.dev = BatchDev(l, last(q))
    BY <1>5, NewNodeIs
  <2> HIDE DEF m, last
  <2> QED BY <2>1, <2>2, OwnedNode
<1>7. ASSUME NEW q \in DOMAIN t \ places
      PROVE  IsNode(u[q]) /\ u[q].kind = t[q].kind /\ u[q].to = t[q].to
  <2>1. IsNode(t[q]) BY DEF IsTree
  <2>2. u[q] = t[q] \/ u[q] = Chmodded(t[q], l.mode) BY <1>2
  <2> HIDE DEF places
  <2> QED BY <2>1, <2>2, NodeOps
<1> HIDE DEF places
<1>8. Grown(t, u)
  <2>1. DOMAIN t \subseteq DOMAIN u BY <1>2
  <2>2. \A p \in DOMAIN u : IsNode(u[p]) BY <1>2, <1>6, <1>7
  <2>3. ASSUME NEW p \in DOMAIN t
        PROVE  /\ t[p].kind = "dir" <=> u[p].kind = "dir"
               /\ t[p].kind = "link" <=> u[p].kind = "link"
               /\ t[p].kind = "link" => u[p].to = t[p].to
    <3>1. CASE p \in places BY <1>4, <1>5, <1>6, <3>1
    <3>2. CASE p \notin places BY <1>7, <3>2
    <3> QED BY <3>1, <3>2
  <2>4. ASSUME NEW p \in DOMAIN u \ DOMAIN t
        PROVE  /\ IsPath(p) /\ u[p].kind # "link"
               /\ \A i \in 0..(Len(p) - 1) : SubSeq(p, 1, i) \in DOMAIN u /\ u[SubSeq(p, 1, i)].kind = "dir"
    <3>1. p \in places BY <1>2, <2>4
    <3>2. /\ IsPath(p)
          /\ \A i \in 0..(Len(p) - 1) : SubSeq(p, 1, i) \in DOMAIN t /\ t[SubSeq(p, 1, i)].kind = "dir"
      BY <1>4, <3>1
    <3> QED BY <1>5, <1>6, <2>1, <2>3, <3>1, <3>2
  <2> QED BY <2>1, <2>2, <2>3, <2>4, GrownIf
<1>9. ASSUME o.ok
      PROVE  /\ \A n \in Batch(l) : CanMknod(t, BatchName(l, n))
             /\ DOMAIN u = DOMAIN t \cup {Place(t, l, n) : n \in Batch(l)}
             /\ \A q \in DOMAIN u :
                  IF \E n \in Batch(l) : Place(t, l, n) = q
                  THEN /\ u[q].kind = Special[l.type] /\ u[q].to = << >>
                       /\ u[q].dev = BatchDev(l, LastCopy(t, l, q))
                       /\ u[q].uid = Uid(l) /\ u[q].gid = Gid(l)
                       /\ u[q].mode = l.mode
                  ELSE u[q] = t[q]
  <2>1. made = all /\ all = Batch(l) BY <1>2, <1>9 DEF Batch
  <2>2. \A n \in Batch(l) : CanMknod(t, BatchName(l, n)) BY <2>1
  <2>3. places = {Place(t, l, n) : n \in Batch(l)} BY <2>1 DEF places, Place
  <2>4. \A q : last(q) = LastCopy(t, l, q) BY <2>1 DEF LastCopy, Place
  <2>5. {place(n) : n \in all} = places BY <2>1 DEF places
  <2>6. \A q : q \in places <=> \E n \in Batch(l) : Place(t, l, n) = q BY <2>3
  <2> HIDE DEF last, place, made, all
  <2> QED BY <1>2, <1>6, <2>2, <2>3, <2>4, <2>5, <2>6
<1>10. (\A n \in Batch(l) : CanMknod(t, BatchName(l, n))) => o.ok
  BY <1>2 DEF Batch
<1> QED BY <1>8, <1>9, <1>10 DEF u
(***************************************************************************)
(* What a line that succeeded did to the tree t: the files it is about got *)
(* what it says, and only a directory line makes others, the directories   *)
(* above the one it names.                                                 *)
(***************************************************************************)
Made(t, u, l) ==
  /\ l.type = "d" => Followed(u, l.name) \in DOMAIN u
  /\ l.type = "f" => LET f == Followed(u, l.name) IN f \in DOMAIN t /\ t[f].kind = "file"
  /\ l.type = "r" =>
       /\ Found(u, l.name) \in DOMAIN u
       /\ \A q \in Walked(u, l.name) : Followed(u, q) \in DOMAIN u
  /\ l.type \in DOMAIN Special =>
       \A n \in Batch(l) : Place(u, l, n) \in DOMAIN u /\ u[Place(u, l, n)].kind # "dir"

Given(t, u, l, p) ==
  /\ u[p].uid = Uid(l) /\ u[p].gid = Gid(l)
  /\ l.mode # KeepMode => u[p].mode = l.mode
  /\ l.mode = KeepMode /\ p \in DOMAIN t => u[p].mode = t[p].mode
  /\ l.type \in DOMAIN Special =>
       u[p].kind = Special[l.type] /\ u[p].to = << >> /\ u[p].dev = BatchDev(l, LastCopy(u, l, p))
  /\ l.type \notin DOMAIN Special /\ p \in DOMAIN t =>
       u[p].kind = t[p].kind /\ u[p].to = t[p].to /\ u[p].dev = t[p].dev

Added(u, l, p) ==
  /\ l.type \in {"d"} \cup DOMAIN Special
  /\ l.type \in DOMAIN Special => About(u, l, p)
  /\ l.type = "d" =>
       /\ u[p].kind = "dir" /\ IsPath(p) /\ IsPrefix(p, Followed(u, l.name))
       /\ ~About(u, l, p) => u[p].uid = 0 /\ u[p].gid = 0

Effect(t, u, l) ==
  /\ ~Invalid(l) /\ l.type \in Types
  /\ Grown(t, u)
  /\ \A p \in DOMAIN t : IsLink(t, p) \/ ~About(u, l, p) => u[p] = t[p]
  /\ \A p \in Files(u) : About(u, l, p) => Given(t, u, l, p)
  /\ \A p \in DOMAIN u \ DOMAIN t : Added(u, l, p)
  /\ Made(t, u, l)

LEMMA SpecialTypes == DOMAIN Special = {"c", "b", "p"}
BY DEF Special

LEMMA OwnEffect ==
  ASSUME NEW t, IsTree(t), NEW l, IsPath(l.name), l.type \in {"d", "f"}, ~Invalid(l),
         NEW m, IsTree(m), Grown(t, m), \A q \in DOMAIN t : m[q] = t[q],
         \A q \in DOMAIN m \ DOMAIN t :
           /\ l.type = "d" /\ IsPath(q) /\ IsPrefix(q, Followed(t, l.name)) /\ m[q].kind = "dir"
           /\ m[q].uid = 0 /\ m[q].gid = 0,
         l.type = "f" => Stat(t, l.name) = "file",
         NEW o, o = Own(m, l.name, l)
  PROVE  /\ Grown(t, o.tree)
         /\ DOMAIN o.tree = DOMAIN m
         /\ o.ok => Effect(t, o.tree, l)
         /\ Followed(t, l.name) \in DOMAIN t => o.ok
<1> DEFINE f == Followed(t, l.name)
           u == OwnAll(m, {l.name}, l)
<1>1. f = Followed(m, l.name) BY GrownFacts
<1>2. CASE Stat(m, l.name) = "none"
  <2>1. o.tree = m /\ ~o.ok BY <1>2 DEF Own, Outcome
  <2>2. f \notin DOMAIN t
    <3> SUFFICES ASSUME f \in DOMAIN t PROVE FALSE OBVIOUS
    <3>1. f \in DOMAIN m BY DEF Grown
    <3>2. m[f].kind = "none" BY <1>1, <1>2, <3>1 DEF Stat
    <3>3. m[f].kind \in Kinds BY <3>1 DEF IsTree, IsNode
    <3> QED BY <3>2, <3>3 DEF Kinds
  <2> QED BY <2>1, <2>2
<1>3. CASE Stat(m, l.name) # "none"
  <2>1. o.tree = u /\ o.ok BY <1>3 DEF Own, Outcome
  <2>2. /\ SameFiles(m, u)
        /\ \A q \in DOMAIN m :
             IF f = q
             THEN /\ u[q].kind = m[q].kind /\ u[q].to = m[q].to /\ u[q].dev = m[q].dev
                  /\ u[q].uid = Uid(l) /\ u[q].gid = Gid(l)
                  /\ u[q].mode = IF l.mode = KeepMode THEN m[q].mode ELSE l.mode
             ELSE u[q] = m[q]
    BY <1>1, OwnedTree
  <2> HIDE DEF u
  <2>3. Grown(t, u) /\ DOMAIN u = DOMAIN m BY <2>2, GrownOn DEF SameFiles
  <2>4. f = Followed(u, l.name) BY <2>3, GrownFacts
  <2>5. l.type \notin DOMAIN Special /\ l.type # "r" BY SpecialTypes
  <2>6. \A p : About(u, l, p) <=> f = p BY <2>4, <2>5 DEF About
  <2>7. f \in DOMAIN m BY <1>1, <1>3 DEF Stat
  <2>8. ~IsLink(t, f) BY FollowedFree
  <2> HIDE DEF f
  <2>9. \A p \in DOMAIN t : IsLink(t, p) \/ ~About(u, l, p) => u[p] = t[p]
    BY <2>2, <2>6, <2>8 DEF Grown
  <2>10. \A p \in Files(u) : About(u, l, p) => Given(t, u, l, p)
    BY <2>2, <2>3, <2>5, <2>6, <2>7 DEF Given, Files
  <2>11. \A p \in DOMAIN u \ DOMAIN t : Added(u, l, p)
    BY <2>2, <2>3, <2>4, <2>5, <2>6 DEF Added, f
  <2>12. Made(t, u, l)
    <3>1. l.type = "f" => f \in DOMAIN t /\ t[f].kind = "file" BY DEF Stat, f
    <3> QED BY <2>3, <2>4, <2>5, <2>7, <3>1 DEF Made
  <2>13. l.type \in Types BY DEF Types
  <2>14. Effect(t, u, l) BY <2>3, <2>9, <2>10, <2>11, <2>12, <2>13 DEF Effect
  <2> QED BY <2>1, <2>3, <2>14
<1> QED BY <1>2, <1>3
\* What a line needs to succeed, once the files it makes are there.
Fits(t, l) ==
  /\ ~Invalid(l) /\ l.type \in Types
  /\ l.type = "d" => Followed(t, l.name) \in DOMAIN t
  /\ l.type = "f" => Stat(t, l.name) = "file"
  /\ l.type = "r" =>
       /\ Found(t, l.name) \in DOMAIN t
       /\ \A q \in Walked(t, l.name) : Followed(t, q) \in DOMAIN t
  /\ l.type \in DOMAIN Special =>
       \A n \in Batch(l) : Place(t, l, n) \in DOMAIN t /\ t[Place(t, l, n)].kind # "dir"

GoodLine(l) == IsPath(l.name) /\ (l.type \in DOMAIN Special => l.mode # KeepMode)

LEMMA DirectoryEffect ==
  ASSUME NEW t, IsTree(t), NEW l, GoodLine(l), l.type = "d", ~Invalid(l),
         NEW o \in DirectoryLine(t, l)
  PROVE  /\ Grown(t, o.tree) /\ (o.ok => Effect(t, o.tree, l))
         /\ Fits(t, l) => o.ok /\ DOMAIN o.tree = DOMAIN t
<1> DEFINE m == MakeDirectory(t, l.name, l.mode)
           f == Followed(t, l.name)
<1>1. o = Own(m, l.name, l) BY DEF DirectoryLine
<1>2. /\ Grown(t, m)
      /\ \A q \in DOMAIN t : m[q] = t[q]
      /\ \A q \in DOMAIN m \ DOMAIN t :
           IsPath(q) /\ IsPrefix(q, f) /\ m[q].kind = "dir" /\ m[q].uid = 0 /\ m[q].gid = 0
      /\ f \in DOMAIN t => DOMAIN m = DOMAIN t
  BY MadeDirectory DEF GoodLine
<1> HIDE DEF m, f
<1>3. IsTree(m) /\ IsPath(l.name) BY <1>2 DEF Grown, GoodLine
<1>4. /\ Grown(t, o.tree) /\ DOMAIN o.tree = DOMAIN m
      /\ o.ok => Effect(t, o.tree, l)
      /\ f \in DOMAIN t => o.ok
  BY <1>1, <1>2, <1>3, OwnEffect DEF f
<1> QED BY <1>2, <1>4 DEF Fits, f

LEMMA FileEffect ==
  ASSUME NEW t, IsTree(t), NEW l, GoodLine(l), l.type = "f", ~Invalid(l),
         NEW o \in FileLine(t, l)
  PROVE  /\ Grown(t, o.tree) /\ (o.ok => Effect(t, o.tree, l))
         /\ Fits(t, l) => o.ok /\ DOMAIN o.tree = DOMAIN t
<1>1. CASE Stat(t, l.name) = "file"
  <2>1. o = Own(t, l.name, l) BY <1>1 DEF FileLine
  <2>2. Grown(t, t) /\ IsPath(l.name) BY SameTree DEF SameFiles, GoodLine
  <2>3. /\ Grown(t, o.tree) /\ DOMAIN o.tree = DOMAIN t
        /\ o.ok => Effect(t, o.tree, l)
        /\ Followed(t, l.name) \in DOMAIN t => o.ok
    BY <1>1, <2>1, <2>2, OwnEffect
  <2>4. Followed(t, l.name) \in DOMAIN t BY <1>1 DEF Stat
  <2> QED BY <2>3, <2>4
<1>2. CASE Stat(t, l.name) # "file"
  <2>1. o.tree = t /\ ~o.ok BY <1>2 DEF FileLine, Outcome
  <2> QED BY <1>2, <2>1, SameTree DEF Fits, SameFiles
<1> QED BY <1>1, <1>2

LEMMA RecursiveEffect ==
  ASSUME NEW t, IsTree(t), NEW l, GoodLine(l), l.type = "r", ~Invalid(l),
         NEW o \in RecursiveLine(t, l)
  PROVE  /\ Grown(t, o.tree) /\ (o.ok => Effect(t, o.tree, l))
         /\ Fits(t, l) => o.ok /\ DOMAIN o.tree = DOMAIN t
<1> DEFINE qs == Walked(t, l.name)
           dangling == {q \in qs : Stat(t, q) = "none"}
           u == OwnAll(t, qs, l)
<1>1. CASE ~Exists(t, l.name)
  <2>1. o.tree = t /\ ~o.ok BY <1>1 DEF RecursiveLine, Outcome
  <2> QED BY <1>1, <2>1, SameTree DEF Fits, SameFiles, Exists
<1>2. CASE Exists(t, l.name) /\ dangling = {}
  <2>1. o.tree = u /\ o.ok BY <1>2 DEF RecursiveLine, Outcome
  <2>2. \A q \in qs : q \in DOMAIN t /\ IsPath(q) BY DEF Walked, IsTree
  <2>3. \A q \in qs : Followed(t, q) \in DOMAIN t /\ ~IsLink(t, Followed(t, q))
    <3>1. \A q \in qs : Stat(t, q) # "none" BY <1>2
    <3>2. \A q \in qs : Followed(t, q) \in DOMAIN t BY <3>1 DEF Stat
    <3> HIDE DEF qs
    <3> QED BY <2>2, <3>2, FollowedFree
  <2>4. /\ SameFiles(t, u)
        /\ \A q \in DOMAIN t :
             IF \E p \in qs : Followed(t, p) = q
             THEN /\ u[q].kind = t[q].kind /\ u[q].to = t[q].to /\ u[q].dev = t[q].dev
                  /\ u[q].uid = Uid(l) /\ u[q].gid = Gid(l)
                  /\ u[q].mode = IF l.mode = KeepMode THEN t[q].mode ELSE l.mode
             ELSE u[q] = t[q]
    <3> HIDE DEF qs
    <3> QED BY OwnedTree
  <2> HIDE DEF u
  <2>5. Grown(t, u) /\ DOMAIN u = DOMAIN t BY <2>4 DEF SameFiles
  <2>6. \A p : Followed(t, p) = Followed(u, p) /\ Found(t, p) = Found(u, p) BY <2>5, GrownFacts
  <2>7. qs = Walked(u, l.name) BY <2>5, <2>6 DEF Walked
  <2> HIDE DEF qs
  <2>8. \A p : About(u, l, p) <=> \E q \in qs : Followed(t, q) = p
    BY <2>6, <2>7, SpecialTypes DEF About
  <2>9. l.type \notin DOMAIN Special /\ l.type # "f" /\ l.type # "d" /\ l.type \in Types
    BY SpecialTypes DEF Types
  <2>10. \A p \in DOMAIN t : IsLink(t, p) \/ ~About(u, l, p) => u[p] = t[p]
    BY <2>3, <2>4, <2>8
  <2>11. \A p \in Files(u) : About(u, l, p) => Given(t, u, l, p)
    BY <2>4, <2>5, <2>8, <2>9 DEF Given, Files
  <2>12. Made(t, u, l)
    BY <1>2, <2>3, <2>5, <2>6, <2>7, <2>9 DEF Made, Exists
  <2>13. Effect(t, u, l) BY <2>5, <2>9, <2>10, <2>11, <2>12 DEF Effect
  <2> QED BY <2>1, <2>5, <2>13
<1>3. CASE Exists(t, l.name) /\ dangling # {}
  <2>1. PICK done \in SUBSET (qs \ dangling) : o = Outcome(OwnAll(t, done, l), FALSE)
    BY <1>3 DEF RecursiveLine
  <2>2. o.tree = OwnAll(t, done, l) /\ ~o.ok BY <2>1 DEF Outcome
  <2>3. Grown(t, o.tree) BY <2>2, OwnedTree DEF SameFiles
  <2>4. ~Fits(t, l)
    <3>1. PICK q \in qs : Stat(t, q) = "none" BY <1>3
    <3>2. Followed(t, q) \notin DOMAIN t
      <4> SUFFICES ASSUME Followed(t, q) \in DOMAIN t PROVE FALSE OBVIOUS
      <4>1. t[Followed(t, q)].kind = "none" BY <3>1 DEF Stat
      <4>2. t[Followed(t, q)].kind \in Kinds BY DEF IsTree, IsNode
      <4> QED BY <4>1, <4>2 DEF Kinds
    <3> QED BY <3>1, <3>2 DEF Fits
  <2> QED BY <2>2, <2>3, <2>4
<1> QED BY <1>1, <1>2, <1>3

LEMMA NodeEffect ==
  ASSUME NEW t, IsTree(t), NEW l, GoodLine(l), l.type \in DOMAIN Special, ~Invalid(l),
         NEW o \in NodeLine(t, l)
  PROVE  /\ Grown(t, o.tree) /\ (o.ok => Effect(t, o.tree, l))
         /\ Fits(t, l) => o.ok /\ DOMAIN o.tree = DOMAIN t
<1> DEFINE u == o.tree
           At(q) == \E n \in Batch(l) : Place(t, l, n) = q
<1>1. /\ Grown(t, u)
      /\ o.ok => /\ \A n \in Batch(l) : CanMknod(t, BatchName(l, n))
                 /\ DOMAIN u = DOMAIN t \cup {Place(t, l, n) : n \in Batch(l)}
                 /\ \A q \in DOMAIN u :
                      IF At(q)
                      THEN /\ u[q].kind = Special[l.type] /\ u[q].to = << >>
                           /\ u[q].dev = BatchDev(l, LastCopy(t, l, q))
                           /\ u[q].uid = Uid(l) /\ u[q].gid = Gid(l)
                           /\ u[q].mode = l.mode
                      ELSE u[q] = t[q]
      /\ (\A n \in Batch(l) : CanMknod(t, BatchName(l, n))) => o.ok
  BY NodeTree DEF GoodLine
<1> HIDE DEF u
<1>2. \A p : Followed(t, p) = Followed(u, p) BY <1>1, GrownFacts
<1>3. \A n : IsPath(BatchName(l, n)) /\ NodeName(l, n) = BatchName(l, n)
  BY BatchNamePath DEF GoodLine
<1>4. \A n : Place(t, l, n) = Place(u, l, n) /\ ~IsLink(t, Place(t, l, n))
  BY <1>2, <1>3, FollowedFree DEF Place
<1>5. \A p : LastCopy(t, l, p) = LastCopy(u, l, p) BY <1>4 DEF LastCopy
<1>6. l.type # "r" /\ l.type # "d" /\ l.type # "f" BY SpecialTypes
<1>7. \A p : About(u, l, p) <=> At(p) BY <1>3, <1>4, <1>6 DEF About, Place, Batch
<1>8. ASSUME o.ok PROVE Effect(t, u, l)
  <2>1. \A p \in DOMAIN t : IsLink(t, p) \/ ~About(u, l, p) => u[p] = t[p]
    BY <1>1, <1>4, <1>7, <1>8 DEF Grown
  <2>2. \A p \in Files(u) : About(u, l, p) => Given(t, u, l, p)
    BY <1>1, <1>5, <1>7, <1>8 DEF Given, Files, GoodLine
  <2>3. \A p \in DOMAIN u \ DOMAIN t : Added(u, l, p)
    BY <1>1, <1>6, <1>7, <1>8 DEF Added
  <2>4. \A n \in Batch(l) : Place(t, l, n) \in DOMAIN u /\ At(Place(t, l, n))
    BY <1>1, <1>8
  <2>5. Special[l.type] # "dir" BY DEF Special
  <2>6. Made(t, u, l) BY <1>1, <1>4, <1>6, <1>8, <2>4, <2>5 DEF Made
  <2>7. l.type \in Types BY DEF Types
  <2> QED BY <1>1, <2>1, <2>2, <2>3, <2>6, <2>7 DEF Effect
<1>9. ASSUME Fits(t, l) PROVE o.ok /\ DOMAIN u = DOMAIN t
  <2>1. \A n \in Batch(l) : Place(t, l, n) \in DOMAIN t /\ t[Place(t, l, n)].kind # "dir"
    BY <1>9 DEF Fits
  <2>2. ASSUME NEW n \in Batch(l) PROVE CanMknod(t, BatchName(l, n))
    <3> DEFINE q == Place(t, l, n)
    <3>1. q \in DOMAIN t /\ t[q].kind # "dir" /\ IsPath(q) BY <2>1 DEF IsTree
    <3>2. q # << >> BY <3>1 DEF IsTree
    <3>3. Len(q) \in Nat /\ Len(q) # 0 BY <3>1, <3>2, WholePrefix
    <3>4. Len(q) - 1 \in 0..(Len(q) - 1)
      <4> HIDE DEF q
      <4> QED BY <3>3
    <3>5. Front(q) \in DOMAIN t /\ t[Front(q)].kind = "dir"
      BY <3>1, <3>4 DEF IsTree, Front
    <3>6. ~IsLink(t, Front(q)) BY <3>5 DEF IsLink
    <3>7. Followed(t, Front(q)) = Front(q) BY <3>5, <3>6, FollowedInTree
    <3> QED BY <3>1, <3>5, <3>7 DEF CanMknod, IsDir, Stat, Place
  <2>3. o.ok BY <1>1, <2>2
  <2>4. {Place(t, l, n) : n \in Batch(l)} \subseteq DOMAIN t BY <2>1
  <2>5. DOMAIN u = DOMAIN t \cup {Place(t, l, n) : n \in Batch(l)} BY <1>1, <2>3
  <2>6. DOMAIN u = DOMAIN t BY <2>4, <2>5
  <2> QED BY <2>3, <2>6
<1> QED BY <1>1, <1>8, <1>9 DEF u

\* A line, whatever it is.
LEMMA LineEffect ==
  ASSUME NEW t, IsTree(t), NEW l, GoodLine(l), NEW o \in Outcomes(t, l)
  PROVE  /\ Grown(t, o.tree) /\ (o.ok => Effect(t, o.tree, l))
         /\ Fits(t, l) => o.ok /\ SameFiles(t, o.tree)
<1>1. /\ Grown(t, o.tree) /\ (o.ok => Effect(t, o.tree, l))
      /\ Fits(t, l) => o.ok /\ DOMAIN o.tree = DOMAIN t
  <2>1. CASE ~Invalid(l) /\ l.type = "d"
    <3>1. o \in DirectoryLine(t, l) BY <2>1, SpecialTypes DEF Outcomes
    <3> QED BY <2>1, <3>1, DirectoryEffect
  <2>2. CASE ~Invalid(l) /\ l.type = "f"
    <3>1. o \in FileLine(t, l) BY <2>2, SpecialTypes DEF Outcomes
    <3> QED BY <2>2, <3>1, FileEffect
  <2>3. CASE ~Invalid(l) /\ l.type = "r"
    <3>1. o \in RecursiveLine(t, l) BY <2>3, SpecialTypes DEF Outcomes
    <3> QED BY <2>3, <3>1, RecursiveEffect
  <2>4. CASE ~Invalid(l) /\ l.type \in DOMAIN Special
    <3>1. o \in NodeLine(t, l) BY <2>4, SpecialTypes DEF Outcomes
    <3> QED BY <2>4, <3>1, NodeEffect
  <2>5. CASE Invalid(l) \/ l.type \notin Types
    <3>1. o = Outcome(t, FALSE) BY <2>5, SpecialTypes DEF Outcomes, Types
    <3>2. o.tree = t /\ ~o.ok BY <3>1 DEF Outcome
    <3> QED BY <2>5, <3>2, SameTree DEF Fits, SameFiles
  <2> QED BY <2>1, <2>2, <2>3, <2>4, <2>5 DEF Types
<1> QED BY <1>1 DEF SameFiles
----------------------------------------------------------------------------
(* One line after the others *)

GoodTable(tb) ==
  /\ Len(tb) \in Nat /\ DOMAIN tb = 1..Len(tb)
  /\ \A k \in 1..Len(tb) : GoodLine(tb[k])

LEMMA TablesAreGood ==
  ASSUME NEW tb \in Tables
  PROVE  GoodTable(tb)
<1>1. tb \in Seq(LineType) BY TablesAreTables
<1>2. Len(tb) \in Nat /\ DOMAIN tb = 1..Len(tb) BY <1>1
<1>3. ASSUME NEW k \in 1..Len(tb) PROVE GoodLine(tb[k])
  <2>1. tb[k] \in LineType BY <1>1
  <2>2. tb[k].name \in Seq(Seq(STRING)) BY <2>1 DEF LineType, Path
  <2>3. tb[k].type \in DOMAIN Special => tb[k].mode # KeepMode BY <1>2, TablesAreTables
  <2> QED BY <2>2, <2>3, PathIf DEF GoodLine
<1> QED BY <1>2, <1>3 DEF GoodTable

\* What a line is about, among the files that were there before.
LEMMA AboutGrown ==
  ASSUME NEW t, IsTree(t), NEW u, Grown(t, u), NEW l, NEW p \in Files(t)
  PROVE  About(u, l, p) <=> About(t, l, p)
<1>1. /\ DOMAIN t \subseteq DOMAIN u
      /\ \A q : Followed(t, q) = Followed(u, q) /\ Found(t, q) = Found(u, q)
      /\ \A q \in DOMAIN u \ DOMAIN t : q \in Files(u)
      /\ IsTree(u)
  BY GrownFacts
<1>2. CASE l.type = "r"
  <2>1. Walked(t, l.name) \subseteq Walked(u, l.name) BY <1>1 DEF Walked
  <2>2. \A q \in Walked(u, l.name) : q \in DOMAIN t => q \in Walked(t, l.name) BY <1>1 DEF Walked
  <2>3. \A q \in Walked(u, l.name) : q \notin DOMAIN t => Followed(u, q) = q
    BY <1>1, FileIs DEF Walked
  <2>4. p \in DOMAIN t BY DEF Files
  <2>5. \A q \in Walked(u, l.name) : Followed(u, q) = p => q \in Walked(t, l.name)
    BY <2>2, <2>3, <2>4
  <2> QED BY <1>1, <1>2, <2>1, <2>5, SpecialTypes DEF About
<1>3. CASE l.type \in DOMAIN Special
  <2>1. l.type # "r" BY <1>3, SpecialTypes
  <2> QED BY <1>1, <1>3, <2>1 DEF About
<1>4. CASE l.type # "r" /\ l.type \notin DOMAIN Special
  BY <1>1, <1>4 DEF About
<1> QED BY <1>2, <1>3, <1>4

LEMMA PlaceGrown ==
  ASSUME NEW t, IsTree(t), NEW u, Grown(t, u), NEW l
  PROVE  /\ \A n : Place(u, l, n) = Place(t, l, n)
         /\ \A p : LastCopy(u, l, p) = LastCopy(t, l, p)
<1>1. \A n : Place(u, l, n) = Place(t, l, n) BY GrownFacts DEF Place
<1> QED BY <1>1 DEF LastCopy

LEMMA AppliesGrown ==
  ASSUME NEW tb, GoodTable(tb), NEW t, IsTree(t), NEW u, Grown(t, u),
         NEW i \in 1..Len(tb), Applies(tb, t, i)
  PROVE  Applies(tb, u, i)
<1> DEFINE l == tb[i]
           f == Followed(t, l.name)
<1>1. /\ DOMAIN t \subseteq DOMAIN u
      /\ \A q : Followed(t, q) = Followed(u, q) /\ Found(t, q) = Found(u, q)
      /\ \A q \in DOMAIN u \ DOMAIN t : q \in Files(u)
      /\ IsTree(u)
      /\ \A q \in DOMAIN t : t[q].kind = "dir" <=> u[q].kind = "dir"
  BY GrownFacts DEF Grown
<1>2. IsPath(l.name) /\ ~IsLink(t, f) BY FollowedFree DEF GoodTable, GoodLine
<1>3. f \in DOMAIN t => f \in Files(t) BY <1>2, FileIs
<1>4. ~Invalid(l) /\ ~Dies(l) /\ l.type \in Types BY DEF Applies
<1>5. l.type = "d" => Followed(u, l.name) \in DOMAIN u BY <1>1 DEF Applies
<1>6. ASSUME l.type = "f"
      PROVE  /\ f \in DOMAIN u /\ u[f].kind # "dir" /\ f = Followed(u, l.name)
             /\ \A k \in 1 .. (i - 1) : tb[k].type \in DOMAIN Special => ~About(u, tb[k], f)
  <2>1. /\ f \in DOMAIN t /\ t[f].kind # "dir"
        /\ \A k \in 1 .. (i - 1) : tb[k].type \in DOMAIN Special => ~About(t, tb[k], f)
    BY <1>6 DEF Applies
  <2>2. f \in Files(t) BY <1>3, <2>1
  <2> HIDE DEF f
  <2>3. \A k : About(u, tb[k], f) <=> About(t, tb[k], f) BY <2>2, AboutGrown
  <2> QED BY <1>1, <2>1, <2>3 DEF f
<1>7. ASSUME l.type = "r"
      PROVE  /\ Found(u, l.name) \in DOMAIN u
             /\ \A q \in Walked(u, l.name) : Followed(u, q) \in DOMAIN u
  <2>1. /\ Found(t, l.name) \in DOMAIN t
        /\ \A q \in Walked(t, l.name) : Followed(t, q) \in DOMAIN t
    BY <1>7 DEF Applies
  <2>2. ASSUME NEW q \in Walked(u, l.name) PROVE Followed(u, q) \in DOMAIN u
    <3>1. CASE q \in DOMAIN t
      <4>1. q \in Walked(t, l.name) BY <1>1, <3>1 DEF Walked
      <4> QED BY <1>1, <2>1, <4>1
    <3>2. CASE q \notin DOMAIN t
      <4>1. q \in Files(u) /\ q \in DOMAIN u BY <1>1, <3>2 DEF Walked
      <4> QED BY <1>1, <4>1, FileIs
    <3> QED BY <3>1, <3>2
  <2> QED BY <1>1, <2>1, <2>2
<1>8. l.type \in DOMAIN Special =>
        \A n \in Batch(l) : Place(u, l, n) \in DOMAIN u /\ u[Place(u, l, n)].kind # "dir"
  BY <1>1, PlaceGrown DEF Applies
<1> HIDE DEF l, f
<1>9. Followed(u, l.name) = f BY <1>1 DEF f
<1> QED BY <1>4, <1>5, <1>6, <1>7, <1>8, <1>9 DEF Applies, l

\* The last of some lines, with one more line after them.
LEMMA LastOfMore ==
  ASSUME NEW tb, NEW t, IsTree(t), NEW u, Grown(t, u), NEW p \in Files(u),
         NEW i \in Nat, NEW S, S \subseteq 1..(i - 1)
  PROVE  /\ About(u, tb[i], p) => /\ \A j : IsLast(tb, u, p, S \cup {i}, j) => j = i
                                  /\ ~NoneAsks(tb, u, p, S \cup {i})
         /\ ~About(u, tb[i], p) =>
              /\ \A j : IsLast(tb, u, p, S \cup {i}, j) => IsLast(tb, u, p, S, j)
              /\ NoneAsks(tb, u, p, S \cup {i}) => NoneAsks(tb, u, p, S)
         /\ p \in DOMAIN t =>
              /\ p \in Files(t)
              /\ \A j : IsLast(tb, u, p, S, j) => IsLast(tb, t, p, S, j)
              /\ NoneAsks(tb, u, p, S) => NoneAsks(tb, t, p, S)
<1>1. ASSUME About(u, tb[i], p), NEW j, IsLast(tb, u, p, S \cup {i}, j) PROVE j = i
  <2>1. j \in S \cup {i} /\ ~(i > j) BY <1>1 DEF IsLast
  <2>2. j \in S => j \in 1..(i - 1) OBVIOUS
  <2> QED BY <2>1, <2>2
<1>2. ASSUME About(u, tb[i], p) PROVE ~NoneAsks(tb, u, p, S \cup {i})
  BY <1>2 DEF NoneAsks
<1>3. ASSUME ~About(u, tb[i], p), NEW j, IsLast(tb, u, p, S \cup {i}, j) PROVE IsLast(tb, u, p, S, j)
  BY <1>3 DEF IsLast
<1>4. ASSUME ~About(u, tb[i], p), NoneAsks(tb, u, p, S \cup {i}) PROVE NoneAsks(tb, u, p, S)
  BY <1>4 DEF NoneAsks
<1>5. p \in DOMAIN t => p \in Files(t) BY GrownFacts
<1>6. ASSUME p \in DOMAIN t PROVE \A k : About(u, tb[k], p) <=> About(t, tb[k], p)
  BY <1>5, <1>6, AboutGrown
<1>7. ASSUME p \in DOMAIN t, NEW j, IsLast(tb, u, p, S, j) PROVE IsLast(tb, t, p, S, j)
  BY <1>6, <1>7 DEF IsLast
<1>8. ASSUME p \in DOMAIN t, NoneAsks(tb, u, p, S) PROVE NoneAsks(tb, t, p, S)
  BY <1>6, <1>8 DEF NoneAsks
<1> QED BY <1>1, <1>2, <1>3, <1>4, <1>5, <1>7, <1>8

LEMMA OneMore ==
  ASSUME NEW tb, NEW i \in Nat, i >= 1
  PROVE  /\ 1..i = (1..(i - 1)) \cup {i}
         /\ NodesTo(tb, i - 1) \subseteq 1..(i - 1) /\ ModesTo(tb, i - 1) \subseteq 1..(i - 1)
         /\ tb[i].type \in DOMAIN Special => NodesTo(tb, i) = NodesTo(tb, i - 1) \cup {i}
         /\ tb[i].type \notin DOMAIN Special => NodesTo(tb, i) = NodesTo(tb, i - 1)
         /\ tb[i].mode # KeepMode => ModesTo(tb, i) = ModesTo(tb, i - 1) \cup {i}
         /\ tb[i].mode = KeepMode => ModesTo(tb, i) = ModesTo(tb, i - 1)
<1>1. 1..i = (1..(i - 1)) \cup {i} OBVIOUS
<1>2. \A k \in 1..(i - 1) : k # i OBVIOUS
<1> QED BY <1>1, <1>2 DEF NodesTo, ModesTo

\* A file a line makes was asked for by no line before it, if the table is in order.
LEMMA NewUnasked ==
  ASSUME NEW tb, GoodTable(tb), NEW t, IsTree(t), NEW i \in 1..Len(tb),
         NEW u, Effect(t, u, tb[i]),
         \A k \in 1..(i - 1) : Applies(tb, t, k),
         NEW p \in DOMAIN u \ DOMAIN t, NEW k \in 1..(i - 1), About(u, tb[k], p)
  PROVE  tb[k].type = "r" /\ (Ordered(tb, u) => tb[i].type # "d")
<1> DEFINE m == tb[k]
           r == Found(t, m.name)
           d == Followed(u, tb[i].name)
<1>1. /\ DOMAIN t \subseteq DOMAIN u
      /\ \A q : Followed(t, q) = Followed(u, q) /\ Found(t, q) = Found(u, q)
      /\ \A q \in DOMAIN u \ DOMAIN t : q \in Files(u)
      /\ IsTree(u) /\ Grown(t, u)
  BY GrownFacts DEF Effect
<1>2. Applies(tb, t, k) OBVIOUS
<1>3. m.type \in Types BY <1>2 DEF Applies
<1>4. m.type \notin {"d", "f"}
  <2>1. SUFFICES ASSUME m.type \in {"d", "f"} PROVE FALSE OBVIOUS
  <2>2. Followed(t, m.name) \in DOMAIN t BY <1>2, <2>1 DEF Applies
  <2>3. Followed(u, m.name) = p BY <2>1, SpecialTypes DEF About
  <2> QED BY <1>1, <2>2, <2>3
<1>5. m.type \notin DOMAIN Special
  <2>1. SUFFICES ASSUME m.type \in DOMAIN Special PROVE FALSE OBVIOUS
  <2>2. \A n \in Batch(m) : Place(t, m, n) \in DOMAIN t BY <1>2, <2>1 DEF Applies
  <2>3. k \in 1..Len(tb)
    <3>1. Len(tb) \in Nat BY DEF GoodTable
    <3> QED BY <3>1
  <2>4. IsPath(m.name) BY <2>3 DEF GoodTable, GoodLine
  <2>5. \A n : NodeName(m, n) = BatchName(m, n) BY <2>4, BatchNamePath
  <2>6. m.type # "r" BY <2>1, SpecialTypes
  <2>7. \E n \in Batch(m) : Followed(u, BatchName(m, n)) = p
    BY <2>1, <2>5, <2>6 DEF About, Batch
  <2> QED BY <1>1, <2>2, <2>7 DEF Place
<1>6. m.type = "r" BY <1>3, <1>4, <1>5 DEF Types
<1>7. ASSUME Ordered(tb, u), tb[i].type = "d" PROVE FALSE
  <2>1. /\ r \in DOMAIN t
        /\ \A q \in Walked(t, m.name) : Followed(t, q) \in DOMAIN t
    BY <1>2, <1>6 DEF Applies
  <2>2. PICK q \in Walked(u, m.name) : Followed(u, q) = p
    BY <1>6, SpecialTypes DEF About
  <2>3. q \notin DOMAIN t
    <3>1. q \in DOMAIN t => q \in Walked(t, m.name) BY <1>1, <2>2 DEF Walked
    <3> QED BY <1>1, <2>1, <2>2, <3>1
  <2>4. q \in DOMAIN u /\ IsPrefix(r, q) BY <1>1, <2>2 DEF Walked
  <2>5. q \in Files(u) BY <1>1, <2>3, <2>4
  <2>6. q = p BY <1>1, <2>2, <2>5, FileIs
  <2>7. IsPath(p) /\ IsPrefix(p, d) BY <1>7 DEF Effect, Added
  <2>8. IsPath(r) BY <2>1 DEF IsTree
  <2>9. IsPath(d)
    <3>1. IsPath(tb[i].name) BY DEF GoodTable, GoodLine
    <3> QED BY <1>1, <3>1, FollowedFree
  <2>10. IsPrefix(r, p) BY <2>4, <2>6
  <2>11. r # p BY <2>1
  <2>12. IsPrefix(r, d) /\ r # d
    <3> HIDE DEF r, d
    <3> QED BY <2>7, <2>8, <2>9, <2>10, <2>11, PrefixOrder
  <2>13. IsStrictPrefix(r, d) BY <2>12 DEF IsStrictPrefix
  <2>14. i \in DOMAIN tb /\ k \in DOMAIN tb /\ k < i
    <3>1. Len(tb) \in Nat /\ DOMAIN tb = 1..Len(tb) BY DEF GoodTable
    <3> QED BY <3>1
  <2>15. r = Found(u, m.name) BY <1>1
  <2> QED BY <1>6, <1>7, <2>13, <2>14, <2>15 DEF Ordered
<1> QED BY <1>6, <1>7

LEMMA OrderedGrown ==
  ASSUME NEW tb, NEW t, IsTree(t), NEW u, Grown(t, u)
  PROVE  Ordered(tb, t) <=> Ordered(tb, u)
<1>1. \A q : Followed(t, q) = Followed(u, q) /\ Found(t, q) = Found(u, q) BY GrownFacts
<1> QED BY <1>1 DEF Ordered

\* The nodes of a table, one line later.
LEMMA KindsStep ==
  ASSUME NEW tb, GoodTable(tb), NEW t, IsTree(t), NEW i \in 1..Len(tb),
         NEW u, Effect(t, u, tb[i]),
         \A k \in 1..(i - 1) : Applies(tb, t, k), KindsAre(tb, t, i - 1)
  PROVE  KindsAre(tb, u, i)
<1> DEFINE l == tb[i]
           S == NodesTo(tb, i - 1)
<1>1. i \in Nat /\ i >= 1
  <2>1. Len(tb) \in Nat BY DEF GoodTable
  <2> QED BY <2>1
<1>2. /\ S \subseteq 1..(i - 1)
      /\ l.type \in DOMAIN Special => NodesTo(tb, i) = S \cup {i}
      /\ l.type \notin DOMAIN Special => NodesTo(tb, i) = S
  BY <1>1, OneMore
<1>3. \A k \in S : tb[k].type \in DOMAIN Special BY DEF NodesTo
<1>4. Grown(t, u) BY DEF Effect
<1> HIDE DEF S
<1>5. ASSUME NEW p \in Files(u)
      PROVE  /\ \A j : IsLast(tb, u, p, NodesTo(tb, i), j) =>
                  /\ u[p].kind = Special[tb[j].type] /\ u[p].to = << >>
                  /\ u[p].dev = BatchDev(tb[j], LastCopy(u, tb[j], p))
             /\ NoneAsks(tb, u, p, NodesTo(tb, i)) => u[p].kind \notin Devices
  <2>1. /\ About(u, l, p) => /\ \A j : IsLast(tb, u, p, S \cup {i}, j) => j = i
                             /\ ~NoneAsks(tb, u, p, S \cup {i})
        /\ ~About(u, l, p) =>
             /\ \A j : IsLast(tb, u, p, S \cup {i}, j) => IsLast(tb, u, p, S, j)
             /\ NoneAsks(tb, u, p, S \cup {i}) => NoneAsks(tb, u, p, S)
        /\ p \in DOMAIN t =>
             /\ p \in Files(t)
             /\ \A j : IsLast(tb, u, p, S, j) => IsLast(tb, t, p, S, j)
             /\ NoneAsks(tb, u, p, S) => NoneAsks(tb, t, p, S)
    BY <1>1, <1>2, <1>4, LastOfMore
  <2>2. CASE About(u, l, p) /\ l.type \in DOMAIN Special
    <3>1. Given(t, u, l, p) BY <2>2 DEF Effect
    <3> QED BY <1>2, <2>1, <2>2, <3>1 DEF Given
  <2>3. CASE ~(About(u, l, p) /\ l.type \in DOMAIN Special)
    <3>1. /\ \A j : IsLast(tb, u, p, NodesTo(tb, i), j) => IsLast(tb, u, p, S, j)
          /\ NoneAsks(tb, u, p, NodesTo(tb, i)) => NoneAsks(tb, u, p, S)
      BY <1>2, <2>1, <2>3
    <3>2. CASE p \in DOMAIN t
      <4>1. u[p].kind = t[p].kind /\ u[p].to = t[p].to /\ u[p].dev = t[p].dev
        <5>1. CASE About(u, l, p)
          BY <2>3, <3>2, <5>1 DEF Effect, Given
        <5>2. CASE ~About(u, l, p)
          BY <3>2, <5>2 DEF Effect
        <5> QED BY <5>1, <5>2
      <4>2. \A m : LastCopy(u, m, p) = LastCopy(t, m, p) BY <1>4, PlaceGrown
      <4>3. /\ \A j : IsLast(tb, t, p, S, j) =>
                 /\ t[p].kind = Special[tb[j].type] /\ t[p].to = << >>
                 /\ t[p].dev = BatchDev(tb[j], LastCopy(t, tb[j], p))
            /\ NoneAsks(tb, t, p, S) => t[p].kind \notin Devices
        BY <2>1, <3>2 DEF KindsAre, S
      <4> QED BY <2>1, <3>1, <3>2, <4>1, <4>2, <4>3
    <3>3. CASE p \notin DOMAIN t
      <4>1. p \in DOMAIN u \ DOMAIN t BY <3>3 DEF Files
      <4>2. Added(u, l, p) BY <4>1 DEF Effect
      <4>3. u[p].kind = "dir" BY <2>3, <4>2 DEF Added
      <4>4. \A j : ~IsLast(tb, u, p, S, j)
        <5>1. SUFFICES ASSUME NEW j, IsLast(tb, u, p, S, j) PROVE FALSE OBVIOUS
        <5>2. j \in S /\ About(u, tb[j], p) BY <5>1 DEF IsLast
        <5>3. j \in 1..(i - 1) BY <1>2, <5>2
        <5>4. tb[j].type = "r" BY <4>1, <5>2, <5>3, NewUnasked
        <5> QED BY <1>3, <5>2, <5>4, SpecialTypes
      <4> QED BY <3>1, <4>3, <4>4 DEF Devices
    <3> QED BY <3>2, <3>3
  <2> QED BY <2>2, <2>3
<1> QED BY <1>5 DEF KindsAre

\* The owners and the modes, if the table is in order.
LEMMA OwnersStep ==
  ASSUME NEW tb, GoodTable(tb), NEW t, IsTree(t), NEW i \in 1..Len(tb),
         NEW u, Effect(t, u, tb[i]), Ordered(tb, u),
         \A k \in 1..(i - 1) : Applies(tb, t, k),
         OwnersAre(tb, t, i - 1), ModesAre(tb, t, i - 1)
  PROVE  OwnersAre(tb, u, i) /\ ModesAre(tb, u, i)
<1> DEFINE l == tb[i]
           A == 1..(i - 1)
           S == ModesTo(tb, i - 1)
<1>1. i \in Nat /\ i >= 1
  <2>1. Len(tb) \in Nat BY DEF GoodTable
  <2> QED BY <2>1
<1>2. /\ 1..i = A \cup {i} /\ A \subseteq A
      /\ S \subseteq A
      /\ l.mode # KeepMode => ModesTo(tb, i) = S \cup {i}
      /\ l.mode = KeepMode => ModesTo(tb, i) = S
  BY <1>1, OneMore
<1>3. Grown(t, u) BY DEF Effect
<1>4. ASSUME NEW p \in Files(u), p \notin DOMAIN t, NEW k \in A, About(u, tb[k], p)
      PROVE  About(u, l, p) /\ l.mode # KeepMode
  <2>1. p \in DOMAIN u \ DOMAIN t BY <1>4 DEF Files
  <2>2. l.type # "d" BY <1>4, <2>1, NewUnasked
  <2>3. Added(u, l, p) BY <2>1 DEF Effect
  <2>4. l.type \in DOMAIN Special /\ About(u, l, p) BY <2>2, <2>3 DEF Added
  <2> QED BY <2>4 DEF GoodTable, GoodLine
<1>5. A \subseteq 1..(i - 1) /\ S \subseteq 1..(i - 1) BY <1>2
<1> HIDE DEF A, S
<1>6. ASSUME NEW p \in Files(u)
      PROVE  /\ \A j : IsLast(tb, u, p, 1..i, j) => u[p].uid = Uid(tb[j]) /\ u[p].gid = Gid(tb[j])
             /\ NoneAsks(tb, u, p, 1..i) => u[p].uid = 0 /\ u[p].gid = 0
  <2>1. /\ About(u, l, p) => /\ \A j : IsLast(tb, u, p, A \cup {i}, j) => j = i
                             /\ ~NoneAsks(tb, u, p, A \cup {i})
        /\ ~About(u, l, p) =>
             /\ \A j : IsLast(tb, u, p, A \cup {i}, j) => IsLast(tb, u, p, A, j)
             /\ NoneAsks(tb, u, p, A \cup {i}) => NoneAsks(tb, u, p, A)
        /\ p \in DOMAIN t =>
             /\ p \in Files(t)
             /\ \A j : IsLast(tb, u, p, A, j) => IsLast(tb, t, p, A, j)
             /\ NoneAsks(tb, u, p, A) => NoneAsks(tb, t, p, A)
    BY <1>1, <1>3, <1>5, LastOfMore
  <2>2. CASE About(u, l, p)
    <3>1. Given(t, u, l, p) BY <2>2 DEF Effect
    <3> QED BY <1>2, <2>1, <2>2, <3>1 DEF Given
  <2>3. CASE ~About(u, l, p) /\ p \in DOMAIN t
    <3>1. u[p] = t[p] BY <2>3 DEF Effect
    <3>2. /\ \A j : IsLast(tb, t, p, A, j) => t[p].uid = Uid(tb[j]) /\ t[p].gid = Gid(tb[j])
          /\ NoneAsks(tb, t, p, A) => t[p].uid = 0 /\ t[p].gid = 0
      BY <2>1, <2>3 DEF OwnersAre, A
    <3> QED BY <1>2, <2>1, <2>3, <3>1, <3>2
  <2>4. CASE ~About(u, l, p) /\ p \notin DOMAIN t
    <3>1. Added(u, l, p) BY <2>4 DEF Effect, Files
    <3>2. u[p].uid = 0 /\ u[p].gid = 0 BY <2>4, <3>1 DEF Added
    <3>3. \A j : ~IsLast(tb, u, p, A, j) BY <1>4, <2>4 DEF IsLast
    <3> QED BY <1>2, <2>1, <2>4, <3>2, <3>3
  <2> QED BY <2>2, <2>3, <2>4
<1>7. ASSUME NEW p \in Files(u), NEW j, IsLast(tb, u, p, ModesTo(tb, i), j)
      PROVE  u[p].mode = tb[j].mode
  <2>1. /\ About(u, l, p) => /\ \A k : IsLast(tb, u, p, S \cup {i}, k) => k = i
                             /\ ~NoneAsks(tb, u, p, S \cup {i})
        /\ ~About(u, l, p) =>
             /\ \A k : IsLast(tb, u, p, S \cup {i}, k) => IsLast(tb, u, p, S, k)
             /\ NoneAsks(tb, u, p, S \cup {i}) => NoneAsks(tb, u, p, S)
        /\ p \in DOMAIN t =>
             /\ p \in Files(t)
             /\ \A k : IsLast(tb, u, p, S, k) => IsLast(tb, t, p, S, k)
             /\ NoneAsks(tb, u, p, S) => NoneAsks(tb, t, p, S)
    BY <1>1, <1>3, <1>5, LastOfMore
  <2>2. CASE About(u, l, p) /\ l.mode # KeepMode
    <3>1. Given(t, u, l, p) BY <2>2 DEF Effect
    <3> QED BY <1>2, <1>7, <2>1, <2>2, <3>1 DEF Given
  <2>3. CASE ~(About(u, l, p) /\ l.mode # KeepMode)
    <3>1. IsLast(tb, u, p, S, j) BY <1>2, <1>7, <2>1, <2>3
    <3>2. p \in DOMAIN t
      <4>1. j \in A /\ About(u, tb[j], p) BY <1>2, <3>1 DEF IsLast
      <4> QED BY <1>4, <2>3, <4>1
    <3>3. u[p].mode = t[p].mode
      <4>1. CASE About(u, l, p) BY <2>3, <3>2, <4>1 DEF Effect, Given
      <4>2. CASE ~About(u, l, p) BY <3>2, <4>2 DEF Effect
      <4> QED BY <4>1, <4>2
    <3>4. t[p].mode = tb[j].mode BY <2>1, <3>1, <3>2 DEF ModesAre, S
    <3> QED BY <3>3, <3>4
  <2> QED BY <2>2, <2>3
<1>8. OwnersAre(tb, u, i) BY <1>6 DEF OwnersAre
<1>9. ModesAre(tb, u, i) BY <1>7 DEF ModesAre
<1> QED BY <1>8, <1>9

\* If some lines are about a file, one of them is the last.
LEMMA LastExists ==
  ASSUME NEW tb, NEW t, NEW p, NEW n \in Nat, NEW S, S \subseteq 1..n,
         NEW k \in S, About(t, tb[k], p)
  PROVE  \E j : IsLast(tb, t, p, S, j)
<1> DEFINE T == {m \in S : About(t, tb[m], p)}
<1>1. T \subseteq 0..n /\ T # {}
  <2>1. \A m \in S : m \in 0..n OBVIOUS
  <2> QED BY <2>1
<1> DEFINE j == Max(T)
<1>2. j \in T /\ \A m \in T : j >= m
  <2> HIDE DEF T
  <2> QED BY <1>1, MaxIn
<1>3. \A m \in S : m > j => m \notin T
  <2>1. \A m \in S : m \in Int OBVIOUS
  <2>2. j \in Int BY <1>2, <2>1
  <2> HIDE DEF j, T
  <2> QED BY <1>2, <2>1, <2>2
<1>4. IsLast(tb, t, p, S, j) BY <1>2, <1>3 DEF IsLast
<1> QED BY <1>4

\* A line that succeeded applies from now on.
LEMMA AppliesNow ==
  ASSUME NEW tb, GoodTable(tb), NEW t, IsTree(t), NEW i \in 1..Len(tb),
         NEW u, Effect(t, u, tb[i]), ~Dies(tb[i]), KindsAre(tb, t, i - 1)
  PROVE  Applies(tb, u, i)
<1> DEFINE l == tb[i]
           f == Followed(u, l.name)
           S == NodesTo(tb, i - 1)
<1>1. Made(t, u, l) /\ Grown(t, u) /\ ~Invalid(l) /\ l.type \in Types BY DEF Effect
<1>2. i - 1 \in Nat /\ S \subseteq 1..(i - 1)
  <2>1. Len(tb) \in Nat BY DEF GoodTable
  <2>2. i - 1 \in Nat BY <2>1
  <2> QED BY <2>2 DEF NodesTo
<1>3. ASSUME l.type = "f"
      PROVE  /\ f \in DOMAIN u /\ u[f].kind # "dir"
             /\ \A k \in 1 .. (i - 1) : tb[k].type \in DOMAIN Special => ~About(u, tb[k], f)
  <2>1. f \in DOMAIN t /\ t[f].kind = "file" BY <1>1, <1>3 DEF Made
  <2>2. f \in Files(t) BY <2>1 DEF Files
  <2> HIDE DEF f, S
  <2>3. ASSUME NEW k \in 1..(i - 1), tb[k].type \in DOMAIN Special, About(u, tb[k], f)
        PROVE  FALSE
    <3>1. k \in S BY <2>3 DEF NodesTo, S
    <3>2. About(t, tb[k], f) BY <1>1, <2>2, <2>3, AboutGrown
    <3>3. PICK j : IsLast(tb, t, f, S, j) BY <1>2, <3>1, <3>2, LastExists
    <3>4. j \in S BY <3>3 DEF IsLast
    <3>5. tb[j].type \in DOMAIN Special BY <3>4 DEF S, NodesTo
    <3>6. t[f].kind = Special[tb[j].type] BY <2>2, <3>3 DEF KindsAre, S
    <3> QED BY <2>1, <3>5, <3>6, SpecialTypes DEF Special
  <2> QED BY <1>1, <2>1, <2>3 DEF Grown
<1> QED BY <1>1, <1>3 DEF Applies, Made

LEMMA LineDone ==
  ASSUME NEW tb, GoodTable(tb), NEW t, IsTree(t), NEW i \in 1..Len(tb),
         NEW u, Effect(t, u, tb[i]), ~Dies(tb[i]), Done(tb, t, i - 1)
  PROVE  Done(tb, u, i)
<1>1. Len(tb) \in Nat /\ i \in Nat /\ i >= 1
  <2>1. Len(tb) \in Nat BY DEF GoodTable
  <2> QED BY <2>1
<1>2. /\ \A k \in 1..(i - 1) : Applies(tb, t, k)
      /\ KindsAre(tb, t, i - 1) /\ LinksAreRoots(t)
  BY DEF Done
<1>3. Grown(t, u) BY DEF Effect
<1>4. \A k \in 1..i : Applies(tb, u, k)
  <2>1. Applies(tb, u, i) BY <1>2, AppliesNow
  <2>2. \A k \in 1..(i - 1) : k \in 1..Len(tb) BY <1>1
  <2>3. \A k \in 1..(i - 1) : Applies(tb, u, k) BY <1>2, <1>3, <2>2, AppliesGrown
  <2>4. \A k \in 1..i : k = i \/ k \in 1..(i - 1) BY <1>1
  <2> QED BY <2>1, <2>3, <2>4
<1>5. KindsAre(tb, u, i) BY <1>2, KindsStep
<1>6. LinksAreRoots(u)
  <2>1. SUFFICES ASSUME NEW p \in DOMAIN u \ Files(u) PROVE u[p].uid = 0 /\ u[p].gid = 0
    BY DEF LinksAreRoots
  <2>2. p \in DOMAIN t \ Files(t) BY <1>3, GrownFacts
  <2>3. IsLink(t, p) BY <2>2 DEF Files, IsLink
  <2>4. u[p] = t[p] BY <2>2, <2>3 DEF Effect
  <2> QED BY <1>2, <2>2, <2>4 DEF LinksAreRoots
<1>7. ASSUME Ordered(tb, u) PROVE OwnersAre(tb, u, i) /\ ModesAre(tb, u, i)
  <2>1. Ordered(tb, t) BY <1>3, <1>7, OrderedGrown
  <2>2. OwnersAre(tb, t, i - 1) /\ ModesAre(tb, t, i - 1) BY <2>1 DEF Done
  <2> QED BY <1>2, <1>7, <2>2, OwnersStep
<1> QED BY <1>4, <1>5, <1>6, <1>7 DEF Done

LEMMA RestStep ==
  ASSUME NEW tb, GoodTable(tb), NEW t, IsTree(t), NEW i \in 1..Len(tb),
         NEW u, Effect(t, u, tb[i]), SameFiles(t, u),
         NEW b, IsTree(b), RestIs(tb, t, b, i - 1)
  PROVE  RestIs(tb, u, b, i)
<1> DEFINE l == tb[i]
           S == NodesTo(tb, i - 1)
           M == ModesTo(tb, i - 1)
<1>1. i \in Nat /\ i >= 1
  <2>1. Len(tb) \in Nat BY DEF GoodTable
  <2> QED BY <2>1
<1>2. /\ S \subseteq 1..(i - 1) /\ M \subseteq 1..(i - 1)
      /\ l.type \in DOMAIN Special => NodesTo(tb, i) = S \cup {i}
      /\ l.type \notin DOMAIN Special => NodesTo(tb, i) = S
      /\ l.mode # KeepMode => ModesTo(tb, i) = M \cup {i}
      /\ l.mode = KeepMode => ModesTo(tb, i) = M
  BY <1>1, OneMore
<1>3. Grown(t, u) /\ DOMAIN u = DOMAIN t BY DEF SameFiles
<1>4. SameFiles(b, t) BY DEF RestIs
<1>5. SameFiles(b, u) BY <1>3, <1>4, GrownOn DEF SameFiles
<1>6. ASSUME NEW p \in DOMAIN u \ Files(u) PROVE u[p] = b[p]
  <2>1. p \in DOMAIN t \ Files(t) BY <1>3, GrownFacts
  <2>2. IsLink(t, p) BY <2>1 DEF Files, IsLink
  <2>3. u[p] = t[p] BY <2>1, <2>2 DEF Effect
  <2> QED BY <2>1, <2>3 DEF RestIs
<1> HIDE DEF S, M
<1>7. ASSUME NEW p \in Files(u)
      PROVE  /\ NoneAsks(tb, u, p, ModesTo(tb, i)) => u[p].mode = b[p].mode
             /\ NoneAsks(tb, u, p, NodesTo(tb, i)) =>
                  u[p].kind = b[p].kind /\ u[p].dev = b[p].dev /\ u[p].to = b[p].to
  <2>1. p \in DOMAIN t /\ p \in Files(t) BY <1>3, GrownFacts DEF Files
  <2>2. \A k : About(u, tb[k], p) <=> About(t, tb[k], p) BY <1>3, <2>1, AboutGrown
  <2>3. /\ NoneAsks(tb, t, p, M) => t[p].mode = b[p].mode
        /\ NoneAsks(tb, t, p, S) => t[p].kind = b[p].kind /\ t[p].dev = b[p].dev /\ t[p].to = b[p].to
    BY <2>1 DEF RestIs, S, M
  <2>4. ASSUME NoneAsks(tb, u, p, ModesTo(tb, i)) PROVE u[p].mode = b[p].mode
    <3>1. NoneAsks(tb, t, p, M) BY <1>2, <2>2, <2>4 DEF NoneAsks
    <3>2. CASE About(u, l, p)
      <4>1. l.mode = KeepMode BY <1>2, <2>4, <3>2 DEF NoneAsks
      <4>2. u[p].mode = t[p].mode BY <2>1, <3>2, <4>1 DEF Effect, Given
      <4> QED BY <2>3, <3>1, <4>2
    <3>3. CASE ~About(u, l, p)
      <4>1. u[p] = t[p] BY <2>1, <3>3 DEF Effect
      <4> QED BY <2>3, <3>1, <4>1
    <3> QED BY <3>2, <3>3
  <2>5. ASSUME NoneAsks(tb, u, p, NodesTo(tb, i))
        PROVE  u[p].kind = b[p].kind /\ u[p].dev = b[p].dev /\ u[p].to = b[p].to
    <3>1. NoneAsks(tb, t, p, S) BY <1>2, <2>2, <2>5 DEF NoneAsks
    <3>2. CASE About(u, l, p)
      <4>1. l.type \notin DOMAIN Special BY <1>2, <2>5, <3>2 DEF NoneAsks
      <4>2. u[p].kind = t[p].kind /\ u[p].dev = t[p].dev /\ u[p].to = t[p].to
        BY <2>1, <3>2, <4>1 DEF Effect, Given
      <4> QED BY <2>3, <3>1, <4>2
    <3>3. CASE ~About(u, l, p)
      <4>1. u[p] = t[p] BY <2>1, <3>3 DEF Effect
      <4> QED BY <2>3, <3>1, <4>1
    <3> QED BY <3>2, <3>3
  <2> QED BY <2>4, <2>5
<1> QED BY <1>5, <1>6, <1>7 DEF RestIs

\* A line that applied once succeeds whenever the session comes to it.
LEMMA AppliesFits ==
  ASSUME NEW tb, GoodTable(tb), NEW t, IsTree(t), NEW i \in 1..Len(tb),
         Applies(tb, t, i), KindsAre(tb, t, i - 1)
  PROVE  Fits(t, tb[i])
<1> DEFINE l == tb[i]
           f == Followed(t, l.name)
<1>1. ASSUME l.type = "f" PROVE Stat(t, l.name) = "file"
  <2>1. /\ f \in DOMAIN t /\ t[f].kind # "dir"
        /\ \A k \in 1 .. (i - 1) : tb[k].type \in DOMAIN Special => ~About(t, tb[k], f)
    BY <1>1 DEF Applies
  <2>2. IsPath(l.name) BY DEF GoodTable, GoodLine
  <2>3. ~IsLink(t, f) BY <2>2, FollowedFree
  <2>4. f \in Files(t) BY <2>1, <2>3, FileIs
  <2>5. NoneAsks(tb, t, f, NodesTo(tb, i - 1)) BY <2>1 DEF NoneAsks, NodesTo
  <2>6. t[f].kind \notin Devices BY <2>4, <2>5 DEF KindsAre
  <2>7. t[f].kind \in Kinds BY <2>1 DEF IsTree, IsNode
  <2>8. t[f].kind # "link" BY <2>1, <2>3 DEF IsLink
  <2>9. t[f].kind = "file" BY <2>1, <2>6, <2>7, <2>8 DEF Kinds, Devices
  <2> QED BY <2>1, <2>9 DEF Stat
<1> QED BY <1>1 DEF Applies, Fits
----------------------------------------------------------------------------
(* One session after the other *)

\* Every tree is a function.
LEMMA OwnFunction ==
  ASSUME NEW t, IsFunction(t), NEW p, NEW l
  PROVE  IsFunction(Own(t, p, l).tree)
  BY DEF IsFunction, Own, OwnAll, Outcome

LEMMA OutcomesAreFunctions ==
  ASSUME NEW t, IsFunction(t), NEW l, NEW o \in Outcomes(t, l)
  PROVE  IsFunction(o.tree)
<1>1. CASE o = Outcome(t, FALSE) BY <1>1 DEF Outcome
<1>2. CASE o \in DirectoryLine(t, l)
  <2>1. IsFunction(MakeDirectory(t, l.name, l.mode)) BY DEF IsFunction, MakeDirectory
  <2> QED BY <1>2, <2>1, OwnFunction DEF DirectoryLine
<1>3. CASE o \in FileLine(t, l)
  BY <1>3, OwnFunction DEF FileLine, Outcome
<1>4. CASE o \in RecursiveLine(t, l)
  <2>1. \A ps : IsFunction(OwnAll(t, ps, l)) BY DEF IsFunction, OwnAll
  <2>2. o.tree = t \/ \E ps : o.tree = OwnAll(t, ps, l) BY <1>4 DEF RecursiveLine, Outcome
  <2> QED BY <2>1, <2>2
<1>5. CASE o \in NodeLine(t, l)
  BY <1>5 DEF NodeLine, Outcome, IsFunction
<1>6. \/ o = Outcome(t, FALSE) \/ o \in DirectoryLine(t, l) \/ o \in FileLine(t, l)
      \/ o \in RecursiveLine(t, l) \/ o \in NodeLine(t, l)
  BY SpecialTypes DEF Outcomes
<1> QED BY <1>1, <1>2, <1>3, <1>4, <1>5, <1>6

\* Before the first line: everything is root's, and nothing is a device.
LEMMA NothingDone ==
  ASSUME NEW tb, NEW t, IsTree(t),
         \A p \in DOMAIN t : t[p].uid = 0 /\ t[p].gid = 0 /\ t[p].kind \notin Devices
  PROVE  Done(tb, t, 0)
<1>1. 1..0 = {} OBVIOUS
<1>2. NodesTo(tb, 0) = {} /\ ModesTo(tb, 0) = {} BY <1>1 DEF NodesTo, ModesTo
<1>3. \A p, j : ~IsLast(tb, t, p, {}, j) BY DEF IsLast
<1> QED BY <1>1, <1>2, <1>3 DEF Done, KindsAre, OwnersAre, ModesAre, LinksAreRoots, Files

LEMMA RootsTree ==
  ASSUME NEW t, IsTree(t)
  PROVE  LET u == GivenToRoot(t)
         IN  /\ SameFiles(t, u) /\ IsFunction(u)
             /\ \A p \in DOMAIN t :
                  /\ u[p].kind = t[p].kind /\ u[p].to = t[p].to /\ u[p].dev = t[p].dev
                  /\ u[p].mode = t[p].mode /\ u[p].uid = 0 /\ u[p].gid = 0
                  /\ t[p].uid = 0 /\ t[p].gid = 0 => u[p] = t[p]
<1> DEFINE u == GivenToRoot(t)
<1>1. DOMAIN u = DOMAIN t /\ IsFunction(u) BY DEF GivenToRoot, IsFunction
<1>2. ASSUME NEW p \in DOMAIN t
      PROVE  /\ IsNode(u[p])
             /\ u[p].kind = t[p].kind /\ u[p].to = t[p].to /\ u[p].dev = t[p].dev
             /\ u[p].mode = t[p].mode /\ u[p].uid = 0 /\ u[p].gid = 0
             /\ t[p].uid = 0 /\ t[p].gid = 0 => u[p] = t[p]
  <2>1. u[p] = [t[p] EXCEPT !.uid = 0, !.gid = 0] BY DEF GivenToRoot
  <2>2. IsNode(t[p]) BY DEF IsTree
  <2> HIDE DEF u
  <2> QED BY <2>1, <2>2 DEF IsNode
<1> HIDE DEF u
<1>3. Grown(t, u) BY <1>1, <1>2, GrownIf
<1> QED BY <1>1, <1>2, <1>3 DEF SameFiles, u

LEMMA ForgottenTree ==
  ASSUME NEW t, IsTree(t)
  PROVE  LET u == Forgotten(t)
         IN  /\ SameFiles(t, u)
             /\ \A p \in DOMAIN t :
                  /\ u[p].kind \notin Devices /\ u[p].to = t[p].to /\ u[p].mode = t[p].mode
                  /\ u[p].uid = t[p].uid /\ u[p].gid = t[p].gid
                  /\ t[p].kind \notin Devices => u[p] = t[p]
<1> DEFINE u == Forgotten(t)
<1>1. DOMAIN u = DOMAIN t BY DEF Forgotten
<1>2. ASSUME NEW p \in DOMAIN t
      PROVE  /\ IsNode(u[p])
             /\ u[p].kind = IF t[p].kind \in Devices THEN "file" ELSE t[p].kind
             /\ u[p].to = t[p].to /\ u[p].mode = t[p].mode
             /\ u[p].uid = t[p].uid /\ u[p].gid = t[p].gid
             /\ t[p].kind \notin Devices => u[p] = t[p]
  <2>1. IsNode(t[p]) BY DEF IsTree
  <2>2. CASE t[p].kind \in Devices
    <3>1. u[p] = [t[p] EXCEPT !.kind = "file", !.dev = <<0, 0>>]
      BY <2>2 DEF Forgotten, Devices
    <3> HIDE DEF u
    <3> QED BY <2>1, <2>2, <3>1 DEF IsNode, Kinds
  <2>3. CASE t[p].kind \notin Devices
    <3>1. u[p] = t[p] BY <2>3 DEF Forgotten, Devices
    <3> QED BY <2>1, <2>3, <3>1
  <2> QED BY <2>2, <2>3
<1> HIDE DEF u
<1>3. \A p \in DOMAIN t : /\ t[p].kind = "dir" <=> u[p].kind = "dir"
                          /\ t[p].kind = "link" <=> u[p].kind = "link"
                          /\ u[p].kind \notin Devices
  BY <1>2 DEF Devices
<1>4. Grown(t, u) BY <1>1, <1>2, <1>3, GrownIf
<1> QED BY <1>1, <1>2, <1>3, <1>4 DEF SameFiles, u

\* The tree of the next session, and what it keeps of the last.
LEMMA NextSession ==
  ASSUME NEW tb, NEW t, IsTree(t), LinksAreRoots(t),
         NEW u, u = GivenToRoot(Forgotten(t))
  PROVE  /\ IsTree(u) /\ IsFunction(u) /\ SameFiles(t, u)
         /\ Done(tb, u, 0)
         /\ RestIs(tb, u, Forgotten(t), 0)
<1> DEFINE b == Forgotten(t)
<1>1. /\ SameFiles(t, b)
      /\ \A p \in DOMAIN t :
           /\ b[p].kind \notin Devices /\ b[p].to = t[p].to /\ b[p].mode = t[p].mode
           /\ b[p].uid = t[p].uid /\ b[p].gid = t[p].gid
           /\ t[p].kind \notin Devices => b[p] = t[p]
  BY ForgottenTree
<1>2. u = GivenToRoot(b) OBVIOUS
<1> HIDE DEF b
<1>3. IsTree(b) /\ Grown(t, b) /\ DOMAIN b = DOMAIN t BY <1>1 DEF SameFiles, Grown
<1>4. /\ SameFiles(b, u) /\ IsFunction(u)
      /\ \A p \in DOMAIN b :
           /\ u[p].kind = b[p].kind /\ u[p].to = b[p].to /\ u[p].dev = b[p].dev
           /\ u[p].mode = b[p].mode /\ u[p].uid = 0 /\ u[p].gid = 0
           /\ b[p].uid = 0 /\ b[p].gid = 0 => u[p] = b[p]
  BY <1>2, <1>3, RootsTree
<1>5. IsTree(u) /\ Grown(b, u) /\ DOMAIN u = DOMAIN b BY <1>4 DEF SameFiles, Grown
<1>6. SameFiles(t, u) BY <1>1, <1>3, <1>4, <1>5, GrownOn
<1>7. Done(tb, u, 0) BY <1>1, <1>3, <1>4, <1>5, NothingDone
<1>8. ASSUME NEW p \in DOMAIN u \ Files(u) PROVE u[p] = b[p]
  <2>1. p \in DOMAIN t \ Files(t)
    <3>1. Grown(t, u) BY <1>6 DEF SameFiles
    <3> QED BY <1>3, <1>5, <1>8, <3>1, GrownFacts
  <2>2. t[p].uid = 0 /\ t[p].gid = 0 BY <2>1 DEF LinksAreRoots
  <2> QED BY <1>1, <1>3, <1>4, <2>1, <2>2
<1>9. RestIs(tb, u, b, 0)
  BY <1>4, <1>5, <1>8 DEF RestIs, Files
<1> QED BY <1>4, <1>5, <1>6, <1>7, <1>9 DEF b

LEMMA FirstSession ==
  ASSUME NEW tb, NEW t \in Skeletons, NEW u, u = GivenToRoot(t)
  PROVE  IsTree(u) /\ IsFunction(u) /\ Done(tb, u, 0)
<1>1. IsTree(t) /\ \A p \in DOMAIN t : t[p].kind \in {"dir", "file", "link"}
  BY SkeletonsAreTrees
<1>2. /\ SameFiles(t, u) /\ IsFunction(u)
      /\ \A p \in DOMAIN t : u[p].kind = t[p].kind /\ u[p].uid = 0 /\ u[p].gid = 0
  BY <1>1, RootsTree
<1>3. IsTree(u) /\ DOMAIN u = DOMAIN t BY <1>2 DEF SameFiles, Grown
<1>4. \A p \in DOMAIN u : u[p].kind \notin Devices BY <1>1, <1>2, <1>3 DEF Devices
<1> QED BY <1>2, <1>3, <1>4, NothingDone

LEMMA SameNode ==
  ASSUME NEW m, IsNode(m), NEW n, IsNode(n), m.kind = n.kind, m.mode = n.mode,
         m.uid = n.uid, m.gid = n.gid, m.dev = n.dev, m.to = n.to
  PROVE  m = n
  BY DEF IsNode

\* A table leaves of one tree what it made of it before.
LEMMA SameImage ==
  ASSUME NEW tb, NEW n \in Nat, NEW t, IsTree(t), IsFunction(t),
         NEW u, IsTree(u), IsFunction(u),
         Done(tb, t, n), Done(tb, u, n), Ordered(tb, t), RestIs(tb, t, Forgotten(u), n)
  PROVE  t = u
<1> DEFINE b == Forgotten(u)
<1>1. /\ SameFiles(u, b)
      /\ \A p \in DOMAIN u :
           /\ b[p].kind \notin Devices /\ b[p].to = u[p].to /\ b[p].mode = u[p].mode
           /\ u[p].kind \notin Devices => b[p] = u[p]
  BY ForgottenTree
<1> HIDE DEF b
<1>2. RestIs(tb, t, b, n) BY DEF b
<1>3. SameFiles(u, t) BY <1>1, <1>2, GrownOn DEF RestIs, SameFiles
<1>4. Grown(u, t) /\ DOMAIN t = DOMAIN u BY <1>3 DEF SameFiles
<1>5. Files(t) = Files(u) BY <1>4, GrownFacts DEF Files
<1>6. Ordered(tb, u) BY <1>4, OrderedGrown
<1>7. /\ KindsAre(tb, t, n) /\ KindsAre(tb, u, n)
      /\ OwnersAre(tb, t, n) /\ OwnersAre(tb, u, n)
      /\ ModesAre(tb, t, n) /\ ModesAre(tb, u, n)
  BY <1>6 DEF Done
<1>8. NodesTo(tb, n) \subseteq 1..n /\ ModesTo(tb, n) \subseteq 1..n BY DEF NodesTo, ModesTo
<1>9. ASSUME NEW p \in Files(t) PROVE t[p] = u[p]
  <2>1. p \in DOMAIN t /\ p \in DOMAIN u /\ p \in Files(u) BY <1>4, <1>5 DEF Files
  <2>2. \A k : About(t, tb[k], p) <=> About(u, tb[k], p) BY <1>4, <1>5, AboutGrown
  <2>3. \A S, j : IsLast(tb, t, p, S, j) <=> IsLast(tb, u, p, S, j) BY <2>2 DEF IsLast
  <2>4. \A S : NoneAsks(tb, t, p, S) <=> NoneAsks(tb, u, p, S) BY <2>2 DEF NoneAsks
  <2>5. \A m : LastCopy(t, m, p) = LastCopy(u, m, p) BY <1>4, PlaceGrown
  <2>6. \A S : S \subseteq 1..n /\ ~NoneAsks(tb, t, p, S) => \E j : IsLast(tb, t, p, S, j)
    BY LastExists DEF NoneAsks
  <2>7. t[p].uid = u[p].uid /\ t[p].gid = u[p].gid
    <3>1. CASE NoneAsks(tb, t, p, 1..n)
      <4>1. t[p].uid = 0 /\ t[p].gid = 0 BY <1>7, <3>1 DEF OwnersAre
      <4>2. u[p].uid = 0 /\ u[p].gid = 0 BY <1>7, <2>1, <2>4, <3>1 DEF OwnersAre
      <4> QED BY <4>1, <4>2
    <3>2. CASE ~NoneAsks(tb, t, p, 1..n)
      <4>1. PICK j : IsLast(tb, t, p, 1..n, j) BY <2>6, <3>2
      <4>2. t[p].uid = Uid(tb[j]) /\ t[p].gid = Gid(tb[j]) BY <1>7, <4>1 DEF OwnersAre
      <4>3. u[p].uid = Uid(tb[j]) /\ u[p].gid = Gid(tb[j])
        BY <1>7, <2>1, <2>3, <4>1 DEF OwnersAre
      <4> QED BY <4>2, <4>3
    <3> QED BY <3>1, <3>2
  <2>8. t[p].mode = u[p].mode
    <3>1. CASE NoneAsks(tb, t, p, ModesTo(tb, n))
      <4>1. t[p].mode = b[p].mode BY <1>2, <3>1 DEF RestIs
      <4> QED BY <1>1, <2>1, <4>1
    <3>2. CASE ~NoneAsks(tb, t, p, ModesTo(tb, n))
      <4>1. PICK j : IsLast(tb, t, p, ModesTo(tb, n), j) BY <1>8, <2>6, <3>2
      <4>2. t[p].mode = tb[j].mode BY <1>7, <4>1 DEF ModesAre
      <4>3. u[p].mode = tb[j].mode BY <1>7, <2>1, <2>3, <4>1 DEF ModesAre
      <4> QED BY <4>2, <4>3
    <3> QED BY <3>1, <3>2
  <2>9. t[p].kind = u[p].kind /\ t[p].dev = u[p].dev /\ t[p].to = u[p].to
    <3>1. CASE NoneAsks(tb, t, p, NodesTo(tb, n))
      <4>1. t[p].kind = b[p].kind /\ t[p].dev = b[p].dev /\ t[p].to = b[p].to
        BY <1>2, <3>1 DEF RestIs
      <4>2. u[p].kind \notin Devices BY <1>7, <2>1, <2>4, <3>1 DEF KindsAre
      <4> QED BY <1>1, <2>1, <4>1, <4>2
    <3>2. CASE ~NoneAsks(tb, t, p, NodesTo(tb, n))
      <4>1. PICK j : IsLast(tb, t, p, NodesTo(tb, n), j) BY <1>8, <2>6, <3>2
      <4>2. /\ t[p].kind = Special[tb[j].type] /\ t[p].to = << >>
            /\ t[p].dev = BatchDev(tb[j], LastCopy(t, tb[j], p))
        BY <1>7, <4>1 DEF KindsAre
      <4>3. /\ u[p].kind = Special[tb[j].type] /\ u[p].to = << >>
            /\ u[p].dev = BatchDev(tb[j], LastCopy(u, tb[j], p))
        BY <1>7, <2>1, <2>3, <4>1 DEF KindsAre
      <4> QED BY <2>5, <4>2, <4>3
    <3> QED BY <3>1, <3>2
  <2>10. IsNode(t[p]) /\ IsNode(u[p]) BY <2>1 DEF IsTree
  <2> QED BY <2>7, <2>8, <2>9, <2>10, SameNode
<1>10. ASSUME NEW p \in DOMAIN t \ Files(t) PROVE t[p] = u[p]
  <2>1. t[p] = b[p] BY <1>2 DEF RestIs
  <2>2. p \in DOMAIN u /\ u[p].kind = "link" BY <1>4, <1>5 DEF Files
  <2> QED BY <1>1, <2>1, <2>2 DEF Devices
<1>11. \A p \in DOMAIN t : t[p] = u[p] BY <1>9, <1>10
<1>12. [p \in DOMAIN t |-> t[p]] = [p \in DOMAIN u |-> u[p]] BY <1>4, <1>11
<1> QED BY <1>12 DEF IsFunction

\* The steps of a session, between one line and the next.
LEMMA OneLine ==
  ASSUME NEW tb, GoodTable(tb), NEW t, IsTree(t), NEW ims, ims \in Seq(Range(ims)),
         NEW i \in 1..Len(tb), NEW o \in Outcomes(t, tb[i]),
         Invalid(tb[i]) \/ ~Dies(tb[i]),
         Done(tb, t, i - 1), Past(tb, t, ims), Again(tb, t, ims, i - 1)
  PROVE  /\ o.ok => Done(tb, o.tree, i)
         /\ ims # << >> => o.ok
         /\ Past(tb, o.tree, ims) /\ Again(tb, o.tree, ims, i)
<1> DEFINE l == tb[i]
           u == o.tree
<1>1. GoodLine(l) BY DEF GoodTable
<1>2. /\ Grown(t, u) /\ (o.ok => Effect(t, u, l))
      /\ Fits(t, l) => o.ok /\ SameFiles(t, u)
  BY <1>1, LineEffect
<1> HIDE DEF u
<1>3. o.ok => ~Dies(l) BY <1>2 DEF Effect
<1>4. o.ok => Done(tb, u, i) BY <1>2, <1>3, LineDone
<1>5. Len(ims) \in Nat /\ (Len(ims) = 0 => ims = << >>) OBVIOUS
<1>6. CASE ims = << >>
  <2>1. Len(ims) = 0 BY <1>6
  <2>2. 1..Len(ims) = {} BY <2>1
  <2> QED BY <1>4, <1>6, <2>2 DEF Past, Again, u
<1>7. CASE ims # << >>
  <2>1. /\ \A k \in 1 .. Len(tb) : Applies(tb, t, k)
        /\ Ordered(tb, t) => RestIs(tb, t, Forgotten(ims[Len(ims)]), i - 1)
    BY <1>7 DEF Again
  <2>2. KindsAre(tb, t, i - 1) BY DEF Done
  <2>3. Fits(t, l) BY <2>1, <2>2, AppliesFits
  <2>4. o.ok /\ SameFiles(t, u) /\ Effect(t, u, l) BY <1>2, <2>3
  <2>5. Ordered(tb, u) => Ordered(tb, t) BY <1>2, OrderedGrown
  <2>6. Past(tb, u, ims)
    <3>1. SUFFICES ASSUME NEW n \in 1..Len(ims)
                   PROVE  /\ IsTree(ims[n]) /\ IsFunction(ims[n]) /\ SameFiles(ims[n], u)
                          /\ Done(tb, ims[n], Len(tb))
                          /\ Ordered(tb, u) => ims[n] = ims[1]
      BY DEF Past
    <3>2. /\ IsTree(ims[n]) /\ IsFunction(ims[n]) /\ SameFiles(ims[n], t)
          /\ Done(tb, ims[n], Len(tb)) /\ (Ordered(tb, t) => ims[n] = ims[1])
      BY DEF Past
    <3>3. SameFiles(ims[n], u)
      <4>1. Grown(ims[n], t) BY <3>2 DEF SameFiles
      <4> QED BY <1>2, <2>4, <3>2, <4>1, GrownOn
    <3> QED BY <2>5, <3>2, <3>3
  <2>7. \A k \in 1 .. Len(tb) : Applies(tb, u, k) BY <1>2, <2>1, AppliesGrown
  <2>8. ASSUME Ordered(tb, u) PROVE RestIs(tb, u, Forgotten(ims[Len(ims)]), i)
    <3>1. Len(ims) \in 1..Len(ims) BY <1>5, <1>7
    <3>2. IsTree(ims[Len(ims)]) BY <3>1 DEF Past
    <3>3. PICK b : b = Forgotten(ims[Len(ims)]) OBVIOUS
    <3>4. IsTree(b) BY <3>2, <3>3, ForgottenTree DEF SameFiles, Grown
    <3>5. RestIs(tb, t, b, i - 1) BY <2>1, <2>5, <2>8, <3>3
    <3>6. RestIs(tb, u, b, i) BY <2>4, <3>4, <3>5, RestStep
    <3> QED BY <3>3, <3>6
  <2> QED BY <1>4, <1>7, <2>4, <2>6, <2>7, <2>8 DEF Again, u
<1> QED BY <1>6, <1>7

LEMMA OnePack ==
  ASSUME NEW tb, GoodTable(tb), NEW t, IsTree(t), IsFunction(t),
         NEW ims, ims \in Seq(Range(ims)), NEW v, v = Append(ims, t),
         Done(tb, t, Len(tb)), Past(tb, t, ims), Again(tb, t, ims, Len(tb))
  PROVE  Past(tb, t, v) /\ Again(tb, t, v, Len(tb)) /\ v # << >> /\ v[Len(v)] = t
<1>1. Len(ims) \in Nat /\ (Len(ims) = 0 => ims = << >>) OBVIOUS
<1>2. /\ v # << >> /\ Len(v) = Len(ims) + 1 /\ v[Len(v)] = t
      /\ \A n \in 1..Len(ims) : v[n] = ims[n]
  BY AppendProperties
<1>3. Len(tb) \in Nat BY DEF GoodTable
<1>4. ASSUME Ordered(tb, t) PROVE t = v[1]
  <2>1. CASE ims = << >>
    <3>1. Len(v) = 1 BY <1>2, <2>1
    <3> QED BY <1>2, <3>1
  <2>2. CASE ims # << >>
    <3>1. Len(ims) \in 1..Len(ims) /\ 1 \in 1..Len(ims) BY <1>1, <2>2
    <3>2. PICK u : u = ims[Len(ims)] OBVIOUS
    <3>3. IsTree(u) /\ IsFunction(u) /\ Done(tb, u, Len(tb)) /\ u = ims[1]
      BY <1>4, <3>1, <3>2 DEF Past
    <3>4. RestIs(tb, t, Forgotten(u), Len(tb)) BY <1>4, <2>2, <3>2 DEF Again
    <3>5. t = u BY <1>3, <1>4, <3>3, <3>4, SameImage
    <3> QED BY <1>2, <3>1, <3>3, <3>5
  <2> QED BY <2>1, <2>2
<1>5. Past(tb, t, v)
  <2>1. SUFFICES ASSUME NEW n \in 1..Len(v)
                 PROVE  /\ IsTree(v[n]) /\ IsFunction(v[n]) /\ SameFiles(v[n], t)
                        /\ Done(tb, v[n], Len(tb))
                        /\ Ordered(tb, t) => v[n] = v[1]
    BY DEF Past
  <2>2. CASE n = Len(v) BY <1>2, <1>4, <2>2, SameTree
  <2>3. CASE n # Len(v)
    <3>1. n \in 1..Len(ims) /\ 1 \in 1..Len(ims) BY <1>1, <1>2, <2>3
    <3>2. v[n] = ims[n] /\ v[1] = ims[1] BY <1>2, <3>1
    <3> QED BY <3>1, <3>2 DEF Past
  <2> QED BY <2>2, <2>3
<1>6. RestIs(tb, t, Forgotten(t), Len(tb))
  <2> DEFINE b == Forgotten(t)
  <2>1. /\ SameFiles(t, b)
        /\ \A p \in DOMAIN t :
             /\ b[p].kind \notin Devices /\ b[p].mode = t[p].mode
             /\ t[p].kind \notin Devices => b[p] = t[p]
    BY ForgottenTree
  <2> HIDE DEF b
  <2>2. IsTree(b) /\ DOMAIN b = DOMAIN t BY <2>1 DEF SameFiles, Grown
  <2>3. SameLinks(b, t) BY <2>1 DEF SameFiles, Grown, SameLinks
  <2>4. \A p \in DOMAIN b : b[p].kind = "dir" <=> t[p].kind = "dir"
    BY <2>1, <2>2 DEF SameFiles, Grown
  <2>5. SameFiles(b, t) BY <2>2, <2>3, <2>4 DEF SameFiles, Grown
  <2>6. \A p \in Files(t) : NoneAsks(tb, t, p, NodesTo(tb, Len(tb))) => t[p].kind \notin Devices
    BY DEF Done, KindsAre
  <2>7. \A p \in DOMAIN t \ Files(t) : t[p].kind \notin Devices BY DEF Files, Devices
  <2>8. \A p \in Files(t) : p \in DOMAIN t BY DEF Files
  <2>9. RestIs(tb, t, b, Len(tb)) BY <2>1, <2>5, <2>6, <2>7, <2>8 DEF RestIs
  <2> QED BY <2>9 DEF b
<1>7. \A k \in 1 .. Len(tb) : Applies(tb, t, k) BY DEF Done
<1> QED BY <1>2, <1>5, <1>6, <1>7 DEF Again

LEMMA OneNext ==
  ASSUME NEW tb, GoodTable(tb), NEW ims, ims \in Seq(Range(ims)), ims # << >>,
         NEW t, IsTree(t), t = ims[Len(ims)], NEW u, u = GivenToRoot(Forgotten(t)),
         NEW i, Past(tb, t, ims), Again(tb, t, ims, i)
  PROVE  /\ IsTree(u) /\ IsFunction(u) /\ Done(tb, u, 0)
         /\ Past(tb, u, ims) /\ Again(tb, u, ims, 0)
<1>1. Len(ims) \in Nat /\ Len(ims) \in 1..Len(ims) OBVIOUS
<1>2. Done(tb, t, Len(tb)) BY <1>1 DEF Past
<1>3. LinksAreRoots(t) BY <1>2 DEF Done
<1>4. /\ IsTree(u) /\ IsFunction(u) /\ SameFiles(t, u)
      /\ Done(tb, u, 0) /\ RestIs(tb, u, Forgotten(t), 0)
  BY <1>3, NextSession
<1>5. Grown(t, u) BY <1>4 DEF SameFiles
<1>6. \A k \in 1 .. Len(tb) : Applies(tb, u, k) BY <1>5, AppliesGrown DEF Again
<1>7. Ordered(tb, u) => Ordered(tb, t) BY <1>5, OrderedGrown
<1>8. ASSUME NEW n \in 1..Len(ims) PROVE SameFiles(ims[n], u)
  <2>1. IsTree(ims[n]) /\ SameFiles(ims[n], t) BY DEF Past
  <2>2. Grown(ims[n], t) BY <2>1 DEF SameFiles
  <2> QED BY <1>4, <1>5, <2>1, <2>2, GrownOn
<1>9. Past(tb, u, ims) BY <1>7, <1>8 DEF Past
<1>10. Again(tb, u, ims, 0) BY <1>4, <1>6 DEF Again
<1> QED BY <1>4, <1>9, <1>10
----------------------------------------------------------------------------
(* The invariant *)

LEMMA NoImages ==
  ASSUME NEW tb, NEW t, NEW ims, ims = << >>, NEW i
  PROVE  Past(tb, t, ims) /\ Again(tb, t, ims, i)
<1>1. Len(ims) = 0 OBVIOUS
<1> QED BY <1>1 DEF Past, Again

LEMMA InitInv == Init => IInv
<1>1. SUFFICES ASSUME Init PROVE IInv OBVIOUS
<1>2. PICK t \in Skeletons : tree = GivenToRoot(t) BY <1>1 DEF Init
<1>3. PICK tb, u : tb = table /\ u = tree OBVIOUS
<1>4. tb \in Tables /\ GoodTable(tb) BY <1>1, <1>3, TablesAreGood DEF Init
<1>5. IsTree(u) /\ IsFunction(u) /\ Done(tb, u, 0) BY <1>2, <1>3, FirstSession
<1>6. images = << >> /\ next = 1 /\ ret = 0 /\ pc = "lines" BY <1>1 DEF Init
<1>7. Len(tb) \in Nat BY <1>4 DEF GoodTable
<1>8. next \in 1..Len(tb) + 1 /\ next - 1 = 0 BY <1>6, <1>7
<1>9. << >> \in Seq(Range(images)) OBVIOUS
<1>10. TypeInv BY <1>3, <1>4, <1>5, <1>6, <1>8, <1>9 DEF TypeInv
<1>11. SessionInv BY <1>3, <1>5, <1>6, <1>8 DEF SessionInv
<1>12. ImagesInv /\ AgainInv BY <1>6, NoImages DEF ImagesInv, AgainInv
<1> QED BY <1>10, <1>11, <1>12 DEF IInv

LEMMA LineInv == IInv /\ Line => IInv'
<1>1. SUFFICES ASSUME IInv, Line PROVE IInv' OBVIOUS
<1>2. PICK tb, t, ims, i : tb = table /\ t = tree /\ ims = images /\ i = next OBVIOUS
<1>3. /\ tb \in Tables /\ IsTree(t) /\ IsFunction(t) /\ ims \in Seq(Range(ims))
      /\ ret \in {0, 1} /\ i \in 1..Len(tb) + 1
      /\ ret = 0 => Done(tb, t, i - 1)
      /\ ims # << >> => ret = 0
      /\ Past(tb, t, ims) /\ Again(tb, t, ims, i - 1)
  BY <1>1, <1>2 DEF IInv, TypeInv, SessionInv, ImagesInv, AgainInv
<1>4. GoodTable(tb) BY <1>3, TablesAreGood
<1>5. PICK o \in Outcomes(t, tb[i]) : tree' = o.tree /\ ret' = IF o.ok THEN ret ELSE 1
  BY <1>1, <1>2 DEF Line
<1>6. Invalid(tb[i]) \/ ~Dies(tb[i]) BY <1>1, <1>2 DEF Line
<1>7. Len(tb) \in Nat /\ i \in 1..Len(tb) /\ i + 1 \in 1..Len(tb) + 1 /\ (i + 1) - 1 = i
  <2>1. Len(tb) \in Nat BY <1>4 DEF GoodTable
  <2>2. i <= Len(tb) BY <1>1, <1>2 DEF Line
  <2> QED BY <1>3, <2>1, <2>2
<1>8. PICK u : u = o.tree OBVIOUS
<1>9. IsTree(u) /\ IsFunction(u)
  <2>1. GoodLine(tb[i]) BY <1>4, <1>7 DEF GoodTable
  <2>2. Grown(t, o.tree) BY <1>3, <2>1, LineEffect
  <2> QED BY <1>3, <1>8, <2>2, OutcomesAreFunctions DEF Grown
<1>10. /\ ret' = 0 => Done(tb, u, i)
       /\ ims # << >> => ret' = 0
       /\ Past(tb, u, ims) /\ Again(tb, u, ims, i)
  <2>1. CASE ret = 0
    <3>1. /\ o.ok => Done(tb, o.tree, i)
          /\ ims # << >> => o.ok
          /\ Past(tb, o.tree, ims) /\ Again(tb, o.tree, ims, i)
      BY <1>3, <1>4, <1>6, <1>7, <2>1, OneLine
    <3> QED BY <1>5, <1>8, <2>1, <3>1
  <2>2. CASE ret # 0
    <3>1. ims = << >> /\ ret' # 0 BY <1>3, <1>5, <2>2
    <3> QED BY <3>1, NoImages
  <2> QED BY <2>1, <2>2
<1>11. tree' = u BY <1>5, <1>8
<1>12. ret' \in {0, 1} BY <1>3, <1>5
<1>13. next' = i + 1 /\ table' = tb /\ pc' = "lines" /\ images' = ims
  BY <1>1, <1>2 DEF Line
<1>14. next' - 1 = i BY <1>7, <1>13
<1>15. TypeInv' BY <1>3, <1>7, <1>9, <1>11, <1>12, <1>13 DEF TypeInv
<1>16. SessionInv' BY <1>10, <1>11, <1>13, <1>14 DEF SessionInv
<1>17. ImagesInv' /\ AgainInv' BY <1>10, <1>11, <1>13, <1>14 DEF ImagesInv, AgainInv
<1> QED BY <1>15, <1>16, <1>17 DEF IInv

\* A name that is unknown ends the first session: the others would have failed there.
LEMMA DieInv == IInv /\ Die => IInv'
<1>1. SUFFICES ASSUME IInv, Die PROVE IInv' OBVIOUS
<1>2. /\ next <= Len(table) /\ Dies(table[next]) /\ ret' = 1 /\ pc' = "failed"
      /\ table' = table /\ tree' = tree /\ next' = next /\ images' = images
  BY <1>1 DEF Die
<1>3. images = << >>
  <2>1. SUFFICES ASSUME images # << >> PROVE FALSE OBVIOUS
  <2>2. \A k \in 1..Len(table) : Applies(table, tree, k)
    BY <1>1, <2>1 DEF IInv, AgainInv, Again
  <2>3. GoodTable(table) /\ next \in 1..Len(table) + 1
    <3>1. PICK tb : tb = table OBVIOUS
    <3>2. tb \in Tables BY <1>1, <3>1 DEF IInv, TypeInv
    <3>3. GoodTable(tb) BY <3>2, TablesAreGood
    <3> QED BY <1>1, <3>1, <3>3 DEF IInv, TypeInv
  <2>4. next \in 1..Len(table)
    <3>1. Len(table) \in Nat BY <2>3 DEF GoodTable
    <3> QED BY <1>2, <2>3, <3>1
  <2>5. ~Dies(table[next]) BY <2>2, <2>4 DEF Applies
  <2> QED BY <1>2, <2>5
<1>4. TypeInv' BY <1>1, <1>2 DEF IInv, TypeInv
<1>5. SessionInv' BY <1>2, <1>3 DEF SessionInv
<1>6. ImagesInv' /\ AgainInv' BY <1>2, <1>3, NoImages DEF ImagesInv, AgainInv
<1> QED BY <1>4, <1>5, <1>6 DEF IInv

LEMMA FailInv == IInv /\ Fail => IInv'
<1>1. SUFFICES ASSUME IInv, Fail PROVE IInv' OBVIOUS
<1>2. /\ ret # 0 /\ pc' = "failed" /\ ret' = ret
      /\ table' = table /\ tree' = tree /\ next' = next /\ images' = images
  BY <1>1 DEF Fail
<1>3. images = << >> BY <1>1, <1>2 DEF IInv, SessionInv
<1>4. TypeInv' BY <1>1, <1>2 DEF IInv, TypeInv
<1>5. SessionInv' BY <1>2, <1>3 DEF SessionInv
<1>6. ImagesInv' /\ AgainInv' BY <1>2, <1>3, NoImages DEF ImagesInv, AgainInv
<1> QED BY <1>4, <1>5, <1>6 DEF IInv

LEMMA PackInv == IInv /\ Pack => IInv'
<1>1. SUFFICES ASSUME IInv, Pack PROVE IInv' OBVIOUS
<1>2. PICK tb, t, ims, v : tb = table /\ t = tree /\ ims = images /\ v = images' OBVIOUS
<1>3. /\ tb \in Tables /\ IsTree(t) /\ IsFunction(t) /\ ims \in Seq(Range(ims))
      /\ next \in 1..Len(tb) + 1
      /\ ret = 0 => Done(tb, t, next - 1)
      /\ Past(tb, t, ims) /\ Again(tb, t, ims, next - 1)
  BY <1>1, <1>2 DEF IInv, TypeInv, SessionInv, ImagesInv, AgainInv
<1>4. /\ next > Len(tb) /\ ret = 0 /\ v = Append(ims, t) /\ pc' = "packed"
      /\ table' = tb /\ tree' = t /\ next' = next /\ ret' = 0
  BY <1>1, <1>2 DEF Pack
<1>5. GoodTable(tb) BY <1>3, TablesAreGood
<1>6. next - 1 = Len(tb)
  <2>1. Len(tb) \in Nat BY <1>5 DEF GoodTable
  <2> QED BY <1>3, <1>4, <2>1
<1>7. Done(tb, t, Len(tb)) /\ Again(tb, t, ims, Len(tb)) BY <1>3, <1>4, <1>6
<1>8. Past(tb, t, v) /\ Again(tb, t, v, Len(tb)) /\ v # << >> /\ v[Len(v)] = t
  BY <1>3, <1>4, <1>5, <1>7, OnePack
<1>9. v \in Seq(Range(v))
  <2>1. v \in Seq(Range(ims) \cup {t})
    <3>1. ims \in Seq(Range(ims) \cup {t}) BY <1>3
    <3> QED BY <1>4, <3>1, AppendProperties
  <2> QED BY <2>1 DEF Range
<1>10. TypeInv' BY <1>1, <1>2, <1>3, <1>4, <1>9 DEF TypeInv
<1>11. SessionInv' BY <1>2, <1>4, <1>6, <1>7, <1>8 DEF SessionInv
<1>12. ImagesInv' /\ AgainInv' BY <1>2, <1>4, <1>6, <1>8 DEF ImagesInv, AgainInv
<1> QED BY <1>10, <1>11, <1>12 DEF IInv

LEMMA NextImageInv == IInv /\ NextImage => IInv'
<1>1. SUFFICES ASSUME IInv, NextImage PROVE IInv' OBVIOUS
<1>2. PICK tb, t, ims, u, i :
        tb = table /\ t = tree /\ ims = images /\ u = tree' /\ i = next - 1 OBVIOUS
<1>3. /\ pc = "packed" /\ u = GivenToRoot(Forgotten(t)) /\ next' = 1 /\ pc' = "lines"
      /\ table' = tb /\ ret' = ret /\ images' = ims
  BY <1>1, <1>2 DEF NextImage
<1>4. /\ tb \in Tables /\ IsTree(t) /\ ims \in Seq(Range(ims)) /\ ret \in {0, 1}
      /\ ims # << >> /\ t = ims[Len(ims)] /\ ret = 0
      /\ Past(tb, t, ims) /\ Again(tb, t, ims, i)
  BY <1>1, <1>2, <1>3 DEF IInv, TypeInv, SessionInv, ImagesInv, AgainInv
<1>5. GoodTable(tb) BY <1>4, TablesAreGood
<1>6. /\ IsTree(u) /\ IsFunction(u) /\ Done(tb, u, 0)
      /\ Past(tb, u, ims) /\ Again(tb, u, ims, 0)
  BY <1>3, <1>4, <1>5, OneNext
<1>7. next' \in 1..Len(tb) + 1 /\ next' - 1 = 0
  <2>1. Len(tb) \in Nat BY <1>5 DEF GoodTable
  <2> QED BY <1>3, <2>1
<1>8. TypeInv' BY <1>2, <1>3, <1>4, <1>6, <1>7 DEF TypeInv
<1>9. SessionInv' BY <1>2, <1>3, <1>4, <1>6, <1>7 DEF SessionInv
<1>10. ImagesInv' /\ AgainInv' BY <1>2, <1>3, <1>6, <1>7 DEF ImagesInv, AgainInv
<1> QED BY <1>8, <1>9, <1>10 DEF IInv

LEMMA SameInv == IInv /\ UNCHANGED vars => IInv'
  BY DEF IInv, TypeInv, SessionInv, ImagesInv, AgainInv, vars

(***************************************************************************)
(* Whatever the table and the target tree, through every line of every     *)
(* session: the lines that were applied gave the files what they ask for,  *)
(* the images that are packed hold the same files as the tree, and a table *)
(* that could be applied once can be applied again.                        *)
(***************************************************************************)
THEOREM SessionsGoOn == Spec => []IInv
<1>1. IInv /\ [Next]_vars => IInv'
  BY LineInv, DieInv, FailInv, PackInv, NextImageInv, SameInv DEF Next
<1> QED BY InitInv, <1>1, PTL DEF Spec
----------------------------------------------------------------------------
(* What the images hold *)

LEMMA LastIs ==
  ASSUME NEW tb, NEW t, NEW p, NEW n \in Nat, NEW S, S \subseteq 1..n
  PROVE  LET is == {i \in S : About(t, tb[i], p)}
             last == IF is = {} THEN 0 ELSE Max(is)
         IN  /\ last = 0 <=> NoneAsks(tb, t, p, S)
             /\ last # 0 => IsLast(tb, t, p, S, last)
<1> DEFINE is == {i \in S : About(t, tb[i], p)}
<1>1. CASE is = {} BY <1>1 DEF NoneAsks
<1>2. CASE is # {}
  <2> DEFINE j == Max(is)
  <2>1. is \subseteq 0..n
    <3>1. \A m \in S : m \in 0..n OBVIOUS
    <3> QED BY <3>1
  <2>2. j \in is /\ \A m \in is : j >= m
    <3> HIDE DEF is
    <3> QED BY <1>2, <2>1, MaxIn
  <2>3. \A m \in S : m > j => m \notin is
    <3>1. \A m \in S : m \in Int OBVIOUS
    <3>2. j \in Int BY <2>2, <3>1
    <3> HIDE DEF j, is
    <3> QED BY <2>2, <3>1, <3>2
  <2>4. j # 0
    <3>1. j \in 1..n BY <2>2
    <3> HIDE DEF j
    <3> QED BY <3>1
  <2>5. IsLast(tb, t, p, S, j) BY <2>2, <2>3 DEF IsLast
  <2>6. ~NoneAsks(tb, t, p, S) BY <1>2 DEF NoneAsks
  <2> HIDE DEF j
  <2> QED BY <1>2, <2>4, <2>5, <2>6 DEF j
<1> QED BY <1>1, <1>2

\* The last node of a batch that leads to a file.
LEMMA LastCopyIs ==
  ASSUME NEW l \in LineType, l.type \in DOMAIN Special, NEW t, NEW p, About(t, l, p)
  PROVE  /\ LastCopy(t, l, p) \in Batch(l)
         /\ Followed(t, NodeName(l, LastCopy(t, l, p))) = p
<1>1. Count(l) \in Nat
  <2>1. l.nums \in Seq(Nat \cup {Dash}) BY DEF LineType
  <2>2. CASE \A j \in 1..5 : j <= Len(l.nums) /\ l.nums[j] # Dash
    <3>1. 5 <= Len(l.nums) /\ l.nums[5] # Dash BY <2>2
    <3>2. Len(l.nums) \in Nat BY <2>1
    <3>3. l.nums[5] \in Nat \cup {Dash} BY <2>1, <3>1, <3>2, ElementOfSeq
    <3> QED BY <2>2, <3>1, <3>3 DEF Count, Field
  <2>3. CASE ~\A j \in 1..5 : j <= Len(l.nums) /\ l.nums[j] # Dash
    BY <2>3 DEF Count, Field
  <2> QED BY <2>2, <2>3
<1>2. Copies(l) - 1 \in Nat BY <1>1 DEF Copies
<1>3. l.name \in Seq(Seq(STRING)) BY DEF LineType, Path
<1>4. \A n : NodeName(l, n) = BatchName(l, n) BY <1>3, PathIf, BatchNamePath
<1> DEFINE ns == {n \in Batch(l) : Place(t, l, n) = p}
<1>5. ns # {}
  <2>1. l.type # "r" BY SpecialTypes
  <2>2. \E n \in 0 .. (Copies(l) - 1) : Followed(t, BatchName(l, n)) = p
    BY <1>4, <2>1 DEF About
  <2> QED BY <2>2 DEF Batch, Place
<1>6. ns \subseteq 0 .. (Copies(l) - 1) BY DEF Batch
<1>7. Max(ns) \in ns
  <2> HIDE DEF ns
  <2> QED BY <1>2, <1>5, <1>6, MaxIn
<1>8. LastCopy(t, l, p) \in ns BY <1>7 DEF LastCopy
<1> QED BY <1>4, <1>8 DEF Place

LEMMA ImageIs ==
  ASSUME NEW tb \in Tables, table = tb, NEW t, IsTree(t), Done(tb, t, Len(tb)), Ordered(tb, t)
  PROVE  Described(t)
<1> DEFINE N == Len(tb)
<1>1. GoodTable(tb) BY TablesAreGood
<1>2. N \in Nat /\ DOMAIN table = 1..N BY <1>1 DEF GoodTable
<1>3. /\ NodeLines = NodesTo(tb, N)
      /\ {i \in DOMAIN table : table[i].mode # KeepMode} = ModesTo(tb, N)
  BY <1>2 DEF NodeLines, NodesTo, ModesTo
<1>4. KindsAre(tb, t, N) /\ OwnersAre(tb, t, N) /\ ModesAre(tb, t, N) BY DEF Done
<1>5. 1..N \subseteq 1..N /\ NodesTo(tb, N) \subseteq 1..N /\ ModesTo(tb, N) \subseteq 1..N
  BY DEF NodesTo, ModesTo
<1>6. {q \in DOMAIN t : t[q].kind # "link"} = Files(t) BY DEF Files
<1> HIDE DEF N
<1>7. ASSUME NEW p, NEW S, S \subseteq 1..N
      PROVE  /\ LastAsking(t, p, S) = 0 <=> NoneAsks(tb, t, p, S)
             /\ LastAsking(t, p, S) # 0 => IsLast(tb, t, p, S, LastAsking(t, p, S))
  <2>1. LastAsking(t, p, S) = LET is == {i \in S : About(t, tb[i], p)}
                              IN  IF is = {} THEN 0 ELSE Max(is)
    BY DEF LastAsking, Asked
  <2>2. N \in Nat BY <1>2
  <2>3. LET is == {i \in S : About(t, tb[i], p)}
            last == IF is = {} THEN 0 ELSE Max(is)
        IN  /\ last = 0 <=> NoneAsks(tb, t, p, S)
            /\ last # 0 => IsLast(tb, t, p, S, last)
    BY <1>7, <2>2, LastIs
  <2> QED BY <2>1, <2>3
<1>8. ASSUME NEW p \in Files(t)
      PROVE  LET owner == LastAsking(t, p, 1..N)
                 mode == LastAsking(t, p, ModesTo(tb, N))
                 node == LastAsking(t, p, NodesTo(tb, N))
                 l == tb[node]
             IN  /\ owner # 0 => t[p].uid = Uid(tb[owner]) /\ t[p].gid = Gid(tb[owner])
                 /\ mode # 0 => t[p].mode = tb[mode].mode
                 /\ t[p].kind \in {"chr", "blk", "fifo"} <=> node # 0
                 /\ node # 0 => /\ t[p].kind = Special[l.type]
                                /\ \E n \in 0 .. (Copies(l) - 1) :
                                      /\ Followed(t, NodeName(l, n)) = p
                                      /\ t[p].dev = <<Major(l), Minor(l) + n * Increment(l)>>
  <2> DEFINE owner == LastAsking(t, p, 1..N)
             mode == LastAsking(t, p, ModesTo(tb, N))
             node == LastAsking(t, p, NodesTo(tb, N))
             l == tb[node]
  <2>1. owner # 0 => t[p].uid = Uid(tb[owner]) /\ t[p].gid = Gid(tb[owner])
    BY <1>4, <1>5, <1>7 DEF OwnersAre
  <2>2. mode # 0 => t[p].mode = tb[mode].mode BY <1>4, <1>5, <1>7 DEF ModesAre
  <2>3. node = 0 => t[p].kind \notin Devices BY <1>4, <1>5, <1>7 DEF KindsAre
  <2>4. ASSUME node # 0
        PROVE  /\ t[p].kind = Special[l.type] /\ t[p].kind \in Devices
               /\ \E n \in 0 .. (Copies(l) - 1) :
                     /\ Followed(t, NodeName(l, n)) = p
                     /\ t[p].dev = <<Major(l), Minor(l) + n * Increment(l)>>
    <3>1. IsLast(tb, t, p, NodesTo(tb, N), node) BY <1>5, <1>7, <2>4
    <3> HIDE DEF node
    <3>2. t[p].kind = Special[l.type] /\ t[p].dev = BatchDev(l, LastCopy(t, l, p))
      BY <1>4, <3>1 DEF KindsAre
    <3>3. node \in NodesTo(tb, N) /\ About(t, l, p) BY <3>1 DEF IsLast
    <3>4. l.type \in DOMAIN Special /\ node \in 1..N BY <3>3 DEF NodesTo
    <3>5. l \in LineType BY <1>2, <3>4, TablesAreTables
    <3>6. LastCopy(t, l, p) \in Batch(l) /\ Followed(t, NodeName(l, LastCopy(t, l, p))) = p
      BY <3>3, <3>4, <3>5, LastCopyIs
    <3>7. Special[l.type] \in Devices BY <3>4, SpecialTypes DEF Special, Devices
    <3> QED BY <3>2, <3>6, <3>7 DEF Batch, BatchDev
  <2> HIDE DEF owner, mode, node
  <2>5. t[p].kind \in {"chr", "blk", "fifo"} <=> node # 0 BY <2>3, <2>4 DEF Devices
  <2> QED BY <2>1, <2>2, <2>4, <2>5 DEF owner, mode, node
<1> QED BY <1>2, <1>3, <1>6, <1>8 DEF Described

LEMMA ImageHas ==
  ASSUME NEW tb \in Tables, table = tb, NEW t, IsTree(t), Done(tb, t, Len(tb))
  PROVE  NothingIsMissing(t)
<1>1. GoodTable(tb) BY TablesAreGood
<1>2. DOMAIN table = 1..Len(tb) BY <1>1 DEF GoodTable
<1>3. ASSUME NEW i \in 1..Len(tb)
      PROVE  IF i \in NodeLines THEN \A n \in 0 .. (Copies(tb[i]) - 1) : Exists(t, NodeName(tb[i], n))
             ELSE Exists(t, tb[i].name)
  <2> DEFINE l == tb[i]
  <2>1. Applies(tb, t, i) BY DEF Done
  <2>2. IsPath(l.name) BY <1>1 DEF GoodTable, GoodLine
  <2>3. CASE i \in NodeLines
    <3>1. l.type \in DOMAIN Special BY <2>3 DEF NodeLines
    <3>2. \A n \in Batch(l) : Place(t, l, n) \in DOMAIN t BY <2>1, <3>1 DEF Applies
    <3>3. \A n : NodeName(l, n) = BatchName(l, n) /\ IsPath(BatchName(l, n)) BY <2>2, BatchNamePath
    <3> QED BY <2>3, <3>2, <3>3, ExistsIf DEF Batch, Place
  <2>4. CASE i \notin NodeLines
    <3>1. l.type \notin DOMAIN Special BY <1>2, <2>4 DEF NodeLines
    <3>2. l.type \in {"d", "f", "r"} BY <2>1, <3>1 DEF Applies, Types
    <3>3. Exists(t, l.name)
      <4>1. CASE l.type \in {"d", "f"}
        <5>1. Followed(t, l.name) \in DOMAIN t BY <2>1, <4>1 DEF Applies
        <5> QED BY <2>2, <5>1, ExistsIf
      <4>2. CASE l.type = "r" BY <2>1, <4>2 DEF Applies, Exists
      <4> QED BY <3>2, <4>1, <4>2
    <3> QED BY <2>4, <3>3
  <2> QED BY <2>3, <2>4
<1> QED BY <1>2, <1>3 DEF NothingIsMissing

LEMMA DescribedBy == IInv => ImagesAreDescribed
<1>1. SUFFICES ASSUME IInv, RecursiveLinesLast, NEW n \in DOMAIN images
               PROVE  Described(images[n]) /\ NothingIsMissing(images[n])
  BY DEF ImagesAreDescribed
<1>2. PICK tb, t, u : tb = table /\ t = tree /\ u = images[n] OBVIOUS
<1>3. tb \in Tables /\ IsTree(t) BY <1>1, <1>2 DEF IInv, TypeInv
<1>4. n \in 1..Len(images) BY <1>1 DEF IInv, TypeInv
<1>5. IsTree(u) /\ SameFiles(u, t) /\ Done(tb, u, Len(tb))
  BY <1>1, <1>2, <1>4 DEF IInv, ImagesInv, Past
<1>6. Ordered(tb, t) BY <1>1, <1>2 DEF RecursiveLinesLast, Ordered
<1>7. Ordered(tb, u) BY <1>5, <1>6, OrderedGrown DEF SameFiles
<1>8. table = tb BY <1>2
<1>9. Described(u) BY <1>3, <1>5, <1>7, <1>8, ImageIs
<1>10. NothingIsMissing(u) BY <1>3, <1>5, <1>8, ImageHas
<1> QED BY <1>2, <1>9, <1>10

LEMMA AgreeBy == IInv => ImagesAgree
<1>1. SUFFICES ASSUME IInv PROVE ImagesAgree OBVIOUS
<1>2. DOMAIN images = 1..Len(images) BY <1>1 DEF IInv, TypeInv
<1>3. RecursiveLinesLast => Ordered(table, tree) BY DEF RecursiveLinesLast, Ordered
<1>4. Ordered(table, tree) => \A n \in 1..Len(images) : images[n] = images[1]
  BY <1>1 DEF IInv, ImagesInv, Past
<1>5. pc = "failed" => images = << >> BY <1>1 DEF IInv, SessionInv
<1> QED BY <1>2, <1>3, <1>4, <1>5 DEF ImagesAgree

(***************************************************************************)
(* An image that is packed is the one the table describes: the owner, the  *)
(* mode, the kind and the device number of every file are those of the     *)
(* last line about it, through links and batches that overlap, in the      *)
(* first session and in those that find the files of the ones before.      *)
(***************************************************************************)
THEOREM ImagesAlwaysDescribed == Spec => []ImagesAreDescribed
  BY SessionsGoOn, DescribedBy, PTL

(***************************************************************************)
(* Every image of a build is the same, and the build does not fail for a   *)
(* later image after it made the first: what a session leaves in the       *)
(* target tree changes nothing of the next.                                *)
(***************************************************************************)
THEOREM ImagesAlwaysAgree == Spec => []ImagesAgree
  BY SessionsGoOn, AgreeBy, PTL
=============================================================================
