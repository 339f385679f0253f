-------------------------- MODULE PkgGenericProofs --------------------------
(***************************************************************************)
(* The step machine keeps its promises for every set of packages: what     *)
(* the stamps or make take for done is done, whatever recipe failed or was *)
(* interrupted before.                                                     *)
(***************************************************************************)
EXTENDS PkgGeneric, FiniteSetTheorems, SequenceTheorems, WellFoundedInduction, TLAPS

Kind == {"make", "reinstall", "rebuild", "reconfigure", "dirclean"}
Node == Pkg \X (Stamp \cup {"install"})
Work == [op : {"rm", "dirclean", "enter", "leave"}, t : Node]

TypeOK ==
  /\ mirror \subseteq Override
  /\ src \in [Pkg -> Gone .. MaxVer]
  /\ stamp \in [Pkg -> [Stamp -> Nat]]
  /\ art \in [Pkg -> [Place -> Value]]
  /\ patches \in [Pkg -> {"none", "some", "all"}]
  /\ cmd = Idle \/ cmd \in [kind : Kind, pkg : Pkg]
  /\ todo \in Seq(Work)
  /\ old \in [Target -> Nat \cup {Unseen}]
  /\ made \subseteq Target
  /\ running \in Target \cup {Nobody}
  /\ faults \in Seq({"stop", "clean"})

-----------------------------------------------------------------------------
\* What make has seen of a target, what it is at, and what it has done with.
Seen(t) == old[t] # Unseen
Open(t) == \E i \in DOMAIN todo : todo[i] = Item("leave", t)
Done(t) == Seen(t) /\ ~Open(t)

\* u is a prerequisite of t: one that counts or an order-only one, where the
\* phony target of a package stands for the stamps of its installation.
InstallSet(p) == {InstallStamps(p)[i] : i \in DOMAIN InstallStamps(p)}
Needs(t, u) ==
  \/ u[1] = t[1] /\ u[2] \in Inputs(t[1], t[2])
  \/ /\ t[2] = "configured"
     /\ \/ t[1] \in Override /\ u = <<t[1], "rsynced">>
        \/ /\ \E i \in DOMAIN Deps[t[1]] : u[1] = Deps[t[1]][i]
           /\ u[2] \in InstallSet(u[1])

\* To consider w is to consider u.
Promises(w, u) ==
  /\ w.op = "enter"
  /\ w.t = u \/ (w.t = <<u[1], "install">> /\ u[2] \in InstallSet(u[1]))

\* A target is higher than whatever it needs.
Rank == CHOOSE n \in [Pkg -> 0 .. Cardinality(Pkg)] :
          \A p \in Pkg : \A i \in DOMAIN Deps[p] : n[Deps[p][i]] < n[p]
Height(n) == 10 * Rank[n[1]] + (IF n[2] = "install" THEN 9 ELSE Level[n[2]])

\* An overridden package has no download, the other ones no rsync.
Valid(t) == IF t[1] \in Override THEN t[2] \notin {"source", "extracted", "patched"}
            ELSE t[2] # "rsynced"

\* The stamps that a command may remove.
Cleanable == Stamp \ {"source", "extracted", "patched"}

\* The work make has left: what it is at needs nothing that make has not seen
\* or is about to consider first, and files are removed before any is seen.
TodoInv ==
  /\ \A i \in DOMAIN todo :
       /\ todo[i].op = "rm" => todo[i].t \in Pkg \X Cleanable
       /\ todo[i].op = "leave" => todo[i].t \in Target /\ Seen(todo[i].t)
       /\ todo[i].op \in {"enter", "leave"} => Valid(todo[i].t)
       /\ todo[i].op \in {"rm", "dirclean"} =>
            /\ \A t \in Target : ~Seen(t)
            /\ \A j \in DOMAIN todo : j < i => todo[j].op = "rm"
  /\ \A i, j \in DOMAIN todo : i < j /\ todo[j].op = "leave" =>
       todo[i].op \in {"enter", "leave"} /\ Height(todo[i].t) < Height(todo[j].t)
  /\ \A j \in DOMAIN todo : todo[j].op = "leave" =>
       \A u \in Target : Needs(todo[j].t, u) =>
         Seen(u) \/ \E i \in DOMAIN todo : i < j /\ Promises(todo[i], u)

\* What the command asks for is seen or still to be considered.
GoalInv ==
  (cmd # Idle /\ cmd.kind # "dirclean") =>
    \A s \in InstallSet(cmd.pkg) :
      Seen(<<cmd.pkg, s>>) \/ \E i \in DOMAIN todo : Promises(todo[i], <<cmd.pkg, s>>)

\* What make is done with was up to date or is remade, and so is what it needs.
MakeInv ==
  /\ cmd = Idle => todo = << >> /\ \A t \in Target : ~Seen(t)
  /\ \A p \in Pkg, s \in Stamp : running = <<p, s>> =>
       todo # << >> /\ Head(todo) = Item("leave", <<p, s>>) /\ MustRemake(p, s)
  /\ \A t \in made : Done(t)
  /\ \A t, u \in Target : Done(t) /\ Needs(t, u) => Done(u)
  /\ \A t \in Target : Seen(t) => Valid(t)
  /\ \A p \in Pkg, s \in Stamp : Done(<<p, s>>) => <<p, s>> \in made \/ ~MustRemake(p, s)

-----------------------------------------------------------------------------
\* A hook has deleted the stamps of p in this make.
Wiped(p) == p \in mirror /\ <<p, "rsynced">> \in made

\* The times of the stamps: what make remade is newer than what it did not
\* touch, which is as it saw it; and what it is done with is up to date.
TimeInv ==
  \A p \in Pkg :
    /\ \A s \in Stamp : stamp[p][s] # 0 => Valid(<<p, s>>)
    /\ \A s, u \in Stamp : stamp[p][s] = stamp[p][u] /\ stamp[p][s] # 0 => s = u
    /\ \A s \in Stamp : <<p, s>> \in made => stamp[p][s] # 0
    /\ \A s, u \in Stamp :
         <<p, s>> \in made /\ <<p, u>> \notin made => stamp[p][u] < stamp[p][s]
    /\ \A s \in Stamp : <<p, s>> \notin made /\ Wiped(p) => stamp[p][s] = 0
    /\ \A s \in Stamp : <<p, s>> \notin made /\ ~Wiped(p) /\ Seen(<<p, s>>) =>
         stamp[p][s] = old[<<p, s>>]
    /\ \A s \in Stamp : Done(<<p, s>>) /\ ~Wiped(p) =>
         stamp[p][s] # 0 /\ \A d \in Inputs(p, s) : stamp[p][d] < stamp[p][s]

\* What make saw of s and of all it is made from was up to date.
Fresh(p, s) ==
  \A u \in Ancestors(p, s) :
    /\ Seen(<<p, u>>) /\ <<p, u>> \notin made /\ old[<<p, u>>] # 0
    /\ \A d \in Inputs(p, u) : old[<<p, d>>] <= old[<<p, u>>]

\* The stamps, what make saw of them or what it did make s taken for done.
Trusted(p, s) == Settled(p, s) \/ Fresh(p, s) \/ Done(<<p, s>>)

\* What the step has left is whole, and installed is what was built.
Good(p, s) ==
  /\ s \notin {"source", "patched"} => Whole(art[p][PlaceOf(s)])
  /\ s \in {"staging", "target", "images", "host"} => art[p][s] = art[p]["objects"]

\* What is taken for done is done, and the patches of a tree are not lost track
\* of; rsync leaves no torn tree.
ArtInv ==
  \A p \in Pkg :
    /\ \A s \in Stamp : Trusted(p, s) => Good(p, s)
    /\ p \in Override => art[p]["tree"] # Torn
    /\ p \in Patched => /\ patches[p] # "none" => Settled(p, "extracted")
                        /\ patches[p] = "all" <=> Settled(p, "patched")

\* A rebuild of an overridden package removes the stamps of what it installs,
\* so that make remakes it, from the source as it is.
Rebuilds(p) == cmd # Idle /\ cmd.kind \in {"rebuild", "reconfigure"} /\ cmd.pkg = p
Forced(p) == InstallSet(p) \cup {"rsynced", "built"}
Rebuilding(p) ==
  /\ \A s \in Forced(p) :
       /\ Seen(<<p, s>>) => old[<<p, s>>] = 0
       /\ \/ stamp[p][s] = 0 \/ <<p, s>> \in made
          \/ \E i \in DOMAIN todo : todo[i] = Item("rm", <<p, s>>)
  /\ <<p, "rsynced">> \in made => art[p]["tree"] = src[p]
  /\ <<p, "built">> \in made => art[p]["objects"] = src[p]
  /\ \A s \in InstallSet(p) : <<p, s>> \in made => art[p][s] = src[p]
SourceInv ==
  \A p \in Override : /\ src[p] > Gone /\ art[p]["tree"] <= src[p]
                      /\ Rebuilds(p) => Rebuilding(p)

IInv == TypeOK /\ TodoInv /\ GoalInv /\ MakeInv /\ TimeInv

-----------------------------------------------------------------------------
\* Facts about the graph of the stamps.

LEMMA InstallSetIs ==
  ASSUME NEW p
  PROVE  /\ InstallStamps(p) \in Seq(Stamp)
         /\ InstallSet(p) \subseteq {"staging", "target", "images", "host"}
<1> DEFINE S == {"staging", "target", "images", "host"}
<1>1. <<"host">> \in Seq(S) /\ <<"staging">> \in Seq(S) /\ <<"target">> \in Seq(S)
      /\ <<"images">> \in Seq(S) /\ << >> \in Seq(S)
  OBVIOUS
<1>2. \A a, b \in Seq(S) : a \o b \in Seq(S) OBVIOUS
<1>3. InstallStamps(p) \in Seq(S)
  <2> DEFINE a == IF p \in Staging THEN <<"staging">> ELSE << >>
             b == IF p \in NoTarget THEN << >> ELSE <<"target">>
             c == IF p \in Images THEN <<"images">> ELSE << >>
  <2> HIDE DEF S
  <2>1. a \in Seq(S) /\ b \in Seq(S) /\ c \in Seq(S) BY <1>1
  <2>2. (a \o b) \o c \in Seq(S)
    <3> HIDE DEF a, b, c
    <3> QED BY <1>2, <2>1
  <2>3. p \in Host => InstallStamps(p) = <<"host">> BY DEF InstallStamps
  <2>4. p \notin Host => InstallStamps(p) = (a \o b) \o c BY DEF InstallStamps
  <2> QED BY <1>1, <2>2, <2>3, <2>4
<1>4. S \subseteq Stamp BY DEF Stamp
<1> QED BY <1>3, <1>4 DEF InstallSet

LEMMA InputsAre ==
  ASSUME NEW p
  PROVE  /\ Inputs(p, "source") = {} /\ Inputs(p, "rsynced") = {}
         /\ Inputs(p, "extracted") = (IF p \in Override THEN {} ELSE {"source"})
         /\ Inputs(p, "patched") = (IF p \in Override THEN {} ELSE {"extracted"})
         /\ Inputs(p, "configured") = (IF p \in Override THEN {} ELSE {"patched"})
         /\ Inputs(p, "built") = {"configured"}
         /\ Inputs(p, "staging") = {"built"} /\ Inputs(p, "images") = {"built"}
         /\ Inputs(p, "host") = {"built"}
         /\ Inputs(p, "target") = {"built"} \cup (IF p \in Staging THEN {"staging"} ELSE {})
<1>1. Normal(p, "source") = << >> /\ Normal(p, "rsynced") = << >> BY Zenon DEF Normal
<1>2. /\ p \notin Override => Normal(p, "extracted") = <<"source">>
      /\ p \in Override => Normal(p, "extracted") = << >>
  BY Zenon DEF Normal
<1>3. /\ p \notin Override => Normal(p, "patched") = <<"extracted">>
      /\ p \in Override => Normal(p, "patched") = << >>
  BY Zenon DEF Normal
<1>4. /\ p \notin Override => Normal(p, "configured") = <<"patched">>
      /\ p \in Override => Normal(p, "configured") = << >>
  BY Zenon DEF Normal
<1>5. Normal(p, "built") = <<"configured">> BY Zenon DEF Normal
<1>6. Normal(p, "staging") = <<"built">> /\ Normal(p, "images") = <<"built">>
  BY Zenon DEF Normal
<1>7. Normal(p, "host") = <<"built">> BY Zenon DEF Normal
<1>8. /\ p \in Staging => Normal(p, "target") = <<"built", "staging">>
      /\ p \notin Staging => Normal(p, "target") = <<"built">>
  BY Zenon DEF Normal
<1> QED BY <1>1, <1>2, <1>3, <1>4, <1>5, <1>6, <1>7, <1>8 DEF Inputs

LEMMA InputsBelow ==
  ASSUME NEW p, NEW s \in Stamp, NEW d \in Inputs(p, s)
  PROVE  d \in Stamp /\ d \in Chain(p) /\ Level[d] < Level[s]
BY InputsAre DEF Stamp, Chain, Level

LEMMA InputsValid ==
  ASSUME NEW p, NEW s \in Stamp, NEW d \in Inputs(p, s)
  PROVE  Valid(<<p, d>>)
BY InputsAre DEF Stamp, Valid

\* The ancestors of a stamp: the inputs of one are among them, and each but
\* the stamp itself is an input of one.
LEMMA AncestorsAre ==
  ASSUME NEW p, NEW s \in Stamp
  PROVE  /\ s \in Ancestors(p, s) /\ Ancestors(p, s) \subseteq Stamp
         /\ \A u \in Ancestors(p, s) : Inputs(p, u) \subseteq Ancestors(p, s)
         /\ \A d \in Inputs(p, s) : Ancestors(p, d) \subseteq Ancestors(p, s)
<1>1. Chain(p) \subseteq Stamp BY DEF Chain, Stamp
<1>2. \A u \in Stamp : Level[u] \in Nat BY DEF Stamp, Level
<1> QED BY <1>1, <1>2, InputsBelow DEF Ancestors

LEMMA AncestorsServe ==
  ASSUME NEW p, NEW s \in Stamp, NEW d \in Ancestors(p, s), d # s
  PROVE  \E u \in Ancestors(p, s) : d \in Inputs(p, u)
<1> USE DEF Ancestors, Chain, Level
<1>1. d \in Chain(p) /\ Level[d] < Level[s] OBVIOUS
<1>2. CASE d = "source"
  <2>1. s = "extracted" \/ "extracted" \in Ancestors(p, s) BY <1>1, <1>2 DEF Stamp
  <2> QED BY <1>1, <1>2, <2>1, InputsAre
<1>3. CASE d = "extracted"
  <2>1. s = "patched" \/ "patched" \in Ancestors(p, s) BY <1>1, <1>3 DEF Stamp
  <2> QED BY <1>1, <1>3, <2>1, InputsAre
<1>4. CASE d = "patched"
  <2>1. s = "configured" \/ "configured" \in Ancestors(p, s) BY <1>1, <1>4 DEF Stamp
  <2> QED BY <1>1, <1>4, <2>1, InputsAre
<1>5. CASE d = "configured"
  <2>1. s = "built" \/ "built" \in Ancestors(p, s) BY <1>1, <1>5 DEF Stamp
  <2> QED BY <2>1, <1>5, InputsAre
<1>6. CASE d = "built" BY <1>1, <1>6, InputsAre DEF Stamp
<1>7. CASE d = "staging" BY <1>1, <1>7, InputsAre DEF Stamp
<1> QED BY <1>1, <1>2, <1>3, <1>4, <1>5, <1>6, <1>7

\* Whatever has a stamp and, with one, its inputs has all its ancestors.
LEMMA AncestorsLeast ==
  ASSUME NEW p, NEW s \in Stamp, NEW D, s \in D,
         \A u \in D \cap Stamp : Inputs(p, u) \subseteq D
  PROVE  Ancestors(p, s) \subseteq D
<1> USE InputsAre
<1>1. s \in {"staging", "images", "host", "target"} => "built" \in D BY DEF Stamp
<1>2. s = "target" /\ p \in Staging => "staging" \in D BY DEF Stamp
<1>3. Level[s] > 4 => "built" \in D BY <1>1 DEF Stamp, Level
<1>4. Level[s] > 3 => "configured" \in D BY <1>3 DEF Stamp, Level
<1>5. Level[s] > 2 /\ p \notin Override => "patched" \in D BY <1>4 DEF Stamp, Level
<1>6. Level[s] > 1 /\ p \notin Override => "extracted" \in D BY <1>5 DEF Stamp, Level
<1>7. Level[s] > 0 /\ p \notin Override => "source" \in D BY <1>6 DEF Stamp, Level
<1>8. SUFFICES ASSUME NEW d \in Chain(p), Level[d] < Level[s] PROVE d \in D
  BY DEF Ancestors
<1> QED BY <1>2, <1>3, <1>4, <1>5, <1>6, <1>7, <1>8 DEF Chain, Level, Stamp

\* No target is among what it needs.
LEMMA RankIs ==
  /\ Rank \in [Pkg -> Nat]
  /\ \A p \in Pkg : \A i \in DOMAIN Deps[p] : Rank[Deps[p][i]] < Rank[p]
<1>1. /\ Rank \in [Pkg -> 0 .. Cardinality(Pkg)]
      /\ \A p \in Pkg : \A i \in DOMAIN Deps[p] : Rank[Deps[p][i]] < Rank[p]
  BY AcyclicAssumption DEF Rank
<1>2. Cardinality(Pkg) \in Nat BY PkgAssumption, FS_CardinalityType
<1> QED BY <1>1, <1>2

LEMMA HeightType == ASSUME NEW n \in Node PROVE Height(n) \in Nat
BY RankIs DEF Node, Height, Level, Stamp

LEMMA DepsType == ASSUME NEW p \in Pkg, NEW i \in DOMAIN Deps[p] PROVE Deps[p][i] \in Pkg
BY PkgAssumption

LEMMA InputBelow ==
  ASSUME NEW p \in Pkg, NEW s \in Stamp, NEW d \in Inputs(p, s)
  PROVE  Height(<<p, d>>) < Height(<<p, s>>)
<1>1. d \in Stamp /\ Level[d] < Level[s] BY InputsBelow
<1>2. Rank[p] \in Nat /\ Level[d] \in Nat /\ Level[s] \in Nat
  BY <1>1, RankIs DEF Level, Stamp
<1>3. d # "install" /\ s # "install" BY <1>1 DEF Stamp
<1> QED BY <1>1, <1>2, <1>3 DEF Height

LEMMA DepBelow ==
  ASSUME NEW p \in Pkg, NEW i \in DOMAIN Deps[p], NEW s \in Stamp \cup {"install"}
  PROVE  Height(<<Deps[p][i], s>>) < Height(<<p, "configured">>)
<1>1. Rank[p] \in Nat /\ Rank[Deps[p][i]] \in Nat /\ Rank[Deps[p][i]] < Rank[p]
  BY RankIs, DepsType
<1>2. s # "install" => Level[s] \in 0 .. 6 BY DEF Level, Stamp
<1>3. Level["configured"] = 3 BY DEF Level
<1> QED BY <1>1, <1>2, <1>3 DEF Height

LEMMA RsyncBelow == ASSUME NEW p \in Pkg
                    PROVE  Height(<<p, "rsynced">>) < Height(<<p, "configured">>)
BY RankIs DEF Height, Level

LEMMA NeedsBelow ==
  ASSUME NEW t \in Target, NEW u \in Target, Needs(t, u)
  PROVE  Height(u) < Height(t)
<1>1. PICK p \in Pkg, s \in Stamp : t = <<p, s>> BY DEF Target
<1>2. PICK q \in Pkg, d \in Stamp : u = <<q, d>> BY DEF Target
<1>3. CASE q = p /\ d \in Inputs(p, s) BY <1>1, <1>2, <1>3, InputBelow
<1>4. CASE s = "configured" /\ u = <<p, "rsynced">> BY <1>1, <1>4, RsyncBelow
<1>5. CASE s = "configured" /\ \E i \in DOMAIN Deps[p] : q = Deps[p][i]
  BY <1>1, <1>2, <1>5, DepBelow
<1> QED BY <1>1, <1>2, <1>3, <1>4, <1>5 DEF Needs

\* The elements of a list.
Elems(a) == {a[i] : i \in DOMAIN a}

LEMMA ElemsConcat ==
  ASSUME NEW S, NEW a \in Seq(S), NEW b \in Seq(S)
  PROVE  Elems(a \o b) = Elems(a) \cup Elems(b)
<1>1. \A i \in DOMAIN (a \o b) : (a \o b)[i] \in Elems(a) \cup Elems(b)
  BY DEF Elems
<1>2. ASSUME NEW i \in DOMAIN a PROVE a[i] \in Elems(a \o b)
  <2>1. i \in DOMAIN (a \o b) /\ (a \o b)[i] = a[i] OBVIOUS
  <2> QED BY <2>1 DEF Elems
<1>3. ASSUME NEW i \in DOMAIN b PROVE b[i] \in Elems(a \o b)
  <2>1. i + Len(a) \in DOMAIN (a \o b) /\ (a \o b)[i + Len(a)] = b[i] OBVIOUS
  <2> QED BY <2>1 DEF Elems
<1> QED BY <1>1, <1>2, <1>3 DEF Elems

\* The list that make considers before a target is of what the target needs.
LEMMA PrerequisitesAre ==
  ASSUME NEW p \in Pkg, NEW s \in Stamp
  PROVE  /\ Prerequisites(p, s) \in Seq(Node)
         /\ Elems(Prerequisites(p, s)) =
              {<<p, d>> : d \in Inputs(p, s)}
              \cup (IF s = "configured"
                    THEN {<<Deps[p][i], "install">> : i \in DOMAIN Deps[p]}
                         \cup (IF p \in Override THEN {<<p, "rsynced">>} ELSE {})
                    ELSE {})
<1> DEFINE D == [i \in DOMAIN Deps[p] |-> <<Deps[p][i], "install">>]
           R == IF p \in Override THEN <<<<p, "rsynced">>>> ELSE << >>
           N == [i \in DOMAIN Normal(p, s) |-> <<p, Normal(p, s)[i]>>]
<1>1. D \in Seq(Node) /\ Elems(D) = {<<Deps[p][i], "install">> : i \in DOMAIN Deps[p]}
  <2>1. Deps[p] \in Seq(Pkg) BY PkgAssumption
  <2> QED BY <2>1 DEF Elems, Node
<1>2. R \in Seq(Node) /\ Elems(R) = IF p \in Override THEN {<<p, "rsynced">>} ELSE {}
  BY DEF Elems, Node, Stamp
<1>3. N \in Seq(Node) /\ Elems(N) = {<<p, d>> : d \in Inputs(p, s)}
  <2>1. Normal(p, s) \in Seq(Stamp)
    <3>1. /\ Normal(p, s) \in {<< >>, <<"source">>, <<"extracted">>, <<"patched">>,
                               <<"configured">>, <<"built">>, <<"built", "staging">>}
      BY Zenon DEF Normal
    <3>2. {"source", "extracted", "patched", "configured", "built", "staging"} \subseteq Stamp
      BY DEF Stamp
    <3>3. /\ << >> \in Seq(Stamp) /\ \A x \in Stamp : <<x>> \in Seq(Stamp)
          /\ \A x, y \in Stamp : <<x, y>> \in Seq(Stamp)
      OBVIOUS
    <3> QED BY <3>1, <3>2, <3>3
  <2> QED BY <2>1 DEF Elems, Node, Inputs
<1> HIDE DEF D, R, N
<1>4. Before(p, s) \in Seq(Node) /\ Elems(Before(p, s)) =
        IF s = "configured" THEN Elems(D) \cup Elems(R) ELSE {}
  <2>1. D \o R \in Seq(Node) /\ Elems(D \o R) = Elems(D) \cup Elems(R)
    BY <1>1, <1>2, ElemsConcat
  <2>2. << >> \in Seq(Node) /\ Elems(<< >>) = {} BY DEF Elems
  <2>3. s = "configured" => Before(p, s) = D \o R BY DEF Before, D, R
  <2>4. s # "configured" => Before(p, s) = << >> BY DEF Before
  <2> QED BY <2>1, <2>2, <2>3, <2>4
<1>5. Prerequisites(p, s) = Before(p, s) \o N BY DEF Prerequisites, N
<1>6. Prerequisites(p, s) \in Seq(Node) BY <1>3, <1>4, <1>5
<1>7. Elems(Prerequisites(p, s)) = Elems(Before(p, s)) \cup Elems(N)
  BY <1>3, <1>4, <1>5, ElemsConcat
<1> QED BY <1>1, <1>2, <1>3, <1>4, <1>6, <1>7

-----------------------------------------------------------------------------
\* The work that is left.

\* make replaces what it is to do next by the work A.
Expands(A) ==
  /\ todo' = A \o Tail(todo)
  /\ \A i \in DOMAIN A :
       /\ A[i].op \in {"enter", "leave"} /\ Valid(A[i].t)
       /\ Height(A[i].t) <= Height(Head(todo).t)
  /\ \A j \in DOMAIN A : A[j].op = "leave" =>
       /\ A[j].t \in Target /\ old'[A[j].t] # Unseen
       /\ \A i \in DOMAIN A : i < j => Height(A[i].t) < Height(A[j].t)
       /\ \A u \in Target : Needs(A[j].t, u) =>
            \E i \in DOMAIN A : i < j /\ Promises(A[i], u)
  /\ \A u \in Target : Promises(Head(todo), u) =>
       old'[u] # Unseen \/ \E i \in DOMAIN A : Promises(A[i], u)
  /\ Head(todo).op \in {"rm", "dirclean"} => A = << >> /\ old' = old

LEMMA Splice ==
  ASSUME todo \in Seq(Work), todo # << >>, NEW A \in Seq(Work), todo' = A \o Tail(todo)
  PROVE  /\ todo' \in Seq(Work) /\ Len(A) \in Nat
         /\ 1 \in DOMAIN todo /\ todo[1] = Head(todo)
         /\ \A i \in DOMAIN A : i \in DOMAIN todo' /\ todo'[i] = A[i] /\ i \in 1 .. Len(A)
         /\ \A i \in DOMAIN todo : i \in Nat /\ i >= 1 /\ (i > 1 =>
              Len(A) + i - 1 \in DOMAIN todo' /\ todo'[Len(A) + i - 1] = todo[i])
         /\ \A i \in DOMAIN todo' : i \in Nat /\ (i \notin DOMAIN A =>
              /\ i > Len(A) /\ i - Len(A) + 1 \in DOMAIN todo
              /\ todo'[i] = todo[i - Len(A) + 1])
OBVIOUS

LEMMA ExpandOpen ==
  ASSUME todo \in Seq(Work), todo # << >>, NEW A \in Seq(Work), todo' = A \o Tail(todo),
         NEW t
  PROVE  /\ Open(t)' => \/ \E i \in DOMAIN A : A[i] = Item("leave", t)
                        \/ \E i \in DOMAIN todo : i > 1 /\ todo[i] = Item("leave", t)
         /\ Open(t) => Open(t)' \/ Head(todo) = Item("leave", t)
         /\ (\E i \in DOMAIN A : A[i] = Item("leave", t)) => Open(t)'
<1>1. ASSUME NEW i \in DOMAIN todo', todo'[i] = Item("leave", t)
      PROVE  \/ \E j \in DOMAIN A : A[j] = Item("leave", t)
             \/ \E j \in DOMAIN todo : j > 1 /\ todo[j] = Item("leave", t)
  <2>1. CASE i \in DOMAIN A BY <1>1, <2>1, Splice
  <2>2. CASE i \notin DOMAIN A
    <3> DEFINE j == i - Len(A) + 1
    <3>1. j \in DOMAIN todo /\ todo[j] = Item("leave", t) /\ j > 1
      BY <1>1, <2>2, Splice
    <3> QED BY <3>1
  <2> QED BY <2>1, <2>2
<1>2. ASSUME NEW i \in DOMAIN todo, todo[i] = Item("leave", t),
             Head(todo) # Item("leave", t)
      PROVE  Open(t)'
  <2>1. i > 1 BY <1>2, Splice
  <2>2. Len(A) + i - 1 \in DOMAIN todo' /\ todo'[Len(A) + i - 1] = Item("leave", t)
    BY <1>2, <2>1, Splice
  <2> QED BY <2>2 DEF Open
<1>3. ASSUME NEW i \in DOMAIN A, A[i] = Item("leave", t) PROVE Open(t)'
  <2>1. i \in DOMAIN todo' /\ todo'[i] = Item("leave", t) BY <1>3, Splice
  <2> QED BY <2>1 DEF Open
<1> QED BY <1>1, <1>2, <1>3 DEF Open

\* What a step of make does to the work keeps its order.
LEMMA ExpandTodo ==
  ASSUME todo \in Seq(Work), todo # << >>, TodoInv, NEW A \in Seq(Work), Expands(A),
         \A t \in Target : Seen(t) => old'[t] # Unseen
  PROVE  TodoInv'
<1> DEFINE L == Len(A)
<1>1. todo' = A \o Tail(todo) BY DEF Expands
<1>2. ASSUME NEW i \in DOMAIN todo'
      PROVE  \/ i \in DOMAIN A /\ todo'[i] = A[i] /\ i <= L
             \/ /\ i > L /\ i - L + 1 \in DOMAIN todo /\ i - L + 1 > 1
                /\ todo'[i] = todo[i - L + 1]
  BY <1>1, Splice
<1>3. \A i \in DOMAIN todo' : i \in Nat /\ L \in Nat BY <1>1, Splice
<1>4. 1 \in DOMAIN todo /\ todo[1] = Head(todo) BY <1>1, Splice
<1>5. \A i \in DOMAIN todo : i > 1 /\ todo[i].op \in {"rm", "dirclean"} =>
        Head(todo).op = "rm"
  BY <1>4 DEF TodoInv
<1>6. ASSUME NEW i \in DOMAIN todo'
      PROVE  /\ todo'[i].op = "rm" => todo'[i].t \in Pkg \X Cleanable
             /\ todo'[i].op = "leave" => todo'[i].t \in Target /\ old'[todo'[i].t] # Unseen
             /\ todo'[i].op \in {"enter", "leave"} => Valid(todo'[i].t)
             /\ todo'[i].op \in {"rm", "dirclean"} =>
                  /\ \A t \in Target : old'[t] = Unseen
                  /\ \A j \in DOMAIN todo' : j < i => todo'[j].op = "rm"
  <2>1. CASE i \in DOMAIN A /\ todo'[i] = A[i] BY <2>1 DEF Expands
  <2>2. CASE i > L /\ i - L + 1 \in DOMAIN todo /\ i - L + 1 > 1 /\ todo'[i] = todo[i - L + 1]
    <3>1. /\ todo'[i].op = "rm" => todo'[i].t \in Pkg \X Cleanable
          /\ todo'[i].op = "leave" => todo'[i].t \in Target /\ old'[todo'[i].t] # Unseen
          /\ todo'[i].op \in {"enter", "leave"} => Valid(todo'[i].t)
      BY <2>2 DEF TodoInv, Seen
    <3>2. ASSUME todo'[i].op \in {"rm", "dirclean"}
          PROVE  /\ \A t \in Target : old'[t] = Unseen
                 /\ \A j \in DOMAIN todo' : j < i => todo'[j].op = "rm"
      <4>1. A = << >> /\ old' = old BY <1>5, <2>2, <3>2 DEF Expands
      <4>2. \A t \in Target : old'[t] = Unseen BY <2>2, <3>2, <4>1 DEF TodoInv, Seen
      <4>3. ASSUME NEW j \in DOMAIN todo', j < i PROVE todo'[j].op = "rm"
        <5>1. j \notin DOMAIN A BY <4>1
        <5>2. j > L /\ j - L + 1 \in DOMAIN todo /\ todo'[j] = todo[j - L + 1]
          BY <1>2, <5>1
        <5>3. j - L + 1 < i - L + 1 BY <1>3, <4>3
        <5> QED BY <2>2, <3>2, <5>2, <5>3 DEF TodoInv
      <4> QED BY <4>2, <4>3
    <3> QED BY <3>1, <3>2
  <2> QED BY <1>2, <2>1, <2>2
<1>7. ASSUME NEW i \in DOMAIN todo', NEW j \in DOMAIN todo', i < j, todo'[j].op = "leave"
      PROVE  todo'[i].op \in {"enter", "leave"} /\ Height(todo'[i].t) < Height(todo'[j].t)
  <2>1. CASE j \in DOMAIN A /\ todo'[j] = A[j] /\ j <= L
    <3>1. i \in DOMAIN A /\ todo'[i] = A[i] BY <1>2, <1>3, <1>7, <2>1
    <3> QED BY <1>7, <2>1, <3>1 DEF Expands
  <2>2. CASE j > L /\ j - L + 1 \in DOMAIN todo /\ j - L + 1 > 1 /\ todo'[j] = todo[j - L + 1]
    <3>1. CASE i \in DOMAIN A /\ todo'[i] = A[i]
      <4>1. Height(A[i].t) <= Height(Head(todo).t) /\ A[i].op \in {"enter", "leave"}
        BY <3>1 DEF Expands
      <4>2. Height(Head(todo).t) < Height(todo[j - L + 1].t)
        BY <1>4, <1>7, <2>2 DEF TodoInv
      <4>3. A[i].t \in Node /\ Head(todo).t \in Node /\ todo[j - L + 1].t \in Node
        <5>1. A[i] \in Work /\ Head(todo) \in Work /\ todo[j - L + 1] \in Work
          BY <1>4, <2>2, <3>1
        <5> QED BY <5>1 DEF Work
      <4>4. /\ Height(A[i].t) \in Nat /\ Height(Head(todo).t) \in Nat
            /\ Height(todo[j - L + 1].t) \in Nat
        BY <4>3, HeightType
      <4> QED BY <2>2, <3>1, <4>1, <4>2, <4>4
    <3>2. CASE i > L /\ i - L + 1 \in DOMAIN todo /\ todo'[i] = todo[i - L + 1]
      <4>1. i - L + 1 < j - L + 1 BY <1>3, <1>7
      <4> QED BY <1>7, <2>2, <3>2, <4>1 DEF TodoInv
    <3> QED BY <1>2, <3>1, <3>2
  <2> QED BY <1>2, <2>1, <2>2
<1>8. ASSUME NEW j \in DOMAIN todo', todo'[j].op = "leave",
             NEW u \in Target, Needs(todo'[j].t, u), old'[u] = Unseen
      PROVE  \E i \in DOMAIN todo' : i < j /\ Promises(todo'[i], u)
  <2>1. CASE j \in DOMAIN A /\ todo'[j] = A[j] /\ j <= L
    <3>1. PICK i \in DOMAIN A : i < j /\ Promises(A[i], u) BY <1>8, <2>1 DEF Expands
    <3>2. i \in DOMAIN todo' /\ todo'[i] = A[i] BY <1>1, Splice
    <3> QED BY <3>1, <3>2
  <2>2. CASE j > L /\ j - L + 1 \in DOMAIN todo /\ j - L + 1 > 1 /\ todo'[j] = todo[j - L + 1]
    <3>1. PICK i \in DOMAIN todo : i < j - L + 1 /\ Promises(todo[i], u)
      BY <1>8, <2>2 DEF TodoInv, Seen
    <3>2. CASE i = 1
      <4>1. PICK k \in DOMAIN A : Promises(A[k], u)
        BY <1>4, <1>8, <3>1, <3>2 DEF Expands
      <4>2. k \in DOMAIN todo' /\ todo'[k] = A[k] /\ k <= L BY <1>1, Splice
      <4>3. k < j BY <1>3, <2>2, <4>2
      <4> QED BY <4>1, <4>2, <4>3
    <3>3. CASE i # 1
      <4>1. L + i - 1 \in DOMAIN todo' /\ todo'[L + i - 1] = todo[i] /\ i \in Nat
        BY <1>1, <3>3, Splice
      <4>2. L + i - 1 < j BY <1>3, <3>1, <4>1
      <4> QED BY <3>1, <4>1, <4>2
    <3> QED BY <3>2, <3>3
  <2> QED BY <1>2, <2>1, <2>2
<1> QED
  <2>1. \A j \in DOMAIN todo' : todo'[j].op = "leave" =>
          \A u \in Target : Needs(todo'[j].t, u) =>
            old'[u] # Unseen \/ \E i \in DOMAIN todo' : i < j /\ Promises(todo'[i], u)
    BY <1>8
  <2>2. \A i, j \in DOMAIN todo' : i < j /\ todo'[j].op = "leave" =>
          todo'[i].op \in {"enter", "leave"} /\ Height(todo'[i].t) < Height(todo'[j].t)
    BY <1>7
  <2> QED BY <1>6, <2>1, <2>2 DEF TodoInv, Seen, Needs, Promises, Height, Valid

LEMMA ExpandGoal ==
  ASSUME todo \in Seq(Work), todo # << >>, GoalInv, NEW A \in Seq(Work), Expands(A),
         \A t \in Target : Seen(t) => old'[t] # Unseen, cmd' = cmd, TypeOK
  PROVE  GoalInv'
<1>1. todo' = A \o Tail(todo) BY DEF Expands
<1> SUFFICES ASSUME cmd # Idle, cmd.kind # "dirclean", NEW s \in InstallSet(cmd.pkg),
                    old'[<<cmd.pkg, s>>] = Unseen
             PROVE  \E i \in DOMAIN todo' : Promises(todo'[i], <<cmd.pkg, s>>)
  BY DEF GoalInv, InstallSet, Promises, Seen
<1>2. <<cmd.pkg, s>> \in Target
  BY InstallSetIs DEF TypeOK, Target, Stamp
<1>3. PICK i \in DOMAIN todo : Promises(todo[i], <<cmd.pkg, s>>)
  BY <1>2 DEF GoalInv, Seen
<1>4. CASE i = 1
  <2>1. PICK k \in DOMAIN A : Promises(A[k], <<cmd.pkg, s>>)
    BY <1>1, <1>2, <1>3, <1>4, Splice DEF Expands
  <2>2. k \in DOMAIN todo' /\ todo'[k] = A[k] BY <1>1, Splice
  <2> QED BY <2>1, <2>2
<1>5. CASE i # 1
  <2>1. Len(A) + i - 1 \in DOMAIN todo' /\ todo'[Len(A) + i - 1] = todo[i]
    BY <1>1, <1>5, Splice
  <2> QED BY <1>3, <2>1
<1> QED BY <1>4, <1>5

\* What make is at has all it needs done.
LEMMA LeaveNeeds ==
  ASSUME TypeOK, TodoInv, NEW t \in Target, todo # << >>, Head(todo) = Item("leave", t)
  PROVE  /\ Seen(t) /\ Open(t) /\ Valid(t)
         /\ \A u \in Target : Needs(t, u) => Done(u)
<1>1. 1 \in DOMAIN todo /\ todo[1] = Item("leave", t) /\ \A i \in DOMAIN todo : i \in Nat /\ i >= 1
  BY DEF TypeOK
<1>2. todo[1].op = "leave" /\ todo[1].t = t BY <1>1 DEF Item
<1>3. Seen(t) /\ Open(t) /\ Valid(t) BY <1>1, <1>2 DEF TodoInv, Open
<1>4. ASSUME NEW u \in Target, Needs(t, u) PROVE Seen(u)
  <2>1. Seen(u) \/ \E i \in DOMAIN todo : i < 1 /\ Promises(todo[i], u)
    BY <1>1, <1>2, <1>4 DEF TodoInv
  <2> QED BY <1>1, <2>1
<1>5. ASSUME NEW u \in Target, Needs(t, u) PROVE ~Open(u)
  <2>1. Height(u) < Height(t) BY <1>5, NeedsBelow
  <2>2. Height(u) \in Nat /\ Height(t) \in Nat
    BY HeightType DEF Target, Node
  <2> SUFFICES ASSUME NEW i \in DOMAIN todo, todo[i] = Item("leave", u) PROVE FALSE
    BY DEF Open
  <2>3. todo[i].op = "leave" /\ todo[i].t = u BY DEF Item
  <2>4. i = 1 \/ i > 1 BY <1>1
  <2>5. CASE i = 1 BY <1>2, <2>1, <2>2, <2>3, <2>5
  <2>6. CASE i > 1
    <3>1. Height(t) < Height(u) BY <1>1, <1>2, <2>3, <2>6 DEF TodoInv
    <3> QED BY <2>1, <2>2, <3>1
  <2> QED BY <2>4, <2>5, <2>6
<1> QED BY <1>3, <1>4, <1>5 DEF Done

\* make drops what it has done next.
LEMMA PopWork ==
  ASSUME TypeOK, TodoInv, GoalInv, todo # << >>, todo' = Tail(todo), old' = old, cmd' = cmd,
         \A u \in Target : Promises(Head(todo), u) => Seen(u)
  PROVE  /\ TodoInv' /\ GoalInv' /\ todo' \in Seq(Work)
         /\ \A t \in Target : Open(t)' <=> Open(t) /\ Head(todo) # Item("leave", t)
<1> DEFINE A == << >>
<1>1. A \in Seq(Work) /\ todo \in Seq(Work) BY DEF TypeOK
<1>2. todo' = A \o Tail(todo) BY <1>1
<1>3. Expands(A) BY <1>2 DEF Expands, Seen
<1>4. \A t \in Target : Seen(t) => old'[t] # Unseen BY DEF Seen
<1>5. TodoInv' BY <1>1, <1>3, <1>4, ExpandTodo
<1>6. GoalInv' BY <1>1, <1>3, <1>4, ExpandGoal
<1>7. todo' \in Seq(Work) BY <1>1, <1>2, Splice
<1>8. ASSUME NEW t \in Target
      PROVE  Open(t)' <=> Open(t) /\ Head(todo) # Item("leave", t)
  <2>0. DOMAIN A = {} OBVIOUS
  <2> HIDE DEF A
  <2>1. Open(t)' => \E i \in DOMAIN todo : i > 1 /\ todo[i] = Item("leave", t)
    BY <1>1, <1>2, <2>0, ExpandOpen
  <2>2. Open(t) => Open(t)' \/ Head(todo) = Item("leave", t)
    BY <1>1, <1>2, ExpandOpen
  <2>3. ASSUME NEW i \in DOMAIN todo, i > 1, todo[i] = Item("leave", t)
        PROVE  Head(todo) # Item("leave", t)
    <3>1. 1 \in DOMAIN todo /\ todo[1] = Head(todo) BY <1>1
    <3>2. Height(todo[1].t) < Height(todo[i].t) BY <2>3, <3>1 DEF TodoInv, Item
    <3>3. Height(t) \in Nat BY HeightType DEF Target, Node
    <3> QED BY <2>3, <3>1, <3>2, <3>3 DEF Item
  <2> QED BY <2>1, <2>2, <2>3 DEF Open
<1> QED BY <1>5, <1>6, <1>7, <1>8

\* make considers the phony target of a package: nothing is open but what was.
LEMMA InstallWork ==
  ASSUME TypeOK, TodoInv, GoalInv, NEW p \in Pkg, EnterInstall(p)
  PROVE  /\ TodoInv' /\ GoalInv' /\ todo' \in Seq(Work)
         /\ \A t \in Target : Open(t)' <=> Open(t)
<1> DEFINE A == Items("enter", Goal(p))
<1>1. /\ todo \in Seq(Work) /\ todo # << >> /\ Head(todo) = Item("enter", <<p, "install">>)
      /\ todo' = A \o Tail(todo) /\ old' = old /\ cmd' = cmd
  BY DEF EnterInstall, Doing, TypeOK
<1>2. /\ DOMAIN A = DOMAIN InstallStamps(p)
      /\ \A i \in DOMAIN A : A[i] = Item("enter", <<p, InstallStamps(p)[i]>>)
  BY DEF Items, Goal
<1>3. A \in Seq(Work)
  <2>1. InstallStamps(p) \in Seq(Stamp) BY InstallSetIs
  <2>2. Goal(p) \in Seq(Node) BY <2>1 DEF Goal, Node
  <2> HIDE DEF A
  <2>3. A \in Seq(Work)
    <3>1. \A n \in Node : Item("enter", n) \in Work BY DEF Item, Work
    <3> QED BY <2>2, <3>1 DEF A, Items
  <2> QED BY <2>3
<1>4. \A i \in DOMAIN A : InstallStamps(p)[i] \in {"staging", "target", "images", "host"}
  BY <1>2, InstallSetIs DEF InstallSet
<1>5. Expands(A)
  <2>1. Head(todo).op = "enter" /\ Head(todo).t = <<p, "install">> BY <1>1 DEF Item
  <2>2. ASSUME NEW i \in DOMAIN A
        PROVE  /\ A[i].op = "enter" /\ Valid(A[i].t)
               /\ Height(A[i].t) <= Height(Head(todo).t)
    <3>1. A[i].op = "enter" /\ A[i].t = <<p, InstallStamps(p)[i]>> BY <1>2 DEF Item
    <3>2. Valid(A[i].t) BY <1>4, <3>1 DEF Valid
    <3>3. Rank[p] \in Nat BY RankIs
    <3>4. Height(A[i].t) <= Height(<<p, "install">>)
      BY <1>4, <3>1, <3>3 DEF Height, Level
    <3> QED BY <2>1, <3>1, <3>2, <3>4
  <2>3. ASSUME NEW u \in Target, Promises(Head(todo), u)
        PROVE  \E i \in DOMAIN A : Promises(A[i], u)
    <3>1. u[1] = p /\ u[2] \in InstallSet(p)
      BY <2>1, <2>3 DEF Promises, Target, Stamp
    <3>2. PICK i \in DOMAIN InstallStamps(p) : u[2] = InstallStamps(p)[i]
      BY <3>1 DEF InstallSet
    <3>3. u = <<p, InstallStamps(p)[i]>> BY <3>1, <3>2 DEF Target
    <3>4. A[i].op = "enter" /\ A[i].t = u BY <1>2, <3>3 DEF Item
    <3> QED BY <1>2, <3>4 DEF Promises
  <2> QED BY <1>1, <2>1, <2>2, <2>3 DEF Expands
<1>6. \A t \in Target : Seen(t) => old'[t] # Unseen BY <1>1 DEF Seen
<1> HIDE DEF A
<1>7. TodoInv' BY <1>1, <1>3, <1>5, <1>6, ExpandTodo
<1>8. GoalInv' BY <1>1, <1>3, <1>5, <1>6, ExpandGoal
<1>9. todo' \in Seq(Work) BY <1>1, <1>3, Splice
<1>10. \A t \in Target : Open(t)' <=> Open(t)
  <2>1. ASSUME NEW t \in Target PROVE Open(t)' => Open(t)
    <3>1. \A i \in DOMAIN A : A[i] # Item("leave", t) BY <1>2 DEF Item
    <3> QED BY <1>1, <1>3, <3>1, ExpandOpen DEF Open
  <2>2. ASSUME NEW t \in Target PROVE Open(t) => Open(t)'
    <3>1. Head(todo) # Item("leave", t) BY <1>1 DEF Item
    <3> QED BY <1>1, <1>3, <3>1, ExpandOpen
  <2> QED BY <2>1, <2>2
<1> QED BY <1>7, <1>8, <1>9, <1>10

\* make considers a target for the first time: it is at it now.
LEMMA EnterWork ==
  ASSUME TypeOK, TodoInv, GoalInv, NEW p \in Pkg, NEW s \in Stamp,
         Enter(p, s), ~Seen(<<p, s>>)
  PROVE  /\ TodoInv' /\ GoalInv' /\ todo' \in Seq(Work)
         /\ Valid(<<p, s>>)
         /\ \A t \in Target : Open(t)' <=> Open(t) \/ t = <<p, s>>
<1> DEFINE P == Prerequisites(p, s)
           E == Items("enter", P)
           A == E \o <<Item("leave", <<p, s>>)>>
<1>1. /\ todo \in Seq(Work) /\ todo # << >> /\ Head(todo) = Item("enter", <<p, s>>)
      /\ 1 \in DOMAIN todo /\ todo[1] = Head(todo)
      /\ todo' = A \o Tail(todo) /\ cmd' = cmd
      /\ old' = [old EXCEPT ![<<p, s>>] = stamp[p][s]]
  BY DEF Enter, Doing, TypeOK, Seen
<1>2. P \in Seq(Node) /\ \A i \in DOMAIN P : P[i] \in Elems(P)
  BY PrerequisitesAre DEF Elems
<1> HIDE DEF P
<1>3. /\ E \in Seq(Work) /\ DOMAIN E = DOMAIN P
      /\ \A i \in DOMAIN E : E[i] = Item("enter", P[i])
  <2>1. \A n \in Node : Item("enter", n) \in Work BY DEF Item, Work
  <2> QED BY <1>2, <2>1 DEF Items
<1>4. Item("leave", <<p, s>>) \in Work BY DEF Item, Work, Node
<1> HIDE DEF E
<1>5. /\ A \in Seq(Work) /\ Len(E) \in Nat /\ Len(A) = Len(E) + 1
      /\ DOMAIN A = 1 .. Len(A) /\ DOMAIN E = 1 .. Len(E)
      /\ \A i \in DOMAIN E : A[i] = E[i]
      /\ A[Len(A)] = Item("leave", <<p, s>>)
  BY <1>3, <1>4
<1>6. \A i \in DOMAIN A : i \in DOMAIN E \/ i = Len(A) BY <1>5
<1> HIDE DEF A
<1>7. <<p, s>> \in Target BY DEF Target
<1>8. Head(todo).op = "enter" /\ Head(todo).t = <<p, s>> /\ Valid(<<p, s>>)
  <2>1. Head(todo).op = "enter" /\ Head(todo).t = <<p, s>> BY <1>1 DEF Item
  <2>2. Valid(todo[1].t) BY <1>1, <2>1 DEF TodoInv
  <2> QED BY <1>1, <2>1, <2>2
<1>9. \A i \in DOMAIN E : /\ A[i].op = "enter" /\ A[i].t = P[i] /\ Valid(P[i])
                          /\ Height(P[i]) < Height(<<p, s>>)
  <2>1. ASSUME NEW n \in Elems(P) PROVE Valid(n) /\ Height(n) < Height(<<p, s>>)
    <3>1. CASE n \in {<<p, d>> : d \in Inputs(p, s)}
      BY <3>1, InputBelow, InputsValid
    <3>2. CASE s = "configured" /\ n \in {<<Deps[p][i], "install">> : i \in DOMAIN Deps[p]}
      BY <3>2, DepBelow DEF Valid
    <3>3. CASE s = "configured" /\ p \in Override /\ n = <<p, "rsynced">>
      BY <3>3, RsyncBelow DEF Valid
    <3>4. \/ n \in {<<p, d>> : d \in Inputs(p, s)}
          \/ s = "configured" /\ n \in {<<Deps[p][i], "install">> : i \in DOMAIN Deps[p]}
          \/ s = "configured" /\ p \in Override /\ n = <<p, "rsynced">>
      <4> DEFINE X == {<<p, d>> : d \in Inputs(p, s)}
                 Y == {<<Deps[p][i], "install">> : i \in DOMAIN Deps[p]}
      <4>1. n \in X \cup (IF s = "configured"
                         THEN Y \cup (IF p \in Override THEN {<<p, "rsynced">>} ELSE {})
                         ELSE {})
        BY PrerequisitesAre DEF P
      <4> HIDE DEF X, Y
      <4>2. n \in X \/ (s = "configured" /\ n \in Y)
            \/ (s = "configured" /\ p \in Override /\ n = <<p, "rsynced">>)
        BY <4>1
      <4> QED BY <4>2 DEF X, Y
    <3> QED BY <3>1, <3>2, <3>3, <3>4
  <2>2. ASSUME NEW i \in DOMAIN E
        PROVE  /\ A[i].op = "enter" /\ A[i].t = P[i] /\ Valid(P[i])
               /\ Height(P[i]) < Height(<<p, s>>)
    <3>1. A[i] = Item("enter", P[i]) BY <1>3, <1>5
    <3>2. P[i] \in Elems(P) BY <1>2, <1>3
    <3> QED BY <2>1, <3>1, <3>2 DEF Item
  <2> QED BY <2>2
<1>10. ASSUME NEW u \in Target, Needs(<<p, s>>, u)
       PROVE  \E i \in DOMAIN E : Promises(A[i], u)
  <2>1. PICK n \in Elems(P) :
          n = u \/ (n = <<u[1], "install">> /\ u[2] \in InstallSet(u[1]))
    <3>1. CASE u[1] = p /\ u[2] \in Inputs(p, s)
      <4>1. u \in {<<p, d>> : d \in Inputs(p, s)} BY <3>1 DEF Target
      <4> QED BY <4>1, PrerequisitesAre DEF P
    <3>2. CASE s = "configured" /\ p \in Override /\ u = <<p, "rsynced">>
      BY <3>2, PrerequisitesAre DEF P
    <3>3. CASE /\ s = "configured" /\ u[2] \in InstallSet(u[1])
               /\ \E i \in DOMAIN Deps[p] : u[1] = Deps[p][i]
      <4>1. <<u[1], "install">> \in Elems(P) BY <3>3, PrerequisitesAre DEF P
      <4> QED BY <3>3, <4>1
    <3> QED BY <1>10, <3>1, <3>2, <3>3 DEF Needs
  <2>2. PICK i \in DOMAIN P : n = P[i] BY DEF Elems
  <2>3. i \in DOMAIN E /\ A[i].op = "enter" /\ A[i].t = n BY <1>3, <1>9, <2>2
  <2> QED BY <2>1, <2>3 DEF Promises
<1>11. Expands(A)
  <2>1. A[Len(A)].op = "leave" /\ A[Len(A)].t = <<p, s>> BY <1>5 DEF Item
  <2>2. Height(<<p, s>>) \in Nat /\ \A i \in DOMAIN E : Height(P[i]) \in Nat
    BY <1>2, <1>3, HeightType DEF Node
  <2>3. \A i \in DOMAIN A : /\ A[i].op \in {"enter", "leave"} /\ Valid(A[i].t)
                            /\ Height(A[i].t) <= Height(Head(todo).t)
    <3>1. ASSUME NEW i \in DOMAIN E
          PROVE  /\ A[i].op \in {"enter", "leave"} /\ Valid(A[i].t)
                 /\ Height(A[i].t) <= Height(Head(todo).t)
      <4>1. /\ A[i].op = "enter" /\ A[i].t = P[i] /\ Valid(P[i])
            /\ Height(P[i]) < Height(<<p, s>>)
        BY <1>9
      <4> QED BY <1>8, <2>2, <4>1
    <3>2. Height(A[Len(A)].t) <= Height(Head(todo).t) BY <1>8, <2>1, <2>2
    <3> QED BY <1>6, <1>8, <2>1, <3>1, <3>2
  <2>4. old'[<<p, s>>] # Unseen
    BY <1>1, <1>7 DEF TypeOK, Unseen
  <2>5. ASSUME NEW j \in DOMAIN A, A[j].op = "leave"
        PROVE  /\ A[j].t \in Target /\ old'[A[j].t] # Unseen
               /\ \A i \in DOMAIN A : i < j => Height(A[i].t) < Height(A[j].t)
               /\ \A u \in Target : Needs(A[j].t, u) =>
                    \E i \in DOMAIN A : i < j /\ Promises(A[i], u)
    <3>1. j = Len(A) BY <1>6, <1>9, <2>5
    <3>2. \A i \in DOMAIN A : i < j => i \in DOMAIN E BY <1>5, <1>6, <3>1
    <3>3. \A i \in DOMAIN E : i \in DOMAIN A /\ i < j BY <1>5, <3>1
    <3> QED BY <1>7, <1>9, <1>10, <2>1, <2>4, <3>1, <3>2, <3>3
  <2>6. \A u \in Target : Promises(Head(todo), u) => old'[u] # Unseen
    BY <1>8, <2>4 DEF Promises, Stamp
  <2> QED BY <1>1, <1>8, <2>3, <2>5, <2>6 DEF Expands
<1>12. \A t \in Target : Seen(t) => old'[t] # Unseen
  BY <1>1, <1>7 DEF Seen, TypeOK, Unseen
<1>13. TodoInv' BY <1>1, <1>5, <1>11, <1>12, ExpandTodo
<1>14. GoalInv' BY <1>1, <1>5, <1>11, <1>12, ExpandGoal
<1>15. todo' \in Seq(Work) BY <1>1, <1>5, Splice
<1>16. ASSUME NEW t \in Target PROVE Open(t)' <=> Open(t) \/ t = <<p, s>>
  <2>1. \A i \in DOMAIN A : A[i] = Item("leave", t) => t = <<p, s>>
    BY <1>5, <1>6, <1>9 DEF Item
  <2>2. Head(todo) # Item("leave", t) BY <1>1 DEF Item
  <2>3. Len(A) \in DOMAIN A /\ A[Len(A)] = Item("leave", <<p, s>>) BY <1>5
  <2>4. Open(t)' => \/ \E i \in DOMAIN A : A[i] = Item("leave", t)
                    \/ \E i \in DOMAIN todo : i > 1 /\ todo[i] = Item("leave", t)
    BY <1>1, <1>5, ExpandOpen
  <2>5. Open(t) => Open(t)' BY <1>1, <1>5, <2>2, ExpandOpen
  <2>6. t = <<p, s>> => Open(t)' BY <1>1, <1>5, <2>3, ExpandOpen
  <2> QED BY <2>1, <2>4, <2>5, <2>6 DEF Open
<1> QED BY <1>8, <1>13, <1>14, <1>15, <1>16

-----------------------------------------------------------------------------
\* The times of the stamps.

LEMMA StampsFinite ==
  ASSUME NEW S, S \subseteq Stamp
  PROVE  IsFiniteSet(S) /\ Cardinality(S) \in Nat
<1> DEFINE a == {"source"}
           b == a \cup {"extracted"}
           c == b \cup {"patched"}
           d == c \cup {"rsynced"}
           e == d \cup {"configured"}
           f == e \cup {"built"}
           g == f \cup {"staging"}
           h == g \cup {"target"}
           i == h \cup {"images"}
           j == i \cup {"host"}
<1>1. IsFiniteSet(a) BY FS_EmptySet, FS_AddElement, FS_Singleton
<1> HIDE DEF a
<1>2. IsFiniteSet(b) BY <1>1, FS_AddElement
<1> HIDE DEF b
<1>3. IsFiniteSet(c) BY <1>2, FS_AddElement
<1> HIDE DEF c
<1>4. IsFiniteSet(d) BY <1>3, FS_AddElement
<1> HIDE DEF d
<1>5. IsFiniteSet(e) BY <1>4, FS_AddElement
<1> HIDE DEF e
<1>6. IsFiniteSet(f) BY <1>5, FS_AddElement
<1> HIDE DEF f
<1>7. IsFiniteSet(g) BY <1>6, FS_AddElement
<1> HIDE DEF g
<1>8. IsFiniteSet(h) BY <1>7, FS_AddElement
<1> HIDE DEF h
<1>9. IsFiniteSet(i) BY <1>8, FS_AddElement
<1> HIDE DEF i
<1>10. IsFiniteSet(j) BY <1>9, FS_AddElement
<1>11. Stamp = j BY DEF Stamp, a, b, c, d, e, f, g, h, i, j
<1>12. IsFiniteSet(S) BY <1>10, <1>11, FS_Subset
<1> QED BY <1>12, FS_CardinalityType

\* Numbering the stamps again keeps their order.
LEMMA RenumberedKeeps ==
  ASSUME NEW st \in [Stamp -> Nat]
  PROVE  /\ Renumbered(st) \in [Stamp -> Nat]
         /\ \A s \in Stamp : Renumbered(st)[s] = 0 <=> st[s] = 0
         /\ \A s, u \in Stamp : st[s] # 0 =>
              /\ Renumbered(st)[s] = Renumbered(st)[u] => st[s] = st[u]
              /\ Renumbered(st)[s] < Renumbered(st)[u] <=> st[s] < st[u]
<1> DEFINE B(s) == {u \in Stamp : 0 < st[u] /\ st[u] <= st[s]}
<1>1. \A s \in Stamp : Renumbered(st)[s] = Cardinality(B(s)) BY DEF Renumbered
<1>2. \A s \in Stamp : IsFiniteSet(B(s)) /\ Cardinality(B(s)) \in Nat BY StampsFinite
<1>3. Renumbered(st) \in [Stamp -> Nat] BY <1>2 DEF Renumbered
<1>4. ASSUME NEW s \in Stamp PROVE Cardinality(B(s)) = 0 <=> st[s] = 0
  <2>1. Cardinality(B(s)) = 0 <=> B(s) = {} BY <1>2, FS_EmptySet
  <2>2. st[s] # 0 => s \in B(s) OBVIOUS
  <2>3. st[s] = 0 => B(s) = {} OBVIOUS
  <2> QED BY <2>1, <2>2, <2>3
<1>5. ASSUME NEW s \in Stamp, NEW u \in Stamp, st[s] < st[u]
      PROVE  Cardinality(B(s)) < Cardinality(B(u))
  <2>1. B(s) \subseteq B(u)
    <3> SUFFICES ASSUME NEW x \in Stamp, 0 < st[x], st[x] <= st[s] PROVE st[x] <= st[u]
      OBVIOUS
    <3>1. st[x] \in Nat /\ st[s] \in Nat /\ st[u] \in Nat OBVIOUS
    <3> QED BY <1>5, <3>1
  <2>2. u \in B(u) /\ u \notin B(s) BY <1>5
  <2>3. B(s) # B(u) BY <2>2
  <2> HIDE DEF B
  <2> QED BY <1>2, <2>1, <2>3, FS_Subset
<1>6. ASSUME NEW s \in Stamp, NEW u \in Stamp, st[s] = st[u]
      PROVE  Cardinality(B(s)) = Cardinality(B(u))
  <2>1. B(s) = B(u) BY <1>6
  <2> QED BY <2>1
<1> HIDE DEF B
<1>7. ASSUME NEW s \in Stamp, NEW u \in Stamp
      PROVE  /\ Renumbered(st)[s] = Renumbered(st)[u] => st[s] = st[u]
             /\ Renumbered(st)[s] < Renumbered(st)[u] <=> st[s] < st[u]
  <2>1. st[s] \in Nat /\ st[u] \in Nat OBVIOUS
  <2> QED BY <1>1, <1>2, <1>5, <1>6, <2>1
<1> QED BY <1>1, <1>3, <1>4, <1>7

LEMMA Lowest ==
  ASSUME NEW S, S \subseteq Nat, S # {}
  PROVE  \E n \in S : \A m \in S : n <= m
<1> DEFINE Less == {pair \in Nat \X Nat : pair[1] < pair[2]}
<1>1. IsWellFoundedOn(Less, Nat) BY NatLessThanWellFounded DEF OpToRel
<1>2. PICK n \in S : \A m \in S : <<m, n>> \notin Less
  <2> HIDE DEF Less
  <2> QED BY <1>1, WFMin
<1>3. ASSUME NEW m \in S PROVE n <= m
  <2>1. n \in Nat /\ m \in Nat /\ (m < n => <<m, n>> \in Less) OBVIOUS
  <2>2. <<m, n>> \notin Less BY <1>2
  <2> QED BY <2>1, <2>2
<1> QED BY <1>3

\* One of the stamps is the latest.
LEMMA LatestIs ==
  ASSUME NEW st \in [Stamp -> Nat]
  PROVE  LatestOf(st) \in Nat /\ \A u \in Stamp : st[u] <= LatestOf(st)
<1> DEFINE Above == {n \in Nat : \A u \in Stamp : st[u] <= n}
<1>1. Above # {}
  <2> DEFINE sum == st["source"] + st["extracted"] + st["patched"] + st["rsynced"]
                    + st["configured"] + st["built"] + st["staging"] + st["target"]
                    + st["images"] + st["host"]
  <2>1. sum \in Above BY DEF Stamp
  <2> QED BY <2>1
<1>2. PICK n \in Above : \A m \in Above : n <= m
  <2> HIDE DEF Above
  <2>1. Above \subseteq Nat BY DEF Above
  <2> QED BY <1>1, <2>1, Lowest
<1>3. \E u \in Stamp : st[u] = n
  <2> SUFFICES ASSUME \A u \in Stamp : st[u] # n PROVE FALSE OBVIOUS
  <2>1. \A u \in Stamp : st[u] <= n - 1 OBVIOUS
  <2>2. st["source"] \in Nat /\ st["source"] <= n - 1 BY <2>1 DEF Stamp
  <2>3. n - 1 \in Nat BY <2>2
  <2>4. n - 1 \in Above BY <2>1, <2>3
  <2> QED BY <1>2, <2>4
<1>4. \E m \in {st[u] : u \in Stamp} : \A u \in Stamp : st[u] <= m
  BY <1>3
<1>5. LatestOf(st) \in {st[u] : u \in Stamp} /\ \A u \in Stamp : st[u] <= LatestOf(st)
  BY <1>4 DEF LatestOf
<1> QED BY <1>5

-----------------------------------------------------------------------------
\* What the recipes write.

LEMMA PlacesAre ==
  /\ PlaceOf("extracted") = "tree" /\ PlaceOf("rsynced") = "tree"
  /\ PlaceOf("configured") = "config" /\ PlaceOf("built") = "objects"
  /\ PlaceOf("staging") = "staging" /\ PlaceOf("target") = "target"
  /\ PlaceOf("images") = "images" /\ PlaceOf("host") = "host"
  /\ PlaceOf("source") = "source" /\ PlaceOf("patched") = "patched"
<1>1. PlaceOf("extracted") = "tree" /\ PlaceOf("rsynced") = "tree" BY Zenon DEF PlaceOf
<1>2. PlaceOf("configured") = "config" /\ PlaceOf("built") = "objects" BY Zenon DEF PlaceOf
<1>3. PlaceOf("staging") = "staging" /\ PlaceOf("target") = "target" BY Zenon DEF PlaceOf
<1>4. PlaceOf("images") = "images" /\ PlaceOf("host") = "host" BY Zenon DEF PlaceOf
<1>5. PlaceOf("source") = "source" /\ PlaceOf("patched") = "patched" BY Zenon DEF PlaceOf
<1> QED BY <1>1, <1>2, <1>3, <1>4, <1>5

LEMMA ResultIs ==
  ASSUME NEW p
  PROVE  /\ Result(p, "extracted") = src[p] /\ Result(p, "rsynced") = Synced(p)
         /\ Result(p, "configured") = art[p]["tree"] /\ Result(p, "built") = art[p]["tree"]
         /\ \A s \in {"staging", "target", "images", "host"} :
              Result(p, s) = art[p]["objects"]
<1>1. Result(p, "extracted") = src[p] /\ Result(p, "rsynced") = Synced(p)
  BY Zenon DEF Result
<1>2. Result(p, "configured") = art[p]["tree"] /\ Result(p, "built") = art[p]["tree"]
  BY Zenon DEF Result
<1>3. Result(p, "staging") = art[p]["objects"] /\ Result(p, "target") = art[p]["objects"]
  BY Zenon DEF Result
<1>4. Result(p, "images") = art[p]["objects"] /\ Result(p, "host") = art[p]["objects"]
  BY Zenon DEF Result
<1> QED BY <1>1, <1>2, <1>3, <1>4

LEMMA ResultType ==
  ASSUME TypeOK, NEW p \in Pkg, NEW s \in Stamp \ {"source", "patched"}
  PROVE  Result(p, s) \in Value /\ PlaceOf(s) \in Place
<1>1. /\ src[p] \in Value /\ art[p]["tree"] \in Value /\ art[p]["objects"] \in Value
  BY DEF TypeOK, Value, Gone, None, Place
<1>2. Synced(p) \in Value
  <2>1. Gone \in Value BY PkgAssumption DEF Gone, Value, None
  <2> QED BY <1>1, <2>1 DEF Synced
<1> QED BY <1>1, <1>2, ResultIs, PlacesAre DEF Stamp, Place

LEMMA BeginType ==
  ASSUME TypeOK, NEW p \in Pkg, NEW s \in Stamp, BeginEffect(p, s)
  PROVE  /\ art' \in [Pkg -> [Place -> Value]]
         /\ patches' \in [Pkg -> {"none", "some", "all"}]
<1>1. Torn \in Value BY PkgAssumption DEF Torn, Value, None
<1>2. s \notin {"source", "patched"} => PlaceOf(s) \in Place BY ResultType
<1> QED BY <1>1, <1>2 DEF BeginEffect, TypeOK

LEMMA EndType ==
  ASSUME TypeOK, NEW p \in Pkg, NEW s \in Stamp, EndEffect(p, s)
  PROVE  /\ art' \in [Pkg -> [Place -> Value]]
         /\ patches' \in [Pkg -> {"none", "some", "all"}]
<1>1. s \notin {"source", "patched"} => Result(p, s) \in Value /\ PlaceOf(s) \in Place
  BY ResultType
<1> QED BY <1>1 DEF EndEffect, TypeOK

\* The times after a recipe that is not a deleting rsync, and after one that is.
LEMMA TouchedIs ==
  ASSUME TypeOK, NEW p \in Pkg, NEW s \in Stamp
  PROVE  LET st == Touched(StampsAfter(p, s), s)
         IN  /\ st \in [Stamp -> Nat] /\ st[s] > 0
             /\ ~(s = "rsynced" /\ p \in mirror) =>
                  \A u \in Stamp \ {s} : st[u] = stamp[p][u] /\ st[u] < st[s]
             /\ (s = "rsynced" /\ p \in mirror) => \A u \in Stamp \ {s} : st[u] = 0
<1>1. StampsAfter(p, s) \in [Stamp -> Nat] BY DEF TypeOK, StampsAfter
<1>2. LatestOf(StampsAfter(p, s)) \in Nat
      /\ \A u \in Stamp : StampsAfter(p, s)[u] <= LatestOf(StampsAfter(p, s))
  BY <1>1, LatestIs
<1>3. \A u \in Stamp : StampsAfter(p, s)[u] \in Nat BY <1>1
<1>4. ~(s = "rsynced" /\ p \in mirror) => StampsAfter(p, s) = stamp[p] BY DEF StampsAfter
<1>5. (s = "rsynced" /\ p \in mirror) => \A u \in Stamp : StampsAfter(p, s)[u] = 0
  BY DEF StampsAfter
<1> QED BY <1>1, <1>2, <1>3, <1>4, <1>5 DEF Touched

-----------------------------------------------------------------------------
\* The beginning and the end of a command.

LEMMA ShortLists ==
  ASSUME NEW S
  PROVE  << >> \in Seq(S) /\ \A x \in S : <<x>> \in Seq(S) /\ Elems(<<x>>) = {x}
BY DEF Elems

LEMMA CleanedIs ==
  ASSUME NEW p, NEW kind
  PROVE  /\ Cleaned(p, kind) \in Seq(Cleanable)
         /\ kind \in {"rebuild", "reconfigure"} /\ p \in Override =>
              {"rsynced", "staging", "target", "images", "host", "built"}
                \subseteq Elems(Cleaned(p, kind))
<1> DEFINE R == IF p \in Override THEN <<"rsynced">> ELSE << >>
           I == <<"staging", "target", "images", "host">>
           B == IF kind \in {"rebuild", "reconfigure"} THEN <<"built">> ELSE << >>
           C == IF kind = "reconfigure" THEN <<"configured">> ELSE << >>
<1>0. "rsynced" \in Cleanable /\ "built" \in Cleanable /\ "configured" \in Cleanable BY DEF Stamp, Cleanable
<1>1. R \in Seq(Cleanable) /\ (p \in Override => "rsynced" \in Elems(R))
  BY <1>0, ShortLists
<1>2. I \in Seq(Cleanable) /\ {"staging", "target", "images", "host"} \subseteq Elems(I)
  <2>1. I \in Seq(Cleanable) /\ DOMAIN I = 1 .. 4 BY DEF Stamp, Cleanable
  <2>2. I[1] = "staging" /\ I[2] = "target" /\ I[3] = "images" /\ I[4] = "host" OBVIOUS
  <2> HIDE DEF I
  <2> QED BY <2>1, <2>2 DEF Elems
<1>3. /\ B \in Seq(Cleanable)
      /\ kind \in {"rebuild", "reconfigure"} => "built" \in Elems(B)
  BY <1>0, ShortLists
<1>4. C \in Seq(Cleanable) BY <1>0, ShortLists
<1> HIDE DEF R, I, B, C
<1>5. Cleaned(p, kind) = R \o I \o B \o C BY DEF Cleaned, R, I, B, C
<1>6. R \o I \in Seq(Cleanable) /\ Elems(R \o I) = Elems(R) \cup Elems(I)
  BY <1>1, <1>2, ElemsConcat
<1> DEFINE RI == R \o I
<1> HIDE DEF RI
<1>7. RI \o B \in Seq(Cleanable) /\ Elems(RI \o B) = Elems(RI) \cup Elems(B)
  <2>1. RI \in Seq(Cleanable) BY <1>6 DEF RI
  <2> QED BY <1>3, <2>1, ElemsConcat
<1> DEFINE RIB == RI \o B
<1> HIDE DEF RIB
<1>8. RIB \o C \in Seq(Cleanable) /\ Elems(RIB \o C) = Elems(RIB) \cup Elems(C)
  <2>1. RIB \in Seq(Cleanable) BY <1>7 DEF RIB
  <2> QED BY <1>4, <2>1, ElemsConcat
<1>9. Cleaned(p, kind) = RIB \o C BY <1>5 DEF RIB, RI
<1>10. /\ Elems(RI) = Elems(R) \cup Elems(I)
       /\ Elems(RIB) = Elems(RI) \cup Elems(B)
  BY <1>6, <1>7 DEF RI, RIB
<1> QED BY <1>1, <1>2, <1>3, <1>8, <1>9, <1>10

\* A command begins with its files to remove and then what it is to make.
LEMMA MakeWork ==
  ASSUME TypeOK, MakeInv, NEW p \in Pkg, NEW kind \in Kind \ {"dirclean"}, Make(p, kind)
  PROVE  /\ todo' \in Seq(Work) /\ TodoInv' /\ GoalInv'
         /\ kind # "make" => \A s \in Elems(Cleaned(p, kind)) :
              \E i \in DOMAIN todo' : todo'[i] = Item("rm", <<p, s>>)
<1> DEFINE C == IF kind = "make" THEN << >> ELSE Cleaned(p, kind)
           R == [i \in DOMAIN C |-> Item("rm", <<p, C[i]>>)]
           T == R \o <<Item("enter", <<p, "install">>)>>
<1>1. C \in Seq(Cleanable) BY CleanedIs
<1>2. /\ cmd' = [kind |-> kind, pkg |-> p] /\ old' = old
      /\ \A t \in Target : ~Seen(t)
  BY DEF Make, MakeInv
<1>3. todo' = T
  <2>1. CASE kind = "make" BY <2>1 DEF Make
  <2>2. CASE kind # "make" BY <2>2 DEF Make
  <2> QED BY <2>1, <2>2
<1> HIDE DEF C
<1>4. R \in Seq(Work)
  <2>1. \A s \in Cleanable : Item("rm", <<p, s>>) \in Work
    BY DEF Item, Work, Node, Cleanable
  <2>2. \A i \in DOMAIN C : C[i] \in Cleanable BY <1>1
  <2>3. \A i \in DOMAIN C : Item("rm", <<p, C[i]>>) \in Work BY <2>1, <2>2
  <2>4. Len(C) \in Nat /\ DOMAIN C = 1 .. Len(C) BY <1>1
  <2> QED BY <2>3, <2>4
<1>5. Item("enter", <<p, "install">>) \in Work BY DEF Item, Work, Node
<1>6. /\ Len(C) \in Nat /\ DOMAIN T = 1 .. Len(C) + 1
      /\ \A i \in 1 .. Len(C) : T[i] = Item("rm", <<p, C[i]>>) /\ C[i] \in Cleanable
      /\ T[Len(C) + 1] = Item("enter", <<p, "install">>)
      /\ T \in Seq(Work)
  BY <1>1, <1>4, <1>5
<1> HIDE DEF T
<1>7. /\ \A i \in 1 .. Len(C) : /\ todo'[i].op = "rm" /\ todo'[i].t \in Pkg \X Cleanable
                                /\ todo'[i] = Item("rm", <<p, C[i]>>)
      /\ todo'[Len(C) + 1].op = "enter" /\ todo'[Len(C) + 1].t = <<p, "install">>
      /\ DOMAIN todo' = 1 .. Len(C) + 1
  BY <1>3, <1>6 DEF Item
<1>8. TodoInv'
  <2>1. \A t \in Target : old'[t] = Unseen BY <1>2 DEF Seen
  <2>0. \A i \in DOMAIN todo' : i \in 1 .. Len(C) \/ i = Len(C) + 1
    <3>1. Len(C) \in Nat BY <1>6
    <3> QED BY <1>7, <3>1
  <2>2. \A i \in DOMAIN todo' : todo'[i].op = "rm" \/ todo'[i].op = "enter"
    BY <1>7, <2>0
  <2>3. Valid(<<p, "install">>) BY DEF Valid
  <2>4. \A i \in DOMAIN todo' : todo'[i].op = "enter" => i = Len(C) + 1 BY <1>7, <2>0
  <2>5. \A i \in DOMAIN todo' : todo'[i].op = "rm" =>
          \A j \in DOMAIN todo' : j < i => todo'[j].op = "rm"
    <3>1. Len(C) \in Nat BY <1>6
    <3>2. \A i, j \in DOMAIN todo' : j < i => j \in 1 .. Len(C) BY <1>7, <3>1
    <3> QED BY <1>7, <3>2
  <2>6. \A i \in DOMAIN todo' : /\ todo'[i].op = "rm" => todo'[i].t \in Pkg \X Cleanable
                                /\ todo'[i].op = "enter" => Valid(todo'[i].t)
    BY <1>7, <2>0, <2>3
  <2>7. ASSUME NEW i \in DOMAIN todo'
        PROVE  /\ todo'[i].op # "leave" /\ todo'[i].op # "dirclean"
               /\ todo'[i].op = "rm" => todo'[i].t \in Pkg \X Cleanable
               /\ todo'[i].op \in {"enter", "leave"} => Valid(todo'[i].t)
    BY <2>2, <2>6
  <2> QED BY <2>1, <2>5, <2>7 DEF TodoInv, Seen, Valid
<1>9. GoalInv'
  <2> SUFFICES ASSUME NEW s \in InstallSet(p)
               PROVE  \E i \in DOMAIN todo' : Promises(todo'[i], <<p, s>>)
    BY <1>2 DEF GoalInv, InstallSet, Promises
  <2>1. Len(C) + 1 \in DOMAIN todo' BY <1>6, <1>7
  <2> QED BY <1>7, <2>1 DEF Promises
<1>10. ASSUME kind # "make", NEW s \in Elems(Cleaned(p, kind))
       PROVE  \E i \in DOMAIN todo' : todo'[i] = Item("rm", <<p, s>>)
  <2>1. PICK i \in DOMAIN C : C[i] = s BY <1>10 DEF Elems, C
  <2>2. i \in 1 .. Len(C) /\ i \in DOMAIN todo' BY <1>1, <1>6, <1>7
  <2> QED BY <1>7, <2>1, <2>2
<1> QED BY <1>3, <1>6, <1>8, <1>9, <1>10

-----------------------------------------------------------------------------
\* The steps of the commands and the developer keep the order of the work and
\* of the times.

\* Some stamps are removed, and the others keep their order.
Thinned ==
  \A p \in Pkg : \A s, u \in Stamp : stamp'[p][s] # 0 =>
    /\ stamp[p][s] # 0
    /\ stamp'[p][s] = stamp'[p][u] => stamp[p][s] = stamp[p][u]
    /\ stamp'[p][s] < stamp'[p][u] => stamp[p][s] < stamp[p][u]

\* All the stamps of p keep their order.
Kept(p) ==
  \A s, u \in Stamp : /\ stamp'[p][s] = 0 <=> stamp[p][s] = 0
                      /\ stamp[p][s] # 0 =>
                           (stamp'[p][s] < stamp'[p][u] <=> stamp[p][s] < stamp[p][u])

LEMMA InitIInv == Init => IInv
<1> SUFFICES ASSUME Init PROVE IInv OBVIOUS
<1> USE DEF Init
<1>1. TypeOK
  <2>1. 1 \in Gone .. MaxVer /\ None \in Value
    BY PkgAssumption DEF Gone, Value, None
  <2>2. Unseen \in Nat \cup {Unseen} OBVIOUS
  <2> QED BY <2>1 DEF TypeOK
<1>2. TodoInv /\ GoalInv BY DEF TodoInv, GoalInv
<1>3. \A t \in Target : ~Seen(t) BY DEF Seen
<1>4. MakeInv
  <2>1. \A p \in Pkg, s \in Stamp : <<p, s>> \in Target /\ <<p, s>> # Nobody
    BY DEF Target, Nobody, Stamp
  <2>2. \A t \in Target : ~Done(t) BY <1>3 DEF Done
  <2> QED BY <1>3, <2>1, <2>2 DEF MakeInv
<1>5. TimeInv
  <2>1. \A p \in Pkg, s \in Stamp : <<p, s>> \in Target BY DEF Target
  <2> QED BY <1>3, <2>1 DEF TimeInv, Done
<1> QED BY <1>1, <1>2, <1>4, <1>5 DEF IInv

LEMMA Still ==
  ASSUME IInv
  PROVE  /\ (\A t \in Target : ~Seen(t)) => made = {}
         /\ cmd = Idle => /\ todo = << >> /\ running = Nobody /\ made = {}
                          /\ \A t \in Target : ~Seen(t)
<1>1. (\A t \in Target : ~Seen(t)) => made = {} BY DEF IInv, TypeOK, MakeInv, Done
<1>2. cmd = Idle => todo = << >> /\ \A t \in Target : ~Seen(t) BY DEF IInv, MakeInv
<1>3. running # Nobody => todo # << >> BY DEF IInv, TypeOK, MakeInv, Target
<1> QED BY <1>1, <1>2, <1>3

LEMMA QuietMake ==
  ASSUME \A t \in Target : old'[t] = Unseen, made' = {}, running' = Nobody,
         cmd' = Idle => todo' = << >>
  PROVE  MakeInv'
<1>1. \A t \in Target : ~Seen(t)' BY DEF Seen
<1>2. \A t \in Target : ~Done(t)' BY <1>1 DEF Done
<1>3. \A p \in Pkg, s \in Stamp : <<p, s>> \in Target /\ <<p, s>> # Nobody
  BY DEF Target, Nobody, Stamp
<1> QED BY <1>1, <1>2, <1>3 DEF MakeInv

LEMMA QuietTime ==
  ASSUME TimeInv, \A t \in Target : old'[t] = Unseen, made' = {}, Thinned
  PROVE  TimeInv'
<1>1. \A p \in Pkg, s \in Stamp : ~Seen(<<p, s>>)' /\ ~Done(<<p, s>>)'
  BY DEF Seen, Done, Target
<1>2. \A p \in Pkg : ~Wiped(p)' BY DEF Wiped
<1>3. \A p \in Pkg, s \in Stamp : stamp'[p][s] # 0 => Valid(<<p, s>>)
  BY DEF TimeInv, Thinned
<1>4. \A p \in Pkg : \A s, u \in Stamp :
        stamp'[p][s] = stamp'[p][u] /\ stamp'[p][s] # 0 => s = u
  BY DEF TimeInv, Thinned
<1> QED BY <1>1, <1>2, <1>3, <1>4 DEF TimeInv, Valid, Inputs

LEMMA SameStamps == ASSUME stamp' = stamp PROVE Thinned /\ \A p \in Pkg : Kept(p)
BY DEF Thinned, Kept

LEMMA EditIInv ==
  ASSUME IInv, NEW p \in Pkg, Edit(p)
  PROVE  IInv' /\ Thinned
<1> USE DEF Edit
<1>1. todo = << >> /\ running = Nobody /\ made = {} /\ \A t \in Target : ~Seen(t)
  BY Still
<1>2. TypeOK'
  <2>1. PICK v \in Gone .. MaxVer : src' = [src EXCEPT ![p] = v]
    <3>1. src[p] \in Gone .. MaxVer BY DEF IInv, TypeOK
    <3>2. \A v \in src[p] + 1 .. MaxVer : v \in Gone .. MaxVer
      BY <3>1, PkgAssumption DEF Gone
    <3> QED BY <3>2
  <2> QED BY <2>1 DEF IInv, TypeOK
<1>3. TodoInv' /\ GoalInv' BY <1>1 DEF TodoInv, GoalInv, Idle
<1>4. MakeInv' BY <1>1, QuietMake DEF Seen
<1>5. TimeInv' BY <1>1, QuietTime, SameStamps DEF Seen, IInv
<1> QED BY <1>2, <1>3, <1>4, <1>5, SameStamps DEF IInv

LEMMA MakeIInv ==
  ASSUME IInv, NEW p \in Pkg, NEW kind \in Kind \ {"dirclean"}, Make(p, kind)
  PROVE  IInv' /\ Thinned
<1> USE DEF Make, disk
<1>1. todo = << >> /\ running = Nobody /\ made = {} /\ \A t \in Target : ~Seen(t)
  BY Still
<1>2. todo' \in Seq(Work) /\ TodoInv' /\ GoalInv' BY MakeWork DEF IInv
<1>3. cmd' \in [kind : Kind, pkg : Pkg] /\ cmd' # Idle BY DEF Idle, Kind
<1>4. TypeOK' BY <1>2, <1>3 DEF IInv, TypeOK
<1>5. MakeInv' BY <1>1, <1>3, QuietMake DEF Seen
<1>6. TimeInv' BY <1>1, QuietTime, SameStamps DEF Seen, IInv
<1> QED BY <1>2, <1>4, <1>5, <1>6, SameStamps DEF IInv

LEMMA DircleanIInv ==
  ASSUME IInv, NEW p \in Pkg, Dirclean(p)
  PROVE  IInv' /\ Thinned
<1> USE DEF Dirclean, disk
<1>1. todo = << >> /\ running = Nobody /\ made = {} /\ \A t \in Target : ~Seen(t)
  BY Still
<1>2. cmd' \in [kind : Kind, pkg : Pkg] /\ cmd' # Idle /\ cmd'.kind = "dirclean"
  BY DEF Idle, Kind
<1>3. Item("dirclean", <<p, "source">>) \in Work BY DEF Item, Work, Node, Stamp
<1>4. /\ todo' \in Seq(Work) /\ DOMAIN todo' = {1}
      /\ todo'[1].op = "dirclean"
  BY <1>3 DEF Item
<1>5. TypeOK' BY <1>2, <1>4 DEF IInv, TypeOK
<1>6. TodoInv'
  <2>1. \A t \in Target : old'[t] = Unseen BY <1>1 DEF Seen
  <2> QED BY <1>4, <2>1 DEF TodoInv, Seen
<1>7. GoalInv' BY <1>2 DEF GoalInv
<1>8. MakeInv' BY <1>1, <1>2, QuietMake DEF Seen
<1>9. TimeInv' BY <1>1, QuietTime, SameStamps DEF Seen, IInv
<1> QED BY <1>5, <1>6, <1>7, <1>8, <1>9, SameStamps DEF IInv

LEMMA RemoveIInv ==
  ASSUME IInv, NEW p \in Pkg, NEW s \in Stamp, RemoveStamp(p, s)
  PROVE  /\ IInv' /\ Thinned /\ s \in Cleanable /\ made = {}
         /\ \A t \in Target : ~Seen(t)
<1> USE DEF RemoveStamp, Doing
<1>1. /\ todo \in Seq(Work) /\ 1 \in DOMAIN todo /\ todo[1] = Item("rm", <<p, s>>)
      /\ todo[1] = Head(todo)
  BY DEF IInv, TypeOK
<1>2. todo[1].op = "rm" /\ todo[1].t = <<p, s>> BY <1>1 DEF Item
<1>3. s \in Cleanable /\ \A t \in Target : ~Seen(t)
  BY <1>1, <1>2 DEF IInv, TodoInv
<1>4. made = {} BY <1>3, Still
<1>5. \A u \in Target : ~Promises(Head(todo), u) BY <1>1, <1>2 DEF Promises
<1>6. TodoInv' /\ GoalInv' /\ todo' \in Seq(Work) BY <1>5, PopWork DEF IInv
<1>7. TypeOK' BY <1>6 DEF IInv, TypeOK
<1>8. Thinned BY DEF Thinned, IInv, TypeOK
<1>9. cmd' # Idle BY <1>1 DEF IInv, MakeInv
<1>10. MakeInv' BY <1>3, <1>4, <1>9, QuietMake DEF Seen
<1>11. TimeInv' BY <1>3, <1>4, <1>8, QuietTime DEF Seen, IInv
<1> QED BY <1>3, <1>4, <1>6, <1>7, <1>8, <1>10, <1>11 DEF IInv

LEMMA CleanIInv ==
  ASSUME IInv, NEW p \in Pkg, CleanDir(p)
  PROVE  IInv' /\ Thinned /\ made = {} /\ \A t \in Target : ~Seen(t)
<1> USE DEF CleanDir, Doing
<1>1. /\ todo \in Seq(Work) /\ 1 \in DOMAIN todo /\ todo[1] = Item("dirclean", <<p, "source">>)
      /\ todo[1] = Head(todo)
  BY DEF IInv, TypeOK
<1>2. todo[1].op = "dirclean" BY <1>1 DEF Item
<1>3. \A t \in Target : ~Seen(t) BY <1>1, <1>2 DEF IInv, TodoInv
<1>4. made = {} BY <1>3, Still
<1>5. \A u \in Target : ~Promises(Head(todo), u) BY <1>1, <1>2 DEF Promises
<1>6. TodoInv' /\ GoalInv' /\ todo' \in Seq(Work) BY <1>5, PopWork DEF IInv
<1>7. TypeOK'
  <2>1. None \in Value BY PkgAssumption DEF Value, None
  <2> QED BY <1>6, <2>1 DEF IInv, TypeOK
<1>8. Thinned BY DEF Thinned, IInv, TypeOK
<1>9. cmd' # Idle BY <1>1 DEF IInv, MakeInv
<1>10. MakeInv' BY <1>3, <1>4, <1>9, QuietMake DEF Seen
<1>11. TimeInv' BY <1>3, <1>4, <1>8, QuietTime DEF Seen, IInv
<1> QED BY <1>3, <1>4, <1>6, <1>7, <1>8, <1>10, <1>11 DEF IInv

\* However make ends, it leaves the stamps that it finds, or fewer.
LEMMA EndIInv ==
  ASSUME IInv, EndOfMake, NEW X \in [Pkg -> [Stamp -> Nat]],
         \A p \in Pkg, s \in Stamp : X[p][s] \in {0, stamp[p][s]},
         stamp' = [p \in Pkg |-> Renumbered(X[p])],
         UNCHANGED <<mirror, src>>,
         art' \in [Pkg -> [Place -> Value]],
         patches' \in [Pkg -> {"none", "some", "all"}],
         faults' \in Seq({"stop", "clean"})
  PROVE  IInv' /\ Thinned /\ \A p \in Pkg : X[p] = stamp[p] => Kept(p)
<1> USE DEF EndOfMake
<1>1. \A p \in Pkg : X[p] \in [Stamp -> Nat] OBVIOUS
<1>2. ASSUME NEW p \in Pkg
      PROVE  /\ stamp'[p] \in [Stamp -> Nat]
             /\ \A s \in Stamp : stamp'[p][s] = 0 <=> X[p][s] = 0
             /\ \A s, u \in Stamp : X[p][s] # 0 =>
                  /\ stamp'[p][s] = stamp'[p][u] => X[p][s] = X[p][u]
                  /\ stamp'[p][s] < stamp'[p][u] <=> X[p][s] < X[p][u]
  BY <1>1, RenumberedKeeps
<1>3. TypeOK'
  <2>1. stamp' \in [Pkg -> [Stamp -> Nat]] BY <1>2
  <2> QED BY <2>1 DEF IInv, TypeOK
<1>4. TodoInv' /\ GoalInv' BY DEF TodoInv, GoalInv, Idle
<1>5. Thinned
  <2> SUFFICES ASSUME NEW p \in Pkg, NEW s \in Stamp, NEW u \in Stamp, stamp'[p][s] # 0
               PROVE  /\ stamp[p][s] # 0
                      /\ stamp'[p][s] = stamp'[p][u] => stamp[p][s] = stamp[p][u]
                      /\ stamp'[p][s] < stamp'[p][u] => stamp[p][s] < stamp[p][u]
    BY DEF Thinned
  <2>1. X[p][s] # 0 /\ X[p][s] = stamp[p][s] BY <1>2
  <2>2. X[p][u] = 0 \/ X[p][u] = stamp[p][u] OBVIOUS
  <2>3. X[p][s] \in Nat /\ X[p][u] \in Nat BY <1>1
  <2>4. stamp'[p][s] = stamp'[p][u] => X[p][s] = X[p][u] BY <1>2, <2>1
  <2>5. stamp'[p][s] < stamp'[p][u] => X[p][s] < X[p][u] BY <1>2, <2>1
  <2> QED BY <2>1, <2>2, <2>3, <2>4, <2>5
<1>6. \A p \in Pkg : X[p] = stamp[p] => Kept(p) BY <1>2 DEF Kept
<1>7. MakeInv' BY QuietMake
<1>8. TimeInv' BY <1>5, QuietTime DEF IInv
<1> QED BY <1>3, <1>4, <1>5, <1>6, <1>7, <1>8 DEF IInv

-----------------------------------------------------------------------------
\* The steps of make keep the order of the work and of the times.

LEMMA InputNeeded ==
  ASSUME NEW p \in Pkg, NEW s \in Stamp, NEW d \in Inputs(p, s)
  PROVE  <<p, d>> \in Target /\ <<p, s>> \in Target /\ Needs(<<p, s>>, <<p, d>>)
BY InputsBelow DEF Target, Needs

\* make looks at a file only once.
LEMMA LookMake ==
  ASSUME IInv, \A t \in Target : Done(t)' <=> Done(t), made' = made,
         \A t \in Target : Seen(t) => old'[t] = old[t],
         \A t \in Target : Seen(t)' => Seen(t) \/ Valid(t),
         running' = Nobody, cmd' = cmd, cmd # Idle
  PROVE  MakeInv'
<1>1. ASSUME NEW p \in Pkg, NEW s \in Stamp, Done(<<p, s>>), <<p, s>> \notin made
      PROVE  ~MustRemake(p, s)'
  <2>1. ~MustRemake(p, s) BY <1>1 DEF IInv, MakeInv
  <2>2. old'[<<p, s>>] = old[<<p, s>>] BY <1>1 DEF Done, Target
  <2>3. \A d \in Inputs(p, s) : old'[<<p, d>>] = old[<<p, d>>]
    <3>1. \A d \in Inputs(p, s) : <<p, d>> \in Target /\ Done(<<p, d>>)
      BY <1>1, InputNeeded DEF IInv, MakeInv
    <3> QED BY <3>1 DEF Done
  <2> QED BY <2>1, <2>2, <2>3 DEF MustRemake, Inputs, Normal
<1>2. \A p \in Pkg, s \in Stamp : running' # <<p, s>> BY DEF Nobody, Stamp
<1>3. \A p \in Pkg, s \in Stamp : <<p, s>> \in Target BY DEF Target
<1>4. \A t \in made' : t \in Target /\ Done(t)' BY DEF IInv, MakeInv, TypeOK
<1>5. \A t, u \in Target : Done(t)' /\ Needs(t, u) => Done(u)' BY DEF IInv, MakeInv
<1>6. \A t \in Target : Seen(t)' => Valid(t) BY DEF IInv, MakeInv
<1> QED
  BY <1>1, <1>2, <1>3, <1>4, <1>5, <1>6 DEF MakeInv, Needs, Valid

LEMMA SameView ==
  ASSUME \A t \in Target : Open(t)' <=> Open(t), old' = old
  PROVE  \A t \in Target : (Seen(t)' <=> Seen(t)) /\ (Done(t)' <=> Done(t))
BY DEF Seen, Done

LEMMA SameTime ==
  ASSUME TimeInv, stamp' = stamp, made' = made, mirror' = mirror, old' = old,
         \A t \in Target : (Seen(t)' <=> Seen(t)) /\ (Done(t)' <=> Done(t))
  PROVE  TimeInv'
<1>1. \A p \in Pkg, s \in Stamp : <<p, s>> \in Target BY DEF Target
<1>2. \A p \in Pkg : Wiped(p)' <=> Wiped(p) BY DEF Wiped
<1> QED BY <1>1, <1>2 DEF TimeInv, Valid, Inputs

LEMMA NotIdle == ASSUME IInv, todo # << >> PROVE cmd # Idle
BY DEF IInv, MakeInv

LEMMA InstallIInv ==
  ASSUME IInv, NEW p \in Pkg, EnterInstall(p)
  PROVE  IInv' /\ \A t \in Target : (Seen(t)' <=> Seen(t)) /\ (Done(t)' <=> Done(t))
<1> USE DEF EnterInstall, Doing, disk
<1>1. /\ TodoInv' /\ GoalInv' /\ todo' \in Seq(Work)
      /\ \A t \in Target : Open(t)' <=> Open(t)
  BY InstallWork DEF IInv
<1>2. \A t \in Target : (Seen(t)' <=> Seen(t)) /\ (Done(t)' <=> Done(t)) BY <1>1, SameView
<1>3. TypeOK' BY <1>1 DEF IInv, TypeOK
<1>4. MakeInv' BY <1>2, NotIdle, LookMake
<1>5. TimeInv' BY <1>2, SameTime DEF IInv
<1> QED BY <1>1, <1>2, <1>3, <1>4, <1>5 DEF IInv

LEMMA EnterSeenIInv ==
  ASSUME IInv, NEW p \in Pkg, NEW s \in Stamp, Enter(p, s), Seen(<<p, s>>)
  PROVE  IInv' /\ \A t \in Target : (Seen(t)' <=> Seen(t)) /\ (Done(t)' <=> Done(t))
<1> USE DEF Enter, Doing, disk
<1>1. /\ todo # << >> /\ todo' = Tail(todo) /\ old' = old
      /\ Head(todo).op = "enter" /\ Head(todo).t = <<p, s>>
  BY DEF Seen, Item
<1>2. \A u \in Target : Promises(Head(todo), u) => Seen(u)
  BY <1>1 DEF Promises, Stamp
<1>3. Head(todo).op # "leave" BY <1>1
<1>4. /\ TodoInv' /\ GoalInv' /\ todo' \in Seq(Work)
      /\ \A t \in Target : Open(t)' <=> Open(t)
  <2>1. \A t \in Target : Head(todo) # Item("leave", t) BY <1>3 DEF Item
  <2> QED BY <1>1, <1>2, <2>1, PopWork DEF IInv
<1>5. \A t \in Target : (Seen(t)' <=> Seen(t)) /\ (Done(t)' <=> Done(t))
  BY <1>1, <1>4, SameView
<1>6. TypeOK' BY <1>1, <1>4 DEF IInv, TypeOK
<1>7. MakeInv' BY <1>1, <1>5, NotIdle, LookMake
<1>8. TimeInv' BY <1>1, <1>5, SameTime DEF IInv
<1> QED BY <1>4, <1>5, <1>6, <1>7, <1>8 DEF IInv

LEMMA EnterNewIInv ==
  ASSUME IInv, NEW p \in Pkg, NEW s \in Stamp, Enter(p, s), ~Seen(<<p, s>>)
  PROVE  /\ IInv' /\ old' = [old EXCEPT ![<<p, s>>] = stamp[p][s]]
         /\ <<p, s>> \notin made
         /\ \A t \in Target : /\ Seen(t)' <=> Seen(t) \/ t = <<p, s>>
                              /\ Done(t)' <=> Done(t)
<1> USE DEF Enter, Doing, disk
<1>1. /\ TodoInv' /\ GoalInv' /\ todo' \in Seq(Work) /\ Valid(<<p, s>>)
      /\ \A t \in Target : Open(t)' <=> Open(t) \/ t = <<p, s>>
  BY EnterWork DEF IInv
<1>2. old' = [old EXCEPT ![<<p, s>>] = stamp[p][s]] BY DEF Seen
<1>3. <<p, s>> \in Target /\ stamp[p][s] \in Nat BY DEF Target, IInv, TypeOK
<1>4. \A t \in Target : /\ Seen(t)' <=> Seen(t) \/ t = <<p, s>>
                        /\ Done(t)' <=> Done(t)
  <2>1. \A t \in Target : old'[t] = (IF t = <<p, s>> THEN stamp[p][s] ELSE old[t])
    BY <1>2, <1>3 DEF IInv, TypeOK
  <2>2. stamp[p][s] # Unseen BY <1>3 DEF Unseen
  <2>3. \A t \in Target : Seen(t)' <=> Seen(t) \/ t = <<p, s>>
    BY <2>1, <2>2 DEF Seen
  <2> QED BY <1>1, <2>3 DEF Done
<1>5. TypeOK' BY <1>1, <1>2, <1>3 DEF IInv, TypeOK
<1>6. \A t \in Target : Seen(t) => old'[t] = old[t]
  BY <1>2, <1>3 DEF IInv, TypeOK
<1>7. MakeInv' BY <1>1, <1>4, <1>6, NotIdle, LookMake
<1>8. <<p, s>> \notin made BY DEF IInv, MakeInv, Done
<1>9. TimeInv'
  <2>1. \A q \in Pkg, u \in Stamp : <<q, u>> \in Target BY DEF Target
  <2>2. \A q \in Pkg : Wiped(q)' <=> Wiped(q) BY DEF Wiped
  <2>3. ASSUME NEW q \in Pkg, NEW u \in Stamp, <<q, u>> \notin made, ~Wiped(q),
               Seen(<<q, u>>)'
        PROVE  stamp[q][u] = old'[<<q, u>>]
    <3>1. CASE <<q, u>> = <<p, s>> BY <1>2, <1>3, <3>1 DEF IInv, TypeOK
    <3>2. CASE <<q, u>> # <<p, s>>
      BY <1>4, <1>6, <2>1, <2>3, <3>2 DEF IInv, TimeInv
    <3> QED BY <3>1, <3>2
  <2> QED BY <1>4, <2>1, <2>2, <2>3 DEF IInv, TimeInv, Valid, Inputs
<1> QED BY <1>1, <1>2, <1>4, <1>5, <1>7, <1>8, <1>9 DEF IInv

\* What make is at is not remade yet, and nothing that needs it is done.
LEMMA LeaveIs ==
  ASSUME IInv, NEW p \in Pkg, NEW s \in Stamp, Doing("leave", <<p, s>>) \/ running = <<p, s>>
  PROVE  /\ <<p, s>> \in Target /\ todo # << >> /\ Head(todo) = Item("leave", <<p, s>>)
         /\ Seen(<<p, s>>) /\ Open(<<p, s>>) /\ ~Done(<<p, s>>) /\ Valid(<<p, s>>)
         /\ <<p, s>> \notin made
         /\ \A u \in Target : Needs(<<p, s>>, u) => Done(u)
         /\ \A d \in Inputs(p, s) : Done(<<p, d>>)
         /\ \A u \in Target : Needs(u, <<p, s>>) => ~Done(u)
<1>1. <<p, s>> \in Target BY DEF Target
<1>2. todo # << >> /\ Head(todo) = Item("leave", <<p, s>>) BY DEF Doing, IInv, MakeInv
<1>3. /\ Seen(<<p, s>>) /\ Open(<<p, s>>) /\ Valid(<<p, s>>)
      /\ \A u \in Target : Needs(<<p, s>>, u) => Done(u)
  BY <1>1, <1>2, LeaveNeeds DEF IInv
<1>4. ~Done(<<p, s>>) BY <1>3 DEF Done
<1>5. <<p, s>> \notin made BY <1>4 DEF IInv, MakeInv
<1>6. \A d \in Inputs(p, s) : Done(<<p, d>>) BY <1>3, InputNeeded
<1>7. \A u \in Target : Needs(u, <<p, s>>) => ~Done(u) BY <1>1, <1>4 DEF IInv, MakeInv
<1> QED BY <1>1, <1>2, <1>3, <1>4, <1>5, <1>6, <1>7

\* With a target all that it is made from is done.
LEMMA DoneAncestors ==
  ASSUME IInv, NEW p \in Pkg, NEW s \in Stamp, Done(<<p, s>>)
  PROVE  \A u \in Ancestors(p, s) : Done(<<p, u>>)
<1> DEFINE D == {u \in Stamp : Done(<<p, u>>)}
<1>1. \A u \in D \cap Stamp : Inputs(p, u) \subseteq D
  <2> SUFFICES ASSUME NEW u \in D, NEW d \in Inputs(p, u) PROVE d \in D
    OBVIOUS
  <2>1. <<p, d>> \in Target /\ <<p, u>> \in Target /\ Needs(<<p, u>>, <<p, d>>)
    BY InputNeeded
  <2>2. Done(<<p, d>>) BY <2>1 DEF IInv, MakeInv
  <2> QED BY <2>1, <2>2 DEF Target
<1> QED BY <1>1, AncestorsLeast

\* Of an overridden package nothing is done before its sources are.
LEMMA RsyncFirst ==
  ASSUME IInv, NEW p \in Override, NEW s \in Stamp, Done(<<p, s>>)
  PROVE  Done(<<p, "rsynced">>)
<1>1. p \in Pkg BY PkgAssumption
<1>3. \A u \in Ancestors(p, s) : Done(<<p, u>>) BY <1>1, DoneAncestors
<1>4. Valid(<<p, s>>) BY <1>1 DEF IInv, MakeInv, Done, Target
<1>5. CASE s = "rsynced" BY <1>5
<1>6. CASE s # "rsynced"
  <2>1. "configured" \in Ancestors(p, s)
    BY <1>4, <1>6 DEF Ancestors, Chain, Level, Stamp, Valid
  <2>2. Done(<<p, "configured">>) BY <1>3, <2>1
  <2>3. Needs(<<p, "configured">>, <<p, "rsynced">>) BY DEF Needs
  <2>4. <<p, "configured">> \in Target /\ <<p, "rsynced">> \in Target
    BY <1>1 DEF Target, Stamp
  <2> QED BY <2>2, <2>3, <2>4 DEF IInv, MakeInv
<1> QED BY <1>5, <1>6

LEMMA LeaveWork ==
  ASSUME IInv, NEW p \in Pkg, NEW s \in Stamp, Doing("leave", <<p, s>>) \/ running = <<p, s>>,
         todo' = Tail(todo), old' = old, cmd' = cmd
  PROVE  /\ TodoInv' /\ GoalInv' /\ todo' \in Seq(Work)
         /\ \A t \in Target : Seen(t)' <=> Seen(t)
         /\ \A t \in Target : Done(t)' <=> Done(t) \/ t = <<p, s>>
<1>1. /\ todo # << >> /\ Head(todo) = Item("leave", <<p, s>>) /\ Seen(<<p, s>>)
      /\ Open(<<p, s>>) /\ <<p, s>> \in Target
  BY LeaveIs
<1>2. \A u \in Target : ~Promises(Head(todo), u) BY <1>1 DEF Promises, Item
<1>3. /\ TodoInv' /\ GoalInv' /\ todo' \in Seq(Work)
      /\ \A t \in Target : Open(t)' <=> Open(t) /\ Head(todo) # Item("leave", t)
  BY <1>1, <1>2, PopWork DEF IInv
<1>4. \A t \in Target : Head(todo) = Item("leave", t) <=> t = <<p, s>> BY <1>1 DEF Item
<1>5. \A t \in Target : Seen(t)' <=> Seen(t) BY DEF Seen
<1> QED BY <1>1, <1>3, <1>4, <1>5 DEF Done

\* After a step that is done with <<p, s>>.
LEMMA LeaveMake ==
  ASSUME IInv, NEW p \in Pkg, NEW s \in Stamp, Doing("leave", <<p, s>>) \/ running = <<p, s>>,
         \A t \in Target : Seen(t)' <=> Seen(t),
         \A t \in Target : Done(t)' <=> Done(t) \/ t = <<p, s>>,
         \/ made' = made /\ ~MustRemake(p, s)
         \/ made' = made \cup {<<p, s>>},
         old' = old, cmd' = cmd, running' = Nobody
  PROVE  MakeInv'
<1>0. /\ <<p, s>> \in Target /\ todo # << >> /\ \A d \in Inputs(p, s) : Done(<<p, d>>)
      /\ \A u \in Target : Needs(<<p, s>>, u) => Done(u)
      /\ \A u \in Target : Needs(u, <<p, s>>) => ~Done(u)
      /\ Valid(<<p, s>>) /\ <<p, s>> \notin made
  BY LeaveIs
<1>1. cmd' # Idle BY <1>0, NotIdle
<1>2. ASSUME NEW q \in Pkg, NEW u \in Stamp, Done(<<q, u>>)', <<q, u>> \notin made'
      PROVE  ~MustRemake(q, u)'
  <2>1. <<q, u>> \in Target BY DEF Target
  <2>2. ~MustRemake(q, u)
    BY <1>2, <2>1 DEF IInv, MakeInv
  <2>3. \A d \in Inputs(q, u) : <<q, d>> # <<p, s>>
    <3> SUFFICES ASSUME NEW d \in Inputs(q, u), <<q, d>> = <<p, s>> PROVE FALSE
      OBVIOUS
    <3>1. Needs(<<q, u>>, <<p, s>>) /\ Level[d] < Level[u]
      BY InputNeeded, InputsBelow
    <3>2. ~Done(<<q, u>>) BY <1>0, <2>1, <3>1
    <3>3. <<q, u>> = <<p, s>> BY <1>2, <2>1, <3>2
    <3>4. Level[u] \in Nat BY DEF Level, Stamp
    <3> QED BY <3>1, <3>3, <3>4
  <2>4. \A d \in Inputs(q, u) : <<q, d>> \in made' => <<q, d>> \in made BY <2>3
  <2> QED BY <2>2, <2>4 DEF MustRemake, Inputs, Normal
<1>3. \A q \in Pkg, u \in Stamp : running' # <<q, u>> BY DEF Nobody, Stamp
<1>4. \A t \in made' : Done(t)' BY <1>0 DEF IInv, MakeInv, TypeOK
<1>5. \A t, u \in Target : Done(t)' /\ Needs(t, u) => Done(u)' BY <1>0 DEF IInv, MakeInv
<1>6. \A t \in Target : Seen(t)' => Valid(t) BY DEF IInv, MakeInv
<1> QED BY <1>1, <1>2, <1>3, <1>4, <1>5, <1>6 DEF MakeInv, Needs, Valid

LEMMA UpToDateIInv ==
  ASSUME IInv, NEW p \in Pkg, NEW s \in Stamp, UpToDate(p, s)
  PROVE  /\ IInv' /\ \A t \in Target : Seen(t)' <=> Seen(t)
         /\ \A t \in Target : Done(t)' <=> Done(t) \/ t = <<p, s>>
<1> USE DEF UpToDate, disk
<1>1. Doing("leave", <<p, s>>) OBVIOUS
<1>2. /\ TodoInv' /\ GoalInv' /\ todo' \in Seq(Work)
      /\ \A t \in Target : Seen(t)' <=> Seen(t)
      /\ \A t \in Target : Done(t)' <=> Done(t) \/ t = <<p, s>>
  BY <1>1, LeaveWork
<1>3. running' = Nobody BY DEF Doing
<1>4. TypeOK' BY <1>2 DEF IInv, TypeOK
<1>5. MakeInv' BY <1>1, <1>2, <1>3, LeaveMake
<1>6. /\ Seen(<<p, s>>) /\ <<p, s>> \notin made /\ <<p, s>> \in Target
      /\ \A d \in Inputs(p, s) : Done(<<p, d>>)
  BY <1>1, LeaveIs
<1>7. ASSUME ~Wiped(p)
      PROVE  stamp[p][s] # 0 /\ \A d \in Inputs(p, s) : stamp[p][d] < stamp[p][s]
  <2>1. stamp[p][s] = old[<<p, s>>] /\ stamp[p][s] # 0
    BY <1>6, <1>7 DEF IInv, TimeInv, MustRemake
  <2>2. ASSUME NEW d \in Inputs(p, s) PROVE stamp[p][d] < stamp[p][s]
    <3>1. d \in Stamp /\ Level[d] < Level[s] BY InputsBelow
    <3>2. Done(<<p, d>>) /\ Seen(<<p, d>>) BY <1>6 DEF Done
    <3>3. <<p, d>> \notin made /\ ~(old[<<p, d>>] > old[<<p, s>>]) BY DEF MustRemake
    <3>4. stamp[p][d] = old[<<p, d>>] /\ stamp[p][d] # 0
      BY <1>7, <3>1, <3>2, <3>3 DEF IInv, TimeInv
    <3>5. stamp[p][d] \in Nat /\ stamp[p][s] \in Nat BY <3>1 DEF IInv, TypeOK
    <3>6. d # s
      <4>1. Level[s] \in Nat BY DEF Level, Stamp
      <4> QED BY <3>1, <4>1
    <3>7. stamp[p][d] # stamp[p][s] BY <3>1, <3>4, <3>6 DEF IInv, TimeInv
    <3> QED BY <2>1, <3>3, <3>4, <3>5, <3>7
  <2> QED BY <2>1, <2>2
<1>8. TimeInv'
  <2>1. \A q \in Pkg, u \in Stamp : <<q, u>> \in Target BY DEF Target
  <2>2. \A q \in Pkg : Wiped(q)' <=> Wiped(q) BY DEF Wiped
  <2>3. \A q \in Pkg, u \in Stamp : Done(<<q, u>>)' /\ ~Wiped(q) =>
          stamp[q][u] # 0 /\ \A d \in Inputs(q, u) : stamp[q][d] < stamp[q][u]
    BY <1>2, <1>7, <2>1 DEF IInv, TimeInv
  <2> QED BY <1>2, <2>1, <2>2, <2>3 DEF IInv, TimeInv, Valid, Inputs
<1> QED BY <1>2, <1>4, <1>5, <1>8 DEF IInv

LEMMA StartIInv ==
  ASSUME IInv, NEW p \in Pkg, NEW s \in Stamp, StartRecipe(p, s)
  PROVE  IInv' /\ \A t \in Target : (Seen(t)' <=> Seen(t)) /\ (Done(t)' <=> Done(t))
<1> USE DEF StartRecipe
<1>1. \A t \in Target : (Seen(t)' <=> Seen(t)) /\ (Done(t)' <=> Done(t))
  BY DEF Seen, Done, Open
<1>2. <<p, s>> \in Target /\ todo # << >> /\ Head(todo) = Item("leave", <<p, s>>)
  BY LeaveIs
<1>3. TypeOK' BY <1>2, BeginType DEF IInv, TypeOK
<1>4. TodoInv' /\ GoalInv' BY DEF IInv, TodoInv, GoalInv, Seen
<1>5. MakeInv'
  <2>1. \A q \in Pkg, u \in Stamp : MustRemake(q, u)' <=> MustRemake(q, u) BY DEF MustRemake
  <2>2. \A q \in Pkg, u \in Stamp : <<q, u>> \in Target BY DEF Target
  <2>3. \A q \in Pkg, u \in Stamp : running' = <<q, u>> =>
          todo' # << >> /\ Head(todo') = Item("leave", <<q, u>>) /\ MustRemake(q, u)'
    BY <1>2, <2>1
  <2>4. cmd' # Idle BY <1>2, NotIdle
  <2>5. \A t \in made' : t \in Target /\ Done(t)' BY <1>1 DEF IInv, MakeInv, TypeOK
  <2> QED BY <1>1, <2>1, <2>2, <2>3, <2>4, <2>5 DEF IInv, MakeInv
<1>6. TimeInv' BY <1>1, SameTime DEF IInv
<1> QED BY <1>1, <1>3, <1>4, <1>5, <1>6 DEF IInv

LEMMA FinishTime ==
  ASSUME IInv, NEW p \in Pkg, NEW s \in Stamp, FinishRecipe(p, s),
         \A t \in Target : Seen(t)' <=> Seen(t),
         \A t \in Target : Done(t)' <=> Done(t) \/ t = <<p, s>>
  PROVE  TimeInv'
<1> USE DEF FinishRecipe
<1> DEFINE st == Touched(StampsAfter(p, s), s)
           wiping == s = "rsynced" /\ p \in mirror
<1>1. /\ stamp' = [stamp EXCEPT ![p] = st] /\ made' = made \cup {<<p, s>>} /\ old' = old
      /\ mirror' = mirror
  OBVIOUS
<1>2. /\ st \in [Stamp -> Nat] /\ st[s] > 0
      /\ ~wiping => \A u \in Stamp \ {s} : st[u] = stamp[p][u] /\ st[u] < st[s]
      /\ wiping => \A u \in Stamp \ {s} : st[u] = 0
  BY TouchedIs DEF IInv
<1> HIDE DEF st, FinishRecipe
<1>3. stamp'[p] = st /\ \A q \in Pkg \ {p} : stamp'[q] = stamp[q]
  BY <1>1 DEF IInv, TypeOK
<1>4. \A q \in Pkg, u \in Stamp : <<q, u>> \in Target BY DEF Target
<1>5. /\ <<p, s>> \notin made /\ Valid(<<p, s>>) /\ ~Done(<<p, s>>)
      /\ \A u \in Target : Needs(u, <<p, s>>) => ~Done(u)
  BY LeaveIs DEF FinishRecipe
<1>6. \A u \in Stamp : st[u] \in Nat /\ stamp[p][u] \in Nat BY <1>2 DEF IInv, TypeOK
<1>7. ASSUME NEW q \in Pkg \ {p}
      PROVE  /\ stamp'[q] = stamp[q] /\ (Wiped(q)' <=> Wiped(q))
             /\ \A u \in Stamp : /\ <<q, u>> \in made' <=> <<q, u>> \in made
                                 /\ Seen(<<q, u>>)' <=> Seen(<<q, u>>)
                                 /\ Done(<<q, u>>)' <=> Done(<<q, u>>)
  BY <1>1, <1>3, <1>4 DEF Wiped
<1>8. \A u \in Stamp : /\ <<p, u>> \in made' <=> <<p, u>> \in made \/ u = s
                       /\ Seen(<<p, u>>)' <=> Seen(<<p, u>>)
                       /\ Done(<<p, u>>)' <=> Done(<<p, u>>) \/ u = s
  BY <1>1, <1>4
<1>9. \A u \in Stamp : st[u] # 0 => Valid(<<p, u>>)
  BY <1>2, <1>5 DEF IInv, TimeInv
<1>10. \A u, v \in Stamp : st[u] = st[v] /\ st[u] # 0 => u = v
  BY <1>2, <1>6 DEF IInv, TimeInv
<1>11. CASE ~wiping
  <2>1. Wiped(p)' <=> Wiped(p) BY <1>1, <1>11 DEF Wiped
  <2>2. \A u \in Stamp : <<p, u>> \in made' => st[u] # 0
    BY <1>2, <1>8, <1>11 DEF IInv, TimeInv
  <2>3. \A u, v \in Stamp : <<p, u>> \in made' /\ <<p, v>> \notin made' => st[v] < st[u]
    BY <1>2, <1>5, <1>8, <1>11 DEF IInv, TimeInv
  <2>4. \A u \in Stamp : <<p, u>> \notin made' /\ Wiped(p)' => st[u] = 0
    BY <1>2, <1>8, <1>11, <2>1 DEF IInv, TimeInv
  <2>5. \A u \in Stamp : <<p, u>> \notin made' /\ ~Wiped(p)' /\ Seen(<<p, u>>)' =>
          st[u] = old'[<<p, u>>]
    BY <1>1, <1>2, <1>8, <1>11, <2>1 DEF IInv, TimeInv
  <2>6. ASSUME NEW u \in Stamp, Done(<<p, u>>)', ~Wiped(p)'
        PROVE  st[u] # 0 /\ \A d \in Inputs(p, u) : st[d] < st[u]
    <3>1. CASE u = s
      <4>1. Level[s] \in Nat BY DEF Level, Stamp
      <4>2. \A d \in Inputs(p, s) : d \in Stamp /\ d # s BY <4>1, InputsBelow
      <4> QED BY <1>2, <1>11, <3>1, <4>2
    <3>2. CASE u # s
      <4>1. Done(<<p, u>>) BY <1>8, <2>6, <3>2
      <4>2. \A d \in Inputs(p, u) : d \in Stamp /\ d # s
        BY <1>5, <4>1, InputNeeded, InputsBelow
      <4>3. stamp[p][u] # 0 /\ \A d \in Inputs(p, u) : stamp[p][d] < stamp[p][u]
        BY <2>1, <2>6, <4>1 DEF IInv, TimeInv
      <4> QED BY <1>2, <1>11, <3>2, <4>2, <4>3
    <3> QED BY <3>1, <3>2
  <2> QED
    BY <1>3, <1>7, <1>9, <1>10, <2>2, <2>3, <2>4, <2>5, <2>6, <1>1
       DEF IInv, TimeInv, Valid, Inputs
<1>12. CASE wiping
  <2>1. Wiped(p)' BY <1>1, <1>12 DEF Wiped
  <2>2. \A u \in Stamp : ~Done(<<p, u>>)
    <3>1. p \in Override BY <1>12 DEF IInv, TypeOK
    <3> QED BY <1>5, <1>12, <3>1, RsyncFirst
  <2>3. \A u \in Stamp : <<p, u>> \in made' => u = s
    BY <1>8, <2>2 DEF IInv, MakeInv
  <2>4. \A u \in Stamp : <<p, u>> \in made' => st[u] # 0 BY <1>2, <2>3
  <2>5. \A u, v \in Stamp : <<p, u>> \in made' /\ <<p, v>> \notin made' => st[v] < st[u]
    BY <1>2, <1>8, <1>12, <2>3
  <2>6. \A u \in Stamp : <<p, u>> \notin made' => st[u] = 0 BY <1>2, <1>8, <1>12
  <2> QED
    BY <1>3, <1>7, <1>9, <1>10, <2>1, <2>4, <2>5, <2>6, <1>1
       DEF IInv, TimeInv, Valid, Inputs
<1> QED BY <1>11, <1>12

LEMMA FinishIInv ==
  ASSUME IInv, NEW p \in Pkg, NEW s \in Stamp, FinishRecipe(p, s)
  PROVE  /\ IInv' /\ \A t \in Target : Seen(t)' <=> Seen(t)
         /\ \A t \in Target : Done(t)' <=> Done(t) \/ t = <<p, s>>
<1>1. /\ running = <<p, s>> /\ todo' = Tail(todo) /\ old' = old /\ cmd' = cmd
      /\ running' = Nobody /\ made' = made \cup {<<p, s>>} /\ EndEffect(p, s)
      /\ stamp' = [stamp EXCEPT ![p] = Touched(StampsAfter(p, s), s)]
      /\ UNCHANGED <<mirror, src, faults>>
  BY DEF FinishRecipe
<1>2. /\ TodoInv' /\ GoalInv' /\ todo' \in Seq(Work)
      /\ \A t \in Target : Seen(t)' <=> Seen(t)
      /\ \A t \in Target : Done(t)' <=> Done(t) \/ t = <<p, s>>
  BY <1>1, LeaveWork
<1>3. MakeInv' BY <1>1, <1>2, LeaveMake
<1>4. TimeInv' BY <1>2, FinishTime
<1>5. TypeOK'
  <2>1. Touched(StampsAfter(p, s), s) \in [Stamp -> Nat] BY TouchedIs DEF IInv
  <2>2. stamp' \in [Pkg -> [Stamp -> Nat]] BY <1>1, <2>1 DEF IInv, TypeOK
  <2>3. /\ art' \in [Pkg -> [Place -> Value]]
        /\ patches' \in [Pkg -> {"none", "some", "all"}]
    BY <1>1, EndType DEF IInv
  <2>4. made' \subseteq Target BY <1>1 DEF IInv, TypeOK, Target
  <2> QED BY <1>1, <1>2, <2>2, <2>3, <2>4 DEF IInv, TypeOK
<1> QED BY <1>2, <1>3, <1>4, <1>5 DEF IInv

LEMMA PlainEnd ==
  ASSUME IInv, EndOfMake, stamp' = [q \in Pkg |-> Renumbered(stamp[q])],
         UNCHANGED <<mirror, src, art, patches>>, faults' \in Seq({"stop", "clean"})
  PROVE  IInv' /\ Thinned /\ \A q \in Pkg : Kept(q)
<1>1. PICK X : X = stamp OBVIOUS
<1>2. X \in [Pkg -> [Stamp -> Nat]] BY <1>1 DEF IInv, TypeOK
<1>3. /\ art' \in [Pkg -> [Place -> Value]]
      /\ patches' \in [Pkg -> {"none", "some", "all"}]
  BY DEF IInv, TypeOK
<1>4. \A q \in Pkg, s \in Stamp : X[q][s] \in {0, stamp[q][s]} BY <1>1
<1>5. stamp' = [q \in Pkg |-> Renumbered(X[q])] BY <1>1
<1>6. IInv' /\ Thinned /\ \A q \in Pkg : X[q] = stamp[q] => Kept(q)
  BY <1>2, <1>3, <1>4, <1>5, EndIInv
<1> QED BY <1>1, <1>6

LEMMA SucceedIInv ==
  ASSUME IInv, Succeed
  PROVE  IInv' /\ Thinned /\ \A q \in Pkg : Kept(q)
<1>1. faults' \in Seq({"stop", "clean"}) BY DEF IInv, TypeOK, Succeed
<1> QED BY <1>1, PlainEnd DEF Succeed

LEMMA PatchRejectedIInv ==
  ASSUME IInv, NEW p \in Pkg, PatchRejected(p)
  PROVE  IInv' /\ Thinned /\ \A q \in Pkg : Kept(q)
<1>1. faults' \in Seq({"stop", "clean"}) BY DEF IInv, TypeOK, PatchRejected
<1> QED BY <1>1, PlainEnd DEF PatchRejected

LEMMA InterruptIInv ==
  ASSUME IInv, Interrupt
  PROVE  IInv' /\ Thinned /\ \A q \in Pkg : Kept(q)
<1>1. faults' \in Seq({"stop", "clean"}) BY DEF IInv, TypeOK, Interrupt
<1> QED BY <1>1, PlainEnd DEF Interrupt

LEMMA FailsIInv ==
  ASSUME IInv, NEW p \in Pkg, NEW s \in Stamp, RecipeFails(p, s)
  PROVE  /\ IInv' /\ Thinned /\ \A q \in Pkg \ Override : Kept(q)
         /\ UNCHANGED <<art, patches>> \/ (s = "rsynced" /\ EndEffect(p, s))
<1>1. faults' \in Seq({"stop", "clean"}) BY DEF IInv, TypeOK, RecipeFails
<1>2. CASE /\ stamp' = [q \in Pkg |-> Renumbered(stamp[q])]
           /\ UNCHANGED <<art, patches>>
  BY <1>1, <1>2, PlainEnd DEF RecipeFails
<1>3. CASE /\ s = "rsynced"
           /\ stamp' = [q \in Pkg |->
                          Renumbered(IF q = p THEN StampsAfter(p, s) ELSE stamp[q])]
           /\ EndEffect(p, s)
  <2>1. PICK X : X = [q \in Pkg |-> IF q = p THEN StampsAfter(p, s) ELSE stamp[q]]
    OBVIOUS
  <2>2. X \in [Pkg -> [Stamp -> Nat]] BY <2>1 DEF IInv, TypeOK, StampsAfter
  <2>3. \A q \in Pkg, u \in Stamp : X[q][u] \in {0, stamp[q][u]} BY <2>1 DEF StampsAfter
  <2>4. stamp' = [q \in Pkg |-> Renumbered(X[q])]
    BY <1>3, <2>1
  <2>5. /\ art' \in [Pkg -> [Place -> Value]]
        /\ patches' \in [Pkg -> {"none", "some", "all"}]
    BY <1>3, EndType DEF IInv
  <2>6. IInv' /\ Thinned /\ \A q \in Pkg : X[q] = stamp[q] => Kept(q)
    BY <1>1, <2>2, <2>3, <2>4, <2>5, EndIInv DEF RecipeFails
  <2>7. \A q \in Pkg \ Override : X[q] = stamp[q]
    BY <2>1 DEF IInv, TypeOK, StampsAfter
  <2> QED BY <1>3, <2>6, <2>7
<1> QED BY <1>2, <1>3 DEF RecipeFails

LEMMA InterruptCleanIInv ==
  ASSUME IInv, NEW p \in Pkg, InterruptClean(p)
  PROVE  IInv'
<1>1. faults' \in Seq({"stop", "clean"}) BY DEF IInv, TypeOK, InterruptClean
<1>2. PICK gone \in SUBSET {s \in Stamp : stamp[p][s] # 0} :
        stamp' = [q \in Pkg |->
                   Renumbered([s \in Stamp |-> IF q = p /\ s \in gone THEN 0
                                               ELSE stamp[q][s]])]
  BY DEF InterruptClean
<1>3. PICK X : X = [q \in Pkg |-> [s \in Stamp |-> IF q = p /\ s \in gone THEN 0
                                                   ELSE stamp[q][s]]]
  OBVIOUS
<1>4. X \in [Pkg -> [Stamp -> Nat]] BY <1>3 DEF IInv, TypeOK
<1>5. \A q \in Pkg, u \in Stamp : X[q][u] \in {0, stamp[q][u]} BY <1>3
<1>6. stamp' = [q \in Pkg |-> Renumbered(X[q])]
  BY <1>2, <1>3
<1>7. art' \in [Pkg -> [Place -> Value]]
  <2>1. PICK x \in Place :
          art' = [art EXCEPT ![p][x] = IF @ = None THEN None ELSE Torn]
    BY DEF InterruptClean, Place
  <2>2. Torn \in Value /\ None \in Value BY PkgAssumption DEF Value, Torn, None
  <2> QED BY <2>1, <2>2 DEF IInv, TypeOK
<1>8. patches' \in [Pkg -> {"none", "some", "all"}]
  BY DEF InterruptClean, IInv, TypeOK
<1> QED BY <1>1, <1>4, <1>5, <1>6, <1>7, <1>8, EndIInv DEF InterruptClean

LEMMA NextIInv == IInv /\ [Next]_vars => IInv'
<1> SUFFICES ASSUME IInv, [Next]_vars PROVE IInv'
  OBVIOUS
<1>1. CASE UNCHANGED vars
  <2>0. /\ mirror' = mirror /\ src' = src /\ stamp' = stamp /\ art' = art
        /\ patches' = patches /\ cmd' = cmd /\ todo' = todo /\ old' = old
        /\ made' = made /\ running' = running /\ faults' = faults
    BY <1>1 DEF vars
  <2>1. \A t \in Target : (Open(t)' <=> Open(t)) BY <2>0 DEF Open
  <2>2. \A t \in Target : (Seen(t)' <=> Seen(t)) /\ (Done(t)' <=> Done(t))
    BY <2>0, <2>1, SameView
  <2>3. TypeOK' BY <2>0 DEF IInv, TypeOK
  <2>4. TodoInv' /\ GoalInv' BY <2>0 DEF IInv, TodoInv, GoalInv, Seen
  <2>5. MakeInv'
    <3>1. \A p \in Pkg, s \in Stamp : MustRemake(p, s)' <=> MustRemake(p, s)
      BY <2>0 DEF MustRemake
    <3>2. \A p \in Pkg, s \in Stamp : <<p, s>> \in Target BY DEF Target
    <3>3. \A t \in made' : t \in Target /\ Done(t)'
      BY <2>0, <2>2 DEF IInv, MakeInv, TypeOK
    <3> QED BY <2>0, <2>2, <3>1, <3>2, <3>3 DEF IInv, MakeInv
  <2>6. TimeInv' BY <2>0, <2>2, SameTime DEF IInv
  <2> QED BY <2>3, <2>4, <2>5, <2>6 DEF IInv
<1>2. CASE Developer
  <2>1. ASSUME NEW p \in Pkg, Edit(p) PROVE IInv' BY <2>1, EditIInv
  <2>2. ASSUME NEW p \in Pkg, Dirclean(p) PROVE IInv' BY <2>2, DircleanIInv
  <2>3. ASSUME NEW p \in Pkg, NEW kind \in {"make", "reinstall", "rebuild", "reconfigure"},
               Make(p, kind)
        PROVE  IInv'
    <3>1. kind \in Kind \ {"dirclean"} BY DEF Kind
    <3> QED BY <2>3, <3>1, MakeIInv
  <2> QED BY <1>2, <2>1, <2>2, <2>3 DEF Developer
<1>3. CASE MakeStep
  <2>1. CASE Succeed BY <2>1, SucceedIInv
  <2>2. ASSUME NEW p \in Pkg, CleanDir(p) PROVE IInv' BY <2>2, CleanIInv
  <2>3. ASSUME NEW p \in Pkg, PatchRejected(p) PROVE IInv' BY <2>3, PatchRejectedIInv
  <2>4. ASSUME NEW p \in Pkg, EnterInstall(p) PROVE IInv' BY <2>4, InstallIInv
  <2>5. ASSUME NEW p \in Pkg, NEW s \in Stamp, RemoveStamp(p, s) PROVE IInv'
    BY <2>5, RemoveIInv
  <2>6. ASSUME NEW p \in Pkg, NEW s \in Stamp, Enter(p, s) PROVE IInv'
    BY <2>6, EnterSeenIInv, EnterNewIInv
  <2>7. ASSUME NEW p \in Pkg, NEW s \in Stamp, UpToDate(p, s) PROVE IInv'
    BY <2>7, UpToDateIInv
  <2>8. ASSUME NEW p \in Pkg, NEW s \in Stamp, StartRecipe(p, s) PROVE IInv'
    BY <2>8, StartIInv
  <2>9. ASSUME NEW p \in Pkg, NEW s \in Stamp, FinishRecipe(p, s) PROVE IInv'
    BY <2>9, FinishIInv
  <2> QED BY <1>3, <2>1, <2>2, <2>3, <2>4, <2>5, <2>6, <2>7, <2>8, <2>9 DEF MakeStep
<1>4. CASE Fault
  <2>1. CASE Interrupt BY <2>1, InterruptIInv
  <2>2. ASSUME NEW p \in Pkg, InterruptClean(p) PROVE IInv' BY <2>2, InterruptCleanIInv
  <2>3. ASSUME NEW p \in Pkg, NEW s \in Stamp, RecipeFails(p, s) PROVE IInv'
    BY <2>3, FailsIInv
  <2> QED BY <1>4, <2>1, <2>2, <2>3 DEF Fault
<1> QED BY <1>1, <1>2, <1>3, <1>4 DEF Next

\* The inductive invariant of the step machine: what make has seen, is at and is
\* done with, and the order of the time stamps it leaves (pkg-generic.mk:554-645).
THEOREM StepInvariant == Spec => []IInv
BY InitIInv, NextIInv, PTL DEF Spec

-----------------------------------------------------------------------------
\* What make is done with.

LEMMA DoneSettled ==
  ASSUME IInv, NEW p \in Pkg, NEW s \in Stamp, Done(<<p, s>>), ~Wiped(p)
  PROVE  Settled(p, s)
BY DoneAncestors, AncestorsAre DEF Settled, IInv, TimeInv

\* What a package has to install needs its configuration.
LEMMA InstallNeeds ==
  ASSUME NEW p
  PROVE  /\ InstallSet(p) \subseteq Stamp
         /\ \A i \in DOMAIN InstallStamps(p) : InstallStamps(p)[i] \in InstallSet(p)
         /\ \A s \in InstallSet(p) : "configured" \in Ancestors(p, s)
<1>2. InstallSet(p) \subseteq {"staging", "target", "images", "host"} BY InstallSetIs
<1>3. InstallSet(p) \subseteq Stamp BY <1>2 DEF Stamp
<1>4. \A i \in DOMAIN InstallStamps(p) : InstallStamps(p)[i] \in InstallSet(p)
  BY DEF InstallSet
<1>5. \A s \in InstallSet(p) : "configured" \in Ancestors(p, s)
  BY <1>2 DEF Ancestors, Chain, Level
<1> QED BY <1>3, <1>4, <1>5

\* A package is configured when what its dependencies install is done.
LEMMA DepsDone ==
  ASSUME IInv, NEW p \in Pkg,
         \A u \in Target : Needs(<<p, "configured">>, u) => Done(u),
         NEW i \in DOMAIN Deps[p], NEW s \in InstallSet(Deps[p][i])
  PROVE  Done(<<Deps[p][i], s>>)
<1>1. Deps[p][i] \in Pkg /\ s \in Stamp BY DepsType, InstallNeeds
<1>2. Needs(<<p, "configured">>, <<Deps[p][i], s>>) BY DEF Needs
<1> QED BY <1>1, <1>2 DEF Target

LEMMA ConfiguredDeps ==
  ASSUME IInv, NEW p \in Pkg, NEW t \in Stamp, "configured" \in Ancestors(p, t),
         Done(<<p, t>>)
  PROVE  \A u \in Target : Needs(<<p, "configured">>, u) => Done(u)
<1>1. Done(<<p, "configured">>) BY DoneAncestors
<1>2. <<p, "configured">> \in Target BY DEF Target, Stamp
<1> QED BY <1>1, <1>2 DEF IInv, MakeInv

LEMMA SuccessDone ==
  ASSUME IInv, Success
  PROVE  /\ cmd.pkg \in Pkg /\ cmd.kind \in Kind
         /\ \A s \in InstallSet(cmd.pkg) : Done(<<cmd.pkg, s>>)
<1>1. cmd.pkg \in Pkg /\ cmd.kind \in Kind BY DEF IInv, TypeOK, Success
<1>2. \A t : ~Open(t) BY DEF Success, Open
<1>3. \A s \in InstallSet(cmd.pkg) : Seen(<<cmd.pkg, s>>) BY DEF Success, IInv, GoalInv
<1> QED BY <1>1, <1>2, <1>3 DEF Done

LEMMA DoneMade ==
  ASSUME IInv, mirror = {}, NEW p \in Pkg, \A s \in InstallSet(p) : Done(<<p, s>>)
  PROVE  Made(p)
<1>1. ~Wiped(p) BY DEF Wiped
<1> SUFFICES ASSUME NEW i \in DOMAIN InstallStamps(p)
             PROVE  /\ Settled(p, InstallStamps(p)[i])
                    /\ p \in Override => stamp[p]["rsynced"] # 0
  BY DEF Made
<1>2. InstallStamps(p)[i] \in InstallSet(p) /\ InstallStamps(p)[i] \in Stamp
  BY InstallNeeds
<1>3. Settled(p, InstallStamps(p)[i]) BY <1>1, <1>2, DoneSettled
<1>4. ASSUME p \in Override PROVE stamp[p]["rsynced"] # 0
  <2>1. Done(<<p, "rsynced">>) BY <1>2, <1>4, RsyncFirst
  <2> QED BY <1>1, <2>1 DEF IInv, TimeInv, Stamp
<1> QED BY <1>3, <1>4

LEMMA InvIdle == ASSUME IInv PROVE NextMakeIsIdle
<1> SUFFICES ASSUME Success, mirror = {}
             PROVE  /\ Made(cmd.pkg)
                    /\ InstallStamps(cmd.pkg) # << >> =>
                         \A i \in DOMAIN Deps[cmd.pkg] : Made(Deps[cmd.pkg][i])
  BY DEF NextMakeIsIdle
<1>1. cmd.pkg \in Pkg /\ \A s \in InstallSet(cmd.pkg) : Done(<<cmd.pkg, s>>)
  BY SuccessDone
<1>4. ASSUME InstallStamps(cmd.pkg) # << >>, NEW i \in DOMAIN Deps[cmd.pkg]
      PROVE  Made(Deps[cmd.pkg][i])
  <2>4. InstallStamps(cmd.pkg) \in Seq(Stamp) BY InstallSetIs
  <2>5. 1 \in DOMAIN InstallStamps(cmd.pkg) BY <1>4, <2>4, EmptySeq, LenProperties
  <2>6. PICK t \in InstallSet(cmd.pkg) : t \in Stamp /\ "configured" \in Ancestors(cmd.pkg, t)
    BY <2>5, InstallNeeds
  <2>3. \A u \in Target : Needs(<<cmd.pkg, "configured">>, u) => Done(u)
    BY <1>1, <2>6, ConfiguredDeps
  <2>1. Deps[cmd.pkg][i] \in Pkg BY <1>1, DepsType
  <2>2. \A s \in InstallSet(Deps[cmd.pkg][i]) : Done(<<Deps[cmd.pkg][i], s>>)
    BY <1>1, <2>3, DepsDone
  <2> QED BY <2>1, <2>2, DoneMade
<1> QED BY <1>1, <1>4, DoneMade

\* After a make that ends well the next one has nothing to do for the package
\* and for its dependencies, unless a hook deletes stamps: every stamp the goal
\* depends on is there and newer than its inputs (pkg-generic.mk:554-645).
THEOREM NothingLeftToDo == Spec => []NextMakeIsIdle
BY StepInvariant, InvIdle, PTL

-----------------------------------------------------------------------------
\* What is taken for done.

LEMMA NotOwnInput == ASSUME NEW p, NEW s \in Stamp PROVE s \notin Inputs(p, s)
<1>1. Level[s] \in Nat BY DEF Level, Stamp
<1> QED BY <1>1, InputsBelow

LEMMA TrustedValid ==
  ASSUME IInv, NEW p \in Pkg, NEW s \in Stamp, Trusted(p, s)
  PROVE  Valid(<<p, s>>)
<1>1. s \in Ancestors(p, s) /\ <<p, s>> \in Target BY AncestorsAre DEF Target
<1>2. Settled(p, s) => stamp[p][s] # 0 BY <1>1 DEF Settled
<1>3. Fresh(p, s) \/ Done(<<p, s>>) => Seen(<<p, s>>) BY <1>1 DEF Fresh, Done
<1> QED BY <1>1, <1>2, <1>3 DEF Trusted, IInv, TimeInv, MakeInv

\* What is up to date is so because all it is made from was when make looked.
LEMMA UpToDateFresh ==
  ASSUME IInv, NEW p \in Pkg, NEW s \in Stamp, Doing("leave", <<p, s>>), ~MustRemake(p, s)
  PROVE  Fresh(p, s)
<1> DEFINE D == {u \in Stamp : /\ <<p, u>> \notin made /\ Seen(<<p, u>>) /\ ~MustRemake(p, u)
                               /\ \A d \in Inputs(p, u) : Done(<<p, d>>)}
<1>1. s \in D BY LeaveIs
<1>2. ASSUME NEW u \in D, NEW d \in Inputs(p, u) PROVE d \in D
  <2>1. Done(<<p, d>>) /\ <<p, d>> \notin made /\ d \in Stamp
    BY InputsBelow DEF MustRemake
  <2>2. ~MustRemake(p, d) BY <2>1 DEF IInv, MakeInv
  <2>3. \A e \in Inputs(p, d) : Done(<<p, e>>)
    BY <2>1, InputNeeded DEF IInv, MakeInv
  <2> QED BY <2>1, <2>2, <2>3 DEF Done
<1>3. Ancestors(p, s) \subseteq D BY <1>1, <1>2, AncestorsLeast
<1>4. ASSUME NEW u \in Ancestors(p, s), NEW d \in Inputs(p, u)
      PROVE  old[<<p, d>>] <= old[<<p, u>>]
  <2>1. u \in D /\ ~(old[<<p, d>>] > old[<<p, u>>]) BY <1>3 DEF MustRemake
  <2>2. <<p, d>> \in Target /\ <<p, u>> \in Target BY <2>1, InputNeeded
  <2>3. old[<<p, d>>] \in Int /\ old[<<p, u>>] \in Int BY <2>2 DEF IInv, TypeOK, Unseen
  <2> QED BY <2>1, <2>3
<1> QED BY <1>3, <1>4 DEF Fresh, MustRemake

\* What make must remake was not taken for done, nor is what is made from it.
LEMMA RemakeUntrusted ==
  ASSUME IInv, NEW p \in Pkg, NEW s \in Stamp, Doing("leave", <<p, s>>) \/ running = <<p, s>>,
         MustRemake(p, s), NEW u \in Stamp, s \in Ancestors(p, u)
  PROVE  ~Trusted(p, u)
<1>1. /\ ~Done(<<p, s>>) /\ Seen(<<p, s>>) /\ <<p, s>> \notin made /\ <<p, s>> \in Target
      /\ \A d \in Inputs(p, s) : Done(<<p, d>>)
  BY LeaveIs
<1>2. ~Done(<<p, u>>) BY <1>1, DoneAncestors
<1>3. \A d \in Inputs(p, s) : d \in Stamp /\ d \in Ancestors(p, u) /\ <<p, d>> \in Target
  BY AncestorsAre, InputsBelow, InputNeeded
<1>4. /\ old[<<p, s>>] \in Int
      /\ \A d \in Inputs(p, s) : old[<<p, d>>] \in Int
  BY <1>1, <1>3 DEF IInv, TypeOK, Unseen
<1>5. ASSUME Fresh(p, u) PROVE FALSE
  <2>1. old[<<p, s>>] # 0 /\ \A d \in Inputs(p, s) : old[<<p, d>>] <= old[<<p, s>>]
    BY <1>5 DEF Fresh
  <2>2. \A d \in Inputs(p, s) : <<p, d>> \notin made BY <1>3, <1>5 DEF Fresh
  <2>3. PICK d \in Inputs(p, s) : old[<<p, d>>] > old[<<p, s>>]
    BY <2>1, <2>2 DEF MustRemake
  <2>4. old[<<p, d>>] <= old[<<p, s>>] /\ old[<<p, d>>] \in Int BY <1>4, <2>1
  <2> QED BY <1>4, <2>3, <2>4
<1>6. ASSUME Settled(p, u) PROVE FALSE
  <2>1. stamp[p][s] # 0 /\ \A d \in Inputs(p, s) : stamp[p][d] < stamp[p][s]
    BY <1>6 DEF Settled
  <2>2. ~Wiped(p) /\ stamp[p][s] = old[<<p, s>>] BY <1>1, <2>1 DEF IInv, TimeInv
  <2>3. PICK d \in Inputs(p, s) : <<p, d>> \in made \/ old[<<p, d>>] > old[<<p, s>>]
    BY <2>1, <2>2 DEF MustRemake
  <2>4. stamp[p][d] \in Nat /\ stamp[p][s] \in Nat BY <1>3 DEF IInv, TypeOK
  <2>5. CASE <<p, d>> \in made
    <3>1. stamp[p][s] < stamp[p][d] BY <1>1, <1>3, <2>5 DEF IInv, TimeInv
    <3> QED BY <2>1, <2>4, <3>1
  <2>6. CASE <<p, d>> \notin made
    <3>1. stamp[p][d] = old[<<p, d>>]
      BY <1>1, <1>3, <2>2, <2>6 DEF IInv, TimeInv, Done
    <3> QED BY <2>1, <2>2, <2>3, <2>4, <2>6, <3>1
  <2> QED BY <2>5, <2>6
<1> QED BY <1>2, <1>5, <1>6 DEF Trusted

\* A recipe changes one place only, and a step that is not made from its stamp
\* keeps what it has left.
LEMMA GoodKept ==
  ASSUME TypeOK, NEW p \in Pkg, NEW s \in Stamp, NEW u \in Stamp, s \notin Ancestors(p, u),
         Valid(<<p, s>>), Valid(<<p, u>>), Good(p, u), NEW v,
         \/ art' = art
         \/ s \notin {"source", "patched"} /\ art' = [art EXCEPT ![p][PlaceOf(s)] = v]
  PROVE  Good(p, u)'
<1>1. s # u BY AncestorsAre
<1>2. \A x \in Place : x = PlaceOf(s) \/ art'[p][x] = art[p][x] BY DEF TypeOK
<1>3. ASSUME u \notin {"source", "patched"}, s \notin {"source", "patched"}
      PROVE  PlaceOf(u) # PlaceOf(s) /\ PlaceOf(u) \in Place
  BY <1>1, <1>3, PlacesAre DEF Stamp, Valid, Place
<1>4. ASSUME u \in {"staging", "target", "images", "host"}, s \notin {"source", "patched"}
      PROVE  "objects" # PlaceOf(s) /\ PlaceOf(u) = u
  <2>1. "built" \in Ancestors(p, u) BY <1>4 DEF Ancestors, Chain, Level
  <2>2. s # "built" BY <2>1
  <2> QED BY <1>4, <2>2, PlacesAre DEF Stamp
<1>5. "objects" \in Place BY DEF Place
<1> QED BY <1>2, <1>3, <1>4, <1>5 DEF Good

LEMMA SettledNext ==
  ASSUME NEW p, NEW s
  PROVE  Settled(p, s)' <=>
           \A u \in Ancestors(p, s) :
             stamp'[p][u] # 0 /\ \A d \in Inputs(p, u) : stamp'[p][d] < stamp'[p][u]
BY DEF Settled, Ancestors, Inputs

LEMMA FreshNext ==
  ASSUME NEW p, NEW s
  PROVE  Fresh(p, s)' <=>
           \A u \in Ancestors(p, s) :
             /\ Seen(<<p, u>>)' /\ <<p, u>> \notin made' /\ old'[<<p, u>>] # 0
             /\ \A d \in Inputs(p, u) : old'[<<p, d>>] <= old'[<<p, u>>]
BY DEF Fresh, Ancestors, Inputs

LEMMA ThinnedSettled ==
  ASSUME Thinned, NEW p \in Pkg, NEW s \in Stamp, Settled(p, s)'
  PROVE  Settled(p, s)
<1>1. \A u \in Ancestors(p, s) : u \in Stamp /\ \A d \in Inputs(p, u) : d \in Ancestors(p, s)
  BY AncestorsAre
<1>2. \A u \in Ancestors(p, s) :
        stamp'[p][u] # 0 /\ \A d \in Inputs(p, u) : stamp'[p][d] < stamp'[p][u]
  BY SettledNext
<1>3. ASSUME NEW u \in Ancestors(p, s) PROVE stamp[p][u] # 0 BY <1>1, <1>2 DEF Thinned
<1>4. ASSUME NEW u \in Ancestors(p, s), NEW d \in Inputs(p, u)
      PROVE  stamp[p][d] < stamp[p][u]
  <2>1. d \in Stamp /\ u \in Stamp /\ stamp'[p][d] # 0 /\ stamp'[p][d] < stamp'[p][u]
    BY <1>1, <1>2
  <2> QED BY <2>1 DEF Thinned
<1> QED BY <1>3, <1>4 DEF Settled

LEMMA KeptSettled ==
  ASSUME NEW p \in Pkg, Kept(p), NEW s \in Stamp
  PROVE  Settled(p, s)' <=> Settled(p, s)
<1>1. \A u \in Ancestors(p, s) : u \in Stamp /\ \A d \in Inputs(p, u) : d \in Ancestors(p, s)
  BY AncestorsAre
<1>2. \A u \in Stamp : stamp'[p][u] # 0 <=> stamp[p][u] # 0 BY DEF Kept
<1>3. \A u, d \in Stamp : stamp[p][d] # 0 =>
        (stamp'[p][d] < stamp'[p][u] <=> stamp[p][d] < stamp[p][u])
  BY DEF Kept
<1>4. ASSUME Settled(p, s) PROVE Settled(p, s)'
  <2>1. \A u \in Ancestors(p, s) : stamp'[p][u] # 0 BY <1>1, <1>2, <1>4 DEF Settled
  <2>2. ASSUME NEW u \in Ancestors(p, s), NEW d \in Inputs(p, u)
        PROVE  stamp'[p][d] < stamp'[p][u]
    <3>1. u \in Stamp /\ d \in Stamp /\ d \in Ancestors(p, s) BY <1>1
    <3>2. stamp[p][d] # 0 /\ stamp[p][d] < stamp[p][u] BY <1>4, <3>1 DEF Settled
    <3> QED BY <1>3, <3>1, <3>2
  <2> QED BY <2>1, <2>2, SettledNext
<1>5. ASSUME Settled(p, s)' PROVE Settled(p, s)
  <2>0. \A u \in Ancestors(p, s) :
          stamp'[p][u] # 0 /\ \A d \in Inputs(p, u) : stamp'[p][d] < stamp'[p][u]
    BY <1>5, SettledNext
  <2>1. \A u \in Ancestors(p, s) : stamp[p][u] # 0 BY <1>1, <1>2, <2>0
  <2>2. ASSUME NEW u \in Ancestors(p, s), NEW d \in Inputs(p, u)
        PROVE  stamp[p][d] < stamp[p][u]
    <3>1. u \in Stamp /\ d \in Stamp /\ d \in Ancestors(p, s) BY <1>1
    <3>2. stamp[p][d] # 0 /\ stamp'[p][d] < stamp'[p][u] BY <2>0, <2>1, <3>1
    <3> QED BY <1>3, <3>1, <3>2
  <2> QED BY <2>1, <2>2 DEF Settled
<1> QED BY <1>4, <1>5

\* The commands of the developer and the ends of make: nothing is seen any more,
\* and no stamp is newer than before.
LEMMA QuietArt ==
  ASSUME ArtInv, \A t \in Target : ~Seen(t)', Thinned, art' = art, patches' = patches,
         \A q \in Patched, s \in {"extracted", "patched"} : Settled(q, s)' <=> Settled(q, s)
  PROVE  ArtInv'
<1>1. ASSUME NEW p \in Pkg, NEW s \in Stamp, Trusted(p, s)' PROVE Good(p, s)'
  <2>1. s \in Ancestors(p, s) /\ <<p, s>> \in Target BY AncestorsAre DEF Target
  <2>2. ~Done(<<p, s>>)' BY <2>1 DEF Done
  <2>3. ~Fresh(p, s)' BY <2>1, FreshNext
  <2>4. Settled(p, s) BY <1>1, <2>2, <2>3, ThinnedSettled DEF Trusted
  <2>5. Good(p, s) BY <2>4 DEF ArtInv, Trusted
  <2> QED BY <2>5 DEF Good
<1> QED BY <1>1 DEF ArtInv

LEMMA KeptArt ==
  ASSUME ArtInv, \A t \in Target : ~Seen(t)', Thinned, art' = art, patches' = patches,
         \A q \in Pkg \ Override : Kept(q)
  PROVE  ArtInv'
<1>1. \A q \in Patched : q \in Pkg \ Override BY PkgAssumption
<1>2. \A q \in Patched, s \in {"extracted", "patched"} : Settled(q, s)' <=> Settled(q, s)
  BY <1>1, KeptSettled DEF Stamp
<1> QED BY <1>2, QuietArt

LEMMA RemoveArt ==
  ASSUME IInv, ArtInv, NEW p \in Pkg, NEW s \in Stamp, RemoveStamp(p, s)
  PROVE  ArtInv'
<1>1. Thinned /\ s \in Cleanable /\ \A t \in Target : ~Seen(t)
  BY RemoveIInv
<1>2. \A t \in Target : ~Seen(t)' BY <1>1 DEF Seen, RemoveStamp
<1>3. \A q \in Pkg, u \in Stamp \ Cleanable : stamp'[q][u] = stamp[q][u]
  BY <1>1 DEF RemoveStamp, IInv, TypeOK, Cleanable
<1>4. ASSUME NEW q \in Patched, NEW u \in {"extracted", "patched"}
      PROVE  Settled(q, u)' <=> Settled(q, u)
  <2>1. q \in Pkg /\ u \in Stamp BY PkgAssumption DEF Stamp
  <2>2. Ancestors(q, u) \subseteq Stamp \ Cleanable
    BY DEF Ancestors, Chain, Level, Cleanable, Stamp
  <2>3. \A v \in Ancestors(q, u) : Inputs(q, v) \subseteq Stamp \ Cleanable
    BY <2>1, <2>2, AncestorsAre
  <2> QED BY <1>3, <2>1, <2>2, <2>3, SettledNext DEF Settled
<1> QED BY <1>1, <1>2, <1>4, QuietArt DEF RemoveStamp

LEMMA CleanArt ==
  ASSUME IInv, ArtInv, NEW p \in Pkg, CleanDir(p)
  PROVE  ArtInv'
<1>1. Thinned /\ \A t \in Target : ~Seen(t) BY CleanIInv
<1>2. \A t \in Target : ~Seen(t)' BY <1>1 DEF Seen, CleanDir
<1>3. /\ \A u \in Stamp : stamp'[p][u] = 0
      /\ art'[p]["tree"] = None /\ patches'[p] = "none"
      /\ \A q \in Pkg \ {p} : /\ stamp'[q] = stamp[q] /\ art'[q] = art[q]
                              /\ patches'[q] = patches[q]
  BY DEF CleanDir, IInv, TypeOK, Place
<1>4. \A u \in Stamp : ~Settled(p, u)' BY <1>3, AncestorsAre, SettledNext
<1>5. ASSUME NEW q \in Pkg, NEW s \in Stamp, Trusted(q, s)'
      PROVE  q # p /\ Settled(q, s) /\ Good(q, s)'
  <2>1. s \in Ancestors(q, s) /\ <<q, s>> \in Target BY AncestorsAre DEF Target
  <2>2. ~Done(<<q, s>>)' BY <1>2, <2>1 DEF Done
  <2>3. ~Fresh(q, s)' BY <1>2, <2>1, FreshNext
  <2>4. Settled(q, s)' BY <1>5, <2>2, <2>3 DEF Trusted
  <2>5. q # p /\ Settled(q, s) BY <1>1, <1>4, <2>4, ThinnedSettled
  <2>6. Good(q, s) BY <2>5 DEF ArtInv, Trusted
  <2> QED BY <1>3, <2>5, <2>6 DEF Good
<1>6. ASSUME NEW q \in Patched
      PROVE  /\ patches'[q] # "none" => Settled(q, "extracted")'
             /\ patches'[q] = "all" <=> Settled(q, "patched")'
  <2>1. q \in Pkg BY PkgAssumption
  <2>2. CASE q = p BY <1>3, <1>4, <2>2 DEF Stamp
  <2>3. CASE q # p
    <3>1. Kept(q) BY <1>3, <2>1, <2>3 DEF Kept
    <3>2. \A s \in {"extracted", "patched"} : Settled(q, s)' <=> Settled(q, s)
      BY <2>1, <3>1, KeptSettled DEF Stamp
    <3> QED BY <1>3, <2>1, <2>3, <3>2 DEF ArtInv
  <2> QED BY <2>2, <2>3
<1>7. None # Torn BY DEF None, Torn
<1> QED BY <1>3, <1>5, <1>6, <1>7 DEF ArtInv

\* The sources come whole out of rsync.
LEMMA SyncedWhole ==
  ASSUME IInv, NEW p \in Override, art[p]["tree"] # Torn
  PROVE  Whole(Synced(p)) /\ Synced(p) # Torn
<1>1. p \in Pkg /\ "tree" \in Place /\ MaxVer \in Nat BY PkgAssumption DEF Place
<1>2. src[p] \in Gone .. MaxVer /\ art[p]["tree"] \in Value BY <1>1 DEF IInv, TypeOK
<1> QED BY <1>1, <1>2 DEF Synced, Whole, Value, Gone, Torn, None

LEMMA FailsArt ==
  ASSUME IInv, ArtInv, NEW p \in Pkg, NEW s \in Stamp, RecipeFails(p, s)
  PROVE  ArtInv'
<1>1. /\ IInv' /\ Thinned /\ \A q \in Pkg \ Override : Kept(q)
      /\ UNCHANGED <<art, patches>> \/ (s = "rsynced" /\ EndEffect(p, s))
  BY FailsIInv
<1>2. \A t \in Target : ~Seen(t)' BY DEF Seen, RecipeFails, EndOfMake
<1>3. CASE UNCHANGED <<art, patches>> BY <1>1, <1>2, <1>3, KeptArt
<1>4. CASE s = "rsynced" /\ EndEffect(p, s)
  <2>1. running = <<p, s>> BY DEF RecipeFails
  <2>2. p \in Override /\ s = "rsynced" BY <1>4, <2>1, LeaveIs DEF Valid
  <2>3. art' = [art EXCEPT ![p]["tree"] = Synced(p)] /\ patches' = patches
    BY <1>4, PlacesAre, ResultIs DEF EndEffect
  <2>4. Whole(Synced(p)) /\ Synced(p) # Torn BY <2>2, SyncedWhole DEF ArtInv
  <2>5. /\ art'[p]["tree"] = Synced(p)
        /\ \A x \in Place \ {"tree"} : art'[p][x] = art[p][x]
        /\ \A q \in Pkg \ {p} : art'[q] = art[q]
    BY <2>3 DEF IInv, TypeOK, Place
  <2>6. ASSUME NEW q \in Pkg, NEW u \in Stamp, Trusted(q, u)' PROVE Good(q, u)'
    <3>1. u \in Ancestors(q, u) /\ <<q, u>> \in Target BY AncestorsAre DEF Target
    <3>2. ~Done(<<q, u>>)' BY <1>2, <3>1 DEF Done
    <3>3. ~Fresh(q, u)' BY <1>2, <3>1, FreshNext
    <3>4. Settled(q, u) BY <1>1, <2>6, <3>2, <3>3, ThinnedSettled DEF Trusted
    <3>5. Good(q, u) /\ Valid(<<q, u>>) BY <3>4, TrustedValid DEF ArtInv, Trusted
    <3>6. CASE q = p
      <4>1. u \notin {"source", "extracted", "patched"} BY <2>2, <3>5, <3>6 DEF Valid
      <4>2. CASE u = "rsynced" BY <2>4, <2>5, <3>6, <4>2, PlacesAre DEF Good
      <4>3. CASE u # "rsynced"
        <5>1. PlaceOf(u) \in Place \ {"tree"} /\ "objects" \in Place \ {"tree"}
          BY <4>1, <4>3, PlacesAre DEF Stamp, Place
        <5>2. u \in {"staging", "target", "images", "host"} => PlaceOf(u) = u
          BY PlacesAre
        <5> QED BY <2>5, <3>5, <3>6, <5>1, <5>2 DEF Good
      <4> QED BY <4>2, <4>3
    <3>7. CASE q # p BY <2>5, <3>5, <3>7 DEF Good
    <3> QED BY <3>6, <3>7
  <2>7. \A q \in Override : art'[q]["tree"] # Torn
    BY <2>4, <2>5, PkgAssumption DEF ArtInv
  <2>8. ASSUME NEW q \in Patched
        PROVE  /\ patches'[q] # "none" => Settled(q, "extracted")'
               /\ patches'[q] = "all" <=> Settled(q, "patched")'
    <3>1. q \in Pkg \ Override BY PkgAssumption
    <3>2. \A v \in {"extracted", "patched"} : Settled(q, v)' <=> Settled(q, v)
      BY <1>1, <3>1, KeptSettled DEF Stamp
    <3> QED BY <2>3, <3>1, <3>2 DEF ArtInv
  <2> QED BY <2>6, <2>7, <2>8, PkgAssumption DEF ArtInv
<1> QED BY <1>1, <1>3, <1>4

\* While make only looks, what is taken for done changes for one target at most.
LEMMA LookArt ==
  ASSUME ArtInv, stamp' = stamp, art' = art, patches' = patches,
         \A q \in Pkg, u \in Stamp : Trusted(q, u)' => Trusted(q, u)
  PROVE  ArtInv'
<1>1. ASSUME NEW q \in Pkg, NEW u \in Stamp, Trusted(q, u)' PROVE Good(q, u)'
  BY <1>1 DEF ArtInv, Good
<1>2. \A q \in Pkg, u \in Stamp : Settled(q, u)' <=> Settled(q, u)
  BY SettledNext DEF Settled
<1> QED BY <1>1, <1>2, PkgAssumption DEF ArtInv, Stamp

LEMMA EnterArt ==
  ASSUME IInv, ArtInv, NEW p \in Pkg, NEW s \in Stamp, Enter(p, s)
  PROVE  ArtInv'
<1>1. stamp' = stamp /\ art' = art /\ patches' = patches /\ made' = made
  BY DEF Enter, disk
<1> SUFFICES ASSUME NEW q \in Pkg, NEW u \in Stamp, Trusted(q, u)' PROVE Trusted(q, u)
  BY <1>1, LookArt
<1>2. \A t \in Target : Done(t)' <=> Done(t) BY EnterSeenIInv, EnterNewIInv
<1>3. <<q, u>> \in Target BY DEF Target
<1>4. CASE Settled(q, u)' BY <1>1, <1>4, SettledNext DEF Settled, Trusted
<1>5. CASE Done(<<q, u>>)' BY <1>2, <1>3, <1>5 DEF Trusted
<1>6. CASE Fresh(q, u)'
  <2>1. /\ \A a \in Ancestors(q, u) :
             /\ Seen(<<q, a>>)' /\ <<q, a>> \notin made /\ old'[<<q, a>>] # 0
             /\ \A d \in Inputs(q, a) : old'[<<q, d>>] <= old'[<<q, a>>]
    BY <1>1, <1>6, FreshNext
  <2>2. CASE old' = old BY <2>1, <2>2 DEF Fresh, Trusted, Seen
  <2>3. CASE ~Seen(<<p, s>>)
    <3>1. old' = [old EXCEPT ![<<p, s>>] = stamp[p][s]] BY <2>3, EnterNewIInv
    <3>2. /\ <<p, s>> \in Target /\ old'[<<p, s>>] = stamp[p][s]
          /\ \A t \in Target \ {<<p, s>>} : old'[t] = old[t] /\ (Seen(t)' <=> Seen(t))
      BY <3>1 DEF IInv, TypeOK, Target, Seen
    <3>3. \A a \in Ancestors(q, u) : /\ a \in Stamp /\ <<q, a>> \in Target
                                     /\ Inputs(q, a) \subseteq Ancestors(q, u)
      BY AncestorsAre DEF Target
    <3>4. CASE q # p \/ s \notin Ancestors(q, u)
      <4>1. \A a \in Ancestors(q, u) :
              old'[<<q, a>>] = old[<<q, a>>] /\ (Seen(<<q, a>>)' <=> Seen(<<q, a>>))
        BY <3>2, <3>3, <3>4
      <4>2. \A a \in Ancestors(q, u) :
              /\ Seen(<<q, a>>) /\ <<q, a>> \notin made /\ old[<<q, a>>] # 0
              /\ \A d \in Inputs(q, a) : old[<<q, d>>] <= old[<<q, a>>]
        BY <2>1, <3>3, <4>1
      <4> QED BY <4>2 DEF Fresh, Trusted
    <3>5. CASE q = p /\ s \in Ancestors(q, u)
      <4>1. ~Wiped(p)
        <5>1. stamp[p][s] # 0 /\ <<p, s>> \notin made BY <2>1, <3>2, <3>5
        <5> QED BY <5>1 DEF IInv, TimeInv
      <4>2. \A a \in Ancestors(p, u) : old'[<<p, a>>] = stamp[p][a]
        <5> SUFFICES ASSUME NEW a \in Ancestors(p, u) PROVE old'[<<p, a>>] = stamp[p][a]
          OBVIOUS
        <5>1. CASE a = s BY <3>2, <5>1
        <5>2. CASE a # s
          <6>1. <<p, a>> \in Target \ {<<p, s>>} /\ a \in Stamp BY <3>3, <3>5, <5>2
          <6>2. Seen(<<p, a>>) /\ <<p, a>> \notin made BY <2>1, <3>2, <3>5, <6>1
          <6>3. old[<<p, a>>] = stamp[p][a] BY <4>1, <6>1, <6>2 DEF IInv, TimeInv
          <6> QED BY <3>2, <6>1, <6>3
        <5> QED BY <5>1, <5>2
      <4>3. ASSUME NEW a \in Ancestors(p, u), NEW d \in Inputs(p, a)
            PROVE  stamp[p][d] < stamp[p][a]
        <5>1. a \in Stamp /\ d \in Stamp /\ d \in Ancestors(p, u) /\ d # a
          BY <3>3, <3>5, NotOwnInput
        <5>2. stamp[p][d] <= stamp[p][a] /\ stamp[p][a] # 0 BY <2>1, <3>5, <4>2, <5>1
        <5>3. stamp[p][d] # stamp[p][a] BY <5>1, <5>2 DEF IInv, TimeInv
        <5>4. stamp[p][d] \in Nat /\ stamp[p][a] \in Nat BY <5>1 DEF IInv, TypeOK
        <5> QED BY <5>2, <5>3, <5>4
      <4>4. \A a \in Ancestors(p, u) : stamp[p][a] # 0 BY <2>1, <3>5, <4>2
      <4> QED BY <3>5, <4>3, <4>4 DEF Settled, Trusted
    <3> QED BY <3>4, <3>5
  <2> QED BY <2>2, <2>3 DEF Enter, Seen
<1> QED BY <1>4, <1>5, <1>6 DEF Trusted

LEMMA UpToDateArt ==
  ASSUME IInv, ArtInv, NEW p \in Pkg, NEW s \in Stamp, UpToDate(p, s)
  PROVE  ArtInv'
<1>1. /\ stamp' = stamp /\ art' = art /\ patches' = patches /\ made' = made /\ old' = old
      /\ Doing("leave", <<p, s>>) /\ ~MustRemake(p, s)
  BY DEF UpToDate, disk
<1>2. Fresh(p, s) BY <1>1, UpToDateFresh
<1> SUFFICES ASSUME NEW q \in Pkg, NEW u \in Stamp, Trusted(q, u)' PROVE Trusted(q, u)
  BY <1>1, LookArt
<1>3. \A t \in Target : Done(t)' <=> Done(t) \/ t = <<p, s>> BY UpToDateIInv
<1>4. <<q, u>> \in Target BY DEF Target
<1>5. CASE Settled(q, u)' BY <1>1, <1>5, SettledNext DEF Settled, Trusted
<1>6. CASE Fresh(q, u)' BY <1>1, <1>6, FreshNext DEF Fresh, Trusted, Seen
<1>7. CASE Done(<<q, u>>)' BY <1>2, <1>3, <1>4, <1>7 DEF Trusted
<1> QED BY <1>5, <1>6, <1>7 DEF Trusted

LEMMA StartArt ==
  ASSUME IInv, ArtInv, NEW p \in Pkg, NEW s \in Stamp, StartRecipe(p, s)
  PROVE  ArtInv'
<1>1. /\ stamp' = stamp /\ made' = made /\ old' = old /\ BeginEffect(p, s)
      /\ Doing("leave", <<p, s>>) /\ MustRemake(p, s) /\ Applies(p, s)
  BY DEF StartRecipe
<1>2. Valid(<<p, s>>) /\ \A d \in Inputs(p, s) : Done(<<p, d>>) BY <1>1, LeaveIs
<1>3. \A t \in Target : (Seen(t)' <=> Seen(t)) /\ (Done(t)' <=> Done(t)) BY StartIInv
<1>4. \A q \in Pkg, u \in Stamp : Settled(q, u)' <=> Settled(q, u)
  BY <1>1, SettledNext DEF Settled
<1>5. \A q \in Pkg, u \in Stamp : Trusted(q, u)' <=> Trusted(q, u)
  <2>1. \A q \in Pkg, u \in Stamp : Fresh(q, u)' <=> Fresh(q, u)
    BY <1>1, FreshNext DEF Fresh, Seen
  <2>2. \A q \in Pkg, u \in Stamp : <<q, u>> \in Target BY DEF Target
  <2> QED BY <1>3, <1>4, <2>1, <2>2 DEF Trusted
<1>6. /\ \/ art' = art
         \/ s \notin {"source", "patched", "rsynced"} /\ art' = [art EXCEPT ![p][PlaceOf(s)] = Torn]
      /\ \A q \in Pkg \ {p} : art'[q] = art[q] /\ patches'[q] = patches[q]
  BY <1>1 DEF BeginEffect, IInv, TypeOK
<1>7. ASSUME NEW q \in Pkg, NEW u \in Stamp, Trusted(q, u)' PROVE Good(q, u)'
  <2>1. Good(q, u) /\ Trusted(q, u) /\ Valid(<<q, u>>)
    BY <1>5, <1>7, TrustedValid DEF ArtInv
  <2>2. CASE q # p BY <1>6, <2>1, <2>2 DEF Good
  <2>3. CASE q = p
    <3>1. s \notin Ancestors(p, u) BY <1>1, <2>1, <2>3, RemakeUntrusted
    <3>2. \/ art' = art
          \/ s \notin {"source", "patched"} /\ art' = [art EXCEPT ![p][PlaceOf(s)] = Torn]
      BY <1>6
    <3>3. Good(p, u) /\ Valid(<<p, u>>) /\ TypeOK BY <2>1, <2>3 DEF IInv
    <3>4. Good(p, u)' BY <1>2, <3>1, <3>2, <3>3, GoodKept
    <3> QED BY <2>3, <3>4
  <2> QED BY <2>2, <2>3
<1>8. ASSUME NEW q \in Override PROVE art'[q]["tree"] # Torn
  <2>1. q \in Pkg /\ art[q]["tree"] # Torn /\ "tree" \in Place
    BY PkgAssumption DEF ArtInv, Place
  <2>2. CASE q # p BY <1>6, <2>1, <2>2
  <2>3. CASE q = p
    <3>1. s # "extracted" BY <1>2, <2>3 DEF Valid
    <3>2. s \notin {"source", "patched", "rsynced"} => PlaceOf(s) # "tree"
      BY <3>1, PlacesAre DEF Stamp
    <3> QED BY <1>6, <2>1, <2>3, <3>2 DEF IInv, TypeOK
  <2> QED BY <2>2, <2>3
<1>9. ASSUME NEW q \in Patched
      PROVE  /\ patches'[q] # "none" => Settled(q, "extracted")'
             /\ patches'[q] = "all" <=> Settled(q, "patched")'
  <2>1. q \in Pkg /\ q \notin Override BY PkgAssumption
  <2>2. /\ patches[q] # "none" => Settled(q, "extracted")'
        /\ patches[q] = "all" <=> Settled(q, "patched")'
    BY <1>4, <2>1 DEF ArtInv, Stamp
  <2>3. CASE patches'[q] = patches[q] BY <2>2, <2>3
  <2>4. CASE q = p /\ s = "patched"
    <3>1. patches'[q] \in {patches[q], "some"}
      BY <1>1, <2>1, <2>4 DEF BeginEffect, IInv, TypeOK
    <3>2. "extracted" \in Inputs(p, s) BY <2>1, <2>4, InputsAre
    <3>3. ~Wiped(p) BY <2>1, <2>4 DEF Wiped, IInv, TypeOK
    <3>4. Settled(p, "extracted") BY <1>2, <3>2, <3>3, DoneSettled DEF Stamp
    <3>5. ~Settled(p, s) BY <1>1, AncestorsAre, RemakeUntrusted DEF Trusted
    <3> QED BY <1>4, <2>1, <2>2, <2>4, <3>1, <3>4, <3>5 DEF Stamp
  <2>5. patches' = patches \/ (p = q /\ s = "patched") \/ q # p
    BY <1>1, <2>1 DEF BeginEffect
  <2> QED BY <1>6, <2>1, <2>3, <2>4, <2>5
<1> QED BY <1>7, <1>8, <1>9 DEF ArtInv

\* The trees a step reads are whole when all it needs is done.
LEMMA ReadsWhole ==
  ASSUME IInv, ArtInv, NEW p \in Pkg, NEW s \in Stamp, Valid(<<p, s>>),
         \A u \in Target : Needs(<<p, s>>, u) => Done(u)
  PROVE  /\ s \in {"configured", "built"} => Whole(art[p]["tree"])
         /\ s \in {"staging", "target", "images", "host"} => Whole(art[p]["objects"])
<1>1. \A d \in Inputs(p, s) : d \in Stamp /\ Done(<<p, d>>) BY InputNeeded, InputsBelow
<1>2. ASSUME s \in {"configured", "built"} PROVE Whole(art[p]["tree"])
  <2>1. CASE p \in Override
    <3>1. Done(<<p, "rsynced">>)
      <4>1. CASE s = "configured" BY <2>1, <4>1 DEF Needs, Target, Stamp
      <4>2. CASE s = "built"
        <5>1. Done(<<p, "configured">>) BY <1>1, <4>2, InputsAre
        <5> QED BY <2>1, <5>1, RsyncFirst DEF Stamp
      <4> QED BY <1>2, <4>1, <4>2
    <3>2. Good(p, "rsynced") BY <3>1 DEF ArtInv, Trusted, Stamp
    <3> QED BY <3>2, PlacesAre DEF Good
  <2>2. CASE p \notin Override
    <3>1. Done(<<p, "extracted">>)
      <4>1. PICK d \in Inputs(p, s) : d \in {"patched", "configured"}
        BY <1>2, <2>2, InputsAre
      <4>2. "extracted" \in Ancestors(p, d)
        BY <2>2, <4>1 DEF Ancestors, Chain, Level
      <4> QED BY <1>1, <4>1, <4>2, DoneAncestors
    <3>2. Good(p, "extracted") BY <3>1 DEF ArtInv, Trusted, Stamp
    <3> QED BY <3>2, PlacesAre DEF Good
  <2> QED BY <2>1, <2>2
<1>3. ASSUME s \in {"staging", "target", "images", "host"} PROVE Whole(art[p]["objects"])
  <2>1. Done(<<p, "built">>) BY <1>1, <1>3, InputsAre
  <2>2. Good(p, "built") BY <2>1 DEF ArtInv, Trusted, Stamp
  <2> QED BY <2>2, PlacesAre DEF Good
<1> QED BY <1>2, <1>3

LEMMA ResultWhole ==
  ASSUME IInv, ArtInv, NEW p \in Pkg, NEW s \in Stamp \ {"source", "patched"}, Valid(<<p, s>>),
         \A u \in Target : Needs(<<p, s>>, u) => Done(u)
  PROVE  Whole(Result(p, s))
<1>1. CASE s = "extracted" BY <1>1, ResultIs DEF IInv, TypeOK, Whole
<1>2. CASE s = "rsynced"
  <2>1. p \in Override BY <1>2 DEF Valid
  <2> QED BY <1>2, <2>1, SyncedWhole, ResultIs DEF ArtInv
<1>3. CASE s \in {"configured", "built"} BY <1>3, ReadsWhole, ResultIs
<1>4. CASE s \in {"staging", "target", "images", "host"} BY <1>4, ReadsWhole, ResultIs
<1> QED BY <1>1, <1>2, <1>3, <1>4 DEF Stamp

\* A recipe that ends makes its stamp newest: of the other targets, only those
\* taken for done before and not made from it are taken for done.
LEMMA FinishTrusts ==
  ASSUME IInv, NEW p \in Pkg, NEW s \in Stamp, FinishRecipe(p, s)
  PROVE  /\ \A q \in Pkg \ {p}, u \in Stamp : Trusted(q, u)' => Trusted(q, u)
         /\ \A u \in Stamp \ {s} : Trusted(p, u)' => s \notin Ancestors(p, u) /\ Trusted(p, u)
         /\ \A q \in Pkg \ {p}, u \in Stamp : Settled(q, u)' <=> Settled(q, u)
         /\ p \notin Override => \A u \in Stamp : s \notin Ancestors(p, u) =>
              (Settled(p, u)' <=> Settled(p, u))
<1>1. /\ running = <<p, s>> /\ old' = old /\ made' = made \cup {<<p, s>>}
      /\ stamp' = [stamp EXCEPT ![p] = Touched(StampsAfter(p, s), s)]
  BY DEF FinishRecipe
<1> DEFINE wiping == s = "rsynced" /\ p \in mirror
<1>2. /\ stamp'[p][s] > 0
      /\ ~wiping => \A u \in Stamp \ {s} : stamp'[p][u] = stamp[p][u] /\ stamp'[p][u] < stamp'[p][s]
      /\ wiping => \A u \in Stamp \ {s} : stamp'[p][u] = 0
      /\ \A u \in Stamp : stamp'[p][u] \in Nat
      /\ \A q \in Pkg \ {p} : stamp'[q] = stamp[q]
  BY <1>1, TouchedIs DEF IInv, TypeOK
<1> HIDE DEF wiping
<1>3. /\ \A t \in Target : Seen(t)' <=> Seen(t)
      /\ \A t \in Target : Done(t)' <=> Done(t) \/ t = <<p, s>>
  BY FinishIInv
<1>4. \A q \in Pkg, u \in Stamp : <<q, u>> \in Target BY DEF Target
<1>5. \A q \in Pkg, u \in Stamp : \A a \in Ancestors(q, u) :
        a \in Stamp /\ \A d \in Inputs(q, a) : d \in Ancestors(q, u)
  BY AncestorsAre
<1>6. \A q \in Pkg \ {p}, u \in Stamp : Settled(q, u)' <=> Settled(q, u)
  BY <1>2, SettledNext DEF Settled
<1>7. ASSUME NEW q \in Pkg \ {p}, NEW u \in Stamp, Trusted(q, u)' PROVE Trusted(q, u)
  <2>1. Fresh(q, u)' => Fresh(q, u) BY <1>1, <1>3, <1>4, <1>5, FreshNext DEF Fresh
  <2>2. Done(<<q, u>>)' => Done(<<q, u>>) BY <1>3, <1>4
  <2> QED BY <1>6, <1>7, <2>1, <2>2 DEF Trusted
<1>8. ASSUME NEW u \in Stamp \ {s}, Trusted(p, u)', s \in Ancestors(p, u) PROVE FALSE
  <2>1. ~Trusted(p, u)
    <3>1. MustRemake(p, s) BY <1>1 DEF IInv, MakeInv
    <3> QED BY <1>1, <1>8, <3>1, RemakeUntrusted
  <2>2. ~Done(<<p, u>>)' BY <1>3, <1>4, <2>1 DEF Trusted
  <2>3. ~Fresh(p, u)' BY <1>1, <1>8, FreshNext
  <2>4. PICK w \in Ancestors(p, u) : s \in Inputs(p, w) BY <1>8, AncestorsServe
  <2>5. w \in Stamp \ {s} BY <1>5, <2>4, NotOwnInput
  <2>6. stamp'[p][w] # 0 /\ stamp'[p][s] < stamp'[p][w]
    BY <1>8, <2>2, <2>3, <2>4, SettledNext DEF Trusted
  <2>7. stamp'[p][w] \in Nat /\ stamp'[p][s] \in Nat BY <1>2, <2>5
  <2> QED BY <1>2, <2>5, <2>6, <2>7
<1>9. ASSUME NEW u \in Stamp, s \notin Ancestors(p, u), ~wiping
      PROVE  Settled(p, u)' <=> Settled(p, u)
  <2>1. \A a \in Ancestors(p, u) : stamp'[p][a] = stamp[p][a] BY <1>2, <1>5, <1>9
  <2> QED BY <1>5, <2>1, SettledNext DEF Settled
<1>10. ASSUME NEW u \in Stamp \ {s}, Trusted(p, u)' PROVE Trusted(p, u)
  <2>1. s \notin Ancestors(p, u) BY <1>8, <1>10
  <2>2. Done(<<p, u>>)' => Done(<<p, u>>) BY <1>3, <1>4
  <2>3. Fresh(p, u)' => Fresh(p, u) BY <1>1, <1>3, <1>4, <1>5, FreshNext DEF Fresh
  <2>4. Settled(p, u)' => Settled(p, u)
    <3>1. CASE wiping BY <1>2, <3>1, AncestorsAre, SettledNext
    <3>2. CASE ~wiping BY <1>9, <2>1, <3>2
    <3> QED BY <3>1, <3>2
  <2> QED BY <1>10, <2>2, <2>3, <2>4 DEF Trusted
<1>11. p \notin Override => ~wiping BY DEF wiping, IInv, TypeOK
<1> QED BY <1>6, <1>7, <1>8, <1>9, <1>10, <1>11

LEMMA FinishArt ==
  ASSUME IInv, ArtInv, NEW p \in Pkg, NEW s \in Stamp, FinishRecipe(p, s)
  PROVE  ArtInv'
<1>1. running = <<p, s>> /\ EndEffect(p, s) BY DEF FinishRecipe
<1>2. /\ Valid(<<p, s>>) /\ \A u \in Target : Needs(<<p, s>>, u) => Done(u)
      /\ \A d \in Inputs(p, s) : Done(<<p, d>>)
  BY <1>1, LeaveIs
<1>3. /\ \A q \in Pkg \ {p}, u \in Stamp : Trusted(q, u)' => Trusted(q, u)
      /\ \A u \in Stamp \ {s} : Trusted(p, u)' => s \notin Ancestors(p, u) /\ Trusted(p, u)
      /\ \A q \in Pkg \ {p}, u \in Stamp : Settled(q, u)' <=> Settled(q, u)
      /\ p \notin Override => \A u \in Stamp : s \notin Ancestors(p, u) =>
           (Settled(p, u)' <=> Settled(p, u))
  BY FinishTrusts
<1>4. s \notin {"source", "patched"} => Whole(Result(p, s)) /\ PlaceOf(s) \in Place
  BY <1>2, ResultWhole, ResultType DEF IInv
<1>5. /\ \/ art' = art
         \/ s \notin {"source", "patched"} /\ art' = [art EXCEPT ![p][PlaceOf(s)] = Result(p, s)]
      /\ \A q \in Pkg \ {p} : art'[q] = art[q] /\ patches'[q] = patches[q]
  BY <1>1 DEF EndEffect, IInv, TypeOK
<1>6. Good(p, s)'
  <2>1. ASSUME s \notin {"source", "patched"} PROVE Whole(art'[p][PlaceOf(s)])
    BY <1>1, <1>4, <2>1 DEF EndEffect, IInv, TypeOK
  <2>2. ASSUME s \in {"staging", "target", "images", "host"}
        PROVE  art'[p][s] = art'[p]["objects"]
    <3>1. PlaceOf(s) = s /\ Result(p, s) = art[p]["objects"] BY <2>2, PlacesAre, ResultIs
    <3>2. art' = [art EXCEPT ![p][s] = art[p]["objects"]]
      BY <1>1, <2>2, <3>1 DEF EndEffect
    <3>3. s \in Place /\ "objects" \in Place /\ s # "objects" BY <2>2 DEF Place
    <3> QED BY <3>2, <3>3 DEF IInv, TypeOK
  <2> QED BY <2>1, <2>2 DEF Good
<1>7. ASSUME NEW q \in Pkg, NEW u \in Stamp, Trusted(q, u)' PROVE Good(q, u)'
  <2>1. CASE q # p
    <3>1. Good(q, u) BY <1>3, <1>7, <2>1 DEF ArtInv
    <3> QED BY <1>5, <2>1, <3>1 DEF Good
  <2>2. CASE q = p /\ u = s BY <1>6, <2>2
  <2>3. CASE q = p /\ u # s
    <3>1. s \notin Ancestors(p, u) /\ Trusted(p, u) BY <1>3, <1>7, <2>3
    <3>2. Good(p, u) /\ Valid(<<p, u>>) /\ TypeOK
      BY <2>3, <3>1, TrustedValid DEF ArtInv, IInv
    <3>3. PICK v : v = Result(p, s) OBVIOUS
    <3>4. \/ art' = art
          \/ s \notin {"source", "patched"} /\ art' = [art EXCEPT ![p][PlaceOf(s)] = v]
      BY <1>5, <3>3
    <3>5. Good(p, u)' BY <1>2, <3>1, <3>2, <3>4, GoodKept
    <3> QED BY <2>3, <3>5
  <2> QED BY <2>1, <2>2, <2>3
<1>8. ASSUME NEW q \in Override PROVE art'[q]["tree"] # Torn
  <2>1. q \in Pkg /\ art[q]["tree"] # Torn /\ "tree" \in Place
    BY PkgAssumption DEF ArtInv, Place
  <2>2. CASE s \in {"source", "patched"} BY <1>1, <2>1, <2>2 DEF EndEffect
  <2>3. CASE s \notin {"source", "patched"}
    <3>1. Result(p, s) # Torn BY <1>4, <2>3 DEF Whole, Torn, Gone
    <3> QED BY <1>5, <2>1, <2>3, <3>1, <1>4 DEF IInv, TypeOK
  <2> QED BY <2>2, <2>3
<1>9. ASSUME NEW q \in Patched
      PROVE  /\ patches'[q] # "none" => Settled(q, "extracted")'
             /\ patches'[q] = "all" <=> Settled(q, "patched")'
  <2>1. q \in Pkg /\ q \notin Override BY PkgAssumption
  <2>2. /\ patches[q] # "none" => Settled(q, "extracted")
        /\ patches[q] = "all" <=> Settled(q, "patched")
    BY <2>1 DEF ArtInv
  <2>3. CASE q # p BY <1>3, <1>5, <2>1, <2>2, <2>3 DEF Stamp
  <2>4. CASE q = p
    <3>0. /\ Ancestors(p, "extracted") = {"source", "extracted"}
          /\ Ancestors(p, "patched") = {"source", "extracted", "patched"}
      BY <2>1, <2>4 DEF Ancestors, Chain, Level
    <3>1. MustRemake(p, s) BY <1>1 DEF IInv, MakeInv
    <3>2. CASE s \in {"source", "extracted"}
      <4>1. ~Settled(p, "extracted") /\ ~Settled(p, "patched")
        BY <1>1, <3>0, <3>1, <3>2, RemakeUntrusted DEF Trusted, Stamp
      <4>2. ~Settled(p, "patched")' BY <1>3, <3>0, <3>2 DEF Trusted, Stamp
      <4>3. patches' = patches BY <1>1, <3>2 DEF EndEffect
      <4> QED BY <2>2, <2>4, <4>1, <4>2, <4>3
    <3>3. CASE s = "patched"
      <4>1. patches'[q] = "all" BY <1>1, <2>1, <2>4, <3>3 DEF EndEffect, IInv, TypeOK
      <4>2. ~Wiped(p) /\ "extracted" \in Inputs(p, s)
        BY <2>1, <2>4, <3>3, InputsAre DEF Wiped, IInv, TypeOK
      <4>3. Settled(p, "extracted") BY <1>2, <4>2, DoneSettled DEF Stamp
      <4>4. Settled(p, "extracted")' BY <1>3, <2>1, <2>4, <3>0, <3>3, <4>3 DEF Stamp
      <4>5. stamp'[p]["patched"] > 0 /\ stamp'[p]["extracted"] < stamp'[p]["patched"]
        <5>1. stamp'[p] = Touched(StampsAfter(p, s), s)
          BY DEF FinishRecipe, IInv, TypeOK
        <5> QED BY <3>3, <5>1, TouchedIs DEF IInv, Stamp
      <4>6. Inputs(p, "patched") = {"extracted"} BY <2>1, <2>4, InputsAre
      <4>7. stamp'[p]["patched"] # 0 BY <4>5
      <4>8. Settled(p, "patched")' BY <3>0, <4>4, <4>5, <4>6, <4>7, SettledNext
      <4> QED BY <2>4, <4>1, <4>4, <4>8
    <3>4. CASE s \notin {"source", "extracted", "patched"}
      <4>1. /\ Settled(p, "extracted")' <=> Settled(p, "extracted")
            /\ Settled(p, "patched")' <=> Settled(p, "patched")
        BY <1>3, <2>1, <2>4, <3>0, <3>4 DEF Stamp
      <4>2. patches' = patches BY <1>1, <3>4 DEF EndEffect
      <4> QED BY <2>2, <2>4, <4>1, <4>2
    <3> QED BY <3>2, <3>3, <3>4
  <2> QED BY <2>3, <2>4
<1> QED BY <1>7, <1>8, <1>9 DEF ArtInv

LEMMA InitArt == ASSUME Init PROVE ArtInv
<1>1. ASSUME NEW p \in Pkg, NEW s \in Stamp PROVE ~Trusted(p, s)
  <2>1. s \in Ancestors(p, s) /\ <<p, s>> \in Target BY AncestorsAre DEF Target
  <2>2. stamp[p][s] = 0 /\ ~Seen(<<p, s>>) BY <2>1 DEF Init, Seen
  <2> QED BY <2>1, <2>2 DEF Trusted, Settled, Fresh, Done
<1>2. \A p \in Pkg : art[p]["tree"] # Torn BY DEF Init, None, Torn, Place
<1>3. \A p \in Patched : /\ p \in Pkg /\ patches[p] = "none"
                         /\ ~Settled(p, "extracted") /\ ~Settled(p, "patched")
  BY <1>1, PkgAssumption DEF Init, Trusted, Stamp
<1> QED BY <1>1, <1>2, <1>3, PkgAssumption DEF ArtInv

LEMMA NextArt ==
  ASSUME IInv, ArtInv, [Next]_vars, ~HalfCleaned'
  PROVE  ArtInv'
<1>1. CASE UNCHANGED vars
  <2>1. stamp' = stamp /\ art' = art /\ patches' = patches /\ old' = old /\ made' = made
        /\ todo' = todo
    BY <1>1 DEF vars
  <2>2. \A t : Done(t)' <=> Done(t) BY <2>1 DEF Done, Seen, Open
  <2>3. \A q \in Pkg, u \in Stamp : Trusted(q, u)' => Trusted(q, u)
    BY <2>1, <2>2, SettledNext, FreshNext DEF Trusted, Settled, Fresh, Seen
  <2> QED BY <2>1, <2>3, LookArt
<1>2. CASE Developer
  <2>1. ASSUME NEW p \in Pkg, Edit(p) PROVE ArtInv'
    <3>1. Thinned /\ \A t \in Target : ~Seen(t) BY <2>1, EditIInv, Still DEF Edit
    <3>2. \A t \in Target : ~Seen(t)' BY <2>1, <3>1 DEF Edit, Seen
    <3> QED BY <2>1, <3>1, <3>2, SameStamps, KeptArt DEF Edit
  <2>2. ASSUME NEW p \in Pkg, Dirclean(p) PROVE ArtInv'
    <3>1. Thinned /\ \A t \in Target : ~Seen(t) BY <2>2, DircleanIInv, Still DEF Dirclean
    <3>2. \A t \in Target : ~Seen(t)' BY <2>2, <3>1 DEF Dirclean, Seen
    <3> QED BY <2>2, <3>1, <3>2, SameStamps, KeptArt DEF Dirclean, disk
  <2>3. ASSUME NEW p \in Pkg, NEW kind \in {"make", "reinstall", "rebuild", "reconfigure"},
               Make(p, kind)
        PROVE  ArtInv'
    <3>1. \A t \in Target : ~Seen(t) BY <2>3, Still DEF Make
    <3>2. \A t \in Target : ~Seen(t)' BY <2>3, <3>1 DEF Make, Seen
    <3>3. stamp' = stamp /\ art' = art /\ patches' = patches BY <2>3 DEF Make, disk
    <3> QED BY <3>2, <3>3, SameStamps, KeptArt
  <2> QED BY <1>2, <2>1, <2>2, <2>3 DEF Developer
<1>3. CASE MakeStep
  <2>1. CASE Succeed
    <3>1. \A t \in Target : ~Seen(t)' BY <2>1 DEF Succeed, EndOfMake, Seen
    <3> QED BY <2>1, <3>1, SucceedIInv, KeptArt DEF Succeed
  <2>2. ASSUME NEW p \in Pkg, CleanDir(p) PROVE ArtInv' BY <2>2, CleanArt
  <2>3. ASSUME NEW p \in Pkg, PatchRejected(p) PROVE ArtInv'
    <3>1. \A t \in Target : ~Seen(t)' BY <2>3 DEF PatchRejected, EndOfMake, Seen
    <3> QED BY <2>3, <3>1, PatchRejectedIInv, KeptArt DEF PatchRejected
  <2>4. ASSUME NEW p \in Pkg, EnterInstall(p) PROVE ArtInv'
    <3>1. stamp' = stamp /\ art' = art /\ patches' = patches /\ old' = old /\ made' = made
      BY <2>4 DEF EnterInstall, disk
    <3>2. \A t \in Target : (Seen(t)' <=> Seen(t)) /\ (Done(t)' <=> Done(t))
      BY <2>4, InstallIInv
    <3>3. \A q \in Pkg, u \in Stamp : <<q, u>> \in Target BY DEF Target
    <3>4. \A q \in Pkg, u \in Stamp : Trusted(q, u)' => Trusted(q, u)
      BY <3>1, <3>2, <3>3, SettledNext, FreshNext DEF Trusted, Settled, Fresh, Seen
    <3> QED BY <3>1, <3>4, LookArt
  <2>5. ASSUME NEW p \in Pkg, NEW s \in Stamp, RemoveStamp(p, s) PROVE ArtInv'
    BY <2>5, RemoveArt
  <2>6. ASSUME NEW p \in Pkg, NEW s \in Stamp, Enter(p, s) PROVE ArtInv'
    BY <2>6, EnterArt
  <2>7. ASSUME NEW p \in Pkg, NEW s \in Stamp, UpToDate(p, s) PROVE ArtInv'
    BY <2>7, UpToDateArt
  <2>8. ASSUME NEW p \in Pkg, NEW s \in Stamp, StartRecipe(p, s) PROVE ArtInv'
    BY <2>8, StartArt
  <2>9. ASSUME NEW p \in Pkg, NEW s \in Stamp, FinishRecipe(p, s) PROVE ArtInv'
    BY <2>9, FinishArt
  <2> QED BY <1>3, <2>1, <2>2, <2>3, <2>4, <2>5, <2>6, <2>7, <2>8, <2>9 DEF MakeStep
<1>4. CASE Fault
  <2>1. CASE Interrupt
    <3>1. \A t \in Target : ~Seen(t)' BY <2>1 DEF Interrupt, EndOfMake, Seen
    <3> QED BY <2>1, <3>1, InterruptIInv, KeptArt DEF Interrupt
  <2>2. ASSUME NEW p \in Pkg, InterruptClean(p) PROVE FALSE
    <3>1. faults' = Append(faults, "clean") /\ faults \in Seq({"stop", "clean"})
      BY <2>2 DEF InterruptClean, IInv, TypeOK
    <3>2. Len(faults) + 1 \in DOMAIN faults' /\ faults'[Len(faults) + 1] = "clean"
      BY <3>1
    <3> QED BY <3>2 DEF HalfCleaned
  <2>3. ASSUME NEW p \in Pkg, NEW s \in Stamp, RecipeFails(p, s) PROVE ArtInv'
    BY <2>3, FailsArt
  <2> QED BY <1>4, <2>1, <2>2, <2>3 DEF Fault
<1> QED BY <1>1, <1>2, <1>3, <1>4 DEF Next

\* A directory that was once half cleaned stays a fact.
LEMMA HalfCleanedStays ==
  ASSUME TypeOK, [Next]_vars, HalfCleaned
  PROVE  HalfCleaned'
<1>1. faults' = faults \/ \E f \in {"stop", "clean"} : faults' = Append(faults, f)
  BY DEF Next, vars, Developer, MakeStep, Fault, Edit, Make, Dirclean, Succeed, CleanDir,
         PatchRejected, EnterInstall, RemoveStamp, Enter, UpToDate, StartRecipe, FinishRecipe,
         Interrupt, InterruptClean, RecipeFails, disk
<1>2. PICK i \in DOMAIN faults : faults[i] = "clean" BY DEF HalfCleaned
<1>3. faults \in Seq({"stop", "clean"}) BY DEF TypeOK
<1>4. i \in DOMAIN faults' /\ faults'[i] = "clean" BY <1>1, <1>2, <1>3
<1> QED BY <1>4 DEF HalfCleaned

LEMMA ArtInvariant == Spec => [](IInv /\ (~HalfCleaned => ArtInv))
<1>1. Init => IInv /\ (~HalfCleaned => ArtInv) BY InitIInv, InitArt
<1>2. IInv /\ (~HalfCleaned => ArtInv) /\ [Next]_vars => (IInv /\ (~HalfCleaned => ArtInv))'
  BY NextIInv, NextArt, HalfCleanedStays DEF IInv
<1> QED BY <1>1, <1>2, PTL DEF Spec

\* A step that the next make takes for done is done, and what it made is whole,
\* whichever recipes failed or were interrupted; and the stamp of the patches
\* is there when the tree has all of them (rebuilding-packages.txt:113-114,
\* pkg-generic.mk:102-220).
THEOREM StampsTellTheTruth == Spec => []StampsAgreeWithTrees
<1>1. ASSUME IInv, ~HalfCleaned => ArtInv PROVE StampsAgreeWithTrees
  <2> SUFFICES ASSUME ~HalfCleaned, NEW p \in Pkg
               PROVE  /\ \A s \in Stamp \ {"source", "patched"} :
                           Settled(p, s) => Whole(art[p][PlaceOf(s)])
                      /\ p \in Patched => (Settled(p, "patched") <=> patches[p] = "all")
    BY DEF StampsAgreeWithTrees
  <2>1. ArtInv BY <1>1
  <2> QED BY <2>1 DEF ArtInv, Trusted, Good
<1>2. IInv /\ (~HalfCleaned => ArtInv) => StampsAgreeWithTrees BY <1>1
<1> QED BY <1>2, ArtInvariant, PTL

\* From its configuration on a package is worked on only while what its
\* dependencies install is whole, and a make that ends well has installed
\* everywhere what it has built (pkg-generic.mk:554-601).
THEOREM OnlyWholeIsUsed == Spec => []UsesOnlyWhole
<1>1. ASSUME IInv, ArtInv, NEW p \in Pkg, NEW s \in InstallSet(p), Done(<<p, s>>)
      PROVE  Whole(art[p][s]) /\ art[p][s] = art[p]["objects"]
  <2>1. s \in {"staging", "target", "images", "host"} /\ s \in Stamp
    BY InstallSetIs, InstallNeeds
  <2>2. Good(p, s) BY <1>1, <2>1 DEF ArtInv, Trusted
  <2> QED BY <2>1, <2>2, PlacesAre DEF Good
<1>2. ASSUME IInv, ArtInv, NEW p \in Pkg,
             \A u \in Target : Needs(<<p, "configured">>, u) => Done(u),
             NEW i \in DOMAIN Deps[p]
      PROVE  \A j \in DOMAIN InstallStamps(Deps[p][i]) :
               Whole(art[Deps[p][i]][InstallStamps(Deps[p][i])[j]])
  <2> SUFFICES ASSUME NEW j \in DOMAIN InstallStamps(Deps[p][i])
               PROVE  Whole(art[Deps[p][i]][InstallStamps(Deps[p][i])[j]])
    OBVIOUS
  <2>1. Deps[p][i] \in Pkg BY DepsType
  <2>2. InstallStamps(Deps[p][i])[j] \in InstallSet(Deps[p][i]) BY InstallNeeds
  <2>3. Done(<<Deps[p][i], InstallStamps(Deps[p][i])[j]>>) BY <1>2, <2>2, DepsDone
  <2> QED BY <1>1, <1>2, <2>1, <2>2, <2>3
<1>3. ASSUME IInv, ArtInv, running # Nobody,
             running[2] \notin {"source", "extracted", "patched", "rsynced"},
             NEW i \in DOMAIN Deps[running[1]]
      PROVE  \A j \in DOMAIN InstallStamps(Deps[running[1]][i]) :
               Whole(art[Deps[running[1]][i]][InstallStamps(Deps[running[1]][i])[j]])
  <2>1. PICK p \in Pkg, s \in Stamp : running = <<p, s>>
    BY <1>3 DEF IInv, TypeOK, Target
  <2>2. s \in {"configured", "built", "staging", "target", "images", "host"}
    BY <1>3, <2>1 DEF Stamp
  <2>3. \A u \in Target : Needs(<<p, "configured">>, u) => Done(u)
    <3>1. CASE s = "configured" BY <1>3, <2>1, <3>1, LeaveIs
    <3>2. CASE s # "configured"
      <4>1. PICK d \in Inputs(p, s) : d \in {"configured", "built"}
        BY <2>2, <3>2, InputsAre
      <4>2. Done(<<p, d>>) BY <1>3, <2>1, LeaveIs
      <4>3. "configured" \in Ancestors(p, d) /\ d \in Stamp
        BY <4>1 DEF Ancestors, Chain, Level, Stamp
      <4> QED BY <1>3, <4>2, <4>3, ConfiguredDeps
    <3> QED BY <3>1, <3>2
  <2> QED BY <1>2, <1>3, <2>1, <2>3
<1>4. ASSUME IInv, ArtInv, Success, NEW i \in DOMAIN InstallStamps(cmd.pkg)
      PROVE  LET out == art[cmd.pkg][InstallStamps(cmd.pkg)[i]]
             IN  Whole(out) /\ out = art[cmd.pkg].objects
  <2>1. InstallStamps(cmd.pkg)[i] \in InstallSet(cmd.pkg) BY InstallNeeds
  <2>2. cmd.pkg \in Pkg /\ Done(<<cmd.pkg, InstallStamps(cmd.pkg)[i]>>)
    BY <1>4, <2>1, SuccessDone
  <2> QED BY <1>1, <1>4, <2>1, <2>2
<1>5. IInv /\ (~HalfCleaned => ArtInv) => UsesOnlyWhole
  <2> SUFFICES ASSUME IInv, ~HalfCleaned => ArtInv, ~HalfCleaned
               PROVE  UsesOnlyWhole
    BY DEF UsesOnlyWhole
  <2>1. ArtInv OBVIOUS
  <2> QED BY <1>3, <1>4, <2>1 DEF UsesOnlyWhole
<1> QED BY <1>5, ArtInvariant, PTL

-----------------------------------------------------------------------------
\* A rebuild, when the developer only saves files newer than before.

LEMMA ForcedIs ==
  ASSUME NEW p
  PROVE  /\ Forced(p) \subseteq {"rsynced", "built", "staging", "target", "images", "host"}
         /\ Forced(p) \subseteq Stamp /\ "rsynced" \in Forced(p) /\ "built" \in Forced(p)
         /\ InstallSet(p) \subseteq Forced(p)
         /\ InstallSet(p) \subseteq {"staging", "target", "images", "host"}
BY InstallSetIs DEF Forced, Stamp

\* Once make considers targets no stamp is left to remove.
LEMMA NoRemoval ==
  ASSUME IInv, NEW op \in {"enter", "leave"}, NEW t, todo # << >>, Head(todo) = Item(op, t)
  PROVE  \A i \in DOMAIN todo : \A u : todo[i] # Item("rm", u)
<1> SUFFICES ASSUME NEW i \in DOMAIN todo, NEW u, todo[i] = Item("rm", u) PROVE FALSE
  OBVIOUS
<1>1. todo \in Seq(Work) /\ 1 \in DOMAIN todo /\ todo[1] = Item(op, t)
  BY DEF IInv, TypeOK
<1>2. todo[i].op = "rm" /\ todo[1].op # "rm" BY <1>1 DEF Item
<1>3. 1 < i BY <1>1, <1>2
<1>4. \A j \in DOMAIN todo : j < i => todo[j].op = "rm" BY <1>2 DEF IInv, TodoInv
<1> QED BY <1>1, <1>2, <1>3, <1>4

LEMMA ForcedMade ==
  ASSUME IInv, NEW p \in Pkg, Rebuilding(p), NEW s \in Forced(p), Done(<<p, s>>)
  PROVE  <<p, s>> \in made
<1>1. s \in Stamp BY ForcedIs
<1>2. old[<<p, s>>] = 0 BY DEF Rebuilding, Done
<1> QED BY <1>1, <1>2 DEF IInv, MakeInv, MustRemake

\* While make considers targets, a rebuild goes on.
LEMMA RebuildingLooks ==
  ASSUME IInv, NEW op \in {"enter", "leave"}, NEW t, Doing(op, t),
         NEW p \in Pkg, Rebuilding(p),
         stamp' = stamp, made' = made, src' = src,
         \A s \in Forced(p) : old'[<<p, s>>] \in {old[<<p, s>>], stamp[p][s]},
         \A s \in Forced(p) : old'[<<p, s>>] # old[<<p, s>>] => <<p, s>> \notin made,
         \A s \in Stamp : <<p, s>> \in made =>
           s \in {"source", "patched"} \/ art'[p][PlaceOf(s)] = art[p][PlaceOf(s)]
  PROVE  Rebuilding(p)'
<1>1. \A i \in DOMAIN todo : \A u : todo[i] # Item("rm", u) BY NoRemoval DEF Doing
<1>2. \A s \in Forced(p) : stamp[p][s] = 0 \/ <<p, s>> \in made BY <1>1 DEF Rebuilding
<1>3. ASSUME NEW s \in Forced(p), old'[<<p, s>>] # Unseen PROVE old'[<<p, s>>] = 0
  BY <1>2, <1>3 DEF Rebuilding, Seen
<1>4. \A s \in Forced(p) : s \in Stamp /\ s \notin {"source", "patched"} BY ForcedIs
<1>5. /\ <<p, "rsynced">> \in made => art'[p]["tree"] = src[p]
      /\ <<p, "built">> \in made => art'[p]["objects"] = src[p]
      /\ \A s \in InstallSet(p) : <<p, s>> \in made => art'[p][s] = src[p]
  BY <1>4, ForcedIs, PlacesAre DEF Rebuilding
<1>6. InstallSet(p)' = InstallSet(p) /\ Forced(p)' = Forced(p)
  BY DEF InstallSet, Forced
<1> QED BY <1>2, <1>3, <1>5, <1>6 DEF Rebuilding, Seen

LEMMA FinishRebuild ==
  ASSUME IInv, SourceInv, NEW p \in Override, Rebuilding(p),
         NEW q \in Pkg, NEW s \in Stamp, FinishRecipe(q, s)
  PROVE  Rebuilding(p)'
<1> USE DEF FinishRecipe
<1>1. p \in Pkg BY PkgAssumption
<1>2. /\ <<q, s>> \in Target /\ Valid(<<q, s>>) /\ todo # << >> /\ <<q, s>> \notin made
      /\ Head(todo) = Item("leave", <<q, s>>)
      /\ \A d \in Inputs(q, s) : Done(<<q, d>>)
  BY LeaveIs
<1>3. \A i \in DOMAIN todo : \A u : todo[i] # Item("rm", u) BY <1>2, NoRemoval
<1>4. \A u \in Forced(p) : stamp[p][u] = 0 \/ <<p, u>> \in made BY <1>3 DEF Rebuilding
<1>5. \A u \in Forced(p) : u \in Stamp /\ u \notin {"source", "patched", "extracted", "configured"}
  BY ForcedIs
<1>6. \A u \in Forced(p) : stamp'[p][u] = 0 \/ <<p, u>> \in made'
  <2>1. \A u \in Stamp : stamp'[p][u] \in {0, stamp[p][u]} \/ <<p, u>> = <<q, s>>
    <3>1. CASE q # p BY <1>1, <3>1 DEF IInv, TypeOK
    <3>2. CASE q = p
      <4>1. stamp'[p] = Touched(StampsAfter(p, s), s) BY <1>1, <3>2 DEF IInv, TypeOK
      <4>2. \A u \in Stamp \ {s} : stamp'[p][u] \in {0, stamp[p][u]}
        BY <1>1, <4>1, TouchedIs DEF IInv
      <4> QED BY <3>2, <4>2
    <3> QED BY <3>1, <3>2
  <2> QED BY <1>4, <1>5, <2>1
<1>7. \A u \in Forced(p) : Seen(<<p, u>>)' => old'[<<p, u>>] = 0 BY DEF Rebuilding, Seen
<1>8. /\ s \notin {"source", "patched"} => art' = [art EXCEPT ![q][PlaceOf(s)] = Result(q, s)]
      /\ s \in {"source", "patched"} => art' = art
  BY DEF EndEffect
<1>9. art \in [Pkg -> [Place -> Value]] BY DEF IInv, TypeOK
<1>10. /\ <<p, "rsynced">> \in made' => art'[p]["tree"] = src[p]
       /\ <<p, "built">> \in made' => art'[p]["objects"] = src[p]
       /\ \A u \in InstallSet(p) : <<p, u>> \in made' => art'[p][u] = src[p]
  <2>1. /\ <<p, "rsynced">> \in made => art[p]["tree"] = src[p]
        /\ <<p, "built">> \in made => art[p]["objects"] = src[p]
        /\ \A u \in InstallSet(p) : <<p, u>> \in made => art[p][u] = src[p]
    BY DEF Rebuilding
  <2>2. \A u \in InstallSet(p) : u \in Place /\ u \notin {"tree", "objects", "config"} /\ PlaceOf(u) = u
    BY ForcedIs, PlacesAre DEF Place
  <2>3. "tree" \in Place /\ "objects" \in Place BY DEF Place
  <2>4. CASE q # p \/ s \in {"source", "patched"}
    <3>1. art'[p] = art[p] BY <1>1, <1>8, <1>9, <2>4
    <3>2. \A u \in Forced(p) : <<p, u>> \in made' => <<p, u>> \in made BY <1>5, <2>4
    <3> QED BY <2>1, <3>1, <3>2, ForcedIs
  <2>5. CASE q = p /\ s \notin {"source", "patched"}
    <3>1. s # "extracted" BY <1>2, <2>5 DEF Valid
    <3>2. /\ PlaceOf(s) \in Place => art'[p][PlaceOf(s)] = Result(p, s)
          /\ \A x \in Place : x # PlaceOf(s) => art'[p][x] = art[p][x]
      BY <1>1, <1>8, <1>9, <2>5
    <3>3. \A u \in Forced(p) : <<p, u>> \in made' => <<p, u>> \in made \/ u = s BY <2>5
    <3>4. CASE s = "rsynced"
      <4>1. art'[p]["tree"] = Synced(p)
        BY <2>3, <3>2, <3>4, PlacesAre, ResultIs
      <4>2. Synced(p) = src[p]
        <5>1. src[p] \in Int /\ art[p]["tree"] \in Int /\ src[p] # Gone
          BY <1>1, <2>3, PkgAssumption DEF IInv, TypeOK, Gone, Value, None, SourceInv
        <5>2. art[p]["tree"] <= src[p] BY DEF SourceInv
        <5> QED BY <5>1, <5>2 DEF Synced
      <4> QED BY <2>1, <2>2, <2>3, <3>2, <3>3, <3>4, <4>1, <4>2, PlacesAre, ForcedIs
    <3>5. CASE s = "built"
      <4>1. Done(<<p, "configured">>) BY <1>2, <2>5, <3>5, InputsAre
      <4>2. Done(<<p, "rsynced">>) BY <4>1, RsyncFirst DEF Stamp
      <4>3. <<p, "rsynced">> \in made BY <1>1, <4>2, ForcedMade, ForcedIs
      <4>4. art'[p]["objects"] = art[p]["tree"]
        BY <2>3, <3>2, <3>5, PlacesAre, ResultIs
      <4> QED BY <2>1, <2>2, <2>3, <3>2, <3>3, <3>5, <4>3, <4>4, PlacesAre, ForcedIs
    <3>6. CASE s = "configured"
      <4>1. \A u \in Forced(p) : <<p, u>> \in made' => <<p, u>> \in made BY <1>5, <3>3, <3>6
      <4> QED BY <2>1, <2>2, <2>3, <3>2, <3>6, <4>1, PlacesAre, ForcedIs
    <3>7. CASE s \in {"staging", "target", "images", "host"}
      <4>1. Done(<<p, "built">>) BY <1>2, <2>5, <3>7, InputsAre
      <4>2. <<p, "built">> \in made BY <1>1, <4>1, ForcedMade, ForcedIs
      <4>3. PlaceOf(s) = s /\ s \in Place /\ Result(p, s) = art[p]["objects"]
        BY <3>7, PlacesAre, ResultIs DEF Place
      <4>4. art'[p][s] = src[p] BY <2>1, <3>2, <4>2, <4>3
      <4> QED BY <2>1, <2>2, <2>3, <3>2, <3>3, <3>7, <4>3, <4>4, ForcedIs
    <3> QED BY <2>5, <3>1, <3>4, <3>5, <3>6, <3>7 DEF Stamp
  <2> QED BY <2>4, <2>5
<1>11. InstallSet(p)' = InstallSet(p) /\ Forced(p)' = Forced(p)
  BY DEF InstallSet, Forced
<1> QED BY <1>6, <1>7, <1>10, <1>11 DEF Rebuilding

\* The copy of a source is never newer than the source.
LEMMA SourcesKept ==
  ASSUME IInv, SourceInv,
         \A p \in Override : src'[p] \in Int /\ src'[p] >= src[p],
         \A p \in Override : art'[p]["tree"] \in {art[p]["tree"], Torn, None, src[p]}
  PROVE  \A p \in Override : src'[p] > Gone /\ art'[p]["tree"] <= src'[p]
<1> SUFFICES ASSUME NEW p \in Override
             PROVE  src'[p] > Gone /\ art'[p]["tree"] <= src'[p]
  OBVIOUS
<1>1. p \in Pkg /\ "tree" \in Place BY PkgAssumption DEF Place
<1>2. src[p] \in Int /\ art[p]["tree"] \in Int
  BY <1>1, PkgAssumption DEF IInv, TypeOK, Value, Gone, None
<1>3. src[p] > Gone /\ art[p]["tree"] <= src[p] BY DEF SourceInv
<1> QED BY <1>2, <1>3 DEF Gone, Torn, None

LEMMA SyncedIs ==
  ASSUME IInv, SourceInv, NEW p \in Override
  PROVE  Synced(p) = src[p]
<1>1. p \in Pkg /\ "tree" \in Place BY PkgAssumption DEF Place
<1>2. src[p] \in Int /\ art[p]["tree"] \in Int /\ src[p] # Gone
  BY <1>1, PkgAssumption DEF IInv, TypeOK, Gone, Value, None, SourceInv
<1>3. art[p]["tree"] <= src[p] BY DEF SourceInv
<1> QED BY <1>2, <1>3 DEF Synced

\* No command is given for another package while make runs, and when it ends
\* none is left.
LEMMA OtherSource ==
  ASSUME IInv, SourceInv, src' = src,
         \A p \in Override : art'[p]["tree"] \in {art[p]["tree"], Torn, None, src[p]},
         cmd' = Idle \/ (cmd' = cmd /\ \A p \in Override : Rebuilds(p) => Rebuilding(p)')
  PROVE  SourceInv'
<1>1. \A p \in Override : p \in Pkg /\ src[p] \in Int
  BY PkgAssumption DEF IInv, TypeOK, Gone
<1>2. \A p \in Override : src'[p] > Gone /\ art'[p]["tree"] <= src'[p]
  BY <1>1, SourcesKept
<1>3. CASE cmd' = Idle BY <1>2, <1>3 DEF SourceInv, Rebuilds
<1>4. CASE cmd' = cmd /\ \A p \in Override : Rebuilds(p) => Rebuilding(p)'
  <2>1. \A p \in Override : Rebuilds(p)' <=> Rebuilds(p) BY <1>4 DEF Rebuilds
  <2> QED BY <1>2, <1>4, <2>1 DEF SourceInv
<1> QED BY <1>3, <1>4

LEMMA MakeSource ==
  ASSUME IInv, SourceInv, NEW p \in Pkg, NEW kind \in Kind \ {"dirclean"}, Make(p, kind)
  PROVE  SourceInv'
<1>1. /\ cmd' = [kind |-> kind, pkg |-> p] /\ src' = src /\ art' = art /\ made' = made
      /\ old' = old /\ cmd = Idle
  BY DEF Make, disk
<1>2. made = {} /\ \A t \in Target : ~Seen(t) BY <1>1, Still
<1>3. \A q \in Override : q \in Pkg /\ src[q] \in Int
  BY PkgAssumption DEF IInv, TypeOK, Gone
<1>4. \A q \in Override : src'[q] > Gone /\ art'[q]["tree"] <= src'[q]
  BY <1>1, <1>3, SourcesKept
<1>5. ASSUME NEW q \in Override, Rebuilds(q)' PROVE Rebuilding(q)'
  <2>1. kind \in {"rebuild", "reconfigure"} /\ q = p BY <1>1, <1>5 DEF Rebuilds
  <2>2. ASSUME NEW s \in Forced(q)
        PROVE  ~Seen(<<q, s>>)' /\ \E i \in DOMAIN todo' : todo'[i] = Item("rm", <<q, s>>)
    <3>1. s \in Stamp /\ s \in {"rsynced", "built", "staging", "target", "images", "host"}
      BY ForcedIs
    <3>2. s \in Elems(Cleaned(q, kind)) BY <2>1, <3>1, CleanedIs
    <3>3. \E i \in DOMAIN todo' : todo'[i] = Item("rm", <<q, s>>)
      BY <2>1, <3>2, MakeWork DEF IInv
    <3>4. ~Seen(<<q, s>>)' BY <1>1, <1>2, <1>3, <3>1 DEF Seen, Target
    <3> QED BY <3>3, <3>4
  <2>3. made' = {} BY <1>1, <1>2
  <2>4. InstallSet(q)' = InstallSet(q) /\ Forced(q)' = Forced(q)
    BY DEF InstallSet, Forced
  <2> QED BY <2>2, <2>3, <2>4, ForcedIs DEF Rebuilding, Seen
<1> QED BY <1>4, <1>5 DEF SourceInv

\* What rm has still to remove stays in the list until it is removed.
LEMMA RemovingRebuild ==
  ASSUME IInv, NEW p \in Pkg, Rebuilding(p), todo # << >>, todo' = Tail(todo),
         old' = old, made' = made, made = {},
         \A s \in Stamp : stamp'[p][s] \in {0, stamp[p][s]},
         \A s \in Stamp : Head(todo) = Item("rm", <<p, s>>) => stamp'[p][s] = 0
  PROVE  Rebuilding(p)'
<1>1. todo \in Seq(Work) BY DEF IInv, TypeOK
<1>2. ASSUME NEW s \in Forced(p)
      PROVE  stamp'[p][s] = 0 \/ \E i \in DOMAIN todo' : todo'[i] = Item("rm", <<p, s>>)
  <2>1. s \in Stamp BY ForcedIs
  <2>2. CASE stamp[p][s] = 0 BY <2>1, <2>2
  <2>3. CASE \E i \in DOMAIN todo : todo[i] = Item("rm", <<p, s>>)
    <3>1. PICK i \in DOMAIN todo : todo[i] = Item("rm", <<p, s>>) BY <2>3
    <3>2. CASE i = 1 BY <1>1, <2>1, <3>1, <3>2
    <3>3. CASE i # 1
      <4>1. i - 1 \in DOMAIN todo' /\ todo'[i - 1] = todo[i] BY <1>1, <3>1, <3>3
      <4> QED BY <3>1, <4>1
    <3> QED BY <3>2, <3>3
  <2> QED BY <2>2, <2>3 DEF Rebuilding
<1>3. \A s \in Forced(p) : Seen(<<p, s>>)' => old'[<<p, s>>] = 0 BY DEF Rebuilding, Seen
<1>4. InstallSet(p)' = InstallSet(p) /\ Forced(p)' = Forced(p)
  BY DEF InstallSet, Forced
<1> QED BY <1>2, <1>3, <1>4 DEF Rebuilding

LEMMA StartRebuild ==
  ASSUME IInv, NEW p \in Override, Rebuilding(p), NEW q \in Pkg, NEW s \in Stamp,
         StartRecipe(q, s)
  PROVE  Rebuilding(p)'
<1>1. Doing("leave", <<q, s>>) /\ BeginEffect(q, s) /\ stamp' = stamp /\ made' = made
      /\ src' = src /\ old' = old
  BY DEF StartRecipe
<1>2. p \in Pkg /\ Valid(<<q, s>>) /\ <<q, s>> \notin made
  BY <1>1, LeaveIs, PkgAssumption
<1>3. ASSUME NEW u \in Stamp, <<p, u>> \in made
      PROVE  u \in {"source", "patched"} \/ art'[p][PlaceOf(u)] = art[p][PlaceOf(u)]
  <2> SUFFICES ASSUME u \notin {"source", "patched"}, art' # art
               PROVE  art'[p][PlaceOf(u)] = art[p][PlaceOf(u)]
    OBVIOUS
  <2>1. /\ s \notin {"source", "rsynced", "patched"}
        /\ art' = [art EXCEPT ![q][PlaceOf(s)] = Torn]
    BY <1>1 DEF BeginEffect
  <2>2. CASE q # p BY <1>2, <2>1, <2>2 DEF IInv, TypeOK
  <2>3. CASE q = p
    <3>1. Valid(<<p, u>>)
      <4>1. <<p, u>> \in Target /\ Seen(<<p, u>>) BY <1>2, <1>3 DEF Target, IInv, MakeInv, Done
      <4> QED BY <4>1 DEF IInv, MakeInv
    <3>2. u # s BY <1>2, <1>3, <2>3
    <3>3. PlaceOf(u) # PlaceOf(s)
      BY <1>2, <2>1, <2>3, <3>1, <3>2, PlacesAre DEF Valid, Stamp
    <3> QED BY <1>2, <2>1, <2>3, <3>3 DEF IInv, TypeOK
  <2> QED BY <2>2, <2>3
<1> QED BY <1>1, <1>2, <1>3, RebuildingLooks

LEMMA NextSource ==
  ASSUME NewerOnly, IInv, SourceInv, [Next]_vars
  PROVE  SourceInv'
<1>0. \A p \in Override : p \in Pkg /\ src[p] \in Int /\ "tree" \in Place
  BY PkgAssumption DEF IInv, TypeOK, Gone, Place
<1>1. CASE UNCHANGED vars
  BY <1>1 DEF vars, SourceInv, Rebuilds, Rebuilding, Seen, Forced, InstallSet
<1>2. CASE Developer
  <2>1. ASSUME NEW p \in Pkg, Edit(p) PROVE SourceInv'
    <3>1. PICK v \in src[p] + 1 .. MaxVer : src' = [src EXCEPT ![p] = v]
      BY <2>1 DEF Edit
    <3>2. MaxVer \in Int /\ src[p] \in Int /\ src \in [Pkg -> Gone .. MaxVer]
      BY PkgAssumption DEF IInv, TypeOK, Gone
    <3>3. \A q \in Override : src'[q] \in Int /\ src'[q] >= src[q]
      BY <1>0, <3>1, <3>2
    <3>4. \A q \in Override : src'[q] > Gone /\ art'[q]["tree"] <= src'[q]
      BY <2>1, <3>3, SourcesKept DEF Edit
    <3>5. \A q \in Override : ~Rebuilds(q)' BY <2>1 DEF Edit, Rebuilds
    <3> QED BY <3>4, <3>5 DEF SourceInv
  <2>2. ASSUME NEW p \in Pkg, Dirclean(p) PROVE SourceInv'
    <3>1. \A q \in Override : src'[q] > Gone /\ art'[q]["tree"] <= src'[q]
      BY <1>0, <2>2, SourcesKept DEF Dirclean, disk
    <3>2. \A q \in Override : ~Rebuilds(q)' BY <2>2 DEF Dirclean, Rebuilds
    <3> QED BY <3>1, <3>2 DEF SourceInv
  <2>3. ASSUME NEW p \in Pkg, NEW kind \in {"make", "reinstall", "rebuild", "reconfigure"},
               Make(p, kind)
        PROVE  SourceInv'
    <3>1. kind \in Kind \ {"dirclean"} BY DEF Kind
    <3> QED BY <2>3, <3>1, MakeSource
  <2> QED BY <1>2, <2>1, <2>2, <2>3 DEF Developer
<1>3. CASE MakeStep
  <2>1. CASE Succeed BY <2>1, OtherSource DEF Succeed, EndOfMake
  <2>2. ASSUME NEW p \in Pkg, CleanDir(p) PROVE SourceInv'
    <3>1. made = {} BY <2>2, CleanIInv
    <3>2. ASSUME NEW r \in Override, Rebuilds(r) PROVE Rebuilding(r)'
      <4>1. r \in Pkg /\ Rebuilding(r) BY <1>0, <3>2 DEF Rebuilds, SourceInv
      <4>2. \A s \in Stamp : stamp'[r][s] \in {0, stamp[r][s]}
        BY <2>2, <4>1 DEF CleanDir, IInv, TypeOK
      <4>3. \A s : Head(todo) # Item("rm", <<r, s>>) BY <2>2 DEF CleanDir, Doing, Item
      <4> QED BY <2>2, <3>1, <4>1, <4>2, <4>3, RemovingRebuild DEF CleanDir, Doing
    <3>3. \A q \in Override : art'[q]["tree"] \in {art[q]["tree"], Torn, None, src[q]}
      BY <1>0, <2>2 DEF CleanDir, IInv, TypeOK
    <3> QED BY <2>2, <3>2, <3>3, OtherSource DEF CleanDir
  <2>3. ASSUME NEW p \in Pkg, PatchRejected(p) PROVE SourceInv'
    BY <2>3, OtherSource DEF PatchRejected, EndOfMake
  <2>4. ASSUME NEW p \in Pkg, EnterInstall(p) PROVE SourceInv'
    <3>1. ASSUME NEW r \in Override, Rebuilds(r) PROVE Rebuilding(r)'
      BY <1>0, <2>4, <3>1, RebuildingLooks DEF Rebuilds, SourceInv, EnterInstall, disk
    <3> QED BY <2>4, <3>1, OtherSource DEF EnterInstall, disk
  <2>5. ASSUME NEW p \in Pkg, NEW s \in Stamp, RemoveStamp(p, s) PROVE SourceInv'
    <3>1. made = {} BY <2>5, RemoveIInv
    <3>2. ASSUME NEW r \in Override, Rebuilds(r) PROVE Rebuilding(r)'
      <4>1. r \in Pkg /\ Rebuilding(r) BY <1>0, <3>2 DEF Rebuilds, SourceInv
      <4>2. \A u \in Stamp : stamp'[r][u] \in {0, stamp[r][u]}
        BY <2>5, <4>1 DEF RemoveStamp, IInv, TypeOK
      <4>3. \A u \in Stamp : Head(todo) = Item("rm", <<r, u>>) => stamp'[r][u] = 0
        BY <2>5, <4>1 DEF RemoveStamp, Doing, Item, IInv, TypeOK
      <4> QED BY <2>5, <3>1, <4>1, <4>2, <4>3, RemovingRebuild DEF RemoveStamp, Doing
    <3> QED BY <2>5, <3>2, OtherSource DEF RemoveStamp
  <2>6. ASSUME NEW p \in Pkg, NEW s \in Stamp, Enter(p, s) PROVE SourceInv'
    <3>1. ASSUME NEW r \in Override, Rebuilds(r) PROVE Rebuilding(r)'
      <4>1. r \in Pkg /\ Rebuilding(r) BY <1>0, <3>1 DEF Rebuilds, SourceInv
      <4>2. old' = old \/ (old' = [old EXCEPT ![<<p, s>>] = stamp[p][s]] /\ <<p, s>> \notin made)
        BY <2>6, EnterNewIInv DEF Enter, Seen
      <4>3. \A u \in Forced(r) : <<r, u>> \in Target
        BY <4>1, ForcedIs DEF Target
      <4>4. /\ \A u \in Forced(r) :
                 old'[<<r, u>>] \in {old[<<r, u>>], stamp[r][u]}
            /\ \A u \in Forced(r) :
                 old'[<<r, u>>] # old[<<r, u>>] => <<r, u>> \notin made
        BY <4>2, <4>3 DEF IInv, TypeOK
      <4> QED BY <2>6, <4>1, <4>4, RebuildingLooks DEF Enter, disk
    <3> QED BY <2>6, <3>1, OtherSource DEF Enter, disk
  <2>7. ASSUME NEW p \in Pkg, NEW s \in Stamp, UpToDate(p, s) PROVE SourceInv'
    <3>1. ASSUME NEW r \in Override, Rebuilds(r) PROVE Rebuilding(r)'
      BY <1>0, <2>7, <3>1, RebuildingLooks DEF Rebuilds, SourceInv, UpToDate, disk
    <3> QED BY <2>7, <3>1, OtherSource DEF UpToDate, disk
  <2>8. ASSUME NEW p \in Pkg, NEW s \in Stamp, StartRecipe(p, s) PROVE SourceInv'
    <3>1. ASSUME NEW r \in Override, Rebuilds(r) PROVE Rebuilding(r)'
      BY <2>8, <3>1, StartRebuild DEF Rebuilds, SourceInv
    <3>2. \A q \in Override : art'[q]["tree"] \in {art[q]["tree"], Torn, None, src[q]}
      BY <1>0, <2>8 DEF StartRecipe, BeginEffect, IInv, TypeOK
    <3> QED BY <2>8, <3>1, <3>2, OtherSource DEF StartRecipe
  <2>9. ASSUME NEW p \in Pkg, NEW s \in Stamp, FinishRecipe(p, s) PROVE SourceInv'
    <3>1. ASSUME NEW r \in Override, Rebuilds(r) PROVE Rebuilding(r)'
      BY <2>9, <3>1, FinishRebuild DEF Rebuilds, SourceInv
    <3>2. Valid(<<p, s>>) BY <2>9, LeaveIs DEF FinishRecipe
    <3>3. ASSUME NEW q \in Override PROVE art'[q]["tree"] \in {art[q]["tree"], src[q]}
      <4>1. CASE q # p \/ s \in {"source", "patched"} \/ PlaceOf(s) # "tree"
        BY <1>0, <2>9, <4>1 DEF FinishRecipe, EndEffect, IInv, TypeOK
      <4>2. CASE q = p /\ s = "rsynced"
        <5>1. art' = [art EXCEPT ![p]["tree"] = Synced(p)]
          BY <2>9, <4>2, PlacesAre, ResultIs DEF FinishRecipe, EndEffect
        <5> QED BY <1>0, <4>2, <5>1, SyncedIs DEF IInv, TypeOK
      <4>3. q = p => s # "extracted" BY <3>2 DEF Valid
      <4> QED BY <4>1, <4>2, <4>3, PlacesAre DEF Stamp
    <3> QED BY <2>9, <3>1, <3>3, OtherSource DEF FinishRecipe
  <2> QED BY <1>3, <2>1, <2>2, <2>3, <2>4, <2>5, <2>6, <2>7, <2>8, <2>9 DEF MakeStep
<1>4. CASE Fault
  <2>1. CASE Interrupt BY <2>1, OtherSource DEF Interrupt, EndOfMake
  <2>2. ASSUME NEW p \in Pkg, InterruptClean(p) PROVE SourceInv'
    <3>1. \A q \in Override : art'[q]["tree"] \in {art[q]["tree"], Torn, None, src[q]}
      <4>1. PICK x \in Place :
              art' = [art EXCEPT ![p][x] = IF @ = None THEN None ELSE Torn]
        BY <2>2 DEF InterruptClean, Place
      <4> QED BY <1>0, <4>1 DEF IInv, TypeOK
    <3> QED BY <2>2, <3>1, OtherSource DEF InterruptClean, EndOfMake
  <2>3. ASSUME NEW p \in Pkg, NEW s \in Stamp, RecipeFails(p, s) PROVE SourceInv'
    <3>1. \A q \in Override : art'[q]["tree"] \in {art[q]["tree"], src[q]}
      <4>1. CASE art' = art BY <4>1
      <4>2. CASE s = "rsynced" /\ EndEffect(p, s)
        <5>1. art' = [art EXCEPT ![p]["tree"] = Synced(p)]
          BY <4>2, PlacesAre, ResultIs DEF EndEffect
        <5> QED BY <1>0, <5>1, SyncedIs DEF IInv, TypeOK
      <4> QED BY <2>3, <4>1, <4>2 DEF RecipeFails
    <3> QED BY <2>3, <3>1, OtherSource DEF RecipeFails, EndOfMake
  <2> QED BY <1>4, <2>1, <2>2, <2>3 DEF Fault
<1> QED BY <1>1, <1>2, <1>3, <1>4 DEF Next

LEMMA InvBrings == ASSUME IInv, SourceInv PROVE RebuildBringsSource
<1> SUFFICES ASSUME Success, cmd.kind \in {"rebuild", "reconfigure"}, cmd.pkg \in Override,
                    NEW i \in DOMAIN InstallStamps(cmd.pkg)
             PROVE  art[cmd.pkg][InstallStamps(cmd.pkg)[i]] = src[cmd.pkg]
  BY DEF RebuildBringsSource
<1>1. Rebuilding(cmd.pkg) BY DEF SourceInv, Rebuilds, Success
<1>2. InstallStamps(cmd.pkg)[i] \in InstallSet(cmd.pkg) BY InstallNeeds
<1>3. cmd.pkg \in Pkg /\ Done(<<cmd.pkg, InstallStamps(cmd.pkg)[i]>>)
  BY <1>2, SuccessDone
<1>4. <<cmd.pkg, InstallStamps(cmd.pkg)[i]>> \in made BY <1>1, <1>2, <1>3, ForcedIs, ForcedMade
<1> QED BY <1>1, <1>2, <1>4 DEF Rebuilding

\* When the files that the developer saves are newer than those before them,
\* a rebuild or a reconfigure of an overridden package that ends well has
\* installed its source as it is, whatever failed or was interrupted before
\* (using-buildroot-development.txt:61-65, pkg-generic.mk:618-645).
THEOREM RebuildsBringSources == ASSUME NewerOnly PROVE Spec => []RebuildBringsSource
<1>1. Init => SourceInv
  <2>1. ASSUME Init PROVE SourceInv
    <3>1. \A p \in Override : p \in Pkg /\ "tree" \in Place BY PkgAssumption DEF Place
    <3>2. \A p \in Override : src[p] = 1 /\ art[p]["tree"] = None BY <2>1, <3>1 DEF Init
    <3>3. \A p \in Override : ~Rebuilds(p) BY <2>1 DEF Init, Rebuilds
    <3> QED BY <3>2, <3>3 DEF SourceInv, Gone, None
  <2> QED BY <2>1
<1>2. IInv /\ SourceInv /\ [Next]_vars => SourceInv' BY NextSource
<1>3. IInv /\ SourceInv => RebuildBringsSource BY InvBrings
<1> QED BY <1>1, <1>2, <1>3, StepInvariant, PTL DEF Spec
=============================================================================
