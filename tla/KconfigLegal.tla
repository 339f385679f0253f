---------------------------- MODULE KconfigLegal ----------------------------
(***************************************************************************)
(* What the statements of a Kconfig file ask of a configuration, read from *)
(* the statements alone: no menu tree, no rewriting of expressions and no  *)
(* calculation.  The reference for what menu.c, expr.c and symbol.c do.    *)
(***************************************************************************)
EXTENDS KconfigExpr, SequencesExt

\* A value is [val, tri]; the string of a tristate is the one of its letter.
Letter == <<"n", "m", "y">>
TextOf(values, types, s) ==
  IF types[s] \in Tristates THEN Letter[values[s].tri + 1] ELSE values[s].val

RECURSIVE Means(_, _, _)
Means(e, values, types) ==
  CASE e = None -> 2
    [] e.t = "sym" -> values[e.s].tri
    [] e.t = "not" -> NotV(Means(e.l, values, types))
    [] e.t = "and" -> AndV(Means(e.l, values, types), Means(e.r, values, types))
    [] e.t = "or" -> OrV(Means(e.l, values, types), Means(e.r, values, types))
    [] e.t \in {"eq", "ne"} ->
         IF (TextOf(values, types, e.s) = TextOf(values, types, e.c)) = (e.t = "eq") THEN 2 ELSE 0

(***************************************************************************)
(* The entries, with what encloses them: own are the conditions of the     *)
(* entry itself, around those of the menus and ifs, choice the choice it   *)
(* is a value of, uses the symbols its visibility and its defaults need.   *)
(***************************************************************************)
RECURSIVE Mentioned(_)
Mentioned(e) ==
  CASE e = None -> {}
    [] e.t = "sym" -> {e.s}
    [] e.t = "not" -> Mentioned(e.l)
    [] e.t \in {"and", "or"} -> Mentioned(e.l) \cup Mentioned(e.r)
    [] e.t \in {"eq", "ne"} -> {e.s, e.c}

Entry0(s, top) == [sym |-> s, dep |-> top.dep, choice |-> top.choice, selects |-> {},
                   ranges |-> << >>, uses |-> Mentioned(top.dep), isChoice |-> FALSE]

\* w.open: what encloses the next entry, the innermost first; w.done: the
\* entries that are complete; w.now: the current one.
Walk(w, sta) ==
  LET top == Head(w.open)
      next(s) == [w EXCEPT !.done = Append(@, w.now), !.now = Entry0(s, top)]
      And(a, b) == IF a = None THEN b ELSE IF b = None THEN a ELSE TwoE("and", a, b)
      open(dep, c) == [w EXCEPT !.open = <<[dep |-> dep, choice |-> c]>> \o @]
  IN  CASE sta.do = "config" -> next(sta.sym)
        [] sta.do = "choice" -> [next(sta.sym) EXCEPT !.now.isChoice = TRUE]
        [] sta.do \in {"menu", "comment"} -> next("")
        [] sta.do = "depends" -> [w EXCEPT !.now.dep = And(@, sta.if),
                                           !.now.uses = @ \cup Mentioned(sta.if)]
        [] sta.do = "select" -> [w EXCEPT !.now.selects = @ \cup {[sym |-> sta.sym, if |-> sta.if]}]
        [] sta.do = "range" -> [w EXCEPT !.now.ranges = Append(@, [lo |-> sta.lo, hi |-> sta.hi, if |-> sta.if])]
        [] sta.do = "prompt" -> [w EXCEPT !.now.uses = @ \cup Mentioned(sta.if)]
        [] sta.do = "default" -> [w EXCEPT !.now.uses = @ \cup Mentioned(sta.x) \cup Mentioned(sta.if)]
        [] sta.do = "if" -> open(And(top.dep, sta.if), top.choice)
        [] sta.do = "begin" -> open(w.now.dep, IF w.now.isChoice THEN w.now.sym ELSE "")
        [] sta.do = "end" -> [w EXCEPT !.open = Tail(@)]
        [] OTHER -> w

Blocks(statements) ==
  LET top == [dep |-> None, choice |-> ""]
      w == FoldLeft(Walk, [open |-> <<top>>, done |-> << >>, now |-> Entry0("", top)], statements)
  IN  SelectSeq(Append(w.done, w.now), LAMBDA e : e.sym # "")

----------------------------------------------------------------------------
\* A boolean is y where a tristate would be m.
Rounded(type, v) == IF type = "boolean" /\ v = 1 THEN 2 ELSE v

\* No boolean or tristate is more than what it depends on, or what selects it.
DependenciesHold(blocks, values, types) ==
  \A i \in DOMAIN blocks :
    LET e == blocks[i]
        selected == {AndV(values[b.sym].tri, Means(x.if, values, types)) :
                       <<b, x>> \in {<<b, x>> \in ToSet(blocks) \X UNION {b.selects : b \in ToSet(blocks)} :
                                       x \in b.selects /\ x.sym = e.sym}}
        limits == {Means(e.dep, values, types)} \cup selected
    IN  types[e.sym] \in Tristates =>
          \E v \in limits : values[e.sym].tri <= Rounded(types[e.sym], v)

\* Whatever is selected is on.
SelectsHold(blocks, values, types) ==
  \A i \in DOMAIN blocks : \A x \in blocks[i].selects :
    values[x.sym].tri >= Rounded(types[x.sym],
                                 AndV(values[blocks[i].sym].tri, Means(x.if, values, types)))

\* Of a choice that is y exactly one value is y and no other is m; without a
\* value of its own none is on.
ChoicesHold(blocks, values, types) ==
  \A i \in DOMAIN blocks : blocks[i].isChoice =>
    LET c == blocks[i].sym
        kids == {e.sym : e \in {b \in ToSet(blocks) : b.choice = c}}
    IN  \/ values[c].tri = 2 /\ Cardinality({s \in kids : values[s].tri # 0}) = 1
        \/ values[c].tri = 2 /\ \A s \in kids : values[s].tri = 0 /\ values[c].val = ""
        \/ values[c].tri # 2 /\ \A s \in kids : values[s].tri <= values[c].tri

\* A number that has a value is in the first range whose condition holds.
RangesHold(blocks, values, types, Num(_)) ==
  \A i \in DOMAIN blocks :
    LET e == blocks[i]
        on == SelectSeq(e.ranges, LAMBDA r : AndV(Means(e.dep, values, types), Means(r.if, values, types)) # 0)
    IN  on # << >> /\ values[e.sym].val # "" =>
          Num(values[e.sym].val) \in Num(values[Head(on).lo].val)..Num(values[Head(on).hi].val)

Legal(blocks, values, types, Num(_)) ==
  /\ DependenciesHold(blocks, values, types)
  /\ SelectsHold(blocks, values, types)
  /\ ChoicesHold(blocks, values, types)
  /\ RangesHold(blocks, values, types, Num)
(***************************************************************************)
(* Recursive dependencies.  A choice and its values are one node.          *)
(***************************************************************************)
Node(blocks, s) ==
  LET c == {b.choice : b \in {e \in ToSet(blocks) : e.sym = s}} \ {""}
  IN  IF c = {} THEN s ELSE CHOOSE x \in c : TRUE

\* What the node of s needs at once: what its entries use and what selects it.
Needed(blocks, s) ==
  LET group == {b \in ToSet(blocks) : Node(blocks, b.sym) = s}
      selecting == {b \in ToSet(blocks) : \E x \in b.selects : Node(blocks, x.sym) = s}
      used == UNION {b.uses : b \in group}
                \cup UNION {{b.sym} \cup b.uses \cup UNION {Mentioned(x.if) : x \in b.selects} : b \in selecting}
      inside == IF \E b \in group : b.isChoice THEN {s} ELSE {}
  IN  {Node(blocks, u) : u \in used} \ inside

RECURSIVE Reached(_, _)
Reached(blocks, S) ==
  LET T == S \cup UNION {Needed(blocks, s) : s \in S}
  IN  IF T = S THEN S ELSE Reached(blocks, T)

\* Some symbol needs itself.
Recursive(blocks) ==
  \E b \in ToSet(blocks) : LET s == Node(blocks, b.sym)
                           IN  s \in Reached(blocks, Needed(blocks, s))

=============================================================================
