---------------------------- MODULE KconfigExpr ----------------------------
(***************************************************************************)
(* support/kconfig/expr.c: the dependency expressions of Kconfig, the      *)
(* rewritings menu_finalize and the select warning apply to them, and the  *)
(* text they are printed as.                                               *)
(*                                                                         *)
(* The C functions rewrite trees in place through pointers to nodes; where *)
(* that matters (the elimination of duplicates, which walks one tree with  *)
(* two pointers) a pointer is the path from the root to the node.          *)
(***************************************************************************)
EXTENDS KconfigJoin, Sequences

----------------------------------------------------------------------------
(* Construction and values *)

AllocAnd(a, b) == IF a = None THEN b ELSE IF b = None THEN a ELSE TwoE("and", a, b)
AllocOr(a, b) == IF a = None THEN b ELSE IF b = None THEN a ELSE TwoE("or", a, b)

IsYes(e) == e \in {None, Yes}
IsNo(e) == e = No

\* Mutant: the case of an "or" falls into the one of an "and"
Unit_fallsThrough(op) == Yes

\* What an operand is replaced with when it is taken out of a chain of op.
Unit(op) == IF op = "and" THEN Yes ELSE No

RECURSIVE Value(_, _, _)
Value(e, v, ty) ==
  CASE e = None -> 2
    [] e.t \in Plain -> LitValue(e, v, ty)
    [] e.t = "not" -> NotV(Value(e.l, v, ty))
    [] e.t = "and" -> AndV(Value(e.l, v, ty), Value(e.r, v, ty))
    [] e.t = "or" -> OrV(Value(e.l, v, ty), Value(e.r, v, ty))

----------------------------------------------------------------------------
(* Constants y and n, equality *)

RECURSIVE EliminateYn(_)
EliminateYn(e) ==
  IF e.t \notin {"and", "or"} THEN e
  ELSE LET l == EliminateYn(e.l)
           r == EliminateYn(e.r)
           unit == Unit(e.t)
           zero == IF e.t = "and" THEN No ELSE Yes
       IN  IF zero \in {l, r} THEN zero
           ELSE IF l = unit THEN r ELSE IF r = unit THEN l ELSE TwoE(e.t, l, r)

RECURSIVE EqPass(_, _, _), ExprEq(_, _)

\* __expr_eliminate_eq: every operand of the chain a (of type op) against
\* every operand of the chain b; an equal pair leaves both chains.
EqPass(op, a, b) ==
  CASE a.t = op ->
         LET x == EqPass(op, a.l, b)
             y == EqPass(op, a.r, x[2])
         IN  <<TwoE(op, x[1], y[1]), y[2]>>
    [] a.t # op /\ b.t = op ->
         LET x == EqPass(op, a, b.l)
             y == EqPass(op, x[1], b.r)
         IN  <<y[1], TwoE(op, x[2], y[2])>>
    [] OTHER ->
         IF (a = b /\ a \in {Yes, No}) \/ ~ExprEq(a, b) THEN <<a, b>>
         ELSE <<Unit(op), Unit(op)>>

\* expr_eliminate_eq: the pair p of expressions, by the operator of the first,
\* then by the one of the second if it is another.
EqBy(i, p) ==
  IF p[i].t \in {"and", "or"} /\ (i = 1 \/ p[1].t # p[2].t) THEN EqPass(p[i].t, p[1], p[2]) ELSE p
EliminateYns(p) == [i \in 1..2 |-> EliminateYn(p[i])]
EliminateEq(a, b) ==
  IF a = None \/ b = None THEN <<a, b>> ELSE EliminateYns(EqBy(2, EqBy(1, <<a, b>>)))

\* expr_eq
SameSymbol(p) == p[1].t = "sym" /\ p[1] = p[2]
ExprEq(a, b) ==
  CASE a.t # b.t -> FALSE
    [] a.t \in {"and", "or"} -> SameSymbol(EliminateEq(a, b))
    [] a.t = "not" -> ExprEq(a.l, b.l)
    [] OTHER -> a = b

----------------------------------------------------------------------------
(* Normal forms *)

RECURSIVE TransBool(_, _)
TransBool(e, ty) ==
  CASE e.t \in {"and", "or"} -> TwoE(e.t, TransBool(e.l, ty), TransBool(e.r, ty))
    [] e.t = "not" -> NotE(TransBool(e.l, ty))
    [] e.t = "ne" /\ ty[e.s] = "tristate" /\ e.c = "n" -> SymE(e.s)
    [] OTHER -> e

\* A comparison of a boolean is the symbol, its negation or a constant.
TransformComp(e, ty) ==
  CASE ty[e.s] # "boolean" \/ e.c \notin {"y", "m", "n"} -> e
    [] e.c = "m" -> IF e.t = "eq" THEN No ELSE Yes
    [] e.t = "eq" /\ e.c = "y" -> SymE(e.s)
    [] e.t = "ne" /\ e.c = "n" -> SymE(e.s)
    [] OTHER -> NotE(SymE(e.s))

NotConstant == [y |-> "n", m |-> "m", n |-> "y"]

RECURSIVE Transform(_, _)

\* The negation of an expression that is already transformed.
TransformNot(l, ty) ==
  CASE l.t = "not" -> Transform(l.l, ty)
    [] l.t = "eq" -> CompE("ne", l.s, l.c)
    [] l.t = "ne" -> CompE("eq", l.s, l.c)
    [] l.t = "or" -> Transform(TwoE("and", NotE(l.l), NotE(l.r)), ty)
    [] l.t = "and" -> Transform(TwoE("or", NotE(l.l), NotE(l.r)), ty)
    [] l.t = "sym" /\ l.s \in DOMAIN NotConstant -> SymE(NotConstant[l.s])
    [] OTHER -> NotE(l)

\* expr_transform
Transform(e, ty) ==
  CASE e.t \in {"and", "or"} -> TwoE(e.t, Transform(e.l, ty), Transform(e.r, ty))
    [] e.t = "not" -> TransformNot(Transform(e.l, ty), ty)
    [] e.t \in {"eq", "ne"} -> TransformComp(e, ty)
    [] OTHER -> e

----------------------------------------------------------------------------
(* Elimination of duplicates *)

RECURSIVE At(_, _), Put(_, _, _)
At(e, p) == IF p = << >> THEN e ELSE At(IF Head(p) = 1 THEN e.l ELSE e.r, Tail(p))
Put(e, p, x) ==
  CASE p = << >> -> x
    [] Head(p) = 1 -> [e EXCEPT !.l = Put(@, Tail(p), x)]
    [] OTHER -> [e EXCEPT !.r = Put(@, Tail(p), x)]

\* expr_join_or, expr_join_and
JoinBy(op, a, b, ty) ==
  IF ExprEq(a, b) THEN a
  ELSE IF op = "or" THEN JoinLiteralsOr(a, b, ty) ELSE JoinLiteralsAnd(a, b, ty)

\* The operands at p and q become one, unless there is nothing to join.
Joined(op, w, p, q, x) ==
  IF x = None THEN w ELSE [e |-> Put(Put(w.e, p, Unit(op)), q, x), n |-> w.n + 1]
JoinAt(op, w, p, q, ty) == Joined(op, w, p, q, JoinBy(op, At(w.e, p), At(w.e, q), ty))

(***************************************************************************)
(* expr_eliminate_dups1 and 2 walk w.e, the tree, with the pointers p and  *)
(* q; w.n is trans_count.  Both take the operands of a chain of op in      *)
(* pairs; a pair that is one and the same node is left alone.              *)
(***************************************************************************)
RECURSIVE Dups1(_, _, _, _, _)
Dups1(op, w, p, q, ty) ==
  LET a == At(w.e, p)
      b == At(w.e, q)
  IN  CASE a.t = op ->
             Dups1(op, Dups1(op, w, Append(p, 1), q, ty), Append(p, 2), q, ty)
        [] a.t # op /\ b.t = op ->
             Dups1(op, Dups1(op, w, p, Append(q, 1), ty), p, Append(q, 2), ty)
        [] OTHER ->
             IF p = q THEN w
             ELSE JoinAt(op, IF a.t \in {"and", "or"} THEN Dups1(a.t, w, p, p, ty) ELSE w, p, q, ty)

\* expr_extract_eq: the operands the chains a and b have in common, which
\* leave them; <<common, a, b>>.
RECURSIVE ExtractEq(_, _, _, _)
ExtractEq(op, common, a, b) ==
  CASE a.t = op ->
         LET x == ExtractEq(op, common, a.l, b)
             y == ExtractEq(op, x[1], a.r, x[3])
         IN  <<y[1], TwoE(op, x[2], y[2]), y[3]>>
    [] a.t # op /\ b.t = op ->
         LET x == ExtractEq(op, common, a, b.l)
             y == ExtractEq(op, x[1], x[2], b.r)
         IN  <<y[1], y[2], TwoE(op, x[3], y[3])>>
    [] OTHER ->
         IF ExprEq(a, b)
         THEN <<IF common = None THEN a ELSE TwoE(op, common, a), Unit(op), Unit(op)>>
         ELSE <<common, a, b>>

\* expr_extract_eq_and, expr_extract_eq_or
Cleaned(x) == IF x[1] = None THEN x ELSE <<x[1], EliminateYn(x[2]), EliminateYn(x[3])>>
Extract(op, a, b) == Cleaned(ExtractEq(op, None, a, b))

\* (FOO || BAR) && (!FOO && !BAR), and (FOO && BAR) || (!FOO || !BAR):
\* every operand of the negated a is an operand of b.
Contradicts(a, b, ty) ==
  LET op == IF a.t = "or" THEN "and" ELSE "or"
  IN  Extract(op, Transform(NotE(a), ty), b)[2] \in (IF a.t = "or" THEN {None, Yes} ELSE {No})

\* What stands at p, a chain of t, is decided if it and what stands at q
\* contradict each other.
Decided(t, w, p, q, ty) ==
  IF ~Contradicts(At(w.e, p), At(w.e, q), ty) THEN w
  ELSE [e |-> Put(w.e, p, IF t = "or" THEN No ELSE Yes), n |-> w.n + 1]

RECURSIVE Dups2(_, _, _, _, _), Dups2Whole(_, _, _, _)

Dups2Whole(w, p, q, ty) ==
  LET t == At(w.e, p).t
  IN  IF p = q \/ t \notin {"and", "or"} THEN w
      ELSE Decided(t, Dups2(t, w, p, p, ty), p, q, ty)

Dups2(op, w, p, q, ty) ==
  IF At(w.e, p).t = op
  THEN Dups2(op, Dups2(op, w, Append(p, 1), q, ty), Append(p, 2), q, ty)
  \* no return here in the code: the chain q is then compared as a whole
  ELSE Dups2Whole(IF At(w.e, q).t = op
                  THEN Dups2(op, Dups2(op, w, p, Append(q, 1), ty), p, Append(q, 2), ty)
                  ELSE w, p, q, ty)

RECURSIVE EliminateDups(_, _), DupsAgain(_, _)

\* As long as something was joined or decided, the tree is gone over again.
DupsAgain(w, ty) == IF w.n = 0 THEN w.e ELSE EliminateDups(EliminateYn(w.e), ty)
DupsSecond(w, ty) == Dups2(w.e.t, w, << >>, << >>, ty)
EliminateDups(e, ty) ==
  IF e.t \notin {"and", "or"} THEN e
  ELSE DupsAgain(DupsSecond(Dups1(e.t, [e |-> e, n |-> 0], << >>, << >>, ty), ty), ty)

----------------------------------------------------------------------------
(* Questions about an expression *)

RECURSIVE ContainsSymbol(_, _), DependsSymbol(_, _)
ContainsSymbol(e, s) ==
  CASE e.t \in {"and", "or"} -> ContainsSymbol(e.l, s) \/ ContainsSymbol(e.r, s)
    [] e.t = "not" -> ContainsSymbol(e.l, s)
    [] e.t = "sym" -> e.s = s
    [] e.t \in {"eq", "ne"} -> s \in {e.s, e.c}
    [] OTHER -> FALSE

DependsSymbol(e, s) ==
  CASE e.t = "and" -> DependsSymbol(e.l, s) \/ DependsSymbol(e.r, s)
    [] e.t = "sym" -> e.s = s
    [] e.t = "eq" -> e.s = s /\ e.c \in {"y", "m"}
    [] e.t = "ne" -> e.s = s /\ e.c = "n"
    [] OTHER -> FALSE

Negated(op, e) == IF op = "ne" THEN NotE(e) ELSE e
OtherComp == [eq |-> "ne", ne |-> "eq"]

\* expr_trans_compare: "e op c" for one of the constants y, m and n.  With m a
\* chain is returned as it is, which compares nothing.
RECURSIVE TransCompare(_, _, _)

TransCompare(e, op, c) ==
  LET chain(dual) == TwoE(dual, TransCompare(e.l, "eq", c), TransCompare(e.r, "eq", c))
  IN  CASE e = None -> Negated(op, SymE(c))
        [] e.t \in {"and", "or"} ->
             Negated(op, CASE c = "y" -> chain(e.t)
                           [] c = "n" -> chain(IF e.t = "and" THEN "or" ELSE "and")
                           [] OTHER -> e)
        [] e.t = "not" -> TransCompare(e.l, OtherComp[op], c)
        [] e.t \in {"eq", "ne"} ->
             (CASE c = "m" -> IF op = "eq" THEN No ELSE Yes
                [] (op = "eq") = (c = "y") -> e
                [] OTHER -> NotE(e))
        [] e.t = "sym" -> CompE(op, e.s, c)

\* expr_get_leftmost_symbol, of an expression whose leftmost leaf is a symbol
RECURSIVE Leftmost(_)
Leftmost(e) == IF e = None \/ e.t = "sym" THEN e ELSE Leftmost(e.l)

\* Mutant: the selects that do imply the dependencies are the ones named
SimplifyUnmetDep_inverted(e, dir, ty) ==
  IF e.t = "and" /\ ~ExprEq(EliminateDups(AllocAnd(e, dir), ty), e)
  THEN None ELSE Leftmost(e)

\* expr_simplify_unmet_dep: of the selects in e, the symbols whose dependencies
\* do not contain dir.
RECURSIVE SimplifyUnmetDep(_, _, _)
SimplifyUnmetDep(e, dir, ty) ==
  CASE e.t = "or" -> AllocAnd(SimplifyUnmetDep(e.l, dir, ty), SimplifyUnmetDep(e.r, dir, ty))
    [] e.t = "and" ->
         IF ExprEq(EliminateDups(AllocAnd(e, dir), ty), e) THEN None ELSE Leftmost(e)
    [] OTHER -> Leftmost(e)

----------------------------------------------------------------------------
(* Text *)

Binding == [or |-> 1, and |-> 2, not |-> 3, eq |-> 4, ne |-> 4]

\* Mutant: no parentheses for "or" inside "and"
Looser_ignoresOr(t1, t2) ==
  /\ t1 \in DOMAIN Binding /\ t2 \in {"and", "not"}
  /\ Binding[t2] < Binding[t1]

\* expr_compare_type(t1, t2) > 0: an expression of type t2 inside one of type
\* t1 is put in parentheses.
Looser(t1, t2) ==
  /\ t1 \in DOMAIN Binding /\ t2 \in {"or", "and", "not"}
  /\ Binding[t2] < Binding[t1]

RECURSIVE Text(_, _)
Text(e, prev) ==
  LET text == CASE e.t = "sym" -> <<e.s>>
                [] e.t \in {"eq", "ne"} -> <<e.s, IF e.t = "eq" THEN "=" ELSE "!=", e.c>>
                [] e.t = "not" -> <<"!">> \o Text(e.l, "not")
                [] e.t \in {"and", "or"} ->
                     Text(e.l, e.t) \o <<IF e.t = "and" THEN "&&" ELSE "||">> \o Text(e.r, e.t)
  IN  CASE e = None -> <<"y">>
        [] e # None /\ Looser(prev, e.t) -> <<"(">> \o text \o <<")">>
        [] OTHER -> text
============================================================================
