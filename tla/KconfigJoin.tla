---------------------------- MODULE KconfigJoin ----------------------------
(***************************************************************************)
(* The literals of a Kconfig expression and the table of rules by which    *)
(* support/kconfig/expr.c joins two of them: what expr_join_or and         *)
(* expr_join_and put in the place of "a || b" and "a && b".                *)
(*                                                                         *)
(* An expression is a record with its type in the field t.  A symbol is    *)
(* its name; ty[s] is its type, "const" for the constants (the symbols     *)
(* with the flag SYMBOL_CONST), of which y, m and n are three.             *)
(***************************************************************************)
EXTENDS Integers

None == [t |-> "none"]
SymE(s) == [t |-> "sym", s |-> s]
NotE(e) == [t |-> "not", l |-> e]
CompE(op, s, c) == [t |-> op, s |-> s, c |-> c]
TwoE(op, a, b) == [t |-> op, l |-> a, r |-> b]

Yes == SymE("y")
No == SymE("n")

\* The value of a symbol is its string; v[s] of a boolean or a tristate is
\* one of "n", "m" and "y".
Tri(x) == CASE x = "y" -> 2 [] x = "m" -> 1 [] OTHER -> 0
Tristates == {"boolean", "tristate"}
SymValue(s, v, ty) == IF ty[s] \in Tristates \/ s \in {"y", "m", "n"} THEN Tri(v[s]) ELSE 0

OrV(x, y) == IF x > y THEN x ELSE y
AndV(x, y) == IF x < y THEN x ELSE y
NotV(x) == 2 - x

LitValue(e, v, ty) ==
  CASE e.t = "sym" -> SymValue(e.s, v, ty)
    [] e.t = "eq" -> IF v[e.s] = v[e.c] THEN 2 ELSE 0
    [] e.t = "ne" -> IF v[e.s] = v[e.c] THEN 0 ELSE 2

Assignment(v, ty) ==
  \A s \in DOMAIN ty :
     CASE ty[s] = "const" -> v[s] = s
       [] ty[s] = "boolean" -> v[s] \in {"n", "y"}
       [] ty[s] = "tristate" -> v[s] \in {"n", "m", "y"}
       [] OTHER -> TRUE

(***************************************************************************)
(* The symbol a literal is about, "none" where the code gives up: the      *)
(* first operand may be a negated literal of any kind, the second only a   *)
(* negated symbol.                                                         *)
(***************************************************************************)
Plain == {"eq", "ne", "sym"}
SymOfFirst(a) ==
  CASE a.t \in Plain -> a.s
    [] a.t = "not" -> IF a.l.t \in Plain THEN a.l.s ELSE "none"
    [] OTHER -> "none"
SymOfSecond(b) ==
  CASE b.t \in Plain -> b.s
    [] b.t = "not" -> IF b.l.t = "sym" THEN b.l.s ELSE "none"
    [] OTHER -> "none"

Joinable(a, b, ty) ==
  LET s == SymOfFirst(a)
  IN  s # "none" /\ s = SymOfSecond(b) /\ ty[s] \in Tristates

\* "the operands are p and q, in either order"
Both(a, b, p, q) == (a = p /\ b = q) \/ (a = q /\ b = p)


\* expr_join_or on two operands that are not equal
JoinLiteralsOr(a, b, ty) ==
  LET s == SymOfFirst(a)
      Eq(c) == CompE("eq", s, c)
  IN  IF ~Joinable(a, b, ty) THEN None ELSE
      CASE ty[s] = "tristate" /\ Both(a, b, Eq("y"), Eq("m")) -> CompE("ne", s, "n")
        [] ty[s] = "tristate" /\ Both(a, b, Eq("y"), Eq("n")) -> CompE("ne", s, "m")
        [] ty[s] = "tristate" /\ Both(a, b, Eq("m"), Eq("n")) -> CompE("ne", s, "y")
        [] ty[s] = "boolean" /\ Both(a, b, SymE(s), NotE(SymE(s))) -> Yes
        [] OTHER -> None

\* (a='b') && (a!='c') -> 'b'='c' ? 'n' : a='b', for constants
JoinEqNe(s, b, c, ty) ==
  IF ty[b] = "const" /\ ty[c] = "const"
  THEN IF b # c THEN CompE("eq", s, b) ELSE No
  ELSE None

\* expr_join_and on two operands that are not equal
JoinLiteralsAnd(a, b, ty) ==
  LET s == SymOfFirst(a)
      Eq(c) == CompE("eq", s, c)
      Ne(c) == CompE("ne", s, c)
  IN  IF ~Joinable(a, b, ty) THEN None ELSE
      CASE Both(a, b, SymE(s), Eq("y")) -> Eq("y")
        [] Both(a, b, SymE(s), Ne("n")) -> SymE(s)
        [] Both(a, b, SymE(s), Ne("m")) -> Eq("y")
        [] ty[s] = "tristate" /\ a.t = "eq" /\ b.t = "ne" -> JoinEqNe(s, a.c, b.c, ty)
        [] ty[s] = "tristate" /\ a.t = "ne" /\ b.t = "eq" -> JoinEqNe(s, b.c, a.c, ty)
        [] ty[s] = "tristate" /\ Both(a, b, Ne("y"), Ne("n")) -> Eq("m")
        [] ty[s] = "tristate" /\ Both(a, b, Ne("y"), Ne("m")) -> Eq("n")
        [] ty[s] = "tristate" /\ Both(a, b, Ne("m"), Ne("n")) -> Eq("y")
        [] OTHER -> None
============================================================================
