-------------------------- MODULE MCKconfigRewrite --------------------------
(***************************************************************************)
(* Expressions over two booleans and a tristate that takes its three       *)
(* values.  The constant m stands alone too: menu_check_dep makes "m" of a *)
(* Kconfig file "m && MODULES".  S1 and S2 only select.                    *)
(***************************************************************************)
EXTENDS KconfigRewrite

MCTy == [A |-> "boolean", B |-> "boolean", T |-> "tristate", S1 |-> "boolean",
         S2 |-> "boolean", y |-> "const", m |-> "const", n |-> "const"]

MCAssignments ==
  {[A |-> a, B |-> b, T |-> t, S1 |-> "y", S2 |-> "y", y |-> "y", m |-> "m", n |-> "n"] :
      a \in {"n", "y"}, b \in {"n", "y"}, t \in {"n", "m", "y"}}

Comps(S, C) == {CompE(op, s, c) : op \in {"eq", "ne"}, s \in S, c \in C}
Ops == {"and", "or"}

\* every pair of literals
Lits == {SymE(s) : s \in {"A", "T", "y", "m", "n"}}
          \cup Comps({"A", "T"}, {"y", "m", "n"})
Pairs(L) == {TwoE(op, a, b) : op \in Ops, a \in L, b \in L}
Nots(L) == {NotE(a) : a \in L}

\* four operands, over the literals of two booleans
Few == {SymE("A"), SymE("B"), NotE(SymE("A")), NotE(SymE("B"))}
Fours == {TwoE(op, a, b) : op \in Ops, a \in Pairs(Few), b \in Pairs(Few)}

MCExprs == Pairs(Lits \cup Nots(Lits)) \cup Nots(Pairs(Lits)) \cup Fours

MCProbes == {SymE("A"), NotE(SymE("B")), Yes, TwoE("and", SymE("B"), SymE("A")),
             TwoE("or", SymE("A"), SymE("B"))}
============================================================================
