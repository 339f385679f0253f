--------------------------- MODULE KconfigRewrite ---------------------------
(***************************************************************************)
(* The life of one dependency expression: it is read from a Kconfig file   *)
(* and then rewritten by the functions of expr.c, in any order and any     *)
(* number of times, as menu_finalize does while it hands the dependencies  *)
(* of a menu down to its entries.  The condition of an entry that is not a *)
(* tristate has its comparisons dropped at the end.                        *)
(***************************************************************************)
EXTENDS KconfigExpr, FiniteSets

CONSTANTS
  Ty,          \* the type of every symbol, "const" for the constants
  Exprs,       \* the expressions that are read
  Probes,      \* the expressions they are compared with
  Assignments  \* the values the symbols can have together

ASSUME AssignmentsAssumption == \A v \in Assignments : Assignment(v, Ty)

VARIABLES
  e,   \* the expression as it is now
  was,  \* as it was read
  stage \* "read", "transformed" or, with its comparisons dropped, "boolean"

vars == <<e, was, stage>>

Init == e \in Exprs /\ was = e /\ stage = "read"

Rewrite(x) == stage # "boolean" /\ e' = x /\ UNCHANGED was

TransformAll == Rewrite(Transform(e, Ty)) /\ stage' = "transformed"
RemoveConstants == Rewrite(EliminateYn(e)) /\ UNCHANGED stage
RemoveDuplicates == Rewrite(EliminateDups(e, Ty)) /\ UNCHANGED stage
\* The condition has been transformed: no "!" stands before a comparison.
DropComparisons ==
  /\ stage = "transformed"
  /\ Rewrite(TransBool(e, Ty)) /\ stage' = "boolean"

Next == TransformAll \/ RemoveConstants \/ RemoveDuplicates \/ DropComparisons

Spec == Init /\ [][Next]_vars

----------------------------------------------------------------------------
(* The grammar of zconf.y, on the tokens of Text: "||" binds less than    *)
(* "&&", both to the left, and "!" takes one operand.                      *)

Count(ts, n, t) == Cardinality({i \in 1..n : ts[i] = t})
TopLevel(ts, op) ==
  {i \in 2..Len(ts) : ts[i] = op /\ Count(ts, i, "(") = Count(ts, i, ")")}
Last(S) == CHOOSE i \in S : \A j \in S : j <= i

RECURSIVE Read(_)
Read(ts) ==
  LET split(op, t) == LET i == Last(TopLevel(ts, op))
                      IN  TwoE(t, Read(SubSeq(ts, 1, i - 1)), Read(SubSeq(ts, i + 1, Len(ts))))
  IN  CASE TopLevel(ts, "||") # {} -> split("||", "or")
        [] TopLevel(ts, "||") = {} /\ TopLevel(ts, "&&") # {} -> split("&&", "and")
        [] OTHER ->
             CASE ts[1] = "!" -> NotE(Read(Tail(ts)))
               [] ts[1] = "(" -> Read(SubSeq(ts, 2, Len(ts) - 1))
               [] Len(ts) = 1 -> SymE(ts[1])
               [] OTHER -> CompE(IF ts[2] = "=" THEN "eq" ELSE "ne", ts[1], ts[3])

----------------------------------------------------------------------------
V(x, v) == Value(x, v, Ty)
SameMeaning(x, y) == \A v \in Assignments : V(x, v) = V(y, v)

\* Whether a "!" is left in an expression.
RECURSIVE Negates(_)
Negates(x) == CASE x.t = "not" -> TRUE
                [] x.t \in {"and", "or"} -> Negates(x.l) \/ Negates(x.r)
                [] OTHER -> FALSE


\* menu_finalize makes an entry a submenu of the one above when
\* expr_depends_symbol finds its symbol, or expr_eliminate_eq leaves nothing of
\* its visibility: the entry is then visible only if the one above is.
NestedUnderWhatItNeeds ==
  \A v \in Assignments : V(e, v) # 0 =>
     /\ \A s \in DOMAIN Ty : DependsSymbol(e, s) => Tri(v[s]) # 0
     /\ \A g \in Probes : IsYes(EliminateEq(e, g)[2]) => V(g, v) # 0

\* The warning of sym_calc_value names every symbol whose select is in force
\* while the direct dependencies of the selected symbol are not met.
RECURSIVE Leaves(_)
Leaves(x) == CASE x.t \in {"and", "or"} -> Leaves(x.l) \cup Leaves(x.r)
               [] x.t = "sym" -> {x.s}
               [] OTHER -> {}
UnmetSelectsAreNamed ==
  \A g \in Probes :
     LET selects == TwoE("or", TwoE("and", SymE("S1"), e), SymE("S2"))
         named == Leaves(SimplifyUnmetDep(selects, g, Ty))
     IN  \A v \in Assignments :
            V(g, v) = 0 =>
              /\ Tri(v["S1"]) # 0 /\ V(e, v) # 0 => "S1" \in named
              /\ Tri(v["S2"]) # 0 => "S2" \in named

\* The text of a dependency in a help page or a warning, read again as zconf.y
\* reads it, has the value of the dependency.
PrintsWhatItMeans == SameMeaning(Read(Text(e, "none")), e)
============================================================================
