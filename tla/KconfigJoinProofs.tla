------------------------- MODULE KconfigJoinProofs -------------------------
(***************************************************************************)
(* The table of expr_join_or and expr_join_and is right: whenever it joins *)
(* two literals, the join has the value of "a || b" (of "a && b") under    *)
(* every assignment of the symbols.  The run KconfigRewrite checks the     *)
(* passes that use the table on all the expressions of a small shape; here *)
(* the symbols, their types and their values are arbitrary.                *)
(***************************************************************************)
EXTENDS KconfigJoin, TLAPS

\* A literal of the tree: a symbol or a comparison of two symbols of ty.
IsLiteral(e, ty) ==
  \/ \E s \in DOMAIN ty : e = SymE(s)
  \/ \E op \in {"eq", "ne"}, s \in DOMAIN ty, c \in DOMAIN ty : e = CompE(op, s, c)

IsOperand(e, ty) ==
  \/ IsLiteral(e, ty)
  \/ \E l : IsLiteral(l, ty) /\ e = NotE(l)

OperandValue(e, v, ty) ==
  IF e.t = "not" THEN NotV(LitValue(e.l, v, ty)) ELSE LitValue(e, v, ty)

\* y, m and n are constants of every configuration (symbol_yes, symbol_mod, symbol_no).
HasConstants(ty) == \A c \in {"y", "m", "n"} : c \in DOMAIN ty /\ ty[c] = "const"

(***************************************************************************)
(* The symbol the two operands share has a tristate value, and y, m and n  *)
(* have their own.                                                         *)
(***************************************************************************)
LEMMA JoinedSymbol ==
  ASSUME NEW ty, NEW v, NEW a, NEW b, HasConstants(ty), Assignment(v, ty),
         "none" \notin DOMAIN ty,
         IsOperand(a, ty), IsOperand(b, ty), Joinable(a, b, ty)
  PROVE  /\ SymOfFirst(a) \in DOMAIN ty
         /\ ty[SymOfFirst(a)] \in Tristates
         /\ v[SymOfFirst(a)] \in {"n", "m", "y"}
         /\ ty[SymOfFirst(a)] = "boolean" => v[SymOfFirst(a)] \in {"n", "y"}
         /\ v["y"] = "y" /\ v["m"] = "m" /\ v["n"] = "n"
<1>1. v["y"] = "y" /\ v["m"] = "m" /\ v["n"] = "n"
  BY DEF Assignment, HasConstants
<1>2. ty[SymOfFirst(a)] \in Tristates /\ SymOfFirst(a) # "none"
  BY DEF Joinable
<1>3. SymOfFirst(a) \in DOMAIN ty
  <2>1. CASE IsLiteral(a, ty)
    BY <2>1 DEF IsLiteral, SymOfFirst, Plain, SymE, CompE
  <2>2. CASE \E l : IsLiteral(l, ty) /\ a = NotE(l)
    BY <2>2 DEF IsLiteral, SymOfFirst, Plain, SymE, CompE, NotE
  <2>3. QED
    BY <2>1, <2>2 DEF IsOperand
<1>4. QED
  BY <1>1, <1>2, <1>3 DEF Assignment, Tristates

\* What a symbol and a comparison with y, m or n are worth.
LEMMA LiteralValues ==
  ASSUME NEW ty, NEW v, NEW s, ty[s] \in Tristates
  PROVE  /\ OperandValue(SymE(s), v, ty) = Tri(v[s])
         /\ \A c : /\ OperandValue(CompE("eq", s, c), v, ty) = IF v[s] = v[c] THEN 2 ELSE 0
                   /\ OperandValue(CompE("ne", s, c), v, ty) = IF v[s] = v[c] THEN 0 ELSE 2
BY DEF OperandValue, SymE, NotE, CompE, LitValue, SymValue, NotV, Tristates

LEMMA NegationValue ==
  ASSUME NEW ty, NEW v, NEW s, ty[s] \in Tristates
  PROVE  OperandValue(NotE(SymE(s)), v, ty) = 2 - Tri(v[s])
BY DEF OperandValue, SymE, NotE, LitValue, SymValue, NotV, Tristates

LEMMA ConstantValues ==
  ASSUME NEW ty, NEW v, v["y"] = "y", v["n"] = "n"
  PROVE  OperandValue(Yes, v, ty) = 2 /\ OperandValue(No, v, ty) = 0
BY DEF OperandValue, Yes, No, SymE, LitValue, SymValue, Tri, Tristates

(***************************************************************************)
(* expr_join_or never changes the value of an expression: where it returns *)
(* a join, the join is worth the greater of the two operands.              *)
(***************************************************************************)
THEOREM JoinOrKeepsValue ==
  ASSUME NEW ty, NEW v, NEW a, NEW b, HasConstants(ty), Assignment(v, ty),
         "none" \notin DOMAIN ty,
         IsOperand(a, ty), IsOperand(b, ty), JoinLiteralsOr(a, b, ty) # None
  PROVE  OperandValue(JoinLiteralsOr(a, b, ty), v, ty)
           = OrV(OperandValue(a, v, ty), OperandValue(b, v, ty))
<1> DEFINE s == SymOfFirst(a)
           Eq(c) == CompE("eq", s, c)
           Ne(c) == CompE("ne", s, c)
           V(e) == OperandValue(e, v, ty)
           J == JoinLiteralsOr(a, b, ty)
<1>1. Joinable(a, b, ty)
  BY DEF JoinLiteralsOr
<1>2. /\ ty[s] \in Tristates
      /\ v[s] \in {"n", "m", "y"}
      /\ ty[s] = "boolean" => v[s] \in {"n", "y"}
      /\ v["y"] = "y" /\ v["m"] = "m" /\ v["n"] = "n"
  BY <1>1, JoinedSymbol
<1>3. /\ V(SymE(s)) = Tri(v[s])
      /\ V(NotE(SymE(s))) = 2 - Tri(v[s])
      /\ \A c : V(Eq(c)) = IF v[s] = v[c] THEN 2 ELSE 0
      /\ \A c : V(Ne(c)) = IF v[s] = v[c] THEN 0 ELSE 2
  <2>1. V(NotE(SymE(s))) = 2 - Tri(v[s])
    BY <1>2, NegationValue
  <2>2. QED BY <2>1, <1>2, LiteralValues
<1>4. V(Yes) = 2 /\ V(No) = 0
  BY <1>2, ConstantValues
<1>5. \/ Both(a, b, Eq("y"), Eq("m")) /\ J = Ne("n")
      \/ Both(a, b, Eq("y"), Eq("n")) /\ J = Ne("m")
      \/ Both(a, b, Eq("m"), Eq("n")) /\ J = Ne("y")
      \/ ty[s] = "boolean" /\ Both(a, b, SymE(s), NotE(SymE(s))) /\ J = Yes
  BY <1>1 DEF JoinLiteralsOr
<1> HIDE DEF s, Eq, Ne, V, J
<1>6. V(J) = OrV(V(a), V(b))
  <2>1. CASE Both(a, b, Eq("y"), Eq("m")) /\ J = Ne("n")
    BY <2>1, <1>2, <1>3 DEF Both, OrV
  <2>2. CASE Both(a, b, Eq("y"), Eq("n")) /\ J = Ne("m")
    BY <2>2, <1>2, <1>3 DEF Both, OrV
  <2>3. CASE Both(a, b, Eq("m"), Eq("n")) /\ J = Ne("y")
    BY <2>3, <1>2, <1>3 DEF Both, OrV
  <2>4. CASE ty[s] = "boolean" /\ Both(a, b, SymE(s), NotE(SymE(s))) /\ J = Yes
    BY <2>4, <1>2, <1>3, <1>4 DEF Both, OrV, Tri
  <2>5. QED
    BY <1>5, <2>1, <2>2, <2>3, <2>4
<1>7. QED
  BY <1>6 DEF V, J

(***************************************************************************)
(* expr_join_and never changes the value of an expression: where it        *)
(* returns a join, the join is worth the lesser of the two operands.       *)
(***************************************************************************)
THEOREM JoinAndKeepsValue ==
  ASSUME NEW ty, NEW v, NEW a, NEW b, HasConstants(ty), Assignment(v, ty),
         "none" \notin DOMAIN ty,
         IsOperand(a, ty), IsOperand(b, ty), JoinLiteralsAnd(a, b, ty) # None
  PROVE  OperandValue(JoinLiteralsAnd(a, b, ty), v, ty)
           = AndV(OperandValue(a, v, ty), OperandValue(b, v, ty))
<1> DEFINE s == SymOfFirst(a)
           Eq(c) == CompE("eq", s, c)
           Ne(c) == CompE("ne", s, c)
           V(e) == OperandValue(e, v, ty)
           J == JoinLiteralsAnd(a, b, ty)
           Compared(x, y) == /\ x.t = "eq" /\ y.t = "ne" /\ J = JoinEqNe(s, x.c, y.c, ty)
                             /\ J # None
<1>1. Joinable(a, b, ty)
  BY DEF JoinLiteralsAnd
<1>2. /\ ty[s] \in Tristates
      /\ v[s] \in {"n", "m", "y"}
      /\ v["y"] = "y" /\ v["m"] = "m" /\ v["n"] = "n"
  BY <1>1, JoinedSymbol
<1>3. /\ V(SymE(s)) = Tri(v[s])
      /\ \A c : V(Eq(c)) = IF v[s] = v[c] THEN 2 ELSE 0
      /\ \A c : V(Ne(c)) = IF v[s] = v[c] THEN 0 ELSE 2
  <2> HIDE DEF s
  <2>1. QED BY <1>2, LiteralValues DEF V, Eq, Ne
<1>4. V(Yes) = 2 /\ V(No) = 0
  BY <1>2, ConstantValues
<1>5. \/ Both(a, b, SymE(s), Eq("y")) /\ J = Eq("y")
      \/ Both(a, b, SymE(s), Ne("n")) /\ J = SymE(s)
      \/ Both(a, b, SymE(s), Ne("m")) /\ J = Eq("y")
      \/ Compared(a, b)
      \/ Compared(b, a)
      \/ Both(a, b, Ne("y"), Ne("n")) /\ J = Eq("m")
      \/ Both(a, b, Ne("y"), Ne("m")) /\ J = Eq("n")
      \/ Both(a, b, Ne("m"), Ne("n")) /\ J = Eq("y")
  BY <1>1 DEF JoinLiteralsAnd
<1>6. ASSUME Compared(a, b) \/ Compared(b, a)
      PROVE  V(J) = AndV(V(a), V(b))
  <2>1. /\ a.t \in {"eq", "ne"} => /\ a = CompE(a.t, s, a.c)
                                   /\ a.c \in DOMAIN ty
        /\ b.t \in {"eq", "ne"} => /\ b = CompE(b.t, s, b.c)
                                   /\ b.c \in DOMAIN ty
    BY <1>1 DEF IsOperand, IsLiteral, Joinable, SymOfFirst, SymOfSecond, Plain, SymE, CompE, NotE
  <2>2. ASSUME NEW x, NEW y, x \in DOMAIN ty, y \in DOMAIN ty,
               J = JoinEqNe(s, x, y, ty), J # None
        PROVE  V(J) = AndV(V(Eq(x)), V(Ne(y)))
    <3>1. ty[x] = "const" /\ ty[y] = "const" /\ J = IF x # y THEN Eq(x) ELSE No
      BY <2>2 DEF JoinEqNe
    <3>2. v[x] = x /\ v[y] = y
      BY <3>1, <2>2 DEF Assignment
    <3> HIDE DEF V, J, Eq, Ne, s
    <3>3. QED
      BY <3>1, <3>2, <1>3, <1>4 DEF AndV
  <2>3. CASE Compared(a, b)
    <3>1. a = Eq(a.c) /\ b = Ne(b.c)
      BY <2>1, <2>3
    <3>2. a.c \in DOMAIN ty /\ b.c \in DOMAIN ty /\ J = JoinEqNe(s, a.c, b.c, ty) /\ J # None
      BY <2>1, <2>3
    <3>3. V(J) = AndV(V(Eq(a.c)), V(Ne(b.c)))
      <4> HIDE DEF V, J, Eq, Ne, s
      <4>1. QED BY <3>2, <2>2
    <3> HIDE DEF V, J, Eq, Ne, s
    <3>4. QED BY <3>1, <3>3, Zenon
  <2>4. CASE Compared(b, a)
    <3>1. b = Eq(b.c) /\ a = Ne(a.c)
      BY <2>1, <2>4
    <3>2. a.c \in DOMAIN ty /\ b.c \in DOMAIN ty /\ J = JoinEqNe(s, b.c, a.c, ty) /\ J # None
      BY <2>1, <2>4
    <3>3. V(J) = AndV(V(Eq(b.c)), V(Ne(a.c)))
      <4> HIDE DEF V, J, Eq, Ne, s
      <4>1. QED BY <3>2, <2>2
    <3> HIDE DEF V, J, Eq, Ne, s
    <3>4. V(J) = AndV(V(b), V(a))
      BY <3>1, <3>3, Zenon
    <3>5. V(a) \in {0, 2} /\ V(b) \in {0, 2}
      BY <3>1, <1>3
    <3>6. QED BY <3>4, <3>5 DEF AndV
  <2>5. QED
    BY <1>6, <2>3, <2>4
<1> HIDE DEF s, Eq, Ne, V, J, Compared
<1>7. V(J) = AndV(V(a), V(b))
  <2>1. CASE Both(a, b, SymE(s), Eq("y")) /\ J = Eq("y")
    BY <2>1, <1>2, <1>3 DEF Both, AndV, Tri
  <2>2. CASE Both(a, b, SymE(s), Ne("n")) /\ J = SymE(s)
    BY <2>2, <1>2, <1>3 DEF Both, AndV, Tri
  <2>3. CASE Both(a, b, SymE(s), Ne("m")) /\ J = Eq("y")
    BY <2>3, <1>2, <1>3 DEF Both, AndV, Tri
  <2>4. CASE Both(a, b, Ne("y"), Ne("n")) /\ J = Eq("m")
    BY <2>4, <1>2, <1>3 DEF Both, AndV
  <2>5. CASE Both(a, b, Ne("y"), Ne("m")) /\ J = Eq("n")
    BY <2>5, <1>2, <1>3 DEF Both, AndV
  <2>6. CASE Both(a, b, Ne("m"), Ne("n")) /\ J = Eq("y")
    BY <2>6, <1>2, <1>3 DEF Both, AndV
  <2>7. QED
    BY <1>5, <1>6, <2>1, <2>2, <2>3, <2>4, <2>5, <2>6
<1>8. QED
  BY <1>7 DEF V, J
============================================================================
