--------------------------- MODULE KconfigSymbol ---------------------------
(***************************************************************************)
(* support/kconfig/symbol.c: the values of the symbols, calculated from    *)
(* what the user set, the defaults, the selects and the ranges, and kept   *)
(* until something is set.                                                 *)
(*                                                                         *)
(* k is a finalized Kconfig (KconfigMenu); st is the state of the symbols: *)
(*   curr  the calculated values: val a string (of a choice, the symbol    *)
(*         that is chosen), tri 0, 1 or 2 for n, m and y                   *)
(*   vis, dir, rev   visible, dir_dep.tri, rev_dep.tri; shown is           *)
(*         visible.tri of the prompts, by the number of the property         *)
(*   def, has   def[S_DEF_USER] and def[S_DEF_AUTO], and whether they are  *)
(*         set (SYMBOL_DEF_USER, SYMBOL_DEF_AUTO)                          *)
(*   valid, write, need   the symbols with SYMBOL_VALID, SYMBOL_WRITE and  *)
(*         SYMBOL_NEED_SET_CHOICE_VALUES                                   *)
(*   mods  modules_val;  changed  whether sym_change_count is not 0        *)
(*                                                                         *)
(* A calculation follows the code from left to right and hands st on: what *)
(* a symbol's value is may depend on what was calculated before it.        *)
(***************************************************************************)
EXTENDS KconfigMenu

Zero == [val |-> "", tri |-> 0]
Null == "(null)"
NoDef == [val |-> Null, tri |-> 0]      \* def[] of a symbol nothing was read or set for
Static == [y |-> 2, m |-> 1, n |-> 0]   \* symbol_yes, symbol_mod, symbol_no
Builtin == DOMAIN Static
Strings == {"string", "int", "hex"}
Numbers == {"int", "hex"}

\* strtoll on the numbers that occur, and sprintf
NumOf(x) == IF x = "" THEN 0 ELSE CHOOSE n \in 0..99 : x \in {ToString(n), "0x" \o ToString(n)}
NumText(type, n) == IF type = "int" THEN ToString(n) ELSE "0x" \o ToString(n)

Start(k) ==
  LET S == DOMAIN k.ty
      none == [user |-> {}, auto |-> {}]
  IN  [curr |-> [s \in S |-> IF s \in Builtin THEN [val |-> s, tri |-> Static[s]] ELSE Zero],
       shown |-> [i \in DOMAIN k.props |-> 0], vis |-> [s \in S |-> 0], dir |-> [s \in S |-> 0], rev |-> [s \in S |-> 0],
       def |-> [user |-> [s \in S |-> NoDef], auto |-> [s \in S |-> NoDef]],
       has |-> none, valid |-> Builtin, write |-> {}, need |-> {}, mods |-> 0, changed |-> FALSE]

ChoiceOf(k, s) == k.props[FirstOfType(k, s, "choice")].x.s
ValuesOf(k, c) == k.props[OwnChoiceProp(k, c)].x.syms
VisibleValues(k, st, c) == {v \in ToSet(ValuesOf(k, c)) : st.vis[v] # 0}

\* sym_get_type: whether a tristate is one now
TypeOf(k, st, s) ==
  IF k.ty[s] = "tristate" /\ ((s \in k.choicevals /\ st.vis[s] = 2) \/ st.mods = 0)
  THEN "boolean" ELSE k.ty[s]

----------------------------------------------------------------------------
(* Calculation.  An operator that calculates on its way to a result        *)
(* returns the pair of the new st and the result.                          *)

RECURSIVE Calc(_, _, _), CalcAll(_, _, _), CalcExpr(_, _, _), FirstVisible(_, _, _)

\* The symbols of the list, one after the other
CalcAll(k, st, syms) ==
  IF syms = << >> THEN st ELSE CalcAll(k, Calc(k, st, Head(syms)), Tail(syms))

\* sym_get_string_value: what it calculates, and the string.
NeedsModules(k, st, s) == k.ty[s] \in Tristates /\ st.curr[s].tri = 1
TextNow(k, st, s) ==
  CASE k.ty[s] \notin Tristates -> st.curr[s].val
    [] NeedsModules(k, st, s) -> IF st.curr[k.modules].tri = 0 THEN "n" ELSE "m"
    [] OTHER -> IF st.curr[s].tri = 0 THEN "n" ELSE "y"
WithText(k, st, s) == <<st, TextNow(k, st, s)>>
StringValue(k, st, s) ==
  WithText(k, IF NeedsModules(k, st, s) THEN Calc(k, st, k.modules) ELSE st, s)

\* expr_calc_value: a symbol, a comparison, the second operand of "and" and "or"
Same(k, st, e) == <<st, IF (TextNow(k, st, e.s) = TextNow(k, st, e.c)) = (e.t = "eq") THEN 2 ELSE 0>>
Operands(e) == IF e.t = "sym" THEN <<e.s>> ELSE <<e.s, e.c>>
LeafValue(k, st, e) ==
  IF e.t = "sym" THEN <<st, st.curr[e.s].tri>>
  ELSE Same(k, CalcAll(k, st, IF \E s \in {e.s, e.c} : NeedsModules(k, st, s)
                              THEN <<k.modules>> ELSE << >>), e)
Combined(e, x, r) == <<r[1], IF e.t = "and" THEN AndV(x, r[2]) ELSE OrV(x, r[2])>>
CalcRight(k, e, l) == Combined(e, l[2], CalcExpr(k, l[1], e.r))
Negative(x) == <<x[1], NotV(x[2])>>

CalcExpr(k, st, e) ==
  CASE e = None -> <<st, 2>>
    [] e.t \in {"sym", "eq", "ne"} -> LeafValue(k, CalcAll(k, st, Operands(e)), e)
    [] e.t \in {"and", "or"} -> CalcRight(k, e, CalcExpr(k, st, e.l))
    [] e.t = "not" -> Negative(CalcExpr(k, st, e.l))

\* The first property of the list is that is visible: st, the property (0 if
\* none is) and its visibility.
FirstOf(k, is, x) ==
  IF x[2] # 0 THEN <<x[1], Head(is), x[2]>> ELSE FirstVisible(k, x[1], Tail(is))
FirstVisible(k, st, is) ==
  IF is = << >> THEN <<st, 0, 0>> ELSE FirstOf(k, is, CalcExpr(k, st, k.props[Head(is)].vis))

DefaultProp(k, st, s) == FirstVisible(k, st, PropsOfType(k, s, "default"))
RangeProp(k, st, s) == FirstVisible(k, st, PropsOfType(k, s, "range"))

\* sym_calc_visibility: the prompts, then dir_dep and rev_dep
Prompts(k, st, s) ==
  LET See(vis, i, x) == <<[x[1] EXCEPT !.shown[i] = x[2]], OrV(vis, x[2])>>
  IN  FoldLeft(LAMBDA a, i : See(a[2], i, CalcExpr(k, a[1], k.props[i].vis)), <<st, 0>>,
               SelectSeq(PropsOf(k, s), LAMBDA i : k.props[i].text))
SetVisible(k, s, p) ==
  [p[1] EXCEPT !.vis[s] = IF p[2] = 1 /\ (k.ty[s] # "tristate" \/ p[1].mods = 0) THEN 2 ELSE p[2]]
SetDir(s, d) == [d[1] EXCEPT !.dir[s] = IF d[2] = 1 THEN 2 ELSE d[2]]
SetRev(k, s, r) ==
  [r[1] EXCEPT !.rev[s] = IF r[2] = 1 /\ TypeOf(k, r[1], s) = "boolean" THEN 2 ELSE r[2]]
Selects(k, st, s) == IF k.rev[s] = None THEN <<st, 0>> ELSE CalcExpr(k, st, k.rev[s])
Depends(k, st, s) ==
  IF s \in k.choicevals THEN st
  ELSE SetRev(k, s, Selects(k, SetDir(s, CalcExpr(k, st, k.dir[s])), s))
CalcVisibility(k, st, s) == Depends(k, SetVisible(k, s, Prompts(k, st, s)), s)

\* sym_choice_default: the first default that is visible itself, or else the
\* first visible value; "" if there is none.
FirstShown(k, c, d) ==
  LET shown == SelectSeq(ValuesOf(k, c), LAMBDA v : d[1].vis[v] # 0)
  IN  IF d[2] # "" \/ shown = << >> THEN d ELSE <<d[1], shown[1]>>
ChoiceDefault(k, st, c) ==
  LET Found(v, x) == <<x[1], IF x[2] # 0 /\ x[1].vis[v] # 0 THEN v ELSE "">>
      Try(a, p) == IF a[2] # "" THEN a ELSE Found(p.x.s, CalcExpr(k, a[1], p.vis))
  IN  FirstShown(k, c, FoldLeft(LAMBDA a, i : Try(a, k.props[i]), <<st, "">>,
                                PropsOfType(k, c, "default")))

\* sym_calc_choice: the flag of the choice stays when the user set all values
\* that can be seen.
AllSet(k, st, c) ==
  IF VisibleValues(k, st, c) \subseteq st.has.user THEN st ELSE [st EXCEPT !.has.user = @ \ {c}]

\* Mutant: the user's choice counts although it cannot be seen
UserChoice_keepsHidden(k, st, c) ==
  IF st.def.user[c].val # Null THEN <<st, st.def.user[c].val>> ELSE ChoiceDefault(k, st, c)

UserChoice(k, st, c) ==
  LET user == st.def.user[c].val
  IN  IF user # Null /\ st.vis[user] # 0 THEN <<st, user>> ELSE ChoiceDefault(k, st, c)
SetChoice(c, d) == [d[1] EXCEPT !.curr[c] = [val |-> d[2], tri |-> IF d[2] = "" THEN 0 ELSE @.tri]]
CalcChoice(k, st, c) ==
  SetChoice(c, UserChoice(k,
    AllSet(k, FoldLeft(LAMBDA a, v : CalcVisibility(k, a, v), st, ValuesOf(k, c)), c), c))

\* The number n, or the bound of the range of s that it passes: what
\* sym_validate_range and sym_string_within_range look for.
NumberAt(st, s) == <<st, NumOf(st.curr[s].val)>>
RangeVal(k, st, s) == NumberAt(Calc(k, st, s), s)
NotAbove(n, hi) == IF n > hi[2] THEN hi ELSE <<hi[1], n>>
Between(k, n, lo, hi) == IF n < lo[2] THEN lo ELSE NotAbove(n, RangeVal(k, lo[1], hi))
InRange(k, n, p) ==
  LET range == k.props[p[2]].x
  IN  IF p[2] = 0 THEN <<p[1], n>> ELSE Between(k, n, RangeVal(k, p[1], range.lo), range.hi)
Bounded(k, st, s, n) == InRange(k, n, RangeProp(k, st, s))

\* sym_validate_range: a number out of its range becomes the bound it passes.
SetNumber(k, s, n, r) == IF r[2] = n THEN r[1] ELSE [r[1] EXCEPT !.curr[s].val = NumText(k.ty[s], r[2])]
ValidateRange(k, st, s) ==
  LET n == NumOf(st.curr[s].val)
  IN  IF k.ty[s] \notin Numbers THEN st ELSE SetNumber(k, s, n, Bounded(k, st, s, n))

\* set_all_choice_values (confdata.c)
SetAllChoiceValues(k, st, c) ==
  LET new == ToSet(ValuesOf(k, c)) \ st.has.user
  IN  [st EXCEPT !.def.user = [s \in DOMAIN @ |-> IF s \in new THEN [@[s] EXCEPT !.tri = 0] ELSE @[s]],
                 !.has.user = @ \cup {c}, !.valid = @ \ {c}, !.need = @ \ {c}]

\* A new value: st, the value, whether a default gives it.
UserSets(st, s) == st.vis[s] # 0 /\ s \in st.has.user
TristateDefault(k, d) ==
  LET Limited(x) == <<x[1], AndV(x[2], d[3]), TRUE>>
  IN  IF d[2] = 0 THEN <<d[1], 0, FALSE>> ELSE Limited(CalcExpr(k, d[1], k.props[d[2]].x))
OwnTristate(k, st, s) ==
  CASE UserSets(st, s) -> <<st, AndV(st.def.user[s].tri, st.vis[s]), FALSE>>
    [] ~UserSets(st, s) /\ s \in k.choices -> <<st, 0, FALSE>>
    [] OTHER -> TristateDefault(k, DefaultProp(k, st, s))
SetTri(s, a, tri) == [a EXCEPT !.curr[s] = [val |-> "", tri |-> tri]]
SetOwn(k, s, r) ==
  LET tri == OrV(r[2], r[1].rev[s])
      a == IF r[1].vis[s] # 0 \/ r[1].rev[s] # 0 \/ r[3] THEN [r[1] EXCEPT !.write = @ \cup {s}] ELSE r[1]
  IN  SetTri(s, a, IF tri = 1 /\ TypeOf(k, a, s) = "boolean" THEN 2 ELSE tri)
NewTristate(k, st, s) ==
  IF s \in k.choicevals /\ st.vis[s] = 2
  THEN SetTri(s, st, IF st.curr[ChoiceOf(k, s)].val = s THEN 2 ELSE 0)
  ELSE SetOwn(k, s, OwnTristate(k, st, s))

StringOf(st, s) == <<st, st.curr[s].val, TRUE>>
StringDefaultOf(k, d) ==
  IF d[2] = 0 THEN <<d[1], "", FALSE>>
  ELSE StringOf(Calc(k, d[1], k.props[d[2]].x.s), k.props[d[2]].x.s)
SetText(s, r) ==
  [r[1] EXCEPT !.write = IF r[1].vis[s] # 0 \/ r[3] THEN @ \cup {s} ELSE @,
               !.curr[s] = [val |-> r[2], tri |-> 0]]
NewString(k, st, s) ==
  SetText(s, IF UserSets(st, s) THEN <<st, st.def.user[s].val, FALSE>>
             ELSE StringDefaultOf(k, DefaultProp(k, st, s)))

\* Mutant: a choice value that its choice turned on is not written
Settle_forgetsValues(k, st, s) ==
  LET settled == [st EXCEPT !.mods = IF s = k.modules THEN st.curr[s].tri ELSE @,
                            !.write = IF s \in k.auto THEN @ \ {s} ELSE @]
  IN  IF s \in st.need THEN SetAllChoiceValues(k, settled, s) ELSE settled

\* After a value was calculated: modules, the values of a choice, flags.
Settle(k, st, s) ==
  LET shown == IF s \in k.choices \cap st.write THEN VisibleValues(k, st, s) ELSE {}
      auto == IF s \in k.auto THEN {s} ELSE {}
      settled == [st EXCEPT !.mods = IF s = k.modules THEN st.curr[s].tri ELSE @,
                            !.write = (@ \cup shown) \ auto]
  IN  IF s \in st.need THEN SetAllChoiceValues(k, settled, s) ELSE settled

\* sym_calc_value: first the choice of a value that may have to be set with all
\* others, then the visibility, the value, the choice and the range.
Asked(k, st, s) ==
  IF s \in k.choicevals /\ s \in st.need
  THEN Calc(k, [st EXCEPT !.need = @ \ {s}], ChoiceOf(k, s)) ELSE st
Marked(k, st, s) ==
  [st EXCEPT !.valid = @ \cup {s}, !.write = IF s \in k.choicevals THEN @ ELSE @ \ {s}]
Seen(k, st, s) == [CalcVisibility(k, Marked(k, Asked(k, st, s), s), s) EXCEPT !.curr[s] = Zero]
NewValue(k, st, s) == IF k.ty[s] \in Tristates THEN NewTristate(k, st, s) ELSE NewString(k, st, s)
OfChoice(k, st, s) == IF s \in k.choices /\ st.curr[s].tri = 2 THEN CalcChoice(k, st, s) ELSE st
Calc(k, st, s) ==
  CASE s \in st.valid -> st
    [] s \notin st.valid /\ k.ty[s] \in Tristates \cup Strings ->
         Settle(k, ValidateRange(k, OfChoice(k, NewValue(k, Seen(k, st, s), s), s), s), s)
    [] OTHER -> [st EXCEPT !.valid = @ \cup {s}, !.curr[s] = [val |-> s, tri |-> 0]]

----------------------------------------------------------------------------
(* Changes *)

\* Mutant: the cached values stay
ClearAllValid_keepsCache(k, st) == Calc(k, [st EXCEPT !.changed = TRUE], k.modules)

\* sym_clear_all_valid
ClearAllValid(k, st) == Calc(k, [st EXCEPT !.valid = Builtin, !.changed = TRUE], k.modules)

\* Mutant: a symbol can be set below what selects it
TristateWithinRange_forgetsSelect(k, st, s, v) ==
  /\ st.vis[s] # 0
  /\ k.ty[s] \in Tristates
  /\ ~(TypeOf(k, st, s) = "boolean" /\ v = 1)
  /\ IF s \in k.choicevals /\ st.vis[s] = 2 THEN v = 2 ELSE v \in 0..st.vis[s]

\* sym_tristate_within_range
TristateWithinRange(k, st, s, v) ==
  /\ st.vis[s] # 0
  /\ k.ty[s] \in Tristates
  /\ ~(TypeOf(k, st, s) = "boolean" /\ v = 1)
  /\ st.vis[s] > st.rev[s]
  /\ IF s \in k.choicevals /\ st.vis[s] = 2 THEN v = 2 ELSE v \in st.rev[s]..st.vis[s]

\* What the user set: a choice value that is y with its choice and all its
\* visible values.
UserTristate(k, st, s, v) ==
  LET c == ChoiceOf(k, s)
      st1 == [st EXCEPT !.has.user = @ \cup {s}, !.def.user[s].tri = v]
  IN  IF s \notin k.choicevals \/ v # 2 THEN st1
      ELSE [st1 EXCEPT !.def.user[c].val = s, !.has.user = @ \cup {c} \cup VisibleValues(k, st1, c)]

\* Mutant: a value that is set to what it is does not count as set
SetTristate_forgetsSame(k, st, s, v) ==
  IF st.curr[s].tri = v THEN <<st, TRUE>>
  ELSE IF ~TristateWithinRange(k, st, s, v) THEN <<st, FALSE>>
  ELSE <<ClearAllValid(k, UserTristate(k, st, s, v)), TRUE>>

\* sym_set_tristate_value
SetTristate(k, st, s, v) ==
  CASE st.curr[s].tri = v -> <<UserTristate(k, st, s, v), TRUE>>
    [] st.curr[s].tri # v /\ ~TristateWithinRange(k, st, s, v) -> <<st, FALSE>>
    [] OTHER -> <<ClearAllValid(k, UserTristate(k, st, s, v)), TRUE>>

\* sym_toggle_tristate_value: the next value, from n over m to y, that the
\* symbol can take; at the latest the one it has.
Toggle(k, st, s) ==
  LET Can(v) == v = st.curr[s].tri \/ TristateWithinRange(k, st, s, v)
      Next(i) == (st.curr[s].tri + i) % 3
      i == CHOOSE j \in 1..3 : Can(Next(j)) /\ \A h \in 1..(j - 1) : ~Can(Next(h))
  IN  SetTristate(k, st, s, Next(i))[1]

\* sym_string_valid, for the strings that occur
Letters == [y |-> 2, Y |-> 2, m |-> 1, M |-> 1, n |-> 0, N |-> 0]
Digits == {ToString(n) : n \in 0..99}
StringValid(type, x) ==
  CASE type = "string" -> TRUE
    [] type = "int" -> x \in Digits
    [] type = "hex" -> x \in Digits \cup {"0x" \o d : d \in Digits}
    [] type \in Tristates -> x \in DOMAIN Letters
    [] OTHER -> FALSE

\* sym_string_within_range
IsNumber(n, r) == <<r[1], r[2] = n>>
StringWithinRange(k, st, s, x) ==
  CASE k.ty[s] \in Numbers /\ StringValid(k.ty[s], x) -> IsNumber(NumOf(x), Bounded(k, st, s, NumOf(x)))
    [] k.ty[s] \in Tristates -> <<st, x \in DOMAIN Letters /\ TristateWithinRange(k, st, s, Letters[x])>>
    [] OTHER -> <<st, k.ty[s] = "string">>

\* sym_set_string_value; w is whether the value is within the range.
SetUserText(k, s, x, w) ==
  LET st == [w[1] EXCEPT !.has.user = @ \cup {s}]
      bare == k.ty[s] = "hex" /\ x \in Digits
  IN  CASE ~w[2] -> <<w[1], FALSE>>
        [] w[2] /\ ~bare /\ st.def.user[s].val = x -> <<st, TRUE>>
        [] OTHER -> <<ClearAllValid(k, [st EXCEPT !.def.user[s].val = IF bare THEN "0x" \o x ELSE x]), TRUE>>
SetString(k, st, s, x) ==
  IF k.ty[s] \notin Tristates THEN SetUserText(k, s, x, StringWithinRange(k, st, s, x))
  ELSE IF x \in DOMAIN Letters THEN SetTristate(k, st, s, Letters[x]) ELSE <<st, FALSE>>

\* sym_get_string_default: the value without what the user set
DefaultValue(k, d, s) ==
  IF k.ty[s] \in Tristates THEN TristateDefault(k, d) ELSE StringDefaultOf(k, d)

\* Mutant: a select is no default
DefaultText_forgetsSelect(k, s, r) ==
  <<r[1], IF k.ty[s] \notin Tristates THEN r[2] ELSE IF r[2] = 0 THEN "n" ELSE "y">>

DefaultText(k, s, r) ==
  LET tri == OrV(r[2], r[1].rev[s])
      noMod == (s \notin k.choicevals /\ r[1].curr[k.modules].tri = 0) \/ k.ty[s] = "boolean"
  IN  <<r[1], CASE k.ty[s] \notin Tristates -> r[2]
                [] k.ty[s] \in Tristates /\ tri = 1 /\ ~noMod -> "m"
                [] OTHER -> IF tri = 0 THEN "n" ELSE "y">>
StringDefault(k, st, s) ==
  DefaultText(k, s,
    DefaultValue(k, DefaultProp(k, Calc(k, CalcVisibility(k, st, s), k.modules), s), s))

\* sym_is_changable
Changable(st, s) == st.vis[s] > st.rev[s]

----------------------------------------------------------------------------
(***************************************************************************)
(* sym_check_deps: w.on and w.done are the symbols with SYMBOL_CHECK and   *)
(* SYMBOL_CHECKED, w.stack the symbols being checked (dep_stack), w.loops  *)
(* the recursive dependencies that were reported; the second of the pair   *)
(* is the symbol at which one that was just found closes, "" if there is   *)
(* none to unwind.                                                         *)
(***************************************************************************)
Push(w, s) == [w EXCEPT !.stack = Append(@, s)]
Pop(r) == <<[r[1] EXCEPT !.stack = Front(@)], r[2]>>

\* sym_check_print_recursive: the symbols of the message, each of which needs
\* the next, and the last the first; none for the "unexpected" error.
Loop(k, w, last) ==
  LET stack == IF last \in k.choicevals THEN Append(w.stack, last) ELSE w.stack
      first == IF last \in k.choicevals THEN ChoiceOf(k, last) ELSE last
      found == {i \in DOMAIN stack : stack[i] = first}
  IN  IF found = {} THEN << >> ELSE SubSeq(stack, Max(found), Len(stack))

RECURSIVE ExprSyms(_), CheckDeps(_, _, _)

\* sym_check_expr_deps looks at the symbols of an expression from left to right.
ExprSyms(e) ==
  CASE e = None -> << >>
    [] e.t \in {"and", "or"} -> ExprSyms(e.l) \o ExprSyms(e.r)
    [] e.t = "not" -> ExprSyms(e.l)
    [] e.t \in {"sym", "eq", "ne"} -> Operands(e)

\* What s needs directly besides its selects: the conditions of its properties
\* and its defaults.
PropSyms(k, s, p) ==
  IF p.type \in {"choice", "select"} THEN << >>
  ELSE ExprSyms(p.vis) \o (IF p.type = "default" /\ s \notin k.choices THEN ExprSyms(p.x) ELSE << >>)
OwnSyms(k, s) == FlattenSeq([i \in DOMAIN PropsOf(k, s) |-> PropSyms(k, s, k.props[PropsOf(k, s)[i]])])

\* Nothing more is checked after a loop was found.
CheckAll(k, w, syms) ==
  FoldLeft(LAMBDA a, s : IF a[2] # "" THEN a ELSE CheckDeps(k, a[1], s), <<w, "">>, syms)

\* sym_check_sym_deps
CheckSymDeps(k, w, s) ==
  Pop(CheckAll(k, Push(w, s), (IF s \in DOMAIN k.rev THEN ExprSyms(k.rev[s]) ELSE << >>) \o OwnSyms(k, s)))

\* Mutant: SYMBOL_CHECK stays
Checked_staysOn(r, syms) == r

\* SYMBOL_CHECK of some symbols is set and taken back; a loop that closes at
\* the symbol needs no more unwinding.
Checking(w, syms) == [w EXCEPT !.on = @ \cup syms, !.done = @ \cup syms]
Checked(r, syms) == <<[r[1] EXCEPT !.on = @ \ syms], r[2]>>
Unwound(r, s) == <<r[1], IF r[2] = s THEN "" ELSE r[2]>>

\* sym_check_choice_deps: the choice, then its values
Closes(r, c, values) == <<r[1], IF r[2] \in values THEN c ELSE r[2]>>
CheckValues(k, r, c) ==
  FoldLeft(LAMBDA a, v : IF a[2] # "" THEN a ELSE CheckSymDeps(k, a[1], v), r, ValuesOf(k, c))
CheckChoiceDeps(k, w, c, values) ==
  Closes(Checked(Pop(CheckValues(k, Checked(CheckSymDeps(k, Checking(Push(w, c), values \cup {c}), c), {c}), c)),
                 values), c, values)

\* sym_check_deps
CheckDeps(k, w, s) ==
  CASE s \in w.on -> <<[w EXCEPT !.loops = @ \cup {Loop(k, w, s)}], s>>
    [] s \in w.done \ w.on -> <<w, "">>
    [] OTHER ->
         Unwound(CASE s \in k.choicevals -> Pop(CheckDeps(k, Push(w, s), ChoiceOf(k, s)))
                   [] s \in k.choices -> CheckChoiceDeps(k, w, s, ToSet(ValuesOf(k, s)))
                   [] OTHER -> Checked(CheckSymDeps(k, Checking(w, {s}), s), {s}), s)

\* conf_parse checks every symbol.
ReportedLoops(k) ==
  LET w0 == [on |-> {}, done |-> {}, stack |-> << >>, loops |-> {}]
  IN  FoldLeft(LAMBDA w, s : CheckDeps(k, w, s)[1], w0, k.symbols).loops
============================================================================
