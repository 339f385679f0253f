---------------------------- MODULE KconfigData ----------------------------
(***************************************************************************)
(* support/kconfig/confdata.c: the files of a configuration, and the modes *)
(* that give all symbols a value.                                          *)
(*                                                                         *)
(* A file is a sequence of lines [sym, val]; val "unset" is the line       *)
(* "# sym is not set".  st has two more fields here:                       *)
(*   warned, unsaved   whether conf_warnings and conf_unsaved are not 0    *)
(***************************************************************************)
EXTENDS KconfigSymbol

Line(s, x) == [sym |-> s, val |-> x]

\* The entries below m, each before its own entries.
RECURSIVE Entries(_, _)
Entries(k, m) == FoldLeft(LAMBDA es, c : es \o <<c>> \o Entries(k, c), << >>, k.menus[m].kids)

\* menu_is_visible (menu.c): what it calculates, and the answer.  A symbol that
\* is set and cannot be seen itself is when an entry below it can.
RECURSIVE MenuVisible(_, _, _)
ShownAs(a, i) == <<a, a.shown[i]>>
OwnVisible(k, st, m) ==
  IF k.menus[m].sym = NoSym THEN CalcExpr(k, st, Vis(k, m))
  ELSE ShownAs(Calc(k, st, k.menus[m].sym), k.menus[m].prompt)
KidVisible(k, st, m) ==
  FoldLeft(LAMBDA a, c : IF a[2] THEN a ELSE MenuVisible(k, a[1], c), <<st, FALSE>>, k.menus[m].kids)
ByKids(s, kids) == IF kids[2] THEN <<[kids[1] EXCEPT !.has.user = @ \cup {s}], TRUE>> ELSE kids
OwnOrKids(k, own, m) ==
  LET s == k.menus[m].sym
  IN  CASE own[2] # 0 -> <<own[1], TRUE>>
        [] own[2] = 0 /\ (s = NoSym \/ own[1].curr[s].tri = 0) -> <<own[1], FALSE>>
        [] OTHER -> ByKids(s, KidVisible(k, own[1], m))
Within(k, v, m) == IF v[2] = 0 THEN <<v[1], FALSE>> ELSE OwnOrKids(k, OwnVisible(k, v[1], m), m)
MenuVisible(k, st, m) ==
  IF k.menus[m].prompt = 0 THEN <<st, FALSE>> ELSE Within(k, CalcExpr(k, st, k.menus[m].visibility), m)

----------------------------------------------------------------------------
(* Reading *)

\* What the line of a choice value does to its choice.
ChoiceLine(k, st, s, def) ==
  LET c == ChoiceOf(k, s)
      new == st.def[def][s].tri
      old == st.def[def][c].tri
  IN  [st EXCEPT !.def[def][c] = [val |-> IF new = 2 THEN s ELSE @.val, tri |-> OrV(old, new)],
                 !.has[def] = IF new = 1 /\ old = 2 THEN @ \ {c} ELSE @,
                 !.warned = @ \/ (new = 1 /\ old = 2) \/ (new = 2 /\ old # 0)]

\* conf_set_sym_val, of a value the type allows
SetSymVal(k, st, s, x, def) ==
  IF k.ty[s] \in Tristates
  THEN [st EXCEPT !.def[def][s].tri = Tri(x), !.has[def] = @ \cup {s}]
  ELSE [st EXCEPT !.def[def][s].val = x, !.has[def] = @ \cup {s}]

Accepts(type, x) ==
  CASE type = "boolean" -> x \in {"y", "n"}
    [] type = "tristate" -> x \in {"y", "m", "n"}
    [] OTHER -> StringValid(type, x)

\* One line of a file.  A line of auto.conf gives a symbol that is not defined
\* its old value, and a type that nothing asks for any more.
ReadLine(k, st, line, def) ==
  LET s == line.sym
      x == IF line.val = "unset" THEN "n" ELSE line.val
      again == [st EXCEPT !.warned = @ \/ s \in st.has[def]]
      Choice(a) == IF s \in k.choicevals THEN ChoiceLine(k, a, s, def) ELSE a
      Defined == s \in DOMAIN k.ty /\ k.ty[s] # "unknown"
  IN  CASE ~Defined /\ def = "auto" -> [st EXCEPT !.has.auto = @ \cup {s}]
        [] ~Defined /\ def = "user" -> [st EXCEPT !.changed = @ \/ s \notin DOMAIN k.ty]
        [] OTHER ->
             IF line.val = "unset" /\ k.ty[s] \in Strings THEN again
             ELSE IF ~Accepts(k.ty[s], x) THEN [again EXCEPT !.warned = @ \/ def = "user"]
             ELSE Choice(SetSymVal(k, again, s, x, def))

\* conf_read_simple of a file that can be opened
ReadSimple(k, st, lines, def) ==
  LET st1 == [st EXCEPT !.warned = FALSE, !.unsaved = FALSE, !.valid = Builtin,
                        !.has[def] = k.choices, !.def[def] = [s \in DOMAIN k.ty |-> NoDef]]
  IN  Calc(k, FoldLeft(LAMBDA a, line : ReadLine(k, a, line, def), st1, lines), k.modules)

\* conf_read_simple(NULL) when there is no configuration
ReadNothing(k, st) == Calc(k, [st EXCEPT !.changed = TRUE], k.modules)

Saved(k, st, s) ==
  IF s \in st.has.user /\ s \in st.write
  THEN IF k.ty[s] \in Tristates THEN st.def.user[s].tri = st.curr[s].tri
       ELSE st.def.user[s].val = st.curr[s].val
  ELSE s \notin st.has.user /\ s \notin st.write

\* The second loop of conf_read: values of symbols that cannot be seen, unless
\* something else has to be saved, and numbers out of their range.
Unseen(st, s) == IF st.vis[s] = 0 /\ ~st.unsaved THEN [st EXCEPT !.has.user = @ \ {s}] ELSE st
DropOutside(s, w) ==
  IF w[2] THEN w[1] ELSE [w[1] EXCEPT !.valid = @ \ {s}, !.has.user = @ \ {s}, !.unsaved = TRUE]
DropUseless(k, st, s) ==
  CASE s \notin st.has.user \/ s \in k.choicevals -> st
    [] s \in st.has.user \ k.choicevals /\ k.ty[s] \notin Strings -> Unseen(st, s)
    [] OTHER -> DropOutside(s, StringWithinRange(k, Unseen(st, s), s, st.def.user[s].val))

\* conf_read of a file that can be opened
Compare(k, st, s) == [st EXCEPT !.unsaved = @ \/ (s \notin k.choices \cup k.auto /\ ~Saved(k, st, s))]
CompareAll(k, st) == FoldLeft(LAMBDA a, s : Compare(k, Calc(k, a, s), s), st, k.symbols)
DropAll(k, st) == FoldLeft(LAMBDA a, s : DropUseless(k, a, s), st, k.symbols)
Conclude(st) == [st EXCEPT !.changed = @ \/ st.warned \/ st.unsaved]
ConfRead(k, st, lines) ==
  Conclude(DropAll(k, CompareAll(k, ReadSimple(k, [st EXCEPT !.changed = FALSE], lines, "user"))))

----------------------------------------------------------------------------
(* Writing.  The operators return st and the lines; x is what              *)
(* sym_get_string_value gives.                                             *)

\* Mutant: a symbol that is n is left out
SymbolLine_skipsUnset(k, s, x) ==
  <<x[1], IF k.ty[s] \in Tristates /\ x[2] = "n" THEN << >> ELSE <<Line(s, x[2])>>>>

\* kconfig_print_symbol
SymbolLine(k, s, x) ==
  <<x[1], <<Line(s, IF k.ty[s] \in Tristates /\ x[2] = "n" THEN "unset" ELSE x[2])>>>>

\* conf_write_symbol, behind the lines there are: a symbol without a type is
\* never written.
After(lines, p) == <<p[1], lines \o p[2]>>
PrintSymbol(k, st, s, lines) ==
  IF k.ty[s] \notin Tristates \cup Strings THEN <<st, lines>>
  ELSE After(lines, SymbolLine(k, s, StringValue(k, st, s)))

\* conf_write, up to the file
Unmarked(st, s) == [st EXCEPT !.write = @ \ {s}]
Entry(k, st, s, lines) ==
  IF s \in st.write THEN PrintSymbol(k, Unmarked(st, s), s, lines) ELSE <<st, lines>>
MenuComment(k, a, m) == <<MenuVisible(k, a[1], m)[1], a[2]>>
WriteEntry(k, a, m, s) ==
  CASE s = NoSym -> MenuComment(k, a, m)
    [] s # NoSym /\ s \in k.choices -> a
    [] OTHER -> Entry(k, Calc(k, a[1], s), s, a[2])
WriteAll(k, st) ==
  FoldLeft(LAMBDA a, m : WriteEntry(k, a, m, k.menus[m].sym), <<st, << >>>>, Entries(k, 1))
ConfWrite(k, st) == WriteAll(k, IF st.changed THEN st ELSE ClearAllValid(k, st))

\* conf_write_defconfig leaves out a value that a fresh calculation gives: d is
\* the default of s, c the one of its choice.
SoleDefault(k, s, c) ==
  <<c[1], s = c[2] /\ ChoiceOf(k, s) \notin k.optional /\ k.ty[s] = "boolean" /\ c[1].curr[s].tri = 2>>
AgainstDefault(k, s, x, d) ==
  CASE x[2] = d[2] -> <<d[1], TRUE>>
    [] x[2] # d[2] /\ s \notin k.choicevals -> <<d[1], FALSE>>
    [] OTHER -> SoleDefault(k, s, ChoiceDefault(k, d[1], ChoiceOf(k, s)))
Redundant(k, s, x) == AgainstDefault(k, s, x, StringDefault(k, x[1], s))

\* conf_write_defconfig
Needful(k, r, s, lines) == IF r[2] THEN <<r[1], lines>> ELSE PrintSymbol(k, r[1], s, lines)
DefSymbol(k, st, s, lines) ==
  CASE s \notin st.write -> <<st, lines>>
    [] s \in st.write /\ ~Changable(st, s) -> <<Unmarked(st, s), lines>>
    [] OTHER -> Needful(k, Redundant(k, s, StringValue(k, Unmarked(st, s), s)), s, lines)
DefEntry(k, a, m, s) ==
  CASE s = NoSym -> MenuComment(k, a, m)
    [] s # NoSym /\ s \in k.choices -> a
    [] OTHER -> DefSymbol(k, Calc(k, a[1], s), s, a[2])
WriteDefconfig(k, st) ==
  FoldLeft(LAMBDA a, m : DefEntry(k, a, m, k.menus[m].sym), <<ClearAllValid(k, st), << >>>>, Entries(k, 1))

\* Mutant: a value that is gone is no change
Touches_onlyWritten(k, st, s) ==
  /\ s \in st.write
  /\ IF s \in st.has.auto
     THEN IF k.ty[s] \in Tristates THEN st.curr[s].tri # st.def.auto[s].tri
          ELSE st.curr[s].val # st.def.auto[s].val
     ELSE k.ty[s] \notin Tristates \/ st.curr[s].tri # 0

\* conf_split_config touches the file of a symbol when its value is not the one
\* of the last auto.conf.
Touches(k, st, s) ==
  IF s \in st.write
  THEN IF s \in st.has.auto
       THEN IF k.ty[s] \in Tristates THEN st.curr[s].tri # st.def.auto[s].tri
            ELSE st.curr[s].val # st.def.auto[s].val
       ELSE k.ty[s] \notin Tristates \/ st.curr[s].tri # 0
  ELSE s \in st.has.auto

\* conf_split_config; old is << >> if there is no auto.conf yet, and then
\* conf_read_simple fails and leaves the symbols as they are.
SplitSymbol(k, st, s, syms) ==
  <<st, IF s \notin k.choices \cup k.auto /\ Touches(k, st, s) THEN syms \cup {s} ELSE syms>>
SplitAll(k, st) ==
  FoldLeft(LAMBDA a, s : SplitSymbol(k, Calc(k, a[1], s), s, a[2]), <<st, {}>>, k.symbols)
SplitGone(k, r) == <<r[1], r[2] \cup (r[1].has.auto \ DOMAIN k.ty)>>
SplitConfig(k, st, old) ==
  SplitGone(k, SplitAll(k, IF old = << >> THEN st ELSE ReadSimple(k, st, old[1], "auto")))

\* The lines of auto.conf
AutoSymbol(k, st, s, lines) ==
  IF s \in st.write \ k.choices THEN PrintSymbol(k, st, s, lines) ELSE <<st, lines>>
AutoLines(k, st) ==
  SelectSeq(FoldLeft(LAMBDA a, s : AutoSymbol(k, Calc(k, a[1], s), s, a[2]), <<st, << >>>>, k.symbols)[2],
            LAMBDA line : line.val # "unset")

\* header_print_symbol: the #define of autoconf.h for a line of auto.conf
HeaderLine(type, line) ==
  CASE type \in Tristates -> IF line.val = "m" THEN Line(line.sym \o "_MODULE", "1") ELSE Line(line.sym, "1")
    [] type = "hex" /\ line.val \in Digits \cup {""} -> Line(line.sym, "0x" \o line.val)
    [] OTHER -> line
HeaderLines(k, lines) == [i \in DOMAIN lines |-> HeaderLine(k.ty[lines[i].sym], lines[i])]

\* tristate_print_symbol: the line of tristate.conf
Capital == [y |-> "Y", m |-> "M"]
TristateLines(k, lines) ==
  LET own == SelectSeq(lines, LAMBDA line : k.ty[line.sym] = "tristate")
  IN  [i \in DOMAIN own |-> Line(own[i].sym, Capital[own[i].val])]

----------------------------------------------------------------------------
(* allyesconfig, allnoconfig, allmodconfig, alldefconfig, randconfig *)

\* randomize_choice_values; the pick of every choice is the value number n.
RandomizeChoice(k, st, c, n) ==
  LET values == ValuesOf(k, c)
      one == values[(n % Len(values)) + 1]
      def(s) == IF s \in ToSet(values) THEN IF s = one THEN 2 ELSE 0 ELSE st.def.user[s].tri
  IN  IF st.curr[c].tri # 2 THEN <<st, FALSE>>
      ELSE <<[st EXCEPT !.def.user = [s \in DOMAIN @ |->
                           [val |-> IF s = c THEN one ELSE @[s].val, tri |-> def(s)]],
                       !.has.user = @ \cup ToSet(values) \cup {c},
                       !.valid = @ \ (ToSet(values) \cup {c})],
             TRUE>>

\* conf_set_all_new_symbols; pick is what rand() gives: the value of every new
\* symbol, as far as its type allows, and the number of the choice value.  The
\* second of the pair is what it returns, has_changed.
Fixed == [yes |-> 2, mod |-> 1, no |-> 0]
NewSymbols(k, st) == {s \in DOMAIN k.ty : s \notin st.has.user \cup st.valid /\ k.ty[s] \in Tristates}
NewTri(k, s, mode, pick) ==
  CASE mode # "random" -> Fixed[mode]
    [] mode = "random" /\ k.ty[s] = "boolean" -> IF pick = 1 THEN 2 ELSE pick
    [] OTHER -> pick
GiveAll(k, st, new, mode, pick) ==
  IF mode = "default" THEN st
  ELSE [st EXCEPT !.has.user = @ \cup (IF mode = "random" THEN new \ k.choices ELSE new),
                  !.def.user = [s \in DOMAIN @ |->
                    IF s \in new THEN [@[s] EXCEPT !.tri = NewTri(k, s, mode, pick)] ELSE @[s]]]
NeedValues(k, st, mode) ==
  IF mode = "random" THEN st
  ELSE [st EXCEPT !.need = @ \cup k.choicevals \cup (k.choices \ st.has.user)]
NewChoice(k, st, c, mode, pick) ==
  IF mode = "random" THEN RandomizeChoice(k, st, c, pick) ELSE <<SetAllChoiceValues(k, st, c), TRUE>>
NewChoices(k, st, changed, mode, pick) ==
  FoldLeft(LAMBDA a, c : IF c \in a[1].has.user \/ c \notin k.choices THEN a
                         ELSE NewChoice(k, Calc(k, a[1], c), c, mode, pick),
           <<st, changed>>, k.symbols)
AllNew(k, st, mode, pick) ==
  LET new == NewSymbols(k, st)
  IN  NewChoices(k, NeedValues(k, ClearAllValid(k, GiveAll(k, st, new, mode, pick)), mode), new # {}, mode, pick)
============================================================================
