---------------------------- MODULE KconfigMenu ----------------------------
(***************************************************************************)
(* support/kconfig/menu.c: from the statements of the Kconfig files to the *)
(* menu tree with the complete dependencies of every entry.                *)
(*                                                                         *)
(* k is the state of the parser:                                           *)
(*   menus   the entries; 1 is rootmenu.  sym is the symbol ("" if none),  *)
(*           prompt the number of its property (0 if none), kids the list; *)
(*           next and parent are the places in the lists of kids           *)
(*   props   all properties; those of a symbol are, in order, the ones     *)
(*           that carry its name                                           *)
(*   ty      the types;  symbols  the symbols that are no constants, in    *)
(*           the order of for_all_symbols                                  *)
(*   choices, choicevals, optional, auto   the symbols with these flags    *)
(*   dir, rev  dir_dep and rev_dep of the symbols                          *)
(*   entry, menu  current_entry and current_menu                           *)
(***************************************************************************)
EXTENDS KconfigExpr, SequencesExt, TLC

NoSym == ""
NewMenu(s) == [sym |-> s, prompt |-> 0, dep |-> None, visibility |-> None, kids |-> << >>]

\* _menu_init, and the prompt conf_parse gives to rootmenu
MenuInit(consts) ==
  [menus |-> <<[NewMenu(NoSym) EXCEPT !.prompt = 1]>>,
   props |-> <<[sym |-> NoSym, type |-> "menu", text |-> TRUE, vis |-> None, x |-> None, menu |-> 1]>>,
   ty |-> [c \in consts |-> "const"], symbols |-> << >>,
   choices |-> {}, choicevals |-> {}, optional |-> {}, auto |-> {},
   dir |-> << >>, rev |-> << >>, modules |-> "n", entry |-> 1, menu |-> 1]

Parent(k, m) == CHOOSE p \in 1..Len(k.menus) : \E i \in DOMAIN k.menus[p].kids : k.menus[p].kids[i] = m
PropsOf(k, s) == SelectSeq([i \in DOMAIN k.props |-> i], LAMBDA i : k.props[i].sym = s)
PropsOfType(k, s, type) ==
  SelectSeq([i \in DOMAIN k.props |-> i], LAMBDA i : k.props[i].sym = s /\ k.props[i].type = type)
FirstOfType(k, s, type) ==
  LET Is(i) == k.props[i].sym = s /\ k.props[i].type = type
  IN  CHOOSE i \in DOMAIN k.props : Is(i) /\ \A j \in 1..(i - 1) : ~Is(j)

\* sym_lookup of a name that may be new
Lookup(k, s) ==
  IF s \in DOMAIN k.ty THEN k
  ELSE [k EXCEPT !.symbols = Append(@, s), !.ty = @ @@ (s :> "unknown"),
                 !.dir = @ @@ (s :> None), !.rev = @ @@ (s :> None)]

\* menu_check_dep: 'm' becomes 'm' && MODULES
RECURSIVE CheckDep(_, _)
CheckDep(k, e) ==
  CASE e.t = "not" -> NotE(CheckDep(k, e.l))
    [] e.t \in {"and", "or"} -> TwoE(e.t, CheckDep(k, e.l), CheckDep(k, e.r))
    [] e = SymE("m") -> AllocAnd(e, SymE(k.modules))
    [] OTHER -> e

\* The visibility expressions of the menus above m, from the inside out.
RECURSIVE Upper(_, _, _)
Upper(k, m, vis) ==
  IF m = 1 THEN vis
  ELSE LET p == Parent(k, m) IN Upper(k, p, AllocAnd(vis, k.menus[p].visibility))

\* menu_add_prop, and prop_alloc, for the current entry
AddProp(k, type, text, x, cond) ==
  LET Inside(vis) == IF text /\ type = "prompt" THEN Upper(k, k.entry, vis) ELSE vis
      prop == [sym |-> k.menus[k.entry].sym, type |-> type, text |-> text,
               vis |-> Inside(CheckDep(k, cond)), x |-> x, menu |-> k.entry]
  IN  [k EXCEPT !.props = Append(@, prop),
                !.menus[k.entry].prompt = IF text THEN Len(k.props) + 1 ELSE @]

\* menu_add_entry
NewEntry(k, s) ==
  LET m == Len(k.menus) + 1
  IN  [k EXCEPT !.menus = Append([@ EXCEPT ![k.menu].kids = Append(@, m)], NewMenu(s)),
                !.entry = m]
AddEntry(k, s) ==
  IF s = NoSym THEN NewEntry(k, s)
  ELSE AddProp(Lookup(NewEntry(k, s), s), "symbol", FALSE, SymE(s), None)

\* menu_add_menu, menu_end_menu
AddMenu(k) == [k EXCEPT !.menu = k.entry]
EndMenu(k) == [k EXCEPT !.menu = Parent(k, k.menu)]

AddDep(k, e) == [k EXCEPT !.menus[k.entry].dep = AllocAnd(@, CheckDep(k, e))]
AddVisibility(k, e) == [k EXCEPT !.menus[k.entry].visibility = AllocAnd(@, e)]

\* menu_set_type: the first type of a symbol stays
SetType(k, m, type) ==
  LET s == k.menus[m].sym
  IN  IF k.ty[s] = "unknown" THEN [k EXCEPT !.ty[s] = type] ELSE k

(***************************************************************************)
(* The statements, as the actions of zconf.y apply them.                   *)
(***************************************************************************)
Statement(k, st) ==
  CASE st.do = "config" ->
         [AddEntry(k, st.sym) EXCEPT !.optional = @ \cup {st.sym}]
    [] st.do = "choice" ->
         [AddProp(AddEntry(k, st.sym), "choice", FALSE, [t |-> "list", syms |-> << >>], None)
            EXCEPT !.choices = @ \cup {st.sym}, !.auto = @ \cup {st.sym}]
    [] st.do = "type" -> SetType(k, k.entry, st.type)
    [] st.do = "prompt" -> AddProp(k, "prompt", TRUE, None, st.if)
    [] st.do = "menuconfig" -> [k EXCEPT !.props[k.menus[k.entry].prompt].type = "menu"]
    [] st.do = "default" -> AddProp(k, "default", FALSE, st.x, st.if)
    [] st.do = "select" -> AddProp(Lookup(k, st.sym), "select", FALSE, SymE(st.sym), st.if)
    [] st.do = "range" ->
         AddProp(k, "range", FALSE, [t |-> "range", lo |-> st.lo, hi |-> st.hi], st.if)
    [] st.do = "optional" -> [k EXCEPT !.optional = @ \cup {k.menus[k.entry].sym}]
    [] st.do = "modules" -> [k EXCEPT !.modules = k.menus[k.entry].sym]
    [] st.do = "depends" -> AddDep(k, st.if)
    [] st.do = "visible" -> AddVisibility(k, st.if)
    [] st.do = "menu" -> AddProp(AddEntry(k, NoSym), "menu", TRUE, None, None)
    [] st.do = "comment" -> AddProp(AddEntry(k, NoSym), "comment", TRUE, None, None)
    [] st.do = "if" -> AddMenu(AddDep(AddEntry(k, NoSym), st.if))
    [] st.do = "begin" -> AddMenu(k)   \* after the options of a menu or a choice
    [] st.do = "end" -> EndMenu(k)

----------------------------------------------------------------------------
(* menu_finalize *)

IsChoice(k, s) == s \in k.choices
IsChoiceValue(k, s) == s \in k.choicevals
OwnChoiceProp(k, s) == FirstOfType(k, s, "choice")
Vis(k, m) == k.props[k.menus[m].prompt].vis

\* A choice without a type takes the one of its first typed value, and gives
\* its type to the values without one.
ChoiceTypes(k, p) ==
  LET c == k.menus[p].sym
      kids == SelectSeq(k.menus[p].kids, LAMBDA m : k.menus[m].sym # NoSym)
      typed == SelectSeq(kids, LAMBDA m : k.ty[k.menus[m].sym] # "unknown")
      k1 == IF typed = << >> THEN k ELSE SetType(k, p, k.ty[k.menus[typed[1]].sym])
  IN  FoldLeft(LAMBDA kk, m : SetType(kk, m, kk.ty[c]), k1, kids)

\* Mutant: a select is not limited by its own condition
PropVis_plainSelect(k, m, i, vis) ==
  LET k1 == [k EXCEPT !.props[i].vis = vis]
  IN  IF k.props[i].type # "select" THEN k1
      ELSE [k1 EXCEPT !.rev[k.props[i].x.s] = AllocOr(@, SymE(k.menus[m].sym))]

\* Property i of entry m gets its visibility, and what it selects the reverse
\* dependency.
PropVis(k, m, i, vis) ==
  LET k1 == [k EXCEPT !.props[i].vis = vis]
  IN  IF k.props[i].type # "select" THEN k1
      ELSE [k1 EXCEPT !.rev[k.props[i].x.s] = AllocOr(@, AllocAnd(SymE(k.menus[m].sym), vis))]

\* The dependency of an entry below one that has the dependency above.
Inherited(k, above, dep) == EliminateDups(AllocAnd(above, Transform(dep, k.ty)), k.ty)

InheritProp(k, m, i) ==
  LET s == k.menus[m].sym
      ForType(e) == IF s # NoSym /\ k.ty[s] # "tristate" THEN TransBool(e, k.ty) ELSE e
  IN  PropVis(k, m, i, ForType(Inherited(k, k.menus[m].dep, k.props[i].vis)))

\* The properties of entry m
OwnProps(k, m) ==
  IF k.menus[m].sym = NoSym
  THEN IF k.menus[m].prompt = 0 THEN << >> ELSE <<k.menus[m].prompt>>
  ELSE SelectSeq(PropsOf(k, k.menus[m].sym), LAMBDA i : k.props[i].menu = m)

\* The entries of p take over its dependency.
InheritProps(k, m) == FoldLeft(LAMBDA k1, i : InheritProp(k1, m, i), k, OwnProps(k, m))
InheritDeps(k, p) ==
  LET s == k.menus[p].sym
      above == IF s # NoSym /\ IsChoice(k, s) THEN SymE(s)
               ELSE IF k.menus[p].prompt # 0 THEN Vis(k, p) ELSE k.menus[p].dep
  IN  FoldLeft(LAMBDA k1, m : InheritProps([k1 EXCEPT !.menus[m].dep = Inherited(k1, above, @)], m),
               k, k.menus[p].kids)

\* Whether entry m, which follows p, becomes a submenu of p.
Nested(k, p, m) ==
  LET s == k.menus[p].sym
      base == IF k.menus[p].prompt # 0 THEN Vis(k, p) ELSE None
      dep == IF k.menus[m].prompt # 0 THEN Vis(k, m) ELSE k.menus[m].dep
      Norm(e) == EliminateDups(Transform(TransCompare(e, "ne", "n"), k.ty), k.ty)
  IN  /\ ContainsSymbol(dep, s)
      /\ DependsSymbol(dep, s) \/ IsYes(EliminateEq(Norm(dep), Norm(base))[2])

RECURSIVE Finalize(_, _), Absorb(_, _, _), FinalizeKids(_, _, _), FinalizeBelow(_, _), CloseKids(_, _, _)

\* p takes the entries that follow it and are nested in it; n were taken.
Absorb(k, p, n) ==
  LET g == Parent(k, p)
      kids == k.menus[g].kids
      i == CHOOSE j \in DOMAIN kids : kids[j] = p
  IN  IF i + n < Len(kids) /\ Nested(k, p, kids[i + n + 1])
      THEN Absorb(Finalize(k, kids[i + n + 1]), p, n + 1)
      ELSE [k EXCEPT !.menus[p].kids = SubSeq(kids, i + 1, i + n),
                     !.menus[g].kids = SubSeq(@, 1, i) \o SubSeq(@, i + n + 1, Len(@))]

FinalizeKids(k, p, i) ==
  IF i > Len(k.menus[p].kids) THEN k
  ELSE FinalizeKids(Finalize(k, k.menus[p].kids[i]), p, i + 1)

\* An entry of a choice becomes a choice value; of a tristate choice, only
\* when the choice is y unless it is a tristate itself.
ChoiceValue(k, c, m) ==
  LET s == k.menus[m].sym
      whenYes == CompE("eq", c, "y")
      k1 == IF k.ty[c] = "tristate" /\ k.ty[s] # "tristate"
            THEN [k EXCEPT !.menus[m].dep = AllocAnd(whenYes, @),
                           !.props = [i \in DOMAIN @ |->
                              IF @[i].sym = s /\ @[i].menu = m
                              THEN [@[i] EXCEPT !.vis = AllocAnd(whenYes, @)] ELSE @[i]]]
            ELSE k
      k2 == AddProp([k1 EXCEPT !.choicevals = @ \cup {s}, !.entry = m], "choice", FALSE, SymE(c), None)
  IN  [k2 EXCEPT !.props[OwnChoiceProp(k2, c)].x.syms = Append(@, s)]

\* The last pass over the entries of p: choice values, and entries without a
\* prompt, whose own entries move up behind them.
CloseKids(k, p, i) ==
  IF i > Len(k.menus[p].kids) THEN k
  ELSE LET m == k.menus[p].kids[i]
           c == k.menus[p].sym
           s == k.menus[m].sym
           Open(k1) == IF k1.menus[m].prompt # 0 THEN k1
                       ELSE [k1 EXCEPT !.menus[m].kids = << >>,
                                       !.menus[p].kids = SubSeq(@, 1, i) \o k1.menus[m].kids
                                                           \o SubSeq(@, i + 1, Len(@))]
       IN  CloseKids(Open(IF c # NoSym /\ IsChoice(k, c) /\ s # NoSym /\ ~IsChoiceValue(k, s)
                          THEN ChoiceValue(k, c, m) ELSE k), p, i + 1)

FinalizeBelow(k, p) ==
  LET s == k.menus[p].sym
  IN  CASE k.menus[p].kids # << >> ->
             FinalizeKids(InheritDeps(IF s # NoSym /\ IsChoice(k, s) THEN ChoiceTypes(k, p) ELSE k, p),
                          p, 1)
        [] k.menus[p].kids = << >> /\ s # NoSym ->
             [Absorb(k, p, 0) EXCEPT !.dir[s] = AllocOr(@, k.menus[p].dep)]
        [] OTHER -> k

\* menu_finalize
Finalize(k, p) ==
  LET s == k.menus[p].sym
      Closed(k1) == IF s # NoSym /\ s \notin k.optional /\ k.menus[p].prompt # 0
                    THEN [k1 EXCEPT !.rev[s] = AllocOr(@, AllocAnd(Vis(k1, p), SymE("m")))]
                    ELSE k1
  IN  Closed(CloseKids(FinalizeBelow(k, p), p, 1))

Kconfig(consts, sts) == Finalize(FoldLeft(Statement, MenuInit(consts), sts), 1)
============================================================================
