------------------------- MODULE KconfigMenuconfig -------------------------
(***************************************************************************)
(* support/kconfig/mconf.c: make menuconfig, from the start to the exit of *)
(* the program, with the functions of symbol.c and confdata.c behind it.   *)
(* The user moves through the menus, sets what they show, loads and saves  *)
(* configurations and leaves.                                              *)
(***************************************************************************)
EXTENDS KconfigData, KconfigLegal

CONSTANTS
  Consts,     \* the constant symbols: y, m, n and the strings
  Statements, \* the Kconfig file
  Disks,      \* the files there are before the program starts
  Names,      \* the file names the user enters
  Typed,      \* what the user types for a string or a number
  Patterns,   \* what the user searches for: each the symbols that match
  MaxSteps    \* how often something is set, loaded or saved

VARIABLES
  k,        \* what conf_parse makes of the Kconfig file: it never changes
  st,       \* the symbols
  path,     \* the menus conf() was called for, and -n for the results of searching
            \* for Patterns[n]; the last is shown, none after the exit
  items,    \* what is shown: the entry and the tag of each item
  all,      \* show_all_options
  filename, \* where an exit saves to
  disk,     \* the files, by their names
  count,    \* how often something was set, loaded or saved
  failed,   \* history: a file was missing or could not be renamed
  stale     \* history: conf_read has dropped a number, and nothing was set since

vars == <<k, st, path, items, all, filename, disk, count, failed, stale>>
files == <<k, filename, disk, failed>>

Running == path # << >>
Shown == Last(path)
InMenu == Running /\ Shown > 0
Step == InMenu /\ count < MaxSteps /\ count' = count + 1
Sym(m) == k.menus[m].sym
PromptType(m) == k.props[k.menus[m].prompt].type

----------------------------------------------------------------------------
(* build_conf: the items of a menu with their tags: "m" a submenu, "t" a   *)
(* boolean, a tristate or a choice, "s" a string or a number, ":" nothing  *)
(* that can be activated.  What is built is the pair of st and the items.  *)

\* The entries of a choice that are its value: st and the entries.
ChosenKid(m, kid, kids, v) ==
  <<v[1], IF v[2] /\ Sym(kid) = v[1].curr[Sym(m)].val THEN <<kid>> ELSE kids>>
Chosen(a, m) ==
  FoldLeft(LAMBDA b, kid : ChosenKid(m, kid, b[2], MenuVisible(k, b[1], kid)), <<a, << >>>>, k.menus[m].kids)

Tag(a, m, chosen) ==
  LET s == Sym(m)
  IN  CASE s = NoSym -> IF PromptType(m) = "menu" THEN "m" ELSE ":"
        [] IsChoice(k, Sym(m)) -> IF Changable(a, s) \/ chosen # << >> THEN "t" ELSE ":"
        [] s # NoSym /\ s \in k.choicevals /\ a.curr[s].tri = 2 -> ":"
        [] OTHER -> IF k.ty[s] \in Tristates THEN "t" ELSE "s"
Item(a, m, chosen) == [m |-> m, tag |-> Tag(a, m, chosen)]

\* The entries whose items follow the one of m: none of a submenu; of a choice
\* that is y, what belongs to its value.
Below(a, m, chosen) ==
  CASE IsChoice(k, Sym(m)) /\ a.curr[Sym(m)].tri = 2 -> SelectSeq(chosen, LAMBDA c : k.menus[c].kids # << >>)
    [] PromptType(m) = "menu" /\ Tag(a, m, chosen) # "s" -> << >>
    [] OTHER -> k.menus[m].kids

\* The menu that is shown is no item itself, unless it is a choice (only a jump
\* shows one).
Heads(m, cur) == m = cur /\ ~IsChoice(k, Sym(m))

RECURSIVE Build(_, _, _, _)
BuildAll(b, es, cur, hidden) == FoldLeft(LAMBDA a, e : Build(a, e, cur, hidden), b, es)
BuildItem(shown, m, cur, hidden, c) ==
  BuildAll(<<c[1], IF Heads(m, cur) THEN shown ELSE shown \cup {Item(c[1], m, c[2])}>>,
           IF Heads(m, cur) THEN k.menus[m].kids ELSE Below(c[1], m, c[2]), cur, hidden)
BuildSeen(shown, m, cur, hidden, v) ==
  IF k.menus[m].prompt = 0 \/ (~v[2] /\ ~hidden) THEN <<v[1], shown>>
  ELSE BuildItem(shown, m, cur, hidden, IF IsChoice(k, Sym(m)) THEN Chosen(v[1], m) ELSE <<v[1], << >>>>)
Build(b, m, cur, hidden) == BuildSeen(b[2], m, cur, hidden, MenuVisible(k, b[1], m))

\* What conf() shows: the menu is built first, which may calculate.
Menu(a, m, hidden) == Build(<<a, {}>>, m, m, hidden)
Items(tag) == {i.m : i \in {j \in items : j.tag = tag}}

----------------------------------------------------------------------------
(* The search: menu.c finds for each prompt of a symbol that matches an    *)
(* entry to jump to, the nearest one around it that can be opened.         *)

\* The entries around m, below the root.
RECURSIVE Around(_)
Around(m) == LET p == Parent(k, m) IN IF p = 1 THEN << >> ELSE <<p>> \o Around(p)

\* Whether x, further out than those found, can be opened too
Location(found, x, v) == <<v[1], IF v[2] THEN Append(found, x) ELSE found>>
Locations(a, m) ==
  FoldLeft(LAMBDA b, x : Location(b[2], x, MenuVisible(k, b[1], x)), <<a, << >>>>, Around(m))

\* Mutant: an entry that cannot be seen is a target too
Target_evenHidden(targets, m, nearest, own) == <<own[1], targets \cup {m}>>

\* get_prompt_str: the symbols and the targets
Target(targets, m, nearest, own) == <<own[1], targets \cup {IF own[2] THEN m ELSE nearest}>>
Located(targets, m, open) ==
  IF open[2] = << >> THEN <<open[1], targets>>
  ELSE Target(targets, m, Head(open[2]), MenuVisible(k, open[1], m))
PromptStr(b, m) == Located(b[2], m, Locations(b[1], m))

\* get_symbol_str
SymbolStr(b, s) ==
  FoldLeft(LAMBDA c, i : PromptStr(c, k.props[i].menu), b,
           SelectSeq(PropsOf(k, s), LAMBDA i : k.props[i].text))

\* get_relations_str
Relations(a, syms) == FoldLeft(LAMBDA b, s : SymbolStr(b, s), <<a, {}>>, syms)

\* sym_re_search calculates what it finds.
Matches(n) == SelectSeq(k.symbols, LAMBDA s : s \in Patterns[n])
ReSearch(a, n) == CalcAll(k, a, Matches(n))

----------------------------------------------------------------------------
\* conf_read has calculated every symbol, and then dropped numbers out of their
\* range: what was calculated from those stays valid until sym_clear_all_valid.
Drops(a) == DOMAIN k.ty \ (a.valid \cup Consts) # {}

Start0 == Start(k) @@ [warned |-> FALSE, unsaved |-> FALSE]
Opened(d) == IF "config" \in DOMAIN d THEN ConfRead(k, Start0, d["config"]) ELSE ReadNothing(k, Start0)

Init ==
  /\ k = Kconfig(Consts, Statements)
  /\ disk \in Disks
  /\ path = <<1>> /\ all = FALSE /\ filename = "config" /\ count = 0 /\ failed = FALSE
  /\ \E a \in {Opened(disk)} :
       /\ stale = Drops(a)
       /\ \E b \in {Menu(a, 1, FALSE)} : st = b[1] /\ items = b[2]

\* The symbols are now as in a, and menu m is shown.
Draw(a, m, hidden) == \E b \in {Menu(a, m, hidden)} : st' = b[1] /\ items' = b[2]

\* The loop of search_conf shows the targets of the search for Patterns[n].
DrawTargets(a, n) ==
  \E b \in {Relations(a, Matches(n))} : st' = b[1] /\ items' = {[m |-> m, tag |-> "jump"] : m \in b[2]}

\* One of the states is reached, and the menu is shown again.
Show(states) ==
  /\ \E a \in states : /\ Draw(a, Shown, all)
                       /\ stale' = (stale /\ st.valid \subseteq a.valid)
  /\ UNCHANGED <<path, all, files>>

\* <Enter> on a menu or a menuconfig symbol, or the key of a location in the
\* results of a search: conf(target->parent, target)
Opens(m) ==
  \/ m \in Items("m")
  \/ m \in Items("t") /\ PromptType(m) = "menu" /\ ~(IsChoice(k, Sym(m)) /\ st.curr[Sym(m)].tri = 2)
Enter ==
  /\ Running
  /\ \E p \in {m \in 1..Len(k.menus) : Opens(m)} \cup {Parent(k, m) : m \in Items("jump")} :
       path' = Append(path, p) /\ Draw(st, p, all)
  /\ UNCHANGED <<all, count, files, stale>>

Leave ==
  /\ Len(path) > 1
  /\ path' = Front(path)
  /\ IF Last(path') < 0 THEN DrawTargets(st, -Last(path')) ELSE Draw(st, Last(path'), all)
  /\ UNCHANGED <<all, count, files, stale>>

\* search_conf, up to the results.  (One search at a time is a bound.)
Search ==
  /\ Running /\ \A i \in DOMAIN path : path[i] > 0
  /\ \E n \in DOMAIN Patterns : path' = Append(path, -n) /\ DrawTargets(ReSearch(st, n), n)
  /\ UNCHANGED <<all, count, files, stale>>

\* <Y>, <N>, <M>, <Space>
YesOr(s, y) == IF y[2] THEN y[1] ELSE SetTristate(k, st, s, 1)[1]
Pressed(s) ==
  {YesOr(s, SetTristate(k, st, s, 2)), SetTristate(k, st, s, 0)[1],
   SetTristate(k, st, s, 1)[1], Toggle(k, st, s)}
Key == Step /\ Show(UNION {Pressed(Sym(m)) : m \in Items("t")})

\* conf_choice: <Enter> on a choice that is y, then one of its visible values
Taken(kid, v) == IF v[2] /\ Sym(kid) # NoSym THEN {SetTristate(k, v[1], Sym(kid), 2)[1]} ELSE {}
Choose ==
  /\ Step
  /\ \E m \in Items("t") :
       /\ IsChoice(k, Sym(m)) /\ st.curr[Sym(m)].tri = 2
       /\ Show(UNION {Taken(kid, MenuVisible(k, st, kid)) : kid \in ToSet(k.menus[m].kids)})

\* conf_string
Type == Step /\ Show({SetString(k, st, Sym(m), x)[1] : m \in Items("s"), x \in Typed})

ToggleAll ==
  /\ InMenu
  /\ all' = ~all
  /\ Draw(st, Shown, all')
  /\ UNCHANGED <<path, count, files, stale>>

\* conf_load.  conf_read resets the change count before it looks for the file.
Load ==
  /\ Step
  /\ \E f \in Names :
       \/ /\ f \in DOMAIN disk
          /\ filename' = f /\ failed' = failed
          /\ \E a \in {ConfRead(k, st, disk[f])} :
               /\ stale' = Drops(a)
               /\ Draw([a EXCEPT !.changed = TRUE], Shown, all)
       \/ /\ f \notin DOMAIN disk
          /\ st' = [st EXCEPT !.changed = FALSE]
          /\ failed' = TRUE /\ UNCHANGED <<filename, items, stale>>
  /\ UNCHANGED <<k, path, all, disk>>

\* conf_write renames the file to its .old, which may fail, then the new one
\* to the file.
Old == [config |-> "config.old", other |-> "other.old"]
Moved(f) == IF f \in DOMAIN disk THEN (Old[f] :> disk[f]) @@ disk ELSE disk
Written(f, lines) == {(f :> lines) @@ d : d \in {disk, Moved(f)}}
Lost(f) == [x \in DOMAIN Moved(f) \ {f} |-> Moved(f)[x]]

\* conf_save; the renames of conf_write may fail.
Save ==
  /\ Step
  /\ \E w \in {ConfWrite(k, st)}, f \in Names :
       \/ /\ disk' \in Written(f, w[2])
          /\ filename' = f /\ failed' = failed
          /\ Draw([w[1] EXCEPT !.changed = FALSE], Shown, all)
       \/ /\ disk' \in {disk, Lost(f)}
          /\ failed' = TRUE /\ UNCHANGED filename
          /\ Draw(w[1], Shown, all)
  /\ UNCHANGED <<k, path, all, stale>>

\* handle_exit: without changes it asks nothing; else it saves, or fails to, or not.
Exit ==
  /\ path = <<1>> /\ path' = << >>
  /\ \/ ~st.changed /\ UNCHANGED <<st, disk>>
     \/ /\ st.changed
        /\ \E w \in {ConfWrite(k, st)} :
             \/ st' = [w[1] EXCEPT !.changed = FALSE] /\ disk' \in Written(filename, w[2])
             \/ st' = w[1] /\ disk' \in {disk, Lost(filename)}
     \/ st.changed /\ UNCHANGED <<st, disk>>
  /\ UNCHANGED <<k, items, all, filename, count, failed, stale>>

Next == Enter \/ Leave \/ Search \/ Key \/ Choose \/ Type \/ ToggleAll \/ Load \/ Save \/ Exit

Spec == Init /\ [][Next]_vars

----------------------------------------------------------------------------
Everything(a) == CalcAll(k, a, k.symbols)
CalculatedValues(a) ==
  [s \in DOMAIN k.ty |-> CASE s \in Builtin -> [val |-> s, tri |-> Static[s]]
                           [] s \in Consts \ Builtin -> [val |-> s, tri |-> 0]
                           [] OTHER -> a.curr[s]]
Values(a) == CalculatedValues(Everything(a))
blocks == Blocks(Statements)

\* "SYMBOL_VALID: set when symbol.curr is calculated" (expr.h:94): every value
\* that counts as calculated is the one a calculation from nothing gives.  Not
\* after conf_read has dropped a number (confdata.c:458), when only the number is
\* no longer valid, and not what was calculated from it.
ValidIsCurrent ==
  \A a \in {Everything([st EXCEPT !.valid = Builtin])}, s \in st.valid :
    a.curr[s] = st.curr[s] /\ a.vis[s] = st.vis[s]

\* What is shown is not older than what was set, unless conf_read has dropped a
\* number.
ShownIsCurrent == stale \/ ValidIsCurrent

\* Whatever the user sets and loads, the values are ones that the Kconfig
\* statements allow.
StatementsHold == stale \/ Legal(blocks, Values(st), k.ty, NumOf)

\* A value that is accepted for something the menu shows is the value it has:
\* nothing accepted is overruled by a default, a select or a choice.
TakesEffect(s, v, r) == r[2] => Values(r[1])[s].tri = v
AcceptedTakesEffect ==
  Running /\ ~stale => \A m \in Items("t"), v \in 0..2 : TakesEffect(Sym(m), v, SetTristate(k, st, Sym(m), v))

\* Without changes the program exits without a question: a program that is
\* then started has all the values that are lost.
QuietExitLosesNothing ==
  Running /\ ~st.changed /\ ~failed /\ ~stale =>
    filename \in DOMAIN disk /\ Values(ConfRead(k, Start0, disk[filename])) = Values(st)

\* The results of a search lead to what was found: every entry the user may
\* change has its jump unless it is in the top menu, and the menu a jump opens
\* shows what it is for, or the choice of which it is a value.
Leads(shown) ==
  \A m \in 2..Len(k.menus) :
    (Sym(m) \in Patterns[-Shown] /\ k.menus[m].prompt # 0 /\ Parent(k, m) # 1
      /\ shown[k.menus[m].prompt] # 0) => m \in Items("jump")
JumpsLead ==
  Running /\ Shown < 0 =>
    /\ \A m \in Items("jump") : \E i \in Menu(st, Parent(k, m), all)[2] :
         i.m = m \/ (i.m = Parent(k, m) /\ IsChoice(k, Sym(i.m)))
    /\ Leads(Everything(st).shown)

\* mconf.c: "The <Save> button will let you save the current configuration to
\* a file of your choosing."  What a save that succeeds writes is what was shown.
SaveSavesWhatIsShown ==
  [][count' # count /\ disk' # disk /\ ~st'.changed /\ ~stale =>
       Values(ConfRead(k, Start0, disk'[filename'])) = Values(st)]_vars
============================================================================
