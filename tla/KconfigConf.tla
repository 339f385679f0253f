---------------------------- MODULE KconfigConf ----------------------------
(***************************************************************************)
(* support/kconfig/conf.c: the line-oriented front end.  conf and          *)
(* check_conf walk the menus and ask; the answers are the lines of         *)
(* standard input, and after the last of them every line is blank (end of  *)
(* file and an empty line are the same to xfgets).                         *)
(*                                                                         *)
(* st has more fields here:                                                *)
(*   mode   input_mode;  stdin  valid_stdin;  input  the lines to come     *)
(*   root, cnt   rootEntry, conf_cnt                                       *)
(*   asked  what listnewconfig printed                                     *)
(*   end    "aborted" when the program exits in check_stdin, "spins" when  *)
(*          it asks the same question for ever, "" while it goes on        *)
(***************************************************************************)
EXTENDS KconfigData

\* After conf_parse
Begin(k, mode, tty, input) ==
  [Start(k) EXCEPT !.changed = TRUE] @@
  [warned |-> FALSE, unsaved |-> FALSE, mode |-> mode,
   stdin |-> mode # "silentoldconfig" \/ tty, input |-> input,
   root |-> 1, cnt |-> 0, asked |-> {}, end |-> ""]

AsksOnlyNew(st) == st.mode \in {"oldconfig", "silentoldconfig"}

\* xfgets: st and the line
NextLine(st) ==
  IF st.input = << >> THEN <<st, "">> ELSE <<[st EXCEPT !.input = Tail(@)], Head(st.input)>>

\* conf_askvalue: st, whether the value may be set, and the line.
AskValue(st, s) ==
  IF ~Changable(st, s) \/ (AsksOnlyNew(st) /\ s \in st.has.user) THEN <<st, FALSE, "">>
  ELSE IF AsksOnlyNew(st) /\ ~st.stdin THEN <<[st EXCEPT !.end = "aborted"], FALSE, "">>
  ELSE LET a == NextLine(st) IN <<a[1], TRUE, a[2]>>

RECURSIVE ConfString(_, _, _), ConfSym(_, _, _), ConfPick(_, _, _, _), Conf(_, _, _), CheckConf(_, _, _)

\* conf_string: the line a[3] is taken, or asked for again, which has no end
\* after the last line.
StringTaken(k, m, last, set) ==
  CASE set[2] -> set[1]
    [] ~set[2] /\ last -> [set[1] EXCEPT !.end = "spins"]
    [] OTHER -> ConfString(k, set[1], m)
StringAnswered(k, m, last, a) ==
  LET s == k.menus[m].sym
  IN  CASE ~a[2] -> a[1]
        [] a[2] /\ a[3] = "?" -> ConfString(k, a[1], m)
        [] OTHER -> StringTaken(k, m, last,
                      SetString(k, a[1], s, IF a[3] = "" THEN a[1].curr[s].val ELSE a[3]))
ConfString(k, st, m) == StringAnswered(k, m, st.input = << >>, AskValue(st, k.menus[m].sym))

\* conf_sym
Words == [y |-> 2, yes |-> 2, m |-> 1, n |-> 0, no |-> 0]
SymTaken(k, m, set) == IF set[2] THEN set[1] ELSE ConfSym(k, set[1], m)
SymAnswered(k, m, a) ==
  LET s == k.menus[m].sym
  IN  CASE ~a[2] -> a[1]
        [] a[2] /\ a[3] \notin DOMAIN Words \cup {""} -> ConfSym(k, a[1], m)
        [] OTHER -> SymTaken(k, m,
                      SetTristate(k, a[1], s, IF a[3] = "" THEN a[1].curr[s].tri ELSE Words[a[3]]))
ConfSym(k, st, m) == SymAnswered(k, m, AskValue(st, k.menus[m].sym))

ConfKids(k, st, m) == FoldLeft(LAMBDA a, e : Conf(k, a, e), st, k.menus[m].kids)

\* The loop of conf_choice that picks a value: it shows the visible ones, asks
\* unless there is but one, and takes the number of the answer.
ShownKid(k, kid, kids, v) ==
  <<v[1], IF v[2] /\ k.menus[kid].sym # NoSym THEN Append(kids, kid) ELSE kids>>
ShownKids(k, st, m) ==
  FoldLeft(LAMBDA a, kid : ShownKid(k, kid, a[2], MenuVisible(k, a[1], kid)), <<st, << >>>>, k.menus[m].kids)
NumberOf(k, shown, val) ==
  LET chosen == {i \in DOMAIN shown : k.menus[shown[i]].sym = val}
  IN  IF chosen = {} THEN 0 ELSE CHOOSE i \in chosen : TRUE
PickedNumber(k, shown, val, line) ==
  CASE Len(shown) = 1 -> 1
    [] Len(shown) # 1 /\ line = "" -> NumberOf(k, shown, val)
    [] OTHER -> IF line \in Digits THEN NumOf(line) ELSE 0
Picked(k, m, isNew, shown, a, n, last) ==
  CASE n \in DOMAIN shown -> ConfKids(k, SetTristate(k, a, k.menus[shown[n]].sym, 2)[1], shown[n])
    [] n \notin DOMAIN shown /\ last -> [a EXCEPT !.end = "spins"]
    [] OTHER -> ConfPick(k, a, m, isNew)
PickShown(k, m, isNew, val, st, shown) ==
  LET asks == Len(shown) # 1 /\ (isNew \/ ~AsksOnlyNew(st))
      a == IF asks THEN NextLine(st) ELSE <<st, "">>
  IN  IF asks /\ AsksOnlyNew(st) /\ ~st.stdin THEN [st EXCEPT !.end = "aborted"]
      ELSE Picked(k, m, isNew, shown, a[1], PickedNumber(k, shown, val, a[2]), ~asks \/ st.input = << >>)
PickSeen(k, m, isNew, val, seen) == PickShown(k, m, isNew, val, seen[1], seen[2])
ConfPick(k, st, m, isNew) == PickSeen(k, m, isNew, st.curr[k.menus[m].sym].val, ShownKids(k, st, m))

\* conf_choice
PickIn(k, m, isNew, st) ==
  IF st.curr[k.menus[m].sym].tri # 2 \/ st.end # "" THEN st ELSE ConfPick(k, st, m, isNew)
ConfChoice(k, st, m) ==
  LET c == k.menus[m].sym
  IN  PickIn(k, m, c \notin st.has.user, IF Changable(st, c) THEN Calc(k, ConfSym(k, st, m), c) ELSE st)

PromptType(k, m) == IF k.menus[m].prompt = 0 THEN "none" ELSE k.props[k.menus[m].prompt].type

\* conf: the entry, then what is below it; a menu that is not the root may only
\* have to be checked.
ConfOwn(k, st, m) ==
  LET s == k.menus[m].sym
  IN  CASE s = NoSym -> st
        [] s # NoSym /\ s \in k.choices -> ConfChoice(k, st, m)
        [] OTHER -> IF k.ty[s] \in Strings THEN ConfString(k, st, m) ELSE ConfSym(k, st, m)
ConfBelow(k, st, m) ==
  LET s == k.menus[m].sym
  IN  IF s \in k.choices /\ st.curr[s].tri # 1 THEN st ELSE ConfKids(k, st, m)
ConfSeen(k, m, v) ==
  CASE ~v[2] -> v[1]
    [] /\ v[2] /\ PromptType(k, m) = "menu" /\ v[1].root # m
       /\ v[1].mode \in {"silentoldconfig", "listnewconfig", "olddefconfig"} -> CheckConf(k, v[1], m)
    [] OTHER -> ConfBelow(k, ConfOwn(k, v[1], m), m)
Conf(k, st, m) == IF st.end # "" THEN st ELSE ConfSeen(k, m, MenuVisible(k, st, m))

\* menu_get_parent_menu
RECURSIVE ParentMenu(_, _)
ParentMenu(k, m) ==
  IF m = 1 \/ PromptType(k, m) = "menu" THEN m ELSE ParentMenu(k, Parent(k, m))

\* check_conf
IsNew(k, st, s) ==
  s # NoSym /\ s \notin st.has.user /\ (Changable(st, s) \/ (s \in k.choices /\ st.curr[s].tri = 2))
CheckOwn(k, st, m) ==
  LET s == k.menus[m].sym
      root == ParentMenu(k, m)
  IN  CASE ~IsNew(k, st, s) \/ st.mode = "olddefconfig" -> st
        [] IsNew(k, st, s) /\ st.mode = "listnewconfig" ->
             [st EXCEPT !.asked = @ \cup ({s} \ (k.choices \cup k.choicevals))]
        [] OTHER -> Conf(k, [st EXCEPT !.cnt = @ + 1, !.root = root], root)
CheckKids(k, st, m) == FoldLeft(LAMBDA a, e : CheckConf(k, a, e), st, k.menus[m].kids)
CheckSeen(k, m, v) == IF v[2] THEN CheckKids(k, CheckOwn(k, v[1], m), m) ELSE v[1]
CheckConf(k, st, m) == IF st.end # "" THEN st ELSE CheckSeen(k, m, MenuVisible(k, st, m))

\* The loop of main; it has no end if round number Rounds still asks.
Rounds == 6
RECURSIVE Update(_, _, _)
Updated(k, n, st) ==
  CASE st.end # "" \/ st.cnt = 0 \/ st.mode \in {"listnewconfig", "olddefconfig"} -> st
    [] st.end = "" /\ n = Rounds -> [st EXCEPT !.end = "spins"]
    [] OTHER -> Update(k, st, n + 1)
Update(k, st, n) == Updated(k, n, CheckConf(k, [st EXCEPT !.cnt = 0], 1))

Mode == [allnoconfig |-> "no", allyesconfig |-> "yes", allmodconfig |-> "mod",
         alldefconfig |-> "default", defconfig |-> "default", randconfig |-> "random"]

\* randconfig goes on while conf_set_all_new_symbols says that it changed something.
RECURSIVE SetNew(_, _, _, _)
SetNewAgain(k, mode, pick, r) ==
  IF mode = "random" /\ r[2] THEN SetNew(k, r[1], mode, pick) ELSE r[1]
SetNew(k, st, mode, pick) == SetNewAgain(k, mode, pick, AllNew(k, st, mode, pick))

\* oldaskconfig asks for everything first.
AskAll(k, st) ==
  IF st.mode = "oldaskconfig" THEN [Conf(k, st, 1) EXCEPT !.mode = "silentoldconfig"] ELSE st
UpdateAsked(k, st) == IF st.end # "" THEN st ELSE Update(k, st, 1)

\* The part of main between reading and writing.
Answer(k, st, pick) ==
  CASE st.mode \in DOMAIN Mode -> SetNew(k, st, Mode[st.mode], pick)
    [] st.mode = "savedefconfig" -> st
    [] OTHER -> UpdateAsked(k, AskAll(k, st))
============================================================================
