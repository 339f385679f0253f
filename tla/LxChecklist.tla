--------------------------- MODULE LxChecklist ---------------------------
(***************************************************************************)
(* support/kconfig/lxdialog/checklist.c (the members of a choice, in a     *)
(* window of list_height rows) and yesno.c.  Names as in LxMenubox.        *)
(***************************************************************************)
EXTENDS LxMenubox

CONSTANT ListHeight  \* CHECKLIST_HEIGTH_MIN, the list_height conf_choice asks for

CheckLines == 21     \* height + CHECKLIST_HEIGTH_MIN
YesnoLines == 10     \* height + YESNO_HEIGTH_MIN

\* From do_resize on: choice is counted from the scroll position there is.
CheckDraw(count, choice, scroll, button) ==
  LET max == Lesser(ListHeight, count)
      top == IF choice >= ListHeight THEN choice - ListHeight + 1 ELSE scroll
      row == IF choice >= ListHeight THEN choice - top ELSE choice
  IN  [kind |-> "check", count |-> count, max |-> max, scroll |-> top, choice |-> row,
       button |-> button, lit |-> 0, rows |-> [i \in 0..max-1 |-> top + i]]

\* "which item to highlight": the one selected before, or the one that is set.
CheckOpen(count, active) == CheckDraw(count, active, 0, 0)
CheckResize(w) == CheckDraw(w.count, w.choice, w.scroll, w.button)

CheckAt(w) == w.scroll + w.choice

\* Highlight another row of the window.
CheckMove(w, row) ==
  [w EXCEPT !.choice = row, !.rows[w.choice] = CheckAt(w), !.rows[row] = w.scroll + row]

CheckUp(w) ==
  IF w.choice > 0 THEN CheckMove(w, w.choice - 1)
  ELSE IF w.scroll = 0 THEN w
  ELSE [w EXCEPT !.scroll = @ - 1,
                 !.rows = [i \in DOMAIN @ |-> IF i = 0 THEN w.scroll - 1 ELSE @[i - 1]]]

\* Mutant: the list scrolls one line too far
CheckDown_pastEnd(w) ==
  IF w.choice < w.max - 1 THEN CheckMove(w, w.choice + 1)
  ELSE IF w.scroll + w.choice >= w.count THEN w
  ELSE [w EXCEPT !.scroll = @ + 1,
                 !.rows = [i \in DOMAIN @ |->
                             IF i = w.max - 1 THEN w.scroll + w.max ELSE @[i + 1]]]

CheckDown(w) ==
  IF w.choice < w.max - 1 THEN CheckMove(w, w.choice + 1)
  ELSE IF w.scroll + w.choice >= w.count - 1 THEN w
  ELSE [w EXCEPT !.scroll = @ + 1,
                 !.rows = [i \in DOMAIN @ |->
                             IF i = w.max - 1 THEN w.scroll + w.max ELSE @[i + 1]]]

\* Select and Help, or Yes and No: two buttons, one of them under Enter.
OtherButton(w) == [w EXCEPT !.button = 1 - @, !.lit = 1 - w.button]

----------------------------------------------------------------------------
(* yesno.c *)

YesnoDraw(button) == [kind |-> "yesno", button |-> button, lit |-> 0]
YesnoOpen == YesnoDraw(0)
YesnoResize(w) == YesnoDraw(w.button)
============================================================================
