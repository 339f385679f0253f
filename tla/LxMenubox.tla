---------------------------- MODULE LxMenubox ----------------------------
(***************************************************************************)
(* support/kconfig/lxdialog/menubox.c: the list of a menu in a window that *)
(* shows max of its count items from the item scroll on.  The highlight is *)
(* on the row choice of the window; rows is what each row was last drawn   *)
(* with, button the button Enter stands for and lit the one drawn so.      *)
(* Items, rows and buttons are counted from 0.                             *)
(***************************************************************************)
EXTENDS Integers

CONSTANT Hotkey(_)  \* the letter of an item

\* MIN and MAX
Lesser(a, b) == IF a < b THEN a ELSE b
Greater(a, b) == IF a > b THEN a ELSE b

Buttons == 0..4     \* Select, Exit, Help, Save, Load
MenuLines == 15     \* MENUBOX_HEIGTH_MIN
WindowRows(lines) == lines - 14

\* Mutant: a window that is not full is centred on the item too
Place_centresAtEnd(count, max, at, saved) ==
  IF saved <= at /\ at < saved + max /\ 0 <= saved /\ saved + max <= count THEN saved
  ELSE IF at < max THEN 0 ELSE at - max \div 2

\* The first item of the window, for the item to highlight and the scroll
\* position saved when the menu was left.
Place(count, max, at, saved) ==
  IF saved <= at /\ at < saved + max /\ 0 <= saved /\ saved + max <= count THEN saved
  ELSE IF at < max THEN 0
  ELSE IF at >= count - max \div 2 THEN count - max
  ELSE at - max \div 2

(***************************************************************************)
(* From do_resize on.  sel is the item selected before, -1 if there is     *)
(* none in the list; choice and first are the variables of dialog_menu     *)
(* with the values they have, 0 when it is called.  first_item is only     *)
(* assigned where scroll comes out of its first case or of its last ones.  *)
(***************************************************************************)
MenuDraw(lines, count, sel, saved, choice, first, button) ==
  LET max == Lesser(WindowRows(lines), count)
      at == IF sel = -1 THEN choice ELSE sel
      kept == saved <= at /\ at < saved + max /\ 0 <= saved /\ saved + max <= count
      scroll == Place(count, max, at, saved)
      top == IF kept \/ at >= max THEN scroll ELSE first
  IN  [kind |-> "menu", count |-> count, max |-> max, scroll |-> scroll,
       choice |-> at - scroll, first |-> top, button |-> button, lit |-> 0,
       rows |-> [i \in 0..max-1 |-> top + i]]

MenuOpen(lines, count, sel, saved) == MenuDraw(lines, count, sel, saved, 0, 0, 0)

\* KEY_RESIZE
MenuResize(w, lines, sel, saved) ==
  MenuDraw(lines, w.count, sel, saved, w.choice, w.first, w.button)

MenuAt(w) == w.scroll + w.choice

----------------------------------------------------------------------------
(* The keys *)

PrintItem(rows, row, item) == [rows EXCEPT ![row] = item]
Shown(w) == [w EXCEPT !.rows = PrintItem(@, w.choice, MenuAt(w))]

\* Mutant: of the lines that come into view, the last one only is printed
ScrolledUp_printsLast(w, n) ==
  [w EXCEPT !.scroll = @ + n,
            !.rows = [i \in DOMAIN @ |->
                        IF i + n < w.max THEN @[i + n]
                        ELSE IF i = w.max - 1 THEN w.scroll + n + i ELSE @[i]]]

\* n times do_scroll by one line and the line that comes into view.
ScrolledUp(w, n) ==
  [w EXCEPT !.scroll = @ + n,
            !.rows = [i \in DOMAIN @ |->
                        IF i + n < w.max THEN @[i + n] ELSE w.scroll + n + i]]
ScrolledDown(w, n) ==
  [w EXCEPT !.scroll = @ - n,
            !.rows = [i \in DOMAIN @ |->
                        IF i >= n THEN @[i - n] ELSE w.scroll - n + i]]

Up(w) ==
  Shown(IF w.choice < 2 /\ w.scroll > 0 THEN ScrolledDown(Shown(w), 1)
        ELSE [Shown(w) EXCEPT !.choice = Greater(@ - 1, 0)])

Down(w) ==
  Shown(IF w.choice > w.max - 3 /\ w.scroll + w.max < w.count THEN ScrolledUp(Shown(w), 1)
        ELSE [Shown(w) EXCEPT !.choice = Lesser(@ + 1, w.max - 1)])

\* max times: scroll while there is something above, then move the highlight.
PageUp(w) ==
  LET n == Lesser(w.max, w.scroll)
  IN  Shown([ScrolledDown(Shown(w), n) EXCEPT !.choice = Greater(@ - (w.max - n), 0)])

PageDown(w) ==
  LET n == Lesser(w.max, w.count - (w.scroll + w.max))
  IN  Shown([ScrolledUp(Shown(w), n) EXCEPT !.choice = Lesser(@ + (w.max - n), w.max - 1)])

\* The next row with the letter, from the one below the highlight around.
Visible(w, key) == {i \in 0..w.max-1 : Hotkey(w.scroll + i) = key}
NextOf(w, key) ==
  LET below == {i \in Visible(w, key) : i > w.choice}
      rows == IF below = {} THEN Visible(w, key) ELSE below
  IN  CHOOSE i \in rows : \A k \in rows : i <= k
Hot(w, key) == Shown([Shown(w) EXCEPT !.choice = NextOf(w, key)])

\* KEY_LEFT, KEY_RIGHT and TAB
MenuButton(w, b) == [w EXCEPT !.button = b, !.lit = b]
ButtonLeft(w) == MenuButton(w, IF w.button = 0 THEN 4 ELSE w.button - 1)
ButtonRight(w) == MenuButton(w, IF w.button = 4 THEN 0 ELSE w.button + 1)
============================================================================
