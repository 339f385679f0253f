---------------------------- MODULE LxInputbox ----------------------------
(***************************************************************************)
(* support/kconfig/lxdialog/inputbox.c: a line of text in a field that is  *)
(* Width columns wide.  The field shows the text from show_x (show) on,    *)
(* the cursor is on the column input_x (col) of the field and before the   *)
(* character pos of the text; cells is what is drawn in the field.         *)
(* Characters are counted from 0; instr[i] is the character i, text[i + 1].*)
(***************************************************************************)
EXTENDS Integers, Sequences

CONSTANTS Width,   \* box_width: 69 for every dialog but load and save
          MaxLen   \* bound, MAX_LEN: how long a text may grow

ASSUME FieldAssumption == Width \in Nat \ {0} /\ MaxLen \in Nat

Blank == " "

InputLines == 8    \* height - INPUTBOX_HEIGTH_MIN, where it should be the sum

\* From do_resize on; button is -1 while the field has the keys.
InputDraw(text, button) ==
  LET long == Len(text) >= Width
      show == IF long THEN Len(text) - Width + 1 ELSE 0
  IN  [kind |-> "input", text |-> text, pos |-> Len(text), show |-> show,
       col |-> Len(text) - show, button |-> button, lit |-> 0,
       cells |-> [i \in 0..Width-1 |-> IF show + i < Len(text) THEN text[show + i + 1] ELSE Blank]]

InputOpen(init) == InputDraw(init, -1)
InputResize(w) == InputDraw(w.text, w.button)

Redrawn(w) ==
  [w EXCEPT !.cells = [i \in DOMAIN @ |->
     IF w.show + i < Len(w.text) THEN w.text[w.show + i + 1]
     ELSE IF w.show + i = Len(w.text) THEN Blank ELSE @[i]]]

Without(text, i) == SubSeq(text, 1, i) \o SubSeq(text, i + 2, Len(text))
With(text, i, c) == SubSeq(text, 1, i) \o <<c>> \o SubSeq(text, i + 1, Len(text))

Backspace(w) ==
  IF w.pos = 0 THEN w
  ELSE Redrawn([w EXCEPT !.text = Without(@, w.pos - 1), !.pos = @ - 1,
                         !.show = IF w.col = 0 THEN @ - 1 ELSE @,
                         !.col = IF @ = 0 THEN 0 ELSE @ - 1])

CursorLeft(w) ==
  IF w.pos = 0 THEN w
  ELSE IF w.col > 0 THEN [w EXCEPT !.pos = @ - 1, !.col = @ - 1]
  ELSE Redrawn([w EXCEPT !.pos = @ - 1, !.show = @ - 1])

CursorRight(w) ==
  IF w.pos = Len(w.text) THEN w
  ELSE IF w.col < Width - 1 THEN [w EXCEPT !.pos = @ + 1, !.col = @ + 1]
  ELSE Redrawn([w EXCEPT !.pos = @ + 1, !.show = @ + 1])

\* A full text only flashes.
Insert(w, c) ==
  IF Len(w.text) >= MaxLen THEN w
  ELSE Redrawn([w EXCEPT !.text = With(@, w.pos, c), !.pos = @ + 1,
                         !.show = IF w.col = Width - 1 THEN @ + 1 ELSE @,
                         !.col = IF @ = Width - 1 THEN @ ELSE @ + 1])

\* Field, Ok and Help in a ring; both the field and Ok light Ok.
InputButton(w, b) == [w EXCEPT !.button = b, !.lit = IF b = 1 THEN 1 ELSE 0]
InputNext(w) == InputButton(w, IF w.button = 1 THEN -1 ELSE w.button + 1)
InputPrevious(w) == InputButton(w, IF w.button = -1 THEN 1 ELSE w.button - 1)
============================================================================
