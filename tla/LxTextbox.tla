---------------------------- MODULE LxTextbox ----------------------------
(***************************************************************************)
(* support/kconfig/lxdialog/textbox.c: a text in a window of boxh rows.    *)
(* page is the offset in the text behind the last line printed, and all    *)
(* the code knows of where it is besides two flags and the number of       *)
(* lines on the screen (page_length): it finds the way back by counting    *)
(* the ends of lines.  top, where the page on the screen starts, is no     *)
(* variable of the program.                                                *)
(***************************************************************************)
EXTENDS Integers, Sequences

EndOfLine == "\n"
TextLines == 8      \* TEXTBOX_HEIGTH_MIN

AtEnd(w) == w.page = Len(w.text)
IsNewline(w, i) == w.text[i + 1] = EndOfLine

\* get_line: to the start of the next line, or to the end of the text.
GetLine(w) ==
  LET ends == {i \in w.page..Len(w.text)-1 : IsNewline(w, i)}
  IN  IF ends = {} THEN [w EXCEPT !.page = Len(w.text), !.end = TRUE]
      ELSE [w EXCEPT !.page = (CHOOSE i \in ends : \A k \in ends : i <= k) + 1, !.end = FALSE]

\* One line back from page: its "\n", then what is behind the one before.
LineBack(w) ==
  LET before == {i \in 0..w.page-2 : IsNewline(w, i)}
  IN  IF before = {} THEN [w EXCEPT !.page = 0, !.begin = TRUE]
      ELSE [w EXCEPT !.page = (CHOOSE i \in before : \A k \in before : k <= i) + 1]

\* Mutant: the empty line behind the last "\n" is forgotten
BackFrom_ignoresEnd(w, n) ==
  LET Back[k \in 0..n] ==
        IF k = 0 THEN [w EXCEPT !.begin = FALSE]
        ELSE LET x == Back[k - 1]
             IN  IF x.begin \/ x.page = 0 THEN [x EXCEPT !.begin = TRUE] ELSE LineBack(x)
  IN  [w EXCEPT !.page = Back[n].page, !.begin = Back[n].begin, !.end = Back[n].end]

(***************************************************************************)
(* back_lines: n lines back.  At the end of the text the first of them is  *)
(* the empty one behind the last "\n".                                     *)
(***************************************************************************)
BackFrom(w, n) ==
  LET Back[k \in 0..n] ==
        IF k = 0 THEN [w EXCEPT !.begin = FALSE]
        ELSE LET x == Back[k - 1]
             IN  IF x.begin THEN x
                 ELSE IF AtEnd(x) /\ x.end THEN [x EXCEPT !.end = FALSE]
                 ELSE IF x.page = 0 THEN [x EXCEPT !.begin = TRUE]
                 ELSE LineBack(x)
  IN  [w EXCEPT !.page = Back[n].page, !.begin = Back[n].begin, !.end = Back[n].end]

BackLines(w, n) == IF n <= 0 THEN [w EXCEPT !.begin = FALSE] ELSE BackFrom(w, n)

(***************************************************************************)
(* The page a search result is drawn from: its keys are found by reading   *)
(* the page once and going back, which near the end of the text is further *)
(* than it was read.                                                       *)
(***************************************************************************)
Updated(w) ==
  LET Read[k \in 0..w.boxh] == IF k = 0 THEN w ELSE GetLine(Read[k - 1])
  IN  IF w.update THEN BackLines(Read[w.boxh], w.boxh) ELSE w

\* print_page: boxh lines; page_length counts those up to the end of the text.
PrintPage(w) ==
  LET first == Updated(w)
      Page[k \in 0..w.boxh] ==
        IF k = 0 THEN [first EXCEPT !.length = 0]
        ELSE LET x == Page[k - 1]
                 passed == k > 1 /\ x.end
             IN  [GetLine(x) EXCEPT !.length = IF passed THEN @ ELSE @ + 1]
      last == Page[w.boxh]
  IN  [w EXCEPT !.page = last.page, !.begin = first.begin, !.end = last.end,
                !.length = last.length, !.top = first.page]

TextOpen(text, boxh, update) ==
  PrintPage([kind |-> "text", text |-> text, boxh |-> boxh, update |-> update,
             page |-> 0, top |-> 0, begin |-> TRUE, end |-> FALSE, length |-> 0, hscroll |-> 0])

\* The window is counted back by its outer height, then drawn with the new one.
TextResize(w, boxh) == PrintPage([BackLines(w, w.boxh + 4) EXCEPT !.boxh = boxh])

FirstPage(w) == IF w.begin THEN w ELSE PrintPage([w EXCEPT !.begin = TRUE, !.page = 0])
LastPage(w) == PrintPage(BackLines([w EXCEPT !.end = TRUE, !.page = Len(w.text)], w.boxh))
PreviousLine(w) == IF w.begin THEN w ELSE PrintPage(BackLines(w, w.length + 1))
PreviousPage(w) == IF w.begin THEN w ELSE PrintPage(BackLines(w, w.length + w.boxh))
NextLine(w) == IF w.end THEN w ELSE PrintPage(BackLines(w, w.length - 1))
NextPage(w) == IF w.end THEN w ELSE PrintPage([w EXCEPT !.begin = FALSE])

\* MaxScroll: bound, MAX_LEN.
SidewaysTo(w, h) == PrintPage(BackLines([w EXCEPT !.hscroll = h], w.length))
ScrollRight(w, maxScroll) == IF w.hscroll >= maxScroll THEN w ELSE SidewaysTo(w, w.hscroll + 1)
ScrollLeft(w) == IF w.hscroll = 0 THEN w ELSE SidewaysTo(w, w.hscroll - 1)
LineStart(w) == IF w.hscroll = 0 THEN w ELSE SidewaysTo(w, 0)
============================================================================
