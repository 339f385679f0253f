----------------------------- MODULE LxDialog -----------------------------
(***************************************************************************)
(* A session of menuconfig as its user sees it: mconf.c calls the dialogs  *)
(* of lxdialog one at a time; a menu is left for another dialog with the   *)
(* item and the scroll position saved, and is drawn again afterwards, with *)
(* the items the configuration then has.  The terminal may be resized at   *)
(* any time.                                                               *)
(***************************************************************************)
EXTENDS LxChecklist, LxInputbox, LxTextbox

CONSTANTS Lines,     \* the heights the terminal can have
          Counts,    \* how many items a menu can have
          Members,   \* how many members a choice can have
          Letters,   \* the hotkeys
          Chars,     \* the characters that can be typed
          Inits,     \* the values a field can start with
          Texts,     \* the texts to read
          MaxScroll  \* bound: the columns a text scrolls to the right

ASSUME SessionAssumption ==
  /\ Counts \subseteq Nat \ {0} /\ Lines \subseteq Nat
  /\ Members \subseteq Nat /\ ListHeight \in Nat \ {0}
  /\ Chars \subseteq STRING /\ Inits \subseteq Seq(STRING)

VARIABLES lines,  \* the height of the terminal
          w,      \* the open dialog, or [kind |-> "none"]
          menu,   \* the menu behind it: its count, selected item, scroll position
          moved   \* history: the terminal was resized since the menu was drawn or left
vars == <<lines, w, menu, moved>>

None == [kind |-> "none"]
Open(k) == w.kind = k

\* dialog_menu, or the end of conf for a terminal that is too small.
MenuOrEnd(n, m) == IF n < MenuLines THEN None ELSE MenuOpen(n, m.count, m.sel, m.saved)

Init ==
  /\ lines \in {n \in Lines : n >= MenuLines}
  /\ menu \in [count : Counts, sel : {-1}, saved : {0}]
  /\ w = MenuOpen(lines, menu.count, -1, 0)
  /\ moved = FALSE

----------------------------------------------------------------------------
(* Keys the open dialog handles and stays *)

Press(k, x) == Open(k) /\ w' = x /\ UNCHANGED <<lines, menu, moved>>

MenuUp == Press("menu", Up(w))
MenuDown == Press("menu", Down(w))
MenuPageUp == Press("menu", PageUp(w))
MenuPageDown == Press("menu", PageDown(w))
MenuHotkey == \E c \in Letters : Open("menu") /\ Visible(w, c) # {} /\ Press("menu", Hot(w, c))
MenuTab == Open("menu") /\ \E x \in {ButtonLeft(w), ButtonRight(w)} : Press("menu", x)

ListUp == Press("check", CheckUp(w))
ListDown == Press("check", CheckDown(w))
\* The first row with the letter, and no further.
ListHotkey ==
  \E i \in 0..ListHeight-1 : Open("check") /\ i < w.max /\ Press("check", CheckMove(w, i))
OtherButtonKey == \E k \in {"check", "yesno"} : Press(k, OtherButton(w))

FieldKey(x) == Open("input") /\ w.button = -1 /\ Press("input", x)
TypeKey == \E c \in Chars : FieldKey(Insert(w, c))
BackspaceKey == FieldKey(Backspace(w))
LeftKey == FieldKey(CursorLeft(w))
RightKey == FieldKey(CursorRight(w))
FieldTab == Open("input") /\ \E x \in {InputNext(w), InputPrevious(w)} : Press("input", x)

TextLineUp == Press("text", PreviousLine(w))
TextLineDown == Press("text", NextLine(w))
TextPageUp == Press("text", PreviousPage(w))
TextPageDown == Press("text", NextPage(w))
TextHome == Press("text", FirstPage(w))
TextEnd == Press("text", LastPage(w))
TextSideways ==
  /\ Open("text")
  /\ \E x \in {ScrollLeft(w), ScrollRight(w, MaxScroll), LineStart(w)} : Press("text", x)

Key ==
  \/ MenuUp \/ MenuDown \/ MenuPageUp \/ MenuPageDown \/ MenuHotkey \/ MenuTab
  \/ ListUp \/ ListDown \/ ListHotkey \/ OtherButtonKey
  \/ TypeKey \/ BackspaceKey \/ LeftKey \/ RightKey \/ FieldTab
  \/ TextLineUp \/ TextLineDown \/ TextPageUp \/ TextPageDown \/ TextHome \/ TextEnd
  \/ TextSideways

----------------------------------------------------------------------------
(* Keys that open and close dialogs *)

\* Mutant: the scroll position is saved when the menu is drawn, not when it is left
Leave_staleScroll(x) == [menu EXCEPT !.sel = MenuAt(x)]

\* *s_scroll = scroll, item_set_selected
Leave(x) == [menu EXCEPT !.sel = MenuAt(x), !.saved = x.scroll]

\* Enter, the space bar, y, n, m, h, ? or / on an item: what it opens.
Opened ==
  {InputOpen(t) : t \in Inits}
    \cup {TextOpen(t, lines - TextLines, FALSE) : t \in Texts}
    \cup (IF lines < CheckLines THEN {} ELSE UNION {{CheckOpen(n, i) : i \in 0..n-1} : n \in Members})

Select ==
  /\ Open("menu")
  /\ menu' = Leave(w)
  /\ w' \in Opened
  /\ moved' = FALSE
  /\ UNCHANGED lines

\* A new value may change the items of the menu (build_conf): the selected one
\* is anywhere among them, or not at all (-1).
Changed(m) == UNION {{[m EXCEPT !.count = n, !.sel = i] : i \in -1..n-1} : n \in Counts}

\* A key that sets a value on the spot.
Change ==
  /\ Open("menu")
  /\ menu' \in Changed(Leave(w))
  /\ w' = MenuOpen(lines, menu'.count, menu'.sel, menu'.saved)
  /\ moved' = FALSE
  /\ UNCHANGED lines

\* The dialog over the menu is left, or answered with a new value.
Return ==
  /\ w.kind \in {"check", "input", "text"}
  /\ menu' \in {menu} \cup (IF Open("text") THEN {} ELSE Changed(menu))
  /\ w' = MenuOrEnd(lines, menu')
  /\ moved' = FALSE
  /\ UNCHANGED lines

\* search_conf: what the field asked for is found, and the results are read.
Search ==
  /\ Open("input") /\ lines >= TextLines
  /\ w' \in {TextOpen(t, lines - TextLines, TRUE) : t \in Texts}
  /\ UNCHANGED <<lines, menu, moved>>

\* Exit or ESC in the top menu, a yes or no, or ESC back to the menu.
Quit == Open("menu") /\ w' = YesnoOpen /\ menu' = Leave(w) /\ moved' = FALSE /\ UNCHANGED lines
Answer == Open("yesno") /\ w' \in {None, MenuOrEnd(lines, [menu EXCEPT !.sel = -1, !.saved = 0])}
            /\ moved' = FALSE /\ UNCHANGED <<lines, menu>>

(***************************************************************************)
(* KEY_RESIZE.  A dialog that no longer fits returns an error: the menu    *)
(* and the list go back, the field is asked again by its caller for ever   *)
(* ("stuck": nothing reads the keyboard), the question ends the session.   *)
(***************************************************************************)
Redraw(n) ==
  CASE Open("menu") -> IF n < MenuLines THEN None ELSE MenuResize(w, n, menu.sel, menu.saved)
    [] Open("check") -> IF n < CheckLines THEN MenuOrEnd(n, menu) ELSE CheckResize(w)
    [] Open("input") -> IF n <= InputLines THEN [kind |-> "stuck"] ELSE InputResize(w)
    [] Open("text") -> IF n < TextLines THEN MenuOrEnd(n, menu) ELSE TextResize(w, n - TextLines)
    [] Open("yesno") -> IF n < YesnoLines THEN None ELSE YesnoResize(w)

Resize ==
  /\ w.kind \notin {"none", "stuck"}
  /\ lines' \in Lines \ {lines}
  /\ w' = Redraw(lines')
  /\ moved' = TRUE
  /\ UNCHANGED menu

Next == Key \/ Select \/ Change \/ Return \/ Search \/ Quit \/ Answer \/ Resize
Spec == Init /\ [][Next]_vars

----------------------------------------------------------------------------
(* Properties *)

(***************************************************************************)
(* The highlight is on a row of the window and the window on items of the  *)
(* list, whatever the keys, the changes of the list and of the terminal.   *)
(* (item_set leaves no current item for a number that is too great, and    *)
(* every caller reads the text of the current item.)                       *)
(***************************************************************************)
HighlightInWindow ==
  w.kind \in {"menu", "check"} =>
    /\ w.choice \in 0..w.max-1
    /\ w.scroll >= 0 /\ w.scroll + w.max <= w.count

(***************************************************************************)
(* The keys move the highlight through the list as if there were no        *)
(* window: by one item, or by one window, and not beyond the ends.         *)
(***************************************************************************)
CursorMoves ==
  [][/\ MenuUp => MenuAt(w') = Greater(MenuAt(w) - 1, 0)
     /\ MenuDown => MenuAt(w') = Lesser(MenuAt(w) + 1, w.count - 1)
     /\ MenuPageUp => MenuAt(w') = Greater(MenuAt(w) - w.max, 0)
     /\ MenuPageDown => MenuAt(w') = Lesser(MenuAt(w) + w.max, w.count - 1)
     /\ ListUp => CheckAt(w') = Greater(CheckAt(w) - 1, 0)
     /\ ListDown => CheckAt(w') = Lesser(CheckAt(w) + 1, w.count - 1)]_vars

(***************************************************************************)
(* Who comes back to a menu finds the item he left highlighted wherever it *)
(* is now, and in the same row if neither the menu nor the terminal has    *)
(* changed (the comments of menubox.c on the saved scroll position).       *)
(***************************************************************************)
ReturnsToItem ==
  [][((Return \/ Change) /\ w'.kind = "menu") =>
       /\ menu'.sel # -1 => MenuAt(w') = menu'.sel
       /\ Return /\ ~moved /\ menu' = menu => w'.scroll = menu.saved]_vars

(***************************************************************************)
(* The screen shows the state the keys act on.  What is drawn in a row is  *)
(* the item that is there; in a menu this is claimed only until the        *)
(* terminal is resized, when menubox.c:258 may draw it from a first item   *)
(* that is not where it has scrolled to.  A field shows the part of the    *)
(* text around the cursor and nothing else: no character stays behind when *)
(* the text is edited or scrolled, and the cursor is before the character  *)
(* the next key acts on.                                                   *)
(***************************************************************************)
RowsTrue == \A i \in DOMAIN w.rows : w.rows[i] = w.scroll + i
FieldTrue ==
  /\ w.pos = w.show + w.col
  /\ w.col \in 0..Width-1 /\ w.show >= 0 /\ w.pos \in 0..Len(w.text)
  /\ \A i \in 0..Width-1 :
       w.cells[i] = IF w.show + i < Len(w.text) THEN w.text[w.show + i + 1] ELSE Blank
ScreenShowsState ==
  /\ (Open("check") \/ (Open("menu") /\ ~moved)) => RowsTrue
  /\ Open("input") => FieldTrue

(***************************************************************************)
(* The keys of a text box move the page by the lines they say: the way     *)
(* back that is counted in ends of lines always starts a page where one    *)
(* should, and a key is refused only at the ends of the text.  A page of   *)
(* search results is filled: the last page down ends at the last full      *)
(* page.  Claimed for the texts that end with "\n", as the help texts and  *)
(* the search results do.                                                  *)
(***************************************************************************)
LineOf(x, offset) == Len(SelectSeq(SubSeq(x.text, 1, offset), LAMBDA c : c = EndOfLine))
TopLine(x) == LineOf(x, x.top)
LinesOf(x) == LineOf(x, Len(x.text)) + 1
LastFull(x) == Greater(LinesOf(x) - x.boxh, 0)
PageBelow(x) == IF x.update THEN Lesser(TopLine(x) + x.boxh, LastFull(x)) ELSE TopLine(x) + x.boxh
TextScrolls ==
  [][(Open("text") /\ w.boxh > 0) =>
       /\ TextLineUp => TopLine(w') = Greater(TopLine(w) - 1, 0)
       /\ TextLineDown => TopLine(w') = IF TopLine(w) + w.boxh < LinesOf(w) THEN TopLine(w) + 1 ELSE TopLine(w)
       /\ TextPageUp => TopLine(w') = Greater(TopLine(w) - w.boxh, 0)
       /\ TextPageDown => TopLine(w') = IF TopLine(w) + w.boxh < LinesOf(w) THEN PageBelow(w) ELSE TopLine(w)
       /\ TextHome => TopLine(w') = 0
       /\ TextEnd => TopLine(w') = LastFull(w)
       /\ TextSideways => TopLine(w') = TopLine(w)]_vars
============================================================================
