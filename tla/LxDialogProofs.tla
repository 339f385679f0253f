-------------------------- MODULE LxDialogProofs --------------------------
(***************************************************************************)
(* The highlight never leaves the window nor the window the list, and the  *)
(* keys move it through the list as if there were no window; what is drawn *)
(* is what the keys act on; and who comes back to a menu finds his item:   *)
(* for every height of the terminal, every number of items, every saved    *)
(* scroll position and every text.                                         *)
(***************************************************************************)
EXTENDS LxDialog, WellFoundedInduction, SequenceTheorems, TLAPS

MenuFields == {"kind", "count", "max", "scroll", "choice", "first", "button", "lit", "rows"}
CheckFields == {"kind", "count", "max", "scroll", "choice", "button", "lit", "rows"}

\* A list with its highlight in its window.
Placed(x) ==
  /\ x.count \in Nat /\ x.max \in Nat \ {0}
  /\ x.scroll \in Nat /\ x.scroll + x.max <= x.count
  /\ x.choice \in Nat /\ x.choice < x.max

IsMenu(x) == DOMAIN x = MenuFields /\ x.kind = "menu" /\ Placed(x)
IsCheck(x) == DOMAIN x = CheckFields /\ x.kind = "check" /\ Placed(x) /\ x.max = Lesser(ListHeight, x.count)

\* A key that moves the highlight of a list of the same size to an item.
Moves(x, y, item) ==
  /\ y.count = x.count /\ y.max = x.max
  /\ y.scroll + y.choice = item

----------------------------------------------------------------------------
(* The menu is drawn with its highlight in place *)

LEMMA Halves == ASSUME NEW m \in Nat PROVE /\ m \div 2 \in Nat
                                           /\ 2 * (m \div 2) <= m
                                           /\ m <= 2 * (m \div 2) + 1
OBVIOUS

LEMMA PlaceInList ==
  ASSUME NEW count \in Nat, NEW max \in Nat \ {0}, max <= count,
         NEW at \in Nat, at < count, NEW saved \in Int
  PROVE  /\ Place(count, max, at, saved) \in Nat
         /\ Place(count, max, at, saved) + max <= count
         /\ Place(count, max, at, saved) <= at
         /\ at < Place(count, max, at, saved) + max
<1> DEFINE h == max \div 2
<1>1. h \in Nat /\ 2 * h <= max /\ max <= 2 * h + 1
  BY Halves
<1>2. Place(count, max, at, saved) =
        IF saved <= at /\ at < saved + max /\ 0 <= saved /\ saved + max <= count THEN saved
        ELSE IF at < max THEN 0 ELSE IF at >= count - h THEN count - max ELSE at - h
  BY DEF Place
<1> HIDE DEF h
<1>3. CASE saved <= at /\ at < saved + max /\ 0 <= saved /\ saved + max <= count
  BY <1>2, <1>3
<1>4. CASE ~(saved <= at /\ at < saved + max /\ 0 <= saved /\ saved + max <= count)
  <2>1. CASE at < max
    BY <1>2, <1>4, <2>1
  <2>2. CASE at >= max /\ at >= count - h
    BY <1>1, <1>2, <1>4, <2>2
  <2>3. CASE at >= max /\ at < count - h
    <3>1. Place(count, max, at, saved) = at - h
      BY <1>1, <1>2, <1>4, <2>3
    <3>2. at - h \in Nat /\ at - h <= at
      BY <1>1, <2>3
    <3>3. at - h + max <= count
      BY <1>1, <2>3
    <3>4. at < at - h + max
      BY <1>1
    <3>5. QED BY <3>1, <3>2, <3>3, <3>4
  <2>4. QED BY <1>1, <2>1, <2>2, <2>3
<1>5. QED BY <1>3, <1>4

LEMMA DrawnMenu ==
  ASSUME NEW n \in Nat, n >= MenuLines, NEW count \in Nat \ {0},
         NEW sel \in -1..count-1, NEW saved \in Int, NEW choice \in Nat, choice < count,
         NEW first, NEW button
  PROVE  /\ IsMenu(MenuDraw(n, count, sel, saved, choice, first, button))
         /\ MenuDraw(n, count, sel, saved, choice, first, button).count = count
         /\ sel # -1 => MenuAt(MenuDraw(n, count, sel, saved, choice, first, button)) = sel
<1> DEFINE max == Lesser(WindowRows(n), count)
           at == IF sel = -1 THEN choice ELSE sel
           x == MenuDraw(n, count, sel, saved, choice, first, button)
<1>1. max \in Nat \ {0} /\ max <= count
  BY DEF Lesser, WindowRows, MenuLines
<1>2. at \in Nat /\ at < count
  OBVIOUS
<1>3. /\ DOMAIN x = MenuFields /\ x.kind = "menu" /\ x.count = count /\ x.max = max
      /\ x.scroll = Place(count, max, at, saved)
      /\ x.choice = at - Place(count, max, at, saved)
  BY DEF MenuDraw, MenuFields
<1> HIDE DEF max, at, x
<1> DEFINE p == Place(count, max, at, saved)
<1>4. p \in Nat /\ p + max <= count /\ p <= at /\ at < p + max
  BY <1>1, <1>2, PlaceInList
<1> HIDE DEF p
<1>5. x.scroll = p /\ x.choice = at - p
  BY <1>3 DEF p
<1>6. Placed(x)
  BY <1>1, <1>2, <1>3, <1>4, <1>5 DEF Placed
<1>7. sel # -1 => MenuAt(x) = sel
  BY <1>2, <1>4, <1>5 DEF MenuAt, at
<1>8. QED BY <1>3, <1>6, <1>7 DEF IsMenu, x

----------------------------------------------------------------------------
(* The keys of a menu *)

LEMMA MenuUpMoves ==
  ASSUME NEW x, IsMenu(x)
  PROVE  IsMenu(Up(x)) /\ Moves(x, Up(x), Greater(MenuAt(x) - 1, 0))
BY DEF IsMenu, MenuFields, Placed, Moves, MenuAt, Up, Shown, ScrolledDown, Greater

LEMMA MenuDownMoves ==
  ASSUME NEW x, IsMenu(x)
  PROVE  IsMenu(Down(x)) /\ Moves(x, Down(x), Lesser(MenuAt(x) + 1, x.count - 1))
BY DEF IsMenu, MenuFields, Placed, Moves, MenuAt, Down, Shown, ScrolledUp, Lesser

LEMMA MenuPageUpMoves ==
  ASSUME NEW x, IsMenu(x)
  PROVE  IsMenu(PageUp(x)) /\ Moves(x, PageUp(x), Greater(MenuAt(x) - x.max, 0))
BY DEF IsMenu, MenuFields, Placed, Moves, MenuAt, PageUp, Shown, ScrolledDown, Lesser, Greater

LEMMA MenuPageDownMoves ==
  ASSUME NEW x, IsMenu(x)
  PROVE  IsMenu(PageDown(x)) /\ Moves(x, PageDown(x), Lesser(MenuAt(x) + x.max, x.count - 1))
BY DEF IsMenu, MenuFields, Placed, Moves, MenuAt, PageDown, Shown, ScrolledUp, Lesser

\* The row a letter leads to is one of the window.
LEMMA HotkeyRow ==
  ASSUME NEW x, IsMenu(x), NEW c, Visible(x, c) # {}
  PROVE  NextOf(x, c) \in Nat /\ NextOf(x, c) < x.max
<1> DEFINE below == {i \in Visible(x, c) : i > x.choice}
           rows == IF below = {} THEN Visible(x, c) ELSE below
<1>1. rows # {} /\ \A i \in rows : i \in Nat /\ i < x.max
  BY DEF Visible, IsMenu, Placed
<1>2. NextOf(x, c) = CHOOSE i \in rows : \A k \in rows : i <= k
  BY DEF NextOf
<1> HIDE DEF rows
<1>3. \E i \in rows : \A k \in rows : i <= k
  <2>1. rows \in SUBSET Nat
    BY <1>1
  <2>2. PICK i \in rows : \A k \in rows : ~(<<k, i>> \in OpToRel(<, Nat))
    BY <1>1, <2>1, NatLessThanWellFounded, WFMin
  <2>3. \A k \in rows : ~(k < i)
    BY <2>1, <2>2 DEF OpToRel
  <2>4. QED BY <2>1, <2>3
<1>4. NextOf(x, c) \in rows
  BY <1>2, <1>3
<1>5. QED BY <1>1, <1>4

LEMMA MenuHotkeyMoves ==
  ASSUME NEW x, IsMenu(x), NEW c, Visible(x, c) # {}
  PROVE  IsMenu(Hot(x, c)) /\ Hot(x, c).count = x.count /\ Hot(x, c).max = x.max
<1>1. NextOf(x, c) \in Nat /\ NextOf(x, c) < x.max
  BY HotkeyRow
<1>2. QED BY <1>1 DEF IsMenu, MenuFields, Placed, Hot, Shown

LEMMA MenuButtonStays ==
  ASSUME NEW x, IsMenu(x), NEW y \in {ButtonLeft(x), ButtonRight(x)}
  PROVE  IsMenu(y) /\ y.count = x.count /\ y.max = x.max
BY DEF IsMenu, MenuFields, Placed, ButtonLeft, ButtonRight, MenuButton

----------------------------------------------------------------------------
(* The list of a choice *)

LEMMA DrawnCheck ==
  ASSUME ListHeight \in Nat \ {0}, NEW count \in Nat, NEW choice \in Nat,
         NEW scroll \in Nat, scroll + choice < count,
         scroll + Lesser(ListHeight, count) <= count, NEW button,
         choice >= ListHeight => scroll = 0
  PROVE  IsCheck(CheckDraw(count, choice, scroll, button))
<1> DEFINE x == CheckDraw(count, choice, scroll, button)
           max == Lesser(ListHeight, count)
<1>1. max \in Nat \ {0} /\ max <= count /\ max <= ListHeight
      /\ (choice >= ListHeight => max = ListHeight)
  BY DEF Lesser
<1>2. /\ DOMAIN x = CheckFields /\ x.kind = "check" /\ x.count = count /\ x.max = max
      /\ x.scroll = IF choice >= ListHeight THEN choice - ListHeight + 1 ELSE scroll
      /\ x.choice = IF choice >= ListHeight THEN choice - x.scroll ELSE choice
  BY DEF CheckDraw, CheckFields
<1> HIDE DEF x
<1>3. choice < ListHeight => choice < max
  BY DEF Lesser
<1> HIDE DEF max
<1>4. Placed(x)
  <2>1. CASE choice >= ListHeight
    BY <1>1, <1>2, <2>1 DEF Placed
  <2>2. CASE choice < ListHeight
    BY <1>1, <1>2, <1>3, <2>2 DEF Placed, max
  <2>3. QED BY <2>1, <2>2
<1>5. QED BY <1>2, <1>4 DEF IsCheck, x, max

LEMMA CheckUpMoves ==
  ASSUME NEW x, IsCheck(x)
  PROVE  IsCheck(CheckUp(x)) /\ Moves(x, CheckUp(x), Greater(CheckAt(x) - 1, 0))
BY DEF IsCheck, CheckFields, Placed, Moves, CheckAt, CheckUp, CheckMove, Greater

LEMMA CheckDownMoves ==
  ASSUME NEW x, IsCheck(x)
  PROVE  IsCheck(CheckDown(x)) /\ Moves(x, CheckDown(x), Lesser(CheckAt(x) + 1, x.count - 1))
BY DEF IsCheck, CheckFields, Placed, Moves, CheckAt, CheckDown, CheckMove, Lesser

LEMMA CheckKeyStays ==
  ASSUME NEW x, IsCheck(x), NEW i \in 0..x.max-1
  PROVE  IsCheck(CheckMove(x, i)) /\ IsCheck(OtherButton(x))
BY DEF IsCheck, CheckFields, Placed, CheckMove, OtherButton

----------------------------------------------------------------------------
(* What the keys draw *)

\* Each row of the window has been drawn, and with the item that is there.
HasRows(x) == DOMAIN x.rows = 0..x.max-1
InPlace(x) == \A i \in 0..x.max-1 : x.rows[i] = x.scroll + i
DrawnAs(x, y) == HasRows(y) /\ (InPlace(x) => InPlace(y))

LEMMA ShownDraws ==
  ASSUME NEW x, IsMenu(x), HasRows(x)
  PROVE  /\ IsMenu(Shown(x)) /\ DrawnAs(x, Shown(x))
         /\ Shown(x).scroll = x.scroll /\ Shown(x).choice = x.choice
         /\ Shown(x).max = x.max /\ Shown(x).count = x.count
BY DEF IsMenu, MenuFields, Placed, Shown, PrintItem, MenuAt, HasRows, InPlace, DrawnAs

\* The highlight moves within the window, and its row is drawn.
LEMMA ChoiceDraws ==
  ASSUME NEW x, IsMenu(x), HasRows(x), NEW c \in 0..x.max-1
  PROVE  /\ IsMenu([x EXCEPT !.choice = c])
         /\ DrawnAs(x, [x EXCEPT !.choice = c])
BY DEF IsMenu, MenuFields, Placed, HasRows, InPlace, DrawnAs

\* The window scrolls, and the lines that come into view are drawn.
LEMMA ScrolledUpDraws ==
  ASSUME NEW x, IsMenu(x), HasRows(x), NEW n \in Nat, x.scroll + n + x.max <= x.count
  PROVE  /\ IsMenu(ScrolledUp(x, n)) /\ DrawnAs(x, ScrolledUp(x, n))
         /\ ScrolledUp(x, n).max = x.max /\ ScrolledUp(x, n).choice = x.choice
<1> DEFINE y == ScrolledUp(x, n)
<1>1. IsMenu(y) /\ y.max = x.max /\ y.scroll = x.scroll + n /\ y.choice = x.choice
      /\ y.rows = [i \in DOMAIN x.rows |->
                     IF i + n < x.max THEN x.rows[i + n] ELSE x.scroll + n + i]
  BY DEF IsMenu, MenuFields, Placed, ScrolledUp
<1>2. x.max \in Nat /\ x.scroll \in Nat BY DEF IsMenu, Placed
<1>3. HasRows(y) BY <1>1 DEF HasRows
<1>4. ASSUME InPlace(x), NEW i \in 0..x.max-1 PROVE y.rows[i] = x.scroll + n + i
  <2>1. y.rows[i] = IF i + n < x.max THEN x.rows[i + n] ELSE x.scroll + n + i
    BY <1>1 DEF HasRows
  <2>2. i + n < x.max => x.rows[i + n] = x.scroll + (i + n) BY <1>2, <1>4 DEF InPlace
  <2> QED BY <1>2, <2>1, <2>2
<1>5. InPlace(x) => InPlace(y) BY <1>1, <1>4 DEF InPlace
<1> QED BY <1>1, <1>3, <1>5 DEF DrawnAs

LEMMA ScrolledDownDraws ==
  ASSUME NEW x, IsMenu(x), HasRows(x), NEW n \in Nat, n <= x.scroll
  PROVE  /\ IsMenu(ScrolledDown(x, n)) /\ DrawnAs(x, ScrolledDown(x, n))
         /\ ScrolledDown(x, n).max = x.max /\ ScrolledDown(x, n).choice = x.choice
<1> DEFINE y == ScrolledDown(x, n)
<1>1. IsMenu(y) /\ y.max = x.max /\ y.scroll = x.scroll - n /\ y.choice = x.choice
      /\ y.rows = [i \in DOMAIN x.rows |->
                     IF i >= n THEN x.rows[i - n] ELSE x.scroll - n + i]
  BY DEF IsMenu, MenuFields, Placed, ScrolledDown
<1>2. x.max \in Nat /\ x.scroll \in Nat BY DEF IsMenu, Placed
<1>3. HasRows(y) BY <1>1 DEF HasRows
<1>4. ASSUME InPlace(x), NEW i \in 0..x.max-1 PROVE y.rows[i] = x.scroll - n + i
  <2>1. y.rows[i] = IF i >= n THEN x.rows[i - n] ELSE x.scroll - n + i
    BY <1>1 DEF HasRows
  <2>2. i >= n => x.rows[i - n] = x.scroll + (i - n) BY <1>2, <1>4 DEF InPlace
  <2> QED BY <1>2, <2>1, <2>2
<1>5. InPlace(x) => InPlace(y) BY <1>1, <1>4 DEF InPlace
<1> QED BY <1>1, <1>3, <1>5 DEF DrawnAs

\* Each key of a menu is made of these.
LEMMA MenuKeysDraw ==
  ASSUME NEW x, IsMenu(x), HasRows(x)
  PROVE  /\ DrawnAs(x, Up(x)) /\ DrawnAs(x, Down(x))
         /\ DrawnAs(x, PageUp(x)) /\ DrawnAs(x, PageDown(x))
         /\ \A c : Visible(x, c) # {} => DrawnAs(x, Hot(x, c))
         /\ DrawnAs(x, ButtonLeft(x)) /\ DrawnAs(x, ButtonRight(x))
<1> DEFINE s == Shown(x)
<1>0. x.max \in Nat \ {0} /\ x.scroll \in Nat /\ x.scroll + x.max <= x.count /\ x.count \in Nat
      /\ x.choice \in 0..x.max-1
  BY DEF IsMenu, Placed
<1>1. IsMenu(s) /\ HasRows(s) /\ DrawnAs(x, s)
      /\ s.scroll = x.scroll /\ s.choice = x.choice /\ s.max = x.max /\ s.count = x.count
  BY ShownDraws DEF DrawnAs
<1> HIDE DEF s
<1>2. ASSUME NEW y, IsMenu(y), DrawnAs(s, y) PROVE DrawnAs(x, Shown(y))
  BY <1>1, <1>2, ShownDraws DEF DrawnAs
<1>3. ASSUME NEW y, IsMenu(y), DrawnAs(s, y), NEW c \in 0..y.max-1
      PROVE  DrawnAs(x, Shown([y EXCEPT !.choice = c]))
  <2>1. HasRows(y) BY <1>3 DEF DrawnAs
  <2>2. IsMenu([y EXCEPT !.choice = c]) /\ DrawnAs(y, [y EXCEPT !.choice = c])
    BY <1>3, <2>1, ChoiceDraws
  <2> QED BY <1>2, <1>3, <2>2 DEF DrawnAs
<1>4. DrawnAs(s, s) BY <1>1 DEF DrawnAs
<1>5. DrawnAs(x, Up(x))
  <2>1. CASE x.choice < 2 /\ x.scroll > 0
    <3>1. Up(x) = Shown(ScrolledDown(s, 1)) BY <2>1 DEF Up, s
    <3> QED BY <1>0, <1>1, <1>2, <2>1, <3>1, ScrolledDownDraws
  <2>2. CASE ~(x.choice < 2 /\ x.scroll > 0)
    <3>1. Up(x) = Shown([s EXCEPT !.choice = Greater(s.choice - 1, 0)]) BY <2>2 DEF Up, s
    <3>2. Greater(s.choice - 1, 0) \in 0..s.max-1 BY <1>0, <1>1 DEF Greater
    <3> QED BY <1>1, <1>3, <1>4, <3>1, <3>2
  <2> QED BY <2>1, <2>2
<1>6. DrawnAs(x, Down(x))
  <2> DEFINE scrolls == x.choice > x.max - 3 /\ x.scroll + x.max < x.count
  <2>1. CASE scrolls
    <3>1. Down(x) = Shown(ScrolledUp(s, 1)) BY <2>1 DEF Down, s
    <3>2. s.scroll + 1 + s.max <= s.count BY <1>0, <1>1, <2>1
    <3> QED BY <1>1, <1>2, <3>1, <3>2, ScrolledUpDraws
  <2>2. CASE ~scrolls
    <3>1. Down(x) = Shown([s EXCEPT !.choice = Lesser(s.choice + 1, x.max - 1)])
      BY <2>2 DEF Down, s
    <3>2. Lesser(s.choice + 1, x.max - 1) \in 0..s.max-1 BY <1>0, <1>1 DEF Lesser
    <3> QED BY <1>1, <1>3, <1>4, <3>1, <3>2
  <2> QED BY <2>1, <2>2
<1>7. DrawnAs(x, PageUp(x))
  <2> DEFINE n == Lesser(x.max, x.scroll)
             y == ScrolledDown(s, n)
             c == Greater(y.choice - (x.max - n), 0)
  <2>1. n \in Nat /\ n <= s.scroll /\ n <= x.max BY <1>0, <1>1 DEF Lesser
  <2>2. PageUp(x) = Shown([y EXCEPT !.choice = c]) BY DEF PageUp, s
  <2> HIDE DEF n
  <2>3. IsMenu(y) /\ DrawnAs(s, y) /\ y.max = x.max /\ y.choice = x.choice
    BY <1>1, <2>1, ScrolledDownDraws
  <2> HIDE DEF y
  <2>4. c \in 0..y.max-1 BY <1>0, <2>1, <2>3 DEF Greater
  <2> QED BY <1>3, <2>2, <2>3, <2>4
<1>8. DrawnAs(x, PageDown(x))
  <2> DEFINE n == Lesser(x.max, x.count - (x.scroll + x.max))
             y == ScrolledUp(s, n)
             c == Lesser(y.choice + (x.max - n), x.max - 1)
  <2>1. n \in Nat /\ s.scroll + n + s.max <= s.count /\ n <= x.max BY <1>0, <1>1 DEF Lesser
  <2>2. PageDown(x) = Shown([y EXCEPT !.choice = c]) BY DEF PageDown, s
  <2> HIDE DEF n
  <2>3. IsMenu(y) /\ DrawnAs(s, y) /\ y.max = x.max /\ y.choice = x.choice
    BY <1>1, <2>1, ScrolledUpDraws
  <2> HIDE DEF y
  <2>4. c \in 0..y.max-1 BY <1>0, <2>1, <2>3 DEF Lesser
  <2> QED BY <1>3, <2>2, <2>3, <2>4
<1>9. ASSUME NEW c, Visible(x, c) # {} PROVE DrawnAs(x, Hot(x, c))
  <2>1. NextOf(x, c) \in 0..s.max-1 BY <1>0, <1>1, <1>9, HotkeyRow
  <2>2. Hot(x, c) = Shown([s EXCEPT !.choice = NextOf(x, c)]) BY DEF Hot, s
  <2> QED BY <1>1, <1>3, <1>4, <2>1, <2>2
<1>10. DrawnAs(x, ButtonLeft(x)) /\ DrawnAs(x, ButtonRight(x))
  BY DEF IsMenu, MenuFields, Placed, ButtonLeft, ButtonRight, MenuButton, HasRows, InPlace, DrawnAs
<1> QED BY <1>5, <1>6, <1>7, <1>8, <1>9, <1>10

\* The list of a choice scrolls by one line at a time.
LEMMA CheckUpDraws ==
  ASSUME NEW x, IsCheck(x), HasRows(x)
  PROVE  DrawnAs(x, CheckUp(x))
<1>0. x.max \in Nat \ {0} /\ x.scroll \in Nat BY DEF IsCheck, Placed
<1>1. CASE x.choice > 0 \/ x.scroll = 0
  BY <1>1 DEF IsCheck, CheckFields, Placed, CheckUp, CheckMove, CheckAt, HasRows, InPlace, DrawnAs
<1>2. CASE ~(x.choice > 0 \/ x.scroll = 0)
  <2> DEFINE y == CheckUp(x)
  <2>1. y.max = x.max /\ y.scroll = x.scroll - 1
        /\ y.rows = [i \in DOMAIN x.rows |-> IF i = 0 THEN x.scroll - 1 ELSE x.rows[i - 1]]
    BY <1>2 DEF IsCheck, CheckFields, CheckUp
  <2> HIDE DEF y
  <2>2. HasRows(y) BY <2>1 DEF HasRows
  <2>3. ASSUME InPlace(x), NEW i \in 0..x.max-1 PROVE y.rows[i] = y.scroll + i
    <3>1. y.rows[i] = IF i = 0 THEN x.scroll - 1 ELSE x.rows[i - 1] BY <2>1 DEF HasRows
    <3>2. i # 0 => x.rows[i - 1] = x.scroll + (i - 1) BY <1>0, <2>3 DEF InPlace
    <3> QED BY <1>0, <2>1, <3>1, <3>2
  <2> QED BY <2>1, <2>2, <2>3 DEF DrawnAs, InPlace, y
<1> QED BY <1>1, <1>2

LEMMA CheckDownDraws ==
  ASSUME NEW x, IsCheck(x), HasRows(x)
  PROVE  DrawnAs(x, CheckDown(x))
<1> DEFINE stays == x.choice < x.max - 1 \/ x.scroll + x.choice >= x.count - 1
<1>0. x.max \in Nat \ {0} /\ x.scroll \in Nat BY DEF IsCheck, Placed
<1>1. CASE stays
  BY <1>1 DEF IsCheck, CheckFields, Placed, CheckDown, CheckMove, CheckAt, HasRows, InPlace, DrawnAs
<1>2. CASE ~stays
  <2> DEFINE y == CheckDown(x)
  <2>1. y.max = x.max /\ y.scroll = x.scroll + 1
        /\ y.rows = [i \in DOMAIN x.rows |->
                       IF i = x.max - 1 THEN x.scroll + x.max ELSE x.rows[i + 1]]
    BY <1>2 DEF IsCheck, CheckFields, CheckDown
  <2> HIDE DEF y
  <2>2. HasRows(y) BY <2>1 DEF HasRows
  <2>3. ASSUME InPlace(x), NEW i \in 0..x.max-1 PROVE y.rows[i] = y.scroll + i
    <3>1. y.rows[i] = IF i = x.max - 1 THEN x.scroll + x.max ELSE x.rows[i + 1]
      BY <2>1 DEF HasRows
    <3>2. i # x.max - 1 => x.rows[i + 1] = x.scroll + (i + 1) BY <1>0, <2>3 DEF InPlace
    <3> QED BY <1>0, <2>1, <3>1, <3>2
  <2> QED BY <2>1, <2>2, <2>3 DEF DrawnAs, InPlace, y
<1> QED BY <1>1, <1>2

LEMMA CheckKeyDraws ==
  ASSUME NEW x, IsCheck(x), HasRows(x), NEW i \in 0..x.max-1
  PROVE  DrawnAs(x, CheckMove(x, i)) /\ DrawnAs(x, OtherButton(x))
BY DEF IsCheck, CheckFields, Placed, CheckMove, CheckAt, OtherButton, HasRows, InPlace, DrawnAs

----------------------------------------------------------------------------
(* A field *)

InputFields == {"kind", "text", "pos", "show", "col", "button", "lit", "cells"}
CharAt(t, n) == IF n < Len(t) THEN t[n + 1] ELSE Blank

\* A field with its cursor on the column of the character it is before.
IsField(x) ==
  /\ DOMAIN x = InputFields /\ x.kind = "input" /\ x.text \in Seq(STRING)
  /\ x.show \in Nat /\ x.col \in 0..Width-1
  /\ x.pos = x.show + x.col /\ x.pos <= Len(x.text)
  /\ DOMAIN x.cells = 0..Width-1
\* And with the part of the text drawn that it is on.
FieldDrawn(x) == \A i \in 0..Width-1 : x.cells[i] = CharAt(x.text, x.show + i)

\* A redrawn field leaves the cells behind the end of the text alone, but the
\* first: the others have to be blank before.
LEMMA RedrawnField ==
  ASSUME NEW x, IsField(x),
         \A i \in 0..Width-1 : x.show + i > Len(x.text) => x.cells[i] = Blank
  PROVE  IsField(Redrawn(x)) /\ FieldDrawn(Redrawn(x))
<1> DEFINE y == Redrawn(x)
           len == Len(x.text)
<1>0. len \in Nat /\ x.show \in Nat /\ Width \in Nat BY FieldAssumption DEF IsField
<1>1. /\ \A f \in InputFields \ {"cells"} : y[f] = x[f]
      /\ DOMAIN y = InputFields
      /\ y.cells = [i \in DOMAIN x.cells |->
           IF x.show + i < len THEN x.text[x.show + i + 1]
           ELSE IF x.show + i = len THEN Blank ELSE x.cells[i]]
  BY DEF Redrawn, IsField, InputFields
<1> HIDE DEF y, len
<1>2. IsField(y) BY <1>1 DEF IsField, InputFields
<1>3. ASSUME NEW i \in 0..Width-1 PROVE y.cells[i] = CharAt(y.text, y.show + i)
  <2>1. y.cells[i] = IF x.show + i < len THEN x.text[x.show + i + 1]
                     ELSE IF x.show + i = len THEN Blank ELSE x.cells[i]
    BY <1>1 DEF IsField
  <2>2. y.text = x.text /\ y.show = x.show BY <1>1 DEF InputFields
  <2>3. x.show + i > len => x.cells[i] = Blank BY DEF len
  <2> QED BY <1>0, <2>1, <2>2, <2>3 DEF CharAt, len
<1> QED BY <1>2, <1>3 DEF FieldDrawn, y

LEMMA DrawnField ==
  ASSUME NEW t \in Seq(STRING), NEW button
  PROVE  IsField(InputDraw(t, button)) /\ FieldDrawn(InputDraw(t, button))
<1> DEFINE x == InputDraw(t, button)
           show == IF Len(t) >= Width THEN Len(t) - Width + 1 ELSE 0
<1>0. Len(t) \in Nat /\ Width \in Nat \ {0} BY FieldAssumption
<1>1. show \in Nat /\ Len(t) - show \in 0..Width-1 BY <1>0
<1>2. /\ DOMAIN x = InputFields /\ x.kind = "input" /\ x.text = t /\ x.pos = Len(t)
      /\ x.show = show /\ x.col = Len(t) - show
      /\ x.cells = [i \in 0..Width-1 |-> IF show + i < Len(t) THEN t[show + i + 1] ELSE Blank]
  BY DEF InputDraw, InputFields
<1> HIDE DEF x, show
<1>3. IsField(x) BY <1>0, <1>1, <1>2 DEF IsField
<1>4. FieldDrawn(x) BY <1>2 DEF FieldDrawn, CharAt
<1> QED BY <1>3, <1>4 DEF x

\* The text with a character more, or one less.
LEMMA WithText ==
  ASSUME NEW T, NEW t \in Seq(T), NEW i \in 0..Len(t), NEW c \in T
  PROVE  With(t, i, c) \in Seq(T) /\ Len(With(t, i, c)) = Len(t) + 1
<1>0. Len(t) \in Nat /\ i \in Nat /\ i <= Len(t) OBVIOUS
<1>1. SubSeq(t, 1, i) \in Seq(T) /\ Len(SubSeq(t, 1, i)) = i BY <1>0, SubSeqProperties
<1>2. SubSeq(t, i + 1, Len(t)) \in Seq(T) /\ Len(SubSeq(t, i + 1, Len(t))) = Len(t) - i
  BY <1>0, SubSeqProperties
<1>3. <<c>> \in Seq(T) /\ Len(<<c>>) = 1 OBVIOUS
<1> DEFINE a == SubSeq(t, 1, i) \o <<c>>
           b == SubSeq(t, i + 1, Len(t))
<1>4. a \in Seq(T) /\ Len(a) = i + 1 BY <1>1, <1>3, ConcatProperties
<1>5. With(t, i, c) = a \o b BY DEF With
<1> HIDE DEF a
<1>6. b \in Seq(T) /\ Len(b) = Len(t) - i BY <1>2
<1> HIDE DEF b
<1>7. a \o b \in Seq(T) /\ Len(a \o b) = Len(a) + Len(b) BY <1>4, <1>6, ConcatProperties
<1> QED BY <1>0, <1>4, <1>5, <1>6, <1>7

LEMMA WithoutText ==
  ASSUME NEW T, NEW t \in Seq(T), NEW i \in 0..Len(t)-1
  PROVE  Without(t, i) \in Seq(T) /\ Len(Without(t, i)) = Len(t) - 1
<1>0. Len(t) \in Nat /\ i \in Nat /\ i < Len(t) OBVIOUS
<1> DEFINE a == SubSeq(t, 1, i)
           b == SubSeq(t, i + 2, Len(t))
<1>1. a \in Seq(T) /\ Len(a) = i BY <1>0, SubSeqProperties
<1>2. b \in Seq(T) /\ Len(b) = Len(t) - i - 1 BY <1>0, SubSeqProperties
<1>3. Without(t, i) = a \o b BY DEF Without
<1> HIDE DEF a, b
<1>4. a \o b \in Seq(T) /\ Len(a \o b) = Len(a) + Len(b) BY <1>1, <1>2, ConcatProperties
<1> QED BY <1>0, <1>1, <1>2, <1>3, <1>4

\* A field that is drawn is blank behind its text, wherever it begins.
LEMMA BlankBehind ==
  ASSUME NEW x, IsField(x), FieldDrawn(x), NEW i \in 0..Width-1, x.show + i >= Len(x.text)
  PROVE  x.cells[i] = Blank
<1>1. Len(x.text) \in Nat /\ x.show \in Nat /\ i \in Int BY FieldAssumption DEF IsField
<1> QED BY <1>1 DEF FieldDrawn, CharAt

LEMMA FieldKeys ==
  ASSUME NEW x, IsField(x), FieldDrawn(x)
  PROVE  /\ IsField(Backspace(x)) /\ FieldDrawn(Backspace(x))
         /\ IsField(CursorLeft(x)) /\ FieldDrawn(CursorLeft(x))
         /\ IsField(CursorRight(x)) /\ FieldDrawn(CursorRight(x))
         /\ \A c \in STRING : IsField(Insert(x, c)) /\ FieldDrawn(Insert(x, c))
         /\ \A b : IsField(InputButton(x, b)) /\ FieldDrawn(InputButton(x, b))
<1> DEFINE len == Len(x.text)
<1>0. /\ len \in Nat /\ x.show \in Nat /\ x.col \in 0..Width-1 /\ Width \in Nat \ {0}
      /\ x.pos = x.show + x.col /\ x.pos <= len /\ x.text \in Seq(STRING)
      /\ DOMAIN x = InputFields /\ x.kind = "input" /\ DOMAIN x.cells = 0..Width-1
  BY FieldAssumption DEF IsField
<1>1. ASSUME NEW t \in Seq(STRING), NEW show \in Nat, NEW col \in 0..Width-1, NEW pos,
             pos = show + col, pos <= Len(t),
             \A i \in 0..Width-1 : show + i > Len(t) => x.show + i >= len
      PROVE  LET y == [x EXCEPT !.text = t, !.pos = pos, !.show = show, !.col = col]
             IN  IsField(Redrawn(y)) /\ FieldDrawn(Redrawn(y))
  <2> DEFINE y == [x EXCEPT !.text = t, !.pos = pos, !.show = show, !.col = col]
  <2>1. IsField(y) /\ y.text = t /\ y.show = show /\ y.cells = x.cells
    BY <1>0, <1>1 DEF IsField, InputFields
  <2>2. \A i \in 0..Width-1 : y.show + i > Len(y.text) => y.cells[i] = Blank
    BY <1>1, <2>1, BlankBehind
  <2> HIDE DEF y
  <2>3. IsField(Redrawn(y)) /\ FieldDrawn(Redrawn(y)) BY <2>1, <2>2, RedrawnField
  <2> QED BY <2>3 DEF y
<1>2. ASSUME NEW y, NEW col \in 0..Width-1,
             y = [x EXCEPT !.pos = x.show + col, !.col = col], x.show + col <= len
      PROVE  IsField(y) /\ FieldDrawn(y)
  BY <1>0, <1>2 DEF IsField, FieldDrawn, InputFields
<1>3. IsField(Backspace(x)) /\ FieldDrawn(Backspace(x))
  <2>1. CASE x.pos = 0 BY <2>1 DEF Backspace
  <2>2. CASE x.pos # 0
    <3> DEFINE t == Without(x.text, x.pos - 1)
               show == IF x.col = 0 THEN x.show - 1 ELSE x.show
               col == IF x.col = 0 THEN 0 ELSE x.col - 1
    <3>1. t \in Seq(STRING) /\ Len(t) = len - 1
      <4>1. x.pos - 1 \in 0..len /\ x.pos - 1 < len BY <1>0, <2>2
      <4> QED BY <1>0, <4>1, WithoutText
    <3>2. show \in Nat /\ col \in 0..Width-1 /\ show + col = x.pos - 1 /\ show <= x.show /\ x.pos - 1 <= len - 1
      BY <1>0, <2>2
    <3>3. Backspace(x) = Redrawn([x EXCEPT !.text = t, !.pos = x.pos - 1, !.show = show, !.col = col])
      BY <2>2 DEF Backspace
    <3> HIDE DEF t, show, col
    <3>4. \A i \in 0..Width-1 : show + i > Len(t) => x.show + i >= len
      BY <1>0, <3>1, <3>2
    <3>5. LET y == [x EXCEPT !.text = t, !.pos = x.pos - 1, !.show = show, !.col = col]
          IN  IsField(Redrawn(y)) /\ FieldDrawn(Redrawn(y))
      <4>1. x.pos - 1 = show + col /\ x.pos - 1 <= Len(t) BY <3>1, <3>2
      <4> QED BY <1>1, <3>1, <3>2, <3>4, <4>1
    <3> QED BY <3>3, <3>5
  <2> QED BY <2>1, <2>2
<1>4. IsField(CursorLeft(x)) /\ FieldDrawn(CursorLeft(x))
  <2>1. CASE x.pos = 0 BY <2>1 DEF CursorLeft
  <2>2. CASE x.pos # 0 /\ x.col > 0
    <3>1. CursorLeft(x) = [x EXCEPT !.pos = x.pos - 1, !.col = x.col - 1] BY <2>2 DEF CursorLeft
    <3>2. x.col - 1 \in 0..Width-1 /\ x.pos - 1 = x.show + (x.col - 1) /\ x.pos - 1 <= len
      BY <1>0, <2>2
    <3> QED BY <1>2, <3>1, <3>2
  <2>3. CASE x.pos # 0 /\ ~(x.col > 0)
    <3>1. CursorLeft(x) = Redrawn([x EXCEPT !.pos = x.pos - 1, !.show = x.show - 1])
      BY <2>3 DEF CursorLeft
    <3>2. [x EXCEPT !.pos = x.pos - 1, !.show = x.show - 1]
            = [x EXCEPT !.text = x.text, !.pos = x.pos - 1, !.show = x.show - 1, !.col = x.col]
      BY <1>0 DEF InputFields
    <3>3. x.show - 1 \in Nat /\ x.pos - 1 = (x.show - 1) + x.col /\ x.pos - 1 <= len
          /\ \A i \in 0..Width-1 : (x.show - 1) + i > len => x.show + i >= len
      BY <1>0, <2>3
    <3>4. LET y == [x EXCEPT !.text = x.text, !.pos = x.pos - 1, !.show = x.show - 1, !.col = x.col]
          IN  IsField(Redrawn(y)) /\ FieldDrawn(Redrawn(y))
      BY <1>0, <1>1, <3>3
    <3> QED BY <3>1, <3>2, <3>4
  <2> QED BY <2>1, <2>2, <2>3
<1>5. IsField(CursorRight(x)) /\ FieldDrawn(CursorRight(x))
  <2>1. CASE x.pos = len BY <2>1 DEF CursorRight
  <2>2. CASE x.pos # len /\ x.col < Width - 1
    <3>1. CursorRight(x) = [x EXCEPT !.pos = x.pos + 1, !.col = x.col + 1] BY <2>2 DEF CursorRight
    <3>2. x.col + 1 \in 0..Width-1 /\ x.pos + 1 = x.show + (x.col + 1) /\ x.pos + 1 <= len
      BY <1>0, <2>2
    <3> QED BY <1>2, <3>1, <3>2
  <2>3. CASE x.pos # len /\ ~(x.col < Width - 1)
    <3>1. CursorRight(x) = Redrawn([x EXCEPT !.pos = x.pos + 1, !.show = x.show + 1])
      BY <2>3 DEF CursorRight
    <3>2. [x EXCEPT !.pos = x.pos + 1, !.show = x.show + 1]
            = [x EXCEPT !.text = x.text, !.pos = x.pos + 1, !.show = x.show + 1, !.col = x.col]
      BY <1>0 DEF InputFields
    <3>3. x.show + 1 \in Nat /\ x.pos + 1 = (x.show + 1) + x.col /\ x.pos + 1 <= len
          /\ \A i \in 0..Width-1 : (x.show + 1) + i > len => x.show + i >= len
      BY <1>0, <2>3
    <3>4. LET y == [x EXCEPT !.text = x.text, !.pos = x.pos + 1, !.show = x.show + 1, !.col = x.col]
          IN  IsField(Redrawn(y)) /\ FieldDrawn(Redrawn(y))
      BY <1>0, <1>1, <3>3
    <3> QED BY <3>1, <3>2, <3>4
  <2> QED BY <2>1, <2>2, <2>3
<1>6. ASSUME NEW c \in STRING PROVE IsField(Insert(x, c)) /\ FieldDrawn(Insert(x, c))
  <2>1. CASE Len(x.text) >= MaxLen BY <2>1 DEF Insert
  <2>2. CASE ~(Len(x.text) >= MaxLen)
    <3> DEFINE t == With(x.text, x.pos, c)
               show == IF x.col = Width - 1 THEN x.show + 1 ELSE x.show
               col == IF x.col = Width - 1 THEN x.col ELSE x.col + 1
    <3>1. t \in Seq(STRING) /\ Len(t) = len + 1
      <4>1. x.pos \in 0..len BY <1>0
      <4> QED BY <1>0, <4>1, WithText
    <3>2. show \in Nat /\ col \in 0..Width-1 /\ show + col = x.pos + 1 /\ show <= x.show + 1 /\ x.pos + 1 <= len + 1
      BY <1>0
    <3>3. Insert(x, c) = Redrawn([x EXCEPT !.text = t, !.pos = x.pos + 1, !.show = show, !.col = col])
      BY <2>2 DEF Insert
    <3> HIDE DEF t, show, col
    <3>4. \A i \in 0..Width-1 : show + i > Len(t) => x.show + i >= len
      BY <1>0, <3>1, <3>2
    <3>5. LET y == [x EXCEPT !.text = t, !.pos = x.pos + 1, !.show = show, !.col = col]
          IN  IsField(Redrawn(y)) /\ FieldDrawn(Redrawn(y))
      <4>1. x.pos + 1 = show + col /\ x.pos + 1 <= Len(t) BY <3>1, <3>2
      <4> QED BY <1>1, <3>1, <3>2, <3>4, <4>1
    <3> QED BY <3>3, <3>5
  <2> QED BY <2>1, <2>2
<1>7. ASSUME NEW b PROVE IsField(InputButton(x, b)) /\ FieldDrawn(InputButton(x, b))
  BY <1>0 DEF InputButton, IsField, FieldDrawn, InputFields
<1> QED BY <1>3, <1>4, <1>5, <1>6, <1>7

----------------------------------------------------------------------------
(* The session *)

MenuOK(m) ==
  /\ DOMAIN m = {"count", "sel", "saved"}
  /\ m.count \in Nat \ {0} /\ m.sel \in -1..m.count-1 /\ m.saved \in Int

\* What a dialog may be, over the menu m on a terminal of n lines.
DialogOK(x, m, n) ==
  /\ "kind" \in DOMAIN x
  /\ x.kind \in {"menu", "check", "input", "text", "yesno", "none", "stuck"}
  /\ x.kind = "menu" => IsMenu(x) /\ x.count = m.count /\ n >= MenuLines
  /\ x.kind = "check" => IsCheck(x)

\* The inductive invariant: of the menu behind a dialog it only says that its
\* selected item, if it has one, is in the list.
SessionInv == lines \in Nat /\ MenuOK(menu) /\ DialogOK(w, menu, lines)

LEMMA MenuOrEndOK ==
  ASSUME NEW n \in Nat, NEW m, MenuOK(m)
  PROVE  DialogOK(MenuOrEnd(n, m), m, n)
<1>1. CASE n < MenuLines
  BY <1>1 DEF MenuOrEnd, DialogOK, None
<1>2. CASE n >= MenuLines
  <2>1. MenuOrEnd(n, m) = MenuDraw(n, m.count, m.sel, m.saved, 0, 0, 0)
    BY <1>2 DEF MenuOrEnd, MenuOpen, MenuLines
  <2>2. IsMenu(MenuOrEnd(n, m)) /\ MenuOrEnd(n, m).count = m.count
    BY <1>2, <2>1, DrawnMenu DEF MenuOK
  <2>3. QED BY <1>2, <2>2 DEF DialogOK, IsMenu, MenuFields
<1>3. QED BY <1>1, <1>2 DEF MenuLines

LEMMA LeaveOK ==
  ASSUME MenuOK(menu), NEW x, IsMenu(x), x.count = menu.count
  PROVE  MenuOK(Leave(x)) /\ Leave(x).count = menu.count
BY DEF MenuOK, Leave, IsMenu, Placed, MenuAt

LEMMA InitSession == Init => SessionInv
<1> SUFFICES ASSUME Init PROVE SessionInv
  OBVIOUS
<1>1. lines \in Nat /\ lines >= MenuLines
  BY SessionAssumption DEF Init
<1>2. MenuOK(menu) /\ menu.sel = -1 /\ menu.saved = 0
  <2>1. menu \in [count : Counts, sel : {-1}, saved : {0}]
    BY DEF Init
  <2>2. menu.count \in Nat \ {0} /\ menu.sel = -1 /\ menu.saved = 0
    BY <2>1, SessionAssumption
  <2>3. DOMAIN menu = {"count", "sel", "saved"}
    BY <2>1
  <2>4. QED BY <2>2, <2>3 DEF MenuOK
<1>3. w = MenuOrEnd(lines, menu)
  BY <1>1, <1>2 DEF Init, MenuOrEnd, MenuLines
<1>4. QED BY <1>1, <1>2, <1>3, MenuOrEndOK DEF SessionInv

\* The keys of a text box, which stay in it.
TextKey ==
  \/ TextLineUp \/ TextLineDown \/ TextPageUp \/ TextPageDown \/ TextHome \/ TextEnd
  \/ TextSideways

LEMMA TextKeysStay ==
  ASSUME SessionInv, TextKey
  PROVE  /\ w.kind = "text" /\ w'.kind = "text" /\ "kind" \in DOMAIN w'
         /\ UNCHANGED <<lines, menu, moved>>
<1>1. w.kind = "text" /\ "kind" \in DOMAIN w /\ UNCHANGED <<lines, menu, moved>>
  BY DEF TextKey, TextLineUp, TextLineDown, TextPageUp, TextPageDown, TextHome, TextEnd,
     TextSideways, Press, Open, SessionInv, DialogOK
<1>2. ASSUME NEW x, x.kind = "text", "kind" \in DOMAIN x, NEW n
      PROVE  /\ BackLines(x, n).kind = "text" /\ "kind" \in DOMAIN BackLines(x, n)
             /\ PrintPage(x).kind = "text" /\ "kind" \in DOMAIN PrintPage(x)
  BY <1>2 DEF BackLines, BackFrom, PrintPage
<1>3. ASSUME NEW h PROVE SidewaysTo(w, h).kind = "text" /\ "kind" \in DOMAIN SidewaysTo(w, h)
  <2>1. [w EXCEPT !.hscroll = h].kind = "text" /\ "kind" \in DOMAIN [w EXCEPT !.hscroll = h]
    BY <1>1
  <2>2. QED BY <1>2, <2>1 DEF SidewaysTo
<1>4. CASE TextLineUp \/ TextLineDown \/ TextPageUp
  BY <1>1, <1>2, <1>4 DEF TextLineUp, TextLineDown, TextPageUp, Press,
     PreviousLine, NextLine, PreviousPage
<1>5. CASE TextPageDown
  BY <1>1, <1>2, <1>5 DEF TextPageDown, Press, NextPage
<1>6. CASE TextHome
  BY <1>1, <1>2, <1>6 DEF TextHome, Press, FirstPage
<1>7. CASE TextEnd
  BY <1>1, <1>2, <1>7 DEF TextEnd, Press, LastPage
<1>8. CASE TextSideways
  BY <1>1, <1>3, <1>8 DEF TextSideways, Press, ScrollLeft, ScrollRight, LineStart
<1>9. QED BY <1>1, <1>4, <1>5, <1>6, <1>7, <1>8 DEF TextKey

LEMMA KeyKeeps ==
  ASSUME SessionInv, Key
  PROVE  SessionInv'
<1> USE DEF SessionInv
<1>1. ASSUME NEW x, Press("menu", x), IsMenu(x), x.count = w.count PROVE SessionInv'
  BY <1>1 DEF Press, Open, DialogOK, IsMenu, MenuFields
<1>2. ASSUME NEW x, Press("check", x), IsCheck(x) PROVE SessionInv'
  BY <1>2 DEF Press, Open, DialogOK, IsCheck, CheckFields
<1>3. ASSUME NEW x, "kind" \in DOMAIN x, x.kind \in {"input", "text", "yesno"}, w' = x,
             UNCHANGED <<lines, menu, moved>> PROVE SessionInv'
  BY <1>3 DEF DialogOK
<1>4. Open("menu") => IsMenu(w)
  BY DEF Open, DialogOK
<1>5. Open("check") => IsCheck(w)
  BY DEF Open, DialogOK
<1>6. CASE MenuUp
  BY <1>1, <1>4, <1>6, MenuUpMoves DEF MenuUp, Press, Moves
<1>7. CASE MenuDown
  BY <1>1, <1>4, <1>7, MenuDownMoves DEF MenuDown, Press, Moves
<1>8. CASE MenuPageUp
  BY <1>1, <1>4, <1>8, MenuPageUpMoves DEF MenuPageUp, Press, Moves
<1>9. CASE MenuPageDown
  BY <1>1, <1>4, <1>9, MenuPageDownMoves DEF MenuPageDown, Press, Moves
<1>10. CASE MenuHotkey
  BY <1>1, <1>4, <1>10, MenuHotkeyMoves DEF MenuHotkey
<1>11. CASE MenuTab
  BY <1>1, <1>4, <1>11, MenuButtonStays DEF MenuTab
<1>12. CASE ListUp
  BY <1>2, <1>5, <1>12, CheckUpMoves DEF ListUp, Press
<1>13. CASE ListDown
  BY <1>2, <1>5, <1>13, CheckDownMoves DEF ListDown, Press
<1>14. CASE ListHotkey
  <2>1. PICK i \in 0..ListHeight-1 : Open("check") /\ i < w.max /\ Press("check", CheckMove(w, i))
    BY <1>14 DEF ListHotkey
  <2>2. i \in 0..w.max-1
    BY <1>5, <2>1, SessionAssumption DEF IsCheck, Placed
  <2>3. QED BY <1>2, <1>5, <2>1, <2>2, CheckKeyStays
<1>15. CASE OtherButtonKey
  <2>1. PICK k \in {"check", "yesno"} : Press(k, OtherButton(w))
    BY <1>15 DEF OtherButtonKey
  <2>2. CASE k = "check"
    <3>1. IsCheck(w) /\ 0 \in 0..w.max-1
      BY <1>5, <2>1, <2>2 DEF Press, IsCheck, Placed
    <3>2. QED BY <1>2, <2>1, <2>2, <3>1, CheckKeyStays
  <2>3. CASE k = "yesno"
    <3>1. OtherButton(w).kind = "yesno" /\ "kind" \in DOMAIN OtherButton(w)
      BY <2>1, <2>3 DEF OtherButton, Press, Open, DialogOK
    <3>2. QED BY <1>3, <2>1, <3>1 DEF Press
  <2>4. QED BY <2>1, <2>2, <2>3
<1>16. CASE TypeKey \/ BackspaceKey \/ LeftKey \/ RightKey \/ FieldTab
  <2>1. w.kind = "input" /\ "kind" \in DOMAIN w /\ UNCHANGED <<lines, menu, moved>>
    BY <1>16 DEF TypeKey, BackspaceKey, LeftKey, RightKey, FieldTab, FieldKey, Press, Open, DialogOK
  <2>2. w'.kind = "input" /\ "kind" \in DOMAIN w'
    BY <1>16, <2>1 DEF TypeKey, BackspaceKey, LeftKey, RightKey, FieldTab, FieldKey, Press,
       Insert, Backspace, CursorLeft, CursorRight, InputNext, InputPrevious, InputButton, Redrawn
  <2>3. QED BY <1>3, <2>1, <2>2
<1>17. CASE TextKey
  BY <1>3, <1>17, TextKeysStay
<1>18. QED
  BY <1>6, <1>7, <1>8, <1>9, <1>10, <1>11, <1>12, <1>13, <1>14, <1>15, <1>16, <1>17 DEF Key, TextKey

LEMMA ChangedOK ==
  ASSUME NEW m, MenuOK(m), NEW x \in Changed(m)
  PROVE  MenuOK(x)
<1>1. PICK n \in Counts : \E i \in -1..n-1 : x = [m EXCEPT !.count = n, !.sel = i]
  BY DEF Changed
<1>2. QED BY <1>1, SessionAssumption DEF MenuOK

\* The menu is drawn as it then is, on the terminal as it then is.
LEMMA ComesBack ==
  ASSUME SessionInv, Change \/ Return
  PROVE  /\ MenuOK(menu') /\ lines' \in Nat /\ lines' = lines
         /\ w' = MenuOrEnd(lines', menu')
<1>1. CASE Return
  BY <1>1, ChangedOK DEF Return, SessionInv
<1>2. CASE Change
  <2>1. /\ IsMenu(w) /\ w.count = menu.count /\ MenuOK(menu)
        /\ lines' = lines /\ lines \in Nat /\ lines >= MenuLines
    BY <1>2 DEF SessionInv, DialogOK, Change, Open
  <2>2. MenuOK(menu')
    BY <1>2, <2>1, LeaveOK, ChangedOK DEF Change
  <2>3. w' = MenuOrEnd(lines, menu')
    BY <1>2, <2>1 DEF Change, MenuOrEnd, MenuLines
  <2>4. QED BY <2>1, <2>2, <2>3
<1>3. QED BY <1>1, <1>2

LEMMA SelectKeeps ==
  ASSUME SessionInv, Select
  PROVE  SessionInv'
<1>1. MenuOK(menu') /\ lines' = lines /\ lines \in Nat
  BY LeaveOK DEF SessionInv, DialogOK, Select, Open
<1>2. w' \in Opened
  BY DEF Select
<1>3. ASSUME NEW n \in Members, NEW i \in 0..n-1 PROVE IsCheck(CheckOpen(n, i))
  <2>1. n \in Nat /\ i \in Nat /\ i < n
    BY SessionAssumption
  <2>2. Lesser(ListHeight, n) <= n /\ 0 + i < n /\ 0 + Lesser(ListHeight, n) <= n
    BY <2>1, SessionAssumption DEF Lesser
  <2>3. QED BY <2>1, <2>2, DrawnCheck, SessionAssumption DEF CheckOpen
<1>4. /\ "kind" \in DOMAIN w' /\ w'.kind \in {"check", "input", "text"}
      /\ w'.kind = "check" => IsCheck(w')
  <2>1. CASE w' \in {InputOpen(t) : t \in Inits}
    BY <2>1 DEF InputOpen, InputDraw
  <2>2. CASE w' \in {TextOpen(t, lines - TextLines, FALSE) : t \in Texts}
    BY <2>2 DEF TextOpen, PrintPage
  <2>3. CASE w' \in UNION {{CheckOpen(n, i) : i \in 0..n-1} : n \in Members}
    <3>1. IsCheck(w')
      BY <1>3, <2>3
    <3>2. QED BY <3>1 DEF IsCheck, CheckFields
  <2>4. QED BY <1>2, <2>1, <2>2, <2>3 DEF Opened
<1>5. QED BY <1>1, <1>4 DEF SessionInv, DialogOK

LEMMA ResizeKeeps ==
  ASSUME SessionInv, Resize
  PROVE  SessionInv'
<1>1. lines' \in Nat /\ menu' = menu /\ MenuOK(menu) /\ w' = Redraw(lines')
  BY SessionAssumption DEF Resize, SessionInv
<1> SUFFICES DialogOK(Redraw(lines'), menu, lines')
  BY <1>1 DEF SessionInv
<1> DEFINE n == lines'
<1>2. n \in Nat
  BY <1>1
<1> HIDE DEF n
<1>3. CASE Open("menu")
  <2>1. Redraw(n) = IF n < MenuLines THEN None ELSE MenuResize(w, n, menu.sel, menu.saved)
    BY <1>3 DEF Redraw, Open
  <2>2. CASE n < MenuLines
    BY <2>1, <2>2 DEF DialogOK, None, n
  <2>3. CASE ~(n < MenuLines)
    <3>1. IsMenu(w) /\ w.count = menu.count /\ n >= MenuLines
      BY <1>2, <1>3, <2>3 DEF SessionInv, DialogOK, Open, MenuLines
    <3>2. w.choice \in Nat /\ w.choice < menu.count
      BY <3>1 DEF IsMenu, Placed
    <3>3. Redraw(n) = MenuDraw(n, menu.count, menu.sel, menu.saved, w.choice, w.first, w.button)
      BY <2>1, <2>3, <3>1 DEF MenuResize
    <3>4. IsMenu(Redraw(n)) /\ Redraw(n).count = menu.count
      BY <1>1, <1>2, <3>1, <3>2, <3>3, DrawnMenu DEF MenuOK
    <3>5. QED BY <3>1, <3>4 DEF DialogOK, IsMenu, MenuFields, n
  <2>4. QED BY <2>2, <2>3
<1>4. CASE Open("check")
  <2>1. Redraw(n) = IF n < CheckLines THEN MenuOrEnd(n, menu) ELSE CheckResize(w)
    BY <1>4 DEF Redraw, Open
  <2>2. CASE n < CheckLines
    BY <1>1, <1>2, <2>1, <2>2, MenuOrEndOK DEF n
  <2>3. CASE ~(n < CheckLines)
    <3>1. IsCheck(w) /\ w.max = Lesser(ListHeight, w.count)
      BY <1>4 DEF SessionInv, DialogOK, Open, IsCheck
    <3>2. /\ w.count \in Nat /\ w.choice \in Nat /\ w.scroll \in Nat
          /\ w.scroll + w.choice < w.count /\ w.scroll + Lesser(ListHeight, w.count) <= w.count
          /\ (w.choice >= ListHeight => w.scroll = 0)
      BY <3>1, SessionAssumption DEF IsCheck, Placed, Lesser
    <3>3. IsCheck(Redraw(n))
      BY <2>1, <2>3, <3>2, DrawnCheck, SessionAssumption DEF CheckResize
    <3>4. QED BY <3>3 DEF DialogOK, IsCheck, CheckFields, n
  <2>4. QED BY <2>2, <2>3
<1>5. CASE Open("input")
  BY <1>5 DEF Redraw, Open, DialogOK, InputResize, InputDraw
<1>6. CASE Open("yesno")
  BY <1>6 DEF Redraw, Open, DialogOK, YesnoResize, YesnoDraw, None
<1>7. CASE Open("text")
  <2>1. Redraw(n) = IF n < TextLines THEN MenuOrEnd(n, menu) ELSE TextResize(w, n - TextLines)
    BY <1>7 DEF Redraw, Open
  <2>2. CASE n < TextLines
    BY <1>1, <1>2, <2>1, <2>2, MenuOrEndOK DEF n
  <2>3. CASE ~(n < TextLines)
    <3>1. Redraw(n).kind = "text" /\ "kind" \in DOMAIN Redraw(n)
      BY <1>7, <2>1, <2>3 DEF Open, TextResize, BackLines, BackFrom, PrintPage, SessionInv, DialogOK
    <3>2. QED BY <3>1 DEF DialogOK, n
  <2>4. QED BY <2>2, <2>3
<1>8. QED BY <1>3, <1>4, <1>5, <1>6, <1>7 DEF Resize, Open, SessionInv, DialogOK, n

LEMMA StepKeeps == SessionInv /\ [Next]_vars => SessionInv'
<1> SUFFICES ASSUME SessionInv, [Next]_vars PROVE SessionInv'
  OBVIOUS
<1>1. CASE Key
  BY <1>1, KeyKeeps
<1>2. CASE Select
  BY <1>2, SelectKeeps
<1>3. CASE Change \/ Return
  <2>1. MenuOK(menu') /\ lines' \in Nat /\ w' = MenuOrEnd(lines', menu')
    BY <1>3, ComesBack
  <2>2. QED BY <2>1, MenuOrEndOK DEF SessionInv
<1>5. CASE Quit
  <2>1. IsMenu(w) /\ w.count = menu.count /\ MenuOK(menu) /\ lines' = lines /\ lines \in Nat
    BY <1>5 DEF Quit, Open, SessionInv, DialogOK
  <2>2. MenuOK(menu')
    BY <1>5, <2>1, LeaveOK DEF Quit
  <2>3. QED BY <1>5, <2>1, <2>2 DEF Quit, SessionInv, DialogOK, YesnoOpen, YesnoDraw
<1>6. CASE Answer
  <2>1. MenuOK([menu EXCEPT !.sel = -1, !.saved = 0]) /\ MenuOK(menu) /\ lines \in Nat
    BY DEF SessionInv, MenuOK
  <2>2. DialogOK(MenuOrEnd(lines, [menu EXCEPT !.sel = -1, !.saved = 0]), menu, lines)
    BY <2>1, MenuOrEndOK DEF DialogOK, MenuOK
  <2>3. DialogOK(None, menu, lines)
    BY DEF DialogOK, None
  <2>4. QED BY <1>6, <2>1, <2>2, <2>3 DEF Answer, SessionInv
<1>7. CASE Resize
  BY <1>7, ResizeKeeps
<1>8. CASE Search
  <2>1. w'.kind = "text" /\ "kind" \in DOMAIN w' /\ UNCHANGED <<lines, menu>>
    BY <1>8 DEF Search, TextOpen, PrintPage
  <2>2. QED BY <2>1 DEF SessionInv, DialogOK
<1>9. CASE UNCHANGED vars
  BY <1>9 DEF vars, SessionInv
<1>10. QED BY <1>1, <1>2, <1>3, <1>5, <1>6, <1>7, <1>8, <1>9 DEF Next

\* The invariant the two theorems below follow from: every session only opens
\* dialogs that are drawn for the menu and the terminal there are.
THEOREM SessionInvariant == Spec => []SessionInv
<1>1. QED BY InitSession, StepKeeps, PTL DEF Spec

\* In every session the highlight stays in the window and the window on the
\* list: no key or resize makes lxdialog look up an item that does not exist.
THEOREM HighlightStays == Spec => []HighlightInWindow
<1>1. SessionInv => HighlightInWindow
  BY DEF SessionInv, DialogOK, HighlightInWindow, IsMenu, IsCheck, Placed
<1>2. QED BY <1>1, SessionInvariant, PTL

\* In every session an arrow or a page key moves the highlight by what it says,
\* whatever part of the list the window shows.
THEOREM CursorMovesHolds == Spec => CursorMoves
<1> DEFINE Moved ==
      /\ MenuUp => MenuAt(w') = Greater(MenuAt(w) - 1, 0)
      /\ MenuDown => MenuAt(w') = Lesser(MenuAt(w) + 1, w.count - 1)
      /\ MenuPageUp => MenuAt(w') = Greater(MenuAt(w) - w.max, 0)
      /\ MenuPageDown => MenuAt(w') = Lesser(MenuAt(w) + w.max, w.count - 1)
      /\ ListUp => CheckAt(w') = Greater(CheckAt(w) - 1, 0)
      /\ ListDown => CheckAt(w') = Lesser(CheckAt(w) + 1, w.count - 1)
<1>1. SessionInv => Moved
  <2> SUFFICES ASSUME SessionInv PROVE Moved
    OBVIOUS
  <2>1. Open("menu") => IsMenu(w)
    BY DEF Open, SessionInv, DialogOK
  <2>2. Open("check") => IsCheck(w)
    BY DEF Open, SessionInv, DialogOK
  <2>3. MenuUp => MenuAt(w') = Greater(MenuAt(w) - 1, 0)
    BY <2>1, MenuUpMoves DEF MenuUp, Press, Moves, MenuAt
  <2>4. MenuDown => MenuAt(w') = Lesser(MenuAt(w) + 1, w.count - 1)
    BY <2>1, MenuDownMoves DEF MenuDown, Press, Moves, MenuAt
  <2>5. MenuPageUp => MenuAt(w') = Greater(MenuAt(w) - w.max, 0)
    BY <2>1, MenuPageUpMoves DEF MenuPageUp, Press, Moves, MenuAt
  <2>6. MenuPageDown => MenuAt(w') = Lesser(MenuAt(w) + w.max, w.count - 1)
    BY <2>1, MenuPageDownMoves DEF MenuPageDown, Press, Moves, MenuAt
  <2>7. ListUp => CheckAt(w') = Greater(CheckAt(w) - 1, 0)
    BY <2>2, CheckUpMoves DEF ListUp, Press, Moves, CheckAt
  <2>8. ListDown => CheckAt(w') = Lesser(CheckAt(w) + 1, w.count - 1)
    BY <2>2, CheckDownMoves DEF ListDown, Press, Moves, CheckAt
  <2>9. QED BY <2>3, <2>4, <2>5, <2>6, <2>7, <2>8
<1>2. SessionInv /\ [Next]_vars => [Moved]_vars
  BY <1>1
<1>3. QED BY <1>2, SessionInvariant, PTL DEF Spec, CursorMoves

----------------------------------------------------------------------------
(* The screen, and the way back to a menu *)

\* A menu that has been left is drawn again with the window it had: its
\* selected item is in the window that was saved.
Kept(n, m) ==
  LET max == Lesser(WindowRows(n), m.count)
  IN  /\ m.sel # -1 /\ m.saved <= m.sel /\ m.sel < m.saved + max
      /\ 0 <= m.saved /\ m.saved + max <= m.count

\* A window has as many rows as the terminal and the list allow.
FillsWindow(x, n) == HasRows(x) /\ x.max = Lesser(WindowRows(n), x.count)

\* What is drawn, and of a menu that is not resized what is left of it.
ScreenInv ==
  /\ w.kind = "menu" => /\ FillsWindow(w, lines)
                        /\ ~moved => InPlace(w)
  /\ w.kind = "check" => HasRows(w) /\ InPlace(w)
  /\ w.kind = "input" => IsField(w) /\ FieldDrawn(w)
  /\ w.kind \in {"check", "input", "text"} /\ ~moved => Kept(lines, menu)

LEMMA DrawnRows ==
  ASSUME NEW n \in Nat, n >= MenuLines, NEW count \in Nat \ {0},
         NEW sel \in -1..count-1, NEW saved \in Int, NEW choice \in Nat, choice < count,
         NEW first, NEW button
  PROVE  /\ FillsWindow(MenuDraw(n, count, sel, saved, choice, first, button), n)
         /\ choice = 0 /\ first = 0 =>
              InPlace(MenuDraw(n, count, sel, saved, choice, first, button))
         /\ Kept(n, [count |-> count, sel |-> sel, saved |-> saved]) =>
              MenuDraw(n, count, sel, saved, choice, first, button).scroll = saved
<1> DEFINE max == Lesser(WindowRows(n), count)
           at == IF sel = -1 THEN choice ELSE sel
           kept == saved <= at /\ at < saved + max /\ 0 <= saved /\ saved + max <= count
           p == Place(count, max, at, saved)
           top == IF kept \/ at >= max THEN p ELSE first
           x == MenuDraw(n, count, sel, saved, choice, first, button)
<1>1. max \in Nat \ {0} /\ max <= count
  BY DEF Lesser, WindowRows, MenuLines
<1>2. at \in Nat /\ at < count
  OBVIOUS
<1>3. x.max = max /\ x.count = count /\ x.scroll = p /\ x.rows = [i \in 0..max-1 |-> top + i]
  BY DEF MenuDraw
<1>4. p = IF kept THEN saved ELSE IF at < max THEN 0
          ELSE IF at >= count - max \div 2 THEN count - max ELSE at - max \div 2
  BY DEF Place
<1>5. Kept(n, [count |-> count, sel |-> sel, saved |-> saved]) => kept
  BY DEF Kept
<1> HIDE DEF x, p, at, max, kept
<1>6. FillsWindow(x, n)
  BY <1>3 DEF FillsWindow, HasRows, max
<1>7. ASSUME first = 0 PROVE InPlace(x)
  <2>1. top = p
    BY <1>1, <1>2, <1>4, <1>7
  <2>2. QED BY <1>3, <2>1 DEF InPlace
<1>8. QED BY <1>3, <1>4, <1>5, <1>6, <1>7 DEF x

LEMMA MenuOrEndDraws ==
  ASSUME NEW n \in Nat, NEW m, MenuOK(m)
  PROVE  LET x == MenuOrEnd(n, m)
         IN  /\ x.kind \in {"menu", "none"}
             /\ x.kind = "menu" => /\ FillsWindow(x, n) /\ InPlace(x)
                                   /\ m.sel # -1 => MenuAt(x) = m.sel
                                   /\ Kept(n, m) => x.scroll = m.saved
<1>1. CASE n < MenuLines
  BY <1>1 DEF MenuOrEnd, None
<1>2. CASE n >= MenuLines
  <2> DEFINE x == MenuDraw(n, m.count, m.sel, m.saved, 0, 0, 0)
  <2>1. MenuOrEnd(n, m) = x
    BY <1>2 DEF MenuOrEnd, MenuOpen, MenuLines
  <2>2. /\ m.count \in Nat \ {0} /\ m.sel \in -1..m.count-1 /\ m.saved \in Int
        /\ 0 \in Nat /\ 0 < m.count
    BY DEF MenuOK
  <2>3. x.kind = "menu" /\ (m.sel # -1 => MenuAt(x) = m.sel)
    BY <1>2, <2>2, DrawnMenu DEF IsMenu
  <2>4. Kept(n, m) => Kept(n, [count |-> m.count, sel |-> m.sel, saved |-> m.saved])
    BY DEF Kept
  <2>5. /\ FillsWindow(x, n) /\ InPlace(x)
        /\ Kept(n, [count |-> m.count, sel |-> m.sel, saved |-> m.saved]) => x.scroll = m.saved
    BY <1>2, <2>2, DrawnRows
  <2> HIDE DEF x
  <2>6. QED BY <2>1, <2>3, <2>4, <2>5
<1>3. QED BY <1>1, <1>2 DEF MenuLines

LEMMA CheckDraws ==
  ASSUME NEW count, NEW choice, NEW scroll, NEW button
  PROVE  LET x == CheckDraw(count, choice, scroll, button)
         IN  x.kind = "check" /\ HasRows(x) /\ InPlace(x)
BY DEF CheckDraw, HasRows, InPlace

LEMMA KeyDraws ==
  ASSUME SessionInv, ScreenInv, Key
  PROVE  ScreenInv'
<1>1. ASSUME NEW x, Press("menu", x), IsMenu(x), x.max = w.max, x.count = w.count, DrawnAs(w, x)
      PROVE  ScreenInv'
  BY <1>1 DEF Press, Open, ScreenInv, FillsWindow, DrawnAs, IsMenu, HasRows, InPlace
<1>2. ASSUME NEW x, Press("check", x), IsCheck(x), DrawnAs(w, x) PROVE ScreenInv'
  BY <1>2 DEF Press, Open, ScreenInv, DrawnAs, IsCheck, HasRows, InPlace, Kept
<1>3. ASSUME NEW x, Press("input", x), IsField(x), FieldDrawn(x) PROVE ScreenInv'
  BY <1>3 DEF Press, Open, ScreenInv, IsField, FieldDrawn, Kept
<1>4. Open("menu") => IsMenu(w) /\ HasRows(w)
  BY DEF Open, SessionInv, DialogOK, ScreenInv, FillsWindow
<1>5. Open("check") => IsCheck(w) /\ HasRows(w)
  BY DEF Open, SessionInv, DialogOK, ScreenInv
<1>6. Open("input") => IsField(w) /\ FieldDrawn(w)
  BY DEF Open, ScreenInv
<1>7. CASE MenuUp
  BY <1>1, <1>4, <1>7, MenuUpMoves, MenuKeysDraw DEF MenuUp, Press, Moves
<1>8. CASE MenuDown
  BY <1>1, <1>4, <1>8, MenuDownMoves, MenuKeysDraw DEF MenuDown, Press, Moves
<1>9. CASE MenuPageUp
  BY <1>1, <1>4, <1>9, MenuPageUpMoves, MenuKeysDraw DEF MenuPageUp, Press, Moves
<1>10. CASE MenuPageDown
  BY <1>1, <1>4, <1>10, MenuPageDownMoves, MenuKeysDraw DEF MenuPageDown, Press, Moves
<1>11. CASE MenuHotkey
  BY <1>1, <1>4, <1>11, MenuHotkeyMoves, MenuKeysDraw DEF MenuHotkey
<1>12. CASE MenuTab
  BY <1>1, <1>4, <1>12, MenuButtonStays, MenuKeysDraw DEF MenuTab
<1>13. CASE ListUp
  BY <1>2, <1>5, <1>13, CheckUpMoves, CheckUpDraws DEF ListUp, Press
<1>14. CASE ListDown
  BY <1>2, <1>5, <1>14, CheckDownMoves, CheckDownDraws DEF ListDown, Press
<1>15. CASE ListHotkey
  <2>1. PICK i \in 0..ListHeight-1 : Open("check") /\ i < w.max /\ Press("check", CheckMove(w, i))
    BY <1>15 DEF ListHotkey
  <2>2. i \in 0..w.max-1
    BY <1>5, <2>1, SessionAssumption DEF IsCheck, Placed
  <2>3. QED BY <1>2, <1>5, <2>1, <2>2, CheckKeyStays, CheckKeyDraws
<1>16. CASE OtherButtonKey
  <2>1. PICK k \in {"check", "yesno"} : Press(k, OtherButton(w))
    BY <1>16 DEF OtherButtonKey
  <2>2. CASE k = "check"
    <3>1. IsCheck(w) /\ HasRows(w) /\ 0 \in 0..w.max-1
      BY <1>5, <2>1, <2>2 DEF Press, IsCheck, Placed
    <3>2. QED BY <1>2, <2>1, <2>2, <3>1, CheckKeyStays, CheckKeyDraws
  <2>3. CASE k = "yesno"
    <3>1. OtherButton(w).kind = "yesno"
      BY <2>1, <2>3 DEF OtherButton, Press, Open, SessionInv, DialogOK
    <3>2. QED BY <2>1, <2>3, <3>1 DEF Press, ScreenInv
  <2>4. QED BY <2>1, <2>2, <2>3
<1>17. CASE TypeKey \/ BackspaceKey \/ LeftKey \/ RightKey
  <2>1. CASE TypeKey
    BY <1>3, <1>6, <2>1, FieldKeys, SessionAssumption DEF TypeKey, FieldKey
  <2>2. CASE BackspaceKey
    BY <1>3, <1>6, <2>2, FieldKeys DEF BackspaceKey, FieldKey
  <2>3. CASE LeftKey
    BY <1>3, <1>6, <2>3, FieldKeys DEF LeftKey, FieldKey
  <2>4. CASE RightKey
    BY <1>3, <1>6, <2>4, FieldKeys DEF RightKey, FieldKey
  <2>5. QED BY <1>17, <2>1, <2>2, <2>3, <2>4
<1>18. CASE FieldTab
  BY <1>3, <1>6, <1>18, FieldKeys DEF FieldTab, InputNext, InputPrevious
<1>19. CASE TextKey
  BY <1>19, TextKeysStay DEF ScreenInv, Kept
<1>20. QED
  BY <1>7, <1>8, <1>9, <1>10, <1>11, <1>12, <1>13, <1>14, <1>15, <1>16, <1>17, <1>18, <1>19
     DEF Key, TextKey

LEMMA SelectDraws ==
  ASSUME SessionInv, ScreenInv, Select
  PROVE  ScreenInv'
<1>1. Kept(lines, menu)'
  <2>1. /\ IsMenu(w) /\ w.count = menu.count /\ w.max = Lesser(WindowRows(lines), w.count)
        /\ menu' = Leave(w) /\ MenuOK(menu) /\ lines' = lines
    BY DEF Select, Open, SessionInv, DialogOK, ScreenInv, FillsWindow
  <2>2. /\ menu'.count = w.count /\ menu'.sel = w.scroll + w.choice /\ menu'.saved = w.scroll
    BY <2>1 DEF MenuOK, Leave, MenuAt
  <2>3. QED BY <2>1, <2>2 DEF Kept, IsMenu, Placed
<1>2. CASE w' \in {InputOpen(t) : t \in Inits}
  <2>1. IsField(w') /\ FieldDrawn(w')
    BY <1>2, DrawnField, SessionAssumption DEF InputOpen
  <2>2. QED BY <1>1, <2>1 DEF ScreenInv, IsField, FieldDrawn
<1>3. CASE w' \in {TextOpen(t, lines - TextLines, FALSE) : t \in Texts}
  <2>1. w'.kind = "text"
    BY <1>3 DEF TextOpen, PrintPage
  <2>2. QED BY <1>1, <2>1 DEF ScreenInv
<1>4. CASE w' \in UNION {{CheckOpen(n, i) : i \in 0..n-1} : n \in Members}
  <2>1. w'.kind = "check" /\ HasRows(w') /\ InPlace(w')
    BY <1>4, CheckDraws DEF CheckOpen
  <2>2. QED BY <1>1, <2>1 DEF ScreenInv, HasRows, InPlace
<1>5. QED BY <1>2, <1>3, <1>4 DEF Select, Opened

\* What comes back to the menu, or ends.
LEMMA BackDraws ==
  ASSUME NEW m, MenuOK(m), lines' \in Nat, w' = MenuOrEnd(lines', m)
  PROVE  ScreenInv'
BY MenuOrEndDraws DEF ScreenInv, HasRows, InPlace

LEMMA ResizeDraws ==
  ASSUME SessionInv, ScreenInv, Resize
  PROVE  ScreenInv'
<1>1. lines' \in Nat /\ menu' = menu /\ MenuOK(menu) /\ w' = Redraw(lines') /\ moved' = TRUE
  BY SessionAssumption DEF Resize, SessionInv
<1>2. CASE Open("menu")
  <2>1. w' = IF lines' < MenuLines THEN None ELSE MenuResize(w, lines', menu.sel, menu.saved)
    BY <1>1, <1>2 DEF Redraw, Open
  <2>2. CASE lines' < MenuLines
    BY <1>1, <2>1, <2>2 DEF None, ScreenInv
  <2>3. CASE ~(lines' < MenuLines)
    <3>1. IsMenu(w) /\ w.count = menu.count /\ lines' >= MenuLines
      BY <1>1, <1>2, <2>3 DEF SessionInv, DialogOK, Open, MenuLines
    <3>2. w.choice \in Nat /\ w.choice < menu.count
      BY <3>1 DEF IsMenu, Placed
    <3>3. w' = MenuDraw(lines', menu.count, menu.sel, menu.saved, w.choice, w.first, w.button)
      BY <2>1, <2>3, <3>1 DEF MenuResize
    <3>4. ASSUME NEW n \in Nat, n >= MenuLines
          PROVE  FillsWindow(MenuDraw(n, menu.count, menu.sel, menu.saved, w.choice, w.first, w.button), n)
      BY <1>1, <3>2, <3>4, DrawnRows DEF MenuOK
    <3>5. w'.kind = "menu"
      BY <3>3 DEF MenuDraw
    <3>6. FillsWindow(w', lines')
      BY <1>1, <3>1, <3>3, <3>4
    <3>7. QED BY <1>1, <3>5, <3>6 DEF ScreenInv, FillsWindow, HasRows
  <2>4. QED BY <2>2, <2>3
<1>3. CASE Open("check")
  <2>1. w' = IF lines' < CheckLines THEN MenuOrEnd(lines', menu) ELSE CheckResize(w)
    BY <1>1, <1>3 DEF Redraw, Open
  <2>2. CASE lines' < CheckLines
    BY <1>1, <2>1, <2>2, BackDraws
  <2>3. CASE ~(lines' < CheckLines)
    <3>1. w'.kind = "check" /\ HasRows(w') /\ InPlace(w')
      BY <2>1, <2>3, CheckDraws DEF CheckResize
    <3>2. QED BY <1>1, <3>1 DEF ScreenInv, HasRows, InPlace
  <2>4. QED BY <2>2, <2>3
<1>4. CASE Open("input")
  <2>1. w' = IF lines' <= InputLines THEN [kind |-> "stuck"] ELSE InputResize(w)
    BY <1>1, <1>4 DEF Redraw, Open
  <2>2. IsField(InputResize(w)) /\ FieldDrawn(InputResize(w))
    BY <1>4, DrawnField DEF ScreenInv, Open, IsField, InputResize
  <2>3. QED BY <1>1, <2>1, <2>2 DEF ScreenInv, IsField, FieldDrawn
<1>5. CASE Open("text")
  <2>1. w' = IF lines' < TextLines THEN MenuOrEnd(lines', menu) ELSE TextResize(w, lines' - TextLines)
    BY <1>1, <1>5 DEF Redraw, Open
  <2>2. CASE lines' < TextLines
    BY <1>1, <2>1, <2>2, BackDraws
  <2>3. CASE ~(lines' < TextLines)
    <3>1. w'.kind = "text"
      BY <1>5, <2>1, <2>3 DEF Open, TextResize, BackLines, BackFrom, PrintPage, SessionInv, DialogOK
    <3>2. QED BY <1>1, <3>1 DEF ScreenInv
  <2>4. QED BY <2>2, <2>3
<1>6. CASE Open("yesno")
  BY <1>1, <1>6 DEF Redraw, Open, YesnoResize, YesnoDraw, None, ScreenInv
<1>7. QED BY <1>2, <1>3, <1>4, <1>5, <1>6 DEF Resize, Open, SessionInv, DialogOK

LEMMA StepDraws == SessionInv /\ ScreenInv /\ [Next]_vars => ScreenInv'
<1> SUFFICES ASSUME SessionInv, ScreenInv, [Next]_vars PROVE ScreenInv'
  OBVIOUS
<1>1. CASE Key
  BY <1>1, KeyDraws
<1>2. CASE Select
  BY <1>2, SelectDraws
<1>3. CASE Change \/ Return
  <2>1. MenuOK(menu') /\ lines' \in Nat /\ w' = MenuOrEnd(lines', menu')
    BY <1>3, ComesBack
  <2>2. QED BY <2>1, BackDraws
<1>4. CASE Quit
  BY <1>4 DEF Quit, YesnoOpen, YesnoDraw, ScreenInv
<1>5. CASE Answer
  <2>1. MenuOK([menu EXCEPT !.sel = -1, !.saved = 0]) /\ lines' \in Nat /\ lines' = lines
    BY <1>5 DEF Answer, SessionInv, MenuOK
  <2>2. CASE w' = None
    BY <2>2 DEF None, ScreenInv
  <2>3. QED BY <1>5, <2>1, <2>2, BackDraws DEF Answer
<1>6. CASE Resize
  BY <1>6, ResizeDraws
<1>7. CASE Search
  <2>1. w'.kind = "text" /\ w.kind = "input" /\ UNCHANGED <<lines, menu, moved>>
    BY <1>7 DEF Search, Open, TextOpen, PrintPage
  <2>2. QED BY <2>1 DEF ScreenInv, Kept
<1>8. CASE UNCHANGED vars
  BY <1>8 DEF vars, ScreenInv, HasRows, InPlace, IsField, FieldDrawn, Kept
<1>9. QED BY <1>1, <1>2, <1>3, <1>4, <1>5, <1>6, <1>7, <1>8 DEF Next

LEMMA InitDraws == Init => ScreenInv
<1> SUFFICES ASSUME Init PROVE ScreenInv
  OBVIOUS
<1>1. lines \in Nat /\ MenuOK(menu)
  BY InitSession DEF SessionInv
<1>2. lines >= MenuLines /\ menu.sel = -1 /\ menu.saved = 0
  <2>1. menu \in [count : Counts, sel : {-1}, saved : {0}]
    BY DEF Init
  <2>2. QED BY <2>1 DEF Init
<1>3. w = MenuOrEnd(lines, menu)
  BY <1>1, <1>2 DEF Init, MenuOrEnd, MenuLines
<1>4. QED BY <1>1, <1>3, MenuOrEndDraws DEF ScreenInv

\* The invariant the two theorems below follow from: each row and cell is drawn
\* as the state says, and a menu behind a dialog can be drawn as it was.
THEOREM ScreenInvariant == Spec => [](SessionInv /\ ScreenInv)
<1>1. QED BY InitSession, StepKeeps, InitDraws, StepDraws, PTL DEF Spec

\* The items in the rows of a menu or a list and the characters in a field are
\* those the next key acts on, for menus, lists and fields of any size, whatever
\* was edited, scrolled or set before (the partial redraws of menubox.c,
\* checklist.c and inputbox.c).
THEOREM ScreenAlwaysTrue == Spec => []ScreenShowsState
<1>1. SessionInv /\ ScreenInv => ScreenShowsState
  <2> SUFFICES ASSUME SessionInv, ScreenInv PROVE ScreenShowsState
    OBVIOUS
  <2>1. (Open("check") \/ (Open("menu") /\ ~moved)) => RowsTrue
    BY DEF Open, ScreenInv, FillsWindow, HasRows, InPlace, RowsTrue
  <2>2. Open("input") => FieldTrue
    <3> SUFFICES ASSUME Open("input") PROVE FieldTrue
      OBVIOUS
    <3>1. IsField(w) /\ FieldDrawn(w)
      BY DEF Open, ScreenInv
    <3>2. w.pos \in 0..Len(w.text)
      BY <3>1, FieldAssumption DEF IsField
    <3>3. QED BY <3>1, <3>2 DEF FieldTrue, IsField, FieldDrawn, CharAt
  <2>3. QED BY <2>1, <2>2 DEF ScreenShowsState
<1>2. QED BY <1>1, ScreenInvariant, PTL

\* Who comes back to a menu of any length, from any dialog, finds the item that
\* was selected highlighted, and the window where it was if nothing has changed
\* (the comments of menubox.c on the saved scroll position).
THEOREM AlwaysReturnsToItem == Spec => ReturnsToItem
<1> DEFINE Returned ==
      ((Return \/ Change) /\ w'.kind = "menu") =>
        /\ menu'.sel # -1 => MenuAt(w') = menu'.sel
        /\ Return /\ ~moved /\ menu' = menu => w'.scroll = menu.saved
<1>1. SessionInv /\ ScreenInv => Returned
  <2> SUFFICES ASSUME SessionInv, ScreenInv, Return \/ Change, w'.kind = "menu"
               PROVE  /\ menu'.sel # -1 => MenuAt(w') = menu'.sel
                      /\ Return /\ ~moved /\ menu' = menu => w'.scroll = menu.saved
    OBVIOUS
  <2>1. MenuOK(menu') /\ lines' \in Nat /\ lines' = lines /\ w' = MenuOrEnd(lines', menu')
    BY ComesBack
  <2>2. /\ menu'.sel # -1 => MenuAt(w') = menu'.sel
        /\ Kept(lines', menu') => w'.scroll = menu'.saved
    BY <2>1, MenuOrEndDraws
  <2>3. Return /\ ~moved => Kept(lines, menu)
    BY DEF Return, ScreenInv
  <2>4. QED BY <2>1, <2>2, <2>3
<1>2. SessionInv /\ ScreenInv /\ [Next]_vars => [Returned]_vars
  BY <1>1
<1>3. QED BY <1>2, ScreenInvariant, PTL DEF Spec, ReturnsToItem
============================================================================
