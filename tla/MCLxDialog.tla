---------------------------- MODULE MCLxDialog ----------------------------
EXTENDS LxDialog

MCHotkey(i) == IF i % 3 = 1 THEN "a" ELSE "b"

Line(n) == [i \in 1..n |-> IF i < n THEN "x" ELSE EndOfLine]
MCTexts == { Line(1),
             Line(2) \o Line(1) \o Line(1) \o Line(3),
             Line(1) \o Line(2) \o Line(1) \o Line(1) \o Line(3) \o Line(1) \o Line(1) \o Line(2)
               \o Line(1) \o Line(2) \o Line(1) \o Line(2) }
MCInits == { << >>, <<"b", "a", "a", "b">> }
============================================================================
