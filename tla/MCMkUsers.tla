----------------------------- MODULE MCMkUsers ------------------------------
(***************************************************************************)
(* Two new users and two new groups beside those of the skeleton, with two *)
(* automatic ids; tables of one and two lines, and longer ones in which a  *)
(* user appears twice and a group has several members.  The home /a/in is   *)
(* below /a.                                                               *)
(***************************************************************************)
EXTENDS MkUsers

MCUser == {"root", "mail", "a", "b"}
MCGroup == {"root", "mail", "g", "h"}
MCHomes == {"/a", "/a/in", "/b"}
MCBelow == [h \in MCHomes |-> IF h = "/a" THEN {"/a", "/a/in"} ELSE {h}]

E(u, g) == [uid |-> u, gid |-> g]
MCPasswd == [u \in MCUser |-> CASE u = "root" -> E(0, 0)
                                [] u = "mail" -> E(1, 1)
                                [] OTHER      -> Missing]
MCSkelGroup == [g \in MCGroup |->
  CASE g = "root" -> [gid |-> 0, members |-> << >>]
    [] g = "mail" -> [gid |-> 1, members |-> <<"root">>]
    [] OTHER      -> GoneGroup]

New(u, id, g, gid, home, groups) ==
  [user |-> u, uid |-> id, group |-> g, gid |-> gid, home |-> home,
   groups |-> groups]

\* By name: a and b are users, g and h groups, a digit an id the table asks for.
AinG     == New("a", -1, "g", -1, "/a", <<"h">>)
A3inG3   == New("a", 3, "g", 3, "/a", << >>)
AinMail  == New("a", -1, "mail", -1, "refused", << >>)
BinG     == New("b", -1, "g", -1, "/b", << >>)
B2inH2   == New("b", 2, "h", 2, "/b", <<"g", "mail">>)
BinH     == New("b", -1, "h", -1, "/a", <<"g", "g">>)
BinA     == New("b", 3, "h", -1, "/a/in", << >>)
BinHTwice == New("b", -1, "h", -1, "/a", <<"h", "g", "h">>)
H2       == New("-", -1, "h", 2, "-", << >>)
G2       == New("-", -1, "g", 2, "-", << >>)
Mail     == New("mail", 1, "mail", 1, "-", <<"h">>)

MCTables == {
  <<AinG>>, <<BinH>>, <<AinMail>>, <<B2inH2>>, <<New("root", -1, "g", -1, "-", << >>)>>,
  <<AinG, BinG>>, <<BinH, AinG>>, <<AinG, B2inH2>>, <<A3inG3, AinG>>,
  <<B2inH2, AinG>>, <<B2inH2, H2>>, <<AinG, AinMail>>, <<BinG, BinH>>,
  <<A3inG3, B2inH2>>, <<A3inG3, BinH>>, <<BinG, H2>>, <<AinG, H2>>, <<G2, H2>>, <<Mail, BinG>>,
  <<BinA, AinG>>, <<AinG, New("b", -1, "h", -1, "/a/in", << >>)>>,
  <<Mail, AinG, BinHTwice, New("a", 2, "g", -1, "/a", <<"g", "h">>)>> }
=============================================================================
