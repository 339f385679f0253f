---------------------------- MODULE MCMakeDevs ----------------------------
(* Every table of up to three of these lines, on four target trees. *)
EXTENDS MakeDevs

dev == <<"dev">>
etc == <<"etc">>
Num(n) == [name |-> "", num |-> n]
Named(s) == [name |-> s, num |-> 0]
L(name, type, mode, user, group, nums) ==
  [name |-> name, type |-> type, mode |-> mode, user |-> user, group |-> group, nums |-> nums]
NoNums == <<Dash, Dash, Dash, Dash, Dash>>

MCLines ==
  { L(<<dev>>, "d", 755, Num(0), Num(0), NoNums),
    L(<<dev, <<"h">>>>, "d", 700, Num(1), Num(1), NoNums),
    L(<<etc, <<"x">>, <<"y">>>>, "d", KeepMode, Named("www"), Num(2), NoNums),
    L(<<etc, <<"l">>>>, "d", 750, Num(4), Num(4), NoNums),
    L(<<etc, <<"l">>, <<"h">>>>, "c", 644, Num(5), Num(5), <<6, 0, 0, 0, 0>>),
    L(<<etc, <<"f">>>>, "f", 600, Num(1), Named("adm"), NoNums),
    L(<<etc>>, "r", 700, Named("www"), Num(3), NoNums),
    L(<<dev>>, "r", KeepMode, Num(6), Num(6), NoNums),
    L(<<dev, <<"h">>>>, "b", 640, Num(0), Num(6), <<3, 0, 0, 0, 0>>),
    L(<<dev, <<"h">>>>, "b", 640, Num(0), Num(6), <<3, 1, 1, 2, 2>>),
    L(<<dev, <<"h">>>>, "c", 600, Num(2), Num(6), <<4, 0, 9, 1, 3>>),
    L(<<dev, <<"h", "1">>>>, "c", 620, Num(7), Num(7), <<5, 7, 0, 1, 2>>),
    L(<<dev, <<"h", "1">>>>, "p", 666, Num(0), Num(0), <<Dash, 1, 1, 1, 3>>),
    L(<<dev, <<"t">>>>, "c", 600, Named("ghost"), Num(0), <<4, 0, 0, 0, 0>>),
    L(<<dev, <<"t">>>>, "c", 600, Num(0), Num(0), <<4, 1048576, 0, 0, 0>>),
    L(<<dev, <<"t">>>>, "u", 600, Num(0), Num(0), NoNums) }
MCTables == UNION {[1..n -> MCLines] : n \in 1..3}

Link(p) == [NewNode("link", 777) EXCEPT !.to = p]
Base == (<< >> :> NewNode("dir", 755)) @@ (<<dev>> :> NewNode("dir", 755)) @@ (<<etc>> :> NewNode("dir", 755))
          @@ (<<etc, <<"f">>>> :> NewNode("file", 644))
MCSkeletons == { Base,
                 Base @@ (<<etc, <<"l">>>> :> Link(<<dev>>)),
                 Base @@ (<<etc, <<"l">>>> :> Link(<<dev, <<"h", "1">>>>)),
                 Base @@ (<<etc, <<"l">>>> :> Link(<<dev>>)) @@ (<<dev, <<"h">>>> :> Link(<<etc, <<"f">>>>)) }
MCPasswd == [root |-> 0, www |-> 33]
MCGroup == [root |-> 0, adm |-> 4]
============================================================================
