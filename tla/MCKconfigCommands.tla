------------------------- MODULE MCKconfigCommands -------------------------
EXTENDS KconfigCommands

Bool(s, p) == <<[do |-> "config", sym |-> s], [do |-> "type", type |-> "boolean"],
                [do |-> "prompt", if |-> p]>>
Tristate(s) == <<[do |-> "config", sym |-> s], [do |-> "type", type |-> "tristate"],
                 [do |-> "prompt", if |-> None]>>
Number(s, default) == <<[do |-> "config", sym |-> s], [do |-> "type", type |-> "int"],
                     [do |-> "prompt", if |-> None],
                     [do |-> "default", x |-> SymE(default), if |-> None]>>
Choice(s, values) == <<[do |-> "choice", sym |-> s], [do |-> "prompt", if |-> None], [do |-> "begin"]>>
                       \o values \o <<[do |-> "end"]>>
Modules == Bool("MOD", None) \o <<[do |-> "modules"]>>

MCConsts == {"y", "m", "n", "1", "3", "4", "5"}

\* The first version: a tristate that selects, a choice, a number in a menu.
One ==
  Modules \o Tristate("T") \o <<[do |-> "select", sym |-> "S", if |-> CompE("eq", "N", "4")]>> \o
  Bool("S", None) \o <<[do |-> "depends", if |-> SymE("MOD")]>> \o
  Choice("CH", Bool("C1", None) \o Bool("C2", SymE("T"))) \o
  <<[do |-> "menu"], [do |-> "depends", if |-> SymE("C1")], [do |-> "begin"]>> \o
  Number("N", "3") \o <<[do |-> "range", lo |-> "1", hi |-> "5", if |-> None], [do |-> "end"]>>

\* The next: S has another type, N is gone, the choice has a new value.
Two ==
  Modules \o Tristate("T") \o <<[do |-> "default", x |-> SymE("m"), if |-> None]>> \o
  Number("S", "1") \o
  Choice("CH", Bool("C1", None) \o Bool("C2", None) \o Bool("C3", SymE("MOD")))

\* One with a recursive dependency through a select.
Three ==
  Modules \o Tristate("T") \o <<[do |-> "depends", if |-> SymE("S")]>> \o
  Bool("S", None) \o <<[do |-> "depends", if |-> SymE("C1")]>> \o
  Choice("CH", Bool("C1", None) \o Bool("C2", SymE("T"))) \o
  Bool("L", None) \o <<[do |-> "select", sym |-> "S", if |-> SymE("T")]>>

MCVersions == <<One, Two, Three>>
MCSeed == <<Line("T", "m"), Line("N", "4")>>
Request(mode, input, tty, pick, seeded) ==
  [mode |-> mode, tty |-> tty, input |-> input, pick |-> pick, seeded |-> seeded, nosilent |-> FALSE]
MCRequests ==
  {Request("oldconfig", i, FALSE, 0, FALSE) : i \in {<< >>, <<"y", "m", "2", "4">>}} \cup
  {Request("oldaskconfig", <<"y", "y", "n", "1", "5">>, FALSE, 0, FALSE),
   Request("silentoldconfig", << >>, FALSE, 0, FALSE),
   Request("silentoldconfig", <<"y">>, TRUE, 0, FALSE),
   [Request("silentoldconfig", << >>, TRUE, 0, FALSE) EXCEPT !.nosilent = TRUE],
   Request("allyesconfig", << >>, FALSE, 0, FALSE),
   Request("allmodconfig", << >>, FALSE, 0, TRUE),
   Request("allnoconfig", << >>, FALSE, 0, FALSE),
   Request("alldefconfig", << >>, FALSE, 0, FALSE),
   Request("randconfig", << >>, FALSE, 1, FALSE),
   Request("randconfig", << >>, FALSE, 2, TRUE),
   Request("savedefconfig", << >>, FALSE, 0, FALSE),
   Request("defconfig", << >>, FALSE, 0, FALSE),
   Request("olddefconfig", << >>, FALSE, 0, FALSE),
   Request("listnewconfig", << >>, FALSE, 0, FALSE)}
=============================================================================
