------------------------ MODULE MCKconfigMenuconfig ------------------------
(***************************************************************************)
(* One symbol of each kind that influences another.  The number N selects  *)
(* at 5, the value that the 6 of a file is clamped to before it is dropped *)
(* for the default 3.                                                      *)
(***************************************************************************)
EXTENDS KconfigMenuconfig

Bool(s, p) == <<[do |-> "config", sym |-> s], [do |-> "type", type |-> "boolean"],
                [do |-> "prompt", if |-> p]>>
MCConsts == {"y", "m", "n", "1", "3", "4", "5", "6"}
MCStatements ==
  Bool("MOD", None) \o <<[do |-> "modules"]>> \o
  <<[do |-> "config", sym |-> "T"], [do |-> "type", type |-> "tristate"], [do |-> "prompt", if |-> None],
    [do |-> "select", sym |-> "S", if |-> CompE("eq", "N", "5")]>> \o
  Bool("S", None) \o <<[do |-> "depends", if |-> SymE("MOD")]>> \o
  Bool("B", None) \o <<[do |-> "depends", if |-> SymE("S")]>> \o
  <<[do |-> "choice", sym |-> "CH"], [do |-> "prompt", if |-> None], [do |-> "begin"]>> \o
  Bool("C1", None) \o Bool("C2", SymE("T")) \o
  <<[do |-> "end"],
    [do |-> "menu"], [do |-> "depends", if |-> SymE("C1")], [do |-> "begin"],
    [do |-> "config", sym |-> "N"], [do |-> "type", type |-> "int"], [do |-> "prompt", if |-> None],
    [do |-> "range", lo |-> "1", hi |-> "5", if |-> None],
    [do |-> "default", x |-> SymE("3"), if |-> None],
    [do |-> "end"]>>

MCDisks == {<< >>, "config" :> <<Line("T", "m"), Line("N", "4")>>,
            "config" :> <<Line("MOD", "y"), Line("T", "m"), Line("N", "6")>>}
MCNames == {"config"}
MCBothNames == {"config", "other"}
MCTyped == {"5", "6"}
MCPatterns == <<{"MOD", "T", "S", "B", "C1", "C2", "N"}>>
============================================================================
