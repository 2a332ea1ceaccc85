---------------------------- MODULE MCColourSync ----------------------------
(* Small instances of ColourSync: a lamp of two coordinates and one of colour   *)
(* temperature, with limits or without.                                         *)
EXTENDS ColourSync

XY == [components |-> <<"x", "y">>, coolest |-> Unset, warmest |-> Unset, 
       first |-> [c \in {"x", "y"} |-> IF c = "x" THEN 1 ELSE Unset]]
Tc == [components |-> <<"tc">>, coolest |-> 1, warmest |-> 1, first |-> [c \in {"tc"} |-> 1]]

MCLamps == {XY, Tc}

(* The lamp of two coordinates has either two events or a fault.                *)
MCBudgets(l) == {[events |-> 2, faults |-> IF l = Tc THEN 1 ELSE 0], [events |-> 1, faults |-> 1]}

(* The last component is set, the others are left as they are.                  *)
MCSceneColours(l) == {[c \in Range(l.components) |-> IF c = Last(l.components) THEN 2 ELSE Unset]}

MCPlans(l) ==
  LET c == Last(l.components)
  IN {SetCommands(c, 2) \o <<[op |-> "activate"]>>,
      <<[op |-> "control"]>> \o SetCommands(c, 2),
      <<[op |-> "activate"]>>,
      SetCommands(c, 2) \o <<[op |-> "store"], [op |-> "scene"]>>,
      <<[op |-> "step", c |-> c], [op |-> "other"]>>,
      <<[op |-> "scene"], [op |-> "remove"]>>}
=============================================================================
