---------------------------- MODULE MCSettings -----------------------------
EXTENDS Settings

(* Gear with levels, fade, scenes and memory, and gear with two types whose     *)
(* settings depend on a feature, with groups but none of those.                 *)
SomeGears == {[types |-> <<6>>, feature |-> 0, bank |-> <<1, 2>>, cells |-> {"max", "time", "rate", "s1", "s2", "curve"}],
              [types |-> <<1, 5>>, feature |-> 1, bank |-> <<>>, cells |-> {"g1", "g2", "curve", "own"}]}
FirstValues == [max |-> 1, curve |-> 1, s1 |-> 1, s2 |-> 2, g1 |-> 0, g2 |-> 1, time |-> 1, rate |-> 2, own |-> 1]
NewValues == {0, 2}
SomeCells == {"s1"}

=============================================================================
