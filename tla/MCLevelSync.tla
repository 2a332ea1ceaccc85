---------------------------- MODULE MCLevelSync ----------------------------
EXTENDS LevelSync

TwoDevices == <<"a", "b">>
OnlyFirst == {"a"}
(* Dark and without a fade, or found in the middle of a fade.                   *)
SomeGear == {[level |-> 0, target |-> 0, ramp |-> 0, fade |-> 0], [level |-> 1, target |-> 2, ramp |-> 2, fade |-> 1]}
(* Nothing moves when the service starts.                                       *)
SteadyGear == {[level |-> 2, target |-> 2, ramp |-> 0, fade |-> 1]}

=============================================================================
