----------------------------- MODULE MCPolling -----------------------------
EXTENDS Polling

(* A lamp with a totalizer, a lamp with two controls, and a DALI-2 device.      *)
ThreeDevices == <<"metered", "lamp", "input">>
SomeControls == [d \in {"metered", "lamp", "input"} |->
                   CASE d = "metered" -> <<"level1", "energy">>
                     [] d = "lamp" -> <<"level2", "status2">>
                     [] d = "input" -> <<>>]
SomeSettings == [d \in {"metered", "lamp", "input"} |->
                   CASE d = "metered" -> <<2>> [] d = "lamp" -> <<1>> [] d = "input" -> <<>>]
SomeIntervals == {2}

=============================================================================
