---------------------- MODULE MCApplicationController ----------------------
(***************************************************************************)
(* Two controls: the first two messages are for one of them, so that the   *)
(* second one finds it dirty or captured; the third is for the other. Of   *)
(* the callers' requests, batches, scans and messages any MaxInputs come.  *)
(***************************************************************************)
EXTENDS ApplicationController

CONSTANTS c1, c2, MaxInputs

MCControlOf == [m \in 1 .. MaxMessage |-> IF m < 3 THEN c1 ELSE c2]

MCNext ==
    /\ Next
    /\ Cardinality({t \in Request \cup Batch \cup Scan : future'[t] # "none"}) + arrived' <= MaxInputs

MCSpec == Init /\ [][MCNext]_vars /\ Fairness
=============================================================================
