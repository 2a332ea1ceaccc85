--------------------------- MODULE MCDeviceTable ---------------------------
(* Instances of the device table for TLC: two gears, or a gear and a DALI-2     *)
(* control device. The RPCs in flight are interchangeable.                      *)
EXTENDS DeviceTable, TLC

CONSTANTS a, b, rpc1, rpc2

GearOrMixed == {[g \in {a, b} |-> "gear"], [g \in {a, b} |-> IF g = a THEN "gear" ELSE "dali2"]}
ClientSymmetry == Permutations(Clients)
=============================================================================
