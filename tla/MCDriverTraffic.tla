-------------------------- MODULE MCDriverTraffic --------------------------
(***************************************************************************)
(* Small instances of DriverTraffic over two gateway slots: a batch of two *)
(* and a single send, or a single send against a sequence of two.          *)
(***************************************************************************)
EXTENDS DriverTraffic, TLC

CONSTANTS a, b, c, k1, k2

MCBatchAndSend == k1 :> <<a, b>> @@ k2 :> <<c>>

MCSendAndSequence == k1 :> <<a>> @@ k2 :> <<b, c>>
=============================================================================
