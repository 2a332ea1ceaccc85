---------------------------- MODULE MCDaliDriver ----------------------------
(***************************************************************************)
(* Small instances of DaliDriver: batches of send_commands, single sends   *)
(* and a run_sequence compete for two gateway slots.                       *)
(***************************************************************************)
EXTENDS DaliDriver, TLC

CONSTANTS a, b, c, k1, k2, k3

\* a batch of two and a single command, sent or run as a sequence
MCBatchAndSend == k1 :> <<a, b>> @@ k2 :> <<c>>

\* a single send against a sequence of two
MCSendAndSequence == k1 :> <<a>> @@ k2 :> <<b, c>>

=============================================================================
