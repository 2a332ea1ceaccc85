---------------------------- MODULE MCBusMonitor ----------------------------
(***************************************************************************)
(* The bus monitor's frame handler fed in one of two ways: behind the ring *)
(* of BusMonitorRing, or with every counter in every order, valid or not,  *)
(* together with a record of how many valid frames in a row, with          *)
(* consecutive counters, were dropped.                                     *)
(***************************************************************************)
EXTENDS BusMonitorRing

VARIABLES feed, lastFc, dropRun

mcVars == <<allVars, feed, lastFc, dropRun>>

MCInit == RingInit /\ feed \in {"ring", "any"} /\ lastFc = NoCounter /\ dropRun = 0

MCRing == feed = "ring" /\ RingNext /\ UNCHANGED <<feed, lastFc, dropRun>>

\* A valid frame that was neither published nor buffered.
MCDropped(fc) == fc \notin Range(out') /\ buffer'[fc] = "absent"

MCAny ==
    /\ feed = "any"
    /\ \E fc \in Counter, valid \in BOOLEAN :
          /\ Handle(fc, valid)
          /\ lastFc' = fc
          /\ dropRun' = IF ~(valid /\ MCDropped(fc)) THEN 0
                        ELSE IF lastFc # NoCounter /\ fc = (lastFc + 1) % Modulo THEN dropRun + 1
                        ELSE 1
    /\ UNCHANGED <<feed, ringVars>>

MCNext == MCRing \/ MCAny

MCSpec == MCInit /\ [][MCNext]_mcVars

\* A counter stream that restarted anywhere is picked up again: fewer than two
\* ring lengths of consecutive valid frames are dropped in a row.
\* (_handle_frame_behind_expected, BUS_MONITOR_RESYNC_AFTER_FRAMES_BEHIND.)
PicksStreamUp == dropRun < 2 * RingSize
=============================================================================
