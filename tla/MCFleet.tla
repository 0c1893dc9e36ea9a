------------------------------- MODULE MCFleet -------------------------------
(***************************************************************************)
(* Small instances of Fleet: how often each disturbance happens.           *)
(***************************************************************************)
EXTENDS Fleet, TLC

MCFaults(e, l, c, s, t, b) ==
    [d \in Disturbances |->
        CASE d = "enqueue" -> e [] d = "local" -> l [] d = "crash" -> c
          [] d = "stop" -> s [] d = "late" -> t [] d = "blip" -> b]

(* Two interchangeable workers beside one local command: all disturbances  *)
(* but one, each at most once, or the run enqueued again.                  *)
FleetFaults ==
    {MCFaults(1, 1, 1, 1, 1, 0), MCFaults(1, 1, 1, 0, 1, 1), MCFaults(1, 1, 0, 1, 1, 1),
     MCFaults(2, 1, 1, 1, 0, 1), MCFaults(2, 0, 1, 0, 1, 1)}
WorkerSymmetry == Permutations(Workers)

(* Two runs beside a local command: two enqueues with a crash and a late   *)
(* renewal, then one enqueue with a local command and a stop, a crash or a *)
(* late renewal, and one with a stop, a late renewal and a failed store    *)
(* call.                                                                   *)
LivenessFaults ==
    {MCFaults(2, 0, 1, 0, 1, 0), MCFaults(1, 1, 0, 1, 0, 0), MCFaults(1, 1, 1, 0, 0, 0),
     MCFaults(1, 1, 0, 0, 1, 0), MCFaults(1, 0, 0, 1, 1, 1)}
==============================================================================
