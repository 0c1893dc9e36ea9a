------------------------------- MODULE FencedLog -------------------------------
(***************************************************************************)
(* What fenced ownership of one run promises, without leases, clocks, row  *)
(* locks or transactions: ownership is a sequence of epochs, each with at  *)
(* most one holder, and every durable write is appended by the holder of   *)
(* the current epoch.  Fencing is shown to implement this specification.   *)
(***************************************************************************)
EXTENDS Naturals, Sequences

CONSTANTS
    Owners,      \* names workers present
    NoOwner      \* nobody: the run was never leased, or was released

VARIABLES
    epoch,       \* ownership epochs handed out so far
    holder,      \* who holds the current epoch
    entries      \* durable writes in commit order, each with its writer

vars == <<epoch, holder, entries>>

Init ==
    /\ epoch = 0
    /\ holder = NoOwner
    /\ entries = << >>

(* A new epoch begins; whoever held the run before holds it no longer. *)
Take(o) ==
    /\ epoch' = epoch + 1
    /\ holder' = o
    /\ UNCHANGED entries

(* The holder gives the run up.  Its epoch is never handed out again. *)
Drop ==
    /\ holder # NoOwner
    /\ holder' = NoOwner
    /\ UNCHANGED <<epoch, entries>>

(* Only the holder of the current epoch writes. *)
Write ==
    /\ holder # NoOwner
    /\ entries' = Append(entries, [owner |-> holder, token |-> epoch])
    /\ UNCHANGED <<epoch, holder>>

Next ==
    \/ \E o \in Owners : Take(o)
    \/ Drop
    \/ Write

Spec == Init /\ [][Next]_vars
================================================================================
