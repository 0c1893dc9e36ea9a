-------------------------------- MODULE Runner --------------------------------
(***************************************************************************)
(* The agent loop, internal/agent/runner.go Execute, run by processes that *)
(* crash, lose their lease and take over from each other.                  *)
(*                                                                         *)
(* A process executes a run under a fence it acquired.  Every write of the *)
(* loop is one transaction that first checks the fence, so a write is one  *)
(* step that either commits, as the current owner, or is refused and ends  *)
(* the execution.  What the loop reads between writes it keeps in local    *)
(* variables, and a takeover may happen between any two steps.             *)
(*                                                                         *)
(* A crash can happen at every step, which covers each of the crashpoint   *)
(* package's points.  A cancelled context, a lapsed lease and a failing    *)
(* statement end the execution with nothing written, as a crash does.      *)
(***************************************************************************)
EXTENDS Checkpoint, Replay

CONSTANTS
    Procs,      \* processes that may execute the run
    Turns,      \* sequences of tool calls the provider may ask for
    Configs,    \* run configurations
    maxSteps,   \* model turns per execution before it pauses
    MaxFence,   \* bound: executions started
    MaxTurns    \* bound: answered requests before the provider says it is done

ASSUME RunnerAssumption ==
    /\ maxSteps \in Nat \ {0}
    /\ MaxFence \in Nat
    /\ MaxTurns \in Nat
    /\ << >> \in Turns
    /\ \A calls \in Turns : calls \in Seq({calls[i] : i \in DOMAIN calls})
    /\ \A c \in Configs :
          /\ Creatable(c)
          /\ DOMAIN c.chaos \subseteq Nat \ {0}   \* rules are a list
          /\ NoName \notin c.ops                  \* the compiler requires operation IDs

VARIABLES
    cfg,     \* what the run was created with
    db,      \* the run's rows
    fence,   \* run_leases.fence
    proc     \* each process's execution

vars == <<cfg, db, fence, proc>>

NoTurn == Turn("", << >>, 0)

Idle == [pc |-> "idle", token |-> 0, used |-> 0, step |-> 0,
         history |-> << >>, next |-> NoTurn, failed |-> FALSE]

Init ==
    /\ cfg \in Configs
    /\ db = NewRun(cfg)
    /\ fence = 0
    /\ proc = [p \in Procs |-> Idle]

At(p, pc) == proc[p].pc = pc

Goto(p, pc) == proc' = [proc EXCEPT ![p].pc = pc]

Leave(p) == proc' = [proc EXCEPT ![p] = Idle]

(* Mutant: writes are not fenced. *)
MutOwnsAlways(p) == TRUE

(* GuardFenceTx inside the transaction of a write: see module Fencing. *)
Owns(p) == proc[p].token = fence

(***************************************************************************)
(* Executions start, die and lose their lease.                             *)
(***************************************************************************)

(* A worker claims the run, or a local command leases it.  It executes it  *)
(* unless the claim is over the delivery bound, which module Fleet counts. *)
(* The previous owner, if it still runs, is not told.                      *)
Acquire(p) ==
    /\ At(p, "idle")
    /\ fence < MaxFence
    /\ fence' = fence + 1
    /\ \E pc \in {"loop", "over"} :
          proc' = [proc EXCEPT ![p] = [Idle EXCEPT !.pc = pc, !.token = fence + 1]]
    /\ UNCHANGED <<cfg, db>>

Crash(p) ==
    /\ ~At(p, "idle")
    /\ Leave(p)
    /\ UNCHANGED <<cfg, db, fence>>

Writing == {"over", "dispatch", "failing", "complete", "pause", "append", "save"}

(* A guarded write by a process that has been displaced.  A dispatch       *)
(* refused this way also fails to record its error.                        *)
Fenced(p) ==
    /\ proc[p].pc \in Writing
    /\ ~Owns(p)
    /\ Leave(p)
    /\ UNCHANGED <<cfg, db, fence>>

(***************************************************************************)
(* The loop.                                                               *)
(***************************************************************************)

Finished(run) == run.status = "completed"

(* settleOverDelivered: a run over its delivery bound is failed without    *)
(* being executed, unless it is completed.                                 *)
FailRunAtDeliveryLimit(p) ==
    /\ At(p, "over")
    /\ Owns(p)
    /\ db' = IF Finished(db) THEN db
             ELSE SaveStatus(db, "failed", [type |-> "error", kind |-> "delivery_limit"])
    /\ Leave(p)
    /\ UNCHANGED <<cfg, fence>>

(* Where the loop goes from the history it read. *)
Branch(p, history) ==
    IF HasPending(history) THEN "dispatch"
    ELSE IF IsFinal(history) THEN "complete"
    ELSE IF proc[p].used >= maxSteps THEN "pause"
    ELSE "request"

(* The top of the loop reads the run. *)
ReadRun(p) ==
    /\ At(p, "loop")
    /\ proc' = IF Finished(db) THEN [proc EXCEPT ![p] = Idle]
               ELSE [proc EXCEPT ![p].pc = Branch(p, db.transcript),
                                 ![p].history = db.transcript,
                                 ![p].step = db.step]
    /\ UNCHANGED <<cfg, db, fence>>

(* Dispatch.Invoke on the first pending call. *)
InvokePending(p) ==
    LET r == Invoke(cfg, db, pending(proc[p].history))
    IN  /\ At(p, "dispatch")
        /\ Owns(p)
        /\ db' = r.db
        /\ Goto(p, IF r.ok THEN "loop" ELSE "failing")
        /\ UNCHANGED <<cfg, fence>>

(* The dispatch error is recorded in a transaction of its own. *)
RecordDispatchError(p) ==
    /\ At(p, "failing")
    /\ Owns(p)
    /\ db' = SaveStatus(db, "failed", [type |-> "error", kind |-> "dispatch"])
    /\ Leave(p)
    /\ UNCHANGED <<cfg, fence>>

Complete(p) ==
    /\ At(p, "complete")
    /\ Owns(p)
    /\ db' = SaveStatus(db, "completed", [type |-> "execution.completed", step |-> proc[p].step])
    /\ Leave(p)
    /\ UNCHANGED <<cfg, fence>>

Pause(p) ==
    /\ At(p, "pause")
    /\ Owns(p)
    /\ db' = SaveStatus(db, "paused", [type |-> "execution.paused", step |-> proc[p].step])
    /\ Leave(p)
    /\ UNCHANGED <<cfg, fence>>

LastEvent == db.events[Len(db.events)]

(* Mutant: the request names the worker that makes it. *)
MutReconstructedNamesOwner(p) ==
    [type |-> "model.request", history |-> proc[p].history, exposed |-> Exposed(cfg, db),
     owner |-> proc[p].token]

(* The request this process is about to make. *)
Reconstructed(p) == ModelRequest(proc[p].history, Exposed(cfg, db))

(* Mutant: an abandoned request is not recognised. *)
MutStartModelCallAppends(p) ==
    /\ At(p, "request")
    /\ Goto(p, "append")
    /\ UNCHANGED <<cfg, db, fence>>

(* startModelCall: an abandoned request is reused when it is the one this  *)
(* process would make, and refused when it is not.                         *)
startModelCall(p) ==
    /\ At(p, "request")
    /\ Goto(p, IF LastEvent.type # "model.request" THEN "append"
               ELSE IF LastEvent = Reconstructed(p) THEN "provider"
               ELSE "refused")
    /\ UNCHANGED <<cfg, db, fence>>

AppendRequest(p) ==
    /\ At(p, "append")
    /\ Owns(p)
    /\ db' = Emit(db, Reconstructed(p))
    /\ Goto(p, "provider")
    /\ UNCHANGED <<cfg, fence>>

(* The differing request ends the execution with an error. *)
RefuseResume(p) ==
    /\ At(p, "refused")
    /\ Leave(p)
    /\ UNCHANGED <<cfg, db, fence>>

AnsweredRequests == Cardinality({k \in DOMAIN db.events : db.events[k].type = "model.response"})

(* The bound: past MaxTurns answers the provider only ends the run. *)
Offered == IF AnsweredRequests < MaxTurns THEN Turns ELSE {<< >>}

(* A turn after at most one interrupted attempt, or an error after any     *)
(* number of them.                                                         *)
Answers == {Turn("assistant", calls, n) : calls \in Offered, n \in 0..(providerAttempts - 1)}

Errors == {Turn("", << >>, n) : n \in 0..providerAttempts}

(* callProvider.  A turn in another role is an answer like any other until *)
(* the loop looks at it.                                                   *)
callProvider ==
    [turn : Answers, failed : {FALSE}]
    \cup [turn : {Turn("user", << >>, 0)}, failed : {FALSE}]
    \cup [turn : Errors, failed : {TRUE}]

CallProvider(p) ==
    /\ At(p, "provider")
    /\ \E outcome \in callProvider :
          proc' = [proc EXCEPT ![p].pc = "save", ![p].next = outcome.turn,
                               ![p].failed = outcome.failed]
    /\ UNCHANGED <<cfg, db, fence>>

Accepted(p) ==
    /\ ~proc[p].failed
    /\ proc[p].next.role = "assistant"
    /\ validateCalls(cfg.ops, proc[p].history, proc[p].next)

SaveTurnGuarded(p) ==
    /\ At(p, "save")
    /\ Owns(p)
    /\ Accepted(p)
    /\ db' = SaveTurn(db, proc[p].step, proc[p].history, proc[p].next)
    /\ proc' = [proc EXCEPT ![p] = [Idle EXCEPT !.pc = "loop", !.token = proc[p].token,
                                                !.used = proc[p].used + 1]]
    /\ UNCHANGED <<cfg, fence>>

FailModelTurnGuarded(p) ==
    /\ At(p, "save")
    /\ Owns(p)
    /\ ~Accepted(p)
    /\ db' = FailModelTurn(db, proc[p].next)
    /\ Leave(p)
    /\ UNCHANGED <<cfg, fence>>

Next ==
    \E p \in Procs :
        \/ Acquire(p) \/ Crash(p) \/ Fenced(p) \/ FailRunAtDeliveryLimit(p)
        \/ ReadRun(p) \/ InvokePending(p) \/ RecordDispatchError(p)
        \/ Complete(p) \/ Pause(p)
        \/ startModelCall(p) \/ AppendRequest(p) \/ RefuseResume(p)
        \/ CallProvider(p) \/ SaveTurnGuarded(p) \/ FailModelTurnGuarded(p)

Spec == Init /\ [][Next]_vars

-------------------------------------------------------------------------------
Untroubled == Failures(db) = {}

AtRest == LastEvent.type \in {"execution.paused", "execution.completed"}

(* However many processes crashed, paused and took over from each other on *)
(* the way, the ledger of a run that met no recorded failure keeps the     *)
(* grammar checkpoint.List demands: no request is asked twice, no tool     *)
(* call overlaps another action, nothing follows a completion.  Once the   *)
(* run rests, List accepts it.  A paused run that was resumed is not at    *)
(* rest, although its status still says paused until the next turn is      *)
(* saved (checkpoint.go:60-181, runner.go:285-320).                        *)
CheckpointsListable ==
    Untroubled =>
        /\ ScanLedger(db.events).ok
        /\ AtRest => Listable(db)

(* A completed run that met no recorded failure is verified by replay: its *)
(* recorded turns, run again in a fresh world by one process that never    *)
(* crashes, leave the same ledger, results, chaos state, transcript and    *)
(* world (replay.go:61-256).                                               *)
ReplayVerifies == db.status = "completed" /\ Untroubled => Verified(cfg, db)

(* The owner of a run can always resume it: the abandoned request it finds *)
(* is the one it would make, byte for byte.  Only a process that has been  *)
(* displaced can find a different one (runner.go:293-320).                 *)
OwnerCanResume == \A p \in Procs : At(p, "refused") => ~Owns(p)

(* No process overwrites another's work: the transcript, the ledger, the   *)
(* saved results and the refunds of a run only grow, though SaveTurn       *)
(* writes back a transcript it read before the model was called            *)
(* (runner.go:177-184, guarded.go:68-79).  And nothing at all is written   *)
(* to a completed run: not by a displaced process that was about to finish *)
(* it too, nor by a later execution, nor by a claim over the delivery      *)
(* bound (runner.go:104-106, worker.go:448-470).                           *)
HistoryIsAppendOnly ==
    [][/\ db.status = "completed" => db' = db
       /\ IsPrefix(db.transcript, db'.transcript)
       /\ IsPrefix(db.events, db'.events)
       /\ db.results \subseteq db'.results
       /\ db.world.refunds \subseteq db'.world.refunds]_vars

(* Whatever was asked after a call that waits for its answer waits too. *)
AnsweredInOrder(history) ==
    \A a \in Unsettled(history), b \in CallsAt(history) :
        Earlier(a, b) => b \in Unsettled(history)

(* Calls are answered in the order they were asked for, whichever process  *)
(* dispatches them, and a completed run has answered every one of them     *)
(* with a result of its own: a call ID stands for one request in the run   *)
(* (runner.go:193-223, 335-352).                                           *)
EveryCallAnswered ==
    /\ AnsweredInOrder(db.transcript)
    /\ db.status = "completed" =>
          /\ ~HasPending(db.transcript)
          /\ Cardinality(db.results) = Cardinality(CallsAt(db.transcript))
===============================================================================
