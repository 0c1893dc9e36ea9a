--------------------------------- MODULE Fleet ---------------------------------
(***************************************************************************)
(* A fleet of workers serving one queue: internal/store/queue.go and       *)
(* internal/worker (worker.go, local.go), with local `run' and `resume'    *)
(* commands executing beside it.                                           *)
(*                                                                         *)
(* Store transactions are single steps; Fencing opens them up.  Clocks     *)
(* agree here (Fencing lets them disagree), and a deadline is kept as the  *)
(* time left to it: 0 is past.  An execution is modelled by the status     *)
(* writes agent.Runner.Execute makes; module Runner looks inside.          *)
(***************************************************************************)
EXTENDS Naturals, Sequences, FiniteSets

CONSTANTS
    Workers,      \* fleet workers, by ID
    Locals,       \* local run and resume commands, by owner name
    Runs,
    None,         \* no owner, no run
    TTL,          \* lease duration
    Backoff,      \* delay before a failed run is tried again
    MaxAttempts,  \* the delivery bound
    MaxSteps,     \* model turns per execution
    Faults        \* bounds: how often each disturbance may happen, by profile

Disturbances == {"enqueue", "local", "crash", "stop", "late", "blip"}

ASSUME FleetAssumption ==
    /\ Workers \cap Locals = {}
    /\ None \notin Workers \cup Locals \cup Runs
    /\ TTL \in Nat \ {0}
    /\ Backoff \in Nat
    /\ MaxAttempts \in Nat \ {0}
    /\ MaxSteps \in Nat \ {0}
    /\ Faults \subseteq [Disturbances -> Nat]

Procs == Workers \cup Locals

VARIABLES
    queue,        \* work_queue: state, delivery count, time to available_at
    order,        \* runs by enqueued_at, which a re-enqueue keeps
    lease,        \* run_leases
    status,       \* runs.status
    registered,   \* the workers table
    job,          \* what each process is doing
    faults,       \* disturbances still to come
    executions    \* per run, executions since its last enqueue that were not
                  \* given back, and the fence at that enqueue (history)

vars == <<queue, order, lease, status, registered, job, faults, executions>>

TimeLeft == 0..TTL
Turns == 0..MaxSteps

Statuses == {"running", "paused", "failed", "completed"}

(* seen is the status the execution loop read; "saved" is the end of a run *)
(* whose final status is written.  lost is why the renewal loop gave up.   *)
Job ==
    [pc : {"down", "idle", "overdue", "executing", "returned"},
     run : Runs \cup {None}, fence : Nat, attempts : Nat, view : TimeLeft,
     used : Turns, seen : Statuses \cup {"unread", "saved"},
     result : {"none", "ok", "error", "fenced", "cancelled"},
     lost : {"no", "fenced", "expired"}, stop : BOOLEAN]

NoJob(pc) ==
    [pc |-> pc, run |-> None, fence |-> 0, attempts |-> 0, view |-> 0, used |-> 0,
     seen |-> "unread", result |-> "none", lost |-> "no", stop |-> FALSE]

Init ==
    /\ queue = [r \in Runs |-> [state |-> "absent", attempts |-> 0, wait |-> 0]]
    /\ order = << >>
    /\ lease = [r \in Runs |-> [owner |-> None, fence |-> 0, left |-> 0]]
    /\ status = [r \in Runs |-> "running"]
    /\ registered = {}
    /\ job = [p \in Procs |-> NoJob("down")]
    /\ faults \in Faults
    /\ executions = [r \in Runs |-> [count |-> 0, since |-> 0]]

Suffer(d) == faults[d] > 0 /\ faults' = [faults EXCEPT ![d] = @ - 1]

(* Mutant: the guard asks only whether the lease is live. *)
MutGuardClockOnly(p) == lease[job[p].run].left > 0

(* The guard of every durable write: GuardFenceTx. *)
Owns(p) ==
    LET r == job[p].run
    IN  /\ lease[r].owner = p
        /\ lease[r].fence = job[p].fence
        /\ lease[r].left > 0

(* Mutant: a live lease protects only an entry that is marked leased. *)
MutHeldByQueueState(p, r) ==
    lease[r].owner \notin {None, p} /\ lease[r].left > 0 /\ queue[r].state # "runnable"

HeldByAnother(p, r) ==
    lease[r].owner \notin {None, p} /\ lease[r].left > 0

(* The lease part of acquireRunLeaseTx: the fence rises on every call. *)
AcquireRunLease(p, r) ==
    /\ ~HeldByAnother(p, r)
    /\ lease' = [lease EXCEPT ![r] = [owner |-> p, fence |-> @.fence + 1, left |-> TTL]]

(***************************************************************************)
(* Queue operations.                                                       *)
(***************************************************************************)

(* A first enqueue, or an operator's retry: the delivery count and backoff *)
(* start over.  A lease that is live stays live.                           *)
Enqueue(r) ==
    /\ Suffer("enqueue")
    /\ queue' = [queue EXCEPT ![r] = [state |-> "runnable", attempts |-> 0, wait |-> 0]]
    /\ order' = IF \E i \in DOMAIN order : order[i] = r THEN order ELSE Append(order, r)
    /\ executions' = [executions EXCEPT ![r] = [count |-> 0, since |-> lease[r].fence]]
    /\ UNCHANGED <<lease, status, registered, job>>

(* Mutant: an expired claim is not taken over. *)
MutNoTakeover(p, r) ==
    queue[r].wait = 0 /\ queue[r].state = "runnable" /\ ~HeldByAnother(p, r)

(* claimableWhere for claimant p. *)
Claimable(p, r) ==
    /\ queue[r].wait = 0
    /\ \/ queue[r].state = "runnable"
       \/ queue[r].state = "leased" /\ lease[r].left = 0
    /\ ~HeldByAnother(p, r)

(* ClaimRun: the claimable entry enqueued first. *)
Oldest(p, i) ==
    /\ Claimable(p, order[i])
    /\ \A j \in 1..(i - 1) : ~Claimable(p, order[j])

(* Mutant: deliveries that report nothing are not bounded. *)
MutDeliveriesUnbounded(attempts) == FALSE

Over(attempts) == attempts > MaxAttempts

(* The head of ClaimAndRun: the claim counts as a delivery, and a run past *)
(* its bound is settled without executing it.                              *)
Claim(w) ==
    \E i \in DOMAIN order :
        LET r == order[i]
            n == queue[r].attempts + 1
        IN  /\ job[w].pc = "idle"
            /\ ~job[w].stop
            /\ Oldest(w, i)
            /\ AcquireRunLease(w, r)
            /\ queue' = [queue EXCEPT ![r].state = "leased", ![r].attempts = n]
            /\ job' = [job EXCEPT ![w] =
                 [NoJob(IF Over(n) THEN "overdue" ELSE "executing") EXCEPT
                    !.run = r, !.fence = lease'[r].fence, !.attempts = n, !.view = TTL]]
            /\ executions' = [executions EXCEPT ![r].count = IF Over(n) THEN @ ELSE @ + 1]
            /\ UNCHANGED <<order, status, registered, faults>>

(* The fence stays behind, so that the next holder's is higher. *)
Released(l) == [owner |-> None, fence |-> l.fence, left |-> 0]

(* completeQueueEntryTx after its guard: the queue entry, the released     *)
(* lease.                                                                  *)
Complete(p, state, attempts, wait) ==
    LET r == job[p].run
    IN  /\ Owns(p)
        /\ queue' = [queue EXCEPT ![r] = [state |-> state, attempts |-> attempts, wait |-> wait]]
        /\ lease' = [lease EXCEPT ![r] = Released(@)]

FinishRun(p) == Complete(p, "finished", queue[job[p].run].attempts, 0)

FailRun(p) == Complete(p, "failed", queue[job[p].run].attempts, 0)

RequeueRun(p) == Complete(p, "runnable", queue[job[p].run].attempts, Backoff)

(* Mutant: a delivery is given back from a count that was reset. *)
MutReleaseWithoutFloor(p) ==
    LET r == job[p].run
    IN  Complete(p, "runnable", queue[r].attempts - 1, 0)

(* ReleaseClaim gives back the delivery, never below zero: the count may   *)
(* have been reset by a re-enqueue meanwhile.                              *)
ReleaseClaim(p) ==
    LET r == job[p].run
        n == queue[r].attempts
    IN  Complete(p, "runnable", IF n > 0 THEN n - 1 ELSE 0, 0)

(***************************************************************************)
(* Execution: the status writes of agent.Runner.Execute under runCtx.      *)
(***************************************************************************)
Cancelled(p) == job[p].stop \/ job[p].lost # "no"

Running(p) == job[p].pc = "executing" /\ ~Cancelled(p)

Return(p, result) ==
    job' = [job EXCEPT ![p].pc = "returned", ![p].result = result]

ExecUnchanged == UNCHANGED <<queue, order, lease, registered, faults, executions>>

(* Mutant: a failed run is returned like a completed one. *)
MutReadRunFailedIsFinal(p) ==
    /\ Running(p)
    /\ job[p].seen = "unread"
    /\ IF status[job[p].run] \in {"completed", "failed"}
         THEN Return(p, "ok")
         ELSE job' = [job EXCEPT ![p].seen = status[job[p].run]]
    /\ UNCHANGED status /\ ExecUnchanged

(* The top of the loop: a completed run is returned as it is. *)
ReadRun(p) ==
    /\ Running(p)
    /\ job[p].seen = "unread"
    /\ IF status[job[p].run] = "completed"
         THEN Return(p, "ok")
         ELSE job' = [job EXCEPT ![p].seen = status[job[p].run]]
    /\ UNCHANGED status /\ ExecUnchanged

(* The guarded writes that end one pass of the loop. *)
Writing(p) == Running(p) /\ job[p].seen \notin {"unread", "saved"}

WriteStatus(p, s) ==
    /\ Writing(p)
    /\ Owns(p)
    /\ status' = [status EXCEPT ![job[p].run] = s]

SaveTurn(p) ==
    /\ job[p].used < MaxSteps
    /\ WriteStatus(p, "running")
    /\ job' = [job EXCEPT ![p].seen = "unread", ![p].used = @ + 1]
    /\ ExecUnchanged

SaveStatus(p) ==
    /\ \/ WriteStatus(p, "completed")
       \/ job[p].used = MaxSteps /\ WriteStatus(p, "paused")
    /\ job' = [job EXCEPT ![p].seen = "saved"]
    /\ ExecUnchanged

(* A provider, validation or dispatch failure is written, then returned. *)
FailTurn(p) ==
    /\ WriteStatus(p, "failed")
    /\ Return(p, "error")
    /\ ExecUnchanged

(* The final read of the run. *)
ReturnSaved(p) ==
    /\ Running(p)
    /\ job[p].seen = "saved"
    /\ Return(p, "ok")
    /\ UNCHANGED status /\ ExecUnchanged

WriteFenced(p) ==
    /\ Writing(p)
    /\ ~Owns(p)
    /\ Return(p, "fenced")
    /\ UNCHANGED status /\ ExecUnchanged

(* A store or provider-selection error that writes nothing; it can follow  *)
(* the final status write, whose read-back fails.                          *)
ExecError(p) ==
    /\ Running(p)
    /\ Suffer("blip")
    /\ Return(p, "error")
    /\ UNCHANGED <<queue, order, lease, status, registered, executions>>

ExecCancelled(p) ==
    /\ job[p].pc = "executing"
    /\ Cancelled(p)
    /\ Return(p, "cancelled")
    /\ UNCHANGED status /\ ExecUnchanged

Execute(p) ==
    \/ ReadRun(p)
    \/ SaveTurn(p)
    \/ SaveStatus(p)
    \/ FailTurn(p)
    \/ ReturnSaved(p)
    \/ WriteFenced(p)
    \/ ExecError(p)
    \/ ExecCancelled(p)

(***************************************************************************)
(* The renewal loop, beside the execution until runCtx ends.               *)
(***************************************************************************)
RenewRunLease(p) ==
    /\ Running(p)
    /\ Owns(p)
    /\ lease' = [lease EXCEPT ![job[p].run].left = TTL]
    /\ job' = [job EXCEPT ![p].view = TTL]
    /\ UNCHANGED <<queue, order, status, registered, faults, executions>>

(* The store refuses: nothing a retry does can change that. *)
RenewRefused(p) ==
    /\ Running(p)
    /\ ~Owns(p)
    /\ job' = [job EXCEPT ![p].lost = "fenced"]
    /\ UNCHANGED status /\ ExecUnchanged

(* Any other failure says nothing about who owns the run, and the update   *)
(* may have landed.  The loop gives up once its own view has expired.      *)
RenewFailed(p) ==
    /\ Running(p)
    /\ Suffer("blip")
    /\ \/ Owns(p) /\ lease' = [lease EXCEPT ![job[p].run].left = TTL]
       \/ UNCHANGED lease
    /\ job' = [job EXCEPT ![p].lost = IF job[p].view = 0 THEN "expired" ELSE @]
    /\ UNCHANGED <<queue, order, status, registered, executions>>

Renew(p) == RenewRunLease(p) \/ RenewRefused(p) \/ RenewFailed(p)

(***************************************************************************)
(* Settlement: the end of ClaimAndRun, under a context a stop does not     *)
(* reach.                                                                  *)
(***************************************************************************)

(* Mutant: a stopped worker's row is removed whatever it holds. *)
MutRemoveAlways(w) == FALSE

(* ClaimAndRun returns.  Serve polls again, or ends with the worker's row  *)
(* removed, unless the worker still owns a live lease (Close,              *)
(* RemoveWorker).                                                          *)
OwnsLiveLease(w) == \E r \in Runs : lease'[r].owner = w /\ lease'[r].left > 0

EndClaim(w) ==
    /\ job' = [job EXCEPT ![w] = NoJob(IF job[w].stop THEN "down" ELSE "idle")]
    /\ registered' = IF job[w].stop /\ ~OwnsLiveLease(w) THEN registered \ {w} ELSE registered

GivesBack(w) ==
    /\ job[w].result = "cancelled"
    /\ job[w].lost = "no"

(* The closing write the outcome calls for, by its guard. *)
ClosingWrite(w) ==
    LET r == job[w].run
    IN  CASE GivesBack(w) ->
               /\ ReleaseClaim(w)
               /\ executions' = [executions EXCEPT ![r].count =
                                   IF job[w].fence > executions[r].since THEN @ - 1 ELSE @]
          [] job[w].result = "error" ->
               /\ IF job[w].attempts >= MaxAttempts THEN FailRun(w) ELSE RequeueRun(w)
               /\ UNCHANGED executions
          [] job[w].result = "ok" ->
               /\ FinishRun(w)
               /\ UNCHANGED executions

Settle(w) ==
    /\ job[w].pc = "returned"
    /\ job[w].result # "fenced" /\ job[w].lost = "no"
    /\ ClosingWrite(w)
    /\ EndClaim(w)
    /\ UNCHANGED <<order, status, faults>>

(* The run moved on: fenced mid-run, lost, or refused by the closing write. *)
SettleFenced(w) ==
    /\ job[w].pc = "returned"
    /\ job[w].result = "fenced" \/ job[w].lost # "no" \/ ~Owns(w)
    /\ UNCHANGED <<queue, order, lease, status, faults, executions>>
    /\ EndClaim(w)

(* The closing write fails for another reason: the lease lapses on its own. *)
Unsettled(w) ==
    /\ job[w].pc \in {"returned", "overdue"}
    /\ Suffer("blip")
    /\ UNCHANGED <<queue, order, lease, status, executions>>
    /\ EndClaim(w)

(* settleOverDelivered reads the run, then finishes it if it had completed *)
(* and fails it otherwise.                                                 *)
ReadOverdue(w) ==
    /\ job[w].pc = "overdue"
    /\ job[w].seen = "unread"
    /\ job' = [job EXCEPT ![w].seen = status[job[w].run]]
    /\ UNCHANGED status /\ ExecUnchanged

SettleOverDelivered(w) ==
    /\ job[w].pc = "overdue"
    /\ job[w].seen # "unread"
    /\ \/ /\ job[w].seen = "completed"
          /\ FinishRun(w)
          /\ UNCHANGED status
       \/ /\ job[w].seen # "completed"
          /\ FailRun(w)
          /\ status' = [status EXCEPT ![job[w].run] = "failed"]
       \/ /\ ~Owns(w)
          /\ UNCHANGED <<queue, lease, status>>
    /\ EndClaim(w)
    /\ UNCHANGED <<order, faults, executions>>

(***************************************************************************)
(* Worker processes.                                                       *)
(***************************************************************************)
Start(w) ==
    /\ job[w].pc = "down"
    /\ job' = [job EXCEPT ![w] = NoJob("idle")]
    /\ registered' = registered \cup {w}
    /\ UNCHANGED <<queue, order, lease, status, faults, executions>>

(* Ctrl-C or SIGTERM.  An idle worker leaves at once. *)
Stop(w) ==
    /\ job[w].pc # "down" /\ ~job[w].stop
    /\ Suffer("stop")
    /\ IF job[w].pc = "idle"
         THEN /\ job' = [job EXCEPT ![w] = NoJob("down")]
              /\ UNCHANGED lease
              /\ registered' = IF OwnsLiveLease(w) THEN registered ELSE registered \ {w}
         ELSE job' = [job EXCEPT ![w].stop = TRUE] /\ UNCHANGED <<lease, registered>>
    /\ UNCHANGED <<queue, order, status, executions>>

(* A process that is killed leaves its lease and its row behind. *)
Crash(p) ==
    /\ job[p].pc # "down"
    /\ Suffer("crash")
    /\ job' = [job EXCEPT ![p] = NoJob("down")]
    /\ UNCHANGED <<queue, order, lease, status, registered, executions>>

(***************************************************************************)
(* ExecuteLocal: a command leases the run itself, whatever the queue says, *)
(* and releases it at the end, also after Ctrl-C.                          *)
(***************************************************************************)
LocalStart(p, r) ==
    /\ job[p].pc = "down"
    /\ Suffer("local")
    /\ AcquireRunLease(p, r)
    /\ job' = [job EXCEPT ![p] =
         [NoJob("executing") EXCEPT !.run = r, !.fence = lease'[r].fence, !.view = TTL]]
    /\ UNCHANGED <<queue, order, status, registered, executions>>

LocalInterrupt(p) ==
    /\ job[p].pc = "executing" /\ ~job[p].stop
    /\ Suffer("stop")
    /\ job' = [job EXCEPT ![p].stop = TRUE]
    /\ UNCHANGED <<queue, order, lease, status, registered, executions>>

(* ReleaseRunLease does not ask whether the lease has expired. *)
LocalRelease(p) ==
    LET r == job[p].run
    IN  /\ job[p].pc = "returned"
        /\ \/ /\ lease[r].owner = p /\ lease[r].fence = job[p].fence
              /\ lease' = [lease EXCEPT ![r] = Released(@)]
           \/ /\ ~(lease[r].owner = p /\ lease[r].fence = job[p].fence)
              /\ UNCHANGED lease
        /\ job' = [job EXCEPT ![p] = NoJob("down")]
        /\ UNCHANGED <<queue, order, status, registered, faults, executions>>

(***************************************************************************)
(* Time.  A live holder that keeps renewing does not see its lease lapse;  *)
(* how often one is paused or starved for that long is bounded.            *)
(***************************************************************************)
AboutToLapse(p) == job[p].run # None /\ Owns(p) /\ lease[job[p].run].left = 1

Down(n) == IF n > 0 THEN n - 1 ELSE 0

Tick ==
    /\ \E r \in Runs : lease[r].left > 0 \/ queue[r].wait > 0
    /\ \/ (\A p \in Procs : ~AboutToLapse(p)) /\ UNCHANGED faults
       \/ (\E p \in Procs : AboutToLapse(p)) /\ Suffer("late")
    /\ lease' = [r \in Runs |-> [lease[r] EXCEPT !.left = Down(@)]]
    /\ queue' = [r \in Runs |-> [queue[r] EXCEPT !.wait = Down(@)]]
    /\ job' = [p \in Procs |-> [job[p] EXCEPT !.view = Down(@)]]
    /\ UNCHANGED <<order, status, registered, executions>>

WorkerStep(w) ==
    \/ Claim(w)
    \/ Execute(w)
    \/ Renew(w)
    \/ Settle(w)
    \/ SettleFenced(w)
    \/ Unsettled(w)
    \/ ReadOverdue(w)
    \/ SettleOverDelivered(w)
    \/ Start(w)
    \/ Stop(w)
    \/ Crash(w)

LocalStep(p) ==
    \/ \E r \in Runs : LocalStart(p, r)
    \/ Execute(p)
    \/ Renew(p)
    \/ LocalInterrupt(p)
    \/ LocalRelease(p)
    \/ Crash(p)

Next ==
    \/ \E r \in Runs : Enqueue(r)
    \/ \E w \in Workers : WorkerStep(w)
    \/ \E p \in Locals : LocalStep(p)
    \/ Tick

(* Time passes; a process that is up keeps executing, renewing and         *)
(* settling, and a worker that is up keeps polling.  Nobody has to start,  *)
(* stop or crash.                                                          *)
Fairness ==
    /\ WF_vars(Tick)
    /\ \A p \in Procs : WF_vars(Execute(p)) /\ WF_vars(RenewRunLease(p))
    /\ \A w \in Workers :
           /\ WF_vars(Claim(w))
           /\ WF_vars(Settle(w) \/ SettleFenced(w))
           /\ WF_vars(ReadOverdue(w) \/ SettleOverDelivered(w))
    /\ \A p \in Locals : WF_vars(LocalRelease(p))

Spec == Init /\ [][Next]_vars

FairSpec == Spec /\ Fairness

(***************************************************************************)
(* Properties.                                                             *)
(***************************************************************************)

(* The shape of the queue, the leases and the processes. *)
TypeOK ==
    /\ queue \in [Runs -> [state : {"absent", "runnable", "leased", "finished", "failed"},
                           attempts : Nat, wait : 0..Backoff]]
    /\ order \in Seq(Runs)
    /\ lease \in [Runs -> [owner : Procs \cup {None}, fence : Nat, left : TimeLeft]]
    /\ status \in [Runs -> Statuses]
    /\ registered \subseteq Workers
    /\ job \in [Procs -> Job]
    /\ faults \in [Disturbances -> Nat]
    /\ executions \in [Runs -> [count : Nat, since : Nat]]

(* While clocks agree, two processes never execute one run each believing  *)
(* its lease is still valid: the renewal loop's view never outlives the    *)
(* row, through lost acknowledgements, re-enqueues and takeovers.          *)
SoleExecutor ==
    \A p, q \in Procs :
        /\ job[p].pc = "executing" /\ job[p].view > 0
        /\ job[q].pc = "executing" /\ job[q].view > 0
        /\ job[p].run = job[q].run
        => p = q

(* Since it was last enqueued a run is executed at most MaxAttempts times, *)
(* crashes and takeovers included, deliveries given back by a worker that  *)
(* was told to stop not counted (ClaimAndRun, ReleaseClaim).               *)
DeliveryBound == \A r \in Runs : executions[r].count <= MaxAttempts

(* A live lease names a holder an operator can find: a local command, or a *)
(* worker listed in the fleet, also after one stopped without being able   *)
(* to hand the run back.  No release, crash or interrupted command leaves  *)
(* a claim stranded behind a lease that nobody holds (RemoveWorker,        *)
(* ReleaseRunLease, local.go:60-83).                                       *)
LiveHolderListed ==
    \A r \in Runs : lease[r].left > 0 => lease[r].owner \in registered \cup Locals

(* Completion is final: neither a displaced execution that read the run    *)
(* before it completed nor a claim past its delivery bound takes it back.  *)
CompletionIsFinal ==
    [][\A r \in Runs : status[r] = "completed" => status'[r] = "completed"]_vars

(* The queue reports a run finished only when the run completed or paused  *)
(* at its step budget, by the status at that moment.                       *)
FinishedIsTrue ==
    [][\A r \in Runs :
          queue[r].state # "finished" /\ queue'[r].state = "finished"
            => status[r] \in {"completed", "paused"}]_vars

(* Every queued run is eventually finished or failed, through crashes,     *)
(* stops, missed renewals, failed store calls and local commands, as long  *)
(* as these end and a worker keeps coming up.                              *)
EveryRunSettles ==
    (\E w \in Workers : []<>(job[w].pc # "down")) =>
        \A r \in Runs :
            queue[r].state \in {"runnable", "leased"} ~> queue[r].state \in {"finished", "failed"}

================================================================================
