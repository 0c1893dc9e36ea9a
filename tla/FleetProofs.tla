------------------------------ MODULE FleetProofs ------------------------------
(***************************************************************************)
(* Proofs about Fleet, for every set of workers, local commands and runs,  *)
(* every lease duration, backoff, delivery bound and step budget, and any  *)
(* number of disturbances.                                                 *)
(***************************************************************************)
EXTENDS Fleet, TLAPS

(***************************************************************************)
(* The inductive invariant.                                                *)
(***************************************************************************)

(* A process between NoJob and NoJob is at work on a run. *)
Busy(p) == job[p].run # None

(* Its token is the run's newest one: the part of the guard no clock       *)
(* decides.                                                                *)
Current(p) == Busy(p) /\ job[p].fence = lease[job[p].run].fence

IdleHasNoRun == \A p \in Procs : job[p].pc \in {"down", "idle"} <=> ~Busy(p)

(* A process that has returned says how. *)
Reported == \A p \in Procs : job[p].pc = "returned" => job[p].result # "none"

FencesBehind ==
    \A p \in Procs : Busy(p) => job[p].fence <= lease[job[p].run].fence

(* No two processes hold the same token of a run. *)
FencesUnique ==
    \A p, q \in Procs :
        Busy(p) /\ job[p].run = job[q].run /\ job[p].fence = job[q].fence => p = q

(* Only its own process releases the newest token. *)
CurrentOwns ==
    \A p \in Procs : Current(p) => lease[job[p].run].owner = p

(* A process that believes in its lease has the newest token, and the row  *)
(* lasts at least as long as the belief.                                   *)
ViewBehindRow ==
    \A p \in Procs : Busy(p) /\ job[p].view > 0 =>
        Current(p) /\ job[p].view <= lease[job[p].run].left

LeaseInv ==
    IdleHasNoRun /\ Reported /\ FencesBehind /\ FencesUnique /\ CurrentOwns /\ ViewBehindRow

(* What the holder of the newest token read of the run is still so, and    *)
(* what it reports is so.                                                  *)
SeenHolds(p) ==
    LET r == job[p].run
    IN  /\ job[p].pc = "executing" /\ job[p].seen \in Statuses =>
               status[r] = job[p].seen /\ status[r] # "completed"
        /\ job[p].pc = "executing" /\ job[p].seen = "saved" =>
               status[r] \in {"completed", "paused"}
        /\ job[p].pc = "overdue" => job[p].seen \in {"unread", status[r]}
        /\ job[p].pc = "returned" /\ job[p].result = "ok" =>
               status[r] \in {"completed", "paused"}

SeenIsCurrent == \A p \in Procs : Current(p) => SeenHolds(p)

UpRegistered == \A w \in Workers : job[w].pc # "down" => w \in registered

ListingInv == UpRegistered /\ LiveHolderListed

(* Executions are within the delivery count and the bound.  Until the run  *)
(* is leased again after an enqueue nothing is counted, and the execution  *)
(* a current worker is in is counted, so giving it back is sound.          *)
Accounted ==
    \A r \in Runs :
        /\ executions[r].count <= queue[r].attempts
        /\ executions[r].since <= lease[r].fence
        /\ executions[r].since = lease[r].fence =>
               queue[r].attempts = 0 /\ executions[r].count = 0

ExecutionCounted ==
    \A w \in Workers :
        /\ Current(w) /\ job[w].pc \in {"executing", "returned"}
        /\ job[w].fence > executions[job[w].run].since
        => executions[job[w].run].count > 0

CountInv == DeliveryBound /\ Accounted /\ ExecutionCounted

IInv == TypeOK /\ LeaseInv /\ SeenIsCurrent /\ ListingInv /\ CountInv

(***************************************************************************)
(* Type correctness.                                                       *)
(***************************************************************************)

(* The counters are numbers. *)
LEMMA CounterTypes ==
  ASSUME TypeOK
  PROVE  /\ \A r \in Runs : /\ executions[r].count \in Nat
                            /\ executions[r].since \in Nat
                            /\ queue[r].attempts \in Nat
         /\ MaxAttempts \in Nat /\ MaxAttempts > 0
  BY FleetAssumption DEF TypeOK

(* A job that has ended is a job record. *)
LEMMA NoJobType == \A pc \in {"down", "idle"} : NoJob(pc) \in Job
  BY FleetAssumption DEF NoJob, Job, Statuses, TimeLeft, Turns

(* At the start nothing is queued, leased or running. *)
LEMMA InitTypeOK == Init => TypeOK
<1> SUFFICES ASSUME Init PROVE TypeOK
  OBVIOUS
<1>1. job \in [Procs -> Job]
  BY NoJobType DEF Init
<1>2. faults \in [Disturbances -> Nat]
  BY FleetAssumption DEF Init
<1> QED
  BY <1>1, <1>2, FleetAssumption DEF Init, TypeOK, Statuses, TimeLeft

(* A disturbance uses up one of those the profile allows. *)
LEMMA SufferType ==
  ASSUME TypeOK, NEW d \in Disturbances, Suffer(d)
  PROVE  faults' \in [Disturbances -> Nat]
  BY DEF TypeOK, Suffer

(* Taking a lease keeps the lease table well formed. *)
LEMMA AcquireType ==
  ASSUME TypeOK, NEW p \in Procs, NEW r \in Runs, AcquireRunLease(p, r)
  PROVE  /\ lease' \in [Runs -> [owner : Procs \cup {None}, fence : Nat, left : TimeLeft]]
         /\ lease'[r] = [owner |-> p, fence |-> lease[r].fence + 1, left |-> TTL]
         /\ \A s \in Runs : s # r => lease'[s] = lease[s]
  BY FleetAssumption DEF TypeOK, AcquireRunLease, TimeLeft

(* So does a closing write, which touches one queue entry and its lease. *)
LEMMA CompleteType ==
  ASSUME TypeOK, NEW p \in Procs, Busy(p),
         NEW state \in {"runnable", "finished", "failed"},
         NEW n \in Nat, NEW wait \in 0..Backoff, Complete(p, state, n, wait)
  PROVE  /\ queue' \in [Runs -> [state : {"absent", "runnable", "leased", "finished", "failed"},
                                 attempts : Nat, wait : 0..Backoff]]
         /\ lease' \in [Runs -> [owner : Procs \cup {None}, fence : Nat, left : TimeLeft]]
<1>1. job[p].run \in Runs
  BY DEF TypeOK, Busy, Job
<1>2. queue' = [queue EXCEPT ![job[p].run] = [state |-> state, attempts |-> n, wait |-> wait]]
  BY DEF Complete
<1>3. lease' = [lease EXCEPT ![job[p].run] =
                  [owner |-> None, fence |-> lease[job[p].run].fence, left |-> 0]]
  BY DEF Complete, Released
<1>4. queue' \in [Runs -> [state : {"absent", "runnable", "leased", "finished", "failed"},
                                 attempts : Nat, wait : 0..Backoff]]
  BY <1>1, <1>2, FleetAssumption DEF TypeOK
<1>5. lease' \in [Runs -> [owner : Procs \cup {None}, fence : Nat, left : TimeLeft]]
  BY <1>1, <1>3, FleetAssumption DEF TypeOK, TimeLeft
<1> QED
  BY <1>4, <1>5

(* ClaimAndRun's return leaves a job record and a set of workers. *)
LEMMA EndClaimType ==
  ASSUME TypeOK, NEW w \in Workers, EndClaim(w)
  PROVE  job' \in [Procs -> Job] /\ registered' \subseteq Workers
  BY NoJobType DEF TypeOK, EndClaim, Procs

(* A fresh lease and an expired one; an execution that has not begun. *)
LEMMA TimeLeftBounds == TTL \in TimeLeft /\ 0 \in TimeLeft /\ 0 \in Turns
  BY FleetAssumption DEF TimeLeft, Turns

(* A job record stays one when a field is set to a value of its kind. *)
LEMMA JobUpdates ==
  \A j \in Job :
    /\ \A v \in {"down", "idle", "overdue", "executing", "returned"} : [j EXCEPT !.pc = v] \in Job
    /\ \A v \in Runs \cup {None} : [j EXCEPT !.run = v] \in Job
    /\ \A v \in Nat : [j EXCEPT !.fence = v] \in Job
    /\ \A v \in Nat : [j EXCEPT !.attempts = v] \in Job
    /\ \A v \in TimeLeft : [j EXCEPT !.view = v] \in Job
    /\ \A v \in Turns : [j EXCEPT !.used = v] \in Job
    /\ \A v \in Statuses \cup {"unread", "saved"} : [j EXCEPT !.seen = v] \in Job
    /\ \A v \in {"ok", "error", "fenced", "cancelled"} : [j EXCEPT !.result = v] \in Job
    /\ \A v \in {"no", "fenced", "expired"} : [j EXCEPT !.lost = v] \in Job
    /\ \A v \in BOOLEAN : [j EXCEPT !.stop = v] \in Job
  BY DEF Job

(* A job that begins. *)
LEMMA FreshJob ==
  ASSUME NEW pc \in {"overdue", "executing"}, NEW r \in Runs, NEW f \in Nat, NEW n \in Nat
  PROVE  /\ [NoJob(pc) EXCEPT !.run = r, !.fence = f, !.attempts = n, !.view = TTL] \in Job
         /\ [NoJob(pc) EXCEPT !.run = r, !.fence = f, !.view = TTL] \in Job
<1>1. NoJob(pc) \in Job
  BY TimeLeftBounds DEF NoJob, Job
<1>2. [NoJob(pc) EXCEPT !.run = r] \in Job
  BY <1>1, JobUpdates
<1>3. [[NoJob(pc) EXCEPT !.run = r] EXCEPT !.fence = f] \in Job
  BY <1>2, JobUpdates
<1>4. [[[NoJob(pc) EXCEPT !.run = r] EXCEPT !.fence = f] EXCEPT !.attempts = n] \in Job
  BY <1>3, JobUpdates
<1>5. [[[[NoJob(pc) EXCEPT !.run = r] EXCEPT !.fence = f] EXCEPT !.attempts = n]
         EXCEPT !.view = TTL] \in Job
  BY <1>4, JobUpdates, TimeLeftBounds
<1>6. [[[NoJob(pc) EXCEPT !.run = r] EXCEPT !.fence = f] EXCEPT !.view = TTL] \in Job
  BY <1>3, JobUpdates, TimeLeftBounds
<1> QED
  BY <1>5, <1>6

(* So does an execution that returns. *)
LEMMA ReturnType ==
  ASSUME TypeOK, NEW p \in Procs, NEW result \in {"ok", "error", "fenced", "cancelled"},
         Return(p, result)
  PROVE  job' \in [Procs -> Job]
<1>1. [job[p] EXCEPT !.pc = "returned"] \in Job
  BY JobUpdates DEF TypeOK
<1>2. [[job[p] EXCEPT !.pc = "returned"] EXCEPT !.result = result] \in Job
  BY <1>1, JobUpdates
<1> QED
  BY <1>2 DEF TypeOK, Return

(* The steps of an execution and of its renewal loop. *)
LEMMA ExecuteType ==
  ASSUME TypeOK, IdleHasNoRun, NEW p \in Procs, Execute(p) \/ Renew(p)
  PROVE  TypeOK'
<1>1. job[p] \in Job /\ job[p].run \in Runs
  BY DEF TypeOK, IdleHasNoRun, Busy, Job, Execute, Renew, Running, ReadRun, SaveTurn,
         SaveStatus, FailTurn, ReturnSaved, WriteFenced, ExecError, ExecCancelled, Writing,
         WriteStatus, RenewRunLease, RenewRefused, RenewFailed
<1>2. status[job[p].run] \in Statuses
  BY <1>1 DEF TypeOK
<1>3. ASSUME ExecUnchanged, job' \in [Procs -> Job],
             UNCHANGED status \/ \E s \in Statuses : WriteStatus(p, s)
      PROVE  TypeOK'
  BY <1>3 DEF ExecUnchanged, WriteStatus, TypeOK
<1>4. CASE ReadRun(p)
  <2>1. CASE Return(p, "ok")
    BY <1>4, <2>1, <1>3, ReturnType DEF ReadRun
  <2>2. CASE job' = [job EXCEPT ![p].seen = status[job[p].run]]
    <3>1. [job[p] EXCEPT !.seen = status[job[p].run]] \in Job
      BY <1>1, <1>2, JobUpdates
    <3>2. job' \in [Procs -> Job]
      BY <2>2, <3>1 DEF TypeOK
    <3> QED
      BY <1>4, <1>3, <3>2 DEF ReadRun
  <2> QED
    BY <1>4, <2>1, <2>2 DEF ReadRun
<1>5. CASE SaveTurn(p)
  <2>1. job[p].used + 1 \in Turns
    BY <1>1, <1>5, FleetAssumption DEF SaveTurn, Job, Turns
  <2>2. [job[p] EXCEPT !.seen = "unread"] \in Job
    BY <1>1, JobUpdates
  <2>3. [[job[p] EXCEPT !.seen = "unread"] EXCEPT !.used = job[p].used + 1] \in Job
    BY <2>1, <2>2, JobUpdates
  <2>4. job' = [job EXCEPT ![p] = [[job[p] EXCEPT !.seen = "unread"] EXCEPT !.used = job[p].used + 1]]
    BY <1>5 DEF SaveTurn
  <2> QED
    BY <1>5, <1>3, <2>3, <2>4 DEF SaveTurn, TypeOK, Statuses
<1>6. CASE SaveStatus(p)
  <2>1. [job[p] EXCEPT !.seen = "saved"] \in Job
    BY <1>1, JobUpdates
  <2>2. job' \in [Procs -> Job]
    BY <1>6, <2>1 DEF SaveStatus, TypeOK
  <2>3. \E s \in Statuses : WriteStatus(p, s)
    BY <1>6 DEF SaveStatus, Statuses
  <2> QED
    BY <1>6, <1>3, <2>2, <2>3 DEF SaveStatus
<1>7. CASE FailTurn(p)
  <2>1. \E s \in Statuses : WriteStatus(p, s)
    BY <1>7 DEF FailTurn, Statuses
  <2> QED
    BY <1>7, <1>3, <2>1, ReturnType DEF FailTurn
<1>8. CASE ReturnSaved(p) \/ WriteFenced(p) \/ ExecCancelled(p)
  BY <1>8, <1>3, ReturnType DEF ReturnSaved, WriteFenced, ExecCancelled
<1>9. CASE ExecError(p)
  BY <1>9, ReturnType, SufferType DEF ExecError, TypeOK, Disturbances
<1>10. ASSUME NEW l, l = [lease EXCEPT ![job[p].run].left = TTL]
       PROVE  l \in [Runs -> [owner : Procs \cup {None}, fence : Nat, left : TimeLeft]]
  BY <1>1, <1>10, TimeLeftBounds DEF TypeOK
<1>11. CASE RenewRunLease(p)
  <2>1. [job[p] EXCEPT !.view = TTL] \in Job
    BY <1>1, JobUpdates, TimeLeftBounds
  <2> QED
    BY <1>10, <1>11, <2>1 DEF RenewRunLease, TypeOK
<1>12. CASE RenewRefused(p)
  <2>1. [job[p] EXCEPT !.lost = "fenced"] \in Job
    BY <1>1, JobUpdates
  <2> QED
    BY <1>3, <1>12, <2>1 DEF RenewRefused, TypeOK
<1>13. CASE RenewFailed(p)
  <2> DEFINE l == IF job[p].view = 0 THEN "expired" ELSE job[p].lost
  <2>1. l \in {"no", "fenced", "expired"}
    BY <1>1 DEF Job
  <2> HIDE DEF l
  <2>2. [job[p] EXCEPT !.lost = l] \in Job
    BY <1>1, <2>1, JobUpdates
  <2>3. job' = [job EXCEPT ![p].lost = l]
    BY <1>13 DEF RenewFailed, l
  <2>4. job' \in [Procs -> Job]
    BY <2>2, <2>3 DEF TypeOK
  <2>5. lease' \in [Runs -> [owner : Procs \cup {None}, fence : Nat, left : TimeLeft]]
    BY <1>10, <1>13 DEF RenewFailed, TypeOK
  <2>6. faults' \in [Disturbances -> Nat]
    BY <1>13, SufferType DEF RenewFailed, Disturbances
  <2> QED
    BY <1>13, <2>4, <2>5, <2>6 DEF RenewFailed, TypeOK
<1> QED
  BY <1>4, <1>5, <1>6, <1>7, <1>8, <1>9, <1>11, <1>12, <1>13 DEF Execute, Renew

(* The closing write of a settlement, by outcome. *)
LEMMA ClosingCases ==
  ASSUME TypeOK, Reported, NEW w \in Workers, Settle(w)
  PROVE  \/ /\ GivesBack(w)
            /\ ReleaseClaim(w)
            /\ executions' = [executions EXCEPT ![job[w].run].count =
                                IF job[w].fence > executions[job[w].run].since THEN @ - 1 ELSE @]
         \/ /\ job[w].result = "error"
            /\ FailRun(w) \/ RequeueRun(w)
            /\ UNCHANGED executions
         \/ /\ job[w].result = "ok"
            /\ FinishRun(w)
            /\ UNCHANGED executions
<1>1. /\ job[w].result \in {"ok", "error", "cancelled"}
      /\ job[w].result = "cancelled" => GivesBack(w)
      /\ GivesBack(w) => job[w].result = "cancelled"
  BY DEF Settle, TypeOK, Reported, Procs, Job, GivesBack
<1>2. CASE GivesBack(w)
  BY <1>2 DEF Settle, ClosingWrite
<1>3. CASE job[w].result = "error"
  BY <1>1, <1>3 DEF Settle, ClosingWrite
<1>4. CASE job[w].result = "ok"
  BY <1>1, <1>4 DEF Settle, ClosingWrite
<1> QED
  BY <1>1, <1>2, <1>3, <1>4

(* Each closing write is one completion of the queue entry. *)
LEMMA ClosingCompletes ==
  ASSUME TypeOK, NEW p \in Procs, Busy(p),
         FinishRun(p) \/ FailRun(p) \/ RequeueRun(p) \/ ReleaseClaim(p)
  PROVE  \E state \in {"runnable", "finished", "failed"}, n \in Nat, wait \in 0..Backoff :
             Complete(p, state, n, wait)
<1>1. job[p].run \in Runs
  BY DEF TypeOK, Busy, Job
<1>2. queue[job[p].run].attempts \in Nat /\ 0 \in 0..Backoff /\ Backoff \in 0..Backoff
  BY <1>1, FleetAssumption DEF TypeOK
<1>3. (IF queue[job[p].run].attempts > 0 THEN queue[job[p].run].attempts - 1 ELSE 0) \in Nat
  BY <1>2
<1> QED
  BY <1>2, <1>3 DEF FinishRun, FailRun, RequeueRun, ReleaseClaim

(* A settlement keeps the shape of the state: a delivery is given back     *)
(* only where one was counted.                                             *)
LEMMA SettleType ==
  ASSUME TypeOK, LeaseInv, CountInv, NEW w \in Workers, Settle(w)
  PROVE  TypeOK'
<1>1. w \in Procs /\ Busy(w) /\ job[w].run \in Runs
  BY DEF Procs, Settle, LeaseInv, IdleHasNoRun, TypeOK, Job, Busy
<1>2. FinishRun(w) \/ FailRun(w) \/ RequeueRun(w) \/ ReleaseClaim(w)
  BY ClosingCases DEF LeaseInv
<1>3. /\ queue' \in [Runs -> [state : {"absent", "runnable", "leased", "finished", "failed"},
                               attempts : Nat, wait : 0..Backoff]]
      /\ lease' \in [Runs -> [owner : Procs \cup {None}, fence : Nat, left : TimeLeft]]
  BY <1>1, <1>2, ClosingCompletes, CompleteType
<1>4. executions' \in [Runs -> [count : Nat, since : Nat]]
  <2>1. CASE GivesBack(w) /\ job[w].fence > executions[job[w].run].since
    <3>1. Current(w)
      BY <1>1, <1>2 DEF FinishRun, FailRun, RequeueRun, ReleaseClaim, Complete, Owns, Current
    <3>2. executions[job[w].run].count > 0
      BY <2>1, <3>1 DEF CountInv, ExecutionCounted, Settle
    <3>3. executions[job[w].run].count - 1 \in Nat
      BY <1>1, <3>2 DEF TypeOK
    <3>4. executions' = [executions EXCEPT ![job[w].run].count = executions[job[w].run].count - 1]
      BY <2>1, ClosingCases DEF LeaseInv, GivesBack
    <3> QED
      BY <1>1, <3>3, <3>4 DEF TypeOK
  <2>2. CASE ~(GivesBack(w) /\ job[w].fence > executions[job[w].run].since)
    <3>1. executions' = [executions EXCEPT ![job[w].run].count = executions[job[w].run].count]
            \/ UNCHANGED executions
      BY <2>2, ClosingCases DEF LeaseInv
    <3>2. executions[job[w].run].count \in Nat
      BY <1>1 DEF TypeOK
    <3>3. \A k \in Nat : [executions EXCEPT ![job[w].run].count = k] \in [Runs -> [count : Nat, since : Nat]]
      BY <1>1 DEF TypeOK
    <3>4. executions \in [Runs -> [count : Nat, since : Nat]]
      BY DEF TypeOK
    <3> QED
      BY <3>1, <3>2, <3>3, <3>4
  <2> QED
    BY <2>1, <2>2
<1> QED
  BY <1>3, <1>4, EndClaimType DEF Settle, TypeOK

(* A claim takes a queued run, counts a delivery, and begins a job. *)
ClaimOf(w, r, n, pc) ==
    /\ n = queue[r].attempts + 1
    /\ pc = IF n > MaxAttempts THEN "overdue" ELSE "executing"
    /\ job[w].pc = "idle"
    /\ AcquireRunLease(w, r)
    /\ queue' = [queue EXCEPT ![r].state = "leased", ![r].attempts = n]
    /\ job' = [job EXCEPT ![w] =
         [NoJob(pc) EXCEPT !.run = r, !.fence = lease'[r].fence, !.attempts = n, !.view = TTL]]
    /\ executions' = [executions EXCEPT ![r].count = IF n > MaxAttempts THEN @ ELSE @ + 1]
    /\ UNCHANGED <<order, status, registered, faults>>

(* Every claim is such a one. *)
LEMMA ClaimFacts ==
  ASSUME TypeOK, NEW w \in Workers, Claim(w)
  PROVE  \E r \in Runs, n \in Nat, pc \in {"overdue", "executing"} : ClaimOf(w, r, n, pc)
<1>1. PICK i \in DOMAIN order :
        LET r == order[i]
            n == queue[r].attempts + 1
        IN  /\ job[w].pc = "idle"
            /\ AcquireRunLease(w, r)
            /\ queue' = [queue EXCEPT ![r].state = "leased", ![r].attempts = n]
            /\ job' = [job EXCEPT ![w] =
                 [NoJob(IF Over(n) THEN "overdue" ELSE "executing") EXCEPT
                    !.run = r, !.fence = lease'[r].fence, !.attempts = n, !.view = TTL]]
            /\ executions' = [executions EXCEPT ![r].count = IF Over(n) THEN @ ELSE @ + 1]
            /\ UNCHANGED <<order, status, registered, faults>>
  BY DEF Claim
<1>2. order[i] \in Runs
  <2>1. order \in Seq(Runs)
    BY DEF TypeOK
  <2> QED
    BY <2>1
<1>3. queue[order[i]].attempts + 1 \in Nat
  BY <1>2, CounterTypes
<1> DEFINE n == queue[order[i]].attempts + 1
           pc == IF n > MaxAttempts THEN "overdue" ELSE "executing"
<1>4. ClaimOf(w, order[i], n, pc)
  BY <1>1, Zenon DEF ClaimOf, Over
<1>5. pc \in {"overdue", "executing"}
  OBVIOUS
<1> HIDE DEF pc
<1> QED
  BY <1>2, <1>3, <1>4, <1>5

(* Every step preserves the shape of the state. *)
LEMMA NextTypeOK == TypeOK /\ LeaseInv /\ CountInv /\ [Next]_vars => TypeOK'
<1> SUFFICES ASSUME TypeOK, LeaseInv, CountInv, [Next]_vars PROVE TypeOK'
  OBVIOUS
<1>1. \A p \in Procs : job[p] \in Job
  BY DEF TypeOK
<1>2. \A p \in Procs : job[p].pc \notin {"down", "idle"} => job[p].run \in Runs
  BY DEF TypeOK, Job, LeaseInv, IdleHasNoRun, Busy
<1>3. \A d \in Disturbances : Suffer(d) => faults' \in [Disturbances -> Nat]
  BY SufferType
<1>4. /\ "enqueue" \in Disturbances /\ "local" \in Disturbances /\ "crash" \in Disturbances
      /\ "stop" \in Disturbances /\ "late" \in Disturbances /\ "blip" \in Disturbances
  BY DEF Disturbances
<1>5. Workers \subseteq Procs /\ Locals \subseteq Procs
  BY DEF Procs
<1>6. CASE UNCHANGED vars
  BY <1>6 DEF vars, TypeOK
<1>7. ASSUME NEW r \in Runs, Enqueue(r) PROVE TypeOK'
  <2>1. [state |-> "runnable", attempts |-> 0, wait |-> 0] \in
          [state : {"absent", "runnable", "leased", "finished", "failed"},
           attempts : Nat, wait : 0..Backoff]
    BY FleetAssumption
  <2>2. [count |-> 0, since |-> lease[r].fence] \in [count : Nat, since : Nat]
    BY DEF TypeOK
  <2>3. order' \in Seq(Runs)
    BY <1>7 DEF Enqueue, TypeOK
  <2> QED
    BY <1>3, <1>4, <1>7, <2>1, <2>2, <2>3 DEF Enqueue, TypeOK
<1>8. ASSUME NEW w \in Workers, Claim(w) PROVE TypeOK'
  <2>1. PICK r \in Runs, n \in Nat, pc \in {"overdue", "executing"} : ClaimOf(w, r, n, pc)
    BY <1>8, ClaimFacts
  <2>2. lease' \in [Runs -> [owner : Procs \cup {None}, fence : Nat, left : TimeLeft]]
    BY <1>5, <2>1, AcquireType DEF ClaimOf
  <2>3. queue' \in [Runs -> [state : {"absent", "runnable", "leased", "finished", "failed"},
                            attempts : Nat, wait : 0..Backoff]]
    <3> DEFINE Entries == [Runs -> [state : {"absent", "runnable", "leased", "finished", "failed"},
                                    attempts : Nat, wait : 0..Backoff]]
    <3>1. [queue EXCEPT ![r].state = "leased"] \in Entries
      BY DEF TypeOK
    <3>2. \A q \in Entries : [q EXCEPT ![r].attempts = n] \in Entries
      OBVIOUS
    <3>3. queue' = [[queue EXCEPT ![r].state = "leased"] EXCEPT ![r].attempts = n]
      BY <2>1 DEF ClaimOf, TypeOK
    <3> HIDE DEF Entries
    <3>4. queue' \in Entries
      BY <3>1, <3>2, <3>3
    <3> QED
      BY <3>4 DEF Entries
  <2>4. job' \in [Procs -> Job]
    <3>1. lease'[r].fence \in Nat
      BY <2>2
    <3>2. [NoJob(pc) EXCEPT !.run = r, !.fence = lease'[r].fence, !.attempts = n, !.view = TTL] \in Job
      BY <3>1, FreshJob
    <3> QED
      BY <2>1, <3>2 DEF ClaimOf, TypeOK
  <2>5. executions' \in [Runs -> [count : Nat, since : Nat]]
    <3>1. executions[r].count \in Nat /\ executions[r].count + 1 \in Nat
      BY CounterTypes
    <3>2. \E k \in Nat : executions' = [executions EXCEPT ![r].count = k]
      BY <2>1, <3>1 DEF ClaimOf
    <3>3. \A k \in Nat : [executions EXCEPT ![r].count = k] \in [Runs -> [count : Nat, since : Nat]]
      BY DEF TypeOK
    <3> QED
      BY <3>2, <3>3
  <2> QED
    BY <2>1, <2>2, <2>3, <2>4, <2>5 DEF ClaimOf, TypeOK
<1>9. ASSUME NEW p \in Procs, Execute(p) \/ Renew(p) PROVE TypeOK'
  BY <1>9, ExecuteType DEF LeaseInv
<1>10. ASSUME NEW w \in Workers, Settle(w) PROVE TypeOK'
  BY <1>10, SettleType
<1>11. ASSUME NEW w \in Workers, SettleFenced(w) PROVE TypeOK'
  BY <1>11, EndClaimType DEF SettleFenced, TypeOK
<1>12. ASSUME NEW w \in Workers, Unsettled(w) PROVE TypeOK'
  BY <1>3, <1>4, <1>12, EndClaimType DEF Unsettled, TypeOK
<1>13. ASSUME NEW w \in Workers, ReadOverdue(w) PROVE TypeOK'
  <2>1. w \in Procs /\ job[w] \in Job /\ status[job[w].run] \in Statuses
    BY <1>1, <1>2, <1>5, <1>13 DEF ReadOverdue, TypeOK
  <2>2. [job[w] EXCEPT !.seen = status[job[w].run]] \in Job
    BY <2>1, JobUpdates
  <2> QED
    BY <1>13, <2>2 DEF ReadOverdue, ExecUnchanged, TypeOK
<1>14. ASSUME NEW w \in Workers, SettleOverDelivered(w) PROVE TypeOK'
  <2>1. w \in Procs /\ Busy(w) /\ job[w].run \in Runs
    <3>1. w \in Procs /\ job[w].pc = "overdue"
      BY <1>5, <1>14 DEF SettleOverDelivered
    <3> QED
      BY <1>2, <3>1, FleetAssumption DEF Busy
  <2>2. /\ queue' \in [Runs -> [state : {"absent", "runnable", "leased", "finished", "failed"},
                               attempts : Nat, wait : 0..Backoff]]
        /\ lease' \in [Runs -> [owner : Procs \cup {None}, fence : Nat, left : TimeLeft]]
    <3>1. CASE FinishRun(w) \/ FailRun(w)
      BY <2>1, <3>1, ClosingCompletes, CompleteType
    <3> QED
      BY <1>14, <3>1 DEF SettleOverDelivered, TypeOK
  <2>3. status' \in [Runs -> Statuses]
    BY <1>14 DEF SettleOverDelivered, TypeOK, Statuses
  <2> QED
    BY <1>14, <2>2, <2>3, EndClaimType DEF SettleOverDelivered, TypeOK
<1>15. ASSUME NEW w \in Workers, Start(w) PROVE TypeOK'
  BY <1>15, NoJobType DEF Start, TypeOK
<1>16. ASSUME NEW w \in Workers, Stop(w) PROVE TypeOK'
  <2>1. [job[w] EXCEPT !.stop = TRUE] \in Job
    <3>1. job[w] \in Job
      BY <1>1, <1>5
    <3> QED
      BY <3>1, JobUpdates
  <2>2. job' \in [Procs -> Job] /\ registered' \subseteq Workers
    BY <1>16, <2>1, NoJobType DEF Stop, TypeOK
  <2> QED
    BY <1>3, <1>4, <1>16, <2>2 DEF Stop, TypeOK
<1>17. ASSUME NEW p \in Procs, Crash(p) PROVE TypeOK'
  BY <1>3, <1>4, <1>17, NoJobType DEF Crash, TypeOK
<1>18. ASSUME NEW p \in Locals, NEW r \in Runs, LocalStart(p, r) PROVE TypeOK'
  <2>1. lease' \in [Runs -> [owner : Procs \cup {None}, fence : Nat, left : TimeLeft]]
    BY <1>5, <1>18, AcquireType DEF LocalStart
  <2>2. [NoJob("executing") EXCEPT !.run = r, !.fence = lease'[r].fence, !.view = TTL] \in Job
    BY <2>1, FreshJob
  <2> QED
    BY <1>3, <1>4, <1>18, <2>1, <2>2 DEF LocalStart, TypeOK
<1>19. ASSUME NEW p \in Locals, LocalInterrupt(p) PROVE TypeOK'
  <2>1. [job[p] EXCEPT !.stop = TRUE] \in Job
    <3>1. job[p] \in Job
      BY <1>1, <1>5
    <3> QED
      BY <3>1, JobUpdates
  <2> QED
    BY <1>3, <1>4, <1>19, <2>1 DEF LocalInterrupt, TypeOK
<1>20. ASSUME NEW p \in Locals, LocalRelease(p) PROVE TypeOK'
  <2>1. Released(lease[job[p].run]) \in [owner : Procs \cup {None}, fence : Nat, left : TimeLeft]
    BY <1>2, <1>5, <1>20, TimeLeftBounds DEF LocalRelease, Released, TypeOK
  <2>2. job' \in [Procs -> Job]
    BY <1>20, NoJobType DEF LocalRelease, TypeOK
  <2>3. lease' \in [Runs -> [owner : Procs \cup {None}, fence : Nat, left : TimeLeft]]
    <3>1. lease' = [lease EXCEPT ![job[p].run] = Released(lease[job[p].run])] \/ lease' = lease
      BY <1>20 DEF LocalRelease
    <3> QED
      BY <2>1, <3>1 DEF TypeOK
  <2> QED
    BY <1>20, <2>2, <2>3 DEF LocalRelease, TypeOK
<1>21. CASE Tick
  <2>1. \A n \in TimeLeft : Down(n) \in TimeLeft
    BY FleetAssumption DEF Down, TimeLeft
  <2>2. \A n \in 0..Backoff : Down(n) \in 0..Backoff
    BY FleetAssumption DEF Down
  <2>3. \A p \in Procs : [job[p] EXCEPT !.view = Down(job[p].view)] \in Job
    <3>1. \A p \in Procs : job[p].view \in TimeLeft
      BY <1>1 DEF Job
    <3> QED
      BY <1>1, <2>1, <3>1, JobUpdates
  <2>4. lease' \in [Runs -> [owner : Procs \cup {None}, fence : Nat, left : TimeLeft]]
    BY <1>21, <2>1 DEF Tick, TypeOK
  <2>5. queue' \in [Runs -> [state : {"absent", "runnable", "leased", "finished", "failed"},
                            attempts : Nat, wait : 0..Backoff]]
    BY <1>21, <2>2 DEF Tick, TypeOK
  <2>6. faults' \in [Disturbances -> Nat]
    BY <1>3, <1>4, <1>21 DEF Tick, TypeOK
  <2> QED
    BY <1>21, <2>3, <2>4, <2>5, <2>6 DEF Tick, TypeOK
<1> QED
  BY <1>5, <1>6, <1>7, <1>8, <1>9, <1>10, <1>11, <1>12, <1>13, <1>14, <1>15, <1>16, <1>17,
     <1>18, <1>19, <1>20, <1>21 DEF Next, WorkerStep, LocalStep

(***************************************************************************)
(* What a step may do to the jobs and the leases: begin a job under a new  *)
(* token, move within one, end one, or let time pass.                      *)
(***************************************************************************)
OthersKeep(p) == \A q \in Procs : q # p => job'[q] = job[q]

Begins(p, r) ==
    /\ ~Busy(p)
    /\ OthersKeep(p)
    /\ ~HeldByAnother(p, r)
    /\ lease'[r] = [owner |-> p, fence |-> lease[r].fence + 1, left |-> TTL]
    /\ \A s \in Runs : s # r => lease'[s] = lease[s]
    /\ job'[p].run = r
    /\ job'[p].fence = lease[r].fence + 1
    /\ job'[p].view = TTL
    /\ job'[p].pc \in {"executing", "overdue"}
    /\ job'[p].seen = "unread"

Moves(p) ==
    /\ Busy(p)
    /\ OthersKeep(p)
    /\ job'[p].run = job[p].run
    /\ job'[p].fence = job[p].fence
    /\ job'[p].pc \notin {"down", "idle"}
    /\ job'[p].pc = "returned" => job'[p].result # "none"
    /\ job'[p].pc = "overdue" <=> job[p].pc = "overdue"
    /\ \/ lease' = lease /\ job'[p].view = job[p].view
       \/ /\ Current(p)
          /\ lease' = [lease EXCEPT ![job[p].run].left = TTL]
          /\ job'[p].view \in {job[p].view, TTL}

Ends(p) ==
    /\ OthersKeep(p)
    /\ job'[p].run = None
    /\ job'[p].pc \in {"down", "idle"}
    /\ \/ lease' = lease
       \/ Current(p) /\ lease' = [lease EXCEPT ![job[p].run] = Released(@)]

(* The steps of an execution stay within its job. *)
LEMMA ExecuteMoves ==
  ASSUME TypeOK, IdleHasNoRun, Reported, NEW p \in Procs, Execute(p) \/ Renew(p)
  PROVE  Moves(p)
<1>1. job[p].pc = "executing" /\ Busy(p)
  BY DEF TypeOK, IdleHasNoRun, Execute, Renew, Running, ReadRun, SaveTurn,
         SaveStatus, FailTurn, ReturnSaved, WriteFenced, ExecError, ExecCancelled, Writing,
         WriteStatus, RenewRunLease, RenewRefused, RenewFailed
<1>2. job \in [Procs -> Job] /\ job[p] \in Job
  BY DEF TypeOK
<1>3. ASSUME NEW result \in {"ok", "error", "fenced", "cancelled"}, Return(p, result), lease' = lease
      PROVE  Moves(p)
  BY <1>1, <1>2, <1>3 DEF Return, Moves, OthersKeep, Job
<1>4. ASSUME NEW seen, NEW used, lease' = lease,
             job' = [job EXCEPT ![p].seen = seen, ![p].used = used]
      PROVE  Moves(p)
  BY <1>1, <1>2, <1>4 DEF Moves, OthersKeep, Job
<1>5. ASSUME NEW seen, lease' = lease, job' = [job EXCEPT ![p].seen = seen]
      PROVE  Moves(p)
  BY <1>1, <1>2, <1>5 DEF Moves, OthersKeep, Job
<1>6. CASE Execute(p)
  BY <1>3, <1>4, <1>5, <1>6 DEF Execute, ReadRun, SaveTurn, SaveStatus, FailTurn, ReturnSaved,
     WriteFenced, ExecError, ExecCancelled, ExecUnchanged
<1>7. Owns(p) => Current(p)
  BY <1>1 DEF Owns, Current
<1>8. CASE RenewRunLease(p)
  BY <1>1, <1>2, <1>7, <1>8 DEF RenewRunLease, Moves, OthersKeep, Job
<1>9. CASE RenewRefused(p)
  BY <1>1, <1>2, <1>9 DEF RenewRefused, ExecUnchanged, Moves, OthersKeep, Job
<1>10. CASE RenewFailed(p)
  <2>1. PICK l : job' = [job EXCEPT ![p].lost = l]
    BY <1>10 DEF RenewFailed
  <2>2. /\ OthersKeep(p) /\ job'[p].run = job[p].run /\ job'[p].fence = job[p].fence
        /\ job'[p].pc = "executing" /\ job'[p].view = job[p].view
    BY <1>1, <1>2, <2>1 DEF OthersKeep, Job
  <2> QED
    BY <1>1, <1>7, <1>10, <2>2 DEF RenewFailed, Moves
<1> QED
  BY <1>6, <1>8, <1>9, <1>10 DEF Renew

(* ClaimAndRun's return ends the job. *)
LEMMA EndClaimEnds ==
  ASSUME TypeOK, NEW w \in Workers, EndClaim(w)
  PROVE  OthersKeep(w) /\ job'[w].run = None /\ job'[w].pc \in {"down", "idle"}
  BY DEF TypeOK, EndClaim, OthersKeep, NoJob, Procs

(* A closing write is the current holder's, and releases its lease. *)
LEMMA CompleteReleases ==
  ASSUME TypeOK, NEW p \in Procs, Busy(p),
         FinishRun(p) \/ FailRun(p) \/ RequeueRun(p) \/ ReleaseClaim(p)
  PROVE  Current(p) /\ lease' = [lease EXCEPT ![job[p].run] = Released(@)]
  BY DEF FinishRun, FailRun, RequeueRun, ReleaseClaim, Complete, Owns, Current

(* A claim begins a job. *)
LEMMA ClaimBegins ==
  ASSUME TypeOK, IdleHasNoRun, Reported, NEW w \in Workers, Claim(w)
  PROVE  \E r \in Runs : Begins(w, r)
<1>1. job \in [Procs -> Job]
  BY DEF TypeOK
<1>2. Workers \subseteq Procs /\ Locals \subseteq Procs
  BY DEF Procs
<1>3. PICK r \in Runs, n \in Nat, pc \in {"overdue", "executing"} : ClaimOf(w, r, n, pc)
  BY ClaimFacts
<1>4. w \in Procs /\ ~Busy(w)
  BY <1>2, <1>3 DEF ClaimOf, IdleHasNoRun
<1>5. /\ lease'[r] = [owner |-> w, fence |-> lease[r].fence + 1, left |-> TTL]
      /\ \A s \in Runs : s # r => lease'[s] = lease[s]
      /\ ~HeldByAnother(w, r)
  BY <1>3, <1>4, AcquireType DEF ClaimOf, AcquireRunLease
<1>6. /\ OthersKeep(w)
      /\ job'[w].run = r
      /\ job'[w].fence = lease'[r].fence
      /\ job'[w].view = TTL
      /\ job'[w].pc \in {"executing", "overdue"}
      /\ job'[w].seen = "unread"
  BY <1>1, <1>3, <1>4 DEF ClaimOf, OthersKeep, NoJob
<1>7. job'[w].fence = lease[r].fence + 1
  BY <1>5, <1>6
<1> QED
  BY <1>4, <1>5, <1>6, <1>7 DEF Begins

(* So does a local command. *)
LEMMA LocalBegins ==
  ASSUME TypeOK, IdleHasNoRun, Reported, NEW p \in Locals, NEW r \in Runs, LocalStart(p, r)
  PROVE  Begins(p, r)
<1>1. job \in [Procs -> Job]
  BY DEF TypeOK
<1>2. Workers \subseteq Procs /\ Locals \subseteq Procs
  BY DEF Procs
<1>3. p \in Procs /\ ~Busy(p)
  BY <1>2 DEF LocalStart, IdleHasNoRun
<1>4. /\ lease'[r] = [owner |-> p, fence |-> lease[r].fence + 1, left |-> TTL]
      /\ \A s \in Runs : s # r => lease'[s] = lease[s]
      /\ ~HeldByAnother(p, r)
  BY <1>3, AcquireType DEF LocalStart, AcquireRunLease
<1>5. /\ OthersKeep(p)
      /\ job'[p].run = r
      /\ job'[p].fence = lease'[r].fence
      /\ job'[p].view = TTL
      /\ job'[p].pc = "executing"
      /\ job'[p].seen = "unread"
  BY <1>1, <1>3 DEF LocalStart, OthersKeep, NoJob
<1>6. job'[p].fence = lease[r].fence + 1
  BY <1>4, <1>5
<1> QED
  BY <1>3, <1>4, <1>5, <1>6 DEF Begins

(* A settlement ends one. *)
LEMMA SettleEnds ==
  ASSUME TypeOK, IdleHasNoRun, Reported, NEW w \in Workers, Settle(w)
  PROVE  Ends(w)
<1>1. Workers \subseteq Procs /\ Locals \subseteq Procs
  BY DEF Procs
<1>2. w \in Procs /\ Busy(w)
  BY <1>1 DEF Settle, IdleHasNoRun
<1>3. FinishRun(w) \/ FailRun(w) \/ RequeueRun(w) \/ ReleaseClaim(w)
  BY ClosingCases
<1> QED
  BY <1>2, <1>3, CompleteReleases, EndClaimEnds DEF Settle, Ends

(* So does the settlement of a run past its bound. *)
LEMMA OverDeliveredEnds ==
  ASSUME TypeOK, IdleHasNoRun, Reported, NEW w \in Workers, SettleOverDelivered(w)
  PROVE  Ends(w)
<1>1. Workers \subseteq Procs /\ Locals \subseteq Procs
  BY DEF Procs
<1>2. w \in Procs /\ Busy(w)
  BY <1>1 DEF SettleOverDelivered, IdleHasNoRun
<1>3. CASE FinishRun(w) \/ FailRun(w)
  BY <1>2, <1>3, CompleteReleases, EndClaimEnds DEF SettleOverDelivered, Ends
<1>4. CASE UNCHANGED lease
  BY <1>4, EndClaimEnds DEF SettleOverDelivered, Ends
<1> QED
  BY <1>3, <1>4 DEF SettleOverDelivered

(* Every settlement ends the job it settles. *)
LEMMA SettlementEnds ==
  ASSUME TypeOK, IdleHasNoRun, Reported, NEW w \in Workers,
         Settle(w) \/ SettleFenced(w) \/ Unsettled(w) \/ SettleOverDelivered(w)
  PROVE  Ends(w)
<1>1. CASE SettleFenced(w) \/ Unsettled(w)
  BY <1>1, EndClaimEnds DEF SettleFenced, Unsettled, Ends
<1> QED
  BY <1>1, SettleEnds, OverDeliveredEnds

(* A local command ends with its release. *)
LEMMA ReleaseEnds ==
  ASSUME TypeOK, IdleHasNoRun, Reported, NEW p \in Locals, LocalRelease(p)
  PROVE  Ends(p)
<1>1. job \in [Procs -> Job]
  BY DEF TypeOK
<1>2. Workers \subseteq Procs /\ Locals \subseteq Procs
  BY DEF Procs
<1>3. p \in Procs /\ Busy(p)
  BY <1>2 DEF LocalRelease, IdleHasNoRun
<1>4. OthersKeep(p) /\ job'[p].run = None /\ job'[p].pc = "down"
  BY <1>1, <1>3 DEF LocalRelease, OthersKeep, NoJob
<1>5. CASE /\ lease[job[p].run].owner = p /\ lease[job[p].run].fence = job[p].fence
           /\ lease' = [lease EXCEPT ![job[p].run] = Released(@)]
  BY <1>3, <1>4, <1>5 DEF Ends, Current
<1>6. CASE UNCHANGED lease
  BY <1>4, <1>6 DEF Ends
<1> QED
  BY <1>5, <1>6 DEF LocalRelease

(* Starting, stopping and reading a run past its bound. *)
LEMMA WorkerRowKinds ==
  ASSUME TypeOK, IdleHasNoRun, Reported, NEW w \in Workers, ReadOverdue(w) \/ Start(w) \/ Stop(w)
  PROVE  Moves(w) \/ Ends(w)
<1>1. job \in [Procs -> Job] /\ job[w] \in Job /\ w \in Procs
  BY DEF TypeOK, Procs
<1>2. CASE ReadOverdue(w)
  <2>1. Busy(w) /\ job[w].pc = "overdue"
    BY <1>1, <1>2 DEF ReadOverdue, IdleHasNoRun
  <2> QED
    BY <1>1, <1>2, <2>1 DEF ReadOverdue, ExecUnchanged, Moves, OthersKeep, Job
<1>3. CASE Start(w)
  BY <1>1, <1>3 DEF Start, Ends, OthersKeep, NoJob
<1>4. CASE Stop(w) /\ job[w].pc = "idle"
  BY <1>1, <1>4 DEF Stop, Ends, OthersKeep, NoJob
<1>5. CASE Stop(w) /\ job[w].pc # "idle"
  <2>1. Busy(w)
    BY <1>1, <1>5 DEF Stop, IdleHasNoRun
  <2>2. job' = [job EXCEPT ![w].stop = TRUE] /\ lease' = lease
    BY <1>5 DEF Stop
  <2>3. job[w].pc \notin {"down", "idle"} /\ (job[w].pc = "returned" => job[w].result # "none")
    BY <1>1, <2>1 DEF IdleHasNoRun, Reported
  <2> QED
    BY <1>1, <2>1, <2>2, <2>3 DEF Moves, OthersKeep, Job
<1> QED
  BY <1>2, <1>3, <1>4, <1>5

(* A killed process is gone, and its lease stays. *)
LEMMA CrashEnds ==
  ASSUME TypeOK, NEW p \in Procs, Crash(p)
  PROVE  Ends(p)
  BY DEF TypeOK, Crash, Ends, OthersKeep, NoJob

(* An interrupted command is still in its job. *)
LEMMA InterruptMoves ==
  ASSUME TypeOK, IdleHasNoRun, NEW p \in Locals, LocalInterrupt(p)
  PROVE  Moves(p)
<1>1. job \in [Procs -> Job] /\ job[p] \in Job /\ p \in Procs
  BY DEF TypeOK, Procs
<1>2. Busy(p) /\ job[p].pc = "executing"
  BY <1>1 DEF LocalInterrupt, IdleHasNoRun
<1> QED
  BY <1>1, <1>2 DEF LocalInterrupt, Moves, OthersKeep, Job

(* Every step is of one of the kinds above, or touches neither jobs nor    *)
(* leases.                                                                 *)
LEMMA StepKinds ==
  ASSUME TypeOK, IdleHasNoRun, Reported, Next
  PROVE  \/ \E p \in Procs : Moves(p) \/ Ends(p)
         \/ \E p \in Procs, r \in Runs : Begins(p, r)
         \/ Tick
         \/ UNCHANGED <<job, lease>>
<1>1. Workers \subseteq Procs /\ Locals \subseteq Procs
  BY DEF Procs
<1>2. ASSUME NEW r \in Runs, Enqueue(r) PROVE UNCHANGED <<job, lease>>
  BY <1>2 DEF Enqueue
<1>3. ASSUME NEW w \in Workers, WorkerStep(w)
      PROVE  Moves(w) \/ Ends(w) \/ \E r \in Runs : Begins(w, r)
  <2>1. w \in Procs
    BY <1>1
  <2> QED
    BY <1>3, <2>1, ClaimBegins, ExecuteMoves, SettlementEnds, WorkerRowKinds, CrashEnds
       DEF WorkerStep
<1>4. ASSUME NEW p \in Locals, LocalStep(p)
      PROVE  Moves(p) \/ Ends(p) \/ \E r \in Runs : Begins(p, r)
  <2>1. p \in Procs
    BY <1>1
  <2> QED
    BY <1>4, <2>1, LocalBegins, ExecuteMoves, InterruptMoves, ReleaseEnds, CrashEnds DEF LocalStep
<1> QED
  BY <1>1, <1>2, <1>3, <1>4 DEF Next

(***************************************************************************)
(* Leases and tokens.                                                      *)
(***************************************************************************)

(* Nobody has a token before the first step. *)
LEMMA InitLeaseInv == Init => LeaseInv
  BY FleetAssumption DEF Init, LeaseInv, IdleHasNoRun, Reported, FencesBehind, FencesUnique,
     CurrentOwns, ViewBehindRow, Current, Busy, NoJob

(* The types of the fields the arguments below turn on. *)
LEMMA FieldTypes ==
  ASSUME TypeOK
  PROVE  /\ \A p \in Procs : /\ job[p].run \in Runs \cup {None}
                             /\ job[p].fence \in Nat
                             /\ job[p].view \in Nat
                             /\ job[p].view <= TTL
         /\ \A r \in Runs : /\ lease[r].fence \in Nat
                            /\ lease[r].left \in Nat
                            /\ lease[r].left <= TTL
         /\ TTL \in Nat /\ TTL > 0
<1>1. \A n \in TimeLeft : n \in Nat /\ n <= TTL
  BY FleetAssumption DEF TimeLeft
<1>2. \A p \in Procs : /\ job[p].run \in Runs \cup {None}
                      /\ job[p].fence \in Nat
                      /\ job[p].view \in TimeLeft
  BY DEF TypeOK, Job
<1>3. \A r \in Runs : lease[r].fence \in Nat /\ lease[r].left \in TimeLeft
  BY DEF TypeOK
<1>4. TTL \in Nat /\ TTL > 0
  BY FleetAssumption
<1> QED
  BY <1>1, <1>2, <1>3, <1>4

(* A new token is higher than all before it, so it displaces them; it is   *)
(* given only when nobody believes in the old one.                         *)
LEMMA BeginsLeaseInv ==
  ASSUME TypeOK, LeaseInv, NEW p \in Procs, NEW r \in Runs, Begins(p, r)
  PROVE  LeaseInv'
<1> USE DEF Busy, Current
<1>1. /\ \A q \in Procs : q # p => job'[q] = job[q]
      /\ \A s \in Runs : s # r => lease'[s] = lease[s]
      /\ lease'[r].owner = p /\ lease'[r].fence = lease[r].fence + 1 /\ lease'[r].left = TTL
      /\ job'[p].run = r /\ job'[p].fence = lease[r].fence + 1 /\ job'[p].view = TTL
      /\ job'[p].pc \in {"executing", "overdue"}
      /\ r # None
  BY FleetAssumption DEF Begins, OthersKeep
<1>2. \A q \in Procs : q # p /\ job[q].run = r => job[q].fence <= lease[r].fence /\ ~(job[q].view > 0)
  <2> SUFFICES ASSUME NEW q \in Procs, q # p, job[q].run = r
               PROVE  job[q].fence <= lease[r].fence /\ ~(job[q].view > 0)
    OBVIOUS
  <2>1. job[q].run # None
    BY <1>1
  <2>2. job[q].fence <= lease[r].fence
    BY <2>1 DEF LeaseInv, FencesBehind
  <2>3. ASSUME job[q].view > 0 PROVE FALSE
    <3>1. lease[r].owner = q /\ job[q].view <= lease[r].left
      BY <2>1, <2>3 DEF LeaseInv, ViewBehindRow, CurrentOwns
    <3>2. lease[r].left > 0
      BY <2>3, <3>1, FieldTypes
    <3> QED
      BY <3>1, <3>2, FleetAssumption DEF Begins, HeldByAnother, Procs
  <2> QED
    BY <2>2, <2>3
<1>3. IdleHasNoRun' /\ Reported'
  BY <1>1 DEF LeaseInv, IdleHasNoRun, Reported
<1>4. FencesBehind'
  BY <1>1, <1>2, FieldTypes DEF LeaseInv, FencesBehind
<1>5. FencesUnique'
  BY <1>1, <1>2, FieldTypes DEF LeaseInv, FencesUnique
<1>6. CurrentOwns'
  BY <1>1, <1>2, FieldTypes DEF LeaseInv, CurrentOwns
<1>7. ViewBehindRow'
  BY <1>1, <1>2, FieldTypes DEF LeaseInv, ViewBehindRow
<1> QED
  BY <1>3, <1>4, <1>5, <1>6, <1>7 DEF LeaseInv

(* A step within a job keeps its token, and its belief only grows with the *)
(* row.                                                                    *)
LEMMA MovesLeaseInv ==
  ASSUME TypeOK, LeaseInv, NEW p \in Procs, Moves(p)
  PROVE  LeaseInv'
<1> USE DEF Busy, Current
<1>1. /\ \A q \in Procs : q # p => job'[q] = job[q]
      /\ job'[p].run = job[p].run /\ job'[p].fence = job[p].fence
      /\ job'[p].pc \notin {"down", "idle"}
      /\ job'[p].pc = "returned" => job'[p].result # "none"
      /\ job[p].run # None
      /\ job'[p].view \in {job[p].view, TTL}
  BY DEF Moves, OthersKeep
<1>2. \/ lease' = lease /\ job'[p].view = job[p].view
      \/ /\ \A s \in Runs : lease'[s].owner = lease[s].owner /\ lease'[s].fence = lease[s].fence
         /\ \A s \in Runs : s # job[p].run => lease'[s].left = lease[s].left
         /\ lease'[job[p].run].left = TTL
         /\ job[p].fence = lease[job[p].run].fence
  <2>1. CASE lease' = lease /\ job'[p].view = job[p].view
    BY <2>1
  <2>2. CASE Current(p) /\ lease' = [lease EXCEPT ![job[p].run].left = TTL]
    <3>1. job[p].run \in Runs
      BY <1>1, FieldTypes
    <3> QED
      BY <2>2, <3>1 DEF TypeOK
  <2> QED
    BY <2>1, <2>2 DEF Moves
<1>3. IdleHasNoRun' /\ Reported'
  BY <1>1 DEF LeaseInv, IdleHasNoRun, Reported
<1>4. \A s \in Runs : /\ lease'[s].owner = lease[s].owner
                     /\ lease'[s].fence = lease[s].fence
                     /\ lease'[s].left \in {lease[s].left, TTL}
  BY <1>2
<1>5. \A q \in Procs : job'[q].run = job[q].run /\ job'[q].fence = job[q].fence
  BY <1>1
<1>6. FencesBehind' /\ FencesUnique' /\ CurrentOwns'
  BY <1>4, <1>5, FieldTypes DEF LeaseInv, FencesBehind, FencesUnique, CurrentOwns
<1>7. ViewBehindRow'
  BY <1>1, <1>2, <1>4, <1>5, FieldTypes DEF LeaseInv, ViewBehindRow
<1> QED
  BY <1>3, <1>6, <1>7 DEF LeaseInv

(* A job that ends releases at most its own lease. *)
LEMMA EndsLeaseInv ==
  ASSUME TypeOK, LeaseInv, NEW p \in Procs, Ends(p)
  PROVE  LeaseInv'
<1> USE DEF Busy, Current
<1>1. /\ \A q \in Procs : q # p => job'[q] = job[q]
      /\ job'[p].run = None
      /\ job'[p].pc \in {"down", "idle"}
  BY DEF Ends, OthersKeep
<1>2. \/ lease' = lease
      \/ /\ \A s \in Runs : lease'[s].fence = lease[s].fence
         /\ \A s \in Runs : s # job[p].run => lease'[s] = lease[s]
         /\ job[p].run # None /\ job[p].fence = lease[job[p].run].fence
  <2>1. CASE Current(p) /\ lease' = [lease EXCEPT ![job[p].run] = Released(@)]
    BY <2>1, FieldTypes DEF TypeOK, Released
  <2> QED
    BY <2>1 DEF Ends
<1>3. \A s \in Runs : lease'[s].fence = lease[s].fence
  BY <1>2
<1>4. \A q \in Procs : q # p /\ job[q].run # None /\ job[q].fence = lease[job[q].run].fence
         => lease'[job[q].run] = lease[job[q].run]
  BY <1>2, FieldTypes DEF LeaseInv, FencesUnique
<1>5. IdleHasNoRun' /\ Reported'
  BY <1>1 DEF LeaseInv, IdleHasNoRun, Reported
<1>6. FencesBehind' /\ FencesUnique' /\ CurrentOwns'
  BY <1>1, <1>3, <1>4, FieldTypes DEF LeaseInv, FencesBehind, FencesUnique, CurrentOwns
<1>7. ViewBehindRow'
  BY <1>1, <1>3, <1>4, FieldTypes DEF LeaseInv, ViewBehindRow
<1> QED
  BY <1>5, <1>6, <1>7 DEF LeaseInv

(* Time passes for the row and for the belief in it alike. *)
LEMMA TickLeaseInv ==
  ASSUME TypeOK, LeaseInv, Tick
  PROVE  LeaseInv'
<1> USE DEF Busy, Current
<1>1. \A q \in Procs : /\ job'[q].run = job[q].run /\ job'[q].fence = job[q].fence
                      /\ job'[q].pc = job[q].pc /\ job'[q].result = job[q].result
                      /\ job'[q].view = Down(job[q].view)
  BY DEF Tick, TypeOK, Job
<1>2. \A s \in Runs : /\ lease'[s].fence = lease[s].fence
                     /\ lease'[s].owner = lease[s].owner
                     /\ lease'[s].left = Down(lease[s].left)
  BY DEF Tick, TypeOK
<1>3. \A q \in Procs : job[q].run # None => job[q].run \in Runs
  BY DEF TypeOK, Job
<1>4. IdleHasNoRun' /\ Reported' /\ FencesBehind' /\ FencesUnique' /\ CurrentOwns'
  BY <1>1, <1>2, <1>3 DEF LeaseInv, IdleHasNoRun, Reported, FencesBehind, FencesUnique, CurrentOwns
<1>5. ViewBehindRow'
  <2> SUFFICES ASSUME NEW q \in Procs, job[q].run # None, Down(job[q].view) > 0
               PROVE  /\ job[q].fence = lease[job[q].run].fence
                      /\ Down(job[q].view) <= Down(lease[job[q].run].left)
    BY <1>1, <1>2, <1>3 DEF ViewBehindRow
  <2>1. job[q].view > 0
    BY FieldTypes DEF Down
  <2>2. job[q].fence = lease[job[q].run].fence /\ job[q].view <= lease[job[q].run].left
    BY <2>1 DEF LeaseInv, ViewBehindRow
  <2> QED
    BY <1>3, <2>2, FieldTypes DEF Down
<1> QED
  BY <1>4, <1>5 DEF LeaseInv

(* Every step preserves the lease invariant. *)
LEMMA NextLeaseInv == TypeOK /\ LeaseInv /\ [Next]_vars => LeaseInv'
<1> SUFFICES ASSUME TypeOK, LeaseInv, [Next]_vars PROVE LeaseInv'
  OBVIOUS
<1>1. CASE UNCHANGED <<job, lease>>
  BY <1>1 DEF LeaseInv, IdleHasNoRun, Reported, FencesBehind, FencesUnique, CurrentOwns,
     ViewBehindRow, Current, Busy
<1>2. CASE Next
  BY <1>1, <1>2, StepKinds, BeginsLeaseInv, MovesLeaseInv, EndsLeaseInv, TickLeaseInv DEF LeaseInv
<1> QED
  BY <1>1, <1>2 DEF vars

(***************************************************************************)
(* The workers table.                                                      *)
(***************************************************************************)

(* A job that ends leaves no live lease it did not find. *)
LEMMA EndsLease ==
  ASSUME TypeOK, NEW p \in Procs, Ends(p)
  PROVE  \A s \in Runs : lease'[s] = lease[s] \/ lease'[s].left = 0
<1>1. CASE lease' = lease
  BY <1>1
<1>2. CASE Current(p) /\ lease' = [lease EXCEPT ![job[p].run] = Released(@)]
  <2>1. job[p].run \in Runs
    BY <1>2, FieldTypes DEF Current, Busy
  <2> QED
    BY <1>2, <2>1 DEF TypeOK, Released
<1> QED
  BY <1>1, <1>2 DEF Ends

(* Where ClaimAndRun returns, the row goes only with the lease. *)
LEMMA EndClaimListing ==
  ASSUME TypeOK, ListingInv, NEW w \in Workers, job[w].pc # "down", Ends(w), EndClaim(w)
  PROVE  ListingInv'
<1>1. w \in Procs /\ Workers \subseteq Procs /\ w \notin Locals
  BY FleetAssumption DEF Procs
<1>2. \A v \in Workers : v # w => job'[v] = job[v] /\ (v \in registered => v \in registered')
  BY <1>1 DEF Ends, OthersKeep, EndClaim
<1>3. job'[w].pc # "down" => registered' = registered
  BY <1>1 DEF EndClaim, TypeOK, NoJob
<1>4. UpRegistered'
  BY <1>2, <1>3 DEF ListingInv, UpRegistered
<1>5. ASSUME NEW s \in Runs, lease'[s].left > 0 PROVE lease'[s].owner \in registered' \cup Locals
  <2>1. lease'[s] = lease[s]
    BY <1>1, <1>5, EndsLease
  <2>2. lease[s].owner \in registered \cup Locals
    BY <1>5, <2>1 DEF ListingInv, LiveHolderListed
  <2>3. registered' = registered \/ (registered' = registered \ {w} /\ ~OwnsLiveLease(w))
    BY DEF EndClaim
  <2> QED
    BY <1>1, <1>5, <2>1, <2>2, <2>3 DEF OwnsLiveLease
<1> QED
  BY <1>4, <1>5 DEF ListingInv, LiveHolderListed

(* Every step keeps the holders of live leases listed. *)
LEMMA NextListingInv == TypeOK /\ LeaseInv /\ ListingInv /\ [Next]_vars => ListingInv'
<1> SUFFICES ASSUME TypeOK, LeaseInv, ListingInv, [Next]_vars PROVE ListingInv'
  OBVIOUS
<1> USE DEF ListingInv, UpRegistered, LiveHolderListed
<1>1. Workers \subseteq Procs /\ Locals \subseteq Procs /\ Workers \cap Locals = {}
  BY FleetAssumption DEF Procs
<1>2. CASE UNCHANGED <<job, lease, registered>>
  BY <1>2
<1>3. ASSUME NEW p \in Procs, Moves(p), UNCHANGED registered PROVE ListingInv'
  <2>1. UpRegistered'
    BY <1>1, <1>3 DEF Moves, OthersKeep, LeaseInv, IdleHasNoRun
  <2>2. \A s \in Runs : lease'[s].left > 0 => lease'[s].owner \in registered' \cup Locals
    <3>1. CASE lease' = lease
      BY <1>3, <3>1
    <3>2. CASE Current(p) /\ lease' = [lease EXCEPT ![job[p].run].left = TTL]
      <4>1. job[p].run \in Runs
        BY <3>2, FieldTypes DEF Current, Busy
      <4>2. lease[job[p].run].owner = p
        BY <3>2 DEF LeaseInv, CurrentOwns
      <4>3. p \in registered \cup Locals
        BY <1>3 DEF Moves, LeaseInv, IdleHasNoRun, Procs
      <4>4. \A s \in Runs : s # job[p].run => lease'[s] = lease[s]
        BY <3>2, <4>1 DEF TypeOK
      <4>5. lease'[job[p].run].owner = p
        BY <3>2, <4>1, <4>2 DEF TypeOK
      <4> QED
        BY <1>3, <4>3, <4>4, <4>5
    <3> QED
      BY <1>3, <3>1, <3>2 DEF Moves
  <2> QED
    BY <2>1, <2>2
<1>4. ASSUME NEW p \in Procs, NEW r \in Runs, Begins(p, r), p \in registered \cup Locals,
             UNCHANGED registered
      PROVE  ListingInv'
  BY <1>1, <1>4 DEF Begins, OthersKeep
<1>5. ASSUME NEW p \in Procs, Ends(p), job'[p].pc = "down", UNCHANGED registered PROVE ListingInv'
  BY <1>1, <1>5, EndsLease DEF Ends, OthersKeep
<1>6. ASSUME NEW w \in Workers, Claim(w) PROVE ListingInv'
  <2>1. job[w].pc = "idle" /\ UNCHANGED registered
    BY <1>6 DEF Claim
  <2>2. w \in Procs /\ \E r \in Runs : Begins(w, r)
    BY <1>1, <1>6, ClaimBegins DEF LeaseInv
  <2> QED
    BY <1>4, <2>1, <2>2
<1>7. ASSUME NEW p \in Procs, Execute(p) \/ Renew(p) PROVE ListingInv'
  <2>1. UNCHANGED registered
    BY <1>7 DEF Execute, Renew, ReadRun, SaveTurn, SaveStatus, FailTurn, ReturnSaved,
       WriteFenced, ExecError, ExecCancelled, ExecUnchanged, RenewRunLease, RenewRefused, RenewFailed
  <2> QED
    BY <1>3, <1>7, <2>1, ExecuteMoves DEF LeaseInv
<1>8. ASSUME NEW w \in Workers,
             Settle(w) \/ SettleFenced(w) \/ Unsettled(w) \/ SettleOverDelivered(w)
      PROVE  ListingInv'
  <2>1. job[w].pc # "down" /\ EndClaim(w)
    BY <1>8 DEF Settle, SettleFenced, Unsettled, SettleOverDelivered
  <2>2. Ends(w)
    BY <1>8, SettlementEnds DEF LeaseInv
  <2> QED
    BY <2>1, <2>2, EndClaimListing
<1>9. ASSUME NEW w \in Workers, ReadOverdue(w) PROVE ListingInv'
  BY <1>1, <1>9 DEF ReadOverdue, ExecUnchanged, TypeOK, Job
<1>10. ASSUME NEW w \in Workers, Start(w) PROVE ListingInv'
  BY <1>1, <1>10 DEF Start, TypeOK
<1>11. ASSUME NEW w \in Workers, Stop(w) PROVE ListingInv'
  <2>1. CASE job[w].pc = "idle"
    <3>1. /\ job'[w].pc = "down"
          /\ \A v \in Workers : v # w => job'[v] = job[v]
          /\ lease' = lease
          /\ registered' = registered \/ (registered' = registered \ {w} /\ ~OwnsLiveLease(w))
      BY <1>1, <1>11, <2>1 DEF Stop, NoJob, TypeOK
    <3>2. UpRegistered'
      BY <3>1
    <3>3. LiveHolderListed'
      BY <1>1, <3>1 DEF OwnsLiveLease
    <3> QED
      BY <3>2, <3>3
  <2>2. CASE job[w].pc # "idle"
    BY <1>1, <1>11, <2>2 DEF Stop, TypeOK, Job
  <2> QED
    BY <2>1, <2>2
<1>12. ASSUME NEW p \in Procs, Crash(p) PROVE ListingInv'
  BY <1>1, <1>12 DEF Crash, NoJob, TypeOK
<1>13. ASSUME NEW p \in Locals, NEW r \in Runs, LocalStart(p, r) PROVE ListingInv'
  <2>1. p \in Procs /\ Begins(p, r)
    BY <1>1, <1>13, LocalBegins DEF LeaseInv
  <2> QED
    BY <1>4, <1>13, <2>1 DEF LocalStart
<1>14. ASSUME NEW p \in Locals, LocalInterrupt(p) PROVE ListingInv'
  BY <1>1, <1>14 DEF LocalInterrupt, TypeOK, Job
<1>15. ASSUME NEW p \in Locals, LocalRelease(p) PROVE ListingInv'
  <2>1. p \in Procs /\ Ends(p) /\ job'[p].pc = "down" /\ UNCHANGED registered
    BY <1>1, <1>15, ReleaseEnds DEF LeaseInv, LocalRelease, NoJob, TypeOK
  <2> QED
    BY <1>5, <2>1
<1>16. CASE Tick
  <2>1. \A p \in Procs : job'[p].pc = job[p].pc
    BY <1>16 DEF Tick, TypeOK, Job
  <2>2. \A s \in Runs : lease'[s].owner = lease[s].owner /\ lease'[s].left = Down(lease[s].left)
    BY <1>16 DEF Tick, TypeOK
  <2>3. \A s \in Runs : Down(lease[s].left) > 0 => lease[s].left > 0
    BY FieldTypes DEF Down
  <2> QED
    BY <1>1, <1>16, <2>1, <2>2, <2>3 DEF Tick
<1>17. ASSUME NEW r \in Runs, Enqueue(r) PROVE ListingInv'
  BY <1>2, <1>17 DEF Enqueue
<1>18. CASE UNCHANGED vars
  BY <1>2, <1>18 DEF vars
<1> QED
  BY <1>1, <1>6, <1>7, <1>8, <1>9, <1>10, <1>11, <1>12, <1>13, <1>14, <1>15, <1>16, <1>17, <1>18
     DEF Next, WorkerStep, LocalStep

(***************************************************************************)
(* The delivery bound.                                                     *)
(***************************************************************************)

(* A step that counts nothing, begins no delivery and lowers no fence      *)
(* keeps the books: the fence rises only for a local command.              *)
LEMMA UncountedStep ==
  ASSUME TypeOK, LeaseInv, CountInv, UNCHANGED executions,
         \A r \in Runs : queue'[r].attempts = queue[r].attempts,
         \/ \A r \in Runs : lease'[r].fence = lease[r].fence
         \/ \E p \in Locals, r \in Runs : Begins(p, r),
         \A w \in Workers : Busy(w)' =>
             /\ job'[w].run = job[w].run /\ job'[w].fence = job[w].fence
             /\ job'[w].pc \in {"executing", "returned"} => job[w].pc \in {"executing", "returned"}
  PROVE  CountInv'
<1>1. \A r \in Runs : lease'[r].fence >= lease[r].fence /\ lease'[r].fence \in Nat
  <2>1. CASE \A r \in Runs : lease'[r].fence = lease[r].fence
    BY <2>1, FieldTypes
  <2>2. CASE \E p \in Locals, r \in Runs : Begins(p, r)
    <3>1. PICK p \in Locals, r \in Runs : Begins(p, r)
      BY <2>2
    <3>2. lease'[r].fence = lease[r].fence + 1 /\ \A s \in Runs : s # r => lease'[s] = lease[s]
      BY <3>1 DEF Begins
    <3> QED
      BY <3>2, FieldTypes
  <2> QED
    BY <2>1, <2>2
<1>2. DeliveryBound'
  BY DEF CountInv, DeliveryBound
<1>3. Accounted'
  BY <1>1, FieldTypes, CounterTypes DEF CountInv, Accounted
<1>4. ExecutionCounted'
  <2> SUFFICES ASSUME NEW w \in Workers, Current(w)', job'[w].pc \in {"executing", "returned"},
                      job'[w].fence > executions[job'[w].run].since
               PROVE  executions[job'[w].run].count > 0
    BY DEF ExecutionCounted
  <2>1. /\ w \in Procs /\ job'[w].run = job[w].run /\ job'[w].fence = job[w].fence
        /\ job[w].pc \in {"executing", "returned"} /\ job[w].run # None
        /\ job[w].fence = lease'[job[w].run].fence
    BY DEF Current, Busy, Procs
  <2>2. job[w].run \in Runs /\ job[w].fence <= lease[job[w].run].fence
    BY <2>1, FieldTypes DEF LeaseInv, FencesBehind, Busy
  <2>3. job[w].fence = lease[job[w].run].fence
    BY <1>1, <2>1, <2>2, FieldTypes
  <2> QED
    BY <2>1, <2>3 DEF CountInv, ExecutionCounted, Current, Busy
<1> QED
  BY <1>2, <1>3, <1>4 DEF CountInv

(* A step within a job, or its end, changes no fence. *)
LEMMA FencesStay ==
  ASSUME TypeOK, LeaseInv, NEW p \in Procs, Moves(p) \/ Ends(p)
  PROVE  /\ \A r \in Runs : lease'[r].fence = lease[r].fence
         /\ \A w \in Workers : Busy(w)' =>
              /\ job'[w].run = job[w].run /\ job'[w].fence = job[w].fence
              /\ job'[w].pc \in {"executing", "returned"}
                    => job[w].pc \in {"executing", "returned"}
<1>1. \A r \in Runs : lease'[r].fence = lease[r].fence
  <2>1. CASE lease' = lease
    BY <2>1
  <2>2. CASE Current(p) /\ lease' = [lease EXCEPT ![job[p].run].left = TTL]
    BY <2>2, FieldTypes DEF TypeOK, Current, Busy
  <2>3. CASE Current(p) /\ lease' = [lease EXCEPT ![job[p].run] = Released(@)]
    BY <2>3, FieldTypes DEF TypeOK, Current, Busy, Released
  <2> QED
    BY <2>1, <2>2, <2>3 DEF Moves, Ends
<1>2. \A w \in Workers : Busy(w)' =>
              /\ job'[w].run = job[w].run /\ job'[w].fence = job[w].fence
  BY DEF Moves, Ends, OthersKeep, Busy, Procs
<1>3. \A w \in Workers : job[w].pc \in {"down", "idle", "overdue", "executing", "returned"}
  BY DEF TypeOK, Job, Procs
<1>4. \A w \in Workers : Busy(w)' /\ job'[w].pc \in {"executing", "returned"}
                    => job[w].pc \in {"executing", "returned"}
  BY <1>3 DEF Moves, Ends, OthersKeep, LeaseInv, IdleHasNoRun, Busy, Procs
<1> QED
  BY <1>1, <1>2, <1>4

(* A claim counts the delivery and, within the bound, the execution. *)
LEMMA ClaimCountInv ==
  ASSUME TypeOK, LeaseInv, CountInv, NEW w \in Workers, Claim(w)
  PROVE  CountInv'
<1>1. PICK r \in Runs, n \in Nat, pc \in {"overdue", "executing"} : ClaimOf(w, r, n, pc)
  BY ClaimFacts
<1>2. w \in Procs /\ n = queue[r].attempts + 1
  BY <1>1 DEF Procs, ClaimOf
<1>3. /\ lease'[r].fence = lease[r].fence + 1
      /\ \A s \in Runs : s # r => lease'[s] = lease[s]
  <2>1. AcquireRunLease(w, r)
    BY <1>1 DEF ClaimOf
  <2>2. /\ lease'[r] = [owner |-> w, fence |-> lease[r].fence + 1, left |-> TTL]
        /\ \A s \in Runs : s # r => lease'[s] = lease[s]
    BY <1>2, <2>1, AcquireType
  <2> QED
    BY <2>2
<1>4. /\ queue'[r].attempts = n
      /\ \A s \in Runs : s # r => queue'[s] = queue[s]
  BY <1>1 DEF ClaimOf, TypeOK
<1>5. /\ executions'[r].since = executions[r].since
      /\ executions'[r].count = IF n > MaxAttempts THEN executions[r].count ELSE executions[r].count + 1
      /\ \A s \in Runs : s # r => executions'[s] = executions[s]
  BY <1>1 DEF ClaimOf, TypeOK
<1>6. /\ \A q \in Procs : q # w => job'[q] = job[q]
      /\ job'[w].run = r
      /\ job'[w].pc = IF n > MaxAttempts THEN "overdue" ELSE "executing"
  BY <1>1, <1>2 DEF ClaimOf, TypeOK, NoJob
<1>7. DeliveryBound'
  BY <1>2, <1>5, CounterTypes DEF CountInv, DeliveryBound, Accounted
<1>8. Accounted'
  BY <1>2, <1>3, <1>4, <1>5, CounterTypes, FieldTypes DEF CountInv, Accounted
<1>9. ExecutionCounted'
  <2> SUFFICES ASSUME NEW v \in Workers, Current(v)', job'[v].pc \in {"executing", "returned"},
                      job'[v].fence > executions'[job'[v].run].since
               PROVE  executions'[job'[v].run].count > 0
    BY DEF ExecutionCounted
  <2>1. CASE v = w
    BY <1>2, <1>5, <1>6, <2>1, CounterTypes
  <2>2. CASE v # w
    <3>1. /\ v \in Procs /\ job'[v] = job[v] /\ job[v].run # None
          /\ job[v].fence = lease'[job[v].run].fence
      BY <1>6, <2>2 DEF Current, Busy, Procs
    <3>2. job[v].run \in Runs /\ job[v].fence <= lease[job[v].run].fence
      BY <3>1, FieldTypes DEF LeaseInv, FencesBehind, Busy
    <3>3. job[v].run # r
      BY <1>2, <1>3, <3>1, <3>2, FieldTypes
    <3> QED
      BY <1>3, <1>5, <3>1, <3>2, <3>3 DEF CountInv, ExecutionCounted, Current, Busy
  <2> QED
    BY <2>1, <2>2
<1> QED
  BY <1>7, <1>8, <1>9 DEF CountInv

(* A delivery is given back together with its execution, unless both were  *)
(* reset by an enqueue meanwhile; the other outcomes count nothing.        *)
LEMMA SettleCountInv ==
  ASSUME TypeOK, LeaseInv, CountInv, NEW w \in Workers, Settle(w)
  PROVE  CountInv'
<1>1. w \in Procs /\ Busy(w) /\ job[w].run \in Runs
  BY DEF Procs, Settle, LeaseInv, IdleHasNoRun, TypeOK, Job, Busy
<1>2. Ends(w)
  BY SettleEnds DEF LeaseInv
<1>3. FinishRun(w) \/ FailRun(w) \/ RequeueRun(w) \/ ReleaseClaim(w)
  BY ClosingCases DEF LeaseInv
<1>4. CASE UNCHANGED executions /\ (FinishRun(w) \/ FailRun(w) \/ RequeueRun(w))
  <2>1. \A s \in Runs : queue'[s].attempts = queue[s].attempts
    <3>1. \E state, wait : queue' = [queue EXCEPT ![job[w].run] =
            [state |-> state, attempts |-> queue[job[w].run].attempts, wait |-> wait]]
      BY <1>4 DEF FinishRun, FailRun, RequeueRun, Complete
    <3> QED
      BY <1>1, <3>1 DEF TypeOK
  <2> QED
    BY <1>1, <1>2, <1>4, <2>1, FencesStay, UncountedStep
<1>5. CASE GivesBack(w)
  <2> DEFINE r == job[w].run
  <2>1. /\ ReleaseClaim(w)
        /\ executions' = [executions EXCEPT ![r].count =
                                IF job[w].fence > executions[r].since THEN @ - 1 ELSE @]
    BY <1>5, ClosingCases DEF LeaseInv, GivesBack
  <2>2. Current(w) /\ lease[r].fence = job[w].fence
    BY <1>1, <1>3, CompleteReleases DEF Current
  <2>3. /\ queue'[r].attempts = IF queue[r].attempts > 0 THEN queue[r].attempts - 1 ELSE 0
        /\ \A s \in Runs : s # r => queue'[s] = queue[s]
    BY <1>1, <2>1 DEF ReleaseClaim, Complete, TypeOK
  <2>4. /\ executions'[r].since = executions[r].since
        /\ executions'[r].count = IF job[w].fence > executions[r].since
                                    THEN executions[r].count - 1 ELSE executions[r].count
        /\ \A s \in Runs : s # r => executions'[s] = executions[s]
    BY <1>1, <2>1 DEF TypeOK
  <2>5. \A s \in Runs : lease'[s].fence = lease[s].fence
    BY <1>1, <1>2, FencesStay
  <2>6. job[w].fence > executions[r].since => executions[r].count > 0
    BY <2>2 DEF CountInv, ExecutionCounted, Settle
  <2>7. ~(job[w].fence > executions[r].since) => executions[r].count = 0 /\ queue[r].attempts = 0
    BY <1>1, <2>2, CounterTypes, FieldTypes DEF CountInv, Accounted
  <2>8. DeliveryBound'
    BY <1>1, <2>4, CounterTypes DEF CountInv, DeliveryBound
  <2>9. Accounted'
    BY <1>1, <2>3, <2>4, <2>5, <2>6, <2>7, CounterTypes, FieldTypes DEF CountInv, Accounted
  <2>10. ExecutionCounted'
    <3> SUFFICES ASSUME NEW v \in Workers, Current(v)', job'[v].pc \in {"executing", "returned"},
                        job'[v].fence > executions'[job'[v].run].since
                 PROVE  executions'[job'[v].run].count > 0
      BY DEF ExecutionCounted
    <3>1. v # w /\ v \in Procs /\ job'[v] = job[v] /\ job[v].run # None
      BY <1>2 DEF Ends, OthersKeep, Current, Busy, Procs
    <3>2. job[v].run \in Runs /\ job[v].fence = lease[job[v].run].fence
      BY <2>5, <3>1, FieldTypes DEF Current
    <3>3. job[v].run # r
      BY <1>1, <2>2, <3>1, <3>2 DEF LeaseInv, FencesUnique, Busy
    <3> QED
      BY <2>4, <3>1, <3>2, <3>3 DEF CountInv, ExecutionCounted, Current, Busy
  <2> QED
    BY <2>8, <2>9, <2>10 DEF CountInv
<1> QED
  BY <1>4, <1>5, ClosingCases DEF LeaseInv

(* Nothing has been delivered before the first enqueue. *)
LEMMA InitCountInv == Init => CountInv
  BY FleetAssumption DEF Init, CountInv, DeliveryBound, Accounted, ExecutionCounted, Current, Busy,
     NoJob, Procs

(* Every step keeps the deliveries within their bound. *)
LEMMA NextCountInv == TypeOK /\ LeaseInv /\ CountInv /\ [Next]_vars => CountInv'
<1> SUFFICES ASSUME TypeOK, LeaseInv, CountInv, [Next]_vars PROVE CountInv'
  OBVIOUS
<1>1. Workers \subseteq Procs /\ Locals \subseteq Procs
  BY DEF Procs
<1>2. ASSUME NEW p \in Procs, Moves(p) \/ Ends(p), UNCHANGED executions,
             \A r \in Runs : queue'[r].attempts = queue[r].attempts
      PROVE  CountInv'
  BY <1>2, FencesStay, UncountedStep
<1>3. ASSUME NEW r \in Runs, Enqueue(r) PROVE CountInv'
  <2>1. /\ queue'[r].attempts = 0 /\ \A s \in Runs : s # r => queue'[s] = queue[s]
        /\ executions'[r].count = 0 /\ executions'[r].since = lease[r].fence
        /\ \A s \in Runs : s # r => executions'[s] = executions[s]
        /\ lease' = lease /\ job' = job
    BY <1>3 DEF Enqueue, TypeOK
  <2>2. DeliveryBound'
    BY <2>1, CounterTypes DEF CountInv, DeliveryBound
  <2>3. Accounted'
    BY <2>1, FieldTypes DEF CountInv, Accounted
  <2>4. ExecutionCounted'
    BY <1>1, <2>1, FieldTypes DEF CountInv, ExecutionCounted, Current, Busy
  <2> QED
    BY <2>2, <2>3, <2>4 DEF CountInv
<1>4. ASSUME NEW w \in Workers, Claim(w) PROVE CountInv'
  BY <1>4, ClaimCountInv
<1>5. ASSUME NEW w \in Workers, Settle(w) PROVE CountInv'
  BY <1>5, SettleCountInv
<1>6. ASSUME NEW p \in Procs, Execute(p) \/ Renew(p) PROVE CountInv'
  <2>1. UNCHANGED <<executions, queue>>
    BY <1>6 DEF Execute, Renew, ReadRun, SaveTurn, SaveStatus, FailTurn, ReturnSaved,
       WriteFenced, ExecError, ExecCancelled, ExecUnchanged, RenewRunLease, RenewRefused, RenewFailed
  <2> QED
    BY <1>2, <1>6, <2>1, ExecuteMoves DEF LeaseInv
<1>7. ASSUME NEW w \in Workers, SettleFenced(w) \/ Unsettled(w) PROVE CountInv'
  <2>1. Ends(w) /\ UNCHANGED <<executions, queue>>
    BY <1>7, SettlementEnds DEF LeaseInv, SettleFenced, Unsettled
  <2> QED
    BY <1>1, <1>2, <2>1
<1>8. ASSUME NEW w \in Workers, SettleOverDelivered(w) PROVE CountInv'
  <2>1. w \in Procs /\ Ends(w) /\ UNCHANGED executions
    BY <1>1, <1>8, SettlementEnds DEF LeaseInv, SettleOverDelivered
  <2>2. \A s \in Runs : queue'[s].attempts = queue[s].attempts
    <3>1. CASE FinishRun(w) \/ FailRun(w)
      <4>1. \E state, wait : queue' = [queue EXCEPT ![job[w].run] =
              [state |-> state, attempts |-> queue[job[w].run].attempts, wait |-> wait]]
        BY <3>1 DEF FinishRun, FailRun, Complete
      <4> QED
        BY <4>1 DEF TypeOK
    <3> QED
      BY <1>8, <3>1 DEF SettleOverDelivered
  <2> QED
    BY <1>2, <2>1, <2>2
<1>9. ASSUME NEW p \in Procs, Moves(p) \/ Ends(p), UNCHANGED <<executions, queue>> PROVE CountInv'
  BY <1>2, <1>9
<1>10. ASSUME NEW w \in Workers, ReadOverdue(w) \/ Start(w) \/ Stop(w) PROVE CountInv'
  <2>1. Moves(w) \/ Ends(w)
    BY <1>10, WorkerRowKinds DEF LeaseInv
  <2> QED
    BY <1>1, <1>9, <1>10, <2>1 DEF ReadOverdue, ExecUnchanged, Start, Stop
<1>11. ASSUME NEW p \in Procs, Crash(p) PROVE CountInv'
  <2>1. Ends(p)
    BY <1>11, CrashEnds
  <2> QED
    BY <1>9, <1>11, <2>1 DEF Crash
<1>12. ASSUME NEW p \in Locals, NEW r \in Runs, LocalStart(p, r) PROVE CountInv'
  <2>1. Begins(p, r) /\ UNCHANGED <<queue, executions>>
    BY <1>12, LocalBegins DEF LeaseInv, LocalStart
  <2>2. \A w \in Workers : job'[w] = job[w]
    BY <1>1, <2>1, FleetAssumption DEF Begins, OthersKeep
  <2> QED
    BY <2>1, <2>2, UncountedStep DEF Busy
<1>13. ASSUME NEW p \in Locals, LocalInterrupt(p) PROVE CountInv'
  <2>1. Moves(p) /\ p \in Procs /\ UNCHANGED <<executions, queue>>
    BY <1>1, <1>13, InterruptMoves DEF LeaseInv, LocalInterrupt
  <2> QED
    BY <1>9, <2>1
<1>14. ASSUME NEW p \in Locals, LocalRelease(p) PROVE CountInv'
  <2>1. Ends(p) /\ p \in Procs /\ UNCHANGED <<executions, queue>>
    BY <1>1, <1>14, ReleaseEnds DEF LeaseInv, LocalRelease
  <2> QED
    BY <1>9, <2>1
<1>15. CASE Tick
  <2>1. \A p \in Procs : job'[p].pc = job[p].pc /\ job'[p].run = job[p].run /\ job'[p].fence = job[p].fence
    BY <1>15 DEF Tick, TypeOK, Job
  <2>2. \A s \in Runs : lease'[s].fence = lease[s].fence /\ queue'[s].attempts = queue[s].attempts
    BY <1>15 DEF Tick, TypeOK
  <2> QED
    BY <1>1, <1>15, <2>1, <2>2, UncountedStep DEF Tick
<1>16. CASE UNCHANGED vars
  BY <1>16 DEF vars, CountInv, DeliveryBound, Accounted, ExecutionCounted, Current, Busy
<1> QED
  BY <1>1, <1>3, <1>4, <1>5, <1>6, <1>7, <1>8, <1>10, <1>11, <1>12, <1>13, <1>14, <1>15, <1>16
     DEF Next, WorkerStep, LocalStep

(***************************************************************************)
(* What a run's status says.                                               *)
(***************************************************************************)

(* Only the holder of the newest token writes the status. *)
StatusBy(p) ==
    \/ status' = status
    \/ Current(p) /\ \A s \in Runs : s # job[p].run => status'[s] = status[s]

(* A step of one process leaves what the others saw true. *)
LEMMA OthersSeen ==
  ASSUME TypeOK, LeaseInv, SeenIsCurrent, NEW p \in Procs, Moves(p) \/ Ends(p), StatusBy(p),
         NEW q \in Procs, q # p, Current(q)'
  PROVE  SeenHolds(q)'
<1>1. job'[q] = job[q] /\ job[q].run # None /\ job[q].run \in Runs
  BY FieldTypes DEF Moves, Ends, OthersKeep, Current, Busy
<1>2. Current(q)
  BY <1>1, FencesStay DEF Current, Busy
<1>3. status'[job[q].run] = status[job[q].run]
  BY <1>1, <1>2 DEF StatusBy, Current, LeaseInv, FencesUnique
<1> QED
  BY <1>1, <1>2, <1>3 DEF SeenIsCurrent, SeenHolds

(* A job that ends has nothing left to report. *)
LEMMA EndsSeen ==
  ASSUME TypeOK, LeaseInv, SeenIsCurrent, NEW p \in Procs, Ends(p), StatusBy(p)
  PROVE  SeenIsCurrent'
<1>1. ~Current(p)'
  BY DEF Ends, Current, Busy
<1> QED
  BY <1>1, OthersSeen DEF SeenIsCurrent

(* A job that begins has seen nothing yet, and displaces whoever had. *)
LEMMA BeginsSeen ==
  ASSUME TypeOK, LeaseInv, SeenIsCurrent, NEW p \in Procs, NEW r \in Runs, Begins(p, r),
         UNCHANGED status
  PROVE  SeenIsCurrent'
<1>1. SeenHolds(p)'
  BY DEF Begins, SeenHolds, Statuses
<1>2. ASSUME NEW q \in Procs, q # p, Current(q)' PROVE SeenHolds(q)'
  <2>1. /\ job'[q] = job[q] /\ job[q].run # None /\ job[q].run \in Runs
        /\ job[q].fence = lease'[job[q].run].fence
    BY <1>2, FieldTypes DEF Begins, OthersKeep, Current, Busy
  <2>2. /\ lease'[r].fence = lease[r].fence + 1
        /\ \A s \in Runs : s # r => lease'[s] = lease[s]
    BY DEF Begins
  <2>3. job[q].fence <= lease[job[q].run].fence
    BY <2>1 DEF LeaseInv, FencesBehind, Busy
  <2>4. job[q].run # r
    BY <2>1, <2>2, <2>3, FieldTypes
  <2>5. Current(q)
    BY <2>1, <2>2, <2>4 DEF Current, Busy
  <2> QED
    BY <2>1, <2>5 DEF SeenIsCurrent, SeenHolds
<1> QED
  BY <1>1, <1>2 DEF SeenIsCurrent

(* The steps of an execution: it writes what it has seen is not complete,  *)
(* and reports what it has written.                                        *)
LEMMA ExecuteSeen ==
  ASSUME TypeOK, LeaseInv, SeenIsCurrent, NEW p \in Procs, Execute(p) \/ Renew(p)
  PROVE  SeenIsCurrent' /\ StatusBy(p)
         /\ \A r \in Runs : status[r] = "completed" => status'[r] = "completed"
<1>1. job[p].pc = "executing" /\ Busy(p) /\ job[p].run # None /\ job[p].run \in Runs
  <2>1. job[p].pc = "executing"
    BY DEF Execute, Renew, Running, ReadRun, SaveTurn,
         SaveStatus, FailTurn, ReturnSaved, WriteFenced, ExecError, ExecCancelled, Writing,
         WriteStatus, RenewRunLease, RenewRefused, RenewFailed
  <2> QED
    BY <2>1, FieldTypes DEF LeaseInv, IdleHasNoRun, Busy
<1>2. job \in [Procs -> Job] /\ job[p] \in Job /\ Moves(p) /\ status \in [Runs -> Statuses]
  BY ExecuteMoves DEF TypeOK, LeaseInv
<1>3. Current(p)' => Current(p)
  BY <1>1, <1>2, FencesStay DEF Current, Busy, Moves
<1>4. Owns(p) => Current(p)
  BY <1>1 DEF Owns, Current
<1>5. ASSUME NEW st \in Statuses, WriteStatus(p, st)
      PROVE  /\ StatusBy(p)
             /\ status'[job[p].run] = st
             /\ \A r \in Runs : status[r] = "completed" => status'[r] = "completed"
  <2>1. Current(p) /\ status' = [status EXCEPT ![job[p].run] = st]
    BY <1>4, <1>5 DEF WriteStatus
  <2>2. job[p].seen \in Statuses
    BY <1>2, <1>5 DEF WriteStatus, Writing, Job
  <2>3. status[job[p].run] # "completed"
    BY <1>1, <2>1, <2>2 DEF SeenIsCurrent, SeenHolds
  <2> QED
    BY <1>1, <1>2, <2>1, <2>3 DEF StatusBy
<1>6. ASSUME StatusBy(p), Current(p)' => SeenHolds(p)' PROVE SeenIsCurrent'
  BY <1>2, <1>6, OthersSeen DEF SeenIsCurrent
<1>7. UNCHANGED status => StatusBy(p)
  BY DEF StatusBy
<1>8. CASE ReadRun(p)
  <2>1. CASE status[job[p].run] = "completed"
    <3>1. job'[p].pc = "returned" /\ job'[p].run = job[p].run
      BY <1>2, <1>8, <2>1 DEF ReadRun, Return, Job
    <3>2. SeenHolds(p)'
      BY <1>8, <2>1, <3>1 DEF ReadRun, SeenHolds
    <3> QED
      BY <1>6, <1>7, <1>8, <3>2 DEF ReadRun
  <2>2. CASE status[job[p].run] # "completed"
    <3>1. /\ job'[p].pc = "executing" /\ job'[p].run = job[p].run
          /\ job'[p].seen = status[job[p].run]
      BY <1>1, <1>2, <1>8, <2>2 DEF ReadRun, Job
    <3>2. SeenHolds(p)'
      BY <1>1, <1>2, <1>8, <2>2, <3>1 DEF ReadRun, SeenHolds, Statuses
    <3> QED
      BY <1>6, <1>7, <1>8, <3>2 DEF ReadRun
  <2> QED
    BY <2>1, <2>2
<1>9. CASE SaveTurn(p)
  <2>1. job'[p].pc = "executing" /\ job'[p].seen = "unread"
    BY <1>1, <1>2, <1>9 DEF SaveTurn, Job
  <2>2. SeenHolds(p)'
    BY <2>1 DEF SeenHolds, Statuses
  <2>3. WriteStatus(p, "running") /\ "running" \in Statuses
    BY <1>9 DEF SaveTurn, Statuses
  <2> QED
    BY <1>5, <1>6, <2>2, <2>3
<1>10. CASE SaveStatus(p)
  <2>1. job'[p].pc = "executing" /\ job'[p].seen = "saved" /\ job'[p].run = job[p].run
    BY <1>1, <1>2, <1>10 DEF SaveStatus, Job
  <2>2. PICK st \in {"completed", "paused"} : WriteStatus(p, st)
    BY <1>10 DEF SaveStatus
  <2>3. st \in Statuses
    BY DEF Statuses
  <2>4. /\ StatusBy(p)
        /\ status'[job[p].run] = st
        /\ \A r \in Runs : status[r] = "completed" => status'[r] = "completed"
    BY <1>5, <2>2, <2>3
  <2>5. SeenHolds(p)'
    BY <2>1, <2>4 DEF SeenHolds, Statuses
  <2> QED
    BY <1>6, <2>4, <2>5
<1>11. CASE FailTurn(p)
  <2>1. job'[p].pc = "returned" /\ job'[p].result = "error"
    BY <1>1, <1>2, <1>11 DEF FailTurn, Return, Job
  <2>2. SeenHolds(p)'
    BY <2>1 DEF SeenHolds
  <2>3. WriteStatus(p, "failed") /\ "failed" \in Statuses
    BY <1>11 DEF FailTurn, Statuses
  <2> QED
    BY <1>5, <1>6, <2>2, <2>3
<1>12. CASE ReturnSaved(p)
  <2>1. /\ job'[p].pc = "returned" /\ job'[p].run = job[p].run
        /\ job[p].seen = "saved" /\ UNCHANGED status
    BY <1>1, <1>2, <1>12 DEF ReturnSaved, Return, Job
  <2>2. Current(p) => status[job[p].run] \in {"completed", "paused"}
    BY <1>1, <2>1 DEF SeenIsCurrent, SeenHolds
  <2>3. Current(p)' => SeenHolds(p)'
    BY <1>3, <2>1, <2>2 DEF SeenHolds
  <2> QED
    BY <1>6, <1>7, <2>1, <2>3
<1>13. CASE WriteFenced(p) \/ ExecError(p) \/ ExecCancelled(p)
  <2>1. /\ job'[p].pc = "returned" /\ job'[p].result \in {"fenced", "error", "cancelled"}
        /\ UNCHANGED status
    BY <1>1, <1>2, <1>13 DEF WriteFenced, ExecError, ExecCancelled, Return, Job
  <2>2. SeenHolds(p)'
    BY <2>1 DEF SeenHolds
  <2> QED
    BY <1>6, <1>7, <2>1, <2>2
<1>14. CASE Renew(p)
  <2>1. /\ job'[p].pc = job[p].pc /\ job'[p].run = job[p].run /\ job'[p].seen = job[p].seen
        /\ job'[p].result = job[p].result
    BY <1>1, <1>2, <1>14 DEF Renew, RenewRunLease, RenewRefused, RenewFailed, Job
  <2>2. UNCHANGED status
    BY <1>14 DEF Renew, RenewRunLease, RenewRefused, RenewFailed
  <2>3. Current(p)' => SeenHolds(p)'
    BY <1>3, <2>1, <2>2 DEF SeenIsCurrent, SeenHolds
  <2> QED
    BY <1>6, <1>7, <2>2, <2>3
<1> QED
  BY <1>8, <1>9, <1>10, <1>11, <1>12, <1>13, <1>14 DEF Execute

(* A run past its bound is failed only if it was seen, and still is, short *)
(* of completion.                                                          *)
LEMMA OverDeliveredSeen ==
  ASSUME TypeOK, LeaseInv, SeenIsCurrent, NEW w \in Workers, SettleOverDelivered(w)
  PROVE  SeenIsCurrent' /\ \A r \in Runs : status[r] = "completed" => status'[r] = "completed"
<1>1. w \in Procs /\ job[w].pc = "overdue" /\ Busy(w) /\ job[w].run \in Runs
  BY FieldTypes DEF SettleOverDelivered, LeaseInv, IdleHasNoRun, Procs, Busy
<1>2. Ends(w)
  BY SettlementEnds DEF LeaseInv
<1>3. CASE UNCHANGED status
  BY <1>1, <1>2, <1>3, EndsSeen DEF StatusBy
<1>4. CASE /\ job[w].seen # "completed" /\ FailRun(w)
           /\ status' = [status EXCEPT ![job[w].run] = "failed"]
  <2>1. Current(w)
    BY <1>1, <1>4, CompleteReleases
  <2>2. StatusBy(w)
    BY <1>1, <1>4, <2>1 DEF StatusBy, TypeOK
  <2>3. status[job[w].run] # "completed"
    BY <1>1, <1>4, <2>1 DEF SettleOverDelivered, SeenIsCurrent, SeenHolds
  <2> QED
    BY <1>1, <1>2, <1>4, <2>2, <2>3, EndsSeen DEF TypeOK
<1> QED
  BY <1>3, <1>4 DEF SettleOverDelivered

(* Every step keeps what holders saw true, and no step takes a completion  *)
(* back.                                                                   *)
LEMMA NextSeen ==
  TypeOK /\ LeaseInv /\ SeenIsCurrent /\ [Next]_vars =>
    SeenIsCurrent' /\ \A r \in Runs : status[r] = "completed" => status'[r] = "completed"
<1> DEFINE Goal == SeenIsCurrent' /\ \A r \in Runs : status[r] = "completed" => status'[r] = "completed"
<1> SUFFICES ASSUME TypeOK, LeaseInv, SeenIsCurrent, [Next]_vars PROVE Goal
  OBVIOUS
<1>1. Workers \subseteq Procs /\ Locals \subseteq Procs
  BY DEF Procs
<1>2. CASE UNCHANGED <<job, lease, status>>
  BY <1>2 DEF SeenIsCurrent, SeenHolds, Current, Busy
<1>3. ASSUME NEW p \in Procs, Ends(p), UNCHANGED status PROVE Goal
  BY <1>3, EndsSeen DEF StatusBy
<1>4. ASSUME NEW p \in Procs, Moves(p), UNCHANGED status,
             job'[p].pc = job[p].pc, job'[p].result = job[p].result, job'[p].seen = job[p].seen
      PROVE  Goal
  <2>1. Current(p)' => Current(p)
    BY <1>4, FencesStay, FieldTypes DEF Current, Busy, Moves
  <2>2. Current(p)' => SeenHolds(p)'
    BY <1>4, <2>1 DEF SeenIsCurrent, SeenHolds, Moves
  <2> QED
    BY <1>4, <2>2, OthersSeen DEF SeenIsCurrent, StatusBy
<1>5. ASSUME NEW w \in Workers, Claim(w) PROVE Goal
  <2>1. w \in Procs /\ UNCHANGED status /\ \E r \in Runs : Begins(w, r)
    BY <1>1, <1>5, ClaimBegins DEF LeaseInv, Claim
  <2> QED
    BY <2>1, BeginsSeen
<1>6. ASSUME NEW p \in Procs, Execute(p) \/ Renew(p) PROVE Goal
  BY <1>6, ExecuteSeen
<1>7. ASSUME NEW w \in Workers, Settle(w) \/ SettleFenced(w) \/ Unsettled(w) PROVE Goal
  <2>1. Ends(w) /\ UNCHANGED status
    BY <1>7, SettlementEnds DEF LeaseInv, Settle, SettleFenced, Unsettled
  <2> QED
    BY <1>1, <1>3, <2>1
<1>8. ASSUME NEW w \in Workers, ReadOverdue(w) PROVE Goal
  <2>1. job[w].pc = "overdue" /\ w \in Procs /\ job \in [Procs -> Job] /\ job[w] \in Job
    BY <1>1, <1>8 DEF ReadOverdue, TypeOK
  <2>2. Moves(w)
    <3>1. Moves(w) \/ Ends(w)
      BY <1>8, WorkerRowKinds DEF LeaseInv
    <3>2. job'[w].pc = "overdue"
      BY <1>8, <2>1 DEF ReadOverdue, Job
    <3> QED
      BY <3>1, <3>2 DEF Ends
  <2>3. job'[w].pc = "overdue" /\ job'[w].run = job[w].run /\ job'[w].seen = status[job[w].run]
        /\ UNCHANGED status
    BY <1>8, <2>1 DEF ReadOverdue, Job
  <2>4. SeenHolds(w)'
    BY <2>3 DEF SeenHolds
  <2> QED
    BY <2>1, <2>2, <2>3, <2>4, OthersSeen DEF SeenIsCurrent, StatusBy
<1>9. ASSUME NEW w \in Workers, SettleOverDelivered(w) PROVE Goal
  BY <1>9, OverDeliveredSeen
<1>10. ASSUME NEW w \in Workers, Start(w) \/ Stop(w) PROVE Goal
  <2>1. w \in Procs /\ UNCHANGED status
    BY <1>1, <1>10 DEF Start, Stop
  <2>2. CASE Ends(w)
    BY <1>3, <2>1, <2>2
  <2>3. CASE Moves(w)
    <3>1. job' = [job EXCEPT ![w].stop = TRUE]
      BY <1>10, <2>1, <2>3 DEF Start, Stop, Moves, LeaseInv, IdleHasNoRun
    <3>2. job'[w].pc = job[w].pc /\ job'[w].result = job[w].result /\ job'[w].seen = job[w].seen
      BY <2>1, <3>1 DEF TypeOK, Job
    <3> QED
      BY <1>4, <2>1, <2>3, <3>2
  <2> QED
    BY <1>10, <2>2, <2>3, WorkerRowKinds DEF LeaseInv
<1>11. ASSUME NEW p \in Procs, Crash(p) PROVE Goal
  <2>1. Ends(p) /\ UNCHANGED status
    BY <1>11, CrashEnds DEF Crash
  <2> QED
    BY <1>3, <2>1
<1>12. ASSUME NEW p \in Locals, NEW r \in Runs, LocalStart(p, r) PROVE Goal
  <2>1. p \in Procs /\ UNCHANGED status /\ Begins(p, r)
    BY <1>1, <1>12, LocalBegins DEF LeaseInv, LocalStart
  <2> QED
    BY <2>1, BeginsSeen
<1>13. ASSUME NEW p \in Locals, LocalInterrupt(p) PROVE Goal
  <2>1. p \in Procs /\ UNCHANGED status /\ Moves(p)
    BY <1>1, <1>13, InterruptMoves DEF LeaseInv, LocalInterrupt
  <2>2. job'[p].pc = job[p].pc /\ job'[p].result = job[p].result /\ job'[p].seen = job[p].seen
    BY <1>13, <2>1 DEF LocalInterrupt, TypeOK, Job
  <2> QED
    BY <1>4, <2>1, <2>2
<1>14. ASSUME NEW p \in Locals, LocalRelease(p) PROVE Goal
  <2>1. p \in Procs /\ UNCHANGED status /\ Ends(p)
    BY <1>1, <1>14, ReleaseEnds DEF LeaseInv, LocalRelease
  <2> QED
    BY <1>3, <2>1
<1>15. CASE Tick
  <2>1. \A p \in Procs : /\ job'[p].pc = job[p].pc /\ job'[p].run = job[p].run
                        /\ job'[p].fence = job[p].fence /\ job'[p].seen = job[p].seen
                        /\ job'[p].result = job[p].result
    BY <1>15 DEF Tick, TypeOK, Job
  <2>2. \A s \in Runs : lease'[s].fence = lease[s].fence
    BY <1>15 DEF Tick, TypeOK
  <2>3. UNCHANGED status
    BY <1>15 DEF Tick
  <2> QED
    BY <2>1, <2>2, <2>3, FieldTypes DEF SeenIsCurrent, SeenHolds, Current, Busy
<1>16. ASSUME NEW r \in Runs, Enqueue(r) PROVE Goal
  BY <1>2, <1>16 DEF Enqueue
<1>17. CASE UNCHANGED vars
  BY <1>2, <1>17 DEF vars
<1> HIDE DEF Goal
<1> QED
  BY <1>1, <1>5, <1>6, <1>7, <1>8, <1>9, <1>10, <1>11, <1>12, <1>13, <1>14, <1>15, <1>16, <1>17
     DEF Next, WorkerStep, LocalStep

(* A queue entry turns finished only in the closing write of a holder that *)
(* reports, truly, a run that completed or paused.                         *)
LEMMA FinishedStep ==
  ASSUME TypeOK, LeaseInv, SeenIsCurrent, [Next]_vars, NEW r \in Runs,
         queue[r].state # "finished", queue'[r].state = "finished"
  PROVE  status[r] \in {"completed", "paused"}
<1>1. Workers \subseteq Procs /\ queue \in [Runs -> [state : {"absent", "runnable", "leased", "finished", "failed"},
                           attempts : Nat, wait : 0..Backoff]]
  BY DEF Procs, TypeOK
<1>2. ASSUME NEW w \in Procs, Busy(w), NEW state, NEW n, NEW wait, Complete(w, state, n, wait)
      PROVE  state = "finished" /\ job[w].run = r /\ Current(w)
  <2>1. job[w].run \in Runs /\ Current(w)
    BY <1>2, FieldTypes DEF Complete, Owns, Current, Busy
  <2>2. queue' = [queue EXCEPT ![job[w].run] = [state |-> state, attempts |-> n, wait |-> wait]]
    BY <1>2 DEF Complete
  <2> QED
    BY <1>1, <2>1, <2>2
<1>3. ASSUME NEW w \in Workers, Settle(w) PROVE status[r] \in {"completed", "paused"}
  <2>1. w \in Procs /\ Busy(w) /\ job[w].pc = "returned"
    BY <1>1, <1>3 DEF Settle, LeaseInv, IdleHasNoRun
  <2>2. job[w].result = "ok" /\ FinishRun(w)
    <3>1. ~FailRun(w)
      BY <1>2, <2>1 DEF FailRun
    <3>2. ~RequeueRun(w)
      BY <1>2, <2>1 DEF RequeueRun
    <3>3. ~ReleaseClaim(w)
      BY <1>2, <2>1 DEF ReleaseClaim
    <3> QED
      BY <1>3, <3>1, <3>2, <3>3, ClosingCases DEF LeaseInv
  <2> QED
    BY <1>2, <2>1, <2>2 DEF FinishRun, SeenIsCurrent, SeenHolds
<1>4. ASSUME NEW w \in Workers, SettleOverDelivered(w) PROVE status[r] \in {"completed", "paused"}
  <2>1. w \in Procs /\ Busy(w) /\ job[w].pc = "overdue"
    BY <1>1, <1>4 DEF SettleOverDelivered, LeaseInv, IdleHasNoRun
  <2>2. job[w].seen = "completed" /\ FinishRun(w)
    BY <1>2, <1>4, <2>1 DEF SettleOverDelivered, FailRun
  <2> QED
    BY <1>2, <2>1, <2>2 DEF FinishRun, SeenIsCurrent, SeenHolds
<1>5. ASSUME queue' = queue PROVE FALSE
  BY <1>5
<1>6. ASSUME NEW s \in Runs, Enqueue(s) PROVE FALSE
  BY <1>1, <1>6 DEF Enqueue
<1>7. ASSUME NEW w \in Workers, Claim(w) PROVE FALSE
  BY <1>1, <1>7 DEF Claim, TypeOK
<1>8. CASE Tick
  BY <1>1, <1>8 DEF Tick
<1>9. ASSUME NEW p, Execute(p) \/ Renew(p) PROVE FALSE
  BY <1>5, <1>9 DEF Execute, Renew, ReadRun, SaveTurn, SaveStatus, FailTurn, ReturnSaved,
       WriteFenced, ExecError, ExecCancelled, ExecUnchanged, RenewRunLease, RenewRefused, RenewFailed
<1>10. ASSUME NEW w \in Workers, WorkerStep(w) PROVE status[r] \in {"completed", "paused"}
  BY <1>3, <1>4, <1>5, <1>7, <1>9, <1>10 DEF WorkerStep, SettleFenced, Unsettled, ReadOverdue,
     ExecUnchanged, Start, Stop, Crash
<1>11. ASSUME NEW p \in Locals, LocalStep(p) PROVE FALSE
  BY <1>5, <1>9, <1>11 DEF LocalStep, LocalStart, LocalInterrupt, LocalRelease, Crash
<1> QED
  BY <1>5, <1>6, <1>8, <1>10, <1>11 DEF Next, vars

(***************************************************************************)
(* The theorems.                                                           *)
(***************************************************************************)

(* The inductive invariant holds at the start, *)
LEMMA InitIInv == Init => IInv
<1> SUFFICES ASSUME Init PROVE IInv
  OBVIOUS
<1>1. SeenIsCurrent
  BY DEF Init, SeenIsCurrent, Current, Busy, NoJob
<1>2. ListingInv
  BY DEF Init, ListingInv, UpRegistered, LiveHolderListed, NoJob, Procs
<1> QED
  BY <1>1, <1>2, InitTypeOK, InitLeaseInv, InitCountInv DEF IInv

(* and every step preserves it. *)
LEMMA NextIInv == IInv /\ [Next]_vars => IInv'
  BY NextTypeOK, NextLeaseInv, NextSeen, NextListingInv, NextCountInv DEF IInv

(* Fleet satisfies its inductive invariant, whatever the fleet's size and  *)
(* however often processes crash, stall, stop or lose an acknowledgement.  *)
THEOREM Invariance == Spec => []IInv
  BY InitIInv, NextIInv, PTL DEF Spec

(* The store's tables and the processes keep their shape; in particular no *)
(* execution is given back that was not counted.                           *)
THEOREM TypeCorrect == Spec => []TypeOK
<1>1. IInv => TypeOK
  BY DEF IInv
<1> QED
  BY <1>1, Invariance, PTL

(* At most one process executes a run believing that its lease is valid.   *)
THEOREM ExecutorIsSole == Spec => []SoleExecutor
<1>1. IInv => SoleExecutor
  BY DEF IInv, LeaseInv, IdleHasNoRun, FencesUnique, ViewBehindRow, SoleExecutor, Current, Busy
<1> QED
  BY <1>1, Invariance, PTL

(* Since its last enqueue no run is executed more often than the delivery  *)
(* bound allows.                                                           *)
THEOREM DeliveriesAreBounded == Spec => []DeliveryBound
<1>1. IInv => DeliveryBound
  BY DEF IInv, CountInv
<1> QED
  BY <1>1, Invariance, PTL

(* No live lease names a worker that is missing from the workers table.    *)
THEOREM LiveHoldersAreListed == Spec => []LiveHolderListed
<1>1. IInv => LiveHolderListed
  BY DEF IInv, ListingInv
<1> QED
  BY <1>1, Invariance, PTL

(* No step of any process, however stale what it read, takes a completed   *)
(* run back.                                                               *)
THEOREM CompletionStays == Spec => CompletionIsFinal
<1>1. IInv /\ [Next]_vars => [\A r \in Runs : status[r] = "completed" => status'[r] = "completed"]_vars
  BY NextSeen DEF IInv
<1> QED
  BY <1>1, Invariance, PTL DEF Spec, CompletionIsFinal

(* An entry the queue reports finished was completed or paused when it was *)
(* reported.                                                               *)
THEOREM FinishedTellsTruth == Spec => FinishedIsTrue
<1>1. IInv /\ [Next]_vars =>
        [\A r \in Runs :
            queue[r].state # "finished" /\ queue'[r].state = "finished"
              => status[r] \in {"completed", "paused"}]_vars
  BY FinishedStep DEF IInv
<1> QED
  BY <1>1, Invariance, PTL DEF Spec, FinishedIsTrue

================================================================================
