# Twinwright: a verification project

Twinwright runs AI agents against simulated business services (twins). A run
is a loop of model turns and tool calls whose every effect is a row in a
database, so that it can be interrupted, resumed by another process, replayed,
forked and judged. The code makes strong promises about these rows: a displaced
worker never writes, a crash loses nothing and repeats nothing, a completed run
replays to the same result, a fault is injected exactly where the policy says.
These modules state the promises and check them.

Paths below are relative to `src/internal/`.

## 1. Inventory

| Component | State it keeps | Operations | Where it is hard |
|---|---|---|---|
| Leases and fencing (`store/lease.go`, `guarded.go`, `ownership.go`) | `run_leases`, `run_ownership_log` | acquire, renew, release, guard inside every write, record a rejection | takeovers between a check and its write, a first acquisition with no row to lock, clocks that disagree |
| Work queue (`store/queue.go`) | `work_queue`, `workers` | enqueue, claim, finish, fail, requeue, give back, list | re-enqueue under a live lease, deliveries at their limit, claims left by dead workers |
| Workers, local commands (`worker/`) | the claim in hand, the renewal loop's view | claim, execute, renew, settle, stop, trace export | stale status reads, lost acknowledgements, two kinds of executor on one run |
| Agent loop (`agent/runner.go`) | `runs` (status, step, transcript), `events` | read, dispatch, request, call provider, save, pause, complete, fail | crashes between any two writes, history read before a long call |
| Dispatcher (`dispatch/`) | `tool_results`, `events` | Invoke | one transaction over idempotency, policy, faults and effects |
| Chaos (`chaos/`) | rule counters, snapshots, hidden outcomes | decide, inject, snapshot, copy | counters given back, stale reads, calls lost after commit |
| Authorization (`authz/`) | the call number | decide, expose, copy | off-by-one between policy and call numbers, resources that must be looked up |
| Services (`billing/`, `crm/`, `ticketing/`, `messaging/`) | the world's tables | reads and writes of the twins | refunds from two actors, issue states |
| Scripted agents, evaluation (`agent/*scripted.go`, `eval/`) | none; functions of transcript, world and ledger | next turn, verdict, analysis | lost answers, other writers, a verdict that sees only the end |
| Checkpoints, replay (`checkpoint/`, `replay/`) | none; they read `events` | list, reconstruct, verify | the ledger grammar after crashes |
| Forks, counterfactuals (`fork/`, `counterfactual/`) | `fork_lineage`, `fork_observations`, copied rows | fork, compare, replay, analyse | a parent that goes on meanwhile, state as of a checkpoint, what the lineage must remember |
| Providers (`agent/openai.go`, `chat.go`, `anthropic.go`, `interrupt.go`) | the attempt under way | open, next turn | deadline against cancellation, cut answers, one retry |
| Cassettes (`agent/cassette.go`) | the file of exchanges | record, load, serve | a write that fails, a process that dies, a replay one exchange off |
| exec provider (`agent/exec*.go`, `container/`) | a child process, its group, a container | next turn | exit, overflow and deadline at once; what a killed agent leaves running |
| Bench, gate, crash matrix (`bench/`, `gate/`, `crashmatrix/`) | reports | parse, run, measure, fold, aggregate, compare | trials without a verdict, the order of trials, negative controls, tolerances |
| Shadow, metrics, trace, perf | none or counters | functions of finished runs | export beside a stopping worker |
| Compiler, redaction, CLI, PostgreSQL rewriting | none | parsing, text | nothing stateful |

How they interact. `worker` claims an entry from `store`'s queue, which acquires
the run's lease in the same transaction, and starts `agent.Runner.Execute` with
the fence it got; a renewal loop runs beside it and cancels it when the lease is
lost. `Execute` alternates between the provider and `dispatch.Invoke`; every
write of both goes through `withGuardedTx` or `GuardFenceTx`, so a fence that has
been superseded turns into `ErrFenced` and ends the execution. Local `run` and
`resume` commands do the same without the queue. `checkpoint` and `replay` only
read what a run left behind, `fork` reads a parent and writes a child. A provider is
a fixture, an HTTP adapter over the network or over a cassette, or a process per turn.
`bench` drives all of it case by case and trial by trial, `gate` compares two of its
reports. What makes a component correct is listed with its run in section 4.

`PROJECT.json` lists every component with what is left out and why, and the
hazards, each at its line, with the properties that watch it.

## 2. Plan

Order of work; the first nine are done.

1. `FencedLog`, `Fencing`, `FencingProofs`: everything else assumes a displaced
   process cannot write.
2. `Fleet`: queue, workers and local commands over leases.
3. `Twins`, `ToolCall`, `Dispatch`: the services, one tool call, and sequences of them.
4. `RunRows`, `Checkpoint`, `Replay`: the loop's helpers, the ledger grammar,
   re-execution.
5. `Runner`: the loop in crashing and competing processes, composing 3 and 4.
6. `Fork`: a fork from any listable checkpoint, its copied results, chaos and
   authorization state, both runs continued by `Runner`, and the child's replay.
7. `Fixtures`, `Evaluation`, `Scenario`: the scripted agents in the shipped scenarios
   and what is said of them.
8. `Adapters`, `Cassette`, `OpenProvider`, `ExecAgent`, `Provider`: where a turn comes
   from.
9. `Suite`, `Counterfactual`, `Bench`, `Gate`, `Reports`: benchmark and gate.
10. Proofs, in the order of what they rest on: `FencingProofs` and `FleetProofs`
    beside the modules of 1 and 2; `ToolCallProofs`, what one tool call does to the rows
    of a run, from which `CallLedgerProofs` and `DispatchProofs` go on to sequences of
    calls, `BooksProofs` to what they leave in the world and `RunnerProofs` to competing
    processes; `ProviderProofs`. Done.
11. Left to model: the queue row and the lease row as two PostgreSQL locks; trace
    export beside the worker loop; migrations and their advisory lock.

## 3. Modules and code

`Fencing` models one run, since runs share no lease row, ledger or ownership log.
A session is anything with a connection. It presents any fence ever granted to its
owner's name, and any clock reading. A transaction that locks the lease row is
two steps with everything else interleaved; `Rollback` is a failing statement or a
dying session. A claim from the queue begins a step earlier (`ClaimSelect`): it reads the
lease under the queue row's lock only, decides there whether it displaces an expired
owner, itself included, and hands that flag and its clock reading to the acquisition,
which may find another row. `Repair`, which no code
performs and no run takes, is a restored backup or a manual change; section 5 shows what
it leaves true. `FencedLog` is what it all amounts to: an epoch
counter, a holder, and a log to which only the holder of the newest epoch appends.

`Fleet` makes each store call one step, and gives deadlines as the time left to
them. A worker's job follows `ClaimAndRun`: the delivery check, the execution by
its status reads and writes, the renewal loop with its own view of the expiry
(`RenewFailed` covers a renewal that commits without its acknowledgement), and the
settlement in the order the code decides it. `ExecuteLocal` leases past the queue.
`executions` is a history variable for one property.

`Twins` has the eighteen operations of the four services as operators from a world
and a call to an answer and the world after it, and the worlds `SeedScenario` makes.
Texts are names; which phrases `Evaluation` finds in them is decided there. The ID of a
new issue is a hash of the run and the call, or of the rule and its match: the constant
`IssueName` of the row that made it.

`ToolCall` is `dispatch.Invoke` as operators on the rows of a run: the saved-result
check, validation, `authz.Decide` with its scopes, `chaos.Decide`, the legacy fault,
the handler, snapshots, hidden outcomes, and the rows in the order they are written;
and which policies a run may be created with. Roles are expanded to the permissions
they grant.

`RunRows` has the pure helpers of `runner.go` and the bodies of `guarded.go`'s
writes; `Checkpoint` the ledger grammar and the boundaries of `checkpoint.List` and
the re-execution of `Reconstruct` (a prefix digest is the prefix); `Replay` reading the
recorded turns, running them again through `ToolCall`, and comparing.

`Dispatch` composes `ToolCall` with any caller. `Runner` composes `RunRows`,
`Checkpoint` and `Replay` with processes that hold in local variables exactly
what `Execute` holds (step budget, transcript as read, pending turn), and may
crash or be displaced at every step. A process that is cancelled, or meets a
failing statement, stops with nothing written, which is a crash to the database.

`Fork` has two runs, each an instance of `Runner`, and the fork command. The
command reads the parent three times (select, `Create`'s first read, `Reconstruct`)
and writes the child in one transaction that checks the source again; the parent may
take any step in between. `ChildRows` is what that transaction writes, and also what
`ReconstructForReplay` writes when a fork is replayed; the two differ in where the
options come from, the command line or the lineage. `past` is a history variable: the
parent's rows at every boundary. Replacing the provider or model changes only names
the loop passes on and is left out.

`Fixtures` has the scripted agents: a turn is a function of the transcript, a body is
decoded only where the code decodes it. `Evaluation` has the verdicts (functions of the
world) and the two analyses (functions of the ledger). `Scenario` composes them with
`ToolCall` in one process that does not fail, for every scenario and fixture.

`Adapters` says what one attempt of each hosted adapter comes to, from what `client.Do`
returned, how far the body could be read, and whether the caller and the deadline are
still there. `Cassette` has the file as its header, whole lines and a torn one.
`OpenProvider` has the configurations that are accepted; an agent command whose first word
is a quoted nothing is one of them, and is refused by every attempt. `ExecAgent` is one turn of a
process: the agent, a helper it left behind, its output, a container, and the `select`
that may take any of three events that are ready. `Provider` composes them under
`callProvider`, with the network, the deadline, the caller and the agent program as an
environment that acts between any two steps, and then replays the run it recorded.

`Suite` has the rules of a suite document, `Bench` what a ledger is measured as, the
fold of trials and the aggregate, `Counterfactual` the planned forks and their ranking,
`Gate` the comparison. `Reports` runs a suite case by case and trial by trial: what the
agent does in a trial, what its judge says, how a recovery went and how each fork ended
are free inputs, since other modules are about them; a baseline is a list of trials that
went through the same fold. `deeds` is a history variable: what the ledger of each trial
tells of its refunds and retries, whether or not the trial recorded it. Tolerances are in
tenths and rates are compared exactly, so how a floating-point comparison rounds a drop of
just the tolerance is not modelled; wall times are left out, and the two sides of a commit, or of a model request, are one place of the ledger to a crash.

`Setups` holds the small worlds and configurations that several `MC*` modules share.
`MC*` modules hold only constants, bounds and symmetry sets. Definitions named
`Mut...` are wrong variants of the definition that follows them, kept so that each
property can be shown to notice a bug of that kind; no specification uses them.

## 4. Runs

| Run | Question | Properties |
|---|---|---|
| `fencing` | three sessions, two of them one worker's, any clock | `TypeOK`, `TokensUnique`, `LedgerOrdered`, `HighWaterMark`, `OwnershipGapless`, `AuditTrail`, `ImplementsFencedLog` |
| `fleet` | two workers and a local command, one run, all disturbances | `TypeOK`, `SoleExecutor`, `DeliveryBound`, `LiveHolderListed`, `CompletionIsFinal`, `FinishedIsTrue` |
| `fleet_liveness` | two runs, through crashes, stops, late renewals, failed store calls and a local command | `EveryRunSettles` |
| `dispatch` | every sequence of calls under each policy | `ChaosCountersMatchLedger`, `BooksBalance`, `LostResponsesAreKept`, `ReadsTellTheWorld`, `NoWriteAfterRevocation`, `OneAnswerPerCall` |
| `runner` | two processes, three executions, crashes everywhere | `CheckpointsListable`, `ReplayVerifies`, `OwnerCanResume`, `EveryCallAnswered`, `HistoryIsAppendOnly` |
| `fork` | a fork at any checkpoint with each option, parent and child running on | `CheckpointsRebuild`, `ForkStartsAtCheckpoint`, `ForkReplays`, `TranscriptMatchesResults` |
| `fork_fault` | can a fork have both a legacy fault and a chaos policy? | `FaultOrChaos`, violated |
| `scenario` | every scenario and fixture under every fault that can meet it | `CompletedMeansWhole`, `VerdictMatchesConduct`, `AnalysisIsTrue`, `ViolationsBlocked` |
| `scenario_refused` | can the careful fixture ask for the same refused amount again? | `RefusedAmountNotReissued`, violated |
| `provider` | every provider, configuration, answer, deadline, cancellation and crash; then the replay | `PlaybackFaithful`, `ToldIsRecorded`, `CancelEndsCall`, `ExecLeavesNothing` |
| `reports` | every outcome of trials of every kind of case, gated against baselines | `ReportTellsTheTrials`, `GateHoldsTheLine` |
| `gate_errored` | does the gate see what a trial did before it ended in an error? | `ErroredConductIsGated`, violated |

The three runs whose question begins with `can` or `does` are expected to violate their property; the others
pass.

What they show, in words:

* Fencing works without trusting clocks: only the row lock, the owner, the fence
  and `committed_fence` matter. The placeholder insert is what keeps the first two
  claimers from both holding fence 1. The ownership log names every previous owner and
  marks every displacement of another owner; it also marks a worker that claims its own
  expired run again, and one whose predecessor released between the claim's two reads.
* In the fleet, a worker's `Attempts` check alone bounds executions of a run that
  kills its workers, and a local command never strands a queued run.
* A tool call's counters, ledger, results and world always tell one story: the
  chaos counters can be recomputed from the ledger, the refunded amounts from the
  mutations, and a response that was lost after commit is kept as a hidden outcome.
* A rule that opens several issues opens distinct ones, and the books count each.
* After any crashes and takeovers, calls are answered in the order the model made them,
  a run at rest can be listed, and a run that
  completed without a recorded error replays to the same ledger. A process that still
  owns the run is never refused by the request it would have to repeat.
* A paused run that is resumed keeps the status `paused` until its next turn is
  saved. In that window its ledger no longer ends in a pause, and
  `checkpoint.List` refuses it. `CheckpointsListable` is therefore stated of runs
  at rest.
* Every checkpoint of a run rebuilds exactly the rows the run had there, and a child
  starts from them whatever its parent does. The lineage's `chaos_replaced` and
  `auth_replaced` are needed: a replacement policy equal to the inherited one still
  starts with fresh counters. A completed fork replays as long as its parent can be
  listed; one forked from a paused run cannot be replayed while that parent executes or
  once it has failed.
* `fork_fault` shows a disagreement. `store.CreateRunConfigured`, the `run` command and
  the counterfactual analysis all refuse a legacy fault on a run with a chaos policy,
  but `fork.ValidateOptions` looks only at a *replacement* policy. Forking a chaos run
  with `--fault` inherits the policy and sets the fault.

* A careful fixture reports success only with the customer whole, under every single
  fault on an operation it uses and every pair around the refund, whoever else refunds.
  What the evaluation says of a run, from the world alone, is what its ledger shows. The
  analysis of `ambiguous-commit` calls a retry unsafe only when the write it repeats had
  committed. A principal confined to one customer cannot be led to another.
* `scenario_refused` shows a disagreement. A comment in `company_scripted.go` says that
  reissuing the refused amount is impossible by construction. With two other writers the
  remainder is refused too; the fixture remembers only the first refusal and asks for
  the same remainder until its steps are spent.
* A recording holds what the adapter was told, in order, whatever fails. It is unreadable
  only when a line is torn, or when a server answered with a status outside 100..599, which
  is recorded unchecked (`cassette.go:215`) and refused on load (`cassette.go:375`); a run
  with such an answer completes only if the attempt passed its deadline. A replay yields
  the recorded turns and interruptions, except after a deadline or a `Retry-After` date,
  which the format cannot express, and accepts nothing from a transcript that differs. A
  cancelled call is never taken for an interrupted one. No agent process, nor anything
  in its group, outlives its turn; a container may, when its removal fails, or when the
  docker client ended by itself (its last output passing the limit included), because
  the code then removes nothing.
* The rates of a report and the gate's verdict depend only on the trials taken together:
  not on their order, and not on where the errors among them fell.
* `gate_errored` shows a disagreement. A comment in `gate.go` says that an erroring
  candidate that retried blindly or refunded twice is still caught, because the harness
  records both as it runs. `bench/run.go` fills them in after the verdict: an agent that
  refunds twice and then errs is reported without refunds, and the gate passes it.
  `GateHoldsTheLine` is therefore stated of the recorded results.

Bounds. `fencing`: three tokens (a holder, a successor, a third to overtake both),
two writes and one recorded rejection, expiries on either side of every clock reading;
the two sessions of one worker are interchangeable.
`fleet`: two deliveries, up to four disturbances together, which lets a crash, a
late renewal, a lost acknowledgement and a local command all fall on one claim.
`fleet_liveness`: five profiles of disturbances, in which each kind happens and a local
command meets a stop, a crash and a late renewal in turn.
`dispatch`: four call IDs, so that a rule can start at the second call, fire, be
given back and meet its limit, and a rule that fires twice can open two issues, one of
which is then moved; call IDs are interchangeable. `runner`: two answered
turns with up to two calls, two steps per execution, three executions by two
interchangeable processes, so that a run can pause, be resumed, crash and be taken
over. `fork`: one fork, by one process per run; the parent pauses after each turn and
is resumed once, so it can be forked while paused, while it goes on, and when it is
over; the child has two turns. Completed or exhausted runs may rest, so deadlock is
not an error in `fencing`, `fleet`, `runner`, `fork`, `scenario`, `provider` and
`reports`; in `dispatch` a call can always be repeated and deadlock is checked.
`scenario`: 5,851 configurations, each a deterministic run with the shipped budget of 20
turns; rules fire once or twice, from the first, second or third call on. `provider`: two
turns of two attempts, with the shipped deadline and delays and a status of 999 among the
answers, so that an interrupted turn
can be followed by another; one unit of output over the limit. `reports`: suites of one or
two cases, up to two trials, two calls over all trials of a suite, baselines of every pair
of five kinds of trial, tolerances of none and one half. Two trials are what tells a fold
of all from a fold of one, and an order from another.

Fairness. Only `EveryRunSettles` needs it. `FairSpec` is weakly fair to time, to
the steps of a process that is up (executing, renewing, settling) and to a
worker's polling, which are loops or tickers in `worker.go` that wait on nothing
else. Nothing is assumed about starting, stopping or crashing; the property itself
asks that some worker be up again and again, and the bounds say that disturbances end.

## 5. Proofs

Eight modules hold proofs. Each is about the component it extends, with no bound on its
constants. What is assumed of the constants is stated, named, in the modules that
declare them, and evaluated by TLC on every run: their types, and

* `Fencing`: the empty owner is not an owner;
* `Dispatch`, `Runner`: a configuration is one a run can be created with (`Creatable`),
  its rules numbered from 1, its compiled operations with names (`compiler.go:117`
  demands an operation ID); a turn's calls are a list, which may be empty; the calls a
  caller may make are finitely many;
* `Dispatch`, `WorldsAssumption`: amounts are whole cents, what was charged is not
  negative, the seed's rows have keys and its issues are open, as a compiled world has
  them (`cents` columns, primary keys), and `SEED` is not the ID of a run;
* `Dispatch`, `IssueNames`: the ID of a new issue is six bytes of a hash over run and call,
  or over run, rule and match (`ticketing.go:177`, `dispatch.go:308`), and no two of the rows
  a configuration can write have the same, nor that of a seeded issue. Nothing is asked of
  how often a rule fires. In the code a collision would be a refused insert;
* `Provider`: servers answer with statuses net/http can read, 1 to 999.

**`FencingProofs`**: `TypeCorrect`, `TokensAreUnique`, `LedgerIsOrdered`,
`CommittedIsHighWater`, `OwnershipIsGapless`, and `Refinement` (`Fencing` implements
`FencedLog`). None of the invariants is inductive. `IInv` adds what an open transaction
relies on: every transaction past its locking read holds the row (`LockDiscipline`), a
guard that passed is still true when the body commits (`GuardHolds`), the sequence number
an appender read is still the next one (`SeqHolds`), no token above the row's fence was
handed out (`GrantsBelowFence`), nothing was written above `committed_fence`
(`LedgerBelowCommitted`). One lemma per situation (a transaction ends, takes the free
lock, commits under the lock) and one step per action. The refinement needs `GuardHolds`
for the write and `LockDiscipline` for the acquisition; everything else stutters.

Also in `FencingProofs`: `OwnershipTellsHolder` (`AuditTrail`) and `LedgerSurvivesRepair`
(`LedgerOrdered` under `SpecWithRepair`). The first needs that the last acquisition in the
log that no release follows is the lease row's, which every appender preserves because it
holds the lock from its read of the row to its entry; of a claim it needs only that one
which saw an expired owner saw a row that had been acquired, however stale its reading. The second cannot use that tokens
are unique, which a repair breaks: `LedgerInv` keeps only what is left, that
`committed_fence` bounds the ledger and that a passed guard is at or above it.

**`FleetProofs`**: `TypeCorrect`, `ExecutorIsSole`, `DeliveriesAreBounded`,
`LiveHoldersAreListed`, and the action properties `CompletionStays` and
`FinishedTellsTruth`. The steps of the fleet fall into a few kinds (a lease begins, moves,
ends, or time passes: `StepKinds`), and each part of the invariant is proved per kind:
`LeaseInv` (tokens of a run are unique; a process that believes in its lease has the newest
one, and the row lasts at least as long as the belief), `SeenIsCurrent` (what the holder of
the newest token read of the run's status is still so), `CountInv` (executions since the
last enqueue are within the delivery count, and the one a current worker is in is counted,
so that giving it back is sound) and `ListingInv` (a worker that is up is registered).

**`ToolCallProofs`**: `CallIsBracketed`. `Invoke` is a pipeline of stages; one lemma per
stage says that the rows are still those of a run with a call under way (`Underway`: the
ledger has only grown, by events of the inner kinds; results, transcript and run row are
untouched). Where induction would be used, the proofs take the least element of a set
of naturals (`LeastNat`, from the library's well-foundedness theorem).

**`CallLedgerProofs`, `DispatchProofs`**: `AnsweredOnce` (`OneAnswerPerCall`),
`CountersTellLedger` (`ChaosCountersMatchLedger`), `TimeoutsKeepWrites`
(`LostResponsesAreKept`). The properties hold between calls and not inside one: between
`Decide` and the event it leads to, a rule has counted an injection that the ledger does
not show. The stage lemmas therefore carry the debt (`Tallied` with the rule that is owed
an event), and the first stages carry that nothing was written yet (`Quiet`), the later
ones that what the answer says is what was done (`Honest`). The invariants between calls
are `Answering` (no bracket and no message without a result), `Balanced` and `Accounted`.

**`BooksProofs`**: `BooksKept`, `BooksAreBalanced` (`BooksBalance`), `WritesArePermitted`
(`NoWriteAfterRevocation`), `ReadsAreTrue` (`ReadsTellTheWorld`). The balance of one call is not inductive: a row written twice
under one name, or a second issue of the same name, would be lost in a set that the ledger
counts. `Kept` therefore says which names are in use (`KnownRows`): rows of the agent are
named after answered calls, rows of an actor after a rule and one of the injections it has
counted, so that the next call and the next injection give new ones, and with `IssueNames`
new issue IDs; that a rule has matched no more often than call IDs were answered keeps its
rows among those the assumption speaks of. One lemma per table
says what a handler that reports a write did to it (`Reports`, proved for each operation
of the four services), and another what the event it leads to adds to the books
(`MoveBooks`, `AccountBooks` and so on); `CallGoes` describes a whole call as a passed or refused request,
an actor's writes, and the agent's write with its answer. The sum over a charge's refunds
is a recursive function over a prefix of the ledger; that it exists, and that an event adds
its amount or nothing, is proved with the least-number principle. For the second theorem
`Guarded` says that every call number has its audit event, and of each committed write
that it was granted and not revoked at the number the audits before it count up to
(`Licensed`), and that what it touched is in scope (`InScope`). The scope of an issue is a lookup in the
world, so the proof needs that issues are never removed and keep project and account
(`IssuesLast`). The third theorem is about what reads show, and a stale answer comes from a
snapshot, not from the ledger: `ReadsRight` ties the two together. `SnapshotsRight` says
that a stored charge is the charge at the first read with its arguments that ran
(`RanAt`), `Observed` that every `stale_read` rule has a snapshot of whatever ran, so that
a new snapshot is only made when nothing ran before and is itself the first. The stage
lemmas say what a call was told and what it left (`CallTold`): something that is no
charge, a snapshot's answer, or the handler's, shown or hidden. That a
place in the past keeps its total is `TotalPrefix`, and that its call is never asked again
comes from `Accounted`.

**`RunnerProofs`**: `OwnerResumes`, `HistoryOnlyGrows`, `CompletedRunsAnswered`,
`LedgersAreListable`. The
strengthening is that the process with the newest fence has a current view: its copies of
transcript, step and pending turn are the stored ones, and an abandoned request in the
ledger is the one this transcript leads to. Of any other process nothing is needed, since
its guarded writes fail. For `EveryCallAnswered`, which speaks of the order of answers as
well as of their number, it is `Conversed`: a call ID
asks for one call, the answered IDs are those of the results and were all asked, and a run
is completed only with nothing pending.

For `CheckpointsListable` it is `Fits`. `Grammatical` says what the scan of an untroubled
ledger has found at its end: a model call is open exactly if the last event is a request,
no tool call is, and the turns counted are the step of the run. The scan is a recursive
function, so the invariant carries the function itself, `IsScan` position by position;
each write extends it explicitly (`ScanGrows`), and `ScanIs` shows that there is only one,
the one List computes. That nobody writes a second request, a call or a pause over an open
request needs to know where each owner stands: it took its branch for a reason
(`ReadFits`), and after a turn of its own no request is open (`LastFits`), so only an
execution that has not used a turn can meet an abandoned request, and that one does not
pause. Of a run with a recorded failure nothing is claimed (section 4).

**`ProviderProofs`**: `CancelledCallsEnd`, `AgentsLeaveNothing`, `ResponsesAreRecorded`,
`PlaybackIsFaithful`.
`LateInv` adds that an attempt begun for a caller who has gone is `Doomed`: a response it
gets is cut, so its only outcome is the cancellation, which ends the run. `ExecInv` says
where agent, helper and container can be at each stage of a turn. `RecordInv` says what a
recording is between two writes, torn or with a status the loader refuses included; the responses handed on are matched with lines by
counting the answered lines up to each, which is why the property is stated that way.

For `PlaybackFaithful` it is `PlayInv`. While recording, every turn of the ledger has its
lines in the file: there is a function `start` that gives the first line of each turn and
grows with the ledger (`Taped`, `TapedTurn`), a turn with no interruption is one line
asked with the transcript before it and judged to be that turn, and a turn with one is two
(`Taken`); the call under way stands after its own lines (`UnderWay`). A failed write only
ever leads to the end of the run (`Dead`), so a completed run has all of this and its
cassette opens (`CassetteOpens`). The replay is at line `start[j]` of turn `j`, one further
after an interruption (`InStep`). `TurnJudgedAgain` and `InterruptionJudgedAgain` say that
a line is judged as its trip was, unless it was a deadline or carries a date; from the turn
on which the transcript drifts the next line is always a question of another length
(`OtherRequest`, `LongerTranscript`), so both attempts fail and the turn is an error. `IdleInv` says that a blank command never
starts a process and never gets a turn; `TimedInv` that a line with an unreadable status is
followed by a turn only when its attempt had passed the deadline, which is the one way a
completed run can have a cassette that does not open.

Only model-checked, and why:

* `EveryRunSettles`: liveness under fairness is out of the prover's reach.
* `ReplayVerifies` and the properties of `Fork`: they say what a
  re-execution of the whole ledger computes, a recursive function of it.
* `Scenario` and `Reports`: finite sets of fixtures and suites, which the runs enumerate.

## 6. Findings and observations

`PROJECT.json` records three findings, each shown by a run: a fork may have both a legacy
fault and a chaos policy (`fork_fault`), the careful company fixture may loop on a
refused amount (`scenario_refused`), and the gate does not see what an errored trial did
(`gate_errored`). Smaller things met while modelling, which no run
shows:

* A server that answers with a status above 599 makes a recording that no replay accepts
  (section 4); an agent command of a quoted empty word is accepted and then refused on
  every attempt (`cmd/twinwright/providers.go:378`, `agent/exec.go:241`).
* A case `x` with two trials uses the databases `x-1.db` and `x-2.db` (`bench/run.go:203`),
  and a case named `x-1` uses and first removes `x-1.db`; the first then loses the
  database its report points to.
* `bench/modes.go:127` names the company world's write `billing.createRefund`, while the
  operation is `createRefund` in that manifest too; the stale worker's attempt is refused
  in either case, by its fence.
* `worker/worker.go:381`: when reading back a completed run fails on its last delivery,
  the queue says failed and the run says completed. Nothing promises that they agree.

## 7. Not modelled

* Trace export, the queue and lease rows as separate PostgreSQL locks, and migrations
  with their advisory lock have state worth a model and are left (section 2).
* The assertion language, the world compiler, intervention and policy files: parsing and
  validation of documents; of policies and suites the rules on what they say are
  modelled, not their text.
* Redaction, masking of secrets, container arguments, the placeholder rewriter, report
  formats, fork comparison and most of the command line: text in, text out.
* Metrics, performance workloads, shadow comparison and the demo read or drive the parts
  above and keep nothing.

Within the modelled parts: a malformed body is one value, HTTP redirects and the
contents of requests are left out, a prefix digest is the prefix.
`PROJECT.json` gives the reason for each component.
