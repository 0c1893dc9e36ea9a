------------------------------- MODULE RunRows --------------------------------
(***************************************************************************)
(* What the agent loop reads from and writes to a run's rows: the pure     *)
(* helpers of internal/agent/runner.go and the bodies of the guarded       *)
(* writes of internal/store/guarded.go.  Shared by Runner, which runs the  *)
(* loop in crashing and competing processes, and Replay, which runs the    *)
(* recorded turns again in one.                                            *)
(*                                                                         *)
(* A transcript is a sequence of assistant messages, each with its tool    *)
(* calls, and tool messages, each naming the call it answers.              *)
(***************************************************************************)
EXTENDS ToolCall, SequencesExt

providerAttempts == 2

(* A provider's turn with the attempts that produced nothing before it. *)
Turn(role, calls, interruptions) ==
    [role |-> role, calls |-> calls, interruptions |-> interruptions]

AssistantAt(history) == {i \in DOMAIN history : history[i].role = "assistant"}

Answered(history) ==
    {history[i].call : i \in {j \in DOMAIN history : history[j].role = "tool"}}

(* The calls of a transcript, as positions <<message, call>>. *)
CallsAt(history) ==
    UNION {{<<i, j>> : j \in DOMAIN history[i].calls} : i \in AssistantAt(history)}

CallAt(history, at) == history[at[1]].calls[at[2]]

Unsettled(history) == {at \in CallsAt(history) : CallAt(history, at).id \notin Answered(history)}

Earlier(a, b) == a[1] < b[1] \/ (a[1] = b[1] /\ a[2] <= b[2])

HasPending(history) == Unsettled(history) # {}

(* pending: the first call that no tool message answers. *)
pending(history) ==
    CallAt(history, CHOOSE a \in Unsettled(history) : \A b \in Unsettled(history) : Earlier(a, b))

(* The last turn asked for nothing more. *)
IsFinal(history) ==
    /\ history # << >>
    /\ history[Len(history)].role = "assistant"
    /\ history[Len(history)].calls = << >>

(* An empty ID names nothing. *)
NoName == ""

CallIdsIn(history) == {CallAt(history, at).id : at \in CallsAt(history)}

(* Mutant: IDs of earlier turns are not looked at. *)
MutValidateThisTurnOnly(ops, history, next) ==
    /\ \A j \in DOMAIN next.calls : next.calls[j].op \in ops /\ next.calls[j].id # NoName
    /\ \A j, k \in DOMAIN next.calls : next.calls[j].id = next.calls[k].id => j = k

(* validateCalls: compiled operations, and named calls new to the run. *)
validateCalls(ops, history, next) ==
    /\ \A j \in DOMAIN next.calls :
          /\ next.calls[j].op \in ops
          /\ next.calls[j].id # NoName
          /\ next.calls[j].id \notin CallIdsIn(history)
    /\ \A j, k \in DOMAIN next.calls : next.calls[j].id = next.calls[k].id => j = k

(* The request is a function of the transcript and the operations offered; *)
(* the task, provider and model never change.                              *)
ModelRequest(history, exposed) ==
    [type |-> "model.request", history |-> history, exposed |-> exposed]

Interrupted(n) == [k \in 1..n |-> [type |-> "provider.interrupted", attempt |-> k]]

(* Mutant: the recorded turn forgets the attempts before it. *)
MutModelResponseForgets(next) ==
    [type |-> "model.response", role |-> next.role, calls |-> next.calls, interruptions |-> 0]

ModelResponse(next) ==
    [type |-> "model.response", role |-> next.role, calls |-> next.calls,
     interruptions |-> next.interruptions]

EmitAll(db, events) == [db EXCEPT !.events = @ \o events]

(* The events of an answered request: its interruptions, then the turn. *)
Answering(next) == Interrupted(next.interruptions) \o <<ModelResponse(next)>>

(* SaveTurnGuarded's body.  The transcript and the step are the caller's,  *)
(* computed from what it read before the model was called.                 *)
SaveTurn(db, step, history, next) ==
    [EmitAll(db, Answering(next)) EXCEPT
        !.step = step + 1,
        !.transcript = Append(history, [role |-> "assistant", calls |-> next.calls]),
        !.status = "running"]

(* FailModelTurnGuarded's body. *)
FailModelTurn(db, next) ==
    [EmitAll(db, Append(Answering(next), [type |-> "error", kind |-> "provider"])) EXCEPT
        !.status = "failed"]

(* SaveStatusGuarded's body. *)
SaveStatus(db, status, event) == Emit([db EXCEPT !.status = status], event)

(* Errors that end an attempt, as against the injected fault a run is      *)
(* meant to meet.                                                          *)
Failures(db) ==
    {k \in DOMAIN db.events : db.events[k].type = "error" /\ db.events[k].kind # "injected_503"}

(* A result that also needs what went before it to have worked. *)
After(ok, r) == [r EXCEPT !.ok = ok /\ @]

Succeeded(db) == [ok |-> TRUE, db |-> db]

(* A recorded turn as it was given to the loop. *)
RecordedTurn(message) == Turn(message.role, message.calls, message.interruptions)
===============================================================================
