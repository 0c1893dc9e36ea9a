-------------------------------- MODULE Replay --------------------------------
(***************************************************************************)
(* replay.Verify: read the model turns back from a completed run's ledger, *)
(* run the agent loop over them in a fresh world with no process to        *)
(* compete with and no crash, and compare what it leaves with what is      *)
(* recorded.                                                               *)
(***************************************************************************)
EXTENDS RunRows

semantic ==
    {"model.request", "model.response", "tool.request", "tool.response", "state.mutation",
     "error", "retry", "chaos.injected", "chaos.actor_mutation", "authorization.allowed",
     "authorization.denied", "observation.overridden", "provider.interrupted"}

Semantic(events) == SelectSeq(events, LAMBDA e : e.type \in semantic)

Responses(events) == SelectSeq(events, LAMBDA e : e.type = "model.response")

Requests(events) == SelectSeq(events, LAMBDA e : e.type = "model.request")

(* recordedMessages accepts the ledger of a run that begins with an event  *)
(* of type `start': an original one or a fork.                             *)
Readable(db, start) ==
    LET events == db.events
        n == Len(events)
    IN  /\ events[1].type = start
        /\ events[n].type = "execution.completed"
        /\ \A i \in 1..n :
              /\ events[i].type \in {"execution.started", "execution.forked"} => i = 1
              /\ events[i].type = "observation.overridden" => i = 2 /\ start = "execution.forked"
              /\ events[i].type = "execution.completed" => i = n
              /\ events[i].type = "model.response" => events[i].role = "assistant"
              /\ events[i].type = "error" => events[i].kind = "injected_503"
        /\ Len(Requests(events)) = Len(Responses(events))
        /\ start = "execution.started" => Responses(events) # << >>

(* The calls a transcript leaves unanswered are those of its last turn. *)
PendingCalls(history) ==
    LET last == history[Max(AssistantAt(history))].calls
    IN  IF AssistantAt(history) = {} THEN << >>
        ELSE SelectSeq(last, LAMBDA call : call.id \notin Answered(history))

(* The loop dispatches what is pending before it asks the model again. *)
RunPending(cfg, db) ==
    FoldLeft(LAMBDA run, call : After(run.ok, Invoke(cfg, run.db, call)),
             Succeeded(db), PendingCalls(db.transcript))

(* One recorded turn through the loop: request, answer, its calls. *)
ReplayTurn(cfg, db, next) ==
    After(validateCalls(cfg.ops, db.transcript, next) /\ ~IsFinal(db.transcript),
          RunPending(cfg, SaveTurn(Emit(db, ModelRequest(db.transcript, Exposed(cfg, db))),
                                   db.step, db.transcript, next)))

(* The run again, from the rows it started with. *)
Reexecute(cfg, start, messages) ==
    FoldLeft(LAMBDA run, message : After(run.ok, ReplayTurn(cfg, run.db, RecordedTurn(message))),
             RunPending(cfg, start), messages)

(* The comparison: semantic events, saved results, chaos state, transcript *)
(* and the world's tables.                                                 *)
Agrees(again, db) ==
    /\ Semantic(again.events) = Semantic(db.events)
    /\ again.results = db.results
    /\ again.callIndex = db.callIndex
    /\ again.rules = db.rules
    /\ again.snapshots = db.snapshots
    /\ again.hidden = db.hidden
    /\ again.transcript = db.transcript
    /\ again.world = db.world

(* The run again is also over. *)
Reproduces(run, db) == run.ok /\ IsFinal(run.db.transcript) /\ Agrees(run.db, db)

Verified(cfg, db) ==
    /\ Readable(db, "execution.started")
    /\ Reproduces(Reexecute(cfg, NewRun(cfg), Responses(db.events)), db)
===============================================================================
