------------------------------ MODULE Checkpoint ------------------------------
(***************************************************************************)
(* checkpoint.List as a reader of a run's ledger: it scans the events once *)
(* and refuses a ledger whose model and tool actions overlap, stay open or *)
(* do not match the run row.  Reconstruct carries a prefix out again.      *)
(***************************************************************************)
EXTENDS RunRows

Scan(ok, model, tool, turns) == [ok |-> ok, model |-> model, tool |-> tool, turns |-> turns]

(* The tool call that is open, or none. *)
NoTool == {}

OpenTool(e) == {[call |-> e.call, op |-> e.op]}

InsideTool == {"state.mutation", "retry", "chaos.injected", "chaos.actor_mutation",
               "authorization.allowed", "authorization.denied"}

(* One event of the scan, at position i of n. *)
ScanEvent(s, e, i, n) ==
    LET refuse == [s EXCEPT !.ok = FALSE]
        busy == s.model \/ s.tool # NoTool
    IN  CASE i = 1 \/ e.type = "execution.started" ->
                IF i = 1 /\ e.type = "execution.started" THEN s ELSE refuse
          [] e.type = "model.request" -> IF busy THEN refuse ELSE [s EXCEPT !.model = TRUE]
          [] e.type = "model.response" ->
                IF ~s.model \/ s.tool # NoTool \/ e.role # "assistant" THEN refuse
                ELSE [s EXCEPT !.model = FALSE, !.turns = @ + 1]
          [] e.type = "tool.request" ->
                IF busy \/ e.call = NoName \/ e.op = NoName THEN refuse
                ELSE [s EXCEPT !.tool = OpenTool(e)]
          [] e.type = "provider.interrupted" -> IF s.model THEN s ELSE refuse
          [] e.type \in InsideTool -> IF s.tool # NoTool THEN s ELSE refuse
          [] e.type = "error" -> IF s.tool # NoTool /\ e.kind = "injected_503" THEN s ELSE refuse
          [] e.type = "tool.response" ->
                IF s.tool = OpenTool(e) THEN [s EXCEPT !.tool = NoTool] ELSE refuse
          [] e.type = "execution.paused" -> IF busy THEN refuse ELSE s
          [] e.type = "execution.completed" -> IF busy \/ i # n THEN refuse ELSE s
          [] OTHER -> refuse

ScanLedger(events) ==
    LET n == Len(events)
        after[i \in 0..n] ==
            IF i = 0 THEN Scan(TRUE, FALSE, NoTool, 0) ELSE ScanEvent(after[i - 1], events[i], i, n)
    IN  after[n]

(* List returns the restore boundaries of a paused or completed run, not   *)
(* an error.                                                               *)
Listable(db) ==
    LET s == ScanLedger(db.events)
        last == db.events[Len(db.events)].type
    IN  /\ s.ok /\ ~s.model /\ s.tool = NoTool
        /\ s.turns = db.step
        /\ db.status = "paused" => last = "execution.paused"
        /\ db.status = "completed" => last = "execution.completed"

(* The boundaries List returns, by event sequence. *)
Boundary == {"model.response", "tool.response", "execution.paused", "execution.completed"}

List(db) ==
    {n \in DOMAIN db.events :
        /\ db.status \in {"paused", "completed"}
        /\ Listable(db)
        /\ db.events[n].type \in Boundary}

(***************************************************************************)
(* Reconstruct: the prefix of a ledger up to a checkpoint, carried out     *)
(* again on a fresh run of the same configuration.                         *)
(***************************************************************************)
RecordedCall(e) ==
    [id |-> e.call, op |-> e.op, target |-> e.args.target, amount |-> e.args.amount,
     text |-> e.args.text, schema |-> e.args.schema]

(* Mutant: the attempts before a recorded turn are not carried over. *)
MutCarryOutForgets(cfg, db, e) ==
    CASE e.type = "model.request" ->
            [ok |-> e = ModelRequest(db.transcript, Exposed(cfg, db)), db |-> Emit(db, e)]
      [] e.type = "model.response" ->
            Succeeded(SaveTurn(db, db.step, db.transcript, Turn(e.role, e.calls, 0)))
      [] e.type = "tool.request" -> Invoke(cfg, db, RecordedCall(e))
      [] e.type = "execution.paused" -> Succeeded(SaveStatus(db, "paused", e))
      [] e.type = "execution.completed" -> Succeeded(SaveStatus(db, "completed", e))
      [] OTHER -> Succeeded(db)

(* The events inside a tool call, and the interruptions before a turn, are *)
(* written again by the call and the turn.                                 *)
CarryOut(cfg, db, e) ==
    CASE e.type = "model.request" ->
            [ok |-> e = ModelRequest(db.transcript, Exposed(cfg, db)), db |-> Emit(db, e)]
      [] e.type = "model.response" ->
            Succeeded(SaveTurn(db, db.step, db.transcript, RecordedTurn(e)))
      [] e.type = "tool.request" -> Invoke(cfg, db, RecordedCall(e))
      [] e.type = "execution.paused" -> Succeeded(SaveStatus(db, "paused", e))
      [] e.type = "execution.completed" -> Succeeded(SaveStatus(db, "completed", e))
      [] OTHER -> Succeeded(db)

Rebuild(cfg, events) ==
    FoldLeft(LAMBDA run, e : After(run.ok, CarryOut(cfg, run.db, e)),
             Succeeded(NewRun(cfg)), Tail(events))

(* What is rebuilt has the recorded events, saved results and transcript. *)
MatchesPrefix(run, db, n) ==
    /\ run.ok
    /\ run.db.events = SubSeq(db.events, 1, n)
    /\ run.db.results \subseteq db.results
    /\ IsPrefix(run.db.transcript, db.transcript)

Reconstruct(cfg, db, n) == Rebuild(cfg, SubSeq(db.events, 1, n))
===============================================================================
