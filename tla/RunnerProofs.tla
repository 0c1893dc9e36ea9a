----------------------------- MODULE RunnerProofs -----------------------------
(***************************************************************************)
(* Proofs about Runner, for every set of processes, configuration and      *)
(* provider: whoever crashes, is displaced or takes over, the owner of a   *)
(* run can resume it, nobody overwrites what is recorded, and the ledger   *)
(* keeps the grammar checkpoints are listed by.                            *)
(***************************************************************************)
EXTENDS Runner, ToolCallProofs, FiniteSetTheorems

(***************************************************************************)
(* The inductive invariant.                                                *)
(***************************************************************************)
ProcFields == {"pc", "token", "used", "step", "history", "next", "failed"}

(* An execution with a turn to save has a turn. *)
IsProc(x) ==
    /\ DOMAIN x = ProcFields
    /\ x.token \in Nat
    /\ x.pc = "save" => x.next.interruptions \in Nat /\ IsSeq(x.next.calls)

(* Past the read at the top of the loop. *)
Reading == {"dispatch", "failing", "complete", "pause", "request", "append", "provider",
            "save", "refused"}

(* Past the point where nothing is pending. *)
Asking == {"complete", "pause", "request", "append", "provider", "save", "refused"}

(* What an owner has read is still what is stored. *)
ViewIsCurrent(p) ==
    proc[p].pc \in Reading /\ Owns(p) =>
        /\ proc[p].history = db.transcript
        /\ proc[p].step = db.step
        /\ db.status # "completed"

(* The branch a process took fits the history it read. *)
BranchFits(p) ==
    /\ At(p, "dispatch") => HasPending(proc[p].history)
    /\ proc[p].pc \in Asking => ~HasPending(proc[p].history)

InOrder(p) ==
    /\ IsProc(proc[p])
    /\ proc[p].token <= fence
    /\ ViewIsCurrent(p)
    /\ BranchFits(p)
    /\ At(p, "refused") => ~Owns(p)

(* Two executions never share a token. *)
TokensUnique ==
    \A p, q \in Procs :
        p # q /\ ~At(p, "idle") /\ ~At(q, "idle") => proc[p].token # proc[q].token

(* An abandoned request is the one the stored transcript leads to. *)
AbandonedIsCurrent ==
    LastEvent.type = "model.request" => LastEvent = ModelRequest(db.transcript, Exposed(cfg, db))

RowsInv ==
    /\ cfg \in Configs
    /\ IsRun(db)
    /\ Len(db.events) > 0
    /\ AbandonedIsCurrent

ProcsInv ==
    /\ fence \in Nat
    /\ DOMAIN proc = Procs
    /\ \A p \in Procs : InOrder(p)
    /\ TokensUnique

IInv == RowsInv /\ ProcsInv

(***************************************************************************)
(* The processes.                                                          *)
(***************************************************************************)

(* A step of p is felt by others only through the rows and the fence. *)
LEMMA OthersInOrder ==
  ASSUME IInv, NEW p \in Procs, NEW q \in Procs, q # p, proc'[q] = proc[q],
         \/ UNCHANGED <<db, fence>>
         \/ fence' = fence + 1
         \/ fence' = fence /\ Owns(p) /\ ~At(p, "idle")
  PROVE  InOrder(q)'
<1>1. InOrder(q) /\ proc[q].token \in Nat /\ fence \in Nat
  BY DEF IInv, ProcsInv, InOrder, IsProc
<1>2. IsProc(proc[q])' /\ BranchFits(q)'
  BY <1>1 DEF InOrder, IsProc, BranchFits, At
<1>3. CASE UNCHANGED <<db, fence>>
  BY <1>1, <1>2, <1>3 DEF InOrder, ViewIsCurrent, Owns, At
<1>4. CASE fence' = fence + 1
  <2>1. ~Owns(q)' /\ proc[q].token <= fence'
    BY <1>1, <1>4 DEF InOrder, Owns
  <2> QED
    BY <1>2, <2>1 DEF InOrder, ViewIsCurrent
<1>5. CASE fence' = fence /\ Owns(p) /\ ~At(p, "idle")
  <2>1. At(q, "idle") \/ ~Owns(q)
    BY <1>5 DEF IInv, ProcsInv, TokensUnique, Owns
  <2>2. At(q, "idle")' \/ ~Owns(q)'
    BY <1>5, <2>1 DEF At, Owns
  <2>3. ViewIsCurrent(q)' /\ (At(q, "refused") => ~Owns(q))'
    BY <2>2 DEF ViewIsCurrent, At, Reading
  <2> QED
    BY <1>1, <1>2, <1>5, <2>3 DEF InOrder
<1> QED
  BY <1>3, <1>4, <1>5

(* What becomes of the processes when one of them takes a step. *)
LEMMA ProcsStep ==
  ASSUME IInv, NEW p \in Procs, DOMAIN proc' = Procs,
         \A q \in Procs : q # p => proc'[q] = proc[q],
         \/ UNCHANGED <<db, fence>>
         \/ fence' = fence + 1
         \/ fence' = fence /\ Owns(p) /\ ~At(p, "idle"),
         \/ At(p, "idle")'
         \/ ~At(p, "idle") /\ proc'[p].token = proc[p].token
         \/ proc'[p].token = fence + 1,
         InOrder(p)'
  PROVE  ProcsInv'
<1>1. \A q \in Procs : InOrder(q)'
  BY OthersInOrder
<1>2. fence \in Nat /\ fence' \in Nat
  BY DEF IInv, ProcsInv
<1>3. \A q \in Procs : proc[q].token \in Nat /\ proc[q].token <= fence
  BY DEF IInv, ProcsInv, InOrder, IsProc
<1>4. ASSUME NEW q \in Procs, q # p, ~At(p, "idle")', ~At(q, "idle")'
      PROVE  proc'[p].token # proc'[q].token
  <2>1. proc'[q].token = proc[q].token /\ ~At(q, "idle")
    BY <1>4 DEF At
  <2>2. CASE ~At(p, "idle") /\ proc'[p].token = proc[p].token
    BY <1>4, <2>1, <2>2 DEF IInv, ProcsInv, TokensUnique
  <2>3. CASE proc'[p].token = fence + 1
    BY <1>2, <1>3, <2>1, <2>3
  <2> QED
    BY <1>4, <2>2, <2>3
<1>5. ASSUME NEW q \in Procs, NEW r \in Procs, q # r, q # p, r # p, ~At(q, "idle")', ~At(r, "idle")'
      PROVE  proc'[q].token # proc'[r].token
  BY <1>5 DEF IInv, ProcsInv, TokensUnique, At
<1>6. TokensUnique'
  BY <1>4, <1>5 DEF TokensUnique
<1> QED
  BY <1>1, <1>2, <1>6 DEF ProcsInv

(* An execution that ends leaves nothing to keep in order. *)
LEMMA LeaveStep ==
  ASSUME IInv, NEW p \in Procs, Leave(p),
         UNCHANGED <<db, fence>> \/ (fence' = fence /\ Owns(p) /\ ~At(p, "idle"))
  PROVE  ProcsInv'
<1>1. DOMAIN proc' = Procs /\ proc'[p] = Idle /\ \A q \in Procs : q # p => proc'[q] = proc[q]
  BY DEF Leave, IInv, ProcsInv
<1>2. InOrder(p)'
  <2>1. IsProc(Idle) /\ Idle.pc = "idle" /\ Idle.token = 0
    BY DEF IsProc, Idle, ProcFields
  <2>2. fence' \in Nat
    BY DEF IInv, ProcsInv
  <2>3. IsProc(proc[p])' /\ proc'[p].token <= fence'
    BY <1>1, <2>1, <2>2
  <2>4. ViewIsCurrent(p)' /\ BranchFits(p)' /\ ~At(p, "refused")'
    BY <1>1, <2>1 DEF ViewIsCurrent, BranchFits, At, Reading, Asking
  <2> QED
    BY <2>3, <2>4 DEF InOrder
<1>3. At(p, "idle")'
  BY <1>1 DEF At, Idle
<1> QED
  BY <1>1, <1>2, <1>3, ProcsStep

(* What Goto does. *)
LEMMA GotoFacts ==
  ASSUME IInv, NEW p \in Procs, NEW pc, Goto(p, pc), pc # "save"
  PROVE  /\ DOMAIN proc' = Procs
         /\ \A q \in Procs : q # p => proc'[q] = proc[q]
         /\ IsProc(proc'[p])
         /\ proc'[p].pc = pc /\ proc'[p].token = proc[p].token
         /\ proc'[p].history = proc[p].history /\ proc'[p].step = proc[p].step
<1>1. DOMAIN proc = Procs /\ IsProc(proc[p])
  BY DEF IInv, ProcsInv, InOrder
<1>2. proc'[p] = [proc[p] EXCEPT !.pc = pc]
  BY <1>1 DEF Goto
<1>3. /\ DOMAIN proc'[p] = ProcFields
      /\ proc'[p].pc = pc /\ proc'[p].token = proc[p].token
      /\ proc'[p].history = proc[p].history /\ proc'[p].step = proc[p].step
  BY <1>1, <1>2 DEF IsProc, ProcFields
<1>4. DOMAIN proc' = Procs /\ \A q \in Procs : q # p => proc'[q] = proc[q]
  BY <1>1 DEF Goto
<1> QED
  BY <1>1, <1>3, <1>4 DEF IsProc

(***************************************************************************)
(* The rows.                                                               *)
(***************************************************************************)

(* t begins with s. *)
Begins(s, t) ==
    /\ Len(s) <= Len(t)
    /\ \A i \in 1..Len(s) : t[i] = s[i]

(* e is d with something written to it, and nothing overwritten. *)
Extended(d, e) ==
    /\ IsRun(e)
    /\ Len(e.events) > 0
    /\ Begins(d.events, e.events)
    /\ Begins(d.transcript, e.transcript)
    /\ d.results \subseteq e.results
    /\ d.world.refunds \subseteq e.world.refunds

LastOf(d) == d.events[Len(d.events)]

(* A sequence begins with itself, an appended or a concatenated one with   *)
(* what it was made from.                                                  *)
LEMMA BeginsFacts ==
  ASSUME NEW s, IsSeq(s), NEW e, NEW t, IsSeq(t)
  PROVE  Begins(s, s) /\ Begins(s, Append(s, e)) /\ Begins(s, s \o t)
<1>1. Len(s) \in Nat /\ Begins(s, Append(s, e))
  BY AppendFacts DEF Begins
<1>2. Begins(s, s \o t)
  BY ConcatFacts DEF Begins
<1> QED
  BY <1>1, <1>2 DEF Begins

(* Begins is the library's prefix relation. *)
LEMMA BeginsIsPrefix ==
  ASSUME NEW s, IsSeq(s), NEW t, IsSeq(t), Begins(s, t)
  PROVE  IsPrefix(s, t)
<1>1. Len(s) \in Nat /\ Len(t) \in Nat
  BY AppendFacts
<1>2. SubSeq(s, 1, Len(s)) = SubSeq(t, 1, Len(s))
  BY <1>1 DEF Begins
<1> QED
  BY <1>1, <1>2 DEF IsPrefix, Begins

(* An event is emitted. *)
LEMMA EmitWrites ==
  ASSUME NEW d, IsRun(d), NEW e
  PROVE  /\ Extended(d, Emit(d, e)) /\ LastOf(Emit(d, e)) = e
         /\ Emit(d, e).callIndex = d.callIndex
         /\ SameRecord(d, Emit(d, e))
<1> DEFINE f == Emit(d, e)
<1>1. /\ IsRun(f) /\ f.events = Append(d.events, e) /\ f.world = d.world
      /\ f.callIndex = d.callIndex /\ SameRecord(d, f)
  BY EmitFacts
<1> HIDE DEF f
<1>2. IsSeq(d.events) /\ IsSeq(d.transcript)
  BY DEF IsRun
<1>3. Len(d.events) \in Nat /\ Len(f.events) = Len(d.events) + 1 /\ LastOf(f) = e
  BY <1>1, <1>2, AppendFacts DEF LastOf
<1>4. Begins(d.events, f.events) /\ Begins(d.transcript, f.transcript)
  BY <1>1, <1>2, BeginsFacts DEF SameRecord
<1>5. Extended(d, f)
  BY <1>1, <1>3, <1>4 DEF Extended, SameRecord
<1> QED
  BY <1>1, <1>3, <1>5 DEF f

(* SaveStatusGuarded writes a status and an event. *)
LEMMA SaveStatusWrites ==
  ASSUME NEW d, IsRun(d), NEW status, NEW e
  PROVE  LET f == SaveStatus(d, status, e)
         IN  /\ Extended(d, f) /\ LastOf(f) = e
             /\ f.status = status /\ f.transcript = d.transcript /\ f.results = d.results
<1> DEFINE c == [d EXCEPT !.status = status]
<1>1. /\ DOMAIN c = Rows /\ c.events = d.events /\ c.world = d.world
      /\ c.snapshots = d.snapshots /\ c.transcript = d.transcript
      /\ c.results = d.results /\ c.status = status
  BY DEF IsRun, Rows
<1> HIDE DEF c
<1>2. IsRun(c)
  BY <1>1 DEF IsRun
<1>3. Extended(c, Emit(c, e)) /\ LastOf(Emit(c, e)) = e /\ SameRecord(c, Emit(c, e))
  BY <1>2, EmitWrites
<1>4. Extended(d, Emit(c, e))
  BY <1>1, <1>3 DEF Extended
<1> QED
  BY <1>1, <1>3, <1>4 DEF SaveStatus, SameRecord, c

(* The events of an answered request are a sequence ending in the answer. *)
LEMMA AnsweringFacts ==
  ASSUME NEW next, next.interruptions \in Nat
  PROVE  LET a == Answering(next)
         IN  IsSeq(a) /\ Len(a) \in Nat /\ Len(a) > 0 /\ a[Len(a)] = ModelResponse(next)
<1> DEFINE n == next.interruptions
           s == Interrupted(n)
           e == ModelResponse(next)
<1>1. IsSeq(s)
  <2> DEFINE E == {[type |-> "provider.interrupted", attempt |-> k] : k \in 1..n}
  <2>1. \A k \in 1..n : [type |-> "provider.interrupted", attempt |-> k] \in E
    OBVIOUS
  <2> HIDE DEF E
  <2>2. s \in Seq(E)
    BY <2>1 DEF Interrupted
  <2> QED
    BY <2>2 DEF IsSeq
<1> HIDE DEF s, e
<1>2. IsSeq(<<e>>) /\ Len(<<e>>) = 1 /\ <<e>>[1] = e
  BY ShortSeqs
<1>3. /\ IsSeq(s \o <<e>>) /\ Len(s) \in Nat /\ Len(s \o <<e>>) = Len(s) + 1
      /\ (s \o <<e>>)[Len(s) + 1] = e
  BY <1>1, <1>2, ConcatFacts
<1>4. Answering(next) = s \o <<e>>
  BY DEF Answering, s, e
<1> QED
  BY <1>3, <1>4 DEF e

(* EmitAll emits a non-empty sequence of events. *)
LEMMA EmitAllWrites ==
  ASSUME NEW d, IsRun(d), NEW s, IsSeq(s), Len(s) \in Nat, Len(s) > 0
  PROVE  LET f == EmitAll(d, s)
         IN  /\ Extended(d, f) /\ LastOf(f) = s[Len(s)]
             /\ SameRecord(d, f)
<1> DEFINE f == EmitAll(d, s)
<1>1. /\ DOMAIN f = Rows /\ f.events = d.events \o s /\ f.world = d.world
      /\ f.snapshots = d.snapshots /\ SameRecord(d, f)
  BY DEF IsRun, Rows, SameRecord, EmitAll
<1> HIDE DEF f
<1>2. IsSeq(d.events) /\ IsSeq(d.transcript)
  BY DEF IsRun
<1>3. /\ IsSeq(d.events \o s) /\ Len(d.events) \in Nat
      /\ Len(f.events) = Len(d.events) + Len(s)
      /\ f.events[Len(d.events) + Len(s)] = s[Len(s)]
  <2>1. Len(s) \in 1..Len(s)
    OBVIOUS
  <2>2. \A t : IsSeq(t) =>
            /\ IsSeq(t \o s) /\ Len(t) \in Nat
            /\ Len(t \o s) = Len(t) + Len(s)
            /\ \A i \in 1..Len(s) : (t \o s)[Len(t) + i] = s[i]
    BY ConcatFacts
  <2>3. /\ IsSeq(d.events \o s) /\ Len(d.events) \in Nat
        /\ Len(d.events \o s) = Len(d.events) + Len(s)
        /\ \A i \in 1..Len(s) : (d.events \o s)[Len(d.events) + i] = s[i]
    BY <1>2, <2>2
  <2> QED
    BY <1>1, <2>1, <2>3
<1>4. IsRun(f)
  BY <1>1, <1>3 DEF IsRun, SameRecord
<1>5. Begins(d.events, f.events) /\ Begins(d.transcript, f.transcript)
  BY <1>1, <1>2, BeginsFacts DEF SameRecord
<1>6. Extended(d, f)
  BY <1>1, <1>3, <1>4, <1>5 DEF Extended, SameRecord
<1>7. LastOf(f) = s[Len(s)]
  BY <1>3 DEF LastOf
<1> QED
  BY <1>1, <1>6, <1>7 DEF f

AssistantEntry(next) == [role |-> "assistant", calls |-> next.calls]

(* SaveTurnGuarded, of a process whose view is current. *)
LEMMA SaveTurnWrites ==
  ASSUME NEW d, IsRun(d), NEW step, NEW next, next.interruptions \in Nat
  PROVE  LET f == SaveTurn(d, step, d.transcript, next)
         IN  /\ Extended(d, f) /\ LastOf(f) = ModelResponse(next)
             /\ f.status = "running" /\ f.results = d.results
             /\ f.transcript = Append(d.transcript, AssistantEntry(next))
<1> DEFINE c == EmitAll(d, Answering(next))
           f == SaveTurn(d, step, d.transcript, next)
<1>1. Extended(d, c) /\ LastOf(c) = ModelResponse(next) /\ SameRecord(d, c)
  BY AnsweringFacts, EmitAllWrites
<1>2. f = [c EXCEPT !.step = step + 1,
                    !.transcript = Append(d.transcript, AssistantEntry(next)),
                    !.status = "running"]
  BY DEF SaveTurn, AssistantEntry
<1> HIDE DEF c, f
<1>3. IsRun(c) /\ DOMAIN c = Rows
  BY <1>1 DEF Extended, IsRun
<1>4. /\ DOMAIN f = Rows /\ f.events = c.events /\ f.world = c.world
      /\ f.snapshots = c.snapshots /\ f.results = c.results /\ f.status = "running"
      /\ f.transcript = Append(d.transcript, AssistantEntry(next))
  BY <1>2, <1>3 DEF Rows
<1>5. IsSeq(f.transcript) /\ Begins(d.transcript, f.transcript)
  BY <1>4, AppendFacts, BeginsFacts DEF IsRun
<1>6. IsRun(f)
  BY <1>3, <1>4, <1>5 DEF IsRun
<1>7. Extended(d, f)
  BY <1>1, <1>4, <1>5, <1>6 DEF Extended
<1> QED
  BY <1>1, <1>4, <1>7 DEF f, LastOf, SameRecord

(* FailModelTurnGuarded. *)
LEMMA FailModelTurnWrites ==
  ASSUME NEW d, IsRun(d), NEW next, next.interruptions \in Nat
  PROVE  LET f == FailModelTurn(d, next)
         IN  /\ Extended(d, f) /\ LastOf(f).type = "error" /\ LastOf(f).kind = "provider"
             /\ f.status = "failed" /\ f.results = d.results /\ f.transcript = d.transcript
<1> DEFINE a == Answering(next)
           e == [type |-> "error", kind |-> "provider"]
           s == Append(a, e)
           c == EmitAll(d, s)
           f == FailModelTurn(d, next)
<1>1. IsSeq(a)
  BY AnsweringFacts
<1> HIDE DEF a
<1>2. /\ IsSeq(s) /\ Len(a) \in Nat /\ Len(s) = Len(a) + 1 /\ s[Len(a) + 1] = e
  BY <1>1, AppendFacts
<1>3. f = [c EXCEPT !.status = "failed"]
  BY DEF FailModelTurn, a
<1> HIDE DEF s, f
<1>4. Extended(d, c) /\ LastOf(c) = e /\ SameRecord(d, c)
  BY <1>2, EmitAllWrites
<1> HIDE DEF c, e
<1>5. IsRun(c) /\ DOMAIN c = Rows
  BY <1>4 DEF Extended, IsRun
<1>6. /\ DOMAIN f = Rows /\ f.events = c.events /\ f.world = c.world
      /\ f.snapshots = c.snapshots /\ f.results = c.results /\ f.status = "failed"
      /\ f.transcript = c.transcript
  BY <1>3, <1>5 DEF Rows
<1>7. IsRun(f)
  BY <1>5, <1>6 DEF IsRun
<1>8. Extended(d, f)
  BY <1>4, <1>6, <1>7 DEF Extended
<1> QED
  BY <1>4, <1>6, <1>8 DEF f, LastOf, SameRecord, e

(* A dispatched call. *)
LEMMA AnsweredWrites ==
  ASSUME NEW d, IsRun(d), NEW f, NEW call, NEW answer, AnsweredWith(d, f, call, answer)
  PROVE  Extended(d, f) /\ LastOf(f).type = "tool.response"
<1>1. IsSeq(d.events) /\ IsSeq(d.transcript)
  BY DEF IsRun
<1>2. Len(d.events) \in Nat
  BY <1>1, AppendFacts
<1>3. IsRun(f) /\ Len(f.events) \in Nat
  BY AppendFacts DEF AnsweredWith, IsRun
<1>4. Begins(d.transcript, f.transcript)
  BY <1>1, BeginsFacts DEF AnsweredWith
<1>5. Begins(d.events, f.events) /\ Len(f.events) > 0
  BY <1>2, <1>3 DEF AnsweredWith, Begins
<1>6. LastOf(f).type = "tool.response"
  BY DEF AnsweredWith, LastOf, ResponseEvent
<1> QED
  BY <1>3, <1>4, <1>5, <1>6 DEF AnsweredWith, Extended

(***************************************************************************)
(* Every step preserves the invariant, and overwrites nothing.             *)
(***************************************************************************)

(* What one step may do to the rows. *)
Preserves(d, e) ==
    /\ d.status = "completed" => e = d
    /\ e = d \/ Extended(d, e)

(* Nobody writes to the rows. *)
LEMMA RowsKept == ASSUME RowsInv, UNCHANGED <<cfg, db>> PROVE RowsInv' /\ Preserves(db, db')
  BY DEF RowsInv, Preserves, AbandonedIsCurrent, LastEvent, Exposed

(* The rows are extended by something other than a request. *)
LEMMA RowsExtended ==
  ASSUME RowsInv, UNCHANGED cfg, db.status # "completed", Extended(db, db'),
         LastOf(db').type # "model.request"
  PROVE  RowsInv' /\ Preserves(db, db')
  BY DEF RowsInv, Preserves, AbandonedIsCurrent, LastEvent, Extended, LastOf

(* The owner of a run past its read has the current view. *)
LEMMA OwnerView ==
  ASSUME IInv, NEW p \in Procs, proc[p].pc \in Reading, Owns(p)
  PROVE  /\ proc[p].history = db.transcript /\ proc[p].step = db.step
         /\ db.status # "completed"
  BY DEF IInv, ProcsInv, InOrder, ViewIsCurrent

(* Every step preserves the invariant and overwrites nothing. *)
LEMMA StepInv == IInv /\ Next => IInv' /\ Preserves(db, db')
<1> SUFFICES ASSUME IInv, Next PROVE IInv' /\ Preserves(db, db')
  OBVIOUS
<1> USE DEF IInv
<1>r. IsRun(db) /\ cfg \in Configs /\ DOMAIN cfg.chaos \subseteq Nat
  BY RunnerAssumption DEF RowsInv
<1>w. ASSUME NEW p \in Procs, proc[p].pc \in Reading \cup {"over", "loop"}, At(p, "idle") PROVE FALSE
  BY <1>w DEF At, Reading
<1>i. ASSUME NEW p \in Procs
      PROVE  /\ InOrder(p) /\ IsProc(proc[p]) /\ proc[p].token \in Nat /\ proc[p].token <= fence
             /\ fence \in Nat /\ DOMAIN proc = Procs /\ DOMAIN proc[p] = ProcFields
  BY DEF ProcsInv, InOrder, IsProc
<1>1. ASSUME NEW p \in Procs, Acquire(p) PROVE IInv' /\ Preserves(db, db')
  <2>1. RowsInv' /\ Preserves(db, db')
    BY <1>1, RowsKept DEF Acquire
  <2>2. PICK pc \in {"loop", "over"} :
            proc' = [proc EXCEPT ![p] = [Idle EXCEPT !.pc = pc, !.token = fence + 1]]
    BY <1>1 DEF Acquire
  <2> DEFINE x == [Idle EXCEPT !.pc = pc, !.token = fence + 1]
  <2>3. DOMAIN x = ProcFields /\ x.pc = pc /\ x.token = fence + 1
    BY DEF Idle, ProcFields
  <2> HIDE DEF x
  <2>4. proc' = [proc EXCEPT ![p] = x]
    BY <2>2 DEF x
  <2>5. /\ DOMAIN proc' = Procs /\ proc'[p] = x
        /\ \A q \in Procs : q # p => proc'[q] = proc[q]
    BY <1>i, <2>4
  <2>6. fence' = fence + 1
    BY <1>1 DEF Acquire
  <2>7. IsProc(proc'[p]) /\ proc'[p].token <= fence'
    BY <1>i, <2>3, <2>5, <2>6 DEF IsProc
  <2>8. ViewIsCurrent(p)' /\ BranchFits(p)' /\ ~At(p, "refused")'
    BY <2>3, <2>5 DEF ViewIsCurrent, BranchFits, At, Reading, Asking
  <2>9. InOrder(p)'
    BY <2>7, <2>8 DEF InOrder
  <2> QED
    BY <2>1, <2>3, <2>5, <2>6, <2>9, ProcsStep
<1>2. ASSUME NEW p \in Procs, Crash(p) \/ Fenced(p) \/ RefuseResume(p)
      PROVE  IInv' /\ Preserves(db, db')
  <2>1. Leave(p) /\ UNCHANGED <<cfg, db, fence>>
    BY <1>2 DEF Crash, Fenced, RefuseResume
  <2> QED
    BY <2>1, LeaveStep, RowsKept
<1>3. ASSUME NEW p \in Procs, FailRunAtDeliveryLimit(p) PROVE IInv' /\ Preserves(db, db')
  <2>1. Leave(p) /\ Owns(p) /\ ~At(p, "idle") /\ fence' = fence /\ cfg' = cfg
    BY <1>3 DEF FailRunAtDeliveryLimit, At
  <2>2. ProcsInv'
    BY <2>1, LeaveStep
  <2>3. CASE Finished(db)
    BY <1>3, <2>2, <2>3, RowsKept DEF FailRunAtDeliveryLimit
  <2>4. CASE ~Finished(db)
    <3> DEFINE e == [type |-> "error", kind |-> "delivery_limit"]
    <3>1. db' = SaveStatus(db, "failed", e)
      BY <1>3, <2>4 DEF FailRunAtDeliveryLimit
    <3>2. e.type # "model.request"
      OBVIOUS
    <3> HIDE DEF e
    <3>3. Extended(db, db') /\ LastOf(db') = e
      BY <1>r, <3>1, SaveStatusWrites
    <3> QED
      BY <2>1, <2>2, <2>4, <3>2, <3>3, RowsExtended DEF Finished
  <2> QED
    BY <2>3, <2>4
<1>4. ASSUME NEW p \in Procs, ReadRun(p) PROVE IInv' /\ Preserves(db, db')
  <2>1. UNCHANGED <<cfg, db, fence>> /\ At(p, "loop")
    BY <1>4 DEF ReadRun
  <2>2. CASE Finished(db)
    BY <1>4, <2>1, <2>2, LeaveStep, RowsKept DEF ReadRun, Leave
  <2>3. CASE ~Finished(db)
    <3> DEFINE pc == Branch(p, db.transcript)
               x == [proc[p] EXCEPT !.pc = pc, !.history = db.transcript, !.step = db.step]
    <3>1. proc' = [proc EXCEPT ![p] = x]
      BY <1>4, <1>i, <2>3 DEF ReadRun
    <3>2. /\ pc \in {"dispatch", "complete", "pause", "request"}
          /\ pc = "dispatch" <=> HasPending(db.transcript)
      BY DEF Branch
    <3> HIDE DEF pc
    <3>3. /\ DOMAIN x = ProcFields /\ x.pc = pc /\ x.history = db.transcript /\ x.step = db.step
          /\ x.token = proc[p].token
      BY <1>i DEF ProcFields
    <3> HIDE DEF x
    <3>4. /\ DOMAIN proc' = Procs /\ proc'[p] = x
          /\ \A q \in Procs : q # p => proc'[q] = proc[q]
      BY <1>i, <3>1
    <3>5. IsProc(proc'[p]) /\ proc'[p].token <= fence'
      BY <1>i, <2>1, <3>2, <3>3, <3>4 DEF IsProc
    <3>6. ViewIsCurrent(p)'
      BY <2>1, <2>3, <3>3, <3>4 DEF ViewIsCurrent, Finished
    <3>7. BranchFits(p)' /\ ~At(p, "refused")'
      BY <3>2, <3>3, <3>4 DEF BranchFits, At, Asking
    <3>8. InOrder(p)'
      BY <3>5, <3>6, <3>7 DEF InOrder
    <3>9. ~At(p, "idle") /\ proc'[p].token = proc[p].token
      BY <2>1, <3>3, <3>4 DEF At
    <3> QED
      BY <2>1, <3>4, <3>8, <3>9, ProcsStep, RowsKept
  <2> QED
    BY <2>2, <2>3
<1>5. ASSUME NEW p \in Procs, InvokePending(p) PROVE IInv' /\ Preserves(db, db')
  <2> DEFINE call == pending(proc[p].history)
             r == Invoke(cfg, db, call)
             pc == IF r.ok THEN "loop" ELSE "failing"
  <2>1. /\ At(p, "dispatch") /\ Owns(p) /\ db' = r.db /\ Goto(p, pc)
        /\ UNCHANGED <<cfg, fence>>
    BY <1>5 DEF InvokePending
  <2>2. \/ r.db = db
        \/ r.ok /\ \E answer : AnsweredWith(db, r.db, call, answer)
    BY <1>r, CallIsBracketed
  <2> HIDE DEF r, call
  <2>3. /\ proc[p].history = db.transcript /\ proc[p].step = db.step
        /\ db.status # "completed"
    BY <2>1, OwnerView DEF At, Reading
  <2>4. RowsInv' /\ Preserves(db, db')
    <3>1. CASE r.db = db
      BY <2>1, <3>1, RowsKept
    <3>2. CASE \E answer : AnsweredWith(db, r.db, call, answer)
      BY <1>r, <2>1, <2>3, <3>2, AnsweredWrites, RowsExtended
    <3> QED
      BY <2>2, <3>1, <3>2
  <2>5. pc \in {"loop", "failing"} /\ (pc = "failing" => db' = db)
    BY <2>1, <2>2
  <2> HIDE DEF pc
  <2>6. /\ DOMAIN proc' = Procs /\ \A q \in Procs : q # p => proc'[q] = proc[q]
        /\ IsProc(proc'[p]) /\ proc'[p].pc = pc /\ proc'[p].token = proc[p].token
        /\ proc'[p].history = proc[p].history /\ proc'[p].step = proc[p].step
    BY <2>1, <2>5, GotoFacts
  <2>7. ViewIsCurrent(p)'
    BY <2>3, <2>5, <2>6 DEF ViewIsCurrent, Reading
  <2>8. BranchFits(p)' /\ ~At(p, "refused")' /\ ~At(p, "idle")
    BY <2>1, <2>5, <2>6 DEF BranchFits, At, Asking
  <2>9. InOrder(p)'
    BY <1>i, <2>1, <2>6, <2>7, <2>8 DEF InOrder
  <2> QED
    BY <2>1, <2>4, <2>6, <2>8, <2>9, ProcsStep
<1>6. ASSUME NEW p \in Procs, NEW status, NEW e, e.type # "model.request",
             proc[p].pc \in Reading, Owns(p), Leave(p), UNCHANGED <<cfg, fence>>,
             db' = SaveStatus(db, status, e)
      PROVE  IInv' /\ Preserves(db, db')
  <2>1. ~At(p, "idle")
    BY <1>6, <1>w
  <2>2. db.status # "completed"
    BY <1>6, OwnerView
  <2>3. Extended(db, db') /\ LastOf(db') = e
    BY <1>6, <1>r, SaveStatusWrites
  <2> QED
    BY <1>6, <2>1, <2>2, <2>3, LeaveStep, RowsExtended
<1>7. ASSUME NEW p \in Procs, RecordDispatchError(p) PROVE IInv' /\ Preserves(db, db')
  <2> DEFINE e == [type |-> "error", kind |-> "dispatch"]
  <2>1. e.type # "model.request" /\ db' = SaveStatus(db, "failed", e)
    BY <1>7 DEF RecordDispatchError
  <2> HIDE DEF e
  <2> QED
    BY <1>6, <1>7, <2>1 DEF RecordDispatchError, At, Reading
<1>8. ASSUME NEW p \in Procs, Complete(p) PROVE IInv' /\ Preserves(db, db')
  <2> DEFINE e == [type |-> "execution.completed", step |-> proc[p].step]
  <2>1. e.type # "model.request" /\ db' = SaveStatus(db, "completed", e)
    BY <1>8 DEF Complete
  <2> HIDE DEF e
  <2> QED
    BY <1>6, <1>8, <2>1 DEF Complete, At, Reading
<1>9. ASSUME NEW p \in Procs, Pause(p) PROVE IInv' /\ Preserves(db, db')
  <2> DEFINE e == [type |-> "execution.paused", step |-> proc[p].step]
  <2>1. e.type # "model.request" /\ db' = SaveStatus(db, "paused", e)
    BY <1>9 DEF Pause
  <2> HIDE DEF e
  <2> QED
    BY <1>6, <1>9, <2>1 DEF Pause, At, Reading
<1>g. ASSUME NEW p \in Procs, NEW pc \in {"append", "provider", "refused"}, Goto(p, pc),
             proc[p].pc \in {"request", "append"}, UNCHANGED fence,
             UNCHANGED db \/ Owns(p),
             Owns(p) => SameRecord(db, db'),
             pc = "refused" => ~Owns(p)
      PROVE  ProcsInv'
  <2>1. /\ DOMAIN proc' = Procs /\ \A q \in Procs : q # p => proc'[q] = proc[q]
        /\ IsProc(proc'[p]) /\ proc'[p].pc = pc /\ proc'[p].token = proc[p].token
        /\ proc'[p].history = proc[p].history /\ proc'[p].step = proc[p].step
    BY <1>g, GotoFacts
  <2>2. ViewIsCurrent(p)'
    <3>1. CASE Owns(p)
      <4>1. /\ proc[p].history = db.transcript /\ proc[p].step = db.step
            /\ db.status # "completed"
        BY <1>g, <3>1, OwnerView DEF Reading
      <4> QED
        BY <1>g, <2>1, <3>1, <4>1 DEF ViewIsCurrent, SameRecord
    <3>2. CASE ~Owns(p)
      BY <1>g, <2>1, <3>2 DEF ViewIsCurrent, Owns
    <3> QED
      BY <3>1, <3>2
  <2>3. BranchFits(p)' /\ ~At(p, "idle")
    <3>1. ~HasPending(proc[p].history)
      BY <1>g, <1>i DEF InOrder, BranchFits, Asking
    <3> QED
      BY <1>g, <2>1, <3>1 DEF BranchFits, At
  <2>4. (At(p, "refused") => ~Owns(p))'
    BY <1>g, <2>1 DEF At, Owns
  <2>5. InOrder(p)'
    BY <1>g, <1>i, <2>1, <2>2, <2>3, <2>4 DEF InOrder
  <2> QED
    BY <1>g, <2>1, <2>3, <2>5, ProcsStep
<1>10. ASSUME NEW p \in Procs, startModelCall(p) PROVE IInv' /\ Preserves(db, db')
  <2> DEFINE pc == IF LastEvent.type # "model.request" THEN "append"
                   ELSE IF LastEvent = Reconstructed(p) THEN "provider"
                   ELSE "refused"
  <2>1. At(p, "request") /\ Goto(p, pc) /\ UNCHANGED <<cfg, db, fence>>
    BY <1>10 DEF startModelCall
  <2>2. ASSUME Owns(p) PROVE pc # "refused"
    <3>1. proc[p].history = db.transcript
      BY <2>1, <2>2, OwnerView DEF At, Reading
    <3> QED
      BY <3>1 DEF RowsInv, AbandonedIsCurrent, Reconstructed
  <2>3. pc \in {"append", "provider", "refused"}
    OBVIOUS
  <2> HIDE DEF pc
  <2>4. ProcsInv'
    BY <1>g, <2>1, <2>2, <2>3 DEF At, SameRecord
  <2> QED
    BY <2>1, <2>4, RowsKept
<1>11. ASSUME NEW p \in Procs, AppendRequest(p) PROVE IInv' /\ Preserves(db, db')
  <2>1. /\ At(p, "append") /\ Owns(p) /\ db' = Emit(db, Reconstructed(p))
        /\ Goto(p, "provider") /\ UNCHANGED <<cfg, fence>>
    BY <1>11 DEF AppendRequest
  <2>2. proc[p].history = db.transcript /\ db.status # "completed"
    BY <2>1, OwnerView DEF At, Reading
  <2>3. /\ Extended(db, db') /\ LastOf(db') = Reconstructed(p)
        /\ db'.callIndex = db.callIndex /\ SameRecord(db, db')
    BY <1>r, <2>1, EmitWrites
  <2>4. ProcsInv'
    BY <1>g, <2>1, <2>3 DEF At
  <2>5. Reconstructed(p) = ModelRequest(db'.transcript, Exposed(cfg, db)')
    BY <2>1, <2>2, <2>3 DEF Reconstructed, Exposed, SameRecord
  <2>6. RowsInv'
    BY <2>1, <2>3, <2>5 DEF RowsInv, AbandonedIsCurrent, LastEvent, Extended, LastOf
  <2> QED
    BY <2>2, <2>3, <2>4, <2>6 DEF Preserves
<1>12. ASSUME NEW p \in Procs, CallProvider(p) PROVE IInv' /\ Preserves(db, db')
  <2>1. At(p, "provider") /\ UNCHANGED <<cfg, db, fence>>
    BY <1>12 DEF CallProvider
  <2>2. PICK outcome \in callProvider :
            proc' = [proc EXCEPT ![p].pc = "save", ![p].next = outcome.turn,
                                 ![p].failed = outcome.failed]
    BY <1>12 DEF CallProvider
  <2>3. outcome.turn.interruptions \in Nat /\ IsSeq(outcome.turn.calls)
    <3>1. \A calls \in Offered : IsSeq(calls)
      BY RunnerAssumption, ShortSeqs DEF Offered, IsSeq
    <3>2. IsSeq(<< >>)
      BY ShortSeqs
    <3>3. providerAttempts \in Nat
      BY DEF providerAttempts
    <3>4. \A role, calls, n : /\ Turn(role, calls, n).calls = calls
                              /\ Turn(role, calls, n).interruptions = n
      BY DEF Turn
    <3>5. \/ outcome.turn \in Answers
          \/ outcome.turn = Turn("user", << >>, 0)
          \/ outcome.turn \in Errors
      BY DEF callProvider
    <3>6. CASE outcome.turn \in Answers
      <4>1. PICK calls \in Offered, n \in 0..(providerAttempts - 1) : outcome.turn = Turn("assistant", calls, n)
        BY <3>6 DEF Answers
      <4> QED
        BY <3>1, <3>3, <3>4, <4>1
    <3>7. CASE outcome.turn = Turn("user", << >>, 0)
      BY <3>2, <3>4, <3>7
    <3>8. CASE outcome.turn \in Errors
      <4>1. PICK n \in 0..providerAttempts : outcome.turn = Turn("", << >>, n)
        BY <3>8 DEF Errors
      <4>2. n \in Nat
        BY <3>3
      <4>3. PICK role : outcome.turn = Turn(role, << >>, n)
        BY <4>1, Zenon
      <4> QED
        BY <3>2, <4>2, <4>3 DEF Turn
    <3> QED
      BY <3>5, <3>6, <3>7, <3>8
  <2> DEFINE x == [proc[p] EXCEPT !.pc = "save", !.next = outcome.turn, !.failed = outcome.failed]
  <2>4. proc' = [proc EXCEPT ![p] = x]
    BY <1>i, <2>2
  <2>5. /\ DOMAIN x = ProcFields /\ x.pc = "save" /\ x.next = outcome.turn
        /\ x.history = proc[p].history /\ x.step = proc[p].step /\ x.token = proc[p].token
    BY <1>i DEF ProcFields
  <2> HIDE DEF x
  <2>6. /\ DOMAIN proc' = Procs /\ proc'[p] = x
        /\ \A q \in Procs : q # p => proc'[q] = proc[q]
    BY <1>i, <2>4
  <2>7. IsProc(proc'[p]) /\ proc'[p].token <= fence'
    BY <1>i, <2>1, <2>3, <2>5, <2>6 DEF IsProc
  <2>8. ViewIsCurrent(p)'
    <3>1. Owns(p)' <=> Owns(p)
      BY <2>1, <2>5, <2>6 DEF Owns
    <3> QED
      BY <2>1, <2>5, <2>6, <3>1, OwnerView DEF ViewIsCurrent, Reading, At
  <2>9. BranchFits(p)' /\ ~At(p, "idle") /\ ~At(p, "refused")'
    <3>1. ~HasPending(proc[p].history)
      BY <1>i, <2>1 DEF InOrder, BranchFits, Asking, At
    <3> QED
      BY <2>1, <2>5, <2>6, <3>1 DEF BranchFits, At
  <2>10. InOrder(p)'
    BY <2>7, <2>8, <2>9 DEF InOrder
  <2> QED
    BY <2>1, <2>5, <2>6, <2>9, <2>10, ProcsStep, RowsKept
<1>13. ASSUME NEW p \in Procs, SaveTurnGuarded(p) PROVE IInv' /\ Preserves(db, db')
  <2> DEFINE next == proc[p].next
             x == [Idle EXCEPT !.pc = "loop", !.token = proc[p].token, !.used = proc[p].used + 1]
  <2>1. /\ At(p, "save") /\ Owns(p) /\ UNCHANGED <<cfg, fence>>
        /\ db' = SaveTurn(db, proc[p].step, proc[p].history, next)
        /\ proc' = [proc EXCEPT ![p] = x]
    BY <1>13 DEF SaveTurnGuarded
  <2>2. proc[p].history = db.transcript /\ db.status # "completed"
    BY <2>1, OwnerView DEF At, Reading
  <2>3. next.interruptions \in Nat
    BY <1>i, <2>1 DEF IsProc, At
  <2>4. DOMAIN x = ProcFields /\ x.pc = "loop" /\ x.token = proc[p].token
    BY DEF Idle, ProcFields
  <2> HIDE DEF next, x
  <2>5. Extended(db, db') /\ LastOf(db') = ModelResponse(next)
    BY <1>r, <2>1, <2>2, <2>3, SaveTurnWrites
  <2>6. RowsInv' /\ Preserves(db, db')
    BY <2>1, <2>2, <2>5, RowsExtended DEF ModelResponse
  <2>7. /\ DOMAIN proc' = Procs /\ proc'[p] = x
        /\ \A q \in Procs : q # p => proc'[q] = proc[q]
    BY <1>i, <2>1
  <2>8. InOrder(p)'
    <3>1. IsProc(proc'[p]) /\ proc'[p].token <= fence'
      BY <1>i, <2>1, <2>4, <2>7 DEF IsProc
    <3>2. ViewIsCurrent(p)' /\ BranchFits(p)' /\ ~At(p, "refused")'
      BY <2>4, <2>7 DEF ViewIsCurrent, BranchFits, At, Reading, Asking
    <3> QED
      BY <3>1, <3>2 DEF InOrder
  <2>9. ~At(p, "idle") /\ proc'[p].token = proc[p].token
    BY <2>1, <2>4, <2>7 DEF At
  <2> QED
    BY <2>1, <2>6, <2>7, <2>8, <2>9, ProcsStep
<1>14. ASSUME NEW p \in Procs, FailModelTurnGuarded(p) PROVE IInv' /\ Preserves(db, db')
  <2>1. /\ At(p, "save") /\ Owns(p) /\ UNCHANGED <<cfg, fence>>
        /\ db' = FailModelTurn(db, proc[p].next) /\ Leave(p)
    BY <1>14 DEF FailModelTurnGuarded
  <2>2. db.status # "completed" /\ ~At(p, "idle")
    BY <2>1, OwnerView DEF At, Reading
  <2>3. proc[p].next.interruptions \in Nat
    BY <1>i, <2>1 DEF IsProc, At
  <2>4. Extended(db, db') /\ LastOf(db').type = "error"
    BY <1>r, <2>1, <2>3, FailModelTurnWrites
  <2>5. RowsInv' /\ Preserves(db, db')
    BY <2>1, <2>2, <2>4, RowsExtended
  <2> QED
    BY <2>1, <2>2, <2>5, LeaveStep
<1> QED
  BY <1>1, <1>2, <1>3, <1>4, <1>5, <1>7, <1>8, <1>9, <1>10, <1>11, <1>12, <1>13, <1>14
  DEF Next

(* A run starts in order. *)
LEMMA InitInv == Init => IInv
<1> SUFFICES ASSUME Init PROVE IInv
  OBVIOUS
<1> DEFINE e == [type |-> "execution.started"]
<1>1. cfg \in Configs /\ IsRun(db) /\ db.events = <<e>>
  BY NewRunFacts DEF Init
<1>2. Len(<<e>>) = 1 /\ <<e>>[1] = e /\ e.type # "model.request"
  OBVIOUS
<1> HIDE DEF e
<1>3. RowsInv
  BY <1>1, <1>2 DEF RowsInv, AbandonedIsCurrent, LastEvent
<1>4. fence = 0 /\ DOMAIN proc = Procs /\ \A p \in Procs : proc[p] = Idle
  BY DEF Init
<1>5. IsProc(Idle) /\ Idle.pc = "idle" /\ Idle.token = 0
  BY DEF IsProc, Idle, ProcFields
<1>6. \A p \in Procs : InOrder(p)
  BY <1>4, <1>5 DEF InOrder, ViewIsCurrent, BranchFits, At, Reading, Asking
<1>7. TokensUnique
  BY <1>4, <1>5 DEF TokensUnique, At
<1> QED
  BY <1>3, <1>4, <1>6, <1>7 DEF IInv, ProcsInv

(* A stuttering step changes nothing the invariant is about. *)
LEMMA StutterInv == ASSUME IInv, UNCHANGED vars PROVE IInv'
<1>1. RowsInv'
  BY RowsKept DEF IInv, vars
<1>2. \A p \in Procs : InOrder(p)'
  BY DEF IInv, ProcsInv, InOrder, ViewIsCurrent, BranchFits, At, Owns, vars
<1>3. TokensUnique'
  BY DEF IInv, ProcsInv, TokensUnique, At, vars
<1> QED
  BY <1>1, <1>2, <1>3 DEF IInv, ProcsInv, vars

(* The invariant holds in every behaviour. *)
THEOREM Invariance == Spec => []IInv
<1>1. IInv /\ [Next]_vars => IInv'
  BY StepInv, StutterInv
<1> QED
  BY InitInv, <1>1, PTL DEF Spec

(* The owner of a run can always resume it, whichever processes crashed or *)
(* were displaced between the request it finds and the one it would make.  *)
THEOREM OwnerResumes == Spec => []OwnerCanResume
<1>1. IInv => OwnerCanResume
  BY DEF IInv, ProcsInv, InOrder, OwnerCanResume
<1> QED
  BY Invariance, <1>1, PTL

(* Nothing recorded is overwritten and a completed run is never written    *)
(* to, although SaveTurn writes back a transcript it read before the model *)
(* was called.                                                             *)
THEOREM HistoryOnlyGrows == Spec => HistoryIsAppendOnly
<1> DEFINE A == /\ db.status = "completed" => db' = db
                /\ IsPrefix(db.transcript, db'.transcript)
                /\ IsPrefix(db.events, db'.events)
                /\ db.results \subseteq db'.results
                /\ db.world.refunds \subseteq db'.world.refunds
<1>1. ASSUME IInv, [Next]_vars PROVE [A]_vars
  <2>1. CASE UNCHANGED vars
    BY <2>1
  <2>2. CASE Next
    <3>1. IsRun(db) /\ IsRun(db') /\ Preserves(db, db')
      BY <1>1, <2>2, StepInv DEF IInv, RowsInv
    <3>2. IsSeq(db.events) /\ IsSeq(db'.events) /\ IsSeq(db.transcript) /\ IsSeq(db'.transcript)
      BY <3>1 DEF IsRun
    <3>3. Begins(db.events, db.events) /\ Begins(db.transcript, db.transcript)
      BY <3>2, BeginsFacts
    <3>4. Begins(db.events, db'.events) /\ Begins(db.transcript, db'.transcript)
      BY <3>1, <3>3 DEF Preserves, Extended
    <3>5. IsPrefix(db.events, db'.events) /\ IsPrefix(db.transcript, db'.transcript)
      BY <3>2, <3>4, BeginsIsPrefix
    <3> QED
      BY <3>1, <3>5 DEF Preserves, Extended
  <2> QED
    BY <1>1, <2>1, <2>2
<1> QED
  BY Invariance, <1>1, PTL DEF Spec, HistoryIsAppendOnly

(***************************************************************************)
(* Every call is answered.                                                 *)
(***************************************************************************)

(* The calls of a turn are a list. *)
TurnsAreLists(t) == \A i \in AssistantAt(t) : IsSeq(t[i].calls)

(* A call ID stands for one call. *)
IdsUnique(t) ==
    \A a, b \in CallsAt(t) : CallAt(t, a).id = CallAt(t, b).id => a = b

(* The positions of calls. *)
LEMMA CallPositions ==
  ASSUME NEW t
  PROVE  /\ \A at \in CallsAt(t) : \E i \in AssistantAt(t) : \E j \in DOMAIN t[i].calls : at = <<i, j>>
         /\ \A i \in AssistantAt(t) : \A j \in DOMAIN t[i].calls : <<i, j>> \in CallsAt(t)
<1>1. ASSUME NEW at \in CallsAt(t)
      PROVE  \E i \in AssistantAt(t) : \E j \in DOMAIN t[i].calls : at = <<i, j>>
  <2>1. PICK i \in AssistantAt(t) : at \in {<<i, j>> : j \in DOMAIN t[i].calls}
    BY DEF CallsAt
  <2> QED
    BY <2>1
<1>2. ASSUME NEW i \in AssistantAt(t), NEW j \in DOMAIN t[i].calls
      PROVE  <<i, j>> \in CallsAt(t)
  <2>1. <<i, j>> \in {<<i, k>> : k \in DOMAIN t[i].calls}
    OBVIOUS
  <2> QED
    BY <2>1 DEF CallsAt
<1> QED
  BY <1>1, <1>2

(* A tool message answers a call and asks for none. *)
LEMMA ToolMessage ==
  ASSUME NEW t, IsSeq(t), NEW e, e.role = "tool"
  PROVE  LET u == Append(t, e)
         IN  /\ TurnsAreLists(t) => TurnsAreLists(u)
             /\ CallsAt(u) = CallsAt(t)
             /\ \A at \in CallsAt(t) : CallAt(u, at) = CallAt(t, at)
             /\ Answered(u) = Answered(t) \cup {e.call}
<1> DEFINE u == Append(t, e)
           n == Len(t)
<1>1. /\ n \in Nat /\ DOMAIN t = 1..n /\ DOMAIN u = 1..(n + 1)
      /\ \A i \in 1..n : u[i] = t[i]
      /\ u[n + 1] = e
  BY AppendFacts
<1> HIDE DEF u, n
<1>2. 1..(n + 1) = 1..n \cup {n + 1}
  BY <1>1
<1>3. AssistantAt(u) = AssistantAt(t)
  BY <1>1, <1>2 DEF AssistantAt
<1>4. \A i \in AssistantAt(t) : u[i] = t[i]
  BY <1>1 DEF AssistantAt
<1>5. ASSUME NEW at \in CallsAt(u) PROVE at \in CallsAt(t)
  <2>1. PICK i \in AssistantAt(u) : \E j \in DOMAIN u[i].calls : at = <<i, j>>
    BY CallPositions
  <2>j. PICK j \in DOMAIN u[i].calls : at = <<i, j>>
    BY <2>1
  <2>2. i \in AssistantAt(t) /\ j \in DOMAIN t[i].calls
    BY <1>3, <1>4
  <2> QED
    BY <2>j, <2>2, CallPositions
<1>6. ASSUME NEW at \in CallsAt(t) PROVE at \in CallsAt(u) /\ CallAt(u, at) = CallAt(t, at)
  <2>1. PICK i \in AssistantAt(t) : \E j \in DOMAIN t[i].calls : at = <<i, j>>
    BY CallPositions
  <2>j. PICK j \in DOMAIN t[i].calls : at = <<i, j>>
    BY <2>1
  <2>2. i \in AssistantAt(u) /\ j \in DOMAIN u[i].calls /\ u[i] = t[i]
    BY <1>3, <1>4
  <2> QED
    BY <2>j, <2>2, CallPositions DEF CallAt
<1>7. Answered(u) = Answered(t) \cup {e.call}
  <2>1. ASSUME NEW x \in Answered(u) PROVE x \in Answered(t) \cup {e.call}
    <3>1. PICK i \in DOMAIN u : u[i].role = "tool" /\ x = u[i].call
      BY DEF Answered
    <3>2. CASE i \in 1..n
      BY <1>1, <3>1, <3>2 DEF Answered
    <3>3. CASE i = n + 1
      BY <1>1, <3>1, <3>3
    <3> QED
      BY <1>1, <1>2, <3>1, <3>2, <3>3
  <2>2. ASSUME NEW x \in Answered(t) PROVE x \in Answered(u)
    <3>1. PICK i \in DOMAIN t : t[i].role = "tool" /\ x = t[i].call
      BY DEF Answered
    <3>2. i \in DOMAIN u /\ u[i] = t[i]
      BY <1>1, <1>2, <3>1
    <3> QED
      BY <3>1, <3>2 DEF Answered
  <2>3. e.call \in Answered(u)
    <3>1. n + 1 \in DOMAIN u /\ u[n + 1].role = "tool"
      BY <1>1, <1>2
    <3> QED
      BY <1>1, <3>1 DEF Answered
  <2> QED
    BY <2>1, <2>2, <2>3
<1>8. TurnsAreLists(t) => TurnsAreLists(u)
  BY <1>3, <1>4 DEF TurnsAreLists
<1> QED
  BY <1>5, <1>6, <1>7, <1>8 DEF u

(* A turn whose call IDs are new and distinct asks, and answers nothing. *)
LEMMA AssistantMessage ==
  ASSUME NEW t, IsSeq(t), TurnsAreLists(t), IdsUnique(t), NEW e, e.role = "assistant", IsSeq(e.calls),
         \A j \in DOMAIN e.calls : e.calls[j].id \notin CallIdsIn(t),
         \A j, k \in DOMAIN e.calls : e.calls[j].id = e.calls[k].id => j = k
  PROVE  LET u == Append(t, e)
         IN  /\ TurnsAreLists(u)
             /\ IdsUnique(u)
             /\ CallIdsIn(t) \subseteq CallIdsIn(u)
             /\ CallIdsIn(u) \subseteq CallIdsIn(t) \cup {e.calls[j].id : j \in DOMAIN e.calls}
             /\ Answered(u) = Answered(t)
             /\ \A at \in CallsAt(u) :
                   \/ at \in CallsAt(t) /\ CallAt(u, at) = CallAt(t, at)
                   \/ \E j \in DOMAIN e.calls : at = <<Len(t) + 1, j>> /\ CallAt(u, at) = e.calls[j]
<1> DEFINE u == Append(t, e)
           n == Len(t)
<1>1. /\ n \in Nat /\ DOMAIN t = 1..n /\ DOMAIN u = 1..(n + 1)
      /\ \A i \in 1..n : u[i] = t[i]
      /\ u[n + 1] = e
  BY AppendFacts
<1> HIDE DEF u, n
<1>2. 1..(n + 1) = 1..n \cup {n + 1} /\ n + 1 \notin 1..n
  BY <1>1
<1>3. AssistantAt(u) = AssistantAt(t) \cup {n + 1} /\ n + 1 \notin AssistantAt(t)
  BY <1>1, <1>2 DEF AssistantAt
<1>4. \A i \in AssistantAt(t) : u[i] = t[i]
  BY <1>1 DEF AssistantAt
<1>5. ASSUME NEW at \in CallsAt(u)
      PROVE  \/ at \in CallsAt(t) /\ CallAt(u, at) = CallAt(t, at)
             \/ \E j \in DOMAIN e.calls : at = <<n + 1, j>> /\ CallAt(u, at) = e.calls[j]
  <2>1. PICK i \in AssistantAt(u) : \E j \in DOMAIN u[i].calls : at = <<i, j>>
    BY CallPositions
  <2>j. PICK j \in DOMAIN u[i].calls : at = <<i, j>>
    BY <2>1
  <2>2. CASE i = n + 1
    BY <1>1, <2>j, <2>2 DEF CallAt
  <2>3. CASE i \in AssistantAt(t)
    <3>1. u[i] = t[i] /\ j \in DOMAIN t[i].calls
      BY <1>4, <2>3
    <3> QED
      BY <2>j, <2>3, <3>1, CallPositions DEF CallAt
  <2> QED
    BY <1>3, <2>2, <2>3
<1>6. ASSUME NEW at \in CallsAt(t) PROVE at \in CallsAt(u) /\ CallAt(u, at) = CallAt(t, at)
  <2>1. PICK i \in AssistantAt(t) : \E j \in DOMAIN t[i].calls : at = <<i, j>>
    BY CallPositions
  <2>j. PICK j \in DOMAIN t[i].calls : at = <<i, j>>
    BY <2>1
  <2>2. i \in AssistantAt(u) /\ j \in DOMAIN u[i].calls /\ u[i] = t[i]
    BY <1>3, <1>4
  <2> QED
    BY <2>j, <2>2, CallPositions DEF CallAt
<1>7. IdsUnique(u)
  <2> SUFFICES ASSUME NEW a \in CallsAt(u), NEW b \in CallsAt(u), CallAt(u, a).id = CallAt(u, b).id
               PROVE  a = b
    BY DEF IdsUnique
  <2>1. CASE a \in CallsAt(t) /\ CallAt(u, a) = CallAt(t, a)
    <3>1. CallAt(u, a).id \in CallIdsIn(t)
      BY <2>1 DEF CallIdsIn
    <3>2. b \in CallsAt(t) /\ CallAt(u, b) = CallAt(t, b)
      BY <1>5, <3>1
    <3> QED
      BY <2>1, <3>2 DEF IdsUnique
  <2>2. CASE \E j \in DOMAIN e.calls : a = <<n + 1, j>> /\ CallAt(u, a) = e.calls[j]
    <3>1. CallAt(u, b).id \notin CallIdsIn(t)
      BY <2>2
    <3>2. ~(b \in CallsAt(t) /\ CallAt(u, b) = CallAt(t, b))
      BY <3>1 DEF CallIdsIn
    <3> QED
      BY <1>5, <2>2, <3>2
  <2> QED
    BY <1>5, <2>1, <2>2
<1>8. CallIdsIn(t) \subseteq CallIdsIn(u)
  BY <1>6 DEF CallIdsIn
<1>9. Answered(u) = Answered(t)
  <2>1. ASSUME NEW x \in Answered(u) PROVE x \in Answered(t)
    <3>1. PICK i \in DOMAIN u : u[i].role = "tool" /\ x = u[i].call
      BY DEF Answered
    <3>2. i \in 1..n
      BY <1>1, <1>2, <3>1
    <3> QED
      BY <1>1, <3>1, <3>2 DEF Answered
  <2>2. ASSUME NEW x \in Answered(t) PROVE x \in Answered(u)
    <3>1. PICK i \in DOMAIN t : t[i].role = "tool" /\ x = t[i].call
      BY DEF Answered
    <3>2. i \in DOMAIN u /\ u[i] = t[i]
      BY <1>1, <1>2, <3>1
    <3> QED
      BY <3>1, <3>2 DEF Answered
  <2> QED
    BY <2>1, <2>2
<1>10. TurnsAreLists(u)
  BY <1>1, <1>3, <1>4 DEF TurnsAreLists
<1>11. CallIdsIn(u) \subseteq CallIdsIn(t) \cup {e.calls[j].id : j \in DOMAIN e.calls}
  <2> SUFFICES ASSUME NEW at \in CallsAt(u)
               PROVE  CallAt(u, at).id \in CallIdsIn(t) \cup {e.calls[j].id : j \in DOMAIN e.calls}
    BY DEF CallIdsIn
  <2> QED
    BY <1>5 DEF CallIdsIn
<1> QED
  BY <1>5, <1>7, <1>8, <1>9, <1>10, <1>11 DEF u, n

(* The position of a call is a message of the transcript and a number. *)
LEMMA CallPlace ==
  ASSUME NEW t, IsSeq(t), TurnsAreLists(t), NEW at \in CallsAt(t)
  PROVE  at = <<at[1], at[2]>> /\ at[1] \in Nat /\ at[2] \in Nat /\ at[1] <= Len(t)
<1>1. PICK i \in AssistantAt(t) : \E j \in DOMAIN t[i].calls : at = <<i, j>>
  BY CallPositions
<1>2. PICK j \in DOMAIN t[i].calls : at = <<i, j>>
  BY <1>1
<1>3. i \in Nat /\ i <= Len(t)
  BY AppendFacts DEF AssistantAt
<1>4. IsSeq(t[i].calls)
  BY DEF TurnsAreLists
<1>5. j \in Nat
  BY <1>4, AppendFacts
<1> QED
  BY <1>2, <1>3, <1>5

(* A transcript with unanswered calls has a first one, the pending call. *)
LEMMA PendingCall ==
  ASSUME NEW t, IsSeq(t), TurnsAreLists(t), HasPending(t)
  PROVE  \E at \in Unsettled(t) :
             /\ at \in CallsAt(t) /\ pending(t) = CallAt(t, at)
             /\ \A b \in Unsettled(t) : Earlier(at, b)
<1> DEFINE U == Unsettled(t)
           first(a) == \A b \in U : Earlier(a, b)
<1>1. \A at \in U : /\ at \in CallsAt(t) /\ at = <<at[1], at[2]>>
                    /\ at[1] \in Nat /\ at[2] \in Nat
  BY CallPlace DEF Unsettled
<1>2. U # {}
  BY DEF HasPending
<1> HIDE DEF U
<1> DEFINE I == {at[1] : at \in U}
<1>3. PICK i \in I : \A k \in I : i <= k
  <2>1. I \subseteq Nat /\ I # {}
    BY <1>1, <1>2
  <2> HIDE DEF I
  <2> QED
    BY <2>1, LeastNat
<1> DEFINE J == {at[2] : at \in {b \in U : b[1] = i}}
<1>4. PICK j \in J : \A k \in J : j <= k
  <2>1. J \subseteq Nat /\ J # {}
    BY <1>1, <1>3
  <2> HIDE DEF J
  <2> QED
    BY <2>1, LeastNat
<1>5. PICK a \in U : a[1] = i /\ a[2] = j
  BY <1>4
<1>6. first(a)
  <2> SUFFICES ASSUME NEW b \in U PROVE Earlier(a, b)
    OBVIOUS
  <2>1. b[1] \in Nat /\ b[2] \in Nat /\ a[1] \in Nat /\ a[2] \in Nat
    BY <1>1
  <2>2. i <= b[1]
    BY <1>3
  <2>3. b[1] = i => j <= b[2]
    BY <1>4
  <2> QED
    BY <1>5, <2>1, <2>2, <2>3 DEF Earlier
<1> DEFINE c == CHOOSE x \in U : first(x)
<1>7. c \in U /\ first(c)
  <2> HIDE DEF first
  <2> QED
    BY <1>6
<1>8. pending(t) = CallAt(t, c)
  BY DEF pending, U
<1> HIDE DEF c
<1> QED
  BY <1>1, <1>7, <1>8 DEF U

(* Answering the pending call keeps the order. *)
LEMMA OrderAnswered ==
  ASSUME NEW t, IsSeq(t), TurnsAreLists(t), IdsUnique(t), HasPending(t), AnsweredInOrder(t),
         NEW u, CallsAt(u) = CallsAt(t), \A at \in CallsAt(t) : CallAt(u, at) = CallAt(t, at),
         Answered(u) = Answered(t) \cup {pending(t).id}
  PROVE  AnsweredInOrder(u)
<1>1. PICK f \in Unsettled(t) : /\ f \in CallsAt(t) /\ pending(t) = CallAt(t, f)
                               /\ \A b \in Unsettled(t) : Earlier(f, b)
  BY PendingCall
<1>2. \A at \in CallsAt(t) : at \in Unsettled(u) <=> at \in Unsettled(t) /\ at # f
  BY <1>1 DEF Unsettled, IdsUnique
<1>3. Unsettled(u) \subseteq CallsAt(t)
  BY DEF Unsettled
<1> SUFFICES ASSUME NEW a \in Unsettled(u), NEW b \in CallsAt(t), Earlier(a, b)
             PROVE  b \in Unsettled(u)
  BY DEF AnsweredInOrder
<1>4. a \in CallsAt(t) /\ a \in Unsettled(t) /\ a # f
  BY <1>2, <1>3
<1>5. b \in Unsettled(t)
  BY <1>4 DEF AnsweredInOrder
<1>6. b # f
  <2> SUFFICES ASSUME b = f PROVE FALSE
    OBVIOUS
  <2>1. Earlier(a, f) /\ Earlier(f, a)
    BY <1>1, <1>4
  <2>2. /\ a = <<a[1], a[2]>> /\ a[1] \in Nat /\ a[2] \in Nat
        /\ f = <<f[1], f[2]>> /\ f[1] \in Nat /\ f[2] \in Nat
    BY <1>1, <1>4, CallPlace
  <2>3. a[1] = f[1] /\ a[2] = f[2]
    BY <2>1, <2>2 DEF Earlier
  <2> QED
    BY <1>4, <2>2, <2>3
<1> QED
  BY <1>2, <1>5, <1>6

(* What a new turn asks comes after everything asked before. *)
LEMMA OrderAsked ==
  ASSUME NEW t, IsSeq(t), TurnsAreLists(t), AnsweredInOrder(t), Answered(t) \subseteq CallIdsIn(t),
         NEW u, NEW calls, Answered(u) = Answered(t),
         \A j \in DOMAIN calls : calls[j].id \notin CallIdsIn(t),
         \A at \in CallsAt(u) :
             \/ at \in CallsAt(t) /\ CallAt(u, at) = CallAt(t, at)
             \/ \E j \in DOMAIN calls : at = <<Len(t) + 1, j>> /\ CallAt(u, at) = calls[j]
  PROVE  AnsweredInOrder(u)
<1> SUFFICES ASSUME NEW a \in Unsettled(u), NEW b \in CallsAt(u), Earlier(a, b)
             PROVE  b \in Unsettled(u)
  BY DEF AnsweredInOrder
<1>1. CASE \E j \in DOMAIN calls : b = <<Len(t) + 1, j>> /\ CallAt(u, b) = calls[j]
  BY <1>1 DEF Unsettled
<1>2. CASE b \in CallsAt(t) /\ CallAt(u, b) = CallAt(t, b)
  <2>1. a \in CallsAt(u)
    BY DEF Unsettled
  <2>2. CASE \E j \in DOMAIN calls : a = <<Len(t) + 1, j>> /\ CallAt(u, a) = calls[j]
    <3>1. b[1] \in Nat /\ b[1] <= Len(t) /\ Len(t) \in Nat
      BY <1>2, CallPlace, AppendFacts
    <3>2. a[1] = Len(t) + 1
      BY <2>2
    <3> QED
      BY <3>1, <3>2 DEF Earlier
  <2>3. CASE a \in CallsAt(t) /\ CallAt(u, a) = CallAt(t, a)
    <3>1. a \in Unsettled(t)
      BY <2>3 DEF Unsettled
    <3>2. b \in Unsettled(t)
      BY <1>2, <3>1 DEF AnsweredInOrder
    <3> QED
      BY <1>2, <3>2 DEF Unsettled
  <2> QED
    BY <2>1, <2>2, <2>3
<1> QED
  BY <1>1, <1>2

(* The strengthening: an ID asks for one call and is answered by one       *)
(* result, results answer what was asked in the order it was asked, and a  *)
(* run is completed only with nothing pending.                             *)
Conversed(d) ==
    /\ TurnsAreLists(d.transcript)
    /\ IdsUnique(d.transcript)
    /\ AnsweredInOrder(d.transcript)
    /\ Answered(d.transcript) \subseteq CallIdsIn(d.transcript)
    /\ Answered(d.transcript) = {r.call.id : r \in d.results}
    /\ \A r, s \in d.results : r.call.id = s.call.id => r = s
    /\ IsFiniteSet(d.results)
    /\ d.status = "completed" => ~HasPending(d.transcript)

(* A write that adds neither a message nor a result. *)
LEMMA ConversedKept ==
  ASSUME NEW d, NEW e, Conversed(d), e.transcript = d.transcript, e.results = d.results,
         e.status = "completed" => ~HasPending(d.transcript)
  PROVE  Conversed(e)
  BY DEF Conversed

(* An answered call. *)
LEMMA ConversedAnswered ==
  ASSUME NEW d, IsRun(d), NEW e, Conversed(d), d.status # "completed", HasPending(d.transcript),
         Saved(d, pending(d.transcript)) = {},
         NEW answer, AnsweredWith(d, e, pending(d.transcript), answer)
  PROVE  Conversed(e)
<1> DEFINE t == d.transcript
           call == pending(t)
           m == Entry(call, answer)
           r == Result(call, answer)
           u == Append(t, m)
<1>1. IsSeq(t) /\ TurnsAreLists(t)
  BY DEF IsRun, Conversed
<1>2. call.id \in CallIdsIn(t)
  BY <1>1, PendingCall DEF CallIdsIn
<1>3. m.role = "tool" /\ m.call = call.id /\ r.call = call
  BY DEF Entry, Result
<1>4. e.transcript = u /\ e.results = d.results \cup {r} /\ e.status = d.status
  BY DEF AnsweredWith
<1>5. \A x \in d.results : x.call.id # call.id
  BY DEF Saved
<1> HIDE DEF t, call, m, r
<1>6. /\ TurnsAreLists(u) /\ CallsAt(u) = CallsAt(t)
      /\ \A at \in CallsAt(t) : CallAt(u, at) = CallAt(t, at)
      /\ Answered(u) = Answered(t) \cup {call.id}
  BY <1>1, <1>3, ToolMessage
<1> HIDE DEF u
<1>7. CallIdsIn(u) = CallIdsIn(t)
  BY <1>6 DEF CallIdsIn
<1>8. IdsUnique(u)
  BY <1>6 DEF IdsUnique, Conversed, t
<1>14. AnsweredInOrder(u)
  <2>1. IdsUnique(t) /\ HasPending(t) /\ AnsweredInOrder(t)
    BY DEF Conversed, t
  <2>2. Answered(u) = Answered(t) \cup {pending(t).id}
    BY <1>6 DEF call
  <2> QED
    BY <1>1, <1>6, <2>1, <2>2, OrderAnswered
<1>9. Answered(t) \subseteq CallIdsIn(t) /\ Answered(t) = {x.call.id : x \in d.results}
  BY DEF Conversed, t
<1>10. Answered(u) \subseteq CallIdsIn(u)
  BY <1>2, <1>6, <1>7, <1>9
<1>11. Answered(u) = {x.call.id : x \in e.results}
  BY <1>3, <1>4, <1>6, <1>9
<1>12. \A x, y \in e.results : x.call.id = y.call.id => x = y
  BY <1>3, <1>4, <1>5 DEF Conversed
<1>13. IsFiniteSet(e.results)
  BY <1>4, FS_AddElement DEF Conversed
<1> QED
  BY <1>4, <1>6, <1>8, <1>10, <1>11, <1>12, <1>13, <1>14 DEF Conversed

(* A saved turn. *)
LEMMA ConversedAsked ==
  ASSUME NEW d, IsRun(d), NEW e, Conversed(d), NEW next, IsSeq(next.calls), NEW ops,
         validateCalls(ops, d.transcript, next),
         e.transcript = Append(d.transcript, AssistantEntry(next)),
         e.results = d.results, e.status = "running"
  PROVE  Conversed(e)
<1> DEFINE t == d.transcript
           m == AssistantEntry(next)
<1>1. m.role = "assistant" /\ m.calls = next.calls
  BY DEF AssistantEntry
<1> HIDE DEF m
<1>2. /\ IsSeq(t) /\ TurnsAreLists(t) /\ IdsUnique(t)
      /\ AnsweredInOrder(t) /\ Answered(t) \subseteq CallIdsIn(t)
  BY DEF IsRun, Conversed
<1>3. /\ \A j \in DOMAIN next.calls : next.calls[j].id \notin CallIdsIn(t)
      /\ \A j, k \in DOMAIN next.calls : next.calls[j].id = next.calls[k].id => j = k
  BY DEF validateCalls
<1> HIDE DEF t
<1>4. /\ TurnsAreLists(Append(t, m)) /\ IdsUnique(Append(t, m))
      /\ CallIdsIn(t) \subseteq CallIdsIn(Append(t, m))
      /\ Answered(Append(t, m)) = Answered(t)
      /\ \A at \in CallsAt(Append(t, m)) :
            \/ at \in CallsAt(t) /\ CallAt(Append(t, m), at) = CallAt(t, at)
            \/ \E j \in DOMAIN next.calls :
                   at = <<Len(t) + 1, j>> /\ CallAt(Append(t, m), at) = next.calls[j]
  BY <1>1, <1>2, <1>3, AssistantMessage
<1>6. AnsweredInOrder(Append(t, m))
  BY <1>2, <1>3, <1>4, OrderAsked
<1>5. e.transcript = Append(t, m)
  BY DEF t, m
<1> QED
  BY <1>4, <1>5, <1>6 DEF Conversed, t

(* Every step keeps the conversation in order. *)
LEMMA ConversedStep == ASSUME IInv, Next, Conversed(db) PROVE Conversed(db')
<1>r. IsRun(db) /\ DOMAIN cfg.chaos \subseteq Nat
  BY RunnerAssumption DEF IInv, RowsInv
<1>0. ASSUME UNCHANGED db PROVE Conversed(db')
  BY <1>0
<1>1. ASSUME NEW status, NEW e, db' = SaveStatus(db, status, e),
             status = "completed" => ~HasPending(db.transcript)
      PROVE  Conversed(db')
  <2>1. db'.transcript = db.transcript /\ db'.results = db.results /\ db'.status = status
    BY <1>r, <1>1, SaveStatusWrites
  <2> QED
    BY <1>1, <2>1, ConversedKept
<1>2. ASSUME NEW p \in Procs, FailRunAtDeliveryLimit(p) PROVE Conversed(db')
  BY <1>0, <1>1, <1>2 DEF FailRunAtDeliveryLimit
<1>3. ASSUME NEW p \in Procs, RecordDispatchError(p) \/ Pause(p) PROVE Conversed(db')
  BY <1>1, <1>3 DEF RecordDispatchError, Pause
<1>4. ASSUME NEW p \in Procs, Complete(p) PROVE Conversed(db')
  <2>1. proc[p].history = db.transcript
    BY <1>4, OwnerView DEF Complete, At, Reading
  <2>2. ~HasPending(db.transcript)
    BY <1>4, <2>1 DEF IInv, ProcsInv, InOrder, BranchFits, Complete, At, Asking
  <2> QED
    BY <1>1, <1>4, <2>2 DEF Complete
<1>5. ASSUME NEW p \in Procs, InvokePending(p) PROVE Conversed(db')
  <2>1. proc[p].history = db.transcript /\ db.status # "completed" /\ HasPending(db.transcript)
    BY <1>5, OwnerView DEF IInv, ProcsInv, InOrder, BranchFits, InvokePending, At, Reading
  <2>2. db' = Invoke(cfg, db, pending(db.transcript)).db
    BY <1>5, <2>1 DEF InvokePending
  <2>3. \/ db' = db
        \/ /\ Saved(db, pending(db.transcript)) = {}
           /\ \E answer : AnsweredWith(db, db', pending(db.transcript), answer)
    BY <1>r, <2>2, CallIsBracketed
  <2> QED
    BY <1>0, <1>r, <2>1, <2>3, ConversedAnswered
<1>6. ASSUME NEW p \in Procs, AppendRequest(p) PROVE Conversed(db')
  <2>1. SameRecord(db, db')
    BY <1>6, <1>r, EmitWrites DEF AppendRequest
  <2> QED
    BY <2>1, ConversedKept DEF SameRecord, Conversed
<1>7. ASSUME NEW p \in Procs, SaveTurnGuarded(p) PROVE Conversed(db')
  <2> DEFINE next == proc[p].next
  <2>1. proc[p].history = db.transcript
    BY <1>7, OwnerView DEF SaveTurnGuarded, At, Reading
  <2>2. next.interruptions \in Nat /\ IsSeq(next.calls)
    BY <1>7 DEF SaveTurnGuarded, At, IInv, ProcsInv, InOrder, IsProc
  <2>3. validateCalls(cfg.ops, db.transcript, next)
    BY <1>7, <2>1 DEF SaveTurnGuarded, Accepted
  <2>4. db' = SaveTurn(db, proc[p].step, db.transcript, next)
    BY <1>7, <2>1 DEF SaveTurnGuarded
  <2> HIDE DEF next
  <2>5. /\ db'.transcript = Append(db.transcript, AssistantEntry(next))
        /\ db'.results = db.results /\ db'.status = "running"
    BY <1>r, <2>2, <2>4, SaveTurnWrites
  <2> QED
    BY <1>r, <2>2, <2>3, <2>5, ConversedAsked
<1>8. ASSUME NEW p \in Procs, FailModelTurnGuarded(p) PROVE Conversed(db')
  <2>1. proc[p].next.interruptions \in Nat
    BY <1>8 DEF FailModelTurnGuarded, At, IInv, ProcsInv, InOrder, IsProc
  <2>2. db'.transcript = db.transcript /\ db'.results = db.results /\ db'.status = "failed"
    BY <1>8, <1>r, <2>1, FailModelTurnWrites DEF FailModelTurnGuarded
  <2> QED
    BY <2>2, ConversedKept
<1>9. ASSUME NEW p \in Procs,
             \/ Acquire(p) \/ Crash(p) \/ Fenced(p) \/ ReadRun(p) \/ startModelCall(p)
             \/ RefuseResume(p) \/ CallProvider(p)
      PROVE  Conversed(db')
  BY <1>0, <1>9 DEF Acquire, Crash, Fenced, ReadRun, startModelCall, RefuseResume, CallProvider
<1> QED
  BY <1>2, <1>3, <1>4, <1>5, <1>6, <1>7, <1>8, <1>9 DEF Next

(* With nothing pending, the results and the calls correspond one to one. *)
LEMMA AnswersMatchCalls ==
  ASSUME NEW d, Conversed(d), ~HasPending(d.transcript)
  PROVE  Cardinality(d.results) = Cardinality(CallsAt(d.transcript))
<1> DEFINE t == d.transcript
           R == d.results
           C == CallsAt(t)
           asks(r, at) == CallAt(t, at).id = r.call.id
           f == [r \in R |-> CHOOSE at \in C : asks(r, at)]
<1>1. \A at \in C : CallAt(t, at).id \in Answered(t)
  BY DEF HasPending, Unsettled
<1>2. \A r \in R : \E at \in C : asks(r, at)
  BY DEF Conversed, CallIdsIn
<1>3. \A at \in C : \E r \in R : asks(r, at)
  BY <1>1 DEF Conversed
<1>4. \A r \in R : f[r] \in C /\ asks(r, f[r])
  <2> SUFFICES ASSUME NEW r \in R PROVE f[r] \in C /\ asks(r, f[r])
    OBVIOUS
  <2>1. PICK at \in C : asks(r, at)
    BY <1>2
  <2> HIDE DEF asks, C
  <2> QED
    BY <2>1
<1>5. \A r, s \in R : f[r] = f[s] => r = s
  <2> SUFFICES ASSUME NEW r \in R, NEW s \in R, f[r] = f[s] PROVE r = s
    OBVIOUS
  <2>1. asks(r, f[r]) /\ asks(s, f[s])
    BY <1>4
  <2> HIDE DEF f
  <2>2. r.call.id = s.call.id
    BY <2>1
  <2> QED
    BY <2>2 DEF Conversed
<1>6. \A at \in C : \E r \in R : f[r] = at
  <2> SUFFICES ASSUME NEW at \in C PROVE \E r \in R : f[r] = at
    OBVIOUS
  <2>1. PICK r \in R : asks(r, at)
    BY <1>3
  <2>2. f[r] \in C /\ asks(r, f[r])
    BY <1>4
  <2> HIDE DEF f
  <2>3. f[r] = at
    BY <2>1, <2>2 DEF Conversed, IdsUnique
  <2> QED
    BY <2>3
<1>7. f \in [R -> C]
  BY <1>4
<1> HIDE DEF f, R, C
<1>8. f \in Bijection(R, C)
  BY <1>5, <1>6, <1>7 DEF Bijection, Injection, IsInjective, Surjection
<1>9. ExistsBijection(R, C)
  BY <1>8 DEF ExistsBijection
<1>10. IsFiniteSet(R)
  BY DEF Conversed, R
<1> QED
  BY <1>9, <1>10, FS_Bijection DEF R, C

(* A run starts with nothing said. *)
LEMMA InitConversed == ASSUME Init PROVE Conversed(db)
<1>1. db.transcript = << >> /\ db.results = {} /\ db.status = "running"
  BY NewRunFacts DEF Init
<1>2. AssistantAt(<< >>) = {}
  BY DEF AssistantAt
<1>3. CallsAt(<< >>) = {}
  BY <1>2, CallPositions
<1>4. Answered(<< >>) = {}
  BY DEF Answered
<1>5. IsFiniteSet({})
  BY FS_EmptySet
<1> QED
  BY <1>1, <1>2, <1>3, <1>4, <1>5
  DEF Conversed, TurnsAreLists, IdsUnique, AnsweredInOrder, Unsettled

(* Calls are answered in the order they were asked for, and a completed    *)
(* run has answered every call the model made, each with one result,       *)
(* however many processes dispatched them.                                 *)
THEOREM CompletedRunsAnswered == Spec => []EveryCallAnswered
<1> DEFINE Inv == IInv /\ Conversed(db)
<1>1. Init => Inv
  BY InitInv, InitConversed
<1>2. Inv /\ [Next]_vars => Inv'
  <2> SUFFICES ASSUME Inv, [Next]_vars PROVE Inv'
    OBVIOUS
  <2>1. CASE Next
    BY <2>1, StepInv, ConversedStep
  <2>2. CASE UNCHANGED vars
    BY <2>2, StutterInv DEF vars
  <2> QED
    BY <2>1, <2>2
<1>3. Inv => EveryCallAnswered
  BY AnswersMatchCalls DEF EveryCallAnswered, Conversed
<1> QED
  BY <1>1, <1>2, <1>3, PTL DEF Spec

(***************************************************************************)
(* Ledgers keep the grammar of checkpoint.List.                            *)
(***************************************************************************)

(* f holds what the scan of a ledger has found at each position. *)
IsScan(events, f) ==
    /\ f = [i \in 0..Len(events) |-> f[i]]
    /\ f[0] = Scan(TRUE, FALSE, NoTool, 0)
    /\ \A i \in 1..Len(events) : f[i] = ScanEvent(f[i - 1], events[i], i, Len(events))

(* A ledger has one scan, the one List makes. *)
LEMMA ScanIs ==
  ASSUME NEW s, Len(s) \in Nat, NEW f, IsScan(s, f)
  PROVE  ScanLedger(s) = f[Len(s)]
<1> DEFINE n == Len(s)
           start == Scan(TRUE, FALSE, NoTool, 0)
           Step(x, i) == ScanEvent(x, s[i], i, n)
           Scans(g) == g = [i \in 0..n |-> IF i = 0 THEN start ELSE Step(g[i - 1], i)]
           h == CHOOSE g : Scans(g)
<1>1. ScanLedger(s) = h[n]
  BY DEF ScanLedger
<1>2. /\ f = [i \in 0..n |-> f[i]]
      /\ f[0] = start /\ \A i \in 1..n : f[i] = Step(f[i - 1], i)
  BY DEF IsScan
<1> HIDE DEF start, Step
<1>3. Scans(f)
  <2>1. ASSUME NEW i \in 0..n PROVE f[i] = IF i = 0 THEN start ELSE Step(f[i - 1], i)
    <3>1. CASE i = 0
      BY <1>2, <3>1
    <3>2. CASE i \in 1..n
      <4>1. f[i] = Step(f[i - 1], i)
        BY <1>2, <3>2, Zenon
      <4>2. i # 0
        BY <3>2
      <4> QED
        BY <4>1, <4>2, Zenon
    <3> QED
      BY <3>1, <3>2
  <2> QED
    BY <1>2, <2>1
<1>4. Scans(h)
  <2> HIDE DEF Scans
  <2> QED
    BY <1>3, Zenon
<1>5. h[0] = start /\ \A i \in 1..n : h[i] = Step(h[i - 1], i)
  <2> HIDE DEF h
  <2> QED
    BY <1>4
<1> HIDE DEF h, Scans
<1>6. \A i \in 0..n : h[i] = f[i]
  <2> DEFINE T == {i \in 0..n : h[i] # f[i]}
  <2>1. SUFFICES ASSUME T # {} PROVE FALSE
    OBVIOUS
  <2>2. T \subseteq Nat
    OBVIOUS
  <2>3. PICK i \in T : \A j \in T : i <= j
    <3> HIDE DEF T
    <3> QED
      BY <2>1, <2>2, LeastNat
  <2>4. i \in 0..n /\ h[i] # f[i] /\ i # 0
    BY <1>2, <1>5, <2>3
  <2>5. i - 1 \in 0..n /\ ~(i <= i - 1)
    BY <2>4
  <2>6. h[i - 1] = f[i - 1]
    BY <2>3, <2>5
  <2>7. i \in 1..n
    BY <2>4
  <2>8. h[i] = Step(h[i - 1], i) /\ f[i] = Step(f[i - 1], i)
    BY <1>2, <1>5, <2>7, Zenon
  <2> QED
    BY <2>4, <2>6, <2>8, Zenon
<1> QED
  BY <1>1, <1>6

(* What the scan has found: nothing open, a model call open, a tool call   *)
(* open.                                                                   *)
ScanFields == {"ok", "model", "tool", "turns"}

Resting(x, k) ==
    DOMAIN x = ScanFields /\ x.ok /\ ~x.model /\ x.tool = NoTool /\ x.turns = k

ModelOpen(x, k) ==
    DOMAIN x = ScanFields /\ x.ok /\ x.model /\ x.tool = NoTool /\ x.turns = k

ToolOpen(x, tool, k) ==
    DOMAIN x = ScanFields /\ x.ok /\ ~x.model /\ x.tool = tool /\ x.turns = k

(* What the events of a run do to the scan: a request opens a model call. *)
LEMMA ScanModelRequest ==
  ASSUME NEW e, NEW i \in Nat, i > 1, NEW n, NEW k, NEW x, Resting(x, k), e.type = "model.request"
  PROVE  ModelOpen(ScanEvent(x, e, i, n), k)
<1>1. ScanEvent(x, e, i, n) = [x EXCEPT !.model = TRUE]
  BY DEF ScanEvent, InsideTool, Resting
<1> QED
  BY <1>1 DEF Resting, ModelOpen, ScanFields

(* An attempt that produced nothing leaves it open. *)
LEMMA ScanInterruption ==
  ASSUME NEW e, NEW i \in Nat, i > 1, NEW n, NEW k, NEW x, ModelOpen(x, k),
         e.type = "provider.interrupted"
  PROVE  ScanEvent(x, e, i, n) = x
  BY DEF ScanEvent, InsideTool, ModelOpen

(* The answer closes it and counts a turn. *)
LEMMA ScanModelResponse ==
  ASSUME NEW e, NEW i \in Nat, i > 1, NEW n, NEW k, NEW x, ModelOpen(x, k),
         e.type = "model.response", e.role = "assistant"
  PROVE  Resting(ScanEvent(x, e, i, n), k + 1)
<1>1. ScanEvent(x, e, i, n) = [x EXCEPT !.model = FALSE, !.turns = @ + 1]
  BY DEF ScanEvent, InsideTool, ModelOpen
<1> QED
  BY <1>1 DEF Resting, ModelOpen, ScanFields

(* A named call opens a tool call. *)
LEMMA ScanToolRequest ==
  ASSUME NEW e, NEW i \in Nat, i > 1, NEW n, NEW k, NEW x, Resting(x, k), e.type = "tool.request",
         e.call # NoName, e.op # NoName
  PROVE  ToolOpen(ScanEvent(x, e, i, n), OpenTool(e), k)
<1>1. ScanEvent(x, e, i, n) = [x EXCEPT !.tool = OpenTool(e)]
  BY DEF ScanEvent, InsideTool, Resting
<1> QED
  BY <1>1 DEF Resting, ToolOpen, ScanFields

(* The events of a call leave it open. *)
LEMMA ScanInside ==
  ASSUME NEW e, NEW i \in Nat, i > 1, NEW n, NEW k, NEW tool, tool # NoTool,
         NEW x, ToolOpen(x, tool, k), e.type \in Inside,
         e.type = "error" => e.kind = "injected_503"
  PROVE  ScanEvent(x, e, i, n) = x
  BY DEF ScanEvent, InsideTool, Inside, ToolOpen

(* Its response closes it. *)
LEMMA ScanToolResponse ==
  ASSUME NEW e, NEW i \in Nat, i > 1, NEW n, NEW k, NEW x, ToolOpen(x, OpenTool(e), k),
         e.type = "tool.response"
  PROVE  Resting(ScanEvent(x, e, i, n), k)
<1>1. ScanEvent(x, e, i, n) = [x EXCEPT !.tool = NoTool]
  BY DEF ScanEvent, InsideTool, ToolOpen
<1> QED
  BY <1>1 DEF Resting, ToolOpen, ScanFields

(* The end of an execution needs everything closed. *)
LEMMA ScanRest ==
  ASSUME NEW e, NEW i \in Nat, i > 1, NEW k, NEW x, Resting(x, k),
         e.type \in {"execution.paused", "execution.completed"}
  PROVE  ScanEvent(x, e, i, i) = x
  BY DEF ScanEvent, InsideTool, Resting

(* The first event starts the run. *)
LEMMA ScanStart ==
  ASSUME NEW e, e.type = "execution.started", NEW n
  PROVE  Resting(ScanEvent(Scan(TRUE, FALSE, NoTool, 0), e, 1, n), 0)
<1> DEFINE x == Scan(TRUE, FALSE, NoTool, 0)
<1>1. Resting(x, 0)
  BY DEF Scan, Resting, ScanFields
<1> HIDE DEF x
<1>2. ASSUME NEW i, i = 1 PROVE ScanEvent(x, e, i, n) = x
  BY <1>2 DEF ScanEvent, InsideTool
<1> QED
  BY <1>1, <1>2 DEF x

(* Only a completion looks at where the ledger ends. *)
LEMMA ScanPlace ==
  ASSUME NEW s, NEW e, NEW i, NEW n, NEW m, e.type # "execution.completed"
  PROVE  ScanEvent(s, e, i, n) = ScanEvent(s, e, i, m)
  BY DEF ScanEvent

(* A ledger that grows: the first new event, events that change nothing,   *)
(* the last one.                                                           *)
LEMMA ScanGrows ==
  ASSUME NEW s, Len(s) \in Nat, NEW t, Len(t) \in Nat, Len(s) < Len(t), Begins(s, t),
         NEW f, IsScan(s, f), \A i \in 1..Len(s) : s[i].type # "execution.completed",
         NEW a,
         Len(t) = Len(s) + 1 => a = f[Len(s)],
         Len(t) # Len(s) + 1 => a = ScanEvent(f[Len(s)], t[Len(s) + 1], Len(s) + 1, Len(t)),
         \A i \in (Len(s) + 2)..(Len(t) - 1) : ScanEvent(a, t[i], i, Len(t)) = a
  PROVE  \E g : IsScan(t, g) /\ g[Len(t)] = ScanEvent(a, t[Len(t)], Len(t), Len(t))
<1> DEFINE n == Len(s)
           m == Len(t)
           last == ScanEvent(a, t[m], m, m)
           g == [i \in 0..m |-> IF i <= n THEN f[i] ELSE IF i < m THEN a ELSE last]
<1>0. n \in Nat /\ m \in Nat /\ n < m /\ (m = n + 1 => a = f[n])
  OBVIOUS
<1>1. /\ \A i \in 0..n : g[i] = f[i]
      /\ \A i \in (n + 1)..(m - 1) : g[i] = a
      /\ g[m] = last
  <2> HIDE DEF n, m, last
  <2> QED
    BY <1>0
<1>2. g = [i \in 0..m |-> g[i]]
  OBVIOUS
<1> HIDE DEF g
<1>3. g[0] = Scan(TRUE, FALSE, NoTool, 0)
  BY <1>1 DEF IsScan
<1>4. ASSUME NEW i \in 1..m PROVE g[i] = ScanEvent(g[i - 1], t[i], i, m)
  <2>1. CASE i <= n
    <3>1. i \in 1..n /\ i \in 0..n /\ i - 1 \in 0..n
      BY <1>0, <2>1
    <3>2. f[i] = ScanEvent(f[i - 1], s[i], i, n) /\ t[i] = s[i] /\ s[i].type # "execution.completed"
      BY <3>1 DEF IsScan, Begins
    <3>3. ScanEvent(f[i - 1], s[i], i, n) = ScanEvent(f[i - 1], s[i], i, m)
      BY <3>2, ScanPlace
    <3>4. g[i] = f[i] /\ g[i - 1] = f[i - 1]
      BY <1>1, <3>1
    <3> QED
      BY <3>2, <3>3, <3>4
  <2>2. CASE i = m
    <3>1. g[m - 1] = a
      <4> HIDE DEF n, m, last
      <4>1. CASE m = n + 1
        BY <1>0, <1>1, <4>1
      <4>2. CASE m # n + 1
        <5>1. m - 1 \in (n + 1)..(m - 1)
          BY <1>0, <4>2
        <5> QED
          BY <1>1, <5>1
      <4> QED
        BY <4>1, <4>2
    <3> QED
      BY <1>1, <2>2, <3>1
  <2>3. CASE i = n + 1 /\ i < m
    <3>1. i \in (n + 1)..(m - 1) /\ n \in 0..n /\ i - 1 = n /\ m # n + 1
      BY <1>0, <2>3
    <3>2. g[i] = a /\ g[i - 1] = f[n]
      BY <1>1, <3>1
    <3> QED
      BY <2>3, <3>1, <3>2
  <2>4. CASE i > n + 1 /\ i < m
    <3>1. i \in (n + 1)..(m - 1) /\ i - 1 \in (n + 1)..(m - 1) /\ i \in (n + 2)..(m - 1)
      BY <1>0, <2>4
    <3>2. g[i] = a /\ g[i - 1] = a
      BY <1>1, <3>1
    <3>3. ScanEvent(a, t[i], i, m) = a
      BY <3>1
    <3> QED
      BY <3>2, <3>3
  <2> QED
    BY <1>0, <2>1, <2>2, <2>3, <2>4
<1>5. IsScan(t, g)
  BY <1>2, <1>3, <1>4 DEF IsScan
<1> QED
  BY <1>1, <1>5

(***************************************************************************)
(* What is kept of the ledger of a run without recorded failures.          *)
(***************************************************************************)
AsksModel(d) == LastOf(d).type = "model.request"

Scanned(d, x) == IF AsksModel(d) THEN ModelOpen(x, d.step) ELSE Resting(x, d.step)

Grammatical(d) ==
    /\ \E f : IsScan(d.events, f) /\ Scanned(d, f[Len(d.events)])
    /\ \A i \in 1..(Len(d.events) - 1) : d.events[i].type # "execution.completed"
    /\ LastOf(d).type = "execution.completed" => d.status = "completed"
    /\ LastOf(d).type = "execution.paused" => d.status = "paused"

(* A run that is not completed has no completion in its ledger. *)
LEMMA NoCompletion ==
  ASSUME NEW d, Len(d.events) \in Nat, Len(d.events) > 0, Grammatical(d), d.status # "completed"
  PROVE  \A i \in 1..Len(d.events) : d.events[i].type # "execution.completed"
<1> DEFINE n == Len(d.events)
<1>1. 1..n = 1..(n - 1) \cup {n}
  <2> HIDE DEF n
  <2> QED
    BY DEF n
<1> QED
  BY <1>1 DEF Grammatical, LastOf

(* Failures stay in the ledger. *)
LEMMA FailuresStay ==
  ASSUME NEW d, IsSeq(d.events), NEW e, IsSeq(e.events), Begins(d.events, e.events),
         Failures(e) = {}
  PROVE  Failures(d) = {}
<1>1. /\ Len(d.events) \in Nat /\ DOMAIN d.events = 1..Len(d.events)
      /\ Len(e.events) \in Nat /\ DOMAIN e.events = 1..Len(e.events)
  BY AppendFacts
<1>2. ASSUME NEW k \in Failures(d) PROVE FALSE
  <2>1. k \in DOMAIN e.events /\ e.events[k] = d.events[k]
    BY <1>1 DEF Failures, Begins
  <2>2. k \in Failures(e)
    BY <2>1 DEF Failures
  <2> QED
    BY <2>2
<1> QED
  BY <1>2

(* An untroubled ledger has injected errors only. *)
LEMMA ErrorsInjected ==
  ASSUME NEW d, IsSeq(d.events), Failures(d) = {}, NEW i \in 1..Len(d.events),
         d.events[i].type = "error"
  PROVE  d.events[i].kind = "injected_503"
<1>1. i \in DOMAIN d.events
  BY AppendFacts
<1> QED
  BY <1>1 DEF Failures

(* A ledger that grows by one event. *)
LEMMA GrammarByOne ==
  ASSUME NEW d, IsRun(d), Len(d.events) > 0, Grammatical(d), d.status # "completed",
         NEW e, NEW v, e.events = Append(d.events, v), e.step = d.step,
         v.type = "execution.completed" => e.status = "completed",
         v.type = "execution.paused" => e.status = "paused",
         v.type \in {"model.request", "execution.paused", "execution.completed"},
         ~AsksModel(d)
  PROVE  Grammatical(e)
<1> DEFINE s == d.events
           t == e.events
           n == Len(s)
<1>1. /\ n \in Nat /\ n > 0 /\ Len(t) = n + 1 /\ t[n + 1] = v
      /\ \A i \in 1..n : t[i] = s[i]
  BY AppendFacts DEF IsRun
<1>2. \A i \in 1..n : s[i].type # "execution.completed"
  BY <1>1, NoCompletion
<1>3. PICK f : IsScan(s, f) /\ Resting(f[n], d.step)
  BY DEF Grammatical, Scanned
<1> DEFINE a == f[n]
           b == ScanEvent(a, v, n + 1, n + 1)
<1>4. PICK g : IsScan(t, g) /\ g[n + 1] = b
  <2>1. Begins(s, t) /\ Len(s) < Len(t) /\ Len(s) \in Nat /\ Len(t) \in Nat
    BY <1>1 DEF Begins
  <2>2. (n + 2)..((n + 1) - 1) = {}
    BY <1>1
  <2>a. Len(t) = Len(s) + 1 /\ a = f[Len(s)]
    BY <1>1
  <2>b. \A i \in (Len(s) + 2)..(Len(t) - 1) : ScanEvent(a, t[i], i, Len(t)) = a
    BY <1>1, <2>2
  <2> HIDE DEF s, t, a
  <2>3. \E g : IsScan(t, g) /\ g[Len(t)] = ScanEvent(a, t[Len(t)], Len(t), Len(t))
    BY <1>2, <1>3, <2>1, <2>a, <2>b, ScanGrows
  <2> QED
    BY <1>1, <2>3
<1>5. AsksModel(e) <=> v.type = "model.request"
  BY <1>1 DEF AsksModel, LastOf
<1>6. Scanned(e, b)
  <2> HIDE DEF b
  <2>1. CASE v.type = "model.request"
    <3>1. ModelOpen(b, d.step)
      BY <1>1, <1>3, <2>1, ScanModelRequest DEF b
    <3> QED
      BY <1>5, <2>1, <3>1 DEF Scanned
  <2>2. CASE v.type \in {"execution.paused", "execution.completed"}
    <3>1. b = a
      BY <1>1, <1>3, <2>2, ScanRest DEF b
    <3> QED
      BY <1>3, <1>5, <2>2, <3>1 DEF Scanned
  <2> QED
    BY <2>1, <2>2
<1>7. \A i \in 1..(Len(t) - 1) : t[i].type # "execution.completed"
  BY <1>1, <1>2
<1>8. LastOf(e) = v
  BY <1>1 DEF LastOf
<1> QED
  BY <1>1, <1>4, <1>6, <1>7, <1>8 DEF Grammatical

(* The events of an answered request but the last are interruptions. *)
LEMMA AnsweringEvents ==
  ASSUME NEW next, next.interruptions \in Nat
  PROVE  LET a == Answering(next)
         IN  \A i \in 1..(Len(a) - 1) : a[i].type = "provider.interrupted"
<1> DEFINE n == next.interruptions
           s == Interrupted(n)
           e == ModelResponse(next)
<1>1. IsSeq(s) /\ Len(s) = n /\ \A i \in 1..n : s[i].type = "provider.interrupted"
  <2> DEFINE E == {[type |-> "provider.interrupted", attempt |-> k] : k \in 1..n}
  <2>1. \A k \in 1..n : [type |-> "provider.interrupted", attempt |-> k] \in E
    OBVIOUS
  <2> HIDE DEF E
  <2>2. s \in Seq(E)
    BY <2>1 DEF Interrupted
  <2>3. Len(s) = n /\ \A i \in 1..n : s[i].type = "provider.interrupted"
    BY DEF Interrupted
  <2> QED
    BY <2>2, <2>3 DEF IsSeq
<1> HIDE DEF s, e
<1>2. IsSeq(<<e>>) /\ Len(<<e>>) = 1
  BY ShortSeqs
<1>3. /\ Len(s \o <<e>>) = Len(s) + 1
      /\ \A i \in 1..Len(s) : (s \o <<e>>)[i] = s[i]
  <2> DEFINE u == <<e>>
  <2>1. IsSeq(s) /\ IsSeq(u) /\ Len(u) = 1
    BY <1>1, <1>2
  <2> HIDE DEF u, n
  <2>2. Len(s \o u) = Len(s) + Len(u) /\ \A i \in 1..Len(s) : (s \o u)[i] = s[i]
    BY <2>1, ConcatFacts
  <2> QED
    BY <2>1, <2>2 DEF u
<1>4. Answering(next) = s \o <<e>>
  BY DEF Answering, s, e
<1> QED
  BY <1>1, <1>3, <1>4

(* An answered request. *)
LEMMA GrammarTurn ==
  ASSUME NEW d, IsRun(d), Len(d.events) > 0, Grammatical(d), d.status # "completed", AsksModel(d),
         NEW next, next.interruptions \in Nat, next.role = "assistant",
         NEW e, e.events = d.events \o Answering(next), e.step = d.step + 1
  PROVE  Grammatical(e)
<1> DEFINE s == d.events
           u == Answering(next)
           t == e.events
           n == Len(s)
           l == Len(u)
           m == n + l
<1>1. /\ IsSeq(u) /\ l \in Nat /\ l > 0 /\ u[l] = ModelResponse(next)
      /\ \A i \in 1..(l - 1) : u[i].type = "provider.interrupted"
  BY AnsweringFacts, AnsweringEvents
<1>2. IsSeq(s) /\ t = s \o u
  BY DEF IsRun
<1> HIDE DEF u
<1>3. /\ n \in Nat /\ Len(t) = m
      /\ \A i \in 1..n : t[i] = s[i]
      /\ \A i \in 1..l : t[n + i] = u[i]
  <2> HIDE DEF s, t
  <2>1. /\ Len(s) \in Nat /\ Len(s \o u) = Len(s) + Len(u)
        /\ \A i \in 1..Len(s) : (s \o u)[i] = s[i]
        /\ \A i \in 1..Len(u) : (s \o u)[Len(s) + i] = u[i]
    BY <1>1, <1>2, ConcatFacts
  <2> QED
    BY <1>2, <2>1
<1>4. \A i \in 1..n : s[i].type # "execution.completed"
  BY <1>3, NoCompletion
<1>5. PICK f : IsScan(s, f) /\ ModelOpen(f[n], d.step)
  BY DEF Grammatical, Scanned
<1>n. n > 0
  OBVIOUS
<1> HIDE DEF s, t, n, l
<1> DEFINE a == f[n]
           b == ScanEvent(a, t[m], m, m)
<1>6. ASSUME NEW i \in (n + 1)..(m - 1)
      PROVE  ScanEvent(a, t[i], i, m) = a /\ t[i].type = "provider.interrupted"
  <2>1. i - n \in 1..(l - 1) /\ i - n \in 1..l /\ n + (i - n) = i /\ i \in Nat /\ i > 1
    BY <1>1, <1>3, <1>n
  <2>2. t[i].type = "provider.interrupted"
    BY <1>1, <1>3, <2>1
  <2> QED
    BY <1>5, <2>1, <2>2, ScanInterruption
<1>7. t[m] = ModelResponse(next) /\ m \in Nat /\ m > 1 /\ n < m
  <2>1. l \in 1..l
    BY <1>1
  <2> QED
    BY <1>1, <1>3, <1>n, <2>1
<1>8. PICK g : IsScan(t, g) /\ g[m] = b
  <2>1. Len(s) = n /\ Begins(s, t)
    BY <1>3, <1>7 DEF n, Begins
  <2>2. m = n + 1 => a = f[n]
    OBVIOUS
  <2>3. m # n + 1 => a = ScanEvent(f[n], t[n + 1], n + 1, m)
    <3>1. m # n + 1 => n + 1 \in (n + 1)..(m - 1)
      BY <1>3, <1>7
    <3> QED
      BY <1>6, <3>1
  <2>4. \A i \in (n + 2)..(m - 1) : ScanEvent(a, t[i], i, m) = a
    <3>1. \A i \in (n + 2)..(m - 1) : i \in (n + 1)..(m - 1)
      BY <1>3, <1>7
    <3> QED
      BY <1>6, <3>1
  <2> HIDE DEF a, m
  <2>h. /\ Len(s) \in Nat /\ Len(t) \in Nat /\ Len(s) < Len(t) /\ Begins(s, t) /\ IsScan(s, f)
        /\ \A i \in 1..Len(s) : s[i].type # "execution.completed"
        /\ Len(t) = Len(s) + 1 => a = f[Len(s)]
        /\ Len(t) # Len(s) + 1 => a = ScanEvent(f[Len(s)], t[Len(s) + 1], Len(s) + 1, Len(t))
        /\ \A i \in (Len(s) + 2)..(Len(t) - 1) : ScanEvent(a, t[i], i, Len(t)) = a
    BY <1>3, <1>4, <1>5, <1>7, <2>1, <2>2, <2>3, <2>4
  <2>5. \E g : IsScan(t, g) /\ g[Len(t)] = ScanEvent(a, t[Len(t)], Len(t), Len(t))
    BY ONLY <2>h, ScanGrows
  <2> QED
    BY <1>3, <2>5
<1>9. Resting(b, d.step + 1)
  <2>1. t[m].type = "model.response" /\ t[m].role = "assistant"
    BY <1>7 DEF ModelResponse
  <2> QED
    BY <1>5, <1>7, <2>1, ScanModelResponse
<1>10. LastOf(e).type = "model.response"
  BY <1>3, <1>7 DEF LastOf, ModelResponse, t
<1>11. Scanned(e, b)
  BY <1>9, <1>10 DEF Scanned, AsksModel
<1>12. \A i \in 1..(m - 1) : t[i].type # "execution.completed"
  <2>1. \A i \in 1..(m - 1) : i \in 1..n \/ i \in (n + 1)..(m - 1)
    BY <1>3, <1>7
  <2> QED
    BY <1>3, <1>4, <1>6, <2>1
<1> HIDE DEF b
<1> QED
  BY <1>3, <1>8, <1>10, <1>11, <1>12 DEF Grammatical, t

(* A dispatched call. *)
LEMMA GrammarCall ==
  ASSUME NEW d, IsRun(d), Len(d.events) > 0, Grammatical(d), d.status # "completed", ~AsksModel(d),
         NEW call, call.id # NoName, call.op # NoName,
         NEW e, NEW answer, AnsweredWith(d, e, call, answer), Failures(e) = {}
  PROVE  Grammatical(e)
<1> DEFINE s == d.events
           t == e.events
           n == Len(s)
           m == Len(t)
           tool == {[call |-> call.id, op |-> call.op]}
<1>1. /\ IsSeq(s) /\ IsSeq(t) /\ n \in Nat /\ m \in Nat /\ n > 0
  BY AppendFacts DEF IsRun, AnsweredWith
<1>2. /\ m >= n + 2
      /\ \A i \in 1..n : t[i] = s[i]
      /\ t[n + 1] = RequestEvent(call)
      /\ t[m] = ResponseEvent(call, answer)
      /\ \A i \in (n + 2)..(m - 1) : t[i].type \in Inside
      /\ e.step = d.step
  BY DEF AnsweredWith
<1>3. \A i \in 1..n : s[i].type # "execution.completed"
  BY <1>1, NoCompletion
<1>4. PICK f : IsScan(s, f) /\ Resting(f[n], d.step)
  BY DEF Grammatical, Scanned
<1>5. \A i \in 1..m : t[i].type = "error" => t[i].kind = "injected_503"
  BY <1>1, ErrorsInjected
<1>n. Len(s) = n /\ Len(t) = m
  OBVIOUS
<1> HIDE DEF s, t, n, m
<1> DEFINE a == ScanEvent(f[n], t[n + 1], n + 1, m)
           b == ScanEvent(a, t[m], m, m)
<1>6. OpenTool(t[n + 1]) = tool /\ OpenTool(t[m]) = tool /\ tool # NoTool
  BY <1>2 DEF OpenTool, RequestEvent, ResponseEvent, NoTool
<1>7. ToolOpen(a, tool, d.step)
  <2>1. /\ t[n + 1].type = "tool.request" /\ t[n + 1].call # NoName /\ t[n + 1].op # NoName
        /\ n + 1 \in Nat /\ n + 1 > 1
    BY <1>1, <1>2 DEF RequestEvent
  <2>2. ToolOpen(a, OpenTool(t[n + 1]), d.step)
    BY <1>4, <2>1, ScanToolRequest
  <2> QED
    BY <1>6, <2>2
<1> HIDE DEF a, tool
<1>8. ASSUME NEW i \in (n + 2)..(m - 1) PROVE ScanEvent(a, t[i], i, m) = a
  <2>1. i \in Nat /\ i > 1 /\ i \in 1..m
    BY <1>1
  <2>2. t[i].type \in Inside /\ (t[i].type = "error" => t[i].kind = "injected_503")
    BY <1>2, <1>5, <2>1
  <2> QED
    BY <1>6, <1>7, <2>1, <2>2, ScanInside
<1>9. PICK g : IsScan(t, g) /\ g[m] = b
  <2>1. Begins(s, t) /\ n < m /\ m # n + 1
    BY <1>1, <1>2, <1>n DEF Begins
  <2>2. a = ScanEvent(f[n], t[n + 1], n + 1, m)
    BY DEF a
  <2>h. /\ Len(s) \in Nat /\ Len(t) \in Nat /\ Len(s) < Len(t) /\ Begins(s, t) /\ IsScan(s, f)
        /\ \A i \in 1..Len(s) : s[i].type # "execution.completed"
        /\ Len(t) = Len(s) + 1 => a = f[Len(s)]
        /\ Len(t) # Len(s) + 1 => a = ScanEvent(f[Len(s)], t[Len(s) + 1], Len(s) + 1, Len(t))
        /\ \A i \in (Len(s) + 2)..(Len(t) - 1) : ScanEvent(a, t[i], i, Len(t)) = a
    BY <1>1, <1>3, <1>4, <1>8, <1>n, <2>1, <2>2
  <2>3. \E g : IsScan(t, g) /\ g[Len(t)] = ScanEvent(a, t[Len(t)], Len(t), Len(t))
    BY <2>h, ScanGrows
  <2> QED
    BY <1>n, <2>3
<1>10. Resting(b, d.step)
  <2>1. t[m].type = "tool.response" /\ m > 1
    BY <1>1, <1>2 DEF ResponseEvent
  <2>2. ToolOpen(a, OpenTool(t[m]), d.step)
    BY <1>6, <1>7
  <2> QED
    BY <1>1, <2>1, <2>2, ScanToolResponse
<1>11. LastOf(e).type = "tool.response"
  BY <1>2, <1>n DEF LastOf, ResponseEvent, t
<1>12. Scanned(e, b)
  BY <1>2, <1>10, <1>11 DEF Scanned, AsksModel
<1>13. \A i \in 1..(m - 1) : t[i].type # "execution.completed"
  <2>1. \A i \in 1..(m - 1) : i \in 1..n \/ i = n + 1 \/ i \in (n + 2)..(m - 1)
    BY <1>1, <1>2
  <2>2. t[n + 1].type # "execution.completed"
    BY <1>2 DEF RequestEvent
  <2>3. \A i \in (n + 2)..(m - 1) : t[i].type # "execution.completed"
    BY <1>2 DEF Inside
  <2> QED
    BY <1>2, <1>3, <2>1, <2>2, <2>3
<1> HIDE DEF b
<1> QED
  BY <1>9, <1>11, <1>12, <1>13, <1>n DEF Grammatical, t

(***************************************************************************)
(* The strengthening: an abandoned request waits for an answer to what is  *)
(* stored, calls are named, and each process stands where the last event   *)
(* lets it.                                                                *)
(***************************************************************************)
RequestFits(d) == AsksModel(d) => ~HasPending(d.transcript) /\ ~IsFinal(d.transcript)

Named(d) == NoName \notin CallIdsIn(d.transcript)

RowsFit(d) ==
    /\ Failures(d) = {} => Grammatical(d)
    /\ RequestFits(d)
    /\ Named(d)

(* Past the point where the history asks for another turn. *)
Requesting == {"request", "append", "provider", "save", "refused"}

(* A process took its branch for a reason. *)
ReadFits(x) ==
    /\ x.used \in Nat
    /\ x.pc = "complete" => IsFinal(x.history)
    /\ x.pc \in Requesting => ~IsFinal(x.history)
    /\ x.pc = "pause" => x.used >= maxSteps

(* Where an owner stands against the last event: after a turn of its own   *)
(* no request is open, and it calls the provider with one open.            *)
LastFits(x, d) ==
    /\ x.pc \in {"loop", "pause"} /\ x.used # 0 => ~AsksModel(d)
    /\ x.pc = "append" => ~AsksModel(d)
    /\ x.pc \in {"provider", "save"} => AsksModel(d)

ProcFits(p) == ReadFits(proc[p]) /\ (Owns(p) => LastFits(proc[p], db))

Fits == RowsFit(db) /\ \A p \in Procs : ProcFits(p)

(* The processes a step leaves alone. *)
LEMMA OthersFit ==
  ASSUME IInv, Fits, NEW p \in Procs, NEW q \in Procs, q # p, proc'[q] = proc[q],
         \/ UNCHANGED <<db, fence>>
         \/ fence' = fence + 1
         \/ fence' = fence /\ Owns(p) /\ ~At(p, "idle")
  PROVE  ProcFits(q)'
<1>1. ProcFits(q) /\ proc[q].token \in Nat /\ fence \in Nat /\ proc[q].token <= fence
  BY DEF Fits, IInv, ProcsInv, InOrder, IsProc
<1>2. ReadFits(proc'[q])
  BY <1>1 DEF ProcFits
<1>3. CASE UNCHANGED <<db, fence>>
  BY <1>1, <1>2, <1>3 DEF ProcFits, Owns
<1>4. CASE fence' = fence + 1
  <2>1. ~Owns(q)'
    BY <1>1, <1>4 DEF Owns
  <2> QED
    BY <1>2, <2>1 DEF ProcFits
<1>5. CASE fence' = fence /\ Owns(p) /\ ~At(p, "idle")
  <2>1. At(q, "idle") \/ ~Owns(q)
    BY <1>5 DEF IInv, ProcsInv, TokensUnique, Owns
  <2>2. At(q, "idle")' \/ ~Owns(q)'
    BY <1>5, <2>1 DEF At, Owns
  <2>3. Owns(q)' => LastFits(proc'[q], db')
    BY <2>2 DEF LastFits, At
  <2> QED
    BY <1>2, <2>3 DEF ProcFits
<1> QED
  BY <1>3, <1>4, <1>5

(* A step of one process, seen from all. *)
LEMMA FitsBy ==
  ASSUME IInv, Fits, NEW p \in Procs, \A q \in Procs : q # p => proc'[q] = proc[q],
         \/ UNCHANGED <<db, fence>>
         \/ fence' = fence + 1
         \/ fence' = fence /\ Owns(p) /\ ~At(p, "idle"),
         RowsFit(db'), ReadFits(proc'[p]), Owns(p)' => LastFits(proc'[p], db')
  PROVE  Fits'
<1>1. ProcFits(p)'
  BY DEF ProcFits
<1>2. \A q \in Procs : ProcFits(q)'
  BY <1>1, OthersFit
<1> QED
  BY <1>2 DEF Fits

(* An execution that ends. *)
LEMMA FitsLeave ==
  ASSUME IInv, Fits, NEW p \in Procs, Leave(p),
         UNCHANGED <<db, fence>> \/ (fence' = fence /\ Owns(p) /\ ~At(p, "idle")),
         RowsFit(db')
  PROVE  Fits'
<1>1. proc'[p] = Idle /\ \A q \in Procs : q # p => proc'[q] = proc[q]
  BY DEF Leave, IInv, ProcsInv
<1>2. Idle.pc = "idle" /\ Idle.used = 0
  BY DEF Idle
<1>3. ReadFits(proc'[p]) /\ LastFits(proc'[p], db')
  BY <1>1, <1>2 DEF ReadFits, LastFits, Requesting
<1> QED
  BY <1>1, <1>3, FitsBy

(* What Goto leaves of a process. *)
LEMMA GotoKeeps ==
  ASSUME IInv, NEW p \in Procs, NEW pc, Goto(p, pc)
  PROVE  /\ proc'[p].pc = pc /\ proc'[p].history = proc[p].history
         /\ proc'[p].used = proc[p].used /\ proc'[p].token = proc[p].token
         /\ \A q \in Procs : q # p => proc'[q] = proc[q]
<1>1. DOMAIN proc = Procs /\ DOMAIN proc[p] = ProcFields
  BY DEF IInv, ProcsInv, InOrder, IsProc
<1>2. proc'[p] = [proc[p] EXCEPT !.pc = pc] /\ \A q \in Procs : q # p => proc'[q] = proc[q]
  BY <1>1 DEF Goto
<1> QED
  BY <1>1, <1>2 DEF ProcFields

(* A recorded failure ends the grammar. *)
LEMMA FailureFits ==
  ASSUME NEW d, RowsFit(d), NEW e, IsSeq(e.events), Len(e.events) > 0, LastOf(e).type = "error",
         LastOf(e).kind # "injected_503", e.transcript = d.transcript
  PROVE  RowsFit(e)
<1>1. Len(e.events) \in DOMAIN e.events
  BY AppendFacts
<1>2. Len(e.events) \in Failures(e)
  BY <1>1 DEF Failures, LastOf
<1>3. RequestFits(e) /\ Named(e)
  BY DEF RequestFits, AsksModel, RowsFit, Named
<1> QED
  BY <1>2, <1>3 DEF RowsFit

(* The rows SaveStatusGuarded writes. *)
LEMMA SaveStatusRows ==
  ASSUME NEW d, IsRun(d), NEW status, NEW e
  PROVE  LET f == SaveStatus(d, status, e)
         IN  f.events = Append(d.events, e) /\ f.step = d.step
<1> DEFINE c == [d EXCEPT !.status = status]
<1>1. /\ DOMAIN c = Rows /\ c.events = d.events /\ c.world = d.world /\ c.step = d.step
      /\ c.snapshots = d.snapshots /\ c.transcript = d.transcript
  BY DEF IsRun, Rows
<1> HIDE DEF c
<1>2. IsRun(c)
  BY <1>1 DEF IsRun
<1>3. Emit(c, e).events = Append(c.events, e) /\ SameRecord(c, Emit(c, e))
  BY <1>2, EmitFacts
<1> QED
  BY <1>1, <1>3 DEF SaveStatus, SameRecord, c

(* The rows SaveTurnGuarded writes. *)
LEMMA SaveTurnRows ==
  ASSUME NEW d, IsRun(d), NEW step, NEW history, NEW next
  PROVE  LET f == SaveTurn(d, step, history, next)
         IN  f.events = d.events \o Answering(next) /\ f.step = step + 1
<1> DEFINE u == Answering(next)
           c == EmitAll(d, u)
<1> HIDE DEF u
<1>1. DOMAIN c = Rows /\ c.events = d.events \o u
  BY DEF EmitAll, IsRun, Rows
<1> DEFINE m == Append(history, [role |-> "assistant", calls |-> next.calls])
<1>2. SaveTurn(d, step, history, next) = [c EXCEPT !.step = step + 1, !.transcript = m, !.status = "running"]
  BY DEF SaveTurn, u
<1> HIDE DEF c, m
<1> QED
  BY <1>1, <1>2 DEF Rows, u

(* A turn of named calls. *)
LEMMA NamedTurn ==
  ASSUME NEW d, IsRun(d), Conversed(d), Named(d), NEW ops, NEW next, IsSeq(next.calls),
         validateCalls(ops, d.transcript, next),
         NEW e, e.transcript = Append(d.transcript, AssistantEntry(next))
  PROVE  Named(e)
<1> DEFINE t == d.transcript
           m == AssistantEntry(next)
<1>1. m.role = "assistant" /\ m.calls = next.calls
  BY DEF AssistantEntry
<1> HIDE DEF m
<1>2. IsSeq(t) /\ TurnsAreLists(t) /\ IdsUnique(t)
  BY DEF IsRun, Conversed
<1>3. /\ \A j \in DOMAIN next.calls : next.calls[j].id \notin CallIdsIn(t) /\ next.calls[j].id # NoName
      /\ \A j, k \in DOMAIN next.calls : next.calls[j].id = next.calls[k].id => j = k
  BY DEF validateCalls
<1> HIDE DEF t
<1>4. CallIdsIn(Append(t, m)) \subseteq CallIdsIn(t) \cup {m.calls[j].id : j \in DOMAIN m.calls}
  BY <1>1, <1>2, <1>3, AssistantMessage
<1>5. e.transcript = Append(t, m)
  BY DEF t, m
<1> QED
  BY <1>1, <1>3, <1>4, <1>5 DEF Named, t

(* A dispatched call leaves rows that fit. *)
LEMMA FitsCall ==
  ASSUME NEW d, IsRun(d), Len(d.events) > 0, Conversed(d), RowsFit(d), d.status # "completed",
         HasPending(d.transcript), pending(d.transcript).op # NoName,
         NEW e, NEW answer, AnsweredWith(d, e, pending(d.transcript), answer)
  PROVE  RowsFit(e)
<1> DEFINE t == d.transcript
           call == pending(t)
           m == Entry(call, answer)
<1>1. IsSeq(t) /\ TurnsAreLists(t)
  BY DEF IsRun, Conversed
<1>2. call.id # NoName
  BY <1>1, PendingCall DEF CallIdsIn, RowsFit, Named
<1>3. m.role = "tool" /\ e.transcript = Append(t, m)
  BY DEF Entry, AnsweredWith
<1>4. ~AsksModel(d) /\ call.op # NoName /\ AnsweredWith(d, e, call, answer)
  BY DEF RowsFit, RequestFits
<1> HIDE DEF t, call, m
<1>5. Named(e)
  <2>1. CallsAt(Append(t, m)) = CallsAt(t) /\ \A at \in CallsAt(t) : CallAt(Append(t, m), at) = CallAt(t, at)
    BY <1>1, <1>3, ToolMessage
  <2>2. CallIdsIn(Append(t, m)) = CallIdsIn(t)
    BY <2>1 DEF CallIdsIn
  <2> QED
    BY <1>3, <2>2 DEF RowsFit, Named, t
<1>6. Extended(d, e) /\ LastOf(e).type = "tool.response"
  BY <1>4, AnsweredWrites
<1>7. RequestFits(e)
  BY <1>6 DEF RequestFits, AsksModel
<1>8. ASSUME Failures(e) = {} PROVE Grammatical(e)
  <2>1. IsSeq(d.events) /\ IsSeq(e.events) /\ Begins(d.events, e.events)
    BY <1>6 DEF Extended, IsRun
  <2>2. Failures(d) = {}
    BY <1>8, <2>1, FailuresStay
  <2>3. Grammatical(d)
    BY <2>2 DEF RowsFit
  <2> QED
    BY <1>2, <1>4, <1>8, <2>3, GrammarCall
<1> QED
  BY <1>5, <1>7, <1>8 DEF RowsFit

(* An event of its own leaves rows that fit. *)
LEMMA FitsEvent ==
  ASSUME NEW d, IsRun(d), Len(d.events) > 0, RowsFit(d), d.status # "completed", ~AsksModel(d),
         NEW e, IsRun(e), NEW v, e.events = Append(d.events, v), e.step = d.step,
         e.transcript = d.transcript,
         v.type = "execution.completed" => e.status = "completed",
         v.type = "execution.paused" => e.status = "paused",
         v.type \in {"model.request", "execution.paused", "execution.completed"},
         v.type = "model.request" => ~HasPending(d.transcript) /\ ~IsFinal(d.transcript)
  PROVE  RowsFit(e)
<1>1. IsSeq(d.events) /\ IsSeq(e.events) /\ Begins(d.events, e.events)
  BY BeginsFacts, ShortSeqs DEF IsRun
<1>2. LastOf(e) = v
  BY <1>1, AppendFacts DEF LastOf
<1>3. Named(e) /\ RequestFits(e)
  BY <1>2 DEF RowsFit, Named, RequestFits, AsksModel
<1>4. ASSUME Failures(e) = {} PROVE Grammatical(e)
  <2>1. Failures(d) = {}
    BY <1>1, <1>4, FailuresStay
  <2>2. Grammatical(d)
    BY <2>1 DEF RowsFit
  <2> QED
    BY <2>2, GrammarByOne
<1> QED
  BY <1>3, <1>4 DEF RowsFit

(* Every step leaves the rows and the processes fitting. *)
LEMMA FitsStep == ASSUME IInv, Conversed(db), Fits, Next PROVE Fits'
<1>r. /\ IsRun(db) /\ cfg \in Configs /\ DOMAIN cfg.chaos \subseteq Nat /\ Len(db.events) > 0
      /\ RowsFit(db) /\ NoName \notin cfg.ops /\ maxSteps \in Nat /\ maxSteps # 0
  BY RunnerAssumption DEF IInv, RowsInv, Fits
<1>i. ASSUME NEW p \in Procs
      PROVE  /\ ReadFits(proc[p]) /\ proc[p].used \in Nat /\ (Owns(p) => LastFits(proc[p], db))
             /\ DOMAIN proc = Procs /\ DOMAIN proc[p] = ProcFields
  BY DEF Fits, ProcFits, ReadFits, IInv, ProcsInv, InOrder, IsProc
<1>1. ASSUME NEW p \in Procs, Acquire(p) PROVE Fits'
  <2>1. PICK pc \in {"loop", "over"} :
            proc' = [proc EXCEPT ![p] = [Idle EXCEPT !.pc = pc, !.token = fence + 1]]
    BY <1>1 DEF Acquire
  <2> DEFINE x == [Idle EXCEPT !.pc = pc, !.token = fence + 1]
  <2>2. x.pc = pc /\ x.used = 0
    BY DEF Idle
  <2>3. proc' = [proc EXCEPT ![p] = x]
    BY <2>1
  <2> HIDE DEF x
  <2>4. proc'[p] = x /\ \A q \in Procs : q # p => proc'[q] = proc[q]
    BY <1>i, <2>3
  <2>5. ReadFits(proc'[p]) /\ LastFits(proc'[p], db')
    BY <2>2, <2>4 DEF ReadFits, LastFits, Requesting
  <2>6. RowsFit(db') /\ fence' = fence + 1
    BY <1>1, <1>r DEF Acquire
  <2> QED
    BY <2>4, <2>5, <2>6, FitsBy
<1>2. ASSUME NEW p \in Procs, Crash(p) \/ Fenced(p) \/ RefuseResume(p) PROVE Fits'
  <2>1. Leave(p) /\ UNCHANGED <<cfg, db, fence>>
    BY <1>2 DEF Crash, Fenced, RefuseResume
  <2> QED
    BY <1>r, <2>1, FitsLeave
<1>f. ASSUME NEW p \in Procs, Leave(p), Owns(p), ~At(p, "idle"), UNCHANGED fence, NEW status, NEW e,
             e.type = "error", e.kind # "injected_503", db' = SaveStatus(db, status, e)
      PROVE  Fits'
  <2>1. Extended(db, db') /\ LastOf(db') = e /\ db'.transcript = db.transcript
    BY <1>f, <1>r, SaveStatusWrites
  <2>2. RowsFit(db')
    BY <1>f, <1>r, <2>1, FailureFits DEF Extended, IsRun
  <2> QED
    BY <1>f, <2>2, FitsLeave
<1>3. ASSUME NEW p \in Procs, FailRunAtDeliveryLimit(p) PROVE Fits'
  <2>1. Leave(p) /\ Owns(p) /\ ~At(p, "idle") /\ fence' = fence
    BY <1>3 DEF FailRunAtDeliveryLimit, At
  <2>2. CASE Finished(db)
    BY <1>3, <1>r, <2>1, <2>2, FitsLeave DEF FailRunAtDeliveryLimit
  <2>3. CASE ~Finished(db)
    <3> DEFINE e == [type |-> "error", kind |-> "delivery_limit"]
    <3>1. db' = SaveStatus(db, "failed", e) /\ e.type = "error" /\ e.kind # "injected_503"
      BY <1>3, <2>3 DEF FailRunAtDeliveryLimit
    <3> HIDE DEF e
    <3> QED
      BY <1>f, <2>1, <3>1
  <2> QED
    BY <2>2, <2>3
<1>4. ASSUME NEW p \in Procs, RecordDispatchError(p) PROVE Fits'
  <2> DEFINE e == [type |-> "error", kind |-> "dispatch"]
  <2>1. db' = SaveStatus(db, "failed", e) /\ e.type = "error" /\ e.kind # "injected_503"
    BY <1>4 DEF RecordDispatchError
  <2>2. Leave(p) /\ Owns(p) /\ ~At(p, "idle") /\ fence' = fence
    BY <1>4 DEF RecordDispatchError, At
  <2> HIDE DEF e
  <2> QED
    BY <1>f, <2>1, <2>2
<1>5. ASSUME NEW p \in Procs, ReadRun(p) PROVE Fits'
  <2>1. UNCHANGED <<cfg, db, fence>> /\ At(p, "loop")
    BY <1>5 DEF ReadRun
  <2>2. CASE Finished(db)
    BY <1>5, <1>r, <2>1, <2>2, FitsLeave DEF ReadRun, Leave
  <2>3. CASE ~Finished(db)
    <3> DEFINE pc == Branch(p, db.transcript)
               x == [proc[p] EXCEPT !.pc = pc, !.history = db.transcript, !.step = db.step]
    <3>1. proc' = [proc EXCEPT ![p] = x]
      BY <1>5, <1>i, <2>3 DEF ReadRun
    <3>2. /\ pc \in {"dispatch", "complete", "pause", "request"}
          /\ pc = "complete" => IsFinal(db.transcript)
          /\ pc = "request" => ~IsFinal(db.transcript)
          /\ pc = "pause" => proc[p].used >= maxSteps
      BY DEF Branch
    <3> HIDE DEF pc
    <3>3. /\ x.pc = pc /\ x.history = db.transcript /\ x.used = proc[p].used /\ x.token = proc[p].token
      BY <1>i DEF ProcFields
    <3> HIDE DEF x
    <3>4. proc'[p] = x /\ \A q \in Procs : q # p => proc'[q] = proc[q]
      BY <1>i, <3>1
    <3>5. ReadFits(proc'[p])
      BY <1>i, <3>2, <3>3, <3>4 DEF ReadFits, Requesting
    <3>6. Owns(p)' => LastFits(proc'[p], db')
      BY <1>i, <2>1, <3>2, <3>3, <3>4 DEF LastFits, Owns, At
    <3> QED
      BY <1>r, <2>1, <3>4, <3>5, <3>6, FitsBy
  <2> QED
    BY <2>2, <2>3
<1>6. ASSUME NEW p \in Procs, InvokePending(p) PROVE Fits'
  <2> DEFINE call == pending(db.transcript)
             r == Invoke(cfg, db, call)
             pc == IF r.ok THEN "loop" ELSE "failing"
  <2>1. /\ proc[p].history = db.transcript /\ db.status # "completed" /\ HasPending(db.transcript)
    BY <1>6, OwnerView DEF IInv, ProcsInv, InOrder, BranchFits, InvokePending, At, Reading
  <2>2. /\ At(p, "dispatch") /\ Owns(p) /\ db' = r.db /\ Goto(p, pc) /\ UNCHANGED <<cfg, fence>>
    BY <1>6, <2>1 DEF InvokePending
  <2>3. \/ r.db = db
        \/ call.op \in cfg.ops /\ \E answer : AnsweredWith(db, r.db, call, answer)
    BY <1>r, CallIsBracketed
  <2>4. pc \in {"loop", "failing"} /\ ~At(p, "idle")
    BY <2>2 DEF At
  <2>5. ~AsksModel(db)
    BY <1>r, <2>1 DEF RowsFit, RequestFits
  <2> HIDE DEF r, pc
  <2>6. RowsFit(db') /\ ~AsksModel(db')
    <3>1. CASE r.db = db
      BY <1>r, <2>2, <2>5, <3>1
    <3>2. CASE call.op \in cfg.ops /\ \E answer : AnsweredWith(db, r.db, call, answer)
      <4>1. PICK answer : AnsweredWith(db, db', call, answer)
        BY <2>2, <3>2
      <4>2. call.op # NoName
        BY <1>r, <3>2
      <4>3. RowsFit(db')
        BY <1>r, <2>1, <4>1, <4>2, FitsCall
      <4> HIDE DEF call
      <4>4. LastOf(db').type = "tool.response"
        BY <1>r, <4>1, AnsweredWrites
      <4> QED
        BY <4>3, <4>4 DEF AsksModel
    <3> QED
      BY <2>3, <3>1, <3>2
  <2>7. /\ proc'[p].pc = pc /\ proc'[p].used = proc[p].used
        /\ \A q \in Procs : q # p => proc'[q] = proc[q]
    BY <2>2, GotoKeeps
  <2>8. ReadFits(proc'[p]) /\ LastFits(proc'[p], db')
    BY <1>i, <2>4, <2>6, <2>7 DEF ReadFits, LastFits, Requesting
  <2> QED
    BY <2>2, <2>4, <2>6, <2>7, <2>8, FitsBy
<1>e. ASSUME NEW p \in Procs, proc[p].pc \in {"complete", "pause"}, Owns(p), Leave(p), UNCHANGED fence,
             NEW status, NEW e, db' = SaveStatus(db, status, e),
             \/ e.type = "execution.completed" /\ status = "completed"
             \/ e.type = "execution.paused" /\ status = "paused"
      PROVE  Fits'
  <2>1. proc[p].history = db.transcript /\ db.status # "completed" /\ ~At(p, "idle")
    BY <1>e, OwnerView DEF Reading, At
  <2>2. ~AsksModel(db)
    <3>1. CASE proc[p].pc = "complete"
      BY <1>i, <1>r, <2>1, <3>1 DEF ReadFits, RowsFit, RequestFits
    <3>2. CASE proc[p].pc = "pause"
      <4>1. proc[p].used # 0
        BY <1>i, <1>r, <3>2 DEF ReadFits
      <4> QED
        BY <1>e, <1>i, <3>2, <4>1 DEF LastFits
    <3> QED
      BY <1>e, <3>1, <3>2
  <2>3. /\ db'.events = Append(db.events, e) /\ db'.step = db.step /\ db'.status = status
        /\ db'.transcript = db.transcript /\ IsRun(db')
    BY <1>e, <1>r, SaveStatusRows, SaveStatusWrites DEF Extended
  <2>4. RowsFit(db')
    BY <1>e, <1>r, <2>1, <2>2, <2>3, FitsEvent
  <2> QED
    BY <1>e, <2>1, <2>4, FitsLeave
<1>7. ASSUME NEW p \in Procs, Complete(p) PROVE Fits'
  <2> DEFINE e == [type |-> "execution.completed", step |-> proc[p].step]
  <2>1. e.type = "execution.completed" /\ db' = SaveStatus(db, "completed", e)
    BY <1>7 DEF Complete
  <2> HIDE DEF e
  <2> QED
    BY <1>e, <1>7, <2>1 DEF Complete, At
<1>8. ASSUME NEW p \in Procs, Pause(p) PROVE Fits'
  <2> DEFINE e == [type |-> "execution.paused", step |-> proc[p].step]
  <2>1. e.type = "execution.paused" /\ db' = SaveStatus(db, "paused", e)
    BY <1>8 DEF Pause
  <2> HIDE DEF e
  <2> QED
    BY <1>e, <1>8, <2>1 DEF Pause, At
<1>9. ASSUME NEW p \in Procs, startModelCall(p) PROVE Fits'
  <2> DEFINE pc == IF LastEvent.type # "model.request" THEN "append"
                   ELSE IF LastEvent = Reconstructed(p) THEN "provider"
                   ELSE "refused"
  <2>1. At(p, "request") /\ Goto(p, pc) /\ UNCHANGED <<cfg, db, fence>>
    BY <1>9 DEF startModelCall
  <2>2. /\ pc \in {"append", "provider", "refused"}
        /\ pc = "append" => ~AsksModel(db)
        /\ pc = "provider" => AsksModel(db)
    BY DEF AsksModel, LastOf, LastEvent
  <2> HIDE DEF pc
  <2>3. /\ proc'[p].pc = pc /\ proc'[p].history = proc[p].history /\ proc'[p].used = proc[p].used
        /\ \A q \in Procs : q # p => proc'[q] = proc[q]
    BY <2>1, GotoKeeps
  <2>4. ReadFits(proc'[p])
    BY <1>i, <2>1, <2>2, <2>3 DEF ReadFits, Requesting, At
  <2>5. LastFits(proc'[p], db')
    BY <2>1, <2>2, <2>3 DEF LastFits
  <2> QED
    BY <1>r, <2>1, <2>3, <2>4, <2>5, FitsBy
<1>10. ASSUME NEW p \in Procs, AppendRequest(p) PROVE Fits'
  <2> DEFINE v == Reconstructed(p)
  <2>1. /\ At(p, "append") /\ Owns(p) /\ db' = Emit(db, v) /\ Goto(p, "provider")
        /\ UNCHANGED <<cfg, fence>>
    BY <1>10 DEF AppendRequest
  <2>2. v.type = "model.request"
    BY DEF Reconstructed, ModelRequest
  <2> HIDE DEF v
  <2>3. /\ proc[p].history = db.transcript /\ db.status # "completed" /\ ~At(p, "idle")
        /\ ~HasPending(db.transcript)
    BY <2>1, OwnerView DEF IInv, ProcsInv, InOrder, BranchFits, At, Reading, Asking
  <2>4. ~IsFinal(db.transcript) /\ ~AsksModel(db)
    BY <1>i, <2>1, <2>3 DEF ReadFits, LastFits, Requesting, At
  <2>5. /\ db'.events = Append(db.events, v) /\ IsRun(db') /\ SameRecord(db, db') /\ LastOf(db') = v
    BY <1>r, <2>1, EmitFacts, EmitWrites
  <2>6. RowsFit(db')
    BY <1>r, <2>2, <2>3, <2>4, <2>5, FitsEvent DEF SameRecord
  <2>7. /\ proc'[p].pc = "provider" /\ proc'[p].history = proc[p].history
        /\ proc'[p].used = proc[p].used
        /\ \A q \in Procs : q # p => proc'[q] = proc[q]
    BY <2>1, GotoKeeps
  <2>8. ReadFits(proc'[p]) /\ LastFits(proc'[p], db')
    BY <1>i, <2>1, <2>2, <2>5, <2>7 DEF ReadFits, LastFits, Requesting, At, AsksModel
  <2> QED
    BY <2>1, <2>3, <2>6, <2>7, <2>8, FitsBy
<1>11. ASSUME NEW p \in Procs, CallProvider(p) PROVE Fits'
  <2>1. At(p, "provider") /\ UNCHANGED <<cfg, db, fence>>
    BY <1>11 DEF CallProvider
  <2>2. PICK outcome \in callProvider :
            proc' = [proc EXCEPT ![p].pc = "save", ![p].next = outcome.turn,
                                 ![p].failed = outcome.failed]
    BY <1>11 DEF CallProvider
  <2> DEFINE x == [proc[p] EXCEPT !.pc = "save", !.next = outcome.turn, !.failed = outcome.failed]
  <2>3. proc' = [proc EXCEPT ![p] = x]
    BY <1>i, <2>2
  <2>4. /\ x.pc = "save" /\ x.history = proc[p].history /\ x.used = proc[p].used
        /\ x.token = proc[p].token
    BY <1>i DEF ProcFields
  <2> HIDE DEF x
  <2>5. proc'[p] = x /\ \A q \in Procs : q # p => proc'[q] = proc[q]
    BY <1>i, <2>3
  <2>6. ReadFits(proc'[p])
    BY <1>i, <2>1, <2>4, <2>5 DEF ReadFits, Requesting, At
  <2>7. Owns(p)' => LastFits(proc'[p], db')
    BY <1>i, <2>1, <2>4, <2>5 DEF LastFits, Owns, At
  <2> QED
    BY <1>r, <2>1, <2>5, <2>6, <2>7, FitsBy
<1>12. ASSUME NEW p \in Procs, SaveTurnGuarded(p) PROVE Fits'
  <2> DEFINE next == proc[p].next
             x == [Idle EXCEPT !.pc = "loop", !.token = proc[p].token, !.used = proc[p].used + 1]
  <2>1. /\ At(p, "save") /\ Owns(p) /\ UNCHANGED <<cfg, fence>> /\ next.role = "assistant"
        /\ db' = SaveTurn(db, proc[p].step, proc[p].history, next)
        /\ validateCalls(cfg.ops, proc[p].history, next)
        /\ proc' = [proc EXCEPT ![p] = x]
    BY <1>12 DEF SaveTurnGuarded, Accepted
  <2>2. /\ proc[p].history = db.transcript /\ proc[p].step = db.step /\ db.status # "completed"
        /\ ~At(p, "idle")
    BY <2>1, OwnerView DEF At, Reading
  <2>3. next.interruptions \in Nat /\ IsSeq(next.calls)
    BY <2>1 DEF IInv, ProcsInv, InOrder, IsProc, At
  <2>4. x.pc = "loop" /\ x.used = proc[p].used + 1
    BY DEF Idle
  <2> HIDE DEF next, x
  <2>5. proc'[p] = x /\ \A q \in Procs : q # p => proc'[q] = proc[q]
    BY <1>i, <2>1
  <2>6. /\ Extended(db, db') /\ LastOf(db') = ModelResponse(next)
        /\ db'.transcript = Append(db.transcript, AssistantEntry(next))
    BY <1>r, <2>1, <2>2, <2>3, SaveTurnWrites
  <2>7. db'.events = db.events \o Answering(next) /\ db'.step = db.step + 1
    BY <1>r, <2>1, <2>2, SaveTurnRows
  <2>8. ~AsksModel(db') /\ AsksModel(db)
    BY <1>i, <2>1, <2>6 DEF AsksModel, ModelResponse, LastFits, At
  <2>9. RowsFit(db')
    <3>1. Named(db')
      BY <1>r, <2>1, <2>2, <2>3, <2>6, NamedTurn DEF RowsFit
    <3>2. ASSUME Failures(db') = {} PROVE Grammatical(db')
      <4>1. IsSeq(db.events) /\ IsSeq(db'.events) /\ Begins(db.events, db'.events)
        BY <1>r, <2>6 DEF Extended, IsRun
      <4>2. Failures(db) = {}
        BY <3>2, <4>1, FailuresStay
      <4>3. Grammatical(db)
        BY <1>r, <4>2 DEF RowsFit
      <4> QED
        BY <1>r, <2>1, <2>2, <2>3, <2>7, <2>8, <4>3, GrammarTurn
    <3> QED
      BY <2>8, <3>1, <3>2 DEF RowsFit, RequestFits
  <2>10. ReadFits(proc'[p]) /\ LastFits(proc'[p], db')
    BY <1>i, <2>4, <2>5, <2>8 DEF ReadFits, LastFits, Requesting
  <2> QED
    BY <2>1, <2>2, <2>5, <2>9, <2>10, FitsBy
<1>13. ASSUME NEW p \in Procs, FailModelTurnGuarded(p) PROVE Fits'
  <2>1. /\ At(p, "save") /\ Owns(p) /\ UNCHANGED <<cfg, fence>>
        /\ db' = FailModelTurn(db, proc[p].next) /\ Leave(p)
    BY <1>13 DEF FailModelTurnGuarded
  <2>2. ~At(p, "idle") /\ proc[p].next.interruptions \in Nat
    BY <2>1 DEF IInv, ProcsInv, InOrder, IsProc, At
  <2>3. /\ Extended(db, db') /\ LastOf(db').type = "error" /\ LastOf(db').kind = "provider"
        /\ db'.transcript = db.transcript
    BY <1>r, <2>1, <2>2, FailModelTurnWrites
  <2>4. RowsFit(db')
    BY <1>r, <2>3, FailureFits DEF Extended, IsRun
  <2> QED
    BY <2>1, <2>2, <2>4, FitsLeave
<1> QED
  BY <1>1, <1>2, <1>3, <1>4, <1>5, <1>6, <1>7, <1>8, <1>9, <1>10, <1>11, <1>12, <1>13 DEF Next

(* A run starts fitting. *)
LEMMA InitFits == Init => Fits
<1> SUFFICES ASSUME Init PROVE Fits
  OBVIOUS
<1> DEFINE e == [type |-> "execution.started"]
           s == <<e>>
<1>1. /\ db.events = s /\ db.transcript = << >> /\ db.step = 0
  BY NewRunFacts DEF Init
<1>2. Len(s) = 1 /\ s[1] = e /\ e.type = "execution.started"
  OBVIOUS
<1> HIDE DEF s, e
<1>3. LastOf(db) = e /\ ~AsksModel(db)
  BY <1>1, <1>2 DEF LastOf, AsksModel
<1>4. Grammatical(db)
  <2> DEFINE start == Scan(TRUE, FALSE, NoTool, 0)
             x == ScanEvent(start, e, 1, 1)
             f == [i \in 0..1 |-> IF i = 0 THEN start ELSE x]
  <2>1. Resting(x, 0)
    BY <1>2, ScanStart
  <2> HIDE DEF start, x
  <2>2. f = [i \in 0..1 |-> f[i]] /\ f[0] = start /\ f[1] = x
    OBVIOUS
  <2> HIDE DEF f
  <2>3. f[1] = ScanEvent(f[0], s[1], 1, 1)
    BY <1>2, <2>2 DEF x
  <2>a. ASSUME NEW i \in 1..1 PROVE f[i] = ScanEvent(f[i - 1], s[i], i, 1)
    <3>1. i = 1 /\ i - 1 = 0
      OBVIOUS
    <3> QED
      BY <2>3, <3>1
  <2>4. IsScan(s, f)
    <3>1. f[0] = Scan(TRUE, FALSE, NoTool, 0)
      BY <2>2 DEF start
    <3> QED
      BY <1>2, <2>2, <2>a, <3>1 DEF IsScan
  <2>5. Scanned(db, f[Len(db.events)])
    BY <1>1, <1>2, <1>3, <2>1, <2>2 DEF Scanned
  <2>6. \A i \in 1..(Len(db.events) - 1) : db.events[i].type # "execution.completed"
    BY <1>1, <1>2
  <2> QED
    BY <1>1, <1>2, <1>3, <2>4, <2>5, <2>6 DEF Grammatical
<1>5. Named(db)
  <2>1. AssistantAt(<< >>) = {}
    BY DEF AssistantAt
  <2>2. CallsAt(<< >>) = {}
    BY <2>1, CallPositions
  <2> QED
    BY <1>1, <2>2 DEF Named, CallIdsIn
<1>6. RowsFit(db)
  BY <1>3, <1>4, <1>5 DEF RowsFit, RequestFits
<1>7. \A p \in Procs : proc[p].pc = "idle" /\ proc[p].used = 0
  BY DEF Init, Idle
<1>8. \A p \in Procs : ProcFits(p)
  BY <1>7 DEF ProcFits, ReadFits, LastFits, Requesting
<1> QED
  BY <1>6, <1>8 DEF Fits

(* A grammatical ledger at rest is one List accepts. *)
LEMMA GrammarListed ==
  ASSUME NEW d, IsRun(d), Len(d.events) > 0, Grammatical(d)
  PROVE  /\ ScanLedger(d.events).ok
         /\ LastOf(d).type \in {"execution.paused", "execution.completed"} => Listable(d)
<1>1. Len(d.events) \in Nat
  BY AppendFacts DEF IsRun
<1>2. PICK f : IsScan(d.events, f) /\ Scanned(d, f[Len(d.events)])
  BY DEF Grammatical
<1> DEFINE x == ScanLedger(d.events)
<1>3. x = f[Len(d.events)]
  BY <1>1, <1>2, ScanIs
<1> HIDE DEF x
<1>4. Scanned(d, x)
  BY <1>2, <1>3
<1>5. x.ok
  BY <1>4 DEF Scanned, ModelOpen, Resting
<1>6. ASSUME LastOf(d).type \in {"execution.paused", "execution.completed"} PROVE Listable(d)
  <2>1. Resting(x, d.step)
    BY <1>4, <1>6 DEF Scanned, AsksModel
  <2>2. /\ d.status = "paused" => LastOf(d).type = "execution.paused"
        /\ d.status = "completed" => LastOf(d).type = "execution.completed"
    BY <1>6 DEF Grammatical
  <2> QED
    BY <2>1, <2>2 DEF Listable, Resting, LastOf, x
<1> QED
  BY <1>5, <1>6 DEF x

(* However processes crash, pause and take over, the ledger of a run that  *)
(* met no recorded failure keeps the grammar checkpoint.List demands, and  *)
(* List accepts it once the run rests.                                     *)
THEOREM LedgersAreListable == Spec => []CheckpointsListable
<1> DEFINE Inv == IInv /\ Conversed(db) /\ Fits
<1>1. Init => Inv
  BY InitInv, InitConversed, InitFits
<1>2. Inv /\ [Next]_vars => Inv'
  <2> SUFFICES ASSUME Inv, [Next]_vars PROVE Inv'
    OBVIOUS
  <2>1. CASE Next
    BY <2>1, StepInv, ConversedStep, FitsStep
  <2>2. CASE UNCHANGED vars
    <3>1. UNCHANGED <<cfg, db, fence, proc>>
      BY <2>2 DEF vars
    <3>2. Fits'
      BY <3>1 DEF Fits, ProcFits, Owns
    <3> QED
      BY <2>2, <3>1, <3>2, StutterInv
  <2> QED
    BY <2>1, <2>2
<1>3. Inv => CheckpointsListable
  <2> SUFFICES ASSUME Inv, Untroubled
               PROVE  /\ ScanLedger(db.events).ok
                      /\ AtRest => Listable(db)
    BY DEF CheckpointsListable
  <2>1. Grammatical(db) /\ IsRun(db) /\ Len(db.events) > 0
    BY DEF Fits, RowsFit, Untroubled, IInv, RowsInv
  <2> QED
    BY <2>1, GrammarListed DEF AtRest, LastEvent, LastOf
<1> QED
  BY <1>1, <1>2, <1>3, PTL DEF Spec
===============================================================================
