---------------------------- MODULE ToolCallProofs ----------------------------
(***************************************************************************)
(* What dispatch.Invoke does to a run's rows, for every world, policy and  *)
(* request: it leaves them alone, or it answers the call with one bracket  *)
(* of events in the ledger, one saved result and one transcript entry.     *)
(* Module DispatchProofs and RunnerProofs rest on this.                    *)
(***************************************************************************)
EXTENDS ToolCall, WellFoundedInduction, TLAPS

(***************************************************************************)
(* Natural numbers.                                                        *)
(***************************************************************************)

(* A set of natural numbers has a least element. *)
LEMMA LeastNat ==
  ASSUME NEW T, T \subseteq Nat, T # {}
  PROVE  \E x \in T : \A y \in T : x <= y
<1> DEFINE R == OpToRel(<, Nat)
<1>1. IsWellFoundedOn(R, Nat)
  BY NatLessThanWellFounded
<1>2. \A a, b \in Nat : a < b => <<a, b>> \in R
  BY DEF OpToRel
<1> HIDE DEF R
<1>3. PICK x \in T : \A y \in T : ~(<<y, x>> \in R)
  BY <1>1, WFMin
<1>4. ASSUME NEW y \in T PROVE x <= y
  <2>1. x \in Nat /\ y \in Nat
    OBVIOUS
  <2>2. ~(y < x)
    BY <1>2, <1>3, <2>1
  <2> QED
    BY <2>1, <2>2
<1> QED
  BY <1>4

(***************************************************************************)
(* Sequences of anything.                                                  *)
(***************************************************************************)
IsSeq(s) == \E S : s \in Seq(S)

(* An empty or one-element sequence is one. *)
LEMMA ShortSeqs ==
  ASSUME NEW e
  PROVE  IsSeq(<< >>) /\ IsSeq(<<e>>)
<1>1. << >> \in Seq({e}) /\ <<e>> \in Seq({e})
  OBVIOUS
<1> QED
  BY <1>1 DEF IsSeq

(* What Append does. *)
LEMMA AppendFacts ==
  ASSUME NEW s, IsSeq(s), NEW e
  PROVE  /\ IsSeq(Append(s, e))
         /\ Len(s) \in Nat /\ DOMAIN s = 1..Len(s)
         /\ Len(Append(s, e)) = Len(s) + 1
         /\ DOMAIN Append(s, e) = 1..(Len(s) + 1)
         /\ \A i \in 1..Len(s) : Append(s, e)[i] = s[i]
         /\ Append(s, e)[Len(s) + 1] = e
<1>1. PICK S : s \in Seq(S)
  BY DEF IsSeq
<1>2. s \in Seq(S \cup {e})
  BY <1>1
<1>3. Append(s, e) \in Seq(S \cup {e})
  BY <1>2
<1> QED
  BY <1>2, <1>3 DEF IsSeq

(* What concatenation does. *)
LEMMA ConcatFacts ==
  ASSUME NEW s, IsSeq(s), NEW t, IsSeq(t)
  PROVE  /\ IsSeq(s \o t)
         /\ Len(s) \in Nat /\ Len(t) \in Nat
         /\ Len(s \o t) = Len(s) + Len(t)
         /\ \A i \in 1..Len(s) : (s \o t)[i] = s[i]
         /\ \A i \in 1..Len(t) : (s \o t)[Len(s) + i] = t[i]
<1>1. PICK S : s \in Seq(S)
  BY DEF IsSeq
<1>2. PICK T : t \in Seq(T)
  BY DEF IsSeq
<1>3. s \in Seq(S \cup T) /\ t \in Seq(S \cup T)
  BY <1>1, <1>2
<1>4. s \o t \in Seq(S \cup T)
  BY <1>3
<1> QED
  BY <1>3, <1>4 DEF IsSeq

(***************************************************************************)
(* The rows of a run, and what the inside of a call may do to them.        *)
(***************************************************************************)
Rows == {"run", "world", "callIndex", "rules", "snapshots", "hidden", "consumed",
         "results", "transcript", "step", "status", "events"}

Tables == {"refunded", "refunds", "status", "notes", "issues", "comments", "messages"}

(* An answer is a status and a body. *)
IsReply(a) == a = [status |-> a.status, body |-> a.body]

IsRun(db) ==
    /\ DOMAIN db = Rows
    /\ DOMAIN db.world = Tables
    /\ IsSeq(db.events)
    /\ IsSeq(db.transcript)
    /\ \A s \in db.snapshots : IsReply(s.answer)

(* The events written between a call's request and its response. *)
Inside == {"state.mutation", "retry", "chaos.injected", "chaos.actor_mutation",
           "authorization.allowed", "authorization.denied", "error"}

(* d's ledger is db's and then only events of these types. *)
GrowsBy(db, d, types) ==
    /\ Len(db.events) <= Len(d.events)
    /\ \A i \in 1..Len(db.events) : d.events[i] = db.events[i]
    /\ \A i \in (Len(db.events) + 1)..Len(d.events) : d.events[i].type \in types

(* Neither the run row nor the saved results have changed. *)
SameRecord(db, d) ==
    /\ d.run = db.run
    /\ d.results = db.results
    /\ d.transcript = db.transcript
    /\ d.step = db.step
    /\ d.status = db.status

(* d is db with a call under way in it. *)
Underway(db, d) ==
    /\ IsRun(d)
    /\ GrowsBy(db, d, Inside)
    /\ SameRecord(db, d)
    /\ db.world.refunds \subseteq d.world.refunds

(* A call has nothing to show before it has done something. *)
LEMMA UnderwayRefl == ASSUME NEW db, IsRun(db) PROVE Underway(db, db)
<1>1. Len(db.events) \in Nat
  BY AppendFacts DEF IsRun
<1> QED
  BY <1>1 DEF Underway, GrowsBy, SameRecord

(* A step that leaves ledger, run row, results and world alone. *)
LEMMA UnderwayKept ==
  ASSUME NEW db, NEW d, Underway(db, d), NEW e,
         DOMAIN e = Rows, e.events = d.events, e.world = d.world, SameRecord(d, e),
         \A s \in e.snapshots : IsReply(s.answer)
  PROVE  Underway(db, e)
  BY DEF Underway, IsRun, GrowsBy, SameRecord

(* A handler that ran has only added refunds. *)
LEMMA UnderwayWorld ==
  ASSUME NEW db, NEW d, Underway(db, d), NEW w,
         DOMAIN w = Tables, d.world.refunds \subseteq w.refunds
  PROVE  Underway(db, [d EXCEPT !.world = w])
<1> DEFINE e == [d EXCEPT !.world = w]
<1>1. /\ DOMAIN e = Rows /\ e.world = w /\ e.events = d.events /\ SameRecord(d, e)
      /\ e.snapshots = d.snapshots
  BY DEF Underway, IsRun, Rows, SameRecord
<1> HIDE DEF e
<1>2. IsRun(e)
  BY <1>1 DEF Underway, IsRun, SameRecord
<1>3. GrowsBy(db, e, Inside)
  BY <1>1 DEF Underway, GrowsBy
<1>4. SameRecord(db, e)
  BY <1>1 DEF Underway, SameRecord
<1>5. db.world.refunds \subseteq e.world.refunds
  BY <1>1 DEF Underway
<1>6. Underway(db, e)
  BY <1>2, <1>3, <1>4, <1>5 DEF Underway
<1> QED
  BY <1>6 DEF e

(* What Emit does. *)
LEMMA EmitFacts ==
  ASSUME NEW db, IsRun(db), NEW e
  PROVE  /\ IsRun(Emit(db, e))
         /\ Emit(db, e).events = Append(db.events, e)
         /\ Emit(db, e).world = db.world
         /\ Emit(db, e).callIndex = db.callIndex
         /\ Emit(db, e).snapshots = db.snapshots
         /\ SameRecord(db, Emit(db, e))
<1>1. /\ DOMAIN Emit(db, e) = Rows
      /\ Emit(db, e).events = Append(db.events, e)
      /\ Emit(db, e).world = db.world
      /\ Emit(db, e).callIndex = db.callIndex
      /\ Emit(db, e).snapshots = db.snapshots
      /\ SameRecord(db, Emit(db, e))
  BY DEF Emit, IsRun, Rows, SameRecord
<1>2. IsSeq(Append(db.events, e))
  BY AppendFacts DEF IsRun
<1> QED
  BY <1>1, <1>2 DEF IsRun, SameRecord

(* An event of the call is added to the ledger. *)
LEMMA UnderwayEmit ==
  ASSUME NEW db, IsRun(db), NEW d, Underway(db, d), NEW e, e.type \in Inside
  PROVE  Underway(db, Emit(d, e))
<1> DEFINE f == Emit(d, e)
<1>1. IsRun(d)
  BY DEF Underway
<1>2. IsRun(f) /\ f.events = Append(d.events, e) /\ f.world = d.world /\ SameRecord(d, f)
  BY <1>1, EmitFacts
<1> HIDE DEF f
<1>3. /\ Len(d.events) \in Nat /\ Len(f.events) = Len(d.events) + 1
      /\ \A i \in 1..Len(d.events) : f.events[i] = d.events[i]
      /\ f.events[Len(d.events) + 1] = e
  BY <1>1, <1>2, AppendFacts DEF IsRun
<1>4. Len(db.events) \in Nat
  BY AppendFacts DEF IsRun
<1>5. GrowsBy(db, f, Inside)
  <2>1. /\ Len(db.events) <= Len(d.events)
        /\ \A i \in 1..Len(db.events) : d.events[i] = db.events[i]
        /\ \A i \in (Len(db.events) + 1)..Len(d.events) : d.events[i].type \in Inside
    BY DEF Underway, GrowsBy
  <2>2. Len(db.events) <= Len(f.events) /\ \A i \in 1..Len(db.events) : f.events[i] = db.events[i]
    BY <1>3, <1>4, <2>1
  <2>3. ASSUME NEW i \in (Len(db.events) + 1)..Len(f.events)
        PROVE  f.events[i].type \in Inside
    <3>1. CASE i \in (Len(db.events) + 1)..Len(d.events)
      <4>1. f.events[i] = d.events[i]
        BY <1>3, <1>4, <3>1
      <4> QED
        BY <2>1, <3>1, <4>1
    <3>2. CASE i = Len(d.events) + 1
      BY <1>3, <3>2
    <3> QED
      BY <1>3, <1>4, <3>1, <3>2
  <2> QED
    BY <2>2, <2>3 DEF GrowsBy
<1>6. SameRecord(db, f)
  BY <1>2 DEF Underway, SameRecord
<1>7. Underway(db, f)
  BY <1>2, <1>5, <1>6 DEF Underway
<1> QED
  BY <1>7 DEF f

(***************************************************************************)
(* The services.                                                           *)
(***************************************************************************)

(* What the call under way may count on from a handler that returned h. *)
Behaves(w, h) ==
    /\ DOMAIN h.world = Tables
    /\ w.refunds \subseteq h.world.refunds
    /\ IsReply(h.answer)

(* Every answer is made by Reply. *)
LEMMA RepliesReply ==
  ASSUME NEW status, NEW text, NEW n, NEW rows
  PROVE  IsReply(Reply(status, text, n, rows)) /\ IsReply(Answer(status, text, n))
  BY DEF IsReply, Answer, Reply

(* billing.Handle writes nothing but a refund and its charge's total. *)
LEMMA BillingBehaves ==
  ASSUME NEW seed, NEW w, DOMAIN w = Tables, NEW id, NEW call
  PROVE  Behaves(w, BillingHandle(seed, w, id, call))
<1> DEFINE h == BillingHandle(seed, w, id, call)
<1>1. Behaves(w, createRefund(seed, w, id, call))
  <2> DEFINE c == createRefund(seed, w, id, call)
  <2>1. DOMAIN c.world = Tables /\ w.refunds \subseteq c.world.refunds
    BY DEF createRefund, Refuse, Handled, Tables
  <2>2. IsReply(c.answer)
    BY DEF createRefund, Refuse, Handled, Answer, Reply, IsReply
  <2> QED
    BY <2>1, <2>2 DEF Behaves
<1>2. h = createRefund(seed, w, id, call) \/ h.world = w
  BY DEF BillingHandle, Read, Refuse, Handled
<1>3. h = createRefund(seed, w, id, call) \/ IsReply(h.answer)
  BY DEF BillingHandle, ChargeBody, Read, Refuse, Handled, Answer, Reply, IsReply
<1> QED
  BY <1>1, <1>2, <1>3 DEF Behaves

(* crm.Handle leaves the refunds alone. *)
LEMMA CrmBehaves ==
  ASSUME NEW seed, NEW w, DOMAIN w = Tables, NEW id, NEW call
  PROVE  Behaves(w, CrmHandle(seed, w, id, call))
<1> DEFINE h == CrmHandle(seed, w, id, call)
<1>1. DOMAIN h.world = Tables /\ w.refunds \subseteq h.world.refunds
  BY DEF CrmHandle, Read, Refuse, Handled, Tables
<1>2. IsReply(h.answer)
  BY DEF CrmHandle, Read, Refuse, Handled, Answer, Reply, IsReply
<1> QED
  BY <1>1, <1>2 DEF Behaves

(* ticketing.Handle leaves the refunds alone. *)
LEMMA TicketBehaves ==
  ASSUME NEW seed, NEW w, DOMAIN w = Tables, NEW id, NEW call
  PROVE  Behaves(w, TicketHandle(seed, w, id, call))
<1> DEFINE h == TicketHandle(seed, w, id, call)
           new == [w EXCEPT !.issues = @ \cup {NewIssue(id, call)}]
<1>1. ASSUME NEW i PROVE Behaves(w, OnIssue(w, id, call, i))
  <2>1. LET v == OnIssue(w, id, call, i).world
        IN  DOMAIN v = Tables /\ w.refunds \subseteq v.refunds
    BY DEF OnIssue, Refuse, Handled, Tables
  <2>2. IsReply(OnIssue(w, id, call, i).answer)
    BY DEF OnIssue, Refuse, Handled, IssueBody, Answer, Reply, IsReply
  <2> QED
    BY <2>1, <2>2 DEF Behaves
<1>2. DOMAIN new = Tables /\ w.refunds \subseteq new.refunds
  BY DEF Tables
<1> DEFINE i == CHOOSE j \in loadIssue(w, call.target) : TRUE
<1>3. h = OnIssue(w, id, call, i) \/ h.world \in {w, new}
  BY DEF TicketHandle, Read, Refuse, Handled
<1>4. h = OnIssue(w, id, call, i) \/ IsReply(h.answer)
  BY DEF TicketHandle, Read, Refuse, Handled, IssueBody, Answer, Reply, IsReply
<1> QED
  BY <1>1, <1>2, <1>3, <1>4 DEF Behaves

(* messaging.Handle leaves the refunds alone. *)
LEMMA MessageBehaves ==
  ASSUME NEW seed, NEW w, DOMAIN w = Tables, NEW id, NEW call
  PROVE  Behaves(w, MessageHandle(seed, w, id, call))
<1> DEFINE h == MessageHandle(seed, w, id, call)
<1>1. DOMAIN h.world = Tables /\ w.refunds \subseteq h.world.refunds
  BY DEF MessageHandle, Read, Refuse, Handled, Tables
<1>2. IsReply(h.answer)
  BY DEF MessageHandle, Read, Refuse, Handled, Answer, Reply, IsReply
<1> QED
  BY <1>1, <1>2 DEF Behaves

(* No behaviour takes a refund back. *)
LEMMA HandleBehaves ==
  ASSUME NEW seed, NEW w, DOMAIN w = Tables, NEW id, NEW call
  PROVE  Behaves(w, Handle(seed, w, id, call))
  BY BillingBehaves, CrmBehaves, TicketBehaves, MessageBehaves DEF Handle

(***************************************************************************)
(* The stages of Invoke.                                                   *)
(***************************************************************************)

(* A policy's decision adds its audit event at most. *)
LEMMA AuthorizeStage ==
  ASSUME NEW db, IsRun(db), NEW d, Underway(db, d), NEW cfg, NEW call
  PROVE  Underway(db, Authorize(cfg, d, call).db)
<1> DEFINE e == [d EXCEPT !.callIndex = d.callIndex + 1]
<1>1. Underway(db, e)
  <2>1. /\ DOMAIN e = Rows /\ e.events = d.events /\ e.world = d.world
        /\ SameRecord(d, e) /\ e.snapshots = d.snapshots
    BY DEF Underway, IsRun, Rows, SameRecord
  <2> QED
    BY <2>1, UnderwayKept DEF Underway, IsRun
<1> HIDE DEF e
<1>2. ASSUME NEW reason PROVE Underway(db, Judged(e, call, reason).db)
  <2> DEFINE audit(type) == [type |-> type, call |-> call.id, op |-> call.op, index |-> e.callIndex]
  <2>1. /\ audit("authorization.allowed").type \in Inside
        /\ audit("authorization.denied").type \in Inside
    BY DEF Inside
  <2>2. \E type \in {"authorization.allowed", "authorization.denied"} :
            Judged(e, call, reason).db = Emit(e, audit(type))
    BY DEF Judged, Stage
  <2> HIDE DEF audit
  <2> QED
    BY <1>1, <2>1, <2>2, UnderwayEmit
<1>3. \/ Authorize(cfg, d, call).db = d
      \/ \E reason : Authorize(cfg, d, call) = Judged(e, call, reason)
  BY DEF Authorize, Stage, e
<1> QED
  BY <1>2, <1>3

(* The checks before chaos. *)
LEMMA CheckStage ==
  ASSUME NEW db, IsRun(db), NEW d, Underway(db, d), NEW cfg, NEW call
  PROVE  Underway(db, Check(cfg, d, call).db)
<1>1. Check(cfg, d, call).db = d \/ Check(cfg, d, call) = Authorize(cfg, d, call)
  BY DEF Check, Stage
<1> QED
  BY <1>1, AuthorizeStage

(* chaos.Decide changes the rules' counters only. *)
LEMMA DecideStage ==
  ASSUME NEW db, IsRun(db), NEW d, Underway(db, d), NEW cfg, NEW call
  PROVE  Underway(db, ChaosDecide(cfg, d, call).db)
<1>1. ASSUME NEW c, Underway(db, c), NEW v PROVE Underway(db, [c EXCEPT !.rules = v])
  <2> DEFINE e == [c EXCEPT !.rules = v]
  <2>1. /\ DOMAIN e = Rows /\ e.events = c.events /\ e.world = c.world
        /\ SameRecord(c, e) /\ e.snapshots = c.snapshots
    BY <1>1 DEF Underway, IsRun, Rows, SameRecord
  <2> HIDE DEF e
  <2>2. Underway(db, e)
    BY <1>1, <2>1, UnderwayKept DEF Underway, IsRun
  <2> QED
    BY <2>2 DEF e
<1> DEFINE c == Advance(cfg, d, call)
<1>2. Underway(db, c)
  BY <1>1 DEF Advance
<1> HIDE DEF c
<1>3. ASSUME NEW active PROVE Underway(db, Select(c, active).db)
  <2> DEFINE first == CHOOSE i \in active : \A j \in active : i <= j
             v == [c.rules EXCEPT ![first].injections = @ + 1]
  <2>1. Select(c, active).db = c \/ Select(c, active).db = [c EXCEPT !.rules = v]
    BY DEF Select
  <2> HIDE DEF v
  <2> QED
    BY <1>1, <1>2, <2>1
<1> QED
  BY <1>3 DEF ChaosDecide, SelectActive, c

(* A stale_read rule is only selected when it has something to show. *)
Showable(cfg, db, i, call) ==
    RuleType(cfg, i) = "stale_read" => Snapshots(db, i, call) # {}

(* chaos.Decide selects an active rule. *)
LEMMA DecideSelects ==
  ASSUME NEW cfg, DOMAIN cfg.chaos \subseteq Nat, NEW d, IsRun(d), NEW call
  PROVE  Showable(cfg, ChaosDecide(cfg, d, call).db, ChaosDecide(cfg, d, call).rule, call)
<1> DEFINE c == Advance(cfg, d, call)
           active == {i \in Matching(cfg, call) : Active(cfg, c, i, call)}
           first == CHOOSE i \in active : \A j \in active : i <= j
           v == [c.rules EXCEPT ![first].injections = @ + 1]
           e == ChaosDecide(cfg, d, call)
<1>1. DOMAIN c = Rows
  BY DEF Advance, IsRun
<1>2. e = Select(c, active)
  BY DEF ChaosDecide, SelectActive
<1>3. CASE active = {}
  <2>1. e.rule = NoRule
    BY <1>2, <1>3 DEF Select
  <2> QED
    BY <2>1 DEF Showable, RuleType
<1>4. CASE active # {}
  <2>1. active \subseteq Nat
    BY DEF Matching
  <2>2. first \in active
    <3> HIDE DEF active
    <3> QED
      BY <1>4, <2>1, LeastNat
  <2>3. e.rule = first /\ e.db = [c EXCEPT !.rules = v]
    BY <1>2, <1>4 DEF Select
  <2>4. Active(cfg, c, first, call)
    BY <2>2
  <2> HIDE DEF first, v, c, e
  <2>5. e.db.snapshots = c.snapshots
    BY <1>1, <2>3 DEF Rows
  <2>6. cfg.chaos[first].type = "stale_read" => Snapshots(c, first, call) # {}
    BY <2>4 DEF Active
  <2>7. Snapshots(e.db, first, call) = Snapshots(c, first, call)
    BY <2>5 DEF Snapshots
  <2>8. Showable(cfg, e.db, e.rule, call)
    BY <2>3, <2>6, <2>7 DEF Showable, RuleType
  <2> QED
    BY <2>8 DEF e
<1> QED
  BY <1>3, <1>4

(* A stale_read rule's event leaves the snapshots alone. *)
LEMMA BeforeShows ==
  ASSUME NEW cfg, NEW d, IsRun(d), NEW i, NEW call, Showable(cfg, d, i, call)
  PROVE  Showable(cfg, BeforeHandler(cfg, d, i, call).db, i, call)
<1> DEFINE e == Emit(d, Injected(cfg, d, i, call))
<1>1. CASE RuleType(cfg, i) = "stale_read"
  <2>1. BeforeHandler(cfg, d, i, call).db = e
    BY <1>1 DEF BeforeHandler, PostEffect
  <2>2. e.snapshots = d.snapshots
    BY EmitFacts
  <2> HIDE DEF e
  <2> QED
    BY <2>1, <2>2 DEF Showable, Snapshots
<1>2. CASE RuleType(cfg, i) # "stale_read"
  BY <1>2 DEF Showable
<1> QED
  BY <1>1, <1>2

(* Whatever the effect answers is an answer. *)
LEMMA EffectReplies ==
  ASSUME NEW cfg, NEW d, IsRun(d), NEW i, NEW call, Showable(cfg, d, i, call), i # NoRule
  PROVE  IsReply(PreAnswer(cfg, d, i, call))
<1>1. CASE cfg.chaos[i].type = "stale_read"
  <2> DEFINE s == CHOOSE s \in Snapshots(d, i, call) : TRUE
  <2>1. Snapshots(d, i, call) # {}
    BY <1>1 DEF Showable, RuleType
  <2>2. s \in d.snapshots
    BY <2>1 DEF Snapshots
  <2>3. PreAnswer(cfg, d, i, call) = s.answer
    BY <1>1 DEF PreAnswer
  <2> HIDE DEF s
  <2> QED
    BY <2>2, <2>3 DEF IsRun
<1>2. CASE cfg.chaos[i].type # "stale_read"
  BY <1>2 DEF PreAnswer, Unanswered, Answer, Reply, IsReply
<1> QED
  BY <1>1, <1>2

(* Before the handler: the injection's event and the actor's write. *)
LEMMA BeforeStage ==
  ASSUME NEW db, IsRun(db), NEW d, Underway(db, d), NEW cfg, NEW i, NEW call
  PROVE  Underway(db, BeforeHandler(cfg, d, i, call).db)
<1> DEFINE e == Emit(d, Injected(cfg, d, i, call))
<1>1. Underway(db, e)
  <2>1. Injected(cfg, d, i, call).type \in Inside
    BY DEF Injected, Inside
  <2> QED
    BY <2>1, UnderwayEmit
<1> HIDE DEF e
<1>2. ASSUME NEW rule, NEW n PROVE Underway(db, invokeActor(cfg, e, rule, n).db)
  <2> DEFINE row == ActorRow(e, rule, n)
             w == Handle(cfg.seed, e.world, row, rule.actor).world
             m == Mutation("chaos.actor_mutation", row, rule.actor)
  <2>1. invokeActor(cfg, e, rule, n).db = Emit([e EXCEPT !.world = w], m)
    BY DEF invokeActor, ActorWrote
  <2>2. m.type \in Inside
    BY DEF Mutation, Inside
  <2>3. DOMAIN w = Tables /\ e.world.refunds \subseteq w.refunds
    BY <1>1, HandleBehaves DEF Underway, IsRun, Behaves
  <2> HIDE DEF w, m
  <2>4. Underway(db, [e EXCEPT !.world = w])
    BY <1>1, <2>3, UnderwayWorld
  <2> QED
    BY <2>1, <2>2, <2>4, UnderwayEmit
<1>3. \/ BeforeHandler(cfg, d, i, call).db = d
      \/ BeforeHandler(cfg, d, i, call).db = e
      \/ \E rule, n : BeforeHandler(cfg, d, i, call) = invokeActor(cfg, e, rule, n)
  BY DEF BeforeHandler, e
<1> QED
  BY <1>1, <1>2, <1>3

(* The handler, with the retry event before it and a snapshot after it. *)
LEMMA HandlerStage ==
  ASSUME NEW db, IsRun(db), NEW d, Underway(db, d), NEW cfg, NEW call
  PROVE  Underway(db, RunHandler(cfg, d, call).db) /\ IsReply(RunHandler(cfg, d, call).answer)
<1> DEFINE retry == [type |-> "retry", call |-> call.id]
           e == IF RetryDue(cfg, d, call) THEN Emit(d, retry) ELSE d
           done == Handle(cfg.seed, d.world, AgentRow(d, call), call)
           v == [e EXCEPT !.world = done.world]
<1>1. Underway(db, e) /\ e.world = d.world
  <2>1. retry.type \in Inside
    BY DEF Inside
  <2> HIDE DEF retry
  <2>2. Underway(db, Emit(d, retry)) /\ Emit(d, retry).world = d.world
    BY <2>1, UnderwayEmit, EmitFacts DEF Underway
  <2> QED
    BY <2>2
<1>2. Behaves(d.world, done)
  BY HandleBehaves DEF Underway, IsRun
<1>3. RunHandler(cfg, d, call) = HandlerRan(cfg, e, call, done)
  BY DEF RunHandler
<1> HIDE DEF e, done
<1>4. Underway(db, v)
  BY <1>1, <1>2, UnderwayWorld DEF Behaves
<1>5. ASSUME NEW x, \A s \in x : IsReply(s.answer)
      PROVE  Underway(db, [v EXCEPT !.snapshots = x])
  <2> DEFINE u == [v EXCEPT !.snapshots = x]
  <2> HIDE DEF v
  <2>1. /\ DOMAIN u = Rows /\ u.events = v.events /\ u.world = v.world
        /\ SameRecord(v, u) /\ u.snapshots = x
    BY <1>4 DEF Underway, IsRun, Rows, SameRecord
  <2> HIDE DEF u
  <2>2. Underway(db, u)
    BY <1>4, <1>5, <2>1, UnderwayKept
  <2> QED
    BY <2>2 DEF u
<1>6. /\ \/ HandlerRan(cfg, e, call, done).db = v
         \/ HandlerRan(cfg, e, call, done).db = SaveSnapshot(cfg, v, call, done.answer)
      /\ HandlerRan(cfg, e, call, done).answer = done.answer
  BY DEF HandlerRan, Outcome
<1>7. Underway(db, SaveSnapshot(cfg, v, call, done.answer))
  <2> HIDE DEF v
  <2>1. \E I : SaveSnapshot(cfg, v, call, done.answer) =
            [v EXCEPT !.snapshots = v.snapshots \cup
                {[rule |-> i, args |-> Arguments(call), answer |-> done.answer] : i \in I}]
    BY DEF SaveSnapshot
  <2>2. PICK I : SaveSnapshot(cfg, v, call, done.answer) =
            [v EXCEPT !.snapshots = v.snapshots \cup
                {[rule |-> i, args |-> Arguments(call), answer |-> done.answer] : i \in I}]
    BY <2>1
  <2> DEFINE x == v.snapshots \cup
                {[rule |-> i, args |-> Arguments(call), answer |-> done.answer] : i \in I}
  <2>3. \A s \in x : IsReply(s.answer)
    BY <1>2, <1>4 DEF Underway, IsRun, Behaves
  <2> HIDE DEF x
  <2>4. Underway(db, [v EXCEPT !.snapshots = x])
    BY <1>5, <2>3 DEF v
  <2> QED
    BY <2>2, <2>4 DEF x
<1> HIDE DEF v
<1> QED
  BY <1>2, <1>3, <1>4, <1>6, <1>7 DEF Behaves

OutcomeFields == {"db", "answer", "mutated"}

(* Whoever answers: the effect, the legacy fault or the handler. *)
LEMMA ServeStage ==
  ASSUME NEW db, IsRun(db), NEW d, Underway(db, d), NEW cfg, NEW i, NEW call, NEW pre, IsReply(pre)
  PROVE  /\ DOMAIN Serve(cfg, d, i, call, pre) = OutcomeFields
         /\ Underway(db, Serve(cfg, d, i, call, pre).db)
         /\ IsReply(Serve(cfg, d, i, call, pre).answer)
<1> DEFINE fault == [type |-> "error", kind |-> "injected_503", call |-> call.id]
           e == [d EXCEPT !.consumed = TRUE]
           s == Serve(cfg, d, i, call, pre)
<1>1. Underway(db, e)
  <2>1. /\ DOMAIN e = Rows /\ e.events = d.events /\ e.world = d.world
        /\ SameRecord(d, e) /\ e.snapshots = d.snapshots
    BY DEF Underway, IsRun, Rows, SameRecord
  <2> HIDE DEF e
  <2> QED
    BY <2>1, UnderwayKept DEF Underway, IsRun
<1>2. fault.type \in Inside
  BY DEF Inside
<1>3. \/ s = Outcome(d, pre, FALSE)
      \/ s = Outcome(Emit(e, fault), Answer(503, "unavailable", 0), FALSE)
      \/ s = RunHandler(cfg, d, call)
  BY DEF Serve
<1> HIDE DEF e, fault, s
<1>4. DOMAIN RunHandler(cfg, d, call) = OutcomeFields
  BY DEF RunHandler, HandlerRan, Outcome, OutcomeFields
<1>5. /\ Underway(db, Emit(e, fault)) /\ IsReply(Answer(503, "unavailable", 0))
      /\ Underway(db, RunHandler(cfg, d, call).db) /\ IsReply(RunHandler(cfg, d, call).answer)
  BY <1>1, <1>2, UnderwayEmit, HandlerStage, RepliesReply
<1>6. DOMAIN s = OutcomeFields /\ Underway(db, s.db) /\ IsReply(s.answer)
  BY <1>3, <1>4, <1>5 DEF Outcome, OutcomeFields
<1> QED
  BY <1>6 DEF s

(* An effect on the answer keeps the outcome it hides. *)
LEMMA HideStage ==
  ASSUME NEW db, IsRun(db), NEW done, DOMAIN done = OutcomeFields, Underway(db, done.db),
         IsReply(done.answer), NEW cfg, NEW i, NEW call
  PROVE  /\ DOMAIN HideOutcome(cfg, done, i, call) = OutcomeFields
         /\ Underway(db, HideOutcome(cfg, done, i, call).db)
         /\ IsReply(HideOutcome(cfg, done, i, call).answer)
<1> DEFINE h == HideOutcome(cfg, done, i, call)
           x == done.db.hidden \cup {[call |-> call.id, rule |-> cfg.chaos[i].id, answer |-> done.answer]}
           kept == [done.db EXCEPT !.hidden = x]
           undo == [done.db EXCEPT !.rules[i].injections = @ - 1]
           inj == Injected(cfg, done.db, i, call)
<1>1. DOMAIN h = OutcomeFields /\ (h.db = undo \/ h.db = Emit(kept, inj))
  BY DEF HideOutcome, OutcomeFields
<1>a. IsReply(h.answer)
  BY RepliesReply DEF HideOutcome, OutcomeFields
<1> HIDE DEF h, x
<1>2. Underway(db, kept)
  <2>1. /\ DOMAIN kept = Rows /\ kept.events = done.db.events
        /\ kept.world = done.db.world /\ SameRecord(done.db, kept)
        /\ kept.snapshots = done.db.snapshots
    BY DEF Underway, IsRun, Rows, SameRecord
  <2> HIDE DEF kept
  <2> QED
    BY <2>1, UnderwayKept DEF Underway, IsRun
<1>3. Underway(db, undo)
  <2>1. /\ DOMAIN undo = Rows /\ undo.events = done.db.events
        /\ undo.world = done.db.world /\ SameRecord(done.db, undo)
        /\ undo.snapshots = done.db.snapshots
    BY DEF Underway, IsRun, Rows, SameRecord
  <2> HIDE DEF undo
  <2> QED
    BY <2>1, UnderwayKept DEF Underway, IsRun
<1>4. inj.type \in Inside
  BY DEF Injected, Inside
<1> HIDE DEF kept, undo, inj
<1>5. Underway(db, h.db)
  BY <1>1, <1>2, <1>3, <1>4, UnderwayEmit
<1> QED
  BY <1>1, <1>5, <1>a DEF h

(* The handler with what chaos does around it. *)
LEMMA RunStage ==
  ASSUME NEW db, IsRun(db), NEW cfg, NEW decided, Underway(db, decided.db), NEW call,
         Showable(cfg, decided.db, decided.rule, call)
  PROVE  /\ Underway(db, RunCall(cfg, decided, call).done.db)
         /\ IsReply(RunCall(cfg, decided, call).done.answer)
<1> DEFINE i == decided.rule
           actor == BeforeHandler(cfg, decided.db, i, call)
           pre == IF i = NoRule THEN Unanswered ELSE PreAnswer(cfg, actor.db, i, call)
           done == Serve(cfg, actor.db, i, call, pre)
<1>1. Underway(db, actor.db) /\ Showable(cfg, actor.db, i, call)
  BY BeforeStage, BeforeShows DEF Underway
<1>2. RunCall(cfg, decided, call) = AfterHandler(cfg, actor, i, call, done)
  BY DEF RunCall, Served
<1> HIDE DEF actor
<1>a. IsReply(pre)
  BY <1>1, EffectReplies, RepliesReply DEF Underway, Unanswered
<1> HIDE DEF pre
<1>3. DOMAIN done = OutcomeFields /\ Underway(db, done.db) /\ IsReply(done.answer)
  BY <1>1, <1>a, ServeStage
<1> HIDE DEF done
<1>4. /\ Underway(db, HideOutcome(cfg, done, i, call).db)
      /\ IsReply(HideOutcome(cfg, done, i, call).answer)
  BY <1>3, HideStage
<1>5. AfterHandler(cfg, actor, i, call, done).done \in {done, HideOutcome(cfg, done, i, call)}
  BY DEF AfterHandler
<1> QED
  BY <1>2, <1>3, <1>4, <1>5

(***************************************************************************)
(* The whole call.                                                         *)
(***************************************************************************)
RequestEvent(call) ==
    [type |-> "tool.request", call |-> call.id, op |-> call.op, args |-> Arguments(call)]

ResponseEvent(call, answer) ==
    [type |-> "tool.response", call |-> call.id, op |-> call.op,
     status |-> answer.status, body |-> answer.body]

Entry(call, answer) ==
    [role |-> "tool", call |-> call.id, op |-> call.op,
     status |-> answer.status, body |-> answer.body]

Result(call, answer) == [call |-> call, answer |-> answer]

(* d is db with the call answered: its request, events of the call, its    *)
(* response, one result and one transcript entry, and nothing else.        *)
AnsweredWith(db, d, call, answer) ==
    /\ IsRun(d)
    /\ IsReply(answer)
    /\ Len(d.events) >= Len(db.events) + 2
    /\ \A i \in 1..Len(db.events) : d.events[i] = db.events[i]
    /\ d.events[Len(db.events) + 1] = RequestEvent(call)
    /\ d.events[Len(d.events)] = ResponseEvent(call, answer)
    /\ \A i \in (Len(db.events) + 2)..(Len(d.events) - 1) : d.events[i].type \in Inside
    /\ d.results = db.results \cup {Result(call, answer)}
    /\ d.transcript = Append(db.transcript, Entry(call, answer))
    /\ d.run = db.run /\ d.step = db.step /\ d.status = db.status
    /\ db.world.refunds \subseteq d.world.refunds

(* What a settled call leaves. *)
LEMMA SettleStage ==
  ASSUME NEW db, IsRun(db), NEW call,
         NEW done, Underway(Emit(db, RequestEvent(call)), done.db), IsReply(done.answer)
  PROVE  AnsweredWith(db, Settle(done, call), call, done.answer)
<1> DEFINE start == Emit(db, RequestEvent(call))
           m == Mutation("state.mutation", AgentRow(done.db, call), call)
           a == IF done.mutated THEN Emit(done.db, m) ELSE done.db
           r == ResponseEvent(call, done.answer)
           c == Emit(a, r)
           d == Settle(done, call)
<1>1. /\ IsRun(start) /\ start.events = Append(db.events, RequestEvent(call))
      /\ start.world = db.world /\ SameRecord(db, start)
  BY EmitFacts
<1>2. d = [c EXCEPT !.results = @ \cup {Result(call, done.answer)},
                    !.transcript = Append(@, Entry(call, done.answer))]
  BY DEF Settle, ResponseEvent, Result, Entry
<1>3. m.type \in Inside
  BY DEF Mutation, Inside
<1> HIDE DEF m, r, start
<1>4. Underway(start, a)
  BY <1>1, <1>3, UnderwayEmit DEF start
<1> HIDE DEF a
<1>5. IsRun(a)
  BY <1>4 DEF Underway
<1>6. /\ IsRun(c) /\ c.events = Append(a.events, r)
      /\ c.world = a.world /\ SameRecord(a, c)
  BY <1>5, EmitFacts
<1> HIDE DEF c
<1>7. /\ DOMAIN d = Rows /\ d.events = c.events /\ d.world = c.world /\ d.snapshots = c.snapshots
      /\ d.results = c.results \cup {Result(call, done.answer)}
      /\ d.transcript = Append(c.transcript, Entry(call, done.answer))
      /\ d.run = c.run /\ d.step = c.step /\ d.status = c.status
  BY <1>2, <1>6 DEF IsRun, Rows
<1> HIDE DEF d
<1>8. /\ c.results = db.results /\ c.transcript = db.transcript
      /\ c.run = db.run /\ c.step = db.step /\ c.status = db.status
      /\ db.world.refunds \subseteq c.world.refunds
  BY <1>1, <1>4, <1>6 DEF Underway, SameRecord
<1>9. IsRun(d)
  <2>1. IsSeq(d.transcript)
    BY <1>6, <1>7, AppendFacts DEF IsRun
  <2> QED
    BY <1>6, <1>7, <2>1 DEF IsRun
<1> DEFINE k == Len(db.events)
           n == Len(a.events)
<1>10. /\ k \in Nat /\ Len(start.events) = k + 1
       /\ \A i \in 1..k : start.events[i] = db.events[i]
       /\ start.events[k + 1] = RequestEvent(call)
  BY <1>1, AppendFacts DEF IsRun
<1>11. /\ n \in Nat /\ Len(d.events) = n + 1
       /\ \A i \in 1..n : d.events[i] = a.events[i]
       /\ d.events[n + 1] = r
  BY <1>5, <1>6, <1>7, AppendFacts DEF IsRun
<1>12. /\ k + 1 <= n
       /\ \A i \in 1..(k + 1) : a.events[i] = start.events[i]
       /\ \A i \in (k + 2)..n : a.events[i].type \in Inside
  <2>1. k + 1 + 1 = k + 2
    BY <1>10
  <2> QED
    BY <1>4, <1>10, <2>1 DEF Underway, GrowsBy
<1> HIDE DEF k, n
<1>13. /\ Len(d.events) >= k + 2
       /\ \A i \in 1..k : d.events[i] = db.events[i]
       /\ d.events[k + 1] = RequestEvent(call)
       /\ d.events[Len(d.events)] = r
  BY <1>10, <1>11, <1>12
<1>14. ASSUME NEW i \in (k + 2)..(Len(d.events) - 1) PROVE d.events[i].type \in Inside
  <2>1. i \in 1..n /\ i \in (k + 2)..n
    BY <1>10, <1>11
  <2>2. d.events[i] = a.events[i]
    BY <1>11, <2>1
  <2> QED
    BY <1>12, <2>1, <2>2
<1>15. AnsweredWith(db, d, call, done.answer)
  BY <1>7, <1>8, <1>9, <1>13, <1>14 DEF AnsweredWith, k, r
<1> QED
  BY <1>15 DEF d

(* One dispatch.Invoke either leaves the rows of the run as they were, or  *)
(* answers a call ID that had no result yet: the ledger gains one bracket  *)
(* of events, the results one row, the transcript one entry.               *)
THEOREM CallIsBracketed ==
  ASSUME NEW cfg, DOMAIN cfg.chaos \subseteq Nat, NEW db, IsRun(db), NEW call
  PROVE  LET r == Invoke(cfg, db, call)
         IN  \/ r.db = db
             \/ /\ r.ok
                /\ Saved(db, call) = {}
                /\ call.op \in cfg.ops
                /\ \E answer : AnsweredWith(db, r.db, call, answer)
<1> DEFINE start == Emit(db, RequestEvent(call))
           checked == Check(cfg, start, call)
           decided == ChaosDecide(cfg, checked.db, call)
           run == RunCall(cfg, decided, call)
           r == Invoke(cfg, db, call)
<1>1. CASE Saved(db, call) # {} \/ call.op \notin cfg.ops
  BY <1>1 DEF Invoke
<1>2. CASE Saved(db, call) = {} /\ call.op \in cfg.ops
  <2>1. r = Proceed(cfg, db, call, checked)
    BY <1>2 DEF Invoke, RequestEvent
  <2>2. Underway(start, start) /\ IsRun(start)
    BY EmitFacts, UnderwayRefl
  <2>3. Underway(start, checked.db)
    <3> HIDE DEF start
    <3> QED
      BY <2>2, CheckStage
  <2>4. Underway(start, decided.db) /\ Showable(cfg, decided.db, decided.rule, call)
    <3> HIDE DEF start, checked
    <3> QED
      BY <2>2, <2>3, DecideStage, DecideSelects DEF Underway
  <2>5. Underway(start, run.done.db) /\ IsReply(run.done.answer)
    <3> HIDE DEF start, decided
    <3> QED
      BY <2>2, <2>4, RunStage
  <2>6. /\ r = IF Open(checked) THEN Committed(db, call, run)
              ELSE [ok |-> TRUE, db |-> Settle(Outcome(checked.db, checked.answer, FALSE), call)]
    BY <2>1 DEF Proceed
  <2>a. IsReply(checked.answer)
    BY DEF Check, Authorize, Judged, Stage, Unanswered, Answer, Reply, IsReply
  <2> HIDE DEF checked, run, r
  <2>7. CASE Open(checked)
    <3>1. CASE run.ok
      <4>1. r.ok /\ r.db = Settle(run.done, call)
        BY <2>6, <2>7, <3>1 DEF Committed
      <4> QED
        BY <1>2, <2>5, <4>1, SettleStage DEF r
    <3>2. CASE ~run.ok
      BY <2>6, <2>7, <3>2 DEF Committed, r
    <3> QED
      BY <3>1, <3>2
  <2>8. CASE ~Open(checked)
    <3> DEFINE done == Outcome(checked.db, checked.answer, FALSE)
    <3>1. r.ok /\ r.db = Settle(done, call)
      BY <2>6, <2>8
    <3>2. done.db = checked.db /\ done.answer = checked.answer
      BY DEF Outcome
    <3> HIDE DEF done
    <3> QED
      BY <1>2, <2>3, <2>a, <3>1, <3>2, SettleStage DEF r
  <2> QED
    BY <2>7, <2>8
<1> QED
  BY <1>1, <1>2

(* A fresh run has the rows of a run. *)
LEMMA NewRunFacts ==
  ASSUME NEW cfg
  PROVE  /\ IsRun(NewRun(cfg))
         /\ NewRun(cfg).events = <<[type |-> "execution.started"]>>
         /\ NewRun(cfg).transcript = << >>
         /\ NewRun(cfg).results = {}
         /\ NewRun(cfg).status = "running"
         /\ NewRun(cfg).step = 0
<1> DEFINE e == [type |-> "execution.started"]
<1>1. IsSeq(<< >>) /\ IsSeq(<<e>>)
  BY ShortSeqs
<1>2. /\ DOMAIN NewRun(cfg) = Rows
      /\ NewRun(cfg).world = World(cfg.seed)
      /\ NewRun(cfg).events = <<e>>
      /\ NewRun(cfg).transcript = << >>
      /\ NewRun(cfg).results = {}
      /\ NewRun(cfg).snapshots = {}
      /\ NewRun(cfg).status = "running"
      /\ NewRun(cfg).step = 0
  BY DEF NewRun, Rows
<1>3. DOMAIN World(cfg.seed) = Tables
  BY DEF World, Tables
<1> QED
  BY <1>1, <1>2, <1>3 DEF IsRun

===============================================================================
