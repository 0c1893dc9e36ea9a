---------------------------- MODULE DispatchProofs ----------------------------
(***************************************************************************)
(* Proofs about Dispatch, for every world, policy and sequence of calls.   *)
(***************************************************************************)
EXTENDS Dispatch, CallLedgerProofs

(***************************************************************************)
(* A call is answered once.                                                *)
(***************************************************************************)
Bracket == {"tool.request", "tool.response"}

(* Where the ledger of d has an event of this type about this call. *)
Entries(d, type, id) ==
    {k \in DOMAIN d.events : d.events[k].type = type /\ d.events[k].call = id}

(* A call opens and closes once. *)
BracketedOnce(d, id) ==
    /\ \E a : Entries(d, "tool.request", id) = {a}
    /\ \E b : Entries(d, "tool.response", id) = {b}

(* The strengthening: besides one bracket for every result, no bracket and *)
(* no message without a result.                                            *)
Answering(d) ==
    /\ IsRun(d)
    /\ \A r, s \in d.results : r.call.id = s.call.id => r = s
    /\ \A r \in d.results : IsReply(r.answer) /\ BracketedOnce(d, r.call.id)
    /\ \A r \in d.results : \E i \in DOMAIN d.transcript : d.transcript[i].call = r.call.id
    /\ \A k \in DOMAIN d.events :
          d.events[k].type \in Bracket => \E r \in d.results : r.call.id = d.events[k].call
    /\ \A i \in DOMAIN d.transcript :
          \E r \in d.results : /\ d.transcript[i].call = r.call.id
                               /\ d.transcript[i].status = r.answer.status
                               /\ d.transcript[i].body = r.answer.body

(* A fresh run has answered nothing. *)
LEMMA InitAnswering == Init => Answering(db)
<1> SUFFICES ASSUME Init PROVE Answering(db)
  OBVIOUS
<1> DEFINE e == [type |-> "execution.started"]
<1>1. IsRun(db) /\ db.events = <<e>> /\ db.transcript = << >> /\ db.results = {}
  BY NewRunFacts DEF Init
<1>2. DOMAIN <<e>> = {1} /\ <<e>>[1] = e /\ e.type \notin Bracket /\ DOMAIN << >> = {}
  BY DEF Bracket
<1> HIDE DEF e
<1> QED
  BY <1>1, <1>2 DEF Answering

(* An answered call. *)
LEMMA AnsweringStep ==
  ASSUME NEW d, Answering(d), NEW call, Saved(d, call) = {},
         NEW e, NEW answer, AnsweredWith(d, e, call, answer)
  PROVE  Answering(e)
<1> DEFINE n == Len(d.events)
           m == Len(e.events)
           r == Result(call, answer)
           t == d.transcript
           x == Entry(call, answer)
<1>1. IsRun(d) /\ IsRun(e) /\ IsReply(answer) /\ IsSeq(d.events) /\ IsSeq(e.events) /\ IsSeq(t)
  BY DEF Answering, AnsweredWith, IsRun
<1>2. n \in Nat /\ DOMAIN d.events = 1..n /\ m \in Nat /\ DOMAIN e.events = 1..m
  BY <1>1, AppendFacts
<1>3. /\ m >= n + 2
      /\ \A k \in 1..n : e.events[k] = d.events[k]
      /\ e.events[n + 1] = RequestEvent(call)
      /\ e.events[m] = ResponseEvent(call, answer)
      /\ \A k \in (n + 2)..(m - 1) : e.events[k].type \in Inside
      /\ e.results = d.results \cup {r}
      /\ e.transcript = Append(t, x)
  BY DEF AnsweredWith
<1>4. /\ RequestEvent(call).type = "tool.request" /\ RequestEvent(call).call = call.id
      /\ ResponseEvent(call, answer).type = "tool.response" /\ ResponseEvent(call, answer).call = call.id
      /\ r.call = call /\ r.answer = answer
      /\ x.call = call.id /\ x.status = answer.status /\ x.body = answer.body
  BY DEF RequestEvent, ResponseEvent, Entry, Result
<1>5. \A s \in d.results : s.call.id # call.id
  BY DEF Saved
<1>6. /\ DOMAIN Append(t, x) = 1..(Len(t) + 1) /\ Len(t) \in Nat /\ DOMAIN t = 1..Len(t)
      /\ \A i \in 1..Len(t) : Append(t, x)[i] = t[i]
      /\ Append(t, x)[Len(t) + 1] = x
  BY <1>1, AppendFacts
<1>7. \A k \in 1..m : \/ k \in 1..n \/ k = n + 1 \/ k = m \/ k \in (n + 2)..(m - 1)
  BY <1>2, <1>3
<1>8. n + 1 \in 1..m /\ m \in 1..m /\ n + 1 # m /\ 1..n \subseteq 1..m
  BY <1>2, <1>3
<1> HIDE DEF n, m, r, t, x
<1>9. \A k \in 1..n : d.events[k].type \in Bracket => d.events[k].call # call.id
  BY <1>2, <1>5 DEF Answering
<1>10. \A k \in (n + 2)..(m - 1) : e.events[k].type \notin Bracket
  BY <1>3 DEF Inside, Bracket
<1>11. \A s \in d.results, type \in Bracket : Entries(e, type, s.call.id) = Entries(d, type, s.call.id)
  <2> SUFFICES ASSUME NEW s \in d.results, NEW type \in Bracket, NEW k \in 1..m
               PROVE  k \in Entries(e, type, s.call.id) <=> k \in Entries(d, type, s.call.id)
    BY <1>2, <1>8 DEF Entries
  <2>1. CASE k \in 1..n
    BY <1>2, <1>3, <1>8, <2>1 DEF Entries
  <2>2. CASE k \notin 1..n
    <3>1. ~(e.events[k].type = type /\ e.events[k].call = s.call.id)
      BY <1>3, <1>4, <1>5, <1>7, <1>10, <2>2
    <3> QED
      BY <1>2, <2>2, <3>1 DEF Entries
  <2> QED
    BY <2>1, <2>2
<1>12. Entries(e, "tool.request", call.id) = {n + 1}
  <2>1. n + 1 \in Entries(e, "tool.request", call.id)
    BY <1>2, <1>3, <1>4, <1>8 DEF Entries
  <2>2. ASSUME NEW k \in Entries(e, "tool.request", call.id) PROVE k = n + 1
    <3>1. k \in 1..m /\ e.events[k].type = "tool.request" /\ e.events[k].call = call.id
      BY <1>2 DEF Entries
    <3>2. k \notin 1..n
      BY <1>3, <1>9, <3>1 DEF Bracket
    <3>3. k # m /\ k \notin (n + 2)..(m - 1)
      BY <1>3, <1>4, <1>10, <3>1 DEF Bracket
    <3> QED
      BY <1>7, <3>1, <3>2, <3>3
  <2> QED
    BY <2>1, <2>2
<1>13. Entries(e, "tool.response", call.id) = {m}
  <2>1. m \in Entries(e, "tool.response", call.id)
    BY <1>2, <1>3, <1>4, <1>8 DEF Entries
  <2>2. ASSUME NEW k \in Entries(e, "tool.response", call.id) PROVE k = m
    <3>1. k \in 1..m /\ e.events[k].type = "tool.response" /\ e.events[k].call = call.id
      BY <1>2 DEF Entries
    <3>2. k \notin 1..n
      BY <1>3, <1>9, <3>1 DEF Bracket
    <3>3. k # n + 1 /\ k \notin (n + 2)..(m - 1)
      BY <1>3, <1>4, <1>10, <3>1 DEF Bracket
    <3> QED
      BY <1>7, <3>1, <3>2, <3>3
  <2> QED
    BY <2>1, <2>2
<1>14. \A s \in e.results : IsReply(s.answer) /\ BracketedOnce(e, s.call.id)
  <2>1. ASSUME NEW s \in d.results PROVE IsReply(s.answer) /\ BracketedOnce(e, s.call.id)
    <3>1. IsReply(s.answer) /\ BracketedOnce(d, s.call.id)
      BY DEF Answering
    <3>2. /\ Entries(e, "tool.request", s.call.id) = Entries(d, "tool.request", s.call.id)
          /\ Entries(e, "tool.response", s.call.id) = Entries(d, "tool.response", s.call.id)
      BY <1>11 DEF Bracket
    <3> QED
      BY <3>1, <3>2 DEF BracketedOnce
  <2>2. BracketedOnce(e, call.id)
    BY <1>12, <1>13 DEF BracketedOnce
  <2> QED
    BY <1>1, <1>3, <1>4, <2>1, <2>2
<1>15. \A s, u \in e.results : s.call.id = u.call.id => s = u
  BY <1>3, <1>4, <1>5 DEF Answering
<1>16. \A k \in DOMAIN e.events :
          e.events[k].type \in Bracket => \E s \in e.results : s.call.id = e.events[k].call
  <2> SUFFICES ASSUME NEW k \in 1..m, e.events[k].type \in Bracket
               PROVE  \E s \in e.results : s.call.id = e.events[k].call
    BY <1>2
  <2>1. CASE k \in 1..n
    <3>1. e.events[k] = d.events[k] /\ k \in DOMAIN d.events
      BY <1>2, <1>3, <2>1
    <3>2. \E s \in d.results : s.call.id = d.events[k].call
      BY <3>1 DEF Answering
    <3> QED
      BY <1>3, <3>1, <3>2
  <2>2. CASE k \notin 1..n
    BY <1>3, <1>4, <1>7, <1>10, <2>2
  <2> QED
    BY <2>1, <2>2
<1>17. \A i \in DOMAIN e.transcript :
          \E s \in e.results : /\ e.transcript[i].call = s.call.id
                               /\ e.transcript[i].status = s.answer.status
                               /\ e.transcript[i].body = s.answer.body
  <2> SUFFICES ASSUME NEW i \in 1..(Len(t) + 1)
               PROVE  \E s \in e.results : /\ Append(t, x)[i].call = s.call.id
                                           /\ Append(t, x)[i].status = s.answer.status
                                           /\ Append(t, x)[i].body = s.answer.body
    BY <1>3, <1>6
  <2>1. CASE i \in 1..Len(t)
    BY <1>3, <1>6, <2>1 DEF Answering, t
  <2>2. CASE i = Len(t) + 1
    BY <1>3, <1>4, <1>6, <2>2
  <2> QED
    BY <1>6, <2>1, <2>2
<1>18. \A s \in e.results : \E i \in DOMAIN e.transcript : e.transcript[i].call = s.call.id
  <2>1. ASSUME NEW s \in d.results PROVE \E i \in DOMAIN e.transcript : e.transcript[i].call = s.call.id
    <3>1. PICK i \in DOMAIN t : t[i].call = s.call.id
      BY DEF Answering, t
    <3>2. i \in DOMAIN e.transcript /\ e.transcript[i] = t[i]
      BY <1>3, <1>6, <3>1
    <3> QED
      BY <3>1, <3>2
  <2>2. Len(t) + 1 \in DOMAIN e.transcript /\ e.transcript[Len(t) + 1].call = call.id
    BY <1>3, <1>4, <1>6
  <2> QED
    BY <1>3, <1>4, <2>1, <2>2
<1> QED
  BY <1>1, <1>14, <1>15, <1>16, <1>17, <1>18 DEF Answering

(* However often a call ID is presented, and with whatever arguments, it   *)
(* has one result, one request and response, and one answer in the         *)
(* transcript.                                                             *)
THEOREM AnsweredOnce == Spec => []OneAnswerPerCall
<1> DEFINE Inv == cfg \in Configs /\ Answering(db)
<1>1. Init => Inv
  BY InitAnswering DEF Init
<1>2. Inv /\ [Next]_vars => Inv'
  <2> SUFFICES ASSUME Inv, [Next]_vars PROVE Inv'
    OBVIOUS
  <2>1. CASE UNCHANGED vars
    BY <2>1 DEF vars
  <2>2. ASSUME NEW call \in Calls(cfg), InvokeCommit(call) PROVE Inv'
    <3>1. db' = Invoke(cfg, db, call).db /\ cfg' = cfg
      BY <2>2 DEF InvokeCommit
    <3>2. DOMAIN cfg.chaos \subseteq Nat /\ IsRun(db)
      BY DispatchAssumption DEF Answering
    <3>3. \/ db' = db
          \/ Saved(db, call) = {} /\ \E answer : AnsweredWith(db, db', call, answer)
      BY <3>1, <3>2, CallIsBracketed
    <3> QED
      BY <3>1, <3>3, AnsweringStep
  <2>3. ASSUME NEW call \in Calls(cfg), InvokeError(call) PROVE Inv'
    BY <2>1, <2>3 DEF InvokeError
  <2> QED
    BY <2>1, <2>2, <2>3 DEF Next
<1>3. Inv => OneAnswerPerCall
  <2> SUFFICES ASSUME Answering(db), NEW r \in db.results, NEW other \in db.results
               PROVE  /\ r.call.id = other.call.id => r = other
                      /\ Cardinality(Entries(db, "tool.request", r.call.id)) = 1
                      /\ Cardinality(Entries(db, "tool.response", r.call.id)) = 1
                      /\ {[status |-> db.transcript[k].status, body |-> db.transcript[k].body] :
                             k \in {j \in DOMAIN db.transcript : db.transcript[j].call = r.call.id}}
                         = {r.answer}
    BY DEF OneAnswerPerCall, OfType, Events, Entries
  <2>1. \A x : Cardinality({x}) = 1
    BY FS_Singleton
  <2>2. /\ Cardinality(Entries(db, "tool.request", r.call.id)) = 1
        /\ Cardinality(Entries(db, "tool.response", r.call.id)) = 1
    <3>1. BracketedOnce(db, r.call.id)
      BY DEF Answering
    <3>2. PICK a : Entries(db, "tool.request", r.call.id) = {a}
      BY <3>1 DEF BracketedOnce
    <3>3. PICK b : Entries(db, "tool.response", r.call.id) = {b}
      BY <3>1 DEF BracketedOnce
    <3> QED
      BY <2>1, <3>2, <3>3
  <2>3. [status |-> r.answer.status, body |-> r.answer.body] = r.answer
    BY DEF Answering, IsReply
  <2>4. \A k \in DOMAIN db.transcript : db.transcript[k].call = r.call.id =>
            db.transcript[k].status = r.answer.status /\ db.transcript[k].body = r.answer.body
    BY DEF Answering
  <2>5. \E k \in DOMAIN db.transcript : db.transcript[k].call = r.call.id
    BY DEF Answering
  <2>6. {[status |-> db.transcript[k].status, body |-> db.transcript[k].body] :
            k \in {j \in DOMAIN db.transcript : db.transcript[j].call = r.call.id}} = {r.answer}
    BY <2>3, <2>4, <2>5
  <2> QED
    BY <2>2, <2>6 DEF Answering
<1> QED
  BY <1>1, <1>2, <1>3, PTL DEF Spec

(* After every call a chaos rule has counted exactly the calls that passed *)
(* validation and authorization, and injected exactly as often as the      *)
(* ledger tells and no more than its bound allows, an injection given back *)
(* included.                                                               *)
THEOREM CountersTellLedger == Spec => []ChaosCountersMatchLedger
<1> DEFINE Inv == IsRun(db) /\ RulesParsed(cfg) /\ Balanced(cfg, db)
<1>1. Init => Inv
  BY DispatchAssumption, NewRunBalanced, NewRunFacts DEF Init
<1>2. Inv /\ [Next]_vars => Inv'
  <2> SUFFICES ASSUME Inv, [Next]_vars PROVE Inv'
    OBVIOUS
  <2>1. CASE UNCHANGED vars
    BY <2>1 DEF vars
  <2>2. ASSUME NEW call \in Calls(cfg), InvokeCommit(call) PROVE Inv'
    <3> DEFINE r == Invoke(cfg, db, call)
    <3>1. db' = r.db /\ cfg' = cfg
      BY <2>2 DEF InvokeCommit
    <3>2. \/ r.db = db
          \/ /\ r.ok /\ Saved(db, call) = {} /\ call.op \in cfg.ops
             /\ \E answer : AnsweredWith(db, r.db, call, answer)
      BY CallIsBracketed DEF RulesParsed
    <3>3. CASE r.db = db
      BY <3>1, <3>3
    <3>4. ASSUME r.ok, Saved(db, call) = {}, call.op \in cfg.ops,
                 NEW answer, AnsweredWith(db, r.db, call, answer)
          PROVE  Inv'
      <4>1. IsRun(r.db) /\ r.db.results = db.results \cup {Result(call, answer)}
        BY <3>4 DEF AnsweredWith
      <4>2. Balanced(cfg, r.db)
        BY <3>4, <4>1, BalancedStep
      <4> HIDE DEF r
      <4> QED
        BY <3>1, <4>1, <4>2
    <3> QED
      BY <3>2, <3>3, <3>4
  <2>3. ASSUME NEW call \in Calls(cfg), InvokeError(call) PROVE Inv'
    BY <2>1, <2>3 DEF InvokeError
  <2> QED
    BY <2>1, <2>2, <2>3 DEF Next
<1>3. Inv => ChaosCountersMatchLedger
  <2> SUFFICES ASSUME Inv, NEW i \in DOMAIN cfg.chaos
               PROVE  /\ db.rules[i].calls =
                            Cardinality({r \in db.results : r.call.op \in cfg.chaos[i].ops /\ Reached(r.call)})
                      /\ db.rules[i].injections = Cardinality(InjectedBy(db, cfg.chaos[i].id))
                      /\ cfg.chaos[i].times # 0 => db.rules[i].injections <= cfg.chaos[i].times
    <3>1. \A id : {k \in OfType("chaos.injected") : Events[k].rule = id} = InjectedBy(db, id)
      BY DEF OfType, Events, InjectedBy
    <3> QED
      BY <3>1 DEF ChaosCountersMatchLedger
  <2>1. \A call : Reached(call) <=> Passes(cfg, call) /\ call.id \notin DeniedIds(db)
    BY DEF Reached, Passes, DeniedIds, OfType, Events
  <2>2. {r \in db.results : r.call.op \in cfg.chaos[i].ops /\ Reached(r.call)} = SeenBy(cfg, db, i)
    BY <2>1 DEF SeenBy
  <2>3. i # NoRule
    BY DEF RulesParsed, NoRule
  <2>4. Cardinality(InjectedBy(db, cfg.chaos[i].id)) \in Nat
    BY EmitCounts DEF IsRun
  <2>5. db.rules[i].injections =
            Cardinality(InjectedBy(db, cfg.chaos[i].id)) + (IF i = NoRule THEN 1 ELSE 0)
    BY DEF Balanced, Owed
  <2>6. db.rules[i].injections = Cardinality(InjectedBy(db, cfg.chaos[i].id))
    BY <2>3, <2>4, <2>5
  <2>7. /\ db.rules[i].calls = Cardinality(SeenBy(cfg, db, i))
        /\ cfg.chaos[i].times # 0 => db.rules[i].injections <= cfg.chaos[i].times
    BY DEF Balanced, CountersInRange
  <2> QED
    BY <2>2, <2>6, <2>7
<1> QED
  BY <1>1, <1>2, <1>3, PTL DEF Spec

(***************************************************************************)
(* A simulated timeout is a call that did nothing or a write whose outcome *)
(* is kept.                                                                *)
(***************************************************************************)
AnsweredIds(d) == {r.call.id : r \in d.results}

(* What is told or kept is about an answered call, and the two agree on    *)
(* every response that looks like a timeout.                               *)
Accounted(d) ==
    /\ Answering(d)
    /\ WrittenBy(d) \subseteq AnsweredIds(d)
    /\ \A h \in d.hidden : h.call \in AnsweredIds(d)
    /\ \A k \in DOMAIN d.events :
          d.events[k].type = "tool.response" /\ d.events[k].status = 0 =>
              /\ d.events[k].call \in WrittenBy(d) <=> \E h \in d.hidden : h.call = d.events[k].call
              /\ \A h \in d.hidden : h.call = d.events[k].call => Succeeds(h.answer)

LEMMA InitAccounted == Init => Accounted(db)
<1> SUFFICES ASSUME Init PROVE Accounted(db)
  OBVIOUS
<1> DEFINE e == [type |-> "execution.started"]
<1>1. db.events = <<e>> /\ db.hidden = {}
  BY NewRunFacts DEF Init, NewRun
<1>2. DOMAIN <<e>> = {1} /\ <<e>>[1].type = "execution.started"
  OBVIOUS
<1> HIDE DEF e
<1>3. WrittenBy(db) = {}
  BY <1>1, <1>2 DEF WrittenBy
<1> QED
  BY <1>1, <1>2, <1>3, InitAnswering DEF Accounted

(* An answered call. *)
LEMMA AccountedStep ==
  ASSUME NEW d, Accounted(d), NEW call, Saved(d, call) = {},
         NEW e, NEW answer, AnsweredWith(d, e, call, answer), ToldOrKept(d, e, call, answer)
  PROVE  Accounted(e)
<1> DEFINE n == Len(d.events)
           m == Len(e.events)
<1>1. Answering(e)
  BY AnsweringStep DEF Accounted
<1>2. n \in Nat /\ DOMAIN d.events = 1..n /\ m \in Nat /\ DOMAIN e.events = 1..m
  BY AppendFacts DEF Accounted, Answering, AnsweredWith, IsRun
<1>3. /\ m >= n + 2
      /\ \A k \in 1..n : e.events[k] = d.events[k]
      /\ e.events[n + 1] = RequestEvent(call)
      /\ e.events[m] = ResponseEvent(call, answer)
      /\ \A k \in (n + 2)..(m - 1) : e.events[k].type \in Inside
      /\ e.results = d.results \cup {Result(call, answer)}
  BY DEF AnsweredWith
<1>4. /\ RequestEvent(call).type = "tool.request"
      /\ ResponseEvent(call, answer).call = call.id /\ ResponseEvent(call, answer).status = answer.status
      /\ "tool.response" \notin Inside /\ Result(call, answer).call = call
  BY DEF RequestEvent, ResponseEvent, Inside, Result
<1>5. AnsweredIds(e) = AnsweredIds(d) \cup {call.id}
  BY <1>3, <1>4 DEF AnsweredIds
<1>6. call.id \notin AnsweredIds(d)
  BY DEF AnsweredIds, Saved
<1>7. PICK own : /\ e.hidden = d.hidden \cup own
                 /\ \A h \in own : h.call = call.id
                 /\ WrittenBy(e) \in {WrittenBy(d), WrittenBy(d) \cup {call.id}}
                 /\ answer.status = 0 =>
                       /\ WrittenBy(e) = WrittenBy(d) \cup (IF own # {} THEN {call.id} ELSE {})
                       /\ \A h \in own : Succeeds(h.answer)
  BY DEF ToldOrKept
<1>8. WrittenBy(e) \subseteq AnsweredIds(e)
  BY <1>5, <1>7 DEF Accounted
<1>9. \A h \in e.hidden : h.call \in AnsweredIds(e)
  BY <1>5, <1>7 DEF Accounted
<1>10. ASSUME NEW k \in 1..m, e.events[k].type = "tool.response", e.events[k].status = 0
       PROVE  /\ e.events[k].call \in WrittenBy(e) <=> \E h \in e.hidden : h.call = e.events[k].call
              /\ \A h \in e.hidden : h.call = e.events[k].call => Succeeds(h.answer)
  <2>1. CASE k \in 1..n
    <3> DEFINE id == d.events[k].call
    <3>1. e.events[k] = d.events[k] /\ k \in DOMAIN d.events
      BY <1>2, <1>3, <2>1
    <3>2. id \in AnsweredIds(d)
      BY <1>10, <3>1 DEF Accounted, Answering, Bracket, AnsweredIds
    <3>3. /\ id \in WrittenBy(d) <=> \E h \in d.hidden : h.call = id
          /\ \A h \in d.hidden : h.call = id => Succeeds(h.answer)
      BY <1>10, <3>1 DEF Accounted
    <3> HIDE DEF id
    <3>4. id # call.id
      BY <1>6, <3>2
    <3>5. id \in WrittenBy(e) <=> id \in WrittenBy(d)
      BY <1>7, <3>4
    <3>6. \A h \in e.hidden : h.call = id => h \in d.hidden
      BY <1>7, <3>4
    <3>7. e.events[k].call = id
      BY <3>1 DEF id
    <3> QED
      BY <1>7, <3>3, <3>5, <3>6, <3>7
  <2>2. CASE k = m
    <3>1. e.events[k].call = call.id /\ answer.status = 0
      BY <1>3, <1>4, <1>10, <2>2
    <3>2. call.id \notin WrittenBy(d) /\ \A h \in d.hidden : h.call # call.id
      BY <1>6 DEF Accounted
    <3>3. WrittenBy(e) = WrittenBy(d) \cup (IF own # {} THEN {call.id} ELSE {})
      BY <1>7, <3>1
    <3>4. call.id \in WrittenBy(e) <=> own # {}
      BY <3>2, <3>3
    <3>5. \A h \in e.hidden : h.call = call.id <=> h \in own
      BY <1>7, <3>2
    <3>6. own # {} <=> \E h \in e.hidden : h.call = call.id
      BY <1>7, <3>5
    <3> QED
      BY <1>7, <3>1, <3>4, <3>5, <3>6
  <2>3. CASE k \in (n + 1)..(m - 1)
    BY <1>2, <1>3, <1>4, <1>10, <2>3
  <2> QED
    BY <1>2, <2>1, <2>2, <2>3
<1> QED
  BY <1>1, <1>2, <1>8, <1>9, <1>10 DEF Accounted

(* A response that looks like a timeout stands for a committed write       *)
(* exactly when a hidden outcome is kept for its call, and what is kept is *)
(* a success.                                                              *)
THEOREM TimeoutsKeepWrites == Spec => []LostResponsesAreKept
<1> DEFINE Inv == cfg \in Configs /\ Accounted(db)
<1>1. Init => Inv
  BY InitAccounted DEF Init
<1>2. Inv /\ [Next]_vars => Inv'
  <2> SUFFICES ASSUME Inv, [Next]_vars PROVE Inv'
    OBVIOUS
  <2>1. CASE UNCHANGED vars
    BY <2>1 DEF vars
  <2>2. ASSUME NEW call \in Calls(cfg), InvokeCommit(call) PROVE Inv'
    <3> DEFINE r == Invoke(cfg, db, call)
    <3>1. db' = r.db /\ cfg' = cfg
      BY <2>2 DEF InvokeCommit
    <3>2. DOMAIN cfg.chaos \subseteq Nat /\ IsRun(db)
      BY DispatchAssumption DEF Accounted, Answering
    <3>3. \/ r.db = db
          \/ /\ r.ok /\ Saved(db, call) = {} /\ call.op \in cfg.ops
             /\ \E answer : AnsweredWith(db, r.db, call, answer)
      BY <3>2, CallIsBracketed
    <3>4. CASE r.db = db
      BY <3>1, <3>4
    <3>5. ASSUME r.ok, Saved(db, call) = {}, call.op \in cfg.ops,
                 NEW answer, AnsweredWith(db, r.db, call, answer)
          PROVE  Inv'
      <4>1. PICK other : /\ ToldOrKept(db, r.db, call, other)
                         /\ \E s : r.db.events = Append(s, ResponseEvent(call, other)) /\ IsSeq(s)
        BY <3>2, <3>5, InvokeTells
      <4> HIDE DEF r
      <4>2. r.db.events[Len(r.db.events)] = ResponseEvent(call, other)
        BY <4>1, AppendFacts
      <4>3. r.db.events[Len(r.db.events)] = ResponseEvent(call, answer)
        BY <3>5 DEF AnsweredWith
      <4>4. other.status = answer.status
        BY <4>2, <4>3 DEF ResponseEvent
      <4>5. ToldOrKept(db, r.db, call, answer)
        BY <4>1, <4>4 DEF ToldOrKept
      <4>6. Accounted(r.db)
        BY <3>5, <4>5, AccountedStep
      <4> QED
        BY <3>1, <4>6
    <3> QED
      BY <3>3, <3>4, <3>5
  <2>3. ASSUME NEW call \in Calls(cfg), InvokeError(call) PROVE Inv'
    BY <2>1, <2>3 DEF InvokeError
  <2> QED
    BY <2>1, <2>2, <2>3 DEF Next
<1>3. Inv => LostResponsesAreKept
  <2> SUFFICES ASSUME Accounted(db), NEW k \in DOMAIN db.events,
                      db.events[k].type = "tool.response", db.events[k].status = 0
               PROVE  /\ (\E j \in OfType("state.mutation") : Events[j].row.by = db.events[k].call)
                            <=> {h \in db.hidden : h.call = db.events[k].call} # {}
                      /\ \A h \in {g \in db.hidden : g.call = db.events[k].call} : Succeeds(h.answer)
    BY DEF LostResponsesAreKept, OfType, Events
  <2>1. \A id : id \in WrittenBy(db) <=> \E j \in OfType("state.mutation") : Events[j].row.by = id
    BY DEF WrittenBy, OfType, Events
  <2>2. /\ db.events[k].call \in WrittenBy(db) <=> \E h \in db.hidden : h.call = db.events[k].call
        /\ \A h \in db.hidden : h.call = db.events[k].call => Succeeds(h.answer)
    BY DEF Accounted
  <2> QED
    BY <2>1, <2>2
<1> QED
  BY <1>1, <1>2, <1>3, PTL DEF Spec

===============================================================================
