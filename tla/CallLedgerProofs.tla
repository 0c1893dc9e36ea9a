--------------------------- MODULE CallLedgerProofs ---------------------------
(***************************************************************************)
(* What one dispatch.Invoke does to the accounts the ledger keeps: which   *)
(* calls the chaos rules counted and what they injected, which calls were  *)
(* refused, and which writes were told or kept back.  The lemmas follow    *)
(* the rows through the stages of a call, as ToolCall defines them.        *)
(***************************************************************************)
EXTENDS ToolCallProofs, FiniteSetTheorems


(***************************************************************************)
(* The chaos counters agree with the ledger.                               *)
(*                                                                         *)
(* The proof follows the rows through the stages of a call.  Between the   *)
(* choice of a rule and the event that records its injection the counters  *)
(* are one ahead of the ledger: the rule's event is owed.                  *)
(***************************************************************************)

(* The injections of a rule the ledger of d tells of. *)
InjectedBy(d, rule) ==
    {k \in DOMAIN d.events : d.events[k].type = "chaos.injected" /\ d.events[k].rule = rule}

(* The calls the ledger of d says were denied. *)
DeniedIds(d) ==
    {d.events[k].call : k \in {j \in DOMAIN d.events : d.events[j].type = "authorization.denied"}}

CounterFields == {"calls", "injections"}

(* The counters exist, and nobody injects beyond its bound. *)
CountersInRange(cfg, d) ==
    /\ DOMAIN d.rules = DOMAIN cfg.chaos
    /\ \A j \in DOMAIN cfg.chaos :
          /\ DOMAIN d.rules[j] = CounterFields
          /\ d.rules[j].calls \in Nat
          /\ d.rules[j].injections \in Int
          /\ cfg.chaos[j].times # 0 => d.rules[j].injections <= cfg.chaos[j].times

(* Every injection is in the ledger but the one owed. *)
Owed(cfg, d, owed) ==
    \A j \in DOMAIN cfg.chaos :
        d.rules[j].injections = Cardinality(InjectedBy(d, cfg.chaos[j].id)) + (IF j = owed THEN 1 ELSE 0)

(* The rows d of a call under way, which began with base's call counts. *)
Tallied(cfg, base, denied, d, owed) ==
    /\ DOMAIN d = Rows /\ IsSeq(d.events)
    /\ CountersInRange(cfg, d)
    /\ Owed(cfg, d, owed)
    /\ \A j \in DOMAIN cfg.chaos : d.rules[j].calls = base.rules[j].calls
    /\ DeniedIds(d) = denied

(* What a rule list must satisfy: chaos.Parse refuses a reused rule ID, a  *)
(* negative bound and an unknown effect.                                   *)
RulesParsed(cfg) ==
    /\ DOMAIN cfg.chaos \subseteq Nat \ {0}
    /\ \A j \in DOMAIN cfg.chaos : cfg.chaos[j].times \in Nat /\ cfg.chaos[j].type # "none"
    /\ \A i, j \in DOMAIN cfg.chaos : cfg.chaos[i].id = cfg.chaos[j].id => i = j

(* What Emit does to the ledger's account. *)
LEMMA EmitCounts ==
  ASSUME NEW d, DOMAIN d = Rows, IsSeq(d.events), NEW e
  PROVE  LET f == Emit(d, e)
         IN  /\ DOMAIN f = Rows /\ IsSeq(f.events) /\ f.rules = d.rules
             /\ \A id : /\ IsFiniteSet(InjectedBy(d, id)) /\ Cardinality(InjectedBy(d, id)) \in Nat
                        /\ Cardinality(InjectedBy(f, id)) = Cardinality(InjectedBy(d, id)) +
                              (IF e.type = "chaos.injected" /\ e.rule = id THEN 1 ELSE 0)
             /\ DeniedIds(f) = DeniedIds(d) \cup (IF e.type = "authorization.denied" THEN {e.call} ELSE {})
<1> DEFINE f == Emit(d, e)
           n == Len(d.events)
<1>1. DOMAIN f = Rows /\ f.events = Append(d.events, e) /\ f.rules = d.rules
  BY DEF Emit, Rows
<1> HIDE DEF f
<1>2. /\ IsSeq(f.events) /\ n \in Nat /\ DOMAIN d.events = 1..n /\ DOMAIN f.events = 1..(n + 1)
      /\ \A k \in 1..n : f.events[k] = d.events[k]
      /\ f.events[n + 1] = e
  BY <1>1, AppendFacts
<1> HIDE DEF n
<1>3. 1..(n + 1) = 1..n \cup {n + 1} /\ n + 1 \notin 1..n
  BY <1>2
<1>4. ASSUME NEW id
      PROVE  /\ IsFiniteSet(InjectedBy(d, id)) /\ Cardinality(InjectedBy(d, id)) \in Nat
             /\ Cardinality(InjectedBy(f, id)) = Cardinality(InjectedBy(d, id)) +
                   (IF e.type = "chaos.injected" /\ e.rule = id THEN 1 ELSE 0)
  <2>1. InjectedBy(d, id) \in SUBSET (1..n) /\ n + 1 \notin InjectedBy(d, id)
    BY <1>2, <1>3 DEF InjectedBy
  <2>2. IsFiniteSet(1..n)
    BY <1>2, FS_Interval
  <2>3. IsFiniteSet(InjectedBy(d, id)) /\ Cardinality(InjectedBy(d, id)) \in Nat
    BY <2>1, <2>2, FS_Subset, FS_CardinalityType
  <2>4. CASE e.type = "chaos.injected" /\ e.rule = id
    <3>1. InjectedBy(f, id) = InjectedBy(d, id) \cup {n + 1}
      BY <1>2, <1>3, <2>4 DEF InjectedBy
    <3>2. Cardinality(InjectedBy(d, id) \cup {n + 1}) = Cardinality(InjectedBy(d, id)) + 1
      BY <2>1, <2>3, FS_AddElement
    <3> QED
      BY <2>3, <2>4, <3>1, <3>2
  <2>5. CASE ~(e.type = "chaos.injected" /\ e.rule = id)
    <3>1. InjectedBy(f, id) = InjectedBy(d, id)
      BY <1>2, <1>3, <2>5 DEF InjectedBy
    <3> QED
      BY <2>3, <2>5, <3>1
  <2> QED
    BY <2>4, <2>5
<1>5. DeniedIds(f) = DeniedIds(d) \cup (IF e.type = "authorization.denied" THEN {e.call} ELSE {})
  <2>1. ASSUME NEW x \in DeniedIds(f)
        PROVE  x \in DeniedIds(d) \cup (IF e.type = "authorization.denied" THEN {e.call} ELSE {})
    <3>1. PICK k \in DOMAIN f.events : f.events[k].type = "authorization.denied" /\ x = f.events[k].call
      BY DEF DeniedIds
    <3>2. CASE k \in 1..n
      BY <1>2, <3>1, <3>2 DEF DeniedIds
    <3>3. CASE k = n + 1
      BY <1>2, <3>1, <3>3
    <3> QED
      BY <1>2, <1>3, <3>2, <3>3
  <2>2. ASSUME NEW x \in DeniedIds(d) PROVE x \in DeniedIds(f)
    <3>1. PICK k \in DOMAIN d.events : d.events[k].type = "authorization.denied" /\ x = d.events[k].call
      BY DEF DeniedIds
    <3>2. k \in DOMAIN f.events /\ f.events[k] = d.events[k]
      BY <1>2, <1>3, <3>1
    <3> QED
      BY <3>1, <3>2 DEF DeniedIds
  <2>3. ASSUME e.type = "authorization.denied" PROVE e.call \in DeniedIds(f)
    <3>1. n + 1 \in DOMAIN f.events /\ f.events[n + 1] = e
      BY <1>2, <1>3
    <3> QED
      BY <2>3, <3>1 DEF DeniedIds
  <2> QED
    BY <2>1, <2>2, <2>3
<1> QED
  BY <1>1, <1>2, <1>4, <1>5 DEF f

Counting == {"chaos.injected", "authorization.denied"}

(* A write that touches neither ledger nor counters. *)
LEMMA TalliedKept ==
  ASSUME NEW cfg, NEW base, NEW denied, NEW d, NEW owed, Tallied(cfg, base, denied, d, owed),
         NEW e, DOMAIN e = Rows, e.events = d.events, e.rules = d.rules
  PROVE  Tallied(cfg, base, denied, e, owed)
<1>1. \A id : InjectedBy(e, id) = InjectedBy(d, id)
  BY DEF InjectedBy
<1>2. DeniedIds(e) = DeniedIds(d)
  BY DEF DeniedIds
<1> QED
  BY <1>1, <1>2 DEF Tallied, CountersInRange, Owed

(* An event that records neither an injection nor a refusal. *)
LEMMA TalliedEmit ==
  ASSUME NEW cfg, NEW base, NEW denied, NEW d, NEW owed, Tallied(cfg, base, denied, d, owed),
         NEW e, e.type \notin Counting
  PROVE  Tallied(cfg, base, denied, Emit(d, e), owed)
<1> DEFINE f == Emit(d, e)
<1>1. /\ DOMAIN f = Rows /\ IsSeq(f.events) /\ f.rules = d.rules
      /\ \A id : /\ Cardinality(InjectedBy(d, id)) \in Nat
                 /\ Cardinality(InjectedBy(f, id)) = Cardinality(InjectedBy(d, id)) +
                       (IF e.type = "chaos.injected" /\ e.rule = id THEN 1 ELSE 0)
      /\ DeniedIds(f) = DeniedIds(d) \cup (IF e.type = "authorization.denied" THEN {e.call} ELSE {})
  BY EmitCounts DEF Tallied
<1> HIDE DEF f
<1>2. \A id : Cardinality(InjectedBy(f, id)) = Cardinality(InjectedBy(d, id))
  BY <1>1 DEF Counting
<1>3. DeniedIds(f) = DeniedIds(d)
  BY <1>1 DEF Counting
<1>4. Tallied(cfg, base, denied, f, owed)
  BY <1>1, <1>2, <1>3 DEF Tallied, CountersInRange, Owed
<1> QED
  BY <1>4 DEF f

(* The event that is owed. *)
LEMMA TalliedInject ==
  ASSUME NEW cfg, RulesParsed(cfg), NEW base, NEW denied, NEW d, NEW i \in DOMAIN cfg.chaos,
         Tallied(cfg, base, denied, d, i),
         NEW e, e.type = "chaos.injected", e.rule = cfg.chaos[i].id
  PROVE  Tallied(cfg, base, denied, Emit(d, e), NoRule)
<1> DEFINE f == Emit(d, e)
<1>1. /\ DOMAIN f = Rows /\ IsSeq(f.events) /\ f.rules = d.rules
      /\ \A id : /\ Cardinality(InjectedBy(d, id)) \in Nat
                 /\ Cardinality(InjectedBy(f, id)) = Cardinality(InjectedBy(d, id)) +
                       (IF e.type = "chaos.injected" /\ e.rule = id THEN 1 ELSE 0)
      /\ DeniedIds(f) = DeniedIds(d) \cup (IF e.type = "authorization.denied" THEN {e.call} ELSE {})
  BY EmitCounts DEF Tallied
<1> HIDE DEF f
<1>2. ASSUME NEW j \in DOMAIN cfg.chaos
      PROVE  f.rules[j].injections =
                 Cardinality(InjectedBy(f, cfg.chaos[j].id)) + (IF j = NoRule THEN 1 ELSE 0)
  <2>1. j # NoRule
    BY DEF RulesParsed, NoRule
  <2>2. d.rules[j].injections = Cardinality(InjectedBy(d, cfg.chaos[j].id)) + (IF j = i THEN 1 ELSE 0)
    BY DEF Tallied, Owed
  <2>3. cfg.chaos[j].id = cfg.chaos[i].id <=> j = i
    BY DEF RulesParsed
  <2>4. Cardinality(InjectedBy(f, cfg.chaos[j].id)) =
            Cardinality(InjectedBy(d, cfg.chaos[j].id)) + (IF j = i THEN 1 ELSE 0)
    BY <1>1, <2>3
  <2>5. Cardinality(InjectedBy(f, cfg.chaos[j].id)) \in Int
    BY <1>1, <2>4
  <2> QED
    BY <1>1, <2>1, <2>2, <2>4, <2>5
<1>3. DeniedIds(f) = DeniedIds(d)
  BY <1>1
<1>4. Tallied(cfg, base, denied, f, NoRule)
  BY <1>1, <1>2, <1>3 DEF Tallied, CountersInRange, Owed
<1> QED
  BY <1>4 DEF f

(* A check that fails answers, and one that succeeds does not. *)
LEMMA AnswersDiffer ==
  ASSUME NEW status \in Nat, NEW text, NEW n
  PROVE  Answer(status, text, n) # Unanswered
<1>1. PICK t : Unanswered = Answer(-1, t, 0)
  BY Zenon DEF Unanswered
<1>2. Answer(status, text, n).status = status /\ Answer(-1, t, 0).status = -1
  BY DEF Answer, Reply
<1> QED
  BY <1>1, <1>2

(* A decision records a refusal exactly when it answers. *)
LEMMA TalliedJudged ==
  ASSUME NEW cfg, NEW base, NEW denied, NEW d, Tallied(cfg, base, denied, d, NoRule),
         NEW call, NEW reason
  PROVE  LET c == Judged(d, call, reason)
         IN  \/ Open(c) /\ Tallied(cfg, base, denied, c.db, NoRule)
             \/ ~Open(c) /\ Tallied(cfg, base, denied \cup {call.id}, c.db, NoRule)
<1> DEFINE audit(type) == [type |-> type, call |-> call.id, op |-> call.op, index |-> d.callIndex]
           allow == audit("authorization.allowed")
           deny == audit("authorization.denied")
           c == Judged(d, call, reason)
<1>1. \/ c = Stage(Emit(d, allow), Unanswered)
      \/ c = Stage(Emit(d, deny), Answer(403, reason, 0))
  BY Zenon DEF Judged
<1>2. allow.type = "authorization.allowed" /\ deny.type = "authorization.denied" /\ deny.call = call.id
  OBVIOUS
<1> HIDE DEF allow, deny, c
<1>3. CASE c = Stage(Emit(d, allow), Unanswered)
  <2>1. Open(c) /\ c.db = Emit(d, allow)
    BY <1>3 DEF Stage, Open
  <2>2. Tallied(cfg, base, denied, Emit(d, allow), NoRule)
    BY <1>2, TalliedEmit DEF Counting
  <2> QED
    BY <2>1, <2>2 DEF c
<1>4. CASE c = Stage(Emit(d, deny), Answer(403, reason, 0))
  <2> DEFINE f == Emit(d, deny)
  <2>1. ~Open(c) /\ c.db = f
    BY <1>4, AnswersDiffer DEF Stage, Open
  <2>2. /\ DOMAIN f = Rows /\ IsSeq(f.events) /\ f.rules = d.rules
        /\ \A id : /\ Cardinality(InjectedBy(d, id)) \in Nat
                   /\ Cardinality(InjectedBy(f, id)) = Cardinality(InjectedBy(d, id)) +
                         (IF deny.type = "chaos.injected" /\ deny.rule = id THEN 1 ELSE 0)
        /\ DeniedIds(f) = DeniedIds(d) \cup
              (IF deny.type = "authorization.denied" THEN {deny.call} ELSE {})
    BY EmitCounts DEF Tallied
  <2> HIDE DEF f
  <2>3. \A id : Cardinality(InjectedBy(f, id)) = Cardinality(InjectedBy(d, id))
    BY <1>2, <2>2
  <2>4. DeniedIds(f) = denied \cup {call.id}
    BY <1>2, <2>2 DEF Tallied
  <2>5. Tallied(cfg, base, denied \cup {call.id}, f, NoRule)
    BY <2>2, <2>3, <2>4 DEF Tallied, CountersInRange, Owed
  <2> QED
    BY <2>1, <2>5 DEF c
<1> QED
  BY <1>1, <1>3, <1>4

(* A call the checks let through. *)
Passes(cfg, call) == call.schema /\ (cfg.auth.enforced => handlerValid(call))

(* The checks before chaos: a call is stopped because it does not pass, or *)
(* with a refusal in the ledger.                                           *)
LEMMA TalliedCheck ==
  ASSUME NEW cfg, NEW base, NEW denied, NEW d, Tallied(cfg, base, denied, d, NoRule), NEW call
  PROVE  LET c == Check(cfg, d, call)
         IN  \/ Open(c) /\ Passes(cfg, call) /\ Tallied(cfg, base, denied, c.db, NoRule)
             \/ ~Open(c) /\ ~Passes(cfg, call) /\ Tallied(cfg, base, denied, c.db, NoRule)
             \/ ~Open(c) /\ Tallied(cfg, base, denied \cup {call.id}, c.db, NoRule)
<1> DEFINE c == Check(cfg, d, call)
           e == [d EXCEPT !.callIndex = d.callIndex + 1]
           reason == Screen(cfg, d, call, d.callIndex + 1)
<1>1. CASE ~call.schema
  <2>1. c = Stage(d, Answer(400, "invalid", 0))
    BY <1>1 DEF Check, validate
  <2>2. ~Open(c) /\ c.db = d
    BY <2>1, AnswersDiffer DEF Stage, Open
  <2> QED
    BY <1>1, <2>2 DEF Passes
<1>2. CASE call.schema /\ ~cfg.auth.enforced
  <2>1. c = Stage(d, Unanswered)
    BY <1>2 DEF Check, validate, Authorize
  <2>2. Open(c) /\ c.db = d
    BY <2>1 DEF Stage, Open
  <2> QED
    BY <1>2, <2>2 DEF Passes
<1>3. CASE call.schema /\ cfg.auth.enforced /\ ~handlerValid(call)
  <2>1. PICK text : c = Stage(d, Answer(400, text, 0))
    BY <1>3, ZenonT(60) DEF Check, validate, Authorize
  <2> HIDE DEF c
  <2>2. ~Open(c) /\ c.db = d
    BY <2>1, AnswersDiffer DEF Stage, Open
  <2> QED
    BY <1>3, <2>2 DEF Passes, c
<1>4. CASE call.schema /\ cfg.auth.enforced /\ handlerValid(call)
  <2>1. c = Judged(e, call, reason)
    BY <1>4 DEF Check, validate, Authorize
  <2>2. DOMAIN e = Rows /\ e.events = d.events /\ e.rules = d.rules
    BY DEF Tallied, Rows
  <2> HIDE DEF e, reason
  <2>3. Tallied(cfg, base, denied, e, NoRule)
    BY <2>2, TalliedKept
  <2> QED
    BY <1>4, <2>1, <2>3, TalliedJudged DEF Passes
<1> QED
  BY <1>1, <1>2, <1>3, <1>4

(* Every matching rule counts the call. *)
Counted(cfg, d, call, base) ==
    /\ DOMAIN base.rules = DOMAIN cfg.chaos
    /\ \A j \in DOMAIN cfg.chaos :
          base.rules[j].calls = d.rules[j].calls + (IF call.op \in cfg.chaos[j].ops THEN 1 ELSE 0)

(* chaos.Decide counts the call and owes the selected rule's event. *)
LEMMA TalliedDecide ==
  ASSUME NEW cfg, RulesParsed(cfg), NEW base, NEW denied, NEW d,
         Tallied(cfg, base, denied, d, NoRule), NEW call
  PROVE  LET c == ChaosDecide(cfg, d, call)
         IN  /\ c.rule \in DOMAIN cfg.chaos \cup {NoRule}
             /\ Counted(cfg, d, call, c.db)
             /\ Tallied(cfg, c.db, denied, c.db, c.rule)
<1> DEFINE M == Matching(cfg, call)
           count(j) == IF j \in M THEN OneMoreCall(d.rules[j]) ELSE d.rules[j]
           rules == [j \in DOMAIN d.rules |-> count(j)]
           a == Advance(cfg, d, call)
           active == {j \in M : Active(cfg, a, j, call)}
           first == CHOOSE j \in active : \A k \in active : j <= k
           c == ChaosDecide(cfg, d, call)
<1>1. DOMAIN d = Rows /\ DOMAIN d.rules = DOMAIN cfg.chaos
  BY DEF Tallied, CountersInRange
<1>2. a = [d EXCEPT !.rules = rules]
  BY DEF Advance
<1>3. \A j \in DOMAIN cfg.chaos :
          /\ DOMAIN rules[j] = CounterFields
          /\ rules[j].calls = d.rules[j].calls + (IF call.op \in cfg.chaos[j].ops THEN 1 ELSE 0)
          /\ rules[j].injections = d.rules[j].injections
  <2> SUFFICES ASSUME NEW j \in DOMAIN cfg.chaos
               PROVE  /\ DOMAIN rules[j] = CounterFields
                      /\ rules[j].calls = d.rules[j].calls + (IF call.op \in cfg.chaos[j].ops THEN 1 ELSE 0)
                      /\ rules[j].injections = d.rules[j].injections
    OBVIOUS
  <2>1. rules[j] = count(j) /\ DOMAIN d.rules[j] = CounterFields /\ d.rules[j].calls \in Nat
    BY <1>1 DEF Tallied, CountersInRange
  <2>2. j \in M <=> call.op \in cfg.chaos[j].ops
    BY DEF Matching
  <2> QED
    BY <2>1, <2>2 DEF OneMoreCall, CounterFields
<1>4. DOMAIN rules = DOMAIN cfg.chaos
  BY <1>1
<1> HIDE DEF rules, a
<1>5. DOMAIN a = Rows /\ a.rules = rules /\ a.events = d.events
  BY <1>1, <1>2 DEF Rows
<1>6. Tallied(cfg, a, denied, a, NoRule) /\ Counted(cfg, d, call, a)
  <2>1. \A id : InjectedBy(a, id) = InjectedBy(d, id)
    BY <1>5 DEF InjectedBy
  <2>2. DeniedIds(a) = DeniedIds(d)
    BY <1>5 DEF DeniedIds
  <2>3. CountersInRange(cfg, a)
    BY <1>3, <1>4, <1>5 DEF Tallied, CountersInRange
  <2>4. Owed(cfg, a, NoRule)
    BY <1>3, <1>4, <1>5, <2>1 DEF Tallied, Owed
  <2> QED
    BY <1>3, <1>4, <1>5, <2>2, <2>3, <2>4 DEF Tallied, Counted
<1>7. c = Select(a, active)
  BY DEF ChaosDecide, SelectActive, a
<1>8. CASE active = {}
  <2>1. c.db = a /\ c.rule = NoRule
    BY <1>7, <1>8 DEF Select
  <2> QED
    BY <1>6, <2>1
<1>9. CASE active # {}
  <2>1. active \subseteq DOMAIN cfg.chaos /\ active \subseteq Nat
    BY DEF Matching, RulesParsed
  <2>2. first \in active
    <3> HIDE DEF active
    <3> QED
      BY <1>9, <2>1, LeastNat
  <2>3. Active(cfg, a, first, call) /\ first \in DOMAIN cfg.chaos
    BY <2>1, <2>2
  <2> DEFINE x == [a.rules[first] EXCEPT !.injections = @ + 1]
             v == [a.rules EXCEPT ![first] = x]
             e == [a EXCEPT !.rules = v]
  <2>4. c.rule = first /\ c.db = e
    BY <1>7, <1>9 DEF Select
  <2> HIDE DEF first, c, active
  <2>5. /\ DOMAIN a.rules = DOMAIN cfg.chaos /\ DOMAIN a.rules[first] = CounterFields
        /\ a.rules[first].injections \in Int /\ a.rules[first].calls \in Nat
    BY <1>6, <2>3 DEF Tallied, CountersInRange
  <2>6. /\ DOMAIN x = CounterFields /\ x.calls = a.rules[first].calls
        /\ x.injections = a.rules[first].injections + 1
    BY <2>5 DEF CounterFields
  <2> HIDE DEF x
  <2>7. /\ DOMAIN v = DOMAIN cfg.chaos /\ v[first] = x
        /\ \A j \in DOMAIN cfg.chaos : j # first => v[j] = a.rules[j]
    BY <2>3, <2>5
  <2> HIDE DEF v
  <2>8. DOMAIN e = Rows /\ e.rules = v /\ e.events = a.events
    BY <1>5 DEF Rows
  <2> HIDE DEF e
  <2>9. \A id : InjectedBy(e, id) = InjectedBy(a, id)
    BY <2>8 DEF InjectedBy
  <2>10. DeniedIds(e) = DeniedIds(a)
    BY <2>8 DEF DeniedIds
  <2>11. CountersInRange(cfg, e)
    <3>1. cfg.chaos[first].times # 0 => x.injections <= cfg.chaos[first].times
      BY <2>3, <2>5, <2>6 DEF Active, RulesParsed
    <3>2. ASSUME NEW j \in DOMAIN cfg.chaos
          PROVE  /\ DOMAIN v[j] = CounterFields /\ v[j].calls \in Nat /\ v[j].injections \in Int
                 /\ cfg.chaos[j].times # 0 => v[j].injections <= cfg.chaos[j].times
      <4>1. CASE j = first
        BY <2>5, <2>6, <2>7, <3>1, <4>1
      <4>2. CASE j # first
        BY <1>6, <2>7, <4>2 DEF Tallied, CountersInRange
      <4> QED
        BY <4>1, <4>2
    <3> QED
      BY <2>7, <2>8, <3>2 DEF CountersInRange
  <2>12. Owed(cfg, e, first)
    <3> SUFFICES ASSUME NEW j \in DOMAIN cfg.chaos
                 PROVE  v[j].injections =
                            Cardinality(InjectedBy(a, cfg.chaos[j].id)) + (IF j = first THEN 1 ELSE 0)
      BY <2>8, <2>9 DEF Owed
    <3>1. j # NoRule
      BY DEF RulesParsed, NoRule
    <3>2. /\ a.rules[j].injections = Cardinality(InjectedBy(a, cfg.chaos[j].id)) + 0
          /\ Cardinality(InjectedBy(a, cfg.chaos[j].id)) \in Nat
      BY <1>6, <3>1, EmitCounts DEF Tallied, Owed
    <3> QED
      BY <2>6, <2>7, <3>2
  <2>13. \A j \in DOMAIN cfg.chaos : v[j].calls = a.rules[j].calls
    BY <2>6, <2>7
  <2>14. Counted(cfg, d, call, e)
    BY <1>6, <2>7, <2>8, <2>13 DEF Counted
  <2>15. Tallied(cfg, e, denied, e, first)
    BY <1>5, <1>6, <2>8, <2>10, <2>11, <2>12 DEF Tallied
  <2> QED
    BY <2>3, <2>4, <2>14, <2>15 DEF c
<1> QED
  BY <1>8, <1>9

(* Before the handler: an effect that does not wait for the answer pays    *)
(* what it owes.                                                           *)
LEMMA TalliedBefore ==
  ASSUME NEW cfg, RulesParsed(cfg), NEW base, NEW denied, NEW d, NEW i \in DOMAIN cfg.chaos \cup {NoRule},
         Tallied(cfg, base, denied, d, i), NEW call
  PROVE  Tallied(cfg, base, denied, BeforeHandler(cfg, d, i, call).db,
                 IF RuleType(cfg, i) \in PostEffect THEN i ELSE NoRule)
<1> DEFINE b == BeforeHandler(cfg, d, i, call)
           inj == Injected(cfg, d, i, call)
           e == Emit(d, inj)
<1>1. CASE i = NoRule
  <2>1. RuleType(cfg, i) = "none" /\ "none" \notin PostEffect
    BY <1>1 DEF RuleType, PostEffect
  <2>2. b.db = d
    BY <2>1 DEF BeforeHandler
  <2> QED
    BY <1>1, <2>1, <2>2
<1>2. CASE i # NoRule /\ RuleType(cfg, i) \in PostEffect
  <2>1. b.db = d
    BY <1>2 DEF BeforeHandler
  <2> QED
    BY <1>2, <2>1
<1>3. CASE i # NoRule /\ RuleType(cfg, i) = "none"
  BY <1>3 DEF RuleType, RulesParsed
<1>4. CASE i # NoRule /\ RuleType(cfg, i) \notin PostEffect \cup {"none"}
  <2>1. inj.type = "chaos.injected" /\ inj.rule = cfg.chaos[i].id
    BY DEF Injected
  <2> HIDE DEF inj
  <2>2. Tallied(cfg, base, denied, e, NoRule)
    BY <1>4, <2>1, TalliedInject
  <2> HIDE DEF e
  <2>3. ASSUME NEW rule, NEW n PROVE Tallied(cfg, base, denied, invokeActor(cfg, e, rule, n).db, NoRule)
    <3> DEFINE row == ActorRow(e, rule, n)
               w == Handle(cfg.seed, e.world, row, rule.actor).world
               m == Mutation("chaos.actor_mutation", row, rule.actor)
               f == [e EXCEPT !.world = w]
    <3>1. invokeActor(cfg, e, rule, n).db = Emit(f, m)
      BY DEF invokeActor, ActorWrote
    <3>2. m.type \notin Counting
      BY DEF Mutation, Counting
    <3> HIDE DEF w, m
    <3>3. DOMAIN f = Rows /\ f.events = e.events /\ f.rules = e.rules
      BY <2>2 DEF Tallied, Rows
    <3> HIDE DEF f
    <3>4. Tallied(cfg, base, denied, f, NoRule)
      BY <2>2, <3>3, TalliedKept
    <3> QED
      BY <3>1, <3>2, <3>4, TalliedEmit
  <2>4. b.db = e \/ \E rule, n : b = invokeActor(cfg, e, rule, n)
    BY <1>4 DEF BeforeHandler, e, inj
  <2> HIDE DEF b
  <2> QED
    BY <1>4, <2>2, <2>3, <2>4 DEF b
<1> QED
  BY <1>1, <1>2, <1>3, <1>4

(* The handler. *)
LEMMA TalliedHandler ==
  ASSUME NEW cfg, NEW base, NEW denied, NEW d, NEW owed, Tallied(cfg, base, denied, d, owed), NEW call
  PROVE  Tallied(cfg, base, denied, RunHandler(cfg, d, call).db, owed)
<1> DEFINE retry == [type |-> "retry", call |-> call.id]
           e == IF RetryDue(cfg, d, call) THEN Emit(d, retry) ELSE d
           done == Handle(cfg.seed, d.world, AgentRow(d, call), call)
           v == [e EXCEPT !.world = done.world]
<1>1. Tallied(cfg, base, denied, e, owed)
  <2>1. retry.type \notin Counting
    BY DEF Counting
  <2> HIDE DEF retry
  <2> QED
    BY <2>1, TalliedEmit
<1>2. RunHandler(cfg, d, call) = HandlerRan(cfg, e, call, done)
  BY DEF RunHandler
<1> HIDE DEF e, done
<1>3. DOMAIN v = Rows /\ v.events = e.events /\ v.rules = e.rules
  BY <1>1 DEF Tallied, Rows
<1>4. Tallied(cfg, base, denied, v, owed)
  <2> HIDE DEF v
  <2> QED
    BY <1>1, <1>3, TalliedKept
<1>5. \/ HandlerRan(cfg, e, call, done).db = v
      \/ HandlerRan(cfg, e, call, done).db = SaveSnapshot(cfg, v, call, done.answer)
  BY DEF HandlerRan, Outcome
<1> HIDE DEF v
<1>6. Tallied(cfg, base, denied, SaveSnapshot(cfg, v, call, done.answer), owed)
  <2> DEFINE u == SaveSnapshot(cfg, v, call, done.answer)
  <2>1. DOMAIN u = Rows /\ u.events = v.events /\ u.rules = v.rules
    BY <1>4 DEF Tallied, Rows, SaveSnapshot
  <2> HIDE DEF u
  <2>2. Tallied(cfg, base, denied, u, owed)
    BY <1>4, <2>1, TalliedKept
  <2> QED
    BY <2>2 DEF u
<1> QED
  BY <1>2, <1>4, <1>5, <1>6

(* Whoever answers. *)
LEMMA TalliedServe ==
  ASSUME NEW cfg, NEW base, NEW denied, NEW d, NEW owed, Tallied(cfg, base, denied, d, owed),
         NEW i, NEW call, NEW pre
  PROVE  /\ DOMAIN Serve(cfg, d, i, call, pre) = OutcomeFields
         /\ Tallied(cfg, base, denied, Serve(cfg, d, i, call, pre).db, owed)
<1> DEFINE fault == [type |-> "error", kind |-> "injected_503", call |-> call.id]
           e == [d EXCEPT !.consumed = TRUE]
           s == Serve(cfg, d, i, call, pre)
<1>1. DOMAIN e = Rows /\ e.events = d.events /\ e.rules = d.rules
  BY DEF Tallied, Rows
<1>2. fault.type \notin Counting
  BY DEF Counting
<1>3. \/ s = Outcome(d, pre, FALSE)
      \/ s = Outcome(Emit(e, fault), Answer(503, "unavailable", 0), FALSE)
      \/ s = RunHandler(cfg, d, call)
  BY DEF Serve
<1>4. DOMAIN RunHandler(cfg, d, call) = OutcomeFields
  BY DEF RunHandler, HandlerRan, Outcome, OutcomeFields
<1> HIDE DEF e, fault, s
<1>5. Tallied(cfg, base, denied, Emit(e, fault), owed)
  BY <1>1, <1>2, TalliedKept, TalliedEmit
<1>6. DOMAIN s = OutcomeFields /\ Tallied(cfg, base, denied, s.db, owed)
  BY <1>3, <1>4, <1>5, TalliedHandler DEF Outcome, OutcomeFields
<1> QED
  BY <1>6 DEF s

(* An effect on the answer pays what it owes, or takes its injection back. *)
LEMMA TalliedHide ==
  ASSUME NEW cfg, RulesParsed(cfg), NEW base, NEW denied, NEW i \in DOMAIN cfg.chaos,
         NEW done, DOMAIN done = OutcomeFields, Tallied(cfg, base, denied, done.db, i), NEW call
  PROVE  Tallied(cfg, base, denied, HideOutcome(cfg, done, i, call).db, NoRule)
<1> DEFINE d == done.db
           h == HideOutcome(cfg, done, i, call)
           hidden == d.hidden \cup {[call |-> call.id, rule |-> cfg.chaos[i].id, answer |-> done.answer]}
           kept == [d EXCEPT !.hidden = hidden]
           x == [d.rules[i] EXCEPT !.injections = @ - 1]
           v == [d.rules EXCEPT ![i] = x]
           undo == [d EXCEPT !.rules = v]
           inj == Injected(cfg, d, i, call)
<1>1. h.db = undo \/ h.db = Emit(kept, inj)
  BY DEF HideOutcome, OutcomeFields
<1>2. inj.type = "chaos.injected" /\ inj.rule = cfg.chaos[i].id
  BY DEF Injected
<1> HIDE DEF h, inj, hidden
<1>3. DOMAIN kept = Rows /\ kept.events = d.events /\ kept.rules = d.rules
  BY DEF Tallied, Rows
<1>4. Tallied(cfg, base, denied, Emit(kept, inj), NoRule)
  <2> HIDE DEF kept
  <2>1. Tallied(cfg, base, denied, kept, i)
    BY <1>3, TalliedKept
  <2> QED
    BY <1>2, <2>1, TalliedInject
<1> HIDE DEF d
<1>5. /\ DOMAIN d = Rows /\ DOMAIN d.rules = DOMAIN cfg.chaos /\ DOMAIN d.rules[i] = CounterFields
      /\ d.rules[i].injections \in Int /\ d.rules[i].calls \in Nat
  BY DEF Tallied, CountersInRange, d
<1>6. /\ DOMAIN x = CounterFields /\ x.calls = d.rules[i].calls
      /\ x.injections = d.rules[i].injections - 1
  BY <1>5 DEF CounterFields
<1> HIDE DEF x
<1>7. /\ DOMAIN v = DOMAIN cfg.chaos /\ v[i] = x
      /\ \A j \in DOMAIN cfg.chaos : j # i => v[j] = d.rules[j]
  BY <1>5
<1> HIDE DEF v
<1>8. DOMAIN undo = Rows /\ undo.rules = v /\ undo.events = d.events
  BY <1>5 DEF Rows
<1> HIDE DEF undo
<1>9. Tallied(cfg, base, denied, undo, NoRule)
  <2>1. \A id : InjectedBy(undo, id) = InjectedBy(d, id)
    BY <1>8 DEF InjectedBy
  <2>2. DeniedIds(undo) = DeniedIds(d)
    BY <1>8 DEF DeniedIds
  <2>3. ASSUME NEW j \in DOMAIN cfg.chaos
        PROVE  /\ DOMAIN v[j] = CounterFields /\ v[j].calls = d.rules[j].calls /\ v[j].calls \in Nat
               /\ v[j].injections \in Int
               /\ cfg.chaos[j].times # 0 => v[j].injections <= cfg.chaos[j].times
               /\ v[j].injections = Cardinality(InjectedBy(d, cfg.chaos[j].id))
    <3>1. Cardinality(InjectedBy(d, cfg.chaos[j].id)) \in Nat
      BY EmitCounts DEF Tallied, d
    <3>2. /\ d.rules[j].injections =
                 Cardinality(InjectedBy(d, cfg.chaos[j].id)) + (IF j = i THEN 1 ELSE 0)
          /\ DOMAIN d.rules[j] = CounterFields /\ d.rules[j].calls \in Nat
          /\ d.rules[j].injections \in Int
          /\ cfg.chaos[j].times # 0 => d.rules[j].injections <= cfg.chaos[j].times
      BY DEF Tallied, CountersInRange, Owed, d
    <3>3. cfg.chaos[j].times \in Nat
      BY DEF RulesParsed
    <3>4. CASE j = i
      BY <1>6, <1>7, <3>1, <3>2, <3>3, <3>4
    <3>5. CASE j # i
      BY <1>7, <3>1, <3>2, <3>5
    <3> QED
      BY <3>4, <3>5
  <2>4. \A j \in DOMAIN cfg.chaos : j # NoRule
    BY DEF RulesParsed, NoRule
  <2>5. CountersInRange(cfg, undo)
    BY <1>7, <1>8, <2>3 DEF CountersInRange
  <2>6. Owed(cfg, undo, NoRule)
    BY <1>8, <2>1, <2>3, <2>4 DEF Owed
  <2> QED
    BY <1>8, <2>2, <2>3, <2>5, <2>6 DEF Tallied, d
<1> QED
  BY <1>1, <1>4, <1>9 DEF h

(* The handler with what chaos does around it. *)
LEMMA TalliedRun ==
  ASSUME NEW cfg, RulesParsed(cfg), NEW base, NEW denied, NEW decided,
         decided.rule \in DOMAIN cfg.chaos \cup {NoRule},
         Tallied(cfg, base, denied, decided.db, decided.rule), NEW call
  PROVE  Tallied(cfg, base, denied, RunCall(cfg, decided, call).done.db, NoRule)
<1> DEFINE i == decided.rule
           actor == BeforeHandler(cfg, decided.db, i, call)
           pre == IF i = NoRule THEN Unanswered ELSE PreAnswer(cfg, actor.db, i, call)
           done == Serve(cfg, actor.db, i, call, pre)
           owed == IF RuleType(cfg, i) \in PostEffect THEN i ELSE NoRule
<1>1. Tallied(cfg, base, denied, actor.db, owed)
  BY TalliedBefore
<1>2. RunCall(cfg, decided, call) = AfterHandler(cfg, actor, i, call, done)
  BY DEF RunCall, Served
<1> HIDE DEF actor, pre
<1>3. DOMAIN done = OutcomeFields /\ Tallied(cfg, base, denied, done.db, owed)
  <2> HIDE DEF owed
  <2> QED
    BY <1>1, TalliedServe
<1> HIDE DEF done
<1>4. CASE RuleType(cfg, i) \in PostEffect
  <2>1. i \in DOMAIN cfg.chaos
    BY <1>4 DEF RuleType, PostEffect
  <2>2. Tallied(cfg, base, denied, HideOutcome(cfg, done, i, call).db, NoRule)
    BY <1>3, <1>4, <2>1, TalliedHide
  <2>3. AfterHandler(cfg, actor, i, call, done).done = HideOutcome(cfg, done, i, call)
    BY <1>4 DEF AfterHandler
  <2> QED
    BY <1>2, <2>2, <2>3
<1>5. CASE RuleType(cfg, i) \notin PostEffect
  <2>1. AfterHandler(cfg, actor, i, call, done).done = done
    BY <1>5 DEF AfterHandler
  <2> QED
    BY <1>2, <1>3, <1>5, <2>1
<1> QED
  BY <1>4, <1>5

(* The rows every settled call leaves. *)
LEMMA TalliedSettle ==
  ASSUME NEW cfg, NEW base, NEW denied, NEW done, Tallied(cfg, base, denied, done.db, NoRule), NEW call
  PROVE  Tallied(cfg, base, denied, Settle(done, call), NoRule)
<1> DEFINE m == Mutation("state.mutation", AgentRow(done.db, call), call)
           a == IF done.mutated THEN Emit(done.db, m) ELSE done.db
           r == ResponseEvent(call, done.answer)
           c == Emit(a, r)
           d == Settle(done, call)
<1>1. d = [c EXCEPT !.results = @ \cup {Result(call, done.answer)},
                    !.transcript = Append(@, Entry(call, done.answer))]
  BY DEF Settle, ResponseEvent, Result, Entry
<1>2. m.type \notin Counting /\ r.type \notin Counting
  BY DEF Mutation, ResponseEvent, Counting
<1> HIDE DEF m, r, d
<1>3. Tallied(cfg, base, denied, a, NoRule)
  BY <1>2, TalliedEmit
<1> HIDE DEF a
<1>4. Tallied(cfg, base, denied, c, NoRule)
  BY <1>2, <1>3, TalliedEmit
<1> HIDE DEF c
<1>5. DOMAIN d = Rows /\ d.events = c.events /\ d.rules = c.rules
  BY <1>1, <1>4 DEF Tallied, Rows
<1>6. Tallied(cfg, base, denied, d, NoRule)
  BY <1>4, <1>5, TalliedKept
<1> QED
  BY <1>6 DEF d

(* What a call that is answered does to the counters and the refusals. *)
LEMMA InvokeTallies ==
  ASSUME NEW cfg, RulesParsed(cfg), NEW d, IsRun(d), CountersInRange(cfg, d), Owed(cfg, d, NoRule),
         NEW call, Saved(d, call) = {}, call.op \in cfg.ops, Invoke(cfg, d, call).ok
  PROVE  LET e == Invoke(cfg, d, call).db
         IN  /\ CountersInRange(cfg, e) /\ Owed(cfg, e, NoRule)
             /\ \/ Passes(cfg, call) /\ Counted(cfg, d, call, e) /\ DeniedIds(e) = DeniedIds(d)
                \/ /\ \A j \in DOMAIN cfg.chaos : e.rules[j].calls = d.rules[j].calls
                   /\ \/ ~Passes(cfg, call) /\ DeniedIds(e) = DeniedIds(d)
                      \/ DeniedIds(e) = DeniedIds(d) \cup {call.id}
<1> DEFINE denied == DeniedIds(d)
           start == Emit(d, RequestEvent(call))
           checked == Check(cfg, start, call)
           decided == ChaosDecide(cfg, checked.db, call)
           run == RunCall(cfg, decided, call)
           stopped == Outcome(checked.db, checked.answer, FALSE)
           e == Invoke(cfg, d, call).db
<1>1. Invoke(cfg, d, call) = Proceed(cfg, d, call, checked)
  BY DEF Invoke, RequestEvent
<1>2. Tallied(cfg, d, denied, start, NoRule)
  <2>1. Tallied(cfg, d, denied, d, NoRule)
    BY DEF Tallied, IsRun
  <2>2. RequestEvent(call).type \notin Counting
    BY DEF RequestEvent, Counting
  <2> QED
    BY <2>1, <2>2, TalliedEmit
<1> HIDE DEF start
<1>3. \/ Open(checked) /\ Passes(cfg, call) /\ Tallied(cfg, d, denied, checked.db, NoRule)
      \/ ~Open(checked) /\ ~Passes(cfg, call) /\ Tallied(cfg, d, denied, checked.db, NoRule)
      \/ ~Open(checked) /\ Tallied(cfg, d, denied \cup {call.id}, checked.db, NoRule)
  BY <1>2, TalliedCheck
<1> HIDE DEF checked
<1>4. CASE Open(checked)
  <2>1. Passes(cfg, call) /\ Tallied(cfg, d, denied, checked.db, NoRule)
    BY <1>3, <1>4
  <2>2. /\ decided.rule \in DOMAIN cfg.chaos \cup {NoRule}
        /\ Counted(cfg, checked.db, call, decided.db)
        /\ Tallied(cfg, decided.db, denied, decided.db, decided.rule)
    BY <2>1, TalliedDecide
  <2> HIDE DEF decided
  <2>3. Tallied(cfg, decided.db, denied, run.done.db, NoRule)
    BY <2>2, TalliedRun
  <2>4. e = Settle(run.done, call)
    BY <1>1, <1>4 DEF Proceed, Committed, decided
  <2> HIDE DEF run
  <2>5. Tallied(cfg, decided.db, denied, e, NoRule)
    BY <2>3, <2>4, TalliedSettle
  <2> HIDE DEF e
  <2>6. Counted(cfg, d, call, e)
    BY <2>1, <2>2, <2>5 DEF Counted, Tallied, CountersInRange
  <2>7. CountersInRange(cfg, e) /\ Owed(cfg, e, NoRule) /\ DeniedIds(e) = denied
    BY <2>5 DEF Tallied
  <2> QED
    BY <2>1, <2>6, <2>7 DEF e
<1>5. CASE ~Open(checked)
  <2>1. e = Settle(stopped, call) /\ stopped.db = checked.db
    BY <1>1, <1>5 DEF Proceed, Outcome
  <2> HIDE DEF stopped, e
  <2>2. ASSUME NEW x, Tallied(cfg, d, x, checked.db, NoRule)
        PROVE  /\ CountersInRange(cfg, e) /\ Owed(cfg, e, NoRule) /\ DeniedIds(e) = x
               /\ \A j \in DOMAIN cfg.chaos : e.rules[j].calls = d.rules[j].calls
    <3>1. Tallied(cfg, d, x, stopped.db, NoRule)
      BY <2>1, <2>2
    <3>2. Tallied(cfg, d, x, e, NoRule)
      BY <2>1, <3>1, TalliedSettle
    <3> QED
      BY <3>2 DEF Tallied
  <2> QED
    BY <1>3, <1>5, <2>2 DEF e
<1> QED
  BY <1>4, <1>5

(* The results of the calls that rule j has seen. *)
SeenBy(cfg, d, j) ==
    {r \in d.results : /\ r.call.op \in cfg.chaos[j].ops
                       /\ Passes(cfg, r.call)
                       /\ r.call.id \notin DeniedIds(d)}

(* Between calls no injection is owed, a refusal belongs to a result, and  *)
(* every rule has counted the results it has seen.                         *)
Balanced(cfg, d) ==
    /\ CountersInRange(cfg, d)
    /\ Owed(cfg, d, NoRule)
    /\ IsFiniteSet(d.results)
    /\ DeniedIds(d) \subseteq {r.call.id : r \in d.results}
    /\ \A j \in DOMAIN cfg.chaos : d.rules[j].calls = Cardinality(SeenBy(cfg, d, j))

(* A fresh run. *)
LEMMA NewRunBalanced ==
  ASSUME NEW cfg, Creatable(cfg), DOMAIN cfg.chaos \subseteq Nat \ {0}
  PROVE  RulesParsed(cfg) /\ Balanced(cfg, NewRun(cfg))
<1> DEFINE d == NewRun(cfg)
           e == [type |-> "execution.started"]
<1>1. RulesParsed(cfg)
  <2>1. ASSUME NEW j \in DOMAIN cfg.chaos PROVE cfg.chaos[j].times \in Nat /\ cfg.chaos[j].type # "none"
    <3>1. ParseRule(cfg.chaos[j], cfg.ops)
      BY DEF Creatable, ParseChaos
    <3>2. /\ cfg.chaos[j].times \in Nat
          /\ cfg.chaos[j].type \in BoundedTypes \cup {"latency", "rate_limit", "permission_revocation", "stale_read"}
      BY <3>1, Zenon DEF ParseRule
    <3> QED
      BY <3>2 DEF BoundedTypes
  <2>2. \A i, j \in DOMAIN cfg.chaos : cfg.chaos[i].id = cfg.chaos[j].id => i = j
    BY DEF Creatable, ParseChaos
  <2> QED
    BY <2>1, <2>2 DEF RulesParsed
<1>2. d.events = <<e>> /\ d.results = {}
  BY NewRunFacts
<1>3. DOMAIN <<e>> = {1} /\ <<e>>[1].type = "execution.started"
  OBVIOUS
<1>4. /\ DOMAIN d.rules = DOMAIN cfg.chaos
      /\ \A j \in DOMAIN cfg.chaos : /\ d.rules[j] = [calls |-> 0, injections |-> 0]
                                     /\ j # NoRule
  BY <1>1 DEF NewRun, RulesParsed, NoRule
<1> HIDE DEF d, e
<1>5. DeniedIds(d) = {} /\ \A id : InjectedBy(d, id) = {}
  BY <1>2, <1>3 DEF DeniedIds, InjectedBy
<1>6. Cardinality({}) = 0 /\ IsFiniteSet({})
  BY FS_EmptySet
<1>7. \A j \in DOMAIN cfg.chaos : /\ DOMAIN d.rules[j] = CounterFields
                                  /\ d.rules[j].calls = 0 /\ d.rules[j].injections = 0
  BY <1>4 DEF CounterFields
<1>8. CountersInRange(cfg, d)
  BY <1>1, <1>4, <1>7 DEF CountersInRange, RulesParsed
<1>9. Owed(cfg, d, NoRule)
  BY <1>4, <1>5, <1>6, <1>7 DEF Owed
<1>10. \A j \in DOMAIN cfg.chaos : SeenBy(cfg, d, j) = {}
  BY <1>2 DEF SeenBy
<1>11. Balanced(cfg, d)
  BY <1>2, <1>5, <1>6, <1>7, <1>8, <1>9, <1>10 DEF Balanced
<1> QED
  BY <1>1, <1>11 DEF d

(* An answered call. *)
LEMMA BalancedStep ==
  ASSUME NEW cfg, RulesParsed(cfg), NEW d, IsRun(d), Balanced(cfg, d), NEW call,
         Saved(d, call) = {}, call.op \in cfg.ops, Invoke(cfg, d, call).ok,
         NEW answer, Invoke(cfg, d, call).db.results = d.results \cup {Result(call, answer)}
  PROVE  Balanced(cfg, Invoke(cfg, d, call).db)
<1> DEFINE e == Invoke(cfg, d, call).db
           new == Result(call, answer)
<1>1. /\ CountersInRange(cfg, e) /\ Owed(cfg, e, NoRule)
      /\ \/ Passes(cfg, call) /\ Counted(cfg, d, call, e) /\ DeniedIds(e) = DeniedIds(d)
         \/ /\ \A j \in DOMAIN cfg.chaos : e.rules[j].calls = d.rules[j].calls
            /\ \/ ~Passes(cfg, call) /\ DeniedIds(e) = DeniedIds(d)
               \/ DeniedIds(e) = DeniedIds(d) \cup {call.id}
  BY InvokeTallies DEF Balanced
<1>2. e.results = d.results \cup {new}
  OBVIOUS
<1> HIDE DEF e
<1>3. new.call = call /\ new \notin d.results /\ \A r \in d.results : r.call.id # call.id
  BY DEF Result, Saved
<1> HIDE DEF new
<1>4. call.id \notin DeniedIds(d)
  BY <1>3 DEF Balanced
<1>5. IsFiniteSet(e.results)
  BY <1>2, FS_AddElement DEF Balanced
<1>6. DeniedIds(e) \subseteq {r.call.id : r \in e.results}
  BY <1>1, <1>2, <1>3 DEF Balanced
<1>7. ASSUME NEW j \in DOMAIN cfg.chaos PROVE e.rules[j].calls = Cardinality(SeenBy(cfg, e, j))
  <2>1. d.rules[j].calls = Cardinality(SeenBy(cfg, d, j)) /\ IsFiniteSet(SeenBy(cfg, d, j))
    <3>1. SeenBy(cfg, d, j) \subseteq d.results
      BY DEF SeenBy
    <3> QED
      BY <3>1, FS_Subset DEF Balanced
  <2>2. \A r \in d.results : r.call.id \in DeniedIds(e) <=> r.call.id \in DeniedIds(d)
    BY <1>1, <1>3
  <2>3. CASE call.op \in cfg.chaos[j].ops /\ Passes(cfg, call) /\ call.id \notin DeniedIds(e)
    <3>1. SeenBy(cfg, e, j) = SeenBy(cfg, d, j) \cup {new} /\ new \notin SeenBy(cfg, d, j)
      BY <1>2, <1>3, <2>2, <2>3 DEF SeenBy
    <3>2. Cardinality(SeenBy(cfg, d, j) \cup {new}) = Cardinality(SeenBy(cfg, d, j)) + 1
      BY <2>1, <3>1, FS_AddElement
    <3>3. Counted(cfg, d, call, e)
      BY <1>1, <2>3
    <3>4. e.rules[j].calls = d.rules[j].calls + 1
      BY <2>3, <3>3 DEF Counted
    <3> QED
      BY <2>1, <3>1, <3>2, <3>4
  <2>4. CASE ~(call.op \in cfg.chaos[j].ops /\ Passes(cfg, call) /\ call.id \notin DeniedIds(e))
    <3>1. SeenBy(cfg, e, j) = SeenBy(cfg, d, j)
      BY <1>2, <1>3, <2>2, <2>4 DEF SeenBy
    <3>2. d.rules[j].calls \in Nat
      BY DEF Balanced, CountersInRange
    <3>3. e.rules[j].calls = d.rules[j].calls
      BY <1>1, <1>4, <2>4, <3>2 DEF Counted
    <3> QED
      BY <2>1, <3>1, <3>3
  <2> QED
    BY <2>3, <2>4
<1>8. Balanced(cfg, e)
  BY <1>1, <1>5, <1>6, <1>7 DEF Balanced
<1> QED
  BY <1>8 DEF e


(***************************************************************************)
(* A simulated timeout is a call that did nothing or a write whose outcome *)
(* is kept.                                                                *)
(*                                                                         *)
(* Until a call settles, the ledger tells of no write of an agent and only *)
(* an effect on the answer adds a hidden outcome; a handler never answers  *)
(* with the status of a timeout.                                           *)
(***************************************************************************)

(* The calls the ledger of d says wrote. *)
WrittenBy(d) ==
    {d.events[k].row.by : k \in {j \in DOMAIN d.events : d.events[j].type = "state.mutation"}}

(* The rows d of a call under way, of which nothing is kept or told yet. *)
Quiet(base, d) ==
    /\ DOMAIN d = Rows /\ IsSeq(d.events)
    /\ d.hidden = base.hidden
    /\ WrittenBy(d) = WrittenBy(base)

(* What Emit does to the writes the ledger tells of. *)
LEMMA EmitWrites ==
  ASSUME NEW d, DOMAIN d = Rows, IsSeq(d.events), NEW e
  PROVE  LET f == Emit(d, e)
         IN  /\ DOMAIN f = Rows /\ IsSeq(f.events) /\ f.hidden = d.hidden
             /\ WrittenBy(f) = WrittenBy(d) \cup (IF e.type = "state.mutation" THEN {e.row.by} ELSE {})
<1> DEFINE f == Emit(d, e)
           n == Len(d.events)
<1>1. DOMAIN f = Rows /\ f.events = Append(d.events, e) /\ f.hidden = d.hidden
  BY DEF Emit, Rows
<1> HIDE DEF f
<1>2. /\ IsSeq(f.events) /\ n \in Nat /\ DOMAIN d.events = 1..n /\ DOMAIN f.events = 1..(n + 1)
      /\ \A k \in 1..n : f.events[k] = d.events[k]
      /\ f.events[n + 1] = e
  BY <1>1, AppendFacts
<1> HIDE DEF n
<1>3. 1..(n + 1) = 1..n \cup {n + 1} /\ n + 1 \notin 1..n
  BY <1>2
<1>4. ASSUME NEW x \in WrittenBy(f)
      PROVE  x \in WrittenBy(d) \cup (IF e.type = "state.mutation" THEN {e.row.by} ELSE {})
  <2>1. PICK k \in DOMAIN f.events : f.events[k].type = "state.mutation" /\ x = f.events[k].row.by
    BY DEF WrittenBy
  <2>2. CASE k \in 1..n
    BY <1>2, <2>1, <2>2 DEF WrittenBy
  <2>3. CASE k = n + 1
    BY <1>2, <2>1, <2>3
  <2> QED
    BY <1>2, <1>3, <2>2, <2>3
<1>5. ASSUME NEW x \in WrittenBy(d) PROVE x \in WrittenBy(f)
  <2>1. PICK k \in DOMAIN d.events : d.events[k].type = "state.mutation" /\ x = d.events[k].row.by
    BY DEF WrittenBy
  <2>2. k \in DOMAIN f.events /\ f.events[k] = d.events[k]
    BY <1>2, <1>3, <2>1
  <2> QED
    BY <2>1, <2>2 DEF WrittenBy
<1>6. ASSUME e.type = "state.mutation" PROVE e.row.by \in WrittenBy(f)
  <2>1. n + 1 \in DOMAIN f.events /\ f.events[n + 1] = e
    BY <1>2, <1>3
  <2> QED
    BY <1>6, <2>1 DEF WrittenBy
<1> QED
  BY <1>1, <1>2, <1>4, <1>5, <1>6 DEF f

(* A write that touches neither ledger nor hidden outcomes. *)
LEMMA QuietKept ==
  ASSUME NEW base, NEW d, Quiet(base, d), NEW e,
         DOMAIN e = Rows, e.events = d.events, e.hidden = d.hidden
  PROVE  Quiet(base, e)
<1>1. WrittenBy(e) = WrittenBy(d)
  BY DEF WrittenBy
<1> QED
  BY <1>1 DEF Quiet

(* Any event but an agent's write. *)
LEMMA QuietEmit ==
  ASSUME NEW base, NEW d, Quiet(base, d), NEW e, e.type # "state.mutation"
  PROVE  Quiet(base, Emit(d, e))
<1> DEFINE f == Emit(d, e)
<1>1. /\ DOMAIN f = Rows /\ IsSeq(f.events) /\ f.hidden = d.hidden
      /\ WrittenBy(f) = WrittenBy(d) \cup (IF e.type = "state.mutation" THEN {e.row.by} ELSE {})
  BY EmitWrites DEF Quiet
<1> HIDE DEF f
<1>2. Quiet(base, f)
  BY <1>1 DEF Quiet
<1> QED
  BY <1>2 DEF f

(* The checks before chaos. *)
LEMMA QuietCheck ==
  ASSUME NEW base, NEW d, Quiet(base, d), NEW cfg, NEW call
  PROVE  Quiet(base, Check(cfg, d, call).db)
<1> DEFINE c == Check(cfg, d, call)
           e == [d EXCEPT !.callIndex = d.callIndex + 1]
           audit(type) == [type |-> type, call |-> call.id, op |-> call.op, index |-> e.callIndex]
           allow == audit("authorization.allowed")
           deny == audit("authorization.denied")
<1>1. \/ c.db = d \/ c.db = Emit(e, allow) \/ c.db = Emit(e, deny)
  <2>1. \A reason : \/ Judged(e, call, reason).db = Emit(e, allow)
                    \/ Judged(e, call, reason).db = Emit(e, deny)
    BY DEF Judged, Stage
  <2>2. Authorize(cfg, d, call).db = d \/ \E reason : Authorize(cfg, d, call) = Judged(e, call, reason)
    BY DEF Authorize, Stage
  <2>3. c.db = d \/ c = Authorize(cfg, d, call)
    BY DEF Check, Stage
  <2> HIDE DEF c, e, allow, deny
  <2> QED
    BY <2>1, <2>2, <2>3
<1>2. DOMAIN e = Rows /\ e.events = d.events /\ e.hidden = d.hidden
  BY DEF Quiet, Rows
<1>3. allow.type # "state.mutation" /\ deny.type # "state.mutation"
  OBVIOUS
<1> HIDE DEF c, e, allow, deny
<1>4. Quiet(base, e)
  BY <1>2, QuietKept
<1>5. Quiet(base, c.db)
  BY <1>1, <1>3, <1>4, QuietEmit
<1> QED
  BY <1>5 DEF c

(* chaos.Decide changes the rules' counters only. *)
LEMMA QuietDecide ==
  ASSUME NEW base, NEW d, Quiet(base, d), NEW cfg, NEW call
  PROVE  Quiet(base, ChaosDecide(cfg, d, call).db)
<1>1. ASSUME NEW c, Quiet(base, c), NEW v PROVE Quiet(base, [c EXCEPT !.rules = v])
  <2> DEFINE e == [c EXCEPT !.rules = v]
  <2>1. DOMAIN e = Rows /\ e.events = c.events /\ e.hidden = c.hidden
    BY <1>1 DEF Quiet, Rows
  <2> HIDE DEF e
  <2>2. Quiet(base, e)
    BY <1>1, <2>1, QuietKept
  <2> QED
    BY <2>2 DEF e
<1> DEFINE a == Advance(cfg, d, call)
<1>2. \E v : a = [d EXCEPT !.rules = v]
  BY DEF Advance
<1>3. Quiet(base, a)
  BY <1>1, <1>2
<1>4. \E active : ChaosDecide(cfg, d, call) = Select(a, active)
  BY DEF ChaosDecide, SelectActive
<1> HIDE DEF a
<1>5. ASSUME NEW active PROVE Quiet(base, Select(a, active).db)
  <2>1. CASE active = {}
    BY <1>3, <2>1 DEF Select
  <2>2. CASE active # {}
    <3>1. PICK v : Select(a, active).db = [a EXCEPT !.rules = v]
      BY <2>2 DEF Select
    <3> QED
      BY <1>1, <1>3, <3>1
  <2> QED
    BY <2>1, <2>2
<1> QED
  BY <1>4, <1>5

(* What happens before the handler. *)
LEMMA QuietBefore ==
  ASSUME NEW base, NEW d, Quiet(base, d), NEW cfg, NEW i, NEW call
  PROVE  Quiet(base, BeforeHandler(cfg, d, i, call).db)
<1> DEFINE b == BeforeHandler(cfg, d, i, call)
           inj == Injected(cfg, d, i, call)
           e == Emit(d, inj)
<1>1. inj.type # "state.mutation"
  BY DEF Injected
<1>2. b.db = d \/ b.db = e \/ \E rule, n : b = invokeActor(cfg, e, rule, n)
  BY DEF BeforeHandler
<1> HIDE DEF b, inj
<1>3. Quiet(base, e)
  BY <1>1, QuietEmit
<1> HIDE DEF e
<1>4. ASSUME NEW rule, NEW n PROVE Quiet(base, invokeActor(cfg, e, rule, n).db)
  <2> DEFINE row == ActorRow(e, rule, n)
             w == Handle(cfg.seed, e.world, row, rule.actor).world
             m == Mutation("chaos.actor_mutation", row, rule.actor)
             f == [e EXCEPT !.world = w]
  <2>1. invokeActor(cfg, e, rule, n).db = Emit(f, m)
    BY DEF invokeActor, ActorWrote
  <2>2. m.type # "state.mutation"
    BY DEF Mutation
  <2> HIDE DEF w, m
  <2>3. DOMAIN f = Rows /\ f.events = e.events /\ f.hidden = e.hidden
    BY <1>3 DEF Quiet, Rows
  <2> HIDE DEF f
  <2>4. Quiet(base, f)
    BY <1>3, <2>3, QuietKept
  <2> QED
    BY <2>1, <2>2, <2>4, QuietEmit
<1>5. Quiet(base, b.db)
  BY <1>2, <1>3, <1>4
<1> QED
  BY <1>5 DEF b

(* The statuses the services answer with: none is a timeout's. *)
Codes == {200, 201, 400, 404, 409}

LEMMA HandleCodes ==
  ASSUME NEW seed, NEW w, NEW id, NEW call
  PROVE  Handle(seed, w, id, call).answer.status \in Codes
<1>1. createRefund(seed, w, id, call).answer.status \in Codes
  BY DEF createRefund, Refuse, Handled, Answer, Reply, Codes
<1>2. \/ BillingHandle(seed, w, id, call) = createRefund(seed, w, id, call)
      \/ BillingHandle(seed, w, id, call).answer.status \in Codes
  BY DEF BillingHandle, ChargeBody, Read, Refuse, Handled, Answer, Reply, Codes
<1>3. CrmHandle(seed, w, id, call).answer.status \in Codes
  BY DEF CrmHandle, Read, Refuse, Handled, Answer, Reply, Codes
<1>4. \A j : OnIssue(w, id, call, j).answer.status \in Codes
  BY DEF OnIssue, Refuse, Handled, IssueBody, Answer, Reply, Codes
<1> DEFINE i == CHOOSE j \in loadIssue(w, call.target) : TRUE
<1>5. \/ TicketHandle(seed, w, id, call) = OnIssue(w, id, call, i)
      \/ TicketHandle(seed, w, id, call).answer.status \in Codes
  <2>1. 200 \in Codes /\ 201 \in Codes /\ 400 \in Codes /\ 404 \in Codes
    BY DEF Codes
  <2> DEFINE Coded(h) == h = OnIssue(w, id, call, i) \/ h.answer.status \in Codes
  <2>2. /\ \A t : Coded(Refuse(w, 400, t)) /\ Coded(Refuse(w, 404, t))
        /\ \A t, rows : Coded(Read(w, Reply(200, t, 0, rows)))
        /\ \A v : Coded(Handled(v, IssueBody(201, NewIssue(id, call)), TRUE))
        /\ Coded(OnIssue(w, id, call, i))
    BY <2>1 DEF Read, Refuse, Handled, IssueBody, Answer, Reply
  <2> HIDE DEF Coded
  <2>3. Coded(TicketHandle(seed, w, id, call))
    <3> DEFINE Bad == \/ call.target = ""
                      \/ call.op \in {"ticketCreateIssue", "ticketAddComment"} /\ call.text = ""
                      \/ call.op = "ticketTransitionIssue" /\ call.text \notin IssueStatuses
               Create == call.op = "ticketCreateIssue" /\ call.target # "" /\ call.text # ""
               Search == call.op = "ticketSearchIssues" /\ call.target # ""
    <3>1. CASE Bad
      BY <2>2, <3>1, ZenonT(60) DEF TicketHandle
    <3>2. CASE Create
      BY <2>2, <3>2, ZenonT(60) DEF TicketHandle
    <3>3. CASE Search
      BY <2>2, <3>3, ZenonT(60) DEF TicketHandle
    <3>4. CASE ~Bad /\ ~Create /\ ~Search
      BY <2>2, <3>4, ZenonT(60) DEF TicketHandle
    <3> QED
      BY <3>1, <3>2, <3>3, <3>4, Zenon
  <2> QED
    BY <2>3 DEF Coded
<1>6. MessageHandle(seed, w, id, call).answer.status \in Codes
  BY DEF MessageHandle, Read, Refuse, Handled, Answer, Reply, Codes
<1> QED
  BY <1>1, <1>2, <1>3, <1>4, <1>5, <1>6 DEF Handle

(* The registered behaviour. *)
LEMMA QuietHandler ==
  ASSUME NEW base, NEW d, Quiet(base, d), NEW cfg, NEW call
  PROVE  /\ Quiet(base, RunHandler(cfg, d, call).db)
         /\ DOMAIN RunHandler(cfg, d, call) = OutcomeFields
         /\ RunHandler(cfg, d, call).answer.status # 0
<1> DEFINE retry == [type |-> "retry", call |-> call.id]
           e == IF RetryDue(cfg, d, call) THEN Emit(d, retry) ELSE d
           done == Handle(cfg.seed, d.world, AgentRow(d, call), call)
           v == [e EXCEPT !.world = done.world]
<1>1. Quiet(base, e)
  <2>1. retry.type # "state.mutation"
    OBVIOUS
  <2> HIDE DEF retry
  <2> QED
    BY <2>1, QuietEmit
<1>2. RunHandler(cfg, d, call) = HandlerRan(cfg, e, call, done)
  BY DEF RunHandler
<1>3. done.answer.status # 0
  <2>1. done.answer.status \in Codes
    BY HandleCodes
  <2> HIDE DEF done
  <2> QED
    BY <2>1 DEF Codes
<1> HIDE DEF e, done
<1>4. DOMAIN v = Rows /\ v.events = e.events /\ v.hidden = e.hidden
  BY <1>1 DEF Quiet, Rows
<1>5. Quiet(base, v)
  <2> HIDE DEF v
  <2> QED
    BY <1>1, <1>4, QuietKept
<1>6. /\ \/ HandlerRan(cfg, e, call, done).db = v
         \/ HandlerRan(cfg, e, call, done).db = SaveSnapshot(cfg, v, call, done.answer)
      /\ DOMAIN HandlerRan(cfg, e, call, done) = OutcomeFields
      /\ HandlerRan(cfg, e, call, done).answer = done.answer
  BY DEF HandlerRan, Outcome, OutcomeFields
<1> HIDE DEF v
<1>7. Quiet(base, SaveSnapshot(cfg, v, call, done.answer))
  <2> DEFINE u == SaveSnapshot(cfg, v, call, done.answer)
  <2>1. DOMAIN u = Rows /\ u.events = v.events /\ u.hidden = v.hidden
    BY <1>5 DEF Quiet, Rows, SaveSnapshot
  <2> HIDE DEF u
  <2>2. Quiet(base, u)
    BY <1>5, <2>1, QuietKept
  <2> QED
    BY <2>2 DEF u
<1> QED
  BY <1>2, <1>3, <1>5, <1>6, <1>7

(* What a call has come to: its outcomes hidden so far are its own, and if *)
(* it is answered like a timeout they tell exactly whether it wrote.       *)
Honest(base, done, call) ==
    /\ DOMAIN done.db = Rows /\ IsSeq(done.db.events)
    /\ WrittenBy(done.db) = WrittenBy(base)
    /\ \E own : /\ done.db.hidden = base.hidden \cup own
                /\ \A h \in own : h.call = call.id
                /\ done.answer.status = 0 => /\ done.mutated <=> own # {}
                                             /\ \A h \in own : Succeeds(h.answer)

(* A call that hid nothing: it wrote nothing, or does not look like a      *)
(* timeout.                                                                *)
LEMMA HonestOpenly ==
  ASSUME NEW base, NEW done, Quiet(base, done.db), NEW call,
         ~done.mutated \/ done.answer.status # 0
  PROVE  Honest(base, done, call)
<1> DEFINE own == {}
<1>1. done.db.hidden = base.hidden \cup own /\ \A h \in own : h.call = call.id /\ Succeeds(h.answer)
  BY DEF Quiet
<1>2. done.answer.status = 0 => (done.mutated <=> own # {})
  OBVIOUS
<1> HIDE DEF own
<1> QED
  BY <1>1, <1>2 DEF Honest, Quiet

(* An effect on the answer of a handler that ran. *)
LEMMA HonestHide ==
  ASSUME NEW base, NEW done, Quiet(base, done.db), DOMAIN done = OutcomeFields,
         done.answer.status # 0, NEW cfg, NEW i, NEW call
  PROVE  Honest(base, HideOutcome(cfg, done, i, call), call)
<1> DEFINE d == done.db
           o == [call |-> call.id, rule |-> cfg.chaos[i].id, answer |-> done.answer]
           kept == [d EXCEPT !.hidden = d.hidden \cup {o}]
           inj == Injected(cfg, d, i, call)
           e == Emit(kept, inj)
           h == HideOutcome(cfg, done, i, call)
<1>1. CASE cfg.chaos[i].type = "timeout_after_commit" /\ ~(Succeeds(done.answer) /\ done.mutated)
  <2>1. PICK v : h = [done EXCEPT !.db.rules = v]
    BY <1>1 DEF HideOutcome
  <2>2. h.answer = done.answer /\ h.db = [d EXCEPT !.rules = v]
    BY <2>1 DEF OutcomeFields
  <2> HIDE DEF h, d
  <2>3. DOMAIN h.db = Rows /\ h.db.events = d.events /\ h.db.hidden = d.hidden
    BY <2>2 DEF Quiet, Rows, d
  <2>4. Quiet(base, h.db)
    BY <2>3, QuietKept DEF d
  <2>5. Honest(base, h, call)
    BY <2>2, <2>4, HonestOpenly
  <2> QED
    BY <2>5 DEF h
<1>2. CASE ~(cfg.chaos[i].type = "timeout_after_commit" /\ ~(Succeeds(done.answer) /\ done.mutated))
  <2>1. /\ h.db = e /\ h.mutated = done.mutated
        /\ \/ cfg.chaos[i].type = "timeout_after_commit"
           \/ h.answer.status = done.answer.status
    <3>1. h = [done EXCEPT !.db = e,
                           !.answer = IF cfg.chaos[i].type = "timeout_after_commit"
                                      THEN Answer(0, "timeout", 0)
                                      ELSE Answer(@.status, "malformed", 0)]
      BY <1>2 DEF HideOutcome
    <3> HIDE DEF e, h
    <3> QED
      BY <3>1 DEF OutcomeFields, Answer, Reply
  <2>2. inj.type # "state.mutation"
    BY DEF Injected
  <2>3. o.call = call.id /\ o.answer = done.answer
    OBVIOUS
  <2> HIDE DEF h, inj, o, d
  <2>4. DOMAIN kept = Rows /\ kept.events = d.events /\ kept.hidden = d.hidden \cup {o}
    BY DEF Quiet, Rows, d
  <2> HIDE DEF kept
  <2>5. WrittenBy(kept) = WrittenBy(base) /\ IsSeq(kept.events) /\ d.hidden = base.hidden
    BY <2>4 DEF Quiet, WrittenBy, d
  <2>6. /\ DOMAIN e = Rows /\ IsSeq(e.events) /\ e.hidden = kept.hidden
        /\ WrittenBy(e) = WrittenBy(kept) \cup (IF inj.type = "state.mutation" THEN {inj.row.by} ELSE {})
    BY <2>4, <2>5, EmitWrites
  <2> HIDE DEF e
  <2>7. WrittenBy(e) = WrittenBy(base) /\ e.hidden = base.hidden \cup {o}
    BY <2>2, <2>4, <2>5, <2>6
  <2>8. h.answer.status = 0 => h.mutated /\ Succeeds(o.answer)
    BY <1>2, <2>1, <2>3
  <2>9. Honest(base, h, call)
    <3> DEFINE own == {o}
    <3>1. /\ h.db.hidden = base.hidden \cup own
          /\ \A g \in own : g.call = call.id
          /\ h.answer.status = 0 => \A g \in own : Succeeds(g.answer)
      BY <2>1, <2>3, <2>7, <2>8
    <3>2. h.answer.status = 0 => (h.mutated <=> own # {})
      BY <2>8
    <3>3. DOMAIN h.db = Rows /\ IsSeq(h.db.events) /\ WrittenBy(h.db) = WrittenBy(base)
      BY <2>1, <2>6, <2>7
    <3> HIDE DEF own
    <3> QED
      BY <3>1, <3>2, <3>3 DEF Honest
  <2> QED
    BY <2>9 DEF h
<1> QED
  BY <1>1, <1>2

(* The handler with what chaos does around it. *)
LEMMA HonestRun ==
  ASSUME NEW base, NEW decided, Quiet(base, decided.db), NEW cfg, NEW call,
         RunCall(cfg, decided, call).ok
  PROVE  Honest(base, RunCall(cfg, decided, call).done, call)
<1> DEFINE i == decided.rule
           actor == BeforeHandler(cfg, decided.db, i, call)
           pre == IF i = NoRule THEN Unanswered ELSE PreAnswer(cfg, actor.db, i, call)
           fault == [type |-> "error", kind |-> "injected_503", call |-> call.id]
           e == [actor.db EXCEPT !.consumed = TRUE]
           done == Serve(cfg, actor.db, i, call, pre)
           run == RunCall(cfg, decided, call)
<1>1. Quiet(base, actor.db)
  BY QuietBefore
<1>2. run = AfterHandler(cfg, actor, i, call, done)
  BY DEF RunCall, Served
<1>3. RuleType(cfg, i) \in PostEffect => pre = Unanswered
  BY DEF RuleType, PostEffect, PreAnswer
<1> HIDE DEF actor, pre
<1>4. CASE RuleType(cfg, i) \in PostEffect
  <2>1. ~FaultFires(cfg, actor.db, call)
    <3>1. AfterHandler(cfg, actor, i, call, done).ok => ~FaultFires(cfg, actor.db, call)
      BY <1>4, Zenon DEF AfterHandler
    <3> QED
      BY <1>2, <3>1
  <2>2. run.done = HideOutcome(cfg, done, i, call)
    BY <1>2, <1>4 DEF AfterHandler
  <2>3. done = RunHandler(cfg, actor.db, call)
    BY <1>3, <1>4, <2>1 DEF Serve
  <2> HIDE DEF done, run
  <2>4. Quiet(base, done.db) /\ DOMAIN done = OutcomeFields /\ done.answer.status # 0
    BY <1>1, <2>3, QuietHandler
  <2> QED
    BY <2>2, <2>4, HonestHide DEF run
<1>5. CASE RuleType(cfg, i) \notin PostEffect
  <2>1. run.done = done
    BY <1>2, <1>5 DEF AfterHandler
  <2>2. \/ done = Outcome(actor.db, pre, FALSE)
        \/ done = Outcome(Emit(e, fault), Answer(503, "unavailable", 0), FALSE)
        \/ done = RunHandler(cfg, actor.db, call)
    BY DEF Serve
  <2>3. DOMAIN e = Rows /\ e.events = actor.db.events /\ e.hidden = actor.db.hidden
    BY <1>1 DEF Quiet, Rows
  <2>4. fault.type # "state.mutation"
    OBVIOUS
  <2> HIDE DEF e, fault, done, run
  <2>5. Quiet(base, Emit(e, fault))
    BY <1>1, <2>3, <2>4, QuietKept, QuietEmit
  <2>6. Quiet(base, done.db) /\ (~done.mutated \/ done.answer.status # 0)
    BY <1>1, <2>2, <2>5, QuietHandler DEF Outcome
  <2> QED
    BY <2>1, <2>6, HonestOpenly DEF run
<1> QED
  BY <1>4, <1>5

(* What an answered call tells and keeps. *)
ToldOrKept(d, e, call, answer) ==
    \E own : /\ e.hidden = d.hidden \cup own
             /\ \A h \in own : h.call = call.id
             /\ WrittenBy(e) \in {WrittenBy(d), WrittenBy(d) \cup {call.id}}
             /\ answer.status = 0 =>
                   /\ WrittenBy(e) = WrittenBy(d) \cup (IF own # {} THEN {call.id} ELSE {})
                   /\ \A h \in own : Succeeds(h.answer)

(* The rows every settled call leaves. *)
LEMMA SettleTells ==
  ASSUME NEW base, NEW done, NEW call, Honest(base, done, call)
  PROVE  ToldOrKept(base, Settle(done, call), call, done.answer)
<1> DEFINE m == Mutation("state.mutation", AgentRow(done.db, call), call)
           a == IF done.mutated THEN Emit(done.db, m) ELSE done.db
           r == ResponseEvent(call, done.answer)
           c == Emit(a, r)
           d == Settle(done, call)
<1>1. d = [c EXCEPT !.results = @ \cup {Result(call, done.answer)},
                    !.transcript = Append(@, Entry(call, done.answer))]
  BY DEF Settle, ResponseEvent, Result, Entry
<1>2. m.type = "state.mutation" /\ m.row.by = call.id /\ r.type # "state.mutation"
  BY DEF Mutation, AgentRow, ResponseEvent
<1> HIDE DEF m, r, d
<1>3. /\ DOMAIN a = Rows /\ IsSeq(a.events) /\ a.hidden = done.db.hidden
      /\ WrittenBy(a) = WrittenBy(base) \cup (IF done.mutated THEN {call.id} ELSE {})
  <2>1. CASE done.mutated
    <3> DEFINE f == Emit(done.db, m)
    <3>1. /\ DOMAIN f = Rows /\ IsSeq(f.events) /\ f.hidden = done.db.hidden
          /\ WrittenBy(f) = WrittenBy(done.db) \cup (IF m.type = "state.mutation" THEN {m.row.by} ELSE {})
      BY EmitWrites DEF Honest
    <3> HIDE DEF f
    <3>2. a = f
      BY <2>1 DEF f
    <3> HIDE DEF a
    <3> QED
      BY <1>2, <2>1, <3>1, <3>2 DEF Honest
  <2>2. CASE ~done.mutated
    BY <2>2 DEF Honest
  <2> QED
    BY <2>1, <2>2
<1> HIDE DEF a
<1>4. /\ DOMAIN c = Rows /\ c.hidden = a.hidden /\ IsSeq(c.events)
      /\ WrittenBy(c) = WrittenBy(a) \cup (IF r.type = "state.mutation" THEN {r.row.by} ELSE {})
  BY <1>3, EmitWrites
<1> HIDE DEF c
<1>5. d.events = c.events /\ d.hidden = c.hidden
  BY <1>1, <1>4 DEF Rows
<1>6. WrittenBy(d) = WrittenBy(c)
  BY <1>5 DEF WrittenBy
<1>7. /\ d.hidden = done.db.hidden
      /\ WrittenBy(d) = WrittenBy(base) \cup (IF done.mutated THEN {call.id} ELSE {})
  BY <1>2, <1>3, <1>4, <1>5, <1>6
<1>8. PICK own : /\ done.db.hidden = base.hidden \cup own
                 /\ \A h \in own : h.call = call.id
                 /\ done.answer.status = 0 => /\ done.mutated <=> own # {}
                                              /\ \A h \in own : Succeeds(h.answer)
  BY DEF Honest
<1>9. ToldOrKept(base, d, call, done.answer)
  BY <1>7, <1>8 DEF ToldOrKept
<1> QED
  BY <1>9 DEF d

(* What a call that is answered tells and keeps. *)
LEMMA InvokeTells ==
  ASSUME NEW cfg, NEW d, IsRun(d), NEW call, Saved(d, call) = {}, call.op \in cfg.ops,
         Invoke(cfg, d, call).ok
  PROVE  \E answer : /\ ToldOrKept(d, Invoke(cfg, d, call).db, call, answer)
                     /\ \E e : Invoke(cfg, d, call).db.events = Append(e, ResponseEvent(call, answer)) /\ IsSeq(e)
<1> DEFINE start == Emit(d, RequestEvent(call))
           checked == Check(cfg, start, call)
           decided == ChaosDecide(cfg, checked.db, call)
           run == RunCall(cfg, decided, call)
           stopped == Outcome(checked.db, checked.answer, FALSE)
           r == Invoke(cfg, d, call)
<1>1. r = Proceed(cfg, d, call, checked)
  BY DEF Invoke, RequestEvent
<1>2. Quiet(d, start)
  <2>1. Quiet(d, d)
    BY DEF Quiet, IsRun
  <2>2. RequestEvent(call).type # "state.mutation"
    BY DEF RequestEvent
  <2> QED
    BY <2>1, <2>2, QuietEmit
<1> HIDE DEF start
<1>3. Quiet(d, checked.db)
  BY <1>2, QuietCheck
<1> HIDE DEF checked
<1>4. \E done : Honest(d, done, call) /\ r.db = Settle(done, call)
  <2>1. CASE Open(checked)
    <3>1. run.ok /\ r.db = Settle(run.done, call)
      BY <1>1, <2>1 DEF Proceed, Committed
    <3>2. Quiet(d, decided.db)
      BY <1>3, QuietDecide
    <3> HIDE DEF decided
    <3>3. Honest(d, run.done, call)
      BY <3>1, <3>2, HonestRun
    <3> QED
      BY <3>1, <3>3
  <2>2. CASE ~Open(checked)
    <3>1. r.db = Settle(stopped, call) /\ stopped.db = checked.db /\ ~stopped.mutated
      BY <1>1, <2>2 DEF Proceed, Outcome
    <3> HIDE DEF stopped
    <3>2. Honest(d, stopped, call)
      BY <1>3, <3>1, HonestOpenly
    <3> QED
      BY <3>1, <3>2
  <2> QED
    BY <2>1, <2>2
<1> HIDE DEF r
<1>5. PICK done : Honest(d, done, call) /\ r.db = Settle(done, call)
  BY <1>4
<1>6. ToldOrKept(d, r.db, call, done.answer)
  BY <1>5, SettleTells
<1>7. \E e : r.db.events = Append(e, ResponseEvent(call, done.answer)) /\ IsSeq(e)
  <2> DEFINE m == Mutation("state.mutation", AgentRow(done.db, call), call)
             a == IF done.mutated THEN Emit(done.db, m) ELSE done.db
             c == Emit(a, ResponseEvent(call, done.answer))
  <2>1. DOMAIN a = Rows /\ IsSeq(a.events)
    BY EmitWrites, <1>5 DEF Honest
  <2>2. Settle(done, call) = [c EXCEPT !.results = @ \cup {Result(call, done.answer)},
                                       !.transcript = Append(@, Entry(call, done.answer))]
    BY DEF Settle, ResponseEvent, Result, Entry
  <2> HIDE DEF a
  <2>3. DOMAIN c = Rows /\ c.events = Append(a.events, ResponseEvent(call, done.answer))
    BY <2>1 DEF Emit, Rows
  <2> HIDE DEF c
  <2>4. Settle(done, call).events = c.events
    BY <2>2, <2>3 DEF Rows
  <2> QED
    BY <1>5, <2>1, <2>3, <2>4
<1> QED
  BY <1>6, <1>7 DEF r

===============================================================================
