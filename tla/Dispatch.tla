------------------------------- MODULE Dispatch -------------------------------
(***************************************************************************)
(* One run's rows under any sequence of tool calls: each step is one       *)
(* dispatch.Invoke transaction, defined in ToolCall.  Callers may repeat a *)
(* call, or reuse its ID for another request, at any time.  The ownership  *)
(* check that opens the transaction is module Fencing's subject.           *)
(***************************************************************************)
EXTENDS ToolCall, FiniteSetsExt

CONSTANTS
    Calls(_),  \* the requests callers make of a run, by its configuration
    Configs    \* the configurations runs are created with

ASSUME DispatchAssumption ==
    \A c \in Configs :
        /\ IsFiniteSet(Calls(c))
        /\ Creatable(c)
        /\ DOMAIN c.chaos \subseteq Nat \ {0}   \* a policy's rules are a list
        /\ c.ops \subseteq Operations           \* a manifest binds known behaviours

(* The actors a policy lets in. *)
Writers(c) == {c.chaos[i].actor : i \in {j \in DOMAIN c.chaos : c.chaos[j].type = "concurrent_mutation"}}

(* Amounts are whole cents; the seed's rows are keyed, and named apart     *)
(* from a run's.                                                           *)
ASSUME WorldsAssumption ==
    \A c \in Configs :
        /\ \A call \in Calls(c) \cup Writers(c) : call.amount \in Int
        /\ \A i \in DOMAIN c.seed.charges : c.seed.charges[i].amount \in Nat
        /\ \A row \in c.seed.notes \cup c.seed.comments : row.id.run = "SEED"
        /\ \A i \in c.seed.issues :
              DOMAIN i = {"id", "project", "account", "status"} /\ i.status = "open"
        /\ \A i, j \in c.seed.issues : i.id = j.id => i = j

IdsOf(c) == {call.id : call \in Calls(c)}

RowOf(by, n) == [run |-> "root", by |-> by, n |-> n]

(* The rows calls and actors can write: a rule matches a call ID once.     *)
RowNames(c) ==
    {RowOf(id, 0) : id \in IdsOf(c)}
    \cup {RowOf(c.chaos[i].id, n) : i \in DOMAIN c.chaos, n \in 1..Cardinality(IdsOf(c))}

(* No two of them hash to one issue ID, nor any to a seeded issue's.       *)
ASSUME IssueNames ==
    \A c \in Configs :
        \A row \in RowNames(c) :
            /\ \A other \in RowNames(c) : IssueName(row) = IssueName(other) => row = other
            /\ \A i \in c.seed.issues : i.id # IssueName(row)

VARIABLES cfg, db

vars == <<cfg, db>>

Init == cfg \in Configs /\ db = NewRun(cfg)

InvokeCommit(call) ==
    /\ Invoke(cfg, db, call).ok
    /\ db' = Invoke(cfg, db, call).db
    /\ UNCHANGED cfg

(* Invoke returns an error and its transaction is rolled back. *)
InvokeError(call) ==
    /\ ~Invoke(cfg, db, call).ok
    /\ UNCHANGED vars

Next == \E call \in Calls(cfg) : InvokeCommit(call) \/ InvokeError(call)

Spec == Init /\ [][Next]_vars

-------------------------------------------------------------------------------
Events == db.events

OfType(type) == {k \in DOMAIN Events : Events[k].type = type}

(* A call that reached chaos.Decide: valid, and not denied. *)
Reached(call) ==
    /\ call.schema
    /\ cfg.auth.enforced => handlerValid(call)
    /\ \A k \in OfType("authorization.denied") : Events[k].call # call.id

(* chaos_rule_state agrees with the ledger after every call: a rule has    *)
(* matched exactly the calls of its operations that passed validation and  *)
(* authorization, it has injected exactly as often as the ledger says, and *)
(* never more than its `times', including when timeout_after_commit gives  *)
(* an injection back (dispatch.go:210-220, chaos/state.go:43-75).          *)
ChaosCountersMatchLedger ==
    \A i \in DOMAIN cfg.chaos :
        LET rule == cfg.chaos[i]
            injected == {k \in OfType("chaos.injected") : Events[k].rule = rule.id}
        IN  /\ db.rules[i].calls =
                   Cardinality({r \in db.results : r.call.op \in rule.ops /\ Reached(r.call)})
            /\ db.rules[i].injections = Cardinality(injected)
            /\ rule.times # 0 => db.rules[i].injections <= rule.times

Mutations == OfType("state.mutation") \cup OfType("chaos.actor_mutation")

(* The mutations of an operation on a target before event k. *)
MutationsOf(op, target, k) ==
    {j \in Mutations : j < k /\ Events[j].op = op /\ Events[j].target = target}

(* What each event of a ledger says was refunded on a charge. *)
RefundsIn(ledger, charge) ==
    [j \in DOMAIN ledger |->
        IF /\ ledger[j].type \in {"state.mutation", "chaos.actor_mutation"}
           /\ ledger[j].op = "createRefund"
           /\ ledger[j].target = charge
        THEN ledger[j].amount ELSE 0]

(* The sum of the first n of a list of amounts. *)
Total(amounts) ==
    LET sum[n \in 0..Len(amounts)] == IF n = 0 THEN 0 ELSE sum[n - 1] + amounts[n]
    IN  sum

(* The money the ledger says moved on a charge before event k. *)
RefundedBefore(charge, k) == Total(RefundsIn(Events, charge))[k - 1]

(* The rows the ledger says an operation made, and what each is about. *)
Made(op) == {<<Events[k].row, Events[k].target>> : k \in {j \in Mutations : Events[j].op = op}}

(* The status the ledger leaves a target in. *)
StatusAfter(op, target, seeded) ==
    LET set == MutationsOf(op, target, Len(Events) + 1)
    IN  IF set = {} THEN seeded ELSE Events[Max(set)].text

End == Len(Events) + 1

(* The books balance: the whole world can be told from the seed and the    *)
(* ledger.  Every refund, note, issue, comment and message has exactly one *)
(* mutation event and the reverse, whoever wrote it; refunded_cents is the *)
(* sum of the charge's refunds and never exceeds what was charged; an      *)
(* account or issue has the status of its last mutation; and an issue      *)
(* never skips a status (billing.go:93-121, crm.go:134-155,                *)
(* ticketing.go:25-147, messaging.go:79-107).                              *)
BooksBalance ==
    LET w == db.world
        seed == cfg.seed
    IN  /\ w.refunds = {[id |-> Events[k].row, charge |-> Events[k].target, amount |-> Events[k].amount] :
                            k \in {j \in Mutations : Events[j].op = "createRefund"}}
        /\ Cardinality({j \in Mutations : Events[j].op = "createRefund"}) = Cardinality(w.refunds)
        /\ \A c \in ChargeIds(seed) :
              /\ w.refunded[c] = RefundedBefore(c, End)
              /\ w.refunded[c] <= Charged(seed, c)
        /\ {<<n.id, n.account>> : n \in w.notes \ seed.notes} = Made("crmAddAccountNote")
        /\ {<<m.id, m.channel>> : m \in w.messages} = Made("messagePostMessage")
        /\ {<<c.id, c.issue>> : c \in w.comments \ seed.comments} = Made("ticketAddComment")
        /\ {i.id : i \in w.issues} =
               {i.id : i \in seed.issues} \cup {IssueName(made[1]) : made \in Made("ticketCreateIssue")}
        /\ \A a \in DOMAIN seed.accounts :
              w.status[a] = StatusAfter("crmUpdateAccountStatus", a, seed.accounts[a].status)
        /\ \A i \in w.issues :
              LET moves == MutationsOf("ticketTransitionIssue", i.id, End)
              IN  /\ i.status = StatusAfter("ticketTransitionIssue", i.id, "open")
                  /\ {Events[k].text : k \in moves} \in
                        {{}, {"in_progress"}, {"in_progress", "resolved"}}
                  /\ Cardinality(moves) <= 2

(* A simulated timeout is either a call that did nothing or a write whose  *)
(* outcome is kept: a response with status 0 stands for a committed write  *)
(* exactly when a hidden successful outcome is recorded for its call       *)
(* (dispatch.go:210-237).                                                  *)
LostResponsesAreKept ==
    \A k \in OfType("tool.response") :
        LET id == Events[k].call
            wrote == \E j \in OfType("state.mutation") : Events[j].row.by = id
            kept == {h \in db.hidden : h.call = id}
        IN  Events[k].status = 0 =>
                /\ wrote <=> kept # {}
                /\ \A h \in kept : Succeeds(h.answer)

RequestOf(id) == CHOOSE k \in OfType("tool.request") : Events[k].call = id

ResponseOf(id) == CHOOSE k \in OfType("tool.response") : Events[k].call = id

StaleServed(id) ==
    \E k \in OfType("chaos.injected") : Events[k].call = id /\
        \E i \in DOMAIN cfg.chaos : cfg.chaos[i].id = Events[k].rule /\ cfg.chaos[i].type = "stale_read"

(* Whether a read ran its handler: it was answered by it, or chaos hid the *)
(* handler's answer.                                                       *)
RanRead(id) ==
    \/ /\ Events[ResponseOf(id)].body.text = "charge"
       /\ ~StaleServed(id)
    \/ \E h \in db.hidden : h.call = id /\ h.answer.body.text = "charge"

(* Every charge an agent is shown is the charge as it was: a plain read    *)
(* shows the amount refunded at that moment, a stale read the amount at    *)
(* the first read with the same arguments that ran, shown or not           *)
(* (chaos/state.go:86-94, dispatch.go:199-209).                            *)
ReadsTellTheWorld ==
    \A k \in OfType("tool.response") :
        LET id == Events[k].call
            args == Events[RequestOf(id)].args
            charge == args.target
            ran == {e \in OfType("tool.response") :
                        /\ e < k
                        /\ Events[RequestOf(Events[e].call)].args = args
                        /\ RanRead(Events[e].call)}
        IN  (Events[k].op = "getCharge" /\ Events[k].body.text = "charge") =>
                IF StaleServed(id)
                THEN ran # {} /\ Events[k].body.n = RefundedBefore(charge, Min(ran))
                ELSE Events[k].body.n = RefundedBefore(charge, k)

(* Call numbers seen by the policy before event k. *)
CallsBefore(k) ==
    Cardinality({j \in OfType("authorization.allowed") \cup OfType("authorization.denied") : j < k})

(* An agent's write never commits outside its permission: at the call      *)
(* number of its authorization a grant was open and no revocation had      *)
(* taken effect, counting only the calls that consume a number, denied     *)
(* ones included; and what it wrote belongs to a customer and a channel in *)
(* its scope (authz/decision.go:107-124, 173-221).                         *)
NoWriteAfterRevocation ==
    cfg.auth.enforced =>
        \A k \in OfType("state.mutation") :
            LET permission == Permission(Events[k].op)
                call == [op |-> Events[k].op, target |-> Events[k].target]
            IN  /\ \A r \in cfg.auth.revoked : r.permission = permission => CallsBefore(k) <= r.after
                /\ permission \notin cfg.auth.allow =>
                       \E g \in cfg.auth.grants :
                           g.permission = permission /\ CallsBefore(k) \in g.from..g.to
                /\ call.op \in CustomerScoped =>
                       ~OutOf(cfg.auth.customers, CustomerOf(cfg.seed, db.world, call))
                /\ call.op = "messagePostMessage" => ~OutOf(cfg.auth.channels, call.target)

(* A call ID is answered once: however often it is presented, and with     *)
(* whatever arguments, it has one saved result, one request and response   *)
(* in the ledger, and one transcript entry, all telling the same answer    *)
(* (dispatch.go:59-70, 243-269).                                           *)
OneAnswerPerCall ==
    \A r, other \in db.results :
        /\ r.call.id = other.call.id => r = other
        /\ Cardinality({k \in OfType("tool.request") : Events[k].call = r.call.id}) = 1
        /\ Cardinality({k \in OfType("tool.response") : Events[k].call = r.call.id}) = 1
        /\ {[status |-> db.transcript[k].status, body |-> db.transcript[k].body] :
                k \in {j \in DOMAIN db.transcript : db.transcript[j].call = r.call.id}} = {r.answer}
===============================================================================
