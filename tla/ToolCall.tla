------------------------------- MODULE ToolCall -------------------------------
(***************************************************************************)
(* What one tool call does to a run: dispatch.Invoke with the checks it    *)
(* makes (validate, authz.Decide, chaos.Decide), the behaviour it runs and *)
(* the rows it writes, as operators on the run's rows.                     *)
(*                                                                         *)
(* `db' is a record of everything the transaction reads and writes.        *)
(* `cfg' is what the run was created with and never changes: its world's   *)
(* seed, the operations compiled into its manifest, its chaos rules in     *)
(* policy order, its legacy --fault operation, and its principal policy.   *)
(* The world's services are module Twins.  A call carries, besides what    *)
(* Twins describes, whether its arguments pass the schema.                 *)
(***************************************************************************)
EXTENDS Twins

NoFault == "none"

NoLimit == -1

(* A fresh run in a fresh world. *)
NewRun(cfg) ==
    [run |-> "root",                        \* runs.id
     world |-> World(cfg.seed),             \* the services' tables
     callIndex |-> 0,                       \* auth_state
     rules |-> [i \in DOMAIN cfg.chaos |-> [calls |-> 0, injections |-> 0]],
     snapshots |-> {},                      \* chaos_snapshots
     hidden |-> {},                         \* chaos_hidden_outcomes
     consumed |-> FALSE,                    \* runs.fault_consumed
     results |-> {},                        \* tool_results
     transcript |-> << >>,                  \* runs.transcript
     step |-> 0,                            \* runs.step
     status |-> "running",                  \* runs.status
     events |-> <<[type |-> "execution.started"]>>]

Emit(db, event) == [db EXCEPT !.events = Append(@, event)]

(* A stage of Invoke passes the rows on, with an answer once one of the    *)
(* checks has settled the call.                                            *)
Unanswered == Answer(-1, "", 0)

Stage(db, answer) == [db |-> db, answer |-> answer]

Open(stage) == stage.answer = Unanswered

(***************************************************************************)
(* authz                                                                   *)
(***************************************************************************)

(* permissions: the ones that authorize several operations; any other      *)
(* operation has one of its own, named after it here.                      *)
Permission(op) ==
    CASE op \in {"getCharge", "listCharges"} -> "charges.read"
      [] op \in {"crmGetAccount", "crmSearchAccounts"} -> "crm.accounts.read"
      [] op \in {"ticketGetIssue", "ticketSearchIssues"} -> "jira.issues.read"
      [] OTHER -> op

Permissions == {Permission(op) : op \in Operations}

(* A scope is absent, or lists the resources a principal may touch. *)
NoScope == [given |-> FALSE, ids |-> {}]

Scope(ids) == [given |-> TRUE, ids |-> ids]

OutOf(scope, id) == scope.given /\ id \notin scope.ids

(* authz.Parse: what a policy must satisfy to be stored with a run. *)
ParseAuth(auth, ops) ==
    LET available == {Permission(op) : op \in ops}
    IN  /\ auth.allow \subseteq available
        /\ auth.refundMax >= NoLimit
        /\ \A scope \in {auth.customers, auth.channels, auth.projects} : "" \notin scope.ids
        /\ \A g \in auth.grants :
              /\ g.permission \in available
              /\ {g.from, g.to} \subseteq Nat /\ 1 <= g.from /\ g.from <= g.to
              /\ \A h \in auth.grants \ {g} :
                    g.permission = h.permission => g.to < h.from \/ h.to < g.from
        /\ \A r \in auth.revoked :
              /\ r.permission \in available /\ r.after \in Nat
              /\ \A s \in auth.revoked \ {r} : r.permission # s.permission

(* Mutant: the revocation takes effect one call late. *)
MutGrantReasonLate(auth, permission, index) ==
    IF permission \notin auth.allow
       /\ ~\E g \in auth.grants : g.permission = permission /\ g.from <= index /\ index <= g.to
    THEN "permission_not_granted"
    ELSE IF \E r \in auth.revoked : r.permission = permission /\ index > r.after + 1
    THEN "permission_revoked"
    ELSE ""

(* Policy.grantReason.  `allow' holds what the principal's roles allow too. *)
grantReason(auth, permission, index) ==
    IF permission \notin auth.allow
       /\ ~\E g \in auth.grants : g.permission = permission /\ g.from <= index /\ index <= g.to
    THEN "permission_not_granted"
    ELSE IF \E r \in auth.revoked : r.permission = permission /\ index > r.after
    THEN "permission_revoked"
    ELSE ""

(* Policy.broad: results a scoped policy cannot narrow. *)
broad(auth, op) ==
    \/ op \in {"crmSearchAccounts", "ticketSearchIssues"} /\ auth.customers.given
    \/ op = "messageListChannels" /\ auth.channels.given

(* customerLookups: the operations whose target belongs to a customer. *)
CustomerScoped ==
    Billing \cup {"crmGetAccount", "crmAddAccountNote", "crmUpdateAccountStatus", "ticketCreateIssue",
                  "ticketGetIssue", "ticketAddComment", "ticketTransitionIssue"}

AccountCustomer(seed, a) == IF a \in DOMAIN seed.accounts THEN seed.accounts[a].customer ELSE ""

IssueCustomer(seed, w, id) ==
    IF loadIssue(w, id) = {} THEN ""
    ELSE AccountCustomer(seed, (CHOOSE i \in loadIssue(w, id) : TRUE).account)

InvoiceCustomer(seed, i) == IF i \in DOMAIN seed.invoices THEN seed.invoices[i] ELSE ""

(* CustomerOf: "" when the target does not exist. *)
CustomerOf(seed, w, call) ==
    CASE call.op \in {"getCustomer", "listInvoices"} ->
            IF call.target \in seed.customers THEN call.target ELSE ""
      [] call.op = "getSubscription" ->
            IF call.target \in DOMAIN seed.subscriptions THEN seed.subscriptions[call.target] ELSE ""
      [] call.op = "listCharges" -> InvoiceCustomer(seed, call.target)
      [] call.op \in {"getCharge", "createRefund"} ->
            IF call.target \in ChargeIds(seed)
            THEN InvoiceCustomer(seed, ChargeOf(seed, call.target).invoice) ELSE ""
      [] call.op \in {"ticketGetIssue", "ticketAddComment", "ticketTransitionIssue"} ->
            IssueCustomer(seed, w, call.target)
      [] OTHER -> AccountCustomer(seed, call.target)

(* Mutant: calls about a customer are not confined. *)
MutResourceReason(cfg, db, call) ==
    IF broad(cfg.auth, call.op) THEN "broad_search_scoped"
    ELSE IF call.op \in {"messageReadChannel", "messagePostMessage"} /\ OutOf(cfg.auth.channels, call.target)
    THEN "channel_out_of_scope"
    ELSE ""

(* Policy.resourceReason. *)
resourceReason(cfg, db, call) ==
    LET auth == cfg.auth
    IN  IF broad(auth, call.op) THEN "broad_search_scoped"
        ELSE IF call.op \in CustomerScoped /\ OutOf(auth.customers, CustomerOf(cfg.seed, db.world, call))
        THEN "customer_out_of_scope"
        ELSE IF call.op \in {"messageReadChannel", "messagePostMessage"} /\ OutOf(auth.channels, call.target)
        THEN "channel_out_of_scope"
        ELSE IF call.op = "ticketCreateIssue" /\ OutOf(auth.projects, call.text)
        THEN "project_out_of_scope"
        ELSE IF call.op = "createRefund" /\ auth.refundMax # NoLimit /\ call.amount > auth.refundMax
        THEN "refund_limit_exceeded"
        ELSE ""

Screen(cfg, db, call, index) ==
    LET reason == grantReason(cfg.auth, Permission(call.op), index)
    IN  IF reason # "" THEN reason ELSE resourceReason(cfg, db, call)

(* The argument checks of args.go, kept in step with the handlers'. *)
handlerValid(call) ==
    /\ call.op \in Crm \cup Ticketing \cup {"messagePostMessage"} => call.target # ""
    /\ call.op \in {"crmAddAccountNote", "ticketCreateIssue", "ticketAddComment", "messagePostMessage"} =>
          call.text # ""
    /\ call.op = "crmUpdateAccountStatus" => call.text \in AccountStatuses
    /\ call.op = "ticketTransitionIssue" => call.text \in IssueStatuses
    /\ call.op = "createRefund" => call.amount > 0

(* The audit event of a decision, and the refusal. *)
Judged(db, call, reason) ==
    LET audit(type) == [type |-> type, call |-> call.id, op |-> call.op, index |-> db.callIndex]
    IN  IF reason = "" THEN Stage(Emit(db, audit("authorization.allowed")), Unanswered)
        ELSE Stage(Emit(db, audit("authorization.denied")), Answer(403, reason, 0))

(* Decide: arguments the handler would reject use no call number. *)
Authorize(cfg, db, call) ==
    LET index == db.callIndex + 1
    IN  IF ~cfg.auth.enforced THEN Stage(db, Unanswered)
        ELSE IF ~handlerValid(call) THEN Stage(db, Answer(400, "invalid arguments", 0))
        ELSE Judged([db EXCEPT !.callIndex = index], call, Screen(cfg, db, call, index))

(* Exposed: the operations offered to the provider before the next call. *)
Exposed(cfg, db) ==
    {op \in cfg.ops : cfg.auth.enforced =>
        grantReason(cfg.auth, Permission(op), db.callIndex + 1) = "" /\ ~broad(cfg.auth, op)}

(* Row IDs are derived from the run and the call ID; an actor's from its   *)
(* rule and match number, under a run name of its own.                     *)
AgentRow(db, call) == [run |-> db.run, by |-> call.id, n |-> 0]

ActorRow(db, rule, n) == [run |-> db.run, by |-> rule.id, n |-> n]

(***************************************************************************)
(* chaos                                                                   *)
(***************************************************************************)
NoRule == 0

Arguments(call) ==
    [op |-> call.op, target |-> call.target, amount |-> call.amount, text |-> call.text,
     schema |-> call.schema]

(* LoadSnapshot: at most one row per rule and argument set. *)
Snapshots(db, i, call) ==
    {s \in db.snapshots : s.rule = i /\ s.args = Arguments(call)}

Matching(cfg, call) == {i \in DOMAIN cfg.chaos : call.op \in cfg.chaos[i].ops}

(* Whether the rule may act, its counter already advanced. *)
Active(cfg, db, i, call) ==
    /\ db.rules[i].calls > cfg.chaos[i].after
    /\ cfg.chaos[i].times = 0 \/ db.rules[i].injections < cfg.chaos[i].times
    /\ cfg.chaos[i].type = "stale_read" => Snapshots(db, i, call) # {}

OneMoreCall(counter) == [counter EXCEPT !.calls = @ + 1]

(* Every matching rule counts the call. *)
Advance(cfg, db, call) ==
    [db EXCEPT !.rules = [i \in DOMAIN @ |->
        IF i \in Matching(cfg, call) THEN OneMoreCall(@[i]) ELSE @[i]]]

(* The first active rule is selected and its injection counted. *)
Select(db, active) ==
    LET first == CHOOSE i \in active : \A j \in active : i <= j
    IN  IF active = {} THEN [db |-> db, rule |-> NoRule]
        ELSE [db |-> [db EXCEPT !.rules[first].injections = @ + 1], rule |-> first]

SelectActive(cfg, db, call) == Select(db, {i \in Matching(cfg, call) : Active(cfg, db, i, call)})

(* Decide advances every matching rule and selects the first active one. *)
ChaosDecide(cfg, db, call) == SelectActive(cfg, Advance(cfg, db, call), call)

Injected(cfg, db, i, call) ==
    [type |-> "chaos.injected", rule |-> cfg.chaos[i].id, effect |-> cfg.chaos[i].type,
     call |-> call.id, n |-> db.rules[i].calls]

PostEffect == {"timeout_after_commit", "malformed_response"}

(* The answer of an effect that replaces the handler. *)
PreAnswer(cfg, db, i, call) ==
    CASE cfg.chaos[i].type = "http_error" -> Answer(cfg.chaos[i].status, "http failure", 0)
      [] cfg.chaos[i].type = "timeout" -> Answer(0, "timeout", 0)
      [] cfg.chaos[i].type = "rate_limit" -> Answer(429, "rate limit", 0)
      [] cfg.chaos[i].type = "permission_revocation" -> Answer(403, "revocation", 0)
      [] cfg.chaos[i].type = "partial_service_outage" -> Answer(503, "outage", 0)
      [] cfg.chaos[i].type = "stale_read" -> (CHOOSE s \in Snapshots(db, i, call) : TRUE).answer
      [] OTHER -> Unanswered

(* The effects that must say how often they strike. *)
BoundedTypes == {"http_error", "timeout", "malformed_response", "concurrent_mutation",
                 "partial_service_outage", "timeout_after_commit"}

(* chaos.Parse, on a rule with its omitted fields at zero: which policies  *)
(* a run can be created with.                                              *)
ParseRule(rule, ops) ==
    /\ rule.ops # {} /\ rule.ops \subseteq ops
    /\ rule.times \in Nat /\ rule.after \in Nat
    /\ rule.type \in BoundedTypes \cup {"latency", "rate_limit", "permission_revocation", "stale_read"}
    /\ rule.type \in BoundedTypes => rule.times >= 1
    /\ rule.type = "http_error" => rule.status \in 400..599
    /\ rule.type = "stale_read" => rule.after >= 1 /\ rule.ops \cap Mutating = {}
    /\ rule.type = "timeout_after_commit" => rule.ops \subseteq Mutating
    /\ rule.type = "partial_service_outage" => Cardinality(rule.ops) >= 2
    /\ rule.type = "concurrent_mutation" =>
          /\ rule.actor.op \in Mutating \cap ops
          /\ rule.actor.target # "" /\ rule.actor.text # ""
          /\ handlerValid(rule.actor)

ParseChaos(rules, ops) ==
    /\ \A i \in DOMAIN rules : ParseRule(rules[i], ops)
    /\ \A i, j \in DOMAIN rules : rules[i].id = rules[j].id => i = j

(* CreateRunConfigured: a run has a chaos policy or a legacy fault, not    *)
(* both, and policies that were parsed.                                    *)
Creatable(cfg) ==
    /\ cfg.fault = NoFault \/ cfg.chaos = << >>
    /\ ParseChaos(cfg.chaos, cfg.ops)
    /\ cfg.auth.enforced => ParseAuth(cfg.auth, cfg.ops)

ActorWrote(db, rule, row, done) ==
    [ok |-> done.mutated,
     db |-> Emit([db EXCEPT !.world = done.world], Mutation("chaos.actor_mutation", row, rule.actor))]

(* The concurrent writer a concurrent_mutation rule stands for. *)
invokeActor(cfg, db, rule, n) ==
    LET row == ActorRow(db, rule, n)
    IN  ActorWrote(db, rule, row, Handle(cfg.seed, db.world, row, rule.actor))

(***************************************************************************)
(* Invoke                                                                  *)
(***************************************************************************)
(* Mutant: the saved result is looked up by request, not by call ID. *)
MutSavedByRequest(db, call) == {r \in db.results : r.call = call}

Saved(db, call) == {r \in db.results : r.call.id = call.id}

(* The legacy fault answers the first call of its operation; the first     *)
(* call after that records one retry.                                      *)
FaultFires(cfg, db, call) == cfg.fault = call.op /\ ~db.consumed

RetryDue(cfg, db, call) ==
    /\ cfg.fault = call.op
    /\ db.consumed
    /\ \A k \in DOMAIN db.events : db.events[k].type # "retry"

(* Mutant: a later observation replaces the snapshot. *)
MutSaveSnapshotLatest(cfg, db, call, answer) ==
    LET stale == {i \in Matching(cfg, call) : cfg.chaos[i].type = "stale_read"}
    IN  [db EXCEPT !.snapshots =
            {s \in @ : s.rule \notin stale \/ s.args # Arguments(call)} \cup
            {[rule |-> i, args |-> Arguments(call), answer |-> answer] : i \in stale}]

(* SaveSnapshot for every stale_read rule of the operation: only the first *)
(* observation of an argument set is kept.                                 *)
SaveSnapshot(cfg, db, call, answer) ==
    LET stale == {i \in Matching(cfg, call) : cfg.chaos[i].type = "stale_read"}
        fresh == {i \in stale : Snapshots(db, i, call) = {}}
    IN  [db EXCEPT !.snapshots = @ \cup
            {[rule |-> i, args |-> Arguments(call), answer |-> answer] : i \in fresh}]

(* What a call has come to: the rows, its answer, whether it wrote. *)
Outcome(db, answer, mutated) == [db |-> db, answer |-> answer, mutated |-> mutated]

(* What the handler leaves, with the snapshots of a successful read. *)
HandlerRan(cfg, db, call, done) ==
    LET written == [db EXCEPT !.world = done.world]
    IN  Outcome(IF Succeeds(done.answer) /\ Method(call.op) = "GET"
                THEN SaveSnapshot(cfg, written, call, done.answer) ELSE written,
                done.answer, done.mutated)

(* The registered behaviour, with the retry event before it. *)
RunHandler(cfg, db, call) ==
    HandlerRan(cfg,
               IF RetryDue(cfg, db, call) THEN Emit(db, [type |-> "retry", call |-> call.id]) ELSE db,
               call, Handle(cfg.seed, db.world, AgentRow(db, call), call))

(* Mutant: a timeout_after_commit that found nothing to hide still counts. *)
MutHideOutcomeNoUndo(cfg, done, i, call) ==
    LET rule == cfg.chaos[i]
        kept == [done.db EXCEPT !.hidden = @ \cup
                    {[call |-> call.id, rule |-> rule.id, answer |-> done.answer]}]
    IN  IF rule.type = "timeout_after_commit" /\ ~(Succeeds(done.answer) /\ done.mutated)
        THEN done
        ELSE [done EXCEPT !.db = Emit(kept, Injected(cfg, done.db, i, call)),
                          !.answer = IF rule.type = "timeout_after_commit" THEN Answer(0, "timeout", 0)
                                     ELSE Answer(@.status, "malformed", 0)]

(* Mutant: a timeout_after_commit hides refused writes too. *)
MutHideAnyOutcome(cfg, done, i, call) ==
    LET kept == [done.db EXCEPT !.hidden = @ \cup
                    {[call |-> call.id, rule |-> cfg.chaos[i].id, answer |-> done.answer]}]
    IN  [done EXCEPT !.db = Emit(kept, Injected(cfg, done.db, i, call)),
                     !.answer = IF cfg.chaos[i].type = "timeout_after_commit" THEN Answer(0, "timeout", 0)
                                ELSE Answer(@.status, "malformed", 0)]

(* An effect that changes the answer after the handler ran.  A             *)
(* timeout_after_commit with no committed write to hide gives its          *)
(* injection back.                                                         *)
HideOutcome(cfg, done, i, call) ==
    LET rule == cfg.chaos[i]
        kept == [done.db EXCEPT !.hidden = @ \cup
                    {[call |-> call.id, rule |-> rule.id, answer |-> done.answer]}]
    IN  IF rule.type = "timeout_after_commit" /\ ~(Succeeds(done.answer) /\ done.mutated)
        THEN [done EXCEPT !.db.rules[i].injections = @ - 1]
        ELSE [done EXCEPT !.db = Emit(kept, Injected(cfg, done.db, i, call)),
                          !.answer = IF rule.type = "timeout_after_commit" THEN Answer(0, "timeout", 0)
                                     ELSE Answer(@.status, "malformed", 0)]

RuleType(cfg, i) == IF i = NoRule THEN "none" ELSE cfg.chaos[i].type

(* What happens before the handler: an effect that does not wait for the   *)
(* answer is recorded, and a concurrent writer has its turn.               *)
BeforeHandler(cfg, db, i, call) ==
    IF RuleType(cfg, i) \in PostEffect \cup {"none"} THEN [ok |-> TRUE, db |-> db]
    ELSE IF RuleType(cfg, i) = "concurrent_mutation"
    THEN invokeActor(cfg, Emit(db, Injected(cfg, db, i, call)), cfg.chaos[i], db.rules[i].calls)
    ELSE [ok |-> TRUE, db |-> Emit(db, Injected(cfg, db, i, call))]

(* The effect answers, or the legacy fault, or the handler. *)
Serve(cfg, db, i, call, pre) ==
    IF pre # Unanswered THEN Outcome(db, pre, FALSE)
    ELSE IF FaultFires(cfg, db, call)
    THEN Outcome(Emit([db EXCEPT !.consumed = TRUE],
                      [type |-> "error", kind |-> "injected_503", call |-> call.id]),
                 Answer(503, "unavailable", 0), FALSE)
    ELSE RunHandler(cfg, db, call)

(* An effect on the answer needs a handler that ran. *)
AfterHandler(cfg, actor, i, call, done) ==
    [ok |-> actor.ok /\ (RuleType(cfg, i) \in PostEffect => ~FaultFires(cfg, actor.db, call)),
     done |-> IF RuleType(cfg, i) \in PostEffect THEN HideOutcome(cfg, done, i, call) ELSE done]

Served(cfg, actor, i, call) ==
    AfterHandler(cfg, actor, i, call,
                 Serve(cfg, actor.db, i, call,
                       IF i = NoRule THEN Unanswered ELSE PreAnswer(cfg, actor.db, i, call)))

(* The handler with what chaos does around it, once a rule is decided. *)
RunCall(cfg, decided, call) ==
    Served(cfg, BeforeHandler(cfg, decided.db, decided.rule, call), decided.rule, call)

(* The rows every settled call leaves: the mutation event before the       *)
(* response, the saved result, the transcript entry.                       *)
Settle(done, call) ==
    LET mutated == IF done.mutated THEN Emit(done.db, Mutation("state.mutation", AgentRow(done.db, call), call))
                   ELSE done.db
        response == [type |-> "tool.response", call |-> call.id, op |-> call.op,
                     status |-> done.answer.status, body |-> done.answer.body]
    IN  [Emit(mutated, response) EXCEPT
            !.results = @ \cup {[call |-> call, answer |-> done.answer]},
            !.transcript = Append(@, [role |-> "tool", call |-> call.id, op |-> call.op,
                                      status |-> done.answer.status, body |-> done.answer.body])]

(* The schema check, whose outcome the abstract call carries. *)
validate(call) == call.schema

Committed(db, call, run) == [ok |-> run.ok, db |-> IF run.ok THEN Settle(run.done, call) ELSE db]

(* What follows the checks. *)
Proceed(cfg, db, call, checked) ==
    IF Open(checked)
    THEN Committed(db, call, RunCall(cfg, ChaosDecide(cfg, checked.db, call), call))
    ELSE [ok |-> TRUE, db |-> Settle(Outcome(checked.db, checked.answer, FALSE), call)]

Check(cfg, db, call) ==
    IF validate(call) THEN Authorize(cfg, db, call) ELSE Stage(db, Answer(400, "invalid", 0))

(* One transaction.  Not ok means it returns an error and rolls back. *)
Invoke(cfg, db, call) ==
    IF Saved(db, call) # {}
    THEN [ok |-> \A r \in Saved(db, call) : r.call = call, db |-> db]
    ELSE IF call.op \notin cfg.ops
    THEN [ok |-> FALSE, db |-> db]
    ELSE Proceed(cfg, db, call,
                 Check(cfg, Emit(db, [type |-> "tool.request", call |-> call.id, op |-> call.op,
                                      args |-> Arguments(call)]), call))
===============================================================================
