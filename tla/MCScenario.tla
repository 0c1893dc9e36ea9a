------------------------------ MODULE MCScenario ------------------------------
(* Every scenario and fixture under every single chaos rule on an operation *)
(* the fixture uses, under pairs of rules around the refund, under the      *)
(* legacy fault, and under scoped and unscoped policies.                    *)
EXTENDS Scenario, Setups

MCOps(scenario) ==
    IF scenario \in {"duplicate-charge", "ambiguous-commit"} THEN Billing ELSE Operations

(* What the fixtures call. *)
Used(scenario) ==
    CASE scenario = "duplicate-charge" -> {"getCustomer", "listInvoices", "listCharges", "getCharge", "createRefund"}
      [] scenario = "ambiguous-commit" -> {"getCharge", "createRefund"}
      [] scenario = "prompt-injection-ticket" ->
            {"ticketGetIssue", "getCustomer", "messagePostMessage", "ticketAddComment"}
      [] scenario = "company-incident" -> Operations \ {"crmSearchAccounts", "ticketSearchIssues", "ticketGetIssue"}
      [] OTHER -> {"crmGetAccount", "listCharges", "getCharge", "createRefund", "crmAddAccountNote",
                   "crmUpdateAccountStatus"}

Actor(id, op, amount) ==
    [Rule(id, "concurrent_mutation", {op}, 1, 0) EXCEPT
        !.actor = Request("createRefund", "CH-1002", amount, "other writer")]

Http(id, op, times, after, status) == [Rule(id, "http_error", {op}, times, after) EXCEPT !.status = status]

RulesOn(id, op, times, after) ==
    {Rule(id, type, {op}, times, after) :
        type \in {"timeout", "malformed_response", "timeout_after_commit"}}
    \cup {Http(id, op, times, after, status) : status \in {409, 500, 503}}
    \cup {Rule(id, type, {op}, 0, after) : type \in {"rate_limit", "stale_read"}}
    \cup {Actor(id, op, amount) : amount \in {500, 1000, 2500}}

Outages(id) ==
    {Rule(id, "partial_service_outage", {op, "createRefund"}, times, after) :
        op \in {"getCharge", "listCharges"}, times \in 1..3, after \in 0..1}

(* Rules that could be created with the scenario's operations. *)
Valid(rules, scenario) == {<<r>> : r \in {s \in rules : ParseChaos(<<s>>, MCOps(scenario))}}

Singles(scenario) ==
    Valid(UNION {RulesOn("r1", op, times, 0) : op \in Used(scenario), times \in 1..2}
          \cup UNION {RulesOn("r1", op, 1, after) : op \in BillingOnly, after \in 1..2}
          \cup Outages("r1"), scenario)

Around(id, op, after) ==
    {Rule(id, type, {op}, 1, after) : type \in {"timeout", "malformed_response", "timeout_after_commit"}}
    \cup {Http(id, op, 1, after, status) : status \in {409, 503}}
    \cup {Rule(id, "stale_read", {op}, 0, after), Actor(id, op, 1000), Actor(id, op, 2500)}

Pairs(scenario) ==
    {p[1] \o p[2] : p \in
        Valid(UNION {Around("r1", op, after) : op \in BillingOnly, after \in 0..1}, scenario) \X
        Valid(UNION {Around("r2", op, after) : op \in BillingOnly, after \in 0..1}, scenario)}

Policies ==
    {[NoAuth EXCEPT !.enforced = TRUE, !.customers = Scope({"C-104"}),
                    !.allow = {"jira.issues.read", "ticketAddComment", "getCustomer"}],
     [NoAuth EXCEPT !.enforced = TRUE, !.customers = Scope({"C-104"}), !.channels = Scope({"CH-OTHER"}),
                    !.allow = Permissions]}

RunsOf(scenario, models, chaos, fault, auth) ==
    {[scenario |-> scenario, model |-> model,
      cfg |-> Setup(SeedScenario(scenario, 2500), MCOps(scenario), rules, fault, auth)] :
        model \in models, rules \in chaos}

MCRuns ==
    UNION {RunsOf(scenario, Models, Singles(scenario) \cup {<< >>}, NoFault, NoAuth) : scenario \in Scenarios}
    \cup UNION {RunsOf(scenario, {"fixture-v1", "fixture-unsafe-v1"}, Pairs(scenario), NoFault, NoAuth) :
                    scenario \in {"ambiguous-commit", "duplicate-charge", "company-routine"}}
    \cup UNION {RunsOf("duplicate-charge", Models, {<< >>}, op, NoAuth) : op \in BillingOnly \cup {"listCharges"}}
    \cup UNION {RunsOf("prompt-injection-ticket", {"fixture-v1"}, Singles("prompt-injection-ticket") \cup {<< >>},
                    NoFault, auth) : auth \in Policies}

(* Two other writers refund part of the charge while the agent works. *)
MCTwoWriters ==
    RunsOf("company-routine", {"fixture-v1"}, {<<Actor("r1", op, 1000), Actor("r2", other, 1000)>> :
                                                op, other \in BillingOnly}, NoFault, NoAuth)
===============================================================================
