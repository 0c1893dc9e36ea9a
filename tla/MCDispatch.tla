------------------------------ MODULE MCDispatch ------------------------------
(* Call IDs under two kinds of world: one charge of 2, with requests about *)
(* it and about one that does not exist, and a company with an account, an *)
(* issue and a channel.                                                    *)
EXTENDS Dispatch, Setups, TLC

CONSTANT CallIds

(* Call IDs are only compared with each other. *)
Symmetry == Permutations(CallIds)

ChargeRequests ==
    {Request("getCharge", "ch", 0, "why"),
     Request("getCharge", "gone", 0, "why"),
     Request("createRefund", "ch", 1, "why"),
     Request("createRefund", "ch", 2, "why"),
     Request("createRefund", "ch", 0, "why"),
     Request("uncompiled", "ch", 0, "why")}

CompanyRequests ==
    {Request("crmAddAccountNote", "A-104", 0, "finding"),
     Request("crmAddAccountNote", "A-104", 0, ""),
     Request("crmAddAccountNote", "A-205", 0, "finding"),
     Request("crmUpdateAccountStatus", "A-104", 0, "resolved"),
     Request("crmSearchAccounts", "C-104", 0, "why"),
     Request("ticketGetIssue", "ISS-104", 0, "why"),
     Request("ticketTransitionIssue", "ISS-104", 0, "in_progress"),
     Request("ticketTransitionIssue", "ISS-104", 0, "resolved"),
     Request("ticketTransitionIssue", "actor-2", 0, "in_progress"),
     Request("messagePostMessage", "CH-SUPPORT", 0, "hello"),
     Request("messagePostMessage", "CH-OTHER", 0, "hello"),
     Request("ticketCreateIssue", "A-104", 0, "PROJ-ENG")}

Company == SeedScenario("prompt-injection-ticket", 2)

MCCalls(c) ==
    IF c.seed = Company
    THEN {ToolRequest(id, r, TRUE) : id \in CallIds, r \in CompanyRequests}
    ELSE {ToolRequest(id, r, TRUE) : id \in CallIds, r \in ChargeRequests}
         \cup {ToolRequest(id, Request("getCharge", "ch", 0, "why"), FALSE) : id \in CallIds}

GrantedAuth ==
    [NoAuth EXCEPT !.enforced = TRUE, !.allow = {"charges.read"}, !.customers = Scope({"cust"}),
                   !.refundMax = 1,
                   !.grants = {[permission |-> "createRefund", from |-> 2, to |-> 3]}]

(* A principal who may only work on one customer, in one channel. *)
ScopedAuth ==
    [NoAuth EXCEPT !.enforced = TRUE, !.allow = Permissions \ {"crmAddAccountNote"},
                   !.grants = {[permission |-> "crmAddAccountNote", from |-> 1, to |-> 2]},
                   !.customers = Scope({"C-104"}), !.channels = Scope({"CH-OTHER", "CH-SUPPORT"})]

Config(chaos, fault, auth) == Setup(OneCharge(2), BillingOnly, chaos, fault, auth)

Actor(id, ops, actor) == [Rule(id, "concurrent_mutation", ops, 1, 0) EXCEPT !.actor = actor]

MCConfigs ==
    {Config(<< >>, "createRefund", RevokedAuth),
     Config(<<Rule("lost", "timeout_after_commit", {"createRefund"}, 1, 0),
              Rule("bad", "malformed_response", {"getCharge"}, 1, 0),
              Rule("stale", "stale_read", {"getCharge"}, 0, 1)>>, NoFault, NoAuth),
     Config(<<Rule("actor", "concurrent_mutation", {"getCharge"}, 2, 1),
              Rule("stale", "stale_read", {"getCharge"}, 1, 2)>>, NoFault, NoAuth),
     Config(<<Rule("slow", "latency", {"createRefund"}, 1, 0),
              Rule("limit", "rate_limit", {"createRefund"}, 0, 1),
              Rule("stale", "stale_read", {"getCharge"}, 0, 1)>>, NoFault, GrantedAuth),
     Config(<<Rule("out", "partial_service_outage", BillingOnly, 1, 1),
              Rule("lost", "timeout_after_commit", {"createRefund"}, 2, 0),
              Rule("gone", "timeout", {"createRefund"}, 1, 0)>>, NoFault, RevokedAuth),
     Config(<<Rule("http", "http_error", {"createRefund"}, 1, 0),
              Rule("perm", "permission_revocation", {"getCharge"}, 0, 2)>>, NoFault, NoAuth),
     Setup(Company, Operations,
           <<Actor("actor", {"ticketTransitionIssue"},
                   Request("crmUpdateAccountStatus", "A-104", 0, "needs_followup")),
             Rule("lost", "timeout_after_commit", {"ticketTransitionIssue", "crmAddAccountNote"}, 1, 1)>>,
           NoFault, ScopedAuth),
     Setup(Company, Operations,
           <<[Actor("actor", {"ticketGetIssue"}, Request("ticketCreateIssue", "A-104", 0, "PROJ-ENG"))
                  EXCEPT !.times = 2],
             Rule("lost", "timeout_after_commit", {"ticketTransitionIssue"}, 1, 0)>>,
           NoFault, NoAuth)}
===============================================================================
