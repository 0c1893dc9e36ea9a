-------------------------------- MODULE Setups --------------------------------
(* Small worlds and run configurations shared by the model-checking modules. *)
EXTENDS ToolCall, TLC

(* One customer with one charge. *)
OneCharge(amount) ==
    [customers |-> {"cust"}, subscriptions |-> << >>, invoices |-> [i \in {"inv"} |-> "cust"],
     charges |-> <<ChargeRow("ch", "inv", amount)>>, accounts |-> << >>, projects |-> {},
     channels |-> << >>, notes |-> {}, issues |-> {}, comments |-> {}]

(* An agent's issue goes by its call ID, an actor's by its rule and match. *)
MCIssueName(row) == IF row.n = 0 THEN row.by ELSE row.by \o "-" \o ToString(row.n)

Request(op, target, amount, text) ==
    [op |-> op, target |-> target, amount |-> amount, text |-> text]

ToolRequest(id, r, schema) ==
    [id |-> id, op |-> r.op, target |-> r.target, amount |-> r.amount, text |-> r.text, schema |-> schema]

(* A read or a refund of the one charge. *)
Call(id, op, amount) == ToolRequest(id, Request(op, "ch", amount, "why"), TRUE)

NoAuth ==
    [enforced |-> FALSE, allow |-> {}, grants |-> {}, revoked |-> {}, customers |-> NoScope,
     channels |-> NoScope, projects |-> NoScope, refundMax |-> NoLimit]

BillingOnly == {"getCharge", "createRefund"}

RevokedAuth ==
    [NoAuth EXCEPT !.enforced = TRUE, !.allow = {"charges.read", "createRefund"},
                   !.revoked = {[permission |-> "createRefund", after |-> 1]}]

Rule(id, type, ops, times, after) ==
    [id |-> id, type |-> type, ops |-> ops, times |-> times, after |-> after,
     status |-> 500, actor |-> Request("createRefund", "ch", 1, "why")]

Setup(seed, ops, chaos, fault, auth) ==
    [seed |-> seed, ops |-> ops, chaos |-> chaos, fault |-> fault, auth |-> auth]
===============================================================================
