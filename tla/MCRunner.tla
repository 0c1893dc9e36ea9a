------------------------------- MODULE MCRunner -------------------------------
(* Two processes and a provider that asks for reads, refunds, two calls at *)
(* once, an operation that is not compiled, a call without an ID, or a     *)
(* call ID it already used.                                                *)
EXTENDS Runner, Setups, TLC

(* Processes are only compared with each other. *)
Symmetry == Permutations(Procs)

MCTurns ==
    {<< >>,
     <<Call("c1", "createRefund", 1), Call("c2", "getCharge", 0)>>,
     <<Call("c3", "createRefund", 2)>>,
     <<Call("c4", "uncompiled", 0)>>,
     <<Call(NoName, "getCharge", 0)>>}

Config(chaos, fault, auth) == Setup(OneCharge(2), BillingOnly, chaos, fault, auth)

MCConfigs ==
    {Config(<< >>, "createRefund", RevokedAuth),
     Config(<<Rule("lost", "timeout_after_commit", {"createRefund"}, 1, 0),
              Rule("actor", "concurrent_mutation", {"getCharge"}, 2, 0)>>, NoFault, NoAuth)}
===============================================================================
