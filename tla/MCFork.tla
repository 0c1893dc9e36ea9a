-------------------------------- MODULE MCFork --------------------------------
(* One process for each run; the parent can pause, be forked and go on.    *)
EXTENDS Fork, Setups

MCTurns ==
    {<< >>,
     <<Call("c1", "getCharge", 0), Call("c2", "createRefund", 1)>>,
     <<Call("c3", "createRefund", 1)>>}

Lost == <<Rule("lost", "timeout_after_commit", {"createRefund"}, 1, 0),
          Rule("stale", "stale_read", {"getCharge"}, 1, 1)>>

Config(chaos, fault, auth) == Setup(OneCharge(3), BillingOnly, chaos, fault, auth)

MCConfigs ==
    {Config(<< >>, "createRefund", RevokedAuth), Config(Lost, NoFault, NoAuth)}

MCOptions ==
    {Unchanged,
     [Unchanged EXCEPT !.chaosReplaced = TRUE, !.chaos = Lost],
     [Unchanged EXCEPT !.authReplaced = TRUE, !.auth = RevokedAuth],
     [Unchanged EXCEPT !.faultGiven = TRUE, !.fault = "createRefund"],
     [Unchanged EXCEPT !.observed = TRUE,
                       !.observation = [call |-> "c2", answer |-> Answer(201, "refund", 1)]]}
===============================================================================
