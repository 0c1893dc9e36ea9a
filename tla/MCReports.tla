------------------------------ MODULE MCReports -------------------------------
(* Suites of one or two cases, a repeated one in both directions, and      *)
(* baselines of up to two trials.                                          *)
EXTENDS Reports

Raw ==
    [id |-> "a", category |-> "reliability", world |-> "billing", scenario |-> "prompt-injection-ticket",
     chaos |-> "", auth |-> "", assertions |-> "", recovery |-> "", fault |-> "", steps |-> Absent,
     resume |-> FALSE, resumeAt |-> Absent, dimensions |-> <<"task", "duplicate_effects">>,
     expect |-> "", mode |-> "", crashAt |-> Absent, crashPoint |-> "", crashOperation |-> "",
     interventions |-> "", trials |-> Absent]

Repeat == [Raw EXCEPT !.trials = 2]
Control == [Repeat EXCEPT !.expect = "fail"]
Resumed == [Raw EXCEPT !.resume = TRUE, !.resumeAt = 1, !.fault = "createRefund"]
Second == [Raw EXCEPT !.id = "b", !.scenario = "ambiguous-commit", !.assertions = "present",
                      !.dimensions = <<"safety", "task">>]
SecondControl == [Second EXCEPT !.expect = "fail"]
CrashesAtTurn == [Raw EXCEPT !.mode = "distributed", !.crashAt = 2, !.dimensions = <<"recovery">>]
CrashesAtCommit ==
    [CrashesAtTurn EXCEPT !.crashAt = 1, !.crashPoint = "after-tool-commit", !.crashOperation = "createRefund"]
CrashesAtEnd == [CrashesAtTurn EXCEPT !.crashAt = 1, !.crashPoint = "after-completion"]
Explains == [Raw EXCEPT !.mode = "counterfactual", !.interventions = "present",
                        !.dimensions = <<"explanation">>]

Bad ==
    {[Raw EXCEPT !.crashAt = 1], [Raw EXCEPT !.trials = 0], [Raw EXCEPT !.expect = "fial"],
     [Raw EXCEPT !.chaos = "outside"], [CrashesAtEnd EXCEPT !.crashAt = 2], [Explains EXCEPT !.trials = 2],
     [CrashesAtTurn EXCEPT !.crashOperation = "createRefund"], [Raw EXCEPT !.resumeAt = 1],
     [Raw EXCEPT !.dimensions = <<"task", "task">>], [Raw EXCEPT !.recovery = "unsafe"]}

MCDocuments ==
    {<<Repeat>>, <<Control>>, <<Raw>>, <<Resumed>>, <<CrashesAtTurn>>, <<CrashesAtCommit>>, <<CrashesAtEnd>>,
     <<Explains>>, <<Raw, Second>>, <<Raw, SecondControl>>, <<Raw, Raw>>, << >>}
    \cup {<<raw>> : raw \in Bad}

(* One case, run once: the response of a refund can be lost. *)
MCOneCase == {<<[Raw EXCEPT !.scenario = "ambiguous-commit", !.chaos = "present"]>>}

Plain == [agent |-> "scripted", model |-> "", trials |-> 0, operations |-> {"createRefund", "getCharge"}]

MCBenchOptions == {Plain, [Plain EXCEPT !.agent = "openai", !.trials = 2]}

MCInterventions ==
    <<[id |-> 1, kind |-> "model", calls |-> {}, operation |-> "", changes |-> TRUE],
      [id |-> 2, kind |-> "fault", calls |-> {}, operation |-> "createRefund", changes |-> FALSE]>>

MCRecoveries ==
    {Observations, Observations \ {"replay_verified"}, Observations \ {"takeover", "stale_new_call_refused"}}

(* Trials as an earlier run measured them. *)
Past(expect) == Errored([id |-> "a", expect |-> expect, dimensions |-> {"task"}])
PastPass(expect) == [Past(expect) EXCEPT !.status = "passed", !.passed = TRUE]
PastFail(expect) == [Past(expect) EXCEPT !.status = "failed"]
Busy(t) == [t EXCEPT !.agentRefunds = 1, !.refunds = 1, !.mutations = 1, !.trajectory = << <<"createRefund", 201>> >>]
Reckless(t) == [t EXCEPT !.unsafe = TRUE, !.agentRefunds = 1, !.mutations = 2, !.violations = 1]

PastTrials(expect) ==
    {Past(expect), Busy(PastPass(expect)), PastFail(expect), Busy(PastFail(expect)), Reckless(PastFail(expect))}

PastReport(trials) == [suite |-> "suite", schema |-> 2, content |-> << >>, trials |-> trials]

OtherCase == [PastFail("pass") EXCEPT !.id = "z"]

Compared ==
    {PastReport(<<trials>>) :
        trials \in UNION {UNION {[1..n -> PastTrials(expect)] : n \in 1..2} : expect \in {"pass", "fail"}}}

MCBaselines ==
    Compared \cup
    {PastReport(<< <<Busy(PastPass("pass"))>>, <<OtherCase>> >>),
     PastReport(<< <<OtherCase>>, <<OtherCase>> >>),
     [PastReport(<< <<PastPass("pass")>> >>) EXCEPT !.schema = 0],
     [PastReport(<< <<PastPass("pass")>> >>) EXCEPT !.suite = "another"]}

MCGateOptions ==
    {[tolerance |-> 0, trajectory |-> "fail"], [tolerance |-> 5, trajectory |-> ""],
     [tolerance |-> 11, trajectory |-> "ignore"]}
===============================================================================
