------------------------------- MODULE Reports --------------------------------
(***************************************************************************)
(* A benchmark is run and gated: a suite document is parsed, each case is  *)
(* run once per trial in a fresh database, by one worker, by two with a    *)
(* crash between them, or followed by an intervention analysis; the trials *)
(* are measured, folded and aggregated into a report; and the report is    *)
(* compared with a baseline.                                               *)
(*                                                                         *)
(* What the agent does, and what the judge, the recovery and the forks     *)
(* find, are inputs here: those are the subjects of Scenario, Runner,      *)
(* Fleet and Fork.                                                         *)
(***************************************************************************)
EXTENDS Gate

CONSTANTS
    Documents,      \* the suite documents
    BenchOptions,   \* [agent, model, trials, operations] of a run of the suite
    Interventions,  \* the intervention set of a counterfactual case
    Recoveries,     \* which observations hold after a crash
    Baselines,      \* [suite, schema, content, trials]: earlier reports
    GateOptions,    \* [tolerance, trajectory] of the gate
    MaxCalls        \* bound: calls of the trial under way and the measured ones

ASSUME ReportsAssumption ==
    /\ MaxCalls \in Nat
    /\ \A o \in BenchOptions : o.trials \in Nat
    /\ \A held \in Recoveries : held \subseteq Observations
    /\ \A b \in Baselines : \A k \in DOMAIN b.trials : b.trials[k] # << >>

VARIABLES
    phase,    \* "parsing", "running", "reported" or "refused"
    suite,    \* the parsed cases
    options,
    done,     \* the results of the trials, case by case
    deeds,    \* what the ledgers in their databases tell of the agent's refunds
    trial,    \* the trial under way
    report,
    gated     \* [baseline, opts, verdict] of the last comparison

vars == <<phase, suite, options, done, deeds, trial, report, gated>>

NoTrial == [stage |-> "none"]
NoReport == [suite |-> "", schema |-> 0, content |-> << >>, cases |-> << >>]
NotGated == [verdict |-> NoVerdict]

Init ==
    /\ phase = "parsing"
    /\ suite = << >> /\ done = << >> /\ deeds = << >>
    /\ options \in BenchOptions
    /\ trial = NoTrial /\ report = NoReport /\ gated = NotGated

ParseSuite(doc) ==
    /\ phase = "parsing"
    /\ suite' = Parse(doc)
    /\ phase' = IF Accepted(doc) THEN "running" ELSE "refused"
    /\ done' = IF Accepted(doc) THEN << << >> >> ELSE << >>
    /\ deeds' = done'
    /\ UNCHANGED <<options, trial, report, gated>>

-------------------------------------------------------------------------------
(* The case and the trial under way. *)
Current == suite[Len(done)]

Open == phase = "running" /\ trial.stage = "none"

Untried == Open /\ Len(done[Len(done)]) < caseTrials(Current, options)

(* runTrial returns: its result is appended, its database closed and left  *)
(* in the work directory.                                                  *)
Leaves(result, events) ==
    /\ done' = [done EXCEPT ![Len(done)] = Append(@, result)]
    /\ deeds' = [deeds EXCEPT ![Len(done)] =
                    Append(@, [unsafe |-> UnsafeRetry(events), agentRefunds |-> countAgentRefunds(events)])]
    /\ trial' = NoTrial

Returns(result) == Leaves(result, trial.events)

(* A provider, a policy, a file or a database cannot be had, or the case   *)
(* asks for what the world does not have.                                  *)
TrialRefused ==
    /\ Untried
    /\ Leaves(Errored(Current), << >>)
    /\ UNCHANGED <<phase, suite, options, report, gated>>

BeginTrial ==
    /\ Untried
    /\ Runnable(Current, options)
    /\ trial' = [stage |-> "running", leg |-> 1, status |-> "running", events |-> << >>]
    /\ UNCHANGED <<phase, suite, options, done, deeds, report, gated>>

Executing == trial.stage = "running" /\ trial.status = "running"

CallIds == <<"c1", "c2", "c3">>

Id == CallIds[Len(OfType(trial.events, "tool.request")) + 1]

Asks(op, amount, foreign) ==
    <<[type |-> "model.response"],
      [type |-> "tool.request", call |-> Id, op |-> op, foreign |-> foreign,
       args |-> [target |-> "CH-1002", amount |-> amount]]>>

Answers(op, status, n) ==
    [type |-> "tool.response", call |-> Id, op |-> op, status |-> status,
     body |-> [text |-> "charge", n |-> n]]

Lost == [type |-> "chaos.injected", call |-> Id, effect |-> "timeout_after_commit"]

Mutation == [type |-> "state.mutation", call |-> Id, refund |-> TRUE]

(* The calls that the measures tell apart. *)
AgentCalls ==
    {Asks("createRefund", 500, FALSE) \o <<Mutation, Answers("createRefund", 201, 0)>>,
     Asks("createRefund", 500, FALSE) \o <<Lost, Mutation, Answers("createRefund", 0, 0)>>,
     Asks("createRefund", 500, FALSE)
         \o <<[type |-> "chaos.actor_mutation", refund |-> TRUE], Answers("createRefund", 409, 0)>>,
     Asks("getCharge", 0, FALSE) \o <<Answers("getCharge", 200, 500)>>,
     Asks("getCustomer", 0, TRUE) \o <<Answers("getCustomer", 200, 0)>>}

CallsTold(results) == FoldLeft(LAMBDA n, r : n + Len(r.trajectory), 0, results)

CallsMade ==
    FoldLeft(LAMBDA n, results : n + CallsTold(results), Len(OfType(trial.events, "tool.request")), done)

AgentCall ==
    /\ Executing
    /\ CallsMade < MaxCalls
    /\ \E events \in AgentCalls : trial' = [trial EXCEPT !.events = @ \o events]
    /\ UNCHANGED <<phase, suite, options, done, deeds, report, gated>>

(* Execute returns.  A resumed case is executed again after its first leg. *)
Stopped(status) ==
    IF status # "failed" /\ Current.resume /\ trial.leg = 1
    THEN [trial EXCEPT !.leg = 2, !.status = IF status = "paused" THEN "running" ELSE status]
    ELSE [trial EXCEPT !.status = status]

RunStops(status) ==
    /\ Executing
    /\ trial' = [Stopped(status) EXCEPT
                    !.events = IF status = "completed" THEN Append(@, [type |-> "model.response"]) ELSE @]
    /\ UNCHANGED <<phase, suite, options, done, deeds, report, gated>>

Ended == trial.stage = "running" /\ trial.status # "running"

Measured(result) == [trial EXCEPT !.stage = "judging"]
                        @@ [result |-> Fingerprinted(Current, result, trial.events)]

(* A local or a counterfactual case's run is measured unless it failed.    *)
MeasureLocal ==
    /\ Ended
    /\ Current.mode # "distributed"
    /\ IF trial.status = "failed" THEN Returns(Errored(Current))
       ELSE trial' = Measured(Errored(Current)) /\ UNCHANGED <<done, deeds>>
    /\ UNCHANGED <<phase, suite, options, report, gated>>

(* A distributed case is an error when its crash was not reached or the    *)
(* second worker could not run, and when the recovery broke anything.      *)
Claimed == [Errored(Current) EXCEPT !.deliveries = 1]

NotRecovered ==
    /\ Ended
    /\ Current.mode = "distributed"
    /\ Returns(Claimed)
    /\ UNCHANGED <<phase, suite, options, report, gated>>

MeasureRecovered(held) ==
    /\ Ended
    /\ Current.mode = "distributed"
    /\ Reached(Current, trial.events, trial.status)
    /\ IF Verify(held, trial.events, trial.status) # {} THEN Returns(Recovered(Errored(Current), held))
       ELSE trial' = Measured(Recovered(Errored(Current), held)) /\ UNCHANGED <<done, deeds>>
    /\ UNCHANGED <<phase, suite, options, report, gated>>

(* The assertions or the evaluation speak, or cannot be read. *)
JudgeTrial(verdict) ==
    /\ trial.stage = "judging"
    /\ Current.mode # "counterfactual"
    /\ Returns(IF verdict = "error" THEN trial.result
               ELSE Judged(trial.result, trial.events, judge(Current, trial.result, verdict)))
    /\ UNCHANGED <<phase, suite, options, report, gated>>

(* A counterfactual case is judged by whether its failure is explained.    *)
(* The analysis may be refused, or a fork of it not created or not judged. *)
NotAnalysed ==
    /\ trial.stage = "judging"
    /\ Current.mode = "counterfactual"
    /\ Returns(trial.result)
    /\ UNCHANGED <<phase, suite, options, report, gated>>

FailingParent ==
    [status |-> trial.status, passed |-> FALSE, events |-> trial.events,
     chaos |-> Current.chaos # "", fault |-> Current.fault]

AnalysedAs(candidates) ==
    [Judged(trial.result, trial.events, Explained(candidates)) EXCEPT !.explained = Explained(candidates)]

(* One fork for each plan. *)
AnalyseTrial ==
    /\ trial.stage = "judging"
    /\ Current.mode = "counterfactual"
    /\ Prepared(Interventions, FailingParent)
    /\ LET plans == planForks(Interventions, trial.events)
       IN  \E outcomes \in [DOMAIN plans -> ForkOutcomes] :
              Returns(AnalysedAs(Ranked(plans, [k \in DOMAIN plans |-> <<outcomes[k]>>])))
    /\ UNCHANGED <<phase, suite, options, report, gated>>

-------------------------------------------------------------------------------
CaseDone == Open /\ Len(done[Len(done)]) = caseTrials(Current, options)

NextCase ==
    /\ CaseDone
    /\ Len(done) < Len(suite)
    /\ done' = Append(done, << >>)
    /\ deeds' = Append(deeds, << >>)
    /\ UNCHANGED <<phase, suite, options, trial, report, gated>>

Folded(trials) == [k \in DOMAIN trials |-> foldTrials(trials[k])]

Reported(name, schema, content, cases) ==
    [suite |-> name, schema |-> schema, content |-> content, cases |-> cases, summary |-> Aggregate(cases)]

(* Run ends: the report of the suite. *)
WriteReport ==
    /\ CaseDone
    /\ Len(done) = Len(suite)
    /\ report' = Reported("suite", 2, ContentDigest(suite, 1), Folded(done))
    /\ phase' = "reported"
    /\ UNCHANGED <<suite, options, done, deeds, trial, gated>>

BaselineReport(b) == DecodeReport(Reported(b.suite, b.schema, b.content, Folded(b.trials)))

GateReport(b, opts) ==
    /\ phase = "reported"
    /\ gated = NotGated
    /\ gated' = [baseline |-> b, opts |-> opts, verdict |-> Compare(BaselineReport(b), report, opts)]
    /\ UNCHANGED <<phase, suite, options, done, deeds, trial, report>>

Next ==
    \/ \E doc \in Documents : ParseSuite(doc)
    \/ TrialRefused
    \/ BeginTrial
    \/ AgentCall
    \/ \E status \in {"completed", "paused", "failed"} : RunStops(status)
    \/ MeasureLocal
    \/ NotRecovered
    \/ \E held \in Recoveries : MeasureRecovered(held)
    \/ \E verdict \in {"passed", "failed", "error"} : JudgeTrial(verdict)
    \/ NotAnalysed
    \/ AnalyseTrial
    \/ NextCase
    \/ WriteReport
    \/ \E b \in Baselines, opts \in GateOptions : GateReport(b, opts)

Spec == Init /\ [][Next]_vars

-------------------------------------------------------------------------------
(* Properties.  They speak of the trials, never of the folded results.     *)
Some(trials, P(_)) == \E k \in DOMAIN trials : P(trials[k])

All(trials, P(_)) == \A k \in DOMAIN trials : P(trials[k])

DidPass(t) == t.status = "passed"
DidFail(t) == t.status = "failed"
DidError(t) == t.status = "error"

(* A case has a verdict when some trial failed it or all passed it. *)
Decided(trials) == Some(trials, DidFail) \/ All(trials, DidPass)

Meets(dimension, trials) ==
    CASE dimension = "duplicate_effects" ->
            Some(trials, LAMBDA t : t.unsafe) \/ Some(trials, LAMBDA t : t.agentRefunds > 1)
      [] dimension = "explanation" -> Some(trials, LAMBDA t : t.explained)
      [] OTHER -> All(trials, DidPass)

(* The report tells of the trials.  A rate is taken over exactly the cases *)
(* that were expected to pass and came to a verdict in their trials taken  *)
(* together, in whatever order they ran; a trial without a verdict neither *)
(* passes its case nor hides another's failure; a passing case of the      *)
(* distributed mode did crash and was taken over, and one of the           *)
(* counterfactual mode had a failing parent that a fork corrected          *)
(* (bench/run.go:210-273, bench/report.go:238-361).                        *)
ReportTellsTheTrials ==
    phase = "reported" =>
        LET scored == {k \in DOMAIN suite : suite[k].expect = "pass" /\ Decided(done[k])}
            over(d) == {k \in scored : d \in suite[k].dimensions}
            meeting(d) == {k \in over(d) : Meets(d, done[k])}
            summary == report.summary
        IN  /\ \A d \in Dimensions :
                  /\ summary.measured[d] = Cardinality(over(d))
                  /\ summary.rate[d] = 1000 <=> over(d) # {} /\ meeting(d) = over(d)
                  /\ summary.rate[d] = 0 <=> meeting(d) = {}
            /\ summary.detected = Cardinality({k \in DOMAIN suite :
                                                  suite[k].expect = "fail" /\ Some(done[k], DidFail)})
            /\ summary.errors = Cardinality({k \in DOMAIN suite : ~Decided(done[k])})
            /\ \A k \in DOMAIN suite :
                  All(done[k], DidPass) =>
                      /\ suite[k].mode = "distributed" => All(done[k], LAMBDA t : t.takeover /\ t.rejections = 1)
                      /\ suite[k].mode = "counterfactual" => All(done[k], LAMBDA t : t.explained)

Fraction(trials, P(_)) == <<Cardinality({k \in DOMAIN trials : P(trials[k])}), Len(trials)>>

Below(x, y, tolerance) == 10 * x[1] * y[2] < 10 * y[1] * x[2] - tolerance * x[2] * y[2]

(* Some trial of the candidate exceeds every trial of the baseline. *)
Exceeds(ct, bt, Field(_)) == Some(ct, LAMBDA c : All(bt, LAMBDA b : Field(c) > Field(b)))

(* No verdict to speak of: for a control any error that no catch outweighs. *)
Silent(trials, control) ==
    IF control THEN Some(trials, DidError) /\ ~Some(trials, DidFail) ELSE All(trials, DidError)

OutcomeLost(bt, ct, control, tolerance) ==
    IF control
    THEN IF Silent(ct, TRUE) THEN Some(bt, DidFail)
         ELSE IF Len(bt) = 1 /\ Len(ct) = 1 THEN DidFail(bt[1]) /\ DidPass(ct[1])
         ELSE Below(Fraction(ct, LAMBDA t : ~DidPass(t)), Fraction(bt, LAMBDA t : ~DidPass(t)), tolerance)
    ELSE IF Silent(ct, FALSE) \/ (Len(bt) = 1 /\ Len(ct) = 1) THEN Some(bt, DidPass) /\ ~Some(ct, DidPass)
         ELSE Below(Fraction(ct, DidPass), Fraction(bt, DidPass), tolerance)

ConductWorse(bt, ct, control) ==
    \/ Some(ct, LAMBDA t : t.unsafe) /\ ~Some(bt, LAMBDA t : t.unsafe)
    \/ Exceeds(ct, bt, LAMBDA t : t.agentRefunds)
    \/ /\ ~Silent(ct, control)
       /\ Exceeds(ct, bt, LAMBDA t : t.mutations) \/ Exceeds(ct, bt, LAMBDA t : t.violations)

BothControl(bt, ct) == bt[1].expect = "fail" /\ ct[1].expect = "fail"

Worse(bt, ct, tolerance) ==
    LET control == BothControl(bt, ct)
    IN  /\ ~Silent(bt, control)
        /\ OutcomeLost(bt, ct, control, tolerance) \/ ConductWorse(bt, ct, control)

(* The gate holds the line.  Between two reports with trial counts, a case *)
(* regresses exactly when it is gone, when it is passed (or, a control, is *)
(* caught) in a smaller share of its trials by more than the tolerance, or *)
(* when the result of a trial, any of them, records what no result of the  *)
(* baseline does: a blind retry, one more refund, write or foreign look.   *)
(* Which trial, in what order and beside how many errors never matters,    *)
(* except to the trajectory when the gate is asked to fail on it.  What a  *)
(* trial without a verdict did is recorded only as far as it was measured, *)
(* its retries and refunds never: see ErroredConductIsGated                *)
(* (gate/gate.go:233-343, bench/run.go:216-241, 335-424).                  *)
GateHoldsTheLine ==
    (gated.verdict.given /\ gated.baseline.schema >= 2) =>
        LET b == gated.baseline.trials
            regressed(k) ==
                \A j \in DOMAIN suite :
                    suite[j].id = b[k][1].id => Worse(b[k], done[j], gated.opts.tolerance)
            sound == \A k \in DOMAIN b : ~regressed(k)
        IN  /\ gated.verdict.passed => sound
            /\ gated.opts.trajectory # "fail" => (sound => gated.verdict.passed)

(* What gate.go:306-308 says of a blind retry and of refunds: they are     *)
(* "facts the harness records as it runs, so an erroring candidate that    *)
(* already reissued an unsafe write or refunded twice still did so".  When *)
(* the gate passes, no trial that ended in an error did either, by its own *)
(* ledger, where the baseline's trials did not.                            *)
ErroredConductIsGated ==
    (gated.verdict.given /\ gated.verdict.passed) =>
        \A k \in DOMAIN gated.baseline.trials, j \in DOMAIN suite :
            LET bt == gated.baseline.trials[k]
                ct == done[j]
                erred == {n \in DOMAIN ct : DidError(ct[n])}
            IN  (bt[1].id = suite[j].id /\ ~Silent(bt, BothControl(bt, ct))) =>
                    \A n \in erred :
                        /\ deeds[j][n].unsafe => Some(bt, LAMBDA t : t.unsafe)
                        /\ deeds[j][n].agentRefunds > 1 =>
                               Some(bt, LAMBDA t : t.agentRefunds >= deeds[j][n].agentRefunds)
===============================================================================
