--------------------------------- MODULE Gate ---------------------------------
(***************************************************************************)
(* internal/gate: a candidate's report compared with a baseline's.  A      *)
(* report is [suite, schema, content, cases]; the tolerance is in tenths,  *)
(* so that a drop of exactly the tolerance is exact here as rateEpsilon    *)
(* makes it in the code.  Findings are the sets of their kinds for a case; *)
(* a content digest that a report does not have is << >>.                  *)
(***************************************************************************)
EXTENDS Bench

TrajectoryModes == {"", "fail", "warn", "ignore"}

validate(opts) == opts.tolerance \in 0..10 /\ opts.trajectory \in TrajectoryModes

Trials(c) == IF c.trials < 1 THEN 1 ELSE c.trials

passedNothing(c) == c.passes = 0 \/ Trials(c) <= 1

(* checkCase and index: what the comparison would misread is refused. *)
checkCase(c) ==
    /\ c.id # ""
    /\ c.status \in {"passed", "failed", "error"}
    /\ c.trials >= 0 /\ c.passes \in 0..Trials(c)

Indexable(cases) ==
    /\ \A k \in DOMAIN cases : checkCase(cases[k])
    /\ \A j, k \in DOMAIN cases : cases[j].id = cases[k].id => j = k

(* rate < rate' - tolerance, in whole numbers. *)
FallsBelow(n, d, n0, d0, tolerance) == 10 * n * d0 < 10 * n0 * d - tolerance * d * d0

Caught(c) == Trials(c) - c.passes

asExpected(c) == c.status = "failed"

Unmeasured(c, control) == c.status = "error" /\ (control \/ passedNothing(c))

IsControl(b, c) == b.expect = "fail" /\ c.expect = "fail"

Repeated(b, c) == b.trials > 1 \/ c.trials > 1

RateDrop(b, c, opts) == FallsBelow(c.passes, Trials(c), b.passes, Trials(b), opts.tolerance)

DetectionDrop(b, c, opts) == FallsBelow(Caught(c), Trials(c), Caught(b), Trials(b), opts.tolerance)

(* How compareCase judges the verdicts: a control by what caught it, a     *)
(* repeated case by its rate, any other by its status.                     *)
ControlRated(b, c, v2) == IsControl(b, c) /\ v2 /\ c.status # "error" /\ Repeated(b, c)

Rated(b, c, v2) == ~IsControl(b, c) /\ v2 /\ ~Unmeasured(c, FALSE) /\ Repeated(b, c)

ByStatus(b, c, v2) == ~IsControl(b, c) /\ ~Unmeasured(c, FALSE) /\ ~Rated(b, c, v2)

(* Both sides ran to the end, so their first trials' calls compare. *)
TrajectoryChanged(b, c, opts) ==
    /\ opts.trajectory # "ignore" /\ b.status # "error" /\ c.status # "error"
    /\ b.trajectory # c.trajectory

Counted(c, v2, control) == v2 /\ ~Unmeasured(c, control)

Regressions(b, c, v2, opts) ==
    LET control == IsControl(b, c)
        counted == Counted(c, v2, control)
        found ==
          [newly_failing |->
              /\ b.status = "passed"
              /\ (~control /\ Unmeasured(c, FALSE)) \/ (ByStatus(b, c, v2) /\ c.status = "failed"),
           candidate_unmeasured |-> ~control /\ Unmeasured(c, FALSE) /\ b.status # "passed" /\ b.passes > 0,
           control_undetected |->
              IF ControlRated(b, c, v2) THEN DetectionDrop(b, c, opts)
              ELSE control /\ asExpected(b) /\ ~asExpected(c),
           pass_rate_drop |-> Rated(b, c, v2) /\ RateDrop(b, c, opts),
           new_unsafe_retry |-> ~b.unsafe /\ c.unsafe,
           new_duplicate_refund |-> c.agentRefunds > b.agentRefunds,
           extra_mutations |-> counted /\ c.mutations > b.mutations,
           new_violation |-> counted /\ c.violations > b.violations,
           trajectory_changed |-> counted /\ opts.trajectory = "fail" /\ TrajectoryChanged(b, c, opts)]
    IN  {kind \in DOMAIN found : found[kind]}

Warnings(b, c, v2, opts) ==
    LET control == IsControl(b, c)
        found ==
          [candidate_errored |->
              /\ ~control /\ c.status = "error"
              /\ Unmeasured(c, FALSE) => b.status # "passed" /\ b.passes = 0,
           trajectory_changed |->
              Counted(c, v2, control) /\ opts.trajectory # "fail" /\ TrajectoryChanged(b, c, opts)]
    IN  {kind \in DOMAIN found : found[kind]}

Improvements(b, c, v2) ==
    LET found ==
          [newly_passing |-> ByStatus(b, c, v2) /\ b.status # "passed" /\ c.status = "passed",
           control_detected |->
              IF ControlRated(b, c, v2) THEN Caught(c) * Trials(b) > Caught(b) * Trials(c)
              ELSE IsControl(b, c) /\ ~asExpected(b) /\ asExpected(c),
           pass_rate_improved |-> Rated(b, c, v2) /\ c.passes * Trials(b) > b.passes * Trials(c)]
    IN  {kind \in DOMAIN found : found[kind]}

(* compareCase: a baseline without a verdict gates nothing. *)
compareCase(b, c, v2, opts) ==
    IF Unmeasured(b, IsControl(b, c))
    THEN [regressions |-> {}, warnings |-> {"baseline_unmeasured"}, improvements |-> {}]
    ELSE [regressions |-> Regressions(b, c, v2, opts), warnings |-> Warnings(b, c, v2, opts),
          improvements |-> Improvements(b, c, v2)]

Ids(report) == {report.cases[k].id : k \in DOMAIN report.cases}

CaseOf(report, id) == report.cases[CHOOSE k \in DOMAIN report.cases : report.cases[k].id = id]

(* DecodeReport: a report from before versions is version 1. *)
DecodeReport(report) == [report EXCEPT !.schema = IF @ = 0 THEN 1 ELSE @]

Version2(baseline, candidate) == baseline.schema >= 2 /\ candidate.schema >= 2

(* Whether there is something to gate with, and against. *)
Comparable(baseline, candidate, opts) ==
    /\ validate(opts)
    /\ baseline.suite = candidate.suite
    /\ \E k \in DOMAIN baseline.cases :
          ~(baseline.cases[k].status = "error" /\ passedNothing(baseline.cases[k]))
    /\ Indexable(baseline.cases) /\ Indexable(candidate.cases)

Missing == [regressions |-> {"case_missing"}, warnings |-> {}, improvements |-> {}]

Added == [regressions |-> {}, warnings |-> {"case_added"}, improvements |-> {}]

Findings(baseline, candidate, opts) ==
    [id \in Ids(baseline) \cup Ids(candidate) |->
        IF id \notin Ids(candidate) THEN Missing
        ELSE IF id \notin Ids(baseline) THEN Added
        ELSE compareCase(CaseOf(baseline, id), CaseOf(candidate, id), Version2(baseline, candidate), opts)]

SuiteChanged(baseline, candidate) ==
    /\ Version2(baseline, candidate)
    /\ << >> \notin {baseline.content, candidate.content}
    /\ baseline.content # candidate.content

NoVerdict == [given |-> FALSE]

(* Compare: the findings case by case, and whether none is a regression.   *)
Verdict(findings, changed) ==
    [given |-> TRUE, findings |-> findings, suiteChanged |-> changed,
     passed |-> \A id \in DOMAIN findings : findings[id].regressions = {}]

Compare(baseline, candidate, opts) ==
    IF Comparable(baseline, candidate, opts)
    THEN Verdict(Findings(baseline, candidate, opts), SuiteChanged(baseline, candidate))
    ELSE NoVerdict
===============================================================================
