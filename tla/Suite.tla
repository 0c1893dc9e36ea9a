-------------------------------- MODULE Suite ---------------------------------
(***************************************************************************)
(* internal/bench/suite.go: a suite document, and which ones are accepted. *)
(*                                                                         *)
(* A document is a sequence of cases with the fields it gives; a number it *)
(* does not give is Absent, a text or a path it does not give is "".  Of a *)
(* path only what checkPath finds is kept: "present", "missing" or         *)
(* "outside" the examples.  The order of the checks only chooses which     *)
(* message is printed, so the rules below are a conjunction.               *)
(***************************************************************************)
EXTENDS Integers, Sequences, FiniteSets, SequencesExt

Absent == -1

Given(n) == n # Absent

Categories == {"reliability", "reasoning", "safety", "security", "recovery", "long_horizon",
               "distributed", "counterfactual"}
Dimensions == {"task", "safety", "authorization", "recovery", "duplicate_effects", "explanation"}
CommitPoints == {"before-tool-commit", "after-tool-commit"}
Points == CommitPoints \cup {"before-model-request", "after-model-request", "after-model-response",
                             "before-completion", "after-completion"}

OrDefault(text, default) == IF text = "" THEN default ELSE text

ModeOf(raw) == OrDefault(raw.mode, "local")

(* What it is, and where its agent works. *)
IdentityRule(raw) ==
    /\ raw.id # "" /\ raw.category \in Categories
    /\ raw.world \in {"billing", "company"} /\ raw.scenario # ""
    /\ raw.recovery \in {"", "safe", "unsafe"}
    /\ raw.recovery = "unsafe" => raw.scenario = "ambiguous-commit"

StepsRule(raw) ==
    /\ Given(raw.steps) => raw.steps >= 1
    /\ Given(raw.resumeAt) => raw.resumeAt >= 1
    /\ raw.resume <=> Given(raw.resumeAt)

(* A field that the mode ignores is refused rather than dropped. *)
ModeRule(raw) ==
    /\ ModeOf(raw) \in {"local", "distributed", "counterfactual"}
    /\ Given(raw.crashAt) <=> ModeOf(raw) = "distributed"
    /\ Given(raw.crashAt) => raw.crashAt >= 1
    /\ raw.crashPoint # "" => ModeOf(raw) = "distributed" /\ raw.crashPoint \in Points
    /\ raw.crashOperation # "" => ModeOf(raw) = "distributed" /\ raw.crashPoint \in CommitPoints
    /\ raw.crashPoint = "after-completion" => raw.crashAt <= 1
    /\ ModeOf(raw) = "distributed" => ~raw.resume
    /\ raw.interventions # "" <=> ModeOf(raw) = "counterfactual"
    /\ Given(raw.trials) => ModeOf(raw) = "local" /\ raw.trials >= 1

ScoreRule(raw) ==
    /\ raw.dimensions # << >>
    /\ IsInjective(raw.dimensions) /\ Range(raw.dimensions) \subseteq Dimensions
    /\ raw.expect \in {"", "pass", "fail"}

checkPath(path) == path \in {"", "present"}

FileRule(raw) ==
    /\ checkPath(raw.chaos) /\ checkPath(raw.auth)
    /\ checkPath(raw.assertions) /\ checkPath(raw.interventions)
    /\ ~(raw.fault # "" /\ raw.chaos # "")

CaseAccepted(raw) ==
    IdentityRule(raw) /\ StepsRule(raw) /\ ModeRule(raw) /\ ScoreRule(raw) /\ FileRule(raw)

Or0(n) == IF Given(n) THEN n ELSE 0

parseCase(raw) ==
    [raw EXCEPT !.recovery = OrDefault(@, "safe"), !.steps = IF Given(@) THEN @ ELSE 20,
                !.resumeAt = Or0(@), !.mode = OrDefault(@, "local"), !.crashAt = Or0(@),
                !.trials = Or0(@), !.expect = OrDefault(@, "pass"), !.dimensions = Range(@)]

(* Parse: the cases of an accepted document; none otherwise. *)
Accepted(doc) ==
    /\ doc # << >>
    /\ \A k \in DOMAIN doc : CaseAccepted(doc[k])
    /\ \A j, k \in DOMAIN doc : doc[j].id = doc[k].id => j = k

Parse(doc) == IF Accepted(doc) THEN [k \in DOMAIN doc |-> parseCase(doc[k])] ELSE << >>

(* ContentDigest: the cases and the edition of the files they name. *)
referencedFiles(suite) ==
    {k \in DOMAIN suite : \E file \in {suite[k].chaos, suite[k].auth, suite[k].assertions,
                                       suite[k].interventions} : file # ""}

ContentDigest(suite, edition) ==
    [cases |-> suite, files |-> IF referencedFiles(suite) = {} THEN 0 ELSE edition]
===============================================================================
