---------------------------- MODULE Counterfactual ----------------------------
(***************************************************************************)
(* internal/counterfactual: which forks an intervention set asks for in a  *)
(* run's ledger, how their outcomes are tallied and how the candidates are *)
(* ranked.  An intervention is [id, kind, calls, operation, changes]: its  *)
(* identifier, a number for the order of identifiers; the calls it names,  *)
(* none meaning all; the operation of a fault; whether it selects another  *)
(* provider.  What a fork does is module Fork's subject.                   *)
(***************************************************************************)
EXTENDS Integers, Sequences, FiniteSets, SequencesExt

(* The first event after k of one of the types; 0 when there is none. *)
NextOf(events, k, types) ==
    LET later == {j \in DOMAIN events : j > k /\ events[j].type \in types}
    IN  IF later = {} THEN 0 ELSE CHOOSE j \in later : \A i \in later : j <= i

At(events, k, type) == IF k > 0 /\ events[k].type = type THEN k ELSE 0

(* discoverCalls: a call is its request's place; its response, and the     *)
(* decision after it, the next model turn when no other call comes first.  *)
Requests(events) == {k \in DOMAIN events : events[k].type = "tool.request"}

responseOf(events, k) ==
    At(events, NextOf(events, k, {"tool.request", "tool.response"}), "tool.response")

decisionOf(events, k) ==
    IF responseOf(events, k) = 0 THEN 0
    ELSE At(events, NextOf(events, responseOf(events, k), {"tool.request", "model.response"}),
            "model.response")

(* The event a candidate is about. *)
EventOf(in, events, k) ==
    CASE in.kind = "model" -> decisionOf(events, k)
      [] in.kind = "tool_response" -> responseOf(events, k)
      [] OTHER -> k

Targets(in, events) ==
    {k \in Requests(events) : in.calls = {} \/ events[k].call \in in.calls}

(* planForks: an intervention that names no call of the run, or changes    *)
(* nothing, or would change two things, is refused before any fork.        *)
Plannable(in, parent) ==
    /\ in.calls \subseteq {parent.events[k].call : k \in Requests(parent.events)}
    /\ in.kind = "tool_response" => Cardinality(in.calls) = 1
    /\ in.kind = "fault" => ~parent.chaos /\ in.operation # parent.fault
    /\ in.kind = "chaos_policy" => parent.fault = ""
    /\ in.kind = "model" =>
          /\ in.changes
          /\ in.calls # {} => \A k \in Targets(in, parent.events) : decisionOf(parent.events, k) > 0

PlansOf(in, events) ==
    SetToSortSeq({[event |-> EventOf(in, events, k), intervention |-> in.id] : k \in Targets(in, events)}
                     \ {[event |-> 0, intervention |-> in.id]},
                 LAMBDA x, y : x.event < y.event)

planForks(set, events) == FoldLeft(LAMBDA plans, in : plans \o PlansOf(in, events), << >>, set)

(* Prepare: a completed run that its judge fails, and every fork possible. *)
Prepared(set, parent) ==
    /\ set # << >>
    /\ parent.status = "completed"
    /\ ~parent.passed
    /\ \A k \in DOMAIN set : Plannable(set[k], parent)
    /\ planForks(set, parent.events) # << >>

(* runFork's outcomes: "passed" and "failed" of a completed fork, "paused" *)
(* of one that did not complete, "errored" of one whose execution failed.  *)
ForkOutcomes == {"passed", "failed", "paused", "errored"}

Count(outcomes, kind) == Cardinality({k \in DOMAIN outcomes : outcomes[k] = kind})

(* A plan's outcomes, one for each trial, tallied. *)
Tally(plan, outcomes) ==
    [event |-> plan.event, intervention |-> plan.intervention, forks |-> Len(outcomes),
     changed |-> Count(outcomes, "passed"), errored |-> Count(outcomes, "errored"),
     incomplete |-> Count(outcomes, "paused")]

(* By the share of forks that changed the outcome, then by their number,   *)
(* then by place, then by identifier.                                      *)
RankedBefore(x, y) ==
    IF x.changed * y.forks # y.changed * x.forks THEN x.changed * y.forks > y.changed * x.forks
    ELSE IF x.changed # y.changed THEN x.changed > y.changed
    ELSE IF x.event # y.event THEN x.event < y.event
    ELSE x.intervention < y.intervention

(* Analysis.Run: the candidates, best first. *)
Ranked(plans, outcomes) ==
    SortSeq([k \in DOMAIN plans |-> Tally(plans[k], outcomes[k])], RankedBefore)
===============================================================================
