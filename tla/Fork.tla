--------------------------------- MODULE Fork ---------------------------------
(***************************************************************************)
(* Forking a run at a checkpoint: internal/fork (fork.go, observation.go,  *)
(* replay.go) with checkpoint.List and Reconstruct.                        *)
(*                                                                         *)
(* The parent and the child are two agent loops, each a Runner of its own. *)
(* The fork command reads the parent in several steps and writes the child *)
(* in one transaction, while the parent may be resumed at any time.        *)
(***************************************************************************)
EXTENDS Checkpoint, Replay

CONSTANTS
    Procs, Turns, Configs, MaxTurns,   \* see Runner
    parentSteps, childSteps,           \* model turns per execution of each run
    ParentFence, ChildFence,           \* bounds: executions of each run
    Options                            \* what a fork may be asked to change

VARIABLES
    pcfg, pdb, pfence, pproc,   \* the parent run
    ccfg, cdb, cfence, cproc,   \* the child run, once there is one
    fork,                       \* the fork command in progress
    lineage,                    \* fork_lineage and fork_observations
    past                        \* the parent's rows at each boundary (history)

parent == <<pcfg, pdb, pfence, pproc>>
child == <<ccfg, cdb, cfence, cproc>>
vars == <<parent, child, fork, lineage, past>>

Parent == INSTANCE Runner WITH cfg <- pcfg, db <- pdb, fence <- pfence, proc <- pproc,
                               maxSteps <- parentSteps, MaxFence <- ParentFence

Child == INSTANCE Runner WITH cfg <- ccfg, db <- cdb, fence <- cfence, proc <- cproc,
                              maxSteps <- childSteps, MaxFence <- ChildFence

NoRows == << >>

(* No options: everything is inherited. *)
Unchanged ==
    [chaosReplaced |-> FALSE, chaos |-> << >>, authReplaced |-> FALSE, auth |-> << >>,
     faultGiven |-> FALSE, fault |-> NoFault, observed |-> FALSE, observation |-> << >>]

NoFork == [pc |-> "none", seq |-> 0, prefix |-> << >>, tip |-> 0, options |-> Unchanged,
           rebuilt |-> NoRows]

NoLineage == [seq |-> 0, prefix |-> << >>, chaosReplaced |-> FALSE, authReplaced |-> FALSE,
              observed |-> FALSE, observation |-> << >>]

Forked == lineage.seq # 0

Init ==
    /\ Parent!Init
    /\ ccfg = pcfg /\ cdb = NoRows /\ cfence = 0 /\ cproc = pproc
    /\ fork = NoFork
    /\ lineage = NoLineage
    /\ past = {}

(***************************************************************************)
(* The child's rows.                                                       *)
(***************************************************************************)

(* ValidateOptions. *)
ValidateOptions(o) == ~(o.chaosReplaced /\ o.faultGiven /\ o.fault # NoFault)

(* prepareObservation: the checkpoint is the response to the named call. *)
prepareObservation(events, n, o) ==
    o.observed => events[n].type = "tool.response" /\ events[n].call = o.observation.call

(* applyObservation: the last message of the transcript. *)
applyObservation(transcript, observation) ==
    [transcript EXCEPT ![Len(transcript)].status = observation.answer.status,
                       ![Len(transcript)].body = observation.answer.body]

(* Mutant: only the transcript is rewritten. *)
MutOverrideNothing(results, observation) == results

overrideToolResult(results, observation) ==
    {IF r.call.id = observation.call THEN [r EXCEPT !.answer = observation.answer] ELSE r :
        r \in results}

ForkEvents(n, o, response) ==
    <<[type |-> "execution.forked", seq |-> n]>> \o
    IF o.observed
    THEN <<[type |-> "observation.overridden", call |-> o.observation.call,
            original |-> response.status, status |-> o.observation.answer.status,
            body |-> o.observation.answer.body]>>
    ELSE << >>

(* A replacement chaos policy also clears the legacy fault. *)
ChildConfig(cfg, o) ==
    [cfg EXCEPT
        !.chaos = IF o.chaosReplaced THEN o.chaos ELSE @,
        !.fault = IF o.chaosReplaced THEN NoFault ELSE IF o.faultGiven THEN o.fault ELSE @,
        !.auth = IF o.authReplaced THEN o.auth ELSE @]

FreshRules(chaos) == [i \in DOMAIN chaos |-> [calls |-> 0, injections |-> 0]]

(* Mutant: a replaced policy goes on with the parent's counters. *)
MutCopyRunKeepsCallIndex(rebuilt, o) == rebuilt.callIndex

(* authz.CopyRun, or a new policy with no calls yet. *)
CopyCallIndex(rebuilt, o) == IF o.authReplaced THEN 0 ELSE rebuilt.callIndex

(* The world, the results and the policies' state at the checkpoint, under *)
(* a new name; replaced policies start from nothing, and a changed fault   *)
(* can fire again.                                                         *)
ChildRows(rebuilt, cfg, childCfg, n, o) ==
    [rebuilt EXCEPT
        !.run = "child",
        !.status = "paused",
        !.consumed = @ /\ childCfg.fault = cfg.fault,
        !.rules = IF o.chaosReplaced THEN FreshRules(childCfg.chaos) ELSE @,
        !.snapshots = IF o.chaosReplaced THEN {} ELSE @,
        !.hidden = IF o.chaosReplaced THEN {} ELSE @,
        !.callIndex = CopyCallIndex(rebuilt, o),
        !.transcript = IF o.observed THEN applyObservation(@, o.observation) ELSE @,
        !.results = IF o.observed THEN overrideToolResult(@, o.observation) ELSE @,
        !.events = ForkEvents(n, o, rebuilt.events[n])]

(***************************************************************************)
(* The fork command and Create.                                            *)
(***************************************************************************)
ForkUnchanged == UNCHANGED <<parent, child, lineage, past>>

(* The command lists the parent's checkpoints, selects one and checks its  *)
(* options.  One child is explored.  The command also tries the            *)
(* reconstruction before it calls Create, which can only make it give up   *)
(* earlier; the counterfactual analysis calls Create without that.         *)
ForkSelect(n, o) ==
    /\ fork.pc = "none" /\ ~Forked
    /\ n \in List(pdb)
    /\ ValidateOptions(o)
    /\ fork' = [NoFork EXCEPT !.pc = "selected", !.seq = n, !.options = o,
                              !.prefix = SubSeq(pdb.events, 1, n)]
    /\ ForkUnchanged

(* Create notes how long the parent's ledger is.  A refusal, here or       *)
(* later, ends the command with nothing written.                           *)
ForkBegin ==
    /\ fork.pc = "selected"
    /\ fork' = IF prepareObservation(pdb.events, fork.seq, fork.options)
               THEN [fork EXCEPT !.pc = "begun", !.tip = Len(pdb.events)]
               ELSE NoFork
    /\ ForkUnchanged

Selectable(n, prefix) == n \in List(pdb) /\ SubSeq(pdb.events, 1, n) = prefix

(* Reconstruct lists the checkpoints again. *)
ForkRebuild ==
    LET run == Reconstruct(pcfg, pdb, fork.seq)
    IN  /\ fork.pc = "begun"
        /\ fork' = IF Selectable(fork.seq, fork.prefix) /\ MatchesPrefix(run, pdb, fork.seq)
                   THEN [fork EXCEPT !.pc = "rebuilt", !.rebuilt = run.db]
                   ELSE NoFork
        /\ ForkUnchanged

(* verifySourceInTransaction. *)
SourceUnchanged ==
    /\ pdb.status \in {"paused", "completed"}
    /\ Len(pdb.events) = fork.tip
    /\ SubSeq(pdb.events, 1, fork.seq) = fork.prefix

(* Mutant: the flag is set by comparing the policies. *)
MutLineageByPolicy(o) ==
    [seq |-> fork.seq, prefix |-> fork.prefix, chaosReplaced |-> o.chaosReplaced /\ o.chaos # pcfg.chaos,
     authReplaced |-> o.authReplaced, observed |-> o.observed, observation |-> o.observation]

Lineage(o) ==
    [seq |-> fork.seq, prefix |-> fork.prefix, chaosReplaced |-> o.chaosReplaced,
     authReplaced |-> o.authReplaced, observed |-> o.observed, observation |-> o.observation]

(* The transaction that writes the child, the lineage and the checkpoint. *)
ForkCommit ==
    /\ fork.pc = "rebuilt"
    /\ SourceUnchanged
    /\ ccfg' = ChildConfig(pcfg, fork.options)
    /\ cdb' = ChildRows(fork.rebuilt, pcfg, ccfg', fork.seq, fork.options)
    /\ lineage' = Lineage(fork.options)
    /\ fork' = NoFork
    /\ UNCHANGED <<parent, cfence, cproc, past>>

ForkRefused ==
    /\ fork.pc = "rebuilt"
    /\ ~SourceUnchanged
    /\ fork' = NoFork
    /\ ForkUnchanged

(***************************************************************************)
(* The two runs.                                                           *)
(***************************************************************************)
Remember ==
    past' = past \cup
        {[seq |-> n, rows |-> pdb'] :
            n \in {k \in {Len(pdb'.events)} : pdb' # pdb /\ pdb'.events[k].type \in Boundary}}

RunParent == Parent!Next /\ Remember /\ UNCHANGED <<child, fork, lineage>>

RunChild == Forked /\ Child!Next /\ UNCHANGED <<parent, fork, lineage, past>>

Next ==
    \/ \E o \in Options : \E n \in DOMAIN pdb.events : ForkSelect(n, o)
    \/ ForkBegin
    \/ ForkRebuild
    \/ ForkCommit
    \/ ForkRefused
    \/ RunParent
    \/ RunChild

Spec == Init /\ [][Next]_vars

(***************************************************************************)
(* Replay of a fork.                                                       *)
(***************************************************************************)

(* What the lineage and the child's own policies say was changed. *)
RecordedOptions ==
    [chaosReplaced |-> lineage.chaosReplaced, chaos |-> ccfg.chaos,
     authReplaced |-> lineage.authReplaced, auth |-> ccfg.auth,
     faultGiven |-> TRUE, fault |-> ccfg.fault,
     observed |-> lineage.observed, observation |-> lineage.observation]

ReconstructForReplay(rebuilt) ==
    ChildRows(rebuilt, pcfg, ccfg, lineage.seq, RecordedOptions)

SameOrigin(start) ==
    /\ cdb.events[1] = start.events[1]
    /\ Reproduces(Reexecute(ccfg, start, Responses(cdb.events)), cdb)

VerifiedFrom(run) ==
    /\ MatchesPrefix(run, pdb, lineage.seq)
    /\ SameOrigin(ReconstructForReplay(run.db))

VerifiedFork ==
    /\ Readable(cdb, "execution.forked")
    /\ Selectable(lineage.seq, lineage.prefix)
    /\ VerifiedFrom(Reconstruct(pcfg, pdb, lineage.seq))

(***************************************************************************)
(* Properties.                                                             *)
(***************************************************************************)

Exactly(run, n) == MatchesPrefix(run, pdb, n) /\ [seq |-> n, rows |-> run.db] \in past

(* Every checkpoint List offers can be reconstructed, and gives exactly    *)
(* the rows the run had when that event was committed, through crashes,    *)
(* interruptions, pauses and injected faults (Reconstruct).                *)
CheckpointsRebuild == \A n \in List(pdb) : Exactly(Reconstruct(pcfg, pdb, n), n)

Unstarted == cdb.events[Len(cdb.events)].type \in {"execution.forked", "observation.overridden"}

(* A child begins with the world and the turns its parent had at the       *)
(* checkpoint, whatever the parent has done since.  Only what was replaced *)
(* starts afresh, and an overridden observation changes that one answer.   *)
ForkStartsAtCheckpoint ==
    Forked /\ Unstarted => \E s \in past :
        /\ s.seq = lineage.seq
        /\ cdb.world = s.rows.world
        /\ cdb.step = s.rows.step
        /\ Len(cdb.transcript) = Len(s.rows.transcript)
        /\ \A i \in DOMAIN cdb.transcript :
              cdb.transcript[i] = s.rows.transcript[i]
                \/ (lineage.observed /\ i = Len(cdb.transcript))
        /\ {r.call : r \in cdb.results} = {r.call : r \in s.rows.results}
        /\ cdb.callIndex = IF lineage.authReplaced THEN 0 ELSE s.rows.callIndex
        /\ ~lineage.chaosReplaced =>
              <<cdb.rules, cdb.snapshots, cdb.hidden>>
                = <<s.rows.rules, s.rows.snapshots, s.rows.hidden>>

(* A completed fork replays to what is recorded, as long as its parent can *)
(* still be listed: the lineage remembers everything its start depends on. *)
ForkReplays ==
    /\ Forked
    /\ cdb.status = "completed"
    /\ Failures(cdb) = {}
    /\ lineage.seq \in List(pdb)
    => VerifiedFork

(* What the child's model was told of a call is what presenting the call   *)
(* again would return, also for an overridden observation.                 *)
TranscriptMatchesResults ==
    Forked => \A i \in DOMAIN cdb.transcript :
        cdb.transcript[i].role = "tool" =>
            \E r \in cdb.results :
                /\ r.call.id = cdb.transcript[i].call
                /\ r.answer = [status |-> cdb.transcript[i].status, body |-> cdb.transcript[i].body]

(* store.CreateRunConfigured, the run command and the counterfactual       *)
(* analysis all refuse a run with both a legacy fault and a chaos policy.  *)
FaultOrChaos == Forked => ccfg.fault = NoFault \/ ccfg.chaos = << >>
===============================================================================
