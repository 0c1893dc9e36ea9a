------------------------------ MODULE ExecAgent -------------------------------
(* One turn of the exec provider: a process started for the turn, its       *)
(* bounded output, what it may start itself, and the three events the turn  *)
(* waits for: the process waited for, the output limit passed, the attempt  *)
(* over. In container mode the process is the docker client.                *)
EXTENDS Adapters

CONSTANT MaxAgentOutput   \* MaxAgentOutputBytes, in writes

VARIABLES
    ctx,      \* the caller's context and the attempt's deadline
    proc,     \* the turn's process, what it started and the turn's stage
    answer    \* the outcome of the attempt, once there is one

Pending == [res |-> "pending"]

(* agent: "absent", "running", "ok" or "failed"; helper: a process the     *)
(* agent started, in its group or escaped from it; holds: that process     *)
(* keeps the output open.                                                  *)
NoProcess ==
    [stage |-> "idle", agent |-> "absent", helper |-> "none", holds |-> FALSE, out |-> 0, over |-> FALSE,
     wrapped |-> FALSE, container |-> FALSE, removal |-> "none", cause |-> "none"]

Alive == proc.stage \in {"running", "stopping"}

(* No process is started for a caller who has gone or from a blank command *)
(* word, and starting one may fail.                                        *)
StartAgent(command, wrapped) ==
    /\ proc.stage = "idle" /\ answer = Pending
    /\ \/ /\ ctx.caller # "live"
          /\ answer' = Failure("cancelled")
          /\ proc' = NoProcess
       \/ /\ ctx.caller = "live"
          /\ answer' = Failure("start")
          /\ proc' = NoProcess
       \/ /\ ctx.caller = "live" /\ command # "blank"
          /\ proc' = [NoProcess EXCEPT !.stage = "running", !.agent = "running",
                                       !.wrapped = wrapped, !.container = wrapped]
          /\ UNCHANGED answer
    /\ UNCHANGED ctx

(***************************************************************************)
(* The program and what it starts.                                         *)
(***************************************************************************)
(* boundedBuffer: the write that would pass the limit is refused and every *)
(* later one with it.                                                      *)
AgentWrites ==
    /\ Alive /\ ~proc.over
    /\ proc.agent = "running" \/ (proc.helper # "none" /\ proc.holds)
    /\ proc' = IF proc.out < MaxAgentOutput THEN [proc EXCEPT !.out = @ + 1] ELSE [proc EXCEPT !.over = TRUE]
    /\ UNCHANGED <<ctx, answer>>

AgentForks(helper, holds) ==
    /\ Alive /\ proc.agent = "running" /\ proc.helper = "none"
    /\ proc' = [proc EXCEPT !.helper = helper, !.holds = holds]
    /\ UNCHANGED <<ctx, answer>>

(* A docker client that fails may leave its container behind. *)
AgentEnds(status, leaves) ==
    /\ Alive /\ proc.agent = "running"
    /\ leaves => status = "failed"
    /\ proc' = [proc EXCEPT !.agent = status, !.container = @ /\ leaves]
    /\ UNCHANGED <<ctx, answer>>

HelperEnds ==
    /\ Alive /\ proc.helper # "none"
    /\ proc' = [proc EXCEPT !.helper = "none"]
    /\ UNCHANGED <<ctx, answer>>

(***************************************************************************)
(* The turn.                                                               *)
(***************************************************************************)
killProcessGroup(p) ==
    [p EXCEPT !.agent = IF @ = "running" THEN "failed" ELSE @, !.helper = IF @ = "group" THEN "none" ELSE @]

(* What cmd.Wait reports. A process that still holds the output is waited  *)
(* for WaitDelay and no longer.                                            *)
WaitError(p) ==
    IF p.agent = "failed" THEN "exit"
    ELSE IF p.helper # "none" /\ p.holds THEN "delay"
    ELSE "none"

(* Mutant: what a finished agent left in its group is not killed. *)
MutSelectWaited ==
    /\ proc.stage = "running" /\ proc.agent # "running"
    /\ proc' = [proc EXCEPT !.stage = "waited", !.cause = WaitError(proc)]
    /\ UNCHANGED <<ctx, answer>>

SelectWaited ==
    /\ proc.stage = "running" /\ proc.agent # "running"
    /\ proc' = [killProcessGroup(proc) EXCEPT !.stage = "waited", !.cause = WaitError(proc)]
    /\ UNCHANGED <<ctx, answer>>

SelectExceeded ==
    /\ proc.stage = "running" /\ proc.over
    /\ proc' = [proc EXCEPT !.stage = "stopping", !.cause = "overflow"]
    /\ UNCHANGED <<ctx, answer>>

SelectDone ==
    /\ proc.stage = "running" /\ (ctx.caller # "live" \/ ctx.attempt = "expired")
    /\ proc' = [proc EXCEPT !.stage = "stopping", !.cause = "done"]
    /\ UNCHANGED <<ctx, answer>>

(* SIGTERM has been sent; the process ends within the grace period or is   *)
(* killed after it, and is reaped either way.                              *)
stopProcessGroup ==
    /\ proc.stage = "stopping"
    /\ proc' = [killProcessGroup(proc) EXCEPT !.stage = "killed"]
    /\ UNCHANGED <<ctx, answer>>

(* docker rm -f, on a context of its own, best effort. *)
removeContainer(removed) ==
    /\ proc.stage = "killed"
    /\ ~removed => proc.wrapped
    /\ proc' = [proc EXCEPT !.stage = "removed", !.container = @ /\ ~removed,
                            !.removal = IF removed THEN "done" ELSE "failed"]
    /\ UNCHANGED <<ctx, answer>>

CutShort(deadline) ==
    /\ proc.stage = "removed"
    /\ answer' = IF proc.cause = "overflow" THEN Failure("overflow") ELSE interrupted(ctx, deadline)
    /\ proc' = [proc EXCEPT !.stage = "idle"]
    /\ UNCHANGED ctx

(* The response document: the fields the protocol requires, a usage object *)
(* that is whole when it is there, and nothing after the object.           *)
decodeExecResponse(response) ==
    /\ response.json /\ ~response.trailing
    /\ response.protocol = "twinwright.agent.v1"
    /\ response.content # "absent"
    /\ response.calls # "absent" /\ response.calls # "short"
    /\ response.usage \in {"absent", "whole"}

ExecTurn(response) ==
    IF ~decodeExecResponse(response) THEN Failure("protocol")
    ELSE IF response.calls # "none" THEN Turn(response.calls)
    ELSE IF response.content = "" THEN Failure("empty")
    ELSE Turn(response.content)

JudgeAgent(p, response) ==
    IF p.over THEN Failure("overflow")
    ELSE IF p.cause # "none" THEN Failure(p.cause)
    ELSE IF p.out = 0 THEN Failure("silent")
    ELSE ExecTurn(response)

ReadResponse(response) ==
    /\ proc.stage = "waited"
    /\ answer' = JudgeAgent(proc, response)
    /\ proc' = [proc EXCEPT !.stage = "idle"]
    /\ UNCHANGED ctx
===============================================================================
