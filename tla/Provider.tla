------------------------------- MODULE Provider -------------------------------
(* A run's model calls: openProvider, the runner's callProvider loop of at  *)
(* most two attempts per turn, the three HTTP adapters over the network     *)
(* with or without a recording, the exec adapter, and the replay of a       *)
(* completed run through its own adapter and cassette.                      *)
(*                                                                          *)
(* The network, the agent program, the deadline timer and the caller are    *)
(* the environment: each may act between any two steps of the attempt.      *)
EXTENDS OpenProvider, ExecAgent

CONSTANTS
    Configs,       \* configurations a command may be started with
    Trips,         \* what a server may answer, per adapter
    Responses,     \* what an agent program may write
    MaxTurns,      \* model turns of a run
    ReplayDelay    \* clock at replay, when the run was at 0

(* What flags, environment and run say of a provider. *)
ASSUME ConfigsAssumption ==
    Configs \subseteq
        [name : STRING, model : STRING, key : BOOLEAN, baseURL : STRING, timeout : Int, maxTokens : Int,
         record : BOOLEAN, cassette : BOOLEAN, command : STRING, env : STRING, container : STRING, mount : BOOLEAN]

(* net/http takes any status of three digits. A status line of 000 is left *)
(* out: status 0 stands for no response.                                   *)
ASSUME TripsAssumption ==
    \A name \in Adapters : \A trip \in Trips[name] : trip.status \in 1..999

VARIABLES
    cfg,       \* the configuration in force
    phase,     \* of the command: opening, live, how it ended, or the replay
    call,      \* callProvider: stage of the attempt, its number, what is recorded
    file,      \* the cassette
    next,      \* exchanges the replay has served
    history,   \* the transcript: the turns so far
    ledger,    \* outcome and interruptions of each turn
    original,  \* the ledger of the run being replayed
    drift,     \* turn from which the replay's transcript differs, 0 for none
    told,      \* responses handed to the adapter while recording
    late       \* attempts begun after the caller went away

session == <<cfg, history, ledger, original, drift, next>>
vars == <<ctx, proc, answer, cfg, phase, call, file, next, history, ledger, original, drift, told, late>>

Fresh == [caller |-> "live", attempt |-> "live"]
NewCall == [stage |-> "attempt", attempt |-> 1, recorded |-> << >>, trip |-> NoResponse]
NoFile == NewRecordingTransport("", "", 0)

Init ==
    /\ ctx = Fresh /\ proc = NoProcess /\ answer = Pending
    /\ cfg \in Configs
    /\ phase = "opening"
    /\ call = NewCall /\ file = NoFile /\ next = 0
    /\ history = << >> /\ ledger = << >> /\ original = << >> /\ drift = 0
    /\ told = << >> /\ late = 0

Live == phase = "live"
Hosted == cfg.name \in Adapters
Recording == cfg.record

(* The command opens its provider, or is refused before anything exists.   *)
(* served is a command that found the provider in the ledger, and never    *)
(* records; the scripted fixtures are modelled in Fixtures.                *)
OpenSession(served) ==
    /\ phase = "opening"
    /\ LET c == IF served THEN forRun(cfg) ELSE cfg
           opens == IF served THEN selectProvider(c, file) ELSE openProvider(c, file) IN
        /\ phase' = IF ~opens THEN "refused" ELSE IF c.name = "scripted" THEN "scripted" ELSE "live"
        /\ cfg' = c
        /\ file' = IF phase' = "live" /\ c.record THEN NewRecordingTransport(c.name, c.model, c.maxTokens) ELSE file
    /\ UNCHANGED <<ctx, proc, answer, call, next, history, ledger, original, drift, told, late>>

(***************************************************************************)
(* The environment of an attempt.                                          *)
(***************************************************************************)
InAttempt == answer = Pending /\ (call.stage \in {"wire", "write", "answered"} \/ proc.stage # "idle")

DeadlinePasses ==
    /\ Live /\ InAttempt /\ ctx.attempt = "live"
    /\ ctx' = [ctx EXCEPT !.attempt = "expired"]
    /\ UNCHANGED <<proc, answer, phase, call, file, told, late, session>>

CallerCancels ==
    /\ Live /\ ctx.caller = "live"
    /\ ctx' = [ctx EXCEPT !.caller = "cancelled"]
    /\ UNCHANGED <<proc, answer, phase, call, file, told, late, session>>

(***************************************************************************)
(* An attempt of an HTTP adapter.                                          *)
(***************************************************************************)
Begins == late' = IF ctx.caller = "live" THEN late ELSE late + 1

SendRequest ==
    /\ Live /\ Hosted /\ call.stage = "attempt" /\ answer = Pending
    /\ Begins
    /\ call' = IF Recording /\ ~usable(file) THEN [call EXCEPT !.stage = "answered", !.trip = NoResponse]
               ELSE [call EXCEPT !.stage = "wire"]
    /\ UNCHANGED <<ctx, proc, answer, phase, file, told, session>>

AfterWire == IF Recording THEN "write" ELSE "answered"

TransportFails ==
    /\ Live /\ call.stage = "wire"
    /\ call' = [call EXCEPT !.stage = AfterWire, !.trip = NoResponse]
    /\ UNCHANGED <<ctx, proc, answer, phase, file, told, late, session>>

(* A whole response needs the attempt to be alive when it arrives; the     *)
(* body may be cut short by the connection or by the attempt's end.        *)
ResponseArrives(trip) ==
    /\ Live /\ call.stage = "wire"
    /\ ~trip.cut => ctx = Fresh
    /\ call' = [call EXCEPT !.stage = AfterWire, !.trip = trip]
    /\ UNCHANGED <<ctx, proc, answer, phase, file, told, late, session>>

(* RecordingTransport: the exchange is on its way to disk before the       *)
(* adapter sees the response.                                              *)
RecordExchange(written) ==
    /\ Live /\ call.stage = "write"
    /\ LET served == Served(file, call.trip, written) IN
        /\ call' = [call EXCEPT !.stage = "answered", !.trip = served]
        /\ told' = IF served.status = 0 THEN told ELSE Append(told, served)
    /\ file' = record(file, Exchange(RequestFor(cfg.name, cfg.model, cfg.maxTokens, history), call.trip), written)
    /\ UNCHANGED <<ctx, proc, answer, phase, late, session>>

Judge ==
    /\ Live /\ call.stage = "answered" /\ answer = Pending
    /\ answer' = JudgeTrip(cfg.name, call.trip, ctx, 0, cfg.timeout)
    /\ UNCHANGED <<ctx, proc, phase, call, file, told, late, session>>

(***************************************************************************)
(* An attempt of the exec adapter.                                         *)
(***************************************************************************)
ExecBegins ==
    /\ Live /\ ~Hosted /\ call.stage = "attempt" /\ answer = Pending
    /\ Begins
    /\ StartAgent(cfg.command, cfg.container # "none")
    /\ call' = [call EXCEPT !.stage = "process"]
    /\ UNCHANGED <<phase, file, told, session>>

ExecSteps ==
    \/ AgentWrites
    \/ \E helper \in {"group", "escaped"}, holds \in BOOLEAN : AgentForks(helper, holds)
    \/ \E status \in {"ok", "failed"}, leaves \in BOOLEAN : AgentEnds(status, leaves)
    \/ HelperEnds
    \/ SelectWaited
    \/ SelectExceeded
    \/ SelectDone
    \/ stopProcessGroup
    \/ \E removed \in BOOLEAN : removeContainer(removed)
    \/ CutShort(cfg.timeout)
    \/ \E response \in Responses : ReadResponse(response)

ExecStep ==
    /\ Live /\ call.stage = "process" /\ answer = Pending
    /\ ExecSteps
    /\ UNCHANGED <<phase, call, file, told, late, session>>

(***************************************************************************)
(* callProvider and the run around it.                                     *)
(***************************************************************************)
Proposes(msg) == msg # "final"

(* A turn ends: the run goes on, completes, or stops. *)
TurnEnds(outcome, interruptions) ==
    /\ ledger' = Append(ledger, [out |-> outcome, interruptions |-> interruptions])
    /\ history' = IF outcome.res = "turn" THEN Append(history, outcome.msg) ELSE history
    /\ phase' = IF phase = "replaying" /\ (outcome.res # "turn" \/ ~Proposes(outcome.msg)) THEN "replayed"
                ELSE IF outcome.res # "turn" THEN "failed"
                ELSE IF ~Proposes(outcome.msg) THEN "completed"
                ELSE IF Len(ledger) + 1 >= MaxTurns THEN "spent"
                ELSE phase
    /\ call' = NewCall
    /\ ctx' = [ctx EXCEPT !.attempt = "live"]

Retry(recorded) ==
    /\ call' = [NewCall EXCEPT !.attempt = call.attempt + 1, !.recorded = recorded]
    /\ ctx' = [ctx EXCEPT !.attempt = "live"]
    /\ UNCHANGED <<ledger, history, phase>>

(* An interrupted attempt. The replay's Sleep waits for nothing. *)
Interrupted(recorded) ==
    \/ /\ call.attempt >= providerAttempts
       /\ TurnEnds(Failure("interrupted"), recorded)
    \/ /\ call.attempt < providerAttempts
       /\ wait(answer) > 0 /\ ctx.caller # "live"
       /\ TurnEnds(Failure("cancelled"), recorded)
    \/ /\ call.attempt < providerAttempts
       /\ wait(answer) > 0 /\ ctx.caller = "live" /\ Live
       /\ call' = [call EXCEPT !.stage = "sleep", !.recorded = recorded]
       /\ UNCHANGED <<ctx, ledger, history, phase>>
    \/ /\ call.attempt < providerAttempts
       /\ wait(answer) = 0 \/ (~Live /\ ctx.caller = "live")
       /\ Retry(recorded)

callProvider ==
    /\ phase \in {"live", "replaying"} /\ answer # Pending
    /\ answer' = Pending
    /\ \/ ~IsInterruption(answer) /\ TurnEnds(answer, call.recorded)
       \/ IsInterruption(answer) /\ Interrupted(Append(call.recorded, Record(answer, call.attempt)))
    /\ UNCHANGED <<proc, cfg, file, next, original, drift, told, late>>

(* sleepContext: with the timer fired and the caller gone, either may be   *)
(* seen first.                                                             *)
SleepEnds ==
    /\ Live /\ call.stage = "sleep"
    /\ \/ Retry(call.recorded)
       \/ ctx.caller # "live" /\ TurnEnds(Failure("cancelled"), call.recorded)
    /\ UNCHANGED <<proc, answer, cfg, file, next, original, drift, told, late>>

(* The process dies. A write under way may have reached the disk whole, in *)
(* part or not at all.                                                     *)
Crash ==
    /\ Live
    /\ phase' = "crashed"
    /\ \/ UNCHANGED file
       \/ /\ call.stage = "write"
          /\ \E written \in {"whole", "part"} :
                file' = record(file, Exchange(RequestFor(cfg.name, cfg.model, cfg.maxTokens, history), call.trip), written)
    /\ UNCHANGED <<ctx, proc, answer, call, told, late, session>>

(***************************************************************************)
(* Replay of a completed run through its cassette.                         *)
(***************************************************************************)
ReplayConfig ==
    [cfg EXCEPT !.key = FALSE, !.baseURL = "none", !.maxTokens = 0, !.record = FALSE, !.cassette = TRUE,
                !.command = "none", !.env = "none", !.container = "none", !.mount = FALSE]

(* The command that ran has closed its recording. from is the turn from    *)
(* which the world of the replay answers the tools differently.            *)
OpenReplay(from) ==
    /\ phase = "completed" /\ Recording
    /\ file' = Close(file)
    /\ IF openProvider(ReplayConfig, file)
       THEN /\ phase' = "replaying"
            /\ cfg' = Opened(ReplayConfig, file)
       ELSE /\ phase' = "unplayable"
            /\ cfg' = ReplayConfig
    /\ original' = ledger /\ ledger' = << >> /\ history' = << >>
    /\ drift' = from /\ next' = 0 /\ ctx' = Fresh /\ call' = NewCall
    /\ UNCHANGED <<proc, answer, told, late>>

Transcript == IF drift # 0 /\ Len(history) + 1 >= drift THEN <<"drifted">> \o history ELSE history

ReplayAttempt ==
    /\ phase = "replaying" /\ answer = Pending
    /\ LET request == RequestFor(cfg.name, cfg.model, cfg.maxTokens, Transcript) IN
        /\ answer' = JudgeTrip(cfg.name, PlayRoundTrip(file, next, request), ctx, ReplayDelay, cfg.timeout)
        /\ next' = PlayCursor(file, next, request)
    /\ UNCHANGED <<ctx, proc, phase, call, file, told, late, cfg, history, ledger, original, drift>>

Next ==
    \/ \E served \in BOOLEAN : OpenSession(served)
    \/ DeadlinePasses
    \/ CallerCancels
    \/ SendRequest
    \/ TransportFails
    \/ \E trip \in Trips[cfg.name] : ResponseArrives(trip)
    \/ \E written \in {"whole", "part", "none"} : RecordExchange(written)
    \/ Judge
    \/ ExecBegins
    \/ ExecStep
    \/ callProvider
    \/ SleepEnds
    \/ Crash
    \/ \E from \in 0..MaxTurns : OpenReplay(from)
    \/ ReplayAttempt

Spec == Init /\ [][Next]_vars

(***************************************************************************)
(* Properties.                                                             *)
(***************************************************************************)
(* What the cassette format says it cannot reproduce: a deadline that      *)
(* passed, and a Retry-After given as a date.                              *)
TimedOut ==
    \E n \in DOMAIN original : \E i \in DOMAIN original[n].interruptions :
        original[n].interruptions[i].kind = "timeout"
Irreproducible == TimedOut \/ \E n \in DOMAIN told : told[n].retryAfter.form = "date"

Equipped ==
    phase \in {"live", "replaying"} /\ ~CanAsk(cfg) =>
        cfg.name = "exec" /\ cfg.command = "blank" /\ proc = NoProcess /\ history = << >>

Playable == phase = "unplayable" => TimedOut /\ \E n \in DOMAIN told : told[n].status \notin 100..599

SameTurns ==
    /\ phase = "replayed" /\ drift = 0 /\ ~Irreproducible => ledger = original
    /\ phase = "replayed" /\ drift \in DOMAIN original => ledger[Len(ledger)].out.res = "error"
    /\ phase \in {"replaying", "replayed"} =>
        \A n \in DOMAIN ledger : ledger[n].out.res = "turn" => ledger[n].out = original[n].out

(* A provider that was opened has what its adapter demands on every         *)
(* attempt, but for an agent command whose first word is a quoted nothing:  *)
(* that one opens, runs no process and gets no turn. The cassette of a      *)
(* completed run opens for its replay, with no key and no flags, unless an  *)
(* attempt that passed its deadline left a status in it that LoadCassette   *)
(* does not read. The replay through the adapter then yields the same turns *)
(* with the same recorded interruptions, except where the format says it    *)
(* cannot; from a transcript that differs it accepts no turn; and a turn it *)
(* does accept is the one the run recorded, whatever happened (cassette.go, *)
(* providers.go openProvider, exec.go Next, runner.go callProvider).        *)
PlaybackFaithful == Equipped /\ Playable /\ SameTurns

(* The lines that hold a response, and which response each of them holds. *)
Answered(f) == {n \in DOMAIN f.lines : f.lines[n].status # 0}
Rank(f, n) == Cardinality({m \in Answered(f) : m <= n})

(* Every response the adapter was given while recording is in the file, in  *)
(* order, whatever write failed and wherever the process died; only a line  *)
(* written in part, or a status outside 100..599, which is recorded as it   *)
(* came, makes the file unreadable (RecordingTransport.RoundTrip, record,   *)
(* LoadCassette).                                                           *)
ToldIsRecorded ==
    phase # "opening" /\ Recording /\ phase # "refused" =>
        /\ Cardinality(Answered(file)) \in {Len(told), Len(told) + 1}
        /\ Cardinality(Answered(file)) > Len(told) => phase = "crashed"
        /\ \A n \in Answered(file) : Rank(file, n) \in DOMAIN told =>
            LET response == told[Rank(file, n)] IN
            /\ file.lines[n].status = response.status /\ file.lines[n].body = response.body
            /\ file.lines[n].error = response.cut
        /\ LoadCassette(file) <=> ~file.torn /\ \A n \in Answered(file) : file.lines[n].status \in 100..599

(* Once the caller has gone, at most one more attempt begins, and a turn    *)
(* is never reported as failed by the provider's interruptions unless both  *)
(* attempts were made for a caller that was still there when they began     *)
(* (interrupt.go interrupted, requestFailed, sleepContext; callProvider).   *)
CancelEndsCall ==
    /\ late <= 1
    /\ \A n \in DOMAIN ledger : ledger[n].out = Failure("interrupted") => late = 0

(* However a turn of an agent process ends, neither the agent nor anything  *)
(* left in its group is running afterwards, output over the limit is never  *)
(* accepted, and a container is left behind only when its removal failed or *)
(* when the docker client had ended by itself (exec.go Next,                *)
(* stopProcessGroup, removeContainer).                                      *)
ExecLeavesNothing ==
    answer # Pending =>
        /\ proc.agent # "running" /\ proc.helper # "group"
        /\ proc.container => proc.removal = "failed" \/ (proc.removal = "none" /\ proc.agent = "failed")
        /\ answer.res = "turn" => ~proc.over /\ proc.agent \in {"ok", "absent"}
===============================================================================
