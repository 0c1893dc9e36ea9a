---------------------------- MODULE ProviderProofs ----------------------------
(***************************************************************************)
(* Proofs about Provider, for every configuration, server and agent        *)
(* program: what a caller that goes away can still cause, what an agent    *)
(* process can leave behind, what a recording holds, and what its replay   *)
(* gives back.                                                             *)
(***************************************************************************)
EXTENDS Provider, FiniteSetTheorems, TLAPS

(***************************************************************************)
(* The strengthening.                                                      *)
(***************************************************************************)
IsSeq(s) == \E S : s \in Seq(S)

Stages == {"attempt", "wire", "write", "answered", "process", "sleep"}

(* A configuration has its settings before and after a command fills it in. *)
Settings == {"name", "model", "key", "baseURL", "timeout", "maxTokens", "record", "cassette",
             "command", "env", "container", "mount"}

IsCall(c) == DOMAIN c = {"stage", "attempt", "recorded", "trip"}

(* The local variables of callProvider and of the command around it. *)
Shape ==
    /\ ctx \in [caller : {"live", "cancelled"}, attempt : {"live", "expired"}]
    /\ DOMAIN cfg = Settings
    /\ IsCall(call)
    /\ call.stage \in Stages
    /\ IsSeq(ledger)
    /\ cfg.record /\ phase \notin {"opening", "refused"} => Hosted
    /\ Live /\ call.stage \in {"wire", "write", "answered"} => Hosted
    /\ phase = "replaying" => Hosted
    /\ phase = "opening" => call.stage = "attempt"

(* An attempt that began for a caller who had gone can only be answered    *)
(* with the cancellation, which ends the turn and the run.                 *)
Doomed ==
    /\ ctx.caller # "live"
    /\ call.stage \in {"wire", "write", "answered", "process"}
    /\ call.stage \in {"write", "answered"} => call.trip.cut
    /\ call.stage = "process" => answer # Pending
    /\ answer \in {Pending, Failure("cancelled")}

LateInv ==
    /\ late \in {0, 1}
    /\ late = 1 => phase \in {"live", "failed", "crashed"}
    /\ late = 1 /\ Live => Doomed
    /\ phase \in {"opening", "live"} => \A n \in DOMAIN ledger : ledger[n].out.res = "turn"
    /\ CancelEndsCall

(* Where a turn's process, its helper and its container can be at each     *)
(* stage of the turn.                                                      *)
Causes == {"none", "exit", "delay", "overflow", "done"}

IsProc(p) ==
    p \in [stage : {"idle", "running", "stopping", "waited", "killed", "removed"},
           agent : {"absent", "running", "ok", "failed"}, helper : {"none", "group", "escaped"},
           holds : BOOLEAN, out : Nat, over : BOOLEAN, wrapped : BOOLEAN, container : BOOLEAN,
           removal : {"none", "done", "failed"}, cause : Causes]

Staged(p) ==
    /\ p.stage \in {"running", "stopping"} =>
        p.removal = "none" /\ p.agent # "absent" /\ (p.container => p.agent \in {"running", "failed"})
    /\ p.stage \in {"waited", "killed", "removed"} => p.agent \in {"ok", "failed"} /\ p.helper # "group"
    /\ p.stage = "waited" =>
        p.removal = "none" /\ (p.container => p.agent = "failed") /\ (p.cause = "none" => p.agent = "ok")
    /\ p.stage = "removed" => (p.container => p.removal = "failed")

ExecInv ==
    /\ IsProc(proc) /\ Staged(proc)
    /\ phase = "opening" \/ Hosted => proc = NoProcess
    /\ answer # Pending => proc.stage = "idle"
    /\ ExecLeavesNothing

(* A recording holds the exchanges so far, numbered, each a response or a  *)
(* failure, and is unreadable only after a failed write.                   *)
Legible(ex, n) ==
    /\ ex.seq = n
    /\ ex.status = 0 => ex.error

Titled(f) == f.header.version = CassetteVersion /\ f.header.provider # "" /\ f.header.model # ""

IsRecording(f) ==
    /\ DOMAIN f = {"header", "lines", "torn", "seq", "failed", "closed"}
    /\ Titled(f)
    /\ IsSeq(f.lines) /\ f.seq = Len(f.lines)
    /\ f.torn \in BOOLEAN /\ f.failed \in BOOLEAN
    /\ \A n \in DOMAIN f.lines : Legible(f.lines[n], n)
    /\ f.torn => f.failed

Writable(c) == c.stage = "write" /\ c.trip.status = 0 => c.trip.cut

Recorded ==
    /\ IsRecording(file)
    /\ IsSeq(told)
    /\ Writable(call)
    /\ phase # "crashed" => Cardinality(Answered(file)) = Len(told)

RecordInv ==
    /\ phase = "opening" => told = << >>
    /\ phase \notin {"opening", "refused"} /\ Recording => Recorded
    /\ ToldIsRecorded

(***************************************************************************)
(* The cassette and its replay. f is a recording, d the deadline of an     *)
(* attempt, L a ledger, and n the number of a line.                        *)
(***************************************************************************)
Contexts == [caller : {"live", "cancelled"}, attempt : {"live", "expired"}]

(* The transcript that turn j is asked with. *)
Said(L, j) == [i \in 1..(j - 1) |-> L[i].out.msg]

TripOf(line) ==
    IF line.status = 0 THEN NoResponse
    ELSE [status |-> line.status, retryAfter |-> line.retryAfter, body |-> line.body, cut |-> line.error]

Verdict(f, d, n, c, now) == JudgeTrip(f.header.provider, TripOf(f.lines[n]), c, now, d)

Asked(f, n, L, j) ==
    /\ n \in DOMAIN f.lines
    /\ f.lines[n].request = RequestFor(f.header.provider, f.header.model, f.header.maxTokens, Said(L, j))

(* Line n was interrupted, which is all its turn has recorded. *)
Tried(f, d, n, L, j, recorded) ==
    /\ Asked(f, n, L, j)
    /\ \E c \in Contexts :
        /\ IsInterruption(Verdict(f, d, n, c, 0))
        /\ recorded = <<Record(Verdict(f, d, n, c, 0), 1)>>

Settled(f, d, n, L, j) ==
    /\ Asked(f, n, L, j)
    /\ \E c \in Contexts : L[j].out = Verdict(f, d, n, c, 0)

(* Turn j is in the file from line n: one attempt, or one and its retry. *)
Taken(f, d, n, L, j) ==
    /\ L[j] = [out |-> L[j].out, interruptions |-> L[j].interruptions]
    /\ L[j].out.res = "turn"
    /\ \/ L[j].interruptions = << >> /\ Settled(f, d, n, L, j)
       \/ Tried(f, d, n, L, j, L[j].interruptions) /\ Settled(f, d, n + 1, L, j)

(* start[j] is the first line of turn j, the turn under way included. *)
Starts(f, L) == [1..(Len(L) + 1) -> 1..(Len(f.lines) + 1)]

Taped(f, d, L, start) ==
    /\ start[1] = 1
    /\ \A j \in 1..Len(L) :
        /\ Taken(f, d, start[j], L, j)
        /\ start[j + 1] = start[j] + 1 + Len(L[j].interruptions)

SameTrip(t, u) ==
    t.status = u.status /\ t.retryAfter = u.retryAfter /\ t.body = u.body /\ t.cut = u.cut

(* The turn under way while recording: c is the call, a the answer it has *)
(* got, and its lines start at b.                                          *)
UnderWay(c, a, f, d, L, b) ==
    LET j == Len(L) + 1
        tries == Len(c.recorded) IN
    /\ c.recorded = << >> \/ Tried(f, d, b, L, j, c.recorded)
    /\ c.stage = "sleep" => tries = 1 /\ c.attempt = 1
    /\ c.stage # "sleep" => c.attempt = tries + 1
    /\ c.stage # "answered" => a = Pending /\ Len(f.lines) = b - 1 + tries
    /\ c.stage = "answered" =>
        /\ Len(f.lines) = b + tries /\ Asked(f, b + tries, L, j)
        /\ SameTrip(c.trip, TripOf(f.lines[b + tries]))
        /\ a = Pending \/ \E x \in Contexts : a = Verdict(f, d, b + tries, x, 0)

(* After a write that failed nothing reaches the adapter any more. *)
Dead ==
    /\ call.stage \in {"attempt", "answered", "sleep"}
    /\ call.stage = "answered" => call.trip = NoResponse
    /\ answer.res # "turn"

(* What opening a recording has settled, which the cassette says too. *)
Ready(c, f) ==
    /\ c.name \in Adapters /\ c.timeout > 0
    /\ f.header.provider = c.name /\ f.header.model = c.model /\ f.header.maxTokens = c.maxTokens

(* The adapter was told of every status and Retry-After the file holds. *)
AllTold ==
    \A n \in DOMAIN file.lines : file.lines[n].status # 0 =>
        \E m \in DOMAIN told :
            told[m].retryAfter = file.lines[n].retryAfter /\ told[m].status = file.lines[n].status

AllPropose(L, n) == \A j \in 1..n : Proposes(L[j].out.msg)

RecordingInv ==
    /\ Ready(cfg, file) /\ AllTold
    /\ history = Said(ledger, Len(ledger) + 1)
    /\ call.stage = "write" /\ call.trip.status = 0 => call.trip = NoResponse
    /\ call.stage # "process" /\ ~file.closed
    /\ AllPropose(ledger, Len(ledger))
    /\ file.failed => Dead
    /\ ~file.failed => \E start \in Starts(file, ledger) :
        /\ Taped(file, cfg.timeout, ledger, start)
        /\ UnderWay(call, answer, file, cfg.timeout, ledger, start[Len(ledger) + 1])

CompletedInv ==
    /\ Ready(cfg, file) /\ AllTold
    /\ ~file.failed /\ Len(ledger) > 0 /\ answer = Pending
    /\ AllPropose(ledger, Len(ledger) - 1) /\ ~Proposes(ledger[Len(ledger)].out.msg)
    /\ \E start \in Starts(file, ledger) : Taped(file, cfg.timeout, ledger, start)

(* The replay is at turn j, whose lines start at b: still in step with the *)
(* recording, or drifted, when the next line is not the one it asks for.   *)
Drifted == drift # 0 /\ Len(history) + 1 >= drift

InStep(f, d, b, j) ==
    /\ call.recorded = << >> \/
        /\ Len(original[j].interruptions) = 1
        /\ ~Irreproducible => call.recorded = original[j].interruptions
    /\ answer = Pending => next + 1 = b + Len(call.recorded)
    /\ answer # Pending =>
        /\ next = b + Len(call.recorded)
        /\ answer = Verdict(f, d, next, Fresh, ReplayDelay)

ReplayInv ==
    LET k == Len(original)
        j == Len(ledger) + 1 IN
    /\ ctx = Fresh /\ cfg.name = file.header.provider /\ cfg.model = file.header.model
    /\ cfg.maxTokens = file.header.maxTokens
    /\ AllTold
    /\ IsSeq(original) /\ IsSeq(file.lines) /\ next \in Nat
    /\ j <= k /\ history = Said(original, j)
    /\ AllPropose(original, k - 1) /\ ~Proposes(original[k].out.msg)
    /\ \A i \in 1..Len(ledger) : ledger[i].out = original[i].out /\ (~Irreproducible => ledger[i] = original[i])
    /\ (call.recorded = << >> /\ call.attempt = 1) \/ (Len(call.recorded) = 1 /\ call.attempt = 2)
    /\ \E start \in Starts(file, original) :
        /\ Taped(file, cfg.timeout, original, start)
        /\ Drifted => next + 1 = start[j] /\ answer \in {Pending, CallInterrupted("transport")}
        /\ ~Drifted => InStep(file, cfg.timeout, start[j], j)

(* An agent command that opens and is then refused on every attempt. *)
Blank(c) == c.name = "exec" /\ c.command = "blank"
MayAsk(c) == CanAsk(c) \/ Blank(c)

PlayInv ==
    /\ phase = "opening" =>
        file = NoFile /\ answer = Pending /\ call = NewCall /\ ledger = << >> /\ history = << >>
    /\ phase \in {"live", "replaying"} => MayAsk(cfg)
    /\ phase = "live" /\ Recording => RecordingInv
    /\ phase = "completed" /\ Recording => CompletedInv
    /\ phase = "replaying" => ReplayInv
    /\ SameTurns

IdleInv == Live /\ Blank(cfg) => proc = NoProcess /\ history = << >> /\ answer.res # "turn"

(* A status LoadCassette does not read is the one the turn under way has    *)
(* just been answered with, or was left by an attempt that passed its       *)
(* deadline: any other outcome of it ends the run.                          *)
Odd(line) == line.status \notin {0} \cup 100..599
HasTimeout(recorded) == \E i \in DOMAIN recorded : recorded[i].kind = "timeout"
Timed(L) == \E n \in DOMAIN L : HasTimeout(L[n].interruptions)

TimedInv ==
    /\ Live /\ Recording /\ ~file.failed =>
        \/ Timed(ledger) \/ HasTimeout(call.recorded)
        \/ \A n \in DOMAIN file.lines : Odd(file.lines[n]) => call.stage = "answered" /\ n = Len(file.lines)
    /\ phase = "completed" /\ Recording =>
        Timed(ledger) \/ \A n \in DOMAIN file.lines : ~Odd(file.lines[n])
    /\ Playable

IInv == Shape /\ LateInv /\ ExecInv /\ RecordInv /\ PlayInv /\ IdleInv /\ TimedInv

(***************************************************************************)
(* Sequences, records and outcomes.                                        *)
(***************************************************************************)

(* An empty sequence is one, and so is what Append makes. *)
LEMMA EmptySeq == IsSeq(<< >>) /\ Len(<< >>) = 0 /\ DOMAIN << >> = {}
<1>1. << >> \in Seq({})
  OBVIOUS
<1> QED
  BY <1>1 DEF IsSeq

LEMMA AppendFacts ==
  ASSUME NEW s, IsSeq(s), NEW e
  PROVE  /\ IsSeq(Append(s, e))
         /\ Len(s) \in Nat /\ DOMAIN s = 1..Len(s)
         /\ Len(Append(s, e)) = Len(s) + 1
         /\ DOMAIN Append(s, e) = 1..(Len(s) + 1)
         /\ \A i \in 1..Len(s) : Append(s, e)[i] = s[i]
         /\ Append(s, e)[Len(s) + 1] = e
<1>1. PICK S : s \in Seq(S)
  BY DEF IsSeq
<1>2. s \in Seq(S \cup {e})
  BY <1>1
<1>3. Append(s, e) \in Seq(S \cup {e})
  BY <1>2
<1> QED
  BY <1>2, <1>3 DEF IsSeq

LEMMA NoResponseFacts == NoResponse.status = 0 /\ NoResponse.cut = TRUE
BY DEF NoResponse

(* The kinds of outcome are told apart by their results. *)
LEMMA Outcomes ==
  /\ \A why : Failure(why).res = "error" /\ Failure(why).why = why /\ Failure(why) # Pending
  /\ \A msg : Turn(msg).res = "turn"
  /\ Pending.res = "pending"
BY DEF Failure, Turn, Pending

LEMMA InterruptionFacts ==
  ASSUME NEW kind, NEW d
  PROVE  /\ CallInterrupted(kind).res = "interrupted" /\ CallInterrupted(kind).kind = kind
         /\ [CallInterrupted(kind) EXCEPT !.deadline = d].res = "interrupted"
         /\ [CallInterrupted(kind) EXCEPT !.deadline = d].kind = kind
<1>1. PICK reason :
        CallInterrupted(kind) = [res |-> "interrupted", kind |-> kind, reason |-> reason,
                                 deadline |-> 0, status |-> 0, retryAfter |-> 0]
  BY Zenon DEF CallInterrupted
<1> QED
  BY <1>1

(* What the adapters and the exec provider make of an attempt that was cut *)
(* short: nothing for a caller who has gone, and never a turn.             *)
LEMMA GoneIsCancelled ==
  ASSUME NEW c, c.caller # "live", NEW d
  PROVE  interrupted(c, d) = Failure("cancelled") /\ requestFailed(c, d) = Failure("cancelled")
BY DEF interrupted, requestFailed, Given

LEMMA CutIsNoTurn ==
  ASSUME NEW c, NEW d
  PROVE  interrupted(c, d).res \in {"error", "interrupted"}
<1>1. CASE c.caller = "live" /\ c.attempt = "expired"
  BY <1>1, InterruptionFacts DEF interrupted
<1>2. CASE ~(c.caller = "live" /\ c.attempt = "expired")
  BY <1>2, Outcomes DEF interrupted, Given
<1> QED
  BY <1>1, <1>2

LEMMA DoomedAnswer ==
  ASSUME NEW adapter, NEW trip, trip.cut, NEW c, c.caller # "live", NEW now, NEW d
  PROVE  JudgeTrip(adapter, trip, c, now, d) = Failure("cancelled")
BY GoneIsCancelled DEF JudgeTrip

(***************************************************************************)
(* Shape.                                                                  *)
(***************************************************************************)

(* Only a hosted adapter records. *)
LEMMA RecordersAreHosted ==
  ASSUME NEW c, NEW f, openProvider(c, f), c.record, c.name # "scripted"
  PROVE  c.name \in Adapters
BY DEF openProvider, openExecProvider, openHostedProvider

LEMMA InitShape == Init => Shape
BY ConfigsAssumption, EmptySeq DEF Init, Shape, Fresh, NewCall, IsCall, Stages, Live, Settings

LEMMA NewCallShape == IsCall(NewCall) /\ NewCall.stage = "attempt"
BY DEF NewCall, IsCall

(* The configurations a command makes of the one it was given. *)
LEMMA ForRunType ==
  ASSUME NEW c, DOMAIN c = Settings
  PROVE  DOMAIN forRun(c) = Settings /\ forRun(c).name = c.name
<1> DEFINE c4 == [c EXCEPT !.command = "none", !.env = "none", !.container = "none", !.mount = FALSE]
<1>1. DOMAIN c4 = Settings /\ c4.name = c.name
  BY DEF Settings
<1>2. forRun(c) \in {c, c4}
  BY DEF forRun
<1> QED
  BY <1>1, <1>2

LEMMA ReplayConfigType ==
  ASSUME DOMAIN cfg = Settings, NEW c, c \in {ReplayConfig, Opened(ReplayConfig, file)}
  PROVE  DOMAIN c = Settings /\ c.name = cfg.name /\ c.record = FALSE
<1> DEFINE r == ReplayConfig
           o == [r EXCEPT !.maxTokens = file.header.maxTokens, !.key = TRUE, !.baseURL = "valid"]
<1>1. DOMAIN r = Settings /\ r.name = cfg.name /\ r.record = FALSE
  BY DEF Settings, ReplayConfig
<1>2. c \in {r, o}
  BY DEF Opened
<1> HIDE DEF r
<1>3. DOMAIN o = Settings /\ o.name = r.name /\ o.record = r.record
  BY <1>1 DEF Settings
<1> QED
  BY <1>1, <1>2, <1>3

(* The end of a turn and a retry leave callProvider at an attempt. *)
LEMMA TurnEndsCall ==
  ASSUME Shape, NEW outcome, NEW interruptions, TurnEnds(outcome, interruptions)
  PROVE  /\ call' = NewCall /\ ctx' = [ctx EXCEPT !.attempt = "live"]
         /\ IsSeq(ledger')
         /\ phase' \in {phase, "replayed", "failed", "completed", "spent"}
BY AppendFacts DEF TurnEnds, Shape

LEMMA RetryCall ==
  ASSUME NEW recorded, Retry(recorded)
  PROVE  /\ IsCall(call') /\ call'.stage = "attempt"
         /\ ctx' = [ctx EXCEPT !.attempt = "live"]
         /\ UNCHANGED <<ledger, history, phase>>
BY DEF Retry, NewCall, IsCall

LEMMA NextShape == Shape /\ [Next]_vars => Shape'
<1> SUFFICES ASSUME Shape, [Next]_vars PROVE Shape'
  OBVIOUS
<1> USE DEF Shape, Stages, Live, Hosted
<1>1. ASSUME NEW served \in BOOLEAN, OpenSession(served) PROVE Shape'
  <2> DEFINE c == IF served THEN forRun(cfg) ELSE cfg
             opens == IF served THEN selectProvider(c, file) ELSE openProvider(c, file)
  <2>1. /\ phase = "opening" /\ cfg' = c /\ UNCHANGED <<ctx, call, ledger>>
        /\ phase' = IF ~opens THEN "refused" ELSE IF c.name = "scripted" THEN "scripted" ELSE "live"
    BY <1>1 DEF OpenSession
  <2>2. DOMAIN c = Settings
    BY ForRunType
  <2>3. opens => openProvider(c, file)
    BY DEF selectProvider
  <2>4. opens /\ c.record => c.name \in Adapters
    BY <2>3, RecordersAreHosted DEF openProvider
  <2> HIDE DEF c, opens
  <2> QED
    BY <2>1, <2>2, <2>4
<1>2. CASE callProvider
  <2>1. /\ phase \in {"live", "replaying"} /\ cfg' = cfg
    BY <1>2 DEF callProvider
  <2>2. ASSUME NEW o, NEW i, TurnEnds(o, i) PROVE Shape'
    BY <2>1, <2>2, TurnEndsCall, NewCallShape
  <2>3. ASSUME NEW r, Retry(r) PROVE Shape'
    BY <2>1, <2>3, RetryCall
  <2>4. ASSUME NEW r, call' = [call EXCEPT !.stage = "sleep", !.recorded = r], UNCHANGED <<ctx, ledger, phase>>
        PROVE  Shape'
    BY <2>1, <2>4 DEF IsCall
  <2>5. CASE TurnEnds(answer, call.recorded)
    BY <2>2, <2>5
  <2>6. ASSUME NEW r, Interrupted(r) PROVE Shape'
    BY <2>2, <2>3, <2>4, <2>6 DEF Interrupted
  <2> QED
    BY <1>2, <2>5, <2>6 DEF callProvider
<1>3. CASE SleepEnds
  BY <1>3, TurnEndsCall, RetryCall, NewCallShape DEF SleepEnds
<1>4. CASE SendRequest
  <2>1. /\ Live /\ Hosted /\ UNCHANGED <<ctx, phase, cfg, ledger>>
        /\ \/ call' = [call EXCEPT !.stage = "answered", !.trip = NoResponse]
           \/ call' = [call EXCEPT !.stage = "wire"]
    BY <1>4 DEF SendRequest, session
  <2> QED
    BY <2>1 DEF IsCall
<1>5. CASE TransportFails
  <2>1. /\ Live /\ call.stage = "wire" /\ UNCHANGED <<ctx, phase, cfg, ledger>>
        /\ call' = [call EXCEPT !.stage = AfterWire, !.trip = NoResponse]
    BY <1>5 DEF TransportFails, session
  <2>2. AfterWire \in {"write", "answered"}
    BY DEF AfterWire
  <2> QED
    BY <2>1, <2>2 DEF IsCall
<1>6. ASSUME NEW trip, ResponseArrives(trip) PROVE Shape'
  <2>1. /\ Live /\ call.stage = "wire" /\ UNCHANGED <<ctx, phase, cfg, ledger>>
        /\ call' = [call EXCEPT !.stage = AfterWire, !.trip = trip]
    BY <1>6 DEF ResponseArrives, session
  <2>2. AfterWire \in {"write", "answered"}
    BY DEF AfterWire
  <2> QED
    BY <2>1, <2>2 DEF IsCall
<1>7. ASSUME NEW written, RecordExchange(written) PROVE Shape'
  <2>1. /\ Live /\ call.stage = "write" /\ UNCHANGED <<ctx, phase, cfg, ledger>>
        /\ call' = [call EXCEPT !.stage = "answered", !.trip = Served(file, call.trip, written)]
    BY <1>7 DEF RecordExchange, session
  <2> QED
    BY <2>1 DEF IsCall
<1>8. CASE ExecBegins
  <2>1. /\ Live /\ ~Hosted /\ UNCHANGED <<ctx, phase, cfg, ledger>>
        /\ call' = [call EXCEPT !.stage = "process"]
    BY <1>8 DEF ExecBegins, StartAgent, session
  <2> QED
    BY <2>1 DEF IsCall
<1>9. CASE ExecStep
  <2>1. UNCHANGED <<ctx, phase, call, cfg, ledger>>
    BY <1>9 DEF ExecStep, ExecSteps, AgentWrites, AgentForks, AgentEnds, HelperEnds, SelectWaited,
                SelectExceeded, SelectDone, stopProcessGroup, removeContainer, CutShort, ReadResponse, session
  <2> QED
    BY <2>1
<1>10. CASE DeadlinePasses \/ CallerCancels
  <2>1. Live /\ UNCHANGED <<phase, call, cfg, ledger>>
    BY <1>10 DEF DeadlinePasses, CallerCancels, session
  <2>2. ctx' \in [caller : {"live", "cancelled"}, attempt : {"live", "expired"}]
    BY <1>10 DEF DeadlinePasses, CallerCancels
  <2> QED
    BY <2>1, <2>2
<1>11. CASE Judge \/ Crash \/ ReplayAttempt
  <2>1. /\ UNCHANGED <<ctx, call, cfg, ledger>> /\ phase' \in {phase, "crashed"}
        /\ phase # "opening" /\ phase # "refused"
    BY <1>11 DEF Judge, Crash, ReplayAttempt, session
  <2> QED
    BY <2>1
<1>12. ASSUME NEW from, OpenReplay(from) PROVE Shape'
  <2>1. /\ Hosted /\ ctx' = Fresh /\ call' = NewCall /\ ledger' = << >>
        /\ phase' \in {"replaying", "unplayable"}
        /\ cfg' \in {ReplayConfig, Opened(ReplayConfig, file)}
    BY <1>12 DEF OpenReplay, Recording
  <2>2. /\ DOMAIN cfg' = Settings /\ cfg'.name = cfg.name
    BY <2>1, ReplayConfigType
  <2> QED
    BY <2>1, <2>2, NewCallShape, EmptySeq DEF Fresh
<1>13. CASE UNCHANGED vars
  BY <1>13 DEF vars
<1> QED
  BY <1>1, <1>2, <1>3, <1>4, <1>5, <1>6, <1>7, <1>8, <1>9, <1>10, <1>11, <1>12, <1>13 DEF Next

(***************************************************************************)
(* A caller that goes away.                                                *)
(***************************************************************************)
LEMMA InitLate == Init => LateInv
BY EmptySeq DEF Init, LateInv, CancelEndsCall, Live

(* Nothing of the call, its caller or the ledger changes. *)
LEMMA LateKept ==
  ASSUME LateInv, UNCHANGED <<late, ledger, call, answer>>,
         ctx'.caller = ctx.caller \/ ctx'.caller # "live",
         phase' = phase \/ phase' = "crashed"
  PROVE  LateInv'
BY DEF LateInv, Doomed, CancelEndsCall, Live

(* The outcome that ends a turn is judged by the attempt it ends. *)
LEMMA TurnEndsLate ==
  ASSUME Shape, LateInv, NEW outcome, NEW interruptions, TurnEnds(outcome, interruptions),
         phase \in {"live", "replaying"}, late' = late,
         late = 1 => outcome = Failure("cancelled")
  PROVE  LateInv'
<1> DEFINE x == [out |-> outcome, interruptions |-> interruptions]
           n == Len(ledger)
<1>1. /\ ledger' = Append(ledger, x)
      /\ phase' \in {phase, "replayed", "failed", "completed", "spent"}
      /\ outcome.res # "turn" => phase' \in {"failed", "replayed"}
      /\ outcome.res # "turn" /\ phase = "live" => phase' = "failed"
  BY DEF TurnEnds
<1>2. /\ n \in Nat /\ DOMAIN ledger = 1..n /\ DOMAIN ledger' = 1..(n + 1)
      /\ \A i \in 1..n : ledger'[i] = ledger[i]
      /\ ledger'[n + 1] = x
  BY <1>1, AppendFacts DEF Shape
<1>3. x.out = outcome
  OBVIOUS
<1>4. Failure("cancelled").res = "error" /\ Failure("cancelled") # Failure("interrupted")
  BY DEF Failure
<1> HIDE DEF x, n
<1>5. CASE late = 0
  BY <1>1, <1>2, <1>3, <1>5 DEF LateInv, CancelEndsCall, Live
<1>6. CASE late = 1
  <2>1. outcome = Failure("cancelled") /\ phase = "live"
    BY <1>6 DEF LateInv
  <2>2. phase' = "failed"
    BY <1>1, <1>4, <2>1
  <2>3. \A i \in DOMAIN ledger' : ledger'[i].out # Failure("interrupted")
    BY <1>2, <1>3, <1>4, <1>6, <2>1 DEF LateInv, CancelEndsCall
  <2> QED
    BY <1>6, <2>2, <2>3 DEF LateInv, CancelEndsCall, Live
<1> QED
  BY <1>5, <1>6 DEF LateInv

LEMMA NextLate == Shape /\ Shape' /\ LateInv /\ [Next]_vars => LateInv'
<1> SUFFICES ASSUME Shape, Shape', LateInv, [Next]_vars PROVE LateInv'
  OBVIOUS
<1>1. ASSUME NEW served \in BOOLEAN, OpenSession(served) PROVE LateInv'
  <2>1. phase = "opening" /\ UNCHANGED <<late, ledger, call, answer, ctx>>
    BY <1>1 DEF OpenSession
  <2>2. late = 0
    BY <2>1 DEF LateInv
  <2> QED
    BY <2>1, <2>2 DEF LateInv, CancelEndsCall
<1>2. CASE callProvider
  <2>1. phase \in {"live", "replaying"} /\ answer # Pending /\ late' = late
    BY <1>2 DEF callProvider
  <2>2. late = 1 => answer = Failure("cancelled")
    BY <2>1 DEF LateInv, Doomed, Live
  <2>3. CASE TurnEnds(answer, call.recorded)
    BY <2>1, <2>2, <2>3, TurnEndsLate
  <2>4. ASSUME NEW r, IsInterruption(answer), Interrupted(r) PROVE LateInv'
    <3>1. late = 0
      BY <2>2, <2>4, Outcomes DEF IsInterruption, LateInv
    <3>2. ASSUME NEW o, TurnEnds(o, r) PROVE LateInv'
      BY <2>1, <3>1, <3>2, TurnEndsLate
    <3>3. CASE UNCHANGED <<ledger, phase>>
      BY <2>1, <3>1, <3>3 DEF LateInv, CancelEndsCall, Live
    <3> QED
      BY <2>4, <3>2, <3>3 DEF Interrupted, Retry
  <2> QED
    BY <1>2, <2>3, <2>4 DEF callProvider
<1>3. CASE SleepEnds
  <2>1. phase = "live" /\ call.stage = "sleep" /\ late' = late
    BY <1>3 DEF SleepEnds, Live
  <2>2. late = 0
    BY <2>1 DEF LateInv, Doomed, Live
  <2>3. ASSUME NEW o, TurnEnds(o, call.recorded) PROVE LateInv'
    BY <2>1, <2>2, <2>3, TurnEndsLate
  <2>4. CASE UNCHANGED <<ledger, phase>>
    BY <2>1, <2>2, <2>4 DEF LateInv, CancelEndsCall, Live
  <2> QED
    BY <1>3, <2>3, <2>4 DEF SleepEnds, Retry
<1>4. CASE SendRequest
  <2>1. /\ phase = "live" /\ call.stage = "attempt" /\ answer = Pending
        /\ late' = IF ctx.caller = "live" THEN late ELSE late + 1
        /\ UNCHANGED <<phase, ledger, ctx, answer>>
        /\ \/ call' = [call EXCEPT !.stage = "answered", !.trip = NoResponse]
           \/ call' = [call EXCEPT !.stage = "wire"]
    BY <1>4 DEF SendRequest, Begins, session, Live
  <2>2. late = 0
    BY <2>1 DEF LateInv, Doomed, Live
  <2>3. \/ call'.stage = "answered" /\ call'.trip = NoResponse
        \/ call'.stage = "wire"
    BY <2>1 DEF Shape, IsCall
  <2>4. CASE ctx.caller = "live"
    BY <2>1, <2>2, <2>4 DEF LateInv, CancelEndsCall, Live
  <2>5. CASE ctx.caller # "live"
    <3>1. late' = 1 /\ Doomed'
      BY <2>1, <2>2, <2>3, <2>5, NoResponseFacts DEF Doomed
    <3>2. \A n \in DOMAIN ledger : ledger[n].out.res = "turn"
      BY <2>1 DEF LateInv
    <3>3. Failure("interrupted").res # "turn"
      BY Outcomes
    <3>4. \A n \in DOMAIN ledger : ledger[n].out # Failure("interrupted")
      BY <3>2, <3>3
    <3> QED
      BY <2>1, <3>1, <3>2, <3>4 DEF LateInv, CancelEndsCall
  <2> QED
    BY <2>4, <2>5
<1>5. CASE TransportFails
  <2>1. /\ phase = "live" /\ call.stage = "wire" /\ UNCHANGED <<late, ledger, phase, ctx, answer>>
        /\ call'.stage \in {"write", "answered"} /\ call'.trip = NoResponse
    BY <1>5 DEF TransportFails, session, Live, AfterWire, Shape, IsCall
  <2> QED
    BY <2>1, NoResponseFacts DEF LateInv, CancelEndsCall, Live, Doomed
<1>6. ASSUME NEW trip, ResponseArrives(trip) PROVE LateInv'
  <2>1. /\ phase = "live" /\ call.stage = "wire" /\ UNCHANGED <<late, ledger, phase, ctx, answer>>
        /\ call'.stage \in {"write", "answered"} /\ call'.trip = trip
    BY <1>6 DEF ResponseArrives, session, Live, AfterWire, Shape, IsCall
  <2>2. ctx.caller # "live" => trip.cut
    BY <1>6 DEF ResponseArrives, Fresh
  <2> QED
    BY <2>1, <2>2 DEF LateInv, CancelEndsCall, Live, Doomed
<1>7. ASSUME NEW written, RecordExchange(written) PROVE LateInv'
  <2>1. /\ phase = "live" /\ call.stage = "write" /\ UNCHANGED <<late, ledger, phase, ctx, answer>>
        /\ call'.stage = "answered" /\ call'.trip = Served(file, call.trip, written)
    BY <1>7 DEF RecordExchange, session, Live, Shape, IsCall
  <2>2. call'.trip \in {call.trip, NoResponse}
    BY <2>1 DEF Served
  <2> QED
    BY <2>1, <2>2, NoResponseFacts DEF LateInv, CancelEndsCall, Live, Doomed
<1>8. CASE Judge
  <2>1. /\ phase = "live" /\ call.stage = "answered" /\ UNCHANGED <<late, ledger, phase, ctx, call>>
        /\ answer' = JudgeTrip(cfg.name, call.trip, ctx, 0, cfg.timeout)
    BY <1>8 DEF Judge, session, Live
  <2>2. late = 1 => answer' = Failure("cancelled")
    BY <2>1, DoomedAnswer DEF LateInv, Live, Doomed
  <2> QED
    BY <2>1, <2>2 DEF LateInv, CancelEndsCall, Live, Doomed
<1>9. CASE ExecBegins
  <2>1. /\ phase = "live" /\ call.stage = "attempt" /\ answer = Pending
        /\ late' = IF ctx.caller = "live" THEN late ELSE late + 1
        /\ UNCHANGED <<phase, ledger, ctx>>
        /\ ctx.caller # "live" => answer' = Failure("cancelled")
        /\ call'.stage = "process"
    BY <1>9 DEF ExecBegins, StartAgent, Begins, session, Live, Shape, IsCall
  <2>2. late = 0
    BY <2>1 DEF LateInv, Doomed, Live
  <2>4. CASE ctx.caller = "live"
    BY <2>1, <2>2, <2>4 DEF LateInv, CancelEndsCall, Live
  <2>5. CASE ctx.caller # "live"
    <3>1. late' = 1 /\ Doomed'
      BY <2>1, <2>2, <2>5, Outcomes DEF Doomed
    <3>2. \A n \in DOMAIN ledger : ledger[n].out.res = "turn"
      BY <2>1 DEF LateInv
    <3>3. Failure("interrupted").res # "turn"
      BY Outcomes
    <3>4. \A n \in DOMAIN ledger : ledger[n].out # Failure("interrupted")
      BY <3>2, <3>3
    <3> QED
      BY <2>1, <3>1, <3>2, <3>4 DEF LateInv, CancelEndsCall
  <2> QED
    BY <2>4, <2>5
<1>10. CASE ExecStep
  <2>1. /\ phase = "live" /\ call.stage = "process" /\ answer = Pending
        /\ UNCHANGED <<late, ledger, phase>>
    BY <1>10 DEF ExecStep, session, Live
  <2>2. late = 0
    BY <2>1 DEF LateInv, Doomed, Live
  <2> QED
    BY <2>1, <2>2 DEF LateInv, CancelEndsCall, Live
<1>11. CASE DeadlinePasses \/ CallerCancels
  <2>1. /\ UNCHANGED <<late, ledger, call, answer, phase>>
        /\ ctx'.caller = ctx.caller \/ ctx'.caller # "live"
    BY <1>11 DEF DeadlinePasses, CallerCancels, session, Shape
  <2> QED
    BY <2>1, LateKept
<1>12. CASE Crash
  BY <1>12, LateKept DEF Crash, session
<1>13. CASE ReplayAttempt
  <2>1. phase = "replaying" /\ UNCHANGED <<late, ledger, phase>>
    BY <1>13 DEF ReplayAttempt
  <2> QED
    BY <2>1 DEF LateInv, CancelEndsCall, Live
<1>14. ASSUME NEW from, OpenReplay(from) PROVE LateInv'
  <2>1. phase = "completed" /\ late' = late /\ ledger' = << >> /\ phase' \in {"replaying", "unplayable"}
    BY <1>14 DEF OpenReplay
  <2> QED
    BY <2>1, EmptySeq DEF LateInv, CancelEndsCall, Live
<1>15. CASE UNCHANGED vars
  BY <1>15, LateKept DEF vars
<1> QED
  BY <1>1, <1>2, <1>3, <1>4, <1>5, <1>6, <1>7, <1>8, <1>9, <1>10, <1>11, <1>12, <1>13, <1>14, <1>15 DEF Next

(***************************************************************************)
(* What an agent process leaves behind.                                    *)
(***************************************************************************)
LEMMA NoProcessFacts == IsProc(NoProcess) /\ Staged(NoProcess) /\ NoProcess.stage = "idle"
BY DEF NoProcess, IsProc, Staged, Causes

LEMMA InitExec == Init => ExecInv
BY NoProcessFacts DEF Init, ExecInv, ExecLeavesNothing

(* The turn's own steps. *)
LEMMA KillFacts ==
  ASSUME NEW p, IsProc(p)
  PROVE  /\ IsProc(killProcessGroup(p))
         /\ killProcessGroup(p).agent = (IF p.agent = "running" THEN "failed" ELSE p.agent)
         /\ killProcessGroup(p).helper # "group"
         /\ killProcessGroup(p).container = p.container /\ killProcessGroup(p).removal = p.removal
         /\ killProcessGroup(p).cause = p.cause /\ killProcessGroup(p).stage = p.stage
BY DEF IsProc, killProcessGroup

LEMMA StartExec ==
  ASSUME NEW command, NEW wrapped \in BOOLEAN, StartAgent(command, wrapped)
  PROVE  /\ IsProc(proc') /\ Staged(proc')
         /\ answer' # Pending => proc' = NoProcess
<1>1. CASE proc' = NoProcess
  BY <1>1, NoProcessFacts
<1>2. CASE /\ proc' = [NoProcess EXCEPT !.stage = "running", !.agent = "running",
                                        !.wrapped = wrapped, !.container = wrapped]
           /\ UNCHANGED answer
  <2>1. IsProc(proc') /\ Staged(proc')
    BY <1>2 DEF NoProcess, IsProc, Staged, Causes
  <2> QED
    BY <1>2, <2>1 DEF StartAgent
<1> QED
  BY <1>1, <1>2 DEF StartAgent

LEMMA StepExec ==
  ASSUME IsProc(proc), Staged(proc), answer = Pending, ExecSteps
  PROVE  /\ IsProc(proc') /\ Staged(proc')
         /\ answer' # Pending => proc'.stage = "idle"
         /\ ExecLeavesNothing'
<1> USE DEF ExecLeavesNothing
<1>1. CASE AgentWrites
  <2>1. /\ proc.stage \in {"running", "stopping"} /\ answer' = answer
        /\ proc' = IF proc.out < MaxAgentOutput THEN [proc EXCEPT !.out = @ + 1] ELSE [proc EXCEPT !.over = TRUE]
    BY <1>1 DEF AgentWrites, Alive
  <2>2. CASE proc' = [proc EXCEPT !.out = proc.out + 1]
    BY <2>1, <2>2 DEF IsProc, Staged
  <2>3. CASE proc' = [proc EXCEPT !.over = TRUE]
    BY <2>1, <2>3 DEF IsProc, Staged
  <2> QED
    BY <2>1, <2>2, <2>3
<1>2. ASSUME NEW helper \in {"group", "escaped"}, NEW holds \in BOOLEAN, AgentForks(helper, holds)
      PROVE  IsProc(proc') /\ Staged(proc') /\ answer' = Pending
  BY <1>2 DEF AgentForks, Alive, IsProc, Staged
<1>3. ASSUME NEW status \in {"ok", "failed"}, NEW leaves \in BOOLEAN, AgentEnds(status, leaves)
      PROVE  IsProc(proc') /\ Staged(proc') /\ answer' = Pending
  <2>1. /\ proc.stage \in {"running", "stopping"} /\ answer' = answer
        /\ leaves => status = "failed"
        /\ proc' = [proc EXCEPT !.agent = status, !.container = proc.container /\ leaves]
    BY <1>3 DEF AgentEnds, Alive
  <2> QED
    BY <2>1 DEF IsProc, Staged
<1>4. CASE HelperEnds
  BY <1>4 DEF HelperEnds, Alive, IsProc, Staged
<1>5. CASE SelectWaited
  <2> DEFINE k == killProcessGroup(proc)
             w == WaitError(proc)
  <2>1. /\ proc.stage = "running" /\ proc.agent # "running" /\ answer' = answer
        /\ proc' = [k EXCEPT !.stage = "waited", !.cause = w]
    BY <1>5 DEF SelectWaited
  <2>2. /\ IsProc(k) /\ k.agent = proc.agent /\ k.helper # "group"
        /\ k.container = proc.container /\ k.removal = proc.removal
    BY <2>1, KillFacts
  <2>3. w \in Causes /\ (w = "none" => proc.agent # "failed")
    BY DEF WaitError, Causes
  <2>4. proc.agent \in {"ok", "failed"} /\ proc.removal = "none" /\ (proc.container => proc.agent = "failed")
    BY <2>1 DEF IsProc, Staged
  <2> HIDE DEF k, w
  <2>5. IsProc(proc') /\ proc'.stage = "waited" /\ proc'.cause = w /\ proc'.agent = k.agent
        /\ proc'.helper = k.helper /\ proc'.container = k.container /\ proc'.removal = k.removal
    BY <2>1, <2>2, <2>3 DEF IsProc
  <2> QED
    BY <2>1, <2>2, <2>3, <2>4, <2>5 DEF Staged
<1>6. CASE SelectExceeded
  BY <1>6 DEF SelectExceeded, IsProc, Staged, Causes
<1>7. CASE SelectDone
  BY <1>7 DEF SelectDone, IsProc, Staged, Causes
<1>8. CASE stopProcessGroup
  <2> DEFINE k == killProcessGroup(proc)
  <2>1. proc.stage = "stopping" /\ answer' = answer /\ proc' = [k EXCEPT !.stage = "killed"]
    BY <1>8 DEF stopProcessGroup
  <2>2. IsProc(k) /\ k.agent \in {"ok", "failed"} /\ k.helper # "group"
    BY <2>1, KillFacts DEF IsProc, Staged
  <2> HIDE DEF k
  <2>3. IsProc(proc') /\ proc'.stage = "killed" /\ proc'.agent = k.agent /\ proc'.helper = k.helper
    BY <2>1, <2>2 DEF IsProc
  <2> QED
    BY <2>1, <2>2, <2>3 DEF Staged
<1>9. ASSUME NEW removed \in BOOLEAN, removeContainer(removed)
      PROVE  IsProc(proc') /\ Staged(proc') /\ answer' = Pending
  <2> DEFINE left == proc.container /\ ~removed
             how == IF removed THEN "done" ELSE "failed"
  <2>1. /\ proc.stage = "killed" /\ answer' = answer
        /\ proc' = [proc EXCEPT !.stage = "removed", !.container = left, !.removal = how]
    BY <1>9 DEF removeContainer
  <2>2. left \in BOOLEAN /\ how \in {"done", "failed"} /\ (left => how = "failed")
    OBVIOUS
  <2> HIDE DEF left, how
  <2>3. IsProc(proc') /\ proc'.stage = "removed" /\ proc'.agent = proc.agent /\ proc'.helper = proc.helper
        /\ proc'.container = left /\ proc'.removal = how
    BY <2>1, <2>2 DEF IsProc
  <2> QED
    BY <2>1, <2>2, <2>3 DEF Staged
<1>10. ASSUME NEW deadline, CutShort(deadline)
       PROVE  IsProc(proc') /\ Staged(proc') /\ proc'.stage = "idle" /\ ExecLeavesNothing'
  <2>1. /\ proc.stage = "removed" /\ proc' = [proc EXCEPT !.stage = "idle"]
        /\ answer' = IF proc.cause = "overflow" THEN Failure("overflow") ELSE interrupted(ctx, deadline)
    BY <1>10 DEF CutShort
  <2>2. answer'.res # "turn"
    BY <2>1, Outcomes, CutIsNoTurn
  <2> QED
    BY <2>1, <2>2 DEF IsProc, Staged
<1>11. ASSUME NEW response, ReadResponse(response)
       PROVE  IsProc(proc') /\ Staged(proc') /\ proc'.stage = "idle" /\ ExecLeavesNothing'
  <2>1. /\ proc.stage = "waited" /\ proc' = [proc EXCEPT !.stage = "idle"]
        /\ answer' = JudgeAgent(proc, response)
    BY <1>11 DEF ReadResponse
  <2>2. answer'.res = "turn" => ~proc.over /\ proc.cause = "none"
    BY <2>1, Outcomes DEF JudgeAgent
  <2> QED
    BY <2>1, <2>2 DEF IsProc, Staged
<1> QED
  BY <1>1, <1>2, <1>3, <1>4, <1>5, <1>6, <1>7, <1>8, <1>9, <1>10, <1>11 DEF ExecSteps

LEMMA NextExec == Shape /\ Shape' /\ ExecInv /\ [Next]_vars => ExecInv'
<1> SUFFICES ASSUME Shape, Shape', ExecInv, [Next]_vars PROVE ExecInv'
  OBVIOUS
<1>1. ASSUME NEW served \in BOOLEAN, OpenSession(served) PROVE ExecInv'
  <2>1. phase = "opening" /\ UNCHANGED <<proc, answer>>
    BY <1>1 DEF OpenSession
  <2> QED
    BY <2>1 DEF ExecInv, ExecLeavesNothing
<1>2. CASE callProvider
  <2>1. UNCHANGED <<proc, cfg>> /\ answer' = Pending /\ phase # "opening"
    BY <1>2 DEF callProvider
  <2>2. phase' # "opening"
    BY <1>2, <2>1 DEF callProvider, TurnEnds, Interrupted, Retry
  <2> QED
    BY <2>1, <2>2 DEF ExecInv, ExecLeavesNothing, Hosted
<1>3. CASE SleepEnds
  <2>1. UNCHANGED <<proc, answer, cfg>> /\ phase # "opening"
    BY <1>3 DEF SleepEnds, Live
  <2>2. phase' # "opening"
    BY <1>3, <2>1 DEF SleepEnds, TurnEnds, Retry
  <2> QED
    BY <2>1, <2>2 DEF ExecInv, ExecLeavesNothing, Hosted
<1>4. CASE ExecBegins
  <2>1. /\ phase = "live" /\ ~Hosted /\ answer = Pending /\ StartAgent(cfg.command, cfg.container # "none")
        /\ UNCHANGED <<phase, cfg>>
    BY <1>4 DEF ExecBegins, session, Live
  <2>2. /\ IsProc(proc') /\ Staged(proc')
        /\ answer' # Pending => proc' = NoProcess
    BY <2>1, StartExec
  <2>3. proc' = NoProcess => ExecLeavesNothing'
    BY DEF NoProcess, ExecLeavesNothing
  <2> QED
    BY <2>1, <2>2, <2>3, NoProcessFacts DEF ExecInv, Hosted, ExecLeavesNothing
<1>5. CASE ExecStep
  <2>1. /\ phase = "live" /\ call.stage = "process" /\ answer = Pending /\ ExecSteps
        /\ UNCHANGED <<phase, cfg>>
    BY <1>5 DEF ExecStep, session, Live
  <2>2. /\ IsProc(proc') /\ Staged(proc')
        /\ answer' # Pending => proc'.stage = "idle"
        /\ ExecLeavesNothing'
    BY <2>1, StepExec DEF ExecInv
  <2>3. proc.stage # "idle"
    BY <2>1 DEF ExecSteps, AgentWrites, AgentForks, AgentEnds, HelperEnds, SelectWaited, SelectExceeded,
                SelectDone, stopProcessGroup, removeContainer, CutShort, ReadResponse, Alive
  <2>4. ~Hosted
    BY <2>3, NoProcessFacts DEF ExecInv
  <2> QED
    BY <2>1, <2>2, <2>4 DEF ExecInv, Hosted
<1>6. CASE Judge \/ ReplayAttempt
  <2>1. Hosted /\ UNCHANGED <<proc, phase, cfg>>
    BY <1>6 DEF Judge, ReplayAttempt, session, Shape
  <2>2. proc' = NoProcess
    BY <2>1 DEF ExecInv
  <2>3. ExecLeavesNothing'
    BY <2>2 DEF ExecLeavesNothing, NoProcess
  <2> QED
    BY <2>1, <2>2, <2>3, NoProcessFacts DEF ExecInv
<1>7. ASSUME NEW from, OpenReplay(from) PROVE ExecInv'
  <2>1. Hosted /\ UNCHANGED <<proc, answer>>
    BY <1>7 DEF OpenReplay, Shape, Recording
  <2> QED
    BY <2>1 DEF ExecInv, ExecLeavesNothing
<1>8. ASSUME UNCHANGED <<proc, answer, cfg>>, phase' = phase \/ phase' = "crashed" PROVE ExecInv'
  BY <1>8 DEF ExecInv, ExecLeavesNothing, Hosted
<1>9. CASE DeadlinePasses \/ CallerCancels \/ SendRequest \/ TransportFails \/ Crash
  BY <1>8, <1>9 DEF DeadlinePasses, CallerCancels, SendRequest, TransportFails, Crash, session
<1>10. ASSUME NEW x, ResponseArrives(x) \/ RecordExchange(x) PROVE ExecInv'
  BY <1>8, <1>10 DEF ResponseArrives, RecordExchange, session
<1>11. CASE UNCHANGED vars
  BY <1>8, <1>11 DEF vars
<1> QED
  BY <1>1, <1>2, <1>3, <1>4, <1>5, <1>6, <1>7, <1>9, <1>10, <1>11 DEF Next

(***************************************************************************)
(* What a recording holds.                                                 *)
(***************************************************************************)

(* The lines that hold a response are finitely many, and counted in order. *)
LEMMA AnsweredFinite ==
  ASSUME NEW f, IsSeq(f.lines)
  PROVE  /\ IsFiniteSet(Answered(f)) /\ Cardinality(Answered(f)) \in Nat
         /\ \A n : IsFiniteSet({m \in Answered(f) : m <= n})
         /\ Answered(f) \subseteq 1..Len(f.lines)
<1>1. Len(f.lines) \in Nat /\ DOMAIN f.lines = 1..Len(f.lines)
  BY AppendFacts
<1>2. Answered(f) \subseteq 1..Len(f.lines)
  BY <1>1 DEF Answered
<1>3. IsFiniteSet(1..Len(f.lines))
  BY <1>1, FS_Interval
<1>4. IsFiniteSet(Answered(f))
  BY <1>2, <1>3, FS_Subset
<1>5. ASSUME NEW n PROVE IsFiniteSet({m \in Answered(f) : m <= n})
  <2>1. {m \in Answered(f) : m <= n} \subseteq Answered(f)
    OBVIOUS
  <2> QED
    BY <1>4, <2>1, FS_Subset
<1> QED
  BY <1>2, <1>4, <1>5, FS_CardinalityType

(* g is f with one more line. *)
OneLineMore(f, g, ex, n) ==
    /\ IsSeq(g.lines) /\ Len(g.lines) = n + 1
    /\ \A m \in 1..n : g.lines[m] = f.lines[m]
    /\ g.lines[n + 1] = ex
    /\ DOMAIN g.lines = 1..(n + 1)
    /\ ex.status = 0 => Answered(g) = Answered(f)
    /\ ex.status # 0 => Answered(g) = Answered(f) \cup {n + 1}
    /\ \A m \in Answered(f) : Rank(g, m) = Rank(f, m)
    /\ ex.status # 0 => Rank(g, n + 1) = Cardinality(Answered(f)) + 1
    /\ ex.status # 0 => Cardinality(Answered(g)) = Cardinality(Answered(f)) + 1

LEMMA AppendedLine ==
  ASSUME NEW f, NEW g, NEW ex, IsSeq(f.lines), g.lines = Append(f.lines, ex)
  PROVE  OneLineMore(f, g, ex, Len(f.lines))
<1> DEFINE n == Len(f.lines)
<1>1. /\ IsSeq(g.lines) /\ Len(g.lines) = n + 1 /\ n \in Nat
      /\ \A m \in 1..n : g.lines[m] = f.lines[m]
      /\ g.lines[n + 1] = ex
      /\ DOMAIN f.lines = 1..n /\ DOMAIN g.lines = 1..(n + 1)
  BY AppendFacts
<1> HIDE DEF n
<1>2. 1..(n + 1) = (1..n) \cup {n + 1} /\ n + 1 \notin 1..n
  BY <1>1
<1>3. /\ ex.status = 0 => Answered(g) = Answered(f)
      /\ ex.status # 0 => Answered(g) = Answered(f) \cup {n + 1}
      /\ n + 1 \notin Answered(f) /\ Answered(f) \subseteq 1..n
  BY <1>1, <1>2 DEF Answered
<1>4. ASSUME NEW m \in Answered(f) PROVE Rank(g, m) = Rank(f, m)
  <2>1. m \in 1..n /\ ~(n + 1 <= m)
    BY <1>1, <1>3
  <2>2. {k \in Answered(g) : k <= m} = {k \in Answered(f) : k <= m}
    BY <1>3, <2>1
  <2> QED
    BY <2>2 DEF Rank
<1>5. IsFiniteSet(Answered(f)) /\ Cardinality(Answered(f)) \in Nat
  BY AnsweredFinite
<1>6. ex.status # 0 => Cardinality(Answered(g)) = Cardinality(Answered(f)) + 1
  BY <1>3, <1>5, FS_AddElement
<1>7. ASSUME ex.status # 0 PROVE Rank(g, n + 1) = Cardinality(Answered(g))
  <2>1. \A k \in Answered(g) : k <= n + 1
    BY <1>1, <1>3, <1>7
  <2>2. {k \in Answered(g) : k <= n + 1} = Answered(g)
    BY <2>1
  <2> QED
    BY <2>2 DEF Rank
<1> QED
  BY <1>1, <1>3, <1>4, <1>6, <1>7 DEF OneLineMore, n

(* Every response handed on is the one its line holds. *)
Held(f, t) ==
    \A n \in Answered(f) : Rank(f, n) \in DOMAIN t =>
        /\ f.lines[n].status = t[Rank(f, n)].status /\ f.lines[n].body = t[Rank(f, n)].body
        /\ f.lines[n].error = t[Rank(f, n)].cut

LEMMA LoadsUnlessTorn ==
  ASSUME NEW f, Titled(f), \A n \in DOMAIN f.lines : Legible(f.lines[n], n)
  PROVE  LoadCassette(f) <=> ~f.torn /\ \A n \in Answered(f) : f.lines[n].status \in 100..599
BY Zenon DEF LoadCassette, Titled, Legible, Answered

(* What a recording shows follows from what it is. *)
LEMMA RecordedShows ==
  ASSUME phase' \notin {"opening", "refused"}, Recording', Recorded', Held(file', told'),
         phase' = "crashed" => Cardinality(Answered(file')) \in {Len(told'), Len(told') + 1}
  PROVE  RecordInv'
<1>1. LoadCassette(file') <=> ~file'.torn /\ \A n \in Answered(file') : file'.lines[n].status \in 100..599
  BY LoadsUnlessTorn DEF Recorded, IsRecording
<1>2. Len(told') \in Nat
  BY AppendFacts DEF Recorded
<1>3. Cardinality(Answered(file')) \in {Len(told'), Len(told') + 1}
  BY DEF Recorded
<1>4. Cardinality(Answered(file')) > Len(told') => phase' = "crashed"
  BY <1>2 DEF Recorded
<1>5. ToldIsRecorded'
  BY <1>1, <1>3, <1>4 DEF ToldIsRecorded, Held
<1> QED
  BY <1>5 DEF RecordInv

LEMMA RecordedHeld ==
  ASSUME RecordInv, phase \notin {"opening", "refused"}, Recording
  PROVE  /\ Recorded /\ Held(file, told)
         /\ Cardinality(Answered(file)) \in {Len(told), Len(told) + 1}
BY DEF RecordInv, ToldIsRecorded, Held

(* A recording that was not touched. *)
LEMMA RecordKept ==
  ASSUME RecordInv, UNCHANGED <<file, told, cfg>>,
         phase' = phase \/ (phase' \notin {"opening", "refused"} /\ phase \notin {"opening", "refused", "crashed"}),
         Recording => Writable(call')
  PROVE  RecordInv'
<1>1. CASE phase' \in {"opening", "refused"} \/ ~Recording
  BY <1>1 DEF RecordInv, ToldIsRecorded, Recording
<1>2. CASE phase' \notin {"opening", "refused"} /\ Recording
  <2>1. phase \notin {"opening", "refused"}
    BY <1>2
  <2>2. Recorded /\ Held(file, told) /\ Cardinality(Answered(file)) \in {Len(told), Len(told) + 1}
    BY <1>2, <2>1, RecordedHeld
  <2>3. Recorded'
    BY <1>2, <2>2 DEF Recorded
  <2>4. Held(file', told') /\ Recording' /\ Cardinality(Answered(file')) \in {Len(told'), Len(told') + 1}
    BY <1>2, <2>2 DEF Recording
  <2> QED
    BY <1>2, <2>3, <2>4, RecordedShows
<1> QED
  BY <1>1, <1>2

(* An exchange on its way to disk: the line is written whole or the        *)
(* recording has failed.                                                   *)
LEMMA RecordCases ==
  ASSUME Recorded, NEW ex, DOMAIN ex = {"seq", "request", "status", "retryAfter", "body", "error"},
         NEW written, NEW f, f = record(file, ex, written)
  PROVE  \/ /\ ~(usable(file) /\ written = "whole")
            /\ DOMAIN f = DOMAIN file /\ f.header = file.header /\ f.lines = file.lines /\ f.seq = file.seq
            /\ f.torn \in BOOLEAN /\ f.failed \in BOOLEAN /\ (f.torn => f.failed)
         \/ /\ usable(file) /\ written = "whole"
            /\ DOMAIN f = DOMAIN file /\ f.header = file.header /\ f.seq = file.seq + 1
            /\ f.torn = file.torn /\ f.failed = file.failed
            /\ \E x : /\ f.lines = Append(file.lines, x)
                      /\ x.seq = file.seq + 1 /\ x.status = ex.status /\ x.body = ex.body /\ x.error = ex.error
<1> DEFINE x == [ex EXCEPT !.seq = file.seq + 1]
           lines == Append(file.lines, x)
           n == file.seq + 1
           t == written = "part"
<1>1. DOMAIN file = {"header", "lines", "torn", "seq", "failed", "closed"}
  BY DEF Recorded, IsRecording
<1>2. CASE ~usable(file)
  BY <1>2 DEF record, Recorded, IsRecording
<1>3. CASE usable(file) /\ written = "whole"
  <2>1. f = [file EXCEPT !.lines = lines, !.seq = n]
    BY <1>3 DEF record
  <2>2. x.seq = n /\ x.status = ex.status /\ x.body = ex.body /\ x.error = ex.error
    OBVIOUS
  <2>3. lines = Append(file.lines, x)
    OBVIOUS
  <2> HIDE DEF lines, x
  <2>4. /\ DOMAIN f = DOMAIN file /\ f.header = file.header /\ f.seq = n /\ f.lines = lines
        /\ f.torn = file.torn /\ f.failed = file.failed
    BY <1>1, <2>1
  <2> QED
    BY <1>3, <2>2, <2>3, <2>4
<1>4. CASE usable(file) /\ written # "whole"
  <2>1. f = [file EXCEPT !.failed = TRUE, !.torn = t]
    BY <1>4 DEF record
  <2>2. t \in BOOLEAN
    OBVIOUS
  <2> HIDE DEF t
  <2>3. /\ DOMAIN f = DOMAIN file /\ f.header = file.header /\ f.seq = file.seq /\ f.lines = file.lines
        /\ f.torn = t /\ f.failed = TRUE
    BY <1>1, <2>1
  <2> QED
    BY <1>4, <2>2, <2>3
<1> QED
  BY <1>2, <1>3, <1>4

(* The file after a line was added or a write failed is still a recording. *)
LEMMA FailedWrite ==
  ASSUME NEW f, IsRecording(f), NEW g, DOMAIN g = DOMAIN f, g.header = f.header, g.lines = f.lines, g.seq = f.seq,
         g.torn \in BOOLEAN, g.failed \in BOOLEAN, g.torn => g.failed
  PROVE  IsRecording(g) /\ Answered(g) = Answered(f) /\ \A t : Held(f, t) => Held(g, t)
<1>1. Answered(g) = Answered(f)
  BY DEF Answered
<1>2. \A m : Rank(g, m) = Rank(f, m)
  BY <1>1 DEF Rank
<1>3. Titled(f) => Titled(g)
  BY Zenon DEF Titled
<1>4. IsRecording(g)
  BY <1>3 DEF IsRecording
<1> QED
  BY <1>1, <1>2, <1>4 DEF Held

LEMMA WholeWrite ==
  ASSUME NEW f, IsRecording(f), NEW g, DOMAIN g = DOMAIN f, g.header = f.header, g.seq = f.seq + 1,
         g.torn = f.torn, g.failed = f.failed,
         NEW x, g.lines = Append(f.lines, x), Legible(x, f.seq + 1)
  PROVE  IsRecording(g) /\ OneLineMore(f, g, x, Len(f.lines)) /\ Len(f.lines) \in Nat
<1>1. OneLineMore(f, g, x, Len(f.lines))
  BY AppendedLine DEF IsRecording
<1>2. Titled(f) => Titled(g)
  BY Zenon DEF Titled
<1>3. f.seq = Len(f.lines) /\ Len(f.lines) \in Nat /\ DOMAIN f.lines = 1..Len(f.lines)
  BY AppendFacts DEF IsRecording
<1>4. \A n \in DOMAIN g.lines : Legible(g.lines[n], n)
  BY <1>1, <1>3 DEF OneLineMore, IsRecording
<1>5. IsSeq(g.lines) /\ g.seq = Len(g.lines)
  BY <1>1, <1>3 DEF OneLineMore
<1> QED
  BY <1>1, <1>2, <1>3, <1>4, <1>5 DEF IsRecording

(* A recording after a write: whatever became of the line, the file is     *)
(* still one, and a response was handed on only with its line.             *)
LEMMA RecordWritten ==
  ASSUME Shape, RecordInv, phase = "live", Recording, call.stage = "write",
         NEW request, NEW written, file' = record(file, Exchange(request, call.trip), written),
         call'.stage = "write" => call'.trip = call.trip, cfg' = cfg,
         \/ /\ phase' = "crashed" /\ told' = told
         \/ /\ phase' = "live"
            /\ told' = IF usable(file) /\ written = "whole" /\ call.trip.status # 0
                       THEN Append(told, call.trip) ELSE told
  PROVE  RecordInv'
<1> DEFINE ex == Exchange(request, call.trip)
           trip == call.trip
           k == Len(told)
           n == Len(file.lines)
<1>1. /\ Recorded /\ Held(file, told) /\ IsRecording(file) /\ IsSeq(told)
      /\ Cardinality(Answered(file)) = k
      /\ trip.status = 0 => trip.cut
      /\ Writable(call')
  <2>1. Recorded /\ Held(file, told)
    BY RecordedHeld
  <2>2. IsRecording(file) /\ IsSeq(told) /\ Writable(call) /\ Cardinality(Answered(file)) = k
    BY <2>1 DEF Recorded
  <2>3. trip.status = 0 => trip.cut
    BY <2>2 DEF Writable
  <2>4. Writable(call')
    BY <2>3 DEF Writable
  <2> QED
    BY <2>1, <2>2, <2>3, <2>4
<1>7. /\ k \in Nat /\ DOMAIN told = 1..k
  BY <1>1, AppendFacts
<1>2. /\ DOMAIN ex = {"seq", "request", "status", "retryAfter", "body", "error"}
      /\ ex.status = trip.status /\ ex.body = trip.body /\ ex.error = trip.cut
  BY DEF Exchange
<1>3. Recording'
  BY DEF Recording
<1> HIDE DEF ex
<1>4. file' = record(file, ex, written)
  BY DEF ex
<1>5. CASE ~(usable(file) /\ written = "whole")
  <2>1. /\ DOMAIN file' = DOMAIN file /\ file'.header = file.header
        /\ file'.lines = file.lines /\ file'.seq = file.seq
        /\ file'.torn \in BOOLEAN /\ file'.failed \in BOOLEAN /\ (file'.torn => file'.failed)
    BY <1>1, <1>2, <1>4, <1>5, RecordCases
  <2>2. told' = told
    BY <1>5
  <2>3. PICK f, g : f = file /\ g = file'
    OBVIOUS
  <2>4. IsRecording(g) /\ Answered(g) = Answered(f) /\ \A t : Held(f, t) => Held(g, t)
    BY <1>1, <2>1, <2>3, FailedWrite
  <2>5. IsRecording(file') /\ Cardinality(Answered(file')) = k
    BY <1>1, <2>3, <2>4
  <2>6. Held(file', told')
    BY <1>1, <2>2, <2>3, <2>4
  <2>7. Recorded'
    BY <1>1, <2>2, <2>5 DEF Recorded
  <2> QED
    BY <1>3, <2>2, <2>5, <2>6, <2>7, RecordedShows
<1>6. CASE usable(file) /\ written = "whole"
  <2>1. PICK x :
          /\ DOMAIN file' = DOMAIN file /\ file'.header = file.header /\ file'.seq = file.seq + 1
          /\ file'.torn = file.torn /\ file'.failed = file.failed
          /\ file'.lines = Append(file.lines, x)
          /\ x.seq = file.seq + 1 /\ x.status = trip.status /\ x.body = trip.body /\ x.error = trip.cut
    BY <1>1, <1>2, <1>4, <1>6, RecordCases
  <2>2. PICK f, g : f = file /\ g = file'
    OBVIOUS
  <2>3. Legible(x, f.seq + 1)
    BY <1>1, <2>1, <2>2 DEF Legible
  <2>8. /\ IsRecording(f) /\ DOMAIN g = DOMAIN f /\ g.header = f.header /\ g.seq = f.seq + 1
        /\ g.torn = f.torn /\ g.failed = f.failed /\ g.lines = Append(f.lines, x)
    BY <1>1, <2>1, <2>2
  <2>4. IsRecording(g) /\ OneLineMore(f, g, x, Len(f.lines)) /\ Len(f.lines) \in Nat
    BY <2>3, <2>8, WholeWrite
  <2>5. IsRecording(file') /\ OneLineMore(file, file', x, n) /\ n \in Nat
    BY <2>2, <2>4
  <2> HIDE DEF n, k
  <2>13. /\ \A m \in 1..n : file'.lines[m] = file.lines[m]
         /\ file'.lines[n + 1] = x
         /\ x.status = 0 => Answered(file') = Answered(file)
         /\ x.status # 0 => Answered(file') = Answered(file) \cup {n + 1}
         /\ \A m \in Answered(file) : Rank(file', m) = Rank(file, m)
         /\ x.status # 0 => Rank(file', n + 1) = k + 1
         /\ x.status # 0 => Cardinality(Answered(file')) = k + 1
    BY <1>1, <2>5 DEF OneLineMore
  <2>6. /\ IsSeq(told') /\ told' \in {told, Append(told, trip)}
        /\ Len(Append(told, trip)) = k + 1 /\ DOMAIN Append(told, trip) = 1..(k + 1)
        /\ \A i \in 1..k : Append(told, trip)[i] = told[i]
        /\ Append(told, trip)[k + 1] = trip
    <3>1. IsSeq(told) /\ k = Len(told)
      BY <1>1 DEF k
    <3>2. told' \in {told, Append(told, trip)}
      OBVIOUS
    <3> HIDE DEF trip
    <3>3. /\ IsSeq(Append(told, trip))
          /\ Len(Append(told, trip)) = k + 1 /\ DOMAIN Append(told, trip) = 1..(k + 1)
          /\ \A i \in 1..k : Append(told, trip)[i] = told[i]
          /\ Append(told, trip)[k + 1] = trip
      BY <3>1, AppendFacts
    <3>4. IsSeq(told')
      BY <3>1, <3>2, <3>3, Zenon
    <3> QED
      BY <3>2, <3>3, <3>4, Zenon
  <2>7. /\ phase' # "crashed" => Cardinality(Answered(file')) = Len(told')
        /\ Cardinality(Answered(file')) \in {Len(told'), Len(told') + 1}
    BY <1>1, <1>6, <1>7, <2>1, <2>6, <2>13 DEF k
  <2>9. Recorded'
    BY <1>1, <2>5, <2>6, <2>7 DEF Recorded
  <2>10. Answered(file) \subseteq 1..n /\ \A m \in Answered(file) : Rank(file, m) \in 1..k
    <3>1. Answered(file) \subseteq 1..n /\ IsFiniteSet(Answered(file))
      BY <1>1, AnsweredFinite DEF IsRecording, n
    <3>2. ASSUME NEW m \in Answered(file) PROVE Rank(file, m) \in 1..k
      <4> DEFINE T == {j \in Answered(file) : j <= m}
      <4>1. T \subseteq Answered(file) /\ m \in T
        BY <3>1
      <4>2. IsFiniteSet(T) /\ Cardinality(T) <= k /\ Cardinality(T) \in Nat
        BY <1>1, <1>7, <3>1, <4>1, FS_Subset, FS_CardinalityType
      <4>3. Cardinality(T) # 0
        BY <4>1, <4>2, FS_EmptySet
      <4> QED
        BY <1>7, <4>2, <4>3 DEF Rank
    <3> QED
      BY <3>1, <3>2
  <2>11. ASSUME NEW m \in Answered(file'), Rank(file', m) \in DOMAIN told'
         PROVE  /\ file'.lines[m].status = told'[Rank(file', m)].status
                /\ file'.lines[m].body = told'[Rank(file', m)].body
                /\ file'.lines[m].error = told'[Rank(file', m)].cut
    <3>1. CASE m \in Answered(file)
      <4>1. m \in 1..n /\ Rank(file', m) = Rank(file, m) /\ Rank(file, m) \in 1..k
        BY <2>10, <2>13, <3>1
      <4>2. told'[Rank(file, m)] = told[Rank(file, m)]
        BY <2>6, <4>1
      <4> QED
        BY <1>1, <1>7, <2>13, <3>1, <4>1, <4>2 DEF Held
    <3>2. CASE m \notin Answered(file)
      <4>1. m = n + 1 /\ x.status # 0 /\ Rank(file', m) = k + 1
        BY <2>11, <2>13, <3>2
      <4>2. told' = Append(told, trip)
        BY <1>7, <2>6, <2>11, <4>1
      <4> QED
        BY <2>1, <2>6, <2>13, <4>1, <4>2
    <3> QED
      BY <3>1, <3>2
  <2>12. Held(file', told')
    BY <2>11 DEF Held
  <2> QED
    BY <1>3, <2>7, <2>9, <2>12, RecordedShows
<1> QED
  BY <1>5, <1>6

(* A command that opens a recording starts an empty one, under its name. *)
LEMMA OpenRecords ==
  ASSUME Shape, RecordInv, NEW served \in BOOLEAN, OpenSession(served)
  PROVE  RecordInv'
<1> DEFINE c == IF served THEN forRun(cfg) ELSE cfg
           opens == IF served THEN selectProvider(c, file) ELSE openProvider(c, file)
<1>1. /\ phase = "opening" /\ cfg' = c /\ UNCHANGED <<told, call>>
      /\ phase' = IF ~opens THEN "refused" ELSE IF c.name = "scripted" THEN "scripted" ELSE "live"
      /\ file' = IF phase' = "live" /\ c.record THEN NewRecordingTransport(c.name, c.model, c.maxTokens) ELSE file
  BY DEF OpenSession
<1>2. told = << >> /\ call.stage = "attempt"
  BY <1>1 DEF RecordInv, Shape
<1>3. opens => openProvider(c, file)
  BY DEF selectProvider
<1>4. c.name = "scripted" /\ opens => ~c.record
  BY <1>3 DEF openProvider
<1>5. CASE phase' = "live" /\ c.record
  <2>1. openProvider(c, file) /\ c.name # "scripted"
    BY <1>1, <1>3, <1>5
  <2>2. c.name \in Adapters
    BY <1>5, <2>1, RecordersAreHosted
  <2>3. c.name # ""
    BY <2>2, Zenon DEF Adapters
  <2>4. openHostedProvider(c, file)
    BY <2>1, <2>2 DEF openProvider, Adapters
  <2>5. c.model # ""
    BY <2>4, Zenon DEF openHostedProvider
  <2> HIDE DEF c
  <2>6. /\ file'.header.version = CassetteVersion /\ file'.header.provider = c.name /\ file'.header.model = c.model
        /\ DOMAIN file' = {"header", "lines", "torn", "seq", "failed", "closed"}
        /\ file'.lines = << >> /\ file'.seq = 0 /\ file'.torn = FALSE /\ file'.failed = FALSE
    BY <1>1, <1>5 DEF NewRecordingTransport
  <2>7. Titled(file')
    BY <2>3, <2>5, <2>6, Zenon DEF Titled
  <2>8. Answered(file') = {} /\ Cardinality({}) = 0
    BY <2>6, EmptySeq, FS_EmptySet DEF Answered
  <2>9. Recorded'
    BY <1>1, <1>2, <2>6, <2>7, <2>8, EmptySeq DEF Recorded, IsRecording, Writable
  <2>10. Held(file', told') /\ Recording'
    BY <1>1, <1>5, <2>8 DEF Held, Recording
  <2> QED
    BY <1>5, <2>9, <2>10, RecordedShows
<1>6. CASE ~(phase' = "live" /\ c.record)
  <2>1. phase' # "opening" /\ (phase' = "refused" \/ ~Recording')
    BY <1>1, <1>4, <1>6 DEF Recording
  <2> QED
    BY <2>1 DEF RecordInv, ToldIsRecorded
<1> QED
  BY <1>5, <1>6

LEMMA InitRecord == Init => RecordInv
BY DEF Init, RecordInv, ToldIsRecorded

LEMMA NextRecord == Shape /\ Shape' /\ RecordInv /\ [Next]_vars => RecordInv'
<1> SUFFICES ASSUME Shape, Shape', RecordInv, [Next]_vars PROVE RecordInv'
  OBVIOUS
<1>1. ASSUME NEW served \in BOOLEAN, OpenSession(served) PROVE RecordInv'
  BY <1>1, OpenRecords
<1>2. ASSUME UNCHANGED <<file, told, cfg>>, call'.stage # "write" \/ call' = call,
             \/ phase' = phase
             \/ phase' \notin {"opening", "refused"} /\ phase \notin {"opening", "refused", "crashed"}
      PROVE  RecordInv'
  <2>1. Recording /\ phase \notin {"opening", "refused"} => Writable(call)
    BY DEF RecordInv, Recorded
  <2>2. phase = "opening" => Writable(call)
    BY DEF Shape, Writable
  <2>5. call'.stage # "write" => Writable(call')
    BY DEF Writable
  <2>3. CASE phase # "refused"
    BY <1>2, <2>1, <2>2, <2>3, <2>5, RecordKept
  <2>4. CASE phase = "refused"
    BY <1>2, <2>4 DEF RecordInv, ToldIsRecorded
  <2> QED
    BY <2>3, <2>4
<1>3. CASE callProvider \/ SleepEnds
  <2>1. /\ UNCHANGED <<file, told, cfg>> /\ phase \in {"live", "replaying"}
        /\ phase' = phase \/ phase' \in {"replayed", "failed", "completed", "spent"}
    BY <1>3 DEF callProvider, SleepEnds, Live, Interrupted, TurnEnds, Retry
  <2>2. call'.stage # "write"
    <3>1. ASSUME NEW r, Retry(r) PROVE call'.stage # "write"
      BY <3>1, RetryCall
    <3>2. ASSUME NEW o, NEW i, TurnEnds(o, i) PROVE call'.stage # "write"
      BY <3>2, NewCallShape DEF TurnEnds
    <3>3. ASSUME NEW r, call' = [call EXCEPT !.stage = "sleep", !.recorded = r] PROVE call'.stage # "write"
      BY <3>3 DEF Shape, IsCall
    <3> QED
      BY <1>3, <3>1, <3>2, <3>3 DEF callProvider, SleepEnds, Interrupted
  <2> QED
    BY <1>2, <2>1, <2>2
<1>4. CASE SendRequest \/ ExecBegins
  <2>1. UNCHANGED <<file, told, cfg, phase>>
    BY <1>4 DEF SendRequest, ExecBegins, session
  <2>2. call'.stage # "write"
    BY <1>4 DEF SendRequest, ExecBegins, Shape, IsCall
  <2> QED
    BY <1>2, <2>1, <2>2
<1>5. CASE TransportFails
  <2>1. /\ UNCHANGED <<file, told, cfg, phase>> /\ call'.trip = NoResponse
    BY <1>5 DEF TransportFails, session, Shape, IsCall
  <2> QED
    BY <2>1, NoResponseFacts, RecordKept DEF Writable
<1>6. ASSUME NEW trip \in Trips[cfg.name], ResponseArrives(trip) PROVE RecordInv'
  <2>1. /\ UNCHANGED <<file, told, cfg, phase>> /\ call'.trip = trip /\ Hosted
    BY <1>6 DEF ResponseArrives, session, Shape, IsCall
  <2>2. trip.status \in 1..999
    BY <2>1, TripsAssumption DEF Hosted
  <2> QED
    BY <2>1, <2>2, RecordKept DEF Writable
<1>7. ASSUME NEW written, RecordExchange(written) PROVE RecordInv'
  <2> DEFINE request == RequestFor(cfg.name, cfg.model, cfg.maxTokens, history)
             served == Served(file, call.trip, written)
  <2>1. /\ phase = "live" /\ call.stage = "write" /\ UNCHANGED <<phase, cfg>>
        /\ file' = record(file, Exchange(request, call.trip), written)
        /\ call' = [call EXCEPT !.stage = "answered", !.trip = served]
        /\ told' = IF served.status = 0 THEN told ELSE Append(told, served)
    BY <1>7 DEF RecordExchange, session, Live
  <2>2. told' = IF usable(file) /\ written = "whole" /\ call.trip.status # 0 THEN Append(told, call.trip) ELSE told
    BY <2>1, NoResponseFacts DEF Served
  <2> HIDE DEF request, served
  <2>3. call'.stage = "answered"
    BY <2>1 DEF Shape, IsCall
  <2>4. CASE Recording
    BY <2>1, <2>2, <2>3, <2>4, RecordWritten
  <2>5. CASE ~Recording
    BY <2>1, <2>5 DEF RecordInv, ToldIsRecorded, Recording
  <2> QED
    BY <2>4, <2>5
<1>8. CASE Crash
  <2>1. phase = "live" /\ phase' = "crashed" /\ UNCHANGED <<call, told, cfg>>
    BY <1>8 DEF Crash, Live, session
  <2>2. CASE UNCHANGED file
    BY <1>2, <2>1, <2>2
  <2>3. ASSUME NEW written, NEW request, call.stage = "write",
               file' = record(file, Exchange(request, call.trip), written)
        PROVE  RecordInv'
    <3>1. CASE Recording
      BY <2>1, <2>3, <3>1, RecordWritten
    <3>2. CASE ~Recording
      BY <2>1, <3>2 DEF RecordInv, ToldIsRecorded, Recording
    <3> QED
      BY <3>1, <3>2
  <2> QED
    BY <1>8, <2>2, <2>3 DEF Crash
<1>9. ASSUME NEW from, OpenReplay(from) PROVE RecordInv'
  <2>1. cfg' \in {ReplayConfig, Opened(ReplayConfig, file)} /\ phase' \in {"replaying", "unplayable"}
    BY <1>9 DEF OpenReplay
  <2>2. ~Recording'
    BY <2>1, ReplayConfigType DEF Shape, Recording
  <2> QED
    BY <2>1, <2>2 DEF RecordInv, ToldIsRecorded
<1>10. CASE DeadlinePasses \/ CallerCancels \/ Judge \/ ExecStep \/ ReplayAttempt
  BY <1>2, <1>10 DEF DeadlinePasses, CallerCancels, Judge, ExecStep, ReplayAttempt, session
<1>11. CASE UNCHANGED vars
  BY <1>2, <1>11 DEF vars
<1> QED
  BY <1>1, <1>3, <1>4, <1>5, <1>6, <1>7, <1>8, <1>9, <1>10, <1>11 DEF Next

(***************************************************************************)
(* Judging a line of the cassette again.                                   *)
(***************************************************************************)

LEMMA StatusResult ==
  ASSUME NEW adapter, NEW trip, NEW now
  PROVE  statusInterruption(adapter, trip, now).res \in {"error", "interrupted"}
<1> DEFINE kind == IF trip.status = 429 THEN "rate_limited" ELSE "server_error"
           wait1 == parseRetryAfter(trip.retryAfter, now)
<1>1. PICK reason :
        CallInterrupted(kind) = [res |-> "interrupted", kind |-> kind, reason |-> reason,
                                 deadline |-> 0, status |-> 0, retryAfter |-> 0]
  BY Zenon DEF CallInterrupted
<1>2. statusInterruption(adapter, trip, now) = Failure("status") \/
      statusInterruption(adapter, trip, now) =
        [CallInterrupted(kind) EXCEPT !.status = trip.status, !.retryAfter = wait1]
  BY Zenon DEF statusInterruption
<1> HIDE DEF kind, wait1
<1>3. [CallInterrupted(kind) EXCEPT !.status = trip.status, !.retryAfter = wait1].res = "interrupted"
  BY <1>1
<1> QED
  BY <1>2, <1>3, Outcomes

(* The clock matters to a date only. *)
LEMMA StatusAnyTime ==
  ASSUME NEW adapter, NEW trip, trip.retryAfter.form # "date", NEW now, NEW later
  PROVE  statusInterruption(adapter, trip, now) = statusInterruption(adapter, trip, later)
<1>1. parseRetryAfter(trip.retryAfter, now) = parseRetryAfter(trip.retryAfter, later)
  BY DEF parseRetryAfter
<1> QED
  BY <1>1, Zenon DEF statusInterruption

LEMMA FailedResult ==
  ASSUME NEW c, NEW d
  PROVE  requestFailed(c, d).res \in {"error", "interrupted"}
BY CutIsNoTurn, InterruptionFacts DEF requestFailed

(* The judgement looks at the fields of a trip only. *)
LEMMA SameTripJudged ==
  ASSUME NEW adapter, NEW t, NEW u, SameTrip(t, u), NEW c, NEW now, NEW d
  PROVE  JudgeTrip(adapter, t, c, now, d) = JudgeTrip(adapter, u, c, now, d)
<1>1. t.status = u.status /\ t.retryAfter = u.retryAfter /\ t.body = u.body /\ t.cut = u.cut
  BY DEF SameTrip
<1>2. statusInterruption(adapter, t, now) = statusInterruption(adapter, u, now)
  BY <1>1, Zenon DEF statusInterruption
<1> QED
  BY <1>1, <1>2 DEF JudgeTrip

(* A turn is the same turn for every caller and at every time. *)
LEMMA TurnJudgedAgain ==
  ASSUME NEW adapter, NEW t, NEW c, NEW now, NEW d, JudgeTrip(adapter, t, c, now, d).res = "turn",
         NEW e, NEW later
  PROVE  JudgeTrip(adapter, t, e, later, d) = JudgeTrip(adapter, t, c, now, d)
<1>1. t.status # 0
  BY FailedResult DEF JudgeTrip
<1>2. ~(t.cut \/ t.body.over)
  BY <1>1, CutIsNoTurn DEF JudgeTrip
<1>3. t.status \in 200..299
  BY <1>1, <1>2, StatusResult DEF JudgeTrip
<1> QED
  BY <1>1, <1>2, <1>3 DEF JudgeTrip

(* An interruption never turns into a turn, and comes again as it was      *)
(* unless it was a deadline or carries a date.                             *)
LEMMA InterruptionJudgedAgain ==
  ASSUME NEW adapter, NEW t, NEW c, NEW now, NEW d, NEW later,
         IsInterruption(JudgeTrip(adapter, t, c, now, d))
  PROVE  /\ JudgeTrip(adapter, t, Fresh, later, d).res # "turn"
         /\ \/ JudgeTrip(adapter, t, c, now, d).kind = "timeout"
            \/ t.status # 0 /\ t.retryAfter.form = "date"
            \/ JudgeTrip(adapter, t, Fresh, later, d) = JudgeTrip(adapter, t, c, now, d)
<1> DEFINE A == JudgeTrip(adapter, t, c, now, d)
           R == JudgeTrip(adapter, t, Fresh, later, d)
<1>1. R.res # "turn"
  BY TurnJudgedAgain DEF IsInterruption
<1>2. interrupted(c, d).res = "interrupted" => interrupted(c, d).kind = "timeout"
  BY InterruptionFacts, Outcomes DEF interrupted, Given
<1>3. CASE t.status = 0
  <2>1. A = requestFailed(c, d) /\ R = requestFailed(Fresh, d)
    BY <1>3 DEF JudgeTrip
  <2>2. R = CallInterrupted("transport")
    BY <2>1 DEF requestFailed, Fresh
  <2>3. A = CallInterrupted("transport") \/ A = interrupted(c, d)
    BY <2>1 DEF requestFailed
  <2> QED
    BY <1>1, <1>2, <2>2, <2>3 DEF IsInterruption
<1>4. CASE t.status # 0 /\ (t.cut \/ t.body.over)
  BY <1>1, <1>2, <1>4 DEF JudgeTrip, IsInterruption
<1>5. CASE t.status # 0 /\ ~(t.cut \/ t.body.over) /\ t.status \notin 200..299
  <2>1. A = statusInterruption(adapter, t, now) /\ R = statusInterruption(adapter, t, later)
    BY <1>5 DEF JudgeTrip
  <2> QED
    BY <1>1, <1>5, <2>1, StatusAnyTime
<1>6. CASE t.status # 0 /\ ~(t.cut \/ t.body.over) /\ t.status \in 200..299
  BY <1>1, <1>6 DEF JudgeTrip
<1> QED
  BY <1>3, <1>4, <1>5, <1>6

(***************************************************************************)
(* Transcripts, and what a longer file or a longer ledger leaves alone.    *)
(***************************************************************************)
LEMMA SaidFacts ==
  ASSUME NEW L, NEW j \in Nat \ {0}
  PROVE  IsSeq(Said(L, j)) /\ Len(Said(L, j)) = j - 1 /\ DOMAIN Said(L, j) = 1..(j - 1)
<1> DEFINE S == {L[i].out.msg : i \in 1..(j - 1)}
<1>1. Said(L, j) \in [1..(j - 1) -> S] /\ j - 1 \in Nat
  BY DEF Said
<1> HIDE DEF S
<1>3. \A n \in Nat : [1..n -> S] \subseteq Seq(S)
  OBVIOUS
<1>2. Said(L, j) \in Seq(S)
  BY <1>1, <1>3
<1> QED
  BY <1>1, <1>2 DEF IsSeq

LEMMA SaidPrefix ==
  ASSUME NEW L, IsSeq(L), NEW x, NEW j \in 1..(Len(L) + 1)
  PROVE  Said(Append(L, x), j) = Said(L, j)
<1>1. \A i \in 1..(j - 1) : Append(L, x)[i] = L[i]
  BY AppendFacts
<1> QED
  BY <1>1 DEF Said

LEMMA SaidMore ==
  ASSUME NEW L, NEW j \in Nat \ {0}
  PROVE  Append(Said(L, j), L[j].out.msg) = Said(L, j + 1)
<1> DEFINE s == Said(L, j)
           m == L[j].out.msg
           t == Append(s, m)
<1>1. IsSeq(s) /\ Len(s) = j - 1 /\ DOMAIN s = 1..(j - 1)
  BY SaidFacts
<1>2. \A i \in 1..(j - 1) : s[i] = L[i].out.msg
  BY DEF Said
<1> HIDE DEF s
<1>3. /\ DOMAIN t = 1..j
      /\ \A i \in 1..(j - 1) : t[i] = s[i]
      /\ t[j] = m
      /\ IsSeq(t) /\ Len(t) = j
  BY <1>1, AppendFacts
<1>4. t = [i \in 1..j |-> t[i]]
  <2>1. PICK S : t \in Seq(S)
    BY <1>3 DEF IsSeq
  <2> HIDE DEF t
  <2> QED
    BY <1>3, <2>1
<1> HIDE DEF t
<1>5. \A i \in 1..j : t[i] = L[i].out.msg
  BY <1>2, <1>3
<1> QED
  BY <1>4, <1>5 DEF Said, s, t

(* g holds the lines of f. *)
Holds(g, f) ==
    /\ g.header = f.header
    /\ IsSeq(f.lines) /\ IsSeq(g.lines) /\ Len(f.lines) <= Len(g.lines)
    /\ \A n \in 1..Len(f.lines) : g.lines[n] = f.lines[n]

LEMMA SeqDomain ==
  ASSUME NEW s, IsSeq(s)
  PROVE  DOMAIN s = 1..Len(s) /\ Len(s) \in Nat
BY DEF IsSeq

LEMMA AskedKept ==
  ASSUME NEW f, NEW g, Holds(g, f), NEW L, NEW M, NEW j, Said(M, j) = Said(L, j), NEW n, Asked(f, n, L, j)
  PROVE  Asked(g, n, M, j) /\ n \in 1..Len(f.lines) /\ g.lines[n] = f.lines[n]
BY SeqDomain DEF Holds, Asked

LEMMA TriedKept ==
  ASSUME NEW f, NEW g, Holds(g, f), NEW L, NEW M, NEW j, Said(M, j) = Said(L, j), NEW n, NEW d, NEW r,
         Tried(f, d, n, L, j, r)
  PROVE  Tried(g, d, n, M, j, r)
<1>1. Asked(g, n, M, j) /\ g.lines[n] = f.lines[n]
  BY AskedKept DEF Tried
<1>2. \A c : Verdict(g, d, n, c, 0) = Verdict(f, d, n, c, 0)
  BY <1>1 DEF Verdict, Holds
<1> QED
  BY <1>1, <1>2 DEF Tried

LEMMA SettledKept ==
  ASSUME NEW f, NEW g, Holds(g, f), NEW L, NEW M, NEW j, Said(M, j) = Said(L, j), M[j] = L[j],
         NEW n, NEW d, Settled(f, d, n, L, j)
  PROVE  Settled(g, d, n, M, j)
<1>1. Asked(g, n, M, j) /\ g.lines[n] = f.lines[n]
  BY AskedKept DEF Settled
<1>2. \A c : Verdict(g, d, n, c, 0) = Verdict(f, d, n, c, 0)
  BY <1>1 DEF Verdict, Holds
<1> QED
  BY <1>1, <1>2 DEF Settled

LEMMA TakenKept ==
  ASSUME NEW f, NEW g, Holds(g, f), NEW L, NEW M, NEW j, Said(M, j) = Said(L, j), M[j] = L[j],
         NEW n, NEW d, Taken(f, d, n, L, j)
  PROVE  Taken(g, d, n, M, j)
BY TriedKept, SettledKept DEF Taken

(* The recording grows by lines. *)
LEMMA TapedLonger ==
  ASSUME NEW f, NEW g, Holds(g, f), NEW L, IsSeq(L), NEW d, NEW start \in Starts(f, L), Taped(f, d, L, start)
  PROVE  start \in Starts(g, L) /\ Taped(g, d, L, start)
<1>1. start \in Starts(g, L)
  BY SeqDomain DEF Starts, Holds
<1>2. \A j \in 1..Len(L) : Taken(g, d, start[j], L, j)
  BY TakenKept DEF Taped
<1> QED
  BY <1>1, <1>2 DEF Taped

(* The ledger grows by the turn that was under way. *)
LEMMA TapedTurn ==
  ASSUME NEW f, IsSeq(f.lines), NEW L, IsSeq(L), NEW d, NEW start \in Starts(f, L), Taped(f, d, L, start), NEW x,
         Taken(f, d, start[Len(L) + 1], Append(L, x), Len(L) + 1),
         Len(x.interruptions) \in {0, 1}
  PROVE  \E more \in Starts(f, Append(L, x)) :
            /\ Taped(f, d, Append(L, x), more)
            /\ more[Len(L) + 2] = start[Len(L) + 1] + 1 + Len(x.interruptions)
<1> DEFINE k == Len(L) + 1
           M == Append(L, x)
           b == start[k] + 1 + Len(x.interruptions)
           more == [j \in 1..(k + 1) |-> IF j = k + 1 THEN b ELSE start[j]]
<1>1. /\ Len(L) \in Nat /\ Len(M) = k /\ IsSeq(M) /\ M[k] = x
      /\ \A j \in 1..Len(L) : M[j] = L[j]
  BY AppendFacts
<1>2. Len(f.lines) \in Nat /\ DOMAIN f.lines = 1..Len(f.lines)
  BY SeqDomain
<1>3. start \in [1..k -> 1..(Len(f.lines) + 1)]
  BY DEF Starts
<1>4. b \in 1..(Len(f.lines) + 1)
  <2>1. start[k] \in 1..(Len(f.lines) + 1)
    BY <1>1, <1>3
  <2>2. CASE x.interruptions = << >>
    <3>1. Len(x.interruptions) = 0
      BY <2>2, EmptySeq
    <3>2. start[k] \in DOMAIN f.lines \/ start[k] + 1 \in DOMAIN f.lines
      BY <1>1 DEF Taken, Settled, Asked
    <3> QED
      BY <1>2, <2>1, <3>1, <3>2
  <2>3. CASE x.interruptions # << >>
    <3>1. start[k] + 1 \in DOMAIN f.lines
      BY <1>1, <2>3 DEF Taken, Settled, Asked
    <3>2. \A s, c : s \in Nat /\ s >= 1 /\ s + 1 <= Len(f.lines) /\ c \in {0, 1}
                    => s + 1 + c \in 1..(Len(f.lines) + 1)
      BY <1>2
    <3>3. start[k] \in Nat /\ start[k] >= 1 /\ start[k] + 1 <= Len(f.lines)
      BY <1>2, <2>1, <3>1
    <3> QED
      BY <3>2, <3>3
  <2> QED
    BY <2>2, <2>3
<1> HIDE DEF b
<1>5. more \in Starts(f, M)
  BY <1>1, <1>3, <1>4 DEF Starts
<1>6. more[1] = 1 /\ more[k + 1] = b /\ \A j \in 1..k : more[j] = start[j]
  BY <1>1 DEF Taped
<1> HIDE DEF more, M
<1>7. Holds(f, f)
  BY <1>2 DEF Holds
<1>8. ASSUME NEW j \in 1..Len(M)
      PROVE  Taken(f, d, more[j], M, j) /\ more[j + 1] = more[j] + 1 + Len(M[j].interruptions)
  <2>1. CASE j = k
    BY <1>1, <1>6, <2>1 DEF b, M
  <2>2. CASE j # k
    <3>1. j \in 1..Len(L)
      BY <1>1, <2>2
    <3>2. Said(M, j) = Said(L, j)
      BY <1>1, <3>1, SaidPrefix DEF M
    <3>3. Taken(f, d, start[j], L, j) /\ start[j + 1] = start[j] + 1 + Len(L[j].interruptions)
      BY <3>1 DEF Taped
    <3>4. Taken(f, d, start[j], M, j)
      BY <1>1, <1>7, <3>1, <3>2, <3>3, TakenKept
    <3> QED
      BY <1>1, <1>6, <3>1, <3>3, <3>4
  <2> QED
    BY <2>1, <2>2
<1>9. Taped(f, d, M, more) /\ more[Len(L) + 2] = b
  BY <1>1, <1>6, <1>8 DEF Taped
<1> QED
  BY <1>5, <1>9 DEF M, b

(***************************************************************************)
(* Opening a provider.                                                     *)
(***************************************************************************)
(* A command starts with no cassette that could be read. *)
LEMMA NoFileUnread == ~LoadCassette(NoFile)
<1>1. \A p, m, t : NewRecordingTransport(p, m, t).header.provider = p
  BY DEF NewRecordingTransport
<1>2. NoFile.header.provider = ""
  BY <1>1, Zenon DEF NoFile
<1> QED
  BY <1>2, Zenon DEF LoadCassette

(* openProvider leaves the adapter nothing to refuse but a blank command. *)
LEMMA OpenedAsks ==
  ASSUME NEW c, NEW f, openProvider(c, f), c.name # "scripted", c.cassette => ~LoadCassette(f)
  PROVE  MayAsk(c)
<1>1. CASE c.name = "exec"
  <2>1. openExecProvider(c)
    BY <1>1, Zenon DEF openProvider
  <2>2. c.command \in {"words", "blank"}
    BY <2>1, Zenon DEF openExecProvider, splitAgentCommand
  <2> QED
    BY <1>1, <2>2, Zenon DEF CanAsk, MayAsk, Blank
<1>2. CASE c.name # "exec"
  <2>1. openHostedProvider(c, f)
    BY <1>2, Zenon DEF openProvider
  <2>2. ~c.cassette /\ c.model # ""
    BY <2>1, Zenon DEF openHostedProvider, CassetteServes
  <2>3. KeyPresent(c) /\ (c.name = "openai-compatible" => c.baseURL = "valid")
    BY <2>1, <2>2, Zenon DEF openHostedProvider
  <2>4. CASE c.name = "openai-compatible"
    BY <2>2, <2>3, <2>4, Zenon DEF CanAsk, MayAsk
  <2>5. CASE c.name # "openai-compatible"
    BY <1>2, <2>2, <2>3, <2>5, Zenon DEF CanAsk, MayAsk, KeyPresent
  <2> QED
    BY <2>4, <2>5
<1> QED
  BY <1>1, <1>2

LEMMA EmptyOnly ==
  ASSUME NEW s, IsSeq(s), Len(s) = 0
  PROVE  s = << >>
BY DEF IsSeq

LEMMA NewCallFacts == NewCall.attempt = 1 /\ NewCall.recorded = << >> /\ NewCall.stage = "attempt"
BY DEF NewCall

(* Phases that are no longer about a recording. *)
LEMMA PlayOver ==
  ASSUME phase' \notin {"opening", "live", "completed", "replaying", "replayed"}
  PROVE  PlayInv'
BY Zenon DEF PlayInv, SameTurns

LEMMA PlayLive ==
  ASSUME phase' = "live", MayAsk(cfg'), Recording' => RecordingInv'
  PROVE  PlayInv'
BY Zenon DEF PlayInv, SameTurns

LEMMA PlayCompleted ==
  ASSUME phase' = "completed", Recording' => CompletedInv'
  PROVE  PlayInv'
BY Zenon DEF PlayInv, SameTurns

(* A recording begins with no line and its first turn. *)
LEMMA FirstTurn ==
  ASSUME NEW f, f.lines = << >>, NEW d
  PROVE  \E start \in Starts(f, << >>) :
            /\ Taped(f, d, << >>, start)
            /\ UnderWay(NewCall, Pending, f, d, << >>, start[Len(<< >>) + 1])
<1> DEFINE start == [j \in 1..1 |-> 1]
<1>1. Len(<< >>) = 0
  BY EmptySeq
<1>2. start \in [1..1 -> 1..1] /\ start[1] = 1
  OBVIOUS
<1> HIDE DEF start
<1>3. start \in Starts(f, << >>)
  BY <1>1, <1>2 DEF Starts
<1>4. Taped(f, d, << >>, start)
  BY <1>1, <1>2 DEF Taped
<1>5. UnderWay(NewCall, Pending, f, d, << >>, start[Len(<< >>) + 1])
  BY <1>1, <1>2, NewCallFacts DEF UnderWay
<1> QED
  BY <1>3, <1>4, <1>5

LEMMA OpenPlay ==
  ASSUME Shape, PlayInv, RecordInv, NEW served \in BOOLEAN, OpenSession(served)
  PROVE  PlayInv'
<1> DEFINE c == IF served THEN forRun(cfg) ELSE cfg
           opens == IF served THEN selectProvider(c, file) ELSE openProvider(c, file)
<1>1. /\ phase = "opening" /\ cfg' = c /\ UNCHANGED <<answer, call, ledger, history, told>>
      /\ phase' = IF ~opens THEN "refused" ELSE IF c.name = "scripted" THEN "scripted" ELSE "live"
      /\ file' = IF phase' = "live" /\ c.record THEN NewRecordingTransport(c.name, c.model, c.maxTokens) ELSE file
  BY DEF OpenSession
<1>2. opens => openProvider(c, file)
  BY DEF selectProvider
<1>3. file = NoFile /\ answer = Pending /\ call = NewCall /\ ledger = << >> /\ history = << >>
  BY <1>1, Zenon DEF PlayInv
<1> HIDE DEF c, opens
<1>4. CASE phase' # "live"
  BY <1>1, <1>4, PlayOver
<1>5. CASE phase' = "live"
  <2>1. openProvider(c, file) /\ c.name # "scripted"
    BY <1>1, <1>2, <1>5
  <2>2. MayAsk(cfg')
    BY <1>1, <1>3, <2>1, NoFileUnread, OpenedAsks
  <2>3. ASSUME Recording' PROVE RecordingInv'
    <3>1. c.record /\ cfg' = c
      BY <1>1, <2>3 DEF Recording
    <3>2. c.name \in Adapters
      BY <2>1, <3>1, RecordersAreHosted
    <3>3. c.timeout > 0
      BY <2>1 DEF openProvider
    <3>4. /\ file'.header.provider = c.name /\ file'.header.model = c.model /\ file'.header.maxTokens = c.maxTokens
          /\ file'.lines = << >> /\ file'.failed = FALSE /\ file'.closed = FALSE
      BY <1>1, <1>5, <3>1 DEF NewRecordingTransport
    <3>5. Ready(cfg', file') /\ AllTold'
      BY <3>1, <3>2, <3>3, <3>4, EmptySeq DEF Ready, AllTold
    <3>6. history' = Said(ledger', Len(ledger') + 1)
      <4>1. Len(ledger') + 1 = 1 /\ history' = << >>
        BY <1>1, <1>3, EmptySeq
      <4> QED
        BY <4>1, SaidFacts, EmptyOnly
    <3>7. call' = NewCall /\ answer' = Pending /\ ledger' = << >> /\ Len(ledger') = 0
      BY <1>1, <1>3, EmptySeq
    <3>8. AllPropose(ledger', Len(ledger'))
      BY <3>7 DEF AllPropose
    <3>9. \E start \in Starts(file', ledger') :
            /\ Taped(file', cfg'.timeout, ledger', start)
            /\ UnderWay(call', answer', file', cfg'.timeout, ledger', start[Len(ledger') + 1])
      BY <3>4, <3>7, FirstTurn, Zenon
    <3> QED
      BY <3>4, <3>5, <3>6, <3>7, <3>8, <3>9, NewCallFacts DEF RecordingInv
  <2> QED
    BY <1>5, <2>2, <2>3, PlayLive
<1> QED
  BY <1>4, <1>5

(***************************************************************************)
(* The steps of a recording.                                               *)
(***************************************************************************)
LEMMA LiveStep ==
  ASSUME PlayInv, phase = "live", phase' = "live", cfg' = cfg, Recording => RecordingInv'
  PROVE  PlayInv'
<1>1. MayAsk(cfg') /\ (Recording' => RecordingInv')
  BY Zenon DEF PlayInv, Recording
<1> QED
  BY <1>1, PlayLive

(* A step of the call that leaves file, ledger and transcript alone. *)
LEMMA CallStep ==
  ASSUME RecordingInv, UNCHANGED <<cfg, file, told, ledger, history>>,
         call'.stage = "write" /\ call'.trip.status = 0 => call'.trip = NoResponse,
         call'.stage # "process",
         file.failed => Dead',
         NEW start \in Starts(file, ledger), Taped(file, cfg.timeout, ledger, start),
         ~file.failed => UnderWay(call', answer', file, cfg.timeout, ledger, start[Len(ledger) + 1])
  PROVE  RecordingInv'
BY DEF RecordingInv, AllTold

LEMMA DeadStep ==
  ASSUME RecordingInv, UNCHANGED <<cfg, file, told, ledger, history>>,
         call'.stage \in {"attempt", "answered", "sleep"},
         file.failed, Dead'
  PROVE  RecordingInv'
BY DEF RecordingInv, AllTold

LEMMA UnderWayOn ==
  ASSUME NEW c, NEW e, NEW a, NEW f, NEW d, NEW L, NEW b, UnderWay(c, a, f, d, L, b),
         c.stage \notin {"sleep", "answered"}, e.stage \notin {"sleep", "answered"},
         e.recorded = c.recorded, e.attempt = c.attempt
  PROVE  UnderWay(e, a, f, d, L, b)
BY DEF UnderWay

LEMMA NoTurnYet == Pending.res # "turn"
BY Outcomes

LEMMA SendPlays ==
  ASSUME Shape, PlayInv, SendRequest
  PROVE  PlayInv'
<1>1. /\ phase = "live" /\ phase' = "live" /\ answer = Pending /\ answer' = Pending
      /\ UNCHANGED <<cfg, file, told, ledger, history>> /\ call.stage = "attempt"
      /\ call' = IF Recording /\ ~usable(file) THEN [call EXCEPT !.stage = "answered", !.trip = NoResponse]
                 ELSE [call EXCEPT !.stage = "wire"]
  BY DEF SendRequest, session, Live
<1>2. ASSUME Recording PROVE RecordingInv'
  <2>1. RecordingInv
    BY <1>1, <1>2, Zenon DEF PlayInv
  <2>2. usable(file) <=> ~file.failed
    BY <2>1 DEF usable, RecordingInv
  <2>3. CASE file.failed
    <3>1. call'.stage = "answered" /\ call'.trip = NoResponse
      BY <1>1, <1>2, <2>2, <2>3 DEF Shape, IsCall
    <3> QED
      BY <1>1, <2>1, <2>3, <3>1, DeadStep, NoTurnYet DEF Dead
  <2>4. CASE ~file.failed
    <3>1. call'.stage = "wire" /\ call'.recorded = call.recorded /\ call'.attempt = call.attempt
      BY <1>1, <1>2, <2>2, <2>4 DEF Shape, IsCall
    <3>2. PICK start \in Starts(file, ledger) :
            /\ Taped(file, cfg.timeout, ledger, start)
            /\ UnderWay(call, answer, file, cfg.timeout, ledger, start[Len(ledger) + 1])
      BY <2>1, <2>4 DEF RecordingInv
    <3>3. UnderWay(call', answer', file, cfg.timeout, ledger, start[Len(ledger) + 1])
      BY <1>1, <3>1, <3>2, UnderWayOn
    <3> QED
      BY <1>1, <2>1, <2>4, <3>1, <3>2, <3>3, CallStep
  <2> QED
    BY <2>3, <2>4
<1> QED
  BY <1>1, <1>2, LiveStep

(* What came over the wire, or that nothing did. *)
LEMMA ArrivalPlays ==
  ASSUME Shape, PlayInv, NEW trip, trip.status = 0 => trip = NoResponse,
         phase = "live", call.stage = "wire", UNCHANGED <<phase, cfg, file, told, ledger, history, answer>>,
         call' = [call EXCEPT !.stage = AfterWire, !.trip = trip]
  PROVE  PlayInv'
<1>1. ASSUME Recording PROVE RecordingInv'
  <2>1. RecordingInv
    BY <1>1, Zenon DEF PlayInv
  <2>2. ~file.failed
    BY <2>1 DEF RecordingInv, Dead
  <2>3. call'.stage = "write" /\ call'.trip = trip /\ call'.recorded = call.recorded /\ call'.attempt = call.attempt
    BY <1>1 DEF Shape, IsCall, AfterWire
  <2>4. PICK start \in Starts(file, ledger) :
          /\ Taped(file, cfg.timeout, ledger, start)
          /\ UnderWay(call, answer, file, cfg.timeout, ledger, start[Len(ledger) + 1])
    BY <2>1, <2>2 DEF RecordingInv
  <2>5. UnderWay(call', answer', file, cfg.timeout, ledger, start[Len(ledger) + 1])
    BY <2>3, <2>4, UnderWayOn
  <2> QED
    BY <2>1, <2>2, <2>3, <2>4, <2>5, CallStep
<1> QED
  BY <1>1, LiveStep

LEMMA JudgePlays ==
  ASSUME Shape, PlayInv, Judge
  PROVE  PlayInv'
<1>1. /\ phase = "live" /\ phase' = "live" /\ answer = Pending /\ call.stage = "answered" /\ ctx \in Contexts
      /\ UNCHANGED <<cfg, file, told, ledger, history, call>>
      /\ answer' = JudgeTrip(cfg.name, call.trip, ctx, 0, cfg.timeout)
  BY DEF Judge, session, Live, Shape, Contexts
<1>2. ASSUME Recording PROVE RecordingInv'
  <2>1. RecordingInv
    BY <1>1, <1>2, Zenon DEF PlayInv
  <2>2. CASE file.failed
    <3>1. call.trip = NoResponse
      BY <1>1, <2>1, <2>2 DEF RecordingInv, Dead
    <3>2. answer' = requestFailed(ctx, cfg.timeout)
      BY <1>1, <3>1, NoResponseFacts DEF JudgeTrip
    <3>3. answer'.res # "turn"
      BY <3>2, FailedResult
    <3> QED
      BY <1>1, <2>1, <2>2, <3>1, <3>3, DeadStep DEF Dead
  <2>3. CASE ~file.failed
    <3>1. PICK start \in Starts(file, ledger) :
            /\ Taped(file, cfg.timeout, ledger, start)
            /\ UnderWay(call, answer, file, cfg.timeout, ledger, start[Len(ledger) + 1])
      BY <2>1, <2>3 DEF RecordingInv
    <3> DEFINE n == start[Len(ledger) + 1] + Len(call.recorded)
    <3>2. SameTrip(call.trip, TripOf(file.lines[n]))
      BY <1>1, <3>1 DEF UnderWay
    <3>3. cfg.name = file.header.provider
      BY <2>1 DEF RecordingInv, Ready
    <3>4. answer' = Verdict(file, cfg.timeout, n, ctx, 0)
      BY <1>1, <3>2, <3>3, SameTripJudged DEF Verdict
    <3> HIDE DEF n
    <3>5. \E x \in Contexts : answer' = Verdict(file, cfg.timeout, n, x, 0)
      BY <1>1, <3>4
    <3>6. UnderWay(call', answer', file, cfg.timeout, ledger, start[Len(ledger) + 1])
      BY <1>1, <3>1, <3>5 DEF UnderWay, n
    <3> QED
      BY <1>1, <2>1, <2>3, <3>1, <3>6, CallStep DEF RecordingInv
  <2> QED
    BY <2>2, <2>3
<1> QED
  BY <1>1, <1>2, LiveStep

(* What record leaves in the file. *)
LEMMA WholeLine ==
  ASSUME NEW f, IsRecording(f), ~f.failed, ~f.closed, NEW request, NEW trip, NEW g,
         g = record(f, Exchange(request, trip), "whole")
  PROVE  \E x : /\ g.lines = Append(f.lines, x) /\ g.header = f.header
                /\ g.failed = f.failed /\ g.closed = f.closed
                /\ x.request = request /\ x.status = trip.status /\ x.retryAfter = trip.retryAfter
                /\ x.body = trip.body /\ x.error = trip.cut
<1> DEFINE ex == Exchange(request, trip)
           x == [ex EXCEPT !.seq = f.seq + 1]
<1>1. /\ DOMAIN ex = {"seq", "request", "status", "retryAfter", "body", "error"}
      /\ ex.request = request /\ ex.status = trip.status /\ ex.retryAfter = trip.retryAfter
      /\ ex.body = trip.body /\ ex.error = trip.cut
  BY DEF Exchange
<1> HIDE DEF ex
<1>2. /\ x.request = request /\ x.status = trip.status /\ x.retryAfter = trip.retryAfter
      /\ x.body = trip.body /\ x.error = trip.cut
  BY <1>1
<1> HIDE DEF x
<1>3. g = [f EXCEPT !.lines = Append(@, x), !.seq = @ + 1]
  BY DEF record, usable, ex, x
<1>4. g.lines = Append(f.lines, x) /\ g.header = f.header /\ g.failed = f.failed /\ g.closed = f.closed
  BY <1>3, Zenon DEF IsRecording
<1> QED
  BY <1>2, <1>4

LEMMA FailedLine ==
  ASSUME NEW f, IsRecording(f), ~f.failed, ~f.closed, NEW ex, NEW written, written # "whole", NEW g,
         g = record(f, ex, written)
  PROVE  g.lines = f.lines /\ g.header = f.header /\ g.failed /\ g.closed = f.closed
<1> DEFINE torn == written = "part"
<1>1. g = [f EXCEPT !.failed = TRUE, !.torn = torn]
  BY DEF record, usable
<1> HIDE DEF torn
<1> QED
  BY <1>1 DEF IsRecording

(* The line that holds a trip is judged as the trip was. *)
LEMMA LineIsTrip ==
  ASSUME NEW x, NEW trip, x.status = trip.status, x.retryAfter = trip.retryAfter,
         x.body = trip.body, x.error = trip.cut, trip.status = 0 => trip = NoResponse
  PROVE  SameTrip(trip, TripOf(x))
<1>1. CASE x.status = 0
  BY <1>1 DEF TripOf, SameTrip
<1>2. CASE x.status # 0
  <2>1. TripOf(x) = [status |-> x.status, retryAfter |-> x.retryAfter, body |-> x.body, cut |-> x.error]
    BY <1>2 DEF TripOf
  <2>2. /\ TripOf(x).status = x.status /\ TripOf(x).retryAfter = x.retryAfter
        /\ TripOf(x).body = x.body /\ TripOf(x).cut = x.error
    BY <2>1
  <2> QED
    BY <2>2 DEF SameTrip
<1> QED
  BY <1>1, <1>2

LEMMA RecordPlays ==
  ASSUME Shape, PlayInv, RecordInv, NEW written, RecordExchange(written)
  PROVE  PlayInv'
<1> DEFINE request == RequestFor(cfg.name, cfg.model, cfg.maxTokens, history)
           served == Served(file, call.trip, written)
           trip == call.trip
<1>1. /\ phase = "live" /\ phase' = "live" /\ call.stage = "write"
      /\ UNCHANGED <<cfg, ledger, history, answer>>
      /\ call' = [call EXCEPT !.stage = "answered", !.trip = served]
      /\ told' = IF served.status = 0 THEN told ELSE Append(told, served)
      /\ file' = record(file, Exchange(request, call.trip), written)
  BY DEF RecordExchange, session, Live
<1>2. ASSUME Recording PROVE RecordingInv'
  <2>1. RecordingInv /\ IsRecording(file) /\ IsSeq(told)
    <3>1. Recorded
      BY <1>1, <1>2, Zenon DEF RecordInv
    <3> QED
      BY <1>1, <1>2, <3>1, Zenon DEF PlayInv, Recorded
  <2>2. ~file.failed /\ ~file.closed /\ usable(file)
    BY <1>1, <2>1 DEF RecordingInv, Dead, usable
  <2>3. trip.status = 0 => trip = NoResponse
    BY <1>1, <2>1 DEF RecordingInv
  <2>4. PICK start \in Starts(file, ledger) :
          /\ Taped(file, cfg.timeout, ledger, start)
          /\ UnderWay(call, answer, file, cfg.timeout, ledger, start[Len(ledger) + 1])
    BY <2>1, <2>2 DEF RecordingInv
  <2> DEFINE k == Len(ledger) + 1
             b == start[k]
             tries == Len(call.recorded)
             d == cfg.timeout
  <2>5. /\ call'.stage = "answered" /\ call'.trip = served
        /\ call'.recorded = call.recorded /\ call'.attempt = call.attempt
    BY <1>1 DEF Shape, IsCall
  <2>6. answer = Pending /\ Len(file.lines) = b - 1 + tries
    BY <1>1, <2>4 DEF UnderWay
  <2>7. Len(ledger) \in Nat /\ b \in Nat /\ Len(file.lines) \in Nat /\ IsSeq(file.lines)
    BY <2>1, <2>4, SeqDomain DEF Shape, Starts, IsRecording
  <2>8. Ready(cfg, file) /\ history = Said(ledger, k) /\ AllPropose(ledger, Len(ledger)) /\ AllTold
    BY <2>1 DEF RecordingInv
  <2>9. CASE written = "whole"
    <3>1. served = trip
      BY <2>2, <2>9 DEF Served
    <3>2. PICK x : /\ file'.lines = Append(file.lines, x) /\ file'.header = file.header
                   /\ file'.failed = file.failed /\ file'.closed = file.closed
                   /\ x.request = request /\ x.status = trip.status /\ x.retryAfter = trip.retryAfter
                   /\ x.body = trip.body /\ x.error = trip.cut
      <4> HIDE DEF request
      <4> QED
        BY <1>1, <2>1, <2>2, <2>9, WholeLine
    <3> HIDE DEF request, served, trip
    <3>3. /\ IsSeq(file'.lines) /\ Len(file'.lines) = Len(file.lines) + 1
          /\ DOMAIN file'.lines = 1..(Len(file.lines) + 1)
          /\ \A n \in 1..Len(file.lines) : file'.lines[n] = file.lines[n]
          /\ file'.lines[Len(file.lines) + 1] = x
          /\ DOMAIN file.lines = 1..Len(file.lines)
      BY <2>7, <3>2, AppendFacts
    <3>4. Holds(file', file)
      BY <2>7, <3>2, <3>3 DEF Holds
    <3>5. start \in Starts(file', ledger) /\ Taped(file', d, ledger, start)
      BY <2>4, <3>4, TapedLonger DEF Shape
    <3>6. Ready(cfg', file') /\ file'.failed = FALSE /\ ~file'.closed
      BY <1>1, <2>1, <2>2, <2>8, <3>2 DEF Ready, IsRecording
    <3>7. AllTold'
      <4>1. told' = IF trip.status = 0 THEN told ELSE Append(told, trip)
        BY <1>1, <3>1
      <4>2. /\ \A m \in DOMAIN told : m \in DOMAIN Append(told, trip) /\ Append(told, trip)[m] = told[m]
            /\ Len(told) + 1 \in DOMAIN Append(told, trip) /\ Append(told, trip)[Len(told) + 1] = trip
        BY <2>1, AppendFacts
      <4>3. ASSUME NEW n \in DOMAIN file'.lines, file'.lines[n].status # 0
            PROVE  \E m \in DOMAIN told' :
                      told'[m].retryAfter = file'.lines[n].retryAfter /\ told'[m].status = file'.lines[n].status
        <5>1. CASE n \in 1..Len(file.lines)
          <6>1. PICK m \in DOMAIN told :
                  told[m].retryAfter = file'.lines[n].retryAfter /\ told[m].status = file'.lines[n].status
            BY <2>8, <3>3, <4>3, <5>1 DEF AllTold
          <6> QED
            BY <4>1, <4>2, <6>1
        <5>2. CASE n = Len(file.lines) + 1
          BY <3>2, <3>3, <4>1, <4>2, <4>3, <5>2
        <5> QED
          BY <2>7, <3>3, <5>1, <5>2
      <4> QED
        BY <4>3 DEF AllTold
    <3>8. Asked(file', b + tries, ledger, k) /\ b + tries = Len(file.lines) + 1
      <4>1. b + tries = Len(file.lines) + 1 /\ b + tries \in DOMAIN file'.lines
        <5>1. tries \in Int
          BY <2>4, EmptySeq DEF UnderWay, Tried
        <5> QED
          BY <2>6, <2>7, <3>3, <5>1
      <4>2. file'.lines[b + tries] = x /\ x.request = request
        BY <3>2, <3>3, <4>1
      <4>3. request = RequestFor(file'.header.provider, file'.header.model, file'.header.maxTokens, Said(ledger, k))
        BY <2>8, <3>2 DEF request, Ready
      <4> QED
        BY <4>1, <4>2, <4>3 DEF Asked
    <3>9. SameTrip(call'.trip, TripOf(file'.lines[b + tries]))
      <4>1. file'.lines[b + tries] = x
        BY <3>3, <3>8
      <4>2. SameTrip(trip, TripOf(x))
        BY <2>3, <3>2, LineIsTrip
      <4> QED
        BY <2>5, <3>1, <4>1, <4>2
    <3>10. call.recorded = << >> \/ Tried(file', d, b, ledger, k, call.recorded)
      BY <2>4, <3>4, TriedKept DEF UnderWay
    <3>11. call.attempt = tries + 1
      BY <1>1, <2>4 DEF UnderWay
    <3>12. UnderWay(call', answer', file', d, ledger, b)
      BY <1>1, <2>5, <2>6, <3>3, <3>8, <3>9, <3>10, <3>11 DEF UnderWay
    <3> QED
      BY <1>1, <2>5, <2>8, <3>5, <3>6, <3>7, <3>12 DEF RecordingInv
  <2>10. CASE written # "whole"
    <3>1. served = NoResponse
      BY <2>10 DEF Served
    <3>2. file'.lines = file.lines /\ file'.header = file.header /\ file'.failed /\ file'.closed = file.closed
      <4> DEFINE ex == Exchange(request, call.trip)
      <4> HIDE DEF ex
      <4>1. file' = record(file, ex, written)
        BY <1>1 DEF ex
      <4> QED
        BY <2>1, <2>2, <2>10, <4>1, FailedLine
    <3>3. told' = told
      BY <1>1, <3>1, NoResponseFacts
    <3>4. Ready(cfg', file') /\ AllTold'
      BY <1>1, <2>8, <3>2, <3>3 DEF Ready, AllTold
    <3>5. Dead'
      BY <1>1, <2>5, <2>6, <3>1, NoTurnYet DEF Dead
    <3> QED
      BY <1>1, <2>2, <2>5, <2>8, <3>2, <3>4, <3>5 DEF RecordingInv
  <2> QED
    BY <2>9, <2>10
<1> QED
  BY <1>1, <1>2, LiveStep

(* A failure ends the run. *)
LEMMA FailurePlays ==
  ASSUME phase = "live", NEW o, NEW r, o.res # "turn", TurnEnds(o, r)
  PROVE  PlayInv'
<1>1. phase' = "failed"
  BY DEF TurnEnds
<1> QED
  BY <1>1, PlayOver

(* A turn ends the call, and the next one starts after its lines. *)
LEMMA TurnPlays ==
  ASSUME Shape, PlayInv, RecordInv, phase = "live", answer # Pending, answer' = Pending,
         UNCHANGED <<cfg, file, told>>, answer.res = "turn", TurnEnds(answer, call.recorded)
  PROVE  PlayInv'
<1> DEFINE x == [out |-> answer, interruptions |-> call.recorded]
           k == Len(ledger) + 1
           d == cfg.timeout
           M == Append(ledger, x)
<1>1. /\ ledger' = M /\ history' = Append(history, answer.msg) /\ call' = NewCall
      /\ phase' \in {"completed", "spent", "live"}
      /\ phase' = "completed" <=> ~Proposes(answer.msg)
  BY DEF TurnEnds
<1>2. x.out = answer /\ x.interruptions = call.recorded /\ x = [out |-> x.out, interruptions |-> x.interruptions]
  OBVIOUS
<1> HIDE DEF x
<1>3. /\ Len(ledger) \in Nat /\ k \in Nat \ {0} /\ Len(M) = k /\ IsSeq(M) /\ M[k] = x
      /\ \A j \in 1..Len(ledger) : M[j] = ledger[j]
  BY AppendFacts DEF Shape
<1>4. CASE phase' = "spent"
  BY <1>4, PlayOver
<1>5. CASE phase' # "spent" /\ ~Recording
  <2>1. ~Recording'
    BY <1>5 DEF Recording
  <2> QED
    BY <1>1, <1>5, <2>1, PlayCompleted, LiveStep
<1>6. CASE phase' # "spent" /\ Recording
  <2>1. RecordingInv /\ IsRecording(file)
    <3>1. Recorded
      BY <1>6, Zenon DEF RecordInv
    <3> QED
      BY <1>6, <3>1, Zenon DEF PlayInv, Recorded
  <2>2. ~file.failed
    BY <2>1 DEF RecordingInv, Dead
  <2>3. PICK start \in Starts(file, ledger) :
          /\ Taped(file, d, ledger, start)
          /\ UnderWay(call, answer, file, d, ledger, start[k])
    BY <2>1, <2>2 DEF RecordingInv
  <2> DEFINE b == start[k]
             tries == Len(call.recorded)
  <2>4. IsSeq(file.lines) /\ Holds(file, file) /\ Len(file.lines) \in Nat /\ b \in Nat
    BY <1>3, <2>1, <2>3, SeqDomain DEF IsRecording, Holds, Starts
  <2>5. Said(M, k) = Said(ledger, k)
    BY <1>3, SaidPrefix DEF Shape
  <2> HIDE DEF M
  <2>6. /\ Len(file.lines) = b + tries /\ Asked(file, b + tries, ledger, k)
        /\ \E c \in Contexts : answer = Verdict(file, d, b + tries, c, 0)
    BY <2>3 DEF UnderWay
  <2>7. Settled(file, d, b + tries, M, k)
    <3>1. Asked(file, b + tries, M, k)
      BY <2>4, <2>5, <2>6, AskedKept
    <3> QED
      BY <1>2, <1>3, <2>6, <3>1 DEF Settled
  <2>8. Taken(file, d, b, M, k) /\ tries \in {0, 1}
    <3>1. CASE call.recorded = << >>
      <4>1. tries = 0 /\ b + tries = b
        BY <2>4, <3>1, EmptySeq
      <4> QED
        BY <1>2, <1>3, <2>7, <3>1, <4>1 DEF Taken
    <3>2. CASE call.recorded # << >>
      <4>1. Tried(file, d, b, ledger, k, call.recorded)
        BY <2>3, <3>2 DEF UnderWay
      <4>2. Tried(file, d, b, M, k, call.recorded)
        BY <2>4, <2>5, <4>1, TriedKept
      <4>3. tries = 1
        BY <4>1 DEF Tried
      <4> QED
        BY <1>2, <1>3, <2>7, <4>2, <4>3 DEF Taken
    <3> QED
      BY <3>1, <3>2
  <2>9. PICK more \in Starts(file, M) :
          Taped(file, d, M, more) /\ more[Len(ledger) + 2] = b + 1 + tries
    BY <1>2, <2>3, <2>4, <2>8, TapedTurn DEF Shape, M
  <2>10. Ready(cfg', file') /\ AllTold'
    BY <2>1 DEF RecordingInv, AllTold
  <2>11. AllPropose(M, Len(ledger)) /\ Recording'
    BY <1>3, <1>6, <2>1 DEF RecordingInv, AllPropose, Recording
  <2>12. CASE phase' = "completed"
    <3>1. ~Proposes(M[k].out.msg) /\ k - 1 = Len(ledger) /\ k > 0
      BY <1>1, <1>2, <1>3, <2>12
    <3>2. CompletedInv'
      BY <1>1, <1>3, <2>2, <2>9, <2>10, <2>11, <3>1 DEF CompletedInv
    <3> QED
      BY <2>12, <3>2, PlayCompleted
  <2>13. CASE phase' = "live"
    <3>1. Proposes(answer.msg)
      BY <1>1, <2>13
    <3>2. AllPropose(M, k)
      BY <1>2, <1>3, <2>11, <3>1 DEF AllPropose
    <3>3. history' = Said(M, k + 1)
      <4>1. history = Said(M, k)
        BY <2>1, <2>5 DEF RecordingInv
      <4>2. M[k].out.msg = answer.msg
        BY <1>2, <1>3
      <4> QED
        BY <1>1, <1>3, <4>1, <4>2, SaidMore
    <3>4. Len(file.lines) = more[k + 1] - 1 /\ Len(ledger') = k
      BY <1>1, <1>3, <2>4, <2>6, <2>8, <2>9
    <3>5. UnderWay(NewCall, Pending, file, d, M, more[k + 1])
      BY <1>3, <3>4, NewCallFacts, EmptySeq DEF UnderWay
    <3>6. RecordingInv'
      <4>1. \E s \in Starts(file', ledger') :
              /\ Taped(file', cfg'.timeout, ledger', s)
              /\ UnderWay(call', answer', file', cfg'.timeout, ledger', s[Len(ledger') + 1])
        BY <1>1, <1>3, <2>9, <3>4, <3>5
      <4> QED
        BY <1>1, <1>3, <2>1, <2>2, <2>10, <3>2, <3>3, <4>1, NewCallFacts DEF RecordingInv
    <3> QED
      BY <2>13, <3>6, LiveStep
  <2> QED
    BY <1>1, <1>6, <2>12, <2>13
<1> QED
  BY <1>4, <1>5, <1>6

(* A first attempt that was interrupted: its line is the only one of the turn. *)
LEMMA FirstTry ==
  ASSUME Shape, RecordInv, phase = "live", Recording, RecordingInv, ~file.failed, answer # Pending,
         IsInterruption(answer), call.attempt < providerAttempts,
         NEW r, r = Append(call.recorded, Record(answer, call.attempt))
  PROVE  \E start \in Starts(file, ledger) :
            /\ Taped(file, cfg.timeout, ledger, start)
            /\ Tried(file, cfg.timeout, start[Len(ledger) + 1], ledger, Len(ledger) + 1, r)
            /\ Len(file.lines) = start[Len(ledger) + 1] /\ Len(r) = 1 /\ call.attempt = 1
<1> DEFINE k == Len(ledger) + 1
           d == cfg.timeout
<1>1. PICK start \in Starts(file, ledger) :
        /\ Taped(file, d, ledger, start)
        /\ UnderWay(call, answer, file, d, ledger, start[k])
  BY DEF RecordingInv
<1> DEFINE b == start[k]
           tries == Len(call.recorded)
<1>2. /\ call.stage = "answered" /\ call.attempt = tries + 1
      /\ Len(file.lines) = b + tries /\ Asked(file, b + tries, ledger, k)
      /\ \E c \in Contexts : answer = Verdict(file, d, b + tries, c, 0)
      /\ call.recorded = << >> \/ Tried(file, d, b, ledger, k, call.recorded)
  BY <1>1 DEF UnderWay
<1>3. call.recorded = << >>
  <2>1. SUFFICES ASSUME Tried(file, d, b, ledger, k, call.recorded) PROVE FALSE
    BY <1>2
  <2>2. tries = 1
    BY <2>1 DEF Tried
  <2> QED
    BY <1>2, <2>2 DEF providerAttempts
<1>4. tries = 0 /\ b + tries = b
  <2>1. b \in Nat
    BY <1>1, SeqDomain DEF Starts, Shape
  <2> QED
    BY <1>3, <2>1, EmptySeq
<1>5. r = <<Record(answer, 1)>> /\ Len(r) = 1
  BY <1>2, <1>3, <1>4
<1>6. Tried(file, d, b, ledger, k, r)
  <2>1. PICK c \in Contexts : answer = Verdict(file, d, b, c, 0)
    BY <1>2, <1>4
  <2>2. Asked(file, b, ledger, k)
    BY <1>2, <1>4
  <2> QED
    BY <1>5, <2>1, <2>2 DEF Tried
<1> QED
  BY <1>1, <1>2, <1>4, <1>5, <1>6

(* The turn goes on after an interruption: asleep, or at its second attempt. *)
LEMMA TryAgain ==
  ASSUME PlayInv, phase = "live", phase' = "live", UNCHANGED <<cfg, file, told, ledger, history>>,
         answer' = Pending, call'.stage \in {"attempt", "sleep"},
         Recording /\ ~file.failed =>
            /\ call'.stage = "sleep" => call'.attempt = 1
            /\ call'.stage # "sleep" => call'.attempt = 2
            /\ \E start \in Starts(file, ledger) :
                /\ Taped(file, cfg.timeout, ledger, start)
                /\ Tried(file, cfg.timeout, start[Len(ledger) + 1], ledger, Len(ledger) + 1, call'.recorded)
                /\ Len(file.lines) = start[Len(ledger) + 1] /\ Len(call'.recorded) = 1
  PROVE  PlayInv'
<1>1. ASSUME Recording PROVE RecordingInv'
  <2>1. RecordingInv
    BY <1>1, Zenon DEF PlayInv
  <2>2. CASE file.failed
    BY <2>1, <2>2, DeadStep, NoTurnYet DEF Dead
  <2>3. CASE ~file.failed
    <3>1. PICK start \in Starts(file, ledger) :
            /\ Taped(file, cfg.timeout, ledger, start)
            /\ Tried(file, cfg.timeout, start[Len(ledger) + 1], ledger, Len(ledger) + 1, call'.recorded)
            /\ Len(file.lines) = start[Len(ledger) + 1] /\ Len(call'.recorded) = 1
      BY <1>1, <2>3
    <3>2. Len(file.lines) = start[Len(ledger) + 1] - 1 + 1
      <4>1. start[Len(ledger) + 1] \in Int
        BY <3>1 DEF Tried, Asked, Starts
      <4> QED
        BY <3>1, <4>1
    <3>3. UnderWay(call', answer', file, cfg.timeout, ledger, start[Len(ledger) + 1])
      BY <1>1, <2>3, <3>1, <3>2 DEF UnderWay
    <3> QED
      BY <2>1, <2>3, <3>1, <3>3, CallStep
  <2> QED
    BY <2>2, <2>3
<1> QED
  BY <1>1, LiveStep

LEMMA CallPlays ==
  ASSUME Shape, PlayInv, RecordInv, callProvider, phase = "live"
  PROVE  PlayInv'
<1> DEFINE r == Append(call.recorded, Record(answer, call.attempt))
<1>1. answer # Pending /\ answer' = Pending /\ UNCHANGED <<cfg, file, told>>
  BY DEF callProvider
<1>2. CASE TurnEnds(answer, call.recorded)
  BY <1>1, <1>2, FailurePlays, TurnPlays
<1>3. CASE IsInterruption(answer) /\ Interrupted(r)
  <2>1. Recording /\ ~file.failed => RecordingInv
    BY Zenon DEF PlayInv
  <2>2. call.attempt < providerAttempts /\ Recording /\ ~file.failed =>
          \E start \in Starts(file, ledger) :
            /\ Taped(file, cfg.timeout, ledger, start)
            /\ Tried(file, cfg.timeout, start[Len(ledger) + 1], ledger, Len(ledger) + 1, r)
            /\ Len(file.lines) = start[Len(ledger) + 1] /\ Len(r) = 1 /\ call.attempt = 1
    BY <1>1, <1>3, <2>1, FirstTry
  <2> HIDE DEF r
  <2>3. ASSUME NEW why, TurnEnds(Failure(why), r) PROVE PlayInv'
    BY <2>3, FailurePlays, Outcomes
  <2>4. CASE /\ call.attempt < providerAttempts
             /\ call' = [call EXCEPT !.stage = "sleep", !.recorded = r]
             /\ UNCHANGED <<ctx, ledger, history, phase>>
    <3>1. call'.stage = "sleep" /\ call'.recorded = r /\ call'.attempt = call.attempt
      BY <2>4 DEF Shape, IsCall
    <3>2. Recording /\ ~file.failed => call'.attempt = 1
      BY <2>2, <2>4, <3>1
    <3>3. Recording /\ ~file.failed =>
            \E start \in Starts(file, ledger) :
                /\ Taped(file, cfg.timeout, ledger, start)
                /\ Tried(file, cfg.timeout, start[Len(ledger) + 1], ledger, Len(ledger) + 1, call'.recorded)
                /\ Len(file.lines) = start[Len(ledger) + 1] /\ Len(call'.recorded) = 1
      BY <2>2, <2>4, <3>1
    <3> QED
      BY <1>1, <2>4, <3>1, <3>2, <3>3, TryAgain
  <2>5. CASE call.attempt < providerAttempts /\ Retry(r)
    <3>1. call'.stage = "attempt" /\ call'.recorded = r /\ call'.attempt = call.attempt + 1
      BY <2>5 DEF Retry, NewCall
    <3>2. Recording /\ ~file.failed => call'.attempt = 2
      BY <2>2, <2>5, <3>1
    <3>3. Recording /\ ~file.failed =>
            \E start \in Starts(file, ledger) :
                /\ Taped(file, cfg.timeout, ledger, start)
                /\ Tried(file, cfg.timeout, start[Len(ledger) + 1], ledger, Len(ledger) + 1, call'.recorded)
                /\ Len(file.lines) = start[Len(ledger) + 1] /\ Len(call'.recorded) = 1
      BY <2>2, <2>5, <3>1
    <3>4. UNCHANGED <<ledger, history, phase>>
      BY <2>5 DEF Retry
    <3> QED
      BY <1>1, <3>1, <3>2, <3>3, <3>4, TryAgain
  <2> QED
    BY <1>3, <2>3, <2>4, <2>5 DEF Interrupted
<1> QED
  BY <1>2, <1>3 DEF callProvider

LEMMA SleepPlays ==
  ASSUME Shape, PlayInv, SleepEnds
  PROVE  PlayInv'
<1>1. phase = "live" /\ call.stage = "sleep" /\ UNCHANGED <<answer, cfg, file, told>>
  BY DEF SleepEnds, Live
<1>2. CASE TurnEnds(Failure("cancelled"), call.recorded)
  BY <1>1, <1>2, FailurePlays, Outcomes
<1>3. CASE Retry(call.recorded)
  <2>1. /\ call'.stage = "attempt" /\ call'.recorded = call.recorded /\ call'.attempt = call.attempt + 1
        /\ UNCHANGED <<ledger, history, phase>>
    BY <1>3 DEF Retry, NewCall
  <2>2. CASE ~Recording
    BY <1>1, <2>1, <2>2, LiveStep
  <2>3. CASE Recording
    <3>1. RecordingInv
      BY <1>1, <2>3, Zenon DEF PlayInv
    <3>2. CASE file.failed
      <4>1. Dead'
        BY <1>1, <2>1, <3>1, <3>2 DEF RecordingInv, Dead
      <4>2. RecordingInv'
        BY <1>1, <2>1, <3>1, <3>2, <4>1, DeadStep
      <4> QED
        BY <1>1, <2>1, <4>2, LiveStep
    <3>3. CASE ~file.failed
      <4>1. PICK start \in Starts(file, ledger) :
              /\ Taped(file, cfg.timeout, ledger, start)
              /\ UnderWay(call, answer, file, cfg.timeout, ledger, start[Len(ledger) + 1])
        BY <3>1, <3>3 DEF RecordingInv
      <4>2. /\ Len(call.recorded) = 1 /\ call.attempt = 1 /\ answer = Pending
            /\ Len(file.lines) = start[Len(ledger) + 1] - 1 + 1
            /\ call.recorded = << >> \/
               Tried(file, cfg.timeout, start[Len(ledger) + 1], ledger, Len(ledger) + 1, call.recorded)
        BY <1>1, <4>1 DEF UnderWay
      <4>3. call.recorded # << >>
        <5>1. Len(<< >>) = 0
          BY EmptySeq
        <5>2. Len(call.recorded) # 0
          BY <4>2
        <5> QED
          BY ONLY <5>1, <5>2
      <4>4. Len(file.lines) = start[Len(ledger) + 1]
        <5>1. start[Len(ledger) + 1] \in Int
          BY <4>1, SeqDomain DEF Starts, Shape
        <5> QED
          BY <4>2, <5>1
      <4> QED
        BY <1>1, <2>1, <4>1, <4>2, <4>3, <4>4, TryAgain
    <3> QED
      BY <3>2, <3>3
  <2> QED
    BY <2>2, <2>3
<1> QED
  BY <1>2, <1>3 DEF SleepEnds

(***************************************************************************)
(* The replay.                                                             *)
(***************************************************************************)
LEMMA ReplayConfigFacts ==
  ASSUME DOMAIN cfg = Settings
  PROVE  /\ DOMAIN ReplayConfig = Settings
         /\ ReplayConfig.name = cfg.name /\ ReplayConfig.model = cfg.model /\ ReplayConfig.timeout = cfg.timeout
         /\ ReplayConfig.maxTokens = 0 /\ ~ReplayConfig.record /\ ReplayConfig.cassette
         /\ ReplayConfig.command = "none" /\ ReplayConfig.env = "none" /\ ReplayConfig.container = "none"
         /\ ~ReplayConfig.mount
BY DEF ReplayConfig, Settings

LEMMA OpenedFacts ==
  ASSUME NEW c, DOMAIN c = Settings, c.cassette, NEW f
  PROVE  /\ Opened(c, f).name = c.name /\ Opened(c, f).model = c.model /\ Opened(c, f).timeout = c.timeout
         /\ Opened(c, f).maxTokens = f.header.maxTokens /\ Opened(c, f).key /\ Opened(c, f).baseURL = "valid"
<1>1. Opened(c, f) = [c EXCEPT !.maxTokens = f.header.maxTokens, !.key = TRUE, !.baseURL = "valid"]
  BY DEF Opened
<1> QED
  BY <1>1 DEF Settings

(* The cassette of a completed run opens for its replay if it can be read. *)
LEMMA CassetteOpens ==
  ASSUME Shape, RecordInv, phase = "completed", Recording, CompletedInv
  PROVE  /\ (\A n \in DOMAIN file.lines : ~Odd(file.lines[n])) => openProvider(ReplayConfig, file)
         /\ CanAsk(Opened(ReplayConfig, file))
<1> DEFINE r == ReplayConfig
<1>1. /\ DOMAIN r = Settings /\ r.name = cfg.name /\ r.model = cfg.model /\ r.timeout = cfg.timeout
      /\ r.maxTokens = 0 /\ ~r.record /\ r.cassette
      /\ r.command = "none" /\ r.env = "none" /\ r.container = "none" /\ ~r.mount
  BY ReplayConfigFacts DEF Shape
<1>2. Recorded /\ ToldIsRecorded
  BY Zenon DEF RecordInv
<1>3. /\ IsRecording(file)
      /\ (\A n \in DOMAIN file.lines : ~Odd(file.lines[n])) => LoadCassette(file)
  <2>1. IsRecording(file)
    BY <1>2 DEF Recorded
  <2>2. ~file.torn
    BY <2>1 DEF IsRecording, CompletedInv
  <2>3. LoadCassette(file) <=> ~file.torn /\ \A n \in Answered(file) : file.lines[n].status \in 100..599
    BY <1>2, Zenon DEF ToldIsRecorded
  <2>4. (\A n \in DOMAIN file.lines : ~Odd(file.lines[n])) => \A n \in Answered(file) : file.lines[n].status \in 100..599
    BY DEF Odd, Answered
  <2> QED
    BY <2>1, <2>2, <2>3, <2>4
<1>4. Ready(cfg, file)
  BY DEF CompletedInv
<1>5. cfg.model # ""
  <2>1. file.header.model # "" /\ file.header.model = cfg.model
    BY <1>3, <1>4, Zenon DEF IsRecording, Titled, Ready
  <2> QED
    BY <2>1, Zenon
<1>6. 1 \in DOMAIN file.lines /\ file.lines[1].request.path = file.header.provider
  <2>1. PICK start \in Starts(file, ledger) : Taped(file, cfg.timeout, ledger, start)
    BY DEF CompletedInv
  <2>2. start[1] = 1 /\ Taken(file, cfg.timeout, start[1], ledger, 1)
    <3>1. 1 \in 1..Len(ledger)
      BY SeqDomain DEF CompletedInv, Shape
    <3> QED
      BY <2>1, <3>1 DEF Taped
  <2>3. Asked(file, 1, ledger, 1)
    BY <2>2 DEF Taken, Tried, Settled
  <2> QED
    BY <2>3 DEF Asked, RequestFor
<1>7. file.lines # << >>
  BY <1>6, EmptySeq
<1> HIDE DEF r
<1>8. LoadCassette(file) => CassetteServes(r, file)
  BY <1>1, <1>3, <1>4, <1>6, <1>7 DEF CassetteServes, CheckRun, Ready
<1>9. LoadCassette(file) => openHostedProvider(r, file)
  <2>1. r.name \in Adapters
    BY <1>1, <1>4 DEF Ready
  <2>2. r.model # ""
    BY <1>1, <1>5, Zenon
  <2> QED
    BY <1>1, <1>8, <2>1, <2>2, Zenon DEF openHostedProvider
<1>10. LoadCassette(file) => openProvider(r, file)
  <2>1. r.name # "exec" /\ r.name # "scripted"
    BY <1>1, <1>4 DEF Ready, Adapters
  <2>2. r.timeout > 0 /\ r.maxTokens >= 0
    BY <1>1, <1>4 DEF Ready
  <2> QED
    BY <1>1, <1>9, <2>1, <2>2, Zenon DEF openProvider
<1>11. CanAsk(Opened(r, file))
  <2> DEFINE o == Opened(r, file)
  <2>1. o.name = cfg.name /\ o.model = cfg.model /\ o.key /\ o.baseURL = "valid"
    BY <1>1, OpenedFacts
  <2>2. o.name # "exec"
    BY <1>4, <2>1 DEF Ready, Adapters
  <2>3. o.model # ""
    BY <1>5, <2>1, Zenon
  <2> HIDE DEF o
  <2>4. CanAsk(o)
    <3>1. CASE o.name = "openai-compatible"
      BY <2>1, <2>3, <3>1, Zenon DEF CanAsk
    <3>2. CASE o.name # "openai-compatible"
      BY <2>1, <2>2, <2>3, <3>2, Zenon DEF CanAsk
    <3> QED
      BY <3>1, <3>2
  <2> QED
    BY <2>4 DEF o
<1> QED
  BY <1>3, <1>10, <1>11 DEF r

LEMMA CloseFacts ==
  ASSUME NEW f, IsRecording(f)
  PROVE  Close(f).lines = f.lines /\ Close(f).header = f.header
BY DEF Close, IsRecording

LEMMA OpenReplayPlays ==
  ASSUME Shape, PlayInv, RecordInv, NEW from, OpenReplay(from)
  PROVE  PlayInv'
<1> DEFINE r == ReplayConfig
<1>1. phase = "completed" /\ Recording
  BY DEF OpenReplay
<1>2. CompletedInv
  BY <1>1, Zenon DEF PlayInv
<1>21. CASE ~openProvider(r, file)
  <2>1. phase' = "unplayable"
    BY <1>21 DEF OpenReplay
  <2> QED
    BY <2>1, PlayOver
<1>22. SUFFICES ASSUME openProvider(r, file) PROVE PlayInv'
  BY <1>21
<1>3. openProvider(r, file) /\ MayAsk(Opened(r, file))
  BY <1>1, <1>2, <1>22, CassetteOpens DEF MayAsk
<1>4. /\ phase' = "replaying" /\ cfg' = Opened(r, file) /\ file' = Close(file)
      /\ original' = ledger /\ ledger' = << >> /\ history' = << >>
      /\ next' = 0 /\ ctx' = Fresh /\ call' = NewCall /\ UNCHANGED <<answer, told>>
  BY <1>3, Zenon DEF OpenReplay
<1>5. /\ cfg'.name = cfg.name /\ cfg'.model = cfg.model /\ cfg'.timeout = cfg.timeout
      /\ cfg'.maxTokens = file.header.maxTokens
  BY <1>4, ReplayConfigFacts, OpenedFacts DEF Shape
<1> HIDE DEF r
<1>6. IsRecording(file)
  <2>1. Recorded
    BY <1>1, Zenon DEF RecordInv
  <2> QED
    BY <2>1 DEF Recorded
<1>7. file'.lines = file.lines /\ file'.header = file.header
  BY <1>4, <1>6, CloseFacts
<1>8. /\ IsSeq(original') /\ IsSeq(file'.lines) /\ Holds(file', file)
      /\ Len(original') \in Nat /\ Len(ledger') = 0 /\ Len(file.lines) \in Nat
  BY <1>4, <1>6, <1>7, SeqDomain, EmptySeq DEF IsRecording, Shape, Holds
<1>9. PICK start \in Starts(file, ledger) : Taped(file, cfg.timeout, ledger, start)
  BY <1>2 DEF CompletedInv
<1>10. start \in Starts(file', original') /\ Taped(file', cfg'.timeout, original', start) /\ start[1] = 1
  <2>1. start \in Starts(file', ledger) /\ Taped(file', cfg.timeout, ledger, start)
    BY <1>8, <1>9, TapedLonger DEF Shape
  <2> QED
    BY <1>4, <1>5, <2>1 DEF Taped
<1>11. history' = Said(original', Len(ledger') + 1)
  BY <1>4, <1>8, SaidFacts, EmptyOnly
<1>12. /\ ctx' = Fresh /\ cfg'.name = file'.header.provider /\ cfg'.model = file'.header.model
       /\ cfg'.maxTokens = file'.header.maxTokens
  BY <1>2, <1>4, <1>5, <1>7 DEF CompletedInv, Ready
<1>13. AllTold'
  BY <1>2, <1>4, <1>7 DEF CompletedInv, AllTold
<1>14. /\ Len(ledger') + 1 <= Len(original')
       /\ AllPropose(original', Len(original') - 1) /\ ~Proposes(original'[Len(original')].out.msg)
       /\ answer' = Pending
  BY <1>2, <1>4, <1>8 DEF CompletedInv
<1>15. /\ call'.recorded = << >> /\ call'.attempt = 1 /\ Len(call'.recorded) = 0
       /\ next' = 0 /\ start[Len(ledger') + 1] = 1
  BY <1>4, <1>8, <1>10, NewCallFacts, EmptySeq
<1>16. InStep(file, cfg.timeout, start[Len(ledger) + 1], Len(ledger) + 1)'
  BY <1>14, <1>15 DEF InStep
<1>17. ReplayInv'
  BY <1>8, <1>10, <1>11, <1>12, <1>13, <1>14, <1>15, <1>16 DEF ReplayInv
<1>18. \A n \in DOMAIN ledger' : FALSE
  BY <1>4, EmptySeq
<1> QED
  BY <1>3, <1>4, <1>17, <1>18 DEF PlayInv, SameTurns

(* Every judgement is a turn, an error or an interruption. *)
LEMMA DecodeResult ==
  ASSUME NEW adapter, NEW body
  PROVE  DecodeTurn(adapter, body).res \in {"turn", "error", "interrupted"}
<1> DEFINE reason == TruncationReason(adapter, body)
<1>1. truncatedCompletion(reason).res = "interrupted"
  <2>1. PICK was :
          CallInterrupted("truncated") = [res |-> "interrupted", kind |-> "truncated", reason |-> was,
                                          deadline |-> 0, status |-> 0, retryAfter |-> 0]
    BY Zenon DEF CallInterrupted
  <2>2. truncatedCompletion(reason) = [CallInterrupted("truncated") EXCEPT !.reason = reason]
    BY Zenon DEF truncatedCompletion
  <2> HIDE DEF reason
  <2> QED
    BY <2>1, <2>2
<1>2. Turn(body.msg).res = "turn" /\ \A why : Failure(why).res = "error"
  BY Outcomes
<1>3. \/ DecodeTurn(adapter, body) = truncatedCompletion(reason)
      \/ DecodeTurn(adapter, body) = Turn(body.msg)
      \/ \E why : DecodeTurn(adapter, body) = Failure(why)
  BY Zenon DEF DecodeTurn
<1> QED
  BY <1>1, <1>2, <1>3

LEMMA JudgeResult ==
  ASSUME NEW adapter, NEW t, NEW c, NEW now, NEW d
  PROVE  /\ JudgeTrip(adapter, t, c, now, d).res \in {"turn", "error", "interrupted"}
         /\ JudgeTrip(adapter, t, c, now, d) # Pending
<1>1. JudgeTrip(adapter, t, c, now, d).res \in {"turn", "error", "interrupted"}
  BY FailedResult, CutIsNoTurn, StatusResult, DecodeResult DEF JudgeTrip
<1> QED
  BY <1>1, Outcomes

LEMMA PlayReplaying ==
  ASSUME Shape', phase' = "replaying", MayAsk(cfg'), ReplayInv'
  PROVE  PlayInv'
<1>1. \A n \in DOMAIN ledger' : ledger'[n].out = original'[n].out
  BY SeqDomain DEF Shape, ReplayInv
<1> QED
  BY <1>1, Zenon DEF PlayInv, SameTurns

(* A request with another transcript is not the one a line answers. *)
LEMMA OtherRequest ==
  ASSUME NEW a, NEW m, NEW t, NEW b, NEW n, NEW u, NEW h, NEW g, RequestFor(a, m, t, h) = RequestFor(b, n, u, g)
  PROVE  h = g
BY DEF RequestFor

LEMMA LongerTranscript ==
  ASSUME NEW s, IsSeq(s), NEW e
  PROVE  <<e>> \o s # s
<1>1. PICK S : s \in Seq(S)
  BY DEF IsSeq
<1>2. s \in Seq(S \cup {e}) /\ <<e>> \in Seq(S \cup {e})
  BY <1>1
<1>3. Len(<<e>> \o s) = 1 + Len(s) /\ Len(s) \in Nat
  BY <1>2
<1> QED
  BY <1>3

(* The lines of the turn the replay is at. *)
LEMMA AtTurn ==
  ASSUME Shape, ReplayInv, NEW start \in Starts(file, original), Taped(file, cfg.timeout, original, start)
  PROVE  /\ Len(ledger) + 1 \in 1..Len(original) /\ Len(history) = Len(ledger)
         /\ IsSeq(history) /\ start[Len(ledger) + 1] \in Nat \ {0}
         /\ Taken(file, cfg.timeout, start[Len(ledger) + 1], original, Len(ledger) + 1)
         /\ start[Len(ledger) + 2] = start[Len(ledger) + 1] + 1 + Len(original[Len(ledger) + 1].interruptions)
         /\ Asked(file, start[Len(ledger) + 1], original, Len(ledger) + 1)
         /\ DOMAIN file.lines = 1..Len(file.lines) /\ Len(file.lines) \in Nat
<1>1. Len(ledger) \in Nat /\ Len(original) \in Nat /\ Len(file.lines) \in Nat /\ DOMAIN file.lines = 1..Len(file.lines)
  BY SeqDomain DEF Shape, ReplayInv
<1>2. Len(ledger) + 1 \in 1..Len(original) /\ history = Said(original, Len(ledger) + 1)
  BY <1>1 DEF ReplayInv
<1>3. Len(history) = Len(ledger) /\ IsSeq(history)
  BY <1>1, <1>2, SaidFacts
<1>4. start[Len(ledger) + 1] \in Nat \ {0}
  BY <1>1, <1>2 DEF Starts
<1>5. /\ Taken(file, cfg.timeout, start[Len(ledger) + 1], original, Len(ledger) + 1)
      /\ start[Len(ledger) + 2] = start[Len(ledger) + 1] + 1 + Len(original[Len(ledger) + 1].interruptions)
  BY <1>1, <1>2 DEF Taped
<1> QED
  BY <1>1, <1>2, <1>3, <1>4, <1>5 DEF Taken, Settled, Tried

LEMMA AttemptPlays ==
  ASSUME Shape, Shape', PlayInv, ReplayAttempt
  PROVE  PlayInv'
<1> DEFINE request == RequestFor(cfg.name, cfg.model, cfg.maxTokens, Transcript)
           d == cfg.timeout
           j == Len(ledger) + 1
<1>1. /\ phase = "replaying" /\ phase' = "replaying" /\ answer = Pending
      /\ answer' = JudgeTrip(cfg.name, PlayRoundTrip(file, next, request), ctx, ReplayDelay, d)
      /\ next' = PlayCursor(file, next, request)
      /\ UNCHANGED <<ctx, call, file, told, cfg, history, ledger, original, drift>>
  BY DEF ReplayAttempt
<1>2. ReplayInv /\ MayAsk(cfg')
  BY <1>1, Zenon DEF PlayInv
<1>3. PICK start \in Starts(file, original) :
        /\ Taped(file, d, original, start)
        /\ Drifted => next + 1 = start[j] /\ answer \in {Pending, CallInterrupted("transport")}
        /\ ~Drifted => InStep(file, d, start[j], j)
  BY <1>2 DEF ReplayInv
<1>4. /\ j \in 1..Len(original) /\ Len(history) = Len(ledger) /\ IsSeq(history) /\ start[j] \in Nat \ {0}
      /\ Taken(file, d, start[j], original, j) /\ Asked(file, start[j], original, j)
      /\ DOMAIN file.lines = 1..Len(file.lines) /\ Len(file.lines) \in Nat
  BY <1>2, <1>3, AtTurn
<1>5. history = Said(original, j) /\ ctx = Fresh
  BY <1>2 DEF ReplayInv
<1>6. /\ cfg.name = file.header.provider /\ cfg.model = file.header.model /\ cfg.maxTokens = file.header.maxTokens
  BY <1>2 DEF ReplayInv
<1>7. Drifted' = Drifted /\ Irreproducible' = Irreproducible
  BY <1>1 DEF Drifted, Irreproducible, TimedOut
<1>8. CASE Drifted
  <2>1. Transcript = <<"drifted">> \o history
    BY <1>8 DEF Transcript, Drifted
  <2>2. Transcript # history
    BY <1>4, <2>1, LongerTranscript
  <2>3. file.lines[next + 1].request # request
    <3>1. file.lines[next + 1].request =
            RequestFor(file.header.provider, file.header.model, file.header.maxTokens, history)
      BY <1>3, <1>4, <1>5, <1>8 DEF Asked
    <3> QED
      BY <2>2, <3>1, OtherRequest
  <2>4. ~Matches(file, next, request)
    BY <2>3 DEF Matches
  <2>5. PlayRoundTrip(file, next, request) = NoResponse /\ next' = next
    BY <1>1, <2>4 DEF PlayRoundTrip, PlayCursor
  <2>6. answer' = CallInterrupted("transport")
    <3>1. answer' = requestFailed(Fresh, d)
      BY <1>1, <1>5, <2>5, NoResponseFacts DEF JudgeTrip
    <3> QED
      BY <3>1 DEF requestFailed, Fresh
  <2>7. \E s \in Starts(file', original') :
          /\ Taped(file', cfg'.timeout, original', s)
          /\ Drifted' => next' + 1 = s[Len(ledger') + 1] /\ answer' \in {Pending, CallInterrupted("transport")}
          /\ ~Drifted' => InStep(file, cfg.timeout, s[Len(ledger) + 1], Len(ledger) + 1)'
    BY <1>1, <1>3, <1>7, <1>8, <2>5, <2>6
  <2>8. ReplayInv'
    BY <1>1, <1>2, <1>7, <2>5, <2>7 DEF ReplayInv, AllTold
  <2> QED
    BY <1>1, <1>2, <2>8, PlayReplaying
<1>9. CASE ~Drifted
  <2> DEFINE n == start[j] + Len(call.recorded)
  <2>1. /\ next + 1 = n
        /\ call.recorded = << >> \/ Len(original[j].interruptions) = 1
    BY <1>1, <1>3, <1>9 DEF InStep
  <2>2. call.recorded = << >> \/ Len(call.recorded) = 1
    BY <1>2 DEF ReplayInv
  <2>3. Asked(file, n, original, j)
    <3>1. CASE call.recorded = << >>
      <4>1. n = start[j]
        BY <1>4, <3>1, EmptySeq
      <4> QED
        BY <1>4, <4>1
    <3>2. CASE call.recorded # << >>
      <4>1. Len(original[j].interruptions) = 1 /\ n = start[j] + 1
        BY <2>1, <2>2, <3>2
      <4>2. original[j].interruptions # << >>
        <5>1. Len(<< >>) = 0 /\ Len(original[j].interruptions) # 0
          BY <4>1, EmptySeq
        <5> QED
          BY ONLY <5>1
      <4> QED
        BY <1>4, <4>1, <4>2 DEF Taken, Settled
    <3> QED
      BY <3>1, <3>2
  <2>4. Transcript = history
    BY <1>9 DEF Transcript, Drifted
  <2>5. n \in 1..Len(file.lines) /\ file.lines[n].request = request
    BY <1>4, <1>5, <1>6, <2>3, <2>4 DEF Asked
  <2>6. Matches(file, next, request)
    <3>1. next + 1 \in 1..Len(file.lines)
      BY <2>1, <2>5
    <3>2. next \in Nat
      BY <1>2 DEF ReplayInv
    <3> QED
      BY <1>4, <2>1, <2>5, <3>1, <3>2 DEF Matches
  <2> HIDE DEF n, request
  <2>7. PlayRoundTrip(file, next, request) = TripOf(file.lines[n]) /\ next' = n
    BY <1>1, <2>1, <2>6 DEF PlayRoundTrip, PlayCursor, TripOf
  <2>8. answer' = Verdict(file, d, n, Fresh, ReplayDelay) /\ answer' # Pending
    BY <1>1, <1>5, <1>6, <2>7, JudgeResult DEF Verdict
  <2>9. InStep(file, cfg.timeout, start[Len(ledger) + 1], Len(ledger) + 1)'
    <3>1. /\ call'.recorded = << >> \/
              /\ Len(original'[j].interruptions) = 1
              /\ ~Irreproducible' => call'.recorded = original'[j].interruptions
      BY <1>1, <1>3, <1>7, <1>9 DEF InStep
    <3> QED
      BY <1>1, <2>7, <2>8, <3>1 DEF InStep, n
  <2>10. next' \in Nat
    BY <1>4, <2>5, <2>7
  <2>11. ReplayInv'
    BY <1>1, <1>2, <1>3, <1>7, <1>9, <2>9, <2>10 DEF ReplayInv, AllTold
  <2> QED
    BY <1>1, <1>2, <2>11, PlayReplaying
<1> QED
  BY <1>8, <1>9

LEMMA FreshAgain == [Fresh EXCEPT !.attempt = "live"] = Fresh
BY DEF Fresh

(* The replay stops at an error: allowed of a drifted one, and of a        *)
(* recording that cannot be reproduced.                                    *)
LEMMA ErrorReplayed ==
  ASSUME Shape, ReplayInv, phase = "replaying", NEW o, NEW r, TurnEnds(o, r), o.res = "error",
         UNCHANGED <<original, drift, told>>, drift # 0 \/ Irreproducible
  PROVE  PlayInv'
<1> DEFINE x == [out |-> o, interruptions |-> r]
           j == Len(ledger) + 1
<1>1. phase' = "replayed" /\ ledger' = Append(ledger, x)
  BY DEF TurnEnds
<1>2. x.out = o
  OBVIOUS
<1> HIDE DEF x
<1>3. /\ Len(ledger) \in Nat /\ Len(ledger') = j /\ DOMAIN ledger' = 1..j /\ ledger'[j] = x
      /\ \A i \in 1..Len(ledger) : ledger'[i] = ledger[i]
  BY <1>1, AppendFacts DEF Shape
<1>4. ledger'[Len(ledger')].out.res = "error"
  BY <1>2, <1>3
<1>5. \A n \in DOMAIN ledger' : ledger'[n].out.res = "turn" => ledger'[n].out = original'[n].out
  BY <1>2, <1>3 DEF ReplayInv
<1>6. Irreproducible' = Irreproducible
  BY DEF Irreproducible, TimedOut
<1>7. SameTurns'
  BY <1>1, <1>4, <1>5, <1>6 DEF SameTurns
<1> QED
  BY <1>1, <1>7 DEF PlayInv

(* The replay takes the recorded turn. *)
LEMMA TurnReplayed ==
  ASSUME Shape, Shape', PlayInv, ReplayInv, phase = "replaying", ~Drifted,
         answer # Pending, answer' = Pending, UNCHANGED <<cfg, file, next, original, drift, told>>,
         answer = original[Len(ledger) + 1].out,
         ~Irreproducible => call.recorded = original[Len(ledger) + 1].interruptions,
         NEW start \in Starts(file, original), Taped(file, cfg.timeout, original, start),
         next = start[Len(ledger) + 1] + Len(original[Len(ledger) + 1].interruptions),
         TurnEnds(answer, call.recorded)
  PROVE  PlayInv'
<1> DEFINE x == [out |-> answer, interruptions |-> call.recorded]
           j == Len(ledger) + 1
           k == Len(original)
<1>1. /\ j \in 1..k /\ Len(history) = Len(ledger) /\ IsSeq(history) /\ start[j] \in Nat \ {0}
      /\ Taken(file, cfg.timeout, start[j], original, j)
      /\ start[j + 1] = start[j] + 1 + Len(original[j].interruptions)
  <2>1. Len(ledger) + 2 = j + 1
    BY SeqDomain DEF Shape
  <2> QED
    BY <2>1, AtTurn
<1>2. answer.res = "turn" /\ original[j] = [out |-> original[j].out, interruptions |-> original[j].interruptions]
  BY <1>1, Zenon DEF Taken
<1>3. /\ ledger' = Append(ledger, x) /\ history' = Append(history, answer.msg) /\ call' = NewCall
      /\ ctx' = [ctx EXCEPT !.attempt = "live"]
      /\ phase' \in {"replayed", "spent", "replaying"}
      /\ phase' = "replayed" <=> ~Proposes(answer.msg)
  BY <1>2 DEF TurnEnds
<1>4. x.out = answer /\ (~Irreproducible => x = original[j])
  BY <1>2
<1> HIDE DEF x
<1>5. /\ Len(ledger) \in Nat /\ Len(ledger') = j /\ IsSeq(ledger') /\ DOMAIN ledger' = 1..j /\ ledger'[j] = x
      /\ \A i \in 1..Len(ledger) : ledger'[i] = ledger[i]
  BY <1>3, AppendFacts DEF Shape
<1>6. /\ AllPropose(original, k - 1) /\ ~Proposes(original[k].out.msg) /\ ctx = Fresh /\ history = Said(original, j)
      /\ \A i \in 1..Len(ledger) : ledger[i].out = original[i].out /\ (~Irreproducible => ledger[i] = original[i])
      /\ IsSeq(original) /\ k \in Nat /\ DOMAIN original = 1..k
  BY SeqDomain DEF ReplayInv
<1>7. Irreproducible' = Irreproducible
  BY DEF Irreproducible, TimedOut
<1>8. \A i \in 1..j : ledger'[i].out = original[i].out /\ (~Irreproducible => ledger'[i] = original[i])
  BY <1>4, <1>5, <1>6
<1>9. Proposes(answer.msg) <=> j < k
  <2>1. j \in 1..k /\ k \in Nat
    BY ONLY <1>1, <1>6
  <2> HIDE DEF j, k
  <2>2. j < k => j \in 1..(k - 1)
    BY ONLY <2>1
  <2>3. j < k => Proposes(original[j].out.msg)
    BY ONLY <1>6, <2>2 DEF AllPropose
  <2>4. j < k \/ j = k
    BY ONLY <2>1
  <2>5. ~(j < k /\ j = k)
    BY ONLY <2>1
  <2>6. answer = original[j].out
    BY DEF j
  <2> QED
    BY ONLY <1>6, <2>3, <2>4, <2>5, <2>6
<1>10. CASE phase' = "spent"
  BY <1>10, PlayOver
<1>11. CASE phase' = "replayed"
  <2>1. j = k
    <3>1. ~(j < k) /\ j \in 1..k /\ k \in Nat
      BY ONLY <1>1, <1>3, <1>6, <1>9, <1>11
    <3> QED
      BY ONLY <3>1
  <2>2. ~Irreproducible => ledger' = original
    <3>1. SUFFICES ASSUME ~Irreproducible PROVE ledger' = original
      OBVIOUS
    <3>2. Len(ledger') = Len(original) /\ \A i \in 1..Len(original) : ledger'[i] = original[i]
      BY <1>5, <1>8, <2>1, <3>1
    <3>3. PICK S, T : ledger' \in Seq(S) /\ original \in Seq(T)
      BY <1>5, <1>6 DEF IsSeq
    <3>4. ledger' \in Seq(S \cup T) /\ original \in Seq(S \cup T)
      BY <3>3
    <3> QED
      BY <3>2, <3>4
  <2>3. drift \notin DOMAIN original
    BY <1>1, <1>5, <1>6, <2>1 DEF Drifted
  <2>4. \A n \in DOMAIN ledger' : ledger'[n].out = original'[n].out
    BY <1>5, <1>8
  <2>5. SameTurns'
    BY <1>7, <1>11, <2>2, <2>3, <2>4 DEF SameTurns
  <2> QED
    BY <1>11, <2>5 DEF PlayInv
<1>12. CASE phase' = "replaying"
  <2>1. j < k
    BY <1>3, <1>9, <1>12
  <2>2. history' = Said(original, j + 1) /\ Len(history') = j
    <3>1. j \in Nat \ {0} /\ j + 1 \in Nat \ {0} /\ (j + 1) - 1 = j
      BY ONLY <1>5
    <3>2. history' = Append(Said(original, j), original[j].out.msg)
      BY ONLY <1>3, <1>6, answer = original[Len(ledger) + 1].out
    <3> HIDE DEF j
    <3>3. history' = Said(original, j + 1)
      BY ONLY <3>1, <3>2, SaidMore
    <3> QED
      BY ONLY <3>1, <3>3, SaidFacts
  <2>3. next + 1 = start[j + 1] /\ start[j + 1] \in Nat /\ next \in Nat
    <3>1. next \in Nat
      BY DEF ReplayInv
    <3>2. /\ start[j] \in Nat /\ start[j + 1] = start[j] + 1 + Len(original[j].interruptions)
          /\ next = start[j] + Len(original[j].interruptions)
      BY <1>1
    <3>3. Len(original[j].interruptions) \in Int
      <4>1. original[j].interruptions = << >> \/ \E e : original[j].interruptions = <<e>>
        BY <1>1 DEF Taken, Tried
      <4> QED
        BY ONLY <4>1
    <3> HIDE DEF j
    <3> QED
      BY ONLY <3>1, <3>2, <3>3
  <2>4. /\ call'.recorded = << >> /\ call'.attempt = 1 /\ Len(call'.recorded) = 0 /\ ctx' = Fresh
    BY <1>3, <1>6, NewCallFacts, EmptySeq, FreshAgain
  <2>5. InStep(file, cfg.timeout, start[Len(ledger) + 1], Len(ledger) + 1)'
    BY <1>5, <2>3, <2>4 DEF InStep
  <2>6. \E s \in Starts(file', original') :
          /\ Taped(file', cfg'.timeout, original', s)
          /\ Drifted' => next' + 1 = s[Len(ledger') + 1] /\ answer' \in {Pending, CallInterrupted("transport")}
          /\ ~Drifted' => InStep(file, cfg.timeout, s[Len(ledger) + 1], Len(ledger) + 1)'
    BY <1>5, <2>3, <2>5
  <2>7. ReplayInv'
    <3>1. Len(ledger') + 1 <= Len(original') /\ history' = Said(original', Len(ledger') + 1)
      BY <1>5, <1>6, <2>1, <2>2
    <3>2. /\ cfg'.name = file'.header.provider /\ cfg'.model = file'.header.model
          /\ cfg'.maxTokens = file'.header.maxTokens
          /\ AllTold' /\ IsSeq(original') /\ IsSeq(file'.lines) /\ next' \in Nat
      BY DEF ReplayInv, AllTold
    <3> QED
      BY <1>5, <1>6, <1>7, <1>8, <2>4, <2>6, <3>1, <3>2 DEF ReplayInv
  <2>8. MayAsk(cfg')
    BY Zenon DEF PlayInv
  <2> QED
    BY <1>12, <2>7, <2>8, PlayReplaying
<1> QED
  BY <1>3, <1>10, <1>11, <1>12

(* An interruption sends the replay to its second attempt. *)
LEMMA RetryReplayed ==
  ASSUME Shape, Shape', PlayInv, ReplayInv, phase = "replaying", answer # Pending, answer' = Pending,
         UNCHANGED <<cfg, file, next, original, drift, told>>,
         NEW r, Retry(r), Len(r) = 1, call.attempt = 1,
         NEW start \in Starts(file, original), Taped(file, cfg.timeout, original, start),
         Drifted => next + 1 = start[Len(ledger) + 1],
         ~Drifted =>
            /\ next = start[Len(ledger) + 1]
            /\ Len(original[Len(ledger) + 1].interruptions) = 1
            /\ ~Irreproducible => r = original[Len(ledger) + 1].interruptions
  PROVE  PlayInv'
<1>1. /\ call'.recorded = r /\ call'.attempt = 2 /\ ctx' = [ctx EXCEPT !.attempt = "live"]
      /\ UNCHANGED <<ledger, history, phase>>
  BY DEF Retry, NewCall
<1>2. ctx' = Fresh /\ next \in Nat
  BY <1>1, FreshAgain DEF ReplayInv
<1>3. Drifted' = Drifted /\ Irreproducible' = Irreproducible
  BY <1>1 DEF Drifted, Irreproducible, TimedOut
<1>4. ~Drifted => InStep(file, cfg.timeout, start[Len(ledger) + 1], Len(ledger) + 1)'
  BY <1>1, <1>2, <1>3 DEF InStep
<1>5. \E s \in Starts(file', original') :
        /\ Taped(file', cfg'.timeout, original', s)
        /\ Drifted' => next' + 1 = s[Len(ledger') + 1] /\ answer' \in {Pending, CallInterrupted("transport")}
        /\ ~Drifted' => InStep(file, cfg.timeout, s[Len(ledger) + 1], Len(ledger) + 1)'
  BY <1>1, <1>3, <1>4
<1>6. ReplayInv'
  BY <1>1, <1>2, <1>3, <1>5 DEF ReplayInv, AllTold
<1>7. MayAsk(cfg')
  BY Zenon DEF PlayInv
<1> QED
  BY <1>1, <1>6, <1>7, PlayReplaying

(* What a recorded interruption that cannot be reproduced shows of itself. *)
LEMMA NotReproduced ==
  ASSUME AllTold, NEW j \in DOMAIN original, NEW n \in DOMAIN file.lines, NEW c, NEW d,
         IsInterruption(Verdict(file, d, n, c, 0)),
         original[j].interruptions = <<Record(Verdict(file, d, n, c, 0), 1)>>,
         Verdict(file, d, n, Fresh, ReplayDelay) # Verdict(file, d, n, c, 0)
  PROVE  Irreproducible
<1> DEFINE A == Verdict(file, d, n, c, 0)
           line == file.lines[n]
<1>1. \/ A.kind = "timeout"
      \/ TripOf(line).status # 0 /\ TripOf(line).retryAfter.form = "date"
  BY InterruptionJudgedAgain DEF Verdict
<1> HIDE DEF A
<1>2. CASE A.kind = "timeout"
  <2>1. Record(A, 1).kind = "timeout"
    BY <1>2, Zenon DEF Record
  <2>2. original[j].interruptions = <<Record(A, 1)>>
    BY DEF A
  <2>3. 1 \in DOMAIN original[j].interruptions /\ original[j].interruptions[1].kind = "timeout"
    BY <2>1, <2>2
  <2> QED
    BY <2>3 DEF Irreproducible, TimedOut
<1>3. CASE TripOf(line).status # 0 /\ TripOf(line).retryAfter.form = "date"
  <2>1. line.status # 0
    BY <1>3, NoResponseFacts DEF TripOf
  <2>2. TripOf(line).retryAfter = line.retryAfter
    BY <2>1 DEF TripOf
  <2>3. PICK m \in DOMAIN told : told[m].retryAfter = line.retryAfter
    BY <2>1 DEF AllTold
  <2> QED
    BY <1>3, <2>2, <2>3 DEF Irreproducible
<1> QED
  BY <1>1, <1>2, <1>3

LEMMA CallReplayed ==
  ASSUME Shape, Shape', PlayInv, callProvider, phase = "replaying"
  PROVE  PlayInv'
<1> DEFINE d == cfg.timeout
           j == Len(ledger) + 1
           r == Append(call.recorded, Record(answer, call.attempt))
<1>1. /\ answer # Pending /\ answer' = Pending /\ UNCHANGED <<cfg, file, next, original, drift, told>>
      /\ \/ ~IsInterruption(answer) /\ TurnEnds(answer, call.recorded)
         \/ IsInterruption(answer) /\ Interrupted(r)
  BY DEF callProvider
<1>2. ReplayInv
  BY Zenon DEF PlayInv
<1>3. PICK start \in Starts(file, original) :
        /\ Taped(file, d, original, start)
        /\ Drifted => next + 1 = start[j] /\ answer \in {Pending, CallInterrupted("transport")}
        /\ ~Drifted => InStep(file, d, start[j], j)
  BY <1>2 DEF ReplayInv
<1>4. /\ j \in 1..Len(original) /\ start[j] \in Nat \ {0}
      /\ Taken(file, d, start[j], original, j) /\ Asked(file, start[j], original, j)
      /\ DOMAIN original = 1..Len(original)
  BY <1>2, <1>3, AtTurn, SeqDomain DEF ReplayInv
<1>5. /\ (call.recorded = << >> /\ call.attempt = 1) \/ (Len(call.recorded) = 1 /\ call.attempt = 2)
      /\ ctx.caller = "live" /\ AllTold
  BY <1>2 DEF ReplayInv, Fresh
<1>6. ~Live
  BY DEF Live
<1>7. IsInterruption(answer) =>
        \/ call.attempt = 2 /\ TurnEnds(Failure("interrupted"), r)
        \/ call.attempt = 1 /\ Retry(r)
  BY <1>1, <1>5, <1>6 DEF Interrupted, providerAttempts
<1>8. call.attempt = 1 => r = <<Record(answer, 1)>> /\ Len(r) = 1 /\ call.recorded = << >> /\ Len(call.recorded) = 0
  <2>1. SUFFICES ASSUME call.attempt = 1
                 PROVE  r = <<Record(answer, 1)>> /\ Len(r) = 1 /\ call.recorded = << >> /\ Len(call.recorded) = 0
    OBVIOUS
  <2>2. call.recorded = << >>
    BY <1>5, <2>1
  <2> QED
    BY <2>1, <2>2
<1> HIDE DEF r
<1>9. CASE Drifted
  <2>1. drift # 0
    BY <1>9 DEF Drifted
  <2>2. answer = CallInterrupted("transport") /\ IsInterruption(answer)
    BY <1>1, <1>3, <1>9, InterruptionFacts DEF IsInterruption
  <2>3. CASE call.attempt = 2 /\ TurnEnds(Failure("interrupted"), r)
    BY <1>1, <1>2, <2>1, <2>3, ErrorReplayed, Outcomes
  <2>4. CASE call.attempt = 1 /\ Retry(r)
    BY <1>1, <1>2, <1>3, <1>8, <1>9, <2>4, RetryReplayed
  <2> QED
    BY <1>7, <2>2, <2>3, <2>4
<1>10. CASE ~Drifted
  <2> DEFINE b == start[j]
             n == b + Len(call.recorded)
  <2>1. /\ next = n /\ answer = Verdict(file, d, n, Fresh, ReplayDelay)
        /\ call.recorded = << >> \/
            /\ Len(original[j].interruptions) = 1
            /\ ~Irreproducible => call.recorded = original[j].interruptions
    BY <1>1, <1>3, <1>10 DEF InStep
  <2>2. ASSUME Settled(file, d, n, original, j)
        PROVE  answer = original[j].out /\ ~IsInterruption(answer)
    <3>1. PICK c \in Contexts : original[j].out = Verdict(file, d, n, c, 0)
      BY <2>2 DEF Settled
    <3>2. original[j].out.res = "turn"
      BY <1>4 DEF Taken
    <3> HIDE DEF n
    <3>3. answer = original[j].out
      BY <2>1, <3>1, <3>2, TurnJudgedAgain DEF Verdict
    <3> QED
      BY <3>2, <3>3 DEF IsInterruption
  <2>3. CASE call.recorded = << >> /\ original[j].interruptions = << >>
    <3>1. n = b /\ Len(original[j].interruptions) = 0
      BY <1>4, <2>3, EmptySeq
    <3>2. Settled(file, d, b, original, j)
      <4>1. \A e : << >> # <<e>>
        OBVIOUS
      <4> QED
        BY <1>4, <2>3, <4>1 DEF Taken, Tried
    <3>3. answer = original[j].out /\ TurnEnds(answer, call.recorded)
      BY <1>1, <2>2, <3>1, <3>2
    <3>4. next = b + Len(original[j].interruptions)
      BY <1>4, <2>1, <3>1
    <3> QED
      BY <1>1, <1>2, <1>3, <1>10, <2>3, <3>3, <3>4, TurnReplayed
  <2>4. CASE call.recorded = << >> /\ original[j].interruptions # << >>
    <3>1. Tried(file, d, b, original, j, original[j].interruptions)
      BY <1>4, <2>4 DEF Taken
    <3>2. PICK c \in Contexts :
            /\ IsInterruption(Verdict(file, d, b, c, 0))
            /\ original[j].interruptions = <<Record(Verdict(file, d, b, c, 0), 1)>>
      BY <3>1 DEF Tried
    <3>3. n = b /\ b \in DOMAIN file.lines /\ call.attempt = 1 /\ Len(original[j].interruptions) = 1
      <4>1. n = b /\ b \in DOMAIN file.lines
        BY <1>4, <2>4, <3>1, EmptySeq DEF Tried, Asked
      <4>2. call.attempt = 1
        BY <1>5, <2>4, EmptySeq
      <4>3. Len(original[j].interruptions) = 1
        BY <3>2
      <4> QED
        BY <4>1, <4>2, <4>3
    <3>4. answer = Verdict(file, d, b, Fresh, ReplayDelay) /\ next = b
      BY <2>1, <3>3
    <3> HIDE DEF b, n, j
    <3>5. answer.res \in {"error", "interrupted"}
      <4>1. answer.res # "turn"
        BY <3>2, <3>4, InterruptionJudgedAgain DEF Verdict
      <4>2. answer.res \in {"turn", "error", "interrupted"}
        BY <3>4, JudgeResult DEF Verdict
      <4> QED
        BY <4>1, <4>2
    <3>6. answer # Verdict(file, d, b, c, 0) => Irreproducible
      BY <1>4, <1>5, <3>2, <3>3, <3>4, NotReproduced
    <3>7. CASE ~IsInterruption(answer)
      <4>1. answer.res = "error" /\ Irreproducible
        BY <3>2, <3>5, <3>6, <3>7 DEF IsInterruption
      <4> QED
        BY <1>1, <1>2, <3>7, <4>1, ErrorReplayed
    <3>8. CASE IsInterruption(answer)
      <4>1. Retry(r) /\ Len(r) = 1
        BY <1>7, <1>8, <3>3, <3>8
      <4>2. ~Irreproducible => r = original[j].interruptions
        BY <1>8, <3>2, <3>3, <3>6
      <4> QED
        BY <1>1, <1>2, <1>3, <1>10, <3>3, <3>4, <4>1, <4>2, RetryReplayed DEF j, b
    <3> QED
      BY <3>7, <3>8
  <2>5. CASE call.recorded # << >>
    <3>1. Len(original[j].interruptions) = 1 /\ Len(call.recorded) = 1
      BY <1>5, <2>1, <2>5
    <3>2. original[j].interruptions # << >>
      <4>1. Len(<< >>) = 0 /\ Len(original[j].interruptions) # 0
        BY <3>1, EmptySeq
      <4> QED
        BY ONLY <4>1
    <3>3. Settled(file, d, n, original, j)
      <4>1. Settled(file, d, b + 1, original, j) /\ n = b + 1
        BY <1>4, <3>1, <3>2 DEF Taken
      <4> QED
        BY <4>1
    <3>4. answer = original[j].out /\ TurnEnds(answer, call.recorded)
      BY <1>1, <2>2, <3>3
    <3>5. next = b + Len(original[j].interruptions)
      BY <2>1, <3>1
    <3> QED
      BY <1>1, <1>2, <1>3, <1>10, <2>1, <2>5, <3>4, <3>5, TurnReplayed
  <2> QED
    BY <2>3, <2>4, <2>5
<1> QED
  BY <1>9, <1>10

(***************************************************************************)
(* An agent command without a first word.                                  *)
(***************************************************************************)
LEMMA NextIdle == Shape /\ ExecInv /\ PlayInv /\ IdleInv /\ [Next]_vars => IdleInv'
<1> SUFFICES ASSUME Shape, ExecInv, PlayInv, IdleInv, [Next]_vars, phase' = "live", Blank(cfg')
             PROVE  proc' = NoProcess /\ history' = << >> /\ answer'.res # "turn"
  BY DEF IdleInv, Live
<1>1. \A why : Failure(why).res # "turn"
  BY Outcomes
<1>2. Pending.res # "turn"
  BY NoTurnYet
<1>3. ASSUME NEW served \in BOOLEAN, OpenSession(served)
      PROVE  proc' = NoProcess /\ history' = << >> /\ answer'.res # "turn"
  <2>1. phase = "opening" /\ UNCHANGED <<proc, answer, history>>
    BY <1>3 DEF OpenSession
  <2>2. answer = Pending /\ history = << >>
    BY <2>1, Zenon DEF PlayInv
  <2>3. proc = NoProcess
    BY <2>1 DEF ExecInv
  <2> QED
    BY <1>2, <2>1, <2>2, <2>3
<1>4. CASE ~(phase = "live" /\ cfg' = cfg)
  <2>1. \E served \in BOOLEAN : OpenSession(served)
    BY <1>4 DEF Next, DeadlinePasses, CallerCancels, SendRequest, TransportFails, ResponseArrives, RecordExchange,
                Judge, ExecBegins, ExecStep, callProvider, Interrupted, TurnEnds, Retry, SleepEnds, Crash,
                OpenReplay, ReplayAttempt, session, vars, Live
  <2> QED
    BY <1>3, <2>1
<1>5. CASE phase = "live" /\ cfg' = cfg
  <2>1. proc = NoProcess /\ history = << >> /\ answer.res # "turn" /\ ~Hosted /\ cfg.command = "blank"
    BY <1>5 DEF IdleInv, Live, Blank, Hosted, Adapters
  <2>2. proc.stage = "idle"
    BY <2>1, NoProcessFacts
  <2>3. CASE UNCHANGED <<proc, answer, history>>
    BY <2>1, <2>3
  <2>4. CASE ExecBegins
    <3>1. history' = history
      BY <2>4 DEF ExecBegins, session
    <3>2. proc' = NoProcess /\ answer' \in {Failure("cancelled"), Failure("start")}
      BY <2>1, <2>4 DEF ExecBegins, StartAgent
    <3> QED
      BY <1>1, <2>1, <3>1, <3>2
  <2>5. CASE ExecStep
    BY <2>2, <2>5 DEF ExecStep, ExecSteps, AgentWrites, AgentForks, AgentEnds, HelperEnds, Alive, SelectWaited,
                      SelectExceeded, SelectDone, stopProcessGroup, removeContainer, CutShort, ReadResponse
  <2>6. CASE callProvider
    <3>1. proc' = proc /\ answer' = Pending
      BY <2>6 DEF callProvider
    <3>2. history' = history
      BY <1>1, <2>1, <2>6 DEF callProvider, Interrupted, TurnEnds, Retry
    <3> QED
      BY <1>2, <2>1, <3>1, <3>2
  <2>7. CASE SleepEnds
    <3>1. UNCHANGED <<proc, answer>>
      BY <2>7 DEF SleepEnds
    <3>2. history' = history
      BY <1>1, <2>7 DEF SleepEnds, TurnEnds, Retry
    <3> QED
      BY <2>1, <3>1, <3>2
  <2>8. CASE DeadlinePasses \/ CallerCancels \/ UNCHANGED vars
    BY <2>3, <2>8 DEF DeadlinePasses, CallerCancels, session, vars
  <2>9. ~(SendRequest \/ TransportFails \/ Judge)
    BY <1>5, <2>1 DEF SendRequest, TransportFails, Judge, Shape, Live
  <2>10. \A trip : ~ResponseArrives(trip)
    BY <1>5, <2>1 DEF ResponseArrives, Shape, Live
  <2>11. \A written : ~RecordExchange(written)
    BY <1>5, <2>1 DEF RecordExchange, Shape, Live
  <2>12. ~Crash /\ ~ReplayAttempt /\ \A from : ~OpenReplay(from)
    BY <1>5 DEF Crash, ReplayAttempt, OpenReplay
  <2>13. \A served : ~OpenSession(served)
    BY <1>5 DEF OpenSession
  <2> QED
    BY <2>4, <2>5, <2>6, <2>7, <2>8, <2>9, <2>10, <2>11, <2>12, <2>13 DEF Next
<1> QED
  BY <1>4, <1>5

(***************************************************************************)
(* Statuses that LoadCassette does not read.                               *)
(***************************************************************************)
(* Such a status is never a turn, and interrupts the attempt only when the *)
(* body stopped at the deadline.                                           *)
LEMMA OddVerdict ==
  ASSUME NEW f, NEW n, Odd(f.lines[n]), NEW d, NEW c, NEW now
  PROVE  /\ Verdict(f, d, n, c, now).res # "turn"
         /\ IsInterruption(Verdict(f, d, n, c, now)) => Verdict(f, d, n, c, now).kind = "timeout"
<1> DEFINE t == TripOf(f.lines[n])
           v == Verdict(f, d, n, c, now)
<1>1. t.status = f.lines[n].status /\ t.status # 0
  BY DEF TripOf, Odd
<1>2. /\ t.status \notin 200..299 /\ t.status # 429
      /\ t.status \notin {500, 502, 503, 504} /\ t.status # anthropicOverloaded
  BY <1>1 DEF Odd, anthropicOverloaded
<1>3. v = interrupted(c, d) \/ v = Failure("status")
  <2>1. v = JudgeTrip(f.header.provider, t, c, now, d)
    BY DEF Verdict
  <2> HIDE DEF t, v
  <2>2. t.status \notin {429} \cup Transient(f.header.provider)
    BY <1>2 DEF Transient
  <2> QED
    BY <1>1, <1>2, <2>1, <2>2 DEF JudgeTrip, statusInterruption
<1> HIDE DEF v, t
<1>4. interrupted(c, d).res # "turn" /\ (IsInterruption(interrupted(c, d)) => interrupted(c, d).kind = "timeout")
  BY Outcomes DEF interrupted, Given, CallInterrupted, IsInterruption
<1>5. Failure("status").res = "error"
  BY Outcomes
<1> QED
  BY <1>3, <1>4, <1>5 DEF IsInterruption, v

LEMMA InitTimed == Init => TimedInv
BY DEF Init, TimedInv, Live, Playable

(* A step that leaves the file, the ledger and what the turn has recorded. *)
LEMMA TimedKept ==
  ASSUME TimedInv, phase = "live", phase' = "live", UNCHANGED <<cfg, file, ledger>>, call'.recorded = call.recorded,
         call.stage = "answered" => call'.stage = "answered"
  PROVE  TimedInv'
BY DEF TimedInv, Live, Recording, Playable

LEMMA TimedOver ==
  ASSUME phase' \notin {"live", "completed", "unplayable"}
  PROVE  TimedInv'
BY DEF TimedInv, Live, Playable

LEMMA TimedUnrecorded ==
  ASSUME ~Recording', phase' # "unplayable"
  PROVE  TimedInv'
BY DEF TimedInv, Playable

(* A turn that ends with its interruptions in the ledger. *)
LEMMA TimedTurn ==
  ASSUME Shape, NEW o, NEW r, TurnEnds(o, r), Timed(ledger) \/ HasTimeout(r)
  PROVE  Timed(ledger')
<1> DEFINE x == [out |-> o, interruptions |-> r]
<1>1. ledger' = Append(ledger, x) /\ x.interruptions = r
  BY DEF TurnEnds
<1> HIDE DEF x
<1>2. /\ Len(ledger) + 1 \in DOMAIN ledger' /\ ledger'[Len(ledger) + 1] = x
      /\ \A n \in DOMAIN ledger : n \in DOMAIN ledger' /\ ledger'[n] = ledger[n]
  BY <1>1, AppendFacts DEF Shape
<1> QED
  BY <1>1, <1>2 DEF Timed

(* Whatever the file holds, an answer is what its last line was judged as. *)
LEMMA AnswerIsVerdict ==
  ASSUME Shape, RecordingInv, ~file.failed, answer # Pending
  PROVE  /\ call.stage = "answered" /\ Len(file.lines) \in DOMAIN file.lines
         /\ \E x \in Contexts : answer = Verdict(file, cfg.timeout, Len(file.lines), x, 0)
<1>1. PICK start \in Starts(file, ledger) :
        UnderWay(call, answer, file, cfg.timeout, ledger, start[Len(ledger) + 1])
  BY DEF RecordingInv
<1>2. call.stage = "answered"
  BY <1>1 DEF UnderWay
<1> QED
  BY <1>1, <1>2 DEF UnderWay, Asked

LEMMA CallTimed ==
  ASSUME Shape, PlayInv, TimedInv, callProvider, phase = "live", Recording
  PROVE  TimedInv'
<1> DEFINE last == Len(file.lines)
           r == Append(call.recorded, Record(answer, call.attempt))
<1>1. answer # Pending /\ UNCHANGED <<cfg, file>>
  BY DEF callProvider
<1>2. RecordingInv
  BY Zenon DEF PlayInv
<1>3. IsSeq(ledger)
  BY DEF Shape
<1>4. CASE phase' \notin {"live", "completed"}
  <2>1. phase' # "unplayable"
    BY DEF callProvider, Interrupted, TurnEnds, Retry
  <2> QED
    BY <1>4, <2>1, TimedOver
<1>5. CASE file.failed
  <2>1. answer.res # "turn"
    BY <1>2, <1>5 DEF RecordingInv, Dead
  <2>2. phase' # "completed" /\ phase' # "unplayable"
    BY <2>1, Outcomes DEF callProvider, Interrupted, TurnEnds, Retry
  <2> QED
    BY <1>1, <1>5, <2>2 DEF TimedInv, Playable
<1>6. CASE ~file.failed /\ phase' \in {"live", "completed"}
  <2>1. /\ call.stage = "answered" /\ last \in DOMAIN file.lines
        /\ \E x \in Contexts : answer = Verdict(file, cfg.timeout, last, x, 0)
    BY <1>1, <1>2, <1>6, AnswerIsVerdict
  <2>2. Odd(file.lines[last]) => answer.res # "turn" /\ (IsInterruption(answer) => answer.kind = "timeout")
    BY <2>1, OddVerdict
  <2>3. \/ Timed(ledger) \/ HasTimeout(call.recorded)
        \/ \A n \in DOMAIN file.lines : Odd(file.lines[n]) => n = last
    BY <1>6 DEF TimedInv, Live
  <2>6. IsSeq(call.recorded)
    <3>1. call.recorded = << >> \/ \E e : call.recorded = <<e>>
      BY <1>2, <1>6 DEF RecordingInv, UnderWay, Tried
    <3>2. \A e : <<e>> \in Seq({e})
      OBVIOUS
    <3> QED
      BY <3>1, <3>2, EmptySeq DEF IsSeq
  <2> HIDE DEF last
  <2>4. CASE ~IsInterruption(answer) /\ TurnEnds(answer, call.recorded)
    <3>1. answer.res = "turn"
      BY <1>6, <2>4 DEF TurnEnds
    <3>2. Timed(ledger') \/ \A n \in DOMAIN file.lines : ~Odd(file.lines[n])
      BY <2>2, <2>3, <2>4, <3>1, TimedTurn
    <3> QED
      BY <1>1, <1>6, <3>2 DEF TimedInv, Playable
  <2>5. CASE IsInterruption(answer) /\ Interrupted(r)
    <3>1. UNCHANGED <<ledger, phase>> /\ call'.recorded = r
      <4>1. \A why : Failure(why).res # "turn"
        BY Outcomes
      <4>2. ~TurnEnds(Failure("interrupted"), r) /\ ~TurnEnds(Failure("cancelled"), r)
        BY <1>6, <4>1 DEF TurnEnds
      <4>3. \/ Retry(r)
            \/ /\ call' = [call EXCEPT !.stage = "sleep", !.recorded = r]
               /\ UNCHANGED <<ctx, ledger, history, phase>>
        BY <2>5, <4>2, Zenon DEF Interrupted
      <4> HIDE DEF r
      <4> QED
        BY <4>3 DEF Retry, NewCall, Shape, IsCall
    <3>2. HasTimeout(call.recorded) => HasTimeout(r)
      BY <2>6, AppendFacts DEF HasTimeout
    <3>3. Odd(file.lines[last]) => HasTimeout(r)
      <4>1. ASSUME Odd(file.lines[last]) PROVE HasTimeout(r)
        <5>1. Record(answer, call.attempt).kind = "timeout"
          BY <2>2, <2>5, <4>1 DEF Record
        <5> QED
          BY <2>6, <5>1, AppendFacts DEF HasTimeout
      <4> QED
        BY <4>1
    <3>4. \/ Timed(ledger') \/ HasTimeout(call'.recorded)
          \/ \A n \in DOMAIN file'.lines : ~Odd(file'.lines[n])
      BY <1>1, <2>3, <3>1, <3>2, <3>3
    <3>5. phase' = "live"
      BY <3>1
    <3> QED
      BY <3>4, <3>5 DEF TimedInv, Playable
  <2> QED
    BY <1>1, <2>4, <2>5 DEF callProvider
<1> QED
  BY <1>4, <1>5, <1>6

LEMMA SleepTimed ==
  ASSUME Shape, TimedInv, SleepEnds
  PROVE  TimedInv'
<1>1. phase = "live" /\ call.stage = "sleep" /\ UNCHANGED <<cfg, file>>
  BY DEF SleepEnds, Live
<1>2. CASE Retry(call.recorded)
  <2>1. phase' = "live" /\ ledger' = ledger /\ call'.recorded = call.recorded
    BY <1>1, <1>2 DEF Retry, NewCall
  <2> QED
    BY <1>1, <2>1, TimedKept
<1>3. CASE TurnEnds(Failure("cancelled"), call.recorded)
  <2>1. phase' = "failed"
    BY <1>1, <1>3, Outcomes DEF TurnEnds
  <2> QED
    BY <2>1, TimedOver
<1> QED
  BY <1>2, <1>3 DEF SleepEnds

(* The line just written is the only one that may be odd. *)
LEMMA RecordTimed ==
  ASSUME Shape, RecordInv, PlayInv, TimedInv, NEW written, RecordExchange(written)
  PROVE  TimedInv'
<1> DEFINE request == RequestFor(cfg.name, cfg.model, cfg.maxTokens, history)
           ex == Exchange(request, call.trip)
<1>1. /\ phase = "live" /\ phase' = "live" /\ call.stage = "write" /\ UNCHANGED <<cfg, ledger>>
      /\ file' = record(file, ex, written)
      /\ call'.stage = "answered" /\ call'.recorded = call.recorded
  BY DEF RecordExchange, session, Live, Shape, IsCall
<1>2. CASE ~Recording
  BY <1>1, <1>2, TimedUnrecorded DEF Recording
<1>3. CASE Recording
  <2>1. Recorded /\ RecordingInv
    BY <1>1, <1>3, Zenon DEF RecordInv, PlayInv
  <2>2. ~file.failed
    BY <1>1, <2>1 DEF RecordingInv, Dead
  <2>3. usable(file)
    BY <2>1, <2>2 DEF usable, RecordingInv
  <2>4. DOMAIN ex = {"seq", "request", "status", "retryAfter", "body", "error"}
    BY DEF Exchange
  <2> HIDE DEF ex
  <2>5. CASE written # "whole"
    <3>1. file'.failed = TRUE
      BY <1>1, <2>1, <2>3, <2>5 DEF record, Recorded, IsRecording
    <3> QED
      BY <1>1, <3>1 DEF TimedInv, Playable
  <2>6. CASE written = "whole"
    <3>1. PICK x : file'.lines = Append(file.lines, x)
      <4>1. file' = [file EXCEPT !.lines = Append(@, [ex EXCEPT !.seq = file.seq + 1]), !.seq = @ + 1]
        BY <1>1, <2>3, <2>6 DEF record
      <4>2. "lines" \in DOMAIN file
        BY <2>1 DEF Recorded, IsRecording
      <4> QED
        BY <4>1, <4>2
    <3>2. IsSeq(file.lines)
      BY <2>1 DEF Recorded, IsRecording
    <3>3. /\ Len(file'.lines) = Len(file.lines) + 1 /\ DOMAIN file'.lines = 1..(Len(file.lines) + 1)
          /\ \A n \in 1..Len(file.lines) : file'.lines[n] = file.lines[n]
          /\ DOMAIN file.lines = 1..Len(file.lines) /\ Len(file.lines) \in Nat
      BY <3>1, <3>2, AppendFacts
    <3>4. \/ Timed(ledger) \/ HasTimeout(call.recorded)
          \/ \A n \in DOMAIN file.lines : ~Odd(file.lines[n])
      BY <1>1, <1>3, <2>2 DEF TimedInv, Live
    <3>5. \/ Timed(ledger') \/ HasTimeout(call'.recorded)
          \/ \A n \in DOMAIN file'.lines : Odd(file'.lines[n]) => n = Len(file'.lines)
      BY <1>1, <3>3, <3>4
    <3> QED
      BY <1>1, <3>5 DEF TimedInv, Playable
  <2> QED
    BY <2>5, <2>6
<1> QED
  BY <1>2, <1>3

(* A recording that its replay cannot open holds such a status. *)
LEMMA ReplayTimed ==
  ASSUME Shape, RecordInv, PlayInv, TimedInv, NEW from, OpenReplay(from)
  PROVE  TimedInv'
<1>1. phase = "completed" /\ Recording /\ original' = ledger /\ told' = told
  BY DEF OpenReplay
<1>2. CASE openProvider(ReplayConfig, file)
  <2>1. phase' = "replaying"
    BY <1>2 DEF OpenReplay
  <2> QED
    BY <2>1, TimedOver
<1>3. CASE ~openProvider(ReplayConfig, file)
  <2>1. phase' = "unplayable" /\ cfg' = ReplayConfig
    BY <1>3 DEF OpenReplay
  <2>2. CompletedInv
    BY <1>1, Zenon DEF PlayInv
  <2>3. PICK n \in DOMAIN file.lines : Odd(file.lines[n])
    BY <1>1, <1>3, <2>2, CassetteOpens
  <2>4. Timed(ledger)
    BY <1>1, <2>3 DEF TimedInv
  <2>5. TimedOut'
    BY <1>1, <2>4 DEF TimedOut, Timed, HasTimeout
  <2>6. file.lines[n].status # 0 /\ file.lines[n].status \notin 100..599
    BY <2>3 DEF Odd
  <2>7. \E m \in DOMAIN told' : told'[m].status \notin 100..599
    BY <1>1, <2>2, <2>6 DEF CompletedInv, AllTold
  <2> QED
    BY <2>1, <2>5, <2>7 DEF TimedInv, Live, Playable
<1> QED
  BY <1>2, <1>3

LEMMA NextTimed == Shape /\ RecordInv /\ PlayInv /\ TimedInv /\ [Next]_vars => TimedInv'
<1> SUFFICES ASSUME Shape, RecordInv, PlayInv, TimedInv, [Next]_vars PROVE TimedInv'
  OBVIOUS
<1>1. ASSUME NEW served \in BOOLEAN, OpenSession(served) PROVE TimedInv'
  <2>1. /\ phase' \in {"refused", "scripted", "live"} /\ ledger' = ledger
        /\ file' = IF phase' = "live" /\ cfg'.record THEN NewRecordingTransport(cfg'.name, cfg'.model, cfg'.maxTokens)
                   ELSE file
    BY <1>1 DEF OpenSession
  <2>2. CASE phase' # "live" \/ ~Recording'
    BY <2>1, <2>2, TimedOver, TimedUnrecorded
  <2>3. CASE phase' = "live" /\ Recording'
    <3>1. file'.lines = << >>
      BY <2>1, <2>3 DEF NewRecordingTransport, Recording
    <3> QED
      BY <2>3, <3>1, EmptySeq DEF TimedInv, Playable
  <2> QED
    BY <2>2, <2>3
<1>2. CASE callProvider
  <2>1. CASE ~Recording
    <3>1. ~Recording' /\ phase' # "unplayable"
      BY <1>2, <2>1 DEF callProvider, Interrupted, TurnEnds, Retry, Recording
    <3> QED
      BY <3>1, TimedUnrecorded
  <2>2. CASE Recording /\ phase = "replaying"
    <3>1. phase' \in {"replaying", "replayed", "spent"}
      BY <1>2, <2>2 DEF callProvider, Interrupted, TurnEnds, Retry, Live
    <3> QED
      BY <3>1, TimedOver
  <2> QED
    BY <1>2, <2>1, <2>2, CallTimed DEF callProvider
<1>3. CASE SleepEnds
  BY <1>3, SleepTimed
<1>4. CASE SendRequest \/ TransportFails \/ Judge
  <2>1. /\ phase = "live" /\ phase' = "live" /\ UNCHANGED <<cfg, file, ledger>> /\ call'.recorded = call.recorded
        /\ call.stage = "answered" => call'.stage = "answered"
    BY <1>4 DEF SendRequest, TransportFails, Judge, session, Live, Shape, IsCall
  <2> QED
    BY <2>1, TimedKept
<1>5. ASSUME NEW trip, ResponseArrives(trip) PROVE TimedInv'
  <2>1. /\ phase = "live" /\ phase' = "live" /\ UNCHANGED <<cfg, file, ledger>> /\ call'.recorded = call.recorded
        /\ call.stage # "answered"
    BY <1>5 DEF ResponseArrives, session, Live, Shape, IsCall
  <2> QED
    BY <2>1, TimedKept
<1>6. ASSUME NEW written, RecordExchange(written) PROVE TimedInv'
  BY <1>6, RecordTimed
<1>7. CASE DeadlinePasses \/ CallerCancels
  <2>1. /\ phase = "live" /\ phase' = "live" /\ UNCHANGED <<cfg, file, ledger, call>>
    BY <1>7 DEF DeadlinePasses, CallerCancels, session, Live
  <2> QED
    BY <2>1, TimedKept
<1>8. CASE ExecBegins
  <2>1. ~Recording' /\ phase' = "live"
    BY <1>8 DEF ExecBegins, Shape, Recording, Live, session
  <2> QED
    BY <2>1, TimedUnrecorded
<1>9. CASE ExecStep
  <2>1. phase = "live" /\ phase' = "live" /\ UNCHANGED <<cfg, file, ledger, call>>
    BY <1>9 DEF ExecStep, session, Live
  <2> QED
    BY <2>1, TimedKept
<1>10. CASE Crash \/ ReplayAttempt
  <2>1. phase' \in {"crashed", "replaying"}
    BY <1>10 DEF Crash, ReplayAttempt
  <2> QED
    BY <2>1, TimedOver
<1>11. ASSUME NEW from, OpenReplay(from) PROVE TimedInv'
  BY <1>11, ReplayTimed
<1>12. CASE UNCHANGED vars
  BY <1>12 DEF vars, TimedInv, Live, Recording, Playable, TimedOut
<1> QED
  BY <1>1, <1>2, <1>3, <1>4, <1>5, <1>6, <1>7, <1>8, <1>9, <1>10, <1>11, <1>12 DEF Next

(***************************************************************************)
(* Every step.                                                             *)
(***************************************************************************)
LEMMA InitPlay == Init => PlayInv
BY DEF Init, PlayInv, SameTurns

LEMMA NextPlay == Shape /\ Shape' /\ RecordInv /\ PlayInv /\ [Next]_vars => PlayInv'
<1> SUFFICES ASSUME Shape, Shape', RecordInv, PlayInv, [Next]_vars PROVE PlayInv'
  OBVIOUS
<1>1. ASSUME NEW served \in BOOLEAN, OpenSession(served) PROVE PlayInv'
  BY <1>1, OpenPlay
<1>2. CASE callProvider
  BY <1>2, CallPlays, CallReplayed DEF callProvider
<1>3. CASE SleepEnds
  BY <1>3, SleepPlays
<1>4. CASE SendRequest
  BY <1>4, SendPlays
<1>5. CASE TransportFails
  <2>1. /\ phase = "live" /\ call.stage = "wire"
        /\ UNCHANGED <<phase, cfg, file, told, ledger, history, answer>>
        /\ call' = [call EXCEPT !.stage = AfterWire, !.trip = NoResponse]
    BY <1>5 DEF TransportFails, session, Live
  <2> QED
    BY <2>1, ArrivalPlays
<1>6. ASSUME NEW trip \in Trips[cfg.name], ResponseArrives(trip) PROVE PlayInv'
  <2>1. /\ phase = "live" /\ call.stage = "wire"
        /\ UNCHANGED <<phase, cfg, file, told, ledger, history, answer>>
        /\ call' = [call EXCEPT !.stage = AfterWire, !.trip = trip]
    BY <1>6 DEF ResponseArrives, session, Live
  <2>2. cfg.name \in Adapters
    BY <2>1 DEF Shape, Hosted, Live
  <2>3. trip.status \in 1..999
    BY <2>2, TripsAssumption
  <2>4. trip.status # 0
    BY <2>3
  <2> QED
    BY <2>1, <2>4, ArrivalPlays
<1>7. ASSUME NEW written, RecordExchange(written) PROVE PlayInv'
  BY <1>7, RecordPlays
<1>8. CASE Judge
  BY <1>8, JudgePlays
<1>9. CASE ExecBegins \/ ExecStep
  <2>1. /\ phase = "live" /\ phase' = "live" /\ cfg' = cfg
    BY <1>9 DEF ExecBegins, ExecStep, Live, session
  <2>2. ~Recording
    <3>1. CASE ExecBegins
      BY <2>1, <3>1 DEF ExecBegins, Shape, Recording
    <3>2. CASE ExecStep
      <4>1. SUFFICES ASSUME Recording PROVE FALSE
        OBVIOUS
      <4>2. RecordingInv
        BY <2>1, <4>1, Zenon DEF PlayInv
      <4> QED
        BY <3>2, <4>2 DEF RecordingInv, ExecStep
    <3> QED
      BY <1>9, <3>1, <3>2
  <2> QED
    BY <2>1, <2>2, LiveStep
<1>10. CASE DeadlinePasses \/ CallerCancels
  <2>1. /\ phase = "live" /\ phase' = "live"
        /\ UNCHANGED <<cfg, file, told, ledger, history, answer, call>>
    BY <1>10 DEF DeadlinePasses, CallerCancels, session, Live
  <2>2. ASSUME Recording PROVE RecordingInv'
    <3>1. RecordingInv
      BY <2>1, <2>2, Zenon DEF PlayInv
    <3> QED
      BY <2>1, <3>1 DEF RecordingInv, AllTold, Dead
  <2> QED
    BY <2>1, <2>2, LiveStep
<1>11. CASE Crash
  <2>1. phase' = "crashed"
    BY <1>11 DEF Crash
  <2> QED
    BY <2>1, PlayOver
<1>12. ASSUME NEW from, OpenReplay(from) PROVE PlayInv'
  BY <1>12, OpenReplayPlays
<1>13. CASE ReplayAttempt
  BY <1>13, AttemptPlays
<1>14. CASE UNCHANGED vars
  <2>1. UNCHANGED <<ctx, answer, cfg, phase, call, file, next, history, ledger, original, drift, told>>
    BY <1>14 DEF vars
  <2>2. Irreproducible' = Irreproducible
    BY <2>1 DEF Irreproducible, TimedOut
  <2>3. SameTurns'
    BY <2>1, <2>2 DEF PlayInv, SameTurns
  <2>4. RecordingInv => RecordingInv'
    BY <2>1 DEF RecordingInv, AllTold, Dead
  <2>5. CompletedInv => CompletedInv'
    BY <2>1 DEF CompletedInv, AllTold
  <2>6. ReplayInv => ReplayInv'
    BY <2>1, <2>2 DEF ReplayInv, AllTold, Drifted, InStep
  <2> QED
    BY <2>1, <2>3, <2>4, <2>5, <2>6 DEF PlayInv, Recording
<1> QED
  BY <1>1, <1>2, <1>3, <1>4, <1>5, <1>6, <1>7, <1>8, <1>9, <1>10, <1>11, <1>12, <1>13, <1>14 DEF Next

(***************************************************************************)
(* The theorems.                                                           *)
(***************************************************************************)
(* The strengthening is an invariant. *)
THEOREM Invariance == Spec => []IInv
<1>1. Init => IInv
  <2>1. Init => IdleInv
    BY DEF Init, IdleInv, Live
  <2> QED
    BY <2>1, InitShape, InitLate, InitExec, InitRecord, InitPlay, InitTimed DEF IInv
<1>2. IInv /\ [Next]_vars => IInv'
  BY NextShape, NextLate, NextExec, NextRecord, NextPlay, NextIdle, NextTimed DEF IInv
<1> QED
  BY <1>1, <1>2, PTL DEF Spec

(* After the caller has gone at most one more attempt begins, and that one *)
(* ends the call as cancelled: callProvider's loop, sleepContext and the   *)
(* adapters' classification of a failed request, for every configuration   *)
(* and whatever the servers answer.                                        *)
THEOREM CancelledCallsEnd == Spec => []CancelEndsCall
<1>1. IInv => CancelEndsCall
  BY DEF IInv, LateInv
<1> QED
  BY <1>1, Invariance, PTL

(* However a turn of an agent process ends (exec.go Next,                  *)
(* stopProcessGroup, removeContainer), nothing of it runs on, for every    *)
(* output limit and whatever the program starts, holds open or writes.     *)
THEOREM AgentsLeaveNothing == Spec => []ExecLeavesNothing
<1>1. IInv => ExecLeavesNothing
  BY DEF IInv, ExecInv
<1> QED
  BY <1>1, Invariance, PTL

(* A response reaches the adapter only with its line in the cassette       *)
(* (RecordingTransport.RoundTrip), wherever writes fail or the process     *)
(* dies, and only a torn line or a status outside 100..599, recorded as it *)
(* came, makes the file unreadable (LoadCassette).                         *)
THEOREM ResponsesAreRecorded == Spec => []ToldIsRecorded
<1>1. IInv => ToldIsRecorded
  BY DEF IInv, RecordInv
<1> QED
  BY <1>1, Invariance, PTL

(* A provider that opened can ask, or is an agent command without a first  *)
(* word, which never runs (openProvider, ExecProvider.Next). A completed   *)
(* run replays through its own adapter and cassette: the file opens unless *)
(* a deadline left a status in it that LoadCassette refuses, every line is *)
(* asked for again in its place and judged as it was, whichever attempts   *)
(* were interrupted, except for deadlines and dates; a replay that drifts  *)
(* ends in an error (Cassette.RoundTrip, callProvider). For every          *)
(* configuration, three-digit status, number of turns and delay.           *)
THEOREM PlaybackIsFaithful == Spec => []PlaybackFaithful
<1>1. IInv => PlaybackFaithful
  <2> SUFFICES ASSUME IInv PROVE PlaybackFaithful
    OBVIOUS
  <2>1. ASSUME phase \in {"live", "replaying"}, ~CanAsk(cfg)
        PROVE  cfg.name = "exec" /\ cfg.command = "blank" /\ proc = NoProcess /\ history = << >>
    <3>1. Blank(cfg)
      BY <2>1, Zenon DEF IInv, PlayInv, MayAsk
    <3>2. phase # "replaying"
      BY <3>1 DEF IInv, Shape, Hosted, Blank, Adapters
    <3> QED
      BY <2>1, <3>1, <3>2 DEF IInv, IdleInv, Blank, Live
  <2>2. Playable /\ SameTurns
    BY Zenon DEF IInv, TimedInv, PlayInv
  <2> QED
    BY <2>1, <2>2 DEF PlaybackFaithful, Equipped
<1> QED
  BY <1>1, Invariance, PTL
===============================================================================
