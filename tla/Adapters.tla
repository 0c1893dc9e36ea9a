------------------------------- MODULE Adapters -------------------------------
(* How the hosted-model adapters judge one attempt at a model turn: what    *)
(* client.Do returned, how far the body could be read, the status, and what *)
(* the body decodes to. An attempt is a turn, an ordinary error, or an      *)
(* interruption, which is the only outcome the runner retries.              *)
(*                                                                          *)
(* A trip is what one HTTP round trip yields: status 0 when there was no    *)
(* response, cut when the body stopped with an error. ctx says whether the  *)
(* caller is still there and whether the attempt's own deadline has passed. *)
EXTENDS Integers, FiniteSetsExt

providerAttempts == 2

MaxRetryAfter == 30
defaultRetryWait == 1
maxParsedRetryAfter == 2 ^ 30
anthropicOverloaded == 529
DefaultMaxOutputTokens == 4096

Adapters == {"openai", "openai-compatible", "anthropic"}

(***************************************************************************)
(* Outcomes of an attempt.                                                 *)
(***************************************************************************)
Turn(msg) == [res |-> "turn", msg |-> msg]
Failure(why) == [res |-> "error", why |-> why]
CallInterrupted(kind) ==
    [res |-> "interrupted", kind |-> kind, reason |-> "", deadline |-> 0, status |-> 0, retryAfter |-> 0]

IsInterruption(o) == o.res = "interrupted"

(* The recorded form, with the server's wait bounded, in milliseconds. *)
Record(o, attempt) ==
    [kind |-> o.kind, attempt |-> attempt, reason |-> o.reason, deadline |-> o.deadline,
     status |-> o.status, retryAfterMS |-> 1000 * Min({Max({o.retryAfter, 0}), MaxRetryAfter})]

wait(o) ==
    IF o.kind \notin {"rate_limited", "server_error", "transport"} THEN 0
    ELSE IF o.retryAfter > 0 THEN Min({o.retryAfter, MaxRetryAfter})
    ELSE defaultRetryWait

(***************************************************************************)
(* Classification.                                                         *)
(***************************************************************************)
Given(ctx) == IF ctx.caller = "live" THEN Failure("failed") ELSE Failure("cancelled")

interrupted(ctx, deadline) ==
    IF ctx.caller = "live" /\ ctx.attempt = "expired"
    THEN [CallInterrupted("timeout") EXCEPT !.deadline = deadline]
    ELSE Given(ctx)

(* Mutant: a request that failed for a caller who has gone is a transport failure. *)
MutRequestFailed(ctx, deadline) ==
    IF ctx.attempt = "expired" THEN interrupted(ctx, deadline) ELSE CallInterrupted("transport")

requestFailed(ctx, deadline) ==
    IF ctx.caller # "live" \/ ctx.attempt = "expired" THEN interrupted(ctx, deadline)
    ELSE CallInterrupted("transport")

(* A Retry-After header: none, a number of seconds, one too large for the  *)
(* integer it is read into, an HTTP date, or text that is none of these.   *)
parseRetryAfter(header, now) ==
    CASE header.form = "seconds" -> Min({header.n, maxParsedRetryAfter})
      [] header.form = "huge" -> maxParsedRetryAfter
      [] header.form = "date" -> Max({header.n - now, 0})
      [] OTHER -> 0

Transient(adapter) ==
    {500, 502, 503, 504} \cup (IF adapter = "anthropic" THEN {anthropicOverloaded} ELSE {})

statusInterruption(adapter, trip, now) ==
    IF trip.status \notin {429} \cup Transient(adapter) THEN Failure("status")
    ELSE [CallInterrupted(IF trip.status = 429 THEN "rate_limited" ELSE "server_error") EXCEPT
            !.status = trip.status, !.retryAfter = parseRetryAfter(trip.retryAfter, now)]

truncatedCompletion(reason) == [CallInterrupted("truncated") EXCEPT !.reason = reason]

(* Where each API says that it cut the completion short. *)
Truncated(adapter, body) ==
    CASE adapter = "openai" -> body.stop = "incomplete"
      [] adapter = "openai-compatible" -> body.stop \in {"length", "model_length"}
      [] OTHER -> body.stop \in {"max_tokens", "model_context_window_exceeded"}

TruncationReason(adapter, body) ==
    IF adapter # "openai" THEN body.stop
    ELSE IF body.detail = "" THEN "unspecified" ELSE body.detail

(* A complete 2xx body. A chat completion without a choice does not decode, *)
(* and a truncated completion is reported before any item of it is read.    *)
DecodeTurn(adapter, body) ==
    IF ~body.json THEN Failure("decode")
    ELSE IF Truncated(adapter, body) THEN truncatedCompletion(TruncationReason(adapter, body))
    ELSE IF ~body.arguments THEN Failure("arguments")
    ELSE IF body.msg = "none" THEN Failure("empty")
    ELSE Turn(body.msg)

(* One attempt, as OpenAIProvider, ChatCompletionsProvider and             *)
(* AnthropicProvider judge it once the transport has answered.             *)
JudgeTrip(adapter, trip, ctx, now, deadline) ==
    IF trip.status = 0 THEN requestFailed(ctx, deadline)
    ELSE IF trip.cut \/ trip.body.over THEN interrupted(ctx, deadline)
    ELSE IF trip.status \notin 200..299 THEN statusInterruption(adapter, trip, now)
    ELSE DecodeTurn(adapter, trip.body)

(* The model and the output ceiling are part of every request body; only   *)
(* Anthropic's API has to be sent a ceiling.                               *)
Ceiling(adapter, configured) ==
    IF adapter = "anthropic" /\ configured <= 0 THEN DefaultMaxOutputTokens ELSE Max({configured, 0})

RequestFor(adapter, model, maxTokens, history) ==
    [path |-> adapter, model |-> model, maxTokens |-> Ceiling(adapter, maxTokens), history |-> history]
===============================================================================
