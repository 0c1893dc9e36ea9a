------------------------------ MODULE MCProvider ------------------------------
(* Every provider with working flags, with each flag missing or wrong, with *)
(* and without a recording, against the answers the adapters tell apart.    *)
EXTENDS Provider

Good(name) ==
    [name |-> name, model |-> "m", key |-> TRUE, baseURL |-> "valid", timeout |-> 90, maxTokens |-> 0,
     record |-> FALSE, cassette |-> FALSE, command |-> IF name = "exec" THEN "words" ELSE "none",
     env |-> "none", container |-> "none", mount |-> FALSE]

Wrong(c) ==
    {[c EXCEPT !.model = ""], [c EXCEPT !.key = FALSE], [c EXCEPT !.baseURL = "none"],
     [c EXCEPT !.baseURL = "invalid"], [c EXCEPT !.timeout = 0], [c EXCEPT !.maxTokens = -1],
     [c EXCEPT !.cassette = TRUE], [c EXCEPT !.record = TRUE, !.cassette = TRUE],
     [c EXCEPT !.command = "words"], [c EXCEPT !.command = "unclosed"], [c EXCEPT !.command = "blank"],
     [c EXCEPT !.env = "unset"],
     [c EXCEPT !.container = "valid"], [c EXCEPT !.container = "invalid"], [c EXCEPT !.mount = TRUE]}

MCConfigs ==
    LET names == Adapters \cup {"scripted", "exec"} IN
    UNION {Wrong(Good(name)) \cup {Good(name), [Good(name) EXCEPT !.record = TRUE]} : name \in names}
    \cup {[Good(name) EXCEPT !.record = TRUE, !.maxTokens = 7] : name \in Adapters}
    \cup {Good("unknown")}

Body(stop, msg) ==
    [over |-> FALSE, json |-> TRUE, stop |-> stop, detail |-> "", arguments |-> TRUE, msg |-> msg]

Answer(status, header, body) == [status |-> status, retryAfter |-> header, body |-> body, cut |-> FALSE]
Header(form, n) == [form |-> form, n |-> n]

Cuts(adapter) ==
    CASE adapter = "openai" ->
            {Body("incomplete", "look"), [Body("incomplete", "final") EXCEPT !.detail = "max_output_tokens"]}
      [] adapter = "openai-compatible" -> {Body("length", "look"), Body("model_length", "final")}
      [] OTHER -> {Body("max_tokens", "look"), Body("model_context_window_exceeded", "final")}

TripsOf(adapter) ==
    {Answer(200, NoHeader, body) : body \in
        {Body("stop", "look"), Body("stop", "final"), Body("stop", "none"), NoBody,
         [Body("stop", "look") EXCEPT !.arguments = FALSE], [Body("stop", "look") EXCEPT !.over = TRUE]}
        \cup Cuts(adapter)}
    \cup {Answer(429, Header("huge", 0), NoBody), Answer(429, Header("date", 20), NoBody),
          Answer(503, Header("seconds", 5), NoBody), Answer(529, Header("text", 0), NoBody),
          Answer(400, NoHeader, NoBody), Answer(999, NoHeader, NoBody)}
    \cup {[Answer(status, NoHeader, Body("stop", "look")) EXCEPT !.cut = TRUE] : status \in {200, 503, 999}}

MCTrips == [name \in Adapters \cup {"exec", "scripted", "unknown"} |-> IF name \in Adapters THEN TripsOf(name) ELSE {}]

Reply(content, calls) ==
    [json |-> TRUE, trailing |-> FALSE, protocol |-> "twinwright.agent.v1", content |-> content, calls |-> calls,
     usage |-> "absent"]

MCResponses ==
    {Reply("", "look"), Reply("final", "none"), Reply("", "none"), Reply("absent", "look"),
     Reply("final", "absent"), Reply("final", "short"),
     [Reply("final", "none") EXCEPT !.json = FALSE], [Reply("final", "none") EXCEPT !.trailing = TRUE],
     [Reply("final", "none") EXCEPT !.protocol = "absent"], [Reply("final", "none") EXCEPT !.usage = "null"],
     [Reply("final", "none") EXCEPT !.usage = "whole"]}
===============================================================================
