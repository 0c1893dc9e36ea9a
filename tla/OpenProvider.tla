----------------------------- MODULE OpenProvider -----------------------------
(* Which provider configurations openProvider accepts, before a run exists  *)
(* and before a recording replaces a file. cfg holds what the flags, the    *)
(* environment and the run say; file is the cassette a replay names.        *)
EXTENDS Cassette

(* A run whose provider was recorded drops the flags of an exec agent it   *)
(* does not have; a command that names the provider keeps the refusal.     *)
forRun(cfg) ==
    IF cfg.name = "exec" THEN cfg
    ELSE [cfg EXCEPT !.command = "none", !.env = "none", !.container = "none", !.mount = FALSE]

(* --agent-env takes names of variables this process has. *)
resolveAgentEnv(env) == env \in {"none", "set"}

(* An unclosed quote and a line with no word are refused; "blank" is a     *)
(* line whose first word is a quoted nothing, which is a word all the same. *)
splitAgentCommand(line) == line \in {"words", "blank"}

openExecProvider(cfg) ==
    /\ ~cfg.record /\ ~cfg.cassette
    /\ cfg.model # ""
    /\ cfg.command # "none" /\ splitAgentCommand(cfg.command)
    /\ resolveAgentEnv(cfg.env)
    /\ cfg.container = "none" => ~cfg.mount
    /\ cfg.container # "none" => cfg.container = "valid"

KeyPresent(cfg) == cfg.name = "openai-compatible" \/ cfg.key

(* A cassette for this run, with something in it; its first address must be *)
(* one the adapter could have used.                                         *)
CassetteServes(cfg, file) ==
    /\ LoadCassette(file)
    /\ CheckRun(file, cfg.name, cfg.model)
    /\ file.lines # << >>
    /\ cfg.name = "openai-compatible" => file.lines[1].request.path = "openai-compatible"

openHostedProvider(cfg, file) ==
    /\ ~(cfg.cassette /\ cfg.record)
    /\ cfg.name \in Adapters
    /\ cfg.model # ""
    /\ cfg.cassette => CassetteServes(cfg, file)
    /\ ~cfg.cassette => KeyPresent(cfg) /\ (cfg.name = "openai-compatible" => cfg.baseURL = "valid")

openProvider(cfg, file) ==
    /\ cfg.timeout > 0
    /\ cfg.maxTokens >= 0
    /\ IF cfg.name = "exec" THEN openExecProvider(cfg)
       ELSE /\ cfg.command = "none" /\ cfg.env = "none" /\ cfg.container = "none" /\ ~cfg.mount
            /\ IF cfg.name = "scripted" THEN ~cfg.record /\ ~cfg.cassette ELSE openHostedProvider(cfg, file)

(* Mutant: the replay keeps its own output ceiling. *)
MutOpened(cfg, file) == IF cfg.cassette THEN [cfg EXCEPT !.key = TRUE, !.baseURL = "valid"] ELSE cfg

(* Commands that never record. *)
selectProvider(cfg, file) == ~cfg.record /\ openProvider(cfg, file)

(* The adapter a configuration opens. Behind a cassette the ceiling is the *)
(* recorded one and the key a placeholder.                                 *)
Opened(cfg, file) ==
    IF cfg.cassette THEN [cfg EXCEPT !.maxTokens = file.header.maxTokens, !.key = TRUE, !.baseURL = "valid"]
    ELSE cfg

(* What the adapter itself checks on every attempt. *)
CanAsk(cfg) ==
    CASE cfg.name = "openai-compatible" -> cfg.model # "" /\ cfg.baseURL = "valid"
      [] cfg.name = "exec" -> cfg.command = "words"
      [] OTHER -> cfg.key /\ cfg.model # ""
===============================================================================
