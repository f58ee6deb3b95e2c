---------------------------- MODULE CommandLine ----------------------------
(***************************************************************************)
(* What becomes of an "openrtc" command line.  The paths that lead it are  *)
(* rewritten into options, Typer reads OpenRTC's own options from it, and  *)
(* what is left of sys.argv is parsed once more by LiveKit's own program,  *)
(* which refuses every option it does not know.  What Typer has read goes  *)
(* to the pool, the reporter, the environment or LiveKit's command line.   *)
(*                                                                         *)
(* A token is a record: a flag, alone or with "=value" attached, a bare    *)
(* word, or "--".                                                          *)
(***************************************************************************)
EXTENDS Naturals, Sequences, SequencesExt

Token(name) == [name |-> name, attached |-> FALSE]
Assigned(name) == [name |-> name, attached |-> TRUE]
Word == "word"
EndOfOptions == "--"

LooksLikeFlag(token) == token.name # Word
Mentions(line, flag) == \E i \in DOMAIN line : line[i].name = flag

WorkerCommands == {"start", "dev", "console"}
PathCommands == {"list", "connect", "download-files"}

ValuedFlags ==
  {"--agents-dir", "--default-stt", "--default-llm", "--default-tts", "--default-greeting",
   "--dashboard-refresh", "--metrics-json-file", "--metrics-jsonl", "--metrics-jsonl-interval",
   "--watch-path"}
BoolFlags == {"--dashboard", "--no-watch"}

----------------------------------------------------------------------------
\* A leading path is the agents directory, and on a worker a second one the metrics file.
Inject(command, line) ==
  LET leads == line # <<>> /\ ~LooksLikeFlag(line[1]) /\ ~Mentions(line, "--agents-dir")
      second == /\ command \in WorkerCommands /\ Len(line) > 1
                /\ ~LooksLikeFlag(line[2]) /\ ~Mentions(line, "--metrics-jsonl")
      pathAt(i, flag) == <<Token(flag), line[i]>>
  IN  CASE ~leads \/ command \notin WorkerCommands \cup PathCommands -> line
        [] leads /\ second -> pathAt(1, "--agents-dir") \o pathAt(2, "--metrics-jsonl") \o SubSeq(line, 3, Len(line))
        [] OTHER -> pathAt(1, "--agents-dir") \o Tail(line)

\* Mutant: a value that looks like a flag is not taken for the value.
StripShyOfFlags(line) ==
  LET Keep(left, token) == [left EXCEPT !.out = Append(@, token)]
      Step(left, token) ==
        CASE left.at = "end" -> Keep(left, token)
          [] left.at = "value" /\ ~LooksLikeFlag(token) -> [left EXCEPT !.at = "option"]
          [] token.name = EndOfOptions -> [Keep(left, token) EXCEPT !.at = "end"]
          [] token.name \in BoolFlags \/ (token.name \in ValuedFlags /\ token.attached) -> left
          [] token.name \in ValuedFlags /\ ~token.attached -> [left EXCEPT !.at = "value"]
          [] OTHER -> [Keep(left, token) EXCEPT !.at = "option"]
  IN  FoldLeft(Step, [out |-> <<>>, at |-> "option"], line).out

\* One token of the line: kept, or dropped as OpenRTC's flag or as the value that flag takes.
StripToken(left, token) ==
  LET kept == [left EXCEPT !.out = Append(@, token)]
  IN  CASE left.at = "end" -> kept
        [] left.at = "value" -> [left EXCEPT !.at = "option"]
        [] left.at = "option" /\ token.name = EndOfOptions -> [kept EXCEPT !.at = "end"]
        [] left.at = "option" /\ token.name \in BoolFlags -> left
        [] left.at = "option" /\ token.name \in ValuedFlags ->
             IF token.attached THEN left ELSE [left EXCEPT !.at = "value"]
        [] OTHER -> kept

\* OpenRTC's flags go, each with the token after it where it takes a value, whatever that is.
Strip(line) ==
  LET left[i \in 0 .. Len(line)] ==
        IF i = 0 THEN [out |-> <<>>, at |-> "option"] ELSE StripToken(left[i - 1], line[i])
  IN  left[Len(line)].out

\* "connect" makes its own line, of what Typer has read.
ConnectLine(identity, level) ==
  LET Given(flag, set) == IF set THEN <<Token(flag), Token(Word)>> ELSE <<>>
  IN  <<Token("--room"), Token(Word)>> \o Given("--participant-identity", identity) \o Given("--log-level", level)

\* What LiveKit's program finds behind the subcommand.
HandedOver(command, line, identity, level) ==
  IF command = "connect" THEN ConnectLine(identity, level) ELSE Strip(Inject(command, line))

\* resolve_hot_reload
HotReloads(command, noWatch, isolation) == command = "dev" /\ ~noWatch /\ isolation = "coroutine"
----------------------------------------------------------------------------
(* The options of the commands that run a worker, by where they go.        *)

Providers == {"--default-stt", "--default-llm", "--default-tts", "--default-greeting"}
Runtime == {"--isolation", "--max-concurrent-sessions", "--watch-path"}
Reporting == {"--dashboard", "--dashboard-refresh", "--metrics-json-file", "--metrics-jsonl", "--metrics-jsonl-interval"}
Connection == {"--url", "--api-key", "--api-secret", "--log-level"}
Joining == {"--room", "--participant-identity"}

DeclaredBy(command) ==
  Connection \cup
    CASE command \in WorkerCommands -> Providers \cup Runtime \cup {"--no-watch"} \cup Reporting
      [] command = "connect" -> Providers \cup Reporting \cup Joining
      [] command = "download-files" -> {}

LiveKitNames ==
  [url |-> "LIVEKIT_URL", key |-> "LIVEKIT_API_KEY", secret |-> "LIVEKIT_API_SECRET", level |-> "LIVEKIT_LOG_LEVEL"]

\* The variables that stand in for an option that is not given.
EnvName ==
  [o \in {"--url", "--api-key", "--api-secret", "--log-level", "--isolation", "--max-concurrent-sessions"} |->
     CASE o = "--url" -> LiveKitNames.url
       [] o = "--api-key" -> LiveKitNames.key
       [] o = "--api-secret" -> LiveKitNames.secret
       [] o = "--log-level" -> LiveKitNames.level
       [] o = "--isolation" -> "OPENRTC_ISOLATION"
       [] o = "--max-concurrent-sessions" -> "OPENRTC_MAX_CONCURRENT_SESSIONS"]

Unset == "unset"
Default == "default"
Flag == "flag"

\* Where Typer takes the value of an option from; an environment maps names to values or Unset.
Read(option, given, env) ==
  CASE option \in given -> Flag
    [] option \notin given /\ option \in DOMAIN EnvName /\ env[EnvName[option]] # Unset -> env[EnvName[option]]
    [] OTHER -> Default

\* SharedLiveKitWorkerOptions: what a command does not declare stays at its default.
WorkerOptions(command, given, env) ==
  [o \in UNION {Providers, Runtime, {"--no-watch"}, Reporting, Connection, Joining} |->
     IF o \in DeclaredBy(command) THEN Read(o, given, env) ELSE Default]

\* "--no-watch" reaches the pool through HotReloads.
PoolArguments(options) == [o \in Providers \cup Runtime |-> options[o]]
ReporterArguments(options) == [o \in Reporting |-> options[o]]

\* The environment while the pool runs; "connect" puts the level on the command line instead.
Overridden(command, options, env) ==
  LET set == {o \in Connection : options[o] # Default /\ ~(command = "connect" /\ o = "--log-level")}
  IN  [name \in DOMAIN env |->
         IF \E o \in set : EnvName[o] = name THEN options[CHOOSE o \in set : EnvName[o] = name] ELSE env[name]]

\* Afterwards the names of the snapshot are as they were, whatever the run did to them.
Restored(env, snapshot) ==
  [name \in DOMAIN env |-> IF \E k \in DOMAIN LiveKitNames : LiveKitNames[k] = name THEN snapshot[name] ELSE env[name]]
=============================================================================
