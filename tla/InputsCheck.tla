---------------------------- MODULE InputsCheck ----------------------------
(***************************************************************************)
(* The stateless parts of the worker against what they are meant to do,    *)
(* one input a state: a job and a registry, a command line, a page of      *)
(* "openrtc top", the options of a session.                                *)
(***************************************************************************)
EXTENDS Routing, CommandLine, TopView, SessionOptions

CONSTANTS Kinds,      \* which kinds of input to enumerate
          Items,      \* what command lines are put together from
          MaxItems,
          MaxRows

VARIABLE input

----------------------------------------------------------------------------
(* Jobs.                                                                   *)

\* The shapes compared; both keys of one metadata, and a malformed room tenant, add no case.
Shapes ==
  {shape \in JobShapes :
     /\ shape.job.demo = NoName \/ shape.job.agent = NoName
     /\ shape.room.demo = NoName
     /\ shape.room.tenant[1] # "malformed"}

JobInit ==
  \E agents \in SeqOf(Names, 2), job \in Shapes :
    IsInjective(agents) /\ input = [kind |-> "job", agents |-> agents, job |-> job]

IsJob == input.kind = "job"

(* Without a custom router, the agent whose cap a job is checked against   *)
(* is the agent its session runs on, whenever the session runs at all.     *)
FilterMirrorsRouting ==
  IsJob /\ input.job.router = "defer" =>
    LET resolved == ResolveAgent(input.agents, input.job)
    IN  resolved # Error => RequestAgent(input.agents, input.job) = resolved

----------------------------------------------------------------------------
(* Command lines, put together from items: an option with its value, a     *)
(* leading path, or what follows "--".                                     *)

Leading(item) == ~LooksLikeFlag(item.tokens[1])
Closing(item) == item.tokens[1].name = EndOfOptions
Flatten(items) == FlattenSeq([i \in DOMAIN items |-> items[i].tokens])

\* What LiveKit's program is to find of an item.
PassedOn(item) == IF item.of = "livekit" THEN item.tokens ELSE <<>>

\* Paths lead, nothing follows what "--" closes, and no path stands for an option given as well.
WellFormed(command, items) ==
  LET paths == {i \in DOMAIN items : Leading(items[i])}
      line == Flatten(items)
  IN  /\ paths \in {{}, {1}, {1, 2}}
      /\ paths = {1, 2} => command \in WorkerCommands /\ ~Mentions(line, "--metrics-jsonl")
      /\ paths # {} => ~Mentions(line, "--agents-dir")
      /\ \A i \in DOMAIN items : Closing(items[i]) => i = Len(items)

LineInit ==
  \E command \in {"start", "download-files"}, items \in SeqOf(Items, MaxItems) :
    /\ WellFormed(command, items)
    /\ input = [kind |-> "line", command |-> command, items |-> items]

----------------------------------------------------------------------------
(* Options of one run of a command, given as flags or by the environment.  *)

SomeFlags == {"--url", "--log-level", "--isolation", "--dashboard", "--default-stt", "--participant-identity"}
Environments ==
  LET outside == {LiveKitNames.url, LiveKitNames.level, EnvName["--isolation"]}
      every == {EnvName[o] : o \in DOMAIN EnvName}
  IN  {[name \in every |-> IF name \in set THEN "outer" ELSE Unset] : set \in SUBSET outside}

OptionsInit ==
  \E command \in {"start", "connect", "download-files"}, env \in Environments :
  \E given \in SUBSET (SomeFlags \cap DeclaredBy(command)) :
    input = [kind |-> "options", command |-> command, given |-> given, env |-> env]

\* The value an option of the command has where it is used.
Arrived(o, options, during) ==
  LET line == HandedOver(input.command, <<>>, options["--participant-identity"] # Default, options["--log-level"] # Default)
  IN  CASE o \in DOMAIN PoolArguments(options) -> PoolArguments(options)[o]
        [] o \in DOMAIN ReporterArguments(options) -> ReporterArguments(options)[o]
        [] input.command = "connect" /\ o \in Joining \cup {"--log-level"} -> IF Mentions(line, o) THEN options[o] ELSE Default
        [] OTHER -> during[EnvName[o]]

(* "Those must be removed before the handoff while preserving any          *)
(* forwarded LiveKit flags": of a line the user may write, LiveKit's       *)
(* program finds what is its own, in order and whole, and nothing else.    *)
(* What OpenRTC reads from the line is used in the run, a flag before the  *)
(* environment, and the environment is otherwise the one outside and that  *)
(* one again after the run.                                                *)
HandoffIsClean ==
  /\ input.kind = "line" =>
       HandedOver(input.command, Flatten(input.items), FALSE, FALSE)
         = FlattenSeq([i \in DOMAIN input.items |-> PassedOn(input.items[i])])
  /\ input.kind = "options" =>
       LET options == WorkerOptions(input.command, input.given, input.env)
           during == Overridden(input.command, options, input.env)
           Outside(o) == o \in DOMAIN EnvName /\ o \notin input.given
       IN  /\ \A o \in input.given : Arrived(o, options, during) = Flag
           /\ \A o \in DeclaredBy(input.command) : Outside(o) =>
                Arrived(o, options, during) \in {input.env[EnvName[o]]} \cup
                  (IF input.env[EnvName[o]] = Unset THEN {Default} ELSE {})
           /\ \A name \in DOMAIN input.env :
                during[name] # input.env[name] => \E o \in input.given \cap Connection : EnvName[o] = name
           /\ Restored(during, input.env) = input.env

----------------------------------------------------------------------------
(* Pages of "openrtc top".                                                 *)

Rows == [status : {"active", "slow"}, agent : {"sales"}, tenant : {"acme"}, shows : [{"mem_mb", "agent_name"} -> 1 .. 2] \cup {[c \in {} |-> 0]}]

\* The view after some keypresses, from the default one.
Pressed(keys) ==
  FoldLeft(LAMBDA view, key : ApplyKey(key, view), [sort |-> "mem_mb", status |-> "all", quit |-> FALSE], keys)
Keys == {<<>>, <<"f", "f">>, <<"s", "s", "s">>, <<"s", "f", "s", "x", "f", "s">>}

PageInit ==
  \E rows \in SeqOf(Rows, MaxRows), keys \in Keys, size \in -1 .. MaxRows, page \in -1 .. MaxRows + 1 :
    LET view == Pressed(keys)
    IN  input = [kind |-> "page", rows |-> rows, sort |-> view.sort, status |-> view.status, size |-> size, page |-> page]

(* Paging through the table shows every session that passes the filter,    *)
(* once and in the order of the column, numbered through; a page that is   *)
(* not there shows the nearest that is.                                    *)
PagesShowEveryRow ==
  input.kind = "page" =>
    LET all == FilterAndSort(input.rows, input.sort, input.status, "", "")
        Cut(page) == Paginate(all, page, input.size)
        total == Cut(1).total
        value(i) == Column(input.rows[i].shows, input.sort)
    IN  /\ FlattenSeq([page \in 1 .. total |-> Cut(page).rows]) = all
        /\ FlattenSeq([page \in 1 .. total |-> Slots(all, page, input.size)]) = [i \in DOMAIN all |-> i]
        /\ Cut(input.page) = Cut(IF input.page < 1 THEN 1 ELSE IF input.page > total THEN total ELSE input.page)
        /\ ToSet(all) = {i \in DOMAIN input.rows : input.status \in {"all", input.rows[i].status}}
        /\ \A i, j \in DOMAIN all : i < j =>
             IF input.sort \in Numeric THEN value(all[i]) >= value(all[j]) ELSE value(all[i]) <= value(all[j])

----------------------------------------------------------------------------
(* Options of a session.                                                   *)

SomeOptions(keys, values) == UNION {[set -> values] : set \in SUBSET keys}
Mappings ==
  LET sections == {Section(of) : of \in SomeOptions({"mode", "min_words"}, {"x"})}
  IN  SomeOptions({"interruption", "endpointing", "turn_detection"}, sections \cup {Plain("x")})
GivenTurnHandling ==
  {[kind |-> "none"], [kind |-> "opaque"]} \cup {[kind |-> "mapping", sections |-> m] : m \in Mappings}
OlderOptions == SomeOptions(DeprecatedKeys \ {"max_endpointing_delay", "min_interruption_duration", "discard_audio_if_uninterruptible"}, {"yes", "no"})

TurnInit ==
  \E given \in GivenTurnHandling, deprecated \in OlderOptions,
     job \in [executor : {"none", "stub", "usable"}, remote : BOOLEAN, makes : {"detector", "none"}] :
    /\ given.kind = "mapping" => deprecated \in SomeOptions({"min_endpointing_delay"}, {"yes"})
    /\ input = [kind |-> "turn", given |-> given, deprecated |-> deprecated, job |-> job]

\* What a turn handling says, name by name.
Leaves(turn) == UNION {{<<k, name, turn[k].of[name]>> : name \in DOMAIN turn[k].of} : k \in DOMAIN turn}

\* What the older options mean, one by one.
Meant(options) ==
  LET Says(key, section, name) == IF key \in DOMAIN options THEN {<<section, name, options[key]>>} ELSE {}
  IN  Says("min_endpointing_delay", "endpointing", "min_delay")
        \cup Says("max_endpointing_delay", "endpointing", "max_delay")
        \cup Says("min_interruption_duration", "interruption", "min_duration")
        \cup Says("discard_audio_if_uninterruptible", "interruption", "discard_audio_if_uninterruptible")
        \cup Says("min_interruption_words", "interruption", "min_words")
        \cup Says("resume_false_interruption", "interruption", "resume_false_interruption")
        \cup Says(IF AgentTimeout \in DOMAIN options THEN AgentTimeout ELSE "false_interruption_timeout",
                  "interruption", "false_interruption_timeout")
        \cup {leaf \in Says("allow_interruptions", "interruption", "enabled") : leaf[3] = "no"}
        \cup Says("turn_detection", "turn_detection", "value")

(* The turn handling of a session says what the mapping says, or what the  *)
(* older options say where there is none, and the defaults that nothing    *)
(* said replaces.                                                          *)
TurnOptionsSurvive ==
  input.given.kind # "opaque" =>
    LET explicit == input.given.kind = "mapping"
        said == IF explicit THEN Leaves(input.given.sections) ELSE Meant(input.deprecated)
        detector == IF input.job.executor = "usable" \/ input.job.remote THEN input.job.makes ELSE "vad"
        Replaced(k, name) ==
          \/ \E leaf \in said : leaf[1] = k /\ leaf[2] = name
          \/ explicit /\ k \in DOMAIN input.given.sections /\ ~input.given.sections[k].nested
          \/ explicit /\ k \in DOMAIN input.given.sections /\ k = "turn_detection"
        kept == {leaf \in {<<"interruption", "mode", "vad">>, <<"turn_detection", "value", detector>>} :
                   leaf[3] # "none" /\ ~Replaced(leaf[1], leaf[2])}
    IN  Leaves(TurnHandling(input.given, input.deprecated, input.job)) = said \cup kept

----------------------------------------------------------------------------
(* Registrations, and the sessions of tenants they serve.                  *)

Plains == {[kind |-> "plain", name |-> n] : n \in {"p", "q"}}
Classes == [parameters : {{"model", "client"}}, required : SUBSET {"client"},
            attributes : SUBSET {"model", "client", "capabilities"}]
Plugins ==
  {plugin \in [kind : {"plugin"}, class : Classes, given : [{"model", "client"} -> {"given", "live object", NotGiven}]] :
     \A o \in plugin.class.required : plugin.given[o] # NotGiven}
Objects == {[kind |-> "object", pickles |-> p] : p \in BOOLEAN}
Values == Plains \cup Plugins \cup Objects

\* What add() is given and what the pool defaults to, for one kind of provider, and one keyword argument.
RegistrationInit ==
  \E own \in {Nothing} \cup Values, default \in Plains \cup Objects, kwargs, direct \in SomeOptions({"memory"}, Objects \cup Plains) :
    input = [kind |-> "registration", own |-> own, default |-> default, kwargs |-> kwargs, direct |-> direct]

ConfigOf(registration) ==
  [providers |-> [llm |-> Resolved(registration.own, registration.default)],
   kwargs |-> SessionKwargs(registration.kwargs, registration.direct)]

\* A plugin whose _opts have every argument it was given and nothing but parameters.
KeepsItsArguments(value) ==
  value.kind = "plugin" =>
    /\ \A o \in value.class.parameters : value.given[o] # NotGiven => o \in value.class.attributes
    /\ value.class.attributes \subseteq value.class.parameters

\* Sessions in a row, each with what the source would answer were it asked then.
TenancyInit ==
  \E sessions \in SeqOf([tenant : {"acme", "globex"}, answer : SomeOptions({"llm", "stt"}, {"x", "y"})], 3) :
    input = [kind |-> "tenancy", sessions |-> sessions]

CacheAfter(n) ==
  LET cache[i \in 0 .. Len(input.sessions)] ==
        IF i = 0 THEN NoOptions ELSE Looked(cache[i - 1], input.sessions[i].tenant, input.sessions[i].answer)
  IN  cache[n]

(* What a worker is set up with is what its sessions get.  A turn handling *)
(* keeps every turn option of the mapping it was given, or of the older    *)
(* options where no mapping was, and every default none of them replaces;  *)
(* the prewarmed detector is such a default only where an executor can run *)
(* it and the factory makes one.  A registration that is accepted comes    *)
(* out of a job process's start with the providers that went in, if and    *)
(* only if the _opts of every plugin have its arguments and no others.     *)
(* "One tenant's client (and key) never leaks into another tenant's        *)
(* session": a session gets what its own tenant was found to have first,   *)
(* or what the agent has.                                                  *)
SessionOptionsSurvive ==
  /\ input.kind = "turn" => TurnOptionsSurvive
  /\ input.kind = "registration" =>
       LET config == ConfigOf(input)
       IN  Registers(config) =>
             (Shipped(config) = config <=> \A slot \in DOMAIN config.providers : KeepsItsArguments(config.providers[slot]))
  /\ input.kind = "tenancy" =>
       \A i \in DOMAIN input.sessions, kind \in {"llm", "stt"} :
         LET mine == {j \in 1 .. i : input.sessions[j].tenant = input.sessions[i].tenant}
             found == input.sessions[CHOOSE j \in mine : \A k \in mine : j <= k].answer
         IN  Provider(kind, CacheAfter(i)[input.sessions[i].tenant], "agent's")
               = (IF kind \in DOMAIN found THEN found[kind] ELSE "agent's")

----------------------------------------------------------------------------
InputsInit ==
  \/ "job" \in Kinds /\ JobInit
  \/ "line" \in Kinds /\ LineInit
  \/ "options" \in Kinds /\ OptionsInit
  \/ "page" \in Kinds /\ PageInit
  \/ "turn" \in Kinds /\ TurnInit
  \/ "registration" \in Kinds /\ RegistrationInit
  \/ "tenancy" \in Kinds /\ TenancyInit
InputsNext == UNCHANGED input
InputsSpec == InputsInit /\ [][InputsNext]_input

----------------------------------------------------------------------------
(* What the repository says and the code does not do.                      *)

(* _owns_room: "Metadata naming an unregistered agent is likewise treated  *)
(* as not ours".                                                           *)
ForeignNameIsNotOurs ==
  IsJob /\ NameIn(input.job.job) \notin ToSet(input.agents) \cup {NoName} => ~OwnsRoom(input.agents, input.job)

(* _resolve_request_tenant: "Mirrors the session's own resolution", and    *)
(* what it does not match "is rejected later at session start".            *)
TenantSeenAlike ==
  IsJob => SessionTenant(input.job) \in {RequestTenant(input.job), Error}

(* "OpenRTC-only flags are stripped from sys.argv before that handoff": so *)
(* are the isolation and the number of sessions, which the worker commands *)
(* accept and LiveKit's do not.                                            *)
OpenRtcFlagsAreStripped ==
  input.kind = "line" =>
    LET handed == HandedOver(input.command, Flatten(input.items), FALSE, FALSE)
    IN  ~Mentions(handed, "--isolation") /\ ~Mentions(handed, "--max-concurrent-sessions")

(* "Registration data is spawn-safe, so it survives serialization": what   *)
(* an accepted registration holds can be brought to a job process.         *)
RegisteredShips ==
  input.kind = "registration" /\ Registers(ConfigOf(input)) => Ships(ConfigOf(input))

(* "Provider objects already round-trip via _ProviderRef": what is brought *)
(* there is what was registered.                                           *)
ProvidersRoundTrip ==
  input.kind = "registration" /\ Registers(ConfigOf(input)) => Shipped(ConfigOf(input)) = ConfigOf(input)

(* "OpenRTC accepts both the modern turn_handling dict and a flatter set   *)
(* of top-level kwargs": an older option is heard beside a mapping that    *)
(* has nothing of its section.                                             *)
OlderOptionsAreHeard ==
  input.kind = "turn" /\ input.given.kind = "mapping" =>
    \A leaf \in Meant(input.deprecated) :
      leaf[1] \in DOMAIN input.given.sections \/ leaf \in Leaves(TurnHandling(input.given, input.deprecated, input.job))

(* "Environment variable ... OPENRTC_ISOLATION": a command that runs a     *)
(* worker takes the isolation from the environment.                        *)
IsolationFromEnvironment ==
  input.kind = "options" /\ input.command \in {"start", "connect"} /\ "--isolation" \notin input.given
      /\ input.env[EnvName["--isolation"]] # Unset =>
    WorkerOptions(input.command, input.given, input.env)["--isolation"] = "outer"
=============================================================================
