--------------------------- MODULE SessionOptions ---------------------------
(***************************************************************************)
(* What an AgentSession is built with.  turn_handling comes from a nested  *)
(* mapping, from older flat options, or from the defaults, of which the    *)
(* turn detector depends on the job: the executor it has, whether there is *)
(* a remote endpoint, and what the process's factory makes.  The providers *)
(* come from the tenant, the agent or the pool.                            *)
(*                                                                         *)
(* A turn handling is a function from some of the Sections to a value: a   *)
(* mapping of names, or a plain value, held as a mapping of one name.      *)
(***************************************************************************)
EXTENDS Functions

Section(of) == [nested |-> TRUE, of |-> of]
Plain(value) == [nested |-> FALSE, of |-> [value |-> value]]
NoOptions == [name \in {} |-> ""]
Holding(name, value) == [n \in {name} |-> value]
\* {**lower, **upper}
Over(upper, lower) ==
  [k \in DOMAIN upper \cup DOMAIN lower |-> IF k \in DOMAIN upper THEN upper[k] ELSE lower[k]]
Nothing == [kind |-> "nothing"]
NotGiven == "not given"
Refused == [kind |-> "refused"]

DefaultTurnDetection(job) == IF job.remote \/ job.executor = "usable" THEN job.makes ELSE "vad"

\* A factory that makes none leaves turn_detection out.
DefaultTurnHandling(job) ==
  LET detection == DefaultTurnDetection(job)
  IN  Over(IF detection = "none" THEN NoOptions ELSE Holding("turn_detection", Plain(detection)),
           Holding("interruption", Section(Holding("mode", "vad"))))

\* Mutant: a section given replaces the default one.
MergeTurnHandlingFlat(base, override) == Over(override, base)

\* Sections are merged, everything else is replaced.
MergeTurnHandling(base, override) ==
  [k \in DOMAIN base \cup DOMAIN override |->
     IF k \in DOMAIN base \cap DOMAIN override /\ base[k].nested /\ override[k].nested
     THEN Section(Over(override[k].of, base[k].of))
     ELSE Over(override, base)[k]]

\* Where the older options go; the later of two for one name wins.
EndpointingNames == [min_endpointing_delay |-> "min_delay", max_endpointing_delay |-> "max_delay"]
InterruptionNames ==
  [discard_audio_if_uninterruptible |-> "discard_audio_if_uninterruptible",
   min_interruption_duration |-> "min_duration", min_interruption_words |-> "min_words",
   false_interruption_timeout |-> "false_interruption_timeout",
   resume_false_interruption |-> "resume_false_interruption"]
AgentTimeout == "agent_false_interruption_timeout"
DeprecatedKeys ==
  DOMAIN EndpointingNames \cup DOMAIN InterruptionNames \cup {AgentTimeout, "allow_interruptions", "turn_detection"}

Renamed(options, names) ==
  LET keys == DOMAIN options \cap DOMAIN names
      KeyOf(name) == CHOOSE k \in keys : names[k] = name
  IN  [name \in {names[k] : k \in keys} |-> options[KeyOf(name)]]

FromDeprecated(options) ==
  LET Only(key, mapping) == IF key \in DOMAIN options THEN mapping ELSE NoOptions
      endpointing == Renamed(options, EndpointingNames)
      agents == Only(AgentTimeout, Holding("false_interruption_timeout", options[AgentTimeout]))
      forbidden == Only("allow_interruptions", IF options["allow_interruptions"] = "no" THEN Holding("enabled", "no") ELSE NoOptions)
      interruption == Over(Over(agents, Renamed(options, InterruptionNames)), forbidden)
      Held(name, section) == IF DOMAIN section = {} THEN NoOptions ELSE Holding(name, Section(section))
      detection == Only("turn_detection", Holding("turn_detection", Plain(options["turn_detection"])))
  IN  Over(Over(Held("endpointing", endpointing), Held("interruption", interruption)), detection)

(* _build_session_kwargs: a mapping given as turn_handling shuts the older *)
(* options out, anything else given there is passed as it is.              *)
TurnHandling(given, deprecated, job) ==
  LET base == DefaultTurnHandling(job)
  IN  CASE given.kind = "mapping" -> MergeTurnHandling(base, given.sections)
        [] given.kind = "opaque" -> NoOptions
        [] OTHER -> MergeTurnHandling(base, FromDeprecated(deprecated))

----------------------------------------------------------------------------
(* Providers and keyword arguments, from registration to session.          *)

\* add(): what an agent is not given it takes from the pool.
Resolved(value, default) == IF value = Nothing THEN default ELSE value
SessionKwargs(kwargs, direct) == Over(direct, kwargs)

(* TenantConfigResolver: a tenant is looked up once, and what was found is *)
(* kept; a tenant without a config is kept as one that overrides nothing.  *)
Looked(cache, tenant, answer) == IF tenant \in DOMAIN cache THEN cache ELSE Over(Holding(tenant, answer), cache)

\* The provider of one kind a session gets: the tenant's if it has one, or the agent's.
Provider(kind, config, own) == IF kind \in DOMAIN config THEN config[kind] ELSE own

(* A LiveKit plugin has a class, with its parameters, those of them it     *)
(* requires and the attributes of its _opts, and was given an argument for *)
(* some parameters.  An attribute named like a parameter holds what was    *)
(* given for it.  A class without _opts is one the code knows by its name. *)
OptsOf(plugin) ==
  [a \in plugin.class.attributes |-> IF a \in plugin.class.parameters THEN plugin.given[a] ELSE "its own"]

(* AgentConfig on its way to a job process.  A plain value goes as it is,  *)
(* a plugin as its class and what its _opts hold, any other object only if *)
(* it can be pickled.                                                      *)
Serialized(value) ==
  CASE value.kind = "plain" -> value
    [] value.kind = "plugin" ->
         [kind |-> "ref", class |-> value.class,
          kwargs |-> Restrict(OptsOf(value), {a \in value.class.attributes : OptsOf(value)[a] # NotGiven})]
    [] value.kind = "object" -> IF value.pickles THEN value ELSE Refused

(* The class is called with what was shipped, which must be its parameters *)
(* and must have all that it requires.                                     *)
Deserialized(value) ==
  CASE value.kind # "ref" -> value
    [] value.kind = "ref" ->
         IF value.class.required \subseteq DOMAIN value.kwargs /\ DOMAIN value.kwargs \subseteq value.class.parameters
         THEN [kind |-> "plugin", class |-> value.class,
               given |-> [o \in value.class.parameters |-> IF o \in DOMAIN value.kwargs THEN value.kwargs[o] ELSE NotGiven]]
         ELSE [kind |-> "TypeError"]

\* __post_init__ tries the providers, and nothing else of a registration.
Registers(config) == \A kind \in DOMAIN config.providers : Serialized(config.providers[kind]) # Refused

\* What the job process finds, and whether pickle can bring it there.
Shipped(config) ==
  [config EXCEPT !.providers = [kind \in DOMAIN config.providers |-> Deserialized(Serialized(config.providers[kind]))]]
Pickles(value) ==
  CASE value.kind = "object" -> value.pickles
    [] value.kind = "ref" -> \A a \in DOMAIN value.kwargs : value.kwargs[a] # "live object"
    [] OTHER -> TRUE
Ships(config) ==
  /\ \A kind \in DOMAIN config.providers : Pickles(Serialized(config.providers[kind]))
  /\ \A name \in DOMAIN config.kwargs : Pickles(config.kwargs[name])
=============================================================================
