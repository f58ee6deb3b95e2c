------------------------------ MODULE Routing ------------------------------
(***************************************************************************)
(* Who handles a job, asked twice.  When the job is offered the request    *)
(* filters (routing/request_filter.py) guess its agent and its tenant;     *)
(* when the session starts the resolver (routing/resolver.py) and          *)
(* _build_session_info decide them.  Two readings of the same signals.     *)
(*                                                                         *)
(* A job is what both read of it: the agent keys and the tenant of its job *)
(* and room metadata, the agents whose "<name>-" its room name starts      *)
(* with, and what the custom router would answer.  Metadata that is not a  *)
(* JSON object reads like metadata without keys.                           *)
(***************************************************************************)
EXTENDS Naturals, Sequences, FiniteSets, SequencesExt

CONSTANTS Names, TenantIds

NoName == "none"     \* no usable value under a metadata key
Error  == "error"    \* the resolver raises
DefaultTenant == "default"
Unlisted == "unlisted"  \* a tenant no cap and no breaker has

(* A tenant key as written: missing, the empty string, an id, an id with   *)
(* blanks around it, or text that is no tenant id.                         *)
TenantKeys == {<<"missing">>, <<"empty">>, <<"malformed">>}
                \cup ({"exact", "padded"} \X TenantIds)

ASSUME RoutingConstants ==
  /\ Names # {}
  /\ {NoName, Error, "defer", "raises"} \cap Names = {}
  /\ {Unlisted, Error} \cap TenantIds = {}

Metadata == [agent : Names \cup {NoName}, demo : Names \cup {NoName}, tenant : TenantKeys]

JobShapes == [job : Metadata, room : Metadata, prefixes : SUBSET Names,
              router : Names \cup {"defer", "raises"}]

----------------------------------------------------------------------------
(* Agents.  `agents` is the registry in registration order.                *)

\* _agent_name_from_mapping: the first of the keys "agent", "demo" that holds a name.
NameIn(metadata) == IF metadata.agent # NoName THEN metadata.agent ELSE metadata.demo

\* The first agent registered whose name and a "-" begin the name of the room.
PrefixedBy(agents, job) ==
  LET hits == {i \in DOMAIN agents : agents[i] \in job.prefixes}
  IN  IF hits = {} THEN NoName ELSE agents[Min(hits)]

(* The resolver: the router, else job metadata, room metadata, prefix and  *)
(* the first registered agent; a name that is not registered raises.       *)
ResolveAgent(agents, job) ==
  LET Registered(name) == IF name \in ToSet(agents) THEN name ELSE Error
  IN  CASE agents = <<>> -> Error
        [] agents # <<>> /\ job.router = "raises" -> Error
        [] agents # <<>> /\ job.router \in Names -> Registered(job.router)
        [] agents # <<>> /\ job.router = "defer" ->
             IF NameIn(job.job) # NoName THEN Registered(NameIn(job.job))
             ELSE IF NameIn(job.room) # NoName THEN Registered(NameIn(job.room))
             ELSE IF PrefixedBy(agents, job) # NoName THEN PrefixedBy(agents, job)
             ELSE agents[1]

\* Mutant: room metadata is read before job metadata.
RequestAgentRoomFirst(agents, job) ==
  IF agents = <<>> THEN NoName
  ELSE IF NameIn(job.room) \in ToSet(agents) THEN NameIn(job.room)
  ELSE IF NameIn(job.job) \in ToSet(agents) THEN NameIn(job.job)
  ELSE IF PrefixedBy(agents, job) # NoName THEN PrefixedBy(agents, job)
  ELSE agents[1]

(* _resolve_request_agent_name: the same order, no router, and a name that *)
(* is not registered is passed over.                                       *)
RequestAgent(agents, job) ==
  IF agents = <<>> THEN NoName
  ELSE IF NameIn(job.job) \in ToSet(agents) THEN NameIn(job.job)
  ELSE IF NameIn(job.room) \in ToSet(agents) THEN NameIn(job.room)
  ELSE IF PrefixedBy(agents, job) # NoName THEN PrefixedBy(agents, job)
  ELSE agents[1]

\* _owns_room: some explicit signal names a registered agent.
OwnsRoom(agents, job) ==
  \/ {NameIn(job.job), NameIn(job.room)} \cap ToSet(agents) # {}
  \/ PrefixedBy(agents, job) # NoName

----------------------------------------------------------------------------
(* Tenants.  Job metadata wins over room metadata once it has the key.     *)

TenantKey(job) == IF job.job.tenant # <<"missing">> THEN job.job.tenant ELSE job.room.tenant

\* _resolve_request_tenant: the value as written, which only an exact id shares with a cap.
RequestTenant(job) ==
  LET key == TenantKey(job)
  IN  CASE key \in {<<"missing">>, <<"empty">>} -> DefaultTenant
        [] key[1] = "exact" -> key[2]
        [] OTHER -> Unlisted

\* _resolve_tenant: validated and stripped, or the session is refused.
SessionTenant(job) ==
  LET key == TenantKey(job)
  IN  CASE key \in {<<"missing">>, <<"empty">>} -> DefaultTenant
        [] key = <<"malformed">> -> Error
        [] OTHER -> key[2]
=============================================================================
