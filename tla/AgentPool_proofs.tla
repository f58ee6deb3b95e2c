-------------------------- MODULE AgentPool_proofs --------------------------
(***************************************************************************)
(* The pool, for every set of agents, observers, calls and drain requests; *)
(* the registrations it ships to a job process; and the options a session  *)
(* is built with, for turn handlings, plugins and tenants of any kind.     *)
(***************************************************************************)
EXTENDS AgentPool, InputsCheck, SequenceLemmas

----------------------------------------------------------------------------
(* The audit.                                                              *)

InHand   == {t \in Threads : request[t] = "numbered"}
Numbered == {t \in Threads : event[t] # 0}

(* AuditIsWhole, with why the numbers are as many as the requests that     *)
(* took one.                                                               *)
AuditInv ==
  /\ request \in [Threads -> {"none", "checked", "begun", "numbered", "done"}]
  /\ event \in [Threads -> Nat] /\ seq \in Nat /\ sunk \in Seq(Nat)
  /\ draining \in BOOLEAN
  /\ \A t \in Threads : request[t] \in {"none", "checked", "begun"} => event[t] = 0
  /\ seq = Cardinality(Numbered)
  /\ ToSet(sunk) \cup {event[t] : t \in InHand} = 1 .. seq
  /\ Len(sunk) + Cardinality(InHand) = seq
  /\ draining => seq > 0 \/ \E t \in Threads : request[t] = "begun"

(* A request that is looked at, or that sets the flag, takes no number.    *)
LEMMA AskingTakesNoNumber ==
  ASSUME AuditInv, NEW t \in Threads, DrainAsked(t) \/ DrainSet(t)
  PROVE  AuditInv'
<1>1. /\ UNCHANGED <<event, seq, sunk>> /\ request[t] \in {"none", "checked"}
      /\ \E to \in {"checked", "begun", "done"} :
           /\ request' = [request EXCEPT ![t] = to]
           /\ draining' = draining \/ (draining' = TRUE /\ to = "begun")
  BY DEF DrainAsked, DrainSet, PipecatLooks, LiveKitDrains, Requested
<1>2. PICK to \in {"checked", "begun", "done"} :
           /\ request' = [request EXCEPT ![t] = to]
           /\ draining' = draining \/ (draining' = TRUE /\ to = "begun")
  BY <1>1
<1>3. request' \in [Threads -> {"none", "checked", "begun", "numbered", "done"}] /\ request'[t] = to
  BY <1>2 DEF AuditInv
<1>4. InHand' = InHand /\ Numbered' = Numbered
  BY <1>1, <1>2 DEF InHand, Numbered, AuditInv
<1>5. \A r \in Threads : request'[r] \in {"none", "checked", "begun"} => event[r] = 0
  BY <1>1, <1>2 DEF AuditInv
<1>6. draining' => seq > 0 \/ \E r \in Threads : request'[r] = "begun"
  BY <1>1, <1>2, <1>3 DEF AuditInv
<1>7. {event'[r] : r \in InHand'} = {event[r] : r \in InHand}
  BY <1>1, <1>4
<1>8. draining' \in BOOLEAN
  BY <1>2 DEF AuditInv
<1> QED BY <1>1, <1>3, <1>4, <1>5, <1>6, <1>7, <1>8 DEF AuditInv

(* A number is the next one, and in one thread's hands.                    *)
LEMMA NumberingTakesTheNext ==
  ASSUME AuditInv, NEW t \in Threads, NumberEvent(t)
  PROVE  AuditInv'
<1>0. IsFiniteSet(InHand) /\ IsFiniteSet(Numbered)
  BY AgentPoolAssumption, FS_Subset DEF InHand, Numbered
<1>1. /\ request[t] = "begun" /\ request' = [request EXCEPT ![t] = "numbered"]
      /\ event' = [event EXCEPT ![t] = seq + 1] /\ seq' = seq + 1
      /\ UNCHANGED <<sunk, draining>>
  BY DEF NumberEvent, Requested
<1>2. event[t] = 0 /\ t \notin InHand /\ t \notin Numbered
  BY <1>1 DEF AuditInv, InHand, Numbered
<1>3. InHand' = InHand \cup {t} /\ Numbered' = Numbered \cup {t}
  <2>1. InHand' = InHand \cup {t}
    BY <1>1 DEF AuditInv, InHand
  <2>2. seq + 1 # 0 /\ \A r \in Threads : event'[r] = IF r = t THEN seq + 1 ELSE event[r]
    BY <1>1 DEF AuditInv
  <2>3. Numbered' = Numbered \cup {t}
    BY <2>2 DEF Numbered
  <2> QED BY <2>1, <2>3
<1>4. Cardinality(InHand') = Cardinality(InHand) + 1 /\ Cardinality(Numbered') = seq + 1
  <2>1. Cardinality(InHand \cup {t}) = Cardinality(InHand) + 1
    BY <1>0, <1>2, FS_AddElement
  <2>2. Cardinality(Numbered \cup {t}) = Cardinality(Numbered) + 1
    BY <1>0, <1>2, FS_AddElement
  <2> QED BY <1>3, <2>1, <2>2 DEF AuditInv
<1>5. Cardinality(InHand) \in Nat /\ Len(sunk) \in Nat
  BY <1>0, FS_CardinalityType DEF AuditInv
<1>6. \A r \in InHand : event'[r] = event[r]
  BY <1>1, <1>2 DEF AuditInv, InHand
<1>7. {event'[r] : r \in InHand'} = {event[r] : r \in InHand} \cup {seq + 1}
  <2>1. event'[t] = seq + 1
    BY <1>1 DEF AuditInv
  <2> QED BY <1>3, <1>6, <2>1
<1>8. 1 .. seq + 1 = 1 .. seq \cup {seq + 1}
  BY DEF AuditInv
<1>9. ToSet(sunk') \cup {event'[r] : r \in InHand'} = 1 .. seq'
  BY <1>1, <1>7, <1>8 DEF AuditInv
<1>10. \A r \in Threads : request'[r] \in {"none", "checked", "begun"} => event'[r] = 0
  BY <1>1 DEF AuditInv
<1>11. Len(sunk') + Cardinality(InHand') = seq' /\ seq' > 0
  BY <1>1, <1>4, <1>5 DEF AuditInv
<1>12. /\ request' \in [Threads -> {"none", "checked", "begun", "numbered", "done"}]
       /\ event' \in [Threads -> Nat] /\ seq' \in Nat /\ sunk' \in Seq(Nat) /\ draining' \in BOOLEAN
  BY <1>1 DEF AuditInv
<1>13. seq' = Cardinality(Numbered')
  BY <1>1, <1>4
<1> QED BY <1>9, <1>10, <1>11, <1>12, <1>13 DEF AuditInv

(* A written event leaves its thread's hands.                              *)
LEMMA SinkingHandsOver ==
  ASSUME AuditInv, NEW t \in Threads, SinkEvent(t)
  PROVE  AuditInv'
<1>0. IsFiniteSet(InHand)
  BY AgentPoolAssumption, FS_Subset DEF InHand
<1>1. /\ request[t] = "numbered" /\ request' = [request EXCEPT ![t] = "done"]
      /\ sunk' = Append(sunk, event[t])
      /\ UNCHANGED <<event, seq, draining>>
  BY DEF SinkEvent, Requested
<1>2. t \in InHand /\ InHand' = InHand \ {t} /\ Numbered' = Numbered
  BY <1>1 DEF InHand, Numbered, AuditInv
<1>3. Cardinality(InHand') = Cardinality(InHand) - 1 /\ Cardinality(InHand) \in Nat
  BY <1>0, <1>2, FS_RemoveElement, FS_CardinalityType
<1>4. sunk' \in Seq(Nat) /\ Len(sunk') = Len(sunk) + 1
  BY <1>1 DEF AuditInv
<1>5. ToSet(sunk') = ToSet(sunk) \cup {event[t]}
  <2>1. event[t] \in Nat /\ sunk \in Seq(Nat)
    BY DEF AuditInv
  <2> QED BY <1>1, <2>1, AppendMembers
<1>6. {event[r] : r \in InHand} = {event[r] : r \in InHand'} \cup {event[t]}
  BY <1>2
<1>7. {event'[r] : r \in InHand'} = {event[r] : r \in InHand'}
  BY <1>1
<1>8. ToSet(sunk') \cup {event'[r] : r \in InHand'} = 1 .. seq'
  BY <1>1, <1>5, <1>6, <1>7 DEF AuditInv
<1>9. Len(sunk') + Cardinality(InHand') = seq'
  BY <1>1, <1>3, <1>4 DEF AuditInv
<1>10. \A r \in Threads : request'[r] \in {"none", "checked", "begun"} => event'[r] = 0
  BY <1>1 DEF AuditInv
<1>11. draining => seq > 0 \/ \E r \in Threads : request'[r] = "begun"
  BY <1>1 DEF AuditInv
<1> QED BY <1>1, <1>2, <1>4, <1>8, <1>9, <1>10, <1>11 DEF AuditInv

(* Nothing but a drain request touches the audit.                          *)
LEMMA AuditMoves ==
  ASSUME [PoolNext]_vars
  PROVE  \/ UNCHANGED <<auditVars, draining>>
         \/ \E t \in Threads : DrainAsked(t) \/ DrainSet(t) \/ NumberEvent(t) \/ SinkEvent(t)
BY DEF PoolNext, vars, Construct, AddObserver, Add, RemoveAgent, Discover, RunPool, CallArrives,
       Starts, Ends, TellStart, TellEnd, CallIsOver

(* The audit is whole in every state.                                      *)
LEMMA AuditStaysWhole == PoolSpec => []AuditInv
<1>1. PoolInit => AuditInv
  <2> SUFFICES ASSUME PoolInit PROVE AuditInv
    OBVIOUS
  <2>1. InHand = {} /\ Numbered = {}
    BY DEF PoolInit, InHand, Numbered
  <2>2. sunk = <<>> /\ ToSet(sunk) = {} /\ Len(sunk) = 0 /\ sunk \in Seq(Nat)
    BY DEF PoolInit, ToSet
  <2>3. Cardinality(InHand) = 0 /\ Cardinality(Numbered) = 0 /\ {event[t] : t \in InHand} = {}
    BY <2>1, FS_EmptySet
  <2>4. 1 .. 0 = {}
    OBVIOUS
  <2>5. /\ request \in [Threads -> {"none", "checked", "begun", "numbered", "done"}]
        /\ event \in [Threads -> Nat] /\ seq = 0 /\ draining \in BOOLEAN /\ ~ draining
        /\ \A t \in Threads : event[t] = 0
    BY DEF PoolInit
  <2>6. ToSet(sunk) \cup {event[t] : t \in InHand} = 1 .. seq
    BY <2>2, <2>3, <2>4, <2>5
  <2>7. Len(sunk) + Cardinality(InHand) = seq /\ seq = Cardinality(Numbered) /\ seq \in Nat
    BY <2>2, <2>3, <2>5
  <2> QED BY <2>2, <2>5, <2>6, <2>7 DEF AuditInv
<1>2. AuditInv /\ [PoolNext]_vars => AuditInv'
  <2>1. AuditInv /\ UNCHANGED <<auditVars, draining>> => AuditInv'
    BY DEF AuditInv, auditVars, InHand, Numbered
  <2> QED BY <2>1, AuditMoves, AskingTakesNoNumber, NumberingTakesTheNext, SinkingHandsOver
<1> QED BY <1>1, <1>2, PTL DEF PoolSpec

(* The audit has no gap and no number twice, whatever the threads that ask *)
(* for a drain do between looking, setting, numbering and writing.         *)
THEOREM AuditHasNoGap == PoolSpec => []AuditIsWhole
<1>1. AuditInv => AuditIsWhole
  BY DEF AuditInv, AuditIsWhole, InHand
<1> QED BY <1>1, AuditStaysWhole, PTL

----------------------------------------------------------------------------
(* The registry of agents and the list of observers.                       *)

Everyone == ToSet(Given) \cup {Top, Reload} \cup Added

(* Names are taken once, an observer is listed once, and the registries    *)
(* that the constructor sets up are among those who listen to calls.       *)
RegistryInv ==
  /\ agents \in Seq(AgentNames) /\ IsInjective(agents)
  /\ observers \in Seq(Everyone) /\ IsInjective(observers)
  /\ captured \in Seq(Everyone) /\ IsInjective(captured)
  /\ options.first \in AgentNames \cup {Broken}
  /\ Exists => /\ Inspected => Top \in ToSet(Listeners)
               /\ options.reload => Reload \in ToSet(Listeners)

(* The list that calls go through stays, or grows by observers of the      *)
(* application.                                                            *)
ListGrows ==
  /\ Len(Listeners) <= Len(Listeners')
  /\ \A k \in 1 .. Len(Listeners) : Listeners'[k] = Listeners[k]
  /\ \A k \in 1 .. Len(Listeners') : k > Len(Listeners) => Listeners'[k] \notin {Top, Reload}

(* Whom a call tells is a list without repetition.                         *)
LEMMA ListenersAreListed ==
  ASSUME RegistryInv
  PROVE  /\ Listeners \in Seq(Everyone) /\ IsInjective(Listeners) /\ Len(Listeners) \in Nat
         /\ DOMAIN Listeners = 1 .. Len(Listeners)
BY DEF RegistryInv, Listeners

(* The constructor lists everybody once.                                   *)
LEMMA ConstructLists ==
  ASSUME RegistryInv, Construct
  PROVE  RegistryInv'
<1> DEFINE before == Given \o (IF Inspected THEN <<Top>> ELSE <<>>)
<1>1. CASE UNCHANGED <<agents, observers, captured, options>> /\ pool' = "refused"
  BY <1>1 DEF RegistryInv, Exists
<1>2. CASE /\ ~(Malformed \/ options.first = Broken \/ ReloadRefused)
           /\ agents' = <<options.first>> /\ captured' = before /\ UNCHANGED options
           /\ observers' = IF options.reload THEN Append(before, Reload) ELSE before
  <2>1. Given \in Seq(Everyone) /\ IsInjective(Given) /\ Top \notin ToSet(Given) /\ Reload \notin ToSet(Given)
    BY AgentPoolAssumption DEF Everyone
  <2>2. Top \in Everyone /\ Reload \in Everyone /\ Top # Reload
    BY DEF Everyone, Top, Reload
  <2>3. before = IF Inspected THEN Append(Given, Top) ELSE Given
    BY <2>1, <2>2, ConcatenateOneOrNone
  <2>4. /\ before \in Seq(Everyone) /\ IsInjective(before) /\ Reload \notin ToSet(before)
        /\ Inspected => Top \in ToSet(before)
    <3> HIDE DEF before
    <3>1. CASE Inspected
      <4>1. before = Append(Given, Top)
        BY <2>3, <3>1
      <4>2. ToSet(before) = ToSet(Given) \cup {Top} /\ before \in Seq(Everyone) /\ IsInjective(before)
        BY <2>1, <2>2, <4>1, AppendMembers, AppendRepeatsNothing
      <4> QED BY <2>1, <2>2, <4>2
    <3>2. CASE ~ Inspected
      BY <2>1, <2>3, <3>2
    <3> QED BY <3>1, <3>2
  <2> HIDE DEF before
  <2>5. /\ observers' \in Seq(Everyone) /\ IsInjective(observers')
        /\ ToSet(before) \subseteq ToSet(observers')
        /\ options.reload => Reload \in ToSet(observers')
    BY <1>2, <2>2, <2>4, AppendMembers, AppendRepeatsNothing
  <2>6. agents' \in Seq(AgentNames) /\ IsInjective(agents')
    <3>1. options.first \in AgentNames
      BY <1>2 DEF RegistryInv
    <3> QED BY <1>2, <3>1 DEF IsInjective
  <2>7. OnPipecat => ~ options.reload
    BY <1>2 DEF ReloadRefused
  <2>8. /\ Inspected => Top \in ToSet(Listeners')
        /\ options.reload => Reload \in ToSet(Listeners')
    <3>1. CASE OnPipecat
      <4>1. Listeners' = before
        BY <1>2, <3>1 DEF Listeners, OnPipecat
      <4> QED BY <2>4, <2>7, <3>1, <4>1
    <3>2. CASE ~ OnPipecat
      <4>1. Listeners' = observers'
        BY <1>2, <3>2 DEF Listeners, OnPipecat
      <4> QED BY <2>4, <2>5, <4>1
    <3> QED BY <3>1, <3>2
  <2> QED BY <1>2, <2>4, <2>5, <2>6, <2>8 DEF RegistryInv, Inspected
<1> QED BY <1>1, <1>2 DEF Construct, observerVars

(* Adding an observer lists it once.                                       *)
LEMMA AddObserverLists ==
  ASSUME RegistryInv, NEW o \in Added, AddObserver(o)
  PROVE  RegistryInv' /\ ListGrows
<1>1. /\ o \in Everyone /\ o \notin {Top, Reload} /\ o \notin ToSet(observers)
      /\ observers' = Append(observers, o) /\ UNCHANGED <<pool, options, agents, captured>>
  BY AgentPoolAssumption DEF AddObserver, registryVars, Everyone
<1>2. /\ observers' \in Seq(Everyone) /\ IsInjective(observers')
      /\ ToSet(observers') = ToSet(observers) \cup {o} /\ Len(observers') = Len(observers) + 1
      /\ \A k \in 1 .. Len(observers) : observers'[k] = observers[k]
      /\ observers'[Len(observers) + 1] = o /\ Len(observers) \in Nat /\ Len(captured) \in Nat
  BY <1>1, AppendMembers, AppendRepeatsNothing DEF RegistryInv
<1>3. ListGrows
  <2>1. CASE OnPipecat
    BY <1>1, <1>2, <2>1 DEF ListGrows, Listeners, OnPipecat
  <2>2. CASE ~ OnPipecat
    BY <1>1, <1>2, <2>2 DEF ListGrows, Listeners, OnPipecat
  <2> QED BY <2>1, <2>2
<1>4. ToSet(Listeners) \subseteq ToSet(Listeners')
  BY <1>1, <1>2 DEF Listeners, OnPipecat
<1> QED BY <1>1, <1>2, <1>3, <1>4 DEF RegistryInv, Exists, Inspected

(* Adding, discovering and removing agents keep the names apart.           *)
LEMMA AgentsStayApart ==
  ASSUME RegistryInv, PoolNext
  PROVE  \/ agents' \in Seq(AgentNames) /\ IsInjective(agents')
         \/ Construct
<1>1. ASSUME NEW a \in AgentNames, Add(a) PROVE agents' \in Seq(AgentNames) /\ IsInjective(agents')
  BY <1>1, AppendMembers, AppendRepeatsNothing DEF Add, Register, RegistryInv
<1>2. ASSUME NEW a \in AgentNames, RemoveAgent(a) PROVE agents' \in Seq(AgentNames) /\ IsInjective(agents')
  BY <1>2, RemovedPlace DEF RemoveAgent, Unregister, RegistryInv
<1>3. ASSUME NEW files \in Directories, Discover(files)
      PROVE  agents' \in Seq(AgentNames) /\ IsInjective(agents')
  BY <1>3 DEF Discover, Discovered
<1>4. CASE agents' = agents
  BY <1>4 DEF RegistryInv
<1> QED BY <1>1, <1>2, <1>3, <1>4 DEF PoolNext, AddObserver, RunPool, CallArrives, Starts, Ends, TellStart,
       TellEnd, CallIsOver, DrainAsked, DrainSet, NumberEvent, SinkEvent, registryVars

(* Every step keeps the lists without repetition.                          *)
LEMMA RegistryStep ==
  ASSUME RegistryInv, [PoolNext]_vars
  PROVE  RegistryInv' /\ (Construct \/ ListGrows)
<1>1. CASE Construct
  BY <1>1, ConstructLists
<1>2. ASSUME NEW o \in Added, AddObserver(o) PROVE RegistryInv' /\ ListGrows
  BY <1>2, AddObserverLists
<1>3. CASE UNCHANGED <<observers, captured, options>> /\ (Exists' => Exists)
           /\ agents' \in Seq(AgentNames) /\ IsInjective(agents')
  <2>1. Listeners' = Listeners
    BY <1>3 DEF Listeners, OnPipecat
  <2> QED BY <1>3, <2>1, ListenersAreListed DEF RegistryInv, ListGrows, Inspected
<1>4. CASE PoolNext /\ ~ Construct /\ ~ \E o \in Added : AddObserver(o)
  <2>1. UNCHANGED <<observers, captured, options>> /\ (Exists' => Exists)
    BY <1>4 DEF PoolNext, Add, RemoveAgent, Discover, RunPool, CallArrives, Starts, Ends, TellStart,
       TellEnd, CallIsOver, DrainAsked, DrainSet, NumberEvent, SinkEvent, registryVars, observerVars, Exists
  <2> QED BY <1>3, <1>4, <2>1, AgentsStayApart
<1>5. CASE UNCHANGED vars
  BY <1>3, <1>5 DEF vars, registryVars, observerVars, RegistryInv, Exists
<1> QED BY <1>1, <1>2, <1>4, <1>5

(* Initially the lists are empty.                                          *)
LEMMA RegistryInit == PoolInit => RegistryInv
<1> SUFFICES ASSUME PoolInit PROVE RegistryInv
  OBVIOUS
<1>1. agents = <<>> /\ observers = <<>> /\ captured = <<>> /\ ~ Exists
  BY DEF PoolInit, Exists
<1>2. options.first \in AgentNames \cup {Broken}
  BY DEF PoolInit, Options
<1> QED BY <1>1, <1>2 DEF RegistryInv, IsInjective

----------------------------------------------------------------------------
(* The rounds: a start and an end are told along a list, one listener at a *)
(* time, while the list may grow.                                          *)

Hooks == {"start", "end"} \X Everyone
Registries == {Top, Reload}

Listed(list) ==
  /\ list \in Seq(Everyone) /\ IsInjective(list)
  /\ Len(list) \in Nat /\ Done \in Nat /\ Len(list) < Done

PlaceAfter(list, place) == IF place < Len(list) THEN place + 1 ELSE Done

(* How the rounds of one call stand: the places s and e they have reached  *)
(* on the list, the hooks t told, and the registries that hold the call.   *)
(* Every hook told is one that its round has passed, the starts before the *)
(* ends; a registry holds the call from its start to its end.              *)
Rounds(list, s, e, t, holding) ==
  /\ s \in 0 .. Len(list) \cup {Done} /\ e \in 0 .. Len(list) \cup {Done}
  /\ e # 0 => s \in {0, Done}
  /\ t \in Seq(Hooks) /\ IsInjective(t)
  /\ \A i \in DOMAIN t : \E k \in 1 .. Len(list) :
       (t[i] = <<"start", list[k]>> /\ k < s) \/ (t[i] = <<"end", list[k]>> /\ k < e)
  /\ \A i, j \in DOMAIN t : t[i][1] = "end" /\ t[j][1] = "start" => j < i
  /\ \A k \in 1 .. Len(list) : list[k] \in Registries => (list[k] \in holding <=> k < s /\ ~(k < e))
  /\ holding \subseteq ToSet(list)

(* Done is beyond every list: an observer is listed once.                  *)
LEMMA DoneIsBeyond ==
  ASSUME NEW list \in Seq(Everyone), IsInjective(list)
  PROVE  Listed(list)
<1>1. Len(list) \in Nat /\ ToSet(list) \subseteq Everyone
  BY DEF ToSet
<1>2. IsFiniteSet(ToSet(Given)) /\ Cardinality(ToSet(Given)) = Len(Given) /\ Len(Given) \in Nat
  BY AgentPoolAssumption, InjectiveLength
<1>3. IsFiniteSet({Top, Reload}) /\ Cardinality({Top, Reload}) \in Nat /\ Cardinality({Top, Reload}) <= 2
  <2> DEFINE one == {Top}
             both == one \cup {Reload}
  <2>1. {Top, Reload} = both
    OBVIOUS
  <2>2. IsFiniteSet(one) /\ Cardinality(one) = 1
    BY FS_Singleton
  <2> HIDE DEF one
  <2>3. IsFiniteSet(both) /\ (Cardinality(both) = Cardinality(one) \/ Cardinality(both) = Cardinality(one) + 1)
    BY <2>2, FS_AddElement
  <2> HIDE DEF both
  <2>4. Cardinality(both) \in Nat /\ Cardinality(both) <= 2
    BY <2>2, <2>3
  <2> QED BY <2>1, <2>3, <2>4, Zenon
<1>4. IsFiniteSet(Added) /\ Cardinality(Added) \in Nat
  BY AgentPoolAssumption, FS_CardinalityType
<1> DEFINE A == ToSet(Given) \cup {Top, Reload}
<1>5. /\ IsFiniteSet(A) /\ Cardinality(A) \in Nat
      /\ Cardinality(A) <= Len(Given) + 2
  <2>1. Cardinality(A) = Cardinality(ToSet(Given)) + Cardinality({Top, Reload})
                           - Cardinality(ToSet(Given) \cap {Top, Reload})
    BY <1>2, <1>3, FS_Union
  <2>2. IsFiniteSet(A) /\ Cardinality(A) \in Nat
    BY <1>2, <1>3, FS_Union, FS_CardinalityType
  <2>3. Cardinality(ToSet(Given) \cap {Top, Reload}) \in Nat
    BY <1>2, FS_Intersection, FS_CardinalityType
  <2> QED BY <1>2, <1>3, <2>1, <2>2, <2>3
<1> HIDE DEF A
<1>6. /\ IsFiniteSet(A \cup Added) /\ Cardinality(A \cup Added) \in Nat
      /\ Cardinality(A \cup Added) <= Len(Given) + 2 + Cardinality(Added)
  <2>1. Cardinality(A \cup Added) = Cardinality(A) + Cardinality(Added) - Cardinality(A \cap Added)
    BY <1>4, <1>5, FS_Union
  <2>2. IsFiniteSet(A \cup Added) /\ Cardinality(A \cup Added) \in Nat
    BY <1>4, <1>5, FS_Union, FS_CardinalityType
  <2>3. Cardinality(A \cap Added) \in Nat
    BY <1>5, FS_Intersection, FS_CardinalityType
  <2> QED BY <1>2, <1>4, <1>5, <2>1, <2>2, <2>3
<1>7. Everyone = A \cup Added
  BY DEF Everyone, A
<1>8. Cardinality(ToSet(list)) = Len(list)
  BY InjectiveLength
<1>9. Len(list) <= Cardinality(A \cup Added)
  BY <1>1, <1>6, <1>7, <1>8, FS_Subset
<1> QED BY <1>1, <1>2, <1>4, <1>6, <1>9 DEF Listed, Done

(* The place after one is the next one that listens.                       *)
LEMMA PlaceAfterIsNext ==
  ASSUME NEW list, Listed(list), NEW p \in 0 .. Len(list)
  PROVE  /\ PlaceAfter(list, p) \in 1 .. Len(list) \cup {Done} /\ PlaceAfter(list, p) # 0
         /\ \A k \in 1 .. Len(list) : k < PlaceAfter(list, p) <=> k <= p
BY DEF Listed, PlaceAfter

(* A list that grows by observers of the application changes no round.     *)
LEMMA RoundsGrow ==
  ASSUME NEW list, NEW longer, Listed(list), Listed(longer), Len(list) <= Len(longer),
         \A k \in 1 .. Len(list) : longer[k] = list[k],
         \A k \in 1 .. Len(longer) : k > Len(list) => longer[k] \notin Registries,
         NEW s, NEW e, NEW t, NEW holding, Rounds(list, s, e, t, holding)
  PROVE  Rounds(longer, s, e, t, holding)
<1>1. 1 .. Len(list) \subseteq 1 .. Len(longer) /\ 0 .. Len(list) \subseteq 0 .. Len(longer)
  BY DEF Listed
<1>2. ToSet(list) \subseteq ToSet(longer)
  <2>1. DOMAIN list = 1 .. Len(list) /\ DOMAIN longer = 1 .. Len(longer)
    BY DEF Listed
  <2> QED BY <1>1, <2>1 DEF ToSet
<1>3. \A i \in DOMAIN t : \E k \in 1 .. Len(longer) :
        (t[i] = <<"start", longer[k]>> /\ k < s) \/ (t[i] = <<"end", longer[k]>> /\ k < e)
  BY <1>1 DEF Rounds
<1>4. \A k \in 1 .. Len(longer) : longer[k] \in Registries => (longer[k] \in holding <=> k < s /\ ~(k < e))
  <2> SUFFICES ASSUME NEW k \in 1 .. Len(longer), longer[k] \in Registries
               PROVE  longer[k] \in holding <=> k < s /\ ~(k < e)
    OBVIOUS
  <2>1. k \in 1 .. Len(list) /\ longer[k] = list[k]
    BY DEF Listed
  <2> QED BY <2>1 DEF Rounds
<1> QED BY <1>1, <1>2, <1>3, <1>4 DEF Rounds

(* The start of a call begins with the first place.                        *)
LEMMA RoundStarts ==
  ASSUME NEW list, Listed(list), NEW t, NEW holding, Rounds(list, 0, 0, t, holding)
  PROVE  Rounds(list, PlaceAfter(list, 0), 0, t, holding)
<1>1. 0 \in 0 .. Len(list)
  BY DEF Listed
<1> DEFINE next == PlaceAfter(list, 0)
<1>2. next \in 0 .. Len(list) \cup {Done} /\ \A k \in 1 .. Len(list) : k < next <=> k <= 0
  BY <1>1, PlaceAfterIsNext
<1> HIDE DEF next
<1>3. DOMAIN t = {}
  BY DEF Rounds
<1> QED BY <1>1, <1>2, <1>3 DEF Rounds, next

(* The end of a call begins with the first place.                          *)
LEMMA RoundEnds ==
  ASSUME NEW list, Listed(list), NEW s \in {0, Done}, NEW t, NEW holding, Rounds(list, s, 0, t, holding)
  PROVE  Rounds(list, s, PlaceAfter(list, 0), t, holding)
<1>1. 0 \in 0 .. Len(list)
  BY DEF Listed
<1> DEFINE next == PlaceAfter(list, 0)
<1>2. next \in 0 .. Len(list) \cup {Done} /\ \A k \in 1 .. Len(list) : k < next <=> k <= 0
  BY <1>1, PlaceAfterIsNext
<1> HIDE DEF next
<1>3. \A i \in DOMAIN t : \E k \in 1 .. Len(list) :
        (t[i] = <<"start", list[k]>> /\ k < s) \/ (t[i] = <<"end", list[k]>> /\ k < next)
  BY DEF Rounds
<1>4. \A k \in 1 .. Len(list) : ~(k < next) /\ ~(k < 0)
  BY <1>2
<1> QED BY <1>2, <1>3, <1>4 DEF Rounds, next

(* A hook that was not told yet, behind all that were.                     *)
LEMMA HookIsAppended ==
  ASSUME NEW list, Listed(list), NEW s, NEW e, NEW t, NEW holding, Rounds(list, s, e, t, holding),
         NEW kind \in {"start", "end"}, NEW p \in 1 .. Len(list),
         kind = "start" => s = p /\ e = 0,
         kind = "end" => e = p
  PROVE  LET new == Append(t, <<kind, list[p]>>)
         IN  /\ new \in Seq(Hooks) /\ IsInjective(new)
             /\ \A i \in DOMAIN new : (i \in DOMAIN t /\ new[i] = t[i])
                                        \/ (i = Len(t) + 1 /\ new[i] = <<kind, list[p]>>)
             /\ \A i, j \in DOMAIN new : new[i][1] = "end" /\ new[j][1] = "start" => j < i
<1> DEFINE hook == <<kind, list[p]>>
           new == Append(t, hook)
<1>1. list[p] \in Everyone /\ hook \in Hooks /\ hook[1] = kind
  BY DEF Listed, Hooks
<1>2. t \in Seq(Hooks) /\ DOMAIN t = 1 .. Len(t) /\ Len(t) \in Nat
  BY DEF Rounds
<1>3. \A k \in 1 .. Len(list) : list[k] = list[p] => k = p
  BY DEF Listed, IsInjective
<1>4. hook \notin ToSet(t)
  <2> SUFFICES ASSUME NEW i \in DOMAIN t, t[i] = hook PROVE FALSE
    BY DEF ToSet
  <2>1. PICK k \in 1 .. Len(list) :
           (t[i] = <<"start", list[k]>> /\ k < s) \/ (t[i] = <<"end", list[k]>> /\ k < e)
    BY DEF Rounds
  <2> QED BY <1>3, <2>1 DEF Listed
<1> HIDE DEF hook
<1>5. new \in Seq(Hooks) /\ IsInjective(new)
  BY <1>1, <1>2, <1>4, AppendMembers, AppendRepeatsNothing DEF Rounds
<1>6. /\ DOMAIN new = 1 .. Len(t) + 1 /\ new[Len(t) + 1] = hook
      /\ \A i \in 1 .. Len(t) : new[i] = t[i]
  BY <1>1, <1>2, AppendMembers
<1>7. \A i \in DOMAIN new : (i \in DOMAIN t /\ new[i] = t[i]) \/ (i = Len(t) + 1 /\ new[i] = hook)
  BY <1>2, <1>6
<1> HIDE DEF new
<1>8. ASSUME NEW i \in DOMAIN new, NEW j \in DOMAIN new, new[i][1] = "end", new[j][1] = "start"
      PROVE  j < i
  <2>1. CASE i \in DOMAIN t /\ j \in DOMAIN t
    BY <1>2, <1>6, <1>8, <2>1 DEF Rounds
  <2>2. CASE i = Len(t) + 1
    BY <1>1, <1>2, <1>6, <1>7, <1>8, <2>2
  <2>3. CASE j = Len(t) + 1 /\ i \in DOMAIN t
    <3>1. kind = "start" /\ e = 0
      BY <1>1, <1>6, <1>8, <2>3
    <3>2. PICK k \in 1 .. Len(list) :
             (t[i] = <<"start", list[k]>> /\ k < s) \/ (t[i] = <<"end", list[k]>> /\ k < e)
      BY <2>3 DEF Rounds
    <3>3. t[i][1] = "end"
      BY <1>2, <1>6, <1>8, <2>3
    <3> QED BY <3>1, <3>2, <3>3
  <2> QED BY <1>7, <2>1, <2>2, <2>3
<1> QED BY <1>5, <1>7, <1>8 DEF new, hook

(* Telling a start of a call is one step along the list.                   *)
LEMMA StartIsTold ==
  ASSUME NEW list, Listed(list), NEW p \in 1 .. Len(list), NEW e, NEW t, NEW holding,
         Rounds(list, p, e, t, holding),
         NEW after, after \ {list[p]} = holding \ {list[p]},
         list[p] \in after <=> list[p] \in Registries
  PROVE  Rounds(list, PlaceAfter(list, p), e, Append(t, <<"start", list[p]>>), after)
<1> DEFINE next == PlaceAfter(list, p)
           new == Append(t, <<"start", list[p]>>)
<1>1. next \in 0 .. Len(list) \cup {Done} /\ \A k \in 1 .. Len(list) : k < next <=> k <= p
  BY PlaceAfterIsNext DEF Listed
<1>2. e = 0
  BY DEF Rounds, Listed
<1>3. /\ new \in Seq(Hooks) /\ IsInjective(new)
      /\ \A i \in DOMAIN new : (i \in DOMAIN t /\ new[i] = t[i])
                                 \/ (i = Len(t) + 1 /\ new[i] = <<"start", list[p]>>)
      /\ \A i, j \in DOMAIN new : new[i][1] = "end" /\ new[j][1] = "start" => j < i
  BY <1>2, HookIsAppended
<1>4. \A k \in 1 .. Len(list) : list[k] = list[p] => k = p
  BY DEF Listed, IsInjective
<1> HIDE DEF next, new
<1>5. \A i \in DOMAIN new : \E k \in 1 .. Len(list) :
        (new[i] = <<"start", list[k]>> /\ k < next) \/ (new[i] = <<"end", list[k]>> /\ k < e)
  <2> SUFFICES ASSUME NEW i \in DOMAIN new
               PROVE  \E k \in 1 .. Len(list) :
                        (new[i] = <<"start", list[k]>> /\ k < next) \/ (new[i] = <<"end", list[k]>> /\ k < e)
    OBVIOUS
  <2>1. CASE i \in DOMAIN t /\ new[i] = t[i]
    <3>1. PICK k \in 1 .. Len(list) :
             (t[i] = <<"start", list[k]>> /\ k < p) \/ (t[i] = <<"end", list[k]>> /\ k < e)
      BY <2>1 DEF Rounds
    <3> QED BY <1>1, <2>1, <3>1
  <2>2. CASE new[i] = <<"start", list[p]>>
    BY <1>1, <2>2
  <2> QED BY <1>3, <2>1, <2>2
<1>6. ASSUME NEW k \in 1 .. Len(list), list[k] \in Registries
      PROVE  list[k] \in after <=> k < next /\ ~(k < e)
  <2>1. CASE k = p
    BY <1>1, <1>2, <1>6, <2>1
  <2>2. CASE k # p
    <3>1. list[k] \in after <=> list[k] \in holding
      BY <1>4, <2>2
    <3>2. list[k] \in holding <=> k < p /\ ~(k < e)
      BY <1>6 DEF Rounds
    <3> QED BY <1>1, <2>2, <3>1, <3>2 DEF Listed
  <2> QED BY <2>1, <2>2
<1>7. after \subseteq ToSet(list)
  BY DEF Rounds, ToSet, Listed
<1> QED BY <1>1, <1>2, <1>3, <1>5, <1>6, <1>7 DEF Rounds, next, new

(* Telling an end is one step along the list.                              *)
LEMMA EndIsTold ==
  ASSUME NEW list, Listed(list), NEW s, NEW p \in 1 .. Len(list), NEW t, NEW holding,
         Rounds(list, s, p, t, holding),
         NEW after, after = holding \ {list[p]}
  PROVE  Rounds(list, s, PlaceAfter(list, p), Append(t, <<"end", list[p]>>), after)
<1> DEFINE next == PlaceAfter(list, p)
           new == Append(t, <<"end", list[p]>>)
<1>1. /\ next \in 0 .. Len(list) \cup {Done} /\ next # 0
      /\ \A k \in 1 .. Len(list) : k < next <=> k <= p
  BY PlaceAfterIsNext DEF Listed
<1>2. s \in {0, Done}
  BY DEF Rounds, Listed
<1>3. /\ new \in Seq(Hooks) /\ IsInjective(new)
      /\ \A i \in DOMAIN new : (i \in DOMAIN t /\ new[i] = t[i])
                                 \/ (i = Len(t) + 1 /\ new[i] = <<"end", list[p]>>)
      /\ \A i, j \in DOMAIN new : new[i][1] = "end" /\ new[j][1] = "start" => j < i
  BY HookIsAppended
<1>4. \A k \in 1 .. Len(list) : list[k] = list[p] => k = p
  BY DEF Listed, IsInjective
<1> HIDE DEF next, new
<1>5. \A i \in DOMAIN new : \E k \in 1 .. Len(list) :
        (new[i] = <<"start", list[k]>> /\ k < s) \/ (new[i] = <<"end", list[k]>> /\ k < next)
  <2> SUFFICES ASSUME NEW i \in DOMAIN new
               PROVE  \E k \in 1 .. Len(list) :
                        (new[i] = <<"start", list[k]>> /\ k < s) \/ (new[i] = <<"end", list[k]>> /\ k < next)
    OBVIOUS
  <2>1. CASE i \in DOMAIN t /\ new[i] = t[i]
    <3>1. PICK k \in 1 .. Len(list) :
             (t[i] = <<"start", list[k]>> /\ k < s) \/ (t[i] = <<"end", list[k]>> /\ k < p)
      BY <2>1 DEF Rounds
    <3> QED BY <1>1, <2>1, <3>1
  <2>2. CASE new[i] = <<"end", list[p]>>
    BY <1>1, <2>2
  <2> QED BY <1>3, <2>1, <2>2
<1>6. ASSUME NEW k \in 1 .. Len(list), list[k] \in Registries
      PROVE  list[k] \in after <=> k < s /\ ~(k < next)
  <2>1. CASE k = p
    BY <1>1, <2>1
  <2>2. CASE k # p
    <3>1. list[k] \in after <=> list[k] \in holding
      BY <1>4, <2>2
    <3>2. list[k] \in holding <=> k < s /\ ~(k < p)
      BY <1>6 DEF Rounds
    <3> QED BY <1>1, <2>2, <3>1, <3>2 DEF Listed
  <2> QED BY <2>1, <2>2
<1>7. after \subseteq ToSet(list)
  BY DEF Rounds
<1> QED BY <1>1, <1>2, <1>3, <1>5, <1>6, <1>7 DEF Rounds, next, new

----------------------------------------------------------------------------
(* The rounds of every call of a pool.                                     *)

HeldBy(c) == {r \in Registries : c \in rows[r]}

(* A call needs a pool that serves, and its rounds go along the list.      *)
RoundInv ==
  /\ startAt \in [Calls -> Nat] /\ endAt \in [Calls -> Nat] /\ told \in [Calls -> Seq(Hooks)]
  /\ rows \in [Registries -> SUBSET Calls]
  /\ call \in [Calls -> {"none", "live", "declined", "failed", "over"}]
  /\ \A c \in Calls : Rounds(Listeners, startAt[c], endAt[c], told[c], HeldBy(c))
  /\ \A c \in Calls : call[c] # "none" => pool = "serving"
  /\ pool # "serving" => \A c \in Calls : startAt[c] = 0 /\ endAt[c] = 0 /\ HeldBy(c) = {}

(* A call that has not begun has begun on no list.                         *)
LEMMA FreshRounds ==
  ASSUME NEW list, Listed(list), NEW t, NEW shorter, Rounds(shorter, 0, 0, t, {})
  PROVE  Rounds(list, 0, 0, t, {})
<1>1. DOMAIN t = {}
  <2> SUFFICES ASSUME NEW i \in DOMAIN t PROVE FALSE
    OBVIOUS
  <2>1. PICK k \in 1 .. Len(shorter) : k < 0
    BY DEF Rounds
  <2> QED BY <2>1
<1> QED BY <1>1 DEF Rounds, Listed

(* The lists before and after a step repeat nobody.                        *)
LEMMA ListedNowAndNext ==
  ASSUME RegistryInv, [PoolNext]_vars
  PROVE  Listed(Listeners) /\ Listed(Listeners') /\ (Construct \/ ListGrows) /\ RegistryInv'
<1>1. RegistryInv' /\ (Construct \/ ListGrows)
  BY RegistryStep
<1>2. Listeners' \in Seq(Everyone) /\ IsInjective(Listeners')
  BY <1>1 DEF RegistryInv, Listeners
<1> QED BY <1>1, <1>2, DoneIsBeyond, ListenersAreListed

(* No call but of a pool that serves.                                      *)
LEMMA CallsNeedService ==
  ASSUME RoundInv, [PoolNext]_vars
  PROVE  /\ call' \in [Calls -> {"none", "live", "declined", "failed", "over"}]
         /\ \A c \in Calls : call'[c] # "none" => pool' = "serving"
         /\ pool = "serving" => pool' = "serving"
<1> USE DEF RoundInv
<1>1. CASE UNCHANGED call /\ (pool = "serving" => pool' = "serving")
  BY <1>1
<1>2. ASSUME NEW c \in Calls, CallIsOver(c) \/ \E wanted \in AgentNames \cup {Anyone} : CallArrives(c, wanted)
      PROVE  /\ call' \in [Calls -> {"none", "live", "declined", "failed", "over"}]
             /\ pool = "serving" /\ pool' = "serving"
  BY <1>2 DEF CallIsOver, CallArrives, Serving, registryVars
<1>3. \/ UNCHANGED call /\ (pool = "serving" => pool' = "serving")
      \/ \E c \in Calls : CallIsOver(c) \/ \E wanted \in AgentNames \cup {Anyone} : CallArrives(c, wanted)
  BY DEF PoolNext, vars, Construct, AddObserver, Add, RemoveAgent, Discover, RunPool,
     Starts, Ends, TellStart, TellEnd, DrainAsked, DrainSet, NumberEvent, SinkEvent, registryVars
<1> QED BY <1>1, <1>2, <1>3

(* The steps that leave the rounds alone.                                  *)
LEMMA RoundsStay ==
  ASSUME RegistryInv, RoundInv, [PoolNext]_vars, UNCHANGED roundVars
  PROVE  RoundInv'
<1>1. Listed(Listeners) /\ Listed(Listeners') /\ (Construct \/ ListGrows)
  BY ListedNowAndNext
<1>2. UNCHANGED <<startAt, endAt, told, rows>>
  BY DEF roundVars
<1>3. \A c \in Calls : HeldBy(c)' = HeldBy(c)
  BY <1>2 DEF HeldBy
<1>4. ASSUME NEW c \in Calls
      PROVE  Rounds(Listeners', startAt[c], endAt[c], told[c], HeldBy(c))
  <2>1. Rounds(Listeners, startAt[c], endAt[c], told[c], HeldBy(c))
    BY DEF RoundInv
  <2>2. CASE Construct
    <3>1. startAt[c] = 0 /\ endAt[c] = 0 /\ HeldBy(c) = {}
      BY <2>2 DEF Construct, RoundInv
    <3> QED BY <1>1, <2>1, <3>1, FreshRounds
  <2>3. CASE ListGrows
    BY <1>1, <2>1, <2>3, RoundsGrow DEF ListGrows, Registries
  <2> QED BY <1>1, <2>2, <2>3
<1>5. \A c \in Calls : Rounds(Listeners', startAt'[c], endAt'[c], told'[c], HeldBy(c)')
  BY <1>2, <1>3, <1>4
<1> QED BY <1>2, <1>3, <1>5, CallsNeedService DEF RoundInv

(* One call's round goes on, the others stay.                              *)
RoundGoesOn(c) ==
  /\ startAt' \in [Calls -> Nat] /\ endAt' \in [Calls -> Nat] /\ told' \in [Calls -> Seq(Hooks)]
  /\ rows' \in [Registries -> SUBSET Calls]
  /\ \A d \in Calls \ {c} :
       startAt'[d] = startAt[d] /\ endAt'[d] = endAt[d] /\ told'[d] = told[d] /\ HeldBy(d)' = HeldBy(d)

(* A round survives a step that tells nobody.                              *)
LEMMA RoundsGoOn ==
  ASSUME RegistryInv, RoundInv, [PoolNext]_vars, NEW c \in Calls, RoundGoesOn(c), call[c] = "live",
         UNCHANGED <<registryVars, observerVars, call>>,
         Rounds(Listeners, startAt'[c], endAt'[c], told'[c], HeldBy(c)')
  PROVE  RoundInv'
<1>1. Listeners' = Listeners /\ UNCHANGED pool
  BY DEF Listeners, OnPipecat, registryVars, observerVars
<1>2. pool = "serving"
  BY DEF RoundInv
<1>3. \A d \in Calls : Rounds(Listeners', startAt'[d], endAt'[d], told'[d], HeldBy(d)')
  BY <1>1 DEF RoundGoesOn, RoundInv
<1> QED BY <1>1, <1>2, <1>3, CallsNeedService DEF RoundInv, RoundGoesOn

(* Every step keeps the rounds of every call in order.                     *)
LEMMA RoundStep ==
  ASSUME Serial, RegistryInv, RoundInv, [PoolNext]_vars
  PROVE  RoundInv'
<1> DEFINE list == Listeners
<1>0. Listed(list) /\ Done \in Nat /\ \A p : PlaceAfter(list, p) = After(p)
  BY ListedNowAndNext DEF Listed, PlaceAfter, After
<1>1. \A c \in Calls : Rounds(list, startAt[c], endAt[c], told[c], HeldBy(c))
  BY DEF RoundInv
<1>2. \A c \in Calls : \A p \in 0 .. Len(list) \cup {Done} :
        Within(p) <=> p # 0 /\ p # Done
  BY <1>0 DEF Within, Listed
<1>3. /\ startAt \in [Calls -> Nat] /\ endAt \in [Calls -> Nat] /\ told \in [Calls -> Seq(Hooks)]
      /\ rows \in [Registries -> SUBSET Calls]
  BY DEF RoundInv
<1>4. \A p \in 0 .. Len(list) : After(p) \in Nat
  BY <1>0 DEF After, Listed
<1> HIDE DEF list
<1>5. ASSUME NEW c \in Calls, Starts(c) PROVE RoundInv'
  <2>1. /\ call[c] = "live" /\ startAt[c] = 0 /\ endAt[c] = 0
        /\ startAt' = [startAt EXCEPT ![c] = After(0)]
        /\ UNCHANGED <<registryVars, observerVars, call, endAt, told, rows>>
    BY <1>5 DEF Starts
  <2>2. RoundGoesOn(c) /\ HeldBy(c)' = HeldBy(c)
    BY <1>0, <1>3, <1>4, <2>1 DEF RoundGoesOn, HeldBy, Listed
  <2>3. Rounds(list, After(0), 0, told[c], HeldBy(c))
    BY <1>0, <1>1, <2>1, RoundStarts
  <2>4. Rounds(list, startAt'[c], endAt'[c], told'[c], HeldBy(c)')
    BY <1>3, <2>1, <2>2, <2>3
  <2> QED BY <2>1, <2>2, <2>4, RoundsGoOn DEF list
<1>6. ASSUME NEW c \in Calls, Ends(c) PROVE RoundInv'
  <2>1. /\ call[c] = "live" /\ endAt[c] = 0 /\ ~ Within(startAt[c])
        /\ endAt' = [endAt EXCEPT ![c] = After(0)]
        /\ UNCHANGED <<registryVars, observerVars, call, startAt, told, rows>>
    BY <1>6 DEF Ends, Telling
  <2>2. RoundGoesOn(c) /\ HeldBy(c)' = HeldBy(c)
    BY <1>0, <1>3, <1>4, <2>1 DEF RoundGoesOn, HeldBy, Listed
  <2>3. startAt[c] \in {0, Done}
    BY <1>1, <1>2, <2>1 DEF Rounds
  <2>4. Rounds(list, startAt[c], After(0), told[c], HeldBy(c))
    BY <1>0, <1>1, <2>1, <2>3, RoundEnds
  <2>5. Rounds(list, startAt'[c], endAt'[c], told'[c], HeldBy(c)')
    BY <1>3, <2>1, <2>2, <2>4
  <2> QED BY <2>1, <2>2, <2>5, RoundsGoOn DEF list
<1>7. ASSUME NEW c \in Calls, TellStart(c) PROVE RoundInv'
  <2> DEFINE p == startAt[c]
             o == list[p]
  <2>1. /\ call[c] = "live" /\ p \in 1 .. Len(list)
        /\ told' = [told EXCEPT ![c] = Append(@, <<"start", o>>)]
        /\ rows' = [r \in DOMAIN rows |-> IF r = o THEN rows[r] \cup {c} ELSE rows[r]]
        /\ startAt' = [startAt EXCEPT ![c] = After(p)]
        /\ UNCHANGED <<registryVars, observerVars, call, endAt>>
    BY <1>7 DEF TellStart, Within, list
  <2>2. o \in Everyone /\ <<"start", o>> \in Hooks
    BY <1>0, <2>1 DEF Listed, Hooks
  <2> HIDE DEF o
  <2>3. HeldBy(c)' = IF o \in Registries THEN HeldBy(c) \cup {o} ELSE HeldBy(c)
    BY <1>3, <2>1 DEF HeldBy
  <2>4. \A d \in Calls \ {c} : HeldBy(d)' = HeldBy(d)
    BY <1>3, <2>1 DEF HeldBy
  <2>5. After(p) \in Nat /\ Append(told[c], <<"start", o>>) \in Seq(Hooks)
    BY <1>3, <1>4, <2>1, <2>2
  <2>6. startAt' \in [Calls -> Nat] /\ told' \in [Calls -> Seq(Hooks)] /\ rows' \in [Registries -> SUBSET Calls]
    BY <1>3, <2>1, <2>5
  <2>7. RoundGoesOn(c)
    BY <1>3, <2>1, <2>4, <2>6 DEF RoundGoesOn
  <2>8. HeldBy(c)' \ {o} = HeldBy(c) \ {o} /\ (o \in HeldBy(c)' <=> o \in Registries)
    BY <2>3 DEF HeldBy
  <2>9. Rounds(list, After(p), endAt[c], Append(told[c], <<"start", o>>), HeldBy(c)')
    BY <1>0, <1>1, <2>1, <2>8, StartIsTold DEF o
  <2>10. Rounds(list, startAt'[c], endAt'[c], told'[c], HeldBy(c)')
    BY <1>3, <2>1, <2>9
  <2> QED BY <2>1, <2>7, <2>10, RoundsGoOn DEF list
<1>8. ASSUME NEW c \in Calls, TellEnd(c) PROVE RoundInv'
  <2> DEFINE p == endAt[c]
             o == list[p]
  <2>1. /\ call[c] = "live" /\ p \in 1 .. Len(list)
        /\ told' = [told EXCEPT ![c] = Append(@, <<"end", o>>)]
        /\ rows' = [r \in DOMAIN rows |-> IF r = o THEN rows[r] \ {c} ELSE rows[r]]
        /\ endAt' = [endAt EXCEPT ![c] = After(p)]
        /\ UNCHANGED <<registryVars, observerVars, call, startAt>>
    BY <1>8 DEF TellEnd, Within, list
  <2>2. o \in Everyone /\ <<"end", o>> \in Hooks
    BY <1>0, <2>1 DEF Listed, Hooks
  <2> HIDE DEF o
  <2>3. HeldBy(c)' = HeldBy(c) \ {o}
    BY <1>3, <2>1 DEF HeldBy
  <2>4. \A d \in Calls \ {c} : HeldBy(d)' = HeldBy(d)
    BY <1>3, <2>1 DEF HeldBy
  <2>5. After(p) \in Nat /\ Append(told[c], <<"end", o>>) \in Seq(Hooks)
    BY <1>3, <1>4, <2>1, <2>2
  <2>6. endAt' \in [Calls -> Nat] /\ told' \in [Calls -> Seq(Hooks)] /\ rows' \in [Registries -> SUBSET Calls]
    BY <1>3, <2>1, <2>5
  <2>7. RoundGoesOn(c)
    BY <1>3, <2>1, <2>4, <2>6 DEF RoundGoesOn
  <2>8. Rounds(list, startAt[c], After(p), Append(told[c], <<"end", o>>), HeldBy(c)')
    BY <1>0, <1>1, <2>1, <2>3, EndIsTold DEF o
  <2>9. Rounds(list, startAt'[c], endAt'[c], told'[c], HeldBy(c)')
    BY <1>3, <2>1, <2>8
  <2> QED BY <2>1, <2>7, <2>9, RoundsGoOn DEF list
<1>9. \/ \E c \in Calls : Starts(c) \/ Ends(c) \/ TellStart(c) \/ TellEnd(c)
      \/ UNCHANGED roundVars
  BY DEF PoolNext, vars, Construct, AddObserver, Add, RemoveAgent, Discover, RunPool, CallArrives, CallIsOver,
     DrainAsked, DrainSet, NumberEvent, SinkEvent
<1> QED BY <1>5, <1>6, <1>7, <1>8, <1>9, RoundsStay

(* The rounds are in order in every state.                                 *)
LEMMA RoundsStaySound ==
  ASSUME Serial
  PROVE  PoolSpec => [](RegistryInv /\ RoundInv)
<1>1. PoolInit => RegistryInv /\ RoundInv
  <2> SUFFICES ASSUME PoolInit PROVE RegistryInv /\ RoundInv
    OBVIOUS
  <2>1. RegistryInv /\ Listed(Listeners)
    BY RegistryInit, ListenersAreListed, DoneIsBeyond
  <2>2. \A c \in Calls : startAt[c] = 0 /\ endAt[c] = 0 /\ told[c] = <<>> /\ call[c] = "none" /\ HeldBy(c) = {}
    BY DEF PoolInit, HeldBy, Registries
  <2>3. Rounds(Listeners, 0, 0, <<>>, {})
    BY <2>1 DEF Rounds, Listed, IsInjective, Registries
  <2>4. /\ startAt \in [Calls -> Nat] /\ endAt \in [Calls -> Nat] /\ told \in [Calls -> Seq(Hooks)]
        /\ rows \in [Registries -> SUBSET Calls]
        /\ call \in [Calls -> {"none", "live", "declined", "failed", "over"}]
    BY DEF PoolInit, Registries
  <2> QED BY <2>1, <2>2, <2>3, <2>4 DEF RoundInv
<1>2. RegistryInv /\ RoundInv /\ [PoolNext]_vars => (RegistryInv /\ RoundInv)'
  BY RegistryStep, RoundStep
<1> QED BY <1>1, <1>2, PTL DEF PoolSpec

(* No observer hears of a start or an end twice, or of a start after the   *)
(* end, however often a frame passes and though the list grows meanwhile.  *)
(* Serial is what Pipecat is taken to do: one frame at a time.             *)
THEOREM HooksComeInPairs ==
  ASSUME Serial
  PROVE  PoolSpec => []HooksArePaired
<1>1. RoundInv => HooksArePaired
  <2> SUFFICES ASSUME RoundInv, NEW c \in Calls
               PROVE  /\ IsInjective(told[c])
                      /\ \A i, j \in DOMAIN told[c] :
                           told[c][i][1] = "end" /\ told[c][j] = <<"start", told[c][i][2]>> => j < i
    BY DEF HooksArePaired
  <2>1. /\ IsInjective(told[c])
        /\ \A i, j \in DOMAIN told[c] : told[c][i][1] = "end" /\ told[c][j][1] = "start" => j < i
    BY DEF RoundInv, Rounds
  <2>2. \A j \in DOMAIN told[c] : \A o : told[c][j] = <<"start", o>> => told[c][j][1] = "start"
    OBVIOUS
  <2> QED BY <2>1, <2>2
<1> QED BY <1>1, RoundsStaySound, PTL

(* The pool's own registries hold the calls that are live, no more and no  *)
(* less, on either backend and in whatever order they were wired.          *)
THEOREM RegistriesHoldTheCalls ==
  ASSUME Serial
  PROVE  PoolSpec => []RegistriesFollowCalls
<1>1. AuditInv /\ RegistryInv /\ RoundInv => PoolTypeOK
  <2> SUFFICES ASSUME AuditInv, RegistryInv, RoundInv PROVE PoolTypeOK
    OBVIOUS
  <2>1. IsInjective(agents) /\ ToSet(agents) \subseteq AgentNames /\ IsInjective(observers)
    BY DEF RegistryInv, ToSet
  <2>2. \A r \in DOMAIN rows : rows[r] \subseteq Calls
    BY DEF RoundInv
  <2>3. Cardinality(Numbered) <= Cardinality(Threads) /\ Cardinality(Threads) \in Nat
    BY AgentPoolAssumption, FS_Subset, FS_CardinalityType DEF Numbered
  <2>4. draining \in BOOLEAN /\ seq \in 0 .. Cardinality(Threads)
    BY <2>3 DEF AuditInv
  <2> QED BY <2>1, <2>2, <2>4 DEF PoolTypeOK
<1>2. RegistryInv /\ RoundInv =>
        \A c \in Calls : call[c] = "live" /\ ~Telling(c) =>
          /\ startAt[c] # 0 /\ endAt[c] = 0 =>
               /\ Inspected => c \in rows[Top]
               /\ options.reload => c \in rows[Reload]
          /\ endAt[c] # 0 => \A r \in DOMAIN rows : c \notin rows[r]
  <2> SUFFICES ASSUME RegistryInv, RoundInv, NEW c \in Calls, call[c] = "live", ~ Telling(c)
               PROVE  /\ startAt[c] # 0 /\ endAt[c] = 0 =>
                           /\ Inspected => c \in rows[Top]
                           /\ options.reload => c \in rows[Reload]
                      /\ endAt[c] # 0 => \A r \in DOMAIN rows : c \notin rows[r]
    OBVIOUS
  <2> DEFINE list == Listeners
  <2>1. Listed(list) /\ Rounds(list, startAt[c], endAt[c], told[c], HeldBy(c)) /\ DOMAIN list = 1 .. Len(list)
    BY ListenersAreListed, DoneIsBeyond DEF RoundInv
  <2>2. startAt[c] \in {0, Done} /\ endAt[c] \in {0, Done}
    BY <2>1 DEF Telling, Within, Rounds, Listed
  <2>3. Exists
    BY DEF RoundInv, Exists
  <2>4. /\ Inspected => Top \in ToSet(list)
        /\ options.reload => Reload \in ToSet(list)
    BY <2>3 DEF RegistryInv
  <2> HIDE DEF list
  <2>5. ASSUME NEW r \in Registries, r \in ToSet(list), startAt[c] # 0, endAt[c] = 0 PROVE c \in rows[r]
    <3>1. PICK k \in 1 .. Len(list) : list[k] = r
      BY <2>1, <2>5 DEF ToSet
    <3>2. k < startAt[c] /\ ~(k < endAt[c])
      BY <2>1, <2>2, <2>5 DEF Listed
    <3> QED BY <2>1, <3>1, <3>2 DEF Rounds, HeldBy
  <2>6. ASSUME NEW r \in Registries, c \in rows[r], endAt[c] # 0 PROVE FALSE
    <3>1. r \in HeldBy(c)
      BY <2>6 DEF HeldBy
    <3>2. PICK k \in 1 .. Len(list) : list[k] = r
      BY <2>1, <3>1 DEF Rounds, ToSet
    <3>3. k < endAt[c]
      BY <2>1, <2>2, <2>6 DEF Listed
    <3> QED BY <2>1, <3>1, <3>2, <3>3 DEF Rounds
  <2>7. DOMAIN rows = Registries /\ Top \in Registries /\ Reload \in Registries
    BY DEF RoundInv, Registries
  <2> QED BY <2>4, <2>5, <2>6, <2>7
<1>3. AuditInv /\ RegistryInv /\ RoundInv => RegistriesFollowCalls
  BY <1>1, <1>2 DEF RegistriesFollowCalls
<1> QED BY <1>3, AuditStaysWhole, RoundsStaySound, PTL

----------------------------------------------------------------------------
(* What a registration holds, on its way to a job process.                 *)

(* The values a provider may be, of any names and with any options.        *)
PlainValues(names) == [kind : {"plain"}, name : names]
PluginValues(names, values) ==
  UNION {{plugin \in [kind : {"plugin"},
                      class : [parameters : {parameters}, required : SUBSET parameters, attributes : SUBSET names],
                      given : [parameters -> values]] :
            \A o \in plugin.class.required : plugin.given[o] # NotGiven} : parameters \in SUBSET names}
ObjectValues == [kind : {"object"}, pickles : BOOLEAN]

(* One value: a plugin is built anew from its _opts, which gives the same  *)
(* plugin just when it keeps its arguments there.                          *)
LEMMA ValuesArrive ==
  ASSUME NEW names, NEW values,
         NEW value \in PlainValues(names) \cup PluginValues(names, values) \cup ObjectValues,
         Serialized(value) # Refused
  PROVE  Deserialized(Serialized(value)) = value <=> KeepsItsArguments(value)
<1>1. CASE value \in PlainValues(names)
  BY <1>1 DEF PlainValues, Serialized, Deserialized, KeepsItsArguments
<1>2. CASE value \in PluginValues(names, values)
  <2> DEFINE parameters == value.class.parameters
             attributes == value.class.attributes
             held == OptsOf(value)
             kept == {a \in attributes : held[a] # NotGiven}
             kwargs == [a \in kept |-> held[a]]
             rebuilt == [o \in parameters |-> IF o \in kept THEN kwargs[o] ELSE NotGiven]
             fits == value.class.required \subseteq kept /\ kept \subseteq parameters
  <2>1. /\ value = [kind |-> "plugin", class |-> value.class, given |-> value.given]
        /\ value.kind = "plugin" /\ DOMAIN value.given = parameters
        /\ value.given = [o \in parameters |-> value.given[o]]
        /\ value.class.required \subseteq parameters
        /\ \A o \in value.class.required : value.given[o] # NotGiven
    BY <1>2 DEF PluginValues
  <2>2. Deserialized(Serialized(value)) =
          IF fits THEN [kind |-> "plugin", class |-> value.class, given |-> rebuilt] ELSE [kind |-> "TypeError"]
    <3>1. Serialized(value) = [kind |-> "ref", class |-> value.class, kwargs |-> kwargs]
      BY <2>1 DEF Serialized, Restrict
    <3>2. DOMAIN kwargs = kept
      OBVIOUS
    <3> HIDE DEF kwargs, kept
    <3> QED BY <3>1, <3>2 DEF Deserialized
  <2>3. \A a \in attributes : held[a] = IF a \in parameters THEN value.given[a] ELSE "its own"
    BY DEF OptsOf
  <2> HIDE DEF held
  <2>4. \A a \in attributes : a \in kept <=> a \notin parameters \/ value.given[a] # NotGiven
    BY <2>3 DEF NotGiven
  <2>5. \A o \in parameters : o \in attributes => rebuilt[o] = value.given[o]
    BY <2>3
  <2>6. \A o \in parameters : o \notin attributes => rebuilt[o] = NotGiven
    OBVIOUS
  <2>7. kept \subseteq attributes
    OBVIOUS
  <2>8. rebuilt = [o \in parameters |-> rebuilt[o]]
    OBVIOUS
  <2>9. KeepsItsArguments(value) <=>
          /\ \A o \in parameters : value.given[o] # NotGiven => o \in attributes
          /\ attributes \subseteq parameters
    BY <2>1 DEF KeepsItsArguments
  <2> HIDE DEF rebuilt, kept
  <2>10. CASE KeepsItsArguments(value)
    <3>1. fits
      BY <2>1, <2>4, <2>7, <2>9, <2>10
    <3>2. \A o \in parameters : rebuilt[o] = value.given[o]
      BY <2>5, <2>6, <2>9, <2>10
    <3>3. rebuilt = value.given
      BY <2>1, <2>8, <3>2
    <3> QED BY <2>1, <2>2, <2>10, <3>1, <3>3
  <2>11. ASSUME Deserialized(Serialized(value)) = value PROVE KeepsItsArguments(value)
    <3>1. fits /\ rebuilt = value.given
      <4>1. CASE fits
        BY <2>2, <2>11, <4>1
      <4>2. CASE ~fits
        BY <2>1, <2>2, <2>11, <4>2
      <4> QED BY <4>1, <4>2
    <3>2. attributes \subseteq parameters
      BY <2>4, <3>1
    <3>3. \A o \in parameters : value.given[o] # NotGiven => o \in attributes
      BY <2>6, <3>1
    <3> QED BY <2>9, <3>2, <3>3
  <2> QED BY <2>10, <2>11
<1>3. CASE value \in ObjectValues
  BY <1>3 DEF ObjectValues, Serialized, Deserialized, KeepsItsArguments
<1> QED BY <1>1, <1>2, <1>3

(* A registration that is accepted comes out of the start of a job process *)
(* with the providers that went in if and only if the _opts of each plugin *)
(* among them hold the arguments it was given and nothing else, whatever   *)
(* slots for providers there are and whatever their classes take.          *)
THEOREM RegistrationsArrive ==
  ASSUME NEW slots, NEW names, NEW values, NEW arguments,
         NEW config \in [providers : [slots -> PlainValues(names) \cup PluginValues(names, values) \cup ObjectValues],
                         kwargs : arguments],
         Registers(config)
  PROVE  Shipped(config) = config <=> \A slot \in slots : KeepsItsArguments(config.providers[slot])
<1>1. \A slot \in slots : Deserialized(Serialized(config.providers[slot])) = config.providers[slot]
                           <=> KeepsItsArguments(config.providers[slot])
  BY ValuesArrive DEF Registers
<1> DEFINE arrived == [slot \in slots |-> Deserialized(Serialized(config.providers[slot]))]
<1>2. /\ config = [providers |-> config.providers, kwargs |-> config.kwargs]
      /\ DOMAIN config.providers = slots
      /\ config.providers = [slot \in slots |-> config.providers[slot]]
  OBVIOUS
<1>3. Shipped(config) = [providers |-> arrived, kwargs |-> config.kwargs]
  BY <1>2 DEF Shipped
<1>4. Shipped(config) = config <=> arrived = config.providers
  <2> HIDE DEF arrived
  <2> QED BY <1>2, <1>3
<1>5. arrived = config.providers <=> \A slot \in slots : arrived[slot] = config.providers[slot]
  BY <1>2
<1> QED BY <1>1, <1>4, <1>5

----------------------------------------------------------------------------
(* What a session is told of turns.                                        *)

(* Turn handlings over any keys, names and values.                         *)
TurnsOf(keys, names, values) ==
  SomeOptions(keys, [nested : BOOLEAN, of : SomeOptions(names, values)])

(* What a turn handling says of one name of one section.                   *)
Says(turn, k, name, value) ==
  k \in DOMAIN turn /\ name \in DOMAIN turn[k].of /\ turn[k].of[name] = value

(* The leaves of a turn handling are what it says.                         *)
LEMMA LeavesAreSaid ==
  ASSUME NEW turn
  PROVE  /\ \A k, name, value : <<k, name, value>> \in Leaves(turn) <=> Says(turn, k, name, value)
         /\ \A leaf \in Leaves(turn) : leaf = <<leaf[1], leaf[2], leaf[3]>>
BY DEF Leaves, Says

(* Whether a name of a section in the lower of two turn handlings is lost  *)
(* under the upper one.                                                    *)
Covers(upper, lower, k, name) ==
  /\ k \in DOMAIN upper
  /\ ~(upper[k].nested /\ lower[k].nested) \/ name \in DOMAIN upper[k].of

(* A merge says what the upper says, and of the lower what is not covered. *)
LEMMA MergeSays ==
  ASSUME NEW base, NEW override, NEW k, NEW name, NEW value
  PROVE  Says(MergeTurnHandling(base, override), k, name, value) <=>
           \/ Says(override, k, name, value)
           \/ Says(base, k, name, value) /\ ~Covers(override, base, k, name)
<1> DEFINE merged == MergeTurnHandling(base, override)
           both == k \in DOMAIN base \cap DOMAIN override /\ base[k].nested /\ override[k].nested
<1>1. DOMAIN merged = DOMAIN base \cup DOMAIN override
  BY DEF MergeTurnHandling
<1>2. k \in DOMAIN merged => merged[k] = IF both THEN Section(Over(override[k].of, base[k].of))
                                         ELSE Over(override, base)[k]
  BY DEF MergeTurnHandling
<1> SUFFICES Says(merged, k, name, value) <=>
               \/ Says(override, k, name, value)
               \/ Says(base, k, name, value) /\ ~Covers(override, base, k, name)
  OBVIOUS
<1> HIDE DEF merged
<1>3. CASE both
  <2>1. merged[k].of = Over(override[k].of, base[k].of)
    BY <1>1, <1>2, <1>3 DEF Section
  <2>2. /\ DOMAIN merged[k].of = DOMAIN override[k].of \cup DOMAIN base[k].of
        /\ name \in DOMAIN override[k].of => merged[k].of[name] = override[k].of[name]
        /\ name \in DOMAIN base[k].of /\ name \notin DOMAIN override[k].of => merged[k].of[name] = base[k].of[name]
    BY <2>1 DEF Over
  <2> QED BY <1>1, <1>3, <2>2 DEF Says, Covers
<1>4. CASE ~both
  <2>1. k \in DOMAIN merged => merged[k] = IF k \in DOMAIN override THEN override[k] ELSE base[k]
    BY <1>1, <1>2, <1>4 DEF Over
  <2>2. k \in DOMAIN base /\ k \in DOMAIN override => ~(base[k].nested /\ override[k].nested)
    BY <1>4
  <2> HIDE DEF both
  <2> QED BY <1>1, <2>1, <2>2 DEF Says, Covers
<1> QED BY <1>3, <1>4

(* An older option goes to its new name.                                   *)
LEMMA RenamedSays ==
  ASSUME NEW older, NEW names,
         \A a, b \in DOMAIN names : names[a] = names[b] => a = b
  PROVE  /\ DOMAIN Renamed(older, names) = {names[key] : key \in DOMAIN older \cap DOMAIN names}
         /\ \A key \in DOMAIN older \cap DOMAIN names : Renamed(older, names)[names[key]] = older[key]
<1> DEFINE keys == DOMAIN older \cap DOMAIN names
           KeyOf(name) == CHOOSE key \in keys : names[key] = name
<1>1. Renamed(older, names) = [name \in {names[key] : key \in keys} |-> older[KeyOf(name)]]
  BY DEF Renamed
<1>2. \A key \in keys : KeyOf(names[key]) = key
  OBVIOUS
<1> HIDE DEF KeyOf, keys
<1>3. \A key \in keys : Renamed(older, names)[names[key]] = older[key]
  BY <1>1, <1>2
<1> QED BY <1>1, <1>3 DEF keys

(* The sections the older options are put into.                            *)
Older(older) ==
  [endpointing |-> Renamed(older, EndpointingNames),
   agents |-> IF AgentTimeout \in DOMAIN older
              THEN Holding("false_interruption_timeout", older[AgentTimeout]) ELSE NoOptions,
   renamed |-> Renamed(older, InterruptionNames),
   forbidden |-> IF "allow_interruptions" \in DOMAIN older /\ older["allow_interruptions"] = "no"
                 THEN Holding("enabled", "no") ELSE NoOptions]
OlderInterruption(older) ==
  Over(Over(Older(older).agents, Older(older).renamed), Older(older).forbidden)

LEMMA OlderEndpointing ==
  ASSUME NEW older, NEW name, NEW value
  PROVE  name \in DOMAIN Older(older).endpointing /\ Older(older).endpointing[name] = value
           <=> \/ name = "min_delay" /\ "min_endpointing_delay" \in DOMAIN older
                    /\ older["min_endpointing_delay"] = value
               \/ name = "max_delay" /\ "max_endpointing_delay" \in DOMAIN older
                    /\ older["max_endpointing_delay"] = value
<1> DEFINE renamed == Renamed(older, EndpointingNames)
<1>1. /\ DOMAIN EndpointingNames = {"min_endpointing_delay", "max_endpointing_delay"}
      /\ EndpointingNames["min_endpointing_delay"] = "min_delay"
      /\ EndpointingNames["max_endpointing_delay"] = "max_delay"
  BY DEF EndpointingNames
<1>2. \A a, b \in DOMAIN EndpointingNames : EndpointingNames[a] = EndpointingNames[b] => a = b
  BY <1>1
<1>3. /\ DOMAIN renamed = {EndpointingNames[key] : key \in DOMAIN older \cap DOMAIN EndpointingNames}
      /\ \A key \in DOMAIN older \cap DOMAIN EndpointingNames : renamed[EndpointingNames[key]] = older[key]
  BY <1>2, RenamedSays
<1>4. Older(older).endpointing = renamed
  BY DEF Older
<1> HIDE DEF renamed
<1> QED BY <1>1, <1>3, <1>4

(* What the older options say of an interruption.                          *)
SaysOfInterruption(older, name, value) ==
  \/ name = "discard_audio_if_uninterruptible" /\ name \in DOMAIN older /\ older[name] = value
  \/ name = "min_duration" /\ "min_interruption_duration" \in DOMAIN older
       /\ older["min_interruption_duration"] = value
  \/ name = "min_words" /\ "min_interruption_words" \in DOMAIN older
       /\ older["min_interruption_words"] = value
  \/ name = "resume_false_interruption" /\ name \in DOMAIN older /\ older[name] = value
  \/ name = "false_interruption_timeout" /\ AgentTimeout \in DOMAIN older /\ older[AgentTimeout] = value
  \/ name = "false_interruption_timeout" /\ AgentTimeout \notin DOMAIN older
       /\ name \in DOMAIN older /\ older[name] = value
  \/ name = "enabled" /\ "allow_interruptions" \in DOMAIN older
       /\ older["allow_interruptions"] = "no" /\ value = "no"

LEMMA OlderInterruptionSays ==
  ASSUME NEW older, NEW name, NEW value
  PROVE  name \in DOMAIN OlderInterruption(older) /\ OlderInterruption(older)[name] = value
           <=> SaysOfInterruption(older, name, value)
<1> DEFINE renamed == Renamed(older, InterruptionNames)
           given == Older(older).agents
           forbidden == Older(older).forbidden
<1>1. /\ DOMAIN InterruptionNames =
           {"discard_audio_if_uninterruptible", "min_interruption_duration", "min_interruption_words",
            "false_interruption_timeout", "resume_false_interruption"}
      /\ InterruptionNames["discard_audio_if_uninterruptible"] = "discard_audio_if_uninterruptible"
      /\ InterruptionNames["min_interruption_duration"] = "min_duration"
      /\ InterruptionNames["min_interruption_words"] = "min_words"
      /\ InterruptionNames["false_interruption_timeout"] = "false_interruption_timeout"
      /\ InterruptionNames["resume_false_interruption"] = "resume_false_interruption"
  BY DEF InterruptionNames
<1>2. \A a, b \in DOMAIN InterruptionNames : InterruptionNames[a] = InterruptionNames[b] => a = b
  BY <1>1
<1>3. /\ DOMAIN renamed = {InterruptionNames[key] : key \in DOMAIN older \cap DOMAIN InterruptionNames}
      /\ \A key \in DOMAIN older \cap DOMAIN InterruptionNames : renamed[InterruptionNames[key]] = older[key]
  BY <1>2, RenamedSays
<1>4. /\ name \in DOMAIN renamed <=>
           \/ name = "discard_audio_if_uninterruptible" /\ name \in DOMAIN older
           \/ name = "min_duration" /\ "min_interruption_duration" \in DOMAIN older
           \/ name = "min_words" /\ "min_interruption_words" \in DOMAIN older
           \/ name = "false_interruption_timeout" /\ name \in DOMAIN older
           \/ name = "resume_false_interruption" /\ name \in DOMAIN older
  <2> HIDE DEF renamed
  <2> QED BY <1>1, <1>3
<1>5. name \in DOMAIN renamed =>
        renamed[name] = IF name = "min_duration" THEN older["min_interruption_duration"]
                        ELSE IF name = "min_words" THEN older["min_interruption_words"]
                        ELSE older[name]
  <2> HIDE DEF renamed
  <2> QED BY <1>1, <1>3, <1>4
<1>6. /\ AgentTimeout \in DOMAIN older =>
           /\ DOMAIN given = {"false_interruption_timeout"}
           /\ given["false_interruption_timeout"] = older[AgentTimeout]
      /\ AgentTimeout \notin DOMAIN older => DOMAIN given = {}
  BY DEF Older, Holding, NoOptions
<1>7. /\ "allow_interruptions" \in DOMAIN older /\ older["allow_interruptions"] = "no" =>
           DOMAIN forbidden = {"enabled"} /\ forbidden["enabled"] = "no"
      /\ ~("allow_interruptions" \in DOMAIN older /\ older["allow_interruptions"] = "no") =>
           DOMAIN forbidden = {}
  BY DEF Older, Holding, NoOptions
<1>8. OlderInterruption(older) = Over(Over(given, renamed), forbidden)
  BY DEF OlderInterruption, Older
<1> HIDE DEF renamed, given, forbidden
<1>9. /\ name \in DOMAIN OlderInterruption(older) <=>
           name \in DOMAIN given \/ name \in DOMAIN renamed \/ name \in DOMAIN forbidden
      /\ name \in DOMAIN given => OlderInterruption(older)[name] = given[name]
      /\ name \in DOMAIN renamed /\ name \notin DOMAIN given => OlderInterruption(older)[name] = renamed[name]
      /\ name \in DOMAIN forbidden /\ name \notin DOMAIN given /\ name \notin DOMAIN renamed =>
           OlderInterruption(older)[name] = forbidden[name]
  BY <1>8 DEF Over
<1>10. CASE name = "false_interruption_timeout"
  BY <1>4, <1>5, <1>6, <1>7, <1>9, <1>10 DEF SaysOfInterruption
<1>11. CASE name = "enabled"
  BY <1>4, <1>5, <1>6, <1>7, <1>9, <1>11 DEF SaysOfInterruption
<1>12. CASE name # "false_interruption_timeout" /\ name # "enabled"
  <2>1. name \notin DOMAIN given /\ name \notin DOMAIN forbidden
    BY <1>6, <1>7, <1>12
  <2> QED BY <1>4, <1>5, <1>9, <1>12, <2>1 DEF SaysOfInterruption
<1> QED BY <1>10, <1>11, <1>12

(* The older options, put into sections, say what they mean one by one.    *)
SaysOlder(older, k, name, value) ==
  \/ k = "endpointing" /\ name \in DOMAIN Older(older).endpointing /\ Older(older).endpointing[name] = value
  \/ k = "interruption" /\ name \in DOMAIN OlderInterruption(older) /\ OlderInterruption(older)[name] = value
  \/ k = "turn_detection" /\ k \in DOMAIN older /\ name = "value" /\ older[k] = value

LEMMA FromDeprecatedSays ==
  ASSUME NEW older
  PROVE  /\ \A k, name, value : Says(FromDeprecated(older), k, name, value) <=> SaysOlder(older, k, name, value)
         /\ \A k \in DOMAIN FromDeprecated(older) :
              /\ FromDeprecated(older)[k].nested \in BOOLEAN
              /\ FromDeprecated(older)[k].nested <=> k # "turn_detection"
              /\ k = "turn_detection" => "value" \in DOMAIN FromDeprecated(older)[k].of
<1> DEFINE Held(name, section) == IF DOMAIN section = {} THEN NoOptions ELSE Holding(name, Section(section))
           endpointing == Older(older).endpointing
           interruption == OlderInterruption(older)
           first == Held("endpointing", endpointing)
           second == Held("interruption", interruption)
           third == IF "turn_detection" \in DOMAIN older
                    THEN Holding("turn_detection", Plain(older["turn_detection"])) ELSE NoOptions
           turn == FromDeprecated(older)
<1>1. turn = Over(Over(first, second), third)
  BY DEF FromDeprecated, Older, OlderInterruption
<1>2. /\ DOMAIN first = IF DOMAIN endpointing = {} THEN {} ELSE {"endpointing"}
      /\ DOMAIN endpointing # {} => first["endpointing"] = Section(endpointing)
  BY DEF Holding, NoOptions
<1>3. /\ DOMAIN second = IF DOMAIN interruption = {} THEN {} ELSE {"interruption"}
      /\ DOMAIN interruption # {} => second["interruption"] = Section(interruption)
  BY DEF Holding, NoOptions
<1>4. /\ DOMAIN third = IF "turn_detection" \in DOMAIN older THEN {"turn_detection"} ELSE {}
      /\ "turn_detection" \in DOMAIN older => third["turn_detection"] = Plain(older["turn_detection"])
  BY DEF Holding, NoOptions
<1> HIDE DEF endpointing, interruption, first, second, third, turn
<1>5. DOMAIN turn = DOMAIN first \cup DOMAIN second \cup DOMAIN third
  BY <1>1 DEF Over
<1>6. \A k \in DOMAIN turn :
        turn[k] = IF k \in DOMAIN first THEN first[k] ELSE IF k \in DOMAIN second THEN second[k] ELSE third[k]
  BY <1>1 DEF Over
<1>7. /\ "endpointing" \in DOMAIN turn <=> DOMAIN endpointing # {}
      /\ "endpointing" \in DOMAIN turn => turn["endpointing"] = Section(endpointing)
  BY <1>2, <1>3, <1>4, <1>5, <1>6
<1>8. /\ "interruption" \in DOMAIN turn <=> DOMAIN interruption # {}
      /\ "interruption" \in DOMAIN turn => turn["interruption"] = Section(interruption)
  BY <1>2, <1>3, <1>4, <1>5, <1>6
<1>9. /\ "turn_detection" \in DOMAIN turn <=> "turn_detection" \in DOMAIN older
      /\ "turn_detection" \in DOMAIN turn => turn["turn_detection"] = Plain(older["turn_detection"])
  BY <1>2, <1>3, <1>4, <1>5, <1>6
<1>10. DOMAIN turn \subseteq {"endpointing", "interruption", "turn_detection"}
  BY <1>2, <1>3, <1>4, <1>5
<1>11. /\ \A section : Section(section).nested = TRUE /\ Section(section).of = section
       /\ \A v : Plain(v).nested = FALSE /\ DOMAIN Plain(v).of = {"value"} /\ Plain(v).of["value"] = v
  BY DEF Section, Plain
<1>12. ASSUME NEW k, NEW name, NEW value
      PROVE  Says(turn, k, name, value) <=> SaysOlder(older, k, name, value)
  <2>1. CASE k = "endpointing"
    BY <1>7, <1>11, <2>1 DEF Says, SaysOlder, endpointing
  <2>2. CASE k = "interruption"
    BY <1>8, <1>11, <2>2 DEF Says, SaysOlder, interruption
  <2>3. CASE k = "turn_detection"
    BY <1>9, <1>11, <2>3 DEF Says, SaysOlder
  <2>4. CASE k \notin {"endpointing", "interruption", "turn_detection"}
    BY <1>10, <2>4 DEF Says, SaysOlder
  <2> QED BY <2>1, <2>2, <2>3, <2>4
<1>13. \A k \in DOMAIN turn : turn[k].nested \in BOOLEAN /\ (turn[k].nested <=> k # "turn_detection")
  BY <1>7, <1>8, <1>9, <1>10, <1>11, ZenonT(40)
<1>14. \A k \in DOMAIN turn : k = "turn_detection" => "value" \in DOMAIN turn[k].of
  BY <1>9, <1>11
<1> QED BY <1>12, <1>13, <1>14 DEF turn

(* So it says what the older options were meant to say.                    *)
LEMMA OlderOptionsMeant ==
  ASSUME NEW older
  PROVE  /\ \A k, name, value : <<k, name, value>> \in Meant(older) <=> SaysOlder(older, k, name, value)
         /\ \A leaf \in Meant(older) : leaf = <<leaf[1], leaf[2], leaf[3]>>
<1> DEFINE Entry(key, section, name) ==
             IF key \in DOMAIN older THEN {<<section, name, older[key]>>} ELSE {}
           timeout == IF AgentTimeout \in DOMAIN older THEN AgentTimeout ELSE "false_interruption_timeout"
           forbids == {leaf \in Entry("allow_interruptions", "interruption", "enabled") : leaf[3] = "no"}
<1>1. Meant(older) =
           Entry("min_endpointing_delay", "endpointing", "min_delay")
             \cup Entry("max_endpointing_delay", "endpointing", "max_delay")
             \cup Entry("min_interruption_duration", "interruption", "min_duration")
             \cup Entry("discard_audio_if_uninterruptible", "interruption", "discard_audio_if_uninterruptible")
             \cup Entry("min_interruption_words", "interruption", "min_words")
             \cup Entry("resume_false_interruption", "interruption", "resume_false_interruption")
             \cup Entry(timeout, "interruption", "false_interruption_timeout")
             \cup forbids
             \cup Entry("turn_detection", "turn_detection", "value")
  BY DEF Meant
<1>2. ASSUME NEW key, NEW section, NEW n, NEW k, NEW name, NEW value
      PROVE  /\ <<k, name, value>> \in Entry(key, section, n)
                  <=> key \in DOMAIN older /\ k = section /\ name = n /\ value = older[key]
             /\ \A leaf \in Entry(key, section, n) : leaf = <<leaf[1], leaf[2], leaf[3]>>
  OBVIOUS
<1>3. ASSUME NEW k, NEW name, NEW value
      PROVE  <<k, name, value>> \in forbids
               <=> /\ "allow_interruptions" \in DOMAIN older /\ k = "interruption" /\ name = "enabled"
                   /\ value = older["allow_interruptions"] /\ value = "no"
  BY <1>2
<1>4. ASSUME NEW k, NEW name, NEW value
      PROVE  <<k, name, value>> \in Entry(timeout, "interruption", "false_interruption_timeout")
               <=> /\ k = "interruption" /\ name = "false_interruption_timeout"
                   /\ \/ AgentTimeout \in DOMAIN older /\ value = older[AgentTimeout]
                      \/ /\ AgentTimeout \notin DOMAIN older
                         /\ "false_interruption_timeout" \in DOMAIN older
                         /\ value = older["false_interruption_timeout"]
  BY <1>2
<1> HIDE DEF Entry, forbids, timeout
<1>5. ASSUME NEW k, NEW name, NEW value
      PROVE  <<k, name, value>> \in Meant(older) <=> SaysOlder(older, k, name, value)
  <2>1. SaysOlder(older, k, name, value) <=>
          \/ k = "endpointing" /\ name = "min_delay" /\ "min_endpointing_delay" \in DOMAIN older
               /\ older["min_endpointing_delay"] = value
          \/ k = "endpointing" /\ name = "max_delay" /\ "max_endpointing_delay" \in DOMAIN older
               /\ older["max_endpointing_delay"] = value
          \/ k = "interruption" /\ SaysOfInterruption(older, name, value)
          \/ k = "turn_detection" /\ k \in DOMAIN older /\ name = "value" /\ older[k] = value
    BY OlderEndpointing, OlderInterruptionSays DEF SaysOlder
  <2>2. <<k, name, value>> \in Meant(older) <=>
          \/ <<k, name, value>> \in Entry("min_endpointing_delay", "endpointing", "min_delay")
          \/ <<k, name, value>> \in Entry("max_endpointing_delay", "endpointing", "max_delay")
          \/ <<k, name, value>> \in Entry("min_interruption_duration", "interruption", "min_duration")
          \/ <<k, name, value>> \in Entry("discard_audio_if_uninterruptible", "interruption", "discard_audio_if_uninterruptible")
          \/ <<k, name, value>> \in Entry("min_interruption_words", "interruption", "min_words")
          \/ <<k, name, value>> \in Entry("resume_false_interruption", "interruption", "resume_false_interruption")
          \/ <<k, name, value>> \in Entry(timeout, "interruption", "false_interruption_timeout")
          \/ <<k, name, value>> \in forbids
          \/ <<k, name, value>> \in Entry("turn_detection", "turn_detection", "value")
    BY <1>1
  <2>3. CASE k = "endpointing"
    BY <1>2, <1>3, <1>4, <2>1, <2>2, <2>3
  <2>4. CASE k = "turn_detection"
    BY <1>2, <1>3, <1>4, <2>1, <2>2, <2>4
  <2>5. CASE k = "interruption"
    BY <1>2, <1>3, <1>4, <2>1, <2>2, <2>5 DEF SaysOfInterruption
  <2>6. CASE k \notin {"endpointing", "interruption", "turn_detection"}
    BY <1>2, <1>3, <1>4, <2>1, <2>2, <2>6
  <2> QED BY <2>3, <2>4, <2>5, <2>6
<1>6. \A leaf \in forbids : leaf = <<leaf[1], leaf[2], leaf[3]>>
  BY <1>2 DEF forbids
<1>7. \A leaf \in Meant(older) : leaf = <<leaf[1], leaf[2], leaf[3]>>
  BY <1>1, <1>2, <1>6
<1> QED BY <1>5, <1>7

(* What the defaults say, and what of it a turn handling leaves standing.  *)
DefaultSays(job) ==
  {leaf \in {<<"interruption", "mode", "vad">>, <<"turn_detection", "value", DefaultTurnDetection(job)>>} :
     leaf[3] # "none"}
Replaces(turn, k, name) ==
  k \in DOMAIN turn /\ (k = "turn_detection" \/ ~turn[k].nested \/ name \in DOMAIN turn[k].of)

LEMMA OverDefaultsSays ==
  ASSUME NEW turn, NEW job
  PROVE  Leaves(MergeTurnHandling(DefaultTurnHandling(job), turn)) =
           Leaves(turn) \cup {leaf \in DefaultSays(job) : ~Replaces(turn, leaf[1], leaf[2])}
<1> DEFINE base == DefaultTurnHandling(job)
           detector == DefaultTurnDetection(job)
           kept == {leaf \in DefaultSays(job) : ~Replaces(turn, leaf[1], leaf[2])}
           merged == MergeTurnHandling(base, turn)
<1>0. /\ DOMAIN base = {"interruption"} \cup (IF detector = "none" THEN {} ELSE {"turn_detection"})
      /\ base["interruption"] = Section(Holding("mode", "vad"))
      /\ detector # "none" => base["turn_detection"] = Plain(detector)
  BY DEF DefaultTurnHandling, Over, Holding, NoOptions
<1> HIDE DEF base, detector
<1>1. /\ base["interruption"].nested = TRUE /\ DOMAIN base["interruption"].of = {"mode"}
      /\ base["interruption"].of["mode"] = "vad"
      /\ detector # "none" =>
           /\ base["turn_detection"].nested = FALSE /\ DOMAIN base["turn_detection"].of = {"value"}
           /\ base["turn_detection"].of["value"] = detector
  BY <1>0 DEF Section, Plain, Holding
<1>2. ASSUME NEW k, NEW name, NEW value
      PROVE  Says(base, k, name, value) <=>
               \/ k = "interruption" /\ name = "mode" /\ value = "vad"
               \/ k = "turn_detection" /\ name = "value" /\ value = detector /\ detector # "none"
  BY <1>0, <1>1 DEF Says
<1>3. ASSUME NEW k \in DOMAIN base, NEW name
      PROVE  Covers(turn, base, k, name) <=> Replaces(turn, k, name)
  <2>1. CASE k = "interruption"
    BY <1>1, <2>1 DEF Covers, Replaces
  <2>2. CASE k = "turn_detection"
    BY <1>0, <1>1, <2>2 DEF Covers, Replaces
  <2> QED BY <1>0, <2>1, <2>2
<1>4. ASSUME NEW k, NEW name, NEW value
      PROVE  <<k, name, value>> \in kept <=>
               \/ k = "interruption" /\ name = "mode" /\ value = "vad" /\ ~Replaces(turn, k, name)
               \/ k = "turn_detection" /\ name = "value" /\ value = detector /\ detector # "none"
                    /\ ~Replaces(turn, k, name)
  BY DEF DefaultSays, detector
<1>5. ASSUME NEW k, NEW name, NEW value
      PROVE  Says(merged, k, name, value) <=> Says(turn, k, name, value) \/ <<k, name, value>> \in kept
  <2>1. Says(merged, k, name, value) <=>
          Says(turn, k, name, value) \/ (Says(base, k, name, value) /\ ~Covers(turn, base, k, name))
    BY MergeSays
  <2> HIDE DEF kept, merged
  <2> QED BY <1>0, <1>2, <1>3, <1>4, <2>1
<1>6. \A leaf \in kept : leaf = <<leaf[1], leaf[2], leaf[3]>>
  BY DEF DefaultSays
<1> HIDE DEF kept, merged
<1>7. \A leaf \in Leaves(merged) : leaf \in Leaves(turn) \cup kept
  BY <1>5, LeavesAreSaid
<1>8. \A leaf \in Leaves(turn) \cup kept : leaf \in Leaves(merged)
  <2> TAKE leaf \in Leaves(turn) \cup kept
  <2>1. leaf = <<leaf[1], leaf[2], leaf[3]>>
    BY <1>6, LeavesAreSaid
  <2>2. <<leaf[1], leaf[2], leaf[3]>> \in kept \/ Says(turn, leaf[1], leaf[2], leaf[3])
    BY <2>1, LeavesAreSaid
  <2>3. Says(merged, leaf[1], leaf[2], leaf[3])
    BY <1>5, <2>2
  <2> QED BY <2>1, <2>3, LeavesAreSaid
<1> QED BY <1>7, <1>8 DEF kept, merged, base, detector

(* TurnOptionsSurvive, for every mapping of sections and every older       *)
(* option, whatever their names and values.                                *)
TurnInputs(keys, names, values, executors, makers) ==
  [kind : {"turn"},
   given : {[kind |-> "none"], [kind |-> "opaque"]}
             \cup [kind : {"mapping"}, sections : TurnsOf(keys, names, values)],
   deprecated : SomeOptions(DeprecatedKeys, values),
   job : [executor : executors, remote : BOOLEAN, makes : makers]]

LEMMA TurnOptionsStay ==
  ASSUME NEW keys, NEW names, NEW values, NEW executors, NEW makers,
         input \in TurnInputs(keys, names, values, executors, makers)
  PROVE  TurnOptionsSurvive
<1> DEFINE explicit == input.given.kind = "mapping"
           turn == IF explicit THEN input.given.sections ELSE FromDeprecated(input.deprecated)
           said == IF explicit THEN Leaves(input.given.sections) ELSE Meant(input.deprecated)
           defaults == DefaultSays(input.job)
           detector == IF input.job.executor = "usable" \/ input.job.remote THEN input.job.makes ELSE "vad"
           Replaced(k, name) ==
             \/ \E leaf \in said : leaf[1] = k /\ leaf[2] = name
             \/ explicit /\ k \in DOMAIN input.given.sections /\ ~input.given.sections[k].nested
             \/ explicit /\ k \in DOMAIN input.given.sections /\ k = "turn_detection"
<1> SUFFICES ASSUME input.given.kind # "opaque"
             PROVE  Leaves(TurnHandling(input.given, input.deprecated, input.job)) =
                      said \cup {leaf \in {<<"interruption", "mode", "vad">>, <<"turn_detection", "value", detector>>} :
                                   leaf[3] # "none" /\ ~Replaced(leaf[1], leaf[2])}
  BY DEF TurnOptionsSurvive
<1>1. TurnHandling(input.given, input.deprecated, input.job) =
        MergeTurnHandling(DefaultTurnHandling(input.job), turn)
  <2>1. input.given.kind \in {"none", "mapping"}
    BY DEF TurnInputs
  <2> QED BY <2>1 DEF TurnHandling
<1>2. defaults = {leaf \in {<<"interruption", "mode", "vad">>, <<"turn_detection", "value", detector>>} :
                    leaf[3] # "none"}
  BY DEF DefaultSays, DefaultTurnDetection
<1>3. Leaves(turn) = said
  <2>1. CASE explicit
    BY <2>1
  <2>2. CASE ~explicit
    <3>1. \A leaf \in Meant(input.deprecated) : leaf = <<leaf[1], leaf[2], leaf[3]>>
      BY OlderOptionsMeant
    <3>2. \A k, name, value :
            <<k, name, value>> \in Meant(input.deprecated) <=> Says(FromDeprecated(input.deprecated), k, name, value)
      BY OlderOptionsMeant, FromDeprecatedSays
    <3>3. \A k, name, value :
            <<k, name, value>> \in Leaves(turn) <=> Says(FromDeprecated(input.deprecated), k, name, value)
      BY <2>2, LeavesAreSaid
    <3>4. \A leaf \in Leaves(turn) : leaf = <<leaf[1], leaf[2], leaf[3]>>
      BY LeavesAreSaid
    <3>5. said = Meant(input.deprecated)
      BY <2>2
    <3> HIDE DEF turn, said
    <3>6. \A leaf \in Leaves(turn) : leaf \in said
      BY <3>2, <3>3, <3>4, <3>5
    <3>7. \A leaf \in said : leaf \in Leaves(turn)
      BY <3>1, <3>2, <3>3, <3>5
    <3> QED BY <3>6, <3>7
  <2> QED BY <2>1, <2>2
<1>4. ASSUME NEW k, NEW name
      PROVE  (\E leaf \in said : leaf[1] = k /\ leaf[2] = name) <=> k \in DOMAIN turn /\ name \in DOMAIN turn[k].of
  <2> HIDE DEF turn, said
  <2>1. ASSUME NEW leaf \in said, leaf[1] = k, leaf[2] = name
        PROVE  k \in DOMAIN turn /\ name \in DOMAIN turn[k].of
    BY <1>3, <2>1, LeavesAreSaid DEF Says
  <2>2. ASSUME k \in DOMAIN turn, name \in DOMAIN turn[k].of
        PROVE  <<k, name, turn[k].of[name]>> \in said
    BY <1>3, <2>2, LeavesAreSaid DEF Says
  <2> QED BY <2>1, <2>2
<1>5. ~explicit => \A k \in DOMAIN turn : turn[k].nested <=> k # "turn_detection"
  BY FromDeprecatedSays
<1>6. ~explicit /\ "turn_detection" \in DOMAIN turn => "value" \in DOMAIN turn["turn_detection"].of
  BY FromDeprecatedSays
<1>7. \A leaf \in defaults : Replaced(leaf[1], leaf[2]) <=> Replaces(turn, leaf[1], leaf[2])
  <2> SUFFICES ASSUME NEW k, NEW name, k = "interruption" \/ (k = "turn_detection" /\ name = "value")
               PROVE  Replaced(k, name) <=> Replaces(turn, k, name)
    BY <1>2
  <2>1. Replaced(k, name) <=>
          \/ k \in DOMAIN turn /\ name \in DOMAIN turn[k].of
          \/ explicit /\ k \in DOMAIN turn /\ (~turn[k].nested \/ k = "turn_detection")
    <3>1. CASE explicit
      <4> DEFINE sections == input.given.sections
      <4>1. turn = sections
        BY <3>1
      <4>2. (\E leaf \in said : leaf[1] = k /\ leaf[2] = name) <=> k \in DOMAIN sections /\ name \in DOMAIN sections[k].of
        <5> HIDE DEF turn, said, explicit, sections
        <5> QED BY <1>4, <4>1
      <4>3. Replaced(k, name) <=>
              \/ \E leaf \in said : leaf[1] = k /\ leaf[2] = name
              \/ k \in DOMAIN sections /\ (~sections[k].nested \/ k = "turn_detection")
        <5> HIDE DEF turn, said, explicit, sections
        <5> QED BY <3>1 DEF sections
      <4> HIDE DEF turn, said, explicit, sections, Replaced
      <4> QED BY <3>1, <4>1, <4>2, <4>3
    <3>2. CASE ~explicit
      <4> HIDE DEF turn, said, explicit
      <4> QED BY <1>4, <3>2
    <3> QED BY <3>1, <3>2
  <2> HIDE DEF turn, said, explicit
  <2> QED BY <1>5, <1>6, <2>1 DEF Replaces
<1>8. Leaves(MergeTurnHandling(DefaultTurnHandling(input.job), turn)) =
        Leaves(turn) \cup {leaf \in defaults : ~Replaces(turn, leaf[1], leaf[2])}
  BY OverDefaultsSays
<1> HIDE DEF turn, said, Replaced, detector, defaults
<1> QED BY <1>1, <1>2, <1>3, <1>7, <1>8

----------------------------------------------------------------------------
(* What a session gets of its tenant.                                      *)

(* Every session finds its tenant's first answer in the cache.             *)
LEMMA CacheKeepsFirst ==
  ASSUME NEW tenants, NEW answers, input.sessions \in Seq([tenant : tenants, answer : answers]),
         NEW i \in DOMAIN input.sessions
  PROVE  LET mine == {j \in 1 .. i : input.sessions[j].tenant = input.sessions[i].tenant}
         IN  CacheAfter(i)[input.sessions[i].tenant]
               = input.sessions[CHOOSE j \in mine : \A k \in mine : j <= k].answer
<1> DEFINE sessions == input.sessions
           N == Len(sessions)
           V == SomeOptions(tenants, answers)
           Step(n, cache) == Looked(cache, sessions[n].tenant, sessions[n].answer)
           step == [n \in 1 .. N |-> [c \in V |-> Step(n, c)]]
           IsCache(g) == g = [n \in 0 .. N |-> IF n = 0 THEN NoOptions ELSE Step(n, g[n - 1])]
           cache == CHOOSE g : IsCache(g)
<1>0. N \in Nat /\ DOMAIN sessions = 1 .. N /\ \A n \in 1 .. N : sessions[n] \in [tenant : tenants, answer : answers]
  <2> DEFINE session == [tenant : tenants, answer : answers]
  <2>1. sessions \in Seq(session)
    OBVIOUS
  <2> HIDE DEF sessions, session
  <2>2. N \in Nat /\ DOMAIN sessions = 1 .. N /\ \A n \in 1 .. N : sessions[n] \in session
    BY <2>1
  <2> QED BY <2>2 DEF session
<1>1. ASSUME NEW c \in V, NEW n \in 1 .. N
      PROVE  Step(n, c) \in V
  <2>1. PICK some \in SUBSET tenants : c \in [some -> answers]
    BY DEF SomeOptions
  <2>2. sessions[n].tenant \in tenants /\ sessions[n].answer \in answers
    BY <1>0
  <2> HIDE DEF sessions
  <2>3. Step(n, c) \in [some \cup {sessions[n].tenant} -> answers]
    BY <2>1, <2>2 DEF Looked, Over, Holding
  <2> HIDE DEF Step
  <2> QED BY <2>2, <2>3 DEF SomeOptions
<1>2. NoOptions \in V
  <2>1. NoOptions \in [{} -> answers]
    BY DEF NoOptions
  <2> QED BY <2>1 DEF SomeOptions
<1>3. \E g : IsCache(g)
  <2>1. step \in [1 .. N -> [V -> V]]
    <3> HIDE DEF Step, V, sessions, N
    <3> QED BY <1>1
  <2>2. \A n \in 1 .. N, c \in V : step[n][c] = Step(n, c)
    <3> HIDE DEF Step, V, sessions, N
    <3> QED OBVIOUS
  <2> HIDE DEF V, N, step, Step
  <2>3. PICK g : Recursion(g, N, V, NoOptions, step)
    BY <1>0, <1>2, <2>1, RecursionUpTo
  <2>4. \A n \in 0 .. N : g[n] = IF n = 0 THEN NoOptions ELSE Step(n, g[n - 1])
    BY <1>0, <2>2, <2>3 DEF Recursion
  <2>5. IsCache(g)
    BY <2>3, <2>4 DEF Recursion
  <2> QED BY <2>5
<1>4. IsCache(cache)
  <2> HIDE DEF IsCache
  <2> QED BY <1>3
<1>5. \A n \in DOMAIN sessions : CacheAfter(n) = cache[n]
  BY DEF CacheAfter
<1> HIDE DEF cache, V, step
<1>6. cache[0] = NoOptions /\ \A n \in 1 .. N : cache[n] = Step(n, cache[n - 1])
  <2> HIDE DEF Step, sessions
  <2> QED BY <1>0, <1>4
<1> DEFINE Kept(n) ==
             \A tenant : (\E j \in 1 .. n : sessions[j].tenant = tenant) =>
               /\ tenant \in DOMAIN cache[n]
               /\ \E j \in 1 .. n : /\ sessions[j].tenant = tenant /\ cache[n][tenant] = sessions[j].answer
                                    /\ \A k \in 1 .. n : sessions[k].tenant = tenant => j <= k
           Only(n) == \A tenant \in DOMAIN cache[n] : \E j \in 1 .. n : sessions[j].tenant = tenant
           S == {n \in Nat : n <= N => Kept(n) /\ Only(n)}
<1>7. 0 \in S
  BY <1>6 DEF NoOptions
<1>8. ASSUME NEW n \in Nat, n \in S PROVE n + 1 \in S
  <2> SUFFICES ASSUME n + 1 <= N PROVE Kept(n + 1) /\ Only(n + 1)
    OBVIOUS
  <2> DEFINE now == sessions[n + 1].tenant
  <2>0. Kept(n) /\ Only(n)
    BY <1>0, <1>8
  <2> HIDE DEF sessions
  <2>1. cache[n + 1] = IF now \in DOMAIN cache[n] THEN cache[n]
                       ELSE Over(Holding(now, sessions[n + 1].answer), cache[n])
    <3>1. n + 1 \in 1 .. N /\ (n + 1) - 1 = n
      BY <1>0
    <3>2. cache[n + 1] = Step(n + 1, cache[n])
      <4> HIDE DEF Step, N
      <4> QED BY <1>6, <3>1
    <3> QED BY <3>2 DEF Looked
  <2>2. /\ DOMAIN cache[n + 1] = DOMAIN cache[n] \cup {now}
        /\ \A tenant \in DOMAIN cache[n] : cache[n + 1][tenant] = cache[n][tenant]
        /\ now \notin DOMAIN cache[n] => cache[n + 1][now] = sessions[n + 1].answer
    BY <2>1 DEF Over, Holding
  <2>3. Only(n + 1)
    <3> TAKE tenant \in DOMAIN cache[n + 1]
    <3>1. CASE tenant = now
      BY <3>1
    <3>2. CASE tenant # now
      BY <2>0, <2>2, <3>2
    <3> QED BY <3>1, <3>2
  <2>4. Kept(n + 1)
    <3> SUFFICES ASSUME NEW tenant, \E j \in 1 .. n + 1 : sessions[j].tenant = tenant
                 PROVE  /\ tenant \in DOMAIN cache[n + 1]
                        /\ \E j \in 1 .. n + 1 :
                             /\ sessions[j].tenant = tenant /\ cache[n + 1][tenant] = sessions[j].answer
                             /\ \A k \in 1 .. n + 1 : sessions[k].tenant = tenant => j <= k
      OBVIOUS
    <3>1. CASE \E j \in 1 .. n : sessions[j].tenant = tenant
      <4>1. tenant \in DOMAIN cache[n]
        BY <2>0, <3>1
      <4>2. PICK j \in 1 .. n : /\ sessions[j].tenant = tenant /\ cache[n][tenant] = sessions[j].answer
                                /\ \A k \in 1 .. n : sessions[k].tenant = tenant => j <= k
        BY <2>0, <3>1
      <4>3. \A k \in 1 .. n + 1 : sessions[k].tenant = tenant => j <= k
        BY <4>2
      <4> QED BY <2>2, <4>1, <4>2, <4>3
    <3>2. CASE ~\E j \in 1 .. n : sessions[j].tenant = tenant
      <4>1. tenant = now /\ \A k \in 1 .. n + 1 : sessions[k].tenant = tenant => n + 1 <= k
        BY <3>2
      <4>2. now \notin DOMAIN cache[n]
        BY <2>0, <3>2, <4>1
      <4> QED BY <2>2, <4>1, <4>2
    <3> QED BY <3>1, <3>2
  <2> QED BY <2>3, <2>4
<1> HIDE DEF S
<1>9. i \in S
  BY <1>0, <1>7, <1>8, InductionOnNat
<1> DEFINE mine == {j \in 1 .. i : sessions[j].tenant = sessions[i].tenant}
           first == CHOOSE j \in mine : \A k \in mine : j <= k
<1>10. PICK j \in mine : cache[i][sessions[i].tenant] = sessions[j].answer /\ \A k \in mine : j <= k
  <2>1. i \in 1 .. N /\ i <= N
    BY <1>0
  <2>2. Kept(i)
    <3> HIDE DEF Kept, N
    <3> QED BY <1>9, <2>1 DEF S
  <2> HIDE DEF sessions, N
  <2>3. \E j \in 1 .. i : sessions[j].tenant = sessions[i].tenant
    BY <1>0, <2>1
  <2> QED BY <2>2, <2>3
<1>11. first = j
  <2>1. mine \subseteq Nat
    BY <1>0
  <2>2. first \in mine /\ \A k \in mine : first <= k
    <3> HIDE DEF mine
    <3> QED BY <1>10
  <2> HIDE DEF mine, first
  <2> QED BY <1>10, <2>1, <2>2
<1>12. CacheAfter(i)[sessions[i].tenant] = sessions[first].answer
  BY <1>0, <1>5, <1>10, <1>11
<1> QED BY <1>12

----------------------------------------------------------------------------
(* The options of a session, whatever it is set up with.                   *)

RegistrationInputs(names, values, arguments) ==
  LET provider == PlainValues(names) \cup PluginValues(names, values) \cup ObjectValues
  IN  [kind : {"registration"}, own : {Nothing} \cup provider, default : provider,
       kwargs : arguments, direct : arguments]
TenancyInputs(tenants, answers) ==
  [kind : {"tenancy"}, sessions : Seq([tenant : tenants, answer : answers])]

(* SessionOptionsSurvive, of turn handlings of any sections, names and     *)
(* values, of registrations of any providers, and of any number of         *)
(* sessions of any tenants whose configs hold any options.                 *)
THEOREM SessionsGetTheirOptions ==
  ASSUME NEW keys, NEW names, NEW values, NEW executors, NEW makers, NEW arguments, NEW tenants, NEW answers,
         \/ input \in TurnInputs(keys, names, values, executors, makers)
         \/ input \in RegistrationInputs(names, values, arguments)
         \/ input \in TenancyInputs(tenants, answers)
  PROVE  SessionOptionsSurvive
<1>1. CASE input \in TurnInputs(keys, names, values, executors, makers)
  <2>1. input.kind = "turn"
    BY <1>1 DEF TurnInputs
  <2>2. TurnOptionsSurvive
    BY <1>1, TurnOptionsStay
  <2> QED BY <2>1, <2>2 DEF SessionOptionsSurvive
<1>2. CASE input \in RegistrationInputs(names, values, arguments)
  <2> DEFINE config == ConfigOf(input)
             provider == PlainValues(names) \cup PluginValues(names, values) \cup ObjectValues
             kwargs == SessionKwargs(input.kwargs, input.direct)
  <2>1. input.kind = "registration" /\ input.own \in {Nothing} \cup provider /\ input.default \in provider
    BY <1>2 DEF RegistrationInputs
  <2>2. config = [providers |-> [llm |-> Resolved(input.own, input.default)], kwargs |-> kwargs]
    BY DEF ConfigOf
  <2>3. Resolved(input.own, input.default) \in provider
    BY <2>1 DEF Resolved
  <2>4. config \in [providers : [{"llm"} -> provider], kwargs : {kwargs}]
    <3> HIDE DEF provider, kwargs
    <3> QED BY <2>2, <2>3
  <2> HIDE DEF config
  <2>5. Registers(config) =>
          (Shipped(config) = config <=> \A slot \in {"llm"} : KeepsItsArguments(config.providers[slot]))
    BY <2>4, RegistrationsArrive
  <2>6. DOMAIN config.providers = {"llm"}
    BY <2>4
  <2> QED BY <2>1, <2>5, <2>6 DEF SessionOptionsSurvive, config
<1>3. CASE input \in TenancyInputs(tenants, answers)
  <2>1. input.kind = "tenancy" /\ input.sessions \in Seq([tenant : tenants, answer : answers])
    BY <1>3 DEF TenancyInputs
  <2>2. ASSUME NEW i \in DOMAIN input.sessions, NEW kind \in {"llm", "stt"}
        PROVE  LET mine == {j \in 1 .. i : input.sessions[j].tenant = input.sessions[i].tenant}
                   found == input.sessions[CHOOSE j \in mine : \A k \in mine : j <= k].answer
               IN  Provider(kind, CacheAfter(i)[input.sessions[i].tenant], "agent's")
                     = (IF kind \in DOMAIN found THEN found[kind] ELSE "agent's")
    BY <2>1, CacheKeepsFirst DEF Provider
  <2> QED BY <2>1, <2>2 DEF SessionOptionsSurvive
<1> QED BY <1>1, <1>2, <1>3

(* Larger sets of names and values have more options.                      *)
LEMMA MoreOptions ==
  ASSUME NEW names, NEW values, NEW more, NEW others, names \subseteq more, values \subseteq others
  PROVE  SomeOptions(names, values) \subseteq SomeOptions(more, others)
<1> SUFFICES ASSUME NEW o \in SomeOptions(names, values) PROVE o \in SomeOptions(more, others)
  OBVIOUS
<1>1. PICK some \in SUBSET names : o \in [some -> values]
  BY DEF SomeOptions
<1>2. some \in SUBSET more /\ o \in [some -> others]
  BY <1>1
<1> QED BY <1>2 DEF SomeOptions

(* What the model enumerates is of these kinds.                            *)
InputsAreTyped ==
  \/ input.kind \notin {"turn", "registration", "tenancy"}
  \/ input \in TurnInputs({"interruption", "endpointing", "turn_detection"}, {"mode", "min_words", "value"},
                          {"x", "yes", "no"}, {"none", "stub", "usable"}, {"detector", "none"})
  \/ input \in RegistrationInputs({"p", "q", "model", "client", "capabilities"}, {"given", "live object", NotGiven},
                                  SomeOptions({"memory"}, Objects \cup Plains))
  \/ input \in TenancyInputs({"acme", "globex"}, SomeOptions({"llm", "stt"}, {"x", "y"}))

LEMMA InputsAreTypedInit == InputsInit => InputsAreTyped
<1>1. ASSUME TurnInit PROVE InputsAreTyped
  <2> DEFINE keys == {"interruption", "endpointing", "turn_detection"}
             names == {"mode", "min_words", "value"}
             values == {"x", "yes", "no"}
             section == [nested : BOOLEAN, of : SomeOptions(names, values)]
             mode == {Section(of) : of \in SomeOptions({"mode", "min_words"}, {"x"})}
  <2>1. mode \subseteq section
    <3>1. SomeOptions({"mode", "min_words"}, {"x"}) \subseteq SomeOptions(names, values)
      BY MoreOptions
    <3>2. \A of \in SomeOptions(names, values) : Section(of) \in section
      BY DEF Section
    <3> HIDE DEF names, values, section
    <3> QED BY <3>1, <3>2
  <2>2. Plain("x") \in section
    <3>1. [value |-> "x"] \in [{"value"} -> values] /\ {"value"} \in SUBSET names
      OBVIOUS
    <3>2. [value |-> "x"] \in SomeOptions(names, values)
      BY <3>1 DEF SomeOptions
    <3> QED BY <3>2 DEF Plain
  <2>3. Mappings \subseteq TurnsOf(keys, names, values)
    <3>1. Mappings = SomeOptions(keys, mode \cup {Plain("x")})
      BY DEF Mappings
    <3> HIDE DEF mode, keys, section
    <3>2. SomeOptions(keys, mode \cup {Plain("x")}) \subseteq SomeOptions(keys, section)
      BY <2>1, <2>2, MoreOptions
    <3> QED BY <3>1, <3>2 DEF TurnsOf, section
  <2>4. OlderOptions \subseteq SomeOptions(DeprecatedKeys, values)
    BY MoreOptions DEF OlderOptions
  <2> HIDE DEF keys, names, values
  <2>5. PICK given \in GivenTurnHandling, deprecated \in OlderOptions,
             job \in [executor : {"none", "stub", "usable"}, remote : BOOLEAN, makes : {"detector", "none"}] :
          input = [kind |-> "turn", given |-> given, deprecated |-> deprecated, job |-> job]
    BY <1>1 DEF TurnInit
  <2>6. given \in {[kind |-> "none"], [kind |-> "opaque"]}
                    \cup [kind : {"mapping"}, sections : TurnsOf(keys, names, values)]
    BY <2>3 DEF GivenTurnHandling
  <2>7. input \in TurnInputs(keys, names, values, {"none", "stub", "usable"}, {"detector", "none"})
    BY <2>4, <2>5, <2>6 DEF TurnInputs
  <2> QED BY <2>7 DEF InputsAreTyped, keys, names, values
<1>2. ASSUME RegistrationInit PROVE InputsAreTyped
  <2> DEFINE names == {"p", "q", "model", "client", "capabilities"}
             values == {"given", "live object", NotGiven}
             arguments == SomeOptions({"memory"}, Objects \cup Plains)
             provider == PlainValues(names) \cup PluginValues(names, values) \cup ObjectValues
  <2>1. Plains \subseteq PlainValues(names) /\ Objects \subseteq ObjectValues
    BY DEF Plains, PlainValues, Objects, ObjectValues
  <2>2. Plugins \subseteq PluginValues(names, values)
    <3> DEFINE parameters == {"model", "client"}
               class == [parameters : {parameters}, required : SUBSET parameters, attributes : SUBSET names]
    <3>1. parameters \in SUBSET names
      OBVIOUS
    <3>2. Classes \subseteq class
      BY DEF Classes
    <3>3. ASSUME NEW plugin \in Plugins
          PROVE  /\ plugin \in [kind : {"plugin"}, class : class, given : [parameters -> values]]
                 /\ \A o \in plugin.class.required : plugin.given[o] # NotGiven
      BY <3>2 DEF Plugins
    <3> HIDE DEF names, values, parameters
    <3> QED BY <3>1, <3>3 DEF PluginValues
  <2>3. Values \subseteq provider
    BY <2>1, <2>2 DEF Values
  <2>4. PICK own \in {Nothing} \cup Values, default \in Plains \cup Objects, kwargs \in arguments, direct \in arguments :
          input = [kind |-> "registration", own |-> own, default |-> default, kwargs |-> kwargs, direct |-> direct]
    BY <1>2 DEF RegistrationInit
  <2>5. input \in RegistrationInputs(names, values, arguments)
    <3> HIDE DEF provider, arguments, names, values
    <3>1. own \in {Nothing} \cup provider /\ default \in provider
      BY <2>3 DEF Values
    <3> QED BY <2>4, <3>1 DEF RegistrationInputs, provider
  <2> QED BY <2>5 DEF InputsAreTyped
<1>3. ASSUME TenancyInit PROVE InputsAreTyped
  <2> DEFINE session == [tenant : {"acme", "globex"}, answer : SomeOptions({"llm", "stt"}, {"x", "y"})]
  <2>1. PICK sessions \in SeqOf(session, 3) : input = [kind |-> "tenancy", sessions |-> sessions]
    BY <1>3 DEF TenancyInit
  <2> HIDE DEF session
  <2>2. PICK m \in 0 .. 3 : sessions \in [1 .. m -> session]
    BY DEF SeqOf
  <2>3. sessions \in Seq(session)
    BY <2>2, IsASeq
  <2> QED BY <2>1, <2>3 DEF InputsAreTyped, TenancyInputs, session
<1>4. ASSUME JobInit \/ LineInit \/ OptionsInit \/ PageInit PROVE InputsAreTyped
  <2>1. JobInit => input.kind = "job"
    BY DEF JobInit
  <2>2. LineInit => input.kind = "line"
    BY DEF LineInit
  <2>3. OptionsInit => input.kind = "options"
    BY DEF OptionsInit
  <2>4. PageInit => input.kind = "page"
    BY DEF PageInit
  <2>5. input.kind \notin {"turn", "registration", "tenancy"}
    BY <1>4, <2>1, <2>2, <2>3, <2>4
  <2> QED BY <2>5 DEF InputsAreTyped
<1> QED BY <1>1, <1>2, <1>3, <1>4 DEF InputsInit

(* So what the model's sessions are set up with is what they get.          *)
THEOREM EveryInputSurvives == InputsSpec => []SessionOptionsSurvive
<1>1. InputsAreTyped /\ [InputsNext]_input => InputsAreTyped'
  BY DEF InputsAreTyped, InputsNext
<1>2. InputsAreTyped => SessionOptionsSurvive
  <2>1. input.kind \notin {"turn", "registration", "tenancy"} => SessionOptionsSurvive
    BY DEF SessionOptionsSurvive
  <2> QED BY <2>1, SessionsGetTheirOptions DEF InputsAreTyped
<1> QED BY <1>1, <1>2, InputsAreTypedInit, PTL DEF InputsSpec
=============================================================================
