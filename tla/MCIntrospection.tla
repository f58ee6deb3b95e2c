-------------------------- MODULE MCIntrospection --------------------------
(***************************************************************************)
(* The two halves of the introspection stack share no state, so one run    *)
(* explores the one or the other, the idle half as it was initially.       *)
(***************************************************************************)
EXTENDS SessionSampling, IntrospectionStack

VARIABLE scene

Units == {NoReading, 2, 4}

MCInit == scene \in {"sampling", "stack"} /\ SamplingInit /\ StackInit

Sampling == scene = "sampling" /\ SamplingNext /\ UNCHANGED <<vars, scene>>
Stack == scene = "stack" /\ StackNext /\ UNCHANGED <<samplingVars, scene>>

MCSpec == MCInit /\ [][Sampling \/ Stack]_<<samplingVars, vars, scene>>
=============================================================================
