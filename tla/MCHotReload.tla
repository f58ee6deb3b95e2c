---------------------------- MODULE MCHotReload ----------------------------
EXTENDS HotReload

\* Two agents of two files, and two sessions that both start with the first.
OwnFile == [a \in {"a", "b"} |-> a]
BothOfA == [s \in {"s", "t"} |-> "a"]
=============================================================================
