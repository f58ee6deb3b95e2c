---------------------------- MODULE MCAgentPool ----------------------------
EXTENDS AgentPool

Module(stem, found) == [stem |-> stem, found |-> found, skipped |-> FALSE, imports |-> TRUE]
Own(name, mark) == [local |-> TRUE, mark |-> mark, name |-> name]
Imported(name, mark) == [local |-> FALSE, mark |-> mark, name |-> name]

\* The first walk stops at a module that does not import; the second meets names that may be taken.
Files ==
  {<<[Module("sales", <<>>) EXCEPT !.skipped = TRUE],
     Module("sales", <<Imported("support", "support"), Own("sales", "")>>),
     [Module("support", <<>>) EXCEPT !.imports = FALSE]>>,
   <<Module("sales", <<Own("support", Unmarked), Own("sales", "support")>>), Module("support", <<Own("sales", "sales")>>)>>}
Observer == <<"telemetry">>
Symmetric == Permutations(Calls) \cup Permutations(Threads)
=============================================================================
