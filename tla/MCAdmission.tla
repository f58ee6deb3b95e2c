---------------------------- MODULE MCAdmission ----------------------------
EXTENDS Admission, TLC

Symmetry == Permutations(Jobs)

Plain == [agent |-> NoName, demo |-> NoName, tenant |-> <<"missing">>]
Offer(agent, tenant, router) ==
  [job |-> [Plain EXCEPT !.agent = agent, !.tenant = tenant], room |-> Plain,
   prefixes |-> {}, router |-> router]
Acme == <<"exact", "acme">>

TwoAgents == <<"a", "b">>
OneEach == [a \in {"a", "b"} |-> 1]
NoCaps == <<>>
AcmeOnce == [t \in {"acme"} |-> 1]

\* A job of each tenant, one that names no agent and one whose name nobody has.
Mixed == {Offer("a", Acme, "defer"), Offer("b", Acme, "defer"),
          Offer(NoName, <<"missing">>, "defer"), Offer("c", <<"missing">>, "defer")}
\* A router that sends a job elsewhere than its metadata says.
Routed == {Offer("a", Acme, "b")}
Noisy == {Offer("a", Acme, "defer"), Offer("b", <<"missing">>, "defer")}
=============================================================================
