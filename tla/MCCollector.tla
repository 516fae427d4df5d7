----------------------------- MODULE MCCollector -----------------------------
(***************************************************************************)
(* Message b has a parent and pays to an address; c is milestone 2, which  *)
(* references both; d comes with a later milestone and nobody asks for it. *)
(***************************************************************************)
EXTENDS Collector

Message(id, parents, payload) == [id |-> id, parents |-> parents, payload |-> payload]
Transfer == [kind |-> "transaction", id |-> "t", inputs |-> {}, treasury |-> {},
             outputs |-> {<<0, "addr">>}, payload |-> [kind |-> "none"]]

MCMessages ==
  [b |-> Message("b", {"a"}, Transfer),
   c |-> Message("c", {}, [kind |-> "milestone", index |-> 2, parents_check |-> TRUE]),
   d |-> Message("d", {}, [kind |-> "none"])]
MCRef == [b |-> 2, c |-> 2, d |-> 4]
MCMilestoneOf == [ms \in {2} |-> "c"]
MCAsks == {[id |-> "b", ms |-> 2, by |-> "Syncer"], [id |-> "b", ms |-> 3, by |-> "Incoming"]}
MCCapacities == {1, 3}
MCEndpoints == <<"e1">>
MCTopologies == {[type |-> "RemoveEndpoint", url |-> "e1"]}
MCDeliveries == [message |-> [b |-> 1, c |-> 0, d |-> 0], metadata |-> [b |-> 1, c |-> 0, d |-> 1]]

=============================================================================
