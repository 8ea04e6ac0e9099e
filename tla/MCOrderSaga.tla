---------------------------- MODULE MCOrderSaga ----------------------------
(* Instances of OrderSaga for TLC.  One run looks at three scenes: two      *)
(* orders that share a product, the overlapping requests of one order, and  *)
(* one order from its creation to its refund.                               *)
EXTENDS OrderSaga, TLC

CONSTANTS w1, w2, o1, o2, o3, o4, bolt, nut

TwoWorkers == {w1, w2}
FourOrders == {o1, o2, o3, o4}
FirstThree == {o1, o2, o3}
TwoProducts == {bolt, nut}
BoltsAndNuts == o1 :> <<bolt, nut>> @@ [o \in FourOrders |-> <<bolt>>]
TwoBoltsOneNut == bolt :> 2 @@ nut :> 1
TwoTotals == {1, 2}

VARIABLE scene

Operations == {"create"} \cup DOMAIN Allowed

\* The orders of a scene, the operations they go through, the requests served
\* at a time and the events published.
Scenes ==
    [share |-> [orders |-> {o1, o2}, requests |-> 1, events |-> 3,
                operations |-> {"confirm", "cancel"}],
     overlap |-> [orders |-> {o3}, requests |-> 2, events |-> 3,
                  operations |-> Operations \ {"update"}],
     life |-> [orders |-> {o4}, requests |-> 1, events |-> 4,
               operations |-> Operations \ {"ship", "deliver"}]]

SceneSymmetry == Permutations(TwoWorkers)

\* The events there are and those the requests on their way may still publish.
Expected == Cardinality(stored) + Cardinality({w \in Busy : task[w].op \in DOMAIN Tells})

Within(s) ==
    /\ Cardinality(Busy) <= s.requests
    /\ Expected <= s.events
    /\ \A w \in Busy : /\ task[w].order \in s.orders
                       /\ task[w].op \in s.operations
                       /\ task[w].op = "create" => task[w].total = 1

\* An order comes to 1 until it is updated.
MCInit ==
    /\ SagaInit
    /\ scene \in DOMAIN Scenes
    /\ \A o \in Earlier : order[o].total = 1

MCNext == SagaNext /\ UNCHANGED scene /\ Within(Scenes[scene])'

MCSpec == MCInit /\ [][MCNext]_<<sagaVars, scene>>
=============================================================================
