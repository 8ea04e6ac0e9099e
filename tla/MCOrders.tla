------------------------------ MODULE MCOrders ------------------------------
(* Instances of Orders for TLC.  Two handlers play two scenes: requests      *)
(* of any kind on one order, and the creation of three orders.               *)
EXTENDS Orders, TLC

CONSTANTS w1, w2, none, o1, o2, o3

TwoWorkers == {w1, w2}
ThreeOrders == {o1, o2, o3}
TwoValues == {1, 2}

VARIABLE scene

\* The operations of a scene, its orders, the requests served and the largest
\* value of one; an order is worth 1 until it is updated.
Scenes ==
    [life |-> [operations |-> Operations, orders |-> {o1}, requests |-> 6, value |-> 2],
     numbers |-> [operations |-> {"create", "submit"}, orders |-> ThreeOrders,
                  requests |-> 4, value |-> 1]]

SceneSymmetry == Permutations(TwoWorkers)

Serving == {w \in Workers : pc[w] # "idle"}

Within(s) ==
    /\ issued <= s.requests
    /\ entities \subseteq s.orders
    /\ \A w \in Serving : /\ job[w].op \in s.operations
                          /\ job[w].value <= s.value
                          /\ job[w].op = "create" => job[w].value = 1

MCInit == Init /\ scene \in DOMAIN Scenes

MCNext == Next /\ UNCHANGED scene /\ Within(Scenes[scene])'

MCSpec == MCInit /\ [][MCNext]_<<vars, scene>>
=============================================================================
