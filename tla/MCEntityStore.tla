---------------------------- MODULE MCEntityStore ----------------------------
(* Instances of EntityStore for TLC. *)
EXTENDS EntityStore, TLC

CONSTANTS w1, w2, e1, engine, name, status

MCWorkers == {w1, w2}
MCEntities == {e1}
MCColumns == {name, status}
MCValues == {0, 1}
MCSubscribers == {engine}
MCTypes == {"entity.created", "entity.updated", "entity.deleted",
            "component.set", "component.removed"}

\* The process engine subscribes to all events.
MCInterest == [s \in MCSubscribers |-> MCTypes]
=============================================================================
