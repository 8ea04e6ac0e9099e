----------------------------- MODULE EntityStore -----------------------------
(***************************************************************************)
(* The entity service: entities with one component each, and the events of *)
(* their changes, run by concurrent request handlers.                      *)
(*                                                                         *)
(* Create, CreateWithComponents and SetComponent change the tables and     *)
(* append their events in one transaction.  Update and Delete open a       *)
(* transaction too, but their UPDATE statement runs on the POOL and is     *)
(* committed at once; only the event belongs to the transaction.           *)
(* DeleteComponent has no transaction and leaves its event to the bus.     *)
(* All but the creations first read the entity through the pool; Update    *)
(* writes back every column of the copy it has read.                       *)
(***************************************************************************)
EXTENDS EventBus, Sequences

CONSTANTS
    Workers,      \* the goroutines that serve requests
    Entities,     \* the entities that may be created
    Columns,      \* the columns Update may change
    Values,       \* what they may hold
    Default,      \* what a created entity holds in every column
    MaxRequests,  \* bound on the number of requests served
    CrashAllowed  \* may the process die?

ASSUME EntityStoreAssumption ==
    /\ Types = {"entity.created", "entity.updated", "entity.deleted",
                "component.set", "component.removed"}
    /\ Entities # {} /\ Columns # {}
    /\ Default \in Values
    /\ MaxRequests \in Nat
    /\ CrashAllowed \in BOOLEAN

VARIABLES
    entity,      \* the entities rows: absent, live or deleted, and the columns
    version,     \* the version column of each entity's component, 0 without one
    pc,          \* where each handler is
    job,         \* the request each handler serves, and the row it has read
    issued,      \* the number of requests so far
    changed,     \* history: the requests whose change is committed
    cleared,     \* history: the component.set events stored before a removal
    wanted,      \* history: what the last update of each column gave it
    overwritten, \* history: entities an update has written over another's
    crashed,     \* history: has the process ever died?
    cut          \* history: the event handlers that a shutdown did not wait for

tables == <<entity, version>>
history == <<changed, cleared, wanted, overwritten, crashed, cut>>
vars == <<busVars, tables, pc, job, issued, history>>

-----------------------------------------------------------------------------
Row == [Columns -> Values]

NewRow == [c \in Columns |-> Default]

AnyEntity == CHOOSE e \in Entities : TRUE

AnyColumn == CHOOSE c \in Columns : TRUE

Idle == [op |-> "none", id |-> 0, entity |-> AnyEntity, column |-> AnyColumn,
         row |-> NewRow, outbox |-> <<>>]

EventOf(type, w) ==
    [type |-> type, entity |-> job[w].entity, request |-> job[w].id]

Sets(e) == {ev \in stored : ev.type = "component.set" /\ ev.entity = e}

Accept(w, work, at) ==
    /\ pc[w] = "idle"
    /\ issued < MaxRequests
    /\ issued' = issued + 1
    /\ job' = [job EXCEPT ![w] = work]
    /\ pc' = [pc EXCEPT ![w] = at]

Leave(w) ==
    /\ pc' = [pc EXCEPT ![w] = "idle"]
    /\ job' = [job EXCEPT ![w] = Idle]
    /\ UNCHANGED issued

\* The transaction of w commits; its events go to the bus one after the other.
Finish(w, events) ==
    /\ pc' = [pc EXCEPT ![w] = "committed"]
    /\ job' = [job EXCEPT ![w].outbox = events]
    /\ changed' = changed \cup {job[w].id}
    /\ UNCHANGED issued

AppendTx(events) == stored' = stored \cup {events[i] : i \in DOMAIN events}

-----------------------------------------------------------------------------
(* Create and CreateWithComponents *)

\* Mutant of Create: the events are left to the bus.
CreateUnlogged(w, e, types) ==
    LET n == issued + 1
        events == [i \in DOMAIN types |->
                     [type |-> types[i], entity |-> e, request |-> n]]
    IN /\ entity[e].state = "absent"
       /\ Accept(w, [Idle EXCEPT !.op = "create", !.id = n, !.entity = e,
                                 !.outbox = events], "committed")
       /\ entity' = [entity EXCEPT ![e] = [state |-> "live", row |-> NewRow]]
       /\ version' = [version EXCEPT ![e] = Len(types) - 1]
       /\ changed' = changed \cup {n}
       /\ wanted' = [wanted EXCEPT ![e] = NewRow]
       /\ UNCHANGED <<busVars, cleared, overwritten, crashed, cut>>

\* Nobody knows the new id before the commit, so the transaction is one step.
Create(w, e, types) ==
    LET n == issued + 1
        events == [i \in DOMAIN types |->
                     [type |-> types[i], entity |-> e, request |-> n]]
    IN /\ entity[e].state = "absent"
       /\ Accept(w, [Idle EXCEPT !.op = "create", !.id = n, !.entity = e,
                                 !.outbox = events], "committed")
       /\ AppendTx(events)
       /\ entity' = [entity EXCEPT ![e] = [state |-> "live", row |-> NewRow]]
       /\ version' = [version EXCEPT ![e] = Len(types) - 1]
       /\ changed' = changed \cup {n}
       /\ wanted' = [wanted EXCEPT ![e] = NewRow]
       /\ UNCHANGED <<running, handled, cleared, overwritten, crashed, cut>>

-----------------------------------------------------------------------------
(* The operations on an entity that exists *)

GetByID(w, op, e, c, v) ==
    /\ entity[e].state = "live"
    /\ op = "update" => entity[e].row[c] # v
    /\ Accept(w, [Idle EXCEPT !.op = op, !.id = issued + 1, !.entity = e,
                              !.column = c, !.row = [entity[e].row EXCEPT ![c] = v]],
              "opened")
    /\ UNCHANGED <<busVars, tables, history>>

\* Mutant of Update: the columns the request leaves out are reset.
UpdateAll(w) ==
    /\ pc[w] = "opened"
    /\ job[w].op = "update"
    /\ LET e == job[w].entity
           c == job[w].column
           v == job[w].row[c]
       IN /\ entity[e].state = "live"
          /\ entity' = [entity EXCEPT ![e].row = [NewRow EXCEPT ![c] = v]]
          /\ wanted' = [wanted EXCEPT ![e][c] = v]
          /\ overwritten' =
               IF \E d \in Columns \ {c} : job[w].row[d] # entity[e].row[d]
               THEN overwritten \cup {e} ELSE overwritten
    /\ changed' = changed \cup {job[w].id}
    /\ pc' = [pc EXCEPT ![w] = "written"]
    /\ UNCHANGED <<busVars, version, job, issued, cleared, crashed, cut>>

\* repo.Update: on the pool, so committed at once; a deleted row is no match.
Update(w) ==
    /\ pc[w] = "opened"
    /\ job[w].op = "update"
    /\ LET e == job[w].entity
           c == job[w].column
       IN /\ entity[e].state = "live"
          /\ entity' = [entity EXCEPT ![e].row = job[w].row]
          /\ wanted' = [wanted EXCEPT ![e][c] = job[w].row[c]]
          /\ overwritten' =
               IF \E d \in Columns \ {c} : job[w].row[d] # entity[e].row[d]
               THEN overwritten \cup {e} ELSE overwritten
    /\ changed' = changed \cup {job[w].id}
    /\ pc' = [pc EXCEPT ![w] = "written"]
    /\ UNCHANGED <<busVars, version, job, issued, cleared, crashed, cut>>

\* Mutant of SoftDelete: a row deleted already matches again.
SoftDeleteAgain(w) ==
    /\ pc[w] = "opened"
    /\ job[w].op = "delete"
    /\ entity' = [entity EXCEPT ![job[w].entity].state = "deleted"]
    /\ changed' = changed \cup {job[w].id}
    /\ pc' = [pc EXCEPT ![w] = "written"]
    /\ UNCHANGED <<busVars, version, job, issued, cleared, wanted, overwritten,
                   crashed, cut>>

SoftDelete(w) ==
    /\ pc[w] = "opened"
    /\ job[w].op = "delete"
    /\ entity[job[w].entity].state = "live"
    /\ entity' = [entity EXCEPT ![job[w].entity].state = "deleted"]
    /\ changed' = changed \cup {job[w].id}
    /\ pc' = [pc EXCEPT ![w] = "written"]
    /\ UNCHANGED <<busVars, version, job, issued, cleared, wanted, overwritten,
                   crashed, cut>>

\* The event of an update or a deletion, and the commit.
AppendEvent(w) ==
    /\ pc[w] = "written"
    /\ LET type == IF job[w].op = "update" THEN "entity.updated"
                                           ELSE "entity.deleted"
           events == <<EventOf(type, w)>>
       IN AppendTx(events) /\ Finish(w, events)
    /\ UNCHANGED <<running, handled, tables, cleared, wanted, overwritten, crashed, cut>>

\* Mutant of SetComponent: the upsert starts the version again.
SetComponentAfresh(w) ==
    /\ pc[w] = "opened"
    /\ job[w].op = "set"
    /\ version' = [version EXCEPT ![job[w].entity] = 1]
    /\ LET events == <<EventOf("component.set", w)>>
       IN AppendTx(events) /\ Finish(w, events)
    /\ UNCHANGED <<running, handled, entity, cleared, wanted, overwritten, crashed, cut>>

\* SetComponentTx takes the version from the row it locks, and the event is
\* appended in the same transaction: for others this is one step.
SetComponent(w) ==
    /\ pc[w] = "opened"
    /\ job[w].op = "set"
    /\ version' = [version EXCEPT ![job[w].entity] = @ + 1]
    /\ LET events == <<EventOf("component.set", w)>>
       IN AppendTx(events) /\ Finish(w, events)
    /\ UNCHANGED <<running, handled, entity, cleared, wanted, overwritten, crashed, cut>>

DeleteComponent(w) ==
    /\ pc[w] = "opened"
    /\ job[w].op = "remove"
    /\ version[job[w].entity] > 0
    /\ version' = [version EXCEPT ![job[w].entity] = 0]
    /\ cleared' = [cleared EXCEPT ![job[w].entity] = Cardinality(Sets(job[w].entity))]
    /\ Finish(w, <<EventOf("component.removed", w)>>)
    /\ UNCHANGED <<busVars, entity, wanted, overwritten, crashed, cut>>

PublishNext(w) ==
    /\ pc[w] = "committed"
    /\ job[w].outbox # <<>>
    /\ Publish(Head(job[w].outbox), stored)
    /\ job' = [job EXCEPT ![w].outbox = Tail(@)]
    /\ UNCHANGED <<tables, pc, issued, history>>

Return(w) ==
    /\ pc[w] = "committed"
    /\ job[w].outbox = <<>>
    /\ Leave(w)
    /\ UNCHANGED <<busVars, tables, history>>

\* A query or the commit fails, or the row is gone: the handler returns.
Fail(w) ==
    /\ pc[w] \in {"opened", "written"}
    /\ Leave(w)
    /\ UNCHANGED <<busVars, tables, history>>

Crash ==
    /\ CrashAllowed
    /\ crashed' = TRUE
    /\ pc' = [w \in Workers |-> "idle"]
    /\ job' = [w \in Workers |-> Idle]
    /\ LoseHandlers
    /\ UNCHANGED <<tables, issued, changed, cleared, wanted, overwritten, cut>>

\* The server has answered the requests under way; then it closes the pool and
\* ends, and is started again.
Shutdown ==
    /\ \A w \in Workers : pc[w] = "idle"
    /\ cut' = cut \cup running
    /\ LoseHandlers
    /\ UNCHANGED <<tables, pc, job, issued, changed, cleared, wanted, overwritten, crashed>>

Handle ==
    /\ \E s \in Subscribers, ev \in {r[1] : r \in running} : EndHandler(ev, s)
    /\ UNCHANGED <<tables, pc, job, issued, history>>

-----------------------------------------------------------------------------
Init ==
    /\ InitBus
    /\ entity \in [Entities -> [state : {"absent", "live"}, row : {NewRow}]]
    /\ version = [e \in Entities |-> 0]
    /\ pc = [w \in Workers |-> "idle"]
    /\ job = [w \in Workers |-> Idle]
    /\ issued = 0
    /\ changed = {}
    /\ cleared = [e \in Entities |-> 0]
    /\ wanted = [e \in Entities |-> NewRow]
    /\ overwritten = {}
    /\ crashed = FALSE
    /\ cut = {}

Request(w, e) ==
    \/ Create(w, e, <<"entity.created">>)
    \/ Create(w, e, <<"entity.created", "component.set">>)
    \/ \E c \in Columns, v \in Values : GetByID(w, "update", e, c, v)
    \/ \E op \in {"delete", "set", "remove"} :
         GetByID(w, op, e, AnyColumn, entity[e].row[AnyColumn])

Progress(w) ==
    \/ Update(w) \/ SoftDelete(w) \/ AppendEvent(w)
    \/ SetComponent(w) \/ DeleteComponent(w)
    \/ PublishNext(w) \/ Return(w)

Next ==
    \/ \E w \in Workers : (\E e \in Entities : Request(w, e)) \/ Progress(w) \/ Fail(w)
    \/ Handle
    \/ Crash
    \/ Shutdown

Spec == Init /\ [][Next]_vars

\* Handlers of requests and of events that were started keep running.
FairSpec == Spec /\ WF_vars(Handle) /\ \A w \in Workers : WF_vars(Progress(w))

-----------------------------------------------------------------------------
(* Properties *)

(* The version of a component is the number of component.set events stored   *)
(* since its last removal: no overlap, failure or crash separates an upsert  *)
(* from its event (the versions ARCHITECTURE.md speaks of count changes).    *)
VersionsAreLogged ==
    \A e \in Entities :
      IF version[e] = 0 THEN Cardinality(Sets(e)) = cleared[e]
                        ELSE Cardinality(Sets(e)) = cleared[e] + version[e]

(* A deletion is recorded once, however many handlers delete the entity at   *)
(* the same time: the UPDATE matches only a row that is not deleted.         *)
DeletedOnce ==
    \A e \in Entities :
      LET deletions == {ev \in stored : ev.type = "entity.deleted" /\ ev.entity = e}
      IN /\ Cardinality(deletions) <= 1
         /\ deletions # {} => entity[e].state = "deleted"

(* An update changes the columns its request names and no other, unless      *)
(* another update was committed since it read the row.                       *)
UpdatesKeepOtherColumns ==
    \A e \in Entities \ overwritten : entity[e].row = wanted[e]

(* Subscribers hear only of what is in the event store, the removal of a     *)
(* component apart: services append the event before they publish it.        *)
HeardIsStored ==
    \A r \in running \cup handled :
      r[1] \in stored \/ r[1].type = "component.removed"

(* Every event of a committed change reaches every subscriber that matches,  *)
(* unless the process dies first or is stopped while that subscriber runs:   *)
(* Publish does not depend on the append, and the goroutines are detached    *)
(* from the request.                                                         *)
EventsAreHandled ==
    \A n \in 1..MaxRequests :
      (\E ev \in stored : ev.request = n)
        ~> \/ crashed
           \/ \A ev \in stored : ev.request = n =>
                \A s \in Matching(ev) : <<ev, s>> \in handled \cup cut

(* ARCHITECTURE.md, section 4: the INSERT into the event store and the       *)
(* mutation of the entity are in one PostgreSQL transaction.                 *)
MutationHasEvent ==
    \A n \in changed : \E ev \in stored : ev.request = n

(* ARCHITECTURE.md, section 9: a shutdown waits for the event handlers       *)
(* before it closes the pool.                                                *)
HandlersOutliveShutdown == cut = {}

=============================================================================
