-------------------------- MODULE EntityStoreProofs --------------------------
(***************************************************************************)
(* Theorems about the entity service of module EntityStore, for any number *)
(* of handlers, entities, columns, subscribers and requests.               *)
(***************************************************************************)
EXTENDS EntityStore, FiniteSetTheorems, TLAPS

USE DEF vars, busVars, tables, history

-----------------------------------------------------------------------------
(* Types *)

Event == [type : Types, entity : Entities, request : Nat]

Job == [op : {"none", "create", "update", "delete", "set", "remove"}, id : Nat,
        entity : Entities, column : Columns, row : Row, outbox : Seq(Event)]

EntityRow == [state : {"absent", "live", "deleted"}, row : Row]

StoreTypeOK ==
    /\ stored \subseteq Event /\ IsFiniteSet(stored)
    /\ entity \in [Entities -> EntityRow]
    /\ version \in [Entities -> Nat]
    /\ cleared \in [Entities -> Nat]
    /\ wanted \in [Entities -> Row]
    /\ pc \in [Workers -> {"idle", "opened", "written", "committed"}]
    /\ job \in [Workers -> Job]
    /\ issued \in Nat

LEMMA NewRowIsRow == NewRow \in Row
BY EntityStoreAssumption DEF NewRow, Row

LEMMA IdleIsJob == Idle \in Job
<1>1. AnyEntity \in Entities /\ AnyColumn \in Columns
  BY EntityStoreAssumption DEF AnyEntity, AnyColumn
<1>2. <<>> \in Seq(Event)
  OBVIOUS
<1>3. QED
  BY <1>1, <1>2, NewRowIsRow DEF Idle, Job

\* The jobs of accepted requests.
LEMMA CreationIsJob ==
  ASSUME StoreTypeOK, NEW e \in Entities, NEW events \in Seq(Event)
  PROVE  /\ [Idle EXCEPT !.op = "create", !.id = issued + 1, !.entity = e,
                         !.outbox = events] \in Job
         /\ [Idle EXCEPT !.op = "create", !.id = issued + 1, !.entity = e,
                         !.outbox = events].outbox = events
<1>1. issued + 1 \in Nat
  BY DEF StoreTypeOK
<1>2. ASSUME NEW idle \in Job, NEW n \in Nat
      PROVE  /\ [idle EXCEPT !.op = "create", !.id = n, !.entity = e,
                             !.outbox = events] \in Job
             /\ [idle EXCEPT !.op = "create", !.id = n, !.entity = e,
                             !.outbox = events].outbox = events
  BY DEF Job
<1>3. QED
  BY <1>1, <1>2, IdleIsJob, Zenon

\* One handler goes on with another job; the others keep theirs.
Turns(w, at, work) ==
    /\ pc' = [pc EXCEPT ![w] = at]
    /\ job' = [job EXCEPT ![w] = work]

LEMMA TurnsType ==
  ASSUME StoreTypeOK, NEW w \in Workers, NEW work \in Job,
         NEW at \in {"idle", "opened", "written", "committed"}, Turns(w, at, work)
  PROVE  /\ pc' \in [Workers -> {"idle", "opened", "written", "committed"}]
         /\ job' \in [Workers -> Job]
         /\ pc'[w] = at /\ job'[w] = work
         /\ \A v \in Workers \ {w} : pc'[v] = pc[v] /\ job'[v] = job[v]
BY DEF StoreTypeOK, Turns

LEMMA JobFields ==
  ASSUME StoreTypeOK, NEW w \in Workers
  PROVE  /\ job[w] \in Job
         /\ job[w].id \in Nat
         /\ job[w].entity \in Entities
         /\ job[w].column \in Columns
         /\ job[w].row \in Row
         /\ job[w].outbox \in Seq(Event)
<1>1. job[w] \in Job
  BY DEF StoreTypeOK
<1>2. QED
  BY <1>1 DEF Job

\* A job whose outbox is one event.
LEMMA JobOutbox ==
  ASSUME StoreTypeOK, NEW w \in Workers, NEW ev \in Event
  PROVE  /\ [job[w] EXCEPT !.outbox = <<ev>>] \in Job
         /\ [job[w] EXCEPT !.outbox = <<ev>>].outbox = <<ev>>
<1>1. ASSUME NEW events \in Seq(Event)
      PROVE  /\ [job[w] EXCEPT !.outbox = events] \in Job
             /\ [job[w] EXCEPT !.outbox = events].outbox = events
  BY JobFields DEF Job
<1>2. <<ev>> \in Seq(Event)
  OBVIOUS
<1>3. QED
  BY <1>1, <1>2, Zenon

-----------------------------------------------------------------------------
(* What the steps do, in the terms of the proofs *)

Creations == {<<"entity.created">>, <<"entity.created", "component.set">>}

Created(e) == [type |-> "entity.created", entity |-> e, request |-> issued + 1]
FirstSet(e) == [type |-> "component.set", entity |-> e, request |-> issued + 1]

\* A creation stores one or two events and leaves them to be published.
Creates(w, e) ==
    /\ pc[w] = "idle"
    /\ entity[e].state = "absent"
    /\ \E work \in Job :
         /\ Turns(w, "committed", work)
         /\ \/ /\ work.outbox = <<Created(e)>>
               /\ stored' = stored \cup {Created(e)}
               /\ version' = [version EXCEPT ![e] = 0]
            \/ /\ work.outbox = <<Created(e), FirstSet(e)>>
               /\ stored' = stored \cup {Created(e), FirstSet(e)}
               /\ version' = [version EXCEPT ![e] = 1]
    /\ entity' = [entity EXCEPT ![e] = [state |-> "live", row |-> NewRow]]
    /\ wanted' = [wanted EXCEPT ![e] = NewRow]
    /\ issued' = issued + 1
    /\ UNCHANGED <<running, handled, cleared, overwritten>>

\* A request is accepted and has read its entity.
Opens(w) ==
    /\ pc[w] = "idle"
    /\ \E work \in Job :
         /\ Turns(w, "opened", work)
         /\ work.id = issued + 1
         /\ work.outbox = <<>>
         /\ entity[work.entity].state = "live"
    /\ issued' = issued + 1
    /\ UNCHANGED <<busVars, entity, version, wanted, cleared, overwritten>>

\* The entities row is changed on the pool: its columns ...
Updates(w) ==
    /\ pc[w] = "opened"
    /\ entity[job[w].entity].state = "live"
    /\ job[w].op = "update"
    /\ Turns(w, "written", job[w])
    /\ LET e == job[w].entity
           c == job[w].column
       IN /\ entity' = [entity EXCEPT ![e].row = job[w].row]
          /\ wanted' = [wanted EXCEPT ![e][c] = job[w].row[c]]
          /\ overwritten' =
               IF \E d \in Columns \ {c} : job[w].row[d] # entity[e].row[d]
               THEN overwritten \cup {e} ELSE overwritten
    /\ UNCHANGED <<busVars, version, cleared, issued>>

\* ... or its state.
Deletes(w) ==
    /\ pc[w] = "opened"
    /\ entity[job[w].entity].state = "live"
    /\ job[w].op = "delete"
    /\ Turns(w, "written", job[w])
    /\ entity' = [entity EXCEPT ![job[w].entity].state = "deleted"]
    /\ UNCHANGED <<busVars, version, wanted, cleared, overwritten, issued>>

\* A transaction commits its event.
Commits(w, ev) ==
    /\ Turns(w, "committed", [job[w] EXCEPT !.outbox = <<ev>>])
    /\ ev = EventOf(ev.type, w)
    /\ UNCHANGED <<running, handled, entity, wanted, overwritten, issued>>
    /\ \/ /\ pc[w] = "written"
          /\ ev.type = IF job[w].op = "update" THEN "entity.updated" ELSE "entity.deleted"
          /\ stored' = stored \cup {ev}
          /\ UNCHANGED <<version, cleared>>
       \/ /\ pc[w] = "opened"
          /\ ev.type = "component.set"
          /\ stored' = stored \cup {ev}
          /\ version' = [version EXCEPT ![job[w].entity] = @ + 1]
          /\ UNCHANGED cleared
       \/ /\ pc[w] = "opened"
          /\ ev.type = "component.removed"
          /\ stored' = stored
          /\ version' = [version EXCEPT ![job[w].entity] = 0]
          /\ cleared' = [cleared EXCEPT ![job[w].entity] = Cardinality(Sets(job[w].entity))]

\* The next event of the outbox goes to the bus.
Publishes(w) ==
    /\ pc[w] = "committed"
    /\ job[w].outbox # <<>>
    /\ Turns(w, "committed", [job[w] EXCEPT !.outbox = Tail(@)])
    /\ Publish(Head(job[w].outbox), stored)
    /\ UNCHANGED <<entity, version, wanted, cleared, overwritten, issued>>

\* Handlers stop; goroutines of events end, or are lost.
Stops ==
    /\ pc' \in [Workers -> {"idle", "opened", "written", "committed"}]
    /\ job' \in [Workers -> Job]
    /\ \A w \in Workers : pc'[w] = "idle" \/ (pc'[w] = pc[w] /\ job'[w] = job[w])
    /\ running' \subseteq running
    /\ handled' \subseteq handled \cup running
    /\ UNCHANGED <<stored, entity, version, wanted, cleared, overwritten, issued>>

\* The appended events of a creation, one or two.
LEMMA CreateSteps ==
  ASSUME StoreTypeOK, NEW w \in Workers, NEW e \in Entities,
         NEW types \in Creations, Create(w, e, types)
  PROVE  Creates(w, e)
<1> DEFINE n == issued + 1
           events == [i \in DOMAIN types |-> [type |-> types[i], entity |-> e, request |-> n]]
           work == [Idle EXCEPT !.op = "create", !.id = n, !.entity = e, !.outbox = events]
<1>1. /\ pc[w] = "idle" /\ entity[e].state = "absent"
      /\ Turns(w, "committed", work)
      /\ stored' = stored \cup {events[i] : i \in DOMAIN events}
      /\ version' = [version EXCEPT ![e] = Len(types) - 1]
      /\ entity' = [entity EXCEPT ![e] = [state |-> "live", row |-> NewRow]]
      /\ wanted' = [wanted EXCEPT ![e] = NewRow]
      /\ issued' = issued + 1
      /\ UNCHANGED <<running, handled, cleared, overwritten>>
  BY DEF Create, Accept, AppendTx, Turns
<1>2. Created(e) \in Event /\ FirstSet(e) \in Event
  BY EntityStoreAssumption DEF Created, FirstSet, Event, StoreTypeOK
<1>3. ASSUME events \in Seq(Event)
      PROVE  work \in Job /\ work.outbox = events
  <2> HIDE DEF events
  <2>1. n \in Nat
    BY DEF StoreTypeOK
  <2>2. QED
    BY <1>3, <2>1, IdleIsJob, CreationIsJob
<1>4. CASE types = <<"entity.created">>
  <2>1. DOMAIN types = {1} /\ types[1] = "entity.created" /\ Len(types) - 1 = 0
    BY <1>4
  <2>2. events = <<Created(e)>>
    BY <2>1 DEF Created
  <2>3. {events[i] : i \in DOMAIN events} = {Created(e)} /\ events \in Seq(Event)
    <3> HIDE DEF events
    <3>1. QED
      BY <2>2, <1>2
  <2> HIDE DEF events
  <2>4. work \in Job /\ work.outbox = events
    BY <1>3, <2>3
  <2> HIDE DEF work
  <2>5. QED
    BY <1>1, <2>1, <2>2, <2>3, <2>4 DEF Creates
<1>5. CASE types = <<"entity.created", "component.set">>
  <2>1. /\ DOMAIN types = {1, 2} /\ types[1] = "entity.created"
        /\ types[2] = "component.set" /\ Len(types) - 1 = 1
    BY <1>5
  <2>2. events = <<Created(e), FirstSet(e)>>
    BY <2>1 DEF Created, FirstSet
  <2>3. {events[i] : i \in DOMAIN events} = {Created(e), FirstSet(e)} /\ events \in Seq(Event)
    <3> HIDE DEF events
    <3>1. QED
      BY <2>2, <1>2
  <2> HIDE DEF events
  <2>4. work \in Job /\ work.outbox = events
    BY <1>3, <2>3
  <2> HIDE DEF work
  <2>5. QED
    BY <1>1, <2>1, <2>2, <2>3, <2>4 DEF Creates
<1>6. QED
  BY <1>4, <1>5 DEF Creations

LEMMA OpenSteps ==
  ASSUME StoreTypeOK, NEW w \in Workers, NEW e \in Entities, NEW c \in Columns,
         NEW op \in {"update", "delete", "set", "remove"}, NEW v \in Values,
         GetByID(w, op, e, c, v)
  PROVE  Opens(w)
<1>1. [entity[e].row EXCEPT ![c] = v] \in Row
  BY DEF StoreTypeOK, EntityRow, Row
<1>2. PICK row \in Row : row = [entity[e].row EXCEPT ![c] = v]
  BY <1>1
<1>3. PICK work \in Job :
        /\ work = [Idle EXCEPT !.op = op, !.id = issued + 1, !.entity = e,
                               !.column = c, !.row = row]
        /\ work.id = issued + 1 /\ work.entity = e /\ work.outbox = Idle.outbox
  <2>1. issued + 1 \in Nat
    BY DEF StoreTypeOK
  <2>2. ASSUME NEW idle \in Job, NEW n \in Nat
        PROVE  \E work \in Job :
                 /\ work = [idle EXCEPT !.op = op, !.id = n, !.entity = e,
                                        !.column = c, !.row = row]
                 /\ work.id = n /\ work.entity = e /\ work.outbox = idle.outbox
    <3> DEFINE work == [idle EXCEPT !.op = op, !.id = n, !.entity = e,
                                    !.column = c, !.row = row]
    <3>1. /\ work \in Job
          /\ work.id = n /\ work.entity = e /\ work.outbox = idle.outbox
      BY DEF Job
    <3>2. QED
      BY <3>1, Zenon
  <2>3. QED
    BY <2>1, <2>2, IdleIsJob, Zenon
<1>4. /\ pc[w] = "idle" /\ entity[e].state = "live" /\ issued' = issued + 1
      /\ Turns(w, "opened", work)
      /\ UNCHANGED <<busVars, entity, version, wanted, cleared, overwritten>>
  BY <1>2, <1>3 DEF GetByID, Accept, Turns
<1>5. Idle.outbox = <<>>
  BY DEF Idle
<1>6. QED
  BY <1>3, <1>4, <1>5 DEF Opens

\* Every step is one of these.
LEMMA StepsOfStore ==
  ASSUME StoreTypeOK, Next
  PROVE  \/ \E w \in Workers : \/ \E e \in Entities : Creates(w, e)
                               \/ Opens(w) \/ Updates(w) \/ Deletes(w)
                               \/ \E ev \in Event : Commits(w, ev)
                               \/ Publishes(w)
         \/ Stops
<1>1. ASSUME NEW w \in Workers, NEW e \in Entities, Request(w, e)
      PROVE  Creates(w, e) \/ Opens(w)
  <2>1. CASE \E types \in Creations : Create(w, e, types)
    BY <2>1, CreateSteps
  <2>2. CASE \E c \in Columns, v \in Values : GetByID(w, "update", e, c, v)
    BY <2>2, OpenSteps
  <2>3. CASE \E op \in {"delete", "set", "remove"} :
               GetByID(w, op, e, AnyColumn, entity[e].row[AnyColumn])
    <3>1. AnyColumn \in Columns
      BY EntityStoreAssumption DEF AnyColumn
    <3>2. entity[e].row[AnyColumn] \in Values
      BY <3>1 DEF StoreTypeOK, EntityRow, Row
    <3>3. QED
      BY <2>3, <3>1, <3>2, OpenSteps
  <2>4. QED
    BY <1>1, <2>1, <2>2, <2>3 DEF Request, Creations
<1>2. ASSUME NEW w \in Workers, job' = job
      PROVE  job' = [job EXCEPT ![w] = job[w]]
  BY <1>2 DEF StoreTypeOK
<1>3. ASSUME NEW w \in Workers, Update(w)
      PROVE  Updates(w)
  BY <1>2, <1>3 DEF Update, Updates, Turns
<1>4. ASSUME NEW w \in Workers, SoftDelete(w)
      PROVE  Deletes(w)
  BY <1>2, <1>4 DEF SoftDelete, Deletes, Turns
<1>5. ASSUME NEW w \in Workers, NEW type \in Types
      PROVE  /\ EventOf(type, w) \in Event
             /\ EventOf(type, w).type = type
             /\ AppendTx(<<EventOf(type, w)>>) => stored' = stored \cup {EventOf(type, w)}
             /\ Finish(w, <<EventOf(type, w)>>)
                  => /\ Turns(w, "committed", [job[w] EXCEPT !.outbox = <<EventOf(type, w)>>])
                     /\ issued' = issued
  <2>1. EventOf(type, w) \in Event /\ EventOf(type, w).type = type
    BY JobFields DEF EventOf, Event
  <2>2. {<<EventOf(type, w)>>[i] : i \in DOMAIN <<EventOf(type, w)>>} = {EventOf(type, w)}
    OBVIOUS
  <2>3. QED
    BY <2>1, <2>2 DEF AppendTx, Finish, Turns
<1>6. ASSUME NEW w \in Workers, AppendEvent(w) \/ SetComponent(w) \/ DeleteComponent(w)
      PROVE  \E ev \in Event : Commits(w, ev)
  <2>1. CASE AppendEvent(w)
    <3> DEFINE type == IF job[w].op = "update" THEN "entity.updated" ELSE "entity.deleted"
    <3>1. type \in Types
      BY EntityStoreAssumption
    <3>2. /\ pc[w] = "written" /\ AppendTx(<<EventOf(type, w)>>)
          /\ Finish(w, <<EventOf(type, w)>>)
          /\ UNCHANGED <<running, handled, entity, version, cleared, wanted, overwritten>>
      BY <2>1 DEF AppendEvent
    <3>3. QED
      BY <1>5, <3>1, <3>2 DEF Commits
  <2>2. CASE SetComponent(w)
    <3>1. "component.set" \in Types
      BY EntityStoreAssumption
    <3>2. /\ pc[w] = "opened" /\ AppendTx(<<EventOf("component.set", w)>>)
          /\ Finish(w, <<EventOf("component.set", w)>>)
          /\ version' = [version EXCEPT ![job[w].entity] = @ + 1]
          /\ UNCHANGED <<running, handled, entity, cleared, wanted, overwritten>>
      BY <2>2 DEF SetComponent
    <3>3. QED
      BY <1>5, <3>1, <3>2 DEF Commits
  <2>3. CASE DeleteComponent(w)
    <3>1. "component.removed" \in Types
      BY EntityStoreAssumption
    <3>2. /\ pc[w] = "opened"
          /\ Finish(w, <<EventOf("component.removed", w)>>)
          /\ version' = [version EXCEPT ![job[w].entity] = 0]
          /\ cleared' = [cleared EXCEPT ![job[w].entity] = Cardinality(Sets(job[w].entity))]
          /\ UNCHANGED <<stored, running, handled, entity, wanted, overwritten>>
      BY <2>3 DEF DeleteComponent
    <3>3. QED
      BY <1>5, <3>1, <3>2 DEF Commits
  <2>4. QED
    BY <1>6, <2>1, <2>2, <2>3
<1>7. ASSUME NEW w \in Workers, PublishNext(w)
      PROVE  Publishes(w)
  <2>1. pc' = [pc EXCEPT ![w] = "committed"]
    BY <1>7 DEF PublishNext, StoreTypeOK
  <2>2. QED
    BY <1>7, <2>1 DEF PublishNext, Publishes, Turns
<1>8. ASSUME NEW w \in Workers, Return(w) \/ Fail(w)
      PROVE  Stops
  <2>1. Turns(w, "idle", Idle)
    BY <1>8 DEF Return, Fail, Leave, Turns
  <2>2. UNCHANGED <<busVars, entity, version, wanted, cleared, overwritten, issued>>
    BY <1>8 DEF Return, Fail, Leave
  <2>3. QED
    BY <2>1, <2>2, TurnsType, IdleIsJob DEF Stops
<1>9. ASSUME Crash
      PROVE  Stops
  BY <1>9, IdleIsJob DEF Crash, LoseHandlers, Stops
<1>10. ASSUME Shutdown
       PROVE  Stops
  BY <1>10 DEF Shutdown, LoseHandlers, Stops, StoreTypeOK
<1>11. ASSUME Handle
       PROVE  Stops
  <2>1. PICK s \in Subscribers, ev \in {r[1] : r \in running} : EndHandler(ev, s)
    BY <1>11 DEF Handle
  <2>2. QED
    BY <1>11, <2>1 DEF Handle, EndHandler, Stops, StoreTypeOK
<1>12. QED
  BY <1>1, <1>3, <1>4, <1>6, <1>7, <1>8, <1>9, <1>10, <1>11 DEF Next, Progress

-----------------------------------------------------------------------------
(* Type correctness *)

LEMMA StoreTypeStep ==
  ASSUME StoreTypeOK, [Next]_vars
  PROVE  StoreTypeOK'
<1>1. ASSUME NEW w \in Workers, NEW e \in Entities, Creates(w, e)
      PROVE  StoreTypeOK'
  <2>1. Created(e) \in Event /\ FirstSet(e) \in Event
    BY EntityStoreAssumption DEF Created, FirstSet, Event, StoreTypeOK
  <2>2. /\ IsFiniteSet(stored \cup {Created(e)})
        /\ IsFiniteSet(stored \cup {Created(e), FirstSet(e)})
    <3>1. IsFiniteSet(stored \cup {Created(e)})
      BY FS_AddElement DEF StoreTypeOK
    <3>2. IsFiniteSet((stored \cup {Created(e)}) \cup {FirstSet(e)})
      BY <3>1, FS_AddElement
    <3>3. stored \cup {Created(e), FirstSet(e)} = (stored \cup {Created(e)}) \cup {FirstSet(e)}
      OBVIOUS
    <3>4. QED
      BY <3>1, <3>2, <3>3
  <2>3. stored' \subseteq Event /\ IsFiniteSet(stored')
    BY <1>1, <2>1, <2>2 DEF Creates, StoreTypeOK
  <2>4. /\ pc' \in [Workers -> {"idle", "opened", "written", "committed"}]
        /\ job' \in [Workers -> Job]
    BY <1>1, TurnsType DEF Creates
  <2>5. [state |-> "live", row |-> NewRow] \in EntityRow
    BY NewRowIsRow DEF EntityRow
  <2>6. entity' \in [Entities -> EntityRow] /\ wanted' \in [Entities -> Row]
    BY <1>1, <2>5, NewRowIsRow DEF Creates, StoreTypeOK
  <2>7. version' \in [Entities -> Nat] /\ cleared' \in [Entities -> Nat] /\ issued' \in Nat
    BY <1>1 DEF Creates, StoreTypeOK
  <2>8. QED
    BY <2>3, <2>4, <2>6, <2>7 DEF StoreTypeOK
<1>2. ASSUME NEW w \in Workers, Opens(w)
      PROVE  StoreTypeOK'
  <2>1. /\ pc' \in [Workers -> {"idle", "opened", "written", "committed"}]
        /\ job' \in [Workers -> Job]
    BY <1>2, TurnsType DEF Opens
  <2>2. QED
    BY <1>2, <2>1 DEF Opens, StoreTypeOK
<1>3. ASSUME NEW w \in Workers, Updates(w)
      PROVE  StoreTypeOK'
  <2>1. /\ pc' \in [Workers -> {"idle", "opened", "written", "committed"}]
        /\ job' \in [Workers -> Job]
    BY <1>3, JobFields, TurnsType DEF Updates
  <2>2. /\ [entity[job[w].entity] EXCEPT !.row = job[w].row] \in EntityRow
        /\ entity' = [entity EXCEPT ![job[w].entity] =
                        [entity[job[w].entity] EXCEPT !.row = job[w].row]]
    BY <1>3, JobFields DEF Updates, StoreTypeOK, EntityRow
  <2>3. entity' \in [Entities -> EntityRow]
    BY <2>2 DEF StoreTypeOK
  <2>4. wanted' \in [Entities -> Row]
    <3>1. job[w].row[job[w].column] \in Values
      BY JobFields DEF Row
    <3>2. [wanted[job[w].entity] EXCEPT ![job[w].column] = job[w].row[job[w].column]] \in Row
      BY <3>1, JobFields DEF StoreTypeOK, Row
    <3>3. wanted' = [wanted EXCEPT ![job[w].entity] =
            [wanted[job[w].entity] EXCEPT ![job[w].column] = job[w].row[job[w].column]]]
      BY <1>3, JobFields DEF Updates, StoreTypeOK
    <3>4. QED
      BY <3>2, <3>3 DEF StoreTypeOK
  <2>5. QED
    BY <1>3, <2>1, <2>3, <2>4 DEF Updates, StoreTypeOK
<1>4. ASSUME NEW w \in Workers, Deletes(w)
      PROVE  StoreTypeOK'
  <2>1. /\ pc' \in [Workers -> {"idle", "opened", "written", "committed"}]
        /\ job' \in [Workers -> Job]
    BY <1>4, JobFields, TurnsType DEF Deletes
  <2>2. /\ [entity[job[w].entity] EXCEPT !.state = "deleted"] \in EntityRow
        /\ entity' = [entity EXCEPT ![job[w].entity] =
                        [entity[job[w].entity] EXCEPT !.state = "deleted"]]
    BY <1>4, JobFields DEF Deletes, StoreTypeOK, EntityRow
  <2>3. QED
    BY <1>4, <2>1, <2>2 DEF Deletes, StoreTypeOK
<1>5. ASSUME NEW w \in Workers, NEW ev \in Event, Commits(w, ev)
      PROVE  StoreTypeOK'
  <2>1. [job[w] EXCEPT !.outbox = <<ev>>] \in Job
    BY JobOutbox
  <2>2. /\ pc' \in [Workers -> {"idle", "opened", "written", "committed"}]
        /\ job' \in [Workers -> Job]
    BY <1>5, <2>1, TurnsType DEF Commits
  <2>3. stored' \subseteq Event /\ IsFiniteSet(stored')
    <3>1. IsFiniteSet(stored \cup {ev})
      BY FS_AddElement DEF StoreTypeOK
    <3>2. QED
      BY <1>5, <3>1 DEF Commits, StoreTypeOK
  <2>4. version' \in [Entities -> Nat] /\ cleared' \in [Entities -> Nat]
    <3>1. Cardinality(Sets(job[w].entity)) \in Nat
      BY FS_Subset, FS_CardinalityType DEF StoreTypeOK, Sets
    <3>2. QED
      BY <1>5, <3>1 DEF Commits, StoreTypeOK
  <2>5. QED
    BY <1>5, <2>2, <2>3, <2>4 DEF Commits, StoreTypeOK
<1>6. ASSUME NEW w \in Workers, Publishes(w)
      PROVE  StoreTypeOK'
  <2>1. Head(job[w].outbox) \in Event /\ Tail(job[w].outbox) \in Seq(Event)
    BY <1>6, JobFields DEF Publishes
  <2>2. [job[w] EXCEPT !.outbox = Tail(@)] \in Job
    BY <2>1, JobFields DEF Job
  <2>3. /\ pc' \in [Workers -> {"idle", "opened", "written", "committed"}]
        /\ job' \in [Workers -> Job]
    BY <1>6, <2>2, TurnsType DEF Publishes
  <2>4. stored' \subseteq Event /\ IsFiniteSet(stored')
    <3>1. IsFiniteSet(stored \cup {Head(job[w].outbox)})
      BY FS_AddElement DEF StoreTypeOK
    <3>2. stored' = stored \cup {Head(job[w].outbox)} \/ stored' = stored
      BY <1>6 DEF Publishes, Publish
    <3>3. QED
      BY <2>1, <3>1, <3>2 DEF StoreTypeOK
  <2>5. QED
    BY <1>6, <2>3, <2>4 DEF Publishes, StoreTypeOK
<1>7. CASE Stops
  BY <1>7 DEF Stops, StoreTypeOK
<1>8. CASE UNCHANGED vars
  BY <1>8 DEF StoreTypeOK
<1>9. QED
  BY <1>1, <1>2, <1>3, <1>4, <1>5, <1>6, <1>7, <1>8, StepsOfStore

\* Every reachable state of the entity service has the types of its tables.
THEOREM StoreTypeCorrect == Spec => []StoreTypeOK
<1>1. Init => StoreTypeOK
  <2> SUFFICES ASSUME Init
               PROVE  StoreTypeOK
    OBVIOUS
  <2>1. entity \in [Entities -> EntityRow]
    BY NewRowIsRow DEF Init, EntityRow
  <2>2. stored = {} /\ IsFiniteSet({})
    BY FS_EmptySet DEF Init, InitBus
  <2>3. QED
    BY <2>1, <2>2, IdleIsJob, NewRowIsRow DEF Init, StoreTypeOK
<1>2. StoreTypeOK /\ [Next]_vars => StoreTypeOK'
  BY StoreTypeStep
<1>3. QED
  BY <1>1, <1>2, PTL DEF Spec

-----------------------------------------------------------------------------
(* What subscribers hear *)

Told(ev) == ev \in stored \/ ev.type = "component.removed"

\* What a handler is about to publish is in the store.
OutboxTold ==
    \A w \in Workers :
      pc[w] = "committed" => \A i \in DOMAIN job[w].outbox : Told(job[w].outbox[i])

HeardInv == OutboxTold /\ HeardIsStored

\* So is the event a handler publishes next.
LEMMA HeadIsTold ==
  ASSUME StoreTypeOK, HeardInv, NEW w \in Workers, Publishes(w)
  PROVE  /\ Told(Head(job[w].outbox))
         /\ Tail(job[w].outbox) \in Seq(Event)
         /\ \A i \in DOMAIN Tail(job[w].outbox) : Told(Tail(job[w].outbox)[i])
<1> DEFINE out == job[w].outbox
<1>1. out \in Seq(Event) /\ out # <<>>
  BY JobFields DEF Publishes
<1>2. pc[w] = "committed" /\ \A i \in DOMAIN out : Told(out[i])
  BY DEF Publishes, HeardInv, OutboxTold
<1> HIDE DEF out
<1>3. /\ Head(out) = out[1] /\ 1 \in DOMAIN out
      /\ Tail(out) \in Seq(Event)
      /\ \A i \in DOMAIN Tail(out) : Tail(out)[i] = out[i + 1] /\ i + 1 \in DOMAIN out
  BY <1>1
<1>4. /\ Told(Head(out))
      /\ Tail(out) \in Seq(Event)
      /\ \A i \in DOMAIN Tail(out) : Told(Tail(out)[i])
  BY <1>2, <1>3
<1>5. QED
  BY <1>4 DEF out

\* The store only grows, and every handler gets in its outbox what is stored.
LEMMA HeardStep ==
  ASSUME StoreTypeOK, HeardInv, [Next]_vars
  PROVE  HeardInv'
<1>a. OutboxTold /\ HeardIsStored
  BY DEF HeardInv
<1>1. ASSUME NEW w \in Workers, NEW e \in Entities, Creates(w, e)
      PROVE  HeardInv'
  <2>1. PICK work \in Job :
          /\ Turns(w, "committed", work)
          /\ \/ /\ work.outbox = <<Created(e)>>
                /\ stored' = stored \cup {Created(e)}
             \/ /\ work.outbox = <<Created(e), FirstSet(e)>>
                /\ stored' = stored \cup {Created(e), FirstSet(e)}
    BY <1>1 DEF Creates
  <2>2. \A i \in DOMAIN work.outbox : work.outbox[i] \in stored'
    BY <2>1
  <2>3. stored \subseteq stored'
    BY <2>1
  <2>4. /\ job'[w] = work
        /\ \A v \in Workers \ {w} : pc'[v] = pc[v] /\ job'[v] = job[v]
    BY <2>1, TurnsType
  <2>5. OutboxTold'
    BY <1>a, <2>2, <2>3, <2>4 DEF OutboxTold, Told
  <2>6. HeardIsStored'
    BY <1>1, <1>a, <2>3 DEF Creates, HeardIsStored
  <2>7. QED
    BY <2>5, <2>6 DEF HeardInv
<1>2. ASSUME NEW w \in Workers, Opens(w) \/ Updates(w) \/ Deletes(w)
      PROVE  HeardInv'
  <2>1. PICK work \in Job, at \in {"opened", "written"} : Turns(w, at, work)
    BY <1>2, JobFields DEF Opens, Updates, Deletes
  <2>2. /\ pc'[w] # "committed"
        /\ \A v \in Workers \ {w} : pc'[v] = pc[v] /\ job'[v] = job[v]
    BY <2>1, TurnsType
  <2>3. UNCHANGED busVars
    BY <1>2 DEF Opens, Updates, Deletes
  <2>4. QED
    BY <1>a, <2>2, <2>3 DEF HeardInv, OutboxTold, HeardIsStored, Told
<1>3. ASSUME NEW w \in Workers, NEW ev \in Event, Commits(w, ev)
      PROVE  HeardInv'
  <2>1. /\ [job[w] EXCEPT !.outbox = <<ev>>] \in Job
        /\ [job[w] EXCEPT !.outbox = <<ev>>].outbox = <<ev>>
    BY JobOutbox
  <2>2. /\ job'[w].outbox = <<ev>>
        /\ \A v \in Workers \ {w} : pc'[v] = pc[v] /\ job'[v] = job[v]
    BY <1>3, <2>1, TurnsType DEF Commits
  <2>3. stored \subseteq stored' /\ (ev \in stored' \/ ev.type = "component.removed")
    BY <1>3 DEF Commits
  <2>4. \A i \in DOMAIN <<ev>> : <<ev>>[i] = ev
    OBVIOUS
  <2>5. OutboxTold'
    BY <1>a, <2>2, <2>3, <2>4 DEF OutboxTold, Told
  <2>6. HeardIsStored'
    BY <1>3, <1>a, <2>3 DEF Commits, HeardIsStored
  <2>7. QED
    BY <2>5, <2>6 DEF HeardInv
<1>4. ASSUME NEW w \in Workers, Publishes(w)
      PROVE  HeardInv'
  <2> DEFINE out == job[w].outbox
  <2>2. /\ Told(Head(out))
        /\ Tail(out) \in Seq(Event)
        /\ \A i \in DOMAIN Tail(out) : Told(Tail(out)[i])
    BY <1>4, HeadIsTold
  <2>3. /\ stored \subseteq stored'
        /\ running' = running \cup {<<Head(out), s>> : s \in Matching(Head(out))}
        /\ handled' = handled
    BY <1>4 DEF Publishes, Publish
  <2>4. /\ [job[w] EXCEPT !.outbox = Tail(@)] \in Job
        /\ [job[w] EXCEPT !.outbox = Tail(@)].outbox = Tail(out)
    BY <2>2, JobFields DEF Job
  <2>5. /\ job'[w].outbox = Tail(out)
        /\ \A v \in Workers \ {w} : pc'[v] = pc[v] /\ job'[v] = job[v]
    BY <1>4, <2>4, TurnsType DEF Publishes
  <2> HIDE DEF out
  <2>6. OutboxTold'
    BY <1>a, <2>2, <2>3, <2>5 DEF OutboxTold, Told
  <2>7. HeardIsStored'
    BY <1>a, <2>2, <2>3 DEF HeardIsStored, Told
  <2>8. QED
    BY <2>6, <2>7 DEF HeardInv
<1>5. CASE Stops
  BY <1>5, <1>a DEF Stops, HeardInv, OutboxTold, HeardIsStored, Told
<1>6. CASE UNCHANGED vars
  BY <1>6, <1>a DEF HeardInv, OutboxTold, HeardIsStored, Told
<1>7. QED
  BY <1>1, <1>2, <1>3, <1>4, <1>5, <1>6, StepsOfStore

LEMMA Heard == Spec => []HeardInv
<1>1. Init => HeardInv
  BY DEF Init, InitBus, HeardInv, OutboxTold, HeardIsStored
<1>2. StoreTypeOK /\ HeardInv /\ [Next]_vars => HeardInv'
  BY HeardStep
<1>3. QED
  BY <1>1, <1>2, StoreTypeCorrect, PTL DEF Spec

(* Subscribers hear only of what is in the event store, the removal of a     *)
(* component apart, whichever handlers overlap, fail or die: services append *)
(* the event in their transaction and publish it after the commit.           *)
THEOREM SubscribersHearWhatIsStored == Spec => []HeardIsStored
<1>1. HeardInv => HeardIsStored
  BY DEF HeardInv
<1>2. QED
  BY <1>1, Heard, PTL

-----------------------------------------------------------------------------
(* Columns *)

\* Only an update changes columns; it writes back what it read of the others.
LEMMA ColumnsStep ==
  ASSUME StoreTypeOK, UpdatesKeepOtherColumns, [Next]_vars
  PROVE  UpdatesKeepOtherColumns'
<1>1. ASSUME NEW w \in Workers, NEW e \in Entities, Creates(w, e)
      PROVE  UpdatesKeepOtherColumns'
  <2>1. /\ entity' = [entity EXCEPT ![e] = [state |-> "live", row |-> NewRow]]
        /\ wanted' = [wanted EXCEPT ![e] = NewRow]
        /\ overwritten' = overwritten
    BY <1>1 DEF Creates
  <2>2. QED
    BY <2>1 DEF UpdatesKeepOtherColumns, StoreTypeOK
<1>2. ASSUME NEW w \in Workers, Updates(w)
      PROVE  UpdatesKeepOtherColumns'
  <2> DEFINE e == job[w].entity
             c == job[w].column
             row == job[w].row
  <2>1. e \in Entities /\ c \in Columns /\ row \in Row
    BY JobFields
  <2>2. /\ entity' = [entity EXCEPT ![e].row = row]
        /\ wanted' = [wanted EXCEPT ![e][c] = row[c]]
        /\ overwritten' = IF \E d \in Columns \ {c} : row[d] # entity[e].row[d]
                          THEN overwritten \cup {e} ELSE overwritten
    BY <1>2 DEF Updates
  <2> HIDE DEF e, c, row
  <2>3. ASSUME NEW x \in Entities \ overwritten'
        PROVE  entity'[x].row = wanted'[x]
    <3>1. x \notin overwritten /\ entity[x].row = wanted[x]
      BY <2>2, <2>3 DEF UpdatesKeepOtherColumns
    <3>2. CASE x # e
      BY <2>1, <2>2, <3>1, <3>2 DEF StoreTypeOK
    <3>3. CASE x = e
      <4>1. \A d \in Columns \ {c} : row[d] = wanted[e][d]
        BY <2>2, <2>3, <3>1, <3>3
      <4>2. wanted[e] \in Row
        BY <2>1 DEF StoreTypeOK
      <4>3. row = [wanted[e] EXCEPT ![c] = row[c]]
        BY <2>1, <4>1, <4>2 DEF Row
      <4>4. entity'[e].row = row /\ wanted'[e] = [wanted[e] EXCEPT ![c] = row[c]]
        BY <2>1, <2>2 DEF StoreTypeOK, EntityRow
      <4>5. QED
        BY <3>3, <4>3, <4>4
    <3>4. QED
      BY <3>2, <3>3
  <2>4. QED
    BY <2>3 DEF UpdatesKeepOtherColumns
<1>3. ASSUME NEW w \in Workers, Deletes(w)
      PROVE  UpdatesKeepOtherColumns'
  <2>1. /\ entity' = [entity EXCEPT ![job[w].entity].state = "deleted"]
        /\ UNCHANGED <<wanted, overwritten>>
    BY <1>3 DEF Deletes
  <2>2. \A x \in Entities : entity'[x].row = entity[x].row
    BY <2>1 DEF StoreTypeOK, EntityRow
  <2>3. QED
    BY <2>1, <2>2 DEF UpdatesKeepOtherColumns
<1>4. ASSUME NEW w \in Workers, NEW ev \in Event,
             Opens(w) \/ Commits(w, ev) \/ Publishes(w)
      PROVE  UpdatesKeepOtherColumns'
  <2>1. UNCHANGED <<entity, wanted, overwritten>>
    BY <1>4 DEF Opens, Commits, Publishes
  <2>2. QED
    BY <2>1 DEF UpdatesKeepOtherColumns
<1>5. CASE Stops
  BY <1>5 DEF Stops, UpdatesKeepOtherColumns
<1>6. CASE UNCHANGED vars
  BY <1>6 DEF UpdatesKeepOtherColumns
<1>7. ASSUME NEW w \in Workers, Opens(w) \/ Publishes(w)
      PROVE  UpdatesKeepOtherColumns'
  BY <1>7 DEF Opens, Publishes, UpdatesKeepOtherColumns
<1>8. QED
  BY <1>1, <1>2, <1>3, <1>4, <1>5, <1>6, <1>7, StepsOfStore

(* An update changes the columns its request names and no other, unless      *)
(* another update was committed since Update had read the row: it writes     *)
(* every column of its copy.                                                 *)
THEOREM OtherColumnsKept == Spec => []UpdatesKeepOtherColumns
<1>1. Init => UpdatesKeepOtherColumns
  BY DEF Init, UpdatesKeepOtherColumns
<1>2. StoreTypeOK /\ UpdatesKeepOtherColumns /\ [Next]_vars => UpdatesKeepOtherColumns'
  BY ColumnsStep
<1>3. QED
  BY <1>1, <1>2, StoreTypeCorrect, PTL DEF Spec

-----------------------------------------------------------------------------
(* Deletions *)

DeletionsOf(e) == {ev \in stored : ev.type = "entity.deleted" /\ ev.entity = e}

\* A handler that has deleted its entity and not yet stored the event.
Deleting(w) == pc[w] = "written" /\ job[w].op # "update"

\* Either one handler is about to record the deletion, or it is recorded.
DeleteInv ==
    /\ \A e \in Entities :
         /\ DeletionsOf(e) # {} => entity[e].state = "deleted"
         /\ \A a, b \in DeletionsOf(e) : a = b
    /\ \A w \in Workers :
         Deleting(w) => /\ entity[job[w].entity].state = "deleted"
                        /\ DeletionsOf(job[w].entity) = {}
    /\ \A v, w \in Workers :
         Deleting(v) /\ Deleting(w) /\ v # w => job[v].entity # job[w].entity

\* No deletion is added and no handler starts to record one.
LEMMA SameDeletions ==
  ASSUME DeleteInv,
         \A e \in Entities : DeletionsOf(e)' = DeletionsOf(e),
         \A e \in Entities : entity[e].state = "deleted" => entity'[e].state = "deleted",
         \A v \in Workers : Deleting(v)' => /\ Deleting(v) /\ job'[v].entity = job[v].entity
                                           /\ job[v].entity \in Entities
  PROVE  DeleteInv'
BY DEF DeleteInv

LEMMA DeleteStep ==
  ASSUME StoreTypeOK, HeardInv, DeleteInv, [Next]_vars
  PROVE  DeleteInv'
<1>a. \A v \in Workers : job[v].entity \in Entities
  BY JobFields
<1>1. ASSUME NEW w \in Workers, NEW e \in Entities, Creates(w, e)
      PROVE  DeleteInv'
  <2>1. PICK work \in Job : Turns(w, "committed", work)
    BY <1>1 DEF Creates
  <2>2. /\ pc'[w] = "committed"
        /\ \A v \in Workers \ {w} : pc'[v] = pc[v] /\ job'[v] = job[v]
    BY <2>1, TurnsType
  <2>3. stored' = stored \cup {Created(e)} \/ stored' = stored \cup {Created(e), FirstSet(e)}
    BY <1>1 DEF Creates
  <2>4. \A x \in Entities : DeletionsOf(x)' = DeletionsOf(x)
    BY <2>3 DEF DeletionsOf, Created, FirstSet
  <2>5. \A x \in Entities : entity[x].state = "deleted" => entity'[x].state = "deleted"
    BY <1>1 DEF Creates, StoreTypeOK
  <2>6. \A v \in Workers : Deleting(v)' => Deleting(v) /\ job'[v].entity = job[v].entity
    BY <2>2 DEF Deleting
  <2>7. QED
    BY <1>a, <2>4, <2>5, <2>6, SameDeletions
<1>2. ASSUME NEW w \in Workers, Opens(w) \/ Updates(w)
      PROVE  DeleteInv'
  <2>1. PICK work \in Job, at \in {"opened", "written"} :
          Turns(w, at, work) /\ (at = "opened" \/ work.op = "update")
    BY <1>2, JobFields DEF Opens, Updates
  <2>2. /\ pc'[w] = at /\ job'[w] = work
        /\ \A v \in Workers \ {w} : pc'[v] = pc[v] /\ job'[v] = job[v]
    BY <2>1, TurnsType
  <2>3. stored' = stored
    BY <1>2 DEF Opens, Updates
  <2>4. \A x \in Entities : DeletionsOf(x)' = DeletionsOf(x)
    BY <2>3 DEF DeletionsOf
  <2>5. \A x \in Entities : entity'[x].state = entity[x].state
    <3>1. CASE entity' = entity
      BY <3>1
    <3>2. CASE entity' = [entity EXCEPT ![job[w].entity].row = job[w].row]
      BY <3>2 DEF StoreTypeOK, EntityRow
    <3>3. QED
      BY <1>2, <3>1, <3>2 DEF Opens, Updates
  <2>6. \A v \in Workers : Deleting(v)' => Deleting(v) /\ job'[v].entity = job[v].entity
    BY <2>1, <2>2 DEF Deleting
  <2>7. QED
    BY <1>a, <2>4, <2>5, <2>6, SameDeletions
<1>3. ASSUME NEW w \in Workers, Deletes(w)
      PROVE  DeleteInv'
  <2> DEFINE e == job[w].entity
  <2>1. /\ e \in Entities /\ entity[e].state = "live"
        /\ entity' = [entity EXCEPT ![e].state = "deleted"]
        /\ stored' = stored
    BY <1>3, <1>a DEF Deletes
  <2>2. /\ job' = job
        /\ \A v \in Workers \ {w} : pc'[v] = pc[v]
    BY <1>3, JobFields DEF Deletes, Turns, StoreTypeOK
  <2> HIDE DEF e
  <2>3. \A x \in Entities : /\ DeletionsOf(x)' = DeletionsOf(x)
                            /\ entity[x].state = "deleted" => entity'[x].state = "deleted"
    BY <2>1 DEF DeletionsOf, StoreTypeOK
  <2>4. entity'[e].state = "deleted" /\ DeletionsOf(e) = {}
    BY <2>1 DEF StoreTypeOK, EntityRow, DeleteInv
  <2>5. \A v \in Workers \ {w} : Deleting(v)' => Deleting(v) /\ job[v].entity # e
    BY <2>1, <2>2 DEF Deleting, DeleteInv
  <2>6. QED
    BY <1>a, <2>2, <2>3, <2>4, <2>5 DEF DeleteInv, e
<1>4. ASSUME NEW w \in Workers, NEW ev \in Event, Commits(w, ev)
      PROVE  DeleteInv'
  <2>1. /\ pc'[w] = "committed"
        /\ \A v \in Workers \ {w} : pc'[v] = pc[v] /\ job'[v] = job[v]
    BY <1>4, JobOutbox, TurnsType DEF Commits
  <2>2. \A v \in Workers : Deleting(v)' =>
          v # w /\ Deleting(v) /\ job'[v].entity = job[v].entity
    BY <2>1 DEF Deleting
  <2>3. entity' = entity
    BY <1>4 DEF Commits
  <2>4. CASE ev.type # "entity.deleted"
    <3>1. \A x \in Entities : DeletionsOf(x)' = DeletionsOf(x)
      BY <1>4, <2>4 DEF Commits, DeletionsOf
    <3>2. QED
      BY <1>a, <2>2, <2>3, <3>1, SameDeletions
  <2>5. CASE ev.type = "entity.deleted"
    <3>1. Deleting(w) /\ stored' = stored \cup {ev} /\ ev.entity = job[w].entity
      BY <1>4, <2>5 DEF Commits, Deleting, EventOf
    <3>2. entity[ev.entity].state = "deleted" /\ DeletionsOf(ev.entity) = {}
      BY <3>1 DEF DeleteInv
    <3>3. /\ DeletionsOf(ev.entity)' = {ev}
          /\ \A x \in Entities \ {ev.entity} : DeletionsOf(x)' = DeletionsOf(x)
      BY <2>5, <3>1, <3>2 DEF DeletionsOf
    <3>4. \A v \in Workers : Deleting(v)' => job[v].entity # ev.entity
      BY <2>2, <3>1 DEF DeleteInv
    <3>5. QED
      BY <1>a, <2>2, <2>3, <3>2, <3>3, <3>4 DEF DeleteInv
  <2>6. QED
    BY <2>4, <2>5
<1>5. ASSUME NEW w \in Workers, Publishes(w)
      PROVE  DeleteInv'
  <2>1. PICK work \in Job : Turns(w, "committed", work)
    <3>1. Tail(job[w].outbox) \in Seq(Event)
      BY <1>5, JobFields DEF Publishes
    <3>2. [job[w] EXCEPT !.outbox = Tail(@)] \in Job
      BY <3>1, JobFields DEF Job
    <3>3. QED
      BY <1>5, <3>2 DEF Publishes
  <2>2. /\ pc'[w] = "committed"
        /\ \A v \in Workers \ {w} : pc'[v] = pc[v] /\ job'[v] = job[v]
    BY <2>1, TurnsType
  <2>3. \A x \in Entities : DeletionsOf(x)' = DeletionsOf(x)
    <3>1. Told(Head(job[w].outbox))
      BY <1>5, HeadIsTold
    <3>2. stored' = stored \cup {Head(job[w].outbox)} \/ stored' = stored
      BY <1>5 DEF Publishes, Publish
    <3>3. QED
      BY <3>1, <3>2 DEF Told, DeletionsOf
  <2>4. entity' = entity
    BY <1>5 DEF Publishes
  <2>5. \A v \in Workers : Deleting(v)' => Deleting(v) /\ job'[v].entity = job[v].entity
    BY <2>2 DEF Deleting
  <2>6. QED
    BY <1>a, <2>3, <2>4, <2>5, SameDeletions
<1>6. CASE Stops
  <2>1. stored' = stored /\ entity' = entity
    BY <1>6 DEF Stops
  <2>2. \A v \in Workers : Deleting(v)' => Deleting(v) /\ job'[v].entity = job[v].entity
    BY <1>6 DEF Stops, Deleting
  <2>3. QED
    BY <1>a, <2>1, <2>2, SameDeletions DEF DeletionsOf
<1>7. CASE UNCHANGED vars
  BY <1>7, <1>a, SameDeletions DEF DeletionsOf, Deleting
<1>8. QED
  BY <1>1, <1>2, <1>3, <1>4, <1>5, <1>6, <1>7, StepsOfStore

(* A deletion is recorded once, however many handlers delete the entity at   *)
(* the same time: the UPDATE of SoftDelete matches only a row that is live.  *)
THEOREM DeletionsAreSingle == Spec => []DeletedOnce
<1>1. Init => DeleteInv
  BY DEF Init, InitBus, DeleteInv, DeletionsOf, Deleting
<1>2. StoreTypeOK /\ HeardInv /\ DeleteInv /\ [Next]_vars => DeleteInv'
  BY DeleteStep
<1>3. DeleteInv => DeletedOnce
  <2> SUFFICES ASSUME DeleteInv, NEW e \in Entities
               PROVE  /\ Cardinality(DeletionsOf(e)) <= 1
                      /\ DeletionsOf(e) # {} => entity[e].state = "deleted"
    BY DEF DeletedOnce, DeletionsOf
  <2>1. CASE DeletionsOf(e) = {}
    BY <2>1, FS_EmptySet
  <2>2. CASE DeletionsOf(e) # {}
    <3>1. PICK ev \in DeletionsOf(e) : DeletionsOf(e) = {ev}
      <4>1. \A a, b \in DeletionsOf(e) : a = b
        BY DEF DeleteInv
      <4> HIDE DEF DeletionsOf
      <4>2. QED
        BY <2>2, <4>1
    <3>2. Cardinality({ev}) = 1
      BY FS_Singleton
    <3>3. QED
      BY <3>1, <3>2 DEF DeleteInv
  <2>3. QED
    BY <2>1, <2>2
<1>4. QED
  BY <1>1, <1>2, <1>3, StoreTypeCorrect, Heard, PTL DEF Spec

-----------------------------------------------------------------------------
(* Versions *)

Opened(w) == pc[w] = "opened"

\* A request is identified by its id: none that is open has stored its event.
FreshIds ==
    /\ \A ev \in stored : ev.type = "component.set" => ev.request <= issued
    /\ \A w \in Workers :
         Opened(w) => /\ job[w].id <= issued
                      /\ entity[job[w].entity].state # "absent"
                      /\ \A ev \in stored :
                           ev.type = "component.set" => ev.request # job[w].id
    /\ \A v, w \in Workers : Opened(v) /\ Opened(w) /\ v # w => job[v].id # job[w].id

VersionInv ==
    /\ FreshIds
    /\ \A e \in Entities : /\ entity[e].state = "absent" => version[e] = 0
                           /\ Cardinality(Sets(e)) = cleared[e] + version[e]

\* No upsert is stored, no entity disappears and no request is opened.
LEMMA SameVersions ==
  ASSUME StoreTypeOK, VersionInv,
         issued' \in Nat, issued' >= issued,
         \A ev : ev.type = "component.set" => (ev \in stored' <=> ev \in stored),
         \A e \in Entities :
           /\ entity'[e].state = "absent" => entity[e].state = "absent"
           /\ version'[e] = version[e] /\ cleared'[e] = cleared[e],
         \A v \in Workers : Opened(v)' => Opened(v) /\ job'[v] = job[v]
  PROVE  VersionInv'
<1>1. \A e \in Entities : Sets(e)' = Sets(e)
  BY DEF Sets
<1>2. \A v \in Workers : job[v].entity \in Entities /\ job[v].id \in Nat
  BY JobFields
<1>3. \A ev \in stored : ev.request \in Nat
  BY DEF StoreTypeOK, Event
<1>4. FreshIds'
  <2>1. \A ev \in stored' : ev.type = "component.set" => ev.request <= issued'
    BY <1>3 DEF VersionInv, FreshIds, StoreTypeOK
  <2>2. \A v \in Workers : Opened(v)' =>
          /\ job'[v].id <= issued'
          /\ entity'[job'[v].entity].state # "absent"
          /\ \A ev \in stored' : ev.type = "component.set" => ev.request # job'[v].id
    BY <1>2 DEF VersionInv, FreshIds, StoreTypeOK
  <2>3. \A v, u \in Workers : Opened(v)' /\ Opened(u)' /\ v # u => job'[v].id # job'[u].id
    BY DEF VersionInv, FreshIds
  <2>4. QED
    BY <2>1, <2>2, <2>3 DEF FreshIds
<1>5. QED
  BY <1>1, <1>4 DEF VersionInv

\* The event of an upsert is new, so that it counts.
LEMMA OneMoreSet ==
  ASSUME StoreTypeOK, NEW ev \in Event, ev \notin stored, ev.type = "component.set",
         \A x : x.type = "component.set" => (x \in stored' <=> x \in stored \cup {ev})
  PROVE  /\ Cardinality(Sets(ev.entity)') = Cardinality(Sets(ev.entity)) + 1
         /\ \A e \in Entities \ {ev.entity} : Sets(e)' = Sets(e)
<1>1. Sets(ev.entity)' = Sets(ev.entity) \cup {ev} /\ ev \notin Sets(ev.entity)
  BY DEF Sets
<1>2. IsFiniteSet(Sets(ev.entity))
  BY FS_Subset DEF Sets, StoreTypeOK
<1>3. QED
  BY <1>1, <1>2, FS_AddElement DEF Sets

LEMMA VersionStep ==
  ASSUME StoreTypeOK, HeardInv, VersionInv, [Next]_vars
  PROVE  VersionInv'
<1>a. /\ \A v \in Workers : job[v].entity \in Entities /\ job[v].id \in Nat
      /\ issued \in Nat
      /\ \A ev \in stored : ev.request \in Nat
  BY JobFields DEF StoreTypeOK, Event
<1>1. ASSUME NEW w \in Workers, NEW e \in Entities, Creates(w, e)
      PROVE  VersionInv'
  <2>1. PICK work \in Job : Turns(w, "committed", work)
    BY <1>1 DEF Creates
  <2>2. /\ pc'[w] = "committed"
        /\ \A v \in Workers \ {w} : pc'[v] = pc[v] /\ job'[v] = job[v]
    BY <2>1, TurnsType
  <2>3. \A v \in Workers : Opened(v)' => Opened(v) /\ job'[v] = job[v]
    BY <2>2 DEF Opened
  <2>4. /\ issued' = issued + 1 /\ cleared' = cleared
        /\ entity[e].state = "absent" /\ version[e] = 0
        /\ \A x \in Entities : entity'[x].state = "absent" => x # e /\ entity[x].state = "absent"
    BY <1>1 DEF Creates, VersionInv, StoreTypeOK
  <2>5. CASE /\ stored' = stored \cup {Created(e)}
             /\ version' = [version EXCEPT ![e] = 0]
    <3>1. \A ev : ev.type = "component.set" => (ev \in stored' <=> ev \in stored)
      BY <2>5 DEF Created
    <3>2. \A x \in Entities : version'[x] = version[x]
      BY <2>4, <2>5 DEF StoreTypeOK
    <3>3. issued' \in Nat /\ issued' >= issued
      BY <1>a, <2>4
    <3>4. QED
      BY <2>3, <2>4, <3>1, <3>2, <3>3, SameVersions
  <2>6. CASE /\ stored' = stored \cup {Created(e), FirstSet(e)}
             /\ version' = [version EXCEPT ![e] = 1]
    <3> DEFINE ev == FirstSet(e)
    <3>1. ev \in Event /\ ev.type = "component.set" /\ ev.entity = e /\ ev.request = issued + 1
      BY <1>a, EntityStoreAssumption DEF FirstSet, Event
    <3>2. \A x : x.type = "component.set" => (x \in stored' <=> x \in stored \cup {ev})
      BY <2>6 DEF Created
    <3>3. ev \notin stored
      BY <1>a, <3>1 DEF VersionInv, FreshIds
    <3> HIDE DEF ev
    <3>4. /\ Cardinality(Sets(e)') = Cardinality(Sets(e)) + 1
          /\ \A x \in Entities \ {e} : Sets(x)' = Sets(x)
      BY <3>1, <3>2, <3>3, OneMoreSet
    <3>5. ASSUME NEW x \in Entities
          PROVE  /\ entity'[x].state = "absent" => version'[x] = 0
                 /\ Cardinality(Sets(x)') = cleared'[x] + version'[x]
      <4>1. version'[e] = 1 /\ (x # e => version'[x] = version[x]) /\ cleared[x] \in Nat
        BY <2>6 DEF StoreTypeOK
      <4>2. /\ entity[x].state = "absent" => version[x] = 0
            /\ Cardinality(Sets(x)) = cleared[x] + version[x]
        BY DEF VersionInv
      <4>3. CASE x = e
        BY <2>4, <3>4, <4>1, <4>2, <4>3
      <4>4. CASE x # e
        BY <2>4, <3>4, <4>1, <4>2, <4>4
      <4>5. QED
        BY <4>3, <4>4
    <3>6. FreshIds'
      <4>1. \A x \in stored' : x.type = "component.set" => x.request <= issued'
        BY <1>a, <2>4, <3>1, <3>2 DEF VersionInv, FreshIds
      <4>2. \A v \in Workers : Opened(v)' =>
              /\ job'[v].id <= issued'
              /\ entity'[job'[v].entity].state # "absent"
              /\ \A x \in stored' : x.type = "component.set" => x.request # job'[v].id
        BY <1>a, <2>3, <2>4, <3>1, <3>2 DEF VersionInv, FreshIds
      <4>3. \A v, u \in Workers : Opened(v)' /\ Opened(u)' /\ v # u => job'[v].id # job'[u].id
        BY <2>3 DEF VersionInv, FreshIds
      <4>4. QED
        BY <4>1, <4>2, <4>3 DEF FreshIds
    <3>7. QED
      BY <3>5, <3>6 DEF VersionInv
  <2>7. QED
    BY <1>1, <2>5, <2>6 DEF Creates
<1>2. ASSUME NEW w \in Workers, Opens(w)
      PROVE  VersionInv'
  <2>1. PICK work \in Job : /\ Turns(w, "opened", work)
                            /\ work.id = issued + 1
                            /\ entity[work.entity].state = "live"
    BY <1>2 DEF Opens
  <2>2. /\ job'[w] = work
        /\ \A v \in Workers \ {w} : pc'[v] = pc[v] /\ job'[v] = job[v]
    BY <2>1, TurnsType
  <2>3. UNCHANGED <<stored, entity, version, cleared>> /\ issued' = issued + 1
    BY <1>2 DEF Opens
  <2>4. \A x \in stored' : x.type = "component.set" => x.request <= issued'
    BY <1>a, <2>3 DEF VersionInv, FreshIds
  <2>5. \A v \in Workers : Opened(v)' =>
          /\ job'[v].id <= issued'
          /\ entity'[job'[v].entity].state # "absent"
          /\ \A x \in stored' : x.type = "component.set" => x.request # job'[v].id
    BY <1>a, <2>1, <2>2, <2>3 DEF VersionInv, FreshIds, Opened
  <2>6. \A v, u \in Workers : Opened(v)' /\ Opened(u)' /\ v # u => job'[v].id # job'[u].id
    <3>1. \A v \in Workers \ {w} : Opened(v)' => Opened(v) /\ job'[v] = job[v] /\ job[v].id <= issued
      BY <2>2 DEF VersionInv, FreshIds, Opened
    <3>2. job'[w].id = issued + 1
      BY <2>1, <2>2
    <3>3. \A v, u \in Workers : Opened(v) /\ Opened(u) /\ v # u => job[v].id # job[u].id
      BY DEF VersionInv, FreshIds
    <3>4. QED
      BY <1>a, <3>1, <3>2, <3>3
  <2>7. FreshIds'
    BY <2>4, <2>5, <2>6 DEF FreshIds
  <2>8. \A x \in Entities : Sets(x)' = Sets(x)
    BY <2>3 DEF Sets
  <2>9. QED
    BY <2>3, <2>7, <2>8 DEF VersionInv
<1>3. ASSUME NEW w \in Workers, Updates(w) \/ Deletes(w)
      PROVE  VersionInv'
  <2>1. Turns(w, "written", job[w]) /\ UNCHANGED <<stored, version, cleared, issued>>
    BY <1>3 DEF Updates, Deletes
  <2>2. \A v \in Workers : Opened(v)' => Opened(v) /\ job'[v] = job[v]
    BY <2>1, JobFields, TurnsType DEF Opened
  <2>3. \A x \in Entities : entity'[x].state = "absent" => entity[x].state = "absent"
    <3>1. CASE entity' = [entity EXCEPT ![job[w].entity].row = job[w].row]
      BY <3>1 DEF StoreTypeOK, EntityRow
    <3>2. CASE entity' = [entity EXCEPT ![job[w].entity].state = "deleted"]
      BY <3>2 DEF StoreTypeOK, EntityRow
    <3>3. QED
      BY <1>3, <3>1, <3>2 DEF Updates, Deletes
  <2>4. QED
    BY <1>a, <2>1, <2>2, <2>3, SameVersions
<1>4. ASSUME NEW w \in Workers, NEW ev \in Event, Commits(w, ev)
      PROVE  VersionInv'
  <2>e. PICK e \in Entities : e = job[w].entity
    BY <1>a
  <2>1. /\ pc'[w] = "committed"
        /\ \A v \in Workers \ {w} : pc'[v] = pc[v] /\ job'[v] = job[v]
    BY <1>4, JobOutbox, TurnsType DEF Commits
  <2>2. \A v \in Workers : Opened(v)' => v # w /\ Opened(v) /\ job'[v] = job[v]
    BY <2>1 DEF Opened
  <2>3. UNCHANGED <<entity, issued>>
    BY <1>4 DEF Commits
  <2>4. CASE pc[w] = "written"
    <3>1. /\ stored' = stored \cup {ev} /\ UNCHANGED <<version, cleared>>
          /\ ev.type # "component.set"
      BY <1>4, <2>4 DEF Commits
    <3>2. \A x : x.type = "component.set" => (x \in stored' <=> x \in stored)
      BY <3>1
    <3>3. QED
      BY <1>a, <2>2, <2>3, <3>1, <3>2, SameVersions
  <2>5. CASE pc[w] = "opened" /\ ev.type = "component.set"
    <3>1. /\ stored' = stored \cup {ev}
          /\ version' = [version EXCEPT ![e] = @ + 1] /\ cleared' = cleared
          /\ ev.entity = e /\ ev.request = job[w].id
      BY <1>4, <2>e, <2>5 DEF Commits, EventOf
    <3>2. ev \notin stored /\ job[w].id <= issued /\ entity[e].state # "absent"
      BY <2>5, <2>e, <3>1 DEF VersionInv, FreshIds, Opened
    <3>3. /\ Cardinality(Sets(e)') = Cardinality(Sets(e)) + 1
          /\ \A x \in Entities \ {e} : Sets(x)' = Sets(x)
      <4>1. \A x : x.type = "component.set" => (x \in stored' <=> x \in stored \cup {ev})
        BY <3>1
      <4>2. QED
        BY <2>5, <3>1, <3>2, <4>1, OneMoreSet
    <3>4. ASSUME NEW x \in Entities
          PROVE  /\ entity'[x].state = "absent" => version'[x] = 0
                 /\ Cardinality(Sets(x)') = cleared'[x] + version'[x]
      <4>1. /\ version'[e] = version[e] + 1 /\ (x # e => version'[x] = version[x])
            /\ cleared[x] \in Nat /\ version[e] \in Nat
        BY <2>3, <3>1 DEF StoreTypeOK
      <4>2. /\ entity[x].state = "absent" => version[x] = 0
            /\ Cardinality(Sets(x)) = cleared[x] + version[x]
        BY DEF VersionInv
      <4>3. CASE x = e
        BY <2>3, <3>1, <3>2, <3>3, <4>1, <4>2, <4>3
      <4>4. CASE x # e
        BY <2>3, <3>1, <3>3, <4>1, <4>2, <4>4
      <4>5. QED
        BY <4>3, <4>4
    <3>5. FreshIds'
      <4>1. \A x \in stored' : x.type = "component.set" => x.request <= issued'
        BY <2>3, <3>1, <3>2 DEF VersionInv, FreshIds
      <4>2. \A v \in Workers : Opened(v)' =>
              /\ job'[v].id <= issued'
              /\ entity'[job'[v].entity].state # "absent"
              /\ \A x \in stored' : x.type = "component.set" => x.request # job'[v].id
        BY <2>2, <2>3, <2>5, <3>1 DEF VersionInv, FreshIds, Opened
      <4>3. \A v, u \in Workers : Opened(v)' /\ Opened(u)' /\ v # u => job'[v].id # job'[u].id
        BY <2>2 DEF VersionInv, FreshIds
      <4>4. QED
        BY <4>1, <4>2, <4>3 DEF FreshIds
    <3>6. QED
      BY <3>4, <3>5 DEF VersionInv
  <2>6. CASE pc[w] = "opened" /\ ev.type = "component.removed"
    <3>1. /\ stored' = stored
          /\ version' = [version EXCEPT ![e] = 0]
          /\ cleared' = [cleared EXCEPT ![e] = Cardinality(Sets(e))]
      BY <1>4, <2>e, <2>6 DEF Commits
    <3>2. \A x \in Entities : Sets(x)' = Sets(x)
      BY <3>1 DEF Sets
    <3>3. Cardinality(Sets(e)) \in Nat
      BY FS_Subset, FS_CardinalityType DEF StoreTypeOK, Sets
    <3>4. ASSUME NEW x \in Entities
          PROVE  /\ entity'[x].state = "absent" => version'[x] = 0
                 /\ Cardinality(Sets(x)') = cleared'[x] + version'[x]
      BY <2>3, <3>1, <3>2, <3>3 DEF StoreTypeOK, VersionInv
    <3>5. FreshIds'
      BY <2>2, <2>3, <3>1 DEF VersionInv, FreshIds
    <3>6. QED
      BY <3>4, <3>5 DEF VersionInv
  <2>7. QED
    BY <1>4, <2>4, <2>5, <2>6 DEF Commits
<1>5. ASSUME NEW w \in Workers, Publishes(w)
      PROVE  VersionInv'
  <2>1. [job[w] EXCEPT !.outbox = Tail(@)] \in Job
    BY <1>5, HeadIsTold, JobFields DEF Job
  <2>2. /\ pc'[w] = "committed"
        /\ \A v \in Workers \ {w} : pc'[v] = pc[v] /\ job'[v] = job[v]
    BY <1>5, <2>1, TurnsType DEF Publishes
  <2>3. \A v \in Workers : Opened(v)' => Opened(v) /\ job'[v] = job[v]
    BY <2>2 DEF Opened
  <2>4. UNCHANGED <<entity, version, cleared, issued>>
    BY <1>5 DEF Publishes
  <2>5. \A x : x.type = "component.set" => (x \in stored' <=> x \in stored)
    <3>1. Told(Head(job[w].outbox))
      BY <1>5, HeadIsTold
    <3>2. stored' = stored \cup {Head(job[w].outbox)} \/ stored' = stored
      BY <1>5 DEF Publishes, Publish
    <3>3. QED
      BY <3>1, <3>2 DEF Told
  <2>6. QED
    BY <1>a, <2>3, <2>4, <2>5, SameVersions
<1>6. CASE Stops
  <2>1. UNCHANGED <<stored, entity, version, cleared, issued>>
    BY <1>6 DEF Stops
  <2>2. \A v \in Workers : Opened(v)' => Opened(v) /\ job'[v] = job[v]
    BY <1>6 DEF Stops, Opened
  <2>3. QED
    BY <1>a, <2>1, <2>2, SameVersions
<1>7. CASE UNCHANGED vars
  BY <1>7, <1>a, SameVersions DEF Opened
<1>8. QED
  BY <1>1, <1>2, <1>3, <1>4, <1>5, <1>6, <1>7, StepsOfStore

(* The version of a component is the number of component.set events stored   *)
(* since its last removal, for any number of handlers that overlap, fail and *)
(* die: SetComponentTx and AppendTx are in one transaction.                  *)
THEOREM VersionsLogged == Spec => []VersionsAreLogged
<1>1. Init => VersionInv
  <2> SUFFICES ASSUME Init
               PROVE  VersionInv
    OBVIOUS
  <2>1. \A e \in Entities : Sets(e) = {}
    BY DEF Init, InitBus, Sets
  <2>2. QED
    BY <2>1, FS_EmptySet DEF Init, InitBus, VersionInv, FreshIds, Opened
<1>2. StoreTypeOK /\ HeardInv /\ VersionInv /\ [Next]_vars => VersionInv'
  BY VersionStep
<1>3. StoreTypeOK /\ VersionInv => VersionsAreLogged
  BY DEF VersionInv, VersionsAreLogged, StoreTypeOK
<1>4. QED
  BY <1>1, <1>2, <1>3, StoreTypeCorrect, Heard, PTL DEF Spec

=============================================================================
