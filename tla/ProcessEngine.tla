--------------------------- MODULE ProcessEngine ---------------------------
(***************************************************************************)
(* The process engine.  Every event of an entity starts an instance of the *)
(* definition it triggers and then advances all active instances of the    *)
(* entity, in a goroutine of its own; an instance is read, its actions are *)
(* executed, and it is written back as a whole.  The definitions are kept  *)
(* in a map by trigger, beside the table that the visual builder writes.   *)
(* There is one entity.  A transition whose condition fails is not taken,  *)
(* so any transition for the event may be, or none.                        *)
(***************************************************************************)
EXTENDS Records

CONSTANTS
    Definitions,  \* the definitions that occur; those with one id are versions
    Loaded,       \* the definitions that are loaded from files at the start
    EventTypes

\* A definition is a record of its id, trigger, initial state and transitions.
ASSUME ProcessAssumption ==
    /\ Loaded \subseteq Definitions
    /\ \A d \in Definitions : d.id \in Nat \ {0} /\ \A tr \in d.transitions : tr.terminal \in BOOLEAN

\* It has a row in the table, and entries in the map of the engine.
DefinitionRow(id) == <<0, id>>
Engine == <<-1, 0>>

Defs == rows[Engine].defs

Instances == Rows("instance")

GetActive == {r \in Instances : rows[r].status = "active"}

-----------------------------------------------------------------------------
(* Definitions *)

RegisterDefinition(defs, d) == With(defs, d.trigger, d)

\* The map at the start of the server: the table is not read.
LoadedMap == [t \in {d.trigger : d \in Loaded} |-> CHOOSE d \in Loaded : d.trigger = t]

\* The table first, then the map; an inactive version stays in the map.
SaveDefinition(w, d, active) ==
    /\ Start(w, [op |-> IF active THEN "register" ELSE "publish", id |-> served + 1,
                 row |-> Engine, def |-> d, type |-> "saved"])
    /\ rows' = With(rows, DefinitionRow(d.id), [kind |-> "definition", def |-> d, active |-> active])
    /\ UNCHANGED <<stale, news>>

DeleteDefinition(w, r) ==
    /\ Start(w, [op |-> "unregister", id |-> served + 1, row |-> Engine, def |-> rows[r].def])
    /\ rows' = Without({r})
    /\ UNCHANGED <<stale, news>>

\* One entry of the deleted definition leaves the map, whichever comes first.
WriteMap(w) ==
    /\ \/ /\ At(w, "register")
          /\ rows' = [rows EXCEPT ![Engine].defs = RegisterDefinition(@, task[w].def)]
       \/ /\ At(w, "unregister")
          /\ \E t \in DOMAIN Defs :
                /\ Defs[t].id = task[w].def.id
                /\ rows' = [rows EXCEPT ![Engine].defs = [u \in DOMAIN @ \ {t} |-> @[u]]]
       \/ /\ At(w, "unregister")
          /\ \A t \in DOMAIN Defs : Defs[t].id # task[w].def.id
          /\ UNCHANGED rows
    /\ Finish(w)
    /\ UNCHANGED <<stale, news>>

\* The process dies and starts again.
Restart ==
    /\ Defs # LoadedMap
    /\ task' = [w \in Workers |-> Idle]
    /\ rows' = [rows EXCEPT ![Engine].defs = LoadedMap]
    /\ UNCHANGED <<served, stale, news>>

-----------------------------------------------------------------------------
(* Events *)

Received(op, event) == [op |-> op, id |-> served + 1, row |-> New, event |-> event]

\* From the bus, or from the endpoint that triggers an event by hand.
HandleEvent(w, event) ==
    /\ IF event \in DOMAIN Defs
       THEN Start(w, Updated(Received("start", event), [def |-> Defs[event]]))
       ELSE Start(w, Received("match", event))
    /\ UNCHANGED records

\* A new instance of a definition.
Instance(d) ==
    [kind |-> "instance", def |-> d.id, init |-> d.init, state |-> d.init, status |-> "active",
     history |-> <<>>]

\* When it cannot be stored, the handler goes on without it.
StartProcess(w) ==
    /\ At(w, "start")
    /\ LET t == task[w]
       IN /\ rows' \in {With(rows, t.row, Instance(t.def)), rows}
          /\ Continue(w, [t EXCEPT !.op = "match"])
    /\ UNCHANGED <<stale, news>>

\* The copies of all active instances, to be advanced one after the other.
ReadActive(w) ==
    /\ At(w, "match")
    /\ Continue(w, [op |-> "advance", id |-> task[w].id, row |-> task[w].row,
                    event |-> task[w].event, copies |-> [r \in GetActive |-> rows[r]]])
    /\ UNCHANGED records

\* Any version the map holds.
FindDefinition(id) == {Defs[t] : t \in {u \in DOMAIN Defs : Defs[u].id = id}}

Transitions(copy, event) ==
    UNION {{tr \in d.transitions : tr.from = copy.state /\ tr.event = event} :
              d \in FindDefinition(copy.def)}

Others(copies, r) == [x \in DOMAIN copies \ {r} |-> copies[x]]

\* The actions of the transition are executed before anything is written.
ExecuteActions(w) ==
    /\ At(w, "advance")
    /\ \E r \in DOMAIN task[w].copies :
          \E tr \in Transitions(task[w].copies[r], task[w].event) :
             /\ news' = news \cup {[type |-> "actions", row |-> r, id |-> task[w].id]}
             /\ Continue(w, [op |-> "update", id |-> task[w].id, row |-> r,
                             event |-> task[w].event, copies |-> task[w].copies, transition |-> tr])
    /\ UNCHANGED <<rows, stale>>

Advanced(copy, tr) ==
    [copy EXCEPT !.state = tr.to,
                 !.history = Append(@, [from |-> copy.state, to |-> tr.to]),
                 !.status = IF tr.terminal THEN "completed" ELSE @]

\* Mutant of UpdateInstance: the entry is appended to the history in the row.
UpdateInstanceAppending(w) ==
    /\ At(w, "update")
    /\ LET t == task[w]
           new == Advanced(t.copies[t.row], t.transition)
       IN /\ rows' = [rows EXCEPT ![t.row] =
                        [new EXCEPT !.history = Append(rows[t.row].history, new.history[Len(new.history)])]]
          /\ Continue(w, [op |-> "advance", id |-> t.id, row |-> t.row, event |-> t.event,
                          copies |-> Others(t.copies, t.row)])
    /\ UNCHANGED <<stale, news>>

\* State, status and history of the copy, advanced, replace those of the row.
UpdateInstance(w) ==
    /\ At(w, "update")
    /\ LET t == task[w]
       IN /\ rows' = [rows EXCEPT ![t.row] = Advanced(t.copies[t.row], t.transition)]
          /\ stale' = IF rows[t.row] = t.copies[t.row] THEN stale ELSE stale \cup {t.row}
          /\ Continue(w, [op |-> "advance", id |-> t.id, row |-> t.row, event |-> t.event,
                          copies |-> Others(t.copies, t.row)])
    /\ UNCHANGED news

\* The row cannot be written: the actions are done, the other copies follow.
UpdateFails(w) ==
    /\ At(w, "update")
    /\ LET t == task[w]
       IN Continue(w, [op |-> "advance", id |-> t.id, row |-> t.row, event |-> t.event,
                       copies |-> Others(t.copies, t.row)])
    /\ UNCHANGED records

\* No transition is left to take.
Handled(w) ==
    /\ At(w, "advance")
    /\ Finish(w)
    /\ UNCHANGED records

-----------------------------------------------------------------------------
DefinitionEndpoints(w) ==
    \/ \E d \in Definitions, active \in BOOLEAN : SaveDefinition(w, d, active)
    \/ \E r \in Rows("definition") : DeleteDefinition(w, r)

\* One instance of a loaded definition is active.
EngineRows ==
    LET d == CHOOSE d \in Loaded : TRUE
    IN [r \in {Engine, <<0, 0>>} |->
           IF r = Engine THEN [kind |-> "engine", defs |-> LoadedMap] ELSE Instance(d)]

ProcessNext ==
    \/ Restart
    \/ \E w \in Workers :
          \/ DefinitionEndpoints(w) \/ WriteMap(w)
          \/ \E event \in EventTypes : HandleEvent(w, event)
          \/ StartProcess(w) \/ ReadActive(w) \/ ExecuteActions(w) \/ UpdateInstance(w)
          \/ UpdateFails(w) \/ Handled(w)
          \/ Publish(w) \/ Abandon(w)

ProcessSpec == InitRecords(EngineRows) /\ [][ProcessNext]_recordVars

-----------------------------------------------------------------------------
(* Properties *)

\* The state after the first n entries of the history.
Reached(x, n) == IF n = 0 THEN x.init ELSE x.history[n].to

IsPath(x) ==
    /\ \A i \in DOMAIN x.history :
          \E d \in Definitions : \E tr \in d.transitions :
             /\ d.id = x.def /\ tr.from = Reached(x, i - 1)
             /\ x.history[i] = [from |-> tr.from, to |-> tr.to]
             /\ tr.terminal = (i = Len(x.history) /\ x.status = "completed")
    /\ x.state = Reached(x, Len(x.history))
    /\ x.history = <<>> => x.status = "active"

\* UpdateInstance (engine.go:171) writes state and history of one copy: however
\* many events overlap, the history is a path of transitions of the definition
\* from the initial state to the current one, completed by its last entry and
\* by no other when that is terminal.
HistoryIsAPath == \A r \in Instances : IsPath(rows[r])

=============================================================================
