------------------------------ MODULE EventBus ------------------------------
(***************************************************************************)
(* The event store and the in-process event bus (PersistentBus around      *)
(* LocalBus).                                                              *)
(*                                                                         *)
(* Services may append an event to the store in their own transaction;     *)
(* publishing appends it once more (a second row of the same event is      *)
(* skipped, and an error of the append is only logged) and then starts one *)
(* goroutine per matching subscriber, which nobody waits for.  Goroutines  *)
(* run in any order and die with the process.                              *)
(***************************************************************************)
EXTENDS Integers, FiniteSets

CONSTANTS
    Subscribers,   \* the handlers subscribed when the server starts
    Types,         \* the event types
    Interest,      \* the types each subscriber matches
    AppendMayFail  \* may the append of PersistentBus.Publish fail?

ASSUME EventBusAssumption ==
    /\ Interest \in [Subscribers -> SUBSET Types]
    /\ AppendMayFail \in BOOLEAN

VARIABLES
    stored,   \* the rows of the events table
    running,  \* the goroutines started and not finished: <<event, subscriber>>
    handled   \* the goroutines that finished

busVars == <<stored, running, handled>>

InitBus == stored = {} /\ running = {} /\ handled = {}

Matching(ev) == {s \in Subscribers : ev.type \in Interest[s]}

\* Mutant of Publish: an event that could not be appended is not dispatched.
PublishIfStored(ev, before) ==
    \/ /\ stored' = before \cup {ev}
       /\ running' = running \cup {<<ev, s>> : s \in Matching(ev)}
       /\ UNCHANGED handled
    \/ /\ AppendMayFail
       /\ stored' = before
       /\ UNCHANGED <<running, handled>>

\* PersistentBus.Publish, once the caller's transaction has left stored as in
\* "before".
Publish(ev, before) ==
    /\ stored' \in {before \cup {ev}} \cup (IF AppendMayFail THEN {before} ELSE {})
    /\ running' = running \cup {<<ev, s>> : s \in Matching(ev)}
    /\ UNCHANGED handled

\* A goroutine ends; the bus only logs an error of its handler.
EndHandler(ev, s) ==
    /\ <<ev, s>> \in running
    /\ running' = running \ {<<ev, s>>}
    /\ handled' = handled \cup {<<ev, s>>}
    /\ UNCHANGED stored

\* The process dies.
LoseHandlers == running' = {} /\ UNCHANGED <<stored, handled>>

=============================================================================
