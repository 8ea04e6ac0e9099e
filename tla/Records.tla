------------------------------ MODULE Records ------------------------------
(***************************************************************************)
(* The tables of the smaller services, and what a request does with them.  *)
(* A service reads a row through the pool, checks the copy, writes columns *)
(* in a later statement and then publishes an event; nothing holds the row *)
(* in between.  A row is known by the request that inserted it and a       *)
(* number; request 0 stands for what was there before.  The operations of  *)
(* the entity service, whose inside is in module EntityStore, are one step *)
(* each.                                                                   *)
(***************************************************************************)
EXTENDS Handlers, Sequences

VARIABLES
    rows,   \* every row, by its id
    stale,  \* history: rows written from a copy or a check that was outdated
    news    \* the events published

records == <<rows, stale, news>>
recordVars == <<work, records>>

Rows(kind) == {r \in DOMAIN rows : rows[r].kind = kind}

\* The id of the row that the request starting now will insert.
New == <<served + 1, 0>>

NoEvent == ""

\* The table with this row under id r, whether there was one or not.
With(table, r, row) == [x \in DOMAIN table \cup {r} |-> IF x = r THEN row ELSE table[x]]

Without(ids) == [x \in DOMAIN rows \ ids |-> rows[x]]

\* A row some columns of which are set.
Updated(row, columns) ==
    [c \in DOMAIN row \cup DOMAIN columns |->
        IF c \in DOMAIN columns THEN columns[c] ELSE row[c]]

InitRecords(initial) == InitWork /\ rows = initial /\ stale = {} /\ news = {}

-----------------------------------------------------------------------------
\* What is left to do: publish the event, if there is one.
Announcing(id, row, type) ==
    IF type = NoEvent THEN Idle
    ELSE [op |-> "publish", id |-> id, row |-> row, type |-> type]

\* A request has made its checks on row r and holds a copy, or on no row and
\* holds the row it will insert.
Plan(w, op, r, row) ==
    /\ Start(w, [op |-> op, id |-> served + 1, row |-> r, copy |-> row])
    /\ UNCHANGED records

Read(w, op, r) == Plan(w, op, r, rows[r])

\* The planned row is inserted; fresh says whether the checks still hold.
Insert(w, fresh, type) ==
    LET r == task[w].row
    IN /\ rows' = With(rows, r, task[w].copy)
       /\ stale' = IF fresh THEN stale ELSE stale \cup {r}
       /\ Continue(w, Announcing(task[w].id, r, type))
       /\ UNCHANGED news

\* An UPDATE that sets some columns; it does nothing when the row is gone.
Write(w, columns, type) ==
    LET r == task[w].row
    IN /\ IF r \in DOMAIN rows
          THEN /\ rows' = [rows EXCEPT ![r] = Updated(@, columns)]
               /\ stale' = IF rows[r] = task[w].copy THEN stale ELSE stale \cup {r}
          ELSE UNCHANGED <<rows, stale>>
       /\ Continue(w, Announcing(task[w].id, r, type))
       /\ UNCHANGED news

\* A request that is one statement: no copy is made, nothing is outdated.
Statement(w, newRows, row, type) ==
    /\ Start(w, Announcing(served + 1, row, type))
    /\ rows' = newRows
    /\ UNCHANGED <<stale, news>>

Add(w, row, type) == Statement(w, With(rows, New, row), New, type)

Set(w, r, columns, type) == Statement(w, [rows EXCEPT ![r] = Updated(@, columns)], r, type)

\* The components of an entity are set one after the other, each in a
\* transaction of its own.
SetParts(w, r, parts, type, newRows) ==
    /\ Start(w, [op |-> "parts", id |-> served + 1, row |-> r, parts |-> parts, type |-> type])
    /\ rows' = newRows
    /\ UNCHANGED <<stale, news>>

SetComponent(w) ==
    /\ At(w, "parts")
    /\ LET t == task[w]
       IN IF t.parts = <<>>
          THEN Continue(w, Announcing(t.id, t.row, t.type)) /\ UNCHANGED rows
          ELSE /\ t.row \in DOMAIN rows
               /\ rows' = [rows EXCEPT ![t.row].parts = @ \cup {Head(t.parts)}]
               /\ Continue(w, [t EXCEPT !.parts = Tail(@)])
    /\ UNCHANGED <<stale, news>>

Publish(w) ==
    /\ At(w, "publish")
    /\ news' = news \cup {[type |-> task[w].type, row |-> task[w].row, id |-> task[w].id]}
    /\ Finish(w)
    /\ UNCHANGED <<rows, stale>>

\* A query fails, a check refuses, or the process dies.
Abandon(w) ==
    /\ task[w].op # "idle"
    /\ Finish(w)
    /\ UNCHANGED records

RecordSteps(w) == SetComponent(w) \/ Publish(w) \/ Abandon(w)

\* The events of one type about row r.
Announced(r, type) == {n \in news : n.row = r /\ n.type = type}

=============================================================================
