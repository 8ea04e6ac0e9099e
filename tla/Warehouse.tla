------------------------------ MODULE Warehouse ------------------------------
(***************************************************************************)
(* The stock operations of the warehouse service, run by concurrent        *)
(* request handlers against one PostgreSQL database.                       *)
(*                                                                         *)
(* Every operation opens a transaction, but reads the stock row through    *)
(* the connection POOL, outside that transaction and without a lock,       *)
(* computes the new row in memory, and writes all its columns with an      *)
(* absolute upsert inside the transaction.  So a handler takes these steps *)
(*                                                                         *)
(*   read -> upsert (takes the row lock) -> commit -> publish its event    *)
(*                                                                         *)
(* and other handlers may commit between any two of them.  A transfer      *)
(* reads and upserts twice; Reserve and Unreserve publish before the       *)
(* commit.  An operation whose guard fails returns an error and changes    *)
(* nothing, so it is not a step.  A row of stock_levels is the record of   *)
(* its quantity, reserved and min_quantity columns, and "ledger" is what   *)
(* the committed stock_movements rows add up to for that (product,         *)
(* warehouse).                                                             *)
(***************************************************************************)
EXTENDS Integers, FiniteSets

CONSTANTS
    Workers,       \* the goroutines that serve requests
    NoWorker,      \* the holder of a free row lock
    Products,
    Warehouses,
    Amounts,       \* the positive quantities a request may carry
    MinQuantity,   \* the min_quantity of the seeded rows: no operation sets it
    OpeningStock,  \* bound on the quantity a row may hold initially
    MaxRequests,   \* bound on the number of requests served
    Enabled,       \* the operations the clients of this instance use
    ReadMayFail,   \* may the pool query of getOrCreateStockLevel fail?
    CrashAllowed   \* may the process die?

Key == Products \X Warehouses

Operations == {"receive", "ship", "transfer", "adjust", "reserve", "unreserve"}

ASSUME WarehouseAssumption ==
    /\ NoWorker \notin Workers
    /\ Key # {}
    /\ Amounts \subseteq Nat \ {0}
    /\ MinQuantity \in [Key -> Nat]
    /\ OpeningStock \in Nat
    /\ MaxRequests \in Nat
    /\ Enabled \subseteq Operations
    /\ ReadMayFail \in BOOLEAN
    /\ CrashAllowed \in BOOLEAN

VARIABLES
    stock,      \* the committed stock_levels rows
    present,    \* the keys that have a row
    ledger,     \* the sum of the committed stock_movements of each key
    lock,       \* which open transaction holds the row lock of each key
    pc,         \* where each handler is
    request,    \* the request each handler serves
    target,     \* the key whose row each handler read last
    draft,      \* the rows each open transaction writes
    delta,      \* what the movements of each open transaction add to a key
    announced,  \* has the handler published the event of its request?
    alerted,    \* the keys for which warehouse.stock.low was published
    overlooked, \* history: the keys whose look for low stock was lost
    issued,     \* the number of requests so far
    stale,      \* history: keys the handler read that were committed since
    blind,      \* history: the stale keys the last commit wrote
    tainted,    \* history: the stale keys any commit wrote
    overcounted \* history: keys an adjustment set below their reservations

database == <<stock, present, ledger>>
alerts   == <<alerted, overlooked>>
history  == <<blind, tainted, overcounted>>
vars == <<stock, present, ledger, lock, pc, request, target, draft, delta,
          announced, alerted, overlooked, issued, stale, blind, tainted,
          overcounted>>

-----------------------------------------------------------------------------
(* Rows *)

Row == [quantity : Int, reserved : Int, min : Nat]

EmptyRow == [quantity |-> 0, reserved |-> 0, min |-> 0]

NoDraft == [k \in Key |-> EmptyRow]

NoDelta == [k \in Key |-> 0]

Available(row) == row.quantity - row.reserved

Add(row, n) == [row EXCEPT !.quantity = @ + n]

\* Mutant of Shipped: the reservation is consumed without looking at its size.
ShippedUnconditionally(row, n) ==
    [row EXCEPT !.quantity = @ - n, !.reserved = @ - n]

\* Ship also consumes a reservation, whenever that much is reserved by anyone.
Shipped(row, n) ==
    [row EXCEPT !.quantity = @ - n,
                !.reserved = IF @ >= n THEN @ - n ELSE @]

Released(row, n) ==
    [row EXCEPT !.reserved = IF @ < n THEN 0 ELSE @ - n]

\* Mutant of GetOrCreate: the row made for a missing one lacks a column.
GetOrCreateBare(k) ==
    {[row |-> IF k \in present THEN stock[k] ELSE [quantity |-> 0],
      unread |-> FALSE]}

\* getOrCreateStockLevel takes EVERY error of the query for a missing row.
GetOrCreate(k) ==
    {[row |-> stock[k], unread |-> FALSE]}
      \cup (IF ReadMayFail THEN {[row |-> EmptyRow, unread |-> TRUE]} ELSE {})

AnyKey == CHOOSE k \in Key : TRUE

Idle == [op |-> "none", key |-> AnyKey, dest |-> AnyKey, amount |-> 0]

-----------------------------------------------------------------------------
(* The steps all operations share *)

Begin(w, op, k, d, n) ==
    /\ pc[w] = "idle"
    /\ op \in Enabled
    /\ issued < MaxRequests
    /\ issued' = issued + 1
    /\ request' = [request EXCEPT ![w] =
                     [op |-> op, key |-> k, dest |-> d, amount |-> n]]

\* The handler has read the row of k and computed the row it will write.
Prepare(w, k, row, diff, unread) ==
    /\ pc' = [pc EXCEPT ![w] = "toWrite"]
    /\ target' = [target EXCEPT ![w] = k]
    /\ draft' = [draft EXCEPT ![w][k] = row]
    /\ delta' = [delta EXCEPT ![w][k] = diff]
    /\ stale' = [stale EXCEPT ![w] = IF unread THEN @ \cup {k} ELSE @ \ {k}]
    /\ UNCHANGED <<database, lock, announced, alerts, history>>

\* Mutant of Leave: the transaction is left open, so its locks are kept.
LeaveLocked(w) ==
    /\ pc' = [pc EXCEPT ![w] = "idle"]
    /\ request' = [request EXCEPT ![w] = Idle]
    /\ draft' = [draft EXCEPT ![w] = NoDraft]
    /\ delta' = [delta EXCEPT ![w] = NoDelta]
    /\ stale' = [stale EXCEPT ![w] = {}]
    /\ announced' = [announced EXCEPT ![w] = FALSE]
    /\ target' = [target EXCEPT ![w] = AnyKey]
    /\ UNCHANGED <<database, lock, issued, history>>

\* The handler is done, or its transaction is rolled back: its locks are free.
Leave(w) ==
    /\ pc' = [pc EXCEPT ![w] = "idle"]
    /\ request' = [request EXCEPT ![w] = Idle]
    /\ draft' = [draft EXCEPT ![w] = NoDraft]
    /\ delta' = [delta EXCEPT ![w] = NoDelta]
    /\ stale' = [stale EXCEPT ![w] = {}]
    /\ announced' = [announced EXCEPT ![w] = FALSE]
    /\ lock' = [k \in Key |-> IF lock[k] = w THEN NoWorker ELSE lock[k]]
    /\ target' = [target EXCEPT ![w] = AnyKey]
    /\ UNCHANGED <<database, issued, history>>

-----------------------------------------------------------------------------
(* The reading half of each operation *)

Receive(w, k, n) ==
    /\ Begin(w, "receive", k, k, n)
    /\ \E seen \in GetOrCreate(k) :
         Prepare(w, k, Add(seen.row, n), n, seen.unread)

\* Mutant of Ship: the check of the available quantity is dropped.
ShipUnchecked(w, k, n) ==
    /\ k \in present
    /\ Begin(w, "ship", k, k, n)
    /\ Prepare(w, k, Shipped(stock[k], n), -n, FALSE)

Ship(w, k, n) ==
    /\ k \in present
    /\ Available(stock[k]) >= n
    /\ Begin(w, "ship", k, k, n)
    /\ Prepare(w, k, Shipped(stock[k], n), -n, FALSE)

Transfer(w, k, d, n) ==
    /\ k[1] = d[1]
    /\ k # d
    /\ k \in present
    /\ Available(stock[k]) >= n
    /\ Begin(w, "transfer", k, d, n)
    /\ Prepare(w, k, Add(stock[k], -n), -n, FALSE)

\* The second half of a transfer, once the source row is upserted.
TransferDestination(w) ==
    /\ pc[w] = "midway"
    /\ LET d == request[w].dest
           n == request[w].amount
       IN \E seen \in GetOrCreate(d) :
            Prepare(w, d, Add(seen.row, n), n, seen.unread)
    /\ UNCHANGED <<request, issued>>

\* Mutant of Adjust: the movement records the new quantity, not the change.
AdjustLogsQuantity(w, k, n) ==
    /\ Begin(w, "adjust", k, k, n)
    /\ \E seen \in GetOrCreate(k) :
         Prepare(w, k, [seen.row EXCEPT !.quantity = n], n, seen.unread)

Adjust(w, k, n) ==
    /\ Begin(w, "adjust", k, k, n)
    /\ \E seen \in GetOrCreate(k) :
         Prepare(w, k, [seen.row EXCEPT !.quantity = n],
                 n - seen.row.quantity, seen.unread)

\* Mutant of Reserve: what is reserved already is not subtracted.
ReserveFromQuantity(w, k, n) ==
    /\ k \in present
    /\ stock[k].quantity >= n
    /\ Begin(w, "reserve", k, k, n)
    /\ Prepare(w, k, [stock[k] EXCEPT !.reserved = @ + n], 0, FALSE)

Reserve(w, k, n) ==
    /\ k \in present
    /\ Available(stock[k]) >= n
    /\ Begin(w, "reserve", k, k, n)
    /\ Prepare(w, k, [stock[k] EXCEPT !.reserved = @ + n], 0, FALSE)

Unreserve(w, k, n) ==
    /\ k \in present
    /\ Begin(w, "unreserve", k, k, n)
    /\ Prepare(w, k, Released(stock[k], n), 0, FALSE)

-----------------------------------------------------------------------------
(* The writing half *)

AnnouncedInTx == {"reserve", "unreserve"}

\* The upsert waits for the row lock and keeps it until the transaction ends.
UpsertStockLevel(w) ==
    /\ pc[w] = "toWrite"
    /\ lock[target[w]] = NoWorker
    /\ lock' = [lock EXCEPT ![target[w]] = w]
    /\ pc' = [pc EXCEPT ![w] =
                IF request[w].op = "transfer" /\ target[w] = request[w].key
                THEN "midway" ELSE "ready"]
    /\ UNCHANGED <<database, request, target, draft, delta, announced,
                   alerts, issued, stale, history>>

\* Reserve and Unreserve hand their event to the bus inside the transaction.
PublishInTx(w) ==
    /\ pc[w] = "ready"
    /\ request[w].op \in AnnouncedInTx
    /\ ~announced[w]
    /\ announced' = [announced EXCEPT ![w] = TRUE]
    /\ UNCHANGED <<database, lock, pc, request, target, draft, delta,
                   alerts, issued, stale, history>>

Commit(w) ==
    /\ pc[w] = "ready"
    /\ request[w].op \in AnnouncedInTx => announced[w]
    /\ pc' = [pc EXCEPT ![w] = "committed"]
    /\ stock' = [k \in Key |-> IF lock[k] = w THEN draft[w][k] ELSE stock[k]]
    /\ ledger' = [k \in Key |-> IF lock[k] = w THEN ledger[k] + delta[w][k]
                                               ELSE ledger[k]]
    /\ present' = present \cup {k \in Key : lock[k] = w}
    /\ lock' = [k \in Key |-> IF lock[k] = w THEN NoWorker ELSE lock[k]]
    /\ stale' = [v \in Workers |->
                   IF v = w THEN {}
                   ELSE IF pc[v] = "toWrite" /\ lock[target[v]] = w
                        THEN stale[v] \cup {target[v]}
                        ELSE stale[v]]
    /\ blind' = stale[w]
    /\ tainted' = tainted \cup stale[w]
    /\ overcounted' = overcounted \cup
         {k \in Key : /\ lock[k] = w
                      /\ request[w].op = "adjust"
                      /\ Available(draft[w][k]) < 0}
    /\ UNCHANGED <<request, target, draft, delta, announced, alerts, issued>>

\* The other operations publish their event once the transaction is over.
Publish(w) ==
    /\ pc[w] = "committed"
    /\ ~announced[w]
    /\ announced' = [announced EXCEPT ![w] = TRUE]
    /\ UNCHANGED <<database, lock, pc, request, target, draft, delta,
                   alerts, issued, stale, history>>

Low(k) == stock[k].min > 0 /\ Available(stock[k]) <= stock[k].min

\* Mutant of CheckLowStock: a row exactly at its minimum is not reported.
CheckLowStockStrict(w) ==
    /\ pc[w] = "committed"
    /\ announced[w]
    /\ request[w].op = "ship"
    /\ LET k == request[w].key
       IN alerted' = IF Available(stock[k]) < stock[k].min
                     THEN alerted \cup {k} ELSE alerted
    /\ UNCHANGED overlooked
    /\ Leave(w)

\* The tail of Ship: it reads the row once more, whatever it holds by then.
CheckLowStock(w) ==
    /\ pc[w] = "committed"
    /\ announced[w]
    /\ request[w].op = "ship"
    /\ alerted' = alerted \cup {k \in {request[w].key} : Low(k)}
    /\ UNCHANGED overlooked
    /\ Leave(w)

\* checkLowStock gives up silently when its query fails.
LowStockUnread(w) ==
    /\ ReadMayFail
    /\ pc[w] = "committed"
    /\ announced[w]
    /\ request[w].op = "ship"
    /\ overlooked' = overlooked \cup {request[w].key}
    /\ UNCHANGED alerted
    /\ Leave(w)

Return(w) ==
    /\ pc[w] = "committed"
    /\ announced[w]
    /\ request[w].op # "ship"
    /\ Leave(w)
    /\ UNCHANGED alerts

InTransaction(w) == pc[w] \in {"toWrite", "midway", "ready"}

\* WithTx rolls back when a statement or the commit fails: a lost connection,
\* a cancelled context, a deadlock victim.
Rollback(w) ==
    /\ InTransaction(w)
    /\ Leave(w)
    /\ UNCHANGED alerts

\* Transactions that wait for each other's row locks.
InDeadlock(w) ==
    \E cycle \in SUBSET Workers :
      /\ w \in cycle
      /\ \A v \in cycle : pc[v] = "toWrite" /\ lock[target[v]] \in cycle

\* PostgreSQL finds the cycle and aborts a transaction of it.
BreakDeadlock(w) == InDeadlock(w) /\ Rollback(w)

\* The process dies: open transactions roll back, events not yet published
\* are never published, and no shipment looks for low stock any more.
Crash ==
    /\ CrashAllowed
    /\ pc' = [w \in Workers |-> "idle"]
    /\ request' = [w \in Workers |-> Idle]
    /\ draft' = [w \in Workers |-> NoDraft]
    /\ delta' = [w \in Workers |-> NoDelta]
    /\ stale' = [w \in Workers |-> {}]
    /\ announced' = [w \in Workers |-> FALSE]
    /\ lock' = [k \in Key |-> NoWorker]
    /\ target' = [w \in Workers |-> AnyKey]
    /\ overlooked' = overlooked \cup
         {request[w].key : w \in {v \in Workers : /\ pc[v] = "committed"
                                                 /\ request[v].op = "ship"}}
    /\ UNCHANGED <<database, alerted, issued, history>>

-----------------------------------------------------------------------------
\* The rows the seed data or earlier runs of the service left.
OpeningRows ==
    {row \in [quantity : 0..OpeningStock, reserved : 0..OpeningStock,
              min : {MinQuantity[k] : k \in Key}] : row.reserved <= row.quantity}

Init ==
    /\ present \in SUBSET Key
    /\ stock \in [Key -> OpeningRows \cup {EmptyRow}]
    /\ \A k \in Key : IF k \in present THEN stock[k].min = MinQuantity[k]
                                      ELSE stock[k] = EmptyRow
    /\ ledger = [k \in Key |-> stock[k].quantity]
    /\ lock = [k \in Key |-> NoWorker]
    /\ pc = [w \in Workers |-> "idle"]
    /\ request = [w \in Workers |-> Idle]
    /\ target = [w \in Workers |-> AnyKey]
    /\ draft = [w \in Workers |-> NoDraft]
    /\ delta = [w \in Workers |-> NoDelta]
    /\ announced = [w \in Workers |-> FALSE]
    /\ alerted = {}
    /\ overlooked = {}
    /\ issued = 0
    /\ stale = [w \in Workers |-> {}]
    /\ blind = {}
    /\ tainted = {}
    /\ overcounted = {}

Accept(w) ==
    \E k \in Key :
      \/ \E n \in Amounts : \/ Receive(w, k, n)
                            \/ Ship(w, k, n)
                            \/ Reserve(w, k, n)
                            \/ Unreserve(w, k, n)
                            \/ \E d \in Key : Transfer(w, k, d, n)
      \/ \E n \in Amounts \cup {0} : Adjust(w, k, n)

Progress(w) ==
    \/ TransferDestination(w)
    \/ UpsertStockLevel(w)
    \/ PublishInTx(w)
    \/ Commit(w)
    \/ Publish(w)
    \/ CheckLowStock(w)
    \/ LowStockUnread(w)
    \/ Return(w)

Next ==
    \/ \E w \in Workers : Accept(w) \/ Progress(w) \/ Rollback(w)
    \/ Crash

Spec == Init /\ [][Next]_vars

\* A handler that was admitted keeps running, and PostgreSQL breaks deadlocks.
\* Clients are free not to send anything.
Fairness == \A w \in Workers : WF_vars(Progress(w)) /\ WF_vars(BreakDeadlock(w))

FairSpec == Spec /\ Fairness

-----------------------------------------------------------------------------
(* Properties *)

Steps == {"idle", "toWrite", "midway", "ready", "committed"}

Request == [op : Operations \cup {"none"}, key : Key, dest : Key, amount : Nat]

(* Types of the state. *)
TypeOK ==
    /\ stock \in [Key -> Row]
    /\ present \in SUBSET Key
    /\ ledger \in [Key -> Int]
    /\ lock \in [Key -> Workers \cup {NoWorker}]
    /\ pc \in [Workers -> Steps]
    /\ request \in [Workers -> Request]
    /\ target \in [Workers -> Key]
    /\ draft \in [Workers -> [Key -> Row]]
    /\ delta \in [Workers -> [Key -> Int]]
    /\ announced \in [Workers -> BOOLEAN]
    /\ alerted \in SUBSET Key
    /\ overlooked \in SUBSET Key
    /\ issued \in Nat
    /\ stale \in [Workers -> SUBSET Key]
    /\ blind \in SUBSET Key
    /\ tainted \in SUBSET Key
    /\ overcounted \in SUBSET Key

(* No interleaving of handlers, lost update, failed read or crash drives a   *)
(* quantity or a reservation below zero: Ship, Transfer and Reserve check    *)
(* quantity - reserved on the row they read, and Unreserve stops at zero.    *)
NonNegativeStock ==
    \A k \in Key : stock[k].quantity >= 0 /\ stock[k].reserved >= 0

(* Where every commit wrote over the row it had read, the quantity is the    *)
(* sum of the movements: service.go pairs each upsert with one movement, in  *)
(* one transaction.  A key leaves this guarantee only when two handlers      *)
(* overlap on it or when getOrCreateStockLevel swallows a read error.        *)
LedgerExplainsStock ==
    \A k \in Key \ tainted : stock[k].quantity = ledger[k]

(* Reservations exceed the quantity only of keys that an adjustment set      *)
(* below what was reserved (Adjust does not look at reserved): no overlap of *)
(* Receive, Ship, Transfer, Reserve and Unreserve over-commits a key.        *)
ReservedWithinQuantity ==
    \A k \in Key \ overcounted : stock[k].reserved <= stock[k].quantity

(* Every admitted request ends: no handler waits for a row lock forever,     *)
(* although two transfers may lock the same rows in opposite orders.         *)
EveryRequestEnds == \A w \in Workers : (pc[w] # "idle") ~> (pc[w] = "idle")

ShippedLow(k) ==
    \E w \in Workers : /\ pc[w] = "committed"
                       /\ request[w].op = "ship"
                       /\ request[w].key = k
                       /\ Low(k)

(* A committed shipment that leaves a key at or below its minimum is         *)
(* followed by a warehouse.stock.low alert, unless the stock is replenished. *)
(* The alert is lost only with the look itself: checkLowStock swallows the   *)
(* error of its query, and a process that dies after the commit never looks. *)
LowStockIsAlerted ==
    \A k \in Key :
      ShippedLow(k) ~> (k \in alerted \/ ~Low(k) \/ k \in overlooked)

Book == INSTANCE StockBook

(* Read, upsert and commit together implement one atomic operation of the    *)
(* stock book, at the commit, whatever runs in between; only a commit over a *)
(* row changed since it was read is a BlindWrite.                            *)
ImplementsStockBook == Book!Spec

=============================================================================
