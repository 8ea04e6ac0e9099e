----------------------------- MODULE Stocktaking -----------------------------
(***************************************************************************)
(* Stocktaking sessions of one warehouse ("inventories" in the code), with *)
(* goods moving while the shelves are counted.                             *)
(*                                                                         *)
(* A session snapshots the quantities, collects one count per product, and *)
(* is then applied (every product whose count differs is SET to its count, *)
(* with a movement of count - snapshot) or cancelled.  Each operation      *)
(* first reads the session through the pool, checks its status in memory,  *)
(* and writes in a later transaction whose statements do not look at the   *)
(* status again.  Receipts and shipments are reduced to their read and     *)
(* their commit; module Warehouse has them in full.                        *)
(***************************************************************************)
EXTENDS Integers, FiniteSets

CONSTANTS
    Workers,      \* the goroutines that serve requests
    NoWorker,     \* the holder of a free row lock
    NumProducts,  \* the products of the warehouse are 1..NumProducts
    Sessions,     \* the stocktaking sessions that may be started
    Quantities,   \* the quantities a count may report
    Moves,        \* what a receipt (+) or a shipment (-) adds to a quantity
    OpeningStock, \* the quantity of every product initially
    MaxRequests   \* bound on the number of requests served

Products == 1..NumProducts

ASSUME StocktakingAssumption ==
    /\ NoWorker \notin Workers
    /\ NumProducts \in Nat
    /\ Sessions # {}
    /\ Quantities \subseteq Int
    /\ Moves \subseteq Int
    /\ OpeningStock \in Nat
    /\ MaxRequests \in Nat

VARIABLES
    stock,      \* the committed quantity of each product
    ledger,     \* the sum of the committed movements of each product
    session,    \* the inventories row and inventory_items rows of a session
    lock,       \* which open transaction holds the stock row of each product
    pc,         \* where each handler is
    job,        \* the request each handler serves, and what it has read
    issued,     \* the number of requests so far
    drifted,    \* history: products committed since a session's snapshot
    outdated,   \* history: handlers whose product was committed since they read it
    adjusted,   \* history: how often a session was applied to the stock
    contested,  \* history: sessions finalised while another request was about to
    recounted,  \* history: counts stored after an application had read them
    unexplained \* history: products a commit blind to others has written

rows == <<stock, ledger, session>>
history == <<drifted, outdated, adjusted, contested, recounted, unexplained>>
vars == <<stock, ledger, session, lock, pc, job, issued, drifted, outdated,
          adjusted, contested, recounted, unexplained>>

-----------------------------------------------------------------------------
Item == [expected : Int, counted : BOOLEAN, actual : Int]

Blank == [p \in Products |-> [expected |-> 0, counted |-> FALSE, actual |-> 0]]

AnySession == CHOOSE s \in Sessions : TRUE

\* A job names its session and product, the count or the change it brings,
\* and what it has read: the items of its session, the quantity of its product.
Idle == [op |-> "none", session |-> AnySession, product |-> 0, amount |-> 0,
         items |-> Blank, quantity |-> 0]

Discrepancy(item) == IF item.counted THEN item.actual - item.expected ELSE 0

Snapshot == [p \in Products |->
               [expected |-> stock[p], counted |-> FALSE, actual |-> 0]]

\* The rows an application writes.
Differing(w) == {p \in Products : Discrepancy(job[w].items[p]) # 0}

Pending(w) == {p \in Differing(w) : lock[p] # w}

Accept(w, work, at) ==
    /\ pc[w] = "idle"
    /\ issued < MaxRequests
    /\ issued' = issued + 1
    /\ job' = [job EXCEPT ![w] = work]
    /\ pc' = [pc EXCEPT ![w] = at]

Done(w) ==
    /\ pc' = [pc EXCEPT ![w] = "idle"]
    /\ job' = [job EXCEPT ![w] = Idle]
    /\ UNCHANGED issued

Unlocked(w) == [p \in Products |-> IF lock[p] = w THEN NoWorker ELSE lock[p]]

\* A commit of the products in touched outdates what others read of them.
Outdate(w, touched) ==
    /\ drifted' = [s \in Sessions |-> drifted[s] \cup touched]
    /\ outdated' = (outdated \ {w}) \cup
         {v \in Workers \ {w} : pc[v] = "moving" /\ job[v].product \in touched}

\* Another request that was admitted to finalise the session is under way.
Contest(w, s) ==
    contested' = IF \E v \in Workers \ {w} : /\ pc[v] \in {"opened", "applying"}
                                             /\ job[v].op \in {"apply", "cancel"}
                                             /\ job[v].session = s
                 THEN contested \cup {s} ELSE contested

-----------------------------------------------------------------------------
(* StartInventory: list the stock, then insert the session and its items. *)

StartInventory(w, s) ==
    /\ session[s].status = "absent"
    /\ \A v \in Workers : ~(pc[v] = "starting" /\ job[v].session = s)
    /\ Accept(w, [Idle EXCEPT !.op = "start", !.session = s,
                              !.items = Snapshot], "starting")
    /\ drifted' = [drifted EXCEPT ![s] = {}]
    /\ UNCHANGED <<rows, lock, outdated, adjusted, contested, recounted,
                   unexplained>>

CreateInventory(w) ==
    /\ pc[w] = "starting"
    /\ session' = [session EXCEPT ![job[w].session] =
                     [status |-> "in_progress", items |-> job[w].items]]
    /\ Done(w)
    /\ UNCHANGED <<stock, ledger, lock, history>>

\* Mutant of Open: the status of the session is not looked at.
OpenUnchecked(w, op, s, p, n) ==
    /\ session[s].status # "absent"
    /\ Accept(w, [Idle EXCEPT !.op = op, !.session = s, !.product = p,
                              !.amount = n], "opened")
    /\ UNCHANGED <<rows, lock, history>>

\* CountItem, ApplyInventory and CancelInventory begin alike.
Open(w, op, s, p, n) ==
    /\ session[s].status = "in_progress"
    /\ Accept(w, [Idle EXCEPT !.op = op, !.session = s, !.product = p,
                              !.amount = n], "opened")
    /\ UNCHANGED <<rows, lock, history>>

\* The count overwrites an earlier one, whatever has become of the session.
CountItem(w) ==
    /\ pc[w] = "opened"
    /\ job[w].op = "count"
    /\ LET s == job[w].session
       IN /\ session' = [session EXCEPT ![s].items[job[w].product] =
                           [@ EXCEPT !.counted = TRUE, !.actual = job[w].amount]]
          /\ recounted' =
               IF \E v \in Workers : pc[v] = "applying" /\ job[v].session = s
               THEN recounted \cup {<<s, job[w].product>>} ELSE recounted
    /\ Done(w)
    /\ UNCHANGED <<stock, ledger, lock, drifted, outdated, adjusted, contested,
                   unexplained>>

CancelInventory(w) ==
    /\ pc[w] = "opened"
    /\ job[w].op = "cancel"
    /\ session' = [session EXCEPT ![job[w].session].status = "cancelled"]
    /\ Contest(w, job[w].session)
    /\ Done(w)
    /\ UNCHANGED <<stock, ledger, lock, drifted, outdated, adjusted, recounted,
                   unexplained>>

-----------------------------------------------------------------------------
(* ApplyInventory *)

\* Mutant of LoadItems: a session that is not fully counted is applied too.
LoadItemsUncounted(w) ==
    /\ pc[w] = "opened"
    /\ job[w].op = "apply"
    /\ job' = [job EXCEPT ![w].items = session[job[w].session].items]
    /\ pc' = [pc EXCEPT ![w] = "applying"]
    /\ UNCHANGED <<rows, lock, issued, history>>

LoadItems(w) ==
    /\ pc[w] = "opened"
    /\ job[w].op = "apply"
    /\ \A p \in Products : session[job[w].session].items[p].counted
    /\ job' = [job EXCEPT ![w].items = session[job[w].session].items]
    /\ pc' = [pc EXCEPT ![w] = "applying"]
    /\ UNCHANGED <<rows, lock, issued, history>>

RefuseUncounted(w) ==
    /\ pc[w] = "opened"
    /\ job[w].op = "apply"
    /\ \E p \in Products : ~session[job[w].session].items[p].counted
    /\ Done(w)
    /\ UNCHANGED <<rows, lock, history>>

\* Mutant of UpsertItem: the rows are upserted in no particular order.
UpsertItemInAnyOrder(w) ==
    /\ pc[w] = "applying"
    /\ \E p \in Pending(w) : /\ lock[p] = NoWorker
                             /\ lock' = [lock EXCEPT ![p] = w]
    /\ UNCHANGED <<rows, pc, job, issued, history>>

\* The items come ordered by product, so the rows are locked in that order.
UpsertItem(w) ==
    /\ pc[w] = "applying"
    /\ \E p \in Pending(w) : /\ \A q \in Pending(w) : p <= q
                             /\ lock[p] = NoWorker
                             /\ lock' = [lock EXCEPT ![p] = w]
    /\ UNCHANGED <<rows, pc, job, issued, history>>

\* Mutant of ApplyInventory: the movement records the count itself.
ApplyLogsCount(w) ==
    /\ pc[w] = "applying"
    /\ Pending(w) = {}
    /\ LET items == job[w].items
       IN /\ stock' = [p \in Products |->
                         IF p \in Differing(w) THEN items[p].actual ELSE stock[p]]
          /\ ledger' = [p \in Products |->
                         IF p \in Differing(w) THEN ledger[p] + items[p].actual
                                               ELSE ledger[p]]
    /\ session' = [session EXCEPT ![job[w].session].status = "applied"]
    /\ adjusted' = [adjusted EXCEPT ![job[w].session] = @ + 1]
    /\ Contest(w, job[w].session)
    /\ unexplained' = unexplained \cup
                        (Differing(w) \cap drifted[job[w].session])
    /\ lock' = Unlocked(w)
    /\ Outdate(w, Differing(w))
    /\ Done(w)
    /\ UNCHANGED recounted

ApplyInventory(w) ==
    /\ pc[w] = "applying"
    /\ Pending(w) = {}
    /\ LET items == job[w].items
       IN /\ stock' = [p \in Products |->
                         IF p \in Differing(w) THEN items[p].actual ELSE stock[p]]
          /\ ledger' = [p \in Products |-> ledger[p] + Discrepancy(items[p])]
    /\ session' = [session EXCEPT ![job[w].session].status = "applied"]
    /\ adjusted' = [adjusted EXCEPT ![job[w].session] = @ + 1]
    /\ Contest(w, job[w].session)
    /\ unexplained' = unexplained \cup
                        (Differing(w) \cap drifted[job[w].session])
    /\ lock' = Unlocked(w)
    /\ Outdate(w, Differing(w))
    /\ Done(w)
    /\ UNCHANGED recounted

-----------------------------------------------------------------------------
(* Goods that move meanwhile *)

Move(w, p, n) ==
    /\ stock[p] + n >= 0 \/ n > 0
    /\ Accept(w, [Idle EXCEPT !.op = "move", !.product = p, !.amount = n,
                              !.quantity = stock[p]], "moving")
    /\ UNCHANGED <<rows, lock, history>>

CommitMove(w) ==
    /\ pc[w] = "moving"
    /\ LET p == job[w].product
       IN /\ lock[p] = NoWorker
          /\ stock' = [stock EXCEPT ![p] = job[w].quantity + job[w].amount]
          /\ ledger' = [ledger EXCEPT ![p] = @ + job[w].amount]
          /\ unexplained' = IF w \in outdated THEN unexplained \cup {p}
                                              ELSE unexplained
          /\ Outdate(w, {p})
    /\ Done(w)
    /\ UNCHANGED <<session, lock, adjusted, contested, recounted>>

\* A statement or the commit fails, or the process dies: WithTx rolls back.
Rollback(w) ==
    /\ pc[w] # "idle"
    /\ lock' = Unlocked(w)
    /\ outdated' = outdated \ {w}
    /\ Done(w)
    /\ UNCHANGED <<rows, drifted, adjusted, contested, recounted, unexplained>>

-----------------------------------------------------------------------------
Init ==
    /\ stock = [p \in Products |-> OpeningStock]
    /\ ledger = [p \in Products |-> OpeningStock]
    /\ session = [s \in Sessions |-> [status |-> "absent", items |-> Blank]]
    /\ lock = [p \in Products |-> NoWorker]
    /\ pc = [w \in Workers |-> "idle"]
    /\ job = [w \in Workers |-> Idle]
    /\ issued = 0
    /\ drifted = [s \in Sessions |-> {}]
    /\ outdated = {}
    /\ adjusted = [s \in Sessions |-> 0]
    /\ contested = {}
    /\ recounted = {}
    /\ unexplained = {}

Request(w) ==
    \/ \E s \in Sessions :
         \/ StartInventory(w, s)
         \/ Open(w, "apply", s, 0, 0)
         \/ Open(w, "cancel", s, 0, 0)
         \/ \E p \in Products, n \in Quantities : Open(w, "count", s, p, n)
    \/ \E p \in Products, n \in Moves : Move(w, p, n)

Progress(w) ==
    \/ CreateInventory(w)
    \/ CountItem(w)
    \/ CancelInventory(w)
    \/ LoadItems(w)
    \/ RefuseUncounted(w)
    \/ UpsertItem(w)
    \/ ApplyInventory(w)
    \/ CommitMove(w)

Next == \E w \in Workers : Request(w) \/ Progress(w) \/ Rollback(w)

Spec == Init /\ [][Next]_vars

\* An admitted handler keeps running; nobody has to send requests.
FairSpec == Spec /\ \A w \in Workers : WF_vars(Progress(w))

-----------------------------------------------------------------------------
(* Properties *)

(* ApplyInventory pairs the quantity it sets with a movement of count minus  *)
(* snapshot: the movements explain the stock of every product that did not   *)
(* move between the snapshot and the application of a session.               *)
LedgerExplainsCounts ==
    \A p \in Products \ unexplained : stock[p] = ledger[p]

(* When a session becomes applied, the stock of every product is what the    *)
(* session records as counted - unless it moved since the snapshot, or the   *)
(* count was replaced after the application had read it.                     *)
ApplySetsWhatWasCounted ==
    [][\A s \in Sessions :
         adjusted'[s] > adjusted[s] =>
           \A p \in Products \ drifted[s] :
             <<s, p>> \in recounted \/ stock'[p] = session'[s].items[p].actual]_vars

(* A session reaches the stock once if it ends applied and never if it ends  *)
(* cancelled, unless two finalising requests overlapped on it.               *)
OneApplicationPerSession ==
    \A s \in Sessions \ contested :
      adjusted[s] = IF session[s].status = "applied" THEN 1 ELSE 0

(* Every admitted request ends: applications lock the rows in one order, so  *)
(* two of them never wait for each other.                                    *)
EveryRequestEnds == \A w \in Workers : (pc[w] # "idle") ~> (pc[w] = "idle")

=============================================================================
