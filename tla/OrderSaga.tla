----------------------------- MODULE OrderSaga -----------------------------
(***************************************************************************)
(* What the server makes of the events of an order: the warehouse reserves *)
(* its items, or releases or takes them back, and finance books what the   *)
(* customer owes and has paid.                                             *)
(*                                                                         *)
(* A request reads the order through the pool, decides, writes the whole   *)
(* row back in a transaction that looks at nothing, and publishes after    *)
(* the commit: two requests overlap, and the later write wins.  Every      *)
(* subscriber works in a goroutine of its own (module EventBus), item by   *)
(* item; an item's stock row is read and written back the same way, and a  *)
(* failure is only logged.                                                 *)
(*                                                                         *)
(* There is one warehouse, whose goods move by the subscribers only (the   *)
(* requests of module Warehouse are not repeated here); an order takes one *)
(* of each of its products without a discount, a customer pays the total   *)
(* and refunds are of the whole order.  Nothing here reads the events      *)
(* table, so its append does not fail: "stored" is what was published.     *)
(***************************************************************************)
EXTENDS Integers, FiniteSets, Sequences

CONSTANTS
    Workers,    \* the requests of the orders that are served at a time
    Orders,
    Products,
    ItemsOf,    \* the products of each order, in the order of its items
    Totals,     \* what an order may come to
    Available,  \* the goods of each product at the beginning
    Earlier,    \* the orders submitted, and booked, before the first of the events
    MaxEvents   \* bound on the events published

ASSUME OrderSagaAssumption ==
    /\ ItemsOf \in [Orders -> Seq(Products) \ {<<>>}]
    /\ \A o \in Orders : \A i, j \in DOMAIN ItemsOf[o] :
         ItemsOf[o][i] = ItemsOf[o][j] => i = j
    /\ Earlier \subseteq Orders
    /\ Totals \subseteq Nat \ {0}
    /\ Available \in [Products -> Nat]
    /\ MaxEvents \in Nat

VARIABLES
    order,      \* status, total and payment of each order
    task,       \* each worker's request: its operation, the order as it was read
    stock,      \* quantity and reserved of each product
    journal,    \* the posted entries of account 62, by the event they are for
    place,      \* each goroutine's: the items dealt with, the row read for the next
    moved,      \* history: <<"reserve" or "release", order, product>> that succeeded
    astray,     \* history: products whose row was written from a stale copy, or
                \* released for an order that had not reserved it
    disturbed,  \* history: orders written from a stale copy, or whose event died
                \* with the process
    stored, running, handled  \* the bus

goods == <<stock, moved, astray>>
orders == <<order, task, disturbed>>
bus == <<stored, running, handled>>
sagaVars == <<orders, goods, journal, place, bus>>

-----------------------------------------------------------------------------
(* The wiring *)

Wiring ==
    [reserve |-> {"order.confirmed"}, release |-> {"order.cancelled"},
     revenue |-> {"order.created"}, payment |-> {"order.paid"},
     reversal |-> {"order.cancelled"}, refund |-> {"order.refunded"}]

Bus == INSTANCE EventBus WITH
    Subscribers <- DOMAIN Wiring,
    Types <- UNION {Wiring[s] : s \in DOMAIN Wiring},
    Interest <- Wiring,
    AppendMayFail <- FALSE

Items(o) == {ItemsOf[o][i] : i \in DOMAIN ItemsOf[o]}

Free(row) == row.quantity - row.reserved

Beginning == [dealt |-> 0, read |-> {}]

\* Goroutines begin and end; the others stay where they are.
Places == place' = [e \in running' |-> IF e \in running THEN place[e] ELSE Beginning]

-----------------------------------------------------------------------------
(* The operations of an order *)

\* The status an operation asks for.
Allowed ==
    [update |-> {"draft", "new"}, submit |-> {"draft"}, confirm |-> {"new"},
     pay |-> {"confirmed"}, ship |-> {"paid"}, deliver |-> {"shipped"},
     cancel |-> {"draft", "new", "confirmed", "paid"},
     refund |-> {"paid", "shipped", "delivered"}]

\* The status it leaves; an update and a refund leave what they have read.
Becomes ==
    [submit |-> "new", confirm |-> "confirmed", pay |-> "paid", ship |-> "shipped",
     deliver |-> "delivered", cancel |-> "cancelled"]

\* The events that somebody here subscribes to.
Tells ==
    [create |-> "order.created", confirm |-> "order.confirmed", pay |-> "order.paid",
     cancel |-> "order.cancelled", refund |-> "order.refunded"]

Idle == [at |-> "idle"]

Busy == {w \in Workers : task[w] # Idle}

\* The events there are and those the requests on their way may still publish.
HasRoom ==
    Cardinality(stored) + Cardinality({w \in Busy : task[w].op \in DOMAIN Tells}) < MaxEvents

\* The requests whose transaction is committed and whose event is to come.
Committed == {w \in Busy : task[w].at = "announce"}

\* The new row is committed; its event is to come.
Create(w, o, total) ==
    LET row == [status |-> "draft", total |-> total, paid |-> FALSE]
    IN  /\ task[w] = Idle /\ HasRoom
        /\ order[o].status = "absent"
        /\ order' = [order EXCEPT ![o] = row]
        /\ task' = [task EXCEPT ![w] = [at |-> "announce", op |-> "create", order |-> o,
                                        copy |-> row, total |-> total]]
        /\ UNCHANGED <<disturbed, goods, journal, place, bus>>

\* The order is read and its status found right; other items make another total.
GetOrder(w, op, o, total) ==
    /\ task[w] = Idle
    /\ op \in DOMAIN Tells => HasRoom
    /\ order[o].status \in Allowed[op]
    /\ op # "update" => total = order[o].total
    /\ task' = [task EXCEPT ![w] = [at |-> IF op = "confirm" THEN "check" ELSE "write",
                                    op |-> op, order |-> o, copy |-> order[o],
                                    total |-> total]]
    /\ UNCHANGED <<order, disturbed, goods, journal, place, bus>>

CheckAvailability(w) ==
    /\ task[w].at = "check"
    /\ \A p \in Items(task[w].order) : Free(stock[p]) >= 1
    /\ task' = [task EXCEPT ![w].at = "write"]
    /\ UNCHANGED <<order, disturbed, goods, journal, place, bus>>

\* The row the operation makes of its copy.
Written(t) ==
    [status |-> IF t.op \in DOMAIN Becomes THEN Becomes[t.op] ELSE t.copy.status,
     total |-> t.total,
     paid |-> t.copy.paid \/ t.op = "pay"]

\* The request goes on to its event, or ends.
Commit(w) ==
    task' = [task EXCEPT ![w] = IF @.op \in DOMAIN Tells THEN [@ EXCEPT !.at = "announce"] ELSE Idle]

\* All columns of the row, whatever has become of it.
UpdateOrder(w) ==
    LET t == task[w]
    IN  /\ t.at = "write" /\ t.op # "refund"
        /\ order' = [order EXCEPT ![t.order] = Written(t)]
        /\ disturbed' = IF t.copy = order[t.order] THEN disturbed ELSE disturbed \cup {t.order}
        /\ Commit(w)
        /\ UNCHANGED <<goods, journal, place, bus>>

\* A row of its own, for all items of the order; the order stays as it is.
Refund(w) ==
    /\ task[w].at = "write" /\ task[w].op = "refund"
    /\ Commit(w)
    /\ UNCHANGED <<order, disturbed, goods, journal, place, bus>>

PublishEvent(w) ==
    LET t == task[w]
    IN  /\ t.at = "announce"
        /\ Bus!Publish([id |-> Cardinality(stored) + 1, type |-> Tells[t.op],
                        order |-> t.order, total |-> t.total], stored)
        /\ Places
        /\ task' = [task EXCEPT ![w] = Idle]
        /\ UNCHANGED <<order, disturbed, goods, journal>>

\* Goods are missing, a query fails or the transaction is rolled back.
Fail(w) ==
    /\ task[w].at \in {"check", "write"}
    /\ task' = [task EXCEPT ![w] = Idle]
    /\ UNCHANGED <<order, disturbed, goods, journal, place, bus>>

-----------------------------------------------------------------------------
(* The goroutines *)

Dealt(ev, s) == place[<<ev, s>>].dealt

Read(ev, s) == place[<<ev, s>>].read

\* The goroutine s of the event is at product p.
At(ev, s, p) ==
    /\ <<ev, s>> \in running
    /\ s \in {"reserve", "release", "refund"}
    /\ Dealt(ev, s) < Len(ItemsOf[ev.order])
    /\ p = ItemsOf[ev.order][Dealt(ev, s) + 1]

\* The handler ends after its last item; that of a refund has its posting to come.
NextItem(ev, s) ==
    IF s # "refund" /\ Dealt(ev, s) + 1 = Len(ItemsOf[ev.order])
    THEN Bus!EndHandler(ev, s) /\ Places
    ELSE /\ place' = [place EXCEPT ![<<ev, s>>] = [dealt |-> Dealt(ev, s) + 1, read |-> {}]]
         /\ UNCHANGED bus

\* GetStockLevel, through the pool; Receive takes a failed query for a missing row.
GetStockLevel(ev, s, p) ==
    /\ At(ev, s, p) /\ Read(ev, s) = {}
    /\ \E row \in {stock[p]} \cup {[quantity |-> 0, reserved |-> 0] : x \in {s} \cap {"refund"}} :
          place' = [place EXCEPT ![<<ev, s>>].read = {row}]
    /\ UNCHANGED <<orders, goods, journal, bus>>

\* The whole row is written; the copy it is made of may be out of date.
UpsertStockLevel(p, copy, row, amiss) ==
    /\ stock' = [stock EXCEPT ![p] = row]
    /\ astray' = IF copy # stock[p] \/ amiss THEN astray \cup {p} ELSE astray

Reserve(ev, p) ==
    /\ At(ev, "reserve", p)
    /\ \E row \in Read(ev, "reserve") :
          /\ Free(row) >= 1
          /\ UpsertStockLevel(p, row, [row EXCEPT !.reserved = @ + 1], FALSE)
    /\ moved' = moved \cup {<<"reserve", ev.order, p>>}
    /\ NextItem(ev, "reserve")
    /\ UNCHANGED <<orders, journal>>

\* Mutant of Unreserve: all that is reserved is released.
UnreserveAll(ev, p) ==
    /\ At(ev, "release", p)
    /\ \E row \in Read(ev, "release") :
          UpsertStockLevel(p, row, [row EXCEPT !.reserved = 0],
                           <<"reserve", ev.order, p>> \notin moved)
    /\ moved' = moved \cup {<<"release", ev.order, p>>}
    /\ NextItem(ev, "release")
    /\ UNCHANGED <<orders, journal>>

\* One less is reserved, whoever reserved it, and never less than nothing.
Unreserve(ev, p) ==
    /\ At(ev, "release", p)
    /\ \E row \in Read(ev, "release") :
          UpsertStockLevel(p, row, [row EXCEPT !.reserved = IF @ < 1 THEN 0 ELSE @ - 1],
                           <<"reserve", ev.order, p>> \notin moved)
    /\ moved' = moved \cup {<<"release", ev.order, p>>}
    /\ NextItem(ev, "release")
    /\ UNCHANGED <<orders, journal>>

\* Receive.
ReturnItem(ev, p) ==
    /\ At(ev, "refund", p)
    /\ \E row \in Read(ev, "refund") :
          UpsertStockLevel(p, row, [row EXCEPT !.quantity = @ + 1], FALSE)
    /\ NextItem(ev, "refund")
    /\ UNCHANGED <<orders, journal, moved>>

\* The query fails, the goods are missing or the transaction is rolled back;
\* the error is logged, or not even that, and the next item follows.
SkipItem(ev, s, p) ==
    /\ At(ev, s, p)
    /\ NextItem(ev, s)
    /\ UNCHANGED <<orders, goods, journal>>

\* Mutant of Owed: the reversal repeats the posting of the sale.
OwedUnreversed(s, total) == IF s = "payment" THEN -total ELSE total

\* What the customer owes grows with the debit of account 62.
Owed(s, total) == IF s \in {"revenue", "refund"} THEN total ELSE -total

\* CreateAutoTransaction, whose error is ignored.
Post(ev, s) ==
    /\ <<ev, s>> \in running
    /\ s \in {"revenue", "payment", "reversal", "refund"}
    /\ s = "refund" => Dealt(ev, s) = Len(ItemsOf[ev.order])
    /\ \/ journal' = journal \cup {[id |-> ev.id, order |-> ev.order, owed |-> Owed(s, ev.total)]}
       \/ UNCHANGED journal
    /\ Bus!EndHandler(ev, s) /\ Places
    /\ UNCHANGED <<orders, goods>>

\* The process dies, with its requests and goroutines.
Crash ==
    /\ Busy # {} \/ running # {}
    /\ disturbed' = disturbed \cup {task[w].order : w \in Committed}
    /\ task' = [w \in Workers |-> Idle]
    /\ Bus!LoseHandlers /\ Places
    /\ UNCHANGED <<order, goods, journal>>

-----------------------------------------------------------------------------
SagaInit ==
    /\ \E total \in Totals :
          /\ order = [o \in Orders |->
                        IF o \in Earlier THEN [status |-> "new", total |-> total, paid |-> FALSE]
                        ELSE [status |-> "absent", total |-> 0, paid |-> FALSE]]
          /\ journal = {[id |-> 0, order |-> o, owed |-> total] : o \in Earlier}
    /\ task = [w \in Workers |-> Idle]
    /\ stock = [p \in Products |-> [quantity |-> Available[p], reserved |-> 0]]
    /\ moved = {} /\ astray = {} /\ disturbed = {}
    /\ Bus!InitBus
    /\ place = [e \in running |-> Beginning]

OrderEndpoints(w, o) ==
    \/ \E total \in Totals :
          Create(w, o, total) \/ \E op \in DOMAIN Allowed : GetOrder(w, op, o, total)

Requests(w) ==
    \/ \E o \in Orders : OrderEndpoints(w, o)
    \/ CheckAvailability(w) \/ UpdateOrder(w) \/ Refund(w) \/ PublishEvent(w) \/ Fail(w)

Goroutine(ev, s) ==
    \/ \E p \in Products :
          \/ GetStockLevel(ev, s, p) \/ SkipItem(ev, s, p)
          \/ Reserve(ev, p) \/ Unreserve(ev, p) \/ ReturnItem(ev, p)
    \/ Post(ev, s)

SagaNext ==
    \/ \E w \in Workers : Requests(w)
    \/ \E e \in running : Goroutine(e[1], e[2])
    \/ Crash

SagaSpec == SagaInit /\ [][SagaNext]_sagaVars

-----------------------------------------------------------------------------
(* Properties *)

\* No handler runs and none is about to.
Quiet == running = {} /\ Committed = {}

Events(o, type) == {ev \in stored : ev.order = o /\ ev.type = type}

\* A handler of an event of the order died with the process.
Lost(o) ==
    \E ev \in stored : ev.order = o /\ \E s \in Bus!Matching(ev) : <<ev, s>> \notin running \cup handled

\* The order is cancelled and its p still reserved: the release failed, or has
\* not happened yet.
StillHeld(o, p) ==
    /\ order[o].status = "cancelled"
    /\ <<"reserve", o, p>> \in moved /\ <<"release", o, p>> \notin moved

\* The orders that are to have one of p reserved and have got it; a shipment
\* releases nothing.
Holding(p) ==
    {o \in Orders : /\ order[o].status \in {"confirmed", "paid", "shipped", "delivered"}
                    /\ <<"reserve", o, p>> \in moved}

\* main.go:407 and 434, order/service.go:315: what is reserved of a product is
\* what the confirmed orders, paid, shipped and delivered ones among them,
\* have reserved of it, as soon as the releases of the cancelled orders have
\* succeeded, however goroutines, crashes and failures interleave.  It is
\* claimed of a product whose row was never written from a stale copy nor
\* released ahead of its reservation, and whose orders were neither
\* overwritten by an overlapping request nor robbed of an event by a crash.
ReservationsFollowOrders ==
    \A p \in Products \ astray :
      (\A o \in Orders : p \in Items(o) => o \notin disturbed /\ ~ StillHeld(o, p))
      => stock[p].reserved = Cardinality(Holding(p))

\* The entries of an order that come to x.
Booked(o, x) == {e \in journal : e.order = o /\ e.owed = x}

Amounts(o) == {e.owed : e \in {f \in journal : f.order = o}}

OwedFor(o) ==
    LET sum[s \in SUBSET Amounts(o)] ==
            IF s = {} THEN 0
            ELSE LET x == CHOOSE y \in s : TRUE
                 IN x * Cardinality(Booked(o, x)) + sum[s \ {x}]
    IN sum[Amounts(o)]

\* No request overwrote another's change of the order, no event of it was lost,
\* and every one was booked at the order's present total (the entry of an
\* earlier creation has the number 0).
Undisturbed(o) ==
    /\ o \notin disturbed
    /\ \A ev \in stored : ev.order = o =>
          /\ ev.total = order[o].total
          /\ ev.type # "order.confirmed" => \E e \in journal : e.id = ev.id
    /\ \A e \in journal : e.id = 0 /\ e.order = o => e.owed = order[o].total

\* main.go:461, 476, 521 and 543: whatever the order in which the handlers run,
\* the customer of an order whose requests did not overwrite each other, whose
\* postings all succeeded and whose total was not changed owes the total until
\* it is paid or cancelled; one who paid before the cancellation has the money
\* due to him, and a refund, before or after the shipment, is booked on top.
\* Two overlapping cancellations, or a payment overlapping one, book more than
\* that: such an order is disturbed.
CustomersOweWhatIsOpen ==
    Quiet => \A o \in Orders :
                Undisturbed(o) =>
                    OwedFor(o) =
                        order[o].total * ( Cardinality(Events(o, "order.refunded"))
                                         + (IF order[o].status \in {"draft", "new", "confirmed"} THEN 1 ELSE 0)
                                         - (IF order[o].status = "cancelled" /\ order[o].paid THEN 1 ELSE 0) )

\* "order.cancelled | Снятие резерва" (docs/EVENT_SYSTEM.md:155): when every
\* order of a product is cancelled or was never confirmed, by requests that did
\* not overlap, and no handler died or failed, nothing of it is reserved.
CancelledOrdersHoldNothing ==
    Quiet => \A p \in Products :
                (\A o \in Orders : p \in Items(o) =>
                    /\ o \notin disturbed /\ ~ Lost(o) /\ ~ StillHeld(o, p)
                    /\ order[o].status \in {"absent", "draft", "new", "cancelled"})
                => stock[p].reserved = 0

=============================================================================
