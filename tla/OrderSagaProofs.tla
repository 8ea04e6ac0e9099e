-------------------------- MODULE OrderSagaProofs --------------------------
(***************************************************************************)
(* What is reserved of a product is what the orders that hold it have      *)
(* reserved, and what a customer owes is what is open: theorems about the  *)
(* requests and handlers of module OrderSaga, for any number of orders,    *)
(* products, requests and events, with failing steps and crashes.          *)
(***************************************************************************)
EXTENDS OrderSaga, FiniteSetTheorems, TLAPS

-----------------------------------------------------------------------------
(* The inductive invariant of the reservations *)

Statuses == {"absent", "draft", "new", "confirmed", "paid", "shipped", "delivered", "cancelled"}

OrderRow == [status : Statuses, total : Nat, paid : BOOLEAN]

StockRow == [quantity : Int, reserved : Nat]

Types == {"order.created", "order.confirmed", "order.paid", "order.cancelled",
          "order.refunded"}

Event == [id : Nat, type : Types, order : Orders, total : Nat]

Names == {"reserve", "release", "revenue", "payment", "reversal", "refund"}

Operations == {"create", "update", "submit", "confirm", "pay", "ship", "deliver", "cancel",
               "refund"}

Telling == {"create", "confirm", "pay", "cancel", "refund"}

Request == [at : {"check", "write", "announce"}, op : Operations, order : Orders,
            copy : OrderRow, total : Nat]

\* The orders that have reserved p and not released it.
Kept(p) == {o \in Orders : /\ <<"reserve", o, p>> \in moved
                           /\ <<"release", o, p>> \notin moved}

SagaTypeOK ==
    /\ order \in [Orders -> OrderRow]
    /\ task \in [Workers -> {Idle} \cup Request]
    /\ stock \in [Products -> StockRow]
    /\ IsFiniteSet(stored) /\ stored \subseteq Event
    /\ running \subseteq stored \X Names
    /\ place \in [running -> [dealt : Nat, read : SUBSET StockRow]]
    /\ moved \subseteq {"reserve", "release"} \X Orders \X Products

\* Events are numbered, and their goroutines are those of their subscribers.
BusInv ==
    /\ \A ev \in stored : ev.id <= Cardinality(stored)
    /\ \A e, f \in stored : e.id = f.id => e = f
    /\ \A ev \in stored : /\ <<ev, "reserve">> \in running => ev.type = "order.confirmed"
                          /\ <<ev, "release">> \in running => ev.type = "order.cancelled"

\* A request is of an order there is, and writes what its operation makes of a
\* copy of the status it wants.
Fits(t) ==
    /\ t.at \in {"check", "write"} => t.op # "create" /\ t.copy.status \in Allowed[t.op]
    /\ t.at = "announce" => t.op \in Telling
    /\ IF t.op = "update" THEN t.total # 0 ELSE t.total = t.copy.total

TaskInv ==
    \A w \in Workers : task[w] # Idle =>
      Fits(task[w]) /\ order[task[w].order].status # "absent"

\* The requests that are about to publish an event of the order.
Pending(o, type) ==
    {w \in Workers : /\ task[w].at = "announce"
                     /\ task[w].order = o /\ Tells[task[w].op] = type}

\* The types of which the order has an event, or one on its way.
Told(o) == {type \in Types : Events(o, type) # {} \/ Pending(o, type) # {}}

OnlyOnce == {"order.created", "order.confirmed", "order.paid", "order.cancelled"}

\* What the row of an order has to do with its events.
Agrees(row, told, early) ==
    /\ row.status = "absent" => ~ early /\ told = {}
    /\ row.status # "absent" => row.total # 0 /\ (early <=> "order.created" \notin told)
    /\ "order.confirmed" \in told =>
         row.status \in {"confirmed", "paid", "shipped", "delivered", "cancelled"}
    /\ row.paid <=> "order.paid" \in told
    /\ row.paid => row.status \in {"paid", "shipped", "delivered", "cancelled"}
    /\ row.status \in {"paid", "shipped", "delivered"} => row.paid
    /\ row.status = "cancelled" <=> "order.cancelled" \in told

\* But for refunds there is one event of a type, and the row tells of which.
LifeInv ==
    \A o \in Orders \ disturbed :
      /\ Agrees(order[o], Told(o), o \in Earlier)
      /\ \A type \in OnlyOnce :
           /\ \A e, f \in Events(o, type) : e = f
           /\ \A v, w \in Pending(o, type) : v = w
           /\ Events(o, type) = {} \/ Pending(o, type) = {}

\* What was moved was moved for an event, by a handler that has that item
\* behind it.
MovedInv ==
    /\ \A o \in Orders, p \in Products :
         /\ <<"reserve", o, p>> \in moved => Events(o, "order.confirmed") # {} /\ p \in Items(o)
         /\ <<"release", o, p>> \in moved => Events(o, "order.cancelled") # {} /\ p \in Items(o)
    /\ \A ev \in stored, s \in {"reserve", "release"}, p \in Products :
         ev.order \notin disturbed /\ <<ev, s>> \in running /\ <<s, ev.order, p>> \in moved =>
           \E i \in DOMAIN ItemsOf[ev.order] : i <= Dealt(ev, s) /\ ItemsOf[ev.order][i] = p

\* No write of the product's row went wrong, and none of its orders did.
Clean(p) == p \notin astray /\ \A o \in Orders : p \in Items(o) => o \notin disturbed

KeptInv ==
    \A p \in Products : Clean(p) =>
      /\ \A o \in Orders : <<"release", o, p>> \in moved => <<"reserve", o, p>> \in moved
      /\ IsFiniteSet(Kept(p))
      /\ stock[p].reserved = Cardinality(Kept(p))

SagaInv == BusInv /\ TaskInv /\ LifeInv /\ MovedInv /\ KeptInv

-----------------------------------------------------------------------------
(* Requests and the bus *)

\* The tables, entry by entry.
LEMMA Tables ==
  /\ DOMAIN Allowed = Operations \ {"create"} /\ DOMAIN Tells = Telling
  /\ DOMAIN Becomes = {"submit", "confirm", "pay", "ship", "deliver", "cancel"}
  /\ Telling \subseteq Operations
  /\ Allowed["update"] = {"draft", "new"} /\ Allowed["submit"] = {"draft"}
  /\ Allowed["confirm"] = {"new"} /\ Allowed["pay"] = {"confirmed"}
  /\ Allowed["ship"] = {"paid"} /\ Allowed["deliver"] = {"shipped"}
  /\ Allowed["cancel"] = {"draft", "new", "confirmed", "paid"}
  /\ Becomes["submit"] = "new" /\ Becomes["confirm"] = "confirmed" /\ Becomes["pay"] = "paid"
  /\ Becomes["ship"] = "shipped" /\ Becomes["deliver"] = "delivered"
  /\ Becomes["cancel"] = "cancelled"
  /\ Tells["create"] = "order.created" /\ Tells["confirm"] = "order.confirmed"
  /\ Tells["pay"] = "order.paid" /\ Tells["cancel"] = "order.cancelled"
  /\ Tells["refund"] = "order.refunded"
  /\ \A op \in Telling : Tells[op] \in Types
BY DEF Allowed, Tells, Becomes, Operations, Telling, Types

LEMMA AllowedAreThere ==
  ASSUME NEW op \in Operations \ {"create"}
  PROVE  "absent" \notin Allowed[op]
<1>1. \A o \in DOMAIN Allowed : "absent" \notin Allowed[o]
  BY DEF Allowed
<1>2. QED
  BY <1>1, Tables

\* Which subscribers an event starts.
LEMMA MatchingFacts ==
  ASSUME NEW ev, NEW s \in Bus!Matching(ev)
  PROVE  /\ s \in Names
         /\ s = "reserve" => ev.type = "order.confirmed"
         /\ s = "release" => ev.type = "order.cancelled"
BY DEF Bus!Matching, Wiring, Names

\* A request that has something to publish stores one event, under the next number.
LEMMA PublishFacts ==
  ASSUME SagaTypeOK, BusInv, TaskInv, NEW w \in Workers, PublishEvent(w)
  PROVE  \E ev \in Event :
           /\ ev.id = Cardinality(stored) + 1 /\ ev.type = Tells[task[w].op]
           /\ ev.order = task[w].order /\ ev.total = task[w].total
           /\ task[w] \in Request /\ task[w].at = "announce" /\ task[w].op \in Telling
           /\ ev \notin stored /\ stored' = stored \cup {ev}
           /\ IsFiniteSet(stored') /\ Cardinality(stored') = Cardinality(stored) + 1
           /\ running' = running \cup {<<ev, s>> : s \in Bus!Matching(ev)}
<1> DEFINE t == task[w]
           ev == [id |-> Cardinality(stored) + 1, type |-> Tells[t.op], order |-> t.order,
                  total |-> t.total]
<1>1. Cardinality(stored) \in Nat
  BY FS_CardinalityType DEF SagaTypeOK
<1>2. t \in Request /\ t.at = "announce" /\ t.op \in Telling
  BY DEF PublishEvent, SagaTypeOK, Idle, TaskInv, Fits
<1>3. Tells[t.op] \in Types
  BY <1>2, Tables
<1>4. ev \in Event
  BY <1>1, <1>2, <1>3 DEF Event, Request
<1>5. /\ ev.id = Cardinality(stored) + 1 /\ ev.type = Tells[t.op]
      /\ ev.order = t.order /\ ev.total = t.total
  OBVIOUS
<1>6. Bus!Publish(ev, stored)
  BY DEF PublishEvent
<1> HIDE DEF ev
<1>7. ev \notin stored
  BY <1>1, <1>5 DEF BusInv
<1>8. stored' = stored \cup {ev}
      /\ running' = running \cup {<<ev, s>> : s \in Bus!Matching(ev)}
  BY <1>6 DEF Bus!Publish
<1>9. IsFiniteSet(stored') /\ Cardinality(stored') = Cardinality(stored) + 1
  BY <1>7, <1>8, FS_AddElement DEF SagaTypeOK
<1>10. QED
  BY <1>2, <1>4, <1>5, <1>7, <1>8, <1>9

\* Goroutines that begin are at their first item; those that stay, stay there.
LEMMA PlacesFacts ==
  ASSUME place \in [running -> [dealt : Nat, read : SUBSET StockRow]], Places
  PROVE  /\ place' \in [running' -> [dealt : Nat, read : SUBSET StockRow]]
         /\ \A f, t : <<f, t>> \in running \cap running' => Dealt(f, t)' = Dealt(f, t)
         /\ \A f, t : <<f, t>> \in running' \ running => Dealt(f, t)' = 0
<1>1. Beginning \in [dealt : Nat, read : SUBSET StockRow] /\ Beginning.dealt = 0
  BY DEF Beginning
<1>2. \A e \in running' : place'[e] = IF e \in running THEN place[e] ELSE Beginning
  BY DEF Places
<1>3. place' \in [running' -> [dealt : Nat, read : SUBSET StockRow]]
  BY <1>1 DEF Places
<1>4. QED
  BY <1>1, <1>2, <1>3 DEF Dealt

\* What a request does to the rest of the server: nothing before it publishes.
Inside == UNCHANGED <<goods, journal, place, bus>>

\* A new row, a new stage of the request.
LEMMA CreateFacts ==
  ASSUME SagaTypeOK, NEW w \in Workers, NEW o \in Orders, NEW total \in Totals,
         Create(w, o, total)
  PROVE  \E row \in OrderRow, t \in Request :
           /\ row.status = "draft" /\ row.total = total /\ ~ row.paid
           /\ t.at = "announce" /\ t.op = "create" /\ t.order = o
           /\ t.copy = row /\ t.total = total
           /\ order[o].status = "absent" /\ task[w] = Idle
           /\ order' = [order EXCEPT ![o] = row] /\ task' = [task EXCEPT ![w] = t]
           /\ disturbed' = disturbed /\ Inside
<1> DEFINE row == [status |-> "draft", total |-> total, paid |-> FALSE]
           t == [at |-> "announce", op |-> "create", order |-> o, copy |-> row, total |-> total]
<1>1. total \in Nat
  BY OrderSagaAssumption
<1>2. row \in OrderRow
  BY <1>1 DEF OrderRow, Statuses
<1>3. t \in Request
  BY <1>1, <1>2 DEF Request, Operations
<1>4. QED
  BY <1>2, <1>3 DEF Create, Inside

LEMMA GetOrderFacts ==
  ASSUME SagaTypeOK, NEW w \in Workers, NEW o \in Orders, NEW total \in Totals,
         NEW op \in DOMAIN Allowed, GetOrder(w, op, o, total)
  PROVE  \E t \in Request :
           /\ t.at \in {"check", "write"} /\ Fits(t) /\ task[w] = Idle
           /\ order[t.order].status # "absent"
           /\ task' = [task EXCEPT ![w] = t]
           /\ UNCHANGED <<order, disturbed>> /\ Inside
<1> DEFINE t == [at |-> IF op = "confirm" THEN "check" ELSE "write", op |-> op, order |-> o,
                 copy |-> order[o], total |-> total]
<1>1. total \in Nat /\ total # 0 /\ op \in Operations \ {"create"} /\ order[o] \in OrderRow
  BY OrderSagaAssumption, Tables DEF SagaTypeOK
<1>2. t \in Request /\ t.at \in {"check", "write"}
  BY <1>1 DEF Request
<1>3. order[o].status \in Allowed[op] /\ (op # "update" => total = order[o].total)
  BY DEF GetOrder
<1>a. order[o].status # "absent"
  BY <1>1, <1>3, AllowedAreThere
<1>4. Fits(t)
  BY <1>1, <1>3 DEF Fits
<1>5. QED
  BY <1>2, <1>4, <1>a DEF GetOrder, Inside

\* The row a request writes, and where it goes on.
LEMMA WriteFacts ==
  ASSUME SagaTypeOK, TaskInv, NEW w \in Workers, task[w].at = "write", Commit(w)
  PROVE  /\ task[w] \in Request /\ Fits(task[w]) /\ task[w].op # "create"
         /\ Written(task[w]) \in OrderRow /\ Written(task[w]).status # "absent"
         /\ task[w].op \notin Telling => task' = [task EXCEPT ![w] = Idle]
         /\ task[w].op \in Telling =>
              /\ task' = [task EXCEPT ![w] = [task[w] EXCEPT !.at = "announce"]]
              /\ [task[w] EXCEPT !.at = "announce"] \in Request
<1> DEFINE t == task[w]
<1>1. t \in Request /\ Fits(t)
  BY DEF SagaTypeOK, TaskInv, Idle
<1>2. t.op \in Operations \ {"create"}
  BY <1>1 DEF Fits, Request
<1>3. \A op \in DOMAIN Becomes : Becomes[op] \in Statuses \ {"absent"}
  BY DEF Becomes, Statuses
<1>a. t.copy.status # "absent"
  BY <1>1, <1>2, AllowedAreThere DEF Fits
<1>4. Written(t) \in OrderRow /\ Written(t).status # "absent"
  BY <1>1, <1>3, <1>a DEF Written, Request, OrderRow
<1>5. [t EXCEPT !.at = "announce"] \in Request
  BY <1>1 DEF Request
<1>6. task' = [task EXCEPT ![w] = IF t.op \in Telling THEN [t EXCEPT !.at = "announce"]
                                  ELSE Idle]
  BY Tables DEF Commit, SagaTypeOK
<1>7. QED
  BY <1>1, <1>2, <1>4, <1>5, <1>6

-----------------------------------------------------------------------------
(* The life of an order *)

\* What is written of a copy that agrees with the events agrees with them and
\* the event to come, which is the first of its type.
LEMMA WrittenAgrees ==
  ASSUME NEW t \in Request, Fits(t), t.at = "write", t.op # "refund",
         NEW told, NEW early \in BOOLEAN, Agrees(t.copy, told, early)
  PROVE  /\ t.op \notin Telling => Agrees(Written(t), told, early)
         /\ t.op \in Telling => /\ Tells[t.op] \in OnlyOnce /\ Tells[t.op] \notin told
                                /\ Agrees(Written(t), told \cup {Tells[t.op]}, early)
<1> DEFINE was == t.copy
           Good(row) == /\ t.op \notin Telling => Agrees(row, told, early)
                        /\ t.op \in Telling => /\ Tells[t.op] \in OnlyOnce
                                               /\ Tells[t.op] \notin told
                                               /\ Agrees(row, told \cup {Tells[t.op]}, early)
<1>1. /\ was.status \in Allowed[t.op] /\ was.paid \in BOOLEAN /\ was.status \in Statuses
      /\ t.op \in Operations \ {"create", "refund"}
  BY DEF Fits, Request, OrderRow
<1>2. PICK row : row = Written(t)
  OBVIOUS
<1>3. /\ row.status = IF t.op \in DOMAIN Becomes THEN Becomes[t.op] ELSE was.status
      /\ row.total = t.total
      /\ row.paid <=> (was.paid \/ t.op = "pay")
  BY <1>2 DEF Written
<1>4. was.status # "absent" /\ t.total # 0
  <2>1. was.status # "absent"
    BY <1>1, Tables DEF Operations
  <2>2. QED
    BY <2>1 DEF Agrees, Fits
<1>5. CASE t.op = "update"
  <2>1. was.status \in {"draft", "new"} /\ row.status = was.status /\ (row.paid <=> was.paid)
    BY <1>1, <1>3, <1>5, Tables
  <2>2. Good(row)
    BY <1>3, <1>4, <1>5, <2>1 DEF Agrees, Telling
  <2>3. QED
    BY <1>2, <2>2
<1>6. CASE t.op = "submit"
  <2>1. was.status = "draft" /\ row.status = "new" /\ (row.paid <=> was.paid)
    BY <1>1, <1>3, <1>6, Tables
  <2>2. Good(row)
    BY <1>3, <1>4, <1>6, <2>1 DEF Agrees, Telling
  <2>3. QED
    BY <1>2, <2>2
<1>7. CASE t.op = "confirm"
  <2>1. was.status = "new" /\ row.status = "confirmed" /\ (row.paid <=> was.paid)
        /\ Tells[t.op] = "order.confirmed"
    BY <1>1, <1>3, <1>7, Tables
  <2>2. Good(row)
    BY <1>3, <1>4, <1>7, <2>1 DEF Agrees, Telling, OnlyOnce
  <2>3. QED
    BY <1>2, <2>2
<1>8. CASE t.op = "pay"
  <2>1. was.status = "confirmed" /\ row.status = "paid" /\ Tells[t.op] = "order.paid"
    BY <1>1, <1>3, <1>8, Tables
  <2>2. row.paid
    BY <1>3, <1>8
  <2>3. Good(row)
    BY <1>3, <1>4, <1>8, <2>1, <2>2 DEF Agrees, Telling, OnlyOnce
  <2>4. QED
    BY <1>2, <2>3
<1>9. CASE t.op = "ship"
  <2>1. was.status = "paid" /\ row.status = "shipped" /\ (row.paid <=> was.paid)
    BY <1>1, <1>3, <1>9, Tables
  <2>2. Good(row)
    BY <1>3, <1>4, <1>9, <2>1 DEF Agrees, Telling
  <2>3. QED
    BY <1>2, <2>2
<1>10. CASE t.op = "deliver"
  <2>1. was.status = "shipped" /\ row.status = "delivered" /\ (row.paid <=> was.paid)
    BY <1>1, <1>3, <1>10, Tables
  <2>2. Good(row)
    BY <1>3, <1>4, <1>10, <2>1 DEF Agrees, Telling
  <2>3. QED
    BY <1>2, <2>2
<1>11. CASE t.op = "cancel"
  <2>1. was.status \in {"draft", "new", "confirmed", "paid"} /\ row.status = "cancelled"
        /\ (row.paid <=> was.paid) /\ Tells[t.op] = "order.cancelled"
    BY <1>1, <1>3, <1>11, Tables
  <2>2. Good(row)
    BY <1>3, <1>4, <1>11, <2>1 DEF Agrees, Telling, OnlyOnce
  <2>3. QED
    BY <1>2, <2>2
<1>12. QED
  BY <1>1, <1>5, <1>6, <1>7, <1>8, <1>9, <1>10, <1>11 DEF Operations

\* Nothing happens to the orders, or to what is on its way for them.
LEMMA SameLife ==
  ASSUME LifeInv, UNCHANGED <<order, stored>>, disturbed \subseteq disturbed',
         \A o \in Orders \ disturbed' : \A type \in Types : Pending(o, type)' = Pending(o, type)
  PROVE  LifeInv'
<1> SUFFICES ASSUME NEW o \in Orders \ disturbed'
             PROVE  /\ Agrees(order[o], Told(o), o \in Earlier)'
                    /\ \A type \in OnlyOnce :
                         /\ \A e, f \in Events(o, type)' : e = f
                         /\ \A v, w \in Pending(o, type)' : v = w
                         /\ Events(o, type)' = {} \/ Pending(o, type)' = {}
  BY DEF LifeInv
<1>1. o \in Orders \ disturbed
  OBVIOUS
<1>2. \A type : Events(o, type)' = Events(o, type)
  BY DEF Events
<1>3. Told(o)' = Told(o) /\ OnlyOnce \subseteq Types
  BY <1>2 DEF Told, OnlyOnce, Types
<1>4. QED
  BY <1>1, <1>2, <1>3 DEF LifeInv, Agrees

\* The request of one order is at another stage, or gone, and publishes nothing.
LEMMA StageKeepsPending ==
  ASSUME SagaTypeOK, NEW w \in Workers, NEW t \in {Idle} \cup Request,
         task' = [task EXCEPT ![w] = t], task[w].at # "announce", t.at # "announce"
  PROVE  \A o, type : Pending(o, type)' = Pending(o, type)
<1>1. /\ task'[w] = t
      /\ \A v \in Workers \ {w} : task'[v] = task[v]
  BY DEF SagaTypeOK
<1>2. QED
  BY <1>1 DEF Pending

\* The request w has its event of o to come.
LEMMA StageAddsPending ==
  ASSUME SagaTypeOK, NEW w \in Workers, NEW t \in Request,
         task' = [task EXCEPT ![w] = t], task[w].at # "announce", t.at = "announce"
  PROVE  \A o, type : Pending(o, type)' =
           IF t.order = o /\ Tells[t.op] = type THEN Pending(o, type) \cup {w} ELSE Pending(o, type)
<1>1. /\ task'[w] = t
      /\ \A v \in Workers \ {w} : task'[v] = task[v]
  BY DEF SagaTypeOK
<1> SUFFICES ASSUME NEW o, NEW type
             PROVE  Pending(o, type)' =
                      IF t.order = o /\ Tells[t.op] = type THEN Pending(o, type) \cup {w}
                      ELSE Pending(o, type)
  OBVIOUS
<1>2. QED
  BY <1>1 DEF Pending

\* The order of the request has a row that agrees with its event.
LEMMA AnnouncingKeepsLife ==
  ASSUME SagaTypeOK, LifeInv, NEW w \in Workers, NEW t \in Request, NEW row \in OrderRow,
         order' = [order EXCEPT ![t.order] = row], task' = [task EXCEPT ![w] = t],
         task[w].at # "announce", t.at = "announce", t.op \in Telling,
         stored' = stored, disturbed \subseteq disturbed',
         t.order \notin disturbed' =>
           /\ Agrees(row, Told(t.order) \cup {Tells[t.op]}, t.order \in Earlier)
           /\ Tells[t.op] \in OnlyOnce => Tells[t.op] \notin Told(t.order)
  PROVE  LifeInv'
<1> SUFFICES ASSUME NEW o \in Orders \ disturbed'
             PROVE  /\ Agrees(order[o], Told(o), o \in Earlier)'
                    /\ \A type \in OnlyOnce :
                         /\ \A e, f \in Events(o, type)' : e = f
                         /\ \A u, v \in Pending(o, type)' : u = v
                         /\ Events(o, type)' = {} \/ Pending(o, type)' = {}
  BY DEF LifeInv
<1>1. /\ Agrees(order[o], Told(o), o \in Earlier)
      /\ \A type \in OnlyOnce :
           /\ \A e, f \in Events(o, type) : e = f
           /\ \A u, v \in Pending(o, type) : u = v
           /\ Events(o, type) = {} \/ Pending(o, type) = {}
  BY DEF LifeInv
<1>2. \A type : Events(o, type)' = Events(o, type)
  BY DEF Events
<1>3. \A type : Pending(o, type)' =
        IF t.order = o /\ Tells[t.op] = type THEN Pending(o, type) \cup {w} ELSE Pending(o, type)
  <2>1. \A q, type : Pending(q, type)' =
          IF t.order = q /\ Tells[t.op] = type THEN Pending(q, type) \cup {w}
          ELSE Pending(q, type)
    BY StageAddsPending
  <2>2. QED
    BY <2>1
<1>4. OnlyOnce \subseteq Types /\ Tells[t.op] \in Types
  BY Tables DEF OnlyOnce, Types
<1>5. CASE o # t.order
  <2>1. order'[o] = order[o]
    BY <1>5 DEF SagaTypeOK
  <2>2. Told(o)' = Told(o)
    BY <1>2, <1>3, <1>5 DEF Told
  <2>3. QED
    BY <1>1, <1>2, <1>3, <1>5, <2>1, <2>2 DEF Agrees
<1>6. CASE o = t.order
  <2>1. order'[o] = row
    BY <1>6 DEF SagaTypeOK
  <2>2. Told(o)' = Told(o) \cup {Tells[t.op]}
    BY <1>2, <1>3, <1>4, <1>6 DEF Told
  <2>3. Agrees(order[o], Told(o), o \in Earlier)'
    BY <1>6, <2>1, <2>2 DEF Agrees
  <2>4. ASSUME NEW type \in OnlyOnce
        PROVE  /\ \A e, f \in Events(o, type)' : e = f
               /\ \A u, v \in Pending(o, type)' : u = v
               /\ Events(o, type)' = {} \/ Pending(o, type)' = {}
    <3>1. CASE type # Tells[t.op]
      BY <1>1, <1>2, <1>3, <3>1
    <3>2. CASE type = Tells[t.op]
      <4>1. Events(o, type) = {} /\ Pending(o, type) = {}
        BY <1>4, <1>6, <3>2 DEF Told
      <4>2. QED
        BY <1>2, <1>3, <1>6, <3>2, <4>1
    <3>3. QED
      BY <3>1, <3>2
  <2>5. QED
    BY <2>3, <2>4
<1>7. QED
  BY <1>5, <1>6

\* The event of w is stored: it is on its way no longer.
LEMMA PublishKeepsLife ==
  ASSUME SagaTypeOK, BusInv, TaskInv, LifeInv, NEW w \in Workers, PublishEvent(w)
  PROVE  LifeInv'
<1> DEFINE t == task[w]
<1>1. PICK ev \in Event :
        /\ ev.type = Tells[t.op] /\ ev.order = t.order /\ t.at = "announce" /\ t.op \in Telling
        /\ stored' = stored \cup {ev}
  BY PublishFacts
<1>0. PICK told : told = ev.type
  OBVIOUS
<1>2. UNCHANGED <<order, disturbed>> /\ task' = [task EXCEPT ![w] = Idle]
  BY DEF PublishEvent
<1>3. /\ task'[w] = Idle /\ Idle.at # "announce"
      /\ \A v \in Workers \ {w} : task'[v] = task[v]
  BY <1>2 DEF SagaTypeOK, Idle
<1>4. told \in Types /\ OnlyOnce \subseteq Types
  BY <1>0, <1>1, Tables DEF OnlyOnce, Types
<1> SUFFICES ASSUME NEW o \in Orders \ disturbed
             PROVE  /\ Agrees(order[o], Told(o), o \in Earlier)'
                    /\ \A type \in OnlyOnce :
                         /\ \A e, f \in Events(o, type)' : e = f
                         /\ \A u, v \in Pending(o, type)' : u = v
                         /\ Events(o, type)' = {} \/ Pending(o, type)' = {}
  BY <1>2 DEF LifeInv
<1>5. /\ Agrees(order[o], Told(o), o \in Earlier)
      /\ \A type \in OnlyOnce :
           /\ \A e, f \in Events(o, type) : e = f
           /\ \A u, v \in Pending(o, type) : u = v
           /\ Events(o, type) = {} \/ Pending(o, type) = {}
  BY DEF LifeInv
<1>6. ASSUME NEW type, o # ev.order \/ type # told
      PROVE  Events(o, type)' = Events(o, type) /\ Pending(o, type)' = Pending(o, type)
  <2>1. Events(o, type)' = Events(o, type)
    BY <1>0, <1>1, <1>6 DEF Events
  <2>2. w \notin Pending(o, type) /\ w \notin Pending(o, type)'
    BY <1>0, <1>1, <1>3, <1>6 DEF Pending
  <2>3. Pending(o, type)' = Pending(o, type)
    BY <1>3, <2>2 DEF Pending
  <2>4. QED
    BY <2>1, <2>3
<1>7. CASE o # ev.order
  BY <1>2, <1>5, <1>6, <1>7 DEF Told, Agrees
<1>8. CASE o = ev.order
  <2>1. /\ w \in Pending(o, told) /\ Pending(o, told)' = Pending(o, told) \ {w}
        /\ Events(o, told)' = Events(o, told) \cup {ev}
    BY <1>0, <1>1, <1>3, <1>8 DEF Pending, Events
  <2>2. Told(o)' = Told(o)
    <3>1. told \in Told(o) /\ told \in Told(o)'
      BY <1>4, <2>1 DEF Told
    <3>2. \A type \in Types \ {told} : type \in Told(o) <=> type \in Told(o)'
      BY <1>6 DEF Told
    <3>3. QED
      BY <3>1, <3>2 DEF Told
  <2>3. ASSUME NEW type \in OnlyOnce
        PROVE  /\ \A e, f \in Events(o, type)' : e = f
               /\ \A u, v \in Pending(o, type)' : u = v
               /\ Events(o, type)' = {} \/ Pending(o, type)' = {}
    <3>1. CASE type # told
      BY <1>5, <1>6, <3>1
    <3>2. CASE type = told
      <4>1. Events(o, told) = {} /\ Pending(o, told) = {w}
        BY <1>5, <2>1, <3>2
      <4>2. QED
        BY <2>1, <3>2, <4>1
    <3>3. QED
      BY <3>1, <3>2
  <2>4. QED
    BY <1>2, <1>5, <2>2, <2>3 DEF Agrees
<1>9. QED
  BY <1>7, <1>8

-----------------------------------------------------------------------------
(* The requests *)

LEMMA StageKeepsTasks ==
  ASSUME SagaTypeOK, TaskInv, NEW w \in Workers, NEW t \in {Idle} \cup Request,
         task' = [task EXCEPT ![w] = t], t # Idle => Fits(t),
         t # Idle => order'[t.order].status # "absent",
         \A o \in Orders : order[o].status # "absent" => order'[o].status # "absent"
  PROVE  TaskInv' /\ task' \in [Workers -> {Idle} \cup Request]
<1>1. task' \in [Workers -> {Idle} \cup Request]
  BY DEF SagaTypeOK
<1>2. task'[w] = t /\ \A v \in Workers \ {w} : task'[v] = task[v]
  BY DEF SagaTypeOK
<1>3. \A v \in Workers : task[v] # Idle => task[v].order \in Orders
  BY DEF SagaTypeOK, Request
<1>4. \A v \in Workers : task'[v] # Idle =>
        Fits(task'[v]) /\ order'[task'[v].order].status # "absent"
  BY <1>2, <1>3 DEF TaskInv
<1>5. QED
  BY <1>1, <1>4 DEF TaskInv, Fits, Idle

\* Outside of its orders nothing notices a request that does not publish.
LEMMA InsideKeepsInv ==
  ASSUME SagaTypeOK, SagaInv, Inside, disturbed \subseteq disturbed',
         order' \in [Orders -> OrderRow], task' \in [Workers -> {Idle} \cup Request],
         TaskInv', LifeInv'
  PROVE  SagaTypeOK' /\ SagaInv'
<1>1. UNCHANGED <<stock, moved, astray, journal, place, stored, running, handled>>
  BY DEF Inside, goods, bus
<1>2. SagaTypeOK' /\ BusInv'
  BY <1>1 DEF SagaTypeOK, SagaInv, BusInv
<1>3. MovedInv'
  BY <1>1 DEF SagaInv, MovedInv, Events, Dealt
<1>4. KeptInv'
  <2>1. \A p : Kept(p)' = Kept(p) /\ (Clean(p)' => Clean(p))
    BY <1>1 DEF Kept, Clean
  <2>2. QED
    BY <1>1, <2>1 DEF SagaInv, KeptInv
<1>5. QED
  BY <1>2, <1>3, <1>4 DEF SagaInv

\* A request that goes on before it writes, or gives up.
LEMMA StageKeepsInv ==
  ASSUME SagaTypeOK, SagaInv, NEW w \in Workers, NEW t \in {Idle} \cup Request,
         task' = [task EXCEPT ![w] = t],
         t # Idle => Fits(t) /\ order[t.order].status # "absent",
         task[w].at # "announce", t.at # "announce",
         UNCHANGED <<order, disturbed>>, Inside
  PROVE  SagaTypeOK' /\ SagaInv'
<1>1. TaskInv' /\ task' \in [Workers -> {Idle} \cup Request]
  BY StageKeepsTasks DEF SagaInv
<1>2. \A o, type : Pending(o, type)' = Pending(o, type)
  BY StageKeepsPending
<1>3. stored' = stored
  BY DEF Inside, bus
<1>4. LifeInv'
  BY <1>2, <1>3, SameLife DEF SagaInv
<1>5. order' \in [Orders -> OrderRow] /\ disturbed \subseteq disturbed'
  BY DEF SagaTypeOK
<1>6. QED
  BY <1>1, <1>4, <1>5, InsideKeepsInv

LEMMA CreateStep ==
  ASSUME SagaTypeOK, SagaInv, NEW w \in Workers, NEW o \in Orders, NEW total \in Totals,
         Create(w, o, total)
  PROVE  SagaTypeOK' /\ SagaInv'
<1>1. PICK row \in OrderRow, t \in Request :
        /\ row.status = "draft" /\ row.total = total /\ ~ row.paid
        /\ t.at = "announce" /\ t.op = "create" /\ t.order = o
        /\ t.copy = row /\ t.total = total
        /\ order[o].status = "absent" /\ task[w] = Idle
        /\ order' = [order EXCEPT ![o] = row] /\ task' = [task EXCEPT ![w] = t]
        /\ disturbed' = disturbed /\ Inside
  BY CreateFacts
<1>2. Fits(t) /\ t.op \in Telling /\ task[w].at # "announce" /\ stored' = stored
  BY <1>1 DEF Fits, Telling, Idle, Inside, bus
<1>a. order'[o] = row /\ \A q \in Orders \ {o} : order'[q] = order[q]
  BY <1>1 DEF SagaTypeOK
<1>3. TaskInv' /\ task' \in [Workers -> {Idle} \cup Request]
  BY <1>1, <1>2, <1>a, StageKeepsTasks DEF SagaInv
<1>4. ASSUME o \notin disturbed
      PROVE  /\ Agrees(row, Told(o) \cup {Tells[t.op]}, o \in Earlier)
             /\ Tells[t.op] \notin Told(o)
  <2>1. o \notin Earlier /\ Told(o) = {}
    BY <1>1, <1>4 DEF SagaInv, LifeInv, Agrees
  <2>2. Tells[t.op] = "order.created" /\ row.total # 0
    BY <1>1, Tables, OrderSagaAssumption
  <2>3. QED
    BY <1>1, <2>1, <2>2 DEF Agrees
<1>5. LifeInv'
  BY <1>1, <1>2, <1>4, AnnouncingKeepsLife DEF SagaInv
<1>6. order' \in [Orders -> OrderRow]
  BY <1>1 DEF SagaTypeOK
<1>7. QED
  BY <1>1, <1>3, <1>5, <1>6, InsideKeepsInv

\* The row is written; whoever wrote another since the copy is overwritten.
LEMMA UpdateOrderStep ==
  ASSUME SagaTypeOK, SagaInv, NEW w \in Workers, UpdateOrder(w)
  PROVE  SagaTypeOK' /\ SagaInv'
<1> DEFINE t == task[w]
           o == t.order
           row == Written(t)
           next == [t EXCEPT !.at = "announce"]
<1>1. /\ t.at = "write" /\ t.op # "refund" /\ Commit(w)
      /\ order' = [order EXCEPT ![o] = row]
      /\ disturbed' = IF t.copy = order[o] THEN disturbed ELSE disturbed \cup {o}
      /\ Inside
  BY DEF UpdateOrder, Inside
<1>2. /\ t \in Request /\ Fits(t) /\ t.op # "create" /\ row \in OrderRow
      /\ row.status # "absent"
      /\ t.op \notin Telling => task' = [task EXCEPT ![w] = Idle]
      /\ t.op \in Telling => task' = [task EXCEPT ![w] = next] /\ next \in Request
  BY <1>1, WriteFacts DEF SagaInv
<1>3. o \in Orders /\ order' \in [Orders -> OrderRow] /\ disturbed \subseteq disturbed'
      /\ stored' = stored
  BY <1>1, <1>2 DEF Request, SagaTypeOK, Inside, bus
<1>a. order'[o] = row /\ \A q \in Orders \ {o} : order'[q] = order[q]
  BY <1>1, <1>3 DEF SagaTypeOK
<1>b. \A q \in Orders : order[q].status # "absent" => order'[q].status # "absent"
  BY <1>2, <1>a
<1>4. ASSUME o \notin disturbed'
      PROVE  /\ t.op \notin Telling => Agrees(row, Told(o), o \in Earlier)
             /\ t.op \in Telling => /\ Tells[t.op] \in OnlyOnce /\ Tells[t.op] \notin Told(o)
                                    /\ Agrees(row, Told(o) \cup {Tells[t.op]}, o \in Earlier)
  <2>1. t.copy = order[o] /\ o \notin disturbed
    BY <1>1, <1>4
  <2>2. Agrees(t.copy, Told(o), o \in Earlier) /\ (o \in Earlier) \in BOOLEAN
    BY <1>3, <2>1 DEF SagaInv, LifeInv
  <2>3. QED
    BY <1>1, <1>2, <2>2, WrittenAgrees
<1> HIDE DEF row
<1>5. CASE t.op \in Telling
  <2>1. /\ next.at = "announce" /\ next.order = o /\ next.op = t.op /\ next \in Request
        /\ next.copy = t.copy /\ next.total = t.total
    BY <1>2, <1>5 DEF Request
  <2>2. Fits(next)
    BY <1>2, <1>5, <2>1 DEF Fits
  <2> HIDE DEF next
  <2>3. TaskInv' /\ task' \in [Workers -> {Idle} \cup Request]
    BY <1>2, <1>5, <1>a, <1>b, <2>1, <2>2, StageKeepsTasks DEF SagaInv
  <2>4. LifeInv'
    <3>1. LifeInv /\ order' = [order EXCEPT ![next.order] = row] /\ task[w].at # "announce"
          /\ task' = [task EXCEPT ![w] = next] /\ next.op \in Telling
      BY <1>1, <1>2, <1>5, <2>1 DEF SagaInv
    <3>2. next.order \notin disturbed' =>
            /\ Agrees(row, Told(next.order) \cup {Tells[next.op]}, next.order \in Earlier)
            /\ Tells[next.op] \in OnlyOnce => Tells[next.op] \notin Told(next.order)
      BY <1>4, <1>5, <2>1
    <3> HIDE DEF o, t
    <3>3. QED
      BY <1>2, <1>3, <2>1, <3>1, <3>2, AnnouncingKeepsLife
  <2>5. QED
    BY <1>1, <1>3, <2>3, <2>4, InsideKeepsInv
<1>6. CASE t.op \notin Telling
  <2>1. task' = [task EXCEPT ![w] = Idle] /\ Idle.at # "announce" /\ Idle \in {Idle} \cup Request
    BY <1>2, <1>6 DEF Idle
  <2>2. TaskInv' /\ task' \in [Workers -> {Idle} \cup Request]
    BY <1>b, <2>1, StageKeepsTasks DEF SagaInv
  <2>3. \A q, type : Pending(q, type)' = Pending(q, type)
    BY <1>1, <2>1, StageKeepsPending
  <2>4. LifeInv'
    <3> SUFFICES ASSUME NEW q \in Orders \ disturbed'
                 PROVE  /\ Agrees(order[q], Told(q), q \in Earlier)'
                        /\ \A type \in OnlyOnce :
                             /\ \A e, f \in Events(q, type)' : e = f
                             /\ \A u, v \in Pending(q, type)' : u = v
                             /\ Events(q, type)' = {} \/ Pending(q, type)' = {}
      BY DEF LifeInv
    <3>1. \A type : Events(q, type)' = Events(q, type)
      BY <1>3 DEF Events
    <3>2. Told(q)' = Told(q)
      BY <2>3, <3>1 DEF Told
    <3>3. q \in Orders \ disturbed
      BY <1>3
    <3>4. Agrees(order'[q], Told(q), q \in Earlier)
      <4>1. CASE q = o
        <5>1. order'[q] = row
          BY <1>a, <4>1
        <5>2. QED
          BY <1>4, <1>6, <4>1, <5>1
      <4>2. CASE q # o
        <5>1. order'[q] = order[q]
          BY <1>a, <4>2
        <5>2. QED
          BY <3>3, <5>1 DEF SagaInv, LifeInv
      <4>3. QED
        BY <4>1, <4>2
    <3>5. QED
      BY <2>3, <3>1, <3>2, <3>3, <3>4 DEF SagaInv, LifeInv, Agrees
  <2>5. QED
    BY <1>1, <1>3, <2>2, <2>4, InsideKeepsInv
<1>7. QED
  BY <1>5, <1>6

\* The order of a refund stays as it is, whatever it has become since.
LEMMA RefundStep ==
  ASSUME SagaTypeOK, SagaInv, NEW w \in Workers, Refund(w)
  PROVE  SagaTypeOK' /\ SagaInv'
<1> DEFINE t == task[w]
           next == [t EXCEPT !.at = "announce"]
<1>1. t.at = "write" /\ t.op = "refund" /\ Commit(w) /\ UNCHANGED <<order, disturbed>> /\ Inside
  BY DEF Refund, Inside
<1>2. t.op \in Telling
  BY <1>1 DEF Telling
<1>3. t \in Request /\ Fits(t) /\ task' = [task EXCEPT ![w] = next] /\ next \in Request
  BY <1>1, <1>2, WriteFacts DEF SagaInv
<1>4. /\ next.at = "announce" /\ next.order = t.order /\ next.op = t.op
      /\ next.copy = t.copy /\ next.total = t.total /\ t.order \in Orders
  BY <1>3 DEF Request
<1>5. Fits(next)
  BY <1>1, <1>2, <1>3, <1>4 DEF Fits
<1> HIDE DEF next
<1>a. order[next.order].status # "absent"
  BY <1>1, <1>4 DEF SagaInv, TaskInv, Idle
<1>6. TaskInv' /\ task' \in [Workers -> {Idle} \cup Request]
  BY <1>1, <1>3, <1>5, <1>a, StageKeepsTasks DEF SagaInv
<1>7. stored' = stored
  BY <1>1 DEF Inside, bus
<1>8. order' = [order EXCEPT ![next.order] = order[next.order]] /\ order[next.order] \in OrderRow
  BY <1>1, <1>4 DEF SagaTypeOK
<1>9. Tells[next.op] = "order.refunded" /\ "order.refunded" \notin OnlyOnce
  BY <1>1, <1>4, Tables DEF OnlyOnce
<1>10. ASSUME next.order \notin disturbed'
       PROVE  Agrees(order[next.order], Told(next.order) \cup {Tells[next.op]},
                     next.order \in Earlier)
  <2>1. Agrees(order[next.order], Told(next.order), next.order \in Earlier)
    BY <1>1, <1>4, <1>10 DEF SagaInv, LifeInv
  <2>2. QED
    BY <1>9, <1>a, <2>1 DEF Agrees
<1>11. LifeInv'
  <2>1. LifeInv /\ task[w].at # "announce" /\ next.op \in Telling /\ disturbed \subseteq disturbed'
    BY <1>1, <1>2, <1>4 DEF SagaInv
  <2> HIDE DEF t
  <2>2. QED
    BY <1>3, <1>4, <1>7, <1>8, <1>9, <1>10, <2>1, AnnouncingKeepsLife
<1>12. QED
  BY <1>1, <1>6, <1>11, InsideKeepsInv DEF SagaTypeOK

LEMMA RequestStep ==
  ASSUME SagaTypeOK, SagaInv, NEW w \in Workers,
         \/ \E o \in Orders : OrderEndpoints(w, o)
         \/ CheckAvailability(w) \/ UpdateOrder(w) \/ Refund(w) \/ Fail(w)
  PROVE  SagaTypeOK' /\ SagaInv'
<1>1. ASSUME NEW o \in Orders, NEW total \in Totals, NEW op \in DOMAIN Allowed,
             GetOrder(w, op, o, total)
      PROVE  SagaTypeOK' /\ SagaInv'
  <2>1. PICK t \in Request :
          /\ t.at \in {"check", "write"} /\ Fits(t) /\ task[w] = Idle
          /\ order[t.order].status # "absent"
          /\ task' = [task EXCEPT ![w] = t]
          /\ UNCHANGED <<order, disturbed>> /\ Inside
    BY <1>1, GetOrderFacts
  <2>2. task[w].at # "announce" /\ t.at # "announce"
    BY <2>1 DEF Idle
  <2>3. QED
    BY <2>1, <2>2, StageKeepsInv
<1>2. CASE CheckAvailability(w)
  <2> DEFINE t == task[w]
             next == [t EXCEPT !.at = "write"]
  <2>1. /\ t.at = "check" /\ task' = [task EXCEPT ![w] = next]
        /\ UNCHANGED <<order, disturbed>> /\ Inside
    BY <1>2 DEF CheckAvailability, Inside, SagaTypeOK
  <2>2. t \in Request /\ Fits(t) /\ order[t.order].status # "absent"
    BY <2>1 DEF SagaTypeOK, SagaInv, TaskInv, Idle
  <2>3. /\ next \in Request /\ next.at = "write" /\ next.order = t.order /\ next.op = t.op
        /\ next.copy = t.copy /\ next.total = t.total
    BY <2>2 DEF Request
  <2>4. Fits(next)
    BY <2>1, <2>2, <2>3 DEF Fits
  <2>5. task[w].at # "announce" /\ next.at # "announce" /\ order[next.order].status # "absent"
    BY <2>1, <2>2, <2>3
  <2> HIDE DEF next
  <2>6. QED
    BY <2>1, <2>3, <2>4, <2>5, StageKeepsInv
<1>3. CASE Fail(w)
  <2>1. /\ task' = [task EXCEPT ![w] = Idle] /\ UNCHANGED <<order, disturbed>> /\ Inside
        /\ task[w].at # "announce" /\ Idle.at # "announce"
    BY <1>3 DEF Fail, Inside, Idle
  <2>2. QED
    BY <2>1, StageKeepsInv
<1>4. QED
  BY <1>1, <1>2, <1>3, CreateStep, UpdateOrderStep, RefundStep DEF OrderEndpoints

\* An event of an order that is left in peace is the first of its type, so
\* nothing was moved for it before its goroutines begin.
LEMMA PublishStep ==
  ASSUME SagaTypeOK, SagaInv, NEW w \in Workers, PublishEvent(w)
  PROVE  SagaTypeOK' /\ SagaInv'
<1> DEFINE t == task[w]
<1>1. PICK ev \in Event :
        /\ ev.id = Cardinality(stored) + 1 /\ ev.type = Tells[t.op]
        /\ ev.order = t.order /\ ev.total = t.total
        /\ t \in Request /\ t.at = "announce" /\ t.op \in Telling
        /\ ev \notin stored /\ stored' = stored \cup {ev}
        /\ IsFiniteSet(stored') /\ Cardinality(stored') = Cardinality(stored) + 1
        /\ running' = running \cup {<<ev, s>> : s \in Bus!Matching(ev)}
  BY PublishFacts DEF SagaInv
<1>2. Cardinality(stored) \in Nat
  BY FS_CardinalityType DEF SagaTypeOK
<1>3. /\ Places /\ UNCHANGED <<order, disturbed, stock, moved, astray, journal>>
      /\ task' = [task EXCEPT ![w] = Idle]
  BY DEF PublishEvent, goods
<1>4. TaskInv' /\ task' \in [Workers -> {Idle} \cup Request]
  BY <1>3, StageKeepsTasks DEF SagaInv
<1>5. /\ place' \in [running' -> [dealt : Nat, read : SUBSET StockRow]]
      /\ \A f, u : <<f, u>> \in running \cap running' => Dealt(f, u)' = Dealt(f, u)
  BY <1>3, PlacesFacts DEF SagaTypeOK
<1>6. SagaTypeOK'
  <2>1. running' \subseteq stored' \X Names
    BY <1>1, MatchingFacts DEF SagaTypeOK
  <2>2. QED
    BY <1>1, <1>3, <1>4, <1>5, <2>1 DEF SagaTypeOK
<1>7. BusInv'
  <2>1. \A e \in stored' : e.id <= Cardinality(stored')
    BY <1>1, <1>2 DEF SagaInv, BusInv, SagaTypeOK, Event
  <2>2. \A e, f \in stored' : e.id = f.id => e = f
    BY <1>1, <1>2 DEF SagaInv, BusInv, SagaTypeOK, Event
  <2>3. ASSUME NEW e \in stored'
        PROVE  /\ <<e, "reserve">> \in running' => e.type = "order.confirmed"
               /\ <<e, "release">> \in running' => e.type = "order.cancelled"
    <3>1. CASE e \in stored
      <4>1. \A s : <<e, s>> \in running' => <<e, s>> \in running
        BY <1>1, <3>1
      <4>2. QED
        BY <3>1, <4>1 DEF SagaInv, BusInv
    <3>2. CASE e = ev
      <4>1. \A s : <<ev, s>> \in running' => s \in Bus!Matching(ev)
        BY <1>1 DEF SagaTypeOK
      <4>2. QED
        BY <3>2, <4>1, MatchingFacts
    <3>3. QED
      BY <1>1, <3>1, <3>2
  <2>4. QED
    BY <2>1, <2>2, <2>3 DEF BusInv
<1>8. LifeInv'
  BY PublishKeepsLife DEF SagaInv
<1>9. MovedInv'
  <2>1. \A o, type : Events(o, type) \subseteq Events(o, type)'
    BY <1>1 DEF Events
  <2>2. ASSUME NEW e \in stored', NEW s \in {"reserve", "release"}, NEW p \in Products,
               e.order \notin disturbed, <<e, s>> \in running', <<s, e.order, p>> \in moved
        PROVE  \E i \in DOMAIN ItemsOf[e.order] :
                 i <= Dealt(e, s)' /\ ItemsOf[e.order][i] = p
    <3>1. CASE e \in stored
      <4>1. <<e, s>> \in running
        BY <1>1, <2>2, <3>1
      <4>2. Dealt(e, s)' = Dealt(e, s)
        BY <1>5, <2>2, <4>1
      <4>3. \A x \in stored, u \in {"reserve", "release"}, q \in Products :
              x.order \notin disturbed /\ <<x, u>> \in running /\ <<u, x.order, q>> \in moved =>
                \E i \in DOMAIN ItemsOf[x.order] : i <= Dealt(x, u) /\ ItemsOf[x.order][i] = q
        BY DEF SagaInv, MovedInv
      <4>4. \E i \in DOMAIN ItemsOf[e.order] : i <= Dealt(e, s) /\ ItemsOf[e.order][i] = p
        BY <2>2, <3>1, <4>1, <4>3, Zenon
      <4>5. QED
        BY <4>2, <4>4
    <3>2. CASE e = ev
      <4>1. s \in Bus!Matching(ev)
        BY <1>1, <2>2, <3>2 DEF SagaTypeOK
      <4>2. /\ s = "reserve" => ev.type = "order.confirmed"
            /\ s = "release" => ev.type = "order.cancelled"
        BY <4>1, MatchingFacts
      <4>3. ev.order \in Orders
        BY DEF Event
      <4>4. Events(ev.order, ev.type) # {} /\ ev.type \in OnlyOnce
        BY <2>2, <3>2, <4>2, <4>3 DEF SagaInv, MovedInv, OnlyOnce
      <4>5. w \in Pending(ev.order, ev.type)
        BY <1>1 DEF Pending
      <4>6. QED
        BY <2>2, <3>2, <4>3, <4>4, <4>5 DEF SagaInv, LifeInv
    <3>3. QED
      BY <1>1, <3>1, <3>2, <2>2
  <2>3. QED
    BY <1>3, <2>1, <2>2 DEF SagaInv, MovedInv
<1>10. KeptInv'
  BY <1>3 DEF SagaInv, KeptInv, Kept, Clean
<1>11. QED
  BY <1>4, <1>6, <1>7, <1>8, <1>9, <1>10 DEF SagaInv

\* The requests and goroutines are gone, and the events they had to publish.
LEMMA CrashStep ==
  ASSUME SagaTypeOK, SagaInv, Crash
  PROVE  SagaTypeOK' /\ SagaInv'
<1>1. /\ running' = {} /\ stored' = stored /\ Places
      /\ UNCHANGED <<order, stock, moved, astray, journal>>
      /\ task' = [w \in Workers |-> Idle]
      /\ disturbed' = disturbed \cup {task[w].order : w \in Committed}
  BY DEF Crash, Bus!LoseHandlers, goods
<1>2. place' \in [running' -> [dealt : Nat, read : SUBSET StockRow]]
  BY <1>1, PlacesFacts DEF SagaTypeOK
<1>3. SagaTypeOK'
  BY <1>1, <1>2 DEF SagaTypeOK
<1>4. BusInv' /\ TaskInv'
  BY <1>1 DEF SagaInv, BusInv, TaskInv
<1>5. LifeInv'
  <2>1. \A o, type : Pending(o, type)' = {}
    BY <1>1 DEF Pending, Idle
  <2>2. \A o \in Orders \ disturbed', type \in Types : Pending(o, type) = {}
    BY <1>1 DEF Pending, Committed, Busy, Idle
  <2>3. QED
    BY <1>1, <2>1, <2>2, SameLife DEF SagaInv
<1>6. MovedInv'
  BY <1>1 DEF SagaInv, MovedInv, Events
<1>7. KeptInv'
  BY <1>1 DEF SagaInv, KeptInv, Kept, Clean
<1>8. QED
  BY <1>3, <1>4, <1>5, <1>6, <1>7 DEF SagaInv

-----------------------------------------------------------------------------
(* The goroutines *)

\* The goroutine has read a row, or has an item behind it, or ends; the others
\* stay where they are.
Walks(ev, s) ==
    /\ <<ev, s>> \in running
    /\ UNCHANGED <<order, task, disturbed, stored>>
    /\ running' \in {running, running \ {<<ev, s>>}}
    /\ place' \in [running' -> [dealt : Nat, read : SUBSET StockRow]]
    /\ \A f, t : <<f, t>> \in running' => Dealt(f, t) <= Dealt(f, t)'

LEMMA WalkTypes ==
  ASSUME SagaTypeOK, NEW ev, NEW s, <<ev, s>> \in running
  PROVE  /\ ev \in stored /\ ev \in Event /\ s \in Names
         /\ place[<<ev, s>>] \in [dealt : Nat, read : SUBSET StockRow]
         /\ Dealt(ev, s) \in Nat /\ Read(ev, s) \subseteq StockRow
         /\ \A f, t : <<f, t>> \in running => Dealt(f, t) \in Nat
BY DEF SagaTypeOK, Dealt, Read

\* The goroutine takes another place, and the others keep theirs.
LEMMA PlaceWalks ==
  ASSUME SagaTypeOK, NEW ev, NEW s, <<ev, s>> \in running,
         NEW here \in [dealt : Nat, read : SUBSET StockRow], Dealt(ev, s) <= here.dealt,
         place' = [place EXCEPT ![<<ev, s>>] = here],
         UNCHANGED <<orders, bus>>
  PROVE  Walks(ev, s) /\ Dealt(ev, s)' = here.dealt
<1>1. UNCHANGED <<order, task, disturbed, stored, running>>
  BY DEF orders, bus
<1>2. place' \in [running' -> [dealt : Nat, read : SUBSET StockRow]]
  BY <1>1 DEF SagaTypeOK
<1>3. \A e \in running : place'[e] = IF e = <<ev, s>> THEN here ELSE place[e]
  BY DEF SagaTypeOK
<1>4. Dealt(ev, s)' = here.dealt
  BY <1>3 DEF Dealt
<1>5. ASSUME NEW f, NEW t, <<f, t>> \in running
      PROVE  Dealt(f, t) <= Dealt(f, t)'
  <2>1. CASE <<f, t>> = <<ev, s>>
    BY <1>3, <2>1 DEF Dealt
  <2>2. CASE <<f, t>> # <<ev, s>>
    <3>1. Dealt(f, t)' = Dealt(f, t)
      BY <1>3, <1>5, <2>2 DEF Dealt
    <3>2. Dealt(f, t) \in Nat
      BY <1>5, WalkTypes
    <3>3. QED
      BY <3>1, <3>2
  <2>3. QED
    BY <2>1, <2>2
<1>6. QED
  BY <1>1, <1>2, <1>4, <1>5 DEF Walks

\* It ends.
LEMMA EndWalks ==
  ASSUME SagaTypeOK, NEW ev, NEW s, Bus!EndHandler(ev, s), Places, UNCHANGED orders
  PROVE  Walks(ev, s) /\ <<ev, s>> \notin running'
<1>1. /\ <<ev, s>> \in running /\ running' = running \ {<<ev, s>>}
      /\ UNCHANGED <<order, task, disturbed, stored>>
  BY DEF Bus!EndHandler, orders
<1>2. /\ place' \in [running' -> [dealt : Nat, read : SUBSET StockRow]]
      /\ \A f, t : <<f, t>> \in running \cap running' => Dealt(f, t)' = Dealt(f, t)
  BY PlacesFacts DEF SagaTypeOK
<1>3. ASSUME NEW f, NEW t, <<f, t>> \in running'
      PROVE  Dealt(f, t) <= Dealt(f, t)'
  <2>1. <<f, t>> \in running
    BY <1>1, <1>3
  <2>2. Dealt(f, t)' = Dealt(f, t) /\ Dealt(f, t) \in Nat
    BY <1>2, <1>3, <2>1, WalkTypes
  <2>3. QED
    BY <2>2
<1>4. QED
  BY <1>1, <1>2, <1>3 DEF Walks

\* It has its item behind it.
LEMMA NextItemWalks ==
  ASSUME SagaTypeOK, NEW ev, NEW s, NEW p, At(ev, s, p), NextItem(ev, s), UNCHANGED orders
  PROVE  Walks(ev, s) /\ (<<ev, s>> \in running' => Dealt(ev, s)' = Dealt(ev, s) + 1)
<1>1. <<ev, s>> \in running /\ Dealt(ev, s) \in Nat
  BY WalkTypes DEF At
<1>2. CASE Bus!EndHandler(ev, s) /\ Places
  BY <1>2, EndWalks
<1>3. CASE /\ place' = [place EXCEPT ![<<ev, s>>] = [dealt |-> Dealt(ev, s) + 1, read |-> {}]]
           /\ UNCHANGED bus
  <2>0. PICK here : here = [dealt |-> Dealt(ev, s) + 1, read |-> {}]
    OBVIOUS
  <2>1. here \in [dealt : Nat, read : SUBSET StockRow] /\ here.dealt = Dealt(ev, s) + 1
    BY <1>1, <2>0
  <2>2. Dealt(ev, s) <= here.dealt
    <3>1. PICK n \in Nat : n = Dealt(ev, s)
      BY <1>1
    <3>2. QED
      BY <2>1, <3>1
  <2>3. place' = [place EXCEPT ![<<ev, s>>] = here]
    BY <1>3, <2>0
  <2>4. UNCHANGED <<orders, bus>>
    BY <1>3
  <2>5. Walks(ev, s) /\ Dealt(ev, s)' = here.dealt
    BY <1>1, <2>1, <2>2, <2>3, <2>4, PlaceWalks
  <2>6. QED
    BY <2>1, <2>5
<1>4. QED
  BY <1>2, <1>3 DEF NextItem

\* The bus and the orders do not change while goroutines work.
LEMMA WalkKeepsBus ==
  ASSUME BusInv, TaskInv, LifeInv, NEW ev, NEW s, Walks(ev, s)
  PROVE  BusInv' /\ TaskInv' /\ LifeInv'
<1>1. running' \subseteq running /\ UNCHANGED <<order, task, disturbed, stored>>
  BY DEF Walks
<1>2. BusInv' /\ TaskInv'
  BY <1>1 DEF BusInv, TaskInv
<1>3. LifeInv'
  BY <1>1, SameLife DEF Pending
<1>4. QED
  BY <1>2, <1>3

\* What a goroutine has behind it stays behind it.
LEMMA BehindStays ==
  ASSUME SagaTypeOK, MovedInv, NEW ev, NEW s, Walks(ev, s),
         NEW f \in stored, NEW t \in {"reserve", "release"}, NEW p \in Products,
         f.order \notin disturbed, <<f, t>> \in running', <<t, f.order, p>> \in moved
  PROVE  \E i \in DOMAIN ItemsOf[f.order] : i <= Dealt(f, t)' /\ ItemsOf[f.order][i] = p
<1>1. <<f, t>> \in running /\ Dealt(f, t) <= Dealt(f, t)'
  BY DEF Walks
<1>2. PICK i \in DOMAIN ItemsOf[f.order] : i <= Dealt(f, t) /\ ItemsOf[f.order][i] = p
  <2>1. \A x \in stored, u \in {"reserve", "release"}, q \in Products :
          x.order \notin disturbed /\ <<x, u>> \in running /\ <<u, x.order, q>> \in moved =>
            \E i \in DOMAIN ItemsOf[x.order] : i <= Dealt(x, u) /\ ItemsOf[x.order][i] = q
    BY DEF MovedInv
  <2>2. QED
    BY <1>1, <2>1, Zenon
<1>3. f.order \in Orders /\ ItemsOf[f.order] \in Seq(Products)
  BY OrderSagaAssumption DEF SagaTypeOK, Event
<1>4. i \in Nat /\ Dealt(f, t) \in Nat
  <2>1. Dealt(f, t) \in Nat
    BY <1>1, WalkTypes
  <2>2. QED
    BY <1>3, <2>1
<1>5. Dealt(f, t)' \in Nat
  BY DEF Walks, Dealt
<1>6. i <= Dealt(f, t)'
  BY <1>1, <1>2, <1>4, <1>5
<1>7. QED
  BY <1>2, <1>6

\* The goroutine that is at an item of an order left in peace has not moved it
\* before, nor has another one.
LEMMA NotYetMoved ==
  ASSUME SagaTypeOK, MovedInv, NEW ev, NEW s \in {"reserve", "release"},
         NEW p \in Products, At(ev, s, p)
  PROVE  /\ ev \in stored /\ ev.order \in Orders /\ p \in Items(ev.order)
         /\ ev.order \notin disturbed => <<s, ev.order, p>> \notin moved
         /\ Dealt(ev, s) + 1 \in DOMAIN ItemsOf[ev.order]
         /\ ItemsOf[ev.order][Dealt(ev, s) + 1] = p
<1> DEFINE n == Dealt(ev, s)
           o == ev.order
<1>1. ev \in stored /\ o \in Orders /\ n \in Nat /\ <<ev, s>> \in running
  <2>1. <<ev, s>> \in running
    BY DEF At
  <2>2. ev \in stored /\ ev \in Event /\ n \in Nat
    BY <2>1, WalkTypes
  <2>3. QED
    BY <2>1, <2>2 DEF Event
<1>2. ItemsOf[o] \in Seq(Products) /\ n < Len(ItemsOf[o]) /\ ItemsOf[o][n + 1] = p
  BY <1>1, OrderSagaAssumption DEF At
<1>3. n + 1 \in DOMAIN ItemsOf[o]
  BY <1>1, <1>2
<1>4. \A i \in DOMAIN ItemsOf[o] : i <= n => i # n + 1
  BY <1>1, <1>2
<1>5. \A i \in DOMAIN ItemsOf[o] : ItemsOf[o][i] = ItemsOf[o][n + 1] => i = n + 1
  BY <1>1, <1>3, OrderSagaAssumption
<1>6. o \notin disturbed /\ <<s, o, p>> \in moved =>
        \E i \in DOMAIN ItemsOf[o] : i <= n /\ ItemsOf[o][i] = p
  BY <1>1 DEF MovedInv
<1>7. p \in Items(o)
  BY <1>2, <1>3 DEF Items
<1>8. QED
  BY <1>1, <1>2, <1>3, <1>4, <1>5, <1>6, <1>7

\* It moves the item and has it behind it.
LEMMA MoveKeepsMoved ==
  ASSUME SagaTypeOK, SagaInv, NEW ev, NEW s \in {"reserve", "release"},
         NEW p \in Products, At(ev, s, p), Walks(ev, s),
         <<ev, s>> \in running' => Dealt(ev, s)' = Dealt(ev, s) + 1,
         moved' = moved \cup {<<s, ev.order, p>>}
  PROVE  MovedInv' /\ moved' \subseteq {"reserve", "release"} \X Orders \X Products
<1> DEFINE o == ev.order
           n == Dealt(ev, s)
<1>1. /\ ev \in stored /\ o \in Orders /\ p \in Items(o)
      /\ n + 1 \in DOMAIN ItemsOf[o] /\ ItemsOf[o][n + 1] = p
  BY NotYetMoved DEF SagaInv
<1>2. running' \subseteq running /\ stored' = stored /\ order' = order /\ disturbed' = disturbed
  BY DEF Walks
<1>3. /\ s = "reserve" => ev.type = "order.confirmed"
      /\ s = "release" => ev.type = "order.cancelled"
  BY <1>1 DEF At, SagaInv, BusInv
<1>4. ASSUME NEW q \in Orders, NEW r \in Products
      PROVE  /\ <<"reserve", q, r>> \in moved' =>
                  Events(q, "order.confirmed")' # {} /\ r \in Items(q)
             /\ <<"release", q, r>> \in moved' =>
                  Events(q, "order.cancelled")' # {} /\ r \in Items(q)
  <2>1. /\ <<"reserve", q, r>> \in moved => Events(q, "order.confirmed") # {} /\ r \in Items(q)
        /\ <<"release", q, r>> \in moved => Events(q, "order.cancelled") # {} /\ r \in Items(q)
    BY DEF SagaInv, MovedInv
  <2>2. \A type : Events(q, type)' = Events(q, type)
    BY <1>2 DEF Events
  <2>3. ev \in Events(o, ev.type)
    BY <1>1 DEF Events
  <2>4. QED
    BY <1>1, <1>3, <2>1, <2>2, <2>3
<1>5. ASSUME NEW f \in stored, NEW t \in {"reserve", "release"}, NEW r \in Products,
             f.order \notin disturbed, <<f, t>> \in running', <<t, f.order, r>> \in moved'
      PROVE  \E i \in DOMAIN ItemsOf[f.order] : i <= Dealt(f, t)' /\ ItemsOf[f.order][i] = r
  <2>1. CASE <<t, f.order, r>> \in moved
    BY <1>5, <2>1, BehindStays DEF SagaInv
  <2>2. CASE t = s /\ f.order = o /\ r = p
    <3>1. f.type = ev.type /\ ev.type \in OnlyOnce
      BY <1>2, <1>3, <1>5, <2>2 DEF SagaInv, BusInv, OnlyOnce
    <3>2. f \in Events(o, ev.type) /\ ev \in Events(o, ev.type)
      BY <1>1, <2>2, <3>1 DEF Events
    <3>3. f = ev
      BY <1>1, <1>5, <2>2, <3>1, <3>2 DEF SagaInv, LifeInv
    <3>4. Dealt(f, t)' = n + 1 /\ n \in Nat
      BY <1>2, <1>5, <2>2, <3>3, WalkTypes
    <3>5. n + 1 <= n + 1
      BY <3>4
    <3>6. QED
      BY <1>1, <2>2, <3>4, <3>5
  <2>3. QED
    BY <1>5, <2>1, <2>2
<1>6. moved' \subseteq {"reserve", "release"} \X Orders \X Products
  BY <1>1 DEF SagaTypeOK
<1>7. QED
  BY <1>2, <1>4, <1>5, <1>6 DEF MovedInv

-----------------------------------------------------------------------------
(* Counting what is reserved *)

LEMMA ReserveKeepsKept ==
  ASSUME SagaTypeOK, KeptInv, NEW o \in Orders, NEW p \in Products, NEW row \in StockRow,
         p \in Items(o), o \notin disturbed => <<"reserve", o, p>> \notin moved,
         moved' = moved \cup {<<"reserve", o, p>>}, disturbed' = disturbed,
         UpsertStockLevel(p, row, [row EXCEPT !.reserved = @ + 1], FALSE)
  PROVE  KeptInv'
<1> SUFFICES ASSUME NEW q \in Products, Clean(q)'
             PROVE  /\ \A c \in Orders : <<"release", c, q>> \in moved' =>
                                           <<"reserve", c, q>> \in moved'
                    /\ IsFiniteSet(Kept(q)')
                    /\ stock'[q].reserved = Cardinality(Kept(q)')
  BY DEF KeptInv, Kept
<1>0. /\ stock' = [stock EXCEPT ![p] = [row EXCEPT !.reserved = @ + 1]]
      /\ astray' = IF row # stock[p] THEN astray \cup {p} ELSE astray
  BY DEF UpsertStockLevel
<1>1. Clean(q)
  BY <1>0 DEF Clean
<1>2. /\ \A c \in Orders : <<"release", c, q>> \in moved => <<"reserve", c, q>> \in moved
      /\ IsFiniteSet(Kept(q)) /\ stock[q].reserved = Cardinality(Kept(q))
  BY <1>1 DEF KeptInv
<1>3. \A c \in Orders : <<"release", c, q>> \in moved' => <<"reserve", c, q>> \in moved'
  BY <1>2
<1>4. CASE q = p
  <2>1. <<"reserve", o, p>> \notin moved /\ row = stock[p]
    BY <1>0, <1>4 DEF Clean
  <2>2. Kept(p)' = Kept(p) \cup {o} /\ o \notin Kept(p)
    BY <1>2, <1>4, <2>1 DEF Kept
  <2>3. stock'[p].reserved = stock[p].reserved + 1
    BY <1>0, <2>1 DEF SagaTypeOK, StockRow
  <2>4. QED
    BY <1>2, <1>3, <1>4, <2>2, <2>3, FS_AddElement
<1>5. CASE q # p
  <2>1. Kept(q)' = Kept(q) /\ stock'[q] = stock[q]
    BY <1>0, <1>5 DEF Kept, SagaTypeOK
  <2>2. QED
    BY <1>2, <1>3, <2>1
<1>6. QED
  BY <1>4, <1>5

LEMMA ReleaseKeepsKept ==
  ASSUME SagaTypeOK, KeptInv, NEW o \in Orders, NEW p \in Products, NEW row \in StockRow,
         p \in Items(o), o \notin disturbed => <<"release", o, p>> \notin moved,
         moved' = moved \cup {<<"release", o, p>>}, disturbed' = disturbed,
         UpsertStockLevel(p, row, [row EXCEPT !.reserved = IF @ < 1 THEN 0 ELSE @ - 1],
                          <<"reserve", o, p>> \notin moved)
  PROVE  KeptInv'
<1> SUFFICES ASSUME NEW q \in Products, Clean(q)'
             PROVE  /\ \A c \in Orders : <<"release", c, q>> \in moved' =>
                                           <<"reserve", c, q>> \in moved'
                    /\ IsFiniteSet(Kept(q)')
                    /\ stock'[q].reserved = Cardinality(Kept(q)')
  BY DEF KeptInv, Kept
<1>0. /\ stock' = [stock EXCEPT ![p] = [row EXCEPT !.reserved = IF @ < 1 THEN 0 ELSE @ - 1]]
      /\ astray' = IF row # stock[p] \/ <<"reserve", o, p>> \notin moved
                   THEN astray \cup {p} ELSE astray
  BY DEF UpsertStockLevel
<1>1. Clean(q)
  BY <1>0 DEF Clean
<1>2. /\ \A c \in Orders : <<"release", c, q>> \in moved => <<"reserve", c, q>> \in moved
      /\ IsFiniteSet(Kept(q)) /\ stock[q].reserved = Cardinality(Kept(q))
  BY <1>1 DEF KeptInv
<1>3. q = p => <<"reserve", o, p>> \in moved /\ <<"release", o, p>> \notin moved /\ row = stock[p]
  BY <1>0 DEF Clean
<1>4. \A c \in Orders : <<"release", c, q>> \in moved' => <<"reserve", c, q>> \in moved'
  BY <1>2, <1>3
<1>5. CASE q = p
  <2>1. Kept(p)' = Kept(p) \ {o} /\ o \in Kept(p)
    BY <1>3, <1>5 DEF Kept
  <2>2. /\ IsFiniteSet(Kept(p)') /\ Cardinality(Kept(p)') = Cardinality(Kept(p)) - 1
        /\ Cardinality(Kept(p)') \in Nat /\ Cardinality(Kept(p)) \in Nat
    BY <1>2, <1>5, <2>1, FS_RemoveElement, FS_CardinalityType
  <2>3. stock'[p].reserved = IF stock[p].reserved < 1 THEN 0 ELSE stock[p].reserved - 1
    BY <1>0, <1>3, <1>5 DEF SagaTypeOK, StockRow
  <2>4. QED
    BY <1>2, <1>4, <1>5, <2>2, <2>3
<1>6. CASE q # p
  <2>1. Kept(q)' = Kept(q) /\ stock'[q] = stock[q]
    BY <1>0, <1>6 DEF Kept, SagaTypeOK
  <2>2. QED
    BY <1>2, <1>4, <2>1
<1>7. QED
  BY <1>5, <1>6

\* Goods come back; unless the row went astray what is reserved stays.
LEMMA ReturnKeepsKept ==
  ASSUME SagaTypeOK, KeptInv, NEW p \in Products, NEW row \in StockRow,
         moved' = moved, disturbed' = disturbed,
         UpsertStockLevel(p, row, [row EXCEPT !.quantity = @ + 1], FALSE)
  PROVE  KeptInv'
<1>1. /\ stock' = [stock EXCEPT ![p] = [row EXCEPT !.quantity = @ + 1]]
      /\ astray' = IF row # stock[p] THEN astray \cup {p} ELSE astray
  BY DEF UpsertStockLevel
<1>2. ASSUME NEW q \in Products, Clean(q)'
      PROVE  Clean(q) /\ Kept(q)' = Kept(q) /\ stock'[q].reserved = stock[q].reserved
  BY <1>1, <1>2 DEF Clean, Kept, SagaTypeOK, StockRow
<1>3. QED
  BY <1>2 DEF KeptInv

-----------------------------------------------------------------------------
(* All steps *)

\* A goroutine that moves nothing between the orders and the stock.
LEMMA WalkKeepsInv ==
  ASSUME SagaTypeOK, SagaInv, NEW ev, NEW s, Walks(ev, s), UNCHANGED goods
  PROVE  SagaTypeOK' /\ SagaInv'
<1>1. UNCHANGED <<order, task, disturbed, stored, stock, moved, astray>>
      /\ running' \subseteq running
  BY DEF Walks, goods
<1>2. SagaTypeOK'
  BY <1>1 DEF SagaTypeOK, Walks
<1>3. MovedInv'
  <2>1. \A f \in stored, t \in {"reserve", "release"}, p \in Products :
          f.order \notin disturbed /\ <<f, t>> \in running' /\ <<t, f.order, p>> \in moved =>
            \E i \in DOMAIN ItemsOf[f.order] : i <= Dealt(f, t)' /\ ItemsOf[f.order][i] = p
    BY BehindStays DEF SagaInv
  <2>2. \A o, type : Events(o, type)' = Events(o, type)
    BY <1>1 DEF Events
  <2>3. QED
    BY <1>1, <2>1, <2>2 DEF SagaInv, MovedInv
<1>4. KeptInv'
  BY <1>1 DEF SagaInv, KeptInv, Kept, Clean
<1>5. QED
  BY <1>2, <1>3, <1>4, WalkKeepsBus DEF SagaInv

\* A goroutine that reserves or releases an item.
LEMMA MoveKeepsInv ==
  ASSUME SagaTypeOK, SagaInv, NEW ev, NEW s \in {"reserve", "release"},
         NEW p \in Products, At(ev, s, p), NextItem(ev, s), UNCHANGED orders,
         moved' = moved \cup {<<s, ev.order, p>>}, KeptInv',
         stock' \in [Products -> StockRow]
  PROVE  SagaTypeOK' /\ SagaInv'
<1>1. Walks(ev, s) /\ (<<ev, s>> \in running' => Dealt(ev, s)' = Dealt(ev, s) + 1)
  BY NextItemWalks
<1>2. MovedInv' /\ moved' \subseteq {"reserve", "release"} \X Orders \X Products
  BY <1>1, MoveKeepsMoved
<1>3. SagaTypeOK'
  BY <1>1, <1>2 DEF SagaTypeOK, Walks
<1>4. QED
  BY <1>1, <1>2, <1>3, WalkKeepsBus DEF SagaInv

\* A row is written: the product is At's, the copy a row that was read.
LEMMA UpsertTypes ==
  ASSUME SagaTypeOK, NEW p \in Products, NEW copy \in StockRow, NEW row \in StockRow,
         NEW amiss, UpsertStockLevel(p, copy, row, amiss)
  PROVE  stock' \in [Products -> StockRow]
BY DEF UpsertStockLevel, SagaTypeOK

LEMMA GoroutineStep ==
  ASSUME SagaTypeOK, SagaInv, NEW ev, NEW s, <<ev, s>> \in running, Goroutine(ev, s)
  PROVE  SagaTypeOK' /\ SagaInv'
<1>1. ASSUME NEW p \in Products, GetStockLevel(ev, s, p)
      PROVE  SagaTypeOK' /\ SagaInv'
  <2>1. PICK row \in {stock[p]} \cup {[quantity |-> 0, reserved |-> 0] : x \in {s} \cap {"refund"}} :
          place' = [place EXCEPT ![<<ev, s>>].read = {row}]
    BY <1>1 DEF GetStockLevel
  <2>2. row \in StockRow
    BY <2>1 DEF SagaTypeOK, StockRow
  <2>3. PICK here : here = [place[<<ev, s>>] EXCEPT !.read = {row}]
    OBVIOUS
  <2>4. place[<<ev, s>>] \in [dealt : Nat, read : SUBSET StockRow]
    BY WalkTypes
  <2>5. here \in [dealt : Nat, read : SUBSET StockRow] /\ here.dealt = Dealt(ev, s)
    BY <2>2, <2>3, <2>4 DEF Dealt
  <2>6. place' = [place EXCEPT ![<<ev, s>>] = here] /\ UNCHANGED <<orders, bus>> /\ UNCHANGED goods
    BY <1>1, <2>1, <2>3 DEF GetStockLevel
  <2>7. Dealt(ev, s) <= here.dealt
    <3>1. here.dealt \in Nat
      BY <2>5
    <3>2. QED
      BY <2>5, <3>1
  <2>8. Walks(ev, s)
    BY <2>5, <2>6, <2>7, PlaceWalks
  <2>9. QED
    BY <2>6, <2>8, WalkKeepsInv
<1>2. ASSUME NEW p \in Products, SkipItem(ev, s, p)
      PROVE  SagaTypeOK' /\ SagaInv'
  <2>1. Walks(ev, s) /\ UNCHANGED goods
    BY <1>2, NextItemWalks DEF SkipItem
  <2>2. QED
    BY <2>1, WalkKeepsInv
<1>3. ASSUME NEW p \in Products, Reserve(ev, p)
      PROVE  SagaTypeOK' /\ SagaInv'
  <2>1. /\ At(ev, "reserve", p) /\ NextItem(ev, "reserve") /\ UNCHANGED orders
        /\ moved' = moved \cup {<<"reserve", ev.order, p>>}
    BY <1>3 DEF Reserve
  <2>2. PICK row \in Read(ev, "reserve") :
          UpsertStockLevel(p, row, [row EXCEPT !.reserved = @ + 1], FALSE)
    BY <1>3 DEF Reserve
  <2>3. row \in StockRow /\ [row EXCEPT !.reserved = @ + 1] \in StockRow
    <3>1. Read(ev, "reserve") \subseteq StockRow
      BY <2>1, WalkTypes DEF At
    <3>2. row \in StockRow
      BY <3>1
    <3>3. QED
      BY <3>2 DEF StockRow
  <2>4. /\ ev.order \in Orders /\ p \in Items(ev.order)
        /\ ev.order \notin disturbed => <<"reserve", ev.order, p>> \notin moved
    BY <2>1, NotYetMoved DEF SagaInv
  <2>5. disturbed' = disturbed
    BY <2>1 DEF orders
  <2>6. KeptInv'
    BY <2>1, <2>2, <2>3, <2>4, <2>5, ReserveKeepsKept DEF SagaInv
  <2>7. stock' \in [Products -> StockRow]
    BY <2>2, <2>3, UpsertTypes
  <2>8. QED
    BY <2>1, <2>6, <2>7, MoveKeepsInv
<1>4. ASSUME NEW p \in Products, Unreserve(ev, p)
      PROVE  SagaTypeOK' /\ SagaInv'
  <2>1. /\ At(ev, "release", p) /\ NextItem(ev, "release") /\ UNCHANGED orders
        /\ moved' = moved \cup {<<"release", ev.order, p>>}
    BY <1>4 DEF Unreserve
  <2>2. PICK row \in Read(ev, "release") :
          UpsertStockLevel(p, row, [row EXCEPT !.reserved = IF @ < 1 THEN 0 ELSE @ - 1],
                           <<"reserve", ev.order, p>> \notin moved)
    BY <1>4 DEF Unreserve
  <2>3. row \in StockRow /\ [row EXCEPT !.reserved = IF @ < 1 THEN 0 ELSE @ - 1] \in StockRow
    <3>1. Read(ev, "release") \subseteq StockRow
      BY <2>1, WalkTypes DEF At
    <3>2. row \in StockRow
      BY <3>1
    <3>3. QED
      BY <3>2 DEF StockRow
  <2>4. /\ ev.order \in Orders /\ p \in Items(ev.order)
        /\ ev.order \notin disturbed => <<"release", ev.order, p>> \notin moved
    BY <2>1, NotYetMoved DEF SagaInv
  <2>5. disturbed' = disturbed
    BY <2>1 DEF orders
  <2>6. KeptInv'
    BY <2>1, <2>2, <2>3, <2>4, <2>5, ReleaseKeepsKept DEF SagaInv
  <2>7. stock' \in [Products -> StockRow]
    BY <2>2, <2>3, UpsertTypes
  <2>8. QED
    BY <2>1, <2>6, <2>7, MoveKeepsInv
<1>5. ASSUME NEW p \in Products, ReturnItem(ev, p)
      PROVE  SagaTypeOK' /\ SagaInv'
  <2>1. /\ At(ev, "refund", p) /\ NextItem(ev, "refund") /\ UNCHANGED orders /\ moved' = moved
    BY <1>5 DEF ReturnItem
  <2>2. PICK row \in Read(ev, "refund") :
          UpsertStockLevel(p, row, [row EXCEPT !.quantity = @ + 1], FALSE)
    BY <1>5 DEF ReturnItem
  <2>3. row \in StockRow /\ [row EXCEPT !.quantity = @ + 1] \in StockRow
    <3>1. Read(ev, "refund") \subseteq StockRow
      BY <2>1, WalkTypes DEF At
    <3>2. row \in StockRow
      BY <3>1
    <3>3. QED
      BY <3>2 DEF StockRow
  <2>4. Walks(ev, "refund")
    BY <2>1, NextItemWalks
  <2>5. disturbed' = disturbed
    BY <2>1 DEF orders
  <2>6. KeptInv'
    BY <2>1, <2>2, <2>3, <2>5, ReturnKeepsKept DEF SagaInv
  <2>7. stock' \in [Products -> StockRow]
    BY <2>2, <2>3, UpsertTypes
  <2>8. SagaTypeOK'
    BY <2>1, <2>4, <2>7 DEF SagaTypeOK, Walks
  <2>9. MovedInv'
    <3>1. \A f \in stored, t \in {"reserve", "release"}, q \in Products :
            f.order \notin disturbed /\ <<f, t>> \in running' /\ <<t, f.order, q>> \in moved =>
              \E i \in DOMAIN ItemsOf[f.order] : i <= Dealt(f, t)' /\ ItemsOf[f.order][i] = q
      BY <2>4, BehindStays DEF SagaInv
    <3>2. stored' = stored
      BY <2>4 DEF Walks
    <3>3. \A o, type : Events(o, type)' = Events(o, type)
      BY <3>2 DEF Events
    <3>4. QED
      BY <2>1, <2>5, <3>1, <3>2, <3>3 DEF SagaInv, MovedInv
  <2>10. QED
    BY <2>4, <2>6, <2>8, <2>9, WalkKeepsBus DEF SagaInv
<1>6. ASSUME Post(ev, s)
      PROVE  SagaTypeOK' /\ SagaInv'
  <2>1. Walks(ev, s) /\ UNCHANGED goods
    BY <1>6, EndWalks DEF Post
  <2>2. QED
    BY <2>1, WalkKeepsInv
<1>7. QED
  BY <1>1, <1>2, <1>3, <1>4, <1>5, <1>6 DEF Goroutine

LEMMA SagaStep ==
  ASSUME SagaTypeOK, SagaInv, [SagaNext]_sagaVars
  PROVE  SagaTypeOK' /\ SagaInv'
<1>1. ASSUME NEW w \in Workers, Requests(w)
      PROVE  SagaTypeOK' /\ SagaInv'
  BY <1>1, RequestStep, PublishStep DEF Requests
<1>2. ASSUME NEW e \in running, Goroutine(e[1], e[2])
      PROVE  SagaTypeOK' /\ SagaInv'
  <2>1. <<e[1], e[2]>> \in running
    BY DEF SagaTypeOK
  <2>2. QED
    BY <1>2, <2>1, GoroutineStep
<1>3. CASE UNCHANGED sagaVars
  <2>1. /\ UNCHANGED <<order, task, disturbed>> /\ Inside
    BY <1>3 DEF sagaVars, orders, Inside
  <2>2. stored' = stored
    BY <2>1 DEF Inside, bus
  <2>3. TaskInv' /\ LifeInv'
    BY <2>1, <2>2, SameLife DEF SagaInv, TaskInv, Pending
  <2>4. QED
    BY <2>1, <2>3, InsideKeepsInv DEF SagaTypeOK
<1>4. QED
  BY <1>1, <1>2, <1>3, CrashStep DEF SagaNext

LEMMA SagaInitially ==
  ASSUME SagaInit
  PROVE  SagaTypeOK /\ SagaInv
<1>1. PICK total \in Totals :
        order = [o \in Orders |->
                   IF o \in Earlier THEN [status |-> "new", total |-> total, paid |-> FALSE]
                   ELSE [status |-> "absent", total |-> 0, paid |-> FALSE]]
  BY DEF SagaInit
<1>2. /\ order \in [Orders -> OrderRow] /\ total # 0
      /\ \A o \in Orders : /\ order[o].status = IF o \in Earlier THEN "new" ELSE "absent"
                           /\ order[o].total = IF o \in Earlier THEN total ELSE 0
                           /\ order[o].paid = FALSE
  BY <1>1, OrderSagaAssumption DEF OrderRow, Statuses
<1>3. /\ stock \in [Products -> StockRow]
      /\ \A p \in Products : stock[p].reserved = 0
  BY OrderSagaAssumption DEF SagaInit, StockRow
<1>4. /\ stored = {} /\ running = {} /\ moved = {} /\ task = [w \in Workers |-> Idle]
      /\ place = [e \in running |-> Beginning]
  BY DEF SagaInit, Bus!InitBus
<1>5. SagaTypeOK
  BY <1>2, <1>3, <1>4, FS_EmptySet DEF SagaTypeOK
<1>6. BusInv /\ TaskInv
  BY <1>4 DEF BusInv, TaskInv
<1>7. MovedInv
  BY <1>4 DEF MovedInv
<1>8. LifeInv
  <2>1. \A o, type : Events(o, type) = {} /\ Pending(o, type) = {}
    BY <1>4 DEF Events, Pending, Idle
  <2>2. \A o : Told(o) = {}
    BY <2>1 DEF Told
  <2>3. \A o \in Orders : Agrees(order[o], {}, o \in Earlier)
    BY <1>2 DEF Agrees
  <2>4. QED
    BY <2>1, <2>2, <2>3 DEF LifeInv
<1>9. KeptInv
  <2>1. \A p \in Products : Kept(p) = {}
    BY <1>4 DEF Kept
  <2>2. QED
    BY <1>3, <1>4, <2>1, FS_EmptySet DEF KeptInv
<1>10. QED
  BY <1>5, <1>6, <1>7, <1>8, <1>9 DEF SagaInv

\* The orders that keep a reservation are the confirmed ones, where nothing
\* cancelled is still held.
LEMMA KeptAreHolding ==
  ASSUME SagaTypeOK, SagaInv, NEW p \in Products,
         \A o \in Orders : p \in Items(o) => o \notin disturbed /\ ~ StillHeld(o, p)
  PROVE  Kept(p) = Holding(p)
<1>1. ASSUME NEW o \in Orders, NEW type \in Types, Events(o, type) # {}
      PROVE  type \in Told(o)
  BY <1>1 DEF Told
<1>2. "order.confirmed" \in Types /\ "order.cancelled" \in Types
  BY DEF Types
<1>3. ASSUME NEW o \in Kept(p)
      PROVE  o \in Holding(p)
  <2>1. /\ o \in Orders /\ <<"reserve", o, p>> \in moved
        /\ <<"release", o, p>> \notin moved
    BY DEF Kept
  <2>2. Events(o, "order.confirmed") # {} /\ p \in Items(o)
    BY <2>1 DEF SagaInv, MovedInv
  <2>3. order[o].status \in {"confirmed", "paid", "shipped", "delivered", "cancelled"}
    BY <1>1, <1>2, <2>1, <2>2 DEF SagaInv, LifeInv, Agrees
  <2>4. order[o].status # "cancelled"
    BY <2>1, <2>2 DEF StillHeld
  <2>5. QED
    BY <2>1, <2>3, <2>4 DEF Holding
<1>4. ASSUME NEW o \in Holding(p)
      PROVE  o \in Kept(p)
  <2>1. o \in Orders /\ <<"reserve", o, p>> \in moved /\ order[o].status # "cancelled"
    BY DEF Holding
  <2>2. <<"release", o, p>> \in moved => Events(o, "order.cancelled") # {} /\ p \in Items(o)
    BY <2>1 DEF SagaInv, MovedInv
  <2>3. <<"release", o, p>> \in moved => order[o].status = "cancelled"
    BY <1>1, <1>2, <2>1, <2>2 DEF SagaInv, LifeInv, Agrees
  <2>4. QED
    BY <2>1, <2>3 DEF Kept
<1>5. QED
  BY <1>3, <1>4

(* The wiring of main.go, item by item and in goroutines that fail, die,     *)
(* overtake or overwrite each other, keeps the reservations of a product to  *)
(* what its confirmed orders have reserved, for any number of orders,        *)
(* overlapping requests and goroutines, as long as no write of its row and   *)
(* of its orders was made of a stale copy: then each order is confirmed and  *)
(* cancelled once and each handler comes by an item once, so what a release  *)
(* gives back is one that was taken.                                         *)
THEOREM ReservationsFollow == SagaSpec => []ReservationsFollowOrders
<1>1. SagaInit => SagaTypeOK /\ SagaInv
  BY SagaInitially
<1>2. SagaTypeOK /\ SagaInv /\ [SagaNext]_sagaVars => (SagaTypeOK /\ SagaInv)'
  BY SagaStep
<1>3. SagaTypeOK /\ SagaInv => ReservationsFollowOrders
  <2> SUFFICES ASSUME SagaTypeOK, SagaInv, NEW p \in Products \ astray,
                      \A o \in Orders : p \in Items(o) => o \notin disturbed /\ ~ StillHeld(o, p)
               PROVE  stock[p].reserved = Cardinality(Holding(p))
    BY DEF ReservationsFollowOrders
  <2>1. Kept(p) = Holding(p) /\ Clean(p)
    BY KeptAreHolding DEF Clean
  <2>2. QED
    BY <2>1 DEF SagaInv, KeptInv
<1>4. QED
  BY <1>1, <1>2, <1>3, PTL DEF SagaSpec


-----------------------------------------------------------------------------
(* Sums of entries *)

\* A sum over two amounts.
LEMMA OwedOfTwo ==
  ASSUME NEW o, NEW t \in Nat \ {0}, Amounts(o) \subseteq {t, -t},
         Cardinality(Booked(o, t)) \in Nat, Cardinality(Booked(o, -t)) \in Nat
  PROVE  OwedFor(o) = t * (Cardinality(Booked(o, t)) - Cardinality(Booked(o, -t)))
<1> DEFINE A == Amounts(o)
           part(x) == x * Cardinality(Booked(o, x))
           Sums(g) == [s \in SUBSET A |->
                         IF s = {} THEN 0
                         ELSE LET x == CHOOSE y \in s : TRUE
                              IN x * Cardinality(Booked(o, x)) + g[s \ {x}]]
           sum == CHOOSE g : g = Sums(g)
           share(x, s) == IF x \in s THEN part(x) ELSE 0
           given == [s \in SUBSET A |-> share(t, s) + share(-t, s)]
<1>1. OwedFor(o) = sum[A]
  BY DEF OwedFor
<1>2. part(t) \in Int /\ part(-t) \in Int /\ t # -t
  OBVIOUS
<1>3. given = Sums(given)
  <2>1. ASSUME NEW s \in SUBSET A PROVE given[s] = Sums(given)[s]
    <3>1. CASE s = {}
      BY <3>1
    <3>2. CASE s # {}
      <4>1. PICK x : x = CHOOSE y \in s : TRUE
        OBVIOUS
      <4>2. x \in s /\ x \in {t, -t}
        BY <3>2, <4>1
      <4>3. Sums(given)[s] = part(x) + given[s \ {x}]
        BY <3>2, <4>1
      <4>4. given[s \ {x}] = share(t, s \ {x}) + share(-t, s \ {x})
        OBVIOUS
      <4>5. given[s] = share(t, s) + share(-t, s)
        OBVIOUS
      <4> HIDE DEF part, given, Sums
      <4>6. CASE x = t
        BY <1>2, <4>2, <4>3, <4>4, <4>5, <4>6
      <4>7. CASE x = -t
        BY <1>2, <4>2, <4>3, <4>4, <4>5, <4>7
      <4>8. QED
        BY <4>2, <4>6, <4>7
    <3>3. QED
      BY <3>1, <3>2
  <2>2. QED
    BY <2>1
<1>4. sum = Sums(sum)
  <2>1. \E g : g = Sums(g)
    <3> HIDE DEF given, Sums
    <3>1. QED
      BY <1>3
  <2> HIDE DEF Sums
  <2>2. QED
    BY <2>1
<1> HIDE DEF sum
<1>5. \A s \in SUBSET A : s # {} =>
         LET x == CHOOSE y \in s : TRUE IN sum[s] = part(x) + sum[s \ {x}]
  BY <1>4
<1>6. sum[{}] = 0
  BY <1>4
<1>7. \A x \in A : sum[{x}] = part(x)
  <2>1. TAKE x \in A
  <2>2. {x} \in SUBSET A /\ (CHOOSE y \in {x} : TRUE) = x
    OBVIOUS
  <2>3. {x} \ {x} = {}
    OBVIOUS
  <2>4. sum[{x}] = part(x) + 0
    BY <1>5, <1>6, <2>2, <2>3
  <2>5. QED
    BY <1>2, <2>4
<1>8. sum[A] = share(t, A) + share(-t, A)
  <2>1. CASE A = {}
    BY <1>6, <2>1
  <2>2. CASE A = {t}
    BY <1>2, <1>7, <2>2
  <2>3. CASE A = {-t}
    BY <1>2, <1>7, <2>3
  <2>4. CASE A = {t, -t}
    <3>1. PICK x : x = CHOOSE y \in A : TRUE
      OBVIOUS
    <3>2. x \in {t, -t} /\ sum[A] = part(x) + sum[A \ {x}]
      BY <1>5, <2>4, <3>1
    <3>3. A \ {x} = {-x} /\ -x \in A
      BY <1>2, <2>4, <3>2
    <3>4. sum[A] = part(x) + part(-x)
      BY <1>7, <3>2, <3>3
    <3> HIDE DEF part
    <3>5. QED
      BY <1>2, <2>4, <3>2, <3>4
  <2>5. QED
    BY <2>1, <2>2, <2>3, <2>4
<1>9. \A x \in {t, -t} : x \notin A => Cardinality(Booked(o, x)) = 0
  <2>1. TAKE x \in {t, -t}
  <2>2. x \notin A => Booked(o, x) = {}
    BY DEF Amounts, Booked
  <2>3. QED
    BY <2>2, FS_EmptySet
<1>10. share(t, A) = t * Cardinality(Booked(o, t)) /\ share(-t, A) = (-t) * Cardinality(Booked(o, -t))
  BY <1>9
<1>11. QED
  BY <1>1, <1>8, <1>10

-----------------------------------------------------------------------------
(* What customers owe *)

\* What an event books, and the entry that does.
Booking(ev) ==
    IF ev.type \in {"order.created", "order.refunded"} THEN ev.total ELSE -ev.total

Entry(ev) == [id |-> ev.id, order |-> ev.order, owed |-> Booking(ev)]

\* The entries of before the first event.
Opening(o) == {e \in journal : e.order = o /\ e.id = 0}

JournalInv ==
    /\ \A ev \in stored : ev.id # 0
    /\ \A e \in journal :
         \/ e.id = 0 /\ e.order \in Earlier
         \/ \E ev \in stored : ev.type # "order.confirmed" /\ e = Entry(ev)
    /\ \A o \in Earlier : \E e : Opening(o) = {e}

PostersInv ==
    \A ev \in stored :
      /\ <<ev, "revenue">> \in running => ev.type = "order.created"
      /\ <<ev, "payment">> \in running => ev.type = "order.paid"
      /\ <<ev, "reversal">> \in running => ev.type = "order.cancelled"
      /\ <<ev, "refund">> \in running => ev.type = "order.refunded"

MoneyInv == JournalInv /\ PostersInv

\* Which of the postings an event starts.
LEMMA PostersMatch ==
  ASSUME NEW ev, NEW s \in Bus!Matching(ev)
  PROVE  /\ s = "revenue" => ev.type = "order.created"
         /\ s = "payment" => ev.type = "order.paid"
         /\ s = "reversal" => ev.type = "order.cancelled"
         /\ s = "refund" => ev.type = "order.refunded"
BY DEF Bus!Matching, Wiring

\* What neither publishes nor posts.
LEMMA UnbookedKeepsMoney ==
  ASSUME MoneyInv, UNCHANGED <<stored, journal>>, running' \subseteq running
  PROVE  MoneyInv'
BY DEF MoneyInv, JournalInv, PostersInv, Opening, Entry, Booking

\* An event starts the postings that are for it.
LEMMA PublishKeepsMoney ==
  ASSUME SagaTypeOK, SagaInv, MoneyInv, NEW w \in Workers, PublishEvent(w)
  PROVE  MoneyInv'
<1>1. PICK ev \in Event :
        /\ ev.id = Cardinality(stored) + 1 /\ ev \notin stored /\ stored' = stored \cup {ev}
        /\ running' = running \cup {<<ev, s>> : s \in Bus!Matching(ev)}
  BY PublishFacts DEF SagaInv
<1>2. Cardinality(stored) \in Nat
  BY FS_CardinalityType DEF SagaTypeOK
<1>3. journal' = journal
  BY DEF PublishEvent
<1>4. JournalInv'
  <2>1. \A f \in stored' : f.id # 0
    BY <1>1, <1>2 DEF MoneyInv, JournalInv
  <2>2. \A x : Opening(x)' = Opening(x) /\ Entry(x)' = Entry(x)
    BY <1>3 DEF Opening, Entry, Booking
  <2>3. QED
    BY <1>1, <1>3, <2>1, <2>2 DEF MoneyInv, JournalInv
<1>5. PostersInv'
  <2>1. ASSUME NEW f \in stored', NEW s, <<f, s>> \in running'
        PROVE  \/ f \in stored /\ <<f, s>> \in running
               \/ f = ev /\ s \in Bus!Matching(ev)
    BY <1>1, <2>1 DEF SagaTypeOK
  <2>2. QED
    BY <2>1, PostersMatch DEF MoneyInv, PostersInv
<1>6. QED
  BY <1>4, <1>5 DEF MoneyInv

\* A posting books what its event is for.
LEMMA PostKeepsMoney ==
  ASSUME SagaTypeOK, MoneyInv, NEW ev, NEW s, Post(ev, s)
  PROVE  MoneyInv'
<1>1. /\ ev \in stored /\ <<ev, s>> \in running
      /\ stored' = stored /\ running' \subseteq running
  BY DEF Post, SagaTypeOK, Bus!EndHandler
<1>2. ev.total \in Nat /\ ev.id # 0
  BY <1>1 DEF SagaTypeOK, Event, MoneyInv, JournalInv
<1>3. /\ ev.type # "order.confirmed"
      /\ Owed(s, ev.total) = Booking(ev)
  BY <1>1 DEF Post, MoneyInv, PostersInv, Owed, Booking
<1>4. journal' = journal \cup {Entry(ev)} \/ journal' = journal
  BY <1>3 DEF Post, Entry
<1>5. JournalInv'
  <2>1. Entry(ev).id # 0
    BY <1>2 DEF Entry
  <2>2. \A o \in Earlier : Opening(o)' = Opening(o)
    BY <1>4, <2>1 DEF Opening
  <2>3. \A f : Entry(f)' = Entry(f)
    BY DEF Entry, Booking
  <2>4. QED
    BY <1>1, <1>3, <1>4, <2>2, <2>3 DEF MoneyInv, JournalInv
<1>6. PostersInv'
  BY <1>1 DEF MoneyInv, PostersInv
<1>7. QED
  BY <1>5, <1>6 DEF MoneyInv

LEMMA SagaStepKeepsMoney ==
  ASSUME SagaTypeOK, SagaInv, MoneyInv, [SagaNext]_sagaVars
  PROVE  MoneyInv'
<1>1. ASSUME NEW w \in Workers, Requests(w)
      PROVE  MoneyInv'
  <2>1. CASE PublishEvent(w)
    BY <2>1, PublishKeepsMoney
  <2>2. CASE ~ PublishEvent(w)
    <3>1. UNCHANGED <<stored, journal, running>>
      BY <1>1, <2>2 DEF Requests, OrderEndpoints, Create, GetOrder, CheckAvailability,
         UpdateOrder, Refund, Fail, bus
    <3>2. QED
      BY <3>1, UnbookedKeepsMoney
  <2>3. QED
    BY <2>1, <2>2
<1>2. ASSUME NEW ev, NEW s, NextItem(ev, s)
      PROVE  stored' = stored /\ running' \subseteq running
  BY <1>2 DEF NextItem, Bus!EndHandler, bus
<1>3. ASSUME NEW ev, NEW s, Goroutine(ev, s)
      PROVE  MoneyInv'
  <2>1. CASE Post(ev, s)
    BY <2>1, PostKeepsMoney
  <2>2. CASE ~ Post(ev, s)
    <3>1. /\ UNCHANGED <<stored, journal>> /\ running' \subseteq running
      BY <1>2, <1>3, <2>2 DEF Goroutine, GetStockLevel, SkipItem, Reserve, Unreserve, ReturnItem,
         bus
    <3>2. QED
      BY <3>1, UnbookedKeepsMoney
  <2>3. QED
    BY <2>1, <2>2
<1>4. CASE Crash \/ UNCHANGED sagaVars
  <2>1. UNCHANGED <<stored, journal>> /\ running' \subseteq running
    BY <1>4 DEF Crash, Bus!LoseHandlers, sagaVars, bus
  <2>2. QED
    BY <2>1, UnbookedKeepsMoney
<1>5. QED
  BY <1>1, <1>3, <1>4 DEF SagaNext

LEMMA MoneyInitially ==
  ASSUME SagaInit
  PROVE  MoneyInv
<1>1. PICK total \in Totals : journal = {[id |-> 0, order |-> o, owed |-> total] : o \in Earlier}
  BY DEF SagaInit
<1>2. stored = {} /\ running = {}
  BY DEF SagaInit, Bus!InitBus
<1>3. \A o \in Earlier : Opening(o) = {[id |-> 0, order |-> o, owed |-> total]}
  BY <1>1 DEF Opening
<1>4. \A e \in journal : e.id = 0 /\ e.order \in Earlier
  BY <1>1
<1>5. QED
  BY <1>2, <1>3, <1>4 DEF MoneyInv, JournalInv, PostersInv

\* Once nothing is on its way, the row of an order that is left in peace tells
\* of the events there are.
LEMMA QuietAccounts ==
  ASSUME SagaTypeOK, SagaInv, Quiet, NEW o \in Orders, o \notin disturbed
  PROVE  /\ order[o].status = "absent" => o \notin Earlier /\ \A ev \in stored : ev.order # o
         /\ order[o].status # "absent" =>
              order[o].total # 0 /\ (o \in Earlier <=> Events(o, "order.created") = {})
         /\ order[o].paid <=> Events(o, "order.paid") # {}
         /\ order[o].status = "cancelled" <=> Events(o, "order.cancelled") # {}
         /\ order[o].paid => order[o].status \in {"paid", "shipped", "delivered", "cancelled"}
         /\ order[o].status \in {"paid", "shipped", "delivered"} => order[o].paid
         /\ \A type \in OnlyOnce : \A e, f \in Events(o, type) : e = f
<1>1. \A type : Pending(o, type) = {}
  BY DEF Quiet, Committed, Busy, Pending, Idle
<1>2. \A type \in Types : type \in Told(o) <=> Events(o, type) # {}
  BY <1>1 DEF Told
<1>3. /\ Agrees(order[o], Told(o), o \in Earlier)
      /\ \A type \in OnlyOnce : \A e, f \in Events(o, type) : e = f
  BY DEF SagaInv, LifeInv
<1>4. order[o].status = "absent" => o \notin Earlier /\ \A ev \in stored : ev.order # o
  <2>1. ASSUME order[o].status = "absent", NEW ev \in stored, ev.order = o
        PROVE  FALSE
    <3>1. ev.type \in Types /\ ev \in Events(o, ev.type)
      BY <2>1 DEF SagaTypeOK, Event, Events
    <3>2. QED
      BY <1>2, <1>3, <2>1, <3>1 DEF Agrees
  <2>2. QED
    BY <1>3, <2>1 DEF Agrees
<1>5. QED
  <2>1. "order.created" \in Types /\ "order.paid" \in Types /\ "order.cancelled" \in Types
    BY DEF Types
  <2>2. QED
    BY <1>2, <1>3, <1>4, <2>1 DEF Agrees

\* What is booked of some events of an order is one entry for each of them.
LEMMA EntriesOfEvents ==
  ASSUME SagaTypeOK, BusInv, JournalInv, NEW o, Undisturbed(o),
         NEW S \in SUBSET stored,
         \A ev \in S : ev.order = o /\ ev.type # "order.confirmed"
  PROVE  LET E == {Entry(ev) : ev \in S}
         IN  E \subseteq journal /\ IsFiniteSet(E) /\ Cardinality(E) = Cardinality(S)
<1> DEFINE E == {Entry(ev) : ev \in S}
           f == [ev \in S |-> Entry(ev)]
<1>1. ASSUME NEW ev \in S
      PROVE  Entry(ev) \in journal
  <2>1. PICK e \in journal : e.id = ev.id
    BY DEF Undisturbed
  <2>2. PICK g \in stored : e = Entry(g)
    BY <2>1 DEF JournalInv
  <2>3. g.id = ev.id
    BY <2>1, <2>2 DEF Entry
  <2>4. QED
    BY <2>1, <2>2, <2>3 DEF BusInv
<1>2. \A c, d \in S : Entry(c) = Entry(d) => c = d
  <2>1. \A c, d \in S : Entry(c).id = Entry(d).id => c = d
    BY DEF Entry, BusInv
  <2>2. QED
    BY <2>1
<1>3. f \in Bijection(S, E)
  <2>1. f \in [S -> E] /\ \A ev \in S : f[ev] = Entry(ev)
    OBVIOUS
  <2>2. \A e \in E : \E ev \in S : e = Entry(ev)
    OBVIOUS
  <2> HIDE DEF f, E
  <2>3. f \in Injection(S, E)
    BY <1>2, <2>1 DEF Injection, IsInjective
  <2>4. f \in Surjection(S, E)
    BY <2>1, <2>2 DEF Surjection
  <2>5. QED
    BY <2>3, <2>4 DEF Bijection
<1>4. IsFiniteSet(S)
  BY FS_Subset DEF SagaTypeOK
<1>5. QED
  BY <1>1, <1>3, <1>4, FS_Bijection DEF ExistsBijection

\* There is at most one of these.
LEMMA OneOrNone ==
  ASSUME NEW S, \A x, y \in S : x = y
  PROVE  IsFiniteSet(S) /\ Cardinality(S) = IF S = {} THEN 0 ELSE 1
<1>1. CASE S = {}
  BY <1>1, FS_EmptySet
<1>2. CASE S # {}
  <2>1. PICK x : S = {x}
    BY <1>2
  <2>2. QED
    BY <2>1, FS_Singleton
<1>3. QED
  BY <1>1, <1>2

\* Two sets that share nothing.
LEMMA Together ==
  ASSUME NEW S, NEW T, IsFiniteSet(S), IsFiniteSet(T), S \cap T = {}
  PROVE  /\ IsFiniteSet(S \cup T)
         /\ Cardinality(S) \in Nat /\ Cardinality(T) \in Nat
         /\ Cardinality(S \cup T) = Cardinality(S) + Cardinality(T)
BY FS_Union, FS_EmptySet, FS_CardinalityType

\* What an order came to is booked once when it is created and once for each
\* refund, and taken back when it is paid and when it is cancelled.
LEMMA BookedTwoWays ==
  ASSUME SagaTypeOK, SagaInv, MoneyInv, Quiet, NEW o \in Orders, Undisturbed(o),
         order[o].status # "absent"
  PROVE  LET t == order[o].total
             refunds == Cardinality(Events(o, "order.refunded"))
         IN  /\ t \in Nat \ {0} /\ refunds \in Nat
             /\ Amounts(o) \subseteq {t, -t}
             /\ Cardinality(Booked(o, t)) = 1 + refunds
             /\ Cardinality(Booked(o, -t)) = (IF order[o].paid THEN 1 ELSE 0)
                                             + (IF order[o].status = "cancelled" THEN 1 ELSE 0)
<1> DEFINE t == order[o].total
           Ev(type) == Events(o, type)
           Gains == Ev("order.created") \cup Ev("order.refunded")
           Losses == Ev("order.paid") \cup Ev("order.cancelled")
           E(S) == {Entry(ev) : ev \in S}
<1>a. /\ order[o].total # 0 /\ (o \in Earlier <=> Ev("order.created") = {})
      /\ order[o].paid <=> Ev("order.paid") # {}
      /\ order[o].status = "cancelled" <=> Ev("order.cancelled") # {}
      /\ \A type \in OnlyOnce : \A e, f \in Ev(type) : e = f
  BY QuietAccounts DEF Undisturbed
<1>1. t \in Nat \ {0} /\ t # -t /\ BusInv /\ JournalInv
  <2>1. order[o] \in OrderRow
    BY DEF SagaTypeOK
  <2>2. t \in Nat \ {0}
    BY <2>1, <1>a DEF OrderRow
  <2>3. QED
    BY <2>1, <2>2 DEF SagaInv, MoneyInv
<1>2. \A type : Ev(type) \subseteq stored /\ IsFiniteSet(Ev(type)) /\ Cardinality(Ev(type)) \in Nat
  BY FS_Subset, FS_CardinalityType DEF Events, SagaTypeOK
<1>3. Gains \subseteq stored /\ Losses \subseteq stored
  BY <1>2
<1>4. \A ev \in Gains : ev.order = o /\ ev.type # "order.confirmed" /\ Booking(ev) = t
  BY DEF Events, Booking, Undisturbed
<1>5. \A ev \in Losses : ev.order = o /\ ev.type # "order.confirmed" /\ Booking(ev) = -t
  BY DEF Events, Booking, Undisturbed
<1>6. /\ E(Gains) \subseteq journal /\ IsFiniteSet(E(Gains))
      /\ Cardinality(E(Gains)) = Cardinality(Gains)
      /\ E(Losses) \subseteq journal /\ IsFiniteSet(E(Losses))
      /\ Cardinality(E(Losses)) = Cardinality(Losses)
  BY <1>1, <1>3, <1>4, <1>5, EntriesOfEvents
<1>7. ASSUME NEW e \in journal, e.order = o
      PROVE  \/ e \in Opening(o) /\ e.owed = t
             \/ e \in E(Gains) /\ e.owed = t
             \/ e \in E(Losses) /\ e.owed = -t
  <2>1. CASE e.id = 0
    BY <1>7, <2>1 DEF Opening, Undisturbed
  <2>2. CASE e.id # 0
    <3>1. PICK ev \in stored : ev.type # "order.confirmed" /\ e = Entry(ev)
      BY <1>1, <2>2 DEF JournalInv
    <3>2. ev.order = o /\ e.owed = Booking(ev)
      BY <1>7, <3>1 DEF Entry
    <3>3. ev \in Gains \/ ev \in Losses
      BY <3>1, <3>2 DEF Events, SagaTypeOK, Event, Types
    <3>4. QED
      BY <1>4, <1>5, <3>1, <3>2, <3>3
  <2>3. QED
    BY <2>1, <2>2
<1>8. Amounts(o) \subseteq {t, -t}
  BY <1>7 DEF Amounts
<1>9. /\ \A e \in E(Gains) : e.order = o /\ e.owed = t /\ e.id # 0
      /\ \A e \in E(Losses) : e.order = o /\ e.owed = -t
  BY <1>1, <1>3, <1>4, <1>5 DEF Entry, JournalInv
<1>10. /\ Booked(o, t) = Opening(o) \cup E(Gains)
       /\ Booked(o, -t) = E(Losses)
  <2>1. \A e \in Opening(o) : e \in journal /\ e.order = o /\ e.owed = t
    BY DEF Opening, Undisturbed
  <2>2. QED
    BY <1>1, <1>6, <1>7, <1>9, <2>1 DEF Booked
<1>11. Opening(o) \cap E(Gains) = {}
  BY <1>9 DEF Opening
<1>12. /\ IsFiniteSet(Opening(o)) /\ IsFiniteSet(Ev("order.created"))
       /\ Cardinality(Opening(o)) + Cardinality(Ev("order.created")) = 1
  <2>1. CASE o \in Earlier
    <3>1. PICK e : Opening(o) = {e}
      BY <1>1, <2>1 DEF JournalInv
    <3>2. Ev("order.created") = {}
      BY <1>a, <2>1
    <3>3. QED
      BY <3>1, <3>2, FS_Singleton, FS_EmptySet
  <2>2. CASE o \notin Earlier
    <3>1. Opening(o) = {}
      <4>1. ASSUME NEW e \in Opening(o) PROVE FALSE
        <5>1. e \in journal /\ e.order = o /\ e.id = 0
          BY DEF Opening
        <5>2. PICK ev \in stored : e = Entry(ev)
          BY <1>1, <2>2, <5>1 DEF JournalInv
        <5>3. QED
          BY <1>1, <5>1, <5>2 DEF JournalInv, Entry
      <4>2. QED
        BY <4>1
    <3>2. PICK ev : Ev("order.created") = {ev}
      BY <1>a, <2>2 DEF OnlyOnce
    <3>3. QED
      BY <3>1, <3>2, FS_Singleton, FS_EmptySet
  <2>3. QED
    BY <2>1, <2>2
<1>13. Cardinality(Gains) = Cardinality(Ev("order.created")) + Cardinality(Ev("order.refunded"))
  <2>1. Ev("order.created") \cap Ev("order.refunded") = {}
    BY DEF Events
  <2>2. QED
    BY <1>2, <2>1, Together
<1>14. Cardinality(Booked(o, t)) = 1 + Cardinality(Ev("order.refunded"))
  <2>1. Cardinality(Booked(o, t)) = Cardinality(Opening(o)) + Cardinality(E(Gains))
    BY <1>6, <1>10, <1>11, <1>12, Together
  <2>2. Cardinality(Opening(o)) \in Nat
    BY <1>12, FS_CardinalityType
  <2>3. QED
    BY <1>2, <1>6, <1>12, <1>13, <2>1, <2>2
<1>15. /\ IsFiniteSet(Ev("order.paid")) /\ IsFiniteSet(Ev("order.cancelled"))
       /\ Cardinality(Ev("order.paid")) = IF order[o].paid THEN 1 ELSE 0
       /\ Cardinality(Ev("order.cancelled")) = IF order[o].status = "cancelled" THEN 1 ELSE 0
  <2>1. /\ \A x, y \in Ev("order.paid") : x = y
        /\ order[o].paid <=> Ev("order.paid") # {}
    BY <1>a DEF OnlyOnce
  <2>2. /\ \A x, y \in Ev("order.cancelled") : x = y
        /\ order[o].status = "cancelled" <=> Ev("order.cancelled") # {}
    BY <1>a DEF OnlyOnce
  <2>3. QED
    BY <2>1, <2>2, OneOrNone
<1>16. Cardinality(Losses) = Cardinality(Ev("order.paid")) + Cardinality(Ev("order.cancelled"))
  <2>1. Ev("order.paid") \cap Ev("order.cancelled") = {}
    BY DEF Events
  <2>2. QED
    BY <1>2, <2>1, Together
<1>17. QED
  BY <1>1, <1>2, <1>6, <1>8, <1>10, <1>14, <1>15, <1>16

\* An order that does not exist has no entry.
LEMMA AbsentOwesNothing ==
  ASSUME SagaTypeOK, SagaInv, MoneyInv, Quiet, NEW o \in Orders, Undisturbed(o),
         order[o].status = "absent"
  PROVE  OwedFor(o) = 0 /\ Events(o, "order.refunded") = {}
<1>1. o \notin Earlier /\ \A ev \in stored : ev.order # o
  BY QuietAccounts DEF Undisturbed
<1>2. \A e \in journal : e.order # o
  BY <1>1 DEF MoneyInv, JournalInv, Entry
<1>3. \A x : Booked(o, x) = {}
  BY <1>2 DEF Booked
<1>4. OwedFor(o) = 0
  <2>1. PICK t \in Nat \ {0} : t = 1
    OBVIOUS
  <2>2. Amounts(o) \subseteq {t, -t}
    BY <1>2 DEF Amounts
  <2>3. Cardinality(Booked(o, t)) = 0 /\ Cardinality(Booked(o, -t)) = 0
    BY <1>3, FS_EmptySet
  <2>4. Cardinality(Booked(o, t)) \in Nat /\ Cardinality(Booked(o, -t)) \in Nat
    BY <2>3
  <2>5. OwedFor(o) = t * (Cardinality(Booked(o, t)) - Cardinality(Booked(o, -t)))
    BY <2>2, <2>4, OwedOfTwo
  <2>6. QED
    BY <2>3, <2>5
<1>5. QED
  BY <1>1, <1>4 DEF Events

(* main.go books the sale, the payment, the reversal and the refunds of an   *)
(* order in goroutines that nobody orders: for any number of orders, totals, *)
(* events and overlapping requests, once nothing is on its way, the customer *)
(* of an order that no request wrote from a stale copy, whose events and     *)
(* postings all came through and whose total is still the one they were      *)
(* booked at owes what is open.  Then each event but a refund is the first   *)
(* of its type, each entry is of one event, and what is booked of the order  *)
(* is its total or the opposite of it.  Of an order two of whose requests    *)
(* overlapped, two cancellations or a payment and one, nothing is claimed.   *)
THEOREM CustomersOwe == SagaSpec => []CustomersOweWhatIsOpen
<1>1. SagaInit => SagaTypeOK /\ SagaInv /\ MoneyInv
  BY SagaInitially, MoneyInitially
<1>2. SagaTypeOK /\ SagaInv /\ MoneyInv /\ [SagaNext]_sagaVars
        => (SagaTypeOK /\ SagaInv /\ MoneyInv)'
  BY SagaStep, SagaStepKeepsMoney
<1>3. SagaTypeOK /\ SagaInv /\ MoneyInv => CustomersOweWhatIsOpen
  <2> SUFFICES ASSUME SagaTypeOK, SagaInv, MoneyInv, Quiet, NEW o \in Orders, Undisturbed(o)
               PROVE  OwedFor(o) =
                        order[o].total * ( Cardinality(Events(o, "order.refunded"))
                          + (IF order[o].status \in {"draft", "new", "confirmed"} THEN 1 ELSE 0)
                          - (IF order[o].status = "cancelled" /\ order[o].paid THEN 1 ELSE 0) )
    BY DEF CustomersOweWhatIsOpen
  <2>1. order[o] \in OrderRow
    BY DEF SagaTypeOK
  <2>2. CASE order[o].status = "absent"
    <3>1. OwedFor(o) = 0 /\ Cardinality(Events(o, "order.refunded")) = 0
      BY <2>2, AbsentOwesNothing, FS_EmptySet
    <3>2. QED
      BY <2>1, <2>2, <3>1 DEF OrderRow
  <2>3. CASE order[o].status # "absent"
    <3>1. PICK t, refunds, gained, lost :
            /\ t = order[o].total /\ refunds = Cardinality(Events(o, "order.refunded"))
            /\ gained = Cardinality(Booked(o, t)) /\ lost = Cardinality(Booked(o, -t))
      OBVIOUS
    <3>2. /\ t \in Nat \ {0} /\ refunds \in Nat /\ Amounts(o) \subseteq {t, -t}
          /\ gained = 1 + refunds
          /\ lost = (IF order[o].paid THEN 1 ELSE 0)
                    + (IF order[o].status = "cancelled" THEN 1 ELSE 0)
      BY <2>3, <3>1, BookedTwoWays
    <3>3. OwedFor(o) = t * (gained - lost)
      <4>1. gained \in Nat /\ lost \in Nat
        BY <3>2
      <4>2. Cardinality(Booked(o, t)) \in Nat /\ Cardinality(Booked(o, -t)) \in Nat
        BY <3>1, <4>1
      <4>3. OwedFor(o) = t * (Cardinality(Booked(o, t)) - Cardinality(Booked(o, -t)))
        BY <3>2, <4>2, OwedOfTwo
      <4>4. QED
        BY <3>1, <4>3
    <3>4. gained - lost = refunds
            + (IF order[o].status \in {"draft", "new", "confirmed"} THEN 1 ELSE 0)
            - (IF order[o].status = "cancelled" /\ order[o].paid THEN 1 ELSE 0)
      <4>1. order[o].paid => order[o].status \in {"paid", "shipped", "delivered", "cancelled"}
        BY QuietAccounts DEF Undisturbed
      <4>2. order[o].status \in {"paid", "shipped", "delivered"} => order[o].paid
        BY QuietAccounts DEF Undisturbed
      <4>3. QED
        BY <2>1, <2>3, <3>2, <4>1, <4>2 DEF OrderRow, Statuses
    <3>5. QED
      BY <3>1, <3>3, <3>4
  <2>4. QED
    BY <2>2, <2>3
<1>4. QED
  BY <1>1, <1>2, <1>3, PTL DEF SagaSpec

=============================================================================
