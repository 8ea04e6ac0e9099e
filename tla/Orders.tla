------------------------------- MODULE Orders -------------------------------
(***************************************************************************)
(* The order service: creating orders under consecutive numbers, moving    *)
(* them along their life cycle, replacing their items, refunding them.     *)
(*                                                                         *)
(* Every operation reads the order through the pool, checks its status in  *)
(* memory, and later writes ALL mutable columns of that copy in a          *)
(* transaction, where no statement looks at the status again.  Replacing   *)
(* the items is a DELETE of the rows its snapshot shows followed by an     *)
(* INSERT; a DELETE waits for rows another open transaction has deleted.   *)
(* The items given by one request are one line here, of quantity 1: the    *)
(* request's number identifies it and its value is what it adds to the     *)
(* total.                                                                  *)
(***************************************************************************)
EXTENDS Integers, FiniteSets

CONSTANTS
    Workers,     \* the goroutines that serve requests
    NoWorker,    \* the holder of the free row of order_number_sequences
    Orders,      \* the orders that may be created
    Values,      \* what the items of a request may come to
    MaxRequests, \* bound on the number of requests served
    Enabled      \* the operations the clients of this instance use

Transitions == {"submit", "confirm", "pay", "ship", "deliver", "cancel"}

Operations == Transitions \cup {"create", "update", "annotate", "refund"}

ASSUME OrdersAssumption ==
    /\ NoWorker \notin Workers
    /\ Orders # {}
    /\ Values \subseteq Int
    /\ MaxRequests \in Nat
    /\ Enabled \subseteq Operations

VARIABLES
    order,       \* the orders rows
    items,       \* the order_items rows of each order
    number,      \* the number column of each order, 0 before it exists
    sequence,    \* the last_number column of order_number_sequences
    numbering,   \* the open transaction that holds its row lock
    entities,    \* the orders whose entity exists
    refunds,     \* how often each item line was refunded
    published,   \* the events given to the bus
    pc,          \* where each handler is
    job,         \* the request each handler serves, and what it has read
    issued,      \* the number of requests so far
    stale,       \* history: handlers whose order was committed since they read it
    overwritten, \* history: orders a stale handler has committed
    reached      \* history: the statuses each order was ever committed in

database == <<order, items, number, sequence, entities, refunds>>
vars == <<order, items, number, sequence, numbering, entities, refunds,
          published, pc, job, issued, stale, overwritten, reached>>

-----------------------------------------------------------------------------
Statuses == {"absent", "draft", "new", "confirmed", "paid", "assembling",
             "shipped", "delivered", "cancelled"}

Row == [status : Statuses, total : Int,
        paid : BOOLEAN, shipped : BOOLEAN, delivered : BOOLEAN,
        cancelled : BOOLEAN]

NoOrder == [status |-> "absent", total |-> 0, paid |-> FALSE,
            shipped |-> FALSE, delivered |-> FALSE, cancelled |-> FALSE]

Line == [id : 1..MaxRequests, value : Int]

AnyOrder == CHOOSE o \in Orders : TRUE

\* A job has its id, the copies of the row and of the items it read, for a
\* request that brings items their value, for a new order its number.
Idle == [op |-> "none", id |-> 0, order |-> AnyOrder, value |-> 0,
         row |-> NoOrder, items |-> {}, number |-> 0]

\* Mutant of Allowed: the payment check is missing from Ship.
AllowedUnpaid(op) ==
    CASE op = "submit" -> {"draft"}
      [] op = "confirm" -> {"new"}
      [] op = "pay" -> {"confirmed"}
      [] op = "ship" -> {"confirmed", "paid", "assembling"}
      [] op = "deliver" -> {"shipped"}
      [] op = "cancel" -> {"draft", "new", "confirmed", "paid"}
      [] op = "refund" -> {"paid", "shipped", "delivered"}
      [] op \in {"update", "annotate"} -> {"draft", "new"}

\* The statuses in which each operation is accepted.
Allowed(op) ==
    CASE op = "submit" -> {"draft"}
      [] op = "confirm" -> {"new"}
      [] op = "pay" -> {"confirmed"}
      [] op = "ship" -> {"paid", "assembling"}
      [] op = "deliver" -> {"shipped"}
      [] op = "cancel" -> {"draft", "new", "confirmed", "paid"}
      [] op = "refund" -> {"paid", "shipped", "delivered"}
      [] op \in {"update", "annotate"} -> {"draft", "new"}

\* The columns each operation sets in its copy of the row.
After(op, row, value) ==
    CASE op = "submit" -> [row EXCEPT !.status = "new"]
      [] op = "confirm" -> [row EXCEPT !.status = "confirmed"]
      [] op = "pay" -> [row EXCEPT !.status = "paid", !.paid = TRUE]
      [] op = "ship" -> [row EXCEPT !.status = "shipped", !.shipped = TRUE]
      [] op = "deliver" -> [row EXCEPT !.status = "delivered", !.delivered = TRUE]
      [] op = "cancel" -> [row EXCEPT !.status = "cancelled", !.cancelled = TRUE]
      [] op = "update" -> [row EXCEPT !.total = value]
      [] OTHER -> row

ItemReaders == {"confirm", "cancel", "refund"}

Silent == {"update", "annotate"}

-----------------------------------------------------------------------------
Accept(w, op, o, value, row, at) ==
    /\ pc[w] = "idle"
    /\ op \in Enabled
    /\ issued < MaxRequests
    /\ issued' = issued + 1
    /\ job' = [job EXCEPT ![w] = [op |-> op, id |-> issued + 1, order |-> o,
                                  value |-> value, row |-> row, items |-> {},
                                  number |-> 0]]
    /\ pc' = [pc EXCEPT ![w] = at]
    /\ stale' = stale \ {w}

\* The transaction of w has committed its order: copies others hold are stale.
Committed(w) ==
    /\ stale' = (stale \ {w}) \cup {v \in Workers \ {w} :
                                      job[v].order = job[w].order}
    /\ overwritten' = IF w \in stale THEN overwritten \cup {job[w].order}
                                     ELSE overwritten

Leave(w) ==
    /\ pc' = [pc EXCEPT ![w] = "idle"]
    /\ job' = [job EXCEPT ![w] = Idle]

-----------------------------------------------------------------------------
(* Create *)

\* The entity is created, committed and announced in a transaction of its own.
CreateEntity(w, o, value) ==
    /\ o \notin entities
    /\ Accept(w, "create", o, value, NoOrder, "created")
    /\ entities' = entities \cup {o}
    /\ published' = published \cup {<<"entity.created", o>>}
    /\ UNCHANGED <<order, items, number, sequence, numbering, refunds,
                   overwritten, reached>>

\* Mutant of NextOrderNumber: the last number is read without locking it.
NextOrderNumberUnlocked(w) ==
    /\ pc[w] = "created"
    /\ numbering' = w
    /\ job' = [job EXCEPT ![w].number = sequence + 1]
    /\ pc' = [pc EXCEPT ![w] = "numbered"]
    /\ UNCHANGED <<database, published, issued, stale, overwritten, reached>>

\* UPDATE ... RETURNING holds the row lock until the transaction ends.
NextOrderNumber(w) ==
    /\ pc[w] = "created"
    /\ numbering = NoWorker
    /\ numbering' = w
    /\ job' = [job EXCEPT ![w].number = sequence + 1]
    /\ pc' = [pc EXCEPT ![w] = "numbered"]
    /\ UNCHANGED <<database, published, issued, stale, overwritten, reached>>

CommitCreate(w) ==
    /\ pc[w] = "numbered"
    /\ LET o == job[w].order
           line == [id |-> job[w].id, value |-> job[w].value]
       IN /\ order' = [order EXCEPT ![o] = [NoOrder EXCEPT !.status = "draft",
                                                          !.total = job[w].value]]
          /\ items' = [items EXCEPT ![o] = {line}]
          /\ number' = [number EXCEPT ![o] = job[w].number]
          /\ reached' = [reached EXCEPT ![o] = @ \cup {"draft"}]
    /\ sequence' = job[w].number
    /\ numbering' = NoWorker
    /\ pc' = [pc EXCEPT ![w] = "committed"]
    /\ UNCHANGED <<entities, refunds, published, job, issued, stale, overwritten>>

-----------------------------------------------------------------------------
(* The operations on an existing order *)

GetOrder(w, op, o, value) ==
    /\ order[o].status \in Allowed(op)
    /\ Accept(w, op, o, value, order[o],
              IF op \in ItemReaders THEN "reading"
              ELSE IF op = "update" THEN "replacing" ELSE "ready")
    /\ UNCHANGED <<database, numbering, published, overwritten, reached>>

GetOrderItems(w) ==
    /\ pc[w] = "reading"
    /\ job' = [job EXCEPT ![w].items = items[job[w].order]]
    /\ pc' = [pc EXCEPT ![w] = "ready"]
    /\ UNCHANGED <<database, numbering, published, issued, stale, overwritten,
                   reached>>

\* The DELETE takes its snapshot ...
SelectOrderItems(w) ==
    /\ pc[w] = "replacing"
    /\ job' = [job EXCEPT ![w].items = items[job[w].order]]
    /\ pc' = [pc EXCEPT ![w] = "deleting"]
    /\ UNCHANGED <<database, numbering, published, issued, stale, overwritten,
                   reached>>

\* ... waits for the rows of it that an open transaction has deleted, and skips
\* those that are gone by then.  refund_items still refers to a refunded row.
DeleteOrderItems(w) ==
    /\ pc[w] = "deleting"
    /\ \A v \in Workers \ {w} :
         pc[v] = "ready" /\ job[v].op = "update" =>
           job[v].items \cap job[w].items = {}
    /\ LET left == job[w].items \cap items[job[w].order]
       IN /\ \A line \in left : refunds[line.id] = 0
          /\ job' = [job EXCEPT ![w].items = left]
    /\ pc' = [pc EXCEPT ![w] = "ready"]
    /\ UNCHANGED <<database, numbering, published, issued, stale, overwritten,
                   reached>>

\* Mutant of UpdateOrder: a payment overtakes the timestamp of the row.
UpdateOrderKeepsMilestones(w) ==
    /\ pc[w] = "ready"
    /\ job[w].op \notin {"create", "refund"}
    /\ LET o == job[w].order
           row == After(job[w].op, job[w].row, job[w].value)
           line == [id |-> job[w].id, value |-> job[w].value]
       IN /\ order' = [order EXCEPT ![o].status = row.status, ![o].total = row.total]
          /\ items' = IF job[w].op = "update"
                      THEN [items EXCEPT ![o] = (@ \ job[w].items) \cup {line}]
                      ELSE items
          /\ reached' = [reached EXCEPT ![o] = @ \cup {row.status}]
    /\ Committed(w)
    /\ IF job[w].op \in Silent
       THEN Leave(w)
       ELSE pc' = [pc EXCEPT ![w] = "committed"] /\ UNCHANGED job
    /\ UNCHANGED <<number, sequence, numbering, entities, refunds, published,
                   issued>>

\* Mutant of UpdateOrder: the items are added to the ones the order has.
UpdateOrderAppends(w) ==
    /\ pc[w] = "ready"
    /\ job[w].op \notin {"create", "refund"}
    /\ LET o == job[w].order
           row == After(job[w].op, job[w].row, job[w].value)
           line == [id |-> job[w].id, value |-> job[w].value]
       IN /\ order' = [order EXCEPT ![o] = row]
          /\ items' = IF job[w].op = "update"
                      THEN [items EXCEPT ![o] = @ \cup {line}] ELSE items
          /\ reached' = [reached EXCEPT ![o] = @ \cup {row.status}]
    /\ Committed(w)
    /\ IF job[w].op \in Silent
       THEN Leave(w)
       ELSE pc' = [pc EXCEPT ![w] = "committed"] /\ UNCHANGED job
    /\ UNCHANGED <<number, sequence, numbering, entities, refunds, published,
                   issued>>

\* The UPDATE of the whole row by its id, and the commit.
UpdateOrder(w) ==
    /\ pc[w] = "ready"
    /\ job[w].op \notin {"create", "refund"}
    /\ LET o == job[w].order
           row == After(job[w].op, job[w].row, job[w].value)
           line == [id |-> job[w].id, value |-> job[w].value]
       IN /\ order' = [order EXCEPT ![o] = row]
          /\ items' = IF job[w].op = "update"
                      THEN [items EXCEPT ![o] = (@ \ job[w].items) \cup {line}]
                      ELSE items
          /\ reached' = [reached EXCEPT ![o] = @ \cup {row.status}]
    /\ Committed(w)
    /\ IF job[w].op \in Silent
       THEN Leave(w)
       ELSE pc' = [pc EXCEPT ![w] = "committed"] /\ UNCHANGED job
    /\ UNCHANGED <<number, sequence, numbering, entities, refunds, published,
                   issued>>

\* Mutant of CreateRefund: the refunded quantity has the wrong sign.
CreateRefundNegated(w) ==
    /\ pc[w] = "ready"
    /\ job[w].op = "refund"
    /\ \E line \in job[w].items \cap items[job[w].order] :
         refunds' = [refunds EXCEPT ![line.id] = @ - 1]
    /\ pc' = [pc EXCEPT ![w] = "committed"]
    /\ UNCHANGED <<order, items, number, sequence, numbering, entities,
                   published, job, issued, stale, overwritten, reached>>

\* A refund names an item it has read; the foreign key checks it still exists.
CreateRefund(w) ==
    /\ pc[w] = "ready"
    /\ job[w].op = "refund"
    /\ \E line \in job[w].items \cap items[job[w].order] :
         refunds' = [refunds EXCEPT ![line.id] = @ + 1]
    /\ pc' = [pc EXCEPT ![w] = "committed"]
    /\ UNCHANGED <<order, items, number, sequence, numbering, entities,
                   published, job, issued, stale, overwritten, reached>>

Event(op) ==
    CASE op = "create" -> "order.created"
      [] op = "submit" -> "order.submitted"
      [] op = "confirm" -> "order.confirmed"
      [] op = "pay" -> "order.paid"
      [] op = "ship" -> "order.shipped"
      [] op = "deliver" -> "order.delivered"
      [] op = "cancel" -> "order.cancelled"
      [] op = "refund" -> "order.refunded"

\* Mutant of Publish: the event leaves before the transaction has ended.
PublishEarly(w) ==
    /\ pc[w] \in {"ready", "committed"}
    /\ job[w].op \notin Silent
    /\ published' = published \cup {<<Event(job[w].op), job[w].order>>}
    /\ Leave(w)
    /\ UNCHANGED <<database, numbering, issued, stale, overwritten, reached>>

Publish(w) ==
    /\ pc[w] = "committed"
    /\ published' = published \cup {<<Event(job[w].op), job[w].order>>}
    /\ Leave(w)
    /\ UNCHANGED <<database, numbering, issued, stale, overwritten, reached>>

-----------------------------------------------------------------------------
\* A check, a query or the commit fails: the transaction is rolled back.
Fail(w) ==
    /\ pc[w] \notin {"idle", "committed"}
    /\ numbering' = IF numbering = w THEN NoWorker ELSE numbering
    /\ Leave(w)
    /\ UNCHANGED <<database, published, issued, stale, overwritten, reached>>

\* The process dies; events of committed operations are not published.
Crash ==
    /\ numbering' = NoWorker
    /\ pc' = [w \in Workers |-> "idle"]
    /\ job' = [w \in Workers |-> Idle]
    /\ UNCHANGED <<database, published, issued, stale, overwritten, reached>>

Init ==
    /\ order = [o \in Orders |-> NoOrder]
    /\ items = [o \in Orders |-> {}]
    /\ number = [o \in Orders |-> 0]
    /\ sequence = 0
    /\ numbering = NoWorker
    /\ entities = {}
    /\ refunds = [id \in 1..MaxRequests |-> 0]
    /\ published = {}
    /\ pc = [w \in Workers |-> "idle"]
    /\ job = [w \in Workers |-> Idle]
    /\ issued = 0
    /\ stale = {}
    /\ overwritten = {}
    /\ reached = [o \in Orders |-> {}]

Next ==
    \/ \E w \in Workers :
         \/ \E o \in Orders :
              \/ \E value \in Values :
                   CreateEntity(w, o, value) \/ GetOrder(w, "update", o, value)
              \/ \E op \in Transitions \cup {"annotate", "refund"} :
                   GetOrder(w, op, o, 0)
         \/ NextOrderNumber(w) \/ CommitCreate(w)
         \/ GetOrderItems(w) \/ SelectOrderItems(w) \/ DeleteOrderItems(w)
         \/ UpdateOrder(w) \/ CreateRefund(w)
         \/ Publish(w)
         \/ Fail(w)
    \/ Crash

Spec == Init /\ [][Next]_vars

-----------------------------------------------------------------------------
(* Properties *)

Job == [op : Operations \cup {"none"}, id : 0..MaxRequests, order : Orders,
        value : Int, row : Row, items : SUBSET Line, number : Nat]

(* Types of the state. *)
TypeOK ==
    /\ order \in [Orders -> Row]
    /\ items \in [Orders -> SUBSET Line]
    /\ number \in [Orders -> Nat]
    /\ sequence \in Nat
    /\ numbering \in Workers \cup {NoWorker}
    /\ entities \in SUBSET Orders
    /\ refunds \in [1..MaxRequests -> Nat]
    /\ pc \in [Workers -> {"idle", "created", "numbered", "reading", "replacing",
                           "deleting", "ready", "committed"}]
    /\ job \in [Workers -> Job]
    /\ issued \in 0..MaxRequests
    /\ stale \in SUBSET Workers
    /\ overwritten \in SUBSET Orders
    /\ reached \in [Orders -> SUBSET Statuses]

Existing == {o \in Orders : order[o].status # "absent"}

(* The orders of an organisation are numbered 1, 2, 3 ... without a gap or a *)
(* repetition, whatever overlaps, fails or crashes: NextOrderNumber runs in  *)
(* the transaction that inserts the order and keeps the row lock.            *)
NumbersAreConsecutive ==
    /\ {number[o] : o \in Existing} = 1..Cardinality(Existing)
    /\ sequence = Cardinality(Existing)

(* The time stamps of a row agree with its status, even where handlers       *)
(* overwrite each other: each writes a whole row that one of them read.      *)
MilestonesMatchStatus ==
    \A o \in Orders :
      LET row == order[o]
      IN /\ row.cancelled <=> row.status = "cancelled"
         /\ row.delivered <=> row.status = "delivered"
         /\ row.shipped <=> row.status \in {"shipped", "delivered"}
         /\ row.status \in {"paid", "shipped", "delivered"} => row.paid
         /\ row.status \in {"absent", "draft", "new", "confirmed"} => ~row.paid

(* The total of an order is the total of its items unless handlers overlapped *)
(* on it: Create and Update compute both from one request.                   *)
TotalMatchesItems ==
    \A o \in Existing \ overwritten :
      \E line \in items[o] : items[o] = {line} /\ order[o].total = line.value

Announces ==
    [event \in {"order.created", "order.submitted", "order.confirmed",
                "order.paid", "order.shipped", "order.delivered",
                "order.cancelled"} |->
       CASE event = "order.created" -> "draft"
         [] event = "order.submitted" -> "new"
         [] event = "order.confirmed" -> "confirmed"
         [] event = "order.paid" -> "paid"
         [] event = "order.shipped" -> "shipped"
         [] event = "order.delivered" -> "delivered"
         [] event = "order.cancelled" -> "cancelled"]

(* Nobody hears of a status an order was never committed in: the handlers    *)
(* publish after WithTx has returned.                                        *)
EventsFollowCommits ==
    \A event \in DOMAIN Announces, o \in Orders :
      <<event, o>> \in published => Announces[event] \in reached[o]

Lifecycle == INSTANCE OrderLifecycle WITH status <- [o \in Orders |-> order[o].status]

(* Read, check and write together move an order along one edge of its life   *)
(* cycle, unless another handler committed the order in between.             *)
ImplementsLifecycle == Lifecycle!Spec

=============================================================================
