---------------------------- MODULE OrdersProofs ----------------------------
(***************************************************************************)
(* Theorems about the order service of module Orders, for any number of    *)
(* handlers, orders and requests: its invariants, and that it implements   *)
(* OrderLifecycle.                                                         *)
(***************************************************************************)
EXTENDS Orders, FiniteSetTheorems, TLAPS

USE DEF vars, database

-----------------------------------------------------------------------------
(* What the building blocks of the actions keep. *)

LEMMA NoOrderIsRow == NoOrder \in Row
BY DEF NoOrder, Row, Statuses

\* The job of an idle handler is a job.
LEMMA IdleIsJob == Idle \in Job
<1>1. AnyOrder \in Orders
  BY OrdersAssumption DEF AnyOrder
<1>2. MaxRequests \in Nat
  BY OrdersAssumption
<1>3. 0 \in 0..MaxRequests
  BY <1>2
<1>4. 0 \in Int /\ 0 \in Nat
  OBVIOUS
<1>5. QED
  BY <1>1, <1>3, <1>4, NoOrderIsRow DEF Idle, Job

\* Each operation turns a row into a row.
LEMMA AfterIsRow ==
  ASSUME NEW op \in Operations \cup {"none"}, NEW row \in Row,
         NEW value \in Int
  PROVE  After(op, row, value) \in Row
<1>1. CASE op = "submit"
  BY <1>1 DEF After, Row, Statuses
<1>2. CASE op = "confirm"
  BY <1>2 DEF After, Row, Statuses
<1>3. CASE op = "pay"
  BY <1>3 DEF After, Row, Statuses
<1>4. CASE op = "ship"
  BY <1>4 DEF After, Row, Statuses
<1>5. CASE op = "deliver"
  BY <1>5 DEF After, Row, Statuses
<1>6. CASE op = "cancel"
  BY <1>6 DEF After, Row, Statuses
<1>7. CASE op = "update"
  BY <1>7 DEF After, Row, Statuses
<1>8. CASE op \in {"create", "annotate", "refund", "none"}
  BY <1>8 DEF After
<1>9. QED
  BY <1>1, <1>2, <1>3, <1>4, <1>5, <1>6, <1>7, <1>8 DEF Operations, Transitions

\* Admitting a request keeps the types of what it sets.
LEMMA AcceptType ==
  ASSUME TypeOK, NEW w \in Workers, NEW op \in Operations, NEW o \in Orders,
         NEW value \in Int, NEW row \in Row,
         NEW at \in {"created", "reading", "replacing", "ready"},
         Accept(w, op, o, value, row, at)
  PROVE  /\ job' \in [Workers -> Job]
         /\ pc' \in [Workers -> {"idle", "created", "numbered", "reading",
                                 "replacing", "deleting", "ready", "committed"}]
         /\ issued' \in 0..MaxRequests
         /\ stale' \in SUBSET Workers
<1>1. issued + 1 \in 0..MaxRequests
  BY OrdersAssumption DEF Accept, TypeOK
<1>2. [op |-> op, id |-> issued + 1, order |-> o, value |-> value, row |-> row,
       items |-> {}, number |-> 0] \in Job
  BY <1>1 DEF Job
<1>3. QED
  BY <1>1, <1>2 DEF Accept, TypeOK

\* A handler that is done keeps the types of what it resets.
LEMMA LeaveType ==
  ASSUME TypeOK, NEW w \in Workers, Leave(w)
  PROVE  /\ job' \in [Workers -> Job]
         /\ pc' \in [Workers -> {"idle", "created", "numbered", "reading",
                                 "replacing", "deleting", "ready", "committed"}]
BY IdleIsJob DEF Leave, TypeOK

\* Filling in what a job has read keeps it a job.
LEMMA JobItems ==
  ASSUME TypeOK, NEW w \in Workers, NEW lines \in SUBSET Line
  PROVE  [job EXCEPT ![w].items = lines] \in [Workers -> Job]
<1>1. job[w] \in Job
  BY DEF TypeOK
<1>2. [job[w] EXCEPT !.items = lines] \in Job
  BY <1>1 DEF Job
<1>3. QED
  BY <1>2 DEF TypeOK

LEMMA JobNumber ==
  ASSUME TypeOK, NEW w \in Workers, NEW n \in Nat
  PROVE  [job EXCEPT ![w].number = n] \in [Workers -> Job]
<1>1. job[w] \in Job
  BY DEF TypeOK
<1>2. [job[w] EXCEPT !.number = n] \in Job
  BY <1>1 DEF Job
<1>3. QED
  BY <1>2 DEF TypeOK

LEMMA JobFields ==
  ASSUME TypeOK, NEW w \in Workers
  PROVE  /\ job[w].op \in Operations \cup {"none"}
         /\ job[w].id \in 0..MaxRequests
         /\ job[w].order \in Orders
         /\ job[w].value \in Int
         /\ job[w].row \in Row
         /\ job[w].items \in SUBSET Line
         /\ job[w].number \in Nat
<1>1. job[w] \in Job
  BY DEF TypeOK
<1>2. QED
  BY <1>1 DEF Job

-----------------------------------------------------------------------------
(* A request that is served has an id. *)
Numbered == \A w \in Workers : pc[w] # "idle" => job[w].id > 0

\* Every reachable state is well typed, and requests have an id: UpdateOrder
\* needs it, for the id becomes the line it stores.
LEMMA Types == Spec => [](TypeOK /\ Numbered)
<1>1. Init => TypeOK /\ Numbered
  BY IdleIsJob, NoOrderIsRow, OrdersAssumption DEF Init, TypeOK, Numbered
<1>2. TypeOK /\ Numbered /\ [Next]_vars => (TypeOK /\ Numbered)'
  <2> SUFFICES ASSUME TypeOK, Numbered, [Next]_vars
               PROVE  TypeOK' /\ Numbered'
    OBVIOUS
  <2>a. MaxRequests \in Nat /\ Values \subseteq Int /\ NoWorker \notin Workers
    BY OrdersAssumption
  <2>b. Numbered' <=> \A w \in Workers : pc'[w] # "idle" => job'[w].id > 0
    BY DEF Numbered
  <2>c. ASSUME NEW w \in Workers, NEW op \in Operations, NEW o \in Orders,
               NEW value \in Int, NEW row \in Row,
               NEW at \in {"created", "reading", "replacing", "ready"},
               Accept(w, op, o, value, row, at)
        PROVE  Numbered'
    BY <2>c DEF Accept, Numbered, TypeOK
  <2>1. ASSUME NEW w \in Workers, NEW o \in Orders, NEW value \in Values,
               CreateEntity(w, o, value)
        PROVE  TypeOK' /\ Numbered'
    <3>1. Accept(w, "create", o, value, NoOrder, "created")
      BY <2>1 DEF CreateEntity
    <3>2. "create" \in Operations /\ value \in Int
      BY <2>a DEF Operations
    <3>3. Numbered'
      BY <3>1, <3>2, <2>c, NoOrderIsRow
    <3>4. TypeOK'
      BY <2>1, <3>1, <3>2, NoOrderIsRow, AcceptType DEF CreateEntity, TypeOK
    <3>5. QED
      BY <3>3, <3>4
  <2>2. ASSUME NEW w \in Workers, NEW op \in Operations, NEW o \in Orders,
               NEW value \in Int, GetOrder(w, op, o, value)
        PROVE  TypeOK' /\ Numbered'
    <3>1. PICK at \in {"reading", "replacing", "ready"} :
            Accept(w, op, o, value, order[o], at)
      BY <2>2 DEF GetOrder
    <3>2. order[o] \in Row
      BY DEF TypeOK
    <3>3. Numbered'
      BY <3>1, <3>2, <2>c
    <3>4. TypeOK'
      BY <2>2, <3>1, <3>2, AcceptType DEF GetOrder, TypeOK
    <3>5. QED
      BY <3>3, <3>4
  <2>3. ASSUME NEW w \in Workers, NextOrderNumber(w)
        PROVE  TypeOK' /\ Numbered'
    <3>1. sequence + 1 \in Nat
      BY DEF TypeOK
    <3>2. job' \in [Workers -> Job]
      BY <2>3, <3>1, JobNumber DEF NextOrderNumber
    <3>3. \A v \in Workers : job'[v].id = job[v].id
      BY <2>3 DEF NextOrderNumber, TypeOK, Job
    <3>4. Numbered'
      BY <2>3, <3>3 DEF NextOrderNumber, Numbered, TypeOK
    <3>5. QED
      BY <2>3, <3>2, <3>4 DEF NextOrderNumber, TypeOK
  <2>4. ASSUME NEW w \in Workers, CommitCreate(w)
        PROVE  TypeOK' /\ Numbered'
    <3>1. [id |-> job[w].id, value |-> job[w].value] \in Line
      BY <2>4, <2>a, JobFields DEF CommitCreate, Numbered, Line
    <3>2. [NoOrder EXCEPT !.status = "draft", !.total = job[w].value] \in Row
      BY JobFields DEF NoOrder, Row, Statuses
    <3>3. "draft" \in Statuses
      BY DEF Statuses
    <3>4. Numbered'
      BY <2>4 DEF CommitCreate, Numbered, TypeOK
    <3>5. order' \in [Orders -> Row] /\ items' \in [Orders -> SUBSET Line]
      BY <2>4, <3>1, <3>2 DEF CommitCreate, TypeOK
    <3>6. QED
      BY <2>4, <3>3, <3>4, <3>5, JobFields DEF CommitCreate, TypeOK
  <2>5. ASSUME NEW w \in Workers, NEW lines \in SUBSET Line, NEW at,
               at \in {"ready", "deleting"}, pc[w] # "idle",
               job' = [job EXCEPT ![w].items = lines],
               pc' = [pc EXCEPT ![w] = at],
               UNCHANGED <<database, numbering, published, issued, stale,
                           overwritten, reached>>
        PROVE  TypeOK' /\ Numbered'
    <3>1. \A v \in Workers : job'[v].id = job[v].id
      BY <2>5 DEF TypeOK, Job
    <3>2. Numbered'
      BY <2>5, <3>1 DEF Numbered, TypeOK
    <3>3. job' \in [Workers -> Job]
      BY <2>5, JobItems
    <3>4. QED
      BY <2>5, <3>2, <3>3 DEF TypeOK
  <2>6. ASSUME NEW w \in Workers, GetOrderItems(w)
        PROVE  TypeOK' /\ Numbered'
    <3>1. items[job[w].order] \in SUBSET Line
      BY JobFields DEF TypeOK
    <3>2. QED
      BY <2>5, <2>6, <3>1 DEF GetOrderItems
  <2>7. ASSUME NEW w \in Workers, SelectOrderItems(w)
        PROVE  TypeOK' /\ Numbered'
    <3>1. items[job[w].order] \in SUBSET Line
      BY JobFields DEF TypeOK
    <3>2. QED
      BY <2>5, <2>7, <3>1 DEF SelectOrderItems
  <2>8. ASSUME NEW w \in Workers, DeleteOrderItems(w)
        PROVE  TypeOK' /\ Numbered'
    <3>1. job[w].items \cap items[job[w].order] \in SUBSET Line
      BY JobFields DEF TypeOK
    <3>2. QED
      BY <2>5, <2>8, <3>1 DEF DeleteOrderItems
  <2>9. ASSUME NEW w \in Workers, UpdateOrder(w)
        PROVE  TypeOK' /\ Numbered'
    <3> DEFINE o == job[w].order
               row == After(job[w].op, job[w].row, job[w].value)
               line == [id |-> job[w].id, value |-> job[w].value]
    <3>1. line \in Line
      BY <2>9, <2>a, JobFields DEF UpdateOrder, Numbered, Line
    <3>2. row \in Row /\ row.status \in Statuses
      <4>1. row \in Row
        BY JobFields, AfterIsRow
      <4>2. QED
        BY <4>1 DEF Row
    <3>3. o \in Orders
      BY JobFields
    <3>4. order' = [order EXCEPT ![o] = row]
      BY <2>9 DEF UpdateOrder
    <3>5. items' = [items EXCEPT ![o] = (@ \ job[w].items) \cup {line}]
          \/ items' = items
      BY <2>9 DEF UpdateOrder
    <3>6. reached' = [reached EXCEPT ![o] = @ \cup {row.status}]
      BY <2>9 DEF UpdateOrder
    <3>7. stale' \in SUBSET Workers /\ overwritten' \in SUBSET Orders
      BY <2>9, <3>3 DEF UpdateOrder, Committed, TypeOK
    <3>8. \/ Leave(w)
          \/ pc' = [pc EXCEPT ![w] = "committed"] /\ job' = job
      BY <2>9 DEF UpdateOrder
    <3> HIDE DEF o, row, line
    <3>9. order' \in [Orders -> Row] /\ items' \in [Orders -> SUBSET Line]
          /\ reached' \in [Orders -> SUBSET Statuses]
      BY <3>1, <3>2, <3>4, <3>5, <3>6 DEF TypeOK
    <3>10. /\ job' \in [Workers -> Job]
           /\ pc' \in [Workers -> {"idle", "created", "numbered", "reading",
                                   "replacing", "deleting", "ready", "committed"}]
      BY <3>8, LeaveType DEF TypeOK
    <3>11. Numbered'
      BY <2>9, <3>8 DEF UpdateOrder, Leave, Numbered, TypeOK
    <3>12. QED
      BY <2>9, <3>7, <3>9, <3>10, <3>11 DEF UpdateOrder, TypeOK
  <2>10. ASSUME NEW w \in Workers, CreateRefund(w)
         PROVE  TypeOK' /\ Numbered'
    <3>1. refunds' \in [1..MaxRequests -> Nat]
      <4>1. PICK line \in job[w].items \cap items[job[w].order] :
              refunds' = [refunds EXCEPT ![line.id] = @ + 1]
        BY <2>10 DEF CreateRefund
      <4>2. line.id \in 1..MaxRequests
        BY JobFields DEF Line
      <4>3. refunds[line.id] + 1 \in Nat
        BY <4>2 DEF TypeOK
      <4>4. QED
        BY <4>1, <4>2, <4>3 DEF TypeOK
    <3>2. QED
      BY <2>10, <3>1 DEF CreateRefund, TypeOK, Numbered
  <2>11. ASSUME NEW w \in Workers, Leave(w), issued' = issued, stale' = stale,
                overwritten' = overwritten, reached' = reached,
                UNCHANGED database, numbering' \in {numbering, NoWorker}
         PROVE  TypeOK' /\ Numbered'
    <3>1. Numbered'
      BY <2>11 DEF Leave, Numbered, TypeOK
    <3>2. QED
      BY <2>11, <3>1, LeaveType DEF TypeOK
  <2>12. ASSUME NEW w \in Workers, Publish(w) \/ Fail(w)
         PROVE  TypeOK' /\ Numbered'
    BY <2>11, <2>12 DEF Publish, Fail
  <2>13. ASSUME Crash
         PROVE  TypeOK' /\ Numbered'
    BY <2>13, IdleIsJob DEF Crash, TypeOK, Numbered
  <2>14. CASE UNCHANGED vars
    BY <2>14 DEF TypeOK, Numbered
  <2>15. QED
    <3>1. 0 \in Int /\ "update" \in Operations
          /\ Transitions \cup {"annotate", "refund"} \subseteq Operations
      BY DEF Operations
    <3>2. QED
      BY <2>1, <2>2, <2>3, <2>4, <2>6, <2>7, <2>8, <2>9, <2>10, <2>12, <2>13,
         <2>14, <2>a, <3>1 DEF Next
<1>3. QED
  BY <1>1, <1>2, PTL DEF Spec

(* The columns, copies and counters of the order service keep their types.   *)
THEOREM TypeCorrect == Spec => []TypeOK
BY Types, PTL

-----------------------------------------------------------------------------
(* Time stamps *)

OnOrder == Transitions \cup {"update", "annotate", "refund"}

\* What a row of the table looks like.  No operation leads to "assembling",
\* which Ship accepts; an order there might not have been paid.
Legitimate(row) ==
    /\ row.cancelled <=> row.status = "cancelled"
    /\ row.delivered <=> row.status = "delivered"
    /\ row.shipped <=> row.status \in {"shipped", "delivered"}
    /\ row.status \in {"paid", "shipped", "delivered"} => row.paid
    /\ row.status \in {"absent", "draft", "new", "confirmed"} => ~row.paid
    /\ row.status # "assembling"

RowsAreLegitimate == \A o \in Orders : Legitimate(order[o])

\* Where a handler holds a copy of a row, outside Create.
Holding(w) == pc[w] \in {"reading", "replacing", "deleting", "ready"}

\* The copy is a row the table has held, in a status the operation accepts.
CopiesAreLegitimate ==
    \A w \in Workers :
      Holding(w) => /\ job[w].op \in OnOrder
                    /\ Legitimate(job[w].row)
                    /\ job[w].row.status \in Allowed(job[w].op)

StampInv == RowsAreLegitimate /\ CopiesAreLegitimate

\* The status each operation leads to.
Outcome(op, status) ==
    CASE op = "submit" -> "new"
      [] op = "confirm" -> "confirmed"
      [] op = "pay" -> "paid"
      [] op = "ship" -> "shipped"
      [] op = "deliver" -> "delivered"
      [] op = "cancel" -> "cancelled"
      [] OTHER -> status

\* An operation applied in a status it accepts keeps a row legitimate.
LEMMA AfterIsLegitimate ==
  ASSUME NEW op \in OnOrder, NEW row \in Row, NEW value \in Int,
         Legitimate(row), row.status \in Allowed(op)
  PROVE  /\ Legitimate(After(op, row, value))
         /\ After(op, row, value).status = Outcome(op, row.status)
         /\ After(op, row, value).status # "absent"
<1>0. /\ row.status \in Statuses
      /\ row.paid \in BOOLEAN /\ row.shipped \in BOOLEAN
      /\ row.delivered \in BOOLEAN /\ row.cancelled \in BOOLEAN
      /\ row.total \in Int
  BY DEF Row
<1>1. CASE op = "submit"
  BY <1>0, <1>1 DEF After, Row, Legitimate, Allowed, Outcome
<1>2. CASE op = "confirm"
  BY <1>0, <1>2 DEF After, Row, Legitimate, Allowed, Outcome
<1>3. CASE op = "pay"
  BY <1>0, <1>3 DEF After, Row, Legitimate, Allowed, Outcome
<1>4. CASE op = "ship"
  BY <1>0, <1>4 DEF After, Row, Legitimate, Allowed, Outcome
<1>5. CASE op = "deliver"
  BY <1>0, <1>5 DEF After, Row, Legitimate, Allowed, Outcome
<1>6. CASE op = "cancel"
  BY <1>0, <1>6 DEF After, Row, Legitimate, Allowed, Outcome
<1>7. CASE op = "update"
  BY <1>0, <1>7 DEF After, Row, Legitimate, Allowed, Outcome
<1>8. CASE op \in {"annotate", "refund"}
  BY <1>0, <1>8 DEF After, Legitimate, Allowed, Outcome
<1>9. QED
  BY <1>1, <1>2, <1>3, <1>4, <1>5, <1>6, <1>7, <1>8 DEF OnOrder, Transitions

LEMMA NewRowsAreLegitimate ==
  ASSUME NEW value \in Int
  PROVE  /\ Legitimate(NoOrder)
         /\ Legitimate([NoOrder EXCEPT !.status = "draft", !.total = value])
BY DEF Legitimate, NoOrder

\* What UpdateOrder does to the table, in the terms of the proofs.
LEMMA UpdateOrderFacts ==
  ASSUME TypeOK, CopiesAreLegitimate, NEW w \in Workers, UpdateOrder(w)
  PROVE  /\ Holding(w)
         /\ job[w].order \in Orders
         /\ \E row \in Row :
              /\ order' = [order EXCEPT ![job[w].order] = row]
              /\ reached' = [reached EXCEPT ![job[w].order] = @ \cup {row.status}]
              /\ Legitimate(row)
              /\ row.status # "absent"
              /\ row.status = Outcome(job[w].op, job[w].row.status)
         /\ \/ Leave(w)
            \/ /\ job[w].op \notin Silent \cup {"refund"}
               /\ pc' = [pc EXCEPT ![w] = "committed"] /\ job' = job
<1>1. Holding(w)
  BY DEF UpdateOrder, Holding
<1>2. /\ job[w].op \in OnOrder
      /\ Legitimate(job[w].row)
      /\ job[w].row.status \in Allowed(job[w].op)
  BY <1>1 DEF CopiesAreLegitimate
<1>3. job[w].order \in Orders /\ job[w].row \in Row /\ job[w].value \in Int
  BY JobFields
<1> DEFINE row == After(job[w].op, job[w].row, job[w].value)
<1>4. row \in Row
  BY <1>2, <1>3, AfterIsRow DEF OnOrder, Operations
<1>5. /\ Legitimate(row)
      /\ row.status # "absent"
      /\ row.status = Outcome(job[w].op, job[w].row.status)
  BY <1>2, <1>3, AfterIsLegitimate
<1>6. /\ order' = [order EXCEPT ![job[w].order] = row]
      /\ reached' = [reached EXCEPT ![job[w].order] = @ \cup {row.status}]
  BY DEF UpdateOrder
<1>7. \/ Leave(w)
      \/ /\ job[w].op \notin Silent \cup {"refund"}
         /\ pc' = [pc EXCEPT ![w] = "committed"] /\ job' = job
  BY DEF UpdateOrder
<1>8. QED
  BY <1>1, <1>3, <1>4, <1>5, <1>6, <1>7

\* A handler that is done holds no copy; the other handlers keep theirs.
LEMMA LeaveKeepsCopies ==
  ASSUME TypeOK, CopiesAreLegitimate, NEW w \in Workers, Leave(w)
  PROVE  CopiesAreLegitimate'
BY DEF Leave, TypeOK, CopiesAreLegitimate, Holding

\* Where a handler holds a copy afterwards it held the same one before.
LEMMA SameCopies ==
  ASSUME TypeOK, CopiesAreLegitimate,
         \A v \in Workers : Holding(v)' => Holding(v),
         \A v \in Workers : job'[v].op = job[v].op /\ job'[v].row = job[v].row
  PROVE  CopiesAreLegitimate'
BY DEF CopiesAreLegitimate, Legitimate, Allowed, OnOrder

\* Copies and rows are right after each step.
LEMMA StampStep ==
  ASSUME TypeOK, StampInv, [Next]_vars
  PROVE  StampInv'
<1>a. RowsAreLegitimate /\ CopiesAreLegitimate
  BY DEF StampInv
<1>b. RowsAreLegitimate' <=> \A o \in Orders : Legitimate(order'[o])
  BY DEF RowsAreLegitimate, Legitimate
<1>c. ASSUME order' = order
      PROVE  RowsAreLegitimate'
  BY <1>a, <1>b, <1>c DEF RowsAreLegitimate
<1>1. ASSUME NEW w \in Workers, NEW o \in Orders, NEW value \in Values,
             CreateEntity(w, o, value)
      PROVE  StampInv'
  <2>1. CopiesAreLegitimate'
    BY <1>a, <1>1 DEF CreateEntity, Accept, TypeOK, CopiesAreLegitimate, Holding
  <2>2. QED
    BY <1>1, <1>c, <2>1 DEF CreateEntity, StampInv
<1>2. ASSUME NEW w \in Workers, NEW op \in OnOrder, NEW o \in Orders,
             NEW value \in Int, GetOrder(w, op, o, value)
      PROVE  StampInv'
  <2>1. PICK at : Accept(w, op, o, value, order[o], at)
    BY <1>2 DEF GetOrder
  <2>2. /\ job'[w].op = op /\ job'[w].row = order[o]
        /\ \A v \in Workers \ {w} : job'[v] = job[v] /\ pc'[v] = pc[v]
    BY <2>1 DEF Accept, TypeOK
  <2>3. order[o].status \in Allowed(op) /\ Legitimate(order[o])
    BY <1>a, <1>2 DEF GetOrder, RowsAreLegitimate
  <2>4. ASSUME NEW v \in Workers, Holding(v)'
        PROVE  /\ job'[v].op \in OnOrder
               /\ Legitimate(job'[v].row)
               /\ job'[v].row.status \in Allowed(job'[v].op)
    <3>1. CASE v = w
      BY <2>2, <2>3, <3>1
    <3>2. CASE v # w
      BY <1>a, <2>2, <2>4, <3>2 DEF CopiesAreLegitimate, Holding
    <3>3. QED
      BY <3>1, <3>2
  <2>5. CopiesAreLegitimate'
    BY <2>4 DEF CopiesAreLegitimate, Legitimate, Allowed
  <2>6. QED
    BY <1>2, <1>c, <2>5 DEF GetOrder, database, StampInv
<1>3. ASSUME NEW w \in Workers, NextOrderNumber(w)
      PROVE  StampInv'
  <2>1. \A v \in Workers : job'[v].op = job[v].op /\ job'[v].row = job[v].row
    BY <1>3 DEF NextOrderNumber, TypeOK, Job
  <2>2. \A v \in Workers : Holding(v)' => Holding(v)
    BY <1>3 DEF NextOrderNumber, TypeOK, Holding
  <2>3. QED
    BY <1>3, <1>a, <1>c, <2>1, <2>2, SameCopies DEF NextOrderNumber, StampInv
<1>4. ASSUME NEW w \in Workers, CommitCreate(w)
      PROVE  StampInv'
  <2> DEFINE new == [NoOrder EXCEPT !.status = "draft", !.total = job[w].value]
  <2>1. Legitimate(new)
    BY JobFields, NewRowsAreLegitimate
  <2>2. order' = [order EXCEPT ![job[w].order] = new]
    BY <1>4 DEF CommitCreate
  <2> HIDE DEF new
  <2>3. RowsAreLegitimate'
    BY <1>a, <1>b, <2>1, <2>2 DEF RowsAreLegitimate, TypeOK
  <2>4. \A v \in Workers : Holding(v)' => Holding(v)
    BY <1>4 DEF CommitCreate, TypeOK, Holding
  <2>5. job' = job
    BY <1>4 DEF CommitCreate
  <2>6. QED
    BY <1>a, <2>3, <2>4, <2>5, SameCopies DEF StampInv
<1>5. ASSUME NEW w \in Workers,
             GetOrderItems(w) \/ SelectOrderItems(w) \/ DeleteOrderItems(w)
      PROVE  StampInv'
  <2>1. PICK lines : job' = [job EXCEPT ![w].items = lines]
    BY <1>5 DEF GetOrderItems, SelectOrderItems, DeleteOrderItems
  <2>2. \A v \in Workers : job'[v].op = job[v].op /\ job'[v].row = job[v].row
    BY <2>1 DEF TypeOK, Job
  <2>3. \A v \in Workers : Holding(v)' => Holding(v)
    BY <1>5 DEF GetOrderItems, SelectOrderItems, DeleteOrderItems, TypeOK, Holding
  <2>4. order' = order
    BY <1>5 DEF GetOrderItems, SelectOrderItems, DeleteOrderItems
  <2>5. QED
    BY <1>a, <1>c, <2>2, <2>3, <2>4, SameCopies DEF StampInv
<1>6. ASSUME NEW w \in Workers, UpdateOrder(w)
      PROVE  StampInv'
  <2>1. PICK row \in Row : /\ order' = [order EXCEPT ![job[w].order] = row]
                           /\ Legitimate(row)
    BY <1>a, <1>6, UpdateOrderFacts
  <2>2. RowsAreLegitimate'
    BY <1>a, <1>b, <2>1 DEF RowsAreLegitimate, TypeOK
  <2>3. CASE Leave(w)
    BY <1>a, <2>2, <2>3, LeaveKeepsCopies DEF StampInv
  <2>4. CASE pc' = [pc EXCEPT ![w] = "committed"] /\ job' = job
    <3>1. \A v \in Workers : Holding(v)' => Holding(v)
      BY <2>4 DEF TypeOK, Holding
    <3>2. QED
      BY <1>a, <2>2, <2>4, <3>1, SameCopies DEF StampInv
  <2>5. QED
    BY <1>a, <1>6, <2>3, <2>4, UpdateOrderFacts
<1>7. ASSUME NEW w \in Workers, CreateRefund(w)
      PROVE  StampInv'
  <2>1. \A v \in Workers : Holding(v)' => Holding(v)
    BY <1>7 DEF CreateRefund, TypeOK, Holding
  <2>2. job' = job /\ order' = order
    BY <1>7 DEF CreateRefund
  <2>3. QED
    BY <1>a, <1>c, <2>1, <2>2, SameCopies DEF StampInv
<1>8. ASSUME NEW w \in Workers, Publish(w) \/ Fail(w)
      PROVE  StampInv'
  BY <1>a, <1>c, <1>8, LeaveKeepsCopies DEF Publish, Fail, StampInv
<1>9. ASSUME Crash
      PROVE  StampInv'
  BY <1>9, <1>c DEF Crash, StampInv, CopiesAreLegitimate, Holding
<1>10. CASE UNCHANGED vars
  BY <1>10, <1>a, <1>c, SameCopies DEF StampInv, Holding
<1>11. "update" \in OnOrder /\ 0 \in Int /\ Values \subseteq Int
       /\ Transitions \cup {"annotate", "refund"} \subseteq OnOrder
  BY OrdersAssumption DEF OnOrder
<1>12. QED
  BY <1>1, <1>2, <1>3, <1>4, <1>5, <1>6, <1>7, <1>8, <1>9, <1>10, <1>11 DEF Next

LEMMA Stamps == Spec => []StampInv
<1>1. Init => StampInv
  BY NewRowsAreLegitimate, OrdersAssumption
  DEF Init, StampInv, RowsAreLegitimate, CopiesAreLegitimate, Holding, Legitimate,
      NoOrder
<1>2. TypeOK /\ StampInv /\ [Next]_vars => StampInv'
  BY StampStep
<1>3. QED
  BY <1>1, <1>2, TypeCorrect, PTL DEF Spec

(* The time stamps of every order agree with its status, whatever handlers   *)
(* overlap: each writes a whole row that one of them read and changed.       *)
THEOREM MilestonesMatch == Spec => []MilestonesMatchStatus
<1>1. StampInv => MilestonesMatchStatus
  BY DEF StampInv, RowsAreLegitimate, Legitimate, MilestonesMatchStatus
<1>2. QED
  BY <1>1, Stamps, PTL

-----------------------------------------------------------------------------
(* Events *)

Creating(w) == pc[w] \in {"created", "numbered"}

\* A handler that is about to publish has committed what its event announces.
Entitled ==
    \A w \in Workers :
      /\ Creating(w) => job[w].op = "create"
      /\ pc[w] = "committed" =>
           /\ job[w].op \in Transitions \cup {"create", "refund"}
           /\ job[w].op # "refund" => Announces[Event(job[w].op)] \in reached[job[w].order]

EventInv == Entitled /\ EventsFollowCommits

LEMMA EventsOfOperations ==
  /\ Announces["order.created"] = "draft"
  /\ \A op \in Transitions : \A status : Announces[Event(op)] = Outcome(op, status)
  /\ Event("refund") \notin DOMAIN Announces
  /\ Event("create") = "order.created"
  /\ "entity.created" \notin DOMAIN Announces
BY DEF Announces, Event, Outcome, Transitions

\* The statuses an order has reached stay reached, so what was published stays
\* true and what is about to be published as well.
LEMMA ReachedGrows ==
  ASSUME TypeOK, EventInv, published' = published,
         \A o \in Orders : reached[o] \subseteq reached'[o],
         \A v \in Workers : /\ job'[v].op = job[v].op
                            /\ job'[v].order = job[v].order,
         \A v \in Workers : Creating(v)' => Creating(v),
         \A v \in Workers : pc'[v] = "committed" =>
           \/ pc[v] = "committed"
           \/ job[v].op = "refund"
           \/ /\ job[v].op \in Transitions \cup {"create"}
              /\ Announces[Event(job[v].op)] \in reached'[job[v].order]
  PROVE  EventInv'
<1>1. EventsFollowCommits'
  BY DEF EventInv, EventsFollowCommits
<1>2. \A v \in Workers : Event(job'[v].op) = Event(job[v].op)
  OBVIOUS
<1>3. ASSUME NEW v \in Workers
      PROVE  /\ Creating(v)' => job'[v].op = "create"
             /\ pc'[v] = "committed" =>
                  /\ job'[v].op \in Transitions \cup {"create", "refund"}
                  /\ job'[v].op # "refund" =>
                       Announces[Event(job'[v].op)] \in reached'[job'[v].order]
  <2>1. job[v].order \in Orders
    BY JobFields
  <2>2. Creating(v)' => job'[v].op = "create"
    BY DEF EventInv, Entitled
  <2>3. ASSUME pc[v] = "committed"
        PROVE  /\ job'[v].op \in Transitions \cup {"create", "refund"}
               /\ job'[v].op # "refund" =>
                    Announces[Event(job'[v].op)] \in reached'[job'[v].order]
    BY <1>2, <2>1, <2>3 DEF EventInv, Entitled
  <2>4. QED
    BY <1>2, <2>2, <2>3
<1>4. Entitled'
  BY <1>3 DEF Entitled, Event, Announces
<1>5. QED
  BY <1>1, <1>4 DEF EventInv

\* A handler that leaves, or one that begins, publishes nothing.
LEMMA OthersStayEntitled ==
  ASSUME TypeOK, EventInv, NEW w \in Workers, published' = published,
         reached' = reached,
         \A v \in Workers \ {w} : job'[v] = job[v] /\ pc'[v] = pc[v],
         pc'[w] # "committed",
         Creating(w)' => job'[w].op = "create"
  PROVE  EventInv'
<1>1. EventsFollowCommits'
  BY DEF EventInv, EventsFollowCommits
<1>2. Entitled'
  BY DEF EventInv, Entitled, Creating, Event, Announces
<1>3. QED
  BY <1>1, <1>2 DEF EventInv

LEMMA EventStep ==
  ASSUME TypeOK, CopiesAreLegitimate, EventInv, [Next]_vars
  PROVE  EventInv'
<1>1. ASSUME NEW w \in Workers, NEW o \in Orders, NEW value \in Values,
             CreateEntity(w, o, value)
      PROVE  EventInv'
  <2>1. EventsFollowCommits'
    BY <1>1, EventsOfOperations DEF CreateEntity, EventInv, EventsFollowCommits
  <2>2. /\ job'[w].op = "create" /\ pc'[w] = "created"
        /\ \A v \in Workers \ {w} : job'[v] = job[v] /\ pc'[v] = pc[v]
        /\ reached' = reached
    BY <1>1 DEF CreateEntity, Accept, TypeOK
  <2>3. Entitled'
    BY <2>2 DEF EventInv, Entitled, Creating, Event, Announces
  <2>4. QED
    BY <2>1, <2>3 DEF EventInv
<1>2. ASSUME NEW w \in Workers, NEW op \in OnOrder, NEW o \in Orders,
             NEW value \in Int, GetOrder(w, op, o, value)
      PROVE  EventInv'
  <2>1. PICK at \in {"reading", "replacing", "ready"} :
          Accept(w, op, o, value, order[o], at)
    BY <1>2 DEF GetOrder
  <2>2. /\ pc'[w] = at
        /\ \A v \in Workers \ {w} : job'[v] = job[v] /\ pc'[v] = pc[v]
    BY <2>1 DEF Accept, TypeOK
  <2>3. QED
    BY <1>2, <2>1, <2>2, OthersStayEntitled DEF GetOrder, Creating
<1>3. ASSUME NEW w \in Workers, NextOrderNumber(w)
      PROVE  EventInv'
  <2>1. \A v \in Workers : job'[v].op = job[v].op /\ job'[v].order = job[v].order
    BY <1>3 DEF NextOrderNumber, TypeOK, Job
  <2>2. /\ \A v \in Workers : Creating(v)' => Creating(v)
        /\ \A v \in Workers : pc'[v] = "committed" => pc[v] = "committed"
    BY <1>3 DEF NextOrderNumber, TypeOK, Creating
  <2>3. QED
    BY <1>3, <2>1, <2>2, ReachedGrows DEF NextOrderNumber
<1>4. ASSUME NEW w \in Workers, CommitCreate(w)
      PROVE  EventInv'
  <2>1. reached' = [reached EXCEPT ![job[w].order] = @ \cup {"draft"}]
    BY <1>4 DEF CommitCreate
  <2>2. /\ \A o \in Orders : reached[o] \subseteq reached'[o]
        /\ "draft" \in reached'[job[w].order]
    BY <2>1, JobFields DEF TypeOK
  <2>3. job[w].op = "create"
    BY <1>4 DEF CommitCreate, EventInv, Entitled, Creating
  <2>4. /\ \A v \in Workers : Creating(v)' => Creating(v)
        /\ \A v \in Workers : pc'[v] = "committed" => v = w \/ pc[v] = "committed"
    BY <1>4 DEF CommitCreate, TypeOK, Creating
  <2>5. job' = job /\ published' = published
    BY <1>4 DEF CommitCreate
  <2>6. Announces[Event(job[w].op)] \in reached'[job[w].order]
    BY <2>2, <2>3, EventsOfOperations
  <2>7. QED
    BY <2>2, <2>3, <2>4, <2>5, <2>6, ReachedGrows
<1>5. ASSUME NEW w \in Workers,
             GetOrderItems(w) \/ SelectOrderItems(w) \/ DeleteOrderItems(w)
      PROVE  EventInv'
  <2>1. PICK lines : job' = [job EXCEPT ![w].items = lines]
    BY <1>5 DEF GetOrderItems, SelectOrderItems, DeleteOrderItems
  <2>2. \A v \in Workers : job'[v].op = job[v].op /\ job'[v].order = job[v].order
    BY <2>1 DEF TypeOK, Job
  <2>3. /\ \A v \in Workers : Creating(v)' => Creating(v)
        /\ \A v \in Workers : pc'[v] = "committed" => pc[v] = "committed"
    BY <1>5 DEF GetOrderItems, SelectOrderItems, DeleteOrderItems, TypeOK, Creating
  <2>4. reached' = reached /\ published' = published
    BY <1>5 DEF GetOrderItems, SelectOrderItems, DeleteOrderItems
  <2>5. QED
    BY <2>2, <2>3, <2>4, ReachedGrows
<1>6. ASSUME NEW w \in Workers, UpdateOrder(w)
      PROVE  EventInv'
  <2>1. PICK row \in Row :
          /\ reached' = [reached EXCEPT ![job[w].order] = @ \cup {row.status}]
          /\ row.status = Outcome(job[w].op, job[w].row.status)
    BY <1>6, UpdateOrderFacts
  <2>2. /\ \A o \in Orders : reached[o] \subseteq reached'[o]
        /\ row.status \in reached'[job[w].order]
    BY <2>1, JobFields DEF TypeOK
  <2>3. published' = published
    BY <1>6 DEF UpdateOrder
  <2>4. CASE Leave(w)
    <3>1. EventsFollowCommits'
      BY <2>2, <2>3 DEF EventInv, EventsFollowCommits
    <3>2. \A v \in Workers \ {w} : job'[v] = job[v] /\ pc'[v] = pc[v]
      BY <2>4 DEF Leave, TypeOK
    <3>3. pc'[w] = "idle"
      BY <2>4 DEF Leave, TypeOK
    <3>4. ASSUME NEW v \in Workers \ {w}, pc'[v] = "committed",
                 job'[v].op # "refund"
          PROVE  Announces[Event(job'[v].op)] \in reached'[job'[v].order]
      <4>1. Announces[Event(job[v].op)] \in reached[job[v].order]
        BY <3>2, <3>4 DEF EventInv, Entitled
      <4>2. job[v].order \in Orders
        BY JobFields
      <4>3. QED
        BY <2>2, <3>2, <4>1, <4>2
    <3>5. Entitled'
      BY <3>2, <3>3, <3>4 DEF EventInv, Entitled, Creating, Event, Announces
    <3>6. QED
      BY <3>1, <3>5 DEF EventInv
  <2>5. CASE /\ job[w].op \notin Silent \cup {"refund"}
             /\ pc' = [pc EXCEPT ![w] = "committed"] /\ job' = job
    <3>1. job[w].op \in Transitions
      BY <1>6, <2>5, UpdateOrderFacts DEF CopiesAreLegitimate, OnOrder, Silent
    <3>2. Announces[Event(job[w].op)] \in reached'[job[w].order]
      BY <2>1, <2>2, <3>1, EventsOfOperations
    <3>3. /\ \A v \in Workers : Creating(v)' => Creating(v)
          /\ \A v \in Workers : pc'[v] = "committed" => v = w \/ pc[v] = "committed"
      BY <2>5 DEF TypeOK, Creating
    <3>4. QED
      BY <2>2, <2>3, <2>5, <3>1, <3>2, <3>3, ReachedGrows
  <2>6. QED
    BY <1>6, <2>4, <2>5, UpdateOrderFacts
<1>7. ASSUME NEW w \in Workers, CreateRefund(w)
      PROVE  EventInv'
  <2>1. /\ \A v \in Workers : Creating(v)' => Creating(v)
        /\ \A v \in Workers : pc'[v] = "committed" => v = w \/ pc[v] = "committed"
    BY <1>7 DEF CreateRefund, TypeOK, Creating
  <2>2. job' = job /\ published' = published /\ reached' = reached
        /\ job[w].op = "refund"
    BY <1>7 DEF CreateRefund
  <2>3. QED
    BY <2>1, <2>2, ReachedGrows
<1>8. ASSUME NEW w \in Workers, Publish(w)
      PROVE  EventInv'
  <2>1. /\ job[w].op \in Transitions \cup {"create", "refund"}
        /\ job[w].op # "refund" => Announces[Event(job[w].op)] \in reached[job[w].order]
    BY <1>8 DEF Publish, EventInv, Entitled
  <2>2. /\ published' = published \cup {<<Event(job[w].op), job[w].order>>}
        /\ reached' = reached
    BY <1>8 DEF Publish
  <2>3. EventsFollowCommits'
    BY <2>1, <2>2, EventsOfOperations DEF EventInv, EventsFollowCommits
  <2>4. /\ \A v \in Workers \ {w} : job'[v] = job[v] /\ pc'[v] = pc[v]
        /\ pc'[w] = "idle"
    BY <1>8 DEF Publish, Leave, TypeOK
  <2>5. Entitled'
    BY <2>2, <2>4 DEF EventInv, Entitled, Creating, Event, Announces
  <2>6. QED
    BY <2>3, <2>5 DEF EventInv
<1>9. ASSUME NEW w \in Workers, Fail(w)
      PROVE  EventInv'
  <2>1. /\ \A v \in Workers \ {w} : job'[v] = job[v] /\ pc'[v] = pc[v]
        /\ pc'[w] = "idle"
        /\ published' = published /\ reached' = reached
    BY <1>9 DEF Fail, Leave, TypeOK
  <2>2. QED
    BY <2>1, OthersStayEntitled DEF Creating
<1>10. ASSUME Crash
       PROVE  EventInv'
  BY <1>10 DEF Crash, EventInv, EventsFollowCommits, Entitled, Creating
<1>11. CASE UNCHANGED vars
  BY <1>11, ReachedGrows DEF Creating
<1>12. "update" \in OnOrder /\ 0 \in Int /\ Values \subseteq Int
       /\ Transitions \cup {"annotate", "refund"} \subseteq OnOrder
  BY OrdersAssumption DEF OnOrder
<1>13. QED
  BY <1>1, <1>2, <1>3, <1>4, <1>5, <1>6, <1>7, <1>8, <1>9, <1>10, <1>11, <1>12
  DEF Next

(* No subscriber ever hears of a status the order was not committed in: each *)
(* handler publishes after WithTx has returned, and crashes only lose events. *)
THEOREM EventsFollow == Spec => []EventsFollowCommits
<1>1. Init => EventInv
  BY DEF Init, EventInv, EventsFollowCommits, Entitled, Creating
<1>2. TypeOK /\ StampInv /\ EventInv /\ [Next]_vars => EventInv'
  BY EventStep DEF StampInv
<1>3. EventInv => EventsFollowCommits
  BY DEF EventInv
<1>4. QED
  BY <1>1, <1>2, <1>3, TypeCorrect, Stamps, PTL DEF Spec

-----------------------------------------------------------------------------
(* Numbers *)

\* Orders being created have an entity and no row, and no two handlers create
\* the same one; who has taken a number holds the lock on the sequence.
CreatorsExclude ==
    /\ \A o \in Orders : o \notin entities => order[o].status = "absent"
    /\ \A w \in Workers :
         /\ Creating(w) => /\ job[w].order \in entities
                           /\ order[job[w].order].status = "absent"
         /\ pc[w] = "numbered" => numbering = w /\ job[w].number = sequence + 1
         /\ Holding(w) => order[job[w].order].status # "absent"
    /\ \A v, w \in Workers :
         Creating(v) /\ Creating(w) /\ v # w => job[v].order # job[w].order

Counted ==
    /\ IsFiniteSet(Existing)
    /\ sequence = Cardinality(Existing)
    /\ {number[o] : o \in Existing} = 1..sequence

NumberInv == CreatorsExclude /\ Counted

\* No order appears, and no handler gets further with creating one.
LEMMA SameNumbers ==
  ASSUME TypeOK, NumberInv,
         sequence' = sequence, number' = number, entities' = entities,
         \A o \in Orders : order'[o].status = "absent" <=> order[o].status = "absent",
         \A v \in Workers : Creating(v)' => Creating(v) /\ job'[v].order = job[v].order,
         \A v \in Workers : pc'[v] = "numbered" =>
           /\ pc[v] = "numbered"
           /\ job'[v].number = job[v].number
           /\ numbering' = numbering,
         \A v \in Workers : Holding(v)' =>
           /\ job'[v].order \in Orders
           /\ order[job'[v].order].status # "absent"
  PROVE  NumberInv'
<1>1. Existing' = Existing
  BY DEF Existing
<1>2. Counted'
  BY <1>1 DEF NumberInv, Counted
<1>3. CreatorsExclude'
  <2>1. \A o \in Orders : o \notin entities' => order'[o].status = "absent"
    BY DEF NumberInv, CreatorsExclude
  <2>2. ASSUME NEW v \in Workers
        PROVE  /\ Creating(v)' => /\ job'[v].order \in entities'
                                  /\ order'[job'[v].order].status = "absent"
               /\ pc'[v] = "numbered" =>
                    numbering' = v /\ job'[v].number = sequence' + 1
               /\ Holding(v)' => order'[job'[v].order].status # "absent"
    <3>1. job[v].order \in Orders
      BY JobFields
    <3>2. QED
      BY <3>1 DEF NumberInv, CreatorsExclude
  <2>3. ASSUME NEW v \in Workers, NEW u \in Workers, Creating(v)', Creating(u)', v # u
        PROVE  job'[v].order # job'[u].order
    BY <2>3 DEF NumberInv, CreatorsExclude
  <2>4. QED
    BY <2>1, <2>2, <2>3 DEF CreatorsExclude
<1>4. QED
  BY <1>2, <1>3 DEF NumberInv

\* A committed order takes the next number, and the sequence follows.
LEMMA OneMore ==
  ASSUME TypeOK, Counted, NEW o \in Orders, order[o].status = "absent",
         order'[o].status # "absent",
         \A p \in Orders \ {o} : order'[p].status = order[p].status,
         number' = [number EXCEPT ![o] = sequence + 1], sequence' = sequence + 1
  PROVE  Counted'
<1>1. Existing' = Existing \cup {o} /\ o \notin Existing
  BY DEF Existing
<1>2. IsFiniteSet(Existing') /\ Cardinality(Existing') = sequence + 1
  BY <1>1, FS_AddElement DEF Counted
<1>3. /\ \A p \in Existing : number'[p] = number[p]
      /\ number'[o] = sequence + 1
  BY <1>1 DEF TypeOK, Existing
<1>4. {number'[p] : p \in Existing'} = {number[p] : p \in Existing} \cup {sequence + 1}
  BY <1>1, <1>3
<1>5. sequence \in Nat
  BY DEF TypeOK
<1>6. 1..(sequence + 1) = (1..sequence) \cup {sequence + 1}
  BY <1>5
<1>7. {number'[p] : p \in Existing'} = 1..sequence'
  BY <1>4, <1>6 DEF Counted
<1>8. QED
  BY <1>2, <1>7 DEF Counted

LEMMA NumberStep ==
  ASSUME TypeOK, CopiesAreLegitimate, NumberInv, [Next]_vars
  PROVE  NumberInv'
<1>a. CreatorsExclude /\ Counted
  BY DEF NumberInv
<1>b. \A v \in Workers : job[v].order \in Orders
  BY JobFields
<1>1. ASSUME NEW w \in Workers, NEW o \in Orders, NEW value \in Values,
             CreateEntity(w, o, value)
      PROVE  NumberInv'
  <2>1. /\ o \notin entities /\ entities' = entities \cup {o}
        /\ order' = order /\ number' = number /\ sequence' = sequence
        /\ numbering' = numbering
    BY <1>1 DEF CreateEntity
  <2>2. /\ job'[w].order = o /\ pc'[w] = "created"
        /\ \A v \in Workers \ {w} : job'[v] = job[v] /\ pc'[v] = pc[v]
    BY <1>1 DEF CreateEntity, Accept, TypeOK
  <2>3. Counted'
    BY <1>a, <2>1 DEF Counted, Existing
  <2>4. \A p \in Orders : p \notin entities' => order'[p].status = "absent"
    BY <1>a, <2>1 DEF CreatorsExclude
  <2>5. ASSUME NEW v \in Workers
        PROVE  /\ Creating(v)' => /\ job'[v].order \in entities'
                                  /\ order'[job'[v].order].status = "absent"
               /\ pc'[v] = "numbered" =>
                    numbering' = v /\ job'[v].number = sequence' + 1
               /\ Holding(v)' => order'[job'[v].order].status # "absent"
    <3>1. CASE v = w
      BY <1>a, <2>1, <2>2, <3>1 DEF CreatorsExclude, Holding
    <3>2. CASE v # w
      BY <1>a, <2>1, <2>2, <3>2 DEF CreatorsExclude, Creating, Holding
    <3>3. QED
      BY <3>1, <3>2
  <2>6. ASSUME NEW v \in Workers, NEW u \in Workers, Creating(v)', Creating(u)', v # u
        PROVE  job'[v].order # job'[u].order
    BY <1>a, <2>1, <2>2, <2>6 DEF CreatorsExclude, Creating
  <2>7. QED
    BY <2>3, <2>4, <2>5, <2>6 DEF CreatorsExclude, NumberInv
<1>2. ASSUME NEW w \in Workers, NEW op \in OnOrder, NEW o \in Orders,
             NEW value \in Int, GetOrder(w, op, o, value)
      PROVE  NumberInv'
  <2>1. PICK at \in {"reading", "replacing", "ready"} :
          Accept(w, op, o, value, order[o], at)
    BY <1>2 DEF GetOrder
  <2>2. /\ job'[w].order = o /\ pc'[w] = at
        /\ \A v \in Workers \ {w} : job'[v] = job[v] /\ pc'[v] = pc[v]
    BY <2>1 DEF Accept, TypeOK
  <2>3. order[o].status # "absent"
    BY <1>2 DEF GetOrder, Allowed, OnOrder, Transitions
  <2>4. UNCHANGED <<order, number, sequence, entities, numbering>>
    BY <1>2 DEF GetOrder
  <2>5. /\ \A v \in Workers : Creating(v)' => Creating(v) /\ job'[v].order = job[v].order
        /\ \A v \in Workers : pc'[v] = "numbered" =>
             pc[v] = "numbered" /\ job'[v].number = job[v].number
    BY <2>2 DEF Creating
  <2>6. \A v \in Workers : Holding(v)' =>
          job'[v].order \in Orders /\ order[job'[v].order].status # "absent"
    BY <1>a, <1>b, <2>2, <2>3 DEF Holding, CreatorsExclude
  <2>7. QED
    BY <2>4, <2>5, <2>6, SameNumbers
<1>3. ASSUME NEW w \in Workers, NextOrderNumber(w)
      PROVE  NumberInv'
  <2>1. /\ pc[w] = "created" /\ numbering = NoWorker /\ numbering' = w
        /\ UNCHANGED <<order, number, sequence, entities>>
    BY <1>3 DEF NextOrderNumber
  <2>2. /\ \A v \in Workers : job'[v].order = job[v].order
        /\ job'[w].number = sequence + 1
        /\ pc'[w] = "numbered"
        /\ \A v \in Workers \ {w} : pc'[v] = pc[v]
    BY <1>3 DEF NextOrderNumber, TypeOK, Job
  <2>3. \A v \in Workers \ {w} : pc'[v] # "numbered"
    BY <1>a, <2>1, <2>2, OrdersAssumption DEF CreatorsExclude
  <2>4. Counted'
    BY <1>a, <2>1 DEF Counted, Existing
  <2>5. CreatorsExclude'
    BY <1>a, <2>1, <2>2, <2>3 DEF CreatorsExclude, Creating, Holding
  <2>6. QED
    BY <2>4, <2>5 DEF NumberInv
<1>4. ASSUME NEW w \in Workers, CommitCreate(w)
      PROVE  NumberInv'
  <2> DEFINE o == job[w].order
  <2>1. /\ pc[w] = "numbered" /\ numbering = w /\ job[w].number = sequence + 1
        /\ order[o].status = "absent" /\ o \in entities /\ o \in Orders
    BY <1>4, <1>a, <1>b DEF CommitCreate, CreatorsExclude, Creating
  <2>2. /\ order'[o].status # "absent"
        /\ \A p \in Orders \ {o} : order'[p] = order[p]
    <3>1. order' = [order EXCEPT ![o] = [NoOrder EXCEPT !.status = "draft",
                                                        !.total = job[w].value]]
      BY <1>4 DEF CommitCreate
    <3>2. [NoOrder EXCEPT !.status = "draft", !.total = job[w].value].status = "draft"
      BY DEF NoOrder
    <3>3. QED
      BY <2>1, <3>1, <3>2 DEF TypeOK
  <2>3. /\ number' = [number EXCEPT ![o] = sequence + 1]
        /\ sequence' = sequence + 1
        /\ pc' = [pc EXCEPT ![w] = "committed"]
        /\ job' = job /\ entities' = entities
    BY <1>4, <2>1 DEF CommitCreate
  <2> HIDE DEF o
  <2>4. Counted'
    BY <1>a, <2>1, <2>2, <2>3, OneMore
  <2>5. /\ pc'[w] = "committed"
        /\ \A v \in Workers \ {w} : pc'[v] = pc[v] /\ pc[v] # "numbered"
    BY <1>a, <2>1, <2>3 DEF CreatorsExclude, TypeOK
  <2>6. \A p \in Orders : p \notin entities' => order'[p].status = "absent"
    BY <1>a, <2>1, <2>2, <2>3 DEF CreatorsExclude
  <2>7. ASSUME NEW v \in Workers
        PROVE  /\ Creating(v)' => /\ job'[v].order \in entities'
                                  /\ order'[job'[v].order].status = "absent"
               /\ pc'[v] # "numbered"
               /\ Holding(v)' => order'[job'[v].order].status # "absent"
    <3>1. CASE v = w
      BY <2>5, <3>1 DEF Creating, Holding
    <3>2. CASE v # w
      <4>1. Creating(v)' => job[v].order # o
        BY <1>a, <2>1, <2>5, <3>2 DEF CreatorsExclude, Creating, o
      <4>2. QED
        BY <1>a, <1>b, <2>2, <2>3, <2>5, <3>2, <4>1
        DEF CreatorsExclude, Creating, Holding
    <3>3. QED
      BY <3>1, <3>2
  <2>8. \A v, u \in Workers : Creating(v)' /\ Creating(u)' /\ v # u =>
          job'[v].order # job'[u].order
    BY <1>a, <2>3, <2>5 DEF CreatorsExclude, Creating
  <2>9. QED
    BY <2>4, <2>6, <2>7, <2>8 DEF CreatorsExclude, NumberInv
<1>5. ASSUME NEW w \in Workers,
             GetOrderItems(w) \/ SelectOrderItems(w) \/ DeleteOrderItems(w)
      PROVE  NumberInv'
  <2>1. PICK lines : job' = [job EXCEPT ![w].items = lines]
    BY <1>5 DEF GetOrderItems, SelectOrderItems, DeleteOrderItems
  <2>2. \A v \in Workers : /\ job'[v].order = job[v].order
                           /\ job'[v].number = job[v].number
    BY <2>1 DEF TypeOK, Job
  <2>3. /\ \A v \in Workers : Creating(v)' => Creating(v)
        /\ \A v \in Workers : Holding(v)' => Holding(v)
        /\ \A v \in Workers : pc'[v] = "numbered" => pc[v] = "numbered"
    BY <1>5 DEF GetOrderItems, SelectOrderItems, DeleteOrderItems, TypeOK,
                Creating, Holding
  <2>4. UNCHANGED <<order, number, sequence, entities, numbering>>
    BY <1>5 DEF GetOrderItems, SelectOrderItems, DeleteOrderItems
  <2>5. \A v \in Workers : Holding(v)' =>
          job'[v].order \in Orders /\ order[job'[v].order].status # "absent"
    BY <1>a, <1>b, <2>2, <2>3 DEF CreatorsExclude
  <2>6. QED
    BY <2>2, <2>3, <2>4, <2>5, SameNumbers
<1>6. ASSUME NEW w \in Workers, UpdateOrder(w)
      PROVE  NumberInv'
  <2>1. Holding(w) /\ job[w].order \in Orders
    BY <1>6, UpdateOrderFacts
  <2>2. PICK row \in Row : /\ order' = [order EXCEPT ![job[w].order] = row]
                           /\ row.status # "absent"
    BY <1>6, UpdateOrderFacts
  <2>3. \A o \in Orders : order'[o].status = "absent" <=> order[o].status = "absent"
    BY <1>a, <2>1, <2>2 DEF CreatorsExclude, TypeOK
  <2>4. UNCHANGED <<number, sequence, entities, numbering>>
    BY <1>6 DEF UpdateOrder
  <2>5. \A v \in Workers \ {w} : job'[v] = job[v] /\ pc'[v] = pc[v]
    BY <1>6 DEF UpdateOrder, Leave, TypeOK
  <2>6. pc'[w] \in {"idle", "committed"}
    BY <1>6 DEF UpdateOrder, Leave, TypeOK
  <2>7. /\ \A v \in Workers : Creating(v)' => Creating(v) /\ job'[v].order = job[v].order
        /\ \A v \in Workers : pc'[v] = "numbered" =>
             pc[v] = "numbered" /\ job'[v].number = job[v].number
        /\ \A v \in Workers : Holding(v)' =>
             job'[v].order \in Orders /\ order[job'[v].order].status # "absent"
    BY <1>a, <1>b, <2>5, <2>6 DEF CreatorsExclude, Creating, Holding
  <2>8. QED
    BY <2>3, <2>4, <2>7, SameNumbers
<1>7. ASSUME NEW w \in Workers, CreateRefund(w)
      PROVE  NumberInv'
  <2>1. UNCHANGED <<order, number, sequence, entities, numbering, job>>
    BY <1>7 DEF CreateRefund
  <2>2. /\ \A v \in Workers : Creating(v)' => Creating(v)
        /\ \A v \in Workers : Holding(v)' => Holding(v)
        /\ \A v \in Workers : pc'[v] = "numbered" => pc[v] = "numbered"
    BY <1>7 DEF CreateRefund, TypeOK, Creating, Holding
  <2>3. \A v \in Workers : Holding(v)' =>
          job'[v].order \in Orders /\ order[job'[v].order].status # "absent"
    BY <1>a, <1>b, <2>1, <2>2 DEF CreatorsExclude
  <2>4. QED
    BY <2>1, <2>2, <2>3, SameNumbers
<1>8. ASSUME NEW w \in Workers, Publish(w) \/ Fail(w)
      PROVE  NumberInv'
  <2>1. UNCHANGED <<order, number, sequence, entities>>
    BY <1>8 DEF Publish, Fail
  <2>2. /\ \A v \in Workers \ {w} : job'[v] = job[v] /\ pc'[v] = pc[v]
        /\ pc'[w] = "idle"
    BY <1>8 DEF Publish, Fail, Leave, TypeOK
  <2>3. numbering' = IF Fail(w) /\ numbering = w THEN NoWorker ELSE numbering
    BY <1>8 DEF Publish, Fail
  <2>4. /\ \A v \in Workers : Creating(v)' => Creating(v) /\ job'[v].order = job[v].order
        /\ \A v \in Workers : Holding(v)' =>
             job'[v].order \in Orders /\ order[job'[v].order].status # "absent"
    BY <1>a, <1>b, <2>2 DEF CreatorsExclude, Creating, Holding
  <2>5. \A v \in Workers : pc'[v] = "numbered" =>
          /\ pc[v] = "numbered" /\ job'[v].number = job[v].number
          /\ numbering' = numbering
    <3>1. \A v \in Workers : pc'[v] = "numbered" =>
            pc[v] = "numbered" /\ job'[v] = job[v] /\ v # w
      BY <2>2
    <3>2. \A v \in Workers : pc[v] = "numbered" => numbering = v
      BY <1>a DEF CreatorsExclude
    <3>3. QED
      BY <2>3, <3>1, <3>2
  <2>6. QED
    BY <2>1, <2>4, <2>5, SameNumbers
<1>9. ASSUME Crash
      PROVE  NumberInv'
  <2>1. UNCHANGED <<order, number, sequence, entities>> /\ \A v \in Workers : pc'[v] = "idle"
    BY <1>9 DEF Crash
  <2>2. QED
    BY <2>1, SameNumbers DEF Creating, Holding
<1>10. CASE UNCHANGED vars
  <2>1. \A v \in Workers : Holding(v)' =>
          job'[v].order \in Orders /\ order[job'[v].order].status # "absent"
    BY <1>10, <1>a, <1>b DEF CreatorsExclude, Holding
  <2>2. QED
    BY <1>10, <2>1, SameNumbers DEF Creating
<1>11. "update" \in OnOrder /\ 0 \in Int /\ Values \subseteq Int
       /\ Transitions \cup {"annotate", "refund"} \subseteq OnOrder
  BY OrdersAssumption DEF OnOrder
<1>12. QED
  BY <1>1, <1>2, <1>3, <1>4, <1>5, <1>6, <1>7, <1>8, <1>9, <1>10, <1>11 DEF Next

\* Creations exclude each other, and orders and numbers go together.
LEMMA Numbers == Spec => []NumberInv
<1>1. Init => NumberInv
  <2> SUFFICES ASSUME Init
               PROVE  NumberInv
    OBVIOUS
  <2>1. Existing = {} /\ sequence = 0
    BY DEF Init, Existing, NoOrder
  <2>2. {number[o] : o \in Existing} = 1..sequence
    BY <2>1
  <2>3. Counted
    BY <2>1, <2>2, FS_EmptySet DEF Counted
  <2>4. CreatorsExclude
    BY DEF Init, CreatorsExclude, Creating, Holding, NoOrder
  <2>5. QED
    BY <2>3, <2>4 DEF NumberInv
<1>2. TypeOK /\ StampInv /\ NumberInv /\ [Next]_vars => NumberInv'
  BY NumberStep DEF StampInv
<1>3. QED
  BY <1>1, <1>2, TypeCorrect, Stamps, PTL DEF Spec

(* Orders are numbered 1, 2, 3 ... without a gap or a repetition, whatever   *)
(* creations overlap, fail or die: the row lock of NextOrderNumber is held   *)
(* until the transaction that stores the order ends.                         *)
THEOREM NumbersConsecutive == Spec => []NumbersAreConsecutive
<1>1. NumberInv => NumbersAreConsecutive
  BY DEF NumberInv, Counted, NumbersAreConsecutive
<1>2. QED
  BY <1>1, Numbers, PTL

-----------------------------------------------------------------------------
(* Copies *)

\* The copy of a handler that is not stale is what the table holds.
Fresh == \A w \in Workers :
           Holding(w) /\ w \notin stale => job[w].row = order[job[w].order]

\* No order changes and no handler gets a new copy.
LEMMA SameFresh ==
  ASSUME Fresh, order' = order, stale' = stale,
         \A v \in Workers : Holding(v)' => /\ Holding(v)
                                          /\ job'[v].row = job[v].row
                                          /\ job'[v].order = job[v].order
  PROVE  Fresh'
BY DEF Fresh

\* A handler admitted with the row of the table is fresh; the others stay so.
LEMMA AcceptFresh ==
  ASSUME TypeOK, Fresh, NEW w \in Workers, NEW op, NEW o \in Orders, NEW value,
         NEW row, NEW at, Accept(w, op, o, value, row, at), order' = order,
         row = order[o] \/ at = "created"
  PROVE  Fresh'
<1>1. /\ job'[w].order = o /\ job'[w].row = row /\ pc'[w] = at
      /\ \A v \in Workers \ {w} : job'[v] = job[v] /\ pc'[v] = pc[v]
      /\ stale' = stale \ {w}
  BY DEF Accept, TypeOK
<1>2. ASSUME NEW v \in Workers, Holding(v)', v \notin stale'
      PROVE  job'[v].row = order'[job'[v].order]
  <2>1. CASE v = w
    BY <1>1, <1>2, <2>1 DEF Holding
  <2>2. CASE v # w
    BY <1>1, <1>2, <2>2 DEF Fresh, Holding
  <2>3. QED
    BY <2>1, <2>2
<1>3. QED
  BY <1>2 DEF Fresh

\* A copy goes stale at the step that changes its order, and not before.
LEMMA FreshStep ==
  ASSUME TypeOK, CopiesAreLegitimate, NumberInv, Fresh, [Next]_vars
  PROVE  Fresh'
<1>1. ASSUME NEW w \in Workers, NEW o \in Orders, NEW value \in Values,
             CreateEntity(w, o, value)
      PROVE  Fresh'
  <2>1. Accept(w, "create", o, value, NoOrder, "created") /\ order' = order
    BY <1>1 DEF CreateEntity
  <2>2. QED
    BY <2>1, AcceptFresh
<1>2. ASSUME NEW w \in Workers, NEW op, NEW o \in Orders, NEW value,
             GetOrder(w, op, o, value)
      PROVE  Fresh'
  <2>1. PICK at : Accept(w, op, o, value, order[o], at)
    BY <1>2 DEF GetOrder
  <2>2. order' = order
    BY <1>2 DEF GetOrder
  <2>3. QED
    BY <2>1, <2>2, AcceptFresh
<1>3. ASSUME NEW w \in Workers, NextOrderNumber(w)
      PROVE  Fresh'
  <2>1. \A v \in Workers : job'[v].order = job[v].order /\ job'[v].row = job[v].row
    BY <1>3 DEF NextOrderNumber, TypeOK, Job
  <2>2. \A v \in Workers : Holding(v)' => Holding(v)
    BY <1>3 DEF NextOrderNumber, TypeOK, Holding
  <2>3. QED
    BY <1>3, <2>1, <2>2, SameFresh DEF NextOrderNumber
<1>4. ASSUME NEW w \in Workers, CommitCreate(w)
      PROVE  Fresh'
  <2> DEFINE o == job[w].order
  <2>1. /\ o \in Orders /\ order[o].status = "absent"
        /\ \A v \in Workers : Holding(v) => job[v].order \in Orders \ {o}
    BY <1>4, JobFields DEF CommitCreate, NumberInv, CreatorsExclude, Creating
  <2>2. \A p \in Orders \ {o} : order'[p] = order[p]
    BY <1>4 DEF CommitCreate, TypeOK
  <2>3. job' = job /\ stale' = stale
    BY <1>4 DEF CommitCreate
  <2>4. \A v \in Workers : Holding(v)' => Holding(v)
    BY <1>4 DEF CommitCreate, TypeOK, Holding
  <2>5. QED
    BY <2>1, <2>2, <2>3, <2>4 DEF Fresh
<1>5. ASSUME NEW w \in Workers,
             GetOrderItems(w) \/ SelectOrderItems(w) \/ DeleteOrderItems(w)
      PROVE  Fresh'
  <2>1. PICK lines : job' = [job EXCEPT ![w].items = lines]
    BY <1>5 DEF GetOrderItems, SelectOrderItems, DeleteOrderItems
  <2>2. \A v \in Workers : job'[v].order = job[v].order /\ job'[v].row = job[v].row
    BY <2>1 DEF TypeOK, Job
  <2>3. \A v \in Workers : Holding(v)' => Holding(v)
    BY <1>5 DEF GetOrderItems, SelectOrderItems, DeleteOrderItems, TypeOK, Holding
  <2>4. order' = order /\ stale' = stale
    <3>1. CASE GetOrderItems(w)
      BY <3>1 DEF GetOrderItems
    <3>2. CASE SelectOrderItems(w)
      BY <3>2 DEF SelectOrderItems
    <3>3. CASE DeleteOrderItems(w)
      BY <3>3 DEF DeleteOrderItems
    <3>4. QED
      BY <1>5, <3>1, <3>2, <3>3
  <2>5. QED
    BY <2>2, <2>3, <2>4, SameFresh
<1>6. ASSUME NEW w \in Workers, UpdateOrder(w)
      PROVE  Fresh'
  <2>1. PICK row : order' = [order EXCEPT ![job[w].order] = row]
    BY <1>6, UpdateOrderFacts
  <2>2. /\ \A v \in Workers \ {w} : job'[v] = job[v] /\ pc'[v] = pc[v]
        /\ ~Holding(w)'
    BY <1>6 DEF UpdateOrder, Leave, TypeOK, Holding
  <2>3. stale' = (stale \ {w}) \cup {v \in Workers \ {w} : job[v].order = job[w].order}
    BY <1>6 DEF UpdateOrder, Committed
  <2>4. ASSUME NEW v \in Workers, Holding(v)', v \notin stale'
        PROVE  job'[v].row = order'[job'[v].order]
    <3>1. v # w /\ Holding(v) /\ v \notin stale /\ job'[v] = job[v]
      BY <2>2, <2>3, <2>4 DEF Holding
    <3>2. job[v].order \in Orders /\ job[v].order # job[w].order
      BY <2>3, <2>4, <3>1, JobFields
    <3>3. order'[job[v].order] = order[job[v].order]
      BY <2>1, <3>2 DEF TypeOK
    <3>4. QED
      BY <3>1, <3>3 DEF Fresh
  <2>5. QED
    BY <2>4 DEF Fresh
<1>7. ASSUME NEW w \in Workers, CreateRefund(w)
      PROVE  Fresh'
  <2>1. \A v \in Workers : Holding(v)' => Holding(v)
    BY <1>7 DEF CreateRefund, TypeOK, Holding
  <2>2. QED
    BY <1>7, <2>1, SameFresh DEF CreateRefund
<1>8. ASSUME NEW w \in Workers, Publish(w) \/ Fail(w)
      PROVE  Fresh'
  <2>1. \A v \in Workers : Holding(v)' => Holding(v) /\ job'[v] = job[v]
    BY <1>8 DEF Publish, Fail, Leave, TypeOK, Holding
  <2>2. order' = order /\ stale' = stale
    BY <1>8 DEF Publish, Fail
  <2>3. QED
    BY <2>1, <2>2, SameFresh
<1>9. ASSUME Crash
      PROVE  Fresh'
  <2>1. \A v \in Workers : ~Holding(v)'
    BY <1>9 DEF Crash, Holding
  <2>2. QED
    BY <2>1 DEF Fresh
<1>10. CASE UNCHANGED vars
  BY <1>10, SameFresh DEF Holding
<1>11. QED
  BY <1>1, <1>2, <1>3, <1>4, <1>5, <1>6, <1>7, <1>8, <1>9, <1>10 DEF Next

LEMMA FreshCopies == Spec => []Fresh
<1>1. Init => Fresh
  BY DEF Init, Fresh, Holding
<1>2. TypeOK /\ StampInv /\ NumberInv /\ Fresh /\ [Next]_vars => Fresh'
  BY FreshStep DEF StampInv
<1>3. QED
  BY <1>1, <1>2, TypeCorrect, Stamps, Numbers, PTL DEF Spec

-----------------------------------------------------------------------------
(* The life cycle *)

Status == [o \in Orders |-> order[o].status]

\* An operation accepted in a status follows an edge, or keeps the status.
LEMMA OutcomeIsEdge ==
  ASSUME NEW op \in OnOrder, NEW status \in Allowed(op)
  PROVE  \/ <<status, Outcome(op, status)>> \in Lifecycle!Edges
         \/ Outcome(op, status) = status
BY DEF OnOrder, Transitions, Allowed, Outcome, Lifecycle!Edges

LEMMA SameStatuses == Statuses \subseteq Lifecycle!Statuses
<1>1. ASSUME NEW s \in Statuses
      PROVE  \E e \in Lifecycle!Edges : s = e[1] \/ s = e[2]
  <2>1. /\ <<"absent", "draft">> \in Lifecycle!Edges
        /\ <<"new", "confirmed">> \in Lifecycle!Edges
        /\ <<"paid", "shipped">> \in Lifecycle!Edges
        /\ <<"assembling", "shipped">> \in Lifecycle!Edges
        /\ <<"shipped", "delivered">> \in Lifecycle!Edges
        /\ <<"paid", "cancelled">> \in Lifecycle!Edges
    BY DEF Lifecycle!Edges
  <2>2. QED
    BY <2>1 DEF Statuses
<1>2. QED
  BY <1>1 DEF Lifecycle!Statuses

\* A step that gives one order a row is a step of the life cycle of its status.
LEMMA StatusOf ==
  ASSUME TypeOK, NEW o \in Orders, NEW row, order' = [order EXCEPT ![o] = row]
  PROVE  Status' = [Status EXCEPT ![o] = row.status]
BY DEF Status, TypeOK

\* Every step of the order service is one of the life cycle, or none.
LEMMA LifecycleStep ==
  ASSUME TypeOK, CopiesAreLegitimate, NumberInv, Fresh, [Next]_vars
  PROVE  [Lifecycle!Next]_(Lifecycle!lifecycle)
<1>a. ASSUME order' = order, overwritten' = overwritten
      PROVE  UNCHANGED Lifecycle!lifecycle
  BY <1>a DEF Lifecycle!lifecycle
<1>1. ASSUME NEW w \in Workers, CommitCreate(w)
      PROVE  Lifecycle!Next
  <2> DEFINE o == job[w].order
  <2>1. o \in Orders /\ order[o].status = "absent"
    BY <1>1, JobFields DEF CommitCreate, NumberInv, CreatorsExclude, Creating
  <2>2. PICK row : order' = [order EXCEPT ![o] = row] /\ row.status = "draft"
    <3>1. order' = [order EXCEPT ![o] = [NoOrder EXCEPT !.status = "draft",
                                                        !.total = job[w].value]]
      BY <1>1 DEF CommitCreate
    <3>2. [NoOrder EXCEPT !.status = "draft", !.total = job[w].value].status = "draft"
      BY DEF NoOrder
    <3>3. QED
      BY <3>1, <3>2
  <2> HIDE DEF o
  <2>3. Status' = [Status EXCEPT ![o] = "draft"] /\ Status[o] = "absent"
    BY <2>1, <2>2, StatusOf DEF Status
  <2>4. <<"absent", "draft">> \in Lifecycle!Edges /\ "draft" \in Lifecycle!Statuses
    BY SameStatuses DEF Lifecycle!Edges, Statuses
  <2>5. overwritten' = overwritten
    BY <1>1 DEF CommitCreate
  <2>6. Lifecycle!Advance(o, "draft")
    BY <2>3, <2>4, <2>5 DEF Lifecycle!Advance, Status
  <2>7. QED
    BY <2>1, <2>4, <2>6 DEF Lifecycle!Next
<1>2. ASSUME NEW w \in Workers, UpdateOrder(w)
      PROVE  Lifecycle!Next \/ UNCHANGED Lifecycle!lifecycle
  <2> DEFINE o == job[w].order
             was == job[w].row.status
  <2>1. Holding(w) /\ o \in Orders
    BY <1>2, UpdateOrderFacts
  <2>2. PICK row \in Row : /\ order' = [order EXCEPT ![o] = row]
                           /\ row.status # "absent"
                           /\ row.status = Outcome(job[w].op, was)
    BY <1>2, UpdateOrderFacts
  <2>3. /\ job[w].op \in OnOrder /\ was \in Allowed(job[w].op)
        /\ order[o].status # "absent"
        /\ w \notin stale => was = order[o].status
    BY <2>1 DEF CopiesAreLegitimate, NumberInv, CreatorsExclude, Fresh
  <2>4. overwritten' = IF w \in stale THEN overwritten \cup {o} ELSE overwritten
    BY <1>2 DEF UpdateOrder, Committed
  <2>5. row.status \in Lifecycle!Statuses \ {"absent"}
    BY <2>2, SameStatuses DEF Row
  <2> HIDE DEF o
  <2>6. Status' = [Status EXCEPT ![o] = row.status] /\ Status[o] = order[o].status
    BY <2>1, <2>2, StatusOf DEF Status
  <2>7. CASE w \in stale
    <3>1. Lifecycle!Overwrite(o, row.status)
      BY <2>3, <2>4, <2>6, <2>7 DEF Lifecycle!Overwrite, Status
    <3>2. QED
      BY <2>1, <2>5, <3>1 DEF Lifecycle!Next
  <2>8. CASE w \notin stale
    <3>1. CASE <<Status[o], row.status>> \in Lifecycle!Edges
      <4>1. Lifecycle!Advance(o, row.status)
        BY <2>4, <2>6, <2>8, <3>1 DEF Lifecycle!Advance, Status
      <4>2. QED
        BY <2>1, <2>5, <4>1 DEF Lifecycle!Next
    <3>2. CASE row.status = Status[o]
      <4>1. Status' = Status
        BY <2>1, <2>6, <3>2 DEF Status
      <4>2. QED
        BY <2>4, <2>8, <4>1 DEF Lifecycle!lifecycle, Status
    <3>3. QED
      BY <2>2, <2>3, <2>6, <2>8, <3>1, <3>2, OutcomeIsEdge
  <2>9. QED
    BY <2>7, <2>8
<1>3. ASSUME ~\E w \in Workers : CommitCreate(w) \/ UpdateOrder(w)
      PROVE  UNCHANGED Lifecycle!lifecycle
  <2>1. order' = order /\ overwritten' = overwritten
    <3>1. ASSUME NEW w \in Workers, NEW op, NEW o, NEW value,
                 CreateEntity(w, o, value) \/ GetOrder(w, op, o, value)
          PROVE  order' = order /\ overwritten' = overwritten
      BY <3>1 DEF CreateEntity, GetOrder
    <3>2. ASSUME NEW w \in Workers, NextOrderNumber(w) \/ GetOrderItems(w)
                                      \/ SelectOrderItems(w)
          PROVE  order' = order /\ overwritten' = overwritten
      BY <3>2 DEF NextOrderNumber, GetOrderItems, SelectOrderItems
    <3>3. ASSUME NEW w \in Workers, DeleteOrderItems(w) \/ CreateRefund(w)
          PROVE  order' = order /\ overwritten' = overwritten
      BY <3>3 DEF DeleteOrderItems, CreateRefund
    <3>4. ASSUME NEW w \in Workers, Publish(w) \/ Fail(w)
          PROVE  order' = order /\ overwritten' = overwritten
      BY <3>4 DEF Publish, Fail
    <3>5. CASE Crash \/ UNCHANGED vars
      BY <3>5 DEF Crash
    <3>6. QED
      BY <1>3, <3>1, <3>2, <3>3, <3>4, <3>5 DEF Next
  <2>2. QED
    BY <1>a, <2>1
<1>4. QED
  BY <1>1, <1>2, <1>3

(* However many handlers overlap on it, an order moves along one edge of its *)
(* life cycle per operation, unless a handler committed a copy that another  *)
(* had made stale: the status is checked in memory, by Submit to Refund, and *)
(* UPDATE orders does not ask for it.                                        *)
THEOREM LifecycleImplemented == Spec => ImplementsLifecycle
<1>1. Init => Lifecycle!Init
  BY DEF Init, Lifecycle!Init, NoOrder
<1>2. TypeOK /\ StampInv /\ NumberInv /\ Fresh /\ [Next]_vars
        => [Lifecycle!Next]_(Lifecycle!lifecycle)
  BY LifecycleStep DEF StampInv
<1>3. QED
  BY <1>1, <1>2, TypeCorrect, Stamps, Numbers, FreshCopies, PTL
  DEF Spec, ImplementsLifecycle, Lifecycle!Spec


-----------------------------------------------------------------------------
(* Totals and items *)

\* The handler has read the items it is about to replace.
Replacing(w) == pc[w] = "deleting" \/ (pc[w] = "ready" /\ job[w].op = "update")

\* It has read them all, unless the order was committed since.
ItemsFresh ==
    \A w \in Workers :
      Replacing(w) /\ w \notin stale => job[w].items = items[job[w].order]

ItemsInv == ItemsFresh /\ TotalMatchesItems

\* No order and no items change, and no handler reads items to replace.
LEMMA SameItems ==
  ASSUME ItemsInv, order' = order, items' = items, overwritten' = overwritten,
         \A v \in Workers : Replacing(v)' /\ v \notin stale' =>
           /\ Replacing(v) /\ v \notin stale
           /\ job'[v].items = job[v].items /\ job'[v].order = job[v].order
  PROVE  ItemsInv'
BY DEF ItemsInv, ItemsFresh, TotalMatchesItems, Existing

\* Only Update sets the total.
LEMMA AfterTotal ==
  ASSUME NEW op \in OnOrder, NEW row \in Row, NEW value \in Int
  PROVE  After(op, row, value).total = IF op = "update" THEN value ELSE row.total
<1>1. CASE op \in Transitions
  BY <1>1 DEF After, Row, Transitions
<1>2. CASE op \in {"update", "annotate", "refund"}
  BY <1>2 DEF After, Row
<1>3. QED
  BY <1>1, <1>2 DEF OnOrder

\* The commit of an order by a handler that is not stale keeps total and items
\* together; of a stale one it is marked.
LEMMA UpdateItems ==
  ASSUME TypeOK, CopiesAreLegitimate, NumberInv, Fresh, ItemsInv,
         NEW w \in Workers, UpdateOrder(w)
  PROVE  ItemsInv'
<1> DEFINE o == job[w].order
           op == job[w].op
           value == job[w].value
           line == [id |-> job[w].id, value |-> value]
           row == After(op, job[w].row, value)
<1>1. /\ Holding(w) /\ o \in Orders /\ order[o].status # "absent"
      /\ op \in OnOrder /\ job[w].row \in Row /\ value \in Int
  BY UpdateOrderFacts, JobFields DEF CopiesAreLegitimate, NumberInv, CreatorsExclude
<1>2. /\ order' = [order EXCEPT ![o] = row]
      /\ items' = IF op = "update"
                  THEN [items EXCEPT ![o] = (@ \ job[w].items) \cup {line}]
                  ELSE items
  BY DEF UpdateOrder
<1>3. /\ pc[w] = "ready"
      /\ overwritten' = IF w \in stale THEN overwritten \cup {o} ELSE overwritten
      /\ stale' = (stale \ {w}) \cup {v \in Workers \ {w} : job[v].order = o}
  BY DEF UpdateOrder, Committed
<1>4. /\ \A v \in Workers \ {w} : job'[v] = job[v] /\ pc'[v] = pc[v]
      /\ ~Replacing(w)'
  BY <1>3 DEF UpdateOrder, Leave, TypeOK, Replacing
<1>5. row.total = IF op = "update" THEN value ELSE job[w].row.total
  BY <1>1, AfterTotal
<1> HIDE DEF o, op, value, row
<1>6. \A p \in Orders \ {o} : order'[p] = order[p] /\ items'[p] = items[p]
  BY <1>1, <1>2 DEF TypeOK
<1>7. order'[o] = row
  BY <1>1, <1>2 DEF TypeOK
<1>8. ItemsFresh'
  <2> SUFFICES ASSUME NEW v \in Workers, Replacing(v)', v \notin stale'
               PROVE  job'[v].items = items'[job'[v].order]
    BY DEF ItemsFresh
  <2>1. v # w /\ Replacing(v) /\ v \notin stale /\ job'[v] = job[v]
    BY <1>3, <1>4 DEF Replacing
  <2>2. job[v].order \in Orders /\ job[v].order # o
    BY <1>3, <2>1, JobFields
  <2>3. QED
    BY <1>6, <2>1, <2>2 DEF ItemsInv, ItemsFresh
<1>9. TotalMatchesItems'
  <2> SUFFICES ASSUME NEW p \in Orders, order'[p].status # "absent",
                      p \notin overwritten'
               PROVE  \E l \in items'[p] :
                        items'[p] = {l} /\ order'[p].total = l.value
    BY DEF TotalMatchesItems, Existing
  <2>1. CASE p # o
    BY <1>3, <1>6, <2>1 DEF ItemsInv, TotalMatchesItems, Existing
  <2>2. CASE p = o
    <3>1. w \notin stale /\ o \notin overwritten
      BY <1>3, <2>2
    <3>2. CASE op = "update"
      <4>1. job[w].items = items[o]
        BY <1>3, <3>1, <3>2 DEF ItemsInv, ItemsFresh, Replacing, o, op
      <4>2. items'[o] = {line}
        BY <1>1, <1>2, <3>2, <4>1 DEF TypeOK
      <4>3. order'[o].total = line.value
        BY <1>5, <1>7, <3>2
      <4>4. QED
        BY <2>2, <4>2, <4>3
    <3>3. CASE op # "update"
      <4>1. job[w].row = order[o]
        BY <1>1, <3>1 DEF Fresh, o
      <4>2. order'[o].total = order[o].total /\ items' = items
        BY <1>2, <1>5, <1>7, <3>3, <4>1
      <4>3. o \in Existing \ overwritten
        BY <1>1, <3>1 DEF Existing
      <4>4. QED
        BY <2>2, <4>2, <4>3 DEF ItemsInv, TotalMatchesItems
    <3>4. QED
      BY <3>2, <3>3
  <2>3. QED
    BY <2>1, <2>2
<1>10. QED
  BY <1>8, <1>9 DEF ItemsInv

LEMMA ItemsStep ==
  ASSUME TypeOK, CopiesAreLegitimate, NumberInv, Fresh, ItemsInv, [Next]_vars
  PROVE  ItemsInv'
<1>1. ASSUME NEW w \in Workers, NEW op, NEW o, NEW value, NEW row, NEW at,
             Accept(w, op, o, value, row, at),
             at # "deleting", ~(at = "ready" /\ op = "update"),
             order' = order, items' = items, overwritten' = overwritten
      PROVE  ItemsInv'
  <2>1. /\ job'[w].op = op /\ pc'[w] = at
        /\ \A v \in Workers \ {w} : job'[v] = job[v] /\ pc'[v] = pc[v]
        /\ stale' = stale \ {w}
    BY <1>1 DEF Accept, TypeOK
  <2>2. ~Replacing(w)'
    BY <1>1, <2>1 DEF Replacing
  <2>3. \A v \in Workers \ {w} : Replacing(v)' => Replacing(v)
    BY <2>1 DEF Replacing
  <2>4. QED
    BY <1>1, <2>1, <2>2, <2>3, SameItems
<1>2. ASSUME NEW w \in Workers, NEW o, NEW value, CreateEntity(w, o, value)
      PROVE  ItemsInv'
  BY <1>1, <1>2 DEF CreateEntity
<1>3. ASSUME NEW w \in Workers, NEW op, NEW o, NEW value, GetOrder(w, op, o, value)
      PROVE  ItemsInv'
  <2> DEFINE at == IF op \in ItemReaders THEN "reading"
                   ELSE IF op = "update" THEN "replacing" ELSE "ready"
  <2>1. Accept(w, op, o, value, order[o], at)
    BY <1>3 DEF GetOrder
  <2>2. at # "deleting" /\ ~(at = "ready" /\ op = "update")
    BY DEF ItemReaders
  <2>3. order' = order /\ items' = items /\ overwritten' = overwritten
    BY <1>3 DEF GetOrder
  <2>4. QED
    BY <1>1, <2>1, <2>2, <2>3
<1>4. ASSUME NEW w \in Workers, NextOrderNumber(w)
      PROVE  ItemsInv'
  <2>1. \A v \in Workers : /\ job'[v].items = job[v].items
                           /\ job'[v].order = job[v].order
                           /\ job'[v].op = job[v].op
                           /\ Replacing(v)' => Replacing(v)
    BY <1>4 DEF NextOrderNumber, TypeOK, Job, Replacing
  <2>2. QED
    BY <1>4, <2>1, SameItems DEF NextOrderNumber
<1>5. ASSUME NEW w \in Workers, CommitCreate(w)
      PROVE  ItemsInv'
  <2> DEFINE o == job[w].order
             line == [id |-> job[w].id, value |-> job[w].value]
  <2>1. /\ o \in Orders /\ order[o].status = "absent"
        /\ \A v \in Workers : Holding(v) => job[v].order \in Orders \ {o}
    BY <1>5, JobFields DEF CommitCreate, NumberInv, CreatorsExclude, Creating
  <2>2. /\ \A p \in Orders \ {o} : order'[p] = order[p] /\ items'[p] = items[p]
        /\ items'[o] = {line} /\ order'[o].total = line.value
    BY <1>5, <2>1 DEF CommitCreate, TypeOK, NoOrder
  <2>3. job' = job /\ stale' = stale /\ overwritten' = overwritten
    BY <1>5 DEF CommitCreate
  <2>4. \A v \in Workers : Replacing(v)' => Replacing(v) /\ Holding(v)
    BY <1>5 DEF CommitCreate, TypeOK, Replacing, Holding
  <2> HIDE DEF o, line
  <2>5. ItemsFresh'
    BY <2>1, <2>2, <2>3, <2>4 DEF ItemsInv, ItemsFresh
  <2>6. TotalMatchesItems'
    <3> SUFFICES ASSUME NEW p \in Orders, order'[p].status # "absent",
                        p \notin overwritten'
                 PROVE  \E l \in items'[p] :
                          items'[p] = {l} /\ order'[p].total = l.value
      BY DEF TotalMatchesItems, Existing
    <3>1. CASE p = o
      BY <2>2, <3>1
    <3>2. CASE p # o
      BY <2>2, <2>3, <3>2 DEF ItemsInv, TotalMatchesItems, Existing
    <3>3. QED
      BY <3>1, <3>2
  <2>7. QED
    BY <2>5, <2>6 DEF ItemsInv
<1>6. ASSUME NEW w \in Workers,
             GetOrderItems(w) \/ SelectOrderItems(w) \/ DeleteOrderItems(w)
      PROVE  ItemsInv'
  <2>1. /\ order' = order /\ items' = items /\ stale' = stale
        /\ overwritten' = overwritten
    BY <1>6 DEF GetOrderItems, SelectOrderItems, DeleteOrderItems
  <2>2. PICK lines :
          /\ job' = [job EXCEPT ![w].items = lines]
          /\ \/ lines = items[job[w].order]
             \/ pc[w] = "deleting" /\ lines = job[w].items \cap items[job[w].order]
    BY <1>6 DEF GetOrderItems, SelectOrderItems, DeleteOrderItems
  <2>3. /\ \A v \in Workers \ {w} : job'[v] = job[v] /\ pc'[v] = pc[v]
        /\ job'[w].items = lines /\ job'[w].order = job[w].order
    <3>1. \A v \in Workers \ {w} : pc'[v] = pc[v]
      BY <1>6 DEF GetOrderItems, SelectOrderItems, DeleteOrderItems, TypeOK
    <3>2. QED
      BY <2>2, <3>1 DEF TypeOK, Job
  <2>4. w \notin stale => lines = items[job[w].order]
    <3>1. pc[w] = "deleting" /\ w \notin stale => job[w].items = items[job[w].order]
      BY DEF ItemsInv, ItemsFresh, Replacing
    <3>2. QED
      BY <2>2, <3>1
  <2>5. ItemsFresh'
    BY <2>1, <2>3, <2>4 DEF ItemsInv, ItemsFresh, Replacing
  <2>6. TotalMatchesItems'
    BY <2>1 DEF ItemsInv, TotalMatchesItems, Existing
  <2>7. QED
    BY <2>5, <2>6 DEF ItemsInv
<1>7. ASSUME NEW w \in Workers, CreateRefund(w)
      PROVE  ItemsInv'
  <2>1. \A v \in Workers : Replacing(v)' => Replacing(v)
    BY <1>7 DEF CreateRefund, TypeOK, Replacing
  <2>2. QED
    BY <1>7, <2>1, SameItems DEF CreateRefund
<1>8. ASSUME NEW w \in Workers, Publish(w) \/ Fail(w)
      PROVE  ItemsInv'
  <2>1. \A v \in Workers : Replacing(v)' => Replacing(v) /\ job'[v] = job[v]
    BY <1>8 DEF Publish, Fail, Leave, TypeOK, Replacing
  <2>2. /\ order' = order /\ items' = items /\ stale' = stale
        /\ overwritten' = overwritten
    BY <1>8 DEF Publish, Fail
  <2>3. QED
    BY <2>1, <2>2, SameItems
<1>9. ASSUME Crash
      PROVE  ItemsInv'
  <2>1. \A v \in Workers : ~Replacing(v)'
    BY <1>9 DEF Crash, Replacing
  <2>2. QED
    BY <1>9, <2>1, SameItems DEF Crash
<1>10. CASE UNCHANGED vars
  BY <1>10, SameItems DEF Replacing
<1>11. QED
  BY <1>2, <1>3, <1>4, <1>5, <1>6, <1>7, <1>8, <1>9, <1>10, UpdateItems DEF Next

(* Create and Update write a total and the items it is computed from in one  *)
(* transaction, and an Update that nobody overtook deletes all the items the *)
(* order had: so total and items agree, for any number of handlers, until a  *)
(* handler commits a copy that another had made stale.                       *)
THEOREM TotalsMatch == Spec => []TotalMatchesItems
<1>1. Init => ItemsInv
  BY DEF Init, ItemsInv, ItemsFresh, TotalMatchesItems, Existing, Replacing, NoOrder
<1>2. TypeOK /\ StampInv /\ NumberInv /\ Fresh /\ ItemsInv /\ [Next]_vars => ItemsInv'
  BY ItemsStep DEF StampInv
<1>3. ItemsInv => TotalMatchesItems
  BY DEF ItemsInv
<1>4. QED
  BY <1>1, <1>2, <1>3, TypeCorrect, Stamps, Numbers, FreshCopies, PTL DEF Spec

=============================================================================
