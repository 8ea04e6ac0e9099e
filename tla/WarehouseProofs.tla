--------------------------- MODULE WarehouseProofs ---------------------------
(***************************************************************************)
(* Theorems about the stock operations of module Warehouse, for any number *)
(* of handlers, products, warehouses and requests: their invariants, and   *)
(* that they implement StockBook.                                          *)
(***************************************************************************)
EXTENDS Warehouse, TLAPS

USE DEF vars, database, alerts, history

-----------------------------------------------------------------------------
(* What the building blocks of the actions keep. *)

\* The placeholder request of an idle handler is a request.
LEMMA IdleIsRequest == Idle \in Request
<1>1. AnyKey \in Key
  BY WarehouseAssumption DEF AnyKey
<1>2. QED
  BY <1>1 DEF Idle, Request

\* Reading a row, or failing to, yields a row.
LEMMA GetOrCreateType ==
  ASSUME stock \in [Key -> Row], NEW k \in Key, NEW seen \in GetOrCreate(k)
  PROVE  seen.row \in Row /\ seen.unread \in BOOLEAN
<1>1. stock[k] \in Row /\ EmptyRow \in Row
  BY DEF Row, EmptyRow
<1>2. \/ seen = [row |-> stock[k], unread |-> FALSE]
      \/ seen = [row |-> EmptyRow, unread |-> TRUE]
  BY DEF GetOrCreate
<1>3. seen.row \in {stock[k], EmptyRow}
  BY <1>2
<1>4. seen.unread = FALSE \/ seen.unread = TRUE
  BY <1>2
<1>5. QED
  BY <1>1, <1>3, <1>4

\* Each computation on a row yields a row.
LEMMA RowTypes ==
  ASSUME NEW row \in Row, NEW n \in Int
  PROVE  /\ Add(row, n) \in Row
         /\ Shipped(row, n) \in Row
         /\ Released(row, n) \in Row
         /\ [row EXCEPT !.quantity = n] \in Row
         /\ [row EXCEPT !.reserved = @ + n] \in Row
<1>1. row.quantity \in Int /\ row.reserved \in Int /\ row.min \in Nat
  BY DEF Row
<1>2. \A q, r \in Int : [row EXCEPT !.quantity = q, !.reserved = r] \in Row
  BY DEF Row
<1>3. Add(row, n) \in Row /\ [row EXCEPT !.quantity = n] \in Row
  BY <1>1 DEF Add, Row
<1>4. Shipped(row, n) \in Row
  <2>1. row.quantity - n \in Int
        /\ (IF row.reserved >= n THEN row.reserved - n ELSE row.reserved) \in Int
    BY <1>1
  <2> QED
    BY <1>2, <2>1 DEF Shipped
<1>5. Released(row, n) \in Row /\ [row EXCEPT !.reserved = @ + n] \in Row
  BY <1>1 DEF Released, Row
<1>6. QED
  BY <1>3, <1>4, <1>5

\* The seeded rows are proper rows.
LEMMA OpeningRowFacts ==
  ASSUME NEW row \in OpeningRows \cup {EmptyRow}
  PROVE  /\ row \in Row
         /\ row.quantity \in Nat /\ row.reserved \in Nat
         /\ row.reserved <= row.quantity
<1>1. \A k \in Key : MinQuantity[k] \in Nat
  BY WarehouseAssumption
<1>2. OpeningStock \in Nat
  BY WarehouseAssumption
<1>3. CASE row = EmptyRow
  BY <1>3 DEF EmptyRow, Row
<1>4. CASE row \in OpeningRows
  BY <1>1, <1>2, <1>4 DEF OpeningRows, Row
<1>5. QED
  BY <1>3, <1>4

\* The step that reads a row keeps the types when it computes a proper row.
LEMMA PrepareType ==
  ASSUME TypeOK, NEW w \in Workers, NEW k \in Key, NEW row \in Row,
         NEW diff \in Int, NEW unread \in BOOLEAN, Prepare(w, k, row, diff, unread),
         request' \in [Workers -> Request], issued' \in Nat
  PROVE  TypeOK'
BY DEF Prepare, TypeOK, Steps

\* Admitting a request keeps the types of what it sets.
LEMMA BeginType ==
  ASSUME TypeOK, NEW w \in Workers, NEW op \in Operations, NEW k \in Key,
         NEW d \in Key, NEW n \in Nat, Begin(w, op, k, d, n)
  PROVE  request' \in [Workers -> Request] /\ issued' \in Nat
BY DEF Begin, TypeOK, Request

\* Letting go of drafts and locks keeps the types.
LEMMA LeaveType ==
  ASSUME TypeOK, NEW w \in Workers, Leave(w),
         alerted' \in SUBSET Key, overlooked' \in SUBSET Key
  PROVE  TypeOK'
<1>1. AnyKey \in Key
  BY WarehouseAssumption DEF AnyKey
<1>2. NoDraft \in [Key -> Row] /\ NoDelta \in [Key -> Int]
  BY DEF NoDraft, NoDelta, EmptyRow, Row
<1>3. QED
  BY <1>1, <1>2, IdleIsRequest DEF Leave, TypeOK, Steps

-----------------------------------------------------------------------------
(* Every reachable state is well typed (the code's integer and row values). *)
THEOREM TypeCorrect == Spec => []TypeOK
<1>1. Init => TypeOK
  <2> SUFFICES ASSUME Init PROVE TypeOK
    OBVIOUS
  <2>1. AnyKey \in Key
    BY WarehouseAssumption DEF AnyKey
  <2>2. stock \in [Key -> Row]
    BY OpeningRowFacts DEF Init
  <2>3. ledger \in [Key -> Int]
    BY <2>2 DEF Init, Row
  <2>4. NoDraft \in [Key -> Row] /\ NoDelta \in [Key -> Int]
    BY DEF NoDraft, NoDelta, EmptyRow, Row
  <2>5. present \in SUBSET Key
    BY DEF Init
  <2> QED
    BY <2>1, <2>2, <2>3, <2>4, <2>5, IdleIsRequest DEF Init, TypeOK, Steps
<1>2. TypeOK /\ [Next]_vars => TypeOK'
  <2> SUFFICES ASSUME TypeOK, [Next]_vars PROVE TypeOK'
    OBVIOUS
  <2>a. Amounts \subseteq Nat /\ Amounts \cup {0} \subseteq Nat
    BY WarehouseAssumption
  <2>1. ASSUME NEW w \in Workers, NEW k \in Key, NEW n \in Amounts,
               Receive(w, k, n)
        PROVE  TypeOK'
    <3>1. request' \in [Workers -> Request] /\ issued' \in Nat
      BY <2>1, <2>a, BeginType DEF Receive, Operations
    <3>2. PICK seen \in GetOrCreate(k) :
            Prepare(w, k, Add(seen.row, n), n, seen.unread)
      BY <2>1 DEF Receive
    <3>3. seen.row \in Row /\ seen.unread \in BOOLEAN
      BY GetOrCreateType DEF TypeOK
    <3>4. n \in Int
      BY <2>a
    <3>5. Add(seen.row, n) \in Row
      BY <3>3, <3>4, RowTypes
    <3> QED
      BY <3>1, <3>2, <3>3, <3>4, <3>5, PrepareType
  <2>2. ASSUME NEW w \in Workers, NEW k \in Key, NEW n \in Amounts,
               Ship(w, k, n)
        PROVE  TypeOK'
    <3>1. request' \in [Workers -> Request] /\ issued' \in Nat
      BY <2>2, <2>a, BeginType DEF Ship, Operations
    <3>2. stock[k] \in Row /\ n \in Int /\ -n \in Int
      BY <2>a DEF TypeOK
    <3> QED
      BY <2>2, <3>1, <3>2, RowTypes, PrepareType DEF Ship
  <2>3. ASSUME NEW w \in Workers, NEW k \in Key, NEW d \in Key,
               NEW n \in Amounts, Transfer(w, k, d, n)
        PROVE  TypeOK'
    <3>1. request' \in [Workers -> Request] /\ issued' \in Nat
      BY <2>3, <2>a, BeginType DEF Transfer, Operations
    <3>2. stock[k] \in Row /\ -n \in Int
      BY <2>a DEF TypeOK
    <3> QED
      BY <2>3, <3>1, <3>2, RowTypes, PrepareType DEF Transfer
  <2>4. ASSUME NEW w \in Workers, TransferDestination(w)
        PROVE  TypeOK'
    <3> DEFINE d == request[w].dest
               n == request[w].amount
    <3>1. d \in Key /\ n \in Nat
      BY DEF TypeOK, Request
    <3>2. PICK seen \in GetOrCreate(d) :
            Prepare(w, d, Add(seen.row, n), n, seen.unread)
      BY <2>4 DEF TransferDestination
    <3>3. seen.row \in Row /\ seen.unread \in BOOLEAN
      BY <3>1, GetOrCreateType DEF TypeOK
    <3>4. request' \in [Workers -> Request] /\ issued' \in Nat
      BY <2>4 DEF TransferDestination, TypeOK
    <3> HIDE DEF d, n
    <3>5. n \in Int
      BY <3>1
    <3>6. Add(seen.row, n) \in Row
      BY <3>3, <3>5, RowTypes
    <3> QED
      BY <3>1, <3>2, <3>3, <3>4, <3>5, <3>6, PrepareType
  <2>5. ASSUME NEW w \in Workers, NEW k \in Key, NEW n \in Amounts \cup {0},
               Adjust(w, k, n)
        PROVE  TypeOK'
    <3>1. request' \in [Workers -> Request] /\ issued' \in Nat
      BY <2>5, <2>a, BeginType DEF Adjust, Operations
    <3>2. PICK seen \in GetOrCreate(k) :
            Prepare(w, k, [seen.row EXCEPT !.quantity = n],
                    n - seen.row.quantity, seen.unread)
      BY <2>5 DEF Adjust
    <3>3. seen.row \in Row /\ seen.unread \in BOOLEAN
      BY GetOrCreateType DEF TypeOK
    <3>4. n \in Int /\ seen.row.quantity \in Int
      BY <3>3, <2>a DEF Row
    <3>5. [seen.row EXCEPT !.quantity = n] \in Row
      BY <3>3, <3>4, RowTypes
    <3>6. n - seen.row.quantity \in Int
      BY <3>4
    <3> QED
      BY <3>1, <3>2, <3>3, <3>5, <3>6, PrepareType
  <2>6. ASSUME NEW w \in Workers, NEW k \in Key, NEW n \in Amounts,
               Reserve(w, k, n)
        PROVE  TypeOK'
    <3>1. request' \in [Workers -> Request] /\ issued' \in Nat
      BY <2>6, <2>a, BeginType DEF Reserve, Operations
    <3>2. stock[k] \in Row /\ n \in Int
      BY <2>a DEF TypeOK
    <3>3. [stock[k] EXCEPT !.reserved = @ + n] \in Row
      BY <3>2, RowTypes
    <3>4. Prepare(w, k, [stock[k] EXCEPT !.reserved = @ + n], 0, FALSE)
      BY <2>6 DEF Reserve
    <3>5. 0 \in Int
      OBVIOUS
    <3> QED
      BY <3>1, <3>3, <3>4, <3>5, PrepareType
  <2>7. ASSUME NEW w \in Workers, NEW k \in Key, NEW n \in Amounts,
               Unreserve(w, k, n)
        PROVE  TypeOK'
    <3>1. request' \in [Workers -> Request] /\ issued' \in Nat
      BY <2>7, <2>a, BeginType DEF Unreserve, Operations
    <3>2. stock[k] \in Row /\ n \in Int /\ 0 \in Int
      BY <2>a DEF TypeOK
    <3> QED
      BY <2>7, <3>1, <3>2, RowTypes, PrepareType DEF Unreserve
  <2>8. ASSUME NEW w \in Workers, UpsertStockLevel(w)
        PROVE  TypeOK'
    BY <2>8 DEF UpsertStockLevel, TypeOK, Steps
  <2>9. ASSUME NEW w \in Workers, PublishInTx(w) \/ Publish(w)
        PROVE  TypeOK'
    BY <2>9 DEF PublishInTx, Publish, TypeOK
  <2>10. ASSUME NEW w \in Workers, Commit(w)
         PROVE  TypeOK'
    <3>1. stock' \in [Key -> Row] /\ ledger' \in [Key -> Int]
      BY <2>10 DEF Commit, TypeOK
    <3>2. stale' \in [Workers -> SUBSET Key]
      BY <2>10 DEF Commit, TypeOK
    <3>3. lock' \in [Key -> Workers \cup {NoWorker}]
          /\ pc' \in [Workers -> Steps]
      BY <2>10 DEF Commit, TypeOK, Steps
    <3>4. present' \in SUBSET Key /\ blind' \in SUBSET Key
          /\ tainted' \in SUBSET Key /\ overcounted' \in SUBSET Key
      BY <2>10 DEF Commit, TypeOK
    <3> QED
      BY <2>10, <3>1, <3>2, <3>3, <3>4 DEF Commit, TypeOK
  <2>11. ASSUME NEW w \in Workers, CheckLowStock(w) \/ LowStockUnread(w)
         PROVE  TypeOK'
    <3>1. request[w].key \in Key
      BY DEF TypeOK, Request
    <3>2. alerted' \in SUBSET Key /\ overlooked' \in SUBSET Key
      BY <2>11, <3>1 DEF CheckLowStock, LowStockUnread, TypeOK
    <3>3. Leave(w)
      BY <2>11 DEF CheckLowStock, LowStockUnread
    <3> QED
      BY <3>2, <3>3, LeaveType
  <2>12. ASSUME NEW w \in Workers, Return(w) \/ Rollback(w)
         PROVE  TypeOK'
    <3>1. alerted' \in SUBSET Key /\ overlooked' \in SUBSET Key /\ Leave(w)
      BY <2>12 DEF Return, Rollback, TypeOK
    <3> QED
      BY <3>1, LeaveType
  <2>13. CASE Crash
    <3>1. AnyKey \in Key
      BY WarehouseAssumption DEF AnyKey
    <3>2. NoDraft \in [Key -> Row] /\ NoDelta \in [Key -> Int]
      BY DEF NoDraft, NoDelta, EmptyRow, Row
    <3>3. \A w \in Workers : request[w].key \in Key
      BY DEF TypeOK, Request
    <3>4. overlooked' \in SUBSET Key
      BY <2>13, <3>3 DEF Crash, TypeOK
    <3> QED
      BY <2>13, <3>1, <3>2, <3>4, IdleIsRequest DEF Crash, TypeOK, Steps
  <2>14. CASE UNCHANGED vars
    BY <2>14 DEF TypeOK
  <2> QED
    BY <2>1, <2>2, <2>3, <2>4, <2>5, <2>6, <2>7, <2>8, <2>9, <2>10, <2>11,
       <2>12, <2>13, <2>14 DEF Next, Accept, Progress
<1>3. QED
  BY <1>1, <1>2, PTL DEF Spec

-----------------------------------------------------------------------------
(* The inductive invariant.  What a handler carries between its read and its *)
(* commit must be right for the committed rows, as long as the row it read   *)
(* is still the committed one.                                               *)

\* The handler is about to upsert the row of k, or has done so.
Holds(w, k) == (pc[w] = "toWrite" /\ target[w] = k) \/ lock[k] = w

OpenLocks == \A k \in Key : lock[k] # NoWorker => InTransaction(lock[k])

DraftsNonNegative ==
    \A w \in Workers, k \in Key :
      draft[w][k].quantity >= 0 /\ draft[w][k].reserved >= 0

DraftsAccounted ==
    \A w \in Workers, k \in Key :
      Holds(w, k) /\ k \notin stale[w] =>
        draft[w][k].quantity = stock[k].quantity + delta[w][k]

DraftsCovered ==
    \A w \in Workers, k \in Key :
      Holds(w, k) =>
        \/ draft[w][k].reserved <= draft[w][k].quantity
        \/ k \in overcounted
        \/ request[w].op = "adjust"

DraftInv == DraftsNonNegative /\ DraftsAccounted /\ DraftsCovered

StockInv ==
    NonNegativeStock /\ LedgerExplainsStock /\ ReservedWithinQuantity

IInv == OpenLocks /\ DraftInv /\ StockInv

-----------------------------------------------------------------------------
(* How the shared steps keep it. *)

\* The rows and the history variables decide StockInv.
LEMMA StockInvStutters ==
  ASSUME StockInv, UNCHANGED <<stock, ledger, tainted, overcounted>>
  PROVE  StockInv'
BY DEF StockInv, NonNegativeStock, LedgerExplainsStock, ReservedWithinQuantity,
       Available

\* Nobody holds the lock of a row and is idle.
LEMMA IdleHoldsNothing ==
  ASSUME OpenLocks, NEW w \in Workers, NEW k \in Key, pc[w] = "idle"
  PROVE  ~Holds(w, k)
<1>1. NoWorker \notin Workers
  BY WarehouseAssumption
<1>2. QED
  BY <1>1 DEF OpenLocks, Holds, InTransaction

\* A handler that computes a proper row for the row it read keeps the invariant.
LEMMA PrepareKeepsInv ==
  ASSUME TypeOK, IInv,
         NEW w \in Workers, NEW k \in Key, NEW row \in Row, NEW diff \in Int,
         NEW unread, Prepare(w, k, row, diff, unread),
         pc[w] = "idle" \/ request' = request,
         \A v \in Workers \ {w} : request'[v] = request[v],
         row.quantity >= 0 /\ row.reserved >= 0,
         unread \/ row.quantity = stock[k].quantity + diff,
         \/ row.reserved <= row.quantity
         \/ k \in overcounted
         \/ request'[w].op = "adjust"
  PROVE  IInv'
<1>1. StockInv'
  BY StockInvStutters DEF IInv, Prepare
<1>2. OpenLocks'
  BY DEF IInv, OpenLocks, InTransaction, Prepare, TypeOK
<1>3. \A v \in Workers, j \in Key :
        draft'[v][j] = IF v = w /\ j = k THEN row ELSE draft[v][j]
  BY DEF Prepare, TypeOK
<1>4. \A v \in Workers, j \in Key :
        delta'[v][j] = IF v = w /\ j = k THEN diff ELSE delta[v][j]
  BY DEF Prepare, TypeOK
<1>5. ASSUME NEW v \in Workers, NEW j \in Key, Holds(v, j)', v # w \/ j # k
      PROVE  Holds(v, j) /\ request'[v] = request[v]
  <2>1. Holds(v, j)
    BY <1>5 DEF Holds, Prepare, TypeOK
  <2>2. pc[v] # "idle"
    BY <2>1, IdleHoldsNothing DEF IInv
  <2>3. QED
    BY <2>1, <2>2
<1>6. ASSUME NEW v \in Workers, NEW j \in Key, v # w \/ j # k
      PROVE  j \in stale'[v] <=> j \in stale[v]
  BY <1>6 DEF Prepare, TypeOK
<1>7. k \notin stale'[w] => ~unread
  BY DEF Prepare, TypeOK
<1>8. DraftsNonNegative'
  BY <1>3 DEF DraftsNonNegative, IInv, DraftInv
<1>9. DraftsAccounted'
  <2> SUFFICES ASSUME NEW v \in Workers, NEW j \in Key,
                      Holds(v, j)', j \notin stale'[v]
               PROVE  draft'[v][j].quantity = stock'[j].quantity + delta'[v][j]
    BY DEF DraftsAccounted
  <2>1. stock' = stock
    BY DEF Prepare
  <2>2. CASE v = w /\ j = k
    BY <2>1, <2>2, <1>3, <1>4, <1>7
  <2>3. CASE v # w \/ j # k
    BY <2>1, <2>3, <1>3, <1>4, <1>5, <1>6 DEF DraftsAccounted, IInv, DraftInv
  <2> QED
    BY <2>2, <2>3
<1>10. DraftsCovered'
  <2> SUFFICES ASSUME NEW v \in Workers, NEW j \in Key, Holds(v, j)'
               PROVE  \/ draft'[v][j].reserved <= draft'[v][j].quantity
                      \/ j \in overcounted'
                      \/ request'[v].op = "adjust"
    BY DEF DraftsCovered
  <2>1. overcounted' = overcounted
    BY DEF Prepare
  <2>2. CASE v = w /\ j = k
    BY <2>1, <2>2, <1>3
  <2>3. CASE v # w \/ j # k
    BY <2>1, <2>3, <1>3, <1>5 DEF DraftsCovered, IInv, DraftInv
  <2> QED
    BY <2>2, <2>3
<1>11. QED
  BY <1>1, <1>2, <1>8, <1>9, <1>10 DEF IInv, DraftInv

\* Admitting a request changes the request of an idle handler only.
LEMMA BeginFacts ==
  ASSUME TypeOK, NEW w \in Workers, NEW op, NEW k, NEW d, NEW n,
         Begin(w, op, k, d, n)
  PROVE  /\ pc[w] = "idle"
         /\ request'[w].op = op
         /\ \A v \in Workers \ {w} : request'[v] = request[v]
BY DEF Begin, TypeOK

\* A handler that lets go of its drafts and locks keeps the invariant.
LEMMA LeaveKeepsInv ==
  ASSUME TypeOK, IInv, NEW w \in Workers, Leave(w)
  PROVE  IInv'
<1>1. NoWorker \notin Workers
  BY WarehouseAssumption
<1>2. StockInv'
  BY StockInvStutters DEF IInv, Leave
<1>3. OpenLocks'
  BY <1>1 DEF IInv, OpenLocks, InTransaction, Leave, TypeOK
<1>4. ASSUME NEW v \in Workers, NEW k \in Key, Holds(v, k)'
      PROVE  v # w /\ Holds(v, k)
  BY <1>1, <1>4 DEF Holds, Leave, TypeOK
<1>5. \A v \in Workers : v # w => /\ draft'[v] = draft[v]
                                  /\ delta'[v] = delta[v]
                                  /\ stale'[v] = stale[v]
                                  /\ request'[v] = request[v]
  BY DEF Leave, TypeOK
<1>6. DraftsNonNegative'
  <2>1. \A k \in Key : draft'[w][k] = EmptyRow
    BY DEF Leave, NoDraft, TypeOK
  <2>2. QED
    BY <1>5, <2>1 DEF DraftsNonNegative, IInv, DraftInv, EmptyRow
<1>7. DraftsAccounted'
  BY <1>4, <1>5 DEF DraftsAccounted, IInv, DraftInv, Leave
<1>8. DraftsCovered'
  BY <1>4, <1>5 DEF DraftsCovered, IInv, DraftInv, Leave
<1>9. QED
  BY <1>2, <1>3, <1>6, <1>7, <1>8 DEF IInv, DraftInv

\* A commit writes drafts that were right, and marks the readers it outdates.
LEMMA CommitKeepsInv ==
  ASSUME TypeOK, IInv, NEW w \in Workers, Commit(w)
  PROVE  IInv'
<1>1. NoWorker \notin Workers
  BY WarehouseAssumption
<1>2. \A k \in Key :
        /\ lock[k] = w => stock'[k] = draft[w][k]
        /\ lock[k] # w => stock'[k] = stock[k]
  BY DEF Commit
<1>3. NonNegativeStock'
  BY <1>2 DEF NonNegativeStock, DraftsNonNegative, IInv, DraftInv, StockInv
<1>4. LedgerExplainsStock'
  <2> SUFFICES ASSUME NEW k \in Key, k \notin tainted'
               PROVE  stock'[k].quantity = ledger'[k]
    BY DEF LedgerExplainsStock
  <2>1. k \notin tainted /\ k \notin stale[w]
    BY DEF Commit
  <2>2. stock[k].quantity = ledger[k]
    BY <2>1 DEF LedgerExplainsStock, IInv, StockInv
  <2>3. CASE lock[k] = w
    <3>1. draft[w][k].quantity = stock[k].quantity + delta[w][k]
      BY <2>1, <2>3 DEF IInv, DraftInv, DraftsAccounted, Holds
    <3>2. ledger'[k] = ledger[k] + delta[w][k]
      BY <2>3 DEF Commit
    <3>3. QED
      BY <1>2, <2>2, <2>3, <3>1, <3>2
  <2>4. CASE lock[k] # w
    BY <1>2, <2>2, <2>4 DEF Commit
  <2>5. QED
    BY <2>3, <2>4
<1>5. ReservedWithinQuantity'
  <2> SUFFICES ASSUME NEW k \in Key, k \notin overcounted'
               PROVE  stock'[k].reserved <= stock'[k].quantity
    BY DEF ReservedWithinQuantity
  <2>1. k \notin overcounted
    BY DEF Commit
  <2>2. CASE lock[k] = w
    <3>1. draft[w][k] \in Row
      BY DEF TypeOK
    <3>2. \/ draft[w][k].reserved <= draft[w][k].quantity
          \/ request[w].op = "adjust"
      BY <2>1, <2>2 DEF IInv, DraftInv, DraftsCovered, Holds
    <3>3. request[w].op = "adjust" => ~(Available(draft[w][k]) < 0)
      BY <2>2 DEF Commit
    <3>4. QED
      BY <1>2, <2>2, <3>1, <3>2, <3>3 DEF Available, Row
  <2>3. CASE lock[k] # w
    BY <1>2, <2>1, <2>3 DEF ReservedWithinQuantity, IInv, StockInv
  <2>4. QED
    BY <2>2, <2>3
<1>6. OpenLocks'
  BY <1>1 DEF IInv, OpenLocks, InTransaction, Commit, TypeOK
<1>7. draft' = draft /\ delta' = delta /\ request' = request
  BY DEF Commit
<1>8. ASSUME NEW v \in Workers, NEW k \in Key, Holds(v, k)'
      PROVE  v # w /\ Holds(v, k)
  BY <1>1, <1>8 DEF Holds, Commit, TypeOK
<1>9. DraftsAccounted'
  <2> SUFFICES ASSUME NEW v \in Workers, NEW k \in Key,
                      Holds(v, k)', k \notin stale'[v]
               PROVE  draft'[v][k].quantity = stock'[k].quantity + delta'[v][k]
    BY DEF DraftsAccounted
  <2>1. v # w /\ Holds(v, k)
    BY <1>8
  <2>2. k \notin stale[v] /\ ~(pc[v] = "toWrite" /\ target[v] = k /\ lock[k] = w)
    BY <2>1 DEF Commit
  <2>3. lock[k] # w
    BY <2>1, <2>2 DEF Holds
  <2>4. QED
    BY <1>2, <1>7, <2>1, <2>2, <2>3 DEF IInv, DraftInv, DraftsAccounted
<1>10. DraftsNonNegative'
  BY <1>7 DEF DraftsNonNegative, IInv, DraftInv
<1>11. DraftsCovered'
  <2>1. overcounted \subseteq overcounted'
    BY DEF Commit
  <2>2. QED
    BY <1>7, <1>8, <2>1 DEF DraftsCovered, IInv, DraftInv
<1>12. QED
  BY <1>3, <1>4, <1>5, <1>6, <1>9, <1>10, <1>11 DEF IInv, DraftInv, StockInv

-----------------------------------------------------------------------------
\* The rows the operations compute from a row are not negative.
LEMMA RowBounds ==
  ASSUME NEW row \in Row, NEW n \in Nat, row.quantity >= 0, row.reserved >= 0
  PROVE  /\ Add(row, n).quantity = row.quantity + n
         /\ Add(row, n).reserved = row.reserved
         /\ Released(row, n).quantity = row.quantity
         /\ Released(row, n).reserved >= 0
         /\ Released(row, n).reserved <= row.reserved
         /\ Available(row) >= n =>
              /\ Shipped(row, n).quantity = row.quantity - n
              /\ Shipped(row, n).quantity >= Shipped(row, n).reserved
              /\ Shipped(row, n).reserved >= 0
              /\ Add(row, -n).quantity = row.quantity - n
              /\ Add(row, -n).quantity >= Add(row, -n).reserved
              /\ Add(row, -n).reserved = row.reserved
BY DEF Add, Released, Available, Shipped, Row

\* What a handler read is a proper row, covered unless the key is overcounted.
LEMMA SeenRow ==
  ASSUME TypeOK, IInv, NEW k \in Key, NEW seen \in GetOrCreate(k)
  PROVE  /\ seen.row \in Row
         /\ seen.row.quantity >= 0 /\ seen.row.reserved >= 0
         /\ seen.unread \/ seen.row = stock[k]
         /\ seen.row.reserved <= seen.row.quantity \/ k \in overcounted
<1>1. stock[k] \in Row
  BY DEF TypeOK
<1>2. stock[k].quantity >= 0 /\ stock[k].reserved >= 0
  BY DEF IInv, StockInv, NonNegativeStock
<1>3. stock[k].reserved <= stock[k].quantity \/ k \in overcounted
  BY DEF IInv, StockInv, ReservedWithinQuantity
<1>4. EmptyRow \in Row /\ EmptyRow.quantity = 0 /\ EmptyRow.reserved = 0
  BY DEF EmptyRow, Row
<1>5. CASE seen = [row |-> stock[k], unread |-> FALSE]
  BY <1>1, <1>2, <1>3, <1>5
<1>6. CASE seen = [row |-> EmptyRow, unread |-> TRUE]
  BY <1>4, <1>6
<1>7. QED
  BY <1>5, <1>6 DEF GetOrCreate

\* IInv is inductive.
LEMMA InvInductive ==
  ASSUME TypeOK, IInv, [Next]_vars
  PROVE  IInv'
<1>a. Amounts \subseteq Nat /\ Amounts \cup {0} \subseteq Nat
  BY WarehouseAssumption
<1>b. ASSUME NEW k \in Key
      PROVE  /\ stock[k] \in Row
             /\ stock[k].quantity >= 0 /\ stock[k].reserved >= 0
             /\ stock[k].reserved <= stock[k].quantity \/ k \in overcounted
  BY DEF TypeOK, IInv, StockInv, NonNegativeStock, ReservedWithinQuantity
<1>1. ASSUME NEW w \in Workers, NEW k \in Key, NEW n \in Amounts,
             Receive(w, k, n)
      PROVE  IInv'
  <2>1. PICK seen \in GetOrCreate(k) :
          Prepare(w, k, Add(seen.row, n), n, seen.unread)
    BY <1>1 DEF Receive
  <2>2. /\ seen.row \in Row
        /\ seen.row.quantity >= 0 /\ seen.row.reserved >= 0
        /\ seen.unread \/ seen.row = stock[k]
        /\ seen.row.reserved <= seen.row.quantity \/ k \in overcounted
    BY SeenRow
  <2>3. n \in Nat /\ n \in Int
    BY <1>a
  <2>4. Add(seen.row, n) \in Row
    BY <2>2, <2>3, RowTypes
  <2>5. /\ Add(seen.row, n).quantity = seen.row.quantity + n
        /\ Add(seen.row, n).reserved = seen.row.reserved
    BY <2>2, <2>3, RowBounds
  <2>6. /\ Add(seen.row, n).quantity >= 0 /\ Add(seen.row, n).reserved >= 0
        /\ \/ Add(seen.row, n).reserved <= Add(seen.row, n).quantity
           \/ k \in overcounted
    BY <2>2, <2>3, <2>5 DEF Row
  <2>7. seen.unread \/ Add(seen.row, n).quantity = stock[k].quantity + n
    BY <2>2, <2>5
  <2>8. pc[w] = "idle" /\ \A v \in Workers \ {w} : request'[v] = request[v]
    BY <1>1, BeginFacts DEF Receive
  <2> QED
    BY <2>1, <2>3, <2>4, <2>6, <2>7, <2>8, PrepareKeepsInv
<1>2. ASSUME NEW w \in Workers, NEW k \in Key, NEW n \in Amounts, Ship(w, k, n)
      PROVE  IInv'
  <2> DEFINE row == Shipped(stock[k], n)
  <2>1. Prepare(w, k, row, -n, FALSE) /\ Available(stock[k]) >= n
    BY <1>2 DEF Ship
  <2>2. n \in Nat /\ n \in Int /\ -n \in Int
    BY <1>a
  <2>3. row \in Row
    BY <1>b, <2>2, RowTypes
  <2>4. /\ row.quantity = stock[k].quantity - n
        /\ row.quantity >= row.reserved /\ row.reserved >= 0
    BY <1>b, <2>1, <2>2, RowBounds
  <2>5. pc[w] = "idle" /\ \A v \in Workers \ {w} : request'[v] = request[v]
    BY <1>2, BeginFacts DEF Ship
  <2>6. stock[k].quantity \in Int
    BY <1>b DEF Row
  <2> HIDE DEF row
  <2>7. row.quantity = stock[k].quantity + (-n) /\ row.quantity >= 0
        /\ row.reserved <= row.quantity
    BY <2>2, <2>3, <2>4, <2>6 DEF Row
  <2> QED
    BY <2>1, <2>2, <2>3, <2>4, <2>5, <2>7, PrepareKeepsInv
<1>3. ASSUME NEW w \in Workers, NEW k \in Key, NEW d \in Key, NEW n \in Amounts,
             Transfer(w, k, d, n)
      PROVE  IInv'
  <2> DEFINE row == Add(stock[k], -n)
  <2>1. Prepare(w, k, row, -n, FALSE) /\ Available(stock[k]) >= n
    BY <1>3 DEF Transfer
  <2>2. n \in Nat /\ -n \in Int
    BY <1>a
  <2>3. row \in Row
    BY <1>b, <2>2, RowTypes
  <2>4. /\ row.quantity = stock[k].quantity - n
        /\ row.quantity >= row.reserved /\ row.reserved >= 0
    BY <1>b, <2>1, <2>2, RowBounds
  <2>5. pc[w] = "idle" /\ \A v \in Workers \ {w} : request'[v] = request[v]
    BY <1>3, BeginFacts DEF Transfer
  <2>6. stock[k].quantity \in Int
    BY <1>b DEF Row
  <2> HIDE DEF row
  <2>7. row.quantity = stock[k].quantity + (-n) /\ row.quantity >= 0
        /\ row.reserved <= row.quantity
    BY <2>2, <2>3, <2>4, <2>6 DEF Row
  <2> QED
    BY <2>1, <2>2, <2>3, <2>4, <2>5, <2>7, PrepareKeepsInv
<1>4. ASSUME NEW w \in Workers, TransferDestination(w)
      PROVE  IInv'
  <2> DEFINE d == request[w].dest
             n == request[w].amount
  <2>1. d \in Key /\ n \in Nat /\ n \in Int
    BY DEF TypeOK, Request
  <2>2. PICK seen \in GetOrCreate(d) :
          Prepare(w, d, Add(seen.row, n), n, seen.unread)
    BY <1>4 DEF TransferDestination
  <2>3. request' = request /\ pc[w] = "midway"
    BY <1>4 DEF TransferDestination
  <2> HIDE DEF d, n
  <2>4. /\ seen.row \in Row
        /\ seen.row.quantity >= 0 /\ seen.row.reserved >= 0
        /\ seen.unread \/ seen.row = stock[d]
        /\ seen.row.reserved <= seen.row.quantity \/ d \in overcounted
    BY <2>1, SeenRow
  <2>5. Add(seen.row, n) \in Row
    BY <2>1, <2>4, RowTypes
  <2>6. /\ Add(seen.row, n).quantity = seen.row.quantity + n
        /\ Add(seen.row, n).reserved = seen.row.reserved
    BY <2>1, <2>4, RowBounds
  <2>7. /\ Add(seen.row, n).quantity >= 0 /\ Add(seen.row, n).reserved >= 0
        /\ \/ Add(seen.row, n).reserved <= Add(seen.row, n).quantity
           \/ d \in overcounted
    BY <2>1, <2>4, <2>6 DEF Row
  <2>8. seen.unread \/ Add(seen.row, n).quantity = stock[d].quantity + n
    BY <2>4, <2>6
  <2> QED
    BY <2>1, <2>2, <2>3, <2>5, <2>7, <2>8, PrepareKeepsInv
<1>5. ASSUME NEW w \in Workers, NEW k \in Key, NEW n \in Amounts \cup {0},
             Adjust(w, k, n)
      PROVE  IInv'
  <2>1. PICK seen \in GetOrCreate(k) :
          Prepare(w, k, [seen.row EXCEPT !.quantity = n],
                  n - seen.row.quantity, seen.unread)
    BY <1>5 DEF Adjust
  <2>2. /\ seen.row \in Row
        /\ seen.row.quantity >= 0 /\ seen.row.reserved >= 0
        /\ seen.unread \/ seen.row = stock[k]
    BY SeenRow
  <2> DEFINE row == [seen.row EXCEPT !.quantity = n]
             diff == n - seen.row.quantity
  <2>3. n \in Nat /\ n \in Int /\ seen.row.quantity \in Int
    BY <1>a, <2>2 DEF Row
  <2>4. row \in Row
    BY <2>2, <2>3, RowTypes
  <2>5. row.quantity = n /\ row.reserved = seen.row.reserved
    BY <2>2 DEF Row
  <2>6. diff \in Int /\ n = seen.row.quantity + diff
    BY <2>3
  <2>7. /\ pc[w] = "idle" /\ request'[w].op = "adjust"
        /\ \A v \in Workers \ {w} : request'[v] = request[v]
    BY <1>5, BeginFacts DEF Adjust
  <2>8. Prepare(w, k, row, diff, seen.unread)
    BY <2>1
  <2> HIDE DEF row, diff
  <2>9. seen.unread \/ row.quantity = stock[k].quantity + diff
    BY <2>2, <2>5, <2>6
  <2>10. row.quantity >= 0 /\ row.reserved >= 0
    BY <2>2, <2>3, <2>5
  <2> QED
    BY <2>4, <2>6, <2>7, <2>8, <2>9, <2>10, PrepareKeepsInv
<1>6. ASSUME NEW w \in Workers, NEW k \in Key, NEW n \in Amounts,
             Reserve(w, k, n)
      PROVE  IInv'
  <2> DEFINE row == [stock[k] EXCEPT !.reserved = @ + n]
  <2>1. Prepare(w, k, row, 0, FALSE) /\ Available(stock[k]) >= n
    BY <1>6 DEF Reserve
  <2>2. n \in Nat /\ n \in Int /\ 0 \in Int
    BY <1>a
  <2>3. row \in Row
    BY <1>b, <2>2, RowTypes
  <2>4. /\ row.quantity = stock[k].quantity
        /\ row.reserved = stock[k].reserved + n
    BY <1>b DEF Row
  <2>5. pc[w] = "idle" /\ \A v \in Workers \ {w} : request'[v] = request[v]
    BY <1>6, BeginFacts DEF Reserve
  <2>6. stock[k].quantity \in Int /\ stock[k].reserved \in Int
    BY <1>b DEF Row
  <2> HIDE DEF row
  <2>7. /\ row.quantity = stock[k].quantity + 0
        /\ row.quantity >= 0 /\ row.reserved >= 0
        /\ row.reserved <= row.quantity
    BY <1>b, <2>1, <2>2, <2>4, <2>6 DEF Available
  <2> QED
    BY <2>1, <2>2, <2>3, <2>5, <2>7, PrepareKeepsInv
<1>7. ASSUME NEW w \in Workers, NEW k \in Key, NEW n \in Amounts,
             Unreserve(w, k, n)
      PROVE  IInv'
  <2> DEFINE row == Released(stock[k], n)
  <2>1. Prepare(w, k, row, 0, FALSE)
    BY <1>7 DEF Unreserve
  <2>2. n \in Nat /\ n \in Int /\ 0 \in Int
    BY <1>a
  <2>3. row \in Row
    BY <1>b, <2>2, RowTypes
  <2>4. /\ row.quantity = stock[k].quantity
        /\ row.reserved >= 0 /\ row.reserved <= stock[k].reserved
    BY <1>b, <2>2, RowBounds
  <2>5. pc[w] = "idle" /\ \A v \in Workers \ {w} : request'[v] = request[v]
    BY <1>7, BeginFacts DEF Unreserve
  <2>6. /\ stock[k].quantity \in Int /\ stock[k].reserved \in Int
        /\ row.reserved \in Int
    BY <1>b, <2>3 DEF Row
  <2> HIDE DEF row
  <2>7. /\ row.quantity = stock[k].quantity + 0
        /\ row.quantity >= 0
        /\ row.reserved <= row.quantity \/ k \in overcounted
    BY <1>b, <2>4, <2>6
  <2> QED
    BY <2>1, <2>2, <2>3, <2>4, <2>5, <2>7, PrepareKeepsInv
<1>8. ASSUME NEW w \in Workers, UpsertStockLevel(w)
      PROVE  IInv'
  <2>1. StockInv'
    BY <1>8, StockInvStutters DEF UpsertStockLevel, IInv
  <2>2. OpenLocks'
    BY <1>8 DEF UpsertStockLevel, IInv, OpenLocks, InTransaction, TypeOK
  <2>3. \A v \in Workers, k \in Key : Holds(v, k)' => Holds(v, k)
    BY <1>8 DEF UpsertStockLevel, Holds, TypeOK
  <2>4. DraftInv'
    BY <1>8, <2>3 DEF UpsertStockLevel, IInv, DraftInv, DraftsNonNegative,
                      DraftsAccounted, DraftsCovered
  <2> QED
    BY <2>1, <2>2, <2>4 DEF IInv
<1>9. ASSUME UNCHANGED <<stock, ledger, tainted, overcounted, lock, pc, target,
                         draft, delta, stale, request>>
      PROVE  IInv'
  BY <1>9 DEF IInv, OpenLocks, InTransaction, DraftInv, StockInv, Holds,
              DraftsNonNegative, DraftsAccounted, DraftsCovered, Available,
              NonNegativeStock, LedgerExplainsStock, ReservedWithinQuantity
<1>10. ASSUME NEW w \in Workers, PublishInTx(w) \/ Publish(w)
       PROVE  IInv'
  BY <1>9, <1>10 DEF PublishInTx, Publish
<1>11. ASSUME NEW w \in Workers, Commit(w)
       PROVE  IInv'
  BY <1>11, CommitKeepsInv
<1>12. ASSUME NEW w \in Workers, Leave(w)
       PROVE  IInv'
  BY <1>12, LeaveKeepsInv
<1>13. CASE Crash
  <2>1. StockInv'
    BY <1>13, StockInvStutters DEF Crash, IInv
  <2>2. NoWorker \notin Workers
    BY WarehouseAssumption
  <2>3. OpenLocks' /\ \A v \in Workers, k \in Key : ~Holds(v, k)'
    BY <1>13, <2>2 DEF Crash, OpenLocks, Holds
  <2>4. DraftsNonNegative'
    BY <1>13 DEF Crash, DraftsNonNegative, NoDraft, EmptyRow
  <2> QED
    BY <2>1, <2>3, <2>4 DEF IInv, DraftInv, DraftsAccounted, DraftsCovered
<1>14. CASE UNCHANGED vars
  BY <1>9, <1>14
<1> QED
  BY <1>1, <1>2, <1>3, <1>4, <1>5, <1>6, <1>7, <1>8, <1>10, <1>11, <1>12,
     <1>13, <1>14 DEF Next, Accept, Progress, CheckLowStock, LowStockUnread,
                      Return, Rollback

\* IInv holds in the seeded database, where no handler runs.
LEMMA InvInitially ==
  ASSUME Init
  PROVE  IInv
<1>1. NoWorker \notin Workers
  BY WarehouseAssumption
<1>2. \A k \in Key : /\ stock[k].quantity \in Nat
                     /\ stock[k].reserved \in Nat
                     /\ stock[k].reserved <= stock[k].quantity
                     /\ ledger[k] = stock[k].quantity
  BY OpeningRowFacts DEF Init
<1>3. StockInv
  BY <1>2 DEF StockInv, NonNegativeStock, LedgerExplainsStock,
              ReservedWithinQuantity
<1>4. OpenLocks /\ \A v \in Workers, k \in Key : ~Holds(v, k)
  BY <1>1 DEF Init, OpenLocks, Holds
<1>5. DraftsNonNegative
  BY DEF Init, DraftsNonNegative, NoDraft, EmptyRow
<1> QED
  BY <1>3, <1>4, <1>5 DEF IInv, DraftInv, DraftsAccounted, DraftsCovered

(* Every reachable state keeps IInv: open transactions carry rows that are   *)
(* right for the committed rows they were computed from.                     *)
THEOREM Invariance == Spec => []IInv
<1>1. TypeOK /\ IInv /\ [Next]_vars => IInv'
  BY InvInductive
<1>2. QED
  BY <1>1, InvInitially, TypeCorrect, PTL DEF Spec

(* No interleaving of handlers, failed read, rollback or crash makes a       *)
(* quantity or a reservation negative (the checks of Ship, Transfer and      *)
(* Reserve, the floor of Unreserve), for any number of handlers.             *)
THEOREM StockNeverNegative == Spec => []NonNegativeStock
<1>1. IInv => NonNegativeStock
  BY DEF IInv, StockInv
<1>2. QED
  BY <1>1, Invariance, PTL

(* The movements written with each upsert add up to the quantity of every    *)
(* key that no overlapping handler or failed read ever made a commit blind   *)
(* to: the pairing of upsert and movement in service.go is right.            *)
THEOREM LedgerExplains == Spec => []LedgerExplainsStock
<1>1. IInv => LedgerExplainsStock
  BY DEF IInv, StockInv
<1>2. QED
  BY <1>1, Invariance, PTL

(* No overlap of handlers, lost update included, reserves more of a key than *)
(* it has, unless Adjust set the quantity below the reservations.            *)
THEOREM ReservationsCovered == Spec => []ReservedWithinQuantity
<1>1. IInv => ReservedWithinQuantity
  BY DEF IInv, StockInv
<1>2. QED
  BY <1>1, Invariance, PTL

-----------------------------------------------------------------------------
(* What an open transaction is about to do *)

\* The request in progress makes the row "new" of the row "old" of k, and
\* records "diff" of it in a movement.
Performs(r, k, old, new, diff) ==
    \/ /\ r.op = "receive"
       /\ new = Add(old, r.amount) /\ diff = r.amount
    \/ /\ r.op = "ship" /\ Available(old) >= r.amount
       /\ new = Shipped(old, r.amount) /\ diff = -r.amount
    \/ /\ r.op = "transfer" /\ k = r.key /\ Available(old) >= r.amount
       /\ new = Add(old, -r.amount) /\ diff = -r.amount
    \/ /\ r.op = "transfer" /\ k = r.dest
       /\ new = Add(old, r.amount) /\ diff = r.amount
    \/ /\ r.op = "adjust"
       /\ new = [old EXCEPT !.quantity = r.amount]
       /\ diff = r.amount - old.quantity
    \/ /\ r.op = "reserve" /\ Available(old) >= r.amount
       /\ new = [old EXCEPT !.reserved = @ + r.amount] /\ diff = 0
    \/ /\ r.op = "unreserve"
       /\ new = Released(old, r.amount) /\ diff = 0

DraftsPerform ==
    \A w \in Workers, k \in Key :
      Holds(w, k) /\ k \notin stale[w] =>
        Performs(request[w], k, stock[k], draft[w][k], delta[w][k])

\* What may be asked for.
Sensible(r) ==
    /\ r.op \in Operations
    /\ r.amount \in Amounts \/ (r.op = "adjust" /\ r.amount = 0)
    /\ r.op = "transfer" => r.key[1] = r.dest[1] /\ r.key # r.dest

RequestsSensible ==
    \A w \in Workers : InTransaction(w) =>
      /\ Sensible(request[w])
      /\ \/ target[w] = request[w].key
         \/ request[w].op = "transfer" /\ target[w] = request[w].dest
      /\ pc[w] = "midway" => request[w].op = "transfer"

\* The rows a handler has upserted so far.
Upserted(w, k) ==
    \/ pc[w] \in {"midway", "ready"} /\ k = request[w].key
    \/ /\ request[w].op = "transfer"
       /\ \/ pc[w] = "ready" /\ k = request[w].dest
          \/ pc[w] = "toWrite" /\ target[w] = request[w].dest /\ k = request[w].key

LocksTold == \A w \in Workers, k \in Key : lock[k] = w <=> Upserted(w, k)

StaleHeld == \A w \in Workers : \A k \in stale[w] : Holds(w, k)

FlightInv == DraftsPerform /\ RequestsSensible /\ LocksTold /\ StaleHeld

-----------------------------------------------------------------------------
(* How the steps keep it *)

\* A handler prepares the row of k: the first of its request, or the second of
\* a transfer.
LEMMA PrepareFlight ==
  ASSUME TypeOK, OpenLocks, FlightInv,
         NEW w \in Workers, NEW k \in Key, NEW row, NEW diff, NEW unread,
         Prepare(w, k, row, diff, unread),
         \A v \in Workers \ {w} : request'[v] = request[v],
         Sensible(request'[w]),
         \/ pc[w] = "idle" /\ k = request'[w].key
         \/ /\ pc[w] = "midway" /\ request'[w] = request[w]
            /\ request[w].op = "transfer" /\ k = request[w].dest,
         unread \/ Performs(request'[w], k, stock[k], row, diff)
  PROVE  FlightInv'
<1>1. /\ stock' = stock /\ lock' = lock
      /\ pc'[w] = "toWrite" /\ target'[w] = k
      /\ draft'[w][k] = row /\ delta'[w][k] = diff
      /\ \A j \in Key \ {k} : draft'[w][j] = draft[w][j] /\ delta'[w][j] = delta[w][j]
      /\ \A j \in Key \ {k} : j \in stale'[w] <=> j \in stale[w]
      /\ k \notin stale'[w] => ~unread
      /\ stale'[w] \subseteq Key
  BY DEF Prepare, TypeOK
<1>2. \A v \in Workers \ {w} :
        /\ pc'[v] = pc[v] /\ target'[v] = target[v] /\ request'[v] = request[v]
        /\ draft'[v] = draft[v] /\ delta'[v] = delta[v] /\ stale'[v] = stale[v]
  BY DEF Prepare, TypeOK
<1>3. \A v \in Workers \ {w}, j \in Key : /\ Holds(v, j)' <=> Holds(v, j)
                                          /\ Upserted(v, j)' <=> Upserted(v, j)
  BY <1>1, <1>2 DEF Holds, Upserted
<1>4. \A j \in Key : lock[j] = w => pc[w] = "midway"
  <2>1. NoWorker \notin Workers
    BY WarehouseAssumption
  <2>2. QED
    BY <2>1 DEF OpenLocks, InTransaction
<1>5. \A j \in Key \ {k} : Holds(w, j)' <=> lock[j] = w
  BY <1>1 DEF Holds
<1>6. DraftsPerform'
  <2> SUFFICES ASSUME NEW v \in Workers, NEW j \in Key, Holds(v, j)', j \notin stale'[v]
               PROVE  Performs(request'[v], j, stock'[j], draft'[v][j], delta'[v][j])
    BY DEF DraftsPerform
  <2>1. CASE v # w
    BY <1>1, <1>2, <1>3, <2>1 DEF FlightInv, DraftsPerform
  <2>2. CASE v = w /\ j = k
    BY <1>1, <2>2
  <2>3. CASE v = w /\ j # k
    <3>1. lock[j] = w /\ pc[w] = "midway" /\ j \notin stale[w]
      BY <1>1, <1>4, <1>5, <2>3
    <3>2. request'[w] = request[w]
      BY <3>1
    <3>3. Performs(request[w], j, stock[j], draft[w][j], delta[w][j])
      BY <3>1 DEF FlightInv, DraftsPerform, Holds
    <3>4. QED
      BY <1>1, <2>3, <3>2, <3>3
  <2>4. QED
    BY <2>1, <2>2, <2>3
<1>7. RequestsSensible'
  <2> SUFFICES ASSUME NEW v \in Workers, InTransaction(v)'
               PROVE  /\ Sensible(request'[v])
                      /\ \/ target'[v] = request'[v].key
                         \/ request'[v].op = "transfer" /\ target'[v] = request'[v].dest
                      /\ pc'[v] = "midway" => request'[v].op = "transfer"
    BY DEF RequestsSensible, Sensible
  <2>1. CASE v # w
    <3>1. InTransaction(v)
      BY <1>2, <2>1 DEF InTransaction
    <3>2. QED
      BY <1>2, <2>1, <3>1 DEF FlightInv, RequestsSensible
  <2>2. CASE v = w
    BY <1>1, <2>2
  <2>3. QED
    BY <2>1, <2>2
<1>8. LocksTold'
  <2>1. \A v \in Workers \ {w}, j \in Key : lock'[j] = v <=> Upserted(v, j)'
    BY <1>1, <1>3 DEF FlightInv, LocksTold
  <2>2. ASSUME NEW j \in Key
        PROVE  lock'[j] = w <=> Upserted(w, j)'
    <3>1. CASE pc[w] = "idle"
      <4>1. lock'[j] # w
        BY <1>1, <1>4, <3>1
      <4>2. ~Upserted(w, j)'
        BY <1>1, <3>1 DEF Upserted, Sensible
      <4>3. QED
        BY <4>1, <4>2
    <3>2. CASE pc[w] = "midway"
      <4>1. lock[j] = w <=> j = request[w].key
        BY <3>2 DEF FlightInv, LocksTold, Upserted
      <4>2. Upserted(w, j)' <=> j = request[w].key
        BY <1>1, <3>2 DEF Upserted
      <4>3. QED
        BY <1>1, <4>1, <4>2
    <3>3. QED
      BY <3>1, <3>2
  <2>3. QED
    BY <2>1, <2>2 DEF LocksTold
<1>9. StaleHeld'
  <2> SUFFICES ASSUME NEW v \in Workers, NEW j \in stale'[v] PROVE Holds(v, j)'
    BY DEF StaleHeld
  <2>1. CASE v # w
    <3>1. Holds(v, j) /\ j \in Key
      BY <1>2, <2>1 DEF FlightInv, StaleHeld, TypeOK
    <3>2. QED
      BY <1>3, <2>1, <3>1
  <2>2. CASE v = w /\ j = k
    BY <1>1, <2>2 DEF Holds
  <2>3. CASE v = w /\ j # k
    <3>1. j \in Key /\ j \in stale[w]
      BY <1>1, <2>3
    <3>2. Holds(w, j)
      BY <3>1 DEF FlightInv, StaleHeld
    <3>3. lock[j] = w
      BY <3>2 DEF Holds
    <3>4. QED
      BY <1>1, <2>3, <3>3 DEF Holds
  <2>4. QED
    BY <2>1, <2>2, <2>3
<1>10. QED
  BY <1>6, <1>7, <1>8, <1>9 DEF FlightInv

\* A handler takes the lock of the row it has prepared.
LEMMA UpsertFlight ==
  ASSUME TypeOK, FlightInv, NEW w \in Workers, UpsertStockLevel(w)
  PROVE  FlightInv'
<1> DEFINE t == target[w]
<1>1. /\ t \in Key /\ pc[w] = "toWrite" /\ lock[t] = NoWorker
      /\ lock'[t] = w /\ \A j \in Key \ {t} : lock'[j] = lock[j]
      /\ pc'[w] = IF request[w].op = "transfer" /\ t = request[w].key
                  THEN "midway" ELSE "ready"
      /\ \A v \in Workers \ {w} : pc'[v] = pc[v]
      /\ request' = request /\ target' = target /\ draft' = draft
      /\ delta' = delta /\ stale' = stale /\ stock' = stock
  BY DEF UpsertStockLevel, TypeOK
<1>2. NoWorker \notin Workers
  BY WarehouseAssumption
<1>3. /\ Sensible(request[w])
      /\ t = request[w].key \/ (request[w].op = "transfer" /\ t = request[w].dest)
  BY <1>1 DEF FlightInv, RequestsSensible, InTransaction
<1> HIDE DEF t
<1>4. \A v \in Workers, j \in Key : Holds(v, j)' <=> Holds(v, j)
  BY <1>1, <1>2 DEF Holds, t
<1>5. DraftsPerform'
  BY <1>1, <1>4 DEF FlightInv, DraftsPerform
<1>6. RequestsSensible'
  <2>1. \A v \in Workers : InTransaction(v)' => InTransaction(v)
    BY <1>1 DEF InTransaction
  <2>2. \A v \in Workers : pc'[v] = "midway" => pc[v] = "midway" \/ v = w
    BY <1>1
  <2>3. pc'[w] = "midway" => request[w].op = "transfer"
    BY <1>1
  <2>4. QED
    BY <1>1, <2>1, <2>2, <2>3 DEF FlightInv, RequestsSensible
<1>7. LocksTold'
  <2>1. ASSUME NEW v \in Workers \ {w}, NEW j \in Key
        PROVE  lock'[j] = v <=> Upserted(v, j)'
    <3>1. Upserted(v, j)' <=> Upserted(v, j)
      BY <1>1 DEF Upserted
    <3>2. lock'[j] = v <=> lock[j] = v
      BY <1>1, <1>2
    <3>3. QED
      BY <3>1, <3>2 DEF FlightInv, LocksTold
  <2>2. ASSUME NEW j \in Key
        PROVE  lock'[j] = w <=> Upserted(w, j)'
    <3>1. lock[j] = w <=> Upserted(w, j)
      BY DEF FlightInv, LocksTold
    <3>2. lock'[j] = w <=> Upserted(w, j) \/ j = t
      BY <1>1, <3>1
    <3>3. CASE t = request[w].key
      <4>1. ~Upserted(w, j)
        BY <1>1, <1>3, <3>3 DEF Upserted, Sensible, t
      <4>2. Upserted(w, j)' <=> j = request[w].key
        BY <1>1, <3>3 DEF Upserted
      <4>3. QED
        BY <3>2, <3>3, <4>1, <4>2
    <3>4. CASE t # request[w].key
      <4>1. Upserted(w, j) <=> j = request[w].key
        BY <1>1, <1>3, <3>4 DEF Upserted, t
      <4>2. Upserted(w, j)' <=> j = request[w].key \/ j = t
        BY <1>1, <1>3, <3>4 DEF Upserted
      <4>3. QED
        BY <3>2, <4>1, <4>2
    <3>5. QED
      BY <3>3, <3>4
  <2>3. QED
    BY <2>1, <2>2 DEF LocksTold
<1>8. StaleHeld'
  BY <1>1, <1>4 DEF FlightInv, StaleHeld, TypeOK
<1>9. QED
  BY <1>5, <1>6, <1>7, <1>8 DEF FlightInv

\* The readers of a row that a commit changes are stale from then on.
LEMMA CommitFlight ==
  ASSUME TypeOK, FlightInv, NEW w \in Workers, Commit(w)
  PROVE  FlightInv'
<1>1. NoWorker \notin Workers
  BY WarehouseAssumption
<1>2. /\ pc'[w] = "committed" /\ stale'[w] = {}
      /\ \A v \in Workers \ {w} : pc'[v] = pc[v]
      /\ \A j \in Key : lock'[j] = IF lock[j] = w THEN NoWorker ELSE lock[j]
      /\ \A j \in Key : lock[j] # w => stock'[j] = stock[j]
      /\ request' = request /\ target' = target /\ draft' = draft /\ delta' = delta
  BY DEF Commit, TypeOK
<1>3. \A v \in Workers \ {w} :
        stale'[v] = IF pc[v] = "toWrite" /\ lock[target[v]] = w
                    THEN stale[v] \cup {target[v]} ELSE stale[v]
  BY DEF Commit
<1>4. \A j \in Key : ~Holds(w, j)' /\ ~Upserted(w, j)'
  BY <1>1, <1>2 DEF Holds, Upserted
<1>5. \A v \in Workers \ {w}, j \in Key : /\ Holds(v, j)' <=> Holds(v, j)
                                          /\ Upserted(v, j)' <=> Upserted(v, j)
  BY <1>1, <1>2 DEF Holds, Upserted
<1>6. DraftsPerform'
  <2> SUFFICES ASSUME NEW v \in Workers, NEW j \in Key, Holds(v, j)', j \notin stale'[v]
               PROVE  Performs(request'[v], j, stock'[j], draft'[v][j], delta'[v][j])
    BY DEF DraftsPerform
  <2>1. v # w /\ Holds(v, j)
    BY <1>4, <1>5
  <2>2. j \notin stale[v] /\ ~(pc[v] = "toWrite" /\ target[v] = j /\ lock[j] = w)
    BY <1>3, <2>1
  <2>3. lock[j] # w
    BY <2>1, <2>2 DEF Holds
  <2>4. QED
    BY <1>2, <2>1, <2>2, <2>3 DEF FlightInv, DraftsPerform
<1>7. RequestsSensible'
  <2>1. \A v \in Workers : InTransaction(v)' => InTransaction(v) /\ pc'[v] = pc[v]
    BY <1>2 DEF InTransaction
  <2>2. QED
    BY <1>2, <2>1 DEF FlightInv, RequestsSensible
<1>8. LocksTold'
  <2>1. \A j \in Key : lock'[j] # w
    BY <1>1, <1>2
  <2>2. \A v \in Workers \ {w}, j \in Key : lock'[j] = v <=> lock[j] = v
    BY <1>1, <1>2
  <2>3. QED
    BY <1>4, <1>5, <2>1, <2>2 DEF FlightInv, LocksTold
<1>9. StaleHeld'
  <2> SUFFICES ASSUME NEW v \in Workers, NEW j \in stale'[v] PROVE Holds(v, j)'
    BY DEF StaleHeld
  <2>1. v # w
    BY <1>2
  <2>2. j \in stale[v] \/ (pc[v] = "toWrite" /\ j = target[v])
    BY <1>3, <2>1
  <2>3. j \in Key /\ Holds(v, j)
    BY <2>2 DEF FlightInv, StaleHeld, Holds, TypeOK
  <2>4. QED
    BY <1>5, <2>1, <2>3
<1>10. QED
  BY <1>6, <1>7, <1>8, <1>9 DEF FlightInv

\* A handler that lets go of its transaction.
LEMMA LeaveFlight ==
  ASSUME TypeOK, FlightInv, NEW w \in Workers, Leave(w)
  PROVE  FlightInv'
<1>1. NoWorker \notin Workers
  BY WarehouseAssumption
<1>2. /\ pc'[w] = "idle" /\ stale'[w] = {} /\ stock' = stock
      /\ \A j \in Key : lock'[j] = IF lock[j] = w THEN NoWorker ELSE lock[j]
      /\ \A v \in Workers \ {w} :
           /\ pc'[v] = pc[v] /\ target'[v] = target[v] /\ request'[v] = request[v]
           /\ draft'[v] = draft[v] /\ delta'[v] = delta[v] /\ stale'[v] = stale[v]
  BY DEF Leave, TypeOK
<1>3. \A j \in Key : ~Holds(w, j)' /\ ~Upserted(w, j)' /\ lock'[j] # w
  BY <1>1, <1>2 DEF Holds, Upserted
<1>4. \A v \in Workers \ {w}, j \in Key : /\ Holds(v, j)' <=> Holds(v, j)
                                          /\ Upserted(v, j)' <=> Upserted(v, j)
                                          /\ lock'[j] = v <=> lock[j] = v
  BY <1>1, <1>2 DEF Holds, Upserted
<1>5. DraftsPerform'
  BY <1>2, <1>3, <1>4 DEF FlightInv, DraftsPerform
<1>6. RequestsSensible'
  <2>1. \A v \in Workers : InTransaction(v)' => v # w /\ InTransaction(v)
    BY <1>2 DEF InTransaction
  <2>2. QED
    BY <1>2, <2>1 DEF FlightInv, RequestsSensible
<1>7. LocksTold'
  BY <1>3, <1>4 DEF FlightInv, LocksTold
<1>8. StaleHeld'
  BY <1>2, <1>4 DEF FlightInv, StaleHeld, TypeOK
<1>9. QED
  BY <1>5, <1>6, <1>7, <1>8 DEF FlightInv

\* A request of a client, with the row its handler computes.
LEMMA AdmitFlight ==
  ASSUME TypeOK, OpenLocks, FlightInv,
         NEW w \in Workers, NEW op, NEW k \in Key, NEW d, NEW n,
         NEW row, NEW diff, NEW unread,
         Begin(w, op, k, d, n), Prepare(w, k, row, diff, unread),
         LET r == [op |-> op, key |-> k, dest |-> d, amount |-> n]
         IN  Sensible(r) /\ (unread \/ Performs(r, k, stock[k], row, diff))
  PROVE  FlightInv'
<1>1. /\ pc[w] = "idle"
      /\ request'[w] = [op |-> op, key |-> k, dest |-> d, amount |-> n]
      /\ \A v \in Workers \ {w} : request'[v] = request[v]
  BY DEF Begin, TypeOK
<1>2. k = request'[w].key
  BY <1>1
<1>3. Sensible(request'[w]) /\ (unread \/ Performs(request'[w], k, stock[k], row, diff))
  BY <1>1
<1>4. QED
  BY <1>1, <1>2, <1>3, PrepareFlight

\* What a handler read is the row of the table, or it knows that it is not.
LEMMA SeenOrUnread ==
  ASSUME NEW k, NEW seen \in GetOrCreate(k)
  PROVE  seen.unread \/ seen.row = stock[k]
BY DEF GetOrCreate

LEMMA FlightStep ==
  ASSUME TypeOK, OpenLocks, FlightInv, [Next]_vars
  PROVE  FlightInv'
<1>1. ASSUME NEW w \in Workers, NEW k \in Key, NEW n \in Amounts, Receive(w, k, n)
      PROVE  FlightInv'
  <2> DEFINE r == [op |-> "receive", key |-> k, dest |-> k, amount |-> n]
  <2>1. PICK seen \in GetOrCreate(k) :
          Prepare(w, k, Add(seen.row, n), n, seen.unread)
    BY <1>1 DEF Receive
  <2>2. Sensible(r)
    BY DEF Sensible, Operations
  <2>3. seen.unread \/ Performs(r, k, stock[k], Add(seen.row, n), n)
    BY <2>1, SeenOrUnread DEF Performs
  <2>4. Begin(w, "receive", k, k, n)
    BY <1>1 DEF Receive
  <2>5. QED
    BY <2>1, <2>2, <2>3, <2>4, AdmitFlight
<1>2. ASSUME NEW w \in Workers, NEW k \in Key, NEW n \in Amounts, Ship(w, k, n)
      PROVE  FlightInv'
  <2> DEFINE r == [op |-> "ship", key |-> k, dest |-> k, amount |-> n]
  <2>1. /\ Begin(w, "ship", k, k, n) /\ Available(stock[k]) >= n
        /\ Prepare(w, k, Shipped(stock[k], n), -n, FALSE)
    BY <1>2 DEF Ship
  <2>2. Sensible(r) /\ Performs(r, k, stock[k], Shipped(stock[k], n), -n)
    BY <2>1 DEF Sensible, Operations, Performs
  <2>3. QED
    BY <2>1, <2>2, AdmitFlight
<1>3. ASSUME NEW w \in Workers, NEW k \in Key, NEW d \in Key, NEW n \in Amounts,
             Transfer(w, k, d, n)
      PROVE  FlightInv'
  <2> DEFINE r == [op |-> "transfer", key |-> k, dest |-> d, amount |-> n]
  <2>1. /\ k[1] = d[1] /\ k # d
        /\ Begin(w, "transfer", k, d, n) /\ Available(stock[k]) >= n
        /\ Prepare(w, k, Add(stock[k], -n), -n, FALSE)
    BY <1>3 DEF Transfer
  <2>2. Sensible(r) /\ Performs(r, k, stock[k], Add(stock[k], -n), -n)
    BY <2>1 DEF Sensible, Operations, Performs
  <2>3. QED
    BY <2>1, <2>2, AdmitFlight
<1>4. ASSUME NEW w \in Workers, TransferDestination(w)
      PROVE  FlightInv'
  <2> DEFINE d == request[w].dest
             n == request[w].amount
  <2>1. PICK seen \in GetOrCreate(d) :
          Prepare(w, d, Add(seen.row, n), n, seen.unread)
    BY <1>4 DEF TransferDestination
  <2>2. /\ pc[w] = "midway" /\ request' = request
        /\ Sensible(request[w]) /\ request[w].op = "transfer"
    BY <1>4 DEF TransferDestination, FlightInv, RequestsSensible, InTransaction
  <2>3. seen.unread \/ Performs(request[w], d, stock[d], Add(seen.row, n), n)
    BY <2>1, <2>2, SeenOrUnread DEF Performs
  <2>4. d \in Key
    BY DEF TypeOK, Request
  <2>5. QED
    BY <2>1, <2>2, <2>3, <2>4, PrepareFlight
<1>5. ASSUME NEW w \in Workers, NEW k \in Key, NEW n \in Amounts \cup {0},
             Adjust(w, k, n)
      PROVE  FlightInv'
  <2> DEFINE r == [op |-> "adjust", key |-> k, dest |-> k, amount |-> n]
  <2>1. PICK seen \in GetOrCreate(k) :
          Prepare(w, k, [seen.row EXCEPT !.quantity = n],
                  n - seen.row.quantity, seen.unread)
    BY <1>5 DEF Adjust
  <2>2. Sensible(r)
    BY DEF Sensible, Operations
  <2>3. seen.unread
        \/ Performs(r, k, stock[k], [seen.row EXCEPT !.quantity = n],
                    n - seen.row.quantity)
    BY <2>1, SeenOrUnread DEF Performs
  <2>4. Begin(w, "adjust", k, k, n)
    BY <1>5 DEF Adjust
  <2>5. QED
    BY <2>1, <2>2, <2>3, <2>4, AdmitFlight
<1>6. ASSUME NEW w \in Workers, NEW k \in Key, NEW n \in Amounts, Reserve(w, k, n)
      PROVE  FlightInv'
  <2> DEFINE r == [op |-> "reserve", key |-> k, dest |-> k, amount |-> n]
             row == [stock[k] EXCEPT !.reserved = @ + n]
  <2>1. /\ Begin(w, "reserve", k, k, n) /\ Available(stock[k]) >= n
        /\ Prepare(w, k, row, 0, FALSE)
    BY <1>6 DEF Reserve
  <2>2. Sensible(r) /\ Performs(r, k, stock[k], row, 0)
    BY <2>1 DEF Sensible, Operations, Performs
  <2>3. QED
    BY <2>1, <2>2, AdmitFlight
<1>7. ASSUME NEW w \in Workers, NEW k \in Key, NEW n \in Amounts, Unreserve(w, k, n)
      PROVE  FlightInv'
  <2> DEFINE r == [op |-> "unreserve", key |-> k, dest |-> k, amount |-> n]
  <2>1. /\ Begin(w, "unreserve", k, k, n)
        /\ Prepare(w, k, Released(stock[k], n), 0, FALSE)
    BY <1>7 DEF Unreserve
  <2>2. Sensible(r) /\ Performs(r, k, stock[k], Released(stock[k], n), 0)
    BY DEF Sensible, Operations, Performs
  <2>3. QED
    BY <2>1, <2>2, AdmitFlight
<1>8. ASSUME UNCHANGED <<stock, lock, pc, request, target, draft, delta, stale>>
      PROVE  FlightInv'
  BY <1>8 DEF FlightInv, DraftsPerform, RequestsSensible, LocksTold, StaleHeld,
              Holds, Upserted, InTransaction
<1>9. ASSUME NEW w \in Workers, PublishInTx(w) \/ Publish(w)
      PROVE  FlightInv'
  BY <1>8, <1>9 DEF PublishInTx, Publish
<1>10. ASSUME NEW w \in Workers, Leave(w)
       PROVE  FlightInv'
  BY <1>10, LeaveFlight
<1>11. CASE Crash
  <2>1. NoWorker \notin Workers
    BY WarehouseAssumption
  <2>2. \A v \in Workers : /\ pc'[v] = "idle" /\ stale'[v] = {}
                           /\ \A j \in Key : lock'[j] # v
    BY <1>11, <2>1 DEF Crash
  <2>3. QED
    BY <2>2 DEF FlightInv, DraftsPerform, RequestsSensible, LocksTold, StaleHeld,
                Holds, Upserted, InTransaction
<1>12. CASE UNCHANGED vars
  BY <1>8, <1>12
<1>13. QED
  BY <1>1, <1>2, <1>3, <1>4, <1>5, <1>6, <1>7, <1>9, <1>10, <1>11, <1>12,
     UpsertFlight, CommitFlight
  DEF Next, Accept, Progress, CheckLowStock, LowStockUnread, Return, Rollback

LEMMA Flights == Spec => []FlightInv
<1>1. Init => FlightInv
  <2>1. NoWorker \notin Workers
    BY WarehouseAssumption
  <2>2. QED
    BY <2>1 DEF Init, FlightInv, DraftsPerform, RequestsSensible, LocksTold,
                StaleHeld, Holds, Upserted, InTransaction
<1>2. TypeOK /\ IInv /\ FlightInv /\ [Next]_vars => FlightInv'
  BY FlightStep DEF IInv
<1>3. QED
  BY <1>1, <1>2, TypeCorrect, Invariance, PTL DEF Spec

-----------------------------------------------------------------------------
(* The book *)

\* A transaction that upserted one row commits that row and its movement.
LEMMA CommitsOne ==
  ASSUME TypeOK, NEW w \in Workers, NEW k \in Key, Commit(w),
         \A j \in Key : lock[j] = w <=> j = k
  PROVE  /\ stock' = [stock EXCEPT ![k] = draft[w][k]]
         /\ ledger' = [ledger EXCEPT ![k] = @ + delta[w][k]]
<1>1. stock' = [j \in Key |-> IF j = k THEN draft[w][j] ELSE stock[j]]
  BY DEF Commit
<1>2. ledger' = [j \in Key |-> IF j = k THEN ledger[j] + delta[w][j] ELSE ledger[j]]
  BY DEF Commit
<1>3. stock \in [Key -> Row] /\ ledger \in [Key -> Int]
  BY DEF TypeOK
<1>4. stock' = [stock EXCEPT ![k] = draft[w][k]]
  BY <1>1, <1>3
<1>5. ledger' = [ledger EXCEPT ![k] = @ + delta[w][k]]
  BY <1>2, <1>3
<1>6. QED
  BY <1>4, <1>5

\* A transfer commits its two rows.
LEMMA CommitsTwo ==
  ASSUME TypeOK, NEW w \in Workers, NEW k \in Key, NEW d \in Key, Commit(w),
         \A j \in Key : lock[j] = w <=> j \in {k, d}, k # d
  PROVE  /\ stock' = [stock EXCEPT ![k] = draft[w][k], ![d] = draft[w][d]]
         /\ ledger' = [ledger EXCEPT ![k] = @ + delta[w][k], ![d] = @ + delta[w][d]]
<1>1. stock' = [j \in Key |-> IF j \in {k, d} THEN draft[w][j] ELSE stock[j]]
  BY DEF Commit
<1>2. ledger' = [j \in Key |-> IF j \in {k, d} THEN ledger[j] + delta[w][j]
                                             ELSE ledger[j]]
  BY DEF Commit
<1>3. stock \in [Key -> Row] /\ ledger \in [Key -> Int]
  BY DEF TypeOK
<1>4. stock' = [stock EXCEPT ![k] = draft[w][k], ![d] = draft[w][d]]
  BY <1>1, <1>3
<1>5. ledger' = [ledger EXCEPT ![k] = @ + delta[w][k], ![d] = @ + delta[w][d]]
  BY <1>2, <1>3
<1>6. QED
  BY <1>4, <1>5

\* The request of a committing handler, and the rows it has upserted.
LEMMA Committing ==
  ASSUME TypeOK, FlightInv, NEW w \in Workers, Commit(w)
  PROVE  /\ Sensible(request[w])
         /\ request[w].key \in Key /\ request[w].dest \in Key
         /\ \A j \in Key : Holds(w, j) <=> lock[j] = w
         /\ request[w].op # "transfer" =>
              \A j \in Key : lock[j] = w <=> j = request[w].key
         /\ request[w].op = "transfer" =>
              \A j \in Key : lock[j] = w <=> j \in {request[w].key, request[w].dest}
<1>1. pc[w] = "ready"
  BY DEF Commit
<1>2. Sensible(request[w])
  BY <1>1 DEF FlightInv, RequestsSensible, InTransaction
<1>3. request[w].key \in Key /\ request[w].dest \in Key
  BY DEF TypeOK, Request
<1>4. \A j \in Key : Holds(w, j) <=> lock[j] = w
  BY <1>1 DEF Holds
<1>5. \A j \in Key : lock[j] = w <=> Upserted(w, j)
  BY DEF FlightInv, LocksTold
<1>6. QED
  BY <1>1, <1>2, <1>3, <1>4, <1>5 DEF Upserted

\* A commit over rows nobody changed is the operation that was asked for.
LEMMA CommitIsOperation ==
  ASSUME TypeOK, FlightInv, NEW w \in Workers, Commit(w), stale[w] = {}
  PROVE  Book!Next
<1> DEFINE r == request[w]
           k == r.key
           d == r.dest
           n == r.amount
<1>1. /\ Sensible(r) /\ k \in Key /\ d \in Key
      /\ \A j \in Key : lock[j] = w => Performs(r, j, stock[j], draft[w][j], delta[w][j])
  BY Committing DEF FlightInv, DraftsPerform
<1>2. blind' = {}
  BY DEF Commit
<1>3. stock[k] \in Row /\ stock[d] \in Row /\ ledger[k] \in Int /\ ledger[d] \in Int
  BY <1>1 DEF TypeOK
<1>4. r.op # "transfer" =>
        /\ stock' = [stock EXCEPT ![k] = draft[w][k]]
        /\ ledger' = [ledger EXCEPT ![k] = @ + delta[w][k]]
        /\ Performs(r, k, stock[k], draft[w][k], delta[w][k])
  BY <1>1, Committing, CommitsOne
<1>5. r.op = "transfer" =>
        /\ stock' = [stock EXCEPT ![k] = draft[w][k], ![d] = draft[w][d]]
        /\ ledger' = [ledger EXCEPT ![k] = @ + delta[w][k], ![d] = @ + delta[w][d]]
        /\ Performs(r, k, stock[k], draft[w][k], delta[w][k])
        /\ Performs(r, d, stock[d], draft[w][d], delta[w][d])
        /\ k[1] = d[1] /\ k # d
  BY <1>1, Committing, CommitsTwo DEF Sensible
<1>6. n \in Amounts \/ (r.op = "adjust" /\ n = 0)
  BY <1>1 DEF Sensible
<1>7. Amounts \subseteq Int
  BY WarehouseAssumption
<1>8. k \in Book!Key /\ d \in Book!Key
  BY <1>1 DEF Key, Book!Key
<1>9. ledger \in [Key -> Int] /\ stock \in [Key -> Row]
  BY DEF TypeOK
<1> HIDE DEF k, d
<1>10. CASE r.op = "receive"
  <2>1. n \in Amounts /\ draft[w][k] = Add(stock[k], n) /\ delta[w][k] = n
    BY <1>4, <1>6, <1>10 DEF Performs
  <2>2. Book!Receive(k, n)
    BY <1>2, <1>4, <1>10, <2>1 DEF Book!Receive, Book!Enter, Add
  <2>3. QED
    BY <1>8, <2>1, <2>2 DEF Book!Next
<1>11. CASE r.op = "ship"
  <2>1. /\ n \in Amounts /\ Available(stock[k]) >= n
        /\ draft[w][k] = Shipped(stock[k], n) /\ delta[w][k] = -n
    BY <1>4, <1>6, <1>11 DEF Performs
  <2>2. ledger' = [ledger EXCEPT ![k] = @ - n]
    BY <1>1, <1>3, <1>4, <1>7, <1>9, <1>11, <2>1
  <2>3. stock' = [stock EXCEPT ![k].quantity = @ - n,
                               ![k].reserved = IF @ >= n THEN @ - n ELSE @]
    BY <1>1, <1>3, <1>4, <1>9, <1>11, <2>1 DEF Shipped, Row
  <2>4. Book!Ship(k, n)
    BY <1>2, <2>1, <2>2, <2>3 DEF Book!Ship, Book!Free, Available
  <2>5. QED
    BY <1>8, <2>1, <2>4 DEF Book!Next
<1>12. CASE r.op = "transfer"
  <2>1. /\ n \in Amounts /\ Available(stock[k]) >= n
        /\ draft[w][k] = Add(stock[k], -n) /\ delta[w][k] = -n
        /\ draft[w][d] = Add(stock[d], n) /\ delta[w][d] = n
    BY <1>5, <1>6, <1>12 DEF Performs, k, d
  <2>2. ledger' = [ledger EXCEPT ![k] = @ - n, ![d] = @ + n]
    BY <1>3, <1>5, <1>7, <1>9, <1>12, <2>1
  <2>3. Add(stock[k], -n) = [stock[k] EXCEPT !.quantity = @ - n]
    BY <1>3, <1>7, <2>1 DEF Add, Row
  <2>4. stock' = [stock EXCEPT ![k].quantity = @ - n, ![d].quantity = @ + n]
    BY <1>5, <1>12, <2>1, <2>3 DEF Add
  <2>5. Book!Transfer(k, d, n)
    BY <1>2, <1>5, <1>12, <2>1, <2>2, <2>4 DEF Book!Transfer, Book!Free, Available
  <2>6. QED
    BY <1>8, <2>1, <2>5 DEF Book!Next
<1>13. CASE r.op = "adjust"
  <2>1. /\ n \in Amounts \cup {0} /\ delta[w][k] = n - stock[k].quantity
        /\ draft[w][k] = [stock[k] EXCEPT !.quantity = n]
    BY <1>4, <1>6, <1>13 DEF Performs
  <2>2. stock[k].quantity \in Int /\ n \in Int
    BY <1>3, <1>7, <2>1 DEF Row
  <2>3. draft[w][k] = [stock[k] EXCEPT !.quantity = @ + (n - stock[k].quantity)]
    BY <1>3, <2>1, <2>2 DEF Row
  <2>4. Book!Adjust(k, n)
    BY <1>2, <1>4, <1>13, <2>1, <2>3 DEF Book!Adjust, Book!Enter
  <2>5. QED
    BY <1>8, <2>1, <2>4 DEF Book!Next
<1>14. CASE r.op = "reserve"
  <2>1. /\ n \in Amounts /\ Available(stock[k]) >= n /\ delta[w][k] = 0
        /\ draft[w][k] = [stock[k] EXCEPT !.reserved = @ + n]
    BY <1>4, <1>6, <1>14 DEF Performs
  <2>2. ledger' = ledger
    <3>1. ledger[k] + delta[w][k] = ledger[k]
      BY <1>3, <2>1
    <3>2. QED
      BY <1>4, <1>9, <1>14, <3>1
  <2>3. Book!Reserve(k, n)
    BY <1>2, <1>4, <1>14, <2>1, <2>2 DEF Book!Reserve, Book!Free, Available
  <2>4. QED
    BY <1>8, <2>1, <2>3 DEF Book!Next
<1>15. CASE r.op = "unreserve"
  <2>1. n \in Amounts /\ delta[w][k] = 0 /\ draft[w][k] = Released(stock[k], n)
    BY <1>4, <1>6, <1>15 DEF Performs
  <2>2. ledger' = ledger
    <3>1. ledger[k] + delta[w][k] = ledger[k]
      BY <1>3, <2>1
    <3>2. QED
      BY <1>4, <1>9, <1>15, <3>1
  <2>3. Book!Unreserve(k, n)
    BY <1>2, <1>4, <1>15, <2>1, <2>2 DEF Book!Unreserve, Released
  <2>4. QED
    BY <1>8, <2>1, <2>3 DEF Book!Next
<1>16. QED
  BY <1>1, <1>10, <1>11, <1>12, <1>13, <1>14, <1>15 DEF Sensible, Operations

\* Any other commit is a blind write: it is blind to the rows others changed.
LEMMA CommitIsBlindWrite ==
  ASSUME TypeOK, IInv, FlightInv, NEW w \in Workers, Commit(w), stale[w] # {}
  PROVE  Book!Next
<1> DEFINE touched == {k \in Key : lock[k] = w}
<1>1. blind' = stale[w]
  BY DEF Commit
<1>2. stale[w] \subseteq touched
  BY Committing DEF FlightInv, StaleHeld, TypeOK
<1>3. \A k \in Book!Key \ touched : stock'[k] = stock[k] /\ ledger'[k] = ledger[k]
  BY DEF Commit, Key, Book!Key
<1>4. \A k \in touched : /\ stock'[k] = draft[w][k]
                         /\ ledger'[k] = ledger[k] + delta[w][k]
  BY DEF Commit
<1>5. \A k \in touched : stock'[k].quantity >= 0 /\ stock'[k].reserved >= 0
  BY <1>4 DEF IInv, DraftInv, DraftsNonNegative
<1>6. ASSUME NEW k \in touched \ stale[w]
      PROVE  stock'[k].quantity - stock[k].quantity = ledger'[k] - ledger[k]
  <2>1. draft[w][k].quantity = stock[k].quantity + delta[w][k]
    BY <1>6, Committing DEF IInv, DraftInv, DraftsAccounted
  <2>2. /\ stock[k].quantity \in Int /\ delta[w][k] \in Int /\ ledger[k] \in Int
    BY DEF TypeOK, Row
  <2>3. stock'[k].quantity = stock[k].quantity + delta[w][k]
        /\ ledger'[k] = ledger[k] + delta[w][k]
    BY <1>4, <2>1
  <2>4. QED
    BY <2>2, <2>3
<1>7. touched \in SUBSET Book!Key /\ stale[w] \in SUBSET Book!Key
  BY <1>2 DEF Key, Book!Key
<1> HIDE DEF touched
<1>8. Book!BlindWrite(touched, stale[w])
  BY <1>1, <1>2, <1>3, <1>5, <1>6 DEF Book!BlindWrite
<1>9. QED
  BY <1>7, <1>8 DEF Book!Next

\* Every step is one of the book, or none.
LEMMA BookStep ==
  ASSUME TypeOK, IInv, FlightInv, [Next]_vars
  PROVE  [Book!Next]_(Book!book)
<1>1. ASSUME NEW w \in Workers, Commit(w)
      PROVE  Book!Next
  BY <1>1, CommitIsOperation, CommitIsBlindWrite
<1>2. ASSUME UNCHANGED <<stock, ledger, blind>>
      PROVE  UNCHANGED Book!book
  BY <1>2 DEF Book!book
<1>3. ASSUME NEW w \in Workers, Accept(w)
      PROVE  UNCHANGED <<stock, ledger, blind>>
  BY <1>3 DEF Accept, Receive, Ship, Transfer, Adjust, Reserve, Unreserve, Prepare
<1>4. ASSUME NEW w \in Workers, TransferDestination(w) \/ UpsertStockLevel(w)
                                  \/ PublishInTx(w) \/ Publish(w)
      PROVE  UNCHANGED <<stock, ledger, blind>>
  BY <1>4 DEF TransferDestination, Prepare, UpsertStockLevel, PublishInTx, Publish
<1>5. ASSUME NEW w \in Workers, Leave(w)
      PROVE  UNCHANGED <<stock, ledger, blind>>
  BY <1>5 DEF Leave
<1>6. CASE Crash \/ UNCHANGED vars
  BY <1>2, <1>6 DEF Crash
<1>7. QED
  BY <1>1, <1>2, <1>3, <1>4, <1>5, <1>6 DEF Next, Progress, CheckLowStock,
     LowStockUnread, Return, Rollback

(* However many handlers overlap, with reads that fail, rollbacks and        *)
(* crashes: what service.go does in a read outside the transaction, an       *)
(* absolute upsert and a commit is one atomic operation of a stock book, at  *)
(* the commit; only a commit over a row changed since it was read is blind,  *)
(* and to no more than that row.                                             *)
THEOREM StockBookImplemented == Spec => ImplementsStockBook
<1>1. Init => Book!Init
  <2> SUFFICES ASSUME Init PROVE Book!Init
    OBVIOUS
  <2>1. \A k \in Key : /\ stock[k].quantity >= stock[k].reserved
                       /\ stock[k].reserved >= 0
                       /\ ledger[k] = stock[k].quantity
    BY OpeningRowFacts DEF Init
  <2>2. blind = {}
    BY DEF Init
  <2>3. QED
    BY <2>1, <2>2 DEF Book!Init, Book!Key, Key
<1>2. TypeOK /\ IInv /\ FlightInv /\ [Next]_vars => [Book!Next]_(Book!book)
  BY BookStep
<1>3. QED
  BY <1>1, <1>2, TypeCorrect, Invariance, Flights, PTL
  DEF Spec, ImplementsStockBook, Book!Spec

=============================================================================
