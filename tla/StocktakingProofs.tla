------------------------- MODULE StocktakingProofs -------------------------
(***************************************************************************)
(* Theorems about module Stocktaking, for any products, sessions, handlers *)
(* and movements of goods and any number of requests.                      *)
(***************************************************************************)
EXTENDS Stocktaking, TLAPS

USE DEF rows, history

-----------------------------------------------------------------------------
(* Types *)

Statuses == {"absent", "in_progress", "applied", "cancelled"}

Stages == {"idle", "starting", "opened", "applying", "moving"}

Items == [Products -> Item]

Session == [status : Statuses, items : Items]

Job == [op : {"none", "start", "count", "apply", "cancel", "move"},
        session : Sessions, product : Int, amount : Int, items : Items,
        quantity : Int]

CountTypeOK ==
    /\ stock \in [Products -> Int] /\ ledger \in [Products -> Int]
    /\ session \in [Sessions -> Session]
    /\ pc \in [Workers -> Stages]
    /\ job \in [Workers -> Job]
    /\ \A w \in Workers :
         pc[w] = "moving" \/ (pc[w] = "opened" /\ job[w].op = "count")
           => job[w].product \in Products
    /\ \A w \in Workers : pc[w] = "applying" => job[w].op = "apply"
    /\ drifted \in [Sessions -> SUBSET Products]
    /\ adjusted \in [Sessions -> Nat]

LEMMA IdleIsAJob == Idle \in Job
<1>1. AnySession \in Sessions
  BY StocktakingAssumption DEF AnySession
<1>2. Blank \in Items
  BY DEF Blank, Items, Item
<1>3. QED
  BY <1>1, <1>2 DEF Idle, Job

\* A handler of an admitted request, the others as they were.
LEMMA Accepting ==
  ASSUME CountTypeOK, NEW w \in Workers, NEW work \in Job, NEW at \in Stages,
         Accept(w, work, at)
  PROVE  /\ pc[w] = "idle" /\ pc'[w] = at /\ job'[w] = work
         /\ \A v \in Workers \ {w} : pc'[v] = pc[v] /\ job'[v] = job[v]
         /\ pc' \in [Workers -> Stages] /\ job' \in [Workers -> Job]
  BY DEF Accept, CountTypeOK

LEMMA Leaving ==
  ASSUME CountTypeOK, NEW w \in Workers, Done(w)
  PROVE  /\ pc'[w] = "idle"
         /\ \A v \in Workers \ {w} : pc'[v] = pc[v] /\ job'[v] = job[v]
         /\ pc' \in [Workers -> Stages] /\ job' \in [Workers -> Job]
  BY IdleIsAJob DEF Done, CountTypeOK, Stages

\* What each request is admitted with.
LEMMA Starts ==
  ASSUME CountTypeOK, NEW w \in Workers, NEW s \in Sessions, StartInventory(w, s)
  PROVE  \E work \in Job :
           /\ Accept(w, work, "starting")
           /\ work.session = s /\ work.items = Snapshot
<1> DEFINE work == [Idle EXCEPT !.op = "start", !.session = s, !.items = Snapshot]
<1>1. Snapshot \in Items
  BY DEF CountTypeOK, Snapshot, Items, Item
<1>2. work \in Job /\ work.session = s /\ work.items = Snapshot
  BY <1>1, IdleIsAJob DEF Job
<1>3. QED
  BY <1>2 DEF StartInventory

LEMMA Opens ==
  ASSUME CountTypeOK, NEW w \in Workers, NEW op \in {"apply", "cancel", "count"},
         NEW s \in Sessions, NEW p \in Int, NEW n \in Int, Open(w, op, s, p, n)
  PROVE  \E work \in Job :
           /\ Accept(w, work, "opened")
           /\ work.op = op /\ work.session = s /\ work.product = p
<1> DEFINE work == [Idle EXCEPT !.op = op, !.session = s, !.product = p, !.amount = n]
<1>1. work \in Job /\ work.op = op /\ work.session = s /\ work.product = p
  BY IdleIsAJob DEF Job
<1>2. QED
  BY <1>1 DEF Open

LEMMA MoveStarts ==
  ASSUME CountTypeOK, NEW w \in Workers, NEW p \in Products, NEW n \in Moves, Move(w, p, n)
  PROVE  \E work \in Job :
           /\ Accept(w, work, "moving")
           /\ work.product = p /\ work.quantity = stock[p]
<1> DEFINE work == [Idle EXCEPT !.op = "move", !.product = p, !.amount = n, !.quantity = stock[p]]
<1>1. stock[p] \in Int /\ n \in Int /\ p \in Int
  BY StocktakingAssumption DEF CountTypeOK, Products
<1>2. work \in Job /\ work.product = p /\ work.quantity = stock[p]
  BY <1>1, IdleIsAJob DEF Job
<1>3. QED
  BY <1>2 DEF Move

\* The requests, by what they ask for.
LEMMA RequestCases ==
  ASSUME NEW w \in Workers, Request(w)
  PROVE  \/ \E s \in Sessions : StartInventory(w, s)
         \/ \E s \in Sessions, op \in {"apply", "cancel", "count"}, p \in Int, n \in Int :
              Open(w, op, s, p, n) /\ (op = "count" => p \in Products)
         \/ \E p \in Products, n \in Moves : Move(w, p, n)
<1>1. ASSUME NEW s \in Sessions, Open(w, "apply", s, 0, 0) \/ Open(w, "cancel", s, 0, 0)
      PROVE  \E op \in {"apply", "cancel", "count"}, p \in Int, n \in Int :
               Open(w, op, s, p, n) /\ (op = "count" => p \in Products)
  BY <1>1
<1>2. ASSUME NEW s \in Sessions, NEW p \in Products, NEW n \in Quantities, Open(w, "count", s, p, n)
      PROVE  \E op \in {"apply", "cancel", "count"}, q \in Int, m \in Int :
               Open(w, op, s, q, m) /\ (op = "count" => q \in Products)
  <2>1. p \in Int /\ n \in Int
    BY StocktakingAssumption DEF Products
  <2>2. QED
    BY <1>2, <2>1
<1>3. QED
  BY <1>1, <1>2 DEF Request

LEMMA TypeStep ==
  ASSUME CountTypeOK, [Next]_vars
  PROVE  CountTypeOK'
<1>1. ASSUME NEW w \in Workers, NEW s \in Sessions, StartInventory(w, s)
      PROVE  CountTypeOK'
  <2>1. PICK work \in Job : Accept(w, work, "starting")
    BY <1>1, Starts
  <2>2. /\ pc'[w] = "starting"
        /\ \A v \in Workers \ {w} : pc'[v] = pc[v] /\ job'[v] = job[v]
        /\ pc' \in [Workers -> Stages] /\ job' \in [Workers -> Job]
    BY <2>1, Accepting DEF Stages
  <2>3. drifted' \in [Sessions -> SUBSET Products] /\ UNCHANGED <<stock, ledger, session, adjusted>>
    BY <1>1 DEF StartInventory, CountTypeOK
  <2>4. QED
    BY <2>2, <2>3 DEF CountTypeOK
<1>2. ASSUME NEW w \in Workers, NEW s \in Sessions, NEW op \in {"apply", "cancel", "count"},
             NEW p \in Int, NEW n \in Int, Open(w, op, s, p, n), op = "count" => p \in Products
      PROVE  CountTypeOK'
  <2>1. PICK work \in Job : Accept(w, work, "opened") /\ work.op = op /\ work.product = p
    BY <1>2, Opens
  <2>2. /\ pc'[w] = "opened" /\ job'[w] = work
        /\ \A v \in Workers \ {w} : pc'[v] = pc[v] /\ job'[v] = job[v]
        /\ pc' \in [Workers -> Stages] /\ job' \in [Workers -> Job]
    BY <2>1, Accepting DEF Stages
  <2>3. UNCHANGED <<stock, ledger, session, adjusted, drifted>>
    BY <1>2 DEF Open
  <2>4. QED
    BY <1>2, <2>1, <2>2, <2>3 DEF CountTypeOK
<1>3. ASSUME NEW w \in Workers, NEW p \in Products, NEW n \in Moves, Move(w, p, n)
      PROVE  CountTypeOK'
  <2>1. PICK work \in Job : Accept(w, work, "moving") /\ work.product = p
    BY <1>3, MoveStarts
  <2>2. /\ pc'[w] = "moving" /\ job'[w] = work
        /\ \A v \in Workers \ {w} : pc'[v] = pc[v] /\ job'[v] = job[v]
        /\ pc' \in [Workers -> Stages] /\ job' \in [Workers -> Job]
    BY <2>1, Accepting DEF Stages
  <2>3. UNCHANGED <<stock, ledger, session, adjusted, drifted>>
    BY <1>3 DEF Move
  <2>4. QED
    BY <2>1, <2>2, <2>3 DEF CountTypeOK
<1>4. ASSUME NEW w \in Workers, LoadItems(w)
      PROVE  CountTypeOK'
  <2>1. job[w] \in Job /\ session[job[w].session].items \in Items
    BY DEF CountTypeOK, Job, Session
  <2>2. [job[w] EXCEPT !.items = session[job[w].session].items] \in Job
    BY <2>1 DEF Job
  <2>3. /\ job' \in [Workers -> Job] /\ pc' \in [Workers -> Stages]
        /\ job'[w].op = "apply" /\ pc'[w] = "applying"
        /\ \A v \in Workers \ {w} : pc'[v] = pc[v] /\ job'[v] = job[v]
    BY <1>4, <2>1, <2>2 DEF LoadItems, CountTypeOK, Stages, Job
  <2>4. UNCHANGED <<stock, ledger, session, adjusted, drifted>>
    BY <1>4 DEF LoadItems
  <2>5. QED
    BY <2>3, <2>4 DEF CountTypeOK
<1>5. ASSUME NEW w \in Workers, UpsertItem(w)
      PROVE  CountTypeOK'
  BY <1>5 DEF UpsertItem, CountTypeOK
<1>6. ASSUME NEW w \in Workers, Done(w),
             stock' \in [Products -> Int] /\ ledger' \in [Products -> Int],
             session' \in [Sessions -> Session], drifted' \in [Sessions -> SUBSET Products],
             adjusted' \in [Sessions -> Nat]
      PROVE  CountTypeOK'
  BY <1>6, Leaving DEF CountTypeOK
<1>7. ASSUME NEW w \in Workers, CreateInventory(w) \/ CancelInventory(w)
      PROVE  CountTypeOK'
  <2>1. job[w].items \in Items /\ job[w].session \in Sessions
    BY DEF CountTypeOK, Job
  <2>2. CASE CreateInventory(w)
    <3>1. [status |-> "in_progress", items |-> job[w].items] \in Session
      BY <2>1 DEF Session, Statuses
    <3>2. session' \in [Sessions -> Session]
      BY <2>1, <2>2, <3>1 DEF CreateInventory, CountTypeOK
    <3>3. QED
      BY <1>6, <2>2, <3>2 DEF CreateInventory, CountTypeOK
  <2>3. CASE CancelInventory(w)
    <3>1. [session[job[w].session] EXCEPT !.status = "cancelled"] \in Session
      BY <2>1 DEF CountTypeOK, Session, Statuses
    <3>2. session' \in [Sessions -> Session]
      BY <2>1, <2>3, <3>1 DEF CancelInventory, CountTypeOK
    <3>3. QED
      BY <1>6, <2>3, <3>2 DEF CancelInventory, CountTypeOK
  <2>4. QED
    BY <1>7, <2>2, <2>3
<1>8. ASSUME NEW w \in Workers, CountItem(w)
      PROVE  CountTypeOK'
  <2> DEFINE s == job[w].session
  <2> DEFINE p == job[w].product
  <2>1. /\ s \in Sessions /\ p \in Products /\ job[w].amount \in Int
        /\ session[s] \in Session
    BY <1>8 DEF CountItem, CountTypeOK, Job
  <2>2. session[s].items[p] \in Item
    BY <2>1 DEF Session, Items
  <2>3. [session[s].items[p] EXCEPT !.counted = TRUE, !.actual = job[w].amount] \in Item
    BY <2>1, <2>2 DEF Item
  <2>4. session' = [session EXCEPT ![s].items[p] =
                      [@ EXCEPT !.counted = TRUE, !.actual = job[w].amount]]
    BY <1>8 DEF CountItem
  <2>5. session' \in [Sessions -> Session]
    BY <2>1, <2>3, <2>4 DEF CountTypeOK, Session, Items
  <2>6. QED
    BY <1>6, <1>8, <2>5 DEF CountItem, CountTypeOK
<1>9. ASSUME NEW w \in Workers, RefuseUncounted(w) \/ Rollback(w)
      PROVE  CountTypeOK'
  BY <1>6, <1>9 DEF RefuseUncounted, Rollback, CountTypeOK
<1>10. ASSUME NEW w \in Workers, ApplyInventory(w)
       PROVE  CountTypeOK'
  <2>1. job[w].session \in Sessions /\ \A p \in Products : job[w].items[p] \in Item
    BY DEF CountTypeOK, Job, Items
  <2>2. \A p \in Products : Discrepancy(job[w].items[p]) \in Int /\ job[w].items[p].actual \in Int
    BY <2>1 DEF Discrepancy, Item
  <2>3. stock' \in [Products -> Int] /\ ledger' \in [Products -> Int]
    BY <1>10, <2>2 DEF ApplyInventory, CountTypeOK
  <2>a. [session[job[w].session] EXCEPT !.status = "applied"] \in Session
    BY <2>1 DEF CountTypeOK, Session, Statuses
  <2>4. session' \in [Sessions -> Session] /\ adjusted' \in [Sessions -> Nat]
    BY <1>10, <2>1, <2>a DEF ApplyInventory, CountTypeOK
  <2>5. drifted' \in [Sessions -> SUBSET Products]
    BY <1>10 DEF ApplyInventory, Outdate, Differing, CountTypeOK
  <2>6. QED
    BY <1>6, <1>10, <2>3, <2>4, <2>5 DEF ApplyInventory
<1>11. ASSUME NEW w \in Workers, CommitMove(w)
       PROVE  CountTypeOK'
  <2>m. pc[w] = "moving"
    BY <1>11 DEF CommitMove
  <2>a. job[w].product \in Products
    BY <2>m DEF CountTypeOK
  <2>1. job[w].quantity \in Int /\ job[w].amount \in Int
    BY DEF CountTypeOK, Job
  <2>2. stock' \in [Products -> Int] /\ ledger' \in [Products -> Int]
    BY <1>11, <2>a, <2>1 DEF CommitMove, CountTypeOK
  <2>3. drifted' \in [Sessions -> SUBSET Products]
    BY <1>11, <2>a DEF CommitMove, Outdate, CountTypeOK
  <2>4. QED
    BY <1>6, <1>11, <2>2, <2>3 DEF CommitMove, CountTypeOK
<1>12. CASE UNCHANGED vars
  BY <1>12 DEF vars, CountTypeOK
<1>13. QED
  BY <1>1, <1>2, <1>3, <1>4, <1>5, <1>7, <1>8, <1>9, <1>10, <1>11, <1>12, RequestCases
     DEF Next, Progress

(* Every reachable state of the stocktaking has the types of its tables, and *)
(* a handler that counts or moves a product names one that exists.           *)
THEOREM CountTypeCorrect == Spec => []CountTypeOK
<1>1. Init => CountTypeOK
  <2>1. Blank \in Items
    BY DEF Blank, Items, Item
  <2>2. QED
    BY <2>1, IdleIsAJob, StocktakingAssumption
       DEF Init, CountTypeOK, Stages, Session, Statuses, Idle
<1>2. CountTypeOK /\ [Next]_vars => CountTypeOK'
  BY TypeStep
<1>3. QED
  BY <1>1, <1>2, PTL DEF Spec

-----------------------------------------------------------------------------
(* The life of a session *)

\* One handler starts a session that is not there; all others work on
\* sessions that are.
StatusInv ==
    \A w \in Workers :
      /\ pc[w] = "starting" =>
           /\ session[job[w].session].status = "absent"
           /\ \A v \in Workers \ {w} :
                pc[v] = "starting" => job[v].session # job[w].session
      /\ pc[w] \in {"opened", "applying"} => session[job[w].session].status # "absent"

\* What CountItem does to the rows.
LEMMA CountWrites ==
  ASSUME CountTypeOK, NEW w \in Workers, CountItem(w)
  PROVE  /\ job[w].session \in Sessions
         /\ \A s \in Sessions : session'[s].status = session[s].status
         /\ \A s \in Sessions, p \in Products :
              /\ session'[s].items[p].expected = session[s].items[p].expected
              /\ s # job[w].session \/ p # job[w].product
                   => session'[s].items[p] = session[s].items[p]
<1> DEFINE s == job[w].session
<1> DEFINE p == job[w].product
<1> DEFINE item == [session[s].items[p] EXCEPT !.counted = TRUE, !.actual = job[w].amount]
<1>0. pc[w] = "opened" /\ job[w].op = "count"
  BY DEF CountItem
<1>1. /\ s \in Sessions /\ p \in Products /\ session[s] \in Session
      /\ session \in [Sessions -> Session]
  BY <1>0 DEF CountTypeOK, Job
<1>2. session[s].items \in Items /\ session[s].items[p] \in Item
  BY <1>1 DEF Session, Items
<1>3. item.expected = session[s].items[p].expected
  BY <1>2 DEF Item
<1>4. session' = [session EXCEPT ![s].items[p] = item]
  BY DEF CountItem
<1> HIDE DEF item, s, p
<1>5. session'[s] = [session[s] EXCEPT !.items[p] = item]
  BY <1>1, <1>4
<1>6. /\ session'[s].status = session[s].status
      /\ session'[s].items = [session[s].items EXCEPT ![p] = item]
  BY <1>1, <1>5 DEF Session
<1>7. \A x \in Sessions \ {s} : session'[x] = session[x]
  BY <1>1, <1>4
<1>8. /\ session'[s].items[p] = item
      /\ \A q \in Products \ {p} : session'[s].items[q] = session[s].items[q]
  BY <1>1, <1>2, <1>6 DEF Items
<1>9. QED
  BY <1>1, <1>3, <1>6, <1>7, <1>8 DEF s, p

\* What the end of a session does to the rows.
LEMMA StatusWrites ==
  ASSUME CountTypeOK, NEW s \in Sessions, NEW status,
         session' = [session EXCEPT ![s].status = status]
  PROVE  /\ session'[s].status = status
         /\ \A x \in Sessions \ {s} : session'[x] = session[x]
         /\ \A x \in Sessions : session'[x].items = session[x].items
<1>1. session[s] \in Session /\ session \in [Sessions -> Session]
  BY DEF CountTypeOK
<1>2. session'[s] = [session[s] EXCEPT !.status = status]
  BY <1>1
<1>3. session'[s].status = status /\ session'[s].items = session[s].items
  BY <1>1, <1>2 DEF Session
<1>4. QED
  BY <1>1, <1>3

LEMMA StatusLeaving ==
  ASSUME CountTypeOK, StatusInv, NEW w \in Workers, Done(w),
         \A s \in Sessions : session'[s].status = "absent" <=> session[s].status = "absent"
  PROVE  StatusInv'
<1>1. \A v \in Workers : job[v].session \in Sessions
  BY DEF CountTypeOK, Job
<1>2. /\ pc'[w] = "idle"
      /\ \A v \in Workers \ {w} : pc'[v] = pc[v] /\ job'[v] = job[v]
  BY Leaving
<1>3. QED
  BY <1>1, <1>2 DEF StatusInv

LEMMA StatusStep ==
  ASSUME CountTypeOK, StatusInv, [Next]_vars
  PROVE  StatusInv'
<1>a. \A v \in Workers : job[v].session \in Sessions
  BY DEF CountTypeOK, Job
<1>1. ASSUME NEW w \in Workers, NEW s \in Sessions, StartInventory(w, s)
      PROVE  StatusInv'
  <2>1. PICK work \in Job : Accept(w, work, "starting") /\ work.session = s
    BY <1>1, Starts
  <2>2. /\ pc'[w] = "starting" /\ job'[w].session = s
        /\ \A v \in Workers \ {w} : pc'[v] = pc[v] /\ job'[v] = job[v]
    BY <2>1, Accepting DEF Stages
  <2>3. /\ session' = session /\ session[s].status = "absent"
        /\ \A v \in Workers : ~(pc[v] = "starting" /\ job[v].session = s)
    BY <1>1 DEF StartInventory
  <2>4. QED
    BY <2>2, <2>3 DEF StatusInv
<1>2. ASSUME NEW w \in Workers, NEW s \in Sessions, NEW op \in {"apply", "cancel", "count"},
             NEW p \in Int, NEW n \in Int, Open(w, op, s, p, n)
      PROVE  StatusInv'
  <2>1. PICK work \in Job : Accept(w, work, "opened") /\ work.session = s
    BY <1>2, Opens
  <2>2. /\ pc'[w] = "opened" /\ job'[w].session = s
        /\ \A v \in Workers \ {w} : pc'[v] = pc[v] /\ job'[v] = job[v]
    BY <2>1, Accepting DEF Stages
  <2>3. session' = session /\ session[s].status = "in_progress"
    BY <1>2 DEF Open
  <2>4. QED
    BY <2>2, <2>3 DEF StatusInv
<1>3. ASSUME NEW w \in Workers, NEW p \in Products, NEW n \in Moves, Move(w, p, n)
      PROVE  StatusInv'
  <2>1. PICK work \in Job : Accept(w, work, "moving")
    BY <1>3, MoveStarts
  <2>2. /\ pc'[w] = "moving"
        /\ \A v \in Workers \ {w} : pc'[v] = pc[v] /\ job'[v] = job[v]
    BY <2>1, Accepting DEF Stages
  <2>3. session' = session
    BY <1>3 DEF Move
  <2>4. QED
    BY <2>2, <2>3 DEF StatusInv
<1>4. ASSUME NEW w \in Workers, CreateInventory(w)
      PROVE  StatusInv'
  <2>1. /\ pc[w] = "starting" /\ Done(w)
        /\ session' = [session EXCEPT ![job[w].session] =
                         [status |-> "in_progress", items |-> job[w].items]]
    BY <1>4 DEF CreateInventory
  <2>2. /\ pc'[w] = "idle"
        /\ \A v \in Workers \ {w} : pc'[v] = pc[v] /\ job'[v] = job[v]
    BY <2>1, Leaving
  <2>3. /\ session'[job[w].session].status = "in_progress"
        /\ \A s \in Sessions \ {job[w].session} : session'[s] = session[s]
    BY <1>a, <2>1 DEF CountTypeOK
  <2>4. QED
    BY <1>a, <2>1, <2>2, <2>3 DEF StatusInv
<1>5. ASSUME NEW w \in Workers, LoadItems(w)
      PROVE  StatusInv'
  <2>1. /\ pc[w] = "opened" /\ pc'[w] = "applying" /\ session' = session
        /\ \A v \in Workers \ {w} : pc'[v] = pc[v] /\ job'[v] = job[v]
    BY <1>5 DEF LoadItems, CountTypeOK
  <2>2. job'[w].session = job[w].session
    BY <1>5 DEF LoadItems, CountTypeOK, Job
  <2>3. QED
    BY <2>1, <2>2 DEF StatusInv
<1>6. ASSUME NEW w \in Workers, UpsertItem(w)
      PROVE  StatusInv'
  <2>1. UNCHANGED <<session, pc, job>>
    BY <1>6 DEF UpsertItem
  <2>2. QED
    BY <2>1 DEF StatusInv
<1>7. ASSUME NEW w \in Workers, CountItem(w)
      PROVE  StatusInv'
  <2>1. Done(w) /\ \A s \in Sessions : session'[s].status = session[s].status
    BY <1>7, CountWrites DEF CountItem
  <2>2. QED
    BY <2>1, StatusLeaving
<1>8. ASSUME NEW w \in Workers, CancelInventory(w) \/ ApplyInventory(w)
      PROVE  StatusInv'
  <2>1. /\ pc[w] \in {"opened", "applying"} /\ Done(w)
        /\ \E status \in {"cancelled", "applied"} :
             session' = [session EXCEPT ![job[w].session].status = status]
    BY <1>8 DEF CancelInventory, ApplyInventory
  <2>2. session[job[w].session].status # "absent"
    BY <2>1 DEF StatusInv
  <2>3. \A s \in Sessions : session'[s].status = "absent" <=> session[s].status = "absent"
    BY <1>a, <2>1, <2>2, StatusWrites
  <2>4. QED
    BY <2>1, <2>3, StatusLeaving
<1>9. ASSUME NEW w \in Workers, RefuseUncounted(w) \/ CommitMove(w) \/ Rollback(w)
      PROVE  StatusInv'
  <2>1. Done(w) /\ session' = session
    BY <1>9 DEF RefuseUncounted, CommitMove, Rollback
  <2>2. QED
    BY <2>1, StatusLeaving
<1>10. CASE UNCHANGED vars
  BY <1>10 DEF vars, StatusInv
<1>11. QED
  BY <1>1, <1>2, <1>3, <1>4, <1>5, <1>6, <1>7, <1>8, <1>9, <1>10, RequestCases
     DEF Next, Progress

LEMMA SessionsLive == Spec => []StatusInv
<1>1. Init => StatusInv
  BY DEF Init, StatusInv
<1>2. CountTypeOK /\ StatusInv /\ [Next]_vars => StatusInv'
  BY StatusStep
<1>3. QED
  BY <1>1, <1>2, CountTypeCorrect, PTL DEF Spec

-----------------------------------------------------------------------------
(* Movements and counts *)

\* What a session, or a handler on its way to store or apply one, expects of a
\* product is its stock, unless a commit has changed that since the snapshot.
SnapshotInv ==
    /\ \A s \in Sessions, p \in Products :
         p \in drifted[s] \/ session[s].status = "absent"
         \/ session[s].items[p].expected = stock[p]
    /\ \A w \in Workers, p \in Products :
         pc[w] \in {"starting", "applying"} =>
           p \in drifted[job[w].session] \/ job[w].items[p].expected = stock[p]

\* The quantity a movement has read is the stock, unless it is outdated.
MoveInv ==
    \A w \in Workers :
      pc[w] = "moving" => w \in outdated \/ job[w].quantity = stock[job[w].product]

CountInv == SnapshotInv /\ MoveInv /\ LedgerExplainsCounts

\* A handler ends, and whoever read what it has changed is told.
LEMMA EndingTells ==
  ASSUME CountTypeOK, SnapshotInv, MoveInv, NEW w \in Workers, Done(w),
         NEW touched,
         \A p \in Products : p \in touched \/ stock'[p] = stock[p],
         \A s \in Sessions : drifted[s] \subseteq drifted'[s] /\ touched \subseteq drifted'[s],
         \A v \in Workers \ {w} :
           v \in outdated \/ (pc[v] = "moving" /\ job[v].product \in touched) => v \in outdated',
         \A s \in Sessions, p \in Products :
           \/ p \in drifted'[s]
           \/ session'[s].status = "absent"
           \/ session'[s].items[p].expected = stock[p]
  PROVE  SnapshotInv' /\ MoveInv'
<1>1. \A v \in Workers : job[v].session \in Sessions /\ (pc[v] = "moving" => job[v].product \in Products)
  BY DEF CountTypeOK, Job
<1>2. /\ pc'[w] = "idle"
      /\ \A v \in Workers \ {w} : pc'[v] = pc[v] /\ job'[v] = job[v]
  BY Leaving
<1>3. \A s \in Sessions, p \in Products : p \in drifted'[s] \/ stock'[p] = stock[p]
  OBVIOUS
<1>4. \A v \in Workers, p \in Products :
        pc'[v] \in {"starting", "applying"} =>
          p \in drifted'[job'[v].session] \/ job'[v].items[p].expected = stock'[p]
  BY <1>1, <1>2, <1>3 DEF SnapshotInv
<1>5. \A s \in Sessions, p \in Products :
        p \in drifted'[s] \/ session'[s].status = "absent"
        \/ session'[s].items[p].expected = stock'[p]
  BY <1>3
<1>6. \A v \in Workers :
        pc'[v] = "moving" => v \in outdated' \/ job'[v].quantity = stock'[job'[v].product]
  BY <1>1, <1>2 DEF MoveInv
<1>7. QED
  BY <1>4, <1>5, <1>6 DEF SnapshotInv, MoveInv

\* It changed no quantity.
LEMMA EndingQuietly ==
  ASSUME CountTypeOK, CountInv, NEW w \in Workers, Done(w),
         UNCHANGED <<stock, ledger, drifted, unexplained>>,
         outdated' = outdated \/ outdated' = outdated \ {w},
         \A s \in Sessions, p \in Products :
           \/ session'[s].status = "absent"
           \/ /\ session[s].status # "absent"
              /\ session'[s].items[p].expected = session[s].items[p].expected
  PROVE  CountInv'
<1> DEFINE touched == {}
<1>1. \A s \in Sessions, p \in Products :
        \/ p \in drifted'[s]
        \/ session'[s].status = "absent"
        \/ session'[s].items[p].expected = stock[p]
  BY DEF CountInv, SnapshotInv
<1>2. \A s \in Sessions : drifted[s] \subseteq drifted'[s] /\ touched \subseteq drifted'[s]
  OBVIOUS
<1>3. \A v \in Workers \ {w} :
        v \in outdated \/ (pc[v] = "moving" /\ job[v].product \in touched) => v \in outdated'
  OBVIOUS
<1>a. \A p \in Products : p \in touched \/ stock'[p] = stock[p]
  OBVIOUS
<1> HIDE DEF touched
<1>4. SnapshotInv' /\ MoveInv'
  BY <1>1, <1>2, <1>3, <1>a, EndingTells DEF CountInv
<1>5. QED
  BY <1>4 DEF CountInv, LedgerExplainsCounts

\* A request is admitted.
LEMMA AdmittingQuietly ==
  ASSUME CountTypeOK, CountInv, NEW w \in Workers, NEW work \in Job, NEW at \in {"opened", "moving"},
         Accept(w, work, at), UNCHANGED <<rows, history>>,
         at = "moving" => work.quantity = stock[work.product]
  PROVE  CountInv'
<1>1. /\ pc'[w] = at /\ job'[w] = work
      /\ \A v \in Workers \ {w} : pc'[v] = pc[v] /\ job'[v] = job[v]
  BY Accepting DEF Stages
<1>2. SnapshotInv'
  BY <1>1 DEF CountInv, SnapshotInv
<1>3. MoveInv'
  BY <1>1 DEF CountInv, MoveInv
<1>4. QED
  BY <1>2, <1>3 DEF CountInv, LedgerExplainsCounts

LEMMA CountStep ==
  ASSUME CountTypeOK, StatusInv, CountInv, [Next]_vars
  PROVE  CountInv'
<1>a. \A v \in Workers : job[v].session \in Sessions
  BY DEF CountTypeOK, Job
<1>1. ASSUME NEW w \in Workers, NEW s \in Sessions, StartInventory(w, s)
      PROVE  CountInv'
  <2>1. PICK work \in Job : /\ Accept(w, work, "starting")
                            /\ work.session = s /\ work.items = Snapshot
    BY <1>1, Starts
  <2>2. /\ pc'[w] = "starting" /\ job'[w] = work
        /\ \A v \in Workers \ {w} : pc'[v] = pc[v] /\ job'[v] = job[v]
    BY <2>1, Accepting DEF Stages
  <2>3. /\ UNCHANGED <<stock, ledger, session, outdated, unexplained>>
        /\ session[s].status = "absent"
        /\ \A v \in Workers : ~(pc[v] = "starting" /\ job[v].session = s)
        /\ \A x \in Sessions \ {s} : drifted'[x] = drifted[x]
    BY <1>1 DEF StartInventory, CountTypeOK
  <2>4. \A v \in Workers : pc[v] \in {"starting", "applying"} => job[v].session # s
    BY <2>3 DEF StatusInv
  <2>5. \A p \in Products : job'[w].items[p].expected = stock[p]
    BY <2>1, <2>2 DEF Snapshot
  <2>6. ASSUME NEW v \in Workers, NEW p \in Products, pc'[v] \in {"starting", "applying"}
        PROVE  p \in drifted'[job'[v].session] \/ job'[v].items[p].expected = stock'[p]
    <3>1. CASE v = w
      BY <2>3, <2>5, <3>1
    <3>2. CASE v # w
      BY <1>a, <2>2, <2>3, <2>4, <2>6, <3>2 DEF CountInv, SnapshotInv
    <3>3. QED
      BY <3>1, <3>2
  <2>7. SnapshotInv'
    BY <2>3, <2>6 DEF CountInv, SnapshotInv
  <2>8. MoveInv'
    BY <2>2, <2>3 DEF CountInv, MoveInv
  <2>9. QED
    BY <2>3, <2>7, <2>8 DEF CountInv, LedgerExplainsCounts
<1>2. ASSUME NEW w \in Workers, NEW s \in Sessions, NEW op \in {"apply", "cancel", "count"},
             NEW p \in Int, NEW n \in Int, Open(w, op, s, p, n)
      PROVE  CountInv'
  <2>1. PICK work \in Job : Accept(w, work, "opened")
    BY <1>2, Opens
  <2>2. UNCHANGED <<rows, history>>
    BY <1>2 DEF Open
  <2>3. QED
    BY <2>1, <2>2, AdmittingQuietly
<1>3. ASSUME NEW w \in Workers, NEW p \in Products, NEW n \in Moves, Move(w, p, n)
      PROVE  CountInv'
  <2>1. PICK work \in Job : Accept(w, work, "moving") /\ work.product = p /\ work.quantity = stock[p]
    BY <1>3, MoveStarts
  <2>2. UNCHANGED <<rows, history>>
    BY <1>3 DEF Move
  <2>3. QED
    BY <2>1, <2>2, AdmittingQuietly
<1>4. ASSUME NEW w \in Workers, CreateInventory(w)
      PROVE  CountInv'
  <2>1. /\ pc[w] = "starting" /\ Done(w)
        /\ session' = [session EXCEPT ![job[w].session] =
                         [status |-> "in_progress", items |-> job[w].items]]
        /\ UNCHANGED <<stock, ledger, drifted, outdated, unexplained>>
    BY <1>4 DEF CreateInventory
  <2>2. /\ session'[job[w].session].items = job[w].items
        /\ \A s \in Sessions \ {job[w].session} : session'[s] = session[s]
    BY <1>a, <2>1 DEF CountTypeOK
  <2>3. \A p \in Products : p \in drifted[job[w].session] \/ job[w].items[p].expected = stock[p]
    BY <2>1 DEF CountInv, SnapshotInv
  <2>4. \A s \in Sessions, p \in Products :
          \/ p \in drifted[s]
          \/ session'[s].status = "absent"
          \/ session'[s].items[p].expected = stock[p]
    BY <2>2, <2>3 DEF CountInv, SnapshotInv
  <2>5. /\ pc'[w] = "idle"
        /\ \A v \in Workers \ {w} : pc'[v] = pc[v] /\ job'[v] = job[v]
    BY <2>1, Leaving
  <2>6. SnapshotInv'
    BY <2>1, <2>4, <2>5 DEF CountInv, SnapshotInv
  <2>7. MoveInv'
    BY <2>1, <2>5 DEF CountInv, MoveInv
  <2>8. QED
    BY <2>1, <2>6, <2>7 DEF CountInv, LedgerExplainsCounts
<1>5. ASSUME NEW w \in Workers, LoadItems(w)
      PROVE  CountInv'
  <2>1. /\ pc[w] = "opened" /\ pc'[w] = "applying"
        /\ UNCHANGED <<stock, ledger, session, drifted, outdated, unexplained>>
        /\ \A v \in Workers \ {w} : pc'[v] = pc[v] /\ job'[v] = job[v]
    BY <1>5 DEF LoadItems, CountTypeOK
  <2>2. job'[w].session = job[w].session /\ job'[w].items = session[job[w].session].items
    BY <1>5 DEF LoadItems, CountTypeOK, Job
  <2>3. session[job[w].session].status # "absent"
    BY <2>1 DEF StatusInv
  <2>4. \A p \in Products : p \in drifted[job[w].session] \/ job'[w].items[p].expected = stock[p]
    BY <1>a, <2>2, <2>3 DEF CountInv, SnapshotInv
  <2>5. SnapshotInv'
    BY <2>1, <2>2, <2>4 DEF CountInv, SnapshotInv
  <2>6. MoveInv'
    BY <2>1 DEF CountInv, MoveInv
  <2>7. QED
    BY <2>1, <2>5, <2>6 DEF CountInv, LedgerExplainsCounts
<1>6. ASSUME NEW w \in Workers, UpsertItem(w)
      PROVE  CountInv'
  <2>1. UNCHANGED <<stock, ledger, session, pc, job, drifted, outdated, unexplained>>
    BY <1>6 DEF UpsertItem
  <2>2. QED
    BY <2>1 DEF CountInv, SnapshotInv, MoveInv, LedgerExplainsCounts
<1>7. ASSUME NEW w \in Workers, CountItem(w)
      PROVE  CountInv'
  <2>1. Done(w) /\ UNCHANGED <<stock, ledger, drifted, outdated, unexplained>>
    BY <1>7 DEF CountItem
  <2>2. \A s \in Sessions, p \in Products :
          /\ session'[s].status = session[s].status
          /\ session'[s].items[p].expected = session[s].items[p].expected
    BY <1>7, CountWrites
  <2>3. QED
    BY <2>1, <2>2, EndingQuietly
<1>8. ASSUME NEW w \in Workers, CancelInventory(w)
      PROVE  CountInv'
  <2>1. /\ Done(w) /\ UNCHANGED <<stock, ledger, drifted, outdated, unexplained>>
        /\ session' = [session EXCEPT ![job[w].session].status = "cancelled"]
        /\ session[job[w].session].status # "absent"
    BY <1>8 DEF CancelInventory, StatusInv
  <2>2. /\ \A s \in Sessions \ {job[w].session} : session'[s] = session[s]
        /\ \A s \in Sessions : session'[s].items = session[s].items
    BY <1>a, <2>1, StatusWrites
  <2>3. QED
    BY <2>1, <2>2, EndingQuietly
<1>9. ASSUME NEW w \in Workers, RefuseUncounted(w) \/ Rollback(w)
      PROVE  CountInv'
  <2>1. /\ Done(w) /\ UNCHANGED <<stock, ledger, session, drifted, unexplained>>
        /\ outdated' = outdated \/ outdated' = outdated \ {w}
    BY <1>9 DEF RefuseUncounted, Rollback
  <2>2. QED
    BY <2>1, EndingQuietly
<1>10. ASSUME NEW w \in Workers, ApplyInventory(w)
       PROVE  CountInv'
  <2> DEFINE s == job[w].session
  <2> DEFINE touched == Differing(w)
  <2>1. /\ pc[w] = "applying" /\ Done(w) /\ Outdate(w, touched)
        /\ session' = [session EXCEPT ![s].status = "applied"]
        /\ unexplained' = unexplained \cup (touched \cap drifted[s])
        /\ \A p \in Products :
             /\ stock'[p] = IF p \in touched THEN job[w].items[p].actual ELSE stock[p]
             /\ ledger'[p] = ledger[p] + Discrepancy(job[w].items[p])
    BY <1>10 DEF ApplyInventory
  <2>2. /\ session[s].status # "absent"
        /\ \A x \in Sessions \ {s} : session'[x] = session[x]
        /\ \A x \in Sessions : session'[x].items = session[x].items
    BY <1>a, <2>1, StatusWrites DEF StatusInv
  <2>3. \A p \in Products : job[w].items[p] \in Item /\ stock[p] \in Int /\ ledger[p] \in Int
    BY DEF CountTypeOK, Job, Items
  <2>4. \A p \in Products : p \in drifted[s] \/ job[w].items[p].expected = stock[p]
    BY <2>1 DEF CountInv, SnapshotInv
  <2>5. ASSUME NEW p \in Products, p \notin unexplained'
        PROVE  stock'[p] = ledger'[p]
    <3>1. stock[p] = ledger[p]
      BY <2>1, <2>5 DEF CountInv, LedgerExplainsCounts
    <3>2. CASE p \in touched
      <4>1. job[w].items[p].expected = stock[p] /\ stock'[p] = job[w].items[p].actual
        BY <2>1, <2>4, <2>5, <3>2
      <4>2. Discrepancy(job[w].items[p]) = job[w].items[p].actual - job[w].items[p].expected
        BY <3>2 DEF Differing, Discrepancy
      <4>3. job[w].items[p].actual \in Int /\ job[w].items[p].expected \in Int
        BY <2>3 DEF Item
      <4>4. ledger'[p] = ledger[p] + Discrepancy(job[w].items[p])
        BY <2>1
      <4>5. QED
        BY <2>3, <3>1, <4>1, <4>2, <4>3, <4>4
    <3>3. CASE p \notin touched
      <4>1. Discrepancy(job[w].items[p]) = 0
        BY <3>3 DEF Differing
      <4>2. stock'[p] = stock[p] /\ ledger'[p] = ledger[p] + 0
        BY <2>1, <3>3, <4>1
      <4>3. QED
        BY <2>3, <3>1, <4>2
    <3>4. QED
      BY <3>2, <3>3
  <2> HIDE DEF touched, s
  <2>6. \A x \in Sessions : drifted[x] \subseteq drifted'[x] /\ touched \subseteq drifted'[x]
    BY <2>1 DEF Outdate
  <2>7. \A v \in Workers \ {w} :
          v \in outdated \/ (pc[v] = "moving" /\ job[v].product \in touched) => v \in outdated'
    BY <2>1 DEF Outdate
  <2>8. \A x \in Sessions, p \in Products :
          \/ p \in drifted'[x]
          \/ session'[x].status = "absent"
          \/ session'[x].items[p].expected = stock[p]
    BY <2>2, <2>6 DEF CountInv, SnapshotInv
  <2>9. \A p \in Products : p \in touched \/ stock'[p] = stock[p]
    BY <2>1
  <2>10. SnapshotInv' /\ MoveInv'
    BY <2>1, <2>6, <2>7, <2>8, <2>9, EndingTells DEF CountInv
  <2>11. QED
    BY <2>5, <2>10 DEF CountInv, LedgerExplainsCounts
<1>11. ASSUME NEW w \in Workers, CommitMove(w)
       PROVE  CountInv'
  <2> DEFINE p == job[w].product
  <2> DEFINE touched == {p}
  <2>1. /\ pc[w] = "moving" /\ Done(w) /\ Outdate(w, touched) /\ session' = session
        /\ unexplained' = IF w \in outdated THEN unexplained \cup {p} ELSE unexplained
        /\ stock' = [stock EXCEPT ![p] = job[w].quantity + job[w].amount]
        /\ ledger' = [ledger EXCEPT ![p] = @ + job[w].amount]
    BY <1>11 DEF CommitMove
  <2>2. p \in Products
    BY <2>1 DEF CountTypeOK
  <2>3. job[w].quantity \in Int /\ job[w].amount \in Int
    BY DEF CountTypeOK, Job
  <2>4. w \in outdated \/ job[w].quantity = stock[p]
    BY <2>1 DEF CountInv, MoveInv
  <2> HIDE DEF p
  <2>5. /\ stock'[p] = job[w].quantity + job[w].amount
        /\ ledger'[p] = ledger[p] + job[w].amount
        /\ \A q \in Products \ {p} : stock'[q] = stock[q] /\ ledger'[q] = ledger[q]
    BY <2>1, <2>2 DEF CountTypeOK
  <2>6. \A q \in Products : q \notin unexplained' => stock'[q] = ledger'[q]
    <3>1. unexplained \subseteq unexplained' /\ (w \in outdated => p \in unexplained')
      BY <2>1
    <3>2. \A q \in Products : q \notin unexplained => stock[q] = ledger[q]
      BY DEF CountInv, LedgerExplainsCounts
    <3>3. QED
      BY <2>2, <2>4, <2>5, <3>1, <3>2
  <2> HIDE DEF touched
  <2>7. \A x \in Sessions : drifted[x] \subseteq drifted'[x] /\ touched \subseteq drifted'[x]
    BY <2>1 DEF Outdate
  <2>8. \A v \in Workers \ {w} :
          v \in outdated \/ (pc[v] = "moving" /\ job[v].product \in touched) => v \in outdated'
    BY <2>1 DEF Outdate
  <2>9. \A x \in Sessions, q \in Products :
          \/ q \in drifted'[x]
          \/ session'[x].status = "absent"
          \/ session'[x].items[q].expected = stock[q]
    BY <2>1, <2>7 DEF CountInv, SnapshotInv
  <2>10. \A q \in Products : q \in touched \/ stock'[q] = stock[q]
    BY <2>5 DEF touched
  <2>11. SnapshotInv' /\ MoveInv'
    BY <2>1, <2>7, <2>8, <2>9, <2>10, EndingTells DEF CountInv
  <2>12. QED
    BY <2>6, <2>11 DEF CountInv, LedgerExplainsCounts
<1>12. CASE UNCHANGED vars
  BY <1>12 DEF vars, CountInv, SnapshotInv, MoveInv, LedgerExplainsCounts
<1>13. QED
  BY <1>1, <1>2, <1>3, <1>4, <1>5, <1>6, <1>7, <1>8, <1>9, <1>10, <1>11, <1>12, RequestCases
     DEF Next, Progress

LEMMA Counts == Spec => []CountInv
<1>1. Init => CountInv
  BY DEF Init, CountInv, SnapshotInv, MoveInv, LedgerExplainsCounts
<1>2. CountTypeOK /\ StatusInv /\ CountInv /\ [Next]_vars => CountInv'
  BY CountStep
<1>3. QED
  BY <1>1, <1>2, CountTypeCorrect, SessionsLive, PTL DEF Spec

(* The movements explain the stock of every product that no commit has       *)
(* written blindly: an application pairs the quantity it sets with count     *)
(* minus snapshot, and the snapshot is the stock until somebody moves it.    *)
THEOREM CountsExplained == Spec => []LedgerExplainsCounts
<1>1. CountInv => LedgerExplainsCounts
  BY DEF CountInv
<1>2. QED
  BY <1>1, Counts, PTL

-----------------------------------------------------------------------------
(* One application per session *)

Finalising(w) == pc[w] \in {"opened", "applying"} /\ job[w].op \in {"apply", "cancel"}

\* A handler about to finalise a session finds it in progress, unless another
\* one was there first.
OnceInv ==
    /\ \A w \in Workers :
         Finalising(w) => \/ job[w].session \in contested
                          \/ session[job[w].session].status = "in_progress"
    /\ OneApplicationPerSession

\* A step that finalises nothing.
LEMMA OthersFinalise ==
  ASSUME OnceInv,
         \A v \in Workers : job[v].session \in Sessions,
         \A v \in Workers : Finalising(v)' => Finalising(v) /\ job'[v].session = job[v].session,
         \A s \in Sessions : session'[s].status = session[s].status,
         UNCHANGED <<adjusted, contested>>
  PROVE  OnceInv'
  BY DEF OnceInv, OneApplicationPerSession

LEMMA OnceStep ==
  ASSUME CountTypeOK, StatusInv, OnceInv, [Next]_vars
  PROVE  OnceInv'
<1>a. \A v \in Workers : job[v].session \in Sessions
  BY DEF CountTypeOK, Job
<1>1. ASSUME NEW w \in Workers, NEW s \in Sessions, StartInventory(w, s)
      PROVE  OnceInv'
  <2>1. PICK work \in Job : Accept(w, work, "starting")
    BY <1>1, Starts
  <2>2. /\ pc'[w] = "starting"
        /\ \A v \in Workers \ {w} : pc'[v] = pc[v] /\ job'[v] = job[v]
    BY <2>1, Accepting DEF Stages
  <2>3. UNCHANGED <<session, adjusted, contested>>
    BY <1>1 DEF StartInventory
  <2>4. \A v \in Workers : Finalising(v)' => Finalising(v) /\ job'[v].session = job[v].session
    BY <2>2 DEF Finalising
  <2>5. QED
    BY <1>a, <2>3, <2>4, OthersFinalise
<1>2. ASSUME NEW w \in Workers, NEW s \in Sessions, NEW op \in {"apply", "cancel", "count"},
             NEW p \in Int, NEW n \in Int, Open(w, op, s, p, n)
      PROVE  OnceInv'
  <2>1. PICK work \in Job : Accept(w, work, "opened") /\ work.session = s
    BY <1>2, Opens
  <2>2. /\ job'[w].session = s
        /\ \A v \in Workers \ {w} : pc'[v] = pc[v] /\ job'[v] = job[v]
    BY <2>1, Accepting DEF Stages
  <2>3. UNCHANGED <<session, adjusted, contested>> /\ session[s].status = "in_progress"
    BY <1>2 DEF Open
  <2>4. QED
    BY <2>2, <2>3 DEF OnceInv, Finalising, OneApplicationPerSession
<1>3. ASSUME NEW w \in Workers, NEW p \in Products, NEW n \in Moves, Move(w, p, n)
      PROVE  OnceInv'
  <2>1. PICK work \in Job : Accept(w, work, "moving")
    BY <1>3, MoveStarts
  <2>2. /\ pc'[w] = "moving"
        /\ \A v \in Workers \ {w} : pc'[v] = pc[v] /\ job'[v] = job[v]
    BY <2>1, Accepting DEF Stages
  <2>3. UNCHANGED <<session, adjusted, contested>>
    BY <1>3 DEF Move
  <2>4. \A v \in Workers : Finalising(v)' => Finalising(v) /\ job'[v].session = job[v].session
    BY <2>2 DEF Finalising
  <2>5. QED
    BY <1>a, <2>3, <2>4, OthersFinalise
<1>4. ASSUME NEW w \in Workers, Done(w), UNCHANGED <<adjusted, contested>>,
             \A s \in Sessions : session'[s].status = session[s].status
      PROVE  OnceInv'
  <2>1. /\ pc'[w] = "idle"
        /\ \A v \in Workers \ {w} : pc'[v] = pc[v] /\ job'[v] = job[v]
    BY <1>4, Leaving
  <2>2. \A v \in Workers : Finalising(v)' => Finalising(v) /\ job'[v].session = job[v].session
    BY <2>1 DEF Finalising
  <2>3. QED
    BY <1>4, <1>a, <2>2, OthersFinalise
<1>5. ASSUME NEW w \in Workers, CountItem(w)
      PROVE  OnceInv'
  <2>1. /\ Done(w) /\ UNCHANGED <<adjusted, contested>>
        /\ \A s \in Sessions : session'[s].status = session[s].status
    BY <1>5, CountWrites DEF CountItem
  <2>2. QED
    BY <1>4, <2>1
<1>6. ASSUME NEW w \in Workers, RefuseUncounted(w) \/ CommitMove(w) \/ Rollback(w)
      PROVE  OnceInv'
  <2>1. Done(w) /\ UNCHANGED <<session, adjusted, contested>>
    BY <1>6 DEF RefuseUncounted, CommitMove, Rollback
  <2>2. QED
    BY <1>4, <2>1
<1>7. ASSUME NEW w \in Workers, CreateInventory(w)
      PROVE  OnceInv'
  <2> DEFINE s == job[w].session
  <2>1. /\ pc[w] = "starting" /\ Done(w) /\ UNCHANGED <<adjusted, contested>>
        /\ session' = [session EXCEPT ![s] = [status |-> "in_progress", items |-> job[w].items]]
    BY <1>7 DEF CreateInventory
  <2>2. /\ session[s].status = "absent" /\ session'[s].status = "in_progress"
        /\ \A x \in Sessions \ {s} : session'[x] = session[x]
    BY <1>a, <2>1 DEF StatusInv, CountTypeOK
  <2> HIDE DEF s
  <2>3. /\ pc'[w] = "idle"
        /\ \A v \in Workers \ {w} : pc'[v] = pc[v] /\ job'[v] = job[v]
    BY <2>1, Leaving
  <2>4. OneApplicationPerSession'
    BY <2>1, <2>2 DEF OnceInv, OneApplicationPerSession
  <2>5. ASSUME NEW v \in Workers, Finalising(v)'
        PROVE  job'[v].session \in contested' \/ session'[job'[v].session].status = "in_progress"
    <3>1. v # w /\ Finalising(v) /\ job'[v].session = job[v].session
      BY <2>3, <2>5 DEF Finalising
    <3>2. job[v].session \in contested \/ session[job[v].session].status = "in_progress"
      BY <3>1 DEF OnceInv
    <3>3. QED
      BY <1>a, <2>1, <2>2, <3>1, <3>2
  <2>6. QED
    BY <2>4, <2>5 DEF OnceInv
<1>8. ASSUME NEW w \in Workers, LoadItems(w)
      PROVE  OnceInv'
  <2>1. /\ pc[w] = "opened" /\ UNCHANGED <<session, adjusted, contested>>
        /\ \A v \in Workers \ {w} : pc'[v] = pc[v] /\ job'[v] = job[v]
    BY <1>8 DEF LoadItems, CountTypeOK
  <2>2. job'[w].session = job[w].session /\ job'[w].op = job[w].op
    BY <1>8 DEF LoadItems, CountTypeOK, Job
  <2>3. \A v \in Workers : Finalising(v)' => Finalising(v) /\ job'[v].session = job[v].session
    BY <2>1, <2>2 DEF Finalising
  <2>4. QED
    BY <1>a, <2>1, <2>3, OthersFinalise
<1>9. ASSUME NEW w \in Workers, UpsertItem(w)
      PROVE  OnceInv'
  <2>1. UNCHANGED <<session, pc, job, adjusted, contested>>
    BY <1>9 DEF UpsertItem
  <2>2. QED
    BY <2>1 DEF OnceInv, Finalising, OneApplicationPerSession
<1>10. ASSUME NEW w \in Workers, CancelInventory(w) \/ ApplyInventory(w)
       PROVE  OnceInv'
  <2> DEFINE s == job[w].session
  <2>1. /\ Finalising(w) /\ Done(w) /\ Contest(w, s) /\ s \in Sessions
        /\ \/ /\ session' = [session EXCEPT ![s].status = "cancelled"]
              /\ adjusted' = adjusted
           \/ /\ session' = [session EXCEPT ![s].status = "applied"]
              /\ adjusted' = [adjusted EXCEPT ![s] = @ + 1]
    BY <1>10, <1>a DEF CancelInventory, ApplyInventory, Finalising, CountTypeOK
  <2>2. /\ session'[s].status \in {"cancelled", "applied"}
        /\ \A x \in Sessions \ {s} : session'[x] = session[x] /\ adjusted'[x] = adjusted[x]
        /\ adjusted'[s] = IF session'[s].status = "applied" THEN adjusted[s] + 1 ELSE adjusted[s]
    <3>1. CASE session' = [session EXCEPT ![s].status = "cancelled"] /\ adjusted' = adjusted
      <4>1. /\ session'[s].status = "cancelled"
            /\ \A x \in Sessions \ {s} : session'[x] = session[x]
        BY <2>1, <3>1, StatusWrites
      <4>2. QED
        BY <3>1, <4>1
    <3>2. CASE /\ session' = [session EXCEPT ![s].status = "applied"]
               /\ adjusted' = [adjusted EXCEPT ![s] = @ + 1]
      <4>1. /\ session'[s].status = "applied"
            /\ \A x \in Sessions \ {s} : session'[x] = session[x]
        BY <2>1, <3>2, StatusWrites
      <4>2. adjusted'[s] = adjusted[s] + 1 /\ \A x \in Sessions \ {s} : adjusted'[x] = adjusted[x]
        BY <2>1, <3>2 DEF CountTypeOK
      <4>3. QED
        BY <4>1, <4>2
    <3>3. QED
      BY <2>1, <3>1, <3>2
  <2>3. s \in contested \/ session[s].status = "in_progress"
    BY <2>1 DEF OnceInv
  <2>4. /\ contested \subseteq contested' /\ contested' \subseteq contested \cup {s}
        /\ \A v \in Workers \ {w} : Finalising(v) /\ job[v].session = s => s \in contested'
    BY <2>1 DEF Contest, Finalising
  <2> HIDE DEF s
  <2>5. /\ pc'[w] = "idle"
        /\ \A v \in Workers \ {w} : pc'[v] = pc[v] /\ job'[v] = job[v]
    BY <2>1, Leaving
  <2>6. OneApplicationPerSession'
    <3>1. \A x \in Sessions \ {s} :
            x \notin contested' => adjusted'[x] = IF session'[x].status = "applied" THEN 1 ELSE 0
      BY <2>2, <2>4 DEF OnceInv, OneApplicationPerSession
    <3>2. s \notin contested' => adjusted[s] = 0
      BY <2>1, <2>3, <2>4 DEF OnceInv, OneApplicationPerSession
    <3>3. QED
      BY <2>2, <3>1, <3>2 DEF OneApplicationPerSession
  <2>7. ASSUME NEW v \in Workers, Finalising(v)'
        PROVE  job'[v].session \in contested' \/ session'[job'[v].session].status = "in_progress"
    <3>1. v # w /\ Finalising(v) /\ job'[v].session = job[v].session
      BY <2>5, <2>7 DEF Finalising
    <3>2. job[v].session \in contested \/ session[job[v].session].status = "in_progress"
      BY <3>1 DEF OnceInv
    <3>3. QED
      BY <1>a, <2>2, <2>4, <3>1, <3>2
  <2>8. QED
    BY <2>6, <2>7 DEF OnceInv
<1>11. CASE UNCHANGED vars
  BY <1>11 DEF vars, OnceInv, Finalising, OneApplicationPerSession
<1>12. QED
  BY <1>1, <1>2, <1>3, <1>5, <1>6, <1>7, <1>8, <1>9, <1>10, <1>11, RequestCases
     DEF Next, Progress

(* A session reaches the stock once if it ends applied and never if it ends  *)
(* cancelled, for any number of requests, unless two of them that finalise   *)
(* it overlapped: its status is checked on a copy only.                      *)
THEOREM AppliedOnce == Spec => []OneApplicationPerSession
<1>1. Init => OnceInv
  BY DEF Init, OnceInv, Finalising, OneApplicationPerSession
<1>2. CountTypeOK /\ StatusInv /\ OnceInv /\ [Next]_vars => OnceInv'
  BY OnceStep
<1>3. OnceInv => OneApplicationPerSession
  BY DEF OnceInv
<1>4. QED
  BY <1>1, <1>2, <1>3, CountTypeCorrect, SessionsLive, PTL DEF Spec

-----------------------------------------------------------------------------
(* What an application writes *)

\* Of an applying handler: every item was counted, and is what the session
\* holds unless that count was replaced meanwhile.
Loaded(w, p) ==
    /\ job[w].items[p].counted
    /\ \/ <<job[w].session, p>> \in recounted
       \/ job[w].items[p] = session[job[w].session].items[p]

LoadedInv == \A w \in Workers, p \in Products : pc[w] = "applying" => Loaded(w, p)

\* No handler loads items, and those of the sessions stay.
LEMMA StayLoaded ==
  ASSUME LoadedInv, recounted' = recounted,
         \A v \in Workers : pc'[v] = "applying" =>
           /\ pc[v] = "applying" /\ job'[v] = job[v]
           /\ session'[job[v].session].items = session[job[v].session].items
  PROVE  LoadedInv'
  BY DEF LoadedInv, Loaded

LEMMA LoadedStep ==
  ASSUME CountTypeOK, StatusInv, LoadedInv, [Next]_vars
  PROVE  LoadedInv'
<1>a. \A v \in Workers : job[v].session \in Sessions
  BY DEF CountTypeOK, Job
<1>1. ASSUME NEW w \in Workers, NEW work \in Job, NEW at \in {"starting", "opened", "moving"},
             Accept(w, work, at), UNCHANGED <<session, recounted>>
      PROVE  LoadedInv'
  <2>1. /\ pc'[w] = at
        /\ \A v \in Workers \ {w} : pc'[v] = pc[v] /\ job'[v] = job[v]
    BY <1>1, Accepting DEF Stages
  <2>2. QED
    BY <1>1, <2>1, StayLoaded
<1>2. ASSUME NEW w \in Workers, Request(w)
      PROVE  LoadedInv'
  <2>1. CASE \E s \in Sessions : StartInventory(w, s)
    <3>1. PICK s \in Sessions : StartInventory(w, s)
      BY <2>1
    <3>2. PICK work \in Job : Accept(w, work, "starting")
      BY <3>1, Starts
    <3>3. UNCHANGED <<session, recounted>>
      BY <3>1 DEF StartInventory
    <3>4. QED
      BY <1>1, <3>2, <3>3
  <2>2. CASE \E s \in Sessions, op \in {"apply", "cancel", "count"}, p \in Int, n \in Int :
               Open(w, op, s, p, n)
    <3>1. PICK s \in Sessions, op \in {"apply", "cancel", "count"}, p \in Int, n \in Int :
            Open(w, op, s, p, n)
      BY <2>2
    <3>2. PICK work \in Job : Accept(w, work, "opened")
      BY <3>1, Opens
    <3>3. UNCHANGED <<session, recounted>>
      BY <3>1 DEF Open
    <3>4. QED
      BY <1>1, <3>2, <3>3
  <2>3. CASE \E p \in Products, n \in Moves : Move(w, p, n)
    <3>1. PICK p \in Products, n \in Moves : Move(w, p, n)
      BY <2>3
    <3>2. PICK work \in Job : Accept(w, work, "moving")
      BY <3>1, MoveStarts
    <3>3. UNCHANGED <<session, recounted>>
      BY <3>1 DEF Move
    <3>4. QED
      BY <1>1, <3>2, <3>3
  <2>4. QED
    BY <1>2, <2>1, <2>2, <2>3, RequestCases
<1>3. ASSUME NEW w \in Workers, Done(w), recounted' = recounted,
             \A v \in Workers \ {w} : pc[v] = "applying" =>
               session'[job[v].session].items = session[job[v].session].items
      PROVE  LoadedInv'
  <2>1. /\ pc'[w] = "idle"
        /\ \A v \in Workers \ {w} : pc'[v] = pc[v] /\ job'[v] = job[v]
    BY <1>3, Leaving
  <2>2. QED
    BY <1>3, <2>1, StayLoaded
<1>4. ASSUME NEW w \in Workers, CreateInventory(w)
      PROVE  LoadedInv'
  <2> DEFINE s == job[w].session
  <2>1. /\ pc[w] = "starting" /\ Done(w) /\ recounted' = recounted
        /\ session' = [session EXCEPT ![s] = [status |-> "in_progress", items |-> job[w].items]]
    BY <1>4 DEF CreateInventory
  <2>2. session[s].status = "absent"
    BY <2>1 DEF StatusInv
  <2>3. \A v \in Workers : pc[v] = "applying" => job[v].session # s
    BY <2>2 DEF StatusInv
  <2> HIDE DEF s
  <2>4. \A x \in Sessions \ {s} : session'[x] = session[x]
    BY <2>1 DEF CountTypeOK
  <2>5. QED
    BY <1>3, <1>a, <2>1, <2>3, <2>4
<1>5. ASSUME NEW w \in Workers, CancelInventory(w) \/ ApplyInventory(w)
      PROVE  LoadedInv'
  <2>1. /\ Done(w) /\ recounted' = recounted
        /\ \E status : session' = [session EXCEPT ![job[w].session].status = status]
    BY <1>5 DEF CancelInventory, ApplyInventory
  <2>2. \A x \in Sessions : session'[x].items = session[x].items
    BY <1>a, <2>1, StatusWrites
  <2>3. QED
    BY <1>3, <1>a, <2>1, <2>2
<1>6. ASSUME NEW w \in Workers, RefuseUncounted(w) \/ CommitMove(w) \/ Rollback(w)
      PROVE  LoadedInv'
  <2>1. Done(w) /\ UNCHANGED <<session, recounted>>
    BY <1>6 DEF RefuseUncounted, CommitMove, Rollback
  <2>2. QED
    BY <1>3, <2>1
<1>7. ASSUME NEW w \in Workers, LoadItems(w)
      PROVE  LoadedInv'
  <2>1. /\ UNCHANGED <<session, recounted>>
        /\ \A p \in Products : session[job[w].session].items[p].counted
        /\ \A v \in Workers \ {w} : pc'[v] = pc[v] /\ job'[v] = job[v]
    BY <1>7 DEF LoadItems, CountTypeOK
  <2>2. job'[w].session = job[w].session /\ job'[w].items = session[job[w].session].items
    BY <1>7 DEF LoadItems, CountTypeOK, Job
  <2>3. \A p \in Products : Loaded(w, p)'
    BY <2>1, <2>2 DEF Loaded
  <2>4. \A v \in Workers \ {w}, p \in Products : pc'[v] = "applying" => Loaded(v, p)'
    BY <2>1 DEF LoadedInv, Loaded
  <2>5. QED
    BY <2>3, <2>4 DEF LoadedInv
<1>8. ASSUME NEW w \in Workers, UpsertItem(w)
      PROVE  LoadedInv'
  <2>1. UNCHANGED <<session, pc, job, recounted>>
    BY <1>8 DEF UpsertItem
  <2>2. QED
    BY <2>1 DEF LoadedInv, Loaded
<1>9. ASSUME NEW w \in Workers, CountItem(w)
      PROVE  LoadedInv'
  <2> DEFINE s == job[w].session
  <2> DEFINE q == job[w].product
  <2>1. /\ Done(w) /\ pc[w] = "opened"
        /\ recounted' = IF \E v \in Workers : pc[v] = "applying" /\ job[v].session = s
                        THEN recounted \cup {<<s, q>>} ELSE recounted
    BY <1>9 DEF CountItem
  <2>2. \A x \in Sessions, p \in Products :
          x # s \/ p # q => session'[x].items[p] = session[x].items[p]
    BY <1>9, CountWrites
  <2> HIDE DEF s, q
  <2>3. /\ pc'[w] = "idle"
        /\ \A v \in Workers \ {w} : pc'[v] = pc[v] /\ job'[v] = job[v]
    BY <2>1, Leaving
  <2>4. ASSUME NEW v \in Workers, NEW p \in Products, pc'[v] = "applying"
        PROVE  Loaded(v, p)'
    <3>1. pc[v] = "applying" /\ job'[v] = job[v]
      BY <2>3, <2>4
    <3>2. Loaded(v, p)
      BY <3>1 DEF LoadedInv
    <3>3. recounted \subseteq recounted' /\ (job[v].session = s => <<s, q>> \in recounted')
      BY <2>1, <3>1
    <3>4. CASE job[v].session = s /\ p = q
      BY <3>1, <3>2, <3>3, <3>4 DEF Loaded
    <3>5. CASE job[v].session # s \/ p # q
      <4>1. session'[job[v].session].items[p] = session[job[v].session].items[p]
        BY <1>a, <2>2, <3>5
      <4>2. QED
        BY <3>1, <3>2, <3>3, <4>1 DEF Loaded
    <3>6. QED
      BY <3>4, <3>5
  <2>5. QED
    BY <2>4 DEF LoadedInv
<1>10. CASE UNCHANGED vars
  BY <1>10 DEF vars, LoadedInv, Loaded
<1>11. QED
  BY <1>2, <1>4, <1>5, <1>6, <1>7, <1>8, <1>9, <1>10 DEF Next, Progress

LEMMA ItemsLoaded == Spec => []LoadedInv
<1>1. Init => LoadedInv
  BY DEF Init, LoadedInv
<1>2. CountTypeOK /\ StatusInv /\ LoadedInv /\ [Next]_vars => LoadedInv'
  BY LoadedStep
<1>3. QED
  BY <1>1, <1>2, CountTypeCorrect, SessionsLive, PTL DEF Spec

\* Only an application makes a session applied once more.
LEMMA Adjusts ==
  ASSUME CountTypeOK, [Next]_vars, NEW s \in Sessions, adjusted'[s] > adjusted[s]
  PROVE  \E w \in Workers : ApplyInventory(w) /\ job[w].session = s
<1>1. adjusted[s] \in Nat /\ adjusted'[s] # adjusted[s]
  BY DEF CountTypeOK
<1>2. PICK w \in Workers : ApplyInventory(w)
  <2>1. ASSUME NEW w \in Workers, Request(w) \/ Rollback(w)
        PROVE  adjusted' = adjusted
    BY <2>1 DEF Request, StartInventory, Open, Move, Rollback
  <2>2. ASSUME NEW w \in Workers, CreateInventory(w) \/ CountItem(w) \/ CancelInventory(w)
                                  \/ LoadItems(w) \/ RefuseUncounted(w) \/ UpsertItem(w)
                                  \/ CommitMove(w)
        PROVE  adjusted' = adjusted
    BY <2>2 DEF CreateInventory, CountItem, CancelInventory, LoadItems, RefuseUncounted,
                UpsertItem, CommitMove
  <2>3. QED
    BY <1>1, <2>1, <2>2 DEF Next, Progress, vars
<1>3. adjusted' = [adjusted EXCEPT ![job[w].session] = @ + 1]
  BY <1>2 DEF ApplyInventory
<1>4. job[w].session = s
  BY <1>1, <1>3 DEF CountTypeOK
<1>5. QED
  BY <1>2, <1>4

(* ApplyInventory sets the stock to what the session records as counted, for *)
(* every product that did not move since the snapshot and whose count was    *)
(* not replaced after the items had been read.                               *)
THEOREM CountsApplied == Spec => ApplySetsWhatWasCounted
<1>1. ASSUME CountTypeOK, CountInv, LoadedInv, [Next]_vars,
             NEW s \in Sessions, adjusted'[s] > adjusted[s],
             NEW p \in Products \ drifted[s], <<s, p>> \notin recounted
      PROVE  stock'[p] = session'[s].items[p].actual
  <2>1. PICK w \in Workers : ApplyInventory(w) /\ job[w].session = s
    BY <1>1, Adjusts
  <2>2. /\ pc[w] = "applying"
        /\ session' = [session EXCEPT ![s].status = "applied"]
        /\ stock'[p] = IF p \in Differing(w) THEN job[w].items[p].actual ELSE stock[p]
    BY <2>1 DEF ApplyInventory
  <2>3. session'[s].items = session[s].items
    BY <1>1, <2>2, StatusWrites
  <2>4. job[w].items[p].counted /\ job[w].items[p] = session[s].items[p]
    BY <1>1, <2>1, <2>2 DEF LoadedInv, Loaded
  <2>5. job[w].items[p].expected = stock[p]
    BY <1>1, <2>1, <2>2 DEF CountInv, SnapshotInv
  <2>6. job[w].items[p] \in Item
    BY <1>1 DEF CountTypeOK, Job, Items
  <2>7. p \notin Differing(w) => job[w].items[p].actual = stock[p]
    BY <2>4, <2>5, <2>6 DEF Differing, Discrepancy, Item
  <2>8. QED
    BY <2>2, <2>3, <2>4, <2>7
<1>2. CountTypeOK /\ CountInv /\ LoadedInv /\ [Next]_vars
        => [\A s \in Sessions :
              adjusted'[s] > adjusted[s] =>
                \A p \in Products \ drifted[s] :
                  <<s, p>> \in recounted \/ stock'[p] = session'[s].items[p].actual]_vars
  BY <1>1
<1>3. QED
  BY <1>2, CountTypeCorrect, Counts, ItemsLoaded, PTL DEF Spec, ApplySetsWhatWasCounted

=============================================================================
