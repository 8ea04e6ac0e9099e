---------------------------- MODULE ServicesProofs ----------------------------
(***************************************************************************)
(* Theorems about the services that share module Records: HR, logistics,   *)
(* the catalog, customers, the messenger and banking, for any goroutines,  *)
(* any number of requests and any values of the constants.  Each service   *)
(* has an inductive invariant that says what its rows and its goroutines   *)
(* look like, and which copies may be outdated.                            *)
(***************************************************************************)
EXTENDS HR, Logistics, Catalog, CRM, Messenger, Banking, FiniteSetTheorems,
        WellFoundedInduction, TLAPS

-----------------------------------------------------------------------------
(* Numbers *)

\* A set of numbers has a least one.
LEMMA Least ==
    ASSUME NEW T \in SUBSET Nat, T # {}
    PROVE  \E x \in T : \A y \in T : x <= y
  <1>1. PICK R : R = OpToRel(<, Nat)
    OBVIOUS
  <1>2. \A x, y \in Nat : <<x, y>> \in R <=> x < y
    BY <1>1 DEF OpToRel
  <1>3. IsWellFoundedOn(R, Nat)
    BY <1>1, NatLessThanWellFounded, Zenon
  <1>4. PICK x \in T : \A y \in T : <<y, x>> \notin R
    BY <1>3, WFMin
  <1>5. \A y \in T : x \in Nat /\ y \in Nat /\ ~ (y < x)
    BY <1>2, <1>4, Zenon
  <1>6. \A y \in T : x <= y
    BY <1>5
  <1>7. QED
    BY <1>6

-----------------------------------------------------------------------------
(* Goroutines and their requests *)

\* A set whose elements are all the same.
LEMMA AtMostOne ==
    ASSUME NEW S, \A x, y \in S : x = y
    PROVE  IsFiniteSet(S) /\ Cardinality(S) \in {0, 1}
  <1>1. CASE S = {}
    <2>1. Cardinality({}) = 0 /\ IsFiniteSet({})
      BY FS_EmptySet
    <2>2. QED
      BY <1>1, <2>1
  <1>2. CASE S # {}
    <2>1. PICK x \in S : TRUE
      BY <1>2
    <2>2. S = {x}
      BY <2>1
    <2>3. Cardinality({x}) = 1 /\ IsFiniteSet({x})
      BY FS_Singleton
    <2>4. QED
      BY <2>2, <2>3
  <1>3. QED
    BY <1>1, <1>2

\* The goroutines have requests of their own.
TasksOK ==
    /\ served \in Nat
    /\ task = [w \in Workers |-> task[w]]
    /\ \A w \in Workers : task[w].op # "idle" => task[w].id \in 1..served
    /\ \A v, w \in Workers :
         v # w /\ task[v].op # "idle" /\ task[w].op # "idle" => task[v].id # task[w].id

\* Start: the request has the next number.
LEMMA StartKeeps ==
    ASSUME NEW w \in Workers, NEW t, TasksOK, Start(w, t), t.op = "idle" \/ t.id = served + 1
    PROVE  /\ TasksOK'
           /\ task' = [task EXCEPT ![w] = t] /\ task'[w] = t
           /\ \A v \in Workers \ {w} : task'[v] = task[v]
           /\ served' = served + 1
  BY DEF TasksOK, Start

\* Continue, and Finish: the request keeps its number.
LEMMA ContinueKeeps ==
    ASSUME NEW w \in Workers, NEW t, TasksOK, Continue(w, t),
           t.op = "idle" \/ (task[w].op # "idle" /\ t.id = task[w].id)
    PROVE  /\ TasksOK'
           /\ task' = [task EXCEPT ![w] = t] /\ task'[w] = t
           /\ \A v \in Workers \ {w} : task'[v] = task[v]
           /\ served' = served
  BY DEF TasksOK, Continue

\* Nothing happens.
LEMMA Stutters ==
    ASSUME TasksOK, UNCHANGED work
    PROVE  TasksOK'
  BY DEF TasksOK, work

-----------------------------------------------------------------------------
(* HR: work is decided once *)

HRRowOK(r) ==
    /\ \E i \in 0..served, n \in Nat : r = <<i, n>>
    /\ {"kind", "status"} \subseteq DOMAIN rows[r]
    /\ rows[r].kind = "employee" => rows[r].status # "approved"
    /\ rows[r].kind = "shift" => "slot" \in DOMAIN rows[r]
    /\ rows[r].kind = "payroll" => "month" \in DOMAIN rows[r]
    /\ rows[r].kind = "timesheet" => "out" \in DOMAIN rows[r]

HRRowsOK == \A r \in DOMAIN rows : HRRowOK(r)

\* The row a task is about to insert.
Inserting == {"create shift", "clock in", "payroll"}

PlannedRow(t) ==
    /\ {"kind", "status"} \subseteq DOMAIN t.copy
    /\ t.op = "create shift" => t.copy.kind = "shift" /\ "slot" \in DOMAIN t.copy
    /\ t.op = "clock in" => t.copy.kind = "timesheet" /\ "out" \in DOMAIN t.copy
    /\ t.op = "payroll" => t.copy.kind = "payroll" /\ "month" \in DOMAIN t.copy

Deciding == {"clock out", "approve timesheet", "approve payroll", "approve absence",
             "reject absence", "terminate"}

HRTask(t) ==
    /\ t.op \in Inserting =>
         /\ t.row = <<t.id, 0>> /\ t.row \notin DOMAIN rows
         /\ PlannedRow(t)
    /\ t.op \in Deciding =>
         /\ t.row \in DOMAIN rows /\ rows[t.row].kind # "shift"
         /\ t.copy.status # "approved"
         /\ (rows[t.row].kind = "employee") <=> (t.op = "terminate")
    /\ t.op = "publish" /\ t.type \in Decisions =>
         t.row \in DOMAIN rows /\ rows[t.row].kind # "shift"
    /\ t.op = "parts" => t.type \notin Decisions

HRTasks == \A w \in Workers : HRTask(task[w])

HRUnique ==
    /\ \A r, s \in Open : r = s \/ {r, s} \cap stale # {}
    /\ \A r, s \in Rows("shift") : rows[r].slot = rows[s].slot => r = s \/ {r, s} \cap stale # {}
    /\ \A r, s \in Rows("payroll") : rows[r].month = rows[s].month => r = s

\* Decisions about r that were announced, or are about to be.
Told(r) == {n \in news : n.row = r /\ n.type \in Decisions}
Telling(w, r) == task[w].op = "publish" /\ task[w].row = r /\ task[w].type \in Decisions

DecidedOnce(r) ==
    /\ \A m, n \in Told(r) : m = n
    /\ \A v, w \in Workers : Telling(v, r) /\ Telling(w, r) => v = w
    /\ \A w \in Workers : Telling(w, r) => Told(r) = {}
    /\ rows[r].status # "approved" => Told(r) = {} /\ \A w \in Workers : ~Telling(w, r)

HRDecided ==
    /\ \A r \in DOMAIN rows \ stale : DecidedOnce(r)
    /\ \A n \in news : n.type \in Decisions => n.row \in DOMAIN rows /\ rows[n.row].kind # "shift"

\* The inductive invariant: of a row that is not marked at most one goroutine has
\* something to announce, and nothing while it is undecided.
HRInv == TasksOK /\ HRRowsOK /\ HRTasks /\ HRUnique /\ HRDecided

\* A request that has made its checks.
LEMMA BeginKeepsHR ==
    ASSUME NEW w \in Workers, NEW t, HRInv, Start(w, t), UNCHANGED records,
           t.id = served + 1, HRTask(t), t.op # "publish"
    PROVE  HRInv'
  <1>1. /\ TasksOK'
        /\ task'[w] = t /\ served' = served + 1
        /\ \A v \in Workers \ {w} : task'[v] = task[v]
        /\ rows' = rows /\ stale' = stale /\ news' = news
    BY StartKeeps DEF HRInv, records
  <1>2. HRRowsOK'
    BY <1>1 DEF HRInv, HRRowsOK, HRRowOK, TasksOK
  <1>3. HRTasks'
    BY <1>1 DEF HRInv, HRTasks, HRTask, PlannedRow
  <1>4. HRUnique'
    BY <1>1 DEF HRInv, HRUnique, Open, Rows
  <1>5. HRDecided'
    BY <1>1 DEF HRInv, HRDecided, DecidedOnce, Told, Telling
  <1>6. QED
    BY <1>1, <1>2, <1>3, <1>4, <1>5 DEF HRInv

\* A request that is one insertion.
LEMMA AddKeepsHR ==
    ASSUME NEW w \in Workers, NEW t, NEW row, HRInv, Start(w, t),
           t.op = "idle" \/ t.id = served + 1,
           t.op \in {"idle", "parts", "publish"}, t.op # "idle" => t.type \notin Decisions,
           rows' = With(rows, New, row), UNCHANGED <<stale, news>>,
           {"kind", "status"} \subseteq DOMAIN row, row.kind \in {"employee", "absence"},
           row.status # "approved"
    PROVE  HRInv'
  <1>1. /\ TasksOK'
        /\ task'[w] = t /\ served' = served + 1 /\ served \in Nat
        /\ \A v \in Workers \ {w} : task'[v] = task[v]
        /\ stale' = stale /\ news' = news
    BY StartKeeps DEF HRInv, TasksOK
  <1>2. /\ New \notin DOMAIN rows
        /\ \A v \in Workers \ {w} : task[v].op \in Inserting => task[v].row # New
    <2>1. \A r \in DOMAIN rows : r # <<served + 1, 0>>
      BY <1>1 DEF HRInv, HRRowsOK, HRRowOK
    <2>2. ASSUME NEW v \in Workers \ {w}, task[v].op \in Inserting PROVE task[v].row # <<served + 1, 0>>
      <3>1. task[v].row = <<task[v].id, 0>> /\ task[v].id \in 1..served
        BY <2>2 DEF HRInv, HRTasks, HRTask, TasksOK, Inserting
      <3>2. QED
        BY <3>1, <1>1
    <2>3. QED
      BY <2>1, <2>2 DEF New
  <1>3. HRRowsOK'
    BY <1>1 DEF HRInv, HRRowsOK, HRRowOK, With, New
  <1>4. HRTasks'
    <2>1. \A r \in DOMAIN rows : r \in DOMAIN rows' /\ rows'[r] = rows[r]
      BY <1>2 DEF With
    <2>2. ASSUME NEW v \in Workers PROVE HRTask(task[v])'
      <3>1. CASE v = w
        BY <3>1, <1>1 DEF HRTask, Inserting, Deciding
      <3>2. CASE v # w
        <4>1. task'[v] = task[v] /\ HRTask(task[v])
          BY <3>2, <1>1 DEF HRInv, HRTasks
        <4>2. task[v].op \in Inserting => task[v].row \notin DOMAIN rows'
          BY <3>2, <4>1, <1>2 DEF HRTask, With
        <4>3. QED
          BY <4>1, <4>2, <2>1 DEF HRTask, PlannedRow
      <3>3. QED
        BY <3>1, <3>2
    <2>3. QED
      BY <2>2 DEF HRTasks
  <1>5. HRUnique'
    BY <1>1, <1>2 DEF HRInv, HRUnique, Open, Rows, With
  <1>6. HRDecided'
    <2>1. \A r \in DOMAIN rows' : Told(r)' = Told(r)
      BY <1>1 DEF Told
    <2>2. \A v \in Workers, r \in DOMAIN rows' : Telling(v, r)' => Telling(v, r) /\ r # New
      BY <1>1, <1>2 DEF Telling, HRInv, HRTasks, HRTask
    <2>3. Told(New) = {}
      BY <1>2 DEF Told, HRInv, HRDecided
    <2>4. ASSUME NEW r \in DOMAIN rows' \ stale PROVE DecidedOnce(r)'
      <3>1. CASE r = New
        BY <2>1, <2>2, <2>3, <3>1 DEF DecidedOnce
      <3>2. CASE r # New
        <4>1. r \in DOMAIN rows /\ rows'[r] = rows[r] /\ DecidedOnce(r)
          BY <3>2, <2>4 DEF With, HRInv, HRDecided
        <4>2. QED
          BY <2>1, <2>2, <4>1 DEF DecidedOnce
      <3>3. QED
        BY <3>1, <3>2
    <2>5. QED
      BY <2>4, <1>1, <1>2 DEF HRInv, HRDecided, With
  <1>7. QED
    BY <1>1, <1>3, <1>4, <1>5, <1>6 DEF HRInv

\* A row that was planned is inserted; whether it is unique is up to fresh.
LEMMA InsertKeepsHR ==
    ASSUME NEW w \in Workers, NEW fresh, NEW type, HRInv, Insert(w, fresh, type),
           task[w].op \in Inserting, type \notin Decisions
    PROVE  /\ TasksOK' /\ HRRowsOK' /\ HRTasks' /\ HRDecided'
           /\ rows' = With(rows, task[w].row, task[w].copy)
           /\ task[w].row \notin DOMAIN rows
           /\ PlannedRow(task[w])
           /\ \A r \in stale : r \in stale'
           /\ fresh \/ task[w].row \in stale'
  <1> DEFINE new == task[w].row
             row == task[w].copy
             t == Announcing(task[w].id, new, type)
  <1>1. t.op = "idle" \/ (t.op = "publish" /\ t.id = task[w].id /\ t.type = type /\ t.row = new)
    BY DEF Announcing, Idle
  <1>2. /\ TasksOK'
        /\ task'[w] = t /\ served' = served
        /\ \A v \in Workers \ {w} : task'[v] = task[v]
    BY <1>1, ContinueKeeps DEF HRInv, Insert, Inserting
  <1>3. /\ rows' = With(rows, new, row) /\ news' = news
        /\ stale' = IF fresh THEN stale ELSE stale \cup {new}
    BY DEF Insert
  <1>4. /\ new = <<task[w].id, 0>> /\ new \notin DOMAIN rows /\ PlannedRow(task[w])
        /\ task[w].id \in 1..served
        /\ \A v \in Workers \ {w} : task[v].op \in Inserting => task[v].row # new
    <2>1. ASSUME NEW v \in Workers, task[v].op \in Inserting
          PROVE  /\ task[v].row = <<task[v].id, 0>> /\ task[v].row \notin DOMAIN rows
                 /\ PlannedRow(task[v]) /\ task[v].op # "idle" /\ task[v].id \in 1..served
      BY <2>1 DEF HRInv, HRTasks, HRTask, TasksOK, Inserting
    <2>2. QED
      BY <2>1 DEF HRInv, TasksOK
  <1>5. HRRowsOK'
    <2>1. ASSUME NEW r \in DOMAIN rows' PROVE HRRowOK(r)'
      <3>1. CASE r = new
        <4>1. rows'[r] = row /\ served' = served
          BY <3>1, <1>2, <1>3 DEF With
        <4>2. \E i \in 0..served, n \in Nat : r = <<i, n>>
          BY <3>1, <1>4
        <4>3. row.kind = "employee" => row.status # "approved"
          BY <1>4 DEF PlannedRow, Inserting
        <4>4. QED
          BY <4>1, <4>2, <4>3, <1>4 DEF HRRowOK, PlannedRow, Inserting
      <3>2. CASE r # new
        BY <3>2, <2>1, <1>2, <1>3 DEF HRInv, HRRowsOK, HRRowOK, With
      <3>3. QED
        BY <3>1, <3>2
    <2>2. QED
      BY <2>1 DEF HRRowsOK
  <1>6. HRTasks'
    <2>1. \A r \in DOMAIN rows : r \in DOMAIN rows' /\ rows'[r] = rows[r]
      BY <1>3, <1>4 DEF With
    <2>2. ASSUME NEW v \in Workers PROVE HRTask(task[v])'
      <3>1. CASE v = w
        BY <3>1, <1>1, <1>2 DEF HRTask, Inserting, Deciding
      <3>2. CASE v # w
        <4>1. task'[v] = task[v] /\ HRTask(task[v])
          BY <3>2, <1>2 DEF HRInv, HRTasks
        <4>2. task[v].op \in Inserting => task[v].row \notin DOMAIN rows'
          BY <3>2, <4>1, <1>3, <1>4 DEF HRTask, With
        <4>3. QED
          BY <4>1, <4>2, <2>1 DEF HRTask, PlannedRow
      <3>3. QED
        BY <3>1, <3>2
    <2>3. QED
      BY <2>2 DEF HRTasks
  <1>7. HRDecided'
    <2>1. \A r \in DOMAIN rows' : Told(r)' = Told(r)
      BY <1>3 DEF Told
    <2>2. \A v \in Workers, r \in DOMAIN rows' : Telling(v, r)' => Telling(v, r) /\ r # new
      BY <1>1, <1>2, <1>4 DEF Telling, HRInv, HRTasks, HRTask
    <2>3. Told(new) = {}
      BY <1>4 DEF Told, HRInv, HRDecided
    <2>4. ASSUME NEW r \in DOMAIN rows' \ stale' PROVE DecidedOnce(r)'
      <3>1. CASE r = new
        BY <2>1, <2>2, <2>3, <3>1 DEF DecidedOnce
      <3>2. CASE r # new
        <4>1. r \in DOMAIN rows /\ rows'[r] = rows[r] /\ DecidedOnce(r)
          BY <3>2, <2>4, <1>3 DEF With, HRInv, HRDecided
        <4>2. QED
          BY <2>1, <2>2, <4>1 DEF DecidedOnce
      <3>3. QED
        BY <3>1, <3>2
    <2>5. QED
      BY <2>4, <1>3, <1>4 DEF HRInv, HRDecided, With
  <1>8. QED
    BY <1>2, <1>3, <1>4, <1>5, <1>6, <1>7

\* A decision is written: nobody announced one before, unless the row changed.
LEMMA WriteKeepsHR ==
    ASSUME NEW w \in Workers, NEW columns, NEW type, HRInv, Write(w, columns, type),
           task[w].op \in Deciding,
           DOMAIN columns \subseteq {"status", "out"}, "status" \in DOMAIN columns,
           columns.status # "open",
           type \in Decisions => columns.status = "approved",
           columns.status = "approved" => task[w].op # "terminate"
    PROVE  HRInv'
  <1> DEFINE r == task[w].row
             t == Announcing(task[w].id, r, type)
  <1>1. \/ t.op = "idle"
        \/ t.op = "publish" /\ t.id = task[w].id /\ t.type = type /\ t.row = r
    BY DEF Announcing, Idle
  <1>2. /\ TasksOK'
        /\ task'[w] = t /\ served' = served
        /\ \A v \in Workers \ {w} : task'[v] = task[v]
    BY <1>1, ContinueKeeps DEF HRInv, Write, Deciding
  <1>3. /\ r \in DOMAIN rows /\ rows[r].kind # "shift" /\ task[w].copy.status # "approved"
        /\ (rows[r].kind = "employee") <=> (task[w].op = "terminate")
    BY DEF HRInv, HRTasks, HRTask
  <1>4. /\ rows' = [rows EXCEPT ![r] = Updated(@, columns)] /\ news' = news
        /\ stale' = IF rows[r] = task[w].copy THEN stale ELSE stale \cup {r}
    BY <1>3 DEF Write
  <1>5. /\ DOMAIN rows' = DOMAIN rows
        /\ \A s \in DOMAIN rows : /\ DOMAIN rows[s] \subseteq DOMAIN rows'[s]
                                  /\ rows'[s].kind = rows[s].kind
                                  /\ s # r => rows'[s] = rows[s]
        /\ "month" \in DOMAIN rows[r] => rows'[r].month = rows[r].month
        /\ rows'[r].status = columns.status
    BY <1>3, <1>4 DEF HRInv, HRRowsOK, HRRowOK, Updated
  <1>6. HRRowsOK'
    BY <1>2, <1>3, <1>5 DEF HRInv, HRRowsOK, HRRowOK
  <1>7. HRTasks'
    <2>1. ASSUME NEW v \in Workers PROVE HRTask(task[v])'
      <3>1. CASE v = w
        BY <3>1, <1>1, <1>2, <1>3, <1>5 DEF HRTask, Inserting, Deciding
      <3>2. CASE v # w
        <4>1. task'[v] = task[v] /\ HRTask(task[v])
          BY <3>2, <1>2 DEF HRInv, HRTasks
        <4>2. QED
          BY <4>1, <1>5 DEF HRTask, PlannedRow
      <3>3. QED
        BY <3>1, <3>2
    <2>2. QED
      BY <2>1 DEF HRTasks
  <1>8. HRUnique'
    <2>1. Open' \subseteq Open /\ Rows("shift")' = Rows("shift") /\ Rows("payroll")' = Rows("payroll")
      BY <1>5 DEF Open, Rows
    <2>2. stale \subseteq stale'
      BY <1>4
    <2>3. \A x \in Rows("shift") : rows'[x] = rows[x]
      BY <1>3, <1>5 DEF Rows
    <2>4. \A x \in Rows("payroll") : rows'[x].month = rows[x].month
      BY <1>3, <1>5 DEF Rows, HRInv, HRRowsOK, HRRowOK
    <2>5. QED
      BY <2>1, <2>2, <2>3, <2>4 DEF HRInv, HRUnique
  <1>9. HRDecided'
    <2>1. \A s \in DOMAIN rows : Told(s)' = Told(s)
      BY <1>4 DEF Told
    <2>2. \A v \in Workers, s \in DOMAIN rows :
             Telling(v, s)' => Telling(v, s) \/ (v = w /\ s = r /\ columns.status = "approved")
      BY <1>1, <1>2 DEF Telling
    <2>3. ASSUME NEW s \in DOMAIN rows \ stale' PROVE DecidedOnce(s)'
      <3>1. DecidedOnce(s)
        BY <2>3, <1>4 DEF HRInv, HRDecided
      <3>2. CASE s = r
        <4>1. rows[r].status # "approved"
          BY <3>2, <2>3, <1>3, <1>4
        <4>2. QED
          BY <3>1, <3>2, <4>1, <2>1, <2>2, <1>5 DEF DecidedOnce
      <3>3. CASE s # r
        BY <3>1, <3>3, <2>1, <2>2, <1>5 DEF DecidedOnce
      <3>4. QED
        BY <3>2, <3>3
    <2>4. QED
      BY <2>3, <1>4, <1>5 DEF HRInv, HRDecided
  <1>10. QED
    BY <1>2, <1>6, <1>7, <1>8, <1>9 DEF HRInv

\* A goroutine is done, and the rows that are not shifts are of the same kind.
LEMMA HRTasksKept ==
    ASSUME NEW w \in Workers, HRTasks, task'[w] = Idle,
           \A v \in Workers \ {w} : task'[v] = task[v],
           DOMAIN rows' \subseteq DOMAIN rows,
           \A s \in DOMAIN rows : rows[s].kind # "shift" =>
               s \in DOMAIN rows' /\ rows'[s].kind = rows[s].kind
    PROVE  HRTasks'
  <1>1. ASSUME NEW v \in Workers PROVE HRTask(task[v])'
    <2>1. CASE v = w
      <3>1. task'[v].op = "idle"
        BY <2>1 DEF Idle
      <3>2. QED
        BY <3>1 DEF HRTask, Inserting, Deciding
    <2>2. CASE v # w
      <3>1. task'[v] = task[v] /\ HRTask(task[v])
        BY <2>2 DEF HRTasks
      <3>2. QED
        <4>1. (task[v].op \in Inserting => task[v].row = <<task[v].id, 0>>
                 /\ task[v].row \notin DOMAIN rows /\ PlannedRow(task[v]))'
          BY <3>1 DEF HRTask, PlannedRow, Inserting
        <4>2. (task[v].op \in Deciding =>
                 /\ task[v].row \in DOMAIN rows /\ rows[task[v].row].kind # "shift"
                 /\ task[v].copy.status # "approved"
                 /\ (rows[task[v].row].kind = "employee") <=> (task[v].op = "terminate"))'
          BY <3>1 DEF HRTask, Deciding
        <4>3. (task[v].op = "publish" /\ task[v].type \in Decisions =>
                 task[v].row \in DOMAIN rows /\ rows[task[v].row].kind # "shift")'
          BY <3>1 DEF HRTask, Decisions
        <4>4. (task[v].op = "parts" => task[v].type \notin Decisions)'
          BY <3>1 DEF HRTask, Decisions
        <4>5. QED
          BY <4>1, <4>2, <4>3, <4>4 DEF HRTask
    <2>3. QED
      BY <2>1, <2>2
  <1>2. QED
    BY <1>1 DEF HRTasks

\* What was announced stays with the row it is about.
LEMMA HRDecidedKept ==
    ASSUME NEW w \in Workers, HRDecided, task'[w] = Idle, news' = news,
           \A v \in Workers \ {w} : task'[v] = task[v],
           stale \subseteq stale', DOMAIN rows' \subseteq DOMAIN rows,
           \A s \in DOMAIN rows' : rows'[s].kind = rows[s].kind /\ rows'[s].status = rows[s].status,
           \A s \in DOMAIN rows : rows[s].kind # "shift" => s \in DOMAIN rows'
    PROVE  HRDecided'
  <1>1. \A s \in DOMAIN rows : Told(s)' = Told(s)
    BY DEF Told
  <1>2. \A v \in Workers, s \in DOMAIN rows : Telling(v, s)' => Telling(v, s)
    BY DEF Telling, Idle
  <1>3. ASSUME NEW s \in DOMAIN rows' \ stale' PROVE DecidedOnce(s)'
    <2>1. s \in DOMAIN rows \ stale /\ DecidedOnce(s) /\ rows'[s].status = rows[s].status
      BY <1>3 DEF HRDecided
    <2>2. QED
      BY <2>1, <1>1, <1>2 DEF DecidedOnce
  <1>4. QED
    BY <1>3 DEF HRDecided

\* A shift moves; it is marked when the time was taken meanwhile.
LEMMA WriteShiftKeepsHR ==
    ASSUME NEW w \in Workers, HRInv, WriteShift(w)
    PROVE  HRInv'
  <1> DEFINE r == task[w].row
             slot == task[w].slot
  <1>1. /\ TasksOK'
        /\ task'[w] = Idle /\ served' = served
        /\ \A v \in Workers \ {w} : task'[v] = task[v]
        /\ news' = news
    BY ContinueKeeps DEF HRInv, WriteShift, Finish, Idle
  <1>2. CASE r \notin DOMAIN rows
    <2>1. rows' = rows /\ stale' = stale
      BY <1>2 DEF WriteShift
    <2>2. HRRowsOK' /\ HRUnique'
      BY <2>1, <1>1 DEF HRInv, HRRowsOK, HRRowOK, HRUnique, Open, Rows
    <2>3. HRTasks'
      BY <2>1, <1>1, HRTasksKept DEF HRInv
    <2>4. HRDecided'
      BY <2>1, <1>1, HRDecidedKept DEF HRInv
    <2>5. QED
      BY <1>1, <2>2, <2>3, <2>4 DEF HRInv
  <1>3. CASE r \in DOMAIN rows
    <2>1. /\ rows' = [rows EXCEPT ![r].slot = slot]
          /\ stale' = IF HasOverlappingShift(slot, r) THEN stale \cup {r} ELSE stale
      BY <1>3 DEF WriteShift
    <2>2. /\ DOMAIN rows' = DOMAIN rows
          /\ \A s \in DOMAIN rows : /\ DOMAIN rows'[s] = DOMAIN rows[s]
                                    /\ rows'[s].kind = rows[s].kind
                                    /\ rows'[s].status = rows[s].status
                                    /\ s # r => rows'[s] = rows[s]
          /\ "slot" \in DOMAIN rows[r] => rows'[r].slot = slot
          /\ "month" \in DOMAIN rows[r] => rows'[r].month = rows[r].month
      BY <2>1, <1>3 DEF HRInv, HRRowsOK, HRRowOK
    <2>3. HRRowsOK'
      BY <2>2, <1>1 DEF HRInv, HRRowsOK, HRRowOK
    <2>4. HRTasks'
      BY <2>2, <1>1, HRTasksKept DEF HRInv
    <2>5. HRUnique'
      <3>1. Open' = Open /\ Rows("shift")' = Rows("shift") /\ Rows("payroll")' = Rows("payroll")
        BY <2>2 DEF Open, Rows
      <3>2. \A x \in Rows("payroll") : rows'[x].month = rows[x].month
        BY <2>2 DEF Rows, HRInv, HRRowsOK, HRRowOK
      <3>3. \A x \in Rows("shift") : rows'[x].slot = IF x = r THEN slot ELSE rows[x].slot
        BY <2>2 DEF Rows, HRInv, HRRowsOK, HRRowOK
      <3>4. r \in stale' \/ \A x \in Rows("shift") \ {r} : rows[x].slot # slot
        BY <2>1 DEF HasOverlappingShift
      <3>5. stale \subseteq stale'
        BY <2>1
      <3>6. QED
        BY <3>1, <3>2, <3>3, <3>4, <3>5 DEF HRInv, HRUnique
    <2>6. HRDecided'
      BY <2>1, <2>2, <1>1, HRDecidedKept DEF HRInv
    <2>7. QED
      BY <1>1, <2>3, <2>4, <2>5, <2>6 DEF HRInv
  <1>4. QED
    BY <1>2, <1>3

\* Nothing is decided about a shift, so nothing is told of one that is deleted.
LEMMA DeleteShiftKeepsHR ==
    ASSUME NEW w \in Workers, NEW r \in Rows("shift"), HRInv, DeleteShift(w, r)
    PROVE  HRInv'
  <1>1. /\ TasksOK'
        /\ task'[w] = Idle /\ served' = served + 1 /\ served \in Nat
        /\ \A v \in Workers \ {w} : task'[v] = task[v]
    BY StartKeeps DEF HRInv, DeleteShift, Statement, Announcing, Idle, TasksOK
  <1>2. news' = news /\ stale' = stale
    BY DEF DeleteShift, Statement
  <1>3. rows' = [x \in DOMAIN rows \ {r} |-> rows[x]]
    BY DEF DeleteShift, Statement, Without
  <1>4. /\ DOMAIN rows' = DOMAIN rows \ {r} /\ rows[r].kind = "shift"
        /\ \A s \in DOMAIN rows' : rows'[s] = rows[s]
    BY <1>3 DEF Rows
  <1>5. HRRowsOK'
    <2>1. ASSUME NEW s \in DOMAIN rows' PROVE HRRowOK(s)'
      <3>1. HRRowOK(s) /\ rows'[s] = rows[s]
        BY <1>4 DEF HRInv, HRRowsOK
      <3>2. QED
        BY <3>1, <1>1 DEF HRRowOK
    <2>2. QED
      BY <2>1 DEF HRRowsOK
  <1>6. HRTasks'
    BY <1>1, <1>4, HRTasksKept DEF HRInv
  <1>7. HRUnique'
    <2>1. /\ Open' = Open /\ Rows("payroll")' = Rows("payroll")
          /\ Rows("shift")' \subseteq Rows("shift")
      BY <1>4 DEF Open, Rows
    <2>2. \A s \in Rows("shift")' \cup Rows("payroll") : rows'[s] = rows[s]
      BY <2>1, <1>4 DEF Rows
    <2>3. QED
      BY <1>2, <2>1, <2>2 DEF HRInv, HRUnique
  <1>8. HRDecided'
    BY <1>1, <1>2, <1>4, HRDecidedKept DEF HRInv
  <1>9. QED
    BY <1>1, <1>5, <1>6, <1>7, <1>8 DEF HRInv

\* Components are set, events published, or a request ends.
LEMMA RecordStepsKeepHR ==
    ASSUME NEW w \in Workers, HRInv, RecordSteps(w)
    PROVE  HRInv'
  <1>1. CASE SetComponent(w)
    <2> DEFINE t == task[w]
               u == IF t.parts = <<>> THEN Announcing(t.id, t.row, t.type)
                    ELSE [t EXCEPT !.parts = Tail(@)]
    <2>1. t.op = "parts" /\ t.type \notin Decisions /\ Continue(w, u) /\ stale' = stale /\ news' = news
      BY <1>1 DEF SetComponent, At, HRInv, HRTasks, HRTask
    <2>2. /\ u.op \in {"idle", "publish", "parts"} /\ (u.op = "idle" \/ u.id = t.id)
          /\ u.op # "idle" => u.type = t.type
      <3>1. CASE t.parts = <<>>
        BY <3>1 DEF Announcing, Idle
      <3>2. CASE t.parts # <<>>
        BY <3>2, <2>1
      <3>3. QED
        BY <3>1, <3>2
    <2>3. /\ TasksOK'
          /\ task'[w] = u /\ served' = served
          /\ \A v \in Workers \ {w} : task'[v] = task[v]
      BY <2>1, <2>2, ContinueKeeps DEF HRInv
    <2>4. \/ rows' = rows
          \/ t.row \in DOMAIN rows
             /\ rows' = [rows EXCEPT ![t.row].parts = @ \cup {Head(t.parts)}]
      BY <1>1 DEF SetComponent
    <2>5. /\ DOMAIN rows' = DOMAIN rows
          /\ \A s \in DOMAIN rows : /\ DOMAIN rows'[s] = DOMAIN rows[s]
                                    /\ \A c \in DOMAIN rows[s] \ {"parts"} : rows'[s][c] = rows[s][c]
      BY <2>4
    <2>6. \A s \in DOMAIN rows :
             /\ rows'[s].kind = rows[s].kind
             /\ rows'[s].status = rows[s].status
             /\ rows[s].kind = "shift" => rows'[s].slot = rows[s].slot
             /\ rows[s].kind = "payroll" => rows'[s].month = rows[s].month
      BY <2>5 DEF HRInv, HRRowsOK, HRRowOK
    <2>7. HRRowsOK'
      BY <2>3, <2>5, <2>6 DEF HRInv, HRRowsOK, HRRowOK
    <2>8. HRTasks'
      <3>1. ASSUME NEW v \in Workers PROVE HRTask(task[v])'
        <4>1. CASE v = w
          BY <4>1, <2>1, <2>2, <2>3 DEF HRTask, Inserting, Deciding, Decisions
        <4>2. CASE v # w
          <5>1. task'[v] = task[v] /\ HRTask(task[v])
            BY <4>2, <2>3 DEF HRInv, HRTasks
          <5>2. QED
            BY <5>1, <2>5, <2>6 DEF HRTask, PlannedRow, Inserting, Deciding, Decisions
        <4>3. QED
          BY <4>1, <4>2
      <3>2. QED
        BY <3>1 DEF HRTasks
    <2>9. HRUnique'
      BY <2>1, <2>5, <2>6 DEF HRInv, HRUnique, Open, Rows
    <2>10. HRDecided'
      <3>1. \A s \in DOMAIN rows : Told(s)' = Told(s)
        BY <2>1 DEF Told
      <3>2. \A v \in Workers, s \in DOMAIN rows : Telling(v, s)' => Telling(v, s)
        BY <2>1, <2>2, <2>3 DEF Telling
      <3>3. ASSUME NEW s \in DOMAIN rows \ stale PROVE DecidedOnce(s)'
        <4>1. DecidedOnce(s) /\ rows'[s].status = rows[s].status
          BY <3>3, <2>6 DEF HRInv, HRDecided
        <4>2. QED
          BY <3>1, <3>2, <4>1 DEF DecidedOnce
      <3>4. QED
        BY <2>1, <2>5, <2>6, <3>3 DEF HRInv, HRDecided
    <2>11. QED
      BY <2>3, <2>7, <2>8, <2>9, <2>10 DEF HRInv
  <1>2. CASE Publish(w) \/ Abandon(w)
    <2> DEFINE n == [type |-> task[w].type, row |-> task[w].row, id |-> task[w].id]
    <2>1. /\ Finish(w) /\ rows' = rows /\ stale' = stale
          /\ news' = news \/ (task[w].op = "publish" /\ news' = news \cup {n})
      BY <1>2 DEF Publish, Abandon, At, records
    <2>2. /\ TasksOK'
          /\ task'[w] = Idle /\ served' = served
          /\ \A v \in Workers \ {w} : task'[v] = task[v]
      BY <2>1, ContinueKeeps DEF HRInv, Finish, Idle
    <2>3. HRRowsOK' /\ HRTasks' /\ HRUnique'
      <3>1. HRRowsOK' /\ HRUnique'
        BY <2>1, <2>2 DEF HRInv, HRRowsOK, HRRowOK, HRUnique, Open, Rows
      <3>2. HRTasks'
        BY <2>1, <2>2, HRTasksKept DEF HRInv
      <3>3. QED
        BY <3>1, <3>2
    <2>4. HRDecided'
      <3>1. ASSUME NEW r \in DOMAIN rows \ stale PROVE DecidedOnce(r)'
        <4>1. DecidedOnce(r)
          BY <3>1 DEF HRInv, HRDecided
        <4>2. CASE Told(r)' = Told(r)
          BY <4>1, <4>2, <2>1, <2>2 DEF DecidedOnce, Telling, Idle
        <4>3. CASE Told(r)' # Told(r)
          <5>1. Telling(w, r) /\ Told(r)' = Told(r) \cup {n}
            BY <4>3, <2>1 DEF Told, Telling
          <5>2. QED
            BY <5>1, <4>1, <2>1, <2>2 DEF DecidedOnce, Telling, Idle
        <4>4. QED
          BY <4>2, <4>3
      <3>2. QED
        BY <3>1, <2>1 DEF HRInv, HRDecided, HRTasks, HRTask
    <2>5. QED
      BY <2>2, <2>3, <2>4 DEF HRInv
  <1>3. QED
    BY <1>1, <1>2 DEF RecordSteps

\* The requests of the HR service start: what they checked holds when they start.
LEMMA EndpointsKeepHR ==
    ASSUME NEW w \in Workers, HRInv,
           \/ EmployeeEndpoints(w) \/ ShiftEndpoints(w) \/ TimesheetEndpoints(w)
           \/ PayrollEndpoints(w) \/ AbsenceEndpoints(w)
    PROVE  HRInv'
  <1>1. New = <<served + 1, 0>> /\ New \notin DOMAIN rows
    BY DEF HRInv, HRRowsOK, HRRowOK, New, TasksOK
  <1>2. \A op, r, row : Plan(w, op, r, row)
          => /\ Start(w, [op |-> op, id |-> served + 1, row |-> r, copy |-> row])
             /\ UNCHANGED records
    BY DEF Plan
  <1>3. ASSUME NEW r \in DOMAIN rows, NEW op \in Deciding, Read(w, op, r),
               rows[r].kind # "shift", rows[r].status # "approved",
               (rows[r].kind = "employee") <=> (op = "terminate")
        PROVE  HRInv'
    BY <1>2, <1>3, BeginKeepsHR DEF Read, HRTask, Inserting, Deciding
  <1>4. CASE EmployeeEndpoints(w)
    <2>1. CASE HireEmployee(w)
      <3> DEFINE t == [op |-> "parts", id |-> served + 1, row |-> New,
                       parts |-> <<"employment", "salary">>, type |-> "hr.employee.hired"]
      <3>1. Start(w, t) /\ UNCHANGED <<stale, news>>
            /\ rows' = With(rows, New, [kind |-> "employee", status |-> "active", parts |-> {}])
        BY <2>1 DEF HireEmployee, SetParts
      <3>2. QED
        BY <3>1, AddKeepsHR DEF Decisions
    <2>2. ASSUME NEW r \in Rows("employee"), UpdateEmployee(w, r) PROVE HRInv'
      <3> DEFINE t == [op |-> "parts", id |-> served + 1, row |-> r, parts |-> <<"salary">>,
                       type |-> NoEvent]
      <3>1. Start(w, t) /\ UNCHANGED records
        BY <2>2 DEF UpdateEmployee, SetParts, records
      <3>2. HRTask(t)
        BY DEF HRTask, Inserting, Deciding, Decisions, NoEvent
      <3>3. QED
        BY <3>1, <3>2, BeginKeepsHR
    <2>3. ASSUME NEW r \in Rows("employee"), TerminateEmployee(w, r) PROVE HRInv'
      BY <2>3, <1>3 DEF TerminateEmployee, Rows, Deciding, HRInv, HRRowsOK, HRRowOK
    <2>4. QED
      BY <1>4, <2>1, <2>2, <2>3 DEF EmployeeEndpoints
  <1>5. CASE ShiftEndpoints(w)
    <2>1. ASSUME NEW slot \in Slots, CreateShift(w, slot) PROVE HRInv'
      <3> DEFINE t == [op |-> "create shift", id |-> served + 1, row |-> New, copy |-> Shift(slot)]
      <3>1. Start(w, t) /\ UNCHANGED records
        BY <2>1 DEF CreateShift, Plan
      <3>2. HRTask(t)
        BY <1>1 DEF Shift, HRTask, PlannedRow, Inserting, Deciding
      <3>3. QED
        BY <3>1, <3>2, BeginKeepsHR
    <2>2. ASSUME NEW r \in Rows("shift"), NEW slot \in Slots, UpdateShift(w, r, slot) PROVE HRInv'
      <3> DEFINE t == [op |-> "update shift", id |-> served + 1, row |-> r, copy |-> rows[r],
                       slot |-> slot]
      <3>1. Start(w, t) /\ UNCHANGED records /\ HRTask(t)
        BY <2>2 DEF UpdateShift, HRTask, Inserting, Deciding
      <3>2. QED
        BY <3>1, BeginKeepsHR
    <2>3. QED
      BY <1>5, <2>1, <2>2, DeleteShiftKeepsHR DEF ShiftEndpoints
  <1>6. CASE TimesheetEndpoints(w)
    <2>1. CASE ClockIn(w)
      <3> DEFINE t == [op |-> "clock in", id |-> served + 1, row |-> New,
                       copy |-> [kind |-> "timesheet", status |-> "open", out |-> 0]]
      <3>1. Start(w, t) /\ UNCHANGED records
        BY <2>1 DEF ClockIn, Plan
      <3>2. HRTask(t)
        BY <1>1 DEF HRTask, PlannedRow, Inserting, Deciding
      <3>3. QED
        BY <3>1, <3>2, BeginKeepsHR
    <2>2. ASSUME NEW r \in Rows("timesheet"), ClockOut(w, r) \/ ApproveTimesheet(w, r) PROVE HRInv'
      BY <2>2, <1>3 DEF ClockOut, ApproveTimesheet, Rows, Deciding
    <2>3. QED
      BY <1>6, <2>1, <2>2 DEF TimesheetEndpoints
  <1>7. CASE PayrollEndpoints(w)
    <2>1. ASSUME NEW month \in PayMonths, CalculatePayroll(w, month) PROVE HRInv'
      <3> DEFINE t == [op |-> "payroll", id |-> served + 1, row |-> New,
                       copy |-> [kind |-> "payroll", month |-> month, status |-> "draft"]]
      <3>1. Start(w, t) /\ UNCHANGED records
        BY <2>1 DEF CalculatePayroll, Plan
      <3>2. HRTask(t)
        BY <1>1 DEF HRTask, PlannedRow, Inserting, Deciding
      <3>3. QED
        BY <3>1, <3>2, BeginKeepsHR
    <2>2. ASSUME NEW r \in Rows("payroll"), ApprovePayroll(w, r) PROVE HRInv'
      BY <2>2, <1>3 DEF ApprovePayroll, Rows, Deciding
    <2>3. QED
      BY <1>7, <2>1, <2>2 DEF PayrollEndpoints
  <1>8. CASE AbsenceEndpoints(w)
    <2>1. CASE RequestAbsence(w)
      <3> DEFINE t == Announcing(served + 1, New, "hr.absence.requested")
      <3>1. /\ Start(w, t) /\ UNCHANGED <<stale, news>>
            /\ rows' = With(rows, New, [kind |-> "absence", status |-> "pending"])
        BY <2>1 DEF RequestAbsence, Add, Statement
      <3>2. t.op = "publish" /\ t.id = served + 1 /\ t.type = "hr.absence.requested"
        BY DEF Announcing, NoEvent
      <3>3. QED
        BY <3>1, <3>2, AddKeepsHR DEF Decisions
    <2>2. ASSUME NEW r \in Rows("absence"), ApproveAbsence(w, r) \/ RejectAbsence(w, r) PROVE HRInv'
      BY <2>2, <1>3 DEF ApproveAbsence, RejectAbsence, Rows, Deciding
    <2>3. QED
      BY <1>8, <2>1, <2>2 DEF AbsenceEndpoints
  <1>9. QED
    BY <1>4, <1>5, <1>6, <1>7, <1>8

\* Open timesheets, shifts at one time and payrolls of one month stay unique.
LEMMA WritesKeepHR ==
    ASSUME NEW w \in Workers, HRInv, HRWrites(w)
    PROVE  HRInv'
  <1>1. CASE InsertShift(w)
    <2> DEFINE fresh == \A s \in Rows("shift") : rows[s].slot # task[w].copy.slot
    <2> HIDE DEF fresh
    <2>1. /\ Insert(w, fresh, "hr.shift.created") /\ task[w].op = "create shift"
          /\ task[w].op \in Inserting /\ "hr.shift.created" \notin Decisions
      BY <1>1 DEF InsertShift, At, Inserting, Decisions, fresh
    <2>2. HRUnique'
      <3>1. /\ rows' = With(rows, task[w].row, task[w].copy) /\ task[w].row \notin DOMAIN rows
            /\ task[w].copy.kind = "shift" /\ stale \subseteq stale'
            /\ fresh \/ task[w].row \in stale'
        <4>1. CASE fresh
          BY <4>1, <2>1, InsertKeepsHR DEF PlannedRow
        <4>2. CASE ~fresh
          <5>1. Insert(w, FALSE, "hr.shift.created")
            BY <4>2, <2>1 DEF Insert
          <5>2. QED
            BY <5>1, <2>1, InsertKeepsHR DEF PlannedRow
        <4>3. QED
          BY <4>1, <4>2
      <3>2. QED
        BY <3>1 DEF HRInv, HRUnique, With, Open, Rows, fresh
    <2>3. QED
      BY <2>1, <2>2, InsertKeepsHR DEF HRInv
  <1>2. CASE CreateTimesheet(w)
    <2>1. /\ Insert(w, Open = {}, "hr.shift.started") /\ task[w].op = "clock in"
          /\ task[w].op \in Inserting /\ "hr.shift.started" \notin Decisions
      BY <1>2 DEF CreateTimesheet, At, Inserting, Decisions
    <2>2. HRUnique'
      <3>1. /\ rows' = With(rows, task[w].row, task[w].copy) /\ task[w].row \notin DOMAIN rows
            /\ task[w].copy.kind = "timesheet" /\ stale \subseteq stale'
            /\ Open = {} \/ task[w].row \in stale'
        BY <2>1, InsertKeepsHR DEF PlannedRow
      <3>2. QED
        BY <3>1 DEF HRInv, HRUnique, With, Open, Rows
    <2>3. QED
      BY <2>1, <2>2, InsertKeepsHR DEF HRInv
  <1>3. CASE CreatePayroll(w)
    <2>1. /\ Insert(w, TRUE, "hr.payroll.calculated") /\ task[w].op = "payroll"
          /\ task[w].op \in Inserting /\ "hr.payroll.calculated" \notin Decisions
          /\ \A r \in Rows("payroll") : rows[r].month # task[w].copy.month
      BY <1>3 DEF CreatePayroll, At, Inserting, Decisions
    <2>2. HRUnique'
      <3>1. /\ rows' = With(rows, task[w].row, task[w].copy) /\ task[w].row \notin DOMAIN rows
            /\ task[w].copy.kind = "payroll" /\ stale \subseteq stale'
        BY <2>1, InsertKeepsHR DEF PlannedRow
      <3>2. QED
        BY <3>1, <2>1 DEF HRInv, HRUnique, With, Open, Rows
    <2>3. QED
      BY <2>1, <2>2, InsertKeepsHR DEF HRInv
  <1>4. ASSUME NEW status \in {"closed", "approved", "rejected", "terminated"}, NEW type,
               Write(w, [status |-> status], type) \/ \E u : Write(w, [status |-> status, out |-> u], type),
               task[w].op \in Deciding, type \in Decisions => status = "approved",
               status = "approved" => task[w].op # "terminate"
        PROVE  HRInv'
    <2>1. CASE Write(w, [status |-> status], type)
      BY <2>1, <1>4, WriteKeepsHR
    <2>2. ASSUME NEW u, Write(w, [status |-> status, out |-> u], type) PROVE HRInv'
      BY <2>2, <1>4, WriteKeepsHR
    <2>3. QED
      BY <2>1, <2>2, <1>4
  <1>5. CASE WriteTermination(w)
    BY <1>5, <1>4 DEF WriteTermination, At, Deciding, Decisions
  <1>6. CASE UpdateTimesheet(w)
    BY <1>6, <1>4 DEF UpdateTimesheet, At, Deciding, Decisions
  <1>7. CASE UpdatePayroll(w)
    BY <1>7, <1>4 DEF UpdatePayroll, At, Deciding, Decisions
  <1>8. CASE UpdateAbsence(w)
    BY <1>8, <1>4 DEF UpdateAbsence, At, Deciding, Decisions, NoEvent
  <1>9. QED
    BY <1>1, <1>2, <1>3, <1>5, <1>6, <1>7, <1>8, WriteShiftKeepsHR DEF HRWrites

\* One employee and one open timesheet are there at the start.
LEMMA HRInitially == InitRecords(HRRows) => HRInv
  <1> SUFFICES ASSUME InitRecords(HRRows) PROVE HRInv
    OBVIOUS
  <1>1. /\ rows = HRRows /\ stale = {} /\ news = {} /\ served = 0
        /\ task = [w \in Workers |-> Idle]
    BY DEF InitRecords, InitWork
  <1>2. /\ DOMAIN rows = {Employee, <<0, 9>>}
        /\ \A r \in DOMAIN rows :
             rows[r] = IF r = Employee
                       THEN [kind |-> "employee", status |-> "active", parts |-> {"salary"}]
                       ELSE [kind |-> "timesheet", status |-> "open", out |-> 0]
    BY <1>1 DEF HRRows
  <1>3. \A r \in DOMAIN rows : \E i \in 0..0, n \in Nat : r = <<i, n>>
    BY <1>2, HRAssumption
  <1>4. TasksOK /\ HRRowsOK /\ HRTasks
    <2>1. TasksOK
      BY <1>1 DEF TasksOK, Idle
    <2>2. HRRowsOK
      <3>1. ASSUME NEW r \in DOMAIN rows PROVE HRRowOK(r)
        <4>1. \E i \in 0..served, n \in Nat : r = <<i, n>>
          BY <1>1, <1>3
        <4>2. QED
          BY <4>1, <1>2 DEF HRRowOK
      <3>2. QED
        BY <3>1 DEF HRRowsOK
    <2>3. HRTasks
      BY <1>1 DEF HRTasks, HRTask, Idle, Inserting, Deciding
    <2>4. QED
      BY <2>1, <2>2, <2>3
  <1>5. HRUnique
    BY <1>2 DEF HRUnique, Open, Rows
  <1>6. HRDecided
    BY <1>1 DEF HRDecided, DecidedOnce, Told, Telling, Idle
  <1>7. QED
    BY <1>4, <1>5, <1>6 DEF HRInv

\* ClockIn, CreateShift, CalculatePayroll and the approvals (hr/service.go): however
\* many requests overlap, one open timesheet, one shift at a time and one decision
\* exist for rows that were not written over, and one payroll a month in any case.
THEOREM DecidedOnceOnly == HRSpec => []WorkIsDecidedOnce
  <1>1. InitRecords(HRRows) => HRInv
    BY HRInitially
  <1>2. HRInv /\ [HRNext]_recordVars => HRInv'
    <2> SUFFICES ASSUME HRInv, [HRNext]_recordVars PROVE HRInv'
      OBVIOUS
    <2>1. CASE UNCHANGED recordVars
      <3>1. rows' = rows /\ stale' = stale /\ news' = news /\ task' = task /\ served' = served
        BY <2>1 DEF recordVars, records, work
      <3>2. TasksOK' /\ HRRowsOK' /\ HRUnique'
        BY <3>1 DEF HRInv, TasksOK, HRRowsOK, HRRowOK, HRUnique, Open, Rows
      <3>3. HRTasks'
        BY <3>1 DEF HRInv, HRTasks, HRTask, PlannedRow, Inserting, Deciding, Decisions
      <3>4. HRDecided'
        BY <3>1 DEF HRInv, HRDecided, DecidedOnce, Told, Telling, Decisions
      <3>5. QED
        BY <3>2, <3>3, <3>4 DEF HRInv
    <2>2. CASE HRNext
      BY <2>2, EndpointsKeepHR, WritesKeepHR, RecordStepsKeepHR DEF HRNext
    <2>3. QED
      BY <2>1, <2>2
  <1>3. HRInv => WorkIsDecidedOnce
    <2> SUFFICES ASSUME HRInv PROVE WorkIsDecidedOnce
      OBVIOUS
    <2>1. ASSUME NEW r \in DOMAIN rows \ stale, NEW type \in Decisions
          PROVE  Cardinality(Announced(r, type)) <= 1
      <3>1. \A m, n \in Announced(r, type) : m = n
        BY <2>1 DEF HRInv, HRDecided, DecidedOnce, Told, Announced
      <3>2. Cardinality(Announced(r, type)) \in {0, 1}
        BY <3>1, AtMostOne
      <3>3. QED
        BY <3>2
    <2>2. QED
      BY <2>1 DEF WorkIsDecidedOnce, HRInv, HRUnique
  <1>4. QED
    BY <1>1, <1>2, <1>3, PTL DEF HRSpec

-----------------------------------------------------------------------------
(* Logistics: stops are visited in order *)

\* Stops are numbered as they are ordered; all else of a request is its row 0.
LogisticsRowOK(r) ==
    /\ \E i \in 0..served, n \in Nat : r = <<i, n>>
    /\ "kind" \in DOMAIN rows[r]
    /\ rows[r].kind = "stop" =>
         /\ {"route", "order", "status"} \subseteq DOMAIN rows[r]
         /\ rows[r].route = <<r[1], 0>> /\ rows[r].order = r[2]
    /\ rows[r].kind # "stop" => r[2] = 0

LogisticsRowsOK == \A r \in DOMAIN rows : LogisticsRowOK(r)

\* A stop that was completed, and that nothing overtook.
Passed(p) == rows[p].status = "completed" \/ p \in stale

LogisticsTask(t) ==
    /\ t.op = "stops" =>
         /\ {"op", "id", "row", "next"} \subseteq DOMAIN t
         /\ t.next \in Nat \ {0} /\ t.row = <<t.id, 0>>
         /\ \A s \in Rows("stop") : s[1] = t.id => s[2] < t.next
    /\ t.op = "arrive" =>
         /\ t.row \in Rows("stop") /\ t.copy.status = "pending"
         /\ \A p \in Before(t.row) : Passed(p)
    /\ t.op = "complete stop" => t.row \in Rows("stop") /\ rows[t.row].status # "pending"
    /\ t.op \in {"start route", "complete route"} => t.row \in Rows("route")
    /\ t.op # "parts"

LogisticsTasks == \A w \in Workers : LogisticsTask(task[w])

\* The inductive invariant: an arrival that is under way saw its earlier stops
\* completed, and they are, but for those that are marked.
LogisticsInv == TasksOK /\ LogisticsRowsOK /\ LogisticsTasks /\ StopsAreVisitedInOrder

StopKept(s) ==
    /\ "kind" \in DOMAIN rows'[s] /\ rows'[s].kind = rows[s].kind
    /\ rows[s].kind = "stop" =>
         /\ {"route", "order", "status"} \subseteq DOMAIN rows'[s]
         /\ rows'[s].route = rows[s].route /\ rows'[s].order = rows[s].order
         /\ rows'[s].status = "pending" => rows[s].status = "pending"
         /\ rows[s].status = "pending" /\ rows'[s].status # "pending" =>
              \A p \in Before(s) : Passed(p)
         /\ rows[s].status = "completed" => rows'[s].status = "completed" \/ s \in stale'

\* A new stop comes last on its route, and no earlier stop is set back unseen.
LEMMA StepKeepsLogistics ==
    ASSUME NEW w \in Workers, LogisticsInv, TasksOK', NEW new,
           new \notin DOMAIN rows,
           served' \in {served, served + 1},
           DOMAIN rows' = DOMAIN rows \/ DOMAIN rows' = DOMAIN rows \cup {new},
           new \in DOMAIN rows' => LogisticsRowOK(new)',
           new \in DOMAIN rows' /\ rows'[new].kind = "stop" =>
               /\ rows'[new].status = "pending"
               /\ \A s \in Rows("stop") : s[1] = new[1] => s[2] < new[2]
               /\ \A v \in Workers \ {w} : task[v].op = "stops" => task[v].id # new[1],
           \A s \in DOMAIN rows : StopKept(s),
           stale \subseteq stale',
           \A v \in Workers \ {w} : task'[v] = task[v],
           LogisticsTask(task[w])'
    PROVE  LogisticsInv'
  <1>1. \A s \in Rows("stop") : s \in DOMAIN rows /\ rows[s].kind = "stop" /\ s # new
                                /\ LogisticsRowOK(s) /\ StopKept(s)
    BY DEF Rows, LogisticsInv, LogisticsRowsOK
  <1>2. \A s \in Rows("stop") : s \in Rows("stop")'
    BY <1>1 DEF Rows, StopKept
  <1>3. \A s \in Rows("stop")' : s = new \/ s \in Rows("stop")
    BY DEF Rows, StopKept
  <1>4. \A s \in Rows("stop") : Passed(s) => Passed(s)'
    BY <1>1 DEF Passed, StopKept
  <1>5. ASSUME NEW s \in Rows("stop") PROVE \A p \in Before(s)' : p \in Before(s)
    <2> SUFFICES ASSUME NEW p \in Before(s)' PROVE p \in Before(s)
      OBVIOUS
    <2>1. p \in Rows("stop")' /\ rows'[p].route = rows'[s].route /\ rows'[p].order < rows'[s].order
      BY DEF Before, StopsOf
    <2>2. rows'[s].route = <<s[1], 0>> /\ rows'[s].order = s[2]
      BY <1>1 DEF LogisticsRowOK, StopKept
    <2>3. CASE p = new
      <3>1. rows'[new].kind = "stop" /\ new \in DOMAIN rows'
        BY <2>1, <2>3 DEF Rows
      <3>2. rows'[new].route = <<new[1], 0>> /\ rows'[new].order = new[2]
        BY <3>1 DEF LogisticsRowOK
      <3>3. new[1] = s[1] /\ new[2] < s[2]
        BY <2>1, <2>2, <2>3, <3>2
      <3>4. s[2] \in Nat /\ new[2] \in Nat
        BY <3>1, <1>1 DEF LogisticsRowOK
      <3>5. QED
        BY <3>1, <3>3, <3>4
    <2>4. CASE p # new
      <3>1. p \in Rows("stop") /\ StopKept(p) /\ StopKept(s) /\ rows[p].kind = "stop" /\ rows[s].kind = "stop"
        BY <1>1, <1>3, <2>1, <2>4
      <3>2. QED
        BY <3>1, <2>1 DEF StopKept, Before, StopsOf
    <2>5. QED
      BY <2>3, <2>4
  <1>6. \A s \in Rows("stop") : \A p \in Before(s) : p \in Rows("stop")
    BY DEF Before, StopsOf
  <1>7. LogisticsRowsOK'
    <2>1. ASSUME NEW s \in DOMAIN rows PROVE LogisticsRowOK(s)'
      <3>1. LogisticsRowOK(s) /\ StopKept(s)
        BY DEF LogisticsInv, LogisticsRowsOK
      <3>2. \E i \in 0..served', n \in Nat : s = <<i, n>>
        BY <3>1 DEF LogisticsRowOK, LogisticsInv, TasksOK
      <3>3. QED
        BY <3>1, <3>2 DEF LogisticsRowOK, StopKept
    <2>2. QED
      BY <2>1 DEF LogisticsRowsOK
  <1>8. LogisticsTasks'
    <2>1. ASSUME NEW v \in Workers, v # w PROVE LogisticsTask(task[v])'
      <3>1. task'[v] = task[v] /\ LogisticsTask(task[v])
        BY <2>1 DEF LogisticsInv, LogisticsTasks
      <3>2. (task[v].op = "stops" =>
               /\ {"op", "id", "row", "next"} \subseteq DOMAIN task[v]
               /\ task[v].next \in Nat \ {0} /\ task[v].row = <<task[v].id, 0>>
               /\ \A s \in Rows("stop") : s[1] = task[v].id => s[2] < task[v].next)'
        BY <2>1, <3>1, <1>3 DEF LogisticsTask, Rows
      <3>3. (task[v].op = "arrive" =>
               /\ task[v].row \in Rows("stop") /\ task[v].copy.status = "pending"
               /\ \A p \in Before(task[v].row) : Passed(p))'
        <4>1. CASE task[v].op = "arrive"
          <5>1. PICK s \in Rows("stop") : s = task[v].row
            BY <4>1, <3>1 DEF LogisticsTask
          <5>2. \A p \in Before(s)' : Passed(p)'
            BY <5>1, <4>1, <3>1, <1>4, <1>5, <1>6 DEF LogisticsTask
          <5>3. QED
            BY <5>1, <5>2, <4>1, <3>1, <1>2 DEF LogisticsTask, Before
        <4>2. QED
          BY <4>1, <3>1
      <3>4. (task[v].op = "complete stop" =>
               task[v].row \in Rows("stop") /\ rows[task[v].row].status # "pending")'
        BY <3>1, <1>1, <1>2 DEF LogisticsTask, StopKept
      <3>5. (task[v].op \in {"start route", "complete route"} => task[v].row \in Rows("route"))'
        BY <3>1 DEF LogisticsTask, StopKept, Rows
      <3>6. QED
        BY <3>1, <3>2, <3>3, <3>4, <3>5 DEF LogisticsTask
    <2>2. QED
      BY <2>1 DEF LogisticsTasks
  <1>9. StopsAreVisitedInOrder'
    <2> SUFFICES ASSUME NEW s \in Rows("stop")', rows'[s].status # "pending", NEW p \in Before(s)'
                 PROVE  Passed(p)'
      BY DEF StopsAreVisitedInOrder, Passed
    <2>1. s \in Rows("stop") /\ StopKept(s) /\ rows[s].kind = "stop"
      BY <1>1, <1>3 DEF Rows
    <2>2. p \in Before(s) /\ p \in Rows("stop")
      BY <2>1, <1>5, <1>6
    <2>3. Passed(p)
      BY <2>1, <2>2 DEF StopKept, LogisticsInv, StopsAreVisitedInOrder, Passed
    <2>4. QED
      BY <2>2, <2>3, <1>4
  <1>10. QED
    BY <1>7, <1>8, <1>9 DEF LogisticsInv

\* No row has the id of the next request.
LEMMA NewIsFresh ==
    ASSUME LogisticsInv
    PROVE  New = <<served + 1, 0>> /\ New \notin DOMAIN rows /\ served \in Nat
  BY DEF LogisticsInv, LogisticsRowsOK, LogisticsRowOK, New, TasksOK

\* Requests that only read, and those that are over.
LEMMA QuietKeepsLogistics ==
    ASSUME NEW w \in Workers, LogisticsInv, TasksOK', rows' = rows, stale' = stale,
           served' \in {served, served + 1}, \A v \in Workers \ {w} : task'[v] = task[v],
           LogisticsTask(task[w])'
    PROVE  LogisticsInv'
  <1>1. <<served + 1, 0>> \notin DOMAIN rows
    BY NewIsFresh
  <1>2. \A s \in DOMAIN rows : StopKept(s)
    BY DEF StopKept, LogisticsInv, LogisticsRowsOK, LogisticsRowOK
  <1>3. QED
    BY <1>1, <1>2, StepKeepsLogistics

\* A request that has read a row and checked the copy.
LEMMA ReadKeepsLogistics ==
    ASSUME NEW w \in Workers, NEW op, NEW r, LogisticsInv, Read(w, op, r),
           op \in {"arrive", "complete stop", "start route", "complete route"},
           op \in {"arrive", "complete stop"} => r \in Rows("stop"),
           op = "arrive" => rows[r].status = "pending" /\ \A p \in Before(r) : Passed(p),
           op = "complete stop" => rows[r].status # "pending",
           op \in {"start route", "complete route"} => r \in Rows("route")
    PROVE  LogisticsInv'
  <1> DEFINE t == [op |-> op, id |-> served + 1, row |-> r, copy |-> rows[r]]
  <1>1. Start(w, t) /\ rows' = rows /\ stale' = stale
    BY DEF Read, Plan, records
  <1>2. /\ TasksOK' /\ task'[w] = t /\ served' = served + 1
        /\ \A v \in Workers \ {w} : task'[v] = task[v]
    <2>1. t.id = served + 1
      OBVIOUS
    <2> HIDE DEF t
    <2>2. QED
      BY <1>1, <2>1, StartKeeps DEF LogisticsInv
  <1>3. LogisticsTask(task[w])'
    <2>1. t.op = op /\ t.row = r /\ t.copy = rows[r]
      OBVIOUS
    <2> HIDE DEF t
    <2>2. Rows("stop")' = Rows("stop") /\ Rows("route")' = Rows("route")
      BY <1>1 DEF Rows
    <2>3. \A s : Before(s)' = Before(s) /\ Passed(s)' = Passed(s)
      BY <1>1 DEF Before, StopsOf, Rows, Passed
    <2>4. QED
      BY <1>1, <1>2, <2>1, <2>2, <2>3 DEF LogisticsTask
  <1>4. QED
    BY <1>1, <1>2, <1>3, QuietKeepsLogistics

\* A stop is written by its id; a route is no stop.
LEMMA WriteKeepsLogistics ==
    ASSUME NEW w \in Workers, NEW status, NEW type, LogisticsInv, Write(w, [status |-> status], type),
           \/ task[w].op = "arrive" /\ status = "arrived"
           \/ task[w].op = "complete stop" /\ status = "completed"
           \/ task[w].op \in {"start route", "complete route"}
    PROVE  LogisticsInv'
  <1>1. PICK r : r = task[w].row
    OBVIOUS
  <1> DEFINE t == Announcing(task[w].id, r, type)
  <1>2. t.op = "idle" \/ (t.op = "publish" /\ t.id = task[w].id)
    BY DEF Announcing, Idle
  <1>3. r \in DOMAIN rows /\ LogisticsRowOK(r)
    BY <1>1 DEF LogisticsInv, LogisticsTasks, LogisticsTask, Rows, LogisticsRowsOK
  <1>4. /\ rows' = [rows EXCEPT ![r] = Updated(@, [status |-> status])] /\ Continue(w, t)
        /\ stale' = IF rows[r] = task[w].copy THEN stale ELSE stale \cup {r}
    BY <1>1, <1>3 DEF Write
  <1>5. /\ TasksOK' /\ task'[w] = t /\ served' = served
        /\ \A v \in Workers \ {w} : task'[v] = task[v]
    BY <1>2, <1>4, ContinueKeeps DEF LogisticsInv
  <1>6. LogisticsTask(task[w])'
    BY <1>2, <1>5 DEF LogisticsTask
  <1>7. /\ DOMAIN rows' = DOMAIN rows /\ rows'[r].status = status
        /\ \A s \in DOMAIN rows : s # r => rows'[s] = rows[s]
        /\ DOMAIN rows[r] \subseteq DOMAIN rows'[r]
        /\ \A column \in DOMAIN rows[r] : column # "status" => rows'[r][column] = rows[r][column]
    BY <1>3, <1>4 DEF Updated
  <1>8. StopKept(r)
    <2>1. CASE rows[r].kind = "stop"
      <3>1. /\ r \in Rows("stop") /\ r \notin Rows("route")
            /\ task[w].op \in {"arrive", "complete stop"} /\ LogisticsTask(task[w])
        BY <2>1, <1>1, <1>3 DEF Rows, LogisticsInv, LogisticsTasks, LogisticsTask
      <3>2. /\ "kind" \in DOMAIN rows'[r] /\ rows'[r].kind = "stop"
            /\ {"route", "order", "status"} \subseteq DOMAIN rows'[r]
            /\ rows'[r].route = rows[r].route /\ rows'[r].order = rows[r].order
        BY <2>1, <1>3, <1>7 DEF LogisticsRowOK
      <3>3. rows'[r].status # "pending"
        BY <3>1, <1>7
      <3>4. rows[r].status = "pending" => \A p \in Before(r) : Passed(p)
        BY <3>1, <1>1 DEF LogisticsTask
      <3>5. rows[r].status = "completed" => rows'[r].status = "completed" \/ r \in stale'
        BY <3>1, <1>1, <1>4, <1>7 DEF LogisticsTask
      <3>6. QED
        BY <2>1, <3>2, <3>3, <3>4, <3>5 DEF StopKept
    <2>2. CASE rows[r].kind # "stop"
      BY <2>2, <1>3, <1>7 DEF StopKept, LogisticsRowOK
    <2>3. QED
      BY <2>1, <2>2
  <1>9. \A s \in DOMAIN rows : StopKept(s)
    <2>1. ASSUME NEW s \in DOMAIN rows, s # r PROVE StopKept(s)
      BY <2>1, <1>7 DEF StopKept, LogisticsInv, LogisticsRowsOK, LogisticsRowOK
    <2>2. QED
      BY <2>1, <1>8
  <1>10. stale \subseteq stale'
    BY <1>4
  <1>11. QED
    BY <1>5, <1>6, <1>7, <1>9, <1>10, NewIsFresh, StepKeepsLogistics

\* Routes, stops one by one, and positions are added.
LEMMA InsertionsKeepLogistics ==
    ASSUME NEW w \in Workers, LogisticsInv, CreateRoute(w) \/ CreateStops(w) \/ UpdateGeo(w)
    PROVE  LogisticsInv'
  <1>1. \A s \in DOMAIN rows : LogisticsRowOK(s)
    BY DEF LogisticsInv, LogisticsRowsOK
  <1>2. ASSUME NEW t, NEW row, Start(w, t), rows' = With(rows, New, row), stale' = stale,
               "kind" \in DOMAIN row, row.kind # "stop",
               \/ /\ t.op = "stops" /\ {"op", "id", "row", "next"} \subseteq DOMAIN t /\ t.next = 1
                  /\ t.row = New /\ t.id = served + 1
               \/ t.op = "publish" /\ t.id = served + 1
               \/ t.op = "idle"
        PROVE  LogisticsInv'
    <2>1. PICK new : new = <<served + 1, 0>>
      OBVIOUS
    <2>2. new \notin DOMAIN rows /\ served \in Nat /\ rows' = With(rows, new, row)
      BY <2>1, <1>2, NewIsFresh DEF New
    <2>3. /\ TasksOK' /\ task'[w] = t /\ served' = served + 1
          /\ \A v \in Workers \ {w} : task'[v] = task[v]
      BY <1>2, StartKeeps DEF LogisticsInv
    <2>4. /\ DOMAIN rows' = DOMAIN rows \cup {new} /\ rows'[new] = row
          /\ \A s \in DOMAIN rows : rows'[s] = rows[s]
      BY <2>2 DEF With
    <2>5. \A s \in DOMAIN rows : StopKept(s)
      BY <2>4, <1>1, <1>2 DEF StopKept, LogisticsRowOK
    <2>6. LogisticsRowOK(new)'
      <3>1. \E i \in 0..served', n \in Nat : new = <<i, n>>
        BY <2>1, <2>2, <2>3
      <3>2. QED
        BY <3>1, <2>1, <2>4, <1>2 DEF LogisticsRowOK
    <2>7. LogisticsTask(task[w])'
      <3>1. \A s \in Rows("stop")' : s \in DOMAIN rows
        BY <2>4, <1>2 DEF Rows
      <3>2. \A s \in DOMAIN rows : s[1] # served + 1
        BY <1>1, <2>2 DEF LogisticsRowOK
      <3>3. CASE t.op = "stops"
        <4>1. /\ t.next = 1 /\ t.row = <<t.id, 0>> /\ t.id = served + 1
              /\ {"op", "id", "row", "next"} \subseteq DOMAIN t
          BY <3>3, <1>2 DEF New
        <4>2. \A s \in Rows("stop")' : s[1] # t.id
          BY <3>1, <3>2, <4>1
        <4>3. QED
          <5>1. (task[w].op = "stops" =>
                   /\ {"op", "id", "row", "next"} \subseteq DOMAIN task[w]
                   /\ task[w].next \in Nat \ {0} /\ task[w].row = <<task[w].id, 0>>
                   /\ \A s \in Rows("stop") : s[1] = task[w].id => s[2] < task[w].next)'
            BY <4>1, <4>2, <2>3
          <5>2. QED
            BY <3>3, <5>1, <2>3 DEF LogisticsTask
      <3>4. CASE t.op # "stops"
        BY <3>4, <2>3, <1>2 DEF LogisticsTask
      <3>5. QED
        BY <3>3, <3>4
    <2>8. QED
      BY <1>2, <2>2, <2>3, <2>4, <2>5, <2>6, <2>7, StepKeepsLogistics
  <1>3. CASE CreateRoute(w)
    <2> DEFINE t == [op |-> "stops", id |-> served + 1, row |-> New, next |-> 1]
    <2>1. Start(w, t) /\ rows' = With(rows, New, [kind |-> "route", status |-> "planned"]) /\ stale' = stale
      BY <1>3 DEF CreateRoute
    <2>2. QED
      BY <2>1, <1>2
  <1>4. CASE UpdateGeo(w)
    <2> DEFINE t == Announcing(served + 1, New, "logistics.geo.updated")
    <2>1. Start(w, t) /\ rows' = With(rows, New, [kind |-> "geo"]) /\ stale' = stale
      BY <1>4 DEF UpdateGeo, Add, Statement
    <2>2. t.op = "publish" /\ t.id = served + 1
      BY DEF Announcing, NoEvent
    <2>3. "kind" \in DOMAIN [kind |-> "geo"] /\ [kind |-> "geo"].kind # "stop"
      OBVIOUS
    <2>4. QED
      BY <2>1, <2>2, <2>3, <1>2
  <1>5. CASE CreateStops(w)
    <2>1. PICK t : t = task[w]
      OBVIOUS
    <2>2. /\ t.op = "stops" /\ stale' = stale /\ t.id \in 1..served /\ served \in Nat
          /\ {"op", "id", "row", "next"} \subseteq DOMAIN t
          /\ t.next \in Nat \ {0} /\ t.row = <<t.id, 0>>
          /\ \A s \in Rows("stop") : s[1] = t.id => s[2] < t.next
      BY <1>5, <2>1 DEF CreateStops, At, LogisticsInv, LogisticsTasks, LogisticsTask, TasksOK
    <2>3. CASE t.next > StopCount
      <3> DEFINE u == Announcing(t.id, t.row, "logistics.route.created")
      <3>1. u.op = "publish" /\ u.id = t.id
        BY DEF Announcing, NoEvent
      <3>2. Continue(w, u) /\ rows' = rows
        BY <1>5, <2>1, <2>3 DEF CreateStops
      <3>3. /\ TasksOK' /\ task'[w] = u /\ served' = served
            /\ \A v \in Workers \ {w} : task'[v] = task[v]
        BY <2>1, <2>2, <3>1, <3>2, ContinueKeeps DEF LogisticsInv
      <3>4. LogisticsTask(task[w])'
        BY <3>1, <3>3 DEF LogisticsTask
      <3>5. QED
        BY <2>2, <3>2, <3>3, <3>4, QuietKeepsLogistics
    <2>4. CASE ~(t.next > StopCount)
      <3>1. PICK new : new = <<t.id, t.next>>
        OBVIOUS
      <3> DEFINE row == [kind |-> "stop", route |-> t.row, order |-> t.next, status |-> "pending"]
                 u == [t EXCEPT !.next = @ + 1]
      <3>2. rows' = With(rows, new, row) /\ Continue(w, u)
        BY <1>5, <2>1, <2>4, <3>1 DEF CreateStops
      <3>3. u.op = "stops" /\ u.id = t.id /\ u.row = t.row /\ u.next = t.next + 1 /\ DOMAIN u = DOMAIN t
        BY <2>2
      <3> HIDE DEF u
      <3>4. /\ TasksOK' /\ task'[w] = u /\ served' = served
            /\ \A v \in Workers \ {w} : task'[v] = task[v]
        BY <2>1, <2>2, <3>2, <3>3, ContinueKeeps DEF LogisticsInv
      <3>5. new \notin DOMAIN rows
        <4>1. new \in DOMAIN rows => rows[new].kind # "stop"
          BY <2>2, <3>1 DEF Rows
        <4>2. QED
          BY <4>1, <3>1, <2>2, <1>1 DEF LogisticsRowOK
      <3>6. /\ DOMAIN rows' = DOMAIN rows \cup {new} /\ rows'[new] = row
            /\ \A s \in DOMAIN rows : rows'[s] = rows[s]
        BY <3>2, <3>5 DEF With
      <3>7. \A s \in DOMAIN rows : StopKept(s)
        BY <3>6, <1>1 DEF StopKept, LogisticsRowOK
      <3>8. LogisticsRowOK(new)'
        <4>1. \E i \in 0..served', n \in Nat : new = <<i, n>>
          BY <2>2, <3>1, <3>4
        <4>2. QED
          BY <4>1, <3>1, <3>6, <2>2 DEF LogisticsRowOK
      <3>9. LogisticsTask(task[w])'
        <4>1. \A s \in Rows("stop")' : s = new \/ s \in Rows("stop")
          BY <3>6 DEF Rows
        <4>2. \A s \in Rows("stop")' : s[1] = t.id => s[2] < t.next + 1
          <5> SUFFICES ASSUME NEW s \in Rows("stop")', s[1] = t.id PROVE s[2] < t.next + 1
            OBVIOUS
          <5>1. CASE s = new
            BY <5>1, <3>1, <2>2
          <5>2. CASE s \in Rows("stop")
            <6>1. s[2] < t.next /\ s[2] \in Nat
              BY <5>2, <2>2, <1>1 DEF Rows, LogisticsRowOK
            <6>2. QED
              BY <6>1, <2>2
          <5>3. QED
            BY <4>1, <5>1, <5>2
        <4>3. QED
          <5>1. (task[w].op = "stops" =>
                   /\ {"op", "id", "row", "next"} \subseteq DOMAIN task[w]
                   /\ task[w].next \in Nat \ {0} /\ task[w].row = <<task[w].id, 0>>
                   /\ \A s \in Rows("stop") : s[1] = task[w].id => s[2] < task[w].next)'
            BY <4>2, <3>3, <3>4, <2>2
          <5>2. QED
            BY <5>1, <3>3, <3>4 DEF LogisticsTask
      <3>10. /\ rows'[new].status = "pending"
             /\ \A s \in Rows("stop") : s[1] = new[1] => s[2] < new[2]
             /\ \A v \in Workers \ {w} : task[v].op = "stops" => task[v].id # new[1]
        BY <3>1, <3>6, <2>1, <2>2 DEF LogisticsInv, TasksOK
      <3>11. QED
        BY <2>2, <3>4, <3>5, <3>6, <3>7, <3>8, <3>9, <3>10, StepKeepsLogistics
    <2>5. QED
      BY <2>3, <2>4
  <1>6. QED
    BY <1>3, <1>4, <1>5

\* Events are published, or a request ends.
LEMMA RecordStepsKeepLogistics ==
    ASSUME NEW w \in Workers, LogisticsInv, RecordSteps(w)
    PROVE  LogisticsInv'
  <1>1. /\ Finish(w) /\ rows' = rows /\ stale' = stale
    BY DEF LogisticsInv, LogisticsTasks, LogisticsTask, RecordSteps, SetComponent, Publish, Abandon, At, records
  <1>2. /\ TasksOK' /\ task'[w] = Idle /\ served' = served /\ served \in Nat
        /\ \A v \in Workers \ {w} : task'[v] = task[v]
    BY <1>1, ContinueKeeps DEF LogisticsInv, Finish, Idle, TasksOK
  <1>3. LogisticsTask(task[w])'
    BY <1>2 DEF LogisticsTask, Idle
  <1>4. QED
    BY <1>1, <1>2, <1>3, QuietKeepsLogistics

\* The requests about routes and stops, and their writes.
LEMMA EndpointsKeepLogistics ==
    ASSUME NEW w \in Workers, LogisticsInv,
           RouteEndpoints(w) \/ StopEndpoints(w) \/ UpdateRoute(w) \/ UpdateStop(w)
    PROVE  LogisticsInv'
  <1>1. ASSUME NEW r \in Rows("route"), StartRoute(w, r) \/ CompleteRoute(w, r) PROVE LogisticsInv'
    BY <1>1, ReadKeepsLogistics DEF StartRoute, CompleteRoute
  <1>2. ASSUME NEW s \in Rows("stop"), ArriveAtStop(w, s) PROVE LogisticsInv'
    <2>1. \A p \in Before(s) : Passed(p)
      BY <1>2 DEF ArriveAtStop, Passed
    <2>2. QED
      BY <1>2, <2>1, ReadKeepsLogistics DEF ArriveAtStop
  <1>3. ASSUME NEW s \in Rows("stop"), CompleteStop(w, s) PROVE LogisticsInv'
    BY <1>3, ReadKeepsLogistics DEF CompleteStop
  <1>4. CASE UpdateRoute(w) \/ UpdateStop(w)
    BY <1>4, WriteKeepsLogistics DEF UpdateRoute, UpdateStop, At
  <1>5. QED
    BY <1>1, <1>2, <1>3, <1>4, InsertionsKeepLogistics DEF RouteEndpoints, StopEndpoints

\* ArriveAtStop and CompleteStop (logistics/service.go:166): with any routes and
\* requests, a stop that was visited has every earlier stop of its route completed,
\* or that one was written over.
THEOREM StopsInOrder == LogisticsSpec => []StopsAreVisitedInOrder
  <1>1. InitRecords(LogisticsRows) => LogisticsInv
    <2> SUFFICES ASSUME InitRecords(LogisticsRows) PROVE LogisticsInv
      OBVIOUS
    <2>1. rows = LogisticsRows /\ served = 0 /\ task = [w \in Workers |-> Idle]
      BY DEF InitRecords, InitWork
    <2>2. ASSUME NEW r \in DOMAIN rows PROVE \E n \in 0..2 : r = <<0, n>>
      BY <2>1 DEF LogisticsRows
    <2>3. \A r \in DOMAIN rows :
            rows[r] = IF r[2] = 0 THEN [kind |-> "route", status |-> "in_progress"]
                      ELSE [kind |-> "stop", route |-> <<0, 0>>, order |-> r[2],
                            status |-> IF r[2] = 1 THEN "arrived" ELSE "pending"]
      BY <2>1 DEF LogisticsRows
    <2>4. TasksOK /\ LogisticsTasks
      BY <2>1 DEF TasksOK, LogisticsTasks, LogisticsTask, Idle
    <2>5. ASSUME NEW r \in DOMAIN rows PROVE LogisticsRowOK(r)
      <3>1. \E i \in 0..served, n \in Nat : r = <<i, n>>
        BY <2>1, <2>2
      <3>2. r[1] = 0
        BY <2>2
      <3>3. QED
        BY <3>1, <3>2, <2>3 DEF LogisticsRowOK
    <2>6. StopsAreVisitedInOrder
      BY <2>2, <2>3 DEF StopsAreVisitedInOrder, Before, StopsOf, Rows
    <2>7. QED
      BY <2>4, <2>5, <2>6 DEF LogisticsInv, LogisticsRowsOK
  <1>2. LogisticsInv /\ [LogisticsNext]_recordVars => LogisticsInv'
    <2> SUFFICES ASSUME LogisticsInv, [LogisticsNext]_recordVars PROVE LogisticsInv'
      OBVIOUS
    <2>1. CASE UNCHANGED recordVars
      <3>1. rows' = rows /\ stale' = stale /\ task' = task /\ served' = served
        BY <2>1 DEF recordVars, records, work
      <3>2. TasksOK' /\ LogisticsRowsOK'
        BY <3>1 DEF LogisticsInv, TasksOK, LogisticsRowsOK, LogisticsRowOK
      <3>3. LogisticsTasks' /\ StopsAreVisitedInOrder'
        BY <3>1 DEF LogisticsInv, LogisticsTasks, LogisticsTask, StopsAreVisitedInOrder, Before, StopsOf,
                    Rows, Passed
      <3>4. QED
        BY <3>2, <3>3 DEF LogisticsInv
    <2>2. CASE LogisticsNext
      BY <2>2, EndpointsKeepLogistics, InsertionsKeepLogistics, RecordStepsKeepLogistics DEF LogisticsNext
    <2>3. QED
      BY <2>1, <2>2
  <1>3. LogisticsInv => StopsAreVisitedInOrder
    BY DEF LogisticsInv
  <1>4. QED
    BY <1>1, <1>2, <1>3, PTL DEF LogisticsSpec

-----------------------------------------------------------------------------
(* Catalog: SKUs are unique *)

ProductColumns == {"sku", "category", "status", "checked"}

CatalogRowOK(r) ==
    /\ \E i \in 0..served, n \in Nat : r = <<i, n>>
    /\ "kind" \in DOMAIN rows[r]
    /\ rows[r].kind = "product" => ProductColumns \subseteq DOMAIN rows[r]

CatalogRowsOK == \A r \in DOMAIN rows : CatalogRowOK(r)

CatalogTask(t) ==
    /\ t.op = "product" =>
         /\ t.row = <<t.id, 0>> /\ t.row \notin DOMAIN rows
         /\ "kind" \in DOMAIN t.copy /\ t.copy.kind = "product"
         /\ ProductColumns \subseteq DOMAIN t.copy
    /\ t.op = "barcode" => t.row \in Rows("product")
    /\ t.op = "delete category" => t.row \in Rows("category")
    /\ t.op # "parts"

CatalogTasks == \A w \in Workers : CatalogTask(task[w])

\* The inductive invariant: what products and goroutines look like, and the property.
CatalogInv == TasksOK /\ CatalogRowsOK /\ CatalogTasks /\ SKUsAreUnique

\* A product keeps its SKU, or the mark that it was checked is gone.
ProductKept(s) ==
    /\ "kind" \in DOMAIN rows'[s] /\ rows'[s].kind = rows[s].kind
    /\ rows[s].kind = "product" =>
         /\ ProductColumns \subseteq DOMAIN rows'[s]
         /\ rows'[s].checked = FALSE
            \/ (rows'[s].checked = rows[s].checked /\ rows'[s].sku = rows[s].sku)

\* Products keep their SKU or lose the mark, and a row that is added is new.
LEMMA StepKeepsCatalogRows ==
    ASSUME NEW w \in Workers, CatalogInv, TasksOK', served' \in {served, served + 1},
           NEW new, DOMAIN rows \subseteq DOMAIN rows', DOMAIN rows' \subseteq DOMAIN rows \cup {new},
           new \in DOMAIN rows' => CatalogRowOK(new)',
           \A v \in Workers \ {w} : task[v].op = "product" => task[v].row # new,
           \A s \in DOMAIN rows : ProductKept(s),
           \A v \in Workers \ {w} : task'[v] = task[v],
           CatalogTask(task[w])'
    PROVE  CatalogRowsOK' /\ CatalogTasks'
  <1>1. ASSUME NEW s \in DOMAIN rows' PROVE CatalogRowOK(s)'
    <2>1. CASE s = new
      BY <1>1, <2>1
    <2>2. CASE s # new
      <3>1. s \in DOMAIN rows /\ CatalogRowOK(s) /\ ProductKept(s) /\ served \in Nat
        BY <1>1, <2>2 DEF CatalogInv, CatalogRowsOK, TasksOK
      <3>2. \E i \in 0..served', n \in Nat : s = <<i, n>>
        BY <3>1 DEF CatalogRowOK
      <3>3. QED
        BY <3>1, <3>2 DEF CatalogRowOK, ProductKept, ProductColumns
    <2>3. QED
      BY <2>1, <2>2
  <1>2. ASSUME NEW v \in Workers, v # w PROVE CatalogTask(task[v])'
    <2>1. task'[v] = task[v] /\ CatalogTask(task[v])
      BY <1>2 DEF CatalogInv, CatalogTasks
    <2>2. (task[v].op = "product" =>
             /\ task[v].row = <<task[v].id, 0>> /\ task[v].row \notin DOMAIN rows
             /\ "kind" \in DOMAIN task[v].copy /\ task[v].copy.kind = "product"
             /\ ProductColumns \subseteq DOMAIN task[v].copy)'
      BY <1>2, <2>1 DEF CatalogTask, ProductColumns
    <2>3. (task[v].op = "barcode" => task[v].row \in Rows("product"))'
      BY <2>1 DEF CatalogTask, Rows, ProductKept
    <2>4. (task[v].op = "delete category" => task[v].row \in Rows("category"))'
      BY <2>1 DEF CatalogTask, Rows, ProductKept
    <2>5. QED
      BY <2>1, <2>2, <2>3, <2>4 DEF CatalogTask
  <1>3. QED
    BY <1>1, <1>2 DEF CatalogRowsOK, CatalogTasks

\* No row has the id of the next request, and no goroutine is about to insert it.
LEMMA NewIsFreshInCatalog ==
    ASSUME CatalogInv
    PROVE  /\ New = <<served + 1, 0>> /\ New \notin DOMAIN rows /\ served \in Nat
           /\ \A v \in Workers : task[v].op = "product" => task[v].row # <<served + 1, 0>>
  <1>1. served \in Nat /\ New = <<served + 1, 0>> /\ New \notin DOMAIN rows
    BY DEF CatalogInv, CatalogRowsOK, CatalogRowOK, New, TasksOK
  <1>2. ASSUME NEW v \in Workers, task[v].op = "product" PROVE task[v].row # <<served + 1, 0>>
    <2>1. task[v].row = <<task[v].id, 0>> /\ task[v].id \in 1..served
      BY <1>2 DEF CatalogInv, CatalogTasks, CatalogTask, TasksOK
    <2>2. QED
      BY <2>1, <1>1
  <1>3. QED
    BY <1>1, <1>2

\* A step that inserts no product keeps the SKUs unique.
LEMMA StepKeepsCatalog ==
    ASSUME NEW w \in Workers, CatalogInv, TasksOK', served' \in {served, served + 1},
           NEW new, new = <<served + 1, 0>>,
           DOMAIN rows \subseteq DOMAIN rows', DOMAIN rows' \subseteq DOMAIN rows \cup {new},
           new \in DOMAIN rows' => CatalogRowOK(new)' /\ rows'[new].kind # "product",
           \A s \in DOMAIN rows : ProductKept(s), stale \subseteq stale',
           \A v \in Workers \ {w} : task'[v] = task[v],
           CatalogTask(task[w])'
    PROVE  CatalogInv'
  <1>1. CatalogRowsOK' /\ CatalogTasks'
    BY NewIsFreshInCatalog, StepKeepsCatalogRows
  <1>2. SKUsAreUnique'
    <2> SUFFICES ASSUME NEW r \in Rows("product")', NEW s \in Rows("product")', r # s,
                        rows'[r].sku = rows'[s].sku, rows'[r].sku # NoSKU
                 PROVE  {r, s} \cap stale' # {} \/ ~rows'[r].checked \/ ~rows'[s].checked
      BY DEF SKUsAreUnique
    <2>1. r \in Rows("product") /\ s \in Rows("product") /\ ProductKept(r) /\ ProductKept(s)
          /\ rows[r].kind = "product" /\ rows[s].kind = "product"
      BY DEF Rows, ProductKept
    <2>2. \/ rows[r].sku # rows[s].sku \/ rows[r].sku = NoSKU
          \/ {r, s} \cap stale # {} \/ ~rows[r].checked \/ ~rows[s].checked
      BY <2>1 DEF CatalogInv, SKUsAreUnique
    <2>3. QED
      BY <2>1, <2>2 DEF ProductKept
  <1>3. QED
    BY <1>1, <1>2 DEF CatalogInv

\* A product is inserted under a SKU that was free, or is marked.
LEMMA InsertProductKeeps ==
    ASSUME NEW w \in Workers, CatalogInv, InsertProduct(w)
    PROVE  CatalogInv'
  <1>1. PICK r : r = task[w].row
    OBVIOUS
  <1>2. PICK x : x = task[w].copy
    OBVIOUS
  <1> DEFINE t == Announcing(task[w].id, r, "catalog.product.created")
  <1>3. /\ task[w].op = "product" /\ rows' = With(rows, r, x) /\ Continue(w, t)
        /\ stale' = stale \/ stale' = stale \cup {r}
        /\ stale' = stale => FindBySKU(x.sku) = {} \/ r \in stale
    BY <1>1, <1>2 DEF InsertProduct, Insert, At
  <1>4. t.op = "publish" /\ t.id = task[w].id
    BY DEF Announcing, NoEvent
  <1>5. /\ TasksOK' /\ task'[w] = t /\ served' = served /\ served \in Nat
        /\ \A v \in Workers \ {w} : task'[v] = task[v]
    BY <1>3, <1>4, ContinueKeeps DEF CatalogInv, TasksOK
  <1>6. CatalogTask(task[w])'
    BY <1>4, <1>5 DEF CatalogTask
  <1>7. /\ r = <<task[w].id, 0>> /\ r \notin DOMAIN rows /\ task[w].id \in 1..served
        /\ "kind" \in DOMAIN x /\ x.kind = "product" /\ ProductColumns \subseteq DOMAIN x
    BY <1>1, <1>2, <1>3 DEF CatalogInv, CatalogTasks, CatalogTask, TasksOK
  <1>8. \A v \in Workers \ {w} : task[v].op = "product" => task[v].row # r
    <2>1. ASSUME NEW v \in Workers \ {w}, task[v].op = "product" PROVE task[v].row # r
      <3>1. task[v].row = <<task[v].id, 0>>
        BY <2>1 DEF CatalogInv, CatalogTasks, CatalogTask
      <3>2. task[v].id # task[w].id
        BY <2>1, <1>3 DEF CatalogInv, TasksOK
      <3>3. QED
        BY <3>1, <3>2, <1>7
    <2>2. QED
      BY <2>1
  <1>9. /\ DOMAIN rows' = DOMAIN rows \cup {r} /\ rows'[r] = x
        /\ \A s \in DOMAIN rows : rows'[s] = rows[s]
    BY <1>3, <1>7 DEF With
  <1>10. \A s \in DOMAIN rows : ProductKept(s)
    BY <1>9 DEF ProductKept, CatalogInv, CatalogRowsOK, CatalogRowOK
  <1>11. CatalogRowOK(r)'
    <2>1. \E i \in 0..served', n \in Nat : r = <<i, n>>
      BY <1>5, <1>7
    <2>2. QED
      BY <2>1, <1>7, <1>9 DEF CatalogRowOK, ProductColumns
  <1>12. CatalogRowsOK' /\ CatalogTasks'
    BY <1>5, <1>6, <1>8, <1>9, <1>10, <1>11, StepKeepsCatalogRows
  <1>13. SKUsAreUnique'
    <2>1. ASSUME NEW s \in Rows("product"), rows[s].sku = x.sku PROVE r \in stale'
      BY <2>1, <1>3 DEF FindBySKU
    <2>2. Rows("product")' = Rows("product") \cup {r}
      BY <1>7, <1>9 DEF Rows
    <2>3. \A s \in Rows("product") : rows'[s] = rows[s]
      BY <1>9 DEF Rows
    <2>4. stale \subseteq stale'
      BY <1>3
    <2>5. QED
      BY <2>1, <2>2, <2>3, <2>4, <1>9 DEF CatalogInv, SKUsAreUnique
  <1>14. QED
    BY <1>5, <1>12, <1>13 DEF CatalogInv

\* A step that leaves the rows alone.
LEMMA QuietKeepsCatalog ==
    ASSUME NEW w \in Workers, CatalogInv, TasksOK', served' \in {served, served + 1}, rows' = rows,
           stale' = stale, \A v \in Workers \ {w} : task'[v] = task[v], CatalogTask(task[w])'
    PROVE  CatalogInv'
  <1>1. <<served + 1, 0>> \notin DOMAIN rows
    BY NewIsFreshInCatalog
  <1>2. \A s \in DOMAIN rows : ProductKept(s)
    BY DEF ProductKept, CatalogInv, CatalogRowsOK, CatalogRowOK
  <1>3. QED
    BY <1>1, <1>2, StepKeepsCatalog

\* A step that sets columns of a row: not the SKU, or the mark with it.
LEMMA SetKeepsCatalog ==
    ASSUME NEW w \in Workers, CatalogInv, TasksOK', served' \in {served, served + 1},
           NEW r \in DOMAIN rows, DOMAIN rows' = DOMAIN rows,
           \A s \in DOMAIN rows \ {r} : rows'[s] = rows[s],
           DOMAIN rows[r] \subseteq DOMAIN rows'[r], rows'[r].kind = rows[r].kind,
           rows[r].kind = "product" =>
               rows'[r].checked = FALSE
               \/ (rows'[r].checked = rows[r].checked /\ rows'[r].sku = rows[r].sku),
           stale \subseteq stale',
           \A v \in Workers \ {w} : task'[v] = task[v], CatalogTask(task[w])'
    PROVE  CatalogInv'
  <1>1. <<served + 1, 0>> \notin DOMAIN rows
    BY NewIsFreshInCatalog
  <1>2. \A s \in DOMAIN rows : ProductKept(s)
    <2>1. ASSUME NEW s \in DOMAIN rows PROVE ProductKept(s)
      <3>1. CatalogRowOK(s)
        BY DEF CatalogInv, CatalogRowsOK
      <3>2. CASE s = r
        BY <3>1, <3>2 DEF ProductKept, CatalogRowOK, ProductColumns
      <3>3. CASE s # r
        BY <3>1, <3>3 DEF ProductKept, CatalogRowOK
      <3>4. QED
        BY <3>2, <3>3
    <2>2. QED
      BY <2>1
  <1>3. QED
    BY <1>1, <1>2, StepKeepsCatalog

\* The requests about products and categories start, or are one statement.
LEMMA EndpointsKeepCatalog ==
    ASSUME NEW w \in Workers, CatalogInv, ProductEndpoints(w) \/ CategoryEndpoints(w)
    PROVE  CatalogInv'
  <1>1. /\ New = <<served + 1, 0>> /\ New \notin DOMAIN rows /\ served \in Nat
        /\ \A r \in DOMAIN rows : CatalogRowOK(r)
    BY NewIsFreshInCatalog DEF CatalogInv, CatalogRowsOK
  <1>2. ASSUME NEW t, Start(w, t), UNCHANGED records, t.id = served + 1, CatalogTask(t)
        PROVE  CatalogInv'
    <2>1. /\ TasksOK' /\ task'[w] = t /\ served' = served + 1
          /\ \A v \in Workers \ {w} : task'[v] = task[v]
          /\ rows' = rows /\ stale' = stale
      BY <1>2, StartKeeps DEF CatalogInv, records
    <2>2. CatalogTask(task[w])'
      BY <1>2, <2>1 DEF CatalogTask, ProductColumns, Rows
    <2>3. QED
      BY <2>1, <2>2, QuietKeepsCatalog
  <1>3. ASSUME NEW r \in DOMAIN rows, NEW columns,
               DOMAIN columns \cap {"kind", "sku", "checked"} = {},
               NEW type, Set(w, r, columns, type)
        PROVE  CatalogInv'
    <2> DEFINE t == Announcing(served + 1, r, type)
    <2>1. t.op = "idle" \/ (t.op = "publish" /\ t.id = served + 1)
      BY DEF Announcing, Idle
    <2>2. Start(w, t) /\ rows' = [rows EXCEPT ![r] = Updated(@, columns)] /\ stale' = stale
      BY <1>3 DEF Set, Statement
    <2>3. /\ TasksOK' /\ task'[w] = t /\ served' = served + 1
          /\ \A v \in Workers \ {w} : task'[v] = task[v]
      BY <2>1, <2>2, StartKeeps DEF CatalogInv
    <2>4. CatalogTask(task[w])'
      BY <2>1, <2>3 DEF CatalogTask
    <2>5. /\ DOMAIN rows' = DOMAIN rows /\ \A s \in DOMAIN rows \ {r} : rows'[s] = rows[s]
          /\ DOMAIN rows[r] \subseteq DOMAIN rows'[r]
          /\ \A column \in DOMAIN rows[r] : column \notin DOMAIN columns =>
                                              rows'[r][column] = rows[r][column]
      BY <2>2 DEF Updated
    <2>6. rows'[r].kind = rows[r].kind
      BY <2>5, <1>1, <1>3 DEF CatalogRowOK
    <2>7. rows[r].kind = "product" =>
            rows'[r].checked = rows[r].checked /\ rows'[r].sku = rows[r].sku
      BY <2>5, <1>1, <1>3 DEF CatalogRowOK, ProductColumns
    <2>8. QED
      BY <2>2, <2>3, <2>4, <2>5, <2>6, <2>7, SetKeepsCatalog
  <1>4. ASSUME NEW sku, NEW code, NEW c, CreateProduct(w, sku, code, c) PROVE CatalogInv'
    <2>1. PICK checked :
            Plan(w, "product", New, Product(code, c, checked))
      BY <1>4 DEF CreateProduct
    <2> DEFINE t == [op |-> "product", id |-> served + 1, row |-> New,
                     copy |-> Product(code, c, checked)]
    <2>2. CatalogTask(t)
      BY <1>1 DEF CatalogTask, Product, ProductColumns
    <2>3. QED
      BY <2>1, <2>2, <1>2 DEF Plan
  <1>5. ASSUME NEW r \in Rows("product"), ArchiveProduct(w, r) PROVE CatalogInv'
    <2>1. PICK columns : columns = [status |-> "archived"]
      OBVIOUS
    <2>2. DOMAIN columns \cap {"kind", "sku", "checked"} = {} /\ r \in DOMAIN rows
      BY <2>1 DEF Rows
    <2>3. QED
      BY <1>5, <2>1, <2>2, <1>3 DEF ArchiveProduct
  <1>6. ASSUME NEW r \in Rows("product"), NEW code, NEW c, UpdateBarcode(w, r, code, c)
        PROVE  CatalogInv'
    <2>1. PICK t : t = [op |-> "barcode", id |-> served + 1, row |-> r, sku |-> code]
      OBVIOUS
    <2>2. Start(w, t) /\ rows' = [rows EXCEPT ![r].category = c] /\ stale' = stale
      BY <1>6, <2>1 DEF UpdateBarcode
    <2>3. /\ TasksOK' /\ task'[w] = t /\ served' = served + 1
          /\ \A v \in Workers \ {w} : task'[v] = task[v]
      BY <2>1, <2>2, StartKeeps DEF CatalogInv
    <2>4. r \in DOMAIN rows /\ rows[r].kind = "product" /\ CatalogRowOK(r)
      BY <1>1 DEF Rows
    <2>5. /\ DOMAIN rows' = DOMAIN rows /\ \A s \in DOMAIN rows \ {r} : rows'[s] = rows[s]
          /\ DOMAIN rows[r] \subseteq DOMAIN rows'[r] /\ rows'[r].kind = rows[r].kind
          /\ rows'[r].checked = rows[r].checked /\ rows'[r].sku = rows[r].sku
      BY <2>2, <2>4 DEF CatalogRowOK, ProductColumns
    <2>6. CatalogTask(task[w])'
      BY <2>1, <2>3, <2>4, <2>5 DEF CatalogTask, Rows
    <2>7. QED
      BY <2>2, <2>3, <2>4, <2>5, <2>6, SetKeepsCatalog
  <1>7. CASE CreateCategory(w)
    <2>1. PICK new : new = <<served + 1, 0>>
      OBVIOUS
    <2>2. PICK row : row = [kind |-> "category", parent |-> 0, status |-> "active"]
      OBVIOUS
    <2>3. Start(w, Idle) /\ rows' = With(rows, new, row) /\ stale' = stale
      BY <1>7, <1>1, <2>1, <2>2 DEF CreateCategory, Add, Statement, Announcing
    <2>4. /\ TasksOK' /\ task'[w] = Idle /\ served' = served + 1
          /\ \A v \in Workers \ {w} : task'[v] = task[v]
      BY <2>3, StartKeeps DEF CatalogInv, Idle
    <2>5. /\ DOMAIN rows' = DOMAIN rows \cup {new} /\ rows'[new] = row
          /\ \A s \in DOMAIN rows : rows'[s] = rows[s]
      BY <2>1, <2>3, <1>1 DEF With
    <2>6. \A s \in DOMAIN rows : ProductKept(s)
      BY <2>5, <1>1 DEF ProductKept, CatalogRowOK
    <2>7. CatalogRowOK(new)' /\ rows'[new].kind # "product"
      <3>1. \E i \in 0..served', n \in Nat : new = <<i, n>>
        BY <2>1, <2>4, <1>1
      <3>2. QED
        BY <3>1, <2>2, <2>5 DEF CatalogRowOK
    <2>8. CatalogTask(task[w])'
      BY <2>4 DEF CatalogTask, Idle
    <2>9. QED
      BY <2>1, <2>3, <2>4, <2>5, <2>6, <2>7, <2>8, StepKeepsCatalog
  <1>8. ASSUME NEW c \in Rows("category"), UpdateCategory(w, c) PROVE CatalogInv'
    <2>1. PICK columns : columns = [parent |-> 1]
      OBVIOUS
    <2>2. DOMAIN columns \cap {"kind", "sku", "checked"} = {} /\ c \in DOMAIN rows
      BY <2>1 DEF Rows
    <2>3. QED
      BY <1>8, <2>1, <2>2, <1>3 DEF UpdateCategory
  <1>9. ASSUME NEW c \in Rows("category"), DeleteCategory(w, c) PROVE CatalogInv'
    <2> DEFINE t == [op |-> "delete category", id |-> served + 1, row |-> c, copy |-> rows[c]]
    <2>1. Start(w, t) /\ UNCHANGED records
      BY <1>9 DEF DeleteCategory, Read, Plan
    <2>2. CatalogTask(t)
      BY DEF CatalogTask
    <2>3. QED
      BY <2>1, <2>2, <1>2
  <1>10. ASSUME NEW r \in Rows("product"), NEW c, UpdateProduct(w, r, c) PROVE CatalogInv'
    <2>1. PICK columns : columns = [category |-> c]
      OBVIOUS
    <2>2. DOMAIN columns \cap {"kind", "sku", "checked"} = {} /\ r \in DOMAIN rows
      BY <2>1 DEF Rows
    <2>3. QED
      BY <1>10, <2>1, <2>2, <1>3 DEF UpdateProduct
  <1>11. QED
    BY <1>4, <1>5, <1>6, <1>7, <1>8, <1>9, <1>10 DEF ProductEndpoints, CategoryEndpoints

\* A barcode or a category is written.
LEMMA WritesKeepCatalog ==
    ASSUME NEW w \in Workers, CatalogInv, SetBarcode(w) \/ SoftDeleteCategory(w)
    PROVE  CatalogInv'
  <1>1. PICK r : r = task[w].row
    OBVIOUS
  <1>2. PICK type \in {"catalog.product.updated", "entity.deleted"} :
          Continue(w, Announcing(task[w].id, r, type))
    BY <1>1 DEF SetBarcode, SoftDeleteCategory, Write
  <1> DEFINE t == Announcing(task[w].id, r, type)
  <1>3. t.op = "publish" /\ t.id = task[w].id /\ task[w].op \in {"barcode", "delete category"}
    BY DEF Announcing, NoEvent, SetBarcode, SoftDeleteCategory, At
  <1>4. /\ TasksOK' /\ task'[w] = t /\ served' = served
        /\ \A v \in Workers \ {w} : task'[v] = task[v]
    BY <1>2, <1>3, ContinueKeeps DEF CatalogInv
  <1>5. CatalogTask(task[w])'
    BY <1>3, <1>4 DEF CatalogTask
  <1>6. CASE SetBarcode(w)
    <2>1. r \in DOMAIN rows /\ rows[r].kind = "product" /\ CatalogRowOK(r)
      BY <1>1, <1>6 DEF SetBarcode, At, CatalogInv, CatalogRowsOK, CatalogTasks, CatalogTask, Rows
    <2>2. rows' = [rows EXCEPT ![r].sku = task[w].sku, ![r].checked = FALSE] /\ stale' = stale
      BY <1>1, <1>6 DEF SetBarcode
    <2>3. /\ DOMAIN rows' = DOMAIN rows /\ \A s \in DOMAIN rows \ {r} : rows'[s] = rows[s]
          /\ DOMAIN rows[r] \subseteq DOMAIN rows'[r] /\ rows'[r].kind = rows[r].kind
          /\ rows'[r].checked = FALSE
      BY <2>1, <2>2 DEF CatalogRowOK, ProductColumns
    <2>4. QED
      BY <1>4, <1>5, <2>1, <2>2, <2>3, SetKeepsCatalog
  <1>7. CASE SoftDeleteCategory(w)
    <2>1. r \in DOMAIN rows /\ rows[r].kind = "category" /\ CatalogRowOK(r)
      BY <1>1, <1>7 DEF SoftDeleteCategory, At, CatalogInv, CatalogRowsOK, CatalogTasks, CatalogTask, Rows
    <2>2. rows' = [rows EXCEPT ![r] = Updated(@, [status |-> "deleted"])] /\ stale \subseteq stale'
      BY <1>1, <1>7, <2>1 DEF SoftDeleteCategory, Write
    <2>3. /\ DOMAIN rows' = DOMAIN rows /\ \A s \in DOMAIN rows \ {r} : rows'[s] = rows[s]
          /\ DOMAIN rows[r] \subseteq DOMAIN rows'[r] /\ rows'[r].kind = rows[r].kind
      BY <2>1, <2>2 DEF CatalogRowOK, Updated
    <2>4. QED
      BY <1>4, <1>5, <2>1, <2>2, <2>3, SetKeepsCatalog
  <1>8. QED
    BY <1>6, <1>7

\* Components are set, events published, or a request ends.
LEMMA RecordStepsKeepCatalog ==
    ASSUME NEW w \in Workers, CatalogInv, RecordSteps(w)
    PROVE  CatalogInv'
  <1>1. Finish(w) /\ rows' = rows /\ stale' = stale
    BY DEF CatalogInv, CatalogTasks, CatalogTask, RecordSteps, SetComponent, Publish, Abandon, At, records
  <1>2. /\ TasksOK' /\ task'[w] = Idle /\ served' = served
        /\ \A v \in Workers \ {w} : task'[v] = task[v]
    BY <1>1, ContinueKeeps DEF CatalogInv, Finish, Idle
  <1>3. CatalogTask(task[w])'
    BY <1>2 DEF CatalogTask, Idle
  <1>4. QED
    BY <1>1, <1>2, <1>3, QuietKeepsCatalog

\* CreateProduct (catalog/service.go:92): for any SKUs and requests, two products
\* share a SKU only when creations overlapped, a look-up failed, or one of them
\* has its code from a barcode that was not looked up.
THEOREM SKUsStayUnique == CatalogSpec => []SKUsAreUnique
  <1>1. InitRecords(CatalogRows) => CatalogInv
    <2> SUFFICES ASSUME InitRecords(CatalogRows) PROVE CatalogInv
      OBVIOUS
    <2>1. rows = CatalogRows /\ served = 0 /\ task = [w \in Workers |-> Idle]
      BY DEF InitRecords, InitWork
    <2>2. /\ DOMAIN rows = {<<0, 0>>} /\ "kind" \in DOMAIN rows[<<0, 0>>]
          /\ rows[<<0, 0>>].kind = "category"
      BY <2>1 DEF CatalogRows
    <2>3. TasksOK /\ CatalogTasks
      BY <2>1 DEF TasksOK, CatalogTasks, CatalogTask, Idle
    <2>4. ASSUME NEW r \in DOMAIN rows PROVE CatalogRowOK(r)
      <3>1. \E i \in 0..served, n \in Nat : r = <<i, n>>
        BY <2>1, <2>2
      <3>2. QED
        BY <3>1, <2>2 DEF CatalogRowOK
    <2>5. SKUsAreUnique
      BY <2>2 DEF SKUsAreUnique, Rows
    <2>6. QED
      BY <2>3, <2>4, <2>5 DEF CatalogInv, CatalogRowsOK
  <1>2. CatalogInv /\ [CatalogNext]_recordVars => CatalogInv'
    <2> SUFFICES ASSUME CatalogInv, [CatalogNext]_recordVars PROVE CatalogInv'
      OBVIOUS
    <2>1. CASE UNCHANGED recordVars
      <3>1. rows' = rows /\ stale' = stale /\ task' = task /\ served' = served
        BY <2>1 DEF recordVars, records, work
      <3>2. TasksOK' /\ CatalogRowsOK' /\ SKUsAreUnique'
        BY <3>1 DEF CatalogInv, TasksOK, CatalogRowsOK, CatalogRowOK, ProductColumns, SKUsAreUnique, Rows
      <3>3. CatalogTasks'
        BY <3>1 DEF CatalogInv, CatalogTasks, CatalogTask, ProductColumns, Rows
      <3>4. QED
        BY <3>2, <3>3 DEF CatalogInv
    <2>2. CASE CatalogNext
      BY <2>2, EndpointsKeepCatalog, InsertProductKeeps, WritesKeepCatalog, RecordStepsKeepCatalog
         DEF CatalogNext
    <2>3. QED
      BY <2>1, <2>2
  <1>3. CatalogInv => SKUsAreUnique
    BY DEF CatalogInv
  <1>4. QED
    BY <1>1, <1>2, <1>3, PTL DEF CatalogSpec

-----------------------------------------------------------------------------
(* Catalog: prices are sound *)

\* What a list of rules makes of a price.
Priced(base, quantity, result) ==
    /\ result = [price |-> result.price, ordered |-> quantity, total |-> result.total]
    /\ result.price \in 0..base /\ result.total \in Int /\ result.total >= quantity

\* ApplyDiscount: the price does not rise, and does not become negative.
LEMMA DiscountLowers ==
    ASSUME NEW price \in Nat, NEW rule, Sensible(rule)
    PROVE  ApplyDiscount(price, rule) \in 0..price
  <1>1. CASE rule.discount = "percent"
    <2>1. PICK v \in 0..100 : v = rule.value
      BY <1>1 DEF Sensible
    <2>2. price * v >= 0 /\ price * (100 - v) >= 0
      OBVIOUS
    <2>3. price * v \in 0..100 * price
      BY <2>2
    <2>4. \A x \in 0..100 * price : x \div 100 \in 0..price
      OBVIOUS
    <2>5. QED
      BY <1>1, <2>1, <2>3, <2>4 DEF ApplyDiscount
  <1>2. CASE rule.discount # "percent"
    BY <1>2 DEF ApplyDiscount, Sensible
  <1>3. QED
    BY <1>1, <1>2

\* One more rule.
LEMMA AppliedKeepsPriced ==
    ASSUME NEW base \in Nat, NEW quantity \in Nat, NEW result, Priced(base, quantity, result),
           NEW rule, Sensible(rule)
    PROVE  Priced(base, quantity, Applied(result, rule))
  <1>1. CASE ~rule.matches
    BY <1>1 DEF Applied
  <1>2. CASE rule.matches /\ rule.type # "bonus"
    <2>1. ApplyDiscount(result.price, rule) \in 0..base
      BY DiscountLowers DEF Priced
    <2>2. QED
      BY <1>2, <2>1 DEF Applied, Priced
  <1>3. CASE rule.matches /\ rule.type = "bonus" /\ rule.buy > 0 /\ quantity >= rule.buy
    <2>1. PICK n, buy, bonus : n = quantity \div buy /\ buy = rule.buy /\ bonus = rule.bonus
      OBVIOUS
    <2>2. n \in Nat /\ bonus \in Nat
      BY <1>3, <2>1 DEF Sensible
    <2>3. n * bonus \in Nat
      BY <2>2
    <2>4. Applied(result, rule) = [result EXCEPT !.total = quantity + n * bonus]
      BY <1>3, <2>1 DEF Applied, Priced
    <2>5. QED
      BY <2>3, <2>4 DEF Priced
  <1>4. CASE rule.matches /\ rule.type = "bonus" /\ ~(rule.buy > 0 /\ quantity >= rule.buy)
    BY <1>4 DEF Applied, Priced
  <1>5. QED
    BY <1>1, <1>2, <1>3, <1>4

\* CalculatePrice: any number of rules, by the least one that would break it.
LEMMA CalculatedIsPriced ==
    ASSUME NEW base \in Nat, NEW quantity \in Nat, NEW R, \A rule \in R : Sensible(rule),
           NEW rules \in Seq(R)
    PROVE  Priced(base, quantity, CalculatePrice(base, quantity, rules))
  <1> DEFINE start == [price |-> base, ordered |-> quantity, total |-> quantity]
             Loop(g, k) == [n \in 0..k |-> IF n = 0 THEN start ELSE Applied(g[n - 1], rules[n])]
             result == CHOOSE g : g = Loop(g, Len(rules))
  <1>1. CalculatePrice(base, quantity, rules) = result[Len(rules)]
    BY DEF CalculatePrice
  <1>2. Len(rules) \in Nat /\ \A n \in 1..Len(rules) : Sensible(rules[n])
    OBVIOUS
  <1>3. \A k \in Nat : \E g : g = Loop(g, k)
    <2> DEFINE T == {k \in Nat : ~ \E g : g = Loop(g, k)}
    <2>1. SUFFICES ASSUME T # {} PROVE FALSE
      OBVIOUS
    <2>2. PICK x \in T : \A y \in T : x <= y
      <3> HIDE DEF Loop
      <3>1. QED
        BY <2>1, Least
    <2>3. CASE x = 0
      <3>1. PICK g : g = [n \in 0..0 |-> start]
        OBVIOUS
      <3>2. g = Loop(g, 0)
        BY <3>1
      <3>3. QED
        BY <2>3, <3>2
    <2>4. CASE x # 0
      <3>1. x \in Nat /\ x - 1 \in Nat /\ x - 1 \notin T
        <4> HIDE DEF Loop
        <4>1. x \in Nat
          BY <2>2
        <4>2. x - 1 \in Nat /\ ~ (x <= x - 1)
          BY <2>4, <4>1
        <4> HIDE DEF T
        <4>3. QED
          BY <2>2, <4>1, <4>2
      <3>2. PICK g : g = Loop(g, x - 1)
        BY <3>1
      <3>3. PICK h : h = [n \in 0..x |-> IF n = x THEN Applied(g[x - 1], rules[x]) ELSE g[n]]
        OBVIOUS
      <3>4. \A n \in 0..x : h[n] = IF n = 0 THEN start ELSE Applied(h[n - 1], rules[n])
        <4>1. TAKE n \in 0..x
        <4>2. CASE n = x
          BY <2>4, <3>1, <3>3, <4>2
        <4>3. CASE n # x
          <5>1. n \in 0..(x - 1) /\ h[n] = g[n] /\ (n # 0 => h[n - 1] = g[n - 1])
            BY <3>1, <3>3, <4>3
          <5>2. g[n] = IF n = 0 THEN start ELSE Applied(g[n - 1], rules[n])
            BY <3>2, <5>1
          <5>3. QED
            BY <5>1, <5>2
        <4>4. QED
          BY <4>2, <4>3
      <3>5. h = Loop(h, x)
        BY <3>3, <3>4
      <3>6. QED
        BY <3>5
    <2>5. QED
      BY <2>3, <2>4
  <1>4. result = Loop(result, Len(rules))
    <2>1. \E g : g = Loop(g, Len(rules))
      BY <1>2, <1>3
    <2> HIDE DEF Loop
    <2>2. QED
      BY <2>1
  <1> HIDE DEF result
  <1>5. \A n \in 0..Len(rules) : Priced(base, quantity, result[n])
    <2> DEFINE T == {n \in 0..Len(rules) : ~ Priced(base, quantity, result[n])}
    <2>1. SUFFICES ASSUME T # {} PROVE FALSE
      OBVIOUS
    <2>2. PICK x \in T : \A y \in T : x <= y
      <3>1. T \in SUBSET Nat
        BY <1>2
      <3> HIDE DEF T
      <3>2. QED
        BY <2>1, <3>1, Least
    <2>3. CASE x = 0
      BY <1>2, <1>4, <2>3 DEF Priced
    <2>4. CASE x # 0
      <3>1. x \in 1..Len(rules) /\ x - 1 \in 0..Len(rules) /\ x - 1 \notin T
        BY <1>2, <2>2, <2>4
      <3>2. result[x] = Applied(result[x - 1], rules[x])
        BY <1>4, <3>1
      <3>3. Priced(base, quantity, result[x])
        BY <1>2, <3>1, <3>2, AppliedKeepsPriced
      <3>4. QED
        BY <3>3
    <2>5. QED
      BY <2>3, <2>4
  <1>6. QED
    BY <1>1, <1>2, <1>5

(* CalculatePrice (service.go:377) applies one discount on the result of the *)
(* other: with any price and sensible rules of any number and order, the     *)
(* price stays between nothing and the selling price, and a bonus never      *)
(* takes goods away.                                                         *)
THEOREM PricesStaySound == CatalogSpec => []PricesAreSound
  <1>1. PricesAreSound
    <2> SUFFICES ASSUME NEW base \in Prices \cap Nat, NEW quantity \in 1..5,
                        NEW rules \in SeqOf({rule \in PriceRules : Sensible(rule)}, 3)
                 PROVE  LET result == CalculatePrice(base, quantity, rules)
                        IN /\ result.price \in 0..base
                           /\ result.total >= quantity
      BY DEF PricesAreSound
    <2>1. rules \in Seq({rule \in PriceRules : Sensible(rule)})
      <3>1. PICK m \in 0..3 : rules \in [1..m -> {rule \in PriceRules : Sensible(rule)}]
        BY DEF SeqOf
      <3>2. QED
        BY <3>1
    <2>2. Priced(base, quantity, CalculatePrice(base, quantity, rules))
      BY <2>1, CalculatedIsPriced
    <2>3. QED
      BY <2>2 DEF Priced
  <1>2. QED
    BY <1>1, PTL

-----------------------------------------------------------------------------
(* Customers and suppliers: tags are kept *)

CRMRowOK(r) ==
    /\ \E i \in 0..served, n \in Nat : r = <<i, n>>
    /\ {"kind", "tags"} \subseteq DOMAIN rows[r]

CRMRowsOK == \A r \in DOMAIN rows : CRMRowOK(r)

CRMTask(t) ==
    /\ t.op = "update" => {"op", "id", "fields"} \subseteq DOMAIN t
    /\ t.op # "parts"

CRMTasks == \A w \in Workers : CRMTask(task[w])

\* The inductive invariant: no row is from a request that is still to come.
CRMInv == TasksOK /\ CRMRowsOK /\ CRMTasks

CRMTasksKept(w) ==
    /\ TasksOK' /\ served' \in {served, served + 1}
    /\ \A v \in Workers \ {w} : task'[v] = task[v]
    /\ CRMTask(task'[w])

\* Rows of the right shape and a goroutine of the right shape are all there is.
LEMMA StepKeepsCRM ==
    ASSUME NEW w \in Workers, CRMInv, CRMTasksKept(w),
           \A r \in DOMAIN rows' : CRMRowOK(r)'
    PROVE  CRMInv'
  BY DEF CRMInv, CRMRowsOK, CRMTasks, CRMTask, CRMTasksKept

\* A request starts.
LEMMA CRMStarts ==
    ASSUME NEW w \in Workers, NEW t, CRMInv, Start(w, t), t.op = "idle" \/ t.id = served + 1,
           CRMTask(t)
    PROVE  CRMTasksKept(w) /\ served' = served + 1 /\ task'[w] = t
  BY StartKeeps DEF CRMInv, CRMTasksKept

\* A request goes on or ends.
LEMMA CRMContinues ==
    ASSUME NEW w \in Workers, NEW t, CRMInv, Continue(w, t),
           t.op = "idle" \/ (task[w].op # "idle" /\ t.id = task[w].id), CRMTask(t)
    PROVE  CRMTasksKept(w) /\ served' = served /\ task'[w] = t
  BY ContinueKeeps DEF CRMInv, CRMTasksKept

\* A row that is not written keeps its shape.
LEMMA CRMRowsLast ==
    ASSUME CRMInv, served' \in {served, served + 1}, NEW r \in DOMAIN rows,
           rows'[r] = rows[r]
    PROVE  CRMRowOK(r)'
  BY DEF CRMInv, CRMRowsOK, CRMRowOK, TasksOK

\* A new counterparty has an id that nobody had.
LEMMA CreateKeepsCRM ==
    ASSUME NEW w \in Workers, NEW kind, NEW tags, CRMInv, CreateCounterparty(w, kind, tags)
    PROVE  CRMInv' /\ \A r \in DOMAIN rows : TagsKept(r)
  <1> DEFINE row == [kind |-> kind, tags |-> tags]
             type == IF kind = "customer" THEN "crm.customer.created" ELSE "crm.supplier.created"
             t == Announcing(served + 1, New, type)
  <1>1. Start(w, t) /\ rows' = With(rows, New, row)
    BY DEF CreateCounterparty, Add, Statement
  <1>2. t.op = "publish" /\ t.id = served + 1
    BY DEF Announcing, NoEvent
  <1>3. CRMTasksKept(w) /\ served' = served + 1 /\ served \in Nat
    BY <1>1, <1>2, CRMStarts DEF CRMTask, CRMInv, TasksOK
  <1>4. New \notin DOMAIN rows /\ New = <<served + 1, 0>>
    BY <1>3 DEF CRMInv, CRMRowsOK, CRMRowOK, New
  <1>5. \A r \in DOMAIN rows : rows'[r] = rows[r]
    BY <1>1, <1>4 DEF With
  <1>6. ASSUME NEW r \in DOMAIN rows' PROVE CRMRowOK(r)'
    <2>1. CASE r \in DOMAIN rows
      BY <2>1, <1>3, <1>5, CRMRowsLast
    <2>2. CASE r \notin DOMAIN rows
      <3>1. r = New /\ rows'[r] = row
        BY <2>2, <1>1 DEF With
      <3>2. \E i \in 0..served', n \in Nat : r = <<i, n>>
        BY <3>1, <1>3, <1>4
      <3>3. QED
        BY <3>1, <3>2, <1>3 DEF CRMRowOK
    <2>3. QED
      BY <2>1, <2>2
  <1>7. QED
    BY <1>3, <1>5, <1>6, StepKeepsCRM DEF TagsKept

\* An update starts.
LEMMA UpdateKeepsCRM ==
    ASSUME NEW w \in Workers, NEW r, NEW fields, NEW tags, CRMInv,
           UpdateCounterparty(w, r, fields, tags)
    PROVE  CRMInv' /\ \A s \in DOMAIN rows : TagsKept(s)
  <1> DEFINE t == [op |-> "update", id |-> served + 1, row |-> r, fields |-> fields, tags |-> tags]
  <1>1. Start(w, t) /\ rows' = rows
    BY DEF UpdateCounterparty, records
  <1>2. CRMTasksKept(w) /\ served' = served + 1
    BY <1>1, CRMStarts DEF CRMTask
  <1>3. \A s \in DOMAIN rows' : CRMRowOK(s)'
    BY <1>1, <1>2, CRMRowsLast
  <1>4. QED
    BY <1>1, <1>2, <1>3, StepKeepsCRM DEF TagsKept

\* One of its fields is set: the tags change only with the profile.
LEMMA SetFieldKeepsCRM ==
    ASSUME NEW w \in Workers, NEW field \in Fields, CRMInv, SetField(w, field)
    PROVE  CRMInv' /\ \A s \in DOMAIN rows : TagsKept(s)
  <1>1. PICK t : t = task[w]
    OBVIOUS
  <1> DEFINE u == [t EXCEPT !.fields = @ \ {field}]
  <1>2. /\ t.op = "update" /\ field \in t.fields /\ {"op", "id", "fields"} \subseteq DOMAIN t
        /\ Continue(w, u)
    BY <1>1 DEF SetField, Sets, At, CRMInv, CRMTasks, CRMTask
  <1>3. /\ u.op = t.op /\ u.id = t.id /\ DOMAIN u = DOMAIN t
        /\ u.fields = t.fields \ {field}
    BY <1>2
  <1>4. CRMTask(u) /\ u # t
    BY <1>2, <1>3 DEF CRMTask
  <1>5. CRMTasksKept(w) /\ served' = served /\ task'[w] = u
    BY <1>1, <1>2, <1>3, <1>4, CRMContinues
  <1>6. \/ rows' = rows
        \/ field = "crm_profile" /\ rows' = [rows EXCEPT ![t.row].tags = t.tags]
    BY <1>1 DEF SetField
  <1>7. /\ DOMAIN rows' = DOMAIN rows
        /\ \A s \in DOMAIN rows : DOMAIN rows'[s] = DOMAIN rows[s]
        /\ \A s \in DOMAIN rows \ {t.row} : rows'[s] = rows[s]
    BY <1>6
  <1>8. \A s \in DOMAIN rows' : CRMRowOK(s)'
    BY <1>5, <1>7 DEF CRMInv, CRMRowsOK, CRMRowOK
  <1>9. ASSUME NEW s \in DOMAIN rows PROVE TagsKept(s)
    <2>1. CASE rows'[s] = rows[s]
      BY <2>1 DEF TagsKept
    <2>2. CASE rows'[s] # rows[s]
      <3>1. s = t.row /\ field = "crm_profile"
        BY <2>2, <1>6, <1>7
      <3>2. Sets(w, "crm_profile")
        BY <3>1 DEF SetField
      <3>3. QED
        BY <3>1, <3>2, <1>1, <1>4, <1>5 DEF TagsKept
    <2>3. QED
      BY <2>1, <2>2
  <1>10. QED
    BY <1>5, <1>8, <1>9, StepKeepsCRM

\* The update is done.
LEMMA FinishUpdateKeepsCRM ==
    ASSUME NEW w \in Workers, CRMInv, FinishUpdate(w)
    PROVE  CRMInv' /\ \A s \in DOMAIN rows : TagsKept(s)
  <1> DEFINE type == IF rows[task[w].row].kind = "customer" THEN "crm.customer.updated"
                     ELSE "crm.supplier.updated"
             t == Announcing(task[w].id, task[w].row, type)
  <1>1. Continue(w, t) /\ rows' = rows /\ task[w].op = "update"
    BY DEF FinishUpdate, records, At
  <1>2. t.op = "publish" /\ t.id = task[w].id
    BY DEF Announcing, NoEvent
  <1>3. CRMTasksKept(w) /\ served' = served
    BY <1>1, <1>2, CRMContinues DEF CRMTask
  <1>4. \A s \in DOMAIN rows' : CRMRowOK(s)'
    BY <1>1, <1>3, CRMRowsLast
  <1>5. QED
    BY <1>1, <1>3, <1>4, StepKeepsCRM DEF TagsKept

\* The tags of the copy are those of the row, or the copy is outdated.
LEMMA WriteTagsKeepsCRM ==
    ASSUME NEW w \in Workers, CRMInv, WriteTags(w)
    PROVE  CRMInv' /\ \A s \in DOMAIN rows : TagsKept(s)
  <1>1. PICK t : t = task[w]
    OBVIOUS
  <1>2. PICK tags : tags = (t.copy.tags \cup t.add) \ t.remove
    OBVIOUS
  <1>3. PICK columns : columns = [tags |-> tags]
    OBVIOUS
  <1>4. t.op = "tags" /\ Write(w, columns, NoEvent)
    BY <1>1, <1>2, <1>3 DEF WriteTags, At
  <1>5. /\ Continue(w, Idle)
        /\ IF t.row \in DOMAIN rows
           THEN rows' = [rows EXCEPT ![t.row] = Updated(@, columns)]
           ELSE rows' = rows
    BY <1>1, <1>4 DEF Write, Announcing
  <1>6. CRMTasksKept(w) /\ served' = served /\ task'[w] = Idle
    BY <1>5, CRMContinues DEF CRMTask, Idle
  <1>7. CASE t.row \in DOMAIN rows
    <2>1. CRMRowOK(t.row)
      BY <1>7 DEF CRMInv, CRMRowsOK
    <2>2. /\ DOMAIN rows' = DOMAIN rows /\ rows'[t.row] = Updated(rows[t.row], columns)
          /\ \A s \in DOMAIN rows \ {t.row} : rows'[s] = rows[s]
      BY <1>5, <1>7
    <2>3. DOMAIN rows'[t.row] = DOMAIN rows[t.row] /\ rows'[t.row].tags = tags
      BY <1>3, <2>1, <2>2 DEF Updated, CRMRowOK
    <2>4. ASSUME NEW s \in DOMAIN rows' PROVE CRMRowOK(s)'
      <3>1. CASE s = t.row
        BY <3>1, <1>6, <2>1, <2>3 DEF CRMRowOK
      <3>2. CASE s # t.row
        BY <3>2, <1>6, <2>2, CRMRowsLast
      <3>3. QED
        BY <3>1, <3>2
    <2>5. TagsKept(t.row)
      <3>1. rows[t.row].tags = t.copy.tags => rows[t.row].tags \ tags \subseteq t.remove
        BY <1>2
      <3>2. task'[w] # task[w]
        BY <1>1, <1>4, <1>6 DEF Idle
      <3>3. QED
        BY <3>1, <3>2, <1>1, <1>4, <2>3 DEF TagsKept, UpToDate, At
    <2>6. \A s \in DOMAIN rows \ {t.row} : TagsKept(s)
      BY <2>2 DEF TagsKept
    <2>7. QED
      BY <1>6, <2>4, <2>5, <2>6, StepKeepsCRM
  <1>8. CASE t.row \notin DOMAIN rows
    <2>1. rows' = rows
      BY <1>5, <1>8
    <2>2. \A s \in DOMAIN rows' : CRMRowOK(s)'
      BY <1>6, <2>1, CRMRowsLast
    <2>3. QED
      BY <1>6, <2>1, <2>2, StepKeepsCRM DEF TagsKept
  <1>9. QED
    BY <1>7, <1>8

\* A request about tags reads the row.
LEMMA UpdateTagsKeepsCRM ==
    ASSUME NEW w \in Workers, NEW r, NEW add, NEW remove, CRMInv, UpdateTags(w, r, add, remove)
    PROVE  CRMInv' /\ \A s \in DOMAIN rows : TagsKept(s)
  <1> DEFINE t == [op |-> "tags", id |-> served + 1, row |-> r, copy |-> rows[r],
                   add |-> add, remove |-> remove]
  <1>1. Start(w, t) /\ rows' = rows
    BY DEF UpdateTags, records
  <1>2. CRMTasksKept(w) /\ served' = served + 1
    BY <1>1, CRMStarts DEF CRMTask
  <1>3. \A s \in DOMAIN rows' : CRMRowOK(s)'
    BY <1>1, <1>2, CRMRowsLast
  <1>4. QED
    BY <1>1, <1>2, <1>3, StepKeepsCRM DEF TagsKept

\* An event is published, or a request ends.
LEMMA RecordStepsKeepCRM ==
    ASSUME NEW w \in Workers, CRMInv, RecordSteps(w)
    PROVE  CRMInv' /\ \A s \in DOMAIN rows : TagsKept(s)
  <1>1. Continue(w, Idle) /\ rows' = rows
    BY DEF CRMInv, CRMTasks, CRMTask, RecordSteps, SetComponent, Publish, Abandon, Finish, At, records
  <1>2. CRMTasksKept(w) /\ served' = served
    BY <1>1, CRMContinues DEF CRMTask, Idle
  <1>3. \A s \in DOMAIN rows' : CRMRowOK(s)'
    BY <1>1, <1>2, CRMRowsLast
  <1>4. QED
    BY <1>1, <1>2, <1>3, StepKeepsCRM DEF TagsKept

\* UpdateTags (crm/service.go:177): for any tags and requests, a step loses a tag only
\* as asked for, with a profile that is replaced, or by writing an outdated copy.
THEOREM TagsStay == CRMSpec => TagsAreKept
  <1>1. InitRecords(CRMRows) => CRMInv
    <2> SUFFICES ASSUME InitRecords(CRMRows) PROVE CRMInv
      OBVIOUS
    <2>1. /\ DOMAIN rows = {<<0, 0>>} /\ served = 0 /\ task = [w \in Workers |-> Idle]
          /\ rows[<<0, 0>>] = [kind |-> "customer", tags |-> {}]
      BY DEF InitRecords, InitWork, CRMRows
    <2>2. TasksOK /\ CRMTasks
      BY <2>1 DEF TasksOK, CRMTasks, CRMTask, Idle
    <2>3. CRMRowsOK
      BY <2>1 DEF CRMRowsOK, CRMRowOK
    <2>4. QED
      BY <2>2, <2>3 DEF CRMInv
  <1>2. CRMInv /\ [CRMNext]_recordVars
          => CRMInv' /\ [\A r \in Counterparties : TagsKept(r)]_recordVars
    <2> SUFFICES ASSUME CRMInv, [CRMNext]_recordVars
                 PROVE  CRMInv' /\ [\A r \in Counterparties : TagsKept(r)]_recordVars
      OBVIOUS
    <2>1. CASE UNCHANGED recordVars
      BY <2>1 DEF recordVars, records, work, CRMInv, TasksOK, CRMRowsOK, CRMRowOK, CRMTasks, CRMTask
    <2>2. CASE CRMNext
      <3>1. CRMInv' /\ \A r \in DOMAIN rows : TagsKept(r)
        BY <2>2, CreateKeepsCRM, UpdateKeepsCRM, SetFieldKeepsCRM, FinishUpdateKeepsCRM,
           UpdateTagsKeepsCRM, WriteTagsKeepsCRM, RecordStepsKeepCRM DEF CRMNext, CustomerEndpoints, SupplierEndpoints
      <3>2. QED
        BY <3>1 DEF Counterparties, Rows
    <2>3. QED
      BY <2>1, <2>2
  <1>3. QED
    BY <1>1, <1>2, PTL DEF CRMSpec, TagsAreKept

-----------------------------------------------------------------------------
(* Messenger: conversations are unique *)

\* What every conversation has.
ConversationColumns == {"type", "key", "last", "members", "left"}

MessengerRowOK(r) ==
    /\ \E i \in 0..served, n \in Nat : r = <<i, n>>
    /\ "kind" \in DOMAIN rows[r]
    /\ rows[r].kind = "conversation" => ConversationColumns \subseteq DOMAIN rows[r]

\* Who a direct conversation is between is in it, until somebody leaves.
BothAreIn(c) ==
    c.kind = "conversation" /\ c.type = "direct" =>
        c.left # {} \/ (c.key[1] \in DOMAIN c.members /\ c.key[2] \in DOMAIN c.members)

MessengerRowsOK == \A r \in DOMAIN rows : MessengerRowOK(r) /\ BothAreIn(rows[r])

\* The goroutines that are about to insert a row.
Sending == {"direct", "entity", "send"}

MessengerTask(t) ==
    /\ t.op \in Sending =>
         /\ t.row = <<t.id, 0>> /\ t.row \notin DOMAIN rows
         /\ "kind" \in DOMAIN t.copy
    /\ t.op = "send" => t.copy.kind = "message"
    /\ t.op \in {"direct", "entity"} =>
         /\ t.copy.kind = "conversation" /\ t.copy.type = t.op
         /\ ConversationColumns \subseteq DOMAIN t.copy /\ BothAreIn(t.copy)
    /\ t.op \in {"edit", "delete message"} =>
         t.row \in DOMAIN rows /\ rows[t.row].kind = "message"
    /\ t.op # "parts"

MessengerTasks == \A w \in Workers : MessengerTask(task[w])

\* The inductive invariant: who shares a conversation is in it, so that the next
\* creation finds it.
MessengerInv == TasksOK /\ MessengerRowsOK /\ MessengerTasks /\ ConversationsAreUnique

\* What a step leaves alone of a row that was there.
ConversationKept(s) ==
    /\ "kind" \in DOMAIN rows'[s] /\ rows'[s].kind = rows[s].kind
    /\ rows[s].kind = "conversation" =>
         /\ ConversationColumns \subseteq DOMAIN rows'[s]
         /\ rows'[s].type = rows[s].type /\ rows'[s].key = rows[s].key
         /\ rows[s].left \subseteq rows'[s].left
         /\ rows'[s].left # {} \/ DOMAIN rows[s].members \subseteq DOMAIN rows'[s].members

\* Rows stay what they are, and a row that is added is new to all goroutines.
LEMMA StepKeepsMessengerRows ==
    ASSUME NEW w \in Workers, MessengerInv, TasksOK',
           NEW new, new = <<served + 1, 0>> \/ (task[w].op \in Sending /\ new = task[w].row),
           served \in Nat, served' \in {served, served + 1},
           DOMAIN rows \subseteq DOMAIN rows', DOMAIN rows' \subseteq DOMAIN rows \cup {new},
           new \in DOMAIN rows' => MessengerRowOK(new)' /\ BothAreIn(rows[new])',
           \A s \in DOMAIN rows : ConversationKept(s),
           \A v \in Workers \ {w} : task'[v] = task[v],
           MessengerTask(task[w])'
    PROVE  MessengerRowsOK' /\ MessengerTasks' /\ new \notin DOMAIN rows
  <1>1. /\ new \notin DOMAIN rows
        /\ \A v \in Workers \ {w} : task[v].op \in Sending => task[v].row # new
    <2>1. \A s \in DOMAIN rows : s # <<served + 1, 0>>
      BY DEF MessengerInv, MessengerRowsOK, MessengerRowOK
    <2>2. \A v \in Workers : task[v].op \in Sending =>
             task[v].row = <<task[v].id, 0>> /\ task[v].row \notin DOMAIN rows /\ task[v].id \in 1..served
      BY DEF MessengerInv, MessengerTasks, MessengerTask, TasksOK, Sending
    <2>3. QED
      BY <2>1, <2>2 DEF MessengerInv, TasksOK, Sending
  <1>2. ASSUME NEW s \in DOMAIN rows' PROVE MessengerRowOK(s)' /\ BothAreIn(rows[s])'
    <2>1. CASE s = new
      BY <1>2, <2>1
    <2>2. CASE s # new
      <3>1. s \in DOMAIN rows /\ MessengerRowOK(s) /\ BothAreIn(rows[s]) /\ ConversationKept(s)
        BY <1>2, <2>2 DEF MessengerInv, MessengerRowsOK
      <3>2. \E i \in 0..served', n \in Nat : s = <<i, n>>
        BY <3>1 DEF MessengerRowOK
      <3>3. MessengerRowOK(s)'
        BY <3>1, <3>2 DEF MessengerRowOK, ConversationKept, ConversationColumns
      <3>4. BothAreIn(rows[s])'
        BY <3>1 DEF BothAreIn, ConversationKept
      <3>5. QED
        BY <3>3, <3>4
    <2>3. QED
      BY <2>1, <2>2
  <1>3. ASSUME NEW v \in Workers PROVE MessengerTask(task[v])'
    <2>1. CASE v = w
      BY <2>1
    <2>2. CASE v # w
      <3>1. task'[v] = task[v] /\ MessengerTask(task[v])
        BY <2>2 DEF MessengerInv, MessengerTasks
      <3>2. task[v].op \in Sending => task[v].row \notin DOMAIN rows'
        BY <2>2, <3>1, <1>1 DEF MessengerTask
      <3>3. task[v].op \in {"edit", "delete message"} =>
              task[v].row \in DOMAIN rows' /\ rows'[task[v].row].kind = "message"
        BY <3>1 DEF MessengerTask, ConversationKept
      <3>4. QED
        BY <3>1, <3>2, <3>3 DEF MessengerTask, Sending, ConversationColumns, BothAreIn
    <2>3. QED
      BY <2>1, <2>2
  <1>4. QED
    BY <1>1, <1>2, <1>3 DEF MessengerRowsOK, MessengerTasks

\* Two conversations about the same were two before, unless one was added.
LEMMA StepKeepsMessenger ==
    ASSUME NEW w \in Workers, MessengerInv, TasksOK',
           NEW new, new = <<served + 1, 0>> \/ (task[w].op \in Sending /\ new = task[w].row),
           served \in Nat, served' \in {served, served + 1},
           DOMAIN rows \subseteq DOMAIN rows', DOMAIN rows' \subseteq DOMAIN rows \cup {new},
           new \in DOMAIN rows' => MessengerRowOK(new)' /\ BothAreIn(rows[new])'
                                   /\ (rows[new].kind = "conversation" => rows[new].type = "group")',
           \A s \in DOMAIN rows : ConversationKept(s),
           stale \subseteq stale',
           \A v \in Workers \ {w} : task'[v] = task[v],
           MessengerTask(task[w])'
    PROVE  MessengerInv'
  <1>1. MessengerRowsOK' /\ MessengerTasks' /\ new \notin DOMAIN rows
    BY StepKeepsMessengerRows
  <1>2. ConversationsAreUnique'
    <2> SUFFICES ASSUME NEW c \in Conversations', NEW d \in Conversations',
                        c # d, SameTopic(rows[c], rows[d])'
                 PROVE  {c, d} \cap stale' # {} \/ rows'[c].left \cup rows'[d].left # {}
      BY DEF ConversationsAreUnique
    <2>1. c \in DOMAIN rows' /\ d \in DOMAIN rows' /\ rows'[c].kind = "conversation"
          /\ rows'[d].kind = "conversation"
      BY DEF Conversations, Rows
    <2>2. c # new /\ d # new
      BY <2>1 DEF SameTopic
    <2>3. c \in Conversations /\ d \in Conversations /\ ConversationKept(c) /\ ConversationKept(d)
      BY <2>1, <2>2 DEF Conversations, Rows, ConversationKept
    <2>4. SameTopic(rows[c], rows[d])
      BY <2>3 DEF SameTopic, ConversationKept, Conversations, Rows
    <2>5. {c, d} \cap stale # {} \/ rows[c].left \cup rows[d].left # {}
      BY <2>3, <2>4 DEF MessengerInv, ConversationsAreUnique
    <2>6. rows[c].left \subseteq rows'[c].left /\ rows[d].left \subseteq rows'[d].left
      BY <2>3 DEF ConversationKept, Conversations, Rows
    <2>7. QED
      BY <2>5, <2>6
  <1>3. QED
    BY <1>1, <1>2 DEF MessengerInv

\* A statement, which may change rows and announces an event.
LEMMA StatementKeepsMessenger ==
    ASSUME NEW w \in Workers, NEW newRows, NEW r, NEW type, MessengerInv, Statement(w, newRows, r, type),
           DOMAIN newRows = DOMAIN rows, \A s \in DOMAIN rows : ConversationKept(s)
    PROVE  MessengerInv'
  <1> DEFINE t == Announcing(served + 1, r, type)
  <1>1. t.op = "idle" \/ (t.op = "publish" /\ t.id = served + 1)
    BY DEF Announcing, Idle
  <1>2. Start(w, t) /\ rows' = newRows /\ stale' = stale
    BY DEF Statement
  <1>3. /\ TasksOK' /\ task'[w] = t /\ served' = served + 1 /\ served \in Nat
        /\ \A v \in Workers \ {w} : task'[v] = task[v]
    BY <1>1, <1>2, StartKeeps DEF MessengerInv, TasksOK
  <1>4. MessengerTask(task[w])'
    BY <1>1, <1>3 DEF MessengerTask, Sending
  <1>5. \A s \in DOMAIN rows : s # <<served + 1, 0>>
    BY <1>3 DEF MessengerInv, MessengerRowsOK, MessengerRowOK
  <1>6. QED
    BY <1>2, <1>3, <1>4, <1>5, StepKeepsMessenger

\* A request that has looked begins.
LEMMA BeginKeepsMessenger ==
    ASSUME NEW w \in Workers, NEW t, MessengerInv, Start(w, t), UNCHANGED records,
           t.id = served + 1, MessengerTask(t)
    PROVE  MessengerInv'
  <1>1. /\ TasksOK' /\ task'[w] = t /\ served' = served + 1 /\ served \in Nat
        /\ \A v \in Workers \ {w} : task'[v] = task[v]
        /\ rows' = rows /\ stale' = stale
    BY StartKeeps DEF MessengerInv, TasksOK, records
  <1>2. MessengerTask(task[w])'
    BY <1>1 DEF MessengerTask, Sending, ConversationColumns, BothAreIn
  <1>3. \A s \in DOMAIN rows : s # <<served + 1, 0>>
    BY <1>1 DEF MessengerInv, MessengerRowsOK, MessengerRowOK
  <1>4. \A s \in DOMAIN rows : ConversationKept(s)
    BY <1>1 DEF ConversationKept, MessengerInv, MessengerRowsOK, MessengerRowOK
  <1>5. QED
    BY <1>1, <1>2, <1>3, <1>4, StepKeepsMessenger

\* A conversation is created: the others about the same are outdated by it.
LEMMA InsertConversationKeeps ==
    ASSUME NEW w \in Workers, MessengerInv, InsertConversation(w)
    PROVE  MessengerInv'
  <1>0. PICK r : r = task[w].row
    OBVIOUS
  <1> DEFINE x == task[w].copy
             t == Announcing(task[w].id, r, "messenger.conversation.created")
             other == IF task[w].op = "direct" THEN FindDirectConversation(x.key[1], x.key[2])
                      ELSE FindEntityConversation
  <1>1. /\ task[w].op \in {"direct", "entity"}
        /\ rows' = With(rows, r, x) /\ Continue(w, t)
        /\ stale' = stale \/ stale' = stale \cup {r}
        /\ other # {} => stale' = stale \cup {r}
    BY <1>0 DEF InsertConversation, Insert, At
  <1>2. t.op = "publish" /\ t.id = task[w].id
    BY DEF Announcing, NoEvent
  <1>3. /\ TasksOK' /\ task'[w] = t /\ served' = served /\ served \in Nat
        /\ \A v \in Workers \ {w} : task'[v] = task[v]
    BY <1>1, <1>2, ContinueKeeps DEF MessengerInv, TasksOK
  <1>4. MessengerTask(task[w])'
    BY <1>2, <1>3 DEF MessengerTask, Sending
  <1>5. /\ r = <<task[w].id, 0>> /\ r \notin DOMAIN rows /\ task[w].id \in 1..served
        /\ x.kind = "conversation" /\ x.type = task[w].op
        /\ ConversationColumns \subseteq DOMAIN x /\ BothAreIn(x) /\ "kind" \in DOMAIN x
    BY <1>0, <1>1 DEF MessengerInv, MessengerTasks, MessengerTask, TasksOK, Sending
  <1>6. /\ DOMAIN rows' = DOMAIN rows \cup {r} /\ rows'[r] = x
        /\ \A s \in DOMAIN rows : rows'[s] = rows[s]
    BY <1>1, <1>5 DEF With
  <1>7. \A s \in DOMAIN rows : ConversationKept(s)
    BY <1>6 DEF ConversationKept, MessengerInv, MessengerRowsOK, MessengerRowOK
  <1>8. MessengerRowOK(r)' /\ BothAreIn(rows[r])'
    <2>1. \E i \in 0..served', n \in Nat : r = <<i, n>>
      BY <1>3, <1>5
    <2>2. QED
      BY <2>1, <1>5, <1>6 DEF MessengerRowOK, BothAreIn, ConversationColumns
  <1>9. MessengerRowsOK' /\ MessengerTasks'
    BY <1>0, <1>1, <1>3, <1>4, <1>6, <1>7, <1>8, StepKeepsMessengerRows DEF Sending
  <1>10. stale \subseteq stale'
    BY <1>1
  <1>11. ASSUME NEW d \in Conversations, SameTopic(x, rows[d]) \/ SameTopic(rows[d], x)
         PROVE  r \in stale' \/ rows[d].left # {}
    <2>1. BothAreIn(rows[d]) /\ rows[d].kind = "conversation"
      BY DEF MessengerInv, MessengerRowsOK, Conversations, Rows
    <2>2. CASE task[w].op = "direct"
      <3>1. rows[d].type = "direct" /\ {x.key[1], x.key[2]} = {rows[d].key[1], rows[d].key[2]}
        BY <1>11, <1>5, <2>2 DEF SameTopic
      <3>2. rows[d].left # {} \/ d \in FindDirectConversation(x.key[1], x.key[2])
        BY <2>1, <3>1 DEF BothAreIn, FindDirectConversation, Members
      <3>3. QED
        BY <3>2, <2>2, <1>1
    <2>3. CASE task[w].op = "entity"
      <3>1. d \in FindEntityConversation
        BY <1>11, <1>5, <2>3 DEF SameTopic, FindEntityConversation
      <3>2. QED
        BY <3>1, <2>3, <1>1
    <2>4. QED
      BY <2>2, <2>3, <1>1
  <1>12. ConversationsAreUnique'
    <2> SUFFICES ASSUME NEW c \in Conversations', NEW d \in Conversations',
                        c # d, SameTopic(rows[c], rows[d])'
                 PROVE  {c, d} \cap stale' # {} \/ rows'[c].left \cup rows'[d].left # {}
      BY DEF ConversationsAreUnique
    <2>1. Conversations' = Conversations \cup {r}
      BY <1>5, <1>6 DEF Conversations, Rows
    <2>2. \A s \in Conversations : rows'[s] = rows[s] /\ s # r
      BY <1>5, <1>6 DEF Conversations, Rows
    <2>3. CASE c = r
      BY <2>1, <2>2, <2>3, <1>6, <1>11 DEF SameTopic
    <2>4. CASE d = r
      BY <2>1, <2>2, <2>4, <1>6, <1>11 DEF SameTopic
    <2>5. CASE c # r /\ d # r
      <3>1. c \in Conversations /\ d \in Conversations /\ rows'[c] = rows[c] /\ rows'[d] = rows[d]
        BY <2>1, <2>2, <2>5
      <3>2. SameTopic(rows[c], rows[d])
        BY <3>1 DEF SameTopic
      <3>3. QED
        BY <3>1, <3>2, <1>10 DEF MessengerInv, ConversationsAreUnique
    <2>6. QED
      BY <2>3, <2>4, <2>5
  <1>13. QED
    BY <1>3, <1>9, <1>12 DEF MessengerInv

\* A message is inserted, or written over by its id.
LEMMA MessageKeepsMessenger ==
    ASSUME NEW w \in Workers, MessengerInv, CreateMessage(w) \/ UpdateMessage(w)
    PROVE  MessengerInv'
  <1>0. PICK r : r = task[w].row
    OBVIOUS
  <1>1. CASE CreateMessage(w)
    <2> DEFINE t == Announcing(task[w].id, r, "messenger.message.sent")
               c == task[w].copy.conversation
    <2>1. /\ task[w].op = "send" /\ Continue(w, t) /\ stale' = stale
          /\ rows' = With([rows EXCEPT ![c].last = r], r, task[w].copy)
      BY <1>0, <1>1 DEF CreateMessage, At
    <2>2. t.op = "publish" /\ t.id = task[w].id
      BY DEF Announcing, NoEvent
    <2>3. /\ TasksOK' /\ task'[w] = t /\ served' = served /\ served \in Nat
          /\ \A v \in Workers \ {w} : task'[v] = task[v]
      BY <2>1, <2>2, ContinueKeeps DEF MessengerInv, TasksOK
    <2>4. /\ r = <<task[w].id, 0>> /\ r \notin DOMAIN rows /\ task[w].id \in 1..served
          /\ task[w].copy.kind = "message" /\ "kind" \in DOMAIN task[w].copy
      BY <1>0, <2>1 DEF MessengerInv, MessengerTasks, MessengerTask, TasksOK, Sending
    <2>5. /\ DOMAIN rows' = DOMAIN rows \cup {r} /\ rows'[r] = task[w].copy
          /\ \A s \in DOMAIN rows : \/ rows'[s] = rows[s]
                                    \/ rows'[s] = [rows[s] EXCEPT !.last = r]
      BY <2>1, <2>4 DEF With
    <2>6. ASSUME NEW s \in DOMAIN rows PROVE ConversationKept(s)
      <3>1. MessengerRowOK(s)
        BY DEF MessengerInv, MessengerRowsOK
      <3>2. CASE rows'[s] = rows[s]
        BY <3>1, <3>2 DEF ConversationKept, MessengerRowOK
      <3>3. CASE rows'[s] = [rows[s] EXCEPT !.last = r]
        BY <3>1, <3>3 DEF ConversationKept, MessengerRowOK, ConversationColumns
      <3>4. QED
        BY <2>5, <3>2, <3>3
    <2>7. MessengerRowOK(r)' /\ BothAreIn(rows[r])'
      <3>1. \E i \in 0..served', n \in Nat : r = <<i, n>>
        BY <2>3, <2>4
      <3>2. QED
        BY <3>1, <2>4, <2>5 DEF MessengerRowOK, BothAreIn
    <2>8. MessengerTask(task[w])'
      BY <2>2, <2>3 DEF MessengerTask, Sending
    <2>9. QED
      BY <1>0, <2>1, <2>3, <2>4, <2>5, <2>6, <2>7, <2>8, StepKeepsMessenger DEF Sending
  <1>2. ASSUME NEW columns, NEW type, Write(w, columns, type), task[w].op \in {"edit", "delete message"},
               "kind" \notin DOMAIN columns
        PROVE  MessengerInv'
    <2> DEFINE t == Announcing(task[w].id, r, type)
    <2>1. t.op = "idle" \/ (t.op = "publish" /\ t.id = task[w].id)
      BY DEF Announcing, Idle
    <2>2. r \in DOMAIN rows /\ rows[r].kind = "message"
      BY <1>0, <1>2 DEF MessengerInv, MessengerTasks, MessengerTask
    <2>3. /\ Continue(w, t) /\ rows' = [rows EXCEPT ![r] = Updated(@, columns)]
          /\ stale \subseteq stale'
      BY <1>0, <1>2, <2>2 DEF Write
    <2>4. /\ TasksOK' /\ task'[w] = t /\ served' = served /\ served \in Nat
          /\ \A v \in Workers \ {w} : task'[v] = task[v]
      BY <1>2, <2>1, <2>3, ContinueKeeps DEF MessengerInv, TasksOK
    <2>5. ASSUME NEW s \in DOMAIN rows PROVE ConversationKept(s)
      BY <1>2, <2>2, <2>3 DEF ConversationKept, Updated, MessengerInv, MessengerRowsOK, MessengerRowOK
    <2>6. MessengerTask(task[w])'
      BY <2>1, <2>4 DEF MessengerTask, Sending
    <2>7. \A s \in DOMAIN rows : s # <<served + 1, 0>>
      BY <2>4 DEF MessengerInv, MessengerRowsOK, MessengerRowOK
    <2>8. DOMAIN rows' = DOMAIN rows
      BY <2>3
    <2>9. QED
      BY <2>3, <2>4, <2>5, <2>6, <2>7, <2>8, StepKeepsMessenger
  <1>3. CASE UpdateMessage(w)
    <2>1. CASE task[w].op = "edit" /\ Write(w, [content |-> task[w].id], "messenger.message.edited")
      <3>1. PICK columns : columns = [content |-> task[w].id]
        OBVIOUS
      <3>2. "kind" \notin DOMAIN columns
        BY <3>1
      <3>3. QED
        BY <1>2, <2>1, <3>1, <3>2
    <2>2. CASE /\ task[w].op = "delete message"
               /\ Write(w, [content |-> 0, deleted |-> TRUE], "messenger.message.deleted")
      <3>1. PICK columns : columns = [content |-> 0, deleted |-> TRUE]
        OBVIOUS
      <3>2. "kind" \notin DOMAIN columns
        BY <3>1
      <3>3. QED
        BY <1>2, <2>2, <3>1, <3>2
    <2>3. QED
      BY <1>3, <2>1, <2>2 DEF UpdateMessage, At
  <1>4. QED
    BY <1>1, <1>3

\* The requests of the messenger start, or are one statement.
LEMMA EndpointsKeepMessenger ==
    ASSUME NEW w \in Workers, MessengerInv,
           \/ ConversationEndpoints(w) \/ MemberEndpoints(w) \/ MessageEndpoints(w)
           \/ ReadEndpoints(w) \/ ReactionEndpoints(w) \/ SendSystemMessage(w)
    PROVE  MessengerInv'
  <1>1. New = <<served + 1, 0>> /\ New \notin DOMAIN rows /\ served \in Nat
    BY DEF MessengerInv, MessengerRowsOK, MessengerRowOK, New, TasksOK
  <1>2. \A s \in DOMAIN rows : MessengerRowOK(s)
    BY DEF MessengerInv, MessengerRowsOK
  <1>3. ASSUME NEW c, NEW u, NEW sender, c \in Conversations, Plan(w, "send", New, Message(c, sender))
        PROVE  MessengerInv'
    <2> DEFINE t == [op |-> "send", id |-> served + 1, row |-> New, copy |-> Message(c, sender)]
    <2>1. Start(w, t) /\ UNCHANGED records
      BY <1>3 DEF Plan
    <2>2. MessengerTask(t)
      BY <1>1 DEF MessengerTask, Sending, Message
    <2>3. QED
      BY <2>1, <2>2, BeginKeepsMessenger
  <1>4. ASSUME NEW m \in Messages, NEW op \in {"edit", "delete message"}, Read(w, op, m)
        PROVE  MessengerInv'
    <2> DEFINE t == [op |-> op, id |-> served + 1, row |-> m, copy |-> rows[m]]
    <2>1. Start(w, t) /\ UNCHANGED records
      BY <1>4 DEF Read, Plan
    <2>2. MessengerTask(t)
      BY DEF MessengerTask, Sending, Messages, Rows
    <2>3. QED
      BY <2>1, <2>2, BeginKeepsMessenger
  <1>5. ASSUME NEW newRows, NEW r, NEW type, Statement(w, newRows, r, type), DOMAIN newRows = DOMAIN rows,
               NEW x \in DOMAIN rows, \A s \in DOMAIN rows \ {x} : newRows[s] = rows[s],
               newRows[x] = rows[x]
               \/ /\ DOMAIN newRows[x] = DOMAIN rows[x]
                  /\ \A column \in DOMAIN rows[x] \ {"members", "left", "reactions"} :
                       newRows[x][column] = rows[x][column]
                  /\ rows[x].kind = "conversation" =>
                       /\ rows[x].left \subseteq newRows[x].left
                       /\ newRows[x].left # {} \/ DOMAIN rows[x].members \subseteq DOMAIN newRows[x].members
        PROVE  MessengerInv'
    <2>1. rows' = newRows
      BY <1>5 DEF Statement
    <2>2. ASSUME NEW s \in DOMAIN rows PROVE ConversationKept(s)
      <3>1. CASE rows'[s] = rows[s]
        BY <3>1, <1>2 DEF ConversationKept, MessengerRowOK
      <3>2. CASE rows'[s] # rows[s]
        <4>1. s = x
          BY <3>2, <2>1, <1>5
        <4>2. QED
          BY <3>2, <4>1, <2>1, <1>2, <1>5 DEF ConversationKept, MessengerRowOK, ConversationColumns
      <3>3. QED
        BY <3>1, <3>2
    <2>3. QED
      BY <1>5, <2>2, StatementKeepsMessenger
  <1>6. ASSUME NEW u \in Users, NEW peer \in Users, CreateDirectConversation(w, u, peer) PROVE MessengerInv'
    <2>1. Plan(w, "direct", New, Conversation("direct", <<u, peer>>, {u, peer}))
      BY <1>6 DEF CreateDirectConversation, LookUp
    <2> DEFINE t == [op |-> "direct", id |-> served + 1, row |-> New,
                     copy |-> Conversation("direct", <<u, peer>>, {u, peer})]
    <2>2. MessengerTask(t)
      BY <1>1 DEF MessengerTask, Sending, Conversation, ConversationColumns, BothAreIn
    <2>3. QED
      BY <2>1, <2>2, BeginKeepsMessenger DEF Plan
  <1>7. ASSUME NEW u \in Users, GetOrCreateEntityConversation(w, u) PROVE MessengerInv'
    <2>1. Plan(w, "entity", New, Conversation("entity", <<>>, {u}))
      BY <1>7 DEF GetOrCreateEntityConversation, LookUp
    <2> DEFINE t == [op |-> "entity", id |-> served + 1, row |-> New,
                     copy |-> Conversation("entity", <<>>, {u})]
    <2>2. MessengerTask(t)
      BY <1>1 DEF MessengerTask, Sending, Conversation, ConversationColumns, BothAreIn
    <2>3. QED
      BY <2>1, <2>2, BeginKeepsMessenger DEF Plan
  <1>8. ASSUME NEW u \in Users, CreateGroupConversation(w, u, Users) PROVE MessengerInv'
    <2>0. PICK new : new = New
      OBVIOUS
    <2> DEFINE row == Conversation("group", <<>>, Users \cup {u})
               t == Announcing(served + 1, new, "messenger.conversation.created")
    <2>1. Start(w, t) /\ rows' = With(rows, new, row) /\ stale' = stale
      BY <2>0, <1>8 DEF CreateGroupConversation, Add, Statement
    <2>2. t.op = "publish" /\ t.id = served + 1
      BY DEF Announcing, NoEvent
    <2>3. /\ TasksOK' /\ task'[w] = t /\ served' = served + 1
          /\ \A v \in Workers \ {w} : task'[v] = task[v]
      BY <2>1, <2>2, StartKeeps DEF MessengerInv
    <2>4. MessengerTask(task[w])'
      BY <2>2, <2>3 DEF MessengerTask, Sending
    <2>5. /\ DOMAIN rows' = DOMAIN rows \cup {new} /\ rows'[new] = row
          /\ \A s \in DOMAIN rows : rows'[s] = rows[s]
      BY <2>0, <2>1, <1>1 DEF With
    <2>6. \A s \in DOMAIN rows : ConversationKept(s)
      BY <2>5, <1>2 DEF ConversationKept, MessengerRowOK
    <2>7. \E i \in 0..served', n \in Nat : new = <<i, n>>
      BY <2>0, <2>3, <1>1
    <2>8. /\ MessengerRowOK(new)' /\ BothAreIn(rows[new])'
          /\ (rows[new].kind = "conversation" => rows[new].type = "group")'
      BY <2>5, <2>7 DEF MessengerRowOK, BothAreIn, Conversation, ConversationColumns
    <2>9. QED
      BY <2>0, <1>1, <2>1, <2>3, <2>4, <2>5, <2>6, <2>8, StepKeepsMessenger
  <1>9. ASSUME NEW c \in Conversations, NEW u \in Users, AddMember(w, c, u) PROVE MessengerInv'
    <2>1. c \in DOMAIN rows /\ ConversationColumns \subseteq DOMAIN rows[c]
      BY <1>2 DEF Conversations, Rows, MessengerRowOK
    <2>2. PICK members : members = IF u \in DOMAIN rows[c].members THEN rows[c].members
                                   ELSE With(rows[c].members, u, Member)
      OBVIOUS
    <2>3. DOMAIN rows[c].members \subseteq DOMAIN members
      BY <2>2 DEF With
    <2>4. Statement(w, [rows EXCEPT ![c].members = members], c, "messenger.member.added")
      BY <1>9, <2>1, <2>2 DEF AddMember
    <2>5. QED
      BY <2>1, <2>3, <2>4, <1>5 DEF ConversationColumns
  <1>10. ASSUME NEW c \in Conversations, NEW u \in Users, RemoveMember(w, c, u) PROVE MessengerInv'
    <2>1. c \in DOMAIN rows /\ ConversationColumns \subseteq DOMAIN rows[c]
      BY <1>2 DEF Conversations, Rows, MessengerRowOK
    <2> DEFINE newRows == [rows EXCEPT ![c].members = [v \in DOMAIN @ \ {u} |-> @[v]],
                                       ![c].left = @ \cup {u}]
    <2>2. Statement(w, newRows, c, "messenger.member.removed")
      BY <1>10 DEF RemoveMember
    <2>3. /\ DOMAIN newRows = DOMAIN rows /\ \A s \in DOMAIN rows \ {c} : newRows[s] = rows[s]
          /\ DOMAIN newRows[c] = DOMAIN rows[c]
          /\ \A column \in DOMAIN rows[c] \ {"members", "left", "reactions"} :
               newRows[c][column] = rows[c][column]
          /\ newRows[c].left = rows[c].left \cup {u}
      BY <2>1 DEF ConversationColumns
    <2> HIDE DEF newRows
    <2>4. QED
      BY <2>1, <2>2, <2>3, <1>5
  <1>11. ASSUME NEW c \in Conversations, NEW u \in Users, NEW columns, NEW type, SetMember(w, c, u, columns, type)
         PROVE MessengerInv'
    <2>1. c \in DOMAIN rows /\ ConversationColumns \subseteq DOMAIN rows[c]
      BY <1>2 DEF Conversations, Rows, MessengerRowOK
    <2> DEFINE changed == [rows EXCEPT ![c].members[u] = Updated(@, columns)]
               newRows == IF u \in Members(c) THEN changed ELSE rows
    <2>2. Statement(w, newRows, c, type)
      BY <1>11 DEF SetMember
    <2>3. /\ DOMAIN newRows = DOMAIN rows /\ \A s \in DOMAIN rows \ {c} : newRows[s] = rows[s]
          /\ DOMAIN newRows[c] = DOMAIN rows[c]
          /\ \A column \in DOMAIN rows[c] \ {"members", "left", "reactions"} :
               newRows[c][column] = rows[c][column]
          /\ newRows[c].left = rows[c].left /\ DOMAIN newRows[c].members = DOMAIN rows[c].members
      BY <2>1 DEF ConversationColumns
    <2> HIDE DEF newRows
    <2>4. QED
      BY <2>1, <2>2, <2>3, <1>5
  <1>12. ASSUME NEW m \in Messages, NEW reactions, NEW type, React(w, m, reactions, type) PROVE MessengerInv'
    <2>1. m \in DOMAIN rows /\ rows[m].kind = "message"
      BY DEF Messages, Rows
    <2> DEFINE newRows == [rows EXCEPT ![m] = Updated(@, [reactions |-> reactions])]
    <2>2. Statement(w, newRows, m, type)
      BY <1>12 DEF React, Set
    <2>3. DOMAIN newRows = DOMAIN rows /\ rows' = newRows
      BY <2>2 DEF Statement
    <2>4. \A s \in DOMAIN rows : ConversationKept(s)
      BY <2>1, <2>3, <1>2 DEF ConversationKept, Updated, MessengerRowOK
    <2> HIDE DEF newRows
    <2>5. QED
      BY <2>2, <2>3, <2>4, StatementKeepsMessenger
  <1>13. ASSUME NEW c \in Conversations, SetTyping(w, c) PROVE MessengerInv'
    <2>1. c \in DOMAIN rows
      BY DEF Conversations, Rows
    <2>2. QED
      BY <1>13, <2>1, <1>5 DEF SetTyping
  <1>14. CASE ConversationEndpoints(w)
    BY <1>14, <1>6, <1>7, <1>8 DEF ConversationEndpoints
  <1>15. CASE MemberEndpoints(w)
    <2>1. ASSUME NEW c \in Conversations, NEW u \in Users, NEW muted \in BOOLEAN, SetMuted(w, c, u, muted)
          PROVE  MessengerInv'
      BY <2>1, <1>11 DEF SetMuted
    <2>2. QED
      BY <1>15, <2>1, <1>9, <1>10 DEF MemberEndpoints
  <1>16. CASE MessageEndpoints(w)
    BY <1>16, <1>3, <1>4 DEF MessageEndpoints, SendMessage, EditMessage, DeleteMessage
  <1>17. CASE ReadEndpoints(w)
    <2>1. PICK c \in Conversations, u \in Users : \E m \in ListMessages(c, NoMessage, 50) : MarkRead(w, c, u, m)
      BY <1>17 DEF ReadEndpoints
    <2>2. PICK m : SetMember(w, c, u, [upto |-> m, read |-> served + 1], NoEvent)
      BY <2>1 DEF MarkRead
    <2>3. QED
      BY <2>2, <1>11
  <1>18. CASE ReactionEndpoints(w)
    BY <1>18, <1>12, <1>13 DEF ReactionEndpoints, AddReaction, RemoveReaction
  <1>19. CASE SendSystemMessage(w)
    BY <1>19, <1>3 DEF SendSystemMessage, FindEntityConversation
  <1>20. QED
    BY <1>14, <1>15, <1>16, <1>17, <1>18, <1>19

\* Events are published, or a request ends.
LEMMA RecordStepsKeepMessenger ==
    ASSUME NEW w \in Workers, MessengerInv, RecordSteps(w)
    PROVE  MessengerInv'
  <1>1. /\ Finish(w) /\ rows' = rows /\ stale' = stale
    BY DEF MessengerInv, MessengerTasks, MessengerTask, RecordSteps, SetComponent, Publish, Abandon, At, records
  <1>2. /\ TasksOK' /\ task'[w] = Idle /\ served' = served /\ served \in Nat
        /\ \A v \in Workers \ {w} : task'[v] = task[v]
    BY <1>1, ContinueKeeps DEF MessengerInv, Finish, Idle, TasksOK
  <1>3. MessengerTask(task[w])'
    BY <1>2 DEF MessengerTask, Sending, Idle
  <1>4. \A s \in DOMAIN rows : s # <<served + 1, 0>> /\ ConversationKept(s)
    BY <1>1, <1>2 DEF ConversationKept, MessengerInv, MessengerRowsOK, MessengerRowOK
  <1>5. QED
    BY <1>1, <1>2, <1>3, <1>4, StepKeepsMessenger

\* CreateDirectConversation and GetOrCreateEntityConversation (messenger/service.go:30,
\* 113): with any users and requests, a second conversation of one topic is marked as
\* made by overlapping creations or after a look-up that failed, or somebody left.
THEOREM ConversationsStayUnique == MessengerSpec => []ConversationsAreUnique
  <1>1. InitRecords(MessengerRows) => MessengerInv
    <2> SUFFICES ASSUME InitRecords(MessengerRows) PROVE MessengerInv
      OBVIOUS
    <2>1. rows = MessengerRows /\ served = 0 /\ task = [w \in Workers |-> Idle]
      BY DEF InitRecords, InitWork
    <2>2. /\ DOMAIN rows = {<<0, 1>>, <<0, 2>>} /\ rows[<<0, 1>>] = Conversation("group", <<>>, Users)
          /\ "kind" \in DOMAIN rows[<<0, 2>>] /\ rows[<<0, 2>>].kind = "message"
      BY <2>1 DEF MessengerRows, Message
    <2>3. TasksOK /\ MessengerTasks
      BY <2>1 DEF TasksOK, MessengerTasks, MessengerTask, Idle, Sending
    <2>4. ASSUME NEW r \in DOMAIN rows PROVE MessengerRowOK(r) /\ BothAreIn(rows[r])
      <3>1. \E i \in 0..served, n \in Nat : r = <<i, n>>
        BY <2>1, <2>2
      <3>2. QED
        BY <3>1, <2>2 DEF MessengerRowOK, BothAreIn, Conversation, ConversationColumns
    <2>5. ConversationsAreUnique
      BY <2>2 DEF ConversationsAreUnique, Conversations, Rows
    <2>6. QED
      BY <2>3, <2>4, <2>5 DEF MessengerInv, MessengerRowsOK
  <1>2. MessengerInv /\ [MessengerNext]_recordVars => MessengerInv'
    <2> SUFFICES ASSUME MessengerInv, [MessengerNext]_recordVars PROVE MessengerInv'
      OBVIOUS
    <2>1. CASE UNCHANGED recordVars
      <3>1. rows' = rows /\ stale' = stale /\ task' = task /\ served' = served
        BY <2>1 DEF recordVars, records, work
      <3>2. TasksOK' /\ MessengerRowsOK'
        BY <3>1 DEF MessengerInv, TasksOK, MessengerRowsOK, MessengerRowOK, BothAreIn, ConversationColumns
      <3>3. MessengerTasks'
        BY <3>1 DEF MessengerInv, MessengerTasks, MessengerTask, BothAreIn, ConversationColumns, Sending
      <3>4. ConversationsAreUnique'
        BY <3>1 DEF MessengerInv, ConversationsAreUnique, Conversations, Rows, SameTopic
      <3>5. QED
        BY <3>2, <3>3, <3>4 DEF MessengerInv
    <2>2. CASE MessengerNext
      BY <2>2, EndpointsKeepMessenger, InsertConversationKeeps, MessageKeepsMessenger,
         RecordStepsKeepMessenger DEF MessengerNext
    <2>3. QED
      BY <2>1, <2>2
  <1>3. MessengerInv => ConversationsAreUnique
    BY DEF MessengerInv
  <1>4. QED
    BY <1>1, <1>2, <1>3, PTL DEF MessengerSpec

-----------------------------------------------------------------------------
(* Banking: bookings are reported *)

BankingRowOK(r) ==
    /\ \E i \in 0..served, n \in Nat : r = <<i, n>>
    /\ "kind" \in DOMAIN rows[r]
    /\ rows[r].kind # "booking" => r[2] = 0

BankingRowsOK == \A r \in DOMAIN rows : BankingRowOK(r)

\* A reconciliation under way reports the bookings it has made so far.
BankingTask(t) ==
    /\ t.op # "parts"
    /\ t.op = "reconcile" =>
         /\ {"op", "id", "row", "entries"} \subseteq DOMAIN t
         /\ t.row = <<t.id, 0>> /\ t.row \notin DOMAIN rows
         /\ t.entries \in Seq({"matched", "manual"})
         /\ \A b \in Rows("booking") :
              b[1] = t.id => b[2] \in 1..Len(t.entries) /\ t.entries[b[2]] = "matched"

BankingTasks == \A w \in Workers : BankingTask(task[w])

\* A reconciliation that was committed reports its bookings.
ReportedBy(b) == <<b[1], 0>> \in DOMAIN rows => rows[<<b[1], 0>>].entries[b[2]] = "matched"

BankingReported == \A b \in Rows("booking") : ReportedBy(b)

\* The inductive invariant: the bookings of a reconciliation are among the lines
\* that it has done.
BankingInv == TasksOK /\ BankingRowsOK /\ BankingTasks /\ BankingReported

\* Only the reconciliation itself adds rows, and they have its number.
LEMMA StepKeepsBanking ==
    ASSUME NEW w \in Workers, BankingInv, TasksOK', served' \in {served, served + 1},
           NEW id, DOMAIN rows \subseteq DOMAIN rows',
           \A r \in DOMAIN rows : rows'[r] = rows[r],
           \A r \in DOMAIN rows' \ DOMAIN rows :
               /\ BankingRowOK(r)' /\ r[1] = id
               /\ rows'[r].kind = "booking" => ReportedBy(r)'
               /\ \A b \in Rows("booking") : b[1] = id /\ r[2] = 0 => rows'[r].entries[b[2]] = "matched",
           \A v \in Workers \ {w} : task'[v] = task[v] /\ (task[v].op = "reconcile" => task[v].id # id),
           BankingTask(task[w])'
    PROVE  BankingInv'
  <1>1. BankingRowsOK'
    <2>1. ASSUME NEW r \in DOMAIN rows PROVE BankingRowOK(r)'
      <3>1. BankingRowOK(r) /\ served \in Nat
        BY DEF BankingInv, BankingRowsOK, TasksOK
      <3>2. QED
        BY <3>1 DEF BankingRowOK
    <2>2. QED
      BY <2>1 DEF BankingRowsOK
  <1>2. \A b \in Rows("booking")' : b \in Rows("booking") \/ (b \in DOMAIN rows' \ DOMAIN rows)
    BY DEF Rows
  <1>3. BankingTasks'
    <2>1. ASSUME NEW v \in Workers, v # w PROVE BankingTask(task[v])'
      <3>1. task'[v] = task[v] /\ BankingTask(task[v])
        BY <2>1 DEF BankingInv, BankingTasks
      <3>2. CASE task[v].op # "reconcile"
        BY <3>1, <3>2 DEF BankingTask
      <3>3. CASE task[v].op = "reconcile"
        <4>1. PICK t : t = task[v]
          OBVIOUS
        <4>2. t.id # id /\ t.row = <<t.id, 0>> /\ t.row \notin DOMAIN rows'
          BY <2>1, <3>1, <3>3, <4>1 DEF BankingTask
        <4>3. \A b \in Rows("booking")' :
                b[1] = t.id => b[2] \in 1..Len(t.entries) /\ t.entries[b[2]] = "matched"
          BY <1>2, <2>1, <3>1, <3>3, <4>1, <4>2 DEF BankingTask
        <4>4. BankingTask(t)'
          BY <3>1, <3>3, <4>1, <4>2, <4>3 DEF BankingTask
        <4>5. QED
          BY <3>1, <4>1, <4>4 DEF BankingTask
      <3>4. QED
        BY <3>2, <3>3
    <2>2. QED
      BY <2>1 DEF BankingTasks
  <1>4. BankingReported'
    <2>1. ASSUME NEW b \in Rows("booking")' PROVE ReportedBy(b)'
      <3>1. CASE b \in DOMAIN rows' \ DOMAIN rows
        BY <3>1 DEF Rows
      <3>2. CASE b \in Rows("booking")
        <4>1. ReportedBy(b)
          BY <3>2 DEF BankingInv, BankingReported
        <4>2. CASE <<b[1], 0>> \in DOMAIN rows
          BY <4>1, <4>2 DEF ReportedBy
        <4>3. CASE <<b[1], 0>> \notin DOMAIN rows
          <5> SUFFICES ASSUME <<b[1], 0>> \in DOMAIN rows' PROVE rows'[<<b[1], 0>>].entries[b[2]] = "matched"
            BY DEF ReportedBy
          <5>1. PICK r : r = <<b[1], 0>>
            OBVIOUS
          <5>2. r[1] = b[1] /\ r[2] = 0 /\ r \in DOMAIN rows' \ DOMAIN rows
            BY <4>3, <5>1
          <5>3. QED
            BY <3>2, <5>1, <5>2
        <4>4. QED
          BY <4>2, <4>3
      <3>3. QED
        BY <1>2, <3>1, <3>2
    <2>2. QED
      BY <2>1 DEF BankingReported
  <1>5. QED
    BY <1>1, <1>3, <1>4 DEF BankingInv

\* A step that leaves the rows alone.
LEMMA QuietKeepsBanking ==
    ASSUME NEW w \in Workers, BankingInv, TasksOK', served' \in {served, served + 1}, rows' = rows,
           \A v \in Workers \ {w} : task'[v] = task[v],
           BankingTask(task[w])'
    PROVE  BankingInv'
  <1>1. \A v \in Workers \ {w} : task[v].op = "reconcile" => task[v].id # 0
    BY DEF BankingInv, TasksOK
  <1>2. QED
    BY <1>1, StepKeepsBanking

\* The payment endpoints write no row of this module.
LEMMA StatementsKeepBanking ==
    ASSUME NEW w \in Workers, NEW type, BankingInv, Statement(w, rows, <<0, 0>>, type)
    PROVE  BankingInv'
  <1> DEFINE t == Announcing(served + 1, <<0, 0>>, type)
  <1>1. t.op = "idle" \/ (t.op = "publish" /\ t.id = served + 1)
    BY DEF Announcing, Idle
  <1>2. Start(w, t) /\ rows' = rows
    BY DEF Statement
  <1>3. /\ TasksOK' /\ task'[w] = t /\ served' = served + 1
        /\ \A v \in Workers \ {w} : task'[v] = task[v]
    BY <1>1, <1>2, StartKeeps DEF BankingInv
  <1>4. BankingTask(task[w])'
    BY <1>1, <1>3 DEF BankingTask
  <1>5. QED
    BY <1>2, <1>3, <1>4, QuietKeepsBanking

\* A reconciliation starts with no lines and no bookings.
LEMMA AutoReconcileKeepsBanking ==
    ASSUME NEW w \in Workers, BankingInv, AutoReconcile(w)
    PROVE  BankingInv'
  <1>1. PICK t : t = [op |-> "reconcile", id |-> served + 1, row |-> New, entries |-> <<>>]
    OBVIOUS
  <1>2. Start(w, t) /\ rows' = rows
    BY <1>1 DEF AutoReconcile, records
  <1>3. /\ TasksOK' /\ task'[w] = t /\ served' = served + 1 /\ served \in Nat
        /\ \A v \in Workers \ {w} : task'[v] = task[v]
    BY <1>1, <1>2, StartKeeps DEF BankingInv, TasksOK
  <1>4. \A r \in DOMAIN rows : r[1] # served + 1 /\ r # <<served + 1, 0>>
    BY <1>3 DEF BankingInv, BankingRowsOK, BankingRowOK
  <1>5. BankingTask(t)'
    <2>1. Rows("booking")' \subseteq DOMAIN rows
      BY <1>2 DEF Rows
    <2>2. t.row = <<t.id, 0>> /\ t.id = served + 1 /\ t.entries \in Seq({"matched", "manual"})
      BY <1>1 DEF New
    <2>3. QED
      BY <1>1, <1>2, <1>4, <2>1, <2>2 DEF BankingTask
  <1>6. BankingTask(task[w])'
    BY <1>3, <1>5 DEF BankingTask
  <1>7. QED
    BY <1>2, <1>3, <1>6, QuietKeepsBanking

\* A line is reported as matched in the step that books it, or without one.
LEMMA ReconcileLineKeepsBanking ==
    ASSUME NEW w \in Workers, BankingInv, ReconcileLine(w)
    PROVE  BankingInv'
  <1>1. PICK t : t = task[w]
    OBVIOUS
  <1>2. /\ t.op = "reconcile" /\ BankingTask(t) /\ t.id \in 1..served /\ served \in Nat
    BY <1>1 DEF ReconcileLine, At, BankingInv, BankingTasks, TasksOK
  <1>3. PICK line : line = Len(t.entries) + 1
    OBVIOUS
  <1>4. PICK entry \in {"matched", "manual"} :
          /\ Continue(w, [t EXCEPT !.entries = Append(@, entry)])
          /\ \/ rows' = rows
             \/ entry = "matched" /\ rows' = With(rows, <<t.id, line>>, Booking(line))
    BY <1>1, <1>3 DEF ReconcileLine
  <1>5. PICK u : u = [t EXCEPT !.entries = Append(@, entry)]
    OBVIOUS
  <1>6. /\ u.op = "reconcile" /\ u.id = t.id /\ u.row = t.row /\ DOMAIN u = DOMAIN t
        /\ u.entries = Append(t.entries, entry)
    BY <1>2, <1>5 DEF BankingTask
  <1>7. /\ TasksOK' /\ task'[w] = u /\ served' = served
        /\ \A v \in Workers \ {w} : task'[v] = task[v]
    BY <1>1, <1>2, <1>4, <1>5, <1>6, ContinueKeeps DEF BankingInv
  <1>8. /\ Len(t.entries) \in Nat /\ line \in Nat \ {0} /\ Len(u.entries) = line
        /\ u.entries[line] = entry /\ u.entries \in Seq({"matched", "manual"})
        /\ \A n \in 1..Len(t.entries) : u.entries[n] = t.entries[n]
    BY <1>2, <1>3, <1>6 DEF BankingTask
  <1>9. PICK new : new = <<t.id, line>>
    OBVIOUS
  <1>10. new \notin DOMAIN rows
    <2>1. new \in DOMAIN rows => new \in Rows("booking")
      BY <1>8, <1>9 DEF BankingInv, BankingRowsOK, BankingRowOK, Rows
    <2>2. QED
      BY <2>1, <1>2, <1>3, <1>8, <1>9 DEF BankingTask
  <1>11. \/ rows' = rows
         \/ /\ entry = "matched" /\ DOMAIN rows' = DOMAIN rows \cup {new} /\ rows'[new] = Booking(line)
            /\ \A r \in DOMAIN rows : rows'[r] = rows[r]
    BY <1>4, <1>9, <1>10 DEF With
  <1>12. \A r \in DOMAIN rows' \ DOMAIN rows :
            r = new /\ entry = "matched" /\ rows'[r] = Booking(line)
    BY <1>11
  <1>13. t.row \notin DOMAIN rows /\ t.row = <<t.id, 0>> /\ t.row # new
    BY <1>2, <1>8, <1>9 DEF BankingTask
  <1>14. BankingTask(task[w])'
    <2>1. \A b \in Rows("booking")' : b[1] = t.id => b[2] \in 1..line /\ u.entries[b[2]] = "matched"
      <3> SUFFICES ASSUME NEW b \in Rows("booking")', b[1] = t.id
                   PROVE  b[2] \in 1..line /\ u.entries[b[2]] = "matched"
        OBVIOUS
      <3>1. CASE b \in DOMAIN rows
        <4>1. b \in Rows("booking")
          BY <3>1, <1>11 DEF Rows
        <4>2. b[2] \in 1..Len(t.entries) /\ t.entries[b[2]] = "matched"
          BY <4>1, <1>2 DEF BankingTask
        <4>3. QED
          BY <4>2, <1>3, <1>8
      <3>2. CASE b \notin DOMAIN rows
        <4>1. b = new /\ entry = "matched"
          BY <3>2, <1>12 DEF Rows
        <4>2. QED
          BY <4>1, <1>8, <1>9
      <3>3. QED
        BY <3>1, <3>2
    <2>2. t.row \notin DOMAIN rows'
      BY <1>12, <1>13
    <2>3. BankingTask(u)'
      BY <1>2, <1>6, <1>8, <1>13, <2>1, <2>2 DEF BankingTask
    <2>4. QED
      BY <1>7, <2>3 DEF BankingTask
  <1>15. ASSUME NEW r \in DOMAIN rows' \ DOMAIN rows
         PROVE  BankingRowOK(r)' /\ r[1] = t.id /\ ReportedBy(r)' /\ r[2] # 0
    <2>1. r = new /\ rows'[r] = Booking(line) /\ r[1] = t.id /\ r[2] = line
      BY <1>9, <1>12
    <2>2. \E i \in 0..served', n \in Nat : r = <<i, n>>
      BY <2>1, <1>2, <1>7, <1>8, <1>9
    <2>3. <<r[1], 0>> \notin DOMAIN rows'
      BY <2>1, <1>12, <1>13
    <2>4. QED
      BY <2>1, <2>2, <2>3, <1>8 DEF BankingRowOK, ReportedBy, Booking
  <1>16. \A v \in Workers \ {w} : task[v].op = "reconcile" => task[v].id # t.id
    BY <1>1, <1>2 DEF BankingInv, TasksOK
  <1>17. DOMAIN rows \subseteq DOMAIN rows' /\ \A r \in DOMAIN rows : rows'[r] = rows[r]
    BY <1>11
  <1>18. QED
    BY <1>7, <1>14, <1>15, <1>16, <1>17, StepKeepsBanking

\* The row that is committed holds what the reconciliation found.
LEMMA CommitKeepsBanking ==
    ASSUME NEW w \in Workers, BankingInv, CommitReconciliation(w)
    PROVE  BankingInv'
  <1>1. PICK t : t = task[w]
    OBVIOUS
  <1>2. /\ t.op = "reconcile" /\ BankingTask(t) /\ t.id \in 1..served /\ served \in Nat
    BY <1>1 DEF CommitReconciliation, At, BankingInv, BankingTasks, TasksOK
  <1>3. t.row = <<t.id, 0>> /\ t.row \notin DOMAIN rows
    BY <1>2 DEF BankingTask
  <1> DEFINE row == [kind |-> "reconciliation", entries |-> t.entries, matched |-> 0, unmatched |-> 0]
             u == Announcing(t.id, t.row, "bank.reconciliation.completed")
  <1>4. rows' = With(rows, t.row, row) /\ Continue(w, u)
    BY <1>1 DEF CommitReconciliation
  <1>5. u.op = "publish" /\ u.id = t.id
    BY DEF Announcing, NoEvent
  <1>6. /\ TasksOK' /\ task'[w] = u /\ served' = served
        /\ \A v \in Workers \ {w} : task'[v] = task[v]
    BY <1>1, <1>2, <1>4, <1>5, ContinueKeeps DEF BankingInv
  <1>7. /\ DOMAIN rows' = DOMAIN rows \cup {t.row} /\ rows'[t.row] = row
        /\ \A r \in DOMAIN rows : rows'[r] = rows[r]
    BY <1>3, <1>4 DEF With
  <1>8. BankingTask(task[w])'
    BY <1>5, <1>6 DEF BankingTask
  <1>9. ASSUME NEW r \in DOMAIN rows' \ DOMAIN rows
        PROVE  /\ BankingRowOK(r)' /\ r[1] = t.id /\ rows'[r].kind # "booking"
               /\ \A b \in Rows("booking") : b[1] = t.id => rows'[r].entries[b[2]] = "matched"
    <2>1. r = t.row /\ rows'[r] = row /\ r[1] = t.id /\ r[2] = 0
      BY <1>3, <1>7
    <2>2. \E i \in 0..served', n \in Nat : r = <<i, n>>
      BY <2>1, <1>2, <1>3, <1>6
    <2>3. \A b \in Rows("booking") : b[1] = t.id => t.entries[b[2]] = "matched"
      BY <1>2 DEF BankingTask
    <2>4. QED
      BY <2>1, <2>2, <2>3 DEF BankingRowOK
  <1>10. \A v \in Workers \ {w} : task[v].op = "reconcile" => task[v].id # t.id
    BY <1>1, <1>2 DEF BankingInv, TasksOK
  <1>11. QED
    BY <1>6, <1>7, <1>8, <1>9, <1>10, StepKeepsBanking

\* Events are published, or a request ends.
LEMMA RecordStepsKeepBanking ==
    ASSUME NEW w \in Workers, BankingInv, RecordSteps(w)
    PROVE  BankingInv'
  <1>1. Finish(w) /\ rows' = rows
    BY DEF BankingInv, BankingTasks, BankingTask, RecordSteps, SetComponent, Publish, Abandon, At, records
  <1>2. /\ TasksOK' /\ task'[w] = Idle /\ served' = served
        /\ \A v \in Workers \ {w} : task'[v] = task[v]
    BY <1>1, ContinueKeeps DEF BankingInv, Finish, Idle
  <1>3. BankingTask(task[w])'
    BY <1>2 DEF BankingTask, Idle
  <1>4. QED
    BY <1>1, <1>2, <1>3, QuietKeepsBanking

\* AutoReconcile (banking/service.go:152): for any statement and any requests, a
\* booking is of a line that its reconciliation reports, or of one that was rolled
\* back.
THEOREM BookingsReported == BankingSpec => []BookingsAreReported
  <1>1. InitRecords(<<>>) => BankingInv
    <2> SUFFICES ASSUME InitRecords(<<>>) PROVE BankingInv
      OBVIOUS
    <2>1. DOMAIN rows = {} /\ served = 0 /\ task = [w \in Workers |-> Idle]
      BY DEF InitRecords, InitWork
    <2>2. TasksOK /\ BankingTasks
      BY <2>1 DEF TasksOK, BankingTasks, BankingTask, Idle
    <2>3. BankingRowsOK /\ BankingReported
      BY <2>1 DEF BankingRowsOK, BankingReported, Rows
    <2>4. QED
      BY <2>2, <2>3 DEF BankingInv
  <1>2. BankingInv /\ [BankingNext]_recordVars => BankingInv'
    <2> SUFFICES ASSUME BankingInv, [BankingNext]_recordVars PROVE BankingInv'
      OBVIOUS
    <2>1. CASE UNCHANGED recordVars
      <3>1. rows' = rows /\ task' = task /\ served' = served
        BY <2>1 DEF recordVars, records, work
      <3>2. TasksOK' /\ BankingRowsOK' /\ BankingReported'
        BY <3>1 DEF BankingInv, TasksOK, BankingRowsOK, BankingRowOK, BankingReported, ReportedBy, Rows
      <3>3. BankingTasks'
        BY <3>1 DEF BankingInv, BankingTasks, BankingTask, Rows
      <3>4. QED
        BY <3>2, <3>3 DEF BankingInv
    <2>2. CASE BankingNext
      BY <2>2, StatementsKeepBanking, AutoReconcileKeepsBanking, ReconcileLineKeepsBanking,
         CommitKeepsBanking, RecordStepsKeepBanking
         DEF BankingNext, PaymentEndpoints, ReconciliationEndpoints, InitiatePayment, PayViaBank,
             HandlePaymentCallback
    <2>3. QED
      BY <2>1, <2>2
  <1>3. BankingInv => BookingsAreReported
    <2> SUFFICES ASSUME BankingInv, NEW b \in Rows("booking")
                 PROVE  /\ <<b[1], 0>> \in DOMAIN rows => rows[<<b[1], 0>>].entries[b[2]] = "matched"
                        /\ \A w \in Workers : At(w, "reconcile") /\ task[w].row = <<b[1], 0>>
                              => task[w].entries[b[2]] = "matched"
      BY DEF BookingsAreReported
    <2>1. ReportedBy(b)
      BY DEF BankingInv, BankingReported
    <2>2. ASSUME NEW w \in Workers, task[w].op = "reconcile", task[w].row = <<b[1], 0>>
          PROVE  task[w].entries[b[2]] = "matched"
      BY <2>2 DEF BankingInv, BankingTasks, BankingTask
    <2>3. QED
      BY <2>1, <2>2 DEF ReportedBy, At
  <1>4. QED
    BY <1>1, <1>2, <1>3, PTL DEF BankingSpec

=============================================================================
