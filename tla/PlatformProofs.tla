---------------------------- MODULE PlatformProofs ----------------------------
(***************************************************************************)
(* Theorems about the parts of the platform that share module Records:     *)
(* the idempotency of requests, sessions, the process engine and the live  *)
(* views, for any goroutines, any number of requests and any values of the *)
(* constants.                                                              *)
(***************************************************************************)
EXTENDS ServicesProofs, Idempotency, Sessions, ProcessEngine, LiveViews

-----------------------------------------------------------------------------
(* Idempotency: retries are absorbed *)

\* Markers and effects do not share ids.
IdemRows ==
    /\ \A r \in DOMAIN rows : (\E k \in Keys : r = Marker(k)) \/ \E i \in 1..served : r = <<i, 0>>
    /\ \A r \in DOMAIN rows : {"kind"} \subseteq DOMAIN rows[r]
    /\ \A k \in Keys : Marker(k) \in DOMAIN rows => rows[Marker(k)].kind = "marker"
    /\ \A i \in 1..served : <<i, 0>> \in DOMAIN rows => rows[<<i, 0>>].kind = "effect"

\* What a request under way holds.
IdemTasks ==
    \A w \in Workers :
      /\ task[w].op \in {"idle", "run", "respond", "publish"}
      /\ task[w].op \in {"run", "respond"} =>
           /\ task[w].row = <<task[w].id, 0>>
           /\ task[w].key \in Keys
           /\ task[w].marked \/ Marker(task[w].key) \in stale
      /\ task[w].op = "run" => task[w].row \notin DOMAIN rows

Busy(w, k) == task[w].op \in {"run", "respond"} /\ task[w].key = k

\* What is known of a key that did not expire.
OnceFor(k) ==
    /\ \A r, s \in Effects(k) : r = s
    /\ Marker(k) \notin DOMAIN rows => Effects(k) = {}
    /\ \A v, w \in Workers : Busy(v, k) /\ Busy(w, k) => v = w
    /\ \A w \in Workers : Busy(w, k) =>
         /\ Marker(k) \in DOMAIN rows
         /\ task[w].op = "run" => Effects(k) = {}
         /\ task[w].op = "respond" => Effects(k) = IF task[w].ok THEN {task[w].row} ELSE {}

OnceInv == \A k \in Keys : Marker(k) \notin stale => OnceFor(k)

\* The mutations that were answered with success.
Succeeded == UNION {Effects(k) : k \in Keys}

ReplayInv ==
    /\ \A k \in Keys : Marker(k) \in DOMAIN rows /\ rows[Marker(k)].state = "response"
          => rows[Marker(k)].by \in Succeeded
    /\ \A w \in Workers : task[w].op = "respond" /\ task[w].ok => task[w].row \in Succeeded
    /\ \A w \in Workers : task[w].op = "publish" => task[w].row \in Succeeded
    /\ \A n \in news : n.row \in Succeeded

\* The inductive invariant: a key that is not marked has one success at most, of the
\* goroutine that is busy with it or of one that is done.
IdemInv == TasksOK /\ IdemRows /\ IdemTasks /\ OnceInv /\ ReplayInv

\* A key that a step does not concern keeps what is known of it.
LEMMA OnceStays ==
    ASSUME NEW j \in Keys, OnceFor(j), Effects(j)' = Effects(j),
           Marker(j) \in DOMAIN rows => Marker(j) \in DOMAIN rows',
           \A v \in Workers : Busy(v, j)' => Busy(v, j) /\ task'[v] = task[v]
    PROVE  OnceFor(j)'
  BY DEF OnceFor, Busy

\* A key that starts to be processed has no effect yet, unless it expired.
LEMMA SetProcessingKeepsIdem ==
    ASSUME NEW w \in Workers, NEW k \in Keys, IdemInv, SetProcessing(w, k)
    PROVE  IdemInv'
  <1> DEFINE t == [op |-> "run", id |-> served + 1, row |-> New, key |-> k, marked |-> TRUE]
  <1>1. Start(w, t)
    BY DEF SetProcessing, Run
  <1>2. /\ TasksOK'
        /\ task'[w] = t /\ served' = served + 1
        /\ \A v \in Workers \ {w} : task'[v] = task[v]
    BY <1>1, StartKeeps DEF IdemInv
  <1>3. /\ rows' = With(rows, Marker(k), [kind |-> "marker", state |-> "processing", by |-> New])
        /\ stale' = stale /\ news' = news /\ Marker(k) \notin DOMAIN rows
    BY DEF SetProcessing
  <1>4. IdemRows' /\ IdemTasks'
    BY <1>2, <1>3 DEF IdemInv, IdemRows, IdemTasks, With, Marker, New, TasksOK
  <1>5. OnceInv'
    <2> SUFFICES ASSUME NEW j \in Keys, Marker(j) \notin stale
                 PROVE  OnceFor(j)'
      BY <1>3 DEF OnceInv, Marker
    <2>1. Effects(j)' = Effects(j)
      BY <1>2, <1>3 DEF IdemInv, IdemRows, With, Marker, TasksOK, Effects, Rows
    <2>2. OnceFor(j)
      BY DEF IdemInv, OnceInv
    <2>3. CASE j = k
      BY <2>1, <2>2, <2>3, <1>2, <1>3 DEF OnceFor, With, Busy
    <2>4. CASE j # k
      BY <2>1, <2>2, <2>4, <1>2, <1>3, OnceStays DEF With, Busy, Marker
    <2>5. QED
      BY <2>3, <2>4
  <1>6. ReplayInv'
    <2>1. \A j \in Keys : Effects(j)' = Effects(j)
      BY <1>2, <1>3 DEF IdemInv, IdemRows, With, Marker, TasksOK, Effects, Rows
    <2>2. Succeeded' = Succeeded
      BY <2>1 DEF Succeeded
    <2>3. QED
      BY <2>2, <1>2, <1>3 DEF IdemInv, ReplayInv, IdemRows, With, Marker
  <1>7. QED
    BY <1>2, <1>4, <1>5, <1>6 DEF IdemInv

\* Nothing is known of a key that Redis was not asked about.
LEMMA RunUnmarkedKeepsIdem ==
    ASSUME NEW w \in Workers, NEW k \in Keys, IdemInv, RunUnmarked(w, k)
    PROVE  IdemInv'
  <1> DEFINE t == [op |-> "run", id |-> served + 1, row |-> New, key |-> k, marked |-> FALSE]
  <1>1. Start(w, t)
    BY DEF RunUnmarked, Run
  <1>2. /\ TasksOK'
        /\ task'[w] = t /\ served' = served + 1
        /\ \A v \in Workers \ {w} : task'[v] = task[v]
    BY <1>1, StartKeeps DEF IdemInv
  <1>3. rows' = rows /\ stale' = stale \cup {Marker(k)} /\ news' = news
    BY DEF RunUnmarked
  <1>4. IdemRows' /\ IdemTasks'
    BY <1>2, <1>3 DEF IdemInv, IdemRows, IdemTasks, New, TasksOK, Marker
  <1>5. OnceInv'
    <2> SUFFICES ASSUME NEW j \in Keys, Marker(j) \notin stale'
                 PROVE  OnceFor(j)'
      BY DEF OnceInv, Marker
    <2>1. OnceFor(j) /\ j # k
      BY <1>3 DEF IdemInv, OnceInv
    <2>2. Effects(j)' = Effects(j)
      BY <1>3 DEF Effects, Rows
    <2>3. QED
      BY <2>1, <2>2, <1>2, <1>3, OnceStays DEF Busy
  <1>6. ReplayInv'
    BY <1>2, <1>3 DEF IdemInv, ReplayInv, Succeeded, Effects, Rows
  <1>7. QED
    BY <1>2, <1>4, <1>5, <1>6 DEF IdemInv

\* A response that is kept is that of an effect.
LEMMA ReplayKeepsIdem ==
    ASSUME NEW w \in Workers, NEW k \in Keys, IdemInv, Replay(w, k)
    PROVE  IdemInv'
  <1> DEFINE t == [op |-> "publish", id |-> served + 1, row |-> rows[Marker(k)].by,
                   type |-> "replayed"]
  <1>1. Start(w, t) /\ rows' = rows /\ stale' = stale /\ news' = news
    BY DEF Replay, Statement, Announcing, NoEvent
  <1>2. /\ TasksOK'
        /\ task'[w] = t /\ served' = served + 1
        /\ \A v \in Workers \ {w} : task'[v] = task[v]
    BY <1>1, StartKeeps DEF IdemInv
  <1>3. rows[Marker(k)].by \in Succeeded
    BY DEF IdemInv, ReplayInv, Replay
  <1>4. IdemRows' /\ IdemTasks'
    BY <1>1, <1>2 DEF IdemInv, IdemRows, IdemTasks, TasksOK, Marker
  <1>5. OnceInv'
    <2> SUFFICES ASSUME NEW j \in Keys, Marker(j) \notin stale
                 PROVE  OnceFor(j)'
      BY <1>1 DEF OnceInv, Marker
    <2>1. OnceFor(j)
      BY DEF IdemInv, OnceInv
    <2>2. Effects(j)' = Effects(j)
      BY <1>1 DEF Effects, Rows
    <2>3. QED
      BY <2>1, <2>2, <1>2, <1>1, OnceStays DEF Busy
  <1>6. ReplayInv'
    BY <1>1, <1>2, <1>3 DEF IdemInv, ReplayInv, Succeeded, Effects, Rows
  <1>7. QED
    BY <1>2, <1>4, <1>5, <1>6 DEF IdemInv

\* The mutation takes effect under the id of its request, or not at all.
LEMMA ExecuteKeepsIdem ==
    ASSUME NEW w \in Workers, IdemInv, Execute(w)
    PROVE  IdemInv'
  <1>1. PICK ok \in BOOLEAN :
          /\ \/ rows' = With(rows, task[w].row,
                             [kind |-> "effect", key |-> task[w].key, ok |-> ok])
             \/ ~ok /\ rows' = rows
          /\ Continue(w, [op |-> "respond", id |-> task[w].id, row |-> task[w].row, ok |-> ok,
                          key |-> task[w].key, marked |-> task[w].marked])
    BY DEF Execute
  <1> DEFINE k == task[w].key
             r == task[w].row
  <1>2. /\ task[w].op = "run" /\ k \in Keys /\ r = <<task[w].id, 0>> /\ task[w].id \in 1..served
        /\ stale' = stale /\ news' = news
    BY DEF Execute, At, IdemInv, IdemTasks, TasksOK
  <1>3. /\ TasksOK'
        /\ task'[w] = [op |-> "respond", id |-> task[w].id, row |-> r, ok |-> ok,
                       key |-> k, marked |-> task[w].marked]
        /\ served' = served
        /\ \A v \in Workers \ {w} : task'[v] = task[v]
    BY <1>1, <1>2, ContinueKeeps DEF IdemInv
  <1>4. IdemRows'
    <2>1. CASE rows' = With(rows, r, [kind |-> "effect", key |-> k, ok |-> ok])
      BY <2>1, <1>2, <1>3 DEF IdemInv, IdemRows, With, Marker
    <2>2. CASE rows' = rows
      BY <2>2, <1>2, <1>3 DEF IdemInv, IdemRows, Marker
    <2>3. QED
      BY <1>1, <2>1, <2>2
  <1>5. IdemTasks'
    BY <1>1, <1>2, <1>3 DEF IdemInv, IdemTasks, TasksOK, With, Marker
  <1>6. OnceInv'
    <2> SUFFICES ASSUME NEW j \in Keys, Marker(j) \notin stale
                 PROVE  OnceFor(j)'
      BY <1>2 DEF OnceInv, Marker
    <2>1. OnceFor(j)
      BY DEF IdemInv, OnceInv
    <2>2. CASE j = k
      <3>1. Busy(w, j) /\ Effects(j) = {} /\ Marker(j) \in DOMAIN rows
        BY <2>1, <2>2, <1>2 DEF OnceFor, Busy
      <3>2. Effects(j)' = IF ok THEN {r} ELSE {}
        <4>1. CASE rows' = With(rows, r, [kind |-> "effect", key |-> k, ok |-> ok])
          BY <4>1, <3>1, <2>2, <1>2 DEF IdemInv, IdemTasks, Effects, Rows, With
        <4>2. CASE rows' = rows /\ ~ok
          BY <4>2, <3>1 DEF Effects, Rows
        <4>3. QED
          BY <1>1, <4>1, <4>2
      <3>3. \A v \in Workers : Busy(v, j)' => v = w
        BY <3>1, <2>1, <1>2, <1>3 DEF OnceFor, Busy
      <3>4. Marker(j) \in DOMAIN rows'
        BY <3>1, <1>1 DEF With
      <3>5. task'[w].op = "respond" /\ task'[w].row = r /\ (task'[w].ok <=> ok)
        BY <1>3
      <3>6. QED
        BY <3>2, <3>3, <3>4, <3>5 DEF OnceFor, Busy
    <2>3. CASE j # k
      <3>1. Effects(j)' = Effects(j)
        <4>1. CASE rows' = With(rows, r, [kind |-> "effect", key |-> k, ok |-> ok])
          BY <4>1, <2>3, <1>2 DEF IdemInv, IdemTasks, Effects, Rows, With
        <4>2. CASE rows' = rows
          BY <4>2 DEF Effects, Rows
        <4>3. QED
          BY <1>1, <4>1, <4>2
      <3>2. QED
        BY <3>1, <2>1, <2>3, <1>1, <1>3, OnceStays DEF Busy, With
    <2>4. QED
      BY <2>2, <2>3
  <1>7. /\ Succeeded \subseteq Succeeded'
        /\ ok => r \in Succeeded'
        /\ \A j \in Keys : Marker(j) \in DOMAIN rows'
              => Marker(j) \in DOMAIN rows /\ rows'[Marker(j)] = rows[Marker(j)]
    <2>1. CASE rows' = With(rows, r, [kind |-> "effect", key |-> k, ok |-> ok])
      <3>1. r \notin DOMAIN rows /\ \A j \in Keys : Marker(j) # r
        <4>1. r \notin DOMAIN rows
          BY <1>2 DEF IdemInv, IdemTasks
        <4>2. task[w].id # 0
          BY <1>2 DEF IdemInv, TasksOK
        <4>3. QED
          BY <4>1, <4>2, <1>2 DEF Marker
      <3>2. \A j \in Keys : Effects(j) \subseteq Effects(j)'
        BY <2>1, <3>1 DEF With, Effects, Rows
      <3> PICK j \in Keys : j = k
        BY <1>2
      <3>3. ASSUME ok PROVE r \in Effects(j)'
        <4>1. r \in DOMAIN rows' /\ rows'[r] = [kind |-> "effect", key |-> k, ok |-> TRUE]
          BY <2>1, <3>3 DEF With
        <4>2. rows'[r].kind = "effect" /\ rows'[r].key = k /\ rows'[r].ok
          BY <4>1
        <4>3. r \in Rows("effect")'
          BY <4>1, <4>2 DEF Rows
        <4>4. QED
          BY <4>2, <4>3 DEF Effects
      <3>4. Succeeded \subseteq Succeeded' /\ (ok => r \in Succeeded')
        <4>1. Succeeded \subseteq Succeeded'
          BY <3>2 DEF Succeeded
        <4>2. QED
          BY <4>1, <3>3 DEF Succeeded
      <3>5. QED
        BY <2>1, <3>1, <3>4 DEF With
    <2>2. CASE rows' = rows /\ ~ok
      BY <2>2 DEF Succeeded, Effects, Rows
    <2>3. QED
      BY <1>1, <2>1, <2>2
  <1>8. ReplayInv'
    BY <1>2, <1>3, <1>7 DEF IdemInv, ReplayInv
  <1>9. QED
    BY <1>3, <1>4, <1>5, <1>6, <1>8 DEF IdemInv

\* The marker gets the response of the effect, or goes with a failed request.
LEMMA RespondKeepsIdem ==
    ASSUME NEW w \in Workers, IdemInv, Respond(w)
    PROVE  IdemInv'
  <1> DEFINE k == task[w].key
             r == task[w].row
  <1>1. /\ task[w].op = "respond" /\ k \in Keys /\ r = <<task[w].id, 0>> /\ task[w].id \in 1..served
        /\ stale' = stale /\ news' = news
    BY DEF Respond, At, IdemInv, IdemTasks, TasksOK
  <1>2. /\ TasksOK'
        /\ task'[w] = Idle /\ served' = served
        /\ \A v \in Workers \ {w} : task'[v] = task[v]
    BY ContinueKeeps DEF IdemInv, Respond, Finish, Idle
  <1>3. \/ rows' = rows /\ ~task[w].marked
        \/ /\ rows' = With(rows, Marker(k), [kind |-> "marker", state |-> "response", by |-> r])
           /\ task[w].ok
        \/ rows' = Without({Marker(k)}) /\ ~task[w].ok
    BY DEF Respond
  <1>4. IdemRows' /\ IdemTasks'
    BY <1>1, <1>2, <1>3 DEF IdemInv, IdemRows, IdemTasks, With, Without, Marker, TasksOK, Idle
  <1>5. /\ \A j \in Keys : Effects(j)' = Effects(j)
        /\ Succeeded \subseteq Succeeded'
    BY <1>1, <1>3 DEF IdemInv, IdemRows, With, Without, Marker, TasksOK, Succeeded, Effects, Rows
  <1>6. OnceInv'
    <2> SUFFICES ASSUME NEW j \in Keys, Marker(j) \notin stale
                 PROVE  OnceFor(j)'
      BY <1>1 DEF OnceInv, Marker
    <2>1. OnceFor(j)
      BY DEF IdemInv, OnceInv
    <2>2. CASE j = k
      <3>1. Busy(w, j) /\ Marker(j) \in DOMAIN rows
        BY <2>1, <2>2, <1>1 DEF OnceFor, Busy
      <3>2. \A v \in Workers : ~Busy(v, j)'
        BY <3>1, <2>1, <1>2 DEF OnceFor, Busy, Idle
      <3>3. Marker(j) \in DOMAIN rows' \/ Effects(j) = {}
        BY <3>1, <2>1, <2>2, <1>1, <1>3 DEF OnceFor, With, Without
      <3>4. QED
        BY <3>2, <3>3, <2>1, <1>5 DEF OnceFor
    <2>3. CASE j # k
      BY <2>1, <2>3, <1>2, <1>3, <1>5, OnceStays DEF Busy, With, Without, Marker, Idle
    <2>4. QED
      BY <2>2, <2>3
  <1>7. ReplayInv'
    BY <1>1, <1>2, <1>3, <1>5 DEF IdemInv, ReplayInv, IdemRows, With, Without, Marker, Idle
  <1>8. QED
    BY <1>2, <1>4, <1>6, <1>7 DEF IdemInv

\* Nothing is known of a key that expired.
LEMMA ExpireKeepsIdem ==
    ASSUME NEW k \in Keys, IdemInv, ExpireMarker(k)
    PROVE  IdemInv'
  <1>1. /\ rows' = Without({Marker(k)}) /\ stale' = stale \cup {Marker(k)}
        /\ task' = task /\ served' = served /\ news' = news
    BY DEF ExpireMarker, work
  <1>2. IdemRows' /\ IdemTasks' /\ TasksOK'
    BY <1>1 DEF IdemInv, IdemRows, IdemTasks, Without, Marker, TasksOK
  <1>3. /\ \A j \in Keys : Effects(j)' = Effects(j)
        /\ Succeeded \subseteq Succeeded'
    BY <1>1 DEF IdemInv, IdemRows, Without, Marker, Succeeded, Effects, Rows
  <1>4. OnceInv'
    <2> SUFFICES ASSUME NEW j \in Keys, Marker(j) \notin stale'
                 PROVE  OnceFor(j)'
      BY DEF OnceInv, Marker
    <2>1. OnceFor(j) /\ j # k
      BY <1>1 DEF IdemInv, OnceInv
    <2>2. QED
      BY <2>1, <1>1, <1>3, OnceStays DEF Busy, Without, Marker
  <1>5. ReplayInv'
    BY <1>1, <1>3 DEF IdemInv, ReplayInv, IdemRows, Without, Marker
  <1>6. QED
    BY <1>2, <1>4, <1>5 DEF IdemInv

\* A replay is announced, or a goroutine ends.
LEMMA RecordStepsKeepIdem ==
    ASSUME NEW w \in Workers, IdemInv, RecordSteps(w)
    PROVE  IdemInv'
  <1>1. task[w].op # "parts"
    BY DEF IdemInv, IdemTasks
  <1>2. /\ Finish(w) /\ rows' = rows /\ stale' = stale
        /\ task[w].op # "idle"
        /\ \/ news' = news
           \/ /\ task[w].op = "publish"
              /\ news' = news \cup {[type |-> task[w].type, row |-> task[w].row, id |-> task[w].id]}
    BY <1>1 DEF RecordSteps, SetComponent, Publish, Abandon, At, records
  <1>3. /\ TasksOK'
        /\ task'[w] = Idle /\ served' = served
        /\ \A v \in Workers \ {w} : task'[v] = task[v]
    BY <1>2, ContinueKeeps DEF IdemInv, Finish, Idle
  <1>4. IdemRows' /\ IdemTasks'
    BY <1>2, <1>3 DEF IdemInv, IdemRows, IdemTasks, Idle, Marker
  <1>5. OnceInv'
    <2> SUFFICES ASSUME NEW j \in Keys, Marker(j) \notin stale
                 PROVE  OnceFor(j)'
      BY <1>2 DEF OnceInv, Marker
    <2>1. OnceFor(j) /\ Effects(j)' = Effects(j)
      BY <1>2 DEF IdemInv, OnceInv, Effects, Rows
    <2>2. QED
      BY <2>1, <1>2, <1>3, OnceStays DEF Busy, Idle
  <1>6. ReplayInv'
    BY <1>2, <1>3 DEF IdemInv, ReplayInv, Succeeded, Effects, Rows, Idle
  <1>7. QED
    BY <1>3, <1>4, <1>5, <1>6 DEF IdemInv

\* Nothing is known of any key at the start.
LEMMA IdemInitially == InitRecords(<<>>) => IdemInv
  <1> SUFFICES ASSUME InitRecords(<<>>) PROVE IdemInv
    OBVIOUS
  <1>1. /\ DOMAIN rows = {} /\ stale = {} /\ news = {} /\ served = 0
        /\ task = [w \in Workers |-> Idle]
    BY DEF InitRecords, InitWork
  <1>2. TasksOK /\ IdemTasks /\ IdemRows
    BY <1>1 DEF TasksOK, IdemTasks, IdemRows, Idle, Marker
  <1>3. OnceInv /\ ReplayInv
    BY <1>1 DEF OnceInv, OnceFor, ReplayInv, Succeeded, Effects, Rows, Busy, Idle
  <1>4. QED
    BY <1>2, <1>3 DEF IdemInv

\* The invariant bounds the effects of a key.
LEMMA IdemImplies == IdemInv => RetriesAreAbsorbed
  <1> SUFFICES ASSUME IdemInv PROVE RetriesAreAbsorbed
    OBVIOUS
  <1>1. ASSUME NEW k \in Keys, Marker(k) \notin stale
        PROVE  ~(Cardinality(Effects(k)) > 1)
    <2>1. \A r, s \in Effects(k) : r = s
      BY <1>1 DEF IdemInv, OnceInv, OnceFor
    <2>2. Cardinality(Effects(k)) \in {0, 1}
      BY <2>1, AtMostOne
    <2>3. QED
      BY <2>2
  <1>2. QED
    BY <1>1 DEF RetriesAreAbsorbed, IdemInv, ReplayInv, Succeeded

\* The middleware Idempotency (idempotency.go:36): for any keys, retries and
\* expirations, and handlers that fail after a part of their work, a mutation succeeds
\* once per key that did not expire, and what is replayed is the response of one that did.
THEOREM RetriesAbsorbed == IdempotencySpec => []RetriesAreAbsorbed
  <1>1. InitRecords(<<>>) => IdemInv
    BY IdemInitially
  <1>2. IdemInv /\ [IdempotencyNext]_recordVars => IdemInv'
    <2> SUFFICES ASSUME IdemInv, [IdempotencyNext]_recordVars PROVE IdemInv'
      OBVIOUS
    <2>1. CASE UNCHANGED recordVars
      BY <2>1 DEF IdemInv, TasksOK, IdemRows, IdemTasks, OnceInv, OnceFor, ReplayInv, Busy,
                  Succeeded, Effects, Rows, Marker, recordVars, records, work
    <2>2. CASE IdempotencyNext
      BY <2>2, SetProcessingKeepsIdem, RunUnmarkedKeepsIdem, ReplayKeepsIdem, ExecuteKeepsIdem,
         RespondKeepsIdem, ExpireKeepsIdem, RecordStepsKeepIdem DEF IdempotencyNext
    <2>3. QED
      BY <2>1, <2>2
  <1>3. IdemInv => RetriesAreAbsorbed
    BY IdemImplies
  <1>4. QED
    BY <1>1, <1>2, <1>3, PTL DEF IdempotencySpec

-----------------------------------------------------------------------------
(* Sessions: a logout is final *)

Opening == {"session", "seance"}

\* A key that a request stores later is neither a row nor one of a set.
Seen(s) ==
    /\ \E i \in 0..served, n \in Nat : s = <<i, n>>
    /\ \A v \in Workers : task[v].op = "session" => task[v].row # s

Used(q) ==
    /\ \E i \in 0..served : q = <<i, 1>>
    /\ \A v \in Workers : task[v].op \in Opening => q # <<task[v].id, 1>>

SessionRowOK(r) ==
    /\ "kind" \in DOMAIN rows[r]
    /\ rows[r].kind = "seance" => "session" \in DOMAIN rows[r]
    /\ rows[r].kind = "set" => "ids" \in DOMAIN rows[r] /\ \A q \in rows[r].ids : Used(q)
    /\ rows[r].kind = "seance" <=> r[2] = 1
    /\ rows[r].kind = "set" <=> r[2] = 2

SessionRowsOK == \A r \in DOMAIN rows : Seen(r) /\ SessionRowOK(r)

\* A session that was ended: it is gone, but for what was stored again.
Ended(s) ==
    /\ Seen(s) /\ s[2] \notin {1, 2}
    /\ s \notin stale => s \notin DOMAIN rows /\ SeancesOf(s) \subseteq stale

Holding == {"seance", "switch", "delete seances", "delete session"}
Deleting == {"delete seances", "delete session"}

SessionTask(t) ==
    /\ t.op # "parts"
    /\ t.op = "session" =>
         /\ {"op", "id", "row", "copy"} \subseteq DOMAIN t /\ t.row = <<t.id, 0>>
    /\ t.op \in {"session", "switch"} => "kind" \in DOMAIN t.copy /\ t.copy.kind = "session"
    /\ t.op \in Holding => Seen(t.row) /\ t.row[2] \notin {1, 2}
    /\ t.op \in Deleting =>
         {"op", "id", "row", "ids"} \subseteq DOMAIN t /\ \A q \in t.ids : Used(q)
    /\ t.op = "delete session" => SeancesOf(t.row) \cap t.ids = {}
    /\ t.op = "publish" /\ t.type = "disconnect" => Ended(t.row)

SessionTasks == \A w \in Workers : SessionTask(task[w])

SessionsEnded == \A n \in news : n.type = "disconnect" => Ended(n.row)

\* The inductive invariant: a number is used for one session or one seance, and what
\* a logout has passed is gone or marked.
SessionsInv == TasksOK /\ SessionRowsOK /\ SessionTasks /\ SessionsEnded

SameRow(r) ==
    /\ r \in DOMAIN rows /\ "kind" \in DOMAIN rows'[r] /\ rows'[r].kind = rows[r].kind
    /\ rows[r].kind = "seance" => "session" \in DOMAIN rows'[r] /\ rows'[r].session = rows[r].session
    /\ rows[r].kind = "set" => "ids" \in DOMAIN rows'[r] /\ rows'[r].ids = rows[r].ids

\* A request that opens a session or a seance has a number nobody used.
LEMMA SeenStays ==
    ASSUME NEW w \in Workers, TasksOK, TasksOK', served' \in {served, served + 1},
           \A v \in Workers \ {w} : task'[v] = task[v],
           task'[w].op \in Opening =>
               task'[w].id = served + 1 \/ (task[w].op \in Opening /\ task'[w].id = task[w].id),
           task'[w].op = "session" => task'[w].row = <<served + 1, 0>>
    PROVE  (\A s : Seen(s) => Seen(s)') /\ (\A q : Used(q) => Used(q)')
  <1>1. served \in Nat
    BY DEF TasksOK
  <1>2. ASSUME NEW s, Seen(s) PROVE Seen(s)'
    <2>1. PICK i \in 0..served, n \in Nat : s = <<i, n>>
      BY <1>2 DEF Seen
    <2>2. \E j \in 0..served', m \in Nat : s = <<j, m>>
      BY <2>1, <1>1
    <2>3. ASSUME NEW v \in Workers, task'[v].op = "session" PROVE task'[v].row # s
      <3>1. CASE v = w
        BY <3>1, <2>1, <2>3, <1>1
      <3>2. CASE v # w
        BY <3>2, <2>3, <1>2 DEF Seen
      <3>3. QED
        BY <3>1, <3>2
    <2>4. QED
      BY <2>2, <2>3 DEF Seen
  <1>3. ASSUME NEW q, Used(q) PROVE Used(q)'
    <2>1. PICK i \in 0..served : q = <<i, 1>>
      BY <1>3 DEF Used
    <2>2. \E j \in 0..served' : q = <<j, 1>>
      BY <2>1, <1>1
    <2>3. ASSUME NEW v \in Workers, task'[v].op \in Opening PROVE q # <<task'[v].id, 1>>
      <3>1. CASE v = w
        BY <3>1, <2>1, <2>3, <1>1, <1>3 DEF Used
      <3>2. CASE v # w
        BY <3>2, <2>3, <1>3 DEF Used
      <3>3. QED
        BY <3>1, <3>2
    <2>4. QED
      BY <2>2, <2>3 DEF Used, Opening
  <1>4. QED
    BY <1>2, <1>3

\* Rows that are stored again are marked, and seances of what is gone.
LEMMA StepKeepsSessions ==
    ASSUME NEW w \in Workers, SessionsInv, TasksOK',
           \A s : Seen(s) => Seen(s)', \A q : Used(q) => Used(q)',
           \A v \in Workers \ {w} : task'[v] = task[v],
           \A r \in DOMAIN rows' : SameRow(r) \/ (Seen(r)' /\ SessionRowOK(r)'),
           \A s \in DOMAIN rows' \ DOMAIN rows : Seen(s) /\ s[2] \notin {1, 2} => s \in stale',
           \A q \in Rows("seance")' : \/ SameRow(q)
                                      \/ ~Used(q) /\ (q \in stale' \/ rows'[q].session \in DOMAIN rows),
           stale \subseteq stale',
           \A n \in news' : n \in news \/ (n.type = "disconnect" => Ended(n.row)),
           SessionTask(task[w])'
    PROVE  SessionsInv'
  <1>1. SessionRowsOK'
    <2>1. ASSUME NEW r \in DOMAIN rows', SameRow(r) PROVE Seen(r)' /\ SessionRowOK(r)'
      <3>1. Seen(r) /\ SessionRowOK(r) /\ r \in DOMAIN rows
        BY <2>1 DEF SessionsInv, SessionRowsOK, SameRow
      <3>2. Seen(r)'
        BY <3>1
      <3>3. SessionRowOK(r)'
        BY <3>1, <2>1 DEF SessionRowOK, SameRow
      <3>4. QED
        BY <3>2, <3>3
    <2>2. QED
      BY <2>1 DEF SessionRowsOK
  <1>2. \A s : \A q \in SeancesOf(s)' : q \in SeancesOf(s)
          \/ (~Used(q) /\ (q \in stale' \/ s \in DOMAIN rows))
    BY DEF SeancesOf, Rows, SameRow
  <1>3. ASSUME NEW s, Ended(s) PROVE Ended(s)'
    <2>1. Seen(s)' /\ s[2] \notin {1, 2}
      BY <1>3 DEF Ended
    <2>2. s \notin stale' => s \notin DOMAIN rows' /\ SeancesOf(s)' \subseteq stale'
      BY <1>2, <1>3 DEF Ended
    <2>3. QED
      BY <2>1, <2>2 DEF Ended
  <1>4. SessionsEnded'
    BY <1>3 DEF SessionsInv, SessionsEnded
  <1>5. SessionTasks'
    <2>1. ASSUME NEW v \in Workers, v # w PROVE SessionTask(task[v])'
      <3>1. PICK t : t = task[v]
        OBVIOUS
      <3>2. task'[v] = t /\ SessionTask(t)
        BY <2>1, <3>1 DEF SessionsInv, SessionTasks
      <3>3. t.op \in Holding => Seen(t.row)'
        BY <3>2 DEF SessionTask
      <3>4. t.op \in Deleting => \A q \in t.ids : Used(q) /\ Used(q)'
        BY <3>2 DEF SessionTask
      <3>5. t.op = "delete session" => SeancesOf(t.row)' \cap t.ids = {}
        BY <3>2, <3>4, <1>2 DEF SessionTask, Deleting
      <3>6. t.op = "publish" /\ t.type = "disconnect" => Ended(t.row)'
        BY <3>2, <1>3 DEF SessionTask
      <3>7. SessionTask(t)'
        BY <3>2, <3>3, <3>4, <3>5, <3>6 DEF SessionTask, Holding, Deleting
      <3>8. QED
        BY <3>2, <3>7 DEF SessionTask, Holding, Deleting
    <2>2. QED
      BY <2>1 DEF SessionTasks
  <1>6. QED
    BY <1>1, <1>4, <1>5 DEF SessionsInv

\* Steps that store no key, though they may delete some.
LEMMA CalmKeepsSessions ==
    ASSUME NEW w \in Workers, SessionsInv, TasksOK', served' \in {served, served + 1},
           \A v \in Workers \ {w} : task'[v] = task[v],
           task'[w].op \in Opening => task'[w].id = served + 1 /\ task'[w].op # "session",
           \A r \in DOMAIN rows' : r \in DOMAIN rows /\ rows'[r] = rows[r],
           stale \subseteq stale',
           \A n \in news' : n \in news \/ (n.type = "disconnect" => Ended(n.row)),
           SessionTask(task[w])'
    PROVE  SessionsInv'
  <1>1. /\ \A s : Seen(s) => Seen(s)'
        /\ \A q : Used(q) => Used(q)'
    BY SeenStays DEF SessionsInv, Opening
  <1>2. \A r \in DOMAIN rows' : SameRow(r)
    BY DEF SameRow, SessionsInv, SessionRowsOK, SessionRowOK
  <1>3. QED
    BY <1>1, <1>2, StepKeepsSessions DEF Rows

\* What was read before a request started.
LEMMA BeginKeepsSessions ==
    ASSUME NEW w \in Workers, NEW t, SessionsInv, Start(w, t), UNCHANGED records,
           t.id = served + 1, t.op # "session", SessionTask(t)
    PROVE  SessionsInv'
  <1>1. /\ TasksOK' /\ task'[w] = t /\ served' = served + 1
        /\ \A v \in Workers \ {w} : task'[v] = task[v]
        /\ rows' = rows /\ stale' = stale /\ news' = news
    BY StartKeeps DEF SessionsInv, records
  <1>2. /\ \A s : Seen(s) => Seen(s)'
        /\ \A q : Used(q) => Used(q)'
    BY <1>1, SeenStays DEF SessionsInv
  <1>3. SeancesOf(t.row)' = SeancesOf(t.row)
    BY <1>1 DEF SeancesOf, Rows
  <1>4. Ended(t.row) => Ended(t.row)'
    BY <1>1, <1>2, <1>3 DEF Ended
  <1>5. SessionTask(t)'
    BY <1>2, <1>3, <1>4 DEF SessionTask, Holding, Deleting
  <1>6. SessionTask(task[w])'
    BY <1>1, <1>5 DEF SessionTask, Holding, Deleting
  <1>7. QED
    BY <1>1, <1>6, CalmKeepsSessions

\* A new row under a number nobody used; a session may be stored next.
LEMMA AddKeepsSessions ==
    ASSUME NEW w \in Workers, NEW t, NEW n \in {0, 3}, NEW row, SessionsInv, Start(w, t),
           rows' = With(rows, <<served + 1, n>>, row), UNCHANGED <<stale, news>>,
           "kind" \in DOMAIN row, row.kind \notin {"seance", "set"},
           t.id = served + 1,
           t.op = "owner" \/ (t.op = "session" /\ n = 3 /\ t.row = <<served + 1, 0>>
                              /\ {"op", "id", "row", "copy"} \subseteq DOMAIN t
                              /\ "kind" \in DOMAIN t.copy /\ t.copy.kind = "session")
    PROVE  SessionsInv'
  <1>1. /\ TasksOK' /\ task'[w] = t /\ served' = served + 1 /\ served \in Nat
        /\ \A v \in Workers \ {w} : task'[v] = task[v]
        /\ stale' = stale /\ news' = news
    BY StartKeeps DEF SessionsInv, TasksOK
  <1>2. PICK new : new = <<served + 1, n>>
    OBVIOUS
  <1>3. /\ \A s : Seen(s) => Seen(s)'
        /\ \A q : Used(q) => Used(q)'
    BY <1>1, SeenStays DEF SessionsInv, Opening
  <1>4. ~Seen(new) /\ new \notin DOMAIN rows
    BY <1>1, <1>2 DEF Seen, SessionsInv, SessionRowsOK
  <1>5. /\ DOMAIN rows' = DOMAIN rows \cup {new} /\ rows'[new] = row
        /\ \A r \in DOMAIN rows : rows'[r] = rows[r]
    BY <1>2, <1>4 DEF With
  <1>6. \A r \in DOMAIN rows : SameRow(r)
    BY <1>5 DEF SameRow, SessionsInv, SessionRowsOK, SessionRowOK
  <1>7. SessionRowOK(new)'
    BY <1>2, <1>5 DEF SessionRowOK
  <1>8. Seen(new)'
    <2>1. \E i \in 0..served', m \in Nat : new = <<i, m>>
      BY <1>1, <1>2
    <2>2. ASSUME NEW v \in Workers, task'[v].op = "session" PROVE task'[v].row # new
      <3>1. CASE v = w
        BY <3>1, <2>2, <1>1, <1>2
      <3>2. CASE v # w
        <4>1. task[v].row = <<task[v].id, 0>> /\ task[v].id \in 1..served
          BY <3>2, <2>2, <1>1 DEF SessionsInv, SessionTasks, SessionTask, TasksOK
        <4>2. QED
          BY <3>2, <4>1, <1>1, <1>2
      <3>3. QED
        BY <3>1, <3>2
    <2>3. QED
      BY <2>1, <2>2 DEF Seen
  <1>9. SessionTask(task[w])'
    <2>1. SessionTask(t)'
      BY <1>1 DEF SessionTask, Holding, Deleting
    <2>2. QED
      BY <1>1, <2>1 DEF SessionTask, Holding, Deleting
  <1>10. \A q \in Rows("seance")' : q \in DOMAIN rows
    BY <1>5 DEF Rows
  <1>11. QED
    BY <1>1, <1>3, <1>4, <1>5, <1>6, <1>7, <1>8, <1>9, <1>10, StepKeepsSessions

\* Columns of an organization are written; sessions and seances have none of them.
LEMMA OrganizationKeepsSessions ==
    ASSUME NEW w \in Workers, SessionsInv, TasksOK', served' \in {served, served + 1},
           \A v \in Workers \ {w} : task'[v] = task[v], task'[w] = Idle,
           DOMAIN rows' = DOMAIN rows, stale \subseteq stale', news' = news,
           \A r \in DOMAIN rows : \A column \in DOMAIN rows[r] \ {"members", "name"} :
               column \in DOMAIN rows'[r] /\ rows'[r][column] = rows[r][column]
    PROVE  SessionsInv'
  <1>1. /\ \A s : Seen(s) => Seen(s)'
        /\ \A q : Used(q) => Used(q)'
    BY SeenStays DEF SessionsInv, Opening, Idle
  <1>2. \A r \in DOMAIN rows : SameRow(r)
    BY DEF SameRow, SessionsInv, SessionRowsOK, SessionRowOK
  <1>3. SessionTask(task[w])'
    BY DEF SessionTask, Holding, Deleting, Idle
  <1>4. QED
    BY <1>1, <1>2, <1>3, StepKeepsSessions DEF Rows

\* The key of a new session is nobody's, and nothing was said of it.
LEMMA CreateSessionKeeps ==
    ASSUME NEW w \in Workers, SessionsInv, CreateSession(w)
    PROVE  SessionsInv'
  <1>1. PICK t : t = task[w]
    OBVIOUS
  <1>2. PICK u : u = [t EXCEPT !.op = "seance"]
    OBVIOUS
  <1>3. PICK s : s = t.row
    OBVIOUS
  <1>4. /\ t.op = "session" /\ Continue(w, u) /\ rows' = With(rows, s, t.copy)
        /\ stale' = stale /\ news' = news
    BY <1>1, <1>2, <1>3 DEF CreateSession, At
  <1>5. SessionTask(t) /\ t.id \in 1..served /\ served \in Nat
    BY <1>1, <1>4 DEF SessionsInv, SessionTasks, TasksOK
  <1>6. /\ {"op", "id", "row", "copy"} \subseteq DOMAIN t /\ s = <<t.id, 0>>
        /\ "kind" \in DOMAIN t.copy /\ t.copy.kind = "session"
    BY <1>3, <1>4, <1>5 DEF SessionTask
  <1>7. u.op = "seance" /\ u.id = t.id /\ u.row = s
    BY <1>2, <1>3, <1>6
  <1>8. /\ TasksOK' /\ task'[w] = u /\ served' = served
        /\ \A v \in Workers \ {w} : task'[v] = task[v]
    BY <1>1, <1>4, <1>7, ContinueKeeps DEF SessionsInv
  <1>9. /\ \A r : Seen(r) => Seen(r)'
        /\ \A q : Used(q) => Used(q)'
    BY <1>1, <1>4, <1>7, <1>8, SeenStays DEF SessionsInv, Opening
  <1>10. ~Seen(s) /\ s \notin DOMAIN rows
    BY <1>1, <1>3, <1>4 DEF Seen, SessionsInv, SessionRowsOK
  <1>11. /\ DOMAIN rows' = DOMAIN rows \cup {s} /\ rows'[s] = t.copy
         /\ \A r \in DOMAIN rows : rows'[r] = rows[r]
    BY <1>4, <1>10 DEF With
  <1>12. \A r \in DOMAIN rows : SameRow(r)
    BY <1>11 DEF SameRow, SessionsInv, SessionRowsOK, SessionRowOK
  <1>13. Seen(s)'
    <2>1. \E i \in 0..served', n \in Nat : s = <<i, n>>
      BY <1>5, <1>6, <1>8
    <2>2. ASSUME NEW v \in Workers, task'[v].op = "session" PROVE task'[v].row # s
      <3>1. v # w /\ task'[v] = task[v]
        BY <2>2, <1>7, <1>8
      <3>2. task[v].row = <<task[v].id, 0>> /\ task[v].id # t.id
        BY <2>2, <3>1, <1>1, <1>4 DEF SessionsInv, SessionTasks, SessionTask, TasksOK
      <3>3. QED
        BY <3>1, <3>2, <1>6
    <2>3. QED
      BY <2>1, <2>2 DEF Seen
  <1>14. SessionRowOK(s)'
    BY <1>6, <1>11 DEF SessionRowOK
  <1>15. SessionTask(task[w])'
    <2>1. u.row[2] \notin {1, 2}
      BY <1>6, <1>7
    <2>2. QED
      BY <2>1, <1>7, <1>8, <1>13 DEF SessionTask, Holding, Deleting
  <1>16. \A q \in Rows("seance")' : q \in DOMAIN rows
    BY <1>6, <1>11 DEF Rows
  <1>17. QED
    BY <1>4, <1>8, <1>9, <1>10, <1>11, <1>12, <1>13, <1>14, <1>15, <1>16, StepKeepsSessions

\* A seance of a session that is gone is marked; its key was in no set.
LEMMA CreateSeanceKeeps ==
    ASSUME NEW w \in Workers, SessionsInv, CreateSeance(w)
    PROVE  SessionsInv'
  <1>1. PICK t : t = task[w]
    OBVIOUS
  <1>2. PICK s : s = t.row
    OBVIOUS
  <1>3. PICK q : q = <<t.id, 1>>
    OBVIOUS
  <1>4. PICK k : k = <<s[1], 2>>
    OBVIOUS
  <1>5. PICK ids : ids = Tracked(s) \cup {q}
    OBVIOUS
  <1>6. /\ t.op = "seance"
        /\ rows' = With(With(rows, k, [kind |-> "set", ids |-> ids]), q, [kind |-> "seance", session |-> s])
        /\ stale' = IF s \in DOMAIN rows THEN stale ELSE stale \cup {q}
        /\ Finish(w) /\ news' = news
    BY <1>1, <1>2, <1>3, <1>4, <1>5 DEF CreateSeance, At, SeanceKey, SetKey
  <1>7. Seen(s) /\ s[2] \notin {1, 2} /\ t.id \in 1..served /\ served \in Nat
    BY <1>1, <1>2, <1>6 DEF SessionsInv, SessionTasks, SessionTask, Holding, TasksOK
  <1>8. /\ TasksOK' /\ task'[w] = Idle /\ served' = served
        /\ \A v \in Workers \ {w} : task'[v] = task[v]
    BY <1>6, ContinueKeeps DEF SessionsInv, Finish, Idle
  <1>9. /\ \A r : Seen(r) => Seen(r)'
        /\ \A p : Used(p) => Used(p)'
    BY <1>8, SeenStays DEF SessionsInv, Opening, Idle
  <1>10. /\ DOMAIN rows' = DOMAIN rows \cup {k, q} /\ q # k
         /\ rows'[q] = [kind |-> "seance", session |-> s]
         /\ rows'[k] = [kind |-> "set", ids |-> ids]
         /\ \A r \in DOMAIN rows \ {k, q} : rows'[r] = rows[r]
    BY <1>3, <1>4, <1>6 DEF With
  <1>11. \A r \in DOMAIN rows \ {k, q} : SameRow(r)
    BY <1>10 DEF SameRow, SessionsInv, SessionRowsOK, SessionRowOK
  <1>12. ~Used(q)
    BY <1>1, <1>3, <1>6 DEF Used, Opening
  <1>13. Used(q)'
    <2>1. \E i \in 0..served' : q = <<i, 1>>
      BY <1>3, <1>7, <1>8
    <2>2. ASSUME NEW v \in Workers, task'[v].op \in Opening PROVE q # <<task'[v].id, 1>>
      <3>1. v # w /\ task'[v] = task[v]
        BY <2>2, <1>8 DEF Idle, Opening
      <3>2. task[v].id # t.id
        BY <2>2, <3>1, <1>1, <1>6 DEF SessionsInv, TasksOK, Opening
      <3>3. QED
        BY <3>1, <3>2, <1>3
    <2>3. QED
      BY <2>1, <2>2 DEF Used
  <1>14. Seen(q)' /\ Seen(k)'
    <2>1. /\ \E i \in 0..served', n \in Nat : q = <<i, n>>
          /\ \E i \in 0..served', n \in Nat : k = <<i, n>>
      BY <1>3, <1>4, <1>7, <1>8 DEF Seen
    <2>2. ASSUME NEW v \in Workers, task'[v].op = "session" PROVE task'[v].row \notin {q, k}
      <3>1. task'[v] = task[v]
        BY <2>2, <1>8 DEF Idle
      <3>2. task[v].row = <<task[v].id, 0>>
        BY <2>2, <3>1 DEF SessionsInv, SessionTasks, SessionTask
      <3>3. QED
        BY <3>1, <3>2, <1>3, <1>4
    <2>3. QED
      BY <2>1, <2>2 DEF Seen
  <1>15. \A p \in ids : Used(p)'
    <2>1. ASSUME k \in DOMAIN rows PROVE \A p \in rows[k].ids : Used(p)
      BY <2>1, <1>4 DEF SessionsInv, SessionRowsOK, SessionRowOK
    <2>2. \A p \in Tracked(s) : k \in DOMAIN rows /\ p \in rows[k].ids
      BY <1>4 DEF Tracked, SetKey
    <2>3. QED
      BY <2>1, <2>2, <1>5, <1>9, <1>13
  <1>16. SessionRowOK(q)' /\ SessionRowOK(k)'
    BY <1>3, <1>4, <1>10, <1>15 DEF SessionRowOK
  <1>17. SessionTask(task[w])'
    BY <1>8 DEF SessionTask, Holding, Deleting, Idle
  <1>18. \A p \in Rows("seance")' :
            SameRow(p) \/ (~Used(p) /\ (p \in stale' \/ rows'[p].session \in DOMAIN rows))
    <2>1. ASSUME NEW p \in Rows("seance")', p # q PROVE SameRow(p)
      BY <2>1, <1>10, <1>11 DEF Rows
    <2>2. q \in stale' \/ rows'[q].session \in DOMAIN rows
      BY <1>6, <1>10
    <2>3. QED
      BY <2>1, <2>2, <1>12
  <1>19. \A r \in DOMAIN rows' : SameRow(r) \/ (Seen(r)' /\ SessionRowOK(r)')
    BY <1>10, <1>11, <1>14, <1>16
  <1>20. \A r \in DOMAIN rows' \ DOMAIN rows : r[2] \in {1, 2}
    BY <1>3, <1>4, <1>10
  <1>21. QED
    BY <1>6, <1>8, <1>9, <1>17, <1>18, <1>19, <1>20, StepKeepsSessions

\* A session that comes back is marked.
LEMMA UpdateSessionKeeps ==
    ASSUME NEW w \in Workers, SessionsInv, UpdateSession(w)
    PROVE  SessionsInv'
  <1>1. PICK t : t = task[w]
    OBVIOUS
  <1>2. PICK s : s = t.row
    OBVIOUS
  <1>3. PICK copy : copy = [t.copy EXCEPT !.organization = t.organization]
    OBVIOUS
  <1>4. /\ t.op = "switch" /\ rows' = With(rows, s, copy)
        /\ stale' = IF s \in DOMAIN rows THEN stale ELSE stale \cup {s}
        /\ Finish(w) /\ news' = news
    BY <1>1, <1>2, <1>3 DEF UpdateSession, At
  <1>5. SessionTask(t)
    BY <1>1 DEF SessionsInv, SessionTasks
  <1>6. Seen(s) /\ s[2] \notin {1, 2} /\ "kind" \in DOMAIN copy /\ copy.kind = "session"
    BY <1>2, <1>3, <1>4, <1>5 DEF SessionTask, Holding
  <1>7. /\ TasksOK' /\ task'[w] = Idle /\ served' = served
        /\ \A v \in Workers \ {w} : task'[v] = task[v]
    BY <1>4, ContinueKeeps DEF SessionsInv, Finish, Idle
  <1>8. /\ \A r : Seen(r) => Seen(r)'
        /\ \A q : Used(q) => Used(q)'
    BY <1>7, SeenStays DEF SessionsInv, Opening, Idle
  <1>9. /\ DOMAIN rows' = DOMAIN rows \cup {s} /\ rows'[s] = copy
        /\ \A r \in DOMAIN rows \ {s} : rows'[r] = rows[r]
    BY <1>4 DEF With
  <1>10. \A r \in DOMAIN rows \ {s} : SameRow(r)
    BY <1>9 DEF SameRow, SessionsInv, SessionRowsOK, SessionRowOK
  <1>11. Seen(s)' /\ SessionRowOK(s)'
    BY <1>6, <1>8, <1>9 DEF SessionRowOK
  <1>12. SessionTask(task[w])'
    BY <1>7 DEF SessionTask, Holding, Deleting, Idle
  <1>13. \A q \in Rows("seance")' : SameRow(q)
    BY <1>6, <1>9, <1>10 DEF Rows
  <1>14. QED
    BY <1>4, <1>7, <1>8, <1>9, <1>10, <1>11, <1>12, <1>13, StepKeepsSessions

\* The session is deleted after its seances: what is left of them is marked.
LEMMA DeletionsKeepSessions ==
    ASSUME NEW w \in Workers, SessionsInv, DeleteSessionSeances(w) \/ DeleteSession(w)
    PROVE  SessionsInv'
  <1>1. PICK t : t = task[w]
    OBVIOUS
  <1>2. PICK s : s = t.row
    OBVIOUS
  <1>3. SessionTask(t) /\ t.op \in Deleting
    BY <1>1 DEF SessionsInv, SessionTasks, DeleteSessionSeances, DeleteSession, At, Deleting
  <1>4. /\ Seen(s) /\ s[2] \notin {1, 2} /\ {"op", "id", "row", "ids"} \subseteq DOMAIN t
        /\ \A q \in t.ids : Used(q)
    BY <1>2, <1>3 DEF SessionTask, Holding, Deleting
  <1>5. CASE DeleteSessionSeances(w)
    <2>1. PICK u : u = [t EXCEPT !.op = "delete session"]
      OBVIOUS
    <2>2. u.op = "delete session" /\ u.id = t.id /\ u.row = s /\ u.ids = t.ids /\ DOMAIN u = DOMAIN t
      BY <2>1, <1>2, <1>4
    <2>3. Continue(w, u) /\ rows' = Without(t.ids \cup {SetKey(s)}) /\ stale' = stale /\ news' = news
      BY <2>1, <1>1, <1>2, <1>5 DEF DeleteSessionSeances
    <2>4. /\ TasksOK' /\ task'[w] = u /\ served' = served
          /\ \A v \in Workers \ {w} : task'[v] = task[v]
      BY <2>2, <2>3, <1>1, <1>3, ContinueKeeps DEF SessionsInv, Deleting
    <2>5. \A r \in DOMAIN rows' : r \in DOMAIN rows /\ rows'[r] = rows[r] /\ r \notin t.ids
      BY <2>3 DEF Without
    <2>6. Seen(s)' /\ \A q \in t.ids : Used(q)'
      BY <2>2, <2>4, <1>4, SeenStays DEF SessionsInv, Opening
    <2>7. SeancesOf(s)' \cap t.ids = {}
      BY <2>5 DEF SeancesOf, Rows
    <2>8. SessionTask(u)'
      BY <2>2, <2>6, <2>7, <1>4 DEF SessionTask, Holding, Deleting
    <2>9. SessionTask(task[w])'
      BY <2>4, <2>8 DEF SessionTask, Holding, Deleting
    <2>10. QED
      BY <2>2, <2>3, <2>4, <2>5, <2>9, CalmKeepsSessions DEF Opening
  <1>6. CASE DeleteSession(w)
    <2>1. PICK u : u = Announcing(t.id, s, "disconnect")
      OBVIOUS
    <2>2. u.op = "publish" /\ u.id = t.id /\ u.row = s /\ u.type = "disconnect"
      BY <2>1 DEF Announcing, NoEvent
    <2>3. /\ Continue(w, u) /\ rows' = Without({s}) /\ news' = news
          /\ stale' = stale \cup (SeancesOf(s) \ t.ids) /\ t.op = "delete session"
      BY <2>1, <1>1, <1>2, <1>6 DEF DeleteSession, At
    <2>4. /\ TasksOK' /\ task'[w] = u /\ served' = served
          /\ \A v \in Workers \ {w} : task'[v] = task[v]
      BY <2>2, <2>3, <1>1, ContinueKeeps DEF SessionsInv
    <2>5. \A r \in DOMAIN rows' : r \in DOMAIN rows /\ rows'[r] = rows[r] /\ r # s
      BY <2>3 DEF Without
    <2>6. Seen(s)'
      BY <2>2, <2>4, <1>4, SeenStays DEF SessionsInv, Opening
    <2>7. SeancesOf(s)' \subseteq SeancesOf(s) /\ SeancesOf(s) \cap t.ids = {}
      BY <2>3, <2>5, <1>2, <1>3 DEF SeancesOf, Rows, SessionTask
    <2>8. Ended(s)'
      BY <2>3, <2>5, <2>6, <2>7, <1>4 DEF Ended
    <2>9. SessionTask(u)'
      BY <2>2, <2>8 DEF SessionTask, Holding, Deleting
    <2>10. SessionTask(task[w])'
      BY <2>4, <2>9 DEF SessionTask, Holding, Deleting
    <2>11. stale \subseteq stale'
      BY <2>3
    <2>12. QED
      BY <2>2, <2>3, <2>4, <2>5, <2>10, <2>11, CalmKeepsSessions DEF Opening
  <1>7. QED
    BY <1>5, <1>6

\* A disconnect is announced after the session was deleted, or a request ends.
LEMMA RecordStepsKeepSessions ==
    ASSUME NEW w \in Workers, SessionsInv, RecordSteps(w)
    PROVE  SessionsInv'
  <1>1. /\ Finish(w) /\ rows' = rows /\ stale' = stale
        /\ news' = news \/ (task[w].op = "publish"
             /\ news' = news \cup {[type |-> task[w].type, row |-> task[w].row, id |-> task[w].id]})
    BY DEF SessionsInv, SessionTasks, SessionTask, RecordSteps, SetComponent, Publish, Abandon, At, records
  <1>2. /\ TasksOK' /\ task'[w] = Idle /\ served' = served
        /\ \A v \in Workers \ {w} : task'[v] = task[v]
    BY <1>1, ContinueKeeps DEF SessionsInv, Finish, Idle
  <1>3. SessionTask(task[w])'
    BY <1>2 DEF SessionTask, Holding, Deleting, Idle
  <1>4. \A n \in news' : n \in news \/ (n.type = "disconnect" => Ended(n.row))
    <2>1. task[w].op = "publish" /\ task[w].type = "disconnect" => Ended(task[w].row)
      BY DEF SessionsInv, SessionTasks, SessionTask
    <2>2. QED
      BY <1>1, <2>1
  <1>5. QED
    BY <1>1, <1>2, <1>3, <1>4, CalmKeepsSessions DEF Opening, Idle

\* A key whose lifetime has passed.
LEMMA ExpireKeepsSessions ==
    ASSUME SessionsInv, NEW r, Expire(r)
    PROVE  SessionsInv'
  <1>1. /\ \A s \in DOMAIN rows' : s \in DOMAIN rows /\ rows'[s] = rows[s]
        /\ task' = task /\ served' = served /\ stale' = stale /\ news' = news
    BY DEF Expire, Without, work
  <1>2. TasksOK'
    BY <1>1 DEF SessionsInv, TasksOK
  <1>3. \A s : Seen(s)' = Seen(s)
    BY <1>1 DEF Seen
  <1>4. \A q : Used(q)' = Used(q)
    BY <1>1 DEF Used, Opening
  <1>5. SessionRowsOK'
    <2>1. ASSUME NEW s \in DOMAIN rows' PROVE Seen(s)' /\ SessionRowOK(s)'
      <3>1. Seen(s) /\ SessionRowOK(s) /\ rows'[s] = rows[s]
        BY <1>1 DEF SessionsInv, SessionRowsOK
      <3>2. QED
        BY <3>1, <1>3, <1>4 DEF SessionRowOK
    <2>2. QED
      BY <2>1 DEF SessionRowsOK
  <1>6. ASSUME NEW s PROVE SeancesOf(s)' \subseteq SeancesOf(s) /\ (Ended(s) => Ended(s)')
    <2>1. SeancesOf(s)' \subseteq SeancesOf(s)
      BY <1>1 DEF SeancesOf, Rows
    <2>2. QED
      BY <2>1, <1>1, <1>3 DEF Ended
  <1>7. SessionTasks'
    <2>1. ASSUME NEW v \in Workers PROVE SessionTask(task[v])'
      <3>1. PICK t : t = task[v]
        OBVIOUS
      <3>2. SessionTask(t) /\ task'[v] = t
        BY <3>1, <1>1 DEF SessionsInv, SessionTasks
      <3>3. SessionTask(t)'
        BY <3>2, <1>3, <1>4, <1>6 DEF SessionTask, Holding, Deleting
      <3>4. QED
        BY <3>2, <3>3 DEF SessionTask, Holding, Deleting
    <2>2. QED
      BY <2>1 DEF SessionTasks
  <1>8. SessionsEnded'
    BY <1>1, <1>6 DEF SessionsInv, SessionsEnded
  <1>9. QED
    BY <1>2, <1>5, <1>7, <1>8 DEF SessionsInv

\* The requests of a session start: login, unlock, switch, logout.
LEMMA AuthKeepsSessions ==
    ASSUME NEW w \in Workers, SessionsInv, AuthEndpoints(w)
    PROVE  SessionsInv'
  <1>1. served \in Nat /\ \A r \in DOMAIN rows : Seen(r) /\ SessionRowOK(r)
    BY DEF SessionsInv, SessionRowsOK, TasksOK
  <1>2. ASSUME NEW u, Register(w, u) PROVE SessionsInv'
    <2>1. PICK t : t = [op |-> "session", id |-> served + 1, row |-> <<served + 1, 0>>,
                        copy |-> [kind |-> "session", user |-> u, organization |-> NoOrganization]]
      OBVIOUS
    <2>2. PICK row : row = [kind |-> "user", user |-> u]
      OBVIOUS
    <2>3. /\ Start(w, t) /\ rows' = With(rows, <<served + 1, 3>>, row) /\ UNCHANGED <<stale, news>>
      BY <1>2, <2>1, <2>2 DEF Register, OpenSession, SessionKey
    <2>4. QED
      BY <2>1, <2>2, <2>3, AddKeepsSessions
  <1>3. ASSUME NEW u, Login(w, u) PROVE SessionsInv'
    <2>1. PICK o : OpenSession(w, u, o)
      BY <1>3 DEF Login
    <2>2. PICK t : t = [op |-> "session", id |-> served + 1, row |-> <<served + 1, 0>>,
                        copy |-> [kind |-> "session", user |-> u, organization |-> o]]
      OBVIOUS
    <2>3. Start(w, t) /\ UNCHANGED records
      BY <1>3, <2>1, <2>2 DEF Login, OpenSession, SessionKey
    <2>4. /\ TasksOK' /\ task'[w] = t /\ served' = served + 1
          /\ \A v \in Workers \ {w} : task'[v] = task[v]
          /\ rows' = rows /\ stale' = stale /\ news' = news
      BY <2>2, <2>3, StartKeeps DEF SessionsInv, records
    <2>5. /\ \A s : Seen(s) => Seen(s)'
          /\ \A q : Used(q) => Used(q)'
      BY <2>2, <2>4, SeenStays DEF SessionsInv
    <2>6. \A r \in DOMAIN rows' : SameRow(r)
      BY <2>4, <1>1 DEF SameRow, SessionRowOK
    <2>7. SessionTask(task[w])'
      BY <2>2, <2>4 DEF SessionTask, Holding, Deleting
    <2>8. QED
      BY <2>4, <2>5, <2>6, <2>7, StepKeepsSessions DEF Rows
  <1>4. ASSUME NEW s \in Rows("session") PROVE Seen(s) /\ s[2] \notin {1, 2}
    BY <1>1 DEF Rows, SessionRowOK
  <1>5. ASSUME NEW s \in Rows("session"), Unlock(w, s) PROVE SessionsInv'
    <2>1. PICK t : t = [op |-> "seance", id |-> served + 1, row |-> s, copy |-> rows[s]]
      OBVIOUS
    <2>2. Start(w, t) /\ UNCHANGED records
      BY <1>5, <2>1 DEF Unlock, Read, Plan
    <2>3. SessionTask(t)
      BY <2>1, <1>4 DEF SessionTask, Holding, Deleting
    <2>4. QED
      BY <2>1, <2>2, <2>3, BeginKeepsSessions
  <1>6. ASSUME NEW s \in Rows("session"), Logout(w, s) PROVE SessionsInv'
    <2>1. PICK ids : ids = Tracked(s)
      OBVIOUS
    <2>2. PICK op : op = IF ids = {} THEN "delete session" ELSE "delete seances"
      OBVIOUS
    <2>3. PICK t : t = [op |-> op, id |-> served + 1, row |-> s, ids |-> ids]
      OBVIOUS
    <2>4. Start(w, t) /\ UNCHANGED records
      BY <1>6, <2>1, <2>2, <2>3 DEF Logout
    <2>5. \A q \in ids : Used(q)
      <3>1. SetKey(s) \in DOMAIN rows => SessionRowOK(SetKey(s)) /\ SetKey(s)[2] = 2
        BY <1>1 DEF SetKey
      <3>2. QED
        BY <2>1, <3>1 DEF Tracked, SessionRowOK
    <2>6. SessionTask(t)
      BY <2>2, <2>3, <2>5, <1>4 DEF SessionTask, Holding, Deleting
    <2>7. QED
      BY <2>2, <2>3, <2>4, <2>6, BeginKeepsSessions
  <1>7. ASSUME NEW s \in Rows("session"), NEW o, SwitchOrganization(w, s, o) PROVE SessionsInv'
    <2>1. PICK t : t = [op |-> "switch", id |-> served + 1, row |-> s, copy |-> rows[s],
                        organization |-> o]
      OBVIOUS
    <2>2. Start(w, t) /\ UNCHANGED records
      BY <1>7, <2>1 DEF SwitchOrganization
    <2>3. "kind" \in DOMAIN rows[s] /\ rows[s].kind = "session"
      BY <1>1 DEF Rows, SessionRowOK
    <2>4. SessionTask(t)
      BY <2>1, <2>3, <1>4 DEF SessionTask, Holding, Deleting
    <2>5. QED
      BY <2>1, <2>2, <2>4, BeginKeepsSessions
  <1>8. QED
    BY <1>2, <1>3, <1>5, <1>6, <1>7 DEF AuthEndpoints

\* The requests about an organization and its members.
LEMMA OrganizationsKeepSessions ==
    ASSUME NEW w \in Workers, SessionsInv, OrganizationEndpoints(w) \/ AddOwner(w) \/ WriteOrganization(w)
    PROVE  SessionsInv'
  <1>1. ASSUME NEW u, CreateOrganization(w, u) PROVE SessionsInv'
    <2>1. PICK t : t = [op |-> "owner", id |-> served + 1, row |-> New, user |-> u]
      OBVIOUS
    <2>2. PICK row : row = [kind |-> "organization", owner |-> u, name |-> 0, members |-> {}]
      OBVIOUS
    <2>3. Start(w, t) /\ rows' = With(rows, <<served + 1, 0>>, row) /\ UNCHANGED <<stale, news>>
      BY <1>1, <2>1, <2>2 DEF CreateOrganization, New
    <2>4. t.op = "owner" /\ t.id = served + 1 /\ "kind" \in DOMAIN row /\ row.kind = "organization"
      BY <2>1, <2>2
    <2>5. QED
      BY <2>3, <2>4, AddKeepsSessions
  <1>2. ASSUME NEW o \in Organizations, UpdateOrganization(w, o) PROVE SessionsInv'
    <2>1. PICK t : t = [op |-> "organization", id |-> served + 1, row |-> o, copy |-> rows[o]]
      OBVIOUS
    <2>2. Start(w, t) /\ UNCHANGED records
      BY <1>2, <2>1 DEF UpdateOrganization, Read, Plan
    <2>3. SessionTask(t)
      BY <2>1 DEF SessionTask, Holding, Deleting
    <2>4. QED
      BY <2>1, <2>2, <2>3, BeginKeepsSessions
  <1>3. ASSUME NEW o \in Organizations, NEW members, Set(w, o, [members |-> members], NoEvent)
        PROVE  SessionsInv'
    <2>1. /\ Start(w, Idle) /\ stale' = stale /\ news' = news
          /\ rows' = [rows EXCEPT ![o] = Updated(@, [members |-> members])]
      BY <1>3 DEF Set, Statement, Announcing
    <2>2. /\ TasksOK' /\ task'[w] = Idle /\ served' = served + 1
          /\ \A v \in Workers \ {w} : task'[v] = task[v]
      BY <2>1, StartKeeps DEF SessionsInv, Idle
    <2>3. /\ DOMAIN rows' = DOMAIN rows
          /\ \A r \in DOMAIN rows : \A column \in DOMAIN rows[r] \ {"members", "name"} :
               column \in DOMAIN rows'[r] /\ rows'[r][column] = rows[r][column]
      BY <2>1 DEF Updated
    <2>4. QED
      BY <2>1, <2>2, <2>3, OrganizationKeepsSessions
  <1>4. CASE OrganizationEndpoints(w)
    BY <1>1, <1>2, <1>3, <1>4 DEF OrganizationEndpoints, AddOrganizationMember, RemoveOrganizationMember
  <1>5. CASE AddOwner(w) \/ WriteOrganization(w)
    <2>1. /\ Finish(w) /\ stale \subseteq stale' /\ news' = news
          /\ \/ rows' = rows
             \/ rows' = [rows EXCEPT ![task[w].row].members = @ \cup {task[w].user}]
             \/ rows' = [rows EXCEPT ![task[w].row] = Updated(@, [name |-> task[w].id])]
      BY <1>5 DEF AddOwner, WriteOrganization, Write, Announcing, Finish
    <2>2. /\ TasksOK' /\ task'[w] = Idle /\ served' = served
          /\ \A v \in Workers \ {w} : task'[v] = task[v]
      BY <2>1, ContinueKeeps DEF SessionsInv, Finish, Idle
    <2>3. /\ DOMAIN rows' = DOMAIN rows
          /\ \A r \in DOMAIN rows : \A column \in DOMAIN rows[r] \ {"members", "name"} :
               column \in DOMAIN rows'[r] /\ rows'[r][column] = rows[r][column]
      BY <2>1 DEF Updated
    <2>4. QED
      BY <2>1, <2>2, <2>3, OrganizationKeepsSessions
  <1>6. QED
    BY <1>4, <1>5

\* Logout (auth.go:154): for any requests that overlap with its three commands,
\* nothing is left of the session afterwards, but what is marked as stored again.
THEOREM LogoutEndsSessions == SessionsSpec => []LogoutIsFinal
  <1>1. InitRecords(SessionRows) => SessionsInv
    <2> SUFFICES ASSUME InitRecords(SessionRows) PROVE SessionsInv
      OBVIOUS
    <2>1. rows = SessionRows /\ served = 0 /\ news = {} /\ task = [w \in Workers |-> Idle]
      BY DEF InitRecords, InitWork
    <2>2. TasksOK /\ SessionTasks
      BY <2>1 DEF TasksOK, SessionTasks, SessionTask, Holding, Deleting, Idle
    <2>3. ASSUME NEW r \in DOMAIN rows PROVE Seen(r) /\ SessionRowOK(r)
      <3>1. PICK n \in 1..6 : r = <<0, n>>
        BY <2>1, <2>3 DEF SessionRows
      <3>2. \E i \in 0..served, m \in Nat : r = <<i, m>>
        BY <3>1, <2>1
      <3>3. Seen(r)
        BY <3>2, <2>1 DEF Seen, Idle
      <3>4. Used(<<0, 1>>)
        <4>1. \E i \in 0..served : <<0, 1>> = <<i, 1>>
          BY <2>1
        <4>2. QED
          BY <4>1, <2>1 DEF Used, Idle, Opening
      <3>5. PICK u : u = CHOOSE a \in Accounts : TRUE
        OBVIOUS
      <3>6. rows[r] = CASE n = 1 -> [kind |-> "seance", session |-> <<0, 6>>]
                        [] n = 2 -> [kind |-> "set", ids |-> {<<0, 1>>}]
                        [] n = 3 -> [kind |-> "user", user |-> u]
                        [] n \in {4, 5} -> [kind |-> "organization", owner |-> u, name |-> 0, members |-> {u}]
                        [] n = 6 -> [kind |-> "session", user |-> u, organization |-> <<0, 4>>]
        BY <3>1, <3>5, <2>1, <2>3 DEF SessionRows
      <3>7. SessionRowOK(r)
        <4>1. CASE n = 1
          BY <4>1, <3>1, <3>6 DEF SessionRowOK
        <4>2. CASE n = 2
          BY <4>2, <3>1, <3>4, <3>6 DEF SessionRowOK
        <4>3. CASE n = 3
          BY <4>3, <3>1, <3>6 DEF SessionRowOK
        <4>4. CASE n \in {4, 5}
          BY <4>4, <3>1, <3>6 DEF SessionRowOK
        <4>5. CASE n = 6
          BY <4>5, <3>1, <3>6 DEF SessionRowOK
        <4>6. QED
          BY <4>1, <4>2, <4>3, <4>4, <4>5
      <3>8. QED
        BY <3>3, <3>7
    <2>4. SessionsEnded
      BY <2>1 DEF SessionsEnded
    <2>5. QED
      BY <2>2, <2>3, <2>4 DEF SessionsInv, SessionRowsOK
  <1>2. SessionsInv /\ [SessionsNext]_recordVars => SessionsInv'
    <2> SUFFICES ASSUME SessionsInv, [SessionsNext]_recordVars PROVE SessionsInv'
      OBVIOUS
    <2>1. CASE UNCHANGED recordVars
      <3>1. rows' = rows /\ stale' = stale /\ news' = news /\ task' = task /\ served' = served
        BY <2>1 DEF recordVars, records, work
      <3>2. TasksOK'
        BY <3>1 DEF SessionsInv, TasksOK
      <3>3. /\ \A s : Seen(s)' = Seen(s)
            /\ \A q : Used(q)' = Used(q)
            /\ \A s : SeancesOf(s)' = SeancesOf(s)
        BY <3>1 DEF Seen, Used, Opening, SeancesOf, Rows
      <3>4. \A s : Ended(s) => Ended(s)'
        BY <3>1, <3>3 DEF Ended
      <3>5. SessionRowsOK'
        BY <3>1, <3>3 DEF SessionsInv, SessionRowsOK, SessionRowOK
      <3>6. SessionTasks' /\ SessionsEnded'
        BY <3>1, <3>3, <3>4 DEF SessionsInv, SessionTasks, SessionTask, Holding, Deleting, SessionsEnded
      <3>7. QED
        BY <3>2, <3>5, <3>6 DEF SessionsInv
    <2>2. CASE SessionsNext
      BY <2>2, AuthKeepsSessions, OrganizationsKeepSessions, CreateSessionKeeps, CreateSeanceKeeps,
         UpdateSessionKeeps, DeletionsKeepSessions, RecordStepsKeepSessions, ExpireKeepsSessions
         DEF SessionsNext
    <2>3. QED
      BY <2>1, <2>2
  <1>3. SessionsInv => LogoutIsFinal
    BY DEF SessionsInv, SessionsEnded, Ended, LogoutIsFinal
  <1>4. QED
    BY <1>1, <1>2, <1>3, PTL DEF SessionsSpec

-----------------------------------------------------------------------------
(* Process engine: histories are paths *)

Entries == {[from |-> tr.from, to |-> tr.to] : tr \in UNION {d.transitions : d \in Definitions}}

InstanceOK(x) ==
    /\ {"kind", "def", "init", "state", "status", "history"} \subseteq DOMAIN x
    /\ x.kind = "instance"
    /\ x.history \in Seq(Entries)
    /\ IsPath(x)

ProcessRowOK(x) == x.kind = "instance" => InstanceOK(x)

\* The map holds definitions, whatever was saved, deleted or loaded.
EngineOK(x) == /\ {"kind", "defs"} \subseteq DOMAIN x
               /\ x.kind = "engine" /\ \A e \in DOMAIN x.defs : x.defs[e] \in Definitions

ProcessRowsOK ==
    /\ \A r \in DOMAIN rows : ProcessRowOK(rows[r])
    /\ Engine \in DOMAIN rows /\ EngineOK(rows[Engine])

\* The copies of a goroutine are instances that were active when it read them.
CopiesOK(copies) ==
    \A r \in DOMAIN copies : r # Engine /\ InstanceOK(copies[r]) /\ copies[r].status = "active"

\* A transition of a version of the instance's definition, from its state.
Takes(x, tr) ==
    /\ \E d \in Definitions : d.id = x.def /\ tr \in d.transitions
    /\ tr.from = x.state

ProcessTask(t) ==
    /\ t.op = "register" => t.def \in Definitions
    /\ t.op = "start" => "op" \in DOMAIN t /\ t.row # Engine /\ t.def \in Definitions
    /\ t.op \in {"advance", "update"} => CopiesOK(t.copies)
    /\ t.op = "update" => t.row \in DOMAIN t.copies /\ Takes(t.copies[t.row], t.transition)

ProcessTasks == \A w \in Workers : ProcessTask(task[w])

\* The inductive invariant: rows and copies are paths, and the copies and the map
\* are of definitions.
ProcessInv == served \in Nat /\ task = [w \in Workers |-> task[w]] /\ ProcessRowsOK /\ ProcessTasks

\* StartProcess: a new instance has taken no transition.
LEMMA NewInstanceIsPath ==
    ASSUME NEW d
    PROVE  InstanceOK(Instance(d)) /\ Instance(d).status = "active"
  <1> PICK x : x = Instance(d)
    OBVIOUS
  <1>1. /\ DOMAIN x = {"kind", "def", "init", "state", "status", "history"}
        /\ x.kind = "instance" /\ x.history = <<>> /\ x.status = "active"
        /\ x.state = x.init
    BY DEF Instance
  <1>2. <<>> \in Seq(Entries) /\ Len(<<>>) = 0 /\ DOMAIN <<>> = {}
    OBVIOUS
  <1>3. IsPath(x)
    BY <1>1, <1>2 DEF IsPath, Reached
  <1>4. QED
    BY <1>1, <1>2, <1>3 DEF InstanceOK

\* One more transition from the current state of an active instance is a path again.
LEMMA AdvancedIsPath ==
    ASSUME NEW x, NEW tr, InstanceOK(x), x.status = "active", Takes(x, tr)
    PROVE  InstanceOK(Advanced(x, tr))
  <1> PICK entry : entry = [from |-> x.state, to |-> tr.to]
    OBVIOUS
  <1> PICK n : n = Len(x.history)
    OBVIOUS
  <1> PICK y : y = Advanced(x, tr)
    OBVIOUS
  <1>1. /\ {"kind", "def", "init", "state", "status", "history"} \subseteq DOMAIN x
        /\ x.kind = "instance" /\ x.history \in Seq(Entries) /\ IsPath(x)
    BY DEF InstanceOK
  <1>2. PICK d \in Definitions : d.id = x.def /\ tr \in d.transitions
    BY DEF Takes
  <1>3. entry \in Entries /\ entry = [from |-> tr.from, to |-> tr.to] /\ tr.terminal \in BOOLEAN
    BY <1>2, ProcessAssumption DEF Entries, Takes
  <1>4. /\ DOMAIN y = DOMAIN x /\ y.kind = x.kind /\ y.def = x.def /\ y.init = x.init
        /\ y.state = tr.to /\ y.history = Append(x.history, entry)
        /\ y.status = IF tr.terminal THEN "completed" ELSE "active"
    BY <1>1 DEF Advanced
  <1>5. /\ y.history \in Seq(Entries) /\ Len(y.history) = n + 1 /\ n \in Nat
        /\ DOMAIN y.history = 1..(n + 1) /\ DOMAIN x.history = 1..n
        /\ y.history[n + 1] = entry
        /\ \A i \in 1..n : y.history[i] = x.history[i]
    BY <1>1, <1>3, <1>4
  <1>6. \A i \in 0..n : Reached(y, i) = Reached(x, i)
    BY <1>4, <1>5 DEF Reached
  <1>7. Reached(y, n + 1) = tr.to
    BY <1>5 DEF Reached
  <1>8. y.status = "completed" <=> tr.terminal
    BY <1>3, <1>4
  <1>9. ASSUME NEW i \in DOMAIN y.history
        PROVE  \E e \in Definitions : \E u \in e.transitions :
                  /\ e.id = y.def /\ u.from = Reached(y, i - 1)
                  /\ y.history[i] = [from |-> u.from, to |-> u.to]
                  /\ u.terminal = (i = Len(y.history) /\ y.status = "completed")
    <2>1. CASE i = n + 1
      <3>1. tr.from = Reached(y, i - 1)
        BY <2>1, <1>1, <1>5, <1>6 DEF Takes, IsPath
      <3>2. tr.terminal = (i = Len(y.history) /\ y.status = "completed")
        BY <2>1, <1>3, <1>5, <1>8
      <3>3. QED
        BY <2>1, <3>1, <3>2, <1>2, <1>3, <1>4, <1>5
    <2>2. CASE i # n + 1
      <3>1. i \in 1..n /\ i - 1 \in 0..n
        BY <2>2, <1>5
      <3>2. PICK e \in Definitions : \E u \in e.transitions :
               /\ e.id = x.def /\ u.from = Reached(x, i - 1)
               /\ x.history[i] = [from |-> u.from, to |-> u.to]
               /\ u.terminal = (i = Len(x.history) /\ x.status = "completed")
        BY <3>1, <1>1, <1>5 DEF IsPath
      <3>3. PICK u \in e.transitions :
               /\ e.id = x.def /\ u.from = Reached(x, i - 1)
               /\ x.history[i] = [from |-> u.from, to |-> u.to]
               /\ u.terminal = (i = Len(x.history) /\ x.status = "completed")
        BY <3>2
      <3>4. u.terminal = (i = Len(y.history) /\ y.status = "completed")
        BY <3>1, <3>3, <2>2, <1>5, <1>8
      <3>5. QED
        BY <3>1, <3>3, <3>4, <1>4, <1>5, <1>6
    <2>3. QED
      BY <2>1, <2>2
  <1>10. IsPath(y)
    <2>1. y.state = Reached(y, Len(y.history)) /\ y.history # <<>>
      <3>1. y.state = Reached(y, Len(y.history))
        BY <1>4, <1>5, <1>7
      <3>2. Len(y.history) # 0
        BY <1>5
      <3>3. QED
        BY <3>1, <3>2
    <2>2. QED
      BY <2>1, <1>9 DEF IsPath
  <1>11. QED
    BY <1>1, <1>4, <1>5, <1>10 DEF InstanceOK

\* What goroutines hold is judged by itself, whatever the tables hold.
LEMMA ProcessTasksNext ==
    ASSUME \A v \in Workers : ProcessTask(task'[v])
    PROVE  ProcessTasks'
  <1> SUFFICES ASSUME NEW v \in Workers PROVE ProcessTask(task[v])'
    BY DEF ProcessTasks
  <1> PICK t : t = task'[v]
    OBVIOUS
  <1>1. ProcessTask(t)
    OBVIOUS
  <1>2. CopiesOK(task[v].copies)' <=> CopiesOK(t.copies)
    BY DEF CopiesOK, InstanceOK, IsPath, Reached
  <1>3. Takes(task[v].copies[task[v].row], task[v].transition)' <=> Takes(t.copies[t.row], t.transition)
    BY DEF Takes
  <1>4. QED
    BY <1>1, <1>2, <1>3 DEF ProcessTask

\* One goroutine makes a step and the rows stay right.
LEMMA StepKeepsProcess ==
    ASSUME NEW w \in Workers, NEW t, ProcessInv, served' \in {served, served + 1},
           task' = [task EXCEPT ![w] = t], ProcessTask(t), ProcessRowsOK'
    PROVE  ProcessInv'
  <1>1. /\ task' = [v \in Workers |-> task'[v]] /\ task'[w] = t
        /\ \A v \in Workers \ {w} : task'[v] = task[v]
    BY DEF ProcessInv
  <1>2. \A v \in Workers : ProcessTask(task'[v])
    BY <1>1 DEF ProcessInv, ProcessTasks
  <1>3. ProcessTasks'
    BY <1>2, ProcessTasksNext
  <1>4. QED
    BY <1>1, <1>3 DEF ProcessInv

\* The table and the map are written; no instance is.
LEMMA WriteDefinitionsKeepsProcess ==
    ASSUME NEW w \in Workers, ProcessInv,
           DefinitionEndpoints(w) \/ WriteMap(w)
    PROVE  ProcessInv'
  <1>1. CASE \E d \in Definitions, active \in BOOLEAN : SaveDefinition(w, d, active)
    <2>1. PICK d \in Definitions, active \in BOOLEAN : SaveDefinition(w, d, active)
      BY <1>1
    <2>2. PICK t : /\ t = [op |-> IF active THEN "register" ELSE "publish", id |-> served + 1,
                           row |-> Engine, def |-> d, type |-> "saved"]
                   /\ Start(w, t)
      BY <2>1 DEF SaveDefinition
    <2>3. ProcessTask(t)
      BY <2>2 DEF ProcessTask
    <2>4. PICK row : row = [kind |-> "definition", def |-> d, active |-> active]
      OBVIOUS
    <2>5. rows' = With(rows, DefinitionRow(d.id), row)
      BY <2>1, <2>4 DEF SaveDefinition
    <2>6. DefinitionRow(d.id) # Engine /\ ProcessRowOK(row)
      BY <2>4 DEF DefinitionRow, Engine, ProcessRowOK
    <2>7. ProcessRowsOK'
      <3>1. \A r \in DOMAIN rows' : rows'[r] = row \/ (r \in DOMAIN rows /\ rows'[r] = rows[r])
        BY <2>5 DEF With
      <3>2. Engine \in DOMAIN rows' /\ rows'[Engine] = rows[Engine]
        BY <2>5, <2>6 DEF With, ProcessInv, ProcessRowsOK
      <3>3. \A r \in DOMAIN rows' : ProcessRowOK(rows'[r])
        BY <3>1, <2>6 DEF ProcessInv, ProcessRowsOK
      <3>4. QED
        BY <3>2, <3>3 DEF ProcessInv, ProcessRowsOK, ProcessRowOK, InstanceOK, IsPath, Reached, EngineOK
    <2>8. QED
      BY <2>2, <2>3, <2>7, StepKeepsProcess DEF Start
  <1>2. CASE \E r \in Rows("definition") : DeleteDefinition(w, r)
    <2>1. PICK r \in Rows("definition") : DeleteDefinition(w, r)
      BY <1>2
    <2>2. PICK t : /\ t = [op |-> "unregister", id |-> served + 1, row |-> Engine, def |-> rows[r].def]
                   /\ Start(w, t)
      BY <2>1 DEF DeleteDefinition
    <2>3. ProcessTask(t) /\ r # Engine
      BY <2>2 DEF ProcessTask, Rows, ProcessInv, ProcessRowsOK, EngineOK
    <2>4. rows' = Without({r})
      BY <2>1 DEF DeleteDefinition
    <2>5. ProcessRowsOK'
      <3>1. /\ \A s \in DOMAIN rows' : s \in DOMAIN rows /\ rows'[s] = rows[s]
            /\ Engine \in DOMAIN rows'
        BY <2>3, <2>4 DEF Without, ProcessInv, ProcessRowsOK
      <3>2. \A s \in DOMAIN rows' : ProcessRowOK(rows'[s])
        BY <3>1 DEF ProcessInv, ProcessRowsOK
      <3>3. QED
        BY <3>1, <3>2 DEF ProcessInv, ProcessRowsOK, ProcessRowOK, InstanceOK, IsPath, Reached, EngineOK
    <2>6. QED
      BY <2>2, <2>3, <2>5, StepKeepsProcess DEF Start
  <1>3. CASE WriteMap(w)
    <2>1. /\ Finish(w) /\ ProcessTask(Idle)
          /\ EngineOK(rows[Engine]) /\ Engine \in DOMAIN rows
      BY <1>3 DEF WriteMap, ProcessTask, Idle, ProcessInv, ProcessRowsOK
    <2>2. PICK defs : /\ rows' = rows \/ rows' = [rows EXCEPT ![Engine].defs = defs]
                      /\ \A e \in DOMAIN defs : defs[e] \in Definitions
      <3>1. CASE At(w, "register") /\ rows' = [rows EXCEPT ![Engine].defs = RegisterDefinition(@, task[w].def)]
        <4>1. task[w].def \in Definitions
          BY <3>1 DEF ProcessInv, ProcessTasks, ProcessTask, At
        <4>2. PICK defs : defs = RegisterDefinition(rows[Engine].defs, task[w].def)
          OBVIOUS
        <4>3. \A e \in DOMAIN defs : defs[e] \in Definitions
          BY <2>1, <4>1, <4>2 DEF RegisterDefinition, With, EngineOK
        <4>4. rows' = [rows EXCEPT ![Engine].defs = defs]
          BY <3>1, <4>2
        <4>5. QED
          BY <4>3, <4>4
      <3>2. CASE \E e \in DOMAIN Defs :
                   rows' = [rows EXCEPT ![Engine].defs = [u \in DOMAIN @ \ {e} |-> @[u]]]
        <4>1. PICK e \in DOMAIN Defs :
                   rows' = [rows EXCEPT ![Engine].defs = [u \in DOMAIN @ \ {e} |-> @[u]]]
          BY <3>2
        <4>2. PICK defs : defs = [u \in DOMAIN rows[Engine].defs \ {e} |-> rows[Engine].defs[u]]
          OBVIOUS
        <4>3. \A u \in DOMAIN defs : defs[u] \in Definitions
          BY <2>1, <4>2 DEF EngineOK
        <4>4. rows' = [rows EXCEPT ![Engine].defs = defs]
          BY <4>1, <4>2
        <4>5. QED
          BY <4>3, <4>4
      <3>3. CASE rows' = rows
        <4>1. \A e \in DOMAIN rows[Engine].defs : rows[Engine].defs[e] \in Definitions
          BY <2>1 DEF EngineOK
        <4>2. QED
          BY <3>3, <4>1
      <3>4. QED
        BY <1>3, <3>1, <3>2, <3>3 DEF WriteMap
    <2>3. ProcessRowsOK'
      <3>1. /\ DOMAIN rows' = DOMAIN rows
            /\ \A r \in DOMAIN rows \ {Engine} : rows'[r] = rows[r]
            /\ EngineOK(rows'[Engine])
        BY <2>1, <2>2 DEF EngineOK
      <3>2. \A r \in DOMAIN rows' : ProcessRowOK(rows'[r])
        BY <3>1 DEF ProcessInv, ProcessRowsOK, ProcessRowOK, EngineOK
      <3>3. QED
        BY <2>1, <3>1, <3>2 DEF ProcessRowsOK, ProcessRowOK, InstanceOK, IsPath, Reached, EngineOK
    <2>4. QED
      BY <2>1, <2>3, StepKeepsProcess DEF Finish, Continue
  <1>4. QED
    BY <1>1, <1>2, <1>3 DEF DefinitionEndpoints

\* A step that leaves the rows alone.
LEMMA RowsSameKeepsProcess ==
    ASSUME ProcessInv, rows' = rows
    PROVE  ProcessRowsOK'
  BY DEF ProcessInv, ProcessRowsOK, ProcessRowOK, InstanceOK, IsPath, Reached, EngineOK

\* An instance is inserted or written from a copy: it is a path either way.
LEMMA RowWrittenKeepsProcess ==
    ASSUME ProcessInv, NEW r, NEW x, r # Engine, InstanceOK(x),
           rows' = With(rows, r, x) \/ rows' = [rows EXCEPT ![r] = x]
    PROVE  ProcessRowsOK'
  <1>1. \A s \in DOMAIN rows' : rows'[s] = x \/ (s \in DOMAIN rows /\ rows'[s] = rows[s])
    BY DEF With
  <1>2. Engine \in DOMAIN rows' /\ rows'[Engine] = rows[Engine]
    BY DEF With, ProcessInv, ProcessRowsOK
  <1>3. \A s \in DOMAIN rows' : ProcessRowOK(rows'[s])
    BY <1>1 DEF ProcessInv, ProcessRowsOK, ProcessRowOK
  <1>4. QED
    BY <1>2, <1>3 DEF ProcessInv, ProcessRowsOK, ProcessRowOK, InstanceOK, IsPath, Reached, EngineOK

\* An event starts an instance and reads the active ones.
LEMMA EventKeepsProcess ==
    ASSUME NEW w \in Workers, ProcessInv,
           \/ \E event \in EventTypes : HandleEvent(w, event)
           \/ StartProcess(w) \/ ReadActive(w)
    PROVE  ProcessInv'
  <1>1. ASSUME NEW event \in EventTypes, HandleEvent(w, event) PROVE ProcessInv'
    <2>1. ProcessRowsOK' /\ New # Engine
      BY <1>1, RowsSameKeepsProcess DEF HandleEvent, records, New, Engine, ProcessInv
    <2>2. CASE event \in DOMAIN Defs
      <3>1. PICK t : t = Updated(Received("start", event), [def |-> Defs[event]])
        OBVIOUS
      <3>2. /\ "op" \in DOMAIN t /\ t.op = "start" /\ t.row = New /\ t.def = Defs[event]
        BY <3>1 DEF Updated, Received
      <3>3. Defs[event] \in Definitions
        BY <2>2 DEF Defs, ProcessInv, ProcessRowsOK, EngineOK
      <3>4. ProcessTask(t)
        BY <2>1, <3>2, <3>3 DEF ProcessTask
      <3>5. Start(w, t)
        BY <1>1, <2>2, <3>1 DEF HandleEvent
      <3>6. QED
        BY <2>1, <3>4, <3>5, StepKeepsProcess DEF Start
    <2>3. CASE event \notin DOMAIN Defs
      <3>1. Start(w, Received("match", event)) /\ ProcessTask(Received("match", event))
        BY <1>1, <2>3 DEF HandleEvent, Received, ProcessTask
      <3>2. QED
        BY <2>1, <3>1, StepKeepsProcess DEF Start
    <2>4. QED
      BY <2>2, <2>3
  <1>2. CASE StartProcess(w)
    <2>1. PICK t : t = task[w]
      OBVIOUS
    <2>2. t.op = "start" /\ "op" \in DOMAIN t /\ t.row # Engine
      BY <1>2, <2>1 DEF StartProcess, At, ProcessInv, ProcessTasks, ProcessTask
    <2>3. PICK u : u = [t EXCEPT !.op = "match"]
      OBVIOUS
    <2>4. Continue(w, u) /\ (rows' = With(rows, t.row, Instance(t.def)) \/ rows' = rows)
      BY <1>2, <2>1, <2>3 DEF StartProcess
    <2>5. ProcessTask(u)
      BY <2>2, <2>3 DEF ProcessTask
    <2>6. ProcessRowsOK'
      BY <2>2, <2>4, NewInstanceIsPath, RowWrittenKeepsProcess, RowsSameKeepsProcess
    <2>7. QED
      BY <2>4, <2>5, <2>6, StepKeepsProcess DEF Continue
  <1>3. CASE ReadActive(w)
    <2>1. PICK copies : copies = [r \in GetActive |-> rows[r]]
      OBVIOUS
    <2>2. CopiesOK(copies)
      BY <2>1 DEF CopiesOK, GetActive, Instances, Rows, ProcessInv, ProcessRowsOK, ProcessRowOK, EngineOK
    <2>3. PICK t : t = [op |-> "advance", id |-> task[w].id, row |-> task[w].row,
                        event |-> task[w].event, copies |-> copies]
      OBVIOUS
    <2>4. Continue(w, t) /\ rows' = rows
      BY <1>3, <2>1, <2>3 DEF ReadActive, records
    <2>5. ProcessTask(t)
      BY <2>2, <2>3 DEF ProcessTask
    <2>6. QED
      BY <2>4, <2>5, RowsSameKeepsProcess, StepKeepsProcess DEF Continue
  <1>4. QED
    BY <1>1, <1>2, <1>3

\* A transition is taken on a copy, and the copy replaces the row.
LEMMA AdvanceKeepsProcess ==
    ASSUME NEW w \in Workers, ProcessInv,
           \/ ExecuteActions(w) \/ UpdateInstance(w) \/ UpdateFails(w)
           \/ Handled(w) \/ Publish(w) \/ Abandon(w)
    PROVE  ProcessInv'
  <1>1. PICK t : t = task[w]
    OBVIOUS
  <1>2. ProcessTask(t)
    BY <1>1 DEF ProcessInv, ProcessTasks
  <1>3. CASE ExecuteActions(w)
    <2>1. t.op = "advance" /\ rows' = rows /\ CopiesOK(t.copies)
      BY <1>1, <1>2, <1>3 DEF ExecuteActions, At, ProcessTask
    <2>2. PICK r \in DOMAIN t.copies : \E tr \in Transitions(t.copies[r], t.event) :
             Continue(w, [op |-> "update", id |-> t.id, row |-> r, event |-> t.event,
                          copies |-> t.copies, transition |-> tr])
      BY <1>1, <1>3 DEF ExecuteActions
    <2> PICK tr \in Transitions(t.copies[r], t.event) :
             Continue(w, [op |-> "update", id |-> t.id, row |-> r, event |-> t.event,
                          copies |-> t.copies, transition |-> tr])
      BY <2>2
    <2>3. PICK d \in FindDefinition(t.copies[r].def) :
             tr \in d.transitions /\ tr.from = t.copies[r].state
      BY DEF Transitions
    <2>4. d \in Definitions /\ d.id = t.copies[r].def
      BY DEF FindDefinition, Defs, ProcessInv, ProcessRowsOK, EngineOK
    <2>5. Takes(t.copies[r], tr)
      BY <2>3, <2>4 DEF Takes
    <2>6. PICK u : u = [op |-> "update", id |-> t.id, row |-> r, event |-> t.event,
                        copies |-> t.copies, transition |-> tr]
      OBVIOUS
    <2>7. ProcessTask(u)
      BY <2>1, <2>5, <2>6 DEF ProcessTask
    <2>8. Continue(w, u)
      BY <2>2, <2>6
    <2>9. QED
      BY <2>1, <2>7, <2>8, RowsSameKeepsProcess, StepKeepsProcess DEF Continue
  <1>4. CASE UpdateInstance(w)
    <2>1. /\ t.op = "update" /\ CopiesOK(t.copies) /\ t.row \in DOMAIN t.copies
          /\ Takes(t.copies[t.row], t.transition)
      BY <1>1, <1>2, <1>4 DEF UpdateInstance, At, ProcessTask
    <2>2. PICK x : x = Advanced(t.copies[t.row], t.transition)
      OBVIOUS
    <2>3. InstanceOK(x) /\ t.row # Engine
      BY <2>1, <2>2, AdvancedIsPath DEF CopiesOK
    <2>4. rows' = [rows EXCEPT ![t.row] = x]
      BY <1>1, <1>4, <2>2 DEF UpdateInstance
    <2>5. PICK others : others = Others(t.copies, t.row)
      OBVIOUS
    <2>6. CopiesOK(others)
      BY <2>1, <2>5 DEF CopiesOK, Others
    <2>7. PICK u : u = [op |-> "advance", id |-> t.id, row |-> t.row, event |-> t.event,
                        copies |-> others]
      OBVIOUS
    <2>8. Continue(w, u) /\ ProcessTask(u)
      BY <1>1, <1>4, <2>5, <2>6, <2>7 DEF UpdateInstance, ProcessTask
    <2>9. ProcessRowsOK'
      BY <2>3, <2>4, RowWrittenKeepsProcess
    <2>10. QED
      BY <2>8, <2>9, StepKeepsProcess DEF Continue
  <1>5. CASE UpdateFails(w)
    <2>1. /\ t.op = "update" /\ CopiesOK(t.copies) /\ t.row \in DOMAIN t.copies
          /\ rows' = rows
      BY <1>1, <1>2, <1>5 DEF UpdateFails, At, records, ProcessTask
    <2>2. PICK others : others = Others(t.copies, t.row)
      OBVIOUS
    <2>3. CopiesOK(others)
      BY <2>1, <2>2 DEF CopiesOK, Others
    <2>4. PICK u : u = [op |-> "advance", id |-> t.id, row |-> t.row, event |-> t.event,
                        copies |-> others]
      OBVIOUS
    <2>5. Continue(w, u) /\ ProcessTask(u)
      BY <1>1, <1>5, <2>2, <2>3, <2>4 DEF UpdateFails, ProcessTask
    <2>6. QED
      BY <2>1, <2>5, RowsSameKeepsProcess, StepKeepsProcess DEF Continue
  <1>6. CASE Handled(w) \/ Publish(w) \/ Abandon(w)
    <2>1. Finish(w) /\ rows' = rows /\ ProcessTask(Idle)
      BY <1>6 DEF Handled, Publish, Abandon, records, ProcessTask, Idle
    <2>2. QED
      BY <2>1, RowsSameKeepsProcess, StepKeepsProcess DEF Finish, Continue
  <1>7. QED
    BY <1>3, <1>4, <1>5, <1>6

\* The map that a server starts with holds definitions that were loaded.
LEMMA LoadedAreDefinitions == \A e \in DOMAIN LoadedMap : LoadedMap[e] \in Definitions
  <1>1. ASSUME NEW e \in {d.trigger : d \in Loaded}
        PROVE  (CHOOSE d \in Loaded : d.trigger = e) \in Definitions
    <2>1. PICK d \in Loaded : d.trigger = e
      BY <1>1
    <2>2. (CHOOSE c \in Loaded : c.trigger = e) \in Loaded
      BY <2>1
    <2>3. QED
      BY <2>2, ProcessAssumption
  <1>2. QED
    BY <1>1 DEF LoadedMap

\* The server starts again: the goroutines are gone, the map is loaded anew.
LEMMA RestartKeepsProcess ==
    ASSUME ProcessInv, Restart
    PROVE  ProcessInv'
  <1>1. task' = [w \in Workers |-> Idle] /\ served' = served
    BY DEF Restart
  <1>2. ProcessTasks'
    BY <1>1 DEF ProcessTasks, ProcessTask, Idle
  <1>3. PICK defs : defs = LoadedMap
    OBVIOUS
  <1>4. rows' = [rows EXCEPT ![Engine].defs = defs] /\ \A e \in DOMAIN defs : defs[e] \in Definitions
    BY <1>3, LoadedAreDefinitions DEF Restart
  <1>5. ProcessRowsOK'
    <2>1. /\ DOMAIN rows' = DOMAIN rows /\ Engine \in DOMAIN rows
          /\ \A r \in DOMAIN rows \ {Engine} : rows'[r] = rows[r]
          /\ EngineOK(rows'[Engine])
      BY <1>4 DEF EngineOK, ProcessInv, ProcessRowsOK
    <2>2. \A r \in DOMAIN rows' : ProcessRowOK(rows'[r])
      BY <2>1 DEF ProcessInv, ProcessRowsOK, ProcessRowOK, EngineOK
    <2>3. QED
      BY <2>1, <2>2 DEF ProcessRowsOK, ProcessRowOK, InstanceOK, IsPath, Reached, EngineOK
  <1>6. QED
    BY <1>1, <1>2, <1>5 DEF ProcessInv

\* UpdateInstance (engine.go:171): for any definitions and versions of them, any events
\* and restarts, the history of an instance is a path through its definition.
THEOREM HistoriesArePaths == ProcessSpec => []HistoryIsAPath
  <1>1. InitRecords(EngineRows) => ProcessInv
    <2> SUFFICES ASSUME InitRecords(EngineRows) PROVE ProcessInv
      OBVIOUS
    <2>1. rows = EngineRows /\ served = 0 /\ task = [w \in Workers |-> Idle]
      BY DEF InitRecords, InitWork
    <2>2. PICK d : d = CHOOSE e \in Loaded : TRUE
      OBVIOUS
    <2>3. /\ DOMAIN rows = {Engine, <<0, 0>>} /\ Engine # <<0, 0>>
          /\ rows[Engine] = [kind |-> "engine", defs |-> LoadedMap]
          /\ rows[<<0, 0>>] = Instance(d)
      BY <2>1, <2>2 DEF EngineRows, Engine
    <2>4. EngineOK(rows[Engine])
      BY <2>3, LoadedAreDefinitions DEF EngineOK
    <2>5. InstanceOK(rows[<<0, 0>>])
      BY <2>3, NewInstanceIsPath
    <2>6. ProcessRowsOK
      BY <2>3, <2>4, <2>5 DEF ProcessRowsOK, ProcessRowOK
    <2>7. ProcessTasks
      BY <2>1 DEF ProcessTasks, ProcessTask, Idle
    <2>8. QED
      BY <2>1, <2>6, <2>7 DEF ProcessInv
  <1>2. ProcessInv /\ [ProcessNext]_recordVars => ProcessInv'
    <2> SUFFICES ASSUME ProcessInv, [ProcessNext]_recordVars PROVE ProcessInv'
      OBVIOUS
    <2>1. CASE UNCHANGED recordVars
      <3>1. rows' = rows /\ task' = task /\ served' = served
        BY <2>1 DEF recordVars, records, work
      <3>2. ProcessTasks'
        BY <3>1, ProcessTasksNext DEF ProcessInv, ProcessTasks
      <3>3. QED
        BY <3>1, <3>2, RowsSameKeepsProcess DEF ProcessInv
    <2>2. CASE ProcessNext
      BY <2>2, RestartKeepsProcess, WriteDefinitionsKeepsProcess, EventKeepsProcess,
         AdvanceKeepsProcess DEF ProcessNext
    <2>3. QED
      BY <2>1, <2>2
  <1>3. ProcessInv => HistoryIsAPath
    BY DEF ProcessInv, ProcessRowsOK, ProcessRowOK, InstanceOK, HistoryIsAPath, Instances, Rows
  <1>4. QED
    BY <1>1, <1>2, <1>3, PTL DEF ProcessSpec

-----------------------------------------------------------------------------
(* Live views: views catch up *)

Key(v) ==
    /\ Depends(v, "entities") \/ Depends(v, "components")
         => <<"entities", "name">> \in v.deps \/ <<"entities", "status">> \in v.deps
    /\ Depends(v, "components") => <<"components", "data">> \in v.deps
    /\ Depends(v, "orders") \/ Depends(v, "order_items") => <<"orders", "status">> \in v.deps
    /\ ~Depends(v, "order_refunds")
    /\ Depends(v, "stock_levels") \/ Depends(v, "stock_movements")
         => <<"stock_levels", "quantity">> \in v.deps
    /\ Depends(v, "shifts") => <<"shifts", "start_time">> \in v.deps
    /\ Depends(v, "timesheets") => <<"timesheets", "clock_in">> \in v.deps
    /\ Depends(v, "payrolls") => <<"payrolls", "status">> \in v.deps
    /\ Depends(v, "absences") => <<"absences", "status">> \in v.deps
    /\ Depends(v, "geo_tracks") => <<"geo_tracks", "latitude">> \in v.deps
    /\ Depends(v, "organization_settings") => <<"organization_settings", "currency">> \in v.deps
    /\ Depends(v, "bank_reconciliations") \/ Depends(v, "bank_reconciliation_entries")
         => <<"bank_reconciliations", "status">> \in v.deps
    /\ Depends(v, "messages") => <<"messages", "iat">> \in v.deps
    /\ Depends(v, "message_reactions") => <<"message_reactions", "emoji">> \in v.deps
    /\ Depends(v, "conversations") => <<"conversations", "name">> \in v.deps /\ <<"messages", "iat">> \in v.deps

\* Every graph that depends on a table depends on the key columns.
LEMMA KeyColumns == \A v \in RegisterAll : Key(v)
  <1> SUFFICES ASSUME NEW v \in RegisterAll PROVE Key(v)
    OBVIOUS
  <1> USE DEF Depends, Columns, RegisterAll, EntityData, EntityName, Graph, catalogProductsList,
     catalogProductDetail, catalogCategoriesTree, crmCustomersList, crmCustomerDetail,
     crmSuppliersList, warehouseStockList, warehouseStockDetail, warehouseInventoryDetail,
     warehouseLowStock, ordersList, orderDetail, orderRefundsList, ordersDashboard,
     dashboardSummary, hrEmployeesList, hrEmployeeDetail, hrShiftsSchedule, hrTimesheetsList,
     hrPayrollList, hrAbsencesList, financeTrialBalance, financeTransactionsList,
     financeAccountBalance, financePnL, financePeriodsList, financeCashOperations,
     logisticsRoutesList, logisticsRouteDetail, logisticsVehiclesMap, bankReconciliationList,
     bankReconciliationDetail, notificationsList, notificationsUnread, chatConversationsList,
     chatMessages, chatUnreadTotal, organizationSettings
  <1>1. QED
    BY DEF Key

Heard(v, o) == \E c \in v.deps : c \in EventToChanges(o.event)

\* What each module's events are turned into, when they carry the identifier.
LEMMA Translated ==
    ASSUME NEW ev
    PROVE  /\ ev.module = "entity" /\ "entity_id" \in ev.ids => EventToChanges(ev) = EntityChanges(ev)
           /\ ev.module = "component" /\ "entity_id" \in ev.ids => EventToChanges(ev) = ComponentChanges(ev)
           /\ ev.module = "order" /\ "order_id" \in ev.ids => EventToChanges(ev) = OrderChanges(ev)
           /\ ev.module = "warehouse" /\ "product_id" \in ev.ids => EventToChanges(ev) = WarehouseChanges(ev)
           /\ ev.module = "hr" /\ "entity_id" \in ev.ids => EventToChanges(ev) = HRChanges(ev)
           /\ ev.module = "logistics" /\ "entity_id" \in ev.ids => EventToChanges(ev) = LogisticsChanges(ev)
           /\ ev.module = "settings" /\ "organization_id" \in ev.ids
                => EventToChanges(ev) = Columns("organization_settings", {"currency", "timezone", "features", "requisites"})
           /\ ev.module = "bank" => EventToChanges(ev) = BankChanges(ev)
           /\ ev.module = "messenger" => EventToChanges(ev) = MessengerChanges(ev)
  BY DEF EventToChanges, Needed

\* The events of the writes of the entity service.
LEMMA EntityEvents ==
    ASSUME NEW o \in EntityOperations, o.tables # {}
    PROVE  /\ "entity_id" \in o.event.ids
           /\ \/ o.event.module = "entity" /\ o.tables \subseteq {"entities", "components"}
              \/ o.event.module = "component" /\ o.tables = {"components"}
  BY DEF None, EntityOperations, Operation, Pooled, Event

\* The events of the writes of orders.
LEMMA OrderEvents ==
    ASSUME NEW o \in OrderOperations
    PROVE  /\ o.tables \subseteq {"orders", "order_items", "order_refunds"}
           /\ \/ o.event.module = "order" /\ "order_id" \in o.event.ids
              \/ o.event.module = None
  BY DEF None, OrderOperations, Operation, Event, Silently

\* The events of the writes of stock.
LEMMA WarehouseEvents ==
    ASSUME NEW o \in WarehouseOperations
    PROVE  /\ o.tables \subseteq {"stock_levels", "stock_movements"}
           /\ o.event.module = "warehouse" /\ "product_id" \in o.event.ids /\ o.event.noun = "stock"
  BY DEF WarehouseOperations, Operation, Early, Stock, Event

\* The events of the writes of the HR service.
LEMMA HREvents ==
    ASSUME NEW o \in HROperations
    PROVE  \/ o.event.module = None
           \/ o.event.verb = "started"
           \/ /\ o.event.module = "hr" /\ "entity_id" \in o.event.ids
              /\ \/ o.tables = {"shifts"} /\ o.event.noun = "shift"
                 \/ o.tables = {"timesheets"} /\ o.event.noun = "timesheet"
                 \/ o.tables = {"payrolls"} /\ o.event.noun = "payroll"
                 \/ o.tables = {"absences"} /\ o.event.noun = "absence"
  BY DEF None, HROperations, Operation, Event, Silently

\* The events of the writes of finance carry no entity.
LEMMA FinanceEvents ==
    ASSUME NEW o \in FinanceOperations
    PROVE  o.event.module \in {None, "finance"}
  BY DEF None, FinanceOperations, Operation, Event, Silently

\* The events of the writes of routes and positions.
LEMMA LogisticsEvents ==
    ASSUME NEW o \in LogisticsOperations
    PROVE  /\ o.event.module = "logistics"
           /\ o.event.noun = "geo" => "entity_id" \in o.event.ids /\ o.tables = {"geo_tracks"}
  BY DEF LogisticsOperations, Operation, Event, Silently

\* The events of the other writes.
LEMMA OtherEvents ==
    ASSUME NEW o \in OtherOperations
    PROVE  \/ o.tables = {}
           \/ o.event.module = None
           \/ /\ o.event.module = "settings" /\ "organization_id" \in o.event.ids
              /\ o.tables = {"organization_settings"}
           \/ /\ o.event.module = "bank" /\ o.event.noun = "reconciliation" /\ "reconciliation_id" \in o.event.ids
              /\ o.tables = {"bank_reconciliations", "bank_reconciliation_entries"}
           \/ /\ o.event.module = "messenger" /\ {"conversation_id", "message_id"} \subseteq o.event.ids
              /\ \/ o.event.noun = "message" /\ o.tables = {"messages", "conversations"}
                 \/ o.event.noun = "reaction" /\ o.tables = {"message_reactions"}
           \/ /\ o.event.module = "messenger" /\ o.event.noun = "conversation"
              /\ o.tables = {"conversations", "conversation_members"}
           \/ o.tables = {"conversation_members"}
  BY DEF None, OtherOperations, Operation, Event, Silently

\* EventToChanges (graphs): a write that is heard changes, by its event, a column on
\* which every graph depends that depends on the table at all.
LEMMA EventsAreHeard ==
    ASSUME NEW o \in Operations, NEW t \in o.tables, NEW v \in RegisterAll, Depends(v, t), ~Unheard(o, t)
    PROVE  Heard(v, o)
  <1>1. Key(v)
    BY KeyColumns
  <1>2. CASE o \in EntityOperations
    <2>1. \/ /\ EventToChanges(o.event) = EntityChanges(o.event)
             /\ o.tables \subseteq {"entities", "components"}
          \/ /\ EventToChanges(o.event) = ComponentChanges(o.event)
             /\ o.tables = {"components"}
      BY <1>2, EntityEvents, Translated
    <2>2. QED
      BY <1>1, <2>1 DEF Key, Heard, EntityChanges, ComponentChanges, Columns
  <1>3. CASE o \in OrderOperations
    <2>1. /\ EventToChanges(o.event) = OrderChanges(o.event)
          /\ o.tables \subseteq {"orders", "order_items", "order_refunds"}
      BY <1>3, OrderEvents, Translated DEF Unheard
    <2>2. <<"orders", "status">> \in OrderChanges(o.event)
      BY DEF OrderChanges, Columns
    <2>3. QED
      BY <1>1, <2>1, <2>2 DEF Key, Heard
  <1>4. CASE o \in WarehouseOperations
    <2>1. /\ EventToChanges(o.event) = WarehouseChanges(o.event) /\ o.event.noun = "stock"
          /\ o.tables \subseteq {"stock_levels", "stock_movements"}
      BY <1>4, WarehouseEvents, Translated
    <2>2. <<"stock_levels", "quantity">> \in WarehouseChanges(o.event)
      BY <2>1 DEF WarehouseChanges, Columns
    <2>3. QED
      BY <1>1, <2>1, <2>2 DEF Key, Heard
  <1>5. CASE o \in HROperations
    <2>1. /\ EventToChanges(o.event) = HRChanges(o.event)
          /\ \/ o.tables = {"shifts"} /\ o.event.noun = "shift"
             \/ o.tables = {"timesheets"} /\ o.event.noun = "timesheet"
             \/ o.tables = {"payrolls"} /\ o.event.noun = "payroll"
             \/ o.tables = {"absences"} /\ o.event.noun = "absence"
      BY <1>5, HREvents, Translated DEF Unheard
    <2>2. QED
      BY <1>1, <2>1 DEF Key, Heard, HRChanges, Columns
  <1>6. CASE o \in FinanceOperations
    BY <1>6, FinanceEvents DEF Unheard
  <1>7. CASE o \in LogisticsOperations
    <2>1. /\ EventToChanges(o.event) = LogisticsChanges(o.event) /\ o.event.noun = "geo"
          /\ o.tables = {"geo_tracks"}
      BY <1>7, LogisticsEvents, Translated DEF Unheard
    <2>2. <<"geo_tracks", "latitude">> \in LogisticsChanges(o.event)
      BY <2>1 DEF LogisticsChanges, Columns
    <2>3. QED
      BY <1>1, <2>1, <2>2 DEF Key, Heard
  <1>8. CASE o \in OtherOperations
    <2>1. CASE o.event.module = "settings"
      BY <1>1, <1>8, <2>1, OtherEvents, Translated DEF Unheard, Key, Heard, Columns
    <2>2. CASE o.event.module = "bank"
      BY <1>1, <1>8, <2>2, OtherEvents, Translated DEF Unheard, Key, Heard, BankChanges, Columns
    <2>3. CASE o.event.module = "messenger"
      BY <1>1, <1>8, <2>3, OtherEvents, Translated DEF Unheard, Key, Heard, MessengerChanges, Columns
    <2>4. QED
      BY <1>8, <2>1, <2>2, <2>3, OtherEvents DEF Unheard
  <1>9. QED
    BY <1>2, <1>3, <1>4, <1>5, <1>6, <1>7, <1>8 DEF Operations

LiveRowsOK ==
    /\ DOMAIN rows = {Screen}
    /\ {"kind", "behind", "pending"} \subseteq DOMAIN rows[Screen]
    /\ rows[Screen].kind = "views"
    /\ \A p \in rows[Screen].pending : p.id \in 1..served

Under == {"announce", "commit"}

\* A write that waits for its commit was announced as what it is.
LiveTask(t) ==
    /\ t.op \in Under => t.operation \in Operations /\ t.row = <<t.id, 0>>
    /\ t.op = "commit" =>
         \A p \in rows[Screen].pending :
            p.id = t.id => p.columns = EventToChanges(t.operation.event)

LiveTasks == \A w \in Workers : LiveTask(task[w])

\* A commit that a view does not show: its event is on the way, or it will
\* not come.
Announces(t, m) == t.op = "announce" /\ t.id = m.id /\ t.operation = m.by

Tells(p, m) == p.id = m.id /\ p.columns = EventToChanges(m.by.event)

Deaf(m) == m.view.deps \cap EventToChanges(m.by.event) = {}

Excused(m) ==
    \/ Deaf(m)
    \/ <<m.id, 0>> \in stale
    \/ \E p \in rows[Screen].pending : Tells(p, m)
    \/ \E w \in Workers : Announces(task[w], m)

Commits(m) ==
    m.view \in RegisterAll /\ m.by \in Operations /\ m.table \in m.by.tables

LiveBehind == \A m \in rows[Screen].behind : Commits(m) /\ Excused(m)

\* The inductive invariant: every commit that a view does not show is excused.
LiveInv == TasksOK /\ LiveRowsOK /\ LiveTasks /\ LiveBehind

\* There is one row of views.
LEMMA PendingOfScreen ==
    ASSUME LiveRowsOK
    PROVE  Pending = rows[Screen].pending /\ Behind = rows[Screen].behind
  <1>1. Views = {Screen}
    BY DEF LiveRowsOK, Views, Rows
  <1>2. QED
    BY <1>1 DEF Pending, Behind

\* Goroutine w did the only thing in this step, for request id.
LiveStep(w, id) ==
    /\ TasksOK' /\ LiveRowsOK' /\ LiveTask(task[w])'
    /\ served' \in {served, served + 1} /\ stale \subseteq stale'
    /\ \A v \in Workers \ {w} : task'[v] = task[v] /\ (task[v].op \in Under => task[v].id # id)
    /\ \A p \in rows'[Screen].pending : p \in rows[Screen].pending \/ p.id = id
    /\ \A m \in rows'[Screen].behind : Commits(m) /\ (m \in rows[Screen].behind \/ Excused(m)')
    /\ \A m \in rows[Screen].behind : \A p \in rows[Screen].pending :
          Tells(p, m) => p \in rows'[Screen].pending
    /\ \A m \in rows[Screen].behind : Announces(task[w], m) => Excused(m)'

\* What happens to one request leaves the other commits excused.
LEMMA StepKeepsLive ==
    ASSUME NEW w \in Workers, NEW id, LiveInv, LiveStep(w, id)
    PROVE  LiveInv'
  <1> USE DEF LiveStep
  <1>1. LiveTasks'
    <2>1. ASSUME NEW v \in Workers \ {w} PROVE LiveTask(task[v])'
      <3>1. LiveTask(task[v]) /\ task'[v] = task[v]
        BY DEF LiveInv, LiveTasks
      <3>2. QED
        BY <3>1 DEF LiveTask, Under
    <2>2. QED
      BY <2>1 DEF LiveTasks
  <1>2. LiveBehind'
    <2>1. ASSUME NEW m \in rows'[Screen].behind, m \in rows[Screen].behind PROVE Excused(m)'
      <3>1. Excused(m)
        BY <2>1 DEF LiveInv, LiveBehind
      <3>2. CASE Deaf(m)
        BY <3>2 DEF Excused, Deaf
      <3>3. CASE <<m.id, 0>> \in stale
        BY <3>3 DEF Excused
      <3>4. CASE \E p \in rows[Screen].pending : Tells(p, m)
        BY <2>1, <3>4 DEF Excused, Tells
      <3>5. ASSUME NEW v \in Workers, Announces(task[v], m) PROVE Excused(m)'
        BY <2>1, <3>5 DEF Excused, Announces
      <3>6. QED
        BY <3>1, <3>2, <3>3, <3>4, <3>5 DEF Excused
    <2>2. \A m \in rows'[Screen].behind : Commits(m)' /\ Excused(m)'
      BY <2>1 DEF Commits
    <2>3. QED
      BY <2>2 DEF LiveBehind
  <1>3. QED
    BY <1>1, <1>2 DEF LiveInv

\* A write is committed, and will be announced.
LEMMA CommitWriteKeepsLive ==
    ASSUME NEW w \in Workers, NEW o \in Operations, LiveInv, CommitWrite(w, o)
    PROVE  LiveInv'
  <1>1. PICK id : id = served + 1
    OBVIOUS
  <1>2. PICK t : t = [op |-> "announce", id |-> id, row |-> New, operation |-> o]
    OBVIOUS
  <1>3. Start(w, t) /\ rows' = Commit(o, id) /\ stale' = stale
    BY <1>1, <1>2 DEF CommitWrite, Writing
  <1>4. /\ TasksOK' /\ task'[w] = t /\ served' = id /\ served \in Nat
        /\ \A v \in Workers \ {w} : task'[v] = task[v]
    BY <1>1, <1>2, <1>3, StartKeeps DEF LiveInv, TasksOK
  <1>5. /\ LiveRowsOK
        /\ DOMAIN rows' = DOMAIN rows /\ DOMAIN rows'[Screen] = DOMAIN rows[Screen]
        /\ rows'[Screen].kind = rows[Screen].kind
        /\ rows'[Screen].pending = rows[Screen].pending
        /\ rows'[Screen].behind = rows[Screen].behind \cup Missed(o, id)
    BY <1>3 DEF Commit, LiveInv, LiveRowsOK
  <1>6. LiveRowsOK'
    BY <1>1, <1>4, <1>5 DEF LiveRowsOK
  <1>7. LiveTask(task[w])'
    BY <1>1, <1>2, <1>4 DEF LiveTask, Under, New
  <1>8. \A m \in Missed(o, id) : Commits(m) /\ Announces(t, m)
    BY <1>2 DEF Missed, Unseen, Commits, Announces
  <1>9. \A m \in Missed(o, id) : Excused(m)'
    BY <1>4, <1>8 DEF Excused, Announces
  <1>10. \A v \in Workers \ {w} : task[v].op \in Under => task[v].id # id
    BY <1>1, <1>4 DEF LiveInv, TasksOK, Under
  <1>11. task[w].op = "idle"
    BY <1>3 DEF Start
  <1>12. /\ \A q \in rows'[Screen].pending : q \in rows[Screen].pending \/ q.id = id
         /\ \A m \in rows'[Screen].behind : Commits(m) /\ (m \in rows[Screen].behind \/ Excused(m)')
         /\ \A m \in rows[Screen].behind : \A q \in rows[Screen].pending :
               Tells(q, m) => q \in rows'[Screen].pending
         /\ \A m \in rows[Screen].behind : Announces(task[w], m) => Excused(m)'
    BY <1>5, <1>8, <1>9, <1>11 DEF LiveInv, LiveBehind, Announces
  <1>13. LiveStep(w, id)
    BY <1>1, <1>3, <1>4, <1>6, <1>7, <1>10, <1>12 DEF LiveStep
  <1>14. QED
    BY <1>13, StepKeepsLive

\* The event of a write is on its way to the engine.
LEMMA PublishWriteKeepsLive ==
    ASSUME NEW w \in Workers, LiveInv, PublishWrite(w)
    PROVE  LiveInv'
  <1>1. PICK t : t = task[w]
    OBVIOUS
  <1>2. t.op = "announce" /\ t.id \in 1..served
    BY <1>1 DEF PublishWrite, At, LiveInv, TasksOK
  <1>3. PICK p : p = [id |-> t.id, columns |-> EventToChanges(t.operation.event)]
    OBVIOUS
  <1>4. /\ rows' = [rows EXCEPT ![Screen].pending = @ \cup {p}] /\ stale' = stale
        /\ Continue(w, Idle)
    BY <1>1, <1>3 DEF PublishWrite, Announcement, Finish
  <1>5. /\ TasksOK' /\ task'[w] = Idle /\ served' = served
        /\ \A v \in Workers \ {w} : task'[v] = task[v]
    BY <1>4, ContinueKeeps DEF LiveInv, Idle
  <1>6. /\ LiveRowsOK
        /\ DOMAIN rows' = DOMAIN rows /\ DOMAIN rows'[Screen] = DOMAIN rows[Screen]
        /\ rows'[Screen].kind = rows[Screen].kind
        /\ rows'[Screen].pending = rows[Screen].pending \cup {p}
        /\ rows'[Screen].behind = rows[Screen].behind
    BY <1>4 DEF LiveInv, LiveRowsOK
  <1>7. LiveRowsOK'
    BY <1>2, <1>3, <1>5, <1>6 DEF LiveRowsOK
  <1>8. LiveTask(task[w])'
    BY <1>5 DEF LiveTask, Under, Idle
  <1>9. \A v \in Workers \ {w} : task[v].op \in Under => task[v].id # t.id
    BY <1>1, <1>2 DEF LiveInv, TasksOK, Under
  <1>10. \A m \in rows[Screen].behind : Announces(t, m) => Excused(m)'
    BY <1>3, <1>6 DEF Announces, Excused, Tells
  <1>11. /\ \A q \in rows'[Screen].pending : q \in rows[Screen].pending \/ q.id = t.id
         /\ \A m \in rows'[Screen].behind : Commits(m) /\ (m \in rows[Screen].behind \/ Excused(m)')
         /\ \A m \in rows[Screen].behind : \A q \in rows[Screen].pending :
               Tells(q, m) => q \in rows'[Screen].pending
         /\ \A m \in rows[Screen].behind : Announces(task[w], m) => Excused(m)'
    BY <1>1, <1>3, <1>6, <1>10 DEF LiveInv, LiveBehind
  <1>12. LiveStep(w, t.id)
    BY <1>4, <1>5, <1>7, <1>8, <1>9, <1>11 DEF LiveStep
  <1>13. QED
    BY <1>12, StepKeepsLive

\* The event of a write that is made is not stored, and will not come.
LEMMA LoseEventKeepsLive ==
    ASSUME NEW w \in Workers, LiveInv, LoseEvent(w)
    PROVE  LiveInv'
  <1>1. PICK t : t = task[w]
    OBVIOUS
  <1>2. t.op = "announce" /\ t.id \in 1..served /\ t.row = <<t.id, 0>>
    BY <1>1 DEF LoseEvent, At, LiveInv, TasksOK, LiveTasks, LiveTask, Under
  <1>3. rows' = rows /\ stale' = stale \cup {t.row} /\ Continue(w, Idle)
    BY <1>1 DEF LoseEvent, Finish
  <1>4. /\ TasksOK' /\ task'[w] = Idle /\ served' = served
        /\ \A v \in Workers \ {w} : task'[v] = task[v]
    BY <1>3, ContinueKeeps DEF LiveInv, Idle
  <1>5. LiveRowsOK' /\ LiveTask(task[w])'
    BY <1>3, <1>4 DEF LiveInv, LiveRowsOK, LiveTask, Under, Idle
  <1>6. \A v \in Workers \ {w} : task[v].op \in Under => task[v].id # t.id
    BY <1>1, <1>2 DEF LiveInv, TasksOK, Under
  <1>7. \A m \in rows[Screen].behind : Announces(task[w], m) => Excused(m)'
    BY <1>1, <1>2, <1>3 DEF Announces, Excused
  <1>8. LiveStep(w, t.id)
    BY <1>3, <1>4, <1>5, <1>6, <1>7 DEF LiveStep, LiveInv, LiveBehind
  <1>9. QED
    BY <1>8, StepKeepsLive

\* A reservation is announced before it is committed.
LEMMA PublishFirstKeepsLive ==
    ASSUME NEW w \in Workers, NEW o \in Operations, LiveInv, PublishFirst(w, o)
    PROVE  LiveInv'
  <1>1. PICK id : id = served + 1
    OBVIOUS
  <1>2. PICK t : t = [op |-> "commit", id |-> id, row |-> New, operation |-> o]
    OBVIOUS
  <1>3. PICK p : p = [id |-> id, columns |-> EventToChanges(o.event)]
    OBVIOUS
  <1>4. Start(w, t) /\ rows' = [rows EXCEPT ![Screen].pending = @ \cup {p}] /\ stale' = stale
    BY <1>1, <1>2, <1>3 DEF PublishFirst, Writing, Announcement
  <1>5. /\ TasksOK' /\ task'[w] = t /\ served' = id /\ served \in Nat
        /\ \A v \in Workers \ {w} : task'[v] = task[v]
    BY <1>1, <1>2, <1>4, StartKeeps DEF LiveInv, TasksOK
  <1>6. /\ LiveRowsOK
        /\ DOMAIN rows' = DOMAIN rows /\ DOMAIN rows'[Screen] = DOMAIN rows[Screen]
        /\ rows'[Screen].kind = rows[Screen].kind
        /\ rows'[Screen].pending = rows[Screen].pending \cup {p}
        /\ rows'[Screen].behind = rows[Screen].behind
    BY <1>4 DEF LiveInv, LiveRowsOK
  <1>7. LiveRowsOK'
    BY <1>1, <1>3, <1>5, <1>6 DEF LiveRowsOK
  <1>8. \A q \in rows'[Screen].pending : q.id = id => q.columns = EventToChanges(o.event)
    <2>1. \A q \in rows[Screen].pending : q.id # id
      BY <1>1, <1>5, <1>6 DEF LiveRowsOK
    <2>2. QED
      BY <2>1, <1>3, <1>6
  <1>9. LiveTask(task[w])'
    BY <1>1, <1>2, <1>5, <1>8 DEF LiveTask, Under, New
  <1>10. \A v \in Workers \ {w} : task[v].op \in Under => task[v].id # id
    BY <1>1, <1>5 DEF LiveInv, TasksOK, Under
  <1>11. task[w].op = "idle"
    BY <1>4 DEF Start
  <1>12. /\ \A q \in rows'[Screen].pending : q \in rows[Screen].pending \/ q.id = id
         /\ \A m \in rows'[Screen].behind : Commits(m) /\ (m \in rows[Screen].behind \/ Excused(m)')
         /\ \A m \in rows[Screen].behind : \A q \in rows[Screen].pending :
               Tells(q, m) => q \in rows'[Screen].pending
         /\ \A m \in rows[Screen].behind : Announces(task[w], m) => Excused(m)'
    BY <1>3, <1>6, <1>11 DEF LiveInv, LiveBehind, Announces
  <1>13. LiveStep(w, id)
    BY <1>1, <1>4, <1>5, <1>7, <1>9, <1>10, <1>12 DEF LiveStep
  <1>14. QED
    BY <1>13, StepKeepsLive

\* It is committed while its event is on the way, or too late, or not at all.
LEMMA CommitLastKeepsLive ==
    ASSUME NEW w \in Workers, LiveInv, CommitLast(w)
    PROVE  LiveInv'
  <1>1. PICK t : t = task[w]
    OBVIOUS
  <1>2. /\ t.op = "commit" /\ t.id \in 1..served /\ t.operation \in Operations /\ t.row = <<t.id, 0>>
        /\ \A p \in rows[Screen].pending :
              p.id = t.id => p.columns = EventToChanges(t.operation.event)
    BY <1>1 DEF CommitLast, At, LiveInv, TasksOK, LiveTasks, LiveTask, Under
  <1>3. PICK missed :
          /\ \/ rows' = rows /\ missed = {}
             \/ rows' = [rows EXCEPT ![Screen].behind = @ \cup missed]
          /\ missed = {} \/ missed = Missed(t.operation, t.id)
          /\ missed # {} => \/ \E p \in Pending : p.id = t.id
                            \/ t.row \in stale'
    <2>1. CASE rows' = Commit(t.operation, t.id)
      <3>1. rows' = [rows EXCEPT ![Screen].behind = @ \cup Missed(t.operation, t.id)]
        BY <2>1 DEF Commit
      <3>2. (\E p \in Pending : p.id = t.id) \/ t.row \in stale' \/ rows' = rows
        BY <1>1 DEF CommitLast
      <3>3. QED
        BY <3>1, <3>2
    <2>2. CASE rows' = rows
      BY <2>2
    <2>3. QED
      BY <1>1, <2>1, <2>2 DEF CommitLast
  <1>4. stale \subseteq stale' /\ Continue(w, Idle)
    BY DEF CommitLast, Finish
  <1>5. /\ TasksOK' /\ task'[w] = Idle /\ served' = served
        /\ \A v \in Workers \ {w} : task'[v] = task[v]
    BY <1>4, ContinueKeeps DEF LiveInv, Idle
  <1>6. /\ LiveRowsOK
        /\ DOMAIN rows' = DOMAIN rows /\ DOMAIN rows'[Screen] = DOMAIN rows[Screen]
        /\ rows'[Screen].kind = rows[Screen].kind
        /\ rows'[Screen].pending = rows[Screen].pending
        /\ rows'[Screen].behind = rows[Screen].behind \cup missed
    BY <1>3 DEF LiveInv, LiveRowsOK
  <1>7. LiveRowsOK'
    BY <1>5, <1>6 DEF LiveRowsOK
  <1>8. LiveTask(task[w])'
    BY <1>5 DEF LiveTask, Under, Idle
  <1>9. ASSUME NEW m \in missed PROVE Commits(m) /\ Excused(m)'
    <2>1. Commits(m) /\ m.id = t.id /\ m.by = t.operation
      BY <1>2, <1>3 DEF Missed, Unseen, Commits
    <2>2. CASE t.row \in stale'
      BY <2>1, <2>2, <1>2 DEF Excused
    <2>3. ASSUME NEW p \in Pending, p.id = t.id PROVE Excused(m)'
      <3>1. p \in rows'[Screen].pending /\ Tells(p, m)
        BY <2>1, <2>3, <1>2, <1>6, PendingOfScreen DEF Tells
      <3>2. QED
        BY <3>1 DEF Excused, Tells
    <2>4. QED
      BY <2>1, <2>2, <2>3, <1>3
  <1>10. \A m \in rows[Screen].behind : ~Announces(task[w], m)
    BY <1>1, <1>2 DEF Announces
  <1>11. \A v \in Workers \ {w} : task[v].op \in Under => task[v].id # t.id
    BY <1>1, <1>2 DEF LiveInv, TasksOK, Under
  <1>12. LiveStep(w, t.id)
    BY <1>4, <1>5, <1>6, <1>7, <1>8, <1>9, <1>10, <1>11 DEF LiveStep, LiveInv, LiveBehind
  <1>13. QED
    BY <1>12, StepKeepsLive

\* The engine runs the graphs again that an event concerns.
LEMMA NotifyKeepsLive ==
    ASSUME NEW p \in Pending, LiveInv, Notify(p)
    PROVE  LiveInv'
  <1>1. task' = task /\ served' = served /\ stale' = stale
    BY DEF Notify, work
  <1>2. /\ LiveRowsOK
        /\ DOMAIN rows' = DOMAIN rows /\ DOMAIN rows'[Screen] = DOMAIN rows[Screen]
        /\ rows'[Screen].kind = rows[Screen].kind
        /\ rows'[Screen].pending = rows[Screen].pending \ {p}
        /\ rows'[Screen].behind = {m \in rows[Screen].behind : m.view.deps \cap p.columns = {}}
    BY DEF Notify, LiveInv, LiveRowsOK
  <1>3. TasksOK' /\ LiveRowsOK'
    BY <1>1, <1>2 DEF LiveInv, TasksOK, LiveRowsOK
  <1>4. LiveTasks'
    BY <1>1, <1>2 DEF LiveInv, LiveTasks, LiveTask, Under
  <1>5. ASSUME NEW m \in rows'[Screen].behind PROVE Commits(m)' /\ Excused(m)'
    <2>1. m \in rows[Screen].behind /\ Commits(m) /\ Excused(m) /\ m.view.deps \cap p.columns = {}
      BY <1>2 DEF LiveInv, LiveBehind
    <2>2. Tells(p, m) => Deaf(m)
      BY <2>1 DEF Tells, Deaf
    <2>3. \A q \in rows[Screen].pending : Tells(q, m) => q \in rows'[Screen].pending \/ Deaf(m)
      BY <1>2, <2>2
    <2>4. Commits(m)'
      BY <2>1 DEF Commits
    <2>5. QED
      BY <1>1, <2>1, <2>3, <2>4 DEF Excused, Announces, Tells, Deaf
  <1>6. QED
    BY <1>3, <1>4, <1>5 DEF LiveInv, LiveBehind

\* main.go:267 and the graphs: for any number of goroutines and operations, once
\* nothing is under way a view shows what it depends on, but for the writes that say
\* nothing, for a reservation or an applied count committed after its event had been
\* handled, and for a change of an entity whose event was not stored.
THEOREM ViewsDoCatchUp == LiveSpec => []ViewsCatchUp
  <1>1. InitRecords(LiveRows) => LiveInv
    <2> SUFFICES ASSUME InitRecords(LiveRows) PROVE LiveInv
      OBVIOUS
    <2>1. /\ rows = LiveRows /\ served = 0 /\ task = [w \in Workers |-> Idle]
          /\ DOMAIN rows = {Screen}
          /\ rows[Screen] = [kind |-> "views", behind |-> {}, pending |-> {}]
      BY DEF InitRecords, InitWork, LiveRows
    <2>2. TasksOK /\ LiveTasks
      BY <2>1 DEF TasksOK, LiveTasks, LiveTask, Under, Idle
    <2>3. LiveRowsOK /\ LiveBehind
      BY <2>1 DEF LiveRowsOK, LiveBehind
    <2>4. QED
      BY <2>2, <2>3 DEF LiveInv
  <1>2. LiveInv /\ [LiveNext]_recordVars => LiveInv'
    <2> SUFFICES ASSUME LiveInv, [LiveNext]_recordVars PROVE LiveInv'
      OBVIOUS
    <2>1. CASE UNCHANGED recordVars
      <3>1. rows' = rows /\ stale' = stale /\ task' = task /\ served' = served
        BY <2>1 DEF recordVars, records, work
      <3>2. TasksOK' /\ LiveRowsOK'
        BY <3>1 DEF LiveInv, TasksOK, LiveRowsOK
      <3>3. LiveTasks'
        BY <3>1 DEF LiveInv, LiveTasks, LiveTask, Under
      <3>4. LiveBehind'
        BY <3>1 DEF LiveInv, LiveBehind, Commits, Excused, Deaf, Tells, Announces
      <3>5. QED
        BY <3>2, <3>3, <3>4 DEF LiveInv
    <2>2. CASE LiveNext
      BY <2>2, NotifyKeepsLive, CommitWriteKeepsLive, PublishFirstKeepsLive, PublishWriteKeepsLive,
         LoseEventKeepsLive, CommitLastKeepsLive DEF LiveNext
    <2>3. QED
      BY <2>1, <2>2
  <1>3. LiveInv => ViewsCatchUp
    <2> SUFFICES ASSUME LiveInv, Quiet, NEW m \in Behind, Depends(m.view, m.table),
                        ~Unheard(m.by, m.table)
                 PROVE  <<m.id, 0>> \in stale
      BY DEF ViewsCatchUp
    <2>1. m \in rows[Screen].behind /\ rows[Screen].pending = {}
      BY PendingOfScreen DEF LiveInv, Quiet
    <2>2. Commits(m) /\ Excused(m)
      BY <2>1 DEF LiveInv, LiveBehind
    <2>3. ~Deaf(m)
      BY <2>2, EventsAreHeard DEF Commits, Heard, Deaf
    <2>4. \A w \in Workers : ~Announces(task[w], m)
      BY DEF Quiet, Announces, Idle
    <2>5. QED
      BY <2>1, <2>2, <2>3, <2>4 DEF Excused
  <1>4. QED
    BY <1>1, <1>2, <1>3, PTL DEF LiveSpec

=============================================================================
