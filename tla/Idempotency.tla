---------------------------- MODULE Idempotency ----------------------------
(***************************************************************************)
(* The middleware that absorbs the retries of a mutation.  A Redis key is  *)
(* set, if it is not there, while the request runs; it then holds the      *)
(* response, or is deleted when the request failed, whatever the request   *)
(* had committed by then.  The key expires 5 s after it was written, in    *)
(* this model at any time; stale is the set of keys that expired, or that  *)
(* Redis could not be asked about.                                         *)
(***************************************************************************)
EXTENDS Records

CONSTANT Keys  \* the idempotency keys that clients use

Marker(k) == <<0, k>>

\* What the requests with this key did that were answered with success.
Effects(k) == {r \in Rows("effect") : rows[r].key = k /\ rows[r].ok}

Run(w, k, marked) ==
    Start(w, [op |-> "run", id |-> served + 1, row |-> New, key |-> k, marked |-> marked])

\* SETNX: the first request with this key sets it and runs.
SetProcessing(w, k) ==
    /\ Marker(k) \notin DOMAIN rows
    /\ rows' = With(rows, Marker(k), [kind |-> "marker", state |-> "processing", by |-> New])
    /\ Run(w, k, TRUE)
    /\ UNCHANGED <<stale, news>>

\* Redis does not answer: the request runs unmarked.
RunUnmarked(w, k) ==
    /\ Run(w, k, FALSE)
    /\ stale' = stale \cup {Marker(k)}
    /\ UNCHANGED <<rows, news>>

\* A request whose key holds a response gets it again; while the first one
\* runs it is turned away, which changes nothing.
Replay(w, k) ==
    /\ Marker(k) \in DOMAIN rows
    /\ rows[Marker(k)].state = "response"
    /\ Statement(w, rows, rows[Marker(k)].by, "replayed")

\* The handler behind the middleware succeeds, or fails: at once, or after it
\* has committed some or all of its effect (a service that writes in several
\* transactions, or reads again what it wrote).
Execute(w) ==
    /\ At(w, "run")
    /\ \E ok \in BOOLEAN :
          /\ rows' \in {With(rows, task[w].row,
                              [kind |-> "effect", key |-> task[w].key, ok |-> ok])}
                        \cup (IF ok THEN {} ELSE {rows})
          /\ Continue(w, [op |-> "respond", id |-> task[w].id, row |-> task[w].row, ok |-> ok,
                          key |-> task[w].key, marked |-> task[w].marked])
    /\ UNCHANGED <<stale, news>>

\* Mutant of Respond: the response of a failed request is kept as well.
RespondAnyStatus(w) ==
    /\ At(w, "respond")
    /\ LET marker == Marker(task[w].key)
       IN rows' = With(rows, marker, [kind |-> "marker", state |-> "response", by |-> task[w].row])
    /\ Finish(w)
    /\ UNCHANGED <<stale, news>>

\* Whoever's marker it is by now.
Respond(w) ==
    /\ At(w, "respond")
    /\ LET t == task[w]
           marker == Marker(t.key)
       IN rows' = CASE ~t.marked -> rows
                    [] t.marked /\ t.ok ->
                         With(rows, marker, [kind |-> "marker", state |-> "response", by |-> t.row])
                    [] t.marked /\ ~t.ok -> Without({marker})
    /\ Finish(w)
    /\ UNCHANGED <<stale, news>>

ExpireMarker(k) ==
    /\ Marker(k) \in DOMAIN rows
    /\ rows' = Without({Marker(k)})
    /\ stale' = stale \cup {Marker(k)}
    /\ UNCHANGED <<work, news>>

IdempotencyNext ==
    \/ \E k \in Keys : ExpireMarker(k)
    \/ \E w \in Workers :
          \/ \E k \in Keys : SetProcessing(w, k) \/ RunUnmarked(w, k) \/ Replay(w, k)
          \/ Execute(w) \/ Respond(w)
          \/ RecordSteps(w)

IdempotencySpec == InitRecords(<<>>) /\ [][IdempotencyNext]_recordVars

-----------------------------------------------------------------------------
(* Properties *)

\* Idempotency (idempotency.go:36): a mutation succeeds once per key, but for a
\* key that expired (the TTL starts when the request does) or a Redis that was
\* down; and only a response to a mutation that succeeded is replayed, even
\* when an overtaken request writes the key of another one.  What a failed
\* request had committed (hr/service.go:38, logistics/service.go:44) stays, and
\* comes again with its retry: the key is deleted (idempotency.go:78).
RetriesAreAbsorbed ==
    /\ \A k \in Keys : Cardinality(Effects(k)) > 1 => Marker(k) \in stale
    /\ \A n \in news : n.type = "replayed" => \E k \in Keys : n.row \in Effects(k)

=============================================================================
