----------------------------- MODULE Logistics -----------------------------
(***************************************************************************)
(* Delivery routes and their stops.  A route is inserted before its stops, *)
(* each row in a statement of its own.  A stop is visited in the order of  *)
(* the route; whether the earlier stops are completed is asked before the  *)
(* UPDATE of the stop.                                                     *)
(***************************************************************************)
EXTENDS Records

CONSTANT StopCount  \* the number of stops of a new route

StopsOf(route) == {s \in Rows("stop") : rows[s].route = route}

Before(s) == {p \in StopsOf(rows[s].route) : rows[p].order < rows[s].order}

CreateRoute(w) ==
    /\ Start(w, [op |-> "stops", id |-> served + 1, row |-> New, next |-> 1])
    /\ rows' = With(rows, New, [kind |-> "route", status |-> "planned"])
    /\ UNCHANGED <<stale, news>>

\* One INSERT per stop, each committed by itself.
CreateStops(w) ==
    /\ At(w, "stops")
    /\ LET t == task[w]
       IN IF t.next > StopCount
          THEN Continue(w, Announcing(t.id, t.row, "logistics.route.created")) /\ UNCHANGED rows
          ELSE /\ rows' = With(rows, <<t.id, t.next>>,
                               [kind |-> "stop", route |-> t.row, order |-> t.next,
                                status |-> "pending"])
               /\ Continue(w, [t EXCEPT !.next = @ + 1])
    /\ UNCHANGED <<stale, news>>

StartRoute(w, r) ==
    /\ rows[r].status = "planned"
    /\ Read(w, "start route", r)

CompleteRoute(w, r) ==
    /\ rows[r].status = "in_progress"
    /\ Read(w, "complete route", r)

UpdateRoute(w) ==
    \/ /\ At(w, "start route")
       /\ Write(w, [status |-> "in_progress"], "logistics.route.started")
    \/ /\ At(w, "complete route")
       /\ Write(w, [status |-> "completed"], "logistics.route.completed")

\* Mutant of ArriveAtStop: an earlier stop that was reached is enough.
ArriveAtStopReached(w, s) ==
    /\ rows[s].status = "pending"
    /\ \A p \in Before(s) : rows[p].status # "pending"
    /\ Read(w, "arrive", s)

\* Every earlier stop must be completed.
ArriveAtStop(w, s) ==
    /\ rows[s].status = "pending"
    /\ \A p \in Before(s) : rows[p].status = "completed"
    /\ Read(w, "arrive", s)

CompleteStop(w, s) ==
    /\ rows[s].status = "arrived"
    /\ Read(w, "complete stop", s)

UpdateStop(w) ==
    \/ /\ At(w, "arrive")
       /\ Write(w, [status |-> "arrived"], "logistics.stop.arrived")
    \/ /\ At(w, "complete stop")
       /\ Write(w, [status |-> "completed"], "logistics.stop.completed")

\* A GPS point is a row of its own that no other operation reads.
UpdateGeo(w) == Add(w, [kind |-> "geo"], "logistics.geo.updated")

RouteEndpoints(w) ==
    \/ CreateRoute(w)
    \/ \E r \in Rows("route") : StartRoute(w, r) \/ CompleteRoute(w, r)

StopEndpoints(w) ==
    \/ \E s \in Rows("stop") : ArriveAtStop(w, s) \/ CompleteStop(w, s)
    \/ UpdateGeo(w)

\* A route that was planned before, with two stops; a driver is at the first.
LogisticsRows ==
    [r \in {<<0, n>> : n \in 0..2} |->
        IF r[2] = 0 THEN [kind |-> "route", status |-> "in_progress"]
        ELSE [kind |-> "stop", route |-> <<0, 0>>, order |-> r[2],
              status |-> IF r[2] = 1 THEN "arrived" ELSE "pending"]]

LogisticsNext ==
    \E w \in Workers :
        \/ RouteEndpoints(w) \/ StopEndpoints(w)
        \/ CreateStops(w) \/ UpdateRoute(w) \/ UpdateStop(w)
        \/ RecordSteps(w)

LogisticsSpec == InitRecords(LogisticsRows) /\ [][LogisticsNext]_recordVars

-----------------------------------------------------------------------------
(* Properties *)

\* ArriveAtStop (service.go:166) enforces the order of the stops on rows it
\* read before its UPDATE: whatever overlaps, a visited stop has all earlier
\* stops of its route completed, unless an arrival that was overtaken by a
\* completion set an earlier stop back.
StopsAreVisitedInOrder ==
    \A s \in Rows("stop") :
        rows[s].status # "pending"
           => \A p \in Before(s) : rows[p].status = "completed" \/ p \in stale

=============================================================================
