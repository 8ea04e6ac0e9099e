--------------------------- MODULE OrderLifecycle ---------------------------
(***************************************************************************)
(* What the order service promises of the status of an order: it follows   *)
(* the life cycle, one edge per operation.  An operation that committed    *)
(* over a row changed since it was read is outside the promise; it leaves  *)
(* the order in any status and marks it overwritten for good.              *)
(***************************************************************************)
CONSTANT Orders

VARIABLES status, overwritten

lifecycle == <<status, overwritten>>

Edges ==
    { <<"absent", "draft">>, <<"draft", "new">>, <<"new", "confirmed">>,
      <<"confirmed", "paid">>, <<"paid", "shipped">>, <<"assembling", "shipped">>,
      <<"shipped", "delivered">> }
      \cup {<<s, "cancelled">> : s \in {"draft", "new", "confirmed", "paid"}}

Statuses == {e[1] : e \in Edges} \cup {e[2] : e \in Edges}

Init == status = [o \in Orders |-> "absent"] /\ overwritten = {}

Advance(o, to) ==
    /\ <<status[o], to>> \in Edges
    /\ status' = [status EXCEPT ![o] = to]
    /\ UNCHANGED overwritten

Overwrite(o, to) ==
    /\ status[o] # "absent"
    /\ status' = [status EXCEPT ![o] = to]
    /\ overwritten' = overwritten \cup {o}

Next == \E o \in Orders, to \in Statuses \ {"absent"} :
          Advance(o, to) \/ Overwrite(o, to)

Spec == Init /\ [][Next]_lifecycle

=============================================================================
