------------------------------ MODULE Banking ------------------------------
(***************************************************************************)
(* Payments through the bank and the reconciliation of its statement.  The *)
(* reconciliation and its entries are one transaction; the bookings it     *)
(* makes on the way are transactions of their own (module Finance), whose  *)
(* errors it ignores.                                                      *)
(***************************************************************************)
EXTENDS Records

CONSTANTS
    Statement7Days,  \* the lines of the statement, a sequence of directions
    Payers           \* the lines for which an open order is found

Booking(line) == [kind |-> "booking", line |-> line]

\* The bank answers, then the service tells; no table is touched.
InitiatePayment(w) == Statement(w, rows, <<0, 0>>, "bank.payment.initiated")

HandlePaymentCallback(w, status) ==
    Statement(w, rows, <<0, 0>>,
              CASE status = "completed" -> "bank.payment.completed"
                [] status = "failed" -> "bank.payment.failed"
                [] OTHER -> NoEvent)

PayViaBank(w) == Statement(w, rows, <<0, 0>>, "bank.payroll.sent")

\* The statement of the last seven days; the transaction begins.
AutoReconcile(w) ==
    /\ Start(w, [op |-> "reconcile", id |-> served + 1, row |-> New, entries |-> <<>>])
    /\ UNCHANGED records

\* A credit line with an order of its amount and payer is booked.
Matched(line) == Statement7Days[line] = "credit" /\ line \in Payers

\* Mutant of ReconcileLine: the booking is made before the order is looked for.
ReconcileLineBooked(w) ==
    /\ At(w, "reconcile")
    /\ Len(task[w].entries) < Len(Statement7Days)
    /\ LET line == Len(task[w].entries) + 1
       IN /\ rows' = With(rows, <<task[w].id, line>>, Booking(line))
          /\ Continue(w, [task[w] EXCEPT !.entries =
                            Append(@, IF Matched(line) THEN "matched" ELSE "manual")])
    /\ UNCHANGED <<stale, news>>

\* A line is booked when its order is found; when there is none, or the query
\* fails, it is left to be matched by hand.
ReconcileLine(w) ==
    /\ At(w, "reconcile")
    /\ Len(task[w].entries) < Len(Statement7Days)
    /\ LET line == Len(task[w].entries) + 1
       IN \/ /\ Matched(line)
             /\ \/ rows' = With(rows, <<task[w].id, line>>, Booking(line))
                \/ UNCHANGED rows  \* the booking failed
             /\ Continue(w, [task[w] EXCEPT !.entries = Append(@, "matched")])
          \/ /\ Continue(w, [task[w] EXCEPT !.entries = Append(@, "manual")])
             /\ UNCHANGED rows
    /\ UNCHANGED <<stale, news>>

\* The row was written with both counts zero, before the lines were looked at.
CommitReconciliation(w) ==
    /\ At(w, "reconcile")
    /\ Len(task[w].entries) = Len(Statement7Days)
    /\ rows' = With(rows, task[w].row,
                     [kind |-> "reconciliation", entries |-> task[w].entries,
                      matched |-> 0, unmatched |-> 0])
    /\ Continue(w, Announcing(task[w].id, task[w].row, "bank.reconciliation.completed"))
    /\ UNCHANGED <<stale, news>>

PaymentEndpoints(w) ==
    \/ InitiatePayment(w) \/ PayViaBank(w)
    \/ \E status \in {"completed", "failed", "pending"} : HandlePaymentCallback(w, status)

ReconciliationEndpoints(w) == AutoReconcile(w)

BankingNext ==
    \E w \in Workers :
        \/ PaymentEndpoints(w) \/ ReconciliationEndpoints(w)
        \/ ReconcileLine(w) \/ CommitReconciliation(w)
        \/ RecordSteps(w)

BankingSpec == InitRecords(<<>>) /\ [][BankingNext]_recordVars

-----------------------------------------------------------------------------
(* Properties *)

\* AutoReconcile (service.go:152) books outside its transaction: a booking
\* belongs to a line its reconciliation reports as matched, now or once it
\* commits; one without either was left behind by a rollback.  The counts of
\* the stored row agree with its entries only when nothing was matched or not.
BookingsAreReported ==
    \A b \in Rows("booking") :
        LET r == <<b[1], 0>>
        IN /\ r \in DOMAIN rows => rows[r].entries[b[2]] = "matched"
           /\ \A w \in Workers :
                 At(w, "reconcile") /\ task[w].row = r => task[w].entries[b[2]] = "matched"

=============================================================================
