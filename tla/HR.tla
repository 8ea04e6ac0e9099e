--------------------------------- MODULE HR ---------------------------------
(***************************************************************************)
(* The HR service: employees, shifts, timesheets, payrolls and absences.   *)
(* A decision (clock out, approve, reject) is checked on a copy; the       *)
(* UPDATE that follows looks at the id only.                               *)
(***************************************************************************)
EXTENDS Records

CONSTANTS
    Employee,  \* the row of the one employee
    Slots,     \* the times of shifts; two shifts overlap when their slots are equal
    PayMonths  \* the months of payrolls

\* The employee was there before.
ASSUME HRAssumption == Employee \in {0} \X Nat

-----------------------------------------------------------------------------
(* Employees: an entity and its components *)

HireEmployee(w) ==
    SetParts(w, New, <<"employment", "salary">>, "hr.employee.hired",
             With(rows, New, [kind |-> "employee", status |-> "active", parts |-> {}]))

UpdateEmployee(w, r) == SetParts(w, r, <<"salary">>, NoEvent, rows)

TerminateEmployee(w, r) ==
    /\ rows[r].status # "terminated"
    /\ Read(w, "terminate", r)

\* The entity service reads the entity again and writes all its columns.
WriteTermination(w) ==
    /\ At(w, "terminate")
    /\ Write(w, [status |-> "terminated"], "hr.employee.terminated")

-----------------------------------------------------------------------------
(* Shifts *)

Shift(slot) == [kind |-> "shift", slot |-> slot, status |-> "scheduled"]

\* Is there a shift of the employee at that time, other than r?
HasOverlappingShift(slot, r) ==
    \E s \in Rows("shift") \ {r} : rows[s].slot = slot

CreateShift(w, slot) ==
    /\ ~HasOverlappingShift(slot, New)
    /\ Plan(w, "create shift", New, Shift(slot))

InsertShift(w) ==
    /\ At(w, "create shift")
    /\ Insert(w, \A s \in Rows("shift") : rows[s].slot # task[w].copy.slot, "hr.shift.created")

UpdateShift(w, r, slot) ==
    /\ ~HasOverlappingShift(slot, r)
    /\ Start(w, [op |-> "update shift", id |-> served + 1, row |-> r, copy |-> rows[r],
                 slot |-> slot])
    /\ UNCHANGED records

\* The row moves to a time that was free when the request looked.
WriteShift(w) ==
    /\ At(w, "update shift")
    /\ LET r == task[w].row
           slot == task[w].slot
       IN /\ rows' = IF r \in DOMAIN rows THEN [rows EXCEPT ![r].slot = slot] ELSE rows
          /\ stale' = IF r \in DOMAIN rows /\ HasOverlappingShift(slot, r)
                      THEN stale \cup {r} ELSE stale
          /\ Finish(w)
          /\ UNCHANGED news

DeleteShift(w, r) ==
    Statement(w, Without({r}), r, NoEvent)

-----------------------------------------------------------------------------
(* Timesheets *)

Open == {r \in Rows("timesheet") : rows[r].status = "open"}

ClockIn(w) ==
    /\ Open = {}
    /\ Plan(w, "clock in", New, [kind |-> "timesheet", status |-> "open", out |-> 0])

CreateTimesheet(w) ==
    /\ At(w, "clock in")
    /\ Insert(w, Open = {}, "hr.shift.started")

ClockOut(w, r) ==
    /\ rows[r].status = "open"
    /\ Read(w, "clock out", r)

\* Mutant of ApproveTimesheet: any timesheet may be approved.
ApproveTimesheetAny(w, r) == Read(w, "approve timesheet", r)

ApproveTimesheet(w, r) ==
    /\ rows[r].status = "closed"
    /\ Read(w, "approve timesheet", r)

\* clock_out and hours_worked (here the request that clocked out) and status
\* are written together, an approval writes those of its copy again.
UpdateTimesheet(w) ==
    \/ /\ At(w, "clock out")
       /\ Write(w, [status |-> "closed", out |-> task[w].id], "hr.shift.completed")
    \/ /\ At(w, "approve timesheet")
       /\ Write(w, [status |-> "approved", out |-> task[w].copy.out], "hr.timesheet.approved")

-----------------------------------------------------------------------------
(* Payrolls *)

\* The salary component is read before the row is planned.
CalculatePayroll(w, month) ==
    /\ "salary" \in rows[Employee].parts
    /\ Plan(w, "payroll", New, [kind |-> "payroll", month |-> month, status |-> "draft"])

\* The unique index refuses a second payroll of the month.
CreatePayroll(w) ==
    /\ At(w, "payroll")
    /\ \A r \in Rows("payroll") : rows[r].month # task[w].copy.month
    /\ Insert(w, TRUE, "hr.payroll.calculated")

ApprovePayroll(w, r) ==
    /\ rows[r].status = "draft"
    /\ Read(w, "approve payroll", r)

UpdatePayroll(w) ==
    /\ At(w, "approve payroll")
    /\ Write(w, [status |-> "approved"], "hr.payroll.approved")

-----------------------------------------------------------------------------
(* Absences *)

RequestAbsence(w) ==
    Add(w, [kind |-> "absence", status |-> "pending"], "hr.absence.requested")

ApproveAbsence(w, r) ==
    /\ rows[r].status = "pending"
    /\ Read(w, "approve absence", r)

RejectAbsence(w, r) ==
    /\ rows[r].status = "pending"
    /\ Read(w, "reject absence", r)

UpdateAbsence(w) ==
    \/ /\ At(w, "approve absence")
       /\ Write(w, [status |-> "approved"], "hr.absence.approved")
    \/ /\ At(w, "reject absence")
       /\ Write(w, [status |-> "rejected"], NoEvent)

-----------------------------------------------------------------------------
EmployeeEndpoints(w) ==
    \/ HireEmployee(w)
    \/ \E r \in Rows("employee") : UpdateEmployee(w, r) \/ TerminateEmployee(w, r)

ShiftEndpoints(w) ==
    \/ \E slot \in Slots : CreateShift(w, slot)
    \/ \E r \in Rows("shift") : DeleteShift(w, r) \/ \E slot \in Slots : UpdateShift(w, r, slot)

TimesheetEndpoints(w) ==
    \/ ClockIn(w)
    \/ \E r \in Rows("timesheet") : ClockOut(w, r) \/ ApproveTimesheet(w, r)

PayrollEndpoints(w) ==
    \/ \E month \in PayMonths : CalculatePayroll(w, month)
    \/ \E r \in Rows("payroll") : ApprovePayroll(w, r)

AbsenceEndpoints(w) ==
    \/ RequestAbsence(w)
    \/ \E r \in Rows("absence") : ApproveAbsence(w, r) \/ RejectAbsence(w, r)

HRWrites(w) ==
    \/ WriteTermination(w) \/ InsertShift(w) \/ WriteShift(w) \/ CreateTimesheet(w)
    \/ UpdateTimesheet(w) \/ CreatePayroll(w) \/ UpdatePayroll(w) \/ UpdateAbsence(w)

HRRows ==
    [r \in {Employee, <<0, 9>>} |->
        IF r = Employee THEN [kind |-> "employee", status |-> "active", parts |-> {"salary"}]
                        ELSE [kind |-> "timesheet", status |-> "open", out |-> 0]]

HRNext ==
    \E w \in Workers :
        \/ EmployeeEndpoints(w) \/ ShiftEndpoints(w) \/ TimesheetEndpoints(w)
        \/ PayrollEndpoints(w) \/ AbsenceEndpoints(w)
        \/ HRWrites(w)
        \/ RecordSteps(w)

HRSpec == InitRecords(HRRows) /\ [][HRNext]_recordVars

-----------------------------------------------------------------------------
(* Properties *)

Decisions == {"hr.timesheet.approved", "hr.payroll.approved", "hr.absence.approved"}

\* ClockIn, ApproveTimesheet and the other decisions (service.go:303, 386) are
\* made once: a second open timesheet, a second approval or a second shift at
\* one time takes two overlapping requests, one of which writes a row that is
\* no longer what it read.  A payroll exists once per month even then.
WorkIsDecidedOnce ==
    /\ \A r, s \in Open : r = s \/ {r, s} \cap stale # {}
    /\ \A r, s \in Rows("shift") : rows[r].slot = rows[s].slot => r = s \/ {r, s} \cap stale # {}
    /\ \A r, s \in Rows("payroll") : rows[r].month = rows[s].month => r = s
    /\ \A r \in DOMAIN rows \ stale, type \in Decisions : Cardinality(Announced(r, type)) <= 1

=============================================================================
