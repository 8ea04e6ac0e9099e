------------------------------ MODULE Finance ------------------------------
(***************************************************************************)
(* The bookkeeping service: accounts, journal entries that are created and *)
(* then posted, monthly periods that are closed and reopened, invoices and *)
(* cash operations.                                                        *)
(*                                                                         *)
(* Every check reads through the pool before the transaction that writes.  *)
(* A period that cannot be read counts as open.  CreateAutoTransaction,    *)
(* which the event handlers and CreateCashOperation call, creates its      *)
(* entry in one transaction and posts it in another; its callers ignore    *)
(* its error.  An entry has two lines here, one debit and one credit of    *)
(* the same amount, which its validation makes of any number of lines.     *)
(***************************************************************************)
EXTENDS Handlers

CONSTANTS
    Months,         \* the accounting periods that occur
    Today,          \* the month of the clock
    Codes,          \* the account codes
    SystemCodes,    \* those of the default chart of accounts
    Cash,           \* code 50, the cash register
    Other,          \* code 91, other income and expense
    Invoices,       \* the invoices that exist
    ReadMayFail,    \* may the query of a period fail?
    BookOperations  \* the operations the clients of this instance use

ASSUME FinanceAssumption ==
    /\ Today \in Months
    /\ {Cash, Other} \subseteq SystemCodes
    /\ SystemCodes \subseteq Codes
    /\ ReadMayFail \in BOOLEAN

VARIABLES
    accounts,   \* the codes of the accounts rows
    entries,    \* the transactions rows with their lines
    periods,    \* the status of each finance_periods row
    invoices,   \* status and paid_at (as the id of the request) of each invoice
    cash,       \* the cash_operations rows, by request
    overtaken,  \* history: handlers whose month was closed since they asked
    given_up    \* history: requests that failed on the way

books == <<accounts, entries, periods, invoices, cash>>
financeVars == <<work, books, overtaken, given_up>>

-----------------------------------------------------------------------------
Entry == [id : Requests, month : Months, debit : Codes, credit : Codes,
          auto : BOOLEAN, posted : BOOLEAN]

Invoice == [status : {"draft", "paid"}, paid : 0..MaxRequests]

Period == {"none", "open", "closed"}

BookTask ==
    [op : {"idle"}, id : {0}]
    \cup [op : {"create", "posting", "post", "cash", "auto"}, id : Requests,
          entry : Entry]
    \cup [op : {"close", "reopen"}, id : Requests, month : Months]
    \cup [op : {"delete"}, id : Requests, code : Codes]
    \cup [op : {"pay"}, id : Requests, invoice : Invoices]

\* The entries of the request this handler starts on.
Draft(m, d, c, auto) ==
    [id |-> served + 1, month |-> m, debit |-> d, credit |-> c, auto |-> auto,
     posted |-> FALSE]

Lines(code) == {e \in entries : code \in {e.debit, e.credit}}

Allowed(op) == op \in BookOperations

\* Mutant of IsPeriodOpen: an entry is tested in the wrong month.
IsPeriodOpenToday(w, m) ==
    /\ periods[Today] # "closed"
    /\ overtaken' = overtaken \ {w}

\* A missing row and an error both mean open.
IsPeriodOpen(w, m) ==
    \/ periods[m] # "closed" /\ overtaken' = overtaken \ {w}
    \/ /\ ReadMayFail
       /\ periods[m] = "closed"
       /\ overtaken' = overtaken \cup {w}

-----------------------------------------------------------------------------
(* Journal entries *)

CreateTransaction(w, m, d, c) ==
    /\ Allowed("create")
    /\ d # c
    /\ Start(w, [op |-> "create", id |-> served + 1, entry |-> Draft(m, d, c, FALSE)])
    /\ IsPeriodOpen(w, m)
    /\ UNCHANGED <<books, given_up>>

\* Mutant of InsertTransaction: the caller is trusted to post the entry.
InsertTransactionOnly(w) ==
    /\ At(w, "create")
    /\ LET e == task[w].entry
       IN /\ {e.debit, e.credit} \subseteq accounts
          /\ entries' = entries \cup {e}
          /\ Finish(w)
    /\ UNCHANGED <<accounts, periods, invoices, cash, overtaken, given_up>>

\* The row and its lines are inserted together; the lines refer to accounts
\* that exist, or the transaction fails.
InsertTransaction(w) ==
    /\ At(w, "create")
    /\ LET e == task[w].entry
       IN /\ {e.debit, e.credit} \subseteq accounts
          /\ entries' = entries \cup {e}
          /\ IF e.auto THEN Continue(w, [task[w] EXCEPT !.op = "posting"])
                       ELSE Finish(w)
    /\ UNCHANGED <<accounts, periods, invoices, cash, overtaken, given_up>>

PostTransaction(w, e) ==
    /\ Allowed("post")
    /\ ~e.posted
    /\ Start(w, [op |-> "post", id |-> served + 1, entry |-> e])
    /\ UNCHANGED <<books, overtaken, given_up>>

\* Mutant of UpdateTransaction: the statement turns is_posted round.
UpdateTransactionToggling(w) ==
    /\ At(w, "post")
    /\ entries' = {IF x.id = task[w].entry.id THEN [x EXCEPT !.posted = ~@] ELSE x : x \in entries}
    /\ Finish(w)
    /\ UNCHANGED <<accounts, periods, invoices, cash, overtaken, given_up>>

\* is_posted is set in the row of that id, whatever it holds.
UpdateTransaction(w) ==
    /\ At(w, "post")
    /\ entries' = {IF x.id = task[w].entry.id THEN [x EXCEPT !.posted = TRUE] ELSE x :
                     x \in entries}
    /\ Finish(w)
    /\ UNCHANGED <<accounts, periods, invoices, cash, overtaken, given_up>>

-----------------------------------------------------------------------------
(* CreateAutoTransaction, called by event handlers and cash operations *)

AutoTransaction(w, d, c) ==
    /\ Allowed("auto")
    /\ d # c
    /\ Start(w, [op |-> "auto", id |-> served + 1, entry |-> Draft(Today, d, c, TRUE)])
    /\ UNCHANGED <<books, overtaken, given_up>>

\* Both accounts are found by their codes, then the month is asked for.
FindAccounts(w) ==
    /\ At(w, "auto")
    /\ {task[w].entry.debit, task[w].entry.credit} \subseteq accounts
    /\ Continue(w, [task[w] EXCEPT !.op = "create"])
    /\ IsPeriodOpen(w, task[w].entry.month)
    /\ UNCHANGED <<books, given_up>>

\* PostTransaction reads the entry again; somebody may have posted it.
ReadCreated(w) ==
    /\ At(w, "posting")
    /\ IF \E e \in entries : e.id = task[w].entry.id /\ ~e.posted
       THEN Continue(w, [task[w] EXCEPT !.op = "post"])
       ELSE Finish(w)
    /\ UNCHANGED <<books, overtaken, given_up>>

CreateCashOperation(w, c, deposit) ==
    LET other == IF c = Cash THEN Other ELSE c
    IN /\ Allowed("cash")
       /\ Start(w, [op |-> "cash", id |-> served + 1,
                    entry |-> IF deposit THEN Draft(Today, Cash, other, TRUE)
                                         ELSE Draft(Today, other, Cash, TRUE)])
       /\ IsPeriodOpen(w, Today)
       /\ UNCHANGED <<books, given_up>>

\* Mutant of InsertCashOperation: the handler is done with the row.
InsertCashOperationOnly(w) ==
    /\ At(w, "cash")
    /\ cash' = cash \cup {task[w].id}
    /\ Finish(w)
    /\ UNCHANGED <<accounts, entries, periods, invoices, overtaken, given_up>>

\* The operation is committed before its entry is attempted.
InsertCashOperation(w) ==
    /\ At(w, "cash")
    /\ cash' = cash \cup {task[w].id}
    /\ Continue(w, [task[w] EXCEPT !.op = "auto"])
    /\ UNCHANGED <<accounts, entries, periods, invoices, overtaken, given_up>>

-----------------------------------------------------------------------------
(* Periods *)

ClosePeriod(w, m) ==
    /\ Allowed("close")
    /\ periods[m] # "closed"
    /\ Start(w, [op |-> "close", id |-> served + 1, month |-> m])
    /\ UNCHANGED <<books, overtaken, given_up>>

ReopenPeriod(w, m) ==
    /\ Allowed("close")
    /\ periods[m] = "closed"
    /\ Start(w, [op |-> "reopen", id |-> served + 1, month |-> m])
    /\ UNCHANGED <<books, overtaken, given_up>>

\* Mutant of UpsertPeriod: a period that is opened again gets no known status.
UpsertPeriodMisspelt(w) ==
    /\ task[w].op \in {"close", "reopen"}
    /\ periods' = [periods EXCEPT ![task[w].month] = IF At(w, "close") THEN "closed" ELSE "reopened"]
    /\ Finish(w)
    /\ UNCHANGED <<accounts, entries, invoices, cash, overtaken, given_up>>

\* The upsert writes what was decided on the copy.
UpsertPeriod(w) ==
    /\ task[w].op \in {"close", "reopen"}
    /\ LET m == task[w].month
           closes == At(w, "close")
       IN /\ periods' = [periods EXCEPT ![m] = IF closes THEN "closed" ELSE "open"]
          /\ overtaken' = overtaken \cup
               {v \in Workers : /\ closes
                                /\ task[v].op \in {"create", "cash"}
                                /\ task[v].entry.month = m}
    /\ Finish(w)
    /\ UNCHANGED <<accounts, entries, invoices, cash, given_up>>

-----------------------------------------------------------------------------
(* Accounts and invoices *)

CreateAccount(w, code) ==
    /\ Allowed("account")
    /\ code \notin accounts
    /\ Serve(w)
    /\ accounts' = accounts \cup {code}
    /\ UNCHANGED <<entries, periods, invoices, cash, overtaken, given_up>>

DeleteAccount(w, code) ==
    /\ Allowed("account")
    /\ code \in accounts \ SystemCodes
    /\ Lines(code) = {}
    /\ Start(w, [op |-> "delete", id |-> served + 1, code |-> code])
    /\ UNCHANGED <<books, overtaken, given_up>>

\* ON DELETE RESTRICT looks at the lines again.
RemoveAccount(w) ==
    /\ At(w, "delete")
    /\ Lines(task[w].code) = {}
    /\ accounts' = accounts \ {task[w].code}
    /\ Finish(w)
    /\ UNCHANGED <<entries, periods, invoices, cash, overtaken, given_up>>

MarkInvoicePaid(w, i) ==
    /\ Allowed("pay")
    /\ invoices[i].status # "paid"
    /\ Start(w, [op |-> "pay", id |-> served + 1, invoice |-> i])
    /\ UNCHANGED <<books, overtaken, given_up>>

UpdateInvoice(w) ==
    /\ At(w, "pay")
    /\ invoices' = [invoices EXCEPT ![task[w].invoice] =
                      [status |-> "paid", paid |-> task[w].id]]
    /\ Finish(w)
    /\ UNCHANGED <<accounts, entries, periods, cash, overtaken, given_up>>

-----------------------------------------------------------------------------
\* A query fails, a check refuses, or the process dies.
GiveUp(w) ==
    /\ task[w].op # "idle"
    /\ given_up' = given_up \cup {task[w].id}
    /\ Finish(w)
    /\ UNCHANGED <<books, overtaken>>

FinanceInit ==
    /\ InitWork
    /\ accounts = SystemCodes
    /\ entries = {}
    /\ periods = [m \in Months |-> "none"]
    /\ invoices = [i \in Invoices |-> [status |-> "draft", paid |-> 0]]
    /\ cash = {}
    /\ overtaken = {}
    /\ given_up = {}

AccountEndpoints(w) ==
    \E code \in Codes : CreateAccount(w, code) \/ DeleteAccount(w, code)

TransactionEndpoints(w) ==
    \/ \E m \in Months, d \in Codes, c \in Codes : CreateTransaction(w, m, d, c)
    \/ \E e \in entries : PostTransaction(w, e)

InvoiceEndpoints(w) == \E i \in Invoices : MarkInvoicePaid(w, i)

PeriodEndpoints(w) == \E m \in Months : ClosePeriod(w, m) \/ ReopenPeriod(w, m)

CashEndpoints(w) ==
    \E c \in Codes, deposit \in BOOLEAN : CreateCashOperation(w, c, deposit)

Bookkeeping(w) ==
    \/ InsertTransaction(w) \/ UpdateTransaction(w)
    \/ FindAccounts(w) \/ ReadCreated(w) \/ InsertCashOperation(w)
    \/ UpsertPeriod(w) \/ RemoveAccount(w) \/ UpdateInvoice(w)

FinanceNext ==
    \E w \in Workers :
        \/ AccountEndpoints(w) \/ TransactionEndpoints(w) \/ InvoiceEndpoints(w)
        \/ PeriodEndpoints(w) \/ CashEndpoints(w)
        \/ \E d \in Codes, c \in Codes : AutoTransaction(w, d, c)
        \/ Bookkeeping(w)
        \/ GiveUp(w)

FinanceSpec == FinanceInit /\ [][FinanceNext]_financeVars

-----------------------------------------------------------------------------
(* Properties *)

\* Every row, and every copy a handler holds, has the shape of its table.
FinanceTypeOK ==
    /\ task \in [Workers -> BookTask]
    /\ served \in 0..MaxRequests
    /\ accounts \subseteq Codes
    /\ entries \subseteq Entry
    /\ periods \in [Months -> Period]
    /\ invoices \in [Invoices -> Invoice]
    /\ cash \subseteq Requests
    /\ overtaken \subseteq Workers
    /\ given_up \subseteq Requests

\* CreateTransaction (service.go:120) asks for the period before its own
\* transaction: an entry may still appear in a closed month, but only from a
\* handler that asked before the month was closed, or whose query failed.
ClosedMonthsStayShut ==
    [][\A e \in entries' :
          (\A x \in entries : x.id # e.id) /\ periods[e.month] = "closed"
             => \E w \in overtaken : At(w, "create") /\ task[w].entry = e]_financeVars

\* PostTransaction (service.go:213) is irreversible: neither a second post on
\* an older copy nor anything else changes or removes an entry that is posted.
PostedIsFinal == [][\A e \in entries : e.posted => e \in entries']_financeVars

\* CreateAutoTransaction (service.go:317, 328) creates and posts in two
\* transactions: an automatic entry is posted, or its handler is at it, or
\* that handler failed.
AutoEntriesArePosted ==
    \A e \in entries :
        e.auto /\ ~e.posted
           => \/ e.id \in given_up
              \/ \E w \in Workers : /\ task[w].op \in {"posting", "post"}
                                    /\ task[w].entry.id = e.id

\* CreateCashOperation (service.go:492) ignores the error of its bookkeeping:
\* an operation has its posted entry unless its handler is at it or failed.
CashIsBooked ==
    \A n \in cash :
        \/ \E e \in entries : e.id = n /\ e.auto /\ e.posted
        \/ \E w \in Workers : /\ task[w].op \in {"auto", "create", "posting", "post"}
                              /\ task[w].entry.id = n
        \/ n \in given_up

=============================================================================
