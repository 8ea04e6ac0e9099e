--------------------------- MODULE FinanceProofs ---------------------------
(***************************************************************************)
(* Theorems about module Finance, for any handlers, months, accounts and   *)
(* invoices and any number of requests.                                    *)
(***************************************************************************)
EXTENDS Finance, TLAPS

\* The handlers at work on an entry.
Entering == {"create", "posting", "post", "cash", "auto"}

EntryTask == [op : Entering, id : Requests, entry : Entry]

-----------------------------------------------------------------------------
(* Types *)

\* What a handler holds, by what it does.
LEMMA TaskShapes ==
    ASSUME NEW t \in BookTask
    PROVE  /\ t.op # "idle" => t.id \in Requests
           /\ t.op \in Entering => t \in EntryTask
           /\ t.op \in {"close", "reopen"} => t.month \in Months
           /\ t.op = "delete" => t.code \in Codes
           /\ t.op = "pay" => t.invoice \in Invoices
  BY DEF BookTask, EntryTask, Entering

LEMMA EntryTasksAreTasks == EntryTask \subseteq BookTask
  BY DEF BookTask, EntryTask, Entering

LEMMA NextStage ==
    ASSUME NEW t \in BookTask, t.op \in Entering, NEW op \in Entering
    PROVE  /\ [t EXCEPT !.op = op] \in BookTask
           /\ [t EXCEPT !.op = op].op = op
           /\ [t EXCEPT !.op = op].id = t.id
           /\ [t EXCEPT !.op = op].entry = t.entry
  BY TaskShapes, EntryTasksAreTasks DEF EntryTask

LEMMA IdleIsATask == Idle \in BookTask
  BY DEF Idle, BookTask

LEMMA StartSteps ==
    ASSUME FinanceTypeOK, NEW w \in Workers, NEW t \in BookTask, Start(w, t)
    PROVE  /\ task' \in [Workers -> BookTask] /\ served' \in 0..MaxRequests
           /\ task[w].op = "idle" /\ task'[w] = t
           /\ \A v \in Workers \ {w} : task'[v] = task[v]
  BY HandlersAssumption DEF FinanceTypeOK, Start

LEMMA ContinueSteps ==
    ASSUME FinanceTypeOK, NEW w \in Workers, NEW t \in BookTask, Continue(w, t)
    PROVE  /\ task' \in [Workers -> BookTask] /\ served' \in 0..MaxRequests
           /\ task'[w] = t
           /\ \A v \in Workers \ {w} : task'[v] = task[v]
  BY DEF FinanceTypeOK, Continue

LEMMA FinishSteps ==
    ASSUME FinanceTypeOK, NEW w \in Workers, Finish(w)
    PROVE  /\ task' \in [Workers -> BookTask] /\ served' \in 0..MaxRequests
           /\ task'[w] = Idle
           /\ \A v \in Workers \ {w} : task'[v] = task[v]
  BY ContinueSteps, IdleIsATask DEF Finish

\* The entry a request starts with.
LEMMA DraftTyped ==
    ASSUME FinanceTypeOK, served < MaxRequests,
           NEW m \in Months, NEW d \in Codes, NEW c \in Codes, NEW auto \in BOOLEAN
    PROVE  /\ served + 1 \in Requests
           /\ Draft(m, d, c, auto) \in Entry
           /\ Draft(m, d, c, auto).id = served + 1
           /\ ~ Draft(m, d, c, auto).posted
  <1>1. served + 1 \in Requests
    BY HandlersAssumption DEF FinanceTypeOK, Requests
  <1> QED  BY <1>1 DEF Draft, Entry

LEMMA OvertakenTyped ==
    ASSUME FinanceTypeOK, NEW w \in Workers, NEW m, IsPeriodOpen(w, m)
    PROVE  /\ overtaken' \subseteq Workers
           /\ overtaken \ {w} \subseteq overtaken'
           /\ periods[m] = "closed" => w \in overtaken'
  BY DEF FinanceTypeOK, IsPeriodOpen

LEMMA TypeInit == FinanceInit => FinanceTypeOK
  <1> SUFFICES ASSUME FinanceInit PROVE FinanceTypeOK  OBVIOUS
  <1>1. task \in [Workers -> BookTask] /\ served \in 0..MaxRequests
    BY IdleIsATask, HandlersAssumption DEF FinanceInit, InitWork
  <1>2. accounts \subseteq Codes
    BY FinanceAssumption DEF FinanceInit
  <1>3. periods \in [Months -> Period]
    BY DEF FinanceInit, Period
  <1>4. invoices \in [Invoices -> Invoice]
    BY HandlersAssumption DEF FinanceInit, Invoice
  <1> QED  BY <1>1, <1>2, <1>3, <1>4 DEF FinanceInit, FinanceTypeOK

-----------------------------------------------------------------------------
(* Every step keeps the types.  The lemmas follow the sections of Finance. *)

LEMMA JournalKeepsTypes ==
    ASSUME FinanceTypeOK, NEW w \in Workers,
           \/ TransactionEndpoints(w) \/ InsertTransaction(w) \/ UpdateTransaction(w)
    PROVE  FinanceTypeOK'
  <1>1. ASSUME NEW m \in Months, NEW d \in Codes, NEW c \in Codes, CreateTransaction(w, m, d, c)
        PROVE  FinanceTypeOK'
    <2> DEFINE t == [op |-> "create", id |-> served + 1, entry |-> Draft(m, d, c, FALSE)]
    <2>1. Start(w, t) /\ IsPeriodOpen(w, m) /\ UNCHANGED <<books, given_up>>
      BY <1>1 DEF CreateTransaction
    <2>2. t \in BookTask
      BY <2>1, DraftTyped, EntryTasksAreTasks DEF Start, EntryTask, Entering
    <2> HIDE DEF t
    <2> QED  BY <2>1, <2>2, StartSteps, OvertakenTyped DEF FinanceTypeOK, books
  <1>2. ASSUME NEW e \in entries, PostTransaction(w, e) PROVE FinanceTypeOK'
    <2> DEFINE t == [op |-> "post", id |-> served + 1, entry |-> e]
    <2>1. Start(w, t) /\ UNCHANGED <<books, overtaken, given_up>>
      BY <1>2 DEF PostTransaction
    <2>2. served + 1 \in Requests /\ e \in Entry
      BY <2>1, HandlersAssumption DEF FinanceTypeOK, Start, Requests
    <2>3. t \in BookTask
      BY <2>2, EntryTasksAreTasks DEF EntryTask, Entering
    <2> HIDE DEF t
    <2> QED  BY <2>1, <2>3, StartSteps DEF FinanceTypeOK, books
  <1>3. CASE InsertTransaction(w)
    <2>1. task[w] \in BookTask /\ task[w].op = "create"
      BY <1>3 DEF FinanceTypeOK, InsertTransaction, At
    <2>2. task[w].entry \in Entry /\ [task[w] EXCEPT !.op = "posting"] \in BookTask
      BY <2>1, TaskShapes, NextStage DEF Entering, EntryTask
    <2>3. Continue(w, [task[w] EXCEPT !.op = "posting"]) \/ Finish(w)
      BY <1>3 DEF InsertTransaction
    <2>4. task' \in [Workers -> BookTask] /\ served' \in 0..MaxRequests
      BY <2>2, <2>3, ContinueSteps, FinishSteps
    <2> QED  BY <1>3, <2>2, <2>4 DEF InsertTransaction, FinanceTypeOK
  <1>4. CASE UpdateTransaction(w)
    <2>1. entries' \subseteq Entry
      BY <1>4 DEF UpdateTransaction, FinanceTypeOK, Entry
    <2> QED  BY <1>4, <2>1, FinishSteps DEF UpdateTransaction, FinanceTypeOK
  <1> QED  BY <1>1, <1>2, <1>3, <1>4 DEF TransactionEndpoints

LEMMA AutoKeepsTypes ==
    ASSUME FinanceTypeOK, NEW w \in Workers,
           \/ \E d \in Codes, c \in Codes : AutoTransaction(w, d, c)
           \/ FindAccounts(w) \/ ReadCreated(w)
           \/ CashEndpoints(w) \/ InsertCashOperation(w)
    PROVE  FinanceTypeOK'
  <1>1. ASSUME NEW d \in Codes, NEW c \in Codes, AutoTransaction(w, d, c)
        PROVE  FinanceTypeOK'
    <2> DEFINE t == [op |-> "auto", id |-> served + 1, entry |-> Draft(Today, d, c, TRUE)]
    <2>1. Start(w, t) /\ UNCHANGED <<books, overtaken, given_up>>
      BY <1>1 DEF AutoTransaction
    <2>2. t \in BookTask
      BY <2>1, DraftTyped, EntryTasksAreTasks, FinanceAssumption DEF Start, EntryTask, Entering
    <2> HIDE DEF t
    <2> QED  BY <2>1, <2>2, StartSteps DEF FinanceTypeOK, books
  <1>2. CASE FindAccounts(w)
    <2>1. task[w] \in BookTask /\ task[w].op \in Entering
      BY <1>2 DEF FinanceTypeOK, FindAccounts, At, Entering
    <2>2. [task[w] EXCEPT !.op = "create"] \in BookTask
      BY <2>1, NextStage DEF Entering
    <2> QED  BY <1>2, <2>2, ContinueSteps, OvertakenTyped DEF FindAccounts, FinanceTypeOK, books
  <1>3. CASE ReadCreated(w)
    <2>1. task[w] \in BookTask /\ task[w].op \in Entering
      BY <1>3 DEF FinanceTypeOK, ReadCreated, At, Entering
    <2>2. [task[w] EXCEPT !.op = "post"] \in BookTask
      BY <2>1, NextStage DEF Entering
    <2>3. Continue(w, [task[w] EXCEPT !.op = "post"]) \/ Finish(w)
      BY <1>3 DEF ReadCreated
    <2>4. task' \in [Workers -> BookTask] /\ served' \in 0..MaxRequests
      BY <2>2, <2>3, ContinueSteps, FinishSteps
    <2> QED  BY <1>3, <2>4 DEF ReadCreated, FinanceTypeOK, books
  <1>4. ASSUME NEW c \in Codes, NEW deposit \in BOOLEAN, CreateCashOperation(w, c, deposit)
        PROVE  FinanceTypeOK'
    <2> DEFINE other == IF c = Cash THEN Other ELSE c
               e == IF deposit THEN Draft(Today, Cash, other, TRUE)
                               ELSE Draft(Today, other, Cash, TRUE)
               t == [op |-> "cash", id |-> served + 1, entry |-> e]
    <2>1. Start(w, t) /\ IsPeriodOpen(w, Today) /\ UNCHANGED <<books, given_up>>
      BY <1>4 DEF CreateCashOperation
    <2>2. Cash \in Codes /\ other \in Codes /\ Today \in Months
      BY FinanceAssumption
    <2> HIDE DEF other
    <2>3. served + 1 \in Requests /\ e \in Entry
      BY <2>1, <2>2, DraftTyped DEF Start
    <2> HIDE DEF e
    <2>4. t \in BookTask
      BY <2>3, EntryTasksAreTasks DEF EntryTask, Entering
    <2> HIDE DEF t
    <2> QED  BY <2>1, <2>4, StartSteps, OvertakenTyped DEF FinanceTypeOK, books
  <1>5. CASE InsertCashOperation(w)
    <2>1. task[w] \in BookTask /\ task[w].op \in Entering
      BY <1>5 DEF FinanceTypeOK, InsertCashOperation, At, Entering
    <2>2. [task[w] EXCEPT !.op = "auto"] \in BookTask /\ task[w].id \in Requests
      BY <2>1, NextStage, TaskShapes DEF Entering
    <2> QED  BY <1>5, <2>2, ContinueSteps DEF InsertCashOperation, FinanceTypeOK
  <1> QED  BY <1>1, <1>2, <1>3, <1>4, <1>5 DEF CashEndpoints

LEMMA PeriodsKeepTypes ==
    ASSUME FinanceTypeOK, NEW w \in Workers, PeriodEndpoints(w) \/ UpsertPeriod(w)
    PROVE  FinanceTypeOK'
  <1>1. ASSUME NEW m \in Months, NEW op \in {"close", "reopen"},
               Start(w, [op |-> op, id |-> served + 1, month |-> m]),
               UNCHANGED <<books, overtaken, given_up>>
        PROVE  FinanceTypeOK'
    <2>1. served + 1 \in Requests
      BY <1>1, HandlersAssumption DEF FinanceTypeOK, Start, Requests
    <2>2. [op |-> op, id |-> served + 1, month |-> m] \in BookTask
      BY <2>1 DEF BookTask
    <2> QED  BY <1>1, <2>2, StartSteps DEF FinanceTypeOK, books
  <1>2. CASE PeriodEndpoints(w)
    BY <1>1, <1>2 DEF PeriodEndpoints, ClosePeriod, ReopenPeriod
  <1>3. CASE UpsertPeriod(w)
    <2>1. task[w].month \in Months
      BY <1>3, TaskShapes DEF UpsertPeriod, FinanceTypeOK
    <2>2. periods' \in [Months -> Period] /\ overtaken' \subseteq Workers
      BY <1>3, <2>1 DEF UpsertPeriod, FinanceTypeOK, Period
    <2> QED  BY <1>3, <2>2, FinishSteps DEF UpsertPeriod, FinanceTypeOK
  <1> QED  BY <1>2, <1>3

LEMMA AccountsKeepTypes ==
    ASSUME FinanceTypeOK, NEW w \in Workers, AccountEndpoints(w) \/ RemoveAccount(w)
    PROVE  FinanceTypeOK'
  <1>1. ASSUME NEW code \in Codes, CreateAccount(w, code) PROVE FinanceTypeOK'
    BY <1>1, HandlersAssumption DEF CreateAccount, Serve, FinanceTypeOK
  <1>2. ASSUME NEW code \in Codes, DeleteAccount(w, code) PROVE FinanceTypeOK'
    <2>1. served + 1 \in Requests
      BY <1>2, HandlersAssumption DEF FinanceTypeOK, DeleteAccount, Start, Requests
    <2>2. [op |-> "delete", id |-> served + 1, code |-> code] \in BookTask
      BY <2>1 DEF BookTask
    <2> QED  BY <1>2, <2>2, StartSteps DEF DeleteAccount, FinanceTypeOK, books
  <1>3. CASE RemoveAccount(w)
    BY <1>3, FinishSteps DEF RemoveAccount, FinanceTypeOK
  <1> QED  BY <1>1, <1>2, <1>3 DEF AccountEndpoints

LEMMA InvoicesKeepTypes ==
    ASSUME FinanceTypeOK, NEW w \in Workers, InvoiceEndpoints(w) \/ UpdateInvoice(w)
    PROVE  FinanceTypeOK'
  <1>1. ASSUME NEW i \in Invoices, MarkInvoicePaid(w, i) PROVE FinanceTypeOK'
    <2>1. served + 1 \in Requests
      BY <1>1, HandlersAssumption DEF FinanceTypeOK, MarkInvoicePaid, Start, Requests
    <2>2. [op |-> "pay", id |-> served + 1, invoice |-> i] \in BookTask
      BY <2>1 DEF BookTask
    <2> QED  BY <1>1, <2>2, StartSteps DEF MarkInvoicePaid, FinanceTypeOK, books
  <1>2. CASE UpdateInvoice(w)
    <2>1. task[w].invoice \in Invoices /\ task[w].id \in Requests
      BY <1>2, TaskShapes DEF UpdateInvoice, FinanceTypeOK, At
    <2>2. invoices' \in [Invoices -> Invoice]
      BY <1>2, <2>1, HandlersAssumption DEF UpdateInvoice, FinanceTypeOK, Invoice, Requests
    <2> QED  BY <1>2, <2>2, FinishSteps DEF UpdateInvoice, FinanceTypeOK
  <1> QED  BY <1>1, <1>2 DEF InvoiceEndpoints

LEMMA GivingUpKeepsTypes ==
    ASSUME FinanceTypeOK, NEW w \in Workers, GiveUp(w)
    PROVE  FinanceTypeOK'
  <1>1. task[w].id \in Requests
    BY TaskShapes DEF GiveUp, FinanceTypeOK
  <1> QED  BY <1>1, FinishSteps DEF GiveUp, FinanceTypeOK, books

\* The rows and the copies the handlers hold keep their shape.
THEOREM FinanceTypeCorrect == FinanceSpec => []FinanceTypeOK
  <1>1. FinanceTypeOK /\ [FinanceNext]_financeVars => FinanceTypeOK'
    <2>1. FinanceTypeOK /\ FinanceNext => FinanceTypeOK'
      BY JournalKeepsTypes, AutoKeepsTypes, PeriodsKeepTypes, AccountsKeepTypes,
         InvoicesKeepTypes, GivingUpKeepsTypes DEF FinanceNext, Bookkeeping
    <2>2. FinanceTypeOK /\ UNCHANGED financeVars => FinanceTypeOK'
      BY DEF FinanceTypeOK, financeVars, work, books
    <2> QED  BY <2>1, <2>2
  <1> QED  BY <1>1, TypeInit, PTL DEF FinanceSpec

-----------------------------------------------------------------------------
(* Posted entries *)

LEMMA PostedStays ==
    ASSUME FinanceTypeOK, FinanceNext, NEW e \in entries, e.posted
    PROVE  e \in entries'
  <1>1. PICK w \in Workers :
           \/ AccountEndpoints(w) \/ TransactionEndpoints(w) \/ InvoiceEndpoints(w)
           \/ PeriodEndpoints(w) \/ CashEndpoints(w)
           \/ \E d \in Codes, c \in Codes : AutoTransaction(w, d, c)
           \/ Bookkeeping(w)
           \/ GiveUp(w)
    BY DEF FinanceNext
  <1>2. CASE InsertTransaction(w)
    BY <1>2 DEF InsertTransaction
  <1>3. CASE UpdateTransaction(w)
    <2>1. [e EXCEPT !.posted = TRUE] = e
      BY DEF FinanceTypeOK, Entry
    <2> QED  BY <1>3, <2>1 DEF UpdateTransaction
  <1>4. CASE ~ InsertTransaction(w) /\ ~ UpdateTransaction(w)
    BY <1>1, <1>4 DEF AccountEndpoints, TransactionEndpoints, InvoiceEndpoints, PeriodEndpoints,
       CashEndpoints, Bookkeeping, GiveUp, AutoTransaction, CreateAccount, DeleteAccount,
       CreateTransaction, PostTransaction, MarkInvoicePaid, ClosePeriod, ReopenPeriod,
       CreateCashOperation, FindAccounts, ReadCreated, InsertCashOperation, UpsertPeriod,
       RemoveAccount, UpdateInvoice, books
  <1> QED  BY <1>2, <1>3, <1>4

\* A posted entry is never changed or removed (PostTransaction,
\* service.go:213), whatever copies handlers post.
THEOREM PostedForGood == FinanceSpec => PostedIsFinal
  <1>1. FinanceTypeOK /\ [FinanceNext]_financeVars
          => [\A e \in entries : e.posted => e \in entries']_financeVars
    BY PostedStays
  <1> QED  BY <1>1, FinanceTypeCorrect, PTL DEF FinanceSpec, PostedIsFinal

-----------------------------------------------------------------------------
(* Automatic entries and cash operations *)

\* Who creates an entry holds it under his own request, not posted yet.
Drafts ==
    \A w \in Workers :
        task[w].op \in {"create", "posting", "cash", "auto"}
           => /\ task[w].entry.id = task[w].id
              /\ task[w].op \in {"create", "cash", "auto"} => ~ task[w].entry.posted
              /\ task[w].op \in {"cash", "auto"} => task[w].entry.auto

\* w will post entry n, which it has inserted.
Posting(w, n) ==
    /\ task[w].op \in {"posting", "post"}
    /\ task[w].id = n
    /\ task[w].entry.id = n

\* AutoEntriesArePosted, by the very handler that inserted the entry: another
\* one that happens to post it may give up.
AutoInv ==
    \A e \in entries :
        e.auto /\ ~ e.posted => e.id \in given_up \/ \E w \in Workers : Posting(w, e.id)

\* An automatic entry n exists, posted or not.
Inserted(n) == \E e \in entries : e.id = n /\ e.auto

\* w makes the automatic entry n.
Making(w, n) ==
    /\ task[w].op \in {"auto", "create", "posting", "post"}
    /\ task[w].id = n
    /\ task[w].entry.id = n
    /\ task[w].entry.auto
    /\ task[w].op \in {"posting", "post"} => Inserted(n)

CashInv ==
    \A n \in cash :
        \/ \E e \in entries : e.id = n /\ e.auto /\ e.posted
        \/ \E w \in Workers : Making(w, n)
        \/ n \in given_up

\* A handler that asked in time for a month that is closed now is overtaken.
AskedInv ==
    \A w \in Workers :
        task[w].op = "create" /\ periods[task[w].entry.month] = "closed" => w \in overtaken

FinanceInv == FinanceTypeOK /\ Drafts /\ AutoInv /\ CashInv /\ AskedInv

-----------------------------------------------------------------------------
(* What a step does to the tasks, the entries and the cash operations; the  *)
(* invariants only depend on that.                                          *)

OthersWait(w) == \A v \in Workers \ {w} : task'[v] = task[v]

\* w works on accounts, invoices or periods.
Elsewhere(w) ==
    /\ OthersWait(w)
    /\ task[w].op \notin Entering /\ task'[w].op \notin Entering
    /\ UNCHANGED <<entries, cash, given_up>>

\* w starts on an entry: its own, or one that it is to post.
Begins(w) ==
    /\ OthersWait(w)
    /\ task[w].op \notin Entering
    /\ task'[w].op \in {"create", "cash", "auto", "post"}
    /\ task'[w].op # "post" => /\ task'[w].entry.id = task'[w].id
                               /\ ~ task'[w].entry.posted
    /\ task'[w].op \in {"cash", "auto"} => task'[w].entry.auto
    /\ UNCHANGED <<entries, cash, given_up>>

\* w turns to the next stage of its entry.
Turns(w, from, to) ==
    /\ OthersWait(w)
    /\ task[w].op = from /\ task'[w].op = to
    /\ task'[w].id = task[w].id /\ task'[w].entry = task[w].entry
    /\ UNCHANGED given_up

\* w is done.
Ends(w, from) ==
    /\ OthersWait(w)
    /\ task[w].op = from /\ task'[w].op = "idle"

Inserts(w) ==
    /\ entries' = entries \cup {task[w].entry}
    /\ \/ task[w].entry.auto /\ Turns(w, "create", "posting")
       \/ ~ task[w].entry.auto /\ Ends(w, "create") /\ UNCHANGED given_up
    /\ UNCHANGED cash

Posts(w) ==
    /\ entries' = {IF x.id = task[w].entry.id THEN [x EXCEPT !.posted = TRUE] ELSE x :
                     x \in entries}
    /\ Ends(w, "post")
    /\ UNCHANGED <<cash, given_up>>

Finds(w) == Turns(w, "auto", "create") /\ UNCHANGED <<entries, cash>>

Rereads(w) ==
    /\ \/ Turns(w, "posting", "post")
       \/ /\ Ends(w, "posting") /\ UNCHANGED given_up
          /\ \A e \in entries : e.id = task[w].entry.id => e.posted
    /\ UNCHANGED <<entries, cash>>

Banks(w) ==
    /\ cash' = cash \cup {task[w].id}
    /\ Turns(w, "cash", "auto")
    /\ UNCHANGED entries

Stops(w) ==
    /\ given_up' = given_up \cup {task[w].id}
    /\ OthersWait(w) /\ task'[w].op = "idle"
    /\ UNCHANGED <<entries, cash>>

LEMMA IdleOp == Idle.op = "idle" /\ "idle" \notin Entering
  BY DEF Idle, Entering

LEMMA BeginningSteps ==
    ASSUME FinanceTypeOK, NEW w \in Workers,
           \/ TransactionEndpoints(w) \/ CashEndpoints(w)
           \/ \E d \in Codes, c \in Codes : AutoTransaction(w, d, c)
    PROVE  Begins(w)
  <1>1. ASSUME NEW e \in Entry, NEW op \in {"create", "cash", "auto"},
               e.id = served + 1, ~ e.posted, op \in {"cash", "auto"} => e.auto,
               Start(w, [op |-> op, id |-> served + 1, entry |-> e]),
               UNCHANGED <<books, given_up>>
        PROVE  Begins(w)
    <2> DEFINE t == [op |-> op, id |-> served + 1, entry |-> e]
    <2>1. Start(w, t) /\ served + 1 \in Requests
      BY <1>1, HandlersAssumption DEF Start, FinanceTypeOK, Requests
    <2>2. t \in BookTask
      BY <2>1, EntryTasksAreTasks DEF EntryTask, Entering
    <2>3. t.op = op /\ t.id = served + 1 /\ t.entry = e
      OBVIOUS
    <2> HIDE DEF t
    <2>4. task[w].op = "idle" /\ task'[w] = t /\ OthersWait(w)
      BY <2>1, <2>2, StartSteps DEF OthersWait
    <2> QED  BY <1>1, <2>3, <2>4, IdleOp DEF Begins, books
  <1>2. ASSUME NEW m \in Months, NEW d \in Codes, NEW c \in Codes, CreateTransaction(w, m, d, c)
        PROVE  Begins(w)
    <2> DEFINE e == Draft(m, d, c, FALSE)
    <2>1. /\ Start(w, [op |-> "create", id |-> served + 1, entry |-> e])
          /\ UNCHANGED <<books, given_up>>
      BY <1>2 DEF CreateTransaction
    <2>2. e \in Entry /\ e.id = served + 1 /\ ~ e.posted
      BY <2>1, DraftTyped DEF Start
    <2> HIDE DEF e
    <2> QED  BY <1>1, <2>1, <2>2
  <1>3. ASSUME NEW d \in Codes, NEW c \in Codes, NEW op \in {"cash", "auto"},
               Start(w, [op |-> op, id |-> served + 1, entry |-> Draft(Today, d, c, TRUE)]),
               UNCHANGED <<books, given_up>>
        PROVE  Begins(w)
    <2> DEFINE e == Draft(Today, d, c, TRUE)
    <2>1. e \in Entry /\ e.id = served + 1 /\ ~ e.posted /\ e.auto
      <3>1. e \in Entry
        BY <1>3, DraftTyped, FinanceAssumption DEF Start
      <3>2. e.id = served + 1 /\ ~ e.posted /\ e.auto
        BY DEF Draft
      <3> QED  BY <3>1, <3>2
    <2>2. /\ Start(w, [op |-> op, id |-> served + 1, entry |-> e])
          /\ UNCHANGED <<books, given_up>>
      BY <1>3
    <2> HIDE DEF e
    <2> QED  BY <1>1, <2>1, <2>2
  <1>4. ASSUME NEW c \in Codes, NEW deposit \in BOOLEAN, CreateCashOperation(w, c, deposit)
        PROVE  Begins(w)
    <2> DEFINE other == IF c = Cash THEN Other ELSE c
    <2>1. Cash \in Codes /\ other \in Codes
      BY FinanceAssumption
    <2>2. \/ Start(w, [op |-> "cash", id |-> served + 1, entry |-> Draft(Today, Cash, other, TRUE)])
          \/ Start(w, [op |-> "cash", id |-> served + 1, entry |-> Draft(Today, other, Cash, TRUE)])
      BY <1>4 DEF CreateCashOperation
    <2>3. UNCHANGED <<books, given_up>>
      BY <1>4 DEF CreateCashOperation
    <2> HIDE DEF other
    <2> QED  BY <1>3, <2>1, <2>2, <2>3
  <1>5. ASSUME NEW e \in entries, PostTransaction(w, e) PROVE Begins(w)
    <2> DEFINE t == [op |-> "post", id |-> served + 1, entry |-> e]
    <2>1. served + 1 \in Requests /\ e \in Entry
      BY <1>5, HandlersAssumption DEF PostTransaction, FinanceTypeOK, Start, Requests
    <2>2. t \in BookTask /\ t.op = "post"
      BY <2>1, EntryTasksAreTasks DEF EntryTask, Entering
    <2>3. Start(w, t) /\ UNCHANGED <<books, overtaken, given_up>>
      BY <1>5 DEF PostTransaction
    <2> HIDE DEF t
    <2> QED  BY <2>2, <2>3, StartSteps, IdleOp DEF Begins, OthersWait, books
  <1>6. ASSUME NEW d \in Codes, NEW c \in Codes, AutoTransaction(w, d, c) PROVE Begins(w)
    BY <1>3, <1>6 DEF AutoTransaction, books
  <1> QED  BY <1>2, <1>4, <1>5, <1>6 DEF TransactionEndpoints, CashEndpoints

LEMMA ElsewhereSteps ==
    ASSUME FinanceTypeOK, NEW w \in Workers,
           \/ AccountEndpoints(w) \/ InvoiceEndpoints(w) \/ PeriodEndpoints(w)
           \/ UpsertPeriod(w) \/ RemoveAccount(w) \/ UpdateInvoice(w)
    PROVE  Elsewhere(w)
  <1>1. ASSUME NEW code \in Codes, CreateAccount(w, code) PROVE Elsewhere(w)
    BY <1>1 DEF CreateAccount, Serve, Elsewhere, OthersWait, Entering
  <1>2. ASSUME NEW t, t.op \notin Entering, Start(w, t), UNCHANGED <<books, given_up>>
        PROVE  Elsewhere(w)
    BY <1>2 DEF Start, FinanceTypeOK, Elsewhere, OthersWait, Entering, books
  <1>3. ASSUME AccountEndpoints(w) \/ InvoiceEndpoints(w) \/ PeriodEndpoints(w)
        PROVE  Elsewhere(w)
    <2>1. ASSUME NEW m \in Months, ClosePeriod(w, m) PROVE Elsewhere(w)
      BY <1>2, <2>1 DEF ClosePeriod, books, Entering
    <2>2. ASSUME NEW m \in Months, ReopenPeriod(w, m) PROVE Elsewhere(w)
      BY <1>2, <2>2 DEF ReopenPeriod, books, Entering
    <2>3. ASSUME NEW code \in Codes, DeleteAccount(w, code) PROVE Elsewhere(w)
      BY <1>2, <2>3 DEF DeleteAccount, books, Entering
    <2>4. ASSUME NEW i \in Invoices, MarkInvoicePaid(w, i) PROVE Elsewhere(w)
      BY <1>2, <2>4 DEF MarkInvoicePaid, books, Entering
    <2> QED  BY <1>1, <1>3, <2>1, <2>2, <2>3, <2>4
             DEF AccountEndpoints, InvoiceEndpoints, PeriodEndpoints
  <1>4. CASE UpsertPeriod(w) \/ RemoveAccount(w) \/ UpdateInvoice(w)
    <2>1. task[w].op \notin Entering /\ Finish(w)
      BY <1>4 DEF UpsertPeriod, RemoveAccount, UpdateInvoice, At, Entering
    <2>2. UNCHANGED <<entries, cash, given_up>>
      BY <1>4 DEF UpsertPeriod, RemoveAccount, UpdateInvoice
    <2> QED  BY <2>1, <2>2, FinishSteps, IdleOp DEF Elsewhere, OthersWait
  <1> QED  BY <1>3, <1>4

LEMMA EntrySteps ==
    ASSUME FinanceTypeOK, NEW w \in Workers
    PROVE  /\ InsertTransaction(w) => Inserts(w)
           /\ UpdateTransaction(w) => Posts(w)
           /\ FindAccounts(w) => Finds(w)
           /\ ReadCreated(w) => Rereads(w)
           /\ InsertCashOperation(w) => Banks(w)
           /\ GiveUp(w) => Stops(w)
  <1>1. ASSUME NEW from \in Entering, NEW to \in Entering, At(w, from),
               Continue(w, [task[w] EXCEPT !.op = to]), UNCHANGED given_up
        PROVE  Turns(w, from, to)
    <2> DEFINE t == [task[w] EXCEPT !.op = to]
    <2>1. task[w] \in BookTask /\ task[w].op = from /\ Continue(w, t)
      BY <1>1 DEF FinanceTypeOK, At
    <2>2. t \in BookTask /\ t.op = to /\ t.id = task[w].id /\ t.entry = task[w].entry
      BY <2>1, NextStage
    <2> HIDE DEF t
    <2> QED  BY <1>1, <2>1, <2>2, ContinueSteps DEF Turns, OthersWait
  <1>2. ASSUME NEW from \in Entering, At(w, from), Finish(w) PROVE Ends(w, from)
    BY <1>2, FinishSteps, IdleOp DEF Ends, OthersWait, At
  <1>3. InsertTransaction(w) => Inserts(w)
    BY <1>1, <1>2 DEF InsertTransaction, Inserts, Entering
  <1>4. UpdateTransaction(w) => Posts(w)
    BY <1>2 DEF UpdateTransaction, Posts, Entering
  <1>5. FindAccounts(w) => Finds(w)
    BY <1>1 DEF FindAccounts, Finds, Entering, books
  <1>6. ReadCreated(w) => Rereads(w)
    BY <1>1, <1>2 DEF ReadCreated, Rereads, Entering, books
  <1>7. InsertCashOperation(w) => Banks(w)
    BY <1>1 DEF InsertCashOperation, Banks, Entering
  <1>8. GiveUp(w) => Stops(w)
    BY FinishSteps, IdleOp DEF GiveUp, Stops, OthersWait, books
  <1> QED  BY <1>3, <1>4, <1>5, <1>6, <1>7, <1>8

LEMMA StepsOfFinance ==
    ASSUME FinanceTypeOK, FinanceNext
    PROVE  \E w \in Workers :
              \/ Elsewhere(w) \/ Begins(w) \/ Inserts(w) \/ Posts(w) \/ Finds(w)
              \/ Rereads(w) \/ Banks(w) \/ Stops(w)
  BY BeginningSteps, ElsewhereSteps, EntrySteps DEF FinanceNext, Bookkeeping

-----------------------------------------------------------------------------
(* The invariants *)

LEMMA DraftsKept ==
    ASSUME FinanceTypeOK, FinanceNext, Drafts
    PROVE  Drafts'
  <1>1. PICK w \in Workers :
           \/ Elsewhere(w) \/ Begins(w) \/ Inserts(w) \/ Posts(w) \/ Finds(w)
           \/ Rereads(w) \/ Banks(w) \/ Stops(w)
    BY StepsOfFinance
  <1>2. OthersWait(w)
    BY <1>1 DEF Elsewhere, Begins, Inserts, Posts, Finds, Rereads, Banks, Stops, Turns, Ends
  <1>3. task'[w].op \in {"create", "posting", "cash", "auto"}
           => /\ task'[w].entry.id = task'[w].id
              /\ task'[w].op \in {"create", "cash", "auto"} => ~ task'[w].entry.posted
              /\ task'[w].op \in {"cash", "auto"} => task'[w].entry.auto
    <2>1. CASE Elsewhere(w) \/ Begins(w)
      BY <2>1 DEF Elsewhere, Begins, Entering
    <2>2. CASE Inserts(w) \/ Posts(w) \/ Rereads(w) \/ Stops(w)
      BY <2>2 DEF Inserts, Posts, Rereads, Stops, Turns, Ends, Drafts
    <2>3. CASE Finds(w) \/ Banks(w)
      BY <2>3 DEF Finds, Banks, Turns, Drafts
    <2> QED  BY <1>1, <2>1, <2>2, <2>3
  <1> QED  BY <1>2, <1>3 DEF Drafts, OthersWait

\* Other handlers keep their promises.
LEMMA OthersPost ==
    ASSUME NEW w \in Workers, NEW v \in Workers, v # w, OthersWait(w), NEW n, Posting(v, n)
    PROVE  Posting(v, n)'
  BY DEF OthersWait, Posting

LEMMA AutoKept ==
    ASSUME FinanceTypeOK, FinanceNext, Drafts, AutoInv
    PROVE  AutoInv'
  <1> SUFFICES ASSUME NEW e \in entries', e.auto, ~ e.posted
               PROVE  e.id \in given_up' \/ \E w \in Workers : Posting(w, e.id)'
    BY DEF AutoInv
  <1>1. PICK w \in Workers :
           \/ Elsewhere(w) \/ Begins(w) \/ Inserts(w) \/ Posts(w) \/ Finds(w)
           \/ Rereads(w) \/ Banks(w) \/ Stops(w)
    BY StepsOfFinance
  <1>2. OthersWait(w) /\ given_up \subseteq given_up'
    BY <1>1 DEF Elsewhere, Begins, Inserts, Posts, Finds, Rereads, Banks, Stops, Turns, Ends
  \* Who posts an entry that is there goes on, unless it is w.
  <1>3. ASSUME e \in entries, ~ Posting(w, e.id) \/ Posting(w, e.id)' \/ e.id \in given_up'
        PROVE  e.id \in given_up' \/ \E v \in Workers : Posting(v, e.id)'
    <2>1. e.id \in given_up \/ \E v \in Workers : Posting(v, e.id)
      BY <1>3 DEF AutoInv
    <2> QED  BY <1>2, <1>3, <2>1, OthersPost
  <1>4. CASE Elsewhere(w) \/ Begins(w) \/ Finds(w) \/ Banks(w)
    <2>1. e \in entries /\ ~ Posting(w, e.id)
      BY <1>4 DEF Elsewhere, Begins, Finds, Banks, Turns, Posting, Entering
    <2> QED  BY <1>3, <2>1
  <1>5. CASE Inserts(w)
    <2>1. CASE e \in entries
      <3>1. ~ Posting(w, e.id)
        BY <1>5 DEF Inserts, Turns, Ends, Posting
      <3> QED  BY <1>3, <2>1, <3>1
    <2>2. CASE e = task[w].entry
      BY <1>5, <2>2 DEF Inserts, Turns, Drafts, Posting
    <2> QED  BY <1>5, <2>1, <2>2 DEF Inserts
  <1>6. CASE Posts(w)
    <2>1. e \in entries /\ e.id # task[w].entry.id
      BY <1>6 DEF Posts, FinanceTypeOK, Entry
    <2> QED  BY <1>3, <2>1 DEF Posting
  <1>7. CASE Rereads(w)
    <2>1. e \in entries
      BY <1>7 DEF Rereads
    <2>2. ~ Posting(w, e.id) \/ Posting(w, e.id)'
      BY <1>7, <2>1 DEF Rereads, Turns, Posting
    <2> QED  BY <1>3, <2>1, <2>2
  <1>8. CASE Stops(w)
    <2>1. e \in entries /\ (~ Posting(w, e.id) \/ e.id \in given_up')
      BY <1>8 DEF Stops, Posting
    <2> QED  BY <1>3, <2>1
  <1> QED  BY <1>1, <1>4, <1>5, <1>6, <1>7, <1>8

\* Entries are never removed and stay automatic and posted.
LEMMA InsertedStays ==
    ASSUME FinanceTypeOK, FinanceNext, NEW n
    PROVE  /\ Inserted(n) => Inserted(n)'
           /\ (\E e \in entries : e.id = n /\ e.auto /\ e.posted)
                => \E e \in entries' : e.id = n /\ e.auto /\ e.posted
  <1>1. PICK w \in Workers :
           \/ Elsewhere(w) \/ Begins(w) \/ Inserts(w) \/ Posts(w) \/ Finds(w)
           \/ Rereads(w) \/ Banks(w) \/ Stops(w)
    BY StepsOfFinance
  <1>2. entries \subseteq entries' \/ Posts(w)
    BY <1>1 DEF Elsewhere, Begins, Inserts, Finds, Rereads, Banks, Stops
  <1>3. CASE Posts(w)
    <2>1. ASSUME NEW e \in entries
          PROVE  \E x \in entries' : x.id = e.id /\ x.auto = e.auto /\ (e.posted => x.posted)
      <3>1. CASE e.id = task[w].entry.id
        <4>1. [e EXCEPT !.posted = TRUE] \in entries'
          BY <1>3, <3>1 DEF Posts
        <4> QED  BY <4>1 DEF FinanceTypeOK, Entry
      <3>2. CASE e.id # task[w].entry.id
        <4>1. e \in entries'
          BY <1>3, <3>2 DEF Posts
        <4> QED  BY <4>1
      <3> QED  BY <3>1, <3>2
    <2> QED  BY <2>1 DEF Inserted
  <1> QED  BY <1>2, <1>3 DEF Inserted

LEMMA OthersMake ==
    ASSUME FinanceTypeOK, FinanceNext, NEW w \in Workers, NEW v \in Workers, v # w,
           OthersWait(w), NEW n, Making(v, n)
    PROVE  Making(v, n)'
  BY InsertedStays DEF OthersWait, Making

LEMMA CashKept ==
    ASSUME FinanceTypeOK, FinanceNext, Drafts, CashInv
    PROVE  CashInv'
  <1> DEFINE Booked(n) == \E e \in entries : e.id = n /\ e.auto /\ e.posted
  <1> SUFFICES ASSUME NEW n \in cash'
               PROVE  Booked(n)' \/ (\E v \in Workers : Making(v, n)') \/ n \in given_up'
    BY DEF CashInv
  <1>1. PICK w \in Workers :
           \/ Elsewhere(w) \/ Begins(w) \/ Inserts(w) \/ Posts(w) \/ Finds(w)
           \/ Rereads(w) \/ Banks(w) \/ Stops(w)
    BY StepsOfFinance
  <1>2. OthersWait(w) /\ given_up \subseteq given_up'
    BY <1>1 DEF Elsewhere, Begins, Inserts, Posts, Finds, Rereads, Banks, Stops, Turns, Ends
  \* Whoever makes the entry goes on, unless it is w.
  <1>3. ASSUME n \in cash, Making(w, n) => Booked(n)' \/ Making(w, n)' \/ n \in given_up'
        PROVE  Booked(n)' \/ (\E v \in Workers : Making(v, n)') \/ n \in given_up'
    <2>1. Booked(n) \/ (\E v \in Workers : Making(v, n)) \/ n \in given_up
      BY <1>3 DEF CashInv
    <2>2. Booked(n) => Booked(n)'
      BY InsertedStays
    <2> HIDE DEF Booked
    <2> QED  BY <1>2, <1>3, <2>1, <2>2, OthersMake
  <1>4. CASE Elsewhere(w) \/ Begins(w)
    <2>1. n \in cash /\ ~ Making(w, n)
      BY <1>4 DEF Elsewhere, Begins, Making, Entering
    <2> QED  BY <1>3, <2>1
  <1>5. CASE Inserts(w)
    <2>1. Making(w, n) => Making(w, n)'
      BY <1>5 DEF Inserts, Turns, Ends, Making, Inserted
    <2> QED  BY <1>3, <1>5, <2>1 DEF Inserts
  <1>6. CASE Posts(w)
    <2>1. ASSUME Making(w, n) PROVE Booked(n)'
      <3>1. PICK e \in entries : e.id = n /\ e.auto
        BY <1>6, <2>1 DEF Posts, Ends, Making, Inserted
      <3>2. [e EXCEPT !.posted = TRUE] \in entries'
        BY <1>6, <2>1, <3>1 DEF Posts, Making
      <3> QED  BY <3>1, <3>2 DEF FinanceTypeOK, Entry
    <2> QED  BY <1>3, <1>6, <2>1 DEF Posts
  <1>7. CASE Finds(w)
    <2>1. Making(w, n) => Making(w, n)'
      BY <1>7 DEF Finds, Turns, Making
    <2> QED  BY <1>3, <1>7, <2>1 DEF Finds
  <1>8. CASE Rereads(w)
    <2>1. Making(w, n) => Booked(n)' \/ Making(w, n)'
      BY <1>8 DEF Rereads, Turns, Ends, Making, Inserted
    <2> QED  BY <1>3, <1>8, <2>1 DEF Rereads
  <1>9. CASE Banks(w)
    <2>1. CASE n \in cash
      BY <1>3, <1>9, <2>1 DEF Banks, Turns, Making
    <2>2. CASE n = task[w].id
      BY <1>9, <2>2 DEF Banks, Turns, Drafts, Making
    <2> QED  BY <1>9, <2>1, <2>2 DEF Banks
  <1>10. CASE Stops(w)
    BY <1>3, <1>10 DEF Stops, Making
  <1> QED  BY <1>1, <1>4, <1>5, <1>6, <1>7, <1>8, <1>9, <1>10

\* A handler that asks about a month and is told that it is open, though it
\* is closed, is overtaken.
LEMMA Asking ==
    ASSUME FinanceTypeOK, AskedInv, NEW w \in Workers, OthersWait(w), UNCHANGED periods,
           NEW m, IsPeriodOpen(w, m), task'[w].op = "create" => task'[w].entry.month = m
    PROVE  AskedInv'
  BY OvertakenTyped DEF AskedInv, OthersWait

LEMMA AskedKept ==
    ASSUME FinanceTypeOK, FinanceNext, AskedInv
    PROVE  AskedInv'
  <1>1. PICK w \in Workers :
           \/ AccountEndpoints(w) \/ TransactionEndpoints(w) \/ InvoiceEndpoints(w)
           \/ PeriodEndpoints(w) \/ CashEndpoints(w)
           \/ \E d \in Codes, c \in Codes : AutoTransaction(w, d, c)
           \/ Bookkeeping(w)
           \/ GiveUp(w)
    BY DEF FinanceNext
  <1>2. ASSUME NEW m \in Months, NEW d \in Codes, NEW c \in Codes, CreateTransaction(w, m, d, c)
        PROVE  AskedInv'
    <2>1. /\ IsPeriodOpen(w, m) /\ UNCHANGED periods
          /\ task' = [task EXCEPT ![w] = [op |-> "create", id |-> served + 1,
                                          entry |-> Draft(m, d, c, FALSE)]]
      BY <1>2 DEF CreateTransaction, Start, books
    <2>2. task'[w].entry.month = m /\ OthersWait(w)
      BY <2>1 DEF OthersWait, FinanceTypeOK, Draft
    <2> QED  BY <2>1, <2>2, Asking
  <1>3. ASSUME NEW c \in Codes, NEW deposit \in BOOLEAN, CreateCashOperation(w, c, deposit)
        PROVE  AskedInv'
    <2>1. Begins(w) /\ IsPeriodOpen(w, Today) /\ UNCHANGED periods
      BY <1>3, BeginningSteps DEF CashEndpoints, CreateCashOperation, books
    <2>2. task'[w].op = "cash"
      BY <1>3 DEF CreateCashOperation, Start, FinanceTypeOK
    <2> QED  BY <2>1, <2>2, Asking DEF Begins
  <1>4. CASE FindAccounts(w)
    <2>1. /\ IsPeriodOpen(w, task[w].entry.month) /\ UNCHANGED periods
          /\ task'[w].entry = task[w].entry /\ OthersWait(w)
      BY <1>4, EntrySteps DEF FindAccounts, Finds, Turns, books
    <2> QED  BY <2>1, Asking
  <1>5. CASE UpsertPeriod(w)
    <2>1. Finish(w) /\ overtaken \subseteq overtaken' /\ task[w].month \in Months
      BY <1>5, TaskShapes DEF UpsertPeriod, FinanceTypeOK
    <2>2. task'[w].op # "create" /\ OthersWait(w)
      BY <2>1, FinishSteps, IdleOp DEF OthersWait
    <2>3. ASSUME NEW v \in Workers, v # w, task[v].op = "create",
                 periods'[task[v].entry.month] = "closed"
          PROVE  v \in overtaken'
      <3>1. CASE task[v].entry.month = task[w].month
        BY <1>5, <2>1, <2>3, <3>1 DEF UpsertPeriod, FinanceTypeOK
      <3>2. CASE task[v].entry.month # task[w].month
        <4>1. periods[task[v].entry.month] = "closed"
          <5>1. task[v].entry.month \in Months
            BY <2>3, TaskShapes DEF FinanceTypeOK, Entering, EntryTask, Entry
          <5> QED  BY <1>5, <2>3, <3>2, <5>1 DEF UpsertPeriod, FinanceTypeOK
        <4> QED  BY <2>1, <2>3, <4>1 DEF AskedInv
      <3> QED  BY <3>1, <3>2
    <2> QED  BY <2>2, <2>3 DEF AskedInv, OthersWait
  <1>6. ASSUME UNCHANGED <<periods, overtaken>>, OthersWait(w),
               task'[w].op = "create" => task'[w] = task[w]
        PROVE  AskedInv'
    BY <1>6 DEF AskedInv, OthersWait
  <1>7. CASE \/ AccountEndpoints(w) \/ InvoiceEndpoints(w) \/ PeriodEndpoints(w)
             \/ RemoveAccount(w) \/ UpdateInvoice(w)
    <2>1. Elsewhere(w)
      BY <1>7, ElsewhereSteps
    <2>2. UNCHANGED <<periods, overtaken>>
      BY <1>7 DEF AccountEndpoints, InvoiceEndpoints, PeriodEndpoints, CreateAccount, DeleteAccount,
         MarkInvoicePaid, ClosePeriod, ReopenPeriod, RemoveAccount, UpdateInvoice, books
    <2> QED  BY <1>6, <2>1, <2>2 DEF Elsewhere, Entering
  <1>8. ASSUME NEW e \in entries, PostTransaction(w, e) PROVE AskedInv'
    <2>1. Begins(w) /\ task'[w].op = "post" /\ UNCHANGED <<periods, overtaken>>
      BY <1>8, BeginningSteps DEF TransactionEndpoints, PostTransaction, Start, FinanceTypeOK, books
    <2> QED  BY <1>6, <2>1 DEF Begins
  <1>9. ASSUME NEW d \in Codes, NEW c \in Codes, AutoTransaction(w, d, c) PROVE AskedInv'
    <2>1. Begins(w) /\ task'[w].op = "auto" /\ UNCHANGED <<periods, overtaken>>
      BY <1>9, BeginningSteps DEF AutoTransaction, Start, FinanceTypeOK, books
    <2> QED  BY <1>6, <2>1 DEF Begins
  <1>10. CASE \/ InsertTransaction(w) \/ UpdateTransaction(w) \/ ReadCreated(w)
              \/ InsertCashOperation(w) \/ GiveUp(w)
    <2>1. UNCHANGED <<periods, overtaken>>
      BY <1>10 DEF InsertTransaction, UpdateTransaction, ReadCreated, InsertCashOperation, GiveUp, books
    <2>2. OthersWait(w) /\ task'[w].op # "create"
      BY <1>10, EntrySteps DEF Inserts, Posts, Rereads, Banks, Stops, Turns, Ends
    <2> QED  BY <1>6, <2>1, <2>2
  <1> QED  BY <1>1, <1>2, <1>3, <1>4, <1>5, <1>7, <1>8, <1>9, <1>10
           DEF TransactionEndpoints, CashEndpoints, Bookkeeping

LEMMA FinanceInvInit == FinanceInit => FinanceInv
  BY TypeInit DEF FinanceInit, InitWork, Idle, FinanceInv, Drafts, AutoInv, CashInv, AskedInv

LEMMA FinanceInvKept == FinanceInv /\ [FinanceNext]_financeVars => FinanceInv'
  <1>1. CASE FinanceInv /\ FinanceNext
    <2>1. FinanceTypeOK'
      BY <1>1, JournalKeepsTypes, AutoKeepsTypes, PeriodsKeepTypes, AccountsKeepTypes,
         InvoicesKeepTypes, GivingUpKeepsTypes DEF FinanceNext, Bookkeeping, FinanceInv
    <2> QED  BY <1>1, <2>1, DraftsKept, AutoKept, CashKept, AskedKept DEF FinanceInv
  <1>2. CASE FinanceInv /\ UNCHANGED financeVars
    BY <1>2 DEF FinanceInv, FinanceTypeOK, Drafts, AutoInv, Posting, CashInv, Making, Inserted,
       AskedInv, financeVars, work, books
  <1> QED  BY <1>1, <1>2

\* The inductive invariant of the bookkeeping.
THEOREM FinanceInvariance == FinanceSpec => []FinanceInv
  BY FinanceInvInit, FinanceInvKept, PTL DEF FinanceSpec

\* An automatic entry (CreateAutoTransaction, service.go:317) is posted unless
\* its own request is at it or failed.
THEOREM AutoEntriesPosted == FinanceSpec => []AutoEntriesArePosted
  <1>1. FinanceInv => AutoEntriesArePosted
    BY DEF FinanceInv, AutoInv, Posting, AutoEntriesArePosted
  <1> QED  BY <1>1, FinanceInvariance, PTL

\* A cash operation (CreateCashOperation, service.go:492) is booked unless its
\* request is at it or failed.
THEOREM CashBooked == FinanceSpec => []CashIsBooked
  <1>1. FinanceInv => CashIsBooked
    BY DEF FinanceInv, CashInv, Making, CashIsBooked
  <1> QED  BY <1>1, FinanceInvariance, PTL

\* No entry appears in a closed month but from a handler that asked before it
\* was closed or could not ask (CreateTransaction, service.go:120).
THEOREM ClosedMonthsShut == FinanceSpec => ClosedMonthsStayShut
  <1>1. ASSUME FinanceInv, FinanceNext, NEW e \in entries',
               \A x \in entries : x.id # e.id, periods[e.month] = "closed"
        PROVE  \E w \in overtaken : At(w, "create") /\ task[w].entry = e
    <2>1. PICK w \in Workers :
             \/ Elsewhere(w) \/ Begins(w) \/ Inserts(w) \/ Posts(w) \/ Finds(w)
             \/ Rereads(w) \/ Banks(w) \/ Stops(w)
      BY <1>1, StepsOfFinance DEF FinanceInv
    <2>2. ~ Posts(w)
      BY <1>1 DEF Posts, FinanceInv, FinanceTypeOK, Entry
    <2>3. Inserts(w) /\ e = task[w].entry /\ task[w].op = "create"
      BY <1>1, <2>1, <2>2 DEF Elsewhere, Begins, Inserts, Finds, Rereads, Banks, Stops, Turns, Ends
    <2> QED  BY <1>1, <2>3 DEF FinanceInv, AskedInv, At
  <1>2. FinanceInv /\ [FinanceNext]_financeVars
          => [\A e \in entries' :
                (\A x \in entries : x.id # e.id) /\ periods[e.month] = "closed"
                   => \E w \in overtaken : At(w, "create") /\ task[w].entry = e]_financeVars
    BY <1>1
  <1> QED  BY <1>2, FinanceInvariance, PTL DEF FinanceSpec, ClosedMonthsStayShut

=============================================================================
