----------------------------- MODULE LiveViews -----------------------------
(***************************************************************************)
(* The live views.  A graph is a query over some tables; it declares the   *)
(* columns it depends on.  The goroutine of an event turns the event into  *)
(* changes of columns, and the sync engine, which is a library, runs every *)
(* graph again that depends on one of them.  A write whose event is        *)
(* missing, or says something else, leaves the view as it was.             *)
(***************************************************************************)
EXTENDS Records

CONSTANT LiveRequests  \* bound on the operations in one behaviour

Columns(table, columns) == {table} \X columns

Graph(reads, deps) == [reads |-> reads, deps |-> deps]

-----------------------------------------------------------------------------
(* The graphs: the tables its query reads, the columns it depends on *)

EntityData == Columns("entities", {"name", "status"}) \cup Columns("components", {"data"})
EntityName == Columns("entities", {"name"})

catalogProductsList == Graph({"entities", "components"}, EntityData)
catalogProductDetail ==
    Graph({"entities", "components", "stock_levels"},
          EntityData \cup Columns("stock_levels", {"quantity", "reserved"}))
catalogCategoriesTree ==
    Graph({"entities"}, Columns("entities", {"name", "parent_id", "sort_order"}))

crmCustomersList == Graph({"entities", "components"}, EntityData)
crmCustomerDetail ==
    Graph({"entities", "components", "orders"}, EntityData \cup Columns("orders", {"status", "total"}))
crmSuppliersList == Graph({"entities", "components"}, EntityData)

warehouseStockList ==
    Graph({"stock_levels", "entities", "components"},
          Columns("stock_levels", {"quantity", "reserved", "updated_at"})
          \cup Columns("entities", {"name", "status"}))
warehouseStockDetail ==
    Graph({"stock_levels", "stock_movements", "entities"},
          Columns("stock_levels", {"quantity", "reserved", "updated_at"}) \cup EntityName
          \cup Columns("stock_movements", {"quantity", "type", "created_at"}))
warehouseInventoryDetail ==
    Graph({"stock_levels", "entities"},
          Columns("stock_levels", {"quantity", "reserved"}) \cup EntityName)
warehouseLowStock ==
    Graph({"stock_levels", "entities"},
          Columns("stock_levels", {"quantity", "reserved", "min_quantity"}) \cup EntityName)

ordersList ==
    Graph({"orders", "entities"}, Columns("orders", {"status", "total", "updated_at"}) \cup EntityName)
orderDetail ==
    Graph({"orders", "order_items", "entities"},
          Columns("orders", {"status", "total", "updated_at"}) \cup EntityName
          \cup Columns("order_items", {"quantity", "unit_price", "total"}))
orderRefundsList ==
    Graph({"orders", "entities"}, Columns("orders", {"status", "total", "refunded_at"}))
ordersDashboard == Graph({"orders"}, Columns("orders", {"status", "total", "created_at"}))
dashboardSummary ==
    Graph({"orders", "stock_levels", "timesheets"},
          Columns("orders", {"status", "total", "created_at"})
          \cup Columns("stock_levels", {"quantity", "min_quantity"})
          \cup Columns("entities", {"status"}))

hrEmployeesList == Graph({"entities", "components"}, EntityData)
hrEmployeeDetail ==
    Graph({"entities", "components"},
          EntityData \cup Columns("shifts", {"start_time", "end_time", "status"}))
hrShiftsSchedule ==
    Graph({"shifts", "entities"}, Columns("shifts", {"start_time", "end_time", "status"}) \cup EntityName)
hrTimesheetsList ==
    Graph({"timesheets", "entities"},
          Columns("timesheets", {"clock_in", "clock_out", "status"}) \cup EntityName)
hrPayrollList ==
    Graph({"payrolls", "entities"},
          Columns("payrolls", {"status", "net_salary", "gross_salary"}) \cup EntityName)
hrAbsencesList ==
    Graph({"absences", "entities"},
          Columns("absences", {"type", "status", "start_date", "end_date"}) \cup EntityName)

financeTrialBalance ==
    Graph({"transactions", "accounts", "transaction_lines"},
          Columns("accounts", {"code", "name", "type"}) \cup Columns("transactions", {"is_posted"}))
financeTransactionsList ==
    Graph({"transactions", "transaction_lines"},
          Columns("transactions", {"date", "description", "is_posted"}))
financeAccountBalance ==
    Graph({"transactions", "accounts", "transaction_lines"},
          Columns("accounts", {"code", "name"}) \cup Columns("transactions", {"is_posted"}))
financePnL ==
    Graph({"transactions", "accounts", "transaction_lines"},
          Columns("accounts", {"code", "name", "type"})
          \cup Columns("transactions", {"is_posted", "date"}))
financePeriodsList ==
    Graph({"finance_periods"}, Columns("finance_periods", {"status", "closed_at"}))
financeCashOperations ==
    Graph({"cash_operations"}, Columns("cash_operations", {"type", "amount", "created_at"}))

logisticsRoutesList ==
    Graph({"routes", "route_stops", "entities"},
          Columns("routes", {"status", "planned_start", "actual_start"}) \cup EntityName)
logisticsRouteDetail ==
    Graph({"routes", "route_stops", "entities"},
          Columns("routes", {"status", "planned_start", "actual_start", "actual_end"})
          \cup Columns("route_stops", {"status", "actual_arrival"}))
logisticsVehiclesMap ==
    Graph({"geo_tracks", "entities"}, Columns("geo_tracks", {"latitude", "longitude"}) \cup EntityName)

bankReconciliationList ==
    Graph({"bank_reconciliations"},
          Columns("bank_reconciliations", {"status", "matched", "unmatched", "iat"}))
bankReconciliationDetail ==
    Graph({"bank_reconciliations", "bank_reconciliation_entries"},
          Columns("bank_reconciliations", {"status", "matched", "unmatched"})
          \cup Columns("bank_reconciliation_entries", {"status", "matched_type"}))

notificationsList == Graph({"notifications"}, Columns("notifications", {"severity", "read", "iat"}))
notificationsUnread == Graph({"notifications"}, Columns("notifications", {"read", "iat"}))

chatConversationsList ==
    Graph({"conversations", "messages", "conversation_members"},
          Columns("conversations", {"name", "last_message_at", "last_message_preview"})
          \cup Columns("messages", {"content", "iat"})
          \cup Columns("conversation_members", {"last_read_message_id"}))
chatMessages ==
    Graph({"messages"}, Columns("messages", {"content", "iat"}) \cup Columns("message_reactions", {"emoji"}))
chatUnreadTotal ==
    Graph({"messages", "conversations", "conversation_members"},
          Columns("conversation_members", {"last_read_message_id"}) \cup Columns("messages", {"iat"}))

organizationSettings ==
    Graph({"organization_settings"},
          Columns("organization_settings", {"currency", "timezone", "features", "requisites"}))

\* Every graph the server registers.  Two graphs with the same tables and
\* columns are one here.
RegisterAll ==
    {catalogProductsList, catalogProductDetail, catalogCategoriesTree, crmCustomersList,
     crmCustomerDetail, crmSuppliersList, warehouseStockList, warehouseStockDetail,
     warehouseInventoryDetail, warehouseLowStock, ordersList, orderDetail, orderRefundsList,
     ordersDashboard, dashboardSummary, hrEmployeesList, hrEmployeeDetail, hrShiftsSchedule,
     hrTimesheetsList, hrPayrollList, hrAbsencesList, financeTrialBalance,
     financeTransactionsList, financeAccountBalance, financePnL, financePeriodsList,
     financeCashOperations, logisticsRoutesList, logisticsRouteDetail, logisticsVehiclesMap,
     bankReconciliationList, bankReconciliationDetail, notificationsList, notificationsUnread,
     chatConversationsList, chatMessages, chatUnreadTotal, organizationSettings}

-----------------------------------------------------------------------------
(* Events and the changes they are turned into *)

\* An event by the parts of its type, and the fields of its data that identify
\* a row; entity_id is also set by the subscriber when the event has an entity.
\* A type may lack a part.
None == "-"
Event(module, noun, verb, ids) == [module |-> module, noun |-> noun, verb |-> verb, ids |-> ids]

NoChanges == {}

EntityChanges(ev) == Columns("entities", {"name", "status", "meta", "updated_at"})

ComponentChanges(ev) ==
    Columns("entities", {"updated_at"}) \cup Columns("components", {"data", "version", "updated_at"})

OrderChanges(ev) ==
    Columns("orders", {"status", "total", "updated_at", "refunded_at"})
    \cup IF ev.noun = "item" /\ "item_id" \in ev.ids
         THEN Columns("order_items", {"quantity", "unit_price", "total"}) ELSE NoChanges

CatalogChanges(ev) ==
    IF ev.noun = "category" THEN Columns("entities", {"name", "parent_id", "sort_order"})
                            ELSE EntityData

\* Mutant of WarehouseChanges: only a movement that is named changes the stock.
WarehouseChangesMoved(ev) ==
    IF ev.noun # "stock" \/ ev.verb \notin {"received", "shipped", "adjusted"} THEN NoChanges
    ELSE Columns("stock_levels", {"quantity", "reserved", "updated_at"})
         \cup Columns("stock_movements", {"quantity", "type", "created_at"})

WarehouseChanges(ev) ==
    IF ev.noun # "stock" THEN NoChanges
    ELSE Columns("stock_levels", {"quantity", "reserved", "updated_at"})
         \cup IF ev.verb \in {"received", "shipped", "adjusted"}
              THEN Columns("stock_movements", {"quantity", "type", "created_at"}) ELSE NoChanges

HRChanges(ev) ==
    CASE ev.noun = "shift" -> Columns("shifts", {"start_time", "end_time", "status"})
      [] ev.noun = "timesheet" -> Columns("timesheets", {"clock_in", "clock_out", "status"})
      [] ev.noun = "payroll" -> Columns("payrolls", {"status", "net_salary", "gross_salary"})
      [] ev.noun = "absence" -> Columns("absences", {"type", "status", "start_date", "end_date"})
      [] OTHER -> EntityData

FinanceChanges(ev) ==
    CASE ev.noun = "account" -> Columns("accounts", {"code", "name", "type"})
      [] ev.noun = "period" -> Columns("finance_periods", {"status", "closed_at"})
      [] ev.noun = "cash" -> Columns("cash_operations", {"type", "amount", "created_at"})
      [] OTHER -> Columns("transactions", {"date", "description", "is_posted"})

LogisticsChanges(ev) ==
    CASE ev.noun = "route" ->
           Columns("routes", {"status", "planned_start", "actual_start"})
           \cup IF ev.verb = "stop" /\ "stop_id" \in ev.ids
                THEN Columns("route_stops", {"status", "actual_arrival"}) ELSE NoChanges
      [] ev.noun = "geo" -> Columns("geo_tracks", {"latitude", "longitude"})
      [] OTHER -> Columns("routes", {"status", "updated_at"})

BankChanges(ev) ==
    CASE ev.noun = "reconciliation" /\ "reconciliation_id" \in ev.ids ->
           Columns("bank_reconciliations", {"status", "matched", "unmatched", "iat"})
           \cup Columns("bank_reconciliation_entries", {"status", "matched_type"})
      [] ev.noun = "payment" -> Columns("orders", {"status", "updated_at"})
      [] ev.noun = "payroll" -> Columns("payrolls", {"status"})
      [] OTHER -> NoChanges

MessengerChanges(ev) ==
    CASE ev.noun = "message" /\ "conversation_id" \in ev.ids ->
           Columns("messages", {"content", "iat"})
           \cup Columns("conversations", {"last_message_at", "last_message_preview"})
           \cup Columns("conversation_members", {"last_read_message_id"})
      [] ev.noun = "reaction" /\ "message_id" \in ev.ids -> Columns("message_reactions", {"emoji"})
      [] ev.noun = "conversation" -> Columns("conversations", {"name", "type", "iat"})
      [] ev.noun \in {"member", "typing"} /\ "conversation_id" \in ev.ids ->
           Columns("conversation_members", {"user_id"})
      [] OTHER -> NoChanges

\* The field without which a module's events say nothing, if there is one.
Needed ==
    [m \in {"entity", "component", "order", "catalog", "warehouse", "hr", "finance", "logistics",
            "crm", "settings"} |->
        CASE m = "settings" -> {"organization_id"}
          [] m = "order" -> {"order_id", "entity_id"}
          [] m = "warehouse" -> {"product_id", "entity_id"}
          [] OTHER -> {"entity_id"}]

EventToChanges(ev) ==
    IF ev.module \in DOMAIN Needed /\ Needed[ev.module] \cap ev.ids = {} THEN NoChanges
    ELSE CASE ev.module = "entity" -> EntityChanges(ev)
           [] ev.module = "component" -> ComponentChanges(ev)
           [] ev.module = "order" -> OrderChanges(ev)
           [] ev.module = "catalog" -> CatalogChanges(ev)
           [] ev.module = "warehouse" -> WarehouseChanges(ev)
           [] ev.module = "hr" -> HRChanges(ev)
           [] ev.module = "finance" -> FinanceChanges(ev)
           [] ev.module = "logistics" -> LogisticsChanges(ev)
           [] ev.module = "crm" -> EntityData
           [] ev.module = "settings" ->
                Columns("organization_settings", {"currency", "timezone", "features", "requisites"})
           [] ev.module = "notification" -> Columns("notifications", {"read", "iat"})
           [] ev.module = "bank" -> BankChanges(ev)
           [] ev.module = "messenger" -> MessengerChanges(ev)
           [] OTHER -> NoChanges

-----------------------------------------------------------------------------
(* The operations: the tables they write and the event they publish *)

\* early: it is announced inside its transaction.  pooled: its write is not
\* part of the transaction that stores its event.
Operation(tables, event) ==
    [tables |-> tables, event |-> event, early |-> FALSE, pooled |-> FALSE]

Early(o) == [o EXCEPT !.early = TRUE]

Pooled(o) == [o EXCEPT !.pooled = TRUE]

Silently(tables) == Operation(tables, Event(None, None, None, {}))

\* The services of the catalog and of customers write through this one and
\* then publish an event of their own.  Update and Delete write on the pool.
EntityOperations ==
    {Operation({"entities", "components"}, Event("entity", "created", None, {"entity_id"})),
     Pooled(Operation({"entities"}, Event("entity", "updated", None, {"entity_id"}))),
     Pooled(Operation({"entities"}, Event("entity", "deleted", None, {"entity_id"}))),
     Operation({"components"}, Event("component", "set", None, {"entity_id"})),
     Operation({"components"}, Event("component", "removed", None, {"entity_id"})),
     Operation({}, Event("catalog", "product", "created", {"entity_id"})),
     Operation({}, Event("crm", "customer", "updated", {"entity_id"}))}

\* An edit of the items or the notes says nothing.
OrderOperations ==
    {Operation({"orders", "order_items"},
               Event("order", "created", None, {"order_id", "entity_id"})),
     Operation({"orders"}, Event("order", "confirmed", None, {"order_id", "entity_id"})),
     Operation({"orders", "order_refunds"}, Event("order", "refunded", None, {"order_id", "entity_id"})),
     Silently({"orders", "order_items"})}

Stock(verb) == Event("warehouse", "stock", verb, {"product_id"})

\* A reservation is announced inside its transaction, and so is every count
\* of a stocktaking that is applied; Adjust announces after its own.
WarehouseOperations ==
    {Operation({"stock_levels", "stock_movements"}, Stock(verb)) :
       verb \in {"received", "shipped", "transferred", "adjusted"}}
    \cup {Early(Operation({"stock_levels"}, Stock(verb))) : verb \in {"reserved", "unreserved"}}
    \cup {Early(Operation({"stock_levels", "stock_movements"}, Stock("adjusted")))}

\* Clocking in and out is called a shift.
HROperations ==
    {Operation({"shifts"}, Event("hr", "shift", "created", {"entity_id"})),
     Operation({"timesheets"}, Event("hr", "shift", "started", {"entity_id"})),
     Operation({"timesheets"}, Event("hr", "timesheet", "approved", {"entity_id"})),
     Operation({"payrolls"}, Event("hr", "payroll", "approved", {"entity_id", "payroll_id"})),
     Operation({"absences"}, Event("hr", "absence", "approved", {"entity_id", "absence_id"})),
     Silently({"shifts"}), Silently({"absences"})}

\* Finance and routes have no entity in their events.
FinanceOperations ==
    {Operation({"transactions", "transaction_lines"},
               Event("finance", "transaction", "created", {"transaction_id"})),
     Operation({"transactions"}, Event("finance", "transaction", "posted", {"transaction_id"})),
     Operation({"finance_periods"}, Event("finance", "period", "closed", {})),
     Operation({"cash_operations"}, Event("finance", "cash", "deposit", {"operation_id"})),
     Silently({"accounts"}), Silently({"finance_periods"})}

LogisticsOperations ==
    {Operation({"routes", "route_stops"}, Event("logistics", "route", "created", {"route_id"})),
     Operation({"route_stops"}, Event("logistics", "stop", "arrived", {"route_id", "stop_id"})),
     Operation({"geo_tracks"}, Event("logistics", "geo", "updated", {"entity_id"}))}

\* Reading a conversation and the rows made by a notification say nothing.
OtherOperations ==
    {Operation({"organization_settings"}, Event("settings", "updated", None, {"organization_id"})),
     Operation({}, Event("notification", "created", None, {"entity_id"})),
     Operation({"bank_reconciliations", "bank_reconciliation_entries"},
               Event("bank", "reconciliation", "completed", {"reconciliation_id"})),
     Operation({}, Event("bank", "payment", "completed", {"order_id"})),
     Operation({"messages", "conversations"},
               Event("messenger", "message", "sent", {"conversation_id", "message_id"})),
     Operation({"message_reactions"},
               Event("messenger", "reaction", "added", {"conversation_id", "message_id"})),
     Operation({"conversations", "conversation_members"},
               Event("messenger", "conversation", "created", {"conversation_id"})),
     Operation({"conversation_members"}, Event("messenger", "member", "added", {"conversation_id"})),
     Silently({"conversation_members"}), Silently({"notifications"})}

Operations ==
    EntityOperations \cup OrderOperations \cup WarehouseOperations \cup HROperations
    \cup FinanceOperations \cup LogisticsOperations \cup OtherOperations

-----------------------------------------------------------------------------
(* The run *)

\* The views on a client's screen, one of every graph: what they do not show
\* yet, and the changes that goroutines are about to tell the engine.
Screen == <<0, 0>>

Views == Rows("views")

Behind == UNION {rows[v].behind : v \in Views}
Pending == UNION {rows[v].pending : v \in Views}

\* Commits of the operation that no view has seen.
Unseen(o, id) ==
    {[view |-> v, table |-> t, by |-> o, id |-> id] : v \in RegisterAll, t \in o.tables}

Missed(o, id) == {m \in Unseen(o, id) : m.table \in m.view.reads}

Commit(o, id) == [rows EXCEPT ![Screen].behind = @ \cup Missed(o, id)]

Announcement(o, id) ==
    [rows EXCEPT ![Screen].pending = @ \cup {[id |-> id, columns |-> EventToChanges(o.event)]}]

Writing(w, op, o) ==
    /\ served < LiveRequests
    /\ Start(w, [op |-> op, id |-> served + 1, row |-> New, operation |-> o])

CommitWrite(w, o) ==
    /\ ~o.early
    /\ Writing(w, "announce", o)
    /\ rows' = Commit(o, served + 1)
    /\ UNCHANGED <<stale, news>>

PublishWrite(w) ==
    /\ At(w, "announce")
    /\ rows' = Announcement(task[w].operation, task[w].id)
    /\ Finish(w)
    /\ UNCHANGED <<stale, news>>

\* The entity service cannot store the event of a write that is made already,
\* and publishes nothing.
LoseEvent(w) ==
    /\ At(w, "announce")
    /\ task[w].operation.pooled
    /\ stale' = stale \cup {task[w].row}
    /\ Finish(w)
    /\ UNCHANGED <<rows, news>>

\* Reserve, Unreserve and ApplyInventory publish, then their transaction
\* commits or not.
PublishFirst(w, o) ==
    /\ o.early
    /\ Writing(w, "commit", o)
    /\ rows' = Announcement(o, served + 1)
    /\ UNCHANGED <<stale, news>>

CommitLast(w) ==
    /\ At(w, "commit")
    /\ \/ /\ rows' = Commit(task[w].operation, task[w].id)
          /\ stale' = IF \E p \in Pending : p.id = task[w].id
                      THEN stale ELSE stale \cup {task[w].row}
       \/ UNCHANGED <<rows, stale>>  \* rolled back
    /\ Finish(w)
    /\ UNCHANGED news

\* The engine runs the graphs again that depend on a changed column.
Notify(p) ==
    /\ rows' = [rows EXCEPT ![Screen].pending = @ \ {p},
                            ![Screen].behind = {m \in @ : m.view.deps \cap p.columns = {}}]
    /\ UNCHANGED <<work, stale, news>>

LiveRows == [r \in {Screen} |-> [kind |-> "views", behind |-> {}, pending |-> {}]]

LiveNext ==
    \/ \E p \in Pending : Notify(p)
    \/ \E w \in Workers :
          \/ \E o \in Operations : CommitWrite(w, o) \/ PublishFirst(w, o)
          \/ PublishWrite(w) \/ LoseEvent(w) \/ CommitLast(w)

LiveSpec == InitRecords(LiveRows) /\ [][LiveNext]_recordVars

-----------------------------------------------------------------------------
(* Properties *)

Quiet == Pending = {} /\ \A w \in Workers : task[w] = Idle

\* Writes whose event is missing, lacks the identifier that EventToChanges
\* wants, or names another table; a change of the members of a conversation
\* names a column on which no graph depends.
Unheard(o, table) ==
    \/ o.event.module \in {None, "finance"}
    \/ o.event.module = "logistics" /\ o.event.noun # "geo"
    \/ o.event.verb = "started"
    \/ table = "conversation_members"

Depends(v, table) == \E d \in v.deps : d[1] = table

\* main.go:267 tells the engine after the fact, in a goroutine of its own: once
\* nothing is under way, every view shows every table it depends on as it is,
\* except for writes that are not heard, for a reservation or an applied count
\* that was committed after its event had been handled (warehouse/service.go:396,
\* 706), and for a change of an entity whose event was not stored
\* (entity/service.go:269).
ViewsCatchUp ==
    Quiet => \A m \in Behind :
                Depends(m.view, m.table) => Unheard(m.by, m.table) \/ <<m.id, 0>> \in stale

\* "finance.transaction.* | transactions" (docs/ARCANA_INTEGRATION.md:101): the
\* events of a journal entry refresh the views of the journal.
JournalViewsCatchUp ==
    Quiet => \A m \in Behind : m.by.event.noun = "transaction" => m.table # "transactions"

=============================================================================
