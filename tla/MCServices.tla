----------------------------- MODULE MCServices -----------------------------
(* Instances of the modules over Records for TLC.  Each behaviour is one of  *)
(* one service; the variable service says of which.                          *)
EXTENDS HR, Logistics, Catalog, CRM, Banking, ProcessEngine, Sessions, Messenger,
        Idempotency, LiveViews

CONSTANTS w1, w2, vip, retail,
          Services  \* the services to be checked

VARIABLE service

MCWorkers == {w1, w2}
MCTags == {vip, retail}
MCSymmetry == Permutations(MCWorkers) \cup Permutations(MCTags)

MCEmployee == <<0, 1>>
MCStatement == <<"credit", "debit", "credit">>

Rule(type, discount, value, buy, bonus) ==
    [type |-> type, discount |-> discount, value |-> value, buy |-> buy, bonus |-> bonus,
     matches |-> TRUE]

MCPriceRules ==
    {Rule("discount", "percent", 10, 0, 0), Rule("discount", "percent", 100, 0, 0),
     Rule("discount", "percent", 150, 0, 0),
     Rule("discount", "fixed", 100, 0, 0), Rule("bonus", "", 0, 2, 1),
     [Rule("discount", "fixed", 1, 0, 0) EXCEPT !.matches = FALSE]}

Tr(from, event, to, terminal) ==
    [from |-> from, event |-> event, to |-> to, terminal |-> terminal]

OrderProcess(trigger) ==
    [id |-> 1, trigger |-> trigger, init |-> "new",
     transitions |-> {Tr("new", "confirmed", "confirmed", FALSE),
                      Tr("new", "cancelled", "cancelled", TRUE),
                      Tr("confirmed", "cancelled", "cancelled", TRUE)}]

MCDefinitions == {OrderProcess("created"), OrderProcess("confirmed")}
MCLoaded == {OrderProcess("created")}

RowsOf ==
    [hr |-> HRRows, logistics |-> LogisticsRows, catalog |-> CatalogRows, crm |-> CRMRows,
     banking |-> <<>>, process |-> EngineRows, sessions |-> SessionRows,
     messenger |-> MessengerRows, idempotency |-> <<>>, views |-> LiveRows]

ServicesInit ==
    /\ service \in Services
    /\ InitRecords(RowsOf[service])

\* Of the fields of a counterparty one besides the profile is updated.
FewFields == \A w \in Workers : task[w].op = "update" => task[w].fields \subseteq {"name", "crm_profile"}

ServicesNext ==
    /\ UNCHANGED service
    /\ \/ service = "hr" /\ HRNext
       \/ service = "logistics" /\ LogisticsNext
       \/ service = "catalog" /\ CatalogNext
       \/ service = "crm" /\ CRMNext /\ FewFields'
       \/ service = "banking" /\ BankingNext
       \/ service = "process" /\ ProcessNext
       \/ service = "sessions" /\ SessionsNext
       \/ service = "messenger" /\ MessengerNext
       \/ service = "idempotency" /\ IdempotencyNext
       \/ service = "views" /\ LiveNext

ServicesSpec == ServicesInit /\ [][ServicesNext]_<<recordVars, service>>
=============================================================================
