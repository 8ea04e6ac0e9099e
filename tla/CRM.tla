-------------------------------- MODULE CRM --------------------------------
(***************************************************************************)
(* Customers and suppliers.  The tags are part of a component, the profile, *)
(* that is read as a whole, edited and written as a whole.  Of a row, only  *)
(* the kind and the tags matter here.                                       *)
(***************************************************************************)
EXTENDS Records

CONSTANT Tags

Counterparties == Rows("customer") \cup Rows("supplier")

\* The entity and its components are one transaction.
CreateCounterparty(w, kind, tags) ==
    Add(w, [kind |-> kind, tags |-> tags],
        IF kind = "customer" THEN "crm.customer.created" ELSE "crm.supplier.created")

\* The fields of an update, in the order in which they are written.
UpdateOrder == [name |-> 1, contact |-> 2, crm_profile |-> 3, crm_balance |-> 4]

Fields == DOMAIN UpdateOrder

\* Any of the fields may be given; each is written in a transaction of its own.
\* Tags are given as part of a profile.
UpdateCounterparty(w, r, fields, tags) ==
    /\ tags # {} => "crm_profile" \in fields
    /\ Start(w, [op |-> "update", id |-> served + 1, row |-> r,
                 fields |-> fields, tags |-> tags])
    /\ UNCHANGED records

\* The request sets this field next.
Sets(w, field) ==
    /\ At(w, "update")
    /\ field \in task[w].fields
    /\ \A f \in task[w].fields : UpdateOrder[field] <= UpdateOrder[f]

\* A profile that is given replaces the one with the tags.
SetField(w, field) ==
    /\ Sets(w, field)
    /\ LET t == task[w]
       IN /\ rows' = IF field = "crm_profile" THEN [rows EXCEPT ![t.row].tags = t.tags] ELSE rows
          /\ Continue(w, [t EXCEPT !.fields = @ \ {field}])
    /\ UNCHANGED <<stale, news>>

\* Every field that was given is set.
FinishUpdate(w) ==
    /\ At(w, "update")
    /\ task[w].fields = {}
    /\ Continue(w, Announcing(task[w].id, task[w].row,
                              IF rows[task[w].row].kind = "customer" THEN "crm.customer.updated"
                              ELSE "crm.supplier.updated"))
    /\ UNCHANGED records

UpdateTags(w, r, add, remove) ==
    /\ Start(w, [op |-> "tags", id |-> served + 1, row |-> r, copy |-> rows[r],
                 add |-> add, remove |-> remove])
    /\ UNCHANGED records

\* Mutant of WriteTags: the tags to remove are taken for those to keep.
WriteTagsKept(w) ==
    /\ At(w, "tags")
    /\ Write(w, [tags |-> (task[w].copy.tags \cup task[w].add) \cap task[w].remove], NoEvent)

WriteTags(w) ==
    /\ At(w, "tags")
    /\ Write(w, [tags |-> (task[w].copy.tags \cup task[w].add) \ task[w].remove], NoEvent)

CustomerEndpoints(w) ==
    \/ \E tags \in SUBSET Tags : CreateCounterparty(w, "customer", tags)
    \/ \E r \in Counterparties :
          \/ \E fields \in SUBSET Fields, tags \in SUBSET Tags :
                UpdateCounterparty(w, r, fields, tags)
          \/ \E add, remove \in SUBSET Tags : UpdateTags(w, r, add, remove)

SupplierEndpoints(w) ==
    \E tags \in SUBSET Tags : CreateCounterparty(w, "supplier", tags)

CRMRows ==
    [r \in {<<0, 0>>} |-> [kind |-> "customer", tags |-> {}]]

CRMNext ==
    \E w \in Workers :
        \/ CustomerEndpoints(w) \/ SupplierEndpoints(w)
        \/ (\E field \in Fields : SetField(w, field)) \/ FinishUpdate(w)
        \/ WriteTags(w)
        \/ RecordSteps(w)

CRMSpec == InitRecords(CRMRows) /\ [][CRMNext]_recordVars

-----------------------------------------------------------------------------
(* Properties *)

\* The tags of the copy are those of the row, or the request loses what another
\* one has added since.
UpToDate(w, r) == rows[r].tags = task[w].copy.tags

\* A tag disappears only with a profile that is replaced, with a request that
\* removes it, or with one that writes an outdated copy.
TagsKept(r) ==
    \/ rows[r].tags \subseteq rows'[r].tags
    \/ \E w \in Workers :
          /\ task'[w] # task[w]
          /\ task[w].row = r
          /\ \/ Sets(w, "crm_profile")
             \/ /\ At(w, "tags")
                /\ UpToDate(w, r) => rows[r].tags \ rows'[r].tags \subseteq task[w].remove

\* UpdateTags (service.go:177) writes the tags of its copy as a whole: between
\* its read and its write no other request may have changed the tags, or they
\* are lost; and a tag is lost in no other way.
TagsAreKept == [][\A r \in Counterparties : TagsKept(r)]_recordVars

=============================================================================
