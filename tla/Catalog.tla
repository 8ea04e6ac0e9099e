------------------------------ MODULE Catalog ------------------------------
(***************************************************************************)
(* Products, categories and prices.  A product is one entity with its      *)
(* components, created in one transaction of the entity service; its SKU   *)
(* is the internal code of the barcode component, if it has one.           *)
(***************************************************************************)
EXTENDS Records, SequencesExt

CONSTANTS
    SKUs,        \* the codes that occur
    NoSKU,       \* no code
    PriceRules,  \* the pricing rules that occur
    Prices       \* the selling prices that occur, in kopecks

-----------------------------------------------------------------------------
(* Products *)

ASSUME CatalogAssumption == NoSKU \notin SKUs

Codes == SKUs \cup {NoSKU}

\* checked is a history: was its code looked up, and not found?
Product(sku, category, checked) ==
    [kind |-> "product", sku |-> sku, category |-> category, status |-> "active",
     checked |-> checked]

\* Mutant of FindBySKU: archived products are not looked at.
FindBySKUActive(sku) ==
    {r \in Rows("product") : rows[r].sku = sku /\ rows[r].status = "active"}

FindBySKU(sku) == {r \in Rows("product") : rows[r].sku = sku}

\* A SKU that is given is looked up; a query that fails counts as "no such
\* SKU".  What is stored is the code of the barcode that is given, which need
\* not be that SKU, or else the SKU.
CreateProduct(w, sku, code, category) ==
    \E failed \in BOOLEAN :
        /\ sku # NoSKU /\ FindBySKU(sku) # {} => failed
        /\ Plan(w, "product", New,
                Product(code, category, sku # NoSKU /\ sku = code /\ ~failed))

InsertProduct(w) ==
    /\ At(w, "product")
    /\ Insert(w, FindBySKU(task[w].copy.sku) = {}, "catalog.product.created")

\* A new category; the other columns of the product do not matter here.
UpdateProduct(w, r, category) ==
    Set(w, r, [category |-> category], "catalog.product.updated")

\* The entity first, then its components; a new barcode is not compared with
\* the other products.
UpdateBarcode(w, r, code, category) ==
    /\ Start(w, [op |-> "barcode", id |-> served + 1, row |-> r, sku |-> code])
    /\ rows' = [rows EXCEPT ![r].category = category]
    /\ UNCHANGED <<stale, news>>

SetBarcode(w) ==
    /\ At(w, "barcode")
    /\ LET r == task[w].row
       IN /\ rows' = [rows EXCEPT ![r].sku = task[w].sku, ![r].checked = FALSE]
          /\ Continue(w, Announcing(task[w].id, r, "catalog.product.updated"))
    /\ UNCHANGED <<stale, news>>

ArchiveProduct(w, r) == Set(w, r, [status |-> "archived"], "catalog.product.archived")

-----------------------------------------------------------------------------
(* Categories *)

CreateCategory(w) == Add(w, [kind |-> "category", parent |-> 0, status |-> "active"], NoEvent)

UpdateCategory(w, c) == Set(w, c, [parent |-> 1], NoEvent)

\* Only a category without products, archived ones included, is deleted.
DeleteCategory(w, c) ==
    /\ \A r \in Rows("product") : rows[r].category # c
    /\ Read(w, "delete category", c)

SoftDeleteCategory(w) ==
    /\ At(w, "delete category")
    /\ rows[task[w].row].status = "active"
    /\ Write(w, [status |-> "deleted"], "entity.deleted")

-----------------------------------------------------------------------------
(* Prices *)

\* Mutant of ApplyDiscount: a fixed discount is not cut off at zero.
ApplyDiscountUncut(price, rule) ==
    IF rule.discount = "percent" THEN price - (price * rule.value) \div 100
    ELSE price - rule.value

ApplyDiscount(price, rule) ==
    CASE rule.discount = "percent" -> price - (price * rule.value) \div 100
      [] rule.discount = "fixed" -> IF price < rule.value THEN 0 ELSE price - rule.value
      [] OTHER -> price

\* A rule that matches changes the price or the quantity; each bonus counts
\* from the ordered quantity, so the last one wins.
Applied(result, rule) ==
    IF ~rule.matches THEN result
    ELSE IF rule.type = "bonus"
         THEN IF rule.buy > 0 /\ result.ordered >= rule.buy
              THEN [result EXCEPT !.total =
                      result.ordered + (result.ordered \div rule.buy) * rule.bonus]
              ELSE result
         ELSE [result EXCEPT !.price = ApplyDiscount(@, rule)]

\* One rule after the other.
CalculatePrice(base, quantity, rules) ==
    LET result[n \in 0..Len(rules)] ==
            IF n = 0 THEN [price |-> base, ordered |-> quantity, total |-> quantity]
            ELSE Applied(result[n - 1], rules[n])
    IN result[Len(rules)]

-----------------------------------------------------------------------------
ProductEndpoints(w) ==
    LET categories == Rows("category")
    IN \/ \E sku, code \in Codes, c \in categories : CreateProduct(w, sku, code, c)
       \/ \E r \in Rows("product") :
             \/ ArchiveProduct(w, r)
             \/ \E c \in categories :
                   UpdateProduct(w, r, c) \/ \E code \in Codes : UpdateBarcode(w, r, code, c)

CategoryEndpoints(w) ==
    \/ CreateCategory(w)
    \/ \E c \in Rows("category") : UpdateCategory(w, c) \/ DeleteCategory(w, c)

CatalogRows ==
    [r \in {<<0, 0>>} |-> [kind |-> "category", parent |-> 0, status |-> "active"]]

CatalogNext ==
    \E w \in Workers :
        \/ ProductEndpoints(w) \/ CategoryEndpoints(w)
        \/ InsertProduct(w) \/ SetBarcode(w) \/ SoftDeleteCategory(w)
        \/ RecordSteps(w)

CatalogSpec == InitRecords(CatalogRows) /\ [][CatalogNext]_recordVars

-----------------------------------------------------------------------------
(* Properties *)

\* CreateProduct (service.go:92) refuses a SKU that exists: two products have
\* one SKU only when it came with a barcode that nobody looked up (of a creation
\* or of an update), the look-up failed, or a creation overlapped the other one.
SKUsAreUnique ==
    \A r, s \in Rows("product") :
        \/ r = s \/ rows[r].sku # rows[s].sku \/ rows[r].sku = NoSKU
        \/ {r, s} \cap stale # {}
        \/ ~rows[r].checked \/ ~rows[s].checked

\* Nothing checks a rule when it is stored; one that takes more than 100 % or
\* less than nothing is applied as it is.
Sensible(rule) ==
    /\ rule.value \in Nat /\ rule.buy \in Nat /\ rule.bonus \in Nat
    /\ rule.discount = "percent" => rule.value <= 100

\* CalculatePrice (service.go:377) applies any list of rules, each on the
\* result of the one before: with sensible rules the price never rises and
\* never becomes negative, and a bonus never takes away from the quantity.
PricesAreSound ==
    served = 0 =>
        \A base \in Prices \cap Nat, quantity \in 1..5,
           rules \in SeqOf({rule \in PriceRules : Sensible(rule)}, 3) :
            LET result == CalculatePrice(base, quantity, rules)
            IN /\ result.price \in 0..base
               /\ result.total >= quantity

=============================================================================
