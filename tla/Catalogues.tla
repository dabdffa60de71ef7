------------------------------ MODULE Catalogues ------------------------------
(***************************************************************************)
(* The master data of a restaurant: menu items with their recipes,         *)
(* ingredients, suppliers, and what a supplier sells (services/recipes.js, *)
(* ingredients.js, supplierCatalog.js and their pages).  A form is filled  *)
(* from a list, and carries back the version it was filled from; schemas   *)
(* with optimisticConcurrency check the version again when they save.      *)
(***************************************************************************)
EXTENDS Integers, Sequences, FiniteSets, FiniteSetsExt

CONSTANTS
    Editors,
    Values,        \* of any field
    Branches,
    KeptVersions,  \* of a recipe; 20
    MaxVersion     \* bounds the edits of a document

CataloguesAssumption ==
    /\ Cardinality(Values) >= 2
    /\ KeptVersions \in Nat \ {0} /\ MaxVersion \in Nat

VARIABLES
    db,      \* a document
    stock,   \* whether a branch has any of the ingredient, or no balance of it
    forms

vars == <<db, stock, forms>>

DocKinds == {"menu", "ingredient", "supplier", "catalogue"}

\* recipe: with the packaging
menuItem == {"price", "recipe", "active"}

ingredient == {"unit", "level", "active"}

supplier == {"terms", "active"}

\* price: with all its terms
supplierIngredient == {"price", "active"}

Fields(k) ==
    CASE k = "menu" -> menuItem
      [] k = "ingredient" -> ingredient
      [] k = "supplier" -> supplier
      [] k = "catalogue" -> supplierIngredient

\* A form sends its fields whole, whatever was changed in it.
menuForm == menuItem

ingredientForm == ingredient

supplierForm == supplier \ {"active"}

catalogueForm == supplierIngredient \ {"active"}

FormFields(k) ==
    CASE k = "menu" -> menuForm
      [] k = "ingredient" -> ingredientForm
      [] k = "supplier" -> supplierForm
      [] k = "catalogue" -> catalogueForm

Numbers == 1..(MaxVersion + 1)

Trace == [number : Numbers, value : Values]

\* v: __v; number: recipeVersion; past: recipeHistory, or the rows of SupplierPriceHistory
Documents(k) ==
    [kind : {k}, v : 0..MaxVersion, fields : [Fields(k) -> Values], number : Numbers,
     past : UNION {[1..n -> Trace] : n \in 0..(MaxVersion + 1)}]

NoEdit == [pc |-> "idle"]

-------------------------------------------------------------------------------
Created(k, fields) == [kind |-> k, v |-> 0, fields |-> fields, number |-> 1, past |-> <<>>]

createMenuItem(fields) == Created("menu", fields)

createIngredient(fields) == Created("ingredient", fields)

createSupplier(fields) == Created("supplier", fields)

\* A price starts its history.
createCatalogItem(fields) ==
    [Created("catalogue", fields) EXCEPT
        !.past = <<[number |-> 1, value |-> fields["price"]]>>]

Init ==
    /\ \E value \in Values :
          LET fields(k) == [field \in Fields(k) |-> value]
          IN  db \in {createMenuItem(fields("menu")), createIngredient(fields("ingredient")),
                     createSupplier(fields("supplier")), createCatalogItem(fields("catalogue"))}
    /\ stock \in [Branches -> {"none", "empty", "some"}]
    /\ forms = [e \in Editors |-> NoEdit]

-------------------------------------------------------------------------------
(* The pages                                                               *)

\* startEdit, from the page's list
startEdit(e) ==
    /\ forms[e] = NoEdit
    /\ forms' = [forms EXCEPT ![e] = [pc |-> "editing", seen |-> db]]
    /\ UNCHANGED <<db, stock>>

Sent(e, patch) ==
    /\ forms[e].pc = "editing"
    /\ forms' = [forms EXCEPT ![e] = [pc |-> "sent", seen |-> forms[e].seen, patch |-> patch]]
    /\ UNCHANGED <<db, stock>>

submit(e) == \E patch \in [FormFields(db.kind) -> Values] : Sent(e, patch)

toggleActive(e) ==
    /\ forms[e].pc = "editing"
    /\ \E value \in Values \ {forms[e].seen.fields["active"]} :
          Sent(e, [field \in {"active"} |-> value])

\* The page is left, or the answer is an error.
resetForm(e) ==
    /\ forms[e] # NoEdit
    /\ forms' = [forms EXCEPT ![e] = NoEdit]
    /\ UNCHANGED <<db, stock>>

-------------------------------------------------------------------------------
(* The services                                                            *)

Changed(row, patch) == {field \in DOMAIN patch : patch[field] # row.fields[field]}

\* InventoryBalance.findOne({ingredient}) finds the balance of some branch.
UnitMayChange ==
    (\A b \in Branches : stock[b] = "none") \/ (\E b \in Branches : stock[b] = "empty")

\* The document is read, and is the one the form was filled from.
Check(e) ==
    /\ forms[e].pc = "sent"
    /\ db.v = forms[e].seen.v
    /\ "unit" \in Changed(db, forms[e].patch) => UnitMayChange
    /\ forms' = [forms EXCEPT ![e] = [pc |-> "checked", seen |-> forms[e].seen,
                                      patch |-> forms[e].patch, row |-> db]]
    /\ UNCHANGED <<db, stock>>

Patched(row, patch) ==
    [row EXCEPT !.v = @ + 1,
                !.fields = [field \in DOMAIN @ |->
                               IF field \in DOMAIN patch THEN patch[field] ELSE @[field]]]

\* slice(-20)
Newest(past) == SubSeq(past, Max({1, Len(past) - KeptVersions + 1}), Len(past))

\* A recipe that changes leaves the one it replaces behind.
updateMenuItem(row, patch) ==
    LET replaced == [number |-> row.number, value |-> row.fields["recipe"]]
    IN  IF "recipe" \in Changed(row, patch)
        THEN [Patched(row, patch) EXCEPT !.number = @ + 1,
                                         !.past = Newest(Append(@, replaced))]
        ELSE Patched(row, patch)

\* A price that changes leaves the new one, in the same transaction.
updateCatalogItem(row, patch) ==
    IF "price" \in Changed(row, patch)
    THEN [Patched(row, patch) EXCEPT !.past = Append(@, [number |-> 1, value |-> patch["price"]])]
    ELSE Patched(row, patch)

updateIngredient(row, patch) == Patched(row, patch)

updateSupplier(row, patch) == Patched(row, patch)

Updated(row, patch) ==
    CASE row.kind = "menu" -> updateMenuItem(row, patch)
      [] row.kind = "ingredient" -> updateIngredient(row, patch)
      [] row.kind = "supplier" -> updateSupplier(row, patch)
      [] row.kind = "catalogue" -> updateCatalogItem(row, patch)

\* Mutant: a schema without optimisticConcurrency.
Anyhow(e) == TRUE

\* where {_id, __v}
StillThere(e) == db.v = forms[e].row.v

\* A recipe is always written again; otherwise a save that changes nothing writes nothing.
Save(e) ==
    /\ forms[e].pc = "checked"
    /\ StillThere(e) /\ db.v < MaxVersion
    /\ LET row == forms[e].row
           patch == forms[e].patch
       IN  db' = IF Changed(row, patch) = {} /\ "recipe" \notin DOMAIN patch THEN db
                 ELSE Updated(row, patch)
    /\ forms' = [forms EXCEPT ![e] = NoEdit]
    /\ UNCHANGED stock

-------------------------------------------------------------------------------
\* Stock comes and goes; it makes a balance where there is none.
Stock(b) ==
    /\ db.kind = "ingredient"
    /\ \E level \in {"empty", "some"} \ {stock[b]} : stock' = [stock EXCEPT ![b] = level]
    /\ UNCHANGED <<db, forms>>

Next ==
    \/ \E e \in Editors :
          \/ startEdit(e) \/ submit(e) \/ toggleActive(e) \/ resetForm(e)
          \/ Check(e) \/ Save(e)
    \/ \E b \in Branches : Stock(b)

-------------------------------------------------------------------------------
TypeOK ==
    /\ db.kind \in DocKinds /\ db \in Documents(db.kind)
    /\ stock \in [Branches -> {"none", "empty", "some"}]
    /\ \A e \in Editors : forms[e].pc = "checked" => forms[e].row \in Documents(db.kind)

\* recipes.js:583, supplierCatalog.js:125: a document that changed since it was loaded is not
\* overwritten.  What an edit replaces is what its form was filled from.
NoEditLost ==
    db' # db => \E e \in Editors :
        forms[e] # NoEdit /\ forms'[e] = NoEdit /\ forms[e].seen = db

\* A recipe that was used is found in the item's history under its number, as far as the
\* history goes back, and the newest price of a supplier's history is the price agreed.
HistoryTells ==
    /\ db.kind = "menu" =>
          /\ Len(db.past) = Min({KeptVersions, db.number - 1})
          /\ \A i \in DOMAIN db.past : db.past[i].number = db.number - Len(db.past) + i - 1
    /\ db.kind = "catalogue" => db.past[Len(db.past)].value = db.fields["price"]

\* ingredients.js:251 "Cannot change unit while stock exists; adjust stock to zero first".
UnitKeptWhileStocked ==
    (db.kind = "ingredient" /\ db'.fields["unit"] # db.fields["unit"]) =>
        \A b \in Branches : stock[b] # "some"
===============================================================================
