------------------------------ MODULE Catalog ------------------------------
(***************************************************************************)
(* Catalog: the products, or the suppliers, while a client reads them page *)
(* by page.  A page is two calls of the database, a count and a find with  *)
(* skip and limit, and between any two of these calls other requests       *)
(* create, edit and delete documents.                                      *)
(*                                                                         *)
(* A document is its place in the order of the list (created_at, _id).  A  *)
(* new one may get any free place: created_at is read before the insert,   *)
(* on the clock of its own server, and _id is random.  Of its fields only  *)
(* this is kept: whether it matches the filters of the client.             *)
(***************************************************************************)
EXTENDS Naturals, FiniteSets

CONSTANTS Requests,  \* the HTTP requests that write, each used once
          Size,      \* how many documents there ever are
          PageSize   \* page_size

ASSUME SizesArePositive == Size \in Nat \ {0} /\ PageSize \in Nat \ {0}

VARIABLES
    kind,      \* which of the two collections this is
    docs,      \* the collection
    pc,        \* where each request waits, or its answer
    target,    \* the document it edits or deletes
    walk,      \* where the client is: before the count, before the find, done
    page,      \* the page it asks for
    total,     \* `total` of that page
    shown,     \* how often it has been given each document
    \* History, read by the properties only.
    entered,   \* documents that came into the view since it began
    slipped,   \* ... since the count of this page
    gone       \* documents that left the view since it began

collection == <<kind, docs>>
requests == <<pc, target>>
client == <<walk, page, total, shown>>
history == <<entered, slipped, gone>>
vars == <<kind, docs, pc, target, walk, page, total, shown, entered, slipped, gone>>

Docs == 1..Size
Stored == {"matching", "other"}

TypeOK ==
    /\ kind \in {"products", "suppliers"}
    /\ docs \in [Docs -> {"none", "deleted"} \cup Stored]
    /\ pc \in [Requests -> {"new", "write", "remove", "200", "201", "204", "404", "409"}]
    /\ target \in [Requests -> Docs]
    /\ walk \in {"count", "find", "done"}
    /\ page \in Nat \ {0}
    /\ total \in 0..Size
    /\ shown \in [Docs -> Nat]
    /\ entered \subseteq Docs /\ slipped \subseteq entered /\ gone \subseteq Docs

Init ==
    /\ kind \in {"products", "suppliers"}
    /\ docs \in [Docs -> {"none"} \cup Stored]
    /\ pc = [r \in Requests |-> "new"]
    /\ target = [r \in Requests |-> 1]
    /\ walk = "count"
    /\ page = 1
    /\ total = 0
    /\ shown = [d \in Docs |-> 0]
    /\ entered = {}
    /\ slipped = {}
    /\ gone = {}

\* What the criteria of the list match.
View == {d \in Docs : docs[d] = "matching"}

MoveTo(r, where) == pc' = [pc EXCEPT ![r] = where]

Becomes(d, what) ==
    /\ docs' = [docs EXCEPT ![d] = what]
    /\ LET came == IF what = "matching" THEN {d} \ View ELSE {} IN
        entered' = entered \cup came /\ slipped' = slipped \cup came
    /\ gone' = IF what = "matching" THEN gone ELSE gone \cup ({d} \cap View)
    /\ UNCHANGED kind
-----------------------------------------------------------------------------
(***************************************************************************)
(* Products and suppliers differ in one thing: a product's SKU is unique.  *)
(***************************************************************************)
Insert(r) ==
    /\ \E d \in Docs, what \in Stored : docs[d] = "none" /\ Becomes(d, what)
    /\ MoveTo(r, "201")

CreateProduct(r) ==
    /\ kind = "products" /\ pc[r] = "new"
    /\ \/ Insert(r)
       \/ /\ \E d \in Docs : docs[d] \in Stored
          /\ MoveTo(r, "409")
          /\ UNCHANGED <<collection, history>>
    /\ UNCHANGED <<target, client>>

CreateSupplier(r) ==
    /\ kind = "suppliers" /\ pc[r] = "new"
    /\ Insert(r)
    /\ UNCHANGED <<target, client>>

\* "404 temprano si no existe"
Look(r, next) ==
    /\ pc[r] = "new"
    /\ \E d \in Docs :
        /\ target' = [target EXCEPT ![r] = d]
        /\ MoveTo(r, IF docs[d] \in Stored THEN next ELSE "404")
    /\ UNCHANGED <<collection, client, history>>

\* The body names at least one field, so `changes` is never empty.
UpdateProduct(r) == kind = "products" /\ Look(r, "write")
UpdateSupplier(r) == kind = "suppliers" /\ Look(r, "write")
DeleteProduct(r) == kind = "products" /\ Look(r, "remove")
DeleteSupplier(r) == kind = "suppliers" /\ Look(r, "remove")

\* find_one_and_update: afterwards the document matches the filters or not.
Write(r) ==
    /\ pc[r] = "write"
    /\ \/ /\ docs[target[r]] \in Stored
          /\ \E what \in Stored : Becomes(target[r], what)
          /\ MoveTo(r, "200")
       \/ /\ docs[target[r]] \notin Stored
          /\ MoveTo(r, "404")
          /\ UNCHANGED <<collection, history>>
    /\ UNCHANGED <<target, client>>

\* delete_one; the answer is the same for a document that has gone.
Remove(r) ==
    /\ pc[r] = "remove"
    /\ Becomes(target[r], "deleted")
    /\ MoveTo(r, "204")
    /\ UNCHANGED <<target, client>>
-----------------------------------------------------------------------------
(***************************************************************************)
(* The list, newest first, and a client that asks for page after page      *)
(* until it has asked for as many documents as the last total said.        *)
(***************************************************************************)
\* Mutant of Skip: pages counted from zero.
SkipFromZero == page * PageSize

Skip == (page - 1) * PageSize

\* How many documents of the view come before d.
Position(d) == Cardinality({e \in View : e > d})

\* Mutant of Given: one document too many.
GivenOneMore == {d \in View : Skip <= Position(d) /\ Position(d) <= Skip + PageSize}

Given == {d \in View : Skip <= Position(d) /\ Position(d) < Skip + PageSize}

Count ==
    /\ walk = "count"
    /\ total' = Cardinality(View)
    /\ walk' = "find"
    /\ slipped' = {}
    /\ UNCHANGED <<collection, requests, page, shown, entered, gone>>

Find ==
    /\ walk = "find"
    /\ shown' = [d \in Docs |-> IF d \in Given THEN shown[d] + 1 ELSE shown[d]]
    /\ IF page * PageSize >= total
       THEN walk' = "done" /\ UNCHANGED page
       ELSE walk' = "count" /\ page' = page + 1
    /\ UNCHANGED <<collection, requests, total, history>>
-----------------------------------------------------------------------------
ProductRoutes(r) == CreateProduct(r) \/ UpdateProduct(r) \/ DeleteProduct(r)
SupplierRoutes(r) == CreateSupplier(r) \/ UpdateSupplier(r) \/ DeleteSupplier(r)

Next ==
    \/ \E r \in Requests : ProductRoutes(r) \/ SupplierRoutes(r) \/ Write(r) \/ Remove(r)
    \/ Count \/ Find

Spec == Init /\ [][Next]_vars
-----------------------------------------------------------------------------
(***************************************************************************)
(* "Sin un orden total la paginacion podria repetir" (mongo.py): with it,  *)
(* a client is given a document twice only if one that comes before it     *)
(* entered the view while the client was reading.                          *)
(***************************************************************************)
NoRepeat == \A d \in Docs : shown[d] > 1 => \E e \in entered : e > d

(***************************************************************************)
(* "... u omitir": a document that was there all the time is missing at    *)
(* the end only if one that comes before it left the view, or one entered  *)
(* between the last count and the find that went with it.                  *)
(***************************************************************************)
NoOmission ==
    walk = "done" =>
        \A d \in View \ entered :
            shown[d] > 0 \/ slipped # {} \/ \E e \in gone : e > d
=============================================================================
