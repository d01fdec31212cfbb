--------------------------- MODULE Catalog_proofs ---------------------------
(***************************************************************************)
(* Proofs about Catalog, for any number of documents, any size of page and *)
(* any requests that write while a client reads.                           *)
(***************************************************************************)
EXTENDS Catalog, FiniteSetTheorems, TLAPS

(***************************************************************************)
(* The three ways a step treats the list: a write turns one document into  *)
(* something else, a count and a find read it, and the rest leave it and   *)
(* the client alone.                                                       *)
(***************************************************************************)
Writes == \E d \in Docs, what \in {"deleted"} \cup Stored : Becomes(d, what)

LEMMA StepShape ==
    ASSUME TypeOK, [Next]_vars
    PROVE  \/ Writes /\ UNCHANGED client
           \/ Count
           \/ Find
           \/ UNCHANGED <<collection, client, history>>
<1>1. ASSUME NEW r \in Requests, Insert(r) PROVE Writes
  BY <1>1 DEF Insert, Writes
<1>2. ASSUME NEW r \in Requests, CreateProduct(r) \/ CreateSupplier(r)
      PROVE  (Writes /\ UNCHANGED client) \/ UNCHANGED <<collection, client, history>>
  BY <1>1, <1>2 DEF CreateProduct, CreateSupplier
<1>3. ASSUME NEW r \in Requests,
             \/ UpdateProduct(r) \/ UpdateSupplier(r)
             \/ DeleteProduct(r) \/ DeleteSupplier(r)
      PROVE  UNCHANGED <<collection, client, history>>
  BY <1>3 DEF UpdateProduct, UpdateSupplier, DeleteProduct, DeleteSupplier, Look
<1>4. ASSUME NEW r \in Requests, Write(r) \/ Remove(r)
      PROVE  (Writes /\ UNCHANGED client) \/ UNCHANGED <<collection, client, history>>
  <2>1. target[r] \in Docs
    BY DEF TypeOK
  <2> QED BY <1>4, <2>1 DEF Write, Remove, Writes
<1>5. CASE UNCHANGED vars
  BY <1>5 DEF vars, collection, client, history
<1> QED BY <1>2, <1>3, <1>4, <1>5 DEF Next, ProductRoutes, SupplierRoutes

(***************************************************************************)
(* Types.                                                                  *)
(***************************************************************************)
ViewFits == IsFiniteSet(View) /\ View \subseteq Docs /\ Cardinality(View) \in 0..Size

LEMMA ViewFinite == ViewFits
<1>1. Size \in Nat /\ Size # 0
  BY SizesArePositive
<1>2. IsFiniteSet(Docs) /\ Cardinality(Docs) = Size
  <2>1. /\ IsFiniteSet(1..Size)
        /\ Cardinality(1..Size) = IF 1 > Size THEN 0 ELSE Size - 1 + 1
    BY <1>1, FS_Interval
  <2> QED BY <1>1, <2>1 DEF Docs
<1>3. View \subseteq Docs
  BY DEF View
<1>4. IsFiniteSet(View) /\ Cardinality(View) <= Cardinality(Docs)
  BY <1>2, <1>3, FS_Subset
<1>5. Cardinality(View) \in Nat
  BY <1>4, FS_CardinalityType
<1> QED BY <1>1, <1>2, <1>3, <1>4, <1>5 DEF ViewFits

LEMMA ViewStaysFinite == ViewFits'
  BY ViewFinite, PTL

LEMMA TypeInit == ASSUME Init PROVE TypeOK
<1>1. 1 \in Docs /\ 0 \in 0..Size /\ 1 \in Nat \ {0}
  BY SizesArePositive DEF Docs
<1> QED BY <1>1 DEF Init, TypeOK

LEMMA BecomesType ==
    ASSUME TypeOK, NEW d \in Docs, NEW what \in {"deleted"} \cup Stored, Becomes(d, what)
    PROVE  /\ kind' = kind
           /\ docs' \in [Docs -> {"none", "deleted"} \cup Stored]
           /\ entered' \subseteq Docs /\ slipped' \subseteq entered' /\ gone' \subseteq Docs
  BY DEF TypeOK, Becomes

LEMMA TypeStep == ASSUME TypeOK, [Next]_vars PROVE TypeOK'
<1>1. /\ kind' \in {"products", "suppliers"}
      /\ docs' \in [Docs -> {"none", "deleted"} \cup Stored]
      /\ entered' \subseteq Docs /\ slipped' \subseteq entered' /\ gone' \subseteq Docs
  <2>1. CASE Writes
    BY <2>1, BecomesType DEF Writes, TypeOK
  <2>2. CASE Count \/ Find
    BY <2>2 DEF Count, Find, TypeOK, collection, history
  <2>3. CASE UNCHANGED <<collection, client, history>>
    BY <2>3 DEF TypeOK, collection, history
  <2> QED BY <2>1, <2>2, <2>3, StepShape
<1>2. /\ walk' \in {"count", "find", "done"}
      /\ page' \in Nat \ {0}
      /\ total' \in 0..Size
      /\ shown' \in [Docs -> Nat]
  <2>1. CASE Count
    BY <2>1, ViewFinite DEF Count, TypeOK, ViewFits
  <2>2. CASE Find
    BY <2>2 DEF Find, TypeOK
  <2>3. CASE UNCHANGED client
    BY <2>3 DEF TypeOK, client
  <2> QED BY <2>1, <2>2, <2>3, StepShape
<1>3. /\ pc' \in [Requests -> {"new", "write", "remove", "200", "201", "204", "404", "409"}]
      /\ target' \in [Requests -> Docs]
  <2>1. ASSUME NEW r \in Requests, CreateProduct(r) \/ CreateSupplier(r)
        PROVE  (MoveTo(r, "201") \/ MoveTo(r, "409")) /\ target' = target
    BY <2>1 DEF CreateProduct, CreateSupplier, Insert
  <2>2. ASSUME NEW r \in Requests,
               \/ UpdateProduct(r) \/ UpdateSupplier(r)
               \/ DeleteProduct(r) \/ DeleteSupplier(r)
        PROVE  /\ MoveTo(r, "write") \/ MoveTo(r, "remove") \/ MoveTo(r, "404")
               /\ \E d \in Docs : target' = [target EXCEPT ![r] = d]
    BY <2>2 DEF UpdateProduct, UpdateSupplier, DeleteProduct, DeleteSupplier, Look
  <2>3. ASSUME NEW r \in Requests, Write(r) \/ Remove(r)
        PROVE  (MoveTo(r, "200") \/ MoveTo(r, "204") \/ MoveTo(r, "404")) /\ target' = target
    BY <2>3 DEF Write, Remove
  <2>4. CASE Count \/ Find \/ UNCHANGED vars
    BY <2>4 DEF Count, Find, vars, requests, TypeOK
  <2> QED BY <2>1, <2>2, <2>3, <2>4 DEF Next, ProductRoutes, SupplierRoutes, MoveTo, TypeOK
<1> QED BY <1>1, <1>2, <1>3 DEF TypeOK

(***************************************************************************)
(* Every variable keeps its type.                                          *)
(***************************************************************************)
THEOREM TypeCorrect == Spec => []TypeOK
  BY TypeInit, TypeStep, PTL DEF Spec
-----------------------------------------------------------------------------
(***************************************************************************)
(* Positions.  Only a document that comes into the view before d moves d   *)
(* back, only one that leaves it there moves d forward, and the history    *)
(* variables have both on record.                                          *)
(***************************************************************************)
Before(d) == {e \in View : e > d}

PositionFits(d) ==
    /\ IsFiniteSet(Before(d)) /\ Position(d) = Cardinality(Before(d))
    /\ Position(d) \in Nat

LEMMA PositionType == \A d \in Docs : PositionFits(d)
<1> TAKE d \in Docs
<1>1. Before(d) \in SUBSET View
  BY DEF Before
<1>2. IsFiniteSet(Before(d))
  BY <1>1, ViewFinite, FS_Subset DEF ViewFits
<1> QED BY <1>2, FS_CardinalityType DEF Position, Before, PositionFits

LEMMA PositionStaysTyped == (\A d \in Docs : PositionFits(d))'
  BY PositionType, PTL

\* A document of the view comes after fewer documents than the view has.
LEMMA PositionInView ==
    ASSUME NEW d \in View PROVE Position(d) < Cardinality(View)
<1>1. d \in Docs /\ d \in Nat
  BY SizesArePositive DEF View, Docs
<1>2. Before(d) \in SUBSET View /\ d \notin Before(d)
  BY <1>1 DEF Before
<1>3. Cardinality(Before(d)) <= Cardinality(View) /\ Cardinality(Before(d)) # Cardinality(View)
  BY <1>2, ViewFinite, FS_Subset DEF ViewFits
<1> QED BY <1>1, <1>3, PositionType, ViewFinite DEF ViewFits, PositionFits

LEMMA WriteShape ==
    ASSUME TypeOK, NEW d \in Docs, NEW what \in {"deleted"} \cup Stored, Becomes(d, what)
    PROVE  /\ View' = IF what = "matching" THEN View \cup {d} ELSE View \ {d}
           /\ what = "matching" => entered' = entered \cup ({d} \ View)
                                   /\ slipped' = slipped \cup ({d} \ View) /\ gone' = gone
           /\ what # "matching" => entered' = entered /\ slipped' = slipped
                                   /\ gone' = gone \cup ({d} \cap View)
<1>1. docs' = [docs EXCEPT ![d] = what] /\ docs \in [Docs -> {"none", "deleted"} \cup Stored]
  BY DEF Becomes, TypeOK
<1>2. \A e \in Docs : docs'[e] = IF e = d THEN what ELSE docs[e]
  BY <1>1
<1>3. View' = IF what = "matching" THEN View \cup {d} ELSE View \ {d}
  BY <1>2 DEF View
<1> QED BY <1>3 DEF Becomes

LEMMA Shifts ==
    ASSUME TypeOK, Writes, NEW d \in Docs
    PROVE  /\ entered \subseteq entered' /\ slipped \subseteq slipped' /\ gone \subseteq gone'
           /\ (\E e \in entered' : e > d) \/ Position(d)' <= Position(d)
           /\ (\E e \in gone' : e > d) \/ Position(d) <= Position(d)'
           /\ d \in View' \ entered' => d \in View \ entered
           /\ slipped' = {} => slipped = {} /\ View' \subseteq View
<1>1. PICK x \in Docs, what \in {"deleted"} \cup Stored : Becomes(x, what)
  BY DEF Writes
<1>2. /\ View' = IF what = "matching" THEN View \cup {x} ELSE View \ {x}
      /\ what = "matching" => entered' = entered \cup ({x} \ View)
                              /\ slipped' = slipped \cup ({x} \ View) /\ gone' = gone
      /\ what # "matching" => entered' = entered /\ slipped' = slipped
                              /\ gone' = gone \cup ({x} \cap View)
  BY <1>1, WriteShape
<1>3. /\ Before(d)' = {e \in View' : e > d} /\ IsFiniteSet(Before(d)) /\ IsFiniteSet(Before(d)')
      /\ Position(d) = Cardinality(Before(d)) /\ Position(d)' = Cardinality(Before(d)')
      /\ Position(d) \in Nat /\ Position(d)' \in Nat
  <2>1. PositionFits(d) /\ PositionFits(d)'
    BY PositionType, PositionStaysTyped
  <2> QED BY <2>1 DEF PositionFits, Before
<1>4. (\E e \in entered' : e > d) \/ Position(d)' <= Position(d)
  <2>1. CASE Before(d)' \subseteq Before(d)
    BY <1>3, <2>1, FS_Subset
  <2>2. CASE ~(Before(d)' \subseteq Before(d))
    BY <1>2, <1>3, <2>2 DEF Before
  <2> QED BY <2>1, <2>2
<1>5. (\E e \in gone' : e > d) \/ Position(d) <= Position(d)'
  <2>1. CASE Before(d) \subseteq Before(d)'
    BY <1>3, <2>1, FS_Subset
  <2>2. CASE ~(Before(d) \subseteq Before(d)')
    BY <1>2, <1>3, <2>2 DEF Before
  <2> QED BY <2>1, <2>2
<1> QED BY <1>2, <1>4, <1>5

LEMMA SkipBounds ==
    ASSUME TypeOK
    PROVE  /\ Skip \in Nat /\ PageSize \in Nat /\ PageSize # 0
           /\ page * PageSize = Skip + PageSize
           /\ page' = page + 1 => Skip' = Skip + PageSize
           /\ page' = page => Skip' = Skip
<1>1. page \in Nat /\ page # 0 /\ page - 1 \in Nat /\ PageSize \in Nat /\ PageSize # 0
  BY SizesArePositive DEF TypeOK
<1>2. (page - 1) * PageSize \in Nat /\ page * PageSize = (page - 1) * PageSize + PageSize
  BY <1>1
<1>3. page' = page + 1 => (page' - 1) * PageSize = page * PageSize
  BY <1>1
<1> QED BY <1>1, <1>2, <1>3 DEF Skip

(***************************************************************************)
(* No repetition.  A document that was shown is before the next page,      *)
(* unless one that entered before it pushed it back.                       *)
(***************************************************************************)
Pushed(d) == \E e \in entered : e > d

ShownIsBehind ==
    \A d \in Docs : shown[d] > 0 => \/ Pushed(d)
                                    \/ walk = "done"
                                    \/ Position(d) < Skip

RepeatInv == ShownIsBehind /\ NoRepeat

LEMMA GivenBounds ==
    ASSUME NEW d \in Given
    PROVE  d \in View /\ Skip <= Position(d) /\ Position(d) < Skip + PageSize
  BY DEF Given

LEMMA FindShape ==
    ASSUME TypeOK, Find
    PROVE  /\ walk = "find" /\ UNCHANGED <<docs, entered, slipped, gone, total>>
           /\ \A d \in Docs : /\ shown'[d] = IF d \in Given THEN shown[d] + 1 ELSE shown[d]
                              /\ Position(d)' = Position(d)
           /\ View' = View
           /\ \/ walk' = "done" /\ page' = page /\ page * PageSize >= total
              \/ walk' = "count" /\ page' = page + 1
<1>1. UNCHANGED <<docs, entered, slipped, gone, total>>
  BY DEF Find, collection, history
<1> QED BY <1>1 DEF Find, View, Position

LEMMA RepeatStep == ASSUME TypeOK, TypeOK', RepeatInv, [Next]_vars PROVE RepeatInv'
<1>1. CASE Writes /\ UNCHANGED client
  <2>1. shown' = shown /\ walk' = walk /\ page' = page
    BY <1>1 DEF client
  <2>2. Skip' = Skip
    BY <2>1, SkipBounds
  <2>3. ASSUME NEW d \in Docs
        PROVE  /\ Pushed(d) => Pushed(d)'
               /\ Pushed(d)' \/ Position(d)' <= Position(d)
               /\ Position(d) \in Nat /\ Position(d)' \in Nat /\ Skip \in Nat
    <3>1. Position(d)' \in Nat
      BY PositionStaysTyped DEF PositionFits
    <3> QED BY <1>1, <3>1, Shifts, PositionType, SkipBounds DEF Pushed, PositionFits
  <2>4. ShownIsBehind'
    BY <2>1, <2>2, <2>3 DEF RepeatInv, ShownIsBehind
  <2>5. NoRepeat'
    BY <2>1, <2>3 DEF RepeatInv, NoRepeat, Pushed
  <2> QED BY <2>4, <2>5 DEF RepeatInv
<1>2. CASE Count
  <2>1. /\ shown' = shown /\ page' = page /\ entered' = entered /\ docs' = docs
        /\ walk = "count"
    BY <1>2 DEF Count, collection
  <2>2. Skip' = Skip
    BY <2>1, SkipBounds
  <2> QED BY <2>1, <2>2 DEF RepeatInv, ShownIsBehind, NoRepeat, Pushed, Position, View
<1>3. CASE Find
  <2>1. ASSUME NEW d \in Docs, shown'[d] > 0
        PROVE  Pushed(d)' \/ walk' = "done" \/ Position(d)' < Skip'
    <3>1. Position(d) \in Nat /\ Skip \in Nat /\ PageSize \in Nat
      BY PositionType, SkipBounds DEF PositionFits
    <3>2. CASE d \in Given
      BY <1>3, <3>1, <3>2, FindShape, SkipBounds, GivenBounds
    <3>3. CASE d \notin Given
      BY <1>3, <2>1, <3>1, <3>3, FindShape, SkipBounds DEF RepeatInv, ShownIsBehind, Pushed
    <3> QED BY <3>2, <3>3
  <2>2. ASSUME NEW d \in Docs, shown'[d] > 1 PROVE Pushed(d)'
    <3>1. Position(d) \in Nat /\ Skip \in Nat /\ shown[d] \in Nat /\ entered' = entered
      BY <1>3, PositionType, SkipBounds, FindShape DEF TypeOK, PositionFits
    <3>2. CASE d \in Given
      <4>1. shown[d] > 0 /\ ~(Position(d) < Skip) /\ walk # "done"
        BY <1>3, <2>2, <3>1, <3>2, FindShape, GivenBounds
      <4> QED BY <3>1, <4>1 DEF RepeatInv, ShownIsBehind, Pushed
    <3>3. CASE d \notin Given
      BY <1>3, <2>2, <3>1, <3>3, FindShape DEF RepeatInv, NoRepeat, Pushed
    <3> QED BY <3>2, <3>3
  <2> QED BY <2>1, <2>2 DEF RepeatInv, ShownIsBehind, NoRepeat, Pushed
<1>4. CASE UNCHANGED <<collection, client, history>>
  <2>1. UNCHANGED <<docs, shown, walk, page, entered>>
    BY <1>4 DEF collection, client, history
  <2> QED BY <2>1 DEF RepeatInv, ShownIsBehind, NoRepeat, Pushed, Position, View, Skip
<1> QED BY <1>1, <1>2, <1>3, <1>4, StepShape

LEMMA RepeatInvHolds == Spec => []RepeatInv
<1>1. Init => RepeatInv
  BY DEF Init, RepeatInv, ShownIsBehind, NoRepeat
<1> QED BY <1>1, RepeatStep, TypeCorrect, PTL DEF Spec

(***************************************************************************)
(* A client is given a document twice only if one that comes before it     *)
(* entered the view while it was reading, whatever the sizes.              *)
(***************************************************************************)
THEOREM NoRepeatHolds == Spec => []NoRepeat
<1>1. RepeatInv => NoRepeat
  BY DEF RepeatInv
<1> QED BY <1>1, RepeatInvHolds, PTL
-----------------------------------------------------------------------------
(***************************************************************************)
(* No omission.  A document that is there from the beginning and was not   *)
(* shown is still ahead of the client, unless one before it has left; and  *)
(* between a count and its find the view has not outgrown the total unless *)
(* something slipped in.                                                   *)
(***************************************************************************)
Pulled(d) == \E e \in gone : e > d

UnshownIsAhead ==
    walk # "done" =>
        \A d \in View \ entered : shown[d] > 0 \/ Pulled(d) \/ Position(d) >= Skip

TotalCovers == walk = "find" /\ slipped = {} => Cardinality(View) <= total

OmissionInv == UnshownIsAhead /\ TotalCovers /\ NoOmission

LEMMA OmissionStep == ASSUME TypeOK, TypeOK', OmissionInv, [Next]_vars PROVE OmissionInv'
<1>1. CASE Writes /\ UNCHANGED client
  <2>1. UNCHANGED <<shown, walk, page, total>>
    BY <1>1 DEF client
  <2>2. Skip' = Skip
    BY <2>1, SkipBounds
  <2>3. ASSUME NEW d \in View' \ entered'
        PROVE  /\ d \in View \ entered /\ d \in Docs
               /\ Pulled(d) => Pulled(d)'
               /\ Pulled(d)' \/ Position(d) <= Position(d)'
               /\ Position(d) \in Nat /\ Position(d)' \in Nat /\ Skip \in Nat
    <3>1. d \in Docs
      BY DEF View
    <3>2. Position(d)' \in Nat
      BY <3>1, PositionStaysTyped DEF PositionFits
    <3> QED BY <1>1, <3>1, <3>2, Shifts, PositionType, SkipBounds DEF Pulled, PositionFits
  <2>4. UnshownIsAhead'
    BY <2>1, <2>2, <2>3 DEF OmissionInv, UnshownIsAhead
  <2>5. slipped' = {} => slipped = {} /\ View' \subseteq View
    <3>1. 1 \in Docs
      BY SizesArePositive DEF Docs
    <3> QED BY <1>1, <3>1, Shifts
  <2>6. TotalCovers'
    <3> SUFFICES ASSUME walk = "find", slipped' = {} PROVE Cardinality(View') <= total
      BY <2>1 DEF TotalCovers
    <3>1. Cardinality(View) <= total /\ total \in Nat
      BY <2>5 DEF OmissionInv, TotalCovers, TypeOK
    <3>2. Cardinality(View') <= Cardinality(View)
      BY <2>5, ViewFinite, FS_Subset DEF ViewFits
    <3>3. Cardinality(View) \in Nat /\ Cardinality(View') \in Nat
      BY ViewFinite, ViewStaysFinite DEF ViewFits
    <3> QED BY <3>1, <3>2, <3>3
  <2>7. NoOmission'
    <3>1. slipped # {} => slipped' # {}
      BY <2>5
    <3> QED BY <2>1, <2>3, <3>1 DEF OmissionInv, NoOmission, Pulled
  <2> QED BY <2>4, <2>6, <2>7 DEF OmissionInv
<1>2. CASE Count
  <2>1. /\ UNCHANGED <<docs, shown, page, entered, gone>> /\ walk = "count"
        /\ walk' = "find" /\ total' = Cardinality(View)
    BY <1>2 DEF Count, collection
  <2>2. Skip' = Skip /\ View' = View
    BY <2>1, SkipBounds DEF View
  <2>3. UnshownIsAhead'
    BY <2>1, <2>2 DEF OmissionInv, UnshownIsAhead, Pulled, Position
  <2>4. TotalCovers' /\ NoOmission'
    BY <2>1, <2>2, ViewFinite DEF TotalCovers, NoOmission, ViewFits
  <2> QED BY <2>3, <2>4 DEF OmissionInv
<1>3. CASE Find
  <2>1. UNCHANGED <<entered, slipped, gone, total>> /\ View' = View /\ walk = "find"
    BY <1>3, FindShape
  <2>2. ASSUME NEW d \in View \ entered, ~(shown'[d] > 0), ~Pulled(d)
        PROVE  Position(d) >= Skip + PageSize
    <3>1. d \in Docs /\ Position(d) \in Nat /\ Skip \in Nat /\ shown[d] \in Nat
      BY PositionType, SkipBounds DEF View, TypeOK, PositionFits
    <3>2. d \notin Given /\ ~(shown[d] > 0)
      BY <1>3, <2>2, <3>1, FindShape
    <3>3. Position(d) >= Skip
      BY <2>1, <2>2, <3>2 DEF OmissionInv, UnshownIsAhead
    <3> QED BY <3>1, <3>2, <3>3, SkipBounds DEF Given
  <2>3. UnshownIsAhead'
    <3> SUFFICES ASSUME walk' # "done", NEW d \in View \ entered, ~(shown'[d] > 0), ~Pulled(d)
                 PROVE  Position(d)' >= Skip'
      BY <2>1 DEF UnshownIsAhead, Pulled
    <3>1. Position(d) >= Skip + PageSize
      BY <2>2
    <3> QED BY <1>3, <3>1, FindShape, SkipBounds DEF View
  <2>4. TotalCovers'
    BY <1>3, FindShape DEF TotalCovers
  <2>5. NoOmission'
    <3> SUFFICES ASSUME walk' = "done", slipped = {}, NEW d \in View \ entered,
                        ~(shown'[d] > 0), ~Pulled(d)
                 PROVE  FALSE
      BY <2>1 DEF NoOmission, Pulled
    <3>1. Position(d) >= Skip + PageSize /\ Position(d) < Cardinality(View)
      BY <2>2, PositionInView
    <3>2. Skip + PageSize >= total /\ Cardinality(View) <= total
      BY <1>3, <2>1, FindShape, SkipBounds DEF OmissionInv, TotalCovers
    <3>3. /\ Position(d) \in Nat /\ Cardinality(View) \in Nat /\ total \in Nat
          /\ Skip + PageSize \in Nat
      BY PositionType, ViewFinite, SkipBounds DEF View, TypeOK, ViewFits, PositionFits
    <3> QED BY <3>1, <3>2, <3>3
  <2> QED BY <2>3, <2>4, <2>5 DEF OmissionInv
<1>4. CASE UNCHANGED <<collection, client, history>>
  <2>1. UNCHANGED <<docs, shown, walk, page, total, entered, slipped, gone>>
    BY <1>4 DEF collection, client, history
  <2>2. View' = View /\ Skip' = Skip
    BY <2>1 DEF View, Skip
  <2>3. UnshownIsAhead'
    BY <2>1, <2>2 DEF OmissionInv, UnshownIsAhead, Pulled, Position
  <2>4. TotalCovers' /\ NoOmission'
    BY <2>1, <2>2 DEF OmissionInv, TotalCovers, NoOmission
  <2> QED BY <2>3, <2>4 DEF OmissionInv
<1> QED BY <1>1, <1>2, <1>3, <1>4, StepShape

LEMMA OmissionInvHolds == Spec => []OmissionInv
<1>1. Init => OmissionInv
  <2> SUFFICES ASSUME Init PROVE OmissionInv
    OBVIOUS
  <2>1. walk = "count" /\ page = 1
    BY DEF Init
  <2>2. Skip = 0
    BY <2>1, SizesArePositive DEF Skip
  <2>3. \A d \in View : Position(d) >= Skip
    BY <2>2, PositionType DEF View, PositionFits
  <2> QED BY <2>1, <2>3 DEF OmissionInv, UnshownIsAhead, TotalCovers, NoOmission
<1> QED BY <1>1, OmissionStep, TypeCorrect, PTL DEF Spec

(***************************************************************************)
(* A document that was there all the time is missing at the end only if    *)
(* one before it left, or one entered after the last count.                *)
(***************************************************************************)
THEOREM NoOmissionHolds == Spec => []NoOmission
<1>1. OmissionInv => NoOmission
  BY DEF OmissionInv
<1> QED BY <1>1, OmissionInvHolds, PTL
-----------------------------------------------------------------------------
(***************************************************************************)
(* Nothing is given to the client that was not in the view.                *)
(***************************************************************************)
ShownWasThere == \A d \in Docs : shown[d] > 0 => d \in View \cup gone

LEMMA ShownStep ==
    ASSUME TypeOK, TypeOK', ShownWasThere, [Next]_vars PROVE ShownWasThere'
<1>1. CASE Writes /\ UNCHANGED client
  <2>1. PICK x \in Docs, what \in {"deleted"} \cup Stored : Becomes(x, what)
    BY <1>1 DEF Writes
  <2>2. View \cup gone \subseteq View' \cup gone'
    BY <2>1, WriteShape
  <2>3. shown' = shown
    BY <1>1 DEF client
  <2> QED BY <2>2, <2>3 DEF ShownWasThere
<1>2. CASE Count \/ UNCHANGED <<collection, client, history>>
  BY <1>2 DEF Count, collection, client, history, ShownWasThere, View
<1>3. CASE Find
  <2>1. View' = View /\ gone' = gone
    BY <1>3, FindShape
  <2>2. ASSUME NEW d \in Docs, shown'[d] > 0 PROVE d \in View \cup gone
    <3>1. shown'[d] = IF d \in Given THEN shown[d] + 1 ELSE shown[d]
      BY <1>3, FindShape
    <3> QED BY <2>2, <3>1, GivenBounds DEF ShownWasThere
  <2> QED BY <2>1, <2>2 DEF ShownWasThere
<1> QED BY <1>1, <1>2, <1>3, StepShape

(***************************************************************************)
(* Without the exceptions: when nothing entered the view and nothing left  *)
(* it while the client was reading, it has been given each document of the *)
(* view once and no other, whatever else was written meanwhile.            *)
(***************************************************************************)
THEOREM QuietWalkIsExact ==
    Spec => [](walk = "done" /\ entered = {} /\ gone = {} =>
                 \A d \in Docs : shown[d] = IF d \in View THEN 1 ELSE 0)
<1>1. Init => ShownWasThere
  BY DEF Init, ShownWasThere
<1>2. ASSUME TypeOK, ShownWasThere, NoRepeat, NoOmission,
             walk = "done", entered = {}, gone = {}, NEW d \in Docs
      PROVE  shown[d] = IF d \in View THEN 1 ELSE 0
  <2>1. shown[d] \in Nat /\ slipped = {}
    BY <1>2 DEF TypeOK
  <2>2. ~(shown[d] > 1)
    BY <1>2 DEF NoRepeat
  <2>3. d \in View => shown[d] > 0
    BY <1>2, <2>1 DEF NoOmission
  <2>4. shown[d] > 0 => d \in View
    BY <1>2 DEF ShownWasThere
  <2> QED BY <2>1, <2>2, <2>3, <2>4
<1>3. TypeOK /\ ShownWasThere /\ NoRepeat /\ NoOmission =>
        (walk = "done" /\ entered = {} /\ gone = {} =>
           \A d \in Docs : shown[d] = IF d \in View THEN 1 ELSE 0)
  BY <1>2
<1> QED BY <1>1, <1>3, ShownStep, TypeCorrect, NoRepeatHolds, NoOmissionHolds, PTL DEF Spec

(***************************************************************************)
(* The same in the middle of the walk: while nothing enters or leaves the  *)
(* view, the client has been given, once each, exactly the documents that  *)
(* come before the page it asks for next.                                  *)
(***************************************************************************)
THEOREM QuietWalkIsInOrder ==
    Spec => [](walk # "done" /\ entered = {} /\ gone = {} =>
                 \A d \in View : shown[d] = IF Position(d) < Skip THEN 1 ELSE 0)
<1>1. ASSUME TypeOK, RepeatInv, OmissionInv,
             walk # "done", entered = {}, gone = {}, NEW d \in View
      PROVE  shown[d] = IF Position(d) < Skip THEN 1 ELSE 0
  <2>1. d \in Docs /\ shown[d] \in Nat /\ ~Pushed(d) /\ ~Pulled(d)
    BY <1>1 DEF TypeOK, View, Pushed, Pulled
  <2>2. Position(d) \in Nat /\ Skip \in Nat
    BY <1>1, <2>1, PositionType, SkipBounds DEF PositionFits
  <2>3. ~(shown[d] > 1)
    BY <1>1, <2>1 DEF RepeatInv, NoRepeat
  <2>4. shown[d] > 0 => Position(d) < Skip
    BY <1>1, <2>1 DEF RepeatInv, ShownIsBehind
  <2>5. shown[d] > 0 \/ Position(d) >= Skip
    BY <1>1, <2>1 DEF OmissionInv, UnshownIsAhead
  <2> QED BY <2>1, <2>2, <2>3, <2>4, <2>5
<1>2. TypeOK /\ RepeatInv /\ OmissionInv =>
        (walk # "done" /\ entered = {} /\ gone = {} =>
           \A d \in View : shown[d] = IF Position(d) < Skip THEN 1 ELSE 0)
  BY <1>1
<1> QED BY <1>2, TypeCorrect, RepeatInvHolds, OmissionInvHolds, PTL
=============================================================================
