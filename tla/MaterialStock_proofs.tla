------------------------ MODULE MaterialStock_proofs ------------------------
(***************************************************************************)
(* Proofs about MaterialStock: its type invariant, that the stored         *)
(* available quantity is current, that no entity is over-assigned, that an *)
(* entity with a life span has one user, and what a line may be created    *)
(* on.                                                                     *)
(***************************************************************************)
EXTENDS MaterialStock, FiniteSetTheorems, TLAPS

-----------------------------------------------------------------------------
(* Sums. *)

\* A sum of natural numbers is one
LEMMA SumType ==
    ASSUME NEW S, IsFiniteSet(S), NEW f, NEW b \in Nat
    PROVE  SumOver(S, f, b) \in Nat /\ IsFiniteSet({p \in S \X (1 .. b) : p[2] <= f[p[1]]})
<1> DEFINE P == {p \in S \X (1 .. b) : p[2] <= f[p[1]]}
<1>1. IsFiniteSet(1 .. b)
  BY FS_Interval
<1>2. IsFiniteSet(S \X (1 .. b))
  BY <1>1, FS_Product
<1>3. IsFiniteSet(P)
  BY <1>2, FS_Subset
<1> QED
  BY <1>3, FS_CardinalityType DEF SumOver

\* A sum depends on the function's values on the set only
LEMMA SumSame ==
    ASSUME NEW S, NEW f, NEW g, NEW b, \A x \in S : f[x] = g[x]
    PROVE  SumOver(S, f, b) = SumOver(S, g, b)
<1>1. {p \in S \X (1 .. b) : p[2] <= f[p[1]]} = {p \in S \X (1 .. b) : p[2] <= g[p[1]]}
  OBVIOUS
<1> QED
  BY <1>1 DEF SumOver

\* A sum over fewer elements is no larger
LEMMA SumSubset ==
    ASSUME NEW S, NEW T, IsFiniteSet(S), T \subseteq S,
           NEW f, NEW g, \A x \in T : f[x] = g[x], NEW b \in Nat
    PROVE  SumOver(T, g, b) <= SumOver(S, f, b)
<1> DEFINE P == {p \in S \X (1 .. b) : p[2] <= f[p[1]]}
           Q == {p \in T \X (1 .. b) : p[2] <= g[p[1]]}
<1>1. Q \subseteq P
  OBVIOUS
<1>2. IsFiniteSet(P)
  BY SumType
<1>3. Cardinality(Q) <= Cardinality(P)
  BY <1>1, <1>2, FS_Subset
<1> QED
  BY <1>3 DEF SumOver

LEMMA SumEmpty ==
    ASSUME NEW f, NEW b
    PROVE  SumOver({}, f, b) = 0
<1>1. {p \in {} \X (1 .. b) : p[2] <= f[p[1]]} = {}
  OBVIOUS
<1> QED
  BY <1>1, FS_EmptySet DEF SumOver

LEMMA UsedType == \A e : Used(e) \in Nat
<1> SUFFICES ASSUME NEW e PROVE Used(e) \in Nat
  OBVIOUS
<1>1. IsFiniteSet(Lines(e))
  BY FiniteAssumption, FS_Subset DEF Lines
<1> QED
  BY <1>1, SumType, BoundAssumption DEF Used

LEMMA UsedTypeNext == \A e : Used(e)' \in Nat
<1> SUFFICES ASSUME NEW e PROVE Used(e)' \in Nat
  OBVIOUS
<1>1. IsFiniteSet(Lines(e)')
  BY FiniteAssumption, FS_Subset DEF Lines
<1> QED
  BY <1>1, SumType, BoundAssumption DEF Used

LEMMA HoursTypeNext == \A e : TotalHours(e)' \in Int
<1> SUFFICES ASSUME NEW e PROVE TotalHours(e)' \in Int
  OBVIOUS
<1> DEFINE closed == {a \in Lines(e) : ~ Open(a)}
<1>1. IsFiniteSet(closed')
  BY FiniteAssumption, FS_Subset DEF Lines
<1>2. SumOver(closed', end', MaxTime) \in Nat /\ SumOver(closed', start', MaxTime) \in Nat
  BY <1>1, SumType, BoundAssumption
<1> QED
  BY <1>2 DEF TotalHours

LEMMA AmountTypeNext ==
    ASSUME (quantity \in [Entity -> Quantity])', NEW e \in Entity
    PROVE  Amount(e, cached[e])' \in Int /\ Available(e)' \in Int
BY UsedTypeNext DEF Amount, Available, Quantity

\* An entity no line uses is used for nothing
LEMMA UnusedNext ==
    ASSUME NEW e, Lines(e)' = {}
    PROVE  Used(e)' = 0
BY SumEmpty DEF Used

-----------------------------------------------------------------------------
(* What a step leaves alone. *)

\* The lines of e are the same, in its quantities and moments
SameLines(e) ==
    \A a \in Assignment :
        /\ of'[a] = e <=> of[a] = e
        /\ of[a] = e => start'[a] = start[a] /\ end'[a] = end[a]
SameQuantities(e) == \A a \in Assignment : of[a] = e => qty'[a] = qty[a]

LEMMA SameUsed ==
    ASSUME NEW e, SameLines(e), SameQuantities(e)
    PROVE  Used(e)' = Used(e)
<1>1. Lines(e)' = Lines(e)
  BY DEF Lines, SameLines
<1>2. \A a \in Lines(e) : qty'[a] = qty[a]
  BY DEF Lines, SameQuantities
<1>3. SumOver(Lines(e), qty', MaxQuantity) = SumOver(Lines(e), qty, MaxQuantity)
  BY <1>2, SumSame
<1> QED
  BY <1>1, <1>3 DEF Used

LEMMA SameUse ==
    ASSUME NEW e, SameLines(e)
    PROVE  InUse(e)' = InUse(e) /\ TotalHours(e)' = TotalHours(e)
<1> DEFINE closed == {a \in Lines(e) : ~ Open(a)}
<1>1. Lines(e)' = Lines(e)
  BY DEF Lines, SameLines
<1>2. \A a \in Lines(e) : start'[a] = start[a] /\ end'[a] = end[a] /\ Open(a)' = Open(a)
  BY DEF Lines, SameLines, Open
<1>3. closed' = closed
  BY <1>1, <1>2
<1>4. /\ SumOver(closed, end', MaxTime) = SumOver(closed, end, MaxTime)
      /\ SumOver(closed, start', MaxTime) = SumOver(closed, start, MaxTime)
  BY <1>2, SumSame
<1>5. TotalHours(e)' = TotalHours(e)
  BY <1>3, <1>4 DEF TotalHours
<1>6. InUse(e)' = InUse(e)
  BY <1>1, <1>2 DEF InUse
<1> QED
  BY <1>5, <1>6

SameEntity(e) ==
    /\ e \in stock
    /\ discarded'[e] = discarded[e]
    /\ quantity'[e] = quantity[e]
    /\ SameLines(e)

LEMMA SameAvailable ==
    ASSUME NEW e, SameEntity(e), SameQuantities(e), life' = life
    PROVE  Available(e)' = Available(e)
BY SameUse, SameUsed DEF SameEntity, Available, Amount, WornOut

-----------------------------------------------------------------------------
(* The steps. *)

\* The kinds of step the proofs below go through
Step ==
    \/ \E e \in Entity, n \in Quantity : CreateEntity(e, n)
    \/ \E e \in Entity, n \in Quantity : EditEntity(e, n)
    \/ \E e \in Entity : Discard(e)
    \/ \E e \in Entity : DeleteEntity(e)
    \/ \E E \in SUBSET Entity, e \in Entity : Organize(E, e)
    \/ \E A \in SUBSET Assignment, n \in Quantity, s, t \in Time :
          \E target \in [A -> Entity] : Assign(A, target, n, s, t)
    \/ \E a \in Assignment, n \in Quantity : EditLine(a, n)
    \/ \E a \in Assignment, e \in Entity : MoveLine(a, e)
    \/ \E a \in Assignment, s, t \in Time : WriteTimes(a, s, t)
    \/ \E a \in Assignment : Unassign(a)
    \/ \E n \in Lives : EditLife(n)
    \/ Commit

LEMMA NextIsStep ==
    ASSUME TypeOK, Next PROVE Step
<1>1. stock \subseteq Entity /\ Lines(None) \subseteq Assignment
  BY DEF TypeOK, Lines
<1>2. ASSUME NEW A \in SUBSET Lines(None), NEW n \in Quantity, NEW s \in Time, NEW t \in Time,
             NEW target \in [A -> stock], Assign(A, target, n, s, t)
      PROVE  Step
  <2>1. A \in SUBSET Assignment /\ target \in [A -> Entity]
    BY <1>1
  <2> QED
    BY <1>2, <2>1 DEF Step
<1>3. ASSUME NEW e \in Entity, NEW E \in SUBSET (stock \ Lifespan), Organize(E, e)
      PROVE  Step
  <2>1. E \in SUBSET Entity
    BY <1>1
  <2> QED
    BY <1>3, <2>1 DEF Step
<1>4. ASSUME NEW e \in Entity,
             \/ \E n \in Quantity : CreateEntity(e, n) \/ EditEntity(e, n)
             \/ Discard(e) \/ DeleteEntity(e)
      PROVE  Step
  BY <1>4 DEF Step
<1>5. ASSUME NEW a \in Assignment,
             \/ \E n \in Quantity : EditLine(a, n)
             \/ \E e \in Entity : MoveLine(a, e)
             \/ \E s, t \in Time : WriteTimes(a, s, t)
             \/ Unassign(a)
      PROVE  Step
  BY <1>5 DEF Step
<1>6. CASE Commit \/ \E n \in Lives : EditLife(n)
  BY <1>6 DEF Step
<1> QED
  BY <1>2, <1>3, <1>4, <1>5, <1>6 DEF Next

-----------------------------------------------------------------------------
(* The types. *)

LEMMA StoreType ==
    ASSUME NEW R, Store(R), avail \in [Entity -> Int],
           (quantity \in [Entity -> Quantity])'
    PROVE  avail' \in [Entity -> Int]
BY AmountTypeNext DEF Store

LEMMA RecomputeType ==
    ASSUME NEW R, NEW kept, Recompute(R, kept), avail \in [Entity -> Int],
           (quantity \in [Entity -> Quantity])',
           kept \in [Entity -> Int \union {NotRead}]
    PROVE  avail' \in [Entity -> Int] /\ cached' \in [Entity -> Int \union {NotRead}]
BY StoreType, HoursTypeNext DEF Recompute

LEMMA RewriteType ==
    ASSUME TypeOK, NEW e, Rewrite(e), (quantity \in [Entity -> Quantity])'
    PROVE  avail' \in [Entity -> Int] /\ cached' \in [Entity -> Int \union {NotRead}]
BY StoreType, HoursTypeNext DEF Rewrite, TypeOK

LEMMA NothingReadType == NothingRead \in [Entity -> Int \union {NotRead}]
BY DEF NothingRead

LEMMA TypeStep ==
    ASSUME TypeOK, [Next]_vars PROVE TypeOK'
<1> USE BoundAssumption
<1>1. CASE UNCHANGED vars
  BY <1>1 DEF vars, TypeOK
<1>2. CASE Next
  <2>1. ASSUME NEW e \in Entity, NEW n \in Quantity, CreateEntity(e, n) PROVE TypeOK'
    <3>1. (quantity \in [Entity -> Quantity])'
      BY <2>1 DEF CreateEntity, TypeOK
    <3>2. avail' \in [Entity -> Int] /\ cached' \in [Entity -> Int \union {NotRead}]
      BY <2>1, <3>1, RecomputeType DEF CreateEntity, TypeOK
    <3> QED
      BY <2>1, <3>1, <3>2 DEF CreateEntity, Recompute, TypeOK, lines
  <2>2. ASSUME NEW e \in Entity, NEW n \in Quantity, EditEntity(e, n) PROVE TypeOK'
    <3>1. (quantity \in [Entity -> Quantity])'
      BY <2>2 DEF EditEntity, TypeOK
    <3>2. avail' \in [Entity -> Int] /\ cached' \in [Entity -> Int \union {NotRead}]
      BY <2>2, <3>1, RewriteType DEF EditEntity
    <3> QED
      BY <2>2, <3>1, <3>2 DEF EditEntity, TypeOK, lines
  <2>3. ASSUME NEW e \in Entity, Discard(e) PROVE TypeOK'
    <3>1. (quantity \in [Entity -> Quantity])'
      BY <2>3 DEF Discard, TypeOK
    <3>2. avail' \in [Entity -> Int] /\ cached' \in [Entity -> Int \union {NotRead}]
      BY <2>3, <3>1, RewriteType DEF Discard
    <3> QED
      BY <2>3, <3>1, <3>2 DEF Discard, TypeOK, lines
  <2>4. ASSUME NEW e \in Entity, DeleteEntity(e) PROVE TypeOK'
    <3>1. 0 \in Quantity
      BY DEF Quantity
    <3>2. \A a \in Assignment : of[a] # e
      BY <2>4 DEF DeleteEntity, Lines
    <3>3. of' \in [Assignment -> stock' \union {None}]
      BY <2>4, <3>2 DEF DeleteEntity, TypeOK, lines
    <3>4. cached' \in [Entity -> Int \union {NotRead}]
      BY <2>4, NothingReadType DEF DeleteEntity
    <3>5. stale' \subseteq stock' /\ loose' \subseteq stock' /\ reopened' \subseteq stock'
      BY <2>4 DEF DeleteEntity, Forget, TypeOK
    <3>6. /\ stock' \subseteq Entity /\ quantity' \in [Entity -> Quantity]
          /\ discarded' \in [Entity -> BOOLEAN] /\ avail' \in [Entity -> Int]
      BY <2>4, <3>1 DEF DeleteEntity, TypeOK
    <3>7. life' \in Lives /\ qty' \in [Assignment -> Quantity]
      BY <2>4 DEF DeleteEntity, TypeOK, lines
    <3>8. start' \in [Assignment -> Time] /\ end' \in [Assignment -> Time]
      BY <2>4 DEF DeleteEntity, TypeOK, lines
    <3> QED
      BY <3>3, <3>4, <3>5, <3>6, <3>7, <3>8 DEF TypeOK
  <2>5. ASSUME NEW E \in SUBSET Entity, NEW e \in Entity, Organize(E, e) PROVE TypeOK'
    <3>1. (quantity \in [Entity -> Quantity])'
      BY <2>5 DEF Organize, TypeOK, Quantity
    <3>2. avail' \in [Entity -> Int]
      BY <2>5, <3>1, AmountTypeNext DEF Organize, TypeOK
    <3>3. \A a \in Assignment : of[a] \notin E
      BY <2>5 DEF Organize, Lines
    <3>4. of' \in [Assignment -> stock' \union {None}]
      BY <2>5, <3>3 DEF Organize, TypeOK, lines
    <3>5. discarded' \in [Entity -> BOOLEAN]
      BY <2>5 DEF Organize, TypeOK
    <3> QED
      BY <2>5, <3>1, <3>2, <3>4, <3>5, NothingReadType DEF Organize, Forget, TypeOK, lines
  <2>6. ASSUME NEW A \in SUBSET Assignment, NEW n \in Quantity, NEW s \in Time, NEW t \in Time,
               NEW target \in [A -> Entity], Assign(A, target, n, s, t)
        PROVE  TypeOK'
    <3>1. (quantity \in [Entity -> Quantity])'
      BY <2>6 DEF Assign, TypeOK, entities
    <3>2. avail' \in [Entity -> Int] /\ cached' \in [Entity -> Int \union {NotRead}]
      BY <2>6, <3>1, RecomputeType DEF Assign, TypeOK
    <3>3. of' \in [Assignment -> stock' \union {None}] /\ qty' \in [Assignment -> Quantity]
      BY <2>6 DEF Assign, TypeOK, entities
    <3>4. start' \in [Assignment -> Time] /\ end' \in [Assignment -> Time]
      BY <2>6 DEF Assign, TypeOK, Kept, Time
    <3>5. reopened' \subseteq stock'
      BY <2>6 DEF Assign, TypeOK, entities
    <3> QED
      BY <2>6, <3>1, <3>2, <3>3, <3>4, <3>5 DEF Assign, Recompute, TypeOK, entities
  <2>7. ASSUME NEW a \in Assignment, NEW n \in Quantity, EditLine(a, n) PROVE TypeOK'
    BY <2>7 DEF EditLine, TypeOK, entities
  <2>8. ASSUME NEW a \in Assignment, NEW e \in Entity, MoveLine(a, e) PROVE TypeOK'
    <3>1. (quantity \in [Entity -> Quantity])'
      BY <2>8 DEF MoveLine, TypeOK, entities
    <3>2. avail' \in [Entity -> Int] /\ cached' \in [Entity -> Int \union {NotRead}]
      BY <2>8, <3>1, RecomputeType DEF MoveLine, TypeOK
    <3> QED
      BY <2>8, <3>1, <3>2 DEF MoveLine, Recompute, TypeOK, entities
  <2>9. ASSUME NEW a \in Assignment, NEW s \in Time, NEW t \in Time, WriteTimes(a, s, t)
        PROVE  TypeOK'
    <3>1. (quantity \in [Entity -> Quantity])'
      BY <2>9 DEF WriteTimes, TypeOK, entities
    <3>2. avail' \in [Entity -> Int] /\ cached' \in [Entity -> Int \union {NotRead}]
      BY <2>9, <3>1, RewriteType DEF WriteTimes
    <3>3. of[a] \in stock
      BY <2>9 DEF WriteTimes, TypeOK
    <3>4. stale' \subseteq stock' /\ reopened' \subseteq stock'
      BY <2>9, <3>3 DEF WriteTimes, TypeOK, entities
    <3> QED
      BY <2>9, <3>1, <3>2, <3>4 DEF WriteTimes, TypeOK, entities
  <2>10. ASSUME NEW a \in Assignment, Unassign(a) PROVE TypeOK'
    <3>1. (quantity \in [Entity -> Quantity])'
      BY <2>10 DEF Unassign, TypeOK, entities
    <3>2. avail' \in [Entity -> Int] /\ cached' \in [Entity -> Int \union {NotRead}]
      BY <2>10, <3>1, RecomputeType, NothingReadType DEF Unassign, TypeOK
    <3> QED
      BY <2>10, <3>1, <3>2 DEF Unassign, Recompute, TypeOK, entities, Quantity, Time
  <2>11. ASSUME NEW n \in Lives, EditLife(n) PROVE TypeOK'
    BY <2>11 DEF EditLife, TypeOK, entities, lines
  <2>12. ASSUME Commit PROVE TypeOK'
    BY <2>12, NothingReadType DEF Commit, TypeOK, entities, lines
  <2> QED
    BY <1>2, <2>1, <2>2, <2>3, <2>4, <2>5, <2>6, <2>7, <2>8, <2>9, <2>10, <2>11, <2>12,
       NextIsStep DEF Step
<1> QED
  BY <1>1, <1>2

\* The state keeps its types: every line is on an entity that exists, and the
\* marks are on entities that exist.
THEOREM TypeInvariance == Spec => []TypeOK
<1>1. Init => TypeOK
  BY BoundAssumption, NothingReadType DEF Init, TypeOK, Quantity, Time
<1>2. TypeOK /\ [Next]_vars => TypeOK'
  BY TypeStep
<1> QED
  BY <1>1, <1>2, PTL DEF Spec

-----------------------------------------------------------------------------
(* The stored available quantity. *)

\* AvailableIsCurrent of e and, for it to last, that the hours in the cache are
\* those of the lines, if they are what the next computation may read
Right(e) ==
    /\ e \notin stale => avail[e] = Available(e)
    /\ discarded[e] \/ (e \in Lifespan /\ InUse(e)) => avail[e] = 0
    /\ e \in Lifespan /\ e \notin stale /\ cached[e] # NotRead => cached[e] = TotalHours(e)
    /\ e \notin Lifespan => cached[e] = NotRead

Current == \A e \in stock : Right(e)

\* Nothing e is computed from changes, or e is marked as stale
LEMMA Untouched ==
    ASSUME NEW e, Right(e), SameEntity(e), avail'[e] = avail[e],
           cached'[e] \in {cached[e], NotRead}, e \in stale => e \in stale',
           e \in stale' \/ (SameQuantities(e) /\ life' = life)
    PROVE  Right(e)'
<1>1. InUse(e)' = InUse(e) /\ TotalHours(e)' = TotalHours(e)
  BY SameUse DEF SameEntity
<1>2. e \notin stale' => avail'[e] = Available(e)'
  BY SameAvailable DEF Right
<1> QED
  BY <1>1, <1>2 DEF Right, SameEntity

\* The lines of e came or went, or e is new
LEMMA Recomputed ==
    ASSUME NEW R, NEW kept, Recompute(R, kept), NEW e \in Entity, e \in R
    PROVE  Right(e)'
<1>1. avail'[e] = Amount(e, cached[e])' /\ e \notin stale'
  BY DEF Recompute, Store
<1>2. cached'[e] = IF e \in Lifespan /\ ~ InUse(e)' THEN TotalHours(e)' ELSE NotRead
  BY DEF Recompute
<1>3. avail'[e] = Available(e)'
  BY <1>1, <1>2 DEF Amount, Available
<1>4. discarded'[e] \/ (e \in Lifespan /\ InUse(e)') => avail'[e] = 0
  BY <1>1 DEF Amount
<1> QED
  BY <1>2, <1>3, <1>4 DEF Right

LEMMA RecomputeKeeps ==
    ASSUME NEW R, Recompute(R, cached) \/ Recompute(R, NothingRead),
           NEW e \in Entity, e \notin R, Right(e),
           SameEntity(e), SameQuantities(e), life' = life
    PROVE  Right(e)'
BY Untouched DEF Recompute, Store, NothingRead

\* e or a line of it is written: hours the cache has may be wrong, and then e
\* is marked as stale
LEMMA Rewritten ==
    ASSUME TypeOK, NEW e \in Entity, Right(e), Rewrite(e),
           cached[e] = NotRead \/ e \in stale' \/ (e \notin stale /\ SameLines(e))
    PROVE  Right(e)'
<1>1. avail'[e] = Amount(e, cached[e])'
  BY DEF Rewrite, Store
<1>2. cached'[e] = IF e \in Lifespan /\ cached[e] = NotRead THEN TotalHours(e)' ELSE cached[e]
  BY DEF Rewrite, TypeOK
<1>3. discarded'[e] \/ (e \in Lifespan /\ InUse(e)') => avail'[e] = 0
  BY <1>1 DEF Amount
<1>4. e \notin Lifespan => cached'[e] = NotRead
  BY <1>2 DEF Right
<1>5. e \in Lifespan /\ e \notin stale' => cached'[e] = TotalHours(e)'
  BY <1>2, SameUse DEF Right
<1>6. e \notin stale' => avail'[e] = Available(e)'
  BY <1>1, <1>5 DEF Amount, Available
<1> QED
  BY <1>3, <1>4, <1>5, <1>6 DEF Right

LEMMA RewriteKeeps ==
    ASSUME TypeOK, NEW x, Rewrite(x), NEW e \in Entity, e # x, Right(e),
           SameEntity(e), SameQuantities(e), life' = life, e \in stale => e \in stale'
    PROVE  Right(e)'
BY Untouched DEF Rewrite, Store, TypeOK

LEMMA CurrentStep ==
    ASSUME TypeOK, TypeOK', Current, [Next]_vars PROVE Current'
<1>0. \A e \in stock' : e \in Entity /\ e # None
  BY EntityAssumption DEF TypeOK
<1>1. CASE UNCHANGED vars
  <2>1. ASSUME NEW e \in stock' PROVE SameEntity(e) /\ SameQuantities(e)
    BY <1>1, <2>1 DEF vars, SameEntity, SameLines, SameQuantities
  <2>2. ASSUME NEW e \in stock' PROVE Right(e)'
    BY <1>1, <2>1, <2>2, Untouched DEF vars, Current
  <2> QED
    BY <2>2 DEF Current
<1>2. CASE Next
  <2>1. ASSUME NEW x \in Entity, NEW n \in Quantity, CreateEntity(x, n),
               NEW e \in stock'
        PROVE  Right(e)'
    <3>1. CASE e = x
      BY <2>1, <3>1, Recomputed DEF CreateEntity
    <3>2. CASE e # x
      <4>1. SameEntity(e) /\ SameQuantities(e)
        BY <2>1, <1>0, <3>2 DEF CreateEntity, lines, SameEntity, SameLines, SameQuantities, TypeOK
      <4>2. Right(e)
        BY <2>1, <3>2 DEF CreateEntity, Current
      <4> QED
        BY <1>0, <2>1, <3>2, <4>1, <4>2, RecomputeKeeps DEF CreateEntity
    <3> QED
      BY <3>1, <3>2
  <2>2. ASSUME NEW x \in Entity, NEW n \in Quantity, EditEntity(x, n),
               NEW e \in stock'
        PROVE  Right(e)'
    <3>1. Right(e)
      BY <2>2 DEF EditEntity, Current
    <3>2. SameLines(e) /\ SameQuantities(e)
      BY <2>2 DEF EditEntity, lines, SameLines, SameQuantities
    <3>3. CASE e = x
      BY <2>2, <3>1, <3>2, <3>3, Rewritten DEF EditEntity
    <3>4. CASE e # x
      <4>1. SameEntity(e)
        BY <2>2, <3>2, <3>4 DEF EditEntity, SameEntity, TypeOK
      <4> QED
        BY <1>0, <2>2, <3>1, <3>2, <3>4, <4>1, RewriteKeeps DEF EditEntity
    <3> QED
      BY <3>3, <3>4
  <2>3. ASSUME NEW x \in Entity, Discard(x), NEW e \in stock'
        PROVE  Right(e)'
    <3>1. Right(e)
      BY <2>3 DEF Discard, Current
    <3>2. SameLines(e) /\ SameQuantities(e)
      BY <2>3 DEF Discard, lines, SameLines, SameQuantities
    <3>3. CASE e = x
      BY <2>3, <3>1, <3>2, <3>3, Rewritten DEF Discard
    <3>4. CASE e # x
      <4>1. SameEntity(e)
        BY <2>3, <3>2, <3>4 DEF Discard, SameEntity, TypeOK
      <4> QED
        BY <1>0, <2>3, <3>1, <3>2, <3>4, <4>1, RewriteKeeps DEF Discard
    <3> QED
      BY <3>3, <3>4
  <2>4. ASSUME NEW x \in Entity, DeleteEntity(x), NEW e \in stock'
        PROVE  Right(e)'
    <3>1. SameEntity(e) /\ SameQuantities(e) /\ Right(e)
      BY <2>4, <1>0
      DEF DeleteEntity, lines, SameEntity, SameLines, SameQuantities, TypeOK, Current
    <3>2. avail'[e] = avail[e] /\ cached'[e] = NotRead /\ (e \in stale => e \in stale')
      BY <2>4, <1>0 DEF DeleteEntity, Forget, NothingRead, TypeOK
    <3> QED
      BY <2>4, <3>1, <3>2, Untouched DEF DeleteEntity
  <2>5. ASSUME NEW E \in SUBSET Entity, NEW x \in Entity, Organize(E, x), NEW e \in stock'
        PROVE  Right(e)'
    <3>1. CASE e = x
      <4>1. e \notin Lifespan /\ avail'[e] = Available(e)' /\ cached'[e] = NotRead
        BY <2>5, <3>1 DEF Organize, NothingRead
      <4> QED
        BY <4>1 DEF Right, Available, Amount
    <3>2. CASE e # x
      <4>1. e \in stock /\ e \notin E /\ e \in Entity
        BY <1>0, <2>5, <3>2 DEF Organize
      <4>2. discarded'[e] = discarded[e]
        BY <2>5, <3>2, <4>1 DEF Organize, TypeOK
      <4>3. quantity'[e] = quantity[e] /\ avail'[e] = avail[e]
        BY <2>5, <3>2, <4>1 DEF Organize
      <4>4. SameLines(e) /\ SameQuantities(e)
        BY <2>5 DEF Organize, lines, SameLines, SameQuantities
      <4>5. (e \in stale => e \in stale') /\ cached'[e] = NotRead /\ life' = life
        BY <2>5, <4>1 DEF Organize, Forget, NothingRead
      <4>6. SameEntity(e) /\ Right(e)
        BY <4>1, <4>2, <4>3, <4>4 DEF SameEntity, Current
      <4> QED
        BY <4>3, <4>4, <4>5, <4>6, Untouched
    <3> QED
      BY <3>1, <3>2
  <2>6. ASSUME NEW A \in SUBSET Assignment, NEW n \in Quantity, NEW s \in Time, NEW t \in Time,
               NEW target \in [A -> Entity], Assign(A, target, n, s, t), NEW e \in stock'
        PROVE  Right(e)'
    <3>1. CASE e \in {target[a] : a \in A}
      BY <1>0, <2>6, <3>1, Recomputed DEF Assign
    <3>2. CASE e \notin {target[a] : a \in A}
      <4>1. \A a \in Assignment : a \in A => of[a] # e /\ of'[a] # e
        BY <1>0, <2>6, <3>2 DEF Assign
      <4>2. \A a \in Assignment : a \notin A =>
              of'[a] = of[a] /\ qty'[a] = qty[a] /\ start'[a] = start[a] /\ end'[a] = end[a]
        BY <2>6 DEF Assign
      <4>3. SameLines(e) /\ SameQuantities(e)
        BY <4>1, <4>2 DEF SameLines, SameQuantities
      <4>4. SameEntity(e) /\ Right(e)
        BY <2>6, <4>3 DEF Assign, SameEntity, entities, Current
      <4> QED
        BY <1>0, <2>6, <3>2, <4>3, <4>4, RecomputeKeeps DEF Assign
    <3> QED
      BY <3>1, <3>2
  <2>7. ASSUME NEW x \in Assignment, NEW n \in Quantity, EditLine(x, n), NEW e \in stock'
        PROVE  Right(e)'
    <3>1. SameEntity(e) /\ Right(e)
      BY <2>7 DEF EditLine, SameEntity, SameLines, entities, Current
    <3>2. e = of[x] \/ SameQuantities(e)
      BY <2>7 DEF EditLine, SameQuantities, TypeOK
    <3> QED
      BY <2>7, <3>1, <3>2, Untouched DEF EditLine
  <2>8. ASSUME NEW x \in Assignment, NEW f \in Entity, MoveLine(x, f), NEW e \in stock'
        PROVE  Right(e)'
    <3>1. CASE e \in {of[x], f}
      BY <1>0, <2>8, <3>1, Recomputed DEF MoveLine
    <3>2. CASE e \notin {of[x], f}
      <4>1. SameEntity(e) /\ SameQuantities(e) /\ Right(e)
        BY <2>8, <3>2
        DEF MoveLine, SameEntity, SameLines, SameQuantities, entities, TypeOK, Current
      <4> QED
        BY <1>0, <2>8, <3>2, <4>1, RecomputeKeeps DEF MoveLine
    <3> QED
      BY <3>1, <3>2
  <2>9. ASSUME NEW x \in Assignment, NEW s \in Time, NEW t \in Time, WriteTimes(x, s, t),
               NEW e \in stock'
        PROVE  Right(e)'
    <3>1. Right(e)
      BY <2>9 DEF WriteTimes, entities, Current
    <3>2. CASE e = of[x]
      BY <1>0, <2>9, <3>1, <3>2, Rewritten DEF WriteTimes
    <3>3. CASE e # of[x]
      <4>1. SameEntity(e) /\ SameQuantities(e)
        BY <2>9, <3>3 DEF WriteTimes, SameEntity, SameLines, SameQuantities, entities, TypeOK
      <4> QED
        BY <1>0, <2>9, <3>1, <3>3, <4>1, RewriteKeeps DEF WriteTimes
    <3> QED
      BY <3>2, <3>3
  <2>10. ASSUME NEW x \in Assignment, Unassign(x), NEW e \in stock'
         PROVE  Right(e)'
    <3>1. CASE e = of[x]
      BY <1>0, <2>10, <3>1, Recomputed DEF Unassign
    <3>2. CASE e # of[x]
      <4>1. SameEntity(e) /\ SameQuantities(e) /\ Right(e)
        BY <1>0, <2>10, <3>2
        DEF Unassign, SameEntity, SameLines, SameQuantities, entities, TypeOK, Current
      <4> QED
        BY <1>0, <2>10, <3>2, <4>1, RecomputeKeeps DEF Unassign
    <3> QED
      BY <3>1, <3>2
  <2>11. ASSUME NEW n \in Lives, EditLife(n), NEW e \in stock'
         PROVE  Right(e)'
    <3>1. SameEntity(e) /\ SameQuantities(e) /\ Right(e)
      BY <2>11
      DEF EditLife, SameEntity, SameLines, SameQuantities, entities, lines, Current
    <3>2. CASE e \in Lifespan
      <4>1. e \in stale' /\ avail'[e] = avail[e] /\ cached'[e] = cached[e]
        BY <2>11, <3>2 DEF EditLife, entities
      <4> QED
        BY <3>1, <4>1, Untouched
    <3>3. CASE e \notin Lifespan
      <4>1. Available(e)' = Available(e)
        BY <3>1, <3>3, SameUsed DEF SameEntity, Available, Amount
      <4> QED
        BY <2>11, <3>1, <3>3, <4>1 DEF EditLife, Right, SameEntity, entities
    <3> QED
      BY <3>2, <3>3
  <2>12. ASSUME Commit, NEW e \in stock'
         PROVE  Right(e)'
    <3>1. SameEntity(e) /\ SameQuantities(e) /\ Right(e)
      BY <2>12
      DEF Commit, SameEntity, SameLines, SameQuantities, entities, lines, Current
    <3>2. cached'[e] = NotRead
      BY <1>0, <2>12 DEF Commit, NothingRead
    <3> QED
      BY <2>12, <3>1, <3>2, Untouched DEF Commit
  <2>13. \A e \in stock' : Right(e)'
    BY <1>2, <2>1, <2>2, <2>3, <2>4, <2>5, <2>6, <2>7, <2>8, <2>9, <2>10, <2>11, <2>12,
       NextIsStep DEF Step
  <2> QED
    BY <2>13 DEF Current
<1> QED
  BY <1>1, <1>2

LEMMA CurrentInvariance == Spec => [](TypeOK /\ Current)
<1>1. Init => TypeOK /\ Current
  BY BoundAssumption, NothingReadType DEF Init, TypeOK, Quantity, Time, Current
<1>2. TypeOK /\ Current /\ [Next]_vars => TypeOK' /\ Current'
  BY TypeStep, CurrentStep
<1> QED
  BY <1>1, <1>2, PTL DEF Spec

\* The stored available quantity is the computed one, but where a line's
\* quantity or the longest life was written since, or where the moments of
\* lines were written more than once in a transaction.
THEOREM CurrentTheorem == Spec => []AvailableIsCurrent
<1>1. Current => AvailableIsCurrent
  BY DEF Current, Right, AvailableIsCurrent
<1> QED
  BY <1>1, CurrentInvariance, PTL

-----------------------------------------------------------------------------
(* What a line is created on. *)

LEMMA FitFromAvailable ==
    ASSUME TypeOK, Current, NEW e \in stock, MayAssign(e)
    PROVE  FitToAssign(e)
<1>1. e \in Entity /\ avail[e] \in Int /\ avail[e] > 0 /\ quantity[e] \in Nat
  BY DEF TypeOK, MayAssign, Quantity
<1>2. ~ discarded[e] /\ (e \in Lifespan => ~ InUse(e))
  BY <1>1 DEF Current, Right
<1>3. CASE e \in stale
  BY <1>2, <1>3 DEF FitToAssign
<1>4. CASE e \notin stale
  <2>1. avail[e] = Available(e)
    BY <1>4 DEF Current, Right
  <2> QED
    BY <1>1, <1>2, <2>1, UsedType DEF Available, Amount, FitToAssign
<1> QED
  BY <1>3, <1>4

\* A line is only created on an entity in service that has something left.
THEOREM FitTheorem == Spec => OnlyFitIsAssigned
<1> DEFINE Fit == \A a \in Assignment :
                     of[a] = None /\ of'[a] # None => FitToAssign(of'[a])
<1>1. TypeOK /\ Current /\ [Next]_vars => [Fit]_vars
  <2> SUFFICES ASSUME TypeOK, Current, Next, NEW a \in Assignment,
                      of[a] = None, of'[a] # None
               PROVE  FitToAssign(of'[a])
    OBVIOUS
  <2>1. ASSUME NEW A \in SUBSET Assignment, NEW n \in Quantity, NEW s \in Time, NEW t \in Time,
               NEW target \in [A -> Entity], Assign(A, target, n, s, t)
        PROVE  FitToAssign(of'[a])
    <3>1. a \in A /\ of'[a] = target[a]
      BY <2>1 DEF Assign
    <3>2. of'[a] \in stock /\ MayAssign(of'[a])
      BY <2>1, <3>1 DEF Assign
    <3> QED
      BY <3>2, FitFromAvailable
  <2>2. ASSUME NEW x \in Assignment, NEW s \in Time, NEW t \in Time, WriteTimes(x, s, t)
        PROVE  FALSE
    BY <2>2 DEF WriteTimes
  <2>3. ASSUME NEW x \in Assignment,
               \/ \E n \in Quantity : EditLine(x, n)
               \/ \E e \in Entity : MoveLine(x, e)
               \/ Unassign(x)
        PROVE  FALSE
    BY <2>3 DEF EditLine, MoveLine, Unassign, TypeOK
  <2>4. ASSUME NEW e \in Entity,
               \/ \E n \in Quantity : CreateEntity(e, n) \/ EditEntity(e, n)
               \/ Discard(e) \/ DeleteEntity(e)
               \/ \E E \in SUBSET Entity : Organize(E, e)
        PROVE  FALSE
    BY <2>4 DEF CreateEntity, EditEntity, Discard, DeleteEntity, Organize, lines
  <2>5. ASSUME Commit \/ \E n \in Lives : EditLife(n)
        PROVE  FALSE
    BY <2>5 DEF Commit, EditLife, lines
  <2> QED
    BY <2>1, <2>2, <2>3, <2>4, <2>5, NextIsStep DEF Step
<1> QED
  BY <1>1, CurrentInvariance, PTL DEF Spec, OnlyFitIsAssigned

-----------------------------------------------------------------------------
(* One user at a time. *)

LEMMA OneUserStep ==
    ASSUME TypeOK, TypeOK', Current, OneUserAtATime, [Next]_vars PROVE OneUserAtATime'
<1> SUFFICES ASSUME NEW e \in Lifespan, e \notin reopened',
                    NEW a \in Assignment, of'[a] = e, Open(a)',
                    NEW b \in Assignment, of'[b] = e, Open(b)', a # b
             PROVE  FALSE
  BY DEF OneUserAtATime, Lines
<1> USE EntityAssumption
\* It is enough that both were open lines of e, and e not excused, before
<1>0. ~ /\ e \notin reopened
        /\ of[a] = e /\ of[b] = e /\ Open(a) /\ Open(b)
  BY DEF OneUserAtATime, Lines
<1>1. CASE UNCHANGED vars
  BY <1>0, <1>1 DEF vars, Open
<1>2. CASE Next
  <2>1. ASSUME NEW x \in Entity,
               \/ \E n \in Quantity : CreateEntity(x, n) \/ EditEntity(x, n)
               \/ Discard(x)
        PROVE  FALSE
    BY <1>0, <2>1 DEF CreateEntity, EditEntity, Discard, lines, Open
  <2>2. ASSUME NEW x \in Entity, DeleteEntity(x)
        PROVE  FALSE
    BY <1>0, <2>2 DEF DeleteEntity, Forget, lines, Open, Lines
  <2>3. ASSUME NEW x \in Entity, NEW E \in SUBSET Entity, Organize(E, x)
        PROVE  FALSE
    BY <1>0, <2>3 DEF Organize, Forget, lines, Open, Lines
  <2>4. ASSUME NEW A \in SUBSET Assignment, NEW n \in Quantity, NEW s \in Time, NEW t \in Time,
               NEW target \in [A -> Entity], Assign(A, target, n, s, t)
        PROVE  FALSE
    <3>1. CASE e \in {target[c] : c \in A}
      <4>1. e \in stock /\ MayAssign(e)
        BY <2>4, <3>1 DEF Assign
      <4>2. FitToAssign(e)
        BY <4>1, FitFromAvailable
      <4>3. \A c \in Assignment : of[c] = e => ~ Open(c)
        BY <4>2 DEF FitToAssign, InUse, Lines
      <4>4. a \in A /\ b \in A
        BY <2>4, <4>3 DEF Assign, Open
      <4> QED
        BY <2>4, <3>1, <4>4 DEF Assign
    <3>2. CASE e \notin {target[c] : c \in A}
      <4>1. a \notin A /\ b \notin A
        BY <2>4, <3>2 DEF Assign
      <4> QED
        BY <1>0, <2>4, <4>1 DEF Assign, Open
    <3> QED
      BY <3>1, <3>2
  <2>5. ASSUME NEW x \in Assignment, NEW n \in Quantity, EditLine(x, n)
        PROVE  FALSE
    BY <1>0, <2>5 DEF EditLine, Open
  <2>6. ASSUME NEW x \in Assignment, NEW f \in Entity, MoveLine(x, f)
        PROVE  FALSE
    <3>1. e \notin reopened /\ Open(a) /\ Open(b)
      BY <2>6 DEF MoveLine, Open
    <3>2. CASE x # a /\ x # b
      BY <1>0, <2>6, <3>1, <3>2 DEF MoveLine, TypeOK
    <3>3. CASE x = a \/ x = b
      BY <2>6, <3>1, <3>3 DEF MoveLine, TypeOK
    <3> QED
      BY <3>2, <3>3
  <2>7. ASSUME NEW x \in Assignment, Unassign(x)
        PROVE  FALSE
    <3>1. a # x /\ b # x
      BY <2>7 DEF Unassign, TypeOK
    <3> QED
      BY <1>0, <2>7, <3>1 DEF Unassign, Open, TypeOK
  <2>8. ASSUME NEW x \in Assignment, NEW s \in Time, NEW t \in Time, WriteTimes(x, s, t)
        PROVE  FALSE
    <3>1. e \notin reopened /\ of[a] = e /\ of[b] = e
      BY <2>8 DEF WriteTimes
    <3>2. ASSUME NEW c \in Assignment, of[c] = e, Open(c)', ~ Open(c)
          PROVE  FALSE
      <4>1. c = x
        BY <2>8, <3>2 DEF WriteTimes, Open, TypeOK
      <4> QED
        BY <2>8, <3>2, <4>1 DEF WriteTimes
    <3> QED
      BY <1>0, <3>1, <3>2
  <2>9. ASSUME Commit \/ \E n \in Lives : EditLife(n)
        PROVE  FALSE
    BY <1>0, <2>9 DEF Commit, EditLife, lines, Open
  <2> QED
    BY <1>2, <2>1, <2>2, <2>3, <2>4, <2>5, <2>6, <2>7, <2>8, <2>9, NextIsStep DEF Step
<1> QED
  BY <1>1, <1>2

\* An entity with a life span has one user, unless a line was reopened, moved
\* open, or created with a twin.
THEOREM OneUserTheorem == Spec => []OneUserAtATime
<1>1. Init => TypeOK /\ Current /\ OneUserAtATime
  BY BoundAssumption, EntityAssumption, NothingReadType
  DEF Init, TypeOK, Quantity, Time, Current, OneUserAtATime, Lines
<1>2. TypeOK /\ Current /\ OneUserAtATime /\ [Next]_vars
      => TypeOK' /\ Current' /\ OneUserAtATime'
  BY TypeStep, CurrentStep, OneUserStep
<1> QED
  BY <1>1, <1>2, PTL DEF Spec

-----------------------------------------------------------------------------
(* No entity is over-assigned. *)

\* Without a life span only a rewritten quantity makes the stored available
\* quantity stale, so that the checks of an entity that is not excused read a
\* current one.
Checked == stale \ Lifespan \subseteq loose /\ NeverOverAssigned

\* The lines of e, but perhaps for some that left, are as they were
FewerLines(e) ==
    \A a \in Assignment : of'[a] = e => of[a] = e /\ qty'[a] = qty[a]

LEMMA FewerUsed ==
    ASSUME NEW e, FewerLines(e) PROVE Used(e)' <= Used(e)
<1>1. Lines(e)' \subseteq Lines(e) /\ IsFiniteSet(Lines(e))
  BY FiniteAssumption, FS_Subset DEF Lines, FewerLines
<1>2. \A a \in Lines(e)' : qty[a] = qty'[a]
  BY DEF Lines, FewerLines
<1>3. SumOver(Lines(e)', qty', MaxQuantity) <= SumOver(Lines(e), qty, MaxQuantity)
  BY <1>1, <1>2, SumSubset, BoundAssumption
<1> QED
  BY <1>3 DEF Used

\* What keeps a step from over-assigning an entity: it is excused, no line
\* came and its quantity is the same, it has no line, or the computed
\* available quantity was checked
Bounded(e) ==
    \/ e \in Lifespan \union loose'
    \/ e \in stock \ loose /\ quantity'[e] = quantity[e] /\ FewerLines(e)
    \/ Lines(e)' = {}
    \/ avail'[e] = Available(e)' /\ avail'[e] >= 0 /\ ~ discarded'[e]

LEMMA CheckedFromBounded ==
    ASSUME TypeOK, TypeOK', Checked, stale' \ Lifespan \subseteq loose',
           \A e \in stock' : Bounded(e)
    PROVE  Checked'
<1> SUFFICES ASSUME NEW e \in stock', e \notin Lifespan \union loose'
             PROVE  Used(e)' <= quantity'[e]
  BY DEF Checked, NeverOverAssigned
<1>0. e \in Entity /\ quantity'[e] \in Nat /\ Used(e) \in Nat /\ Used(e)' \in Nat
  BY UsedType, UsedTypeNext DEF TypeOK, Quantity
<1>1. CASE e \in stock \ loose /\ quantity'[e] = quantity[e] /\ FewerLines(e)
  <2>1. Used(e) <= quantity[e]
    BY <1>1 DEF Checked, NeverOverAssigned
  <2>2. Used(e)' <= Used(e)
    BY <1>1, FewerUsed
  <2> QED
    BY <1>0, <1>1, <2>1, <2>2
<1>2. CASE Lines(e)' = {}
  BY <1>0, <1>2, UnusedNext
<1>3. CASE avail'[e] = Available(e)' /\ avail'[e] >= 0 /\ ~ discarded'[e]
  <2>1. e \notin Lifespan /\ quantity'[e] - Used(e)' >= 0
    BY <1>3 DEF Available, Amount
  <2> QED
    BY <1>0, <2>1
<1> QED
  BY <1>1, <1>2, <1>3 DEF Bounded

LEMMA CheckedStep ==
    ASSUME TypeOK, TypeOK', Current, Checked, [Next]_vars PROVE Checked'
<1> USE EntityAssumption
<1>0. \A e \in stock' : e \in Entity /\ e # None
  BY DEF TypeOK
<1>1. CASE UNCHANGED vars
  <2>1. \A e \in stock' : Bounded(e)
    BY <1>1 DEF vars, Bounded, FewerLines
  <2> QED
    BY <1>1, <2>1, CheckedFromBounded DEF vars, Checked
<1>2. CASE Next
  <2> DEFINE Goal == stale' \ Lifespan \subseteq loose' /\ \A e \in stock' : Bounded(e)
  <2>1. ASSUME NEW x \in Entity, NEW n \in Quantity, CreateEntity(x, n) PROVE Goal
    <3>1. stale' \ Lifespan \subseteq loose'
      BY <2>1 DEF CreateEntity, Recompute, Checked
    <3>2. Lines(x)' = {}
      BY <2>1 DEF CreateEntity, lines, Lines, TypeOK
    <3>3. ASSUME NEW e \in stock', e # x PROVE Bounded(e)
      BY <1>0, <2>1, <3>3 DEF CreateEntity, lines, Bounded, FewerLines, TypeOK
    <3> QED
      BY <3>1, <3>2, <3>3 DEF Bounded
  <2>2. ASSUME NEW x \in Entity, NEW n \in Quantity, EditEntity(x, n) PROVE Goal
    <3>1. stale' \ Lifespan \subseteq loose'
      BY <2>2 DEF EditEntity, Checked
    <3>2. ASSUME NEW e \in stock' PROVE Bounded(e)
      BY <1>0, <2>2, <3>2 DEF EditEntity, lines, Bounded, FewerLines, TypeOK
    <3> QED
      BY <3>1, <3>2
  <2>3. ASSUME NEW x \in Entity, Discard(x) PROVE Goal
    BY <1>0, <2>3 DEF Discard, Checked, lines, Bounded, FewerLines
  <2>4. ASSUME NEW x \in Entity, DeleteEntity(x) PROVE Goal
    <3>1. stale' \ Lifespan \subseteq loose'
      BY <2>4 DEF DeleteEntity, Forget, Checked
    <3>2. ASSUME NEW e \in stock' PROVE Bounded(e)
      BY <1>0, <2>4, <3>2 DEF DeleteEntity, Forget, lines, Bounded, FewerLines, TypeOK
    <3> QED
      BY <3>1, <3>2
  <2>5. ASSUME NEW x \in Entity, NEW E \in SUBSET Entity, Organize(E, x) PROVE Goal
    <3>1. stale' \ Lifespan \subseteq loose'
      BY <2>5 DEF Organize, Forget, Checked
    <3>2. Lines(x)' = {}
      BY <2>5 DEF Organize, lines, Lines, TypeOK
    <3>3. ASSUME NEW e \in stock', e # x PROVE Bounded(e)
      <4>1. e \in stock \ E
        BY <2>5, <3>3 DEF Organize
      <4>2. quantity'[e] = quantity[e]
        BY <1>0, <2>5, <3>3, <4>1 DEF Organize
      <4>3. FewerLines(e)
        BY <2>5 DEF Organize, lines, FewerLines
      <4>4. e \in loose => e \in loose'
        BY <2>5, <4>1 DEF Organize, Forget
      <4> QED
        BY <4>1, <4>2, <4>3, <4>4 DEF Bounded
    <3> QED
      BY <3>1, <3>2, <3>3 DEF Bounded
  <2>6. ASSUME NEW A \in SUBSET Assignment, NEW n \in Quantity, NEW s \in Time, NEW t \in Time,
               NEW target \in [A -> Entity], Assign(A, target, n, s, t)
        PROVE  Goal
    <3>1. stale' \ Lifespan \subseteq loose'
      BY <2>6 DEF Assign, Recompute, Checked
    <3>2. ASSUME NEW e \in stock', e \in {target[a] : a \in A} PROVE Bounded(e)
      <4>1. e \in stock /\ e \in Entity /\ MayAssign(e) /\ StillAvailable(e)
        BY <1>0, <2>6, <3>2 DEF Assign, entities
      <4>2. ~ discarded'[e]
        BY <2>6, <4>1, FitFromAvailable DEF FitToAssign, Assign, entities
      <4>3. e \notin stale' /\ Right(e)'
        BY <2>6, <3>2, <4>1, Recomputed DEF Assign, Recompute
      <4> QED
        BY <4>1, <4>2, <4>3 DEF Bounded, StillAvailable, Right
    <3>3. ASSUME NEW e \in stock', e \notin {target[a] : a \in A} PROVE Bounded(e)
      <4>1. FewerLines(e)
        BY <2>6, <3>3 DEF Assign, FewerLines
      <4> QED
        BY <2>6, <4>1 DEF Assign, Bounded, entities
    <3> QED
      BY <3>1, <3>2, <3>3
  <2>7. ASSUME NEW x \in Assignment, NEW n \in Quantity, EditLine(x, n) PROVE Goal
    <3>1. stale' \ Lifespan \subseteq loose'
      BY <2>7 DEF EditLine, Checked
    <3>2. ASSUME NEW e \in stock' PROVE Bounded(e)
      BY <1>0, <2>7, <3>2 DEF EditLine, Bounded, FewerLines, TypeOK, entities
    <3> QED
      BY <3>1, <3>2
  <2>8. ASSUME NEW x \in Assignment, NEW f \in Entity, MoveLine(x, f) PROVE Goal
    <3>1. stale' \ Lifespan \subseteq loose'
      BY <2>8 DEF MoveLine, Recompute, Checked
    <3>2. Bounded(f)
      <4>0. f \notin stale' /\ Right(f)'
        BY <2>8, Recomputed DEF MoveLine, Recompute
      <4>1. avail'[f] = Available(f)' /\ avail'[f] >= 0
        BY <2>8, <4>0 DEF MoveLine, StillAvailable, Right
      <4> QED
        BY <2>8, <4>1 DEF MoveLine, Bounded, entities
    <3>3. ASSUME NEW e \in stock', e # f PROVE Bounded(e)
      <4>1. FewerLines(e)
        BY <2>8, <3>3 DEF MoveLine, FewerLines, TypeOK
      <4> QED
        BY <2>8, <3>3, <4>1 DEF MoveLine, Bounded, entities
    <3> QED
      BY <3>1, <3>2, <3>3
  <2>9. ASSUME NEW x \in Assignment, Unassign(x) PROVE Goal
    <3>1. stale' \ Lifespan \subseteq loose'
      BY <2>9 DEF Unassign, Recompute, Checked
    <3>2. ASSUME NEW e \in stock' PROVE Bounded(e)
      <4>0. \A a \in Assignment : of'[a] = IF a = x THEN None ELSE of[a]
        BY <2>9 DEF Unassign, TypeOK
      <4>1. FewerLines(e)
        BY <1>0, <2>9, <4>0 DEF Unassign, FewerLines, TypeOK
      <4> QED
        BY <2>9, <4>1 DEF Unassign, Bounded, entities
    <3> QED
      BY <3>1, <3>2
  <2>10. ASSUME NEW x \in Assignment, NEW s \in Time, NEW t \in Time, WriteTimes(x, s, t)
         PROVE  Goal
    <3>1. of[x] \in Lifespan \/ cached[of[x]] = NotRead
      BY <2>10 DEF WriteTimes, TypeOK, Current, Right
    <3>2. stale' \ Lifespan \subseteq loose'
      BY <2>10, <3>1 DEF WriteTimes, Checked
    <3>3. ASSUME NEW e \in stock' PROVE Bounded(e)
      BY <2>10 DEF WriteTimes, Bounded, FewerLines, entities
    <3> QED
      BY <3>2, <3>3
  <2>11. ASSUME Commit \/ \E n \in Lives : EditLife(n) PROVE Goal
    <3>1. /\ UNCHANGED <<stock, quantity, of, qty, loose>>
          /\ stale' \subseteq stale \union Lifespan
      BY <2>11 DEF Commit, EditLife, entities, lines
    <3> QED
      BY <3>1 DEF Checked, Bounded, FewerLines
  <2>12. Goal
    BY <1>2, <2>1, <2>2, <2>3, <2>4, <2>5, <2>6, <2>7, <2>8, <2>9, <2>10, <2>11,
       NextIsStep DEF Step
  <2> QED
    <3> HIDE DEF Goal
    <3>1. stale' \ Lifespan \subseteq loose' /\ \A e \in stock' : Bounded(e)
      BY <2>12 DEF Goal
    <3> QED
      BY <3>1, CheckedFromBounded
<1> QED
  BY <1>1, <1>2

\* The lines of an entity never ask for more than it has, unless a quantity
\* was rewritten or a line moved to it while it was discarded.
THEOREM OverAssignedTheorem == Spec => []NeverOverAssigned
<1>1. Init => TypeOK /\ Current /\ Checked
  BY BoundAssumption, NothingReadType
  DEF Init, TypeOK, Quantity, Time, Current, Checked, NeverOverAssigned
<1>2. TypeOK /\ Current /\ Checked /\ [Next]_vars => TypeOK' /\ Current' /\ Checked'
  BY TypeStep, CurrentStep, CheckedStep
<1>3. Checked => NeverOverAssigned
  BY DEF Checked
<1> QED
  BY <1>1, <1>2, <1>3, PTL DEF Spec
=============================================================================
