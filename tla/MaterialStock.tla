--------------------------- MODULE MaterialStock ---------------------------
(***************************************************************************)
(* The ship's stock of materials: the entities a delivery or a form puts   *)
(* in stock, and the assignments (lines) that hand them to jobs            *)
(* (material_entity.py, material_assignment.py, material.py).              *)
(*                                                                         *)
(* available_quantity is STORED.  The ORM recomputes it when the entity's  *)
(* quantity or its discarded flag is written and when a line comes, goes   *)
(* or moves, and a write of a line's times calls the computation by hand.  *)
(* A write of a line's quantity does neither: available_quantity then is   *)
(* stale until something else has it recomputed, and it is what the checks *)
(* on lines read.  The hours of an entity with a life span are not stored: *)
(* the cache of the transaction keeps them once they are read, though the  *)
(* moments of its lines are written again.  A transaction makes any number *)
(* of the calls below (the write of a job quote those on its lines), and   *)
(* Commit ends it.  The variables of history record, for the properties,   *)
(* the entities some legal call has taken out of a promise.                *)
(***************************************************************************)
EXTENDS Integers, FiniteSets

CONSTANTS Entity,      \* the records of ship.material.entity there may be
          Lifespan,    \* those whose material has a life span
          Assignment,  \* the records of ship.material.assignment there may be
          None,        \* no entity
          NotRead,     \* not in the cache
          MaxQuantity, \* bound on the quantities that are entered
          MaxTime,     \* bound on the moments that are entered
          Lives        \* bound: the max_life_span_hours entered, 0 for none

ASSUME EntityAssumption == Lifespan \subseteq Entity /\ None \notin Entity
ASSUME FiniteAssumption == IsFiniteSet(Entity) /\ IsFiniteSet(Assignment)
ASSUME BoundAssumption ==
    MaxQuantity \in Nat \ {0} /\ MaxTime \in Nat \ {0} /\ Lives \subseteq Nat
ASSUME CacheAssumption == NotRead \notin Int

VARIABLES
    stock,      \* the entities that exist
    quantity,   \* entity.quantity
    discarded,  \* entity.is_discarded
    avail,      \* entity.available_quantity, as stored
    life,       \* max_life_span_hours of the entities with a life span
    cached,     \* entity.total_hours, as this transaction has read it
    of,         \* line.material_entity_id; None: the line does not exist
    qty,        \* line.quantity
    start,      \* line.start_time_of_use, 0 for null; see Kept
    end,        \* line.end_time_of_use, 0 for null
    stale,      \* history: a line's quantity or life changed since the computation,
                \* or the hours were read before it
    loose,      \* history: quantities changed by hand, or a line moved to a discarded entity
    reopened    \* history: a line reopened, moved open, or created with a twin

lines == <<of, qty, start, end>>
entities == <<stock, quantity, discarded>>
vars == <<stock, quantity, discarded, avail, life, cached, of, qty, start, end,
          stale, loose, reopened>>

Quantity == 0 .. MaxQuantity
Time == 0 .. MaxTime

-----------------------------------------------------------------------------
(* The computed fields. *)

Lines(e) == {a \in Assignment : of[a] = e}

Open(a) == start[a] = 0 \/ end[a] = 0

\* The sum of f over S, whose values are in 0 .. bound, counted one by one: a
\* cardinality is what the provers know facts about
SumOver(S, f, bound) ==
    Cardinality({p \in S \X (1 .. bound) : p[2] <= f[p[1]]})

Used(e) == SumOver(Lines(e), qty, MaxQuantity)

\* The hours of the lines with both moments; an end before its start counts
\* below zero (_get_total_hours)
TotalHours(e) ==
    LET closed == {a \in Lines(e) : ~ Open(a)} IN
    SumOver(closed, end, MaxTime) - SumOver(closed, start, MaxTime)

\* Mutant: a line that was started is taken for finished
InUse_Unstarted(e) == \E a \in Lines(e) : start[a] = 0

InUse(e) == \E a \in Lines(e) : Open(a)

WornOut(hours) == life > 0 /\ hours >= life

\* _cacl_quantity, when hours is what total_hours reads
Amount(e, hours) ==
    IF discarded[e] THEN 0
    ELSE IF e \notin Lifespan THEN quantity[e] - Used(e)
    ELSE IF InUse(e) \/ WornOut(hours) THEN 0 ELSE quantity[e]

Available(e) == Amount(e, TotalHours(e))

\* The entities of R are computed on the state the step leaves
Store(R) ==
    avail' = [e \in Entity |-> IF e \in R THEN Amount(e, cached[e])' ELSE avail[e]]

NothingRead == [e \in Entity |-> NotRead]

\* The entities of R are new, or lines of theirs came or went.  The hours in
\* kept, but for R, stay in the cache; those of an entity in use are not read.
Recompute(R, kept) ==
    /\ cached' = [e \in Entity |->
                     IF e \notin R THEN kept[e]
                     ELSE IF e \in Lifespan /\ ~ InUse(e)' THEN TotalHours(e)' ELSE NotRead]
    /\ Store(R)
    /\ stale' = stale \ R

\* e or the moments of a line of it are written, which reads total_hours, a
\* tracked field, unless the cache has it
Rewrite(e) ==
    /\ cached' = [cached EXCEPT ![e] =
                     IF e \in Lifespan /\ @ = NotRead THEN TotalHours(e)' ELSE @]
    /\ Store({e})

-----------------------------------------------------------------------------
Init ==
    /\ stock = {}
    /\ quantity = [e \in Entity |-> 0]
    /\ discarded = [e \in Entity |-> FALSE]
    /\ avail = [e \in Entity |-> 0]
    /\ life \in Lives
    /\ cached = NothingRead
    /\ of = [a \in Assignment |-> None]
    /\ qty = [a \in Assignment |-> 0]
    /\ start = [a \in Assignment |-> 0]
    /\ end = [a \in Assignment |-> 0]
    /\ stale = {} /\ loose = {} /\ reopened = {}

\* The transaction ends, and its cache with it.
Commit ==
    /\ cached' = NothingRead
    /\ UNCHANGED <<entities, avail, life, lines, stale, loose, reopened>>

(* Entities. *)

\* quantity_must_be_equal_to_1_when_the_material_is_for_lifespan
FitsLifespan(e, n) == e \in Lifespan => n = 1

\* A delivery, a transfer quantity or the form
CreateEntity(e, n) ==
    /\ e \notin stock
    /\ FitsLifespan(e, n)
    /\ stock' = stock \union {e}
    /\ quantity' = [quantity EXCEPT ![e] = n]
    /\ discarded' = discarded
    /\ UNCHANGED <<lines, life>>
    /\ Recompute({e}, cached)
    /\ UNCHANGED <<loose, reopened>>

EditEntity(e, n) ==
    /\ e \in stock
    /\ n # quantity[e]
    /\ FitsLifespan(e, n)
    /\ quantity' = [quantity EXCEPT ![e] = n]
    /\ UNCHANGED <<stock, discarded, lines, life>>
    /\ Rewrite(e)
    /\ stale' = IF cached[e] = NotRead THEN stale \ {e} ELSE stale
    /\ loose' = loose \union {e}
    /\ UNCHANGED reopened

\* action_discard and action_undiscard
Discard(e) ==
    /\ e \in stock
    /\ discarded' = [discarded EXCEPT ![e] = ~ @]
    /\ UNCHANGED <<stock, quantity, lines, life>>
    /\ Rewrite(e)
    /\ stale' = IF cached[e] = NotRead THEN stale \ {e} ELSE stale
    /\ UNCHANGED <<loose, reopened>>

\* A write of the usage type: available_quantity does not depend on it
EditLife(n) ==
    /\ n # life
    /\ life' = n
    /\ stale' = stale \union (stock \intersect Lifespan)
    /\ UNCHANGED <<entities, avail, cached, lines, loose, reopened>>

Forget(E) ==
    /\ stale' = stale \ E
    /\ loose' = loose \ E
    /\ reopened' = reopened \ E

\* Mutant: an entity that was used is deleted too
DeleteEntity_Used(e) ==
    /\ e \in stock
    /\ stock' = stock \ {e}
    /\ quantity' = [quantity EXCEPT ![e] = 0]
    /\ discarded' = [discarded EXCEPT ![e] = FALSE]
    /\ avail' = [avail EXCEPT ![e] = 0]
    /\ cached' = NothingRead
    /\ UNCHANGED <<lines, life>>
    /\ Forget({e})

\* unlink, of a discarded entity, and hard_unlink, which discards it first.  The
\* deletion of any record empties the cache.
DeleteEntity(e) ==
    /\ e \in stock
    /\ Lines(e) = {}
    /\ stock' = stock \ {e}
    /\ quantity' = [quantity EXCEPT ![e] = 0]
    /\ discarded' = [discarded EXCEPT ![e] = FALSE]
    /\ avail' = [avail EXCEPT ![e] = 0]
    /\ cached' = NothingRead
    /\ UNCHANGED <<lines, life>>
    /\ Forget({e})

\* organize_for_material_dont_have_lifespan, for the entities E of one
\* material and one supplier quote, which it replaces by one
Organize(E, new) ==
    LET sum == SumOver(E, quantity, MaxQuantity) IN
    /\ E # {}
    /\ E \subseteq stock \ Lifespan
    /\ new \notin stock \union Lifespan
    /\ \A e \in E : Lines(e) = {}
    /\ \A e, f \in E : discarded[e] = discarded[f]
    /\ sum \in Quantity
    /\ stock' = (stock \ E) \union {new}
    /\ quantity' = [e \in Entity |-> IF e = new THEN sum
                                     ELSE IF e \in E THEN 0 ELSE quantity[e]]
    /\ discarded' = [e \in Entity |-> IF e = new THEN \E f \in E : discarded[f]
                                      ELSE e \notin E /\ discarded[e]]
    /\ cached' = NothingRead
    /\ UNCHANGED <<lines, life>>
    /\ avail' = [e \in Entity |-> IF e = new THEN Available(e)'
                                  ELSE IF e \in E THEN 0 ELSE avail[e]]
    /\ Forget(E)

-----------------------------------------------------------------------------
(* Lines. *)

\* The moments of a line on an entity without a life span have no effect but
\* the computation their write calls: they are kept as null
Kept(e, t) == IF e \in Lifespan THEN t ELSE 0

\* Mutant: an entity with nothing left passes
MayAssign_Zero(e) == avail[e] >= 0

\* raise_if_material_entity_quantity_equal_or_less_than_0, before any line
\* of the call is written
MayAssign(e) == avail[e] > 0

\* Mutant: the check after the write is dropped
StillAvailable_Always(e) == avail'[e] \in Int

\* check_if_available_quantity_is_valid, on what is stored after the write
StillAvailable(e) == avail'[e] >= 0

\* create, of one line or of a batch: target[a] is the entity of line a, and
\* lines of one call share the quantity n and the moments s and t
Assign(A, target, n, s, t) ==
    LET E == {target[a] : a \in A} IN
    /\ A # {}
    /\ \A a \in A : of[a] = None /\ target[a] \in stock
    /\ \A e \in E : MayAssign(e) /\ FitsLifespan(e, n)
    /\ of' = [a \in Assignment |-> IF a \in A THEN target[a] ELSE of[a]]
    /\ qty' = [a \in Assignment |-> IF a \in A THEN n ELSE qty[a]]
    /\ start' = [a \in Assignment |-> IF a \in A THEN Kept(target[a], s) ELSE start[a]]
    /\ end' = [a \in Assignment |-> IF a \in A THEN Kept(target[a], t) ELSE end[a]]
    /\ UNCHANGED <<entities, life>>
    /\ Recompute(E, cached)
    /\ \A e \in E : StillAvailable(e)
    /\ reopened' = reopened \union
          {e \in Lifespan : \E a, b \in A : a # b /\ target[a] = e /\ target[b] = e}
    /\ UNCHANGED loose

\* write of the quantity: nothing is recomputed, and the check reads what was
\* stored before
EditLine(a, n) ==
    /\ of[a] # None
    /\ n # qty[a]
    /\ FitsLifespan(of[a], n)
    /\ qty' = [qty EXCEPT ![a] = n]
    /\ UNCHANGED <<entities, of, start, end, avail, life, cached>>
    /\ StillAvailable(of[a])
    /\ stale' = stale \union {of[a]}
    /\ loose' = loose \union {of[a]}
    /\ UNCHANGED reopened

\* write of the entity, to another of the line's material: only the check on
\* the new entity's quantity, which is 0 when it is discarded
MoveLine(a, e) ==
    /\ of[a] # None
    /\ e \in stock \ {of[a]}
    /\ e \in Lifespan <=> of[a] \in Lifespan
    /\ of' = [of EXCEPT ![a] = e]
    /\ UNCHANGED <<entities, qty, start, end, life>>
    /\ Recompute({of[a], e}, cached)
    /\ StillAvailable(e)
    /\ loose' = IF discarded[e] THEN loose \union ({e} \ Lifespan) ELSE loose
    /\ reopened' = IF Open(a) THEN reopened \union ({e} \intersect Lifespan)
                   ELSE reopened

\* Mutant: the moments are written, nothing is computed
WriteTimes_NotComputed(a, s, t) ==
    LET e == of[a] IN
    /\ e # None
    /\ s = Kept(e, s) /\ t = Kept(e, t)
    /\ start' = [start EXCEPT ![a] = s]
    /\ end' = [end EXCEPT ![a] = t]
    /\ UNCHANGED <<entities, of, qty, life, avail, cached, stale, loose>>
    /\ reopened' = IF ~ Open(a) /\ Open(a)' THEN reopened \union {e} ELSE reopened

\* write of the moments of a line, which computes its entity by hand: no check
\* runs, and the hours read before are read again
WriteTimes(a, s, t) ==
    LET e == of[a] IN
    /\ e # None
    /\ s = Kept(e, s) /\ t = Kept(e, t)
    /\ start' = [start EXCEPT ![a] = s]
    /\ end' = [end EXCEPT ![a] = t]
    /\ UNCHANGED <<entities, of, qty, life, loose>>
    /\ Rewrite(e)
    /\ stale' = IF cached[e] = NotRead THEN stale \ {e} ELSE stale \union {e}
    /\ reopened' = IF ~ Open(a) /\ Open(a)' THEN reopened \union {e} ELSE reopened

Unassign(a) ==
    /\ of[a] # None
    /\ of' = [of EXCEPT ![a] = None]
    /\ qty' = [qty EXCEPT ![a] = 0]
    /\ start' = [start EXCEPT ![a] = 0]
    /\ end' = [end EXCEPT ![a] = 0]
    /\ UNCHANGED <<entities, life>>
    /\ Recompute({of[a]}, NothingRead)
    /\ UNCHANGED <<loose, reopened>>

Next ==
    \/ Commit
    \/ \E n \in Lives : EditLife(n)
    \/ \E e \in Entity :
          \/ \E n \in Quantity : CreateEntity(e, n) \/ EditEntity(e, n)
          \/ Discard(e)
          \/ DeleteEntity(e)
          \/ \E E \in SUBSET (stock \ Lifespan) : Organize(E, e)
    \/ \E A \in SUBSET Lines(None), n \in Quantity, s, t \in Time :
          \E target \in [A -> stock] : Assign(A, target, n, s, t)
    \/ \E a \in Assignment :
          \/ \E n \in Quantity : EditLine(a, n)
          \/ \E e \in Entity : MoveLine(a, e)
          \/ \E s, t \in Time : WriteTimes(a, s, t)
          \/ Unassign(a)

Spec == Init /\ [][Next]_vars

-----------------------------------------------------------------------------
(* What the stock promises. *)

TypeOK ==
    /\ stock \subseteq Entity
    /\ quantity \in [Entity -> Quantity]
    /\ discarded \in [Entity -> BOOLEAN]
    /\ avail \in [Entity -> Int]
    /\ life \in Lives
    /\ cached \in [Entity -> Int \union {NotRead}]
    /\ of \in [Assignment -> stock \union {None}]
    /\ qty \in [Assignment -> Quantity]
    /\ start \in [Assignment -> Time]
    /\ end \in [Assignment -> Time]
    /\ stale \subseteq stock /\ loose \subseteq stock /\ reopened \subseteq stock

\* The stored available quantity is what the lines, their moments and the
\* flags give, whatever order they were written in.  The ways out last until
\* the next computation that reads them afresh: the write of a line's quantity;
\* of the longest life; and, in one transaction, of the moments of lines of an
\* entity more than once (_cacl_quantity, material_entity.py:124, 142).  And
\* even then what is discarded or in use has nothing left.
AvailableIsCurrent ==
    \A e \in stock :
        /\ e \notin stale => avail[e] = Available(e)
        /\ discarded[e] \/ (e \in Lifespan /\ InUse(e)) => avail[e] = 0

\* The lines of an entity never ask for more than it has, unless a quantity
\* was rewritten or a line was moved to it while it was discarded: the checks
\* at creation and on a move are enough, also for a batch of lines
\* (material_assignment.py:79, 141).
NeverOverAssigned ==
    \A e \in stock \ (Lifespan \union loose) : Used(e) <= quantity[e]

\* An entity with a life span has one user at a time, unless a finished line
\* was reopened, an open one moved to it, or one call created two lines on it
\* (_is_lifespan_material_using_in_assignment, material_entity.py:252).
OneUserAtATime ==
    \A e \in Lifespan \ reopened :
        \A a, b \in Lines(e) : Open(a) /\ Open(b) => a = b

\* A line is only created on an entity that is in service and has something
\* left: not discarded, not in use when it has a life span, and, when its
\* stored quantity is current, not worn out or not used up
\* (raise_if_material_entity_quantity_equal_or_less_than_0).
FitToAssign(e) ==
    /\ ~ discarded[e]
    /\ e \in Lifespan => ~ InUse(e)
    /\ e \in Lifespan \ stale => ~ WornOut(TotalHours(e))
    /\ e \in stock \ (Lifespan \union stale) => Used(e) < quantity[e]

OnlyFitIsAssigned ==
    [][\A a \in Assignment :
          of[a] = None /\ of'[a] # None => FitToAssign(of'[a])]_vars

=============================================================================
