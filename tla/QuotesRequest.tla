--------------------------- MODULE QuotesRequest ---------------------------
(***************************************************************************)
(* Requests for materials: a request collects quotes, one per material; at *)
(* the level SUPPLIER of its approval the suppliers of each material are   *)
(* asked for a price; it goes on to the next level when the last price is  *)
(* known, when one of the group proposes it, or when the daily cron finds  *)
(* its deadline today.  On entering the second level of the material       *)
(* expert, the cheapest supplier of each quote is chosen.                  *)
(*                                                                         *)
(* Every operation is one transaction, which sees the rows as they were    *)
(* committed before it began and fails if it writes a row that another has *)
(* written since.  One that writes a supplier quote reads the prices of    *)
(* the whole request but writes the request only if these are complete:    *)
(* it may stay open while others commit (Begin, Commit).  The others write *)
(* all they read but prices, and supplier quotes write no row in common    *)
(* with them, so that it makes no difference who commits first: they are   *)
(* taken to be over before the supplier quotes they overlap are committed. *)
(*                                                                         *)
(* A write of the approval status replaces the reminder cron of the        *)
(* request, which fails while another worker executes it (reminding): the  *)
(* transaction is rolled back.  Who may act at a level is the business of  *)
(* Approval: some user may.  Quotes are not deleted, and a supplier has    *)
(* one supplier quote of each at most.                                     *)
(***************************************************************************)
EXTENDS Integers, FiniteSets

CONSTANTS
    Request, Quote, Supplier,
    SuppliersOf,  \* the suppliers of the material of each quote
    JoinsOf,      \* bound: the requests a quote may be added to
    Paint,        \* the quotes of paints, all others are of materials
    PricesOf,     \* bound: the prices of each quote; 0 means not priced yet
    LeastPrice,   \* no price is below: a float has a least one
    MaxDay,       \* bound: deadlines are days 1..MaxDay
    MaxOpen,      \* bound: the transactions that are overlapped at a time
    Overlapped,   \* bound: the quotes whose supplier quotes these write
    Top,          \* the levels of the approval flow are 1..Top
    SUPPLIER,     \* the level at which suppliers give prices
    EXPERT,       \* the second level of the material expert
    CronMayAct,   \* the user of the daily cron is in the group of suppliers
    Decided,      \* the status APPROVED or REJECTED, which are one here
    NoStatus, NoRequest, NoSupplier, NoDate,
    Gone          \* in place of a price: the supplier quote is deleted

Level == 1..Top
Status == Level \cup {Decided, NoStatus}

ASSUME LevelsAssumption ==
    /\ Top \in Nat
    /\ SUPPLIER \in Level
    /\ EXPERT \in Level
    /\ SUPPLIER < EXPERT
    /\ Decided \notin Int /\ NoStatus \notin Int /\ Decided # NoStatus

ASSUME DataAssumption ==
    /\ SuppliersOf \in [Quote -> SUBSET Supplier]
    /\ JoinsOf \in [Quote -> SUBSET Request]
    /\ LeastPrice \in Int
    /\ PricesOf \in [Quote -> SUBSET {x \in Int : LeastPrice <= x}]
    /\ \A q \in Quote : 0 \in PricesOf[q]
    /\ Gone \notin Int
    /\ MaxDay \in Nat /\ MaxOpen \in Nat
    /\ CronMayAct \in BOOLEAN
    /\ NoRequest \notin Request
    /\ NoSupplier \notin Supplier
    /\ NoDate \notin Int

VARIABLES
    level,      \* approval_status of each request
    deadline,   \* deadline of each request
    request,    \* material_paint_quotes_request_id of each quote
    price,      \* unit_price of the supplier quotes of each quote
    chosen,     \* supplier of material_supplier_quote_id of each quote
    day,        \* today
    ran,        \* the daily cron ran today
    reminding,  \* requests whose reminder cron another worker executes
    open,       \* open transactions that write a supplier quote
    touched,    \* history: quotes changed since the expert's level was entered
    idle,       \* history: requests complete at SUPPLIER that no answer took on
    excused     \* history: requests whose deadline the cron could not act on

quoteVars == <<request, price, chosen>>
ghosts == <<touched, idle, excused>>
vars == <<level, deadline, request, price, chosen, day, ran, reminding, open,
          touched, idle, excused>>

-----------------------------------------------------------------------------
QuotesOf(r) == {q \in Quote : request[q] = r}

\* Nobody was asked about a quote.
NoQuote == [s \in {} |-> 0]

\* _are_all_suppliers_have_priced, of every quote: true of no quotes at all,
\* and of a quote nobody was asked about.
AllPriced(r, p) == \A q \in QuotesOf(r) : \A s \in DOMAIN p[q] : p[q][s] > 0

\* The suppliers with the lowest price, among those whose price is not 0.
Cheapest(p) ==
    {s \in DOMAIN p : p[s] # 0 /\ \A t \in DOMAIN p : p[t] # 0 => p[s] <= p[t]}

\* One supplier quote per supplier of the material, unless there is one already.
Asked(q, p) == IF DOMAIN p = {} THEN [s \in SuppliersOf[q] |-> 0] ELSE p

-----------------------------------------------------------------------------
(* MaterialPaintQuotesRequest.write with approval_status: the requests in  *)
(* the domain of to go to the levels it gives.  p are the prices before,   *)
(* saw those that the transaction sees.                                    *)

Nowhere == [r \in {} |-> SUPPLIER]
To(r, v) == [x \in {r} |-> v]

Enters(q, to, l) == request[q] \in DOMAIN to /\ to[request[q]] = l

\* Mutant: the choice stays when its supplier quote is deleted.
Choices_Dangling(q, p, saw, to) ==
    IF Enters(q, to, EXPERT)
    THEN IF Cheapest(saw[q]) = {} THEN {NoSupplier} ELSE Cheapest(saw[q]) \cap DOMAIN p[q]
    ELSE {chosen[q]}

\* What the choice of q can be: of equal prices the code takes the oldest row,
\* and the choice goes with a supplier quote that is deleted.  One that another
\* transaction has deleted cannot be chosen: the foreign key refuses it.
Choices(q, p, saw, to) ==
    IF Enters(q, to, EXPERT)
    THEN IF Cheapest(saw[q]) = {} THEN {NoSupplier} ELSE Cheapest(saw[q]) \cap DOMAIN p[q]
    ELSE IF chosen[q] \in DOMAIN p[q] THEN {chosen[q]} ELSE {NoSupplier}

WriteStatus(to, p, saw) ==
    /\ DOMAIN to \cap reminding = {}
    /\ level' = [r \in Request |-> IF r \in DOMAIN to THEN to[r] ELSE level[r]]
    /\ price' = [q \in Quote |->
                    IF Enters(q, to, SUPPLIER) THEN Asked(q, p[q]) ELSE p[q]]
    /\ chosen' \in {c \in [Quote -> Supplier \cup {NoSupplier}] :
                       \A q \in Quote : c[q] \in Choices(q, p, saw, to)}

-----------------------------------------------------------------------------
(* Transactions that overlap: t writes the supplier quote of t.supplier for *)
(* t.quote.  It saw the prices t.saw, and by them that it completes the     *)
(* request or does not.                                                     *)

\* The quotes that a transaction which began before this step saw otherwise:
\* their prices, the level of their request or which quotes are with them.
Disturbed ==
    {q \in Quote :
        \/ price'[q] # price[q]
        \/ \E x \in Quote : request'[x] # request[x]
                              /\ request[q] \in {request[x], request'[x]}
        \/ request[q] \in Request /\ level'[request[q]] # level[request[q]]}

\* The row t writes, of supplier quotes p.
Row(p, t) == IF t.supplier \in DOMAIN p[t.quote] THEN p[t.quote][t.supplier] ELSE Gone

\* This step, which writes the requests in R and rows of their quotes, writes
\* a row that t writes.  One that goes to the next level writes the request and
\* the approval_status of its quotes, one that is deleted the choice of it.
Collides(t, R) ==
    \/ Row(price', t) # Row(price, t)
    \/ /\ \/ request[t.quote] \in R
          \/ \E q \in Quote : request[q] = request[t.quote] /\ chosen'[q] # chosen[q]
       /\ \/ t.completes
          \/ t.row = Gone /\ t.supplier \in {chosen[t.quote], chosen'[t.quote]}

\* Of the transactions T those that can still commit stay open.
GoOn(T, R) ==
    open' = {[t EXCEPT !.missed = @ \cup Disturbed] : t \in {u \in T : ~Collides(u, R)}}

-----------------------------------------------------------------------------
(* History.                                                                *)

Beyond(l) == l = Decided \/ l \in EXPERT..Top

\* The quotes of changed were changed by this step, after what else it did.
Touch(to, changed) ==
    touched' = {q \in Quote :
        /\ request'[q] # NoRequest
        /\ Beyond(level'[request'[q]])
        /\ q \in changed \/ (q \in touched /\ ~Enters(q, to, EXPERT))}

\* A request is at SUPPLIER and complete, and no answer took it on: it came so,
\* its quotes are others now, or its last answers did not see each other.
Idle(arrived, answered) ==
    idle' = {r \in Request :
        /\ level'[r] = SUPPLIER
        /\ \/ r \in idle \ answered
           \/ r \in arrived /\ \A q \in Quote : request'[q] = r =>
                                 \A s \in DOMAIN price'[q] : price'[q][s] > 0}

\* A request came to SUPPLIER, or its deadline was set, too late for the cron.
ArrivedLate(r) ==
    /\ level'[r] # level[r] \/ deadline'[r] # deadline[r]
    /\ deadline'[r] # NoDate
    /\ deadline'[r] < day \/ (deadline'[r] = day /\ ran)

\* The cron failed to propose, or never saw, the due requests in lost.
Excuse(lost) ==
    excused' = {r \in Request :
        /\ level'[r] = SUPPLIER
        /\ \/ r \in excused /\ level[r] = SUPPLIER /\ deadline'[r] = deadline[r]
           \/ r \in lost
           \/ ArrivedLate(r)}

clock == <<day, ran, reminding>>

-----------------------------------------------------------------------------
(* Users: the buttons of the approval, and its restart and sudo approval.  *)

ValidMove(r, v) ==
    level[r] \in Level =>
        \/ v \in Level /\ v - level[r] \in -1..1
        \/ v = Decided /\ level[r] = Top
        \/ v = NoStatus

Goes(r, v, changed) ==
    /\ WriteStatus(To(r, v), price, price)
    /\ UNCHANGED <<deadline, request, clock>>
    /\ Touch(To(r, v), changed)
    /\ Idle({r}, {})
    /\ Excuse({})
    /\ GoOn(open, {r})

\* From no status any move is allowed: the quotes are then as they happen to be.
Move(r, v) ==
    /\ ValidMove(r, v)
    /\ Goes(r, v, IF level[r] = NoStatus THEN QuotesOf(r) ELSE {})

Restart(r) == Goes(r, 1, {})

\* Decided at any level, checks bypassed: sudo_approve(), get_approval_status().
Decide(r) ==
    Goes(r, Decided, IF Beyond(level[r]) THEN {} ELSE QuotesOf(r))

SetDeadline(r, d) ==
    /\ deadline' = [deadline EXCEPT ![r] = d]
    /\ UNCHANGED <<level, quoteVars, clock, touched, idle>>
    /\ Excuse({})
    /\ GoOn(open, {r})

\* Mutant: quotes may still be added when suppliers have answered.
SentToSuppliers_Off(r) == level[r] \notin Level

\* _are_send_quotes_to_suppliers, which fails of a request without status:
\* quotes are neither added nor removed then.
SentToSuppliers(r) == level[r] \notin Level \/ level[r] > SUPPLIER

ChangeRequest(q, r, new) ==
    /\ ~SentToSuppliers(r)
    /\ request' = [request EXCEPT ![q] = new]
    /\ UNCHANGED <<level, price, chosen, deadline, clock, excused>>
    /\ Touch(Nowhere, {})
    /\ Idle({r}, {})
    /\ GoOn(open, {r})

AddQuote(q, r) ==
    /\ request[q] = NoRequest
    /\ r \in JoinsOf[q]
    /\ ChangeRequest(q, r, r)

\* Only of paints: a material quote fails its own check (Writable) once it is
\* of no request, which undoes the removal.
RemoveQuote(q, r) ==
    /\ q \in Paint /\ request[q] = r
    /\ ChangeRequest(q, r, NoRequest)

\* MaterialQuote.write asks at which level of its flow the request is.
Writable(q) == request[q] # NoRequest /\ level[request[q]] \in Level

\* A user selects another supplier quote of q.
Choose(q, s) ==
    /\ s \in DOMAIN price[q] /\ Writable(q)
    /\ chosen' = [chosen EXCEPT ![q] = s]
    /\ UNCHANGED <<level, deadline, request, price, clock, idle, excused>>
    /\ Touch(Nowhere, {q})
    /\ GoOn(open, {})

-----------------------------------------------------------------------------
(* Supplier quotes.  Each creation, write (in the form, or by the supplier *)
(* on the portal, at any level and after any deadline) and deletion checks *)
(* whether the request is complete, and then proposes it.                  *)

\* Mutant: the check looks at the quote that was written, not at the request.
Completes_OneQuote(q, p) ==
    /\ request[q] # NoRequest
    /\ level[request[q]] = SUPPLIER
    /\ \A s \in DOMAIN p[q] : p[q][s] > 0

\* Mutant: the check is made before the write.
Completes_Stale(q, p) ==
    /\ request[q] # NoRequest
    /\ level[request[q]] = SUPPLIER
    /\ AllPriced(request[q], price)

Completes(q, p) ==
    /\ request[q] # NoRequest
    /\ level[request[q]] = SUPPLIER
    /\ AllPriced(request[q], p)

\* The supplier quotes once that of s for q has price x, or is deleted.
Put(p, q, s, x) ==
    [p EXCEPT ![q] = IF x = Gone THEN [u \in DOMAIN p[q] \ {s} |-> p[q][u]]
                     ELSE [u \in DOMAIN p[q] \cup {s} |-> IF u = s THEN x ELSE p[q][u]]]

\* What is written: a price, a new supplier quote, or that one is deleted.
\* Creating one asks the request of its quote whether it is complete, and
\* fails when there is none.
MayWrite(q, s, x) ==
    \/ s \in DOMAIN price[q]
    \/ s \in SuppliersOf[q] /\ x # Gone /\ request[q] # NoRequest

\* A transaction that begins now.
Txn(q, s, x) ==
    LET p == Put(price, q, s, x)
    IN  [quote |-> q, supplier |-> s, row |-> x, missed |-> {},
         completes |-> Completes(q, p),
         saw |-> IF Completes(q, p) THEN p ELSE [y \in Quote |-> NoQuote]]

\* t is committed, T are the other open ones.
Save(t, T) ==
    LET r == request[t.quote]
        to == IF t.completes THEN To(r, SUPPLIER + 1) ELSE Nowhere
        others == t.missed \cap ({t.quote} \cup QuotesOf(r))
    IN  /\ WriteStatus(to, Put(price, t.quote, t.supplier, t.row), t.saw)
        /\ UNCHANGED <<deadline, request, clock>>
        /\ Touch(to, IF t.completes THEN others ELSE {t.quote})
        /\ IF others = {} THEN Idle({}, {r}) ELSE Idle({r}, {})
        /\ Excuse({})
        /\ GoOn(T, DOMAIN to)

\* A transaction that no other overlaps.
Answer(q, s, x) == MayWrite(q, s, x) /\ Save(Txn(q, s, x), open)

\* One that others will overlap.  Of two that write one row the second would
\* wait for the first and then fail.
Begin(q, s, x) ==
    /\ q \in Overlapped /\ MayWrite(q, s, x)
    /\ Cardinality(open) < MaxOpen
    /\ \A t \in open : t.quote # q \/ t.supplier # s
    /\ open' = open \cup {Txn(q, s, x)}
    /\ UNCHANGED <<level, deadline, quoteVars, clock, ghosts>>

Commit(t) == t \in open /\ Save(t, open \ {t})

\* Whatever else may fail.
Rollback(t) ==
    /\ t \in open
    /\ open' = open \ {t}
    /\ UNCHANGED <<level, deadline, quoteVars, clock, ghosts>>

-----------------------------------------------------------------------------
(* Crons and the calendar.                                                 *)

\* Mutant: a deadline is reached the day after.
Due_Late == {r \in Request : level[r] = SUPPLIER /\ deadline[r] = day - 1}

Due == {r \in Request : level[r] = SUPPLIER /\ deadline[r] = day}

\* One transaction proposes every due request.  Any exception undoes it, and
\* the job does not run again before tomorrow: nor does it if another
\* transaction writes one of these requests meanwhile.
DailyCron ==
    /\ ~ran
    /\ ran' = TRUE
    /\ UNCHANGED <<deadline, request, day, reminding>>
    /\ \/ /\ CronMayAct \/ Due = {}
          /\ LET to == [r \in Due |-> SUPPLIER + 1]
             IN  WriteStatus(to, price, price) /\ Touch(to, {})
          /\ Excuse({})
          /\ GoOn(open, Due)
       \/ /\ Due # {}
          /\ UNCHANGED <<level, price, chosen, touched, open>>
          /\ Excuse(Due)
    /\ Idle({}, {})

\* Midnight, whether or not the daily cron has run.
NextDay ==
    /\ day <= MaxDay
    /\ day' = day + 1
    /\ ran' = FALSE
    /\ UNCHANGED <<level, deadline, quoteVars, reminding, open, touched, idle>>
    /\ Excuse(IF ran THEN {} ELSE
              {r \in Request : level[r] = SUPPLIER /\ deadline[r] = day})

\* Another worker takes the reminder cron of r, which exists until the end.
StartReminder(r) ==
    /\ level[r] \in Level
    /\ r \notin reminding
    /\ reminding' = reminding \cup {r}
    /\ UNCHANGED <<level, deadline, quoteVars, day, ran, open, ghosts>>

EndReminder(r) ==
    /\ r \in reminding
    /\ reminding' = reminding \ {r}
    /\ UNCHANGED <<level, deadline, quoteVars, day, ran, open, ghosts>>

-----------------------------------------------------------------------------
Init ==
    /\ level = [r \in Request |-> 1]
    /\ deadline = [r \in Request |-> NoDate]
    /\ request = [q \in Quote |-> NoRequest]
    /\ price = [q \in Quote |-> NoQuote]
    /\ chosen = [q \in Quote |-> NoSupplier]
    /\ day = 1 /\ ran = FALSE /\ reminding = {} /\ open = {}
    /\ touched = {} /\ excused = {}
    /\ idle = {r \in Request : level[r] = SUPPLIER}

RequestAction(r) ==
    \/ \E v \in Status : Move(r, v)
    \/ Restart(r)
    \/ Decide(r)
    \/ \E d \in 1..MaxDay \cup {NoDate} : SetDeadline(r, d)
    \/ \E q \in Quote : AddQuote(q, r) \/ RemoveQuote(q, r)
    \/ StartReminder(r)
    \/ EndReminder(r)

SupplierQuoteAction(q, s) ==
    \/ Choose(q, s)
    \/ \E x \in PricesOf[q] \cup {Gone} : Answer(q, s, x) \/ Begin(q, s, x)

Next ==
    \/ \E r \in Request : RequestAction(r)
    \/ \E q \in Quote, s \in Supplier : SupplierQuoteAction(q, s)
    \/ \E t \in open : Commit(t) \/ Rollback(t)
    \/ DailyCron
    \/ NextDay

Spec == Init /\ [][Next]_vars

-----------------------------------------------------------------------------
(* Properties.                                                             *)

AnyPrice == UNION {PricesOf[q] : q \in Quote}

\* The supplier quotes of all quotes: prices of suppliers.
PriceTable ==
    {p \in [Quote -> UNION {[S -> AnyPrice] : S \in SUBSET Supplier}] :
        \A q \in Quote : \A s \in DOMAIN p[q] : p[q][s] \in PricesOf[q]}

Transaction ==
    [quote : Quote, supplier : Supplier, row : AnyPrice \cup {Gone},
     missed : SUBSET Quote, completes : BOOLEAN, saw : PriceTable]

\* No two open transactions write one row.
OpenOK ==
    /\ open \subseteq Transaction
    /\ \A t \in open : t.row \in PricesOf[t.quote] \cup {Gone}
    /\ \A t, u \in open : t.quote = u.quote /\ t.supplier = u.supplier => t = u

\* Types; a supplier quote belongs to a supplier, and only such is chosen.
TypeOK ==
    /\ level \in [Request -> Status]
    /\ deadline \in [Request -> 1..MaxDay \cup {NoDate}]
    /\ request \in [Quote -> Request \cup {NoRequest}]
    /\ price \in PriceTable
    /\ chosen \in [Quote -> Supplier \cup {NoSupplier}]
    /\ \A q \in Quote : chosen[q] \in DOMAIN price[q] \cup {NoSupplier}
    /\ day \in 1..(MaxDay + 1)
    /\ ran \in BOOLEAN
    /\ reminding \subseteq Request
    /\ touched \subseteq Quote /\ idle \subseteq Request /\ excused \subseteq Request
    /\ OpenOK

\* A request is not left at SUPPLIER after its deadline (or after the cron of
\* that day) unless the cron could not act on it: it did not run that day, it
\* failed, or the request or its deadline came too late.
DeadlineIsKept ==
    \A r \in Request :
        /\ level[r] = SUPPLIER
        /\ deadline[r] # NoDate
        /\ deadline[r] < day \/ (deadline[r] = day /\ ran)
        => r \in excused

\* The last price takes the request on: it does not wait at SUPPLIER with all
\* prices known, unless it came there so, its quotes were exchanged there, or
\* the answer was saved by a transaction that missed the commit of another on
\* the request: and then the next answer that misses none takes it on.
PricedNeverWaits ==
    \A r \in Request : level[r] = SUPPLIER /\ AllPriced(r, price) => r \in idle

\* From the expert's level on, each quote has the cheapest of the suppliers
\* with a price other than 0, and none if there is none, unless somebody
\* changed its prices or its choice since or while the choice was made, or the
\* request came there without being at the expert's level.
ExpertChoiceStands ==
    \A q \in Quote \ touched :
        request[q] # NoRequest /\ Beyond(level[request[q]]) =>
            \A s \in DOMAIN price[q] : price[q][s] # 0 =>
                /\ chosen[q] # NoSupplier
                /\ price[q][chosen[q]] # 0 /\ price[q][chosen[q]] <= price[q][s]

\* Unless suppliers are being asked, a step that changes a price moves no
\* request but the one of that quote, from SUPPLIER to the next level, and only
\* when every supplier asked for any of its quotes has given a price.  The
\* last holds of the prices that the transaction saw: of all prices there are
\* if it missed no commit of another.
PricesOnlyComplete ==
    [][\A q \in Quote, r \in Request :
         /\ price'[q] # price[q]
         /\ level'[r] \notin {level[r], SUPPLIER}
         => /\ request[q] = r
            /\ level[r] = SUPPLIER
            /\ level'[r] = SUPPLIER + 1
            /\ \/ AllPriced(r, price')
               \/ \E t \in open \ open' : t.quote = q /\ t.missed # {}
                                             /\ AllPriced(r, t.saw)]_vars
=============================================================================
