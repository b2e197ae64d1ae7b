------------------------ MODULE QuotesRequest_proofs ------------------------
(***************************************************************************)
(* Theorems about requests for materials, for every set of requests,       *)
(* quotes and suppliers, every flow of levels, every range of prices and   *)
(* any number of transactions that overlap.                                *)
(***************************************************************************)
EXTENDS QuotesRequest, Extremes, TLAPS

(* The prices of a quote, as a function that Cheapest looks at.            *)
IsPrices(p) == p \in UNION {[S -> AnyPrice] : S \in SUBSET Supplier}

LEMMA PricesFacts ==
    ASSUME NEW p
    PROVE  IsPrices(p) <=> /\ p \in [DOMAIN p -> AnyPrice]
                           /\ DOMAIN p \subseteq Supplier
BY DEF IsPrices

LEMMA TableFacts ==
    ASSUME NEW p
    PROVE  p \in PriceTable <=>
             /\ p = [q \in Quote |-> p[q]]
             /\ \A q \in Quote : IsPrices(p[q])
             /\ \A q \in Quote : \A s \in DOMAIN p[q] : p[q][s] \in PricesOf[q]
BY DEF PriceTable, IsPrices

LEMMA AnyPriceInt == \A x \in AnyPrice : x \in Int /\ LeastPrice <= x
BY DataAssumption DEF AnyPrice

(* If a supplier gave a price, one is cheapest, and none gave a lower one. *)
LEMMA CheapestFacts ==
    ASSUME NEW p, IsPrices(p)
    PROVE  /\ Cheapest(p) \subseteq DOMAIN p
           /\ \A s \in DOMAIN p : p[s] # 0 =>
                /\ Cheapest(p) # {}
                /\ \A c \in Cheapest(p) : p[c] # 0 /\ p[c] <= p[s]
<1>1. /\ \A s \in DOMAIN p : p[s] \in Int /\ LeastPrice <= p[s]
      /\ LeastPrice \in Int
  BY PricesFacts, AnyPriceInt, DataAssumption
<1>2. ASSUME NEW s \in DOMAIN p, p[s] # 0
      PROVE  Cheapest(p) # {}
  <2> DEFINE T == {p[t] - LeastPrice : t \in {u \in DOMAIN p : p[u] # 0}}
  <2>1. T \subseteq Nat /\ T # {}
    BY <1>1, <1>2
  <2>2. PICK x \in T : \A y \in T : x <= y
    BY <2>1, LowestExists
  <2>3. PICK c \in DOMAIN p : p[c] # 0 /\ p[c] - LeastPrice = x
    BY <2>2
  <2>4. ASSUME NEW t \in DOMAIN p, p[t] # 0
        PROVE  p[c] <= p[t]
    <3>1. p[c] - LeastPrice <= p[t] - LeastPrice
      BY <2>2, <2>3, <2>4
    <3> QED BY <1>1, <3>1
  <2>5. c \in Cheapest(p)
    BY <2>3, <2>4 DEF Cheapest
  <2> QED BY <2>5
<1>3. ASSUME NEW s \in DOMAIN p, p[s] # 0, NEW c \in Cheapest(p)
      PROVE  p[c] # 0 /\ p[c] <= p[s]
  BY <1>3 DEF Cheapest
<1>4. Cheapest(p) \subseteq DOMAIN p
  BY DEF Cheapest
<1> QED BY <1>2, <1>3, <1>4

-----------------------------------------------------------------------------
(* Types.                                                                  *)

IsMove(to) == DOMAIN to \subseteq Request /\ \A r \in DOMAIN to : to[r] \in Status

LEMMA LevelFacts ==
    /\ SUPPLIER + 1 \in Level /\ SUPPLIER + 1 # SUPPLIER
    /\ Level \subseteq Status /\ 1 \in Level /\ Decided \in Status
BY LevelsAssumption DEF Level, Status

(* A write of the status keeps the types of what it changes.               *)
LEMMA WriteStatusTypes ==
    ASSUME TypeOK, NEW to, IsMove(to), NEW p \in PriceTable, NEW saw,
           WriteStatus(to, p, saw)
    PROVE  /\ level' \in [Request -> Status]
           /\ price' \in PriceTable
           /\ chosen' \in [Quote -> Supplier \cup {NoSupplier}]
           /\ \A q \in Quote : chosen'[q] \in DOMAIN price'[q] \cup {NoSupplier}
<1>1. level' \in [Request -> Status]
  BY DEF TypeOK, WriteStatus, IsMove
<1>2. ASSUME NEW q \in Quote
      PROVE  /\ IsPrices(Asked(q, p[q]))
             /\ \A s \in DOMAIN Asked(q, p[q]) : Asked(q, p[q])[s] \in PricesOf[q]
             /\ DOMAIN p[q] \subseteq DOMAIN Asked(q, p[q])
  <2>1. IsPrices(p[q])
    BY TableFacts
  <2>2. /\ SuppliersOf[q] \subseteq Supplier
        /\ 0 \in PricesOf[q]
        /\ 0 \in AnyPrice
    BY DataAssumption DEF AnyPrice
  <2>3. CASE DOMAIN p[q] = {}
    <3>1. Asked(q, p[q]) = [s \in SuppliersOf[q] |-> 0]
      BY <2>3 DEF Asked
    <3> QED BY <3>1, <2>1, <2>2, <2>3, PricesFacts
  <2>4. CASE DOMAIN p[q] # {}
    <3>1. Asked(q, p[q]) = p[q]
      BY <2>4 DEF Asked
    <3> QED BY <3>1, TableFacts
  <2> QED BY <2>3, <2>4
<1>3. price' \in PriceTable
  <2>1. price' = [q \in Quote |->
                    IF Enters(q, to, SUPPLIER) THEN Asked(q, p[q]) ELSE p[q]]
    BY DEF WriteStatus
  <2>2. \A q \in Quote : IsPrices(price'[q])
    BY <1>2, <2>1, TableFacts
  <2>3. \A q \in Quote : \A s \in DOMAIN price'[q] : price'[q][s] \in PricesOf[q]
    BY <1>2, <2>1, TableFacts
  <2>4. price' = [q \in Quote |-> price'[q]]
    BY <2>1
  <2> QED BY <2>2, <2>3, <2>4, TableFacts
<1>4. ASSUME NEW q \in Quote
      PROVE  chosen'[q] \in DOMAIN price'[q] \cup {NoSupplier}
  <2>1. chosen'[q] \in Choices(q, p, saw, to)
    BY DEF WriteStatus
  <2>2. Choices(q, p, saw, to) \subseteq DOMAIN p[q] \cup {NoSupplier}
    BY DEF Choices
  <2>3. DOMAIN p[q] \subseteq DOMAIN price'[q]
    BY <1>2 DEF WriteStatus
  <2> QED BY <2>1, <2>2, <2>3
<1>5. chosen' \in [Quote -> Supplier \cup {NoSupplier}]
  BY DEF WriteStatus
<1> QED BY <1>1, <1>3, <1>4, <1>5

(* What is still open after a step is well typed.                          *)
LEMMA GoOnTypes ==
    ASSUME OpenOK, NEW T \in SUBSET open, NEW R, GoOn(T, R)
    PROVE  OpenOK'
<1> DEFINE After(t) == [t EXCEPT !.missed = @ \cup Disturbed]
<1>1. open' \subseteq {After(t) : t \in T}
  BY DEF GoOn
<1>2. ASSUME NEW t \in T
      PROVE  /\ After(t) \in Transaction
             /\ After(t).quote = t.quote /\ After(t).supplier = t.supplier
             /\ After(t).row = t.row
             /\ t.row \in PricesOf[t.quote] \cup {Gone}
  <2>1. t \in Transaction /\ t.row \in PricesOf[t.quote] \cup {Gone}
    BY DEF OpenOK
  <2>2. Disturbed \subseteq Quote
    BY DEF Disturbed
  <2> QED BY <2>1, <2>2 DEF Transaction
<1>3. ASSUME NEW t \in T, NEW u \in T, t.quote = u.quote, t.supplier = u.supplier
      PROVE  t = u
  BY <1>3 DEF OpenOK
<1> HIDE DEF After
<1>4. open' \subseteq Transaction
  BY <1>1, <1>2
<1>5. \A t \in open' : t.row \in PricesOf[t.quote] \cup {Gone}
  BY <1>1, <1>2
<1>6. \A t, u \in open' : t.quote = u.quote /\ t.supplier = u.supplier => t = u
  BY <1>1, <1>2, <1>3
<1>7. Transaction' = Transaction
  BY DEF Transaction, PriceTable, AnyPrice
<1> QED BY <1>4, <1>5, <1>6 DEF OpenOK

(* A price that is written leaves a table of prices of suppliers.          *)
LEMMA PutTypes ==
    ASSUME NEW p \in PriceTable, NEW q \in Quote, NEW s \in Supplier,
           NEW x \in PricesOf[q] \cup {Gone}
    PROVE  /\ Put(p, q, s, x) \in PriceTable
           /\ \A y \in Quote : y # q => Put(p, q, s, x)[y] = p[y]
<1> DEFINE rows == IF x = Gone THEN [u \in DOMAIN p[q] \ {s} |-> p[q][u]]
                   ELSE [u \in DOMAIN p[q] \cup {s} |-> IF u = s THEN x ELSE p[q][u]]
<1>1. Put(p, q, s, x) = [p EXCEPT ![q] = rows]
  BY DEF Put
<1>2. p = [y \in Quote |-> p[y]] /\ IsPrices(p[q])
      /\ \A t \in DOMAIN p[q] : p[q][t] \in PricesOf[q]
  BY TableFacts
<1>3. PricesOf[q] \subseteq AnyPrice
  BY DEF AnyPrice
<1>4. \A t \in DOMAIN rows : rows[t] \in PricesOf[q]
  BY <1>2
<1>5. IsPrices(rows)
  <2>1. DOMAIN rows \subseteq Supplier
    BY <1>2, PricesFacts
  <2>2. rows = [t \in DOMAIN rows |-> rows[t]]
    OBVIOUS
  <2> QED BY <1>3, <1>4, <2>1, <2>2, PricesFacts
<1> HIDE DEF rows
<1>6. \A y \in Quote : Put(p, q, s, x)[y] = IF y = q THEN rows ELSE p[y]
  BY <1>1, <1>2
<1>7. Put(p, q, s, x) = [y \in Quote |-> Put(p, q, s, x)[y]]
  BY <1>1, <1>2
<1>8. Put(p, q, s, x) \in PriceTable
  BY <1>4, <1>5, <1>6, <1>7, TableFacts
<1> QED BY <1>6, <1>8

LEMMA NobodyAsked == [y \in Quote |-> NoQuote] \in PriceTable /\ DOMAIN NoQuote = {}
<1>1. IsPrices(NoQuote) /\ DOMAIN NoQuote = {}
  BY PricesFacts DEF NoQuote
<1> QED BY <1>1, TableFacts

LEMMA TxnTypes ==
    ASSUME TypeOK, NEW q \in Quote, NEW s \in Supplier, NEW x \in PricesOf[q] \cup {Gone}
    PROVE  /\ Txn(q, s, x) \in Transaction
           /\ Txn(q, s, x).row \in PricesOf[q] \cup {Gone}
           /\ Txn(q, s, x).quote = q /\ Txn(q, s, x).supplier = s
           /\ Txn(q, s, x).missed = {}
<1>1. PricesOf[q] \subseteq AnyPrice
  BY DEF AnyPrice
<1>2. Put(price, q, s, x) \in PriceTable
  BY PutTypes DEF TypeOK
<1>3. Completes(q, Put(price, q, s, x)) \in BOOLEAN
  BY DEF Completes
<1> QED BY <1>1, <1>2, <1>3, NobodyAsked DEF Txn, Transaction
(* What is written, when t is committed, and where its request goes.       *)
Written(t) == Put(price, t.quote, t.supplier, t.row)
Goal(t) == IF t.completes THEN To(request[t.quote], SUPPLIER + 1) ELSE Nowhere

IsTxn(t) == t \in Transaction /\ t.row \in PricesOf[t.quote] \cup {Gone}

(* An open transaction that completes its request does so still, by the    *)
(* prices it saw, and they are the prices that there are but for quotes    *)
(* whose changes it missed.  One that missed none still completes nothing  *)
(* if it did not.                                                          *)
Judges(t) ==
    LET r == request[t.quote]
    IN  /\ t.completes =>
              /\ r \in Request /\ level[r] = SUPPLIER
              /\ AllPriced(r, t.saw)
              /\ \A q \in QuotesOf(r) \ t.missed : t.saw[q] = Written(t)[q]
        /\ ~t.completes /\ t.missed \cap ({t.quote} \cup QuotesOf(r)) = {} =>
              ~Completes(t.quote, Written(t))

OpenJudges == \A t \in open : Judges(t)

(* A save leaves the prices it wrote, and moves at most its request.       *)
LEMMA SaveFacts ==
    ASSUME TypeOK, NEW t, IsTxn(t), t.completes => request[t.quote] \in Request,
           NEW T, Save(t, T)
    PROVE  /\ WriteStatus(Goal(t), Written(t), t.saw)
           /\ IsMove(Goal(t)) /\ Written(t) \in PriceTable
           /\ \A y \in Quote : ~Enters(y, Goal(t), SUPPLIER)
           /\ price' = Written(t)
           /\ \A y \in Quote : y # t.quote => price'[y] = price[y]
           /\ UNCHANGED <<deadline, request, clock>>
           /\ GoOn(T, DOMAIN Goal(t))
<1>1. /\ WriteStatus(Goal(t), Written(t), t.saw)
      /\ UNCHANGED <<deadline, request, clock>>
      /\ GoOn(T, DOMAIN Goal(t))
  BY DEF Save, Goal, Written
<1>2. /\ t.quote \in Quote /\ t.supplier \in Supplier
      /\ t.row \in PricesOf[t.quote] \cup {Gone}
  BY DEF IsTxn, Transaction
<1>3. /\ Written(t) \in PriceTable
      /\ \A y \in Quote : y # t.quote => Written(t)[y] = price[y]
  BY <1>2, PutTypes DEF Written, TypeOK
<1>4. IsMove(Goal(t))
  <2>1. CASE t.completes
    BY <2>1, LevelFacts DEF Goal, To, IsMove
  <2>2. CASE ~t.completes
    BY <2>2 DEF Goal, Nowhere, IsMove
  <2> QED BY <2>1, <2>2
<1>5. \A y \in Quote : ~Enters(y, Goal(t), SUPPLIER)
  <2>1. CASE t.completes
    BY <2>1, LevelFacts DEF Goal, To, Enters
  <2>2. CASE ~t.completes
    BY <2>2 DEF Goal, Nowhere, Enters
  <2> QED BY <2>1, <2>2
<1>6. price' = Written(t)
  <2>1. price' = [q \in Quote |-> Written(t)[q]]
    BY <1>1, <1>5 DEF WriteStatus
  <2> QED BY <1>3, <2>1, TableFacts
<1> QED BY <1>1, <1>3, <1>4, <1>5, <1>6

LEMMA SaveTypes ==
    ASSUME TypeOK, NEW t, IsTxn(t), t.completes => request[t.quote] \in Request,
           NEW T \in SUBSET open, Save(t, T)
    PROVE  TypeOK'
<1>1. /\ WriteStatus(Goal(t), Written(t), t.saw)
      /\ IsMove(Goal(t)) /\ Written(t) \in PriceTable
      /\ UNCHANGED <<deadline, request, clock>>
      /\ GoOn(T, DOMAIN Goal(t))
  BY SaveFacts
<1>2. touched' \subseteq Quote /\ idle' \subseteq Request /\ excused' \subseteq Request
  BY DEF Save, Touch, Idle, Excuse
<1>3. OpenOK'
  BY <1>1, GoOnTypes DEF TypeOK
<1>4. /\ level' \in [Request -> Status]
      /\ price' \in PriceTable
      /\ chosen' \in [Quote -> Supplier \cup {NoSupplier}]
      /\ \A y \in Quote : chosen'[y] \in DOMAIN price'[y] \cup {NoSupplier}
  BY <1>1, WriteStatusTypes
<1>5. PriceTable' = PriceTable
  BY DEF PriceTable, AnyPrice
<1> QED BY <1>1, <1>2, <1>3, <1>4, <1>5 DEF TypeOK, clock

(* One that begins now judges by all prices there are.                     *)
LEMMA TxnJudges ==
    ASSUME TypeOK, NEW q \in Quote, NEW s \in Supplier, NEW x \in PricesOf[q] \cup {Gone}
    PROVE  IsTxn(Txn(q, s, x)) /\ Judges(Txn(q, s, x))
<1> DEFINE t == Txn(q, s, x)
<1>1. IsTxn(t) /\ t.quote = q
  BY TxnTypes DEF IsTxn
<1>2. /\ Written(t) = Put(price, q, s, x)
      /\ t.completes <=> Completes(q, Written(t))
      /\ t.completes => t.saw = Written(t)
  BY DEF Txn, Written
<1>3. Completes(q, Written(t)) =>
        /\ request[q] \in Request /\ level[request[q]] = SUPPLIER
        /\ AllPriced(request[q], Written(t))
  BY DEF Completes, TypeOK
<1> HIDE DEF t
<1>4. Judges(t)
  BY <1>1, <1>2, <1>3 DEF Judges
<1> QED BY <1>1, <1>4 DEF t

LEMMA GoesTypes ==
    ASSUME TypeOK, NEW r \in Request, NEW v \in Status, NEW changed,
           Goes(r, v, changed)
    PROVE  TypeOK'
<1>1. IsMove(To(r, v)) /\ price \in PriceTable
  BY DEF IsMove, To, TypeOK
<1>2. /\ WriteStatus(To(r, v), price, price) /\ UNCHANGED <<deadline, request, clock>>
      /\ GoOn(open, {r})
  BY DEF Goes
<1>3. touched' \subseteq Quote /\ idle' \subseteq Request /\ excused' \subseteq Request
  BY DEF Goes, Touch, Idle, Excuse
<1>4. OpenOK'
  BY <1>2, GoOnTypes DEF TypeOK
<1>5. /\ level' \in [Request -> Status]
      /\ price' \in PriceTable
      /\ chosen' \in [Quote -> Supplier \cup {NoSupplier}]
      /\ \A x \in Quote : chosen'[x] \in DOMAIN price'[x] \cup {NoSupplier}
  BY <1>1, <1>2, WriteStatusTypes
<1>6. PriceTable' = PriceTable
  BY DEF PriceTable, AnyPrice
<1> QED BY <1>2, <1>3, <1>4, <1>5, <1>6 DEF TypeOK, clock

LEMMA RequestActionTypes ==
    ASSUME TypeOK, NEW r \in Request, RequestAction(r)
    PROVE  TypeOK'
<1>0. (open' = open => OpenOK') /\ \A R : GoOn(open, R) => OpenOK'
  <2>1. Transaction' = Transaction /\ OpenOK
    BY DEF Transaction, PriceTable, AnyPrice, TypeOK
  <2> QED BY <2>1, GoOnTypes DEF OpenOK
<1>1. CASE \E v \in Status : Move(r, v)
  BY <1>1, GoesTypes DEF Move
<1>2. CASE Restart(r)
  BY <1>2, GoesTypes, LevelFacts DEF Restart
<1>3. CASE Decide(r)
  BY <1>3, GoesTypes, LevelFacts DEF Decide
<1>4. CASE \E d \in 1..MaxDay \cup {NoDate} : SetDeadline(r, d)
  <2>1. OpenOK'
    BY <1>0, <1>4 DEF SetDeadline
  <2> QED BY <1>4, <2>1
          DEF SetDeadline, TypeOK, quoteVars, clock, Excuse, PriceTable, AnyPrice
<1>5. CASE \E q \in Quote : AddQuote(q, r) \/ RemoveQuote(q, r)
  <2>1. PICK q \in Quote, n \in Request \cup {NoRequest} : ChangeRequest(q, r, n)
    BY <1>5 DEF AddQuote, RemoveQuote
  <2>2. OpenOK'
    BY <1>0, <2>1 DEF ChangeRequest
  <2> QED BY <2>1, <2>2 DEF ChangeRequest, TypeOK, clock, Touch, Idle, PriceTable, AnyPrice
<1>6. CASE StartReminder(r) \/ EndReminder(r)
  <2>1. OpenOK'
    BY <1>0, <1>6 DEF StartReminder, EndReminder
  <2>2. reminding' \subseteq Request
    BY <1>6 DEF StartReminder, EndReminder, TypeOK
  <2>3. UNCHANGED <<level, deadline, request, price, chosen, day, ran, touched, idle, excused>>
    BY <1>6 DEF StartReminder, EndReminder, quoteVars, ghosts
  <2> QED BY <2>1, <2>2, <2>3 DEF TypeOK, PriceTable, AnyPrice
<1> QED BY <1>1, <1>2, <1>3, <1>4, <1>5, <1>6 DEF RequestAction

(* What users and suppliers do to supplier quotes is to choose one, or is  *)
(* a transaction that begins, is saved or is rolled back.                  *)
IsSave(t, T) == IsTxn(t) /\ Judges(t) /\ Save(t, T)

LEMMA SaveCompletes ==
    ASSUME NEW t, NEW T, IsSave(t, T)
    PROVE  t.completes => request[t.quote] \in Request
BY DEF IsSave, Judges

LEMMA QuoteActions ==
    ASSUME TypeOK, NEW q \in Quote, NEW s \in Supplier, SupplierQuoteAction(q, s)
    PROVE  \/ Choose(q, s)
           \/ \E t : t.missed = {} /\ IsSave(t, open)
           \/ \E x \in PricesOf[q] \cup {Gone} : Begin(q, s, x)
<1>1. ASSUME NEW x \in PricesOf[q] \cup {Gone}, Answer(q, s, x)
      PROVE  \E t : t.missed = {} /\ IsSave(t, open)
  <2>1. IsTxn(Txn(q, s, x)) /\ Judges(Txn(q, s, x)) /\ Txn(q, s, x).missed = {}
    BY TxnJudges, TxnTypes
  <2> QED BY <1>1, <2>1 DEF Answer, IsSave
<1> QED BY <1>1 DEF SupplierQuoteAction

LEMMA OpenActions ==
    ASSUME TypeOK, OpenJudges, NEW t \in open, Commit(t) \/ Rollback(t)
    PROVE  IsSave(t, open \ {t}) \/ Rollback(t)
BY DEF TypeOK, OpenOK, OpenJudges, Commit, IsSave, IsTxn

LEMMA BeginTypes ==
    ASSUME TypeOK, NEW q \in Quote, NEW s \in Supplier, NEW x \in PricesOf[q] \cup {Gone},
           Begin(q, s, x)
    PROVE  TypeOK'
<1> DEFINE t == Txn(q, s, x)
<1>1. t \in Transaction /\ t.row \in PricesOf[t.quote] \cup {Gone}
      /\ t.quote = q /\ t.supplier = s
  BY TxnTypes
<1>2. /\ open' = open \cup {t}
      /\ \A u \in open : u.quote # q \/ u.supplier # s
      /\ UNCHANGED <<level, deadline, request, price, chosen, day, ran, reminding,
                     touched, idle, excused>>
  BY DEF Begin, quoteVars, clock, ghosts
<1> HIDE DEF t
<1>3. PriceTable' = PriceTable /\ Transaction' = Transaction
  BY DEF PriceTable, AnyPrice, Transaction
<1>4. OpenOK'
  BY <1>1, <1>2, <1>3 DEF OpenOK, TypeOK
<1> QED BY <1>2, <1>3, <1>4 DEF TypeOK

LEMMA ChooseTypes ==
    ASSUME TypeOK, NEW q \in Quote, NEW s \in Supplier, Choose(q, s)
    PROVE  TypeOK'
<1>1. OpenOK'
  BY GoOnTypes DEF Choose, TypeOK
<1> QED BY <1>1 DEF Choose, TypeOK, clock, Touch, PriceTable, AnyPrice

LEMMA RollbackTypes ==
    ASSUME TypeOK, NEW t \in open, Rollback(t)
    PROVE  TypeOK'
<1>1. OpenOK'
  BY DEF Rollback, TypeOK, OpenOK, Transaction, PriceTable, AnyPrice
<1> QED BY <1>1 DEF Rollback, TypeOK, quoteVars, clock, ghosts, PriceTable, AnyPrice

(* The cron moves every due request to the next level, or nothing.         *)
Proposed == [r \in Due |-> SUPPLIER + 1]

LEMMA CronFacts ==
    ASSUME TypeOK, DailyCron
    PROVE  /\ UNCHANGED <<deadline, request, day, reminding, price>>
           /\ ran' = TRUE /\ Idle({}, {})
           /\ IsMove(Proposed)
           /\ \A y \in Quote : ~Enters(y, Proposed, SUPPLIER)
           /\ \/ /\ WriteStatus(Proposed, price, price) /\ Touch(Proposed, {})
                 /\ Excuse({}) /\ GoOn(open, Due)
              \/ UNCHANGED <<level, chosen, touched, open>> /\ Excuse(Due)
<1>1. IsMove(Proposed) /\ \A y \in Quote : ~Enters(y, Proposed, SUPPLIER)
  BY LevelFacts DEF IsMove, Due, Proposed, Enters
<1>2. \/ /\ WriteStatus(Proposed, price, price) /\ Touch(Proposed, {})
         /\ Excuse({}) /\ GoOn(open, Due)
      \/ UNCHANGED <<level, price, chosen, touched, open>> /\ Excuse(Due)
  BY DEF DailyCron, Proposed
<1>3. WriteStatus(Proposed, price, price) => price' = price
  BY <1>1, TableFacts DEF WriteStatus, TypeOK
<1> QED BY <1>1, <1>2, <1>3 DEF DailyCron

LEMMA CronTypes == TypeOK /\ DailyCron => TypeOK'
<1> SUFFICES ASSUME TypeOK, DailyCron PROVE TypeOK'
  OBVIOUS
<1>1. /\ ran' = TRUE
      /\ UNCHANGED <<deadline, request, day, reminding, price>>
      /\ idle' \subseteq Request /\ excused' \subseteq Request /\ touched' \subseteq Quote
  BY CronFacts DEF Idle, Excuse, Touch, TypeOK
<1>2. PriceTable' = PriceTable /\ Transaction' = Transaction /\ price \in PriceTable
  BY DEF PriceTable, AnyPrice, Transaction, TypeOK
<1>3. CASE UNCHANGED <<level, chosen, touched, open>>
  BY <1>1, <1>2, <1>3 DEF TypeOK, OpenOK
<1>4. CASE WriteStatus(Proposed, price, price) /\ GoOn(open, Due)
  <2>1. /\ level' \in [Request -> Status]
        /\ chosen' \in [Quote -> Supplier \cup {NoSupplier}]
        /\ \A y \in Quote : chosen'[y] \in DOMAIN price'[y] \cup {NoSupplier}
    BY <1>2, <1>4, CronFacts, WriteStatusTypes
  <2>2. OpenOK'
    BY <1>4, GoOnTypes DEF TypeOK
  <2> QED BY <1>1, <1>2, <2>1, <2>2 DEF TypeOK
<1> QED BY <1>3, <1>4, CronFacts

LEMMA NextDayTypes == TypeOK /\ NextDay => TypeOK'
<1> SUFFICES ASSUME TypeOK, NextDay PROVE TypeOK'
  OBVIOUS
<1>1. day \in 1..(MaxDay + 1) /\ day <= MaxDay /\ day' = day + 1
  BY DEF NextDay, TypeOK
<1>2. day' \in 1..(MaxDay + 1)
  BY <1>1, DataAssumption
<1>3. ran' = FALSE /\ excused' \subseteq Request
  BY DEF NextDay, Excuse
<1>4. UNCHANGED <<level, deadline, request, price, chosen, reminding, open, touched, idle>>
  BY DEF NextDay, quoteVars
<1>5. OpenOK'
  BY <1>4 DEF TypeOK, OpenOK, Transaction, PriceTable, AnyPrice
<1> QED BY <1>2, <1>3, <1>4, <1>5 DEF TypeOK, PriceTable, AnyPrice

LEMMA InitTypes == Init => TypeOK /\ OpenJudges
<1> SUFFICES ASSUME Init PROVE TypeOK /\ OpenJudges
  OBVIOUS
<1>1. price \in PriceTable
  BY NobodyAsked DEF Init
<1>2. level \in [Request -> Status] /\ day \in 1..(MaxDay + 1)
  BY LevelFacts, DataAssumption DEF Init
<1>3. OpenOK /\ OpenJudges
  BY DEF Init, OpenOK, OpenJudges
<1> QED BY <1>1, <1>2, <1>3 DEF Init, TypeOK
-----------------------------------------------------------------------------
(* What the open transactions saw.                                         *)

(* The step leaves alone the requests that it does not write.              *)
Apart(R) ==
    \A r \in Request \ R : /\ level'[r] = level[r]
                           /\ \A q \in Quote : request'[q] = r <=> request[q] = r

LEMMA PutSame ==
    ASSUME NEW p, NEW p2, NEW q, NEW s, NEW x, NEW y \in DOMAIN p \cap DOMAIN p2,
           p[y] = p2[y]
    PROVE  Put(p, q, s, x)[y] = Put(p2, q, s, x)[y]
BY DEF Put

(* An open transaction that can still commit judges the request as before. *)
LEMMA JudgesKeep ==
    ASSUME TypeOK, TypeOK', NEW t \in open, Judges(t), NEW R, Apart(R),
           ~Collides(t, R), NEW u, u = [t EXCEPT !.missed = @ \cup Disturbed]
    PROVE  Judges(u)'
<1> DEFINE r == request[t.quote]
<1>0. PICK n : n = request'[t.quote]
  OBVIOUS
<1>1. /\ t \in Transaction /\ t.quote \in Quote
      /\ u.quote = t.quote /\ u.supplier = t.supplier /\ u.row = t.row
      /\ u.completes = t.completes /\ u.saw = t.saw
      /\ u.missed = t.missed \cup Disturbed
  BY DEF TypeOK, OpenOK, Transaction
<1>2. Disturbed \subseteq Quote
      /\ DOMAIN price = Quote /\ DOMAIN price' = Quote
  BY TableFacts DEF Disturbed, TypeOK
<1>3. ASSUME NEW q \in Quote, price'[q] = price[q]
      PROVE  Written(u)'[q] = Written(t)[q]
  BY <1>1, <1>2, <1>3, PutSame DEF Written
<1>4. ASSUME t.completes
      PROVE  /\ n \in Request /\ level'[n] = SUPPLIER
             /\ AllPriced(n, u.saw)'
             /\ \A q \in QuotesOf(n)' \ u.missed : u.saw[q] = Written(u)'[q]
  <2>1. /\ r \in Request /\ level[r] = SUPPLIER
        /\ AllPriced(r, t.saw)
        /\ \A q \in QuotesOf(r) \ t.missed : t.saw[q] = Written(t)[q]
    BY <1>4 DEF Judges
  <2>2. r \notin R
    BY <1>4 DEF Collides
  <2>3. n = r /\ level'[r] = level[r] /\ QuotesOf(n)' = QuotesOf(r)
    BY <1>0, <1>1, <2>1, <2>2 DEF Apart, QuotesOf
  <2>4. AllPriced(n, u.saw)'
    BY <1>1, <2>1, <2>3 DEF AllPriced
  <2>5. ASSUME NEW q \in QuotesOf(r), q \notin u.missed
        PROVE  u.saw[q] = Written(u)'[q]
    <3>1. q \in Quote /\ q \notin Disturbed /\ q \notin t.missed
      BY <1>1, <2>5 DEF QuotesOf
    <3>2. price'[q] = price[q]
      BY <3>1 DEF Disturbed
    <3> QED BY <1>1, <1>3, <2>1, <2>5, <3>1, <3>2
  <2> QED BY <2>1, <2>3, <2>4, <2>5
<1>5. ASSUME ~t.completes, u.missed \cap ({t.quote} \cup QuotesOf(n)') = {},
             Completes(t.quote, Written(u))'
      PROVE  FALSE
  <2>1. n \in Request /\ level'[n] = SUPPLIER
        /\ \A q \in QuotesOf(n)' : \A s \in DOMAIN Written(u)'[q] : Written(u)'[q][s] > 0
    BY <1>0, <1>1, <1>5 DEF Completes, AllPriced, TypeOK
  <2>2. t.quote \notin Disturbed /\ t.quote \notin t.missed
    BY <1>1, <1>5
  <2>3. \A x \in Quote : request'[x] = request[x] \/ r \notin {request[x], request'[x]}
    BY <1>1, <2>2 DEF Disturbed
  <2>4. n = r /\ QuotesOf(n)' = QuotesOf(r)
    BY <1>0, <1>1, <2>3 DEF QuotesOf
  <2>5. level[r] = SUPPLIER
    BY <1>1, <2>1, <2>2, <2>4 DEF Disturbed
  <2>6. ASSUME NEW q \in QuotesOf(r)
        PROVE  q \notin t.missed /\ \A s \in DOMAIN Written(t)[q] : Written(t)[q][s] > 0
    <3>1. q \in Quote /\ q \notin Disturbed /\ q \notin t.missed
      BY <1>1, <1>5, <2>4, <2>6 DEF QuotesOf
    <3>2. price'[q] = price[q]
      BY <3>1 DEF Disturbed
    <3> QED BY <1>3, <2>1, <2>4, <3>1, <3>2
  <2>7. Completes(t.quote, Written(t))
    BY <2>1, <2>4, <2>5, <2>6, DataAssumption DEF Completes, AllPriced
  <2>8. t.missed \cap ({t.quote} \cup QuotesOf(r)) = {}
    BY <2>2, <2>6
  <2> QED BY <1>5, <2>7, <2>8 DEF Judges
<1> QED BY <1>0, <1>1, <1>4, <1>5 DEF Judges

LEMMA GoOnJudges ==
    ASSUME TypeOK, TypeOK', OpenJudges, NEW T \in SUBSET open, NEW R, Apart(R), GoOn(T, R)
    PROVE  OpenJudges'
BY JudgesKeep DEF GoOn, OpenJudges

(* Nothing changes that a transaction reads.                               *)
LEMMA StillJudges ==
    ASSUME TypeOK, OpenJudges, open' \subseteq open, UNCHANGED <<level, request, price>>
    PROVE  OpenJudges'
BY DEF OpenJudges, Judges, QuotesOf, AllPriced, Completes, Written

LEMMA SaveJudges ==
    ASSUME TypeOK, TypeOK', OpenJudges, NEW t, NEW T \in SUBSET open, IsSave(t, T)
    PROVE  OpenJudges'
<1>1. /\ WriteStatus(Goal(t), Written(t), t.saw) /\ request' = request
      /\ GoOn(T, DOMAIN Goal(t))
  BY SaveCompletes, SaveFacts DEF IsSave
<1>2. Apart(DOMAIN Goal(t))
  BY <1>1 DEF Apart, WriteStatus
<1> QED BY <1>1, <1>2, GoOnJudges

LEMMA BeginJudges ==
    ASSUME TypeOK, OpenJudges, NEW q \in Quote, NEW s \in Supplier,
           NEW x \in PricesOf[q] \cup {Gone}, Begin(q, s, x)
    PROVE  OpenJudges'
<1>1. Judges(Txn(q, s, x)) /\ UNCHANGED <<level, request, price>>
      /\ open' = open \cup {Txn(q, s, x)}
  BY TxnJudges DEF Begin, quoteVars
<1>2. \A t \in open' : Judges(t)
  BY <1>1 DEF OpenJudges
<1> QED BY <1>1, <1>2
        DEF OpenJudges, Judges, QuotesOf, AllPriced, Completes, Written

LEMMA RequestActionJudges ==
    ASSUME TypeOK, TypeOK', OpenJudges, NEW r \in Request, RequestAction(r)
    PROVE  OpenJudges'
<1>1. ASSUME NEW v, NEW changed, Goes(r, v, changed)
      PROVE  OpenJudges'
  <2>1. WriteStatus(To(r, v), price, price) /\ request' = request /\ GoOn(open, {r})
    BY <1>1 DEF Goes
  <2>2. Apart({r})
    BY <2>1 DEF Apart, WriteStatus, To
  <2> QED BY <2>1, <2>2, GoOnJudges
<1>2. CASE \E v \in Status : Move(r, v)
  BY <1>1, <1>2 DEF Move
<1>3. CASE Restart(r) \/ Decide(r)
  BY <1>1, <1>3 DEF Restart, Decide
<1>4. CASE \E d \in 1..MaxDay \cup {NoDate} : SetDeadline(r, d)
  <2>1. Apart({r}) /\ GoOn(open, {r})
    BY <1>4 DEF SetDeadline, Apart, quoteVars
  <2> QED BY <2>1, GoOnJudges
<1>5. CASE \E q \in Quote : AddQuote(q, r) \/ RemoveQuote(q, r)
  <2>1. PICK q \in Quote : /\ request[q] \in {r, NoRequest}
                           /\ \E n \in {r, NoRequest} : ChangeRequest(q, r, n)
    BY <1>5 DEF AddQuote, RemoveQuote
  <2>2. PICK n \in {r, NoRequest} : ChangeRequest(q, r, n)
    BY <2>1
  <2>3. /\ level' = level /\ GoOn(open, {r})
        /\ \A y \in Quote : request'[y] = IF y = q THEN n ELSE request[y]
    BY <2>2 DEF ChangeRequest, TypeOK
  <2>4. Apart({r})
    BY <2>1, <2>3, DataAssumption DEF Apart
  <2> QED BY <2>3, <2>4, GoOnJudges
<1>6. CASE StartReminder(r) \/ EndReminder(r)
  <2>1. open' = open /\ UNCHANGED <<level, request, price>>
    BY <1>6 DEF StartReminder, EndReminder, quoteVars
  <2> QED BY <2>1, StillJudges
<1> QED BY <1>2, <1>3, <1>4, <1>5, <1>6 DEF RequestAction

LEMMA CronJudges ==
    ASSUME TypeOK, TypeOK', OpenJudges, DailyCron
    PROVE  OpenJudges'
<1>1. request' = request /\ price' = price
  BY CronFacts
<1>2. CASE UNCHANGED <<level, chosen, touched, open>>
  BY <1>1, <1>2, StillJudges
<1>3. CASE WriteStatus(Proposed, price, price) /\ GoOn(open, Due)
  <2>1. Apart(Due)
    BY <1>1, <1>3 DEF Apart, WriteStatus, Proposed
  <2> QED BY <1>3, <2>1, GoOnJudges
<1> QED BY <1>2, <1>3, CronFacts

(* The inductive invariant: types, and what open transactions saw.         *)
IInv == TypeOK /\ OpenJudges

LEMMA InductiveStep == IInv /\ [Next]_vars => IInv'
<1> SUFFICES ASSUME TypeOK, OpenJudges, [Next]_vars PROVE TypeOK' /\ OpenJudges'
  BY DEF IInv
<1>1. CASE \E r \in Request : RequestAction(r)
  BY <1>1, RequestActionTypes, RequestActionJudges
<1>2. ASSUME NEW q \in Quote, NEW s \in Supplier, SupplierQuoteAction(q, s)
      PROVE  TypeOK' /\ OpenJudges'
  <2>1. CASE Choose(q, s)
    <3>1. TypeOK'
      BY <2>1, ChooseTypes
    <3>2. Apart({}) /\ GoOn(open, {})
      BY <2>1 DEF Choose, Apart
    <3> QED BY <3>1, <3>2, GoOnJudges
  <2>2. ASSUME NEW t, IsSave(t, open) PROVE TypeOK' /\ OpenJudges'
    <3>1. TypeOK'
      BY <2>2, SaveCompletes, SaveTypes DEF IsSave
    <3> QED BY <2>2, <3>1, SaveJudges
  <2>3. ASSUME NEW x \in PricesOf[q] \cup {Gone}, Begin(q, s, x)
        PROVE  TypeOK' /\ OpenJudges'
    BY <2>3, BeginTypes, BeginJudges
  <2> QED BY <1>2, <2>1, <2>2, <2>3, QuoteActions
<1>3. ASSUME NEW t \in open, Commit(t) \/ Rollback(t)
      PROVE  TypeOK' /\ OpenJudges'
  <2>1. CASE IsSave(t, open \ {t})
    <3>1. TypeOK'
      BY <2>1, SaveCompletes, SaveTypes DEF IsSave
    <3> QED BY <2>1, <3>1, SaveJudges
  <2>2. CASE Rollback(t)
    <3>1. open' \subseteq open /\ UNCHANGED <<level, request, price>>
      BY <2>2 DEF Rollback, quoteVars
    <3> QED BY <2>2, <3>1, RollbackTypes, StillJudges
  <2> QED BY <1>3, <2>1, <2>2, OpenActions
<1>4. CASE DailyCron
  BY <1>4, CronTypes, CronJudges
<1>5. CASE NextDay
  <2>1. open' = open /\ UNCHANGED <<level, request, price>>
    BY <1>5 DEF NextDay, quoteVars
  <2> QED BY <1>5, <2>1, NextDayTypes, StillJudges
<1>6. CASE UNCHANGED vars
  <2>1. open' = open /\ UNCHANGED <<level, request, price>>
    BY <1>6 DEF vars
  <2>2. TypeOK'
    BY <1>6 DEF vars, TypeOK, OpenOK, Transaction, PriceTable, AnyPrice
  <2> QED BY <2>1, <2>2, StillJudges
<1> QED BY <1>1, <1>2, <1>3, <1>4, <1>5, <1>6 DEF Next

(* Requests, quotes, prices and choices always have their types, and only  *)
(* a supplier that was asked for a quote is ever its choice.               *)
THEOREM TypeInvariance == Spec => []TypeOK
<1>1. IInv => TypeOK
  BY DEF IInv
<1>2. Init => IInv
  BY InitTypes DEF IInv
<1> QED BY <1>1, <1>2, InductiveStep, PTL DEF Spec

(* An open transaction that completes its request by the prices it saw     *)
(* will leave a complete request, but for quotes whose change it missed;   *)
(* and one that missed none and completes nothing will complete nothing.   *)
THEOREM OpenInvariance == Spec => []OpenJudges
<1>1. IInv => OpenJudges
  BY DEF IInv
<1>2. Init => IInv
  BY InitTypes DEF IInv
<1> QED BY <1>1, <1>2, InductiveStep, PTL DEF Spec
-----------------------------------------------------------------------------
(* The deadline.                                                           *)

(* A step within a day keeps the account of the requests that are late.    *)
LEMMA ExcuseKeeps ==
    ASSUME TypeOK, DeadlineIsKept, NEW lost, Excuse(lost), UNCHANGED <<day, ran>>
    PROVE  DeadlineIsKept'
<1> SUFFICES ASSUME NEW r \in Request,
                    level'[r] = SUPPLIER,
                    deadline'[r] # NoDate,
                    deadline'[r] < day \/ (deadline'[r] = day /\ ran)
             PROVE  r \in excused'
  BY DEF DeadlineIsKept
<1>1. CASE level'[r] = level[r] /\ deadline'[r] = deadline[r]
  BY <1>1 DEF DeadlineIsKept, Excuse
<1>2. CASE ~(level'[r] = level[r] /\ deadline'[r] = deadline[r])
  BY <1>2 DEF Excuse, ArrivedLate
<1> QED BY <1>1, <1>2

LEMMA DeadlineOfCron == TypeOK /\ DeadlineIsKept /\ DailyCron => DeadlineIsKept'
<1> SUFFICES ASSUME TypeOK, DeadlineIsKept, DailyCron,
                    NEW r \in Request,
                    level'[r] = SUPPLIER,
                    deadline'[r] # NoDate,
                    deadline'[r] < day' \/ (deadline'[r] = day' /\ ran')
             PROVE  r \in excused'
  BY DEF DeadlineIsKept
<1>1. ran' = TRUE /\ day' = day /\ deadline' = deadline
  BY DEF DailyCron
<1>2. CASE WriteStatus(Proposed, price, price) /\ Excuse({})
  <2>1. r \notin Due /\ level[r] = SUPPLIER
    BY <1>2, LevelFacts DEF WriteStatus, Proposed
  <2>2. deadline[r] # day
    BY <2>1 DEF Due
  <2> QED BY <1>1, <1>2, <2>1, <2>2 DEF DeadlineIsKept, Excuse
<1>3. CASE UNCHANGED <<level, chosen, touched, open>> /\ Excuse(Due)
  BY <1>1, <1>3 DEF DeadlineIsKept, Excuse, Due
<1> QED BY <1>2, <1>3, CronFacts

LEMMA DeadlineOfNextDay == TypeOK /\ DeadlineIsKept /\ NextDay => DeadlineIsKept'
<1> SUFFICES ASSUME TypeOK, DeadlineIsKept, NextDay,
                    NEW r \in Request,
                    level'[r] = SUPPLIER,
                    deadline'[r] # NoDate,
                    deadline'[r] < day' \/ (deadline'[r] = day' /\ ran')
             PROVE  r \in excused'
  BY DEF DeadlineIsKept
<1>1. /\ day' = day + 1 /\ ~ran'
      /\ level' = level /\ deadline' = deadline
      /\ Excuse(IF ran THEN {} ELSE
                {x \in Request : level[x] = SUPPLIER /\ deadline[x] = day})
  BY DEF NextDay
<1>2. deadline[r] \in Int /\ day \in Int
  BY <1>1 DEF TypeOK
<1>3. deadline[r] < day \/ deadline[r] = day
  BY <1>1, <1>2
<1>4. CASE deadline[r] < day \/ ran
  BY <1>1, <1>3, <1>4 DEF DeadlineIsKept, Excuse
<1>5. CASE deadline[r] = day /\ ~ran
  BY <1>1, <1>5 DEF Excuse
<1> QED BY <1>3, <1>4, <1>5

LEMMA DeadlineStep == TypeOK /\ DeadlineIsKept /\ [Next]_vars => DeadlineIsKept'
<1> SUFFICES ASSUME TypeOK, DeadlineIsKept, [Next]_vars PROVE DeadlineIsKept'
  OBVIOUS
<1>0. ASSUME UNCHANGED <<level, deadline, day, ran, excused>> PROVE DeadlineIsKept'
  BY <1>0 DEF DeadlineIsKept
<1>1. ASSUME NEW r \in Request, NEW v, NEW changed, Goes(r, v, changed)
      PROVE  DeadlineIsKept'
  BY <1>1, ExcuseKeeps DEF Goes, clock
<1>2. ASSUME NEW t, NEW T, Save(t, T) PROVE DeadlineIsKept'
  BY <1>2, ExcuseKeeps DEF Save, clock
<1>3. ASSUME NEW r \in Request, RequestAction(r) PROVE DeadlineIsKept'
  <2>1. CASE (\E v \in Status : Move(r, v)) \/ Restart(r) \/ Decide(r)
    BY <1>1, <2>1 DEF Move, Restart, Decide
  <2>2. CASE \E d \in 1..MaxDay \cup {NoDate} : SetDeadline(r, d)
    BY <2>2, ExcuseKeeps DEF SetDeadline, clock
  <2>3. CASE \E q \in Quote : AddQuote(q, r) \/ RemoveQuote(q, r)
    BY <1>0, <2>3 DEF AddQuote, RemoveQuote, ChangeRequest, clock
  <2>4. CASE StartReminder(r) \/ EndReminder(r)
    BY <1>0, <2>4 DEF StartReminder, EndReminder, ghosts
  <2> QED BY <1>3, <2>1, <2>2, <2>3, <2>4 DEF RequestAction
<1>4. ASSUME NEW q \in Quote, NEW s \in Supplier, SupplierQuoteAction(q, s)
      PROVE  DeadlineIsKept'
  <2>1. CASE Choose(q, s)
    BY <1>0, <2>1 DEF Choose, clock
  <2>2. ASSUME NEW x, Begin(q, s, x) PROVE DeadlineIsKept'
    BY <1>0, <2>2 DEF Begin, clock, ghosts
  <2> QED BY <1>2, <1>4, <2>1, <2>2 DEF SupplierQuoteAction, Answer
<1>5. ASSUME NEW t, Commit(t) \/ Rollback(t) PROVE DeadlineIsKept'
  BY <1>0, <1>2, <1>5 DEF Commit, Rollback, clock, ghosts
<1>6. CASE UNCHANGED vars
  BY <1>0, <1>6 DEF vars
<1> QED BY <1>3, <1>4, <1>5, <1>6, DeadlineOfCron, DeadlineOfNextDay DEF Next

(* A request is never left at SUPPLIER past its deadline without a cause   *)
(* that lies outside the cron: no run that day, a failed one, or a request *)
(* or deadline that came after it.                                         *)
THEOREM DeadlineTheorem == Spec => []DeadlineIsKept
<1>1. Init => DeadlineIsKept
  BY DEF Init, DeadlineIsKept
<1>2. Init => IInv
  BY InitTypes DEF IInv
<1>3. IInv /\ DeadlineIsKept /\ [Next]_vars => DeadlineIsKept'
  BY DeadlineStep DEF IInv
<1> QED BY <1>1, <1>2, <1>3, InductiveStep, PTL DEF Spec

-----------------------------------------------------------------------------
(* Completeness.                                                           *)

LEMMA IdleOfGoes ==
    ASSUME TypeOK, PricedNeverWaits, NEW r \in Request,
           NEW v, NEW changed, Goes(r, v, changed)
    PROVE  PricedNeverWaits'
<1> SUFFICES ASSUME NEW x \in Request, level'[x] = SUPPLIER, AllPriced(x, price)'
             PROVE  x \in idle'
  BY DEF PricedNeverWaits
<1>1. WriteStatus(To(r, v), price, price) /\ request' = request /\ Idle({r}, {})
  BY DEF Goes
<1>2. \A q \in QuotesOf(x) : \A s \in DOMAIN price'[q] : price'[q][s] > 0
  BY <1>1 DEF AllPriced, QuotesOf
<1>3. CASE x = r
  BY <1>1, <1>2, <1>3 DEF Idle, QuotesOf
<1>4. CASE x # r
  <2>1. level'[x] = level[x] /\ \A q \in QuotesOf(x) : price'[q] = price[q]
    BY <1>1, <1>4 DEF WriteStatus, To, Enters, QuotesOf
  <2>2. AllPriced(x, price)
    BY <1>2, <2>1 DEF AllPriced
  <2> QED BY <1>1, <2>1, <2>2 DEF Idle, PricedNeverWaits
<1> QED BY <1>3, <1>4

(* The answer that misses no other takes a complete request on.            *)
LEMMA IdleOfSave ==
    ASSUME TypeOK, PricedNeverWaits, NEW t, NEW T, IsSave(t, T)
    PROVE  PricedNeverWaits'
<1> SUFFICES ASSUME NEW x \in Request, level'[x] = SUPPLIER, AllPriced(x, price)'
             PROVE  x \in idle'
  BY DEF PricedNeverWaits
<1> DEFINE r == request[t.quote]
           others == t.missed \cap ({t.quote} \cup QuotesOf(r))
<1>1. /\ WriteStatus(Goal(t), Written(t), t.saw) /\ request' = request
      /\ price' = Written(t)
      /\ \A y \in Quote : y # t.quote => price'[y] = price[y]
      /\ t.completes => r \in Request
  BY SaveCompletes, SaveFacts DEF IsSave
<1>2. IF others = {} THEN Idle({}, {r}) ELSE Idle({r}, {})
  BY DEF IsSave, Save
<1>3. x \notin DOMAIN Goal(t)
  BY <1>1, LevelFacts DEF WriteStatus, Goal, To, Nowhere
<1>4. level[x] = SUPPLIER /\ AllPriced(x, Written(t))
  BY <1>1, <1>3 DEF WriteStatus, AllPriced, QuotesOf
<1>5. CASE x # r
  <2>1. AllPriced(x, price)
    BY <1>1, <1>4, <1>5 DEF AllPriced, QuotesOf
  <2>2. x \in idle
    BY <1>4, <2>1 DEF PricedNeverWaits
  <2> QED BY <1>2, <1>5, <2>2 DEF Idle
<1>6. CASE x = r
  <2>1. ~t.completes
    BY <1>3, <1>6 DEF Goal, To
  <2>2. Completes(t.quote, Written(t))
    BY <1>4, <1>6, DataAssumption DEF Completes
  <2>3. others # {}
    BY <2>1, <2>2 DEF IsSave, Judges
  <2>4. Idle({r}, {})
    BY <1>2, <2>3
  <2>5. \A q \in Quote : request'[q] = x => \A s \in DOMAIN price'[q] : price'[q][s] > 0
    BY <1>1, <1>4 DEF AllPriced, QuotesOf
  <2> QED BY <1>6, <2>4, <2>5 DEF Idle
<1> QED BY <1>5, <1>6

LEMMA IdleOfCron ==
    ASSUME TypeOK, PricedNeverWaits, DailyCron
    PROVE  PricedNeverWaits'
<1> SUFFICES ASSUME NEW x \in Request, level'[x] = SUPPLIER, AllPriced(x, price)'
             PROVE  x \in idle'
  BY DEF PricedNeverWaits
<1>1. request' = request /\ Idle({}, {}) /\ price' = price
  BY CronFacts
<1>2. level[x] = SUPPLIER
  BY CronFacts, LevelFacts DEF WriteStatus, Proposed
<1> QED BY <1>1, <1>2 DEF PricedNeverWaits, Idle, AllPriced, QuotesOf

LEMMA IdleOfChangeRequest ==
    ASSUME TypeOK, PricedNeverWaits, NEW q \in Quote, NEW r \in Request,
           AddQuote(q, r) \/ RemoveQuote(q, r)
    PROVE  PricedNeverWaits'
<1> SUFFICES ASSUME NEW x \in Request, level'[x] = SUPPLIER, AllPriced(x, price)'
             PROVE  x \in idle'
  BY DEF PricedNeverWaits
<1>1. PICK new \in {r, NoRequest} : ChangeRequest(q, r, new)
  BY DEF AddQuote, RemoveQuote
<1>2. /\ request' = [request EXCEPT ![q] = new]
      /\ level' = level /\ price' = price /\ Idle({r}, {})
  BY <1>1 DEF ChangeRequest
<1>3. CASE x = r
  BY <1>2, <1>3 DEF Idle, AllPriced, QuotesOf
<1>4. CASE x # r
  <2>1. request[q] \in {r, NoRequest}
    BY DEF AddQuote, RemoveQuote
  <2>2. \A y \in Quote : request[y] = x => request'[y] = x
    BY <1>2, <1>4, <2>1, DataAssumption DEF TypeOK
  <2>3. AllPriced(x, price)
    BY <1>2, <2>2 DEF AllPriced, QuotesOf
  <2> QED BY <1>2, <2>3 DEF PricedNeverWaits, Idle
<1> QED BY <1>3, <1>4

LEMMA IdleStep == IInv /\ PricedNeverWaits /\ [Next]_vars => PricedNeverWaits'
<1> SUFFICES ASSUME TypeOK, OpenJudges, PricedNeverWaits, [Next]_vars
             PROVE  PricedNeverWaits'
  BY DEF IInv
<1>1. ASSUME UNCHANGED <<level, request, price, idle>>
      PROVE  PricedNeverWaits'
  BY <1>1 DEF PricedNeverWaits, AllPriced, QuotesOf
<1>2. ASSUME NEW r \in Request, RequestAction(r) PROVE PricedNeverWaits'
  <2>1. CASE (\E v \in Status : Move(r, v)) \/ Restart(r) \/ Decide(r)
    BY <2>1, IdleOfGoes DEF Move, Restart, Decide
  <2>2. CASE \E d \in 1..MaxDay \cup {NoDate} : SetDeadline(r, d)
    BY <1>1, <2>2 DEF SetDeadline, quoteVars
  <2>3. CASE \E q \in Quote : AddQuote(q, r) \/ RemoveQuote(q, r)
    BY <2>3, IdleOfChangeRequest
  <2>4. CASE StartReminder(r) \/ EndReminder(r)
    BY <1>1, <2>4 DEF StartReminder, EndReminder, ghosts, quoteVars
  <2> QED BY <1>2, <2>1, <2>2, <2>3, <2>4 DEF RequestAction
<1>3. ASSUME NEW q \in Quote, NEW s \in Supplier, SupplierQuoteAction(q, s)
      PROVE  PricedNeverWaits'
  <2>1. CASE Choose(q, s)
    BY <1>1, <2>1 DEF Choose
  <2>2. ASSUME NEW x, Begin(q, s, x) PROVE PricedNeverWaits'
    BY <1>1, <2>2 DEF Begin, quoteVars, ghosts
  <2> QED BY <1>3, <2>1, <2>2, QuoteActions, IdleOfSave
<1>4. ASSUME NEW t \in open, Commit(t) \/ Rollback(t) PROVE PricedNeverWaits'
  <2>1. CASE Rollback(t)
    BY <1>1, <2>1 DEF Rollback, quoteVars, ghosts
  <2> QED BY <1>4, <2>1, OpenActions, IdleOfSave
<1>5. CASE NextDay \/ UNCHANGED vars
  BY <1>1, <1>5 DEF NextDay, quoteVars, vars
<1> QED BY <1>2, <1>3, <1>4, <1>5, IdleOfCron DEF Next

(* A request whose last price was given, changed or withdrawn by a         *)
(* transaction that missed no other does not stay at SUPPLIER with all     *)
(* prices known.                                                           *)
THEOREM CompletenessTheorem == Spec => []PricedNeverWaits
<1>1. Init => PricedNeverWaits
  BY DEF Init, PricedNeverWaits
<1>2. Init => IInv
  BY InitTypes DEF IInv
<1> QED BY <1>1, <1>2, InductiveStep, IdleStep, PTL DEF Spec
-----------------------------------------------------------------------------
(* The expert's choice.                                                    *)

(* What is claimed of one quote, once its request is beyond the expert.    *)
Stands(q) ==
    \A s \in DOMAIN price[q] : price[q][s] # 0 =>
        /\ chosen[q] # NoSupplier
        /\ price[q][chosen[q]] # 0 /\ price[q][chosen[q]] <= price[q][s]

(* A quote whose request enters EXPERT gets the cheapest supplier, if the  *)
(* transaction saw its prices as they are; one whose request and prices    *)
(* the write leaves alone keeps its choice.                                *)
LEMMA ChoiceAfterWrite ==
    ASSUME TypeOK, NEW to, IsMove(to), NEW p \in PriceTable, NEW saw,
           WriteStatus(to, p, saw),
           NEW q \in Quote, ~Enters(q, to, SUPPLIER),
           IF Enters(q, to, EXPERT) THEN saw[q] = p[q] ELSE Stands(q) /\ p[q] = price[q]
    PROVE  Stands(q)'
<1>1. price'[q] = p[q] /\ chosen'[q] \in Choices(q, p, saw, to)
  BY DEF WriteStatus
<1>2. IsPrices(p[q])
  BY TableFacts
<1>3. CASE Enters(q, to, EXPERT)
  <2> SUFFICES ASSUME NEW s \in DOMAIN p[q], p[q][s] # 0
               PROVE  /\ chosen'[q] # NoSupplier
                      /\ p[q][chosen'[q]] # 0 /\ p[q][chosen'[q]] <= p[q][s]
    BY <1>1 DEF Stands
  <2>1. Cheapest(p[q]) # {} /\ Cheapest(p[q]) \subseteq DOMAIN p[q]
    BY <1>2, CheapestFacts
  <2>2. chosen'[q] \in Cheapest(p[q])
    BY <1>1, <1>3, <2>1 DEF Choices
  <2>3. chosen'[q] \in Supplier
    BY <1>2, <2>1, <2>2, PricesFacts
  <2> QED BY <1>2, <2>2, <2>3, CheapestFacts, DataAssumption
<1>4. CASE ~Enters(q, to, EXPERT)
  <2>1. Stands(q) /\ p[q] = price[q]
    BY <1>4
  <2>2. chosen[q] \in DOMAIN p[q] \cup {NoSupplier}
    BY <2>1 DEF TypeOK
  <2>3. chosen'[q] = chosen[q]
    BY <1>1, <1>4, <2>2 DEF Choices
  <2> QED BY <1>1, <2>1, <2>3 DEF Stands
<1> QED BY <1>3, <1>4

LEMMA BeyondFacts ==
    /\ ~Beyond(SUPPLIER) /\ ~Beyond(1) /\ ~Beyond(NoStatus) /\ Beyond(Decided)
    /\ SUPPLIER # EXPERT /\ Decided # SUPPLIER
    /\ \A l \in Level : l < EXPERT => ~Beyond(l)
    /\ \A l \in Level : l >= EXPERT => Beyond(l)
    /\ Top >= EXPERT /\ Top \in Level
    /\ SUPPLIER + 1 = EXPERT \/ ~Beyond(SUPPLIER + 1)
<1>1. SUPPLIER \in 1..Top /\ EXPERT \in 1..Top /\ Top \in Nat /\ SUPPLIER < EXPERT
  BY LevelsAssumption DEF Level
<1>2. Decided \notin Int /\ NoStatus \notin Int /\ Decided # NoStatus
  BY LevelsAssumption
<1>3. 1 < EXPERT /\ SUPPLIER + 1 <= EXPERT /\ Top \in 1..Top /\ Top >= EXPERT
  BY <1>1
<1>4. /\ \A l \in Int : Beyond(l) <=> l \in EXPERT..Top
      /\ Beyond(Decided) /\ ~Beyond(NoStatus)
  <2>1. \A l \in Int : l # Decided
    BY <1>2
  <2>2. NoStatus \notin EXPERT..Top
    BY <1>1, <1>2
  <2> QED BY <1>2, <2>1, <2>2 DEF Beyond
<1>5. ~Beyond(SUPPLIER) /\ ~Beyond(1) /\ SUPPLIER # EXPERT
  BY <1>1, <1>3, <1>4
<1>6. \A l \in 1..Top : (l < EXPERT => ~Beyond(l)) /\ (l >= EXPERT => Beyond(l))
  BY <1>1, <1>4
<1>7. SUPPLIER + 1 = EXPERT \/ ~Beyond(SUPPLIER + 1)
  BY <1>1, <1>4
<1>8. Decided # SUPPLIER
  BY <1>1, <1>2
<1> QED BY <1>3, <1>4, <1>5, <1>6, <1>7, <1>8 DEF Level

(* A transaction that moves no request past EXPERT, and sees the prices of *)
(* the quotes it chooses for, keeps what is claimed of them.               *)
LEMMA ChoiceOfWrite ==
    ASSUME TypeOK, ExpertChoiceStands, NEW to, IsMove(to), NEW p \in PriceTable,
           NEW saw, WriteStatus(to, p, saw), request' = request,
           NEW changed, Touch(to, changed),
           NEW q \in Quote, q \notin touched', request'[q] # NoRequest,
           Beyond(level'[request'[q]]),
           IF request[q] \in DOMAIN to
           THEN IF to[request[q]] = EXPERT THEN saw[q] = p[q]
                ELSE Beyond(level[request[q]]) /\ p[q] = price[q]
           ELSE p[q] = price[q]
    PROVE  Stands(q)'
<1>1. request[q] \in Request /\ q \notin changed /\ (q \in touched => Enters(q, to, EXPERT))
  BY DEF TypeOK, Touch
<1>2. level'[request[q]] = IF request[q] \in DOMAIN to THEN to[request[q]]
                          ELSE level[request[q]]
  BY <1>1 DEF WriteStatus
<1>3. ~Enters(q, to, SUPPLIER)
  BY <1>2, BeyondFacts DEF Enters
<1>4. CASE Enters(q, to, EXPERT)
  BY <1>3, <1>4, ChoiceAfterWrite DEF Enters
<1>5. CASE ~Enters(q, to, EXPERT)
  <2>1. q \notin touched /\ Beyond(level[request[q]]) /\ p[q] = price[q]
    BY <1>1, <1>2, <1>5 DEF Enters
  <2>2. Stands(q)
    BY <2>1 DEF ExpertChoiceStands, Stands
  <2> QED BY <1>3, <1>5, <2>1, <2>2, ChoiceAfterWrite
<1> QED BY <1>4, <1>5

LEMMA ChoiceOfGoes ==
    ASSUME TypeOK, ExpertChoiceStands, NEW r \in Request,
           NEW v \in Status, NEW changed, Goes(r, v, changed),
           Beyond(v) /\ v # EXPERT => Beyond(level[r]) \/ QuotesOf(r) \subseteq changed
    PROVE  ExpertChoiceStands'
<1> SUFFICES ASSUME NEW q \in Quote, q \notin touched', request'[q] # NoRequest,
                    Beyond(level'[request'[q]])
             PROVE  Stands(q)'
  BY DEF ExpertChoiceStands, Stands, Beyond
<1> DEFINE to == To(r, v)
<1>1. /\ WriteStatus(to, price, price) /\ request' = request /\ Touch(to, changed)
      /\ IsMove(to) /\ price \in PriceTable
  BY DEF Goes, To, IsMove, TypeOK
<1>2. ASSUME request[q] = r, v # EXPERT
      PROVE  Beyond(level[r])
  <2>1. level'[r] = v /\ Beyond(v)
    BY <1>1, <1>2 DEF WriteStatus, To
  <2>2. q \notin changed /\ q \in QuotesOf(r)
    BY <1>1, <1>2 DEF Touch, QuotesOf
  <2> QED BY <1>2, <2>1, <2>2
<1>3. request[q] \in DOMAIN to => request[q] = r /\ to[request[q]] = v
  BY DEF To
<1> HIDE DEF to
<1> QED BY <1>1, <1>2, <1>3, ChoiceOfWrite

(* The ladder is climbed one level at a time: nobody gets beyond EXPERT    *)
(* without entering it, but from no status at all, or by a decision that   *)
(* bypasses the checks.                                                    *)
LEMMA MoveFromBeyond ==
    ASSUME TypeOK, NEW r \in Request, NEW v \in Status, ValidMove(r, v),
           Beyond(v), v # EXPERT
    PROVE  Beyond(level[r]) \/ level[r] = NoStatus
<1>1. level[r] \in Status
  BY DEF TypeOK
<1>2. CASE level[r] = Decided
  BY <1>2, BeyondFacts
<1>3. CASE level[r] \in Level
  <2>1. CASE v = Decided
    <3>1. level[r] = Top
      BY <1>3, <2>1, BeyondFacts, LevelsAssumption DEF ValidMove, Level
    <3> QED BY <3>1, BeyondFacts
  <2>2. CASE v \in Level
    <3>1. v - level[r] \in -1..1
      BY <1>3, <2>2, LevelsAssumption DEF ValidMove, Level
    <3>2. ~(v < EXPERT)
      BY <2>2, BeyondFacts
    <3>3. v \in Int /\ level[r] \in Int /\ EXPERT \in Int
      BY <1>3, <2>2, LevelsAssumption DEF Level
    <3>4. level[r] >= EXPERT
      BY <3>1, <3>2, <3>3
    <3> QED BY <1>3, <3>4, BeyondFacts
  <2> QED BY <2>1, <2>2, BeyondFacts DEF Status
<1> QED BY <1>1, <1>2, <1>3 DEF Status

LEMMA ChoiceOfSave ==
    ASSUME TypeOK, ExpertChoiceStands, NEW t, NEW T, IsSave(t, T)
    PROVE  ExpertChoiceStands'
<1> SUFFICES ASSUME NEW x \in Quote, x \notin touched', request'[x] # NoRequest,
                    Beyond(level'[request'[x]])
             PROVE  Stands(x)'
  BY DEF ExpertChoiceStands, Stands, Beyond
<1> DEFINE r == request[t.quote]
           changed == IF t.completes THEN t.missed \cap ({t.quote} \cup QuotesOf(r))
                      ELSE {t.quote}
<1>1. /\ WriteStatus(Goal(t), Written(t), t.saw) /\ request' = request
      /\ IsMove(Goal(t)) /\ Written(t) \in PriceTable
      /\ price' = Written(t)
      /\ \A y \in Quote : y # t.quote => Written(t)[y] = price[y]
      /\ t.completes => r \in Request
  BY SaveCompletes, SaveFacts DEF IsSave
<1>2. Touch(Goal(t), changed)
  BY DEF IsSave, Save, Goal
<1>3. x \notin changed /\ request[x] \in Request
  BY <1>1, <1>2 DEF Touch, TypeOK
<1>4. CASE request[x] \in DOMAIN Goal(t)
  <2>1. t.completes /\ request[x] = r /\ Goal(t)[request[x]] = SUPPLIER + 1
    BY <1>4 DEF Goal, To, Nowhere
  <2>2. level'[request[x]] = SUPPLIER + 1
    BY <1>1, <1>3, <1>4, <2>1 DEF WriteStatus
  <2>3. SUPPLIER + 1 = EXPERT
    BY <1>1, <2>2, BeyondFacts
  <2>4. x \in QuotesOf(r) \ t.missed
    BY <1>3, <2>1 DEF QuotesOf
  <2>5. t.saw[x] = Written(t)[x]
    BY <2>1, <2>4 DEF IsSave, Judges
  <2> HIDE DEF changed
  <2> QED BY <1>1, <1>2, <1>4, <2>1, <2>3, <2>5, ChoiceOfWrite
<1>5. CASE request[x] \notin DOMAIN Goal(t)
  <2>1. x # t.quote
    BY <1>3, <1>5 DEF Goal, To
  <2> HIDE DEF changed
  <2> QED BY <1>1, <1>2, <1>5, <2>1, ChoiceOfWrite
<1> QED BY <1>4, <1>5

LEMMA ChoiceOfCron ==
    ASSUME TypeOK, ExpertChoiceStands, DailyCron
    PROVE  ExpertChoiceStands'
<1>1. request' = request /\ price' = price
  BY CronFacts DEF DailyCron
<1>2. CASE UNCHANGED <<level, chosen, touched, open>>
  BY <1>1, <1>2 DEF ExpertChoiceStands, Beyond
<1>3. CASE WriteStatus(Proposed, price, price) /\ Touch(Proposed, {})
  <2> SUFFICES ASSUME NEW x \in Quote, x \notin touched', request'[x] # NoRequest,
                      Beyond(level'[request'[x]])
               PROVE  Stands(x)'
    BY DEF ExpertChoiceStands, Stands, Beyond
  <2>1. IsMove(Proposed) /\ price \in PriceTable /\ request[x] \in Request
    BY <1>1, CronFacts DEF TypeOK
  <2>2. request[x] \in DOMAIN Proposed => Proposed[request[x]] = EXPERT
    BY <1>1, <1>3, <2>1, BeyondFacts DEF WriteStatus, Proposed
  <2> QED BY <1>1, <1>3, <2>1, <2>2, ChoiceOfWrite
<1> QED BY <1>2, <1>3, CronFacts

LEMMA ChoiceOfChangeRequest ==
    ASSUME TypeOK, ExpertChoiceStands, NEW q \in Quote, NEW r \in Request,
           AddQuote(q, r) \/ RemoveQuote(q, r)
    PROVE  ExpertChoiceStands'
<1> SUFFICES ASSUME NEW x \in Quote, x \notin touched', request'[x] # NoRequest,
                    Beyond(level'[request'[x]])
             PROVE  Stands(x)'
  BY DEF ExpertChoiceStands, Stands, Beyond
<1>1. PICK new \in {r, NoRequest} : ChangeRequest(q, r, new)
  BY DEF AddQuote, RemoveQuote
<1>2. /\ request' = [request EXCEPT ![q] = new]
      /\ level' = level /\ price' = price /\ chosen' = chosen
      /\ Touch(Nowhere, {}) /\ ~SentToSuppliers(r)
  BY <1>1 DEF ChangeRequest
<1>3. x # q
  <2>1. SUFFICES ASSUME x = q PROVE FALSE
    OBVIOUS
  <2>2. request'[x] = r
    BY <1>2, <2>1 DEF TypeOK
  <2>3. level[r] \in Level /\ ~(level[r] > SUPPLIER)
    BY <1>2 DEF SentToSuppliers, TypeOK
  <2>4. level[r] < EXPERT
    BY <2>3, LevelsAssumption DEF Level
  <2> QED BY <1>2, <2>2, <2>3, <2>4, BeyondFacts
<1>4. request'[x] = request[x]
  BY <1>2, <1>3 DEF TypeOK
<1>5. x \notin touched
  BY <1>2 DEF Touch, Enters, Nowhere
<1>6. Stands(x)
  BY <1>2, <1>4, <1>5 DEF ExpertChoiceStands, Stands
<1> QED BY <1>2, <1>6 DEF Stands

LEMMA ChoiceOfChoose ==
    ASSUME TypeOK, ExpertChoiceStands, NEW q \in Quote, NEW s, Choose(q, s)
    PROVE  ExpertChoiceStands'
<1> SUFFICES ASSUME NEW x \in Quote, x \notin touched', request'[x] # NoRequest,
                    Beyond(level'[request'[x]])
             PROVE  Stands(x)'
  BY DEF ExpertChoiceStands, Stands, Beyond
<1>1. /\ chosen' = [chosen EXCEPT ![q] = s]
      /\ level' = level /\ price' = price /\ request' = request
      /\ Touch(Nowhere, {q})
  BY DEF Choose
<1>2. x # q /\ x \notin touched
  BY <1>1 DEF Touch, Enters, Nowhere
<1>3. Stands(x) /\ chosen'[x] = chosen[x]
  BY <1>1, <1>2 DEF ExpertChoiceStands, Stands, TypeOK
<1> QED BY <1>1, <1>3 DEF Stands

LEMMA ChoiceStep == IInv /\ ExpertChoiceStands /\ [Next]_vars => ExpertChoiceStands'
<1> SUFFICES ASSUME TypeOK, OpenJudges, ExpertChoiceStands, [Next]_vars
             PROVE  ExpertChoiceStands'
  BY DEF IInv
<1>1. ASSUME UNCHANGED <<level, request, price, chosen, touched>>
      PROVE  ExpertChoiceStands'
  BY <1>1 DEF ExpertChoiceStands, Beyond
<1>2. ASSUME NEW r \in Request, RequestAction(r) PROVE ExpertChoiceStands'
  <2>1. ASSUME NEW v \in Status, Move(r, v) PROVE ExpertChoiceStands'
    <3> DEFINE changed == IF level[r] = NoStatus THEN QuotesOf(r) ELSE {}
    <3>1. Goes(r, v, changed) /\ ValidMove(r, v)
      BY <2>1 DEF Move
    <3>2. Beyond(v) /\ v # EXPERT => Beyond(level[r]) \/ QuotesOf(r) \subseteq changed
      BY <3>1, MoveFromBeyond
    <3> HIDE DEF changed
    <3> QED BY <3>1, <3>2, ChoiceOfGoes
  <2>2. CASE Restart(r)
    BY <2>2, BeyondFacts, LevelFacts, ChoiceOfGoes DEF Restart
  <2>3. CASE Decide(r)
    BY <2>3, LevelFacts, ChoiceOfGoes DEF Decide
  <2>4. CASE \E d \in 1..MaxDay \cup {NoDate} : SetDeadline(r, d)
    BY <1>1, <2>4 DEF SetDeadline, quoteVars
  <2>5. CASE \E q \in Quote : AddQuote(q, r) \/ RemoveQuote(q, r)
    BY <2>5, ChoiceOfChangeRequest
  <2>6. CASE StartReminder(r) \/ EndReminder(r)
    BY <1>1, <2>6 DEF StartReminder, EndReminder, ghosts, quoteVars
  <2> QED BY <1>2, <2>1, <2>2, <2>3, <2>4, <2>5, <2>6 DEF RequestAction
<1>3. ASSUME NEW q \in Quote, NEW s \in Supplier, SupplierQuoteAction(q, s)
      PROVE  ExpertChoiceStands'
  <2>1. ASSUME NEW x, Begin(q, s, x) PROVE ExpertChoiceStands'
    BY <1>1, <2>1 DEF Begin, quoteVars, ghosts
  <2> QED BY <1>3, <2>1, QuoteActions, ChoiceOfChoose, ChoiceOfSave
<1>4. ASSUME NEW t \in open, Commit(t) \/ Rollback(t) PROVE ExpertChoiceStands'
  <2>1. CASE Rollback(t)
    BY <1>1, <2>1 DEF Rollback, quoteVars, ghosts
  <2> QED BY <1>4, <2>1, OpenActions, ChoiceOfSave
<1>5. CASE NextDay \/ UNCHANGED vars
  BY <1>1, <1>5 DEF NextDay, quoteVars, vars
<1> QED BY <1>2, <1>3, <1>4, <1>5, ChoiceOfCron DEF Next

(* Beyond the expert's level every quote has the cheapest supplier that    *)
(* answered, unless it was changed while the choice was made or since.     *)
THEOREM ChoiceTheorem == Spec => []ExpertChoiceStands
<1>1. Init => ExpertChoiceStands
  BY DEF Init, ExpertChoiceStands
<1>2. Init => IInv
  BY InitTypes DEF IInv
<1> QED BY <1>1, <1>2, InductiveStep, ChoiceStep, PTL DEF Spec

-----------------------------------------------------------------------------
(* What prices do to the level.                                            *)

PricesStep ==
    \A q \in Quote, r \in Request :
         /\ price'[q] # price[q]
         /\ level'[r] \notin {level[r], SUPPLIER}
         => /\ request[q] = r
            /\ level[r] = SUPPLIER
            /\ level'[r] = SUPPLIER + 1
            /\ \/ AllPriced(r, price')
               \/ \E t \in open \ open' : t.quote = q /\ t.missed # {}
                                             /\ AllPriced(r, t.saw)

LEMMA PricesOfGoes ==
    ASSUME TypeOK, NEW x \in Request, NEW v, NEW changed, Goes(x, v, changed)
    PROVE  PricesStep
<1> SUFFICES ASSUME NEW q \in Quote, NEW r \in Request,
                    price'[q] # price[q],
                    level'[r] \notin {level[r], SUPPLIER}
             PROVE  FALSE
  BY DEF PricesStep
<1>1. WriteStatus(To(x, v), price, price)
  BY DEF Goes
<1>2. Enters(q, To(x, v), SUPPLIER)
  BY <1>1 DEF WriteStatus
<1>3. r = x /\ level'[r] = v
  BY <1>1 DEF WriteStatus, To
<1> QED BY <1>2, <1>3 DEF Enters, To

LEMMA PricesOfSave ==
    ASSUME TypeOK, NEW t, NEW T, IsSave(t, T), t.missed # {} => t \in open \ open'
    PROVE  PricesStep
<1> SUFFICES ASSUME NEW q \in Quote, NEW r \in Request,
                    price'[q] # price[q],
                    level'[r] \notin {level[r], SUPPLIER}
             PROVE  /\ request[q] = r
                    /\ level[r] = SUPPLIER
                    /\ level'[r] = SUPPLIER + 1
                    /\ \/ AllPriced(r, price')
                       \/ t \in open \ open' /\ t.quote = q /\ t.missed # {}
                                              /\ AllPriced(r, t.saw)
  BY DEF PricesStep
<1>1. /\ WriteStatus(Goal(t), Written(t), t.saw)
      /\ price' = Written(t)
      /\ \A y \in Quote : y # t.quote => price'[y] = price[y]
  BY SaveCompletes, SaveFacts DEF IsSave
<1>2. q = t.quote
  BY <1>1
<1>3. t.completes /\ r = request[t.quote] /\ level'[r] = SUPPLIER + 1
  BY <1>1 DEF WriteStatus, Goal, To, Nowhere
<1>4. /\ level[r] = SUPPLIER /\ AllPriced(r, t.saw)
      /\ \A y \in QuotesOf(r) \ t.missed : t.saw[y] = Written(t)[y]
  BY <1>3 DEF IsSave, Judges
<1>5. t.missed = {} => AllPriced(r, price')
  BY <1>1, <1>4 DEF AllPriced
<1> QED BY <1>2, <1>3, <1>4, <1>5

(* What was committed is open no more: no other writes its row.            *)
LEMMA CommitEnds ==
    ASSUME TypeOK, NEW t \in open, Commit(t)
    PROVE  t \notin open'
<1> SUFFICES ASSUME t \in open' PROVE FALSE
  OBVIOUS
<1>1. PICK u \in open \ {t} : t = [u EXCEPT !.missed = @ \cup Disturbed]
  BY DEF Commit, Save, GoOn
<1>2. u \in Transaction
  BY DEF TypeOK, OpenOK
<1>3. t.quote = u.quote /\ t.supplier = u.supplier
  BY <1>1, <1>2 DEF Transaction
<1> QED BY <1>3 DEF TypeOK, OpenOK

LEMMA PricesStepHolds == IInv /\ [Next]_vars => PricesStep
<1> SUFFICES ASSUME TypeOK, OpenJudges, [Next]_vars PROVE PricesStep
  BY DEF IInv
<1>1. ASSUME price' = price PROVE PricesStep
  BY <1>1 DEF PricesStep
<1>2. ASSUME NEW r \in Request, RequestAction(r) PROVE PricesStep
  <2>1. CASE (\E v \in Status : Move(r, v)) \/ Restart(r) \/ Decide(r)
    BY <2>1, PricesOfGoes DEF Move, Restart, Decide
  <2>2. CASE \/ \E d \in 1..MaxDay \cup {NoDate} : SetDeadline(r, d)
             \/ \E q \in Quote : AddQuote(q, r) \/ RemoveQuote(q, r)
             \/ StartReminder(r) \/ EndReminder(r)
    BY <1>1, <2>2 DEF SetDeadline, AddQuote, RemoveQuote, ChangeRequest,
                      StartReminder, EndReminder, quoteVars
  <2> QED BY <1>2, <2>1, <2>2 DEF RequestAction
<1>3. ASSUME NEW q \in Quote, NEW s \in Supplier, SupplierQuoteAction(q, s)
      PROVE  PricesStep
  <2>1. CASE Choose(q, s)
    BY <1>1, <2>1 DEF Choose
  <2>2. ASSUME NEW x, Begin(q, s, x) PROVE PricesStep
    BY <1>1, <2>2 DEF Begin, quoteVars
  <2> QED BY <1>3, <2>1, <2>2, QuoteActions, PricesOfSave
<1>4. ASSUME NEW t \in open, Commit(t) \/ Rollback(t) PROVE PricesStep
  <2>1. CASE Rollback(t)
    BY <1>1, <2>1 DEF Rollback, quoteVars
  <2>2. CASE Commit(t)
    <3>1. IsSave(t, open \ {t})
      BY <2>2 DEF Commit, IsSave, IsTxn, TypeOK, OpenOK, OpenJudges
    <3> QED BY <2>2, <3>1, CommitEnds, PricesOfSave
  <2> QED BY <1>4, <2>1, <2>2
<1>5. CASE DailyCron \/ NextDay \/ UNCHANGED vars
  BY <1>1, <1>5, CronFacts DEF NextDay, quoteVars, vars
<1> QED BY <1>2, <1>3, <1>4, <1>5 DEF Next

(* A price moves no request but that of its quote, and that one only when  *)
(* no supplier that was asked still owes a price: by the prices that there *)
(* are, or else by those that a transaction saw which missed a commit.     *)
THEOREM PricesTheorem == Spec => PricesOnlyComplete
<1>1. Init => IInv
  BY InitTypes DEF IInv
<1>2. IInv /\ [Next]_vars => [PricesStep]_vars
  BY PricesStepHolds
<1> QED BY <1>1, <1>2, InductiveStep, PTL DEF Spec, PricesOnlyComplete, PricesStep
=============================================================================
