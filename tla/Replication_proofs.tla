------------------------- MODULE Replication_proofs -------------------------
(***************************************************************************)
(* Proofs about Replication: its type invariant, that ids never clash, and *)
(* that the servers agree when everything was applied, for any number of   *)
(* servers and any padding.                                                *)
(***************************************************************************)
EXTENDS Replication, TLAPS

-----------------------------------------------------------------------------
(* Sequences and tables. *)

LEMMA AppendFacts ==
    ASSUME NEW q \in Seq(Change), NEW c \in Change
    PROVE  /\ Append(q, c) \in Seq(Change)
           /\ Len(q) \in Nat
           /\ Len(Append(q, c)) = Len(q) + 1
           /\ DOMAIN q = 1 .. Len(q)
           /\ DOMAIN Append(q, c) = 1 .. Len(q) + 1
           /\ \A k \in 1 .. Len(q) : Append(q, c)[k] = q[k]
           /\ Append(q, c)[Len(q) + 1] = c
OBVIOUS

LEMMA ElementFacts ==
    ASSUME NEW q \in Seq(Change), NEW k \in DOMAIN q
    PROVE  q[k] \in Change /\ k \in Nat /\ 1 <= k /\ k <= Len(q)
OBVIOUS

LEMMA ChangeFacts ==
    ASSUME NEW c \in Change
    PROVE  /\ c.op \in {"insert", "update", "delete"} => c.id \in Id /\ c.row \in Row
           /\ c.op \in {"insert", "update", "delete", "relate", "separate"}
           /\ c.op \in {"relate", "separate"} => c.id \in Pair /\ c.id \notin Id
BY PaddingAssumption DEF Change, Id

LEMMA ChangeTypes ==
    ASSUME NEW i \in Id, NEW r \in Row
    PROVE  /\ Insert(i, r) \in Change /\ Insert(i, r).op = "insert" /\ Insert(i, r).id = i
           /\ Update(i, r) \in Change /\ Update(i, r).op = "update" /\ Update(i, r).id = i
           /\ Delete(i, r) \in Change /\ Delete(i, r).op = "delete" /\ Delete(i, r).id = i
BY DEF Change, Insert, Update, Delete

LEMMA RelationTypes ==
    ASSUME NEW p \in Pair, NEW op \in {"relate", "separate"}
    PROVE  Relation(op, p) \in Change /\ Relation(op, p).op = op /\ Relation(op, p).id = p
BY DEF Change, Relation

IsTable(f) == f = [i \in DOMAIN f |-> f[i]] /\ \A i \in DOMAIN f : i \in Id /\ f[i] \in Row

LEMMA TypeTable ==
    ASSUME TypeOK PROVE table = [s \in Server |-> table[s]] /\ \A s \in Server : IsTable(table[s])
BY DEF TypeOK, IsTable

LEMMA TableType ==
    ASSUME NEW f, f = [s \in Server |-> f[s]], \A s \in Server : IsTable(f[s])
    PROVE  /\ f = [s \in Server |-> [i \in DOMAIN f[s] |-> f[s][i]]]
           /\ \A s \in Server : \A i \in DOMAIN f[s] : i \in Id /\ f[s][i] \in Row
BY DEF IsTable

LEMMA AddRow ==
    ASSUME NEW f, IsTable(f), NEW i \in Id, NEW r \in Row
    PROVE  IsTable([j \in DOMAIN f \union {i} |-> IF j = i THEN r ELSE f[j]])
BY DEF IsTable

LEMMA DropRow ==
    ASSUME NEW f, IsTable(f), NEW i
    PROVE  IsTable(Without(f, i)) /\ DOMAIN Without(f, i) = DOMAIN f \ {i}
BY DEF IsTable, Without

LEMMA PutRow ==
    ASSUME NEW f, IsTable(f), NEW i \in DOMAIN f, NEW r \in Row
    PROVE  IsTable([f EXCEPT ![i] = r]) /\ DOMAIN [f EXCEPT ![i] = r] = DOMAIN f
BY DEF IsTable

\* A change of one row of one table leaves the ids of every table as they were
LEMMA SameIds ==
    ASSUME NEW f, f = [u \in Server |-> f[u]], NEW s \in Server, NEW i, NEW r,
           NEW g, g = [f EXCEPT ![s] = [f[s] EXCEPT ![i] = r]]
    PROVE  \A u \in Server : DOMAIN g[u] = DOMAIN f[u]
<1>1. \A u \in Server : g[u] = IF u = s THEN [f[s] EXCEPT ![i] = r] ELSE f[u]
  OBVIOUS
<1>2. DOMAIN [f[s] EXCEPT ![i] = r] = DOMAIN f[s]
  OBVIOUS
<1> QED
  BY <1>1, <1>2

LEMMA FewerIds ==
    ASSUME NEW f, f = [u \in Server |-> f[u]], NEW s \in Server, NEW i,
           NEW g, g = [f EXCEPT ![s] = Without(f[s], i)]
    PROVE  \A u \in Server : DOMAIN g[u] \subseteq DOMAIN f[u]
<1>1. \A u \in Server : g[u] = IF u = s THEN Without(f[s], i) ELSE f[u]
  OBVIOUS
<1>2. DOMAIN Without(f[s], i) = DOMAIN f[s] \ {i}
  BY DEF Without
<1> QED
  BY <1>1, <1>2

LEMMA ResolveType ==
    ASSUME NEW old \in Row, NEW new \in Row PROVE Resolve(old, new) \in Row
BY DEF Resolve

-----------------------------------------------------------------------------
(* The types. *)

LEMMA NumbersType ==
    ASSUME NEW s \in Server PROVE First(s) \in Nat /\ Last(s) \in Int
BY NumberAssumption, PaddingAssumption DEF First, Last

\* What a user writes is a row, whether the write is dated or not
LEMMA WrittenType ==
    ASSUME TypeOK, NEW s \in Server, NEW d \in Moments[s], NEW i \in DOMAIN table[s],
           NEW date \in {d, table[s][i].date}
    PROVE  /\ i \in Id /\ d \in Nat /\ table[s][i] \in Row
           /\ [by |-> s, at |-> d, date |-> date] \in Row
<1>1. i \in Id /\ table[s][i] \in Row
  BY DEF TypeOK
<1>2. d \in Nat /\ d \in Date /\ table[s][i].date \in Date
  BY <1>1, PaddingAssumption DEF Row, Date
<1>3. date \in Date
  BY <1>2
<1> QED
  BY <1>1, <1>2, <1>3 DEF Row

LEMMA TypeStep ==
    ASSUME TypeOK, [Next]_vars PROVE TypeOK'
<1> USE PaddingAssumption, NumberAssumption
<1>0. table = [s \in Server |-> table[s]] /\ \A s \in Server : IsTable(table[s])
  BY TypeTable
<1> DEFINE TableOK == table' = [s \in Server |-> table'[s]] /\ \A s \in Server : IsTable(table'[s])
           PosOK == \A s, t \in Server : pos'[s][t] <= Len(log'[s])
<1>a. ASSUME TableOK, pairs' \in [Server -> SUBSET Pair], log' \in [Server -> Seq(Change)], pos' \in [Server -> [Server -> Nat]], PosOK,
             seq' \in [Server -> Nat], backup' \in [Server -> Nat], clock' \in [Server -> Nat],
             ready' \subseteq Server, strayed' \in BOOLEAN, overtaken' \subseteq Server \X Id
      PROVE  TypeOK'
  <2>1. /\ table' = [s \in Server |-> [i \in DOMAIN table'[s] |-> table'[s][i]]]
        /\ \A s \in Server : \A i \in DOMAIN table'[s] : i \in Id /\ table'[s][i] \in Row
    BY <1>a, TableType
  <2> QED
    BY <1>a, <2>1 DEF TypeOK
<1>b. ASSUME NEW s \in Server, NEW c \in Change, Publish(s, c), UNCHANGED pos
      PROVE  log' \in [Server -> Seq(Change)] /\ PosOK
  <2>1. log[s] \in Seq(Change) /\ log' = [log EXCEPT ![s] = Append(log[s], c)]
    BY <1>b DEF Publish, TypeOK
  <2>2. Append(log[s], c) \in Seq(Change) /\ Len(Append(log[s], c)) = Len(log[s]) + 1 /\ Len(log[s]) \in Nat
    BY <2>1, AppendFacts
  <2>3. log' \in [Server -> Seq(Change)]
    BY <2>1, <2>2 DEF TypeOK
  <2>4. ASSUME NEW u \in Server, NEW t \in Server PROVE pos'[u][t] <= Len(log'[u])
    <3>1. CASE u = s
      BY <1>b, <2>1, <2>2, <3>1 DEF TypeOK
    <3>2. CASE u # s
      BY <1>b, <2>1, <3>2 DEF TypeOK
    <3> QED
      BY <3>1, <3>2
  <2> QED
    BY <2>3, <2>4
<1>c. ASSUME NEW s \in Server, NEW t \in Server, Pending(s, t), Applied(s, t), UNCHANGED log
      PROVE  pos' \in [Server -> [Server -> Nat]] /\ PosOK
  <2>1. pos' = [pos EXCEPT ![s] = [pos[s] EXCEPT ![t] = pos[s][t] + 1]]
    BY <1>c DEF Applied
  <2>2. pos' \in [Server -> [Server -> Nat]]
    BY <2>1 DEF TypeOK
  <2>3. ASSUME NEW u \in Server, NEW v \in Server PROVE pos'[u][v] <= Len(log'[u])
    <3>1. Len(log[s]) \in Nat /\ pos[s][t] \in Nat /\ pos[s][t] < Len(log[s])
      BY <1>c DEF Pending, TypeOK
    <3>2. CASE u = s /\ v = t
      BY <1>c, <2>1, <3>1, <3>2 DEF TypeOK
    <3>3. CASE ~ (u = s /\ v = t)
      <4>1. pos'[u][v] = pos[u][v]
        BY <2>1, <3>3 DEF TypeOK
      <4> QED
        BY <1>c, <4>1 DEF TypeOK
    <3> QED
      BY <3>2, <3>3
  <2> QED
    BY <2>2, <2>3
<1>d. ASSUME NEW s \in Server, NEW t \in Server, Pending(s, t)
      PROVE  NextOf(s, t) \in Change
  BY <1>d, ElementFacts DEF Pending, NextOf, TypeOK
<1>e. ASSUME UNCHANGED <<table, log, pos>>, UNCHANGED pairs
      PROVE  TableOK /\ pairs' \in [Server -> SUBSET Pair] /\ log' \in [Server -> Seq(Change)] /\ pos' \in [Server -> [Server -> Nat]] /\ PosOK
  BY <1>0, <1>e DEF TypeOK
<1>f. (UNCHANGED pairs) => pairs' \in [Server -> SUBSET Pair]
  BY DEF TypeOK
<1>1. CASE UNCHANGED vars
  BY <1>1 DEF vars, TypeOK
<1>2. ASSUME NEW s \in Server, Migrate(s) PROVE TypeOK'
  <2>1. Migrated(s) \in Nat /\ seq[s] \in Nat
    BY NumbersType DEF Migrated, TypeOK
  <2>2. UNCHANGED <<table, log, pos>> /\ UNCHANGED pairs /\ UNCHANGED <<clock, strayed, overtaken>>
    BY <1>2 DEF Migrate
  <2>a. seq \in [Server -> Nat] /\ backup \in [Server -> Nat] /\ ready \subseteq Server
    BY DEF TypeOK
  <2>b. /\ backup' = [backup EXCEPT ![s] = seq[s]]
        /\ seq' = [seq EXCEPT ![s] = Migrated(s)] \/ seq' = seq
        /\ ready' = ready \union {s} \/ ready' = ready
    BY <1>2 DEF Migrate
  <2>3. backup' \in [Server -> Nat] /\ seq' \in [Server -> Nat] /\ ready' \subseteq Server
    BY <2>1, <2>a, <2>b
  <2> QED
    BY <1>a, <1>e, <2>2, <2>3 DEF TypeOK
<1>3. ASSUME NEW s \in Server, Restore(s) PROVE TypeOK'
  <2>1. /\ UNCHANGED <<table, log, pos>> /\ UNCHANGED pairs /\ UNCHANGED <<backup, clock, overtaken>>
        /\ ready' \subseteq ready
    BY <1>3 DEF Restore
  <2>2. seq' \in [Server -> Nat]
    BY <1>3 DEF Restore, TypeOK
  <2>3. strayed' \in BOOLEAN
    BY <1>3 DEF Restore, TypeOK
  <2>4. /\ backup' \in [Server -> Nat] /\ clock' \in [Server -> Nat]
        /\ ready' \subseteq Server /\ overtaken' \subseteq Server \X Id
    BY <2>1 DEF TypeOK
  <2> QED
    BY <1>a, <1>e, <2>1, <2>2, <2>3, <2>4
<1>4. ASSUME NEW s \in Server, NEW d \in Moments[s], Create(s, d) PROVE TypeOK'
  <2> DEFINE i == seq[s] + 1
             r == [by |-> s, at |-> d, date |-> d]
  <2>1. i \in Id /\ d \in Nat /\ r \in Row
    BY DEF TypeOK, Id, Date, Row
  <2>2. /\ clock' \in [Server -> Nat] /\ seq' \in [Server -> Nat] /\ strayed' \in BOOLEAN
        /\ UNCHANGED <<pos, backup, ready, overtaken>> /\ UNCHANGED pairs
    BY <1>4, <2>1 DEF Create, At, TypeOK, Id
  <2>a. /\ pairs' \in [Server -> SUBSET Pair]
        /\ pos' \in [Server -> [Server -> Nat]] /\ backup' \in [Server -> Nat]
        /\ ready' \subseteq Server /\ overtaken' \subseteq Server \X Id
    BY <1>f, <2>2 DEF TypeOK
  <2>3. CASE Has(s, i)
    <3>1. UNCHANGED <<table, log, pos>>
      BY <1>4, <2>2, <2>3 DEF Create
    <3> QED
      BY <1>a, <1>e, <2>2, <2>a, <3>1
  <2>4. CASE ~ Has(s, i)
    <3>1. Insert(i, r) \in Change
      BY <2>1, ChangeTypes
    <3>2. Publish(s, Insert(i, r))
      BY <1>4, <2>4 DEF Create
    <3>3. table' = [table EXCEPT ![s] = [j \in DOMAIN table[s] \union {i} |-> IF j = i THEN r ELSE table[s][j]]]
      BY <1>4, <2>4 DEF Create
    <3>4. IsTable([j \in DOMAIN table[s] \union {i} |-> IF j = i THEN r ELSE table[s][j]])
      BY SMTT(30), <1>0, <2>1, AddRow
    <3>5. TableOK
      BY <1>0, <3>3, <3>4
    <3>6. log' \in [Server -> Seq(Change)] /\ PosOK
      BY <1>b, <2>2, <3>1, <3>2
    <3> QED
      BY <1>a, <2>2, <2>a, <3>5, <3>6
  <2> QED
    BY <2>3, <2>4
<1>5. ASSUME NEW s \in Server, NEW d \in Moments[s], NEW i \in DOMAIN table[s],
             NEW date \in {d, table[s][i].date}, Write(s, i, d, date)
      PROVE  TypeOK'
  <2> DEFINE r == Resolve(table[s][i], [by |-> s, at |-> d, date |-> date])
  <2>1. i \in Id /\ d \in Nat /\ [by |-> s, at |-> d, date |-> date] \in Row /\ table[s][i] \in Row
    BY WrittenType
  <2>2. r \in Row
    BY <2>1, ResolveType
  <2>3. clock' \in [Server -> Nat] /\ UNCHANGED <<pos, seq, backup, ready, strayed, overtaken>>
        /\ UNCHANGED pairs
    BY <1>5, <2>1 DEF Write, At, TypeOK
  <2>4. Update(i, r) \in Change /\ Publish(s, Update(i, r))
    BY <1>5, <2>1, <2>2, ChangeTypes DEF Write
  <2>5. table' = [table EXCEPT ![s] = [table[s] EXCEPT ![i] = r]]
    BY <1>5 DEF Write
  <2>6. TableOK
    BY <1>0, <2>2, <2>5, PutRow
  <2>7. log' \in [Server -> Seq(Change)] /\ PosOK
    BY <1>b, <2>3, <2>4
  <2> QED
    BY <1>a, <1>f, <2>3, <2>6, <2>7 DEF TypeOK
<1>6. ASSUME NEW s \in Server, NEW d \in Moments[s], NEW i \in DOMAIN table[s], Unlink(s, i, d) PROVE TypeOK'
  <2>1. i \in Id /\ d \in Nat /\ table[s][i] \in Row
    BY DEF TypeOK
  <2>2. clock' \in [Server -> Nat] /\ UNCHANGED <<pos, seq, backup, ready, strayed, overtaken>>
        /\ UNCHANGED pairs
    BY <1>6, <2>1 DEF Unlink, At, TypeOK
  <2>3. Delete(i, table[s][i]) \in Change /\ Publish(s, Delete(i, table[s][i]))
    BY <1>6, <2>1, ChangeTypes DEF Unlink
  <2>4. TableOK
    <3>1. table' = [table EXCEPT ![s] = Without(table[s], i)]
      BY <1>6 DEF Unlink
    <3> QED
      BY <1>0, <3>1, DropRow
  <2>5. log' \in [Server -> Seq(Change)] /\ PosOK
    BY <1>b, <2>2, <2>3
  <2> QED
    BY <1>a, <1>f, <2>2, <2>4, <2>5 DEF TypeOK
<1>8. ASSUME NEW s \in Server, NEW d \in Moments[s], NEW p \in Pair,
             Relate(s, p, d) \/ Separate(s, p, d)
      PROVE  TypeOK'
  <2>0. d \in Nat
    OBVIOUS
  <2>a. /\ clock' = [clock EXCEPT ![s] = d]
        /\ pairs' = [pairs EXCEPT ![s] = pairs[s] \union {p}] \/ pairs' = [pairs EXCEPT ![s] = pairs[s] \ {p}]
        /\ UNCHANGED <<table, pos, seq, backup, ready, strayed, overtaken>>
    BY <1>8 DEF Relate, Separate, At
  <2>b. clock \in [Server -> Nat] /\ pairs \in [Server -> SUBSET Pair]
    BY DEF TypeOK
  <2>1. clock' \in [Server -> Nat] /\ UNCHANGED <<table, pos, seq, backup, ready, strayed, overtaken>>
    BY <2>0, <2>a, <2>b
  <2>2. pairs' \in [Server -> SUBSET Pair]
    BY <2>a, <2>b
  <2>3. PICK c \in Change : Publish(s, c)
    BY <1>8, RelationTypes DEF Relate, Separate
  <2>4. log' \in [Server -> Seq(Change)] /\ PosOK
    BY <1>b, <2>1, <2>3
  <2>5. TableOK
    BY <1>0, <2>1
  <2> QED
    BY <1>a, <2>1, <2>2, <2>4, <2>5 DEF TypeOK
<1>7. ASSUME NEW s \in Server, NEW t \in Server, Apply(s, t) PROVE TypeOK'
  <2> DEFINE c == NextOf(s, t)
  <2>1. Pending(s, t) /\ Applied(s, t) /\ UNCHANGED <<log, seq, backup, clock, ready, strayed>>
    BY <1>7 DEF Apply, ApplyInsert, ApplyToRow, SkipMissing, ApplyRelation
  <2>2. c \in Change /\ (c.op \in {"insert", "update", "delete"} => c.id \in Id /\ c.row \in Row)
    BY <1>d, <2>1, ChangeFacts
  <2>3. pos' \in [Server -> [Server -> Nat]] /\ PosOK
    BY <1>c, <2>1
  <2>4. CASE ApplyInsert(s, t)
    <3>1. table' = [table EXCEPT ![t] = [j \in DOMAIN table[t] \union {c.id} |-> IF j = c.id THEN c.row ELSE table[t][j]]]
      BY <2>4 DEF ApplyInsert
    <3>2. IsTable([j \in DOMAIN table[t] \union {c.id} |-> IF j = c.id THEN c.row ELSE table[t][j]])
      <4>1. c.id \in Id /\ c.row \in Row
        BY <2>2, <2>4 DEF ApplyInsert
      <4> QED
        BY <1>0, <4>1, AddRow
    <3>3. TableOK
      BY <1>0, <3>1, <3>2
    <3> QED
      BY <1>a, <1>f, <2>1, <2>3, <2>4, <3>3 DEF ApplyInsert, TypeOK
  <2>5. CASE ApplyToRow(s, t)
    <3>1. c.id \in DOMAIN table[t] /\ c.id \in Id /\ c.row \in Row
      BY <2>2, <2>5 DEF ApplyToRow, Has
    <3>2. CASE c.op = "delete"
      <4>1. table' = [table EXCEPT ![t] = Without(table[t], c.id)]
        BY <2>5, <3>2 DEF ApplyToRow
      <4>2. TableOK
        BY <1>0, <4>1, DropRow
      <4> QED
        BY <1>a, <1>f, <2>1, <2>3, <2>5, <4>2 DEF ApplyToRow, TypeOK
    <3>3. CASE c.op # "delete"
      <4>1. table' = [table EXCEPT ![t] = [table[t] EXCEPT ![c.id] = Resolve(table[t][c.id], c.row)]]
        BY <2>5, <3>3 DEF ApplyToRow
      <4>2. Resolve(table[t][c.id], c.row) \in Row
        BY <3>1, ResolveType DEF TypeOK
      <4>3. TableOK
        BY <1>0, <3>1, <4>1, <4>2, PutRow
      <4> QED
        BY <1>a, <1>f, <2>1, <2>3, <2>5, <4>3 DEF ApplyToRow, TypeOK
    <3> QED
      BY <3>2, <3>3
  <2>6. CASE SkipMissing(s, t)
    <3>1. UNCHANGED table /\ overtaken' \subseteq Server \X Id
      BY <2>2, <2>6 DEF SkipMissing, TypeOK
    <3>2. TableOK
      BY <1>0, <3>1
    <3> QED
      BY <1>a, <1>f, <2>1, <2>3, <2>6, <3>1, <3>2 DEF SkipMissing, TypeOK
  <2>7. CASE ApplyRelation(s, t)
    <3>1. UNCHANGED <<table, overtaken>> /\ c.id \in Pair
      BY <2>2, <2>7, ChangeFacts DEF ApplyRelation
    <3>2. TableOK /\ overtaken' \subseteq Server \X Id
      BY <1>0, <3>1 DEF TypeOK
    <3>3. pairs' \in [Server -> SUBSET Pair]
      BY <2>7, <3>1 DEF ApplyRelation, TypeOK
    <3> QED
      BY <1>a, <2>1, <2>3, <3>2, <3>3 DEF TypeOK
  <2> QED
    BY <1>7, <2>4, <2>5, <2>6, <2>7 DEF Apply
<1> QED
  BY <1>1, <1>2, <1>3, <1>4, <1>5, <1>6, <1>7, <1>8 DEF Next

LEMMA TypeInit == Init => TypeOK
<1> SUFFICES ASSUME Init PROVE TypeOK
  OBVIOUS
<1> USE PaddingAssumption, NumberAssumption
<1>1. table = [s \in Server |-> [i \in 1 .. Dump |-> Dumped]]
  BY DEF Init
<1>2. \A s \in Server : DOMAIN table[s] = 1 .. Dump
  BY <1>1
<1>3. \A s \in Server : \A i \in DOMAIN table[s] : i \in Id /\ table[s][i] \in Row
  BY <1>1, <1>2 DEF Id, Row, Date, Null, Dumped
<1>4. table = [s \in Server |-> [i \in DOMAIN table[s] |-> table[s][i]]]
  BY <1>1, <1>2
<1>5. <<>> \in Seq(Change) /\ Len(<<>>) = 0
  OBVIOUS
<1>6. log \in [Server -> Seq(Change)] /\ \A s \in Server : Len(log[s]) = 0
  BY <1>5 DEF Init
<1>7. pos \in [Server -> [Server -> Nat]] /\ \A s, t \in Server : pos[s][t] = 0
  BY DEF Init
<1>8. seq \in [Server -> Nat] /\ backup \in [Server -> Nat] /\ clock \in [Server -> Nat]
  BY DEF Init
<1>9. ready \subseteq Server /\ strayed \in BOOLEAN /\ overtaken \subseteq Server \X Id
  BY DEF Init
<1>10. \A s, t \in Server : pos[s][t] <= Len(log[s])
  BY <1>6, <1>7
<1>11. pairs \in [Server -> SUBSET Pair]
  BY DEF Init
<1> QED
  BY <1>11, <1>3, <1>4, <1>6, <1>7, <1>8, <1>9, <1>10 DEF TypeOK

\* The state keeps its types: in particular no server has applied more of a
\* log than there is.
THEOREM TypeInvariance == Spec => []TypeOK
<1>1. TypeOK /\ [Next]_vars => TypeOK'
  BY TypeStep
<1> QED
  BY <1>1, TypeInit, PTL DEF Spec

-----------------------------------------------------------------------------
(* The ranges of ids. *)

\* The ids a server gives when its sequence is in its range
Lower(s) == IF ShipNo[s] = 0 THEN Dump ELSE First(s)
Own(s) == Lower(s) + 1 .. Last(s)

LEMMA RangeFacts ==
    ASSUME NEW s \in Server
    PROVE  /\ First(s) \in Nat /\ Last(s) \in Nat /\ Lower(s) \in Nat
           /\ First(s) + Padding = Last(s) + 1
           /\ Dump <= Lower(s) /\ Lower(s) <= Last(s) /\ First(s) <= Lower(s)
           /\ ShipNo[s] # 0 => Dump < First(s) /\ Lower(s) = First(s)
<1> USE PaddingAssumption, NumberAssumption
<1> DEFINE n == ShipNo[s]
<1>1. n \in Nat
  OBVIOUS
<1>2. n * Padding \in Nat /\ (n + 1) * Padding = n * Padding + Padding
  BY <1>1
<1>3. n # 0 => n * Padding >= Padding
  <2> SUFFICES ASSUME n # 0 PROVE n * Padding >= Padding
    OBVIOUS
  <2>1. n - 1 \in Nat /\ (n - 1) * Padding \in Nat
    BY <1>1
  <2>2. n * Padding = (n - 1) * Padding + Padding
    BY <1>1
  <2> QED
    BY <2>1, <2>2
<1>4. n = 0 => n * Padding = 0
  OBVIOUS
<1> QED
  BY <1>1, <1>2, <1>3, <1>4 DEF First, Last, Lower

\* The range of a server ends before that of another begins
LEMMA RangesApart ==
    ASSUME NEW s \in Server, NEW t \in Server, ShipNo[s] < ShipNo[t]
    PROVE  Last(s) < First(t)
<1> USE PaddingAssumption, NumberAssumption
<1> DEFINE n == ShipNo[s]
           m == ShipNo[t]
           d == m - (n + 1)
<1>1. n \in Nat /\ m \in Nat /\ d \in Nat /\ m = (n + 1) + d
  OBVIOUS
<1>2. d * Padding \in Nat /\ (n + 1) * Padding \in Nat
  BY <1>1
<1>3. m * Padding = (n + 1) * Padding + d * Padding
  BY <1>1
<1> QED
  BY <1>2, <1>3 DEF First, Last

\* No id is of two servers, nor the one after the last of a server another's
LEMMA OwnApart ==
    ASSUME NEW s \in Server, NEW t \in Server, s # t, NEW i \in Lower(s) + 1 .. Last(s) + 1
    PROVE  i \notin Own(t)
<1>1. /\ First(s) \in Nat /\ Last(s) \in Nat /\ Lower(s) \in Nat /\ First(s) <= Lower(s)
      /\ First(t) \in Nat /\ Last(t) \in Nat /\ Lower(t) \in Nat /\ First(t) <= Lower(t)
  BY RangeFacts
<1>2. ShipNo[s] < ShipNo[t] \/ ShipNo[t] < ShipNo[s]
  BY NumberAssumption
<1>3. CASE ShipNo[s] < ShipNo[t]
  <2>1. Last(s) < First(t)
    BY <1>3, RangesApart
  <2> QED
    BY <1>1, <2>1 DEF Own
<1>4. CASE ShipNo[t] < ShipNo[s]
  <2>1. Last(t) < First(s)
    BY <1>4, RangesApart
  <2> QED
    BY <1>1, <2>1 DEF Own
<1> QED
  BY <1>2, <1>3, <1>4

-----------------------------------------------------------------------------
(* Where rows come from. *)

\* A sequence never leaves the ids of the dump or the range of its server, and
\* is in that range when it is ready
SequencesInRange ==
    \A s \in Server :
        /\ seq[s] \in Dump .. Last(s) /\ backup[s] \in Dump .. Last(s)
        /\ s \in ready => Lower(s) <= seq[s]

\* The rows a server created have ids of its own, each once, up to its sequence
InsertsAreOwn ==
    \A s \in Server : \A k \in DOMAIN log[s] : log[s][k].op = "insert" =>
        /\ log[s][k].id \in Own(s)
        /\ log[s][k].id <= seq[s]
        /\ \A l \in DOMAIN log[s] :
              log[s][l].op = "insert" /\ log[s][l].id = log[s][k].id => l = k

\* A row is of the dump, or its insert was made here or was applied here
RowsCameFrom ==
    \A t \in Server : \A i \in DOMAIN table[t] :
        \/ i <= Dump
        \/ \E s \in Server : \E k \in DOMAIN log[s] :
              /\ log[s][k].op = "insert" /\ log[s][k].id = i
              /\ s = t \/ k <= pos[s][t]

Origins == SequencesInRange /\ (~ strayed => InsertsAreOwn /\ RowsCameFrom)

LEMMA OriginsGiveClash ==
    ASSUME TypeOK, Origins PROVE InsertsNeverClash
<1> SUFFICES ASSUME ~ strayed
             PROVE  /\ \A s \in ready : ~ Has(s, seq[s] + 1)
                    /\ \A s, t \in Server : \A k \in DOMAIN log[s] :
                          s # t /\ k > pos[s][t] /\ log[s][k].op = "insert"
                          => ~ Has(t, log[s][k].id)
  BY DEF InsertsNeverClash
<1>0. InsertsAreOwn /\ RowsCameFrom /\ SequencesInRange
  BY DEF Origins
<1>1. ASSUME NEW s \in ready, Has(s, seq[s] + 1) PROVE FALSE
  <2> DEFINE i == seq[s] + 1
  <2>1. s \in Server /\ seq[s] \in Nat /\ Lower(s) <= seq[s] /\ seq[s] <= Last(s)
    BY <1>0 DEF TypeOK, SequencesInRange
  <2>2. Lower(s) \in Nat /\ Last(s) \in Nat /\ Dump <= Lower(s)
    BY <2>1, RangeFacts
  <2>3. i \in Lower(s) + 1 .. Last(s) + 1 /\ ~ (i <= Dump)
    BY <2>1, <2>2, PaddingAssumption
  <2>4. PICK u \in Server : \E k \in DOMAIN log[u] : log[u][k].op = "insert" /\ log[u][k].id = i
    BY <1>0, <1>1, <2>1, <2>3 DEF RowsCameFrom, Has
  <2>5. i \in Own(u) /\ i <= seq[u]
    BY <1>0, <2>4 DEF InsertsAreOwn
  <2>6. u # s
    BY <2>1, <2>5
  <2> QED
    BY <2>1, <2>3, <2>5, <2>6, OwnApart
<1>2. ASSUME NEW s \in Server, NEW t \in Server, NEW k \in DOMAIN log[s],
             s # t, k > pos[s][t], log[s][k].op = "insert", Has(t, log[s][k].id)
      PROVE  FALSE
  <2> DEFINE i == log[s][k].id
  <2>1. i \in Own(s)
    BY <1>0, <1>2 DEF InsertsAreOwn
  <2>2. Lower(s) \in Nat /\ Last(s) \in Nat /\ Dump <= Lower(s)
    BY RangeFacts
  <2>3. i \in Lower(s) + 1 .. Last(s) + 1 /\ ~ (i <= Dump)
    BY <2>1, <2>2, PaddingAssumption DEF Own
  <2>4. PICK u \in Server : \E l \in DOMAIN log[u] :
            log[u][l].op = "insert" /\ log[u][l].id = i /\ (u = t \/ l <= pos[u][t])
    BY <1>0, <1>2, <2>3 DEF RowsCameFrom, Has
  <2>5. i \in Own(u)
    BY <1>0, <2>4 DEF InsertsAreOwn
  <2>6. u = s
    BY <2>3, <2>5, OwnApart
  <2>7. k <= pos[s][t]
    BY <1>0, <1>2, <2>4, <2>6 DEF InsertsAreOwn
  <2>8. k \in Nat /\ pos[s][t] \in Nat
    BY ElementFacts DEF TypeOK
  <2> QED
    BY <1>2, <2>7, <2>8
<1> QED
  BY <1>1, <1>2

-----------------------------------------------------------------------------
(* The steps. *)

Extends ==
    \A u \in Server : \A k \in DOMAIN log[u] :
        k \in DOMAIN log'[u] /\ log'[u][k] = log[u][k]
PosGrows == \A u, v \in Server : pos[u][v] <= pos'[u][v]

LEMMA PublishFacts ==
    ASSUME TypeOK, NEW s \in Server, NEW c \in Change, Publish(s, c)
    PROVE  /\ Extends
           /\ \A u \in Server : u # s => log'[u] = log[u]
           /\ Len(log[s]) + 1 \in DOMAIN log'[s] /\ log'[s][Len(log[s]) + 1] = c
           /\ \A k \in DOMAIN log'[s] : k \in DOMAIN log[s] \/ k = Len(log[s]) + 1
<1>1. log[s] \in Seq(Change) /\ log' = [log EXCEPT ![s] = Append(log[s], c)]
  BY DEF Publish, TypeOK
<1>2. log'[s] = Append(log[s], c) /\ \A u \in Server : u # s => log'[u] = log[u]
  BY <1>1 DEF TypeOK
<1>3. /\ Len(log[s]) \in Nat
      /\ DOMAIN log[s] = 1 .. Len(log[s])
      /\ DOMAIN Append(log[s], c) = 1 .. Len(log[s]) + 1
      /\ \A k \in 1 .. Len(log[s]) : Append(log[s], c)[k] = log[s][k]
      /\ Append(log[s], c)[Len(log[s]) + 1] = c
  BY <1>1, AppendFacts
<1>4. Extends
  <2> SUFFICES ASSUME NEW u \in Server, NEW k \in DOMAIN log[u]
               PROVE  k \in DOMAIN log'[u] /\ log'[u][k] = log[u][k]
    BY DEF Extends
  <2>1. CASE u = s
    BY <1>2, <1>3, <2>1
  <2>2. CASE u # s
    BY <1>2, <2>2
  <2> QED
    BY <2>1, <2>2
<1> QED
  BY <1>2, <1>3, <1>4

\* The rows still have an origin if those that are new have one
LEMMA RowsStep ==
    ASSUME TypeOK, TypeOK', RowsCameFrom, Extends, PosGrows,
           \A t \in Server : \A i \in DOMAIN table'[t] :
               \/ i \in DOMAIN table[t]
               \/ \E u \in Server : \E k \in DOMAIN log'[u] :
                     /\ log'[u][k].op = "insert" /\ log'[u][k].id = i
                     /\ u = t \/ k <= pos'[u][t]
    PROVE  RowsCameFrom'
<1> SUFFICES ASSUME NEW t \in Server, NEW i \in DOMAIN table[t], ~ (i <= Dump)
             PROVE  \E u \in Server : \E k \in DOMAIN log'[u] :
                        /\ log'[u][k].op = "insert" /\ log'[u][k].id = i
                        /\ u = t \/ k <= pos'[u][t]
  BY DEF RowsCameFrom
<1>1. PICK u \in Server : \E k \in DOMAIN log[u] :
          log[u][k].op = "insert" /\ log[u][k].id = i /\ (u = t \/ k <= pos[u][t])
  BY DEF RowsCameFrom
<1>2. PICK k \in DOMAIN log[u] :
          log[u][k].op = "insert" /\ log[u][k].id = i /\ (u = t \/ k <= pos[u][t])
  BY <1>1
<1>3. k \in DOMAIN log'[u] /\ log'[u][k] = log[u][k]
  BY <1>2 DEF Extends
<1>4. k \in Nat /\ pos[u][t] \in Nat /\ pos'[u][t] \in Nat /\ pos[u][t] <= pos'[u][t]
  BY ElementFacts DEF TypeOK, PosGrows
<1>5. u = t \/ k <= pos'[u][t]
  BY <1>2, <1>4
<1> QED
  BY <1>2, <1>3, <1>5

\* The inserts are still a server's own if its sequence is not set back over
\* them and no insert is new
LEMMA InsertsStep ==
    ASSUME InsertsAreOwn,
           \A s \in Server : \A k \in DOMAIN log'[s] : log'[s][k].op = "insert" =>
               /\ k \in DOMAIN log[s] /\ log'[s][k] = log[s][k]
               /\ log[s][k].id <= seq'[s]
    PROVE  InsertsAreOwn'
BY DEF InsertsAreOwn, Own, Lower, First, Last

LEMMA OriginsStep ==
    ASSUME TypeOK, TypeOK', Origins, [Next]_vars PROVE Origins'
<1> USE DEF Origins
<1>s. SequencesInRange
  OBVIOUS
<1>n. /\ \A s \in Server : seq[s] \in Nat /\ seq'[s] \in Nat
      /\ \A s \in Server : \A k \in DOMAIN log[s] : log[s][k].op = "insert" => log[s][k].id \in Nat
      /\ \A u, v \in Server : pos[u][v] \in Nat
  <2>1. ASSUME NEW s \in Server, NEW k \in DOMAIN log[s], log[s][k].op = "insert" PROVE log[s][k].id \in Nat
    BY <2>1, ElementFacts, ChangeFacts DEF TypeOK, Id
  <2> QED
    BY <2>1 DEF TypeOK
<1>p. (UNCHANGED pos) => PosGrows
  BY <1>n DEF PosGrows
\* The steps that change neither the logs nor the rows
<1>q. ASSUME UNCHANGED <<table, log, pos>>, SequencesInRange',
             ~ strayed' => /\ ~ strayed
                           /\ \A s \in Server : \A k \in DOMAIN log[s] :
                                 log[s][k].op = "insert" => log[s][k].id <= seq'[s]
      PROVE  Origins'
  <2> SUFFICES ASSUME ~ strayed' PROVE InsertsAreOwn' /\ RowsCameFrom'
    BY <1>q
  <2>1. InsertsAreOwn'
    BY <1>q, InsertsStep
  <2>2. RowsCameFrom'
    BY <1>q DEF RowsCameFrom
  <2> QED
    BY <2>1, <2>2
\* The steps that leave the sequences alone and create no row
<1>r. ASSUME UNCHANGED <<seq, backup, ready, strayed>>, Extends, PosGrows,
             \A s \in Server : \A k \in DOMAIN log'[s] :
                 k \in DOMAIN log[s] \/ log'[s][k].op # "insert",
             \A t \in Server : \A i \in DOMAIN table'[t] :
                 \/ i \in DOMAIN table[t]
                 \/ \E u \in Server : \E k \in DOMAIN log'[u] :
                       /\ log'[u][k].op = "insert" /\ log'[u][k].id = i
                       /\ u = t \/ k <= pos'[u][t]
      PROVE  Origins'
  <2>1. SequencesInRange'
    BY <1>r, <1>s DEF SequencesInRange
  <2> SUFFICES ASSUME ~ strayed' PROVE InsertsAreOwn' /\ RowsCameFrom'
    BY <2>1
  <2>2. InsertsAreOwn /\ RowsCameFrom
    BY <1>r
  <2>3. \A s \in Server : \A k \in DOMAIN log'[s] : log'[s][k].op = "insert" =>
            k \in DOMAIN log[s] /\ log'[s][k] = log[s][k] /\ log[s][k].id <= seq'[s]
    BY <1>r, <2>2 DEF Extends, InsertsAreOwn
  <2>4. InsertsAreOwn'
    BY <2>2, <2>3, InsertsStep
  <2>5. RowsCameFrom'
    BY <1>r, <2>2, RowsStep
  <2> QED
    BY <2>4, <2>5
<1>1. CASE UNCHANGED vars
  <2>1. SequencesInRange'
    BY <1>s, <1>1 DEF vars, SequencesInRange
  <2> QED
    BY <1>q, <1>1, <2>1 DEF vars, InsertsAreOwn
<1>2. ASSUME NEW s \in Server, Migrate(s) PROVE Origins'
  <2>0. /\ First(s) \in Nat /\ Last(s) \in Nat /\ Lower(s) \in Nat
        /\ Dump <= Lower(s) /\ Lower(s) <= Last(s) /\ First(s) <= Lower(s)
        /\ ShipNo[s] # 0 => Dump < First(s) /\ Lower(s) = First(s)
        /\ ShipNo[s] = 0 => Lower(s) = Dump
    BY RangeFacts DEF Lower
  <2>1. /\ seq[s] <= Last(s) /\ Dump <= seq[s] /\ Dump \in Nat
        /\ seq'[s] = seq[s] \/ (seq'[s] = Migrated(s) /\ s \in ready')
        /\ s \in ready' => s \in ready \/ seq'[s] = Migrated(s)
        /\ backup'[s] = seq[s]
    BY <1>2, <1>s, PaddingAssumption DEF Migrate, SequencesInRange, TypeOK
  <2>2. seq[s] <= seq'[s] /\ seq'[s] <= Last(s) /\ (s \in ready' => Lower(s) <= seq'[s])
    BY <1>n, <1>s, <2>0, <2>1 DEF Migrated, SequencesInRange
  <2>3. \A u \in Server : u # s =>
          seq'[u] = seq[u] /\ backup'[u] = backup[u] /\ (u \in ready' <=> u \in ready)
    BY <1>2 DEF Migrate, TypeOK
  <2>4. SequencesInRange'
    <3> SUFFICES ASSUME NEW u \in Server
                 PROVE  /\ seq'[u] \in Dump .. Last(u) /\ backup'[u] \in Dump .. Last(u)
                        /\ u \in ready' => Lower(u) <= seq'[u]
      BY DEF SequencesInRange, Last, Lower, First
    <3>1. CASE u = s
      BY <1>n, <2>0, <2>1, <2>2, <3>1
    <3>2. CASE u # s
      BY <1>s, <2>3, <3>2 DEF SequencesInRange
    <3> QED
      BY <3>1, <3>2
  <2>5. ASSUME ~ strayed', NEW u \in Server, NEW k \in DOMAIN log[u], log[u][k].op = "insert"
        PROVE  log[u][k].id <= seq'[u]
    <3>1. ~ strayed /\ log[u][k].id <= seq[u]
      BY <1>2, <2>5 DEF Migrate, InsertsAreOwn
    <3> QED
      <4>1. log[u][k].id \in Nat /\ seq[u] \in Nat /\ seq'[u] \in Nat
        BY <1>n, <2>5
      <4>2. seq[u] <= seq'[u]
        BY <2>2, <2>3, <4>1
      <4> QED
        BY <3>1, <4>1, <4>2
  <2>6. UNCHANGED <<table, log, pos, strayed>>
    BY <1>2 DEF Migrate
  <2> QED
    BY <1>q, <2>4, <2>5, <2>6
<1>3. ASSUME NEW s \in Server, Restore(s) PROVE Origins'
  <2>1. /\ seq'[s] = backup[s] /\ \A u \in Server : u # s => seq'[u] = seq[u]
        /\ UNCHANGED <<table, log, pos, backup>>
        /\ \A u \in Server : u # s => (u \in ready' <=> u \in ready)
        /\ s \in ready' => s \in ready /\ seq'[s] = seq[s]
    BY <1>3 DEF Restore, TypeOK
  <2>2. SequencesInRange'
    <3> SUFFICES ASSUME NEW u \in Server
                 PROVE  /\ seq'[u] \in Dump .. Last(u) /\ backup'[u] \in Dump .. Last(u)
                        /\ u \in ready' => Lower(u) <= seq'[u]
      BY DEF SequencesInRange, Last, Lower, First
    <3> QED
      BY <1>s, <2>1 DEF SequencesInRange
  <2>3. ASSUME ~ strayed' PROVE ~ strayed
    BY <1>3, <2>3 DEF Restore
  <2>4. ASSUME ~ strayed', NEW u \in Server, NEW k \in DOMAIN log[u], log[u][k].op = "insert"
        PROVE  log[u][k].id <= seq'[u]
    <3>1. CASE u # s
      BY <2>1, <2>3, <2>4, <3>1 DEF InsertsAreOwn
    <3>2. CASE u = s
      <4>1. ~ (backup[s] < log[s][k].id)
        BY <1>3, <2>4, <3>2 DEF Restore
      <4>2. backup[s] \in Nat
        BY DEF TypeOK
      <4> QED
        BY <1>n, <2>1, <2>4, <3>2, <4>1, <4>2
    <3> QED
      BY <3>1, <3>2
  <2> QED
    BY <1>q, <2>1, <2>2, <2>3, <2>4
<1>4. ASSUME NEW s \in Server, NEW d \in Moments[s], Create(s, d) PROVE Origins'
  <2> DEFINE i == seq[s] + 1
             r == [by |-> s, at |-> d, date |-> d]
  <2>1. /\ i <= Last(s) /\ seq'[s] = i /\ \A u \in Server : u # s => seq'[u] = seq[u]
        /\ UNCHANGED <<pos, backup, ready>>
        /\ ~ strayed' => ~ strayed /\ s \in ready
    BY <1>4 DEF Create, TypeOK
  <2>2. SequencesInRange'
    <3> SUFFICES ASSUME NEW u \in Server
                 PROVE  /\ seq'[u] \in Dump .. Last(u) /\ backup'[u] \in Dump .. Last(u)
                        /\ u \in ready' => Lower(u) <= seq'[u]
      BY DEF SequencesInRange, Last, Lower, First
    <3>1. Lower(u) \in Nat /\ Last(u) \in Nat /\ Dump \in Nat
      BY RangeFacts, PaddingAssumption
    <3> QED
      BY <1>n, <1>s, <2>1, <3>1 DEF SequencesInRange
  <2>3. CASE Has(s, i)
    <3>1. UNCHANGED <<table, log, pos>>
      BY <1>4, <2>3 DEF Create
    <3>2. ~ strayed' => \A u \in Server : \A k \in DOMAIN log[u] :
            log[u][k].op = "insert" => log[u][k].id <= seq'[u]
      BY <1>n, <2>1 DEF InsertsAreOwn
    <3> QED
      BY <1>q, <2>1, <2>2, <3>1, <3>2
  <2>4. CASE ~ Has(s, i)
    <3> SUFFICES ASSUME ~ strayed' PROVE InsertsAreOwn' /\ RowsCameFrom'
      BY <2>2
    <3> DEFINE n == Len(log[s]) + 1
    <3>0. InsertsAreOwn /\ RowsCameFrom /\ Lower(s) <= seq[s]
      BY <1>s, <2>1 DEF SequencesInRange
    <3>1. i \in Id /\ r \in Row
      BY <1>n, PaddingAssumption DEF Id, Row, Date
    <3>2. Insert(i, r) \in Change /\ Insert(i, r).op = "insert" /\ Insert(i, r).id = i
      BY <3>1, ChangeTypes
    <3>3. Publish(s, Insert(i, r)) /\ DOMAIN table'[s] = DOMAIN table[s] \union {i}
          /\ \A t \in Server : t # s => table'[t] = table[t]
      BY <1>4, <2>4, TypeTable DEF Create
    <3>4. /\ Extends
          /\ \A u \in Server : u # s => log'[u] = log[u]
          /\ n \in DOMAIN log'[s] /\ log'[s][n] = Insert(i, r)
          /\ \A k \in DOMAIN log'[s] : k \in DOMAIN log[s] \/ k = n
      BY <3>2, <3>3, PublishFacts
    <3>5. i \in Own(s)
      <4>1. Lower(s) \in Nat /\ Last(s) \in Nat
        BY RangeFacts
      <4> QED
        BY <1>n, <2>1, <3>0, <4>1 DEF Own
    <3>6. ASSUME NEW u \in Server, NEW k \in DOMAIN log'[u], log'[u][k].op = "insert"
          PROVE  \/ u = s /\ k = n /\ log'[u][k].id = i
                 \/ /\ k \in DOMAIN log[u] /\ log'[u][k] = log[u][k]
                    /\ log[u][k].op = "insert" /\ log[u][k].id <= seq[u]
      BY <3>0, <3>2, <3>4, <3>6 DEF Extends, InsertsAreOwn
    <3>7. InsertsAreOwn'
      <4> SUFFICES ASSUME NEW u \in Server, NEW k \in DOMAIN log'[u], log'[u][k].op = "insert"
                   PROVE  /\ log'[u][k].id \in Own(u)
                          /\ log'[u][k].id <= seq'[u]
                          /\ \A l \in DOMAIN log'[u] :
                               log'[u][l].op = "insert" /\ log'[u][l].id = log'[u][k].id => l = k
        BY DEF InsertsAreOwn, Own, Last, Lower, First
      <4>1. log'[u][k].id \in Own(u) /\ log'[u][k].id <= seq'[u]
        BY <1>n, <2>1, <3>0, <3>5, <3>6 DEF InsertsAreOwn
      <4>2. ASSUME NEW l \in DOMAIN log'[u], log'[u][l].op = "insert", log'[u][l].id = log'[u][k].id
            PROVE  l = k
        <5>1. CASE u = s /\ k = n
          BY <1>n, <3>2, <3>4, <3>6, <4>2, <5>1
        <5>2. CASE u = s /\ l = n
          BY <1>n, <3>2, <3>4, <3>6, <4>2, <5>2
        <5>3. CASE ~ (u = s /\ k = n) /\ ~ (u = s /\ l = n)
          BY <3>0, <3>6, <4>2, <5>3 DEF InsertsAreOwn
        <5> QED
          BY <5>1, <5>2, <5>3
      <4> QED
        BY <4>1, <4>2
    <3>8. RowsCameFrom'
      <4>1. ASSUME NEW t \in Server, NEW j \in DOMAIN table'[t], j \notin DOMAIN table[t]
            PROVE  \E u \in Server : \E k \in DOMAIN log'[u] :
                      /\ log'[u][k].op = "insert" /\ log'[u][k].id = j
                      /\ u = t \/ k <= pos'[u][t]
        BY <3>2, <3>3, <3>4, <4>1
      <4> QED
        BY <1>p, <2>1, <3>0, <3>4, <4>1, RowsStep
    <3> QED
      BY <3>7, <3>8
  <2> QED
    BY <2>3, <2>4
<1>5. ASSUME NEW s \in Server, NEW d \in Moments[s], NEW i \in DOMAIN table[s],
             NEW date \in {d, table[s][i].date}, Write(s, i, d, date) \/ Unlink(s, i, d)
      PROVE  Origins'
  <2>1. UNCHANGED <<pos, seq, backup, ready, strayed>>
    BY <1>5 DEF Write, Unlink
  <2>2. i \in Id /\ [by |-> s, at |-> d, date |-> date] \in Row /\ table[s][i] \in Row
    BY WrittenType
  <2>3. PICK c \in Change : c.op # "insert" /\ Publish(s, c)
    <3>1. CASE Write(s, i, d, date)
      <4>1. Resolve(table[s][i], [by |-> s, at |-> d, date |-> date]) \in Row
        BY <2>2, ResolveType
      <4> QED
        BY <2>2, <3>1, <4>1, ChangeTypes DEF Write
    <3>2. CASE Unlink(s, i, d)
      BY <2>2, <3>2, ChangeTypes DEF Unlink
    <3> QED
      BY <1>5, <3>1, <3>2
  <2>4. /\ Extends
        /\ \A u \in Server : \A k \in DOMAIN log'[u] : k \in DOMAIN log[u] \/ log'[u][k].op # "insert"
    BY <2>3, PublishFacts
  <2>5. \A t \in Server : DOMAIN table'[t] \subseteq DOMAIN table[t]
    <3>0. table = [u \in Server |-> table[u]] /\ IsTable(table[s])
      BY TypeTable
    <3>1. CASE Write(s, i, d, date)
      <4>1. table' = [table EXCEPT ![s] = [table[s] EXCEPT ![i] = Resolve(table[s][i], [by |-> s, at |-> d, date |-> date])]]
        BY <3>1 DEF Write
      <4> QED
        BY <3>0, <4>1, SameIds
    <3>2. CASE Unlink(s, i, d)
      <4>1. table' = [table EXCEPT ![s] = Without(table[s], i)]
        BY <3>2 DEF Unlink
      <4> QED
        BY <3>0, <4>1, FewerIds
    <3> QED
      BY <1>5, <3>1, <3>2
  <2> QED
    BY <1>p, <1>r, <2>1, <2>4, <2>5
<1>7. ASSUME NEW s \in Server, NEW d \in Moments[s], NEW p \in Pair,
             Relate(s, p, d) \/ Separate(s, p, d)
      PROVE  Origins'
  <2>1. UNCHANGED <<pos, seq, backup, ready, strayed>> /\ UNCHANGED table
    BY <1>7 DEF Relate, Separate
  <2>2. PICK c \in Change : c.op # "insert" /\ Publish(s, c)
    BY <1>7, RelationTypes DEF Relate, Separate
  <2>3. /\ Extends
        /\ \A u \in Server : \A k \in DOMAIN log'[u] : k \in DOMAIN log[u] \/ log'[u][k].op # "insert"
    BY <2>2, PublishFacts
  <2> QED
    BY <1>p, <1>r, <2>1, <2>3
<1>6. ASSUME NEW s \in Server, NEW t \in Server, Apply(s, t) PROVE Origins'
  <2> DEFINE c == NextOf(s, t)
             k == pos[s][t] + 1
  <2>1. Pending(s, t) /\ Applied(s, t) /\ UNCHANGED <<log, seq, backup, ready, strayed>>
    BY <1>6 DEF Apply, ApplyInsert, ApplyToRow, SkipMissing, ApplyRelation
  <2>2. pos'[s][t] = k /\ PosGrows
    <3>1. pos' = [pos EXCEPT ![s] = [pos[s] EXCEPT ![t] = k]]
      BY <2>1 DEF Applied
    <3>2. pos \in [Server -> [Server -> Nat]]
      BY DEF TypeOK
    <3>3. \A u, v \in Server : pos'[u][v] = IF u = s /\ v = t THEN k ELSE pos[u][v]
      BY <3>1, <3>2
    <3> QED
      BY <3>2, <3>3 DEF PosGrows
  <2>3. k \in DOMAIN log[s] /\ log[s][k] = c
    BY <1>n, <2>1 DEF Pending, NextOf, TypeOK
  <2>4. Extends
    BY <2>1 DEF Extends
  <2>5. ASSUME NEW v \in Server, NEW i \in DOMAIN table'[v], i \notin DOMAIN table[v]
        PROVE  \E u \in Server : \E l \in DOMAIN log'[u] :
                  log'[u][l].op = "insert" /\ log'[u][l].id = i /\ (u = v \/ l <= pos'[u][v])
    <3>0. table = [u \in Server |-> table[u]] /\ IsTable(table[t])
      BY TypeTable
    <3>1. CASE ApplyInsert(s, t)
      <4>1. table' = [table EXCEPT ![t] = [j \in DOMAIN table[t] \union {c.id} |-> IF j = c.id THEN c.row ELSE table[t][j]]]
        BY <3>1 DEF ApplyInsert
      <4>2. v = t /\ i = c.id
        BY <2>5, <3>0, <4>1
      <4>3. log'[s][k].op = "insert" /\ log'[s][k].id = i /\ k <= pos'[s][v] /\ k \in DOMAIN log'[s]
        BY <1>n, <2>1, <2>2, <2>3, <3>1, <4>2 DEF ApplyInsert
      <4> QED
        BY <4>3
    <3>2. CASE ApplyToRow(s, t)
      <4>1. CASE c.op = "delete"
        <5>1. table' = [table EXCEPT ![t] = Without(table[t], c.id)]
          BY <3>2, <4>1 DEF ApplyToRow
        <5>2. DOMAIN table'[v] \subseteq DOMAIN table[v]
          BY <3>0, <5>1, FewerIds
        <5> QED
          BY <2>5, <5>2
      <4>2. CASE c.op # "delete"
        <5>1. table' = [table EXCEPT ![t] = [table[t] EXCEPT ![c.id] = Resolve(table[t][c.id], c.row)]]
          BY <3>2, <4>2 DEF ApplyToRow
        <5>2. DOMAIN table'[v] = DOMAIN table[v]
          BY <3>0, <5>1, SameIds
        <5> QED
          BY <2>5, <5>2
      <4> QED
        BY <4>1, <4>2
    <3>3. CASE SkipMissing(s, t)
      BY <2>5, <3>3 DEF SkipMissing
    <3>4. CASE ApplyRelation(s, t)
      BY <2>5, <3>4 DEF ApplyRelation
    <3> QED
      BY <1>6, <3>1, <3>2, <3>3, <3>4 DEF Apply
  <2> QED
    BY <1>r, <2>1, <2>2, <2>4, <2>5
<1> QED
  BY <1>1, <1>2, <1>3, <1>4, <1>5, <1>6, <1>7 DEF Next

LEMMA OriginsInit == Init => Origins
<1> SUFFICES ASSUME Init PROVE Origins
  OBVIOUS
<1>1. ASSUME NEW s \in Server
      PROVE  /\ seq[s] \in Dump .. Last(s) /\ backup[s] \in Dump .. Last(s)
             /\ s \in ready => Lower(s) <= seq[s]
  <2>1. Dump <= Lower(s) /\ Lower(s) <= Last(s) /\ Last(s) \in Nat /\ Lower(s) \in Nat /\ Dump \in Nat
    BY RangeFacts, PaddingAssumption
  <2>2. seq[s] = Dump /\ backup[s] = Dump /\ (s \in ready => ShipNo[s] = 0)
    BY DEF Init
  <2> QED
    BY <2>1, <2>2 DEF Lower
<1>2. \A s \in Server : DOMAIN log[s] = {}
  <2>1. \A s \in Server : log[s] = << >>
    BY DEF Init
  <2>2. DOMAIN << >> = {}
    OBVIOUS
  <2> QED
    BY <2>1, <2>2
<1>3. \A s \in Server : \A i \in DOMAIN table[s] : i <= Dump
  BY PaddingAssumption DEF Init
<1>4. SequencesInRange
  BY <1>1 DEF SequencesInRange
<1>5. InsertsAreOwn
  BY <1>2 DEF InsertsAreOwn
<1>6. RowsCameFrom
  BY <1>3 DEF RowsCameFrom
<1> QED
  BY <1>4, <1>5, <1>6 DEF Origins

\* The next id of a server whose sequence is in its range is free there, and
\* that of a row on its way is free where it goes, as long as no row was
\* created with a sequence out of its range.
THEOREM ClashTheorem == Spec => []InsertsNeverClash
<1>1. Init => TypeOK /\ Origins
  BY TypeInit, OriginsInit
<1>2. TypeOK /\ Origins /\ [Next]_vars => TypeOK' /\ Origins'
  BY TypeStep, OriginsStep
<1>3. TypeOK /\ Origins => InsertsNeverClash
  BY OriginsGiveClash
<1> QED
  BY <1>1, <1>2, <1>3, PTL DEF Spec

-----------------------------------------------------------------------------
(* What a server has seen of the logs. *)

\* The changes server t made or applied, and those that were made anywhere
Seen(t) == UNION {{log[u][k] : k \in {l \in DOMAIN log[u] : u = t \/ l <= pos[u][t]}} : u \in Server}
Made == UNION {{log[u][k] : k \in DOMAIN log[u]} : u \in Server}

LEMMA SeenIff ==
    ASSUME NEW t, NEW c
    PROVE  c \in Seen(t) <=> \E u \in Server : \E k \in DOMAIN log[u] :
                                 (u = t \/ k <= pos[u][t]) /\ c = log[u][k]
BY DEF Seen

LEMMA MadeIff ==
    ASSUME NEW c
    PROVE  c \in Made <=> \E u \in Server : \E k \in DOMAIN log[u] : c = log[u][k]
BY DEF Made

LEMMA SeenFacts ==
    ASSUME TypeOK
    PROVE  Made \subseteq Change /\ \A t \in Server : Seen(t) \subseteq Made
<1>1. Made \subseteq Change
  BY ElementFacts, MadeIff DEF TypeOK
<1>2. \A t \in Server : Seen(t) \subseteq Made
  BY SeenIff, MadeIff
<1> QED
  BY <1>1, <1>2

\* When everything was applied each server has seen everything
LEMMA AllSeen ==
    ASSUME TypeOK, AllApplied, NEW t \in Server
    PROVE  Seen(t) = Made
<1>1. ASSUME NEW u \in Server, NEW k \in DOMAIN log[u]
      PROVE  u = t \/ k <= pos[u][t]
  BY <1>1, ElementFacts DEF AllApplied, TypeOK
<1>2. \A c : c \in Made => c \in Seen(t)
  BY <1>1, SeenIff, MadeIff
<1> QED
  BY <1>2, SeenFacts

\* A change a server makes is seen by that server alone
LEMMA PublishSeen ==
    ASSUME TypeOK, NEW s \in Server, NEW c \in Change, Publish(s, c), UNCHANGED pos
    PROVE  /\ Seen(s)' = Seen(s) \union {c}
           /\ \A t \in Server : t # s => Seen(t)' = Seen(t)
           /\ Made' = Made \union {c}
<1> DEFINE n == Len(log[s]) + 1
<1>1. /\ Extends
      /\ \A u \in Server : u # s => log'[u] = log[u]
      /\ n \in DOMAIN log'[s] /\ log'[s][n] = c
      /\ \A k \in DOMAIN log'[s] : k \in DOMAIN log[s] \/ k = n
  BY PublishFacts
<1>2. \A u \in Server : \A k \in DOMAIN log[u] : k \in DOMAIN log'[u] /\ log'[u][k] = log[u][k]
  BY <1>1 DEF Extends
<1>3. \A t \in Server : t # s => ~ (n <= pos[s][t])
  BY ElementFacts DEF TypeOK
<1> HIDE DEF n
<1>4. ASSUME NEW u \in Server, NEW k \in DOMAIN log'[u]
      PROVE  (u = s /\ k = n) \/ (k \in DOMAIN log[u] /\ log'[u][k] = log[u][k])
  <2>1. k \in DOMAIN log[u] \/ (u = s /\ k = n)
    BY <1>1
  <2> QED
    BY <1>2, <2>1
<1>5. ASSUME NEW t \in Server, NEW x
      PROVE  x \in Seen(t)' <=> x \in Seen(t) \/ (t = s /\ x = c)
  <2>1. x \in Seen(t)' <=> \E u \in Server : \E k \in DOMAIN log'[u] :
                               (u = t \/ k <= pos[u][t]) /\ x = log'[u][k]
    BY DEF Seen
  <2>2. ASSUME x \in Seen(t)' PROVE x \in Seen(t) \/ (t = s /\ x = c)
    BY <1>1, <1>3, <1>4, <2>1, <2>2, SeenIff
  <2>3. ASSUME x \in Seen(t) PROVE x \in Seen(t)'
    BY <1>2, <2>1, <2>3, SeenIff
  <2>4. ASSUME t = s, x = c PROVE x \in Seen(t)'
    BY <1>1, <2>1, <2>4
  <2> QED
    BY <2>2, <2>3, <2>4
<1>6. ASSUME NEW x PROVE x \in Made' <=> x \in Made \/ x = c
  <2>1. x \in Made' <=> \E u \in Server : \E k \in DOMAIN log'[u] : x = log'[u][k]
    BY DEF Made
  <2>2. ASSUME x \in Made' PROVE x \in Made \/ x = c
    BY <1>1, <1>4, <2>1, <2>2, MadeIff
  <2>3. ASSUME x \in Made PROVE x \in Made'
    BY <1>2, <2>1, <2>3, MadeIff
  <2>4. ASSUME x = c PROVE x \in Made'
    BY <1>1, <2>1, <2>4
  <2> QED
    BY <2>2, <2>3, <2>4
<1> QED
  BY <1>5, <1>6

\* One that is applied at t is seen by t as well
LEMMA AppliedSeen ==
    ASSUME TypeOK, NEW s \in Server, NEW t \in Server, s # t,
           Pending(s, t), Applied(s, t), UNCHANGED log
    PROVE  /\ NextOf(s, t) \in Made
           /\ Seen(t)' = Seen(t) \union {NextOf(s, t)}
           /\ \A u \in Server : u # t => Seen(u)' = Seen(u)
           /\ Made' = Made
<1> DEFINE n == pos[s][t] + 1
<1>1. n \in DOMAIN log[s] /\ NextOf(s, t) = log[s][n]
  BY DEF Pending, NextOf, TypeOK
<1>2. \A u, v \in Server : pos'[u][v] = IF u = s /\ v = t THEN n ELSE pos[u][v]
  <2>1. pos' = [pos EXCEPT ![s] = [pos[s] EXCEPT ![t] = n]] /\ pos \in [Server -> [Server -> Nat]]
    BY DEF Applied, TypeOK
  <2> QED
    BY <2>1
<1>3. \A u \in Server : \A k \in DOMAIN log[u] : k \in Nat
  BY ElementFacts DEF TypeOK
<1>4. pos[s][t] \in Nat
  BY DEF TypeOK
<1>5. \A k \in Nat : k <= n <=> k <= pos[s][t] \/ k = n
  BY <1>4
<1> HIDE DEF n
<1>6. ASSUME NEW v \in Server, NEW u \in Server, NEW k \in DOMAIN log[u]
      PROVE  k <= pos'[u][v] <=> k <= pos[u][v] \/ (u = s /\ v = t /\ k = n)
  <2>1. CASE u = s /\ v = t
    BY <1>2, <1>3, <1>5, <2>1
  <2>2. CASE ~ (u = s /\ v = t)
    BY <1>2, <2>2
  <2> QED
    BY <2>1, <2>2
<1>7. ASSUME NEW v \in Server, NEW x
      PROVE  x \in Seen(v)' <=> x \in Seen(v) \/ (v = t /\ x = log[s][n])
  <2>1. x \in Seen(v)' <=> \E u \in Server : \E k \in DOMAIN log[u] :
                               (u = v \/ k <= pos'[u][v]) /\ x = log[u][k]
    BY DEF Seen
  <2>2. x \in Seen(v)' <=> \E u \in Server : \E k \in DOMAIN log[u] :
            (u = v \/ k <= pos[u][v] \/ (u = s /\ v = t /\ k = n)) /\ x = log[u][k]
    BY <1>6, <2>1
  <2>3. x \in Seen(v) <=> \E u \in Server : \E k \in DOMAIN log[u] :
                               (u = v \/ k <= pos[u][v]) /\ x = log[u][k]
    BY SeenIff
  <2> QED
    BY <1>1, <2>2, <2>3
<1>8. Made' = Made
  BY DEF Made
<1>9. NextOf(s, t) \in Made
  BY <1>1, MadeIff
<1> QED
  BY <1>1, <1>7, <1>8, <1>9

-----------------------------------------------------------------------------
(* What a table is, given the changes its server has seen: the rows that   *)
(* were inserted and not deleted, each as last written.                    *)

Inserted(Q, i) == i \in 1 .. Dump \/ \E c \in Q : c.op = "insert" /\ c.id = i
Deleted(Q, i) == \E c \in Q : c.op = "delete" /\ c.id = i

Latest(r, Q, i) ==
    /\ \A c \in Q : c.id = i /\ c.op # "delete" => c.row.date <= r.date
    /\ \/ /\ i \in 1 .. Dump /\ r = Dumped
          /\ \A c \in Q : c.id = i => c.op = "delete"
       \/ \E c \in Q : c.id = i /\ c.op # "delete" /\ c.row = r

Follows(t, i) ==
    /\ ~ Inserted(Seen(t), i) => \A c \in Seen(t) : c.id # i
    /\ Has(t, i) <=> Inserted(Seen(t), i) /\ ~ Deleted(Seen(t), i)
    /\ Has(t, i) => Latest(table[t][i], Seen(t), i)

\* A row that was overtaken by a change of it need not follow
TablesFollow == \A t \in Server : \A i \in Id : <<t, i>> \notin overtaken => Follows(t, i)

RowsWereInserted == \A t \in Server : \A i \in DOMAIN table[t] : Inserted(Seen(t), i)
ChangesAreOfRows == \A c \in Made : c.id \in Id => Inserted(Made, c.id)

History == TablesFollow /\ RowsWereInserted /\ ChangesAreOfRows

LEMMA InsertedInMore ==
    ASSUME NEW Q, NEW P, Q \subseteq P, NEW i, Inserted(Q, i) PROVE Inserted(P, i)
BY DEF Inserted

\* The tables still follow if the one of t, which sees c, does for the row of c
LEMMA TablesStep ==
    ASSUME TablesFollow, NEW t \in Server, NEW c \in Change,
           Seen(t)' = Seen(t) \union {c},
           \A u \in Server : u # t => Seen(u)' = Seen(u) /\ table'[u] = table[u],
           overtaken \subseteq overtaken',
           \A i : i # c.id => /\ Has(t, i)' <=> Has(t, i)
                              /\ Has(t, i) => table'[t][i] = table[t][i],
           c.id \in Id /\ <<t, c.id>> \notin overtaken' /\ Follows(t, c.id) => Follows(t, c.id)'
    PROVE  TablesFollow'
<1> SUFFICES ASSUME NEW u \in Server, NEW i \in Id, <<u, i>> \notin overtaken'
             PROVE  Follows(u, i)'
  BY DEF TablesFollow
<1>1. Follows(u, i)
  BY DEF TablesFollow
<1>2. CASE u # t
  <2>1. Seen(u)' = Seen(u) /\ table'[u] = table[u]
    BY <1>2
  <2> QED
    BY <1>1, <2>1 DEF Follows, Has
<1>3. CASE u = t /\ i = c.id
  BY <1>1, <1>3
<1>4. CASE u = t /\ i # c.id
  <2>1. Inserted(Seen(t) \union {c}, i) <=> Inserted(Seen(t), i)
    BY <1>4 DEF Inserted
  <2>2. Deleted(Seen(t) \union {c}, i) <=> Deleted(Seen(t), i)
    BY <1>4 DEF Deleted
  <2>3. \A r : Latest(r, Seen(t), i) => Latest(r, Seen(t) \union {c}, i)
    BY <1>4 DEF Latest
  <2>4. /\ Has(t, i)' <=> Has(t, i)
        /\ Has(t, i) => table'[t][i] = table[t][i]
    BY <1>4
  <2>5. /\ ~ Inserted(Seen(t)', i) => \A x \in Seen(t)' : x.id # i
        /\ Has(t, i)' <=> Inserted(Seen(t)', i) /\ ~ Deleted(Seen(t)', i)
        /\ Has(t, i)' => Latest(table'[t][i], Seen(t)', i)
    BY <1>1, <1>4, <2>1, <2>2, <2>3, <2>4 DEF Follows
  <2> QED
    BY <1>4, <2>5 DEF Follows
<1> QED
  BY <1>2, <1>3, <1>4

LEMMA InsertFollows ==
    ASSUME NEW t \in Server, NEW c \in Change, Seen(t)' = Seen(t) \union {c}, Seen(t) \subseteq Change,
           c.op = "insert", ~ Inserted(Seen(t), c.id), Follows(t, c.id),
           Has(t, c.id)', table'[t][c.id] = c.row
    PROVE  Follows(t, c.id)'
<1>1. \A x \in Seen(t) : x.id # c.id
  BY DEF Follows
<1>2. c.row.date \in Nat
  BY ChangeFacts DEF Row, Date
<1>3. Inserted(Seen(t) \union {c}, c.id) /\ ~ Deleted(Seen(t) \union {c}, c.id)
  BY <1>1 DEF Inserted, Deleted
<1>4. Latest(c.row, Seen(t) \union {c}, c.id)
  BY <1>1, <1>2 DEF Latest
<1> QED
  BY <1>3, <1>4 DEF Follows

LEMMA UpdateFollows ==
    ASSUME NEW t \in Server, NEW c \in Change, Seen(t)' = Seen(t) \union {c}, Seen(t) \subseteq Change,
           c.op = "update", Has(t, c.id), Follows(t, c.id), table[t][c.id] \in Row,
           Has(t, c.id)', NEW r \in Row, table'[t][c.id] = r,
           r = c.row \/ (r = table[t][c.id] /\ c.row.date < r.date),
           c.row.date <= r.date, table[t][c.id].date <= r.date
    PROVE  Follows(t, c.id)'
<1>1. Inserted(Seen(t), c.id) /\ ~ Deleted(Seen(t), c.id) /\ Latest(table[t][c.id], Seen(t), c.id)
  BY DEF Follows
<1>2. Inserted(Seen(t) \union {c}, c.id) /\ ~ Deleted(Seen(t) \union {c}, c.id)
  BY <1>1 DEF Inserted, Deleted
<1>3. ASSUME NEW x \in Seen(t) \union {c}, x.id = c.id, x.op # "delete"
      PROVE  x.row.date <= r.date
  <2>0. x \in Change /\ c.id \in Id
    BY ChangeFacts
  <2>1. x.row.date \in Nat /\ r.date \in Nat /\ table[t][c.id].date \in Nat
    <3>1. x.row \in Row
      BY <1>3, <2>0, ChangeFacts
    <3> QED
      BY <3>1 DEF Row, Date
  <2> QED
    BY <1>1, <1>3, <2>1 DEF Latest
<1>4. \E x \in Seen(t) \union {c} : x.id = c.id /\ x.op # "delete" /\ x.row = r
  <2>1. CASE r = c.row
    BY <2>1
  <2>2. CASE r = table[t][c.id] /\ c.row.date < r.date
    <3>1. c.row.date \in Date
      BY ChangeFacts DEF Row
    <3>2. r # Dumped
      BY <2>2, <3>1, PaddingAssumption DEF Dumped, Date
    <3> QED
      BY <1>1, <2>2, <3>2 DEF Latest
  <2> QED
    BY <2>1, <2>2
<1>5. Latest(r, Seen(t) \union {c}, c.id)
  BY <1>3, <1>4 DEF Latest
<1> QED
  BY <1>2, <1>5 DEF Follows

LEMMA DeleteFollows ==
    ASSUME NEW t \in Server, NEW c \in Change, Seen(t)' = Seen(t) \union {c},
           c.op = "delete", Has(t, c.id), Follows(t, c.id), ~ Has(t, c.id)'
    PROVE  Follows(t, c.id)'
<1>1. Inserted(Seen(t), c.id)
  BY DEF Follows
<1>2. Inserted(Seen(t) \union {c}, c.id) /\ Deleted(Seen(t) \union {c}, c.id)
  BY <1>1 DEF Inserted, Deleted
<1> QED
  BY <1>2 DEF Follows

\* A change of a row that is not there was deleted before, if it was inserted
LEMMA SkipFollows ==
    ASSUME NEW t \in Server, NEW c \in Change, Seen(t)' = Seen(t) \union {c},
           c.op # "insert", Inserted(Seen(t), c.id),
           ~ Has(t, c.id), Follows(t, c.id), ~ Has(t, c.id)'
    PROVE  Follows(t, c.id)'
<1>1. Deleted(Seen(t), c.id)
  BY DEF Follows
<1>2. Inserted(Seen(t) \union {c}, c.id) /\ Deleted(Seen(t) \union {c}, c.id)
  BY <1>1 DEF Inserted, Deleted
<1> QED
  BY <1>2 DEF Follows

LEMMA RowsInsertedStep ==
    ASSUME RowsWereInserted, NEW t \in Server, NEW c,
           Seen(t)' = Seen(t) \union {c},
           \A u \in Server : u # t => Seen(u)' = Seen(u) /\ table'[u] = table[u],
           \A i \in DOMAIN table'[t] : i \in DOMAIN table[t] \/ (c.op = "insert" /\ c.id = i)
    PROVE  RowsWereInserted'
<1> SUFFICES ASSUME NEW u \in Server, NEW i \in DOMAIN table'[u]
             PROVE  Inserted(Seen(u)', i)
  BY DEF RowsWereInserted
<1>1. CASE u # t
  BY <1>1 DEF RowsWereInserted
<1>2. CASE u = t
  <2>1. Inserted(Seen(t), i) \/ (c.op = "insert" /\ c.id = i)
    BY <1>2 DEF RowsWereInserted
  <2>2. Inserted(Seen(t) \union {c}, i)
    BY <2>1 DEF Inserted
  <2> QED
    BY <1>2, <2>2
<1> QED
  BY <1>1, <1>2

LEMMA ChangesStep ==
    ASSUME ChangesAreOfRows, NEW c, Made' = Made \union {c},
           c.id \in Id => c.op = "insert" \/ Inserted(Made, c.id)
    PROVE  ChangesAreOfRows'
<1>1. ASSUME NEW x \in Made \union {c}, x.id \in Id PROVE Inserted(Made \union {c}, x.id)
  <2>1. Inserted(Made, x.id) \/ (x = c /\ c.op = "insert")
    BY <1>1 DEF ChangesAreOfRows
  <2> QED
    BY <2>1 DEF Inserted
<1> QED
  BY <1>1 DEF ChangesAreOfRows

-----------------------------------------------------------------------------
(* An id is inserted once. *)

LEMMA CreatedIsNew ==
    ASSUME TypeOK, Origins, ~ strayed, NEW s \in ready, seq[s] + 1 <= Last(s)
    PROVE  ~ Inserted(Made, seq[s] + 1)
<1> DEFINE i == seq[s] + 1
<1>0. InsertsAreOwn /\ SequencesInRange
  BY DEF Origins
<1>1. s \in Server /\ seq[s] \in Nat /\ Lower(s) <= seq[s]
  BY <1>0 DEF TypeOK, SequencesInRange
<1>2. Lower(s) \in Nat /\ Last(s) \in Nat /\ Dump <= Lower(s)
  BY <1>1, RangeFacts
<1>3. i \in Lower(s) + 1 .. Last(s) + 1 /\ i \notin 1 .. Dump
  BY <1>1, <1>2, PaddingAssumption
<1>4. ASSUME NEW c \in Made, c.op = "insert", c.id = i PROVE FALSE
  <2>1. PICK u \in Server : \E k \in DOMAIN log[u] : c = log[u][k]
    BY <1>4, MadeIff
  <2>2. i \in Own(u) /\ i <= seq[u]
    BY <1>0, <1>4, <2>1 DEF InsertsAreOwn
  <2>3. u # s
    BY <1>1, <2>2
  <2> QED
    BY <1>1, <1>3, <2>2, <2>3, OwnApart
<1> QED
  BY <1>3, <1>4 DEF Inserted

LEMMA PendingIsNew ==
    ASSUME TypeOK, Origins, ~ strayed, NEW s \in Server, NEW t \in Server, s # t,
           Pending(s, t), NextOf(s, t).op = "insert"
    PROVE  ~ Inserted(Seen(t), NextOf(s, t).id)
<1> DEFINE c == NextOf(s, t)
           n == pos[s][t] + 1
<1>0. InsertsAreOwn
  BY DEF Origins
<1>1. n \in DOMAIN log[s] /\ c = log[s][n] /\ pos[s][t] \in Nat
  BY DEF Pending, NextOf, TypeOK
<1>2. c.id \in Own(s)
  BY <1>0, <1>1 DEF InsertsAreOwn
<1>3. Lower(s) \in Nat /\ Last(s) \in Nat /\ Dump <= Lower(s)
  BY RangeFacts
<1>4. c.id \in Lower(s) + 1 .. Last(s) + 1 /\ c.id \notin 1 .. Dump
  BY <1>2, <1>3, PaddingAssumption DEF Own
<1>5. ASSUME NEW x \in Seen(t), x.op = "insert", x.id = c.id PROVE FALSE
  <2>1. PICK u \in Server : \E k \in DOMAIN log[u] : (u = t \/ k <= pos[u][t]) /\ x = log[u][k]
    BY <1>5, SeenIff
  <2>2. PICK k \in DOMAIN log[u] : (u = t \/ k <= pos[u][t]) /\ x = log[u][k]
    BY <2>1
  <2>3. c.id \in Own(u)
    BY <1>0, <1>5, <2>2 DEF InsertsAreOwn
  <2>4. u = s
    BY <1>4, <2>3, OwnApart
  <2>5. k = n
    BY <1>0, <1>1, <1>5, <2>2, <2>4 DEF InsertsAreOwn
  <2> QED
    BY <1>1, <2>2, <2>4, <2>5
<1> QED
  BY <1>4, <1>5 DEF Inserted

-----------------------------------------------------------------------------
(* The steps keep the history. *)

LEMMA SameHistory ==
    ASSUME History, UNCHANGED <<table, log, pos, overtaken>> PROVE History'
<1>1. Made' = Made /\ \A t \in Server : Seen(t)' = Seen(t)
  BY DEF Made, Seen
<1>2. TablesFollow'
  BY <1>1 DEF History, TablesFollow, Follows, Has
<1>3. RowsWereInserted'
  BY <1>1 DEF History, RowsWereInserted
<1> QED
  BY <1>1, <1>2, <1>3 DEF History, ChangesAreOfRows

LEMMA ResolveFacts ==
    ASSUME NEW old \in Row, NEW new \in Row, NEW r, r = Resolve(old, new)
    PROVE  /\ r \in Row
           /\ r = new \/ (r = old /\ new.date < r.date)
           /\ old.date <= r.date /\ new.date <= r.date
BY PaddingAssumption DEF Resolve, Row, Date, Null

LEMMA CreateHistory ==
    ASSUME TypeOK, Origins, History, ~ strayed,
           NEW s \in Server, NEW d \in Moments[s], Create(s, d), ~ strayed'
    PROVE  History'
<1> DEFINE i == seq[s] + 1
           r == [by |-> s, at |-> d, date |-> d]
           c == Insert(i, r)
<1>1. CASE Has(s, i)
  BY <1>1, SameHistory DEF Create
<1>2. CASE ~ Has(s, i)
  <2>1. /\ s \in ready /\ i <= Last(s) /\ Publish(s, c) /\ UNCHANGED <<pos, overtaken>>
        /\ table' = [table EXCEPT ![s] =
              [j \in DOMAIN table[s] \union {i} |-> IF j = i THEN r ELSE table[s][j]]]
    BY <1>2 DEF Create
  <2>2. i \in Id /\ r \in Row
    BY PaddingAssumption DEF Id, Row, Date, TypeOK
  <2>3. PICK e \in Change : e = c
    BY <2>2, ChangeTypes
  <2>a. e.op = "insert" /\ e.id = i /\ e.row = r /\ r.date = d /\ Publish(s, e)
    BY <2>1, <2>3 DEF Insert
  <2> HIDE DEF c, r
  <2>4. /\ Seen(s)' = Seen(s) \union {e} /\ Made' = Made \union {e}
        /\ \A t \in Server : t # s => Seen(t)' = Seen(t)
    BY <2>1, <2>a, PublishSeen
  <2>5. table = [u \in Server |-> table[u]]
    BY TypeTable
  <2>6. /\ \A u \in Server : u # s => table'[u] = table[u]
        /\ DOMAIN table'[s] = DOMAIN table[s] \union {i}
        /\ table'[s][i] = r
        /\ \A j \in DOMAIN table[s] : j # i => table'[s][j] = table[s][j]
    BY <2>1, <2>5
  <2>7. ~ Inserted(Made, i)
    BY <2>1, CreatedIsNew
  <2>8. Seen(s) \subseteq Made /\ Seen(s) \subseteq Change
    BY SeenFacts
  <2>9. ~ Inserted(Seen(s), i)
    BY <2>7, <2>8, InsertedInMore
  <2> HIDE DEF i
  <2>10. Follows(s, e.id) => Follows(s, e.id)'
    BY <2>a, <2>4, <2>6, <2>8, <2>9, InsertFollows DEF Has
  <2>11. \A j : j # e.id => /\ Has(s, j)' <=> Has(s, j)
                            /\ Has(s, j) => table'[s][j] = table[s][j]
    BY <2>a, <2>6 DEF Has
  <2>12. TablesFollow'
    BY <2>1, <2>a, <2>4, <2>6, <2>10, <2>11, TablesStep DEF History
  <2>13. RowsWereInserted'
    BY <2>a, <2>4, <2>6, RowsInsertedStep DEF History
  <2>14. ChangesAreOfRows'
    BY <2>a, <2>4, ChangesStep DEF History
  <2> QED
    BY <2>12, <2>13, <2>14 DEF History
<1> QED
  BY <1>1, <1>2

LEMMA WriteHistory ==
    ASSUME TypeOK, History, NEW s \in Server, NEW d \in Moments[s], NEW i \in DOMAIN table[s],
           NEW date \in {d, table[s][i].date}, Write(s, i, d, date)
    PROVE  History'
<1> DEFINE r == Resolve(table[s][i], [by |-> s, at |-> d, date |-> date])
           c == Update(i, r)
<1>1. /\ Publish(s, c) /\ UNCHANGED <<pos, overtaken>>
      /\ table' = [table EXCEPT ![s] = [table[s] EXCEPT ![i] = r]]
  BY DEF Write
<1>2. i \in Id /\ table[s][i] \in Row /\ [by |-> s, at |-> d, date |-> date] \in Row
  BY WrittenType
<1>3. r \in Row /\ table[s][i].date <= r.date /\ r.date <= r.date
  BY <1>2, ResolveFacts DEF Row, Date
<1>a. PICK e \in Change : e = c
  BY <1>2, <1>3, ChangeTypes
<1>b. PICK w \in Row : w = r
  BY <1>3
<1>4. e.op = "update" /\ e.id = i /\ e.row = w /\ Publish(s, e)
  BY <1>1, <1>a, <1>b DEF Update
<1> HIDE DEF c, r
<1>5. /\ Seen(s)' = Seen(s) \union {e} /\ Made' = Made \union {e}
      /\ \A t \in Server : t # s => Seen(t)' = Seen(t)
  BY <1>1, <1>4, PublishSeen
<1>6. table = [u \in Server |-> table[u]] /\ IsTable(table[s])
  BY TypeTable
<1>7. /\ \A u \in Server : u # s => table'[u] = table[u]
      /\ DOMAIN table'[s] = DOMAIN table[s]
      /\ table'[s][i] = w
      /\ \A j \in DOMAIN table[s] : j # i => table'[s][j] = table[s][j]
  BY <1>1, <1>6, <1>b DEF IsTable
<1>8. Seen(s) \subseteq Made /\ Seen(s) \subseteq Change
  BY SeenFacts
<1>9. Follows(s, e.id) => Follows(s, e.id)'
  BY <1>2, <1>3, <1>b, <1>4, <1>5, <1>7, <1>8, UpdateFollows DEF Has
<1>10. \A j : j # e.id => /\ Has(s, j)' <=> Has(s, j)
                          /\ Has(s, j) => table'[s][j] = table[s][j]
  BY <1>4, <1>7 DEF Has
<1>11. TablesFollow'
  BY <1>1, <1>4, <1>5, <1>7, <1>9, <1>10, TablesStep DEF History
<1>12. RowsWereInserted'
  BY <1>5, <1>7, RowsInsertedStep DEF History
<1>13. Inserted(Made, e.id)
  BY <1>4, <1>8, InsertedInMore DEF History, RowsWereInserted
<1>14. ChangesAreOfRows'
  BY <1>4, <1>5, <1>13, ChangesStep DEF History
<1> QED
  BY <1>11, <1>12, <1>14 DEF History

LEMMA UnlinkHistory ==
    ASSUME TypeOK, History, NEW s \in Server, NEW d, NEW i \in DOMAIN table[s], Unlink(s, i, d)
    PROVE  History'
<1> DEFINE c == Delete(i, table[s][i])
<1>1. /\ Publish(s, c) /\ UNCHANGED <<pos, overtaken>>
      /\ table' = [table EXCEPT ![s] = Without(table[s], i)]
  BY DEF Unlink
<1>2. i \in Id /\ table[s][i] \in Row
  BY DEF TypeOK
<1>a. PICK e \in Change : e = c
  BY <1>2, ChangeTypes
<1>3. e.op = "delete" /\ e.id = i /\ Publish(s, e)
  BY <1>1, <1>2, <1>a, ChangeTypes
<1> HIDE DEF c
<1>4. /\ Seen(s)' = Seen(s) \union {e} /\ Made' = Made \union {e}
      /\ \A t \in Server : t # s => Seen(t)' = Seen(t)
  BY <1>1, <1>3, PublishSeen
<1>5. table = [u \in Server |-> table[u]]
  BY TypeTable
<1>6. /\ \A u \in Server : u # s => table'[u] = table[u]
      /\ DOMAIN table'[s] = DOMAIN table[s] \ {i}
      /\ \A j \in DOMAIN table[s] : j # i => table'[s][j] = table[s][j]
  BY <1>1, <1>5 DEF Without
<1>7. Seen(s) \subseteq Made
  BY SeenFacts
<1>8. Follows(s, e.id) => Follows(s, e.id)'
  BY <1>3, <1>4, <1>6, DeleteFollows DEF Has
<1>9. \A j : j # e.id => /\ Has(s, j)' <=> Has(s, j)
                         /\ Has(s, j) => table'[s][j] = table[s][j]
  BY <1>3, <1>6 DEF Has
<1>10. TablesFollow'
  BY <1>1, <1>3, <1>4, <1>6, <1>8, <1>9, TablesStep DEF History
<1>11. RowsWereInserted'
  BY <1>4, <1>6, RowsInsertedStep DEF History
<1>12. Inserted(Made, e.id)
  BY <1>3, <1>7, InsertedInMore DEF History, RowsWereInserted
<1>13. ChangesAreOfRows'
  BY <1>3, <1>4, <1>12, ChangesStep DEF History
<1> QED
  BY <1>10, <1>11, <1>13 DEF History

\* The pairs are not among the rows
LEMMA RelationHistory ==
    ASSUME TypeOK, History, NEW s \in Server, NEW d, NEW p \in Pair,
           Relate(s, p, d) \/ Separate(s, p, d)
    PROVE  History'
<1>1. UNCHANGED <<table, pos, overtaken>>
  BY DEF Relate, Separate
<1>2. PICK e \in Change : e.id \notin Id /\ Publish(s, e)
  BY RelationTypes, PaddingAssumption DEF Relate, Separate, Id
<1>3. /\ Seen(s)' = Seen(s) \union {e} /\ Made' = Made \union {e}
      /\ \A t \in Server : t # s => Seen(t)' = Seen(t)
  BY <1>1, <1>2, PublishSeen
<1>4. \A j : Has(s, j)' <=> Has(s, j)
  BY <1>1 DEF Has
<1>5. TablesFollow'
  BY <1>1, <1>2, <1>3, <1>4, TablesStep DEF History
<1>6. RowsWereInserted'
  BY <1>1, <1>3, RowsInsertedStep DEF History
<1>7. ChangesAreOfRows'
  BY <1>2, <1>3, ChangesStep DEF History
<1> QED
  BY <1>5, <1>6, <1>7 DEF History

\* What applying a change leaves alone, and what it is
LEMMA ApplyFacts ==
    ASSUME TypeOK, History, NEW s \in Server, NEW t \in Server, s # t,
           Pending(s, t), Applied(s, t), UNCHANGED log
    PROVE  /\ NextOf(s, t) \in Change /\ NextOf(s, t) \in Made
           /\ Seen(t)' = Seen(t) \union {NextOf(s, t)}
           /\ \A u \in Server : u # t => Seen(u)' = Seen(u)
           /\ Seen(t) \subseteq Change
           /\ ChangesAreOfRows'
<1>1. /\ NextOf(s, t) \in Made /\ Made' = Made
      /\ Seen(t)' = Seen(t) \union {NextOf(s, t)}
      /\ \A u \in Server : u # t => Seen(u)' = Seen(u)
  BY AppliedSeen
<1>2. Made \subseteq Change /\ Seen(t) \subseteq Made
  BY SeenFacts
<1>3. ChangesAreOfRows'
  BY <1>1 DEF History, ChangesAreOfRows
<1> QED
  BY <1>1, <1>2, <1>3

LEMMA ApplyInsertHistory ==
    ASSUME TypeOK, Origins, ~ strayed, History,
           NEW s \in Server, NEW t \in Server, s # t, ApplyInsert(s, t)
    PROVE  History'
<1>0. Pending(s, t) /\ Applied(s, t) /\ UNCHANGED <<log, overtaken>> /\ NextOf(s, t).op = "insert"
  BY DEF ApplyInsert
<1>1. PICK e \in Change : e = NextOf(s, t)
  BY <1>0, ApplyFacts
<1>2. /\ Seen(t)' = Seen(t) \union {e} /\ Seen(t) \subseteq Change
      /\ \A u \in Server : u # t => Seen(u)' = Seen(u)
      /\ ChangesAreOfRows'
  BY <1>0, <1>1, ApplyFacts
<1>3. e.op = "insert" /\ ~ Inserted(Seen(t), e.id)
  BY <1>0, <1>1, PendingIsNew
<1>4. table' = [table EXCEPT ![t] =
          [j \in DOMAIN table[t] \union {e.id} |-> IF j = e.id THEN e.row ELSE table[t][j]]]
  BY <1>1 DEF ApplyInsert
<1>5. table = [u \in Server |-> table[u]]
  BY TypeTable
<1>6. /\ \A u \in Server : u # t => table'[u] = table[u]
      /\ DOMAIN table'[t] = DOMAIN table[t] \union {e.id}
      /\ table'[t][e.id] = e.row
      /\ \A j \in DOMAIN table[t] : j # e.id => table'[t][j] = table[t][j]
  BY <1>4, <1>5
<1>a. Has(t, e.id)' /\ table'[t][e.id] = e.row
  BY <1>6 DEF Has
<1>7. Follows(t, e.id) => Follows(t, e.id)'
  BY <1>2, <1>3, <1>a, InsertFollows
<1>8. \A j : j # e.id => /\ Has(t, j)' <=> Has(t, j)
                         /\ Has(t, j) => table'[t][j] = table[t][j]
  BY <1>6 DEF Has
<1>9. TablesFollow'
  <2>1. TablesFollow /\ overtaken \subseteq overtaken'
    BY <1>0 DEF History
  <2>2. \A u \in Server : u # t => Seen(u)' = Seen(u) /\ table'[u] = table[u]
    BY <1>2, <1>6
  <2> QED
    BY <1>2, <1>7, <1>8, <2>1, <2>2, TablesStep
<1>10. RowsWereInserted'
  BY <1>2, <1>3, <1>6, RowsInsertedStep DEF History
<1> QED
  BY <1>2, <1>9, <1>10 DEF History

LEMMA ApplyToRowHistory ==
    ASSUME TypeOK, History, NEW s \in Server, NEW t \in Server, s # t, ApplyToRow(s, t)
    PROVE  History'
<1>0. /\ Pending(s, t) /\ Applied(s, t) /\ UNCHANGED <<log, overtaken>>
      /\ NextOf(s, t).op \in {"update", "delete"} /\ Has(t, NextOf(s, t).id)
  BY DEF ApplyToRow
<1>1. PICK e \in Change : e = NextOf(s, t)
  BY <1>0, ApplyFacts
<1>2. /\ Seen(t)' = Seen(t) \union {e} /\ Seen(t) \subseteq Change
      /\ \A u \in Server : u # t => Seen(u)' = Seen(u)
      /\ ChangesAreOfRows'
  BY <1>0, <1>1, ApplyFacts
<1>3. e.op \in {"update", "delete"} /\ Has(t, e.id) /\ e \in Made
  BY <1>0, <1>1, ApplyFacts
<1>4. table = [u \in Server |-> table[u]] /\ IsTable(table[t])
  BY TypeTable
<1>5. ASSUME \A u \in Server : u # t => table'[u] = table[u],
             \A j : j # e.id => /\ Has(t, j)' <=> Has(t, j)
                                /\ Has(t, j) => table'[t][j] = table[t][j],
             DOMAIN table'[t] \subseteq DOMAIN table[t],
             Follows(t, e.id) => Follows(t, e.id)'
      PROVE  History'
  <2>1. TablesFollow'
    BY <1>0, <1>2, <1>5, TablesStep DEF History
  <2>2. RowsWereInserted'
    BY <1>2, <1>5, RowsInsertedStep DEF History
  <2> QED
    BY <1>2, <2>1, <2>2 DEF History
<1>6. CASE e.op = "delete"
  <2>1. table' = [table EXCEPT ![t] = Without(table[t], e.id)]
    BY <1>1, <1>6 DEF ApplyToRow
  <2>2. /\ \A u \in Server : u # t => table'[u] = table[u]
        /\ DOMAIN table'[t] = DOMAIN table[t] \ {e.id}
        /\ \A j \in DOMAIN table[t] : j # e.id => table'[t][j] = table[t][j]
    BY <1>4, <2>1 DEF Without
  <2>3. Follows(t, e.id) => Follows(t, e.id)'
    BY <1>2, <1>3, <1>6, <2>2, DeleteFollows DEF Has
  <2>4. \A j : j # e.id => /\ Has(t, j)' <=> Has(t, j)
                           /\ Has(t, j) => table'[t][j] = table[t][j]
    BY <2>2 DEF Has
  <2> QED
    BY <1>5, <2>2, <2>3, <2>4
<1>7. CASE e.op # "delete"
  <2>1. e.op = "update" /\ e.row \in Row
    BY <1>3, <1>7, ChangeFacts
  <2>2. table[t][e.id] \in Row
    BY <1>3, <1>4 DEF IsTable, Has
  <2>3. PICK w : w = Resolve(table[t][e.id], e.row)
    OBVIOUS
  <2>4. /\ w \in Row /\ (w = e.row \/ (w = table[t][e.id] /\ e.row.date < w.date))
        /\ table[t][e.id].date <= w.date /\ e.row.date <= w.date
    BY <2>1, <2>2, <2>3, ResolveFacts
  <2>5. table' = [table EXCEPT ![t] = [table[t] EXCEPT ![e.id] = w]]
    BY <1>1, <1>7, <2>3 DEF ApplyToRow
  <2>6. /\ \A u \in Server : u # t => table'[u] = table[u]
        /\ DOMAIN table'[t] = DOMAIN table[t]
        /\ table'[t][e.id] = w
        /\ \A j \in DOMAIN table[t] : j # e.id => table'[t][j] = table[t][j]
    BY <1>3, <1>4, <2>5 DEF IsTable, Has
  <2>7. Follows(t, e.id) => Follows(t, e.id)'
    BY <1>2, <1>3, <2>1, <2>2, <2>4, <2>6, UpdateFollows DEF Has
  <2>8. \A j : j # e.id => /\ Has(t, j)' <=> Has(t, j)
                           /\ Has(t, j) => table'[t][j] = table[t][j]
    BY <2>6 DEF Has
  <2> QED
    BY <1>5, <2>6, <2>7, <2>8
<1> QED
  BY <1>6, <1>7

\* A change that finds no row, and overtakes none, is of a row that came and went
LEMMA SkippedWasInserted ==
    ASSUME TypeOK, History, NEW t \in Server, NEW c \in Made, c.id \in Id, ~ Expected(t, c.id)
    PROVE  Inserted(Seen(t), c.id)
<1>1. Inserted(Made, c.id)
  BY DEF History, ChangesAreOfRows
<1>2. CASE c.id \in 1 .. Dump
  BY <1>2 DEF Inserted
<1>3. CASE c.id \notin 1 .. Dump
  <2>1. PICK x \in Made : x.op = "insert" /\ x.id = c.id
    BY <1>1, <1>3 DEF Inserted
  <2>2. PICK u \in Server : \E k \in DOMAIN log[u] : x = log[u][k]
    BY <2>1, MadeIff
  <2>3. PICK k \in DOMAIN log[u] : x = log[u][k]
    BY <2>2
  <2>4. k \in Nat /\ k <= Len(log[u]) /\ Len(log[u]) \in Nat /\ pos[u][t] \in Nat
    BY ElementFacts DEF TypeOK
  <2>5. u = t \/ k <= pos[u][t]
    <3>1. ~ (u # t /\ k \in pos[u][t] + 1 .. Len(log[u]))
      BY <2>1, <2>3 DEF Expected
    <3> QED
      BY <2>4, <3>1
  <2>6. x \in Seen(t)
    BY <2>3, <2>5, SeenIff
  <2> QED
    BY <2>1, <2>6 DEF Inserted
<1> QED
  BY <1>2, <1>3

LEMMA SkipMissingHistory ==
    ASSUME TypeOK, History, NEW s \in Server, NEW t \in Server, s # t, SkipMissing(s, t)
    PROVE  History'
<1>0. /\ Pending(s, t) /\ Applied(s, t) /\ UNCHANGED <<log, table>>
      /\ NextOf(s, t).op \in {"update", "delete"} /\ ~ Has(t, NextOf(s, t).id)
  BY DEF SkipMissing
<1>1. PICK e \in Change : e = NextOf(s, t)
  BY <1>0, ApplyFacts
<1>2. /\ Seen(t)' = Seen(t) \union {e} /\ Seen(t) \subseteq Change
      /\ \A u \in Server : u # t => Seen(u)' = Seen(u)
      /\ ChangesAreOfRows'
  BY <1>0, <1>1, ApplyFacts
<1>3. e.op \in {"update", "delete"} /\ ~ Has(t, e.id) /\ e \in Made
  BY <1>0, <1>1, ApplyFacts
<1>4. overtaken \subseteq overtaken' /\ (Expected(t, e.id) => <<t, e.id>> \in overtaken')
  BY <1>1 DEF SkipMissing
<1>5. \A u \in Server : u # t => table'[u] = table[u]
  BY <1>0
<1>6. \A j : Has(t, j)' <=> Has(t, j)
  BY <1>0 DEF Has
<1>7. <<t, e.id>> \notin overtaken' /\ Follows(t, e.id) => Follows(t, e.id)'
  <2> SUFFICES ASSUME <<t, e.id>> \notin overtaken', Follows(t, e.id)
               PROVE  Follows(t, e.id)'
    OBVIOUS
  <2>1. Inserted(Seen(t), e.id)
    BY <1>3, <1>4, ChangeFacts, SkippedWasInserted
  <2> QED
    BY <1>2, <1>3, <1>6, <2>1, SkipFollows
<1>8. TablesFollow'
  BY <1>0, <1>2, <1>4, <1>5, <1>6, <1>7, TablesStep DEF History
<1>9. RowsWereInserted'
  BY <1>0, <1>2, <1>5, RowsInsertedStep DEF History
<1> QED
  BY <1>2, <1>8, <1>9 DEF History

LEMMA ApplyRelationHistory ==
    ASSUME TypeOK, History, NEW s \in Server, NEW t \in Server, s # t, ApplyRelation(s, t)
    PROVE  History'
<1>0. /\ Pending(s, t) /\ Applied(s, t) /\ UNCHANGED <<log, table, overtaken>>
      /\ NextOf(s, t).op \in {"relate", "separate"}
  BY DEF ApplyRelation
<1>1. PICK e \in Change : e = NextOf(s, t)
  BY <1>0, ApplyFacts
<1>2. /\ Seen(t)' = Seen(t) \union {e}
      /\ \A u \in Server : u # t => Seen(u)' = Seen(u)
      /\ ChangesAreOfRows'
  BY <1>0, <1>1, ApplyFacts
<1>3. e.id \notin Id
  BY <1>0, <1>1, ChangeFacts
<1>4. \A j : Has(t, j)' <=> Has(t, j)
  BY <1>0 DEF Has
<1>5. TablesFollow'
  BY <1>0, <1>2, <1>3, <1>4, TablesStep DEF History
<1>6. RowsWereInserted'
  BY <1>0, <1>2, RowsInsertedStep DEF History
<1> QED
  BY <1>2, <1>5, <1>6 DEF History

LEMMA HistoryStep ==
    ASSUME TypeOK, Origins, ~ strayed => History, [Next]_vars
    PROVE  ~ strayed' => History'
<1> SUFFICES ASSUME ~ strayed' PROVE History'
  OBVIOUS
<1>0. strayed \in BOOLEAN
  BY DEF TypeOK
<1>1. CASE UNCHANGED vars
  <2>1. UNCHANGED <<table, log, pos, overtaken>> /\ ~ strayed
    BY <1>1 DEF vars
  <2> QED
    BY <2>1, SameHistory
<1>2. ASSUME NEW s \in Server, Migrate(s) \/ Restore(s) PROVE History'
  <2>1. UNCHANGED <<table, log, pos, overtaken>> /\ ~ strayed
    BY <1>0, <1>2 DEF Migrate, Restore
  <2> QED
    BY <2>1, SameHistory
<1>3. ASSUME NEW s \in Server, NEW d \in Moments[s], Create(s, d) PROVE History'
  <2>1. ~ strayed
    BY <1>0, <1>3 DEF Create
  <2> QED
    BY <1>3, <2>1, CreateHistory
<1>4. ASSUME NEW s \in Server, NEW d \in Moments[s], NEW i \in DOMAIN table[s],
             NEW date \in {d, table[s][i].date}, Write(s, i, d, date) \/ Unlink(s, i, d)
      PROVE  History'
  <2>1. ~ strayed
    BY <1>4 DEF Write, Unlink
  <2> QED
    BY <1>4, <2>1, WriteHistory, UnlinkHistory
<1>6. ASSUME NEW s \in Server, NEW d \in Moments[s], NEW p \in Pair,
             Relate(s, p, d) \/ Separate(s, p, d)
      PROVE  History'
  <2>1. ~ strayed
    BY <1>6 DEF Relate, Separate
  <2> QED
    BY <1>6, <2>1, RelationHistory
<1>5. ASSUME NEW s \in Server, NEW t \in Server, s # t, Apply(s, t) PROVE History'
  <2>1. ~ strayed
    BY <1>5 DEF Apply, ApplyInsert, ApplyToRow, SkipMissing, ApplyRelation
  <2> QED
    BY <1>5, <2>1, ApplyInsertHistory, ApplyToRowHistory, SkipMissingHistory, ApplyRelationHistory
       DEF Apply
<1> QED
  BY <1>1, <1>2, <1>3, <1>4, <1>5, <1>6 DEF Next

LEMMA HistoryInit == Init => History
<1> SUFFICES ASSUME Init PROVE History
  OBVIOUS
<1>1. \A u \in Server : log[u] = <<>>
  BY DEF Init
<1>2. \A u \in Server : \A k \in DOMAIN log[u] : FALSE
  BY <1>1
<1>3. Made = {}
  BY <1>2, MadeIff
<1>4. \A t \in Server : Seen(t) = {}
  BY <1>2, SeenIff
<1>5. \A t \in Server : DOMAIN table[t] = 1 .. Dump
  BY DEF Init
<1>6. \A t \in Server : \A i \in 1 .. Dump : table[t][i] = Dumped
  BY DEF Init
<1>7. \A i : (Inserted({}, i) <=> i \in 1 .. Dump) /\ ~ Deleted({}, i)
  BY DEF Inserted, Deleted
<1>8. ASSUME NEW t \in Server, NEW i \in Id PROVE Follows(t, i)
  <2>1. Has(t, i) <=> i \in 1 .. Dump
    BY <1>5 DEF Has
  <2>2. i \in 1 .. Dump => Latest(table[t][i], {}, i)
    BY <1>6 DEF Latest
  <2> QED
    BY <1>4, <1>7, <2>1, <2>2 DEF Follows
<1>9. TablesFollow
  BY <1>8 DEF TablesFollow
<1>10. RowsWereInserted
  BY <1>4, <1>5, <1>7 DEF RowsWereInserted
<1> QED
  BY <1>3, <1>9, <1>10 DEF History, ChangesAreOfRows

-----------------------------------------------------------------------------
(* What everyone has seen, everyone has. *)

\* Two rows that are both the last written are one, unless two changes of the
\* row have the same date
LEMMA LatestIsOne ==
    ASSUME TypeOK, NEW i \in Id, ~ Tied(i),
           NEW Q \in SUBSET Made,
           NEW a \in Row, NEW b \in Row, Latest(a, Q, i), Latest(b, Q, i)
    PROVE  a = b
<1> DEFINE Untouched == \A c \in Q : c.id = i => c.op = "delete"
<1>1. CASE Untouched
  BY <1>1 DEF Latest
<1>2. CASE ~ Untouched
  <2>1. PICK c \in Q : c.id = i /\ c.op # "delete" /\ c.row = a
    BY <1>2 DEF Latest
  <2>2. PICK e \in Q : e.id = i /\ e.op # "delete" /\ e.row = b
    BY <1>2 DEF Latest
  <2>3. a.date = b.date
    <3>1. a.date \in Nat /\ b.date \in Nat
      BY DEF Row, Date
    <3>2. a.date <= b.date /\ b.date <= a.date
      BY <2>1, <2>2 DEF Latest
    <3> QED
      BY <3>1, <3>2
  <2>4. PICK u \in Server : \E k \in DOMAIN log[u] : c = log[u][k]
    BY <2>1, MadeIff
  <2>5. PICK v \in Server : \E k \in DOMAIN log[v] : e = log[v][k]
    BY <2>2, MadeIff
  <2> QED
    BY <2>1, <2>2, <2>3, <2>4, <2>5 DEF Tied
<1> QED
  BY <1>1, <1>2

\* The changes of row i among those of Q, which are all that matters to it
Of(Q, i) == {c \in Q : c.id = i}

LEMMA OnlyOf ==
    ASSUME NEW Q, NEW i
    PROVE  /\ Inserted(Q, i) <=> Inserted(Of(Q, i), i)
           /\ Deleted(Q, i) <=> Deleted(Of(Q, i), i)
           /\ \A r : Latest(r, Q, i) <=> Latest(r, Of(Q, i), i)
<1>1. Inserted(Q, i) <=> Inserted(Of(Q, i), i)
  BY DEF Inserted, Of
<1>2. Deleted(Q, i) <=> Deleted(Of(Q, i), i)
  BY DEF Deleted, Of
<1>3. ASSUME NEW r PROVE Latest(r, Q, i) <=> Latest(r, Of(Q, i), i)
  BY DEF Latest, Of
<1> QED
  BY <1>1, <1>2, <1>3

\* A row is what the changes of it that its server has seen make of it: of two
\* servers that have seen the same ones, in whatever orders and whatever else is
\* still on its way to them, either both have it or neither, and if they do it
\* is the same row -- unless two changes of it have the same date, or a
\* change of it came to one of the two before the row (resolve_conflict).
SameChangesSameRow ==
    ~ strayed =>
        \A s, t \in Server : \A i \in Id :
            \/ Tied(i) \/ <<s, i>> \in overtaken \/ <<t, i>> \in overtaken
            \/ Of(Seen(s), i) # Of(Seen(t), i)
            \/ /\ Has(s, i) <=> Has(t, i)
               /\ Has(s, i) => table[s][i] = table[t][i]

LEMMA HistoryGivesSameRow ==
    ASSUME TypeOK, ~ strayed => History PROVE SameChangesSameRow
<1> SUFFICES ASSUME ~ strayed, NEW s \in Server, NEW t \in Server, NEW i \in Id,
                    ~ Tied(i), <<s, i>> \notin overtaken, <<t, i>> \notin overtaken,
                    Of(Seen(s), i) = Of(Seen(t), i)
             PROVE  /\ Has(s, i) <=> Has(t, i)
                    /\ Has(s, i) => table[s][i] = table[t][i]
  BY DEF SameChangesSameRow
<1> DEFINE Q == Of(Seen(s), i)
<1>1. Follows(s, i) /\ Follows(t, i)
  BY DEF History, TablesFollow
<1>2. /\ Has(s, i) <=> Inserted(Q, i) /\ ~ Deleted(Q, i)
      /\ Has(t, i) <=> Inserted(Q, i) /\ ~ Deleted(Q, i)
      /\ Has(s, i) => Latest(table[s][i], Q, i)
      /\ Has(t, i) => Latest(table[t][i], Q, i)
  <2>1. ASSUME NEW u \in Server, Follows(u, i), Of(Seen(u), i) = Q
        PROVE  /\ Has(u, i) <=> Inserted(Q, i) /\ ~ Deleted(Q, i)
               /\ Has(u, i) => Latest(table[u][i], Q, i)
    BY <2>1, OnlyOf DEF Follows
  <2> QED
    BY <1>1, <2>1
<1>3. ASSUME Has(s, i) PROVE table[s][i] = table[t][i]
  <2>1. Has(t, i) /\ Latest(table[s][i], Q, i) /\ Latest(table[t][i], Q, i)
    BY <1>2, <1>3
  <2>2. table[s][i] \in Row /\ table[t][i] \in Row
    BY <1>3, <2>1 DEF TypeOK, Has
  <2>3. Q \in SUBSET Made
    BY SeenFacts DEF Of
  <2> QED
    BY <2>1, <2>2, <2>3, LatestIsOne
<1> QED
  BY <1>2, <1>3

LEMMA HistoryGivesAgreement ==
    ASSUME TypeOK, ~ strayed => History PROVE ServersAgree
<1> SUFFICES ASSUME AllApplied, ~ strayed, NEW s \in Server, NEW t \in Server,
                    NEW i \in DOMAIN table[s] \union DOMAIN table[t],
                    ~ Tied(i), <<s, i>> \notin overtaken, <<t, i>> \notin overtaken
             PROVE  Has(s, i) /\ Has(t, i) /\ table[s][i] = table[t][i]
  BY DEF ServersAgree
<1>1. i \in Id
  BY DEF TypeOK
<1>2. Of(Seen(s), i) = Of(Seen(t), i)
  BY AllSeen
<1>3. SameChangesSameRow
  BY HistoryGivesSameRow
<1> QED
  BY <1>1, <1>2, <1>3 DEF SameChangesSameRow, Has

LEMMA HistoryInvariance == Spec => [](TypeOK /\ Origins /\ (~ strayed => History))
<1> DEFINE IInv == TypeOK /\ Origins /\ (~ strayed => History)
<1>1. Init => IInv
  BY TypeInit, OriginsInit, HistoryInit
<1>2. IInv /\ [Next]_vars => IInv'
  BY TypeStep, OriginsStep, HistoryStep
<1> QED
  BY <1>1, <1>2, PTL DEF Spec

\* The servers converge: what a server makes of a row depends on which changes
\* of it have come, not on the order they came in or on whose log they came from.
THEOREM ConvergenceTheorem == Spec => []SameChangesSameRow
<1>1. TypeOK /\ (~ strayed => History) => SameChangesSameRow
  BY HistoryGivesSameRow
<1> QED
  BY <1>1, HistoryInvariance, PTL

\* When every change was applied everywhere, two servers agree on every row
\* with an id no two changes of which have the same date and no change of which
\* came before it: the trigger keeps the greatest date, whatever the order.
THEOREM AgreementTheorem == Spec => []ServersAgree
<1>1. TypeOK /\ (~ strayed => History) => ServersAgree
  BY HistoryGivesAgreement
<1> QED
  BY <1>1, HistoryInvariance, PTL
=============================================================================
