---------------------------- MODULE Replication ----------------------------
(***************************************************************************)
(* The databases of the land server and of the ships, each replicated to   *)
(* every other one (multi_master_setup.py), with the ids of new rows kept  *)
(* apart by the sequences (odoo_db_onship_server_migrate_tool.py).         *)
(*                                                                         *)
(* FOR ALL TABLES: one table of rows with an id stands for the tables of   *)
(* the models, and one set of pairs for the tables of their many2many      *)
(* fields, which have no id, no sequence and no write_date: the pair is    *)
(* the key.  A server's log holds the changes its own users made: `origin  *)
(* = none' keeps it from sending on what it applied.  Every other server   *)
(* subscribes to it and applies it in order; nothing orders the logs of    *)
(* two servers, a link may be down for any time, and an insert whose key   *)
(* is taken stops the link, which is tried again for ever.  PostgreSQL's   *)
(* part (log, subscriptions, sequences) is external: it is modelled from   *)
(* the options the scripts give it.                                        *)
(***************************************************************************)
EXTENDS Integers, Sequences, FiniteSets

CONSTANTS Server,      \* the land server and the ships
          ShipNo,      \* the number migrate_onship_server is given for each
          Padding,     \* SEQUENCE_PADDING
          Dump,        \* the rows every server starts from have ids 1 .. Dump
          DumpDate,    \* the write_date of these rows
          Pair,        \* the rows a many2many table may have
          Moments,     \* bound: the moments at which a server's users write
          NoServer     \* the writer of the rows of the dump

ASSUME NumberAssumption ==
    /\ ShipNo \in [Server -> Nat]
    /\ \A s, t \in Server : ShipNo[s] = ShipNo[t] => s = t
ASSUME PaddingAssumption ==
    /\ Padding \in Nat /\ Dump \in Nat /\ Dump < Padding
    /\ DumpDate \in Nat \ {0}
    /\ Moments \in [Server -> SUBSET {d \in Nat : d > DumpDate}]
    /\ NoServer \notin Server
    /\ Pair \cap Nat = {}

VARIABLES
    table,      \* table[s]: the rows of server s, by id
    pairs,      \* pairs[s]: the rows of its many2many table
    log,        \* log[s]: what the users of s changed
    pos,        \* pos[s][t]: how much of the log of s was applied at t
    seq,        \* seq[s]: last_value of the id sequence of s
    backup,     \* backup[s]: what the tool last saved of it
    clock,      \* clock[s]: the moment of the last transaction of s
    ready,      \* history: the servers whose sequence is in their range
    strayed,    \* history: a row was created with a sequence that is not, or a
                \* sequence was set back to before the id of a row it gave
    overtaken   \* history: <<s, i>>: a change of row i came to s before the row

vars == <<table, pairs, log, pos, seq, backup, clock, ready, strayed, overtaken>>

Null == 0
Date == {d \in Nat : d >= DumpDate}
Id == Nat

\* A row is what one transaction left, at its moment of a server's clock, with
\* the write_date it carries
Row == [by : Server \union {NoServer}, at : Nat, date : Date]
Dumped == [by |-> NoServer, at |-> Null, date |-> DumpDate]

Insert(i, r) == [op |-> "insert", id |-> i, row |-> r]
Update(i, r) == [op |-> "update", id |-> i, row |-> r]
Delete(i, r) == [op |-> "delete", id |-> i, row |-> r]
Relation(op, p) == [op |-> op, id |-> p]
Change == [op : {"insert", "update", "delete"}, id : Id, row : Row]
          \union [op : {"relate", "separate"}, id : Pair]

Has(s, i) == i \in DOMAIN table[s]

-----------------------------------------------------------------------------
(* The scripts' rules. *)

\* Mutant: the row that comes last wins
Resolve_LastComes(old, new) == new

\* resolve_conflict, of every update, applied or local
Resolve(old, new) ==
    IF new.date = Null \/ old.date = Null \/ new.date >= old.date THEN new ELSE old

First(s) == ShipNo[s] * Padding
Last(s) == (ShipNo[s] + 1) * Padding - 1

\* Mutants: ranges one too low, from ship number 1; a range is started again on
\* every run; every ship is given the range of the first
Migrated_OneTooLow(s) ==
    IF seq[s] \notin First(s) - Padding .. Last(s) - Padding
    THEN First(s) - Padding ELSE seq[s]
Migrated_EveryRun(s) == IF ShipNo[s] # 0 THEN First(s) ELSE seq[s]
Migrated_OneRange(s) ==
    IF ShipNo[s] # 0 /\ seq[s] \notin Padding .. 2 * Padding - 1 THEN Padding ELSE seq[s]

\* migrate_onship_server; ship number 0 is the land's, which keeps its ids
Migrated(s) ==
    IF ShipNo[s] # 0 /\ seq[s] \notin First(s) .. Last(s) THEN First(s) ELSE seq[s]

-----------------------------------------------------------------------------
\* Every server was restored from one dump.  Only the land's sequence is in
\* the range of its server.
Init ==
    /\ table = [s \in Server |-> [i \in 1 .. Dump |-> Dumped]]
    /\ pairs = [s \in Server |-> {}]
    /\ log = [s \in Server |-> <<>>]
    /\ pos = [s \in Server |-> [t \in Server |-> 0]]
    /\ seq = [s \in Server |-> Dump]
    /\ backup = seq
    /\ clock = [s \in Server |-> 0]
    /\ ready = {s \in Server : ShipNo[s] = 0}
    /\ strayed = FALSE
    /\ overtaken = {}

Publish(s, change) == log' = [log EXCEPT ![s] = Append(@, change)]

\* A transaction of s at moment d of its clock, later than its last one.  The
\* clocks of two servers are not related.
At(s, d) == d > clock[s] /\ clock' = [clock EXCEPT ![s] = d]

\* The tool runs; its last step may fail, which it reports and goes on
Migrate(s) ==
    /\ backup' = [backup EXCEPT ![s] = seq[s]]
    /\ \/ /\ seq' = [seq EXCEPT ![s] = Migrated(s)]
          /\ ready' = ready \union {s}
       \/ UNCHANGED <<seq, ready>>
    /\ UNCHANGED <<table, pairs, log, pos, clock, strayed, overtaken>>

\* restore_sequences, from the file the tool last wrote
Restore(s) ==
    /\ seq' = [seq EXCEPT ![s] = backup[s]]
    /\ ready' = IF backup[s] = seq[s] THEN ready ELSE ready \ {s}
    /\ strayed' = (strayed \/ \E k \in DOMAIN log[s] :
                       log[s][k].op = "insert" /\ backup[s] < log[s][k].id)
    /\ UNCHANGED <<table, pairs, log, pos, backup, clock, overtaken>>

\* The id is taken from the sequence whether the insert succeeds or not.  The
\* bound: no server ever creates Padding rows.
Create(s, d) ==
    LET i == seq[s] + 1
        r == [by |-> s, at |-> d, date |-> d]
    IN /\ i <= Last(s)
       /\ At(s, d)
       /\ seq' = [seq EXCEPT ![s] = i]
       /\ strayed' = (strayed \/ s \notin ready)
       /\ IF Has(s, i)
          THEN UNCHANGED <<table, log>>
          ELSE /\ table' = [table EXCEPT ![s] =
                      [j \in DOMAIN @ \union {i} |-> IF j = i THEN r ELSE @[j]]]
               /\ Publish(s, Insert(i, r))
       /\ UNCHANGED <<pairs, pos, backup, ready, overtaken>>

\* The write of a record dates the row; an update by SQL, such as the one of
\* nextcall by the cron (ir_cron.py:328), leaves the date it has.  The trigger
\* may put the old row back: the update then is one to that row, and is
\* published as such
Write(s, i, d, date) ==
    LET r == Resolve(table[s][i], [by |-> s, at |-> d, date |-> date]) IN
    /\ Has(s, i)
    /\ At(s, d)
    /\ table' = [table EXCEPT ![s][i] = r]
    /\ Publish(s, Update(i, r))
    /\ UNCHANGED <<pairs, pos, seq, backup, ready, strayed, overtaken>>

Without(f, i) == [j \in DOMAIN f \ {i} |-> f[j]]

Unlink(s, i, d) ==
    /\ Has(s, i)
    /\ At(s, d)
    /\ table' = [table EXCEPT ![s] = Without(@, i)]
    /\ Publish(s, Delete(i, table[s][i]))
    /\ UNCHANGED <<pairs, pos, seq, backup, ready, strayed, overtaken>>

\* A record is linked to another or the link is taken away; a link that is
\* there is left alone (ON CONFLICT DO NOTHING)
Relate(s, p, d) ==
    /\ p \notin pairs[s]
    /\ At(s, d)
    /\ pairs' = [pairs EXCEPT ![s] = @ \union {p}]
    /\ Publish(s, Relation("relate", p))
    /\ UNCHANGED <<table, pos, seq, backup, ready, strayed, overtaken>>

Separate(s, p, d) ==
    /\ p \in pairs[s]
    /\ At(s, d)
    /\ pairs' = [pairs EXCEPT ![s] = @ \ {p}]
    /\ Publish(s, Relation("separate", p))
    /\ UNCHANGED <<table, pos, seq, backup, ready, strayed, overtaken>>

Pending(s, t) == pos[s][t] < Len(log[s])
NextOf(s, t) == log[s][pos[s][t] + 1]

\* The insert of row i has yet to come to t from some server
Expected(t, i) ==
    \E s \in Server \ {t} : \E k \in pos[s][t] + 1 .. Len(log[s]) :
        log[s][k].op = "insert" /\ log[s][k].id = i

Applied(s, t) == pos' = [pos EXCEPT ![s][t] = @ + 1]

\* The next change of s is applied at t: an insert of a new row only, the
\* others to the row if t has it
ApplyInsert(s, t) ==
    /\ Pending(s, t)
    /\ LET c == NextOf(s, t) IN
       /\ c.op = "insert"
       /\ ~ Has(t, c.id)
       /\ table' = [table EXCEPT ![t] =
              [j \in DOMAIN @ \union {c.id} |-> IF j = c.id THEN c.row ELSE @[j]]]
    /\ Applied(s, t)
    /\ UNCHANGED <<pairs, log, seq, backup, clock, ready, strayed, overtaken>>

ApplyToRow(s, t) ==
    /\ Pending(s, t)
    /\ LET c == NextOf(s, t) IN
       /\ c.op \in {"update", "delete"}
       /\ Has(t, c.id)
       /\ table' = IF c.op = "delete"
                   THEN [table EXCEPT ![t] = Without(@, c.id)]
                   ELSE [table EXCEPT ![t][c.id] = Resolve(@, c.row)]
    /\ Applied(s, t)
    /\ UNCHANGED <<pairs, log, seq, backup, clock, ready, strayed, overtaken>>

SkipMissing(s, t) ==
    /\ Pending(s, t)
    /\ LET c == NextOf(s, t) IN
       /\ c.op \in {"update", "delete"}
       /\ ~ Has(t, c.id)
       /\ overtaken' = IF Expected(t, c.id) THEN overtaken \union {<<t, c.id>>} ELSE overtaken
    /\ Applied(s, t)
    /\ UNCHANGED <<table, pairs, log, seq, backup, clock, ready, strayed>>

\* A pair the server has itself stops the link until its users take it away
Blocked(s, t) ==
    Pending(s, t) /\ NextOf(s, t).op = "relate" /\ NextOf(s, t).id \in pairs[t]

ApplyRelation(s, t) ==
    /\ Pending(s, t)
    /\ ~ Blocked(s, t)
    /\ LET c == NextOf(s, t) IN
       /\ c.op \in {"relate", "separate"}
       /\ pairs' = [pairs EXCEPT ![t] =
              IF c.op = "relate" THEN @ \union {c.id} ELSE @ \ {c.id}]
    /\ Applied(s, t)
    /\ UNCHANGED <<table, log, seq, backup, clock, ready, strayed, overtaken>>

Apply(s, t) ==
    ApplyInsert(s, t) \/ ApplyToRow(s, t) \/ SkipMissing(s, t) \/ ApplyRelation(s, t)

Next ==
    \/ \E s \in Server :
          \/ Migrate(s) \/ Restore(s)
          \/ \E d \in Moments[s] :
                \/ Create(s, d)
                \/ \E i \in DOMAIN table[s] :
                      \/ \E date \in {d, table[s][i].date} : Write(s, i, d, date)
                      \/ Unlink(s, i, d)
                \/ \E p \in Pair : Relate(s, p, d) \/ Separate(s, p, d)
    \/ \E s, t \in Server : s # t /\ Apply(s, t)

\* The apply workers are started again whenever they stop
Fairness == \A s, t \in Server : s # t => WF_vars(Apply(s, t))

Spec == Init /\ [][Next]_vars /\ Fairness

-----------------------------------------------------------------------------
(* What the servers promise each other. *)

TypeOK ==
    /\ table = [s \in Server |-> [i \in DOMAIN table[s] |-> table[s][i]]]
    /\ \A s \in Server : \A i \in DOMAIN table[s] : i \in Id /\ table[s][i] \in Row
    /\ pairs \in [Server -> SUBSET Pair]
    /\ log \in [Server -> Seq(Change)]
    /\ pos \in [Server -> [Server -> Nat]]
    /\ \A s, t \in Server : pos[s][t] <= Len(log[s])
    /\ seq \in [Server -> Nat]
    /\ backup \in [Server -> Nat]
    /\ clock \in [Server -> Nat]
    /\ ready \subseteq Server
    /\ strayed \in BOOLEAN
    /\ overtaken \subseteq Server \X Id

\* Ids never clash, whatever is created where and in whatever order it comes:
\* the next id of a server is free there, and so is that of a row on its way,
\* unless rows were created with a sequence out of its range
\* (odoo_db_onship_server_migrate_tool.py:295-308).
InsertsNeverClash ==
    ~ strayed =>
        /\ \A s \in ready : ~ Has(s, seq[s] + 1)
        /\ \A s, t \in Server : \A k \in DOMAIN log[s] :
              s # t /\ k > pos[s][t] /\ log[s][k].op = "insert" => ~ Has(t, log[s][k].id)

AllApplied == \A s, t \in Server : s # t => pos[s][t] = Len(log[s])

\* Two changes of row i have the same date: two servers wrote it at the same
\* moment, or one of the updates is by SQL and kept the date
Tied(i) ==
    \E s, t \in Server : \E k \in DOMAIN log[s], l \in DOMAIN log[t] :
        LET c == log[s][k]  d == log[t][l] IN
        c.id = i /\ d.id = i /\ c.row.date = d.row.date /\ c.row # d.row

\* When everything has been applied the servers agree on every row with an id,
\* unless two changes of it have the same date, or a change of it came to a
\* server before the row (multi_master_setup.py:121).
ServersAgree ==
    AllApplied /\ ~ strayed =>
        \A s, t \in Server : \A i \in DOMAIN table[s] \union DOMAIN table[t] :
            Tied(i) \/ <<s, i>> \in overtaken \/ <<t, i>> \in overtaken
            \/ (Has(s, i) /\ Has(t, i) /\ table[s][i] = table[t][i])

\* Every change comes to every server, however long a link is down: only a pair
\* that the receiving server has of its own keeps a link from going on, never
\* the id of a row (multi_master_setup.py:19).  The k-th change of s is of one
\* of its transactions.
EverythingArrives ==
    \A s, t \in Server : \A k \in 1 .. Cardinality(Moments[s]) :
        s # t => []<>(k \in DOMAIN log[s] => k <= pos[s][t] \/ Blocked(s, t) \/ strayed)

=============================================================================
