# Verification of the ship management system

This directory holds TLA+ models of the program logic in `src/custom-addons`,
of the replication scripts and of the scheduler it all runs under, the TLC
configurations that check them on small instances, and TLAPS proofs of the
theorems that matter most. `PROJECT.json` lists runs, mutants, hazards and
theorems, and maps each definition to the source lines it stands for.

## The system

The repository is an Odoo 16 deployment that runs on ships and on shore. The
framework (`odoo/`, `mod-odoo-core/`) is vendored; of it only the scheduler is
modelled, because reminders, deadlines and plans hang on what it promises. The
program's own code is in the addons and in a few root scripts.

| Component | State it keeps | Operations | What must hold |
|---|---|---|---|
| Approval engine (`utilities/models/approval_*.py`) | the two statuses of a record, which flow is active, the stored group `xml_id`, a reminder cron per record; the levels of each flow | write of a status, propose, unpropose, approve, reject, restart, sudo approve, switch flow, edit flow | nobody but an administrator skips a signature; the stored group and the reminder belong to the current level |
| Maintenance (`ship_management/models/maintenance_scope*.py`, `job_quote.py`, `listen.py`) | a scope, its reports, the job quotes of each report | create, renew, delete, recreate; approve, work on, complete, confirm; dock and undock | reports summarise their quotes; each finished report dates its scope and starts the next; docking freezes work and can end |
| Docking (`docking/models`) | docking plans, surveys, its own reports, quotes, cost reports | as above, and it docks and undocks ship scopes | a ship scope is docking while a docking report is in work |
| Utilization time | hours per equipment and day | create, correct, delete | a scope's hours are the sum of the entries since its last report |
| Quotes requests (material, paint, job suppliers, fuel) | request, quotes, supplier quotes, prices | create supplier quotes, price (portal or form), daily cron, choose the lowest, deliver | a request leaves the pricing level by its last price or by its deadline; the expert is shown the cheapest |
| Material stock | entities with a stored available quantity, assignments (lines), replacements, liquidations | assign, move, start and end use, discard, merge, replace, liquidate | never more is assigned than there is; a part with a life span has one user |
| Approval by all groups (`required_all_approval*.py`) | one vote per group | approve, reject, restart | approved exactly if every group approved |
| Inspection and review plans | plans per company | crons create the next plan | every company gets its plan |
| Paint, fuel, safety legislation, document editor | forms, mostly users of the approval engine | | |
| Supplier portal | tokens, prices | controllers write supplier quotes | prices only while they are asked for |
| Replication (`multi_master_setup.py`, migration tool) | tables of every server's database, sequences | last-writer-wins triggers, sequence ranges per ship | servers agree, ids never collide, no link is stopped by an id |
| Scheduler (`ir_cron`) | jobs, triggers, row locks, rounds of the workers | poll, lock, call, reschedule; trigger; writes by users | a due job is called, once, and no trigger is lost |

Components interact by method calls within one database transaction, by
`listen.py` (a quote calls its report, its job and its suppliers when it is
created, written or deleted), and by inheritance: every record under approval
inherits the engine's `write`, so an approval inside a `write` starts the
callbacks of the record's own `write`. The engine's reminders and the daily jobs
are rows of the scheduler, and all tables are replicated between the servers.
Requests of different users and the cron
workers are concurrent transactions under REPEATABLE READ: two that write the
same row do not both commit (the second fails and is retried on the new state),
two that write different rows do not see each other.

What is hard here: long sequences of legal calls by several users (approval,
confirmation, renewal), derived columns kept by callbacks in nested writes,
configuration edited under live records, overlapping insertions, checks made
only where some row happens to be written (docking, the constraint on reports),
stored quantities that checks rely on, crons that race users, workers that race
each other or are killed between two commits, and servers that write the same
rows out of touch. The hazards are in `PROJECT.json`.

## Modules

| Module | What it is |
|---|---|
| `Approval` | the approval engine |
| `MCApproval`, `Approval_*.cfg` | its instances |
| `Ladder` | what a sign-off promises, abstractly; `Approval` implements it |
| `Approval_proofs` | its theorems, with the refinement |
| `Maintenance` | one maintenance scope with reports, quotes, and docking |
| `MCMaintenance`, `Maintenance_*.cfg` | its instances |
| `Maintenance_proofs` | its theorems |
| `Extremes` | a least and a greatest element, for the proofs of two modules |
| `QuotesRequest` | requests for materials, prices, the daily cron |
| `MaterialStock` | entities, assignments, the stored available quantity |
| `Replication` | the servers' tables, logs and sequences |
| `Cron` | the scheduler of jobs |
| `Roster` | what a scheduler promises, abstractly; `Cron` implements it |
| `MC...`, `....cfg`, `..._proofs` | instance and theorems of `QuotesRequest`, `MaterialStock`, `Replication` and `Cron` |

Definitions whose name has an underscore and whose comment starts with "Mutant"
are wrong on purpose: each is a plausible bug that one of the properties finds
when it takes the place of the definition after it.

### Approval

A record has a status in each of two flows, and one of them is active
(`secondary`). `WriteStatus` is the engine's `write`: every record of the
recordset is validated (`ValidMove`) and the user's group compared with the
stored one (`MayAct`) before anything is stored; then `StoreStatus` stores
status, recomputes `permitted` (the column `xml_id`) and creates, rewrites or
removes the reminder cron. The loop over the recordset returns at the first
record that is off, and so does the model (`Notified`). Buttons (`Propose`,
`Unpropose`, `Approve`, `Reject`) compute a value and call the same write;
`RestartFlow`, `SudoApprove`, `GetApprovalStatus` (the last two are a `Decide`)
and `SwitchTo` write with the checks bypassed.
`EditFlow` is the administrator saving other levels: no record is touched, so
a status may have no place in its flow afterwards, and a decided record of a
one-level flow is reopened to a null status (`NoStatus`), whose group is
`EMPTY`.

The status may also be written as null, at any level and by anyone who may act
there: the field is not required and the validation only looks at values of the
selection. After that nothing is validated, because the old status is in no
flow. But the stored group is then `EMPTY`, which has no members, so that
only an administrator can write the record again: he may decide it at once
(`overridden`).

History variables: `signed` collects the levels acted on by one of their group
(or an administrator) on the way up and drops those that are undone; `bypassed`
`reflowed` and `overridden` say that the history no longer means anything, since
checks were bypassed, the flow was edited or an administrator wrote over a null
status, until the flow is restarted. Otherwise the record is `Trusted`.

`Ladder` is the engine as the documents that use it see it: a document climbs
its levels one at a time, each level it climbs past endorses it, and coming
down voids endorsements. `Approval` implements it under a refinement mapping
(`Contract`): the levels of the main flow are the rungs, `Height` is how many a
status has been signed past, `signed` are the endorsements, and `Trusted` is
when a record's height means anything. Buttons, edits in the list, erased
statuses (the document comes down to the ground), restarts, overrides, switches
and edits of the flow all map to a step of `Ladder` or to a stutter
(`KeepsContract`).

Properties: `IInv` (types, `PermittedIsCurrent`, `StatusInFlow`, `SignedSoFar`),
`ApprovalIsFullySigned`, `ReminderNeverStale`, `KeepsContract`. `ReminderNeverStale`
says nothing of a record that may have been written together with one that is
off (`MayStop`), since the loop may have stopped there; of the others of a batch
it says that each has the reminder of its new level. `ProposesOneLevelAtATime`
is what a docstring says of the engine, and it is violated: the secondary flow
is not validated.

### Maintenance

One scope. A report has a copy of what its quotes are (`ref` is
`ref_job_state`, `finished` is `finished_at`), which `Recompute` refreshes where
the callbacks of `listen.py` do: both on creation and deletion of a quote, `ref`
on a write of `job_state`, `finished` when a quote is completed. Nothing
listens to the field that moves a quote to another report (`MoveQuote`); the
history variables `staleRef` and `staleDay` hold the reports whose copies are
not up to date for that reason.

`Confirm` is the write of CONFIRMED to one quote or, with
`confirm_all_job_quotes`, to all completed ones of a report. When that leaves all
quotes of the report confirmed, `Finish` dates the scope, and a threshold scope
whose reports are created automatically deletes its unfinished reports and
creates the next (`Renew`). `FinishDocking` is the same for a report of the
docking addon. `Replace` is what all of them, `DeleteReport`, `RecreateQuotes`
and `CommitCreation` do to the rows.

Users create quotes in the form, whose status bar is clickable, and in the
columns of the kanban view, which stand for job states: a quote for the crew is
created in any state of `HandState`, and one created as completed or confirmed
has no day of completion (`premade`, until its state is set). `Datable` is what
becomes of such a quote when it is the last to be confirmed: the scope is dated
with no day, which only the arithmetic of an interval refuses.

A write of a report fails while its scope is docking. The model follows the code
in checking it only where a report is written (`Blocked`): deleting an empty
report, moving a quote, or committing a report whose creation began earlier is
possible while docking.

A request is one action. The exception is the creation of a report, which
only inserts rows: `ReadForCreation` is its reading of the scope, and
`CommitCreation` its effect, with any other request in between.

Properties: `TypeOK` (with the foreign key from quotes to reports),
`StateFollowsApproval`, `FinishedWorkIsDated`, `SummaryIsCurrent`,
`ChainContinues`, `DockingFreezes`, `UndockReleases`, `DockingCanBeLifted`.
`FinishedWorkIsDated` is about all quotes that were not created as finished, and
`ChainContinues` about the reports whose day is known. Two
statements that the code makes in its error messages are violated:
`OneUnfinishedReport` and `ConfirmedWasCompleted`.

### QuotesRequest

A request has a level of its approval and a deadline; a quote belongs to a
request or to none, and `price[q]` are its supplier quotes, 0 for a price not
given. `WriteStatus` is the request's `write` of its status, with what it
starts: at SUPPLIER the suppliers of each quote are asked (`Asked`), and at the
expert's second level the cheapest is chosen (`Choices`). It fails while the
reminder job of the request is being executed (`reminding`), which undoes the
whole transaction. Every creation, write and deletion of a supplier quote
proposes the request when no price is missing (`Completes`); an erased status
and decisions with the checks bypassed (`Decide`) are as in `Approval`.

Transactions are REPEATABLE READ, and one that writes a supplier quote writes no
other row unless it completes the request. So two suppliers may answer at
once without seeing each other, and users and the cron may move the request
meanwhile. `Begin` opens such a transaction, with the prices it sees and what it
decides by them (`Txn`); other actions note what it then missed (`Disturbed`)
or make it fail, if they write a row that it writes too (`Collides`): the request,
its own supplier quote, or, when it deletes that, the choice of it. `Commit`
saves it and `Rollback` lets it fail for any other reason. `Answer` is one that
nothing overlaps. The other actions write all rows they read but the prices,
and are taken to be over before an overlapping answer is committed, which is an
order that gives the same rows.

`DailyCron` proposes every request that is due, in one transaction: if one of
them cannot be written, none is, and the day is lost. Paint quotes and
spare parts run the same code and are further quotes. Who may act at a level
is left to `Approval`: some user may. `CronMayAct` says whether the user of the
cron may act for the suppliers' group, since no user is shipped for it. Adding a
supplier quote to a quote without a request fails, as in the code. Quotes of
materials are not removed from a request: the code clears the quote's reference
to it and then asks the reference for its level, which fails. Those of paints
(`Paint`) are. A write of a quote fails while its request is decided or has no
status (`Writable`).

History: `idle` are the requests that are complete at SUPPLIER though no answer
took them on (they came there complete, their quotes were exchanged, or the
last answers did not see each other); `excused` those the cron could not act on;
`touched` the quotes whose prices or choice were changed since the choice, or
while it was made. The selected supplier is informed by mail once, by a flag
that is never reset; this is left out.

Properties: `DeadlineIsKept`, `PricedNeverWaits`, `ExpertChoiceStands`,
`PricesOnlyComplete`. Each says what holds in spite of overlapping transactions
and names what does not: a request may wait fully priced when its last two
answers missed each other, and may go on with a price missing when that was
taken back, or its supplier quote added, by a transaction the last answer missed.

### MaterialStock

An entity is a delivery of some quantity, or one part with a life span; a line
assigns a quantity of it to a job, and for a part also the moments of its use.
`Available` is `_cacl_quantity`, and `Recompute` says when it is stored: a write
of an entity, a line that comes, goes or moves, and, by hand, a write of a line's
moments. `EditLine`, a write of a line's quantity, is not among them: the stored
value is `stale` from then on, and so is the check that reads it. Nor is
`EditLife`, a write of the longest life of parts.

The hours of a part are computed when they are read, are not stored, and do not
depend on the moments of the lines: the cache keeps them until the transaction
ends (`cached`, `Commit`), a line comes or goes, or a row is deleted. A write of
a job quote starts or ends the use of all its lines in one transaction
(`job_quote.py:307`, `599`, `620`), so that the second line of a part is computed
with the hours read at the first, and a part that is worn out may be stored
as available. The hours are read by the computation itself and by the tracking
of the record's fields (`Rewrite`). A batch of
lines is checked before any of them is written (`Assign`). `DeleteEntity` is
`unlink` and `hard_unlink`; `Organize` replaces the entities of one material and
one supplier quote by one with their sum.

Restrictions: one longest life (`life`) stands for those of all parts; moments of
lines on entities without a life span have no effect and are kept as null
(`Kept`); a line moves only between entities of one kind, and an entity stays of
its kind. Organizing parts with a life span only renames
them and is left out, like the flags that suggest or propose a replacement.

History: `stale` (also: the hours were read before the moments were written, or
the longest life was), `loose` (a quantity was rewritten, or a line moved to a
discarded entity), `reopened` (a finished line was reopened, an open one moved,
or one call created two lines on one part): each is a legal call after which
the code gives no guarantee.

Properties: `AvailableIsCurrent`, `NeverOverAssigned`, `OneUserAtATime`,
`OnlyFitIsAssigned`.

### Replication

Each server has a table, the log of what its own users changed, and a sequence.
Every other server applies the log in order; links are independent and may be
down for any time. `Resolve` is the conflict trigger, which fires for local and
applied updates; `Migrated` gives a sequence its server's range; `Migrate` is a
run of the tool, whose last step may fail and is then only printed; `Restore`
sets a sequence back to the value it last saved. `Create`, `Write` and `Unlink`
are what the framework does to rows, with the clock of the server, which is not
related to the others'; an update by SQL, such as the scheduler's, keeps the
date the row has (`Write`). What PostgreSQL does with a change is external: an
insert whose key is taken is retried for ever (`ApplyInsert` is then disabled), a
change of a row that is missing is dropped (`SkipMissing`). One table with its
sequence stands for the tables of the models.

The publication is FOR ALL TABLES, which includes those of many2many fields: these
have no id, no sequence and no date, and their key is the pair. `Relate` and
`Separate` add and remove a pair, `ApplyRelation` applies that elsewhere, and a
pair that two servers added stops the links between them (`Blocked`) until users
of the receiving server take it away. Tables of models with other unique keys
stop a link in the same way and are not modelled.

Properties: `InsertsNeverClash`, `ServersAgree`, `EverythingArrives`. They
promise nothing once a row was created with a sequence that is not in its range
or was set back (`strayed`). `EverythingArrives` says that every change arrives
unless its link is `Blocked`. `ServersAgree` names the two cases in which servers
do diverge: two changes of a row have the same date, since they were written at
the same moment or one kept the date (`Tied`; each server then takes the
other's), or a change overtook the insert of its row over another link. A local
write with a slower clock is silently dropped too, but then everywhere.

### Cron

A worker polls (`Poll`), goes through the jobs it found (`PassOver`,
`Conflict`, `Acquire`), makes the calls of the one it has locked (`CallDone`,
`CallFails`), commits them (`CommitCalls`) and then, in the transaction that
holds the lock, reschedules the job and deletes its triggers (`Reschedule`).
Transactions are snapshots (REPEATABLE READ, set in `sql_db.py`): `can` and `seen`
are what the worker saw, `changed` what was committed since, for which the
database refuses the lock. A call that fails undoes those before it in the same
transaction, and the job is rescheduled all the same. Users write a job
only while no worker holds it (`UserStep`: its nextcall, active, numbercall or
interval); a trigger may be added at any time. `Abort` is a
worker that is killed, for its time limit for instance, or leaves its round by
an exception; `SetChanging` marks modules to be upgraded.

Properties: `OnlyOnce`, which the comment in `_acquire_one_job` promises,
`DueWhenTaken`, `TriggersAreServed`, `CallsAreLimited`, `KeepsRoster`, and the
liveness property `JobsGoOn`. History: `ran` are the jobs whose calls were committed and whose
nextcall was not written yet, `redo` those of them whose worker was lost in
between: they are called again, and `OnlyOnce` exempts exactly them. `limit` and
`called` count from the numbercall that was last given to a job.

`JobsGoOn` says that no job waits for ever (`Waits`) and that each is let go of
again; it does not say that a job stops being due, because one that lasts longer
than its interval is due again at once. An interval of 0, which the code does not
refuse, is left out: the loop of `_process_job` does not end with it.

`Roster` is the scheduler as the rest of the program relies on it: a duty that
is due is taken up by one keeper, performed once, and handed over; a keeper may
be lost, and then nobody knows whether the duty was performed. Snapshots, rounds,
triggers and the two transactions do not occur in it. `Cron` implements it under
the mapping `Promise`: the keeper of a job is the worker that has its lock, a job
is "kept" while it is called and "over" when its calls are committed (`Stage`),
`ran` and `redo` are what was done and what is unsure, and the terms of a job are
its nextcall, numbercall, interval and active, which only `Reschedule` and, of jobs that
nobody keeps, users may change (`KeepsRoster`). `Roster` leaves its Init free in
what is due, and does not promise that a duty is ever taken up: that is `JobsGoOn`.

## Runs

| Run | Bounds | What it shows |
|---|---|---|
| `approval_edited` | 1 record, 3 users (sailor, engineer, admin), 2 groups, flows of 3 or 1 levels and of 2 or 0 | three invariants and the refinement of `Ladder` over every edit of both flows; 3 levels are the fewest in which a level can be skipped, and the first and last share a group |
| `approval_batch` | 2 records written together in both orders, 2 users, one-level flows | permissions and reminders of each record, whichever is off |
| `approval_secondary` | main flow of 1 level, secondary of 3 | counterexample: a user proposes from the first to the third level at once |
| `maintenance_threshold` | 3 reports, 3 quotes, 1 job, days 1 and 2, no overlap, no moves, quotes created in the default state | five properties; 3 quotes let a report of two quotes finish and start its successor, 3 reports let a successor be replaced, and 2 days tell the last day from another |
| `maintenance_overlap` | 3 reports, 2 quotes, 2 open creations, a scope that is not THRESHOLD, quotes created in any state | docking and undocking with several unfinished reports; finished work has its day unless it was created as finished |
| `maintenance_moved` | 2 reports, 2 movable quotes created in any state, 1 open creation, no interval | what moved quotes leave intact |
| `maintenance_unfinished` | 2 reports, 3 quotes created in any state, no overlap | counterexample: renew, complete, renew, recreate the quotes of the completed report |
| `maintenance_kanban` | quotes created in any job state | counterexample: a quote is created CONFIRMED |
| `quotes_request` | 1 request, 2 quotes, of a material with 2 suppliers (prices -1 to 1) and of a paint with 1 (0 or 1), 3 levels, deadlines on day 1, 1 transaction that others overlap, on the second quote | two quotes let one be complete without the other and two suppliers a cheapest one and a tie; the overlapped answer misses answers to the first quote, moves, the cron and the removal of the quote; two days are before and after the deadline |
| `material_stock` | 1 part with a longest life of 1 hour or none, 2 entities without, 2 lines, quantities to 2, moments to 2 | two lines fill, overfill and share an entity; two entities let lines move and be merged; two moments let a part wear out, and end before its start; any number of calls in a transaction |
| `replication` | 3 servers, 1 row of the dump, ranges of 3 ids, 1 pair, the land writes at moment 2, ship 1 at 2 and 3, ship 2 at 3, three changes in all | three servers are the fewest in which a change overtakes an insert over another link; dates before, after and equal, and kept; a pair added on two servers, and taken away |
| `cron` | 2 workers, a job that makes up for missed calls (2 calls at most, interval 1) and one without limit (interval 2), 1 trigger, times 0 and 1, numbercalls -1 and 1 and interval 2 given by users, 1 odd event | two workers race for each job; a job misses more calls than it has left; a trigger comes during the calls it is not answered by; the refinement of `Roster`, of which a worker may be lost or a user write at any point |

All passing runs explore their state space completely (for `replication`, the
states in which nothing strayed, of which alone something is promised, and no more
than three changes were made). Deadlock
is checked except in `replication` and `cron`, whose bounds on moments and on time
end every behaviour. Reports and quotes in `Maintenance`, lines and entities
without a life span in `MaterialStock` are interchangeable, and symmetry is used
on them; the runs with liveness properties use none. Named bounds of the models:
`MaxDay` (guards of `NextDay`), `MaxOverlap` (guard of `ReadForCreation`),
`Movable` (which quotes `MoveQuote` may move), `HandState` (the states quotes are
created in), `JoinsOf` and `PricesOf`, `MaxOpen` and `Overlapped` (the
transactions that others overlap), `MaxQuantity`, `MaxTime` and `Lives` (what may
be entered), `Moments` (when the users of a server write), `Pair`, `MaxTime`,
`TriggerId`, `Triggered`, `Delays`, `Numbers`, `Intervals` and `MaxOdd` of `Cron`,
and the sets of rows, whose ids are reused, so that the number of rows
over time is not bounded. With one request TLC does not show that the daily
cron fails for all due requests together; the theorems cover any set of them.

### Fairness

Users, suppliers and administrators are under no obligation to act. Weak fairness
is assumed of what runs by itself:

* `Replication`: each subscription applies the next change if it can. PostgreSQL
  restarts an apply worker whenever it stops.
* `Cron`: each worker goes on with its round; `cron_thread` polls for ever, and a
  call ends, if only because its time limit kills the worker. Nothing is
  assumed of `Abort`, which `MaxOdd` bounds: a job that is killed every time is
  retried for ever.

## Proofs

`Approval_proofs` proves, for every set of records, users, groups, options and
flows that satisfies the assumptions of `Approval`:

* `TypeInvariance`, `InductiveInvariance`, `PermittedInvariance`,
  `ApprovalInvariance`: `Spec => []TypeOK`, `[]IInv`, `[]PermittedIsCurrent`,
  `[]ApprovalIsFullySigned`;
* `ReminderTheorem`: `Spec => ReminderNeverStale`;
* `ContractTheorem`: `Spec => KeepsContract`, the refinement of `Ladder`: initial
  states map to initial states and each action to a step of `Ladder` or a
  stutter, with `IInv` in hand.

That an approved record is fully signed is not inductive. A signature at a level
counts because the user was in the stored group, which must be the group of that
level (`PermittedIsCurrent`), and EMPTY, of which nobody is, once the status was
erased; the level below must have been signed before
(`SignedSoFar`, which says it for every status and not only for APPROVED); and
APPROVED can only be written from the last level if the status is in the flow at
all, because validation ignores a status it does not find (`StatusInFlow`).
`MainMoveIsSigned` is the heart: a validated move of the main flow keeps
`SignedUpTo`.

`Maintenance_proofs` proves, for every set of reports and quotes, number of
jobs, overlap and kind of scope:

* `RowsTheorem`: `Spec => []RowsOK`, deletions leave no quote behind;
* `ApprovalTheorem`: `Spec => []StateFollowsApproval`;
* `DatedTheorem`: `Spec => []FinishedWorkIsDated`, whatever states users create
  quotes in;
* `DockingTheorem`: `Spec => DockingFreezes`;
* `TypeTheorem` and `SummaryTheorem`: `Spec => []TypeOK`, `[]SummaryIsCurrent`;
* `ChainTheorem`: `Spec => ChainContinues`. Of a scope with an interval this is
  about every report, since a scope cannot be dated with no day; of others about
  those without a quote that was created as finished;
* `UndockTheorem`: `Spec => UndockReleases`;
* `LiftTheorem`: `Spec => DockingCanBeLifted`.

The first four need only `WorkInv == RowsOK /\ StateFollowsApproval`: docking
freezes a quote only because a withdrawal of its approval always changes its
job state, which writes the report, which fails. `ReplaceKeeps` says what
`Replace` does once, and every action that replaces rows cites it.

The others rest on `IInv`, which adds `Summaries`. A summary is the state and
the last day that `RefState` and `FinishDay` choose from the quotes, and what
they choose fits the quotes (`RefStateFits`, `FinishDayFits`; that a last day
exists is `GreatestExists`). `Rewrite` says what the callbacks make of a summary
when some quotes were rewritten, `ReplaceSummaries` when rows were replaced, and
each action is one or both. `SummaryIsCurrent` says nothing of a report that
waits for docking, so it is not enough where docking ends:
`WaitingIsUnfinished`, that such a report has no `finished_at`, is what makes
the one unfinished report the one that waits.

`QuotesRequest_proofs` proves, for every set of requests, quotes, suppliers and
prices, every number of levels and of days: `TypeInvariance`, `DeadlineTheorem`
(`DeadlineIsKept`), `CompletenessTheorem` (`PricedNeverWaits`), `ChoiceTheorem`
(`ExpertChoiceStands`) and `PricesTheorem` (`PricesOnlyComplete`). The
inductive invariant is `IInv`, types and `OpenJudges`: an open transaction that
decided to complete its request still does so by the prices it saw, which are
those there are but for the quotes it missed, and one that decided otherwise and
missed nothing still completes nothing (`OpenInvariance`). The properties follow
one by one from what `Save` does with that. That a cheapest supplier exists is
the one fact about data (`CheapestFacts`); it holds because prices are bounded
below (`LeastPrice`: a float has a least value) and a set of naturals that is not
empty has a least one (`LowestExists` of `Extremes`).

`MaterialStock_proofs` proves, for every finite set of entities and lines and
all bounds: `TypeInvariance`, `CurrentTheorem` (`AvailableIsCurrent`),
`FitTheorem` (`OnlyFitIsAssigned`), `OneUserTheorem` and `OverAssignedTheorem`
(`NeverOverAssigned`). `AvailableIsCurrent` is not inductive: the next
computation may read the hours from the cache. `Current` adds that these are the
hours of the lines unless the entity is `stale`. Each action is
shown to compute an entity (`RecomputeKeeps`), to compute it with the hours of
the cache (`RewriteKeeps`), or to leave alone what it is computed from
(`Untouched`), and the invariants are derived from that.

`Replication_proofs` proves, for every number of servers, ships and rows:
`TypeInvariance`, `ClashTheorem` (`InsertsNeverClash`), `AgreementTheorem`
(`ServersAgree`) and `ConvergenceTheorem` (`SameChangesSameRow`). The strengthening `Origins` says where a row comes from: every
id a server gave is of its own range and given once, and every row of a table is
of the dump, made here, or applied from the server whose range has its id;
ranges are disjoint (`OwnApart`).

`ServersAgree` compares servers only when everything was applied, so it is not
inductive, and the servers reach that point in different orders. `History` says
what a table is at any time in terms of the set of changes its server has seen,
in which the order is gone: it has the rows that were inserted and not deleted,
each with a date no change of it that was seen exceeds, and with the content of
one of them (`Follows`). A row that a change of it overtook is the exception,
for the change is lost. That a delete is final needs that an id is inserted
once (`CreatedIsNew`, `PendingIsNew`), which is `Origins`; that a change which
finds no row is of a deleted one needs that every change is of a row that was
inserted (`SkippedWasInserted`). The greatest date is never constructed, hence no
induction over the logs.

`SameChangesSameRow` is what the servers promise each other while they are out
of touch: two servers that have seen the same changes of a row agree on it, in
whatever orders the changes came and whatever is still on its way. It
follows from `History`, because only the changes of a row matter to it
(`OnlyOf`) and the last of them has one content unless two have that date
(`LatestIsOne`). `ServersAgree` is the case in which every server has seen
every change (`AllSeen`).

`Cron_proofs` proves, for every set of workers and jobs, all intervals and limits:
`TypeInvariance`, `LimitTheorem` (`CallsAreLimited`), `OnlyOnceTheorem`,
`DueTheorem` (`DueWhenTaken`), `ServedTheorem` (`TriggersAreServed`),
`RosterTheorem` (`KeepsRoster`) and `PutOffTheorem` (`PutOff`). The inductive invariant is `IInv`: a worker in a job has its lock (`Locked`), what a
worker saw and what is not reported as changed is still so (`Fresh`), the row of
a locked job and the triggers its worker will delete stay (`Kept`), and committed
calls wait for a worker that still holds the job (`Once`).

The refinement needs two facts more, which `IInv` has for it. A lock is held by a
worker that processes that very job (`Taken`, the converse of `Locked`), so that
the stage of a job is changed by nobody but its worker, and no worker has two
jobs. And a job that is locked is due (`StillDue`): users are refused its row,
triggers are deleted only by the worker that answers them, and time goes on.
`RosterStep` then maps every action to a step of `Roster` for each job: those
before the lock and the single calls are stutters, `Acquire` takes up,
`CommitCalls` finishes, `Reschedule` hands over and `Abort` loses.

`PutOff` says what the loop of `_process_job` computes: a job is put off to the
first of its moments after the one it was taken at (not after the one its calls
ended at, so that a long job may be due again at once), and a job that was called
for a trigger before it was due keeps its nextcall. In the model the loop is a
division (`Missed`), of which `DivFacts` and `MissedFacts` give the bounds.

Every safety and action property of a passing run is thus a theorem, from the
`ASSUME`s of its module alone. Only model-checked: the liveness properties
`EverythingArrives` and `JobsGoOn`, because fairness is defined with `ENABLED`,
which is out of TLAPS's reach. The properties of the three runs that expect a
violation do not hold, so there is nothing to prove of them.

## Not modelled

Mail, chat and portal pages, exports, translations, views, third-party addons,
the framework and the deployment files: they have no protocol of their own or
are the environment. Within `Maintenance`: expected dates, ribbons, progress,
materials and paints of a quote, and supplier prices; who may confirm, and that
materials must have dates, only forbid steps. `finished_at` of a quote
is read only in the client (its `readonly` is a function, which is never false)
and is written by completion alone; a user may edit the scope's
`last_maintenance_date` by hand, which no modelled step reads. In `Dock` and `Undock`
the code takes the first unfinished report; the model takes any. A scope
without jobs is left out (`JobCount` is positive).

Whole components are left out: utilization time, quotes of job suppliers, paint,
approval by all groups, inspection and review plans, the docking addon's own
documents, safety legislation, fuel and the document editor. They are users of
the engine, of the pricing scheme or of the scheduler that are modelled,
or keep a single sum. Within the modelled ones: mails (with the five-minute mail
job), deliveries of a request into stock, replacement and liquidation of
materials, the order of jobs by priority, time zones, the collection of old
triggers, and the removal of the replication. `PROJECT.json` says of each component
what of it is missing.

Behaviour of the code that no property states, because nothing in the repository
says what should happen, is in the hazards with a note: a second round of a
finished quote, a quote added while suppliers are being asked, the default moment
at which use ends, the limit of a job below -1.

## Plan

Written, in this order: `Approval`, `Maintenance`, `Ladder` with its
refinement, `QuotesRequest`, `MaterialStock`, `Replication`, `Cron`, `Roster` with
its refinement, each with its proofs.

What would add most now, in this order:

1. `Docking`: reports of the docking addon with their approval, composed with
   the ship scope; two docking reports for one scope, one of which ends first.
2. `UtilizationTime`: hours per scope against the sum of the entries.
3. `AllGroupsApproval`: votes of all groups, and the abstract decision that it
   and `Ladder` share.
4. `PlanCrons`: inspection and review plans per company, as jobs of `Cron`.
5. Replacement and liquidation in `MaterialStock`; deliveries that take the
   quotes of a request into stock, composing it with `QuotesRequest`.
