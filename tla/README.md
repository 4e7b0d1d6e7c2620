# BankPulse in TLA+

BankPulse is a teaching bank of small services.  Its core is one chain: a
*social split* (a bill shared by several members) is kept by
`social-split-api`, announced through a transactional outbox and Kafka,
projected by `business-analytics` into KPI snapshots, and carried by
`grafana-live-adapter` to a Grafana panel.  Beside it stand a shorter chain of
the same kind, `payments-api` with its outbox and `audit-api`, and the seat holds
of `events-api` in Redis.

These modules model them handler by handler, and check and prove what a
test would hardly reach: overlapping transactions, crashes between two steps,
late, duplicated and reordered messages, retention that overtakes its readers,
keys that expire between two commands.

## 1. Inventory

Paths are below `src/services/` unless they say otherwise.

| Component | State | Operations | Talks to | Modelled in |
|---|---|---|---|---|
| social-split service (`social-split-api`: `SocialSplitService`, `SplitSession`, `SplitParticipant`) | `split_sessions`, `split_participants`, `social_split_outbox_events` in Postgres | create, add participant, authorize, close | browser over HTTP; the relay through the outbox table | `SocialSplit` |
| social-split relay (`SocialSplitOutboxRelay`, `SocialSplitKafkaConfiguration`) | the `published` marks, the Kafka producer's buffer | `publishPending` every 100 ms | Redpanda topic `bankpulse.social-split.events.v1` | `OutboxRelay` |
| analytics store (`business-analytics/analytics/store.py`, `domain.py`) | SQLite: `sessions`, `inbox`, `errors`, `checkpoints`, `snapshots`, `metadata` | `ingest`, `mark_history_missing`, `publish`, `updates`, `latest` | called by the runtime and the HTTP API | `AnalyticsStore` (all but `publish`), `AnalyticsKpis` (`calculate`), `AnalyticsRuntime` (the label of `publish`), `LiveAdapter` (revisions, `updates`) |
| analytics runtime (`runtime.py`) | position, `health`, two threads | consume, clock, start | Kafka, the store | `AnalyticsRuntime` |
| analytics HTTP API (`app.py`), replay (`replay.py`) | none | `/ready`, `/snapshot`, `/updates`, `/stream`, `/metrics` | the store | `AnalyticsRuntime` (`fresh_view`), `LiveAdapter` (`/snapshot`, `/updates` as calls) |
| grafana-live-adapter (`adapter.py`) | cursor in memory and in a file, health flags | `cycle`, `publish`, `fail` | analytics HTTP API, Grafana Live | `LiveAdapter` |
| business panel (`src/observability/grafana/plugins/.../module.js`) | newest row shown | render | Grafana Live | `LiveAdapter` (currency and revision filters) |
| payments-api | `payments`, `outbox_events` in MariaDB | create, `publishPending` | audit-api over HTTP | `PaymentAudit` |
| audit-api | `audit_events` in MongoDB | receive | called by payments-api | `PaymentAudit` |
| events-api (`SeatHoldService`) | seat holds with a TTL in Redis | create, release, list | browser | `SeatHold` |
| KPI oracle (`src/tests/kpis/bank_kpis.py`) | none | B-K1, B-K2, B-K3 | the tests | `AnalyticsKpis` |
| experiences-api, travel-benefits-api | one table each | insert, list | browser | no: single inserts, nothing relates two states |
| `src/frontend/app.js`, scripts, compose files | - | - | - | no |

What makes each correct, and hard:

* **social-split service** - versions 1, 2, ... without gap or repetition; a
  close only when participants, shares and authorizations agree; a COMPLETED
  session never changes; the outbox tells the story of the tables.  Hard:
  transactions at READ COMMITTED that load, decide and write back *every column*
  of the row, with no `@Version`.
* **relay** - nothing is marked that was not sent; everything is sent in the end;
  order is kept when nothing fails.  Hard: an acknowledgement that comes after
  the 900 ms the relay waits; a commit of up to 50 marks at once.
* **analytics store** - the projection is a function of the set of events, not
  of their deliveries.  Hard: order, repetition, conflicts, errors in the middle
  of a drain, crashes.
* **analytics runtime** - the label ACTUAL is true.  Hard: two threads, two
  locks, a log that loses its head.
* **adapter and panel** - the cursor never runs ahead of Grafana; the panel
  catches up.  Hard: crashes between push and file, pushes that arrive late,
  revisions that begin again.
* **payments and audit** - one payment per key, one document per event, every
  payment audited.  Hard: check-then-insert in two services, retries.
* **seat holds** - a seat is held once, and the list says by which hold.  Hard: a
  release of two commands, a list of many, and keys that expire in between.
* **indicators** - B-K1 to B-K3 of a projection are what their definition says.
  Hard: windows with one closed end, and two definitions of "closed" and "stale".
* **the chain as a whole** - what analytics shows of a session is what the service
  holds, or is marked as not complete.

The full list of hazards, each with its line and the properties that cover it,
is in `PROJECT.json`.

## 2. Modules

### SocialSplit

State is the three tables (`session`, `participant`, `outbox`), the
transactions in progress (`active`) and the clock.  A service method is two
actions.  `Load...` is `findById` and the domain method on the loaded copy:
its guards are the checks of `SplitSession` (`ensureOpen`, `closeIfAuthorized`),
and it adds one to the copy's version.  `Commit...` is the flush and commit: it
replaces the whole session row by the copy, writes the participant, and stores
the event.  `Rollback` loses the transaction.  `create` is one step because
nobody knows the key before the commit.  A request that the domain rejects
changes nothing and is no action.

The constant `Overlap` says whether requests of one session may overlap in
time.  The code does nothing to prevent it, so `Overlap = TRUE` is the code as
it is; `Overlap = FALSE` is its use by one careful client.

Amounts are counted in tenths of a cent, because the columns (`numeric(38,2)`)
round and the events do not (`Stored`).  Left out: member ids, currency, payment
references beyond their being there.

### OutboxRelay

`StartTick` is the query of `publishPending` (the model keeps `BatchSize` for
50, and lets rows of one time come in any order, as the query does); `Send`,
`Acknowledged` and `Failed` are `send`, `get` and the catch clause for one row;
`CommitTick` commits the marks.  `buffer` is the producer's: the producer is
idempotent and the topic has one partition, so records reach the log in the
order of the sends, but one whose `get` timed out is still there and may arrive
later.  `StoreEvent` stores what a service whose requests of a session do not overlap
would store.  `Expire`, `RollbackTick` and `Crash` are the other failures.  Attempts
and error texts are left out: no decision depends on them.

### AnalyticsStore

`db` is the database on disk; `txn` the transaction in progress with the
database as it sees it.  `IngestRejected`, `IngestDuplicate` and `IngestNew` are
the three ways through `ingest` up to the drain; `DrainApply` is one round of
`_drain`, `DrainFails` the `except` clause, which is *inside* the transaction,
`DrainEnds` the end of the loop; `Commit` moves the checkpoint.  `Projectable` and
`Projected` are `project`, its checks and its result.  A message that `validate`
rejects by shape alone is one with `wellFormed = FALSE`.  An error row is keyed
in the code by the hash of the raw text; here by the message, i.e. a message has
one raw text and one Kafka key.  (In the code a text that came under a wrong key loses its
error row when it comes again under the right one; here these are two messages, and the
error stays.)

### AnalyticsKpis

Extends the store with what is calculated from its projections: `Calculate` is
`calculate` of `domain.py`, and `BK1`, `BK2`, `BK3` are the calculators of the test
oracle `bank_kpis.py`.  Code and oracle choose their sessions by different fields:
`calculate` by status and the deadline stored at creation, the oracle by `closedAt`
and `createdAt`.  `KpisAgree` says that for every projection the deliveries can lead
to, and at every second, they come to the same, by currency.

### AnalyticsRuntime

Composes the store (`INSTANCE AnalyticsStore`, with the variables `db` and `txn`)
with the topic, the consumer thread and the clock thread.  The consumer's program
counter `pc` has one value for each point at which the other thread may see a
difference: created (`Connect`), polled, `caught_up` cleared, each ingest, each
commit to Kafka, end offsets read, health reported.  `Fail` is an exception at
any of them, `Restart` the death of the process.  The clock thread copies the
health (`CopyHealth`) and publishes later (`Publish`), when the store's lock is
free.  `snapshot` keeps of a snapshot its label, its time and what it was based
on.  `Trim` deletes the head of the log, read or not.  `ServedValid` is what
`fresh_view` makes of the snapshot as `/ready` and `/metrics` serve it.

The loop's `position > end` test, which notices a topic made anew, has no effect
here because this topic is never made anew (see section 8).

### LiveAdapter

`GetUpdates`, `GetSnapshot`, `Push`, `PushConfirmed`, `SaveCursor` and `Advance` are
the steps of `cycle` and `publish`; `GetFails`, `PushFails` and `SaveFails` their
failures, with the flag that `fail` clears; `Crash` restarts at the cursor file.
A snapshot is complete in itself, so only its revision is kept.  `wire` holds
pushes that have left the adapter: one given up after the timeout may arrive
after others.  `shown` is the panel's newest revision.  A push has a row for each
currency that the indicators name at the time, and a panel reads the rows of one
currency; the constant `OthersOnly` holds the revisions without a row for it.

### PaymentAudit

`Find` and `Persist` are the two halves of `create`, and other requests may run
in between; the unique key makes the second insert of a key fail.  `StartTick`,
`Post`, `PostAccepted`, `PostFails` and `CommitTick` are `publishPending`; `Exists` and
`Save` are the two halves of `receive`.  A call that the publisher has given up
may go on in audit-api (`calls`).

### SeatHold

One action for each Redis command: `Create` is `SET NX EX`; `ReleaseRead` and
`ReleaseDelete` are the `GET` and the `DEL` of `release`; `ListKeys`, `ListValue` and
`ListTtl` are the `KEYS`, `GET` and `TTL` of `list`.  `Tick` moves the clock and drops the
keys whose time has come.  `given` is what members have been told, which is what a
hold's promise is about; `strayed` records the seats where a release has deleted a
hold that it had not read.  The seats are those of one event.  A seat is the sequence of what
stands between the colons of its `seatId`, because `list` takes the seat from the key, from
behind its last colon (`SeatOfKey`): a row's seat is then the last part only.

### Pipeline and SplitMirror

`Pipeline` joins `SocialSplit`, `OutboxRelay` and `AnalyticsKpis` by what they share: the
outbox is one variable that the requests write and the relay reads; `log` is the
relay's, and the consumer hands its records, through `MessageOf` (the envelope), to the
store at the offset of the checkpoint.  The parts' own actions are used as they are;
none is written again.  Every step of the service, the relay's send, delivery,
acknowledgement and commit, and the reading of a record are interleaved.  The steps
inside the store's transaction, and the relay's steps that only the relay can see, are
not: they touch no variable that another part reads or writes until the step that
ends them, so that any behaviour has an equivalent one in which they are done together.
Those parts' own modules interleave them in full.

`SplitMirror` is the abstract specification: each session has a history, and a view
that is always some element of it, moves only forward, and in the end is the last.
`Pipeline` implements it (`FollowsTheService`, `Mirror == INSTANCE SplitMirror WITH ...`):
`shown` is the projection with its version, `history` what the tables held after each
commit.  That the `v`-th content of the history is shown *as version `v`* is the point
of the refinement: each event stands for one change of the row.  The promise is made
until two requests of one session overlap, since the service then loses updates by
itself; what still holds after that is `CompleteIsTrue`.

### How the modules fit together

`AnalyticsRuntime` contains `AnalyticsStore`, `AnalyticsKpis` extends it, and `Pipeline`
contains `SocialSplit`, `OutboxRelay` and `AnalyticsKpis`.  Where a module stands for
its neighbour by an assumption, the composition or a property of the neighbour backs it:

| Assumption | Backed by |
|---|---|
| `OutboxRelay.StoreEvent`: versions stored in order, times that do not go back | `VersionsAreConsecutive`, `VersionsFollowTime` (no overlap) |
| `AnalyticsStore.MessagesAssumption`: typed messages, which come in any order and any number of times | `StoreIsAnalyticsStore`: the relay delivers no others |
| `Pipeline.Consume`: reads at the checkpoint, skips nothing | `SkippedIsAdmitted`, `RecordsAreConsumed` of `AnalyticsRuntime` |
| `LiveAdapter`: revisions grow, or begin again with the volume | `AUTOINCREMENT` of `snapshots` |

## 3. Runs

`MC*.cfg` gives the bounds; state counts are of distinct states.

| Run | Bounds | States | What it shows |
|---|---|---|---|
| `split_serial` | 1 session, 2 participants, 7 requests, amounts of 1 and 2 cents, clock to 2, no overlap | 218,799 | versions, closes and times agree between tables and outbox; a COMPLETED session is settled, and final |
| `split_reopened` | overlap | violation | a COMPLETED session is OPEN again, and two events have one version |
| `split_cents` | amounts 1.4 and 2.0 cents | violation | shares that add up in the table and not in the events |
| `relay` | 1 session, 3 versions, 2 times, batch of 2, 2 faults | 36,516 | nothing marked unsent, order when quiet, everything published |
| `store` | 11 messages on 2 sessions, unbounded deliveries, a window of 2 seconds and a deadline of 1, every second to 5 | 666,864 | projection = replay of the inbox whatever the deliveries; indicators as the oracle has them |
| `runtime` | 2 messages that share an eventId, log of 2, batch of 2, clock to 1, 1 fault | 272,614 | ACTUAL is true, also as served; every record consumed or admitted lost |
| `live` | 4 revisions, retention 2, 2 per answer, 3 faults, 1 reset, one revision without a row for the panel | 62,496 | cursor file behind Grafana, panel catches up, health recovers |
| `live_currency` | the last revision has no row for the panel | violation | a newly opened panel that is never served |
| `payments` | 3 requests, 2 keys, 2 faults | 175,651 | one payment per key, one document per event, all audited |
| `pipeline` | 1 session, 1 participant, 5 requests that may overlap, batch of 1, 1 fault | 648,365 | the projection follows the service (`SplitMirror`) until requests overlap; complete means whole however they overlap |
| `seats` | 2 seats, of one part and of two, which the list calls the same; 3 holds, 2 releases, a list, TTL 2, clock to 3 | 2,114,640 | one holder for each seat, and a list that names the holds in force, each with the last part of its seat, but for a release that comes too late |
| `seats_stolen` | 1 seat | violation | such a release: two members are given one seat |

Why these bounds are enough to be interesting:

* Seven requests let a session be created, get two participants, both authorized,
  be closed, and be asked for one thing more.  Two amounts suffice for shares that
  add up and shares that do not.  Session and participant keys are a symmetry set:
  no action compares them.
* Three events in batches of two put a failed row behind a later one and a late
  copy behind both; two faults allow a late acknowledgement *and* a crash.
* The eleven messages of `MCAnalyticsStore` are a session's whole life, and for each
  way in which `ingest` and `project` can refuse an event one message that is
  refused.  The deliveries are not bounded at all.  Two seconds of window and
  one of deadline, looked at from each second to the fifth, put both sides of
  both edges of each window into the run.
* In `runtime`, the second message arrives before or after the first and can
  be applied, wait, or be in error.  The staleness bound is 0 there, so that each
  tick passes it; that nothing depends on the bound is proved (section 5).
* Retention of two with four revisions makes the adapter miss revisions; three faults
  put a late push, a crash and a second failure in one behaviour.
* Five requests of one session in `pipeline` are its whole life with one request
  to spare, which is the one that overlaps.  With one event per tick, a failure is
  followed by a retry while later events wait.  Its parts' own runs have the
  larger bounds; what it adds is the order of their steps among each other.
* In `seats` the clock runs one second longer than a hold, so that a seat is held,
  ends, and is held again, and again by a third.  The second seat lets a list go on
  after a key that went away.
* `split_serial` has `Overlap = FALSE`: it says what the service promises one careful client.
  What overlapping requests do is shown by `split_reopened` and, in what is left
  to rely on, by `NoVersionGap` and `CompleteIsTrue` in `pipeline`.

Deadlock is checked in `store`, `runtime` and `live`.  The other instances do stop: their
requests, holds and times are finite, and a service with nothing to do waits.

Each `TypeOK` also holds the relations between control variables that the other
properties rely on (for instance that the batch of the consumer is the part of the
log behind its position, or that a projection has a `closedAt` exactly if it is COMPLETED,
which `calculate` relies on when it compares it with the clock).

### Mutants

Every property of a passing run is paired in `PROJECT.json` with a mutated
definition under which TLC finds it violated: a check forgotten, a step made twice,
an acknowledgement not awaited, a transaction that is none.  The mutated definitions
stand in the modules, each before the definition it mutates, with a comment that
begins "Mutant".  No specification uses them.

## 4. Fairness

* `OutboxRelay`, `PaymentAudit`: weak fairness of the scheduled job (`@Scheduled` with
  a fixed delay runs for ever), of the steps of its loop, and of the broker
  or audit-api taking what a live connection carries.  None of the failures.
  Faults are bounded, which makes the liveness properties read "once failures end".
* `AnalyticsRuntime`: weak fairness of each step of both loops (`while not
  stop.is_set()`).  `Poll` may return nothing although records are there, so it needs
  strong fairness of the poll that returns something: a poll repeated for ever
  against a live broker returns the records in the end.  Strong and not weak, because
  between polls the poll is not enabled.  No fairness of `Produce`, `Trim`,
  `Tick`, `Fail` or `Restart`.
* `LiveAdapter`: weak fairness of the adapter's one loop as a whole (only one of its
  steps is ever enabled), of the arrival of each push that is not lost, and of
  the clock thread that publishes revisions.
* `Pipeline`: weak fairness of the relay's thread and the broker together, and of the
  consumer.  The relay's thread and the broker may share one condition since the
  thread always waits for the record it has sent.  None of the requests.  It is
  what `SplitMirror!KeepsUp` (a view comes to be the last content of its history) is
  implemented by.
* `SocialSplit`, `AnalyticsStore` and `SeatHold` have none: they make no progress of
  their own.

## 5. What is proved

TLAPS checks all of the following for every value of the constants.  Besides the named
`ASSUME`s of the modules (amounts are at least a cent, messages have the type that
`validate` demands, `None` is no number, ...) and, where it is named, `WholeCents`,
nothing is assumed, and no fairness is used.  Each `TypeCorrect` is the module's
`TypeOK`.  Every invariant and every action property of a passing run is stated by
a theorem.

`SocialSplitProofs`
* `NoGap`: for any `Overlap`.  `NoVersionGap` is not
  inductive.  The invariant `GapInv` adds that the version of every session row has
  been announced, and that the version each loaded copy started from has too: a stale
  copy that overwrites the row can set its version back, never beyond what was announced.
* `TablesMatch`: for any `Overlap`.  `TablesInv` adds that a transaction in progress is
  of a session, and of a participant, that exist.
* `SettledWhenCompleted`, `ConsecutiveVersions`, `CompletedForGood`: assuming `Overlap =
  FALSE`.  `TxInv` adds that a session has at most one open transaction, that the copy in
  it is the row as it is now but for the change it makes, and that a copy about to be
  COMPLETED is of a session that is settled.
* `TimesFollowVersions`, `ClosedOnce`: the same assumption.  The time of a close is taken
  before its flush; `TimeInv` says that it is not before the last event stored.
* `LossIsVisible`: for any `Overlap`.  A stale copy that commits can undo an update, but
  not in silence: a session none of whose events share a version (`Distinct`) has the
  row and the participants that its events tell (`Booked`).  `LedgerInv` adds `Queued`: in
  such a session only a copy that is up to date can store the next version, and every
  other copy, on its commit, stores a version that is there already.  `Books` puts
  this together with types, gaps and tables, for the composition.
* `EventsAreNamedOnce`: for any `Overlap`.  An event takes the id of its request, and a
  participant the id that its commit draws, which no event has yet.
* `Apart`, `ApartInv`, `SerialUntilOverlap`, `OrderInv` state the facts of the serial
  service as long as no two requests of one session *have* overlapped, which is
  what the composition needs, where they may.

`OutboxRelayProofs`
* What the relay does is separate from who writes the outbox (`RelayStep`, `Queues`), so
  that its lemmas serve the composition as well.
* `MarkedIsInTopic`.  `WaitInv` adds that the record waited for is the youngest of the
  producer's buffer or in the topic, so that an acknowledgement always speaks of it and
  never of an older one.
* `QuietTopicIsOrdered`.  `StoreInv` says that of a session's events a later version
  has no earlier time; `QuietInv` that, without faults, the topic comes before the rows of the
  tick, and these before the rows no tick has read yet, and that the producer's buffer holds nothing but the
  record waited for.

`AnalyticsStoreProofs`, in layers, each using the one before
* `Typed`: `TypeCorrect`.
* `KeyedInv`: the same facts of the database on disk and of the one inside the
  transaction (`KeyedInbox`, `PrefixApplied`).  Applied events are a prefix
  because `Turn` picks the version after the projection's and inbox keys are unique.
* `ReportInv`: inside a transaction, every other aggregate is reported, and the one
  at hand is or will be by the time the stage is "commit" (`NothingWaitsUnreported`).
* `GrownInv`: the projections inside the transaction have grown from those on disk,
  and a transaction for a message that the inbox already held has not changed them
  (`OnlyGrows`).  This needs `ReportInv`: redelivery leaves the projections alone
  *because* nothing projectable was left waiting.
* `Kept`: a transaction keeps every row of inbox and errors, and has one for its own
  message, and what was applied stays applied.  This is what the runtime needs of the store.
* `RepeatInv`, from both: a transaction for a message that the inbox already held differs
  from what is on disk in the error rows alone, and only once its drain has ended
  (`RedeliveryReports`).  One error may go, that of the message itself; and one may come: the
  drain of a stuck aggregate fails again, and the message at hand, an event that may
  long be applied, is the one that the row names.
* `FaithfulInv`, of the database on disk and of the one in the transaction, says the same thing
  twice, since it is used in two ways.  `Shown`: a projection holds what its applied events say, taken as a set.
  `Traced`: it is the last of a chain of projections that begins with the absent one and in
  which each is `Projected` from the one before by an applied event.
* `ReplayGivesProjection`: `Replay` is a recursive function.  The prover has no induction
  rule to instantiate, and so the induction is made by hand: a set of natural numbers that has 0 and, with
  each number, the next, is all of `Nat` because its complement can have no least
  element (`NatInductive`).  By it the equation of a recursive function has a solution
  (`PrimRec`), without which its definition would say nothing.  Then `Replay` is the
  chain of `Traced` up to the projection's version, and `ReportInv` says that it stops there.
* `IndicatorsAgree`: by `Shown`, status, `closedAt` and the deadline of each projection
  fit together, so that code and oracle sum over the same sessions.  It holds for every
  window and deadline.
* `StoreHolds` collects what the composition needs; `OneProjection` adds that a transaction
  changes no projection but that of its message.

`AnalyticsRuntimeProofs` instantiates `AnalyticsStoreProofs` with the runtime's `db` and
`txn` and uses its lemmas on the store's steps.
* `LoopInv` ties position, batch, transaction and checkpoint to each other.
* `ValidRestsOnRecentPoll`: for every `Stale`.  `RecentInv` says it of the snapshot's age
  when it was made.
* `NothingIsSkippedInSilence`.  `Sync` adds that unless history is missing the checkpoint
  is where the loop is: a consumer that is placed anywhere else has said so first.
* `ActualIsTrue`: for every `Stale`.  `CoverInv` says of the health, and of the copy of it that
  the snapshot thread works with while the loop goes on, that if it says caught up, the
  checkpoint has reached the end it speaks of or history is missing.  `Forward` says why a
  copy stays true: the log, the checkpoint and what is applied only grow.

`LiveAdapterProofs`
* `SavedIsReceived`, `SendsAreNotOld`.  `FramesInv` adds that the frames at hand rise, that none
  is older than the cursor file, and that the one at hand has been received when the
  file is written.

`PaymentAuditProofs`
* `OnePaymentPerKey`, `OneDocumentPerEvent`, `PublishedRowsAreAudited`.  `PostedInv` adds
  that a call that was answered left a document.

`SeatHoldProofs`
* `OneHolder`.  `HoldInv` adds that a key holds what its member was told, and that a
  release under way is of a hold that was given for its seat.
* `RefusedUnlessStrayed`: what `seats_stolen` violates holds as long as no release has
  deleted a hold that it had not read.  That release is the only way to it.
* `ListIsRight`.  `ListInv` says of each hold in force since the list began that its seat is
  still to be read, or has just been read as this hold's, or is in the rows already.  A row's
  seat is what `list` makes of the key, for any `seatId`; `PlainSeatsAreAsGiven`: if no
  `seatId` has a colon, that is the seat its member was given.

`PipelineProofs` instantiates `SocialSplitProofs`, `OutboxRelayProofs` and
`AnalyticsStoreProofs` with the composition's variables.
* `ServiceIsSocialSplit`, `StoreIsAnalyticsStore`: every behaviour of the composition is one of
  `SocialSplit` and one of `AnalyticsStore`.  `NoGap` and `TablesMatch` follow.  The relay's
  instance does not take over as a whole (its `StoreEvent` is a service without overlap):
  `RelayInv` is proved again from its lemmas on `RelayStep`, and gives `MarkedIsInTopic`.
* `ReadIsStored`: `ReadInv` ties the inbox to topic and outbox.  Every record behind the
  checkpoint has a row, every row is the record of a stored event.
* `CompleteIsTrueToTheCent`: the main one, for any `Overlap`.  Complete means that the store has
  applied the whole inbox, which is then, by `RelayInv` and `ReadInv`, the whole outbox.
  Applied events have distinct versions, so the session is `Distinct`, and by `LedgerInv` its row
  is what its events tell; so is the projection, by `Shown`.  `Tells(c, E)` is what both are reduced
  to.  The tables round to cents and the events do not, hence `InCents`.
* `CompleteProjectionIsTrue`, `ClosesAreValid`: the two properties that the run checks, which
  have no rounding, hold under `WholeCents`: every amount a client sends is one that the
  columns keep.  That is a restriction of what clients do and not of the code, and
  the theorem before shows what is left without it; `split_cents` is the counterexample.
  The run's amounts satisfy it.
* `ProjectionsMirror`, under `WholeCents`: `Spec` implies the initial condition and the steps of
  `SplitMirror`, i.e. the safety half of `FollowsTheService`.  `OverlapInv` keeps the serial
  service's facts until two requests overlap; `HistoryInv` says that till then the
  history of a session has one content for each version, which is what the events up to that
  version tell; `FollowInv` that a projection of version `v` is the `v`-th of them.  One lemma
  for each kind of step (`ServeMirrors`, `CommitMirrors`, `NextMirrors`).
* `NoFalseAlarm`: until two requests overlap, the store has no error, whatever the relay
  repeats or sends late.  `OrderedInv` says that of a session's events none speaks of a
  participant before the one that adds it, and `SilentInv` that the event
  whose turn it is can always be projected.
* `CaughtUpIsTrue`: so until then `Complete` is not only true when it is claimed, it *is*
  claimed once all has been published and read.

## 6. Only model-checked

* Liveness (`StoredIsPublished`, `RecordsAreConsumed`, `PanelCatchesUp`,
  `HealthRecovers`, `PaymentsAreAudited`, the `KeepsUp` of `FollowsTheService`) and everything
  that involves `ENABLED`: out of the prover's reach.  Of `FollowsTheService` the rest is
  `ProjectionsMirror`.
* The four properties that the code violates (section 7), of which TLC shows a behaviour.

## 7. Where code and documents disagree

* `split_reopened`: `SplitSession.java:29` and `src/docs/deber-01.md:7` say that a
  COMPLETED session does not change; a stale copy that commits after the close undoes it.
  The same overlap stores two events of one version, where
  `src/docs/TEAM-INTEGRATION.md:22` promises consecutive versions; analytics rejects
  the second for good, and its snapshots are not complete from then on.
* `split_cents`: `src/docs/deber-01.md:7` asks for shares whose *exact* sum is the
  total; amounts with a third decimal are compared after rounding and announced before it.
* `seats_stolen`: `src/docs/TEST-PLAN-V2.1.md:30` promises a 409 while another client
  holds the seat; `release` deletes by a second command what it has not read.
* `live_currency`: `adapter.py:233` calls each full snapshot the bootstrap of newly
  opened panels; it has no row for a panel whose currency the indicators do not
  name, and another currency suffices to take the default row away.

Two smaller ones have no run.  `list` cuts a key at its last colon
(`SeatHoldService.java:32`), while `EventsController.java:18` accepts any `seatId` that is not
blank: the hold of seat "A:1" is listed as one of seat "1", and if both are held, "1" is listed
twice.  The repository's own seats have no colon.  And `src/docs/MISSIONS.md:17` promises the same payment for the same
key; of two overlapping requests the later is answered 500, though a retry after that gets
the payment (`KeyHasOnePayment` says that whatever is answered is it).

## 8. Not modelled, and the plan

Not modelled, and why:

* A topic made anew, or whose number of partitions changes: `src/docs/TEAM-INTEGRATION.md:18`
  says that neither happens, and offsets alone cannot tell two topics apart.
* The alerts' `changedAt`, the adapter's `recoveredGaps`, the ages in its `/health` and in the panel:
  counters and times that no decision depends on.
* The browser page, and what it promises of pairs of calls: it promises nothing in the
  repository's words.
* experiences-api and travel-benefits-api: single inserts and a pure function; no two
  of their states are related.
* The test and acceptance scripts, compose files and dashboards: they drive or configure
  what is modelled here.
* Grafana, Kafka, Redis and the databases are modelled by what the code relies on: an
  atomic commit, unique keys, an ordered log, keys that expire.

What could come next:

1. Abstract specifications of the relay (each stored event is logged at least once)
   and of the payments (each key is paid once and audited once).
2. The runtime in place of the consumer of `Pipeline`, so that `CompleteIsTrueToTheCent`
   and `ActualIsTrue` become one theorem about a served snapshot.
3. Two sessions in `pipeline`, if only for requests that do not overlap.
