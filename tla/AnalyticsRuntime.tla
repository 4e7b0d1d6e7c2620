------------------------- MODULE AnalyticsRuntime -------------------------
(***************************************************************************)
(* The process of business-analytics: a consumer thread that reads the     *)
(* topic and feeds the store, a clock thread that publishes a snapshot of  *)
(* the store many times a second, and the health record that the first     *)
(* writes and the second copies under a lock of its own.                   *)
(*                                                                         *)
(* The clock thread copies the health and then asks the store to publish:  *)
(* in between the consumer may do anything.  The store's lock keeps a      *)
(* publication out of a transaction, and its snapshot within one.          *)
(***************************************************************************)
EXTENDS Integers, FiniteSets, SequencesExt

CONSTANTS
    Aggregates, Participants, EventIds, Messages,
    Currencies, Deadline, None, \* as in AnalyticsStore
    MaxLog,       \* bound on the records that the topic receives
    MaxBatch,     \* max_records of a poll
    Stale,        \* stale_seconds: 3 in the code
    MaxTime,      \* bound on the clock
    MaxFaults     \* bound on exceptions and crashes

ASSUME BoundsAssumption ==
    /\ MaxLog \in Nat /\ MaxBatch \in Nat \ {0}
    /\ Stale \in Nat /\ MaxTime \in Nat /\ MaxFaults \in Nat

VARIABLES
    db, txn,      \* the store's
    log,          \* every record the topic ever received; record i+1 has offset i
    beginning,    \* the oldest offset that the topic still holds
    pc,           \* what the consumer thread does next
    position,     \* the offset its next poll reads from
    batch,        \* polled records still to be ingested
    ends,         \* the end offset it read last
    health,       \* Runtime.health
    copied,       \* the clock thread's copy of it, None while it waits
    snapshot,     \* the newest row of `snapshots'
    now,
    faults

storeVars == <<db, txn>>
topicVars == <<log, beginning>>
consumerVars == <<pc, position, batch, ends>>
clockVars == <<copied, snapshot>>
vars == <<storeVars, topicVars, consumerVars, health, clockVars, now, faults>>

Offsets == 0..(MaxLog - 1)

Store == INSTANCE AnalyticsStore

ASSUME StoreAssumption ==
    /\ Store!MessagesAssumption /\ Store!OffsetsAssumption
    /\ Store!DeadlineAssumption /\ Store!NoneAssumption

\* `end' is the end offset that the health speaks of: what lag = 0 means.
Health == [connected : BOOLEAN, caughtUp : BOOLEAN,
           lastPoll : Nat \cup {None}, end : Nat]

Snapshot == [quality : {"INCOMPLETO", "ACTUAL", "DESACTUALIZADO"},
             at : Nat, lastPoll : Nat \cup {None}, end : Nat]

TypeOK ==
    /\ Store!TypeOK
    /\ log \in Seq(Messages)
    /\ beginning \in 0..Len(log)
    /\ pc \in {"down", "poll", "fetched", "ingest", "ack", "measure", "report"}
    /\ position \in Nat /\ ends \in Nat
    /\ batch \in Seq(Messages)
    /\ health \in Health
    /\ copied \in Health \cup {None}
    /\ snapshot \in Snapshot
    /\ now \in 0..MaxTime /\ faults \in 0..MaxFaults
    \* a transaction belongs to the record the consumer is at
    /\ txn # None => pc = "ingest" /\ batch # <<>> /\ txn.msg = Head(batch)
    \* the batch is what lies behind the position
    /\ pc # "down" =>
         /\ position \in Len(batch)..Len(log)
         /\ batch = SubSeq(log, position - Len(batch) + 1, position)

Unhealthy == [connected |-> FALSE, caughtUp |-> FALSE, lastPoll |-> None, end |-> 0]

\* Store.publish: what a snapshot made now from health h says of itself.
Fresh(h) ==
    /\ h.connected /\ h.caughtUp
    /\ h.lastPoll # None
    /\ now - h.lastPoll \in 0..Stale

\* A snapshot that is not ACTUAL vouches for nothing, and keeps nothing here.
Provisional(quality) == [quality |-> quality, at |-> 0, lastPoll |-> None, end |-> 0]

SnapshotOf(h) ==
    IF ~Store!Complete(now) THEN Provisional("INCOMPLETO")
    ELSE IF ~Fresh(h) THEN Provisional("DESACTUALIZADO")
    ELSE [quality |-> "ACTUAL", at |-> now, lastPoll |-> h.lastPoll, end |-> h.end]

Init ==
    /\ Store!Init
    /\ log = <<>> /\ beginning = 0
    /\ pc = "down" /\ position = 0 /\ batch = <<>> /\ ends = 0
    /\ health = Unhealthy
    /\ copied = None
    /\ snapshot = Provisional("DESACTUALIZADO")
    /\ now = 0 /\ faults = 0

-----------------------------------------------------------------------------
(* The topic. *)

Produce(m) ==
    /\ Len(log) < MaxLog
    /\ log' = Append(log, m)
    /\ UNCHANGED <<storeVars, beginning, consumerVars, health, clockVars, now, faults>>

\* Retention deletes the oldest record, read or not.
Trim ==
    /\ beginning < Len(log)
    /\ beginning' = beginning + 1
    /\ UNCHANGED <<storeVars, log, consumerVars, health, clockVars, now, faults>>

-----------------------------------------------------------------------------
(* The consumer thread. *)

Larger(a, b) == IF a > b THEN a ELSE b

\* Mutant: the loss is not noted.
ConnectSilently ==
    /\ pc = "down"
    /\ txn = None
    /\ position' = Larger(db.checkpoint, beginning)
    /\ pc' = "poll" /\ batch' = <<>>
    /\ UNCHANGED <<storeVars, topicVars, ends, health, clockVars, now, faults>>

\* A new KafkaConsumer is positioned at the checkpoint of the local database,
\* or where the log now begins if that is later, which loses history.
Connect ==
    /\ pc = "down"
    /\ txn = None
    /\ IF db.checkpoint < beginning THEN Store!MarkHistoryMissing
                                    ELSE UNCHANGED storeVars
    /\ position' = Larger(db.checkpoint, beginning)
    /\ pc' = "poll" /\ batch' = <<>>
    /\ UNCHANGED <<topicVars, ends, health, clockVars, now, faults>>

\* Mutant: the position counts records that did not come.
PollFull ==
    /\ pc = "poll" /\ position >= beginning
    /\ \E n \in 0..MaxBatch :
         /\ position + n <= Len(log)
         /\ batch' = SubSeq(log, position + 1, position + n)
         /\ position' = position + MaxBatch
         /\ pc' = IF n = 0 THEN "measure" ELSE "fetched"
    /\ UNCHANGED <<storeVars, topicVars, ends, health, clockVars, now, faults>>

\* poll() returns what follows the position, at most MaxBatch records, or
\* nothing.  A position that the log has lost raises (see Fail).
Poll ==
    /\ pc = "poll" /\ position >= beginning
    /\ \E n \in 0..MaxBatch :
         /\ position + n <= Len(log)
         /\ batch' = SubSeq(log, position + 1, position + n)
         /\ position' = position + n
         /\ pc' = IF n = 0 THEN "measure" ELSE "fetched"
    /\ UNCHANGED <<storeVars, topicVars, ends, health, clockVars, now, faults>>

\* Records have come: set_health(caught_up=False).
NoteRecords ==
    /\ pc = "fetched"
    /\ health' = [health EXCEPT !.caughtUp = FALSE]
    /\ pc' = "ingest"
    /\ UNCHANGED <<storeVars, topicVars, position, batch, ends, clockVars, now, faults>>

\* store.ingest of the next record, one transaction of the store.
Ingest ==
    /\ pc = "ingest"
    /\ LET m == Head(batch)
           offset == position - Len(batch)
       IN  \/ Store!IngestRejected(m, offset)
           \/ Store!IngestDuplicate(m, offset)
           \/ Store!IngestNew(m, offset)
           \/ Store!DrainApply \/ Store!DrainFails \/ Store!DrainEnds
    /\ UNCHANGED <<topicVars, consumerVars, health, clockVars, now, faults>>

IngestCommit ==
    /\ pc = "ingest"
    /\ Store!Commit
    /\ pc' = "ack"
    /\ UNCHANGED <<topicVars, position, batch, ends, health, clockVars, now, faults>>

\* consumer.commit: Kafka's own record of the offset, which nothing reads.
Ack ==
    /\ pc = "ack"
    /\ batch' = Tail(batch)
    /\ pc' = IF Len(batch) = 1 THEN "measure" ELSE "ingest"
    /\ UNCHANGED <<storeVars, topicVars, position, ends, health, clockVars, now, faults>>

Measure ==
    /\ pc = "measure"
    /\ ends' = Len(log)
    /\ pc' = "report"
    /\ UNCHANGED <<storeVars, topicVars, position, batch, health, clockVars, now, faults>>

\* Mutant: the lag is not looked at.
ReportAnyLag ==
    /\ pc = "report"
    /\ health' = [connected |-> TRUE, caughtUp |-> TRUE, lastPoll |-> now, end |-> ends]
    /\ pc' = "poll" /\ ends' = 0
    /\ UNCHANGED <<storeVars, topicVars, position, batch, clockVars, now, faults>>

\* position > ends is a topic made anew, which this model does not have.
Report ==
    /\ pc = "report"
    /\ health' = [connected |-> TRUE, caughtUp |-> (position >= ends),
                  lastPoll |-> now, end |-> ends]
    /\ pc' = "poll" /\ ends' = 0
    /\ UNCHANGED <<storeVars, topicVars, position, batch, clockVars, now, faults>>

\* What the consumer thread knew is gone.
CloseConsumer ==
    pc' = "down" /\ position' = 0 /\ batch' = <<>> /\ ends' = 0

Fault ==
    /\ faults < MaxFaults
    /\ faults' = faults + 1

\* An exception anywhere in the loop: an open transaction is rolled back, the
\* consumer is closed, and a new one is made after a second.
Fail ==
    /\ pc # "down"
    /\ Fault
    /\ IF txn = None THEN UNCHANGED storeVars ELSE Store!Crash
    /\ CloseConsumer
    /\ health' = [health EXCEPT !.connected = FALSE, !.caughtUp = FALSE]
    /\ UNCHANGED <<topicVars, clockVars, now>>

\* Mutant: the same consumer polls again.
PositionLostRetried ==
    /\ pc = "poll" /\ position < beginning
    /\ UNCHANGED vars

\* poll() raises OffsetOutOfRange: auto_offset_reset is "none".
PositionLost ==
    /\ pc = "poll" /\ position < beginning
    /\ CloseConsumer
    /\ health' = [health EXCEPT !.connected = FALSE, !.caughtUp = FALSE]
    /\ UNCHANGED <<storeVars, topicVars, clockVars, now, faults>>

-----------------------------------------------------------------------------
(* The clock thread, and the process. *)

CopyHealth ==
    /\ copied = None
    /\ copied' = health
    /\ UNCHANGED <<storeVars, topicVars, consumerVars, health, snapshot, now, faults>>

\* Store.publish, with the lock of the store.  The code reads the clock just
\* before it asks for the lock, so that its snapshot is dated no later than
\* this one, and its age, when served, is judged no more kindly.
Publish ==
    /\ copied # None
    /\ txn = None
    /\ snapshot' = SnapshotOf(copied)
    /\ copied' = None
    /\ UNCHANGED <<storeVars, topicVars, consumerVars, health, now, faults>>

\* The process dies and starts again: it publishes once, knowing nothing of
\* the topic, before its threads run.
Restart ==
    /\ Fault
    /\ IF txn = None THEN UNCHANGED storeVars ELSE Store!Crash
    /\ CloseConsumer
    /\ health' = Unhealthy
    /\ copied' = None
    /\ snapshot' = SnapshotOf(Unhealthy)
    /\ UNCHANGED <<topicVars, now>>

Tick ==
    /\ now < MaxTime
    /\ now' = now + 1
    /\ UNCHANGED <<storeVars, topicVars, consumerVars, health, clockVars, faults>>

Consumer ==
    \/ Connect \/ Poll \/ NoteRecords \/ Ingest \/ IngestCommit \/ Ack
    \/ Measure \/ Report \/ PositionLost

Clock == CopyHealth \/ Publish

Next ==
    \/ \E m \in Messages : Produce(m)
    \/ Trim
    \/ Consumer \/ Fail
    \/ Clock \/ Restart
    \/ Tick

\* Both threads run forever, and a poll of a topic that holds something new
\* returns it in the end.
Fairness ==
    /\ WF_vars(Connect) /\ WF_vars(NoteRecords) /\ WF_vars(Ingest)
    /\ WF_vars(IngestCommit) /\ WF_vars(Ack) /\ WF_vars(Measure)
    /\ WF_vars(Report) /\ WF_vars(PositionLost)
    /\ WF_vars(Poll) /\ SF_vars(Poll /\ position' # position)
    /\ WF_vars(CopyHealth) /\ WF_vars(Publish)

Spec == Init /\ [][Next]_vars /\ Fairness

-----------------------------------------------------------------------------
(* The HTTP API. *)

\* Mutant: a snapshot is served as it was made.
ServedValidAsMade == snapshot.quality = "ACTUAL"

\* The `valid' of fresh_view, with which /ready answers 200 and /metrics gives
\* numbers and not NaN: a snapshot that no newer one has replaced in Stale
\* seconds is relabelled DESACTUALIZADO as it is served.
ServedValid == snapshot.quality = "ACTUAL" /\ now - snapshot.at <= Stale

-----------------------------------------------------------------------------

\* A snapshot labelled ACTUAL contains the effect of every event that the
\* topic had received when the consumer last asked it for its end, even if
\* retention has deleted some since or exceptions and restarts came between.
ActualCoversTopic ==
    snapshot.quality = "ACTUAL" =>
        \A i \in 1..snapshot.end : log[i] \in db.applied

\* No record is skipped in silence: whatever lies below the checkpoint is in
\* the inbox or in the error table, unless the store says that history is
\* missing.
SkippedIsAdmitted ==
    db.missing \/ \A i \in 1..db.checkpoint :
                    log[i] \in db.inbox \cup db.errors

\* However long the clock thread or the store's lock may hang, what the API
\* calls valid rests on a poll of no more than 2 * Stale seconds ago: the
\* age of the poll is tested when the snapshot is made and the age of the
\* snapshot when it is served.
ServedActualIsRecent ==
    ServedValid => now - snapshot.lastPoll \in 0..(2 * Stale)

\* Every record that the topic receives is consumed, or the store comes to
\* admit that it was lost.
RecordsAreConsumed ==
    \A i \in 1..MaxLog : Len(log) >= i ~> db.checkpoint >= i \/ db.missing

=============================================================================
