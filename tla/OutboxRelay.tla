---------------------------- MODULE OutboxRelay ----------------------------
(***************************************************************************)
(* The relay of the social-split service: a scheduled job that reads the   *)
(* oldest unpublished outbox rows, sends each to Kafka, waits for its      *)
(* acknowledgement and marks the row, all rows of a tick in one database   *)
(* transaction.                                                            *)
(*                                                                         *)
(* `buffer' is the Kafka producer's: an idempotent producer delivers to    *)
(* the one partition of the topic in the order of the sends.  A record     *)
(* whose acknowledgement came too late for the relay is still in it, and   *)
(* may reach the log after the relay has given the row up as failed.       *)
(***************************************************************************)
EXTENDS Integers, FiniteSets, SequencesExt

CONSTANTS
    Sessions,     \* aggregates whose events the outbox holds
    MaxVersion,   \* bound on the versions of one aggregate
    MaxTime,      \* bound on occurredAt
    BatchSize,    \* rows read by one tick (50 in the code)
    MaxFaults     \* bound on failures and crashes

ASSUME BatchAssumption == BatchSize \in Nat \ {0}
ASSUME BoundsAssumption == MaxVersion \in Nat /\ MaxTime \in Nat /\ MaxFaults \in Nat

VARIABLES
    outbox,     \* stored events
    published,  \* those whose row is marked published
    ticking,    \* a tick's transaction is open
    batch,      \* events the tick has still to handle, the next one first
    marked,     \* events that the open transaction has marked published
    waiting,    \* the relay waits for the acknowledgement of Head(batch)
    buffer,     \* the producer's unsent records, oldest first
    log,        \* the topic's partition
    faults      \* failures so far

vars == <<outbox, published, ticking, batch, marked, waiting, buffer, log, faults>>

Event == [session : Sessions, version : 1..MaxVersion, at : 0..MaxTime]

TypeOK ==
    /\ outbox \subseteq Event
    /\ published \subseteq outbox
    /\ ticking \in BOOLEAN
    /\ batch \in Seq(outbox)
    /\ marked \subseteq outbox
    /\ waiting \in BOOLEAN
    /\ waiting => ticking /\ batch # <<>>
    /\ buffer \in Seq(outbox)
    /\ log \in Seq(outbox)
    /\ faults \in 0..MaxFaults

Init ==
    /\ outbox = {} /\ published = {} /\ marked = {}
    /\ ticking = FALSE /\ waiting = FALSE
    /\ batch = <<>> /\ buffer = <<>> /\ log = <<>>
    /\ faults = 0

-----------------------------------------------------------------------------

\* A request commits the next event of session s.  Times of a session never
\* go back, and two of its events may carry the same one.
StoreEvent(s, at) ==
    LET stored == {e \in outbox : e.session = s}
    IN  /\ Cardinality(stored) < MaxVersion
        /\ \A e \in stored : e.at <= at
        /\ outbox' = outbox \cup
             {[session |-> s, version |-> Cardinality(stored) + 1, at |-> at]}
        /\ UNCHANGED <<published, ticking, batch, marked, waiting, buffer, log,
                       faults>>

Smaller(a, b) == IF a < b THEN a ELSE b

\* Mutant: the newest rows first.
NewestPending ==
    LET pending == outbox \ published
    IN  {q \in UNION {SetToSeqs(S) : S \in
                        kSubset(Smaller(BatchSize, Cardinality(pending)), pending)} :
           /\ \A i, j \in DOMAIN q : i < j => q[i].at >= q[j].at
           /\ \A e \in pending \ ToSet(q) : \A i \in DOMAIN q : e.at <= q[i].at}

\* What findTop50ByPublishedFalseOrderByOccurredAtAsc may return: the rows
\* of one time come in any order.
OldestPending ==
    LET pending == outbox \ published
    IN  {q \in UNION {SetToSeqs(S) : S \in
                        kSubset(Smaller(BatchSize, Cardinality(pending)), pending)} :
           /\ \A i, j \in DOMAIN q : i < j => q[i].at <= q[j].at
           /\ \A e \in pending \ ToSet(q) : \A i \in DOMAIN q : q[i].at <= e.at}

\* Mutant: the job runs at the start only, until rows have been published.
StartTickOnce ==
    /\ ~ticking
    /\ outbox # published /\ published = {}
    /\ batch' \in OldestPending
    /\ ticking' = TRUE
    /\ UNCHANGED <<outbox, published, marked, waiting, buffer, log, faults>>

\* The job runs again a fixed delay after its last run ended, on the one
\* scheduler thread: ticks never overlap.
StartTick ==
    /\ ~ticking
    /\ outbox # published
    /\ batch' \in OldestPending
    /\ ticking' = TRUE
    /\ UNCHANGED <<outbox, published, marked, waiting, buffer, log, faults>>

\* send() puts the record in the producer's buffer; get() waits.
Send ==
    /\ ticking /\ batch # <<>> /\ ~waiting
    /\ buffer' = Append(buffer, Head(batch))
    /\ waiting' = TRUE
    /\ UNCHANGED <<outbox, published, ticking, batch, marked, log, faults>>

\* The broker appends the producer's oldest record.
Deliver ==
    /\ buffer # <<>>
    /\ log' = Append(log, Head(buffer))
    /\ buffer' = Tail(buffer)
    /\ UNCHANGED <<outbox, published, ticking, batch, marked, waiting, faults>>

\* Mutant: send() without get(): the row is marked when the record is
\* buffered.
AcknowledgedUnawaited ==
    /\ waiting
    /\ marked' = marked \cup {Head(batch)}
    /\ batch' = Tail(batch)
    /\ waiting' = FALSE
    /\ UNCHANGED <<outbox, published, ticking, buffer, log, faults>>

\* get() returns: the record was the last in the buffer, so it is in the log
\* once the buffer is empty.
Acknowledged ==
    /\ waiting /\ buffer = <<>>
    /\ marked' = marked \cup {Head(batch)}
    /\ batch' = Tail(batch)
    /\ waiting' = FALSE
    /\ UNCHANGED <<outbox, published, ticking, buffer, log, faults>>

Fault ==
    /\ faults < MaxFaults
    /\ faults' = faults + 1

\* Mutant: the loop goes on as if the acknowledgement were still awaited.
FailedStillWaiting ==
    /\ Fault
    /\ ticking /\ batch # <<>>
    /\ batch' = Tail(batch)
    /\ UNCHANGED <<outbox, published, ticking, marked, waiting, buffer, log>>

\* send() throws before the record is buffered (no metadata within
\* max.block.ms), or get() gives up after 900 ms and leaves the record in the
\* buffer.  The row stays unpublished, and the loop goes on with the next.
Failed ==
    /\ Fault
    /\ ticking /\ batch # <<>>
    /\ batch' = Tail(batch)
    /\ waiting' = FALSE
    /\ UNCHANGED <<outbox, published, ticking, marked, buffer, log>>

\* delivery.timeout.ms ends for a record that the relay no longer awaits:
\* the awaited one, always the youngest, is 900 ms old at most.
Expire ==
    /\ Fault
    /\ buffer # <<>>
    /\ waiting => Len(buffer) > 1
    /\ buffer' = Tail(buffer)
    /\ UNCHANGED <<outbox, published, ticking, batch, marked, waiting, log>>

CommitTick ==
    /\ ticking /\ batch = <<>>
    /\ published' = published \cup marked
    /\ marked' = {}
    /\ ticking' = FALSE
    /\ UNCHANGED <<outbox, batch, waiting, buffer, log, faults>>

EndTick ==
    /\ ticking' = FALSE /\ waiting' = FALSE
    /\ batch' = <<>> /\ marked' = {}
    /\ UNCHANGED <<outbox, published, log>>

\* The database ends the tick's transaction: no row of the tick is marked.
RollbackTick == Fault /\ ticking /\ EndTick /\ UNCHANGED buffer

\* The process dies, with the tick's transaction and the producer's buffer.
Crash == Fault /\ EndTick /\ buffer' = <<>>

Next ==
    \/ \E s \in Sessions, at \in 0..MaxTime : StoreEvent(s, at)
    \/ StartTick \/ Send \/ Deliver \/ Acknowledged \/ CommitTick
    \/ Failed \/ Expire \/ RollbackTick \/ Crash

\* The scheduler runs the job again and again, the loop reaches each row, and
\* a live broker takes what the producer holds.
Fairness ==
    /\ WF_vars(StartTick) /\ WF_vars(Send) /\ WF_vars(Deliver)
    /\ WF_vars(Acknowledged) /\ WF_vars(CommitTick)

Spec == Init /\ [][Next]_vars /\ Fairness

-----------------------------------------------------------------------------

\* No event is lost between the outbox and the topic: a row marked published,
\* or marked by the open transaction, has its record in the log.
PublishedIsInLog == published \cup marked \subseteq ToSet(log)

\* Until something fails, the log holds the events of a session in the order
\* of their versions, those of one time excepted.
QuietLogIsOrdered ==
    faults = 0 =>
        \A i, j \in DOMAIN log :
            i < j /\ log[i].session = log[j].session =>
                log[i].version < log[j].version \/ log[i].at = log[j].at

\* Once the failures end, every stored event is published.
StoredIsPublished ==
    \A s \in Sessions, v \in 1..MaxVersion, at \in 0..MaxTime :
        LET e == [session |-> s, version |-> v, at |-> at]
        IN  e \in outbox ~> e \in published

=============================================================================
