-------------------------- MODULE AnalyticsStore --------------------------
(***************************************************************************)
(* The store of business-analytics: an inbox of events, the projection of  *)
(* each split session, an error table and a checkpoint, in one SQLite      *)
(* database.                                                               *)
(*                                                                         *)
(* Store.ingest handles one delivery in one transaction under a lock: it   *)
(* validates the message, inserts it into the inbox unless it is there,    *)
(* projects every event of the aggregate whose turn has come, and moves    *)
(* the checkpoint.  `db' is what is on disk and `txn' the transaction in   *)
(* progress, with the database as that transaction sees it.  A crash       *)
(* leaves `db' alone.                                                      *)
(***************************************************************************)
EXTENDS Integers, FiniteSets

CONSTANTS
    Aggregates,    \* sessions, as the events name them
    Participants,  \* participant ids, as the events name them
    EventIds,      \* values of eventId
    Messages,      \* messages that may be delivered
    Offsets,       \* Kafka offsets
    Currencies,    \* ISO codes
    Deadline,      \* deadline_seconds: 120 in the code
    None           \* Python's None

(* A message is what json.loads returns, or garbage (wellFormed = FALSE: a *)
(* message that validate rejects by its shape alone, or one whose Kafka    *)
(* key is not its aggregateId).  `amount' is totalAmount or shareAmount;   *)
(* closedAt equals occurredAt, which validate demands; createdAt and       *)
(* currency are read of a SplitCreated only.                               *)
Message == [id : EventIds, wellFormed : BOOLEAN,
            kind : {"SplitCreated", "ParticipantAdded",
                    "ParticipantAuthorized", "SplitCompleted"},
            agg : Aggregates, version : Nat \ {0}, at : Nat,
            pid : Participants \cup {None}, amount : Nat,
            createdAt : Nat, currency : Currencies]

ASSUME MessagesAssumption ==
    /\ Messages \subseteq Message
    /\ \A m \in Messages :
         m.wellFormed /\ m.kind \in {"ParticipantAdded", "ParticipantAuthorized"}
           => m.pid \in Participants
ASSUME OffsetsAssumption == Offsets \subseteq Nat
ASSUME DeadlineAssumption == Deadline \in Nat
ASSUME NoneAssumption == None \notin Nat

VARIABLES db, txn

vars == <<db, txn>>

-----------------------------------------------------------------------------

\* A value of the dict `participants'; ~added is the key that is not there.
Part == [added : BOOLEAN, share : Nat, authorized : BOOLEAN]

\* The body of a row of `sessions'; version 0 is the row that is not there,
\* and closedAt is set exactly in a COMPLETED one.
Projection == {s \in [version : Nat, status : {"ABSENT", "OPEN", "COMPLETED"},
                      at : Nat, createdAt : Nat, deadline : Nat,
                      closedAt : Nat \cup {None},
                      total : Nat, currency : Currencies \cup {None},
                      parts : [Participants -> Part]] :
                 /\ s.status = "ABSENT" <=> s.version = 0
                 /\ s.status = "COMPLETED" <=> s.closedAt # None}

NoParts == [p \in Participants |->
              [added |-> FALSE, share |-> 0, authorized |-> FALSE]]

Absent == [version |-> 0, status |-> "ABSENT", at |-> 0,
           createdAt |-> 0, deadline |-> 0, closedAt |-> None,
           total |-> 0, currency |-> None, parts |-> NoParts]

Database == [sessions : [Aggregates -> Projection],
             inbox : SUBSET Messages,
             applied : SUBSET Messages,
             errors : SUBSET Messages,
             checkpoint : Nat,
             missing : BOOLEAN]

Transaction == [stage : {"drain", "commit"}, msg : Messages,
                offset : Offsets, db : Database]

TypeOK ==
    /\ db \in Database
    /\ txn \in Transaction \cup {None}

\* What validate still rejects in a well-formed message.
Valid(m) ==
    /\ m.wellFormed
    /\ m.kind = "SplitCreated" => m.version = 1 /\ m.createdAt <= m.at

\* Rows of the inbox that hold the next event of aggregate a.
Turn(d, a) ==
    {m \in d.inbox : m.agg = a /\ m.version = d.sessions[a].version + 1}

\* Mutant: the status of the session is not looked at.
ProjectableAnyStatus(s, m) ==
    IF s.version = 0
    THEN m.kind = "SplitCreated"
    ELSE /\ m.version = s.version + 1
         /\ m.at >= s.at
         /\ \/ m.kind = "ParticipantAdded" /\ ~s.parts[m.pid].added
            \/ m.kind = "ParticipantAuthorized" /\ s.parts[m.pid].added
            \/ m.kind = "SplitCompleted"

\* project(s, m) returns; it raises ValueError otherwise.
Projectable(s, m) ==
    IF s.version = 0
    THEN m.kind = "SplitCreated"
    ELSE /\ m.version = s.version + 1
         /\ s.status # "COMPLETED"
         /\ m.at >= s.at
         /\ \/ m.kind = "ParticipantAdded" /\ ~s.parts[m.pid].added
            \/ m.kind = "ParticipantAuthorized" /\ s.parts[m.pid].added
            \/ m.kind = "SplitCompleted"

\* The participants after event m.
PartsAfter(s, m) ==
    CASE m.kind = "ParticipantAdded" ->
           [s.parts EXCEPT ![m.pid] = [added |-> TRUE, share |-> m.amount,
                                       authorized |-> FALSE]]
      [] m.kind = "ParticipantAuthorized" ->
           [s.parts EXCEPT ![m.pid].authorized = TRUE]
      [] OTHER -> s.parts

\* Mutant: a close sets the status and leaves closedAt as it is.
ProjectedWithoutTime(s, m) ==
    IF s.version = 0
    THEN [version |-> 1, status |-> "OPEN", at |-> m.at,
          createdAt |-> m.createdAt, deadline |-> m.createdAt + Deadline,
          closedAt |-> None, total |-> m.amount, currency |-> m.currency,
          parts |-> NoParts]
    ELSE [s EXCEPT !.version = m.version,
                   !.at = m.at,
                   !.status = IF m.kind = "SplitCompleted"
                              THEN "COMPLETED" ELSE @,
                   !.parts = PartsAfter(s, m)]

\* What project(s, m) returns.
Projected(s, m) ==
    IF s.version = 0
    THEN [version |-> 1, status |-> "OPEN", at |-> m.at,
          createdAt |-> m.createdAt, deadline |-> m.createdAt + Deadline,
          closedAt |-> None, total |-> m.amount, currency |-> m.currency,
          parts |-> NoParts]
    ELSE [s EXCEPT !.version = m.version,
                   !.at = m.at,
                   !.status = IF m.kind = "SplitCompleted"
                              THEN "COMPLETED" ELSE @,
                   !.closedAt = IF m.kind = "SplitCompleted" THEN m.at ELSE @,
                   !.parts = PartsAfter(s, m)]

\* Mutant: the error table is not looked at.
CompleteDespiteErrors(time) ==
    /\ db.applied = db.inbox
    /\ \A a \in Aggregates : db.sessions[a].at <= time
    /\ ~db.missing

\* What publish finds out about the database at the time it is given:
\* whether nothing waits, nothing failed, nothing is of the future and
\* nothing is missing.  (coverageFrom is set and not of the future.)
Complete(time) ==
    /\ db.applied = db.inbox
    /\ db.errors = {}
    /\ \A a \in Aggregates : db.sessions[a].at <= time
    /\ ~db.missing

-----------------------------------------------------------------------------

\* A new database.  A partition without a row in `checkpoints' is read from
\* where the log begins, which is what checkpoint 0 comes to.
Empty ==
    [sessions |-> [a \in Aggregates |-> Absent], inbox |-> {}, applied |-> {},
     errors |-> {}, checkpoint |-> 0, missing |-> FALSE]

Init ==
    /\ db = Empty
    /\ txn = None

\* BEGIN IMMEDIATE, with the database as the first statements leave it.
Begin(m, off, stage, d) ==
    /\ txn = None
    /\ txn' = [stage |-> stage, msg |-> m, offset |-> off, db |-> d]
    /\ UNCHANGED db

\* ValueError before the inbox is touched.
IngestRejected(m, off) ==
    /\ \/ ~Valid(m)
       \/ m \notin db.inbox /\ \E e \in db.inbox :
            e.id = m.id \/ (e.agg = m.agg /\ e.version = m.version)
    /\ Begin(m, off, "commit", [db EXCEPT !.errors = @ \cup {m}])

\* Mutant: a known event is projected again.
IngestDuplicateReapplied(m, off) ==
    /\ Valid(m) /\ m \in db.inbox
    /\ Begin(m, off, "drain",
             IF m.kind = "ParticipantAdded"
             THEN [db EXCEPT !.sessions[m.agg].parts = PartsAfter(db.sessions[m.agg], m)]
             ELSE db)

\* The same event again: it is counted, and the aggregate is drained.
IngestDuplicate(m, off) ==
    /\ Valid(m) /\ m \in db.inbox
    /\ Begin(m, off, "drain", db)

\* Mutant: the version of the aggregate is not looked up.
IngestNewUnchecked(m, off) ==
    /\ Valid(m)
    /\ \A e \in db.inbox : e.id # m.id
    /\ Begin(m, off, "drain", [db EXCEPT !.inbox = @ \cup {m}])

\* An event not seen before, whatever its turn.
IngestNew(m, off) ==
    /\ Valid(m)
    /\ \A e \in db.inbox :
         e.id # m.id /\ ~(e.agg = m.agg /\ e.version = m.version)
    /\ Begin(m, off, "drain", [db EXCEPT !.inbox = @ \cup {m}])

\* Mutant: the row is not marked.
AppliedUnmarked(d, m) ==
    [d EXCEPT !.sessions[m.agg] = Projected(d.sessions[m.agg], m)]

\* The session's row and the mark of the inbox row.
Applied(d, m) ==
    [d EXCEPT !.sessions[m.agg] = Projected(d.sessions[m.agg], m),
              !.applied = @ \cup {m}]

\* Mutant: the loop makes one round only.
DrainApplyOnce ==
    /\ txn # None /\ txn.stage = "drain"
    /\ \E m \in Turn(txn.db, txn.msg.agg) :
         /\ Projectable(txn.db.sessions[m.agg], m)
         /\ txn' = [txn EXCEPT !.stage = "commit", !.db = Applied(txn.db, m)]
    /\ UNCHANGED db

\* One round of the loop of _drain: the next event of the aggregate is there
\* and projects.
DrainApply ==
    /\ txn # None /\ txn.stage = "drain"
    /\ \E m \in Turn(txn.db, txn.msg.agg) :
         /\ Projectable(txn.db.sessions[m.agg], m)
         /\ txn' = [txn EXCEPT !.db = Applied(txn.db, m)]
    /\ UNCHANGED db

\* project raises.  The except clause of ingest is inside the transaction:
\* the inbox row and the rounds already made are kept, and the message at
\* hand, whichever event it was that failed, goes to the error table.
DrainFails ==
    /\ txn # None /\ txn.stage = "drain"
    /\ \E m \in Turn(txn.db, txn.msg.agg) :
         ~Projectable(txn.db.sessions[m.agg], m)
    /\ txn' = [txn EXCEPT !.stage = "commit",
                          !.db.errors = @ \cup {txn.msg}]
    /\ UNCHANGED db

\* The loop ends, and an earlier error of this very message is deleted.
DrainEnds ==
    /\ txn # None /\ txn.stage = "drain"
    /\ Turn(txn.db, txn.msg.agg) = {}
    /\ txn' = [txn EXCEPT !.stage = "commit",
                          !.db.errors = @ \ {txn.msg}]
    /\ UNCHANGED db

\* The checkpoint moves with every delivery, an erroneous one too, never
\* back; then COMMIT.
Commit ==
    /\ txn # None /\ txn.stage = "commit"
    /\ db' = [txn.db EXCEPT !.checkpoint =
                IF @ > txn.offset + 1 THEN @ ELSE txn.offset + 1]
    /\ txn' = None

\* The consumer has learnt that the log no longer holds all it should have
\* read: a transaction of its own.
MarkHistoryMissing ==
    /\ txn = None
    /\ db' = [db EXCEPT !.missing = TRUE]
    /\ UNCHANGED txn

\* Mutant: every statement is committed as it is executed.
CrashAutocommitted ==
    /\ txn # None
    /\ txn' = None
    /\ db' = txn.db

\* The process dies inside the transaction, which SQLite undoes.
Crash ==
    /\ txn # None
    /\ txn' = None
    /\ UNCHANGED db

Next ==
    \/ \E m \in Messages, off \in Offsets :
         IngestRejected(m, off) \/ IngestDuplicate(m, off) \/ IngestNew(m, off)
    \/ DrainApply \/ DrainFails \/ DrainEnds
    \/ Commit
    \/ MarkHistoryMissing
    \/ Crash

Spec == Init /\ [][Next]_vars

-----------------------------------------------------------------------------

Keyed(d) ==
    /\ d.applied \subseteq d.inbox
    /\ \A m, n \in d.inbox :
         m.id = n.id \/ (m.agg = n.agg /\ m.version = n.version) => m = n

Prefix(d) ==
    \A a \in Aggregates :
        {m.version : m \in {n \in d.applied : n.agg = a}}
          = 1..d.sessions[a].version

Reported(d, a) ==
    \A m \in Turn(d, a) :
        /\ ~Projectable(d.sessions[a], m)
        /\ \E e \in d.errors : e.agg = a

Grown(s, t) ==
    /\ s.version <= t.version
    /\ s.status = "COMPLETED" => t = s
    /\ \A p \in Participants : s.parts[p].added =>
         /\ t.parts[p].added
         /\ t.parts[p].share = s.parts[p].share
         /\ s.parts[p].authorized => t.parts[p].authorized

\* No two rows of the inbox share an eventId, or an aggregate and a version;
\* the rows marked applied are of the inbox.
InboxIsKeyed == Keyed(db)

\* Whatever the order of the deliveries, the events applied to a projection
\* are those of versions 1, 2, ... up to its own.
AppliedIsPrefix == Prefix(db)

\* Between transactions nothing that could be projected is left waiting: if
\* the inbox holds the next event of an aggregate, then that event cannot be
\* projected, and an error of the aggregate says so.
WaitingIsReported == \A a \in Aggregates : Reported(db, a)

\* The projection that the events of the inbox define, each in its turn.
Replay(a) ==
    LET next(v) == {m \in db.inbox : m.agg = a /\ m.version = v}
        replay[v \in Nat] ==
          IF v = 0 THEN Absent
          ELSE LET s == replay[v - 1]
               IN  IF /\ s.version = v - 1
                      /\ next(v) # {}
                      /\ Projectable(s, CHOOSE m \in next(v) : TRUE)
                   THEN Projected(s, CHOOSE m \in next(v) : TRUE)
                   ELSE s
    IN  replay[Cardinality(db.inbox)]

\* The projection of an aggregate is what its events give when they are
\* replayed in the order of their versions: neither the order nor the number
\* of their deliveries has left a trace.
ProjectionIsReplay ==
    \A a \in Aggregates : db.sessions[a] = Replay(a)

\* A projection only grows: its version never goes back, a COMPLETED one
\* never changes, and no participant or authorization is lost.
ProjectionOnlyGrows ==
    [][\A a \in Aggregates : Grown(db.sessions[a], db'.sessions[a])]_vars

\* The error rows after one more delivery of m, an event of the inbox.
ErrorsAfter(d, m) ==
    IF Turn(d, m.agg) = {} THEN d.errors \ {m} ELSE d.errors \cup {m}

\* Delivering an event of the inbox again changes no projection, no row of
\* the inbox and no mark, and never takes the checkpoint back.  It deletes an
\* earlier error of the message; but if the aggregate is stuck, the message
\* gets an error row, although nothing is wrong with it: the drain that a
\* duplicate starts comes upon the event that cannot be projected.
RedeliveryOnlyReports ==
    [][txn # None /\ txn.msg \in db.inbox /\ db' # db =>
         /\ db' = [db EXCEPT !.errors = ErrorsAfter(db, txn.msg),
                             !.checkpoint = db'.checkpoint]
         /\ db'.checkpoint >= db.checkpoint]_vars

=============================================================================
