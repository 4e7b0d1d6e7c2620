---------------------- MODULE AnalyticsRuntimeProofs ----------------------
(* Theorems about AnalyticsRuntime, for any topic, messages and bounds.  The *)
(* store's part is taken from the theorems about AnalyticsStore.             *)
EXTENDS AnalyticsRuntime, SequenceTheorems, TLAPS

(* The runtime does not look into the indicators, whose window may be any.   *)
StoreTheorems == INSTANCE AnalyticsStoreProofs WITH Window <- 0, MaxNow <- 0

USE BoundsAssumption

LEMMA StoreAssumptions ==
    /\ StoreTheorems!MessagesAssumption /\ StoreTheorems!OffsetsAssumption
    /\ StoreTheorems!DeadlineAssumption /\ StoreTheorems!NoneAssumption
    /\ StoreTheorems!WindowAssumption
BY StoreAssumption
   DEF Store!MessagesAssumption, StoreTheorems!MessagesAssumption, Store!Message,
       StoreTheorems!Message, Store!OffsetsAssumption, StoreTheorems!OffsetsAssumption,
       Store!DeadlineAssumption, StoreTheorems!DeadlineAssumption,
       Store!NoneAssumption, StoreTheorems!NoneAssumption,
       StoreTheorems!WindowAssumption

(* The actions here are those that the theorems are about. *)
LEMMA SameActions ==
    ASSUME NEW m, NEW off
    PROVE  /\ Store!IngestRejected(m, off) <=> StoreTheorems!IngestRejected(m, off)
           /\ Store!IngestDuplicate(m, off) <=> StoreTheorems!IngestDuplicate(m, off)
           /\ Store!IngestNew(m, off) <=> StoreTheorems!IngestNew(m, off)
           /\ Store!DrainApply <=> StoreTheorems!DrainApply
           /\ Store!DrainFails <=> StoreTheorems!DrainFails
           /\ Store!DrainEnds <=> StoreTheorems!DrainEnds
           /\ Store!Commit <=> StoreTheorems!Commit
           /\ Store!MarkHistoryMissing <=> StoreTheorems!MarkHistoryMissing
           /\ Store!Crash <=> StoreTheorems!Crash
<1>1. Store!IngestRejected(m, off) <=> StoreTheorems!IngestRejected(m, off)
  BY DEF Store!IngestRejected, StoreTheorems!IngestRejected, Store!Begin,
     StoreTheorems!Begin, Store!Valid, StoreTheorems!Valid
<1>2. Store!IngestDuplicate(m, off) <=> StoreTheorems!IngestDuplicate(m, off)
  BY DEF Store!IngestDuplicate, StoreTheorems!IngestDuplicate, Store!Begin,
     StoreTheorems!Begin, Store!Valid, StoreTheorems!Valid
<1>3. Store!IngestNew(m, off) <=> StoreTheorems!IngestNew(m, off)
  BY DEF Store!IngestNew, StoreTheorems!IngestNew, Store!Begin,
     StoreTheorems!Begin, Store!Valid, StoreTheorems!Valid
<1>4. Store!DrainApply <=> StoreTheorems!DrainApply
  BY DEF Store!DrainApply, StoreTheorems!DrainApply, Store!Turn, StoreTheorems!Turn,
     Store!Projectable, StoreTheorems!Projectable, Store!Applied, StoreTheorems!Applied,
     Store!Projected, StoreTheorems!Projected, Store!PartsAfter,
     StoreTheorems!PartsAfter, Store!NoParts, StoreTheorems!NoParts
<1>5. Store!DrainFails <=> StoreTheorems!DrainFails
  BY DEF Store!DrainFails, StoreTheorems!DrainFails, Store!Turn, StoreTheorems!Turn,
     Store!Projectable, StoreTheorems!Projectable
<1>6. Store!DrainEnds <=> StoreTheorems!DrainEnds
  BY DEF Store!DrainEnds, StoreTheorems!DrainEnds, Store!Turn, StoreTheorems!Turn
<1>7. /\ Store!Commit <=> StoreTheorems!Commit
      /\ Store!MarkHistoryMissing <=> StoreTheorems!MarkHistoryMissing
      /\ Store!Crash <=> StoreTheorems!Crash
  BY DEF Store!Commit, StoreTheorems!Commit, Store!MarkHistoryMissing,
     StoreTheorems!MarkHistoryMissing, Store!Crash, StoreTheorems!Crash
<1> QED BY <1>1, <1>2, <1>3, <1>4, <1>5, <1>6, <1>7

(* So are the types, and the initial state. *)
LEMMA SameTypes ==
    /\ StoreTheorems!TypeOK <=> Store!TypeOK
    /\ StoreTheorems!Init <=> Store!Init
<1>1. StoreTheorems!TypeOK <=> Store!TypeOK
  BY DEF StoreTheorems!TypeOK, Store!TypeOK, StoreTheorems!Database, Store!Database,
     StoreTheorems!Transaction, Store!Transaction, StoreTheorems!Projection,
     Store!Projection, StoreTheorems!Part, Store!Part
<1>2. StoreTheorems!Init <=> Store!Init
  BY DEF StoreTheorems!Init, Store!Init, StoreTheorems!Empty, Store!Empty,
     StoreTheorems!Absent, Store!Absent, StoreTheorems!NoParts, Store!NoParts
<1> QED BY <1>1, <1>2

-----------------------------------------------------------------------------
(* Types. *)

LoopTyped ==
    /\ log \in Seq(Messages) /\ Len(log) <= MaxLog
    /\ beginning \in 0..Len(log)
    /\ pc \in {"down", "poll", "fetched", "ingest", "ack", "measure", "report"}
    /\ position \in Nat /\ ends \in Nat
    /\ batch \in Seq(Messages)
    /\ db.checkpoint \in 0..Len(log)

ClockTyped ==
    /\ health \in Health /\ copied \in Health \cup {None}
    /\ snapshot \in Snapshot
    /\ now \in 0..MaxTime /\ faults \in 0..MaxFaults

(* The batch is what lies behind the position; it is empty where the loop
   polls or measures, and not where it has records to ingest. *)
Placed ==
    /\ pc # "down" =>
         /\ position \in Len(batch)..Len(log)
         /\ \A i \in 1..Len(batch) : batch[i] = log[position - Len(batch) + i]
    /\ pc \in {"fetched", "ingest", "ack"} => batch # <<>>
    /\ pc \in {"poll", "measure", "report"} => batch = <<>>

(* A transaction is of the record the loop is at. *)
AtRecord ==
    txn # None => /\ pc = "ingest"
                  /\ txn.msg = batch[1]
                  /\ txn.offset = position - Len(batch)

StoreTyped == StoreTheorems!Typed /\ StoreTheorems!Kept

LoopInv == LoopTyped /\ ClockTyped /\ Placed /\ AtRecord /\ StoreTyped

LEMMA InitLoop == Init => LoopInv
<1> SUFFICES ASSUME Init PROVE LoopInv
  OBVIOUS
<1>1. StoreTyped
  BY SameTypes, StoreAssumptions, StoreTheorems!InitTyped, StoreTheorems!InitKept
     DEF Init, StoreTyped
<1>2. db.checkpoint = 0 /\ txn = None
  BY DEF Init, Store!Init, Store!Empty
<1>3. log = <<>> /\ Len(log) = 0 /\ batch = <<>> /\ <<>> \in Seq(Messages)
  BY DEF Init
<1>4. LoopTyped
  BY <1>2, <1>3 DEF Init, LoopTyped
<1>5. ClockTyped
  BY DEF Init, ClockTyped, Health, Unhealthy, Snapshot, Provisional
<1> QED BY <1>1, <1>2, <1>4, <1>5 DEF Init, LoopInv, Placed, AtRecord

(* The clock's part. *)
LEMMA SnapshotType ==
    ASSUME NEW h \in Health, now \in Nat
    PROVE  SnapshotOf(h) \in Snapshot
BY DEF SnapshotOf, Snapshot, Provisional, Health

LEMMA NextClock == LoopTyped /\ ClockTyped /\ [Next]_vars => ClockTyped'
<1> SUFFICES ASSUME LoopTyped, ClockTyped, [Next]_vars PROVE ClockTyped'
  OBVIOUS
<1>0. now \in Nat /\ Unhealthy \in Health
  BY DEF ClockTyped, Unhealthy, Health
<1>1. CASE NoteRecords \/ PositionLost \/ Fail
  <2>1. health' \in Health
    BY <1>1 DEF NoteRecords, PositionLost, Fail, ClockTyped, Health
  <2>2. UNCHANGED <<copied, snapshot, now>> /\ faults' \in 0..MaxFaults
    BY <1>1 DEF NoteRecords, PositionLost, Fail, Fault, ClockTyped, clockVars
  <2> QED BY <2>1, <2>2 DEF ClockTyped
<1>2. CASE Report
  BY <1>2 DEF Report, ClockTyped, LoopTyped, Health, clockVars
<1>3. CASE CopyHealth
  BY <1>3 DEF CopyHealth, ClockTyped
<1>4. CASE Publish
  BY <1>0, <1>4, SnapshotType DEF Publish, ClockTyped
<1>5. CASE Restart
  BY <1>0, <1>5, SnapshotType DEF Restart, Fault, ClockTyped
<1>6. CASE Tick
  BY <1>6 DEF Tick, ClockTyped, clockVars
<1>7. CASE UNCHANGED <<health, clockVars, now, faults>>
  BY <1>7 DEF ClockTyped, clockVars
<1> QED
  BY <1>1, <1>2, <1>3, <1>4, <1>5, <1>6, <1>7 DEF Next, Consumer, Clock, vars, Produce,
     Trim, Connect, Poll, Ingest, IngestCommit, Ack, Measure

(* The record at hand. *)
LEMMA AtHand ==
    ASSUME LoopTyped, Placed, pc = "ingest"
    PROVE  /\ Head(batch) = batch[1] /\ batch[1] \in Messages
           /\ position - Len(batch) \in Offsets
           /\ position - Len(batch) + 1 \in 1..Len(log)
           /\ batch[1] = log[position - Len(batch) + 1]
<1>1. batch # <<>> /\ batch \in Seq(Messages) /\ position \in Nat /\ Len(log) \in Nat
      /\ Len(log) <= MaxLog
  BY DEF LoopTyped, Placed
<1>2. Len(batch) \in Nat \ {0} /\ Head(batch) = batch[1] /\ batch[1] \in Messages
  BY <1>1, HeadTailProperties
<1>3. position \in Len(batch)..Len(log)
      /\ \A i \in 1..Len(batch) : batch[i] = log[position - Len(batch) + i]
  BY DEF Placed
<1> QED BY <1>1, <1>2, <1>3 DEF Offsets

(* What a poll returns. *)
LEMMA Polled ==
    ASSUME LoopTyped, NEW n \in Nat, position + n <= Len(log)
    PROVE  /\ SubSeq(log, position + 1, position + n) \in Seq(Messages)
           /\ Len(SubSeq(log, position + 1, position + n)) = n
           /\ \A i \in 1..n :
                SubSeq(log, position + 1, position + n)[i] = log[position + i]
<1> DEFINE a == position + 1
           b == position + n
           q == SubSeq(log, a, b)
<1>1. log \in Seq(Messages) /\ position \in Nat /\ Len(log) \in Nat
  BY DEF LoopTyped
<1>2. a \in Int /\ b \in Int /\ b - a + 1 = n
  BY <1>1
<1>3. \A i \in a..b : log[i] \in Messages
  BY <1>1, ElementOfSeq
<1>4. /\ q \in Seq(Messages)
      /\ Len(q) = IF a <= b THEN b - a + 1 ELSE 0
      /\ \A i \in 1..(b - a + 1) : q[i] = log[a + i - 1]
  <2> HIDE DEF a, b
  <2> QED BY <1>2, <1>3, SubSeqProperties
<1>5. Len(q) = n
  BY <1>1, <1>4
<1>6. ASSUME NEW i \in 1..n PROVE q[i] = log[position + i]
  <2>1. i \in 1..(b - a + 1) /\ a + i - 1 = position + i
    BY <1>1, <1>2
  <2>2. q[i] = log[a + i - 1]
    BY <1>4, <2>1
  <2> QED BY <2>1, <2>2
<1> QED BY <1>4, <1>5, <1>6

(* The store's steps as the loop takes them. *)
LEMMA IngestStep ==
    ASSUME LoopInv, Ingest
    PROVE  /\ db' = db /\ StoreTyped'
           /\ txn'.msg = batch[1] /\ txn'.offset = position - Len(batch)
<1> DEFINE m == Head(batch)
           off == position - Len(batch)
<1>1. pc = "ingest" /\ m = batch[1] /\ m \in Messages /\ off \in Offsets
  BY AtHand DEF Ingest, LoopInv
<1>2. \/ Store!IngestRejected(m, off) \/ Store!IngestDuplicate(m, off)
      \/ Store!IngestNew(m, off)
      \/ Store!DrainApply \/ Store!DrainFails \/ Store!DrainEnds
  BY DEF Ingest
<1> HIDE DEF m, off
<1>3. StoreTheorems!Typed'
  BY <1>1, <1>2, SameActions, StoreAssumptions, StoreTheorems!NextTyped
     DEF LoopInv, StoreTyped, StoreTheorems!Next
<1>4. CASE \/ Store!IngestRejected(m, off) \/ Store!IngestDuplicate(m, off)
           \/ Store!IngestNew(m, off)
  <2>1. db' = db /\ txn'.msg = m /\ txn'.offset = off /\ StoreTheorems!Kept'
    BY <1>1, <1>4, SameActions, StoreAssumptions, StoreTheorems!BeginKept
       DEF LoopInv, StoreTyped
  <2> QED BY <1>1, <1>3, <2>1 DEF StoreTyped, off
<1>5. CASE Store!DrainApply \/ Store!DrainFails \/ Store!DrainEnds
  <2>1. /\ txn # None /\ db' = db /\ StoreTheorems!Kept'
        /\ txn'.msg = txn.msg /\ txn'.offset = txn.offset
    BY <1>5, SameActions, StoreAssumptions, StoreTheorems!DrainKept
       DEF LoopInv, StoreTyped
  <2> QED BY <1>3, <2>1 DEF StoreTyped, LoopInv, AtRecord
<1> QED BY <1>2, <1>4, <1>5

LEMMA CommitStep ==
    ASSUME LoopInv, IngestCommit
    PROVE  /\ txn # None /\ txn' = None /\ StoreTyped'
           /\ txn.offset = position - Len(batch) /\ txn.msg = batch[1]
           /\ db'.checkpoint = IF db.checkpoint > txn.offset + 1
                               THEN db.checkpoint ELSE txn.offset + 1
           /\ db'.missing = db.missing
           /\ StoreTheorems!Rows(db) \cup {txn.msg} \subseteq StoreTheorems!Rows(db')
           /\ db.applied \subseteq db'.applied
<1>1. StoreTheorems!Commit
  BY SameActions DEF IngestCommit
<1>2. StoreTheorems!Typed'
  BY <1>1, StoreAssumptions, StoreTheorems!NextTyped
     DEF LoopInv, StoreTyped, StoreTheorems!Next
<1>3. /\ txn # None /\ txn' = None
      /\ db'.checkpoint = IF db.checkpoint > txn.offset + 1
                          THEN db.checkpoint ELSE txn.offset + 1
      /\ db'.missing = db.missing
      /\ StoreTheorems!Rows(db) \cup {txn.msg} \subseteq StoreTheorems!Rows(db')
      /\ db.applied \subseteq db'.applied
      /\ StoreTheorems!Kept'
  BY <1>1, StoreAssumptions, StoreTheorems!CommitKept DEF LoopInv, StoreTyped
<1> QED BY <1>2, <1>3 DEF StoreTyped, LoopInv, AtRecord

LEMMA ConnectStep ==
    ASSUME LoopInv, Connect
    PROVE  /\ txn = None /\ txn' = None /\ StoreTyped'
           /\ db'.checkpoint = db.checkpoint
           /\ StoreTheorems!Rows(db') = StoreTheorems!Rows(db)
           /\ db'.applied = db.applied
           /\ ~db'.missing => ~db.missing /\ ~(db.checkpoint < beginning)
<1>1. txn = None
  BY DEF Connect
<1>2. CASE db.checkpoint < beginning
  <2>1. StoreTheorems!MarkHistoryMissing
    BY <1>2, SameActions DEF Connect
  <2>2. StoreTheorems!Typed'
    BY <2>1, StoreAssumptions, StoreTheorems!NextTyped
       DEF LoopInv, StoreTyped, StoreTheorems!Next
  <2>3. /\ db'.checkpoint = db.checkpoint /\ db'.missing = TRUE
        /\ StoreTheorems!Rows(db') = StoreTheorems!Rows(db)
        /\ db'.applied = db.applied /\ txn' = None
    BY <2>1, StoreAssumptions, StoreTheorems!MissingKept DEF LoopInv, StoreTyped
  <2> QED BY <1>1, <1>2, <2>2, <2>3 DEF StoreTyped, StoreTheorems!Kept
<1>3. CASE ~(db.checkpoint < beginning)
  <2>1. db' = db /\ txn' = txn
    BY <1>3 DEF Connect, storeVars
  <2>2. StoreTyped'
    BY <2>1 DEF LoopInv, StoreTyped, StoreTheorems!Typed, StoreTheorems!TypeOK,
       StoreTheorems!Kept
  <2> QED BY <1>1, <1>3, <2>1, <2>2
<1> QED BY <1>2, <1>3

(* An open transaction is rolled back. *)
LEMMA AbortStep ==
    ASSUME LoopInv, IF txn = None THEN UNCHANGED storeVars ELSE Store!Crash
    PROVE  txn' = None /\ db' = db /\ StoreTyped'
<1>1. txn' = None /\ db' = db
  BY DEF storeVars, Store!Crash
<1> QED
  BY <1>1 DEF LoopInv, StoreTyped, StoreTheorems!Typed, StoreTheorems!TypeOK,
     StoreTheorems!Kept

LEMMA SameStore ==
    ASSUME LoopInv, UNCHANGED storeVars
    PROVE  txn' = txn /\ db' = db /\ StoreTyped'
BY DEF LoopInv, storeVars, StoreTyped, StoreTheorems!Typed, StoreTheorems!TypeOK,
   StoreTheorems!Kept

-----------------------------------------------------------------------------
(* The loop. *)

LEMMA NextLoop == LoopInv /\ [Next]_vars => LoopInv'
<1> SUFFICES ASSUME LoopInv, [Next]_vars
             PROVE  LoopTyped' /\ Placed' /\ AtRecord' /\ StoreTyped'
  BY NextClock DEF LoopInv
<1> DEFINE Goal == LoopTyped' /\ Placed' /\ AtRecord' /\ StoreTyped'
<1> SUFFICES Goal
  OBVIOUS
<1>0. /\ log \in Seq(Messages) /\ Len(log) \in Nat /\ Len(log) <= MaxLog
      /\ batch \in Seq(Messages) /\ Len(batch) \in Nat
      /\ position \in Nat /\ ends \in Nat
      /\ beginning \in 0..Len(log) /\ db.checkpoint \in 0..Len(log)
      /\ (Len(batch) = 0 <=> batch = <<>>)
  BY EmptySeq DEF LoopInv, LoopTyped
<1>00. LoopTyped /\ Placed /\ AtRecord
  BY DEF LoopInv
<1>1. ASSUME NEW m \in Messages, Produce(m) PROVE Goal
  <2>1. /\ log' \in Seq(Messages) /\ Len(log') = Len(log) + 1
        /\ \A i \in 1..Len(log) : log'[i] = log[i]
    BY <1>0, <1>1, AppendProperties DEF Produce
  <2>2. Len(log') <= MaxLog
    BY <1>0, <1>1, <2>1 DEF Produce
  <2>3. UNCHANGED <<beginning, pc, position, batch, ends>> /\ UNCHANGED storeVars
    BY <1>1 DEF Produce, consumerVars
  <2>4. txn' = txn /\ db' = db /\ StoreTyped'
    BY <2>3, SameStore
  <2>5. LoopTyped'
    BY <1>0, <1>00, <2>1, <2>2, <2>3, <2>4 DEF LoopTyped
  <2>6. Placed'
    <3>1. ASSUME pc # "down", NEW i \in 1..Len(batch)
          PROVE  batch[i] = log'[position - Len(batch) + i]
      <4>1. position - Len(batch) + i \in 1..Len(log)
        BY <1>0, <1>00, <3>1 DEF Placed
      <4> QED BY <1>00, <2>1, <3>1, <4>1 DEF Placed
    <3> QED BY <1>0, <1>00, <2>1, <2>3, <3>1 DEF Placed
  <2> QED BY <1>00, <2>3, <2>4, <2>5, <2>6 DEF AtRecord
<1>2. CASE Trim
  <2>1. UNCHANGED <<log, pc, position, batch, ends>> /\ UNCHANGED storeVars
        /\ beginning' = beginning + 1 /\ beginning < Len(log)
    BY <1>2 DEF Trim, consumerVars
  <2>2. txn' = txn /\ db' = db /\ StoreTyped'
    BY <2>1, SameStore
  <2>3. beginning' \in 0..Len(log)
    BY <1>0, <2>1
  <2> QED BY <1>00, <2>1, <2>2, <2>3 DEF LoopTyped, Placed, AtRecord
<1>3. CASE Connect
  <2>1. txn = None /\ txn' = None /\ StoreTyped' /\ db'.checkpoint = db.checkpoint
    BY <1>3, ConnectStep
  <2>2. /\ UNCHANGED <<log, beginning, ends>> /\ pc' = "poll" /\ batch' = <<>>
        /\ position' = Larger(db.checkpoint, beginning)
    BY <1>3 DEF Connect, topicVars
  <2>3. position' \in 0..Len(log)
    BY <1>0, <2>2 DEF Larger
  <2>4. Len(batch') = 0 /\ batch' \in Seq(Messages)
    BY <2>2
  <2> QED BY <1>0, <1>00, <2>1, <2>2, <2>3, <2>4 DEF LoopTyped, Placed, AtRecord
<1>4. CASE Poll
  <2>1. PICK n \in 0..MaxBatch :
          /\ position + n <= Len(log)
          /\ batch' = SubSeq(log, position + 1, position + n)
          /\ position' = position + n
          /\ pc' = IF n = 0 THEN "measure" ELSE "fetched"
    BY <1>4 DEF Poll
  <2>2. n \in Nat
    BY <2>1
  <2>3. /\ batch' \in Seq(Messages) /\ Len(batch') = n
        /\ \A i \in 1..n : batch'[i] = log[position + i]
    BY <1>00, <2>1, <2>2, Polled
  <2>4. UNCHANGED <<log, beginning, ends>> /\ UNCHANGED storeVars /\ pc = "poll"
    BY <1>4 DEF Poll, topicVars
  <2>5. txn' = txn /\ db' = db /\ StoreTyped' /\ txn = None
    BY <1>00, <2>4, SameStore DEF AtRecord
  <2>6. batch' = <<>> <=> n = 0
    BY <2>3, EmptySeq
  <2>7. Placed'
    <3>1. position' \in Len(batch')..Len(log') /\ position' - Len(batch') = position
      BY <1>0, <2>1, <2>2, <2>3, <2>4
    <3> QED BY <2>1, <2>3, <2>4, <2>6, <3>1 DEF Placed
  <2>8. LoopTyped'
    BY <1>0, <1>00, <2>1, <2>3, <2>4, <2>5 DEF LoopTyped
  <2> QED BY <2>5, <2>7, <2>8 DEF AtRecord
<1>5. CASE NoteRecords
  <2>1. UNCHANGED <<log, beginning, position, batch, ends>> /\ UNCHANGED storeVars
        /\ pc = "fetched" /\ pc' = "ingest"
    BY <1>5 DEF NoteRecords, topicVars
  <2>2. txn' = txn /\ db' = db /\ StoreTyped'
    BY <2>1, SameStore
  <2> QED BY <1>00, <2>1, <2>2 DEF LoopTyped, Placed, AtRecord
<1>6. CASE Ingest
  <2>1. UNCHANGED <<log, beginning, pc, position, batch, ends>> /\ pc = "ingest"
    BY <1>6 DEF Ingest, topicVars, consumerVars
  <2>2. /\ db' = db /\ StoreTyped'
        /\ txn'.msg = batch[1] /\ txn'.offset = position - Len(batch)
    BY <1>6, IngestStep
  <2> QED BY <1>00, <2>1, <2>2 DEF LoopTyped, Placed, AtRecord
<1>7. CASE IngestCommit
  <2>1. UNCHANGED <<log, beginning, position, batch, ends>>
        /\ pc = "ingest" /\ pc' = "ack"
    BY <1>7 DEF IngestCommit, topicVars
  <2>2. /\ txn' = None /\ StoreTyped' /\ txn.offset = position - Len(batch)
        /\ db'.checkpoint = IF db.checkpoint > txn.offset + 1
                            THEN db.checkpoint ELSE txn.offset + 1
    BY <1>7, CommitStep
  <2>3. position - Len(batch) + 1 \in 1..Len(log)
    BY <1>00, <2>1, AtHand
  <2>4. db'.checkpoint \in 0..Len(log)
    BY <1>0, <2>2, <2>3
  <2> QED BY <1>00, <2>1, <2>2, <2>4 DEF LoopTyped, Placed, AtRecord
<1>8. CASE Ack
  <2>1. UNCHANGED <<log, beginning, position, ends>> /\ UNCHANGED storeVars
        /\ pc = "ack" /\ batch # <<>> /\ batch' = Tail(batch)
        /\ pc' = IF Len(batch) = 1 THEN "measure" ELSE "ingest"
    BY <1>00, <1>8 DEF Ack, topicVars, Placed
  <2>2. txn' = txn /\ db' = db /\ StoreTyped' /\ txn = None
    BY <1>00, <2>1, SameStore DEF AtRecord
  <2>3. /\ batch' \in Seq(Messages) /\ Len(batch') = Len(batch) - 1
        /\ \A i \in 1..Len(batch') : batch'[i] = batch[i + 1]
    BY <1>0, <2>1, HeadTailProperties
  <2>4. batch' = <<>> <=> Len(batch) = 1
    BY <1>0, <2>3, EmptySeq
  <2>5. position \in Len(batch)..Len(log)
    BY <1>00, <2>1 DEF Placed
  <2>6. ASSUME NEW i \in 1..Len(batch')
        PROVE  batch'[i] = log[position - Len(batch') + i]
    <3>1. i + 1 \in 1..Len(batch)
          /\ position - Len(batch) + (i + 1) = position - Len(batch') + i
      BY <1>0, <2>3
    <3>2. batch[i + 1] = log[position - Len(batch) + (i + 1)]
      BY <1>00, <2>1, <3>1 DEF Placed
    <3> QED BY <2>3, <3>1, <3>2
  <2>7. Placed'
    BY <1>0, <2>1, <2>3, <2>4, <2>5, <2>6 DEF Placed
  <2>8. LoopTyped'
    BY <1>00, <2>1, <2>2, <2>3 DEF LoopTyped
  <2> QED BY <2>2, <2>7, <2>8 DEF AtRecord
<1>9. CASE Measure \/ Report
  <2>1. /\ UNCHANGED <<log, beginning, position, batch>> /\ UNCHANGED storeVars
        /\ pc \in {"measure", "report"} /\ pc' \in {"report", "poll"}
        /\ ends' \in Nat
    BY <1>0, <1>9 DEF Measure, Report, topicVars
  <2>2. txn' = txn /\ db' = db /\ StoreTyped' /\ txn = None
    BY <1>00, <2>1, SameStore DEF AtRecord
  <2> QED BY <1>00, <2>1, <2>2 DEF LoopTyped, Placed, AtRecord
<1>10. CASE Fail \/ Restart
  <2>1. UNCHANGED <<log, beginning>> /\ CloseConsumer
        /\ (IF txn = None THEN UNCHANGED storeVars ELSE Store!Crash)
    BY <1>10 DEF Fail, Restart, topicVars
  <2>2. txn' = None /\ db' = db /\ StoreTyped'
    BY <2>1, AbortStep
  <2> QED BY <1>00, <2>1, <2>2 DEF CloseConsumer, LoopTyped, Placed, AtRecord
<1>11. CASE PositionLost
  <2>1. UNCHANGED <<log, beginning>> /\ CloseConsumer /\ UNCHANGED storeVars
        /\ pc = "poll"
    BY <1>11 DEF PositionLost, topicVars
  <2>2. txn' = txn /\ db' = db /\ StoreTyped' /\ txn = None
    BY <1>00, <2>1, SameStore DEF AtRecord
  <2> QED BY <1>00, <2>1, <2>2 DEF CloseConsumer, LoopTyped, Placed, AtRecord
<1>12. CASE UNCHANGED <<storeVars, topicVars, consumerVars>>
  <2>1. UNCHANGED <<log, beginning, pc, position, batch, ends>> /\ UNCHANGED storeVars
    BY <1>12 DEF topicVars, consumerVars
  <2>2. txn' = txn /\ db' = db /\ StoreTyped'
    BY <2>1, SameStore
  <2> QED BY <1>00, <2>1, <2>2 DEF LoopTyped, Placed, AtRecord
<1> HIDE DEF Goal
<1> QED
  BY <1>1, <1>2, <1>3, <1>4, <1>5, <1>6, <1>7, <1>8, <1>9, <1>10, <1>11, <1>12
     DEF Next, Consumer, Clock, vars, CopyHealth, Publish, Tick

LEMMA LoopIsTyped == LoopInv => TypeOK
<1> SUFFICES ASSUME LoopInv PROVE TypeOK
  OBVIOUS
<1>1. Store!TypeOK
  BY SameTypes DEF LoopInv, StoreTyped, StoreTheorems!Typed
<1>2. ASSUME txn # None
      PROVE  pc = "ingest" /\ batch # <<>> /\ txn.msg = Head(batch)
  BY <1>2, AtHand DEF LoopInv, AtRecord, Placed
<1>3. ASSUME pc # "down"
      PROVE  batch = SubSeq(log, position - Len(batch) + 1, position)
  <2>0. /\ log \in Seq(Messages) /\ Len(log) \in Nat
        /\ batch \in Seq(Messages) /\ Len(batch) \in Nat
        /\ position \in Len(batch)..Len(log) /\ position \in Nat
    BY <1>3 DEF LoopInv, LoopTyped, Placed
  <2> DEFINE first == position - Len(batch) + 1
  <2>1. first \in Int /\ first >= 1
    BY <2>0
  <2>2. \A i \in first..position : log[i] \in Messages
    BY <2>0, <2>1, ElementOfSeq
  <2>3. /\ SubSeq(log, first, position) \in Seq(Messages)
        /\ Len(SubSeq(log, first, position)) =
             IF first <= position THEN position - first + 1 ELSE 0
        /\ \A i \in 1..(position - first + 1) :
             SubSeq(log, first, position)[i] = log[first + i - 1]
    BY <2>0, <2>1, <2>2, SubSeqProperties
  <2>4. Len(SubSeq(log, first, position)) = Len(batch)
    BY <2>0, <2>3
  <2>5. ASSUME NEW i \in 1..Len(batch)
        PROVE  batch[i] = SubSeq(log, first, position)[i]
    <3>1. i \in 1..(position - first + 1) /\ first + i - 1 = position - Len(batch) + i
      BY <2>0
    <3>2. batch[i] = log[position - Len(batch) + i]
      BY <1>3 DEF LoopInv, Placed
    <3> QED BY <2>3, <3>1, <3>2
  <2> HIDE DEF first
  <2>6. batch = SubSeq(log, first, position)
    BY <2>0, <2>3, <2>4, <2>5, SeqEqual
  <2> QED BY <2>6 DEF first
<1> QED BY <1>1, <1>2, <1>3 DEF TypeOK, LoopInv, LoopTyped, ClockTyped, Placed

(* The loop's position, batch and transaction fit together, whatever fails:
   what is being ingested is the record that the position says it is. *)
THEOREM TypeCorrect == Spec => []TypeOK
BY InitLoop, NextLoop, LoopIsTyped, PTL DEF Spec

-----------------------------------------------------------------------------
(* What is called valid rests on a recent poll. *)

RecentInv ==
    snapshot.quality = "ACTUAL" =>
        /\ snapshot.lastPoll \in Nat
        /\ snapshot.at - snapshot.lastPoll \in 0..Stale
        /\ snapshot.at <= now

LEMMA RecentSnapshot ==
    ASSUME NEW h \in Health, now \in Nat, snapshot' = SnapshotOf(h), now' = now
    PROVE  RecentInv'
<1>1. CASE ~Store!Complete(now)
  BY <1>1 DEF SnapshotOf, Provisional, RecentInv
<1>2. CASE Store!Complete(now) /\ ~Fresh(h)
  BY <1>2 DEF SnapshotOf, Provisional, RecentInv
<1>3. CASE Store!Complete(now) /\ Fresh(h)
  BY <1>3 DEF SnapshotOf, Fresh, RecentInv, Health
<1> QED BY <1>1, <1>2, <1>3

LEMMA NextRecent == ClockTyped /\ RecentInv /\ [Next]_vars => RecentInv'
<1> SUFFICES ASSUME ClockTyped, RecentInv, [Next]_vars PROVE RecentInv'
  OBVIOUS
<1>0. now \in Nat /\ Unhealthy \in Health /\ snapshot.at \in Nat
  BY DEF ClockTyped, Unhealthy, Health, Snapshot
<1>1. CASE Publish
  <2>1. copied \in Health
    BY <1>1 DEF Publish, ClockTyped
  <2> QED BY <1>0, <1>1, <2>1, RecentSnapshot DEF Publish
<1>2. CASE Restart
  BY <1>0, <1>2, RecentSnapshot DEF Restart
<1>3. CASE Tick
  BY <1>0, <1>3 DEF Tick, clockVars, RecentInv
<1>4. CASE UNCHANGED <<snapshot, now>>
  BY <1>4 DEF RecentInv
<1> QED
  BY <1>1, <1>2, <1>3, <1>4 DEF Next, Consumer, Clock, vars, clockVars, Produce, Trim,
     Connect, Poll, NoteRecords, Ingest, IngestCommit, Ack, Measure, Report, Fail,
     PositionLost, CopyHealth

(* What the API calls valid rests on a poll of no more than 2 * stale_seconds
   ago, for every value of stale_seconds and however long a thread hangs. *)
THEOREM ValidRestsOnRecentPoll == Spec => []ServedActualIsRecent
<1>1. Init => RecentInv
  BY DEF Init, RecentInv, Provisional
<1>2. LoopInv /\ RecentInv /\ [Next]_vars => RecentInv'
  BY NextRecent DEF LoopInv
<1>3. LoopInv /\ RecentInv => ServedActualIsRecent
  <2> SUFFICES ASSUME LoopInv, RecentInv, snapshot.quality = "ACTUAL",
                      now - snapshot.at <= Stale
               PROVE  now - snapshot.lastPoll \in 0..(2 * Stale)
    BY DEF ServedActualIsRecent, ServedValid
  <2>1. now \in Nat /\ snapshot.at \in Nat
    BY DEF LoopInv, ClockTyped, Snapshot
  <2> QED BY <2>1 DEF RecentInv
<1> QED BY <1>1, <1>2, <1>3, InitLoop, NextLoop, PTL DEF Spec

-----------------------------------------------------------------------------
(* No record is skipped in silence. *)

(* Unless history is missing, the checkpoint is where the loop is. *)
Sync ==
    pc # "down" /\ ~db.missing =>
        db.checkpoint = position - Len(batch) + (IF pc = "ack" THEN 1 ELSE 0)

Admitted ==
    db.missing \/ \A i \in 1..db.checkpoint : log[i] \in StoreTheorems!Rows(db)

LEMMA NextAdmitted ==
    LoopInv /\ Sync /\ Admitted /\ [Next]_vars => Sync' /\ Admitted'
<1> SUFFICES ASSUME LoopInv, Sync, Admitted, [Next]_vars PROVE Sync' /\ Admitted'
  OBVIOUS
<1> DEFINE Goal == Sync' /\ Admitted'
<1> SUFFICES Goal
  OBVIOUS
<1>0. /\ log \in Seq(Messages) /\ Len(log) \in Nat
      /\ batch \in Seq(Messages) /\ Len(batch) \in Nat
      /\ position \in Nat /\ beginning \in 0..Len(log) /\ db.checkpoint \in 0..Len(log)
      /\ (Len(batch) = 0 <=> batch = <<>>)
  BY EmptySeq DEF LoopInv, LoopTyped
<1>00. LoopTyped /\ Placed /\ AtRecord
  BY DEF LoopInv
<1>1. ASSUME NEW m \in Messages, Produce(m) PROVE Goal
  <2>1. \A i \in 1..Len(log) : log'[i] = log[i]
    BY <1>0, <1>1, AppendProperties DEF Produce
  <2>2. UNCHANGED <<pc, position, batch, db>>
    BY <1>1 DEF Produce, consumerVars, storeVars
  <2>3. \A i \in 1..db.checkpoint : log'[i] = log[i]
    BY <1>0, <2>1
  <2> QED BY <2>2, <2>3 DEF Sync, Admitted, StoreTheorems!Rows
<1>2. CASE Connect
  <2>1. /\ db'.checkpoint = db.checkpoint
        /\ StoreTheorems!Rows(db') = StoreTheorems!Rows(db)
        /\ ~db'.missing => ~db.missing /\ ~(db.checkpoint < beginning)
    BY <1>2, ConnectStep
  <2>2. /\ log' = log /\ pc' = "poll" /\ batch' = <<>>
        /\ position' = Larger(db.checkpoint, beginning)
    BY <1>2 DEF Connect, topicVars
  <2>3. Admitted'
    BY <2>1, <2>2 DEF Admitted
  <2>4. ~db'.missing => position' = db.checkpoint
    BY <1>0, <2>1, <2>2 DEF Larger
  <2>5. Len(batch') = 0
    BY <2>2
  <2> QED BY <1>0, <2>1, <2>2, <2>3, <2>4, <2>5 DEF Sync
<1>3. CASE Poll
  <2>1. PICK n \in 0..MaxBatch :
          /\ position + n <= Len(log)
          /\ batch' = SubSeq(log, position + 1, position + n)
          /\ position' = position + n
          /\ pc' = IF n = 0 THEN "measure" ELSE "fetched"
    BY <1>3 DEF Poll
  <2>2. Len(batch') = n
    BY <1>00, <2>1, Polled
  <2>3. db' = db /\ log' = log /\ pc = "poll" /\ Len(batch) = 0
    BY <1>0, <1>00, <1>3 DEF Poll, storeVars, topicVars, Placed
  <2> QED BY <1>0, <2>1, <2>2, <2>3 DEF Sync, Admitted
<1>4. CASE IngestCommit
  <2>1. /\ txn.offset = position - Len(batch) /\ txn.msg = batch[1]
        /\ db'.checkpoint = IF db.checkpoint > txn.offset + 1
                            THEN db.checkpoint ELSE txn.offset + 1
        /\ db'.missing = db.missing
        /\ StoreTheorems!Rows(db) \cup {txn.msg} \subseteq StoreTheorems!Rows(db')
    BY <1>4, CommitStep
  <2>2. log' = log /\ batch' = batch /\ position' = position
        /\ pc = "ingest" /\ pc' = "ack"
    BY <1>4 DEF IngestCommit, topicVars
  <2>3. position - Len(batch) + 1 \in 1..Len(log)
        /\ batch[1] = log[position - Len(batch) + 1]
    BY <1>00, <2>2, AtHand
  <2>4. CASE db.missing
    BY <2>1, <2>4 DEF Sync, Admitted
  <2>5. CASE ~db.missing
    <3>1. db.checkpoint = position - Len(batch)
      BY <1>0, <2>2, <2>5 DEF Sync
    <3>2. db'.checkpoint = db.checkpoint + 1
      BY <1>0, <2>1, <3>1
    <3>3. ASSUME NEW i \in 1..db'.checkpoint PROVE log[i] \in StoreTheorems!Rows(db')
      <4>1. CASE i = db.checkpoint + 1
        BY <2>1, <2>3, <3>1, <4>1
      <4>2. CASE i # db.checkpoint + 1
        <5>1. i \in 1..db.checkpoint
          BY <1>0, <3>2, <4>2
        <5> QED BY <2>1, <2>5, <5>1 DEF Admitted
      <4> QED BY <4>1, <4>2
    <3> QED BY <1>0, <2>2, <3>1, <3>2, <3>3 DEF Sync, Admitted
  <2> QED BY <2>4, <2>5
<1>5. CASE Ack
  <2>1. db' = db /\ log' = log /\ position' = position
        /\ pc = "ack" /\ pc' \in {"measure", "ingest"} /\ batch # <<>> /\ batch' = Tail(batch)
    BY <1>00, <1>5 DEF Ack, storeVars, topicVars, Placed
  <2>2. Len(batch') = Len(batch) - 1
    BY <1>0, <2>1, HeadTailProperties
  <2> QED BY <1>0, <2>1, <2>2 DEF Sync, Admitted
<1>6. CASE Ingest
  <2>1. db' = db
    BY <1>6, IngestStep
  <2> QED BY <1>6, <2>1 DEF Ingest, topicVars, consumerVars, Sync, Admitted
<1>7. CASE Fail \/ Restart
  <2>1. db' = db /\ pc' = "down" /\ log' = log
    BY <1>7, AbortStep DEF Fail, Restart, CloseConsumer, topicVars
  <2> QED BY <2>1 DEF Sync, Admitted
<1>8. CASE PositionLost
  BY <1>8 DEF PositionLost, CloseConsumer, storeVars, topicVars, Sync, Admitted
<1>9. CASE NoteRecords \/ Measure \/ Report
  BY <1>9 DEF NoteRecords, Measure, Report, storeVars, topicVars, Sync, Admitted
<1>10. CASE UNCHANGED <<db, log, pc, position, batch>>
  BY <1>10 DEF Sync, Admitted
<1> HIDE DEF Goal
<1> QED
  BY <1>1, <1>2, <1>3, <1>4, <1>5, <1>6, <1>7, <1>8, <1>9, <1>10 DEF Next, Consumer,
     Clock, vars, storeVars, topicVars, consumerVars, Trim, CopyHealth, Publish, Tick

(* Whatever retention, exceptions and restarts do: a record below the
   checkpoint is in the inbox or in the error table, or the store admits that
   history is missing. *)
THEOREM NothingIsSkippedInSilence == Spec => []SkippedIsAdmitted
<1>1. Init => Sync /\ Admitted
  <2> SUFFICES ASSUME Init PROVE Sync /\ Admitted
    OBVIOUS
  <2>1. db.checkpoint = 0 /\ pc = "down"
    BY DEF Init, Store!Init, Store!Empty
  <2> QED BY <2>1 DEF Sync, Admitted
<1>2. Admitted => SkippedIsAdmitted
  BY DEF Admitted, SkippedIsAdmitted, StoreTheorems!Rows
<1> QED BY <1>1, <1>2, NextAdmitted, InitLoop, NextLoop, PTL DEF Spec

-----------------------------------------------------------------------------
(* ACTUAL is true. *)

(* A health record that says the consumer has caught up speaks of an end that
   the checkpoint has reached. *)
Reached(h) == h.caughtUp /\ ~db.missing => h.end <= db.checkpoint

Covered ==
    snapshot.quality = "ACTUAL" =>
        /\ snapshot.end \in 0..Len(log)
        /\ \A i \in 1..snapshot.end : log[i] \in db.applied

CoverInv == Reached(health) /\ (copied # None => Reached(copied)) /\ Covered

(* What the loop may do to database and log without disturbing any of it. *)
Forward ==
    /\ db'.checkpoint >= db.checkpoint
    /\ db.missing => db'.missing
    /\ db.applied \subseteq db'.applied
    /\ Len(log') >= Len(log)
    /\ \A i \in 1..Len(log) : log'[i] = log[i]

LEMMA NextForward == LoopInv /\ [Next]_vars => Forward
<1> SUFFICES ASSUME LoopInv, [Next]_vars PROVE Forward
  OBVIOUS
<1>0. /\ log \in Seq(Messages) /\ Len(log) \in Nat
      /\ db.checkpoint \in 0..Len(log)
  BY DEF LoopInv, LoopTyped
<1>1. ASSUME NEW m \in Messages, Produce(m) PROVE Forward
  <2>1. db' = db
    BY <1>1 DEF Produce, storeVars
  <2>2. Len(log') = Len(log) + 1 /\ \A i \in 1..Len(log) : log'[i] = log[i]
    BY <1>0, <1>1, AppendProperties DEF Produce
  <2> QED BY <1>0, <2>1, <2>2 DEF Forward
<1>2. CASE Connect
  <2>1. /\ db'.checkpoint = db.checkpoint /\ db'.applied = db.applied
        /\ ~db'.missing => ~db.missing
    BY <1>2, ConnectStep
  <2>2. log' = log
    BY <1>2 DEF Connect, topicVars
  <2> QED BY <1>0, <2>1, <2>2 DEF Forward
<1>3. CASE IngestCommit
  <2>1. /\ txn.offset = position - Len(batch)
        /\ db'.checkpoint = IF db.checkpoint > txn.offset + 1
                            THEN db.checkpoint ELSE txn.offset + 1
        /\ db'.missing = db.missing /\ db.applied \subseteq db'.applied
    BY <1>3, CommitStep
  <2>2. log' = log
    BY <1>3 DEF IngestCommit, topicVars
  <2>3. txn.offset \in Int
    <3>1. position \in Nat /\ Len(batch) \in Nat
      BY DEF LoopInv, LoopTyped
    <3> QED BY <2>1, <3>1
  <2> QED BY <1>0, <2>1, <2>2, <2>3 DEF Forward
<1>4. CASE Ingest
  <2>1. db' = db /\ log' = log
    BY <1>4, IngestStep DEF Ingest, topicVars
  <2> QED BY <1>0, <2>1 DEF Forward
<1>5. CASE Fail \/ Restart
  <2>1. db' = db /\ log' = log
    BY <1>5, AbortStep DEF Fail, Restart, topicVars
  <2> QED BY <1>0, <2>1 DEF Forward
<1>6. CASE UNCHANGED <<db, log>>
  BY <1>0, <1>6 DEF Forward
<1> QED
  BY <1>1, <1>2, <1>3, <1>4, <1>5, <1>6 DEF Next, Consumer, Clock, vars, storeVars,
     topicVars, Trim, Poll, NoteRecords, Ack, Measure, Report, PositionLost, CopyHealth,
     Publish, Tick

LEMMA StaysReached ==
    ASSUME LoopInv, LoopInv', Forward, NEW h \in Health, Reached(h)
    PROVE  h.caughtUp /\ ~db'.missing => h.end <= db'.checkpoint
<1>1. db.checkpoint \in Nat /\ db'.checkpoint \in Nat /\ h.end \in Nat
  <2>1. db.checkpoint \in 0..Len(log) /\ db'.checkpoint \in 0..Len(log')
        /\ Len(log) \in Nat /\ Len(log') \in Nat
    BY DEF LoopInv, LoopTyped
  <2> QED BY <2>1 DEF Health
<1> QED BY <1>1 DEF Reached, Forward

(* A snapshot made now is true. *)
LEMMA MadeCovered ==
    ASSUME LoopInv, Admitted, NEW h \in Health, Reached(h),
           db' = db, log' = log, snapshot' = SnapshotOf(h)
    PROVE  Covered'
<1> SUFFICES ASSUME snapshot'.quality = "ACTUAL"
             PROVE  /\ snapshot'.end \in 0..Len(log)
                    /\ \A i \in 1..snapshot'.end : log[i] \in db.applied
  BY DEF Covered
<1>1. Store!Complete(now) /\ Fresh(h)
  BY DEF SnapshotOf, Provisional
<1>2. snapshot'.end = h.end
  BY <1>1 DEF SnapshotOf
<1>3. ~db.missing /\ db.errors = {} /\ db.applied = db.inbox /\ h.caughtUp
  BY <1>1 DEF Store!Complete, Fresh
<1>4. h.end <= db.checkpoint
  BY <1>3 DEF Reached
<1>5. /\ db.checkpoint \in 0..Len(log) /\ Len(log) \in Nat /\ h.end \in Nat
      /\ db.checkpoint \in Nat
  BY DEF LoopInv, LoopTyped, Health
<1>6. \A i \in 1..db.checkpoint : log[i] \in db.applied
  BY <1>3 DEF Admitted, StoreTheorems!Rows
<1> QED BY <1>2, <1>4, <1>5, <1>6

LEMMA NextCover ==
    LoopInv /\ LoopInv' /\ Sync /\ Admitted /\ CoverInv /\ [Next]_vars => CoverInv'
<1> SUFFICES ASSUME LoopInv, LoopInv', Sync, Admitted, CoverInv, [Next]_vars
             PROVE  CoverInv'
  OBVIOUS
<1>0. /\ Forward /\ health \in Health /\ copied \in Health \cup {None}
      /\ Unhealthy \in Health
  BY NextForward DEF LoopInv, ClockTyped, Unhealthy, Health
<1>1. Reached(health)' /\ (copied' # None => Reached(copied)')
  <2>1. \A h \in Health : Reached(h) =>
          (h.caughtUp /\ ~db'.missing => h.end <= db'.checkpoint)
    BY <1>0, StaysReached
  <2>2. CASE Report
    <3>1. /\ health' = [connected |-> TRUE, caughtUp |-> (position >= ends),
                        lastPoll |-> now, end |-> ends]
          /\ db' = db /\ copied' = copied /\ pc = "report"
      BY <2>2 DEF Report, storeVars, clockVars
    <3>2. Len(batch) = 0 /\ position \in Nat
      BY <3>1 DEF LoopInv, LoopTyped, Placed
    <3>3. ~db.missing => db.checkpoint = position
      BY <3>1, <3>2 DEF Sync
    <3>4. Reached(health)'
      <4>1. health'.caughtUp => position >= ends
        BY <3>1
      <4>2. health'.end = ends /\ ends \in Nat
        BY <3>1 DEF LoopInv, LoopTyped
      <4> QED BY <3>1, <3>2, <3>3, <4>1, <4>2 DEF Reached
    <3> QED BY <1>0, <2>1, <3>1, <3>4 DEF CoverInv, Reached
  <2>3. CASE NoteRecords \/ PositionLost \/ Fail \/ Restart
    <3>1. ~health'.caughtUp /\ copied' \in {None, copied}
      BY <1>0, <2>3 DEF NoteRecords, PositionLost, Fail, Restart, Unhealthy, Health, clockVars
    <3> QED BY <1>0, <2>1, <3>1 DEF CoverInv, Reached
  <2>4. CASE CopyHealth
    BY <1>0, <2>1, <2>4 DEF CopyHealth, CoverInv, Reached
  <2>5. CASE Publish
    BY <1>0, <2>1, <2>5 DEF Publish, CoverInv, Reached
  <2>6. CASE UNCHANGED <<health, copied>>
    BY <1>0, <2>1, <2>6 DEF CoverInv, Reached
  <2> QED
    BY <2>2, <2>3, <2>4, <2>5, <2>6 DEF Next, Consumer, Clock, vars, clockVars, Produce,
       Trim, Connect, Poll, Ingest, IngestCommit, Ack, Measure, Tick
<1>2. Covered'
  <2>1. CASE Publish
    <3>1. /\ copied \in Health /\ Reached(copied) /\ db' = db /\ log' = log
          /\ snapshot' = SnapshotOf(copied)
      BY <1>0, <2>1 DEF Publish, CoverInv, storeVars, topicVars
    <3> QED BY <3>1, MadeCovered
  <2>2. CASE Restart
    <3>1. db' = db /\ log' = log /\ snapshot' = SnapshotOf(Unhealthy)
      BY <2>2, AbortStep DEF Restart, topicVars
    <3>2. Reached(Unhealthy)
      BY DEF Reached, Unhealthy
    <3> QED BY <1>0, <3>1, <3>2, MadeCovered
  <2>3. CASE snapshot' = snapshot
    <3> SUFFICES ASSUME snapshot.quality = "ACTUAL"
                 PROVE  /\ snapshot.end \in 0..Len(log')
                        /\ \A i \in 1..snapshot.end : log'[i] \in db'.applied
      BY <2>3 DEF Covered
    <3>1. /\ snapshot.end \in 0..Len(log)
          /\ \A i \in 1..snapshot.end : log[i] \in db.applied
      BY DEF CoverInv, Covered
    <3>2. Len(log) \in Nat /\ Len(log') \in Nat
      BY DEF LoopInv, LoopTyped
    <3> QED BY <1>0, <3>1, <3>2 DEF Forward
  <2> QED
    BY <2>1, <2>2, <2>3 DEF Next, Consumer, Clock, vars, clockVars, Produce, Trim,
       Connect, Poll, NoteRecords, Ingest, IngestCommit, Ack, Measure, Report, Fail,
       PositionLost, CopyHealth, Tick
<1> QED BY <1>1, <1>2 DEF CoverInv

(* A snapshot labelled ACTUAL contains every event that the topic held when
   the consumer last asked it for its end: the clock may publish an old copy
   of the health, but never one that the data has not reached. *)
THEOREM ActualIsTrue == Spec => []ActualCoversTopic
<1>1. Init => Sync /\ Admitted /\ CoverInv
  <2> SUFFICES ASSUME Init PROVE Sync /\ Admitted /\ CoverInv
    OBVIOUS
  <2>1. db.checkpoint = 0 /\ pc = "down"
    BY DEF Init, Store!Init, Store!Empty
  <2>2. ~health.caughtUp /\ copied = None /\ snapshot.quality # "ACTUAL"
    BY DEF Init, Unhealthy, Provisional
  <2> QED BY <2>1, <2>2 DEF Sync, Admitted, CoverInv, Reached, Covered
<1>2. CoverInv => ActualCoversTopic
  BY DEF CoverInv, Covered, ActualCoversTopic
<1> QED BY <1>1, <1>2, NextAdmitted, NextCover, InitLoop, NextLoop, PTL DEF Spec

=============================================================================
