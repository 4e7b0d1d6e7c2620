------------------------- MODULE OutboxRelayProofs -------------------------
(* Theorems about OutboxRelay, for any number of sessions and events, any    *)
(* size of a tick and any number of faults.                                  *)
EXTENDS OutboxRelay, FiniteSetTheorems, SequenceTheorems, TLAPS

USE BatchAssumption, BoundsAssumption

-----------------------------------------------------------------------------
(* Types. *)

(* The relay's own part of the types, whatever an event is made of: another *)
(* service may write the outbox.                                            *)
Queues ==
    /\ IsFiniteSet(outbox)
    /\ published \subseteq outbox
    /\ ticking \in BOOLEAN
    /\ batch \in Seq(outbox)
    /\ marked \subseteq outbox
    /\ waiting \in BOOLEAN
    /\ waiting => ticking /\ batch # <<>>
    /\ buffer \in Seq(outbox)
    /\ log \in Seq(outbox)

Typed == Queues /\ outbox \subseteq Event /\ faults \in 0..MaxFaults

(* Everything that the relay does, which never writes an event. *)
RelayStep ==
    \/ StartTick \/ Send \/ Deliver \/ Acknowledged \/ CommitTick
    \/ Failed \/ Expire \/ RollbackTick \/ Crash

LEMMA InitQueues == Init => Queues
<1> SUFFICES ASSUME Init PROVE Queues
  OBVIOUS
<1>1. IsFiniteSet({})
  BY FS_EmptySet
<1>2. <<>> \in Seq({})
  BY EmptySeq
<1>3. batch \in Seq(outbox) /\ buffer \in Seq(outbox) /\ log \in Seq(outbox)
  BY <1>2 DEF Init
<1>4. IsFiniteSet(outbox)
  BY <1>1 DEF Init
<1>5. outbox = {} /\ published = {} /\ marked = {} /\ ticking = FALSE /\ waiting = FALSE
  BY DEF Init
<1> QED BY <1>3, <1>4, <1>5 DEF Queues

(* A tick reads rows of the outbox. *)
LEMMA PendingType ==
    ASSUME Queues, NEW q \in OldestPending
    PROVE  q \in Seq(outbox)
<1> DEFINE pending == outbox \ published
<1>1. PICK S \in SUBSET pending : q \in SetToSeqs(S)
  BY DEF OldestPending, kSubset
<1>2. IsFiniteSet(S) /\ S \subseteq outbox
  BY <1>1, FS_Subset DEF Queues
<1>3. Cardinality(S) \in Nat
  BY <1>2, FS_CardinalityType
<1>4. q \in [1..Cardinality(S) -> S]
  BY <1>1 DEF SetToSeqs
<1>5. q \in Seq(S)
  BY <1>3, <1>4, SeqDef
<1> QED BY <1>2, <1>5, SeqMonotonic

(* More rows leave the sequences of rows what they are. *)
LEMMA MoreRows ==
    ASSUME Queues, outbox \subseteq outbox', IsFiniteSet(outbox'),
           UNCHANGED <<published, ticking, batch, marked, waiting, buffer, log>>
    PROVE  Queues'
<1>1. batch \in Seq(outbox') /\ buffer \in Seq(outbox') /\ log \in Seq(outbox')
  BY SeqMonotonic DEF Queues
<1> QED BY <1>1 DEF Queues

LEMMA RelayQueues ==
    ASSUME Queues, RelayStep
    PROVE  Queues' /\ outbox' = outbox
<1> DEFINE Goal == Queues' /\ outbox' = outbox
<1> SUFFICES Goal
  OBVIOUS
<1>0. /\ batch \in Seq(outbox) /\ buffer \in Seq(outbox) /\ log \in Seq(outbox)
      /\ <<>> \in Seq(outbox)
  BY EmptySeq DEF Queues
<1>A. ASSUME batch # <<>> PROVE Head(batch) \in outbox /\ Tail(batch) \in Seq(outbox)
  BY <1>0, <1>A, HeadTailProperties
<1>B. ASSUME buffer # <<>> PROVE Head(buffer) \in outbox /\ Tail(buffer) \in Seq(outbox)
  BY <1>0, <1>B, HeadTailProperties
<1>1. CASE StartTick
  <2>1. batch' \in Seq(outbox)
    BY <1>1, PendingType DEF StartTick
  <2> QED BY <1>1, <2>1 DEF StartTick, Queues
<1>2. CASE Send
  <2>1. buffer' \in Seq(outbox)
    BY <1>0, <1>2, <1>A, AppendProperties DEF Send
  <2> QED BY <1>2, <2>1 DEF Send, Queues
<1>3. CASE Deliver
  <2>1. log' \in Seq(outbox) /\ buffer' \in Seq(outbox)
    BY <1>0, <1>3, <1>B, AppendProperties DEF Deliver
  <2> QED BY <1>3, <2>1 DEF Deliver, Queues
<1>4. CASE Acknowledged
  <2>1. batch # <<>>
    BY <1>4 DEF Acknowledged, Queues
  <2> QED BY <1>4, <1>A, <2>1 DEF Acknowledged, Queues
<1>5. CASE CommitTick
  BY <1>5 DEF CommitTick, Queues
<1>6. CASE Failed
  BY <1>6, <1>A DEF Failed, Queues
<1>7. CASE Expire
  BY <1>7, <1>B DEF Expire, Queues
<1>8. CASE RollbackTick \/ Crash
  BY <1>0, <1>8 DEF RollbackTick, Crash, EndTick, Queues
<1> HIDE DEF Goal
<1> QED
  BY <1>1, <1>2, <1>3, <1>4, <1>5, <1>6, <1>7, <1>8 DEF RelayStep

LEMMA InitTyped == Init => Typed
BY InitQueues DEF Init, Typed

LEMMA NextTyped == Typed /\ [Next]_vars => Typed'
<1> SUFFICES ASSUME Typed, [Next]_vars PROVE Typed'
  OBVIOUS
<1>0. outbox \subseteq Event /\ IsFiniteSet(outbox) /\ Queues /\ faults \in 0..MaxFaults
  BY DEF Typed, Queues
<1>1. ASSUME NEW s \in Sessions, NEW at \in 0..MaxTime, StoreEvent(s, at)
      PROVE  Typed'
  <2> DEFINE stored == {e \in outbox : e.session = s}
             e == [session |-> s, version |-> Cardinality(stored) + 1, at |-> at]
  <2>1. IsFiniteSet(stored)
    BY <1>0, FS_Subset
  <2>2. Cardinality(stored) \in Nat /\ Cardinality(stored) < MaxVersion
    BY <1>1, <2>1, FS_CardinalityType DEF StoreEvent
  <2>3. e \in Event
    BY <2>2 DEF Event
  <2>4. /\ outbox' = outbox \cup {e}
        /\ UNCHANGED <<published, ticking, batch, marked, waiting, buffer, log, faults>>
    BY <1>1 DEF StoreEvent
  <2> HIDE DEF e
  <2>5. IsFiniteSet(outbox') /\ outbox' \subseteq Event
    BY <1>0, <2>3, <2>4, FS_AddElement
  <2>6. Queues'
    BY <1>0, <2>4, <2>5, MoreRows
  <2> QED BY <1>0, <2>4, <2>5, <2>6 DEF Typed
<1>2. CASE RelayStep
  <2>1. faults' \in 0..MaxFaults
    BY <1>0, <1>2 DEF RelayStep, StartTick, Send, Deliver, Acknowledged, CommitTick,
       Failed, Expire, RollbackTick, Crash, Fault
  <2> QED BY <1>0, <1>2, <2>1, RelayQueues DEF Typed
<1>3. CASE UNCHANGED vars
  BY <1>3 DEF vars, Typed, Queues
<1> QED BY <1>1, <1>2, <1>3 DEF Next, RelayStep

(* The tick, the producer's buffer and the topic only hold stored events. *)
THEOREM TypeCorrect == Spec => []TypeOK
<1>1. Typed => TypeOK
  BY DEF Typed, Queues, TypeOK
<1> QED BY <1>1, InitTyped, NextTyped, PTL DEF Spec

-----------------------------------------------------------------------------
(* No row is marked whose record is not in the topic. *)

(* The record that is waited for is the youngest in the buffer, or it is in
   the topic already. *)
WaitInv ==
    waiting => \/ buffer # <<>> /\ buffer[Len(buffer)] = Head(batch)
               \/ Head(batch) \in ToSet(log)

LEMMA AppendSet ==
    ASSUME NEW S, NEW q \in Seq(S), NEW e \in S
    PROVE  ToSet(Append(q, e)) = ToSet(q) \cup {e}
<1>1. /\ Append(q, e) \in Seq(S) /\ Len(Append(q, e)) = Len(q) + 1
      /\ \A i \in 1..Len(q) : Append(q, e)[i] = q[i]
      /\ Append(q, e)[Len(q) + 1] = e
  BY AppendProperties
<1>2. Len(q) \in Nat /\ DOMAIN q = 1..Len(q)
      /\ DOMAIN Append(q, e) = 1..(Len(q) + 1)
  BY <1>1, LenProperties
<1> QED BY <1>1, <1>2 DEF ToSet

LEMMA NotEmpty ==
    ASSUME NEW S, NEW q \in Seq(S), Len(q) > 0
    PROVE  q # <<>>
BY EmptySeq

LEMMA RelayWaits ==
    ASSUME Queues, WaitInv, PublishedIsInLog, RelayStep
    PROVE  WaitInv' /\ PublishedIsInLog'
<1> DEFINE Goal == WaitInv' /\ PublishedIsInLog'
<1> SUFFICES Goal
  OBVIOUS
<1>0. /\ batch \in Seq(outbox) /\ buffer \in Seq(outbox) /\ log \in Seq(outbox)
      /\ Len(buffer) \in Nat /\ (waiting => ticking /\ batch # <<>>)
  BY LenProperties DEF Queues
(* The buffer without its oldest record. *)
<1>T. ASSUME buffer # <<>>
      PROVE  /\ Head(buffer) = buffer[1] /\ Head(buffer) \in outbox
             /\ Len(buffer) = 1 \/
                  /\ Tail(buffer) # <<>>
                  /\ Tail(buffer)[Len(Tail(buffer))] = buffer[Len(buffer)]
  <2>1. /\ Head(buffer) = buffer[1] /\ Head(buffer) \in outbox
        /\ Tail(buffer) \in Seq(outbox)
        /\ Len(Tail(buffer)) = Len(buffer) - 1
        /\ \A i \in 1..Len(Tail(buffer)) : Tail(buffer)[i] = buffer[i + 1]
    BY <1>0, <1>T, HeadTailProperties
  <2>2. Len(buffer) >= 1
    BY <1>0, <1>T, EmptySeq
  <2>3. CASE Len(buffer) > 1
    <3>1. Len(Tail(buffer)) \in 1..Len(Tail(buffer))
          /\ Len(Tail(buffer)) + 1 = Len(buffer)
      BY <1>0, <2>1, <2>3
    <3>2. Tail(buffer) # <<>>
      <4> DEFINE t == Tail(buffer)
      <4>1. t \in Seq(outbox) /\ Len(t) > 0
        BY <1>0, <2>1, <2>3
      <4> HIDE DEF t
      <4>2. t # <<>>
        BY <4>1, NotEmpty
      <4> QED BY <4>2 DEF t
    <3> QED BY <2>1, <3>1, <3>2
  <2> QED BY <1>0, <2>1, <2>2, <2>3
<1>2. CASE StartTick
  BY <1>0, <1>2 DEF StartTick, WaitInv, PublishedIsInLog
<1>3. CASE Send
  <2>1. Head(batch) \in outbox
    BY <1>0, <1>3, HeadTailProperties DEF Send
  <2>2. buffer' \in Seq(outbox) /\ Len(buffer') = Len(buffer) + 1
        /\ buffer'[Len(buffer) + 1] = Head(batch)
    BY <1>0, <1>3, <2>1, AppendProperties DEF Send
  <2>3. buffer' # <<>>
    BY <1>0, <2>2, EmptySeq
  <2> QED BY <1>3, <2>2, <2>3 DEF Send, WaitInv, PublishedIsInLog
<1>4. CASE Deliver
  <2>1. buffer # <<>> /\ log' = Append(log, Head(buffer)) /\ buffer' = Tail(buffer)
        /\ UNCHANGED <<published, batch, marked, waiting>>
    BY <1>4 DEF Deliver
  <2>2. ToSet(log') = ToSet(log) \cup {Head(buffer)}
    BY <1>0, <1>T, <2>1, AppendSet
  <2>3. PublishedIsInLog'
    BY <2>1, <2>2 DEF PublishedIsInLog
  <2>4. ASSUME waiting, buffer[Len(buffer)] = Head(batch)
        PROVE  \/ buffer' # <<>> /\ buffer'[Len(buffer')] = Head(batch)
               \/ Head(batch) \in ToSet(log')
    BY <1>T, <2>1, <2>2, <2>4
  <2> QED BY <2>1, <2>2, <2>3, <2>4 DEF WaitInv
<1>5. CASE Acknowledged
  <2>1. /\ waiting /\ buffer = <<>> /\ marked' = marked \cup {Head(batch)}
        /\ waiting' = FALSE /\ UNCHANGED <<published, log>>
    BY <1>5 DEF Acknowledged
  <2>2. Head(batch) \in ToSet(log)
    BY <2>1 DEF WaitInv
  <2> QED BY <2>1, <2>2 DEF WaitInv, PublishedIsInLog
<1>6. CASE CommitTick
  BY <1>0, <1>6 DEF CommitTick, WaitInv, PublishedIsInLog
<1>7. CASE Failed \/ RollbackTick \/ Crash
  BY <1>7 DEF Failed, RollbackTick, Crash, EndTick, WaitInv, PublishedIsInLog
<1>8. CASE Expire
  <2>1. /\ buffer # <<>> /\ buffer' = Tail(buffer) /\ (waiting => Len(buffer) > 1)
        /\ UNCHANGED <<published, batch, marked, waiting, log>>
    BY <1>8 DEF Expire
  <2>2. waiting => buffer' # <<>> /\ buffer'[Len(buffer')] = buffer[Len(buffer)]
    BY <1>T, <2>1
  <2> QED BY <2>1, <2>2 DEF WaitInv, PublishedIsInLog
<1> HIDE DEF Goal
<1> QED
  BY <1>2, <1>3, <1>4, <1>5, <1>6, <1>7, <1>8 DEF RelayStep

LEMMA NextWaits ==
    Typed /\ WaitInv /\ PublishedIsInLog /\ [Next]_vars
      => WaitInv' /\ PublishedIsInLog'
<1>1. ASSUME NEW s \in Sessions, NEW at \in 0..MaxTime, WaitInv, PublishedIsInLog,
             StoreEvent(s, at) \/ UNCHANGED vars
      PROVE  WaitInv' /\ PublishedIsInLog'
  BY <1>1 DEF StoreEvent, vars, WaitInv, PublishedIsInLog
<1>2. WaitInv /\ PublishedIsInLog /\ UNCHANGED vars => WaitInv' /\ PublishedIsInLog'
  BY DEF vars, WaitInv, PublishedIsInLog
<1> QED BY <1>1, <1>2, RelayWaits DEF Next, RelayStep, Typed

(* No event is lost between the outbox and the topic: a row that is marked
   has its record in the topic, though sends fail and are repeated, records
   expire, ticks are rolled back and the process dies. *)
THEOREM MarkedIsInTopic == Spec => []PublishedIsInLog
<1>1. Init => WaitInv /\ PublishedIsInLog
  BY DEF Init, WaitInv, PublishedIsInLog
<1> QED BY <1>1, InitTyped, NextTyped, NextWaits, PTL DEF Spec

-----------------------------------------------------------------------------
(* Until something fails, the topic is in order. *)

(* The service's part: of two events of a session, that with the greater
   version has not the smaller time. *)
StoredOf(s) == {e \in outbox : e.session = s}

StoreInv ==
    /\ \A e \in outbox : e.version <= Cardinality(StoredOf(e.session))
    /\ \A e, f \in outbox : e.session = f.session =>
         /\ e.version < f.version => e.at <= f.at
         /\ e.version = f.version => e = f

LEMMA NextStore == Typed /\ StoreInv /\ [Next]_vars => StoreInv'
<1> SUFFICES ASSUME Typed, StoreInv, [Next]_vars PROVE StoreInv'
  OBVIOUS
<1>0. outbox \subseteq Event /\ IsFiniteSet(outbox)
  BY DEF Typed, Queues
<1>1. ASSUME NEW s \in Sessions, NEW at \in 0..MaxTime, StoreEvent(s, at)
      PROVE  StoreInv'
  <2> DEFINE n == Cardinality(StoredOf(s))
             new == [session |-> s, version |-> n + 1, at |-> at]
  <2>1. /\ outbox' = outbox \cup {new}
        /\ \A e \in outbox : e.session = s => e.at <= at
    BY <1>1 DEF StoreEvent, StoredOf
  <2>2. IsFiniteSet(StoredOf(s)) /\ n \in Nat
    BY <1>0, FS_Subset, FS_CardinalityType DEF StoredOf
  <2>3. new.session = s /\ new.version = n + 1 /\ new.at = at
    OBVIOUS
  <2>4. \A e \in outbox : e.session = s => e.version <= n
    BY DEF StoreInv
  <2>5. \A e \in outbox : e.version \in Nat /\ e.at \in Nat
    BY <1>0 DEF Event
  <2>6. new \notin StoredOf(s)
    BY <2>2, <2>3, <2>4 DEF StoredOf
  <2>7. Cardinality(StoredOf(s) \cup {new}) = n + 1
    BY <2>2, <2>6, FS_AddElement
  <2> HIDE DEF n, new
  <2>8. StoredOf(s)' = StoredOf(s) \cup {new}
    BY <2>1, <2>3 DEF StoredOf
  <2>9. \A t : t # s => StoredOf(t)' = StoredOf(t)
    BY <2>1, <2>3 DEF StoredOf
  <2>10. ASSUME NEW e \in outbox' PROVE e.version <= Cardinality(StoredOf(e.session)')
    <3>1. CASE e.session = s
      <4>1. e = new \/ e.version <= n
        BY <2>1, <2>4, <3>1
      <4>2. e.version \in Nat /\ e.version <= n + 1
        BY <2>1, <2>2, <2>3, <2>5, <4>1
      <4> QED BY <2>7, <2>8, <3>1, <4>2
    <3>2. CASE e.session # s
      <4>1. e \in outbox /\ StoredOf(e.session)' = StoredOf(e.session)
        BY <2>1, <2>3, <2>9, <3>2
      <4> QED BY <4>1 DEF StoreInv
    <3> QED BY <3>1, <3>2
  <2>11. ASSUME NEW e \in outbox', NEW f \in outbox', e.session = f.session
         PROVE  /\ e.version < f.version => e.at <= f.at
                /\ e.version = f.version => e = f
    <3>1. CASE e = new /\ f = new
      BY <2>2, <2>3, <3>1
    <3>2. CASE e \in outbox /\ f = new
      <4>1. e.version <= n /\ e.at <= at
        BY <2>1, <2>3, <2>4, <2>11, <3>2
      <4> QED BY <2>2, <2>3, <2>5, <3>2, <4>1
    <3>3. CASE e = new /\ f \in outbox
      <4>1. f.version <= n
        BY <2>3, <2>4, <2>11, <3>3
      <4> QED BY <2>2, <2>3, <2>5, <3>3, <4>1
    <3>4. CASE e \in outbox /\ f \in outbox
      BY <2>11, <3>4 DEF StoreInv
    <3> QED BY <2>1, <3>1, <3>2, <3>3, <3>4
  <2> QED BY <2>10, <2>11 DEF StoreInv
<1>2. CASE outbox' = outbox
  BY <1>2 DEF StoreInv, StoredOf
<1> QED
  BY <1>1, <1>2 DEF Next, vars, StartTick, Send, Deliver, Acknowledged, CommitTick,
     Failed, Expire, RollbackTick, Crash, EndTick

(* The relay's part: by time, each session's events in the topic come before
   those of the tick, and both before the rest. *)
Before(S, T) == \A e \in S, f \in T : e.session = f.session => e.at <= f.at

InTime(q) ==
    \A i, j \in 1..Len(q) : i < j /\ q[i].session = q[j].session => q[i].at <= q[j].at

Rest == outbox \ (published \cup marked \cup ToSet(batch))

QuietInv ==
    /\ ~ticking => batch = <<>> /\ marked = {}
    /\ faults = 0 =>
         /\ buffer # <<>> => waiting /\ Len(buffer) = 1 /\ buffer[1] = Head(batch)
         /\ InTime(log) /\ InTime(batch)
         /\ Before(ToSet(log), ToSet(batch)) /\ Before(ToSet(log), Rest)
         /\ Before(ToSet(batch), Rest)

LEMMA Elements ==
    ASSUME NEW S, NEW q \in Seq(S)
    PROVE  /\ Len(q) \in Nat /\ ToSet(q) = {q[i] : i \in 1..Len(q)}
           /\ ToSet(q) \subseteq S
<1>1. Len(q) \in Nat /\ DOMAIN q = 1..Len(q)
  BY LenProperties
<1> QED BY <1>1, ElementOfSeq DEF ToSet

LEMMA AppendInTime ==
    ASSUME NEW S, NEW q \in Seq(S), NEW e \in S, InTime(q), Before(ToSet(q), {e})
    PROVE  InTime(Append(q, e))
<1> DEFINE r == Append(q, e)
<1>1. /\ Len(q) \in Nat /\ Len(r) = Len(q) + 1
      /\ \A i \in 1..Len(q) : r[i] = q[i] /\ q[i] \in ToSet(q)
      /\ r[Len(q) + 1] = e
  BY Elements, AppendProperties
<1> HIDE DEF r
<1> SUFFICES ASSUME NEW i \in 1..Len(r), NEW j \in 1..Len(r), i < j,
                    r[i].session = r[j].session
             PROVE  r[i].at <= r[j].at
  BY DEF InTime, r
<1>2. i \in 1..Len(q)
  BY <1>1
<1>3. CASE j \in 1..Len(q)
  BY <1>1, <1>2, <1>3 DEF InTime
<1>4. CASE j = Len(q) + 1
  BY <1>1, <1>2, <1>4 DEF Before
<1> QED BY <1>1, <1>3, <1>4

LEMMA TailInTime ==
    ASSUME NEW S, NEW q \in Seq(S), q # <<>>, InTime(q), \A e \in S : e.at \in Nat
    PROVE  /\ InTime(Tail(q)) /\ ToSet(q) = {Head(q)} \cup ToSet(Tail(q))
           /\ Head(q) \in S /\ Before({Head(q)}, ToSet(q))
<1> DEFINE t == Tail(q)
<1>1. /\ t \in Seq(S) /\ Head(q) = q[1] /\ Len(t) = Len(q) - 1
      /\ \A i \in 1..Len(t) : t[i] = q[i + 1]
  BY HeadTailProperties
<1>2. /\ Len(q) \in Nat /\ Len(q) >= 1 /\ Len(t) \in Nat
      /\ ToSet(q) = {q[i] : i \in 1..Len(q)} /\ ToSet(t) = {t[i] : i \in 1..Len(t)}
      /\ ToSet(q) \subseteq S
  <2>1. /\ Len(q) \in Nat /\ ToSet(q) = {q[i] : i \in 1..Len(q)}
        /\ ToSet(q) \subseteq S
    BY Elements
  <2>2. Len(q) # 0
    BY EmptySeq
  <2> HIDE DEF t
  <2>3. Len(t) \in Nat /\ ToSet(t) = {t[i] : i \in 1..Len(t)}
    BY <1>1, Elements
  <2> QED BY <2>1, <2>2, <2>3
<1>3. Head(q) \in S
  BY <1>1, <1>2
<1> HIDE DEF t
<1>4. InTime(t)
  <2> SUFFICES ASSUME NEW i \in 1..Len(t), NEW j \in 1..Len(t), i < j,
                      t[i].session = t[j].session
               PROVE  t[i].at <= t[j].at
    BY DEF InTime
  <2>1. /\ i + 1 \in 1..Len(q) /\ j + 1 \in 1..Len(q) /\ i + 1 < j + 1
        /\ t[i] = q[i + 1] /\ t[j] = q[j + 1]
    BY <1>1, <1>2
  <2> QED BY <2>1 DEF InTime
<1>5. ToSet(q) = {Head(q)} \cup ToSet(t)
  <2>1. ASSUME NEW i \in 1..Len(q) PROVE q[i] \in {Head(q)} \cup ToSet(t)
    <3>1. CASE i = 1
      BY <1>1, <3>1
    <3>2. CASE i # 1
      <4>1. i - 1 \in 1..Len(t) /\ t[i - 1] = q[i]
        BY <1>1, <1>2, <3>2
      <4> QED BY <1>2, <4>1
    <3> QED BY <3>1, <3>2
  <2>2. ASSUME NEW i \in 1..Len(t) PROVE t[i] \in ToSet(q)
    BY <1>1, <1>2
  <2> QED BY <1>1, <1>2, <2>1, <2>2
<1>6. Before({Head(q)}, ToSet(q))
  <2>1. ASSUME NEW i \in 1..Len(q), q[1].session = q[i].session PROVE q[1].at <= q[i].at
    <3>1. CASE i = 1
      BY <1>1, <1>3, <3>1
    <3>2. CASE i # 1
      BY <1>2, <2>1, <3>2 DEF InTime
    <3> QED BY <3>1, <3>2
  <2> QED BY <1>1, <1>2, <2>1 DEF Before
<1> QED BY <1>3, <1>4, <1>5, <1>6 DEF t

LEMMA NextQuiet == Typed /\ QuietInv /\ [Next]_vars => QuietInv'
<1> SUFFICES ASSUME Typed, QuietInv, [Next]_vars PROVE QuietInv'
  OBVIOUS
<1> DEFINE Goal == QuietInv'
<1> SUFFICES Goal
  OBVIOUS
<1>0. /\ batch \in Seq(outbox) /\ buffer \in Seq(outbox) /\ log \in Seq(outbox)
      /\ ToSet(batch) \subseteq outbox /\ ToSet(log) \subseteq outbox
      /\ faults \in Nat /\ (waiting => ticking /\ batch # <<>>)
      /\ \A e \in outbox : e.at \in Nat
  BY Elements DEF Typed, Queues, Event
<1>E. ToSet(<<>>) = {} /\ InTime(<<>>)
  BY DEF ToSet, InTime
<1>1. ASSUME NEW s \in Sessions, NEW at \in 0..MaxTime, StoreEvent(s, at)
      PROVE  Goal
  <2> DEFINE new == [session |-> s, version |-> Cardinality(StoredOf(s)) + 1, at |-> at]
  <2>1. new.session = s /\ new.at = at
    OBVIOUS
  <2>2. /\ outbox' = outbox \cup {new}
        /\ \A e \in outbox : e.session = s => e.at <= at
        /\ UNCHANGED <<published, ticking, batch, marked, waiting, buffer, log, faults>>
    BY <1>1 DEF StoreEvent, StoredOf
  <2> HIDE DEF new
  <2>3. Rest' \subseteq Rest \cup {new}
    BY <2>2 DEF Rest
  <2>4. Before(outbox, {new})
    BY <2>1, <2>2 DEF Before
  <2> QED BY <1>0, <2>2, <2>3, <2>4 DEF QuietInv, Before
<1>2. CASE StartTick
  <2>1. PICK q \in OldestPending : batch' = q
    BY <1>2 DEF StartTick
  <2>2. /\ batch = <<>> /\ marked = {} /\ ticking' = TRUE
        /\ UNCHANGED <<outbox, published, marked, waiting, buffer, log, faults>>
    BY <1>2 DEF StartTick, QuietInv
  <2>3. /\ q \in Seq(outbox) /\ DOMAIN q = 1..Len(q) /\ Len(q) \in Nat
        /\ ToSet(q) = {q[i] : i \in 1..Len(q)}
    BY PendingType, Elements, LenProperties DEF Typed
  <2>4. ToSet(q) \subseteq outbox \ published
    <3>1. PICK S \in SUBSET (outbox \ published) : q \in SetToSeqs(S)
      BY DEF OldestPending, kSubset
    <3>2. \A i \in DOMAIN q : q[i] \in S
      BY <3>1 DEF SetToSeqs
    <3> QED BY <2>3, <3>1, <3>2
  <2>5. /\ \A i, j \in DOMAIN q : i < j => q[i].at <= q[j].at
        /\ \A e \in (outbox \ published) \ ToSet(q) : \A i \in DOMAIN q : q[i].at <= e.at
    BY DEF OldestPending
  <2>6. Rest = outbox \ published /\ Rest' = Rest \ ToSet(q)
    BY <1>E, <2>1, <2>2 DEF Rest
  <2>7. InTime(q)
    BY <2>3, <2>5 DEF InTime
  <2>8. Before(ToSet(q), Rest')
    BY <2>3, <2>5, <2>6 DEF Before
  <2>9. faults = 0 => Before(ToSet(log), ToSet(q)) /\ Before(ToSet(log), Rest')
    BY <2>4, <2>6 DEF QuietInv, Before
  <2>10. faults = 0 => buffer = <<>>
    BY <1>0, <2>2 DEF QuietInv
  <2> QED BY <2>1, <2>2, <2>7, <2>8, <2>9, <2>10 DEF QuietInv
<1>3. CASE Send
  <2>1. /\ ticking /\ ~waiting /\ waiting' = TRUE /\ buffer' = Append(buffer, Head(batch))
        /\ UNCHANGED <<outbox, published, ticking, batch, marked, log, faults>>
    BY <1>3 DEF Send
  <2>2. Head(batch) \in outbox
    BY <1>0, <1>3, HeadTailProperties DEF Send
  <2>3. faults = 0 => Len(buffer') = 1 /\ buffer'[1] = Head(batch)
    <3> SUFFICES ASSUME faults = 0 PROVE Len(buffer') = 1 /\ buffer'[1] = Head(batch)
      OBVIOUS
    <3>1. buffer = <<>> /\ Len(buffer) = 0
      BY <2>1, EmptySeq DEF QuietInv
    <3> QED BY <1>0, <2>1, <2>2, <3>1, AppendProperties
  <2> QED BY <2>1, <2>3 DEF QuietInv, Rest
<1>4. CASE Deliver
  <2>1. /\ buffer # <<>> /\ log' = Append(log, Head(buffer)) /\ buffer' = Tail(buffer)
        /\ UNCHANGED <<outbox, published, ticking, batch, marked, waiting, faults>>
    BY <1>4 DEF Deliver
  <2>2. CASE faults = 0
    <3> DEFINE h == Head(batch)
    <3>1. /\ waiting /\ Len(buffer) = 1 /\ Head(buffer) = h /\ batch # <<>>
          /\ InTime(log) /\ InTime(batch)
          /\ Before(ToSet(log), ToSet(batch)) /\ Before(ToSet(log), Rest)
          /\ Before(ToSet(batch), Rest)
      BY <1>0, <2>1, <2>2, HeadTailProperties DEF QuietInv
    <3>2. /\ h \in outbox /\ h \in ToSet(batch) /\ Before({h}, ToSet(batch))
      BY <1>0, <3>1, TailInTime
    <3>3. buffer' = <<>>
      <4>1. Tail(buffer) \in Seq(outbox) /\ Len(Tail(buffer)) = 0
        BY <1>0, <2>1, <3>1, HeadTailProperties
      <4> QED BY <2>1, <4>1, EmptySeq
    <3> HIDE DEF h
    <3>4. log' = Append(log, h) /\ ToSet(log') = ToSet(log) \cup {h}
      BY <1>0, <2>1, <3>1, <3>2, AppendSet
    <3>5. InTime(log')
      <4>1. Before(ToSet(log), {h})
        BY <3>1, <3>2 DEF Before
      <4> QED BY <1>0, <3>1, <3>2, <3>4, <4>1, AppendInTime
    <3>6. Before(ToSet(log'), ToSet(batch)) /\ Before(ToSet(log'), Rest)
      BY <3>1, <3>2, <3>4 DEF Before
    <3> QED BY <2>1, <3>1, <3>3, <3>5, <3>6 DEF QuietInv, Rest
  <2>3. CASE faults # 0
    BY <2>1, <2>3 DEF QuietInv
  <2> QED BY <2>2, <2>3
<1>5. CASE Acknowledged
  <2>1. /\ waiting /\ buffer = <<>> /\ marked' = marked \cup {Head(batch)}
        /\ batch' = Tail(batch) /\ ticking /\ batch # <<>>
        /\ UNCHANGED <<outbox, published, ticking, buffer, log, faults>>
    BY <1>0, <1>5 DEF Acknowledged
  <2>2. CASE faults = 0
    <3>1. /\ InTime(log) /\ InTime(batch)
          /\ Before(ToSet(log), ToSet(batch)) /\ Before(ToSet(log), Rest)
          /\ Before(ToSet(batch), Rest)
      BY <2>2 DEF QuietInv
    <3>2. InTime(batch') /\ ToSet(batch) = {Head(batch)} \cup ToSet(batch')
      BY <1>0, <2>1, <3>1, TailInTime
    <3>3. Rest' = Rest
      BY <2>1, <3>2 DEF Rest
    <3> QED BY <2>1, <3>1, <3>2, <3>3 DEF QuietInv, Before
  <2>3. CASE faults # 0
    BY <2>1, <2>3 DEF QuietInv
  <2> QED BY <2>2, <2>3
<1>6. CASE CommitTick
  <2>1. Rest' = Rest
    BY <1>6 DEF CommitTick, Rest
  <2> QED BY <1>0, <1>6, <2>1 DEF CommitTick, QuietInv
<1>7. CASE Failed \/ Expire \/ RollbackTick \/ Crash
  <2>1. faults' # 0
    BY <1>0, <1>7 DEF Failed, Expire, RollbackTick, Crash, Fault
  <2>2. ~ticking' => batch' = <<>> /\ marked' = {}
    BY <1>7 DEF Failed, Expire, RollbackTick, Crash, EndTick, QuietInv
  <2> QED BY <2>1, <2>2 DEF QuietInv
<1>8. CASE UNCHANGED vars
  BY <1>8 DEF vars, QuietInv, Rest
<1> HIDE DEF Goal
<1> QED
  BY <1>1, <1>2, <1>3, <1>4, <1>5, <1>6, <1>7, <1>8 DEF Next

(* Until something fails, the topic holds each session's events in the order
   of their versions, those of one time excepted: the query sorts by time, and
   times follow versions. *)
THEOREM QuietTopicIsOrdered == Spec => []QuietLogIsOrdered
<1>1. Init => StoreInv /\ QuietInv
  <2> SUFFICES ASSUME Init PROVE StoreInv /\ QuietInv
    OBVIOUS
  <2>1. outbox = {} /\ batch = <<>> /\ buffer = <<>> /\ log = <<>> /\ marked = {}
    BY DEF Init
  <2>2. ToSet(<<>>) = {} /\ InTime(<<>>)
    BY DEF ToSet, InTime
  <2> QED BY <2>1, <2>2 DEF StoreInv, QuietInv, Before
<1>2. Typed /\ StoreInv /\ QuietInv => QuietLogIsOrdered
  <2> SUFFICES ASSUME Typed, StoreInv, QuietInv, faults = 0,
                      NEW i \in DOMAIN log, NEW j \in DOMAIN log, i < j,
                      log[i].session = log[j].session
               PROVE  log[i].version < log[j].version \/ log[i].at = log[j].at
    BY DEF QuietLogIsOrdered
  <2>1. log \in Seq(outbox) /\ outbox \subseteq Event
    BY DEF Typed, Queues
  <2>2. DOMAIN log = 1..Len(log) /\ log[i] \in outbox /\ log[j] \in outbox
    BY <2>1, LenProperties, ElementOfSeq
  <2>3. log[i].at <= log[j].at
    BY <2>2 DEF QuietInv, InTime
  <2>4. log[i].at \in Nat /\ log[j].at \in Nat
        /\ log[i].version \in Nat /\ log[j].version \in Nat
    BY <2>1, <2>2 DEF Event
  <2>5. /\ log[j].version < log[i].version => log[j].at <= log[i].at
        /\ log[j].version = log[i].version => log[j] = log[i]
    BY <2>2 DEF StoreInv
  <2> QED BY <2>3, <2>4, <2>5
<1> QED BY <1>1, <1>2, InitTyped, NextTyped, NextStore, NextQuiet, PTL DEF Spec

=============================================================================
