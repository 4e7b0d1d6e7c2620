--------------------------- MODULE PipelineProofs ---------------------------
(* Theorems about Pipeline, for any sessions, participants and requests: the *)
(* service and the store that it composes are those of SocialSplit and of    *)
(* AnalyticsStore, so that what is proved of these holds of the composition; *)
(* and what the projections say is what the tables say.                      *)
EXTENDS Pipeline, TLAPS

SplitTheorems == INSTANCE SocialSplitProofs
RelayTheorems == INSTANCE OutboxRelayProofs WITH MaxVersion <- 0
StoreTheorems == INSTANCE AnalyticsStoreProofs WITH
                    Aggregates <- Sessions,
                    EventIds <- Requests,
                    Offsets <- Nat,
                    Currencies <- {Currency},
                    MaxNow <- MaxTime

LEMMA SplitAssumptions ==
    /\ SplitTheorems!AmountsAssumption /\ SplitTheorems!OverlapAssumption
    /\ SplitTheorems!MaxTimeAssumption /\ SplitTheorems!NoneAssumption
BY SplitAssumption
   DEF Split!AmountsAssumption, SplitTheorems!AmountsAssumption,
       Split!OverlapAssumption, SplitTheorems!OverlapAssumption,
       Split!MaxTimeAssumption, SplitTheorems!MaxTimeAssumption,
       Split!NoneAssumption, SplitTheorems!NoneAssumption

(* The actions here are those that the theorems are about. *)
LEMMA SameSettled == ASSUME NEW s PROVE Split!Settled(s) <=> SplitTheorems!Settled(s)
BY DEF Split!Settled, SplitTheorems!Settled, Split!PartsOf, SplitTheorems!PartsOf,
     Split!SharesOf, SplitTheorems!SharesOf, Split!SumFunction,
     SplitTheorems!SumFunction, Split!SumFunctionOnSet,
     SplitTheorems!SumFunctionOnSet, Split!FoldFunctionOnSet,
     SplitTheorems!FoldFunctionOnSet, Split!MapThenFoldSet,
     SplitTheorems!MapThenFoldSet

LEMMA SameActions ==
    ASSUME NEW r, NEW s, NEW a, NEW p, NEW t
    PROVE  /\ Split!Create(r, s, a) <=> SplitTheorems!Create(r, s, a)
           /\ Split!LoadAddParticipant(r, s, a) <=> SplitTheorems!LoadAddParticipant(r, s, a)
           /\ Split!LoadAuthorize(r, s, p) <=> SplitTheorems!LoadAuthorize(r, s, p)
           /\ Split!LoadClose(r, s) <=> SplitTheorems!LoadClose(r, s)
           /\ Split!CommitAddParticipant(t, p) <=> SplitTheorems!CommitAddParticipant(t, p)
           /\ Split!CommitAuthorize(t) <=> SplitTheorems!CommitAuthorize(t)
           /\ Split!CommitClose(t) <=> SplitTheorems!CommitClose(t)
           /\ Split!Rollback(t) <=> SplitTheorems!Rollback(t)
           /\ Split!Tick <=> SplitTheorems!Tick
<1>1. Split!Create(r, s, a) <=> SplitTheorems!Create(r, s, a)
  BY DEF Split!Create, SplitTheorems!Create, Split!Store, SplitTheorems!Store,
     Split!Stored, SplitTheorems!Stored
<1>2. Split!LoadAddParticipant(r, s, a) <=> SplitTheorems!LoadAddParticipant(r, s, a)
  BY DEF Split!LoadAddParticipant, SplitTheorems!LoadAddParticipant, Split!Load,
     SplitTheorems!Load
<1>3. Split!LoadAuthorize(r, s, p) <=> SplitTheorems!LoadAuthorize(r, s, p)
  BY DEF Split!LoadAuthorize, SplitTheorems!LoadAuthorize, Split!Load,
     SplitTheorems!Load, Split!PartsOf, SplitTheorems!PartsOf
<1>4. Split!LoadClose(r, s) <=> SplitTheorems!LoadClose(r, s)
  BY SameSettled DEF Split!LoadClose, SplitTheorems!LoadClose, Split!Load, SplitTheorems!Load
<1>5. Split!CommitAddParticipant(t, p) <=> SplitTheorems!CommitAddParticipant(t, p)
  BY DEF Split!CommitAddParticipant, SplitTheorems!CommitAddParticipant, Split!Commit,
     SplitTheorems!Commit, Split!Store, SplitTheorems!Store, Split!Stored,
     SplitTheorems!Stored
<1>6. Split!CommitAuthorize(t) <=> SplitTheorems!CommitAuthorize(t)
  BY DEF Split!CommitAuthorize, SplitTheorems!CommitAuthorize, Split!Commit,
     SplitTheorems!Commit, Split!Store, SplitTheorems!Store
<1>7. Split!CommitClose(t) <=> SplitTheorems!CommitClose(t)
  BY DEF Split!CommitClose, SplitTheorems!CommitClose, Split!Commit,
     SplitTheorems!Commit, Split!Store, SplitTheorems!Store
<1>8. Split!Rollback(t) <=> SplitTheorems!Rollback(t)
  BY DEF Split!Rollback, SplitTheorems!Rollback
<1>9. Split!Tick <=> SplitTheorems!Tick
  BY DEF Split!Tick, SplitTheorems!Tick
<1> QED BY <1>1, <1>2, <1>3, <1>4, <1>5, <1>6, <1>7, <1>8, <1>9

LEMMA SameNext == Split!Next <=> SplitTheorems!Next
<1>1. Split!Arriving = SplitTheorems!Arriving
  BY DEF Split!Arriving, SplitTheorems!Arriving
<1> QED BY <1>1, SameActions DEF Split!Next, SplitTheorems!Next

-----------------------------------------------------------------------------

LEMMA ServiceSteps == [Next]_vars => [SplitTheorems!Next]_(SplitTheorems!vars)
<1> SUFFICES ASSUME [Next]_vars
             PROVE  SplitTheorems!Next \/ UNCHANGED SplitTheorems!vars
  OBVIOUS
<1> USE DEF SplitTheorems!vars, splitVars
<1>1. CASE Serve
  BY <1>1, SameNext DEF Serve
<1>2. CASE Pass(RelayThread \/ Relay!Deliver)
  BY <1>2 DEF Pass, RelayThread, Relay!Deliver, Relay!StartTick, Relay!Send,
     Relay!Acknowledged, Relay!CommitTick
<1>3. CASE Pass(RelayFails)
  BY <1>3 DEF Pass, RelayFails, Relay!Failed, Relay!Expire, Relay!RollbackTick,
     Relay!Crash, Relay!EndTick
<1>4. CASE Consume \/ StoreStep \/ UNCHANGED vars
  BY <1>4 DEF Consume, StoreStep, vars
<1> QED BY <1>1, <1>2, <1>3, <1>4 DEF Next

(* Every step of the composition is a step of the service or leaves it alone:
   no step of relay, consumer or store changes what a client sees. *)
THEOREM ServiceIsSocialSplit == Spec => SplitTheorems!Spec
<1>1. Init => SplitTheorems!Init
  BY DEF Init, Split!Init, SplitTheorems!Init
<1> QED BY <1>1, ServiceSteps, PTL DEF Spec, SplitTheorems!Spec

(* No event in the outbox, and so none that the relay may send, announces a
   version whose predecessor is not there. *)
THEOREM NoGap == Spec => []NoVersionGap
<1>1. SplitTheorems!Spec => []SplitTheorems!NoVersionGap
  BY SplitTheorems!NoGap, SplitAssumptions
<1>2. SplitTheorems!NoVersionGap <=> NoVersionGap
  BY DEF NoVersionGap, Split!NoVersionGap, SplitTheorems!NoVersionGap
<1> QED BY <1>1, <1>2, ServiceIsSocialSplit, PTL

(* What the outbox tells the rest of the system is what the tables say, at
   every moment of the composition and however requests overlap. *)
THEOREM TablesMatch == Spec => []OutboxMatchesTables
<1>1. SplitTheorems!Spec => []SplitTheorems!OutboxMatchesTables
  BY SplitTheorems!TablesMatch, SplitAssumptions
<1>2. SplitTheorems!OutboxMatchesTables <=> OutboxMatchesTables
  BY DEF OutboxMatchesTables, Split!OutboxMatchesTables,
     SplitTheorems!OutboxMatchesTables, Split!EventsOf, SplitTheorems!EventsOf
<1> QED BY <1>1, <1>2, ServiceIsSocialSplit, PTL

-----------------------------------------------------------------------------
(* The relay. *)

LEMMA RelayAssumptions ==
    RelayTheorems!BatchAssumption /\ RelayTheorems!BoundsAssumption
BY RelayAssumption, SplitAssumption
   DEF RelayTheorems!BatchAssumption, RelayTheorems!BoundsAssumption,
       Split!MaxTimeAssumption

LEMMA SameRelay ==
    /\ Relay!StartTick <=> RelayTheorems!StartTick
    /\ Relay!Send <=> RelayTheorems!Send
    /\ Relay!Deliver <=> RelayTheorems!Deliver
    /\ Relay!Acknowledged <=> RelayTheorems!Acknowledged
    /\ Relay!CommitTick <=> RelayTheorems!CommitTick
    /\ Relay!Failed <=> RelayTheorems!Failed
    /\ Relay!Expire <=> RelayTheorems!Expire
    /\ Relay!RollbackTick <=> RelayTheorems!RollbackTick
    /\ Relay!Crash <=> RelayTheorems!Crash
    /\ Relay!Init <=> RelayTheorems!Init
<1>1. Relay!StartTick <=> RelayTheorems!StartTick
  <2>1. Relay!OldestPending = RelayTheorems!OldestPending
    <3>1. \A S : Relay!Cardinality(S) = RelayTheorems!Cardinality(S)
      BY DEF Relay!Cardinality, RelayTheorems!Cardinality
    <3>2. \A S : Relay!SetToSeqs(S) = RelayTheorems!SetToSeqs(S)
      BY <3>1 DEF Relay!SetToSeqs, RelayTheorems!SetToSeqs, Relay!Injection,
         RelayTheorems!Injection
    <3>3. \A k, S : Relay!kSubset(k, S) = RelayTheorems!kSubset(k, S)
      BY <3>1 DEF Relay!kSubset, RelayTheorems!kSubset
    <3>4. \A a, b : Relay!Smaller(a, b) = RelayTheorems!Smaller(a, b)
      BY DEF Relay!Smaller, RelayTheorems!Smaller
    <3>5. \A q : Relay!ToSet(q) = RelayTheorems!ToSet(q)
      BY DEF Relay!ToSet, RelayTheorems!ToSet
    <3> QED
      BY <3>1, <3>2, <3>3, <3>4, <3>5, Zenon
         DEF Relay!OldestPending, RelayTheorems!OldestPending
  <2> QED BY <2>1 DEF Relay!StartTick, RelayTheorems!StartTick
<1>2. /\ Relay!Send <=> RelayTheorems!Send
      /\ Relay!Deliver <=> RelayTheorems!Deliver
      /\ Relay!Acknowledged <=> RelayTheorems!Acknowledged
      /\ Relay!CommitTick <=> RelayTheorems!CommitTick
  BY DEF Relay!Send, RelayTheorems!Send, Relay!Deliver, RelayTheorems!Deliver,
     Relay!Acknowledged, RelayTheorems!Acknowledged, Relay!CommitTick,
     RelayTheorems!CommitTick
<1>3. /\ Relay!Failed <=> RelayTheorems!Failed
      /\ Relay!Expire <=> RelayTheorems!Expire
      /\ Relay!RollbackTick <=> RelayTheorems!RollbackTick
      /\ Relay!Crash <=> RelayTheorems!Crash
  BY DEF Relay!Failed, RelayTheorems!Failed, Relay!Expire, RelayTheorems!Expire,
     Relay!RollbackTick, RelayTheorems!RollbackTick, Relay!Crash, RelayTheorems!Crash,
     Relay!Fault, RelayTheorems!Fault, Relay!EndTick, RelayTheorems!EndTick
<1>4. Relay!Init <=> RelayTheorems!Init
  BY DEF Relay!Init, RelayTheorems!Init
<1> QED BY <1>1, <1>2, <1>3, <1>4

(* The relay's part of the state.  The service adds to the outbox and does   *)
(* nothing else to it.                                                       *)
RelayInv ==
    RelayTheorems!Queues /\ RelayTheorems!WaitInv /\ RelayTheorems!PublishedIsInLog

LEMMA InitRelay == Init => RelayInv
<1> SUFFICES ASSUME Init PROVE RelayInv
  OBVIOUS
<1>1. RelayTheorems!Init
  BY SameRelay DEF Init
<1>2. RelayTheorems!Queues
  BY <1>1, RelayAssumptions, RelayTheorems!InitQueues
<1>3. RelayTheorems!WaitInv /\ RelayTheorems!PublishedIsInLog
  BY <1>1 DEF RelayTheorems!Init, RelayTheorems!WaitInv, RelayTheorems!PublishedIsInLog
<1> QED BY <1>2, <1>3 DEF RelayInv

LEMMA ServeStores ==
    ASSUME Serve
    PROVE  outbox' = outbox \/ \E e : outbox' = outbox \cup {e}
BY DEF Serve, Split!Next, Split!Create, Split!LoadAddParticipant, Split!LoadAuthorize,
   Split!LoadClose, Split!Load, Split!CommitAddParticipant, Split!CommitAuthorize,
   Split!CommitClose, Split!Commit, Split!Store, Split!Rollback, Split!Tick

LEMMA NextRelay == RelayInv /\ [Next]_vars => RelayInv'
<1> SUFFICES ASSUME RelayInv, [Next]_vars PROVE RelayInv'
  OBVIOUS
<1>0. RelayTheorems!Queues /\ RelayTheorems!WaitInv /\ RelayTheorems!PublishedIsInLog
  BY DEF RelayInv
<1>1. CASE Serve
  <2>1. UNCHANGED <<published, ticking, batch, marked, waiting, buffer, log>>
    BY <1>1 DEF Serve, relayVars
  <2>2. RelayTheorems!IsFiniteSet(outbox) /\ outbox \subseteq outbox'
    BY <1>0, <1>1, ServeStores DEF RelayTheorems!Queues
  <2>3. RelayTheorems!IsFiniteSet(outbox')
    <3>1. CASE outbox' = outbox
      BY <2>2, <3>1
    <3>2. ASSUME NEW e, outbox' = outbox \cup {e}
          PROVE  RelayTheorems!IsFiniteSet(outbox')
      BY <2>2, <3>2, RelayTheorems!FS_AddElement
    <3> QED BY <1>1, <3>1, <3>2, ServeStores
  <2>4. RelayTheorems!Queues'
    BY <1>0, <2>1, <2>2, <2>3, RelayAssumptions, RelayTheorems!MoreRows
  <2>5. RelayTheorems!WaitInv' /\ RelayTheorems!PublishedIsInLog'
    BY <1>0, <2>1 DEF RelayTheorems!WaitInv, RelayTheorems!PublishedIsInLog
  <2> QED BY <2>4, <2>5 DEF RelayInv
<1>2. CASE Pass(RelayThread \/ Relay!Deliver) \/ Pass(RelayFails)
  <2>1. RelayTheorems!RelayStep
    BY <1>2, SameRelay DEF Pass, RelayThread, RelayFails, RelayTheorems!RelayStep
  <2>2. RelayTheorems!Queues'
    BY <1>0, <2>1, RelayAssumptions, RelayTheorems!RelayQueues
  <2>3. RelayTheorems!WaitInv' /\ RelayTheorems!PublishedIsInLog'
    BY <1>0, <2>1, RelayAssumptions, RelayTheorems!RelayWaits
  <2> QED BY <2>2, <2>3 DEF RelayInv
<1>3. CASE Consume \/ StoreStep \/ UNCHANGED vars
  <2>1. UNCHANGED <<outbox, published, ticking, batch, marked, waiting, buffer, log>>
    BY <1>3 DEF Consume, StoreStep, vars, relayVars
  <2> QED
    BY <1>0, <2>1 DEF RelayInv, RelayTheorems!Queues, RelayTheorems!WaitInv,
       RelayTheorems!PublishedIsInLog
<1> QED BY <1>1, <1>2, <1>3 DEF Next

(* In the composition too a row that is marked has its record in the topic,  *)
(* however the relay's failures fall between the requests of the service.    *)
THEOREM MarkedIsInTopic == Spec => []RelayTheorems!PublishedIsInLog
<1>1. RelayInv => RelayTheorems!PublishedIsInLog
  BY DEF RelayInv
<1> QED BY <1>1, InitRelay, NextRelay, PTL DEF Spec

-----------------------------------------------------------------------------
(* The store. *)

(* The service's books hold in the composition. *)
LEMMA BooksHold == Spec => []SplitTheorems!BooksInv
<1>1. SplitTheorems!Spec => []SplitTheorems!BooksInv
  BY SplitTheorems!Books, SplitAssumptions
<1> QED BY <1>1, ServiceIsSocialSplit, PTL

LEMMA StoreAssumptions ==
    /\ StoreTheorems!MessagesAssumption /\ StoreTheorems!OffsetsAssumption
    /\ StoreTheorems!DeadlineAssumption /\ StoreTheorems!NoneAssumption
    /\ StoreTheorems!WindowAssumption
<1>1. Messages \subseteq StoreTheorems!Message
  BY DEF Messages, StoreTheorems!Message, Split!Kinds
<1>2. \A m \in Messages : m.kind \in {"ParticipantAdded", "ParticipantAuthorized"}
                            => m.pid \in Participants
  BY DEF Messages
<1>3. StoreTheorems!MessagesAssumption
  BY <1>1, <1>2 DEF StoreTheorems!MessagesAssumption
<1> QED
  BY <1>3, SplitAssumption, StoreAssumption
     DEF StoreTheorems!OffsetsAssumption, StoreTheorems!DeadlineAssumption,
         StoreTheorems!NoneAssumption, StoreTheorems!WindowAssumption,
         Split!NoneAssumption, Split!MaxTimeAssumption

LEMMA SameStoreActions ==
    ASSUME NEW m, NEW off
    PROVE  /\ Store!IngestRejected(m, off) <=> StoreTheorems!IngestRejected(m, off)
           /\ Store!IngestDuplicate(m, off) <=> StoreTheorems!IngestDuplicate(m, off)
           /\ Store!IngestNew(m, off) <=> StoreTheorems!IngestNew(m, off)
           /\ Store!DrainApply <=> StoreTheorems!DrainApply
           /\ Store!DrainFails <=> StoreTheorems!DrainFails
           /\ Store!DrainEnds <=> StoreTheorems!DrainEnds
           /\ Store!Commit <=> StoreTheorems!Commit
           /\ Store!Init <=> StoreTheorems!Init
<1>1. Store!IngestRejected(m, off) <=> StoreTheorems!IngestRejected(m, off)
  BY DEF Store!IngestRejected, StoreTheorems!IngestRejected, Store!Begin,
     StoreTheorems!Begin, Store!Valid, StoreTheorems!Valid
<1>2. Store!IngestDuplicate(m, off) <=> StoreTheorems!IngestDuplicate(m, off)
  BY DEF Store!IngestDuplicate, StoreTheorems!IngestDuplicate, Store!Begin,
     StoreTheorems!Begin, Store!Valid, StoreTheorems!Valid
<1>3. Store!IngestNew(m, off) <=> StoreTheorems!IngestNew(m, off)
  BY DEF Store!IngestNew, StoreTheorems!IngestNew, Store!Begin,
     StoreTheorems!Begin, Store!Valid, StoreTheorems!Valid
<1>4. Store!DrainApply <=> StoreTheorems!DrainApply
  BY DEF Store!DrainApply, StoreTheorems!DrainApply, Store!Turn, StoreTheorems!Turn,
     Store!Projectable, StoreTheorems!Projectable, Store!Applied, StoreTheorems!Applied,
     Store!Projected, StoreTheorems!Projected, Store!PartsAfter,
     StoreTheorems!PartsAfter, Store!NoParts, StoreTheorems!NoParts
<1>5. Store!DrainFails <=> StoreTheorems!DrainFails
  BY DEF Store!DrainFails, StoreTheorems!DrainFails, Store!Turn, StoreTheorems!Turn,
     Store!Projectable, StoreTheorems!Projectable
<1>6. Store!DrainEnds <=> StoreTheorems!DrainEnds
  BY DEF Store!DrainEnds, StoreTheorems!DrainEnds, Store!Turn, StoreTheorems!Turn
<1>7. Store!Commit <=> StoreTheorems!Commit
  BY DEF Store!Commit, StoreTheorems!Commit
<1>8. Store!Init <=> StoreTheorems!Init
  BY DEF StoreTheorems!Init, Store!Init, StoreTheorems!Empty, Store!Empty,
     StoreTheorems!Absent, Store!Absent, StoreTheorems!NoParts, Store!NoParts
<1> QED BY <1>1, <1>2, <1>3, <1>4, <1>5, <1>6, <1>7, <1>8

(* The record of a stored event is one that the store may be given. *)
LEMMA MessageType ==
    ASSUME SplitTheorems!BooksInv, NEW e \in outbox
    PROVE  MessageOf(e) \in Messages
<1>1. /\ e \in SplitTheorems!Event
      /\ IF e.kind = "SplitCreated" THEN e.version = 1 ELSE e.version >= 2
      /\ e.kind \in {"ParticipantAdded", "ParticipantAuthorized"} => e.pid \in Participants
  BY DEF SplitTheorems!BooksInv, SplitTheorems!TypeOK, SplitTheorems!StoredInv
<1>2. /\ e.id \in Requests /\ e.kind \in SplitTheorems!Kinds /\ e.session \in Sessions
      /\ e.version \in Nat /\ e.at \in Nat /\ e.pid \in Participants \cup {None}
      /\ e.amount \in Nat
  BY <1>1 DEF SplitTheorems!Event
<1>3. e.version \in Nat \ {0}
  BY <1>1, <1>2
<1> QED
  BY <1>1, <1>2, <1>3 DEF MessageOf, Messages, Split!Kinds, SplitTheorems!Kinds

(* The next record of the topic is that of a stored event. *)
LEMMA NextRecord ==
    ASSUME RelayInv, NEW i \in Nat, i < Len(log)
    PROVE  log[i + 1] \in outbox /\ i + 1 \in 1..Len(log)
<1>1. log \in Seq(outbox) /\ Len(log) \in Nat
  BY DEF RelayInv, RelayTheorems!Queues
<1> QED BY <1>1

LEMMA StoreSteps ==
    ASSUME SplitTheorems!BooksInv, RelayInv, StoreTheorems!Typed, [Next]_vars
    PROVE  [StoreTheorems!Next]_(StoreTheorems!vars)
<1> SUFFICES StoreTheorems!Next \/ UNCHANGED <<db, txn>>
  BY DEF StoreTheorems!vars
<1>1. CASE Consume
  <2> DEFINE m == MessageOf(log[db.checkpoint + 1])
  <2>1. db.checkpoint \in Nat
    BY DEF StoreTheorems!Typed, StoreTheorems!TypeOK, StoreTheorems!Database
  <2>2. log[db.checkpoint + 1] \in outbox
    BY <1>1, <2>1, NextRecord DEF Consume
  <2>3. m \in Messages
    BY <2>2, MessageType
  <2>4. \/ Store!IngestRejected(m, db.checkpoint)
        \/ Store!IngestDuplicate(m, db.checkpoint)
        \/ Store!IngestNew(m, db.checkpoint)
    BY <1>1 DEF Consume
  <2> HIDE DEF m
  <2> QED BY <2>1, <2>3, <2>4, SameStoreActions DEF StoreTheorems!Next
<1>2. CASE StoreStep
  BY <1>2, SameStoreActions DEF StoreStep, StoreTheorems!Next
<1>3. CASE Serve \/ Pass(RelayThread \/ Relay!Deliver) \/ Pass(RelayFails) \/ UNCHANGED vars
  BY <1>3 DEF Serve, Pass, vars, storeVars
<1> QED BY <1>1, <1>2, <1>3 DEF Next

(* Consumer and store are the store of AnalyticsStore, and what is delivered *)
(* to it are records of stored events: whatever is proved of that store      *)
(* holds of the composition.                                                 *)
THEOREM StoreIsAnalyticsStore == Spec => StoreTheorems!Spec
<1>1. Init => StoreTheorems!Init /\ StoreTheorems!Typed
  BY StoreAssumptions, SameStoreActions, StoreTheorems!InitTyped DEF Init
<1>2. /\ SplitTheorems!BooksInv /\ RelayInv /\ StoreTheorems!Typed
      /\ [Next]_vars
      => StoreTheorems!Typed' /\ [StoreTheorems!Next]_(StoreTheorems!vars)
  BY StoreSteps, StoreAssumptions, StoreTheorems!NextTyped
<1> QED
  BY <1>1, <1>2, BooksHold, InitRelay, NextRelay, PTL DEF Spec, StoreTheorems!Spec

LEMMA StoreHolds == Spec => []StoreTheorems!StoreInv
<1>1. StoreTheorems!Spec => []StoreTheorems!StoreInv
  BY StoreTheorems!StoreHolds, StoreAssumptions
<1> QED BY <1>1, StoreIsAnalyticsStore, PTL

-----------------------------------------------------------------------------
(* What has been read of the topic. *)

Records == {MessageOf(e) : e \in outbox}

(* Every record behind the checkpoint has a row, every row of the inbox is   *)
(* the record of a stored event, and a transaction is of the record at the   *)
(* checkpoint.                                                               *)
ReadInv ==
    /\ db.checkpoint <= Len(log)
    /\ \A i \in 1..db.checkpoint : MessageOf(log[i]) \in StoreTheorems!Rows(db)
    /\ db.inbox \subseteq Records
    /\ txn # None => /\ txn.offset = db.checkpoint /\ db.checkpoint < Len(log)
                     /\ txn.msg = MessageOf(log[db.checkpoint + 1])
                     /\ txn.db.inbox \subseteq Records

(* Of the relay's steps only one touches the topic, and that adds to it. *)
LEMMA TopicGrows ==
    ASSUME RelayInv, Pass(RelayThread \/ Relay!Deliver) \/ Pass(RelayFails)
    PROVE  /\ Len(log) <= Len(log') /\ \A i \in 1..Len(log) : log'[i] = log[i]
           /\ outbox' = outbox /\ UNCHANGED <<session, participant, active, now>>
           /\ db' = db /\ txn' = txn /\ txn = None /\ UNCHANGED auxVars
<1>0. log \in Seq(outbox) /\ buffer \in Seq(outbox) /\ Len(log) \in Nat
  BY DEF RelayInv, RelayTheorems!Queues
<1>1. CASE Relay!Deliver
  <2>1. Head(buffer) \in outbox
    BY <1>0, <1>1 DEF Relay!Deliver
  <2>2. Len(log') = Len(log) + 1 /\ \A i \in 1..Len(log) : log'[i] = log[i]
    BY <1>0, <1>1, <2>1 DEF Relay!Deliver
  <2> QED BY <1>0, <1>1, <2>2 DEF Relay!Deliver, Pass, splitVars, storeVars
<1>2. CASE ~Relay!Deliver
  <2>1. log' = log /\ outbox' = outbox
    BY <1>2 DEF Pass, RelayThread, RelayFails, Relay!StartTick, Relay!Send,
       Relay!Acknowledged, Relay!CommitTick, Relay!Failed, Relay!Expire,
       Relay!RollbackTick, Relay!Crash, Relay!EndTick
  <2> QED BY <1>0, <2>1 DEF Pass, splitVars, storeVars
<1> QED BY <1>1, <1>2

(* What a step of the consumer or of the store leaves alone. *)
LEMMA StoreAlone ==
    ASSUME Consume \/ StoreStep
    PROVE  UNCHANGED <<session, participant, outbox, active, now, log, overlapped, history>>
BY DEF Consume, StoreStep, splitVars, relayVars, auxVars

(* Only a commit changes what the store holds. *)
LEMMA StoreUnchanged == [Next]_vars => db' = db \/ StoreTheorems!Commit
<1>1. Serve \/ Pass(RelayThread \/ Relay!Deliver) \/ Pass(RelayFails) \/ UNCHANGED vars
        => db' = db
  BY DEF Serve, Pass, vars, storeVars
<1>2. Consume => db' = db
  BY DEF Consume, Store!IngestRejected, Store!IngestDuplicate, Store!IngestNew, Store!Begin
<1>3. StoreStep => db' = db \/ StoreTheorems!Commit
  BY SameStoreActions DEF StoreStep, Store!DrainApply, Store!DrainFails, Store!DrainEnds
<1> QED BY <1>1, <1>2, <1>3 DEF Next

LEMMA InitRead == Init => ReadInv
<1> SUFFICES ASSUME Init PROVE ReadInv
  OBVIOUS
<1>1. db.checkpoint = 0 /\ db.inbox = {} /\ txn = None /\ log = <<>> /\ Len(log) = 0
  BY DEF Init, Store!Init, Store!Empty, Relay!Init
<1>2. 1..0 = {}
  OBVIOUS
<1> QED BY <1>1, <1>2 DEF ReadInv

LEMMA NextRead ==
    ASSUME SplitTheorems!BooksInv, RelayInv, StoreTheorems!StoreInv, ReadInv, [Next]_vars
    PROVE  ReadInv'
<1>0. /\ StoreTheorems!Typed /\ StoreTheorems!Kept
      /\ db.checkpoint \in Nat /\ Len(log) \in Nat
  BY DEF StoreTheorems!StoreInv, StoreTheorems!KeyedInv, StoreTheorems!Typed,
     StoreTheorems!TypeOK, StoreTheorems!Database, RelayInv, RelayTheorems!Queues
<1>1. CASE Serve
  <2>1. db' = db /\ txn' = txn /\ txn = None /\ log' = log
    BY <1>1 DEF Serve, storeVars, relayVars
  <2>2. Records \subseteq Records'
    BY <1>1, ServeStores DEF Records, MessageOf
  <2> QED BY <2>1, <2>2 DEF ReadInv, MessageOf
<1>2. CASE Pass(RelayThread \/ Relay!Deliver) \/ Pass(RelayFails)
  <2>1. /\ Len(log) <= Len(log') /\ \A i \in 1..Len(log) : log'[i] = log[i]
        /\ outbox' = outbox /\ db' = db /\ txn' = txn /\ txn = None
    BY <1>2, TopicGrows
  <2>2. Len(log') \in Nat
    <3>1. RelayInv'
      BY NextRelay
    <3> QED BY <3>1 DEF RelayInv, RelayTheorems!Queues
  <2> QED BY <1>0, <2>1, <2>2 DEF ReadInv, Records, MessageOf
<1>3. CASE Consume
  <2> DEFINE m == MessageOf(log[db.checkpoint + 1])
  <2>1. log[db.checkpoint + 1] \in outbox /\ db.checkpoint < Len(log)
    BY <1>0, <1>3, NextRecord DEF Consume
  <2>2. m \in Messages /\ m \in Records
    BY <2>1, MessageType DEF Records
  <2>3. \/ StoreTheorems!IngestRejected(m, db.checkpoint)
        \/ StoreTheorems!IngestDuplicate(m, db.checkpoint)
        \/ StoreTheorems!IngestNew(m, db.checkpoint)
    BY <1>3, SameStoreActions DEF Consume
  <2>4. log' = log /\ outbox' = outbox
    BY <1>3, StoreAlone
  <2> DEFINE n == m
  <2> HIDE DEF n
  <2>5. /\ db' = db /\ txn'.msg = n /\ txn'.offset = db.checkpoint
    BY <1>0, <2>2, <2>3, StoreAssumptions, StoreTheorems!BeginKept DEF n
  <2>6. txn'.db.inbox \subseteq db.inbox \cup {n}
    BY <1>0, <2>2, <2>3, StoreAssumptions, StoreTheorems!BeginStep
       DEF n, StoreTheorems!Same
  <2>7. Records' = Records
    BY <2>4 DEF Records, MessageOf
  <2> QED BY <2>1, <2>2, <2>4, <2>5, <2>6, <2>7 DEF ReadInv, n, MessageOf
<1>4. CASE StoreStep
  <2>1. log' = log /\ outbox' = outbox /\ Records' = Records
    BY <1>4, StoreAlone DEF Records, MessageOf
  <2>2. CASE StoreTheorems!DrainApply \/ StoreTheorems!DrainFails \/ StoreTheorems!DrainEnds
    <3>1. /\ txn # None /\ db' = db
          /\ txn'.msg = txn.msg /\ txn'.offset = txn.offset
      BY <1>0, <2>2, StoreAssumptions, StoreTheorems!DrainKept
    <3>2. txn'.db.inbox = txn.db.inbox
      <4>1. CASE StoreTheorems!DrainApply
        <5>1. PICK k \in StoreTheorems!Turn(txn.db, txn.msg.agg) :
                txn'.db = StoreTheorems!Applied(txn.db, k)
          BY <1>0, <4>1, StoreAssumptions, StoreTheorems!DrainApplyStep
        <5>2. txn.db \in StoreTheorems!Database
          BY <1>0, <3>1, StoreAssumptions, StoreTheorems!TxnType
        <5> QED BY <5>1, <5>2 DEF StoreTheorems!Applied, StoreTheorems!Database
      <4>2. CASE StoreTheorems!DrainFails \/ StoreTheorems!DrainEnds
        BY <1>0, <4>2, StoreAssumptions, StoreTheorems!TxnStep DEF StoreTheorems!Same
      <4> QED BY <2>2, <4>1, <4>2
    <3> QED BY <2>1, <3>1, <3>2 DEF ReadInv, MessageOf
  <2>3. CASE StoreTheorems!Commit
    <3>1. /\ txn # None /\ txn' = None
          /\ db'.checkpoint = IF db.checkpoint > txn.offset + 1
                              THEN db.checkpoint ELSE txn.offset + 1
          /\ StoreTheorems!Rows(db) \cup {txn.msg} \subseteq StoreTheorems!Rows(db')
      BY <1>0, <2>3, StoreAssumptions, StoreTheorems!CommitKept
    <3>2. db'.inbox = txn.db.inbox
      BY <1>0, <2>3, StoreAssumptions, StoreTheorems!TxnStep DEF StoreTheorems!Same
    <3>3. /\ txn.offset = db.checkpoint /\ db.checkpoint < Len(log)
          /\ txn.msg = MessageOf(log[db.checkpoint + 1])
          /\ txn.db.inbox \subseteq Records
      BY <3>1 DEF ReadInv
    <3>4. db'.checkpoint = db.checkpoint + 1
      BY <1>0, <3>1, <3>3
    <3>5. \A i \in 1..db'.checkpoint : MessageOf(log[i]) \in StoreTheorems!Rows(db')
      BY <1>0, <3>1, <3>3, <3>4 DEF ReadInv
    <3> QED BY <1>0, <2>1, <3>1, <3>2, <3>3, <3>4, <3>5 DEF ReadInv, MessageOf
  <2> QED BY <1>4, <2>2, <2>3, SameStoreActions DEF StoreStep
<1>5. CASE UNCHANGED vars
  BY <1>5 DEF vars, storeVars, relayVars, ReadInv, Records, MessageOf, StoreTheorems!Rows
<1> QED BY <1>1, <1>2, <1>3, <1>4, <1>5 DEF Next

(* Whatever fails on the way, the store never holds a row that is not the    *)
(* record of a stored event, and it has a row for every record of the topic  *)
(* that is behind its checkpoint.                                            *)
THEOREM ReadIsStored == Spec => []ReadInv
BY BooksHold, InitRelay, NextRelay, StoreHolds, InitRead, NextRead, PTL DEF Spec

-----------------------------------------------------------------------------
(* What a projection says of a session, and what the tables say of it, are   *)
(* both what its events say.                                                 *)

Part == [added : BOOLEAN, share : Nat, authorized : BOOLEAN]

Content == [status : {"OPEN", "COMPLETED"}, total : Nat,
            closedAt : Nat \cup {None}, parts : [Participants -> Part]]

(* What the events E of a session say of it. *)
TellsPart(part, p, E) ==
    /\ part.added <=> \E e \in E : e.kind = "ParticipantAdded" /\ e.pid = p
    /\ \A e \in E : e.kind = "ParticipantAdded" /\ e.pid = p =>
         part.share = SplitTheorems!Stored(e.amount)
    /\ part.authorized <=> \E e \in E : e.kind = "ParticipantAuthorized" /\ e.pid = p
    /\ ~part.added => part = [added |-> FALSE, share |-> 0, authorized |-> FALSE]

Tells(c, E) ==
    /\ \A e \in E : e.kind = "SplitCreated" => c.total = SplitTheorems!Stored(e.amount)
    /\ c.status = IF \E e \in E : e.kind = "SplitCompleted" THEN "COMPLETED" ELSE "OPEN"
    /\ c.status = "OPEN" => c.closedAt = None
    /\ \A e \in E : e.kind = "SplitCompleted" => c.closedAt = e.at
    /\ \A p \in Participants : TellsPart(c.parts[p], p, E)

(* A content with its amounts rounded as the columns of the tables round. *)
PartInCents(part) ==
    [added |-> part.added, share |-> SplitTheorems!Stored(part.share),
     authorized |-> part.authorized]

InCents(c) ==
    [status |-> c.status, total |-> SplitTheorems!Stored(c.total),
     closedAt |-> c.closedAt,
     parts |-> [p \in Participants |-> PartInCents(c.parts[p])]]

UpTo(s, v) == {e \in outbox : e.session = s /\ e.version <= v}

LEMMA StoredZero == SplitTheorems!Stored(0) = 0
BY DEF SplitTheorems!Stored

(* A client of social-split sees what the events of the session say. *)
LEMMA StandsTells ==
    ASSUME SplitTheorems!BooksInv, NEW s \in Sessions, SplitTheorems!Distinct(s),
           session[s].status # "ABSENT"
    PROVE  Stands(s) \in Content /\ Tells(Stands(s), SplitTheorems!EventsOf(s))
<1> DEFINE E == SplitTheorems!EventsOf(s)
           c == Stands(s)
<1>0. /\ SplitTheorems!TypeOK /\ SplitTheorems!TablesInv /\ SplitTheorems!StoredInv
      /\ SplitTheorems!Booked(s)
  BY DEF SplitTheorems!BooksInv, SplitTheorems!LedgerInv
<1>1. session[s] \in SplitTheorems!Row
  BY <1>0 DEF SplitTheorems!TypeOK
<1>2. /\ session[s].status \in {"OPEN", "COMPLETED"} /\ session[s].total \in Nat
      /\ session[s].closedAt \in Nat \cup {None}
  BY <1>1 DEF SplitTheorems!Row
<1>3. ASSUME NEW p \in Participants
      PROVE  c.parts[p] \in Part /\ TellsPart(c.parts[p], p, E)
  <2>1. participant[p].share \in Nat /\ participant[p].authorized \in BOOLEAN
    BY <1>0 DEF SplitTheorems!TypeOK, SplitTheorems!ParticipantRow
  <2>2. /\ participant[p].session = s
             <=> \E e \in E : e.kind = "ParticipantAdded" /\ e.pid = p
        /\ participant[p].session = s /\ participant[p].authorized
             <=> \E e \in E : e.kind = "ParticipantAuthorized" /\ e.pid = p
    BY <1>0 DEF SplitTheorems!TablesInv, SplitTheorems!Says, SplitTheorems!EventsOf
  <2>3. \A e \in E : e.kind = "ParticipantAdded" /\ e.pid = p =>
          participant[p].share = SplitTheorems!Stored(e.amount)
    BY <1>0 DEF SplitTheorems!StoredInv, SplitTheorems!EventsOf
  <2>4. CASE participant[p].session = s
    <3>1. c.parts[p] = [added |-> TRUE, share |-> participant[p].share,
                        authorized |-> participant[p].authorized]
      BY <2>4 DEF Stands
    <3> HIDE DEF c, E
    <3> QED BY <2>1, <2>2, <2>3, <2>4, <3>1 DEF Part, TellsPart
  <2>5. CASE participant[p].session # s
    <3>1. c.parts[p] = [added |-> FALSE, share |-> 0, authorized |-> FALSE]
      BY <2>5 DEF Stands, Store!NoParts
    <3> HIDE DEF c, E
    <3> QED BY <2>2, <2>5, <3>1 DEF Part, TellsPart
  <2> QED BY <2>4, <2>5
<1>4. c \in Content
  <2>1. c.parts \in [Participants -> Part]
    <3>1. c.parts = [p \in Participants |-> c.parts[p]]
      BY DEF Stands
    <3> HIDE DEF c
    <3> QED BY <1>3, <3>1
  <2>2. c = [status |-> session[s].status, total |-> session[s].total,
             closedAt |-> session[s].closedAt, parts |-> c.parts]
    BY DEF Stands
  <2> HIDE DEF c
  <2> QED BY <1>2, <2>1, <2>2 DEF Content
<1>5. Tells(c, E)
  <2>1. \A e \in E : e \in outbox /\ e.session = s
    BY DEF SplitTheorems!EventsOf
  <2>2. /\ c.total = session[s].total /\ c.status = session[s].status
        /\ c.closedAt = session[s].closedAt
    BY DEF Stands
  <2>3. \A e \in E : e.kind = "SplitCreated" => c.total = SplitTheorems!Stored(e.amount)
    BY <1>0, <2>1, <2>2 DEF SplitTheorems!StoredInv
  <2>4. /\ c.status = "COMPLETED" <=> \E e \in E : e.kind = "SplitCompleted"
        /\ c.status = "OPEN" => c.closedAt = None
        /\ \A e \in E : e.kind = "SplitCompleted" => c.closedAt = e.at
    BY <1>0, <2>2 DEF SplitTheorems!Booked, SplitTheorems!EventsOf
  <2> HIDE DEF c, E
  <2> QED BY <1>2, <1>3, <2>2, <2>3, <2>4 DEF Tells
<1> QED BY <1>4, <1>5

(* The events that are applied to the projection of a session that shows no  *)
(* loss are its first ones.                                                  *)
LEMMA AppliedAre ==
    ASSUME SplitTheorems!BooksInv, NEW d, NEW s \in Sessions, SplitTheorems!Distinct(s),
           d \in StoreTheorems!Database, StoreTheorems!Keyed(d), StoreTheorems!Prefix(d),
           d.inbox \subseteq Records
    PROVE  StoreTheorems!Of(d, s)
             = {MessageOf(e) : e \in UpTo(s, d.sessions[s].version)}
<1> DEFINE v == d.sessions[s].version
           O == StoreTheorems!Of(d, s)
<1>0. v \in Nat
  BY DEF StoreTheorems!Database, StoreTheorems!Projection
<1>1. {m.version : m \in O} = 1..v
  BY DEF StoreTheorems!Prefix, StoreTheorems!Of
<1>2. \A m \in O : \E e \in outbox : m = MessageOf(e)
  BY DEF StoreTheorems!Keyed, StoreTheorems!Of, Records
<1>3. \A m \in O : m.agg = s
  BY DEF StoreTheorems!Of
<1>4. \A e : MessageOf(e).agg = e.session /\ MessageOf(e).version = e.version
  BY DEF MessageOf
<1>5. \A e \in outbox : e.version \in Nat /\ e.version >= 1
  <2>1. ASSUME NEW e \in outbox PROVE e.version \in Nat /\ e.version >= 1
    <3>1. /\ e.version \in Nat
          /\ IF e.kind = "SplitCreated" THEN e.version = 1 ELSE e.version >= 2
      BY DEF SplitTheorems!BooksInv, SplitTheorems!TypeOK, SplitTheorems!Event,
         SplitTheorems!StoredInv
    <3> QED BY <3>1
  <2> QED BY <2>1
<1> HIDE DEF O, v
<1>6. ASSUME NEW m \in O PROVE \E e \in UpTo(s, v) : m = MessageOf(e)
  <2>1. PICK e \in outbox : m = MessageOf(e)
    BY <1>2
  <2>2. e.session = s /\ e.version \in 1..v
    BY <1>1, <1>3, <1>4, <2>1
  <2> QED BY <1>0, <2>1, <2>2 DEF UpTo
<1>7. ASSUME NEW e \in UpTo(s, v) PROVE MessageOf(e) \in O
  <2>1. e \in outbox /\ e.session = s /\ e.version \in 1..v
    BY <1>0, <1>5 DEF UpTo
  <2>2. PICK m \in O : m.version = e.version
    BY <1>1, <2>1
  <2>3. PICK f \in outbox : m = MessageOf(f)
    BY <1>2
  <2>4. f.session = s /\ f.version = e.version
    BY <1>3, <1>4, <2>2, <2>3
  <2>5. f = e
    BY <2>1, <2>3, <2>4 DEF SplitTheorems!Distinct
  <2> QED BY <2>3, <2>5
<1> QED BY <1>6, <1>7 DEF O, v

LEMMA AppliedIsUpTo ==
    ASSUME SplitTheorems!BooksInv, StoreTheorems!StoreInv, ReadInv,
           NEW s \in Sessions, SplitTheorems!Distinct(s)
    PROVE  StoreTheorems!Of(db, s)
             = {MessageOf(e) : e \in UpTo(s, db.sessions[s].version)}
<1>1. /\ db \in StoreTheorems!Database /\ StoreTheorems!Keyed(db)
      /\ StoreTheorems!Prefix(db) /\ db.inbox \subseteq Records
  BY DEF StoreTheorems!StoreInv, StoreTheorems!KeyedInv, StoreTheorems!Typed,
     StoreTheorems!TypeOK, ReadInv
<1> QED BY <1>1, AppliedAre

(* What the store holds of session s once it knows it. *)
LEMMA KnownProjection ==
    ASSUME SplitTheorems!BooksInv, StoreTheorems!StoreInv, ReadInv,
           NEW s \in Sessions, db.sessions[s].version # 0
    PROVE  /\ Projects(s) \in [status : {"ABSENT", "OPEN", "COMPLETED"}, total : Nat,
                               closedAt : Nat \cup {None}, parts : [Participants -> Part]]
           /\ StoreTheorems!Shows(db.sessions[s], StoreTheorems!Of(db, s))
           /\ \A m \in StoreTheorems!Of(db, s) : \E e \in outbox : m = MessageOf(e)
           /\ \E m \in StoreTheorems!Of(db, s) : m.kind = "SplitCreated"
<1> DEFINE O == StoreTheorems!Of(db, s)
<1>1. db.sessions[s] \in StoreTheorems!Projection
  BY DEF StoreTheorems!StoreInv, StoreTheorems!KeyedInv, StoreTheorems!Typed,
     StoreTheorems!TypeOK, StoreTheorems!Database
<1>2. Projects(s) \in [status : {"ABSENT", "OPEN", "COMPLETED"}, total : Nat,
                       closedAt : Nat \cup {None}, parts : [Participants -> Part]]
  BY <1>1 DEF Projects, StoreTheorems!Projection, StoreTheorems!Part, Part
<1>3. StoreTheorems!Shows(db.sessions[s], O)
  BY DEF StoreTheorems!StoreInv, StoreTheorems!FaithfulInv, StoreTheorems!Faithful,
     StoreTheorems!Shown
<1>4. \A m \in O : \E e \in outbox : m = MessageOf(e)
  BY DEF StoreTheorems!StoreInv, StoreTheorems!KeyedInv, StoreTheorems!Keyed,
     StoreTheorems!Of, ReadInv, Records
<1>5. \E m \in O : m.version = 1
  <2>1. {m.version : m \in O} = 1..db.sessions[s].version
    BY DEF StoreTheorems!StoreInv, StoreTheorems!KeyedInv, StoreTheorems!Prefix,
       StoreTheorems!Of
  <2>2. 1 \in 1..db.sessions[s].version
    BY <1>1 DEF StoreTheorems!Projection
  <2> HIDE DEF O
  <2> QED BY <2>1, <2>2
<1>6. \E m \in O : m.kind = "SplitCreated"
  BY <1>3, <1>5 DEF StoreTheorems!Shows
<1> QED BY <1>2, <1>3, <1>4, <1>6

(* The projection of a session is, to the cent, any content that the events  *)
(* applied to it tell.                                                       *)
LEMMA ProjectsTells ==
    ASSUME SplitTheorems!BooksInv, StoreTheorems!StoreInv, ReadInv,
           NEW s \in Sessions, SplitTheorems!Distinct(s), db.sessions[s].version # 0,
           NEW c \in Content, Tells(c, UpTo(s, db.sessions[s].version))
    PROVE  InCents(Projects(s)) = c
<1> DEFINE E == UpTo(s, db.sessions[s].version)
           O == StoreTheorems!Of(db, s)
           q == Projects(s)
<1>1. O = {MessageOf(e) : e \in E}
  BY AppliedIsUpTo
<1>2. /\ \A e \in E : /\ MessageOf(e) \in O
                      /\ MessageOf(e).kind = e.kind /\ MessageOf(e).pid = e.pid
                      /\ MessageOf(e).amount = e.amount /\ MessageOf(e).at = e.at
      /\ \A m \in O : \E e \in E : m = MessageOf(e)
  <2>1. \A e : /\ MessageOf(e).kind = e.kind /\ MessageOf(e).pid = e.pid
               /\ MessageOf(e).amount = e.amount /\ MessageOf(e).at = e.at
    BY DEF MessageOf
  <2> HIDE DEF E, O
  <2> QED BY <1>1, <2>1
<1>3. /\ StoreTheorems!Shows(db.sessions[s], O) /\ \E m \in O : m.kind = "SplitCreated"
      /\ q \in [status : {"ABSENT", "OPEN", "COMPLETED"}, total : Nat,
                closedAt : Nat \cup {None}, parts : [Participants -> Part]]
  BY KnownProjection
<1>4. /\ q.status = db.sessions[s].status /\ q.total = db.sessions[s].total
      /\ q.closedAt = db.sessions[s].closedAt /\ q.parts = db.sessions[s].parts
  BY DEF Projects
<1> HIDE DEF E, O, q
<1>5. c.total = SplitTheorems!Stored(q.total)
  <2>1. PICK e \in E : e.kind = "SplitCreated"
    BY <1>2, <1>3
  <2>2. q.total = e.amount
    BY <1>2, <1>3, <1>4, <2>1 DEF StoreTheorems!Shows
  <2> QED BY <2>1, <2>2 DEF Tells, E
<1>6. c.status = q.status
  <2>1. (\E e \in E : e.kind = "SplitCompleted") <=> \E m \in O : m.kind = "SplitCompleted"
    BY <1>2
  <2> QED BY <1>3, <1>4, <2>1 DEF Tells, StoreTheorems!Shows, E
<1>7. c.closedAt = q.closedAt
  <2>1. CASE \E e \in E : e.kind = "SplitCompleted"
    <3>1. PICK e \in E : e.kind = "SplitCompleted"
      BY <2>1
    <3>2. q.closedAt = e.at
      BY <1>2, <1>3, <1>4, <3>1 DEF StoreTheorems!Shows
    <3> QED BY <3>1, <3>2 DEF Tells, E
  <2>2. CASE ~\E e \in E : e.kind = "SplitCompleted"
    <3>1. c.status = "OPEN" /\ c.closedAt = None
      BY <2>2 DEF Tells, E
    <3> QED BY <1>3, <1>4, <1>6, <3>1 DEF StoreTheorems!Shows
  <2> QED BY <2>1, <2>2
<1>8. ASSUME NEW p \in Participants PROVE c.parts[p] = PartInCents(q.parts[p])
  <2>1. c.parts[p] \in Part /\ q.parts[p] \in Part
    BY <1>3 DEF Content
  <2>2. TellsPart(c.parts[p], p, E)
    BY DEF Tells, E
  <2>3. /\ q.parts[p].added <=> \E m \in O : m.kind = "ParticipantAdded" /\ m.pid = p
        /\ \A m \in O : m.kind = "ParticipantAdded" /\ m.pid = p =>
             q.parts[p].share = m.amount
        /\ q.parts[p].authorized <=>
             \E m \in O : m.kind = "ParticipantAuthorized" /\ m.pid = p
        /\ ~q.parts[p].added => q.parts[p] = StoreTheorems!NoParts[p]
    BY <1>3, <1>4 DEF StoreTheorems!Shows, StoreTheorems!ShowsParts
  <2>4. /\ q.parts[p].added <=> c.parts[p].added
        /\ q.parts[p].authorized <=> c.parts[p].authorized
    BY <1>2, <2>2, <2>3 DEF TellsPart
  <2>5. c.parts[p].share = SplitTheorems!Stored(q.parts[p].share)
    <3>1. CASE c.parts[p].added
      <4>1. PICK e \in E : e.kind = "ParticipantAdded" /\ e.pid = p
        BY <2>2, <3>1 DEF TellsPart
      <4>2. q.parts[p].share = e.amount
        BY <1>2, <2>3, <4>1
      <4> QED BY <2>2, <4>1, <4>2 DEF TellsPart
    <3>2. CASE ~c.parts[p].added
      <4>1. c.parts[p].share = 0
        BY <2>2, <3>2 DEF TellsPart
      <4>2. q.parts[p].share = 0
        BY <2>3, <2>4, <3>2 DEF StoreTheorems!NoParts
      <4> QED BY <4>1, <4>2, StoredZero
    <3> QED BY <3>1, <3>2
  <2> DEFINE d == c.parts[p]
             b == q.parts[p]
  <2>6. d = [added |-> d.added, share |-> d.share, authorized |-> d.authorized]
    BY <2>1 DEF Part
  <2>7. d.added = b.added /\ d.authorized = b.authorized
    BY <2>1, <2>4 DEF Part
  <2> HIDE DEF d, b
  <2>8. d.share = SplitTheorems!Stored(b.share)
    BY <2>5 DEF d, b
  <2>9. d = PartInCents(b)
    BY <2>6, <2>7, <2>8 DEF PartInCents
  <2> QED BY <2>9 DEF d, b
<1>9. c.parts = [p \in Participants |-> PartInCents(q.parts[p])]
  <2>1. c.parts \in [Participants -> Part]
    BY DEF Content
  <2> QED BY <1>8, <2>1
<1>10. c = [status |-> c.status, total |-> c.total, closedAt |-> c.closedAt,
            parts |-> c.parts]
  BY DEF Content
<1> QED BY <1>5, <1>6, <1>7, <1>9, <1>10 DEF InCents, q

-----------------------------------------------------------------------------
(* A projection that calls itself complete. *)

(* Where all has been published and read without error, every stored event   *)
(* is applied; and then no two of them can have carried one version.         *)
LEMMA AllApplied ==
    ASSUME SplitTheorems!BooksInv, RelayInv, StoreTheorems!StoreInv, ReadInv,
           outbox = published, db.checkpoint = Len(log), Store!Complete(now)
    PROVE  /\ \A e \in outbox : MessageOf(e) \in db.applied
           /\ \A s \in Sessions : SplitTheorems!Distinct(s)
<1>1. log \in Seq(outbox) /\ published \subseteq RelayTheorems!ToSet(log)
  BY DEF RelayInv, RelayTheorems!Queues, RelayTheorems!PublishedIsInLog
<1>2. \A e \in outbox : \E i \in 1..Len(log) : e = log[i]
  BY <1>1 DEF RelayTheorems!ToSet
<1>3. db.applied = db.inbox /\ db.errors = {}
  BY DEF Store!Complete
<1>4. ASSUME NEW e \in outbox PROVE MessageOf(e) \in db.applied
  <2>1. PICK i \in 1..Len(log) : e = log[i]
    BY <1>2
  <2>2. MessageOf(e) \in StoreTheorems!Rows(db)
    BY <2>1 DEF ReadInv
  <2> QED BY <1>3, <2>2 DEF StoreTheorems!Rows
<1>5. ASSUME NEW e \in outbox, NEW f \in outbox,
             e.session = f.session, e.version = f.version
      PROVE  e = f
  <2>1. MessageOf(e) \in db.inbox /\ MessageOf(f) \in db.inbox
    BY <1>3, <1>4
  <2>2. MessageOf(e).agg = MessageOf(f).agg /\ MessageOf(e).version = MessageOf(f).version
    BY <1>5 DEF MessageOf
  <2>3. MessageOf(e) = MessageOf(f)
    BY <2>1, <2>2 DEF StoreTheorems!StoreInv, StoreTheorems!KeyedInv, StoreTheorems!Keyed
  <2>4. /\ e.id = f.id /\ e.kind = f.kind /\ e.at = f.at /\ e.pid = f.pid
        /\ e.amount = f.amount
    BY <2>3 DEF MessageOf
  <2>5. e \in SplitTheorems!Event /\ f \in SplitTheorems!Event
    BY DEF SplitTheorems!BooksInv, SplitTheorems!TypeOK
  <2> QED BY <1>5, <2>4, <2>5 DEF SplitTheorems!Event
<1> QED BY <1>4, <1>5 DEF SplitTheorems!Distinct

(* The tables keep amounts in cents, the events as the client sent them.     *)
CompleteToTheCent ==
    outbox = published /\ db.checkpoint = Len(log) /\ Store!Complete(now) =>
        \A s \in Sessions : session[s].status # "ABSENT" =>
            /\ InCents(Projects(s)) = Stands(s)
            /\ db.sessions[s].version = session[s].version

LEMMA CompleteInCents ==
    ASSUME SplitTheorems!BooksInv, RelayInv, StoreTheorems!StoreInv, ReadInv
    PROVE  CompleteToTheCent
<1> SUFFICES ASSUME outbox = published, db.checkpoint = Len(log), Store!Complete(now),
                    NEW s \in Sessions, session[s].status # "ABSENT"
             PROVE  /\ InCents(Projects(s)) = Stands(s)
                    /\ db.sessions[s].version = session[s].version
  BY DEF CompleteToTheCent
<1>1. /\ \A e \in outbox : MessageOf(e) \in db.applied
      /\ SplitTheorems!Distinct(s)
  BY AllApplied
<1>2. SplitTheorems!Booked(s)
  BY <1>1 DEF SplitTheorems!BooksInv, SplitTheorems!LedgerInv
<1> DEFINE a == db.sessions[s].version
           b == session[s].version
<1>3. a \in Nat /\ b \in Nat /\ b >= 1
  <2>1. a \in Nat
    BY DEF StoreTheorems!StoreInv, StoreTheorems!KeyedInv, StoreTheorems!Typed,
       StoreTheorems!TypeOK, StoreTheorems!Database, StoreTheorems!Projection
  <2>2. b \in Nat /\ b >= 1
    BY DEF SplitTheorems!BooksInv, SplitTheorems!TypeOK, SplitTheorems!Row,
       SplitTheorems!GapInv
  <2> QED BY <2>1, <2>2
<1>4. 1..a = 1..b
  <2>1. {m.version : m \in StoreTheorems!Of(db, s)} = 1..a
    BY DEF StoreTheorems!StoreInv, StoreTheorems!KeyedInv, StoreTheorems!Prefix,
       StoreTheorems!Of
  <2>2. \A e \in outbox : e.session = s =>
          /\ MessageOf(e) \in StoreTheorems!Of(db, s)
          /\ MessageOf(e).version = e.version
    BY <1>1 DEF MessageOf, StoreTheorems!Of
  <2>3. \A v \in 1..b : \E e \in outbox : e.session = s /\ e.version = v
    BY <1>2 DEF SplitTheorems!Booked, SplitTheorems!Announced
  <2>4. \A m \in StoreTheorems!Of(db, s) : m.version \in 1..b
    <3>1. \A m \in StoreTheorems!Of(db, s) : \E e \in outbox : m = MessageOf(e)
      BY DEF StoreTheorems!StoreInv, StoreTheorems!KeyedInv, StoreTheorems!Keyed,
         StoreTheorems!Of, ReadInv, Records
    <3>2. ASSUME NEW e \in outbox, MessageOf(e) \in StoreTheorems!Of(db, s)
          PROVE  MessageOf(e).version \in 1..b
      <4>1. e.session = s /\ MessageOf(e).version = e.version
        BY <3>2 DEF MessageOf, StoreTheorems!Of
      <4> QED BY <1>2, <4>1 DEF SplitTheorems!Booked
    <3> QED BY <3>1, <3>2
  <2> HIDE DEF a, b
  <2>5. 1..b \subseteq 1..a
    BY <2>1, <2>2, <2>3
  <2>6. 1..a \subseteq 1..b
    BY <2>1, <2>4
  <2> QED BY <2>5, <2>6
<1>5. a = b
  <2> HIDE DEF a, b
  <2>1. a >= 1
    BY <1>3, <1>4
  <2>2. a \in 1..b /\ b \in 1..a
    BY <1>3, <1>4, <2>1
  <2> QED BY <1>3, <2>2
<1>6. UpTo(s, a) = SplitTheorems!EventsOf(s)
  <2>1. \A e \in outbox : e.session = s => e.version <= a
    BY <1>2, <1>3, <1>5 DEF SplitTheorems!Booked
  <2> HIDE DEF a
  <2> QED BY <2>1 DEF UpTo, SplitTheorems!EventsOf
<1>7. Stands(s) \in Content /\ Tells(Stands(s), UpTo(s, a))
  BY <1>1, <1>6, StandsTells
<1>8. a # 0
  BY <1>3, <1>5
<1> QED BY <1>1, <1>5, <1>7, <1>8, ProjectsTells

(* However requests overlap and whatever fails on the way: a projection that *)
(* calls itself complete, once all has been published and read, is the table *)
(* row by row, but for the fractions of a cent that the tables have rounded  *)
(* away and the events have not.                                             *)
THEOREM CompleteIsTrueToTheCent == Spec => []CompleteToTheCent
BY BooksHold, InitRelay, NextRelay, StoreHolds, ReadIsStored, CompleteInCents, PTL DEF Spec

(* Amounts that the columns keep as they are. *)
WholeCents == \A a \in Amounts : SplitTheorems!Stored(a) = a

(* Then a projection holds no fraction of a cent. *)
LEMMA ProjectsInCents ==
    ASSUME WholeCents, SplitTheorems!BooksInv, StoreTheorems!StoreInv, ReadInv,
           NEW s \in Sessions, db.sessions[s].version # 0
    PROVE  /\ InCents(Projects(s)) = Projects(s)
           /\ Projects(s).total \in Amounts
           /\ \A p \in Participants :
                IF Projects(s).parts[p].added
                THEN Projects(s).parts[p].share \in Amounts
                ELSE Projects(s).parts[p] = StoreTheorems!NoParts[p]
<1> DEFINE q == Projects(s)
           O == StoreTheorems!Of(db, s)
<1>1. /\ q \in [status : {"ABSENT", "OPEN", "COMPLETED"}, total : Nat,
                closedAt : Nat \cup {None}, parts : [Participants -> Part]]
      /\ StoreTheorems!Shows(db.sessions[s], O)
      /\ \A m \in O : \E e \in outbox : m = MessageOf(e)
      /\ \E m \in O : m.kind = "SplitCreated"
  BY KnownProjection
<1>2. \A m \in O : m.kind \in {"SplitCreated", "ParticipantAdded"} => m.amount \in Amounts
  <2>1. \A e \in outbox : e.kind \in {"SplitCreated", "ParticipantAdded"} =>
          e.amount \in Amounts
    BY DEF SplitTheorems!BooksInv, SplitTheorems!StoredInv
  <2>2. \A e : MessageOf(e).kind = e.kind /\ MessageOf(e).amount = e.amount
    BY DEF MessageOf
  <2> HIDE DEF O
  <2> QED BY <1>1, <2>1, <2>2
<1>3. q.total = db.sessions[s].total /\ q.parts = db.sessions[s].parts
  BY DEF Projects
<1> HIDE DEF q, O
<1>4. q.total \in Amounts
  BY <1>1, <1>2, <1>3 DEF StoreTheorems!Shows
<1>5. ASSUME NEW p \in Participants
      PROVE  /\ IF q.parts[p].added THEN q.parts[p].share \in Amounts
                ELSE q.parts[p] = StoreTheorems!NoParts[p]
             /\ PartInCents(q.parts[p]) = q.parts[p]
  <2>1. /\ q.parts[p].added <=> \E m \in O : m.kind = "ParticipantAdded" /\ m.pid = p
        /\ \A m \in O : m.kind = "ParticipantAdded" /\ m.pid = p =>
             q.parts[p].share = m.amount
        /\ ~q.parts[p].added => q.parts[p] = StoreTheorems!NoParts[p]
    BY <1>1, <1>3 DEF StoreTheorems!Shows, StoreTheorems!ShowsParts
  <2>2. IF q.parts[p].added THEN q.parts[p].share \in Amounts
        ELSE q.parts[p] = StoreTheorems!NoParts[p]
    BY <1>2, <2>1
  <2>3. SplitTheorems!Stored(q.parts[p].share) = q.parts[p].share
    <3>1. CASE q.parts[p].added
      BY <2>2, <3>1 DEF WholeCents
    <3>2. CASE ~q.parts[p].added
      <4>1. q.parts[p].share = 0
        BY <2>2, <3>2 DEF StoreTheorems!NoParts
      <4> QED BY <4>1, StoredZero
    <3> QED BY <3>1, <3>2
  <2>4. q.parts[p] \in Part
    BY <1>1
  <2> QED BY <2>2, <2>3, <2>4 DEF PartInCents, Part
<1>6. [p \in Participants |-> PartInCents(q.parts[p])] = q.parts
  <2>1. q.parts \in [Participants -> Part]
    BY <1>1
  <2> QED BY <1>5, <2>1
<1>7. SplitTheorems!Stored(q.total) = q.total
  BY <1>4 DEF WholeCents
<1>8. InCents(q) = q
  BY <1>1, <1>6, <1>7 DEF InCents
<1> QED BY <1>4, <1>5, <1>8 DEF q

(* Where amounts are whole cents, a complete projection is the table row by  *)
(* row.                                                                      *)
THEOREM CompleteProjectionIsTrue ==
    ASSUME WholeCents
    PROVE  Spec => []CompleteIsTrue
<1>1. SplitTheorems!BooksInv /\ StoreTheorems!StoreInv /\ ReadInv /\ CompleteToTheCent
        => CompleteIsTrue
  <2> SUFFICES ASSUME SplitTheorems!BooksInv, StoreTheorems!StoreInv, ReadInv,
                      CompleteToTheCent,
                      outbox = published, db.checkpoint = Len(log), Store!Complete(now),
                      NEW s \in Sessions, session[s].status # "ABSENT"
               PROVE  /\ Projects(s) = Stands(s)
                      /\ db.sessions[s].version = session[s].version
    BY DEF CompleteIsTrue
  <2>1. /\ InCents(Projects(s)) = Stands(s)
        /\ db.sessions[s].version = session[s].version
    BY DEF CompleteToTheCent
  <2>2. session[s].version >= 1
    BY DEF SplitTheorems!BooksInv, SplitTheorems!GapInv
  <2>3. db.sessions[s].version # 0
    BY <2>1, <2>2
  <2>4. InCents(Projects(s)) = Projects(s)
    BY <2>3, ProjectsInCents
  <2> QED BY <2>1, <2>4
<1> QED BY <1>1, BooksHold, StoreHolds, ReadIsStored, CompleteIsTrueToTheCent, PTL

-----------------------------------------------------------------------------
(* Until two requests of a session overlap. *)

OverlapInv ==
    /\ overlapped \in BOOLEAN
    /\ ~overlapped => SplitTheorems!Apart /\ SplitTheorems!ApartInv

LEMMA InitOverlap == Init => OverlapInv
<1>1. Init => SplitTheorems!Init
  BY DEF Init, Split!Init, SplitTheorems!Init
<1>2. Init => overlapped \in BOOLEAN
  BY DEF Init
<1> QED BY <1>1, <1>2, SplitAssumptions, SplitTheorems!InitApart DEF OverlapInv

LEMMA ServeApart ==
    ASSUME SplitTheorems!BooksInv, OverlapInv, Serve, ~overlapped'
    PROVE  /\ ~overlapped /\ SplitTheorems!Apart' /\ SplitTheorems!ApartInv'
           /\ SplitTheorems!OneAdvances
<1>1. ~overlapped /\ \A t, u \in active' : t.session = u.session => t = u
  BY DEF Serve
<1>2. SplitTheorems!Apart /\ SplitTheorems!ApartInv /\ SplitTheorems!Apart'
  BY <1>1 DEF OverlapInv, SplitTheorems!Apart
<1>3. SplitTheorems!Next
  BY SameNext DEF Serve
<1> QED
  BY <1>1, <1>2, <1>3, SplitAssumptions, SplitTheorems!NextApart
     DEF SplitTheorems!BooksInv

LEMMA NextOverlap == SplitTheorems!BooksInv /\ OverlapInv /\ [Next]_vars => OverlapInv'
<1> SUFFICES ASSUME SplitTheorems!BooksInv, OverlapInv, [Next]_vars PROVE OverlapInv'
  OBVIOUS
<1>1. CASE Serve
  <2>1. overlapped' \in BOOLEAN
    BY <1>1 DEF Serve
  <2> QED BY <1>1, <2>1, ServeApart DEF OverlapInv
<1>2. CASE Pass(RelayThread \/ Relay!Deliver) \/ Pass(RelayFails) \/ Consume
           \/ StoreStep \/ UNCHANGED vars
  <2>1. UNCHANGED <<session, participant, active, now, overlapped>>
    BY <1>2, StoreAlone DEF Pass, vars, splitVars, auxVars
  <2>2. outbox' = outbox
    BY <1>2, StoreAlone DEF vars, Pass, RelayThread, RelayFails, Relay!StartTick,
       Relay!Send, Relay!Deliver, Relay!Acknowledged, Relay!CommitTick, Relay!Failed,
       Relay!Expire, Relay!RollbackTick, Relay!Crash, Relay!EndTick
  <2> QED
    BY <2>1, <2>2 DEF OverlapInv, SplitTheorems!Apart, SplitTheorems!ApartInv,
       SplitTheorems!Distinct
<1> QED BY <1>1, <1>2 DEF Next

LEMMA OverlapHolds == Spec => []OverlapInv
BY BooksHold, InitOverlap, NextOverlap, PTL DEF Spec

(* A session whose projection is COMPLETED shows the whole of it. *)
LEMMA ClosedIsWhole ==
    ASSUME SplitTheorems!BooksInv, StoreTheorems!StoreInv, ReadInv,
           NEW s \in Sessions, SplitTheorems!Distinct(s),
           db.sessions[s].status = "COMPLETED"
    PROVE  /\ db.sessions[s].version # 0 /\ session[s].status = "COMPLETED"
           /\ SplitTheorems!Settled(s)
           /\ InCents(Projects(s)) = Stands(s)
<1> DEFINE O == StoreTheorems!Of(db, s)
           v == db.sessions[s].version
<1>1. v # 0
  <2>1. StoreTheorems!Shown(db, s)
    BY DEF StoreTheorems!StoreInv, StoreTheorems!FaithfulInv, StoreTheorems!Faithful
  <2> QED BY <2>1 DEF StoreTheorems!Shown, StoreTheorems!Absent
<1>2. /\ StoreTheorems!Shows(db.sessions[s], O)
      /\ \A m \in O : \E e \in outbox : m = MessageOf(e)
  BY <1>1, KnownProjection
<1>3. PICK m \in O : m.kind = "SplitCompleted"
  BY <1>2 DEF StoreTheorems!Shows
<1>4. m.version = v /\ m.agg = s
  BY <1>2, <1>3 DEF StoreTheorems!Shows, StoreTheorems!Of
<1>5. PICK e \in outbox : m = MessageOf(e)
  BY <1>2
<1>6. e.session = s /\ e.kind = "SplitCompleted" /\ e.version = v
  BY <1>3, <1>4, <1>5 DEF MessageOf
<1>7. SplitTheorems!Booked(s)
  BY DEF SplitTheorems!BooksInv, SplitTheorems!LedgerInv
<1>8. session[s].status = "COMPLETED" /\ session[s].version = v /\ SplitTheorems!Settled(s)
  BY <1>6, <1>7 DEF SplitTheorems!Booked
<1>9. UpTo(s, v) = SplitTheorems!EventsOf(s)
  <2>1. v \in Nat
    BY <1>8 DEF SplitTheorems!BooksInv, SplitTheorems!TypeOK, SplitTheorems!Row
  <2>2. \A f \in outbox : f.session = s => f.version <= v
    BY <1>7, <1>8, <2>1 DEF SplitTheorems!Booked
  <2> HIDE DEF v
  <2> QED BY <2>2 DEF UpTo, SplitTheorems!EventsOf
<1>10. Stands(s) \in Content /\ Tells(Stands(s), UpTo(s, v))
  BY <1>8, <1>9, StandsTells
<1> QED BY <1>1, <1>8, <1>10, ProjectsTells

(* The service adds the shares up as a function, the store as a set. *)
SumOfShares(parts, S) == Store!MapThenSumSet(LAMBDA p : parts[p].share, S)

LEMMA SameSum ==
    ASSUME NEW S, NEW fun, NEW parts, \A p \in S : fun[p] = parts[p].share
    PROVE  SplitTheorems!SumFunctionOnSet(fun, S) = SumOfShares(parts, S)
<1> DEFINE pick(T) == CHOOSE x \in T : TRUE
           Adds(sum) == sum = [T \in SUBSET S |->
                                 IF T = {} THEN 0
                                 ELSE fun[pick(T)] + sum[T \ {pick(T)}]]
           AddsShares(sum) == sum = [T \in SUBSET S |->
                                 IF T = {} THEN 0
                                 ELSE parts[pick(T)].share + sum[T \ {pick(T)}]]
<1>1. SplitTheorems!SumFunctionOnSet(fun, S) = (CHOOSE sum : Adds(sum))[S]
  BY DEF SplitTheorems!SumFunctionOnSet, SplitTheorems!FoldFunctionOnSet,
     SplitTheorems!MapThenFoldSet
<1>2. SumOfShares(parts, S) = (CHOOSE sum : AddsShares(sum))[S]
  BY DEF SumOfShares, Store!MapThenSumSet, Store!MapThenFoldSet
<1>3. \A T \in SUBSET S : T # {} => pick(T) \in S
  OBVIOUS
<1> HIDE DEF pick
<1>4. ASSUME NEW sum
      PROVE  [T \in SUBSET S |-> IF T = {} THEN 0
                                 ELSE fun[pick(T)] + sum[T \ {pick(T)}]]
             = [T \in SUBSET S |-> IF T = {} THEN 0
                                   ELSE parts[pick(T)].share + sum[T \ {pick(T)}]]
  BY <1>3
<1>5. \A sum : Adds(sum) <=> AddsShares(sum)
  BY <1>4
<1> HIDE DEF Adds, AddsShares
<1>6. (CHOOSE sum : Adds(sum)) = CHOOSE sum : AddsShares(sum)
  BY <1>5
<1> QED BY <1>1, <1>2, <1>6

(* Until the requests of a session have overlapped, a session that the       *)
(* service has agreed to close counts as a valid close in B-K1, if amounts   *)
(* are whole cents.                                                          *)
THEOREM ClosesAreValid ==
    ASSUME WholeCents
    PROVE  Spec => []ClosesCountAsValid
<1>1. SplitTheorems!BooksInv /\ StoreTheorems!StoreInv /\ ReadInv /\ OverlapInv
        => ClosesCountAsValid
  <2> SUFFICES ASSUME SplitTheorems!BooksInv, StoreTheorems!StoreInv, ReadInv, OverlapInv,
                      ~overlapped, NEW s \in Sessions, db.sessions[s].status = "COMPLETED"
               PROVE  Store!ValidClose(db.sessions[s])
    BY DEF ClosesCountAsValid
  <2> DEFINE q == db.sessions[s]
             A == Store!AddedTo(q)
  <2>1. SplitTheorems!Distinct(s)
    BY DEF OverlapInv, SplitTheorems!ApartInv
  <2>2. /\ q.version # 0 /\ SplitTheorems!Settled(s) /\ InCents(Projects(s)) = Stands(s)
    BY <2>1, ClosedIsWhole
  <2>3. Projects(s) = Stands(s)
    BY <2>2, ProjectsInCents
  <2>4. q.total = session[s].total /\ q.parts = Stands(s).parts
    BY <2>3 DEF Projects, Stands
  <2>5. ASSUME NEW p \in Participants
        PROVE  /\ q.parts[p].added <=> participant[p].session = s
               /\ participant[p].session = s =>
                    /\ q.parts[p].share = participant[p].share
                    /\ q.parts[p].authorized = participant[p].authorized
    <3>1. CASE participant[p].session = s
      <4>1. q.parts[p] = [added |-> TRUE, share |-> participant[p].share,
                          authorized |-> participant[p].authorized]
        BY <2>4, <3>1 DEF Stands
      <4> HIDE DEF q
      <4> QED BY <3>1, <4>1
    <3>2. CASE participant[p].session # s
      <4>1. q.parts[p] = [added |-> FALSE, share |-> 0, authorized |-> FALSE]
        BY <2>4, <3>2 DEF Stands, Store!NoParts
      <4> HIDE DEF q
      <4>2. ~q.parts[p].added
        BY <4>1
      <4> QED BY <3>2, <4>2
    <3> QED BY <3>1, <3>2
  <2> HIDE DEF q
  <2>6. A = SplitTheorems!PartsOf(s)
    BY <2>5 DEF Store!AddedTo, SplitTheorems!PartsOf
  <2>7. \A p \in A : /\ q.parts[p].share = participant[p].share
                     /\ q.parts[p].authorized = participant[p].authorized
    BY <2>5, <2>6 DEF SplitTheorems!PartsOf
  <2>8. \A p \in A : q.parts[p].share > 0
    <3> SUFFICES ASSUME NEW p \in A PROVE q.parts[p].share > 0
      OBVIOUS
    <3>1. p \in Participants /\ q.parts[p].added
      BY DEF Store!AddedTo
    <3>2. q.parts[p].share \in Amounts
      BY <2>2, <3>1, ProjectsInCents DEF q, Projects
    <3>3. \A a \in Amounts : a \in Nat /\ a >= 10
      BY SplitAssumption DEF Split!AmountsAssumption
    <3> QED BY <3>2, <3>3
  <2>9. A # {} /\ \A p \in A : q.parts[p].authorized
    BY <2>2, <2>6, <2>7 DEF SplitTheorems!Settled
  <2>10. Store!Shares(q, A) = q.total
    <3> DEFINE f == SplitTheorems!SharesOf(s)
    <3>1. /\ DOMAIN f = A /\ \A p \in A : f[p] = q.parts[p].share
      BY <2>6, <2>7 DEF SplitTheorems!SharesOf
    <3>2. SplitTheorems!SumFunction(f) = q.total
      BY <2>2, <2>4 DEF SplitTheorems!Settled
    <3> HIDE DEF f, A
    <3>3. SplitTheorems!SumFunctionOnSet(f, A) = q.total
      BY <3>1, <3>2 DEF SplitTheorems!SumFunction
    <3>4. SplitTheorems!SumFunctionOnSet(f, A) = SumOfShares(q.parts, A)
      BY <3>1, SameSum
    <3>5. Store!Shares(q, A) = SumOfShares(q.parts, A)
      BY DEF Store!Shares, SumOfShares
    <3> QED BY <3>3, <3>4, <3>5
  <2> QED BY <2>8, <2>9, <2>10 DEF Store!ValidClose, q
<1> QED BY <1>1, BooksHold, StoreHolds, ReadIsStored, OverlapHolds, PTL

-----------------------------------------------------------------------------
(* The projections follow the service, as SplitMirror has it. *)

(* The contents of SplitMirror, and what it is shown, in this system. *)
Contents ==
    [status : {"OPEN", "COMPLETED"}, total : Amounts,
     closedAt : 0..MaxTime \cup {None},
     parts : [Participants -> {Store!NoParts[CHOOSE p \in Participants : TRUE]} \cup
                [added : {TRUE}, share : Amounts, authorized : BOOLEAN]]]

View == [s \in Sessions |->
           [version |-> db.sessions[s].version,
            content |-> IF db.sessions[s].version = 0 THEN None ELSE Projects(s)]]

StandInv ==
    \A s \in Sessions : SplitTheorems!Distinct(s) /\ session[s].status # "ABSENT" =>
        /\ Stands(s) \in Content /\ Stands(s) \in Contents
        /\ Tells(Stands(s), SplitTheorems!EventsOf(s))

LEMMA BooksStand ==
    ASSUME WholeCents, SplitTheorems!BooksInv
    PROVE  StandInv
<1> SUFFICES ASSUME NEW s \in Sessions, SplitTheorems!Distinct(s),
                    session[s].status # "ABSENT"
             PROVE  Stands(s) \in Contents
  BY StandsTells DEF StandInv
<1> DEFINE c == Stands(s)
<1>0. SplitTheorems!TypeOK /\ SplitTheorems!TablesInv /\ SplitTheorems!StoredInv
  BY DEF SplitTheorems!BooksInv
<1>1. session[s] \in SplitTheorems!Row
  BY <1>0 DEF SplitTheorems!TypeOK
<1>2. session[s].total \in Amounts
  <2>1. PICK e \in outbox : e.kind = "SplitCreated" /\ e.session = s
    BY <1>0 DEF SplitTheorems!TablesInv, SplitTheorems!Created
  <2>2. e.amount \in Amounts /\ session[s].total = SplitTheorems!Stored(e.amount)
    BY <1>0, <2>1 DEF SplitTheorems!StoredInv
  <2> QED BY <2>2 DEF WholeCents
<1>3. session[s].closedAt \in 0..MaxTime \cup {None}
  <2>1. session[s].closedAt \in 0..now \cup {None} /\ now <= MaxTime /\ now \in Nat
    BY <1>0 DEF SplitTheorems!StoredInv, SplitTheorems!TypeOK
  <2>2. MaxTime \in Nat
    BY SplitAssumption DEF Split!MaxTimeAssumption
  <2> QED BY <2>1, <2>2
<1>4. ASSUME NEW p \in Participants
      PROVE  c.parts[p] \in {Store!NoParts[CHOOSE q \in Participants : TRUE]} \cup
                              [added : {TRUE}, share : Amounts, authorized : BOOLEAN]
  <2>1. CASE participant[p].session = s
    <3>1. c.parts[p] = [added |-> TRUE, share |-> participant[p].share,
                        authorized |-> participant[p].authorized]
      BY <2>1 DEF Stands
    <3>2. participant[p].authorized \in BOOLEAN
      BY <1>0 DEF SplitTheorems!TypeOK, SplitTheorems!ParticipantRow
    <3>3. PICK e \in outbox : e.kind = "ParticipantAdded" /\ e.session = s /\ e.pid = p
      BY <1>0, <2>1 DEF SplitTheorems!TablesInv, SplitTheorems!Says
    <3>4. e.amount \in Amounts /\ participant[p].share = SplitTheorems!Stored(e.amount)
      BY <1>0, <3>3 DEF SplitTheorems!StoredInv
    <3>5. participant[p].share \in Amounts
      BY <3>4 DEF WholeCents
    <3> HIDE DEF c
    <3> QED BY <3>1, <3>2, <3>5
  <2>2. CASE participant[p].session # s
    <3>1. c.parts[p] = [added |-> FALSE, share |-> 0, authorized |-> FALSE]
      BY <2>2 DEF Stands, Store!NoParts
    <3>2. (CHOOSE q \in Participants : TRUE) \in Participants
      OBVIOUS
    <3>3. Store!NoParts[CHOOSE q \in Participants : TRUE]
            = [added |-> FALSE, share |-> 0, authorized |-> FALSE]
      BY <3>2 DEF Store!NoParts
    <3> HIDE DEF c
    <3> QED BY <3>1, <3>3
  <2> QED BY <2>1, <2>2
<1>5. c.parts \in [Participants ->
                     {Store!NoParts[CHOOSE q \in Participants : TRUE]} \cup
                       [added : {TRUE}, share : Amounts, authorized : BOOLEAN]]
  <2>1. c.parts = [p \in Participants |-> c.parts[p]]
    BY DEF Stands
  <2> HIDE DEF c
  <2> QED BY <1>4, <2>1
<1>6. c.status \in {"OPEN", "COMPLETED"}
  BY <1>1 DEF Stands, SplitTheorems!Row
<1>7. c = [status |-> session[s].status, total |-> session[s].total,
           closedAt |-> session[s].closedAt, parts |-> c.parts]
  BY DEF Stands
<1> HIDE DEF c
<1>8. c.status = session[s].status
  BY DEF Stands, c
<1>9. c \in Contents
  <2> DEFINE P == [Participants ->
                     {Store!NoParts[CHOOSE q \in Participants : TRUE]} \cup
                       [added : {TRUE}, share : Amounts, authorized : BOOLEAN]]
  <2>1. Contents = [status : {"OPEN", "COMPLETED"}, total : Amounts,
                    closedAt : 0..MaxTime \cup {None}, parts : P]
    BY DEF Contents
  <2>2. session[s].status \in {"OPEN", "COMPLETED"} /\ c.parts \in P
    BY <1>5, <1>6, <1>8
  <2> HIDE DEF P
  <2> QED BY <1>2, <1>3, <1>7, <2>1, <2>2
<1> QED BY <1>9 DEF c

LEMMA StandHolds == ASSUME WholeCents PROVE Spec => []StandInv
<1>1. SplitTheorems!BooksInv => StandInv
  BY BooksStand
<1> QED BY <1>1, BooksHold, PTL

(* Until an overlap, the history of a session has one content for each       *)
(* version, and it is what the events up to that version tell.               *)
HistoryInv ==
    /\ history \in [Sessions -> Seq(Content)]
    /\ ~overlapped => \A s \in Sessions :
         /\ Len(history[s]) = session[s].version
         /\ \A v \in 1..Len(history[s]) : Tells(history[s][v], UpTo(s, v))

LEMMA InitHistory == Init => HistoryInv
<1> SUFFICES ASSUME Init PROVE HistoryInv
  OBVIOUS
<1>1. history = [s \in Sessions |-> <<>>]
  BY DEF Init
<1>2. \A s \in Sessions : session[s].version = 0
  BY DEF Init, Split!Init
<1>3. <<>> \in Seq(Content) /\ Len(<<>>) = 0 /\ 1..0 = {}
  OBVIOUS
<1> QED BY <1>1, <1>2, <1>3 DEF HistoryInv

(* What a request does to the histories. *)
LEMMA ServeHistory ==
    ASSUME SplitTheorems!BooksInv, SplitTheorems!BooksInv', StandInv', OverlapInv,
           HistoryInv, Serve, ~overlapped'
    PROVE  /\ HistoryInv'
           /\ \/ history' = history
              \/ \E s \in Sessions :
                   /\ session[s].status # "COMPLETED"
                   /\ Stands(s)' \in Contents
                   /\ history' = [history EXCEPT ![s] = Append(@, Stands(s)')]
<1>1. /\ ~overlapped /\ SplitTheorems!ApartInv' /\ SplitTheorems!OneAdvances
  BY ServeApart
<1>2. /\ history \in [Sessions -> Seq(Content)]
      /\ \A s \in Sessions :
           /\ Len(history[s]) = session[s].version
           /\ \A v \in 1..Len(history[s]) : Tells(history[s][v], UpTo(s, v))
  BY <1>1 DEF HistoryInv
<1>3. history' = [s \in Sessions |->
                    IF session'[s] = session[s] THEN history[s]
                    ELSE Append(history[s], Stands(s)')]
  BY DEF Serve
<1>4. ASSUME NEW s \in Sessions, SplitTheorems!Untouched(s)
      PROVE  /\ history'[s] = history[s] /\ session'[s] = session[s]
             /\ \A v : UpTo(s, v)' = UpTo(s, v)
  BY <1>3, <1>4 DEF SplitTheorems!Untouched, SplitTheorems!EventsOf, UpTo
<1>5. CASE \A s \in Sessions : SplitTheorems!Untouched(s)
  <2>1. history' = history
    BY <1>2, <1>3, <1>4, <1>5
  <2>2. HistoryInv'
    BY <1>2, <1>4, <1>5, <2>1 DEF HistoryInv
  <2> QED BY <2>1, <2>2
<1>6. ASSUME NEW s \in Sessions, SplitTheorems!Advanced(s),
             \A u \in Sessions \ {s} : SplitTheorems!Untouched(u)
      PROVE  /\ HistoryInv' /\ session[s].status # "COMPLETED" /\ Stands(s)' \in Contents
             /\ history' = [history EXCEPT ![s] = Append(@, Stands(s)')]
  <2> DEFINE c == Stands(s)'
  <2>0. PICK n \in Nat : n = session[s].version
    BY DEF SplitTheorems!BooksInv, SplitTheorems!TypeOK, SplitTheorems!Row
  <2>1. /\ session[s].status # "COMPLETED" /\ session'[s].status # "ABSENT"
        /\ session'[s].version = n + 1
        /\ \E e \in SplitTheorems!Event :
             e.version = n + 1
             /\ SplitTheorems!EventsOf(s)' = SplitTheorems!EventsOf(s) \cup {e}
    BY <1>6, <2>0 DEF SplitTheorems!Advanced
  <2>3. SplitTheorems!Distinct(s)'
    BY <1>1 DEF SplitTheorems!ApartInv
  <2>4. c \in Content /\ c \in Contents /\ Tells(c, SplitTheorems!EventsOf(s)')
    BY <2>1, <2>3 DEF StandInv
  <2> HIDE DEF c
  <2>5. history' = [history EXCEPT ![s] = Append(@, c)]
    <3>1. \A u \in Sessions : history'[u] = IF u = s THEN Append(history[s], c)
                                           ELSE history[u]
      BY <1>3, <1>4, <1>6, <2>1, <2>0 DEF c
    <3> QED BY <1>2, <1>3, <3>1
  <2>6. /\ history'[s] \in Seq(Content) /\ Len(history'[s]) = n + 1
        /\ \A v \in 1..n : history'[s][v] = history[s][v]
        /\ history'[s][n + 1] = c
    <3>1. history[s] \in Seq(Content) /\ Len(history[s]) = n
      BY <1>2, <2>0
    <3>2. history'[s] = Append(history[s], c)
      BY <1>2, <2>5
    <3> QED BY <2>4, <3>1, <3>2
  <2>7. \A v \in 1..n : UpTo(s, v)' = UpTo(s, v)
    BY <2>1, <2>0 DEF UpTo, SplitTheorems!EventsOf
  <2>8. UpTo(s, n + 1)' = SplitTheorems!EventsOf(s)'
    <3>1. SplitTheorems!Booked(s)'
      BY <2>3 DEF SplitTheorems!BooksInv, SplitTheorems!LedgerInv
    <3>2. \A e \in outbox' : e.session = s => e.version <= n + 1
      BY <2>1, <2>0, <3>1 DEF SplitTheorems!Booked
    <3> QED BY <3>2 DEF UpTo, SplitTheorems!EventsOf
  <2>9. \A v \in 1..(n + 1) : Tells(history'[s][v], UpTo(s, v)')
    <3>1. \A v \in 1..n : Tells(history'[s][v], UpTo(s, v)')
      BY <1>2, <2>0, <2>6, <2>7
    <3>2. Tells(history'[s][n + 1], UpTo(s, n + 1)')
      BY <2>4, <2>6, <2>8
    <3> QED BY <2>0, <3>1, <3>2
  <2>10. history' \in [Sessions -> Seq(Content)]
    BY <1>2, <2>5, <2>6
  <2>11. HistoryInv'
    <3>1. ASSUME NEW u \in Sessions
          PROVE  /\ Len(history'[u]) = session'[u].version
                 /\ \A v \in 1..Len(history'[u]) : Tells(history'[u][v], UpTo(u, v)')
      <4>1. CASE u = s
        BY <2>1, <2>6, <2>9, <4>1
      <4>2. CASE u # s
        BY <1>2, <1>4, <1>6, <4>2
      <4> QED BY <4>1, <4>2
    <3> QED BY <2>10, <3>1 DEF HistoryInv, Tells, TellsPart
  <2> QED BY <2>1, <2>4, <2>5, <2>11 DEF c
<1> QED BY <1>1, <1>5, <1>6 DEF SplitTheorems!OneAdvances

(* No other step sees the histories or adds to them. *)
LEMMA OthersHistory ==
    ASSUME RelayInv,
           Pass(RelayThread \/ Relay!Deliver) \/ Pass(RelayFails) \/ Consume
             \/ StoreStep \/ UNCHANGED vars
    PROVE  UNCHANGED <<session, outbox, overlapped, history>>
<1>1. CASE Pass(RelayThread \/ Relay!Deliver) \/ Pass(RelayFails)
  BY <1>1, TopicGrows DEF auxVars
<1>2. CASE Consume \/ StoreStep
  BY <1>2, StoreAlone
<1>3. CASE UNCHANGED vars
  BY <1>3 DEF vars, splitVars, auxVars
<1> QED BY <1>1, <1>2, <1>3

(* An overlap ends what is recorded, and is not forgotten. *)
LEMMA ServeOverlapped ==
    ASSUME HistoryInv, Serve, overlapped'
    PROVE  HistoryInv'
<1>1. history' = [s \in Sessions |-> history[s]]
  BY DEF Serve
<1>2. history \in [Sessions -> Seq(Content)]
  BY DEF HistoryInv
<1>3. history' = history
  BY <1>1, <1>2
<1> QED BY <1>2, <1>3 DEF HistoryInv

LEMMA NextHistory ==
    ASSUME SplitTheorems!BooksInv, SplitTheorems!BooksInv', StandInv', RelayInv,
           OverlapInv, HistoryInv, [Next]_vars
    PROVE  HistoryInv'
<1>1. CASE Serve
  BY <1>1, ServeHistory, ServeOverlapped
<1>2. CASE Pass(RelayThread \/ Relay!Deliver) \/ Pass(RelayFails) \/ Consume
           \/ StoreStep \/ UNCHANGED vars
  <2>1. UNCHANGED <<session, outbox, overlapped, history>>
    BY <1>2, OthersHistory
  <2> QED BY <2>1 DEF HistoryInv, UpTo, Tells, TellsPart
<1> QED BY <1>1, <1>2 DEF Next

LEMMA HistoryHolds == ASSUME WholeCents PROVE Spec => []HistoryInv
<1>1. /\ SplitTheorems!BooksInv /\ SplitTheorems!BooksInv' /\ StandInv' /\ RelayInv
      /\ OverlapInv /\ HistoryInv /\ [Next]_vars
      => HistoryInv'
  BY NextHistory
<1>2. Spec => []StandInv
  BY StandHolds
<1> QED
  BY <1>1, <1>2, InitHistory, BooksHold, InitRelay, NextRelay, OverlapHolds, PTL DEF Spec

(* Until an overlap, a projection shows what the history of its session says *)
(* of its version.                                                           *)
FollowInv ==
    ~overlapped => \A s \in Sessions : db.sessions[s].version # 0 =>
        /\ db.sessions[s].version \in 1..Len(history[s])
        /\ Projects(s) = history[s][db.sessions[s].version]

LEMMA Follows ==
    ASSUME WholeCents, SplitTheorems!BooksInv, StoreTheorems!StoreInv, ReadInv,
           OverlapInv, HistoryInv
    PROVE  FollowInv
<1> SUFFICES ASSUME ~overlapped, NEW s \in Sessions, db.sessions[s].version # 0
             PROVE  /\ db.sessions[s].version \in 1..Len(history[s])
                    /\ Projects(s) = history[s][db.sessions[s].version]
  BY DEF FollowInv
<1> DEFINE v == db.sessions[s].version
           O == StoreTheorems!Of(db, s)
<1>1. /\ SplitTheorems!Distinct(s) /\ SplitTheorems!Booked(s)
  BY DEF OverlapInv, SplitTheorems!ApartInv, SplitTheorems!BooksInv, SplitTheorems!LedgerInv
<1>2. /\ history[s] \in Seq(Content) /\ Len(history[s]) = session[s].version
      /\ \A n \in 1..Len(history[s]) : Tells(history[s][n], UpTo(s, n))
  BY DEF HistoryInv
<1>3. v \in Nat /\ v # 0
  BY DEF StoreTheorems!StoreInv, StoreTheorems!KeyedInv, StoreTheorems!Typed,
     StoreTheorems!TypeOK, StoreTheorems!Database, StoreTheorems!Projection
<1>4. v \in 1..session[s].version
  <2>1. {m.version : m \in O} = 1..v
    BY DEF StoreTheorems!StoreInv, StoreTheorems!KeyedInv, StoreTheorems!Prefix,
       StoreTheorems!Of
  <2>2. /\ \A m \in O : \E e \in outbox : m = MessageOf(e)
        /\ \A m \in O : m.agg = s
    BY KnownProjection DEF StoreTheorems!Of
  <2>3. \A e : MessageOf(e).agg = e.session /\ MessageOf(e).version = e.version
    BY DEF MessageOf
  <2> HIDE DEF O, v
  <2>4. PICK m \in O : m.version = v
    BY <1>3, <2>1
  <2>5. PICK e \in outbox : e.session = s /\ e.version = v
    BY <2>2, <2>3, <2>4
  <2> QED BY <1>1, <2>5 DEF SplitTheorems!Booked
<1>5. history[s][v] \in Content /\ Tells(history[s][v], UpTo(s, v))
  BY <1>2, <1>4
<1>6. InCents(Projects(s)) = history[s][v]
  BY <1>1, <1>3, <1>5, ProjectsTells
<1>7. InCents(Projects(s)) = Projects(s)
  BY <1>3, ProjectsInCents
<1> QED BY <1>2, <1>4, <1>6, <1>7

LEMMA FollowHolds == ASSUME WholeCents PROVE Spec => []FollowInv
<1>1. /\ SplitTheorems!BooksInv /\ StoreTheorems!StoreInv /\ ReadInv /\ OverlapInv
      /\ HistoryInv
      => FollowInv
  BY Follows
<1>2. Spec => []HistoryInv
  BY HistoryHolds
<1> QED BY <1>1, <1>2, BooksHold, StoreHolds, ReadIsStored, OverlapHolds, PTL

(* No entry of the history of a session that is not closed is final. *)
LEMMA OpenHistory ==
    ASSUME SplitTheorems!BooksInv, OverlapInv, HistoryInv, ~overlapped,
           NEW s \in Sessions, session[s].status # "COMPLETED"
    PROVE  \A i \in DOMAIN history[s] : history[s][i].status # "COMPLETED"
<1>1. SplitTheorems!Booked(s)
  BY DEF OverlapInv, SplitTheorems!ApartInv, SplitTheorems!BooksInv, SplitTheorems!LedgerInv
<1>2. /\ history[s] \in Seq(Content)
      /\ \A n \in 1..Len(history[s]) : Tells(history[s][n], UpTo(s, n))
  BY DEF HistoryInv
<1>3. \A e \in outbox : e.session = s => e.kind # "SplitCompleted"
  BY <1>1 DEF SplitTheorems!Booked
<1> SUFFICES ASSUME NEW i \in 1..Len(history[s])
             PROVE  history[s][i].status # "COMPLETED"
  BY <1>2
<1>4. \A e \in UpTo(s, i) : e.kind # "SplitCompleted"
  BY <1>3 DEF UpTo
<1>5. history[s][i].status = "OPEN"
  BY <1>2, <1>4 DEF Tells
<1> QED BY <1>5

(* A request changes one session that is not final, or nothing that the      *)
(* mirror sees, or it overlaps with another.                                 *)
LEMMA ServeMirrors ==
    ASSUME SplitTheorems!BooksInv, SplitTheorems!BooksInv', StandInv', OverlapInv,
           HistoryInv, Serve
    PROVE  [Mirror!Next]_(Mirror!vars)
<1>1. CASE overlapped'
  BY <1>1 DEF Mirror!Next
<1>2. CASE ~overlapped'
  <2>1. ~overlapped /\ db' = db
    BY <1>2, ServeApart DEF Serve, storeVars
  <2>2. overlapped' = overlapped
    <3>1. overlapped' \in BOOLEAN
      BY DEF Serve
    <3> QED BY <1>2, <2>1, <3>1 DEF OverlapInv
  <2>3. View' = View
    BY <2>1 DEF View, Projects
  <2>4. CASE history' = history
    BY <2>3, <2>4, <2>2 DEF Mirror!vars, View
  <2>5. ASSUME NEW s \in Sessions, session[s].status # "COMPLETED",
               Stands(s)' \in Contents,
               history' = [history EXCEPT ![s] = Append(@, Stands(s)')]
        PROVE  Mirror!Change(s)
    <3>1. \A i \in DOMAIN history[s] : ~(history[s][i].status = "COMPLETED")
      BY <2>1, <2>5, OpenHistory
    <3>2. \E c \in Contents : history' = [history EXCEPT ![s] = Append(@, c)]
      BY <2>5
    <3>3. UNCHANGED <<View, overlapped>>
      BY <2>3, <2>2
    <3> QED BY <3>1, <3>2, <3>3 DEF Mirror!Change, View, Contents
  <2> QED BY <1>2, <2>4, <2>5, ServeHistory DEF Mirror!Next
<1> QED BY <1>1, <1>2

(* A commit of the store moves one session on, or none, to a content that    *)
(* its history has.                                                          *)
LEMMA CommitMirrors ==
    ASSUME StoreTheorems!StoreInv, StoreTheorems!StoreInv', FollowInv, FollowInv',
           ~overlapped, StoreTheorems!Commit, UNCHANGED <<overlapped, history>>
    PROVE  [Mirror!Next]_(Mirror!vars)
<1>0. /\ StoreTheorems!Typed /\ StoreTheorems!Kept
      /\ StoreTheorems!Prefix(db) /\ StoreTheorems!Prefix(db')
      /\ db \in StoreTheorems!Database /\ db' \in StoreTheorems!Database
  BY DEF StoreTheorems!StoreInv, StoreTheorems!KeyedInv, StoreTheorems!Typed,
     StoreTheorems!TypeOK, StoreTheorems!Prefix
<1>1. txn # None /\ db.applied \subseteq db'.applied
  BY <1>0, StoreAssumptions, StoreTheorems!CommitKept
<1>2. PICK a \in Sessions : a = txn.msg.agg
  <2>1. txn.msg \in Messages
    BY <1>0, <1>1, StoreAssumptions, StoreTheorems!TxnType
  <2> QED BY <2>1 DEF Messages
<1>3. \A s \in Sessions \ {a} : db'.sessions[s] = db.sessions[s]
  <2>1. db'.sessions = txn.db.sessions
    BY <1>0, StoreAssumptions, StoreTheorems!TxnStep DEF StoreTheorems!Same
  <2> QED BY <1>1, <1>2, <2>1 DEF StoreTheorems!StoreInv, StoreTheorems!OneProjection
<1>4. db.sessions[a].version \in Nat /\ db'.sessions[a].version \in Nat
  BY <1>0, <1>2 DEF StoreTheorems!Database, StoreTheorems!Projection
<1>5. db.sessions[a].version <= db'.sessions[a].version
  <2>1. 1..db.sessions[a].version \subseteq 1..db'.sessions[a].version
    <3>1. /\ {m.version : m \in {n \in db.applied : n.agg = a}}
                = 1..db.sessions[a].version
          /\ {m.version : m \in {n \in db'.applied : n.agg = a}}
                = 1..db'.sessions[a].version
      BY <1>0, <1>2 DEF StoreTheorems!Prefix
    <3> QED BY <1>1, <3>1
  <2> QED BY <1>4, <2>1
<1>6. \A s \in Sessions \ {a} : View'[s] = View[s]
  BY <1>3 DEF View, Projects
<1>7. /\ View = [s \in Sessions |-> View[s]] /\ View' = [s \in Sessions |-> View'[s]]
      /\ \A s \in Sessions :
           /\ View[s] = [version |-> db.sessions[s].version,
                         content |-> IF db.sessions[s].version = 0 THEN None
                                     ELSE Projects(s)]
           /\ View'[s] = [version |-> db'.sessions[s].version,
                          content |-> IF db'.sessions[s].version = 0 THEN None
                                      ELSE Projects(s)']
  BY DEF View
<1>8. ~overlapped'
  OBVIOUS
<1>9. CASE db'.sessions[a].version = db.sessions[a].version
  <2>1. db.sessions[a].version # 0 => Projects(a)' = Projects(a)
    BY <1>2, <1>8, <1>9 DEF FollowInv
  <2>2. View'[a] = View[a]
    BY <1>2, <1>7, <1>9, <2>1
  <2>3. View' = View
    BY <1>2, <1>6, <1>7, <2>2
  <2> QED BY <2>3 DEF Mirror!vars, View
<1>10. CASE db'.sessions[a].version > db.sessions[a].version
  <2> DEFINE v == db'.sessions[a].version
  <2>1. v # 0
    BY <1>4, <1>10
  <2>2. v \in 1..Len(history[a]) /\ Projects(a)' = history[a][v]
    BY <1>2, <1>8, <2>1 DEF FollowInv
  <2>3. View'[a] = [version |-> v, content |-> history[a][v]]
    BY <1>2, <1>7, <2>1, <2>2
  <2>4. View' = [View EXCEPT ![a] = [version |-> v, content |-> history[a][v]]]
    BY <1>2, <1>6, <1>7, <2>3
  <2>5. v \in (View[a].version + 1)..Len(history[a])
    BY <1>2, <1>4, <1>7, <1>10, <2>2
  <2>6. Mirror!Show(a)
    <3> HIDE DEF v
    <3>1. \E n \in (View[a].version + 1)..Len(history[a]) :
            View' = [View EXCEPT ![a] = [version |-> n, content |-> history[a][n]]]
      BY <2>4, <2>5
    <3> QED BY <3>1 DEF Mirror!Show, View
  <2> QED BY <1>2, <2>6 DEF Mirror!Next
<1> QED BY <1>4, <1>5, <1>9, <1>10

LEMMA InitMirrors == Init => Mirror!Init
<1> SUFFICES ASSUME Init PROVE Mirror!Init
  OBVIOUS
<1>1. \A s \in Sessions : db.sessions[s].version = 0
  BY DEF Init, Store!Init, Store!Empty, Store!Absent
<1> QED BY <1>1 DEF Init, Mirror!Init

LEMMA NextMirrors ==
    ASSUME SplitTheorems!BooksInv, SplitTheorems!BooksInv', StandInv', RelayInv,
           StoreTheorems!StoreInv, StoreTheorems!StoreInv',
           OverlapInv, HistoryInv, FollowInv, FollowInv', [Next]_vars
    PROVE  [Mirror!Next]_(Mirror!vars)
<1>1. CASE Serve
  BY <1>1, ServeMirrors
<1>2. CASE Pass(RelayThread \/ Relay!Deliver) \/ Pass(RelayFails) \/ Consume
           \/ StoreStep \/ UNCHANGED vars
  <2>1. UNCHANGED <<overlapped, history>>
    BY <1>2, OthersHistory
  <2>2. CASE db' = db
    BY <2>1, <2>2 DEF Mirror!vars, Projects
  <2>3. CASE StoreTheorems!Commit
    <3>1. CASE ~overlapped
      BY <2>1, <2>3, <3>1, CommitMirrors
    <3>2. CASE overlapped
      BY <2>1, <3>2 DEF Mirror!Next
    <3> QED BY <3>1, <3>2
  <2> QED BY <2>2, <2>3, StoreUnchanged
<1> QED BY <1>1, <1>2 DEF Next

(* The projections implement SplitMirror, but for the promise that they keep *)
(* up: until two requests of a session overlap, each session is shown as the *)
(* tables held it at some time, at the version that it then had, and never   *)
(* goes back, whatever the relay repeats and however often a transaction     *)
(* fails, if amounts are whole cents.                                        *)
THEOREM ProjectionsMirror ==
    ASSUME WholeCents
    PROVE  Spec => Mirror!Init /\ [][Mirror!Next]_(Mirror!vars)
<1>1. /\ SplitTheorems!BooksInv /\ SplitTheorems!BooksInv' /\ StandInv' /\ RelayInv
      /\ StoreTheorems!StoreInv /\ StoreTheorems!StoreInv'
      /\ OverlapInv /\ HistoryInv /\ FollowInv /\ FollowInv' /\ [Next]_vars
      => [Mirror!Next]_(Mirror!vars)
  BY NextMirrors
<1>2. Spec => []StandInv /\ []HistoryInv /\ []FollowInv
  BY StandHolds, HistoryHolds, FollowHolds
<1> QED
  BY <1>1, <1>2, InitMirrors, BooksHold, InitRelay, NextRelay, StoreHolds,
     OverlapHolds, PTL DEF Spec

-----------------------------------------------------------------------------
(* The store reports no error of its own: until two requests of a session    *)
(* overlap, whatever is in error was in error when it was stored.            *)

LEMMA StaysApart == ASSUME RelayInv, [Next]_vars, ~overlapped' PROVE ~overlapped
<1>1. CASE Serve
  BY <1>1 DEF Serve
<1>2. CASE Pass(RelayThread \/ Relay!Deliver) \/ Pass(RelayFails) \/ Consume
           \/ StoreStep \/ UNCHANGED vars
  BY <1>2, OthersHistory
<1> QED BY <1>1, <1>2 DEF Next

LEMMA EntriesHold == Spec => []SplitTheorems!EntriesInv
<1>1. SplitTheorems!Spec => []SplitTheorems!EntriesInv
  BY SplitTheorems!EventsAreNamedOnce, SplitAssumptions
<1> QED BY <1>1, ServiceIsSocialSplit, PTL

(* The order of the events, until an overlap. *)
OrderedInv == ~overlapped => SplitTheorems!OrderInv

LEMMA OrderHolds == Spec => []OrderedInv
<1>1. Init => OrderedInv
  <2>1. Init => SplitTheorems!Init
    BY DEF Init, Split!Init, SplitTheorems!Init
  <2> QED BY <2>1, SplitAssumptions, SplitTheorems!InitOrder DEF OrderedInv
<1>2. /\ SplitTheorems!BooksInv /\ RelayInv /\ OverlapInv /\ OrderedInv /\ [Next]_vars
      => OrderedInv'
  <2> SUFFICES ASSUME SplitTheorems!BooksInv, RelayInv, OverlapInv, OrderedInv,
                      [Next]_vars, ~overlapped'
               PROVE  SplitTheorems!OrderInv'
    BY DEF OrderedInv
  <2>1. SplitTheorems!Apart /\ SplitTheorems!ApartInv /\ SplitTheorems!OrderInv
    BY StaysApart DEF OverlapInv, OrderedInv
  <2> QED BY <2>1, SplitAssumptions, ServiceSteps, SplitTheorems!NextOrder
<1> QED
  BY <1>1, <1>2, BooksHold, InitRelay, NextRelay, OverlapHolds, PTL DEF Spec

(* Whatever the order in which the events reach the store, it can project    *)
(* each in its turn.                                                         *)
LEMMA TurnProjects ==
    ASSUME SplitTheorems!BooksInv, SplitTheorems!EntriesInv, SplitTheorems!OrderInv,
           NEW s \in Sessions, SplitTheorems!Distinct(s),
           NEW d, d \in StoreTheorems!Database, d.inbox \subseteq Records,
           StoreTheorems!Keyed(d), StoreTheorems!Prefix(d), StoreTheorems!Faithful(d),
           NEW m \in StoreTheorems!Turn(d, s)
    PROVE  StoreTheorems!Projectable(d.sessions[s], m)
<1> DEFINE q == d.sessions[s]
           v == d.sessions[s].version
           O == StoreTheorems!Of(d, s)
<1>0. v \in Nat /\ q.version = v
  BY DEF StoreTheorems!Database, StoreTheorems!Projection
<1>1. PICK e \in outbox : m = MessageOf(e)
  BY DEF StoreTheorems!Turn, Records
<1>2. /\ e.session = s /\ e.version = v + 1 /\ m.version = v + 1
      /\ m.kind = e.kind /\ m.at = e.at /\ m.pid = e.pid
  BY <1>1 DEF StoreTheorems!Turn, MessageOf
<1>3. /\ \A n \in O : \E f \in UpTo(s, v) : n = MessageOf(f)
      /\ \A f \in UpTo(s, v) : MessageOf(f) \in O
  <2>1. O = {MessageOf(f) : f \in UpTo(s, v)}
    BY AppliedAre
  <2> HIDE DEF O, v
  <2> QED BY <2>1
<1>4. \A f \in outbox :
        /\ f.kind \in SplitTheorems!Kinds /\ f.version \in Nat /\ f.at \in Nat
        /\ IF f.kind = "SplitCreated" THEN f.version = 1 ELSE f.version >= 2
  BY DEF SplitTheorems!BooksInv, SplitTheorems!TypeOK, SplitTheorems!Event,
     SplitTheorems!StoredInv
<1>5. \A f : /\ MessageOf(f).kind = f.kind /\ MessageOf(f).pid = f.pid
             /\ MessageOf(f).version = f.version /\ MessageOf(f).at = f.at
  BY DEF MessageOf
<1>6. /\ StoreTheorems!Shown(d, s) /\ StoreTheorems!Traced(d, s)
  BY DEF StoreTheorems!Faithful
<1>7. CASE v = 0
  BY <1>0, <1>1, <1>2, <1>4, <1>7 DEF StoreTheorems!Projectable
<1>8. CASE v # 0
  <2>1. StoreTheorems!Shows(q, O)
    BY <1>6, <1>8 DEF StoreTheorems!Shown
  <2>2. PICK n \in O : n.version = v /\ q.at = n.at
    BY <1>6, <1>8, StoreAssumptions, StoreTheorems!LastTime
  <2>o. O = StoreTheorems!Of(d, s)
    OBVIOUS
  <2> HIDE DEF O, q, v
  <2>3. q.status # "COMPLETED"
    <3> SUFFICES ASSUME q.status = "COMPLETED" PROVE FALSE
      OBVIOUS
    <3>1. PICK k \in O : k.kind = "SplitCompleted"
      BY <2>1 DEF StoreTheorems!Shows
    <3>2. PICK f \in UpTo(s, v) : k = MessageOf(f)
      BY <1>3
    <3>3. f \in outbox /\ f.session = s /\ f.kind = "SplitCompleted" /\ f.version <= v
      BY <1>5, <3>1, <3>2 DEF UpTo
    <3>4. SplitTheorems!Booked(s)
      BY DEF SplitTheorems!BooksInv, SplitTheorems!LedgerInv
    <3>5. f.version = session[s].version /\ e.version \in 1..session[s].version
      BY <1>2, <3>3, <3>4 DEF SplitTheorems!Booked
    <3> QED BY <1>0, <1>2, <1>4, <3>3, <3>5
  <2>4. m.at >= q.at
    <3>1. PICK f \in UpTo(s, v) : n = MessageOf(f)
      BY <1>3
    <3>2. f \in outbox /\ f.session = s /\ f.version = v /\ f.at = q.at
      BY <1>5, <2>2, <3>1 DEF UpTo
    <3>3. f.at <= e.at
      BY <1>0, <1>2, <3>2
         DEF SplitTheorems!OrderInv, SplitTheorems!EventInv, SplitTheorems!TimeInv,
             SplitTheorems!VersionsFollowTime
    <3> QED BY <1>2, <1>4, <3>2, <3>3
  <2>5. m.kind # "SplitCreated"
    BY <1>0, <1>2, <1>4, <1>8
  <2>6. ASSUME m.kind = "ParticipantAdded" PROVE ~q.parts[m.pid].added
    <3> SUFFICES ASSUME q.parts[m.pid].added PROVE FALSE
      OBVIOUS
    <3>1. m.pid \in Participants
      BY <1>2, <2>6 DEF SplitTheorems!BooksInv, SplitTheorems!StoredInv
    <3>2. PICK k \in O : k.kind = "ParticipantAdded" /\ k.pid = m.pid
      BY <2>1, <3>1 DEF StoreTheorems!Shows, StoreTheorems!ShowsParts
    <3>3. PICK f \in UpTo(s, v) : k = MessageOf(f)
      BY <1>3
    <3>4. f \in outbox /\ f.kind = "ParticipantAdded" /\ f.pid = e.pid /\ f.version <= v
      BY <1>2, <1>5, <3>2, <3>3 DEF UpTo
    <3>5. f = e
      BY <1>2, <2>6, <3>4 DEF SplitTheorems!EntriesInv
    <3> QED BY <1>0, <1>2, <3>4, <3>5
  <2>7. ASSUME m.kind = "ParticipantAuthorized" PROVE q.parts[m.pid].added
    <3>1. m.pid \in Participants
      BY <1>2, <2>7 DEF SplitTheorems!BooksInv, SplitTheorems!StoredInv
    <3>2. PICK f \in outbox : /\ f.kind = "ParticipantAdded" /\ f.version < e.version
                              /\ f.session = e.session /\ f.pid = e.pid
      BY <1>2, <2>7 DEF SplitTheorems!OrderInv
    <3>3. f \in UpTo(s, v)
      BY <1>0, <1>2, <1>4, <3>2 DEF UpTo
    <3>4. MessageOf(f) \in O /\ MessageOf(f).kind = "ParticipantAdded"
          /\ MessageOf(f).pid = m.pid
      BY <1>2, <1>3, <1>5, <3>2, <3>3
    <3> QED BY <2>1, <3>1, <3>4 DEF StoreTheorems!Shows, StoreTheorems!ShowsParts
  <2>8. m.kind \in SplitTheorems!Kinds
    BY <1>2, <1>4
  <2>9. StoreTheorems!Projectable(q, m)
    BY <1>0, <1>2, <1>8, <2>3, <2>4, <2>5, <2>6, <2>7, <2>8
       DEF StoreTheorems!Projectable, SplitTheorems!Kinds
  <2> QED BY <2>9 DEF q
<1> QED BY <1>7, <1>8

SilentInv ==
    ~overlapped => db.errors = {} /\ (txn # None => txn.db.errors = {})

(* The record of a stored event never clashes with a row of the inbox. *)
LEMMA NothingRejected ==
    ASSUME SplitTheorems!BooksInv, SplitTheorems!EntriesInv, OverlapInv, ReadInv,
           ~overlapped, NEW e \in outbox, NEW off
    PROVE  ~StoreTheorems!IngestRejected(MessageOf(e), off)
<1> DEFINE m == MessageOf(e)
<1>1. \A f : /\ MessageOf(f).id = f.id /\ MessageOf(f).agg = f.session
             /\ MessageOf(f).version = f.version /\ MessageOf(f).kind = f.kind
             /\ MessageOf(f).wellFormed = TRUE
             /\ MessageOf(f).createdAt = f.at /\ MessageOf(f).at = f.at
  BY DEF MessageOf
<1>2. /\ e \in SplitTheorems!Event
      /\ e.kind = "SplitCreated" => e.version = 1
  BY DEF SplitTheorems!BooksInv, SplitTheorems!TypeOK, SplitTheorems!StoredInv
<1>3. StoreTheorems!Valid(m)
  BY <1>1, <1>2 DEF StoreTheorems!Valid, SplitTheorems!Event
<1>4. ASSUME NEW n \in db.inbox,
             n.id = m.id \/ (n.agg = m.agg /\ n.version = m.version)
      PROVE  m \in db.inbox
  <2>1. PICK f \in outbox : n = MessageOf(f)
    BY DEF ReadInv, Records
  <2>2. f.id = e.id \/ (f.session = e.session /\ f.version = e.version)
    BY <1>1, <1>4, <2>1
  <2>3. SplitTheorems!Distinct(e.session)
    BY <1>2 DEF OverlapInv, SplitTheorems!ApartInv, SplitTheorems!Event
  <2>4. f = e
    BY <2>2, <2>3 DEF SplitTheorems!EntriesInv, SplitTheorems!Distinct
  <2> QED BY <2>1, <2>4
<1> HIDE DEF m
<1>5. ~StoreTheorems!IngestRejected(m, off)
  BY <1>3, <1>4 DEF StoreTheorems!IngestRejected
<1> QED BY <1>5 DEF m

LEMMA NextSilent ==
    ASSUME SplitTheorems!BooksInv, SplitTheorems!EntriesInv, RelayInv, OverlapInv,
           OrderedInv, StoreTheorems!StoreInv, ReadInv, SilentInv, [Next]_vars
    PROVE  SilentInv'
<1> SUFFICES ASSUME ~overlapped'
             PROVE  db'.errors = {} /\ (txn' # None => txn'.db.errors = {})
  BY DEF SilentInv
<1>0. /\ ~overlapped /\ db.errors = {} /\ (txn # None => txn.db.errors = {})
      /\ SplitTheorems!ApartInv /\ SplitTheorems!OrderInv
  BY StaysApart DEF SilentInv, OverlapInv, OrderedInv
<1>1. /\ StoreTheorems!Typed /\ StoreTheorems!Kept
      /\ db.checkpoint \in Nat
  BY DEF StoreTheorems!StoreInv, StoreTheorems!KeyedInv, StoreTheorems!Typed,
     StoreTheorems!TypeOK, StoreTheorems!Database
<1> DEFINE Goal == db'.errors = {} /\ (txn' # None => txn'.db.errors = {})
<1> SUFFICES Goal
  OBVIOUS
<1>2. CASE Consume
  <2>1. log[db.checkpoint + 1] \in outbox
    BY <1>1, <1>2, NextRecord DEF Consume
  <2> DEFINE m == MessageOf(log[db.checkpoint + 1])
  <2>2. m \in Messages /\ ~StoreTheorems!IngestRejected(m, db.checkpoint)
    BY <1>0, <2>1, MessageType, NothingRejected
  <2>3. \/ StoreTheorems!IngestRejected(m, db.checkpoint)
        \/ StoreTheorems!IngestDuplicate(m, db.checkpoint)
        \/ StoreTheorems!IngestNew(m, db.checkpoint)
    BY <1>2, SameStoreActions DEF Consume
  <2> HIDE DEF m
  <2>4. db' = db /\ (txn'.db = db \/ txn'.db.errors = db.errors)
    BY <1>1, <2>2, <2>3, StoreAssumptions, StoreTheorems!BeginStep
  <2> QED BY <1>0, <2>4
<1>3. CASE StoreTheorems!DrainApply
  <2>1. PICK m \in StoreTheorems!Turn(txn.db, txn.msg.agg) :
          txn'.db = StoreTheorems!Applied(txn.db, m) /\ txn # None /\ db' = db
    BY <1>1, <1>3, StoreAssumptions, StoreTheorems!DrainApplyStep
  <2>2. txn.db \in StoreTheorems!Database
    BY <1>1, <2>1, StoreAssumptions, StoreTheorems!TxnType
  <2>3. txn'.db.errors = txn.db.errors
    BY <2>1, <2>2 DEF StoreTheorems!Applied, StoreTheorems!Database
  <2> QED BY <1>0, <2>1, <2>3
<1>4. CASE StoreTheorems!DrainFails
  <2>1. /\ txn # None
        /\ \E m \in StoreTheorems!Turn(txn.db, txn.msg.agg) :
             ~StoreTheorems!Projectable(txn.db.sessions[m.agg], m)
    BY <1>4 DEF StoreTheorems!DrainFails
  <2>2. PICK d, s : d = txn.db /\ s = txn.msg.agg
    OBVIOUS
  <2>3. /\ d \in StoreTheorems!Database /\ s \in Sessions
        /\ StoreTheorems!Keyed(d) /\ StoreTheorems!Prefix(d) /\ StoreTheorems!Faithful(d)
        /\ d.inbox \subseteq Records
    <3>1. txn.db \in StoreTheorems!Database /\ txn.msg \in Messages
      BY <1>1, <2>1, StoreAssumptions, StoreTheorems!TxnType
    <3>2. txn.msg.agg \in Sessions
      BY <3>1 DEF Messages
    <3> QED
      BY <2>1, <2>2, <3>1, <3>2
         DEF StoreTheorems!StoreInv, StoreTheorems!KeyedInv, StoreTheorems!FaithfulInv,
             ReadInv
  <2>4. PICK m \in StoreTheorems!Turn(d, s) :
          ~StoreTheorems!Projectable(d.sessions[m.agg], m)
    BY <2>1, <2>2
  <2>5. m.agg = s
    BY DEF StoreTheorems!Turn
  <2>6. StoreTheorems!Projectable(d.sessions[s], m)
    BY <1>0, <2>3, TurnProjects DEF SplitTheorems!ApartInv
  <2> QED BY <2>4, <2>5, <2>6
<1>5. CASE StoreTheorems!DrainEnds
  <2>1. txn # None /\ db' = db /\ txn'.db.errors = txn.db.errors \ {txn.msg}
    BY <1>1, <1>5, StoreAssumptions, StoreTheorems!TxnStep DEF StoreTheorems!DrainEnds
  <2> QED BY <1>0, <2>1
<1>6. CASE StoreTheorems!Commit
  <2>1. txn # None /\ txn' = None /\ db'.errors = txn.db.errors
    BY <1>1, <1>6, StoreAssumptions, StoreTheorems!TxnStep DEF StoreTheorems!Commit
  <2> QED BY <1>0, <2>1
<1>7. CASE Serve \/ Pass(RelayThread \/ Relay!Deliver) \/ Pass(RelayFails) \/ UNCHANGED vars
  <2>1. db' = db /\ txn' = txn
    BY <1>7 DEF Serve, Pass, vars, storeVars
  <2> QED BY <1>0, <2>1
<1> HIDE DEF Goal
<1> QED
  BY <1>2, <1>3, <1>4, <1>5, <1>6, <1>7, SameStoreActions DEF Next, StoreStep

LEMMA SilentHolds == Spec => []SilentInv
<1>1. Init => SilentInv
  BY DEF Init, Store!Init, Store!Empty, SilentInv
<1>2. /\ SplitTheorems!BooksInv /\ SplitTheorems!EntriesInv /\ RelayInv /\ OverlapInv
      /\ OrderedInv /\ StoreTheorems!StoreInv /\ ReadInv /\ SilentInv /\ [Next]_vars
      => SilentInv'
  BY NextSilent
<1> QED
  BY <1>1, <1>2, BooksHold, EntriesHold, InitRelay, NextRelay, OverlapHolds,
     OrderHolds, StoreHolds, ReadIsStored, PTL DEF Spec

(* No false alarm: until two requests of a session overlap, whatever the     *)
(* relay sends twice or out of order and whatever fails on the way, the      *)
(* store refuses no record and fails to project none.  An error of the store *)
(* is the sign that requests of a session have overlapped.                   *)
THEOREM NoFalseAlarm == Spec => [](~overlapped => db.errors = {})
<1>1. SilentInv => (~overlapped => db.errors = {})
  BY DEF SilentInv
<1> QED BY <1>1, SilentHolds, PTL

(* The topic is never deleted here, and so the store misses nothing. *)
MissingInv == ~db.missing /\ (txn # None => ~txn.db.missing)

LEMMA NextMissing ==
    ASSUME SplitTheorems!BooksInv, RelayInv, StoreTheorems!StoreInv, StoreTheorems!StoreInv',
           MissingInv, [Next]_vars
    PROVE  MissingInv'
<1>1. StoreTheorems!Typed /\ StoreTheorems!Kept /\ StoreTheorems!Kept'
  BY DEF StoreTheorems!StoreInv, StoreTheorems!KeyedInv
<1>2. CASE StoreTheorems!Commit
  BY <1>1, <1>2, StoreAssumptions, StoreTheorems!CommitKept DEF MissingInv
<1>3. CASE db' = db
  BY <1>1, <1>3 DEF StoreTheorems!Kept, MissingInv
<1>4. db' = db \/ StoreTheorems!Commit
  BY StoreUnchanged
<1> QED BY <1>2, <1>3, <1>4

(* Until two requests of a session overlap, once all has been published and  *)
(* read, the store has applied all and says so.                              *)
CaughtUpIsComplete ==
    ~overlapped /\ outbox = published /\ db.checkpoint = Len(log) => Store!Complete(now)

LEMMA CaughtUp ==
    ASSUME SplitTheorems!BooksInv, RelayInv, OverlapInv, OrderedInv,
           StoreTheorems!StoreInv, ReadInv, SilentInv, MissingInv,
           StoreTheorems!WaitingIsReported
    PROVE  CaughtUpIsComplete
<1> SUFFICES ASSUME ~overlapped, outbox = published, db.checkpoint = Len(log)
             PROVE  Store!Complete(now)
  BY DEF CaughtUpIsComplete
<1>0. /\ db.errors = {} /\ ~db.missing
      /\ SplitTheorems!OrderInv /\ \A s \in Sessions : SplitTheorems!Distinct(s)
      /\ db \in StoreTheorems!Database /\ StoreTheorems!Keyed(db)
      /\ StoreTheorems!Faithful(db)
  BY DEF SilentInv, MissingInv, OrderedInv, OverlapInv, SplitTheorems!ApartInv,
     StoreTheorems!StoreInv, StoreTheorems!KeyedInv, StoreTheorems!FaithfulInv,
     StoreTheorems!Typed, StoreTheorems!TypeOK
<1>1. \A e : MessageOf(e).agg = e.session /\ MessageOf(e).version = e.version
             /\ MessageOf(e).at = e.at
  BY DEF MessageOf
<1>2. ASSUME NEW e \in outbox PROVE MessageOf(e) \in db.inbox
  <2>1. log \in Seq(outbox) /\ published \subseteq RelayTheorems!ToSet(log)
    BY DEF RelayInv, RelayTheorems!Queues, RelayTheorems!PublishedIsInLog
  <2>2. PICK i \in 1..Len(log) : e = log[i]
    BY <2>1 DEF RelayTheorems!ToSet
  <2> QED BY <1>0, <2>2 DEF ReadInv, StoreTheorems!Rows
<1>3. ASSUME NEW s \in Sessions
      PROVE  /\ db.sessions[s].version \in Nat
             /\ db.sessions[s].version >= session[s].version
  <2>1. StoreTheorems!Turn(db, s) = {}
    BY <1>0 DEF StoreTheorems!WaitingIsReported, StoreTheorems!Reported
  <2>2. SplitTheorems!Booked(s)
    BY <1>0 DEF SplitTheorems!BooksInv, SplitTheorems!LedgerInv
  <2>3. db.sessions[s].version \in Nat /\ session[s].version \in Nat
    BY <1>0 DEF StoreTheorems!Database, StoreTheorems!Projection,
       SplitTheorems!BooksInv, SplitTheorems!TypeOK, SplitTheorems!Row
  <2>4. ASSUME db.sessions[s].version < session[s].version PROVE FALSE
    <3>1. db.sessions[s].version + 1 \in 1..session[s].version
      BY <2>3, <2>4
    <3>2. PICK e \in outbox : e.session = s /\ e.version = db.sessions[s].version + 1
      BY <2>2, <3>1 DEF SplitTheorems!Booked, SplitTheorems!Announced
    <3>3. MessageOf(e) \in StoreTheorems!Turn(db, s)
      BY <1>1, <1>2, <3>2 DEF StoreTheorems!Turn
    <3> QED BY <2>1, <3>3
  <2> QED BY <2>3, <2>4
<1>4. ASSUME NEW e \in outbox PROVE MessageOf(e) \in db.applied
  <2>1. e.session \in Sessions /\ e.version \in Nat
    BY DEF SplitTheorems!BooksInv, SplitTheorems!TypeOK, SplitTheorems!Event
  <2>2. e.version \in 1..session[e.session].version
    BY <1>0, <2>1 DEF SplitTheorems!BooksInv, SplitTheorems!LedgerInv, SplitTheorems!Booked
  <2>3. session[e.session].version \in Nat
    BY <2>1 DEF SplitTheorems!BooksInv, SplitTheorems!TypeOK, SplitTheorems!Row
  <2>4. e.version <= db.sessions[e.session].version
    BY <1>3, <2>1, <2>2, <2>3
  <2>5. e \in UpTo(e.session, db.sessions[e.session].version)
    BY <2>4 DEF UpTo
  <2>6. MessageOf(e) \in StoreTheorems!Of(db, e.session)
    BY <1>0, <2>1, <2>5, AppliedIsUpTo
  <2> QED BY <2>6 DEF StoreTheorems!Of
<1>5. db.applied = db.inbox
  <2>1. db.applied \subseteq db.inbox
    BY <1>0 DEF StoreTheorems!Keyed
  <2>2. db.inbox \subseteq Records
    BY DEF ReadInv
  <2> QED BY <1>4, <2>1, <2>2 DEF Records
<1>6. ASSUME NEW s \in Sessions PROVE db.sessions[s].at <= now
  <2>1. CASE db.sessions[s].version = 0
    <3>1. db.sessions[s].at = 0
      BY <1>0, <2>1 DEF StoreTheorems!Faithful, StoreTheorems!Shown, StoreTheorems!Absent
    <3>2. now \in Nat
      BY DEF SplitTheorems!BooksInv, SplitTheorems!TypeOK
    <3> QED BY <3>1, <3>2
  <2>2. CASE db.sessions[s].version # 0
    <3>1. PICK m \in StoreTheorems!Of(db, s) : db.sessions[s].at = m.at
      BY <1>0, <2>2, StoreAssumptions, StoreTheorems!LastTime DEF StoreTheorems!Faithful
    <3>2. PICK e \in outbox : m = MessageOf(e)
      BY <1>0, <3>1 DEF StoreTheorems!Of, StoreTheorems!Keyed, ReadInv, Records
    <3> QED
      BY <1>0, <1>1, <3>1, <3>2
         DEF SplitTheorems!OrderInv, SplitTheorems!EventInv, SplitTheorems!TimeInv
  <2> QED BY <2>1, <2>2
<1> QED BY <1>0, <1>5, <1>6 DEF Store!Complete

(* Together with CompleteIsTrueToTheCent: until two requests of a session    *)
(* overlap, once all has been published and read, each projection is the     *)
(* table row by row, and its coverage is not in doubt.                       *)
THEOREM CaughtUpIsTrue ==
    Spec => [](~overlapped /\ outbox = published /\ db.checkpoint = Len(log) =>
                 /\ Store!Complete(now)
                 /\ \A s \in Sessions : session[s].status # "ABSENT" =>
                      /\ InCents(Projects(s)) = Stands(s)
                      /\ db.sessions[s].version = session[s].version)
<1> DEFINE Whole == ~overlapped /\ outbox = published /\ db.checkpoint = Len(log) =>
                 /\ Store!Complete(now)
                 /\ \A s \in Sessions : session[s].status # "ABSENT" =>
                      /\ InCents(Projects(s)) = Stands(s)
                      /\ db.sessions[s].version = session[s].version
<1>1. CompleteToTheCent /\ CaughtUpIsComplete => Whole
  BY DEF CompleteToTheCent, CaughtUpIsComplete
<1>2. Init => MissingInv
  BY DEF Init, Store!Init, Store!Empty, MissingInv
<1>3. /\ SplitTheorems!BooksInv /\ RelayInv /\ StoreTheorems!StoreInv
      /\ StoreTheorems!StoreInv' /\ MissingInv /\ [Next]_vars
      => MissingInv'
  BY NextMissing
<1>4. /\ SplitTheorems!BooksInv /\ RelayInv /\ OverlapInv /\ OrderedInv
      /\ StoreTheorems!StoreInv /\ ReadInv /\ SilentInv /\ MissingInv
      /\ StoreTheorems!WaitingIsReported
      => CaughtUpIsComplete
  BY CaughtUp
<1>5. Spec => []StoreTheorems!WaitingIsReported
  <2>1. StoreTheorems!Spec => []StoreTheorems!WaitingIsReported
    BY StoreTheorems!NothingWaitsUnreported, StoreAssumptions
  <2> QED BY <2>1, StoreIsAnalyticsStore, PTL
<1> HIDE DEF Whole
<1>6. Spec => []Whole
  BY <1>1, <1>2, <1>3, <1>4, <1>5, BooksHold, InitRelay, NextRelay, OverlapHolds,
     OrderHolds, StoreHolds, ReadIsStored, SilentHolds, CompleteIsTrueToTheCent,
     PTL DEF Spec
<1> QED BY <1>6 DEF Whole

=============================================================================
