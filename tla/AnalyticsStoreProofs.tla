------------------------ MODULE AnalyticsStoreProofs ------------------------
(* Theorems about AnalyticsStore, for all values of its constants. *)
EXTENDS AnalyticsKpis, FiniteSetTheorems, WellFoundedInduction, TLAPS

USE MessagesAssumption, OffsetsAssumption, DeadlineAssumption, NoneAssumption

-----------------------------------------------------------------------------
(* Types. *)

LEMMA MessageType ==
    ASSUME NEW m \in Messages
    PROVE  /\ m \in Message
           /\ Valid(m) /\ m.kind \in {"ParticipantAdded", "ParticipantAuthorized"}
                => m.pid \in Participants
BY DEF Valid

LEMMA AbsentType == Absent \in Projection
BY DEF Absent, NoParts, Projection, Part

(* project returns a projection. *)
LEMMA ProjectedType ==
    ASSUME NEW s \in Projection, NEW m \in Messages, Valid(m)
    PROVE  Projected(s, m) \in Projection
<1>1. NoParts \in [Participants -> Part]
  BY DEF NoParts, Part
<1>2. /\ m.version \in Nat /\ m.at \in Nat /\ m.amount \in Nat
      /\ m.createdAt + Deadline \in Nat /\ m.createdAt \in Nat /\ m.currency \in Currencies
  BY MessageType DEF Message
<1>3. PartsAfter(s, m) \in [Participants -> Part]
  <2>1. s.parts \in [Participants -> Part]
    BY DEF Projection
  <2>2. CASE m.kind = "ParticipantAdded"
    BY <2>1, <2>2, <1>2 DEF PartsAfter, Part
  <2>3. CASE m.kind = "ParticipantAuthorized"
    <3>1. m.pid \in Participants
      BY <2>3, MessageType
    <3>2. [s.parts[m.pid] EXCEPT !.authorized = TRUE] \in Part
      BY <2>1, <3>1 DEF Part
    <3> QED BY <2>1, <2>3, <3>2 DEF PartsAfter
  <2>4. CASE m.kind \notin {"ParticipantAdded", "ParticipantAuthorized"}
    BY <2>1, <2>4 DEF PartsAfter
  <2> QED BY <2>2, <2>3, <2>4
<1>4. CASE s.version = 0
  BY <1>1, <1>2, <1>4 DEF Projected, Projection
<1>5. CASE s.version # 0
  <2> DEFINE t == Projected(s, m)
  <2>1. /\ t.version = m.version /\ t.version # 0
        /\ t.status = IF m.kind = "SplitCompleted" THEN "COMPLETED" ELSE s.status
        /\ t.closedAt = IF m.kind = "SplitCompleted" THEN m.at ELSE s.closedAt
    BY <1>5, MessageType DEF Projected, Projection, Message
  <2>2. /\ t.status = "ABSENT" <=> t.version = 0
        /\ t.status = "COMPLETED" <=> t.closedAt # None
    BY <1>2, <1>5, <2>1 DEF Projection
  <2>3. t = [s EXCEPT !.version = m.version, !.at = m.at, !.status = t.status,
                      !.closedAt = t.closedAt, !.parts = PartsAfter(s, m)]
    BY <1>5, <2>1 DEF Projected, Projection
  <2> HIDE DEF t
  <2>4. t.status \in {"ABSENT", "OPEN", "COMPLETED"} /\ t.closedAt \in Nat \cup {None}
    BY <1>2, <2>1 DEF Projection
  <2>5. t \in Projection
    BY <1>2, <1>3, <2>2, <2>3, <2>4 DEF Projection
  <2> QED BY <2>5 DEF t
<1> QED BY <1>4, <1>5

LEMMA AppliedType ==
    ASSUME NEW d \in Database, NEW m \in Messages, Valid(m)
    PROVE  /\ Applied(d, m) \in Database
           /\ Applied(d, m).sessions =
                [d.sessions EXCEPT ![m.agg] = Projected(d.sessions[m.agg], m)]
           /\ Applied(d, m).applied = d.applied \cup {m}
           /\ Applied(d, m).inbox = d.inbox
           /\ Applied(d, m).errors = d.errors
<1>1. m.agg \in Aggregates
  BY MessageType DEF Message
<1>2. d.sessions[m.agg] \in Projection
  BY <1>1 DEF Database
<1>3. Projected(d.sessions[m.agg], m) \in Projection
  BY <1>2, ProjectedType
<1> QED BY <1>1, <1>3 DEF Applied, Database

(* The inbox holds valid messages only, which the drain relies on. *)
Typed ==
    /\ TypeOK
    /\ \A m \in db.inbox : Valid(m)
    /\ txn # None => \A m \in txn.db.inbox : Valid(m)

LEMMA InitTyped == Init => Typed
BY AbsentType DEF Init, Typed, TypeOK, Empty, Database

(* The effect of the first half of ingest. *)
LEMMA BeginTyped ==
    ASSUME Typed, NEW m \in Messages, NEW off \in Offsets,
           NEW stage \in {"drain", "commit"}, NEW d \in Database,
           \A e \in d.inbox : Valid(e), Begin(m, off, stage, d)
    PROVE  Typed'
BY DEF Typed, TypeOK, Begin, Transaction

LEMMA TxnType ==
    ASSUME Typed, txn # None
    PROVE  /\ txn \in Transaction /\ txn.db \in Database
           /\ txn.msg \in Messages /\ txn.msg.agg \in Aggregates
           /\ \A m \in Turn(txn.db, txn.msg.agg) :
                m \in Messages /\ Valid(m) /\ m.agg = txn.msg.agg
<1>1. txn \in Transaction
  BY DEF Typed, TypeOK
<1>2. txn.db \in Database /\ txn.msg \in Messages
  BY <1>1 DEF Transaction
<1>3. txn.msg.agg \in Aggregates
  BY <1>2, MessageType DEF Message
<1> QED BY <1>1, <1>2, <1>3 DEF Typed, Turn, Database

LEMMA NextTyped == Typed /\ [Next]_vars => Typed'
<1> SUFFICES ASSUME Typed, [Next]_vars PROVE Typed'
  OBVIOUS
<1>0. db \in Database
  BY DEF Typed, TypeOK
<1>1. ASSUME NEW m \in Messages, NEW off \in Offsets, IngestRejected(m, off)
      PROVE  Typed'
  <2>1. [db EXCEPT !.errors = @ \cup {m}] \in Database
        /\ [db EXCEPT !.errors = @ \cup {m}].inbox = db.inbox
    BY <1>0 DEF Database
  <2> QED BY <1>1, <2>1, BeginTyped DEF IngestRejected, Typed
<1>2. ASSUME NEW m \in Messages, NEW off \in Offsets, IngestDuplicate(m, off)
      PROVE  Typed'
  BY <1>0, <1>2, BeginTyped DEF IngestDuplicate, Typed
<1>3. ASSUME NEW m \in Messages, NEW off \in Offsets, IngestNew(m, off)
      PROVE  Typed'
  <2>1. [db EXCEPT !.inbox = @ \cup {m}] \in Database
        /\ [db EXCEPT !.inbox = @ \cup {m}].inbox = db.inbox \cup {m}
    BY <1>0 DEF Database
  <2> QED BY <1>3, <2>1, BeginTyped DEF IngestNew, Typed
<1>4. CASE DrainApply
  <2>1. txn # None /\ UNCHANGED db
    BY <1>4 DEF DrainApply
  <2>2. PICK m \in Turn(txn.db, txn.msg.agg) :
           txn' = [txn EXCEPT !.db = Applied(txn.db, m)]
    BY <1>4 DEF DrainApply
  <2>3. Applied(txn.db, m) \in Database /\ Applied(txn.db, m).inbox = txn.db.inbox
    BY <2>1, TxnType, AppliedType
  <2>4. txn' \in Transaction /\ txn'.db.inbox = txn.db.inbox
    BY <2>1, <2>2, <2>3, TxnType DEF Transaction
  <2> QED BY <2>1, <2>4 DEF Typed, TypeOK
<1>5. CASE DrainFails
  <2>1. txn # None /\ UNCHANGED db
        /\ txn' = [txn EXCEPT !.stage = "commit", !.db.errors = @ \cup {txn.msg}]
    BY <1>5 DEF DrainFails
  <2>2. txn' \in Transaction /\ txn'.db.inbox = txn.db.inbox
    BY <2>1, TxnType DEF Transaction, Database
  <2> QED BY <2>1, <2>2 DEF Typed, TypeOK
<1>6. CASE DrainEnds
  <2>1. txn # None /\ UNCHANGED db
        /\ txn' = [txn EXCEPT !.stage = "commit", !.db.errors = @ \ {txn.msg}]
    BY <1>6 DEF DrainEnds
  <2>2. txn' \in Transaction /\ txn'.db.inbox = txn.db.inbox
    BY <2>1, TxnType DEF Transaction, Database
  <2> QED BY <2>1, <2>2 DEF Typed, TypeOK
<1>7. CASE Commit
  <2>1. /\ txn # None /\ txn' = None
        /\ db' = [txn.db EXCEPT !.checkpoint =
                    IF @ > txn.offset + 1 THEN @ ELSE txn.offset + 1]
    BY <1>7 DEF Commit
  <2>2. db' \in Database /\ db'.inbox = txn.db.inbox
    BY <2>1, TxnType DEF Transaction, Database
  <2> QED BY <2>1, <2>2 DEF Typed, TypeOK
<1>8. CASE MarkHistoryMissing
  <2>1. db' \in Database /\ db'.inbox = db.inbox /\ txn' = txn
    BY <1>0, <1>8 DEF MarkHistoryMissing, Database
  <2> QED BY <2>1 DEF Typed, TypeOK
<1>9. CASE Crash \/ UNCHANGED vars
  BY <1>9 DEF Crash, vars, Typed, TypeOK
<1> QED
  BY <1>1, <1>2, <1>3, <1>4, <1>5, <1>6, <1>7, <1>8, <1>9 DEF Next

(* The store's state keeps its types. *)
THEOREM TypeCorrect == Spec => []TypeOK
<1>1. Typed => TypeOK
  BY DEF Typed
<1> QED BY <1>1, InitTyped, NextTyped, PTL DEF Spec

-----------------------------------------------------------------------------
(* The inbox and the prefix of each session that is applied, in the         *)
(* database and in the transaction's view of it.                            *)

KeyedInv ==
    /\ Typed
    /\ Keyed(db) /\ Prefix(db)
    /\ txn # None => Keyed(txn.db) /\ Prefix(txn.db)

(* The tables that the invariants read: what leaves them alone leaves the   *)
(* invariants alone.                                                        *)
Same(d, e) ==
    d.inbox = e.inbox /\ d.sessions = e.sessions /\ d.applied = e.applied

LEMMA SameKeyed ==
    ASSUME NEW d, NEW e, Same(d, e), Keyed(d), Prefix(d)
    PROVE  Keyed(e) /\ Prefix(e)
<1>1. d.inbox = e.inbox /\ d.sessions = e.sessions /\ d.applied = e.applied
  BY DEF Same
<1>2. Keyed(e)
  BY <1>1 DEF Keyed
<1>3. Prefix(e)
  BY <1>1 DEF Prefix
<1> QED BY <1>2, <1>3

(* project makes the version of the projection that of the event. *)
LEMMA ProjectedVersion ==
    ASSUME NEW d \in Database, NEW a \in Aggregates, NEW m \in Turn(d, a)
    PROVE  /\ Projected(d.sessions[a], m).version = d.sessions[a].version + 1
           /\ m.version = d.sessions[a].version + 1
           /\ d.sessions[a].version \in Nat
<1> DEFINE s == d.sessions[a]
<1>1. s \in Projection /\ m.version = s.version + 1
  BY DEF Turn, Database
<1> HIDE DEF s
<1>2. s.version \in Nat
  BY <1>1 DEF Projection
<1>3. Projected(s, m).version = s.version + 1
  <2>1. CASE s.version = 0
    BY <2>1 DEF Projected
  <2>2. CASE s.version # 0
    BY <1>1, <2>2 DEF Projected, Projection
  <2> QED BY <2>1, <2>2
<1> QED BY <1>1, <1>2, <1>3 DEF s

LEMMA AppliedKeyed ==
    ASSUME NEW d \in Database, NEW a \in Aggregates, NEW m \in Turn(d, a),
           m \in Messages, Valid(m), m.agg = a, Keyed(d), Prefix(d)
    PROVE  Keyed(Applied(d, m)) /\ Prefix(Applied(d, m))
<1> DEFINE e == Applied(d, m)
<1>1. /\ e.sessions = [d.sessions EXCEPT ![a] = Projected(d.sessions[a], m)]
      /\ e.applied = d.applied \cup {m} /\ e.inbox = d.inbox
  BY AppliedType
<1>2. m \in d.inbox
  BY DEF Turn
<1>3. d.sessions \in [Aggregates -> Projection]
  BY DEF Database
<1> HIDE DEF e
<1>4. Keyed(e)
  BY <1>1, <1>2 DEF Keyed
<1>5. ASSUME NEW b \in Aggregates
      PROVE  {n.version : n \in {k \in e.applied : k.agg = b}}
               = 1..e.sessions[b].version
  <2>0. {n.version : n \in {k \in d.applied : k.agg = b}} = 1..d.sessions[b].version
    BY DEF Prefix
  <2>1. CASE b # a
    <3>1. {k \in e.applied : k.agg = b} = {k \in d.applied : k.agg = b}
      BY <1>1, <2>1
    <3>2. e.sessions[b] = d.sessions[b]
      BY <1>1, <1>3, <2>1
    <3> QED BY <2>0, <3>1, <3>2
  <2>2. CASE b = a
    <3>1. {k \in e.applied : k.agg = b} = {k \in d.applied : k.agg = b} \cup {m}
      BY <1>1, <2>2
    <3>2. {n.version : n \in {k \in e.applied : k.agg = b}}
            = (1..d.sessions[a].version) \cup {m.version}
      BY <3>1, <2>0, <2>2
    <3>3. e.sessions[a].version = d.sessions[a].version + 1
          /\ m.version = d.sessions[a].version + 1
          /\ d.sessions[a].version \in Nat
      BY <1>1, <1>3, ProjectedVersion
    <3>4. ASSUME NEW v \in Nat PROVE (1..v) \cup {v + 1} = 1..(v + 1)
      OBVIOUS
    <3> QED BY <3>2, <3>3, <3>4, <2>2
  <2> QED BY <2>1, <2>2
<1> QED BY <1>4, <1>5 DEF Prefix, e

LEMMA InitKeyed == Init => KeyedInv
<1> SUFFICES ASSUME Init PROVE KeyedInv
  OBVIOUS
<1>1. db.inbox = {} /\ db.applied = {} /\ txn = None
  BY DEF Init, Empty
<1>2. \A a \in Aggregates : db.sessions[a].version = 0
  BY DEF Init, Empty, Absent
<1>3. Keyed(db)
  BY <1>1 DEF Keyed
<1>4. Prefix(db)
  <2>1. 1..0 = {}
    OBVIOUS
  <2> QED BY <1>1, <1>2, <2>1 DEF Prefix
<1> QED BY <1>1, <1>3, <1>4, InitTyped DEF KeyedInv

(* Each statement that the transaction executes, by what it does to the     *)
(* transaction's view of the database.                                      *)
LEMMA TxnStep ==
    ASSUME Typed
    PROVE  /\ DrainFails =>
                /\ txn'.stage = "commit" /\ txn'.msg = txn.msg
                /\ Same(txn.db, txn'.db)
                /\ txn'.db.errors = txn.db.errors \cup {txn.msg}
           /\ DrainEnds =>
                /\ txn'.stage = "commit" /\ txn'.msg = txn.msg
                /\ Same(txn.db, txn'.db)
                /\ txn'.db.errors = txn.db.errors \ {txn.msg}
           /\ Commit => Same(txn.db, db') /\ db'.errors = txn.db.errors
           /\ MarkHistoryMissing => Same(db, db') /\ db'.errors = db.errors
<1>0. db \in Database
  BY DEF Typed, TypeOK
<1>1. CASE txn = None
  BY <1>0, <1>1
     DEF DrainFails, DrainEnds, Commit, MarkHistoryMissing, Same, Database
<1>2. CASE txn # None
  <2>1. txn \in Transaction /\ txn.db \in Database
    BY <1>2, TxnType
  <2>2. DrainFails =>
          /\ txn'.stage = "commit" /\ txn'.msg = txn.msg
          /\ Same(txn.db, txn'.db)
          /\ txn'.db.errors = txn.db.errors \cup {txn.msg}
    BY <2>1 DEF DrainFails, Transaction, Same, Database
  <2>3. DrainEnds =>
          /\ txn'.stage = "commit" /\ txn'.msg = txn.msg
          /\ Same(txn.db, txn'.db)
          /\ txn'.db.errors = txn.db.errors \ {txn.msg}
    BY <2>1 DEF DrainEnds, Transaction, Same, Database
  <2>4. Commit => Same(txn.db, db') /\ db'.errors = txn.db.errors
    BY <2>1 DEF Commit, Same, Database
  <2>5. MarkHistoryMissing => Same(db, db') /\ db'.errors = db.errors
    BY <1>0 DEF MarkHistoryMissing, Same, Database
  <2> QED BY <2>2, <2>3, <2>4, <2>5
<1> QED BY <1>1, <1>2

(* DrainApply, by the event it projects. *)
LEMMA DrainApplyStep ==
    ASSUME Typed, DrainApply
    PROVE  \E m \in Turn(txn.db, txn.msg.agg) :
             /\ Projectable(txn.db.sessions[m.agg], m)
             /\ txn'.db = Applied(txn.db, m)
             /\ txn'.msg = txn.msg /\ txn'.stage = txn.stage
             /\ txn.stage = "drain" /\ txn # None /\ db' = db
<1>1. PICK m \in Turn(txn.db, txn.msg.agg) :
         /\ Projectable(txn.db.sessions[m.agg], m)
         /\ txn' = [txn EXCEPT !.db = Applied(txn.db, m)]
  BY DEF DrainApply
<1>2. txn.stage = "drain" /\ txn # None /\ db' = db
  BY DEF DrainApply
<1>3. txn \in Transaction
  BY <1>2, TxnType
<1>4. txn'.db = Applied(txn.db, m) /\ txn'.msg = txn.msg /\ txn'.stage = txn.stage
  BY <1>1, <1>3 DEF Transaction
<1> QED BY <1>1, <1>2, <1>4

(* The three ways in which ingest begins. *)
LEMMA BeginStep ==
    ASSUME Typed, NEW m \in Messages, NEW off \in Offsets
    PROVE  /\ IngestRejected(m, off) =>
                /\ txn = None /\ db' = db /\ Same(db, txn'.db)
                /\ txn'.stage = "commit" /\ txn'.msg = m
                /\ db.errors \subseteq txn'.db.errors
           /\ IngestDuplicate(m, off) =>
                /\ txn = None /\ db' = db /\ txn'.db = db
                /\ txn'.stage = "drain" /\ txn'.msg = m
           /\ IngestNew(m, off) =>
                /\ txn = None /\ db' = db
                /\ txn'.db.inbox = db.inbox \cup {m}
                /\ txn'.db.sessions = db.sessions
                /\ txn'.db.applied = db.applied
                /\ txn'.db.errors = db.errors
                /\ txn'.stage = "drain" /\ txn'.msg = m
                /\ Valid(m)
                /\ \A e \in db.inbox :
                     e.id # m.id /\ ~(e.agg = m.agg /\ e.version = m.version)
<1>0. db \in Database
  BY DEF Typed, TypeOK
<1>1. IngestRejected(m, off) =>
         /\ txn = None /\ db' = db /\ Same(db, txn'.db)
         /\ txn'.stage = "commit" /\ txn'.msg = m
         /\ db.errors \subseteq txn'.db.errors
  BY <1>0 DEF IngestRejected, Begin, Same, Database
<1>2. IngestDuplicate(m, off) =>
         /\ txn = None /\ db' = db /\ txn'.db = db
         /\ txn'.stage = "drain" /\ txn'.msg = m
  BY <1>0 DEF IngestDuplicate, Begin
<1>3. IngestNew(m, off) =>
         /\ txn = None /\ db' = db
         /\ txn'.db.inbox = db.inbox \cup {m}
         /\ txn'.db.sessions = db.sessions
         /\ txn'.db.applied = db.applied
         /\ txn'.db.errors = db.errors
         /\ txn'.stage = "drain" /\ txn'.msg = m
         /\ Valid(m)
         /\ \A e \in db.inbox :
              e.id # m.id /\ ~(e.agg = m.agg /\ e.version = m.version)
  BY <1>0 DEF IngestNew, Begin, Database
<1> QED BY <1>1, <1>2, <1>3

LEMMA NextKeyed == KeyedInv /\ [Next]_vars => KeyedInv'
<1> SUFFICES ASSUME KeyedInv, [Next]_vars PROVE KeyedInv'
  OBVIOUS
<1>0. Typed /\ Typed' /\ Keyed(db) /\ Prefix(db)
      /\ (txn # None => Keyed(txn.db) /\ Prefix(txn.db))
  BY NextTyped DEF KeyedInv
<1> DEFINE Goal == /\ Keyed(db') /\ Prefix(db')
                   /\ txn' # None => Keyed(txn'.db) /\ Prefix(txn'.db)
<1> SUFFICES Goal
  BY <1>0 DEF KeyedInv
<1>1. ASSUME NEW m \in Messages, NEW off \in Offsets, IngestRejected(m, off)
      PROVE  Goal
  <2>1. db' = db /\ Same(db, txn'.db)
    BY <1>0, <1>1, BeginStep
  <2> QED BY <1>0, <2>1, SameKeyed
<1>2. ASSUME NEW m \in Messages, NEW off \in Offsets, IngestDuplicate(m, off)
      PROVE  Goal
  BY <1>0, <1>2, BeginStep
<1>3. ASSUME NEW m \in Messages, NEW off \in Offsets, IngestNew(m, off)
      PROVE  Goal
  <2>1. /\ db' = db /\ txn'.db.inbox = db.inbox \cup {m}
        /\ txn'.db.sessions = db.sessions /\ txn'.db.applied = db.applied
        /\ \A e \in db.inbox :
             e.id # m.id /\ ~(e.agg = m.agg /\ e.version = m.version)
    BY <1>0, <1>3, BeginStep
  <2>2. Keyed(txn'.db)
    BY <1>0, <2>1 DEF Keyed
  <2>3. Prefix(txn'.db)
    BY <1>0, <2>1 DEF Prefix
  <2> QED BY <1>0, <2>1, <2>2, <2>3
<1>4. CASE DrainApply
  <2>1. PICK m \in Turn(txn.db, txn.msg.agg) :
           txn'.db = Applied(txn.db, m) /\ txn # None /\ db' = db
    BY <1>0, <1>4, DrainApplyStep
  <2>2. /\ txn.db \in Database /\ txn.msg.agg \in Aggregates
        /\ m \in Messages /\ Valid(m) /\ m.agg = txn.msg.agg
    BY <1>0, <2>1, TxnType
  <2>3. Keyed(Applied(txn.db, m)) /\ Prefix(Applied(txn.db, m))
    BY <1>0, <2>1, <2>2, AppliedKeyed
  <2> QED BY <1>0, <2>1, <2>3
<1>5. CASE DrainFails \/ DrainEnds
  <2>1. Same(txn.db, txn'.db) /\ txn # None /\ db' = db
    BY <1>0, <1>5, TxnStep DEF DrainFails, DrainEnds
  <2> QED BY <1>0, <2>1, SameKeyed
<1>6. CASE Commit
  <2>1. Same(txn.db, db') /\ txn # None /\ txn' = None
    BY <1>0, <1>6, TxnStep DEF Commit
  <2> QED BY <1>0, <2>1, SameKeyed
<1>7. CASE MarkHistoryMissing
  <2>1. Same(db, db') /\ txn' = txn
    BY <1>0, <1>7, TxnStep DEF MarkHistoryMissing
  <2> QED BY <1>0, <1>7, <2>1, SameKeyed DEF MarkHistoryMissing
<1>8. CASE Crash \/ UNCHANGED vars
  BY <1>0, <1>8 DEF Crash, vars
<1> QED
  BY <1>1, <1>2, <1>3, <1>4, <1>5, <1>6, <1>7, <1>8 DEF Next

(* The keys of the inbox hold: no two rows share an eventId, or an          *)
(* aggregate and a version (the look-ups of ingest, whatever is delivered   *)
(* and wherever the process dies).                                          *)
THEOREM KeyedInbox == Spec => []InboxIsKeyed
<1>1. KeyedInv => InboxIsKeyed
  BY DEF KeyedInv, InboxIsKeyed
<1> QED BY <1>1, InitKeyed, NextKeyed, PTL DEF Spec

(* The events applied to a session are those of versions 1 to its own,      *)
(* whatever the order and the number of the deliveries (the loop of _drain).*)
THEOREM PrefixApplied == Spec => []AppliedIsPrefix
<1>1. KeyedInv => AppliedIsPrefix
  BY DEF KeyedInv, AppliedIsPrefix
<1> QED BY <1>1, InitKeyed, NextKeyed, PTL DEF Spec

-----------------------------------------------------------------------------
(* What waits between transactions.  Inside a transaction the aggregate of  *)
(* the message at hand is still to be drained; of the others nothing has    *)
(* changed.                                                                 *)

ReportInv ==
    /\ KeyedInv
    /\ \A a \in Aggregates : Reported(db, a)
    /\ txn # None =>
         \A a \in Aggregates :
             txn.stage = "commit" \/ a # txn.msg.agg => Reported(txn.db, a)

(* More errors, and the rest as it was. *)
LEMMA MoreErrors ==
    ASSUME NEW d, NEW e, NEW a, Reported(d, a), Same(d, e),
           \A x \in d.errors : x.agg = a => x \in e.errors
    PROVE  Reported(e, a)
<1>1. Turn(e, a) = Turn(d, a) /\ e.sessions = d.sessions
  BY DEF Turn, Same
<1> QED BY <1>1 DEF Reported

(* The events whose turn it is are at most one. *)
LEMMA TurnIsUnique ==
    ASSUME NEW d, NEW a, Keyed(d)
    PROVE  \A m, n \in Turn(d, a) : m = n
BY DEF Turn, Keyed

LEMMA InitReported == Init => ReportInv
<1> SUFFICES ASSUME Init PROVE ReportInv
  OBVIOUS
<1>1. db.inbox = {} /\ txn = None
  BY DEF Init, Empty
<1>2. \A a \in Aggregates : Turn(db, a) = {}
  BY <1>1 DEF Turn
<1> QED BY <1>1, <1>2, InitKeyed DEF ReportInv, Reported

LEMMA NextReported == ReportInv /\ [Next]_vars => ReportInv'
<1> SUFFICES ASSUME ReportInv, [Next]_vars PROVE ReportInv'
  OBVIOUS
<1>0. /\ KeyedInv' /\ Typed
      /\ \A a \in Aggregates : Reported(db, a)
      /\ (txn # None =>
           /\ Keyed(txn.db)
           /\ \A a \in Aggregates :
                txn.stage = "commit" \/ a # txn.msg.agg => Reported(txn.db, a))
  BY NextKeyed DEF ReportInv, KeyedInv
<1> DEFINE Waiting == \A a \in Aggregates : Reported(db', a)
           Draining == \A a \in Aggregates :
             txn'.stage = "commit" \/ a # txn'.msg.agg => Reported(txn'.db, a)
<1> SUFFICES Waiting /\ (txn' # None => Draining)
  BY <1>0 DEF ReportInv
<1>1. ASSUME NEW m \in Messages, NEW off \in Offsets, IngestRejected(m, off)
      PROVE  Waiting /\ Draining
  <2>1. db' = db /\ Same(db, txn'.db) /\ db.errors \subseteq txn'.db.errors
    BY <1>0, <1>1, BeginStep
  <2>2. ASSUME NEW a \in Aggregates PROVE Reported(txn'.db, a)
    BY <1>0, <2>1, MoreErrors
  <2> QED BY <1>0, <2>1, <2>2
<1>2. ASSUME NEW m \in Messages, NEW off \in Offsets, IngestDuplicate(m, off)
      PROVE  Waiting /\ Draining
  BY <1>0, <1>2, BeginStep
<1>3. ASSUME NEW m \in Messages, NEW off \in Offsets, IngestNew(m, off)
      PROVE  Waiting /\ Draining
  <2>1. /\ db' = db /\ txn'.db.inbox = db.inbox \cup {m}
        /\ txn'.db.sessions = db.sessions /\ txn'.db.errors = db.errors
        /\ txn'.stage = "drain" /\ txn'.msg = m
    BY <1>0, <1>3, BeginStep
  <2>2. ASSUME NEW a \in Aggregates, a # m.agg PROVE Reported(txn'.db, a)
    <3>1. Turn(txn'.db, a) = Turn(db, a)
      BY <2>1, <2>2 DEF Turn
    <3> QED BY <1>0, <2>1, <3>1 DEF Reported
  <2> QED BY <1>0, <2>1, <2>2
<1>4. CASE DrainApply
  <2>1. PICK m \in Turn(txn.db, txn.msg.agg) :
          /\ txn'.db = Applied(txn.db, m) /\ txn # None /\ db' = db
          /\ txn'.msg = txn.msg /\ txn'.stage = txn.stage /\ txn.stage = "drain"
    BY <1>0, <1>4, DrainApplyStep
  <2>2. /\ txn.db \in Database /\ txn.msg.agg \in Aggregates
        /\ m \in Messages /\ Valid(m) /\ m.agg = txn.msg.agg
    BY <1>0, <2>1, TxnType
  <2>3. /\ txn'.db.sessions = [txn.db.sessions EXCEPT
             ![txn.msg.agg] = Projected(txn.db.sessions[txn.msg.agg], m)]
        /\ txn'.db.inbox = txn.db.inbox /\ txn'.db.errors = txn.db.errors
    BY <2>1, <2>2, AppliedType
  <2>4. ASSUME NEW a \in Aggregates, a # txn.msg.agg PROVE Reported(txn'.db, a)
    <3>1. txn'.db.sessions[a] = txn.db.sessions[a]
      BY <2>2, <2>3, <2>4 DEF Database
    <3>2. Turn(txn'.db, a) = Turn(txn.db, a)
      BY <2>3, <3>1 DEF Turn
    <3>3. Reported(txn.db, a)
      BY <1>0, <2>1, <2>4
    <3> QED BY <2>3, <3>1, <3>2, <3>3 DEF Reported
  <2> QED BY <1>0, <2>1, <2>4
<1>5. CASE DrainFails
  <2>1. /\ txn # None /\ db' = db /\ txn.stage = "drain"
        /\ \E m \in Turn(txn.db, txn.msg.agg) :
             ~Projectable(txn.db.sessions[m.agg], m)
    BY <1>5 DEF DrainFails
  <2>2. /\ txn'.stage = "commit" /\ txn'.msg = txn.msg /\ Same(txn.db, txn'.db)
        /\ txn'.db.errors = txn.db.errors \cup {txn.msg}
    BY <1>0, <1>5, TxnStep
  <2>3. ASSUME NEW a \in Aggregates PROVE Reported(txn'.db, a)
    <3>1. CASE a # txn.msg.agg
      <4>1. Reported(txn.db, a)
        BY <1>0, <2>1, <3>1
      <4> QED BY <2>2, <4>1, MoreErrors
    <3>2. CASE a = txn.msg.agg
      <4>1. \A m \in Turn(txn.db, a) :
              m.agg = a /\ ~Projectable(txn.db.sessions[a], m)
        BY <1>0, <2>1, <3>2, TurnIsUnique, TxnType
      <4>2. Turn(txn'.db, a) = Turn(txn.db, a) /\ txn'.db.sessions = txn.db.sessions
        BY <2>2 DEF Turn, Same
      <4>3. txn.msg \in txn'.db.errors
        BY <2>2
      <4> QED BY <3>2, <4>1, <4>2, <4>3 DEF Reported
    <3> QED BY <3>1, <3>2
  <2> QED BY <1>0, <2>1, <2>3
<1>6. CASE DrainEnds
  <2>1. txn # None /\ db' = db /\ txn.stage = "drain"
        /\ Turn(txn.db, txn.msg.agg) = {}
    BY <1>6 DEF DrainEnds
  <2>2. /\ txn'.stage = "commit" /\ txn'.msg = txn.msg /\ Same(txn.db, txn'.db)
        /\ txn'.db.errors = txn.db.errors \ {txn.msg}
    BY <1>0, <1>6, TxnStep
  <2>3. ASSUME NEW a \in Aggregates PROVE Reported(txn'.db, a)
    <3>1. CASE a # txn.msg.agg
      <4>1. Reported(txn.db, a)
        BY <1>0, <2>1, <3>1
      <4>2. \A x \in txn.db.errors : x.agg = a => x \in txn'.db.errors
        BY <2>2, <3>1
      <4> QED BY <2>2, <4>1, <4>2, MoreErrors
    <3>2. CASE a = txn.msg.agg
      <4>1. Turn(txn'.db, a) = {}
        BY <2>1, <2>2, <3>2 DEF Turn, Same
      <4> QED BY <4>1 DEF Reported
    <3> QED BY <3>1, <3>2
  <2> QED BY <1>0, <2>1, <2>3
<1>7. CASE Commit
  <2>1. /\ txn # None /\ txn.stage = "commit" /\ txn' = None
        /\ Same(txn.db, db') /\ db'.errors = txn.db.errors
    BY <1>0, <1>7, TxnStep DEF Commit
  <2>2. ASSUME NEW a \in Aggregates PROVE Reported(db', a)
    BY <1>0, <2>1, MoreErrors
  <2> QED BY <2>1, <2>2
<1>8. CASE MarkHistoryMissing
  <2>1. Same(db, db') /\ db'.errors = db.errors /\ txn = None /\ txn' = txn
    BY <1>0, <1>8, TxnStep DEF MarkHistoryMissing
  <2>2. ASSUME NEW a \in Aggregates PROVE Reported(db', a)
    BY <1>0, <2>1, MoreErrors
  <2> QED BY <2>1, <2>2
<1>9. CASE Crash \/ UNCHANGED vars
  BY <1>0, <1>9 DEF Crash, vars
<1> QED
  BY <1>1, <1>2, <1>3, <1>4, <1>5, <1>6, <1>7, <1>8, <1>9 DEF Next

(* Between transactions, an event of the inbox whose turn it is cannot be   *)
(* projected, and an error of its aggregate says so (the loop of _drain and *)
(* the except clause of ingest).                                            *)
THEOREM NothingWaitsUnreported == Spec => []WaitingIsReported
<1>1. ReportInv => WaitingIsReported
  BY DEF ReportInv, WaitingIsReported
<1> QED BY <1>1, InitReported, NextReported, PTL DEF Spec

-----------------------------------------------------------------------------
(* What a transaction does to the projections it found.  A session that is  *)
(* not there has no participants yet.                                       *)

AbsentInv(d) ==
    \A a \in Aggregates :
        d.sessions[a].version = 0 =>
            /\ d.sessions[a].status = "ABSENT"
            /\ \A p \in Participants : ~d.sessions[a].parts[p].added

GrownInv ==
    /\ ReportInv
    /\ AbsentInv(db)
    /\ txn # None =>
         /\ AbsentInv(txn.db)
         /\ \A a \in Aggregates : Grown(db.sessions[a], txn.db.sessions[a])
         /\ txn.msg \in db.inbox => Same(db, txn.db)

LEMMA GrownReflexive == ASSUME NEW s \in Projection PROVE Grown(s, s)
BY DEF Grown, Projection

LEMMA GrownTransitive ==
    ASSUME NEW s \in Projection, NEW t \in Projection, NEW u \in Projection,
           Grown(s, t), Grown(t, u)
    PROVE  Grown(s, u)
<1>1. s.version \in Nat /\ t.version \in Nat /\ u.version \in Nat
  BY DEF Projection
<1>2. s.version <= u.version
  BY <1>1 DEF Grown
<1>3. s.status = "COMPLETED" => u = s
  BY DEF Grown
<1>4. \A p \in Participants : s.parts[p].added =>
        /\ u.parts[p].added /\ u.parts[p].share = s.parts[p].share
        /\ s.parts[p].authorized => u.parts[p].authorized
  BY DEF Grown
<1> QED BY <1>2, <1>3, <1>4 DEF Grown

(* An event that projects makes the projection grow. *)
LEMMA ProjectedGrown ==
    ASSUME NEW s \in Projection, NEW m \in Messages, Valid(m),
           Projectable(s, m), m.version = s.version + 1,
           s.version = 0 => /\ s.status = "ABSENT"
                            /\ \A p \in Participants : ~s.parts[p].added
    PROVE  Grown(s, Projected(s, m)) /\ Projected(s, m).version # 0
<1>1. s.version \in Nat
  BY DEF Projection
<1>2. CASE s.version = 0
  BY <1>2 DEF Grown, Projected
<1>3. CASE s.version # 0
  <2> DEFINE t == Projected(s, m)
  <2>1. /\ t.version = s.version + 1 /\ t.parts = PartsAfter(s, m)
        /\ s.status # "COMPLETED"
    BY <1>3 DEF Projected, Projectable, Projection
  <2>2. m.kind = "ParticipantAdded" =>
          m.pid \in Participants /\ ~s.parts[m.pid].added
    BY <1>3, MessageType DEF Projectable
  <2>3. s.parts \in [Participants -> Part]
    BY DEF Projection
  <2>4. ASSUME NEW p \in Participants, s.parts[p].added
        PROVE  /\ PartsAfter(s, m)[p].added
               /\ PartsAfter(s, m)[p].share = s.parts[p].share
               /\ s.parts[p].authorized => PartsAfter(s, m)[p].authorized
    <3>1. CASE m.kind = "ParticipantAdded"
      <4>1. p # m.pid
        BY <2>2, <2>4, <3>1
      <4> QED BY <2>3, <2>4, <3>1, <4>1 DEF PartsAfter
    <3>2. CASE m.kind = "ParticipantAuthorized"
      <4>1. s.parts[p] \in Part
        BY <2>3
      <4>2. PartsAfter(s, m)[p] =
              IF p = m.pid THEN [s.parts[p] EXCEPT !.authorized = TRUE]
              ELSE s.parts[p]
        BY <2>3, <3>2 DEF PartsAfter
      <4> QED BY <2>4, <4>1, <4>2 DEF Part
    <3>3. CASE m.kind \notin {"ParticipantAdded", "ParticipantAuthorized"}
      BY <2>4, <3>3 DEF PartsAfter
    <3> QED BY <3>1, <3>2, <3>3
  <2> HIDE DEF t
  <2>5. Grown(s, t) /\ t.version # 0
    BY <1>1, <2>1, <2>4 DEF Grown
  <2> QED BY <2>5 DEF t
<1> QED BY <1>2, <1>3

LEMMA NextGrown ==
    GrownInv /\ [Next]_vars =>
        /\ GrownInv'
        /\ \A a \in Aggregates : Grown(db.sessions[a], db'.sessions[a])
        /\ txn # None /\ txn.msg \in db.inbox => Same(db, db')
<1> SUFFICES ASSUME GrownInv, [Next]_vars
             PROVE  /\ GrownInv'
                    /\ \A a \in Aggregates : Grown(db.sessions[a], db'.sessions[a])
                    /\ txn # None /\ txn.msg \in db.inbox => Same(db, db')
  OBVIOUS
<1>0. /\ ReportInv' /\ Typed /\ AbsentInv(db)
      /\ \A a \in Aggregates : Reported(db, a)
      /\ (txn # None =>
           /\ AbsentInv(txn.db)
           /\ \A a \in Aggregates : Grown(db.sessions[a], txn.db.sessions[a])
           /\ txn.msg \in db.inbox => Same(db, txn.db))
  BY NextReported DEF GrownInv, ReportInv, KeyedInv
<1>00. db \in Database /\ \A a \in Aggregates : db.sessions[a] \in Projection
  BY <1>0 DEF Typed, TypeOK, Database
<1>R. \A a \in Aggregates : Grown(db.sessions[a], db.sessions[a])
  BY <1>00, GrownReflexive
<1> DEFINE View(d) == /\ AbsentInv(txn'.db)
                      /\ \A a \in Aggregates :
                           Grown(d.sessions[a], txn'.db.sessions[a])
                      /\ txn'.msg \in d.inbox => Same(d, txn'.db)
           Stays == \A a \in Aggregates : Grown(db.sessions[a], db'.sessions[a])
           Twice == txn # None /\ txn.msg \in db.inbox => Same(db, db')
<1>S. \A d : Same(d, d)
  BY DEF Same
<1> SUFFICES AbsentInv(db') /\ (txn' # None => View(db')) /\ Stays /\ Twice
  BY <1>0 DEF GrownInv
<1>1. ASSUME NEW m \in Messages, NEW off \in Offsets, IngestRejected(m, off)
      PROVE  AbsentInv(db') /\ View(db') /\ Stays /\ Twice
  <2>1. db' = db /\ Same(db, txn'.db)
    BY <1>0, <1>1, BeginStep
  <2>2. txn'.db.sessions = db.sessions
    BY <2>1 DEF Same
  <2> QED BY <1>0, <1>R, <1>S, <2>1, <2>2 DEF AbsentInv
<1>2. ASSUME NEW m \in Messages, NEW off \in Offsets, IngestDuplicate(m, off)
      PROVE  AbsentInv(db') /\ View(db') /\ Stays /\ Twice
  <2>1. db' = db /\ txn'.db = db
    BY <1>0, <1>2, BeginStep
  <2> QED BY <1>0, <1>R, <1>S, <2>1
<1>3. ASSUME NEW m \in Messages, NEW off \in Offsets, IngestNew(m, off)
      PROVE  AbsentInv(db') /\ View(db') /\ Stays /\ Twice
  <2>1. /\ db' = db /\ txn'.db.sessions = db.sessions /\ txn'.msg = m
        /\ \A e \in db.inbox :
             e.id # m.id /\ ~(e.agg = m.agg /\ e.version = m.version)
    BY <1>0, <1>3, BeginStep
  <2>2. m \notin db.inbox
    BY <2>1
  <2> QED BY <1>0, <1>R, <1>S, <2>1, <2>2 DEF AbsentInv
<1>4. CASE DrainApply
  <2>1. PICK m \in Turn(txn.db, txn.msg.agg) :
          /\ Projectable(txn.db.sessions[m.agg], m)
          /\ txn'.db = Applied(txn.db, m) /\ txn # None /\ db' = db
          /\ txn'.msg = txn.msg
    BY <1>0, <1>4, DrainApplyStep
  <2>2. /\ txn.db \in Database /\ txn.msg.agg \in Aggregates
        /\ m \in Messages /\ Valid(m) /\ m.agg = txn.msg.agg
    BY <1>0, <2>1, TxnType
  <2> DEFINE s == txn.db.sessions[m.agg]
  <2>3. /\ txn'.db.sessions = [txn.db.sessions EXCEPT ![m.agg] = Projected(s, m)]
        /\ txn.db.sessions \in [Aggregates -> Projection]
    BY <2>1, <2>2, AppliedType DEF Database
  <2>4. s \in Projection /\ Projected(s, m) \in Projection
    BY <2>2, <2>3, ProjectedType
  <2>5. m.version = s.version + 1
    BY <2>1, <2>2 DEF Turn
  <2>6. s.version = 0 => /\ s.status = "ABSENT"
                         /\ \A p \in Participants : ~s.parts[p].added
    BY <1>0, <2>1, <2>2 DEF AbsentInv
  <2>7. Projectable(s, m)
    BY <2>1
  <2> HIDE DEF s
  <2>8. Grown(s, Projected(s, m)) /\ Projected(s, m).version # 0
    BY <2>2, <2>4, <2>5, <2>6, <2>7, ProjectedGrown
  <2>9. AbsentInv(txn'.db)
    BY <1>0, <2>1, <2>2, <2>3, <2>8 DEF AbsentInv
  <2>10. ASSUME NEW a \in Aggregates
         PROVE  Grown(db.sessions[a], txn'.db.sessions[a])
    <3>1. Grown(db.sessions[a], txn.db.sessions[a])
      BY <1>0, <2>1
    <3>2. CASE a # m.agg
      BY <2>2, <2>3, <3>1, <3>2
    <3>3. CASE a = m.agg
      <4>1. txn'.db.sessions[a] = Projected(s, m) /\ txn.db.sessions[a] = s
        BY <2>2, <2>3, <3>3 DEF s
      <4> QED BY <1>00, <2>4, <2>8, <3>1, <4>1, GrownTransitive
    <3> QED BY <3>2, <3>3
  <2>11. txn.msg \notin db.inbox
    <3>1. SUFFICES ASSUME txn.msg \in db.inbox PROVE FALSE
      OBVIOUS
    <3>2. db.sessions = txn.db.sessions /\ m \in Turn(db, m.agg)
      BY <1>0, <2>1, <2>2, <3>1 DEF Same, Turn
    <3>3. Reported(db, m.agg)
      BY <1>0, <2>2
    <3> QED BY <2>1, <3>2, <3>3 DEF Reported
  <2> QED BY <1>0, <1>R, <1>S, <2>1, <2>9, <2>10, <2>11
<1>5. CASE DrainFails \/ DrainEnds
  <2>1. txn # None /\ db' = db /\ txn'.msg = txn.msg /\ Same(txn.db, txn'.db)
    BY <1>0, <1>5, TxnStep DEF DrainFails, DrainEnds
  <2>2. txn'.db.sessions = txn.db.sessions
    BY <2>1 DEF Same
  <2>3. Same(db, txn.db) => Same(db, txn'.db)
    BY <2>1 DEF Same
  <2> QED BY <1>0, <1>R, <1>S, <2>1, <2>2, <2>3 DEF AbsentInv
<1>6. CASE Commit
  <2>1. txn # None /\ txn' = None /\ Same(txn.db, db')
    BY <1>0, <1>6, TxnStep DEF Commit
  <2>2. db'.sessions = txn.db.sessions
    BY <2>1 DEF Same
  <2>3. Same(db, txn.db) => Same(db, db')
    BY <2>1 DEF Same
  <2> QED BY <1>0, <2>1, <2>2, <2>3 DEF AbsentInv
<1>7. CASE MarkHistoryMissing
  <2>1. Same(db, db') /\ txn = None /\ txn' = txn
    BY <1>0, <1>7, TxnStep DEF MarkHistoryMissing
  <2>2. db'.sessions = db.sessions
    BY <2>1 DEF Same
  <2> QED BY <1>0, <1>R, <2>1, <2>2 DEF AbsentInv
<1>8. CASE Crash \/ UNCHANGED vars
  BY <1>0, <1>R, <1>S, <1>8 DEF Crash, vars
<1> QED
  BY <1>1, <1>2, <1>3, <1>4, <1>5, <1>6, <1>7, <1>8 DEF Next

LEMMA InitGrown == Init => GrownInv
<1> SUFFICES ASSUME Init PROVE GrownInv
  OBVIOUS
<1>1. txn = None
  BY DEF Init
<1>2. AbsentInv(db)
  BY DEF Init, Empty, AbsentInv, Absent, NoParts
<1> QED BY <1>1, <1>2, InitReported DEF GrownInv

(* No delivery takes a projection back: versions only rise, a COMPLETED     *)
(* session never changes, no participant or authorization is lost (project, *)
(* through every round of _drain that one commit makes visible).            *)
THEOREM OnlyGrows == Spec => ProjectionOnlyGrows
<1>1. GrownInv /\ [Next]_vars =>
        [\A a \in Aggregates : Grown(db.sessions[a], db'.sessions[a])]_vars
  BY NextGrown
<1>2. GrownInv /\ [Next]_vars => GrownInv'
  BY NextGrown
<1> QED BY <1>1, <1>2, InitGrown, PTL DEF Spec, ProjectionOnlyGrows

-----------------------------------------------------------------------------
(* What a transaction keeps of what the database says of messages: a message *)
(* that has a row, in the inbox or as an error, has one for ever, and one    *)
(* that is applied stays applied.                                            *)

Rows(d) == d.inbox \cup d.errors

Kept ==
    txn # None =>
        /\ txn.db.checkpoint = db.checkpoint /\ txn.db.missing = db.missing
        /\ Rows(db) \subseteq Rows(txn.db)
        /\ db.applied \subseteq txn.db.applied
        /\ txn.msg \in Rows(txn.db)
        /\ txn.stage = "drain" => txn.msg \in txn.db.inbox

LEMMA InitKept == Init => Kept
BY DEF Init, Kept

(* How ingest begins. *)
LEMMA BeginKept ==
    ASSUME Typed, NEW m \in Messages, NEW off \in Offsets,
           IngestRejected(m, off) \/ IngestDuplicate(m, off) \/ IngestNew(m, off)
    PROVE  /\ txn = None /\ db' = db
           /\ txn'.msg = m /\ txn'.offset = off
           /\ Kept'
<1>0. db \in Database
  BY DEF Typed, TypeOK
<1>1. CASE IngestRejected(m, off)
  <2> DEFINE d == [db EXCEPT !.errors = @ \cup {m}]
  <2>1. /\ d.checkpoint = db.checkpoint /\ d.missing = db.missing
        /\ d.inbox = db.inbox /\ d.errors = db.errors \cup {m}
        /\ d.applied = db.applied
    BY <1>0 DEF Database
  <2>2. txn = None /\ db' = db /\ txn' = [stage |-> "commit", msg |-> m, offset |-> off, db |-> d]
    BY <1>1 DEF IngestRejected, Begin
  <2> HIDE DEF d
  <2> QED BY <2>1, <2>2 DEF Kept, Rows
<1>2. CASE IngestDuplicate(m, off)
  BY <1>2 DEF IngestDuplicate, Begin, Kept, Rows
<1>3. CASE IngestNew(m, off)
  <2> DEFINE d == [db EXCEPT !.inbox = @ \cup {m}]
  <2>1. /\ d.checkpoint = db.checkpoint /\ d.missing = db.missing
        /\ d.inbox = db.inbox \cup {m} /\ d.errors = db.errors
        /\ d.applied = db.applied
    BY <1>0 DEF Database
  <2>2. txn = None /\ db' = db /\ txn' = [stage |-> "drain", msg |-> m, offset |-> off, db |-> d]
    BY <1>3 DEF IngestNew, Begin
  <2> HIDE DEF d
  <2> QED BY <2>1, <2>2 DEF Kept, Rows
<1> QED BY <1>1, <1>2, <1>3

(* The rounds and the end of the drain. *)
LEMMA DrainKept ==
    ASSUME Typed, Kept, DrainApply \/ DrainFails \/ DrainEnds
    PROVE  /\ txn # None /\ db' = db
           /\ txn'.msg = txn.msg /\ txn'.offset = txn.offset
           /\ Kept'
<1>1. txn # None /\ db' = db /\ txn.stage = "drain"
  BY DEF DrainApply, DrainFails, DrainEnds
<1>2. txn \in Transaction /\ txn.db \in Database
  BY <1>1, TxnType
<1>3. txn.msg \in txn.db.inbox /\ Rows(db) \subseteq Rows(txn.db)
      /\ db.applied \subseteq txn.db.applied
      /\ txn.db.checkpoint = db.checkpoint /\ txn.db.missing = db.missing
  BY <1>1 DEF Kept
<1>4. CASE DrainApply
  <2>1. PICK m \in Turn(txn.db, txn.msg.agg) : txn' = [txn EXCEPT !.db = Applied(txn.db, m)]
    BY <1>4 DEF DrainApply
  <2> DEFINE d == Applied(txn.db, m)
  <2>2. /\ d.checkpoint = txn.db.checkpoint /\ d.missing = txn.db.missing
        /\ d.inbox = txn.db.inbox /\ d.errors = txn.db.errors
        /\ d.applied = txn.db.applied \cup {m}
    BY <1>2 DEF Applied, Database
  <2> HIDE DEF d
  <2>3. txn'.db = d /\ txn'.msg = txn.msg /\ txn'.offset = txn.offset
    BY <1>2, <2>1 DEF Transaction, d
  <2> QED BY <1>1, <1>3, <2>2, <2>3 DEF Kept, Rows
<1>5. CASE DrainFails
  <2>1. /\ txn'.db.checkpoint = txn.db.checkpoint /\ txn'.db.missing = txn.db.missing
        /\ txn'.db.inbox = txn.db.inbox /\ txn'.db.errors = txn.db.errors \cup {txn.msg}
        /\ txn'.db.applied = txn.db.applied
        /\ txn'.msg = txn.msg /\ txn'.offset = txn.offset
    BY <1>2, <1>5 DEF DrainFails, Transaction, Database
  <2> QED BY <1>1, <1>3, <2>1 DEF Kept, Rows
<1>6. CASE DrainEnds
  <2>1. /\ txn'.db.checkpoint = txn.db.checkpoint /\ txn'.db.missing = txn.db.missing
        /\ txn'.db.inbox = txn.db.inbox /\ txn'.db.errors = txn.db.errors \ {txn.msg}
        /\ txn'.db.applied = txn.db.applied
        /\ txn'.msg = txn.msg /\ txn'.offset = txn.offset
    BY <1>2, <1>6 DEF DrainEnds, Transaction, Database
  <2> QED BY <1>1, <1>3, <2>1 DEF Kept, Rows
<1> QED BY <1>1, <1>4, <1>5, <1>6

(* COMMIT: the message at hand has its row, and the checkpoint is past it. *)
LEMMA CommitKept ==
    ASSUME Typed, Kept, Commit
    PROVE  /\ txn # None /\ txn' = None
           /\ db'.checkpoint = IF db.checkpoint > txn.offset + 1
                               THEN db.checkpoint ELSE txn.offset + 1
           /\ db'.missing = db.missing
           /\ Rows(db) \cup {txn.msg} \subseteq Rows(db')
           /\ db.applied \subseteq db'.applied
           /\ Kept'
<1>1. /\ txn # None /\ txn' = None
      /\ db' = [txn.db EXCEPT !.checkpoint =
                  IF @ > txn.offset + 1 THEN @ ELSE txn.offset + 1]
  BY DEF Commit
<1>2. txn.db \in Database
  BY <1>1, TxnType
<1>3. /\ db'.checkpoint = IF txn.db.checkpoint > txn.offset + 1
                          THEN txn.db.checkpoint ELSE txn.offset + 1
      /\ db'.missing = txn.db.missing
      /\ db'.inbox = txn.db.inbox /\ db'.errors = txn.db.errors
      /\ db'.applied = txn.db.applied
  BY <1>1, <1>2 DEF Database
<1> QED BY <1>1, <1>3 DEF Kept, Rows

(* The other two transactions leave the rows alone. *)
LEMMA MissingKept ==
    ASSUME Typed, MarkHistoryMissing
    PROVE  /\ db'.checkpoint = db.checkpoint /\ db'.missing = TRUE
           /\ Rows(db') = Rows(db) /\ db'.applied = db.applied
           /\ txn = None /\ txn' = None
<1>1. db \in Database
  BY DEF Typed, TypeOK
<1> QED BY <1>1 DEF MarkHistoryMissing, Rows, Database

-----------------------------------------------------------------------------
(* What the events say of a projection, in the database and in the          *)
(* transaction's view of it.                                                *)

(* The events of an aggregate that are applied. *)
Of(d, a) == {m \in d.applied : m.agg = a}

(* The participants are those that the events E name, each with its share   *)
(* and authorized if an event says so.                                      *)
ShowsParts(parts, E) ==
    \A p \in Participants :
        /\ parts[p].added <=> \E m \in E : m.kind = "ParticipantAdded" /\ m.pid = p
        /\ \A m \in E : m.kind = "ParticipantAdded" /\ m.pid = p =>
             parts[p].share = m.amount
        /\ parts[p].authorized <=>
             \E m \in E : m.kind = "ParticipantAuthorized" /\ m.pid = p
        /\ ~parts[p].added => parts[p] = NoParts[p]

(* What a projection owes to the events that made it, in no order.          *)
Shows(s, E) ==
    /\ \A m \in E : m.kind = "SplitCreated" =>
         s.total = m.amount /\ s.createdAt = m.createdAt
    /\ \A m \in E : m.version = 1 => m.kind = "SplitCreated"
    /\ s.deadline = s.createdAt + Deadline
    /\ s.status = IF \E m \in E : m.kind = "SplitCompleted" THEN "COMPLETED" ELSE "OPEN"
    /\ s.status = "OPEN" => s.closedAt = None
    /\ \A m \in E : m.kind = "SplitCompleted" =>
         s.closedAt = m.at /\ s.version = m.version
    /\ ShowsParts(s.parts, E)

Shown(d, a) ==
    IF d.sessions[a].version = 0 THEN d.sessions[a] = Absent
    ELSE Shows(d.sessions[a], Of(d, a))

LEMMA FirstShown ==
    ASSUME NEW m \in Messages, m.kind = "SplitCreated", m.version = 1
    PROVE  Shows(Projected(Absent, m), {m})
<1> DEFINE s == Projected(Absent, m)
<1>1. /\ s.version = 1 /\ s.status = "OPEN" /\ s.createdAt = m.createdAt
      /\ s.deadline = m.createdAt + Deadline /\ s.closedAt = None
      /\ s.total = m.amount /\ s.parts = NoParts
  BY DEF Projected, Absent
<1> HIDE DEF s
<1>2. ShowsParts(s.parts, {m})
  BY <1>1 DEF ShowsParts, NoParts
<1> QED BY <1>1, <1>2 DEF Shows, s

(* One more event leaves nothing of the projection unexplained. *)
LEMMA NextShown ==
    ASSUME NEW s \in Projection, NEW E, NEW m \in Messages, Valid(m),
           Shows(s, E), s.version # 0, Projectable(s, m)
    PROVE  Shows(Projected(s, m), E \cup {m})
<1> DEFINE t == Projected(s, m)
<1>0. /\ s.version \in Nat /\ s.parts \in [Participants -> Part] /\ s.status # "COMPLETED"
      /\ m.version = s.version + 1
      /\ m.kind \in {"ParticipantAdded", "ParticipantAuthorized", "SplitCompleted"}
      /\ m.kind = "ParticipantAdded" => ~s.parts[m.pid].added
      /\ m.kind = "ParticipantAuthorized" => s.parts[m.pid].added
  BY DEF Projection, Projectable
<1>1. /\ t.version = m.version /\ t.parts = PartsAfter(s, m)
      /\ t.status = IF m.kind = "SplitCompleted" THEN "COMPLETED" ELSE s.status
      /\ t.closedAt = IF m.kind = "SplitCompleted" THEN m.at ELSE s.closedAt
      /\ t.total = s.total /\ t.createdAt = s.createdAt /\ t.deadline = s.deadline
  BY DEF Projected, Projection
<1> HIDE DEF t
<1>2. s.status = "OPEN" /\ \A e \in E : e.kind # "SplitCompleted"
  BY <1>0 DEF Shows
<1>3. ShowsParts(t.parts, E \cup {m})
  <2>1. ShowsParts(s.parts, E)
    BY DEF Shows
  <2>2. CASE m.kind = "ParticipantAdded"
    <3>1. /\ m.pid \in Participants
          /\ t.parts = [s.parts EXCEPT ![m.pid] = [added |-> TRUE, share |-> m.amount,
                                                    authorized |-> FALSE]]
      BY <1>1, <2>2, MessageType DEF PartsAfter
    <3>2. ~s.parts[m.pid].added
      BY <1>0, <2>2
    <3>3. ~s.parts[m.pid].authorized
      BY <2>1, <3>1, <3>2 DEF ShowsParts, NoParts
    <3> QED BY <1>0, <2>1, <2>2, <3>1, <3>2, <3>3 DEF ShowsParts
  <2>3. CASE m.kind = "ParticipantAuthorized"
    <3>1. /\ m.pid \in Participants /\ s.parts[m.pid] \in Part
          /\ t.parts = [s.parts EXCEPT ![m.pid] = [s.parts[m.pid] EXCEPT !.authorized = TRUE]]
      BY <1>0, <1>1, <2>3, MessageType DEF PartsAfter
    <3>2. /\ t.parts[m.pid].added = s.parts[m.pid].added
          /\ t.parts[m.pid].share = s.parts[m.pid].share
          /\ t.parts[m.pid].authorized = TRUE
      BY <1>0, <3>1 DEF Part
    <3>3. \A p \in Participants : p # m.pid => t.parts[p] = s.parts[p]
      BY <1>0, <3>1
    <3>4. s.parts[m.pid].added
      BY <1>0, <2>3
    <3> QED BY <2>1, <2>3, <3>1, <3>2, <3>3, <3>4 DEF ShowsParts
  <2>4. CASE m.kind = "SplitCompleted"
    <3>1. t.parts = s.parts
      BY <1>1, <2>4 DEF PartsAfter
    <3> QED BY <2>1, <2>4, <3>1 DEF ShowsParts
  <2> QED BY <1>0, <2>2, <2>3, <2>4
<1>4. m.version # 1 /\ m.kind # "SplitCreated"
  BY <1>0
<1> QED BY <1>0, <1>1, <1>2, <1>3, <1>4 DEF Shows, t

LEMMA AppliedShown ==
    ASSUME NEW d \in Database, NEW a \in Aggregates, NEW m \in Turn(d, a),
           m \in Messages, Valid(m), m.agg = a, Projectable(d.sessions[a], m),
           Prefix(d), \A b \in Aggregates : Shown(d, b)
    PROVE  \A b \in Aggregates : Shown(Applied(d, m), b)
<1> SUFFICES ASSUME NEW b \in Aggregates PROVE Shown(Applied(d, m), b)
  OBVIOUS
<1> DEFINE e == Applied(d, m)
           s == d.sessions[a]
<1>1. /\ e.sessions = [d.sessions EXCEPT ![a] = Projected(s, m)]
      /\ e.applied = d.applied \cup {m}
  BY AppliedType
<1>2. d.sessions \in [Aggregates -> Projection] /\ s \in Projection
  BY DEF Database
<1>3. Shown(d, a) /\ Shown(d, b) /\ m.version = s.version + 1 /\ Projectable(s, m)
  BY DEF Turn
<1>4. {n.version : n \in Of(d, a)} = 1..s.version
  BY DEF Prefix, Of
<1>5. Projected(s, m).version # 0
  <2>1. Projected(s, m).version = s.version + 1 /\ s.version \in Nat
    BY ProjectedVersion
  <2> QED BY <2>1
<1> HIDE DEF e, s
<1>6. CASE b # a
  <2>1. e.sessions[b] = d.sessions[b] /\ Of(e, b) = Of(d, b)
    BY <1>1, <1>2, <1>6 DEF Of
  <2> QED BY <1>3, <2>1 DEF Shown, e
<1>7. CASE b = a
  <2>1. e.sessions[b] = Projected(s, m) /\ Of(e, b) = Of(d, a) \cup {m}
    BY <1>1, <1>2, <1>7 DEF Of
  <2>2. CASE s.version = 0
    <3>1. Of(d, a) = {}
      <4>1. 1..0 = {}
        OBVIOUS
      <4>2. \A n \in Of(d, a) : n.version \in 1..0
        BY <1>4, <2>2
      <4> QED BY <4>1, <4>2
    <3>2. s = Absent /\ m.version = 1 /\ m.kind = "SplitCreated"
      BY <1>3, <2>2 DEF Shown, Projectable, s
    <3> QED BY <1>5, <2>1, <3>1, <3>2, FirstShown DEF Shown, e
  <2>3. CASE s.version # 0
    <3>1. Shows(s, Of(d, a))
      BY <1>3, <2>3 DEF Shown, s
    <3> QED BY <1>2, <1>3, <1>5, <2>1, <2>3, <3>1, NextShown DEF Shown, e
  <2> QED BY <2>2, <2>3
<1> QED BY <1>6, <1>7

(* h holds the projections that led to s, one for each version, and each is *)
(* what project made of the one before it.                                  *)
Leads(h, s, E) ==
    /\ h[0] = Absent /\ h[s.version] = s
    /\ \A v \in 1..s.version :
         /\ h[v - 1].version = v - 1
         /\ \E m \in E : /\ m.version = v /\ Projectable(h[v - 1], m)
                          /\ h[v] = Projected(h[v - 1], m)

Traced(d, a) ==
    \E h \in [0..d.sessions[a].version -> Projection] :
        Leads(h, d.sessions[a], Of(d, a))

LEMMA AppliedTraced ==
    ASSUME NEW d \in Database, NEW a \in Aggregates, NEW m \in Turn(d, a),
           m \in Messages, Valid(m), m.agg = a, Projectable(d.sessions[a], m),
           \A b \in Aggregates : Traced(d, b)
    PROVE  \A b \in Aggregates : Traced(Applied(d, m), b)
<1> SUFFICES ASSUME NEW b \in Aggregates PROVE Traced(Applied(d, m), b)
  OBVIOUS
<1> DEFINE e == Applied(d, m)
           s == d.sessions[a]
           t == Projected(s, m)
<1>1. /\ e.sessions = [d.sessions EXCEPT ![a] = t]
      /\ e.applied = d.applied \cup {m}
  BY AppliedType
<1>2. d.sessions \in [Aggregates -> Projection] /\ s \in Projection
  BY DEF Database
<1>3. /\ m.version = s.version + 1 /\ t.version = s.version + 1 /\ s.version \in Nat
      /\ t \in Projection /\ Projectable(s, m)
  BY <1>2, ProjectedVersion, ProjectedType
<1>4. PICK h \in [0..s.version -> Projection] : Leads(h, s, Of(d, a))
  BY DEF Traced
<1>t. t = Projected(s, m)
  OBVIOUS
<1>s. s = d.sessions[a]
  OBVIOUS
<1> HIDE DEF e, s, t
<1>5. CASE b # a
  <2>1. e.sessions[b] = d.sessions[b] /\ Of(e, b) = Of(d, b)
    BY <1>1, <1>2, <1>5 DEF Of
  <2> QED BY <2>1 DEF Traced, e
<1>6. CASE b = a
  <2>1. e.sessions[b] = t /\ Of(e, b) = Of(d, a) \cup {m}
    BY <1>1, <1>2, <1>6 DEF Of
  <2> DEFINE g == [v \in 0..t.version |-> IF v = t.version THEN t ELSE h[v]]
             n == s.version
  <2>n. n \in Nat /\ n = s.version /\ t.version = n + 1
    BY <1>3
  <2> HIDE DEF n
  <2>2. g \in [0..t.version -> Projection]
    BY <1>3
  <2>3. /\ g[n + 1] = t /\ \A v \in 0..n : g[v] = h[v]
    BY <2>n
  <2>4. /\ h[0] = Absent /\ h[n] = s
        /\ \A v \in 1..n :
             /\ h[v - 1].version = v - 1
             /\ \E k \in Of(d, a) : /\ k.version = v /\ Projectable(h[v - 1], k)
                                    /\ h[v] = Projected(h[v - 1], k)
    BY <1>4, <2>n DEF Leads
  <2> HIDE DEF g
  <2>5. ASSUME NEW v \in 1..(n + 1)
        PROVE  /\ g[v - 1].version = v - 1
               /\ \E k \in Of(d, a) \cup {m} :
                    /\ k.version = v /\ Projectable(g[v - 1], k)
                    /\ g[v] = Projected(g[v - 1], k)
    <3>1. CASE v = n + 1
      <4>1. v - 1 = n /\ g[n] = s
        BY <2>3, <2>4, <2>n, <3>1
      <4> QED BY <1>3, <1>t, <2>3, <2>n, <3>1, <4>1
    <3>2. CASE v # n + 1
      <4>1. v \in 1..n /\ v \in 0..n /\ v - 1 \in 0..n
        BY <2>n, <3>2
      <4>2. g[v] = h[v] /\ g[v - 1] = h[v - 1]
        BY <2>3, <4>1
      <4> QED BY <2>4, <4>1, <4>2
    <3> QED BY <3>1, <3>2
  <2>6. Leads(g, t, Of(e, b))
    <3>1. g[0] = Absent
      BY <2>3, <2>4, <2>n
    <3> QED BY <2>1, <2>3, <2>5, <2>n, <3>1 DEF Leads
  <2> QED BY <2>1, <2>2, <2>6 DEF Traced, e
<1> QED BY <1>5, <1>6

(* The time of a projection is that of the last event applied to it. *)
LEMMA LastTime ==
    ASSUME NEW d \in Database, NEW a \in Aggregates, Traced(d, a),
           d.sessions[a].version # 0
    PROVE  \E m \in Of(d, a) : /\ m.version = d.sessions[a].version
                               /\ d.sessions[a].at = m.at
<1> DEFINE s == d.sessions[a]
           v == s.version
<1>1. PICK h \in [0..v -> Projection] : Leads(h, s, Of(d, a))
  BY DEF Traced
<1>2. v \in Nat /\ v # 0
  BY DEF Database, Projection
<1>3. v \in 1..v /\ v - 1 \in 0..v
  BY <1>2
<1>4. PICK m \in Of(d, a) : m.version = v /\ h[v] = Projected(h[v - 1], m)
  BY <1>1, <1>3 DEF Leads
<1>5. h[v - 1] \in Projection /\ h[v] = s
  BY <1>1, <1>3 DEF Leads
<1>6. Projected(h[v - 1], m).at = m.at
  BY <1>5 DEF Projected, Projection
<1> QED BY <1>4, <1>5, <1>6

(* Every projection shows its events and has been reached by them. *)
Faithful(d) ==
    /\ IsFiniteSet(d.inbox)
    /\ \A a \in Aggregates : Shown(d, a) /\ Traced(d, a)

LEMMA SameFaithful ==
    ASSUME NEW d, NEW e, d.sessions = e.sessions, d.applied = e.applied,
           IsFiniteSet(e.inbox), Faithful(d)
    PROVE  Faithful(e)
<1>1. \A a : Of(e, a) = Of(d, a)
  BY DEF Of
<1> QED BY <1>1 DEF Faithful, Shown, Traced

LEMMA AppliedFaithful ==
    ASSUME NEW d \in Database, NEW a \in Aggregates, NEW m \in Turn(d, a),
           m \in Messages, Valid(m), m.agg = a, Projectable(d.sessions[a], m),
           Prefix(d), Faithful(d)
    PROVE  Faithful(Applied(d, m))
<1>1. /\ \A b \in Aggregates : Shown(Applied(d, m), b)
      /\ \A b \in Aggregates : Traced(Applied(d, m), b)
  BY AppliedShown, AppliedTraced DEF Faithful
<1>2. Applied(d, m).inbox = d.inbox
  BY AppliedType
<1> QED BY <1>1, <1>2 DEF Faithful

FaithfulInv == Faithful(db) /\ (txn # None => Faithful(txn.db))

LEMMA InitFaithful == Init => FaithfulInv
<1> SUFFICES ASSUME Init PROVE FaithfulInv
  OBVIOUS
<1>1. db.inbox = {} /\ db.applied = {} /\ txn = None
      /\ \A a \in Aggregates : db.sessions[a] = Absent
  BY DEF Init, Empty
<1>2. IsFiniteSet(db.inbox)
  BY <1>1, FS_EmptySet
<1>3. ASSUME NEW a \in Aggregates PROVE Shown(db, a)
  BY <1>1 DEF Shown, Absent
<1>4. ASSUME NEW a \in Aggregates PROVE Traced(db, a)
  <2>1. db.sessions[a] = Absent /\ Absent.version = 0
    BY <1>1 DEF Absent
  <2> DEFINE h == [v \in 0..0 |-> Absent]
  <2>2. h \in [0..0 -> Projection] /\ h[0] = Absent
    BY AbsentType
  <2>3. 1..0 = {}
    OBVIOUS
  <2> HIDE DEF h
  <2>4. Leads(h, Absent, Of(db, a))
    BY <2>1, <2>2, <2>3 DEF Leads
  <2> QED BY <2>1, <2>2, <2>4 DEF Traced
<1> QED BY <1>1, <1>2, <1>3, <1>4 DEF FaithfulInv, Faithful

LEMMA NextFaithful == KeyedInv /\ FaithfulInv /\ [Next]_vars => FaithfulInv'
<1> SUFFICES ASSUME KeyedInv, FaithfulInv, [Next]_vars PROVE FaithfulInv'
  OBVIOUS
<1>0. /\ Typed /\ Faithful(db) /\ IsFiniteSet(db.inbox)
      /\ txn # None => /\ Prefix(txn.db) /\ Faithful(txn.db) /\ IsFiniteSet(txn.db.inbox)
  BY DEF KeyedInv, FaithfulInv, Faithful
<1> DEFINE Goal == Faithful(db') /\ (txn' # None => Faithful(txn'.db))
<1> SUFFICES Goal
  BY DEF FaithfulInv
<1>1. ASSUME NEW m \in Messages, NEW off \in Offsets, IngestRejected(m, off)
      PROVE  Goal
  <2>1. db' = db /\ Same(db, txn'.db)
    BY <1>0, <1>1, BeginStep
  <2> QED BY <1>0, <2>1, SameFaithful DEF Same
<1>2. ASSUME NEW m \in Messages, NEW off \in Offsets, IngestDuplicate(m, off)
      PROVE  Goal
  BY <1>0, <1>2, BeginStep
<1>3. ASSUME NEW m \in Messages, NEW off \in Offsets, IngestNew(m, off)
      PROVE  Goal
  <2>1. /\ db' = db /\ txn'.db.inbox = db.inbox \cup {m}
        /\ txn'.db.sessions = db.sessions /\ txn'.db.applied = db.applied
    BY <1>0, <1>3, BeginStep
  <2>2. IsFiniteSet(txn'.db.inbox)
    BY <1>0, <2>1, FS_AddElement
  <2> QED BY <1>0, <2>1, <2>2, SameFaithful
<1>4. CASE DrainApply
  <2>1. PICK m \in Turn(txn.db, txn.msg.agg) :
          /\ Projectable(txn.db.sessions[m.agg], m)
          /\ txn'.db = Applied(txn.db, m) /\ txn # None /\ db' = db
    BY <1>0, <1>4, DrainApplyStep
  <2>2. /\ txn.db \in Database /\ txn.msg.agg \in Aggregates
        /\ m \in Messages /\ Valid(m) /\ m.agg = txn.msg.agg
    BY <1>0, <2>1, TxnType
  <2>3. Faithful(Applied(txn.db, m))
    BY <1>0, <2>1, <2>2, AppliedFaithful
  <2> QED BY <1>0, <2>1, <2>3
<1>5. CASE DrainFails \/ DrainEnds
  <2>1. Same(txn.db, txn'.db) /\ txn # None /\ db' = db
    BY <1>0, <1>5, TxnStep DEF DrainFails, DrainEnds
  <2> QED BY <1>0, <2>1, SameFaithful DEF Same
<1>6. CASE Commit
  <2>1. Same(txn.db, db') /\ txn # None /\ txn' = None
    BY <1>0, <1>6, TxnStep DEF Commit
  <2> QED BY <1>0, <2>1, SameFaithful DEF Same
<1>7. CASE MarkHistoryMissing
  <2>1. Same(db, db') /\ txn' = txn /\ txn = None
    BY <1>0, <1>7, TxnStep DEF MarkHistoryMissing
  <2> QED BY <1>0, <2>1, SameFaithful DEF Same
<1>8. CASE Crash \/ UNCHANGED vars
  BY <1>0, <1>8 DEF Crash, vars
<1> QED
  BY <1>1, <1>2, <1>3, <1>4, <1>5, <1>6, <1>7, <1>8 DEF Next

-----------------------------------------------------------------------------
(* What the store holds, for the systems that it is part of. *)

(* A transaction changes the projection of one aggregate at most. *)
OneProjection ==
    txn # None => \A a \in Aggregates \ {txn.msg.agg} :
                      txn.db.sessions[a] = db.sessions[a]

StoreInv == KeyedInv /\ FaithfulInv /\ Kept /\ OneProjection

LEMMA InitStore == Init => StoreInv
BY InitKeyed, InitFaithful, InitKept DEF Init, OneProjection, StoreInv

LEMMA NextStore == StoreInv /\ [Next]_vars => StoreInv'
<1> SUFFICES ASSUME StoreInv, [Next]_vars PROVE Kept' /\ OneProjection'
  BY NextKeyed, NextFaithful DEF StoreInv
<1>0. Typed /\ Kept /\ OneProjection
  BY DEF StoreInv, KeyedInv
<1> DEFINE Goal == Kept' /\ OneProjection'
<1> SUFFICES Goal
  OBVIOUS
<1>1. ASSUME NEW m \in Messages, NEW off \in Offsets,
             IngestRejected(m, off) \/ IngestDuplicate(m, off) \/ IngestNew(m, off)
      PROVE  Goal
  <2>1. db' = db /\ Kept'
    BY <1>0, <1>1, BeginKept
  <2>2. txn'.db.sessions = db.sessions
    BY <1>0, <1>1, BeginStep DEF Same
  <2> QED BY <2>1, <2>2 DEF OneProjection
<1>2. CASE DrainApply
  <2>1. PICK m \in Turn(txn.db, txn.msg.agg) :
          /\ txn'.db = Applied(txn.db, m) /\ txn'.msg = txn.msg
          /\ txn # None /\ db' = db
    BY <1>0, <1>2, DrainApplyStep
  <2>2. /\ txn.db \in Database /\ m \in Messages /\ Valid(m) /\ m.agg = txn.msg.agg
        /\ m.agg \in Aggregates
    BY <1>0, <2>1, TxnType
  <2>3. \A a \in Aggregates \ {m.agg} : txn'.db.sessions[a] = txn.db.sessions[a]
    BY <2>1, <2>2 DEF Applied, Database
  <2>4. OneProjection'
    BY <1>0, <2>1, <2>2, <2>3 DEF OneProjection
  <2> QED BY <1>0, <1>2, <2>4, DrainKept
<1>3. CASE DrainFails \/ DrainEnds
  <2>1. txn'.msg = txn.msg /\ txn'.db.sessions = txn.db.sessions
    BY <1>0, <1>3, TxnStep DEF Same
  <2>2. txn # None /\ db' = db /\ Kept'
    BY <1>0, <1>3, DrainKept
  <2> QED BY <1>0, <2>1, <2>2 DEF OneProjection
<1>4. CASE Commit
  BY <1>0, <1>4, CommitKept DEF OneProjection
<1>5. CASE MarkHistoryMissing
  BY <1>0, <1>5, MissingKept DEF OneProjection, Kept
<1>6. CASE Crash \/ UNCHANGED vars
  BY <1>0, <1>6 DEF Crash, vars, OneProjection, Kept
<1> HIDE DEF Goal
<1> QED
  BY <1>1, <1>2, <1>3, <1>4, <1>5, <1>6 DEF Next

(* The inbox is keyed, its applied rows are the prefixes that the versions   *)
(* of the projections name, each projection shows its events, and a          *)
(* transaction in progress has lost none of it.                              *)
THEOREM StoreHolds == Spec => []StoreInv
BY InitStore, NextStore, PTL DEF Spec

-----------------------------------------------------------------------------
(* An event that comes again. *)

(* Such a transaction never projects, since what waits cannot be projected: *)
(* all that it changes are the error rows, at the end of its drain.         *)
RepeatInv ==
    /\ GrownInv /\ Kept
    /\ txn # None /\ txn.msg \in db.inbox =>
         txn.db.errors = IF txn.stage = "drain" THEN db.errors
                         ELSE ErrorsAfter(db, txn.msg)

(* What the commit of such a transaction does. *)
Repeats ==
    txn # None /\ txn.msg \in db.inbox /\ db' # db =>
      /\ db' = [db EXCEPT !.errors = ErrorsAfter(db, txn.msg),
                          !.checkpoint = db'.checkpoint]
      /\ db'.checkpoint >= db.checkpoint

LEMMA InitRepeat == Init => RepeatInv
BY InitGrown, InitKept DEF Init, RepeatInv

(* A drain looks for the turn of an aggregate in the tables it has found.   *)
LEMMA SameErrorsAfter ==
    ASSUME NEW d, NEW e, NEW m, Same(d, e), d.errors = e.errors
    PROVE  Turn(d, m.agg) = Turn(e, m.agg) /\ ErrorsAfter(d, m) = ErrorsAfter(e, m)
<1>1. Turn(d, m.agg) = Turn(e, m.agg)
  BY DEF Turn, Same
<1> QED BY <1>1 DEF ErrorsAfter

LEMMA NextRepeat == RepeatInv /\ [Next]_vars => RepeatInv' /\ Repeats
<1> SUFFICES ASSUME RepeatInv, [Next]_vars PROVE RepeatInv' /\ Repeats
  OBVIOUS
<1>0. /\ GrownInv /\ GrownInv' /\ Kept /\ Typed /\ Typed'
      /\ \A a \in Aggregates : Reported(db, a)
  BY NextGrown, NextTyped DEF RepeatInv, GrownInv, ReportInv, KeyedInv
<1>00. txn # None /\ txn.msg \in db.inbox =>
         /\ Same(db, txn.db)
         /\ txn.db.errors = IF txn.stage = "drain" THEN db.errors
                            ELSE ErrorsAfter(db, txn.msg)
  BY DEF RepeatInv, GrownInv
<1> DEFINE Errors == txn' # None /\ txn'.msg \in db'.inbox =>
                       txn'.db.errors = IF txn'.stage = "drain" THEN db'.errors
                                        ELSE ErrorsAfter(db', txn'.msg)
           Goal == Kept' /\ Errors /\ Repeats
<1> SUFFICES Goal
  BY <1>0 DEF RepeatInv
<1>1. ASSUME NEW m \in Messages, NEW off \in Offsets, IngestRejected(m, off)
      PROVE  Goal
  <2>1. txn = None /\ db' = db /\ Kept' /\ txn'.msg = m
    BY <1>0, <1>1, BeginKept
  <2>2. m \notin db.inbox
    BY <1>0, <1>1 DEF IngestRejected, Typed
  <2> QED BY <2>1, <2>2 DEF Repeats
<1>2. ASSUME NEW m \in Messages, NEW off \in Offsets, IngestDuplicate(m, off)
      PROVE  Goal
  <2>1. txn = None /\ db' = db /\ Kept'
    BY <1>0, <1>2, BeginKept
  <2>2. txn'.db = db /\ txn'.stage = "drain"
    BY <1>0, <1>2, BeginStep
  <2> QED BY <2>1, <2>2 DEF Repeats
<1>3. ASSUME NEW m \in Messages, NEW off \in Offsets, IngestNew(m, off)
      PROVE  Goal
  <2>1. txn = None /\ db' = db /\ Kept' /\ txn'.msg = m
    BY <1>0, <1>3, BeginKept
  <2>2. m \notin db.inbox
    BY <1>3 DEF IngestNew
  <2> QED BY <2>1, <2>2 DEF Repeats
<1>4. CASE DrainApply
  <2>1. txn # None /\ db' = db /\ Kept' /\ txn'.msg = txn.msg
    BY <1>0, <1>4, DrainKept
  <2>2. txn.msg \notin db.inbox
    <3>1. SUFFICES ASSUME txn.msg \in db.inbox PROVE FALSE
      OBVIOUS
    <3>2. PICK m \in Turn(txn.db, txn.msg.agg) :
            Projectable(txn.db.sessions[m.agg], m)
      BY <1>4 DEF DrainApply
    <3>3. m.agg = txn.msg.agg /\ m.agg \in Aggregates
      BY <1>0, <2>1, TxnType
    <3>4. db.sessions = txn.db.sessions /\ m \in Turn(db, m.agg)
      BY <1>00, <2>1, <3>1, <3>3 DEF Same, Turn
    <3> QED BY <1>0, <3>2, <3>3, <3>4 DEF Reported
  <2> QED BY <2>1, <2>2 DEF Repeats
<1>5. CASE DrainFails \/ DrainEnds
  <2>1. txn # None /\ db' = db /\ Kept' /\ txn'.msg = txn.msg
    BY <1>0, <1>5, DrainKept
  <2>2. txn.stage = "drain" /\ txn'.stage = "commit"
    BY <1>0, <1>5, TxnStep DEF DrainFails, DrainEnds
  <2>3. ASSUME txn.msg \in db.inbox
        PROVE  txn'.db.errors = ErrorsAfter(db, txn.msg)
    <3>1. /\ ErrorsAfter(txn.db, txn.msg) = ErrorsAfter(db, txn.msg)
          /\ txn.db.errors = db.errors
      BY <1>00, <2>1, <2>2, <2>3, SameErrorsAfter
    <3>2. CASE DrainFails
      <4>1. Turn(txn.db, txn.msg.agg) # {}
        BY <3>2 DEF DrainFails
      <4>2. txn'.db.errors = txn.db.errors \cup {txn.msg}
        BY <1>0, <3>2, TxnStep
      <4> QED BY <3>1, <4>1, <4>2 DEF ErrorsAfter
    <3>3. CASE DrainEnds
      <4>1. Turn(txn.db, txn.msg.agg) = {}
        BY <3>3 DEF DrainEnds
      <4>2. txn'.db.errors = txn.db.errors \ {txn.msg}
        BY <1>0, <3>3, TxnStep
      <4> QED BY <3>1, <4>1, <4>2 DEF ErrorsAfter
    <3> QED BY <1>5, <3>2, <3>3
  <2> QED BY <2>1, <2>2, <2>3 DEF Repeats
<1>6. CASE Commit
  <2>1. /\ txn # None /\ txn' = None /\ Kept'
        /\ db'.checkpoint = IF db.checkpoint > txn.offset + 1
                            THEN db.checkpoint ELSE txn.offset + 1
        /\ db'.missing = db.missing
    BY <1>0, <1>6, CommitKept
  <2>2. Same(txn.db, db') /\ db'.errors = txn.db.errors /\ txn.stage = "commit"
    BY <1>0, <1>6, TxnStep DEF Commit
  <2>3. ASSUME txn.msg \in db.inbox
        PROVE  /\ db' = [db EXCEPT !.errors = ErrorsAfter(db, txn.msg),
                                   !.checkpoint = db'.checkpoint]
               /\ db'.checkpoint >= db.checkpoint
    <3>1. /\ db'.sessions = db.sessions /\ db'.inbox = db.inbox
          /\ db'.applied = db.applied /\ db'.errors = ErrorsAfter(db, txn.msg)
      BY <1>00, <2>1, <2>2, <2>3 DEF Same
    <3>2. db \in Database /\ db' \in Database
      BY <1>0 DEF Typed, TypeOK
    <3>3. db.checkpoint \in Nat /\ db'.checkpoint \in Nat /\ txn.offset \in Nat
      BY <1>0, <2>1, <3>2, TxnType DEF Database, Transaction
    <3>4. db'.checkpoint >= db.checkpoint
      BY <2>1, <3>3
    <3> QED BY <2>1, <3>1, <3>2, <3>4 DEF Database
  <2> QED BY <2>1, <2>3 DEF Repeats
<1>7. CASE MarkHistoryMissing
  <2>1. txn = None /\ txn' = None
    BY <1>0, <1>7, MissingKept
  <2> QED BY <2>1 DEF Kept, Repeats
<1>8. CASE Crash
  BY <1>8 DEF Crash, Kept, Repeats
<1>9. CASE UNCHANGED vars
  BY <1>0, <1>00, <1>9 DEF vars, Kept, Repeats
<1> HIDE DEF Goal
<1> QED
  BY <1>1, <1>2, <1>3, <1>4, <1>5, <1>6, <1>7, <1>8, <1>9 DEF Next

(* A delivery of an event that the inbox holds changes neither projections  *)
(* nor inbox nor marks; it deletes its own earlier error, or, if its        *)
(* aggregate is stuck, leaves one (the duplicate branch of ingest and the   *)
(* drain that follows).                                                     *)
THEOREM RedeliveryReports == Spec => RedeliveryOnlyReports
<1>1. RepeatInv /\ [Next]_vars => RepeatInv'
  BY NextRepeat
<1>2. RepeatInv /\ [Next]_vars =>
        [txn # None /\ txn.msg \in db.inbox /\ db' # db =>
           /\ db' = [db EXCEPT !.errors = ErrorsAfter(db, txn.msg),
                               !.checkpoint = db'.checkpoint]
           /\ db'.checkpoint >= db.checkpoint]_vars
  BY NextRepeat DEF Repeats
<1> QED BY <1>1, <1>2, InitRepeat, PTL DEF Spec, RedeliveryOnlyReports

-----------------------------------------------------------------------------
(* Recursion, and the replay of the inbox. *)

(* Induction, by the least number that is not in the set: the library's own *)
(* theorem takes an operator, which the provers cannot be given.            *)
LEMMA NatInductive ==
    ASSUME NEW S, 0 \in S, \A n \in Nat : n \in S => n + 1 \in S
    PROVE  \A n \in Nat : n \in S
<1> DEFINE R == OpToRel(<, Nat)
           T == Nat \ S
<1>1. IsWellFoundedOn(R, Nat)
  BY NatLessThanWellFounded
<1>2. \A x, y \in Nat : x < y => <<x, y>> \in R
  BY DEF OpToRel
<1>3. SUFFICES ASSUME T # {} PROVE FALSE
  OBVIOUS
<1> HIDE DEF R
<1>4. PICK x \in T : \A y \in T : <<y, x>> \notin R
  <2>1. T \subseteq Nat
    OBVIOUS
  <2> HIDE DEF T
  <2> QED BY <1>1, <1>3, <2>1, WFMin
<1>5. x \in Nat /\ x # 0
  BY <1>4
<1>6. x - 1 \in Nat /\ x - 1 < x /\ (x - 1) + 1 = x
  BY <1>5
<1>7. x - 1 \notin S
  BY <1>4, <1>5, <1>6
<1> QED
  BY <1>4, <1>5, <1>6, <1>7, <1>2

(* g begins with x0 and goes on by G, up to n. *)
Runs(g, n, x0, G) == g[0] = x0 /\ \A i \in 0..(n - 1) : g[i + 1] = G[<<i, g[i]>>]

(* f begins with x0 and goes on by G. *)
Follows(f, x0, G) == f[0] = x0 /\ \A n \in Nat : f[n + 1] = G[<<n, f[n]>>]

(* There is a function that is defined by recursion. *)
LEMMA PrimRec ==
    ASSUME NEW T, NEW x0 \in T, NEW G \in [Nat \X T -> T]
    PROVE  \E f \in [Nat -> T] : Follows(f, x0, G)
<1> DEFINE A(n) == {g \in [0..n -> T] : Runs(g, n, x0, G)}
<1>1. \A n \in Nat : A(n) # {}
  <2> DEFINE S == {n \in Nat : A(n) # {}}
  <2>1. 0 \in S
    <3>1. [i \in 0..0 |-> x0] \in A(0)
      BY DEF Runs
    <3> QED BY <3>1
  <2>2. ASSUME NEW n \in Nat, n \in S PROVE n + 1 \in S
    <3>1. PICK g \in [0..n -> T] : Runs(g, n, x0, G)
      BY <2>2
    <3> DEFINE h == [i \in 0..(n + 1) |-> IF i = n + 1 THEN G[<<n, g[n]>>] ELSE g[i]]
    <3>2. G[<<n, g[n]>>] \in T
      OBVIOUS
    <3>3. h \in [0..(n + 1) -> T]
      BY <3>2
    <3>4. Runs(h, n + 1, x0, G)
      <4>1. h[0] = x0
        BY <3>1 DEF Runs
      <4>2. ASSUME NEW i \in 0..n PROVE h[i + 1] = G[<<i, h[i]>>]
        <5>1. CASE i = n
          <6>1. n \in 0..(n + 1) /\ n + 1 \in 0..(n + 1) /\ n # n + 1
            OBVIOUS
          <6>2. h[n] = g[n] /\ h[n + 1] = G[<<n, g[n]>>]
            BY <6>1
          <6> HIDE DEF h
          <6> QED BY <5>1, <6>2
        <5>2. CASE i # n
          <6>1. i \in 0..(n - 1) /\ i + 1 # n + 1 /\ i # n + 1
            BY <5>2
          <6> QED BY <3>1, <6>1 DEF Runs
        <5> QED BY <5>1, <5>2
      <4>3. (n + 1) - 1 = n
        OBVIOUS
      <4> HIDE DEF h
      <4> QED BY <4>1, <4>2, <4>3 DEF Runs
    <3> QED BY <3>3, <3>4
  <2> HIDE DEF S
  <2>3. \A n \in Nat : n \in S
    BY <2>1, <2>2, NatInductive
  <2> QED BY <2>3 DEF S
<1>2. ASSUME NEW n \in Nat, NEW m \in Nat, NEW g \in A(n), NEW h \in A(m)
      PROVE  \A i \in Nat : i <= n /\ i <= m => g[i] = h[i]
  <2> DEFINE S == {i \in Nat : i <= n /\ i <= m => g[i] = h[i]}
  <2>0. Runs(g, n, x0, G) /\ Runs(h, m, x0, G)
    OBVIOUS
  <2>1. 0 \in S
    BY <2>0 DEF Runs
  <2>2. ASSUME NEW i \in Nat, i \in S PROVE i + 1 \in S
    <3>1. SUFFICES ASSUME i + 1 <= n, i + 1 <= m PROVE g[i + 1] = h[i + 1]
      OBVIOUS
    <3>2. i \in 0..(n - 1) /\ i \in 0..(m - 1) /\ g[i] = h[i]
      BY <2>2, <3>1
    <3> QED BY <2>0, <3>2 DEF Runs
  <2> HIDE DEF S
  <2>3. \A i \in Nat : i \in S
    BY <2>1, <2>2, NatInductive
  <2> QED BY <2>3 DEF S
<1> DEFINE B(n) == CHOOSE g : g \in A(n)
           f == [n \in Nat |-> B(n)[n]]
<1>3. \A n \in Nat : B(n) \in A(n)
  BY <1>1
<1> HIDE DEF B
<1>4. f \in [Nat -> T]
  BY <1>3
<1>5. f[0] = x0
  BY <1>3 DEF Runs
<1>6. ASSUME NEW n \in Nat PROVE f[n + 1] = G[<<n, f[n]>>]
  <2>1. B(n + 1) \in A(n + 1) /\ B(n) \in A(n) /\ n + 1 \in Nat
    BY <1>3
  <2>2. B(n + 1)[n] = B(n)[n]
    BY <1>2, <2>1
  <2>3. n \in 0..((n + 1) - 1)
    OBVIOUS
  <2>4. B(n + 1)[n + 1] = G[<<n, B(n + 1)[n]>>]
    BY <2>1, <2>3 DEF Runs
  <2> QED BY <2>1, <2>2, <2>4
<1> HIDE DEF f
<1> QED BY <1>4, <1>5, <1>6 DEF Follows

(* The parts of Replay. *)
NextOf(a, v) == {m \in db.inbox : m.agg = a /\ m.version = v}

Replayed(a, s, v) ==
    IF /\ s.version = v - 1
       /\ NextOf(a, v) # {}
       /\ Projectable(s, CHOOSE m \in NextOf(a, v) : TRUE)
    THEN Projected(s, CHOOSE m \in NextOf(a, v) : TRUE)
    ELSE s

ReplayFrom(a) ==
    CHOOSE f : f = [v \in Nat |-> IF v = 0 THEN Absent
                                  ELSE Replayed(a, f[v - 1], v)]

LEMMA ReplayIs == ASSUME NEW a PROVE Replay(a) = ReplayFrom(a)[Cardinality(db.inbox)]
BY DEF Replay, ReplayFrom, Replayed, NextOf

(* The recursion of Replay has a solution, so that its equations hold. *)
LEMMA ReplayRuns ==
    ASSUME Typed, NEW a \in Aggregates
    PROVE  /\ ReplayFrom(a)[0] = Absent
           /\ \A v \in Nat :
                ReplayFrom(a)[v + 1] = Replayed(a, ReplayFrom(a)[v], v + 1)
<1> DEFINE G == [q \in Nat \X Projection |-> Replayed(a, q[2], q[1] + 1)]
           Meets(f) == f = [v \in Nat |-> IF v = 0 THEN Absent
                                          ELSE Replayed(a, f[v - 1], v)]
<1>1. ASSUME NEW s \in Projection, NEW v PROVE Replayed(a, s, v) \in Projection
  <2>1. CASE NextOf(a, v) # {}
    <3> DEFINE m == CHOOSE m \in NextOf(a, v) : TRUE
    <3>1. m \in NextOf(a, v)
      BY <2>1
    <3>2. m \in Messages /\ Valid(m)
      BY <3>1 DEF NextOf, Typed, TypeOK, Database
    <3> HIDE DEF m
    <3>3. Projected(s, m) \in Projection
      BY <3>2, ProjectedType
    <3> QED BY <3>3 DEF Replayed, m
  <2>2. CASE NextOf(a, v) = {}
    BY <2>2 DEF Replayed
  <2> QED BY <2>1, <2>2
<1>2. G \in [Nat \X Projection -> Projection]
  BY <1>1
<1>3. PICK f \in [Nat -> Projection] :
         f[0] = Absent /\ \A n \in Nat : f[n + 1] = G[<<n, f[n]>>]
  <2> HIDE DEF G
  <2>1. \E f \in [Nat -> Projection] : Follows(f, Absent, G)
    BY <1>2, AbsentType, PrimRec
  <2> QED BY <2>1 DEF Follows
<1>4. \A n \in Nat : f[n + 1] = Replayed(a, f[n], n + 1)
  <2> SUFFICES ASSUME NEW n \in Nat PROVE f[n + 1] = Replayed(a, f[n], n + 1)
    OBVIOUS
  <2>1. <<n, f[n]>> \in Nat \X Projection
    OBVIOUS
  <2>2. G[<<n, f[n]>>] = Replayed(a, f[n], n + 1)
    BY <2>1
  <2> QED BY <1>3, <2>2
<1>5. Meets(f)
  <2>1. ASSUME NEW v \in Nat
        PROVE  f[v] = IF v = 0 THEN Absent ELSE Replayed(a, f[v - 1], v)
    <3>1. CASE v = 0
      BY <1>3, <3>1
    <3>2. CASE v # 0
      <4>1. v - 1 \in Nat /\ (v - 1) + 1 = v
        BY <3>2
      <4>2. f[(v - 1) + 1] = Replayed(a, f[v - 1], (v - 1) + 1)
        BY <1>4, <4>1
      <4> QED BY <3>2, <4>1, <4>2
    <3> QED BY <3>1, <3>2
  <2> QED BY <1>3, <2>1
<1>6. Meets(ReplayFrom(a))
  <2>1. \E g : Meets(g)
    BY <1>5
  <2>2. Meets(CHOOSE g : Meets(g))
    BY <2>1
  <2> QED BY <2>2 DEF ReplayFrom
<1>7. ASSUME NEW v \in Nat
      PROVE ReplayFrom(a)[v + 1] = Replayed(a, ReplayFrom(a)[v], v + 1)
  <2>1. v + 1 \in Nat /\ v + 1 # 0 /\ (v + 1) - 1 = v
    OBVIOUS
  <2> QED BY <1>6, <2>1
<1>8. ReplayFrom(a)[0] = Absent
  BY <1>6
<1> QED BY <1>7, <1>8

(* The replay passes through the projections that the store went through,   *)
(* and then stays: the next event is not there or cannot be projected.      *)
LEMMA ReplayEnds ==
    ASSUME KeyedInv, NEW a \in Aggregates, Traced(db, a), Reported(db, a)
    PROVE  \A k \in Nat : ReplayFrom(a)[db.sessions[a].version + k] = db.sessions[a]
<1> DEFINE s == db.sessions[a]
           n == s.version
           f == ReplayFrom(a)
<1>1. /\ f[0] = Absent /\ \A v \in Nat : f[v + 1] = Replayed(a, f[v], v + 1)
  BY ReplayRuns DEF KeyedInv
<1>2. s \in Projection /\ n \in Nat
  BY DEF KeyedInv, Typed, TypeOK, Database, Projection
<1>3. PICK h \in [0..n -> Projection] : Leads(h, s, Of(db, a))
  BY DEF Traced
<1>4. ASSUME NEW m \in db.inbox, m.agg = a
      PROVE  NextOf(a, m.version) = {m}
  BY <1>4 DEF NextOf, KeyedInv, Keyed
<1>5. \A m \in NextOf(a, n + 1) : ~Projectable(s, m)
  BY DEF NextOf, Reported, Turn
<1>6. \A m \in Of(db, a) : m \in db.inbox /\ m.agg = a
  BY DEF Of, KeyedInv, Keyed
<1> HIDE DEF f, s, n
<1>7. \A v \in Nat : v \in {w \in Nat : w <= n => f[w] = h[w]}
  <2> DEFINE S == {w \in Nat : w <= n => f[w] = h[w]}
  <2>1. 0 \in S
    BY <1>1, <1>3 DEF Leads
  <2>2. ASSUME NEW v \in Nat, v \in S PROVE v + 1 \in S
    <3> SUFFICES ASSUME v + 1 <= n PROVE f[v + 1] = h[v + 1]
      OBVIOUS
    <3>1. v + 1 \in 1..s.version /\ (v + 1) - 1 = v /\ f[v] = h[v]
      BY <1>2, <2>2 DEF n
    <3>2. PICK m \in Of(db, a) : /\ m.version = v + 1 /\ Projectable(h[v], m)
                                /\ h[v + 1] = Projected(h[v], m)
      BY <1>3, <3>1 DEF Leads
    <3>3. h[v].version = v
      BY <1>3, <3>1 DEF Leads
    <3>4. NextOf(a, v + 1) = {m}
      BY <1>4, <1>6, <3>2
    <3>5. (CHOOSE k \in NextOf(a, v + 1) : TRUE) = m
      BY <3>4
    <3>6. Replayed(a, h[v], v + 1) = Projected(h[v], m)
      BY <3>1, <3>2, <3>3, <3>4, <3>5 DEF Replayed
    <3> QED BY <1>1, <3>1, <3>2, <3>6
  <2> HIDE DEF S
  <2> QED BY <2>1, <2>2, NatInductive DEF S
<1>8. f[n] = s
  BY <1>2, <1>3, <1>7 DEF Leads, n
<1>9. \A k \in Nat : k \in {j \in Nat : f[n + j] = s}
  <2> DEFINE S == {j \in Nat : f[n + j] = s}
  <2>1. 0 \in S
    BY <1>2, <1>8
  <2>2. ASSUME NEW k \in Nat, k \in S PROVE k + 1 \in S
    <3>1. n + k \in Nat /\ n + (k + 1) = (n + k) + 1 /\ f[n + k] = s
      BY <1>2, <2>2
    <3>2. Replayed(a, s, (n + k) + 1) = s
      <4>1. CASE k = 0
        <5>1. NextOf(a, n + 1) # {} =>
                ~Projectable(s, CHOOSE m \in NextOf(a, n + 1) : TRUE)
          BY <1>5
        <5>2. (n + k) + 1 = n + 1
          BY <1>2, <4>1
        <5> QED BY <5>1, <5>2 DEF Replayed
      <4>2. CASE k # 0
        <5>1. s.version # ((n + k) + 1) - 1
          BY <1>2, <4>2 DEF n
        <5> QED BY <5>1 DEF Replayed
      <4> QED BY <4>1, <4>2
    <3>3. f[(n + k) + 1] = s
      BY <1>1, <3>1, <3>2
    <3> QED BY <3>1, <3>3
  <2> HIDE DEF S
  <2> QED BY <2>1, <2>2, NatInductive DEF S
<1> QED BY <1>9 DEF f, n, s

(* There is an event in the inbox for each version that is applied. *)
LEMMA InboxIsLargeEnough ==
    ASSUME KeyedInv, IsFiniteSet(db.inbox), NEW a \in Aggregates
    PROVE  /\ Cardinality(db.inbox) \in Nat /\ db.sessions[a].version \in Nat
           /\ db.sessions[a].version <= Cardinality(db.inbox)
<1> DEFINE n == db.sessions[a].version
           e == [v \in 1..n |-> CHOOSE m \in Of(db, a) : m.version = v]
<1>1. n \in Nat
  BY DEF KeyedInv, Typed, TypeOK, Database, Projection
<1>2. ASSUME NEW v \in 1..n PROVE \E m \in Of(db, a) : m.version = v
  BY DEF KeyedInv, Prefix, Of
<1>3. \A v \in 1..n : e[v] \in Of(db, a) /\ e[v].version = v
  BY <1>2
<1>4. Of(db, a) \subseteq db.inbox
  BY DEF Of, KeyedInv, Keyed
<1> HIDE DEF e, n
<1>5. e \in [1..n -> db.inbox]
  <2>1. e = [v \in 1..n |-> e[v]]
    BY DEF e
  <2> QED BY <1>3, <1>4, <2>1
<1>6. e \in Injection(1..n, db.inbox)
  <2>1. \A u, v \in 1..n : e[u] = e[v] => u = v
    BY <1>3
  <2> QED BY <1>5, <2>1 DEF Injection, IsInjective
<1>7. Cardinality(1..n) <= Cardinality(db.inbox)
  BY <1>6, FS_Injection
<1>8. Cardinality(1..n) = n
  BY <1>1, FS_Interval
<1> QED BY <1>1, <1>7, <1>8, FS_CardinalityType DEF n

(* However often and in whatever order events have been delivered, and       *)
(* wherever the store has crashed, the projection it keeps is the one that   *)
(* its inbox gives when it is replayed from nothing in the order of versions.*)
THEOREM ReplayGivesProjection == Spec => []ProjectionIsReplay
<1>1. ReportInv /\ FaithfulInv => ProjectionIsReplay
  <2> SUFFICES ASSUME ReportInv, FaithfulInv, NEW a \in Aggregates
               PROVE  db.sessions[a] = Replay(a)
    BY DEF ProjectionIsReplay
  <2>1. KeyedInv /\ Reported(db, a) /\ Traced(db, a) /\ IsFiniteSet(db.inbox)
    BY DEF ReportInv, FaithfulInv, Faithful
  <2> DEFINE n == db.sessions[a].version
             c == Cardinality(db.inbox)
  <2>2. c \in Nat /\ n \in Nat /\ n <= c
    BY <2>1, InboxIsLargeEnough
  <2>3. c - n \in Nat /\ n + (c - n) = c
    BY <2>2
  <2>4. \A k \in Nat : ReplayFrom(a)[n + k] = db.sessions[a]
    BY <2>1, ReplayEnds
  <2>5. ReplayFrom(a)[n + (c - n)] = db.sessions[a]
    BY <2>3, <2>4
  <2> QED BY <2>3, <2>5, ReplayIs
<1>2. ReportInv => KeyedInv
  BY DEF ReportInv
<1> QED
  BY <1>1, <1>2, InitReported, NextReported, InitFaithful, NextFaithful, PTL DEF Spec

-----------------------------------------------------------------------------
(* The indicators. *)

(* A sum of nothing but zeros. *)
LEMMA SumOfZeros ==
    ASSUME NEW S, IsFiniteSet(S), NEW fun, \A x \in S : fun[x] = 0
    PROVE  SumFunctionOnSet(fun, S) = 0
<1> DEFINE pick(s) == CHOOSE x \in s : TRUE
           Eq(iter) == iter = [s \in SUBSET S |->
                          IF s = {} THEN 0
                          ELSE fun[pick(s)] + iter[s \ {pick(s)}]]
           sum == CHOOSE iter : Eq(iter)
<1>1. SumFunctionOnSet(fun, S) = sum[S]
  BY DEF SumFunctionOnSet, FoldFunctionOnSet, MapThenFoldSet
<1>2. \A s \in SUBSET S : s # {} => pick(s) \in s /\ pick(s) \in S
  OBVIOUS
<1> HIDE DEF pick
<1>3. Eq([s \in SUBSET S |-> 0])
  <2> DEFINE z == [s \in SUBSET S |-> 0]
  <2>1. ASSUME NEW s \in SUBSET S
        PROVE  z[s] = IF s = {} THEN 0 ELSE fun[pick(s)] + z[s \ {pick(s)}]
    <3>1. CASE s = {}
      BY <3>1
    <3>2. CASE s # {}
      <4>1. s \ {pick(s)} \in SUBSET S /\ fun[pick(s)] = 0
        BY <1>2, <3>2
      <4> QED BY <3>2, <4>1
    <3> QED BY <3>1, <3>2
  <2> QED BY <2>1
<1>4. Eq(sum)
  BY <1>3
<1> HIDE DEF sum
<1> DEFINE Bad == {s \in SUBSET S : sum[s] # 0}
<1>5. SUFFICES ASSUME Bad # {} PROVE FALSE
  BY <1>1
<1>6. FiniteSubsetsOf(S) = SUBSET S
  BY FS_FiniteSubsetsOfFinite
<1>7. IsWellFoundedOn(StrictSubsetOrdering(S), SUBSET S)
  BY <1>6, FS_StrictSubsetOrderingWellFounded
<1>8. PICK s \in Bad : \A t \in Bad : <<t, s>> \notin StrictSubsetOrdering(S)
  <2>1. Bad \subseteq SUBSET S
    OBVIOUS
  <2> HIDE DEF Bad
  <2> QED BY <1>5, <1>7, <2>1, WFMin
<1>9. s # {}
  BY <1>4, <1>8
<1> DEFINE t == s \ {pick(s)}
<1>10. t \in SUBSET S /\ <<t, s>> \in StrictSubsetOrdering(S)
  BY <1>2, <1>8, <1>9 DEF StrictSubsetOrdering
<1>11. sum[t] = 0
  BY <1>8, <1>10
<1>12. sum[s] = fun[pick(s)] + sum[t]
  BY <1>4, <1>8, <1>9
<1> QED BY <1>2, <1>8, <1>9, <1>11, <1>12

(* A projection's status and stored deadline, by which calculate goes, say   *)
(* the same as its closedAt and createdAt, by which the oracle goes.         *)
LEMMA ProjectionTimes ==
    ASSUME Typed, Keyed(db), NEW a \in Aggregates, Shown(db, a)
    PROVE  LET s == db.sessions[a]
           IN  /\ s \in Projection
               /\ s.version = 0 => s = Absent
               /\ s.status = "COMPLETED" <=> s.version > 0 /\ s.closedAt # None
               /\ s.closedAt # None => s.closedAt \in Nat
               /\ s.status = "OPEN" => s.version > 0
               /\ s.version > 0 => s.deadline = s.createdAt + Deadline
               /\ s.status = "COMPLETED" => \E m \in db.inbox : m.agg = a
<1> DEFINE s == db.sessions[a]
<1>1. s \in Projection /\ s.version \in Nat
  BY DEF Typed, TypeOK, Database, Projection
<1>2. \A m \in Of(db, a) : m \in db.inbox /\ m.agg = a /\ m.at \in Nat
  BY MessageType DEF Of, Keyed, Typed, TypeOK, Database, Message
<1>3. CASE s.version = 0
  <2>1. s = Absent
    BY <1>3 DEF Shown
  <2> QED BY <1>1, <1>3, <2>1 DEF Absent
<1>4. CASE s.version # 0
  <2>1. Shows(s, Of(db, a))
    BY <1>4 DEF Shown
  <2>2. s.version > 0 /\ s.closedAt \in Nat \cup {None}
    BY <1>1, <1>4 DEF Projection
  <2> HIDE DEF s
  <2>3. CASE s.status = "COMPLETED"
    <3>1. PICK m \in Of(db, a) : m.kind = "SplitCompleted"
      BY <2>1, <2>3 DEF Shows
    <3>2. s.closedAt = m.at
      BY <2>1, <3>1 DEF Shows
    <3>3. s.closedAt # None /\ s.closedAt \in Nat /\ m \in db.inbox /\ m.agg = a
      BY <1>2, <3>1, <3>2, NoneAssumption
    <3>4. s.deadline = s.createdAt + Deadline /\ s.status # "OPEN"
      BY <2>1, <2>3 DEF Shows
    <3> QED BY <1>1, <2>2, <2>3, <3>3, <3>4 DEF s
  <2>4. CASE s.status # "COMPLETED"
    <3>1. s.status = "OPEN" /\ s.closedAt = None
      BY <2>1, <2>4 DEF Shows
    <3> QED BY <1>1, <2>1, <2>2, <3>1 DEF Shows, s
  <2> QED BY <2>3, <2>4
<1> QED BY <1>3, <1>4

(* The two definitions of a valid close differ in their words only. *)
LEMMA SameValid ==
    ASSUME NEW s \in Projection
    PROVE  ValidClose(s) <=> EsCierreValido(s)
<1>1. \A p \in AddedTo(s) : s.parts[p].share \in Nat
  BY DEF Projection, Part, AddedTo
<1> QED BY <1>1 DEF ValidClose, EsCierreValido, Shares

(* A valid close lacks nothing to its total. *)
LEMMA NothingLacks ==
    ASSUME NEW a \in Aggregates, db.sessions[a] \in Projection,
           ValidClose(db.sessions[a])
    PROVE  Gap[a] = 0
<1> DEFINE s == db.sessions[a]
           A == {p \in AddedTo(s) : s.parts[p].authorized}
<1>1. s.total \in Nat
  BY DEF Projection
<1>2. A = AddedTo(s)
  BY DEF ValidClose
<1>3. Authorized(s) = s.total
  <2>1. Authorized(s) = Shares(s, A)
    BY DEF Authorized
  <2>2. Shares(s, AddedTo(s)) = s.total
    BY DEF ValidClose
  <2> HIDE DEF A, s
  <2> QED BY <1>2, <2>1, <2>2
<1>4. Gap[a] = LET d == s.total - Authorized(s) IN IF d < 0 THEN -d ELSE d
  BY DEF Gap
<1> HIDE DEF s
<1> QED BY <1>1, <1>3, <1>4

(* The indicators of calculate are those of the independent oracle, at every *)
(* time and whatever has been delivered; and where every recent close is     *)
(* valid nothing is lacking.                                                 *)
THEOREM IndicatorsAgree == Spec => []KpisAgree
<1>1. KeyedInv /\ FaithfulInv => KpisAgree
  <2> SUFFICES ASSUME KeyedInv, FaithfulInv, NEW now \in 0..MaxNow
               PROVE  LET k == Calculate(now)
                      IN  /\ k = [k1 |-> BK1(now), k2 |-> BK2(now), k3 |-> BK3(now)]
                          /\ k.k1 # None /\ k.k1[1] = k.k1[2] =>
                               \A c \in DOMAIN k.k2 : k.k2[c] = 0
    BY DEF KpisAgree
  <2>0. now \in Nat /\ Window \in Nat /\ Deadline \in Nat
    BY WindowAssumption, DeadlineAssumption
  <2>1. ASSUME NEW a \in Aggregates
        PROVE  LET s == db.sessions[a]
               IN  /\ s \in Projection
                   /\ s.version = 0 => s = Absent
                   /\ s.status = "COMPLETED" <=> s.version > 0 /\ s.closedAt # None
                   /\ s.closedAt # None => s.closedAt \in Nat
                   /\ s.status = "OPEN" => s.version > 0
                   /\ s.version > 0 => s.deadline = s.createdAt + Deadline
                   /\ s.status = "COMPLETED" => \E m \in db.inbox : m.agg = a
    BY ProjectionTimes DEF KeyedInv, FaithfulInv, Faithful
  <2>2. Closed(now) = Cohorte(now)
    BY <2>0, <2>1 DEF Closed, Cohorte, EnVentana, Sesiones
  <2>3. Stale(now) = {a \in Sesiones : db.sessions[a].status = "OPEN"
                                  /\ now - db.sessions[a].createdAt > Deadline}
    <3>1. \A a \in Aggregates : db.sessions[a].createdAt \in Nat
      BY <2>1 DEF Projection
    <3> QED BY <2>0, <2>1, <3>1 DEF Stale, Sesiones
  <2>4. \A a \in Aggregates :
          ValidClose(db.sessions[a]) <=> EsCierreValido(db.sessions[a])
    BY <2>1, SameValid
  <2> DEFINE V == {a \in Closed(now) : ValidClose(db.sessions[a])}
  <2>5. V = {a \in Cohorte(now) : EsCierreValido(db.sessions[a])}
    <3>1. Closed(now) \subseteq Aggregates
      BY DEF Closed
    <3> QED BY <2>2, <2>4, <3>1
  <2>6. Calculate(now) = [k1 |-> BK1(now), k2 |-> BK2(now), k3 |-> BK3(now)]
    <3>1. BK2(now) = ByCurrency(Closed(now), Gap)
      BY <2>2 DEF BK2
    <3>2. BK3(now) = ByCurrency(Stale(now), AuthorizedOf)
      BY <2>3 DEF BK3
    <3>3. BK1(now) = IF Closed(now) = {} THEN None
                     ELSE <<Cardinality(V), Cardinality(Closed(now))>>
      BY <2>2, <2>5 DEF BK1
    <3> QED BY <3>1, <3>2, <3>3 DEF Calculate
  <2>7. ASSUME Calculate(now).k1 # None,
               Calculate(now).k1[1] = Calculate(now).k1[2],
               NEW c \in DOMAIN Calculate(now).k2
        PROVE  Calculate(now).k2[c] = 0
    <3> DEFINE C == Closed(now)
               S == {a \in C : db.sessions[a].currency = c}
    <3>1. IsFiniteSet(C)
      <4> DEFINE I == {m.agg : m \in db.inbox}
                 f == [m \in db.inbox |-> m.agg]
      <4>1. IsFiniteSet(I)
        <5>1. f \in Surjection(db.inbox, I)
          BY DEF Surjection
        <5>2. IsFiniteSet(db.inbox)
          BY DEF FaithfulInv, Faithful
        <5> HIDE DEF f, I
        <5> QED BY <5>1, <5>2, FS_Surjection
      <4>2. C \in SUBSET I
        BY <2>1 DEF Closed
      <4> HIDE DEF I, C
      <4> QED BY <4>1, <4>2, FS_Subset
    <3>2. C # {} /\ Cardinality(V) = Cardinality(C)
      <4>1. Calculate(now).k1 = IF C = {} THEN None ELSE <<Cardinality(V), Cardinality(C)>>
        BY DEF Calculate
      <4> HIDE DEF C, V
      <4> QED BY <2>7, <4>1
    <3>3. C = V
      <4>1. V \in SUBSET C
        OBVIOUS
      <4> HIDE DEF C, V
      <4> QED BY <3>1, <3>2, <4>1, FS_Subset
    <3>4. \A a \in C : a \in Aggregates /\ Gap[a] = 0
      <4>1. \A a \in C : a \in Aggregates /\ ValidClose(db.sessions[a])
        BY <3>3 DEF Closed
      <4> HIDE DEF C
      <4> QED BY <2>1, <4>1, NothingLacks
    <3>5. IsFiniteSet(S)
      <4>1. S \in SUBSET C
        OBVIOUS
      <4> HIDE DEF C, S
      <4> QED BY <3>1, <4>1, FS_Subset
    <3>6. SumFunctionOnSet(Gap, S) = 0
      <4>1. \A a \in S : Gap[a] = 0
        BY <3>4
      <4> HIDE DEF S
      <4> QED BY <3>5, <4>1, SumOfZeros
    <3>7. Calculate(now).k2 = [d \in {db.sessions[a].currency : a \in C} |->
             SumFunctionOnSet(Gap, {a \in C : db.sessions[a].currency = d})]
      BY DEF Calculate, ByCurrency
    <3> HIDE DEF C
    <3> QED BY <2>7, <3>6, <3>7
  <2> HIDE DEF V
  <2> QED BY <2>6, <2>7
<1> QED
  BY <1>1, InitKeyed, NextKeyed, InitFaithful, NextFaithful, PTL DEF Spec

=============================================================================
