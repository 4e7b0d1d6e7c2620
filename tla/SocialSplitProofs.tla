------------------------- MODULE SocialSplitProofs -------------------------
(* Theorems about SocialSplit, for all values of its constants. *)
EXTENDS SocialSplit, TLAPS

-----------------------------------------------------------------------------
(* The request that arrives is one of Requests. *)

LEMMA ArrivingIsNew == \A r \in Arriving : r \in Requests \ used
<1>1. CASE Requests \subseteq used
  BY <1>1 DEF Arriving
<1>2. CASE ~(Requests \subseteq used)
  <2>1. \E r \in Requests : r \notin used
    BY <1>2
  <2>2. (CHOOSE r \in Requests : r \notin used) \in Requests \ used
    BY <2>1
  <2> QED BY <1>2, <2>2 DEF Arriving
<1> QED BY <1>1, <1>2

LEMMA StoredIsNat == ASSUME NEW a \in Amounts PROVE a \in Nat /\ Stored(a) \in Nat
BY AmountsAssumption DEF Stored

-----------------------------------------------------------------------------

LEMMA InitType == Init => TypeOK
BY DEF Init, TypeOK, Row, ParticipantRow

(* The service's variables keep their types. *)
LEMMA NextType == TypeOK /\ [Next]_vars => TypeOK'
<1> SUFFICES ASSUME TypeOK, [Next]_vars PROVE TypeOK'
  OBVIOUS
<1> USE DEF TypeOK
<1>1. ASSUME NEW r \in Arriving, NEW s \in Sessions, NEW total \in Amounts,
             Create(r, s, total)
      PROVE  TypeOK'
  <2>1. r \in Requests
    BY ArrivingIsNew
  <2>2. [status |-> "OPEN", version |-> 1, total |-> Stored(total),
         closedAt |-> None] \in Row
    BY StoredIsNat DEF Row
  <2>3. [id |-> r, kind |-> "SplitCreated", session |-> s, version |-> 1,
         at |-> now, pid |-> None, amount |-> total] \in Event
    BY <2>1, StoredIsNat DEF Event, Kinds
  <2> QED BY <1>1, <2>1, <2>2, <2>3 DEF Create, Store
<1>2. ASSUME NEW r \in Arriving, NEW kind \in Kinds, NEW s \in Sessions,
             NEW row \in Row, NEW pid \in Participants \cup {None},
             NEW amount \in Nat, Load(r, kind, s, row, pid, amount),
             kind = "SplitCompleted" => row.closedAt # None
      PROVE  TypeOK'
  <2>1. r \in Requests
    BY ArrivingIsNew
  <2>2. [row EXCEPT !.version = @ + 1] \in Row
    BY DEF Row
  <2> DEFINE t == [id |-> r, kind |-> kind, session |-> s,
                   row |-> [row EXCEPT !.version = @ + 1],
                   pid |-> pid, amount |-> amount]
  <2>3. t \in Tx /\ (t.kind = "SplitCompleted" => t.row.closedAt # None)
    BY <1>2, <2>1, <2>2 DEF Tx, Row
  <2>4. active' = active \cup {t} /\ used' = used \cup {r}
        /\ UNCHANGED <<session, participant, outbox, now>>
    BY <1>2 DEF Load
  <2> HIDE DEF t
  <2> QED BY <2>1, <2>3, <2>4
<1>3. ASSUME NEW r \in Arriving, NEW s \in Sessions, NEW share \in Amounts,
             LoadAddParticipant(r, s, share)
      PROVE  TypeOK'
  BY <1>2, <1>3, StoredIsNat DEF LoadAddParticipant, Kinds
<1>4. ASSUME NEW r \in Arriving, NEW s \in Sessions, NEW p \in Participants,
             LoadAuthorize(r, s, p)
      PROVE  TypeOK'
  BY <1>2, <1>4 DEF LoadAuthorize, Kinds
<1>5. ASSUME NEW r \in Arriving, NEW s \in Sessions, LoadClose(r, s)
      PROVE  TypeOK'
  <2> DEFINE row == [session[s] EXCEPT !.status = "COMPLETED", !.closedAt = now]
  <2>1. row \in Row /\ row.closedAt # None
    BY NoneAssumption DEF Row
  <2>2. Load(r, "SplitCompleted", s, row, None, 0)
    BY <1>5 DEF LoadClose
  <2> HIDE DEF row
  <2> QED BY <1>2, <2>1, <2>2 DEF Kinds
<1>6. ASSUME NEW t \in active, NEW at \in Nat,
             NEW pid \in Participants \cup {None}, Commit(t, at, pid),
             participant' \in [Participants -> ParticipantRow]
      PROVE  TypeOK'
  <2>1. t \in Tx
    OBVIOUS
  <2>2. [id |-> t.id, kind |-> t.kind, session |-> t.session,
         version |-> t.row.version, at |-> at, pid |-> pid,
         amount |-> t.amount] \in Event
    BY <2>1 DEF Tx, Row, Event
  <2>3. t.row \in Row
    BY <2>1 DEF Tx
  <2> QED BY <1>6, <2>2, <2>3 DEF Commit, Store
<1>7. ASSUME NEW t \in active, NEW p \in Participants, CommitAddParticipant(t, p)
      PROVE  TypeOK'
  <2>1. t.session \in Sessions /\ Stored(t.amount) \in Nat
    BY DEF Tx, Stored
  <2>2. [session |-> t.session, share |-> Stored(t.amount), authorized |-> FALSE]
          \in ParticipantRow
    BY <2>1 DEF ParticipantRow
  <2> QED BY <1>6, <1>7, <2>2 DEF CommitAddParticipant
<1>8. ASSUME NEW t \in active, CommitAuthorize(t)
      PROVE  TypeOK'
  <2>1. participant' \in [Participants -> ParticipantRow]
    BY <1>8 DEF CommitAuthorize, ParticipantRow
  <2>2. t.pid \in Participants \cup {None}
    BY DEF Tx
  <2> QED BY <1>6, <1>8, <2>1, <2>2 DEF CommitAuthorize
<1>9. ASSUME NEW t \in active, CommitClose(t)
      PROVE  TypeOK'
  <2>1. t.row.closedAt \in Nat
    BY <1>9 DEF CommitClose, Tx, Row
  <2> QED BY <1>6, <1>9, <2>1 DEF CommitClose
<1>10. ASSUME NEW t \in active, Rollback(t)
       PROVE  TypeOK'
  BY <1>10 DEF Rollback
<1>11. CASE Tick
  BY <1>11, MaxTimeAssumption DEF Tick
<1>12. CASE UNCHANGED vars
  BY <1>12 DEF vars
<1> QED
  BY <1>1, <1>3, <1>4, <1>5, <1>7, <1>8, <1>9, <1>10, <1>11, <1>12 DEF Next

(* Type correctness. *)
THEOREM TypeCorrect == Spec => []TypeOK
BY InitType, NextType, PTL DEF Spec

-----------------------------------------------------------------------------
(* No version is announced before its predecessor, however the requests of *)
(* a session overlap.  Two facts make this inductive: the version of every *)
(* session row has been announced, and so has the one that each open       *)
(* transaction loaded.                                                     *)

Announced(s, v) == \E e \in outbox : e.session = s /\ e.version = v

GapInv ==
    /\ \A e \in outbox : \A v \in 1..(e.version - 1) : Announced(e.session, v)
    /\ \A s \in Sessions : session[s].status # "ABSENT" =>
         session[s].version >= 1 /\ Announced(s, session[s].version)
    /\ \A t \in active :
         t.row.version >= 2 /\ Announced(t.session, t.row.version - 1)

LEMMA AnnouncedStays ==
    ASSUME outbox \subseteq outbox', NEW s, NEW v, Announced(s, v)
    PROVE  Announced(s, v)'
BY DEF Announced

LEMMA InitGap == Init => GapInv
BY DEF Init, GapInv

LEMMA NextGap == TypeOK /\ GapInv /\ [Next]_vars => GapInv'
<1> SUFFICES ASSUME TypeOK, GapInv, [Next]_vars PROVE GapInv'
  OBVIOUS
<1>1. ASSUME NEW r \in Arriving, NEW s \in Sessions, NEW total \in Amounts,
             Create(r, s, total)
      PROVE  GapInv'
  <2> DEFINE e == [id |-> r, kind |-> "SplitCreated", session |-> s,
                   version |-> 1, at |-> now, pid |-> None, amount |-> total]
             row == [status |-> "OPEN", version |-> 1, total |-> Stored(total),
                     closedAt |-> None]
  <2>0. session' = [session EXCEPT ![s] = row] /\ row.version = 1
    BY <1>1 DEF Create
  <2>1. outbox' = outbox \cup {e} /\ e.session = s /\ e.version = 1
    BY <1>1 DEF Create, Store
  <2> HIDE DEF e, row
  <2>2. Announced(s, 1)'
    BY <2>1 DEF Announced
  <2>3. \A v \in 1..(e.version - 1) : Announced(e.session, v)'
    BY <2>1
  <2>4. \A u \in Sessions : \/ session'[u] = session[u]
                            \/ u = s /\ session'[u].version = 1
    BY <2>0 DEF TypeOK
  <2>5. active' = active
    BY <1>1 DEF Create
  <2> QED BY <2>1, <2>2, <2>3, <2>4, <2>5, AnnouncedStays DEF GapInv
<1>2. ASSUME NEW r, NEW kind, NEW s \in Sessions, NEW row, NEW pid, NEW amount,
             session[s].status = "OPEN", Load(r, kind, s, row, pid, amount),
             row.version = session[s].version, row \in Row
      PROVE  GapInv'
  <2> DEFINE t == [id |-> r, kind |-> kind, session |-> s,
                   row |-> [row EXCEPT !.version = @ + 1],
                   pid |-> pid, amount |-> amount]
  <2>1. /\ active' = active \cup {t}
        /\ outbox' = outbox /\ session' = session
    BY <1>2 DEF Load
  <2>2. session[s].version >= 1 /\ Announced(s, session[s].version)
    BY <1>2 DEF GapInv
  <2>3. t.session = s /\ t.row.version = session[s].version + 1
    BY <1>2 DEF Row
  <2> HIDE DEF t
  <2>4. t.row.version >= 2 /\ t.row.version - 1 = session[s].version
    BY <2>2, <2>3 DEF TypeOK, Row
  <2> QED BY <2>1, <2>2, <2>3, <2>4, AnnouncedStays DEF GapInv
<1>3. ASSUME NEW r \in Arriving, NEW s \in Sessions, NEW share \in Amounts,
             LoadAddParticipant(r, s, share)
      PROVE  GapInv'
  BY <1>2, <1>3 DEF LoadAddParticipant, TypeOK
<1>4. ASSUME NEW r \in Arriving, NEW s \in Sessions, NEW p \in Participants,
             LoadAuthorize(r, s, p)
      PROVE  GapInv'
  BY <1>2, <1>4 DEF LoadAuthorize, TypeOK
<1>5. ASSUME NEW r \in Arriving, NEW s \in Sessions, LoadClose(r, s)
      PROVE  GapInv'
  <2> DEFINE row == [session[s] EXCEPT !.status = "COMPLETED", !.closedAt = now]
  <2>1. row \in Row /\ row.version = session[s].version
    BY DEF TypeOK, Row
  <2>2. session[s].status = "OPEN" /\ Load(r, "SplitCompleted", s, row, None, 0)
    BY <1>5 DEF LoadClose
  <2> HIDE DEF row
  <2> QED BY <1>2, <2>1, <2>2
<1>6. ASSUME NEW t \in active, NEW at, NEW pid, Commit(t, at, pid)
      PROVE  GapInv'
  <2> DEFINE e == [id |-> t.id, kind |-> t.kind, session |-> t.session,
                   version |-> t.row.version, at |-> at, pid |-> pid,
                   amount |-> t.amount]
  <2>1. /\ outbox' = outbox \cup {e}
        /\ e.session = t.session /\ e.version = t.row.version
    BY <1>6 DEF Commit, Store
  <2> HIDE DEF e
  <2>2. t.session \in Sessions /\ t.row.version \in Nat /\ t.row.version >= 2
    BY DEF TypeOK, Tx, Row, GapInv
  <2>3. Announced(t.session, t.row.version)'
    BY <2>1 DEF Announced
  <2>4. PICK f \in outbox : f.session = t.session /\ f.version = t.row.version - 1
    BY DEF GapInv, Announced
  <2>5. \A v \in 1..(e.version - 1) : Announced(e.session, v)'
    <3> SUFFICES ASSUME NEW v \in 1..(e.version - 1)
                 PROVE  Announced(e.session, v)'
      OBVIOUS
    <3>1. CASE v = t.row.version - 1
      BY <3>1, <2>1, <2>4, AnnouncedStays DEF Announced
    <3>2. CASE v # t.row.version - 1
      <4>1. v \in 1..(f.version - 1)
        BY <3>2, <2>1, <2>2, <2>4
      <4> QED BY <4>1, <2>1, <2>4, AnnouncedStays DEF GapInv
    <3> QED BY <3>1, <3>2
  <2>6. /\ \A u \in Sessions : \/ session'[u] = session[u]
                               \/ u = t.session /\ session'[u].version = t.row.version
        /\ active' \subseteq active
    <3>1. session' = [session EXCEPT ![t.session] = t.row]
          /\ active' \subseteq active
      BY <1>6 DEF Commit
    <3> QED BY <2>2, <3>1 DEF TypeOK
  <2> QED BY <2>1, <2>2, <2>3, <2>5, <2>6, AnnouncedStays DEF GapInv
<1>7. ASSUME NEW t \in active, NEW p \in Participants, CommitAddParticipant(t, p)
      PROVE  GapInv'
  BY <1>6, <1>7 DEF CommitAddParticipant
<1>8. ASSUME NEW t \in active, CommitAuthorize(t)
      PROVE  GapInv'
  BY <1>6, <1>8 DEF CommitAuthorize
<1>9. ASSUME NEW t \in active, CommitClose(t)
      PROVE  GapInv'
  BY <1>6, <1>9 DEF CommitClose
<1>10. ASSUME NEW t \in active, Rollback(t)
       PROVE  GapInv'
  BY <1>10, AnnouncedStays DEF Rollback, GapInv
<1>11. CASE Tick \/ UNCHANGED vars
  BY <1>11, AnnouncedStays DEF Tick, vars, GapInv
<1> QED
  BY <1>1, <1>3, <1>4, <1>5, <1>7, <1>8, <1>9, <1>10, <1>11 DEF Next

(* The consumer of the events never waits for a version that cannot come,  *)
(* even when requests overlap.                                             *)
THEOREM NoGap == Spec => []NoVersionGap
<1>1. GapInv => NoVersionGap
  BY DEF GapInv, NoVersionGap, Announced
<1> QED
  BY <1>1, InitType, NextType, InitGap, NextGap, PTL DEF Spec

-----------------------------------------------------------------------------
(* The guarantees of a session whose requests do not overlap.  What makes  *)
(* them inductive is TxInv: at most one open transaction works on a        *)
(* session, the session is still as that transaction loaded it, and if the *)
(* transaction closes the session, it is still settled.                    *)

VersionInv ==
    /\ \A s \in Sessions : session[s].status = "ABSENT" => session[s].version = 0
    /\ \A e \in outbox : e.version \in 1..session[e.session].version
    /\ \A s \in Sessions : \A v \in 1..session[s].version : Announced(s, v)
    /\ \A e, f \in outbox : e.session = f.session /\ e.version = f.version => e = f

TxInv ==
    /\ \A t, u \in active : t.session = u.session => t = u
    /\ \A t \in active :
         /\ session[t.session].status = "OPEN"
         /\ t.row.version = session[t.session].version + 1
         /\ t.row.total = session[t.session].total
         /\ t.row.status = IF t.kind = "SplitCompleted" THEN "COMPLETED" ELSE "OPEN"
         /\ t.kind = "SplitCompleted" => Settled(t.session)
         /\ t.kind = "ParticipantAuthorized" => t.pid \in Participants

SerialInv == VersionInv /\ TxInv /\ CompletedIsSettled

LEMMA InitSerial == Init => SerialInv
BY DEF Init, SerialInv, VersionInv, TxInv, CompletedIsSettled, Announced

(* Nothing that leaves the participants and the total of a session alone,  *)
(* but for new authorizations, unsettles it.                               *)
LEMMA SettledStays ==
    ASSUME NEW s \in Sessions, Settled(s), session'[s].total = session[s].total,
           PartsOf(s)' = PartsOf(s),
           \A p \in PartsOf(s) :
             /\ participant'[p].share = participant[p].share
             /\ participant[p].authorized => participant'[p].authorized
    PROVE  Settled(s)'
<1>1. SharesOf(s)' = SharesOf(s)
  BY DEF SharesOf
<1>2. SumFunction(SharesOf(s))' = SumFunction(SharesOf(s))
  BY <1>1
<1> QED BY <1>2 DEF Settled

LEMMA SettledUnchanged ==
    ASSUME NEW s \in Sessions, Settled(s), session'[s] = session[s],
           participant' = participant
    PROVE  Settled(s)'
BY SettledStays DEF PartsOf

(* A commit adds the next version and nothing else. *)
LEMMA CommitVersions ==
    ASSUME TypeOK, VersionInv, TxInv, NEW t \in active, NEW at, NEW pid,
           Commit(t, at, pid)
    PROVE  VersionInv'
<1> DEFINE e == [id |-> t.id, kind |-> t.kind, session |-> t.session,
                 version |-> t.row.version, at |-> at, pid |-> pid,
                 amount |-> t.amount]
<1>1. /\ outbox' = outbox \cup {e}
      /\ e.session = t.session /\ e.version = t.row.version
  BY DEF Commit, Store
<1> HIDE DEF e
<1>2. /\ t.session \in Sessions /\ t.row \in Row
      /\ session[t.session].version \in Nat
      /\ t.row.version = session[t.session].version + 1
      /\ t.row.status # "ABSENT"
  BY DEF TypeOK, Tx, Row, TxInv
<1>3. session' = [session EXCEPT ![t.session] = t.row]
  BY DEF Commit
<1>4. \A s \in Sessions : \/ session'[s] = session[s]
                          \/ s = t.session /\ session'[s] = t.row
  BY <1>2, <1>3 DEF TypeOK
<1>5. \A f \in outbox : f.session \in Sessions /\ f.version \in Nat
                        /\ session[f.session].version \in Nat
  BY DEF TypeOK, Event, Row
<1>6. \A f \in outbox' : f.version \in 1..session'[f.session].version
  <2>1. e.version \in 1..session'[e.session].version
    BY <1>1, <1>2, <1>3 DEF TypeOK, Row
  <2>2. ASSUME NEW f \in outbox
        PROVE  f.version \in 1..session'[f.session].version
    <3>1. f.version \in 1..session[f.session].version
      BY DEF VersionInv
    <3> QED BY <1>2, <1>4, <1>5, <3>1
  <2> QED BY <1>1, <2>1, <2>2
<1>7. \A s \in Sessions : \A v \in 1..session'[s].version : Announced(s, v)'
  <2> SUFFICES ASSUME NEW s \in Sessions, NEW v \in 1..session'[s].version
               PROVE  Announced(s, v)'
    OBVIOUS
  <2>1. CASE v \in 1..session[s].version
    BY <2>1, <1>1, AnnouncedStays DEF VersionInv
  <2>2. CASE v \notin 1..session[s].version
    <3>1. s = t.session /\ v = t.row.version
      BY <2>2, <1>2, <1>4
    <3> QED BY <3>1, <1>1 DEF Announced
  <2> QED BY <2>1, <2>2
<1>8. \A f, g \in outbox' : f.session = g.session /\ f.version = g.version => f = g
  <2>1. \A f \in outbox : f.session = e.session => f.version # e.version
    BY <1>1, <1>2, <1>5 DEF VersionInv
  <2> QED BY <1>1, <2>1 DEF VersionInv
<1>9. \A s \in Sessions : session'[s].status = "ABSENT" => session'[s].version = 0
  BY <1>2, <1>4 DEF VersionInv
<1> QED BY <1>6, <1>7, <1>8, <1>9 DEF VersionInv

(* A commit ends the one transaction of its session, and leaves the rest   *)
(* of the state as the others loaded it, given what it does to the         *)
(* participants.                                                           *)
LEMMA CommitTx ==
    ASSUME TypeOK, TxInv, NEW t \in active, NEW at, NEW pid, Commit(t, at, pid),
           \A u \in active \ {t} :
             u.kind = "SplitCompleted" => Settled(u.session)'
    PROVE  TxInv'
<1>1. active' = active \ {t} /\ session' = [session EXCEPT ![t.session] = t.row]
  BY DEF Commit
<1>2. \A u \in active' : u.session # t.session
  BY <1>1 DEF TxInv
<1>3. \A u \in active' : u.session \in Sessions /\ session'[u.session] = session[u.session]
  BY <1>1, <1>2 DEF TypeOK, Tx
<1> QED BY <1>1, <1>3 DEF TxInv

(* A load adds the one transaction of its session. *)
LEMMA LoadSerial ==
    ASSUME TypeOK, SerialInv, Overlap = FALSE,
           NEW r, NEW kind, NEW s \in Sessions, NEW row \in Row, NEW pid, NEW amount,
           Load(r, kind, s, row, pid, amount),
           session[s].status = "OPEN",
           row.version = session[s].version, row.total = session[s].total,
           row.status = IF kind = "SplitCompleted" THEN "COMPLETED" ELSE "OPEN",
           kind = "SplitCompleted" => Settled(s),
           kind = "ParticipantAuthorized" => pid \in Participants
    PROVE  SerialInv'
<1> DEFINE t == [id |-> r, kind |-> kind, session |-> s,
                 row |-> [row EXCEPT !.version = @ + 1],
                 pid |-> pid, amount |-> amount]
<1>1. /\ active' = active \cup {t}
      /\ outbox' = outbox /\ session' = session /\ participant' = participant
      /\ \A u \in active : u.session # s
  BY DEF Load
<1>2. /\ t.session = s /\ t.kind = kind /\ t.pid = pid
      /\ t.row.version = session[s].version + 1
      /\ t.row.total = session[s].total /\ t.row.status = row.status
  BY DEF Row
<1> HIDE DEF t
<1>3. \A u \in Sessions : Settled(u) => Settled(u)'
  BY <1>1, SettledUnchanged
<1>4. VersionInv'
  BY <1>1 DEF SerialInv, VersionInv, Announced
<1>5. CompletedIsSettled'
  BY <1>1, <1>3 DEF SerialInv, CompletedIsSettled
<1>6. \A u \in active : u.session \in Sessions
  BY DEF TypeOK, Tx
<1>7. TxInv'
  BY <1>1, <1>2, <1>3, <1>6 DEF SerialInv, TxInv
<1> QED BY <1>4, <1>5, <1>7 DEF SerialInv

LEMMA NextSerial ==
    ASSUME Overlap = FALSE
    PROVE  TypeOK /\ SerialInv /\ [Next]_vars => SerialInv'
<1> SUFFICES ASSUME TypeOK, SerialInv, [Next]_vars PROVE SerialInv'
  OBVIOUS
<1>1. ASSUME NEW r \in Arriving, NEW s \in Sessions, NEW total \in Amounts,
             Create(r, s, total)
      PROVE  SerialInv'
  <2> DEFINE e == [id |-> r, kind |-> "SplitCreated", session |-> s,
                   version |-> 1, at |-> now, pid |-> None, amount |-> total]
             row == [status |-> "OPEN", version |-> 1, total |-> Stored(total),
                     closedAt |-> None]
  <2>1. /\ session' = [session EXCEPT ![s] = row]
        /\ row.version = 1 /\ row.status = "OPEN"
        /\ outbox' = outbox \cup {e} /\ e.session = s /\ e.version = 1
        /\ participant' = participant /\ active' = active
        /\ session[s].status = "ABSENT"
    BY <1>1 DEF Create, Store
  <2> HIDE DEF e, row
  <2>2. session[s].version = 0
    BY <2>1 DEF SerialInv, VersionInv
  <2>3. \A u \in Sessions : \/ u # s /\ session'[u] = session[u]
                            \/ u = s /\ session'[u] = row
    BY <2>1 DEF TypeOK
  <2>4. \A f \in outbox : f.session \in Sessions /\ f.session # s
    BY <2>2 DEF SerialInv, VersionInv, TypeOK, Event
  <2>5. \A u \in active : u.session \in Sessions /\ u.session # s
    BY <2>1 DEF SerialInv, TxInv, TypeOK, Tx
  <2>6. \A u \in Sessions : u # s /\ Settled(u) => Settled(u)'
    BY <2>1, <2>3, SettledUnchanged
  <2>7. VersionInv'
    <3>1. \A u \in Sessions : \A v \in 1..session'[u].version : Announced(u, v)'
      <4>1. Announced(s, 1)'
        BY <2>1 DEF Announced
      <4> QED BY <4>1, <2>1, <2>3, AnnouncedStays DEF SerialInv, VersionInv
    <3>2. \A u \in Sessions : session'[u].status = "ABSENT" => session'[u].version = 0
      BY <2>1, <2>3 DEF SerialInv, VersionInv
    <3>3. \A f \in outbox' : f.version \in 1..session'[f.session].version
      BY <2>1, <2>3, <2>4 DEF SerialInv, VersionInv
    <3>4. \A f, g \in outbox' : f.session = g.session /\ f.version = g.version => f = g
      BY <2>1, <2>4 DEF SerialInv, VersionInv
    <3> QED BY <3>1, <3>2, <3>3, <3>4 DEF VersionInv
  <2>8. TxInv'
    BY <2>1, <2>3, <2>5, <2>6 DEF SerialInv, TxInv
  <2>9. CompletedIsSettled'
    BY <2>1, <2>3, <2>6 DEF SerialInv, CompletedIsSettled
  <2> QED BY <2>7, <2>8, <2>9 DEF SerialInv
<1>2. ASSUME NEW r \in Arriving, NEW s \in Sessions, NEW share \in Amounts,
             LoadAddParticipant(r, s, share)
      PROVE  SerialInv'
  <2>1. session[s] \in Row
    BY DEF TypeOK
  <2>2. /\ session[s].status = "OPEN"
        /\ Load(r, "ParticipantAdded", s, session[s], None, share)
    BY <1>2 DEF LoadAddParticipant
  <2>3. "OPEN" = IF "ParticipantAdded" = "SplitCompleted" THEN "COMPLETED" ELSE "OPEN"
    OBVIOUS
  <2> QED BY <2>1, <2>2, <2>3, LoadSerial
<1>3. ASSUME NEW r \in Arriving, NEW s \in Sessions, NEW p \in Participants,
             LoadAuthorize(r, s, p)
      PROVE  SerialInv'
  <2>1. session[s] \in Row
    BY DEF TypeOK
  <2>2. /\ session[s].status = "OPEN"
        /\ Load(r, "ParticipantAuthorized", s, session[s], p, 0)
    BY <1>3 DEF LoadAuthorize
  <2>3. "OPEN" = IF "ParticipantAuthorized" = "SplitCompleted" THEN "COMPLETED" ELSE "OPEN"
    OBVIOUS
  <2> QED BY <2>1, <2>2, <2>3, LoadSerial
<1>4. ASSUME NEW r \in Arriving, NEW s \in Sessions, LoadClose(r, s)
      PROVE  SerialInv'
  <2> DEFINE row == [session[s] EXCEPT !.status = "COMPLETED", !.closedAt = now]
  <2>1. /\ row \in Row /\ row.version = session[s].version
        /\ row.total = session[s].total /\ row.status = "COMPLETED"
    BY DEF TypeOK, Row
  <2>2. /\ session[s].status = "OPEN" /\ Settled(s)
        /\ Load(r, "SplitCompleted", s, row, None, 0)
    BY <1>4 DEF LoadClose
  <2> HIDE DEF row
  <2> QED BY <2>1, <2>2, LoadSerial
<1>5. ASSUME NEW t \in active, NEW at, NEW pid, Commit(t, at, pid),
             \A s \in Sessions : s # t.session /\ Settled(s) => Settled(s)',
             t.row.status = "COMPLETED" => Settled(t.session)'
      PROVE  SerialInv'
  <2>1. VersionInv'
    BY <1>5, CommitVersions DEF SerialInv
  <2>2. \A u \in active : u.session \in Sessions
    BY DEF TypeOK, Tx
  <2>3. TxInv'
    <3>1. \A u \in active \ {t} : u.kind = "SplitCompleted" => Settled(u.session)'
      BY <1>5, <2>2 DEF SerialInv, TxInv
    <3> QED BY <1>5, <3>1, CommitTx DEF SerialInv
  <2>4. session' = [session EXCEPT ![t.session] = t.row]
    BY <1>5 DEF Commit
  <2>5. CompletedIsSettled'
    BY <1>5, <2>2, <2>4 DEF SerialInv, CompletedIsSettled, TypeOK
  <2> QED BY <2>1, <2>3, <2>5 DEF SerialInv
<1>6. ASSUME NEW t \in active, NEW p \in Participants, CommitAddParticipant(t, p)
      PROVE  SerialInv'
  <2>1. t.row.status = "OPEN" /\ t.session \in Sessions
    BY <1>6 DEF CommitAddParticipant, SerialInv, TxInv, TypeOK, Tx
  <2>2. /\ participant[p].session = None /\ Commit(t, now, p)
        /\ \A q \in Participants : q # p => participant'[q] = participant[q]
        /\ participant'[p].session = t.session
    BY <1>6 DEF CommitAddParticipant, TypeOK
  <2>3. ASSUME NEW s \in Sessions, s # t.session, Settled(s)
        PROVE  Settled(s)'
    <3>1. session'[s] = session[s]
      BY <2>2, <2>3 DEF Commit, TypeOK
    <3>2. s # None
      BY NoneAssumption
    <3>3. PartsOf(s)' = PartsOf(s)
      BY <2>2, <2>3, <3>2 DEF PartsOf
    <3>4. \A q \in PartsOf(s) : participant'[q] = participant[q]
      BY <2>2, <3>2 DEF PartsOf
    <3> QED BY <2>3, <3>1, <3>3, <3>4, SettledStays
  <2> QED BY <1>5, <2>1, <2>2, <2>3
<1>7. ASSUME NEW t \in active, CommitAuthorize(t)
      PROVE  SerialInv'
  <2>1. t.row.status = "OPEN" /\ t.session \in Sessions /\ t.pid \in Participants
    BY <1>7 DEF CommitAuthorize, SerialInv, TxInv, TypeOK, Tx
  <2>2. Commit(t, now, t.pid)
    BY <1>7 DEF CommitAuthorize
  <2>3. \A q \in Participants :
           /\ participant'[q].session = participant[q].session
           /\ participant'[q].share = participant[q].share
           /\ participant[q].authorized => participant'[q].authorized
    <3>1. participant' = [participant EXCEPT ![t.pid] =
                            [participant[t.pid] EXCEPT !.authorized = TRUE]]
      BY <1>7 DEF CommitAuthorize
    <3>2. participant[t.pid] \in ParticipantRow
      BY <2>1 DEF TypeOK
    <3>3. /\ participant'[t.pid].session = participant[t.pid].session
          /\ participant'[t.pid].share = participant[t.pid].share
          /\ participant'[t.pid].authorized = TRUE
      BY <2>1, <3>1, <3>2 DEF TypeOK, ParticipantRow
    <3>4. \A q \in Participants : q # t.pid => participant'[q] = participant[q]
      BY <3>1 DEF TypeOK
    <3> QED BY <3>3, <3>4
  <2>4. ASSUME NEW s \in Sessions, s # t.session, Settled(s)
        PROVE  Settled(s)'
    <3>1. session'[s] = session[s]
      BY <2>2, <2>4 DEF Commit, TypeOK
    <3>2. PartsOf(s)' = PartsOf(s)
      BY <2>3 DEF PartsOf
    <3>3. PartsOf(s) \subseteq Participants
      BY DEF PartsOf
    <3> QED BY <2>3, <2>4, <3>1, <3>2, <3>3, SettledStays
  <2> QED BY <1>5, <2>1, <2>2, <2>4
<1>8. ASSUME NEW t \in active, CommitClose(t)
      PROVE  SerialInv'
  <2>1. /\ t.session \in Sessions /\ Settled(t.session)
        /\ t.row.total = session[t.session].total
        /\ Commit(t, t.row.closedAt, None) /\ participant' = participant
    BY <1>8 DEF CommitClose, SerialInv, TxInv, TypeOK, Tx
  <2>2. session' = [session EXCEPT ![t.session] = t.row]
    BY <2>1 DEF Commit
  <2>3. Settled(t.session)'
    <3>1. session'[t.session].total = session[t.session].total
      BY <2>1, <2>2 DEF TypeOK
    <3> QED BY <2>1, <3>1, SettledStays DEF PartsOf
  <2>4. \A s \in Sessions : s # t.session /\ Settled(s) => Settled(s)'
    BY <2>1, <2>2, SettledUnchanged DEF TypeOK
  <2> QED BY <1>5, <2>1, <2>3, <2>4
<1>9. ASSUME session' = session, participant' = participant, outbox' = outbox,
             active' \subseteq active
      PROVE  SerialInv'
  <2>1. \A s \in Sessions : Settled(s) => Settled(s)'
    BY <1>9, SettledUnchanged
  <2>2. \A u \in active : u.session \in Sessions
    BY DEF TypeOK, Tx
  <2>3. VersionInv'
    BY <1>9 DEF SerialInv, VersionInv, Announced
  <2>4. TxInv'
    BY <1>9, <2>1, <2>2 DEF SerialInv, TxInv
  <2>5. CompletedIsSettled'
    BY <1>9, <2>1 DEF SerialInv, CompletedIsSettled
  <2> QED BY <2>3, <2>4, <2>5 DEF SerialInv
<1>10. ASSUME NEW t \in active, Rollback(t)
       PROVE  SerialInv'
  BY <1>9, <1>10 DEF Rollback
<1>11. CASE Tick \/ UNCHANGED vars
  BY <1>9, <1>11 DEF Tick, vars
<1> QED
  BY <1>1, <1>2, <1>3, <1>4, <1>6, <1>7, <1>8, <1>10, <1>11 DEF Next

(* A COMPLETED session is settled, if its requests do not overlap. *)
THEOREM SettledWhenCompleted ==
    ASSUME Overlap = FALSE
    PROVE  Spec => []CompletedIsSettled
<1>1. SerialInv => CompletedIsSettled
  BY DEF SerialInv
<1> QED
  BY <1>1, InitType, NextType, InitSerial, NextSerial, PTL DEF Spec

(* The events of a session carry consecutive versions, one each, if its    *)
(* requests do not overlap.                                                *)
THEOREM ConsecutiveVersions ==
    ASSUME Overlap = FALSE
    PROVE  Spec => []VersionsAreConsecutive
<1>1. TypeOK /\ SerialInv => VersionsAreConsecutive
  <2> SUFFICES ASSUME TypeOK, SerialInv, NEW s \in Sessions
               PROVE  /\ {e.version : e \in EventsOf(s)} = 1..session[s].version
                      /\ \A e, f \in EventsOf(s) : e.version = f.version => e = f
    BY DEF VersionsAreConsecutive
  <2>1. {e.version : e \in EventsOf(s)} \subseteq 1..session[s].version
    BY DEF EventsOf, SerialInv, VersionInv
  <2>2. 1..session[s].version \subseteq {e.version : e \in EventsOf(s)}
    BY DEF EventsOf, SerialInv, VersionInv, Announced
  <2>3. \A e, f \in EventsOf(s) : e.version = f.version => e = f
    BY DEF EventsOf, SerialInv, VersionInv
  <2> QED BY <2>1, <2>2, <2>3
<1> QED
  BY <1>1, InitType, NextType, InitSerial, NextSerial, PTL DEF Spec

-----------------------------------------------------------------------------
(* Tables and outbox are of one mind, however the requests of a session    *)
(* overlap.  What makes this inductive is that the session of an open      *)
(* transaction, and the participant it authorizes, are there.              *)

Says(kind, s, p) ==
    \E e \in outbox : e.kind = kind /\ e.session = s /\ e.pid = p

Created(s) == \E e \in outbox : e.kind = "SplitCreated" /\ e.session = s

TablesInv ==
    /\ \A p \in Participants, s \in Sessions :
         /\ participant[p].session = s <=> Says("ParticipantAdded", s, p)
         /\ participant[p].session = s /\ participant[p].authorized
              <=> Says("ParticipantAuthorized", s, p)
    /\ \A s \in Sessions : session[s].status # "ABSENT" <=> Created(s)
    /\ \A t \in active :
         /\ session[t.session].status # "ABSENT" /\ t.row.status # "ABSENT"
         /\ t.kind = "ParticipantAuthorized" =>
              t.pid \in Participants /\ participant[t.pid].session = t.session

LEMMA InitTables == Init => TablesInv
BY NoneAssumption DEF Init, TablesInv, Says, Created

(* Storing an event makes it true and nothing else. *)
LEMMA StoreSays ==
    ASSUME NEW r, NEW kind, NEW s, NEW version, NEW at, NEW pid, NEW amount,
           Store(r, kind, s, version, at, pid, amount)
    PROVE  /\ \A k, u, p : Says(k, u, p)' <=>
                Says(k, u, p) \/ (k = kind /\ u = s /\ p = pid)
           /\ \A u : Created(u)' <=> Created(u) \/ (kind = "SplitCreated" /\ u = s)
<1> DEFINE e == [id |-> r, kind |-> kind, session |-> s, version |-> version,
                 at |-> at, pid |-> pid, amount |-> amount]
<1>1. outbox' = outbox \cup {e} /\ e.kind = kind /\ e.session = s /\ e.pid = pid
  BY DEF Store
<1> HIDE DEF e
<1> QED BY <1>1 DEF Says, Created

(* A commit stores its session's row, which is there, and leaves the other *)
(* sessions and transactions alone.                                        *)
LEMMA CommitRows ==
    ASSUME TypeOK, TablesInv, NEW t \in active, NEW at, NEW pid, Commit(t, at, pid)
    PROVE  /\ t.session \in Sessions /\ active' \subseteq active
           /\ session'[t.session] = t.row /\ t.row.status # "ABSENT"
           /\ \A s \in Sessions : s # t.session => session'[s] = session[s]
           /\ \A u \in active' : u.session \in Sessions
                                  /\ session'[u.session].status # "ABSENT"
<1>1. session' = [session EXCEPT ![t.session] = t.row] /\ active' \subseteq active
  BY DEF Commit
<1>2. \A u \in active : u.session \in Sessions
  BY DEF TypeOK, Tx
<1> QED BY <1>1, <1>2 DEF TypeOK, TablesInv

LEMMA NextTables == TypeOK /\ TablesInv /\ [Next]_vars => TablesInv'
<1> SUFFICES ASSUME TypeOK, TablesInv, [Next]_vars PROVE TablesInv'
  OBVIOUS
<1>1. ASSUME NEW r \in Arriving, NEW s \in Sessions, NEW total \in Amounts,
             Create(r, s, total)
      PROVE  TablesInv'
  <2> DEFINE row == [status |-> "OPEN", version |-> 1, total |-> Stored(total),
                     closedAt |-> None]
  <2>1. /\ session' = [session EXCEPT ![s] = row] /\ row.status = "OPEN"
        /\ Store(r, "SplitCreated", s, 1, now, None, total)
        /\ participant' = participant /\ active' = active
    BY <1>1 DEF Create
  <2> HIDE DEF row
  <2>2. \A u \in Sessions : \/ u # s /\ session'[u] = session[u]
                            \/ u = s /\ session'[u].status = "OPEN"
    BY <2>1 DEF TypeOK
  <2>3. \A u \in active : u.session \in Sessions
    BY DEF TypeOK, Tx
  <2>4. /\ \A k, u, p : k # "SplitCreated" => (Says(k, u, p)' <=> Says(k, u, p))
        /\ \A u : Created(u)' <=> Created(u) \/ u = s
    BY <2>1, StoreSays
  <2> QED BY <2>1, <2>2, <2>3, <2>4 DEF TablesInv
<1>2. ASSUME NEW r, NEW kind, NEW s \in Sessions, NEW row, NEW pid, NEW amount,
             session[s].status = "OPEN", Load(r, kind, s, row, pid, amount),
             row \in Row, row.status # "ABSENT",
             kind = "ParticipantAuthorized" => pid \in PartsOf(s)
      PROVE  TablesInv'
  <2> DEFINE t == [id |-> r, kind |-> kind, session |-> s,
                   row |-> [row EXCEPT !.version = @ + 1],
                   pid |-> pid, amount |-> amount]
  <2>1. /\ active' = active \cup {t}
        /\ outbox' = outbox /\ session' = session /\ participant' = participant
    BY <1>2 DEF Load
  <2>2. t.session = s /\ t.kind = kind /\ t.pid = pid /\ t.row.status = row.status
    BY <1>2 DEF Row
  <2> HIDE DEF t
  <2>3. /\ \A k, u, p : Says(k, u, p)' <=> Says(k, u, p)
        /\ \A u : Created(u)' <=> Created(u)
    BY <2>1 DEF Says, Created
  <2> QED BY <1>2, <2>1, <2>2, <2>3 DEF TablesInv, PartsOf
<1>3. ASSUME NEW r \in Arriving, NEW s \in Sessions, NEW share \in Amounts,
             LoadAddParticipant(r, s, share)
      PROVE  TablesInv'
  BY <1>2, <1>3 DEF LoadAddParticipant, TypeOK
<1>4. ASSUME NEW r \in Arriving, NEW s \in Sessions, NEW p \in Participants,
             LoadAuthorize(r, s, p)
      PROVE  TablesInv'
  BY <1>2, <1>4 DEF LoadAuthorize, TypeOK
<1>5. ASSUME NEW r \in Arriving, NEW s \in Sessions, LoadClose(r, s)
      PROVE  TablesInv'
  <2> DEFINE row == [session[s] EXCEPT !.status = "COMPLETED", !.closedAt = now]
  <2>1. row \in Row /\ row.status # "ABSENT"
    BY DEF TypeOK, Row
  <2>2. session[s].status = "OPEN" /\ Load(r, "SplitCompleted", s, row, None, 0)
    BY <1>5 DEF LoadClose
  <2> HIDE DEF row
  <2> QED BY <1>2, <2>1, <2>2
<1>6. ASSUME NEW t \in active, NEW p \in Participants, CommitAddParticipant(t, p)
      PROVE  TablesInv'
  <2>1. /\ t.kind = "ParticipantAdded" /\ participant[p].session = None
        /\ Commit(t, now, p)
        /\ Store(t.id, t.kind, t.session, t.row.version, now, p, t.amount)
        /\ \A q \in Participants : q # p => participant'[q] = participant[q]
        /\ participant'[p].session = t.session /\ participant'[p].authorized = FALSE
    BY <1>6 DEF CommitAddParticipant, Commit, TypeOK
  <2>2. \A u \in Sessions : u # None
    BY NoneAssumption
  <2>3. /\ \A k, u, q : Says(k, u, q)' <=>
             Says(k, u, q) \/ (k = "ParticipantAdded" /\ u = t.session /\ q = p)
        /\ \A u : Created(u)' <=> Created(u)
    BY <2>1, StoreSays
  <2>4. \A q \in Participants, u \in Sessions :
           /\ participant'[q].session = u <=> Says("ParticipantAdded", u, q)'
           /\ participant'[q].session = u /\ participant'[q].authorized
                <=> Says("ParticipantAuthorized", u, q)'
    BY <2>1, <2>2, <2>3 DEF TablesInv
  <2>5. \A u \in Sessions : session'[u].status # "ABSENT" <=> Created(u)'
    BY <2>1, <2>3, CommitRows DEF TablesInv
  <2>6. \A u \in active' : u.kind = "ParticipantAuthorized" =>
           u.pid \in Participants /\ participant'[u.pid].session = u.session
    BY <2>1, <2>2, CommitRows DEF TablesInv
  <2>7. \A u \in active' : /\ session'[u.session].status # "ABSENT"
                           /\ u.row.status # "ABSENT"
    BY <2>1, CommitRows DEF TablesInv
  <2> QED BY <2>4, <2>5, <2>6, <2>7 DEF TablesInv
<1>7. ASSUME NEW t \in active, CommitAuthorize(t)
      PROVE  TablesInv'
  <2>1. /\ t.kind = "ParticipantAuthorized" /\ Commit(t, now, t.pid)
        /\ Store(t.id, t.kind, t.session, t.row.version, now, t.pid, t.amount)
        /\ t.pid \in Participants /\ participant[t.pid].session = t.session
    BY <1>7 DEF CommitAuthorize, Commit, TablesInv
  <2>2. /\ \A q \in Participants : q # t.pid => participant'[q] = participant[q]
        /\ participant'[t.pid].session = t.session
        /\ participant'[t.pid].authorized = TRUE
    <3>1. participant' = [participant EXCEPT ![t.pid] =
                            [participant[t.pid] EXCEPT !.authorized = TRUE]]
      BY <1>7 DEF CommitAuthorize
    <3>2. participant[t.pid] \in ParticipantRow
      BY <2>1 DEF TypeOK
    <3> QED BY <2>1, <3>1, <3>2 DEF TypeOK, ParticipantRow
  <2>3. /\ \A k, u, q : Says(k, u, q)' <=>
             Says(k, u, q) \/ (k = "ParticipantAuthorized" /\ u = t.session /\ q = t.pid)
        /\ \A u : Created(u)' <=> Created(u)
    BY <2>1, StoreSays
  <2>4. \A q \in Participants, u \in Sessions :
           /\ participant'[q].session = u <=> Says("ParticipantAdded", u, q)'
           /\ participant'[q].session = u /\ participant'[q].authorized
                <=> Says("ParticipantAuthorized", u, q)'
    BY <2>1, <2>2, <2>3 DEF TablesInv
  <2>5. \A u \in Sessions : session'[u].status # "ABSENT" <=> Created(u)'
    BY <2>1, <2>3, CommitRows DEF TablesInv
  <2>6. \A u \in active' : u.kind = "ParticipantAuthorized" =>
           u.pid \in Participants /\ participant'[u.pid].session = u.session
    BY <2>1, <2>2, CommitRows DEF TablesInv
  <2>7. \A u \in active' : /\ session'[u.session].status # "ABSENT"
                           /\ u.row.status # "ABSENT"
    BY <2>1, CommitRows DEF TablesInv
  <2> QED BY <2>4, <2>5, <2>6, <2>7 DEF TablesInv
<1>8. ASSUME NEW t \in active, CommitClose(t)
      PROVE  TablesInv'
  <2>1. /\ t.kind = "SplitCompleted" /\ Commit(t, t.row.closedAt, None)
        /\ Store(t.id, t.kind, t.session, t.row.version, t.row.closedAt, None, t.amount)
        /\ participant' = participant
    BY <1>8 DEF CommitClose, Commit
  <2>2. /\ \A k, u, q : k # "SplitCompleted" => (Says(k, u, q)' <=> Says(k, u, q))
        /\ \A u : Created(u)' <=> Created(u)
    BY <2>1, StoreSays
  <2>3. \A u \in Sessions : session'[u].status # "ABSENT" <=> Created(u)'
    BY <2>1, <2>2, CommitRows DEF TablesInv
  <2>4. \A u \in active' : /\ session'[u.session].status # "ABSENT"
                           /\ u.row.status # "ABSENT"
    BY <2>1, CommitRows DEF TablesInv
  <2> QED BY <2>1, <2>2, <2>3, <2>4, CommitRows DEF TablesInv
<1>9. ASSUME session' = session, participant' = participant, outbox' = outbox,
             active' \subseteq active
      PROVE  TablesInv'
  <2>1. /\ \A k, u, q : Says(k, u, q)' <=> Says(k, u, q)
        /\ \A u : Created(u)' <=> Created(u)
    BY <1>9 DEF Says, Created
  <2> QED BY <1>9, <2>1 DEF TablesInv
<1>10. ASSUME NEW t \in active, Rollback(t)
       PROVE  TablesInv'
  BY <1>9, <1>10 DEF Rollback
<1>11. CASE Tick \/ UNCHANGED vars
  BY <1>9, <1>11 DEF Tick, vars
<1> QED
  BY <1>1, <1>3, <1>4, <1>5, <1>6, <1>7, <1>8, <1>10, <1>11 DEF Next

(* The outbox tells the story of the tables, even when requests overlap    *)
(* and transactions are lost.                                              *)
THEOREM TablesMatch == Spec => []OutboxMatchesTables
<1>1. TablesInv => OutboxMatchesTables
  BY DEF TablesInv, OutboxMatchesTables, Says, Created, EventsOf
<1> QED
  BY <1>1, InitType, NextType, InitTables, NextTables, PTL DEF Spec

(* A COMPLETED session never changes again, nor do its participants, if    *)
(* its requests do not overlap.                                            *)
THEOREM CompletedForGood ==
    ASSUME Overlap = FALSE
    PROVE  Spec => CompletedIsFinal
<1> DEFINE Final == \A s \in Sessions : session[s].status = "COMPLETED" =>
                       /\ session'[s] = session[s]
                       /\ PartsOf(s)' = PartsOf(s)
                       /\ \A p \in PartsOf(s) : participant'[p] = participant[p]
<1>1. ASSUME TypeOK, SerialInv, TablesInv, [Next]_vars
      PROVE  Final
  <2>1. ASSUME participant' = participant,
               \A s \in Sessions : session[s].status = "COMPLETED"
                                     => session'[s] = session[s]
        PROVE  Final
    BY <2>1 DEF PartsOf
  <2>2. ASSUME NEW t \in active, NEW at, NEW pid, Commit(t, at, pid),
               NEW p \in Participants, participant[p].session \in {None, t.session},
               participant'[p].session = t.session,
               \A q \in Participants : q # p => participant'[q] = participant[q]
        PROVE  Final
    <3>1. /\ session[t.session].status = "OPEN"
          /\ \A s \in Sessions : s # t.session => session'[s] = session[s]
      BY <1>1, <2>2, CommitRows DEF SerialInv, TxInv
    <3>2. \A s \in Sessions : s # None
      BY NoneAssumption
    <3>3. ASSUME NEW s \in Sessions, s # t.session
          PROVE  /\ PartsOf(s)' = PartsOf(s)
                 /\ \A q \in PartsOf(s) : participant'[q] = participant[q]
      BY <2>2, <3>2, <3>3 DEF PartsOf
    <3> QED BY <3>1, <3>3
  <2>3. ASSUME NEW r \in Arriving, NEW s \in Sessions, NEW total \in Amounts,
               Create(r, s, total)
        PROVE  Final
    BY <2>1, <2>3 DEF Create, TypeOK
  <2>4. ASSUME NEW r \in Arriving, NEW s \in Sessions, NEW share \in Amounts,
               LoadAddParticipant(r, s, share)
        PROVE  Final
    BY <2>1, <2>4 DEF LoadAddParticipant, Load
  <2>5. ASSUME NEW r \in Arriving, NEW s \in Sessions, NEW p \in Participants,
               LoadAuthorize(r, s, p)
        PROVE  Final
    BY <2>1, <2>5 DEF LoadAuthorize, Load
  <2>6. ASSUME NEW r \in Arriving, NEW s \in Sessions, LoadClose(r, s)
        PROVE  Final
    BY <2>1, <2>6 DEF LoadClose, Load
  <2>7. ASSUME NEW t \in active, NEW p \in Participants, CommitAddParticipant(t, p)
        PROVE  Final
    BY <1>1, <2>2, <2>7 DEF CommitAddParticipant, TypeOK
  <2>8. ASSUME NEW t \in active, CommitAuthorize(t)
        PROVE  Final
    <3>1. /\ t.pid \in Participants /\ participant[t.pid].session = t.session
          /\ Commit(t, now, t.pid)
          /\ participant' = [participant EXCEPT ![t.pid] =
                               [participant[t.pid] EXCEPT !.authorized = TRUE]]
      BY <1>1, <2>8 DEF CommitAuthorize, TablesInv
    <3>2. participant'[t.pid].session = t.session
      <4>1. participant[t.pid] \in ParticipantRow
        BY <1>1, <3>1 DEF TypeOK
      <4> QED BY <1>1, <3>1, <4>1 DEF TypeOK, ParticipantRow
    <3> QED BY <1>1, <2>2, <3>1, <3>2 DEF TypeOK
  <2>9. ASSUME NEW t \in active, CommitClose(t)
        PROVE  Final
    <3>1. session[t.session].status = "OPEN"
      BY <1>1 DEF SerialInv, TxInv
    <3>2. Commit(t, t.row.closedAt, None) /\ participant' = participant
      BY <2>9 DEF CommitClose
    <3> QED BY <1>1, <2>1, <3>1, <3>2, CommitRows
  <2>10. ASSUME NEW t \in active, Rollback(t)
         PROVE  Final
    BY <2>1, <2>10 DEF Rollback
  <2>11. ASSUME Tick \/ UNCHANGED vars
         PROVE  Final
    BY <2>1, <2>11 DEF Tick, vars
  <2> QED
    BY <1>1, <2>3, <2>4, <2>5, <2>6, <2>7, <2>8, <2>9, <2>10, <2>11 DEF Next
<1>2. TypeOK /\ SerialInv /\ TablesInv /\ [Next]_vars => [Final]_vars
  BY <1>1
<1> QED
  BY <1>2, InitType, NextType, InitSerial, NextSerial, InitTables, NextTables, PTL
  DEF Spec, CompletedIsFinal

-----------------------------------------------------------------------------
(* The times and the close of a session whose requests do not overlap.  A  *)
(* transaction that closes a session has taken its closedAt after the last *)
(* event of the session, and nothing comes in between.                     *)

TimeInv ==
    /\ \A e \in outbox : e.at <= now
    /\ VersionsFollowTime
    /\ \A t \in active : t.kind = "SplitCompleted" =>
         /\ t.row.closedAt <= now
         /\ \A e \in outbox : e.session = t.session => e.at <= t.row.closedAt

CloseInv ==
    /\ \A e \in outbox : e.kind = "SplitCompleted" =>
         /\ session[e.session].status = "COMPLETED"
         /\ e.version = session[e.session].version
         /\ e.at = session[e.session].closedAt
    /\ \A s \in Sessions : session[s].status = "COMPLETED" =>
         \E e \in outbox : e.session = s /\ e.kind = "SplitCompleted"

EventInv == TimeInv /\ CloseInv

LEMMA InitEvents == Init => EventInv
BY DEF Init, EventInv, TimeInv, CloseInv, VersionsFollowTime

(* Loading changes no table; a transaction that closes has just taken its  *)
(* time.                                                                   *)
LEMMA LoadEvents ==
    ASSUME TypeOK, EventInv, NEW r, NEW kind, NEW s \in Sessions, NEW row \in Row,
           NEW pid, NEW amount, Load(r, kind, s, row, pid, amount),
           kind = "SplitCompleted" => row.closedAt = now
    PROVE  EventInv'
<1> DEFINE t == [id |-> r, kind |-> kind, session |-> s,
                 row |-> [row EXCEPT !.version = @ + 1],
                 pid |-> pid, amount |-> amount]
<1>1. /\ active' = active \cup {t}
      /\ outbox' = outbox /\ session' = session /\ now' = now
  BY DEF Load
<1>2. t.kind = kind /\ t.row.closedAt = row.closedAt
  BY DEF Row
<1> HIDE DEF t
<1>3. now \in Nat
  BY DEF TypeOK
<1> QED BY <1>1, <1>2, <1>3 DEF EventInv, TimeInv, CloseInv, VersionsFollowTime

(* A commit stores an event that is the last of its session in version and *)
(* in time.                                                                *)
LEMMA CommitEvents ==
    ASSUME TypeOK, SerialInv, TablesInv, EventInv,
           NEW t \in active, NEW at \in Nat, NEW pid, Commit(t, at, pid),
           at <= now,
           \A e \in outbox : e.session = t.session => e.at <= at,
           t.kind = "SplitCompleted" => at = t.row.closedAt
    PROVE  EventInv'
<1> DEFINE e == [id |-> t.id, kind |-> t.kind, session |-> t.session,
                 version |-> t.row.version, at |-> at, pid |-> pid,
                 amount |-> t.amount]
<1>1. /\ outbox' = outbox \cup {e} /\ active' = active \ {t} /\ now' = now
      /\ e.session = t.session /\ e.version = t.row.version /\ e.at = at
      /\ e.kind = t.kind
  BY DEF Commit, Store
<1> HIDE DEF e
<1>2. /\ t.session \in Sessions
      /\ session[t.session].status = "OPEN"
      /\ t.row.version = session[t.session].version + 1
      /\ t.row.status = IF t.kind = "SplitCompleted" THEN "COMPLETED" ELSE "OPEN"
      /\ session[t.session].version \in Nat
  BY DEF TypeOK, Tx, Row, SerialInv, TxInv
<1>3. /\ session'[t.session] = t.row
      /\ \A s \in Sessions : s # t.session => session'[s] = session[s]
  BY CommitRows
<1>4. \A f \in outbox : f.session \in Sessions /\ f.version \in Nat /\ f.at \in Nat
                        /\ f.version \in 1..session[f.session].version
  BY DEF TypeOK, Event, SerialInv, VersionInv
<1>5. \A u \in active' : u.session # t.session
  BY <1>1 DEF SerialInv, TxInv
<1>6. VersionsFollowTime'
  <2>1. \A f \in outbox : f.session = t.session => f.version < e.version /\ f.at <= e.at
    BY <1>1, <1>2, <1>4
  <2>2. \A f, g \in outbox : f.session = g.session /\ f.version < g.version
                               => f.at <= g.at
    BY DEF EventInv, TimeInv, VersionsFollowTime
  <2>3. e.version \in Nat
    BY <1>1, <1>2
  <2> QED BY <1>1, <1>4, <2>1, <2>2, <2>3 DEF VersionsFollowTime
<1>7. TimeInv'
  BY <1>1, <1>5, <1>6 DEF EventInv, TimeInv
<1>8. \A f \in outbox : f.session = t.session => f.kind # "SplitCompleted"
  BY <1>2 DEF EventInv, CloseInv
<1>9. CloseInv'
  <2>1. \A f \in outbox' : f.kind = "SplitCompleted" =>
           /\ session'[f.session].status = "COMPLETED"
           /\ f.version = session'[f.session].version
           /\ f.at = session'[f.session].closedAt
    BY <1>1, <1>2, <1>3, <1>4, <1>8 DEF EventInv, CloseInv
  <2>2. \A s \in Sessions : session'[s].status = "COMPLETED" =>
           \E f \in outbox' : f.session = s /\ f.kind = "SplitCompleted"
    BY <1>1, <1>2, <1>3 DEF EventInv, CloseInv
  <2> QED BY <2>1, <2>2 DEF CloseInv
<1> QED BY <1>7, <1>9 DEF EventInv

LEMMA NextEvents ==
    TypeOK /\ SerialInv /\ TablesInv /\ EventInv /\ [Next]_vars => EventInv'
<1> SUFFICES ASSUME TypeOK, SerialInv, TablesInv, EventInv, [Next]_vars
             PROVE  EventInv'
  OBVIOUS
<1>0. now \in Nat /\ \A e \in outbox : e.at <= now
  BY DEF TypeOK, EventInv, TimeInv
<1>1. ASSUME NEW r \in Arriving, NEW s \in Sessions, NEW total \in Amounts,
             Create(r, s, total)
      PROVE  EventInv'
  <2> DEFINE e == [id |-> r, kind |-> "SplitCreated", session |-> s,
                   version |-> 1, at |-> now, pid |-> None, amount |-> total]
             row == [status |-> "OPEN", version |-> 1, total |-> Stored(total),
                     closedAt |-> None]
  <2>1. /\ session' = [session EXCEPT ![s] = row] /\ row.status = "OPEN"
        /\ outbox' = outbox \cup {e} /\ active' = active /\ now' = now
        /\ e.session = s /\ e.version = 1 /\ e.at = now /\ e.kind = "SplitCreated"
        /\ session[s].status = "ABSENT"
    BY <1>1 DEF Create, Store
  <2> HIDE DEF e, row
  <2>2. \A u \in Sessions : \/ u # s /\ session'[u] = session[u]
                            \/ u = s /\ session'[u] = row
    BY <2>1 DEF TypeOK
  <2>3. \A f \in outbox : f.session \in Sessions /\ f.session # s
    BY <2>1 DEF SerialInv, VersionInv, TypeOK, Event
  <2>4. \A t \in active : t.session # s
    BY <2>1 DEF TablesInv
  <2>5. TimeInv'
    BY <1>0, <2>1, <2>3, <2>4 DEF EventInv, TimeInv, VersionsFollowTime
  <2>6. CloseInv'
    BY <2>1, <2>2, <2>3 DEF EventInv, CloseInv
  <2> QED BY <2>5, <2>6 DEF EventInv
<1>2. ASSUME NEW r \in Arriving, NEW s \in Sessions, NEW share \in Amounts,
             LoadAddParticipant(r, s, share)
      PROVE  EventInv'
  BY <1>2, LoadEvents DEF LoadAddParticipant, TypeOK
<1>3. ASSUME NEW r \in Arriving, NEW s \in Sessions, NEW p \in Participants,
             LoadAuthorize(r, s, p)
      PROVE  EventInv'
  BY <1>3, LoadEvents DEF LoadAuthorize, TypeOK
<1>4. ASSUME NEW r \in Arriving, NEW s \in Sessions, LoadClose(r, s)
      PROVE  EventInv'
  <2> DEFINE row == [session[s] EXCEPT !.status = "COMPLETED", !.closedAt = now]
  <2>1. row \in Row /\ row.closedAt = now
    BY DEF TypeOK, Row
  <2>2. Load(r, "SplitCompleted", s, row, None, 0)
    BY <1>4 DEF LoadClose
  <2> HIDE DEF row
  <2> QED BY <2>1, <2>2, LoadEvents
<1>5. ASSUME NEW t \in active, NEW p \in Participants, CommitAddParticipant(t, p)
      PROVE  EventInv'
  BY <1>0, <1>5, CommitEvents DEF CommitAddParticipant
<1>6. ASSUME NEW t \in active, CommitAuthorize(t)
      PROVE  EventInv'
  BY <1>0, <1>6, CommitEvents DEF CommitAuthorize
<1>7. ASSUME NEW t \in active, CommitClose(t)
      PROVE  EventInv'
  <2>1. t.kind = "SplitCompleted" /\ Commit(t, t.row.closedAt, None)
    BY <1>7 DEF CommitClose
  <2>2. t.row.closedAt \in Nat
    BY <2>1 DEF TypeOK, Tx, Row
  <2> QED BY <2>1, <2>2, CommitEvents DEF EventInv, TimeInv
<1>8. ASSUME session' = session, outbox' = outbox, active' \subseteq active,
             now' \in Nat, now <= now'
      PROVE  EventInv'
  <2>1. \A e \in outbox : e.at \in Nat
    BY DEF TypeOK, Event
  <2>2. \A t \in active : t.kind = "SplitCompleted" => t.row.closedAt \in Nat
    BY DEF TypeOK, Tx, Row
  <2> QED BY <1>0, <1>8, <2>1, <2>2
          DEF EventInv, TimeInv, CloseInv, VersionsFollowTime
<1>9. ASSUME NEW t \in active, Rollback(t)
      PROVE  EventInv'
  BY <1>0, <1>8, <1>9 DEF Rollback
<1>10. CASE Tick \/ UNCHANGED vars
  BY <1>0, <1>8, <1>10 DEF Tick, vars
<1> QED
  BY <1>1, <1>2, <1>3, <1>4, <1>5, <1>6, <1>7, <1>9, <1>10 DEF Next

(* The versions of a session's events are in the order of their times, if  *)
(* its requests do not overlap: sorting by time, as the relay does, and    *)
(* refusing times that go back, as the consumer does, loses nothing.       *)
THEOREM TimesFollowVersions ==
    ASSUME Overlap = FALSE
    PROVE  Spec => []VersionsFollowTime
<1>1. EventInv => VersionsFollowTime
  BY DEF EventInv, TimeInv
<1> QED
  BY <1>1, InitType, NextType, InitSerial, NextSerial, InitTables, NextTables,
     InitEvents, NextEvents, PTL DEF Spec

(* A close is published once, last, and with the time that the session     *)
(* keeps, if its requests do not overlap.                                  *)
THEOREM ClosedOnce ==
    ASSUME Overlap = FALSE
    PROVE  Spec => []CloseIsPublishedOnce
<1>1. TypeOK /\ EventInv => CloseIsPublishedOnce
  <2> SUFFICES ASSUME TypeOK, EventInv, NEW s \in Sessions
               PROVE  {<<e.version, e.at>> :
                         e \in {f \in EventsOf(s) : f.kind = "SplitCompleted"}}
                      = IF session[s].status = "COMPLETED"
                        THEN {<<session[s].version, session[s].closedAt>>} ELSE {}
    BY DEF CloseIsPublishedOnce
  <2> DEFINE closes == {f \in EventsOf(s) : f.kind = "SplitCompleted"}
  <2>1. \A e \in closes : /\ session[s].status = "COMPLETED"
                          /\ <<e.version, e.at>> = <<session[s].version, session[s].closedAt>>
    BY DEF EventInv, CloseInv, EventsOf
  <2>2. session[s].status = "COMPLETED" => closes # {}
    BY DEF EventInv, CloseInv, EventsOf
  <2> HIDE DEF closes
  <2>3. CASE session[s].status = "COMPLETED"
    BY <2>1, <2>2, <2>3 DEF closes
  <2>4. CASE session[s].status # "COMPLETED"
    BY <2>1, <2>4 DEF closes
  <2> QED BY <2>3, <2>4
<1> QED
  BY <1>1, InitType, NextType, InitSerial, NextSerial, InitTables, NextTables,
     InitEvents, NextEvents, PTL DEF Spec

-----------------------------------------------------------------------------
(* What is on record, however the requests of a session overlap. *)

(* What is on record of each event and of each open transaction.  The ids   *)
(* are those of requests, which are used once.                              *)
StoredInv ==
    /\ now <= MaxTime
    /\ \A s \in Sessions :
         /\ session[s].status = "ABSENT" => session[s].version = 0
         /\ session[s].closedAt \in 0..now \cup {None}
    /\ \A e \in outbox :
         /\ e.id \in used
         /\ session[e.session].status # "ABSENT"
         /\ IF e.kind = "SplitCreated" THEN e.version = 1 ELSE e.version >= 2
         /\ e.kind = "SplitCreated" =>
              e.amount \in Amounts /\ session[e.session].total = Stored(e.amount)
         /\ e.kind = "ParticipantAdded" =>
              /\ e.amount \in Amounts /\ e.pid \in Participants
              /\ participant[e.pid].share = Stored(e.amount)
         /\ e.kind = "ParticipantAuthorized" => e.pid \in Participants
    /\ \A t \in active :
         /\ t.id \in used
         /\ \A e \in outbox : e.id # t.id
         /\ \A u \in active : u.id = t.id => u = t
         /\ t.kind # "SplitCreated"
         /\ t.row.version >= 2
         /\ t.row.total = session[t.session].total
         /\ t.row.closedAt \in 0..now \cup {None}
         /\ t.kind = "ParticipantAdded" => t.amount \in Amounts

LEMMA InitStored == Init => StoredInv
BY MaxTimeAssumption DEF Init, StoredInv

(* A load stores nothing, and its request is new. *)
LEMMA LoadStored ==
    ASSUME TypeOK, StoredInv, NEW r \in Arriving, NEW kind \in Kinds, NEW s \in Sessions,
           NEW row \in Row, NEW pid, NEW amount, Load(r, kind, s, row, pid, amount),
           kind # "SplitCreated", row.version >= 1, row.total = session[s].total,
           row.closedAt \in 0..now \cup {None},
           kind = "ParticipantAdded" => amount \in Amounts
    PROVE  StoredInv'
<1> DEFINE t == [id |-> r, kind |-> kind, session |-> s,
                 row |-> [row EXCEPT !.version = @ + 1],
                 pid |-> pid, amount |-> amount]
<1>1. /\ active' = active \cup {t} /\ used' = used \cup {r}
      /\ outbox' = outbox /\ session' = session /\ participant' = participant
      /\ now' = now
  BY DEF Load
<1>2. /\ t.id = r /\ t.kind = kind /\ t.session = s /\ t.amount = amount
      /\ t.row.version >= 2 /\ t.row.total = row.total /\ t.row.closedAt = row.closedAt
  BY DEF Row
<1>3. r \notin used
  BY ArrivingIsNew
<1> HIDE DEF t
<1>4. \A u \in active' : u \in active \/ u = t
  BY <1>1
<1> QED BY <1>1, <1>2, <1>3, <1>4 DEF StoredInv

(* A commit stores an event of its own id. *)
LEMMA CommitStored ==
    ASSUME TypeOK, TablesInv, StoredInv, NEW t \in active, NEW at, NEW pid,
           Commit(t, at, pid),
           t.kind \in {"ParticipantAdded", "ParticipantAuthorized"} => pid \in Participants,
           t.kind = "ParticipantAdded" => participant'[pid].share = Stored(t.amount),
           \A e \in outbox : e.kind = "ParticipantAdded" =>
             participant'[e.pid].share = participant[e.pid].share
    PROVE  StoredInv'
<1> DEFINE e == [id |-> t.id, kind |-> t.kind, session |-> t.session,
                 version |-> t.row.version, at |-> at, pid |-> pid,
                 amount |-> t.amount]
<1>1. /\ outbox' = outbox \cup {e} /\ active' = active \ {t} /\ now' = now /\ used' = used
      /\ e.session = t.session /\ e.version = t.row.version /\ e.pid = pid
      /\ e.kind = t.kind /\ e.id = t.id /\ e.amount = t.amount
  BY DEF Commit, Store
<1> HIDE DEF e
<1>2. /\ t.session \in Sessions /\ session'[t.session] = t.row /\ t.row.status # "ABSENT"
      /\ \A s \in Sessions : s # t.session => session'[s] = session[s]
  BY CommitRows
<1>3. \A f \in outbox : f.session \in Sessions
  BY DEF TypeOK, Event
<1>4. \A u \in active : u.session \in Sessions
  BY DEF TypeOK, Tx
<1>5. t.row.total = session[t.session].total /\ t.id \in used /\ t.kind # "SplitCreated"
      /\ t.row.version >= 2 /\ t.row.closedAt \in 0..now \cup {None}
      /\ (t.kind = "ParticipantAdded" => t.amount \in Amounts)
  BY DEF StoredInv
<1>6. \A s \in Sessions : session'[s].total = session[s].total
  BY <1>2, <1>5
<1>7. \A s \in Sessions : /\ session'[s].status = "ABSENT" => session'[s].version = 0
                          /\ session'[s].closedAt \in 0..now \cup {None}
  BY <1>2, <1>5 DEF StoredInv
<1>8. \A s \in Sessions : session[s].status # "ABSENT" => session'[s].status # "ABSENT"
  BY <1>2
<1>9. ASSUME NEW f \in outbox'
      PROVE  /\ f.id \in used'
             /\ session'[f.session].status # "ABSENT"
             /\ IF f.kind = "SplitCreated" THEN f.version = 1 ELSE f.version >= 2
             /\ f.kind = "SplitCreated" =>
                  f.amount \in Amounts /\ session'[f.session].total = Stored(f.amount)
             /\ f.kind = "ParticipantAdded" =>
                  /\ f.amount \in Amounts /\ f.pid \in Participants
                  /\ participant'[f.pid].share = Stored(f.amount)
             /\ f.kind = "ParticipantAuthorized" => f.pid \in Participants
  <2>1. CASE f = e
    BY <1>1, <1>2, <1>5, <2>1
  <2>2. CASE f \in outbox
    BY <1>1, <1>3, <1>6, <1>8, <2>2 DEF StoredInv
  <2> QED BY <1>1, <2>1, <2>2
<1>10. ASSUME NEW u \in active'
       PROVE  /\ u.id \in used'
              /\ \A f \in outbox' : f.id # u.id
              /\ \A w \in active' : w.id = u.id => w = u
              /\ u.kind # "SplitCreated"
              /\ u.row.version >= 2
              /\ u.row.total = session'[u.session].total
              /\ u.row.closedAt \in 0..now' \cup {None}
              /\ u.kind = "ParticipantAdded" => u.amount \in Amounts
  <2>1. u \in active /\ u # t
    BY <1>1
  <2>2. u.id # t.id
    BY <2>1 DEF StoredInv
  <2> QED BY <1>1, <1>4, <1>6, <2>1, <2>2 DEF StoredInv
<1>11. now' <= MaxTime
  BY <1>1 DEF StoredInv
<1> QED BY <1>1, <1>7, <1>9, <1>10, <1>11 DEF StoredInv

LEMMA NextStored == TypeOK /\ GapInv /\ TablesInv /\ StoredInv /\ [Next]_vars => StoredInv'
<1> SUFFICES ASSUME TypeOK, GapInv, TablesInv, StoredInv, [Next]_vars PROVE StoredInv'
  OBVIOUS
<1>0. /\ \A s \in Sessions : /\ session[s] \in Row
                             /\ session[s].status # "ABSENT" => session[s].version >= 1
                             /\ session[s].closedAt \in 0..now \cup {None}
      /\ now \in Nat
  BY DEF TypeOK, GapInv, StoredInv
<1>1. ASSUME NEW r \in Arriving, NEW s \in Sessions, NEW total \in Amounts,
             Create(r, s, total)
      PROVE  StoredInv'
  <2> DEFINE e == [id |-> r, kind |-> "SplitCreated", session |-> s,
                   version |-> 1, at |-> now, pid |-> None, amount |-> total]
             row == [status |-> "OPEN", version |-> 1, total |-> Stored(total),
                     closedAt |-> None]
  <2>1. /\ session' = [session EXCEPT ![s] = row] /\ row.status = "OPEN"
        /\ row.total = Stored(total) /\ row.closedAt = None
        /\ outbox' = outbox \cup {e} /\ active' = active /\ now' = now
        /\ used' = used \cup {r} /\ participant' = participant
        /\ e.session = s /\ e.version = 1 /\ e.kind = "SplitCreated" /\ e.id = r
        /\ e.amount = total
        /\ session[s].status = "ABSENT"
    BY <1>1 DEF Create, Store
  <2> HIDE DEF e, row
  <2>2. \A u \in Sessions : \/ u # s /\ session'[u] = session[u]
                            \/ u = s /\ session'[u] = row
    BY <2>1 DEF TypeOK
  <2>3. \A f \in outbox : f.session \in Sessions /\ f.session # s
    BY <2>1 DEF StoredInv, TypeOK, Event
  <2>4. \A t \in active : t.session # s /\ t.session \in Sessions
    BY <2>1 DEF TablesInv, TypeOK, Tx
  <2>5. r \notin used
    BY ArrivingIsNew
  <2>6. session'[s] = row
    BY <2>2
  <2>7. ASSUME NEW f \in outbox'
        PROVE  /\ f.id \in used'
               /\ session'[f.session].status # "ABSENT"
               /\ IF f.kind = "SplitCreated" THEN f.version = 1 ELSE f.version >= 2
               /\ f.kind = "SplitCreated" =>
                    f.amount \in Amounts /\ session'[f.session].total = Stored(f.amount)
               /\ f.kind = "ParticipantAdded" =>
                    /\ f.amount \in Amounts /\ f.pid \in Participants
                    /\ participant'[f.pid].share = Stored(f.amount)
               /\ f.kind = "ParticipantAuthorized" => f.pid \in Participants
    <3>1. CASE f = e
      BY <2>1, <2>6, <3>1
    <3>2. CASE f \in outbox
      BY <2>1, <2>2, <2>3, <3>2 DEF StoredInv
    <3> QED BY <2>1, <3>1, <3>2
  <2>8. \A t \in active : t.id # r /\ session'[t.session] = session[t.session]
    BY <2>2, <2>4, <2>5 DEF StoredInv
  <2>9. \A u \in Sessions : /\ session'[u].status = "ABSENT" => session'[u].version = 0
                            /\ session'[u].closedAt \in 0..now \cup {None}
    BY <2>1, <2>2 DEF StoredInv
  <2> QED BY <2>1, <2>7, <2>8, <2>9 DEF StoredInv
<1>2. ASSUME NEW r \in Arriving, NEW s \in Sessions, NEW share \in Amounts,
             LoadAddParticipant(r, s, share)
      PROVE  StoredInv'
  BY <1>0, <1>2, LoadStored DEF LoadAddParticipant, Kinds
<1>3. ASSUME NEW r \in Arriving, NEW s \in Sessions, NEW p \in Participants,
             LoadAuthorize(r, s, p)
      PROVE  StoredInv'
  BY <1>0, <1>3, LoadStored DEF LoadAuthorize, Kinds
<1>4. ASSUME NEW r \in Arriving, NEW s \in Sessions, LoadClose(r, s)
      PROVE  StoredInv'
  <2> DEFINE row == [session[s] EXCEPT !.status = "COMPLETED", !.closedAt = now]
  <2>1. /\ row \in Row /\ row.closedAt = now /\ row.version = session[s].version
        /\ row.total = session[s].total
    BY <1>0 DEF Row
  <2>2. Load(r, "SplitCompleted", s, row, None, 0) /\ session[s].status = "OPEN"
    BY <1>4 DEF LoadClose
  <2>3. now \in 0..now
    BY <1>0
  <2> HIDE DEF row
  <2> QED BY <1>0, <2>1, <2>2, <2>3, LoadStored DEF Kinds
<1>5. ASSUME NEW t \in active, NEW p \in Participants, CommitAddParticipant(t, p)
      PROVE  StoredInv'
  <2>1. /\ participant[p].session = None
        /\ participant' = [participant EXCEPT ![p] =
              [session |-> t.session, share |-> Stored(t.amount), authorized |-> FALSE]]
        /\ Commit(t, now, p) /\ t.kind = "ParticipantAdded"
    BY <1>5 DEF CommitAddParticipant
  <2>2. \A e \in outbox : e.kind = "ParticipantAdded" => e.pid \in Participants /\ e.pid # p
    <3> SUFFICES ASSUME NEW e \in outbox, e.kind = "ParticipantAdded"
                 PROVE  e.pid \in Participants /\ e.pid # p
      OBVIOUS
    <3>1. e.session \in Sessions /\ e.pid \in Participants
      BY DEF TypeOK, Event, StoredInv
    <3>2. participant[e.pid].session = e.session
      BY <3>1 DEF TablesInv, Says
    <3> QED BY <2>1, <3>1, <3>2, NoneAssumption
  <2>3. /\ participant'[p].share = Stored(t.amount)
        /\ \A q \in Participants : q # p => participant'[q] = participant[q]
    BY <2>1 DEF TypeOK
  <2> QED BY <2>1, <2>2, <2>3, CommitStored
<1>6. ASSUME NEW t \in active, CommitAuthorize(t)
      PROVE  StoredInv'
  <2>1. /\ participant' = [participant EXCEPT ![t.pid].authorized = TRUE]
        /\ Commit(t, now, t.pid) /\ t.kind = "ParticipantAuthorized"
    BY <1>6 DEF CommitAuthorize
  <2>2. \A q \in Participants : participant'[q].share = participant[q].share
    BY <2>1 DEF TypeOK, ParticipantRow
  <2>3. t.pid \in Participants
    BY <2>1 DEF TablesInv
  <2>4. \A e \in outbox : e.kind = "ParticipantAdded" => e.pid \in Participants
    BY DEF StoredInv
  <2> QED BY <2>1, <2>2, <2>3, <2>4, CommitStored
<1>7. ASSUME NEW t \in active, CommitClose(t)
      PROVE  StoredInv'
  BY <1>7, CommitStored DEF CommitClose
<1>8. ASSUME session' = session, outbox' = outbox, active' \subseteq active,
             participant' = participant, used' = used,
             now' \in Nat, now <= now', now' <= MaxTime
      PROVE  StoredInv'
  <2>1. 0..now \subseteq 0..now'
    BY <1>0, <1>8
  <2> QED BY <1>8, <2>1 DEF StoredInv
<1>9. ASSUME NEW t \in active, Rollback(t)
      PROVE  StoredInv'
  <2>1. now <= MaxTime
    BY DEF StoredInv
  <2> QED BY <1>0, <1>8, <1>9, <2>1 DEF Rollback
<1>10. CASE Tick
  BY <1>0, <1>8, <1>10, MaxTimeAssumption DEF Tick
<1>11. CASE UNCHANGED vars
  <2>1. now <= MaxTime
    BY DEF StoredInv
  <2> QED BY <1>0, <1>8, <1>11, <2>1 DEF vars
<1> QED
  BY <1>1, <1>2, <1>3, <1>4, <1>5, <1>6, <1>7, <1>9, <1>10, <1>11 DEF Next

-----------------------------------------------------------------------------
(* The row of a session and its events.  An overlap may lose an update: the  *)
(* commit of an old copy takes the row back.  But then it stores an event    *)
(* whose version another event has, and that is there to be seen for ever.   *)

(* No two events of session s carry one version. *)
Distinct(s) ==
    \A e, f \in outbox :
        e.session = s /\ f.session = s /\ e.version = f.version => e = f

(* The row that t will store is made from the row of its session as it is.  *)
UpToDate(t) ==
    /\ session[t.session].status = "OPEN"
    /\ t.row.status = IF t.kind = "SplitCompleted" THEN "COMPLETED" ELSE "OPEN"
    /\ t.kind # "SplitCompleted" => t.row.closedAt = None
    /\ t.kind = "SplitCompleted" => Settled(t.session)

(* The row of session s is what its events say it is. *)
Booked(s) ==
    /\ \A e \in outbox : e.session = s => e.version \in 1..session[s].version
    /\ \A v \in 1..session[s].version : Announced(s, v)
    /\ \A e \in outbox : e.session = s /\ e.kind = "SplitCompleted" =>
         /\ session[s].status = "COMPLETED"
         /\ e.version = session[s].version
         /\ e.at = session[s].closedAt
    /\ session[s].status = "COMPLETED" =>
         /\ \E e \in outbox : e.session = s /\ e.kind = "SplitCompleted"
         /\ Settled(s)
    /\ session[s].status = "OPEN" => session[s].closedAt = None

(* What keeps it so: a transaction either loaded the row as it is or will   *)
(* store a version that is there already.                                   *)
Queued(s) ==
    \A t \in active : t.session = s =>
        /\ t.row.version <= session[s].version + 1
        /\ t.row.version = session[s].version + 1 => UpToDate(t)

LedgerInv == \A s \in Sessions : Distinct(s) => Booked(s) /\ Queued(s)

LEMMA InitLedger == Init => LedgerInv
<1>1. 1..0 = {}
  OBVIOUS
<1> QED BY <1>1 DEF Init, LedgerInv, Booked, Queued

(* What leaves a session, its events, its open transactions and the shares *)
(* of its participants alone leaves its ledger alone.                      *)
LEMMA SameLedger ==
    ASSUME TypeOK, NEW s \in Sessions, Distinct(s) => Booked(s) /\ Queued(s),
           session'[s] = session[s],
           \A e \in outbox : e.session = s => e \in outbox',
           \A e \in outbox' : e.session = s => e \in outbox,
           \A t \in active' : t.session = s => t \in active,
           Settled(s) => Settled(s)'
    PROVE  Distinct(s)' => Booked(s)' /\ Queued(s)'
<1> SUFFICES ASSUME Distinct(s)' PROVE Booked(s)' /\ Queued(s)'
  OBVIOUS
<1>1. Distinct(s)
  BY DEF Distinct
<1>2. Booked(s) /\ Queued(s)
  BY <1>1
<1>3. \A v : Announced(s, v) => Announced(s, v)'
  BY DEF Announced
<1>4. Booked(s)'
  BY <1>2, <1>3 DEF Booked
<1>5. \A t \in active : t.session = s /\ UpToDate(t) => UpToDate(t)'
  BY DEF UpToDate
<1>6. Queued(s)'
  BY <1>2, <1>5 DEF Queued
<1> QED BY <1>4, <1>6

(* What is loaded is the row as it is. *)
LEMMA LoadLedger ==
    ASSUME TypeOK, LedgerInv, NEW r, NEW kind, NEW s \in Sessions,
           NEW row \in Row, NEW pid, NEW amount, Load(r, kind, s, row, pid, amount),
           session[s].status = "OPEN", row.version = session[s].version,
           row.status = IF kind = "SplitCompleted" THEN "COMPLETED" ELSE "OPEN",
           kind # "SplitCompleted" => row = session[s],
           kind = "SplitCompleted" => Settled(s)
    PROVE  LedgerInv'
<1> DEFINE t == [id |-> r, kind |-> kind, session |-> s,
                 row |-> [row EXCEPT !.version = @ + 1],
                 pid |-> pid, amount |-> amount]
<1>1. /\ active' = active \cup {t}
      /\ outbox' = outbox /\ session' = session /\ participant' = participant
  BY DEF Load
<1>2. /\ t.kind = kind /\ t.session = s
      /\ t.row.version = session[s].version + 1
      /\ t.row.status = row.status /\ t.row.closedAt = row.closedAt
      /\ session[s].version \in Nat
  BY DEF TypeOK, Row
<1> HIDE DEF t
<1>3. \A u \in Sessions : Settled(u) => Settled(u)'
  BY <1>1, SettledUnchanged
<1> SUFFICES ASSUME NEW u \in Sessions, Distinct(u)' PROVE Booked(u)' /\ Queued(u)'
  BY DEF LedgerInv
<1>4. Distinct(u)
  BY <1>1 DEF Distinct
<1>5. Booked(u) /\ Queued(u)
  BY <1>4 DEF LedgerInv
<1>6. Booked(u)'
  BY <1>1, <1>3, <1>5 DEF Booked, Announced
<1>7. ASSUME NEW w \in active', w.session = u
      PROVE  /\ w.row.version <= session'[u].version + 1
             /\ w.row.version = session'[u].version + 1 => UpToDate(w)'
  <2>1. CASE w \in active
    <3>1. UpToDate(w) => UpToDate(w)'
      BY <1>1, <1>3, <1>7, <2>1 DEF UpToDate
    <3> QED BY <1>1, <1>5, <1>7, <2>1, <3>1 DEF Queued
  <2>2. CASE w = t
    <3>1. kind # "SplitCompleted" => row.closedAt = None
      BY <1>2, <1>5, <1>7, <2>2 DEF Booked
    <3>2. UpToDate(t)'
      BY <1>1, <1>2, <1>3, <3>1 DEF UpToDate
    <3> QED BY <1>1, <1>2, <1>7, <2>2, <3>2
  <2> QED BY <1>1, <2>1, <2>2
<1> QED BY <1>6, <1>7 DEF Queued

(* A transaction whose copy of the row is old stores a version that is there *)
(* already: the events of the session are then no longer distinct.           *)
LEMMA CommitLedger ==
    ASSUME TypeOK, TablesInv, StoredInv, LedgerInv,
           NEW t \in active, NEW at, NEW pid, Commit(t, at, pid),
           t.kind = "SplitCompleted" => at = t.row.closedAt,
           \A s \in Sessions : s # t.session /\ Settled(s) => Settled(s)',
           t.kind = "SplitCompleted" => participant' = participant
    PROVE  LedgerInv'
<1> DEFINE s == t.session
           n == session[s].version
           e == [id |-> t.id, kind |-> t.kind, session |-> s,
                 version |-> t.row.version, at |-> at, pid |-> pid,
                 amount |-> t.amount]
<1>1. /\ outbox' = outbox \cup {e} /\ active' = active \ {t}
      /\ e.session = s /\ e.version = t.row.version /\ e.at = at
      /\ e.kind = t.kind /\ e.id = t.id
  BY DEF Commit, Store
<1>2. /\ s \in Sessions /\ session'[s] = t.row /\ t.row \in Row /\ n \in Nat
      /\ \A u \in Sessions : u # s => session'[u] = session[u]
  BY CommitRows DEF TypeOK, Tx, Row
<1>n. n = session[s].version /\ s = t.session
  OBVIOUS
<1> HIDE DEF e, n, s
<1> SUFFICES ASSUME NEW u \in Sessions PROVE Distinct(u)' => Booked(u)' /\ Queued(u)'
  BY DEF LedgerInv
<1>3. CASE u # s
  <2>1. Distinct(u) => Booked(u) /\ Queued(u)
    BY DEF LedgerInv
  <2> QED BY <1>1, <1>2, <1>3, <1>n, <2>1, SameLedger
<1>4. CASE u = s
  <2> SUFFICES ASSUME Distinct(s)' PROVE Booked(s)' /\ Queued(s)'
    BY <1>4
  <2>1. Distinct(s) /\ \A f \in outbox : f.session = s => f.version # e.version
    <3>1. \A f \in outbox : f.id # e.id
      BY <1>1 DEF StoredInv
    <3> QED BY <1>1, <3>1 DEF Distinct
  <2>2. Booked(s) /\ Queued(s)
    BY <1>2, <2>1 DEF LedgerInv
  <2>3. t.row.version = n + 1 /\ UpToDate(t)
    <3>1. t.row.version <= n + 1 /\ t.row.version >= 2 /\ t.row.version \in Nat
      BY <1>2, <1>n, <2>2 DEF Queued, StoredInv, Row
    <3>2. t.row.version \notin 1..n
      BY <1>1, <1>n, <2>1, <2>2 DEF Booked, Announced
    <3>3. t.row.version = n + 1
      BY <1>2, <3>1, <3>2
    <3> QED BY <1>n, <2>2, <3>3 DEF Queued
  <2>4. \A f \in outbox : f.session = s => f.kind # "SplitCompleted"
    BY <1>n, <2>2, <2>3 DEF Booked, UpToDate
  <2>5. \A f \in outbox' : f.session = s => f.version \in 1..session'[s].version
    <3>1. \A f \in outbox : f.session = s => f.version \in 1..n
      BY <1>n, <2>2 DEF Booked
    <3> QED BY <1>1, <1>2, <2>3, <3>1
  <2>6. \A v \in 1..session'[s].version : Announced(s, v)'
    <3> SUFFICES ASSUME NEW v \in 1..(n + 1) PROVE Announced(s, v)'
      BY <1>2, <2>3
    <3>1. CASE v = n + 1
      BY <1>1, <2>3, <3>1 DEF Announced
    <3>2. CASE v # n + 1
      <4>1. v \in 1..n
        BY <1>2, <3>2
      <4>2. Announced(s, v)
        BY <1>n, <2>2, <4>1 DEF Booked
      <4> QED BY <1>1, <4>2 DEF Announced
    <3> QED BY <3>1, <3>2
  <2>7. t.kind = "SplitCompleted" => Settled(s)'
    <3> SUFFICES ASSUME t.kind = "SplitCompleted" PROVE Settled(s)'
      OBVIOUS
    <3>1. Settled(s) /\ session'[s].total = session[s].total
      BY <1>2, <1>n, <2>3 DEF UpToDate, StoredInv
    <3> QED BY <1>2, <3>1, SettledStays DEF PartsOf
  <2>8. Booked(s)'
    <3>1. t.row.status = IF t.kind = "SplitCompleted" THEN "COMPLETED" ELSE "OPEN"
      BY <2>3 DEF UpToDate
    <3>2. t.kind # "SplitCompleted" => t.row.closedAt = None
      BY <2>3 DEF UpToDate
    <3>3. \A f \in outbox' : f.session = s /\ f.kind = "SplitCompleted" => f = e
      BY <1>1, <2>4
    <3>4. e \in outbox' /\ e.version = n + 1 /\ session'[s].version = n + 1
      BY <1>1, <1>2, <2>3
    <3> QED BY <1>1, <1>2, <2>5, <2>6, <2>7, <3>1, <3>2, <3>3, <3>4 DEF Booked
  <2>9. Queued(s)'
    <3>1. ASSUME NEW w \in active', w.session = s
          PROVE  w.row.version <= n + 1
      BY <1>1, <1>n, <2>2, <3>1 DEF Queued
    <3>2. \A w \in active' : w.session = s => w.row.version \in Nat
      BY <1>1 DEF TypeOK, Tx, Row
    <3>3. session'[s].version = n + 1
      BY <1>2, <2>3
    <3> QED BY <1>2, <3>1, <3>2, <3>3 DEF Queued
  <2> QED BY <2>8, <2>9
<1> QED BY <1>3, <1>4

LEMMA NextLedger ==
    TypeOK /\ TablesInv /\ StoredInv /\ LedgerInv /\ [Next]_vars => LedgerInv'
<1> SUFFICES ASSUME TypeOK, TablesInv, StoredInv, LedgerInv, [Next]_vars
             PROVE  LedgerInv'
  OBVIOUS
<1>0. \A s \in Sessions : session[s] \in Row
  BY DEF TypeOK
<1>1. ASSUME NEW r \in Arriving, NEW s \in Sessions, NEW total \in Amounts,
             Create(r, s, total)
      PROVE  LedgerInv'
  <2> DEFINE e == [id |-> r, kind |-> "SplitCreated", session |-> s,
                   version |-> 1, at |-> now, pid |-> None, amount |-> total]
             row == [status |-> "OPEN", version |-> 1, total |-> Stored(total),
                     closedAt |-> None]
  <2>1. /\ session' = [session EXCEPT ![s] = row] /\ row.status = "OPEN"
        /\ row.version = 1 /\ row.closedAt = None
        /\ outbox' = outbox \cup {e} /\ active' = active /\ participant' = participant
        /\ e.session = s /\ e.version = 1 /\ e.kind = "SplitCreated"
        /\ session[s].status = "ABSENT"
    BY <1>1 DEF Create, Store
  <2> HIDE DEF e, row
  <2>2. /\ session'[s] = row
        /\ \A u \in Sessions : u # s => session'[u] = session[u]
    BY <2>1 DEF TypeOK
  <2>3. \A f \in outbox : f.session # s
    BY <2>1 DEF StoredInv
  <2>4. \A t \in active : t.session # s
    BY <2>1 DEF TablesInv
  <2>5. ASSUME NEW u \in Sessions PROVE Distinct(u)' => Booked(u)' /\ Queued(u)'
    <3>1. CASE u # s
      <4>1. Settled(u) => Settled(u)'
        BY <2>1, <2>2, <3>1, SettledUnchanged
      <4>2. Distinct(u) => Booked(u) /\ Queued(u)
        BY DEF LedgerInv
      <4> QED BY <2>1, <2>2, <3>1, <4>1, <4>2, SameLedger
    <3>2. CASE u = s
      <4>1. \A f \in outbox' : f.session = s => f = e
        BY <2>1, <2>3
      <4>2. \A v \in 1..1 : v = 1
        OBVIOUS
      <4>3. Announced(s, 1)'
        BY <2>1 DEF Announced
      <4>4. Booked(s)'
        BY <2>1, <2>2, <4>1, <4>2, <4>3 DEF Booked
      <4> QED BY <2>1, <2>4, <3>2, <4>4 DEF Queued
    <3> QED BY <3>1, <3>2
  <2> QED BY <2>5 DEF LedgerInv
<1>2. ASSUME NEW r \in Arriving, NEW s \in Sessions, NEW share \in Amounts,
             LoadAddParticipant(r, s, share)
      PROVE  LedgerInv'
  BY <1>0, <1>2, LoadLedger DEF LoadAddParticipant
<1>3. ASSUME NEW r \in Arriving, NEW s \in Sessions, NEW p \in Participants,
             LoadAuthorize(r, s, p)
      PROVE  LedgerInv'
  BY <1>0, <1>3, LoadLedger DEF LoadAuthorize
<1>4. ASSUME NEW r \in Arriving, NEW s \in Sessions, LoadClose(r, s)
      PROVE  LedgerInv'
  <2> DEFINE row == [session[s] EXCEPT !.status = "COMPLETED", !.closedAt = now]
  <2>1. row \in Row /\ row.version = session[s].version /\ row.status = "COMPLETED"
    BY <1>0 DEF TypeOK, Row
  <2>2. /\ Load(r, "SplitCompleted", s, row, None, 0)
        /\ session[s].status = "OPEN" /\ Settled(s)
    BY <1>4 DEF LoadClose
  <2> HIDE DEF row
  <2> QED BY <2>1, <2>2, LoadLedger
<1>5. ASSUME NEW t \in active, NEW p \in Participants, CommitAddParticipant(t, p)
      PROVE  LedgerInv'
  <2>1. /\ participant[p].session = None /\ t.kind = "ParticipantAdded"
        /\ participant' = [participant EXCEPT ![p] =
              [session |-> t.session, share |-> Stored(t.amount), authorized |-> FALSE]]
        /\ Commit(t, now, p)
    BY <1>5 DEF CommitAddParticipant
  <2>2. \A u \in Sessions : u # t.session => session'[u] = session[u]
    BY <2>1, CommitRows
  <2>3. ASSUME NEW u \in Sessions, u # t.session, Settled(u) PROVE Settled(u)'
    <3>1. participant'[p].session = t.session
          /\ \A q \in Participants : q # p => participant'[q] = participant[q]
      BY <2>1 DEF TypeOK
    <3>2. PartsOf(u)' = PartsOf(u) /\ p \notin PartsOf(u)
      BY <2>1, <2>3, <3>1, NoneAssumption DEF PartsOf
    <3> QED BY <2>2, <2>3, <3>1, <3>2, SettledStays DEF PartsOf
  <2> QED BY <2>1, <2>3, CommitLedger
<1>6. ASSUME NEW t \in active, CommitAuthorize(t)
      PROVE  LedgerInv'
  <2>1. /\ participant' = [participant EXCEPT ![t.pid].authorized = TRUE]
        /\ Commit(t, now, t.pid) /\ t.kind = "ParticipantAuthorized"
    BY <1>6 DEF CommitAuthorize
  <2>2. \A u \in Sessions : u # t.session => session'[u] = session[u]
    BY <2>1, CommitRows
  <2>3. ASSUME NEW u \in Sessions, u # t.session, Settled(u) PROVE Settled(u)'
    <3>1. \A q \in Participants : /\ participant'[q].share = participant[q].share
                                  /\ participant'[q].session = participant[q].session
                                  /\ participant[q].authorized => participant'[q].authorized
      BY <2>1 DEF TypeOK, ParticipantRow
    <3>2. PartsOf(u)' = PartsOf(u)
      BY <3>1 DEF PartsOf
    <3> QED BY <2>2, <2>3, <3>1, <3>2, SettledStays DEF PartsOf
  <2> QED BY <2>1, <2>3, CommitLedger
<1>7. ASSUME NEW t \in active, CommitClose(t)
      PROVE  LedgerInv'
  <2>1. Commit(t, t.row.closedAt, None) /\ participant' = participant
    BY <1>7 DEF CommitClose
  <2>2. \A u \in Sessions : u # t.session => session'[u] = session[u]
    BY <2>1, CommitRows
  <2>3. \A u \in Sessions : u # t.session /\ Settled(u) => Settled(u)'
    BY <2>1, <2>2, SettledUnchanged
  <2> QED BY <2>1, <2>3, CommitLedger
<1>8. ASSUME session' = session, outbox' = outbox, active' \subseteq active,
             participant' = participant
      PROVE  LedgerInv'
  <2>1. \A u \in Sessions : Settled(u) => Settled(u)'
    BY <1>8, SettledUnchanged
  <2>2. ASSUME NEW u \in Sessions PROVE Distinct(u)' => Booked(u)' /\ Queued(u)'
    BY <1>8, <2>1, SameLedger DEF LedgerInv
  <2> QED BY <2>2 DEF LedgerInv
<1>9. ASSUME NEW t \in active, Rollback(t)
      PROVE  LedgerInv'
  BY <1>8, <1>9 DEF Rollback
<1>10. CASE Tick \/ UNCHANGED vars
  BY <1>8, <1>10 DEF Tick, vars
<1> QED
  BY <1>1, <1>2, <1>3, <1>4, <1>5, <1>6, <1>7, <1>9, <1>10 DEF Next

-----------------------------------------------------------------------------
(* The sessions whose requests have not overlapped so far, whatever others   *)
(* do, for the systems that this one is part of.                             *)

(* At most one transaction of each session is open. *)
Apart == \A t, u \in active : t.session = u.session => t = u

(* What holds until two of them have been open at a time. *)
ApartInv ==
    /\ \A t \in active : t.row.version = session[t.session].version + 1
    /\ \A s \in Sessions : Distinct(s)

LEMMA InitApart == Init => Apart /\ ApartInv
BY DEF Init, Apart, ApartInv, Distinct

(* What a step does to the rows, the events and the participants of session *)
(* s: nothing at all, or it stores the one event that follows.              *)
Untouched(s) ==
    /\ session'[s] = session[s]
    /\ EventsOf(s)' = EventsOf(s)
    /\ PartsOf(s)' = PartsOf(s)
    /\ \A p \in PartsOf(s) : participant'[p] = participant[p]

Advanced(s) ==
    /\ session[s].status # "COMPLETED"
    /\ session'[s].status # "ABSENT"
    /\ session'[s].version = session[s].version + 1
    /\ \E e \in Event : /\ e.version = session[s].version + 1
                        /\ EventsOf(s)' = EventsOf(s) \cup {e}

OneAdvances ==
    \/ \A s \in Sessions : Untouched(s)
    \/ \E s \in Sessions : Advanced(s) /\ \A u \in Sessions \ {s} : Untouched(u)

LEMMA LoadApart ==
    ASSUME TypeOK, Apart, ApartInv, NEW r, NEW kind, NEW s \in Sessions, NEW row \in Row,
           NEW pid, NEW amount, Load(r, kind, s, row, pid, amount),
           row.version = session[s].version
    PROVE  ApartInv' /\ OneAdvances
<1> DEFINE t == [id |-> r, kind |-> kind, session |-> s,
                 row |-> [row EXCEPT !.version = @ + 1],
                 pid |-> pid, amount |-> amount]
<1>1. /\ active' = active \cup {t}
      /\ outbox' = outbox /\ session' = session /\ participant' = participant
  BY DEF Load
<1>2. t.session = s /\ t.row.version = session[s].version + 1
  BY DEF Row
<1> HIDE DEF t
<1>3. ApartInv'
  BY <1>1, <1>2 DEF ApartInv, Distinct
<1> QED BY <1>1, <1>3 DEF OneAdvances, Untouched, EventsOf, PartsOf

LEMMA CommitApart ==
    ASSUME TypeOK, TablesInv, StoredInv, LedgerInv, Apart, ApartInv,
           NEW t \in active, NEW at \in Nat, NEW pid \in Participants \cup {None},
           Commit(t, at, pid),
           \A s \in Sessions \ {t.session} :
             /\ PartsOf(s)' = PartsOf(s)
             /\ \A p \in PartsOf(s) : participant'[p] = participant[p]
    PROVE  ApartInv' /\ OneAdvances
<1> DEFINE s == t.session
           n == session[s].version
           e == [id |-> t.id, kind |-> t.kind, session |-> s,
                 version |-> t.row.version, at |-> at, pid |-> pid,
                 amount |-> t.amount]
<1>1. /\ outbox' = outbox \cup {e} /\ active' = active \ {t}
      /\ e.session = s /\ e.version = t.row.version
  BY DEF Commit, Store
<1>2. /\ s \in Sessions /\ session'[s] = t.row /\ t.row.status # "ABSENT"
      /\ n \in Nat
      /\ \A u \in Sessions : u # s => session'[u] = session[u]
  BY CommitRows DEF TypeOK, Row
<1>3. e \in Event
  BY DEF TypeOK, Tx, Row, Event
<1>4. t.row.version = n + 1
  BY DEF ApartInv
<1>n. n = session[s].version /\ s = t.session
  OBVIOUS
<1> HIDE DEF e, n, s
<1>5. Distinct(s) /\ Booked(s) /\ Queued(s)
  BY <1>2 DEF ApartInv, LedgerInv
<1>6. \A f \in outbox : f.session = s => f.version \in 1..n
  BY <1>n, <1>5 DEF Booked
<1>7. \A u \in Sessions : Distinct(u)'
  <2> SUFFICES ASSUME NEW u \in Sessions PROVE Distinct(u)'
    OBVIOUS
  <2>1. Distinct(u)
    BY DEF ApartInv
  <2>2. \A f \in outbox : f.session = s => f.version # e.version
    BY <1>1, <1>2, <1>4, <1>6
  <2> QED BY <1>1, <2>1, <2>2 DEF Distinct
<1>8. \A u \in active' : u.session # s /\ u.session \in Sessions
  BY <1>1, <1>n DEF Apart, TypeOK, Tx
<1>9. ApartInv'
  BY <1>1, <1>2, <1>7, <1>8 DEF ApartInv
<1>10. session[s].status # "COMPLETED"
  BY <1>4, <1>5, <1>n DEF Queued, UpToDate
<1>11. EventsOf(s)' = EventsOf(s) \cup {e}
       /\ \A u \in Sessions \ {s} : EventsOf(u)' = EventsOf(u)
  BY <1>1 DEF EventsOf
<1>12. Advanced(s)
  BY <1>1, <1>2, <1>3, <1>4, <1>10, <1>11, <1>n DEF Advanced
<1>13. \A u \in Sessions \ {s} : Untouched(u)
  BY <1>2, <1>11, <1>n DEF Untouched
<1> QED BY <1>2, <1>9, <1>12, <1>13 DEF OneAdvances

LEMMA NextApart ==
    ASSUME TypeOK, TablesInv, StoredInv, LedgerInv, Apart, ApartInv, [Next]_vars
    PROVE  ApartInv' /\ OneAdvances
<1> DEFINE Goal == ApartInv' /\ OneAdvances
<1> SUFFICES Goal
  OBVIOUS
<1>0. \A s \in Sessions : session[s] \in Row
  BY DEF TypeOK
<1>1. ASSUME NEW r \in Arriving, NEW s \in Sessions, NEW total \in Amounts,
             Create(r, s, total)
      PROVE  Goal
  <2> DEFINE e == [id |-> r, kind |-> "SplitCreated", session |-> s,
                   version |-> 1, at |-> now, pid |-> None, amount |-> total]
             row == [status |-> "OPEN", version |-> 1, total |-> Stored(total),
                     closedAt |-> None]
  <2>1. /\ session' = [session EXCEPT ![s] = row] /\ row.status = "OPEN"
        /\ row.version = 1
        /\ outbox' = outbox \cup {e} /\ active' = active /\ participant' = participant
        /\ e.session = s /\ e.version = 1
        /\ session[s].status = "ABSENT"
    BY <1>1 DEF Create, Store
  <2>0. e \in Event
    <3>1. total \in Nat /\ r \in Requests
      BY StoredIsNat, ArrivingIsNew
    <3> QED BY <3>1 DEF Event, Kinds, TypeOK
  <2> HIDE DEF e, row
  <2>2. /\ session'[s] = row
        /\ \A u \in Sessions : u # s => session'[u] = session[u]
    BY <2>1 DEF TypeOK
  <2>3. (\A f \in outbox : f.session # s) /\ session[s].version = 0
    BY <2>1 DEF StoredInv
  <2>4. \A t \in active : t.session # s /\ t.session \in Sessions
    BY <2>1 DEF TablesInv, TypeOK, Tx
  <2>5. \A u \in Sessions : Distinct(u)'
    BY <2>1, <2>3 DEF ApartInv, Distinct
  <2>6. ApartInv'
    BY <2>1, <2>2, <2>4, <2>5 DEF ApartInv
  <2>7. EventsOf(s)' = EventsOf(s) \cup {e}
        /\ \A u \in Sessions \ {s} : EventsOf(u)' = EventsOf(u)
    BY <2>1 DEF EventsOf
  <2>8. Advanced(s)
    BY <2>0, <2>1, <2>2, <2>3, <2>7 DEF Advanced
  <2>9. \A u \in Sessions \ {s} : Untouched(u)
    BY <2>1, <2>2, <2>7 DEF Untouched, PartsOf
  <2> QED BY <2>6, <2>8, <2>9 DEF OneAdvances
<1>2. ASSUME NEW r \in Arriving, NEW s \in Sessions, NEW share \in Amounts,
             LoadAddParticipant(r, s, share)
      PROVE  Goal
  BY <1>0, <1>2, LoadApart DEF LoadAddParticipant
<1>3. ASSUME NEW r \in Arriving, NEW s \in Sessions, NEW p \in Participants,
             LoadAuthorize(r, s, p)
      PROVE  Goal
  BY <1>0, <1>3, LoadApart DEF LoadAuthorize
<1>4. ASSUME NEW r \in Arriving, NEW s \in Sessions, LoadClose(r, s)
      PROVE  Goal
  <2> DEFINE row == [session[s] EXCEPT !.status = "COMPLETED", !.closedAt = now]
  <2>1. row \in Row /\ row.version = session[s].version
    BY <1>0 DEF TypeOK, Row
  <2>2. Load(r, "SplitCompleted", s, row, None, 0)
    BY <1>4 DEF LoadClose
  <2> HIDE DEF row
  <2> QED BY <2>1, <2>2, LoadApart
<1>5. ASSUME NEW t \in active, NEW p \in Participants, CommitAddParticipant(t, p)
      PROVE  Goal
  <2>1. /\ participant[p].session = None
        /\ participant' = [participant EXCEPT ![p] =
              [session |-> t.session, share |-> Stored(t.amount), authorized |-> FALSE]]
        /\ Commit(t, now, p)
    BY <1>5 DEF CommitAddParticipant
  <2>2. participant'[p].session = t.session
        /\ \A q \in Participants : q # p => participant'[q] = participant[q]
    BY <2>1 DEF TypeOK
  <2>3. \A u \in Sessions \ {t.session} :
          /\ PartsOf(u)' = PartsOf(u)
          /\ \A q \in PartsOf(u) : participant'[q] = participant[q]
    BY <2>1, <2>2, NoneAssumption DEF PartsOf
  <2>4. now \in Nat
    BY DEF TypeOK
  <2> QED BY <2>1, <2>3, <2>4, CommitApart
<1>6. ASSUME NEW t \in active, CommitAuthorize(t)
      PROVE  Goal
  <2>1. /\ participant' = [participant EXCEPT ![t.pid].authorized = TRUE]
        /\ Commit(t, now, t.pid)
        /\ t.pid \in Participants /\ participant[t.pid].session = t.session
    BY <1>6 DEF CommitAuthorize, TablesInv
  <2>2. /\ \A q \in Participants : participant'[q].session = participant[q].session
        /\ \A q \in Participants : q # t.pid => participant'[q] = participant[q]
    BY <2>1 DEF TypeOK, ParticipantRow
  <2>3. \A u \in Sessions \ {t.session} :
          /\ PartsOf(u)' = PartsOf(u)
          /\ \A q \in PartsOf(u) : participant'[q] = participant[q]
    BY <2>1, <2>2 DEF PartsOf
  <2>4. now \in Nat
    BY DEF TypeOK
  <2> QED BY <2>1, <2>3, <2>4, CommitApart
<1>7. ASSUME NEW t \in active, CommitClose(t)
      PROVE  Goal
  <2>1. /\ Commit(t, t.row.closedAt, None) /\ participant' = participant
        /\ t.row.closedAt \in Nat
    BY <1>7 DEF CommitClose, TypeOK, Tx, Row
  <2> QED BY <2>1, CommitApart DEF PartsOf
<1>8. ASSUME session' = session, outbox' = outbox, active' \subseteq active,
             participant' = participant
      PROVE  Goal
  BY <1>8 DEF ApartInv, Distinct, OneAdvances, Untouched, EventsOf, PartsOf
<1>9. ASSUME NEW t \in active, Rollback(t)
      PROVE  Goal
  BY <1>8, <1>9 DEF Rollback
<1>10. CASE Tick \/ UNCHANGED vars
  BY <1>8, <1>10 DEF Tick, vars
<1> HIDE DEF Goal
<1> QED
  BY <1>1, <1>2, <1>3, <1>4, <1>5, <1>6, <1>7, <1>9, <1>10 DEF Next

(* The tables and the events together. *)
BooksInv == TypeOK /\ GapInv /\ TablesInv /\ StoredInv /\ LedgerInv

LEMMA NextBooks == BooksInv /\ [Next]_vars => BooksInv'
BY NextType, NextGap, NextTables, NextStored, NextLedger DEF BooksInv

(* Tables, events and open transactions agree in all of this, always. *)
THEOREM Books == Spec => []BooksInv
<1>1. Init => BooksInv
  BY InitType, InitGap, InitTables, InitStored, InitLedger DEF BooksInv
<1> QED BY <1>1, NextBooks, PTL DEF Spec

(* However the requests of a session overlap, an update is never lost        *)
(* unnoticed: as long as no two events of the session carry one version, the *)
(* events are numbered 1, 2, ... up to the row's own version, the row is     *)
(* COMPLETED exactly if the close is the last of them, and it is settled.    *)
(* The whole-row write at commit is what loses updates.                      *)
THEOREM LossIsVisible == Spec => [](\A s \in Sessions : Distinct(s) => Booked(s))
<1>1. BooksInv => \A s \in Sessions : Distinct(s) => Booked(s)
  BY DEF BooksInv, LedgerInv
<1> QED BY <1>1, Books, PTL

-----------------------------------------------------------------------------
(* The order of a session's events, as one who replays them needs it.        *)

(* What is new about the event that a step stores. *)
NewEvent(e) ==
    /\ outbox' = outbox \cup {e}
    /\ \A f \in outbox : f.id # e.id
    /\ e.kind = "ParticipantAdded" =>
         \A f \in outbox : f.kind = "ParticipantAdded" => f.pid # e.pid
    /\ e.kind = "ParticipantAuthorized" =>
         \E f \in outbox : /\ f.kind = "ParticipantAdded"
                           /\ f.session = e.session /\ f.pid = e.pid

LEMMA CommitIsNew ==
    ASSUME TypeOK, TablesInv, StoredInv, NEW t \in active, NEW at \in Nat,
           NEW pid \in Participants \cup {None}, Commit(t, at, pid),
           t.kind = "ParticipantAdded" =>
             pid \in Participants /\ participant[pid].session = None,
           t.kind = "ParticipantAuthorized" => pid = t.pid
    PROVE  \E e \in Event : NewEvent(e)
<1> DEFINE e == [id |-> t.id, kind |-> t.kind, session |-> t.session,
                 version |-> t.row.version, at |-> at, pid |-> pid,
                 amount |-> t.amount]
<1>1. /\ outbox' = outbox \cup {e} /\ e.session = t.session /\ e.pid = pid
      /\ e.kind = t.kind /\ e.id = t.id
  BY DEF Commit, Store
<1>2. e \in Event
  BY DEF TypeOK, Tx, Row, Event
<1> HIDE DEF e
<1>3. \A f \in outbox : f.id # e.id
  BY <1>1 DEF StoredInv
<1>4. ASSUME e.kind = "ParticipantAdded", NEW f \in outbox, f.kind = "ParticipantAdded"
      PROVE  f.pid # e.pid
  <2>1. f.session \in Sessions /\ f.pid \in Participants
    BY <1>4 DEF TypeOK, Event, StoredInv
  <2>2. participant[f.pid].session = f.session
    BY <1>4, <2>1 DEF TablesInv, Says
  <2> QED BY <1>1, <1>4, <2>1, <2>2, NoneAssumption
<1>5. ASSUME e.kind = "ParticipantAuthorized"
      PROVE  \E f \in outbox : /\ f.kind = "ParticipantAdded"
                               /\ f.session = e.session /\ f.pid = e.pid
  <2>1. e.pid \in Participants /\ participant[e.pid].session = e.session
        /\ e.session \in Sessions
    BY <1>1, <1>5 DEF TablesInv, TypeOK, Tx
  <2> QED BY <2>1 DEF TablesInv, Says
<1> QED BY <1>1, <1>2, <1>3, <1>4, <1>5 DEF NewEvent

LEMMA StepStores ==
    ASSUME TypeOK, TablesInv, StoredInv, [Next]_vars
    PROVE  outbox' = outbox \/ \E e \in Event : NewEvent(e)
<1>1. ASSUME NEW r \in Arriving, NEW s \in Sessions, NEW total \in Amounts,
             Create(r, s, total)
      PROVE  \E e \in Event : NewEvent(e)
  <2> DEFINE e == [id |-> r, kind |-> "SplitCreated", session |-> s,
                   version |-> 1, at |-> now, pid |-> None, amount |-> total]
  <2>1. outbox' = outbox \cup {e} /\ e.id = r /\ e.kind = "SplitCreated"
    BY <1>1 DEF Create, Store
  <2>2. r \in Requests /\ r \notin used /\ total \in Nat
    BY StoredIsNat, ArrivingIsNew
  <2>3. e \in Event
    BY <2>2 DEF Event, Kinds, TypeOK
  <2> HIDE DEF e
  <2>4. \A f \in outbox : f.id # e.id
    BY <2>1, <2>2 DEF StoredInv
  <2> QED BY <2>1, <2>3, <2>4 DEF NewEvent
<1>2. ASSUME NEW t \in active, NEW p \in Participants, CommitAddParticipant(t, p)
      PROVE  \E e \in Event : NewEvent(e)
  <2>1. /\ t.kind = "ParticipantAdded" /\ participant[p].session = None
        /\ Commit(t, now, p) /\ now \in Nat
    BY <1>2 DEF CommitAddParticipant, TypeOK
  <2> QED BY <2>1, CommitIsNew
<1>3. ASSUME NEW t \in active, CommitAuthorize(t)
      PROVE  \E e \in Event : NewEvent(e)
  <2>1. /\ t.kind = "ParticipantAuthorized" /\ t.pid \in Participants
        /\ Commit(t, now, t.pid) /\ now \in Nat
    BY <1>3 DEF CommitAuthorize, TypeOK, TablesInv
  <2> QED BY <2>1, CommitIsNew
<1>4. ASSUME NEW t \in active, CommitClose(t)
      PROVE  \E e \in Event : NewEvent(e)
  <2>1. /\ t.kind = "SplitCompleted" /\ Commit(t, t.row.closedAt, None)
        /\ t.row.closedAt \in Nat
    BY <1>4 DEF CommitClose, TypeOK, Tx, Row
  <2> QED BY <2>1, CommitIsNew
<1>5. ASSUME NEW r \in Arriving, NEW s \in Sessions,
             \/ \E share \in Amounts : LoadAddParticipant(r, s, share)
             \/ \E p \in Participants : LoadAuthorize(r, s, p)
             \/ LoadClose(r, s)
      PROVE  outbox' = outbox
  BY <1>5 DEF LoadAddParticipant, LoadAuthorize, LoadClose, Load
<1>6. ASSUME NEW t \in active, Rollback(t)
      PROVE  outbox' = outbox
  BY <1>6 DEF Rollback
<1>7. CASE Tick \/ UNCHANGED vars
  BY <1>7 DEF Tick, vars
<1> QED BY <1>1, <1>2, <1>3, <1>4, <1>5, <1>6, <1>7 DEF Next

(* However requests overlap, no two events have one id, and no two add one   *)
(* participant.                                                              *)
EntriesInv ==
    /\ \A e, f \in outbox : e.id = f.id => e = f
    /\ \A e, f \in outbox :
         e.kind = "ParticipantAdded" /\ f.kind = "ParticipantAdded" /\ e.pid = f.pid
           => e = f

LEMMA NextEntries ==
    ASSUME TypeOK, TablesInv, StoredInv, EntriesInv, [Next]_vars
    PROVE  EntriesInv'
<1>1. CASE outbox' = outbox
  BY <1>1 DEF EntriesInv
<1>2. ASSUME NEW e \in Event, NewEvent(e) PROVE EntriesInv'
  BY <1>2 DEF EntriesInv, NewEvent
<1> QED BY <1>1, <1>2, StepStores

THEOREM EventsAreNamedOnce == Spec => []EntriesInv
<1>1. Init => EntriesInv
  BY DEF Init, EntriesInv
<1>2. BooksInv /\ EntriesInv /\ [Next]_vars => EntriesInv'
  BY NextEntries DEF BooksInv
<1> QED BY <1>1, <1>2, Books, PTL DEF Spec

(* Until its requests overlap, a session is one whose requests do not.       *)
LEMMA SerialUntilOverlap ==
    ASSUME BooksInv, Apart, ApartInv
    PROVE  SerialInv
<1>0. TypeOK /\ TablesInv /\ StoredInv /\ LedgerInv
  BY DEF BooksInv
<1>1. \A s \in Sessions : Distinct(s) /\ Booked(s) /\ Queued(s)
  BY <1>0 DEF ApartInv, LedgerInv
<1>2. VersionInv
  <2>1. \A e \in outbox : e.session \in Sessions
    BY <1>0 DEF TypeOK, Event
  <2>2. \A e, f \in outbox : e.session = f.session /\ e.version = f.version => e = f
    BY <1>1, <2>1 DEF Distinct
  <2> QED BY <1>0, <1>1, <2>1, <2>2 DEF VersionInv, Booked, StoredInv
<1>3. TxInv
  <2> SUFFICES ASSUME NEW t \in active
               PROVE  /\ session[t.session].status = "OPEN"
                      /\ t.row.version = session[t.session].version + 1
                      /\ t.row.total = session[t.session].total
                      /\ t.row.status = IF t.kind = "SplitCompleted" THEN "COMPLETED"
                                        ELSE "OPEN"
                      /\ t.kind = "SplitCompleted" => Settled(t.session)
                      /\ t.kind = "ParticipantAuthorized" => t.pid \in Participants
    BY DEF TxInv, Apart
  <2>1. t.session \in Sessions /\ t.row.version = session[t.session].version + 1
    BY <1>0 DEF TypeOK, Tx, ApartInv
  <2>2. UpToDate(t)
    BY <1>1, <2>1 DEF Queued
  <2> QED BY <1>0, <2>1, <2>2 DEF UpToDate, StoredInv, TablesInv
<1>4. CompletedIsSettled
  BY <1>1 DEF Booked, CompletedIsSettled
<1> QED BY <1>2, <1>3, <1>4 DEF SerialInv

(* What holds of the order of a session's events until its requests overlap: *)
(* no event says anything of a participant that a later one adds, and the    *)
(* times are in the order of the versions.                                   *)
OrderInv ==
    /\ EventInv
    /\ \A e \in outbox : e.kind = "ParticipantAuthorized" =>
         \E f \in outbox : /\ f.kind = "ParticipantAdded" /\ f.version < e.version
                           /\ f.session = e.session /\ f.pid = e.pid

LEMMA InitOrder == Init => OrderInv
BY InitEvents DEF Init, OrderInv

LEMMA NextOrder ==
    ASSUME BooksInv, Apart, ApartInv, OrderInv, [Next]_vars
    PROVE  OrderInv'
<1>0. TypeOK /\ TablesInv /\ StoredInv /\ LedgerInv
  BY DEF BooksInv
<1>1. EventInv'
  BY <1>0, SerialUntilOverlap, NextEvents DEF OrderInv
<1>2. ASSUME NEW e \in outbox', e.kind = "ParticipantAuthorized"
      PROVE  \E f \in outbox' : /\ f.kind = "ParticipantAdded" /\ f.version < e.version
                                /\ f.session = e.session /\ f.pid = e.pid
  <2>1. CASE outbox' = outbox
    BY <1>2, <2>1 DEF OrderInv
  <2>2. ASSUME NEW g \in Event, NewEvent(g)
        PROVE  \E f \in outbox' : /\ f.kind = "ParticipantAdded" /\ f.version < e.version
                                  /\ f.session = e.session /\ f.pid = e.pid
    <3>1. outbox' = outbox \cup {g} /\ g \notin outbox
      BY <2>2 DEF NewEvent
    <3>2. CASE e \in outbox
      BY <1>2, <3>1, <3>2 DEF OrderInv
    <3>3. CASE e = g
      <4>1. PICK f \in outbox : /\ f.kind = "ParticipantAdded"
                                /\ f.session = e.session /\ f.pid = e.pid
        BY <1>2, <2>2, <3>3 DEF NewEvent
      <4>2. e.session \in Sessions /\ e \in EventsOf(e.session)'
            /\ e \notin EventsOf(e.session)
        BY <3>1, <3>3 DEF Event, EventsOf
      <4>3. e.version = session[e.session].version + 1
        <5>1. OneAdvances
          BY <1>0, NextApart
        <5>2. ASSUME NEW s \in Sessions, Untouched(s) PROVE s # e.session
          BY <4>2, <5>2 DEF Untouched
        <5>3. ASSUME NEW s \in Sessions, Advanced(s), s = e.session
              PROVE  e.version = session[s].version + 1
          BY <4>2, <5>3 DEF Advanced
        <5> QED BY <4>2, <5>1, <5>2, <5>3 DEF OneAdvances
      <4>4. f.version \in 1..session[e.session].version
        BY <1>0, <4>1, <4>2 DEF ApartInv, LedgerInv, Booked
      <4>5. session[e.session].version \in Nat
        BY <1>0, <4>2 DEF TypeOK, Row
      <4>6. f.version < e.version
        BY <4>3, <4>4, <4>5
      <4> QED BY <3>1, <4>1, <4>6
    <3> QED BY <3>1, <3>2, <3>3
  <2> QED BY <1>0, <2>1, <2>2, StepStores
<1> QED BY <1>1, <1>2 DEF OrderInv

=============================================================================
