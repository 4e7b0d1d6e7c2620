------------------------ MODULE PaymentAuditProofs ------------------------
(* Theorems about PaymentAudit, for any number of requests, keys and faults. *)
EXTENDS PaymentAudit, TLAPS

USE MaxFaultsAssumption, NoneAssumption

-----------------------------------------------------------------------------
(* Types. *)

LEMMA InitType == Init => TypeOK
<1> SUFFICES ASSUME Init PROVE TypeOK
  OBVIOUS
<1>1. [stage |-> "new", key |-> None, answer |-> None] \in Request
  BY DEF Request
<1>2. request \in [Requests -> Request]
  BY <1>1 DEF Init
<1>3. faults \in 0..MaxFaults
  BY DEF Init
<1> QED BY <1>2, <1>3 DEF Init, TypeOK

LEMMA FaultType == TypeOK /\ Fault => faults' \in 0..MaxFaults
BY DEF TypeOK, Fault

(* A request that has found nothing knows its key. *)
Absent == \A r \in Requests : request[r].stage = "absent" => request[r].key \in Keys

LEMMA InitAbsent == Init => Absent
BY DEF Init, Absent

LEMMA NextAbsent == TypeOK /\ Absent /\ [Next]_vars => Absent'
<1> SUFFICES ASSUME TypeOK, Absent, [Next]_vars PROVE Absent'
  OBVIOUS
<1> USE DEF Absent, TypeOK, Request
<1>1. ASSUME NEW r \in Requests, NEW key \in Keys, Find(r, key) PROVE Absent'
  BY <1>1 DEF Find, Answer
<1>2. ASSUME NEW r \in Requests, Persist(r) PROVE Absent'
  BY <1>2 DEF Persist, Answer, Error
<1>3. ASSUME Crash PROVE Absent'
  BY <1>3 DEF Crash
<1>4. ASSUME UNCHANGED request PROVE Absent'
  BY <1>4
<1> QED
  BY <1>1, <1>2, <1>3, <1>4 DEF Next, vars, paymentVars, StartTick, Post, PostAccepted,
     PostFails, CommitTick, AuditCrash, Exists, Save

(* Requests. *)
LEMMA RequestType == TypeOK /\ Absent /\ [Next]_vars => request' \in [Requests -> Request]
<1> SUFFICES ASSUME TypeOK, Absent, [Next]_vars
             PROVE  request' \in [Requests -> Request]
  OBVIOUS
<1> USE DEF TypeOK, Request
<1>1. ASSUME NEW r \in Requests, NEW key \in Keys, Find(r, key)
      PROVE  request' \in [Requests -> Request]
  BY <1>1 DEF Find, Answer, Payment
<1>2. ASSUME NEW r \in Requests, Persist(r) PROVE request' \in [Requests -> Request]
  BY <1>2 DEF Persist, Answer, Error
<1>3. ASSUME Crash PROVE request' \in [Requests -> Request]
  BY <1>3 DEF Crash
<1>4. ASSUME UNCHANGED request PROVE request' \in [Requests -> Request]
  BY <1>4
<1> QED
  BY <1>1, <1>2, <1>3, <1>4 DEF Next, vars, paymentVars, StartTick, Post, PostAccepted,
     PostFails, CommitTick, AuditCrash, Exists, Save

LEMMA NextType == TypeOK /\ Absent /\ [Next]_vars => TypeOK'
<1> SUFFICES ASSUME TypeOK, Absent, [Next]_vars PROVE TypeOK'
  OBVIOUS
<1>0. request' \in [Requests -> Request]
  BY RequestType
<1> USE <1>0 DEF TypeOK, paymentVars, publisherVars
<1>1. ASSUME NEW r \in Requests, NEW key \in Keys, Find(r, key) PROVE TypeOK'
  BY <1>1 DEF Find
<1>2. ASSUME NEW r \in Requests, Persist(r) PROVE TypeOK'
  <2>1. [id |-> r, key |-> request[r].key] \in Payment
    BY <1>2 DEF Persist, Absent, Payment
  <2>2. payments' \subseteq Payment /\ outbox' \subseteq Requests /\ outbox \subseteq outbox'
    BY <1>2, <2>1 DEF Persist
  <2> QED BY <1>2, <2>2 DEF Persist
<1>3. ASSUME StartTick PROVE TypeOK'
  BY <1>3 DEF StartTick
<1>4. ASSUME NEW e \in outbox, Post(e) PROVE TypeOK'
  <2>1. [event |-> e, serial |-> faults, stage |-> "received"] \in Call
    BY DEF Call
  <2>2. calls' \subseteq Call
    BY <1>4, <2>1 DEF Post
  <2> QED BY <1>4, <2>2 DEF Post
<1>5. ASSUME PostAccepted PROVE TypeOK'
  BY <1>5 DEF PostAccepted, NextRow
<1>6. ASSUME PostFails PROVE TypeOK'
  BY <1>6, FaultType DEF PostFails, NextRow
<1>7. ASSUME CommitTick PROVE TypeOK'
  BY <1>7 DEF CommitTick
<1>8. ASSUME Crash PROVE TypeOK'
  BY <1>8, FaultType DEF Crash
<1>9. ASSUME AuditCrash PROVE TypeOK'
  BY <1>9, FaultType DEF AuditCrash, NextRow
<1>10. ASSUME NEW c \in calls, Exists(c) PROVE TypeOK'
  <2>1. [c EXCEPT !.stage = "unknown"] \in Call
    BY DEF Call
  <2>2. calls' \subseteq Call
    BY <1>10, <2>1 DEF Exists
  <2> QED BY <1>10, <2>2 DEF Exists
<1>11. ASSUME NEW c \in calls, Save(c) PROVE TypeOK'
  <2>1. [event |-> c.event, serial |-> c.serial] \in Document
    BY DEF Call, Document
  <2>2. audit' \subseteq Document
    BY <1>11, <2>1 DEF Save
  <2> QED BY <1>11, <2>2 DEF Save
<1>12. ASSUME UNCHANGED vars PROVE TypeOK'
  BY <1>12 DEF vars
<1> QED
  BY <1>1, <1>2, <1>3, <1>4, <1>5, <1>6, <1>7, <1>8, <1>9, <1>10, <1>11, <1>12 DEF Next

(* The tables, the publisher's run and the calls stay well-typed. *)
THEOREM TypeCorrect == Spec => []TypeOK
<1>1. Init => TypeOK /\ Absent
  BY InitType, InitAbsent
<1>2. TypeOK /\ Absent /\ [Next]_vars => (TypeOK /\ Absent)'
  BY NextType, NextAbsent
<1> QED BY <1>1, <1>2, PTL DEF Spec

-----------------------------------------------------------------------------
(* One payment for each key. *)

LEMMA NextKeys == TypeOK /\ KeyHasOnePayment /\ [Next]_vars => KeyHasOnePayment'
<1> SUFFICES ASSUME TypeOK, KeyHasOnePayment, [Next]_vars PROVE KeyHasOnePayment'
  OBVIOUS
<1>0. request \in [Requests -> Request]
  BY DEF TypeOK
<1>1. ASSUME NEW r \in Requests, NEW key \in Keys, Find(r, key) PROVE KeyHasOnePayment'
  <2>1. CASE \E p \in payments : p.key = key /\ Answer(r, key, p.id)
    <3>1. PICK p \in payments : p.key = key /\ Answer(r, key, p.id)
      BY <2>1
    <3>2. p = [id |-> p.id, key |-> key]
      BY <3>1 DEF TypeOK, Payment
    <3> QED BY <1>0, <1>1, <3>1, <3>2 DEF Find, Answer, KeyHasOnePayment
  <2>2. CASE request' = [request EXCEPT ![r].stage = "absent", ![r].key = key]
    BY <1>0, <1>1, <2>2 DEF Find, KeyHasOnePayment, Request
  <2> QED BY <1>1, <2>1, <2>2 DEF Find
<1>2. ASSUME NEW r \in Requests, Persist(r) PROVE KeyHasOnePayment'
  <2>1. CASE \E p \in payments : p.key = request[r].key
    BY <1>0, <1>2, <2>1 DEF Persist, Error, KeyHasOnePayment, Request
  <2>2. CASE \A p \in payments : p.key # request[r].key
    <3> DEFINE q == [id |-> r, key |-> request[r].key]
    <3>1. payments' = payments \cup {q} /\ outbox' = outbox \cup {r}
      BY <1>2, <2>2 DEF Persist
    <3>2. q.id = r /\ q.key = request[r].key /\ \A p \in payments : p.key # q.key
      BY <2>2
    <3>3. \A x, y \in payments' : x.key = y.key => x = y
      <4> HIDE DEF q
      <4> QED BY <3>1, <3>2 DEF KeyHasOnePayment
    <3>4. outbox' = {p.id : p \in payments'}
      <4> HIDE DEF q
      <4> QED BY <3>1, <3>2 DEF KeyHasOnePayment
    <3>5. ASSUME NEW x \in Requests, request'[x].stage = "answered"
          PROVE  [id |-> request'[x].answer, key |-> request'[x].key] \in payments'
      <4>1. request' = [request EXCEPT ![r] =
                          [stage |-> "answered", key |-> request[r].key, answer |-> r]]
        BY <1>2, <2>2 DEF Persist, Answer
      <4>2. CASE x = r
        BY <1>0, <4>1, <4>2, <3>1
      <4>3. CASE x # r
        BY <1>0, <4>1, <4>3, <3>1, <3>5 DEF KeyHasOnePayment
      <4> QED BY <4>2, <4>3
    <3> QED BY <3>3, <3>4, <3>5 DEF KeyHasOnePayment
  <2> QED BY <2>1, <2>2
<1>3. ASSUME Crash PROVE KeyHasOnePayment'
  BY <1>0, <1>3 DEF Crash, KeyHasOnePayment, Request
<1>4. ASSUME UNCHANGED paymentVars PROVE KeyHasOnePayment'
  BY <1>4 DEF paymentVars, KeyHasOnePayment
<1> QED
  BY <1>1, <1>2, <1>3, <1>4 DEF Next, vars, StartTick, Post, PostAccepted,
     PostFails, CommitTick, AuditCrash, Exists, Save

(* However many requests with one key overlap, the key has one payment and
   one event, and every answer names that payment. *)
THEOREM OnePaymentPerKey == Spec => []KeyHasOnePayment
<1>1. Init => KeyHasOnePayment
  BY DEF Init, KeyHasOnePayment
<1>2. Spec => []TypeOK
  BY TypeCorrect
<1> QED BY <1>1, <1>2, NextKeys, PTL DEF Spec

-----------------------------------------------------------------------------
(* One document for each event. *)

LEMMA NextAudit == AuditedOnce /\ [Next]_vars => AuditedOnce'
<1> SUFFICES ASSUME AuditedOnce, [Next]_vars PROVE AuditedOnce'
  OBVIOUS
<1>1. ASSUME NEW c \in calls, Save(c) PROVE AuditedOnce'
  <2>1. CASE \E d \in audit : d.event = c.event
    BY <1>1, <2>1 DEF Save, AuditedOnce
  <2>2. CASE \A d \in audit : d.event # c.event
    BY <1>1, <2>2 DEF Save, AuditedOnce
  <2> QED BY <2>1, <2>2
<1>2. ASSUME UNCHANGED audit PROVE AuditedOnce'
  BY <1>2 DEF AuditedOnce
<1> QED
  BY <1>1, <1>2 DEF Next, vars, Find, Persist, StartTick, Post, PostAccepted,
     PostFails, CommitTick, Crash, AuditCrash, Exists

(* However often an event is posted, audit-api keeps one document of it. *)
THEOREM OneDocumentPerEvent == Spec => []AuditedOnce
<1>1. Init => AuditedOnce
  BY DEF Init, AuditedOnce
<1> QED BY <1>1, NextAudit, PTL DEF Spec

-----------------------------------------------------------------------------
(* Nothing is published that is not audited. *)

IsAudited(e) == \E d \in audit : d.event = e

(* The call that the publisher waits for is being handled, or its event is
   in the audit. *)
PostedInv == posting # None => (Handled(posting) => IsAudited(posting))

LEMMA AuditKeeps ==
    ASSUME TypeOK, [Next]_vars, NEW e, IsAudited(e)
    PROVE  IsAudited(e)'
<1>1. audit \subseteq audit'
  BY DEF Next, vars, Find, Persist, StartTick, Post, PostAccepted, paymentVars,
     publisherVars, PostFails, CommitTick, Crash, AuditCrash, Exists, Save
<1> QED BY <1>1 DEF IsAudited

LEMMA NextPosted == TypeOK /\ PostedInv /\ [Next]_vars => PostedInv'
<1> SUFFICES ASSUME TypeOK, PostedInv, [Next]_vars, posting' # None, Handled(posting)'
             PROVE  IsAudited(posting)'
  BY DEF PostedInv
<1>1. ASSUME NEW e \in outbox, Post(e) PROVE IsAudited(posting)'
  <2>1. [event |-> e, serial |-> faults, stage |-> "received"] \in calls'
    BY <1>1 DEF Post
  <2>2. ~Handled(posting)'
    BY <1>1, <2>1 DEF Post, Handled
  <2> QED BY <2>2
<1>2. ASSUME posting' = posting, Handled(posting) PROVE IsAudited(posting)'
  BY <1>2, AuditKeeps DEF PostedInv
<1>3. ASSUME NEW c \in calls, Exists(c) PROVE IsAudited(posting)'
  <2>1. posting' = posting /\ faults' = faults /\ audit' = audit
    BY <1>3 DEF Exists, publisherVars
  <2>2. CASE IsAudited(c.event)
    <3>1. CASE c.event = posting
      BY <2>1, <2>2, <3>1 DEF IsAudited
    <3>2. CASE c.event # posting
      BY <1>2, <1>3, <2>1, <2>2, <3>2 DEF Exists, Handled, IsAudited
    <3> QED BY <3>1, <3>2
  <2>3. CASE ~IsAudited(c.event)
    <3> DEFINE k == [c EXCEPT !.stage = "unknown"]
    <3>1. c \in Call
      BY DEF TypeOK
    <3>2. k.event = c.event /\ k.serial = c.serial
      BY <3>1 DEF Call
    <3>3. calls' = (calls \ {c}) \cup {k}
      BY <1>3, <2>3 DEF Exists, IsAudited
    <3> HIDE DEF k
    <3>4. Handled(posting)
      BY <2>1, <3>2, <3>3 DEF Handled
    <3> QED BY <1>2, <2>1, <3>4
  <2> QED BY <2>2, <2>3
<1>4. ASSUME NEW c \in calls, Save(c) PROVE IsAudited(posting)'
  <2>1. posting' = posting /\ faults' = faults /\ calls' = calls \ {c}
    BY <1>4 DEF Save, publisherVars
  <2>2. CASE c.event = posting
    <3>1. CASE \E d \in audit : d.event = c.event
      BY <1>4, <2>1, <2>2, <3>1 DEF Save, IsAudited
    <3>2. CASE \A d \in audit : d.event # c.event
      <4>1. [event |-> c.event, serial |-> c.serial] \in audit'
        BY <1>4, <3>2 DEF Save
      <4> QED BY <2>1, <2>2, <4>1 DEF IsAudited
    <3> QED BY <3>1, <3>2
  <2>3. CASE c.event # posting
    <3>1. Handled(posting)
      BY <2>1, <2>3 DEF Handled
    <3> QED BY <1>2, <2>1, <3>1
  <2> QED BY <2>2, <2>3
<1>5. CASE AuditCrash
  BY <1>2, <1>5 DEF AuditCrash, NextRow
<1>6. ASSUME posting' = posting, calls' = calls, faults' = faults
      PROVE  IsAudited(posting)'
  <2>1. Handled(posting)
    BY <1>6 DEF Handled
  <2> QED BY <1>2, <1>6, <2>1
<1>7. CASE PostAccepted \/ PostFails \/ Crash
  BY <1>7 DEF PostAccepted, PostFails, Crash, NextRow
<1> QED
  BY <1>1, <1>3, <1>4, <1>5, <1>6, <1>7 DEF Next, vars, publisherVars, Find, Persist,
     StartTick, CommitTick

LEMMA NextPublished ==
    TypeOK /\ PostedInv /\ PublishedIsAudited /\ [Next]_vars => PublishedIsAudited'
<1> SUFFICES ASSUME TypeOK, PostedInv, PublishedIsAudited, [Next]_vars,
                    NEW e \in published' \cup marked'
             PROVE  IsAudited(e)'
  BY DEF PublishedIsAudited, IsAudited
<1>1. ASSUME e \in published \cup marked PROVE IsAudited(e)'
  <2>1. IsAudited(e)
    BY <1>1 DEF PublishedIsAudited, IsAudited
  <2> QED BY <2>1, AuditKeeps
<1>2. CASE PostAccepted
  <2>1. IsAudited(posting)
    BY <1>2 DEF PostAccepted, PostedInv
  <2>2. e \in published \cup marked \/ e = posting
    BY <1>2 DEF PostAccepted
  <2> QED BY <1>1, <2>1, <2>2, AuditKeeps
<1>3. CASE ~PostAccepted
  <2>1. e \in published \cup marked
    BY <1>3 DEF Next, vars, publisherVars, Find, Persist, StartTick, Post, PostFails,
       CommitTick, Crash, AuditCrash, Exists, Save
  <2> QED BY <1>1, <2>1
<1> QED BY <1>2, <1>3

(* No row is marked before its event is in the audit, though calls are lost
   and repeated, and both services crash. *)
THEOREM PublishedRowsAreAudited == Spec => []PublishedIsAudited
<1>1. Init => PostedInv /\ PublishedIsAudited
  BY DEF Init, PostedInv, PublishedIsAudited
<1>2. Spec => []TypeOK
  BY TypeCorrect
<1>3. TypeOK /\ PostedInv /\ PublishedIsAudited /\ [Next]_vars
        => (PostedInv /\ PublishedIsAudited)'
  BY NextPosted, NextPublished
<1> QED BY <1>1, <1>2, <1>3, PTL DEF Spec

=============================================================================
