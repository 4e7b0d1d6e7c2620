--------------------------- MODULE PaymentAudit ---------------------------
(***************************************************************************)
(* Payments and their audit: payments-api, which creates one payment per   *)
(* idempotency key together with an outbox row, its publisher, which posts *)
(* unpublished rows to audit-api, and audit-api, which keeps one document  *)
(* per event.                                                              *)
(*                                                                         *)
(* The two services share nothing but HTTP calls.  A call that the         *)
(* publisher has given up may still be running in audit-api when the row   *)
(* is posted again.                                                        *)
(***************************************************************************)
EXTENDS Integers, FiniteSets

CONSTANTS
    Requests,    \* calls of POST /api/payments; a payment and its event are
                 \* named for the request that creates them
    Keys,        \* values of X-Idempotency-Key
    MaxFaults,   \* bound on failures and crashes
    None

ASSUME RequestsAssumption == IsFiniteSet(Requests)
ASSUME MaxFaultsAssumption == MaxFaults \in Nat
ASSUME NoneAssumption == None \notin Requests

VARIABLES
    payments,    \* rows of `payments'
    outbox,      \* rows of `outbox_events'
    published,   \* those marked published
    request,     \* what each request is at
    ticking,     \* a run of publishPending is open
    batch,       \* rows that it has still to post
    marked,      \* rows that it has marked, not committed
    posting,     \* its call of audit-api, None between calls
    calls,       \* calls that audit-api is handling
    audit,       \* documents of audit_events
    faults

paymentVars == <<payments, outbox, request>>
publisherVars == <<published, ticking, batch, marked, posting>>
vars == <<paymentVars, publisherVars, calls, audit, faults>>

Payment == [id : Requests, key : Keys]

\* An answer is the id of a payment; an error is an answer of 500.
Request == [stage : {"new", "absent", "answered", "error"},
            key : Keys \cup {None}, answer : Requests \cup {None}]

\* `serial' tells the calls for one event apart.
Call == [event : Requests, serial : 0..MaxFaults, stage : {"received", "unknown"}]

Document == [event : Requests, serial : 0..MaxFaults]

TypeOK ==
    /\ payments \subseteq Payment
    /\ outbox \subseteq Requests /\ published \subseteq outbox
    /\ request \in [Requests -> Request]
    /\ ticking \in BOOLEAN
    /\ batch \subseteq outbox /\ marked \subseteq outbox
    /\ (~ticking => batch = {} /\ marked = {} /\ posting = None)
    /\ posting \in batch \cup {None}
    /\ calls \subseteq Call
    /\ audit \subseteq Document
    /\ faults \in 0..MaxFaults

Init ==
    /\ payments = {} /\ outbox = {} /\ published = {}
    /\ request = [r \in Requests |-> [stage |-> "new", key |-> None, answer |-> None]]
    /\ ticking = FALSE /\ batch = {} /\ marked = {} /\ posting = None
    /\ calls = {} /\ audit = {}
    /\ faults = 0

Fault ==
    /\ faults < MaxFaults
    /\ faults' = faults + 1

-----------------------------------------------------------------------------
(* POST /api/payments. *)

Answer(r, key, p) ==
    request' = [request EXCEPT ![r] = [stage |-> "answered", key |-> key, answer |-> p]]

Error(r) ==
    request' = [request EXCEPT ![r].stage = "error"]

\* findByIdempotencyKey, in the transaction that may go on to persist.
Find(r, key) ==
    /\ request[r].stage = "new"
    /\ \/ \E p \in payments : p.key = key /\ Answer(r, key, p.id)
       \/ /\ \A p \in payments : p.key # key
          /\ request' = [request EXCEPT ![r].stage = "absent", ![r].key = key]
    /\ UNCHANGED <<payments, outbox, publisherVars, calls, audit, faults>>

\* Mutant: the column is not unique.
PersistTwice(r) ==
    /\ request[r].stage = "absent"
    /\ payments' = payments \cup {[id |-> r, key |-> request[r].key]}
    /\ outbox' = outbox \cup {r}
    /\ Answer(r, request[r].key, r)
    /\ UNCHANGED <<publisherVars, calls, audit, faults>>

\* The payment and its event are committed together, unless the unique key
\* of the table has been taken since: then the transaction is rolled back
\* and the request fails.
Persist(r) ==
    /\ request[r].stage = "absent"
    /\ IF \E p \in payments : p.key = request[r].key
       THEN Error(r) /\ UNCHANGED <<payments, outbox>>
       ELSE /\ payments' = payments \cup {[id |-> r, key |-> request[r].key]}
            /\ outbox' = outbox \cup {r}
            /\ Answer(r, request[r].key, r)
    /\ UNCHANGED <<publisherVars, calls, audit, faults>>

-----------------------------------------------------------------------------
(* publishPending.  The model has fewer than 50 rows. *)

StartTick ==
    /\ ~ticking
    /\ outbox # published
    /\ ticking' = TRUE
    /\ batch' = outbox \ published
    /\ UNCHANGED <<paymentVars, published, marked, posting, calls, audit, faults>>

\* The call reaches audit-api.
Post(e) ==
    /\ ticking /\ posting = None
    /\ e \in batch
    /\ posting' = e
    /\ calls' = calls \cup {[event |-> e, serial |-> faults, stage |-> "received"]}
    /\ UNCHANGED <<paymentVars, published, ticking, batch, marked, audit, faults>>

NextRow == batch' = batch \ {posting} /\ posting' = None

Handled(e) == \A c \in calls : c.event = e => c.serial # faults

\* 202: markPublished.
PostAccepted ==
    /\ posting # None
    /\ Handled(posting)
    /\ marked' = marked \cup {posting}
    /\ NextRow
    /\ UNCHANGED <<paymentVars, published, ticking, calls, audit, faults>>

\* Mutant: the row is marked whatever the answer.
PostFailsMarked ==
    /\ Fault
    /\ posting # None
    /\ calls' \in {calls, {c \in calls : c.event # posting}}
    /\ marked' = marked \cup {posting}
    /\ NextRow
    /\ UNCHANGED <<paymentVars, published, ticking, audit>>

\* The call fails, in or before audit-api or on the way back: markFailed.  A
\* handler that has begun may go on.
PostFails ==
    /\ Fault
    /\ posting # None
    /\ calls' \in {calls, {c \in calls : c.event # posting}}
    /\ NextRow
    /\ UNCHANGED <<paymentVars, published, ticking, marked, audit>>

CommitTick ==
    /\ ticking /\ batch = {}
    /\ published' = published \cup marked
    /\ marked' = {}
    /\ ticking' = FALSE
    /\ UNCHANGED <<paymentVars, batch, posting, calls, audit, faults>>

\* Mutant: the marks of the open run outlive the process.
CrashKeepingMarks ==
    /\ Fault
    /\ request' = [r \in Requests |->
                     IF request[r].stage = "absent"
                     THEN [request[r] EXCEPT !.stage = "error"] ELSE request[r]]
    /\ ticking' = FALSE /\ batch' = {} /\ posting' = None
    /\ UNCHANGED <<payments, outbox, published, marked, calls, audit>>

\* payments-api dies: the open transactions are rolled back, and their
\* clients see an error.
Crash ==
    /\ Fault
    /\ request' = [r \in Requests |->
                     IF request[r].stage = "absent"
                     THEN [request[r] EXCEPT !.stage = "error"] ELSE request[r]]
    /\ ticking' = FALSE /\ batch' = {} /\ marked' = {} /\ posting' = None
    /\ UNCHANGED <<payments, outbox, published, calls, audit>>

-----------------------------------------------------------------------------
(* audit-api. *)

\* existsByEventId.
Exists(c) ==
    /\ c \in calls /\ c.stage = "received"
    /\ calls' = IF \E d \in audit : d.event = c.event
                THEN calls \ {c}
                ELSE (calls \ {c}) \cup {[c EXCEPT !.stage = "unknown"]}
    /\ UNCHANGED <<paymentVars, publisherVars, audit, faults>>

\* Mutant: the index is not unique.
SaveTwice(c) ==
    /\ c \in calls /\ c.stage = "unknown"
    /\ calls' = calls \ {c}
    /\ audit' = audit \cup {[event |-> c.event, serial |-> c.serial]}
    /\ UNCHANGED <<paymentVars, publisherVars, faults>>

\* save; the unique index may throw DuplicateKeyException, which is ignored.
Save(c) ==
    /\ c \in calls /\ c.stage = "unknown"
    /\ calls' = calls \ {c}
    /\ audit' = IF \E d \in audit : d.event = c.event
                THEN audit
                ELSE audit \cup {[event |-> c.event, serial |-> c.serial]}
    /\ UNCHANGED <<paymentVars, publisherVars, faults>>

\* audit-api dies with the calls it is handling, and so fails the one that
\* is waited for.
AuditCrash ==
    /\ Fault
    /\ calls # {}
    /\ calls' = {}
    /\ IF posting = None \/ Handled(posting)
       THEN UNCHANGED <<batch, posting>>
       ELSE NextRow
    /\ UNCHANGED <<paymentVars, published, ticking, marked, audit>>

Next ==
    \/ \E r \in Requests, key \in Keys : Find(r, key)
    \/ \E r \in Requests : Persist(r)
    \/ \E e \in outbox : Post(e)
    \/ StartTick \/ PostAccepted \/ PostFails \/ CommitTick
    \/ Crash \/ AuditCrash
    \/ \E c \in calls : Exists(c) \/ Save(c)

\* The scheduler runs publishPending again and again, and audit-api answers
\* the calls it does not lose.
Fairness ==
    /\ WF_vars(StartTick) /\ WF_vars(PostAccepted) /\ WF_vars(CommitTick)
    /\ WF_vars(\E e \in outbox : Post(e))
    /\ WF_vars(\E c \in calls : Exists(c) \/ Save(c))

Spec == Init /\ [][Next]_vars /\ Fairness

-----------------------------------------------------------------------------

\* However requests with one key overlap, the key has one payment, the
\* payment has one event, and every answer to the key names that payment.
KeyHasOnePayment ==
    /\ \A p, q \in payments : p.key = q.key => p = q
    /\ outbox = {p.id : p \in payments}
    /\ \A r \in Requests : request[r].stage = "answered" =>
         [id |-> request[r].answer, key |-> request[r].key] \in payments

\* However often an event is posted, and with however many handlers at once,
\* audit-api keeps one document of it.
AuditedOnce ==
    \A c, d \in audit : c.event = d.event => c = d

\* No row is marked published before its event is in the audit.
PublishedIsAudited ==
    published \cup marked \subseteq {d.event : d \in audit}

\* Every payment comes to be audited, and its row published.
PaymentsAreAudited ==
    \A r \in Requests :
        (r \in outbox) ~> (r \in published /\ \E d \in audit : d.event = r)

=============================================================================
