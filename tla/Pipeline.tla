----------------------------- MODULE Pipeline -----------------------------
(***************************************************************************)
(* From a request of social-split to the projection of business-analytics: *)
(* the service, its relay and the store, joined by what they share.  The   *)
(* relay reads and marks the outbox that the requests write, the topic is  *)
(* the relay's log, and the consumer hands its records to the store, each  *)
(* at the offset of the store's checkpoint, where it also begins again     *)
(* after a failure (AnalyticsRuntime has the consumer in detail).          *)
(*                                                                         *)
(* What one part does where no other can see it is not interleaved with    *)
(* the others' steps, which would give the same states: the steps of the   *)
(* store's transaction, and those that put a record into the producer's    *)
(* buffer and mark its row in the tick's transaction.  `overlapped' and    *)
(* `history' record what has happened and no action of the system reads    *)
(* them.                                                                   *)
(***************************************************************************)
EXTENDS Integers, Sequences, FiniteSets

CONSTANTS
    Sessions, Participants, Requests, Amounts, Overlap, MaxTime, None,
                  \* as in SocialSplit
    BatchSize, MaxFaults,      \* as in OutboxRelay
    Deadline, Window,          \* as in AnalyticsKpis
    Currency,     \* the currency of every session
    MaxEvents     \* bound on requests and failures together

VARIABLES
    session, participant, outbox, active, used, now,   \* SocialSplit
    published, ticking, batch, marked, waiting, buffer, log, faults,
                                                       \* OutboxRelay
    db, txn,                                           \* AnalyticsStore
    overlapped,   \* two requests of one session have overlapped
    history       \* what the tables have held of each session until then

splitVars == <<session, participant, active, used, now>>
relayVars == <<published, ticking, batch, marked, waiting, buffer, log>>
storeVars == <<db, txn>>
auxVars == <<overlapped, history>>
vars == <<splitVars, outbox, relayVars, faults, storeVars, auxVars>>

Split == INSTANCE SocialSplit

ASSUME SplitAssumption ==
    /\ Split!AmountsAssumption /\ Split!OverlapAssumption
    /\ Split!MaxTimeAssumption /\ Split!NoneAssumption

ASSUME RelayAssumption == BatchSize \in Nat \ {0} /\ MaxFaults \in Nat
ASSUME StoreAssumption == Deadline \in Nat /\ Window \in Nat

Relay == INSTANCE OutboxRelay WITH MaxVersion <- Cardinality(Requests)

-----------------------------------------------------------------------------

Messages ==
    {m \in [id : Requests, wellFormed : {TRUE}, kind : Split!Kinds,
            agg : Sessions, version : Nat \ {0}, at : Nat,
            pid : Participants \cup {None}, amount : Nat,
            createdAt : Nat, currency : {Currency}] :
        m.kind \in {"ParticipantAdded", "ParticipantAuthorized"}
          => m.pid \in Participants}

\* The record that the relay makes of an outbox row, as validate reads it.
\* createdAt is taken with occurredAt; in the code it is taken a moment before
\* it, and validate asks for no more than that.
MessageOf(e) ==
    [id |-> e.id, wellFormed |-> TRUE, kind |-> e.kind, agg |-> e.session,
     version |-> e.version, at |-> e.at, pid |-> e.pid, amount |-> e.amount,
     createdAt |-> e.at, currency |-> Currency]

Store == INSTANCE AnalyticsKpis WITH
            Aggregates <- Sessions,
            EventIds <- Requests,
            Offsets <- Nat,
            Currencies <- {Currency},
            MaxNow <- MaxTime

\* What a client of social-split sees of session s, and what the projection
\* says of it.
Stands(s) ==
    [status |-> session[s].status, total |-> session[s].total,
     closedAt |-> session[s].closedAt,
     parts |-> [p \in Participants |->
                  IF participant[p].session = s
                  THEN [added |-> TRUE, share |-> participant[p].share,
                        authorized |-> participant[p].authorized]
                  ELSE Store!NoParts[p]]]

Projects(s) ==
    [status |-> db.sessions[s].status, total |-> db.sessions[s].total,
     closedAt |-> db.sessions[s].closedAt, parts |-> db.sessions[s].parts]

-----------------------------------------------------------------------------

\* The relay's next step is one that only the relay sees.
RelayAlone == ticking /\ batch # <<>> /\ (~waiting \/ buffer = <<>>)

Init ==
    /\ Split!Init /\ Relay!Init /\ Store!Init
    /\ overlapped = FALSE
    /\ history = [s \in Sessions |-> <<>>]

\* Any step of the service.
Serve ==
    /\ txn = None /\ ~RelayAlone
    /\ Split!Next
    /\ Cardinality(used') + faults <= MaxEvents
    /\ overlapped' = (overlapped \/ \E t, u \in active' :
                                       t # u /\ t.session = u.session)
    /\ history' = [s \in Sessions |->
                     IF overlapped' \/ session'[s] = session[s] THEN history[s]
                     ELSE Append(history[s], Stands(s)')]
    /\ UNCHANGED <<relayVars, faults, storeVars>>

\* Any step of the relay.
Pass(A) == txn = None /\ A /\ UNCHANGED <<splitVars, storeVars, auxVars>>

RelayFails ==
    /\ Cardinality(used) + faults < MaxEvents
    /\ Relay!Failed \/ Relay!Expire \/ Relay!RollbackTick \/ Relay!Crash

\* The consumer hands the next record of the topic to the store.
Consume ==
    /\ ~RelayAlone
    /\ db.checkpoint < Len(log)
    /\ LET m == MessageOf(log[db.checkpoint + 1])
       IN  \/ Store!IngestRejected(m, db.checkpoint)
           \/ Store!IngestDuplicate(m, db.checkpoint)
           \/ Store!IngestNew(m, db.checkpoint)
    /\ UNCHANGED <<splitVars, outbox, relayVars, faults, auxVars>>

\* The rest of its transaction.  (A crash in it leaves db alone, and the same
\* record is read again: AnalyticsStore and AnalyticsRuntime have it.)
StoreStep ==
    /\ Store!DrainApply \/ Store!DrainFails \/ Store!DrainEnds \/ Store!Commit
    /\ UNCHANGED <<splitVars, outbox, relayVars, faults, auxVars>>

RelayThread ==
    Relay!StartTick \/ Relay!Send \/ Relay!Acknowledged \/ Relay!CommitTick

Next ==
    \/ Serve
    \/ Pass(RelayThread \/ Relay!Deliver) \/ Pass(RelayFails)
    \/ Consume \/ StoreStep

\* The relay and its broker go on, and so does the consumer.  (This asks less
\* than OutboxRelay does of each step.)
Fairness ==
    /\ WF_vars(Pass(RelayThread \/ Relay!Deliver))
    /\ WF_vars(Consume \/ StoreStep)

Spec == Init /\ [][Next]_vars /\ Fairness

-----------------------------------------------------------------------------

\* However requests overlap, and while the relay reads the outbox and marks
\* it, no event is stored whose predecessor is not.
NoVersionGap == Split!NoVersionGap

\* However requests overlap, what the rest of the system is told of sessions,
\* participants and authorizations is what the tables say.
OutboxMatchesTables == Split!OutboxMatchesTables

\* However requests overlap and whatever fails on the way: once all that was
\* stored has been published and read, a projection that calls itself
\* complete is the table row by row.  What the service has lost to an overlap
\* is never shown as if it were whole.
CompleteIsTrue ==
    outbox = published /\ db.checkpoint = Len(log) /\ Store!Complete(now) =>
        \A s \in Sessions : session[s].status # "ABSENT" =>
            /\ Projects(s) = Stands(s)
            /\ db.sessions[s].version = session[s].version

\* A session that the service has agreed to close counts as a valid close
\* in B-K1, unless its requests overlapped.
ClosesCountAsValid ==
    ~overlapped => \A s \in Sessions :
        db.sessions[s].status = "COMPLETED" => Store!ValidClose(db.sessions[s])

\* The projection of the events, and the tables they were made from, are an
\* implementation of SplitMirror.
Mirror == INSTANCE SplitMirror WITH
            Contents <- [status : {"OPEN", "COMPLETED"}, total : Amounts,
                         closedAt : 0..MaxTime \cup {None},
                         parts : [Participants -> {Store!NoParts[CHOOSE p \in Participants : TRUE]} \cup
                                    [added : {TRUE}, share : Amounts, authorized : BOOLEAN]]],
            Final <- LAMBDA c : c.status = "COMPLETED",
            Nothing <- None,
            shown <- [s \in Sessions |->
                        [version |-> db.sessions[s].version,
                         content |-> IF db.sessions[s].version = 0 THEN None
                                     ELSE Projects(s)]]

FollowsTheService == Mirror!Spec

=============================================================================
