---------------------------- MODULE SocialSplit ----------------------------
(***************************************************************************)
(* The social-split service: split sessions, their participants and the    *)
(* transactional outbox, in one Postgres schema.                           *)
(*                                                                         *)
(* Every service method is one JPA transaction at READ COMMITTED.  It      *)
(* loads the session with its participants in one statement, runs the      *)
(* domain method on that copy, and at commit writes EVERY column of the    *)
(* session row back (no @Version, no @DynamicUpdate), together with the    *)
(* participant it added or authorized and one outbox event.  Between the   *)
(* load and the commit other transactions may commit: the two halves are   *)
(* two actions here, and `active' holds the copies in between.             *)
(*                                                                         *)
(* Amounts are counted in tenths of a cent.                                *)
(***************************************************************************)
EXTENDS Integers, FiniteSets, FiniteSetsExt, Functions

CONSTANTS
    Sessions,       \* primary keys of split_sessions
    Participants,   \* primary keys of split_participants
    Requests,       \* HTTP requests that reach a mutating service method
    Amounts,        \* amounts that the controller accepts
    Overlap,        \* TRUE: requests of one session may overlap in time
    MaxTime,        \* bound on the clock
    None            \* SQL NULL

ASSUME AmountsAssumption == Amounts \subseteq {a \in Nat : a >= 10}
ASSUME OverlapAssumption == Overlap \in BOOLEAN
ASSUME MaxTimeAssumption == MaxTime \in Nat
ASSUME NoneAssumption == None \notin Nat \cup Sessions \cup Participants

VARIABLES
    session,      \* split_sessions: key -> row
    participant,  \* split_participants: key -> row
    outbox,       \* social_split_outbox_events: the set of stored events
    active,       \* transactions that have loaded their session
    used,         \* requests that have started
    now           \* the service's clock

vars == <<session, participant, outbox, active, used, now>>

-----------------------------------------------------------------------------

Kinds == {"SplitCreated", "ParticipantAdded", "ParticipantAuthorized",
          "SplitCompleted"}

Row == [status : {"ABSENT", "OPEN", "COMPLETED"}, version : Nat,
        total : Nat, closedAt : Nat \cup {None}]

ParticipantRow == [session : Sessions \cup {None}, share : Nat,
                   authorized : BOOLEAN]

\* The outbox row; its UUID is drawn once, in the request that stores it,
\* so the request names it.
Event == [id : Requests, kind : Kinds, session : Sessions, version : Nat,
          at : Nat, pid : Participants \cup {None}, amount : Nat]

Tx == [id : Requests, kind : Kinds, session : Sessions, row : Row,
       pid : Participants \cup {None}, amount : Nat]

TypeOK ==
    /\ session \in [Sessions -> Row]
    /\ participant \in [Participants -> ParticipantRow]
    /\ outbox \subseteq Event
    /\ active \subseteq Tx
    /\ \A t \in active : t.kind = "SplitCompleted" => t.row.closedAt # None
    /\ used \subseteq Requests
    /\ now \in Nat

\* What a BigDecimal column keeps: numeric(38,2) rounds half up to a cent.
\* The entity in memory, and the event made from it, keep every digit.
Stored(a) == ((a + 5) \div 10) * 10

PartsOf(s) == {p \in Participants : participant[p].session = s}

EventsOf(s) == {e \in outbox : e.session = s}

\* The request that arrives next.  Its key (a random UUID of its event) is
\* one that no other has; which one makes no difference.
Arriving ==
    IF Requests \subseteq used THEN {} ELSE {CHOOSE r \in Requests : r \notin used}

SharesOf(s) == [p \in PartsOf(s) |-> participant[p].share]

\* The checks of closeIfAuthorized on the loaded participants.  The other
\* two it makes hold for every stored row: @DecimalMin makes a share
\* positive, and authorize stores the flag with a non-blank reference.
Settled(s) ==
    /\ PartsOf(s) # {}
    /\ SumFunction(SharesOf(s)) = session[s].total
    /\ \A p \in PartsOf(s) : participant[p].authorized

-----------------------------------------------------------------------------

Init ==
    /\ session = [s \in Sessions |-> [status |-> "ABSENT", version |-> 0,
                                      total |-> 0, closedAt |-> None]]
    /\ participant = [p \in Participants |->
                        [session |-> None, share |-> 0, authorized |-> FALSE]]
    /\ outbox = {}
    /\ active = {}
    /\ used = {}
    /\ now = 0

\* The outbox row of request r.
Store(r, kind, s, version, at, pid, amount) ==
    outbox' = outbox \cup
        {[id |-> r, kind |-> kind, session |-> s, version |-> version,
          at |-> at, pid |-> pid, amount |-> amount]}

\* Mutant: the constructor leaves the status NULL.
CreateWithoutStatus(r, s, total) ==
    /\ session[s].status = "ABSENT"
    /\ session' = [session EXCEPT ![s] = [status |-> None, version |-> 1,
                                          total |-> Stored(total),
                                          closedAt |-> None]]
    /\ Store(r, "SplitCreated", s, 1, now, None, total)
    /\ used' = used \cup {r}
    /\ UNCHANGED <<participant, active, now>>

\* POST /api/splits.  Nobody else knows the key before the commit, so the
\* whole transaction is one step.
Create(r, s, total) ==
    /\ session[s].status = "ABSENT"
    /\ session' = [session EXCEPT ![s] = [status |-> "OPEN", version |-> 1,
                                          total |-> Stored(total),
                                          closedAt |-> None]]
    /\ Store(r, "SplitCreated", s, 1, now, None, total)
    /\ used' = used \cup {r}
    /\ UNCHANGED <<participant, active, now>>

\* Mutants: advanceVersion is forgotten, or called twice.
LoadAdvancing(r, kind, s, row, pid, amount, step) ==
    /\ Overlap \/ \A t \in active : t.session # s
    /\ active' = active \cup
         {[id |-> r, kind |-> kind, session |-> s,
           row |-> [row EXCEPT !.version = @ + step],
           pid |-> pid, amount |-> amount]}
    /\ used' = used \cup {r}
    /\ UNCHANGED <<session, participant, outbox, now>>

LoadNotAdvancing(r, kind, s, row, pid, amount) ==
    LoadAdvancing(r, kind, s, row, pid, amount, 0)

LoadAdvancingTwice(r, kind, s, row, pid, amount) ==
    LoadAdvancing(r, kind, s, row, pid, amount, 2)

\* findById and the domain method on the loaded copy `row'.  A request that
\* the domain rejects (404, 409, 422) rolls back and changes nothing.
Load(r, kind, s, row, pid, amount) ==
    /\ Overlap \/ \A t \in active : t.session # s
    /\ active' = active \cup
         {[id |-> r, kind |-> kind, session |-> s,
           row |-> [row EXCEPT !.version = @ + 1],
           pid |-> pid, amount |-> amount]}
    /\ used' = used \cup {r}
    /\ UNCHANGED <<session, participant, outbox, now>>

\* Mutant: addParticipant does not call ensureOpen.
LoadAddParticipantAlways(r, s, share) ==
    /\ session[s].status # "ABSENT"
    /\ Load(r, "ParticipantAdded", s, session[s], None, share)

LoadAddParticipant(r, s, share) ==
    /\ session[s].status = "OPEN"
    /\ Load(r, "ParticipantAdded", s, session[s], None, share)

LoadAuthorize(r, s, p) ==
    /\ session[s].status = "OPEN"
    /\ p \in PartsOf(s)
    /\ Load(r, "ParticipantAuthorized", s, session[s], p, 0)

\* Mutants: closing without the checks, and a closedAt cut to a coarser unit
\* than the times of the other events.
LoadCloseUnchecked(r, s) ==
    /\ session[s].status = "OPEN"
    /\ Load(r, "SplitCompleted", s,
            [session[s] EXCEPT !.status = "COMPLETED", !.closedAt = now],
            None, 0)

LoadCloseTruncated(r, s) ==
    /\ session[s].status = "OPEN"
    /\ Settled(s)
    /\ Load(r, "SplitCompleted", s,
            [session[s] EXCEPT !.status = "COMPLETED",
                               !.closedAt = (now \div 2) * 2],
            None, 0)

\* closedAt is taken while the copy is changed, before the flush.  Closing a
\* COMPLETED session returns it unchanged and stores no event.
LoadClose(r, s) ==
    /\ session[s].status = "OPEN"
    /\ Settled(s)
    /\ Load(r, "SplitCompleted", s,
            [session[s] EXCEPT !.status = "COMPLETED", !.closedAt = now],
            None, 0)

\* The flush and the commit of transaction t: the loaded copy replaces the
\* whole session row, whatever that row holds by now.
Commit(t, at, pid) ==
    /\ t \in active
    /\ session' = [session EXCEPT ![t.session] = t.row]
    /\ Store(t.id, t.kind, t.session, t.row.version, at, pid, t.amount)
    /\ active' = active \ {t}
    /\ UNCHANGED <<used, now>>

CommitAddParticipant(t, p) ==
    /\ t.kind = "ParticipantAdded"
    /\ participant[p].session = None
    /\ participant' = [participant EXCEPT ![p] =
                         [session |-> t.session, share |-> Stored(t.amount),
                          authorized |-> FALSE]]
    /\ Commit(t, now, p)

CommitAuthorize(t) ==
    /\ t.kind = "ParticipantAuthorized"
    /\ participant' = [participant EXCEPT ![t.pid].authorized = TRUE]
    /\ Commit(t, now, t.pid)

\* Mutant: the event's time is taken anew instead of from the stored row.
CommitCloseLater(t) ==
    /\ t.kind = "SplitCompleted"
    /\ Commit(t, now, None)
    /\ UNCHANGED participant

CommitClose(t) ==
    /\ t.kind = "SplitCompleted"
    /\ Commit(t, t.row.closedAt, None)
    /\ UNCHANGED participant

\* Mutant: the event is stored by a transaction of its own.
RollbackKeepingEvent(t) ==
    /\ t \in active
    /\ active' = active \ {t}
    /\ Store(t.id, t.kind, t.session, t.row.version, now, t.pid, t.amount)
    /\ UNCHANGED <<session, participant, used, now>>

\* The transaction is lost: the service dies or the database refuses it.
Rollback(t) ==
    /\ t \in active
    /\ active' = active \ {t}
    /\ UNCHANGED <<session, participant, outbox, used, now>>

Tick ==
    /\ now < MaxTime
    /\ now' = now + 1
    /\ UNCHANGED <<session, participant, outbox, active, used>>

Next ==
    \/ \E r \in Arriving, s \in Sessions :
         \/ \E total \in Amounts : Create(r, s, total)
         \/ \E share \in Amounts : LoadAddParticipant(r, s, share)
         \/ \E p \in Participants : LoadAuthorize(r, s, p)
         \/ LoadClose(r, s)
    \/ \E t \in active :
         \/ \E p \in Participants : CommitAddParticipant(t, p)
         \/ CommitAuthorize(t)
         \/ CommitClose(t)
         \/ Rollback(t)
    \/ Tick

Spec == Init /\ [][Next]_vars

-----------------------------------------------------------------------------
(* What holds however the requests of a session overlap.                   *)

\* A stored event never announces a version whose predecessor was not
\* stored: the consumer, which waits for consecutive versions, never waits
\* for one that cannot come.
NoVersionGap ==
    \A e \in outbox : \A v \in 1..(e.version - 1) :
        \E f \in outbox : f.session = e.session /\ f.version = v

\* The tables and the outbox are changed by one transaction: a participant
\* row exists exactly when its event does, and is authorized exactly when
\* some event says so; a session row exists exactly when it was announced.
OutboxMatchesTables ==
    /\ \A p \in Participants, s \in Sessions :
         /\ participant[p].session = s
              <=> \E e \in EventsOf(s) : e.kind = "ParticipantAdded" /\ e.pid = p
         /\ participant[p].session = s /\ participant[p].authorized
              <=> \E e \in EventsOf(s) :
                    e.kind = "ParticipantAuthorized" /\ e.pid = p
    /\ \A s \in Sessions :
         session[s].status # "ABSENT"
            <=> \E e \in EventsOf(s) : e.kind = "SplitCreated"

-----------------------------------------------------------------------------
(* What holds when the requests of a session do not overlap, and what the  *)
(* documents promise without that condition.                               *)

\* The events of a session carry the versions 1, 2, ... up to the row's own,
\* and no two events share one.
VersionsAreConsecutive ==
    \A s \in Sessions :
        /\ {e.version : e \in EventsOf(s)} = 1..session[s].version
        /\ \A e, f \in EventsOf(s) : e.version = f.version => e = f

\* A COMPLETED session has participants, all of them authorized, and their
\* shares add up to its total.
CompletedIsSettled ==
    \A s \in Sessions : session[s].status = "COMPLETED" => Settled(s)

\* A session has one SplitCompleted event exactly when it is COMPLETED; it
\* is the session's last event and carries the closedAt of the row.
CloseIsPublishedOnce ==
    \A s \in Sessions :
        {<<e.version, e.at>> : e \in {f \in EventsOf(s) :
                                        f.kind = "SplitCompleted"}}
          = IF session[s].status = "COMPLETED"
            THEN {<<session[s].version, session[s].closedAt>>}
            ELSE {}

\* The order of versions is the order of times, which is what the relay
\* sorts by and what the consumer demands.
VersionsFollowTime ==
    \A e, f \in outbox :
        e.session = f.session /\ e.version < f.version => e.at <= f.at

\* A COMPLETED session never changes again, nor do its participants.
CompletedIsFinal ==
    [][\A s \in Sessions : session[s].status = "COMPLETED" =>
          /\ session'[s] = session[s]
          /\ PartsOf(s)' = PartsOf(s)
          /\ \A p \in PartsOf(s) : participant'[p] = participant[p]]_vars

\* What the service charged is what it announced: the shares of a COMPLETED
\* session, added up from its events as the consumer does, give the total
\* that its SplitCreated event names.
ClosedSharesAddUp ==
    \A s \in Sessions : session[s].status = "COMPLETED" =>
        \A c \in EventsOf(s) : c.kind = "SplitCreated" =>
            c.amount = MapThenSumSet(LAMBDA e : e.amount,
                         {e \in EventsOf(s) : e.kind = "ParticipantAdded"})

=============================================================================
