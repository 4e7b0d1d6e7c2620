----------------------------- MODULE SeatHold -----------------------------
(***************************************************************************)
(* The seat holds of events-api.  A hold is a Redis key with a time to     *)
(* live, set if it is not there; its value names the hold.  Releasing      *)
(* reads the key and deletes it if it names the hold: two commands, and    *)
(* between them the hold may expire, or be released by the same request    *)
(* sent twice, and another member may take the seat.  Listing asks for the *)
(* keys, and then for the value and the remaining time of each, and takes  *)
(* the seat from the key.  The seats are those of one event: a key begins  *)
(* with the event's id, a UUID.                                            *)
(***************************************************************************)
EXTENDS Integers, FiniteSets, Sequences

CONSTANTS
    Parts,      \* what stands between the colons of a seatId
    Seats,      \* seatIds, each the sequence of its parts
    Holds,      \* hold ids, each drawn once
    Releases,   \* DELETE requests
    TTL,        \* hold-ttl-seconds: 300 in the code
    MaxTime,    \* bound on the clock
    None

ASSUME SeatsAssumption == Seats \subseteq Seq(Parts) \ {<<>>}
ASSUME TTLAssumption == TTL \in Nat \ {0} /\ MaxTime \in Nat

VARIABLES
    redis,      \* the key of each seat
    given,      \* what the service has answered: the seat and end of each hold
    released,   \* holds whose release has deleted a key
    release,    \* where each DELETE request is
    listing,    \* the GET request for the list, and its answer
    strayed,    \* seats where a release has deleted another's hold
    now

vars == <<redis, given, released, release, listing, strayed, now>>

Key == [hold : Holds, until : Nat]

\* What the answer to a POST grants.
Grant == [seat : Seats, until : Nat]

ASSUME NoneAssumption == None \notin Seats \cup Holds \cup Key \cup Grant

\* The seat that list makes of a key: what is behind its last colon.  A seatId
\* may hold colons, and then it is not that seatId.
SeatOfKey(s) == <<s[Len(s)]>>

Row == [seat : Seq(Parts), hold : Holds, until : Nat]

\* `got' is the value read of the seat the listing is at.  `before' and
\* `held' are for ListAgrees: the holds that had ended, and those in force,
\* when the request came.
Listing == [stage : {"idle", "reading", "answered"}, left : SUBSET Seats,
            got : Holds \cup {None}, at : Seats \cup {None}, rows : SUBSET Row,
            before : SUBSET Holds, held : SUBSET Holds]

TypeOK ==
    /\ redis \in [Seats -> Key \cup {None}]
    /\ given \in [Holds -> Grant \cup {None}]
    /\ released \subseteq Holds
    /\ release \in [Releases -> [stage : {"new", "read", "done"},
                                 seat : Seats \cup {None},
                                 hold : Holds \cup {None}]]
    /\ \A d \in Releases : release[d].stage = "read" =>
         release[d].seat # None /\ release[d].hold # None
    /\ listing \in Listing
    /\ (listing.got = None <=> listing.at = None)
    /\ strayed \subseteq Seats
    /\ now \in Nat
    \* no key outlives its time
    /\ \A s \in Seats : redis[s] # None => redis[s].until > now

Idle == [stage |-> "idle", left |-> {}, got |-> None, at |-> None, rows |-> {},
         before |-> {}, held |-> {}]

Init ==
    /\ redis = [s \in Seats |-> None]
    /\ given = [h \in Holds |-> None]
    /\ released = {}
    /\ release = [d \in Releases |-> [stage |-> "new", seat |-> None, hold |-> None]]
    /\ listing = Idle
    /\ strayed = {}
    /\ now = 0

\* A hold that its member may rely on: it was given, its time has not run
\* out and it was not released.
InForce(h) == given[h] # None /\ now < given[h].until /\ h \notin released

-----------------------------------------------------------------------------

Hold(h, s) ==
    /\ given[h] = None
    /\ redis' = [redis EXCEPT ![s] = [hold |-> h, until |-> now + TTL]]
    /\ given' = [given EXCEPT ![h] = [seat |-> s, until |-> now + TTL]]
    /\ UNCHANGED <<released, release, listing, strayed, now>>

\* Mutant: set, whatever is there.
CreateOverwriting(h, s) == Hold(h, s)

\* SET NX with the time to live.  A key that is there is a 409.
Create(h, s) == redis[s] = None /\ Hold(h, s)

\* GET, and the test that the value names hold h.  If not, the request ends.
ReleaseRead(d, h, s) ==
    /\ release[d].stage = "new"
    /\ release' = [release EXCEPT ![d] =
         IF redis[s] # None /\ redis[s].hold = h
         THEN [stage |-> "read", seat |-> s, hold |-> h]
         ELSE [stage |-> "done", seat |-> None, hold |-> None]]
    /\ UNCHANGED <<redis, given, released, listing, strayed, now>>

\* DEL of the key, whatever it holds by now.
ReleaseDelete(d) ==
    /\ release[d].stage = "read"
    /\ LET s == release[d].seat
       IN  /\ redis' = [redis EXCEPT ![s] = None]
           /\ strayed' = IF redis[s] # None /\ redis[s].hold # release[d].hold
                         THEN strayed \cup {s} ELSE strayed
    /\ released' = released \cup {release[d].hold}
    /\ release' = [release EXCEPT ![d].stage = "done"]
    /\ UNCHANGED <<given, listing, now>>

-----------------------------------------------------------------------------

\* KEYS of the event's seats.
ListKeys ==
    /\ listing.stage # "reading"
    /\ listing' = [Idle EXCEPT
         !.stage = "reading",
         !.left = {s \in Seats : redis[s] # None},
         !.before = {h \in Holds : given[h] # None /\ ~InForce(h)},
         !.held = {h \in Holds : InForce(h)}]
    /\ UNCHANGED <<redis, given, released, release, strayed, now>>

\* Mutant: the first key that is gone ends the loop.
ListValueBreaking(s) ==
    /\ listing.stage = "reading" /\ listing.got = None
    /\ s \in listing.left
    /\ listing' = [listing EXCEPT
         !.left = IF redis[s] = None THEN {} ELSE @ \ {s},
         !.got = IF redis[s] = None THEN None ELSE redis[s].hold,
         !.at = IF redis[s] = None THEN None ELSE s]
    /\ UNCHANGED <<redis, given, released, release, strayed, now>>

\* GET of the next key.  One that is gone is passed over.
ListValue(s) ==
    /\ listing.stage = "reading" /\ listing.got = None
    /\ s \in listing.left
    /\ listing' = [listing EXCEPT
         !.left = @ \ {s},
         !.got = IF redis[s] = None THEN None ELSE redis[s].hold,
         !.at = IF redis[s] = None THEN None ELSE s]
    /\ UNCHANGED <<redis, given, released, release, strayed, now>>

\* TTL of the key, which by now may be another hold's, or gone, which counts
\* as 0, and the row, with the seat that is read off the key.  A row gives the time that is left; `until' is the end that means.
ListTtl ==
    /\ listing.got # None
    /\ listing' = [listing EXCEPT
         !.got = None, !.at = None,
         !.rows = @ \cup {[seat |-> SeatOfKey(listing.at), hold |-> listing.got,
                           until |-> IF redis[listing.at] = None THEN now
                                     ELSE redis[listing.at].until]}]
    /\ UNCHANGED <<redis, given, released, release, strayed, now>>

ListAnswer ==
    /\ listing.stage = "reading" /\ listing.got = None /\ listing.left = {}
    /\ listing' = [listing EXCEPT !.stage = "answered"]
    /\ UNCHANGED <<redis, given, released, release, strayed, now>>

-----------------------------------------------------------------------------

\* Mutant: keys are stored without a time to live.
TickForEver ==
    /\ now < MaxTime
    /\ now' = now + 1
    /\ UNCHANGED <<redis, given, released, release, listing, strayed>>

\* Redis does not return a key whose time has come.
Tick ==
    /\ now < MaxTime
    /\ now' = now + 1
    /\ redis' = [s \in Seats |->
                   IF redis[s] # None /\ redis[s].until <= now + 1
                   THEN None ELSE redis[s]]
    /\ UNCHANGED <<given, released, release, listing, strayed>>

Next ==
    \/ \E h \in Holds, s \in Seats : Create(h, s)
    \/ \E d \in Releases :
         \/ \E h \in Holds, s \in Seats : ReleaseRead(d, h, s)
         \/ ReleaseDelete(d)
    \/ ListKeys \/ ListTtl \/ ListAnswer
    \/ \E s \in Seats : ListValue(s)
    \/ Tick

Spec == Init /\ [][Next]_vars

-----------------------------------------------------------------------------

\* A seat is held by the one hold that its key names, and by nobody if it
\* has no key, so that a 409 always means that someone else has the seat and
\* a confirmed hold that nobody else has; unless a release came so late that
\* it deleted a hold it had not read.
SeatHasOneHolder ==
    \A s \in Seats \ strayed :
        {h \in Holds : InForce(h) /\ given[h].seat = s}
          = IF redis[s] = None THEN {} ELSE {redis[s].hold}

\* The same as the documents promise it: a second member is refused while
\* the seat is held.
HeldSeatIsRefused ==
    \A g, h \in Holds :
        InForce(g) /\ InForce(h) /\ given[g].seat = given[h].seat => g = h

\* The list, though its commands are interleaved with everything else, names
\* no hold that had ended before it was asked for, and every hold that was
\* in force from then until its answer, with the time at which that hold
\* ends.  A row's seat is that of its hold as far as the key tells: two
\* seats that differ before their last colon are listed as one.
ListAgrees ==
    listing.stage = "answered" =>
        /\ \A r \in listing.rows :
             r.hold \notin listing.before /\ r.seat = SeatOfKey(given[r.hold].seat)
        /\ \A h \in listing.held :
             InForce(h) /\ given[h].seat \notin strayed =>
                \E r \in listing.rows :
                    r.hold = h /\ r.until = given[h].until

=============================================================================
