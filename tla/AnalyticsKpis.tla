--------------------------- MODULE AnalyticsKpis ---------------------------
(***************************************************************************)
(* The three business indicators, which every snapshot of the projections  *)
(* carries: as `calculate' of business-analytics works them out, and as    *)
(* the independent oracle of the tests does.                               *)
(*                                                                         *)
(*   B-K1  how many of the recent closes are valid;                        *)
(*   B-K2  by currency, what the recent closes lack to their totals;       *)
(*   B-K3  by currency, what is authorized in sessions open for too long.  *)
(*                                                                         *)
(* A percentage is kept as the pair of numbers it is the ratio of.         *)
(***************************************************************************)
EXTENDS AnalyticsStore, FiniteSetsExt, Functions

CONSTANTS
    Window,   \* how long a close is recent: 900 seconds in the code
    MaxNow    \* bound on the times at which the indicators are compared

ASSUME WindowAssumption == Window \in Nat /\ MaxNow \in Nat

-----------------------------------------------------------------------------
(* calculate *)

AddedTo(s) == {p \in Participants : s.parts[p].added}

Shares(s, ps) == MapThenSumSet(LAMBDA p : s.parts[p].share, ps)

\* The sum of the shares that are authorized.
Authorized(s) == Shares(s, {p \in AddedTo(s) : s.parts[p].authorized})

\* A reference stands with every authorization, so it needs no test of its own.
ValidClose(s) ==
    /\ AddedTo(s) # {}
    /\ \A p \in AddedTo(s) : s.parts[p].share > 0 /\ s.parts[p].authorized
    /\ Shares(s, AddedTo(s)) = s.total

\* Mutant: the window is closed at both ends.
ClosedInclusive(now) ==
    {a \in Aggregates : db.sessions[a].status = "COMPLETED"
                          /\ db.sessions[a].closedAt \in (now - Window)..now}

\* The window is closed at its beginning and open at its end.
Closed(now) ==
    {a \in Aggregates : db.sessions[a].status = "COMPLETED"
                          /\ db.sessions[a].closedAt \in (now - Window)..(now - 1)}

Stale(now) ==
    {a \in Aggregates : db.sessions[a].status = "OPEN"
                          /\ now > db.sessions[a].deadline}

\* No currency is ever added to another.
ByCurrency(S, value) ==
    [c \in {db.sessions[a].currency : a \in S} |->
        SumFunctionOnSet(value, {a \in S : db.sessions[a].currency = c})]

Gap ==
    [a \in Aggregates |->
        LET d == db.sessions[a].total - Authorized(db.sessions[a])
        IN  IF d < 0 THEN -d ELSE d]

AuthorizedOf == [a \in Aggregates |-> Authorized(db.sessions[a])]

Calculate(now) ==
    [k1 |-> IF Closed(now) = {} THEN None
            ELSE <<Cardinality({a \in Closed(now) : ValidClose(db.sessions[a])}),
                   Cardinality(Closed(now))>>,
     k2 |-> ByCurrency(Closed(now), Gap),
     k3 |-> ByCurrency(Stale(now), AuthorizedOf)]

-----------------------------------------------------------------------------
(* The oracle *)

Sesiones == {a \in Aggregates : db.sessions[a].version > 0}

EnVentana(closedAt, ahora) ==
    closedAt # None /\ 0 < ahora - closedAt /\ ahora - closedAt <= Window

Cohorte(ahora) == {a \in Sesiones : EnVentana(db.sessions[a].closedAt, ahora)}

EsCierreValido(s) ==
    LET participantes == AddedTo(s)
    IN  /\ participantes # {}
        /\ ~\E p \in participantes : s.parts[p].share <= 0
        /\ \A p \in participantes : s.parts[p].authorized
        /\ s.total = MapThenSumSet(LAMBDA p : s.parts[p].share, participantes)

BK1(ahora) ==
    IF Cohorte(ahora) = {} THEN None
    ELSE <<Cardinality({a \in Cohorte(ahora) : EsCierreValido(db.sessions[a])}),
           Cardinality(Cohorte(ahora))>>

BK2(ahora) == ByCurrency(Cohorte(ahora), Gap)

BK3(ahora) ==
    ByCurrency({a \in Sesiones : db.sessions[a].status = "OPEN"
                                   /\ ahora - db.sessions[a].createdAt > Deadline},
               AuthorizedOf)

-----------------------------------------------------------------------------

\* Whatever has been delivered, and whenever a snapshot is made, the edges of
\* the windows included, the indicators are those of the oracle, though
\* calculate goes by the status and the stored deadline and the oracle by
\* closedAt and createdAt; and where B-K1 finds every close valid, B-K2 finds
\* nothing lacking.
KpisAgree ==
    \A now \in 0..MaxNow :
        LET k == Calculate(now)
        IN  /\ k = [k1 |-> BK1(now), k2 |-> BK2(now), k3 |-> BK3(now)]
            /\ k.k1 # None /\ k.k1[1] = k.k1[2] =>
                 \A c \in DOMAIN k.k2 : k.k2[c] = 0

=============================================================================
