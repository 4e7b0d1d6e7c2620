------------------------ MODULE MCAnalyticsRuntime ------------------------
(* Instances of AnalyticsRuntime for TLC. *)
EXTENDS AnalyticsRuntime

CONSTANTS a1, p1, c1

Event(i, kind, v, at, pid, amt) ==
    [id |-> i, wellFormed |-> TRUE, kind |-> kind, agg |-> a1, version |-> v,
     at |-> at, pid |-> pid, amount |-> amt, createdAt |-> 0,
     currency |-> c1]

\* The first event of a session, and a second that claims its eventId: the
\* one that comes later is rejected, and version 2 may come before version 1.
MCMessages ==
    { Event(1, "SplitCreated", 1, 0, None, 2),
      Event(1, "ParticipantAdded", 2, 1, p1, 2) }

MCAggregates == {a1}
MCParticipants == {p1}
MCCurrencies == {c1}
=============================================================================
