------------------------- MODULE MCAnalyticsStore -------------------------
(* Instances of AnalyticsStore for TLC. *)
EXTENDS AnalyticsKpis

CONSTANTS a1, a2, p1, p2, c1, c2

Event(i, kind, a, v, at, pid, amt) ==
    [id |-> i, wellFormed |-> TRUE, kind |-> kind, agg |-> a, version |-> v,
     at |-> at, pid |-> pid, amount |-> amt, createdAt |-> 0,
     currency |-> IF a = a1 THEN c1 ELSE c2]

(* The history of a session, with the deliveries that disturb it: two       *)
(* events that claim version 3, an eventId with two contents, an event for  *)
(* a participant nobody added, one whose time goes back, one after the      *)
(* close, one that is no event at all; and a second session, in another     *)
(* currency, that is closed without participants.                           *)
MCMessages ==
    { Event(1, "SplitCreated", a1, 1, 1, None, 2),
      Event(2, "ParticipantAdded", a1, 2, 1, p1, 2),
      Event(3, "ParticipantAuthorized", a1, 3, 2, p1, 0),
      Event(4, "SplitCompleted", a1, 4, 2, None, 0),
      Event(5, "ParticipantAuthorized", a1, 3, 2, p2, 0),
      Event(6, "ParticipantAdded", a1, 3, 0, p2, 1),
      Event(7, "ParticipantAdded", a1, 5, 3, p2, 1),
      Event(1, "SplitCreated", a2, 1, 1, None, 2),
      [Event(2, "ParticipantAdded", a1, 2, 1, p1, 1) EXCEPT !.wellFormed = FALSE],
      Event(8, "ParticipantAdded", a2, 1, 1, p1, 1),
      Event(9, "SplitCompleted", a2, 2, 2, None, 0)}

MCAggregates == {a1, a2}
MCParticipants == {p1, p2}
MCCurrencies == {c1, c2}
=============================================================================
