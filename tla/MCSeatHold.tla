----------------------------- MODULE MCSeatHold -----------------------------
(* Instances of SeatHold for TLC. *)
EXTENDS SeatHold

(* The seats "1" and "A:1", which the list gives the same name. *)
MCParts == {"A", "1"}
MCSeats == {<<"1">>, <<"A", "1">>}

MCOneSeat == {<<"1">>}
=============================================================================
