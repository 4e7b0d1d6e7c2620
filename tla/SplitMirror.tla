---------------------------- MODULE SplitMirror ----------------------------
(***************************************************************************)
(* What business-analytics promises about the split sessions, with nothing *)
(* of outbox, topic, inbox and projection: it shows each session as it was *)
(* at some time, never goes back, and comes to show what the session is.   *)
(*                                                                         *)
(* The promise ends for the run of the system in which two requests of one *)
(* session have overlapped: the service then loses updates itself.         *)
(***************************************************************************)
EXTENDS Naturals, Sequences

CONSTANTS
    Sessions,
    Contents,     \* what a session may hold
    Final(_),     \* contents that never change again
    Nothing       \* what is shown of a session that is not known: no content

VARIABLES
    history,      \* the contents of each session so far, oldest first
    shown,        \* the number of the content that is shown, and the content
    overlapped    \* two requests of one session have overlapped

vars == <<history, shown, overlapped>>

Init ==
    /\ history = [s \in Sessions |-> <<>>]
    /\ shown = [s \in Sessions |-> [version |-> 0, content |-> Nothing]]
    /\ overlapped = FALSE

\* The service changes a session that is not final.
Change(s) ==
    /\ \A i \in DOMAIN history[s] : ~Final(history[s][i])
    /\ \E c \in Contents : history' = [history EXCEPT ![s] = Append(@, c)]
    /\ UNCHANGED <<shown, overlapped>>

\* The view of a session moves on to a later content, not always the next.
Show(s) ==
    /\ \E v \in (shown[s].version + 1)..Len(history[s]) :
         shown' = [shown EXCEPT ![s] = [version |-> v, content |-> history[s][v]]]
    /\ UNCHANGED <<history, overlapped>>

Next == overlapped' \/ \E s \in Sessions : Change(s) \/ Show(s)

\* Weak fairness of Show(s), until an overlap, with the condition that
\* enables Show(s) written out: TLC cannot evaluate ENABLED where another
\* module's variables stand for those of this one.
KeepsUp(s) ==
    \/ []<>(shown[s].version = Len(history[s]) \/ overlapped)
    \/ []<><<Show(s)>>_vars

Spec == Init /\ [][Next]_vars /\ \A s \in Sessions : KeepsUp(s)

=============================================================================
