---------------------------- MODULE LiveAdapter ----------------------------
(***************************************************************************)
(* The bridge between business-analytics and Grafana Live, and the panel   *)
(* that shows what arrives.                                                *)
(*                                                                         *)
(* Analytics numbers its snapshots and keeps the newest Retention of them. *)
(* A cycle of the adapter asks for those after its cursor, or for the      *)
(* newest one if there are none, and pushes them one by one; a push that   *)
(* Grafana confirms is written to the cursor file before the next.  Every  *)
(* snapshot is complete, so only its revision matters here, and whether it *)
(* has a row for the panel: a push has one row for each currency that B-K2 *)
(* or B-K3 names, and one for USD if they name none, and a panel reads the *)
(* rows of one currency only (USD in every dashboard).                     *)
(*                                                                         *)
(* `wire' holds the pushes that have left the adapter and not arrived: one *)
(* that the adapter has given up after its timeout may arrive later than   *)
(* others.                                                                 *)
(***************************************************************************)
EXTENDS Integers, Sequences, FiniteSets

CONSTANTS
    MaxRevision,  \* bound on the revisions
    Retention,    \* snapshots that analytics keeps (10000 in the code)
    Limit,        \* snapshots in one answer to /updates (100 in the code)
    MaxFaults,    \* bound on failed calls and crashes
    MaxResets,    \* bound on the losses of the analytics volume
    OthersOnly    \* revisions whose B-K2 and B-K3 name currencies, and not the
                  \* panel's

ASSUME BoundsAssumption ==
    /\ MaxRevision \in Nat \ {0} /\ Retention \in Nat \ {0} /\ Limit \in Nat \ {0}
    /\ MaxFaults \in Nat /\ MaxResets \in Nat
    /\ OthersOnly \subseteq 1..MaxRevision

VARIABLES
    latest,    \* newest row of `snapshots'
    cursor,    \* AdapterState.cursor
    saved,     \* the cursor file; 0 while there is none
    healthy,   \* what AdapterState says of analytics and of Grafana
    pc,        \* where the cycle is
    frames,    \* revisions that the cycle has still to push
    wire,      \* pushes on their way to Grafana
    received,  \* revisions that Grafana has received
    shown,     \* the panel's latest revision; 0 before the first
    faults, resets

vars == <<latest, cursor, saved, healthy, pc, frames, wire, received, shown,
          faults, resets>>

Revisions == 1..MaxRevision

TypeOK ==
    /\ latest \in Revisions
    /\ cursor \in 0..MaxRevision /\ saved \in 0..MaxRevision
    /\ healthy \in [analytics : BOOLEAN, grafana : BOOLEAN]
    /\ pc \in {"idle", "snapshot", "frames", "pushing", "confirmed", "saved"}
    /\ frames \in Seq(Revisions) /\ Len(frames) <= Limit
    /\ wire \subseteq Revisions /\ received \subseteq Revisions
    /\ shown \in received \cup {0}
    /\ faults \in 0..MaxFaults /\ resets \in 0..MaxResets
    /\ (pc \in {"pushing", "confirmed", "saved"} => frames # <<>>)
    /\ (pc \in {"idle", "snapshot"} => frames = <<>>)
    /\ (pc # "saved" => cursor = saved)

Init ==
    /\ latest = 1
    /\ cursor = 0 /\ saved = 0
    /\ healthy = [analytics |-> FALSE, grafana |-> FALSE]
    /\ pc = "idle" /\ frames = <<>>
    /\ wire = {} /\ received = {} /\ shown = 0
    /\ faults = 0 /\ resets = 0

-----------------------------------------------------------------------------
(* Analytics. *)

\* A tick of the clock thread.
PublishSnapshot ==
    /\ latest < MaxRevision
    /\ latest' = latest + 1
    /\ UNCHANGED <<cursor, saved, healthy, pc, frames, wire, received, shown,
                   faults, resets>>

\* The volume is lost and the revisions begin again.
ResetAnalytics ==
    /\ resets < MaxResets
    /\ resets' = resets + 1
    /\ latest' = 1
    /\ UNCHANGED <<cursor, saved, healthy, pc, frames, wire, received, shown,
                   faults>>

Smaller(a, b) == IF a < b THEN a ELSE b
Larger(a, b) == IF a > b THEN a ELSE b

\* The oldest revision kept.
Oldest == Larger(1, latest - Retention + 1)

\* Store.updates: the newest snapshot alone to who asks for one that is gone.
Updates(after) ==
    IF after < Oldest - 1 THEN <<latest>>
    ELSE [i \in 1..Larger(0, Smaller(Limit, latest - after)) |-> after + i]

-----------------------------------------------------------------------------
(* The adapter's one thread. *)

Fault ==
    /\ faults < MaxFaults
    /\ faults' = faults + 1

\* GET /updates, with the cursor of this cycle.
GetUpdates ==
    /\ pc = "idle"
    /\ frames' = Updates(cursor)
    /\ pc' = IF frames' = <<>> THEN "snapshot" ELSE "frames"
    /\ healthy' = [healthy EXCEPT !.analytics = TRUE]
    /\ UNCHANGED <<latest, cursor, saved, wire, received, shown, faults, resets>>

EndCycle == pc' = "idle" /\ frames' = <<>>

\* Mutant: nothing is pushed when nothing is new.
GetSnapshotWhenNew ==
    /\ pc = "snapshot"
    /\ IF latest <= cursor
       THEN EndCycle
       ELSE pc' = "frames" /\ frames' = <<latest>>
    /\ UNCHANGED <<latest, cursor, saved, healthy, wire, received, shown, faults,
                   resets>>

\* GET /snapshot: a heartbeat of the newest revision, unless the revisions
\* have gone back, which is an error of analytics.
GetSnapshot ==
    /\ pc = "snapshot"
    /\ IF cursor # 0 /\ latest < cursor
       THEN /\ EndCycle
            /\ healthy' = [healthy EXCEPT !.analytics = FALSE]
       ELSE /\ pc' = "frames" /\ frames' = <<latest>>
            /\ UNCHANGED healthy
    /\ UNCHANGED <<latest, cursor, saved, wire, received, shown, faults, resets>>

\* Either call fails.
GetFails ==
    /\ Fault
    /\ pc \in {"idle", "snapshot"}
    /\ EndCycle
    /\ healthy' = [healthy EXCEPT !.analytics = FALSE]
    /\ UNCHANGED <<latest, cursor, saved, wire, received, shown, resets>>

\* publish() of the next snapshot: the request leaves.  Both ways to get
\* here give no revision below the cursor, which publish() would drop.
Push ==
    /\ pc = "frames"
    /\ frames # <<>>
    /\ wire' = wire \cup {Head(frames)}
    /\ pc' = "pushing"
    /\ UNCHANGED <<latest, cursor, saved, healthy, frames, received, shown, faults,
                   resets>>

\* Grafana answers 2xx.
PushConfirmed ==
    /\ pc = "pushing"
    /\ Head(frames) \in received \ wire
    /\ pc' = "confirmed"
    /\ UNCHANGED <<latest, cursor, saved, healthy, frames, wire, received, shown,
                   faults, resets>>

\* Mutant: the cursor is written whether or not Grafana has confirmed.
PushFailsSaved ==
    /\ Fault
    /\ pc = "pushing"
    /\ wire' \in {wire, wire \ {Head(frames)}}
    /\ saved' = Head(frames) /\ cursor' = Head(frames)
    /\ EndCycle
    /\ healthy' = [healthy EXCEPT !.grafana = FALSE]
    /\ UNCHANGED <<latest, received, shown, resets>>

\* No connection, an answer that is not 2xx, or none within the timeout,
\* after which the request may still be on its way.
PushFails ==
    /\ Fault
    /\ pc = "pushing"
    /\ wire' \in {wire, wire \ {Head(frames)}}
    /\ EndCycle
    /\ healthy' = [healthy EXCEPT !.grafana = FALSE]
    /\ UNCHANGED <<latest, cursor, saved, received, shown, resets>>

\* os.replace of the cursor file.
SaveCursor ==
    /\ pc = "confirmed"
    /\ saved' = Head(frames)
    /\ pc' = "saved"
    /\ UNCHANGED <<latest, cursor, healthy, frames, wire, received, shown, faults,
                   resets>>

\* An OSError of the cursor file, which fail() lays at analytics' door.
SaveFails ==
    /\ Fault
    /\ pc = "confirmed"
    /\ EndCycle
    /\ healthy' = [healthy EXCEPT !.analytics = FALSE]
    /\ UNCHANGED <<latest, cursor, saved, wire, received, shown, resets>>

\* Mutant: only the cursor is set.
AdvanceWithoutHealth ==
    /\ pc = "saved"
    /\ cursor' = Head(frames)
    /\ frames' = Tail(frames)
    /\ pc' = IF Len(frames) = 1 THEN "idle" ELSE "frames"
    /\ UNCHANGED <<latest, saved, healthy, wire, received, shown, faults, resets>>

\* The rest of publish().
Advance ==
    /\ pc = "saved"
    /\ cursor' = Head(frames)
    /\ frames' = Tail(frames)
    /\ pc' = IF Len(frames) = 1 THEN "idle" ELSE "frames"
    /\ healthy' = [analytics |-> TRUE, grafana |-> TRUE]
    /\ UNCHANGED <<latest, saved, wire, received, shown, faults, resets>>

\* Mutant: the cursor file is not read.
CrashForgetting ==
    /\ Fault
    /\ cursor' = 0
    /\ EndCycle
    /\ healthy' = [analytics |-> FALSE, grafana |-> FALSE]
    /\ UNCHANGED <<latest, saved, wire, received, shown, resets>>

\* The process dies and starts again at the cursor file.
Crash ==
    /\ Fault
    /\ cursor' = saved
    /\ EndCycle
    /\ healthy' = [analytics |-> FALSE, grafana |-> FALSE]
    /\ UNCHANGED <<latest, saved, wire, received, shown, resets>>

-----------------------------------------------------------------------------
(* Grafana and the panel. *)

\* A push arrives.  The panel ignores revisions that have no row for it, and
\* those below the one it shows.
Arrive(r) ==
    /\ r \in wire
    /\ wire' = wire \ {r}
    /\ received' = received \cup {r}
    /\ shown' = IF r \in OthersOnly THEN shown ELSE Larger(shown, r)
    /\ UNCHANGED <<latest, cursor, saved, healthy, pc, frames, faults, resets>>

\* The page is loaded anew and shows nothing yet.
OpenPanel ==
    /\ Fault
    /\ shown' = 0
    /\ UNCHANGED <<latest, cursor, saved, healthy, pc, frames, wire, received, resets>>

Cycle ==
    \/ GetUpdates \/ GetSnapshot \/ Push \/ PushConfirmed \/ SaveCursor \/ Advance

Next ==
    \/ PublishSnapshot \/ ResetAnalytics
    \/ Cycle
    \/ GetFails \/ PushFails \/ SaveFails \/ Crash
    \/ \E r \in Revisions : Arrive(r)
    \/ OpenPanel

\* The clock thread and the adapter's loop run forever, and what the adapter
\* sends arrives unless the call fails.
Fairness ==
    /\ WF_vars(PublishSnapshot)
    /\ WF_vars(Cycle)
    /\ \A r \in Revisions : WF_vars(Arrive(r))

Spec == Init /\ [][Next]_vars /\ Fairness

-----------------------------------------------------------------------------

\* The cursor file only names a revision that Grafana has received, whatever
\* fails and whenever the process dies: nothing is taken as shown that was
\* not.
SavedWasReceived == saved \in received \cup {0}

\* The adapter never sends a revision older than the cursor file, though the
\* answers it works through are older than that, analytics may have begun
\* again, and it has died in between.  (It may send one older than Grafana
\* has: a heartbeat that was given up and arrives late overtakes the retry.)
SendsFollowTheFile ==
    [][\A r \in wire' \ wire : r >= saved]_vars

\* A panel comes to show every revision that analytics publishes, or a newer
\* one, though calls fail, the adapter crashes, retention deletes revisions
\* before they are read, some have no row for the panel, and the page is
\* loaded again.  (The last revision has a row.)
PanelCatchesUp ==
    \A r \in Revisions : latest >= r ~> shown >= r

\* The heartbeat is for newly opened panels too: each comes to show something.
NewPanelIsServed == shown = 0 ~> shown # 0

\* After the last failure the adapter comes to report itself healthy.
HealthRecovers ==
    <>[](healthy.analytics /\ healthy.grafana)

=============================================================================
