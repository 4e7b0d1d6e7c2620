------------------------- MODULE LiveAdapterProofs -------------------------
(* Theorems about LiveAdapter, for any number of revisions, any retention    *)
(* and page size, and any number of failures and resets.                     *)
EXTENDS LiveAdapter, SequenceTheorems, TLAPS

USE BoundsAssumption

-----------------------------------------------------------------------------
(* Types, and what the cycle knows of its frames. *)

(* The frames rise, none is below the cursor file, and the one at hand is
   received once it is confirmed, and in the file once it is saved. *)
FramesInv ==
    /\ \A i \in 1..Len(frames) : saved <= frames[i]
    /\ \A i, j \in 1..Len(frames) : i <= j => frames[i] <= frames[j]
    /\ pc \in {"confirmed", "saved"} => frames[1] \in received
    /\ pc = "saved" => saved = frames[1]

AdapterInv == TypeOK /\ FramesInv /\ SavedWasReceived

LEMMA InitAdapter == Init => AdapterInv
<1> SUFFICES ASSUME Init PROVE AdapterInv
  OBVIOUS
<1>1. frames = <<>> /\ Len(frames) = 0 /\ frames \in Seq(Revisions)
  BY DEF Init
<1>2. TypeOK
  BY <1>1 DEF Init, TypeOK, Revisions
<1> QED BY <1>1, <1>2 DEF Init, AdapterInv, FramesInv, SavedWasReceived

(* Store.updates answers with rising revisions above the cursor. *)
LEMMA UpdatesRise ==
    ASSUME latest \in Revisions, NEW after \in 0..MaxRevision
    PROVE  LET us == Updates(after)
           IN  /\ us \in Seq(Revisions) /\ Len(us) <= Limit
               /\ \A i \in 1..Len(us) : after <= us[i]
               /\ \A i, j \in 1..Len(us) : i <= j => us[i] <= us[j]
<1> DEFINE us == Updates(after)
<1>0. latest \in 1..MaxRevision /\ latest \in Nat /\ after \in Nat
  BY DEF Revisions
<1>1. CASE after < Oldest - 1
  <2>1. us = <<latest>>
    BY <1>1 DEF Updates
  <2>2. us \in Seq(Revisions) /\ Len(us) = 1 /\ us[1] = latest
    BY <2>1
  <2>3. after <= latest
    BY <1>0, <1>1 DEF Oldest, Larger
  <2> HIDE DEF us
  <2>4. Len(us) <= Limit
    BY <2>2
  <2> QED BY <1>0, <2>2, <2>3, <2>4 DEF us
<1>2. CASE ~(after < Oldest - 1)
  <2> DEFINE n == Larger(0, Smaller(Limit, latest - after))
  <2>1. n \in Nat /\ n <= Limit /\ \A i \in 1..n : after + i <= latest
    BY <1>0 DEF Larger, Smaller
  <2>2. us = [i \in 1..n |-> after + i]
    BY <1>2 DEF Updates
  <2> HIDE DEF us, n
  <2>3. \A i \in 1..n : after + i \in Revisions
    BY <1>0, <2>1 DEF Revisions
  <2>4. us \in [1..n -> Revisions]
    BY <2>2, <2>3
  <2>5. us \in Seq(Revisions) /\ Len(us) = n
    BY <2>1, <2>4, LenProperties, SeqDef
  <2> QED BY <1>0, <2>1, <2>2, <2>5 DEF us
<1> QED BY <1>1, <1>2

(* A step that leaves the cycle where it is, or ends it. *)
LEMMA NextAdapter == AdapterInv /\ [Next]_vars => AdapterInv'
<1> SUFFICES ASSUME AdapterInv, [Next]_vars PROVE AdapterInv'
  OBVIOUS
<1>0. /\ frames \in Seq(Revisions) /\ Len(frames) \in Nat /\ Len(frames) <= Limit
      /\ latest \in Revisions /\ saved \in 0..MaxRevision /\ cursor \in 0..MaxRevision
      /\ wire \subseteq Revisions /\ received \subseteq Revisions
      /\ <<>> \in Seq(Revisions) /\ Len(<<>>) = 0
      /\ (pc # "saved" => cursor = saved)
      /\ healthy \in [analytics : BOOLEAN, grafana : BOOLEAN]
  BY DEF AdapterInv, TypeOK
<1>A. ASSUME frames # <<>>
      PROVE  /\ Head(frames) = frames[1] /\ frames[1] \in Revisions
             /\ Len(frames) >= 1 /\ saved <= frames[1]
             /\ Tail(frames) \in Seq(Revisions) /\ Len(Tail(frames)) = Len(frames) - 1
             /\ \A i \in 1..Len(Tail(frames)) : Tail(frames)[i] = frames[i + 1]
  <2>1. /\ Head(frames) = frames[1] /\ Head(frames) \in Revisions
        /\ Tail(frames) \in Seq(Revisions) /\ Len(Tail(frames)) = Len(frames) - 1
        /\ \A i \in 1..Len(Tail(frames)) : Tail(frames)[i] = frames[i + 1]
    BY <1>0, <1>A, HeadTailProperties
  <2>2. Len(frames) >= 1
    BY <1>0, <2>1, LenProperties
  <2> QED BY <1>0, <2>1, <2>2 DEF AdapterInv, FramesInv
<1>E. ASSUME frames' = <<>>, pc' = "idle", UNCHANGED <<latest, saved, received>>,
             cursor' = saved, wire' \subseteq Revisions,
             shown' \in received \cup {0},
             healthy' \in [analytics : BOOLEAN, grafana : BOOLEAN],
             faults' \in 0..MaxFaults, resets' \in 0..MaxResets
      PROVE  AdapterInv'
  <2>1. Len(frames') = 0 /\ frames' \in Seq(Revisions)
    BY <1>E
  <2> QED BY <1>0, <1>E, <2>1 DEF AdapterInv, TypeOK, FramesInv, SavedWasReceived
<1>1. CASE PublishSnapshot \/ ResetAnalytics
  <2>1. latest' \in Revisions /\ resets' \in 0..MaxResets
    BY <1>0, <1>1 DEF PublishSnapshot, ResetAnalytics, Revisions, AdapterInv, TypeOK
  <2> QED BY <1>1, <2>1 DEF PublishSnapshot, ResetAnalytics, AdapterInv, TypeOK, FramesInv,
          SavedWasReceived
<1>2. CASE GetUpdates
  <2>1. /\ frames' = Updates(cursor) /\ cursor = saved
        /\ pc' = IF frames' = <<>> THEN "snapshot" ELSE "frames"
        /\ healthy' = [healthy EXCEPT !.analytics = TRUE]
        /\ UNCHANGED <<latest, cursor, saved, wire, received, shown, faults, resets>>
    BY <1>0, <1>2 DEF GetUpdates
  <2>2. /\ frames' \in Seq(Revisions) /\ Len(frames') <= Limit
        /\ \A i \in 1..Len(frames') : saved <= frames'[i]
        /\ \A i, j \in 1..Len(frames') : i <= j => frames'[i] <= frames'[j]
    BY <1>0, <2>1, UpdatesRise
  <2> QED BY <1>0, <2>1, <2>2 DEF AdapterInv, TypeOK, FramesInv, SavedWasReceived
<1>3. CASE GetSnapshot
  <2>1. CASE cursor # 0 /\ latest < cursor
    BY <1>0, <1>3, <1>E, <2>1 DEF GetSnapshot, EndCycle, AdapterInv, TypeOK
  <2>2. CASE ~(cursor # 0 /\ latest < cursor)
    <3>1. /\ frames' = <<latest>> /\ pc' = "frames" /\ cursor = saved
          /\ UNCHANGED <<latest, cursor, saved, healthy, wire, received, shown, faults, resets>>
      BY <1>0, <1>3, <2>2 DEF GetSnapshot
    <3>2. /\ frames' \in Seq(Revisions) /\ Len(frames') = 1 /\ frames'[1] = latest
      BY <1>0, <3>1
    <3>3. saved <= latest
      BY <1>0, <2>2, <3>1 DEF Revisions
    <3>4. Len(frames') <= Limit /\ frames' # <<>> /\ latest <= latest
      BY <1>0, <3>1, <3>2 DEF Revisions
    <3>5. FramesInv'
      BY <3>1, <3>2, <3>3, <3>4 DEF FramesInv
    <3> QED BY <1>0, <3>1, <3>2, <3>4, <3>5 DEF AdapterInv, TypeOK, SavedWasReceived
  <2> QED BY <2>1, <2>2
<1>4. CASE GetFails \/ SaveFails
  <2>1. pc # "saved" /\ cursor' = saved /\ frames' = <<>> /\ pc' = "idle"
        /\ faults' \in 0..MaxFaults
        /\ healthy' = [healthy EXCEPT !.analytics = FALSE]
        /\ UNCHANGED <<latest, saved, wire, received, shown, resets>>
    BY <1>0, <1>4 DEF GetFails, SaveFails, Fault, EndCycle, AdapterInv, TypeOK
  <2>2. healthy' \in [analytics : BOOLEAN, grafana : BOOLEAN]
    BY <1>0, <2>1
  <2> QED BY <1>0, <1>E, <2>1, <2>2 DEF AdapterInv, TypeOK
<1>5. CASE Push
  <2>1. frames # <<>> /\ wire' = wire \cup {Head(frames)} /\ pc' = "pushing"
        /\ UNCHANGED <<latest, cursor, saved, healthy, frames, received, shown, faults, resets>>
        /\ pc = "frames"
    BY <1>5 DEF Push
  <2>2. wire' \subseteq Revisions
    BY <1>0, <1>A, <2>1
  <2> QED BY <2>1, <2>2 DEF AdapterInv, TypeOK, FramesInv, SavedWasReceived
<1>6. CASE PushConfirmed
  <2>1. frames # <<>> /\ pc = "pushing" /\ pc' = "confirmed"
        /\ Head(frames) \in received
        /\ UNCHANGED <<latest, cursor, saved, healthy, frames, wire, received, shown,
                       faults, resets>>
    BY <1>6 DEF PushConfirmed, AdapterInv, TypeOK
  <2>2. frames[1] \in received
    BY <1>A, <2>1
  <2> QED BY <2>1, <2>2 DEF AdapterInv, TypeOK, FramesInv, SavedWasReceived
<1>7. CASE PushFails
  <2>1. wire' \subseteq Revisions
    BY <1>0, <1>7 DEF PushFails
  <2>2. cursor' = saved /\ frames' = <<>> /\ pc' = "idle" /\ faults' \in 0..MaxFaults
        /\ healthy' = [healthy EXCEPT !.grafana = FALSE]
        /\ UNCHANGED <<latest, saved, received, shown, resets>>
    BY <1>0, <1>7 DEF PushFails, Fault, EndCycle, AdapterInv, TypeOK
  <2>3. healthy' \in [analytics : BOOLEAN, grafana : BOOLEAN]
    BY <1>0, <2>2
  <2> QED BY <1>E, <2>1, <2>2, <2>3 DEF AdapterInv, TypeOK
<1>8. CASE SaveCursor
  <2>1. /\ frames # <<>> /\ pc = "confirmed" /\ pc' = "saved" /\ saved' = Head(frames)
        /\ UNCHANGED <<latest, cursor, healthy, frames, wire, received, shown, faults, resets>>
    BY <1>8 DEF SaveCursor, AdapterInv, TypeOK
  <2>2. saved' = frames[1] /\ frames[1] \in received /\ 1 \in 1..Len(frames)
        /\ frames[1] \in Revisions
    BY <1>0, <1>A, <2>1 DEF AdapterInv, FramesInv
  <2>3. \A i \in 1..Len(frames) : frames[1] <= frames[i]
    BY <2>2 DEF AdapterInv, FramesInv
  <2>4. FramesInv'
    BY <2>1, <2>2, <2>3 DEF AdapterInv, FramesInv
  <2>5. TypeOK'
    BY <2>1, <2>2 DEF AdapterInv, TypeOK, Revisions
  <2> QED BY <2>1, <2>2, <2>4, <2>5 DEF AdapterInv, SavedWasReceived
<1>9. CASE Advance
  <2>1. /\ pc = "saved" /\ frames # <<>> /\ cursor' = Head(frames)
        /\ frames' = Tail(frames)
        /\ pc' = IF Len(frames) = 1 THEN "idle" ELSE "frames"
        /\ healthy' = [analytics |-> TRUE, grafana |-> TRUE]
        /\ UNCHANGED <<latest, saved, wire, received, shown, faults, resets>>
    BY <1>9 DEF Advance, AdapterInv, TypeOK
  <2>2. saved = frames[1] /\ cursor' = saved /\ cursor' \in 0..MaxRevision
    BY <1>0, <1>A, <2>1 DEF AdapterInv, FramesInv
  <2>3. /\ frames' \in Seq(Revisions) /\ Len(frames') = Len(frames) - 1
        /\ \A i \in 1..Len(frames') : frames'[i] = frames[i + 1]
    BY <1>A, <2>1
  <2>4. Len(frames') <= Limit /\ (frames' = <<>> <=> Len(frames) = 1)
    <3>1. frames' = <<>> <=> Len(frames') = 0
      BY <2>3, EmptySeq
    <3> QED BY <1>0, <1>A, <2>1, <2>3, <3>1
  <2>5. \A i \in 1..Len(frames') : i + 1 \in 1..Len(frames)
    BY <1>0, <2>3
  <2>6. FramesInv'
    BY <1>0, <2>1, <2>3, <2>5 DEF AdapterInv, FramesInv
  <2>7. TypeOK'
    BY <1>0, <2>1, <2>2, <2>3, <2>4 DEF AdapterInv, TypeOK
  <2> QED BY <2>1, <2>6, <2>7 DEF AdapterInv, SavedWasReceived
<1>10. CASE Crash
  BY <1>0, <1>10, <1>E DEF Crash, Fault, EndCycle, AdapterInv, TypeOK
<1>11. ASSUME NEW r \in Revisions, Arrive(r) PROVE AdapterInv'
  <2>1. /\ wire' \subseteq Revisions /\ received' = received \cup {r}
        /\ UNCHANGED <<latest, cursor, saved, healthy, pc, frames, faults, resets>>
    BY <1>0, <1>11 DEF Arrive
  <2>2. shown' \in received' \cup {0}
    BY <1>11 DEF Arrive, Larger, AdapterInv, TypeOK
  <2> QED BY <1>0, <2>1, <2>2 DEF AdapterInv, TypeOK, FramesInv, SavedWasReceived
<1>12. CASE OpenPanel
  BY <1>12 DEF OpenPanel, Fault, AdapterInv, TypeOK, FramesInv, SavedWasReceived
<1>13. CASE UNCHANGED vars
  BY <1>13 DEF vars, AdapterInv, TypeOK, FramesInv, SavedWasReceived
<1> QED
  BY <1>1, <1>2, <1>3, <1>4, <1>5, <1>6, <1>7, <1>8, <1>9, <1>10, <1>11, <1>12, <1>13
     DEF Next, Cycle

(* The adapter's cursor, file and frames fit together at every point of its
   cycle. *)
THEOREM TypeCorrect == Spec => []TypeOK
<1>1. AdapterInv => TypeOK
  BY DEF AdapterInv
<1> QED BY <1>1, InitAdapter, NextAdapter, PTL DEF Spec

(* The cursor file names no revision that Grafana has not received, whatever
   fails and whenever the adapter dies. *)
THEOREM SavedIsReceived == Spec => []SavedWasReceived
<1>1. AdapterInv => SavedWasReceived
  BY DEF AdapterInv
<1> QED BY <1>1, InitAdapter, NextAdapter, PTL DEF Spec

(* Nothing older than the cursor file is ever sent. *)
THEOREM SendsAreNotOld == Spec => SendsFollowTheFile
<1>1. AdapterInv /\ [Next]_vars => [\A r \in wire' \ wire : r >= saved]_vars
  <2> SUFFICES ASSUME AdapterInv, Next, NEW r \in wire' \ wire PROVE r >= saved
    OBVIOUS
  <2>1. CASE Push
    <3>1. r = Head(frames) /\ frames # <<>>
      BY <2>1 DEF Push
    <3>2. /\ frames \in Seq(Revisions) /\ Len(frames) \in Nat
          /\ saved \in Nat
      BY DEF AdapterInv, TypeOK
    <3>3. r = frames[1] /\ r \in Revisions /\ Len(frames) >= 1
      BY <3>1, <3>2, HeadTailProperties, EmptySeq
    <3>4. saved <= frames[1]
      BY <3>2, <3>3 DEF AdapterInv, FramesInv
    <3> QED BY <3>2, <3>3, <3>4 DEF Revisions
  <2>2. CASE ~Push
    <3>1. wire' \subseteq wire
      BY <2>2 DEF Next, Cycle, PublishSnapshot, ResetAnalytics, GetUpdates, GetSnapshot,
         PushConfirmed, SaveCursor, Advance, GetFails, PushFails, SaveFails, Crash, Arrive,
         OpenPanel
    <3> QED BY <3>1
  <2> QED BY <2>1, <2>2
<1> QED BY <1>1, InitAdapter, NextAdapter, PTL DEF Spec, SendsFollowTheFile

=============================================================================
