-------------------------- MODULE SeatHoldProofs --------------------------
(* Theorems about SeatHold, for any number of seats, holds and releases, and
   any time to live. *)
EXTENDS SeatHold, TLAPS

USE TTLAssumption, NoneAssumption

(* What list calls a seat is a name of the same kind, and the seat's own where
   the seatId has no colon. *)
LEMMA SeatOfKeyType ==
    ASSUME NEW s \in Seats
    PROVE  SeatOfKey(s) \in Seq(Parts) /\ (Len(s) = 1 => SeatOfKey(s) = s)
<1>1. s \in Seq(Parts) /\ s # <<>> /\ Len(s) \in Nat
  BY SeatsAssumption
<1>2. Len(s) >= 1 /\ s[Len(s)] \in Parts
  BY <1>1
<1>3. SeatOfKey(s) \in Seq(Parts)
  BY <1>2 DEF SeatOfKey
<1>4. Len(s) = 1 => <<s[1]>> = s
  BY <1>1
<1> QED BY <1>3, <1>4 DEF SeatOfKey

-----------------------------------------------------------------------------
(* Types. *)

LEMMA InitType == Init => TypeOK
BY DEF Init, TypeOK, Listing, Idle

LEMMA NextType == TypeOK /\ [Next]_vars => TypeOK'
<1> SUFFICES ASSUME TypeOK, [Next]_vars PROVE TypeOK'
  OBVIOUS
<1>1. ASSUME NEW h \in Holds, NEW s \in Seats, Create(h, s) PROVE TypeOK'
  <2>1. now + TTL \in Nat /\ now + TTL > now
    BY DEF TypeOK
  <2>2. [hold |-> h, until |-> now + TTL] \in Key /\ [seat |-> s, until |-> now + TTL] \in Grant
    BY <2>1 DEF Key, Grant
  <2>3. redis' \in [Seats -> Key \cup {None}] /\ given' \in [Holds -> Grant \cup {None}]
    BY <1>1, <2>2 DEF Create, Hold, TypeOK
  <2>4. ASSUME NEW t \in Seats, redis'[t] # None PROVE redis'[t].until > now
    BY <1>1, <2>1, <2>4 DEF Create, Hold, TypeOK
  <2> QED BY <1>1, <2>3, <2>4 DEF Create, Hold, TypeOK
<1>2. ASSUME NEW d \in Releases, NEW h \in Holds, NEW s \in Seats, ReleaseRead(d, h, s)
      PROVE  TypeOK'
  BY <1>2 DEF ReleaseRead, TypeOK
<1>3. ASSUME NEW d \in Releases, ReleaseDelete(d) PROVE TypeOK'
  BY <1>3 DEF ReleaseDelete, TypeOK
<1>4. ASSUME ListKeys PROVE TypeOK'
  <2>1. listing' \in Listing /\ listing'.got = None /\ listing'.at = None
    BY <1>4 DEF ListKeys, Idle, Listing
  <2> QED BY <1>4, <2>1 DEF ListKeys, TypeOK
<1>5. ASSUME NEW s \in Seats, ListValue(s) PROVE TypeOK'
  <2>1. redis[s] # None => redis[s].hold \in Holds
    BY DEF TypeOK, Key
  <2>2. listing' \in Listing /\ (listing'.got = None <=> listing'.at = None)
    BY <1>5, <2>1 DEF ListValue, Listing, TypeOK
  <2> QED BY <1>5, <2>2 DEF ListValue, TypeOK
<1>6. ASSUME ListTtl PROVE TypeOK'
  <2>1. listing.at \in Seats /\ listing.got \in Holds
    BY <1>6 DEF ListTtl, TypeOK, Listing
  <2>2. redis[listing.at] # None => redis[listing.at].until \in Nat
    BY <2>1 DEF TypeOK, Key
  <2> DEFINE row == [seat |-> SeatOfKey(listing.at), hold |-> listing.got,
                     until |-> IF redis[listing.at] = None THEN now
                               ELSE redis[listing.at].until]
  <2>3. row \in Row
    BY <2>1, <2>2, SeatOfKeyType DEF Row, TypeOK
  <2>4. listing' = [listing EXCEPT !.got = None, !.at = None, !.rows = @ \cup {row}]
    BY <1>6 DEF ListTtl
  <2> HIDE DEF row
  <2>5. listing' \in Listing /\ listing'.got = None /\ listing'.at = None
    BY <2>3, <2>4 DEF Listing, TypeOK
  <2> QED BY <1>6, <2>5 DEF ListTtl, TypeOK
<1>7. ASSUME ListAnswer PROVE TypeOK'
  BY <1>7 DEF ListAnswer, Listing, TypeOK
<1>8. ASSUME Tick PROVE TypeOK'
  <2>1. redis' \in [Seats -> Key \cup {None}] /\ now' = now + 1 /\ now' \in Nat
    BY <1>8 DEF Tick, TypeOK
  <2>2. ASSUME NEW t \in Seats, redis'[t] # None PROVE redis'[t].until > now'
    <3>1. redis[t] # None /\ redis'[t] = redis[t] /\ ~(redis[t].until <= now + 1)
      BY <1>8, <2>2 DEF Tick
    <3>2. redis[t].until \in Nat
      BY <3>1 DEF TypeOK, Key
    <3> QED BY <2>1, <3>1, <3>2 DEF TypeOK
  <2> QED BY <1>8, <2>1, <2>2 DEF Tick, TypeOK
<1>9. ASSUME UNCHANGED vars PROVE TypeOK'
  BY <1>9 DEF vars, TypeOK
<1> QED BY <1>1, <1>2, <1>3, <1>4, <1>5, <1>6, <1>7, <1>8, <1>9 DEF Next

(* Keys, grants, requests and the list stay well-typed, and no key is
   returned after its time. *)
THEOREM TypeCorrect == Spec => []TypeOK
BY InitType, NextType, PTL DEF Spec

-----------------------------------------------------------------------------
(* One holder for each seat. *)

(* A key names a hold that was given for its seat and its time, and not
   released; a release is of the seat that its hold was given for. *)
HoldInv ==
    /\ \A s \in Seats : redis[s] # None =>
         /\ given[redis[s].hold] = [seat |-> s, until |-> redis[s].until]
         /\ redis[s].hold \notin released
    /\ \A h \in released : given[h] # None
    /\ \A d \in Releases : release[d].stage = "read" =>
         /\ given[release[d].hold] # None
         /\ given[release[d].hold].seat = release[d].seat

(* A key's hold was given. *)
LEMMA KeyGrant ==
    ASSUME TypeOK, HoldInv, NEW s \in Seats, redis[s] # None
    PROVE  /\ redis[s].hold \in Holds /\ redis[s].hold \notin released
           /\ given[redis[s].hold] = [seat |-> s, until |-> redis[s].until]
           /\ given[redis[s].hold] \in Grant
<1>1. redis[s] \in Key
  BY DEF TypeOK
<1>2. redis[s].hold \in Holds /\ redis[s].until \in Nat
  BY <1>1 DEF Key
<1>3. [seat |-> s, until |-> redis[s].until] \in Grant
  BY <1>2 DEF Grant
<1> QED BY <1>2, <1>3 DEF HoldInv

LEMMA NextHold == TypeOK /\ HoldInv /\ [Next]_vars => HoldInv'
<1> SUFFICES ASSUME TypeOK, HoldInv, [Next]_vars PROVE HoldInv'
  OBVIOUS
<1>0. /\ given \in [Holds -> Grant \cup {None}]
      /\ redis \in [Seats -> Key \cup {None}]
      /\ released \subseteq Holds
      /\ \A s \in Seats : redis[s] # None => redis[s] \in Key /\ redis[s].hold \in Holds
      /\ \A d \in Releases : release[d].stage = "read" =>
           release[d].seat \in Seats /\ release[d].hold \in Holds
  BY DEF TypeOK, Key
<1>1. ASSUME NEW h \in Holds, NEW s \in Seats, Create(h, s) PROVE HoldInv'
  <2> DEFINE key == [hold |-> h, until |-> now + TTL]
             grant == [seat |-> s, until |-> now + TTL]
  <2>1. key.hold = h /\ grant = [seat |-> s, until |-> key.until] /\ grant \in Grant
    BY DEF Grant, TypeOK
  <2>2. /\ redis' = [redis EXCEPT ![s] = key] /\ given' = [given EXCEPT ![h] = grant]
        /\ given[h] = None
        /\ UNCHANGED <<released, release>>
    BY <1>1 DEF Create, Hold
  <2> HIDE DEF key, grant
  <2>3. \A g \in Holds : given[g] # None => given'[g] = given[g]
    BY <1>0, <2>2
  <2>4. h \notin released
    BY <2>2 DEF HoldInv
  <2>5. ASSUME NEW t \in Seats, redis'[t] # None
        PROVE  /\ given'[redis'[t].hold] = [seat |-> t, until |-> redis'[t].until]
               /\ redis'[t].hold \notin released
    <3>1. CASE t = s
      BY <1>0, <2>1, <2>2, <2>4, <3>1
    <3>2. CASE t # s
      <4>1. redis'[t] = redis[t] /\ redis[t] # None
        BY <1>0, <2>2, <2>5, <3>2
      <4>2. given[redis[t].hold] \in Grant
        BY <4>1, KeyGrant
      <4> QED BY <1>0, <2>3, <4>1, <4>2 DEF HoldInv
    <3> QED BY <3>1, <3>2
  <2>6. \A g \in released : given'[g] # None
    BY <1>0, <2>3 DEF HoldInv
  <2>7. \A d \in Releases : release[d].stage = "read" =>
          given'[release[d].hold] = given[release[d].hold]
    BY <1>0, <2>3 DEF HoldInv
  <2> QED BY <2>2, <2>5, <2>6, <2>7 DEF HoldInv
<1>2. ASSUME NEW d \in Releases, NEW h \in Holds, NEW s \in Seats, ReleaseRead(d, h, s)
      PROVE  HoldInv'
  <2>1. CASE redis[s] # None /\ redis[s].hold = h
    <3>1. given[h] = [seat |-> s, until |-> redis[s].until] /\ given[h] \in Grant
      BY <2>1, KeyGrant
    <3> QED BY <1>2, <2>1, <3>1 DEF ReleaseRead, HoldInv, TypeOK
  <2>2. CASE ~(redis[s] # None /\ redis[s].hold = h)
    BY <1>2, <2>2 DEF ReleaseRead, HoldInv, TypeOK
  <2> QED BY <2>1, <2>2
<1>3. ASSUME NEW d \in Releases, ReleaseDelete(d) PROVE HoldInv'
  <2> DEFINE s == release[d].seat
             h == release[d].hold
  <2>1. /\ redis' = [redis EXCEPT ![s] = None] /\ released' = released \cup {h}
        /\ release[d].stage = "read" /\ given' = given
        /\ release' = [release EXCEPT ![d].stage = "done"]
    BY <1>3 DEF ReleaseDelete
  <2>2. s \in Seats /\ h \in Holds /\ given[h] # None /\ given[h].seat = s
    BY <1>0, <2>1 DEF HoldInv
  <2> HIDE DEF s, h
  <2>3. ASSUME NEW t \in Seats, redis'[t] # None PROVE t # s /\ redis'[t] = redis[t]
    BY <1>0, <2>1, <2>2, <2>3
  <2>4. ASSUME NEW t \in Seats, redis'[t] # None PROVE redis[t].hold # h
    <3>1. given[redis[t].hold] = [seat |-> t, until |-> redis[t].until] /\ t # s
      BY <2>3, <2>4 DEF HoldInv
    <3> QED BY <2>2, <3>1
  <2>5. \A e \in Releases : release'[e].stage = "read" => release'[e] = release[e]
    BY <2>1 DEF TypeOK
  <2> QED BY <2>1, <2>2, <2>3, <2>4, <2>5 DEF HoldInv
<1>4. ASSUME Tick PROVE HoldInv'
  BY <1>0, <1>4 DEF Tick, HoldInv
<1>5. ASSUME UNCHANGED <<redis, given, released, release>> PROVE HoldInv'
  BY <1>5 DEF HoldInv
<1> QED
  BY <1>1, <1>2, <1>3, <1>4, <1>5 DEF Next, vars, ListKeys, ListValue, ListTtl, ListAnswer

(* The holds of one seat that are in force. *)
Holding(s) == {h \in Holds : InForce(h) /\ given[h].seat = s}

LEMMA NextHolder ==
    TypeOK /\ HoldInv /\ SeatHasOneHolder /\ [Next]_vars => SeatHasOneHolder'
<1> SUFFICES ASSUME TypeOK, HoldInv, SeatHasOneHolder, [Next]_vars,
                    NEW s \in Seats, s \notin strayed'
             PROVE  Holding(s)' = IF redis'[s] = None THEN {} ELSE {redis'[s].hold}
  BY DEF SeatHasOneHolder, Holding
<1>0. /\ given \in [Holds -> Grant \cup {None}]
      /\ redis \in [Seats -> Key \cup {None}]
      /\ now \in Nat
      /\ \A h \in Holds : given[h] # None => given[h] \in Grant /\ given[h].until \in Nat
  BY DEF TypeOK, Grant
<1>1. s \notin strayed => Holding(s) = IF redis[s] = None THEN {} ELSE {redis[s].hold}
  BY DEF SeatHasOneHolder, Holding
<1>2. ASSUME NEW h \in Holds, NEW r \in Seats, Create(h, r)
      PROVE  Holding(s)' = IF redis'[s] = None THEN {} ELSE {redis'[s].hold}
  <2> DEFINE key == [hold |-> h, until |-> now + TTL]
             grant == [seat |-> r, until |-> now + TTL]
  <2>1. /\ key.hold = h /\ grant.seat = r /\ grant.until > now
        /\ key \in Key /\ grant \in Grant
    BY <1>0 DEF Key, Grant
  <2>2. /\ redis' = [redis EXCEPT ![r] = key] /\ given' = [given EXCEPT ![h] = grant]
        /\ given[h] = None /\ redis[r] = None
        /\ released' = released /\ now' = now /\ strayed' = strayed
    BY <1>2 DEF Create, Hold
  <2> HIDE DEF key, grant
  <2>3. h \notin released
    BY <2>2 DEF HoldInv
  <2>4. given'[h] = grant /\ InForce(h)' /\ ~InForce(h)
    BY <1>0, <2>1, <2>2, <2>3 DEF InForce
  <2>5. \A g \in Holds \ {h} : given'[g] = given[g] /\ (InForce(g)' <=> InForce(g))
    BY <1>0, <2>2 DEF InForce
  <2>6. CASE s = r
    <3>1. Holding(s) = {}
      BY <1>1, <2>2, <2>6
    <3>2. Holding(s)' = {h}
      BY <2>1, <2>4, <2>5, <2>6, <3>1 DEF Holding
    <3>3. redis'[s] = key /\ key # None
      BY <1>0, <2>1, <2>2, <2>6
    <3> QED BY <2>1, <3>2, <3>3
  <2>7. CASE s # r
    <3>1. Holding(s)' = Holding(s)
      BY <2>1, <2>4, <2>5, <2>7 DEF Holding
    <3> QED BY <1>0, <1>1, <2>2, <2>7, <3>1
  <2> QED BY <2>6, <2>7
<1>3. ASSUME NEW d \in Releases, ReleaseDelete(d)
      PROVE  Holding(s)' = IF redis'[s] = None THEN {} ELSE {redis'[s].hold}
  <2> DEFINE r == release[d].seat
             h == release[d].hold
  <2>1. /\ redis' = [redis EXCEPT ![r] = None] /\ released' = released \cup {h}
        /\ release[d].stage = "read" /\ given' = given /\ now' = now
        /\ strayed' = IF redis[r] # None /\ redis[r].hold # h
                      THEN strayed \cup {r} ELSE strayed
    BY <1>3 DEF ReleaseDelete
  <2>2. r \in Seats /\ h \in Holds /\ given[h] # None /\ given[h].seat = r
    BY <2>1 DEF HoldInv, TypeOK
  <2> HIDE DEF r, h
  <2>3. \A g \in Holds : InForce(g)' <=> InForce(g) /\ g # h
    BY <2>1 DEF InForce
  <2>4. Holding(s)' = Holding(s) \ {h} /\ s \notin strayed
    BY <2>1, <2>3 DEF Holding
  <2>5. CASE s = r
    <3>1. redis'[s] = None /\ (redis[s] = None \/ redis[s].hold = h)
      BY <1>0, <2>1, <2>2, <2>5
    <3> QED BY <1>1, <2>4, <3>1
  <2>6. CASE s # r
    <3>1. redis'[s] = redis[s] /\ h \notin Holding(s)
      BY <1>0, <2>1, <2>2, <2>6 DEF Holding
    <3> QED BY <1>1, <2>4, <3>1
  <2> QED BY <2>5, <2>6
<1>4. ASSUME Tick
      PROVE  Holding(s)' = IF redis'[s] = None THEN {} ELSE {redis'[s].hold}
  <2>1. /\ now' = now + 1 /\ given' = given /\ released' = released
        /\ strayed' = strayed
        /\ redis'[s] = IF redis[s] # None /\ redis[s].until <= now + 1
                       THEN None ELSE redis[s]
    BY <1>4 DEF Tick
  <2>2. Holding(s)' = {g \in Holding(s) : now + 1 < given[g].until}
    BY <1>0, <2>1 DEF Holding, InForce
  <2>3. CASE redis[s] = None
    BY <1>1, <2>1, <2>2, <2>3
  <2>4. CASE redis[s] # None
    <3>1. Holding(s) = {redis[s].hold} /\ given[redis[s].hold].until = redis[s].until
      <4>1. given[redis[s].hold] = [seat |-> s, until |-> redis[s].until]
        BY <2>4, KeyGrant
      <4>2. s \notin strayed
        BY <2>1
      <4> QED BY <1>1, <2>4, <4>1, <4>2
    <3>2. redis[s].until \in Nat
      BY <1>0, <2>4 DEF Key
    <3>3. CASE redis[s].until <= now + 1
      BY <1>0, <2>1, <2>2, <2>4, <3>1, <3>2, <3>3
    <3>4. CASE redis[s].until > now + 1
      BY <1>0, <2>1, <2>2, <2>4, <3>1, <3>2, <3>4
    <3> QED BY <1>0, <3>2, <3>3, <3>4
  <2> QED BY <2>3, <2>4
<1>5. ASSUME UNCHANGED <<redis, given, released, strayed, now>>
      PROVE  Holding(s)' = IF redis'[s] = None THEN {} ELSE {redis'[s].hold}
  BY <1>1, <1>5 DEF Holding, InForce
<1> QED
  BY <1>2, <1>3, <1>4, <1>5 DEF Next, vars, ReleaseRead, ListKeys, ListValue, ListTtl,
     ListAnswer

(* However creations, releases and expiries interleave, a seat is held by the
   one hold that its key names, unless a release has deleted another's. *)
THEOREM OneHolder == Spec => []SeatHasOneHolder
<1>1. Init => HoldInv /\ SeatHasOneHolder
  BY DEF Init, HoldInv, SeatHasOneHolder, InForce
<1>2. Spec => []TypeOK
  BY TypeCorrect
<1>3. TypeOK /\ HoldInv /\ SeatHasOneHolder /\ [Next]_vars
        => (HoldInv /\ SeatHasOneHolder)'
  BY NextHold, NextHolder
<1> QED BY <1>1, <1>2, <1>3, PTL DEF Spec

(* Where no release has deleted another's hold, a held seat is refused to
   everyone else: the lost check in release is the only way to two holders. *)
THEOREM RefusedUnlessStrayed == Spec => [](strayed = {} => HeldSeatIsRefused)
<1>1. TypeOK /\ SeatHasOneHolder => (strayed = {} => HeldSeatIsRefused)
  <2> SUFFICES ASSUME TypeOK, SeatHasOneHolder, strayed = {}, NEW g \in Holds,
                      NEW h \in Holds, InForce(g), InForce(h),
                      given[g].seat = given[h].seat
               PROVE  g = h
    BY DEF HeldSeatIsRefused
  <2> DEFINE s == given[g].seat
  <2>1. s \in Seats
    BY DEF InForce, TypeOK, Grant
  <2>2. {g, h} \subseteq Holding(s)
    BY DEF Holding
  <2>3. Holding(s) = IF redis[s] = None THEN {} ELSE {redis[s].hold}
    BY <2>1 DEF SeatHasOneHolder, Holding
  <2> QED BY <2>2, <2>3
<1>2. Spec => []TypeOK
  BY TypeCorrect
<1>3. Spec => []SeatHasOneHolder
  BY OneHolder
<1> QED BY <1>1, <1>2, <1>3, PTL

-----------------------------------------------------------------------------
(* The list. *)

(* The hold whose time is asked for next, and those of the rows, had not ended
   when the request came.  A hold that was in force then and is now is still
   to be read, or at hand, or has its row. *)
ListInv ==
    /\ \A h \in listing.before : given[h] # None /\ ~InForce(h)
    /\ \A h \in listing.held : given[h] # None
    /\ listing.got # None =>
         /\ given[listing.got] # None /\ given[listing.got].seat = listing.at
         /\ listing.got \notin listing.before
    /\ \A r \in listing.rows :
         /\ given[r.hold] # None /\ r.seat = SeatOfKey(given[r.hold].seat)
         /\ r.hold \notin listing.before
    /\ listing.stage = "answered" => listing.left = {} /\ listing.got = None
    /\ \A h \in listing.held :
         InForce(h) /\ given[h].seat \notin strayed =>
            \/ given[h].seat \in listing.left
            \/ listing.got = h
            \/ \E r \in listing.rows : r.hold = h /\ r.until = given[h].until

(* A hold in force has its key, where no release has strayed. *)
LEMMA HasKey ==
    ASSUME TypeOK, HoldInv, SeatHasOneHolder, NEW h \in Holds, InForce(h),
           given[h].seat \notin strayed
    PROVE  LET s == given[h].seat
           IN  /\ s \in Seats /\ redis[s] # None
               /\ redis[s].hold = h /\ redis[s].until = given[h].until
<1> DEFINE s == given[h].seat
<1>1. s \in Seats /\ given[h] \in Grant
  BY DEF InForce, TypeOK, Grant
<1>2. {g \in Holds : InForce(g) /\ given[g].seat = s}
        = IF redis[s] = None THEN {} ELSE {redis[s].hold}
  BY <1>1 DEF SeatHasOneHolder
<1>3. h \in {g \in Holds : InForce(g) /\ given[g].seat = s}
  OBVIOUS
<1>4. redis[s] # None /\ redis[s].hold = h
  BY <1>2, <1>3
<1>5. given[h] = [seat |-> s, until |-> redis[s].until]
  BY <1>1, <1>4 DEF HoldInv
<1>6. given[h].until = redis[s].until
  BY <1>5
<1> QED BY <1>1, <1>4, <1>6

(* A key's hold is in force. *)
LEMMA KeyInForce ==
    ASSUME TypeOK, HoldInv, NEW s \in Seats, redis[s] # None
    PROVE  /\ redis[s].hold \in Holds /\ InForce(redis[s].hold)
           /\ given[redis[s].hold].seat = s
<1>1. /\ redis[s].hold \in Holds /\ redis[s].hold \notin released
      /\ given[redis[s].hold] = [seat |-> s, until |-> redis[s].until]
      /\ given[redis[s].hold] \in Grant
  BY KeyGrant
<1>2. given[redis[s].hold].seat = s /\ given[redis[s].hold].until = redis[s].until
  BY <1>1
<1>3. given[redis[s].hold] # None
  BY <1>1, NoneAssumption
<1>4. redis[s].until > now /\ redis[s].until \in Nat /\ now \in Nat
  BY DEF TypeOK, Key
<1> QED BY <1>1, <1>2, <1>3, <1>4 DEF InForce

(* What was given stays, and what has ended does not begin again. *)
LEMMA Steady ==
    ASSUME TypeOK, HoldInv, [Next]_vars, NEW h \in Holds, given[h] # None
    PROVE  /\ given'[h] = given[h] /\ (InForce(h)' => InForce(h))
           /\ strayed \subseteq strayed'
<1>0. /\ given \in [Holds -> Grant \cup {None}] /\ now \in Nat
      /\ given[h].until \in Nat
  BY DEF TypeOK, Grant
<1>1. CASE \E g \in Holds, s \in Seats : Create(g, s)
  BY <1>0, <1>1 DEF Create, Hold, InForce
<1>2. CASE \E d \in Releases : ReleaseDelete(d)
  BY <1>2 DEF ReleaseDelete, InForce
<1>3. CASE Tick
  BY <1>0, <1>3 DEF Tick, InForce
<1>4. CASE UNCHANGED <<given, released, strayed, now>>
  BY <1>4 DEF InForce
<1> QED
  BY <1>1, <1>2, <1>3, <1>4 DEF Next, vars, ReleaseRead, ListKeys, ListValue, ListTtl,
     ListAnswer

LEMMA NextList ==
    TypeOK /\ HoldInv /\ SeatHasOneHolder /\ ListInv /\ [Next]_vars => ListInv'
<1> SUFFICES ASSUME TypeOK, HoldInv, SeatHasOneHolder, ListInv, [Next]_vars
             PROVE  ListInv'
  OBVIOUS
<1> DEFINE Goal == ListInv'
<1> SUFFICES Goal
  OBVIOUS
<1>0. /\ listing \in Listing
      /\ listing.before \subseteq Holds /\ listing.held \subseteq Holds
      /\ listing.left \subseteq Seats /\ listing.rows \subseteq Row
      /\ listing.got \in Holds \cup {None}
      /\ (listing.got # None => listing.at \in Seats)
  BY DEF TypeOK, Listing
<1>00. \A r \in listing.rows : r.hold \in Holds
  BY <1>0 DEF Row
<1>1. CASE ListKeys
  <2>1. /\ listing'.stage = "reading"
        /\ listing'.left = {s \in Seats : redis[s] # None}
        /\ listing'.got = None /\ listing'.rows = {}
        /\ listing'.before = {h \in Holds : given[h] # None /\ ~InForce(h)}
        /\ listing'.held = {h \in Holds : InForce(h)}
        /\ UNCHANGED <<given, released, strayed, now>>
    BY <1>1 DEF ListKeys, Idle
  <2>2. \A h : InForce(h)' <=> InForce(h)
    BY <2>1 DEF InForce
  <2>3. \A h \in Holds : InForce(h) /\ given[h].seat \notin strayed =>
                         given[h].seat \in listing'.left
    BY <2>1, HasKey
  <2> QED BY <2>1, <2>2, <2>3 DEF ListInv, InForce
<1>2. ASSUME NEW s \in Seats, ListValue(s) PROVE Goal
  <2>1. /\ listing'.left = listing.left \ {s}
        /\ listing'.got = IF redis[s] = None THEN None ELSE redis[s].hold
        /\ listing'.at = IF redis[s] = None THEN None ELSE s
        /\ listing'.stage = listing.stage /\ listing'.rows = listing.rows
        /\ listing'.before = listing.before /\ listing'.held = listing.held
        /\ listing.stage = "reading" /\ listing.got = None
        /\ UNCHANGED <<given, released, strayed, now>>
    BY <1>0, <1>2 DEF ListValue, Listing
  <2>2. \A h : InForce(h)' <=> InForce(h)
    BY <2>1 DEF InForce
  <2>3. redis[s] # None =>
          /\ InForce(redis[s].hold) /\ given[redis[s].hold].seat = s
          /\ redis[s].hold \in Holds
    BY KeyInForce
  <2>4. listing'.got # None =>
          /\ given[listing'.got] # None /\ given[listing'.got].seat = listing'.at
          /\ listing'.got \notin listing.before
    BY <2>1, <2>3 DEF ListInv, InForce
  <2>5. ASSUME NEW h \in listing.held, InForce(h), given[h].seat \notin strayed
        PROVE  \/ given[h].seat \in listing'.left
               \/ listing'.got = h
               \/ \E r \in listing.rows : r.hold = h /\ r.until = given[h].until
    <3>1. redis[given[h].seat] # None /\ redis[given[h].seat].hold = h
      BY <1>0, <2>5, HasKey
    <3>2. CASE given[h].seat = s
      BY <2>1, <3>1, <3>2
    <3>3. CASE given[h].seat # s
      <4>1. h # None
        BY <1>0, NoneAssumption
      <4> QED BY <2>1, <2>5, <3>3, <4>1 DEF ListInv
    <3> QED BY <3>2, <3>3
  <2> QED BY <2>1, <2>2, <2>4, <2>5 DEF ListInv
<1>3. CASE ListTtl
  <2> DEFINE row == [seat |-> SeatOfKey(listing.at), hold |-> listing.got,
                     until |-> IF redis[listing.at] = None THEN now
                               ELSE redis[listing.at].until]
  <2>1. /\ row.seat = SeatOfKey(listing.at) /\ row.hold = listing.got
        /\ redis[listing.at] # None => row.until = redis[listing.at].until
    OBVIOUS
  <2>2. /\ listing.got # None
        /\ listing' = [listing EXCEPT !.got = None, !.at = None, !.rows = @ \cup {row}]
        /\ UNCHANGED <<given, released, strayed, now>>
    BY <1>3 DEF ListTtl
  <2> HIDE DEF row
  <2>3. /\ listing'.left = listing.left /\ listing'.got = None
        /\ listing'.stage = listing.stage /\ listing'.rows = listing.rows \cup {row}
        /\ listing'.before = listing.before /\ listing'.held = listing.held
    BY <1>0, <2>2 DEF Listing
  <2>4. \A h : InForce(h)' <=> InForce(h)
    BY <2>2 DEF InForce
  <2>5. /\ given[row.hold] # None /\ row.seat = SeatOfKey(given[row.hold].seat)
        /\ row.hold \notin listing.before
    BY <2>1, <2>2 DEF ListInv
  <2>6. ASSUME NEW h \in listing.held, InForce(h), given[h].seat \notin strayed
        PROVE  \/ given[h].seat \in listing.left
               \/ \E r \in listing'.rows : r.hold = h /\ r.until = given[h].until
    <3>1. CASE listing.got = h
      <4>1. /\ redis[given[h].seat] # None
            /\ redis[given[h].seat].until = given[h].until
        BY <1>0, <2>6, HasKey
      <4>2. listing.at = given[h].seat
        BY <2>2, <3>1 DEF ListInv
      <4>3. row \in listing'.rows /\ row.hold = h /\ row.until = given[h].until
        BY <2>1, <2>3, <3>1, <4>1, <4>2
      <4> QED BY <4>3
    <3>2. CASE listing.got # h
      BY <2>3, <2>6, <3>2 DEF ListInv
    <3> QED BY <3>1, <3>2
  <2> QED BY <2>2, <2>3, <2>4, <2>5, <2>6 DEF ListInv
<1>4. CASE ListAnswer
  <2>1. /\ listing'.left = {} /\ listing'.got = None
        /\ listing.left = {} /\ listing.got = None /\ listing'.rows = listing.rows
        /\ listing'.before = listing.before /\ listing'.held = listing.held
        /\ UNCHANGED <<given, released, strayed, now>>
    BY <1>0, <1>4 DEF ListAnswer, Listing
  <2>2. \A h : InForce(h)' <=> InForce(h)
    BY <2>1 DEF InForce
  <2> QED BY <2>1, <2>2 DEF ListInv
<1>5. CASE listing' = listing
  <2>1. \A h \in Holds : given[h] # None =>
          /\ given'[h] = given[h] /\ (InForce(h)' => InForce(h))
          /\ strayed \subseteq strayed'
    BY Steady
  <2>2. \A h \in listing.before :
          /\ h \in Holds /\ given[h] # None /\ ~InForce(h)
    BY <1>0 DEF ListInv
  <2>3. \A h \in listing.before : given'[h] # None /\ ~InForce(h)'
    BY <2>1, <2>2
  <2>4. listing.got # None =>
          /\ given'[listing.got] # None /\ given'[listing.got].seat = listing.at
          /\ listing.got \notin listing.before
    BY <1>0, <2>1 DEF ListInv
  <2>5. \A r \in listing.rows :
          /\ given'[r.hold] # None /\ r.seat = SeatOfKey(given'[r.hold].seat)
          /\ r.hold \notin listing.before
    BY <1>00, <2>1 DEF ListInv
  <2>6. ASSUME NEW h \in listing.held
        PROVE  /\ given'[h] # None
               /\ InForce(h)' /\ given'[h].seat \notin strayed' =>
                     \/ given'[h].seat \in listing.left
                     \/ listing.got = h
                     \/ \E r \in listing.rows : r.hold = h /\ r.until = given'[h].until
    <3>1. h \in Holds /\ given[h] # None
      BY <1>0 DEF ListInv
    <3>2. /\ given'[h] = given[h] /\ (InForce(h)' => InForce(h))
          /\ strayed \subseteq strayed'
      BY <2>1, <3>1
    <3> QED BY <3>1, <3>2 DEF ListInv
  <2>7. listing.stage = "answered" => listing.left = {} /\ listing.got = None
    BY DEF ListInv
  <2> QED BY <1>5, <2>3, <2>4, <2>5, <2>6, <2>7 DEF ListInv
<1> HIDE DEF Goal
<1> QED
  BY <1>1, <1>2, <1>3, <1>4, <1>5 DEF Next, vars, Create, Hold, ReleaseRead,
     ReleaseDelete, Tick

LEMMA ListHolds == Spec => []ListInv
<1>1. Init => ListInv
  BY DEF Init, Idle, ListInv
<1>2. Spec => []TypeOK
  BY TypeCorrect
<1>3. Init => HoldInv /\ SeatHasOneHolder
  BY DEF Init, HoldInv, SeatHasOneHolder, InForce
<1>4. TypeOK /\ HoldInv /\ SeatHasOneHolder /\ ListInv /\ [Next]_vars
        => (HoldInv /\ SeatHasOneHolder /\ ListInv)'
  BY NextHold, NextHolder, NextList
<1> QED BY <1>1, <1>2, <1>3, <1>4, PTL DEF Spec

(* Though its commands run among all others, the list names no hold that had
   ended before, and each hold that is in force throughout with its own time,
   but on a seat where a release has deleted another's hold.  Each row has the
   seat of its hold, cut behind its last colon. *)
THEOREM ListIsRight == Spec => []ListAgrees
<1>1. TypeOK /\ ListInv => ListAgrees
  <2> SUFFICES ASSUME TypeOK, ListInv, listing.stage = "answered"
               PROVE  ListAgrees
    BY DEF ListAgrees
  <2>1. listing.left = {} /\ listing.got = None /\ None \notin listing.held
    BY NoneAssumption DEF ListInv, TypeOK, Listing
  <2> QED BY <2>1 DEF ListInv, ListAgrees
<1> QED BY <1>1, TypeCorrect, ListHolds, PTL

SeatIsAsGiven ==
    listing.stage = "answered" =>
        \A r \in listing.rows : r.seat = given[r.hold].seat

(* Where no seatId has a colon, a row names the seat that its member was    *)
(* given, although list cuts the key at its last colon.                     *)
THEOREM PlainSeatsAreAsGiven ==
    ASSUME \A s \in Seats : Len(s) = 1
    PROVE  Spec => []SeatIsAsGiven
<1>1. TypeOK /\ ListInv => SeatIsAsGiven
  <2> SUFFICES ASSUME TypeOK, ListInv, NEW r \in listing.rows
               PROVE  r.seat = given[r.hold].seat
    BY DEF SeatIsAsGiven
  <2>1. r.hold \in Holds
    BY DEF TypeOK, Listing, Row
  <2>2. given[r.hold].seat \in Seats
    BY <2>1 DEF ListInv, TypeOK, Grant
  <2> QED BY <2>2, SeatOfKeyType DEF ListInv
<1> QED BY <1>1, TypeCorrect, ListHolds, PTL

=============================================================================
