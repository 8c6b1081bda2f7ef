----------------------- MODULE BoxStateMachine_proofs -----------------------
(***************************************************************************)
(* Proofs about BoxStateMachine, for any doors, credentials and timeouts:  *)
(* type correctness, that the delay after a bad code is served, and what   *)
(* becomes of the door that is opened.                                     *)
(***************************************************************************)
EXTENDS BoxStateMachine, TLAPS

\* b still holds p ticks of delay back: as long as some are left the delay is
\* known to be active and lasts that long.  Where a code can be given no delay
\* is active, so that nothing is left, and a bad code starts a new one.
Serving(b, p) ==
  /\ p > 0 => b.badActive /\ p + b.badAge <= b.badFor
  /\ b.state \in {"Password", "Scan"} => ~b.badActive

PenaltyInv == TypeOK /\ Serving(box, penalty)

-----------------------------------------------------------------------------
(* Entering a state.                                                       *)

\* What leaving a state does before the next one is entered.
Left(b, s) ==
  [b EXCEPT !.state = s, !.age = 0,
            !.ambient = IF b.state = "Closed" THEN FALSE ELSE @]

\* transitionTo() calls the handler of the new state.
LEMMA Transition ==
  ASSUME NEW b
  PROVE  /\ \A s : b.state = s => transitionTo(b, s) = b
         /\ b.state # "Home" => transitionTo(b, "Home") = onEnterHome(Left(b, "Home"))
         /\ b.state # "Password" =>
              transitionTo(b, "Password") = onEnterPassword(Left(b, "Password"))
         /\ b.state # "Scan" => transitionTo(b, "Scan") = onEnterScan(Left(b, "Scan"))
         /\ b.state # "Presence" =>
              transitionTo(b, "Presence") = onEnterPresence(Left(b, "Presence"))
         /\ b.state # "Opening" =>
              transitionTo(b, "Opening") = onEnterOpening(Left(b, "Opening"))
         /\ b.state # "Open" => transitionTo(b, "Open") = onEnterOpen(Left(b, "Open"))
         /\ b.state # "Closed" =>
              transitionTo(b, "Closed") = onEnterClosed(Left(b, "Closed"))
         /\ b.state # "BadPass" =>
              transitionTo(b, "BadPass") = onEnterBadPass(Left(b, "BadPass"))
  BY Zenon DEF transitionTo, Left

\* A state is left with everything that has to do with the delay as it was.
LEMMA LeftType ==
  ASSUME NEW b \in Box, NEW s \in States
  PROVE  /\ Left(b, s) \in Box
         /\ Left(b, s).state = s
         /\ Left(b, s).badActive = b.badActive
         /\ Left(b, s).badFor = b.badFor /\ Left(b, s).badAge = b.badAge
         /\ Left(b, s).badCount = b.badCount
  BY DEF Left, Box

LEMMA BadCodeDelayType ==
  ASSUME NEW n \in 0 .. COUNT_MAX
  PROVE  BadCodeDelay(n) \in Nat
<1>1. /\ PASS_ERR_DELAY \in Nat /\ PASS_ERR_MAXMULTIPLY \in Nat /\ COUNT_MAX \in Nat
  BY BoxAssumption
<1> DEFINE m == IF n > PASS_ERR_MAXMULTIPLY THEN PASS_ERR_MAXMULTIPLY ELSE n
<1>2. m \in Nat
  BY <1>1
<1> HIDE DEF m
<1>3. PASS_ERR_DELAY * m \in Nat
  BY <1>1, <1>2
<1> QED
  BY <1>3 DEF BadCodeDelay, m

\* r is b but for things that have nothing to do with the delay.
SameDelay(b, r) ==
  /\ r \in Box
  /\ r.badActive = b.badActive /\ r.badFor = b.badFor /\ r.badAge = b.badAge

LEMMA SameDelayServing ==
  ASSUME NEW b \in Box, NEW r, NEW p \in Nat, SameDelay(b, r), Serving(b, p),
         r.state \in {"Password", "Scan"} => r.state = b.state
  PROVE  Serving(r, p)
  BY DEF SameDelay, Serving

LEMMA OpenDoorType ==
  ASSUME NEW b \in Box, NEW d \in Doors
  PROVE  SameDelay(b, openDoor(b, d)) /\ openDoor(b, d).state = b.state
<1> DEFINE on == [b EXCEPT !.lock = @ \union {d}]
           t == [door |-> d, age |-> 0]
<1>1. on \in Box /\ SameDelay(b, on) /\ on.state = b.state
  BY DEF Box, SameDelay
<1>2. t \in Timers
  BY BoxAssumption DEF Timers
<1> HIDE DEF on, t
<1>3. ASSUME NEW i
      PROVE  SameDelay(b, [on EXCEPT !.timers[i] = t])
             /\ [on EXCEPT !.timers[i] = t].state = b.state
  <2>1. [on.timers EXCEPT ![i] = t] \in [Slots -> Timers \union {Free}]
    BY <1>1, <1>2 DEF Box
  <2> QED
    BY <1>1, <2>1 DEF Box, SameDelay
<1> QED
  BY <1>1, <1>3 DEF openDoor, scheduleOnce, on, t

LEMMA UsedCredType ==
  ASSUME NEW b \in Box
  PROVE  SameDelay(b, usedCred(b)) /\ usedCred(b).state = b.state
<1> DEFINE c == b.verifiedCredId
           left == [b.uses EXCEPT ![c] = @ - 1]
           u == IF c # NoCred /\ CredDoor[c] = b.doorToOpen /\ b.uses[c] > 0
                  THEN left ELSE b.uses
<1>1. u \in [Creds -> Int]
  BY BoxAssumption DEF Box
<1>2. usedCred(b) = [b EXCEPT !.verifiedCredId = NoCred, !.uses = u]
  BY DEF usedCred
<1> HIDE DEF u, c, left
<1>3. ASSUME NEW v \in [Creds -> Int], NEW r,
             r = [b EXCEPT !.verifiedCredId = NoCred, !.uses = v]
      PROVE  SameDelay(b, r) /\ r.state = b.state
  BY <1>3, Zenon DEF Box, SameDelay
<1> QED
  BY <1>1, <1>2, <1>3

\* The assignments of the other handlers.
LEMMA HomeType ==
  ASSUME NEW b \in Box
  PROVE  SameDelay(b, onEnterHome(b)) /\ onEnterHome(b).state = b.state
  BY Zenon DEF Box, SameDelay, onEnterHome

LEMMA PresenceType ==
  ASSUME NEW b \in Box
  PROVE  SameDelay(b, onEnterPresence(b)) /\ onEnterPresence(b).state = b.state
<1>1. 0 \in Nat
  OBVIOUS
<1> QED
  BY <1>1, Zenon DEF Box, SameDelay, onEnterPresence

LEMMA OpeningType ==
  ASSUME NEW b \in Box, NEW n \in Nat,
         NEW r \in {[b EXCEPT !.external = FALSE, !.openFor = n, !.ambient = TRUE],
                    [b EXCEPT !.external = FALSE, !.openFor = n]}
  PROVE  SameDelay(b, r) /\ r.state = b.state
<1>1. CASE r = [b EXCEPT !.external = FALSE, !.openFor = n, !.ambient = TRUE]
  BY <1>1, Zenon DEF Box, SameDelay
<1>2. CASE r = [b EXCEPT !.external = FALSE, !.openFor = n]
  BY <1>2, Zenon DEF Box, SameDelay
<1> QED
  BY <1>1, <1>2

LEMMA OpenType ==
  ASSUME NEW b \in Box,
         NEW r, r = [b EXCEPT !.credVerified = FALSE, !.scannedCredVerified = FALSE]
  PROVE  SameDelay(b, r) /\ r.state = b.state
  BY Zenon DEF Box, SameDelay

\* The states whose entry leaves the delay alone.
LEMMA EnterOther ==
  ASSUME NEW b \in Box, NEW s \in {"Home", "Presence", "Opening", "Open", "Closed"}
  PROVE  /\ SameDelay(b, transitionTo(b, s))
         /\ transitionTo(b, s).state = s
<1> DEFINE l == Left(b, s)
<1>0. b.state = s => SameDelay(b, transitionTo(b, s)) /\ transitionTo(b, s).state = s
  BY Transition DEF SameDelay
<1>1. SameDelay(b, l) /\ l \in Box /\ l.state = s
  BY LeftType DEF SameDelay, States
<1> HIDE DEF l
<1>2. ASSUME NEW r, SameDelay(l, r), r.state = s
      PROVE  SameDelay(b, r)
  BY <1>1, <1>2 DEF SameDelay
<1> SUFFICES ASSUME b.state # s
             PROVE  /\ SameDelay(l, transitionTo(b, s))
                    /\ transitionTo(b, s).state = s
  BY <1>0, <1>2
<1>3. CASE s = "Home"
  <2>1. transitionTo(b, s) = onEnterHome(l)
    BY <1>3, Transition DEF l
  <2> QED
    BY <1>1, <2>1, HomeType
<1>4. CASE s = "Presence"
  <2>1. transitionTo(b, s) = onEnterPresence(l)
    BY <1>4, Transition DEF l
  <2> QED
    BY <1>1, <2>1, PresenceType
<1>5. CASE s = "Closed"
  <2>1. transitionTo(b, s) = onEnterClosed(l)
    BY <1>5, Transition DEF l
  <2> QED
    BY <1>1, <2>1 DEF onEnterClosed, Box, SameDelay
<1>6. CASE s = "Opening"
  <2>1. transitionTo(b, s) = onEnterOpening(l)
    BY <1>6, Transition DEF l
  <2>2. CASE l.doorToOpen \in Doors
    <3> DEFINE o == openDoor(l, l.doorToOpen)
    <3>1. SameDelay(l, o) /\ o.state = s
      BY <1>1, <2>2, OpenDoorType
    <3>2. onEnterOpening(l) = [o EXCEPT !.external = FALSE,
                                 !.openFor = DOOR_OPENING_TIMEOUT, !.ambient = TRUE]
      BY <2>2 DEF onEnterOpening
    <3>3. DOOR_OPENING_TIMEOUT \in Nat
      BY BoxAssumption
    <3> HIDE DEF o
    <3>4. SameDelay(o, onEnterOpening(l)) /\ onEnterOpening(l).state = s
      <4>1. o \in Box
        BY <3>1 DEF SameDelay
      <4> QED
        BY <4>1, <3>1, <3>2, <3>3, OpeningType, ZenonT(60)
    <3> QED
      BY <2>1, <3>1, <3>4 DEF SameDelay
  <2>3. CASE l.doorToOpen \notin Doors
    <3>1. onEnterOpening(l) = [l EXCEPT !.external = FALSE, !.openFor = 0]
      BY <2>3 DEF onEnterOpening
    <3>2. PICK z \in Nat : z = 0
      OBVIOUS
    <3>3. onEnterOpening(l) = [l EXCEPT !.external = FALSE, !.openFor = z]
      BY <3>1, <3>2
    <3>4. SameDelay(l, onEnterOpening(l)) /\ onEnterOpening(l).state = l.state
      BY <1>1, <3>3, OpeningType, ZenonT(60)
    <3> QED
      BY <1>1, <2>1, <3>4
  <2> QED
    BY <2>2, <2>3
<1>7. CASE s = "Open"
  <2>1. transitionTo(b, s) = onEnterOpen(l)
    BY <1>7, Transition DEF l
  <2>2. PICK u : /\ SameDelay(l, u) /\ u.state = s
                 /\ onEnterOpen(l) = [u EXCEPT !.credVerified = FALSE,
                                               !.scannedCredVerified = FALSE]
    BY <1>1, UsedCredType DEF onEnterOpen, SameDelay
  <2>3. u \in Box
    BY <2>2 DEF SameDelay
  <2>4. SameDelay(u, onEnterOpen(l)) /\ onEnterOpen(l).state = s
    BY <2>2, <2>3, OpenType, Zenon
  <2> QED
    BY <2>1, <2>2, <2>4 DEF SameDelay
<1> QED
  BY <1>3, <1>4, <1>5, <1>6, <1>7

\* The states where a code is given: any delay is over and forgotten.
LEMMA EnterCode ==
  ASSUME NEW b \in Box, NEW s \in {"Password", "Scan"}, NEW p \in Nat,
         Serving(b, p), ~Penalized(b)
  PROVE  /\ transitionTo(b, s) \in Box
         /\ transitionTo(b, s).state = s
         /\ Serving(transitionTo(b, s), p)
<1> DEFINE l == Left(b, s)
<1>1. l \in Box /\ l.state = s
  BY LeftType DEF States
<1>2. p = 0 /\ 0 \in Nat
  BY DEF Serving, Penalized, Box
<1> HIDE DEF l
<1>3. CASE b.state = s
  BY <1>3, Transition
<1>4. CASE b.state # s /\ s = "Password"
  <2>1. transitionTo(b, s) = onEnterPassword(l)
    BY <1>4, Transition DEF l
  <2>2. onEnterPassword(l) \in Box
    BY <1>1, <1>2, Zenon DEF onEnterPassword, Box
  <2>3. onEnterPassword(l).state = s /\ ~onEnterPassword(l).badActive
    BY <1>1, Zenon DEF onEnterPassword, Box
  <2> QED
    BY <1>2, <2>1, <2>2, <2>3 DEF Serving
<1>5. CASE b.state # s /\ s = "Scan"
  <2>1. transitionTo(b, s) = onEnterScan(l)
    BY <1>5, Transition DEF l
  <2>2. onEnterScan(l) \in Box
    BY <1>1, <1>2, Zenon DEF onEnterScan, Box
  <2>3. onEnterScan(l).state = s /\ ~onEnterScan(l).badActive
    BY <1>1, Zenon DEF onEnterScan, Box
  <2> QED
    BY <1>2, <2>1, <2>2, <2>3 DEF Serving
<1> QED
  BY <1>3, <1>4, <1>5

\* BadPass from a state where a code is given starts the whole delay; from
\* Home, while a delay is running, it shows what is left of it.
LEMMA EnterBadPass ==
  ASSUME NEW b \in Box, b.state # "BadPass"
  PROVE  /\ transitionTo(b, "BadPass") \in Box
         /\ transitionTo(b, "BadPass").state = "BadPass"
         /\ transitionTo(b, "BadPass").badCount = b.badCount
         /\ ~b.badActive =>
              Serving(transitionTo(b, "BadPass"), BadCodeDelay(b.badCount))
         /\ Penalized(b) => SameDelay(b, transitionTo(b, "BadPass"))
<1> DEFINE l == Left(b, "BadPass")
           d == BadCodeDelay(b.badCount)
<1>1. /\ l \in Box /\ l.state = "BadPass" /\ l.badActive = b.badActive
      /\ l.badFor = b.badFor /\ l.badAge = b.badAge /\ l.badCount = b.badCount
  BY LeftType DEF States
<1>2. transitionTo(b, "BadPass") = onEnterBadPass(l)
  BY Transition
<1>3. d \in Nat
  BY BadCodeDelayType DEF Box
<1>4. onEnterBadPass(l) =
        IF ~b.badActive \/ b.badAge >= b.badFor
          THEN [l EXCEPT !.badFor = d, !.badAge = 0, !.badActive = TRUE] ELSE l
  BY <1>1 DEF onEnterBadPass
<1> HIDE DEF l, d
<1> DEFINE n == [l EXCEPT !.badFor = d, !.badAge = 0, !.badActive = TRUE]
<1>5. /\ n \in Box /\ n.state = "BadPass" /\ n.badCount = b.badCount
      /\ n.badActive /\ n.badFor = d /\ n.badAge = 0
  <2>1. 0 \in Nat
    OBVIOUS
  <2>2. l \in Box
    BY <1>1
  <2>3. n \in Box
    BY <1>3, <2>1, <2>2, Zenon DEF Box
  <2>4. /\ n.state = l.state /\ n.badCount = l.badCount
        /\ n.badActive /\ n.badFor = d /\ n.badAge = 0
    BY <2>2 DEF Box
  <2> QED
    BY <1>1, <2>3, <2>4
<1> HIDE DEF n
<1>6. onEnterBadPass(l) = IF ~b.badActive \/ b.badAge >= b.badFor THEN n ELSE l
  BY <1>4 DEF n
<1>7. ~b.badActive => Serving(onEnterBadPass(l), d)
  BY <1>3, <1>5, <1>6 DEF Serving
<1>8. Penalized(b) => SameDelay(b, onEnterBadPass(l))
  <2>1. Penalized(b) => ~(~b.badActive \/ b.badAge >= b.badFor)
    BY DEF Box, Penalized
  <2> QED
    BY <1>1, <1>6, <2>1, Zenon DEF SameDelay
<1> QED
  BY <1>1, <1>2, <1>5, <1>6, <1>7, <1>8 DEF d

-----------------------------------------------------------------------------
(* Handling an event.                                                      *)

CodeState(b) == b.state \in {"Password", "Scan"}

\* What Observe() makes of the penalty p when a handler makes r of b.
PenaltyAfter(b, p, r) ==
  IF CodeState(b) /\ r.state = "BadPass" THEN BadCodeDelay(r.badCount) ELSE p

\* A handler makes r of b, and the delay is still served.
Handled(b, p, r) == r \in Box /\ Serving(r, PenaltyAfter(b, p, r))

\* Nothing but the state changes for the delay.
LEMMA SameDelayHandled ==
  ASSUME NEW b \in Box, NEW r, NEW p \in Nat, SameDelay(b, r), Serving(b, p),
         r.state \in {"Password", "Scan"} => r.state = b.state,
         r.state = "BadPass" => b.state \notin {"Password", "Scan"}
  PROVE  Handled(b, p, r)
<1>1. r \in Box
  BY DEF SameDelay
<1>2. PenaltyAfter(b, p, r) = p
  BY DEF PenaltyAfter, CodeState
<1>3. Serving(r, p)
  BY SameDelayServing DEF CodeState
<1> QED
  BY <1>1, <1>2, <1>3 DEF Handled

\* An assignment that leaves the delay alone, and then one of those states.
LEMMA OtherHandled ==
  ASSUME NEW b \in Box, NEW c, NEW p \in Nat, SameDelay(b, c), Serving(b, p),
         NEW s \in {"Home", "Presence", "Opening", "Open", "Closed"}
  PROVE  Handled(b, p, transitionTo(c, s)) /\ transitionTo(c, s).state = s
<1> DEFINE r == transitionTo(c, s)
<1>1. SameDelay(c, r) /\ r.state = s
  BY EnterOther DEF SameDelay
<1> HIDE DEF r
<1>2. SameDelay(b, r)
  BY <1>1 DEF SameDelay
<1>3. Handled(b, p, r)
  <2>1. r.state \in {"Home", "Presence", "Opening", "Open", "Closed"}
    BY <1>1
  <2> QED
    BY <1>2, <2>1, SameDelayHandled DEF CodeState
<1> QED
  BY <1>1, <1>3 DEF r

LEMMA ScanHandled ==
  ASSUME NEW b \in Box, NEW p \in Nat, NEW started \in BOOLEAN, Serving(b, p),
         ~Penalized(b)
  PROVE  Handled(b, p, ToScan(b, started))
<1> DEFINE r == transitionTo(b, "Scan")
           h == transitionTo(r, "Home")
<1>1. r \in Box /\ r.state = "Scan" /\ Serving(r, p)
  BY EnterCode
<1>2. ToScan(b, started) = IF started THEN r ELSE h
  BY DEF ToScan
<1> HIDE DEF r
<1>3. SameDelay(r, h) /\ h.state = "Home"
  BY <1>1, EnterOther
<1> HIDE DEF h
<1>4. h \in Box /\ Serving(h, p)
  BY <1>1, <1>3, SameDelayServing DEF SameDelay
<1>5. PenaltyAfter(b, p, r) = p /\ PenaltyAfter(b, p, h) = p
  BY <1>1, <1>3 DEF PenaltyAfter
<1>6. Handled(b, p, r) /\ Handled(b, p, h)
  BY <1>1, <1>4, <1>5 DEF Handled
<1> QED
  BY <1>2, <1>6

LEMMA PasswordHandled ==
  ASSUME NEW b \in Box, NEW p \in Nat, Serving(b, p), ~Penalized(b)
  PROVE  Handled(b, p, transitionTo(b, "Password"))
<1> DEFINE r == transitionTo(b, "Password")
<1>1. r \in Box /\ r.state = "Password" /\ Serving(r, p)
  BY EnterCode
<1> HIDE DEF r
<1>2. PenaltyAfter(b, p, r) = p
  BY <1>1 DEF PenaltyAfter
<1>3. Handled(b, p, r)
  BY <1>1, <1>2 DEF Handled
<1> QED
  BY <1>3 DEF r

\* A running delay is shown, not started again.
LEMMA RunningDelayHandled ==
  ASSUME NEW b \in Box, NEW p \in Nat, NEW retry \in BOOLEAN, Serving(b, p),
         b.state = "Home", Penalized(b)
  PROVE  Handled(b, p, transitionTo([b EXCEPT !.retryScan = retry], "BadPass"))
<1> DEFINE c == [b EXCEPT !.retryScan = retry]
           r == transitionTo(c, "BadPass")
<1>1. SameDelay(b, c) /\ c.state = "Home" /\ c \in Box
  BY DEF Box, SameDelay
<1> HIDE DEF c
<1>2. Penalized(c)
  BY <1>1 DEF Penalized, SameDelay
<1>3. SameDelay(c, r) /\ r.state = "BadPass"
  BY <1>1, <1>2, EnterBadPass
<1> HIDE DEF r
<1>4. SameDelay(b, r)
  BY <1>1, <1>3 DEF SameDelay
<1>5. Handled(b, p, r)
  BY <1>3, <1>4, SameDelayHandled DEF CodeState
<1> QED
  BY <1>5 DEF r, c

LEMMA HomeKeyHandled ==
  ASSUME NEW b \in Box, NEW p \in Nat, NEW key \in {"key1", "key2", "key3"},
         NEW started \in BOOLEAN, Serving(b, p), b.state = "Home"
  PROVE  Handled(b, p, HomeKey(b, key, started))
<1>1. CASE key = "key1" /\ Penalized(b)
  <2>1. HomeKey(b, key, started) = transitionTo([b EXCEPT !.retryScan = FALSE], "BadPass")
    BY <1>1, Zenon DEF HomeKey
  <2> QED
    BY <1>1, <2>1, RunningDelayHandled
<1>2. CASE key = "key3" /\ Penalized(b)
  <2>1. HomeKey(b, key, started) = transitionTo([b EXCEPT !.retryScan = TRUE], "BadPass")
    BY <1>2, Zenon DEF HomeKey
  <2> QED
    BY <1>2, <2>1, RunningDelayHandled
<1>3. CASE key = "key1" /\ ~Penalized(b)
  <2>1. HomeKey(b, key, started) = transitionTo(b, "Password")
    BY <1>3, Zenon DEF HomeKey
  <2> QED
    BY <1>3, <2>1, PasswordHandled
<1>4. CASE key = "key3" /\ ~Penalized(b)
  <2>1. HomeKey(b, key, started) = ToScan(b, started)
    BY <1>4, Zenon DEF HomeKey
  <2> QED
    BY <1>4, <2>1, ScanHandled
<1>5. CASE key = "key2"
  <2>1. HomeKey(b, key, started) = transitionTo(b, "Presence")
    BY <1>5, Zenon DEF HomeKey
  <2>2. SameDelay(b, b)
    BY DEF SameDelay
  <2> QED
    BY <2>1, <2>2, OtherHandled
<1> QED
  BY <1>1, <1>2, <1>3, <1>4, <1>5

LEMMA VerifyType ==
  ASSUME NEW b \in Box, NEW c \in Creds \union {NoCred}
  PROVE  SameDelay(b, verifyCred(b, c)) /\ verifyCred(b, c).state = b.state
<1>1. ASSUME NEW x \in Creds \union {NoCred}, NEW d \in Requestable \union {NoDoor},
             NEW r, r = [b EXCEPT !.verifiedCredId = x, !.doorToOpen = d]
      PROVE  SameDelay(b, r) /\ r.state = b.state
  BY <1>1, Zenon DEF Box, SameDelay
<1>2. CASE c # NoCred /\ b.uses[c] # 0
  <2>1. CredDoor[c] \in Requestable \union {NoDoor}
    BY <1>2, BoxAssumption
  <2>2. verifyCred(b, c) = [b EXCEPT !.verifiedCredId = c, !.doorToOpen = CredDoor[c]]
    BY <1>2 DEF verifyCred
  <2> QED
    BY <1>1, <2>1, <2>2, Zenon
<1>3. CASE ~(c # NoCred /\ b.uses[c] # 0)
  <2>1. verifyCred(b, c) = [b EXCEPT !.verifiedCredId = NoCred, !.doorToOpen = NoDoor]
    BY <1>3 DEF verifyCred
  <2>2. NoCred \in Creds \union {NoCred} /\ NoDoor \in Requestable \union {NoDoor}
    OBVIOUS
  <2> QED
    BY <1>1, <2>1, <2>2, Zenon
<1> QED
  BY <1>2, <1>3

\* A bad code starts the whole delay.
LEMMA RefusedHandled ==
  ASSUME NEW b \in Box, NEW v, NEW p \in Nat, NEW scanned \in BOOLEAN,
         Serving(b, p), CodeState(b), SameDelay(b, v), v.state = b.state
  PROVE  Handled(b, p, CodeRefused(v, scanned))
<1> DEFINE n == IF v.badCount < COUNT_MAX THEN v.badCount + 1 ELSE v.badCount
           c == [v EXCEPT !.retryScan = scanned, !.badCount = n]
           r == transitionTo(c, "BadPass")
<1>1. v \in Box /\ ~v.badActive
  BY DEF SameDelay, Serving, CodeState
<1>2. n \in 0 .. COUNT_MAX
  BY <1>1, BoxAssumption DEF Box
<1>3. CodeRefused(v, scanned) = r
  BY DEF CodeRefused
<1> HIDE DEF n
<1>4. c \in Box
  BY <1>1, <1>2, Zenon DEF Box
<1>5. c.state = b.state /\ c.badActive = v.badActive
  BY <1>1 DEF Box
<1> HIDE DEF c
<1>6. /\ r \in Box /\ r.state = "BadPass" /\ r.badCount = c.badCount
      /\ Serving(r, BadCodeDelay(c.badCount))
  BY <1>1, <1>4, <1>5, EnterBadPass DEF CodeState
<1> HIDE DEF r
<1> QED
  BY <1>3, <1>6 DEF Handled, PenaltyAfter

\* A good one opens a door.
LEMMA CodeHandled ==
  ASSUME NEW b \in Box, NEW p \in Nat, NEW c \in Creds \union {NoCred},
         NEW scanned \in BOOLEAN, Serving(b, p), CodeState(b)
  PROVE  Handled(b, p, CodeEntered(b, c, scanned))
<1> DEFINE v == verifyCred(b, c)
           g == [v EXCEPT !.credVerified = TRUE, !.badCount = 0,
                          !.scannedCredVerified = scanned]
<1>1. SameDelay(b, v) /\ v.state = b.state /\ v \in Box
  BY VerifyType DEF SameDelay
<1>2. CodeEntered(b, c, scanned) =
        IF v.doorToOpen # NoDoor THEN transitionTo(g, "Opening")
                                 ELSE CodeRefused(v, scanned)
  BY DEF CodeEntered
<1> HIDE DEF v
<1>3. Handled(b, p, CodeRefused(v, scanned))
  BY <1>1, RefusedHandled
<1>4. SameDelay(b, g)
  <2>1. 0 \in 0 .. COUNT_MAX
    BY BoxAssumption
  <2>2. v \in Box
    BY <1>1
  <2>3. g \in Box
    BY <2>1, <2>2, Zenon DEF Box
  <2>4. /\ g.badActive = v.badActive /\ g.badFor = v.badFor /\ g.badAge = v.badAge
    BY <2>2 DEF Box
  <2> QED
    BY <1>1, <2>3, <2>4 DEF SameDelay
<1> HIDE DEF g
<1>5. Handled(b, p, transitionTo(g, "Opening"))
  BY <1>4, OtherHandled
<1> QED
  BY <1>2, <1>3, <1>5

LEMMA WebHandled ==
  ASSUME NEW b \in Box, NEW p \in Nat, NEW d \in Requestable, Serving(b, p)
  PROVE  Handled(b, p, handleWebEvent(b, d))
<1> DEFINE c == [b EXCEPT !.doorToOpen = d, !.credVerified = FALSE,
                          !.scannedCredVerified = FALSE]
<1>1. c \in Box
  <2>1. d \in Requestable \union {NoDoor}
    OBVIOUS
  <2> QED
    BY <2>1, Zenon DEF Box
<1>2. c.badActive = b.badActive /\ c.badFor = b.badFor /\ c.badAge = b.badAge
  BY DEF Box
<1>3. handleWebEvent(b, d) = transitionTo(c, "Opening")
  BY DEF handleWebEvent
<1> HIDE DEF c
<1>4. SameDelay(b, c)
  BY <1>1, <1>2 DEF SameDelay
<1> QED
  BY <1>3, <1>4, OtherHandled

LEMMA SensorHandled ==
  ASSUME NEW b \in Box, NEW c, NEW p \in Nat, NEW changed, Serving(b, p),
         SameDelay(b, c), c.state = b.state
  PROVE  Handled(b, p, handleSensorEvent(c, changed))
<1>1. \/ handleSensorEvent(c, changed) = transitionTo(c, "Open")
      \/ handleSensorEvent(c, changed) = transitionTo(c, "Closed")
      \/ handleSensorEvent(c, changed) = c
  BY Zenon DEF handleSensorEvent
<1>2. Handled(b, p, transitionTo(c, "Open")) /\ Handled(b, p, transitionTo(c, "Closed"))
  BY OtherHandled
<1>3. Handled(b, p, c)
  BY SameDelayHandled DEF CodeState
<1> QED
  BY <1>1, <1>2, <1>3

\* The flag of a delay is cleared only when the delay is over.
LEMMA RefreshedServing ==
  ASSUME NEW b \in Box, NEW p \in Nat, Serving(b, p)
  PROVE  /\ Refreshed(b) \in Box /\ Refreshed(b).state = b.state
         /\ Serving(Refreshed(b), p)
<1> DEFINE x == b.badActive /\ b.badAge < b.badFor
           y == b.presenceActive /\ b.presenceAge < PRESENCE_CODE_VALIDITY
           r == [b EXCEPT !.badActive = x, !.presenceActive = y]
<1>1. Refreshed(b) = r
  BY DEF Refreshed
<1>2. x \in BOOLEAN /\ y \in BOOLEAN
  OBVIOUS
<1>3. p > 0 => x
  BY DEF Serving, Box
<1>4. x => b.badActive
  OBVIOUS
<1> HIDE DEF x, y
<1>5. r \in Box
  BY <1>2, Zenon DEF Box
<1>6. r.state = b.state /\ r.badActive = x /\ r.badAge = b.badAge /\ r.badFor = b.badFor
  BY DEF Box
<1> HIDE DEF r
<1>7. Serving(r, p)
  BY <1>3, <1>4, <1>6 DEF Serving
<1> QED
  BY <1>1, <1>5, <1>6, <1>7

LEMMA TimeoutHandled ==
  ASSUME NEW b \in Box, NEW p \in Nat, NEW started \in BOOLEAN, Serving(b, p)
  PROVE  Handled(b, p, StateTimeout(b, started))
<1> DEFINE r == StateTimeout(b, started)
<1>1. \/ r = transitionTo(b, "Home") \/ r = transitionTo(b, "Open") \/ r = b
      \/ /\ b.badAge >= b.badFor
         /\ r = IF b.retryScan THEN ToScan(b, started) ELSE transitionTo(b, "Password")
  BY Zenon DEF StateTimeout
<1> HIDE DEF r
<1>2. SameDelay(b, b)
  BY DEF SameDelay
<1>3. Handled(b, p, transitionTo(b, "Home")) /\ Handled(b, p, transitionTo(b, "Open"))
  BY <1>2, OtherHandled
<1>4. Handled(b, p, b)
  BY <1>2, SameDelayHandled DEF CodeState
<1>5. b.badAge >= b.badFor => ~Penalized(b)
  BY DEF Penalized, Box
<1>6. ~Penalized(b) => /\ Handled(b, p, ToScan(b, started))
                       /\ Handled(b, p, transitionTo(b, "Password"))
  BY ScanHandled, PasswordHandled
<1> QED
  BY <1>1, <1>3, <1>4, <1>5, <1>6 DEF r

-----------------------------------------------------------------------------
(* The steps.                                                              *)

\* A handler of loop() that takes at most one request from the queue.
LEMMA LoopStepInv ==
  ASSUME PenaltyInv, NEW h \in Handlers, Handler(h), NEW r, Observe(r),
         Handled(box, penalty, r),
         queue' \in Seq(Requestable), Len(queue') <= QUEUE_LENGTH
  PROVE  PenaltyInv'
<1>1. box' = r /\ r \in Box /\ Serving(r, PenaltyAfter(box, penalty, r))
  BY DEF Observe, Handled
<1>2. penalty' = PenaltyAfter(box, penalty, r)
  BY DEF Observe, PenaltyAfter, CodeState
<1>3. BadCodeDelay(r.badCount) \in Nat
  BY <1>1, BadCodeDelayType DEF Box
<1>4. penalty' \in Nat
  BY <1>2, <1>3 DEF PenaltyAfter, PenaltyInv, TypeOK
<1>5. r.verifiedCredId \in Creds \union {NoCred}
  BY <1>1 DEF Box
<1>6. pulsedBy' \in Creds \union {NoCred}
  BY <1>5 DEF Observe, PenaltyInv, TypeOK
<1>7. at' \in Handlers /\ contact' \subseteq Contacts
      /\ requests' \in 0 .. RequestsPerTick
  BY DEF Handler, Handlers, After, PenaltyInv, TypeOK
<1>8. Serving(box', penalty')
  BY <1>1, <1>2
<1> QED
  BY <1>1, <1>4, <1>6, <1>7, <1>8 DEF PenaltyInv, TypeOK

\* A handler of loop() that changes nothing of the box.
LEMMA IdleInv ==
  ASSUME PenaltyInv, NEW h \in Handlers, Handler(h),
         UNCHANGED <<box, queue, pulsedBy, penalty>>
  PROVE  PenaltyInv'
<1>1. at' \in Handlers
  BY DEF Handler, Handlers, After
<1>2. UNCHANGED <<contact, requests>>
  BY DEF Handler
<1>3. TypeOK'
  BY <1>1, <1>2 DEF PenaltyInv, TypeOK
<1>4. Serving(box', penalty')
  BY DEF PenaltyInv
<1> QED
  BY <1>3, <1>4 DEF PenaltyInv

LEMMA AllHandlers == {"web", "doors", "timers", "keys", "update", "scanner"} \subseteq Handlers
  BY DEF Handlers, After

LEMMA LoopInv ==
  ASSUME PenaltyInv, LoopStep
  PROVE  PenaltyInv'
<1>1. box \in Box /\ penalty \in Nat /\ Serving(box, penalty)
  BY DEF PenaltyInv, TypeOK
<1>2. SameDelay(box, box)
  BY <1>1 DEF SameDelay
<1>3. queue \in Seq(Requestable) /\ Len(queue) <= QUEUE_LENGTH
  BY DEF PenaltyInv, TypeOK
<1>4. CASE noRequest
  BY <1>4, AllHandlers, IdleInv DEF noRequest
<1>5. CASE takeRequest
  <2>1. Head(queue) \in Requestable /\ Tail(queue) \in Seq(Requestable)
        /\ Len(Tail(queue)) <= QUEUE_LENGTH
    BY <1>3, <1>5, BoxAssumption DEF takeRequest
  <2>2. Handled(box, penalty, handleWebEvent(box, Head(queue)))
    BY <1>1, <2>1, WebHandled
  <2> QED
    BY <1>5, <2>1, <2>2, AllHandlers, LoopStepInv DEF takeRequest
<1>6. ASSUME NEW stable \in SUBSET Contacts, updateDoorStates(stable)
      PROVE  PenaltyInv'
  <2> DEFINE known == (box.lastState \ stable) \union (contact \intersect stable)
             c == [box EXCEPT !.lastState = known]
             changed == {DoorOf[x] : x \in stable}
  <2>1. known \in SUBSET Contacts
    BY <1>1 DEF PenaltyInv, TypeOK, Box
  <2>2. Observe(handleSensorEvent(c, changed)) /\ Handler("doors") /\ UNCHANGED queue
    BY <1>6 DEF updateDoorStates
  <2> HIDE DEF known, changed
  <2>3. SameDelay(box, c) /\ c.state = box.state
    BY <1>1, <2>1 DEF Box, SameDelay
  <2> HIDE DEF c
  <2>4. Handled(box, penalty, handleSensorEvent(c, changed))
    BY <1>1, <2>3, SensorHandled
  <2> QED
    BY <1>3, <2>2, <2>4, AllHandlers, LoopStepInv
<1>7. CASE updateTimers
  <2> DEFINE due == {i \in Slots : box.timers[i] # Free /\ box.timers[i].age >= DOOR_DELAY}
             on == box.lock \ {box.timers[i].door : i \in due}
             ts == [i \in Slots |-> IF i \in due THEN Free ELSE box.timers[i]]
             c == [box EXCEPT !.lock = on, !.timers = ts]
  <2>1. Observe(c) /\ Handler("timers") /\ UNCHANGED queue
    BY <1>7 DEF updateTimers
  <2>2. on \in SUBSET Doors
    BY <1>1 DEF Box
  <2>3. ts \in [Slots -> Timers \union {Free}]
    BY <1>1 DEF Box
  <2> HIDE DEF on, ts, due
  <2>4. c \in Box
    BY <1>1, <2>2, <2>3, Zenon DEF Box
  <2>5. /\ c.state = box.state /\ c.badActive = box.badActive
        /\ c.badFor = box.badFor /\ c.badAge = box.badAge
    BY <1>1 DEF Box
  <2> HIDE DEF c
  <2>6. SameDelay(box, c)
    BY <2>4, <2>5 DEF SameDelay
  <2>7. Handled(box, penalty, c)
    BY <1>1, <2>5, <2>6, SameDelayHandled
  <2> QED
    BY <1>3, <2>1, <2>7, AllHandlers, LoopStepInv
<1>8. CASE noKey
  BY <1>8, AllHandlers, IdleInv DEF noKey
<1>9. CASE cancelKey
  <2>1. Handled(box, penalty, transitionTo(box, "Home"))
    BY <1>1, <1>2, OtherHandled
  <2> QED
    BY <1>3, <1>9, <2>1, AllHandlers, LoopStepInv DEF cancelKey
<1>10. ASSUME NEW key \in {"key1", "key2", "key3"}, NEW started \in BOOLEAN,
              homeKey(key, started)
       PROVE  PenaltyInv'
  <2>1. Handled(box, penalty, HomeKey(box, key, started))
    BY <1>1, <1>10, HomeKeyHandled DEF homeKey
  <2> QED
    BY <1>3, <1>10, <2>1, AllHandlers, LoopStepInv DEF homeKey
<1>11. ASSUME NEW c \in Creds \union {NoCred}, enterCode(c)
       PROVE  PenaltyInv'
  <2>1. Handled(box, penalty, CodeEntered(box, c, FALSE))
    BY <1>1, <1>11, CodeHandled DEF enterCode, CodeState
  <2> QED
    BY <1>3, <1>11, <2>1, AllHandlers, LoopStepInv DEF enterCode
<1>12. ASSUME NEW started \in BOOLEAN, update(started)
       PROVE  PenaltyInv'
  <2> DEFINE q == Refreshed(box)
             r == StateTimeout(q, started)
  <2>1. q \in Box /\ q.state = box.state /\ Serving(q, penalty)
    BY <1>1, RefreshedServing
  <2>2. Observe(r) /\ Handler("update") /\ UNCHANGED queue
    BY <1>12 DEF update
  <2> HIDE DEF q
  <2>3. Handled(q, penalty, r)
    BY <1>1, <2>1, TimeoutHandled
  <2> HIDE DEF r
  <2>4. Handled(box, penalty, r)
    BY <2>1, <2>3 DEF Handled, PenaltyAfter, CodeState
  <2> QED
    BY <1>3, <2>2, <2>4, AllHandlers, LoopStepInv
<1>13. CASE noScan
  <2> DEFINE r == IF box.state = "Scan" /\ box.age >= SCAN_TIMEOUT
                    THEN transitionTo(box, "Home") ELSE box
  <2>1. Handled(box, penalty, transitionTo(box, "Home"))
    BY <1>1, <1>2, OtherHandled
  <2>2. Handled(box, penalty, box)
    BY <1>1, <1>2, SameDelayHandled
  <2>3. Observe(r) /\ Handler("scanner") /\ UNCHANGED queue
    BY <1>13 DEF noScan
  <2>4. Handled(box, penalty, r)
    BY <2>1, <2>2
  <2> HIDE DEF r
  <2> QED
    BY <1>3, <2>3, <2>4, AllHandlers, LoopStepInv
<1>14. CASE scannedGarbage
  <2> DEFINE v == [box EXCEPT !.doorToOpen = NoDoor]
  <2>1. Observe(CodeRefused(v, TRUE)) /\ Handler("scanner") /\ UNCHANGED queue
    BY <1>14 DEF scannedGarbage
  <2>2. SameDelay(box, v) /\ v.state = box.state
    BY <1>1 DEF Box, SameDelay
  <2> HIDE DEF v
  <2>3. Handled(box, penalty, CodeRefused(v, TRUE))
    BY <1>1, <1>14, <2>2, RefusedHandled DEF scannedGarbage, CodeState
  <2> QED
    BY <1>3, <2>1, <2>3, AllHandlers, LoopStepInv
<1>15. ASSUME NEW c \in Creds \union {NoCred}, scannedCode(c)
       PROVE  PenaltyInv'
  <2>1. Handled(box, penalty, CodeEntered(box, c, TRUE))
    BY <1>1, <1>15, CodeHandled DEF scannedCode, CodeState
  <2> QED
    BY <1>3, <1>15, <2>1, AllHandlers, LoopStepInv DEF scannedCode
<1>16. Packets \subseteq Creds
  BY BoxAssumption
<1> QED
  BY <1>4, <1>5, <1>6, <1>7, <1>8, <1>9, <1>10, <1>11, <1>12, <1>13, <1>14, <1>15,
     <1>16 DEF LoopStep

\* Requests, changes of credentials and moving doors do not reach the delay.
LEMMA OutsideInv ==
  ASSUME PenaltyInv, Outside
  PROVE  PenaltyInv'
<1>1. /\ box \in Box /\ penalty \in Nat /\ Serving(box, penalty)
      /\ contact \subseteq Contacts /\ requests \in 0 .. RequestsPerTick
      /\ queue \in Seq(Requestable) /\ Len(queue) <= QUEUE_LENGTH
      /\ at \in Handlers /\ pulsedBy \in Creds \union {NoCred}
  BY DEF PenaltyInv, TypeOK
<1>2. ASSUME NEW d \in Requestable, handleOpenBox(d)
      PROVE  PenaltyInv'
  <2>1. queue' \in Seq(Requestable) /\ Len(queue') <= QUEUE_LENGTH
    BY <1>1, <1>2, BoxAssumption DEF handleOpenBox
  <2>2. requests' \in 0 .. RequestsPerTick
    BY <1>1, <1>2, BoxAssumption DEF handleOpenBox
  <2>3. UNCHANGED <<box, contact, at, pulsedBy, penalty>>
    BY <1>2 DEF handleOpenBox
  <2> QED
    BY <1>1, <2>1, <2>2, <2>3 DEF PenaltyInv, TypeOK
<1>3. ASSUME NEW c \in Creds, revokeCred(c)
      PROVE  PenaltyInv'
  <2> DEFINE r == [box EXCEPT !.uses[c] = 0]
  <2>1. box' = r /\ UNCHANGED <<contact, queue, requests, at, pulsedBy, penalty>>
    BY <1>3 DEF revokeCred
  <2>2. [box.uses EXCEPT ![c] = 0] \in [Creds -> Int]
    BY <1>1 DEF Box
  <2>3. SameDelay(box, r) /\ r.state = box.state
    BY <1>1, <2>2 DEF Box, SameDelay
  <2> HIDE DEF r
  <2>4. r \in Box /\ Serving(r, penalty)
    BY <1>1, <2>3, SameDelayServing DEF SameDelay
  <2> QED
    BY <1>1, <2>1, <2>4 DEF PenaltyInv, TypeOK
<1>4. ASSUME NEW c \in Contacts, moveDoor(c)
      PROVE  PenaltyInv'
  <2>1. contact' \subseteq Contacts
    BY <1>1, <1>4 DEF moveDoor
  <2>2. UNCHANGED <<box, queue, requests, at, pulsedBy, penalty>>
    BY <1>4 DEF moveDoor
  <2> QED
    BY <1>1, <2>1, <2>2 DEF PenaltyInv, TypeOK
<1> QED
  BY <1>2, <1>3, <1>4 DEF Outside

\* A tick passes: one tick less of the delay is left to serve.
LEMMA TickInv ==
  ASSUME PenaltyInv, Tick
  PROVE  PenaltyInv'
<1>1. /\ box \in Box /\ penalty \in Nat /\ Serving(box, penalty)
      /\ contact \subseteq Contacts /\ requests \in 0 .. RequestsPerTick
      /\ queue \in Seq(Requestable) /\ Len(queue) <= QUEUE_LENGTH
      /\ at \in Handlers /\ pulsedBy \in Creds \union {NoCred}
  BY DEF PenaltyInv, TypeOK
<1> DEFINE a == Aged(box.age, Timed[box.state])
           f == Aged(box.badAge, box.badFor)
           g == IF box.presenceActive THEN Aged(box.presenceAge, PRESENCE_CODE_VALIDITY)
                                      ELSE box.presenceAge
           ts == [i \in Slots |-> AgedTimer(box.timers[i])]
           r == [box EXCEPT !.age = a, !.badAge = f, !.presenceAge = g, !.timers = ts]
<1>2. /\ box' = r
      /\ UNCHANGED <<contact, queue, at, pulsedBy>> /\ requests' = 0
      /\ penalty' = IF penalty > 0 THEN penalty - 1 ELSE 0
  BY DEF Tick
<1>3. a \in Nat /\ f \in Nat /\ g \in Nat
  BY <1>1 DEF Aged, Box
<1>4. ts \in [Slots -> Timers \union {Free}]
  <2>1. ASSUME NEW t \in Timers \union {Free}
        PROVE  AgedTimer(t) \in Timers \union {Free}
    BY BoxAssumption DEF AgedTimer, Aged, Timers
  <2> QED
    BY <1>1, <2>1 DEF Box
<1>5. penalty > 0 => f = box.badAge + 1
  BY <1>1 DEF Serving, Aged, Box
<1>6. box.badAge \in Nat /\ box.badFor \in Nat
  BY <1>1 DEF Box
<1> HIDE DEF a, f, g, ts
<1>7. r \in Box
  <2>1. box \in Box
    BY <1>1
  <2> QED
    BY <1>3, <1>4, <2>1, Zenon DEF Box
<1>8. /\ r.state = box.state /\ r.badActive = box.badActive
      /\ r.badFor = box.badFor /\ r.badAge = f
  BY <1>1 DEF Box
<1> HIDE DEF r
<1>9. penalty' \in Nat /\ Serving(r, penalty')
  BY <1>1, <1>2, <1>5, <1>6, <1>8 DEF Serving
<1>10. requests' \in 0 .. RequestsPerTick
  BY <1>2, BoxAssumption
<1> QED
  BY <1>1, <1>2, <1>7, <1>9, <1>10 DEF PenaltyInv, TypeOK

-----------------------------------------------------------------------------
(* The theorems.                                                           *)

\* Switched on, the box has no delay to serve.
LEMMA InitInv == Init => PenaltyInv
<1> SUFFICES ASSUME Init
             PROVE  PenaltyInv
  OBVIOUS
<1>1. box \in Box
  <2>1. 0 \in 0 .. COUNT_MAX /\ InitUses \in [Creds -> Int] /\ 0 \in Nat
    BY BoxAssumption
  <2>2. ASSUME NEW d \in Requestable
        PROVE  [state |-> "Home", doorToOpen |-> d, credVerified |-> FALSE,
                scannedCredVerified |-> FALSE, retryScan |-> FALSE, badCount |-> 0,
                badActive |-> FALSE, badFor |-> 0, badAge |-> 0,
                presenceActive |-> FALSE, presenceAge |-> 0, age |-> 0,
                openFor |-> 0, external |-> TRUE, ambient |-> FALSE, lock |-> {},
                timers |-> [i \in Slots |-> Free], lastState |-> {},
                uses |-> InitUses, verifiedCredId |-> NoCred] \in Box
    BY <2>1 DEF Box, States
  <2> QED
    BY <2>2 DEF Init
<1>2. box.state = "Home" /\ penalty = 0
  BY DEF Init
<1>3. /\ contact \subseteq Contacts /\ queue \in Seq(Requestable)
      /\ Len(queue) <= QUEUE_LENGTH /\ requests \in 0 .. RequestsPerTick
      /\ at \in Handlers /\ pulsedBy \in Creds \union {NoCred}
  BY BoxAssumption, AllHandlers DEF Init
<1>4. Serving(box, penalty)
  BY <1>2 DEF Serving
<1> QED
  BY <1>1, <1>2, <1>3, <1>4 DEF PenaltyInv, TypeOK

LEMMA NextInv == PenaltyInv /\ [Next]_vars => PenaltyInv'
<1>1. PenaltyInv /\ Next => PenaltyInv'
  BY LoopInv, OutsideInv, TickInv DEF Next
<1>2. PenaltyInv /\ UNCHANGED vars => PenaltyInv'
  BY DEF PenaltyInv, TypeOK, vars
<1> QED
  BY <1>1, <1>2

\* The context of the state machine, its outputs, its timers and the queue of
\* requests stay within their types, and the delay is held back.
THEOREM PenaltyInductive == Spec => []PenaltyInv
  BY InitInv, NextInv, PTL DEF Spec

\* The context of the state machine, its outputs, its timers and the queue of
\* requests stay within their types: the count of bad codes does not overflow,
\* the queue holds no more requests than it has room for.
THEOREM BoxTypeCorrect == Spec => []TypeOK
<1>1. PenaltyInv => TypeOK
  BY DEF PenaltyInv
<1> QED
  BY <1>1, PenaltyInductive, PTL

\* No code can be entered or scanned before the delay for the last bad one has
\* passed, whatever keys are pressed and whatever is opened from the web
\* meanwhile: for any timeouts, any doors and any number of requests.
THEOREM DelayServed == Spec => []PenaltyServed
<1>1. PenaltyInv => PenaltyServed
  BY DEF PenaltyInv, PenaltyServed, Serving, TypeOK
<1> QED
  BY <1>1, PenaltyInductive, PTL

-----------------------------------------------------------------------------
(***************************************************************************)
(* The doors, for any doors, contacts and credentials: Open waits for a    *)
(* door that can still close, a credential is charged for the door it has  *)
(* opened and for no other, and the light follows the door.                *)
(*                                                                         *)
(* Every handler of loop() has one of seven outcomes for the door being    *)
(* opened (Outcome).  That is shown once, from the definitions of the      *)
(* handlers; the invariants follow from the outcomes alone.                *)
(***************************************************************************)

\* Nobody sends a request to open a door: the environment of box_codes.
WebUnused == RequestsPerTick = 0

ContactsOf(d) == {c \in Contacts : DoorOf[c] = d}

\* r has everything b has that is about the door, but for the state, the
\* contacts and the light.
SameDoor(b, r) ==
  /\ r.doorToOpen = b.doorToOpen /\ r.uses = b.uses
  /\ r.credVerified = b.credVerified
  /\ r.scannedCredVerified = b.scannedCredVerified
  /\ r.verifiedCredId = b.verifiedCredId

SameLight(b, r) == r.openFor = b.openFor /\ r.ambient = b.ambient

\* The states in which no door is being opened.
IdleStates == {"Home", "Password", "Scan", "Presence", "BadPass"}

DoorState(b) == readDoorState(b, b.doorToOpen)

\* Nothing happens, and nothing was due.
Rests(b, r) ==
  /\ r.state = b.state /\ SameDoor(b, r) /\ SameLight(b, r)
  /\ r.lastState = b.lastState
  /\ at = "update" /\ b.state = "Opening" =>
       DoorState(b) # "open" /\ ~(b.age >= b.openFor)

\* Contacts have changed, and the box goes on waiting for its door.
ContactsChange(b, r) ==
  /\ at = "doors"
  /\ r.state = b.state /\ SameDoor(b, r) /\ SameLight(b, r)
  /\ b.state = "Opening" /\ DoorState(r) = "open" => DoorState(b) = "open"
  /\ b.state = "Open" /\ DoorState(b) \in {"open", "mixed"} =>
       DoorState(r) \in {"open", "mixed"}

\* The box is, or becomes, idle: from Opening only when the door did not open.
GoesIdle(b, r) ==
  /\ r.state \in IdleStates
  /\ r.lastState = b.lastState /\ r.uses = b.uses
  /\ r.ambient => r.state # "Home" /\ b.ambient /\ b.state \in IdleStates
  /\ b.state = "Opening" => at = "update" /\ DoorState(b) # "open"

\* The light and the timeout of Opening, entered from another state.
OpeningLight(b, r) ==
  IF r.doorToOpen \in Doors THEN r.openFor = DOOR_OPENING_TIMEOUT /\ r.ambient
                            ELSE r.openFor = 0

\* A code was given that opens a door.
CodeOpens(b, r) ==
  /\ b.state \in {"Password", "Scan"} /\ r.state = "Opening"
  /\ r.lastState = b.lastState /\ r.uses = b.uses
  /\ OpeningLight(b, r)
  /\ r.credVerified /\ r.verifiedCredId \in Creds
  /\ r.doorToOpen = CredDoor[r.verifiedCredId]
  /\ r.scannedCredVerified => r.verifiedCredId \in Packets
  /\ \/ at = "keys"
     \/ at = "scanner" /\ r.verifiedCredId \in Packets

\* A request is obeyed; in Opening it only replaces the door.
WebOpens(b, r) ==
  /\ at = "web" /\ queue # <<>> /\ r.state = "Opening"
  /\ r.lastState = b.lastState /\ r.uses = b.uses
  /\ ~r.credVerified
  /\ IF b.state = "Opening" THEN SameLight(b, r) ELSE OpeningLight(b, r)

\* The door being opened is found open.
DoorOpens(b, r) ==
  LET c == b.verifiedCredId
  IN  /\ at \in {"doors", "update"}
      /\ b.state = "Opening" /\ r.state = "Open"
      /\ r.doorToOpen = b.doorToOpen /\ DoorState(r) = "open"
      /\ SameLight(b, r)
      /\ r.uses = IF /\ b.credVerified /\ ~(KeepScanned /\ b.scannedCredVerified)
                     /\ c # NoCred /\ CredDoor[c] = b.doorToOpen /\ b.uses[c] > 0
                    THEN [b.uses EXCEPT ![c] = @ - 1] ELSE b.uses

\* The open door is closed.
DoorCloses(b, r) ==
  /\ at = "doors"
  /\ b.state = "Open" /\ r.state = "Closed"
  /\ r.uses = b.uses /\ SameLight(b, r)

Outcome(b, r) ==
  \/ Rests(b, r) \/ ContactsChange(b, r) \/ GoesIdle(b, r) \/ CodeOpens(b, r)
  \/ WebOpens(b, r) \/ DoorOpens(b, r) \/ DoorCloses(b, r)

-----------------------------------------------------------------------------
(* Reading a door.                                                         *)

\* What readDoorState() says of the contacts of a door.
LEMMA Reading ==
  ASSUME NEW b, NEW d
  PROVE  /\ readDoorState(b, d) = "open" <=>
              ContactsOf(d) # {} /\ ContactsOf(d) \subseteq b.lastState
         /\ readDoorState(b, d) \in {"open", "mixed"} <=>
              ContactsOf(d) # {} /\ ContactsOf(d) \intersect b.lastState # {}
         /\ readDoorState(b, d) = "closed" <=>
              ContactsOf(d) # {} /\ ContactsOf(d) \intersect b.lastState = {}
<1> DEFINE cs == ContactsOf(d)
<1>1. readDoorState(b, d) =
        CASE cs = {} -> "unknown"
          [] cs # {} /\ cs \subseteq b.lastState -> "open"
          [] cs # {} /\ cs \intersect b.lastState = {} -> "closed"
          [] OTHER -> "mixed"
  BY DEF readDoorState, ContactsOf
<1>2. cs # {} /\ cs \subseteq b.lastState => cs \intersect b.lastState # {}
  OBVIOUS
<1> HIDE DEF cs
<1>3. /\ cs = {} => readDoorState(b, d) = "unknown"
      /\ cs # {} /\ cs \subseteq b.lastState => readDoorState(b, d) = "open"
      /\ cs # {} /\ cs \intersect b.lastState = {} => readDoorState(b, d) = "closed"
      /\ cs # {} /\ ~(cs \subseteq b.lastState) /\ cs \intersect b.lastState # {} =>
           readDoorState(b, d) = "mixed"
  BY <1>1, <1>2
<1> QED
  BY <1>2, <1>3 DEF cs

\* The reading of a door depends on its own contacts.
LEMMA SameReading ==
  ASSUME NEW b, NEW r, NEW d,
         \A c \in ContactsOf(d) : c \in r.lastState <=> c \in b.lastState
  PROVE  readDoorState(r, d) = readDoorState(b, d)
<1>1. /\ ContactsOf(d) \subseteq r.lastState <=> ContactsOf(d) \subseteq b.lastState
      /\ ContactsOf(d) \intersect r.lastState = {} <=>
           ContactsOf(d) \intersect b.lastState = {}
  OBVIOUS
<1> QED
  BY <1>1 DEF readDoorState, ContactsOf

-----------------------------------------------------------------------------
(* Entering a state.                                                       *)

LEMMA LeftDoor ==
  ASSUME NEW b \in Box, NEW s \in States
  PROVE  /\ Left(b, s) \in Box /\ Left(b, s).state = s
         /\ SameDoor(b, Left(b, s)) /\ Left(b, s).lastState = b.lastState
         /\ Left(b, s).openFor = b.openFor
         /\ Left(b, s).ambient = (IF b.state = "Closed" THEN FALSE ELSE b.ambient)
<1>1. Left(b, s) \in Box /\ Left(b, s).state = s
  BY LeftType
<1>2. /\ SameDoor(b, Left(b, s)) /\ Left(b, s).lastState = b.lastState
      /\ Left(b, s).openFor = b.openFor
  BY DEF Left, Box, SameDoor
<1>3. Left(b, s).ambient = (IF b.state = "Closed" THEN FALSE ELSE b.ambient)
  BY DEF Left, Box
<1> QED
  BY <1>1, <1>2, <1>3

LEMMA OpenDoorDoor ==
  ASSUME NEW b \in Box, NEW d
  PROVE  /\ SameDoor(b, openDoor(b, d)) /\ openDoor(b, d).lastState = b.lastState
<1> DEFINE on == [b EXCEPT !.lock = @ \union {d}]
           t == [door |-> d, age |-> 0]
<1>1. SameDoor(b, on) /\ on.lastState = b.lastState
  BY DEF Box, SameDoor
<1>2. ASSUME NEW i
      PROVE  /\ SameDoor(b, [on EXCEPT !.timers[i] = t])
             /\ [on EXCEPT !.timers[i] = t].lastState = b.lastState
  BY DEF Box, SameDoor
<1> HIDE DEF on, t
<1> QED
  BY <1>1, <1>2 DEF openDoor, scheduleOnce, on, t

\* Opening keeps what was verified, and switches the light on with the lock.
LEMMA EnterOpening ==
  ASSUME NEW b \in Box, b.state # "Opening"
  PROVE  LET r == transitionTo(b, "Opening")
         IN  /\ r.state = "Opening" /\ SameDoor(b, r)
             /\ r.lastState = b.lastState /\ OpeningLight(b, r)
<1> DEFINE l == Left(b, "Opening")
           r == transitionTo(b, "Opening")
<1>1. l \in Box /\ SameDoor(b, l) /\ l.lastState = b.lastState
  BY LeftDoor DEF States
<1>2. r = onEnterOpening(l)
  BY Transition
<1>3. r.state = "Opening"
  BY EnterOther
<1> HIDE DEF l
<1>4. CASE l.doorToOpen \in Doors
  <2> DEFINE o == openDoor(l, l.doorToOpen)
  <2>1. o \in Box /\ SameDoor(l, o) /\ o.lastState = l.lastState
    BY <1>1, <1>4, OpenDoorDoor, OpenDoorType DEF SameDelay
  <2>2. onEnterOpening(l) = [o EXCEPT !.external = FALSE,
                               !.openFor = DOOR_OPENING_TIMEOUT, !.ambient = TRUE]
    BY <1>4 DEF onEnterOpening
  <2> HIDE DEF o
  <2>3. /\ SameDoor(o, onEnterOpening(l)) /\ onEnterOpening(l).lastState = o.lastState
        /\ onEnterOpening(l).openFor = DOOR_OPENING_TIMEOUT
        /\ onEnterOpening(l).ambient
    BY <2>1, <2>2 DEF Box, SameDoor
  <2> QED
    BY <1>1, <1>2, <1>3, <1>4, <2>1, <2>3 DEF SameDoor, OpeningLight
<1>5. CASE l.doorToOpen \notin Doors
  <2>1. onEnterOpening(l) = [l EXCEPT !.external = FALSE, !.openFor = 0]
    BY <1>5 DEF onEnterOpening
  <2>2. /\ SameDoor(l, onEnterOpening(l)) /\ onEnterOpening(l).lastState = l.lastState
        /\ onEnterOpening(l).openFor = 0
    BY <1>1, <2>1 DEF Box, SameDoor
  <2> QED
    BY <1>1, <1>2, <1>3, <1>5, <2>2 DEF SameDoor, OpeningLight
<1> QED
  BY <1>4, <1>5

\* Open uses the credential up that opened this door.
LEMMA EnterOpen ==
  ASSUME NEW b \in Box, b.state = "Opening", DoorState(b) = "open",
         at \in {"doors", "update"}, NEW p, p.state = "Opening",
         SameDoor(b, p), SameLight(b, p)
  PROVE  DoorOpens(p, transitionTo(b, "Open"))
<1> DEFINE l == Left(b, "Open")
           r == transitionTo(b, "Open")
           c == l.verifiedCredId
           u == IF c # NoCred /\ CredDoor[c] = l.doorToOpen /\ l.uses[c] > 0
                  THEN [l.uses EXCEPT ![c] = @ - 1] ELSE l.uses
           consume == l.credVerified /\ ~(KeepScanned /\ l.scannedCredVerified)
<1>1. /\ l \in Box /\ SameDoor(b, l) /\ l.lastState = b.lastState
      /\ SameLight(b, l)
  BY LeftDoor DEF States, SameLight
<1>2. r = onEnterOpen(l) /\ r.state = "Open"
  BY Transition, EnterOther
<1> HIDE DEF l, r
<1>3. usedCred(l) = [l EXCEPT !.verifiedCredId = NoCred, !.uses = u]
  BY DEF usedCred
<1>4. r = [(IF consume THEN usedCred(l) ELSE l) EXCEPT
             !.credVerified = FALSE, !.scannedCredVerified = FALSE]
  BY <1>2 DEF onEnterOpen
<1> HIDE DEF u, consume
<1>5. r.uses = IF consume THEN u ELSE l.uses
  BY <1>1, <1>3, <1>4 DEF Box
<1>6. r.doorToOpen = l.doorToOpen /\ r.lastState = l.lastState /\ SameLight(l, r)
  BY <1>1, <1>3, <1>4 DEF Box, SameLight
<1>7. r.doorToOpen = p.doorToOpen /\ SameLight(p, r)
  BY <1>1, <1>6 DEF SameDoor, SameLight
<1>8. DoorState(r) = "open"
  <2>1. r.lastState = b.lastState /\ r.doorToOpen = b.doorToOpen
    BY <1>1, <1>6 DEF SameDoor
  <2> QED
    BY <2>1, SameReading DEF DoorState
<1>9. r.uses = IF /\ p.credVerified /\ ~(KeepScanned /\ p.scannedCredVerified)
                  /\ p.verifiedCredId # NoCred /\ CredDoor[p.verifiedCredId] = p.doorToOpen
                  /\ p.uses[p.verifiedCredId] > 0
                 THEN [p.uses EXCEPT ![p.verifiedCredId] = @ - 1] ELSE p.uses
  <2>1. /\ l.verifiedCredId = p.verifiedCredId /\ l.uses = p.uses
        /\ l.doorToOpen = p.doorToOpen /\ l.credVerified = p.credVerified
        /\ l.scannedCredVerified = p.scannedCredVerified
    BY <1>1 DEF SameDoor
  <2> QED
    BY <1>5, <2>1 DEF u, consume
<1> QED
  BY <1>2, <1>7, <1>8, <1>9 DEF DoorOpens, r

LEMMA EnterClosed ==
  ASSUME NEW b \in Box, b.state = "Open", at = "doors", NEW p, p.state = "Open",
         SameDoor(b, p), SameLight(b, p)
  PROVE  DoorCloses(p, transitionTo(b, "Closed"))
<1> DEFINE l == Left(b, "Closed")
           r == transitionTo(b, "Closed")
<1>1. l \in Box /\ SameDoor(b, l) /\ SameLight(b, l)
  BY LeftDoor DEF States, SameLight
<1>2. r = onEnterClosed(l) /\ r.state = "Closed"
  BY Transition, EnterOther
<1> HIDE DEF l, r
<1>3. r.uses = l.uses /\ SameLight(l, r)
  BY <1>1, <1>2 DEF onEnterClosed, Box, SameLight
<1> QED
  BY <1>1, <1>2, <1>3 DEF DoorCloses, SameDoor, SameLight, r

\* The other states: the contacts and the uses stay, Home is dark.
LEMMA EnterIdle ==
  ASSUME NEW b \in Box, NEW s \in IdleStates, b.state # s
  PROVE  LET r == transitionTo(b, s)
         IN  /\ r.state = s /\ r.lastState = b.lastState /\ r.uses = b.uses
             /\ s = "Home" => ~r.ambient
             /\ r.ambient => b.ambient
<1> DEFINE l == Left(b, s)
           r == transitionTo(b, s)
<1>1. /\ l \in Box /\ l.state = s /\ l.lastState = b.lastState /\ l.uses = b.uses
      /\ l.ambient => b.ambient
  <2>1. s \in States
    BY DEF States, IdleStates
  <2>2. /\ l \in Box /\ l.state = s /\ SameDoor(b, l) /\ l.lastState = b.lastState
        /\ l.ambient = (IF b.state = "Closed" THEN FALSE ELSE b.ambient)
    BY <2>1, LeftDoor
  <2> HIDE DEF l
  <2> QED
    BY <2>2 DEF SameDoor
<1> HIDE DEF l
<1>2. CASE s = "Home"
  <2>1. r = onEnterHome(l)
    BY <1>2, Transition DEF l
  <2> HIDE DEF r
  <2>2. r.state = s /\ r.lastState = l.lastState /\ r.uses = l.uses /\ ~r.ambient
    BY <1>1, <2>1 DEF onEnterHome, Box
  <2> QED
    BY <1>1, <2>2 DEF r
<1>3. CASE s = "Password"
  <2>1. r = onEnterPassword(l)
    BY <1>3, Transition DEF l
  <2> HIDE DEF r
  <2>2. r.state = s /\ r.lastState = l.lastState /\ r.uses = l.uses
        /\ r.ambient = l.ambient
    BY <1>1, <2>1 DEF onEnterPassword, Box
  <2> QED
    BY <1>1, <1>3, <2>2 DEF r
<1>4. CASE s = "Scan"
  <2>1. r = onEnterScan(l)
    BY <1>4, Transition DEF l
  <2> HIDE DEF r
  <2>2. r.state = s /\ r.lastState = l.lastState /\ r.uses = l.uses
        /\ r.ambient = l.ambient
    BY <1>1, <2>1 DEF onEnterScan, Box
  <2> QED
    BY <1>1, <1>4, <2>2 DEF r
<1>5. CASE s = "Presence"
  <2>1. r = onEnterPresence(l)
    BY <1>5, Transition DEF l
  <2> HIDE DEF r
  <2>2. r.state = s /\ r.lastState = l.lastState /\ r.uses = l.uses
        /\ r.ambient = l.ambient
    BY <1>1, <2>1 DEF onEnterPresence, Box
  <2> QED
    BY <1>1, <1>5, <2>2 DEF r
<1>6. CASE s = "BadPass"
  <2>1. r = onEnterBadPass(l)
    BY <1>6, Transition DEF l
  <2> HIDE DEF r
  <2>2. r.state = s /\ r.lastState = l.lastState /\ r.uses = l.uses
        /\ r.ambient = l.ambient
    BY <1>1, <2>1 DEF onEnterBadPass, Box
  <2> QED
    BY <1>1, <1>6, <2>2 DEF r
<1> QED
  BY <1>2, <1>3, <1>4, <1>5, <1>6 DEF IdleStates

-----------------------------------------------------------------------------
(* The outcomes of the handlers.                                           *)

\* A state where no door is being opened is left for another one, after
\* assignments that the door does not see.
LEMMA IdleOutcome ==
  ASSUME NEW b \in Box, NEW q \in Box, NEW s \in IdleStates, q.state = b.state,
         q.lastState = b.lastState, q.uses = b.uses, q.ambient = b.ambient,
         b.state = "Opening" => at = "update" /\ DoorState(b) # "open",
         s # "Home" => b.state \in IdleStates, b.state # s
  PROVE  GoesIdle(b, transitionTo(q, s))
<1> DEFINE r == transitionTo(q, s)
<1>1. /\ r.state = s /\ r.lastState = q.lastState /\ r.uses = q.uses
      /\ s = "Home" => ~r.ambient
      /\ r.ambient => q.ambient
  BY EnterIdle
<1> HIDE DEF r
<1>2. GoesIdle(b, r)
  BY <1>1 DEF GoesIdle
<1> QED
  BY <1>2 DEF r

\* Going to Scan may end in Home at once.
LEMMA ScanOutcome ==
  ASSUME NEW b \in Box, NEW q \in Box, NEW started \in BOOLEAN, q.state = b.state,
         q.lastState = b.lastState, q.uses = b.uses, q.ambient = b.ambient,
         b.state \in IdleStates, b.state # "Scan", ~Penalized(q), Serving(q, 0)
  PROVE  GoesIdle(b, ToScan(q, started))
<1> DEFINE r == transitionTo(q, "Scan")
           h == transitionTo(r, "Home")
<1>1. b.state # "Opening"
  BY DEF IdleStates
<1>2. "Scan" \in IdleStates /\ "Home" \in IdleStates
  BY DEF IdleStates
<1>3. GoesIdle(b, r)
  BY <1>1, <1>2, IdleOutcome
<1>4. ToScan(q, started) = IF started THEN r ELSE h
  BY DEF ToScan
<1>5. r \in Box /\ r.state = "Scan"
  BY EnterCode
<1> HIDE DEF r
<1>6. h.state = "Home" /\ h.lastState = r.lastState /\ h.uses = r.uses /\ ~h.ambient
  BY <1>2, <1>5, EnterIdle
<1> HIDE DEF h
<1>7. GoesIdle(b, h)
  BY <1>1, <1>2, <1>3, <1>6 DEF GoesIdle
<1> QED
  BY <1>3, <1>4, <1>7

LEMMA WebOutcome ==
  ASSUME NEW b \in Box, NEW d \in Requestable, at = "web", queue # <<>>
  PROVE  WebOpens(b, handleWebEvent(b, d))
<1> DEFINE q == [b EXCEPT !.doorToOpen = d, !.credVerified = FALSE,
                          !.scannedCredVerified = FALSE]
           r == transitionTo(q, "Opening")
<1>1. q \in Box
  <2>1. d \in Requestable \union {NoDoor}
    OBVIOUS
  <2> QED
    BY <2>1, Zenon DEF Box
<1>2. /\ q.state = b.state /\ q.lastState = b.lastState /\ q.uses = b.uses
      /\ ~q.credVerified /\ SameLight(b, q)
  BY DEF Box, SameLight
<1>3. handleWebEvent(b, d) = r
  BY DEF handleWebEvent
<1> HIDE DEF q
<1>4. CASE b.state = "Opening"
  <2>1. r = q
    BY <1>2, <1>4, Transition
  <2> QED
    BY <1>2, <1>3, <1>4, <2>1 DEF WebOpens
<1>5. CASE b.state # "Opening"
  <2>1. /\ r.state = "Opening" /\ SameDoor(q, r)
        /\ r.lastState = q.lastState /\ OpeningLight(q, r)
    BY <1>1, <1>2, <1>5, EnterOpening
  <2> HIDE DEF r
  <2> QED
    BY <1>2, <1>3, <1>5, <2>1 DEF WebOpens, SameDoor, OpeningLight
<1> QED
  BY <1>4, <1>5

\* The door being opened is read anew only if one of its contacts is stable.
LEMMA SensorOutcome ==
  ASSUME NEW b \in Box, NEW stable, at = "doors", contact \subseteq Contacts,
         NEW q, q = [b EXCEPT !.lastState = (b.lastState \ stable)
                                            \union (contact \intersect stable)]
  PROVE  Outcome(b, handleSensorEvent(q, {DoorOf[c] : c \in stable}))
<1> DEFINE changed == {DoorOf[c] : c \in stable}
           ls == (b.lastState \ stable) \union (contact \intersect stable)
           r == handleSensorEvent(q, changed)
<1>1. ls \in SUBSET Contacts
  BY DEF Box
<1>2. q \in Box
  BY <1>1 DEF Box
<1>3. /\ q.state = b.state /\ SameDoor(b, q) /\ SameDoor(q, b)
      /\ SameLight(b, q) /\ SameLight(q, b) /\ q.lastState = ls
  BY <1>1 DEF Box, SameDoor, SameLight
<1>4. q.doorToOpen \notin changed => DoorState(q) = DoorState(b)
  <2>1. q.doorToOpen = b.doorToOpen
    BY <1>3 DEF SameDoor
  <2>2. q.lastState = (b.lastState \ stable) \union (contact \intersect stable)
    BY <1>3
  <2>3. ASSUME NEW d, d \notin changed
        PROVE  readDoorState(q, d) = readDoorState(b, d)
    <3>1. \A c \in ContactsOf(d) : c \notin stable
      BY <2>3 DEF ContactsOf
    <3>2. \A c \in ContactsOf(d) : c \in q.lastState <=> c \in b.lastState
      BY <2>2, <3>1
    <3> QED
      BY <3>2, SameReading
  <2> HIDE DEF ls
  <2> QED
    BY <2>1, <2>3 DEF DoorState
<1> HIDE DEF changed, ls
<1>5. \/ /\ q.doorToOpen \in changed /\ q.state = "Opening" /\ DoorState(q) = "open"
         /\ r = transitionTo(q, "Open")
      \/ /\ q.doorToOpen \in changed /\ q.state = "Open" /\ DoorState(q) = "closed"
         /\ r = transitionTo(q, "Closed")
      \/ /\ r = q
         /\ ~(q.doorToOpen \in changed /\ q.state = "Opening" /\ DoorState(q) = "open")
         /\ ~(q.doorToOpen \in changed /\ q.state = "Open" /\ DoorState(q) = "closed")
  BY Zenon DEF handleSensorEvent, DoorState
<1> HIDE DEF r
<1>6. CASE q.state = "Opening" /\ DoorState(q) = "open" /\ r = transitionTo(q, "Open")
  <2>1. b.state = "Opening" /\ at \in {"doors", "update"}
    BY <1>3, <1>6
  <2>2. DoorOpens(b, transitionTo(q, "Open"))
    BY <1>2, <1>3, <1>6, <2>1, EnterOpen
  <2> QED
    BY <1>6, <2>2 DEF Outcome, r, changed
<1>7. CASE q.state = "Open" /\ r = transitionTo(q, "Closed")
  <2>1. DoorCloses(b, transitionTo(q, "Closed"))
    BY <1>2, <1>3, <1>7, EnterClosed
  <2> QED
    BY <1>7, <2>1 DEF Outcome, r, changed
<1>8. CASE /\ r = q
           /\ ~(q.doorToOpen \in changed /\ q.state = "Opening" /\ DoorState(q) = "open")
           /\ ~(q.doorToOpen \in changed /\ q.state = "Open" /\ DoorState(q) = "closed")
  <2>1. b.state = "Opening" /\ DoorState(q) = "open" => DoorState(b) = "open"
    BY <1>3, <1>4, <1>8
  <2>2. ASSUME b.state = "Open", DoorState(b) \in {"open", "mixed"}
        PROVE  DoorState(q) \in {"open", "mixed"}
    <3>1. CASE q.doorToOpen \notin changed
      BY <1>4, <2>2, <3>1
    <3>2. CASE q.doorToOpen \in changed
      <4>1. DoorState(q) # "closed"
        BY <1>3, <1>8, <2>2, <3>2
      <4>2. ContactsOf(q.doorToOpen) # {}
        BY <1>3, <2>2, Reading DEF DoorState, SameDoor
      <4> QED
        BY <4>1, <4>2, Reading DEF DoorState
    <3> QED
      BY <3>1, <3>2
  <2>3. ContactsChange(b, r)
    BY <1>3, <1>8, <2>1, <2>2 DEF ContactsChange
  <2> QED
    BY <2>3 DEF Outcome, r, changed
<1> QED
  BY <1>5, <1>6, <1>7, <1>8

LEMMA RefusedOutcome ==
  ASSUME NEW b \in Box, NEW v \in Box, NEW scanned \in BOOLEAN,
         b.state \in {"Password", "Scan"}, v.state = b.state,
         v.lastState = b.lastState, v.uses = b.uses, v.ambient = b.ambient
  PROVE  GoesIdle(b, CodeRefused(v, scanned))
<1> DEFINE n == IF v.badCount < COUNT_MAX THEN v.badCount + 1 ELSE v.badCount
           q == [v EXCEPT !.retryScan = scanned, !.badCount = n]
<1>1. n \in 0 .. COUNT_MAX
  BY BoxAssumption DEF Box
<1>2. CodeRefused(v, scanned) = transitionTo(q, "BadPass")
  BY DEF CodeRefused
<1> HIDE DEF n
<1>3. q \in Box
  BY <1>1, Zenon DEF Box
<1>4. /\ q.state = v.state /\ q.lastState = v.lastState /\ q.uses = v.uses
      /\ q.ambient = v.ambient
  BY DEF Box
<1> HIDE DEF q
<1>5. "BadPass" \in IdleStates /\ b.state \in IdleStates
  BY DEF IdleStates
<1> QED
  BY <1>2, <1>3, <1>4, <1>5, IdleOutcome

LEMMA CodeOutcome ==
  ASSUME NEW b \in Box, NEW c \in Creds \union {NoCred}, NEW scanned \in BOOLEAN,
         b.state \in {"Password", "Scan"}, scanned /\ c # NoCred => c \in Packets,
         scanned => at = "scanner", ~scanned => at = "keys"
  PROVE  Outcome(b, CodeEntered(b, c, scanned))
<1> DEFINE v == verifyCred(b, c)
           g == [v EXCEPT !.credVerified = TRUE, !.badCount = 0,
                          !.scannedCredVerified = scanned]
           r == transitionTo(g, "Opening")
<1>1. v \in Box /\ v.state = b.state
  BY VerifyType DEF SameDelay
<1>2. /\ v.lastState = b.lastState /\ v.uses = b.uses /\ v.ambient = b.ambient
      /\ v.doorToOpen # NoDoor =>
           c \in Creds /\ v.verifiedCredId = c /\ v.doorToOpen = CredDoor[c]
  BY DEF verifyCred, Box
<1>3. CodeEntered(b, c, scanned) =
        IF v.doorToOpen # NoDoor THEN r ELSE CodeRefused(v, scanned)
  BY DEF CodeEntered
<1> HIDE DEF v
<1>4. CASE v.doorToOpen = NoDoor
  <2>1. GoesIdle(b, CodeRefused(v, scanned))
    BY <1>1, <1>2, RefusedOutcome
  <2> QED
    BY <1>3, <1>4, <2>1 DEF Outcome
<1>5. CASE v.doorToOpen # NoDoor
  <2>1. 0 \in 0 .. COUNT_MAX
    BY BoxAssumption
  <2>2. v \in Box
    BY <1>1
  <2>3. g \in Box
    BY <2>1, <2>2, Zenon DEF Box
  <2>4. /\ g.state = v.state /\ g.lastState = v.lastState /\ g.uses = v.uses
        /\ g.credVerified /\ g.scannedCredVerified = scanned
        /\ g.verifiedCredId = v.verifiedCredId /\ g.doorToOpen = v.doorToOpen
    BY <2>2 DEF Box
  <2> HIDE DEF g
  <2>5. /\ r.state = "Opening" /\ SameDoor(g, r)
        /\ r.lastState = g.lastState /\ OpeningLight(g, r)
    BY <1>1, <2>3, <2>4, EnterOpening
  <2> HIDE DEF r
  <2>6. /\ r.credVerified /\ r.scannedCredVerified = scanned
        /\ r.verifiedCredId = c /\ r.doorToOpen = CredDoor[c] /\ c \in Creds
        /\ r.uses = b.uses /\ r.lastState = b.lastState
    BY <1>2, <1>5, <2>4, <2>5 DEF SameDoor
  <2>7. c # NoCred
    BY <2>6, BoxAssumption
  <2>8. OpeningLight(b, r)
    BY <2>5 DEF OpeningLight
  <2>9. CASE scanned
    <3>1. CodeOpens(b, r)
      BY <2>5, <2>6, <2>7, <2>8, <2>9 DEF CodeOpens
    <3> QED
      BY <1>3, <1>5, <3>1 DEF Outcome
  <2>10. CASE ~scanned
    <3>1. CodeOpens(b, r)
      BY <2>5, <2>6, <2>7, <2>8, <2>10 DEF CodeOpens
    <3> QED
      BY <1>3, <1>5, <3>1 DEF Outcome
  <2> QED
    BY <2>9, <2>10
<1> QED
  BY <1>4, <1>5

LEMMA HomeKeyOutcome ==
  ASSUME NEW b \in Box, NEW key \in {"key1", "key2", "key3"},
         NEW started \in BOOLEAN, b.state = "Home", NEW p \in Nat, Serving(b, p)
  PROVE  Outcome(b, HomeKey(b, key, started))
<1>1. /\ {"BadPass", "Password", "Presence"} \subseteq IdleStates
      /\ b.state \in IdleStates
  BY DEF IdleStates
<1>2. ASSUME NEW retry \in BOOLEAN
      PROVE  GoesIdle(b, transitionTo([b EXCEPT !.retryScan = retry], "BadPass"))
  <2> DEFINE q == [b EXCEPT !.retryScan = retry]
  <2>1. /\ q \in Box /\ q.state = b.state /\ q.lastState = b.lastState
        /\ q.uses = b.uses /\ q.ambient = b.ambient
    BY DEF Box
  <2> HIDE DEF q
  <2> QED
    BY <1>1, <2>1, IdleOutcome DEF q
<1>3. /\ GoesIdle(b, transitionTo(b, "Password"))
      /\ GoesIdle(b, transitionTo(b, "Presence"))
  BY <1>1, IdleOutcome
<1>4. ~Penalized(b) => GoesIdle(b, ToScan(b, started))
  <2>1. Serving(b, 0)
    BY DEF Serving
  <2> QED
    BY <1>1, <2>1, ScanOutcome
<1>5. \/ HomeKey(b, key, started) = transitionTo([b EXCEPT !.retryScan = FALSE], "BadPass")
      \/ HomeKey(b, key, started) = transitionTo([b EXCEPT !.retryScan = TRUE], "BadPass")
      \/ HomeKey(b, key, started) = transitionTo(b, "Password")
      \/ HomeKey(b, key, started) = transitionTo(b, "Presence")
      \/ ~Penalized(b) /\ HomeKey(b, key, started) = ToScan(b, started)
  <2>1. CASE key = "key1"
    BY <2>1, Zenon DEF HomeKey
  <2>2. CASE key = "key2"
    BY <2>2, Zenon DEF HomeKey
  <2>3. CASE key = "key3"
    BY <2>3, Zenon DEF HomeKey
  <2> QED
    BY <2>1, <2>2, <2>3
<1>6. TRUE \in BOOLEAN /\ FALSE \in BOOLEAN
  OBVIOUS
<1> QED
  BY <1>2, <1>3, <1>4, <1>5, <1>6 DEF Outcome

LEMMA RefreshedDoor ==
  ASSUME NEW b \in Box
  PROVE  /\ Refreshed(b).state = b.state /\ SameDoor(b, Refreshed(b))
         /\ SameLight(b, Refreshed(b)) /\ Refreshed(b).lastState = b.lastState
         /\ Refreshed(b).age = b.age
  BY DEF Refreshed, Box, SameDoor, SameLight

LEMMA TimeoutOutcome ==
  ASSUME NEW b \in Box, NEW started \in BOOLEAN, at = "update",
         NEW p \in Nat, Serving(b, p)
  PROVE  Outcome(b, StateTimeout(Refreshed(b), started))
<1> DEFINE q == Refreshed(b)
           r == StateTimeout(q, started)
<1>1. /\ q \in Box /\ q.state = b.state /\ SameDoor(b, q) /\ SameDoor(q, b)
      /\ SameLight(b, q) /\ SameLight(q, b)
      /\ q.lastState = b.lastState /\ q.age = b.age /\ Serving(q, p)
  <2>1. q \in Box /\ q.state = b.state /\ Serving(q, p)
    BY RefreshedServing
  <2>2. /\ SameDoor(b, q) /\ SameLight(b, q) /\ q.lastState = b.lastState
        /\ q.age = b.age
    BY RefreshedDoor
  <2> HIDE DEF q
  <2>3. SameDoor(q, b) /\ SameLight(q, b)
    BY <2>2 DEF SameDoor, SameLight
  <2> QED
    BY <2>1, <2>2, <2>3
<1> HIDE DEF q
<1>2. DoorState(q) = DoorState(b)
  <2>1. q.doorToOpen = b.doorToOpen
    BY <1>1 DEF SameDoor
  <2> QED
    BY <1>1, <2>1, SameReading DEF DoorState
<1>3. q.uses = b.uses /\ q.ambient = b.ambient /\ q.openFor = b.openFor
  BY <1>1 DEF SameDoor, SameLight
<1>4. {"Home", "Password", "Scan", "BadPass"} \subseteq IdleStates
  BY DEF IdleStates
<1>5. \/ /\ q.state \in {"Password", "Scan", "Presence", "Closed"}
         /\ r = transitionTo(q, "Home")
      \/ /\ q.state = "BadPass" /\ q.badAge >= q.badFor
         /\ r = IF q.retryScan THEN ToScan(q, started) ELSE transitionTo(q, "Password")
      \/ /\ q.state = "Opening" /\ DoorState(q) = "open"
         /\ r = transitionTo(q, "Open")
      \/ /\ q.state = "Opening" /\ DoorState(q) # "open"
         /\ r = transitionTo(q, "Home")
      \/ /\ r = q
         /\ q.state = "Opening" => DoorState(q) # "open" /\ ~(q.age >= q.openFor)
  BY Zenon DEF StateTimeout, DoorState
<1>6. CASE q.state \in {"Password", "Scan", "Presence", "Closed"} /\ r = transitionTo(q, "Home")
  <2>1. GoesIdle(b, transitionTo(q, "Home"))
    BY <1>1, <1>3, <1>4, <1>6, IdleOutcome
  <2> QED
    BY <1>6, <2>1 DEF Outcome, q
<1>7. CASE /\ q.state = "BadPass" /\ q.badAge >= q.badFor
           /\ r = IF q.retryScan THEN ToScan(q, started) ELSE transitionTo(q, "Password")
  <2>1. GoesIdle(b, transitionTo(q, "Password"))
    BY <1>1, <1>3, <1>4, <1>7, IdleOutcome
  <2>2. ~Penalized(q) /\ Serving(q, 0)
    BY <1>1, <1>7 DEF Penalized, Box, Serving
  <2>3. GoesIdle(b, ToScan(q, started))
    BY <1>1, <1>3, <1>4, <1>7, <2>2, ScanOutcome
  <2> QED
    BY <1>7, <2>1, <2>3 DEF Outcome, q
<1>8. CASE q.state = "Opening" /\ DoorState(q) = "open" /\ r = transitionTo(q, "Open")
  <2>1. b.state = "Opening" /\ at \in {"doors", "update"}
    BY <1>1, <1>8
  <2>2. DoorOpens(b, transitionTo(q, "Open"))
    BY <1>1, <1>8, <2>1, EnterOpen
  <2> QED
    BY <1>8, <2>2 DEF Outcome, q
<1>9. CASE q.state = "Opening" /\ DoorState(q) # "open" /\ r = transitionTo(q, "Home")
  <2>1. GoesIdle(b, transitionTo(q, "Home"))
    BY <1>1, <1>2, <1>3, <1>4, <1>9, IdleOutcome
  <2> QED
    BY <1>9, <2>1 DEF Outcome, q
<1>10. CASE /\ r = q
            /\ q.state = "Opening" => DoorState(q) # "open" /\ ~(q.age >= q.openFor)
  <2>1. Rests(b, q)
    BY <1>1, <1>2, <1>3, <1>10 DEF Rests
  <2> QED
    BY <1>10, <2>1 DEF Outcome, q
<1> QED
  BY <1>5, <1>6, <1>7, <1>8, <1>9, <1>10

\* What Observe() makes of the credential the lock pulse was for.
PulsedAfter(b, r) ==
  IF r.state = "Opening" /\ b.state = "Opening" THEN pulsedBy
  ELSE IF r.state = "Opening" /\ r.credVerified THEN r.verifiedCredId
  ELSE NoCred

\* Every handler of loop() has one of the outcomes.
LEMMA LoopOutcome ==
  ASSUME PenaltyInv, LoopStep
  PROVE  /\ Outcome(box, box')
         /\ \/ box' = box /\ pulsedBy' = pulsedBy
            \/ pulsedBy' = PulsedAfter(box, box')
         /\ \E h \in Handlers : at = h /\ at' = After[h]
<1>1. /\ box \in Box /\ penalty \in Nat /\ Serving(box, penalty)
      /\ contact \subseteq Contacts /\ queue \in Seq(Requestable)
  BY DEF PenaltyInv, TypeOK
<1>2. ASSUME NEW r, Observe(r)
      PROVE  box' = r /\ pulsedBy' = PulsedAfter(box, box')
  BY <1>2 DEF Observe, PulsedAfter
<1>3. ASSUME NEW h, Handler(h)
      PROVE  at = h /\ at' = After[h]
  BY <1>3 DEF Handler
<1>4. ASSUME at # "update", NEW r, r.state = box.state, SameDoor(box, r),
             SameLight(box, r), r.lastState = box.lastState
      PROVE  Outcome(box, r)
  BY <1>4 DEF Outcome, Rests
<1>5. SameDoor(box, box) /\ SameLight(box, box)
  BY DEF SameDoor, SameLight
<1>6. /\ "Home" \in IdleStates
      /\ {"Password", "BadPass", "Presence", "Scan"} \subseteq IdleStates
  BY DEF IdleStates
<1>7. CASE noRequest
  <2>1. at = "web" /\ at' = After["web"] /\ box' = box /\ pulsedBy' = pulsedBy
    BY <1>3, <1>7 DEF noRequest
  <2> QED
    BY <1>4, <1>5, <2>1, AllHandlers
<1>8. CASE takeRequest
  <2>1. Head(queue) \in Requestable /\ queue # <<>>
    BY <1>1, <1>8 DEF takeRequest
  <2>2. /\ at = "web" /\ at' = After["web"]
        /\ box' = handleWebEvent(box, Head(queue)) /\ pulsedBy' = PulsedAfter(box, box')
    BY <1>2, <1>3, <1>8 DEF takeRequest
  <2>3. WebOpens(box, box')
    BY <1>1, <2>1, <2>2, WebOutcome
  <2> QED
    BY <2>2, <2>3, AllHandlers DEF Outcome
<1>9. ASSUME NEW stable \in SUBSET Contacts, updateDoorStates(stable)
      PROVE  /\ Outcome(box, box') /\ pulsedBy' = PulsedAfter(box, box')
             /\ at = "doors" /\ at' = After["doors"]
  <2> DEFINE q == [box EXCEPT !.lastState = (box.lastState \ stable)
                                            \union (contact \intersect stable)]
  <2>1. /\ at = "doors" /\ at' = After["doors"]
        /\ box' = handleSensorEvent(q, {DoorOf[c] : c \in stable})
        /\ pulsedBy' = PulsedAfter(box, box')
    BY <1>2, <1>3, <1>9 DEF updateDoorStates
  <2>2. PICK z : z = q
    OBVIOUS
  <2>3. Outcome(box, handleSensorEvent(z, {DoorOf[c] : c \in stable}))
    BY <1>1, <2>1, <2>2, SensorOutcome
  <2> HIDE DEF q
  <2> QED
    BY <2>1, <2>2, <2>3
<1>10. CASE updateTimers
  <2> DEFINE due == {i \in Slots : box.timers[i] # Free /\ box.timers[i].age >= DOOR_DELAY}
             on == box.lock \ {box.timers[i].door : i \in due}
             ts == [i \in Slots |-> IF i \in due THEN Free ELSE box.timers[i]]
             q == [box EXCEPT !.lock = on, !.timers = ts]
  <2>1. /\ at = "timers" /\ at' = After["timers"] /\ box' = q
        /\ pulsedBy' = PulsedAfter(box, box')
    BY <1>2, <1>3, <1>10 DEF updateTimers
  <2> HIDE DEF on, ts
  <2>2. /\ q.state = box.state /\ SameDoor(box, q) /\ SameLight(box, q)
        /\ q.lastState = box.lastState
    BY <1>1 DEF Box, SameDoor, SameLight
  <2> HIDE DEF q
  <2> QED
    BY <1>4, <2>1, <2>2, AllHandlers
<1>11. CASE noKey
  <2>1. at = "keys" /\ at' = After["keys"] /\ box' = box /\ pulsedBy' = pulsedBy
    BY <1>3, <1>11 DEF noKey
  <2> QED
    BY <1>4, <1>5, <2>1, AllHandlers
<1>12. CASE cancelKey
  <2>1. /\ at = "keys" /\ at' = After["keys"] /\ box' = transitionTo(box, "Home")
        /\ pulsedBy' = PulsedAfter(box, box')
    BY <1>2, <1>3, <1>12 DEF cancelKey
  <2>2. GoesIdle(box, transitionTo(box, "Home"))
    BY <1>1, <1>6, <1>12, IdleOutcome DEF cancelKey
  <2> QED
    BY <2>1, <2>2, AllHandlers DEF Outcome
<1>13. ASSUME NEW key \in {"key1", "key2", "key3"}, NEW started \in BOOLEAN,
              homeKey(key, started)
       PROVE  /\ Outcome(box, box') /\ pulsedBy' = PulsedAfter(box, box')
              /\ at = "keys" /\ at' = After["keys"]
  <2>1. /\ at = "keys" /\ at' = After["keys"] /\ box' = HomeKey(box, key, started)
        /\ pulsedBy' = PulsedAfter(box, box')
    BY <1>2, <1>3, <1>13 DEF homeKey
  <2>2. Outcome(box, HomeKey(box, key, started))
    BY <1>1, <1>13, HomeKeyOutcome DEF homeKey
  <2> QED
    BY <2>1, <2>2
<1>14. ASSUME NEW c \in (Creds \ Packets) \union {NoCred}, enterCode(c)
       PROVE  /\ Outcome(box, box') /\ pulsedBy' = PulsedAfter(box, box')
              /\ at = "keys" /\ at' = After["keys"]
  <2>1. /\ at = "keys" /\ at' = After["keys"] /\ box' = CodeEntered(box, c, FALSE)
        /\ pulsedBy' = PulsedAfter(box, box') /\ box.state = "Password"
    BY <1>2, <1>3, <1>14 DEF enterCode
  <2>2. Outcome(box, CodeEntered(box, c, FALSE))
    BY <1>1, <2>1, CodeOutcome
  <2> QED
    BY <2>1, <2>2
<1>15. ASSUME NEW started \in BOOLEAN, update(started)
       PROVE  /\ Outcome(box, box') /\ pulsedBy' = PulsedAfter(box, box')
              /\ at = "update" /\ at' = After["update"]
  <2>1. /\ at = "update" /\ at' = After["update"]
        /\ box' = StateTimeout(Refreshed(box), started)
        /\ pulsedBy' = PulsedAfter(box, box')
    BY <1>2, <1>3, <1>15 DEF update
  <2>2. Outcome(box, StateTimeout(Refreshed(box), started))
    BY <1>1, <2>1, TimeoutOutcome
  <2> QED
    BY <2>1, <2>2
<1>16. CASE noScan
  <2> DEFINE r == IF box.state = "Scan" /\ box.age >= SCAN_TIMEOUT
                    THEN transitionTo(box, "Home") ELSE box
  <2>1. /\ at = "scanner" /\ at' = After["scanner"] /\ box' = r
        /\ pulsedBy' = PulsedAfter(box, box')
    BY <1>2, <1>3, <1>16 DEF noScan
  <2>2. CASE box.state = "Scan" /\ box.age >= SCAN_TIMEOUT
    <3>1. GoesIdle(box, transitionTo(box, "Home"))
      BY <1>1, <1>6, <2>2, IdleOutcome
    <3> QED
      BY <2>1, <2>2, <3>1, AllHandlers DEF Outcome
  <2>3. CASE ~(box.state = "Scan" /\ box.age >= SCAN_TIMEOUT)
    BY <1>4, <1>5, <2>1, <2>3, AllHandlers
  <2> QED
    BY <2>2, <2>3
<1>17. CASE scannedGarbage
  <2> DEFINE v == [box EXCEPT !.doorToOpen = NoDoor]
  <2>1. /\ at = "scanner" /\ at' = After["scanner"] /\ box' = CodeRefused(v, TRUE)
        /\ pulsedBy' = PulsedAfter(box, box') /\ box.state = "Scan"
    BY <1>2, <1>3, <1>17 DEF scannedGarbage
  <2>2. /\ v \in Box /\ v.state = box.state /\ v.lastState = box.lastState
        /\ v.uses = box.uses /\ v.ambient = box.ambient
    BY <1>1 DEF Box
  <2> HIDE DEF v
  <2>3. GoesIdle(box, CodeRefused(v, TRUE))
    BY <1>1, <2>1, <2>2, RefusedOutcome
  <2> QED
    BY <2>1, <2>3, AllHandlers DEF Outcome
<1>18. ASSUME NEW c \in Packets \union {NoCred}, scannedCode(c)
       PROVE  /\ Outcome(box, box') /\ pulsedBy' = PulsedAfter(box, box')
              /\ at = "scanner" /\ at' = After["scanner"]
  <2>1. /\ at = "scanner" /\ at' = After["scanner"] /\ box' = CodeEntered(box, c, TRUE)
        /\ pulsedBy' = PulsedAfter(box, box') /\ box.state = "Scan"
    BY <1>2, <1>3, <1>18 DEF scannedCode
  <2>2. c \in Creds \union {NoCred}
    BY BoxAssumption
  <2>3. Outcome(box, CodeEntered(box, c, TRUE))
    BY <1>1, <2>1, <2>2, CodeOutcome
  <2> QED
    BY <2>1, <2>3
<1> QED
  BY <1>7, <1>8, <1>9, <1>10, <1>11, <1>12, <1>13, <1>14, <1>15, <1>16, <1>17, <1>18,
     AllHandlers DEF LoopStep

-----------------------------------------------------------------------------
(* The door that Open waits for, and the credential that is charged for it. *)

\* While a verified credential's door is being opened, that credential is the
\* one the lock pulse was for.
PulseOwned ==
  box.state = "Opening" /\ box.credVerified => pulsedBy = box.verifiedCredId

DoorInv == PenaltyInv /\ OpenTracksDoor /\ PulseOwned

\* Without web requests, the credential of the pulse is the verified one, its
\* door is the one being opened, and a scanned one is a packet number.
PulseExact ==
  /\ queue = <<>> /\ requests = 0
  /\ pulsedBy # NoCred =>
       /\ box.state = "Opening" /\ box.credVerified
       /\ box.verifiedCredId = pulsedBy /\ box.doorToOpen = CredDoor[pulsedBy]
       /\ box.scannedCredVerified => pulsedBy \in Packets

\* What is outside of loop(), and time, leave alone what the door is about.
LEMMA OtherSteps ==
  ASSUME PenaltyInv, Outside \/ Tick \/ UNCHANGED vars
  PROVE  /\ box'.state = box.state /\ box'.lastState = box.lastState
         /\ box'.doorToOpen = box.doorToOpen /\ box'.credVerified = box.credVerified
         /\ box'.scannedCredVerified = box.scannedCredVerified
         /\ box'.verifiedCredId = box.verifiedCredId /\ SameLight(box, box')
         /\ UNCHANGED <<at, pulsedBy>>
         /\ RequestsPerTick = 0 /\ requests = 0 => requests' = 0 /\ UNCHANGED queue
<1>1. box \in Box
  BY DEF PenaltyInv, TypeOK
<1>2. CASE Outside
  <2>1. ASSUME NEW d \in Requestable, handleOpenBox(d)
        PROVE  /\ UNCHANGED <<box, at, pulsedBy>>
               /\ ~(RequestsPerTick = 0 /\ requests = 0)
    BY <2>1 DEF handleOpenBox
  <2>2. ASSUME NEW c \in Creds, revokeCred(c)
        PROVE  /\ box' = [box EXCEPT !.uses[c] = 0]
               /\ UNCHANGED <<at, pulsedBy, queue, requests>>
    BY <2>2 DEF revokeCred
  <2>3. ASSUME NEW c \in Contacts, moveDoor(c)
        PROVE  UNCHANGED <<box, at, pulsedBy, queue, requests>>
    BY <2>3 DEF moveDoor
  <2>4. ASSUME NEW c, NEW r, r = [box EXCEPT !.uses[c] = 0]
        PROVE  /\ r.state = box.state /\ r.lastState = box.lastState
               /\ r.doorToOpen = box.doorToOpen /\ r.credVerified = box.credVerified
               /\ r.scannedCredVerified = box.scannedCredVerified
               /\ r.verifiedCredId = box.verifiedCredId /\ SameLight(box, r)
    BY <1>1, <2>4 DEF Box, SameLight
  <2>5. CASE \E c \in Creds : revokeCred(c)
    <3>1. PICK c \in Creds : revokeCred(c)
      BY <2>5
    <3>2. /\ box' = [box EXCEPT !.uses[c] = 0]
          /\ UNCHANGED <<at, pulsedBy, queue, requests>>
      BY <2>2, <3>1
    <3> QED
      BY <2>4, <3>2
  <2>6. CASE UNCHANGED <<box, at, pulsedBy>> /\
             (RequestsPerTick = 0 /\ requests = 0 => UNCHANGED <<queue, requests>>)
    BY <2>6 DEF SameLight
  <2> QED
    BY <1>2, <2>1, <2>3, <2>5, <2>6 DEF Outside
<1>3. CASE Tick
  <2> DEFINE a == Aged(box.age, Timed[box.state])
             f == Aged(box.badAge, box.badFor)
             g == IF box.presenceActive THEN Aged(box.presenceAge, PRESENCE_CODE_VALIDITY)
                                        ELSE box.presenceAge
             ts == [i \in Slots |-> AgedTimer(box.timers[i])]
             r == [box EXCEPT !.age = a, !.badAge = f, !.presenceAge = g, !.timers = ts]
  <2>1. box' = r /\ requests' = 0 /\ UNCHANGED <<at, pulsedBy, queue>>
    BY <1>3 DEF Tick
  <2> HIDE DEF a, f, g, ts
  <2>2. /\ r.state = box.state /\ r.lastState = box.lastState
        /\ r.doorToOpen = box.doorToOpen /\ r.credVerified = box.credVerified
        /\ r.scannedCredVerified = box.scannedCredVerified
        /\ r.verifiedCredId = box.verifiedCredId /\ SameLight(box, r)
    BY <1>1 DEF Box, SameLight
  <2> HIDE DEF r
  <2> QED
    BY <2>1, <2>2
<1>4. CASE UNCHANGED vars
  BY <1>4 DEF vars, SameLight
<1> QED
  BY <1>2, <1>3, <1>4

LEMMA TracksStep ==
  ASSUME PenaltyInv, OpenTracksDoor, Outcome(box, box')
  PROVE  OpenTracksDoor'
<1> USE DEF OpenTracksDoor, DoorState, SameDoor
<1>1. CASE Rests(box, box')
  BY <1>1, SameReading DEF Rests
<1>2. CASE ContactsChange(box, box')
  BY <1>2 DEF ContactsChange
<1>3. CASE GoesIdle(box, box')
  BY <1>3 DEF GoesIdle, IdleStates
<1>4. CASE CodeOpens(box, box')
  BY <1>4 DEF CodeOpens
<1>5. CASE WebOpens(box, box')
  BY <1>5 DEF WebOpens
<1>6. CASE DoorOpens(box, box')
  BY <1>6 DEF DoorOpens
<1>7. CASE DoorCloses(box, box')
  BY <1>7 DEF DoorCloses
<1> QED
  BY <1>1, <1>2, <1>3, <1>4, <1>5, <1>6, <1>7 DEF Outcome

\* Only a pulse for a credential is owned by one.
LEMMA OwnedStep ==
  ASSUME PulseOwned, Outcome(box, box'),
         (box' = box /\ pulsedBy' = pulsedBy) \/ pulsedBy' = PulsedAfter(box, box')
  PROVE  PulseOwned'
<1> SUFFICES ASSUME box'.state = "Opening", box'.credVerified,
                    pulsedBy' = PulsedAfter(box, box')
             PROVE  pulsedBy' = box'.verifiedCredId
  BY DEF PulseOwned
<1>1. CASE box.state # "Opening"
  BY <1>1 DEF PulsedAfter
<1>2. CASE box.state = "Opening"
  <2>1. SameDoor(box, box')
    BY <1>2 DEF Outcome, Rests, ContactsChange, GoesIdle, IdleStates, CodeOpens,
                WebOpens, DoorOpens, DoorCloses
  <2> QED
    BY <1>2, <2>1 DEF SameDoor, PulsedAfter, PulseOwned
<1> QED
  BY <1>1, <1>2

LEMMA DoorInvStep == DoorInv /\ [Next]_vars => DoorInv'
<1> SUFFICES ASSUME DoorInv, [Next]_vars
             PROVE  DoorInv'
  OBVIOUS
<1>1. PenaltyInv'
  BY NextInv DEF DoorInv
<1>2. CASE LoopStep
  <2>1. /\ Outcome(box, box')
        /\ \/ box' = box /\ pulsedBy' = pulsedBy
           \/ pulsedBy' = PulsedAfter(box, box')
    BY <1>2, LoopOutcome DEF DoorInv
  <2> QED
    BY <1>1, <2>1, TracksStep, OwnedStep DEF DoorInv
<1>3. CASE Outside \/ Tick \/ UNCHANGED vars
  <2>1. /\ box'.state = box.state /\ box'.lastState = box.lastState
        /\ box'.doorToOpen = box.doorToOpen /\ box'.credVerified = box.credVerified
        /\ box'.verifiedCredId = box.verifiedCredId /\ pulsedBy' = pulsedBy
    BY <1>3, OtherSteps DEF DoorInv
  <2>2. readDoorState(box', box'.doorToOpen) = readDoorState(box, box.doorToOpen)
    BY <2>1, SameReading
  <2> QED
    BY <1>1, <2>1, <2>2 DEF DoorInv, OpenTracksDoor, PulseOwned
<1> QED
  BY <1>2, <1>3 DEF Next

LEMMA DoorInvInit == Init => DoorInv
<1>1. Init => box.state = "Home"
  BY DEF Init
<1> QED
  BY <1>1, InitInv DEF DoorInv, OpenTracksDoor, PulseOwned

\* A handler charges a credential only when the door of its pulse opened.
LEMMA ChargeStep ==
  ASSUME DoorInv, [Next]_vars, at' # at, NEW c \in Creds, box'.uses[c] < box.uses[c]
  PROVE  pulsedBy = c /\ readDoorState(box', CredDoor[c]) = "open"
<1>1. LoopStep
  <2>1. CASE Outside \/ Tick \/ UNCHANGED vars
    BY <2>1, OtherSteps DEF DoorInv
  <2> QED
    BY <2>1 DEF Next
<1>2. Outcome(box, box')
  BY <1>1, LoopOutcome DEF DoorInv
<1>3. box.uses \in [Creds -> Int]
  BY DEF DoorInv, PenaltyInv, TypeOK, Box
<1>4. box'.uses # box.uses
  BY <1>3
<1>5. DoorOpens(box, box')
  BY <1>2, <1>4 DEF Outcome, Rests, ContactsChange, SameDoor, GoesIdle, CodeOpens,
     WebOpens, DoorCloses
<1> DEFINE v == box.verifiedCredId
<1>6. /\ box.state = "Opening" /\ DoorState(box') = "open"
      /\ box'.doorToOpen = box.doorToOpen
      /\ box.credVerified /\ CredDoor[v] = box.doorToOpen
      /\ box'.uses = [box.uses EXCEPT ![v] = @ - 1]
  BY <1>4, <1>5 DEF DoorOpens
<1>7. v = c
  BY <1>3, <1>6
<1>8. pulsedBy = c
  BY <1>6, <1>7 DEF DoorInv, PulseOwned
<1> QED
  BY <1>6, <1>7, <1>8 DEF DoorState

-----------------------------------------------------------------------------
(* Without web requests the use of a credential is never free either.      *)

LEMMA ExactStep ==
  ASSUME WebUnused, DoorInv, PulseExact, [Next]_vars
  PROVE  PulseExact'
<1>1. CASE LoopStep
  <2>1. /\ Outcome(box, box')
        /\ \/ box' = box /\ pulsedBy' = pulsedBy
           \/ pulsedBy' = PulsedAfter(box, box')
    BY <1>1, LoopOutcome DEF DoorInv
  <2>2. queue' = <<>> /\ requests' = 0
    BY <1>1 DEF PulseExact, LoopStep, Handler, noRequest, takeRequest,
       updateDoorStates, updateTimers, noKey, cancelKey, homeKey, enterCode, update,
       noScan, scannedGarbage, scannedCode
  <2>3. SUFFICES ASSUME pulsedBy' # NoCred
                 PROVE  /\ box'.state = "Opening" /\ box'.credVerified
                        /\ box'.verifiedCredId = pulsedBy'
                        /\ box'.doorToOpen = CredDoor[pulsedBy']
                        /\ box'.scannedCredVerified => pulsedBy' \in Packets
    BY <2>2 DEF PulseExact
  <2>4. CASE box' = box /\ pulsedBy' = pulsedBy
    BY <2>3, <2>4 DEF PulseExact
  <2>5. CASE pulsedBy' = PulsedAfter(box, box')
    <3>1. box'.state = "Opening"
      BY <2>3, <2>5 DEF PulsedAfter
    <3>2. CASE box.state = "Opening"
      <4>1. pulsedBy' = pulsedBy
        BY <2>5, <3>1, <3>2 DEF PulsedAfter
      <4>2. SameDoor(box, box')
        BY <2>1, <3>1, <3>2 DEF Outcome, Rests, ContactsChange, GoesIdle, IdleStates,
           CodeOpens, WebOpens, PulseExact, DoorOpens, DoorCloses
      <4> QED
        BY <2>3, <3>1, <4>1, <4>2 DEF PulseExact, SameDoor
    <3>3. CASE box.state # "Opening"
      <4>1. pulsedBy' = box'.verifiedCredId
        BY <2>3, <2>5, <3>1, <3>3 DEF PulsedAfter
      <4>2. CodeOpens(box, box')
        BY <2>1, <3>1, <3>3 DEF Outcome, Rests, ContactsChange, GoesIdle, IdleStates,
           WebOpens, PulseExact, DoorOpens, DoorCloses
      <4> QED
        BY <3>1, <4>1, <4>2 DEF CodeOpens
    <3> QED
      BY <3>2, <3>3
  <2> QED
    BY <2>1, <2>4, <2>5
<1>2. CASE Outside \/ Tick \/ UNCHANGED vars
  <2>1. /\ box'.state = box.state /\ box'.credVerified = box.credVerified
        /\ box'.doorToOpen = box.doorToOpen
        /\ box'.scannedCredVerified = box.scannedCredVerified
        /\ box'.verifiedCredId = box.verifiedCredId /\ pulsedBy' = pulsedBy
        /\ requests' = 0 /\ queue' = queue
    BY <1>2, OtherSteps DEF DoorInv, WebUnused, PulseExact
  <2> QED
    BY <2>1 DEF PulseExact
<1> QED
  BY <1>1, <1>2 DEF Next

\* The step that finds the door of the pulse open counts the credential down.
LEMMA FreeStep ==
  ASSUME DoorInv, PulseExact, [Next]_vars, at' # at,
         NEW c \in Creds, KeepScanned => c \notin Packets,
         pulsedBy = c, box.uses[c] > 0, readDoorState(box', CredDoor[c]) = "open",
         readDoorState(box, CredDoor[c]) # "open" \/ at = "update"
  PROVE  box'.uses[c] = box.uses[c] - 1
<1>1. LoopStep
  <2>1. CASE Outside \/ Tick \/ UNCHANGED vars
    BY <2>1, OtherSteps DEF DoorInv
  <2> QED
    BY <2>1 DEF Next
<1>2. Outcome(box, box')
  BY <1>1, LoopOutcome DEF DoorInv
<1>3. c # NoCred
  BY BoxAssumption
<1>4. /\ box.state = "Opening" /\ box.credVerified /\ box.verifiedCredId = c
      /\ box.doorToOpen = CredDoor[c]
      /\ box.scannedCredVerified => c \in Packets
      /\ queue = <<>>
  BY <1>3 DEF PulseExact
<1>5. DoorState(box) = "open" => at = "update"
  BY <1>4 DEF DoorState
<1>6. box'.doorToOpen = box.doorToOpen => DoorState(box') = "open"
  BY <1>4 DEF DoorState
<1>7. box'.lastState = box.lastState => DoorState(box) = "open"
  BY <1>4, SameReading DEF DoorState
<1>8. DoorOpens(box, box')
  <2>1. ~Rests(box, box')
    BY <1>4, <1>5, <1>7 DEF Rests
  <2>2. ~ContactsChange(box, box')
    BY <1>4, <1>5, <1>6 DEF ContactsChange, SameDoor
  <2>3. ~GoesIdle(box, box')
    BY <1>4, <1>7 DEF GoesIdle
  <2>4. ~CodeOpens(box, box') /\ ~WebOpens(box, box') /\ ~DoorCloses(box, box')
    BY <1>4 DEF CodeOpens, WebOpens, DoorCloses
  <2> QED
    BY <1>2, <2>1, <2>2, <2>3, <2>4 DEF Outcome
<1>9. ~(KeepScanned /\ box.scannedCredVerified)
  BY <1>4
<1>10. box'.uses = [box.uses EXCEPT ![c] = @ - 1]
  BY <1>3, <1>4, <1>8, <1>9 DEF DoorOpens
<1>11. box.uses \in [Creds -> Int]
  BY DEF DoorInv, PenaltyInv, TypeOK, Box
<1> QED
  BY <1>3, <1>10, <1>11

-----------------------------------------------------------------------------
(* The light.                                                              *)

LEMMA LightStep ==
  ASSUME DoorInv, LightFollowsDoor, [Next]_vars
  PROVE  LightFollowsDoor'
<1>1. LightFollowsDoor
  OBVIOUS
<1>2. CASE LoopStep
  <2>1. Outcome(box, box')
    BY <1>2, LoopOutcome DEF DoorInv
  <2>2. CASE Rests(box, box') \/ ContactsChange(box, box')
    BY <1>1, <2>2 DEF Rests, ContactsChange, SameLight, LightFollowsDoor
  <2>3. CASE GoesIdle(box, box')
    BY <1>1, <2>3 DEF GoesIdle, IdleStates, LightFollowsDoor
  <2>4. CASE CodeOpens(box, box')
    BY <2>4 DEF CodeOpens, OpeningLight, LightFollowsDoor
  <2>5. CASE WebOpens(box, box')
    <3>1. CASE box.state = "Opening"
      BY <1>1, <2>5, <3>1 DEF WebOpens, SameLight, LightFollowsDoor
    <3>2. CASE box.state # "Opening"
      BY <2>5, <3>2 DEF WebOpens, OpeningLight, LightFollowsDoor
    <3> QED
      BY <3>1, <3>2
  <2>6. CASE DoorOpens(box, box')
    BY <1>1, <2>6 DEF DoorOpens, SameLight, LightFollowsDoor
  <2>7. CASE DoorCloses(box, box')
    BY <1>1, <2>7 DEF DoorCloses, SameLight, LightFollowsDoor
  <2> QED
    BY <2>1, <2>2, <2>3, <2>4, <2>5, <2>6, <2>7 DEF Outcome
<1>3. CASE Outside \/ Tick \/ UNCHANGED vars
  <2>1. box'.state = box.state /\ SameLight(box, box')
    BY <1>3, OtherSteps DEF DoorInv
  <2> QED
    BY <1>1, <2>1 DEF SameLight, LightFollowsDoor
<1> QED
  BY <1>2, <1>3 DEF Next

-----------------------------------------------------------------------------
(* The theorems.                                                           *)

\* What holds of the door, the pulse and the delay is kept by every step.
THEOREM DoorInductive == Spec => []DoorInv
  BY DoorInvInit, DoorInvStep, PTL DEF Spec

\* The box never waits in Open, which has no timeout, for a door that is known
\* to be closed: whichever contacts change together, and whatever request
\* replaces the door to open meanwhile.
THEOREM OpenCanEnd == Spec => []OpenTracksDoor
<1>1. DoorInv => OpenTracksDoor
  BY DEF DoorInv
<1> QED
  BY <1>1, DoorInductive, PTL

\* A handler counts a credential down only if the lock pulse was for it, and
\* its door is then open: a request from the web, a door opened by hand or a
\* second code are never charged to it.
THEOREM ChargedForItsDoor == Spec => ChargedForOpening
<1>1. DoorInv /\ [Next]_vars =>
        [\A c \in Creds :
           at' # at /\ box'.uses[c] < box.uses[c] =>
             pulsedBy = c /\ readDoorState(box', CredDoor[c]) = "open"]_vars
  BY ChargeStep
<1> QED
  BY <1>1, DoorInductive, PTL DEF Spec, ChargedForOpening

\* Where nobody opens doors from the web, a credential is charged exactly for
\* the opening of its door: the step that finds the door open uses it up.
THEOREM ChargedOnce == ASSUME WebUnused PROVE Spec => ChargedExactly
<1>1. Init => PulseExact
  BY DEF Init, PulseExact
<1>2. DoorInv /\ PulseExact /\ [Next]_vars => PulseExact'
  BY ExactStep
<1>3. DoorInv /\ PulseExact /\ [Next]_vars =>
        [\A c \in Creds \ (IF KeepScanned THEN Packets ELSE {}) :
           /\ pulsedBy = c /\ box.uses[c] > 0
           /\ readDoorState(box', CredDoor[c]) = "open"
           /\ readDoorState(box, CredDoor[c]) # "open" \/ at = "update"
           /\ at' # at
           => box'.uses[c] = box.uses[c] - 1]_vars
  <2>1. \A c \in Creds \ (IF KeepScanned THEN Packets ELSE {}) :
          c \in Creds /\ (KeepScanned => c \notin Packets)
    OBVIOUS
  <2> QED
    BY <2>1, FreeStep
<1>4. Spec => NoFreeOpening
  BY <1>1, <1>2, <1>3, DoorInductive, PTL DEF Spec, NoFreeOpening
<1> QED
  BY <1>4, ChargedForItsDoor, PTL DEF ChargedExactly

\* From the lock pulse until the door was closed for long enough or was not
\* opened in time the light is on, whatever requests come meanwhile, and it is on
\* in no other state.
THEOREM LightIsRight == Spec => []LightFollowsDoor
<1>1. Init => LightFollowsDoor
  BY DEF Init, LightFollowsDoor
<1>2. DoorInv /\ LightFollowsDoor /\ [Next]_vars => LightFollowsDoor'
  BY LightStep
<1> QED
  BY <1>1, <1>2, DoorInductive, PTL DEF Spec

=============================================================================
