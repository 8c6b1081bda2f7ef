-------------------------- MODULE BoxStateMachine ---------------------------
(***************************************************************************)
(* The controller of the box: BoxStateMachine (state_machine.cpp) with the *)
(* locks, contacts and light it drives (gpio_hal.cpp), the timers that end *)
(* a lock pulse (timer.cpp), and the part of main.cpp that feeds it.       *)
(*                                                                         *)
(* loop() calls the handlers in a fixed order, each of which runs to its   *)
(* end: one queued web request, the door contacts, the timers, the keypad, *)
(* the state machine's own timeouts, the scanner.  Only the AsyncTCP task  *)
(* interleaves with them: it queues requests to open a door and changes    *)
(* credentials.                                                            *)
(*                                                                         *)
(* Time advances by Tick, at any point of the loop.  A timestamp of the    *)
(* code is the number of ticks since it was taken, up to its timeout.      *)
(***************************************************************************)
EXTENDS Integers, Sequences

CONSTANTS
  Doors,            (* logical doors with a lock                            *)
  NoDoor,           (* DOOR_UNKNOWN                                         *)
  Unmapped,         (* a door number without a lock, as a client may send   *)
  Contacts,         (* door contacts                                        *)
  DoorOf,           (* the logical door of each contact                     *)
  Creds,            (* credentials in the store                             *)
  NoCred,           (* no credential                                        *)
  CredDoor,         (* the door a credential opens                          *)
  Packets,          (* the credentials that are scanned; the others are PINs *)
  InitUses,         (* uses a credential has left, -1 for no limit          *)
  KeepScanned,      (* scannerTestKeepCred: scanned ones are not used up    *)
  DoorsForced,      (* TRUE: doors also open without a lock pulse           *)
  KeyEvents,        (* keyboard events that occur                           *)
  RequestsPerTick,  (* bound of the model: web requests between two ticks   *)
  QUEUE_LENGTH,     (* of webOpenRequests: 4 in the code                    *)
  MAX_TIMERS,       (* 10 in the code                                       *)
  DOOR_DELAY, DOOR_OPENING_TIMEOUT, AMBIENT_TIMEOUT, PASS_ENTRY_TIMEOUT,
  SCAN_TIMEOUT, PRESENCE_CODE_VALIDITY, PASS_ERR_DELAY,   (* in ticks       *)
  PASS_ERR_MAXMULTIPLY,
  COUNT_MAX         (* UINT8_MAX                                            *)

States == {"Home", "Password", "Presence", "Opening", "Open", "Closed",
           "BadPass", "Scan"}
Requestable == Doors \union {Unmapped}
Slots == 1 .. MAX_TIMERS

ASSUME BoxAssumption ==
  /\ NoDoor \notin Requestable /\ Unmapped \notin Doors
  /\ DoorOf \in [Contacts -> Doors]
  /\ NoCred \notin Creds /\ Packets \subseteq Creds
  /\ CredDoor \in [Creds -> Requestable] /\ InitUses \in [Creds -> Int]
  /\ \A c \in Creds : InitUses[c] >= -1
  /\ KeepScanned \in BOOLEAN /\ DoorsForced \in BOOLEAN
  /\ RequestsPerTick \in Nat /\ QUEUE_LENGTH \in Nat /\ MAX_TIMERS \in Nat
  /\ \A n \in {DOOR_DELAY, DOOR_OPENING_TIMEOUT, AMBIENT_TIMEOUT,
               PASS_ENTRY_TIMEOUT, SCAN_TIMEOUT, PRESENCE_CODE_VALIDITY,
               PASS_ERR_DELAY, PASS_ERR_MAXMULTIPLY, COUNT_MAX} :
       n \in Nat \ {0}

VARIABLES
  box,      (* the context of the state machine, the outputs it drives, the *)
            (* pending timers and what it uses of the credential store      *)
  contact,  (* the contacts that are open                                   *)
  queue,    (* webOpenRequests                                              *)
  requests, (* web requests since the last tick                             *)
  at,       (* the handler loop() calls next                                *)
  pulsedBy, (* history: the credential the lock pulse of Opening was for    *)
  penalty   (* history: what is left of the delay for the last bad code     *)

vars == <<box, contact, queue, requests, at, pulsedBy, penalty>>

\* The order in which loop() calls the handlers.
After == [web |-> "doors", doors |-> "timers", timers |-> "keys",
          keys |-> "update", update |-> "scanner", scanner |-> "web"]
Handlers == DOMAIN After

Timers == [door : Doors, age : 0 .. DOOR_DELAY]
Free == [door |-> NoDoor, age |-> 0]

\* The context of the state machine with the time since each of its
\* timestamps, the outputs, the timers, the debounced contacts, and the
\* credentials' uses.
Box ==
  [state : States, doorToOpen : Requestable \union {NoDoor},
   credVerified : BOOLEAN, scannedCredVerified : BOOLEAN, retryScan : BOOLEAN,
   badCount : 0 .. COUNT_MAX, badActive : BOOLEAN, badFor : Nat, badAge : Nat,
   presenceActive : BOOLEAN, presenceAge : Nat, age : Nat, openFor : Nat,
   external : BOOLEAN, ambient : BOOLEAN, lock : SUBSET Doors,
   timers : [Slots -> Timers \union {Free}], lastState : SUBSET Contacts,
   uses : [Creds -> Int], verifiedCredId : Creds \union {NoCred}]

TypeOK ==
  /\ box \in Box
  /\ contact \subseteq Contacts
  /\ queue \in Seq(Requestable) /\ Len(queue) <= QUEUE_LENGTH
  /\ requests \in 0 .. RequestsPerTick
  /\ at \in Handlers
  /\ pulsedBy \in Creds \union {NoCred}
  /\ penalty \in Nat

-----------------------------------------------------------------------------
(***************************************************************************)
(* Locks, contacts and timers.  b is the value of box a handler works on.  *)
(***************************************************************************)

\* readDoorState(): from the debounced contacts of a logical door.
readDoorState(b, d) ==
  LET cs == {c \in Contacts : DoorOf[c] = d}
  IN  CASE cs = {}                -> "unknown"
        [] cs # {} /\ cs \subseteq b.lastState        -> "open"
        [] cs # {} /\ cs \intersect b.lastState = {}  -> "closed"
        [] OTHER                                      -> "mixed"

\* Mutant: the first slot, free or not.
scheduleFirst(b, d) == [b EXCEPT !.timers[1] = [door |-> d, age |-> 0]]

\* scheduleOnce(): the first free slot; with none free nothing is scheduled.
scheduleOnce(b, d) ==
  LET free == {i \in Slots : b.timers[i] = Free}
      slot == CHOOSE i \in free : \A j \in free : i <= j
  IN  IF free = {} THEN b
      ELSE [b EXCEPT !.timers[slot] = [door |-> d, age |-> 0]]

\* openDoor(): energize the lock and schedule the end of the pulse, without
\* looking at whether that succeeded.
openDoor(b, d) == scheduleOnce([b EXCEPT !.lock = @ \union {d}], d)

-----------------------------------------------------------------------------
(***************************************************************************)
(* The credentials: verifyCred() remembers the one it found, usedCred()    *)
(* counts that one down.                                                   *)
(***************************************************************************)

\* The credential entered, NoCred if it matches none that is valid.
verifyCred(b, c) ==
  IF c # NoCred /\ b.uses[c] # 0
    THEN [b EXCEPT !.verifiedCredId = c, !.doorToOpen = CredDoor[c]]
    ELSE [b EXCEPT !.verifiedCredId = NoCred, !.doorToOpen = NoDoor]

usedCred(b) ==
  LET c    == b.verifiedCredId
      left == [b.uses EXCEPT ![c] = @ - 1]
  IN  [b EXCEPT !.verifiedCredId = NoCred,
                !.uses = IF c # NoCred /\ CredDoor[c] = b.doorToOpen /\ @[c] > 0
                           THEN left ELSE @]

-----------------------------------------------------------------------------
(***************************************************************************)
(* Entering a state.  Only leaving Closed does anything but forget a       *)
(* timestamp: it turns the light off.                                      *)
(***************************************************************************)
\* Mutants: Home forgets to enable external control, or that a delay is
\* running.
homeLeavesExternal(b) ==
  [b EXCEPT !.ambient = FALSE, !.credVerified = FALSE,
            !.scannedCredVerified = FALSE]

homeForgetsDelay(b) ==
  [b EXCEPT !.ambient = FALSE, !.credVerified = FALSE,
            !.scannedCredVerified = FALSE, !.external = TRUE, !.badActive = FALSE]

onEnterHome(b) ==
  [b EXCEPT !.ambient = FALSE, !.credVerified = FALSE,
            !.scannedCredVerified = FALSE, !.external = TRUE]

onEnterPassword(b) ==
  [b EXCEPT !.external = FALSE, !.retryScan = FALSE, !.badActive = FALSE,
            !.badFor = 0]

onEnterScan(b) ==
  [b EXCEPT !.external = FALSE, !.credVerified = FALSE,
            !.scannedCredVerified = FALSE, !.badActive = FALSE, !.badFor = 0]

onEnterPresence(b) == [b EXCEPT !.presenceActive = TRUE, !.presenceAge = 0]

onEnterOpening(b) ==
  IF b.doorToOpen \in Doors
    THEN [openDoor(b, b.doorToOpen) EXCEPT !.external = FALSE,
            !.openFor = DOOR_OPENING_TIMEOUT, !.ambient = TRUE]
    ELSE [b EXCEPT !.external = FALSE, !.openFor = 0]

\* Mutants: scanned credentials are never used up; the last one verified is
\* used up whoever opened the door.
keepScanned(b) ==
  [(IF b.credVerified /\ ~b.scannedCredVerified THEN usedCred(b) ELSE b) EXCEPT
     !.credVerified = FALSE, !.scannedCredVerified = FALSE]

chargeLastVerified(b) ==
  [usedCred(b) EXCEPT !.credVerified = FALSE, !.scannedCredVerified = FALSE]

onEnterOpen(b) ==
  LET consume == b.credVerified /\ ~(KeepScanned /\ b.scannedCredVerified)
  IN  [(IF consume THEN usedCred(b) ELSE b) EXCEPT
         !.credVerified = FALSE, !.scannedCredVerified = FALSE]

onEnterClosed(b) == [b EXCEPT !.doorToOpen = NoDoor]

\* The delay grows with the number of bad codes, up to a maximum.
BadCodeDelay(n) ==
  PASS_ERR_DELAY * (IF n > PASS_ERR_MAXMULTIPLY THEN PASS_ERR_MAXMULTIPLY ELSE n)

\* A delay that is still running is not started again.
onEnterBadPass(b) ==
  IF ~b.badActive \/ b.badAge >= b.badFor
    THEN [b EXCEPT !.badFor = BadCodeDelay(b.badCount), !.badAge = 0,
                   !.badActive = TRUE]
    ELSE b

transitionTo(b, s) ==
  LET left == [b EXCEPT !.state = s, !.age = 0,
                        !.ambient = IF b.state = "Closed" THEN FALSE ELSE @]
  IN  IF s = b.state THEN b
      ELSE CASE s = "Home"     -> onEnterHome(left)
             [] s = "Password" -> onEnterPassword(left)
             [] s = "Scan"     -> onEnterScan(left)
             [] s = "Presence" -> onEnterPresence(left)
             [] s = "Opening"  -> onEnterOpening(left)
             [] s = "Open"     -> onEnterOpen(left)
             [] s = "Closed"   -> onEnterClosed(left)
             [] s = "BadPass"  -> onEnterBadPass(left)

\* The state change callback starts the scanner; if that fails, the scanner
\* sends the state machine home before transitionTo() returns.
ToScan(b, started) ==
  LET scanning == transitionTo(b, "Scan")
  IN  IF started THEN scanning ELSE transitionTo(scanning, "Home")

-----------------------------------------------------------------------------
(***************************************************************************)
(* Handling an event.                                                      *)
(***************************************************************************)
Penalized(b) == b.badActive /\ b.badAge < b.badFor

\* Key 1 (enter a PIN), key 2 (show a presence code), key 3 (scan) in Home.
HomeKey(b, key, started) ==
  CASE key = "key1" /\ Penalized(b) ->
         transitionTo([b EXCEPT !.retryScan = FALSE], "BadPass")
    [] key = "key1" /\ ~Penalized(b) -> transitionTo(b, "Password")
    [] key = "key2" -> transitionTo(b, "Presence")
    [] key = "key3" /\ Penalized(b) ->
         transitionTo([b EXCEPT !.retryScan = TRUE], "BadPass")
    [] key = "key3" /\ ~Penalized(b) -> ToScan(b, started)

\* Mutant: the count of bad codes is not limited.
codeRefusedUnlimited(b, scanned) ==
  transitionTo([b EXCEPT !.retryScan = scanned, !.badCount = @ + 1], "BadPass")

\* A bad code: the next attempt has to wait.
CodeRefused(b, scanned) ==
  transitionTo([b EXCEPT !.retryScan = scanned,
                         !.badCount = IF @ < COUNT_MAX THEN @ + 1 ELSE @],
               "BadPass")

\* A code was entered or scanned: open its door or start a penalty.
CodeEntered(b, c, scanned) ==
  LET v == verifyCred(b, c)
  IN  IF v.doorToOpen # NoDoor
        THEN transitionTo([v EXCEPT !.credVerified = TRUE, !.badCount = 0,
                                    !.scannedCredVerified = scanned], "Opening")
        ELSE CodeRefused(v, scanned)

\* Mutant: a door opened from the web ends the delay for a bad code.
webEndsDelay(b, d) ==
  transitionTo([b EXCEPT !.doorToOpen = d, !.credVerified = FALSE,
                         !.scannedCredVerified = FALSE, !.badActive = FALSE],
               "Opening")

\* A web request is obeyed in every state.
handleWebEvent(b, d) ==
  transitionTo([b EXCEPT !.doorToOpen = d, !.credVerified = FALSE,
                         !.scannedCredVerified = FALSE], "Opening")

\* Mutant: any change of the door being opened counts as its opening.
openOnAnyChange(b, changed) ==
  CASE b.doorToOpen \in changed /\ b.state = "Opening" -> transitionTo(b, "Open")
    [] /\ b.doorToOpen \in changed /\ b.state = "Open"
       /\ readDoorState(b, b.doorToOpen) = "closed" -> transitionTo(b, "Closed")
    [] OTHER -> b

\* The events of the doors whose contacts have changed: the one that matters
\* is that of the door being opened.
handleSensorEvent(b, changed) ==
  LET state == readDoorState(b, b.doorToOpen)
  IN  CASE b.doorToOpen \in changed /\ b.state = "Opening" /\ state = "open" ->
             transitionTo(b, "Open")
        [] b.doorToOpen \in changed /\ b.state = "Open" /\ state = "closed" ->
             transitionTo(b, "Closed")
        [] OTHER -> b

\* update(): flags whose time is over, then the timeout of the state.
Refreshed(b) ==
  [b EXCEPT !.badActive = @ /\ b.badAge < b.badFor,
            !.presenceActive = @ /\ b.presenceAge < PRESENCE_CODE_VALIDITY]

StateTimeout(b, started) ==
  CASE b.state = "Password" /\ b.age >= PASS_ENTRY_TIMEOUT -> transitionTo(b, "Home")
    [] b.state = "Scan" /\ b.age >= SCAN_TIMEOUT -> transitionTo(b, "Home")
    [] b.state = "BadPass" /\ b.badAge >= b.badFor ->
         IF b.retryScan THEN ToScan(b, started) ELSE transitionTo(b, "Password")
    [] b.state = "Presence" /\ b.presenceAge >= PRESENCE_CODE_VALIDITY ->
         transitionTo(b, "Home")
    [] b.state = "Opening" /\ readDoorState(b, b.doorToOpen) = "open" ->
         transitionTo(b, "Open")
    [] /\ b.state = "Opening" /\ readDoorState(b, b.doorToOpen) # "open"
       /\ b.age >= b.openFor -> transitionTo(b, "Home")
    [] b.state = "Closed" /\ b.age >= AMBIENT_TIMEOUT -> transitionTo(b, "Home")
    [] OTHER -> b

-----------------------------------------------------------------------------
(***************************************************************************)
(* loop().                                                                 *)
(***************************************************************************)

\* The histories, after a handler has made b of box.
Observe(b) ==
  /\ box' = b
  /\ pulsedBy' = IF b.state = "Opening" /\ box.state = "Opening" THEN pulsedBy
                 ELSE IF b.state = "Opening" /\ b.credVerified THEN b.verifiedCredId
                 ELSE NoCred
  /\ penalty' = IF box.state \in {"Password", "Scan"} /\ b.state = "BadPass"
                  THEN BadCodeDelay(b.badCount) ELSE penalty

Handler(h) ==
  /\ at = h
  /\ at' = After[h]
  /\ UNCHANGED <<contact, requests>>

noRequest ==
  /\ Handler("web")
  /\ queue = <<>>
  /\ UNCHANGED <<box, queue, pulsedBy, penalty>>

takeRequest ==
  /\ Handler("web")
  /\ queue # <<>>
  /\ Observe(handleWebEvent(box, Head(queue)))
  /\ queue' = Tail(queue)

\* updateDoorStates(): some of the contacts that have changed were stable for
\* long enough and become the known state of their doors.
updateDoorStates(stable) ==
  LET known == (box.lastState \ stable) \union (contact \intersect stable)
  IN  /\ Handler("doors")
      /\ stable \subseteq (contact \ box.lastState) \union (box.lastState \ contact)
      /\ Observe(handleSensorEvent([box EXCEPT !.lastState = known],
                                   {DoorOf[c] : c \in stable}))
      /\ UNCHANGED queue

\* TimerManager::update(): every pulse that has lasted long enough ends.
updateTimers ==
  LET due == {i \in Slots : box.timers[i] # Free /\ box.timers[i].age >= DOOR_DELAY}
  IN  /\ Handler("timers")
      /\ Observe([box EXCEPT !.lock = @ \ {box.timers[i].door : i \in due},
                             !.timers = [i \in Slots |-> IF i \in due THEN Free
                                                                      ELSE @[i]]])
      /\ UNCHANGED queue

noKey ==
  /\ Handler("keys")
  /\ UNCHANGED <<box, queue, pulsedBy, penalty>>

homeKey(key, started) ==
  /\ Handler("keys")
  /\ key \in KeyEvents /\ box.state = "Home"
  /\ Observe(HomeKey(box, key, started))
  /\ UNCHANGED queue

enterCode(c) ==
  /\ Handler("keys")
  /\ "enter" \in KeyEvents /\ box.state = "Password"
  /\ Observe(CodeEntered(box, c, FALSE))
  /\ UNCHANGED queue

cancelKey ==
  /\ Handler("keys")
  /\ "cancel" \in KeyEvents
  /\ box.state \in {"Password", "BadPass", "Presence", "Scan"}
  /\ Observe(transitionTo(box, "Home"))
  /\ UNCHANGED queue

update(started) ==
  /\ Handler("update")
  /\ Observe(StateTimeout(Refreshed(box), started))
  /\ UNCHANGED queue

\* BoxScanner::update(): nothing read, or the scan has taken too long.
noScan ==
  /\ Handler("scanner")
  /\ Observe(IF box.state = "Scan" /\ box.age >= SCAN_TIMEOUT
               THEN transitionTo(box, "Home") ELSE box)
  /\ UNCHANGED queue

scannedCode(c) ==
  /\ Handler("scanner")
  /\ box.state = "Scan" /\ box.age < SCAN_TIMEOUT
  /\ Observe(CodeEntered(box, c, TRUE))
  /\ UNCHANGED queue

\* The frame is too short, too long, or no text.
scannedGarbage ==
  /\ Handler("scanner")
  /\ box.state = "Scan" /\ box.age < SCAN_TIMEOUT
  /\ Observe(CodeRefused([box EXCEPT !.doorToOpen = NoDoor], TRUE))
  /\ UNCHANGED queue

-----------------------------------------------------------------------------
(***************************************************************************)
(* The AsyncTCP task, people at the doors, and time.                       *)
(***************************************************************************)

\* handleOpenBox(): a request that passes the checks is queued if there is
\* room, whatever the state of the box.
handleOpenBox(d) ==
  /\ requests < RequestsPerTick
  /\ Len(queue) < QUEUE_LENGTH
  /\ queue' = Append(queue, d)
  /\ requests' = requests + 1
  /\ UNCHANGED <<box, contact, at, pulsedBy, penalty>>

\* handleSetCred(): a credential is removed.
revokeCred(c) ==
  /\ box.uses[c] # 0
  /\ box' = [box EXCEPT !.uses[c] = 0]
  /\ UNCHANGED <<contact, queue, requests, at, pulsedBy, penalty>>

\* A door is opened or closed.
moveDoor(c) ==
  /\ c \in contact \/ DoorOf[c] \in box.lock \/ DoorsForced
  /\ contact' = IF c \in contact THEN contact \ {c} ELSE contact \union {c}
  /\ UNCHANGED <<box, queue, requests, at, pulsedBy, penalty>>

\* A timestamp is aged up to the timeout it is compared with.
Aged(age, limit) == IF age < limit THEN age + 1 ELSE age

Timed == [Home |-> 0, Open |-> 0, BadPass |-> 0, Presence |-> 0,
          Password |-> PASS_ENTRY_TIMEOUT, Scan |-> SCAN_TIMEOUT,
          Opening |-> DOOR_OPENING_TIMEOUT, Closed |-> AMBIENT_TIMEOUT]

AgedTimer(t) == IF t = Free THEN t ELSE [t EXCEPT !.age = Aged(@, DOOR_DELAY)]

Tick ==
  /\ box' = [box EXCEPT
       !.age = Aged(@, Timed[box.state]),
       !.badAge = Aged(@, box.badFor),
       !.presenceAge = IF box.presenceActive THEN Aged(@, PRESENCE_CODE_VALIDITY)
                                             ELSE @,
       !.timers = [i \in Slots |-> AgedTimer(@[i])]]
  /\ requests' = 0
  /\ penalty' = IF penalty > 0 THEN penalty - 1 ELSE 0
  /\ UNCHANGED <<contact, queue, at, pulsedBy>>

-----------------------------------------------------------------------------
Init ==
  /\ contact = {}
  /\ \E d \in Requestable :  \* door 0
     box = [state |-> "Home", doorToOpen |-> d, credVerified |-> FALSE,
            scannedCredVerified |-> FALSE, retryScan |-> FALSE, badCount |-> 0,
            badActive |-> FALSE, badFor |-> 0, badAge |-> 0,
            presenceActive |-> FALSE, presenceAge |-> 0, age |-> 0,
            openFor |-> 0, external |-> TRUE, ambient |-> FALSE, lock |-> {},
            timers |-> [i \in Slots |-> Free], lastState |-> {},
            uses |-> InitUses, verifiedCredId |-> NoCred]
  /\ queue = <<>> /\ requests = 0
  /\ at = "web"
  /\ pulsedBy = NoCred /\ penalty = 0

LoopStep ==
  \/ noRequest \/ takeRequest
  \/ \E stable \in SUBSET Contacts : updateDoorStates(stable)
  \/ updateTimers
  \/ noKey \/ cancelKey
  \/ \E key \in {"key1", "key2", "key3"}, started \in BOOLEAN : homeKey(key, started)
  \/ \E c \in (Creds \ Packets) \union {NoCred} : enterCode(c)
  \/ \E started \in BOOLEAN : update(started)
  \/ noScan \/ scannedGarbage
  \/ \E c \in Packets \union {NoCred} : scannedCode(c)

Outside ==
  \/ \E d \in Requestable : handleOpenBox(d)
  \/ \E c \in Creds : revokeCred(c)
  \/ \E c \in Contacts : moveDoor(c)

Next == LoopStep \/ Outside \/ Tick

Spec == Init /\ [][Next]_vars

\* loop() runs for ever, time goes on, and a contact that has changed for good
\* is stable at last.
FairSpec ==
  /\ Spec
  /\ WF_vars(LoopStep) /\ WF_vars(Tick)
  /\ SF_vars(\E stable \in SUBSET Contacts :
               updateDoorStates(stable) /\ box'.lastState = contact)

-----------------------------------------------------------------------------
(***************************************************************************)
(* Properties.                                                             *)
(***************************************************************************)

\* Open has no timeout: it ends with the closing of the door it waits for.
\* So that door is never known to be closed already, whichever contacts have
\* changed together and whatever request has replaced the door to open.
OpenTracksDoor ==
  box.state = "Open" => readDoorState(box, box.doorToOpen) \in {"open", "mixed"}

\* The light is on from the lock pulse until the door was closed for
\* AMBIENT_TIMEOUT or was not opened in time, on every path between them, and
\* at no other time.  Opening is entered without a pulse for a door that has no
\* lock; whatever door a request makes of it then, the light stays off.
LightFollowsDoor ==
  /\ box.state \in {"Opening", "Open", "Closed"} /\ box.openFor > 0 => box.ambient
  /\ box.ambient => box.state \in {"Opening", "Open", "Closed"}

\* A lock pulse ends: a timer is pending for every energized lock.
PulseTimed ==
  \A d \in box.lock : \E i \in Slots : box.timers[i].door = d

\* What is switched on is switched off again: the light with the door, and the
\* lock by a timer, on every path between the states.
OutputsEnd == LightFollowsDoor /\ PulseTimed

\* After a bad code no further code can be entered or scanned until its whole
\* delay has passed: not by leaving the state with Cancel, by changing from
\* the keypad to the scanner, nor by a door opened from the web meanwhile.
PenaltyServed == box.state \in {"Password", "Scan"} => penalty = 0

\* A use of a credential is charged only for the door it has opened.
ChargedForOpening ==
  [][\A c \in Creds :
       at' # at /\ box'.uses[c] < box.uses[c] =>
         pulsedBy = c /\ readDoorState(box', CredDoor[c]) = "open"]_vars

\* A credential is used up by the door it has opened: the step that finds that
\* door open, while the box waits for it, counts the credential down.
NoFreeOpening ==
  [][\A c \in Creds \ (IF KeepScanned THEN Packets ELSE {}) :
       /\ pulsedBy = c /\ box.uses[c] > 0
       /\ readDoorState(box', CredDoor[c]) = "open"
       /\ readDoorState(box, CredDoor[c]) # "open" \/ at = "update"
       /\ at' # at
       => box'.uses[c] = box.uses[c] - 1]_vars

\* A credential is charged exactly for the opening of its door: neither without
\* it nor not at all.
ChargedExactly == ChargedForOpening /\ NoFreeOpening

\* The controller opens one door at a time: no lock is energized while another
\* door is known to be open.
OneDoorAtATime ==
  [][\A d \in box'.lock \ box.lock, e \in Doors :
       e # d => readDoorState(box, e) # "open"]_vars

UserStep ==
  \/ takeRequest \/ cancelKey \/ scannedGarbage
  \/ \E key \in {"key1", "key2", "key3"}, started \in BOOLEAN : homeKey(key, started)
  \/ \E c \in Creds \union {NoCred} : enterCode(c) \/ scannedCode(c)

\* Left alone with its doors closed, the box comes to rest: Home, dark, with
\* no lock energized and external control enabled.
Settles ==
  (<>[][~UserStep]_vars /\ <>[](contact = {})) =>
    <>[](box.state = "Home" /\ box.lock = {} /\ ~box.ambient /\ box.external)

=============================================================================
