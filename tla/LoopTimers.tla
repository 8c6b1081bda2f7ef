----------------------------- MODULE LoopTimers -----------------------------
(***************************************************************************)
(* Time as the firmware measures it: timeout.h, class TimerManager of      *)
(* timer.cpp, and the two users of it in gpio_hal.cpp, the lock pulse and  *)
(* the debouncing of a door contact.                                       *)
(*                                                                         *)
(* millis() is an unsigned counter that wraps around.  A timer is its      *)
(* start and its length; loop() looks at all of them with the time it read *)
(* just before.  Next to every start the model keeps the time that has     *)
(* really passed, which the code never sees.                               *)
(***************************************************************************)
EXTENDS Naturals, FiniteSets, FiniteSetsExt

CONSTANTS
  Wrap,        (* values of millis(): 2^32 in the code                      *)
  MAX_TIMERS,  (* slots, 10 in the code                                     *)
  DOOR_DELAY,  (* length of a lock pulse, 500 ms                            *)
  Period,      (* length of a repeating timer                               *)
  DOOR_CONTACT_DEBOUNCE_MS,
  MaxGap       (* bound: time between two rounds of loop(); a length and    *)
               (* MaxGap together are less than Wrap                        *)

VARIABLES
  millis,   (* the counter                                                  *)
  timers,   (* the slots                                                    *)
  gap,      (* time since loop() last ran                                   *)
  fired,    (* what the last update() ran: intervals and the time passed    *)
  lock,     (* whether the lock is energized                                *)
  pin,      (* the door contact                                             *)
  contact   (* sampledDoorState, doorSampleStartedAt, lastState, and the    *)
            (* time the contact has looked the same to loop()               *)

vars == <<millis, timers, gap, fired, lock, pin, contact>>

Cap == DOOR_DELAY + Period + DOOR_CONTACT_DEBOUNCE_MS + MaxGap
Slots == 1 .. MAX_TIMERS
Actions == {"LOCK_DEACTIVATE", "PERIODIC"}
\* A free slot; the code leaves the old values in it and never looks at them.
Off == [active |-> FALSE, startedAt |-> 0, interval |-> 0, repeat |-> FALSE,
        action |-> "PERIODIC", passed |-> 0]

TypeOK ==
  /\ millis \in 0 .. Wrap - 1 /\ gap \in 0 .. MaxGap
  /\ timers \in [Slots -> [active : BOOLEAN, startedAt : 0 .. Wrap - 1, repeat : BOOLEAN,
                           interval : {0, DOOR_DELAY, Period}, action : Actions,
                           passed : 0 .. Cap]]
  /\ fired \subseteq (0 .. Cap) \X (0 .. Cap)
  /\ lock \in BOOLEAN /\ pin \in BOOLEAN
  /\ contact \in [sampled : BOOLEAN, startedAt : 0 .. Wrap - 1, last : BOOLEAN, same : 0 .. Cap]

\* The counter may be about to wrap around when the box has been on for long.
Init ==
  /\ millis \in 0 .. Wrap - 1 /\ gap = 0
  /\ timers = [i \in Slots |-> Off] /\ fired = {}
  /\ lock = FALSE /\ pin = FALSE
  /\ contact = [sampled |-> FALSE, startedAt |-> millis, last |-> FALSE, same |-> 0]

\* Mutant: the end of the interval is computed and compared.
deadlinePassed(start, length, now) == now >= (start + length) % Wrap

timeoutElapsed(start, length, now) == (now + Wrap - start) % Wrap >= length

timeoutRemaining(start, length, now) ==
  LET elapsed == (now + Wrap - start) % Wrap
  IN  IF elapsed >= length THEN 0 ELSE length - elapsed

----------------------------------------------------------------------------
(* TimerManager *)

\* findFreeSlot()
free == {i \in Slots : ~timers[i].active}

started(length, again, act) ==
  [active |-> TRUE, startedAt |-> millis, interval |-> length, repeat |-> again,
   action |-> act, passed |-> 0]

scheduleRepeat ==
  /\ free # {} /\ \A i \in Slots : timers[i].active => ~timers[i].repeat
  /\ timers' = [timers EXCEPT ![Min(free)] = started(Period, TRUE, "PERIODIC")]
  /\ UNCHANGED <<millis, gap, fired, lock, pin, contact>>

cancel ==
  /\ \E i \in Slots : timers[i].active /\ timers[i].repeat
                      /\ timers' = [timers EXCEPT ![i] = Off]
  /\ UNCHANGED <<millis, gap, fired, lock, pin, contact>>

\* openDoor(): the pulse begins, and scheduleOnce() is to end it.  With all
\* timers taken it returns -1, which nobody looks at, and the lock stays on.
openDoor ==
  /\ lock' = TRUE
  /\ timers' = IF free = {} THEN timers
               ELSE [timers EXCEPT ![Min(free)] =
                       started(DOOR_DELAY, FALSE, "LOCK_DEACTIVATE")]
  /\ UNCHANGED <<millis, gap, fired, pin, contact>>

expired == {i \in Slots : timers[i].active
                          /\ timeoutElapsed(timers[i].startedAt, timers[i].interval, millis)}

\* update(): an expired timer runs its action, and starts anew or becomes free.
afterUpdate(i) ==
  IF i \notin expired THEN timers[i]
  ELSE IF timers[i].repeat
         THEN [timers[i] EXCEPT !.startedAt = millis, !.passed = 0]
         ELSE Off

\* updateDoorStates() for one contact.
debounced ==
  LET c == IF pin = contact.sampled THEN contact
           ELSE [contact EXCEPT !.sampled = pin, !.startedAt = millis, !.same = 0]
  IN  IF pin # c.last /\ timeoutElapsed(c.startedAt, DOOR_CONTACT_DEBOUNCE_MS, millis)
        THEN [c EXCEPT !.last = pin]
        ELSE c

\* One round of loop(): contacts, then timers.
loop ==
  /\ gap # 0 /\ gap' = 0
  /\ contact' = debounced
  /\ timers' = [i \in Slots |-> afterUpdate(i)]
  /\ fired' = {<<timers[i].interval, timers[i].passed>> : i \in expired}
  /\ lock' = (lock /\ \A i \in expired : timers[i].action # "LOCK_DEACTIVATE")
  /\ UNCHANGED <<millis, pin>>

----------------------------------------------------------------------------
Later(t, cap) == IF t < cap THEN t + 1 ELSE t

tick ==
  /\ gap < MaxGap /\ gap' = gap + 1
  /\ millis' = (millis + 1) % Wrap
  /\ timers' = [i \in Slots |-> IF timers[i].active THEN [timers[i] EXCEPT !.passed = Later(@, Cap)]
                                ELSE timers[i]]
  /\ contact' = [contact EXCEPT !.same = Later(@, DOOR_CONTACT_DEBOUNCE_MS)]
  /\ fired' = {}
  /\ UNCHANGED <<lock, pin>>

contactMoves == pin' = ~pin /\ UNCHANGED <<millis, timers, gap, fired, lock, contact>>

Next == scheduleRepeat \/ cancel \/ openDoor \/ loop \/ tick \/ contactMoves

Spec == Init /\ [][Next]_vars

----------------------------------------------------------------------------
(* Properties *)

\* Wherever the counter wraps around, an action runs at the first round of
\* loop() after its time: not before the interval has passed, and not more than
\* a gap between two rounds after it.
FiresOnTime ==
  \A f \in fired : f[1] <= f[2] /\ f[2] <= f[1] + MaxGap

\* After a round of loop() no timer is overdue: the interval of an active timer
\* has not passed, and what the code takes for the time left is what is left.
NothingOverdue ==
  gap = 0 =>
    \A i \in Slots : timers[i].active /\ timers[i].passed > 0 =>
      /\ timers[i].passed < timers[i].interval
      /\ timeoutRemaining(timers[i].startedAt, timers[i].interval, millis)
           = timers[i].interval - timers[i].passed

\* The state of a door contact the rest of the firmware sees changes only when
\* the contact has read the same for the whole debounce time.
SettledStep ==
  contact'.last # contact.last => contact'.same >= DOOR_CONTACT_DEBOUNCE_MS /\ pin = contact'.last
ChangesSettled == [][SettledStep]_vars

(***************************************************************************)
(* What makes these hold, step by step: the time since the start of an     *)
(* active timer is what has passed, less than its interval and the time    *)
(* since the last round, so that the counter has not come around; and      *)
(* while a contact is not settled, the same of the time it looked the same.*)
(***************************************************************************)
since(start) == (millis + Wrap - start) % Wrap

Timer == [active : BOOLEAN, startedAt : Nat, repeat : BOOLEAN, interval : Nat,
          action : Actions, passed : Nat]

Counted(t) ==
  /\ t.startedAt \in 0 .. Wrap - 1 /\ t.interval \in {DOOR_DELAY, Period}
  /\ since(t.startedAt) = t.passed
  /\ t.passed < t.interval + gap

ContactCounted ==
  contact.same < DOOR_CONTACT_DEBOUNCE_MS => since(contact.startedAt) = contact.same

TimersInv ==
  /\ millis \in 0 .. Wrap - 1 /\ gap \in 0 .. MaxGap
  /\ timers \in [Slots -> Timer]
  /\ \A i \in Slots : timers[i].active => Counted(timers[i])
  /\ FiresOnTime
  /\ pin \in BOOLEAN
  /\ contact \in [sampled : BOOLEAN, startedAt : 0 .. Wrap - 1, last : BOOLEAN,
                  same : 0 .. DOOR_CONTACT_DEBOUNCE_MS]
  /\ ContactCounted

=============================================================================
