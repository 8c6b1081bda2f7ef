------------------------------- MODULE Keypad -------------------------------
(***************************************************************************)
(* The keypad: class BoxKeyboard of keyboard.cpp, and what onStateChanged()*)
(* of main.cpp does to the input when the state of the box changes.        *)
(*                                                                         *)
(* A converter collects key presses; a round of loop() fetches all of them *)
(* at once.  In Password they are digits of a password; elsewhere only the *)
(* last one is kept, in currentKey, until some state takes it.             *)
(***************************************************************************)
EXTENDS Naturals, Sequences, SequencesExt

CONSTANTS
  Digits,    (* keys 0..9 of interest; 1, 2 and 3 are the commands in Home  *)
  PASS_MAX,  (* longest password                                           *)
  MaxKeys    (* bound: presses waiting in the converter                    *)

CANCEL == 27
ENTER == 13
Keys == Digits \cup {CANCEL, ENTER}
Space == 100
NUL == 101
Commands == {1, 2, 3} \cap Digits

VARIABLES
  state,     (* BoxStateMachine::getCurrentState()                          *)
  waiting,   (* presses in the converter                                    *)
  kb,        (* keyboardStatus, and the private keyboardMode                *)
  intent,    (* what the user has typed since the box began to ask for a    *)
             (* password: the digits not erased, up to the first '#', all   *)
             (* digits, and whether other keys came in the round of the '#' *)
  stale,     (* the state has changed since currentKey was fetched          *)
  done       (* the event the last poll raised                              *)

vars == <<state, waiting, kb, intent, stale, done>>

States == {"Home", "Password", "Presence", "Opening", "Open", "Closed", "BadPass", "Scan"}
Cells == 1 .. PASS_MAX + 1
None == [type |-> "None"]
NoIntent == [digits |-> <<>>, typed |-> {}, entered |-> FALSE, late |-> FALSE]
Blank == [i \in Cells |-> IF i <= PASS_MAX THEN Space ELSE NUL]

TypeOK ==
  /\ state \in States /\ waiting \in BoundedSeq(Keys, MaxKeys)
  /\ kb \in [mode : {"COMMAND", "PASSWORD"}, private : {"NONE", "COMMAND", "PASSWORD"},
             len : 0 .. PASS_MAX, complete : BOOLEAN, cancel : BOOLEAN,
             pass : [Cells -> Digits \cup {Space, NUL}], key : Keys \cup {Space, NUL}]
  /\ intent \in [digits : BoundedSeq(Digits, PASS_MAX), typed : SUBSET Digits,
                 entered : BOOLEAN, late : BOOLEAN]
  /\ stale \in BOOLEAN /\ done.type \in {"None", "Key", "Enter", "Cancel"}

\* Static storage is zero, and setup() puts the box into Home.
Init ==
  /\ state = "Home" /\ waiting = <<>> /\ stale = FALSE /\ done = None
  /\ kb = [mode |-> "COMMAND", private |-> "NONE", len |-> 0, complete |-> FALSE,
           cancel |-> FALSE, pass |-> [i \in Cells |-> NUL], key |-> NUL]
  /\ intent = NoIntent

----------------------------------------------------------------------------
(* One key *)

room(k) == k.len < PASS_MAX

ended(k) == [k.pass EXCEPT ![k.len + 1] = NUL]

handleKey(k, key) ==
  CASE key \in Digits -> IF room(k) THEN [k EXCEPT !.pass[k.len + 1] = key, !.len = @ + 1] ELSE k
    [] key = CANCEL   -> IF k.len > 0 THEN [k EXCEPT !.len = @ - 1] ELSE [k EXCEPT !.cancel = TRUE]
    [] key = ENTER    -> IF k.len > 0 THEN [k EXCEPT !.pass = ended(k), !.complete = TRUE] ELSE k

\* What the user means by a key; the first '#' ends the password.
editing(w, key) ==
  CASE key \in Digits -> IF Len(w.digits) < PASS_MAX THEN [w EXCEPT !.digits = Append(@, key)] ELSE w
    [] key = CANCEL   -> [w EXCEPT !.digits = IF @ = <<>> THEN @ ELSE Front(@)]
    [] key = ENTER    -> [w EXCEPT !.entered = w.digits # <<>>]

means(w, key) ==
  [IF w.entered THEN [w EXCEPT !.late = w.late \/ key # ENTER] ELSE editing(w, key)
     EXCEPT !.typed = w.typed \cup ({key} \cap Digits)]

\* The mode of a poll; the switch to PASSWORD forgets what had been typed.
modeSet(k) ==
  LET mode == IF state = "Password" THEN "PASSWORD" ELSE "COMMAND"
      k1 == [k EXCEPT !.mode = mode, !.private = mode]
  IN  IF mode = "PASSWORD" /\ k.private # mode THEN [k1 EXCEPT !.len = 0, !.complete = FALSE] ELSE k1

\* All presses that were waiting, one after the other: what the keypad makes
\* of them, and what the user means by them.
handled(k) ==
  LET after[i \in 0 .. Len(waiting)] ==
        IF i = 0 THEN [made |-> k, meaning |-> intent]
        ELSE [made |-> handleKey(after[i - 1].made, waiting[i]),
              meaning |-> means(after[i - 1].meaning, waiting[i])]
  IN  after[Len(waiting)]

understood == handled(modeSet(kb)).meaning

\* pollKeypad()
polled(k) ==
  IF k.private = "PASSWORD" THEN handled(k).made
  ELSE IF waiting = <<>> THEN k ELSE [k EXCEPT !.key = Last(waiting)]

cleared(pass) == [i \in Cells |-> IF i <= PASS_MAX THEN Space ELSE pass[i]]

----------------------------------------------------------------------------
(* The state of the box *)

\* onStateChanged()
inState(k, new) ==
  IF new # "Password" THEN [k EXCEPT !.mode = "COMMAND"]
  ELSE [k EXCEPT !.mode = "PASSWORD", !.len = 0, !.complete = FALSE, !.cancel = FALSE,
                 !.pass = cleared(@)]

\* The state changes without the keypad: time-outs, doors, scanner and web.
afterwards(s) ==
  CASE s = "BadPass" -> {"Password", "Scan", "Opening"}
    [] s = "Opening" -> {"Open", "Home"}
    [] s = "Open"    -> {"Closed", "Opening"}
    [] s = "Scan"    -> {"Home", "BadPass", "Opening"}
    [] s = "Home"    -> {"Opening"}
    [] OTHER         -> {"Home", "Opening"}

machineMoves ==
  \E new \in afterwards(state) :
    /\ state' = new /\ kb' = inState(kb, new) /\ stale' = TRUE
    /\ intent' = NoIntent
    /\ done' = None /\ UNCHANGED waiting

press ==
  /\ Len(waiting) < MaxKeys
  /\ \E key \in Keys : waiting' = Append(waiting, key)
  /\ UNCHANGED <<state, kb, intent, stale, done>>

----------------------------------------------------------------------------
(* handleKeyboard(): a round of loop() in which the converter answers. *)

\* The converter may fail to answer: a round that only sets the mode.
noAnswer ==
  /\ kb' = modeSet(kb) /\ kb' # kb
  /\ UNCHANGED <<state, waiting, intent, stale, done>>

\* strncpy() of the password
text(pass) == LET end == CHOOSE i \in Cells : pass[i] = NUL /\ \A j \in 1 .. i - 1 : pass[j] # NUL
              IN  SubSeq(pass, 1, end - 1)

\* Where an event takes the box.
keyed(key) == IF key = 2 THEN {"Presence"} ELSE {"BadPass", IF key = 1 THEN "Password" ELSE "Scan"}

obeyKey(k) ==
  /\ state = "Home" /\ k.key \in Commands
  /\ done' = [type |-> "Key", fresh |-> waiting # <<>> \/ ~stale]
  /\ \E new \in keyed(k.key) : state' = new /\ kb' = [inState(k, new) EXCEPT !.key = Space]

enter(k) ==
  /\ state = "Password" /\ k.complete
  /\ done' = [type |-> "Enter", sent |-> text(k.pass),
              meant |-> understood.digits, typed |-> understood.typed,
              late |-> understood.late]
  /\ \E new \in {"Opening", "BadPass"} :
       /\ state' = new
       /\ kb' = [inState(k, new) EXCEPT !.complete = FALSE, !.len = 0, !.cancel = FALSE,
                                        !.pass = cleared(@)]

cancels(k) ==
  \/ state = "Password" /\ ~k.complete /\ k.cancel
  \/ state \in {"BadPass", "Presence", "Scan"} /\ (k.key = CANCEL \/ k.cancel)

\* Mutant: cancelPressed is not taken back.
cancelKept(k) ==
  /\ cancels(k)
  /\ done' = [type |-> "Cancel", fresh |-> waiting # <<>> \/ ~stale]
  /\ state' = "Home"
  /\ kb' = [inState(k, "Home") EXCEPT !.key = IF state = "Password" THEN @ ELSE Space]

cancel(k) ==
  /\ cancels(k)
  /\ done' = [type |-> "Cancel", fresh |-> waiting # <<>> \/ ~stale]
  /\ state' = "Home"
  /\ kb' = [inState(k, "Home") EXCEPT !.cancel = FALSE,
                                      !.key = IF state = "Password" THEN @ ELSE Space]

nothing(k) ==
  /\ ~cancels(k) /\ ~(state = "Home" /\ k.key \in Commands) /\ ~(state = "Password" /\ k.complete)
  /\ kb' = k /\ done' = None /\ UNCHANGED state

handleKeyboard ==
  /\ LET k == polled(modeSet(kb)) IN obeyKey(k) \/ enter(k) \/ cancel(k) \/ nothing(k)
  /\ intent' = IF state' = "Password" /\ state = "Password" THEN understood
               ELSE NoIntent
  /\ stale' = IF state' # state THEN TRUE
              ELSE stale /\ (waiting = <<>> \/ state = "Password")
  /\ waiting' = <<>>

Next == machineMoves \/ press \/ noAnswer \/ handleKeyboard

Spec == Init /\ [][Next]_vars

----------------------------------------------------------------------------
(* Properties *)

\* The password a '#' sends to the state machine is what the user has typed and
\* not erased since the box asked for a password, in passwords as long as the
\* array too, unless other keys than '#' came in the same round after it: they
\* still edit the array, over the end of the text.  Then too there is nothing of
\* an earlier attempt in it, only digits typed since and blanks of clearPassword().
SubmittedIsTyped ==
  done.type = "Enter" =>
    /\ ~done.late => done.sent = done.meant /\ done.sent # <<>>
    /\ Range(done.sent) \subseteq done.typed \cup {Space}

\* '*' takes the box Home only from the screen that showed when it was fetched.
CancelOfThisState == done.type = "Cancel" => done.fresh

-----------------------------------------------------------------------------
(* What makes them inductive *)

KeypadTypes ==
  /\ state \in States /\ waiting \in Seq(Keys) /\ Len(waiting) <= MaxKeys
  /\ kb \in [mode : {"COMMAND", "PASSWORD"}, private : {"NONE", "COMMAND", "PASSWORD"},
             len : 0 .. PASS_MAX, complete : BOOLEAN, cancel : BOOLEAN,
             pass : [Cells -> Digits \cup {Space, NUL}], key : Keys \cup {Space, NUL}]
  /\ intent \in [digits : Seq(Digits), typed : SUBSET Digits, entered : BOOLEAN,
                 late : BOOLEAN]
  /\ stale \in BOOLEAN
  /\ kb.pass[PASS_MAX + 1] = NUL

\* While a password is typed, the first len cells of the array are what was
\* typed, and the others blanks or digits that were erased; and its '#' is
\* obeyed in the round in which it is found.
TypedInv ==
  state = "Password" =>
    /\ ~kb.complete /\ ~intent.entered /\ ~intent.late
    /\ \A i \in 1 .. PASS_MAX : kb.pass[i] \in intent.typed \cup {Space}
    /\ kb.len = Len(intent.digits) /\ \A i \in 1 .. kb.len : kb.pass[i] = intent.digits[i]
    /\ kb.private # "PASSWORD" => kb.len = 0

\* A '*' that counts is obeyed in the round in which it is fetched.
CancelInv ==
  /\ ~kb.cancel
  /\ state \in {"Password", "BadPass", "Presence", "Scan"} => kb.key # CANCEL

KeypadInv == KeypadTypes /\ TypedInv /\ CancelInv

=============================================================================
