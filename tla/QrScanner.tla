------------------------------ MODULE QrScanner -----------------------------
(***************************************************************************)
(* The code scanner: class QrScanner of qr_scanner.cpp, and BoxScanner of  *)
(* box_scanner.cpp, which drives it from the state of the box.             *)
(*                                                                         *)
(* The device sends bytes over a serial line at any time, also when no     *)
(* scan is under way.  A byte remembers whether it arrived in the present  *)
(* scan.  Every time-out may be found elapsed in a call of update() when   *)
(* the code can observe it; lengths in time do not matter here.            *)
(***************************************************************************)
EXTENDS Naturals, Sequences, SequencesExt, FiniteSets, FiniteSetsExt

CONSTANTS
  QR_SCANNER_MAX_FRAME_LEN, (* room for one frame                           *)
  PACKET_NUMBER_MIN,        (* length of the shortest code                  *)
  PACKET_SCAN_MAX,          (* length of the longest code                   *)
  MaxLine                   (* bound: bytes waiting in the serial driver    *)

VARIABLES
  state,    (* state of the box                                             *)
  ready,    (* BoxScanner::ready                                            *)
  scanner,  (* currentState, scanActive and pendingEvent                    *)
  line,     (* bytes in the serial driver                                   *)
  rx,       (* rxFrame                                                      *)
  lamp,     (* the hardware is switched on                                  *)
  verdict   (* the frame the last update() handed to the state machine      *)

vars == <<state, ready, scanner, line, rx, lamp, verdict>>

\* A printable character, a blank, another byte, and a frame terminator.
Kinds == {"char", "blank", "binary", "end"}
Bytes == [kind : Kinds, fresh : BOOLEAN]
None == [type |-> "None"]

TypeOK ==
  /\ state \in {"Home", "Scan", "BadPass", "Opening"} /\ ready \in BOOLEAN /\ lamp \in BOOLEAN
  /\ scanner \in [state : {"Idle", "WaitingActivationResponse", "WaitingCode"}, active : BOOLEAN,
                  pending : {"None", "Activated", "Deactivated"}]
  /\ line \in BoundedSeq(Bytes, MaxLine)
  /\ rx \in BoundedSeq(Bytes, QR_SCANNER_MAX_FRAME_LEN)
  /\ verdict.type \in {"None", "Code", "Invalid", "Timeout"}

\* begin(): the commands of the configuration may not parse.
Init ==
  /\ state = "Home" /\ ready \in BOOLEAN /\ lamp = FALSE
  /\ scanner = [state |-> "Idle", active |-> FALSE, pending |-> "None"]
  /\ line = <<>> /\ rx = <<>> /\ verdict = None

----------------------------------------------------------------------------
(* QrScanner *)

Off(pending) == [state |-> "Idle", active |-> FALSE, pending |-> pending]

\* deactivateAfterTerminalEvent() leaves pendingEvent alone.
deactivateAfterTerminalEvent(s) == Off(s.pending)

\* startScan(); the state depends on whether an answer to the command is awaited.
startScan == [state |-> "WaitingActivationResponse", active |-> TRUE, pending |-> "Activated"]

trimFrame(f) ==
  LET solid == {i \in DOMAIN f : f[i].kind # "blank"}
  IN  IF solid = {} THEN <<>> ELSE SubSeq(f, Min(solid), Max(solid))

\* finalizeFrame(): the event, and the scanner after it.
finalizeFrame(s, f) ==
  LET data == trimFrame(f)
  IN  CASE data = <<>> -> [event |-> None, s |-> s]
        [] data # <<>> /\ s.state = "WaitingActivationResponse" ->
             [event |-> [type |-> "ActivationResponse", data |-> data], s |-> s]
        [] data # <<>> /\ s.state = "WaitingCode" ->
             [event |-> [type |-> "CodeReceived", data |-> data], s |-> deactivateAfterTerminalEvent(s)]
        [] data # <<>> /\ s.state = "Idle" ->
             [event |-> [type |-> "UnexpectedFrame", data |-> data], s |-> s]

full(f) == Len(f) >= QR_SCANNER_MAX_FRAME_LEN

\* processByte() on the first byte of the line.
processByte(w) ==
  LET b == Head(w.line)
      rest == [w EXCEPT !.line = Tail(@)]
  IN  CASE b.kind = "end" ->
             IF w.rx = <<>> THEN rest
             ELSE LET f == finalizeFrame(w.s, w.rx)
                  IN  [rest EXCEPT !.rx = <<>>, !.s = f.s, !.event = f.event]
        [] b.kind # "end" /\ full(w.rx) ->
             [rest EXCEPT !.rx = <<>>, !.event = [type |-> "RxOverflow"]]
        [] OTHER -> [rest EXCEPT !.rx = Append(@, b)]

moreRead(w) == IF w.event = None THEN processByte(w) ELSE w

\* The while loop of update(): up to the first event.
readLine ==
  LET after[n \in 0 .. Len(line)] ==
        IF n = 0 THEN [line |-> line, rx |-> rx, s |-> scanner, event |-> None]
        ELSE moreRead(after[n - 1])
  IN  after[Len(line)]

\* What update() does when no byte made an event: the time-outs, in its order.
timeouts(w, idle, window, scan) ==
  LET s1 == IF w.s.state = "WaitingActivationResponse" /\ window
              THEN [w.s EXCEPT !.state = "WaitingCode"] ELSE w.s
  IN  IF w.rx # <<>> /\ idle
        THEN LET f == finalizeFrame(w.s, w.rx)
             IN  [w EXCEPT !.rx = <<>>, !.s = f.s, !.event = f.event]
      ELSE IF s1.active /\ scan
        THEN [w EXCEPT !.s = deactivateAfterTerminalEvent(s1), !.event = [type |-> "ScanTimeout"]]
      ELSE [w EXCEPT !.s = s1]

\* QrScanner::update(); no byte has come for a while only if none was read now.
scannerUpdate(idle, window, scan) ==
  IF scanner.pending # "None"
    THEN [line |-> line, rx |-> rx, s |-> [scanner EXCEPT !.pending = "None"], event |-> None]
  ELSE IF readLine.event # None THEN readLine
  ELSE timeouts(readLine, idle /\ line = <<>>, window, scan)

----------------------------------------------------------------------------
(* BoxScanner *)

\* No byte left over when the state of the box changes belongs to the next scan.
aged(bytes) == [i \in DOMAIN bytes |-> [bytes[i] EXCEPT !.fresh = FALSE]]

receiver(new, r) == IF new = "Scan" /\ ready THEN <<>> ELSE r

switchedOff(s) == s.active

\* onStateChanged(): switch off when Scan is left; drain the line, reset the
\* receiver and switch on when it is entered.  Without a scanner, Home again.
onStateChanged(old, new, s, r, l) ==
  /\ state' = IF new = "Scan" /\ ~ready THEN "Home" ELSE new
  /\ scanner' = IF new = "Scan" /\ ready THEN startScan
                ELSE IF old = "Scan" /\ ready /\ switchedOff(s) THEN Off("Deactivated") ELSE s
  /\ lamp' = IF new = "Scan" /\ ready THEN TRUE
             ELSE IF old = "Scan" /\ ready /\ switchedOff(s) THEN FALSE ELSE lamp /\ s.active
  /\ rx' = receiver(new, aged(r))
  /\ line' = IF new = "Scan" /\ ready THEN <<>> ELSE aged(l)

isText(data) == \A i \in DOMAIN data : data[i].kind = "char"

\* What BoxScanner::update() makes of an event of the scanner.
judged(event) ==
  CASE event.type = "ScanTimeout" -> [type |-> "Timeout"]
    [] event.type = "RxOverflow"  -> [type |-> "Invalid"]
    [] event.type = "CodeReceived" \/ (/\ event.type = "ActivationResponse"
                                       /\ Len(event.data) >= PACKET_NUMBER_MIN /\ isText(event.data)) ->
         IF Len(event.data) \in PACKET_NUMBER_MIN .. PACKET_SCAN_MAX /\ isText(event.data)
           THEN [type |-> "Code", data |-> event.data] ELSE [type |-> "Invalid"]
    [] OTHER -> None

\* Where the state machine goes with it; a code may be known or not.
decided(v) ==
  CASE v.type = "Timeout" -> {"Home"}
    [] v.type = "Invalid" -> {"BadPass"}
    [] v.type = "Code"    -> {"BadPass", "Opening"}
    [] OTHER              -> {state}

update ==
  /\ ready
  /\ \/ \E idle, window, scan \in BOOLEAN :
          LET w == scannerUpdate(idle, window, scan)
              v == IF state = "Scan" THEN judged(w.event) ELSE None
          IN  \E new \in decided(v) :
                /\ verdict' = v
                /\ IF new # state THEN onStateChanged(state, new, w.s, w.rx, w.line)
                   ELSE /\ scanner' = w.s /\ rx' = w.rx /\ line' = w.line
                        /\ lamp' = (lamp /\ w.s.active) /\ UNCHANGED state
     \/ /\ state = "Scan" \* scanStartedAt is too long ago
        /\ verdict' = [type |-> "Timeout"]
        /\ onStateChanged("Scan", "Home", scanner, rx, line)
  /\ UNCHANGED ready

----------------------------------------------------------------------------
\* Keys, time-outs and web requests change the state of the box.
boxMoves ==
  /\ \E new \in CASE state = "Home"    -> {"Scan", "Opening"}
                  [] state = "Scan"    -> {"Home", "Opening"}
                  [] state = "BadPass" -> {"Scan", "Home", "Opening"}
                  [] state = "Opening" -> {"Home"} :
       onStateChanged(state, new, scanner, rx, line)
  /\ verdict' = None /\ UNCHANGED ready

receive ==
  /\ Len(line) < MaxLine
  /\ \E k \in Kinds : line' = Append(line, [kind |-> k, fresh |-> state = "Scan"])
  /\ verdict' = None
  /\ UNCHANGED <<state, ready, scanner, rx, lamp>>

Next == update \/ boxMoves \/ receive

Spec == Init /\ [][Next]_vars

----------------------------------------------------------------------------
(* Properties *)

\* "A frame left over from an earlier attempt must not authenticate a new scan"
\* (box_scanner.cpp:54): every byte of an accepted code arrived in this scan,
\* in whatever order frames, pauses and changes of state come.
NoLeftover == verdict.type = "Code" => \A i \in DOMAIN verdict.data : verdict.data[i].fresh

\* The lamp is on only while the box waits for a code, on every way out of Scan,
\* a code that arrives instead of the answer to the activation included.
LampOnlyInScan == lamp => state = "Scan" /\ scanner.active

-----------------------------------------------------------------------------
(* What makes them inductive *)

\* In a scan, whatever waits to be read or to become a frame arrived in it.
Held == {b \in Bytes : state = "Scan" => b.fresh}

ScannerInv ==
  /\ scanner \in [state : {"Idle", "WaitingActivationResponse", "WaitingCode"}, active : BOOLEAN,
                  pending : {"None", "Activated", "Deactivated"}]
  /\ state \in {"Home", "Scan", "BadPass", "Opening"}
  /\ lamp \in BOOLEAN /\ ready \in BOOLEAN
  /\ line \in Seq(Held) /\ rx \in Seq(Held)
  /\ state = "Scan" => ready
  /\ lamp => state = "Scan" /\ scanner.active

=============================================================================
