------------------------------ MODULE BoxClock ------------------------------
(***************************************************************************)
(* The clock: class BoxRtc of box_rtc.cpp, its use by setup() and loop(),  *)
(* and recordStartTime() of main.cpp.                                      *)
(*                                                                         *)
(* A battery-backed chip keeps the time and a flag that its oscillator had *)
(* stopped.  The SNTP task sets the system clock and calls onTimeSync();   *)
(* loop() then writes the chip in two transfers and rebuilds the           *)
(* credential cache.  A time is right, plausible but wrong, or before the  *)
(* first valid one.  Power can fail between any two steps.                 *)
(***************************************************************************)
EXTENDS Naturals

VARIABLES
  pc,        (* where setup() and loop() are                                *)
  chip,      (* time and oscillator-stop flag of the DS3231                 *)
  present,   (* whether the chip answers                                    *)
  system,    (* the system clock                                            *)
  flags,     (* validRtcTime, lostPowerFlag                                 *)
  pending,   (* ntpSyncPending                                              *)
  start,     (* lastStart: source and time                                  *)
  stale      (* the clock was set since the credential cache was built      *)

vars == <<pc, chip, present, system, flags, pending, start, stale>>

Times == {"right", "wrong", "invalid"}
NoStart == [source |-> "none", time |-> "invalid"]

TypeOK ==
  /\ pc \in {"off", "rtc", "ntp", "creds", "loop", "write", "clearFlag", "refresh"}
  /\ chip \in [time : Times, osf : BOOLEAN] /\ present \in BOOLEAN
  /\ system \in Times /\ flags \in [valid : BOOLEAN, lost : BOOLEAN]
  /\ pending \in BOOLEAN /\ stale \in BOOLEAN
  /\ start \in [source : {"none", "RTC", "NTP"}, time : Times]

Init ==
  /\ pc = "off" /\ chip \in [time : Times, osf : {TRUE}] /\ present \in BOOLEAN
  /\ system = "invalid" /\ flags = [valid |-> FALSE, lost |-> FALSE]
  /\ pending = FALSE /\ start = NoStart /\ stale = FALSE

isEpochValid(t) == t # "invalid"

recordStartTime(source, time) ==
  IF start # NoStart \/ ~isEpochValid(time) THEN start ELSE [source |-> source, time |-> time]

----------------------------------------------------------------------------
(* setup() *)

\* Power returns: begin() looks for the chip, reads the flag and the time.
begin ==
  /\ pc = "off" /\ pc' = IF present THEN "rtc" ELSE "ntp"
  /\ flags' = [lost  |-> present /\ chip.osf,
               valid |-> present /\ ~chip.osf /\ isEpochValid(chip.time)]
  /\ UNCHANGED <<chip, present, system, pending, start, stale>>

trusted(lost) == ~lost

\* setSystemTimeFromRtc(): the time is taken over with the flag set, too.
setSystemTimeFromRtc ==
  /\ pc = "rtc" /\ pc' = "ntp"
  /\ IF isEpochValid(chip.time)
       THEN /\ system' = chip.time /\ flags' = [lost |-> chip.osf, valid |-> ~chip.osf]
            /\ start' = IF trusted(chip.osf) THEN recordStartTime("RTC", chip.time) ELSE start
       ELSE /\ flags' = [lost |-> chip.osf, valid |-> FALSE] /\ UNCHANGED <<system, start>>
  /\ UNCHANGED <<chip, present, pending, stale>>

\* configureNtp(); from now on the SNTP task may call onTimeSync().
configureNtp ==
  /\ pc = "ntp" /\ pc' = "creds"
  /\ UNCHANGED <<chip, present, system, flags, pending, start, stale>>

\* CredStorage::begin() builds the cache.
credsBegin ==
  /\ pc = "creds" /\ pc' = "loop" /\ stale' = FALSE
  /\ UNCHANGED <<chip, present, system, flags, pending, start>>

----------------------------------------------------------------------------
(* The SNTP task, and loop() *)

onTimeSync ==
  /\ pc \notin {"off", "rtc", "ntp"}
  /\ system' = "right" /\ pending' = TRUE /\ stale' = TRUE
  /\ UNCHANGED <<pc, chip, present, flags, start>>

writesChip == present

\* ntpSyncPending is cleared before anything is done about it.
updateStart ==
  /\ pc = "loop" /\ pending
  /\ pending' = FALSE
  /\ pc' = IF ~isEpochValid(system) THEN "loop" ELSE IF writesChip THEN "write" ELSE "refresh"
  /\ UNCHANGED <<chip, present, system, flags, start, stale>>

\* Mutant: the flag is cleared before the time is written.
transfersSwapped == [write |-> [chip EXCEPT !.osf = FALSE], clearFlag |-> [chip EXCEPT !.time = system]]
\* adjust(): the time, then the flag
transfers == [write |-> [chip EXCEPT !.time = system], clearFlag |-> [chip EXCEPT !.osf = FALSE]]

writeTime ==
  /\ pc = "write" /\ pc' = "clearFlag" /\ chip' = transfers.write
  /\ UNCHANGED <<present, system, flags, pending, start, stale>>

clearFlag ==
  /\ pc = "clearFlag" /\ pc' = "refresh" /\ chip' = transfers.clearFlag
  /\ flags' = [valid |-> TRUE, lost |-> FALSE]
  /\ UNCHANGED <<present, system, pending, start, stale>>

\* loop(): refreshCache(), recordStartTime("NTP").
refresh ==
  /\ pc = "refresh" /\ pc' = "loop" /\ stale' = FALSE
  /\ start' = recordStartTime("NTP", system)
  /\ UNCHANGED <<chip, present, system, flags, pending>>

----------------------------------------------------------------------------
powerFails ==
  /\ pc # "off" /\ pc' = "off"
  /\ system' = "invalid" /\ flags' = [valid |-> FALSE, lost |-> FALSE] /\ pending' = FALSE
  /\ start' = NoStart /\ stale' = FALSE
  /\ UNCHANGED <<chip, present>>

\* The battery of the chip fails while the box is off.
batteryFails ==
  /\ pc = "off"
  /\ \E t \in Times \ {"right"} : chip' = [time |-> t, osf |-> TRUE]
  /\ UNCHANGED <<pc, present, system, flags, pending, start, stale>>

Boot == begin \/ setSystemTimeFromRtc \/ configureNtp \/ credsBegin
Update == updateStart \/ writeTime \/ clearFlag \/ refresh
Next == Boot \/ Update \/ onTimeSync \/ powerFails \/ batteryFails

Spec == Init /\ [][Next]_vars
\* setup() goes on and loop() goes round as long as there is power.
Fairness == WF_vars(credsBegin \/ Update)
FairSpec == Spec /\ Fairness

----------------------------------------------------------------------------
(* Properties *)

\* The start time that is shown is right: neither a chip whose battery failed
\* nor one that lost power between the two transfers of adjust() is believed.
StartIsRight == start # NoStart => start.time = "right"

\* What the code calls a valid time of the chip is right.
ValidIsRight == flags.valid => chip.time = "right"

\* After the clock has been set, the cache is rebuilt, or loop() still has it
\* before it: a synchronisation during an update is not lost.
RefreshAhead == stale => pending \/ pc \in {"creds", "write", "clearFlag", "refresh"}

\* A synchronisation ends with the time in the chip and the flag cleared,
\* unless the power fails.
SyncReachesChip == pending /\ present ~> pc = "off" \/ (chip.time = "right" /\ ~chip.osf)

(***************************************************************************)
(* What makes the first three hold, step by step: a chip whose flag is     *)
(* cleared is right, whatever was interrupted, and from the call of        *)
(* onTimeSync() until the cache is rebuilt the system clock is.            *)
(***************************************************************************)
ClockInv ==
  /\ chip \in [time : Times, osf : BOOLEAN] /\ present \in BOOLEAN
  /\ system \in Times /\ flags \in [valid : BOOLEAN, lost : BOOLEAN]
  /\ ~chip.osf => chip.time = "right"
  /\ flags.valid => ~chip.osf /\ pc # "off"
  /\ pending \/ pc \in {"write", "clearFlag", "refresh"} => system = "right"
  /\ pc = "clearFlag" => chip.time = "right"
  /\ pc \in {"off", "rtc", "ntp"} => ~stale /\ ~pending
  /\ StartIsRight /\ RefreshAhead

=============================================================================
