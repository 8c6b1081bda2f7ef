--------------------------- MODULE CircuitBreaker ---------------------------
(***************************************************************************)
(* The circuit breaker of the tunnel's mappings (circuit_breaker.h): after *)
(* FAIL_THRESHOLD failures in a row to reach the local end of a mapping,   *)
(* channels for it are refused until a time that is kept in a word of the  *)
(* clock's width, 0 meaning none.  The clock wraps at Wrap (2^32 in the    *)
(* code).  `age' is the true time since the last failure of a port, which  *)
(* the code does not know.                                                 *)
(***************************************************************************)
EXTENDS Naturals, FiniteSets

CONSTANTS
  Port,                 \* remoteBindPort of the mappings
  MAX_MAPPING_HEALTH,   \* entries of the table
  FAIL_THRESHOLD, BACKOFF_BASE_MS, BACKOFF_CAP_MS,
  MaxFails,             \* consecutiveFails stays below it: 100 in the code
  Wrap                  \* the clock counts modulo this

VARIABLES
  now,      \* millis()
  health,   \* the entries in use: port -> fails and backoffUntilMs
  age       \* time since the last failure of a port, at most Wrap

vars == <<now, health, age>>

Init ==
  /\ now \in 0 .. Wrap - 1
  /\ health = [p \in {} |-> 0]
  /\ age = [p \in Port |-> Wrap]

AtMost(a, b) == IF a < b THEN a ELSE b

\* (long)(now - t) < 0
Before(t) == (now + Wrap - t) % Wrap >= Wrap \div 2

find(p) == p \in DOMAIN health
findOrAlloc(p) == find(p) \/ Cardinality(DOMAIN health) < MAX_MAPPING_HEALTH

isBackedOff(p) == /\ find(p) /\ health[p].until # 0
                  /\ Before(health[p].until)

Entry(p) == IF find(p) THEN health[p] ELSE [fails |-> 0, until |-> 0]

Delay(fails) ==
  AtMost(BACKOFF_BASE_MS * 2 ^ (fails - FAIL_THRESHOLD), BACKOFF_CAP_MS)

With(p, h) == [q \in DOMAIN health \cup {p} |-> IF q = p THEN h ELSE health[q]]

failed(h) ==
  LET fails == AtMost(h.fails + 1, MaxFails)
  IN [fails |-> fails,
      until |-> IF fails >= FAIL_THRESHOLD THEN (now + Delay(fails)) % Wrap
                ELSE h.until]

recordFailure(p) ==
  /\ health' = IF findOrAlloc(p) THEN With(p, failed(Entry(p))) ELSE health
  /\ age' = [age EXCEPT ![p] = 0]
  /\ UNCHANGED now

recordSuccess(p) ==
  /\ health' = IF findOrAlloc(p) THEN With(p, [fails |-> 0, until |-> 0])
               ELSE health
  /\ UNCHANGED <<now, age>>

tick ==
  /\ now' = (now + 1) % Wrap
  /\ age' = [p \in Port |-> AtMost(age[p] + 1, Wrap)]
  /\ UNCHANGED health

Next == tick \/ \E p \in Port : recordFailure(p) \/ recordSuccess(p)

Spec == Init /\ [][Next]_vars

-----------------------------------------------------------------------------
TypeOK ==
  /\ now \in 0 .. Wrap - 1
  /\ DOMAIN health \subseteq Port
  /\ Cardinality(DOMAIN health) <= MAX_MAPPING_HEALTH
  /\ \A p \in DOMAIN health : health[p].fails \in 0 .. MaxFails
                              /\ health[p].until \in 0 .. Wrap - 1

(***************************************************************************)
(* A mapping that failed FAIL_THRESHOLD times or more is refused for the   *)
(* delay of its last failure, neither shorter nor longer, across a wrap of *)
(* the clock and however often it failed while it was refused.  The two    *)
(* cases in which the code cannot tell are left out: a delay that ends at  *)
(* the time 0, and more than half a turn of the clock without a failure.   *)
(***************************************************************************)
BacksOffForDelay ==
  \A p \in DOMAIN health :
    LET h == health[p] IN
    h.fails >= FAIL_THRESHOLD /\ h.until # 0 /\ age[p] < Wrap \div 2 =>
      (isBackedOff(p) <=> age[p] < Delay(h.fails))

(***************************************************************************)
(* What makes it hold, step by step: until the clock has come around, the  *)
(* time kept for a mapping that failed too often is that of its last       *)
(* failure and the delay.                                                  *)
(***************************************************************************)
FailedAt(p) == (now + Wrap - age[p]) % Wrap

BreakerInv ==
  /\ now \in 0 .. Wrap - 1
  /\ DOMAIN health \subseteq Port /\ age \in [Port -> 0 .. Wrap]
  /\ \A p \in DOMAIN health :
       /\ health[p].fails \in 0 .. MaxFails /\ health[p].until \in 0 .. Wrap - 1
       /\ health[p].fails >= FAIL_THRESHOLD /\ age[p] < Wrap =>
            health[p].until = (FailedAt(p) + Delay(health[p].fails)) % Wrap

=============================================================================
