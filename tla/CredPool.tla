------------------------------ MODULE CredPool ------------------------------
(***************************************************************************)
(* What the credential store promises its callers, with neither links nor  *)
(* crashes: a pool of credentials in which every addition, update and      *)
(* removal happens at once or not at all, and every identifier is issued   *)
(* at most once.  A restart of the box is invisible here.                  *)
(*                                                                         *)
(* CredStore implements this specification.                                *)
(***************************************************************************)
EXTENDS Naturals

CONSTANTS
  RealIds,  (* identifiers a credential may have          *)
  Data,     (* contents of a credential: [ident, attr]    *)
  NoData    (* the content of an identifier not in use    *)

VARIABLES
  pool,     (* the credential each identifier stands for  *)
  lastId    (* the greatest identifier issued so far      *)

poolVars == <<pool, lastId>>

Init ==
  /\ pool = [i \in RealIds |-> NoData]
  /\ lastId = 0

\* A new credential takes the identifier after the last one issued.
Add(d) ==
  /\ lastId + 1 \in RealIds
  /\ pool' = [pool EXCEPT ![lastId + 1] = d]
  /\ lastId' = lastId + 1

\* An update changes the validity, the uses left or the door of a stored
\* credential, never its name, type or secret.
Update(i, d) ==
  /\ pool[i] # NoData
  /\ pool[i].ident = d.ident
  /\ pool' = [pool EXCEPT ![i] = d]
  /\ UNCHANGED lastId

Remove(i) ==
  /\ pool[i] # NoData
  /\ pool' = [pool EXCEPT ![i] = NoData]
  /\ UNCHANGED lastId

Next ==
  \/ \E d \in Data : Add(d)
  \/ \E i \in RealIds, d \in Data : Update(i, d)
  \/ \E i \in RealIds : Remove(i)

Spec == Init /\ [][Next]_poolVars

=============================================================================
