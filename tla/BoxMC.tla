------------------------------- MODULE BoxMC --------------------------------
(* Small instances of BoxStateMachine: two doors, the second one with two    *)
(* contacts; a PIN and a packet number that open the first and the second    *)
(* door once, a master code that opens the first one without limit, and a    *)
(* packet number for a door that has no lock.                                *)
EXTENDS BoxStateMachine

MCDoorOf == [c \in Contacts |-> IF c = "c1" THEN "d1" ELSE "d2"]
MCCredDoor ==
  [c \in Creds |-> IF c = "packet" THEN "d2"
                   ELSE IF c = "lockless" THEN Unmapped ELSE "d1"]
MCUses == [c \in Creds |-> IF c = "master" THEN -1 ELSE 1]

=============================================================================
