---------------------------- MODULE CredStoreMC -----------------------------
(* Small instances of CredStore: three identifiers, an attribute the cache   *)
(* takes in, one it does not, and one that validateCred() refuses.           *)
EXTENDS CredStore

MCAttrs == {"active", "inactive", "invalid"}
MCValid == {d \in Data : d.attr # "invalid"}
MCActive == {d \in Data : d.attr = "active"}

=============================================================================
