------------------------ MODULE MCSubversionSession ------------------------
(* Instances of SubversionSession for TLC. *)
EXTENDS SubversionSession

\* Every kind of handshake, and only those that reach the storage machine.
AllRequests  == RequestKinds
GoodRequests == {"good"}
=============================================================================
