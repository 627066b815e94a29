------------------------ MODULE MCSubversionServer ------------------------
(* An instance of SubversionServer for TLC. *)
EXTENDS SubversionServer

CONSTANTS c1, c2, t1, t2, a1, a2, a3, a4

TwoClients    == {c1, c2}
TwoThreads    == {t1, t2}
FourAddresses == {a1, a2, a3, a4}
=============================================================================
