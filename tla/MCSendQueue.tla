----------------------------- MODULE MCSendQueue -----------------------------
(* Instances of SendQueue for TLC.                                         *)
EXTENDS SendQueue

CONSTANTS c1, c2

MCClients == {c1, c2}
=============================================================================
