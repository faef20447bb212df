----------------------------- MODULE MCPacking -----------------------------
(* Instances of Packing for TLC.                                           *)
EXTENDS Packing

(* The last name does not fit a datagram of 70 bytes, by one byte.         *)
ShortNames == <<20, 20, 15>>
=============================================================================
