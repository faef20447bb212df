------------------------------ MODULE MCClient ------------------------------
(* Instances of Client for TLC.                                            *)
EXTENDS ClientProperties

(* The lengths of the four lines, newline included, divided by 5.          *)
MCKeyLength ==
    [l \in Lines |-> IF l \in {"LEFT_KEY_DOWN", "RIGHT_KEY_DOWN"} THEN 3 ELSE 2]
=============================================================================
