------------------------------ MODULE MCServer ------------------------------
(* Instances of Server for TLC.                                            *)
EXTENDS ServerProperties, TLC

CONSTANTS a1, a2, a3, n1, n2, n3

MCAddresses3 == {a1, a2, a3}
MCNames3 == {n1, n2, n3}

(* Each socket has a player of its own; the first may also watch; the third*)
(* may use the first one's name or come back with a newer session, and     *)
(* never presses an arrow.                                                 *)
MCMessages ==
    {m \in Message :
        /\ <<m.address, m.name>> \in
              {<<a1, n1>>, <<a2, n2>>, <<a3, n3>>, <<a3, n1>>, <<a1, OBSERVER>>}
        /\ m.address # a3 => m.session = 1
        /\ m.address = a3 => ~m.arrow}

Symmetry3 == Permutations(MCAddresses3) \cup Permutations(MCNames3)
=============================================================================
