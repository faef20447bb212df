------------------------------- MODULE Random -------------------------------
(***************************************************************************)
(* The generator that a Game draws its ids and the snakes' first places    *)
(* from: class Random (siktacka/random.cc).                                *)
(***************************************************************************)
EXTENDS Integers

CONSTANTS
    RandMul, \* RANDOM_MUL
    RandMod, \* RANDOM_MOD
    Seeds    \* values of the option -r

ASSUME RandomAssumption ==
    RandMul \in Nat \ {0} /\ RandMod \in Nat \ {0} /\ Seeds \subseteq Nat

VARIABLE last_rand \* Random::last_rand

Rands == 0 .. RandMod - 1

(* The product needs 64 bits: in 32 bits it would be cut modulo 2^32,      *)
(* which is RANDOM_MOD + 5.                                                *)
FollowingInWord(x) == ((x * RandMul) % (RandMod + 5)) % RandMod
Following(x) == (x * RandMul) % RandMod

(* What next() returns when it is called the k-th time from now, counted   *)
(* from 0: it returns the old value and computes the one after it.         *)
Drawn[k \in Nat] == IF k = 0 THEN last_rand ELSE Following(Drawn[k - 1])
=============================================================================
