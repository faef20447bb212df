-------------------------------- MODULE Feed --------------------------------
(***************************************************************************)
(* What a client's GUI is promised (README.md:30): the events of a game in *)
(* the order of that game and without duplicates.  Games are numbered in   *)
(* the order they are played and an event is a pair <<game, number>>.      *)
(* A client that was away may miss the end of a game, never its beginning  *)
(* or its middle, and it never goes back to an earlier game.               *)
(***************************************************************************)
EXTENDS Naturals, Sequences

VARIABLES
    generated,  \* events the server has generated so far, as a set of pairs
    gui         \* events sent to the GUI, in order

NextAfter(shown, e) ==
    IF shown = << >> THEN e[2] = 0
    ELSE LET last == shown[Len(shown)]
         IN  \/ e[1] = last[1] /\ e[2] = last[2] + 1
             \/ e[1] > last[1] /\ e[2] = 0

(* gui can be followed by more: each event comes right after the one       *)
(* before it.                                                              *)
InOrder(shown, more) ==
    \A i \in DOMAIN more :
        NextAfter(shown \o SubSeq(more, 1, i - 1), more[i])

Init == generated = {} /\ gui = << >>

Generate ==
    /\ generated \subseteq generated'
    /\ UNCHANGED gui

Show ==
    /\ Len(gui) < Len(gui') /\ SubSeq(gui', 1, Len(gui)) = gui
    /\ LET more == SubSeq(gui', Len(gui) + 1, Len(gui'))
       IN  /\ InOrder(gui, more)
           /\ \A i \in DOMAIN more : more[i] \in generated
    /\ UNCHANGED generated

Next == Generate \/ Show

Spec == Init /\ [][Next]_<<generated, gui>>
=============================================================================
