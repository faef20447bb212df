-------------------------------- MODULE Keys --------------------------------
(***************************************************************************)
(* What GuiClient is to do with the lines of the GUI: take them one at a   *)
(* time, in order; a key that goes down becomes the direction, a key that  *)
(* goes up ends the direction if it is its own.                            *)
(***************************************************************************)
EXTENDS Naturals, Sequences

VARIABLES
    written,  \* lines the GUI has written
    handled,  \* lines that the client has handled
    direction \* what the client tells the server

Turn(d, line) ==
    CASE line = "LEFT_KEY_DOWN"  -> "LEFT"
      [] line = "RIGHT_KEY_DOWN" -> "RIGHT"
      [] line = "LEFT_KEY_UP"    -> IF d = "LEFT" THEN "NONE" ELSE d
      [] line = "RIGHT_KEY_UP"   -> IF d = "RIGHT" THEN "NONE" ELSE d

Init == written = << >> /\ handled = << >> /\ direction = "NONE"

Press ==
    /\ Len(written') = Len(written) + 1
    /\ SubSeq(written', 1, Len(written)) = written
    /\ UNCHANGED <<handled, direction>>

Handle ==
    /\ Len(handled) < Len(written)
    /\ LET line == written[Len(handled) + 1]
       IN  handled' = Append(handled, line) /\ direction' = Turn(direction, line)
    /\ UNCHANGED written

Next == Press \/ Handle

Spec == Init /\ [][Next]_<<written, handled, direction>>
=============================================================================
