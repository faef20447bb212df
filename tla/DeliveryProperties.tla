------------------------- MODULE DeliveryProperties -------------------------
(***************************************************************************)
(* What module Delivery promises: it implements Feed when the network      *)
(* keeps datagrams in order.                                               *)
(***************************************************************************)
EXTENDS Delivery

(* The GUI gets the events of each game in their order, none twice, none   *)
(* left out, and never goes back to an earlier game.                       *)
GuiFeed == INSTANCE Feed
ImplementsFeed == GuiFeed!Spec

(* event_no, the number the client asks for, is the number of the event    *)
(* that the GUI has to get next: what was taken and what is asked for do   *)
(* not drift apart.                                                        *)
EventNoIsNext ==
    event_no > 0 => gui # << >> /\ gui[Len(gui)] = <<client_id, event_no - 1>>

(* What the client takes under a game_id are events of the game with that  *)
(* id: game_id identifies the game (README.md:135).                        *)
TakesOwnGame ==
    [][\A i \in Len(gui) + 1 .. Len(gui') : gui'[i][1] = client_id']_vars

(* Datagrams filled by make_message cover the store without a gap: what is *)
(* in flight is a run of events that the game has generated.               *)
DatagramsAreTrue ==
    \A i \in DOMAIN net : \A n \in net[i].lo .. net[i].hi :
        <<net[i].of, n>> \in generated

(* A client that knows of game g, which goes on for ever, gets in the end   *)
(* all the events of g there are, and stays there: whatever it was shown   *)
(* before, of g or of an earlier game, and however many datagrams are lost.*)
Playing(g) == of = g /\ thread = "playing"
HasAllOf(g) == gui # << >> /\ gui[Len(gui)] = <<g, stored - 1>>

CatchesUp ==
    \A g \in 1 .. MaxGames :
        <>[]Playing(g) /\ <>(client_id = g) => <>[]HasAllOf(g)
=============================================================================
