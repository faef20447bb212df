-------------------------- MODULE ClientProperties --------------------------
(***************************************************************************)
(* What modules Client and GuiClient promise: the keys of the GUI are      *)
(* handled in order, what they amount to is told to the server, and the    *)
(* process ends when it has to.                                            *)
(***************************************************************************)
EXTENDS Client

Turns == {"LEFT", "RIGHT", "NONE"}

(* Every variable has its type; the buffer holds what was read last, from  *)
(* the beginning of a line on.                                             *)
TypeOK ==
    /\ written \in Seq(Lines) /\ ends \in Seq(Nat) /\ Len(ends) = Len(written)
    /\ taken \in 0 .. Written
    /\ offset \in 0 .. Size - 1 /\ offset <= taken
    /\ Start = 0 \/ \E k \in DOMAIN ends : ends[k] = Start
    /\ direction \in Turns /\ told \in Turns
    /\ messages \in Seq(Turns) /\ owed \in Nat /\ events \in Nat
    /\ stopping \in BOOLEAN
    /\ server_events \in BOOLEAN /\ gui_events \in BOOLEAN
    /\ main \in {"run", "poll", "serve", "front", "pop", "exit", "failed",
                 "ended", "crashed"}
    /\ main \in {"front", "pop"} => messages # << >>
    /\ revents \subseteq {Order[i] : i \in DOMAIN Order}
    /\ asker \in {"loop", "push", "ended"}

(* The lines that were handled: those that end before the buffer starts.   *)
HandledCount == Cardinality({k \in DOMAIN ends : ends[k] <= Start})
Handled == SubSeq(written, 1, HandledCount)

(* The lines that left the buffer were handled one at a time, each once,   *)
(* and the direction is what they amount to.                               *)
KeyMachine == INSTANCE Keys WITH handled <- Handled
ImplementsKeys == KeyMachine!Spec

(* There is always room in the buffer, although each call handles only one *)
(* line of all it may have read: a client is never stopped by a burst of   *)
(* keys.                                                                   *)
AlwaysRoom == Room > 0

(* Each message that was made is handed to sendto once: what waits in the  *)
(* queue is what is owed, except for the message that was handed over and  *)
(* is about to be popped, whatever the asker pushes meanwhile.             *)
Stays == main # "crashed"
EachIsSentOnce ==
    Stays => owed = Len(messages) - (IF main = "pop" THEN 1 ELSE 0)

(* No lost wake-up: what waits for a socket is asked for at the next poll, *)
(* although one thread sets the mask and the other clears it, and although *)
(* a mask cleared for one event may have been set for the next.            *)
NoLostWakeup ==
    Stays => /\ messages # << >> => server_events
             /\ events > 0 => gui_events

(* What the player does reaches the server: when no more keys change, the  *)
(* direction that is held is the one told last, however far the queue is   *)
(* behind.                                                                 *)
Playing == ~stopping /\ main \notin {"exit", "failed", "ended", "crashed"}

HeldIsTold == []<>(told = direction \/ ~Playing)

(* A client that has to stop (a signal, a lost GUI, nonsense from the      *)
(* server) ends: the destructor does not wait for a thread that nobody     *)
(* told to stop.  It would after an error of recvfrom (main = "failed").   *)
Exits == stopping \/ main = "exit" ~> main \in {"ended", "crashed"}
=============================================================================
