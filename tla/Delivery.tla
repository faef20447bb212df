------------------------------ MODULE Delivery ------------------------------
(***************************************************************************)
(* How events reach a client's GUI: Server::on_event and                   *)
(* Server::make_message, the UDP network, and Client::receive_message.     *)
(*                                                                         *)
(* A definition whose name no action uses is the mistaken form of the one  *)
(* that follows it; PROJECT.json says which property tells them apart.     *)
(*                                                                         *)
(* A game is known by its position 1, 2, ... in the order of playing, its  *)
(* events by their numbers.  A datagram carries the events lo..hi of one   *)
(* game; `id` is the game_id in its header, `of` the game its events are   *)
(* really from.  The detail of the events, and how the game comes to       *)
(* generate them, is module Game's.                                        *)
(***************************************************************************)
EXTENDS Integers, Sequences, SequencesExt

CONSTANTS
    MaxGames,    \* bound: games played
    MaxEvents,   \* bound: events of a game, GAME_OVER excepted
    PerDatagram, \* how many events fit into one datagram
    MaxInFlight, \* bound: datagrams in flight
    MaxShown,    \* bound: events sent to the GUI
    Ordered      \* TRUE: the network loses and repeats datagrams but does
                 \* not deliver one after a later one

ASSUME BoundsAssumption ==
    /\ MaxGames \in Nat \ {0} /\ MaxEvents \in Nat \ {0}
    /\ PerDatagram \in Nat \ {0} /\ MaxInFlight \in Nat /\ MaxShown \in Nat
ASSUME OrderedAssumption == Ordered \in BOOLEAN

VARIABLES
    game_id,   \* Game::game_id; game g is played under id g
    stored,    \* how many events Server::events holds, numbered from 0
    of,        \* the game that is played or was played last
    thread,    \* where the thread that generates events is
    reply,     \* make_message: where it is, and its locals
    asked,     \* the next_expected_event_no of every ClientMessage sent
    net,       \* datagrams on their way to the client, oldest first
    client_id, \* Client::game_id
    event_no,  \* Client::event_no
    gui,       \* every event pushed to Client::events, in order
    generated  \* ghost: every event stored so far; read by Feed only

serverVars == <<game_id, stored, of, thread, generated>>
clientVars == <<client_id, event_no, gui>>
vars == <<serverVars, reply, asked, net, clientVars>>

Datagram(id, g, lo, hi) == [id |-> id, of |-> g, lo |-> lo, hi |-> hi]
(* A GAME_OVER shows nothing: the client neither counts nor forwards it.   *)
OverDatagram(id, g) == Datagram(id, g, 1, 0)

Send(m) == Len(net) < MaxInFlight /\ net' = Append(net, m)

-----------------------------------------------------------------------------
(* The thread that generates events: on_event stores, then announces.      *)

(* new_game is called by the network thread, which is then not in          *)
(* make_message.                                                           *)
NewGame ==
    /\ thread = "waiting" /\ reply.at = "none" /\ of < MaxGames
    /\ of' = of + 1
    /\ stored' = 1
    /\ generated' = generated \cup {<<of + 1, 0>>}
    /\ thread' = "announce"
    /\ UNCHANGED <<game_id, reply, asked, net, clientVars>>

StoreEvent ==
    /\ thread = "playing" /\ stored < MaxEvents
    /\ stored' = stored + 1
    /\ generated' = generated \cup {<<of, stored>>}
    /\ thread' = "announce"
    /\ UNCHANGED <<game_id, of, reply, asked, net, clientVars>>

Announce ==
    /\ thread = "announce"
    /\ Send(Datagram(game_id, of, stored - 1, stored - 1))
    /\ thread' = "playing"
    /\ UNCHANGED <<game_id, stored, of, generated, reply, asked, clientVars>>

(* on_event(GAME_OVER): the store is emptied first.                        *)
GameOver ==
    /\ thread = "playing"
    /\ stored' = 0
    /\ thread' = "over"
    /\ UNCHANGED <<game_id, of, generated, reply, asked, net, clientVars>>

AnnounceOver ==
    /\ thread = "over"
    /\ Send(OverDatagram(game_id, of))
    /\ thread' = "initialize"
    /\ UNCHANGED <<game_id, stored, of, generated, reply, asked, clientVars>>

(* initialize() draws the id of the next game: one no game in reach has    *)
(* had (the seed is not 0, of which the generator makes only zeros).       *)
SameId(id) == id
NextId(id) == id + 1

Initialize ==
    /\ thread = "initialize"
    /\ game_id' = NextId(game_id)
    /\ thread' = "waiting"
    /\ UNCHANGED <<stored, of, generated, reply, asked, net, clientVars>>

-----------------------------------------------------------------------------
(* The network thread: make_message.                                       *)

NoReply == [at |-> "none", id |-> 0, of |-> 0, lo |-> 0, hi |-> 0]

(* Read the id for the first datagram ...                                  *)
BeginReply(next) ==
    /\ reply.at = "none" /\ next \in asked
    /\ reply' = [NoReply EXCEPT !.at = "copy", !.id = game_id, !.lo = next]
    /\ UNCHANGED <<serverVars, asked, net, clientVars>>

(* ... copy the events under events_mutex (none: no answer) ...            *)
CopyEvents ==
    /\ reply.at = "copy"
    /\ reply' = IF reply.lo < stored
                THEN [reply EXCEPT !.at = "send", !.of = of, !.hi = stored - 1]
                ELSE NoReply
    /\ UNCHANGED <<serverVars, asked, net, clientVars>>

(* ... send them, as many to a datagram as fit.  Each further datagram     *)
(* reads the id again.                                                     *)
LastUnbounded(lo, hi) == lo + PerDatagram - 1
LastFitting(lo, hi) == IF hi - lo < PerDatagram THEN hi ELSE lo + PerDatagram - 1
SendReply ==
    /\ reply.at = "send"
    /\ LET last == LastFitting(reply.lo, reply.hi)
       IN  /\ Send(Datagram(reply.id, reply.of, reply.lo, last))
           /\ reply' = IF last = reply.hi
                       THEN NoReply
                       ELSE [reply EXCEPT !.id = game_id,
                                          !.lo = last + 1]
    /\ UNCHANGED <<serverVars, asked, clientVars>>

-----------------------------------------------------------------------------
(* The client.                                                             *)

(* add_server_message every 20 ms; a request may arrive late or again.     *)
Ask ==
    /\ asked' = asked \cup {event_no}
    /\ asked' # asked
    /\ UNCHANGED <<serverVars, reply, net, clientVars>>

(* receive_message: another game_id restarts at event 0; then the events   *)
(* before event_no are skipped and those from event_no on are taken, unless*)
(* the datagram begins after event_no.                                     *)
KeptEventNo(m) == event_no
StartOf(m) == IF m.id = client_id THEN event_no ELSE 0

DespiteGap(m, expected) == expected <= m.hi
Continues(m, expected) == m.lo <= expected /\ expected <= m.hi

Taken(m) ==
    LET expected == StartOf(m)
    IN  IF Continues(m, expected)
        THEN [i \in 1 .. m.hi - expected + 1 |-> <<m.of, expected + i - 1>>]
        ELSE << >>

ReceiveMessage(m) ==
    /\ Len(gui) + Len(Taken(m)) <= MaxShown
    /\ client_id' = m.id
    /\ event_no' = StartOf(m) + Len(Taken(m))
    /\ gui' = gui \o Taken(m)

-----------------------------------------------------------------------------
(* The network: a datagram in flight is delivered, delivered and kept (to  *)
(* arrive again), or lost when its turn comes.                             *)

Arrives(i) == i \in DOMAIN net /\ (Ordered => i = 1)

Deliver(i) ==
    /\ Arrives(i)
    /\ ReceiveMessage(net[i])
    /\ net' = RemoveAt(net, i)
    /\ UNCHANGED <<serverVars, reply, asked>>

DeliverAndKeep(i) ==
    /\ Arrives(i)
    /\ ReceiveMessage(net[i])
    /\ UNCHANGED <<serverVars, reply, asked, net>>

Lose(i) ==
    /\ Arrives(i)
    /\ net' = RemoveAt(net, i)
    /\ UNCHANGED <<serverVars, reply, asked, clientVars>>

-----------------------------------------------------------------------------
Init ==
    /\ game_id = 1 /\ stored = 0 /\ of = 0 /\ thread = "waiting"
    /\ reply = NoReply /\ asked = {} /\ net = << >>
    /\ client_id = 0 /\ event_no = 0 /\ gui = << >>
    /\ generated = {}

Server ==
    \/ NewGame \/ StoreEvent \/ Announce \/ GameOver \/ AnnounceOver
    \/ Initialize
    \/ (\E next \in asked : BeginReply(next)) \/ CopyEvents \/ SendReply

Network == \E i \in 1 .. MaxInFlight :
              Deliver(i) \/ DeliverAndKeep(i) \/ Lose(i)

Next == Server \/ Ask \/ Network

Spec == Init /\ [][Next]_vars

(* Both server threads and the network go on; the client asks every 20 ms, *)
(* and neither all its requests nor all the answers it can use are lost.   *)
(* Nothing is said of NewGame, StoreEvent and GameOver.                    *)
AskNow == BeginReply(event_no)
UsefulDelivery ==
    \E i \in 1 .. MaxInFlight :
       Arrives(i) /\ Taken(net[i]) # << >> /\ Deliver(i)

Fairness ==
    /\ WF_vars(Announce) /\ WF_vars(AnnounceOver) /\ WF_vars(Initialize)
    /\ WF_vars(CopyEvents) /\ WF_vars(SendReply)
    /\ WF_vars(Ask) /\ SF_vars(AskNow)
    /\ WF_vars(\E i \in 1 .. MaxInFlight : Deliver(i) \/ Lose(i))
    /\ SF_vars(UsefulDelivery)

LiveSpec == Spec /\ Fairness
=============================================================================
