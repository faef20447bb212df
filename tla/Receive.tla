------------------------------ MODULE Receive ------------------------------
(***************************************************************************)
(* What a client does with the records of a datagram: ServerMessage and    *)
(* EventFactory parse them (siktacka/protocol/server_message.cc,           *)
(* siktacka/events/), Client::receive_message takes those that come next   *)
(* and puts them into words for the GUI (client/client.cc).  Module        *)
(* Delivery has what is behind it: who sends which datagram when.          *)
(*                                                                         *)
(* A definition whose name no action uses is the mistaken form of the one  *)
(* that follows it; PROJECT.json says which property tells them apart.     *)
(*                                                                         *)
(* The server is any one that speaks the protocol (tests/ has another than *)
(* src/): any run of records of a game may arrive at any time, again, or   *)
(* after runs of later games, and the network may damage any record.  The  *)
(* board has one dimension here: x and y are treated alike.                *)
(***************************************************************************)
EXTENDS Naturals, Sequences

CONSTANTS
    Games,   \* the games in the order of playing, each the sequence of its
             \* records, the first of which is its NEW_GAME
    Faulty,  \* records outside all games that the server may add to a datagram
    MaxShown \* bound: once so many events were shown, no datagram of another
             \* game arrives

Types == {"NEW_GAME", "PIXEL", "PLAYER_ELIMINATED", "GAME_OVER", "UNKNOWN"}

(* A record: names and width are a NEW_GAME's, player and x those of the   *)
(* other types.  sense: the constructor of its type accepts its data.      *)
Record == [no : Nat, type : Types, names : Seq(Nat), width : Nat,
           player : Nat, x : Nat, sense : BOOLEAN]

ASSUME GamesAssumption ==
    /\ Games \in Seq(Seq(Record)) /\ Faulty \subseteq Record
    /\ \A g \in DOMAIN Games :
          /\ Games[g] # << >> /\ Games[g][1].type = "NEW_GAME"
          /\ \A i \in DOMAIN Games[g] : Games[g][i].no = i - 1

VARIABLES
    game_id,  \* Client::game_id; a game's id is its position in Games
    event_no, \* Client::event_no
    players,  \* Client::players
    width,    \* Client::width
    message,  \* receive_message: the records still to be looked at
    events,   \* everything pushed to Client::events
    stopping  \* receive_message has thrown: the client exits

vars == <<game_id, event_no, players, width, message, events, stopping>>

-----------------------------------------------------------------------------
(* Datagrams: the records lo..hi of game g, perhaps one more that makes no *)
(* sense; the checksums of the first `intact` ones are right, that of the  *)
(* next is not.                                                            *)
Run(g, lo, hi) == SubSeq(Games[g], lo + 1, hi + 1)
Datagram(g, records, intact) ==
    [id |-> g, records |-> records, intact |-> intact]

(* ServerMessage(bytes): the first wrong checksum ends the datagram.       *)
AllOrNothing(d) == IF d.intact = Len(d.records) THEN d.records ELSE << >>
Intact(d) == SubSeq(d.records, 1, d.intact)

Known(r) == r.type # "UNKNOWN"

(* A constructor throws invalid_argument.                                  *)
Nonsense(d) == \E i \in DOMAIN Intact(d) :
                  Known(Intact(d)[i]) /\ ~Intact(d)[i].sense

-----------------------------------------------------------------------------
(* receive_message, as far as its loop ...                                 *)
Ready == ~stopping /\ message = << >>

ReceiveNonsense(d) ==
    /\ Ready /\ Nonsense(d)
    /\ stopping' = TRUE
    /\ UNCHANGED <<game_id, event_no, players, width, message, events>>

ReceiveMessage(d) ==
    /\ Ready /\ ~Nonsense(d)
    /\ Len(events) < MaxShown \/ d.id = game_id
    /\ message' = Intact(d)
    /\ game_id' = d.id
    /\ event_no' = (IF d.id = game_id THEN event_no ELSE 0)
    /\ UNCHANGED <<players, width, events, stopping>>

(* ... and the loop, by what it does with a record: leave out one of an    *)
(* unknown type, as ServerMessage(bytes) has (the loop sees them no sooner *)
(* than here) ...                                                          *)
Next1 == Head(message)
Looking == ~stopping /\ message # << >> /\ Known(Next1)

SkipUnknown ==
    /\ ~stopping /\ message # << >> /\ ~Known(Next1)
    /\ message' = Tail(message)
    /\ UNCHANGED <<game_id, event_no, players, width, events, stopping>>

Expected == Looking /\ Next1.no = event_no

(* ... pass over an old one ...                                            *)
SkipOld ==
    /\ Looking /\ Next1.no < event_no
    /\ message' = Tail(message)
    /\ UNCHANGED <<game_id, event_no, players, width, events, stopping>>

(* ... stop at one that comes too early ...                                *)
Break ==
    /\ Looking /\ Next1.no > event_no
    /\ message' = << >>
    /\ UNCHANGED <<game_id, event_no, players, width, events, stopping>>

(* ... pass over a GAME_OVER, without counting it ...                      *)
SkipGameOver ==
    /\ Expected /\ Next1.type = "GAME_OVER"
    /\ message' = Tail(message)
    /\ UNCHANGED <<game_id, event_no, players, width, events, stopping>>

(* ... take the next one.                                                  *)
Take(name) ==
    /\ event_no' = event_no + 1
    /\ events' = Append(events, [of |-> game_id, record |-> Next1, name |-> name])
    /\ message' = Tail(message)

(* initialize_players                                                      *)
NotInitialized(r) == players
NotCleared(r) == players \o r.names
PlayersOf(r) == r.names

TakeNewGame ==
    /\ Expected /\ Next1.type = "NEW_GAME"
    /\ players' = PlayersOf(Next1)
    /\ width' = Next1.width
    /\ Take(0)
    /\ UNCHANGED <<game_id, stopping>>

(* validate_in_game                                                        *)
ValidAtEdge(r) ==
    /\ r.player < Len(players)
    /\ r.type = "PIXEL" => r.x <= width
Valid(r) ==
    /\ r.player < Len(players)
    /\ r.type = "PIXEL" => r.x < width

InGame(r) == r.type \in {"PIXEL", "PLAYER_ELIMINATED"}

TakeInGame ==
    /\ Expected /\ InGame(Next1) /\ Valid(Next1)
    /\ Take(players[Next1.player + 1])
    /\ UNCHANGED <<game_id, players, width, stopping>>

Refuse ==
    /\ Expected /\ InGame(Next1) /\ ~Valid(Next1)
    /\ stopping' = TRUE
    /\ UNCHANGED <<game_id, event_no, players, width, message, events>>

-----------------------------------------------------------------------------
Init ==
    /\ game_id = 0 /\ event_no = 0 /\ players = << >> /\ width = 0
    /\ message = << >> /\ events = << >> /\ stopping = FALSE

Loop ==
    \/ SkipUnknown \/ SkipOld \/ Break \/ SkipGameOver
    \/ TakeNewGame \/ TakeInGame \/ Refuse

Receive(d) == ReceiveNonsense(d) \/ ReceiveMessage(d)

Additions == {<< >>} \cup {<<r>> : r \in Faulty}

Network ==
    \E g \in DOMAIN Games : \E hi \in 0 .. Len(Games[g]) - 1 :
    \E lo \in 0 .. hi, more \in Additions :
    \E intact \in 0 .. hi - lo + 1 + Len(more) :
        Receive(Datagram(g, Run(g, lo, hi) \o more, intact))

Next == Network \/ Loop

Spec == Init /\ [][Next]_vars

(* The server answers with all it has of game g from event_no on; the      *)
(* network gets no more than the first record of an answer through         *)
(* undamaged, but that again and again.                                    *)
Answer(g) ==
    /\ event_no < Len(Games[g])
    /\ Receive(Datagram(g, Run(g, event_no, Len(Games[g]) - 1), 1))

LiveSpec == Spec /\ WF_vars(Loop) /\ \A g \in DOMAIN Games : SF_vars(Answer(g))

-----------------------------------------------------------------------------
(* Only what the server should not have sent makes the client exit         *)
(* (README.md:366): no event of a game is refused, however datagrams are   *)
(* lost, damaged, repeated or delayed into later games.                    *)
StopsOnNonsenseOnly ==
    [][stopping' # stopping /\ Looking => Next1 \in Faulty]_vars

(* The GUI gets each pixel and elimination under the name of the player    *)
(* whose it is in the game it is of, whatever game the client was shown    *)
(* before.                                                                 *)
ShownUnderItsName ==
    \A i \in DOMAIN events :
        InGame(events[i].record) =>
            LET names == Games[events[i].of][1].names
                who   == events[i].record.player + 1
            IN  who \in DOMAIN names /\ events[i].name = names[who]

(* Whatever the server sends, the GUI gets only pixels inside the board,   *)
(* and only of players, that the last NEW_GAME it got has named            *)
(* (README.md:345).                                                        *)
Started(i, j) ==
    /\ j < i /\ events[j].record.type = "NEW_GAME"
    /\ \A k \in j + 1 .. i - 1 : events[k].record.type # "NEW_GAME"

ShownMakesSense ==
    \A i \in DOMAIN events :
        LET r == events[i].record
        IN  InGame(r) =>
               \E j \in DOMAIN events :
                  LET start == events[j].record
                  IN  /\ Started(i, j)
                      /\ \E p \in DOMAIN start.names :
                            start.names[p] = events[i].name
                      /\ r.type = "PIXEL" => r.x < start.width

(* A client that stays with a game and goes on is shown all its events: of *)
(* a datagram, those before a damaged record stay in force (README.md:365).*)
IsShown(g, i) ==
    \E j \in DOMAIN events :
        events[j].of = g /\ events[j].record.no = Games[g][i].no

AllAreShown ==
    \A g \in DOMAIN Games :
        <>[](game_id = g /\ ~stopping) =>
            \A i \in DOMAIN Games[g] :
                (InGame(Games[g][i]) \/ i = 1) => <>IsShown(g, i)
=============================================================================
