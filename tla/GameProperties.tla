-------------------------- MODULE GameProperties --------------------------
(***************************************************************************)
(* What the game of module Game promises.                                  *)
(***************************************************************************)
EXTENDS Game

(* Every variable has its type; the threads are at a known place.          *)
Places == {"none", "check", "frame", "move", "over", "initialize", "players"}

Event ==
    [type : {"NEW_GAME"}, no : {0}, names : Seq(Names)]
      \cup [type : {"PIXEL"}, no : Nat, player : Nat, pixel : Pixels]
      \cup [type : {"PLAYER_ELIMINATED"}, no : Nat, player : Nat]

TypeOK ==
    /\ running \in BOOLEAN /\ starting \in BOOLEAN
    /\ Connected \subseteq Names /\ players \in [Connected -> Player]
    /\ players_ready_count \in 0 .. CountMod - 1
    /\ pressed \subseteq Names
    /\ snakes \in Seq(Snake)
    /\ occupied \subseteq Pixels
    /\ snakes_alive_count \in Int
    /\ event_no \in Nat /\ game_id \in Nat /\ last_rand \in Rands
    /\ events \in Seq(Event)
    /\ pc \in [Loops -> Places]
    /\ frame_i \in [Loops -> Nat \ {0}]

Ready == {nm \in Connected : players[nm].ready}
AliveSnakes == {i \in DOMAIN snakes : snakes[i].alive}

-----------------------------------------------------------------------------
(* Threads.                                                                *)

(* At most one thread runs game_loop(): rounds come at ROUNDS_PER_SEC and   *)
(* no two threads move the same snakes.                                    *)
AtMostOneLoop ==
    \A l, m \in Loops : pc[l] # "none" /\ pc[m] # "none" => l = m

(* A running game has a thread that plays it, so it cannot hang with       *)
(* running set and every arrow taken for a turn.                           *)
RunningHasLoop ==
    running /\ ~starting => \E l \in Loops : pc[l] # "none"

-----------------------------------------------------------------------------
(* The start of a game.                                                    *)

(* players_ready_count counts the players that are ready, whoever joined,  *)
(* left, pressed or was reset, and in whatever order (it is out of step    *)
(* only in the middle of initialize()).                                    *)
ReadyCountExact ==
    (\A l \in Loops : pc[l] # "players")
        => players_ready_count = Cardinality(Ready)

(* A game starts only when every connected player has sent an arrow since  *)
(* the last game ended.                                                    *)
StartNeedsAllReady ==
    [][starting' /\ ~starting =>
          Cardinality(DOMAIN players') >= 2 /\ DOMAIN players' \subseteq pressed'
      ]_vars

(* As soon as all (two or more) connected players have sent an arrow, a    *)
(* game runs: no order of joining, pressing and leaving leaves players     *)
(* waiting for a start that never comes.                                   *)
NoMissedStart ==
    ~(~running /\ Cardinality(Connected) >= 2 /\ Connected \subseteq pressed)

-----------------------------------------------------------------------------
(* The game and its events.                                                *)

(* snakes_alive_count, which alone decides the end of the game, is the     *)
(* number of snakes alive.                                                 *)
AliveCountExact == snakes_alive_count = Cardinality(AliveSnakes)

(* A player marked in_game owns, under his player_no, the snake that the    *)
(* NEW_GAME event announced for his name: arrows steer the right snake,    *)
(* also after others left, joined, or rejoined under a name of the game.   *)
InGameIsInRoster ==
    \A nm \in Connected :
        players[nm].in_game /\ events # << >> =>
            /\ players[nm].player_no + 1 \in DOMAIN snakes
            /\ players[nm].player_no + 1 \in DOMAIN events[1].names
            /\ events[1].names[players[nm].player_no + 1] = nm

(* An event's position in the store is its number: get_events(n) uses n as *)
(* an index, so a client that asks for n gets n.                           *)
StoreIndexIsEventNo ==
    /\ \A i \in DOMAIN events : events[i].no = i - 1
    /\ events # << >> =>
          event_no = Len(events) /\ events[1].type = "NEW_GAME"

(* Two games in a row have different ids, so an event is known by its      *)
(* game_id and event_no: a client that follows one game is never given an  *)
(* event of the next for one of its own.                                   *)
IdsTellGamesApart == [][event_no' < event_no => game_id' # game_id]_vars

PixelsOf(evs) == {i \in DOMAIN evs : evs[i].type = "PIXEL"}

(* The stored PIXEL events are exactly the occupied fields, each once: a   *)
(* client that draws them sees the board the server collides snakes with.  *)
BoardIsStored ==
    events # << >> =>
        /\ occupied = {events[i].pixel : i \in PixelsOf(events)}
        /\ \A i, j \in PixelsOf(events) :
              events[i].pixel = events[j].pixel => i = j

EliminatedAt(i, k) ==
    events[i].type = "PLAYER_ELIMINATED" /\ events[i].player = k - 1

(* A snake is dead iff its elimination is stored, it is eliminated once,   *)
(* and nothing about it is stored afterwards.                              *)
EliminationIsFinal ==
    events # << >> =>
        \A k \in DOMAIN snakes :
            /\ ~snakes[k].alive <=> \E i \in DOMAIN events : EliminatedAt(i, k)
            /\ \A i, j \in DOMAIN events :
                  EliminatedAt(i, k) /\ i < j /\ events[j].type # "NEW_GAME" =>
                      events[j].player # k - 1

-----------------------------------------------------------------------------
(* Every game that runs comes to an end.                                   *)
GameEnds == running ~> ~running
=============================================================================
