-------------------------------- MODULE Game --------------------------------
(***************************************************************************)
(* One server's game: class Game (siktacka/game.cc) with its Board and     *)
(* Snakes, and the event store Server::on_event keeps for it               *)
(* (server/server.cc, server/events.cc).                                   *)
(*                                                                         *)
(* A definition whose name no action uses is the mistaken form of the one  *)
(* that follows it; PROJECT.json says which property tells them apart.     *)
(*                                                                         *)
(* Two kinds of threads run this code.  The server's network thread calls  *)
(* add_player, player_action and remove_player; each holds players_mutex   *)
(* from its first line to its last, so a call is one step, except that the *)
(* call which starts a game is two: start() sets running (the caller keeps *)
(* the mutex: `starting`), then new_game() and the creation of the thread. *)
(* Every started game has its own detached thread in game_loop(), which    *)
(* takes no lock at all: its accesses to the shared members are steps of   *)
(* their own, and nothing but `running` tells a thread of a finished game  *)
(* to stop.                                                                *)
(***************************************************************************)
EXTENDS Random, FiniteSets, Sequences

CONSTANTS
    Names,      \* player names; std::map visits them in the order of <
    MaxInGame,  \* how many names fit a NEW_GAME event (event_new_game.cc:38)
    Width,      \* game_options.width
    Height,     \* game_options.height
    Directions, \* values of turn_direction a client may send
    NONE,       \* direction_t::NONE, "no arrow is pressed"
    CountMod,   \* 2^8 in the code: players_ready_count is a uint8_t
    Loops,      \* threads that may be in game_loop() at once (a bound)
    Quiet       \* TRUE: no call of the network thread falls between
                \* `running = false` and the exit of that game's thread

ASSUME NamesAssumption == Names \subseteq Nat /\ IsFiniteSet(Names)
ASSUME SizesAssumption ==
    /\ MaxInGame \in Nat \ {0, 1}
    /\ Width \in Nat \ {0} /\ Height \in Nat \ {0}
    /\ CountMod \in Nat \ {0}
ASSUME DirectionsAssumption == NONE \in Directions
ASSUME QuietAssumption == Quiet \in BOOLEAN

VARIABLES
    running,             \* Game::running
    starting,            \* start() has set running and is in new_game()
    players,             \* Game::players: name -> Player
    players_ready_count, \* Game::players_ready_count
    snakes,              \* Game::snakes
    occupied,            \* the fields of Game::board that are OCCUPIED
    snakes_alive_count,  \* Game::snakes_alive_count
    event_no,            \* Game::event_no
    game_id,             \* Game::game_id
    events,              \* Server::events
    pc,                  \* where each thread in game_loop() is
    frame_i,             \* do_frame()'s loop variable, plus one
    pressed              \* ghost: who has sent an arrow since the last
                         \* game ended; read by properties only

netVars  == <<players, players_ready_count, pressed>>
playVars == <<snakes, occupied, snakes_alive_count, event_no, events>>
idVars   == <<game_id, last_rand>>
vars == <<running, starting, netVars, playVars, idVars, pc, frame_i>>

-----------------------------------------------------------------------------
(* Board and snakes.                                                       *)

Pixels == (0 .. Width - 1) \X (0 .. Height - 1)

Player == [player_no : Nat, in_game : BOOLEAN, ready : BOOLEAN]
Snake  == [alive : BOOLEAN, pos : (0 .. Width) \X (0 .. Height),
           dir : Directions]
NewPlayer == [player_no |-> 0, in_game |-> FALSE, ready |-> FALSE]

IsEmpty(p) == p[1] < Width /\ p[2] < Height /\ p \notin occupied

(* The pixel coordinates a head can have after moving by one unit from     *)
(* coordinate c.  static_cast<pixel_t> of anything below -1 is far outside *)
(* the board; like every coordinate past the edge it is `size`.            *)
NearSigned(c, size) == {d \in -1 .. size : d <= c + 1 /\ c <= d + 1}
Near(c, size) == {d \in 0 .. size : d <= c + 1 /\ c <= d + 1}
                    \cup (IF c = 0 THEN {size} ELSE {})

(* Snake::move when it returns true: the angles are abstracted to every    *)
(* pixel one unit away.                                                    *)
MovedFrom(p) == {q \in Near(p[1], Width) \X Near(p[2], Height) : q # p}

-----------------------------------------------------------------------------
(* Events.                                                                 *)

NewGameEvent(names) == [type |-> "NEW_GAME", no |-> 0, names |-> names]
PixelEvent(no, i, p) ==
    [type |-> "PIXEL", no |-> no, player |-> i - 1, pixel |-> p]
EliminatedEvent(no, i) ==
    [type |-> "PLAYER_ELIMINATED", no |-> no, player |-> i - 1]

(* Server::on_event: a GAME_OVER empties the store, any other event is     *)
(* appended to it.                                                         *)
Store(new) == events' = events \o new
ClearStore == events' = << >>

-----------------------------------------------------------------------------
(* Calls of the network thread, each under players_mutex.                  *)

Connected == DOMAIN players

CallAllowed ==
    /\ ~starting
    /\ Quiet => running \/ \A l \in Loops : pc[l] = "none"

(* start(), first part: decide, and set running.                           *)
AllReady(pl, count) ==
    Cardinality(DOMAIN pl) >= 2 /\ count >= Cardinality(DOMAIN pl)

Start(pl, count) ==
    /\ running'  = (running \/ AllReady(pl, count))
    /\ starting' = AllReady(pl, count)

AddPlayer(nm) ==
    /\ CallAllowed
    /\ nm \notin Connected
    /\ players' = [m \in Connected \cup {nm} |->
                      IF m = nm THEN NewPlayer ELSE players[m]]
    /\ pressed' = pressed \ {nm}
    /\ UNCHANGED <<running, starting, players_ready_count, playVars, idVars,
                   pc, frame_i>>

(* starting_action ignores all but the first arrow of a player.            *)
AnyArrow(nm) == TRUE
FirstArrow(nm) == ~players[nm].ready

StartingAction(nm, d) ==
    /\ CallAllowed /\ ~running
    /\ nm \in Connected
    /\ d # NONE
    /\ pressed' = pressed \cup {nm}
    /\ IF FirstArrow(nm)
       THEN /\ players' = [players EXCEPT ![nm].ready = TRUE]
            /\ players_ready_count' = (players_ready_count + 1) % CountMod
            /\ Start(players', players_ready_count')
       ELSE UNCHANGED <<running, starting, players, players_ready_count>>
    /\ UNCHANGED <<playVars, idVars, pc, frame_i>>

(* running_action: steer the snake of a player who is in the game.  An     *)
(* index past the last snake is undefined behaviour in the code; the       *)
(* invariant InGameIsInRoster says it does not occur.                      *)
RunningAction(nm, d) ==
    /\ CallAllowed /\ running
    /\ nm \in Connected
    /\ players[nm].in_game
    /\ players[nm].player_no + 1 \in DOMAIN snakes
    /\ snakes' = [snakes EXCEPT ![players[nm].player_no + 1].dir = d]
    /\ UNCHANGED <<running, starting, netVars, occupied, snakes_alive_count,
                   event_no, events, idVars, pc, frame_i>>

(* remove_player's effect on the count, and its call of start().           *)
CountKept(nm) == players_ready_count
CountWithout(nm) ==
    IF players[nm].ready THEN (players_ready_count - 1) % CountMod
                         ELSE players_ready_count

StartAlways(pl, count) == Start(pl, count)
StartNever(pl, count) == UNCHANGED <<running, starting>>
StartIfStopped(pl, count) ==
    IF running THEN UNCHANGED <<running, starting>> ELSE Start(pl, count)

RemovePlayer(nm) ==
    /\ CallAllowed
    /\ nm \in Connected
    /\ players' = [m \in Connected \ {nm} |-> players[m]]
    /\ players_ready_count' = CountWithout(nm)
    /\ pressed' = pressed \ {nm}
    /\ StartIfStopped(players', players_ready_count')
    /\ UNCHANGED <<playVars, idVars, pc, frame_i>>

-----------------------------------------------------------------------------
(* start(), second part: new_game() and the new thread.                    *)

Rank(nm) == Cardinality({m \in Connected : m < nm})
InNewGame == {nm \in Connected : Rank(nm) < MaxInGame}
NewSize == Cardinality(InNewGame)
Roster == [i \in 1 .. NewSize |-> CHOOSE nm \in InNewGame : Rank(nm) = i - 1]

(* Heads are placed in the order of the roster: a head on the pixel of an  *)
(* earlier one is eliminated at once (place_snake).                        *)
FreeHead(start, i) == \A j \in 1 .. i - 1 : start[j] # start[i]

StartingSnakes(start) ==
    [i \in 1 .. NewSize |->
        [alive |-> FreeHead(start, i), pos |-> start[i], dir |-> NONE]]

StartingEvents(start) ==
    <<NewGameEvent(Roster)>> \o
    [i \in 1 .. NewSize |->
        IF FreeHead(start, i) THEN PixelEvent(event_no + i - 1, i, start[i])
                              ELSE EliminatedEvent(event_no + i - 1, i)]

(* make_snake draws x, y and an angle in the arguments of one call, which  *)
(* C++ evaluates in an order that it leaves to the compiler: order[1] is   *)
(* which of the three draws became x, order[2] which became y.             *)
ArgumentOrders ==
    {o \in [1 .. 3 -> 0 .. 2] : \A i, j \in 1 .. 3 : i # j => o[i] # o[j]}

HeadOf(i, order) == <<Drawn[3 * (i - 1) + order[1]] % Width,
                      Drawn[3 * (i - 1) + order[2]] % Height>>
Starts ==
    {start \in [1 .. NewSize -> Pixels] :
        \E order \in ArgumentOrders :
            \A i \in 1 .. NewSize : start[i] = HeadOf(i, order)}

Spawn(l) ==
    /\ pc[l] = "none"
    /\ pc' = [pc EXCEPT ![l] = "check"]
    /\ UNCHANGED frame_i

NewGame ==
    /\ starting
    /\ \E start \in Starts :
          /\ snakes' = StartingSnakes(start)
          /\ occupied' = {start[i] : i \in 1 .. NewSize}
          /\ snakes_alive_count' =
                Cardinality({i \in 1 .. NewSize : FreeHead(start, i)})
          /\ Store(StartingEvents(start))
    /\ last_rand' \in Rands /\ last_rand' = Drawn[3 * NewSize]
    /\ event_no' = event_no + NewSize
    /\ players' = [nm \in Connected |->
                      IF nm \in InNewGame
                      THEN [players[nm] EXCEPT !.player_no = Rank(nm),
                                               !.in_game = TRUE]
                      ELSE players[nm]]
    /\ \E l \in Loops : Spawn(l)
    /\ starting' = FALSE
    /\ UNCHANGED <<running, players_ready_count, pressed, game_id>>

-----------------------------------------------------------------------------
(* The thread of one game: game_loop() and do_frame().                     *)

Goto(l, at) == pc' = [pc EXCEPT ![l] = at]

(* while (running)                                                         *)
RunningWithRivals == running /\ snakes_alive_count > 1
GoesOn == running

Check(l) ==
    /\ pc[l] = "check"
    /\ Goto(l, IF GoesOn THEN "frame" ELSE "none")
    /\ UNCHANGED <<running, starting, netVars, playVars, idVars, frame_i>>

(* do_frame with more than one snake alive: begin to visit the snakes.     *)
BeginFrame(l) ==
    /\ pc[l] = "frame" /\ snakes_alive_count > 1
    /\ Goto(l, "move")
    /\ frame_i' = [frame_i EXCEPT ![l] = 1]
    /\ UNCHANGED <<running, starting, netVars, playVars, idVars>>

(* A snake that is dead, or whose move did not change its pixel.           *)
SkipSnake(l) ==
    /\ pc[l] = "move" /\ frame_i[l] \in DOMAIN snakes
    /\ frame_i' = [frame_i EXCEPT ![l] = @ + 1]
    /\ UNCHANGED <<running, starting, netVars, playVars, idVars, pc>>

(* mark_occupied, Snake::die and the decrement that goes with it.          *)
Unmarked(p) == occupied
Marked(p) == occupied \cup {p}

Undead(i, p) == [snakes EXCEPT ![i].pos = p]
Dead(i, p) == [snakes EXCEPT ![i].pos = p, ![i].alive = FALSE]

SameAlive == snakes_alive_count
OneLessAlive == snakes_alive_count - 1

(* place_snake(snake, i) at pixel p, and the event it returns.             *)
PlaceSnake(i, p) ==
    IF IsEmpty(p)
    THEN /\ snakes' = [snakes EXCEPT ![i].pos = p]
         /\ occupied' = Marked(p)
         /\ Store(<<PixelEvent(event_no, i, p)>>)
         /\ UNCHANGED snakes_alive_count
    ELSE /\ snakes' = Dead(i, p)
         /\ Store(<<EliminatedEvent(event_no, i)>>)
         /\ snakes_alive_count' = OneLessAlive
         /\ UNCHANGED occupied

Exists(i) == i \in DOMAIN snakes
IsAlive(i) == i \in DOMAIN snakes /\ snakes[i].alive

MoveSnake(l) ==
    /\ pc[l] = "move" /\ IsAlive(frame_i[l])
    /\ \E p \in MovedFrom(snakes[frame_i[l]].pos) : PlaceSnake(frame_i[l], p)
    /\ event_no' = event_no + 1
    /\ frame_i' = [frame_i EXCEPT ![l] = @ + 1]
    /\ UNCHANGED <<running, starting, netVars, idVars, pc>>

(* The end of do_frame; the thread then sleeps and checks running again.   *)
EndFrame(l) ==
    /\ pc[l] = "move" /\ frame_i[l] \notin DOMAIN snakes
    /\ Goto(l, "check")
    /\ UNCHANGED <<running, starting, netVars, playVars, idVars, frame_i>>

(* do_frame with at most one snake alive: GAME_OVER ...                    *)
GameOver(l) ==
    /\ pc[l] = "frame" /\ snakes_alive_count <= 1
    /\ event_no' = event_no + 1
    /\ ClearStore
    /\ Goto(l, "over")
    /\ UNCHANGED <<running, starting, netVars, snakes, occupied,
                   snakes_alive_count, idVars, frame_i>>

(* ... then running = false ...                                            *)
StopRunning(l) ==
    /\ pc[l] = "over"
    /\ running' = FALSE
    /\ pressed' = {}
    /\ Goto(l, "initialize")
    /\ UNCHANGED <<starting, players, players_ready_count, playVars, idVars,
                   frame_i>>

(* ... then initialize(): the counters first, the players last.            *)
EventNoKept == event_no
FirstEventNo == 1

KeepInGame(pl) == [pl EXCEPT !.ready = FALSE]
ResetPlayer(pl) == [pl EXCEPT !.ready = FALSE, !.in_game = FALSE]

ResetCounters(l) ==
    /\ pc[l] = "initialize"
    /\ game_id' = last_rand /\ last_rand' = Following(last_rand)
    /\ players_ready_count' = 0
    /\ event_no' = FirstEventNo
    /\ Goto(l, "players")
    /\ UNCHANGED <<running, starting, players, pressed, snakes, occupied,
                   snakes_alive_count, events, frame_i>>

ResetPlayers(l) ==
    /\ pc[l] = "players"
    /\ players' = [nm \in Connected |-> ResetPlayer(players[nm])]
    /\ Goto(l, "check")
    /\ UNCHANGED <<running, starting, players_ready_count, pressed, playVars,
                   idVars, frame_i>>

Loop(l) ==
    \/ Check(l) \/ BeginFrame(l) \/ SkipSnake(l) \/ MoveSnake(l)
    \/ EndFrame(l) \/ GameOver(l) \/ StopRunning(l) \/ ResetCounters(l)
    \/ ResetPlayers(l)

-----------------------------------------------------------------------------
Init ==
    /\ running = FALSE /\ starting = FALSE
    /\ players = [nm \in {} |-> NewPlayer] /\ players_ready_count = 0 /\ pressed = {}
    /\ snakes = << >> /\ occupied = {} /\ snakes_alive_count = 0
    /\ event_no = 1 /\ events = << >>
    /\ game_id \in Seeds /\ last_rand = Following(game_id)
    /\ pc = [l \in Loops |-> "none"]
    /\ frame_i = [l \in Loops |-> 1]

Next ==
    \/ \E nm \in Names : AddPlayer(nm) \/ RemovePlayer(nm)
    \/ \E nm \in Names, d \in Directions :
          StartingAction(nm, d) \/ RunningAction(nm, d)
    \/ NewGame
    \/ \E l \in Loops : Loop(l)

Spec == Init /\ [][Next]_vars

(* The operating system runs every thread that can run; and a game whose   *)
(* snakes are allowed to move for ever does make one enter a new pixel     *)
(* again and again (a snake circling inside one pixel is excluded).        *)
Fairness ==
    /\ WF_vars(NewGame)
    /\ \A l \in Loops : WF_vars(Loop(l)) /\ SF_vars(MoveSnake(l))

LiveSpec == Spec /\ Fairness
=============================================================================
