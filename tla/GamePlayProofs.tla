--------------------------- MODULE GamePlayProofs ---------------------------
(***************************************************************************)
(* Proofs about module Game: what the events of a game say, the board, the *)
(* snakes and the players they are about.                                  *)
(***************************************************************************)
EXTENDS GameProofs, WellFoundedInduction

USE NamesAssumption, SizesAssumption, DirectionsAssumption, QuietAssumption

(* An action is one of the calls of the network thread.                    *)
Call(nm, d) ==
    AddPlayer(nm) \/ RemovePlayer(nm) \/ StartingAction(nm, d)
      \/ RunningAction(nm, d)

-----------------------------------------------------------------------------
(* The count of the living.                                                *)

(* Snakes of the same number, each alive as before, are counted as before. *)
LEMMA AliveSame ==
  ASSUME AliveCountExact, snakes_alive_count' = snakes_alive_count,
         DOMAIN snakes' = DOMAIN snakes,
         \A k \in DOMAIN snakes : snakes'[k].alive = snakes[k].alive
  PROVE  AliveCountExact'
<1>1. AliveSnakes' = AliveSnakes
  BY DEF AliveSnakes
<1> QED
  BY <1>1 DEF AliveCountExact

(* A call changes the direction of a snake at most.                        *)
LEMMA CallKeepsSnakes ==
  ASSUME TypeOK, NEW nm \in Names, NEW d \in Directions, Call(nm, d)
  PROVE  /\ pc' = pc /\ CallAllowed
         /\ UNCHANGED <<occupied, snakes_alive_count, event_no, events, idVars,
                        frame_i>>
         /\ DOMAIN snakes' = DOMAIN snakes
         /\ \A k \in DOMAIN snakes : snakes'[k].alive = snakes[k].alive
<1>1. /\ pc' = pc /\ CallAllowed
      /\ UNCHANGED <<occupied, snakes_alive_count, event_no, events, idVars,
                     frame_i>>
  BY DEF Call, AddPlayer, RemovePlayer, StartingAction, RunningAction, playVars,
         idVars
<1>2. CASE RunningAction(nm, d)
  <2> DEFINE i == players[nm].player_no + 1
  <2>1. i \in DOMAIN snakes /\ snakes' = [snakes EXCEPT ![i].dir = d]
    BY <1>2 DEF RunningAction
  <2>2. snakes \in Seq(Snake) /\ DOMAIN snakes = 1 .. Len(snakes)
    BY DEF TypeOK
  <2>3. \A k \in DOMAIN snakes : snakes[k] \in Snake
    BY <2>2, ElementOfSeq
  <2>4. DOMAIN snakes' = DOMAIN snakes
    BY <2>1
  <2>5. \A k \in DOMAIN snakes : snakes'[k].alive = snakes[k].alive
    BY <2>1, <2>3 DEF Snake
  <2> QED
    BY <1>1, <2>4, <2>5
<1>3. CASE ~RunningAction(nm, d)
  <2>1. snakes' = snakes
    BY <1>3 DEF Call, AddPlayer, RemovePlayer, StartingAction, playVars
  <2> QED
    BY <1>1, <2>1
<1> QED
  BY <1>2, <1>3

(* The snakes of a new game are counted by their free heads.               *)
LEMMA AliveNewGame == ASSUME TypeOK, NewGame PROVE AliveCountExact'
<1>1. PICK start \in Starts :
         /\ snakes' = StartingSnakes(start)
         /\ snakes_alive_count' =
               Cardinality({i \in 1 .. NewSize : FreeHead(start, i)})
  BY Zenon DEF NewGame
<1>2. DOMAIN StartingSnakes(start) = 1 .. NewSize
      /\ \A i \in 1 .. NewSize : StartingSnakes(start)[i].alive = FreeHead(start, i)
  BY DEF StartingSnakes
<1>3. AliveSnakes' = {i \in 1 .. NewSize : FreeHead(start, i)}
  BY <1>1, <1>2 DEF AliveSnakes
<1> QED
  BY <1>1, <1>3 DEF AliveCountExact

(* What placing a moved snake does to it.                                  *)
LEMMA Placed ==
  ASSUME TypeOK, NEW l \in Loops, MoveSnake(l)
  PROVE  \E i \in DOMAIN snakes, p \in (0 .. Width) \X (0 .. Height) :
           /\ i = frame_i[l] /\ snakes[i].alive
           /\ PlaceSnake(i, p)
           /\ DOMAIN snakes' = DOMAIN snakes
           /\ snakes'[i].alive <=> IsEmpty(p)
           /\ \A k \in DOMAIN snakes \ {i} : snakes'[k] = snakes[k]
<1> DEFINE i == frame_i[l]
<1>1. i \in DOMAIN snakes /\ snakes[i].alive
  BY DEF MoveSnake, IsAlive
<1>2. snakes \in Seq(Snake) /\ DOMAIN snakes = 1 .. Len(snakes)
  BY DEF TypeOK
<1>3. \A k \in DOMAIN snakes : snakes[k] \in Snake
  BY <1>2, ElementOfSeq
<1>4. PICK p \in MovedFrom(snakes[i].pos) : PlaceSnake(i, p)
  BY DEF MoveSnake
<1>5. p \in (0 .. Width) \X (0 .. Height)
  <2>1. snakes[i].pos \in (0 .. Width) \X (0 .. Height)
    BY <1>1, <1>3 DEF Snake
  <2> QED
    BY <2>1, MovedType
<1>6. CASE IsEmpty(p)
  <2>1. snakes' = [snakes EXCEPT ![i].pos = p]
    BY <1>4, <1>6, Zenon DEF PlaceSnake
  <2>2. DOMAIN snakes' = DOMAIN snakes /\ \A k \in DOMAIN snakes \ {i} : snakes'[k] = snakes[k]
    BY <2>1
  <2>3. snakes'[i].alive = snakes[i].alive
    BY <1>1, <1>3, <2>1 DEF Snake
  <2>4. snakes'[i].alive <=> IsEmpty(p)
    BY <1>1, <1>6, <2>3
  <2> QED
    BY <1>1, <1>4, <1>5, <2>2, <2>4
<1>7. CASE ~IsEmpty(p)
  <2>1. snakes' = [snakes EXCEPT ![i].pos = p, ![i].alive = FALSE]
    BY <1>4, <1>7, Zenon DEF PlaceSnake, Dead
  <2>2. DOMAIN snakes' = DOMAIN snakes /\ \A k \in DOMAIN snakes \ {i} : snakes'[k] = snakes[k]
    BY <2>1
  <2>3. ~snakes'[i].alive
    BY <1>1, <1>3, <2>1 DEF Snake
  <2>4. snakes'[i].alive <=> IsEmpty(p)
    BY <1>7, <2>3
  <2> QED
    BY <1>1, <1>4, <1>5, <2>2, <2>4
<1> QED
  BY <1>6, <1>7

(* A snake that moves is counted until it dies.                            *)
LEMMA AliveMove ==
  ASSUME TypeOK, AliveCountExact, NEW l \in Loops, MoveSnake(l)
  PROVE  AliveCountExact'
<1>1. PICK i \in DOMAIN snakes, p \in (0 .. Width) \X (0 .. Height) :
         /\ snakes[i].alive
         /\ PlaceSnake(i, p)
         /\ DOMAIN snakes' = DOMAIN snakes
         /\ snakes'[i].alive <=> IsEmpty(p)
         /\ \A k \in DOMAIN snakes \ {i} : snakes'[k] = snakes[k]
  BY Placed
<1>2. IsFiniteSet(AliveSnakes)
  <2>1. DOMAIN snakes = 1 .. Len(snakes) /\ Len(snakes) \in Nat
    BY DEF TypeOK
  <2>2. IsFiniteSet(DOMAIN snakes)
    BY <2>1, FS_Interval
  <2> QED
    BY <2>2, FS_Subset DEF AliveSnakes
<1>3. CASE IsEmpty(p)
  <2>1. AliveSnakes' = AliveSnakes
    BY <1>1, <1>3 DEF AliveSnakes
  <2>2. snakes_alive_count' = snakes_alive_count
    BY <1>1, <1>3, Zenon DEF PlaceSnake
  <2> QED
    BY <2>1, <2>2 DEF AliveCountExact
<1>4. CASE ~IsEmpty(p)
  <2>1. AliveSnakes' = AliveSnakes \ {i} /\ i \in AliveSnakes
    BY <1>1, <1>4 DEF AliveSnakes
  <2>2. Cardinality(AliveSnakes \ {i}) = Cardinality(AliveSnakes) - 1
    BY <1>2, <2>1, FS_RemoveElement
  <2>3. snakes_alive_count' = snakes_alive_count - 1
    BY <1>1, <1>4, Zenon DEF PlaceSnake, OneLessAlive
  <2> QED
    BY <2>1, <2>2, <2>3 DEF AliveCountExact
<1> QED
  BY <1>3, <1>4

(* The count that ends the game is that of the snakes alive (invariant     *)
(* AliveCountExact), whatever Quiet: also when two threads move snakes.    *)
THEOREM AliveCount == Spec => []AliveCountExact
<1>1. Init => AliveCountExact
  BY FS_EmptySet DEF Init, AliveCountExact, AliveSnakes
<1>2. TypeOK /\ AliveCountExact /\ [Next]_vars => AliveCountExact'
  <2> SUFFICES ASSUME TypeOK, AliveCountExact, [Next]_vars PROVE AliveCountExact'
    OBVIOUS
  <2>1. ASSUME NEW nm \in Names, NEW d \in Directions, Call(nm, d)
        PROVE  AliveCountExact'
    BY <2>1, CallKeepsSnakes, AliveSame
  <2>2. CASE NewGame
    BY <2>2, AliveNewGame
  <2>3. ASSUME NEW l \in Loops, Loop(l) PROVE AliveCountExact'
    <3>1. CASE MoveSnake(l)
      BY <3>1, AliveMove
    <3>2. CASE ~MoveSnake(l)
      <4>1. snakes' = snakes /\ snakes_alive_count' = snakes_alive_count
        BY <2>3, <3>2
           DEF Loop, Check, BeginFrame, SkipSnake, EndFrame, GameOver,
               StopRunning, ResetCounters, ResetPlayers, playVars
      <4> QED
        BY <4>1, AliveSame
    <3> QED
      BY <3>1, <3>2
  <2>4. CASE UNCHANGED vars
    <3>1. snakes' = snakes /\ snakes_alive_count' = snakes_alive_count
      BY <2>4 DEF vars, playVars
    <3> QED
      BY <3>1, AliveSame
  <2> QED
    BY <2>1, <2>2, <2>3, <2>4, DirectionsAssumption DEF Next, Call
<1> QED
  BY <1>1, <1>2, TypeCorrect, PTL DEF Spec

-----------------------------------------------------------------------------
(* The phases of a game.                                                   *)

(* Events are stored from new_game to GAME_OVER; the number of the next    *)
(* one is reset before anything is stored; and nobody is in a game when    *)
(* none is on.                                                             *)
PhaseInv ==
    /\ events # << >> <=>
          running /\ ~starting /\ \A l \in Loops : pc[l] # "over"
    /\ events = << >> /\ (\A l \in Loops : pc[l] \notin {"over", "initialize"})
          => event_no = 1
    /\ (~running \/ starting) /\ ~Ending
          => \A nm \in Connected : ~players[nm].in_game

(* A call finds no thread in the end of a game, and starts only when none  *)
(* is running.                                                             *)
LEMMA CallPhase ==
  ASSUME Quiet, TypeOK, LoopInv, NEW nm \in Names, NEW d \in Directions,
         Call(nm, d)
  PROVE  /\ ~starting /\ ~Ending /\ ~Ending'
         /\ ~running => \A l \in Loops : pc[l] = "none"
         /\ running => running' /\ ~starting'
         /\ ~running => (running' <=> starting')
<1>1. CallAllowed /\ pc' = pc
  BY CallKeepsSnakes
<1>2. ~starting /\ ~Ending /\ ~Ending'
      /\ (~running => \A l \in Loops : pc[l] = "none")
  BY <1>1 DEF CallAllowed, LoopInv, Ending
<1>3. CASE AddPlayer(nm) \/ RunningAction(nm, d)
  <2>1. running' = running /\ starting' = starting
    BY <1>3, Zenon DEF AddPlayer, RunningAction
  <2> QED
    BY <1>2, <2>1
<1>4. CASE RemovePlayer(nm)
  <2>1. StartIfStopped(players', players_ready_count')
    BY <1>4, Zenon DEF RemovePlayer
  <2>2. running => running' = running /\ starting' = starting
    BY <2>1, Zenon DEF StartIfStopped
  <2>3. ~running => (running' <=> starting')
    BY <2>1, Zenon DEF StartIfStopped, Start, AllReady
  <2> QED
    BY <1>2, <2>2, <2>3
<1>5. CASE StartingAction(nm, d)
  <2>1. ~running
    BY <1>5, Zenon DEF StartingAction
  <2>2. FirstArrow(nm) => Start(players', players_ready_count')
    BY <1>5, Zenon DEF StartingAction
  <2>3. ~FirstArrow(nm) => running' = running /\ starting' = starting
    BY <1>5, Zenon DEF StartingAction
  <2>4. FirstArrow(nm) => (running' <=> starting')
    BY <2>1, <2>2, Zenon DEF Start, AllReady
  <2> QED
    BY <1>2, <2>1, <2>3, <2>4
<1> QED
  BY <1>3, <1>4, <1>5 DEF Call

(* Calls leave a player in the game he is in, and put nobody into one.     *)
LEMMA CallKeepsInGame ==
  ASSUME TypeOK, NEW nm \in Names, NEW d \in Directions, Call(nm, d),
         NEW m \in Connected', players'[m].in_game
  PROVE  /\ m \in Connected /\ players[m].in_game
         /\ players'[m].player_no = players[m].player_no
<1>1. CASE AddPlayer(nm)
  BY <1>1 DEF AddPlayer, Connected, NewPlayer
<1>2. CASE RemovePlayer(nm)
  BY <1>2 DEF RemovePlayer, Connected
<1>3. CASE StartingAction(nm, d)
  <2>1. players \in [Connected -> Player]
    BY DEF TypeOK
  <2>2. \/ players' = [players EXCEPT ![nm].ready = TRUE]
        \/ players' = players
    BY <1>3 DEF StartingAction
  <2> QED
    BY <2>1, <2>2 DEF Connected, Player
<1>4. CASE RunningAction(nm, d)
  BY <1>4 DEF RunningAction, netVars, Connected
<1> QED
  BY <1>1, <1>2, <1>3, <1>4 DEF Call

(* What a new game stores: the announcement, then one event for each       *)
(* snake, in their order.                                                  *)
Placing(start, i) ==
    IF FreeHead(start, i) THEN PixelEvent(event_no + i - 1, i, start[i])
                          ELSE EliminatedEvent(event_no + i - 1, i)

LEMMA StartingShape ==
  ASSUME TypeOK, NEW start \in [1 .. NewSize -> Pixels]
  PROVE  /\ Len(StartingEvents(start)) = NewSize + 1
         /\ StartingEvents(start)[1] = NewGameEvent(Roster)
         /\ \A i \in 1 .. NewSize :
               StartingEvents(start)[i + 1] = Placing(start, i)
<1> DEFINE tail == [i \in 1 .. NewSize |-> Placing(start, i)]
<1>1. StartingEvents(start) = <<NewGameEvent(Roster)>> \o tail
  BY DEF StartingEvents, Placing
<1>2. NewSize \in Nat
  BY ConnectedFinite
<1>3. tail \in Seq({tail[i] : i \in 1 .. NewSize}) /\ Len(tail) = NewSize
      /\ \A i \in 1 .. NewSize : tail[i] = Placing(start, i)
  BY <1>2
<1> HIDE DEF tail
<1> QED
  BY <1>1, <1>2, <1>3

(* Every step keeps PhaseInv.                                              *)
LEMMA PhaseStep ==
  ASSUME Quiet, TypeOK, LoopInv, PhaseInv, [Next]_vars PROVE PhaseInv'
<1>1. ASSUME NEW nm \in Names, NEW d \in Directions, Call(nm, d)
      PROVE  PhaseInv'
  <2>1. pc' = pc /\ events' = events /\ event_no' = event_no
    BY <1>1, CallKeepsSnakes
  <2>2. /\ ~starting /\ ~Ending /\ ~Ending'
        /\ ~running => \A l \in Loops : pc[l] = "none"
        /\ running => running' /\ ~starting'
        /\ ~running => (running' <=> starting')
    BY <1>1, CallPhase
  <2>3. \A m \in Connected' : players'[m].in_game =>
           m \in Connected /\ players[m].in_game
    BY <1>1, CallKeepsInGame
  <2> QED
    BY <2>1, <2>2, <2>3 DEF PhaseInv
<1>2. CASE NewGame
  <2>1. PICK l \in Loops : pc' = [pc EXCEPT ![l] = "check"]
    BY <1>2 DEF NewGame, Spawn
  <2>2. starting /\ running' = running /\ ~starting'
    BY <1>2, Zenon DEF NewGame
  <2>3. running' /\ ~starting' /\ \A m \in Loops : pc'[m] # "over"
    BY <2>1, <2>2 DEF LoopInv, TypeOK
  <2>4. events' # << >>
    <3>1. PICK start \in Starts : events' = events \o StartingEvents(start)
      BY <1>2, Zenon DEF NewGame, Store
    <3>2. start \in [1 .. NewSize -> Pixels]
      BY DEF Starts
    <3>3. StartingEvents(start) \in Seq(Event) /\ events \in Seq(Event)
      BY <3>2, NewGameTypes DEF TypeOK
    <3>4. Len(StartingEvents(start)) = NewSize + 1 /\ NewSize \in Nat
      BY <3>2, StartingShape, ConnectedFinite
    <3> QED
      BY <3>1, <3>3, <3>4, ConcatProperties, EmptySeq
  <2> QED
    BY <2>3, <2>4 DEF PhaseInv
<1>3. ASSUME NEW l \in Loops, Loop(l) PROVE PhaseInv'
  <2>1. pc[l] # "none" /\ starting' = starting
    BY <1>3, Zenon
       DEF Loop, Check, BeginFrame, SkipSnake, MoveSnake, EndFrame, GameOver,
           StopRunning, ResetCounters, ResetPlayers
  <2>2. ~starting /\ ~starting' /\ \A m \in Loops : m # l => pc[m] = "none"
    BY <2>1 DEF LoopInv, AtMostOneLoop
  <2>3. \A m \in Loops : m # l => pc'[m] = "none"
    BY <1>3, <2>2 DEF Loop, Check, BeginFrame, SkipSnake, MoveSnake, EndFrame,
                      GameOver, StopRunning, ResetCounters, ResetPlayers, Goto, TypeOK
  <2>4. CASE Check(l) \/ BeginFrame(l) \/ SkipSnake(l) \/ EndFrame(l)
    <3>1. running' = running
      BY <2>4, Zenon DEF Check, BeginFrame, SkipSnake, EndFrame
    <3>4. UNCHANGED <<players, events, event_no>>
      BY <2>4 DEF Check, BeginFrame, SkipSnake, EndFrame, netVars, playVars
    <3>2. /\ pc[l] \in {"check", "frame", "move"}
          /\ pc'[l] \in {"none", "check", "frame", "move"}
      BY <2>4 DEF Check, BeginFrame, SkipSnake, EndFrame, Goto, TypeOK
    <3>3. ~Ending /\ ~Ending' /\ \A m \in Loops :
              pc[m] \notin {"over", "initialize"} /\ pc'[m] \notin {"over", "initialize"}
      BY <2>2, <2>3, <3>2 DEF Ending
    <3> QED
      BY <2>2, <3>1, <3>3, <3>4 DEF PhaseInv, Connected
  <2>5. CASE MoveSnake(l)
    <3>1. running' = running /\ pc' = pc /\ pc[l] = "move"
      BY <2>5, Zenon DEF MoveSnake
    <3>2. running /\ running'
      BY <3>1 DEF LoopInv
    <3>3. events' # << >>
      <4>1. PICK e : events' = events \o <<e>>
        BY <2>5 DEF MoveSnake, PlaceSnake, Store
      <4>2. events \in Seq(Event)
        BY DEF TypeOK
      <4> QED
        BY <4>1, <4>2
    <3>4. \A m \in Loops : pc'[m] # "over"
      BY <2>2, <3>1
    <3> QED
      BY <2>2, <3>2, <3>3, <3>4 DEF PhaseInv
  <2>6. CASE GameOver(l)
    <3>1. running' = running /\ pc[l] = "frame" /\ events' = << >>
      BY <2>6, Zenon DEF GameOver, ClearStore
    <3>2. running'
      BY <3>1 DEF LoopInv
    <3>3. pc'[l] = "over"
      BY <2>6 DEF GameOver, Goto, TypeOK
    <3> QED
      BY <2>2, <3>1, <3>2, <3>3 DEF PhaseInv
  <2>7. CASE StopRunning(l)
    <3>1. ~running'
      BY <2>7, Zenon DEF StopRunning
    <3>3. pc[l] = "over" /\ events' = events
      BY <2>7 DEF StopRunning, playVars
    <3>2. pc'[l] = "initialize"
      BY <2>7 DEF StopRunning, Goto, TypeOK
    <3> QED
      BY <3>1, <3>2, <3>3 DEF PhaseInv, Ending
  <2>8. CASE ResetCounters(l)
    <3>1. running' = running /\ pc[l] = "initialize" /\ events' = events
          /\ event_no' = 1
      BY <2>8, Zenon DEF ResetCounters, FirstEventNo
    <3>2. pc'[l] = "players"
      BY <2>8 DEF ResetCounters, Goto, TypeOK
    <3>3. ~running
      BY <3>1 DEF LoopInv
    <3> QED
      BY <3>1, <3>2, <3>3 DEF PhaseInv, Ending
  <2>9. CASE ResetPlayers(l)
    <3>1. running' = running
      BY <2>9, Zenon DEF ResetPlayers
    <3>7. /\ pc[l] = "players" /\ events' = events /\ event_no' = event_no
          /\ players' = [nm \in Connected |-> ResetPlayer(players[nm])]
      BY <2>9 DEF ResetPlayers, playVars
    <3>2. ~running
      BY <3>7 DEF LoopInv
    <3>3. events = << >>
      BY <3>2 DEF PhaseInv
    <3>4. event_no = 1
      BY <2>2, <3>7, <3>3 DEF PhaseInv
    <3>5. \A nm \in Connected : ~ResetPlayer(players[nm]).in_game
      BY DEF ResetPlayer, TypeOK, Player
    <3>6. \A nm \in Connected' : ~players'[nm].in_game
      BY <3>7, <3>5 DEF Connected
    <3> QED
      BY <3>1, <3>2, <3>3, <3>4, <3>6, <3>7 DEF PhaseInv
  <2> QED
    BY <1>3, <2>4, <2>5, <2>6, <2>7, <2>8, <2>9 DEF Loop
<1>4. CASE UNCHANGED vars
  BY <1>4 DEF vars, playVars, netVars, PhaseInv, Ending, Connected
<1> QED
  BY <1>1, <1>2, <1>3, <1>4, DirectionsAssumption DEF Next, Call

(* It holds throughout, if calls stay out of the end of a game.            *)
LEMMA PhaseInvariant == ASSUME Quiet PROVE Spec => []PhaseInv
<1>1. Init => PhaseInv
  <2> SUFFICES ASSUME Init PROVE PhaseInv
    OBVIOUS
  <2>1. ~running /\ ~starting
    BY Zenon DEF Init
  <2>2. events = << >> /\ event_no = 1 /\ Connected = {}
    BY DEF Init, Connected
  <2> QED
    BY <2>1, <2>2 DEF PhaseInv
<1>2. TypeOK /\ LoopInv /\ PhaseInv /\ [Next]_vars => PhaseInv'
  BY PhaseStep
<1> QED
  BY <1>1, <1>2, TypeCorrect, LoopInvariant, PTL DEF Spec

-----------------------------------------------------------------------------
(* What a step does to the store.                                          *)

(* A new game finds the store empty and the numbers reset, so the event of *)
(* snake i gets number i.                                                  *)
LEMMA StoredNewGame ==
  ASSUME Quiet, TypeOK, LoopInv, PhaseInv, NewGame
  PROVE  \E start \in [1 .. NewSize -> Pixels] :
           /\ Len(events') = NewSize + 1 /\ event_no' = NewSize + 1
           /\ events'[1] = NewGameEvent(Roster)
           /\ \A i \in 1 .. NewSize :
                events'[i + 1] = IF FreeHead(start, i)
                                 THEN PixelEvent(i, i, start[i])
                                 ELSE EliminatedEvent(i, i)
           /\ DOMAIN snakes' = 1 .. NewSize
           /\ \A i \in 1 .. NewSize : snakes'[i].alive = FreeHead(start, i)
           /\ occupied' = {start[i] : i \in 1 .. NewSize}
<1>1. PICK start \in Starts :
         /\ snakes' = StartingSnakes(start)
         /\ occupied' = {start[i] : i \in 1 .. NewSize}
         /\ events' = events \o StartingEvents(start)
  BY Zenon DEF NewGame, Store
<1>2. start \in [1 .. NewSize -> Pixels]
  BY DEF Starts
<1>3. events = << >> /\ event_no = 1 /\ event_no' = event_no + NewSize
  BY DEF NewGame, LoopInv, PhaseInv
<1>4. NewSize \in Nat
  BY ConnectedFinite
<1>5. /\ Len(StartingEvents(start)) = NewSize + 1
      /\ StartingEvents(start)[1] = NewGameEvent(Roster)
      /\ \A i \in 1 .. NewSize : StartingEvents(start)[i + 1] = Placing(start, i)
  BY <1>2, StartingShape
<1>6. events' = StartingEvents(start)
  <2>1. StartingEvents(start) \in Seq(Event)
    BY <1>2, NewGameTypes
  <2> QED
    BY <1>1, <1>3, <2>1
<1>7. \A i \in 1 .. NewSize : Placing(start, i) = IF FreeHead(start, i)
                                                  THEN PixelEvent(i, i, start[i])
                                                  ELSE EliminatedEvent(i, i)
  <2>1. \A i \in 1 .. NewSize : event_no + i - 1 = i
    BY <1>3, <1>4
  <2> QED
    BY <2>1, Zenon DEF Placing
<1>8. DOMAIN snakes' = 1 .. NewSize
      /\ \A i \in 1 .. NewSize : snakes'[i].alive = FreeHead(start, i)
  BY <1>1 DEF StartingSnakes
<1>9. event_no' = NewSize + 1
  BY <1>3, <1>4
<1>10. \A i \in 1 .. NewSize : events'[i + 1] = IF FreeHead(start, i)
                                                THEN PixelEvent(i, i, start[i])
                                                ELSE EliminatedEvent(i, i)
  BY <1>5, <1>6, <1>7
<1> QED
  BY <1>1, <1>2, <1>5, <1>6, <1>8, <1>9, <1>10

(* The event of a moved snake.                                             *)
MoveEvent(i, p) == IF IsEmpty(p) THEN PixelEvent(event_no, i, p)
                                 ELSE EliminatedEvent(event_no, i)

(* A move of a snake that is alive is stored after all that was stored.    *)
LEMMA StoredMove ==
  ASSUME TypeOK, NEW l \in Loops, MoveSnake(l)
  PROVE  \E i \in DOMAIN snakes, p \in (0 .. Width) \X (0 .. Height) :
           /\ Len(events') = Len(events) + 1 /\ event_no' = event_no + 1
           /\ \A j \in DOMAIN events : events'[j] = events[j]
           /\ events'[Len(events) + 1] = MoveEvent(i, p)
           /\ snakes[i].alive /\ DOMAIN snakes' = DOMAIN snakes
           /\ snakes'[i].alive <=> IsEmpty(p)
           /\ \A k \in DOMAIN snakes \ {i} : snakes'[k] = snakes[k]
           /\ occupied' = IF IsEmpty(p) THEN occupied \cup {p} ELSE occupied
           /\ players' = players
<1>1. PICK i \in DOMAIN snakes, p \in (0 .. Width) \X (0 .. Height) :
         /\ snakes[i].alive
         /\ PlaceSnake(i, p)
         /\ DOMAIN snakes' = DOMAIN snakes
         /\ snakes'[i].alive <=> IsEmpty(p)
         /\ \A k \in DOMAIN snakes \ {i} : snakes'[k] = snakes[k]
  BY Placed
<1>2. events' = events \o <<MoveEvent(i, p)>>
  BY <1>1, Zenon DEF PlaceSnake, Store, MoveEvent
<1>3. events \in Seq(Event)
  BY DEF TypeOK
<1>4. /\ Len(events') = Len(events) + 1
      /\ \A j \in DOMAIN events : events'[j] = events[j]
      /\ events'[Len(events) + 1] = MoveEvent(i, p)
  <2>1. PICK e : e = MoveEvent(i, p)
    OBVIOUS
  <2>2. events' = events \o <<e>>
    BY <1>2, <2>1
  <2>3. /\ Len(events') = Len(events) + 1
        /\ \A j \in DOMAIN events : events'[j] = events[j]
        /\ events'[Len(events) + 1] = e
    BY <1>3, <2>2
  <2> QED
    BY <2>1, <2>3
<1>5. occupied' = IF IsEmpty(p) THEN occupied \cup {p} ELSE occupied
  BY <1>1, Zenon DEF PlaceSnake, Marked
<1>6. players' = players /\ event_no' = event_no + 1
  BY DEF MoveSnake, netVars
<1> QED
  BY <1>1, <1>4, <1>5, <1>6

(* Every other step leaves the store, what it is about and the players in  *)
(* the game alone, or leaves the store empty.                              *)
StoreKept ==
    /\ events' = events /\ occupied' = occupied /\ event_no' = event_no
    /\ DOMAIN snakes' = DOMAIN snakes
    /\ \A k \in DOMAIN snakes : snakes'[k].alive = snakes[k].alive
    /\ \A m \in Connected' : players'[m].in_game =>
          /\ m \in Connected /\ players[m].in_game
          /\ players'[m].player_no = players[m].player_no

LEMMA StoreSteps ==
  ASSUME Quiet, TypeOK, LoopInv, PhaseInv, [Next]_vars
  PROVE  \/ events' = << >>
         \/ StoreKept
         \/ NewGame
         \/ events # << >> /\ \E l \in Loops : MoveSnake(l)
<1>1. ASSUME NEW nm \in Names, NEW d \in Directions, Call(nm, d)
      PROVE  StoreKept
  <2>1. /\ UNCHANGED <<occupied, event_no, events>>
        /\ DOMAIN snakes' = DOMAIN snakes
        /\ \A k \in DOMAIN snakes : snakes'[k].alive = snakes[k].alive
    BY <1>1, CallKeepsSnakes
  <2>2. \A m \in Connected' : players'[m].in_game =>
          /\ m \in Connected /\ players[m].in_game
          /\ players'[m].player_no = players[m].player_no
    BY <1>1, CallKeepsInGame
  <2> QED
    BY <2>1, <2>2 DEF StoreKept
<1>2. ASSUME NEW l \in Loops, Loop(l)
      PROVE  \/ events' = << >>
             \/ StoreKept
             \/ events # << >> /\ MoveSnake(l)
  <2>1. CASE Check(l) \/ BeginFrame(l) \/ SkipSnake(l) \/ EndFrame(l)
    BY <2>1 DEF Check, BeginFrame, SkipSnake, EndFrame, netVars, playVars,
                StoreKept, Connected
  <2>2. CASE MoveSnake(l)
    <3>1. pc[l] = "move"
      BY <2>2 DEF MoveSnake
    <3>2. running /\ ~starting
      BY <3>1 DEF LoopInv
    <3>3. \A m \in Loops : pc[m] # "over"
      BY <3>1 DEF LoopInv, AtMostOneLoop
    <3> QED
      BY <2>2, <3>2, <3>3 DEF PhaseInv
  <2>3. CASE GameOver(l)
    BY <2>3 DEF GameOver, ClearStore
  <2>4. CASE StopRunning(l) \/ ResetCounters(l) \/ ResetPlayers(l)
    <3>1. pc[l] \in {"over", "initialize", "players"} /\ events' = events
      BY <2>4 DEF StopRunning, ResetCounters, ResetPlayers, playVars
    <3>2. pc[l] \in {"initialize", "players"} => ~running
      BY <3>1 DEF LoopInv
    <3> QED
      BY <3>1, <3>2 DEF PhaseInv
  <2> QED
    BY <1>2, <2>1, <2>2, <2>3, <2>4 DEF Loop
<1>3. CASE UNCHANGED vars
  BY <1>3 DEF vars, netVars, playVars, StoreKept, Connected
<1> QED
  BY <1>1, <1>2, <1>3, DirectionsAssumption DEF Next, Call

-----------------------------------------------------------------------------
(* The store's indices and its roster.                                     *)

(* The store is indexed by the events' numbers, the announcement names one *)
(* player for each snake, and the players in the game are those.           *)
RosterInv ==
    /\ StoreIndexIsEventNo
    /\ events # << >> => Len(events[1].names) = Len(snakes)
    /\ InGameIsInRoster

(* The announcement of a new game lists its players by their numbers.      *)
LEMMA RosterRanks ==
  ASSUME TypeOK
  PROVE  /\ Len(Roster) = NewSize
         /\ \A nm \in InNewGame : /\ Rank(nm) + 1 \in 1 .. NewSize
                                  /\ Roster[Rank(nm) + 1] = nm
<1>1. NewSize \in Nat
  BY ConnectedFinite
<1>2. Len(Roster) = NewSize
  BY <1>1 DEF Roster
<1>3. ASSUME NEW nm \in InNewGame
      PROVE  Rank(nm) + 1 \in 1 .. NewSize /\ Roster[Rank(nm) + 1] = nm
  <2>1. PICK r \in 0 .. NewSize - 1 : r = Rank(nm)
    BY RanksFill
  <2>2. Roster[r + 1] = CHOOSE m \in InNewGame : Rank(m) = r + 1 - 1
    BY <1>1 DEF Roster
  <2>3. r + 1 - 1 = r /\ r + 1 \in 1 .. NewSize
    BY <1>1
  <2>4. \A m \in InNewGame : Rank(m) = r => m = nm
    BY <2>1, RanksFill
  <2>5. (CHOOSE m \in InNewGame : Rank(m) = r) = nm
    BY <2>1, <2>4
  <2> QED
    BY <2>1, <2>2, <2>3, <2>5
<1> QED
  BY <1>2, <1>3

(* Sequences with the same indices are equally long.                       *)
LEMMA SameLength ==
  ASSUME NEW a \in Nat, NEW b \in Nat, 1 .. a = 1 .. b PROVE a = b
<1>1. ~(a < b)
  <2>1. b \in 1 .. b => b \in 1 .. a
    OBVIOUS
  <2> QED
    BY <2>1
<1>2. ~(b < a)
  <2>1. a \in 1 .. a => a \in 1 .. b
    OBVIOUS
  <2> QED
    BY <2>1
<1> QED
  BY <1>1, <1>2

(* Every step keeps RosterInv.                                             *)
LEMMA RosterStep ==
  ASSUME Quiet, TypeOK, LoopInv, PhaseInv, RosterInv, [Next]_vars
  PROVE  RosterInv'
<1>0. /\ events \in Seq(Event) /\ DOMAIN events = 1 .. Len(events)
      /\ snakes \in Seq(Snake) /\ DOMAIN snakes = 1 .. Len(snakes)
      /\ event_no \in Nat /\ Len(snakes) \in Nat
  BY DEF TypeOK
<1>00. TypeOK'
  BY TypeStep
<1>d. /\ DOMAIN events' = 1 .. Len(events') /\ DOMAIN snakes' = 1 .. Len(snakes')
        /\ Len(snakes') \in Nat
  BY <1>00 DEF TypeOK
<1>1. CASE events' = << >>
  BY <1>1 DEF RosterInv, StoreIndexIsEventNo, InGameIsInRoster
<1>2. CASE StoreKept
  <2>1. /\ events' = events /\ event_no' = event_no
        /\ DOMAIN snakes' = DOMAIN snakes
        /\ \A m \in Connected' : players'[m].in_game =>
              /\ m \in Connected /\ players[m].in_game
              /\ players'[m].player_no = players[m].player_no
    BY <1>2, SMTT(20) DEF StoreKept
  <2>2. Len(snakes') = Len(snakes)
    BY <1>0, <1>d, <2>1, SameLength
  <2>3. InGameIsInRoster'
    BY <2>1 DEF RosterInv, InGameIsInRoster
  <2> QED
    BY <2>1, <2>2, <2>3 DEF RosterInv, StoreIndexIsEventNo
<1>3. CASE NewGame
  <2>1. PICK start \in [1 .. NewSize -> Pixels] :
           /\ Len(events') = NewSize + 1 /\ event_no' = NewSize + 1
           /\ events'[1] = NewGameEvent(Roster)
           /\ \A i \in 1 .. NewSize :
                events'[i + 1] = IF FreeHead(start, i)
                                 THEN PixelEvent(i, i, start[i])
                                 ELSE EliminatedEvent(i, i)
           /\ DOMAIN snakes' = 1 .. NewSize
    BY <1>3, StoredNewGame
  <2>2. NewSize \in Nat
    BY ConnectedFinite
  <2>3. /\ events'[1].names = Roster /\ events'[1].no = 0
        /\ events'[1].type = "NEW_GAME"
    BY <2>1 DEF NewGameEvent
  <2>4. \A i \in 1 .. NewSize : events'[i + 1].no = i
    <3> SUFFICES ASSUME NEW i \in 1 .. NewSize PROVE events'[i + 1].no = i
      OBVIOUS
    <3>1. PixelEvent(i, i, start[i]).no = i /\ EliminatedEvent(i, i).no = i
      BY DEF PixelEvent, EliminatedEvent
    <3>2. \/ events'[i + 1] = PixelEvent(i, i, start[i])
          \/ events'[i + 1] = EliminatedEvent(i, i)
      BY <2>1
    <3> QED
      BY <3>1, <3>2
  <2>5. \A i \in DOMAIN events' : events'[i].no = i - 1
    <3>1. \A i \in 1 .. NewSize + 1 :
             i # 1 => i - 1 \in 1 .. NewSize /\ i - 1 + 1 = i
      BY <2>2, SMTT(20)
    <3> QED
      BY <1>d, <2>1, <2>3, <2>4, <3>1
  <2>6. Len(snakes') = NewSize
    BY <1>d, <2>1, <2>2, SameLength
  <2>7. InGameIsInRoster'
    <3> SUFFICES ASSUME NEW nm \in Connected', players'[nm].in_game
                 PROVE  /\ players'[nm].player_no + 1 \in 1 .. NewSize
                        /\ Roster[players'[nm].player_no + 1] = nm
      BY <2>1, <2>3, <1>0, RosterRanks DEF InGameIsInRoster, Roster
    <3>1. Connected' = Connected
          /\ players' = [m \in Connected |->
                           IF m \in InNewGame
                           THEN [players[m] EXCEPT !.player_no = Rank(m),
                                                   !.in_game = TRUE]
                           ELSE players[m]]
      BY <1>3 DEF NewGame, Connected
    <3>2. ~players[nm].in_game
      BY <1>3, <3>1 DEF NewGame, LoopInv, PhaseInv, Ending
    <3>3. nm \in InNewGame
      BY <3>1, <3>2
    <3>4. players'[nm].player_no = Rank(nm)
      BY <3>1, <3>3 DEF TypeOK, Player
    <3> QED
      BY <3>3, <3>4, RosterRanks
  <2> QED
    BY <2>1, <2>3, <2>5, <2>6, <2>7, RosterRanks DEF RosterInv, StoreIndexIsEventNo
<1>4. ASSUME events # << >>, NEW l \in Loops, MoveSnake(l) PROVE RosterInv'
  <2>1. PICK i \in DOMAIN snakes, p \in (0 .. Width) \X (0 .. Height) :
           /\ Len(events') = Len(events) + 1 /\ event_no' = event_no + 1
           /\ \A j \in DOMAIN events : events'[j] = events[j]
           /\ events'[Len(events) + 1] = MoveEvent(i, p)
           /\ DOMAIN snakes' = DOMAIN snakes
           /\ players' = players
    BY <1>4, StoredMove
  <2>2. 1 \in DOMAIN events /\ Len(events) \in Nat
    BY <1>0, <1>4, EmptySeq
  <2>3. events'[1] = events[1]
    BY <2>1, <2>2
  <2>4. event_no = Len(events) /\ events[1].type = "NEW_GAME"
        /\ \A j \in DOMAIN events : events[j].no = j - 1
    BY <1>4 DEF RosterInv, StoreIndexIsEventNo
  <2>5. MoveEvent(i, p).no = event_no
    BY DEF MoveEvent, PixelEvent, EliminatedEvent
  <2>6. \A j \in DOMAIN events' : events'[j].no = j - 1
    <3>1. \A j \in 1 .. Len(events) + 1 :
             j \in 1 .. Len(events) \/ j = Len(events) + 1
      BY <2>2
    <3>2. Len(events) + 1 - 1 = Len(events)
      BY <2>2
    <3> QED
      BY <1>0, <1>d, <2>1, <2>4, <2>5, <3>1, <3>2, SMTT(20)
  <2>7. Len(snakes') = Len(snakes)
    BY <1>0, <1>d, <2>1, SameLength
  <2>8. InGameIsInRoster'
    BY <1>4, <2>1, <2>3 DEF RosterInv, InGameIsInRoster, Connected
  <2>9. Len(events[1].names) = Len(snakes)
    BY <1>4 DEF RosterInv
  <2> QED
    BY <2>1, <2>3, <2>4, <2>6, <2>7, <2>8, <2>9 DEF RosterInv, StoreIndexIsEventNo
<1> QED
  BY <1>1, <1>2, <1>3, <1>4, StoreSteps

(* It holds throughout.                                                    *)
LEMMA RosterInvariant == ASSUME Quiet PROVE Spec => []RosterInv
<1>1. Init => RosterInv
  BY DEF Init, RosterInv, StoreIndexIsEventNo, InGameIsInRoster
<1>2. TypeOK /\ LoopInv /\ PhaseInv /\ RosterInv /\ [Next]_vars => RosterInv'
  BY RosterStep
<1> QED
  BY <1>1, <1>2, TypeCorrect, LoopInvariant, PhaseInvariant, PTL DEF Spec

(* A client that asks for event n gets event n (StoreIndexIsEventNo).      *)
THEOREM StoreIsIndexed == ASSUME Quiet PROVE Spec => []StoreIndexIsEventNo
<1>1. RosterInv => StoreIndexIsEventNo
  BY DEF RosterInv
<1> QED
  BY <1>1, RosterInvariant, PTL

(* Arrows steer the snake announced for the player (InGameIsInRoster).     *)
THEOREM PlayersOwnTheirSnakes == ASSUME Quiet PROVE Spec => []InGameIsInRoster
<1>1. RosterInv => InGameIsInRoster
  BY DEF RosterInv
<1> QED
  BY <1>1, RosterInvariant, PTL

-----------------------------------------------------------------------------
(* The board.                                                              *)

(* A set of natural numbers that is not empty has a least member.          *)
LEMMA LeastOf ==
  ASSUME NEW T \in SUBSET Nat, T # {}
  PROVE  \E m \in T : \A k \in T : m <= k
<1>1. \E Q : IsWellFoundedOn(Q, Nat) /\ \A x, y \in Nat : <<y, x>> \in Q <=> y < x
  <2>1. IsWellFoundedOn(OpToRel(<, Nat), Nat)
    BY NatLessThanWellFounded
  <2>2. \A x, y \in Nat : <<y, x>> \in OpToRel(<, Nat) <=> y < x
    BY DEF OpToRel
  <2> QED
    BY <2>1, <2>2
<1>2. PICK Q : IsWellFoundedOn(Q, Nat) /\ \A x, y \in Nat : <<y, x>> \in Q <=> y < x
  BY <1>1
<1>3. PICK m \in T : \A y \in T : ~ (<<y, m>> \in Q)
  BY <1>2, WFMin
<1>4. \A x, y \in Nat : <<y, x>> \in Q <=> y < x
  BY <1>2
<1>5. ASSUME NEW k \in T PROVE m <= k
  <2>1. ~(k < m)
    BY <1>3, <1>4
  <2> QED
    BY <2>1
<1> QED
  BY <1>5

(* Every pixel with a head is marked by the first snake that starts there. *)
LEMMA FirstIsFree ==
  ASSUME NEW n \in Nat, NEW start \in [1 .. n -> Pixels], NEW i \in 1 .. n
  PROVE  \E m \in 1 .. n : start[m] = start[i] /\ FreeHead(start, m)
<1> DEFINE Same == {j \in 1 .. n : start[j] = start[i]}
<1>1. PICK m \in Same : \A k \in Same : m <= k
  <2>1. Same \in SUBSET Nat /\ i \in Same
    OBVIOUS
  <2> HIDE DEF Same
  <2> QED
    BY <2>1, LeastOf
<1>2. m \in 1 .. n /\ start[m] = start[i]
  OBVIOUS
<1>3. ASSUME NEW j \in 1 .. m - 1 PROVE start[j] # start[m]
  <2>1. j \in 1 .. n /\ ~(m <= j)
    BY <1>2
  <2>2. j \notin Same
    BY <1>1, <2>1
  <2> QED
    BY <1>2, <2>1, <2>2
<1> QED
  BY <1>2, <1>3 DEF FreeHead

(* The event at an index that is not the first of a new game's store is    *)
(* that of the snake before it.                                            *)
LEMMA StartingBoard ==
  ASSUME Quiet, TypeOK, LoopInv, PhaseInv, NewGame
  PROVE  BoardIsStored'
<1>1. PICK start \in [1 .. NewSize -> Pixels] :
         /\ Len(events') = NewSize + 1
         /\ events'[1] = NewGameEvent(Roster)
         /\ \A i \in 1 .. NewSize :
              events'[i + 1] = IF FreeHead(start, i)
                               THEN PixelEvent(i, i, start[i])
                               ELSE EliminatedEvent(i, i)
         /\ occupied' = {start[i] : i \in 1 .. NewSize}
  BY StoredNewGame
<1>2. NewSize \in Nat /\ DOMAIN events' = 1 .. NewSize + 1
  <2>1. TypeOK'
    BY TypeNewGame
  <2> QED
    BY <1>1, <2>1, ConnectedFinite DEF TypeOK
<1>3. \A i \in 1 .. NewSize :
         /\ events'[i + 1].type = "PIXEL" <=> FreeHead(start, i)
         /\ FreeHead(start, i) => events'[i + 1].pixel = start[i]
  <2> SUFFICES ASSUME NEW i \in 1 .. NewSize
               PROVE  /\ events'[i + 1].type = "PIXEL" <=> FreeHead(start, i)
                      /\ FreeHead(start, i) => events'[i + 1].pixel = start[i]
    OBVIOUS
  <2>1. CASE FreeHead(start, i)
    <3>1. events'[i + 1] = PixelEvent(i, i, start[i])
      BY <1>1, <2>1
    <3> QED
      BY <2>1, <3>1 DEF PixelEvent
  <2>2. CASE ~FreeHead(start, i)
    <3>1. events'[i + 1] = EliminatedEvent(i, i)
      BY <1>1, <2>2
    <3> QED
      BY <2>2, <3>1 DEF EliminatedEvent
  <2> QED
    BY <2>1, <2>2
<1>4. events'[1].type # "PIXEL"
  BY <1>1 DEF NewGameEvent
<1>5. \A j \in DOMAIN events' : events'[j].type = "PIXEL" =>
         \E i \in 1 .. NewSize : /\ j = i + 1 /\ FreeHead(start, i)
                                 /\ events'[j].pixel = start[i]
  <2> SUFFICES ASSUME NEW j \in 1 .. NewSize + 1, events'[j].type = "PIXEL"
               PROVE  \E i \in 1 .. NewSize : /\ j = i + 1 /\ FreeHead(start, i)
                                              /\ events'[j].pixel = start[i]
    BY <1>2
  <2>1. j # 1
    BY <1>4
  <2>2. PICK i \in 1 .. NewSize : j = i + 1
    <3>1. j - 1 \in 1 .. NewSize /\ j = (j - 1) + 1
      BY <1>2, <2>1
    <3> QED
      BY <3>1
  <2> QED
    BY <1>3, <2>2
<1>6. \A i \in 1 .. NewSize : FreeHead(start, i) =>
         i + 1 \in PixelsOf(events') /\ events'[i + 1].pixel = start[i]
  <2>1. \A i \in 1 .. NewSize : i + 1 \in 1 .. NewSize + 1
    BY <1>2
  <2> QED
    BY <1>2, <1>3, <2>1 DEF PixelsOf
<1>7. occupied' = {events'[i].pixel : i \in PixelsOf(events')}
  <2>1. ASSUME NEW i \in 1 .. NewSize
        PROVE  \E j \in PixelsOf(events') : events'[j].pixel = start[i]
    <3>1. PICK m \in 1 .. NewSize : start[m] = start[i] /\ FreeHead(start, m)
      BY <1>2, FirstIsFree
    <3> QED
      BY <1>6, <3>1
  <2>2. ASSUME NEW j \in PixelsOf(events')
        PROVE  \E i \in 1 .. NewSize : start[i] = events'[j].pixel
    BY <1>5 DEF PixelsOf
  <2>3. occupied' \subseteq {events'[i].pixel : i \in PixelsOf(events')}
    <3> SUFFICES ASSUME NEW q \in occupied'
                 PROVE  \E j \in PixelsOf(events') : q = events'[j].pixel
      OBVIOUS
    <3>1. PICK i \in 1 .. NewSize : q = start[i]
      BY <1>1
    <3> QED
      BY <2>1, <3>1
  <2>4. \A j \in PixelsOf(events') : events'[j].pixel \in occupied'
    BY <1>1, <2>2
  <2> QED
    BY <2>3, <2>4
<1>8. ASSUME NEW i \in PixelsOf(events'), NEW j \in PixelsOf(events'),
             events'[i].pixel = events'[j].pixel
      PROVE  i = j
  <2>1. PICK a \in 1 .. NewSize : /\ i = a + 1 /\ FreeHead(start, a)
                                  /\ events'[i].pixel = start[a]
    BY <1>5 DEF PixelsOf
  <2>2. PICK b \in 1 .. NewSize : /\ j = b + 1 /\ FreeHead(start, b)
                                  /\ events'[j].pixel = start[b]
    BY <1>5 DEF PixelsOf
  <2>3. ~(a < b) /\ ~(b < a)
    <3>1. start[a] = start[b]
      BY <1>8, <2>1, <2>2
    <3>2. a < b => a \in 1 .. b - 1
      BY <1>2
    <3>3. b < a => b \in 1 .. a - 1
      BY <1>2
    <3> QED
      BY <2>1, <2>2, <3>1, <3>2, <3>3 DEF FreeHead
  <2> QED
    BY <1>2, <2>1, <2>2, <2>3
<1> QED
  BY <1>7, <1>8 DEF BoardIsStored

(* A move marks the pixel its event shows, which nobody had entered.       *)
LEMMA MovedBoard ==
  ASSUME TypeOK, BoardIsStored, events # << >>, NEW l \in Loops, MoveSnake(l)
  PROVE  BoardIsStored'
<1>1. PICK i \in DOMAIN snakes, p \in (0 .. Width) \X (0 .. Height) :
         /\ Len(events') = Len(events) + 1
         /\ \A j \in DOMAIN events : events'[j] = events[j]
         /\ events'[Len(events) + 1] = MoveEvent(i, p)
         /\ occupied' = IF IsEmpty(p) THEN occupied \cup {p} ELSE occupied
  BY StoredMove
<1>2. PICK n \in Nat : n = Len(events) + 1
  BY DEF TypeOK
<1>3. DOMAIN events' = DOMAIN events \cup {n} /\ n \notin DOMAIN events
  <2>1. TypeOK'
    BY TypeLoop DEF Loop
  <2>2. DOMAIN events' = 1 .. Len(events') /\ DOMAIN events = 1 .. Len(events)
        /\ Len(events) \in Nat
    BY <2>1 DEF TypeOK
  <2> QED
    BY <1>1, <1>2, <2>2
<1>4. /\ occupied = {events[j].pixel : j \in PixelsOf(events)}
      /\ \A j, k \in PixelsOf(events) : events[j].pixel = events[k].pixel => j = k
  BY DEF BoardIsStored
<1>5. CASE IsEmpty(p)
  <2>1. events'[n].type = "PIXEL" /\ events'[n].pixel = p
    BY <1>1, <1>2, <1>5 DEF MoveEvent, PixelEvent
  <2>2. PixelsOf(events') = PixelsOf(events) \cup {n} /\ n \notin PixelsOf(events)
    BY <1>1, <1>3, <2>1 DEF PixelsOf
  <2>3. \A j \in PixelsOf(events) : events'[j].pixel = events[j].pixel
    BY <1>1 DEF PixelsOf
  <2>4. occupied' = occupied \cup {p} /\ p \notin occupied
    BY <1>1, <1>5 DEF IsEmpty
  <2>5. occupied' = {events'[j].pixel : j \in PixelsOf(events')}
    BY <1>4, <2>1, <2>2, <2>3, <2>4
  <2>6. \A j \in PixelsOf(events) : events[j].pixel # p
    BY <1>4, <2>4
  <2>7. \A j, k \in PixelsOf(events') :
           events'[j].pixel = events'[k].pixel => j = k
    BY <1>4, <2>1, <2>2, <2>3, <2>6
  <2> QED
    BY <2>5, <2>7 DEF BoardIsStored
<1>6. CASE ~IsEmpty(p)
  <2>1. events'[n].type # "PIXEL"
    BY <1>1, <1>2, <1>6 DEF MoveEvent, EliminatedEvent
  <2>2. PixelsOf(events') = PixelsOf(events)
    BY <1>1, <1>3, <2>1 DEF PixelsOf
  <2>3. \A j \in PixelsOf(events) : events'[j].pixel = events[j].pixel
    BY <1>1 DEF PixelsOf
  <2>4. occupied' = occupied
    BY <1>1, <1>6
  <2>5. occupied' = {events'[j].pixel : j \in PixelsOf(events')}
    BY <1>4, <2>2, <2>3, <2>4
  <2>6. \A j, k \in PixelsOf(events') :
           events'[j].pixel = events'[k].pixel => j = k
    BY <1>4, <2>2, <2>3
  <2> QED
    BY <2>5, <2>6 DEF BoardIsStored
<1> QED
  BY <1>5, <1>6

(* The PIXEL events stored are the fields occupied, each once (invariant   *)
(* BoardIsStored).                                                         *)
THEOREM StoreIsTheBoard == ASSUME Quiet PROVE Spec => []BoardIsStored
<1>1. Init => BoardIsStored
  BY DEF Init, BoardIsStored
<1>2. TypeOK /\ LoopInv /\ PhaseInv /\ BoardIsStored /\ [Next]_vars
         => BoardIsStored'
  <2> SUFFICES ASSUME TypeOK, LoopInv, PhaseInv, BoardIsStored, [Next]_vars
               PROVE  BoardIsStored'
    OBVIOUS
  <2>1. CASE events' = << >>
    BY <2>1 DEF BoardIsStored
  <2>2. CASE StoreKept
    BY <2>2 DEF StoreKept, BoardIsStored
  <2> QED
    BY <2>1, <2>2, StartingBoard, MovedBoard, StoreSteps
<1> QED
  BY <1>1, <1>2, TypeCorrect, LoopInvariant, PhaseInvariant, PTL DEF Spec

-----------------------------------------------------------------------------
(* Eliminations.                                                           *)

(* A new game stores one event for each snake: its first pixel, or that it *)
(* starts on another's.                                                    *)
LEMMA StartingEliminations ==
  ASSUME Quiet, TypeOK, LoopInv, PhaseInv, NewGame
  PROVE  EliminationIsFinal'
<1>1. PICK start \in [1 .. NewSize -> Pixels] :
         /\ Len(events') = NewSize + 1
         /\ events'[1] = NewGameEvent(Roster)
         /\ \A i \in 1 .. NewSize :
              events'[i + 1] = IF FreeHead(start, i)
                               THEN PixelEvent(i, i, start[i])
                               ELSE EliminatedEvent(i, i)
         /\ DOMAIN snakes' = 1 .. NewSize
         /\ \A i \in 1 .. NewSize : snakes'[i].alive = FreeHead(start, i)
  BY StoredNewGame
<1>2. NewSize \in Nat /\ DOMAIN events' = 1 .. NewSize + 1
  <2>1. TypeOK'
    BY TypeNewGame
  <2> QED
    BY <1>1, <2>1, ConnectedFinite DEF TypeOK
<1>3. \A i \in 1 .. NewSize :
         /\ events'[i + 1].player = i - 1
         /\ events'[i + 1].type = "PLAYER_ELIMINATED" <=> ~FreeHead(start, i)
  <2> SUFFICES ASSUME NEW i \in 1 .. NewSize
               PROVE  /\ events'[i + 1].player = i - 1
                      /\ events'[i + 1].type = "PLAYER_ELIMINATED"
                            <=> ~FreeHead(start, i)
    OBVIOUS
  <2>1. CASE FreeHead(start, i)
    <3>1. events'[i + 1] = PixelEvent(i, i, start[i])
      BY <1>1, <2>1
    <3> QED
      BY <2>1, <3>1 DEF PixelEvent
  <2>2. CASE ~FreeHead(start, i)
    <3>1. events'[i + 1] = EliminatedEvent(i, i)
      BY <1>1, <2>2
    <3> QED
      BY <2>2, <3>1 DEF EliminatedEvent
  <2> QED
    BY <2>1, <2>2
<1>4. events'[1].type = "NEW_GAME"
  BY <1>1 DEF NewGameEvent
<1>5. \A j \in DOMAIN events' : j = 1 \/ \E i \in 1 .. NewSize : j = i + 1
  <2> SUFFICES ASSUME NEW j \in 1 .. NewSize + 1, j # 1
               PROVE  \E i \in 1 .. NewSize : j = i + 1
    BY <1>2
  <2>1. j - 1 \in 1 .. NewSize /\ j = (j - 1) + 1
    BY <1>2
  <2> QED
    BY <2>1
<1>6. ASSUME NEW k \in 1 .. NewSize, NEW j \in DOMAIN events',
             events'[j].type # "NEW_GAME", events'[j].player = k - 1
      PROVE  j = k + 1
  <2>1. PICK i \in 1 .. NewSize : j = i + 1
    BY <1>4, <1>5, <1>6
  <2>2. i - 1 = k - 1
    BY <1>3, <1>6, <2>1
  <2> QED
    BY <1>2, <2>1, <2>2
<1>7. ASSUME NEW k \in 1 .. NewSize
      PROVE  /\ ~snakes'[k].alive <=> \E j \in DOMAIN events' :
                   events'[j].type = "PLAYER_ELIMINATED" /\ events'[j].player = k - 1
             /\ \A i, j \in DOMAIN events' :
                   /\ events'[i].type = "PLAYER_ELIMINATED"
                   /\ events'[i].player = k - 1
                   /\ i < j /\ events'[j].type # "NEW_GAME"
                   => events'[j].player # k - 1
  <2>1. k + 1 \in DOMAIN events'
    BY <1>2
  <2>2. snakes'[k].alive = FreeHead(start, k)
    BY <1>1
  <2>3. ~snakes'[k].alive => \E j \in DOMAIN events' :
           events'[j].type = "PLAYER_ELIMINATED" /\ events'[j].player = k - 1
    BY <1>3, <2>1, <2>2
  <2>4. ASSUME NEW j \in DOMAIN events',
               events'[j].type = "PLAYER_ELIMINATED", events'[j].player = k - 1
        PROVE  j = k + 1 /\ ~snakes'[k].alive
    <3>1. j = k + 1
      BY <1>6, <2>4
    <3> QED
      BY <1>3, <2>2, <2>4, <3>1
  <2>5. ASSUME NEW i \in DOMAIN events', NEW j \in DOMAIN events',
               events'[i].type = "PLAYER_ELIMINATED", events'[i].player = k - 1,
               i < j, events'[j].type # "NEW_GAME"
        PROVE  events'[j].player # k - 1
    <3>1. i = k + 1
      BY <2>4, <2>5
    <3>2. events'[j].player = k - 1 => j = k + 1
      BY <1>6, <2>5
    <3>3. k + 1 \in Int
      OBVIOUS
    <3> QED
      BY <2>5, <3>1, <3>2, <3>3
  <2> QED
    BY <2>3, <2>4, <2>5
<1> QED
  BY <1>1, <1>7 DEF EliminationIsFinal, EliminatedAt

(* A move stores the elimination of the snake that moved, if it dies of    *)
(* it; who moves was alive, so nothing is stored of the eliminated.        *)
LEMMA MovedEliminations ==
  ASSUME TypeOK, EliminationIsFinal, events # << >>, NEW l \in Loops, MoveSnake(l)
  PROVE  EliminationIsFinal'
<1>1. PICK s \in DOMAIN snakes, p \in (0 .. Width) \X (0 .. Height) :
         /\ Len(events') = Len(events) + 1
         /\ \A j \in DOMAIN events : events'[j] = events[j]
         /\ events'[Len(events) + 1] = MoveEvent(s, p)
         /\ snakes[s].alive /\ DOMAIN snakes' = DOMAIN snakes
         /\ snakes'[s].alive <=> IsEmpty(p)
         /\ \A k \in DOMAIN snakes \ {s} : snakes'[k] = snakes[k]
  BY StoredMove
<1>2. PICK n \in Nat : n = Len(events) + 1
  BY DEF TypeOK
<1>3. /\ DOMAIN events' = DOMAIN events \cup {n} /\ n \notin DOMAIN events
      /\ \A j \in DOMAIN events : j < n /\ j \in Nat
      /\ DOMAIN snakes \subseteq Nat
  <2>1. TypeOK'
    BY TypeLoop DEF Loop
  <2>2. DOMAIN events' = 1 .. Len(events') /\ DOMAIN events = 1 .. Len(events)
        /\ Len(events) \in Nat /\ DOMAIN snakes = 1 .. Len(snakes)
    BY <2>1 DEF TypeOK
  <2> QED
    BY <1>1, <1>2, <2>2
<1>4. /\ events'[n].player = s - 1
      /\ events'[n].type = "PLAYER_ELIMINATED" <=> ~IsEmpty(p)
      /\ events'[n].type # "NEW_GAME"
  <2>1. CASE IsEmpty(p)
    BY <1>1, <1>2, <2>1 DEF MoveEvent, PixelEvent
  <2>2. CASE ~IsEmpty(p)
    BY <1>1, <1>2, <2>2 DEF MoveEvent, EliminatedEvent
  <2> QED
    BY <2>1, <2>2
<1>5. \A k \in DOMAIN snakes, j \in DOMAIN events :
         EliminatedAt(j, k)' <=> EliminatedAt(j, k)
  BY <1>1 DEF EliminatedAt
<1>6. \A k \in DOMAIN snakes : EliminatedAt(n, k)' <=> k = s /\ ~IsEmpty(p)
  BY <1>3, <1>4 DEF EliminatedAt
<1>7. \A j \in DOMAIN events : ~EliminatedAt(j, s)
  BY <1>1 DEF EliminationIsFinal
<1>8. ASSUME NEW k \in DOMAIN snakes
      PROVE  ~snakes'[k].alive <=> \E j \in DOMAIN events' : EliminatedAt(j, k)'
  <2>1. CASE k = s
    BY <1>1, <1>3, <1>5, <1>6, <1>7, <2>1
  <2>2. CASE k # s
    <3>1. snakes'[k] = snakes[k]
      BY <1>1, <2>2
    <3>2. ~snakes[k].alive <=> \E j \in DOMAIN events : EliminatedAt(j, k)
      BY DEF EliminationIsFinal
    <3> QED
      BY <1>3, <1>5, <1>6, <2>2, <3>1, <3>2
  <2> QED
    BY <2>1, <2>2
<1>9. ASSUME NEW k \in DOMAIN snakes, NEW i \in DOMAIN events',
             NEW j \in DOMAIN events', EliminatedAt(i, k)', i < j,
             events'[j].type # "NEW_GAME"
      PROVE  events'[j].player # k - 1
  <2>1. i \in DOMAIN events
    BY <1>3, <1>9
  <2>2. EliminatedAt(i, k)
    BY <1>5, <1>9, <2>1
  <2>3. CASE j = n
    <3>1. k # s
      BY <1>7, <2>1, <2>2
    <3> QED
      BY <1>3, <1>4, <2>3, <3>1
  <2>4. CASE j \in DOMAIN events
    BY <1>1, <1>9, <2>1, <2>2, <2>4 DEF EliminationIsFinal
  <2> QED
    BY <1>3, <2>3, <2>4
<1> QED
  BY <1>1, <1>8, <1>9 DEF EliminationIsFinal, EliminatedAt

(* A snake is eliminated once and for all (invariant EliminationIsFinal).  *)
THEOREM EliminatedOnce == ASSUME Quiet PROVE Spec => []EliminationIsFinal
<1>1. Init => EliminationIsFinal
  BY DEF Init, EliminationIsFinal
<1>2. TypeOK /\ LoopInv /\ PhaseInv /\ EliminationIsFinal /\ [Next]_vars
         => EliminationIsFinal'
  <2> SUFFICES ASSUME TypeOK, LoopInv, PhaseInv, EliminationIsFinal, [Next]_vars
               PROVE  EliminationIsFinal'
    OBVIOUS
  <2>1. CASE events' = << >>
    BY <2>1 DEF EliminationIsFinal
  <2>2. CASE StoreKept
    BY <2>2 DEF StoreKept, EliminationIsFinal, EliminatedAt
  <2> QED
    BY <2>1, <2>2, StartingEliminations, MovedEliminations, StoreSteps
<1> QED
  BY <1>1, <1>2, TypeCorrect, LoopInvariant, PhaseInvariant, PTL DEF Spec

-----------------------------------------------------------------------------
(* Ids.                                                                    *)

(* k numbers drawn one after the other, and the one they are drawn from.   *)
Chains(Good, k) ==
    {g \in [0 .. k -> Good] : \A i \in 1 .. k : g[i] = Following(g[i - 1])}

(* From the seeds on, the generator does not come back to a number after   *)
(* so few draws as fall between two ids: one for the id and three for each *)
(* snake.                                                                  *)
OrbitIsLong(Good) ==
    /\ Seeds \subseteq Good /\ Good \subseteq Nat
    /\ \A x \in Good : Following(x) \in Good
    /\ \A n \in 0 .. MaxInGame : \A g \in Chains(Good, 3 * n + 1) :
          g[0] # g[3 * n + 1]

(* Drawn is what its recursive definition says: there is a function with   *)
(* those equations.                                                        *)
Draws(x, k) ==
    {g \in [0 .. k -> Nat] : g[0] = x /\ \A i \in 1 .. k : g[i] = Following(g[i - 1])}

LEMMA DrawsExist ==
  ASSUME NEW x \in Nat, NEW k \in Nat
  PROVE  \E g : g \in Draws(x, k)
<1> DEFINE Bad == {n \in Nat : ~\E g : g \in Draws(x, n)}
<1>1. SUFFICES ASSUME Bad # {} PROVE FALSE
  OBVIOUS
<1>2. PICK n \in Bad : \A m \in Bad : n <= m
  <2>1. Bad \in SUBSET Nat
    OBVIOUS
  <2> QED
    BY <1>1, <2>1, LeastOf
<1>3. CASE n = 0
  <2>1. [i \in 0 .. 0 |-> x] \in Draws(x, 0)
    BY DEF Draws
  <2> QED
    BY <1>2, <1>3, <2>1
<1>4. CASE n # 0
  <2>1. n \in Nat /\ n - 1 \in Nat /\ ~(n <= n - 1)
    BY <1>4
  <2>2. n - 1 \notin Bad
    BY <1>2, <2>1, Zenon
  <2>3. PICK g : g \in Draws(x, n - 1)
    BY <2>1, <2>2
  <2>4. g \in [0 .. n - 1 -> Nat] /\ g[0] = x
        /\ \A i \in 1 .. n - 1 : g[i] = Following(g[i - 1])
    BY <2>3 DEF Draws
  <2> DEFINE h == [i \in 0 .. n |-> IF i = n THEN Following(g[n - 1]) ELSE g[i]]
  <2>5. Following(g[n - 1]) \in Nat
    BY <2>1, <2>4, FollowingRange
  <2>6. h \in [0 .. n -> Nat] /\ h[0] = x
    BY <2>1, <2>4, <2>5, <1>4
  <2>7. \A i \in 1 .. n : h[i] = Following(h[i - 1])
    BY <2>1, <2>4
  <2>8. h \in Draws(x, n)
    BY <2>6, <2>7 DEF Draws
  <2> QED
    BY <1>2, <2>8
<1> QED
  BY <1>3, <1>4

LEMMA DrawsAgree ==
  ASSUME NEW x \in Nat, NEW k \in Nat, NEW n \in Nat,
         NEW g \in Draws(x, k), NEW h \in Draws(x, n)
  PROVE  \A i \in 0 .. k : i <= n => g[i] = h[i]
<1> DEFINE Bad == {i \in 0 .. k : i <= n /\ g[i] # h[i]}
<1>1. SUFFICES ASSUME Bad # {} PROVE FALSE
  OBVIOUS
<1>2. PICK m \in Bad : \A i \in Bad : m <= i
  <2>1. Bad \in SUBSET Nat
    OBVIOUS
  <2> QED
    BY <1>1, <2>1, LeastOf
<1>3. /\ g[0] = x /\ h[0] = x
      /\ \A i \in 1 .. k : g[i] = Following(g[i - 1])
      /\ \A i \in 1 .. n : h[i] = Following(h[i - 1])
  BY DEF Draws
<1>4. m # 0
  BY <1>2, <1>3
<1>5. m \in 1 .. k /\ m \in 1 .. n /\ m - 1 \in 0 .. k /\ m - 1 <= n /\ ~(m <= m - 1)
  BY <1>2, <1>4
<1>6. m - 1 \notin Bad
  BY <1>2, <1>5, Zenon
<1>7. g[m - 1] = h[m - 1]
  BY <1>5, <1>6
<1> QED
  BY <1>2, <1>3, <1>5, <1>7

DrawOf(x) == [k \in Nat |-> (CHOOSE g : g \in Draws(x, k))[k]]

LEMMA DrawOfSteps ==
  ASSUME NEW x \in Nat
  PROVE  DrawOf(x) =
           [k \in Nat |-> IF k = 0 THEN x ELSE Following(DrawOf(x)[k - 1])]
<1> DEFINE G(k) == CHOOSE g : g \in Draws(x, k)
<1>1. \A k \in Nat : G(k) \in Draws(x, k)
  BY DrawsExist, Zenon
<1> HIDE DEF G
<1>2. \A k \in Nat : DrawOf(x)[k] = G(k)[k]
  BY DEF DrawOf, G
<1>3. ASSUME NEW k \in Nat
      PROVE  DrawOf(x)[k] = IF k = 0 THEN x ELSE Following(DrawOf(x)[k - 1])
  <2>1. CASE k = 0
    BY <1>1, <1>2, <2>1 DEF Draws
  <2>2. CASE k # 0
    <3>1. k - 1 \in Nat /\ k - 1 \in 0 .. k /\ k - 1 <= k - 1 /\ k \in 1 .. k
      BY <2>2
    <3>2. G(k) \in Draws(x, k) /\ G(k - 1) \in Draws(x, k - 1)
      BY <1>1, <3>1
    <3>3. G(k)[k - 1] = G(k - 1)[k - 1]
      BY <3>1, <3>2, DrawsAgree
    <3>4. G(k)[k] = Following(G(k)[k - 1])
      BY <3>1, <3>2 DEF Draws
    <3> QED
      BY <1>2, <2>2, <3>1, <3>3, <3>4
  <2> QED
    BY <2>1, <2>2
<1>4. PICK d : d = DrawOf(x)
  OBVIOUS
<1>5. d = [k \in Nat |-> d[k]]
  BY <1>4 DEF DrawOf
<1>6. \A k \in Nat : d[k] = IF k = 0 THEN x ELSE Following(d[k - 1])
  BY <1>3, <1>4
<1>7. d = [k \in Nat |-> IF k = 0 THEN x ELSE Following(d[k - 1])]
  BY <1>5, <1>6
<1> QED
  BY <1>4, <1>7

LEMMA DrawnSteps ==
  ASSUME last_rand \in Nat
  PROVE  /\ Drawn[0] = last_rand
         /\ \A k \in Nat : k # 0 => Drawn[k] = Following(Drawn[k - 1])
<1> DEFINE IsDrawn(f) ==
             f = [k \in Nat |-> IF k = 0 THEN last_rand ELSE Following(f[k - 1])]
<1>1. IsDrawn(DrawOf(last_rand))
  BY DrawOfSteps
<1>2. Drawn = CHOOSE f : IsDrawn(f)
  BY DEF Drawn
<1>3. IsDrawn(Drawn)
  BY <1>1, <1>2
<1> QED
  BY <1>3

(* No more snakes than names that fit are placed.                          *)
LEMMA NewSizeFits == ASSUME TypeOK PROVE NewSize \in 0 .. MaxInGame
<1>1. NewSize \in Nat
  BY ConnectedFinite
<1>2. CASE NewSize = 0
  BY <1>2
<1>3. CASE NewSize # 0
  <2>1. NewSize - 1 \in 0 .. NewSize - 1
    BY <1>1, <1>3
  <2>2. PICK nm \in InNewGame : Rank(nm) = NewSize - 1
    BY <2>1, RanksFill
  <2>3. Rank(nm) < MaxInGame
    BY DEF InNewGame
  <2> QED
    BY <1>1, <2>2, <2>3
<1> QED
  BY <1>2, <1>3

(* The id of the game, and as many draws since as it has snakes; none      *)
(* before they are placed.                                                 *)
Since(Good, n) ==
    \E g \in Chains(Good, 3 * n + 1) : g[0] = game_id /\ g[3 * n + 1] = last_rand

IdInv(Good) ==
    /\ game_id \in Good /\ last_rand \in Good
    /\ event_no \in Nat \ {0}
    /\ \E n \in 0 .. MaxInGame : Since(Good, n) /\ (event_no = 1 => n = 0)

(* The numbers that new_game draws, after the one that the id was.         *)
LEMMA ChainOfDraws ==
  ASSUME NEW Good \in SUBSET Nat, \A x \in Good : Following(x) \in Good,
         last_rand \in Good, game_id \in Good, last_rand = Following(game_id),
         NEW k \in Nat
  PROVE  \E g \in Chains(Good, k + 1) : g[0] = game_id /\ g[k + 1] = Drawn[k]
<1> DEFINE g == [i \in 0 .. k + 1 |-> IF i = 0 THEN game_id ELSE Drawn[i - 1]]
<1>1. Drawn[0] = last_rand /\ \A i \in Nat : i # 0 => Drawn[i] = Following(Drawn[i - 1])
  BY DrawnSteps
<1>2. \A i \in 1 .. k + 1 : g[i] = Following(g[i - 1])
  <2> SUFFICES ASSUME NEW i \in 1 .. k + 1 PROVE g[i] = Following(g[i - 1])
    OBVIOUS
  <2>1. i - 1 \in Nat /\ i - 1 \in 0 .. k + 1 /\ i \in 0 .. k + 1 /\ g[i] = Drawn[i - 1]
    OBVIOUS
  <2>2. CASE i = 1
    BY <1>1, <2>1, <2>2
  <2>3. CASE i # 1
    <3>1. i - 1 # 0 /\ g[i - 1] = Drawn[(i - 1) - 1]
      BY <2>1, <2>3
    <3> QED
      BY <1>1, <2>1, <3>1
  <2> QED
    BY <2>2, <2>3
<1>3. g[0] = game_id /\ g[k + 1] = Drawn[k] /\ DOMAIN g = 0 .. k + 1
      /\ g = [i \in 0 .. k + 1 |-> g[i]]
  OBVIOUS
<1> HIDE DEF g
<1>4. \A i \in 0 .. k + 1 : g[i] \in Good
  <2> DEFINE Bad == {i \in 0 .. k + 1 : g[i] \notin Good}
  <2>1. SUFFICES ASSUME Bad # {} PROVE FALSE
    OBVIOUS
  <2>2. PICK m \in Bad : \A i \in Bad : m <= i
    <3>1. Bad \in SUBSET Nat
      OBVIOUS
    <3> QED
      BY <2>1, <3>1, LeastOf
  <2>3. m # 0
    BY <1>3, <2>2
  <2>4. m \in 1 .. k + 1 /\ m - 1 \in 0 .. k + 1 /\ ~(m <= m - 1)
    BY <2>2, <2>3
  <2>5. m - 1 \notin Bad
    BY <2>2, <2>4, Zenon
  <2>6. g[m - 1] \in Good /\ g[m] = Following(g[m - 1])
    BY <1>2, <2>4, <2>5
  <2>7. g[m] \in Good
    BY <2>6
  <2> QED
    BY <2>2, <2>7
<1>5. g \in Chains(Good, k + 1)
  BY <1>2, <1>3, <1>4 DEF Chains
<1> QED
  BY <1>3, <1>5

(* One draw is a chain.                                                    *)
LEMMA OneDraw ==
  ASSUME NEW Good, NEW x \in Good, Following(x) \in Good
  PROVE  \E g \in Chains(Good, 3 * 0 + 1) : g[0] = x /\ g[3 * 0 + 1] = Following(x)
<1> DEFINE g == [i \in 0 .. 1 |-> IF i = 0 THEN x ELSE Following(x)]
<1>1. g \in [0 .. 1 -> Good] /\ g[0] = x /\ g[1] = Following(x)
  OBVIOUS
<1>2. \A i \in 1 .. 1 : g[i] = Following(g[i - 1])
  BY <1>1
<1>3. g \in Chains(Good, 1)
  BY <1>1, <1>2 DEF Chains
<1> QED
  BY <1>1, <1>3

LEMMA OneChain ==
  ASSUME NEW Good, NEW g \in Chains(Good, 3 * 0 + 1)
  PROVE  g[3 * 0 + 1] = Following(g[0])
BY DEF Chains

(* The steps that make an id, place snakes, store an event, and the rest.  *)
LEMMA IdSteps ==
  ASSUME Quiet, TypeOK, LoopInv, PhaseInv, [Next]_vars
  PROVE  \/ \E l \in Loops : ResetCounters(l)
         \/ NewGame /\ event_no = 1
         \/ UNCHANGED idVars /\ event_no' = event_no + 1
         \/ UNCHANGED idVars /\ event_no' = event_no
<1>1. ASSUME NEW nm \in Names, NEW d \in Directions, Call(nm, d)
      PROVE  UNCHANGED idVars /\ event_no' = event_no
  BY <1>1 DEF Call, AddPlayer, RemovePlayer, StartingAction, RunningAction, playVars
<1>2. ASSUME NewGame PROVE event_no = 1
  <2>1. event_no' = NewSize + 1 /\ NewSize \in Nat
    BY <1>2, StoredNewGame, ConnectedFinite
  <2>2. event_no' = event_no + NewSize
    BY <1>2, Zenon DEF NewGame
  <2>3. event_no \in Nat
    BY DEF TypeOK
  <2> QED
    BY <2>1, <2>2, <2>3
<1>3. ASSUME NEW l \in Loops, Loop(l)
      PROVE  \/ ResetCounters(l)
             \/ UNCHANGED idVars /\ event_no' = event_no + 1
             \/ UNCHANGED idVars /\ event_no' = event_no
  <2>1. CASE MoveSnake(l)
    BY <2>1, Zenon DEF MoveSnake
  <2>2. CASE GameOver(l)
    BY <2>2, Zenon DEF GameOver
  <2>3. CASE Check(l) \/ BeginFrame(l) \/ SkipSnake(l) \/ EndFrame(l)
             \/ StopRunning(l) \/ ResetPlayers(l)
    <3>1. UNCHANGED playVars /\ UNCHANGED idVars
      BY <2>3, Zenon DEF Check, BeginFrame, SkipSnake, EndFrame, StopRunning, ResetPlayers
    <3> QED
      BY <3>1 DEF playVars
  <2> QED
    BY <1>3, <2>1, <2>2, <2>3 DEF Loop
<1>4. CASE UNCHANGED vars
  BY <1>4 DEF vars, playVars
<1> QED
  BY <1>1, <1>2, <1>3, <1>4, DirectionsAssumption DEF Next, Call

(* A new id comes after so few draws that it is another one.               *)
LEMMA IdReset ==
  ASSUME NEW Good, OrbitIsLong(Good), IdInv(Good), NEW l \in Loops, ResetCounters(l)
  PROVE  game_id' # game_id /\ IdInv(Good)'
<1>1. game_id' = last_rand /\ last_rand' = Following(last_rand) /\ event_no' = 1
  BY Zenon DEF ResetCounters, FirstEventNo
<1>2. PICK n \in 0 .. MaxInGame : Since(Good, n)
  BY Zenon DEF IdInv
<1>3. PICK g \in Chains(Good, 3 * n + 1) : g[0] = game_id /\ g[3 * n + 1] = last_rand
  BY <1>2, Zenon DEF Since
<1>4. g[0] # g[3 * n + 1]
  BY <1>2, <1>3, Zenon DEF OrbitIsLong
<1>5. last_rand \in Good /\ Following(last_rand) \in Good
  BY Zenon DEF IdInv, OrbitIsLong
<1>6. Since(Good, 0)'
  BY <1>1, <1>5, OneDraw, Zenon DEF Since
<1>7. 0 \in 0 .. MaxInGame /\ 1 \in Nat \ {0}
  OBVIOUS
<1>8. IdInv(Good)'
  BY <1>1, <1>5, <1>6, <1>7, Zenon DEF IdInv
<1> QED
  BY <1>1, <1>3, <1>4, <1>8

(* new_game draws three numbers for each snake.                            *)
LEMMA IdNewGame ==
  ASSUME NEW Good, OrbitIsLong(Good), IdInv(Good), TypeOK, NewGame, event_no = 1
  PROVE  game_id' = game_id /\ IdInv(Good)' /\ ~(event_no' < event_no)
<1>0. PICK N \in 0 .. MaxInGame : N = NewSize
  BY NewSizeFits
<1>1. game_id' = game_id /\ last_rand' = Drawn[3 * N] /\ event_no' = event_no + N
  BY <1>0, Zenon DEF NewGame
<1>2. N \in 0 .. MaxInGame /\ N \in Nat /\ 3 * N \in Nat
  BY <1>0
<1>3. Since(Good, 0)
  BY Zenon DEF IdInv
<1>4. last_rand = Following(game_id)
  BY <1>3, OneChain, Zenon DEF Since
<1>5. Good \in SUBSET Nat /\ last_rand \in Good /\ game_id \in Good
      /\ \A x \in Good : Following(x) \in Good
  BY DEF IdInv, OrbitIsLong
<1>6. PICK g \in Chains(Good, 3 * N + 1) : g[0] = game_id /\ g[3 * N + 1] = Drawn[3 * N]
  <2>1. PICK k \in Nat : k = 3 * N
    BY <1>2
  <2>2. \E g \in Chains(Good, k + 1) : g[0] = game_id /\ g[k + 1] = Drawn[k]
    BY <1>4, <1>5, ChainOfDraws
  <2> QED
    BY <2>1, <2>2
<1>7. Since(Good, N)'
  BY <1>1, <1>6, Zenon DEF Since
<1>8. last_rand' \in Good
  <2>1. g \in [0 .. 3 * N + 1 -> Good] /\ 3 * N + 1 \in 0 .. 3 * N + 1
    BY <1>2, <1>6 DEF Chains
  <2> QED
    BY <1>1, <1>6, <2>1
<1>9. event_no' \in Nat \ {0} /\ (event_no' = 1 => N = 0) /\ ~(event_no' < event_no)
  BY <1>1, <1>2
<1>10. IdInv(Good)'
  BY <1>1, <1>2, <1>5, <1>7, <1>8, <1>9, Zenon DEF IdInv
<1> QED
  BY <1>1, <1>9, <1>10

(* Every step keeps IdInv, and lowers event_no only with a new id.         *)
LEMMA IdStep ==
  ASSUME Quiet, NEW Good, OrbitIsLong(Good), IdInv(Good),
         TypeOK, LoopInv, PhaseInv, [Next]_vars
  PROVE  IdInv(Good)' /\ (event_no' < event_no => game_id' # game_id)
<1>1. CASE \E l \in Loops : ResetCounters(l)
  BY <1>1, IdReset
<1>2. CASE NewGame /\ event_no = 1
  BY <1>2, IdNewGame
<1>3. CASE UNCHANGED idVars /\ (event_no' = event_no + 1 \/ event_no' = event_no)
  <2>1. game_id' = game_id /\ last_rand' = last_rand
    BY <1>3 DEF idVars
  <2>2. game_id \in Good /\ last_rand \in Good /\ event_no \in Nat \ {0}
    BY Zenon DEF IdInv
  <2>3. PICK n \in 0 .. MaxInGame : Since(Good, n) /\ (event_no = 1 => n = 0)
    BY Zenon DEF IdInv
  <2>4. Since(Good, n)'
    BY <2>1, <2>3, Zenon DEF Since
  <2>5. event_no' \in Nat \ {0} /\ ~(event_no' < event_no)
        /\ (event_no' = 1 => event_no = 1)
    BY <1>3, <2>2
  <2>6. IdInv(Good)'
    BY <2>1, <2>2, <2>3, <2>4, <2>5, Zenon DEF IdInv
  <2> QED
    BY <2>5, <2>6
<1> QED
  BY <1>1, <1>2, <1>3, IdSteps

(* Two games in a row have different ids (property IdsTellGamesApart), if  *)
(* the generator does not come back to a number too soon.                  *)
THEOREM IdsDiffer ==
  ASSUME Quiet, NEW CONSTANT Good, OrbitIsLong(Good)
  PROVE  Spec => IdsTellGamesApart
<1>1. Init => IdInv(Good)
  <2> SUFFICES ASSUME Init PROVE IdInv(Good)
    OBVIOUS
  <2>1. game_id \in Seeds /\ last_rand = Following(game_id) /\ event_no = 1
    BY Zenon DEF Init
  <2>2. game_id \in Good /\ Following(game_id) \in Good
    BY <2>1 DEF OrbitIsLong
  <2>3. Since(Good, 0)
    BY <2>1, <2>2, OneDraw, Zenon DEF Since
  <2>4. 0 \in 0 .. MaxInGame /\ 1 \in Nat \ {0}
    OBVIOUS
  <2> QED
    BY <2>1, <2>2, <2>3, <2>4, Zenon DEF IdInv
<1>2. TypeOK /\ LoopInv /\ PhaseInv /\ IdInv(Good) /\ [Next]_vars => IdInv(Good)'
  BY IdStep
<1>3. TypeOK /\ LoopInv /\ PhaseInv /\ IdInv(Good) /\ [Next]_vars
        => [event_no' < event_no => game_id' # game_id]_vars
  BY IdStep
<1> QED
  BY <1>1, <1>2, <1>3, TypeCorrect, LoopInvariant, PhaseInvariant, PTL
     DEF Spec, IdsTellGamesApart
=============================================================================
