------------------------------ MODULE GameProofs ------------------------------
(***************************************************************************)
(* Proofs about module Game: its types, the threads of games, and when a   *)
(* game starts.                                                            *)
(***************************************************************************)
EXTENDS GameProperties, FiniteSetTheorems, SequenceTheorems, TLAPS

USE NamesAssumption, SizesAssumption, DirectionsAssumption, QuietAssumption

(* A number taken modulo CountMod is a value of players_ready_count.       *)
LEMMA CountRange ==
  ASSUME NEW c \in 0 .. CountMod - 1
  PROVE  /\ (c + 1) % CountMod \in 0 .. CountMod - 1
         /\ (c - 1) % CountMod \in 0 .. CountMod - 1
<1>1. \A i \in Int : i % CountMod \in 0 .. CountMod - 1
  BY SMT
<1>2. c + 1 \in Int /\ c - 1 \in Int
  OBVIOUS
<1> QED
  BY <1>1, <1>2

(* What the generator computes next is again a value of last_rand.         *)
LEMMA FollowingRange ==
  ASSUME NEW x \in Nat
  PROVE  Following(x) \in Rands /\ Rands \subseteq Nat
<1>1. \A i \in Int : i % RandMod \in 0 .. RandMod - 1
  BY RandomAssumption, SMT
<1>2. x * RandMul \in Int
  BY RandomAssumption
<1> QED
  BY <1>1, <1>2 DEF Following, Rands

(* The connected players are finitely many.                                *)
LEMMA ConnectedFinite ==
  ASSUME TypeOK
  PROVE  /\ IsFiniteSet(Connected) /\ Cardinality(Connected) \in Nat
         /\ IsFiniteSet(InNewGame) /\ NewSize \in Nat
<1>1. IsFiniteSet(Connected)
  BY FS_Subset DEF TypeOK
<1>2. IsFiniteSet(InNewGame)
  BY <1>1, FS_Subset DEF InNewGame
<1> QED
  BY <1>1, <1>2, FS_CardinalityType DEF NewSize

(* A rank is a natural number, and smaller names have smaller ranks.       *)
LEMMA RankType ==
  ASSUME TypeOK, NEW nm \in Connected
  PROVE  /\ Rank(nm) \in Nat
         /\ \A m \in Connected : m < nm => Rank(m) < Rank(nm)
<1> DEFINE Below(n) == {m \in Connected : m < n}
<1>1. \A n \in Connected : IsFiniteSet(Below(n)) /\ Cardinality(Below(n)) \in Nat
  BY ConnectedFinite, FS_Subset, FS_CardinalityType
<1>2. ASSUME NEW m \in Connected, m < nm
      PROVE  Cardinality(Below(m)) < Cardinality(Below(nm))
  <2>1. Connected \subseteq Nat
    BY DEF TypeOK
  <2>2. Below(m) \subseteq Below(nm)
    <3> SUFFICES ASSUME NEW x \in Connected, x < m PROVE x < nm
      OBVIOUS
    <3>1. x \in Nat /\ m \in Nat /\ nm \in Nat
      BY <2>1
    <3> QED
      BY <3>1, <1>2
  <2>3. m \in Below(nm) /\ m \notin Below(m)
    BY <2>1, <1>2
  <2>4. IsFiniteSet(Below(nm)) /\ IsFiniteSet(Below(m))
    BY <1>1
  <2>5. /\ Cardinality(Below(m)) <= Cardinality(Below(nm))
        /\ Cardinality(Below(nm)) = Cardinality(Below(m)) => Below(nm) = Below(m)
    BY <2>2, <2>4, FS_Subset
  <2> QED
    BY <1>1, <2>3, <2>5
<1>3. \A n : Rank(n) = Cardinality(Below(n))
  BY DEF Rank
<1> QED
  BY <1>1, <1>2, <1>3

(* The ranks of the players in a new game are 0, 1, ..., NewSize - 1, each *)
(* the rank of one of them.                                                *)
LEMMA RanksFill ==
  ASSUME TypeOK
  PROVE  /\ \A nm \in InNewGame : Rank(nm) \in 0 .. NewSize - 1
         /\ \A m, n \in InNewGame : Rank(m) = Rank(n) => m = n
         /\ \A k \in 0 .. NewSize - 1 : \E nm \in InNewGame : Rank(nm) = k
<1>1. NewSize \in Nat /\ IsFiniteSet(InNewGame) /\ NewSize = Cardinality(InNewGame)
  BY ConnectedFinite DEF NewSize
<1>2. InNewGame \subseteq Connected /\ Connected \subseteq Nat
  BY DEF InNewGame, TypeOK
<1>3. ASSUME NEW nm \in InNewGame PROVE Rank(nm) \in 0 .. NewSize - 1
  <2> DEFINE Below == {m \in Connected : m < nm}
  <2>1. Rank(nm) \in Nat /\ Rank(nm) < MaxInGame
    BY <1>2, RankType DEF InNewGame
  <2>2. \A m \in Below : Rank(m) \in Nat /\ Rank(m) < Rank(nm)
    BY <1>2, RankType
  <2>3. Below \subseteq InNewGame /\ nm \notin Below
    <3>1. \A m \in Below : Rank(m) < MaxInGame
      BY <2>1, <2>2
    <3>2. Below \subseteq InNewGame
      BY <3>1 DEF InNewGame
    <3>3. nm \in Nat
      BY <1>2
    <3>4. nm \notin Below
      BY <3>3
    <3> QED
      BY <3>2, <3>4
  <2>4. /\ Cardinality(Below) <= Cardinality(InNewGame)
        /\ Cardinality(InNewGame) = Cardinality(Below) => InNewGame = Below
    BY <1>1, <2>3, FS_Subset
  <2>5. Rank(nm) = Cardinality(Below)
    BY DEF Rank
  <2> QED
    BY <1>1, <2>1, <2>3, <2>4, <2>5
<1>4. ASSUME NEW m \in InNewGame, NEW n \in InNewGame, Rank(m) = Rank(n)
      PROVE  m = n
  <2>1. m < n => Rank(m) < Rank(n)
    BY <1>2, RankType
  <2>2. n < m => Rank(n) < Rank(m)
    BY <1>2, RankType
  <2>3. m \in Nat /\ n \in Nat /\ Rank(m) \in Int
    BY <1>2, <1>3
  <2> QED
    BY <1>4, <2>1, <2>2, <2>3
<1>5. \A k \in 0 .. NewSize - 1 : \E nm \in InNewGame : Rank(nm) = k
  <2> DEFINE r == [nm \in InNewGame |-> Rank(nm)]
  <2>1. r \in Injection(InNewGame, 0 .. NewSize - 1)
    <3>1. r \in [InNewGame -> 0 .. NewSize - 1]
      BY <1>3
    <3>2. \A a, b \in InNewGame : r[a] = r[b] => a = b
      BY <1>4
    <3> QED
      BY <3>1, <3>2 DEF Injection, IsInjective
  <2>2. IsFiniteSet(0 .. NewSize - 1) /\ Cardinality(0 .. NewSize - 1) = NewSize
    <3>1. /\ IsFiniteSet(0 .. NewSize - 1)
          /\ Cardinality(0 .. NewSize - 1) =
                IF 0 > NewSize - 1 THEN 0 ELSE NewSize - 1 - 0 + 1
      <4>1. 0 \in Int /\ NewSize - 1 \in Int
        BY <1>1
      <4> QED
        BY <4>1, FS_Interval
    <3> QED
      BY <1>1, <3>1
  <2>3. r \in Surjection(InNewGame, 0 .. NewSize - 1)
    BY <1>1, <2>1, <2>2, FS_Injection
  <2> QED
    BY <2>3 DEF Surjection
<1> QED
  BY <1>3, <1>4, <1>5

-----------------------------------------------------------------------------
(* Type correctness, an action at a time.                                  *)

(* The state the server starts in is well typed.                           *)
LEMMA TypeInit == Init => TypeOK
<1> SUFFICES ASSUME Init PROVE TypeOK
  OBVIOUS
<1>1. snakes \in Seq(Snake) /\ events \in Seq(Event)
  BY EmptySeq DEF Init
<1>2. Connected = {} /\ players \in [Connected -> Player]
  BY DEF Init, Connected
<1>3. /\ players_ready_count \in 0 .. CountMod - 1
      /\ game_id \in Nat /\ last_rand \in Rands
  BY FollowingRange, RandomAssumption DEF Init
<1>4. pc \in [Loops -> Places] /\ frame_i \in [Loops -> Nat \ {0}]
  BY DEF Init, Places
<1>5. running \in BOOLEAN /\ starting \in BOOLEAN
  BY Zenon DEF Init
<1>6. pressed \subseteq Names /\ occupied \subseteq Pixels
  BY DEF Init
<1>7. snakes_alive_count \in Int /\ event_no \in Nat
  BY DEF Init
<1> QED
  BY <1>1, <1>2, <1>3, <1>4, <1>5, <1>6, <1>7 DEF TypeOK

(* Calls that join, leave or get a waiting player ready keep the types.    *)
LEMMA TypeCalls ==
  ASSUME TypeOK, NEW nm \in Names, NEW d \in Directions,
         AddPlayer(nm) \/ RemovePlayer(nm) \/ StartingAction(nm, d)
  PROVE  TypeOK'
<1>1. CASE AddPlayer(nm)
  BY <1>1 DEF AddPlayer, TypeOK, Connected, playVars, idVars, Player, NewPlayer
<1>2. CASE RemovePlayer(nm)
  <2>1. CountWithout(nm) \in 0 .. CountMod - 1
    BY CountRange DEF TypeOK, CountWithout
  <2>2. running' \in BOOLEAN /\ starting' \in BOOLEAN
    BY <1>2 DEF RemovePlayer, TypeOK, StartIfStopped, Start, AllReady
  <2> QED
    BY <1>2, <2>1, <2>2 DEF RemovePlayer, TypeOK, Connected, playVars, idVars
<1>3. CASE StartingAction(nm, d)
  <2>1. (players_ready_count + 1) % CountMod \in 0 .. CountMod - 1
    BY CountRange DEF TypeOK
  <2>2. running' \in BOOLEAN /\ starting' \in BOOLEAN
    BY <1>3 DEF StartingAction, TypeOK, Start, AllReady
  <2>3. Connected' = Connected /\ players' \in [Connected -> Player]
    <3>1. players[nm] \in Player /\ players \in [Connected -> Player]
      BY <1>3 DEF StartingAction, TypeOK
    <3>2. [players[nm] EXCEPT !.ready = TRUE] \in Player
      BY <3>1 DEF Player
    <3>3. \/ players' = [players EXCEPT ![nm] = [players[nm] EXCEPT !.ready = TRUE]]
          \/ players' = players
      BY <1>3 DEF StartingAction
    <3>4. players' \in [Connected -> Player]
      BY <3>1, <3>2, <3>3
    <3> QED
      BY <3>4 DEF Connected
  <2>4. players_ready_count' \in 0 .. CountMod - 1
    BY <1>3, <2>1 DEF StartingAction, TypeOK
  <2> QED
    BY <1>3, <2>2, <2>3, <2>4 DEF StartingAction, TypeOK, playVars, idVars
<1> QED
  BY <1>1, <1>2, <1>3

(* A direction from the player of a running game keeps the types.          *)
LEMMA TypeTurn ==
  ASSUME TypeOK, NEW nm \in Names, NEW d \in Directions, RunningAction(nm, d)
  PROVE  TypeOK'
<1> DEFINE k == players[nm].player_no + 1
<1>1. k \in 1 .. Len(snakes) /\ snakes[k] \in Snake
  BY ElementOfSeq DEF RunningAction, TypeOK
<1>2. [snakes[k] EXCEPT !.dir = d] \in Snake
  BY <1>1 DEF Snake
<1>3. snakes' = [snakes EXCEPT ![k] = [snakes[k] EXCEPT !.dir = d]]
  BY DEF RunningAction
<1>4. snakes' \in Seq(Snake)
  BY <1>1, <1>2, <1>3, ExceptSeq DEF TypeOK
<1> QED
  BY <1>4 DEF RunningAction, TypeOK, Connected, netVars, idVars

(* What new_game announces and the snakes it makes are well typed.         *)
LEMMA NewGameTypes ==
  ASSUME TypeOK, NEW start \in [1 .. NewSize -> Pixels]
  PROVE  /\ Roster \in Seq(Names)
         /\ StartingSnakes(start) \in Seq(Snake)
         /\ StartingEvents(start) \in Seq(Event)
<1>1. NewSize \in Nat
  BY ConnectedFinite
<1>2. Roster \in [1 .. NewSize -> Names]
  <2>1. \A i \in 1 .. NewSize : \E nm \in InNewGame : Rank(nm) = i - 1
    BY <1>1, RanksFill
  <2>2. \A i \in 1 .. NewSize :
           (CHOOSE nm \in InNewGame : Rank(nm) = i - 1) \in InNewGame
    BY <2>1
  <2>3. InNewGame \subseteq Names
    BY DEF InNewGame, TypeOK
  <2> QED
    BY <2>2, <2>3 DEF Roster
<1>3. Roster \in Seq(Names)
  BY <1>1, <1>2
<1>4. StartingSnakes(start) \in [1 .. NewSize -> Snake]
  <2>1. Pixels \subseteq (0 .. Width) \X (0 .. Height)
    BY DEF Pixels
  <2>2. \A i \in 1 .. NewSize : start[i] \in (0 .. Width) \X (0 .. Height)
    BY <2>1
  <2>3. \A i \in 1 .. NewSize : FreeHead(start, i) \in BOOLEAN
    BY DEF FreeHead
  <2> QED
    BY <2>2, <2>3 DEF StartingSnakes, Snake
<1>5. StartingSnakes(start) \in Seq(Snake)
  BY <1>1, <1>4
<1> DEFINE Placing(i) == IF FreeHead(start, i)
                         THEN PixelEvent(event_no + i - 1, i, start[i])
                         ELSE EliminatedEvent(event_no + i - 1, i)
<1>6. \A i \in 1 .. NewSize : Placing(i) \in Event
  <2> SUFFICES ASSUME NEW i \in 1 .. NewSize PROVE Placing(i) \in Event
    OBVIOUS
  <2>1. event_no + i - 1 \in Nat /\ i - 1 \in Nat /\ start[i] \in Pixels
    BY <1>1 DEF TypeOK
  <2>2. PixelEvent(event_no + i - 1, i, start[i]) \in Event
    BY <2>1 DEF PixelEvent, Event
  <2>3. EliminatedEvent(event_no + i - 1, i) \in Event
    BY <2>1 DEF EliminatedEvent, Event
  <2> QED
    BY <2>2, <2>3
<1>7. [i \in 1 .. NewSize |-> Placing(i)] \in Seq(Event)
  BY <1>1, <1>6
<1>8. <<NewGameEvent(Roster)>> \in Seq(Event)
  BY <1>3 DEF NewGameEvent, Event
<1>9. StartingEvents(start)
         = <<NewGameEvent(Roster)>> \o [i \in 1 .. NewSize |-> Placing(i)]
  BY DEF StartingEvents
<1>10. StartingEvents(start) \in Seq(Event)
  <2> DEFINE placings == [i \in 1 .. NewSize |-> Placing(i)]
  <2> HIDE DEF placings
  <2>1. placings \in Seq(Event)
    BY <1>7 DEF placings
  <2>2. StartingEvents(start) = <<NewGameEvent(Roster)>> \o placings
    BY <1>9 DEF placings
  <2> QED
    BY <2>1, <2>2, <1>8, ConcatProperties
<1> QED
  BY <1>3, <1>5, <1>10

(* new_game keeps the types.                                               *)
LEMMA TypeNewGame == ASSUME TypeOK, NewGame PROVE TypeOK'
<1>1. PICK start \in [1 .. NewSize -> Pixels] :
         /\ snakes' = StartingSnakes(start)
         /\ occupied' = {start[i] : i \in 1 .. NewSize}
         /\ snakes_alive_count' =
               Cardinality({i \in 1 .. NewSize : FreeHead(start, i)})
         /\ events' = events \o StartingEvents(start)
  BY Zenon DEF NewGame, Store, Starts
<1>2. snakes' \in Seq(Snake) /\ events' \in Seq(Event)
  BY <1>1, NewGameTypes, ConcatProperties DEF TypeOK
<1>3. occupied' \subseteq Pixels
  BY <1>1
<1>4. snakes_alive_count' \in Int /\ event_no' \in Nat
  <2>1. NewSize \in Nat /\ IsFiniteSet(1 .. NewSize)
    BY ConnectedFinite, FS_Interval
  <2>2. IsFiniteSet({i \in 1 .. NewSize : FreeHead(start, i)})
    BY <2>1, FS_Subset
  <2>3. Cardinality({i \in 1 .. NewSize : FreeHead(start, i)}) \in Nat
    BY <2>2, FS_CardinalityType
  <2>4. event_no' = event_no + NewSize
    BY DEF NewGame
  <2> QED
    BY <1>1, <2>1, <2>3, <2>4 DEF TypeOK
<1>5. Connected' = Connected /\ players' \in [Connected -> Player]
  <2>1. \A nm \in Connected : players[nm] \in Player /\ Rank(nm) \in Nat
    BY RankType DEF TypeOK
  <2>2. \A nm \in Connected :
           [players[nm] EXCEPT !.player_no = Rank(nm), !.in_game = TRUE] \in Player
    BY <2>1 DEF Player
  <2>3. players' \in [Connected -> Player]
    BY <2>1, <2>2 DEF NewGame
  <2> QED
    BY <2>3 DEF Connected
<1>6. pc' \in [Loops -> Places] /\ frame_i' = frame_i
  BY DEF NewGame, Spawn, TypeOK, Places
<1>7. running' = running /\ starting' \in BOOLEAN
  BY Zenon DEF NewGame
<1> QED
  BY <1>2, <1>3, <1>4, <1>5, <1>6, <1>7 DEF NewGame, TypeOK

(* The pixels a snake can move to lie within the type of positions.        *)
LEMMA MovedType ==
  ASSUME NEW q \in (0 .. Width) \X (0 .. Height), NEW p \in MovedFrom(q)
  PROVE  p \in (0 .. Width) \X (0 .. Height)
<1>1. \A c, size : size \in Nat => Near(c, size) \subseteq 0 .. size
  BY DEF Near
<1>2. /\ Near(q[1], Width) \subseteq 0 .. Width
      /\ Near(q[2], Height) \subseteq 0 .. Height
  BY <1>1
<1>3. p \in Near(q[1], Width) \X Near(q[2], Height)
  BY DEF MovedFrom
<1> QED
  BY <1>2, <1>3

(* The move of one snake in a tick keeps the types.                        *)
LEMMA TypeMove == ASSUME TypeOK, NEW l \in Loops, MoveSnake(l) PROVE TypeOK'
<1> DEFINE i == frame_i[l]
<1>1. i \in 1 .. Len(snakes) /\ snakes[i] \in Snake
  BY ElementOfSeq DEF MoveSnake, IsAlive, TypeOK
<1>2. PICK p \in MovedFrom(snakes[i].pos) : PlaceSnake(i, p)
  BY DEF MoveSnake
<1>3. snakes[i].pos \in (0 .. Width) \X (0 .. Height)
  BY <1>1 DEF Snake
<1>4. p \in (0 .. Width) \X (0 .. Height)
  BY <1>3, MovedType
<1> DEFINE here == [snakes[i] EXCEPT !.pos = p]
           dead == [snakes[i] EXCEPT !.pos = p, !.alive = FALSE]
<1>5. here \in Snake /\ dead \in Snake
  BY <1>1, <1>4 DEF Snake
<1>6. snakes' = [snakes EXCEPT ![i] = here] \/ snakes' = [snakes EXCEPT ![i] = dead]
  BY <1>1, <1>2 DEF PlaceSnake, Dead
<1>7. snakes' \in Seq(Snake)
  <2> HIDE DEF here, dead, i
  <2>1. snakes \in Seq(Snake)
    BY DEF TypeOK
  <2> QED
    BY <1>1, <1>5, <1>6, <2>1, ExceptSeq
<1>8. occupied' \subseteq Pixels
  <2>1. IsEmpty(p) => p \in Pixels
    BY <1>4 DEF IsEmpty, Pixels
  <2> QED
    BY <1>2, <2>1 DEF PlaceSnake, Marked, TypeOK
<1>9. snakes_alive_count' \in Int
  BY <1>2 DEF PlaceSnake, OneLessAlive, TypeOK
<1>10. events' \in Seq(Event)
  <2>1. event_no \in Nat /\ i - 1 \in Nat
    BY <1>1 DEF TypeOK
  <2>2. IsEmpty(p) => PixelEvent(event_no, i, p) \in Event
    BY <1>4, <2>1 DEF IsEmpty, Pixels, PixelEvent, Event
  <2>3. EliminatedEvent(event_no, i) \in Event
    BY <2>1 DEF EliminatedEvent, Event
  <2>4. PICK e \in Event : events' = events \o <<e>>
    BY <1>2, <2>2, <2>3 DEF PlaceSnake, Store
  <2>5. <<e>> \in Seq(Event)
    OBVIOUS
  <2> QED
    BY <2>4, <2>5, ConcatProperties DEF TypeOK
<1>11. event_no' \in Nat /\ frame_i' \in [Loops -> Nat \ {0}]
  BY DEF MoveSnake, TypeOK
<1> QED
  BY <1>7, <1>8, <1>9, <1>10, <1>11 DEF MoveSnake, TypeOK, Connected, netVars, idVars

(* Every step of a game loop's thread keeps the types.                     *)
LEMMA TypeLoop == ASSUME TypeOK, NEW l \in Loops, Loop(l) PROVE TypeOK'
<1>1. ASSUME NEW at \in Places, Goto(l, at) PROVE pc' \in [Loops -> Places]
  BY <1>1 DEF Goto, TypeOK
<1>2. CASE Check(l)
  <2>1. pc' \in [Loops -> Places]
    BY <1>1, <1>2 DEF Check, Places
  <2> QED
    BY <1>2, <2>1 DEF Check, TypeOK, Connected, netVars, playVars, idVars
<1>3. CASE BeginFrame(l)
  <2>1. pc' \in [Loops -> Places]
    BY <1>1, <1>3 DEF BeginFrame, Places
  <2>2. frame_i' \in [Loops -> Nat \ {0}]
    BY <1>3 DEF BeginFrame, TypeOK
  <2> QED
    BY <1>3, <2>1, <2>2 DEF BeginFrame, TypeOK, Connected, netVars, playVars, idVars
<1>4. CASE SkipSnake(l)
  <2>1. frame_i' \in [Loops -> Nat \ {0}]
    BY <1>4 DEF SkipSnake, TypeOK
  <2> QED
    BY <1>4, <2>1 DEF SkipSnake, TypeOK, Connected, netVars, playVars, idVars
<1>5. CASE MoveSnake(l)
  BY <1>5, TypeMove
<1>6. CASE EndFrame(l)
  <2>1. pc' \in [Loops -> Places]
    BY <1>1, <1>6 DEF EndFrame, Places
  <2> QED
    BY <1>6, <2>1 DEF EndFrame, TypeOK, Connected, netVars, playVars, idVars
<1>7. CASE GameOver(l)
  <2>1. pc' \in [Loops -> Places]
    BY <1>1, <1>7 DEF GameOver, Places
  <2>2. events' \in Seq(Event) /\ event_no' \in Nat
    BY <1>7 DEF GameOver, ClearStore, TypeOK
  <2> QED
    BY <1>7, <2>1, <2>2 DEF GameOver, TypeOK, Connected, netVars, idVars
<1>8. CASE StopRunning(l)
  <2>1. pc' \in [Loops -> Places]
    BY <1>1, <1>8 DEF StopRunning, Places
  <2>2. running' \in BOOLEAN
    BY <1>8, Zenon DEF StopRunning
  <2> QED
    BY <1>8, <2>1, <2>2 DEF StopRunning, TypeOK, Connected, playVars, idVars
<1>9. CASE ResetCounters(l)
  <2>1. pc' \in [Loops -> Places]
    BY <1>1, <1>9 DEF ResetCounters, Places
  <2>3. last_rand \in Nat
    BY FollowingRange DEF TypeOK
  <2>4. game_id' \in Nat /\ last_rand' \in Rands
    BY <1>9, <2>3, FollowingRange DEF ResetCounters
  <2>2. /\ players_ready_count' \in 0 .. CountMod - 1
        /\ event_no' \in Nat
    BY <1>9 DEF ResetCounters, TypeOK, FirstEventNo
  <2> QED
    BY <1>9, <2>1, <2>2, <2>4 DEF ResetCounters, TypeOK, Connected
<1>10. CASE ResetPlayers(l)
  <2>1. pc' \in [Loops -> Places]
    BY <1>1, <1>10 DEF ResetPlayers, Places
  <2>2. players' \in [Connected -> Player]
    BY <1>10 DEF ResetPlayers, ResetPlayer, TypeOK, Player
  <2>3. Connected' = Connected
    BY <2>2 DEF Connected
  <2> QED
    BY <1>10, <2>1, <2>2, <2>3 DEF ResetPlayers, TypeOK, playVars, idVars
<1> QED
  BY <1>2, <1>3, <1>4, <1>5, <1>6, <1>7, <1>8, <1>9, <1>10 DEF Loop

(* Every step keeps the types.                                             *)
LEMMA TypeStep == ASSUME TypeOK, [Next]_vars PROVE TypeOK'
<1>1. ASSUME NEW nm \in Names, AddPlayer(nm) \/ RemovePlayer(nm) PROVE TypeOK'
  BY <1>1, TypeCalls
<1>2. ASSUME NEW nm \in Names, NEW d \in Directions,
             StartingAction(nm, d) \/ RunningAction(nm, d)
      PROVE  TypeOK'
  BY <1>2, TypeCalls, TypeTurn
<1>3. CASE NewGame
  BY <1>3, TypeNewGame
<1>4. ASSUME NEW l \in Loops, Loop(l) PROVE TypeOK'
  BY <1>4, TypeLoop
<1>5. CASE UNCHANGED vars
  BY <1>5 DEF vars, netVars, playVars, idVars, TypeOK, Connected
<1> QED
  BY <1>1, <1>2, <1>3, <1>4, <1>5 DEF Next

(* Every variable keeps its type (invariant TypeOK).                       *)
THEOREM TypeCorrect == Spec => []TypeOK
<1>1. TypeOK /\ [Next]_vars => TypeOK'
  BY TypeStep
<1> QED
  BY TypeInit, <1>1, PTL DEF Spec

-----------------------------------------------------------------------------
(* Threads.                                                                *)

(* A step keeps RunningHasLoop: the thread was made by the start that set  *)
(* running, and leaves only after somebody has cleared it.                 *)
LEMMA RunningStep ==
  ASSUME TypeOK, RunningHasLoop, [Next]_vars PROVE RunningHasLoop'
<1> USE DEF RunningHasLoop
<1>1. ASSUME NEW nm \in Names, NEW d \in Directions,
             AddPlayer(nm) \/ RemovePlayer(nm) \/ StartingAction(nm, d)
               \/ RunningAction(nm, d)
      PROVE  RunningHasLoop'
  <2>1. pc' = pc
    BY <1>1 DEF AddPlayer, RemovePlayer, StartingAction, RunningAction
  <2>2. running' /\ ~starting' => running /\ ~starting
    BY <1>1 DEF AddPlayer, RemovePlayer, StartingAction, RunningAction,
                StartIfStopped, Start, CallAllowed
  <2> QED
    BY <2>1, <2>2
<1>2. CASE NewGame
  <2>1. PICK l \in Loops : pc' = [pc EXCEPT ![l] = "check"]
    BY <1>2 DEF NewGame, Spawn
  <2> QED
    BY <2>1 DEF TypeOK
<1>3. ASSUME NEW l \in Loops, Loop(l) PROVE RunningHasLoop'
  <2>1. starting' = starting
    BY <1>3, Zenon
       DEF Loop, Check, BeginFrame, SkipSnake, MoveSnake, EndFrame, GameOver,
           StopRunning, ResetCounters, ResetPlayers
  <2>3. running' => running
    <3>1. CASE StopRunning(l)
      BY <3>1, Zenon DEF StopRunning
    <3>2. CASE ~StopRunning(l)
      <4>1. running' = running
        BY <3>2, <1>3, Zenon
           DEF Loop, Check, BeginFrame, SkipSnake, MoveSnake, EndFrame,
               GameOver, ResetCounters, ResetPlayers
      <4> QED
        BY <4>1
    <3> QED
      BY <3>1, <3>2
  <2>2. running' => pc'[l] # "none"
    BY <1>3 DEF Loop, Check, BeginFrame, SkipSnake, MoveSnake, EndFrame,
                GameOver, StopRunning, ResetCounters, ResetPlayers, Goto,
                GoesOn, TypeOK
  <2> QED
    BY <2>1, <2>2, <2>3
<1>4. CASE UNCHANGED vars
  BY <1>4 DEF vars
<1> QED
  BY <1>1, <1>2, <1>3, <1>4 DEF Next

(* A running game always has its thread: no order of calls closes the      *)
(* lobby for ever (invariant RunningHasLoop, whatever Quiet).              *)
THEOREM RunningGameHasLoop == Spec => []RunningHasLoop
<1>1. Init => RunningHasLoop
  BY DEF Init, RunningHasLoop
<1> QED
  BY <1>1, TypeCorrect, RunningStep, PTL DEF Spec

(* When calls stay out of the ending window, a thread is the only one, it  *)
(* plays only while running is set, and is gone before the next start.     *)
LoopInv ==
    /\ AtMostOneLoop
    /\ starting => running /\ \A l \in Loops : pc[l] = "none"
    /\ \A l \in Loops : pc[l] \in {"frame", "move", "over"} => running
    /\ \A l \in Loops : pc[l] \in {"initialize", "players"} => ~running

(* A thread is in initialize(): between StopRunning and ResetPlayers.      *)
Ending == \E l \in Loops : pc[l] \in {"initialize", "players"}

(* Every step keeps LoopInv: calls by CallAllowed, NewGame because no      *)
(* thread is left when it makes one, a thread because it is alone.         *)
LEMMA LoopStep ==
  ASSUME Quiet, TypeOK, LoopInv, [Next]_vars PROVE LoopInv'
<1> USE DEF LoopInv, AtMostOneLoop
<1>1. ASSUME NEW nm \in Names, NEW d \in Directions,
             AddPlayer(nm) \/ RemovePlayer(nm) \/ StartingAction(nm, d)
               \/ RunningAction(nm, d)
      PROVE  LoopInv'
  <2>1. pc' = pc /\ CallAllowed
    BY <1>1 DEF AddPlayer, RemovePlayer, StartingAction, RunningAction
  <2>2. \/ running' = running /\ starting' = starting
        \/ ~running /\ starting' = running'
    <3>1. AddPlayer(nm) => running' = running /\ starting' = starting
      BY Zenon DEF AddPlayer
    <3>2. RunningAction(nm, d) => running' = running /\ starting' = starting
      BY Zenon DEF RunningAction
    <3>3. ASSUME ~running, NEW pl, NEW n, Start(pl, n)
          PROVE  starting' = running'
      BY <3>3 DEF Start, AllReady, TypeOK
    <3>4. CASE StartingAction(nm, d)
      <4>1. ~running
        BY <3>4, Zenon DEF StartingAction
      <4>2. CASE FirstArrow(nm)
        <5>1. Start(players', players_ready_count')
          BY <3>4, <4>2, Zenon DEF StartingAction
        <5> QED
          BY <5>1, <4>1, <3>3
      <4>3. CASE ~FirstArrow(nm)
        <5>1. running' = running /\ starting' = starting
          BY <3>4, <4>3, Zenon DEF StartingAction
        <5> QED
          BY <5>1, Zenon
      <4> QED
        BY <4>2, <4>3
    <3>5. CASE RemovePlayer(nm)
      <4>1. StartIfStopped(players', players_ready_count')
        BY <3>5, Zenon DEF RemovePlayer
      <4>2. CASE running
        BY <4>1, <4>2, Zenon DEF StartIfStopped
      <4>3. CASE ~running
        <5>1. Start(players', players_ready_count')
          BY <4>1, <4>3, Zenon DEF StartIfStopped
        <5> QED
          BY <5>1, <4>3, <3>3
      <4> QED
        BY <4>2, <4>3
    <3> QED
      BY <1>1, <3>1, <3>2, <3>4, <3>5, Zenon
  <2>3. ~running => \A l \in Loops : pc[l] = "none"
    BY <2>1 DEF CallAllowed
  <2> QED
    BY <2>1, <2>2, <2>3
<1>2. CASE NewGame
  <2>1. PICK l \in Loops : pc' = [pc EXCEPT ![l] = "check"]
    BY <1>2 DEF NewGame, Spawn
  <2>2. starting /\ running' = running /\ starting' = FALSE
    BY <1>2, Zenon DEF NewGame
  <2> QED
    BY <2>1, <2>2 DEF TypeOK
<1>3. ASSUME NEW l \in Loops, Loop(l) PROVE LoopInv'
  <2>1. pc[l] # "none" /\ starting' = starting
    BY <1>3, Zenon
       DEF Loop, Check, BeginFrame, SkipSnake, MoveSnake, EndFrame, GameOver,
           StopRunning, ResetCounters, ResetPlayers
  <2>2. ~starting /\ \A m \in Loops : m # l => pc[m] = "none"
    BY <2>1
  <2>3. \A m \in Loops : m # l => pc'[m] = pc[m]
    BY <1>3 DEF Loop, Check, BeginFrame, SkipSnake, MoveSnake, EndFrame,
                GameOver, StopRunning, ResetCounters, ResetPlayers, Goto, TypeOK
  <2>4. /\ pc'[l] \in {"frame", "move", "over"} => running'
        /\ pc'[l] \in {"initialize", "players"} => ~running'
    BY <1>3 DEF Loop, Check, BeginFrame, SkipSnake, MoveSnake, EndFrame,
                GameOver, StopRunning, ResetCounters, ResetPlayers, Goto,
                GoesOn, TypeOK
  <2> QED
    BY <2>1, <2>2, <2>3, <2>4
<1>4. CASE UNCHANGED vars
  BY <1>4 DEF vars
<1> QED
  BY <1>1, <1>2, <1>3, <1>4 DEF Next

(* It holds throughout, if calls stay out of that window, which the code   *)
(* does not see to.                                                        *)
LEMMA LoopInvariant == ASSUME Quiet PROVE Spec => []LoopInv
<1>1. Init => LoopInv
  BY DEF Init, LoopInv, AtMostOneLoop
<1>2. TypeOK /\ LoopInv /\ [Next]_vars => LoopInv'
  BY LoopStep
<1> QED
  BY <1>1, <1>2, TypeCorrect, PTL DEF Spec

-----------------------------------------------------------------------------
(* When a game starts: the counter of ready players, their flags and the   *)
(* arrows they sent stay in step, so games start when everybody is ready,  *)
(* and only then.                                                          *)

(* The counter is wide enough: 8 bits for fewer than 256 names.            *)
CounterIsWide == Cardinality(Names) < CountMod

(* The counter counts the flags, and the flags are set for those who sent  *)
(* an arrow, except that initialize() has cleared some of the three        *)
(* already; and nobody waits for a start that does not come.               *)
ReadyInv ==
    /\ players_ready_count =
          IF \E l \in Loops : pc[l] = "players" THEN 0 ELSE Cardinality(Ready)
    /\ pressed = IF Ending THEN {} ELSE Ready
    /\ NoMissedStart

-----------------------------------------------------------------------------
(* Numbers below CountMod are not changed by the counter's width.          *)
LEMMA ModSmall ==
  ASSUME NEW c \in Nat, c < CountMod
  PROVE  c % CountMod = c
<1> QED
  BY SMT

(* Only all of a finite set are as many as the set.                        *)
LEMMA AllCounted ==
  ASSUME NEW S, IsFiniteSet(S), NEW T \in SUBSET S
  PROVE  /\ IsFiniteSet(T) /\ Cardinality(T) \in Nat /\ Cardinality(S) \in Nat
         /\ Cardinality(T) <= Cardinality(S)
         /\ Cardinality(T) >= Cardinality(S) => T = S
<1>1. /\ IsFiniteSet(T) /\ Cardinality(T) <= Cardinality(S)
      /\ Cardinality(S) = Cardinality(T) => S = T
  BY FS_Subset
<1>2. Cardinality(T) \in Nat /\ Cardinality(S) \in Nat
  BY <1>1, FS_CardinalityType
<1> QED
  BY <1>1, <1>2

(* The ready players are connected, finitely many, and fit the counter.    *)
LEMMA ReadyFinite ==
  ASSUME TypeOK, CounterIsWide
  PROVE  /\ Ready \subseteq Connected /\ IsFiniteSet(Connected)
         /\ IsFiniteSet(Ready) /\ Cardinality(Ready) \in Nat
         /\ Cardinality(Ready) <= Cardinality(Connected)
         /\ Cardinality(Connected) < CountMod /\ Cardinality(Connected) \in Nat
<1>1. Connected \subseteq Names /\ Ready \subseteq Connected
  BY DEF TypeOK, Ready
<1>2. Cardinality(Connected) <= Cardinality(Names) /\ IsFiniteSet(Connected)
      /\ Cardinality(Connected) \in Nat /\ Cardinality(Names) \in Nat
  BY <1>1, AllCounted
<1>3. IsFiniteSet(Ready) /\ Cardinality(Ready) \in Nat
      /\ Cardinality(Ready) <= Cardinality(Connected)
  BY <1>1, <1>2, AllCounted
<1> QED
  BY <1>1, <1>2, <1>3 DEF CounterIsWide

(* A call never comes while a game is ending.                              *)
LEMMA CallsAreCalm ==
  ASSUME Quiet, TypeOK, LoopInv, CallAllowed
  PROVE  ~Ending /\ ~starting
BY DEF Ending, LoopInv, CallAllowed

(* The start decided with a count that is right: if it is not made, then   *)
(* some connected player is not ready or there is but one.                 *)
LEMMA StartDecides ==
  ASSUME NEW pl, NEW count, NEW R \in SUBSET DOMAIN pl, IsFiniteSet(DOMAIN pl),
         count = Cardinality(R), Start(pl, count)
  PROVE  /\ ~running' => ~(Cardinality(DOMAIN pl) >= 2 /\ DOMAIN pl \subseteq R)
         /\ starting' => Cardinality(DOMAIN pl) >= 2 /\ R = DOMAIN pl
<1>1. Cardinality(R) >= Cardinality(DOMAIN pl) => R = DOMAIN pl
  BY AllCounted
<1>2. DOMAIN pl \subseteq R => Cardinality(R) = Cardinality(DOMAIN pl)
  BY Zenon
<1>3. Cardinality(DOMAIN pl) \in Nat /\ Cardinality(R) \in Nat
  BY AllCounted
<1>4. AllReady(pl, count) <=>
         Cardinality(DOMAIN pl) >= 2 /\ Cardinality(R) >= Cardinality(DOMAIN pl)
  BY DEF AllReady
<1>5. AllReady(pl, count) => running'
  BY Zenon DEF Start
<1>6. starting' => AllReady(pl, count)
  BY Zenon DEF Start
<1>7. ASSUME ~running' PROVE ~(Cardinality(DOMAIN pl) >= 2 /\ DOMAIN pl \subseteq R)
  BY <1>7, <1>2, <1>3, <1>4, <1>5
<1>8. starting' => Cardinality(DOMAIN pl) >= 2 /\ R = DOMAIN pl
  BY <1>1, <1>4, <1>6
<1> QED
  BY <1>7, <1>8

-----------------------------------------------------------------------------
(* Joining keeps ReadyInv: who joins is not ready.                         *)
LEMMA ReadyAdd ==
  ASSUME Quiet, CounterIsWide, TypeOK, LoopInv, ReadyInv,
         NEW nm \in Names, AddPlayer(nm)
  PROVE  ReadyInv'
<1>1. CallAllowed /\ ~Ending /\ pressed = Ready
  BY CallsAreCalm DEF AddPlayer, ReadyInv
<1>2. pc' = pc /\ running' = running /\ players_ready_count' = players_ready_count
  BY Zenon DEF AddPlayer
<1>3. Connected' = Connected \cup {nm} /\ nm \notin Connected
  BY DEF AddPlayer, Connected
<1>4. Ready' = Ready
  BY <1>3 DEF AddPlayer, Ready, Connected, NewPlayer
<1>5. pressed' = Ready /\ nm \notin pressed'
  BY <1>1, <1>3 DEF AddPlayer, Ready
<1>6. NoMissedStart'
  BY <1>3, <1>5 DEF NoMissedStart
<1> QED
  BY <1>1, <1>2, <1>4, <1>5, <1>6 DEF ReadyInv, Ending

(* Leaving keeps ReadyInv: the count follows, and remove_player starts the *)
(* game if everybody who is left is ready.                                 *)
LEMMA ReadyRemove ==
  ASSUME Quiet, CounterIsWide, TypeOK, LoopInv, ReadyInv,
         NEW nm \in Names, RemovePlayer(nm)
  PROVE  ReadyInv'
<1>1. CallAllowed /\ ~Ending /\ pressed = Ready
      /\ players_ready_count = Cardinality(Ready)
  BY CallsAreCalm DEF RemovePlayer, ReadyInv, Ending
<1>2. pc' = pc
  BY Zenon DEF RemovePlayer
<1>3. Connected' = Connected \ {nm} /\ nm \in Connected
  BY DEF RemovePlayer, Connected
<1>4. Ready' = Ready \ {nm}
  BY <1>3 DEF RemovePlayer, Ready, Connected
<1>5. pressed' = Ready'
  BY <1>1, <1>4 DEF RemovePlayer
<1>6. players_ready_count' = Cardinality(Ready')
  <2>1. players_ready_count' = CountWithout(nm)
    BY DEF RemovePlayer
  <2>2. CASE nm \in Ready
    <3>1. Cardinality(Ready \ {nm}) = Cardinality(Ready) - 1
      BY <2>2, ReadyFinite, FS_RemoveElement
    <3>2. Cardinality(Ready \ {nm}) \in Nat
      BY ReadyFinite, FS_RemoveElement, FS_CardinalityType
    <3>3. Cardinality(Ready) - 1 \in Nat /\ Cardinality(Ready) - 1 < CountMod
      BY <3>1, <3>2, ReadyFinite
    <3>4. (Cardinality(Ready) - 1) % CountMod = Cardinality(Ready) - 1
      BY <3>3, ModSmall
    <3>5. players[nm].ready
      BY <2>2 DEF Ready
    <3> QED
      BY <1>1, <1>4, <2>1, <3>1, <3>4, <3>5 DEF CountWithout
  <2>3. CASE nm \notin Ready
    <3>1. Ready' = Ready
      BY <1>4, <2>3
    <3>2. ~players[nm].ready
      BY <1>3, <2>3 DEF Ready
    <3> QED
      BY <1>1, <2>1, <3>1, <3>2 DEF CountWithout
  <2> QED
    BY <2>2, <2>3
<1>7. NoMissedStart'
  <2>1. StartIfStopped(players', players_ready_count')
    BY Zenon DEF RemovePlayer
  <2>2. CASE running
    BY <2>1, <2>2, Zenon DEF StartIfStopped, NoMissedStart
  <2>3. CASE ~running
    <3>1. Start(players', players_ready_count')
      BY <2>1, <2>3, Zenon DEF StartIfStopped
    <3>2. IsFiniteSet(Connected') /\ Ready' \subseteq Connected'
      BY <1>3, ReadyFinite, FS_RemoveElement DEF Ready
    <3>3. ~running' =>
             ~(Cardinality(DOMAIN players') >= 2 /\ DOMAIN players' \subseteq Ready')
      BY <1>6, <3>1, <3>2, StartDecides DEF Connected
    <3> QED
      BY <1>5, <3>3 DEF NoMissedStart, Connected
  <2> QED
    BY <2>2, <2>3
<1> QED
  BY <1>1, <1>2, <1>5, <1>6, <1>7 DEF ReadyInv, Ending

(* An arrow before the game keeps ReadyInv: the first of a player counts,  *)
(* and starts the game if it is the last one missing.                      *)
LEMMA ReadyPress ==
  ASSUME Quiet, CounterIsWide, TypeOK, LoopInv, ReadyInv,
         NEW nm \in Names, NEW d \in Directions, StartingAction(nm, d)
  PROVE  ReadyInv'
<1>1. CallAllowed /\ ~Ending /\ pressed = Ready
      /\ players_ready_count = Cardinality(Ready)
  BY CallsAreCalm DEF StartingAction, ReadyInv, Ending
<1>2. pc' = pc /\ pressed' = Ready \cup {nm} /\ nm \in Connected
  BY <1>1 DEF StartingAction
<1>3. CASE ~FirstArrow(nm)
  <2>1. UNCHANGED <<running, players, players_ready_count>>
    BY <1>3, Zenon DEF StartingAction
  <2>2. nm \in Ready
    BY <1>2, <1>3 DEF FirstArrow, Ready
  <2>3. pressed' = pressed
    BY <1>1, <1>2, <2>2
  <2>4. NoMissedStart'
    BY <2>1, <2>3 DEF NoMissedStart, ReadyInv, Connected
  <2>5. Ready' = Ready
    BY <2>1 DEF Ready, Connected
  <2> QED
    BY <1>1, <1>2, <2>1, <2>3, <2>4, <2>5 DEF ReadyInv, Ending
<1>4. CASE FirstArrow(nm)
  <2>1. /\ players' = [players EXCEPT ![nm].ready = TRUE]
        /\ players_ready_count' = (players_ready_count + 1) % CountMod
    BY <1>4 DEF StartingAction
  <2>2. Connected' = Connected /\ nm \in Connected /\ nm \notin Ready
    BY <1>4, <2>1 DEF StartingAction, Connected, FirstArrow, Ready
  <2>3. Ready' = Ready \cup {nm}
    <3>1. players \in [Connected -> Player]
      BY DEF TypeOK
    <3>2. \A m \in Connected : players'[m].ready <=> players[m].ready \/ m = nm
      BY <2>1, <2>2, <3>1 DEF Player
    <3> QED
      BY <2>2, <3>2 DEF Ready
  <2>4. players_ready_count' = Cardinality(Ready')
    <3>1. Cardinality(Ready \cup {nm}) = Cardinality(Ready) + 1
      BY <2>2, ReadyFinite, FS_AddElement
    <3>2. Ready \cup {nm} \subseteq Connected
      BY <2>2 DEF Ready
    <3>3. Cardinality(Ready \cup {nm}) <= Cardinality(Connected)
      BY <3>2, ReadyFinite, AllCounted
    <3>4. Cardinality(Ready) + 1 \in Nat /\ Cardinality(Ready) + 1 < CountMod
      BY <3>1, <3>3, ReadyFinite
    <3>5. (Cardinality(Ready) + 1) % CountMod = Cardinality(Ready) + 1
      BY <3>4, ModSmall
    <3> QED
      BY <1>1, <2>1, <2>3, <3>1, <3>5
  <2>5. NoMissedStart'
    <3>1. Start(players', players_ready_count')
      BY <1>4, Zenon DEF StartingAction
    <3>2. IsFiniteSet(Connected') /\ Ready' \subseteq Connected'
      BY <2>2, ReadyFinite DEF Ready
    <3>3. ~running' =>
             ~(Cardinality(DOMAIN players') >= 2 /\ DOMAIN players' \subseteq Ready')
      BY <2>4, <3>1, <3>2, StartDecides DEF Connected
    <3> QED
      BY <1>2, <2>3, <3>3 DEF NoMissedStart, Connected
  <2> QED
    BY <1>1, <1>2, <2>3, <2>4, <2>5 DEF ReadyInv, Ending
<1> QED
  BY <1>3, <1>4

(* Making a game keeps ReadyInv: new_game leaves the flags alone.          *)
LEMMA ReadyNewGame ==
  ASSUME Quiet, TypeOK, LoopInv, ReadyInv, NewGame
  PROVE  ReadyInv'
<1>1. PICK l \in Loops : pc' = [pc EXCEPT ![l] = "check"]
  BY DEF NewGame, Spawn
<1>2. starting /\ running' = running /\ players_ready_count' = players_ready_count
      /\ pressed' = pressed
  BY Zenon DEF NewGame
<1>3. running /\ \A m \in Loops : pc[m] = "none"
  BY <1>2 DEF LoopInv
<1>4. ~Ending /\ ~Ending' /\ \A m \in Loops : pc'[m] # "players"
  BY <1>1, <1>3 DEF Ending, TypeOK
<1>5. Ready' = Ready
  <2>1. /\ players' = [nm \in Connected |->
                         IF nm \in InNewGame
                         THEN [players[nm] EXCEPT !.player_no = Rank(nm),
                                                  !.in_game = TRUE]
                         ELSE players[nm]]
        /\ players \in [Connected -> Player]
    BY DEF NewGame, TypeOK
  <2>2. \A nm \in Connected : players'[nm].ready = players[nm].ready
    BY <2>1 DEF Player
  <2>3. Connected' = Connected
    BY <2>1 DEF Connected
  <2> QED
    BY <2>2, <2>3 DEF Ready
<1>6. NoMissedStart'
  BY <1>2, <1>3 DEF NoMissedStart
<1> QED
  BY <1>2, <1>3, <1>4, <1>5, <1>6 DEF ReadyInv

(* A thread's steps keep ReadyInv: the end of a game empties `pressed',    *)
(* the counter and the flags one after the other.                          *)
LEMMA ReadyLoop ==
  ASSUME Quiet, TypeOK, LoopInv, ReadyInv, NEW l \in Loops, Loop(l)
  PROVE  ReadyInv'
<1>1. pc[l] # "none" /\ \A m \in Loops : m # l => pc[m] = "none"
  <2>1. pc[l] # "none"
    BY Zenon DEF Loop, Check, BeginFrame, SkipSnake, MoveSnake, EndFrame,
                 GameOver, StopRunning, ResetCounters, ResetPlayers
  <2> QED
    BY <2>1 DEF LoopInv, AtMostOneLoop
<1>2. \A m \in Loops : m # l => pc'[m] = "none"
  BY <1>1 DEF Loop, Check, BeginFrame, SkipSnake, MoveSnake, EndFrame,
              GameOver, StopRunning, ResetCounters, ResetPlayers, Goto, TypeOK
<1>3. CASE StopRunning(l)
  <2>1. pc[l] = "over" /\ pc'[l] = "initialize" /\ pressed' = {}
        /\ players' = players /\ players_ready_count' = players_ready_count
    BY <1>3 DEF StopRunning, Goto, TypeOK
  <2>2. Ending' /\ Ready' = Ready
    BY <2>1 DEF Ending, Ready, Connected
  <2>3. NoMissedStart'
    <3>1. Cardinality(Connected') >= 2 => Connected' # {}
      BY FS_EmptySet
    <3> QED
      BY <2>1, <3>1 DEF NoMissedStart
  <2>4. (\A m \in Loops : pc[m] # "players") /\ \A m \in Loops : pc'[m] # "players"
    BY <1>1, <1>2, <2>1
  <2> QED
    BY <2>1, <2>2, <2>3, <2>4 DEF ReadyInv
<1>4. CASE ResetCounters(l)
  <2>1. pc[l] = "initialize" /\ pc'[l] = "players" /\ pressed' = pressed
        /\ players' = players /\ players_ready_count' = 0
    BY <1>4 DEF ResetCounters, Goto, TypeOK
  <2>2. Ending /\ Ending'
    BY <2>1 DEF Ending
  <2>3. running' = running
    BY <1>4, Zenon DEF ResetCounters
  <2>4. NoMissedStart'
    BY <2>1, <2>3 DEF NoMissedStart, ReadyInv, Connected
  <2> QED
    BY <2>1, <2>2, <2>4 DEF ReadyInv
<1>5. CASE ResetPlayers(l)
  <2>1. pc[l] = "players" /\ pc'[l] = "check" /\ pressed' = pressed
        /\ players_ready_count' = players_ready_count
        /\ players' = [nm \in Connected |-> ResetPlayer(players[nm])]
    BY <1>5 DEF ResetPlayers, Goto, TypeOK
  <2>2. Ending /\ ~Ending' /\ \A m \in Loops : pc'[m] # "players"
    BY <1>2, <2>1 DEF Ending
  <2>3. players_ready_count = 0 /\ pressed = {}
    BY <2>1, <2>2 DEF ReadyInv
  <2>4. Ready' = {}
    <3>1. \A nm \in Connected : ~ResetPlayer(players[nm]).ready
      BY DEF ResetPlayer, TypeOK, Player
    <3> QED
      BY <2>1, <3>1 DEF Ready, Connected
  <2>5. Connected' = Connected
    BY <2>1 DEF Connected
  <2>6. running' = running
    BY <1>5, Zenon DEF ResetPlayers
  <2>7. NoMissedStart'
    BY <2>1, <2>5, <2>6 DEF NoMissedStart, ReadyInv
  <2> QED
    BY <2>1, <2>2, <2>3, <2>4, <2>7, FS_EmptySet DEF ReadyInv
<1>6. CASE ~StopRunning(l) /\ ~ResetCounters(l) /\ ~ResetPlayers(l)
  <2>1. /\ UNCHANGED <<running, players, players_ready_count, pressed>>
        /\ pc[l] \notin {"initialize", "players"}
    BY <1>6, Zenon
       DEF Loop, Check, BeginFrame, SkipSnake, MoveSnake, EndFrame, GameOver,
           netVars
  <2>2. pc'[l] \notin {"initialize", "players"}
    BY <1>6, <2>1
       DEF Loop, Check, BeginFrame, SkipSnake, MoveSnake, EndFrame, GameOver,
           Goto, TypeOK
  <2>3. ~Ending /\ ~Ending'
    BY <1>1, <1>2, <2>1, <2>2 DEF Ending
  <2>4. Ready' = Ready /\ NoMissedStart'
    BY <2>1 DEF Ready, Connected, NoMissedStart, ReadyInv
  <2> QED
    BY <2>1, <2>3, <2>4 DEF ReadyInv, Ending
<1> QED
  BY <1>3, <1>4, <1>5, <1>6

(* Every step keeps ReadyInv.                                              *)
LEMMA ReadyStep ==
  ASSUME Quiet, CounterIsWide, TypeOK, LoopInv, ReadyInv, [Next]_vars
  PROVE  ReadyInv'
<1>1. ASSUME NEW nm \in Names, AddPlayer(nm) \/ RemovePlayer(nm) PROVE ReadyInv'
  BY <1>1, ReadyAdd, ReadyRemove
<1>2. ASSUME NEW nm \in Names, NEW d \in Directions,
             StartingAction(nm, d) \/ RunningAction(nm, d)
      PROVE  ReadyInv'
  <2>1. CASE RunningAction(nm, d)
    BY <2>1 DEF RunningAction, netVars, ReadyInv, Ready, Ending, Connected,
                NoMissedStart
  <2> QED
    BY <1>2, <2>1, ReadyPress
<1>3. CASE NewGame
  BY <1>3, ReadyNewGame
<1>4. ASSUME NEW l \in Loops, Loop(l) PROVE ReadyInv'
  BY <1>4, ReadyLoop
<1>5. CASE UNCHANGED vars
  BY <1>5 DEF vars, netVars, ReadyInv, Ready, Ending, Connected, NoMissedStart
<1> QED
  BY <1>1, <1>2, <1>3, <1>4, <1>5 DEF Next

(* It holds throughout.                                                    *)
LEMMA ReadyInvariant == ASSUME Quiet, CounterIsWide PROVE Spec => []ReadyInv
<1>1. Init => ReadyInv
  BY FS_EmptySet DEF Init, ReadyInv, Ready, Ending, Connected, NoMissedStart
<1>2. TypeOK /\ LoopInv /\ ReadyInv /\ [Next]_vars => ReadyInv'
  BY ReadyStep
<1> QED
  BY <1>1, <1>2, TypeCorrect, LoopInvariant, PTL DEF Spec

(* The counter counts the ready players (invariant ReadyCountExact), with  *)
(* fewer players than it can count and no call while a game ends.          *)
THEOREM CountIsExact ==
  ASSUME Quiet, CounterIsWide PROVE Spec => []ReadyCountExact
<1>1. ReadyInv => ReadyCountExact
  BY DEF ReadyInv, ReadyCountExact
<1> QED
  BY <1>1, ReadyInvariant, PTL

(* Once all of two or more players have sent an arrow, a game runs         *)
(* (invariant NoMissedStart).                                              *)
THEOREM NoStartIsMissed ==
  ASSUME Quiet, CounterIsWide PROVE Spec => []NoMissedStart
<1>1. ReadyInv => NoMissedStart
  BY DEF ReadyInv
<1> QED
  BY <1>1, ReadyInvariant, PTL

(* A game starts only with every connected player's arrow (action property *)
(* StartNeedsAllReady).                                                    *)
THEOREM StartsWhenAllReady ==
  ASSUME Quiet, CounterIsWide PROVE Spec => StartNeedsAllReady
<1> DEFINE Fair == starting' /\ ~starting =>
              Cardinality(DOMAIN players') >= 2 /\ DOMAIN players' \subseteq pressed'
<1>1. TypeOK /\ LoopInv /\ ReadyInv /\ ReadyInv' /\ [Next]_vars => [Fair]_vars
  <2> SUFFICES ASSUME TypeOK, LoopInv, ReadyInv, ReadyInv', Next,
                      starting', ~starting
               PROVE  Fair
    BY DEF vars
  <2>1. PICK nm \in Names :
           RemovePlayer(nm) \/ \E d \in Directions : StartingAction(nm, d)
    <3>1. ASSUME NEW l \in Loops, Loop(l) PROVE starting' = starting
      BY <3>1, Zenon
         DEF Loop, Check, BeginFrame, SkipSnake, MoveSnake, EndFrame, GameOver,
             StopRunning, ResetCounters, ResetPlayers
    <3>2. ~NewGame
      BY Zenon DEF NewGame
    <3>3. \A nm \in Names : ~AddPlayer(nm) /\ \A d \in Directions : ~RunningAction(nm, d)
      BY Zenon DEF AddPlayer, RunningAction
    <3> QED
      BY <3>1, <3>2, <3>3, Zenon DEF Next
  <2>2. Start(players', players_ready_count')
    BY <2>1, Zenon DEF RemovePlayer, StartingAction, StartIfStopped
  <2>3. CallAllowed /\ pc' = pc
    BY <2>1 DEF RemovePlayer, StartingAction
  <2>4. ~Ending'
    BY <2>3, CallsAreCalm DEF Ending
  <2>5. players_ready_count' = Cardinality(Ready') /\ pressed' = Ready'
    BY <2>4 DEF ReadyInv, Ending
  <2>6. IsFiniteSet(Connected') /\ Ready' \subseteq Connected'
    <3>1. TypeOK'
      BY <2>1, TypeCalls, DirectionsAssumption
    <3>2. Connected' \subseteq Names
      BY <3>1 DEF TypeOK
    <3> QED
      BY <3>2, FS_Subset DEF Ready
  <2> QED
    BY <2>2, <2>5, <2>6, StartDecides DEF Connected
<1> QED
  BY <1>1, TypeCorrect, LoopInvariant, ReadyInvariant, PTL
     DEF Spec, StartNeedsAllReady
=============================================================================
