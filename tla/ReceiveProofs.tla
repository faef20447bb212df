--------------------------- MODULE ReceiveProofs ---------------------------
(***************************************************************************)
(* Proofs about module Receive: what the GUI is shown makes sense whatever *)
(* a server sends, and is true when the server keeps to its games.         *)
(***************************************************************************)
EXTENDS Receive, SequenceTheorems, TLAPS

(* Two sequences, one after the other, have no other elements than they.   *)
LEMMA Concatenated ==
  ASSUME NEW T, NEW a \in Seq(T), NEW b \in Seq(T)
  PROVE  a \o b \in Seq(T) /\ Len(a \o b) = Len(a) + Len(b)
BY ConcatProperties

(* A sequence is one over any set that its elements are of.                *)
LEMMA SeqOver ==
  ASSUME NEW S, NEW s \in Seq(S), NEW T, \A i \in 1 .. Len(s) : s[i] \in T
  PROVE  s \in Seq(T)
OBVIOUS

USE GamesAssumption

Shown == [of : Nat, record : Record, name : Nat]

(* Every variable has its type.                                            *)
ReceiveTypeOK ==
    /\ game_id \in Nat /\ event_no \in Nat
    /\ players \in Seq(Nat) /\ width \in Nat
    /\ message \in Seq(Record) /\ events \in Seq(Shown)
    /\ stopping \in BOOLEAN

(* The players and the width are those of the NEW_GAME shown last, if any  *)
(* was shown.                                                              *)
NamesInForce ==
    IF \E j \in DOMAIN events : events[j].record.type = "NEW_GAME"
    THEN \E j \in DOMAIN events :
            /\ Started(Len(events) + 1, j)
            /\ players = events[j].record.names
            /\ width = events[j].record.width
    ELSE players = << >>

(* A record being looked at is one of the client's game, or a faulty one;  *)
(* what made no sense has ended the client.                                *)
IsOf(g, r) == r \in Faulty \/ \E i \in DOMAIN Games[g] : r = Games[g][i]

MessageInv ==
    message # << >> =>
        /\ game_id \in DOMAIN Games
        /\ \A i \in DOMAIN message :
              /\ IsOf(game_id, message[i])
              /\ Known(message[i]) => message[i].sense

(* A client that has taken an event of a game has the game's players.      *)
GameInForce ==
    event_no > 0 =>
        /\ game_id \in DOMAIN Games
        /\ players = Games[game_id][1].names
        /\ width = Games[game_id][1].width

(* What a server does that keeps to the games it plays: a game has one     *)
(* NEW_GAME, and its pixels and eliminations are of its players and on its *)
(* board (Game::new_game and place_player make them so); what else it      *)
(* sends begins no game.  A record is taken in by the client only if its   *)
(* data make sense.                                                        *)
KeepsToGames ==
    \A g \in DOMAIN Games : \A i \in DOMAIN Games[g] :
        LET r == Games[g][i]
        IN  /\ r.type = "NEW_GAME" => i = 1
            /\ InGame(r) => r.player < Len(Games[g][1].names)
            /\ r.type = "PIXEL" => r.x < Games[g][1].width

BeginsNothing ==
    \A r \in Faulty : Known(r) /\ r.sense => r.no > 0 /\ r.type # "NEW_GAME"

-----------------------------------------------------------------------------
(* The records of a datagram that arrive are of its game, or faulty.       *)
LEMMA IntactRecords ==
  ASSUME NEW g \in DOMAIN Games, NEW hi \in 0 .. Len(Games[g]) - 1,
         NEW lo \in 0 .. hi, NEW more \in Additions,
         NEW intact \in 0 .. hi - lo + 1 + Len(more),
         NEW d, d = Datagram(g, Run(g, lo, hi) \o more, intact)
  PROVE  /\ d.id = g /\ g \in Nat
         /\ Intact(d) \in Seq(Record) /\ Len(Intact(d)) = intact
         /\ \A i \in 1 .. intact : IsOf(g, Intact(d)[i])
<1>1. g \in Nat /\ Games[g] \in Seq(Record)
  OBVIOUS
<1>2. /\ Run(g, lo, hi) \in Seq(Record) /\ Len(Run(g, lo, hi)) = hi - lo + 1
      /\ \A i \in 1 .. hi - lo + 1 : IsOf(g, Run(g, lo, hi)[i])
  BY <1>1 DEF Run, IsOf
<1>3. more \in Seq(Record) /\ \A i \in 1 .. Len(more) : IsOf(g, more[i])
  <2>1. CASE more = << >>
    BY <2>1
  <2>2. CASE \E r \in Faulty : more = <<r>>
    <3>1. PICK r \in Faulty : more = <<r>>
      BY <2>2
    <3>2. Len(more) = 1 /\ more[1] = r /\ r \in Record
      BY <3>1
    <3>3. QED  BY <3>1, <3>2 DEF IsOf
  <2>3. QED  BY <2>1, <2>2 DEF Additions
<1> DEFINE all == Run(g, lo, hi) \o more
<1>4. /\ all \in Seq(Record) /\ Len(all) = hi - lo + 1 + Len(more)
      /\ \A i \in 1 .. Len(all) : IsOf(g, all[i])
  <2>1. PICK T : T = {r \in Record : IsOf(g, r)}
    OBVIOUS
  <2>2. PICK run : run = Run(g, lo, hi)
    OBVIOUS
  <2>3. run \in Seq(T) /\ Len(run) = hi - lo + 1
    <3>1. run \in Seq(Record) /\ Len(run) = hi - lo + 1
      BY <1>2, <2>2
    <3>2. \A i \in 1 .. hi - lo + 1 : run[i] \in Record /\ IsOf(g, run[i])
      BY <1>2, <2>2, <3>1
    <3>3. \A i \in 1 .. Len(run) : run[i] \in T
      BY <2>1, <3>1, <3>2
    <3>4. QED  BY <3>1, <3>3, SeqOver
  <2>4. more \in Seq(T)
    <3>1. \A i \in 1 .. Len(more) : more[i] \in Record /\ IsOf(g, more[i])
      BY <1>3
    <3>2. \A i \in 1 .. Len(more) : more[i] \in T
      BY <2>1, <3>1
    <3>3. QED  BY <1>3, <3>2, SeqOver, Zenon
  <2>5. all \in Seq(T) /\ Len(all) = hi - lo + 1 + Len(more)
    BY <2>2, <2>3, <2>4, Concatenated
  <2> HIDE DEF all
  <2>6. \A i \in 1 .. Len(all) : all[i] \in T
    BY <2>5
  <2>7. all \in Seq(Record)
    BY <2>1, <2>5
  <2>8. QED  BY <2>1, <2>5, <2>6, <2>7
<1>5. d.id = g /\ Intact(d) = SubSeq(all, 1, intact)
  BY DEF Datagram, Intact
<1> HIDE DEF all
<1>6. QED  BY <1>1, <1>4, <1>5

-----------------------------------------------------------------------------
(* The type of every variable, and of the records being looked at.         *)
LEMMA NextRecord ==
  ASSUME ReceiveTypeOK, message # << >>
  PROVE  /\ Next1 = message[1] /\ Next1 \in Record
         /\ Tail(message) \in Seq(Record)
         /\ \A i \in DOMAIN Tail(message) :
               i + 1 \in DOMAIN message /\ Tail(message)[i] = message[i + 1]
BY DEF ReceiveTypeOK, Next1

LEMMA TailIsOf ==
  ASSUME ReceiveTypeOK, MessageInv, message # << >>, message' = Tail(message),
         UNCHANGED game_id
  PROVE  MessageInv'
BY NextRecord DEF MessageInv

(* The initial states.                                                     *)
LEMMA InitReceive == Init => ReceiveTypeOK /\ MessageInv /\ NamesInForce /\ GameInForce
<1> SUFFICES ASSUME Init PROVE ReceiveTypeOK /\ MessageInv /\ NamesInForce /\ GameInForce
  OBVIOUS
<1>1. ReceiveTypeOK
  <2>1. /\ << >> \in Seq(Nat) /\ << >> \in Seq(Record) /\ << >> \in Seq(Shown)
        /\ 0 \in Nat /\ FALSE \in BOOLEAN
    OBVIOUS
  <2>2. QED  BY <2>1, Zenon DEF Init, ReceiveTypeOK
<1>2. MessageInv /\ NamesInForce
  BY DEF Init, MessageInv, NamesInForce
<1>3. GameInForce
  BY DEF Init, GameInForce
<1>4. QED  BY <1>1, <1>2, <1>3

-----------------------------------------------------------------------------
(* What a datagram that arrives leaves for the loop.                       *)
Refused ==
    /\ stopping' = TRUE
    /\ UNCHANGED <<game_id, event_no, players, width, message, events>>

Received ==
    /\ message = << >>
    /\ game_id' \in DOMAIN Games /\ game_id' \in Nat
    /\ message' \in Seq(Record)
    /\ \A i \in DOMAIN message' :
          /\ IsOf(game_id', message'[i])
          /\ Known(message'[i]) => message'[i].sense
    /\ event_no' = IF game_id' = game_id THEN event_no ELSE 0
    /\ UNCHANGED <<players, width, events, stopping>>

LEMMA NetworkStep ==
  ASSUME ReceiveTypeOK, Network
  PROVE  Refused \/ Received
<1>1. PICK g \in DOMAIN Games : \E hi \in 0 .. Len(Games[g]) - 1 :
         \E lo \in 0 .. hi, more \in Additions :
         \E intact \in 0 .. hi - lo + 1 + Len(more) :
            Receive(Datagram(g, Run(g, lo, hi) \o more, intact))
  BY Zenon DEF Network
<1>2. PICK hi \in 0 .. Len(Games[g]) - 1 :
         \E lo \in 0 .. hi, more \in Additions :
         \E intact \in 0 .. hi - lo + 1 + Len(more) :
            Receive(Datagram(g, Run(g, lo, hi) \o more, intact))
  BY <1>1, Zenon
<1>3. PICK lo \in 0 .. hi, more \in Additions :
         \E intact \in 0 .. hi - lo + 1 + Len(more) :
            Receive(Datagram(g, Run(g, lo, hi) \o more, intact))
  BY <1>2, Zenon
<1>4. PICK intact \in 0 .. hi - lo + 1 + Len(more) :
         Receive(Datagram(g, Run(g, lo, hi) \o more, intact))
  BY <1>3, Zenon
<1>5. PICK d : d = Datagram(g, Run(g, lo, hi) \o more, intact)
  OBVIOUS
<1>6. /\ d.id = g /\ g \in Nat
      /\ Intact(d) \in Seq(Record) /\ Len(Intact(d)) = intact
      /\ \A i \in 1 .. intact : IsOf(g, Intact(d)[i])
  BY <1>5, IntactRecords
<1>7. CASE ReceiveNonsense(d)
  BY <1>7 DEF ReceiveNonsense, Refused
<1>8. CASE ReceiveMessage(d)
  <2>1. /\ message = << >> /\ message' = Intact(d) /\ game_id' = g
        /\ event_no' = (IF g = game_id THEN event_no ELSE 0)
        /\ UNCHANGED <<players, width, events, stopping>>
    BY <1>6, <1>8 DEF ReceiveMessage, Ready
  <2>2. \A i \in DOMAIN Intact(d) : Known(Intact(d)[i]) => Intact(d)[i].sense
    BY <1>8 DEF ReceiveMessage, Nonsense
  <2>3. DOMAIN Intact(d) = 1 .. intact
    BY <1>6
  <2>4. \A i \in DOMAIN message' :
           /\ IsOf(game_id', message'[i])
           /\ Known(message'[i]) => message'[i].sense
    BY <1>6, <2>1, <2>2, <2>3
  <2>5. QED  BY <1>6, <2>1, <2>4 DEF Received
<1>9. QED  BY <1>4, <1>5, <1>7, <1>8 DEF Receive

(* One more event is shown.                                                *)
LEMMA TakenIs ==
  ASSUME ReceiveTypeOK, message # << >>, NEW name \in Nat, Take(name)
  PROVE  /\ events' \in Seq(Shown) /\ Len(events') = Len(events) + 1
         /\ \A i \in DOMAIN events : events'[i] = events[i]
         /\ events'[Len(events) + 1] =
               [of |-> game_id, record |-> Next1, name |-> name]
         /\ event_no' = event_no + 1
<1>1. [of |-> game_id, record |-> Next1, name |-> name] \in Shown
  BY NextRecord DEF Shown, ReceiveTypeOK
<1>2. PICK e \in Shown : e = [of |-> game_id, record |-> Next1, name |-> name]
  BY <1>1
<1>3. events' = Append(events, e) /\ events \in Seq(Shown)
  BY <1>2 DEF Take, ReceiveTypeOK
<1>4. QED  BY <1>2, <1>3 DEF Take

(* The name that a pixel or an elimination is shown under.                 *)
LEMMA NameIs ==
  ASSUME ReceiveTypeOK, TakeInGame
  PROVE  /\ message # << >> /\ Next1.player \in Nat
         /\ Next1.player + 1 \in DOMAIN players
         /\ players[Next1.player + 1] \in Nat
         /\ Take(players[Next1.player + 1])
         /\ Next1.type # "NEW_GAME"
<1>1. message # << >> /\ InGame(Next1) /\ Valid(Next1)
  BY DEF TakeInGame, Expected, Looking
<1>2. Next1.player \in Nat /\ Next1.player < Len(players) /\ players \in Seq(Nat)
  BY <1>1, NextRecord DEF Valid, ReceiveTypeOK, Record
<1>3. Next1.player + 1 \in DOMAIN players /\ players[Next1.player + 1] \in Nat
  BY <1>2
<1>4. QED  BY <1>1, <1>2, <1>3 DEF TakeInGame, InGame

-----------------------------------------------------------------------------
(* The invariants that hold whatever the server sends.                     *)
LEMMA ReceiveTypeStep ==
  ASSUME ReceiveTypeOK, [Next]_vars
  PROVE  ReceiveTypeOK'
<1>1. CASE Network
  <2>1. CASE Refused
    BY <2>1 DEF Refused, ReceiveTypeOK
  <2>2. CASE Received
    <3>1. /\ game_id' \in Nat /\ message' \in Seq(Record) /\ event_no' \in Nat
          /\ UNCHANGED <<players, width, events, stopping>>
      BY <2>2 DEF Received, ReceiveTypeOK
    <3>2. QED  BY <3>1 DEF ReceiveTypeOK
  <2>3. QED  BY <1>1, <2>1, <2>2, NetworkStep
<1>2. CASE SkipUnknown \/ SkipOld \/ SkipGameOver
  <2>1. message # << >> /\ message' = Tail(message)
    BY <1>2 DEF SkipUnknown, SkipOld, SkipGameOver, Expected, Looking
  <2>2. UNCHANGED <<game_id, event_no, players, width, events, stopping>>
    BY <1>2 DEF SkipUnknown, SkipOld, SkipGameOver
  <2>3. QED  BY <2>1, <2>2, NextRecord DEF ReceiveTypeOK
<1>3. CASE Break
  <2>1. << >> \in Seq(Record)
    OBVIOUS
  <2>2. QED  BY <1>3, <2>1 DEF Break, ReceiveTypeOK
<1>4. CASE TakeNewGame
  <2>1. message # << >> /\ Take(0) /\ 0 \in Nat
    BY <1>4 DEF TakeNewGame, Expected, Looking
  <2>2. players' \in Seq(Nat) /\ width' \in Nat
    BY <1>4, <2>1, NextRecord DEF TakeNewGame, PlayersOf, Record
  <2>3. events' \in Seq(Shown) /\ event_no' = event_no + 1
    BY <2>1, TakenIs
  <2>4. message' \in Seq(Record) /\ UNCHANGED <<game_id, stopping>>
    BY <1>4, <2>1, NextRecord DEF TakeNewGame, Take
  <2>5. QED  BY <2>2, <2>3, <2>4 DEF ReceiveTypeOK
<1>5. CASE TakeInGame
  <2>1. events' \in Seq(Shown) /\ event_no' = event_no + 1
    BY <1>5, NameIs, TakenIs
  <2>2. message' \in Seq(Record)
    BY <1>5, NameIs, NextRecord DEF Take
  <2>3. UNCHANGED <<game_id, players, width, stopping>>
    BY <1>5 DEF TakeInGame
  <2>4. QED  BY <2>1, <2>2, <2>3 DEF ReceiveTypeOK
<1>6. CASE Refuse
  BY <1>6 DEF Refuse, ReceiveTypeOK
<1>7. CASE UNCHANGED vars
  BY <1>7 DEF vars, ReceiveTypeOK
<1>8. QED
  BY <1>1, <1>2, <1>3, <1>4, <1>5, <1>6, <1>7 DEF Next, Loop

LEMMA MessageStep ==
  ASSUME ReceiveTypeOK, MessageInv, [Next]_vars
  PROVE  MessageInv'
<1>1. CASE Network
  <2>1. CASE Refused
    BY <2>1 DEF Refused, MessageInv
  <2>2. CASE Received
    BY <2>2 DEF Received, MessageInv
  <2>3. QED  BY <1>1, <2>1, <2>2, NetworkStep
<1>2. CASE SkipUnknown \/ SkipOld \/ SkipGameOver \/ TakeNewGame \/ TakeInGame
  <2>1. message # << >> /\ message' = Tail(message) /\ UNCHANGED game_id
    BY <1>2 DEF SkipUnknown, SkipOld, SkipGameOver, TakeNewGame, TakeInGame,
                Take, Expected, Looking
  <2>2. QED  BY <2>1, TailIsOf
<1>3. CASE Break
  BY <1>3 DEF Break, MessageInv
<1>4. CASE Refuse
  BY <1>4 DEF Refuse, MessageInv
<1>5. CASE UNCHANGED vars
  BY <1>5 DEF vars, MessageInv
<1>6. QED
  BY <1>1, <1>2, <1>3, <1>4, <1>5 DEF Next, Loop

(* The last NEW_GAME stays the last one when another record is shown.      *)
LEMMA StillStarted ==
  ASSUME ReceiveTypeOK, events' \in Seq(Shown), Len(events') = Len(events) + 1,
         \A i \in DOMAIN events : events'[i] = events[i],
         NEW n \in 1 .. Len(events) + 1,
         NEW j \in DOMAIN events, Started(n, j)
  PROVE  /\ j \in DOMAIN events' /\ events'[j] = events[j]
         /\ Started(n, j)'
         /\ n = Len(events) + 1 /\ events'[n].record.type # "NEW_GAME" =>
               Started(n + 1, j)'
<1>1. /\ Len(events) \in Nat /\ DOMAIN events = 1 .. Len(events)
      /\ DOMAIN events' = 1 .. Len(events) + 1
  BY DEF ReceiveTypeOK
<1>2. /\ j < n /\ events[j].record.type = "NEW_GAME" /\ j \in Nat
      /\ \A k \in j + 1 .. n - 1 : events[k].record.type # "NEW_GAME"
  BY <1>1 DEF Started
<1>3. j \in DOMAIN events' /\ events'[j] = events[j]
  BY <1>1
<1>4. \A k \in j + 1 .. n - 1 : events'[k].record.type # "NEW_GAME"
  <2>1. \A k \in j + 1 .. n - 1 : k \in DOMAIN events
    BY <1>1, <1>2
  <2>2. QED  BY <1>2, <2>1
<1>5. Started(n, j)'
  BY <1>2, <1>3, <1>4 DEF Started
<1>6. ASSUME n = Len(events) + 1, events'[n].record.type # "NEW_GAME"
      PROVE  Started(n + 1, j)'
  <2>1. \A k \in j + 1 .. n + 1 - 1 : k \in j + 1 .. n - 1 \/ k = n
    BY <1>2
  <2>2. \A k \in j + 1 .. n + 1 - 1 : events'[k].record.type # "NEW_GAME"
    BY <1>4, <1>6, <2>1
  <2>3. QED  BY <1>2, <1>3, <2>2 DEF Started
<1>7. QED  BY <1>3, <1>5, <1>6

LEMMA NewIsShown ==
  ASSUME ReceiveTypeOK, TakeInGame
  PROVE  /\ events' \in Seq(Shown) /\ Len(events') = Len(events) + 1
         /\ \A i \in DOMAIN events : events'[i] = events[i]
         /\ events'[Len(events) + 1].record = Next1
         /\ events'[Len(events) + 1].of = game_id
         /\ events'[Len(events) + 1].name = players[Next1.player + 1]
<1>1. PICK name \in Nat : /\ message # << >> /\ Take(name)
                          /\ name = players[Next1.player + 1]
  BY NameIs
<1>2. PICK e : e = events'[Len(events) + 1]
  OBVIOUS
<1>3. e = [of |-> game_id, record |-> Next1, name |-> name]
  BY <1>1, <1>2, TakenIs, Zenon
<1>4. e.record = Next1 /\ e.of = game_id /\ e.name = name
  BY <1>3
<1>5. QED  BY <1>1, <1>2, <1>4, TakenIs, Zenon

LEMMA NewGameIsShown ==
  ASSUME ReceiveTypeOK, TakeNewGame
  PROVE  /\ events' \in Seq(Shown) /\ Len(events') = Len(events) + 1
         /\ \A i \in DOMAIN events : events'[i] = events[i]
         /\ events'[Len(events) + 1].record = Next1
         /\ Next1.type = "NEW_GAME"
<1>1. message # << >> /\ Take(0) /\ Next1.type = "NEW_GAME"
  BY DEF TakeNewGame, Expected, Looking
<1>2. 0 \in Nat
  OBVIOUS
<1>3. PICK e : e = events'[Len(events) + 1]
  OBVIOUS
<1>4. e = [of |-> game_id, record |-> Next1, name |-> 0]
  BY <1>1, <1>2, <1>3, TakenIs, Zenon
<1>5. e.record = Next1
  BY <1>4
<1>6. QED  BY <1>1, <1>2, <1>3, <1>5, TakenIs, Zenon

(* A step that shows nothing leaves the names in force.                    *)
Showing == TakeNewGame \/ TakeInGame

LEMMA NothingShown ==
  ASSUME ReceiveTypeOK, [Next]_vars, ~Showing
  PROVE  UNCHANGED <<players, width, events>>
<1>1. CASE Network
  BY <1>1, NetworkStep DEF Refused, Received
<1>2. CASE SkipUnknown \/ SkipOld \/ Break \/ SkipGameOver \/ Refuse
  BY <1>2 DEF SkipUnknown, SkipOld, Break, SkipGameOver, Refuse
<1>3. CASE UNCHANGED vars
  BY <1>3 DEF vars
<1>4. QED  BY <1>1, <1>2, <1>3 DEF Next, Loop, Showing

LEMMA NamesNewGame ==
  ASSUME ReceiveTypeOK, TakeNewGame
  PROVE  NamesInForce'
<1>1. /\ message # << >> /\ Take(0) /\ Next1.type = "NEW_GAME"
      /\ players' = Next1.names /\ width' = Next1.width
  BY DEF TakeNewGame, Expected, Looking, PlayersOf
<1>2. PICK n \in Nat : n = Len(events)
  BY SMTT(20) DEF ReceiveTypeOK
<1>3. /\ events' \in Seq(Shown) /\ Len(events') = n + 1
      /\ events'[n + 1] = [of |-> game_id, record |-> Next1, name |-> 0]
  BY <1>1, <1>2, TakenIs
<1>4. n + 1 \in DOMAIN events' /\ events'[n + 1].record = Next1
  BY <1>3
<1>5. Started(n + 2, n + 1)'
  BY <1>1, <1>4 DEF Started
<1>6. Len(events') + 1 = n + 2
  BY <1>3
<1>7. QED  BY <1>1, <1>4, <1>5, <1>6 DEF NamesInForce

LEMMA NamesInGame ==
  ASSUME ReceiveTypeOK, NamesInForce, TakeInGame
  PROVE  /\ NamesInForce'
         /\ \E j \in DOMAIN events : /\ Started(Len(events) + 1, j)
                                     /\ players = events[j].record.names
                                     /\ width = events[j].record.width
<1>1. PICK j \in DOMAIN events : /\ Started(Len(events) + 1, j)
                                 /\ players = events[j].record.names
                                 /\ width = events[j].record.width
  <2>1. players # << >>
    BY NameIs
  <2>2. QED  BY <2>1 DEF NamesInForce
<1>2. PICK n \in Nat : n = Len(events)
  BY DEF ReceiveTypeOK
<1>3. /\ events' \in Seq(Shown) /\ Len(events') = n + 1
      /\ \A i \in DOMAIN events : events'[i] = events[i]
      /\ events'[n + 1].record = Next1
  BY <1>2, NewIsShown
<1>4. events'[n + 1].record.type # "NEW_GAME"
  BY <1>3, NameIs
<1>5. /\ j \in DOMAIN events' /\ events'[j] = events[j]
      /\ Started(n + 2, j)'
  <2>1. n + 1 \in 1 .. Len(events) + 1 /\ Started(n + 1, j) /\ n + 1 + 1 = n + 2
    BY <1>1, <1>2
  <2>2. QED  BY <1>2, <1>3, <1>4, <2>1, StillStarted
<1>6. events'[j].record.type = "NEW_GAME"
  BY <1>1, <1>5 DEF Started
<1>7. UNCHANGED <<players, width>>
  BY DEF TakeInGame
<1>8. Len(events') + 1 = n + 2
  BY <1>3
<1>9. NamesInForce'
  BY <1>1, <1>5, <1>6, <1>7, <1>8 DEF NamesInForce
<1>10. QED  BY <1>1, <1>9

LEMMA NamesStep ==
  ASSUME ReceiveTypeOK, NamesInForce, [Next]_vars
  PROVE  NamesInForce'
<1>1. CASE Showing
  BY <1>1, NamesNewGame, NamesInGame DEF Showing
<1>2. CASE ~Showing
  <2>1. UNCHANGED <<players, width, events>>
    BY <1>2, NothingShown
  <2>2. QED  BY <2>1 DEF NamesInForce, Started
<1>3. QED  BY <1>1, <1>2

-----------------------------------------------------------------------------
(* What ShownMakesSense says of one event.                                 *)
MakesSense(i) ==
    InGame(events[i].record) =>
       \E j \in DOMAIN events :
          /\ Started(i, j)
          /\ \E p \in DOMAIN events[j].record.names :
                events[j].record.names[p] = events[i].name
          /\ events[i].record.type = "PIXEL" =>
                events[i].record.x < events[j].record.width

LEMMA SenseOfEach == ShownMakesSense <=> \A i \in DOMAIN events : MakesSense(i)
BY DEF ShownMakesSense, MakesSense

LEMMA SenseOfEachNext ==
  ShownMakesSense' <=> \A i \in DOMAIN events' : MakesSense(i)'
BY DEF ShownMakesSense, MakesSense

(* What made sense does so when another event is shown.                    *)
LEMMA SenseStays ==
  ASSUME ReceiveTypeOK, events' \in Seq(Shown), Len(events') = Len(events) + 1,
         \A i \in DOMAIN events : events'[i] = events[i],
         NEW i \in DOMAIN events, MakesSense(i)
  PROVE  MakesSense(i)'
<1>1. events'[i] = events[i] /\ i \in 1 .. Len(events) + 1
  BY DEF ReceiveTypeOK
<1>2. SUFFICES ASSUME InGame(events[i].record)
               PROVE  MakesSense(i)'
  BY <1>1 DEF MakesSense
<1>3. PICK j \in DOMAIN events :
         /\ Started(i, j)
         /\ \E p \in DOMAIN events[j].record.names :
               events[j].record.names[p] = events[i].name
         /\ events[i].record.type = "PIXEL" =>
               events[i].record.x < events[j].record.width
  BY <1>2 DEF MakesSense
<1>4. j \in DOMAIN events' /\ events'[j] = events[j] /\ Started(i, j)'
  BY <1>1, <1>3, StillStarted
<1>5. QED  BY <1>1, <1>3, <1>4 DEF MakesSense

LEMMA SenseStep ==
  ASSUME ReceiveTypeOK, NamesInForce, ShownMakesSense, [Next]_vars
  PROVE  ShownMakesSense'
<1>1. CASE Showing
  <2>1. Len(events) \in Nat
    BY DEF ReceiveTypeOK
  <2>2. PICK n \in Nat : n = Len(events)
    BY <2>1
  <2>3. /\ events' \in Seq(Shown) /\ Len(events') = Len(events) + 1
        /\ \A i \in DOMAIN events : events'[i] = events[i]
    BY <1>1, NewIsShown, NewGameIsShown DEF Showing
  <2>4. \A i \in DOMAIN events : MakesSense(i)'
    BY <2>3, SenseStays, SenseOfEach
  <2>5. DOMAIN events = 1 .. n /\ DOMAIN events' = 1 .. n + 1
    BY <2>2, <2>3 DEF ReceiveTypeOK
  <2>6. MakesSense(n + 1)'
    <3>1. CASE TakeNewGame
      <4>1. events'[n + 1].record = Next1 /\ Next1.type = "NEW_GAME"
        BY <2>2, <3>1, NewGameIsShown
      <4>2. QED  BY <4>1 DEF MakesSense, InGame
    <3>2. CASE TakeInGame
      <4>1. PICK j \in DOMAIN events : /\ Started(Len(events) + 1, j)
                                       /\ players = events[j].record.names
                                       /\ width = events[j].record.width
        BY <3>2, NamesInGame
      <4>2. /\ events'[n + 1].record = Next1
            /\ events'[n + 1].name = players[Next1.player + 1]
            /\ Next1.player + 1 \in DOMAIN players
        BY <2>2, <3>2, NameIs, NewIsShown
      <4>3. Next1.type = "PIXEL" => Next1.x < width
        BY <3>2 DEF TakeInGame, Valid
      <4>4. j \in DOMAIN events' /\ events'[j] = events[j] /\ Started(n + 1, j)'
        <5>1. n + 1 \in 1 .. Len(events) + 1 /\ Started(n + 1, j)
          BY <2>2, <4>1
        <5>2. QED  BY <2>3, <4>1, <5>1, StillStarted
      <4>5. QED  BY <4>1, <4>2, <4>3, <4>4 DEF MakesSense
    <3>3. QED  BY <1>1, <3>1, <3>2 DEF Showing
  <2>7. \A i \in DOMAIN events' : MakesSense(i)'
    BY <2>4, <2>5, <2>6
  <2>8. QED  BY <2>7, SenseOfEachNext
<1>2. CASE ~Showing
  <2>1. events' = events
    BY <1>2, NothingShown
  <2>2. QED  BY <2>1 DEF ShownMakesSense, Started
<1>3. QED  BY <1>1, <1>2

(* Whatever the server sends, pixels and eliminations are shown only of    *)
(* the board and the players that the last NEW_GAME shown has named:       *)
(* Client::receive_message checks them with validate_in_game, against the  *)
(* players and the width that no other record changes.                     *)
THEOREM ShownSense == Spec => []ShownMakesSense
<1>1. Init => ShownMakesSense
  BY DEF Init, ShownMakesSense
<1>2. ReceiveTypeOK /\ NamesInForce /\ ShownMakesSense /\ [Next]_vars
         => ReceiveTypeOK' /\ NamesInForce' /\ ShownMakesSense'
  BY ReceiveTypeStep, NamesStep, SenseStep
<1>3. QED  BY <1>1, <1>2, InitReceive, PTL DEF Spec

-----------------------------------------------------------------------------
(* A record looked at is of the client's game or faulty, and makes sense.  *)
LEMMA NextIsOf ==
  ASSUME ReceiveTypeOK, MessageInv, Looking
  PROVE  /\ message # << >> /\ Next1 \in Record
         /\ game_id \in DOMAIN Games /\ Games[game_id] \in Seq(Record)
         /\ IsOf(game_id, Next1) /\ Known(Next1) /\ Next1.sense
<1>1. message # << >> /\ Known(Next1)
  BY DEF Looking
<1>2. 1 \in DOMAIN message
  BY <1>1 DEF ReceiveTypeOK
<1>3. QED  BY <1>1, <1>2, NextRecord DEF MessageInv

(* A pixel or an elimination is never the first record that a client takes *)
(* of a game.                                                              *)
LEMMA InGameHasStarted ==
  ASSUME BeginsNothing, ReceiveTypeOK, MessageInv, GameInForce,
         Expected, InGame(Next1)
  PROVE  /\ game_id \in DOMAIN Games
         /\ players = Games[game_id][1].names
         /\ width = Games[game_id][1].width
<1>1. Looking /\ Next1.no = event_no /\ Next1.type # "NEW_GAME"
  BY DEF Expected, InGame
<1>2. /\ IsOf(game_id, Next1) /\ Known(Next1) /\ Next1.sense
      /\ game_id \in DOMAIN Games /\ Next1.no \in Nat
      /\ Games[game_id] \in Seq(Record)
  BY <1>1, NextIsOf DEF Record
<1>3. Next1.no # 0
  <2>1. CASE Next1 \in Faulty
    BY <1>2, <2>1 DEF BeginsNothing
  <2>2. CASE \E i \in DOMAIN Games[game_id] : Next1 = Games[game_id][i]
    <3>1. PICK i \in DOMAIN Games[game_id] : Next1 = Games[game_id][i]
      BY <2>2
    <3>2. i # 1
      BY <1>1, <1>2, <3>1
    <3>3. i \in Nat /\ i >= 1 /\ Next1.no = i - 1
      BY <1>2, <3>1
    <3>4. QED  BY <3>2, <3>3
  <2>3. QED  BY <1>2, <2>1, <2>2 DEF IsOf
<1>4. event_no > 0
  BY <1>1, <1>2, <1>3 DEF ReceiveTypeOK
<1>5. QED  BY <1>4 DEF GameInForce

LEMMA GameStep ==
  ASSUME KeepsToGames, BeginsNothing,
         ReceiveTypeOK, MessageInv, GameInForce, [Next]_vars
  PROVE  GameInForce'
<1>1. CASE Network
  <2>1. CASE Refused
    BY <2>1 DEF Refused, GameInForce
  <2>2. CASE Received
    BY <2>2 DEF Received, GameInForce
  <2>3. QED  BY <1>1, <2>1, <2>2, NetworkStep
<1>2. CASE SkipUnknown \/ SkipOld \/ Break \/ SkipGameOver \/ Refuse
  BY <1>2 DEF SkipUnknown, SkipOld, Break, SkipGameOver, Refuse, GameInForce
<1>3. CASE TakeNewGame
  <2>1. /\ Looking /\ Next1.type = "NEW_GAME"
        /\ players' = Next1.names /\ width' = Next1.width
        /\ game_id' = game_id
    BY <1>3 DEF TakeNewGame, Expected, PlayersOf
  <2>2. /\ IsOf(game_id, Next1) /\ Known(Next1) /\ Next1.sense
        /\ game_id \in DOMAIN Games
    BY <2>1, NextIsOf
  <2>3. Next1 \notin Faulty
    BY <2>1, <2>2 DEF BeginsNothing
  <2>4. PICK i \in DOMAIN Games[game_id] : Next1 = Games[game_id][i]
    BY <2>2, <2>3 DEF IsOf
  <2>5. Next1 = Games[game_id][1]
    BY <2>1, <2>2, <2>4 DEF KeepsToGames
  <2>6. QED  BY <2>1, <2>2, <2>5 DEF GameInForce
<1>4. CASE TakeInGame
  <2>1. Expected /\ InGame(Next1) /\ UNCHANGED <<game_id, players, width>>
    BY <1>4 DEF TakeInGame
  <2>2. QED  BY <2>1, InGameHasStarted DEF GameInForce
<1>5. CASE UNCHANGED vars
  BY <1>5 DEF vars, GameInForce
<1>6. QED
  BY <1>1, <1>2, <1>3, <1>4, <1>5 DEF Next, Loop

-----------------------------------------------------------------------------
(* What ShownUnderItsName says of one event.                               *)
HasItsName(i) ==
    InGame(events[i].record) =>
       LET names == Games[events[i].of][1].names
           who   == events[i].record.player + 1
       IN  who \in DOMAIN names /\ events[i].name = names[who]

LEMMA OwnNameStep ==
  ASSUME BeginsNothing, ReceiveTypeOK, MessageInv, GameInForce,
         ShownUnderItsName, [Next]_vars
  PROVE  ShownUnderItsName'
<1>1. CASE Showing
  <2>1. Len(events) \in Nat /\ DOMAIN events = 1 .. Len(events)
    BY SMTT(20) DEF ReceiveTypeOK
  <2>2. PICK n \in Nat : n = Len(events)
    BY <2>1
  <2>3. /\ events' \in Seq(Shown) /\ Len(events') = Len(events) + 1
        /\ \A i \in DOMAIN events : events'[i] = events[i]
        /\ events'[Len(events) + 1].record = Next1
    BY <1>1, NewIsShown, NewGameIsShown DEF Showing
  <2>4. DOMAIN events' = 1 .. n + 1
    BY <2>2, <2>3
  <2>5. \A i \in DOMAIN events : HasItsName(i)'
    BY <2>3 DEF ShownUnderItsName, HasItsName
  <2>6. HasItsName(n + 1)'
    <3>1. CASE TakeNewGame
      <4>1. events'[n + 1].record.type = "NEW_GAME"
        BY <2>2, <2>3, <3>1 DEF TakeNewGame
      <4>2. QED  BY <4>1 DEF HasItsName, InGame
    <3>2. CASE TakeInGame
      <4>1. /\ events'[n + 1].record = Next1
            /\ events'[n + 1].of = game_id
            /\ events'[n + 1].name = players[Next1.player + 1]
            /\ Next1.player + 1 \in DOMAIN players
        BY <2>2, <3>2, NameIs, NewIsShown
      <4>2. players = Games[game_id][1].names
        BY <3>2, InGameHasStarted DEF TakeInGame
      <4>3. QED  BY <4>1, <4>2 DEF HasItsName
    <3>3. QED  BY <1>1, <3>1, <3>2 DEF Showing
  <2>7. \A i \in DOMAIN events' : HasItsName(i)'
    BY <2>1, <2>2, <2>4, <2>5, <2>6
  <2>8. QED  BY <2>7 DEF ShownUnderItsName, HasItsName
<1>2. CASE ~Showing
  <2>1. events' = events
    BY <1>2, NothingShown
  <2>2. QED  BY <2>1 DEF ShownUnderItsName
<1>3. QED  BY <1>1, <1>2

(* Of a server that keeps to its games, each pixel and elimination is      *)
(* shown under the name of the player whose it is, however datagrams are   *)
(* lost, damaged, repeated or delayed into later games: event_no, which    *)
(* starts again with game_id, lets no record of a game be taken before its *)
(* NEW_GAME.                                                               *)
THEOREM OwnNames ==
  ASSUME KeepsToGames, BeginsNothing
  PROVE  Spec => []ShownUnderItsName
<1>1. Init => ShownUnderItsName
  BY DEF Init, ShownUnderItsName
<1>2. ReceiveTypeOK /\ MessageInv /\ GameInForce /\ ShownUnderItsName
         /\ [Next]_vars
      => /\ ReceiveTypeOK' /\ MessageInv' /\ GameInForce'
         /\ ShownUnderItsName'
  BY ReceiveTypeStep, MessageStep, GameStep, OwnNameStep
<1>3. QED  BY <1>1, <1>2, InitReceive, PTL DEF Spec

(* Such a server's games never make the client exit: receive_message       *)
(* throws for no record that is one of the game's own.                     *)
THEOREM NoEventIsRefused ==
  ASSUME KeepsToGames, BeginsNothing
  PROVE  Spec => StopsOnNonsenseOnly
<1>1. ASSUME ReceiveTypeOK, MessageInv, GameInForce, [Next]_vars,
             stopping' # stopping, Looking
      PROVE  Next1 \in Faulty
  <2>1. message # << >> /\ ~stopping
    BY <1>1 DEF Looking
  <2>2. ~Network
    <3>1. \A d : ~Receive(d)
      BY <2>1 DEF Receive, ReceiveNonsense, ReceiveMessage, Ready
    <3>2. QED  BY <3>1, Zenon DEF Network
  <2>3. Refuse
    BY <1>1, <2>2 DEF Next, Loop, SkipUnknown, SkipOld, Break, SkipGameOver,
                      TakeNewGame, TakeInGame, vars
  <2>4. Expected /\ InGame(Next1) /\ ~Valid(Next1)
    BY <2>3 DEF Refuse
  <2>5. /\ players = Games[game_id][1].names
        /\ width = Games[game_id][1].width
    BY <1>1, <2>4, InGameHasStarted
  <2>6. IsOf(game_id, Next1) /\ game_id \in DOMAIN Games
    BY <1>1, NextIsOf
  <2>7. ~ \E i \in DOMAIN Games[game_id] : Next1 = Games[game_id][i]
    BY <2>4, <2>5, <2>6 DEF KeepsToGames, Valid
  <2>8. QED  BY <2>6, <2>7 DEF IsOf
<1>2. ReceiveTypeOK /\ MessageInv /\ GameInForce /\ [Next]_vars
         => ReceiveTypeOK' /\ MessageInv' /\ GameInForce'
  BY ReceiveTypeStep, MessageStep, GameStep
<1>3. ReceiveTypeOK /\ MessageInv /\ GameInForce /\ [Next]_vars
         => [stopping' # stopping /\ Looking => Next1 \in Faulty]_vars
  BY <1>1
<1>4. QED  BY <1>2, <1>3, InitReceive, PTL DEF Spec, StopsOnNonsenseOnly
=============================================================================
