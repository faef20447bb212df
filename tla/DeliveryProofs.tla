--------------------------- MODULE DeliveryProofs ---------------------------
(***************************************************************************)
(* Proofs about module Delivery: what is in flight, what the client takes  *)
(* of it, and that the client's GUI gets a Feed.                           *)
(***************************************************************************)
EXTENDS DeliveryProperties, SequenceTheorems, TLAPS

USE BoundsAssumption, OrderedAssumption

Message == [id : Nat, of : Nat, lo : Nat, hi : Nat]
Reply == [at : {"none", "copy", "send"}, id : Nat, of : Nat, lo : Nat, hi : Nat]

(* Every variable has its type.                                            *)
FlowTypeOK ==
    /\ game_id \in Nat /\ stored \in Nat /\ of \in Nat
    /\ thread \in {"waiting", "announce", "playing", "over", "initialize"}
    /\ reply \in Reply
    /\ asked \subseteq Nat /\ net \in Seq(Message)
    /\ client_id \in Nat /\ event_no \in Nat /\ gui \in Seq(Nat \X Nat)

(* Events are stored while a game is played, all of that game and all      *)
(* generated; the id is the game's until initialize() draws the next.      *)
GameInv ==
    /\ thread \in {"announce", "playing"} <=> stored > 0
    /\ game_id = IF thread = "waiting" THEN of + 1 ELSE of
    /\ \A n \in Nat : n < stored => <<of, n>> \in generated

(* An answer being made holds a run of generated events of the last game,  *)
(* since none begins meanwhile; its header may have the id of the next,    *)
(* but not in the datagram that has event 0.                               *)
ReplyInv ==
    /\ reply.at # "none" => of <= reply.id /\ reply.id <= game_id
    /\ reply.at = "send" =>
          /\ reply.of = of /\ reply.lo <= reply.hi
          /\ reply.id # of => reply.lo >= 1
          /\ \A n \in reply.lo .. reply.hi : <<of, n>> \in generated

(* The same of a datagram in flight.                                       *)
IsFrom(m) ==
    /\ m.of <= m.id /\ m.id <= m.of + 1
    /\ m.id # m.of => m.lo >= 1
    /\ m.of <= of /\ m.id <= game_id
    /\ reply.at # "none" => m.id <= reply.id
    /\ \A n \in m.lo .. m.hi : <<m.of, n>> \in generated

(* Datagrams were sent in the order of the games and of the ids.           *)
NetInv ==
    /\ \A i \in DOMAIN net : IsFrom(net[i])
    /\ \A i, j \in DOMAIN net : i < j =>
          net[i].of <= net[j].of /\ net[i].id <= net[j].id

-----------------------------------------------------------------------------
(* What is left of a sequence without one of its elements.                 *)
LEMMA Removed ==
  ASSUME NEW S, NEW s \in Seq(S), NEW i \in DOMAIN s
  PROVE  /\ RemoveAt(s, i) \in Seq(S)
         /\ Len(RemoveAt(s, i)) = Len(s) - 1
         /\ \A k \in 1 .. Len(s) - 1 :
               RemoveAt(s, i)[k] = s[IF k < i THEN k ELSE k + 1]
<1>1. i \in 1 .. Len(s) /\ Len(s) \in Nat
  OBVIOUS
<1>2. RemoveAt(s, i) = SubSeq(s, 1, i - 1) \o SubSeq(s, i + 1, Len(s))
  BY DEF RemoveAt
<1>3. /\ SubSeq(s, 1, i - 1) \in Seq(S) /\ Len(SubSeq(s, 1, i - 1)) = i - 1
      /\ \A k \in 1 .. i - 1 : SubSeq(s, 1, i - 1)[k] = s[k]
  BY <1>1
<1>4. /\ SubSeq(s, i + 1, Len(s)) \in Seq(S)
      /\ Len(SubSeq(s, i + 1, Len(s))) = Len(s) - i
      /\ \A k \in 1 .. Len(s) - i : SubSeq(s, i + 1, Len(s))[k] = s[i + k]
  BY <1>1
<1> DEFINE before == SubSeq(s, 1, i - 1)
           after == SubSeq(s, i + 1, Len(s))
<1> HIDE DEF before, after
<1>5. /\ before \in Seq(S) /\ Len(before) = i - 1
      /\ \A k \in 1 .. i - 1 : before[k] = s[k]
  BY <1>3 DEF before
<1>6. /\ after \in Seq(S) /\ Len(after) = Len(s) - i
      /\ \A k \in 1 .. Len(s) - i : after[k] = s[i + k]
  BY <1>4 DEF after
<1>7. RemoveAt(s, i) = before \o after
  BY <1>2 DEF before, after
<1>8. before \o after \in Seq(S) /\ Len(before \o after) = Len(s) - 1
  BY <1>1, <1>5, <1>6
<1>9. ASSUME NEW k \in 1 .. Len(s) - 1
      PROVE  (before \o after)[k] = s[IF k < i THEN k ELSE k + 1]
  <2>1. CASE k < i
    BY <1>1, <1>5, <1>6, <2>1
  <2>2. CASE ~(k < i)
    <3>1. (before \o after)[k] = after[k - (i - 1)]
      BY <1>1, <1>5, <1>6, <2>2, SMTT(20)
    <3>2. k - (i - 1) \in 1 .. Len(s) - i /\ i + (k - (i - 1)) = k + 1
      BY <1>1, <2>2
    <3> QED
      BY <1>6, <2>2, <3>1, <3>2
  <2> QED
    BY <2>1, <2>2
<1> QED
  BY <1>7, <1>8, <1>9

(* The number of the last event that goes into a datagram of an answer.    *)
LEMMA LastInReply ==
  ASSUME NEW lo \in Nat, NEW hi \in Nat, lo <= hi
  PROVE  /\ LastFitting(lo, hi) \in Nat
         /\ lo <= LastFitting(lo, hi) /\ LastFitting(lo, hi) <= hi
BY DEF LastFitting

(* What the client takes of a datagram.                                    *)
LEMMA TakenShape ==
  ASSUME FlowTypeOK, NEW m \in Message
  PROVE  /\ Taken(m) \in Seq(Nat \X Nat) /\ StartOf(m) \in Nat
         /\ Continues(m, StartOf(m)) =>
               /\ Len(Taken(m)) = m.hi - StartOf(m) + 1 /\ Len(Taken(m)) > 0
               /\ \A i \in 1 .. Len(Taken(m)) :
                     Taken(m)[i] = <<m.of, StartOf(m) + i - 1>>
         /\ ~Continues(m, StartOf(m)) => Taken(m) = << >>
<1>1. StartOf(m) \in Nat
  BY DEF StartOf, FlowTypeOK
<1>2. PICK s \in Nat : s = StartOf(m)
  BY <1>1
<1>3. m.of \in Nat /\ m.hi \in Nat /\ m.lo \in Nat
  BY DEF Message
<1>4. CASE Continues(m, s)
  <2>1. Taken(m) = [i \in 1 .. m.hi - s + 1 |-> <<m.of, s + i - 1>>]
    BY <1>2, <1>4 DEF Taken
  <2>2. m.hi - s + 1 \in Nat /\ m.hi - s + 1 > 0
    BY <1>3, <1>4 DEF Continues
  <2>3. \A i \in 1 .. m.hi - s + 1 : <<m.of, s + i - 1>> \in Nat \X Nat
    BY <1>3
  <2> QED
    BY <1>2, <1>4, <2>1, <2>2, <2>3, SMTT(20)
<1>5. CASE ~Continues(m, s)
  BY <1>2, <1>5 DEF Taken
<1> QED
  BY <1>2, <1>4, <1>5

(* What CopyEvents and SendReply make of an answer is an answer.           *)
LEMMA ReplyChanged ==
  ASSUME NEW r \in Reply, NEW a \in Nat, NEW b \in Nat
  PROVE  /\ [r EXCEPT !.at = "send", !.of = a, !.hi = b] \in Reply
         /\ [r EXCEPT !.id = a, !.lo = b] \in Reply
BY DEF Reply

-----------------------------------------------------------------------------
(* Types.                                                                  *)
LEMMA FlowTypeStep ==
  ASSUME FlowTypeOK, GameInv, ReplyInv, [Next]_vars PROVE FlowTypeOK'
<1> USE DEF FlowTypeOK
<1>1. CASE NewGame
  BY <1>1 DEF NewGame, clientVars
<1>2. CASE StoreEvent
  BY <1>2 DEF StoreEvent, clientVars
<1>3. CASE Announce
  <2>1. Datagram(game_id, of, stored - 1, stored - 1) \in Message
    BY <1>3 DEF Announce, GameInv, Datagram, Message
  <2> QED
    BY <1>3, <2>1 DEF Announce, Send, clientVars
<1>4. CASE GameOver
  BY <1>4 DEF GameOver, clientVars
<1>5. CASE AnnounceOver
  <2>1. OverDatagram(game_id, of) \in Message
    BY DEF OverDatagram, Datagram, Message
  <2> QED
    BY <1>5, <2>1 DEF AnnounceOver, Send, clientVars
<1>6. CASE Initialize
  BY <1>6 DEF Initialize, NextId, clientVars
<1>7. ASSUME NEW next \in asked, BeginReply(next) PROVE FlowTypeOK'
  BY <1>7 DEF BeginReply, NoReply, Reply, serverVars, clientVars
<1>8. CASE CopyEvents
  <2>1. \/ /\ reply.lo < stored
           /\ reply' = [reply EXCEPT !.at = "send", !.of = of, !.hi = stored - 1]
        \/ reply' = NoReply
    BY <1>8 DEF CopyEvents
  <2>2. reply' \in Reply
    <3>1. CASE reply' = NoReply
      BY <3>1 DEF NoReply, Reply
    <3>2. CASE reply.lo < stored
      <4>1. stored - 1 \in Nat /\ reply.lo \in Nat
        BY <3>2 DEF Reply
      <4>2. [reply EXCEPT !.at = "send", !.of = of, !.hi = stored - 1] \in Reply
        BY <4>1, ReplyChanged
      <4> QED
        BY <2>1, <3>1, <4>2 DEF Reply
    <3> QED
      BY <2>1, <3>1, <3>2
  <2> QED
    BY <1>8, <2>2 DEF CopyEvents, serverVars, clientVars
<1>9. CASE SendReply
  <2> DEFINE last == LastFitting(reply.lo, reply.hi)
  <2>1. last \in Nat
    BY <1>9, LastInReply DEF SendReply, ReplyInv, Reply
  <2>2. Datagram(reply.id, reply.of, reply.lo, last) \in Message
    BY <2>1 DEF Datagram, Message, Reply
  <2>3. net' \in Seq(Message)
    BY <1>9, <2>2 DEF SendReply, Send
  <2>4. reply' \in Reply
    <3>1. PICK n \in Nat : n = last
      BY <2>1
    <3>2. \/ reply' = NoReply
          \/ reply' = [reply EXCEPT !.id = game_id, !.lo = n + 1]
      BY <1>9, <3>1 DEF SendReply
    <3>3. [reply EXCEPT !.id = game_id, !.lo = n + 1] \in Reply
      <4>1. game_id \in Nat /\ n + 1 \in Nat
        OBVIOUS
      <4> QED
        BY <4>1, ReplyChanged
    <3>4. NoReply \in Reply
      BY DEF NoReply, Reply
    <3> QED
      BY <3>2, <3>3, <3>4
  <2> QED
    BY <1>9, <2>3, <2>4 DEF SendReply, serverVars, clientVars
<1>10. CASE Ask
  BY <1>10 DEF Ask, serverVars, clientVars
<1>11. ASSUME NEW i \in 1 .. MaxInFlight,
              Deliver(i) \/ DeliverAndKeep(i) \/ Lose(i)
       PROVE  FlowTypeOK'
  <2>1. i \in DOMAIN net
    BY <1>11 DEF Deliver, DeliverAndKeep, Lose, Arrives
  <2>2. net[i] \in Message /\ RemoveAt(net, i) \in Seq(Message)
    BY <2>1, Removed
  <2>3. net' \in Seq(Message)
    BY <1>11, <2>2 DEF Deliver, DeliverAndKeep, Lose
  <2>4. ASSUME ReceiveMessage(net[i])
        PROVE  client_id' \in Nat /\ event_no' \in Nat /\ gui' \in Seq(Nat \X Nat)
    <3>1. PICK t \in Seq(Nat \X Nat) : t = Taken(net[i])
      BY <2>2, TakenShape
    <3>2. StartOf(net[i]) \in Nat
      BY <2>2, TakenShape
    <3>3. client_id' = net[i].id /\ event_no' = StartOf(net[i]) + Len(t)
          /\ gui' = gui \o t
      BY <2>4, <3>1 DEF ReceiveMessage
    <3>4. Len(t) \in Nat /\ gui \o t \in Seq(Nat \X Nat)
      BY <3>1
    <3>5. net[i].id \in Nat
      BY <2>2 DEF Message
    <3> QED
      BY <3>2, <3>3, <3>4, <3>5
  <2> QED
    BY <1>11, <2>3, <2>4 DEF Deliver, DeliverAndKeep, Lose, serverVars, clientVars
<1>12. CASE UNCHANGED vars
  BY <1>12 DEF vars, serverVars, clientVars
<1> QED
  BY <1>1, <1>2, <1>3, <1>4, <1>5, <1>6, <1>7, <1>8, <1>9, <1>10, <1>11, <1>12
     DEF Next, Server, Network

-----------------------------------------------------------------------------
(* The server.                                                             *)

(* Every step keeps what is said of the game.                              *)
LEMMA GameInvStep ==
  ASSUME FlowTypeOK, GameInv, [Next]_vars PROVE GameInv'
<1> USE DEF FlowTypeOK, GameInv
<1>1. CASE NewGame
  BY <1>1 DEF NewGame
<1>2. CASE StoreEvent
  BY <1>2 DEF StoreEvent
<1>3. CASE Announce \/ AnnounceOver
  BY <1>3 DEF Announce, AnnounceOver
<1>4. CASE GameOver
  BY <1>4 DEF GameOver
<1>5. CASE Initialize
  BY <1>5 DEF Initialize, NextId
<1>6. CASE UNCHANGED serverVars
  BY <1>6 DEF serverVars
<1>7. CASE (\E next \in asked : BeginReply(next)) \/ CopyEvents \/ SendReply \/ Ask
           \/ Network \/ UNCHANGED vars
  BY <1>6, <1>7 DEF BeginReply, CopyEvents, SendReply, Ask, Network, Deliver,
                    DeliverAndKeep, Lose, vars
<1> QED
  BY <1>1, <1>2, <1>3, <1>4, <1>5, <1>7 DEF Next, Server

(* Nothing that was generated is forgotten.                                *)
LEMMA GeneratedGrows == [Next]_vars => generated \subseteq generated'
BY DEF Next, Server, Network, NewGame, StoreEvent, Announce, GameOver,
       AnnounceOver, Initialize, BeginReply, CopyEvents, SendReply, Ask, Deliver,
       DeliverAndKeep, Lose, vars, serverVars

(* Every step keeps what is said of an answer being made.                  *)
LEMMA ReplyInvStep ==
  ASSUME FlowTypeOK, GameInv, ReplyInv, [Next]_vars PROVE ReplyInv'
<1> USE DEF FlowTypeOK, ReplyInv, Reply
<1>1. CASE NewGame
  BY <1>1 DEF NewGame
<1>2. ASSUME UNCHANGED <<reply, of>>, game_id' \in Nat, game_id' >= game_id
      PROVE  ReplyInv'
  BY <1>2, GeneratedGrows
<1>3. CASE StoreEvent \/ Announce \/ GameOver \/ AnnounceOver \/ Initialize
           \/ Ask \/ Network \/ UNCHANGED vars
  <2>1. UNCHANGED <<reply, of>>
    BY <1>3 DEF StoreEvent, Announce, GameOver, AnnounceOver, Initialize, Ask,
                Network, Deliver, DeliverAndKeep, Lose, vars, serverVars
  <2>2. game_id' = game_id \/ game_id' = game_id + 1
    BY <1>3 DEF StoreEvent, Announce, GameOver, AnnounceOver, Initialize, NextId,
                Ask, Network, Deliver, DeliverAndKeep, Lose, vars, serverVars
  <2>3. game_id' \in Nat /\ game_id' >= game_id
    BY <2>2
  <2> QED
    BY <1>2, <2>1, <2>3
<1>4. ASSUME NEW next \in asked, BeginReply(next) PROVE ReplyInv'
  BY <1>4, SMTT(20) DEF BeginReply, NoReply, serverVars, GameInv
<1>5. CASE CopyEvents
  <2>1. UNCHANGED <<game_id, of, stored, thread, generated>>
    BY <1>5 DEF CopyEvents, serverVars
  <2>2. CASE reply.lo < stored
    <3>1. reply' = [reply EXCEPT !.at = "send", !.of = of, !.hi = stored - 1]
      BY <1>5, <2>2 DEF CopyEvents
    <3>2. /\ reply'.at = "send" /\ reply'.of = of /\ reply'.hi = stored - 1
          /\ reply'.lo = reply.lo /\ reply'.id = reply.id
      BY <3>1
    <3>3. reply.id = of
      BY <1>5, <2>2, SMTT(20) DEF CopyEvents, GameInv
    <3>4. \A n \in reply.lo .. stored - 1 : <<of, n>> \in generated
      BY DEF GameInv
    <3> QED
      BY <1>5, <2>1, <2>2, <3>2, <3>3, <3>4, SMTT(20) DEF CopyEvents
  <2>3. CASE ~(reply.lo < stored)
    BY <1>5, <2>3 DEF CopyEvents, NoReply
  <2> QED
    BY <2>2, <2>3
<1>6. CASE SendReply
  <2>1. UNCHANGED <<game_id, of, stored, thread, generated>> /\ reply.at = "send"
    BY <1>6 DEF SendReply, serverVars
  <2>2. PICK last \in Nat : /\ last = LastFitting(reply.lo, reply.hi)
                            /\ reply.lo <= last /\ last <= reply.hi
    BY <2>1, LastInReply
  <2>3. CASE last = reply.hi
    BY <1>6, <2>2, <2>3 DEF SendReply, NoReply
  <2>4. CASE last # reply.hi
    <3>1. reply' = [reply EXCEPT !.id = game_id, !.lo = last + 1]
      BY <1>6, <2>2, <2>4 DEF SendReply
    <3>2. /\ reply'.at = "send" /\ reply'.of = of /\ reply'.hi = reply.hi
          /\ reply'.lo = last + 1 /\ reply'.id = game_id
      BY <2>1, <3>1
    <3>3. of <= game_id
      BY DEF GameInv
    <3> QED
      BY <2>1, <2>2, <2>4, <3>2, <3>3
  <2> QED
    BY <2>3, <2>4
<1> QED
  BY <1>1, <1>3, <1>4, <1>5, <1>6 DEF Next, Server

-----------------------------------------------------------------------------
(* Datagrams in flight.                                                    *)

(* What a datagram carries stays true of it.                               *)
LEMMA FromKept ==
  ASSUME FlowTypeOK, GameInv, ReplyInv, [Next]_vars, NEW m \in Message, IsFrom(m)
  PROVE  IsFrom(m)'
<1> USE DEF FlowTypeOK, IsFrom
<1>1. generated \subseteq generated'
  BY GeneratedGrows
<1>2. /\ of' \in Nat /\ of' >= of
      /\ game_id' \in Nat /\ game_id' >= game_id
      /\ m.id \in Nat /\ m.of \in Nat
  <2>1. of' = of \/ of' = of + 1
    BY DEF Next, Server, Network, NewGame, StoreEvent, Announce, GameOver,
           AnnounceOver, Initialize, BeginReply, CopyEvents, SendReply, Ask,
           Deliver, DeliverAndKeep, Lose, vars, serverVars
  <2>2. game_id' = game_id \/ game_id' = game_id + 1
    BY DEF Next, Server, Network, NewGame, StoreEvent, Announce, GameOver,
           AnnounceOver, Initialize, NextId, BeginReply, CopyEvents, SendReply,
           Ask, Deliver, DeliverAndKeep, Lose, vars, serverVars
  <2> QED
    BY <2>1, <2>2 DEF Message
<1>3. reply'.at # "none" => m.id <= reply'.id
  <2>1. CASE reply' = reply
    BY <2>1
  <2>2. CASE reply' # reply
    <3>1. (\E next \in asked : BeginReply(next)) \/ CopyEvents \/ SendReply
      BY <2>2 DEF Next, Server, Network, NewGame, StoreEvent, Announce, GameOver,
                  AnnounceOver, Initialize, Ask, Deliver, DeliverAndKeep, Lose, vars
    <3>2. ASSUME NEW next \in asked, BeginReply(next) PROVE reply'.id = game_id
      BY <3>2 DEF BeginReply, NoReply
    <3>3. ASSUME CopyEvents
          PROVE  reply.at # "none" /\ (reply'.at = "none" \/ reply'.id = reply.id)
      BY <3>3 DEF CopyEvents, NoReply, Reply
    <3>4. ASSUME SendReply PROVE reply'.at = "none" \/ reply'.id = game_id
      BY <3>4 DEF SendReply, NoReply, Reply
    <3> QED
      BY <3>1, <3>2, <3>3, <3>4
  <2> QED
    BY <2>1, <2>2
<1>4. m.of <= of' /\ m.id <= game_id'
  BY <1>2
<1>5. \A n \in m.lo .. m.hi : <<m.of, n>> \in generated'
  BY <1>1
<1> QED
  BY <1>3, <1>4, <1>5

(* Datagrams leave the network in any order, and come in at the end.       *)
LEMMA NetShrinks ==
  ASSUME FlowTypeOK, NetInv, \A m \in Message : IsFrom(m) => IsFrom(m)',
         NEW i \in DOMAIN net, net' = RemoveAt(net, i)
  PROVE  NetInv'
<1> DEFINE at(k) == IF k < i THEN k ELSE k + 1
<1>1. PICK n \in Nat : n = Len(net)
  BY DEF FlowTypeOK
<1>2. net \in Seq(Message) /\ i \in 1 .. n /\ DOMAIN net = 1 .. n
  BY <1>1 DEF FlowTypeOK
<1>3. net' \in Seq(Message) /\ Len(net') = n - 1
      /\ \A k \in 1 .. n - 1 : net'[k] = net[at(k)]
  BY <1>1, <1>2, Removed
<1>4. DOMAIN net' = 1 .. n - 1
  BY <1>3
<1>5. \A k \in 1 .. n - 1 : at(k) \in 1 .. n
  BY <1>2
<1>6. \A k, j \in 1 .. n - 1 : k < j => at(k) < at(j)
  BY <1>2
<1>7. \A j \in DOMAIN net : net[j] \in Message /\ IsFrom(net[j])
  BY <1>2 DEF NetInv
<1> HIDE DEF at
<1>8. ASSUME NEW k \in DOMAIN net' PROVE IsFrom(net[k])'
  <2>1. PICK m \in Message : m = net[at(k)] /\ IsFrom(m)
    BY <1>2, <1>4, <1>5, <1>7
  <2>2. IsFrom(m)' /\ net'[k] = m
    BY <1>3, <1>4, <2>1
  <2> QED
    BY <2>2 DEF IsFrom
<1>9. ASSUME NEW k \in DOMAIN net', NEW j \in DOMAIN net', k < j
      PROVE  net'[k].of <= net'[j].of /\ net'[k].id <= net'[j].id
  <2>1. at(k) \in DOMAIN net /\ at(j) \in DOMAIN net /\ at(k) < at(j)
    BY <1>2, <1>4, <1>5, <1>6, <1>9
  <2>2. net[at(k)].of <= net[at(j)].of /\ net[at(k)].id <= net[at(j)].id
    BY <2>1 DEF NetInv
  <2> QED
    BY <1>3, <1>4, <2>2
<1> QED
  BY <1>8, <1>9 DEF NetInv

LEMMA NetGrows ==
  ASSUME FlowTypeOK, NetInv, \A m \in Message : IsFrom(m) => IsFrom(m)',
         NEW d \in Message, net' = Append(net, d), IsFrom(d)',
         \A k \in DOMAIN net : net[k].of <= d.of /\ net[k].id <= d.id
  PROVE  NetInv'
<1>1. PICK n \in Nat : n = Len(net)
  BY DEF FlowTypeOK
<1>2. net \in Seq(Message) /\ DOMAIN net = 1 .. n
  BY <1>1 DEF FlowTypeOK
<1>3. /\ DOMAIN net' = 1 .. n + 1 /\ net'[n + 1] = d
      /\ \A k \in 1 .. n : net'[k] = net[k]
  BY <1>1, <1>2
<1>4. \A k \in 1 .. n + 1 : k \in 1 .. n \/ k = n + 1
  OBVIOUS
<1>5. \A k \in 1 .. n : net[k] \in Message /\ IsFrom(net[k])
  BY <1>2 DEF NetInv
<1>6. ASSUME NEW k \in DOMAIN net' PROVE IsFrom(net[k])'
  <2>1. PICK m \in Message : m = net'[k] /\ IsFrom(m)'
    <3>1. CASE k = n + 1
      BY <1>3, <3>1
    <3>2. CASE k \in 1 .. n
      <4>1. PICK m \in Message : m = net[k] /\ IsFrom(m)
        BY <1>5, <3>2
      <4>2. IsFrom(m)' /\ net'[k] = m
        BY <1>3, <3>2, <4>1
      <4> QED
        BY <4>2
    <3> QED
      BY <1>3, <1>4, <3>1, <3>2
  <2> QED
    BY <2>1 DEF IsFrom
<1>7. ASSUME NEW k \in DOMAIN net', NEW j \in DOMAIN net', k < j
      PROVE  net'[k].of <= net'[j].of /\ net'[k].id <= net'[j].id
  <2>1. k \in 1 .. n
    BY <1>3, <1>7
  <2>2. CASE j = n + 1
    BY <1>2, <1>3, <2>1, <2>2
  <2>3. CASE j \in 1 .. n
    BY <1>2, <1>3, <1>7, <2>1, <2>3 DEF NetInv
  <2> QED
    BY <1>3, <1>4, <2>2, <2>3
<1> QED
  BY <1>6, <1>7 DEF NetInv

(* What the server sends comes from it, and is no older than what it has   *)
(* sent before.                                                            *)
Sent(d) ==
    /\ Send(d) /\ d \in Message /\ IsFrom(d)'
    /\ d.of = of /\ d.id <= game_id
    /\ d.id # game_id => reply.at # "none" /\ d.id = reply.id

LEMMA ServerSends ==
  ASSUME FlowTypeOK, GameInv, ReplyInv, Announce \/ AnnounceOver \/ SendReply
  PROVE  \E d : Sent(d)
<1> USE DEF FlowTypeOK
<1>1. CASE Announce
  <2>1. PICK n \in Nat : n = stored - 1
    BY <1>1 DEF Announce, GameInv
  <2>0. PICK d : d = Datagram(game_id, of, n, n)
    OBVIOUS
  <2>2. UNCHANGED <<game_id, stored, of, reply, generated>> /\ game_id = of
    BY <1>1 DEF Announce, GameInv
  <2>3. <<of, n>> \in generated
    BY <2>1 DEF GameInv
  <2>4. \A k \in n .. n : k = n
    OBVIOUS
  <2>5. /\ d.id = game_id /\ d.of = of /\ d.lo = n /\ d.hi = n /\ d \in Message
    BY <2>0 DEF Datagram, Message
  <2>6. IsFrom(d)'
    BY <2>2, <2>3, <2>4, <2>5 DEF IsFrom, ReplyInv
  <2>7. Send(d)
    BY <1>1, <2>0, <2>1 DEF Announce
  <2>8. d.id <= game_id
    BY <2>5
  <2> QED
    BY <2>2, <2>5, <2>6, <2>7, <2>8, Zenon DEF Sent
<1>2. CASE AnnounceOver
  <2>0. PICK d : d = OverDatagram(game_id, of)
    OBVIOUS
  <2>2. UNCHANGED <<game_id, stored, of, reply, generated>> /\ game_id = of
    BY <1>2 DEF AnnounceOver, GameInv
  <2>5. /\ d.id = game_id /\ d.of = of /\ d \in Message
    BY <2>0 DEF OverDatagram, Datagram, Message
  <2>6. IsFrom(d)'
    BY <2>0, <2>2, <2>5 DEF IsFrom, OverDatagram, Datagram, ReplyInv
  <2>7. Send(d)
    BY <1>2, <2>0 DEF AnnounceOver
  <2>8. d.id <= game_id
    BY <2>5
  <2> QED
    BY <2>2, <2>5, <2>6, <2>7, <2>8, Zenon DEF Sent
<1>3. CASE SendReply
  <2>1. PICK last \in Nat : /\ last = LastFitting(reply.lo, reply.hi)
                            /\ reply.lo <= last /\ last <= reply.hi
    BY <1>3, LastInReply DEF SendReply, ReplyInv, Reply
  <2>0. PICK d : d = Datagram(reply.id, reply.of, reply.lo, last)
    OBVIOUS
  <2>2. UNCHANGED <<game_id, stored, of, generated>> /\ reply.at = "send"
        /\ reply.of = of /\ (reply.id # of => reply.lo >= 1)
        /\ of <= reply.id /\ reply.id <= game_id
        /\ \A n \in reply.lo .. reply.hi : <<of, n>> \in generated
    BY <1>3 DEF SendReply, serverVars, ReplyInv
  <2>3. reply'.at = "none" \/ reply'.id = game_id
    BY <1>3 DEF SendReply, NoReply, Reply
  <2>4. reply.id <= of + 1
    BY <2>2 DEF GameInv, Reply
  <2>5. /\ d.id = reply.id /\ d.of = of /\ d.lo = reply.lo /\ d.hi = last
        /\ d \in Message
    BY <2>0, <2>2 DEF Datagram, Message, Reply
  <2>6. \A n \in reply.lo .. last : n \in reply.lo .. reply.hi
    BY <2>1 DEF Reply
  <2>7. Send(d)
    BY <1>3, <2>0, <2>1 DEF SendReply
  <2>8. /\ d.of <= d.id /\ d.id <= d.of + 1 /\ (d.id # d.of => d.lo >= 1)
        /\ d.of <= of' /\ d.id <= game_id'
    BY <2>2, <2>4, <2>5
  <2>9. reply'.at # "none" => d.id <= reply'.id
    BY <2>2, <2>3, <2>5
  <2>10. \A n \in d.lo .. d.hi : <<d.of, n>> \in generated'
    BY <2>2, <2>5, <2>6
  <2>11. IsFrom(d)'
    BY <2>8, <2>9, <2>10 DEF IsFrom
  <2> QED
    BY <2>2, <2>5, <2>7, <2>11 DEF Sent
<1> QED
  BY <1>1, <1>2, <1>3

(* Every step keeps what is said of the network.                           *)
LEMMA NetInvStep ==
  ASSUME FlowTypeOK, GameInv, ReplyInv, NetInv, [Next]_vars PROVE NetInv'
<1>1. \A m \in Message : IsFrom(m) => IsFrom(m)'
  BY FromKept
<1>2. CASE net' = net
  <2>1. net \in Seq(Message)
    BY DEF FlowTypeOK
  <2>2. ASSUME NEW i \in DOMAIN net PROVE IsFrom(net[i])'
    <3>1. PICK m \in Message : m = net[i] /\ IsFrom(m)
      BY <2>1 DEF NetInv
    <3>2. IsFrom(m)' /\ net'[i] = m
      BY <1>1, <1>2, <3>1
    <3> QED
      BY <3>2 DEF IsFrom
  <2> QED
    BY <1>2, <2>2 DEF NetInv
<1>3. ASSUME NEW d, Sent(d) PROVE NetInv'
  <2>1. d \in Message /\ net' = Append(net, d) /\ IsFrom(d)'
    BY <1>3 DEF Sent, Send
  <2>2. \A k \in DOMAIN net : net[k].of <= d.of /\ net[k].id <= d.id
    BY <1>3 DEF Sent, NetInv, IsFrom
  <2> QED
    BY <1>1, <2>1, <2>2, NetGrows
<1>4. ASSUME NEW i \in 1 .. MaxInFlight,
             Deliver(i) \/ DeliverAndKeep(i) \/ Lose(i)
      PROVE  NetInv'
  <2>1. i \in DOMAIN net /\ (net' = net \/ net' = RemoveAt(net, i))
    BY <1>4 DEF Deliver, DeliverAndKeep, Lose, Arrives
  <2> QED
    BY <1>1, <1>2, <2>1, NetShrinks
<1>5. CASE NewGame \/ StoreEvent \/ GameOver \/ Initialize \/ CopyEvents \/ Ask
           \/ (\E next \in asked : BeginReply(next)) \/ UNCHANGED vars
  BY <1>2, <1>5 DEF NewGame, StoreEvent, GameOver, Initialize, CopyEvents, Ask,
                    BeginReply, vars
<1> QED
  BY <1>3, <1>4, <1>5, ServerSends DEF Next, Server, Network

(* The server's side holds throughout, however the network delivers.       *)
ServerInv == FlowTypeOK /\ GameInv /\ ReplyInv /\ NetInv

LEMMA ServerInvariant == Spec => []ServerInv
<1>1. Init => ServerInv
  <2> SUFFICES ASSUME Init PROVE ServerInv
    OBVIOUS
  <2>1. FlowTypeOK
    BY DEF Init, FlowTypeOK, NoReply, Reply
  <2>2. GameInv /\ ReplyInv
    BY DEF Init, GameInv, ReplyInv, NoReply
  <2>3. NetInv
    BY DEF Init, NetInv
  <2> QED
    BY <2>1, <2>2, <2>3 DEF ServerInv
<1>2. ServerInv /\ [Next]_vars => ServerInv'
  BY FlowTypeStep, GameInvStep, ReplyInvStep, NetInvStep DEF ServerInv
<1> QED
  BY <1>1, <1>2, PTL DEF Spec

(* What is in flight was generated (invariant DatagramsAreTrue), in        *)
(* whatever order the network delivers.                                    *)
THEOREM DatagramsCarryEvents == Spec => []DatagramsAreTrue
<1>1. ServerInv => DatagramsAreTrue
  BY DEF ServerInv, NetInv, IsFrom, DatagramsAreTrue
<1> QED
  BY <1>1, ServerInvariant, PTL

-----------------------------------------------------------------------------
(* The client, when the network keeps the order.                           *)

(* The client follows the ids in the order of the games, so what comes     *)
(* after what it has shown last is the next event, or a newer game.        *)
ClientInv ==
    /\ client_id <= game_id
    /\ reply.at # "none" => client_id <= reply.id
    /\ \A i \in DOMAIN net : client_id <= net[i].id
    /\ EventNoIsNext
    /\ gui # << >> =>
          /\ Last(gui)[1] <= of /\ Last(gui)[1] <= client_id
          /\ event_no = 0 => Last(gui)[1] < client_id
          /\ \A i \in DOMAIN net : Last(gui)[1] <= net[i].of

(* What is last in the GUI is a pair of numbers.                           *)
LEMMA LastShown ==
  ASSUME FlowTypeOK, gui # << >>
  PROVE  /\ Last(gui) \in Nat \X Nat /\ Last(gui) = gui[Len(gui)]
         /\ Len(gui) \in Nat \ {0}
BY DEF FlowTypeOK, Last

(* A datagram of which the client takes something has the id of its game.  *)
LEMMA TakesTrueId ==
  ASSUME FlowTypeOK, NetInv, ClientInv, NEW i \in DOMAIN net,
         Continues(net[i], StartOf(net[i]))
  PROVE  net[i].of = net[i].id
<1>1. PICK m \in Message : m = net[i] /\ IsFrom(m)
  BY DEF NetInv, FlowTypeOK
<1>2. SUFFICES ASSUME m.id # m.of PROVE FALSE
  BY <1>1
<1>3. m.lo >= 1 /\ m.of < m.id /\ m.lo <= StartOf(m)
  BY <1>1, <1>2 DEF IsFrom, Message, Continues
<1>4. StartOf(m) >= 1 /\ m.id = client_id /\ event_no >= 1
  BY <1>1, <1>3, SMTT(20) DEF StartOf, FlowTypeOK, Message
<1>5. gui # << >> /\ gui[Len(gui)] = <<client_id, event_no - 1>>
  BY <1>4 DEF ClientInv, EventNoIsNext, FlowTypeOK
<1>6. Last(gui)[1] = client_id /\ Last(gui)[1] <= m.of
  BY <1>1, <1>5 DEF ClientInv, Last
<1> QED
  BY <1>1, <1>3, <1>4, <1>6 DEF FlowTypeOK, Message

(* What reception does, as the proofs below use it: nothing is taken and   *)
(* the client waits for event 0 of a newer game or for the same as before; *)
(* or it takes a run of the datagram's events, from the expected one.      *)
Skips(m) ==
    /\ gui' = gui
    /\ event_no' = IF m.id = client_id THEN event_no ELSE 0

Takes(m) ==
    \E t \in Seq(Nat \X Nat), s \in Nat :
        /\ s = StartOf(m) /\ Len(t) > 0 /\ Len(t) = m.hi - s + 1
        /\ m.lo <= s /\ s <= m.hi /\ m.of = m.id
        /\ \A k \in 1 .. Len(t) : t[k] = <<m.of, s + k - 1>>
        /\ gui' = gui \o t /\ event_no' = m.hi + 1

LEMMA Reception ==
  ASSUME FlowTypeOK, NetInv, ClientInv, NEW i \in DOMAIN net,
         ReceiveMessage(net[i])
  PROVE  \E m \in Message : /\ m = net[i] /\ IsFrom(m) /\ client_id' = m.id
                            /\ Skips(m) \/ Takes(m)
<1>1. PICK m \in Message : m = net[i] /\ IsFrom(m)
  BY DEF NetInv, FlowTypeOK
<1>2. PICK t \in Seq(Nat \X Nat) : t = Taken(m)
  BY TakenShape
<1>3. PICK s \in Nat : s = StartOf(m)
  BY TakenShape
<1>4. client_id' = m.id /\ event_no' = s + Len(t) /\ gui' = gui \o t
  BY <1>1, <1>2, <1>3 DEF ReceiveMessage
<1>5. CASE Continues(m, s)
  <2>1. /\ Len(t) = m.hi - s + 1 /\ Len(t) > 0
        /\ \A k \in 1 .. Len(t) : t[k] = <<m.of, s + k - 1>>
    BY <1>2, <1>3, <1>5, TakenShape
  <2>2. m.of = m.id /\ m.lo <= s /\ s <= m.hi
    BY <1>1, <1>3, <1>5, TakesTrueId DEF Continues
  <2>3. s + Len(t) = m.hi + 1
    BY <2>1 DEF Message
  <2>4. Takes(m)
    BY <1>3, <1>4, <2>1, <2>2, <2>3 DEF Takes
  <2> QED
    BY <1>1, <1>4, <2>4
<1>6. CASE ~Continues(m, s)
  <2>1. t = << >>
    BY <1>2, <1>3, <1>6, TakenShape
  <2>2. gui' = gui /\ event_no' = s
    BY <1>4, <2>1 DEF FlowTypeOK
  <2>3. Skips(m)
    BY <1>3, <2>2 DEF Skips, StartOf
  <2> QED
    BY <1>1, <1>4, <2>3
<1> QED
  BY <1>5, <1>6

(* The last event shown after a reception.                                 *)
LEMMA LastTaken ==
  ASSUME FlowTypeOK, NEW m \in Message, Takes(m)
  PROVE  /\ gui' # << >> /\ Last(gui') = <<m.id, m.hi>>
         /\ gui'[Len(gui')] = <<m.id, m.hi>> /\ event_no' = m.hi + 1
<1>1. PICK t \in Seq(Nat \X Nat), s \in Nat :
        /\ Len(t) > 0 /\ Len(t) = m.hi - s + 1
        /\ m.of = m.id
        /\ \A k \in 1 .. Len(t) : t[k] = <<m.of, s + k - 1>>
        /\ gui' = gui \o t /\ event_no' = m.hi + 1
  BY DEF Takes
<1>2. PICK n \in Nat : n = Len(t)
  BY <1>1
<1>3. t[n] = <<m.of, m.hi>>
  <2>1. m.hi \in Nat /\ n = m.hi - s + 1 /\ n > 0
    BY <1>1, <1>2 DEF Message
  <2>2. n \in 1 .. n /\ s + n - 1 = m.hi
    BY <2>1
  <2> QED
    BY <1>1, <1>2, <2>2
<1>4. Len(gui') = Len(gui) + n /\ gui'[Len(gui) + n] = t[n] /\ gui' # << >>
  <2>1. gui \in Seq(Nat \X Nat) /\ n > 0 /\ gui' = gui \o t
    BY <1>1, <1>2 DEF FlowTypeOK
  <2>2. Len(gui \o t) = Len(gui) + n /\ (gui \o t)[Len(gui) + n] = t[n]
    BY <1>2, <2>1
  <2>3. Len(gui \o t) # 0
    BY <2>1, <2>2
  <2> QED
    BY <2>1, <2>2, <2>3
<1> QED
  BY <1>1, <1>3, <1>4 DEF Last

(* A reception keeps what is said of the client.                           *)
LEMMA ClientReceives ==
  ASSUME Ordered, ServerInv, ServerInv', ClientInv, NEW i \in 1 .. MaxInFlight,
         Deliver(i) \/ DeliverAndKeep(i)
  PROVE  ClientInv'
<1> USE DEF ServerInv
<1>1. i = 1 /\ 1 \in DOMAIN net /\ ReceiveMessage(net[1])
      /\ UNCHANGED <<game_id, of, reply>>
  BY DEF Deliver, DeliverAndKeep, Arrives, serverVars
<1>2. PICK m \in Message : /\ m = net[1] /\ IsFrom(m) /\ client_id' = m.id
                           /\ Skips(m) \/ Takes(m)
  BY <1>1, Reception
<1>3. net' = net \/ net' = RemoveAt(net, 1)
  BY <1>1 DEF Deliver, DeliverAndKeep
<1>4. \A k \in DOMAIN net : m.of <= net[k].of /\ m.id <= net[k].id
  <2>1. \A k \in DOMAIN net : k = 1 \/ 1 < k
    BY DEF FlowTypeOK
  <2>2. m.of <= m.of /\ m.id <= m.id
    BY DEF Message
  <2> QED
    BY <1>1, <1>2, <2>1, <2>2 DEF NetInv
<1>5. \A k \in DOMAIN net' : \E j \in DOMAIN net : net'[k] = net[j]
  <2>1. CASE net' = net
    BY <2>1
  <2>2. CASE net' = RemoveAt(net, 1)
    <3>1. /\ Len(RemoveAt(net, 1)) = Len(net) - 1 /\ net' \in Seq(Message)
          /\ \A k \in 1 .. Len(net) - 1 : RemoveAt(net, 1)[k] = net[IF k < 1 THEN k ELSE k + 1]
      BY <1>1, <2>2, Removed DEF FlowTypeOK
    <3>2. \A k \in 1 .. Len(net) - 1 : k + 1 \in DOMAIN net /\ ~(k < 1)
      BY DEF FlowTypeOK
    <3>3. DOMAIN net' = 1 .. Len(net) - 1
      BY <2>2, <3>1
    <3> QED
      BY <2>2, <3>1, <3>2, <3>3
  <2> QED
    BY <1>3, <2>1, <2>2
<1>6. /\ client_id' <= game_id' /\ (reply'.at # "none" => client_id' <= reply'.id)
      /\ \A k \in DOMAIN net' : client_id' <= net'[k].id
  BY <1>1, <1>2, <1>4, <1>5 DEF IsFrom
<1>7. client_id <= m.id
  BY <1>1, <1>2 DEF ClientInv
<1>8. CASE Skips(m)
  <2>1. gui' = gui /\ event_no' = IF m.id = client_id THEN event_no ELSE 0
    BY <1>8 DEF Skips
  <2>2. EventNoIsNext'
    BY <1>2, <2>1 DEF EventNoIsNext, ClientInv
  <2>3. ASSUME gui # << >>
        PROVE  /\ Last(gui)[1] <= of /\ Last(gui)[1] <= m.id
               /\ event_no' = 0 => Last(gui)[1] < m.id
               /\ \A k \in DOMAIN net' : Last(gui)[1] <= net'[k].of
    <3>1. PICK g \in Nat : g = Last(gui)[1]
      BY <2>3, LastShown
    <3>2. /\ g <= of /\ g <= client_id /\ (event_no = 0 => g < client_id)
          /\ \A k \in DOMAIN net : g <= net[k].of
      BY <2>3, <3>1 DEF ClientInv
    <3>3. g <= m.id /\ (event_no' = 0 => g < m.id)
      BY <1>7, <2>1, <3>2, SMTT(20) DEF FlowTypeOK, Message
    <3>4. \A k \in DOMAIN net' : g <= net'[k].of
      BY <1>5, <3>2
    <3> QED
      BY <3>1, <3>2, <3>3, <3>4
  <2> QED
    BY <1>1, <1>2, <1>6, <2>1, <2>2, <2>3 DEF ClientInv
<1>9. CASE Takes(m)
  <2>1. /\ gui' # << >> /\ Last(gui') = <<m.id, m.hi>>
        /\ gui'[Len(gui')] = <<m.id, m.hi>> /\ event_no' = m.hi + 1
    BY <1>9, LastTaken
  <2>2. m.of = m.id
    BY <1>9 DEF Takes
  <2>3. EventNoIsNext' /\ event_no' # 0
    BY <1>2, <2>1 DEF EventNoIsNext, Message
  <2>4. m.id <= of' /\ m.id <= client_id'
    BY <1>1, <1>2, <2>2 DEF IsFrom, Message
  <2>5. \A k \in DOMAIN net' : m.id <= net'[k].of
    BY <1>4, <1>5, <2>2
  <2>6. Last(gui')[1] = m.id
    BY <2>1
  <2> QED
    BY <1>6, <2>1, <2>3, <2>4, <2>5, <2>6 DEF ClientInv
<1> QED
  BY <1>2, <1>8, <1>9

(* Every other step leaves the client alone, and sends it nothing that is  *)
(* older than what it has.                                                 *)
LEMMA ClientWaits ==
  ASSUME ServerInv, ServerInv', ClientInv, UNCHANGED clientVars, [Next]_vars
  PROVE  ClientInv'
<1> USE DEF ServerInv
<1>1. UNCHANGED <<client_id, event_no, gui>>
  BY DEF clientVars
<1>2. /\ of' \in Nat /\ of' >= of
      /\ game_id' \in Nat /\ game_id' >= game_id
  <2>1. of' = of \/ of' = of + 1
    BY DEF Next, Server, Network, NewGame, StoreEvent, Announce, GameOver,
           AnnounceOver, Initialize, BeginReply, CopyEvents, SendReply, Ask,
           Deliver, DeliverAndKeep, Lose, vars, serverVars
  <2>2. game_id' = game_id \/ game_id' = game_id + 1
    BY DEF Next, Server, Network, NewGame, StoreEvent, Announce, GameOver,
           AnnounceOver, Initialize, NextId, BeginReply, CopyEvents, SendReply,
           Ask, Deliver, DeliverAndKeep, Lose, vars, serverVars
  <2> QED
    BY <2>1, <2>2 DEF FlowTypeOK
<1>3. client_id <= game_id' /\ (gui # << >> => Last(gui)[1] <= of')
  BY <1>2, LastShown, SMTT(20) DEF ClientInv, FlowTypeOK
<1>4. reply'.at # "none" => client_id <= reply'.id
  <2>1. CASE reply' = reply
    BY <2>1 DEF ClientInv
  <2>2. CASE reply' # reply
    <3>1. (\E next \in asked : BeginReply(next)) \/ CopyEvents \/ SendReply
      BY <2>2 DEF Next, Server, Network, NewGame, StoreEvent, Announce, GameOver,
                  AnnounceOver, Initialize, Ask, Deliver, DeliverAndKeep, Lose, vars
    <3>2. ASSUME NEW next \in asked, BeginReply(next) PROVE reply'.id = game_id
      BY <3>2 DEF BeginReply, NoReply
    <3>3. ASSUME CopyEvents
          PROVE  reply.at # "none" /\ (reply'.at = "none" \/ reply'.id = reply.id)
      BY <3>3 DEF CopyEvents, NoReply, Reply, FlowTypeOK
    <3>4. ASSUME SendReply PROVE reply'.at = "none" \/ reply'.id = game_id
      BY <3>4 DEF SendReply, NoReply, Reply, FlowTypeOK
    <3> QED
      BY <3>1, <3>2, <3>3, <3>4 DEF ClientInv
  <2> QED
    BY <2>1, <2>2
<1>5. ASSUME NEW k \in DOMAIN net'
      PROVE  /\ client_id <= net'[k].id
             /\ gui # << >> => Last(gui)[1] <= net'[k].of
  <2>1. CASE \E j \in DOMAIN net : net'[k] = net[j]
    BY <2>1 DEF ClientInv
  <2>2. CASE ~\E j \in DOMAIN net : net'[k] = net[j]
    <3>1. Announce \/ AnnounceOver \/ SendReply
      <4>1. net' # net
        BY <2>2
      <4>2. ASSUME NEW i \in DOMAIN net PROVE net' # RemoveAt(net, i)
        <5> SUFFICES ASSUME net' = RemoveAt(net, i) PROVE FALSE
          OBVIOUS
        <5>1. /\ Len(RemoveAt(net, i)) = Len(net) - 1 /\ net' \in Seq(Message)
              /\ \A n \in 1 .. Len(net) - 1 :
                    net'[n] = net[IF n < i THEN n ELSE n + 1]
          BY Removed DEF FlowTypeOK
        <5>2. k \in 1 .. Len(net) - 1
          BY <5>1
        <5>3. (IF k < i THEN k ELSE k + 1) \in DOMAIN net
          BY <5>2 DEF FlowTypeOK
        <5> QED
          BY <2>2, <5>1, <5>2, <5>3
      <4> QED
        BY <4>1, <4>2
           DEF Next, Server, Network, NewGame, StoreEvent, GameOver, Initialize,
               BeginReply, CopyEvents, Ask, Deliver, DeliverAndKeep, Lose, Arrives, vars
    <3>2. PICK d : Sent(d)
      BY <3>1, ServerSends
    <3>3. net'[k] = d
      <4>1. net' = Append(net, d) /\ net \in Seq(Message) /\ d \in Message
        BY <3>2 DEF Sent, Send, FlowTypeOK
      <4>2. \A n \in DOMAIN net' : net'[n] # d => n \in DOMAIN net /\ net'[n] = net[n]
        BY <4>1
      <4> QED
        BY <2>2, <4>2
    <3>4. client_id <= d.id
      BY <3>2 DEF Sent, ClientInv
    <3>5. gui # << >> => Last(gui)[1] <= d.of
      BY <3>2 DEF Sent, ClientInv
    <3> QED
      BY <3>3, <3>4, <3>5
  <2> QED
    BY <2>1, <2>2
<1>6. EventNoIsNext'
  BY <1>1 DEF ClientInv, EventNoIsNext
<1> QED
  BY <1>1, <1>3, <1>4, <1>5, <1>6 DEF ClientInv

(* It holds throughout, when datagrams keep their order.                   *)
LEMMA ClientInvariant == ASSUME Ordered PROVE Spec => []ClientInv
<1>1. Init => ClientInv
  BY DEF Init, ClientInv, EventNoIsNext, NoReply
<1>2. ServerInv /\ ServerInv' /\ ClientInv /\ [Next]_vars => ClientInv'
  <2> SUFFICES ASSUME ServerInv, ServerInv', ClientInv, [Next]_vars
               PROVE  ClientInv'
    OBVIOUS
  <2>1. CASE UNCHANGED clientVars
    BY <2>1, ClientWaits
  <2>2. CASE ~UNCHANGED clientVars
    <3>1. PICK i \in 1 .. MaxInFlight : Deliver(i) \/ DeliverAndKeep(i)
      BY <2>2 DEF Next, Server, Network, NewGame, StoreEvent, Announce, GameOver,
                  AnnounceOver, Initialize, BeginReply, CopyEvents, SendReply,
                  Ask, Lose, vars
    <3> QED
      BY <3>1, ClientReceives
  <2> QED
    BY <2>1, <2>2
<1> QED
  BY <1>1, <1>2, ServerInvariant, PTL DEF Spec

(* The number asked for is that of the event to show next (invariant       *)
(* EventNoIsNext).                                                         *)
THEOREM AsksForTheNext == ASSUME Ordered PROVE Spec => []EventNoIsNext
<1>1. ClientInv => EventNoIsNext
  BY DEF ClientInv
<1> QED
  BY <1>1, ClientInvariant, PTL

-----------------------------------------------------------------------------
(* What the GUI gets.                                                      *)

(* An event is taken under the id of its game (action property             *)
(* TakesOwnGame).                                                          *)
THEOREM TakesItsOwnGame == ASSUME Ordered PROVE Spec => TakesOwnGame
<1> DEFINE Own == \A i \in Len(gui) + 1 .. Len(gui') : gui'[i][1] = client_id'
<1>1. ServerInv /\ ClientInv /\ [Next]_vars => [Own]_vars
  <2> SUFFICES ASSUME ServerInv, ClientInv, [Next]_vars PROVE Own
    OBVIOUS
  <2> USE DEF ServerInv
  <2>1. CASE gui' = gui
    BY <2>1 DEF FlowTypeOK
  <2>2. CASE gui' # gui
    <3>1. PICK i \in DOMAIN net : ReceiveMessage(net[i])
      BY <2>2 DEF Next, Server, Network, NewGame, StoreEvent, Announce, GameOver,
                  AnnounceOver, Initialize, BeginReply, CopyEvents, SendReply,
                  Ask, Deliver, DeliverAndKeep, Arrives, Lose, vars, clientVars
    <3>2. PICK m \in Message : client_id' = m.id /\ Takes(m)
      BY <2>2, <3>1, Reception DEF Skips
    <3>3. PICK t \in Seq(Nat \X Nat), s \in Nat :
             /\ m.of = m.id /\ gui' = gui \o t
             /\ \A k \in 1 .. Len(t) : t[k] = <<m.of, s + k - 1>>
      BY <3>2 DEF Takes
    <3>4. \A k \in 1 .. Len(t) : t[k][1] = client_id'
      BY <3>2, <3>3
    <3>5. ASSUME NEW n \in Len(gui) + 1 .. Len(gui') PROVE gui'[n][1] = client_id'
      <4>1. Len(gui') = Len(gui) + Len(t) /\ Len(t) \in Nat /\ Len(gui) \in Nat
        BY <3>3 DEF FlowTypeOK
      <4>2. n - Len(gui) \in 1 .. Len(t)
        BY <4>1
      <4>3. gui'[n] = t[n - Len(gui)]
        BY <3>3, <4>1, <4>2 DEF FlowTypeOK
      <4> QED
        BY <3>4, <4>2, <4>3
    <3> QED
      BY <3>5
  <2> QED
    BY <2>1, <2>2
<1> QED
  BY <1>1, ServerInvariant, ClientInvariant, PTL DEF Spec, TakesOwnGame

(* The two parts of a sequence that was extended.                          *)
LEMMA Extended ==
  ASSUME NEW S, NEW s \in Seq(S), NEW t \in Seq(S)
  PROVE  /\ SubSeq(s \o t, 1, Len(s)) = s
         /\ SubSeq(s \o t, Len(s) + 1, Len(s \o t)) = t
         /\ Len(s \o t) = Len(s) + Len(t)
<1>1. PICK n \in Nat, k \in Nat : n = Len(s) /\ k = Len(t)
  OBVIOUS
<1>2. PICK u \in Seq(S) : u = s \o t
  BY ConcatProperties
<1>3. /\ Len(u) = n + k
      /\ \A i \in 1 .. n : u[i] = s[i]
      /\ \A i \in 1 .. k : u[n + i] = t[i]
  BY <1>1, <1>2
<1>4. SubSeq(u, 1, n) = s
  <2>1. SubSeq(u, 1, n) \in Seq(S) /\ Len(SubSeq(u, 1, n)) = n
        /\ \A i \in 1 .. n : SubSeq(u, 1, n)[i] = u[i]
    BY <1>3
  <2> QED
    BY <1>1, <1>3, <2>1, SeqEqual
<1>5. SubSeq(u, n + 1, n + k) = t
  <2>1. /\ SubSeq(u, n + 1, n + k) \in Seq(S) /\ Len(SubSeq(u, n + 1, n + k)) = k
        /\ \A i \in 1 .. k : SubSeq(u, n + 1, n + k)[i] = u[n + i]
    BY <1>3
  <2> QED
    BY <1>1, <1>3, <2>1, SeqEqual
<1> QED
  BY <1>1, <1>2, <1>3, <1>4, <1>5

(* A run of a game's events, the first of them next after what is shown,   *)
(* is in order.                                                            *)
LEMMA RunInOrder ==
  ASSUME NEW t \in Seq(Nat \X Nat), NEW shown \in Seq(Nat \X Nat),
         NEW g \in Nat, NEW s \in Nat,
         \A k \in 1 .. Len(t) : t[k] = <<g, s + k - 1>>,
         GuiFeed!NextAfter(shown, <<g, s>>)
  PROVE  GuiFeed!InOrder(shown, t)
<1>0. DOMAIN t = 1 .. Len(t)
  OBVIOUS
<1> SUFFICES ASSUME NEW i \in 1 .. Len(t)
             PROVE  GuiFeed!NextAfter(shown \o SubSeq(t, 1, i - 1), t[i])
  BY <1>0, Zenon DEF GuiFeed!InOrder
<1>1. CASE i = 1
  <2>1. SubSeq(t, 1, i - 1) = << >> /\ shown \o << >> = shown
    BY <1>1, SubSeqEmpty, ConcatEmptySeq
  <2>2. t[1] = <<g, s>>
    <3>1. s + 1 - 1 = s /\ 1 \in 1 .. Len(t)
      BY <1>1
    <3> QED
      BY <3>1
  <2> QED
    BY <1>1, <2>1, <2>2, Zenon
<1>2. CASE i > 1
  <2>1. PICK b \in Seq(Nat \X Nat) :
           b = SubSeq(t, 1, i - 1) /\ Len(b) = i - 1 /\ b[i - 1] = t[i - 1]
    <3>1. /\ SubSeq(t, 1, i - 1) \in Seq(Nat \X Nat)
          /\ Len(SubSeq(t, 1, i - 1)) = i - 1
          /\ SubSeq(t, 1, i - 1)[i - 1] = t[i - 1]
      BY <1>2, SMTT(20)
    <3> QED
      BY <3>1
  <2>2. PICK u \in Seq(Nat \X Nat) : u = shown \o b
    BY ConcatProperties
  <2>3. u[Len(u)] = t[i - 1] /\ Len(u) > 0
    <3>1. Len(u) = Len(shown) + (i - 1) /\ Len(shown) \in Nat /\ i - 1 \in 1 .. Len(b)
      BY <1>2, <2>1, <2>2
    <3>2. u[Len(shown) + (i - 1)] = b[i - 1]
      BY <2>2, <3>1
    <3> QED
      BY <2>1, <3>1, <3>2
  <2>4. t[i - 1] = <<g, s + (i - 1) - 1>> /\ t[i] = <<g, s + i - 1>>
    <3>1. i - 1 \in 1 .. Len(t)
      BY <1>2
    <3> QED
      BY <3>1
  <2>5. (s + (i - 1) - 1) + 1 = s + i - 1
    OBVIOUS
  <2>6. GuiFeed!NextAfter(u, t[i])
    BY <2>3, <2>4, <2>5 DEF GuiFeed!NextAfter
  <2> QED
    BY <2>1, <2>2, <2>6
<1> QED
  BY <1>1, <1>2

(* What is taken of a datagram is what comes next after what was shown.    *)
LEMMA TakenIsNext ==
  ASSUME FlowTypeOK, ClientInv, NEW m \in Message, m.of = m.id, client_id <= m.id,
         NEW s \in Nat, s = StartOf(m)
  PROVE  GuiFeed!NextAfter(gui, <<m.of, s>>)
<1>1. CASE gui = << >>
  <2>1. s = 0
    BY <1>1 DEF StartOf, ClientInv, EventNoIsNext, FlowTypeOK
  <2> QED
    BY <1>1, <2>1 DEF GuiFeed!NextAfter
<1>2. CASE gui # << >>
  <2>1. PICK g \in Nat, n \in Nat : gui[Len(gui)] = <<g, n>> /\ Last(gui)[1] = g
    BY <1>2, LastShown
  <2>2. g <= client_id /\ (event_no = 0 => g < client_id)
    BY <1>2, <2>1 DEF ClientInv
  <2>3. CASE s = 0
    <3>1. g < m.id
      BY <2>2, <2>3 DEF StartOf, FlowTypeOK, Message
    <3> QED
      BY <1>2, <2>1, <2>3, <3>1 DEF GuiFeed!NextAfter
  <2>4. CASE s # 0
    <3>1. m.id = client_id /\ s = event_no /\ event_no > 0
      BY <2>4 DEF StartOf, FlowTypeOK
    <3>2. g = client_id /\ n = event_no - 1
      BY <2>1, <3>1 DEF ClientInv, EventNoIsNext
    <3>3. s = n + 1 /\ m.of = g
      BY <3>1, <3>2 DEF FlowTypeOK
    <3> QED
      BY <1>2, <2>1, <3>3 DEF GuiFeed!NextAfter
  <2> QED
    BY <2>3, <2>4
<1> QED
  BY <1>1, <1>2

(* A reception is a step of the feed, or shows nothing.                    *)
LEMMA ReceptionIsShown ==
  ASSUME ServerInv, ClientInv, NEW i \in DOMAIN net, ReceiveMessage(net[i]),
         generated' = generated
  PROVE  [GuiFeed!Next]_<<generated, gui>>
<1> USE DEF ServerInv
<1>1. PICK m \in Message : m = net[i] /\ IsFrom(m) /\ (Skips(m) \/ Takes(m))
  BY Reception
<1>2. CASE Skips(m)
  BY <1>2 DEF Skips
<1>3. CASE Takes(m)
  <2>1. PICK t \in Seq(Nat \X Nat), s \in Nat :
        /\ s = StartOf(m) /\ Len(t) > 0 /\ Len(t) = m.hi - s + 1
        /\ m.lo <= s /\ s <= m.hi /\ m.of = m.id
        /\ \A k \in 1 .. Len(t) : t[k] = <<m.of, s + k - 1>>
        /\ gui' = gui \o t
    BY <1>3 DEF Takes
  <2>2. gui \in Seq(Nat \X Nat) /\ m.of \in Nat /\ client_id <= m.id
    BY <1>1 DEF FlowTypeOK, Message, ClientInv
  <2>3. GuiFeed!InOrder(gui, t)
    BY <2>1, <2>2, TakenIsNext, RunInOrder, ZenonT(40)
  <2>4. \A k \in DOMAIN t : t[k] \in generated
    <3> SUFFICES ASSUME NEW k \in 1 .. Len(t) PROVE t[k] \in generated
      OBVIOUS
    <3>1. m.lo \in Nat /\ m.hi \in Nat /\ Len(t) \in Nat
      BY <2>1 DEF Message
    <3>2. s \in Nat /\ Len(t) = m.hi - s + 1 /\ m.lo <= s /\ s <= m.hi
      BY <2>1, Zenon
    <3>3. s + k - 1 \in m.lo .. m.hi
      BY <3>1, <3>2, SMTT(20)
    <3> QED
      BY <1>1, <2>1, <3>3 DEF IsFrom
  <2>5. /\ SubSeq(gui', 1, Len(gui)) = gui
        /\ SubSeq(gui', Len(gui) + 1, Len(gui')) = t
        /\ Len(gui') = Len(gui) + Len(t)
    <3>1. PICK S : gui \in Seq(S) /\ t \in Seq(S)
      BY <2>1, <2>2, Zenon
    <3>2. /\ SubSeq(gui \o t, 1, Len(gui)) = gui
          /\ SubSeq(gui \o t, Len(gui) + 1, Len(gui \o t)) = t
          /\ Len(gui \o t) = Len(gui) + Len(t)
      BY <3>1, Extended, ZenonT(40)
    <3>3. gui' = gui \o t
      BY <2>1
    <3> QED
      BY <3>2, <3>3, Zenon
  <2>6. Len(gui) < Len(gui')
    BY <2>1, <2>2, <2>5
  <2>7. GuiFeed!Show
    BY <2>3, <2>4, <2>5, <2>6 DEF GuiFeed!Show
  <2> QED
    BY <2>7 DEF GuiFeed!Next
<1> QED
  BY <1>1, <1>2, <1>3

(* Delivery implements Feed, when datagrams keep their order (property     *)
(* ImplementsFeed): the GUI gets the events of each game in order, none    *)
(* twice, none left out, and no game after a later one.                    *)
THEOREM DeliveryImplementsFeed == ASSUME Ordered PROVE Spec => ImplementsFeed
<1>1. Init => GuiFeed!Init
  BY DEF Init, GuiFeed!Init
<1>2. ServerInv /\ ClientInv /\ [Next]_vars => [GuiFeed!Next]_<<generated, gui>>
  <2> SUFFICES ASSUME ServerInv, ClientInv, [Next]_vars
               PROVE  [GuiFeed!Next]_<<generated, gui>>
    OBVIOUS
  <2>1. CASE gui' = gui
    <3>1. generated \subseteq generated'
      BY GeneratedGrows
    <3> QED
      BY <2>1, <3>1 DEF GuiFeed!Next, GuiFeed!Generate
  <2>2. CASE gui' # gui
    <3>1. PICK i \in DOMAIN net : ReceiveMessage(net[i]) /\ generated' = generated
      BY <2>2 DEF Next, Server, Network, NewGame, StoreEvent, Announce, GameOver,
                  AnnounceOver, Initialize, BeginReply, CopyEvents, SendReply,
                  Ask, Deliver, DeliverAndKeep, Arrives, Lose, vars, clientVars,
                  serverVars
    <3> QED
      BY <3>1, ReceptionIsShown
  <2> QED
    BY <2>1, <2>2
<1> QED
  BY <1>1, <1>2, ServerInvariant, ClientInvariant, PTL
     DEF Spec, ImplementsFeed, GuiFeed!Spec
=============================================================================
