------------------------------ MODULE Packing ------------------------------
(***************************************************************************)
(* Events by their lengths: how Game::new_game fills the NEW_GAME event    *)
(* (EventNewGame::add_player), and how Server::make_message distributes    *)
(* stored events over datagrams (ServerMessage::add_event).                *)
(*                                                                         *)
(* A definition whose name no action uses is the mistaken form of the one  *)
(* that follows it; PROJECT.json says which property tells them apart.     *)
(***************************************************************************)
EXTENDS Naturals, Sequences

CONSTANTS
    MaxDataLen,    \* MAX_MESSAGE_DATA_LEN, 508 bytes
    NameLengths,   \* lengths of the connected players' names, in their order
    MaxStore,      \* bound: events stored
    MaxDatagrams   \* bound: datagrams of one reply that are recorded

HeaderLen == 13                       \* EVENT_HEADER_LEN
MaxEventDataLen == MaxDataLen - HeaderLen
NewGameHeaderLen == 8                 \* EVENT_NEW_GAME_HEADER_LEN
PixelLen == HeaderLen + 9             \* EventPixel::get_len
EliminatedLen == HeaderLen + 1        \* EventPlayerEliminated::get_len

ASSUME LengthsAssumption ==
    MaxDataLen \in Nat /\ MaxDataLen >= PixelLen
        /\ NameLengths \in Seq(1 .. 64)
ASSUME BoundsAssumption ==
    MaxStore \in Nat \ {0} /\ MaxDatagrams \in Nat /\ MaxDatagrams >= MaxStore

VARIABLES
    at,          \* "new_game", "play" or "reply"
    players_len, \* EventNewGame::players_len
    named,       \* how many players the NEW_GAME event names
    store,       \* the lengths of the stored events
    asked,       \* make_message's parameter event_no
    queue,       \* message_events: the numbers of the events to be sent
    message,     \* the ServerMessage being filled: its events and message_len
    sent         \* the datagrams of this reply

vars == <<at, players_len, named, store, asked, queue, message, sent>>

(* How long the events with these numbers are together.                    *)
SumOf(lens) ==
    LET sum[i \in 0 .. Len(lens)] == IF i = 0 THEN 0 ELSE sum[i - 1] + lens[i]
    IN  sum[Len(lens)]

Total(numbers) == SumOf([i \in DOMAIN numbers |-> store[numbers[i] + 1]])

Empty == [events |-> << >>, message_len |-> 0]

-----------------------------------------------------------------------------
(* new_game: add the players in their order until one does not fit.        *)
FitsIn(len) == players_len + len + 1 <= MaxEventDataLen

AddPlayer ==
    /\ at = "new_game"
    /\ named < Len(NameLengths) /\ FitsIn(NameLengths[named + 1])
    /\ players_len' = players_len + NameLengths[named + 1] + 1
    /\ named' = named + 1
    /\ UNCHANGED <<at, store, asked, queue, message, sent>>

NewGame ==
    /\ at = "new_game"
    /\ named = Len(NameLengths) \/ ~FitsIn(NameLengths[named + 1])
    /\ store' = <<HeaderLen + players_len + NewGameHeaderLen>>
    /\ at' = "play"
    /\ UNCHANGED <<players_len, named, asked, queue, message, sent>>

AddEvent ==
    /\ at = "play"
    /\ Len(store) < MaxStore
    /\ \E len \in {PixelLen, EliminatedLen} : store' = Append(store, len)
    /\ UNCHANGED <<at, players_len, named, asked, queue, message, sent>>

-----------------------------------------------------------------------------
(* make_message, asked for the events from `next` on.                      *)
MakeMessage(next) ==
    /\ at = "play" /\ next < Len(store)
    /\ at' = "reply" /\ asked' = next
    /\ queue' = [i \in 1 .. Len(store) - next |-> next + i - 1]
    /\ message' = Empty /\ sent' = << >>
    /\ UNCHANGED <<players_len, named, store>>

(* ServerMessage::add_event                                                *)
FitsCounted(n) == Len(message.events) < MaxDataLen \div PixelLen
FitsBelow(n) == message.message_len + store[n + 1] < MaxDataLen
FitsMessage(n) == message.message_len + store[n + 1] <= MaxDataLen
WithEvent(n) ==
    [events |-> Append(message.events, n),
     message_len |-> message.message_len + store[n + 1]]

Put ==
    /\ at = "reply" /\ queue # << >>
    /\ FitsMessage(Head(queue))
    /\ message' = WithEvent(Head(queue))
    /\ queue' = Tail(queue)
    /\ UNCHANGED <<at, players_len, named, store, asked, sent>>

(* add_message; past the bound a datagram is not recorded any more.        *)
Record(m) == sent' = IF Len(sent) < MaxDatagrams THEN Append(sent, m) ELSE sent

(* overflow_error: send the datagram as it is, begin another; the event    *)
(* stays in the queue.                                                     *)
Dropped == Tail(queue)
OldMessage == message
NewMessage == Empty
StaysQueued == queue

Overflow ==
    /\ at = "reply" /\ queue # << >>
    /\ ~FitsMessage(Head(queue))
    /\ Record(message.events)
    /\ message' = NewMessage
    /\ queue' = StaysQueued
    /\ UNCHANGED <<at, players_len, named, store, asked>>

Finish ==
    /\ at = "reply" /\ queue = << >>
    /\ Record(message.events)
    /\ at' = "play"
    /\ UNCHANGED <<players_len, named, store, asked, queue, message>>

-----------------------------------------------------------------------------
Init ==
    /\ at = "new_game" /\ players_len = 0 /\ named = 0 /\ asked = 0
    /\ store = << >> /\ queue = << >> /\ message = Empty /\ sent = << >>

Next ==
    \/ AddPlayer \/ NewGame \/ AddEvent
    \/ \E next \in 0 .. MaxStore - 1 : MakeMessage(next)
    \/ Put \/ Overflow \/ Finish

Spec == Init /\ [][Next]_vars

(* make_message is a loop without waiting: it runs on to its end.          *)
LiveSpec == Spec /\ WF_vars(Put \/ Overflow \/ Finish)

-----------------------------------------------------------------------------
(* The datagrams of a reply, what is being filled and what is left hold    *)
(* all events from the one asked for to the last, each once and in their   *)
(* order (README.md:121).                                                  *)
Parts == sent \o <<message.events, queue>>

NothingLost ==
    at = "reply" =>
        /\ asked .. Len(store) - 1 =
              UNION {{Parts[p][i] : i \in DOMAIN Parts[p]} : p \in DOMAIN Parts}
        /\ \A p, q \in DOMAIN Parts :
              \A i \in DOMAIN Parts[p], j \in DOMAIN Parts[q] :
                 p < q \/ (p = q /\ i < j) => Parts[p][i] < Parts[q][j]

(* No datagram is longer than allowed, and none is empty (README.md:128);  *)
(* the names of NEW_GAME take no more than an event may.                   *)
DatagramsFit ==
    /\ players_len <= MaxEventDataLen
    /\ \A i \in DOMAIN sent : sent[i] # << >> /\ Total(sent[i]) <= MaxDataLen

(* All datagrams but the last hold as many events as possible              *)
(* (README.md:132).                                                        *)
FullButLast ==
    \A i \in 1 .. Len(sent) - 1 :
        Total(sent[i]) + store[sent[i + 1][1] + 1] > MaxDataLen

(* make_message returns: it does not go on sending for ever.               *)
ReplyEnds == at = "reply" ~> at = "play"
=============================================================================
