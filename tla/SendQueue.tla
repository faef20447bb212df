----------------------------- MODULE SendQueue -----------------------------
(***************************************************************************)
(* How the server's datagrams get out: Server::add_message,                *)
(* can_send_message, send_message and the poll of Server::run              *)
(* (server/server.cc), with Buffer (server/buffer.cc).                     *)
(*                                                                         *)
(* A definition whose name no action uses is the mistaken form of the one  *)
(* that follows it; PROJECT.json says which property tells them apart.     *)
(*                                                                         *)
(* add_message is called by the network thread and by the game's thread,   *)
(* so at any point of the network thread's round; messages_mutex makes it  *)
(* and can_send_message one step each.  While poll() waits it uses the     *)
(* mask it was called with: POLLOUT added meanwhile counts the next time.  *)
(***************************************************************************)
EXTENDS Naturals, Sequences, FiniteSets, SequencesExt

CONSTANTS
    Clients,    \* addresses
    MaxMessages \* bound: messages added

VARIABLES
    messages,          \* Server::messages, oldest first
    current_message,   \* Server::current_message
    current_addresses, \* Server::current_addresses
    events,            \* pollfd::events has POLLOUT
    at,                \* where the network thread is
    mask,              \* the poll() being waited for asked for POLLOUT
    added,             \* ghost: all messages added
    sent               \* ghost: what was handed to the kernel for each client

queueVars == <<messages, current_message, current_addresses>>
vars == <<queueVars, events, at, mask, added, sent>>

(* Recipients in the order in which Connections lists them; perhaps none.  *)
Recipients ==
    {s \in BoundedSeq(Clients, Cardinality(Clients)) : IsInjective(s)}
Nothing == [id |-> 0, addresses |-> << >>]

-----------------------------------------------------------------------------
(* add_message: append, and ask for POLLOUT.                               *)
AsBefore == events
Wanted == TRUE

AddMessage(to) ==
    /\ Len(added) < MaxMessages
    /\ LET m == [id |-> Len(added) + 1, addresses |-> to]
       IN  messages' = Append(messages, m) /\ added' = Append(added, m)
    /\ events' = Wanted
    /\ UNCHANGED <<current_message, current_addresses, at, mask, sent>>

(* Poll::wait, and its return: for a datagram or a timeout (the rest of    *)
(* the round adds messages at most), or because the socket is writable.    *)
Wait ==
    /\ at = "run"
    /\ mask' = events
    /\ at' = "wait"
    /\ UNCHANGED <<queueVars, events, added, sent>>

WakeForOther ==
    /\ at = "wait"
    /\ at' = "run"
    /\ UNCHANGED <<queueVars, events, mask, added, sent>>

WakeWritable ==
    /\ at = "wait" /\ mask
    /\ at' = "can_send"
    /\ UNCHANGED <<queueVars, events, mask, added, sent>>

(* can_send_message: a message without recipients is dropped; a message    *)
(* that still has some is finished first.                                  *)
PopAlways(q) == IF q = << >> THEN 0 ELSE 1
PopWhenDone(q) ==
    IF current_addresses # << >> THEN 0
    ELSE LET done(k) == k = Len(q) \/ q[k].addresses # << >>
         IN  IF q = << >> THEN 0
             ELSE CHOOSE k \in 1 .. Len(q) :
                     done(k) /\ \A j \in 1 .. k - 1 : ~done(j)

CurrentOf(k) == IF k = 0 THEN current_message ELSE messages[k].id

CanSendMessage ==
    /\ at = "can_send"
    /\ LET k == PopWhenDone(messages)
       IN  /\ messages' = SubSeq(messages, k + 1, Len(messages))
           /\ current_message' = CurrentOf(k)
           /\ current_addresses' = IF k = 0 THEN current_addresses
                                   ELSE messages[k].addresses
    /\ IF current_addresses' = << >>
       THEN events' = FALSE /\ at' = "run"
       ELSE at' = "send" /\ UNCHANGED events
    /\ UNCHANGED <<mask, added, sent>>

(* send_message: one datagram, unless the socket would block; an error of  *)
(* sendto is only reported.                                                *)
SendMessage ==
    /\ at = "send"
    /\ sent' = [sent EXCEPT ![Head(current_addresses)] =
                               Append(@, current_message)]
    /\ current_addresses' = Tail(current_addresses)
    /\ at' = "run"
    /\ UNCHANGED <<messages, current_message, events, mask, added>>

WouldBlock ==
    /\ at = "send"
    /\ at' = "run"
    /\ UNCHANGED <<queueVars, events, mask, added, sent>>

-----------------------------------------------------------------------------
Init ==
    /\ messages = << >> /\ current_message = 0 /\ current_addresses = << >>
    /\ events = TRUE /\ at = "run" /\ mask = FALSE
    /\ added = << >> /\ sent = [c \in Clients |-> << >>]

Network == Wait \/ WakeForOther \/ WakeWritable \/ CanSendMessage
               \/ SendMessage \/ WouldBlock

Next == Network \/ \E to \in Recipients : AddMessage(to)

Spec == Init /\ [][Next]_vars

(* poll always returns; the socket becomes writable and stays so for a     *)
(* datagram again and again.                                               *)
Fairness ==
    /\ WF_vars(Network)
    /\ SF_vars(WakeWritable) /\ WF_vars(CanSendMessage) /\ SF_vars(SendMessage)

LiveSpec == Spec /\ Fairness

-----------------------------------------------------------------------------
(* What was sent to a client is what was ever addressed to it, in order,   *)
(* but for what still waits for it: nothing is dropped, repeated or        *)
(* overtaken between add_message and sendto.  A message's id is its place  *)
(* in added.                                                               *)
IsFor(c, m) == Contains(m.addresses, c)
InHand(c) == Contains(current_addresses, c)
Waiting(c) ==
    {messages[i].id : i \in {j \in DOMAIN messages : IsFor(c, messages[j])}}
        \cup {n \in {current_message} : InHand(c)}

EachGetsAllInOrder ==
    \A c \in Clients :
        /\ \A i, j \in DOMAIN sent[c] : i < j => sent[c][i] < sent[c][j]
        /\ Range(sent[c]) =
              {n \in DOMAIN added : IsFor(c, added[n])} \ Waiting(c)

(* No lost wake-up: while anything waits to be sent, poll will be asked    *)
(* for POLLOUT, whatever order the two threads' calls came in.             *)
NoLostWakeup == messages # << >> \/ current_addresses # << >> => events

(* What is added is sent.                                                  *)
AllIsSent ==
    \A n \in 1 .. MaxMessages, c \in Clients :
        n \in DOMAIN added /\ IsFor(c, added[n]) ~> Contains(sent[c], n)
=============================================================================
