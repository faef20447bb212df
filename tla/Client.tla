------------------------------- MODULE Client -------------------------------
(***************************************************************************)
(* The two threads of a client: Client::run, the messages they share, and  *)
(* the destructor that ends them (client/client.cc, siktacka-client.cc).   *)
(*                                                                         *)
(* A definition whose name no action uses is the mistaken form of the one  *)
(* that follows it; PROJECT.json says which property tells them apart.     *)
(*                                                                         *)
(* The main thread polls both sockets and serves them; the asker makes a   *)
(* message for the server every 20 ms.  messages_mutex guards the asker's  *)
(* push ("push": it holds the mutex) and the look of send_message at the   *)
(* queue, but not the front() and pop() after it.  The message is made     *)
(* when the push ends: a direction read earlier, as the code may, is one   *)
(* the same message tells had the push ended earlier.                      *)
(***************************************************************************)
EXTENDS GuiClient, FiniteSets

CONSTANTS
    MaxMessages, \* bound: messages in the queue
    MaxEvents    \* bound: events waiting for the GUI

VARIABLES
    stopping,      \* Client::stopping
    messages,      \* Client::messages: the direction each one tells
    events,        \* how many lines are in Client::events
    server_events, \* the mask of server_sock has POLLOUT
    gui_events,    \* the mask of gui_sock has POLLOUT
    main,          \* where the main thread is
    revents,       \* while it polls: what poll() was asked for;
                   \* while it serves: what it has yet to serve
    asker,         \* where client_thread is
    told,          \* ghost: the direction last handed to sendto
    owed           \* ghost: messages made and not handed to sendto

queueVars == <<messages, server_events, told, owed>>
eventVars == <<events, gui_events>>
vars == <<guiVars, stopping, queueVars, eventVars, main, revents, asker>>

-----------------------------------------------------------------------------
(* client_thread, and add_server_message.                                  *)
AskerLoop ==
    /\ asker = "loop"
    /\ stopping \/ Len(messages) < MaxMessages
    /\ asker' = IF stopping THEN "ended" ELSE "push"
    /\ UNCHANGED <<guiVars, stopping, queueVars, eventVars, main, revents>>

MaskKept == server_events
MaskWanted == TRUE

AddServerMessage ==
    /\ asker = "push"
    /\ messages' = Append(messages, direction)
    /\ owed' = owed + 1
    /\ server_events' = MaskWanted
    /\ asker' = "loop"
    /\ UNCHANGED <<guiVars, stopping, told, eventVars, main, revents>>

Asker == AskerLoop \/ AddServerMessage

-----------------------------------------------------------------------------
(* run(): poll, for 40 ms at most.                                         *)
Asked == {"server_in", "gui_in"}
            \cup (IF server_events THEN {"server_out"} ELSE {})
            \cup (IF gui_events THEN {"gui_out"} ELSE {})

Poll ==
    /\ main = "run"
    /\ IF stopping THEN main' = "exit" /\ UNCHANGED revents
                   ELSE main' = "poll" /\ revents' = Asked
    /\ UNCHANGED <<guiVars, stopping, queueVars, eventVars, asker>>

(* A timeout, or an error such as a signal.                                *)
NothingReady ==
    /\ main = "poll"
    /\ main' = "run" /\ revents' = {}
    /\ UNCHANGED <<guiVars, stopping, queueVars, eventVars, asker>>

Ready(ready) ==
    /\ main = "poll" /\ ready # {} /\ ready \subseteq revents
    /\ IF stopping THEN main' = "exit" /\ revents' = {}
                   ELSE main' = "serve" /\ revents' = ready
    /\ UNCHANGED <<guiVars, stopping, queueVars, eventVars, asker>>

(* What is ready is served in this order.                                  *)
Order == <<"server_in", "server_out", "gui_in", "gui_out">>
Serves(e) ==
    /\ main = "serve" /\ e \in revents
    /\ \E i \in DOMAIN Order :
          Order[i] = e /\ \A j \in 1 .. i - 1 : Order[j] \notin revents
Served(e) ==
    /\ revents' = revents \ {e}
    /\ main' = IF revents' = {} THEN "run" ELSE "serve"

(* An exception leaves run() for main(); those of the GUI's connection and *)
(* of nonsense from the server set stopping first.                         *)
JustThrow == main' = "exit" /\ revents' = {} /\ UNCHANGED stopping
StopAndThrow == main' = "exit" /\ revents' = {} /\ stopping' = TRUE

(* receive_message: a datagram whose events the client takes one by one    *)
(* and queues for the GUI, until one of them makes no sense or all are     *)
(* taken.  An error of recvfrom is thrown without stop().                  *)
GuiMaskKept == gui_events
GuiMaskWanted == TRUE

TakeEvent ==
    /\ Serves("server_in") /\ events < MaxEvents
    /\ events' = events + 1
    /\ gui_events' = GuiMaskWanted
    /\ UNCHANGED <<guiVars, stopping, queueVars, main, revents, asker>>

MessageTaken ==
    /\ Serves("server_in")
    /\ Served("server_in")
    /\ UNCHANGED <<guiVars, stopping, queueVars, eventVars, asker>>

Nonsense ==
    /\ Serves("server_in")
    /\ StopAndThrow
    /\ UNCHANGED <<guiVars, queueVars, eventVars, asker>>

ReceiveFails ==
    /\ Serves("server_in")
    /\ main' = "failed" /\ revents' = {}
    /\ UNCHANGED <<guiVars, stopping, queueVars, eventVars, asker>>

ReceiveMessage == TakeEvent \/ MessageTaken \/ Nonsense \/ ReceiveFails

(* send_message: is there one (under the mutex) ...                        *)
CanSend ==
    /\ Serves("server_out") /\ asker # "push"
    /\ IF messages = << >>
       THEN server_events' = FALSE /\ Served("server_out")
       ELSE main' = "front" /\ UNCHANGED <<server_events, revents>>
    /\ UNCHANGED <<guiVars, stopping, messages, told, owed, eventVars, asker>>

(* ... then front(), to_bytes() and sendto, which may want to block (any   *)
(* other error is only reported) ...                                       *)
SendFront ==
    /\ main = "front"
    /\ told' = Head(messages) /\ owed' = owed - 1
    /\ main' = "pop"
    /\ UNCHANGED <<guiVars, stopping, messages, server_events, eventVars,
                   revents, asker>>

PoppedAnyway == Tail(messages)
KeptToSend == messages

WouldBlock ==
    /\ main = "front"
    /\ messages' = KeptToSend
    /\ Served("server_out")
    /\ UNCHANGED <<guiVars, stopping, server_events, told, owed, eventVars,
                   asker>>

(* ... then pop().                                                         *)
Pop ==
    /\ main = "pop"
    /\ messages' = Tail(messages)
    /\ Served("server_out")
    /\ UNCHANGED <<guiVars, stopping, server_events, told, owed, eventVars,
                   asker>>

(* front() or pop() while the asker is inside push(): a data race.  If it  *)
(* does not end as if one came after the other, nothing can be said of     *)
(* this process any more.                                                  *)
Race ==
    /\ main \in {"front", "pop"} /\ asker = "push"
    /\ main' = "crashed"
    /\ UNCHANGED <<guiVars, stopping, queueVars, eventVars, revents, asker>>

SendMessage == CanSend \/ SendFront \/ WouldBlock \/ Pop \/ Race

(* The GUI's socket: a read that returns data; one that returns none, when *)
(* the GUI is gone or if there were no room.                               *)
ReadKeys ==
    /\ Serves("gui_in")
    /\ \E n \in 1 .. Size : ReceiveEvent(n)
    /\ Served("gui_in")
    /\ UNCHANGED <<stopping, queueVars, eventVars, asker>>

GuiLost ==
    /\ \/ Serves("gui_in")
       \/ Serves("gui_out") /\ events > 0
    /\ StopAndThrow
    /\ UNCHANGED <<guiVars, queueVars, eventVars, asker>>

SendEvent ==
    /\ Serves("gui_out")
    /\ IF events = 0 THEN gui_events' = FALSE /\ UNCHANGED events
                     ELSE events' = events - 1 /\ UNCHANGED gui_events
    /\ Served("gui_out")
    /\ UNCHANGED <<guiVars, stopping, queueVars, asker>>

(* ~Client, run at the end of the program, whether run() returned or threw.*)
Join ==
    /\ main \in {"exit", "failed"} /\ asker = "ended"
    /\ main' = "ended"
    /\ UNCHANGED <<guiVars, stopping, queueVars, eventVars, revents, asker>>

Main ==
    \/ Poll \/ NothingReady \/ \E ready \in SUBSET revents : Ready(ready)
    \/ ReceiveMessage \/ SendMessage \/ ReadKeys \/ GuiLost \/ SendEvent
    \/ Join

-----------------------------------------------------------------------------
(* The environment: keys, and SIGINT.                                      *)
Gone == main \in {"ended", "crashed"}

Press(l) ==
    /\ ~Gone
    /\ Write(l)
    /\ UNCHANGED <<stopping, queueVars, eventVars, main, revents, asker>>

Interrupt ==
    /\ ~Gone /\ ~stopping
    /\ stopping' = TRUE
    /\ UNCHANGED <<guiVars, queueVars, eventVars, main, revents, asker>>

(* run() asks once before it starts client_thread.                         *)
Init ==
    /\ GuiInit
    /\ stopping = FALSE
    /\ messages = <<"NONE">> /\ server_events = TRUE
    /\ told = "NONE" /\ owed = 1
    /\ events = 0 /\ gui_events = FALSE
    /\ main = "run" /\ revents = {} /\ asker = "loop"

Next ==
    \/ ~Gone /\ (Main \/ Asker)
    \/ \E l \in NextKeys : Press(l)
    \/ Interrupt

Spec == Init /\ [][Next]_vars

(* Both threads run; the socket becomes writable and takes a datagram      *)
(* again and again.                                                        *)
Fairness ==
    /\ WF_vars(~Gone /\ Main) /\ WF_vars(~Gone /\ Asker)
    /\ SF_vars(\E ready \in SUBSET revents : "server_out" \in ready /\ Ready(ready))
    /\ SF_vars(CanSend) /\ SF_vars(SendFront)

LiveSpec == Spec /\ Fairness
=============================================================================
