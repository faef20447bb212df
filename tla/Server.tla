------------------------------- MODULE Server -------------------------------
(***************************************************************************)
(* Who is connected, and the locks: Server::run, receive_message,          *)
(* on_action, on_connect, on_event and on_disconnect (server/server.cc)    *)
(* with Connections (server/connections.cc) and what they call in Game.    *)
(*                                                                         *)
(* A definition whose name no action uses is the mistaken form of the one  *)
(* that follows it; PROJECT.json says which property tells them apart.     *)
(*                                                                         *)
(* Two threads run: "net" in Server::run, "loop" in the game_loop() of the *)
(* game being played.  Each has a call stack, its innermost call first,    *)
(* because the calls nest across the classes and lock on their way:        *)
(* Connections::cleanup_inactive calls Game::remove_player, which may      *)
(* start a game, whose events make Server::on_event call cleanup_inactive. *)
(* A step ends where the next mutex is taken or a call returns.            *)
(* events_mutex and messages_mutex are taken last and are not kept: they   *)
(* need no state.  A game is only its players, who is ready, and whether   *)
(* it runs; module Game has the rest, module Delivery the datagrams.       *)
(***************************************************************************)
EXTENDS Naturals, FiniteSets, Sequences

CONSTANTS
    Addresses,  \* sockets that clients send from
    Names,      \* names of players
    OBSERVER,   \* the empty name
    MaxSession, \* bound: session ids
    NOBODY,     \* a mutex that is free
    Sends,      \* the ClientMessages that clients send
    Quiet       \* TRUE: no call of the network thread into Game falls
                \* between `running = false` and the exit of that game's
                \* thread.  The code does not ensure it.  If FALSE, a start
                \* may find that thread still there: it stays, and is the
                \* one followed (bound: one of the two that play then)

ASSUME ObserverAssumption == OBSERVER \notin Names
ASSUME NobodyAssumption == NOBODY \notin {"net", "loop"}
ASSUME QuietAssumption == Quiet \in BOOLEAN

VARIABLES
    clients,           \* Connections::clients; active: is_active(now)
    connections_mutex, \* the thread that holds it, or NOBODY
    players_mutex,     \* the thread that holds it, or NOBODY
    players,           \* Game::players, the names
    ready,             \* the players that are ready
    running,           \* Game::running
    loop,              \* there is a thread in game_loop()
    stack,             \* the calls each thread is in
    message,           \* the ClientMessage the network thread handles
    connecting,        \* TRUE in the on_action that on_connect calls
    crashed            \* std::terminate or undefined behaviour has happened

gameVars == <<players, ready, running, loop>>
netVars  == <<message, connecting>>
vars == <<clients, connections_mutex, players_mutex, gameVars, stack, netVars,
          crashed>>

Threads == {"net", "loop"}
Client  == [address : Addresses, session : 1 .. MaxSession,
            name : Names \cup {OBSERVER}, active : BOOLEAN]
Message == [address : Addresses, session : 1 .. MaxSession,
            name : Names \cup {OBSERVER}, arrow : BOOLEAN]
ASSUME SendsAssumption == Sends \subseteq Message

NoMessage == [address |-> NOBODY, session |-> 0, name |-> OBSERVER,
              arrow |-> FALSE]

-----------------------------------------------------------------------------
(* Call stacks.                                                            *)

Frame(at) == [at |-> at, todo |-> {}]
Inactive == {c \in clients : ~c.active}
Cleanup == [at |-> "cleanup", todo |-> Inactive]

At(t) == IF stack[t] = << >> THEN "idle" ELSE Head(stack[t]).at
Todo(t) == Head(stack[t]).todo

Replace(t, frames) == stack' = [stack EXCEPT ![t] = frames \o Tail(@)]
Goto(t, at) == Replace(t, <<Frame(at)>>)
Call(t, callee, next) == Replace(t, <<callee, Frame(next)>>)
Return(t) == Replace(t, << >>)

(* The locals of a message's handler end with it.                          *)
LocalsKept ==
    IF stack'["net"] = << >> THEN message' = NoMessage /\ connecting' = FALSE
                             ELSE UNCHANGED netVars

Lock(t) == connections_mutex = NOBODY /\ connections_mutex' = t
Unlock == connections_mutex' = NOBODY

-----------------------------------------------------------------------------
(* Game::start, as far as it is in its callers: a game that starts keeps   *)
(* players_mutex and broadcasts its first events (all of them in one       *)
(* call of on_event) before its thread is made.                            *)

MayStartAgain(pl, rd) == Cardinality(pl) >= 2 /\ pl \subseteq rd
MayStart(pl, rd) == ~running /\ Cardinality(pl) >= 2 /\ pl \subseteq rd

StartOr(t, starts, rest) ==
    IF starts
    THEN /\ running' = TRUE /\ players_mutex' = t
         /\ Replace(t, <<Frame("broadcast"), Frame("started")>> \o rest)
    ELSE /\ UNCHANGED <<running, players_mutex>>
         /\ Replace(t, rest)

Started(t) ==
    /\ At(t) = "started"
    /\ loop' = TRUE
    /\ players_mutex' = NOBODY
    /\ Return(t)
    /\ LocalsKept
    /\ UNCHANGED <<clients, connections_mutex, players, ready, running,
                   crashed>>

(* When a thread may call Game's functions on players.                     *)
CallAllowed(t) == Quiet /\ t = "net" => running \/ ~loop

(* Server::on_disconnect of a player, with Game::remove_player.            *)
OnDisconnect(t, nm, rest) ==
    /\ CallAllowed(t)
    /\ players_mutex = NOBODY
    /\ players' = players \ {nm}
    /\ ready' = ready \ {nm}
    /\ StartOr(t, nm \in players /\ MayStart(players', ready'), rest)
    /\ UNCHANGED loop

-----------------------------------------------------------------------------
(* Connections::cleanup_inactive, called with connections_mutex held by    *)
(* all but Server::run.                                                    *)

CleaningUp(t) ==
    \E i \in DOMAIN stack[t] : stack[t][i].at = "cleanup"

DropPlayer(t) ==
    /\ At(t) = "cleanup"
    /\ \E c \in Todo(t) :
          /\ c.name # OBSERVER
          /\ OnDisconnect(t, c.name, <<[Cleanup EXCEPT !.todo = Todo(t) \ {c}]>>)
    /\ LocalsKept
    /\ UNCHANGED <<clients, connections_mutex, crashed>>

DropObserver(t) ==
    /\ At(t) = "cleanup"
    /\ \E c \in Todo(t) :
          /\ c.name = OBSERVER
          /\ Replace(t, <<[Cleanup EXCEPT !.todo = Todo(t) \ {c}]>>)
    /\ LocalsKept
    /\ UNCHANGED <<clients, connections_mutex, players_mutex, gameVars,
                   crashed>>

(* Erasing while the other thread iterates is undefined behaviour.         *)
EndCleanup(t) ==
    /\ At(t) = "cleanup" /\ Todo(t) = {}
    /\ clients' = clients \ Inactive
    /\ crashed' = (Inactive # {} /\ \E u \in Threads \ {t} : CleaningUp(u))
    /\ Return(t)
    /\ LocalsKept
    /\ UNCHANGED <<connections_mutex, players_mutex, gameVars>>

-----------------------------------------------------------------------------
(* The network thread: Server::run.                                        *)

ClientsOf(a) == {c \in clients : c.address = a}

Receive(m) ==
    /\ At("net") = "idle"
    /\ message' = m /\ connecting' = FALSE
    /\ stack' = [stack EXCEPT !["net"] = <<Frame("get_client")>>]
    /\ UNCHANGED <<clients, connections_mutex, players_mutex, gameVars, crashed>>

(* The poll timeout: cleanup_inactive, without connections_mutex.          *)
NothingToDo == << >>
CleanupOnly == <<Cleanup>>

PollTimeout ==
    /\ At("net") = "idle"
    /\ stack' = [stack EXCEPT !["net"] = CleanupOnly]
    /\ LocalsKept
    /\ UNCHANGED <<clients, connections_mutex, players_mutex, gameVars,
                   crashed>>

-----------------------------------------------------------------------------
(* Server::on_action, with Connections::get_client and                     *)
(* Game::player_action.                                                    *)

GetClient ==
    /\ At("net") = "get_client"
    /\ Lock("net")
    /\ Call("net", Cleanup, "found")
    /\ LocalsKept
    /\ UNCHANGED <<clients, players_mutex, gameVars, crashed>>

(* out_of_range: on_connect; inside on_connect, which is noexcept: the end.*)
NotFound ==
    /\ Unlock
    /\ crashed' = connecting
    /\ Goto("net", "connect")

FoundNone ==
    /\ At("net") = "found"
    /\ ClientsOf(message.address) = {}
    /\ NotFound
    /\ LocalsKept
    /\ UNCHANGED <<clients, players_mutex, gameVars>>

FoundNewer(c) ==
    /\ At("net") = "found" /\ c.address = message.address
    /\ c.session > message.session
    /\ Unlock
    /\ Return("net")
    /\ LocalsKept
    /\ UNCHANGED <<clients, players_mutex, gameVars, crashed>>

(* A client with an older session is disconnected ...                      *)
NotTold(c) ==
    /\ Replace("net", <<Frame("erase")>>)
    /\ UNCHANGED <<players_mutex, gameVars>>
Told(c) ==
    IF c.name = OBSERVER
    THEN Replace("net", <<Frame("erase")>>) /\ UNCHANGED <<players_mutex, gameVars>>
    ELSE OnDisconnect("net", c.name, <<Frame("erase")>>)

FoundOlder(c) ==
    /\ At("net") = "found" /\ c.address = message.address
    /\ c.session < message.session
    /\ Told(c)
    /\ LocalsKept
    /\ UNCHANGED <<clients, connections_mutex, crashed>>

(* ... then forgotten.                                                     *)
Erase ==
    /\ At("net") = "erase"
    /\ clients' = clients \ ClientsOf(message.address)
    /\ NotFound
    /\ LocalsKept
    /\ UNCHANGED <<players_mutex, gameVars>>

(* Another name than the connection's is refused, an observer only served. *)
LockKept == UNCHANGED connections_mutex
LockLeft == Unlock

FoundSame(c) ==
    /\ At("net") = "found" /\ c.address = message.address
    /\ c.session = message.session
    /\ clients' = (clients \ {c}) \cup {[c EXCEPT !.active = TRUE]}
    /\ LockLeft
    /\ IF c.name = message.name /\ c.name # OBSERVER
       THEN Goto("net", "act")
       ELSE Return("net")
    /\ LocalsKept
    /\ UNCHANGED <<players_mutex, gameVars, crashed>>

Act ==
    /\ At("net") = "act"
    /\ CallAllowed("net") /\ players_mutex = NOBODY
    /\ LET nm == message.name
           presses == nm \in players /\ ~running /\ message.arrow /\ nm \notin ready
       IN  /\ ready' = IF presses THEN ready \cup {nm} ELSE ready
           /\ StartOr("net", presses /\ MayStart(players, ready'), << >>)
    /\ LocalsKept
    /\ UNCHANGED <<clients, connections_mutex, players, loop, crashed>>

-----------------------------------------------------------------------------
(* Server::on_connect, with Game::add_player and Connections::add_client.  *)

Connect ==
    /\ At("net") = "connect"
    /\ IF message.name = OBSERVER
       THEN Goto("net", "add") /\ UNCHANGED players
       ELSE /\ CallAllowed("net") /\ players_mutex = NOBODY
            /\ players' = players \cup {message.name}
            /\ IF message.name \in players
               THEN Return("net")
               ELSE Goto("net", "add")
    /\ LocalsKept
    /\ UNCHANGED <<clients, connections_mutex, players_mutex, ready, running,
                   loop, crashed>>

Add ==
    /\ At("net") = "add"
    /\ Lock("net")
    /\ Call("net", Cleanup, "push")
    /\ LocalsKept
    /\ UNCHANGED <<clients, players_mutex, gameVars, crashed>>

Push ==
    /\ At("net") = "push"
    /\ clients' = clients \cup
          {[address |-> message.address, session |-> message.session,
            name |-> message.name, active |-> TRUE]}
    /\ Unlock
    /\ connecting' = TRUE
    /\ Goto("net", "get_client")
    /\ UNCHANGED <<players_mutex, gameVars, message, crashed>>

-----------------------------------------------------------------------------
(* Server::on_event, called by a game that starts or by the game's thread. *)

Broadcast(t) ==
    /\ At(t) = "broadcast"
    /\ Lock(t)
    /\ Call(t, Cleanup, "sent")
    /\ LocalsKept
    /\ UNCHANGED <<clients, players_mutex, gameVars, crashed>>

Sent(t) ==
    /\ At(t) = "sent"
    /\ Unlock
    /\ Return(t)
    /\ LocalsKept
    /\ UNCHANGED <<clients, players_mutex, gameVars, crashed>>

(* The game's thread has an event, perhaps the last one ...                *)
LoopEvent ==
    /\ loop /\ At("loop") = "idle"
    /\ \E after \in {<< >>, <<Frame("over")>>} :
          stack' = [stack EXCEPT !["loop"] = <<Frame("broadcast")>> \o after]
    /\ LocalsKept
    /\ UNCHANGED <<clients, connections_mutex, players_mutex, gameVars,
                   crashed>>

(* ... after which it stops the game ...                                   *)
Over ==
    /\ At("loop") = "over"
    /\ running' = FALSE
    /\ Goto("loop", "initialize")
    /\ LocalsKept
    /\ UNCHANGED <<clients, connections_mutex, players_mutex, players, ready,
                   loop, crashed>>

(* ... resets the players, without players_mutex ...                       *)
Initialize ==
    /\ At("loop") = "initialize"
    /\ ready' = {}
    /\ Goto("loop", "leave")
    /\ LocalsKept
    /\ UNCHANGED <<clients, connections_mutex, players_mutex, players,
                   running, loop, crashed>>

(* ... sleeps, and leaves unless running has been set again.               *)
Leave ==
    /\ At("loop") = "leave"
    /\ loop' = running
    /\ Return("loop")
    /\ LocalsKept
    /\ UNCHANGED <<clients, connections_mutex, players_mutex, players, ready,
                   running, crashed>>

Ending == Over \/ Initialize \/ Leave

-----------------------------------------------------------------------------
(* Time: a client has not been heard for TIMEOUT.  A call in Connections   *)
(* uses one `now`, and a message is handled in less than TIMEOUT.          *)
FallSilent(c) ==
    /\ c.active
    /\ \A t \in Threads : ~CleaningUp(t)
    /\ c.address # message.address
    /\ clients' = (clients \ {c}) \cup {[c EXCEPT !.active = FALSE]}
    /\ UNCHANGED <<connections_mutex, players_mutex, gameVars, stack, netVars,
                   crashed>>

Init ==
    /\ clients = {}
    /\ connections_mutex = NOBODY /\ players_mutex = NOBODY
    /\ players = {} /\ ready = {} /\ running = FALSE /\ loop = FALSE
    /\ stack = [t \in Threads |-> << >>]
    /\ message = NoMessage /\ connecting = FALSE /\ crashed = FALSE

Work(t) ==
    \/ DropPlayer(t) \/ DropObserver(t) \/ EndCleanup(t)
    \/ Broadcast(t) \/ Sent(t) \/ Started(t)

Handle ==
    \/ GetClient \/ FoundNone \/ Erase \/ Act \/ Connect \/ Add \/ Push
    \/ \E c \in clients : FoundNewer(c) \/ FoundOlder(c) \/ FoundSame(c)

Poll == (\E m \in Sends : Receive(m)) \/ PollTimeout

Next ==
    /\ ~crashed
    /\ \/ Poll \/ Handle \/ LoopEvent \/ Ending
       \/ \E t \in Threads : Work(t)
       \/ \E c \in clients : FallSilent(c)

Spec == Init /\ [][Next]_vars

(* A thread that can run does; poll times out when nobody sends; a game    *)
(* has events until it is over; and a mutex that is free again and again   *)
(* is got, because the game's thread sleeps between two rounds.            *)
Fairness ==
    /\ WF_vars(~crashed /\ PollTimeout) /\ WF_vars(~crashed /\ LoopEvent)
    /\ WF_vars(~crashed /\ Ending)
    /\ SF_vars(~crashed /\ Handle)
    /\ \A t \in Threads : SF_vars(~crashed /\ Work(t))

LiveSpec == Spec /\ Fairness
=============================================================================
