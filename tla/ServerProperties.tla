-------------------------- MODULE ServerProperties --------------------------
(***************************************************************************)
(* What module Server promises about connections and locks.                *)
(***************************************************************************)
EXTENDS Server

(* Between two messages, and outside cleanups, the players of the game are *)
(* exactly the named connections, each name connected once, and only they  *)
(* are ready: no player is left behind in the game without a connection    *)
(* (the game could not start again), and no connection without a player.   *)
Calm == At("net") = "idle" /\ \A t \in Threads : ~CleaningUp(t)

RosterMatches ==
    Calm /\ ~crashed =>
        LET named == {c \in clients : c.name # OBSERVER}
        IN  /\ {c.name : c \in named} = players
            /\ ready \subseteq players
            /\ \A c, d \in named : c.name = d.name => c = d
            /\ \A c, d \in clients : c.address = d.address => c = d

(* The two threads never wait for each other's mutexes: the locks are taken*)
(* in both orders, players_mutex first by a game that starts, and          *)
(* connections_mutex first by a cleanup, but never by two threads at once. *)
(* That takes Quiet: without it, an old thread that plays on, because a    *)
(* start has set `running` again, cleans up while the start broadcasts.    *)
WantsConnections(t) == At(t) \in {"get_client", "add", "broadcast"}
WantsPlayers(t) ==
    \/ At(t) \in {"act", "connect"}
    \/ At(t) = "cleanup" /\ \E c \in Todo(t) : c.name # OBSERVER

WaitsFor(t, u) ==
    \/ WantsConnections(t) /\ connections_mutex = u
    \/ WantsPlayers(t) /\ players_mutex = u

NoLockCycle == ~(WaitsFor("net", "loop") /\ WaitsFor("loop", "net"))

(* The network thread comes back to its poll again and again, so that      *)
(* clients are served always (README.md:102), unless it locks itself out or*)
(* two cleanups meet.  It locks itself out only when a call of its needs a *)
(* mutex that a call around it holds: a start inside get_client, add_client*)
(* or the replacing of a session needs connections_mutex; the departure of *)
(* a player inside a start needs players_mutex.  Whatever else it waits    *)
(* for, it gets: no lock is left behind, no thread keeps it out.           *)
Around(t, places) ==
    \E i \in DOMAIN stack[t] : i > 1 /\ stack[t][i].at \in places

LockedOut ==
    \/ crashed
    \/ At("net") = "broadcast" /\ Around("net", {"found", "erase", "push"})
    \/ /\ At("net") = "cleanup" /\ Around("net", {"started"})
       /\ \E c \in Todo("net") : c.name # OBSERVER

AlwaysServes == []<>(At("net") = "idle") \/ <>LockedOut

(* A client that is not heard for two seconds is disconnected              *)
(* (README.md:231), also when nobody else sends anything, with the same    *)
(* two exceptions.                                                         *)
SilentAt(a) == \E c \in ClientsOf(a) : ~c.active
SilentAreDropped ==
    \A a \in Addresses : SilentAt(a) ~> ~SilentAt(a) \/ LockedOut

(* An event that appears is sent to the clients (README.md:125): the thread*)
(* that has it does not hold the mutex it needs to look them up.           *)
EventsCanBeSent ==
    \A t \in Threads : ~(At(t) = "broadcast" /\ connections_mutex = t)
=============================================================================
