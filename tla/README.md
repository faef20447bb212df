# A verification of siktacka

siktacka is a networked "Netacka": a UDP game server, and a client that stands
between the server and a GUI. Players' snakes leave a trail on a board of
pixels; whoever runs into a trail or off the board is out. These TLA+ modules
model its C++ sources (paths below are under `src/src/`, `README.md` alone is
the repository's own specification of the game). TLC checks the models on small
instances, TLAPS proves the safety properties for all of them.

    tlc -config GameStart.cfg MCGame.tla      # any run of the table below
    tlapm GameProofs.tla                      # any of the eight *Proofs modules

`PROJECT.json` maps every definition to the lines it models and lists the
hazards each property is for.

## 1. The system

| part | source | state | operations | who calls it |
|---|---|---|---|---|
| Game | `siktacka/game.cc` | players, ready count, snakes, board, `running`, event and game number | `add_player`, `player_action`, `remove_player`, `start`/`new_game`; `game_loop`, `do_frame`, `initialize` | network thread (under `players_mutex`); one detached thread per game (under no lock) |
| Board, Snake, Random | `siktacka/*.cc` | occupied pixels; position, angle, direction, alive; last number | `is_empty`, `mark_occupied`, `move`, `turn`, `die`, `next` | Game |
| Event store | `server/events.cc` | the events of the current game | `add_event`, `get_events`, `clear` | Server, under `events_mutex` |
| Server | `server/server.cc` | the parts above, `stopping` | `run`, `receive_message`, `on_action`, `on_connect`, `make_message`; callbacks `on_event`, `on_disconnect` | network thread; `on_event` also by the game's thread |
| Connections | `server/connections.cc` | clients: address, session, name, time of last message | `get_client`, `add_client`, `get_connected_clients`, `cleanup_inactive` | Server, mostly under `connections_mutex`; calls back `on_disconnect` |
| Send buffer | `server/buffer.cc`, `network/poll.h` | queued messages, the current one and its recipients left, the poll mask | `add_message`, `can_send_message`, `send_message` | both threads add, the network thread sends |
| Protocol and events | `siktacka/protocol`, `siktacka/events` | lengths and contents of records and datagrams | packing, parsing, validation | Server, Client |
| Client | `client/client.cc` | `game_id`, `event_no`, players and board size, queues to the server and to the GUI | `run`, `add_server_message`, `receive_message`, `send_message`, `send_event` | main thread; a second thread asks every 20 ms |
| GuiClient | `client/gui_client.cc` | a 64-byte buffer, the direction | `receive_event`, `get_direction`, `send_event` | main thread; `get_direction` also by the other |

What is hard about it:

* **Interleaving.** The game's thread changes Game's members without a lock
  while the network thread changes them under one.
* **Nested locks.** A cleanup of connections can remove a player, which can
  start a game, which broadcasts events, which looks up connections.
* **Long protocols.** Readiness is kept in a counter *and* in flags over join,
  arrow, leave, rejoin, reconnect with a newer session, and the end of a game.
* **Unreliable delivery.** Datagrams are lost, repeated and late; broadcasts
  overtake replies; the client has only `game_id` and `event_no` to put things
  in order.
* **A shared queue and shared poll masks** in the client, locked in some places
  and not in others.
* **Limits.** Datagrams of 512 bytes, a key buffer of 64, an 8-bit counter.

What makes each part correct is stated by the properties of its module, named
in section 3; `PROJECT.json` "hazards" has what each of them is aimed at.

## 2. Modules

A module `X` models a part, `XProperties` states what it promises where that is
more than a page, `MCX` gives TLC an instance, `XProofs` holds proofs. In every
module a few definitions are used by no action: each is the mistaken form of
the definition that follows it (a dropped guard, a missing reset), and
`PROJECT.json` "mutants" says which property would notice it in the other's
place.

| module | models | correspondence |
|---|---|---|
| `Random` | the generator | `Drawn[k]` is what the k-th call from now returns; modulus and multiplier are constants. |
| `Game` (extends `Random`) | Game, Board, Snake, the stored events | One action per call of the network thread (`AddPlayer`, `StartingAction`, `RunningAction`, `RemovePlayer`), which `players_mutex` makes atomic; `start()` is cut in two (`starting`), the decision and `NewGame`. The thread of a game is the actions of `Loop`, one per access to a shared member that another thread could come between; `pc[l]` is where it is. |
| `Delivery` | on_event, make_message, UDP, receive_message | A datagram is a run of event numbers with the id in its header and the game it is really from. Storing and announcing are two steps, a reply is read id, copy events, send datagrams. |
| `Feed` | (abstract) README.md:30-31 | What the GUI may get: each event right after the one before it. `Delivery` implements it. |
| `Server` | Server, Connections, calls into Game | Each thread has a stack of calls; a step ends where the next mutex is taken or a call returns. Game is only who plays, who is ready and whether it runs. A game's thread ends as in `Game`: it clears `running` (`Over`), resets the players (`Initialize`), sleeps and looks at `running` again (`Leave`); one such thread is followed. |
| `SendQueue` | add_message to sendto | `mask` is what the poll being waited for was asked for, `events` what the next one will be asked for. |
| `Packing` | EventNewGame::add_player, ServerMessage::add_event, make_message's loop | Events are their lengths; `message` is the ServerMessage being filled, its events and its `message_len`. |
| `Receive` | ServerMessage's and EventFactory's parsing, receive_message, validation | A datagram is a run of records of which the first few are undamaged, and perhaps one that no game has. A record of unknown type is skipped by a step of the loop (`SkipUnknown`). |
| `GuiClient` | GuiClient::receive_event | Bytes are positions in the GUI's stream; a step reads any number of them. It has no Next of its own: `Client` runs it. |
| `Client` (extends `GuiClient`) | Client::run, add_server_message, send_message, send_event, receive_message as far as threads see it, the destructor | `main` and `asker` are where the two threads are; `asker = "push"` holds messages_mutex; `revents` is what the poll asked for, then what is left to serve; `front` and `pop` are steps outside the lock, and one of them next to a push may end in `"crashed"`. A way out of run() goes to `"exit"`, one that does not set `stopping` and is not meant to stop the asker to `"failed"`. |
| `Keys` | (abstract) README.md:348-353 | Lines are handled one at a time, in order. `Client` implements it. |

Each part is modelled on its own with the others reduced to what it sees of
them: `Server` has no board, `Delivery` no names, `Receive` no network but "any
datagram". A model of all would not be checkable, and its parts meet in few
places: Game meets the rest in the store, of which `StoreIndexIsEventNo` is what
`Delivery` takes for granted (event n is the n-th), and in the ids, which
`Delivery` takes to be fresh and `IdsTellGamesApart` shows to be; `Delivery`
takes from `Packing` that a reply is split without loss (`NothingLost`), and from
`SendQueue` nothing, because UDP may lose and repeat anyway.

## 3. Runs

| run | instance | checks |
|---|---|---|
| `game_start` | 3 names of which 2 fit NEW_GAME, 2x1 board, 2 threads | `TypeOK`, `AtMostOneLoop`, `RunningHasLoop`, `ReadyCountExact`, `NoMissedStart`, `StartNeedsAllReady`, `InGameIsInRoster`, `StoreIndexIsEventNo`, `IdsTellGamesApart` |
| `game_rounds` | 2 names, 3x1 board, fair | `AliveCountExact`, `BoardIsStored`, `EliminationIsFinal`, `GameEnds` |
| `delivery` | 2 games of 3 events, 2 to a datagram, 2 in flight, no reordering, fair | `EventNoIsNext`, `DatagramsAreTrue`, `TakesOwnGame`, `ImplementsFeed`, `CatchesUp` |
| `server_safe` | 3 sockets, 3 names, 2 sessions | `RosterMatches`, `NoLockCycle` |
| `server_live` | 3 sockets, 3 names, 2 sessions for one socket, fair | `AlwaysServes`, `SilentAreDropped` |
| `send_queue` | 2 clients, 3 messages to any of them, fair | `EachGetsAllInOrder`, `NoLostWakeup`, `AllIsSent` |
| `client` | 3 key lines, a buffer of 6 bytes, 2 messages and 1 event queued, fair | `TypeOK`, `AlwaysRoom`, `EachIsSentOnce`, `NoLostWakeup`, `ImplementsKeys`, `HeldIsTold`, `Exits` |
| `packing` | datagrams of 70 bytes, names of 20, 20 and 15, 8 events | `NothingLost`, `DatagramsFit`, `FullButLast`, `ReplyEnds` |
| `receive` | 2 games with other players on other boards, 5 kinds of nonsense, fair | `ShownUnderItsName`, `ShownMakesSense`, `StopsOnNonsenseOnly`, `AllAreShown` |
| `game_two_loops` | as above, 2 names, `Quiet = FALSE` | finds `AtMostOneLoop` violated |
| `server_hangs` | 3 sockets, 3 names, 1 session | finds `EventsCanBeSent` violated |
| `delivery_late` | as `delivery`, with reordering | finds `ImplementsFeed` violated |

The last three are disagreements of the code with its documentation:

* **Two threads play one game.** A game ends with `running = false`
  (game.cc:115), then `initialize()`, then a sleep; only then the thread looks at
  `running` again (game.cc:203). Should all players be ready by then, a new game
  sets `running`, makes its own thread, and the old one stays.
* **The server locks itself out.** Two ready players and a third who never
  presses an arrow and falls silent: the next message locks
  `connections_mutex`, the cleanup removes the third, the game starts, and its
  first event wants `connections_mutex` (server.cc:75).
* **An old game is shown again.** The client takes every other `game_id` for a
  newer one (client.cc:164-167).

### Bounds, and why they are enough

* *Game.* Three names are what it takes to have one who does not fit NEW_GAME
  and two who play; two names suffice on the board, where every snake only meets
  "occupied" and "outside". A board of three pixels has moves that live, that
  collide and that leave. Two threads are what it takes to be too many.
  `CountMod` stands for 2^8 and is larger than the number of names. The
  generator is modulo 7 with multiplier 3, which is a primitive root of 7 as the
  code's is of its modulus: all six numbers other than 0 come, and the next
  game of two players is seven draws, so one place, further on. The state space
  is closed under it: games follow each other without end. `game_rounds` has
  one thread: under Quiet there is no second (`game_start`).
* *Delivery.* Two games make one old and one new; three events with two to a
  datagram make a reply of more than one datagram that overlaps with broadcasts;
  `MaxShown` bounds the events shown and is above what two games have.
* *Server.* Three sockets and names allow two ready players and a third that
  leaves; two sessions a reconnection. Symmetric in both; not in `server_live`,
  where liveness needs a smaller instance: two clients keep to one session and a
  name each (one of them may watch instead), the third may return with a newer
  session or another's name, and never presses an arrow (`MCMessages`). So games
  begin because a player leaves as well as by an arrow, inside and outside
  `connections_mutex`, and all ways to lock oneself out are in the instance.
* *SendQueue.* Two clients and three messages: one in hand, one queued, one
  arriving; recipients in any order or none.
* *Client.* The lengths of lines are the code's divided by 5, and the buffer is
  as short as the code's assumption (a line fits with a byte to spare) allows
  to be overrun by three lines, which a read may cut or join at any byte. Two
  messages are what it takes for a push next to a pop; one event fills the
  GUI's queue and empties it.
* *Packing.* The record lengths are the code's, `MaxDataLen` is scaled from 508
  to 70 so that three or more datagrams occur; the third name misses by one
  byte.
* *Receive.* The second game has fewer players and a smaller board, so every
  stale value shows. The board has one dimension: the code treats x and y alike.
  `MaxShown` stops further changes of the game after five events.

### Fairness and other assumptions

* `Game`: threads that can run do; `NewGame` ends. A snake that may move for
  ever does enter new pixels (strong fairness of `MoveSnake`): the model lets a
  snake stay within a pixel, which the real one, moving by one unit, does for
  ever only if it turns on the spot.
* `Delivery`: threads go on; the client asks every 20 ms, and of what it asks
  and what it could use of the answers not everything is lost. Nothing makes
  games begin, go on or end: `CatchesUp` is about a game that is being played
  for ever after, and a client that has heard of it. A game's id is fresh: `Game`
  shows that it differs from the id of the game before (for a seed other than
  0), and it comes again only after the generator's period. What it then gets is
  all: from some time on the last event of that game's that the GUI was shown is
  the last one stored.
* `Server`: poll times out if nobody sends; a game has events until it is over;
  a mutex that is free again and again is got (the game's thread sleeps between
  rounds). A handler takes less than the two seconds of TIMEOUT. The events of a
  start are one call of `on_event`. `AlwaysServes` and `SilentAreDropped` name
  what they cannot promise (`LockedOut`): the network thread needs a mutex that a
  call around it holds (a start inside get_client, add_client or the replacing
  of a session needs `connections_mutex`; the departure of a player inside a
  start needs `players_mutex`), of which `server_hangs` shows one, or two
  cleanups meet (`crashed`, below). That nothing else stops it, no lock left
  behind and no other thread, is what they say: waiting for the other thread is
  not excused. All three `server_*` runs are under Quiet.
* `SendQueue`: poll returns, and the socket becomes writable and takes a
  datagram again and again.
* `Packing`: the reply loop runs.
* `Receive`: the server answers what is asked and, again and again, the first
  record of an answer arrives undamaged.
* `Client`: both threads run; the server's socket becomes writable and takes a
  datagram again and again. The GUI does not repeat a line for a key that has
  not changed, and `HeldIsTold` is about a player who no longer changes keys:
  the lines of an instance are finite.
* Deadlock is checked except in `server_*` (a locked-out server; a server that
  has crashed), `client` (the process has ended) and `receive` (a client
  stopped by nonsense): there the program may really stop. The runs that expect
  a violation do not ask.

**Quiet.** `Game` and `Server` have a constant `Quiet`. If TRUE, no call of the
network thread into Game falls between `running = false` and the exit of that
game's thread: a window of at most one round, but one the code does not close.
All of `game_start`, `game_rounds` and `server_*` is under Quiet, `game_two_loops`
is not. `TypeOK`, `RunningHasLoop` and `AliveCountExact` are proved without it.
Quiet therefore hides what a second thread would do, and the properties checked
under it do not speak of that: in `Game` it is what `game_two_loops` shows, and in
`Server` a lock cycle, which is the first item of the next list. `Server` follows
one thread of a game; with `Quiet = FALSE` a start that finds the old one leaves
it there and follows it, so the roster properties, which hold then too in the
instance of `server_safe`, are claimed and proved under Quiet only.

### Other disagreements met, not shown by a run

* In the window that Quiet excludes the two threads can wait for each other: a
  game starts while the old thread is on its way out, which finds `running` set
  and plays on; its next broadcast takes `connections_mutex` and, in the
  cleanup, waits for `players_mutex` (server.cc:75, game.cc:81), which the network
  thread keeps during the start while it waits for `connections_mutex`
  (game.cc:163). `ServerSafe.cfg` with `Quiet = FALSE` finds `NoLockCycle` violated
  so, in some fifty steps.
* The game ends one round after only one snake is left (game.cc:113), not "the
  moment" (README.md:303).
* A finished game is not served any more: GAME_OVER empties the store
  (server.cc:62-63; README.md:306-307), and a client that missed GAME_OVER or
  the last events never gets them.
* Arrows that arrive in the window that Quiet excludes are forgotten by
  `initialize()` (README.md:309-311); with `running` false and the players not
  yet reset, a ready flag can also be set in vain.
* An error of recvfrom (receiver.cc:21) leaves the client's run() without
  `stopping`: the destructor then joins a thread that goes on for ever
  (client.cc:44), where README.md:371-373 wants an exit. In `Client` this is
  `main = "failed"`, of which `Exits` does not speak. The server has the same
  exception and ends (server.cc:123; README.md:375-379).
* `front()` and `pop()` of the queue to the server are outside its mutex
  (client.cc:204-205): next to a push this is undefined behaviour (`"crashed"`).
* A message pushed while poll waits without POLLOUT is noticed at the end of
  that poll, up to 40 ms later (client.cc:85, 100; README.md:100). The mean rate
  is kept, as README.md:400-403 asks.
* A client whose player name is not allowed ends in std::terminate, because the
  throw is inside a noexcept function (client.cc:147-150).
* A SIGINT before the server's run() has cleared `stopping` is forgotten
  (server.cc:31).
* `make_snake(rand(), rand(), rand())` leaves the order of the three draws to
  the compiler (game.cc:170-176); README.md:254-263 fixes it. `Game` begins
  with every order.
* With 256 ready players the 8-bit `players_ready_count` wraps (game.h:55).
* `event_no` restarts at 1 from `initialize()` while NEW_GAME has number 0
  (game.cc:30, 139): right, but only because the store is emptied before.
* A reply cut in several datagrams by the end of a game carries the next game's
  id in the later ones (server.cc:160; README.md:135-136). No client of this
  repository takes them (`TakesOwnGame`).
* After seed 0 all games have the id 0 (random.cc:11).
* `cleanup_inactive` on a poll timeout runs without `connections_mutex`
  (server.cc:37): together with the game's thread it erases what the other
  iterates (README.md:375-377). `Server` sets `crashed` there; it is reachable,
  `RosterMatches` speaks of executions up to that point, `AlwaysServes` and
  `SilentAreDropped` excuse it.
* A NEW_GAME event can be 8 bytes too long for a datagram
  (event_new_game.cc:40; README.md:128-129).
* When both arrows are held and the later one goes up, the direction is NONE
  (gui_client.cc:82-86; README.md:104-105).
* A line read together with an earlier one waits for the next read
  (gui_client.cc:53-61).
* A record of an unknown type is left out but never counted, so the client
  stays before it (client.cc:170-190; README.md:369).
* Coordinates between -1 and 0 are cast to 0 (snake.cc:11-17; README.md:211).

## 4. Proofs

Eight modules hold the proofs, checked by tlapm to the last leaf. A theorem is
about the specification without fairness and all values of the constants that
satisfy the assumptions in the modules it extends. Every state property and
every refinement that a run checks is a theorem, but for `AtMostOneLoop`, which
`Quiet` amounts to; what else is not is listed at the end. `PROJECT.json` "theorems" says which theorem is for which property.

| module | theorems | hypotheses |
|---|---|---|
| `GameProofs` | `TypeCorrect`, `RunningGameHasLoop` | none |
| | `CountIsExact`, `NoStartIsMissed`, `StartsWhenAllReady` | `Quiet`, `CounterIsWide` |
| `GamePlayProofs` | `AliveCount` | none |
| | `StoreIsIndexed`, `PlayersOwnTheirSnakes`, `StoreIsTheBoard`, `EliminatedOnce` | `Quiet` |
| | `IdsDiffer` | `Quiet`, `OrbitIsLong(Good)` |
| `DeliveryProofs` | `DatagramsCarryEvents` | none |
| | `AsksForTheNext`, `TakesItsOwnGame`, `DeliveryImplementsFeed` | `Ordered` |
| `ServerProofs` | `CallsNest`, `ThreadsDoNotBlock`, `RosterIsTracked`, `PlayersAreConnected` | `Quiet` |
| `SendQueueProofs` | `NoWakeupIsLost`, `AllInOrder` | none |
| `PackingProofs` | `PackingInvariant`, `ReplyIsComplete`, `DatagramsAreShort`, `DatagramsAreFull` | `[]NewGameFits` |
| `ReceiveProofs` | `ShownSense` | none |
| | `OwnNames`, `NoEventIsRefused` | `KeepsToGames`, `BeginsNothing` |
| `ClientProofs` | `ClientInvariant`, `TypeCorrect`, `BufferHasRoom`, `KeysInOrder`, `MessagesSentOnce`, `WaitingIsPolledFor` | none |

The hypotheses are what the runs assume too:

* `Quiet` (section 3): without it `game_two_loops` refutes `AtMostOneLoop`, on
  which the theorems of `GamePlayProofs` rest, and `NoLockCycle` fails. That one
  thread is in game_loop() is an assumption about the code, not a result: it is
  a lemma of these proofs and not listed as a theorem.
* `CounterIsWide`: there are fewer names than `players_ready_count` has values;
  with as many, eight bits wrap and a start is missed (section 3).
* `OrbitIsLong(Good)`: `Good` has the seeds and what follows each of its numbers,
  and 1, 4, ... 3 * `MaxInGame` + 1 draws do not lead from a number in it back to
  that number. In the instance `Good` is 1..6. In the code it is the numbers that
  are no multiples of RANDOM_MOD (4294967291, a prime): no power of RANDOM_MUL up
  to the 200000th is 1 modulo it, and a game has fewer than 512 snakes, as NEW_GAME
  has a datagram to name them in. Seed 0 is not in such a set (section 3).
* `Ordered`: the network does not reorder; `delivery_late` is the other case.
* `NewGameFits`: the NEW_GAME event is no longer than a datagram, a condition on
  the names that add_player, which forgets 8 bytes, does not ensure (section 3).
  It is on the behaviour (`Spec /\ []NewGameFits`), because which names get into
  the event is decided there.
* `KeepsToGames`, `BeginsNothing`: of the data of an instance: a server's events
  are of players and on the board of their own game, as `new_game` and
  `place_player` make them, and the nonsense it may also send does not start a
  game. The instance of the run satisfies both.

### The arguments

**Game: threads.** `LoopInvariant`, a lemma of all that is proved under Quiet,
says what Quiet gives: while no game runs and none is being started, a thread
that is left is on its way out, and while a start is under way no thread is in
game_loop(), because a call, which alone can start, needs `running` or that no
thread is left. `RunningGameHasLoop` needs none of it.

**Game: readiness.** `ReadyInv` ties three records of one thing: the count is the
number of ready flags, and the flags are set for those who have `pressed`,
except that the end of a game has cleared one before the other. `NoMissedStart`
is part of the invariant: that the last arrow, or the leaving of the last who
was not ready, starts a game needs that it had not already been time to.

**Game: play.** `PhaseInv` says in which phases of the thread there are events,
and what `event_no` and `in_game` are outside them. With it `StoreIndexIsEventNo`
and `InGameIsInRoster` are inductive (`RosterInv` adds that NEW_GAME has a name
for each snake); that the names are in the order of the numbers is a fact about
counting smaller names, `RosterRanks`. The stored pixels (`BoardIsStored`) and
the final elimination are kept by each step that stores an event; the first
needs that of the heads which start on one pixel exactly the first marks it
(`FirstIsFree`): the least of a non-empty set of numbers, `LeastOf`, found by
taking a least counterexample instead of the library's induction theorems.

**Game: ids.** `IdInv` follows the draws since the id was drawn: one when there are
no snakes, 3n + 1 when n were placed, with n at most `MaxInGame`; and `event_no` = 1
only before they are placed (that `new_game` finds 1 there is `PhaseInv`). `Drawn`
is a recursive function; that there is one with its equations is `DrawOfSteps`,
from finite pieces that agree (`DrawsExist`, `DrawsAgree`).

**Delivery.** `ServerInv` follows events from the store into the reply and the
network: whatever is there is a run of generated events, its header's id is the
game's or the next one's, and in the second case it does not begin with event 0
(a reply that the end of a game cuts in two). `ClientInv` orders the ids: client,
datagrams, the reply being made, server; the order of the network is needed to
keep it, nothing else. From it, taking an event is a step of `Feed`, or leaves
`Feed` alone; so `DeliveryImplementsFeed`.

**Server.** Each thread has a stack of calls. `StackInv` says which call may be on
which; `LockInv` which calls hold `connections_mutex`, at most one of a thread;
`PlayInv` when `players_mutex` is kept: only by a start of a game in the network
thread, when no thread is in game_loop(). That is an invariant under Quiet, and
rests on how a game's thread ends: it outlives `running` only between clearing
it and looking at it again (`Stopping`), where it makes no calls that lock. So
when the game's thread has a call at all the network thread keeps no
`players_mutex` that it could wait for, which is `NoLockCycle`. The code's two
orders of locking are both taken, each by either thread's cleanups and starts;
what keeps them apart is that a start waits for the thread before it, which is
just what Quiet assumes. `RosterMatches` speaks of calm states; in between,
`RosterInv` accounts for the clients that a cleanup has told of but not yet
erased and for the player who is accepted but not yet a client, at every place
of every nesting, and `TodoInv` says that whom a cleanup will tell of is indeed
gone. Both hold up to a crash, `SafeInv` (types, stacks, locks) always.

**SendQueue.** `BufferInv`, `HandInv` and `SentInv` say where each message is for
each of its recipients: in the buffer, in hand, or sent. That a pop passes over
messages to nobody needs the first message with an address, again by a least
element.

**Packing.** `PackInv`: the message and the queue are runs of consecutive events;
`message_len` is the sum of its events' lengths; the datagrams recorded cover the
events before `First` without gap or overlap and each leaves no room for the
next. Sums are a recursive function: `SumsExist` shows that it has a value at
all, `SumsAgree` that it is the same for a sequence and a longer one. There are
never more datagrams than events, so the bound `MaxDatagrams` is not felt.

**Receive.** `NamesInForce` ties players and width to the last NEW_GAME shown,
whatever it was: `ShownSense` needs no good server. `MessageInv` (what is looked
at is of the client's game) and `GameInForce` (a client that has taken an event
has its game's players) add what a good server gives.

**Client.** A step writes a line, reads from the stream, or leaves both alone, and
changes one queue or only the control state, so `Stream` and `Threads` are each
inductive. `AlwaysRoom` alone is not: a read with no newline in the buffer would
fill it. `Stream` adds that the buffer starts where a line starts and that every
line fits with a byte to spare, so that (`NextLine`) there is less than a line
without a newline in it, and a line is taken out with one. For `KeysInOrder`,
`HandledSoFar` counts the lines that end before the buffer's start; a read that
completes a line completes exactly the next, which is a `Handle` of `Keys`, a
line written is a `Press`, and all else leaves `Keys` alone. `EachIsSentOnce` and
`NoLostWakeup` rest on the main thread alone popping: what `CanSend` saw under
the mutex is still there at front() and pop().

### Only model-checked, and why

* All that needs fairness (`GameEnds`, `CatchesUp`, `AlwaysServes`,
  `SilentAreDropped`, `AllIsSent`, `HeldIsTold`, `Exits`, `ReplyEnds`,
  `AllAreShown`): liveness and ENABLED are out of the prover's reach.
* `OrbitIsLong` for the constants of the code: a computation, not an obligation.
* Induction is only by least counterexample, for a set written out in the lemma
  (`LeastOf`, from the well-foundedness of `<`): the library's induction theorems
  take an operator, for which no installed prover can be given one.
* `SelectSeq`, folds and flattening are opaque to the provers; the properties say
  what they mean without them (positions, ranges, a cardinality).

## 5. Not modelled

Sines, angles and floating point of the snakes (a move is to any neighbouring
pixel); byte order, offsets and CRCs, and the refusal of malformed client
datagrams, which leaves the server as it was (a stutter); sockets as such: the
models have their data, would-block and, in `Client`, the errors that end it;
argument parsing and log output; the server's SIGINT and destructor, which does
not wait for the game's thread (game.cc:193); `Poll::remove_descriptor`, which
nobody calls; `tests/`. The reasons are in `PROJECT.json` "components".

## 6. Plan

Done: `Random`, `Game` with its proofs, `Delivery` with `Feed`, `Server`,
`SendQueue`, `Client` with `GuiClient` and `Keys`, `Packing`, `Receive`; the proofs
of all their safety properties and of both refinements.

1. **Extend.**
   * `Snake`: angles as degrees modulo 360 and the truncation of coordinates.
   * `ClientMessage`: which client datagrams are refused, and in `Server` what a
     refusal leaves behind.
   * `Receive` with an unknown record type, and `GuiClient` with the key line
     that comes late.
2. **Prove** what step 1 adds.
