---------------------------- MODULE ServerProofs ----------------------------
(***************************************************************************)
(* Proofs about module Server: the players of the game are those that are  *)
(* connected, and the two threads do not wait for each other.              *)
(***************************************************************************)
EXTENDS ServerProperties, SequenceTheorems, TLAPS

USE ObserverAssumption, NobodyAssumption

(* Which clients and messages there may be plays no part in the proofs.    *)
Places == {"get_client", "found", "erase", "act", "connect", "add", "push",
           "cleanup", "broadcast", "sent", "started", "over", "initialize",
           "leave"}
Sessions == {0} \cup 1 .. MaxSession
Somebody == [address : Addresses \cup {NOBODY}, session : Sessions,
             name : Names \cup {OBSERVER}, active : BOOLEAN]
Something == [address : Addresses \cup {NOBODY}, session : Sessions,
              name : Names \cup {OBSERVER}, arrow : BOOLEAN]
Frames == [at : Places, todo : SUBSET Somebody]

(* Every variable has its type.                                            *)
ServerTypeOK ==
    /\ clients \subseteq Somebody
    /\ connections_mutex \in Threads \cup {NOBODY}
    /\ players_mutex \in Threads \cup {NOBODY}
    /\ players \subseteq Names /\ ready \subseteq Names
    /\ running \in BOOLEAN /\ loop \in BOOLEAN
    /\ stack \in [Threads -> Seq(Frames)]
    /\ message \in Something /\ connecting \in BOOLEAN /\ crashed \in BOOLEAN

-----------------------------------------------------------------------------
(* A stack is its innermost call and the stack below.                      *)
On(x, r) == <<x>> \o r
TopOf(s) == IF s = << >> THEN "none" ELSE s[1].at

(* The calls of a stack s in some place, and what cleanups of s have told  *)
(* of and have yet to tell of.                                             *)
Has(s, P)    == \E i \in DOMAIN s : s[i].at \in P
Once(s, P)   == \A i, j \in DOMAIN s : s[i].at \in P /\ s[j].at \in P => i = j
ToldIn(s, c) == \E i \in DOMAIN s : s[i].at = "cleanup" /\ c \notin s[i].todo
TodoIn(s, c) == \E i \in DOMAIN s : s[i].at = "cleanup" /\ c \in s[i].todo

(* Which call waits for which to return; "none": it is the outermost one.  *)
Calls(t) ==
    IF t = "net"
    THEN {<<"get_client", "none">>, <<"found", "none">>, <<"erase", "none">>,
          <<"act", "none">>, <<"connect", "none">>, <<"add", "none">>,
          <<"push", "none">>, <<"cleanup", "none">>, <<"cleanup", "found">>,
          <<"cleanup", "push">>, <<"cleanup", "sent">>,
          <<"broadcast", "started">>, <<"sent", "started">>,
          <<"started", "none">>, <<"started", "cleanup">>,
          <<"started", "erase">>}
    ELSE {<<"cleanup", "sent">>, <<"broadcast", "none">>,
          <<"broadcast", "over">>, <<"sent", "none">>, <<"sent", "over">>,
          <<"over", "none">>, <<"initialize", "none">>, <<"leave", "none">>}

Stands(t, s) ==
    \A i \in DOMAIN s :
        <<s[i].at, IF i = Len(s) THEN "none" ELSE s[i + 1].at>> \in Calls(t)

StackInv == \A t \in Threads : Stands(t, stack[t])

(* Who is in these places holds connections_mutex, and is so only once.    *)
Holders == {"found", "erase", "push", "sent"}

LockInv ==
    \A t \in Threads :
        Once(stack[t], Holders) /\ (Has(stack[t], Holders) => connections_mutex = t)

(* Only a game that the network thread starts holds players_mutex, and no  *)
(* thread is in game_loop() then: not that of the game before either, which*)
(* outlives `running` until it has looked at it again.                     *)
Starting == {"started"}
Stopping == {"initialize", "leave"}

PlayInv ==
    /\ Once(stack["net"], Starting)
    /\ Has(stack["net"], Starting) => players_mutex = "net"
    /\ players_mutex # "loop"
    /\ players_mutex = "net" => running /\ ~loop
    /\ stack["loop"] # << >> => loop
    /\ loop => running \/ TopOf(stack["loop"]) \in Stopping

-----------------------------------------------------------------------------
(* Whom the cleanups of a stack s have told of, and whom they have yet to  *)
(* tell of.                                                                *)
ToldBy(s) == {c \in Somebody : ToldIn(s, c)}
TodoBy(s) == {c \in Somebody : TodoIn(s, c)}

(* The clients whose player is out of the game already: the cleanup, or the*)
(* message of the client's newer session, will make them be forgotten.     *)
ErasedNow ==
    IF Has(stack["net"], {"erase"}) THEN ClientsOf(message.address) ELSE {}
ToldNow ==
    {c \in Inactive : \E t \in Threads : c \in ToldBy(stack[t])} \cup ErasedNow

(* The name that is in the game already, but not yet a client's.           *)
PendingNow ==
    IF Has(stack["net"], {"add", "push"}) THEN {message.name} \cap Names ELSE {}

(* Who is yet to be told of is inactive, or of no player any more.         *)
TodoInv ==
    \A t \in Threads : \A c \in TodoBy(stack[t]) :
        /\ c.name \notin PendingNow
        /\ c \in Inactive \/ (t = "net" /\ c.name \notin players)

(* How clients cs and players pl, with rd ready, belong together when the  *)
(* clients told and the names pend are between the two.                    *)
Roster(cs, pl, rd, told, pend) ==
    /\ \A c \in cs : c.name = OBSERVER \/ c.name \in pl \/ c \in told
    /\ \A n \in pl : n \in pend \/ \E c \in cs : c.name = n /\ c \notin told
    /\ \A n \in pend : n \in pl /\ \A c \in cs : c.name = n => c \in told
    /\ \A c, d \in cs : c.name = d.name /\ c.name # OBSERVER => c = d
    /\ \A c, d \in cs : c.address = d.address => c = d
    /\ rd \subseteq pl

(* The client that is about to be added has no other connection.           *)
IsNew == Has(stack["net"], {"connect", "add", "push"}) => ClientsOf(message.address) = {}

RosterInv == Roster(clients, players, ready, ToldNow, PendingNow) /\ IsNew

-----------------------------------------------------------------------------
(* Stacks, call by call.                                                   *)
Joined(s, n, x, r) ==
    /\ n = Len(r) /\ n \in Nat /\ s \in Seq(Frames) /\ s # << >>
    /\ Len(s) = n + 1 /\ s[1] = x /\ 1 \in 1 .. n + 1
    /\ DOMAIN s = 1 .. n + 1 /\ DOMAIN r = 1 .. n
    /\ \A i \in 1 .. n : i + 1 \in 1 .. n + 1 /\ i + 1 # 1 /\ s[i + 1] = r[i]
    /\ \A i \in 1 .. n + 1 : i # 1 => i - 1 \in 1 .. n /\ s[i] = r[i - 1]

LEMMA OnJoins ==
  ASSUME NEW x \in Frames, NEW r \in Seq(Frames)
  PROVE  \E s, n : s = On(x, r) /\ Joined(s, n, x, r)
<1>1. PICK n \in Nat : n = Len(r)
  OBVIOUS
<1>2. PICK s : s = On(x, r)
  OBVIOUS
<1>3. s \in Seq(Frames) /\ Len(s) = n + 1 /\ s[1] = x /\ s # << >>
  BY <1>1, <1>2 DEF On
<1>4. \A i \in 1 .. n + 1 : i # 1 => i - 1 \in 1 .. n /\ s[i] = r[i - 1]
  BY <1>1, <1>2 DEF On
<1>5. \A i \in 1 .. n : i + 1 \in 1 .. n + 1 /\ i + 1 # 1 /\ (i + 1) - 1 = i
  BY <1>1
<1>6. \A i \in 1 .. n : s[i + 1] = r[i]
  BY <1>4, <1>5
<1>7. DOMAIN s = 1 .. n + 1 /\ DOMAIN r = 1 .. n /\ 1 \in 1 .. n + 1
  BY <1>1, <1>3
<1>8. Joined(s, n, x, r)
  BY <1>1, <1>3, <1>4, <1>5, <1>6, <1>7 DEF Joined
<1>9. QED  BY <1>2, <1>8

LEMMA HasOn ==
  ASSUME NEW x \in Frames, NEW r \in Seq(Frames), NEW P
  PROVE  Has(On(x, r), P) <=> x.at \in P \/ Has(r, P)
<1>1. PICK s, n : s = On(x, r) /\ Joined(s, n, x, r)
  BY OnJoins
<1>2. ASSUME Has(s, P), x.at \notin P PROVE Has(r, P)
  <2>1. PICK i \in 1 .. n + 1 : s[i].at \in P
    BY <1>1, <1>2 DEF Has, Joined
  <2>2. i # 1
    BY <1>1, <1>2, <2>1 DEF Joined
  <2>3. i - 1 \in 1 .. n /\ s[i] = r[i - 1]
    BY <1>1, <2>2 DEF Joined
  <2>4. QED  BY <1>1, <2>1, <2>3 DEF Has, Joined
<1>3. ASSUME Has(r, P) PROVE Has(s, P)
  <2>1. PICK i \in 1 .. n : r[i].at \in P
    BY <1>1, <1>3 DEF Has, Joined
  <2>2. i + 1 \in 1 .. n + 1 /\ s[i + 1] = r[i]
    BY <1>1, <2>1 DEF Joined
  <2>3. QED  BY <1>1, <2>1, <2>2 DEF Has, Joined
<1>4. x.at \in P => Has(s, P)
  BY <1>1 DEF Has, Joined
<1>5. QED  BY <1>1, <1>2, <1>3, <1>4

LEMMA ToldOn ==
  ASSUME NEW x \in Frames, NEW r \in Seq(Frames), NEW c
  PROVE  ToldIn(On(x, r), c) <=>
            (x.at = "cleanup" /\ c \notin x.todo) \/ ToldIn(r, c)
<1>1. PICK s, n : s = On(x, r) /\ Joined(s, n, x, r)
  BY OnJoins
<1>2. ASSUME ToldIn(s, c), ~(x.at = "cleanup" /\ c \notin x.todo) PROVE ToldIn(r, c)
  <2>1. PICK i \in 1 .. n + 1 : s[i].at = "cleanup" /\ c \notin s[i].todo
    BY <1>1, <1>2 DEF ToldIn, Joined
  <2>2. i # 1
    BY <1>1, <1>2, <2>1 DEF Joined
  <2>3. i - 1 \in 1 .. n /\ s[i] = r[i - 1]
    BY <1>1, <2>2 DEF Joined
  <2>4. QED  BY <1>1, <2>1, <2>3 DEF ToldIn, Joined
<1>3. ASSUME ToldIn(r, c) PROVE ToldIn(s, c)
  <2>1. PICK i \in 1 .. n : r[i].at = "cleanup" /\ c \notin r[i].todo
    BY <1>1, <1>3 DEF ToldIn, Joined
  <2>2. i + 1 \in 1 .. n + 1 /\ s[i + 1] = r[i]
    BY <1>1, <2>1 DEF Joined
  <2>3. QED  BY <1>1, <2>1, <2>2 DEF ToldIn, Joined
<1>4. x.at = "cleanup" /\ c \notin x.todo => ToldIn(s, c)
  BY <1>1 DEF ToldIn, Joined
<1>5. QED  BY <1>1, <1>2, <1>3, <1>4

LEMMA TodoOn ==
  ASSUME NEW x \in Frames, NEW r \in Seq(Frames), NEW c
  PROVE  TodoIn(On(x, r), c) <=>
            (x.at = "cleanup" /\ c \in x.todo) \/ TodoIn(r, c)
<1>1. PICK s, n : s = On(x, r) /\ Joined(s, n, x, r)
  BY OnJoins
<1>2. ASSUME TodoIn(s, c), ~(x.at = "cleanup" /\ c \in x.todo) PROVE TodoIn(r, c)
  <2>1. PICK i \in 1 .. n + 1 : s[i].at = "cleanup" /\ c \in s[i].todo
    BY <1>1, <1>2 DEF TodoIn, Joined
  <2>2. i # 1
    BY <1>1, <1>2, <2>1 DEF Joined
  <2>3. i - 1 \in 1 .. n /\ s[i] = r[i - 1]
    BY <1>1, <2>2 DEF Joined
  <2>4. QED  BY <1>1, <2>1, <2>3 DEF TodoIn, Joined
<1>3. ASSUME TodoIn(r, c) PROVE TodoIn(s, c)
  <2>1. PICK i \in 1 .. n : r[i].at = "cleanup" /\ c \in r[i].todo
    BY <1>1, <1>3 DEF TodoIn, Joined
  <2>2. i + 1 \in 1 .. n + 1 /\ s[i + 1] = r[i]
    BY <1>1, <2>1 DEF Joined
  <2>3. QED  BY <1>1, <2>1, <2>2 DEF TodoIn, Joined
<1>4. x.at = "cleanup" /\ c \in x.todo => TodoIn(s, c)
  BY <1>1 DEF TodoIn, Joined
<1>5. QED  BY <1>1, <1>2, <1>3, <1>4

LEMMA OnceOn ==
  ASSUME NEW x \in Frames, NEW r \in Seq(Frames), NEW P
  PROVE  Once(On(x, r), P) <=> Once(r, P) /\ ~(x.at \in P /\ Has(r, P))
<1>1. PICK s, n : s = On(x, r) /\ Joined(s, n, x, r)
  BY OnJoins
<1>2. ASSUME Once(s, P) PROVE Once(r, P) /\ ~(x.at \in P /\ Has(r, P))
  <2>1. ASSUME NEW i \in 1 .. n, NEW j \in 1 .. n, r[i].at \in P, r[j].at \in P
        PROVE  i = j
    <3>1. i + 1 = j + 1
      BY <1>1, <1>2, <2>1 DEF Once, Joined
    <3>2. QED  BY <3>1
  <2>2. ASSUME NEW i \in 1 .. n, r[i].at \in P, x.at \in P PROVE FALSE
    BY <1>1, <1>2, <2>2 DEF Once, Joined
  <2>3. QED  BY <1>1, <2>1, <2>2 DEF Once, Has, Joined
<1>3. ASSUME Once(r, P), ~(x.at \in P /\ Has(r, P)) PROVE Once(s, P)
  <2>1. ASSUME NEW i \in 1 .. n + 1, NEW j \in 1 .. n + 1,
               s[i].at \in P, s[j].at \in P
        PROVE  i = j
    <3>1. CASE i # 1 /\ j # 1
      <4>1. i - 1 = j - 1
        BY <1>1, <1>3, <2>1, <3>1 DEF Once, Joined
      <4>2. QED  BY <4>1
    <3>2. CASE i # 1 /\ j = 1
      BY <1>1, <1>3, <2>1, <3>2 DEF Has, Joined
    <3>3. CASE i = 1 /\ j # 1
      BY <1>1, <1>3, <2>1, <3>3 DEF Has, Joined
    <3>4. QED  BY <3>1, <3>2, <3>3
  <2>2. QED  BY <1>1, <2>1 DEF Once, Joined
<1>4. QED  BY <1>1, <1>2, <1>3

LEMMA StandsOn ==
  ASSUME NEW x \in Frames, NEW r \in Seq(Frames), NEW t
  PROVE  Stands(t, On(x, r)) <=> Stands(t, r) /\ <<x.at, TopOf(r)>> \in Calls(t)
<1> DEFINE Pair(q, i) == <<q[i].at, IF i = Len(q) THEN "none" ELSE q[i + 1].at>>
<1>1. PICK s, n : s = On(x, r) /\ Joined(s, n, x, r)
  BY OnJoins
<1>2. ASSUME NEW i \in 1 .. n
      PROVE  i + 1 \in 1 .. n + 1 /\ Pair(s, i + 1) = Pair(r, i)
  <2>1. s[i + 1] = r[i] /\ i + 1 \in 1 .. n + 1 /\ Len(s) = n + 1 /\ Len(r) = n
    BY <1>1 DEF Joined
  <2>2. CASE i = n
    BY <2>1, <2>2
  <2>3. CASE i # n
    <3>1. i + 1 \in 1 .. n
      BY <1>1, <2>3 DEF Joined
    <3>2. s[(i + 1) + 1] = r[i + 1]
      BY <1>1, <3>1 DEF Joined
    <3>3. i + 1 # n + 1
      BY <1>1, <2>3 DEF Joined
    <3>4. QED  BY <2>1, <2>3, <3>2, <3>3
  <2>4. QED  BY <2>2, <2>3
<1>3. Pair(s, 1) = <<x.at, TopOf(r)>>
  <2>1. s[1] = x /\ Len(s) = n + 1 /\ Len(r) = n /\ n \in Nat /\ r \in Seq(Frames)
    BY <1>1 DEF Joined
  <2>2. CASE n = 0
    <3>1. r = << >> /\ 1 = n + 1
      BY <2>1, <2>2
    <3>2. QED  BY <2>1, <3>1 DEF TopOf
  <2>3. CASE n # 0
    <3>1. 1 \in 1 .. n /\ r # << >> /\ 1 # n + 1
      BY <2>1, <2>3
    <3>2. s[1 + 1] = r[1]
      BY <1>1, <3>1 DEF Joined
    <3>3. QED  BY <2>1, <3>1, <3>2 DEF TopOf
  <2>4. QED  BY <2>2, <2>3
<1>4. ASSUME NEW i \in 1 .. n + 1, i # 1
      PROVE  i - 1 \in 1 .. n /\ Pair(s, i) = Pair(r, i - 1)
  <2>1. i - 1 \in 1 .. n /\ (i - 1) + 1 = i
    BY <1>1, <1>4 DEF Joined
  <2>2. Pair(s, (i - 1) + 1) = Pair(r, i - 1)
    <3> HIDE DEF Pair
    <3>1. QED  BY <1>2, <2>1
  <2>3. QED  BY <2>1, <2>2
<1>5. Stands(t, s) <=> \A i \in 1 .. n + 1 : Pair(s, i) \in Calls(t)
  BY <1>1 DEF Stands, Joined
<1>6. Stands(t, r) <=> \A i \in 1 .. n : Pair(r, i) \in Calls(t)
  BY <1>1 DEF Stands, Joined
<1> HIDE DEF Pair
<1>7. 1 \in 1 .. n + 1
  BY <1>1 DEF Joined
<1>8. QED  BY <1>1, <1>2, <1>3, <1>4, <1>5, <1>6, <1>7

-----------------------------------------------------------------------------
(* What the steps make of a stack.                                         *)
LEMMA EmptyStack ==
  ASSUME NEW t, NEW P
  PROVE  /\ << >> \in Seq(Frames) /\ ~Has(<< >>, P) /\ Once(<< >>, P)
         /\ Stands(t, << >>) /\ TopOf(<< >>) = "none"
         /\ \A c : ~ToldIn(<< >>, c) /\ ~TodoIn(<< >>, c)
BY DEF Has, Once, Stands, TopOf, ToldIn, TodoIn

LEMMA OnType ==
  ASSUME NEW x \in Frames, NEW r \in Seq(Frames)
  PROVE  On(x, r) \in Seq(Frames) /\ On(x, r) # << >> /\ TopOf(On(x, r)) = x.at
BY OnJoins DEF Joined, TopOf

LEMMA Appended ==
  ASSUME NEW r \in Seq(Frames), NEW x \in Frames, NEW y \in Frames
  PROVE  /\ << >> \o r = r
         /\ <<x>> \o r = On(x, r)
         /\ <<x, y>> \o r = On(x, On(y, r))
<1>1. << >> \o r = r
  OBVIOUS
<1>2. <<x>> \o r = On(x, r)
  BY DEF On
<1>3. ASSUME NEW s \in Seq(Frames) PROVE <<x, y>> \o s = On(x, On(y, s))
  <2>1. <<x, y>> = <<x>> \o <<y>> /\ <<x>> \in Seq(Frames) /\ <<y>> \in Seq(Frames)
    <3>1. PICK v \in Seq(Frames) : v = <<y>> /\ Len(v) = 1 /\ v[1] = y
      <4>1. <<y>> \in Seq(Frames) /\ Len(<<y>>) = 1 /\ <<y>>[1] = y
        OBVIOUS
      <4>2. QED  BY <4>1, Zenon
    <3>2. PICK w, n : w = On(x, v) /\ Joined(w, n, x, v)
      BY OnJoins
    <3>3. PICK z \in Seq(Frames) : z = <<x, y>> /\ Len(z) = 2 /\ z[1] = x /\ z[2] = y
      <4>1. /\ <<x, y>> \in Seq(Frames) /\ Len(<<x, y>>) = 2
            /\ <<x, y>>[1] = x /\ <<x, y>>[2] = y
        OBVIOUS
      <4>2. QED  BY <4>1, Zenon
    <3>4. w \in Seq(Frames) /\ Len(w) = 2 /\ \A i \in 1 .. 2 : w[i] = z[i]
      BY <3>1, <3>2, <3>3 DEF Joined
    <3>5. w = z
      BY <3>3, <3>4, SeqEqual
    <3>6. <<x>> \in Seq(Frames)
      OBVIOUS
    <3>7. QED  BY <3>1, <3>2, <3>3, <3>5, <3>6 DEF On
  <2>2. (<<x>> \o <<y>>) \o s = <<x>> \o (<<y>> \o s)
    BY <2>1, ConcatAssociative
  <2>3. QED  BY <2>1, <2>2 DEF On
<1>4. QED  BY <1>1, <1>2, <1>3

LEMMA PlaceFrames ==
  /\ \A p \in Places : Frame(p) \in Frames /\ Frame(p).at = p /\ Frame(p).todo = {}
  /\ ServerTypeOK => Cleanup \in Frames /\ Cleanup.at = "cleanup" /\ Cleanup.todo = Inactive
BY DEF Frame, Frames, Cleanup, ServerTypeOK, Inactive, Places

LEMMA FewerLeft ==
  ASSUME NEW cs \in SUBSET Somebody, NEW c
  PROVE  \E y \in Frames :
            /\ y = [Cleanup EXCEPT !.todo = cs \ {c}]
            /\ y.at = "cleanup" /\ y.todo = cs \ {c}
<1>1. PICK left \in SUBSET Somebody : left = cs \ {c}
  OBVIOUS
<1>2. [Cleanup EXCEPT !.todo = left] = [at |-> "cleanup", todo |-> left]
  BY DEF Cleanup
<1>3. PICK y : y = [at |-> "cleanup", todo |-> left]
  OBVIOUS
<1>4. y \in Frames /\ y.at = "cleanup" /\ y.todo = left
  BY <1>3 DEF Frames, Places
<1>5. QED  BY <1>1, <1>2, <1>3, <1>4, Zenon

LEMMA TopIs ==
  ASSUME ServerTypeOK, NEW t \in Threads, At(t) # "idle"
  PROVE  \E x \in Frames, r \in Seq(Frames) :
            /\ stack[t] = On(x, r) /\ x.at = At(t) /\ x.todo = Todo(t)
            /\ Tail(stack[t]) = r
<1>1. stack[t] \in Seq(Frames) /\ stack[t] # << >>
  BY DEF ServerTypeOK, At
<1>2. PICK s : s = stack[t]
  OBVIOUS
<1>3. /\ Head(s) \in Frames /\ Tail(s) \in Seq(Frames)
      /\ s = <<Head(s)>> \o Tail(s)
  BY <1>1, <1>2
<1>4. Head(s).at = At(t) /\ Head(s).todo = Todo(t)
  BY <1>1, <1>2 DEF At, Todo
<1>5. QED  BY <1>2, <1>3, <1>4 DEF On

(* stack' differs from stack in what t's stack is.                         *)
Becomes(t, s) == stack' = [stack EXCEPT ![t] = s]

LEMMA BecomesIs ==
  ASSUME ServerTypeOK, NEW t \in Threads, NEW s \in Seq(Frames), Becomes(t, s)
  PROVE  /\ stack' \in [Threads -> Seq(Frames)] /\ stack'[t] = s
         /\ \A u \in Threads \ {t} : stack'[u] = stack[u]
BY DEF Becomes, ServerTypeOK

LEMMA Replaced ==
  ASSUME ServerTypeOK, NEW t \in Threads, NEW x \in Frames, NEW r \in Seq(Frames),
         stack[t] = On(x, r), Tail(stack[t]) = r
  PROVE  /\ Return(t) => Becomes(t, r)
         /\ \A y \in Frames : Replace(t, <<y>>) => Becomes(t, On(y, r))
         /\ \A p \in Places : Goto(t, p) => Becomes(t, On(Frame(p), r))
         /\ \A p \in Places :
               Call(t, Cleanup, p) => Becomes(t, On(Cleanup, On(Frame(p), r)))
         /\ \A q \in Seq(Frames) :
               Replace(t, <<Frame("broadcast"), Frame("started")>> \o q) =>
                  Becomes(t, On(Frame("broadcast"), On(Frame("started"), q \o r)))
<1>1. \A f : Replace(t, f) => Becomes(t, f \o r)
  BY DEF Replace, Becomes, ServerTypeOK
<1>2. Return(t) => Becomes(t, r)
  BY <1>1, Appended DEF Return
<1>3. \A y \in Frames : Replace(t, <<y>>) => Becomes(t, On(y, r))
  BY <1>1, Zenon DEF On
<1>4. \A p \in Places : Goto(t, p) => Becomes(t, On(Frame(p), r))
  BY <1>3, PlaceFrames DEF Goto
<1>5. ASSUME NEW p \in Places, Call(t, Cleanup, p)
      PROVE  Becomes(t, On(Cleanup, On(Frame(p), r)))
  <2>1. Frame(p) \in Frames /\ Cleanup \in Frames
    BY PlaceFrames
  <2>2. Becomes(t, <<Cleanup, Frame(p)>> \o r)
    BY <1>1, <1>5, Zenon DEF Call
  <2>3. <<Cleanup, Frame(p)>> \o r = On(Cleanup, On(Frame(p), r))
    BY <1>1, <2>1, Appended, ZenonT(40)
  <2>4. QED  BY <2>2, <2>3, Zenon
<1>6. ASSUME NEW q \in Seq(Frames),
             Replace(t, <<Frame("broadcast"), Frame("started")>> \o q)
      PROVE  Becomes(t, On(Frame("broadcast"), On(Frame("started"), q \o r)))
  <2>1. Frame("broadcast") \in Frames /\ Frame("started") \in Frames
    BY PlaceFrames DEF Places
  <2>2. Becomes(t, (<<Frame("broadcast"), Frame("started")>> \o q) \o r)
    BY <1>1, <1>6, Zenon
  <2>3. (<<Frame("broadcast"), Frame("started")>> \o q) \o r
           = On(Frame("broadcast"), On(Frame("started"), q \o r))
    <3>1. PICK a \in Frames, b \in Frames : a = Frame("broadcast") /\ b = Frame("started")
      BY <2>1, Zenon
    <3>2. <<a, b>> \in Seq(Frames) /\ q \o r \in Seq(Frames)
      OBVIOUS
    <3>3. (<<a, b>> \o q) \o r = <<a, b>> \o (q \o r)
      BY <3>2, ConcatAssociative
    <3>4. <<a, b>> \o (q \o r) = On(a, On(b, q \o r))
      BY <3>2, Appended, ZenonT(40)
    <3>5. QED  BY <3>1, <3>3, <3>4, Zenon
  <2>4. QED  BY <2>2, <2>3, Zenon
<1>7. QED  BY <1>2, <1>3, <1>4, <1>5, <1>6

LEMMA NoneBelow ==
  ASSUME NEW r \in Seq(Frames), TopOf(r) = "none"
  PROVE  r = << >>
<1>1. ASSUME r # << >> PROVE r[1] \in Frames
  BY <1>1
<1>2. QED  BY <1>1 DEF TopOf, Frames, Places

-----------------------------------------------------------------------------
(* Stacks and connections_mutex.                                           *)
LEMMA StacksFollow ==
  ASSUME ServerTypeOK, StackInv, LockInv,
         NEW t \in Threads, NEW s \in Seq(Frames), Becomes(t, s),
         Stands(t, s), Once(s, Holders),
         Has(s, Holders) => connections_mutex' = t,
         \/ connections_mutex' = connections_mutex
         \/ connections_mutex \in {NOBODY, t}
  PROVE  stack' \in [Threads -> Seq(Frames)] /\ StackInv' /\ LockInv'
<1>1. /\ stack' \in [Threads -> Seq(Frames)] /\ stack'[t] = s
      /\ \A u \in Threads \ {t} : stack'[u] = stack[u]
  BY BecomesIs
<1>2. StackInv'
  BY <1>1 DEF StackInv
<1>3. ASSUME NEW u \in Threads \ {t}, Has(stack[u], Holders)
      PROVE  connections_mutex' = u
  <2>1. connections_mutex = u /\ u # NOBODY /\ u # t
    BY <1>3 DEF LockInv, Threads
  <2>2. QED  BY <2>1
<1>4. LockInv'
  BY <1>1, <1>3 DEF LockInv
<1>5. QED  BY <1>1, <1>2, <1>4

(* The four invariants together; and what they say of the innermost call x *)
(* of a thread, with the calls r below it.                                 *)
SafeInv == ServerTypeOK /\ StackInv /\ LockInv /\ PlayInv

InCall(t, x, r) ==
    /\ stack[t] = On(x, r) /\ Tail(stack[t]) = r
    /\ x.at = At(t) /\ x.todo = Todo(t)
    /\ Stands(t, r) /\ <<x.at, TopOf(r)>> \in Calls(t)
    /\ Once(r, Holders) /\ (x.at \in Holders => ~Has(r, Holders))
    /\ Has(r, Holders) \/ x.at \in Holders => connections_mutex = t
    /\ t = "net" =>
          /\ Once(r, Starting) /\ (x.at \in Starting => ~Has(r, Starting))
          /\ Has(r, Starting) \/ x.at \in Starting => players_mutex = "net"

LEMMA InsideCall ==
  ASSUME SafeInv, NEW t \in Threads, At(t) # "idle"
  PROVE  \E x \in Frames, r \in Seq(Frames) : InCall(t, x, r)
<1>1. PICK x \in Frames, r \in Seq(Frames) :
         /\ stack[t] = On(x, r) /\ x.at = At(t) /\ x.todo = Todo(t)
         /\ Tail(stack[t]) = r
  BY TopIs DEF SafeInv
<1>2. Stands(t, r) /\ <<x.at, TopOf(r)>> \in Calls(t)
  <2>1. Stands(t, On(x, r))
    BY <1>1, Zenon DEF SafeInv, StackInv
  <2>2. QED  BY <2>1, StandsOn, Zenon
<1>3. /\ Once(r, Holders) /\ (x.at \in Holders => ~Has(r, Holders))
      /\ Has(r, Holders) \/ x.at \in Holders => connections_mutex = t
  <2>1. Once(On(x, r), Holders) /\ (Has(On(x, r), Holders) => connections_mutex = t)
    BY <1>1, Zenon DEF SafeInv, LockInv
  <2>2. QED  BY <2>1, OnceOn, HasOn, Zenon
<1>4. ASSUME t = "net"
      PROVE  /\ Once(r, Starting) /\ (x.at \in Starting => ~Has(r, Starting))
             /\ Has(r, Starting) \/ x.at \in Starting => players_mutex = "net"
  <2>1. Once(On(x, r), Starting) /\ (Has(On(x, r), Starting) => players_mutex = "net")
    BY <1>1, <1>4, Zenon DEF SafeInv, PlayInv
  <2>2. QED  BY <2>1, OnceOn, HasOn, Zenon
<1>5. QED  BY <1>1, <1>2, <1>3, <1>4, Zenon DEF InCall

(* What a step does to connections_mutex: nothing, or its holder leaves it.*)
Leaves(x) ==
    \/ connections_mutex' = connections_mutex
    \/ x.at \in Holders /\ connections_mutex' = NOBODY

LEMMA Returns ==
  ASSUME SafeInv, NEW t \in Threads, NEW x \in Frames, NEW r \in Seq(Frames),
         InCall(t, x, r), Becomes(t, r), Leaves(x)
  PROVE  stack' \in [Threads -> Seq(Frames)] /\ StackInv' /\ LockInv'
<1>1. Stands(t, r) /\ Once(r, Holders)
  BY DEF InCall
<1>2. Has(r, Holders) => connections_mutex' = t
  BY DEF InCall, Leaves
<1>3. connections_mutex' = connections_mutex \/ connections_mutex \in {NOBODY, t}
  BY DEF InCall, Leaves
<1>4. QED  BY <1>1, <1>2, <1>3, StacksFollow DEF SafeInv

LEMMA GoesOn ==
  ASSUME SafeInv, NEW t \in Threads, NEW x \in Frames, NEW r \in Seq(Frames),
         InCall(t, x, r), NEW y \in Frames, Becomes(t, On(y, r)), Leaves(x),
         <<y.at, TopOf(r)>> \in Calls(t),
         y.at \in Holders =>
            x.at \in Holders /\ connections_mutex' = connections_mutex
  PROVE  stack' \in [Threads -> Seq(Frames)] /\ StackInv' /\ LockInv'
<1>1. On(y, r) \in Seq(Frames)
  BY OnType
<1>2. Stands(t, On(y, r))
  BY StandsOn, Zenon DEF InCall
<1>3. Once(On(y, r), Holders)
  BY OnceOn, Zenon DEF InCall
<1>4. Has(On(y, r), Holders) <=> y.at \in Holders \/ Has(r, Holders)
  BY HasOn, Zenon
<1>5. Has(On(y, r), Holders) => connections_mutex' = t
  BY <1>4 DEF InCall, Leaves
<1>6. connections_mutex' = connections_mutex \/ connections_mutex \in {NOBODY, t}
  BY DEF InCall, Leaves
<1>7. QED  BY <1>1, <1>2, <1>3, <1>5, <1>6, StacksFollow DEF SafeInv

(* The mutex is taken and the cleanup called.                              *)
LEMMA Enters ==
  ASSUME SafeInv, NEW t \in Threads, NEW x \in Frames, NEW r \in Seq(Frames),
         InCall(t, x, r), NEW y \in Frames, NEW z \in Frames,
         Becomes(t, On(y, On(z, r))), Lock(t), y.at \notin Holders,
         <<y.at, z.at>> \in Calls(t), <<z.at, TopOf(r)>> \in Calls(t)
  PROVE  stack' \in [Threads -> Seq(Frames)] /\ StackInv' /\ LockInv'
<1>1. /\ On(z, r) \in Seq(Frames) /\ TopOf(On(z, r)) = z.at
      /\ On(y, On(z, r)) \in Seq(Frames)
  BY OnType, Zenon
<1>2. Stands(t, On(y, On(z, r)))
  BY <1>1, StandsOn, Zenon DEF InCall
<1>3. ~Has(r, Holders)
  BY DEF InCall, Lock, Threads
<1>4. Once(On(y, On(z, r)), Holders)
  BY <1>1, <1>3, OnceOn, Zenon DEF InCall
<1>5. connections_mutex' = t /\ connections_mutex \in {NOBODY, t}
  BY DEF Lock
<1>6. QED  BY <1>1, <1>2, <1>4, <1>5, StacksFollow DEF SafeInv

(* A game begins, and its events are sent before the call q goes on.       *)
LEMMA Begins ==
  ASSUME SafeInv, NEW t \in Threads, NEW q \in Seq(Frames),
         NEW y \in Frames, NEW z \in Frames, Becomes(t, On(y, On(z, q))),
         y.at \notin Holders, z.at \notin Holders,
         <<y.at, z.at>> \in Calls(t), <<z.at, TopOf(q)>> \in Calls(t),
         Stands(t, q), Once(q, Holders),
         Has(q, Holders) => connections_mutex = t,
         connections_mutex' = connections_mutex
  PROVE  stack' \in [Threads -> Seq(Frames)] /\ StackInv' /\ LockInv'
<1>1. /\ On(z, q) \in Seq(Frames) /\ TopOf(On(z, q)) = z.at
      /\ On(y, On(z, q)) \in Seq(Frames)
  BY OnType, Zenon
<1>2. Stands(t, On(y, On(z, q)))
  BY <1>1, StandsOn, Zenon
<1>3. Once(On(y, On(z, q)), Holders)
  BY <1>1, OnceOn, Zenon
<1>4. Has(On(y, On(z, q)), Holders) <=> Has(q, Holders)
  BY <1>1, HasOn, Zenon
<1>5. QED  BY <1>1, <1>2, <1>3, <1>4, StacksFollow DEF SafeInv

-----------------------------------------------------------------------------
(* players_mutex and the game's thread.                                    *)
LEMMA PlayFollows ==
  ASSUME SafeInv, NEW t \in Threads, NEW s \in Seq(Frames), Becomes(t, s),
         t = "net" => Once(s, Starting) /\ (Has(s, Starting) => players_mutex = "net"),
         t = "loop" => (s # << >> => loop) /\ running,
         players_mutex' = players_mutex, running' = running, loop' = loop
  PROVE  PlayInv'
<1>1. stack'[t] = s /\ \A u \in Threads \ {t} : stack'[u] = stack[u]
  BY BecomesIs DEF SafeInv
<1>2. CASE t = "net"
  <2>1. stack'["net"] = s /\ stack'["loop"] = stack["loop"]
    BY <1>1, <1>2 DEF Threads
  <2>2. QED  BY <1>2, <2>1 DEF SafeInv, PlayInv
<1>3. CASE t = "loop"
  <2>1. stack'["loop"] = s /\ stack'["net"] = stack["net"]
    BY <1>1, <1>3 DEF Threads
  <2>2. QED  BY <1>3, <2>1 DEF SafeInv, PlayInv
<1>4. QED  BY <1>2, <1>3 DEF Threads

LEMMA PlayReturns ==
  ASSUME SafeInv, NEW t \in Threads, NEW x \in Frames, NEW r \in Seq(Frames),
         InCall(t, x, r), x.at \notin Stopping, Becomes(t, r),
         players_mutex' = players_mutex, running' = running, loop' = loop
  PROVE  PlayInv'
<1>1. t = "loop" => loop /\ running
  BY OnType DEF InCall, SafeInv, PlayInv
<1>2. QED  BY <1>1, PlayFollows DEF InCall

LEMMA PlayGoesOn ==
  ASSUME SafeInv, NEW t \in Threads, NEW x \in Frames, NEW r \in Seq(Frames),
         InCall(t, x, r), x.at \notin Stopping, NEW y \in Frames, y.at \notin Starting,
         Becomes(t, On(y, r)),
         players_mutex' = players_mutex, running' = running, loop' = loop
  PROVE  PlayInv'
<1>1. t = "loop" => loop /\ running
  BY OnType DEF InCall, SafeInv, PlayInv
<1>2. On(y, r) \in Seq(Frames)
  BY OnType
<1>3. t = "net" => /\ Once(On(y, r), Starting)
                   /\ Has(On(y, r), Starting) => players_mutex = "net"
  BY OnceOn, HasOn, Zenon DEF InCall
<1>4. QED  BY <1>1, <1>2, <1>3, PlayFollows

LEMMA PlayEnters ==
  ASSUME SafeInv, NEW t \in Threads, NEW x \in Frames, NEW r \in Seq(Frames),
         InCall(t, x, r), x.at \notin Stopping, NEW y \in Frames, y.at \notin Starting,
         NEW z \in Frames, z.at \notin Starting,
         Becomes(t, On(y, On(z, r))),
         players_mutex' = players_mutex, running' = running, loop' = loop
  PROVE  PlayInv'
<1>1. t = "loop" => loop /\ running
  BY OnType DEF InCall, SafeInv, PlayInv
<1>2. On(z, r) \in Seq(Frames) /\ On(y, On(z, r)) \in Seq(Frames)
  BY OnType
<1>3. t = "net" => /\ Once(On(y, On(z, r)), Starting)
                   /\ Has(On(y, On(z, r)), Starting) => players_mutex = "net"
  BY <1>2, OnceOn, HasOn, Zenon DEF InCall
<1>4. QED  BY <1>1, <1>2, <1>3, PlayFollows

(* A game starts or not.  One can only start in the network thread: the    *)
(* other thread is there only while a game is being played.                *)
LEMMA StartsOrNot ==
  ASSUME Quiet, SafeInv, NEW t \in Threads, NEW x \in Frames, NEW r \in Seq(Frames),
         InCall(t, x, r), x.at \notin Stopping, NEW rest \in Seq(Frames), NEW q \in Seq(Frames),
         q = rest \o r, Stands(t, q), Once(q, Holders),
         Has(q, Holders) => connections_mutex = t,
         TopOf(q) \in {"none", "cleanup", "erase"},
         Has(q, Starting) => Has(r, Starting),
         players_mutex = NOBODY, NEW starts \in BOOLEAN, starts => ~running,
         CallAllowed(t),
         StartOr(t, starts, rest),
         connections_mutex' = connections_mutex, loop' = loop
  PROVE  /\ stack' \in [Threads -> Seq(Frames)]
         /\ running' \in BOOLEAN /\ players_mutex' \in Threads \cup {NOBODY}
         /\ StackInv' /\ LockInv' /\ PlayInv'
         /\ \/ Becomes(t, q)
            \/ Becomes(t, On(Frame("broadcast"), On(Frame("started"), q)))
<1> DEFINE b == Frame("broadcast")
           w == Frame("started")
<1>1. /\ b \in Frames /\ b.at = "broadcast" /\ w \in Frames /\ w.at = "started"
  BY PlaceFrames DEF Places
<1>2. stack[t] # << >> /\ TopOf(stack[t]) \notin Stopping
  BY OnType DEF InCall
<1>3. t = "loop" => loop /\ running
  BY <1>2 DEF SafeInv, PlayInv
<1>4. t = "net" => ~Has(q, Starting) /\ Once(q, Starting)
  BY DEF InCall, Threads, Has, Once
<1>5. ServerTypeOK
  BY DEF SafeInv
<1>6. CASE starts
  <2>1. t = "net" /\ ~loop
    BY <1>3, <1>6 DEF Threads, CallAllowed
  <2>2. /\ running' = TRUE /\ players_mutex' = t
        /\ Replace(t, <<Frame("broadcast"), Frame("started")>> \o rest)
    BY <1>6, Zenon DEF StartOr
  <2>3. Becomes(t, On(b, On(w, q)))
    BY <1>5, <2>2, Replaced, Zenon DEF InCall
  <2>4. <<b.at, w.at>> \in Calls(t) /\ <<w.at, TopOf(q)>> \in Calls(t)
    BY <1>1, <2>1 DEF Calls
  <2>5. /\ b.at \notin Holders /\ w.at \notin Holders
        /\ b.at \notin Starting /\ w.at \in Starting
    BY <1>1 DEF Holders, Starting
  <2> HIDE DEF b, w
  <2>6. stack' \in [Threads -> Seq(Frames)] /\ StackInv' /\ LockInv'
    BY <1>1, <2>3, <2>4, <2>5, Begins
  <2>7. On(w, q) \in Seq(Frames) /\ On(b, On(w, q)) \in Seq(Frames)
    BY <1>1, OnType
  <2>8. stack'["net"] = On(b, On(w, q)) /\ stack'["loop"] = stack["loop"]
    BY <1>5, <2>1, <2>3, <2>7, BecomesIs DEF Threads
  <2>9. Once(On(b, On(w, q)), Starting)
    BY <1>1, <1>4, <2>1, <2>5, <2>7, OnceOn, HasOn, Zenon
  <2>10. PlayInv'
    BY <2>1, <2>2, <2>8, <2>9 DEF SafeInv, PlayInv, Threads
  <2>11. QED  BY <2>1, <2>2, <2>3, <2>6, <2>10 DEF b, w, Threads
<1>7. CASE ~starts
  <2>1. UNCHANGED <<running, players_mutex>> /\ Replace(t, rest)
    BY <1>7, Zenon DEF StartOr
  <2>2. Becomes(t, q)
    BY <1>5, <2>1, Zenon DEF Replace, Becomes, InCall, ServerTypeOK
  <2>3. stack' \in [Threads -> Seq(Frames)] /\ StackInv' /\ LockInv'
    BY <2>2, StacksFollow DEF SafeInv
  <2>4. PlayInv'
    BY <1>3, <1>4, <2>1, <2>2, PlayFollows
  <2>5. running' \in BOOLEAN /\ players_mutex' \in Threads \cup {NOBODY}
    BY <1>5, <2>1 DEF ServerTypeOK
  <2>6. QED  BY <2>2, <2>3, <2>4, <2>5
<1>8. QED  BY <1>6, <1>7

-----------------------------------------------------------------------------
(* Each step keeps these invariants.                                       *)
LEMMA NetTypes ==
  ASSUME ServerTypeOK, LocalsKept
  PROVE  message' \in Something /\ connecting' \in BOOLEAN
<1>1. NoMessage \in Something
  BY DEF NoMessage, Something, Sessions
<1>2. QED  BY <1>1 DEF LocalsKept, ServerTypeOK, netVars

(* The calls that take connections_mutex and clean up.                     *)
LEMMA EntersSafe ==
  ASSUME SafeInv, NEW t \in Threads, NEW p, NEW q \in Places,
         <<p, q>> \in {<<"get_client", "found">>, <<"add", "push">>, <<"broadcast", "sent">>},
         At(t) = p, Lock(t), Call(t, Cleanup, q), LocalsKept,
         UNCHANGED <<clients, players_mutex, gameVars, crashed>>
  PROVE  SafeInv'
<1>1. PICK x \in Frames, r \in Seq(Frames) : InCall(t, x, r)
  BY InsideCall
<1>2. /\ Cleanup \in Frames /\ Cleanup.at = "cleanup"
      /\ Frame(q) \in Frames /\ Frame(q).at = q
  BY PlaceFrames DEF SafeInv
<1>3. Becomes(t, On(Cleanup, On(Frame(q), r)))
  BY <1>1, Replaced, Zenon DEF InCall, SafeInv
<1>4. /\ <<Cleanup.at, Frame(q).at>> \in Calls(t)
      /\ <<Frame(q).at, TopOf(r)>> \in Calls(t)
      /\ x.at \notin Stopping
  BY <1>1, <1>2 DEF InCall, Calls, Threads, Stopping
<1>5. Cleanup.at \notin Holders /\ Cleanup.at \notin Starting /\ Frame(q).at \notin Starting
  BY <1>2 DEF Holders, Starting
<1>6. stack' \in [Threads -> Seq(Frames)] /\ StackInv' /\ LockInv'
  BY <1>1, <1>2, <1>3, <1>4, <1>5, Enters
<1>7. PlayInv'
  BY <1>1, <1>2, <1>3, <1>4, <1>5, PlayEnters DEF gameVars
<1>8. ServerTypeOK'
  BY <1>6, NetTypes DEF SafeInv, ServerTypeOK, gameVars, Lock
<1>9. QED  BY <1>6, <1>7, <1>8 DEF SafeInv

(* The calls that only return, and those that go on in another place.      *)
LEMMA ReturnsSafe ==
  ASSUME SafeInv, NEW t \in Threads, NEW x \in Frames, NEW r \in Seq(Frames),
         InCall(t, x, r), x.at \notin Stopping, Return(t), Leaves(x), LocalsKept,
         clients' \subseteq Somebody, crashed' \in BOOLEAN,
         players' \subseteq Names, ready' \subseteq Names,
         players_mutex' = players_mutex, running' = running, loop' = loop
  PROVE  SafeInv'
<1>1. Becomes(t, r)
  BY Replaced, Zenon DEF InCall, SafeInv
<1>2. stack' \in [Threads -> Seq(Frames)] /\ StackInv' /\ LockInv'
  BY <1>1, Returns
<1>3. PlayInv'
  BY <1>1, PlayReturns
<1>4. ServerTypeOK'
  BY <1>2, NetTypes DEF SafeInv, ServerTypeOK, Leaves
<1>5. QED  BY <1>2, <1>3, <1>4 DEF SafeInv

LEMMA GoesSafe ==
  ASSUME SafeInv, NEW t \in Threads, NEW x \in Frames, NEW r \in Seq(Frames),
         InCall(t, x, r), x.at \notin Stopping, NEW y \in Frames, Replace(t, <<y>>), Leaves(x),
         y.at \notin Starting, <<y.at, TopOf(r)>> \in Calls(t),
         y.at \in Holders =>
            x.at \in Holders /\ connections_mutex' = connections_mutex,
         message' \in Something, connecting' \in BOOLEAN,
         clients' \subseteq Somebody, crashed' \in BOOLEAN,
         players' \subseteq Names, ready' \subseteq Names,
         players_mutex' = players_mutex, running' = running, loop' = loop
  PROVE  SafeInv'
<1>1. Becomes(t, On(y, r))
  BY Replaced, Zenon DEF InCall, SafeInv
<1>2. stack' \in [Threads -> Seq(Frames)] /\ StackInv' /\ LockInv'
  BY <1>1, GoesOn
<1>3. PlayInv'
  BY <1>1, PlayGoesOn
<1>4. ServerTypeOK'
  BY <1>2 DEF SafeInv, ServerTypeOK, Leaves
<1>5. QED  BY <1>2, <1>3, <1>4 DEF SafeInv

(* A player leaves the game, or is there to stay, and a game may start.    *)
LEMMA StartsSafe ==
  ASSUME Quiet, SafeInv, NEW t \in Threads, NEW x \in Frames, NEW r \in Seq(Frames),
         InCall(t, x, r), x.at \notin Stopping, NEW q \in Seq(Frames), NEW rest \in Seq(Frames),
         q = rest \o r, Stands(t, q), Once(q, Holders),
         Has(q, Holders) => connections_mutex = t,
         TopOf(q) \in {"none", "cleanup", "erase"},
         Has(q, Starting) => Has(r, Starting),
         players_mutex = NOBODY, NEW starts \in BOOLEAN, starts => ~running,
         CallAllowed(t),
         StartOr(t, starts, rest), LocalsKept,
         players' \subseteq Names, ready' \subseteq Names,
         UNCHANGED <<clients, connections_mutex, loop, crashed>>
  PROVE  SafeInv'
<1>1. /\ stack' \in [Threads -> Seq(Frames)]
      /\ running' \in BOOLEAN /\ players_mutex' \in Threads \cup {NOBODY}
      /\ StackInv' /\ LockInv' /\ PlayInv'
  BY StartsOrNot, ZenonT(150)
<1>2. ServerTypeOK'
  BY <1>1, NetTypes DEF SafeInv, ServerTypeOK
<1>3. QED  BY <1>1, <1>2 DEF SafeInv

LEMMA AtIdle ==
  ASSUME ServerTypeOK, NEW t \in Threads, At(t) = "idle"
  PROVE  stack[t] = << >> /\ << >> \in Seq(Frames)
<1>1. ASSUME stack[t] # << >> PROVE FALSE
  <2>1. Head(stack[t]) \in Frames
    BY <1>1 DEF ServerTypeOK
  <2>2. QED  BY <1>1, <2>1 DEF At, Frames, Places
<1>2. QED  BY <1>1

(* A thread that was idle begins with the calls s.                         *)
LEMMA WakesSafe ==
  ASSUME SafeInv, NEW t \in Threads, At(t) = "idle", NEW s \in Seq(Frames), Becomes(t, s),
         Stands(t, s), ~Has(s, Holders), ~Has(s, Starting), t = "loop" => loop,
         message' \in Something, connecting' \in BOOLEAN,
         UNCHANGED <<clients, connections_mutex, players_mutex, gameVars, crashed>>
  PROVE  SafeInv'
<1>1. Once(s, Holders) /\ Once(s, Starting)
  BY DEF Has, Once
<1>2. stack' \in [Threads -> Seq(Frames)] /\ StackInv' /\ LockInv'
  BY <1>1, StacksFollow DEF SafeInv
<1>3. t = "loop" => loop /\ running
  <2>1. stack[t] = << >>
    BY AtIdle DEF SafeInv
  <2>2. QED  BY <2>1, EmptyStack DEF SafeInv, PlayInv, Stopping
<1>6. PlayInv'
  BY <1>1, <1>3, PlayFollows DEF gameVars
<1>4. ServerTypeOK'
  BY <1>2 DEF SafeInv, ServerTypeOK, gameVars
<1>5. QED  BY <1>2, <1>4, <1>6 DEF SafeInv

LEMMA OneCall ==
  ASSUME NEW y \in Frames
  PROVE  /\ <<y>> = On(y, << >>) /\ <<y>> \in Seq(Frames)
         /\ \A P : Has(<<y>>, P) <=> y.at \in P
         /\ \A t : Stands(t, <<y>>) <=> <<y.at, "none">> \in Calls(t)
<1>1. <<y>> \o << >> = <<y>> /\ << >> \in Seq(Frames) /\ <<y>> \in Seq(Frames)
  OBVIOUS
<1>2. <<y>> = On(y, << >>)
  BY <1>1, Zenon DEF On
<1>3. \A P : Has(<<y>>, P) <=> y.at \in P
  <2>1. \A P : ~Has(<< >>, P)
    BY EmptyStack, Zenon
  <2>2. \A P : Has(On(y, << >>), P) <=> y.at \in P \/ Has(<< >>, P)
    BY <1>1, HasOn, Zenon
  <2>3. QED  BY <1>2, <2>1, <2>2, Zenon
<1>4. ASSUME NEW t PROVE Stands(t, <<y>>) <=> <<y.at, "none">> \in Calls(t)
  <2>1. Stands(t, << >>) /\ TopOf(<< >>) = "none"
    BY EmptyStack, Zenon
  <2>2. Stands(t, On(y, << >>)) <=>
           Stands(t, << >>) /\ <<y.at, TopOf(<< >>)>> \in Calls(t)
    BY <1>1, StandsOn, ZenonT(40)
  <2>3. QED  BY <1>2, <2>1, <2>2, Zenon
<1>5. QED  BY <1>1, <1>2, <1>3, <1>4

LEMMA PollSafe ==
  ASSUME SafeInv, Poll
  PROVE  SafeInv'
<1>1. ASSUME NEW m \in Sends, Receive(m) PROVE SafeInv'
  <2>1. PICK y \in Frames : y = Frame("get_client") /\ y.at = "get_client"
    BY PlaceFrames DEF Places
  <2>2. Becomes("net", <<y>>)
    BY <1>1, <2>1, Zenon DEF Receive, Becomes
  <2>3. <<y.at, "none">> \in Calls("net") /\ y.at \notin Holders /\ y.at \notin Starting
    BY <2>1 DEF Calls, Holders, Starting
  <2>4. message' \in Something /\ connecting' \in BOOLEAN
    BY <1>1, SendsAssumption DEF Receive, Message, Something, Sessions
  <2>5. At("net") = "idle" /\ UNCHANGED <<clients, connections_mutex, players_mutex, gameVars, crashed>>
    BY <1>1, Zenon DEF Receive
  <2>6. <<y>> \in Seq(Frames) /\ Stands("net", <<y>>)
        /\ ~Has(<<y>>, Holders) /\ ~Has(<<y>>, Starting)
    BY <2>3, OneCall
  <2>7. QED  BY <2>2, <2>4, <2>5, <2>6, WakesSafe DEF Threads
<1>2. ASSUME PollTimeout PROVE SafeInv'
  <2>1. PICK y \in Frames : y = Cleanup /\ y.at = "cleanup"
    BY PlaceFrames DEF SafeInv
  <2>2. Becomes("net", <<y>>)
    BY <1>2, <2>1, Zenon DEF PollTimeout, Becomes, CleanupOnly
  <2>3. <<y.at, "none">> \in Calls("net") /\ y.at \notin Holders /\ y.at \notin Starting
    BY <2>1 DEF Calls, Holders, Starting
  <2>4. message' \in Something /\ connecting' \in BOOLEAN
    BY <1>2, NetTypes DEF PollTimeout, SafeInv
  <2>5. At("net") = "idle" /\ UNCHANGED <<clients, connections_mutex, players_mutex, gameVars, crashed>>
    BY <1>2, Zenon DEF PollTimeout
  <2>6. <<y>> \in Seq(Frames) /\ Stands("net", <<y>>)
        /\ ~Has(<<y>>, Holders) /\ ~Has(<<y>>, Starting)
    BY <2>3, OneCall
  <2>7. QED  BY <2>2, <2>4, <2>5, <2>6, WakesSafe DEF Threads
<1>3. QED  BY <1>1, <1>2, Zenon DEF Poll

(* The end of a game: `running` first, which only a thread that is about to*)
(* look at it outlives.                                                    *)
LEMMA EndingSafe ==
  ASSUME SafeInv, Ending
  PROVE  SafeInv'
<1>1. "loop" \in Threads /\ At("loop") \in {"over", "initialize", "leave"}
  BY DEF Threads, Ending, Over, Initialize, Leave
<1>2. PICK x \in Frames, r \in Seq(Frames) : InCall("loop", x, r)
  BY <1>1, InsideCall
<1>3. x.at = At("loop") /\ TopOf(r) = "none"
  BY <1>1, <1>2 DEF InCall, Calls
<1>4. stack["loop"] # << >> /\ loop
  BY <1>2, OnType DEF InCall, SafeInv, PlayInv
<1>5. Leaves(x) /\ LocalsKept
  BY DEF Leaves, Ending, Over, Initialize, Leave
<1>6. /\ UNCHANGED <<clients, connections_mutex, players_mutex, players, crashed>>
      /\ ready' \subseteq Names /\ running' \in BOOLEAN /\ loop' \in BOOLEAN
  BY DEF Ending, Over, Initialize, Leave, SafeInv, ServerTypeOK
<1>7. players_mutex # "net"
  BY <1>4 DEF SafeInv, PlayInv
<1>8. ASSUME stack' \in [Threads -> Seq(Frames)], StackInv', LockInv', PlayInv'
      PROVE  SafeInv'
  <2>1. ServerTypeOK'
    BY <1>5, <1>6, <1>8, NetTypes DEF SafeInv, ServerTypeOK
  <2>2. QED  BY <1>8, <2>1 DEF SafeInv
<1>9. ASSUME NEW p \in Stopping, Goto("loop", p), loop' = loop PROVE SafeInv'
  <2>1. PICK y \in Frames : y = Frame(p) /\ y.at = p
    BY <1>9, PlaceFrames DEF Places, Stopping
  <2>2. Becomes("loop", On(y, r))
    BY <1>1, <1>2, <1>9, <2>1, Replaced, Zenon DEF InCall, SafeInv, Goto
  <2>3. <<y.at, TopOf(r)>> \in Calls("loop") /\ y.at \notin Holders
    BY <1>3, <1>9, <2>1 DEF Calls, Holders, Stopping
  <2>4. stack' \in [Threads -> Seq(Frames)] /\ StackInv' /\ LockInv'
    BY <1>1, <1>2, <1>5, <2>2, <2>3, GoesOn
  <2>5. stack'["net"] = stack["net"] /\ TopOf(stack'["loop"]) \in Stopping
    <3>1. On(y, r) \in Seq(Frames) /\ TopOf(On(y, r)) = y.at
      BY OnType, Zenon
    <3>2. QED  BY <1>1, <1>9, <2>1, <2>2, <3>1, BecomesIs DEF SafeInv, Threads
  <2>6. PlayInv'
    BY <1>4, <1>6, <1>7, <1>9, <2>5 DEF SafeInv, PlayInv
  <2>7. QED  BY <1>8, <2>4, <2>6
<1>10. CASE Over \/ Initialize
  <2>1. loop' = loop /\ (Goto("loop", "initialize") \/ Goto("loop", "leave"))
    BY <1>10, Zenon DEF Over, Initialize
  <2>2. QED  BY <1>9, <2>1 DEF Stopping
<1>11. CASE Leave
  <2>1. Return("loop") /\ loop' = running /\ running' = running
    BY <1>11, Zenon DEF Leave
  <2>2. Becomes("loop", r) /\ r = << >>
    BY <1>1, <1>2, <1>3, <2>1, Replaced, NoneBelow, Zenon DEF InCall, SafeInv
  <2>3. stack' \in [Threads -> Seq(Frames)] /\ StackInv' /\ LockInv'
    BY <1>1, <1>2, <1>5, <2>2, Returns
  <2>4. stack'["loop"] = << >> /\ stack'["net"] = stack["net"]
    BY <1>1, <2>2, BecomesIs DEF SafeInv, Threads
  <2>5. PlayInv'
    BY <1>6, <1>7, <2>1, <2>4 DEF SafeInv, PlayInv
  <2>6. QED  BY <1>8, <2>3, <2>5
<1>12. QED  BY <1>10, <1>11 DEF Ending

LEMMA LoopSafe ==
  ASSUME SafeInv, LoopEvent \/ Ending
  PROVE  SafeInv'
<1>1. "loop" \in Threads /\ << >> \in Seq(Frames)
  BY DEF Threads
<1>2. CASE LoopEvent
  <2>1. PICK y \in Frames : y = Frame("broadcast") /\ y.at = "broadcast"
    BY PlaceFrames DEF Places
  <2>2. PICK z \in Frames : z = Frame("over") /\ z.at = "over"
    BY PlaceFrames DEF Places
  <2>3. PICK after \in {<< >>, <<Frame("over")>>} :
           stack' = [stack EXCEPT !["loop"] = <<Frame("broadcast")>> \o after]
    BY <1>2, Zenon DEF LoopEvent
  <2>4. PICK a \in Seq(Frames) :
           /\ a = after /\ ~Has(a, Holders) /\ ~Has(a, Starting) /\ Stands("loop", a)
           /\ <<y.at, TopOf(a)>> \in Calls("loop")
    <3>1. CASE after = << >>
      <4>1. <<y.at, "none">> \in Calls("loop")
        BY <2>1 DEF Calls
      <4>2. QED  BY <1>1, <3>1, <4>1, EmptyStack, Zenon
    <3>2. CASE after = <<z>>
      <4>1. z.at \notin Holders /\ z.at \notin Starting /\ <<z.at, "none">> \in Calls("loop")
            /\ <<y.at, z.at>> \in Calls("loop")
        BY <2>1, <2>2 DEF Calls, Holders, Starting
      <4>2. TopOf(<<z>>) = z.at
        BY <1>1, OneCall, OnType, Zenon
      <4>3. QED  BY <3>2, <4>1, <4>2, OneCall, Zenon
    <3>3. QED  BY <2>2, <2>3, <3>1, <3>2, Zenon
  <2>5. y.at \notin Holders /\ y.at \notin Starting
    BY <2>1 DEF Holders, Starting
  <2>6. PICK s \in Seq(Frames) : s = On(y, a)
    BY OnType, Zenon
  <2>7. Becomes("loop", s)
    BY <2>1, <2>3, <2>4, <2>6, Zenon DEF Becomes, On
  <2>8. Stands("loop", s) /\ ~Has(s, Holders) /\ ~Has(s, Starting)
    BY <2>4, <2>5, <2>6, StandsOn, HasOn, Zenon
  <2>9. message' \in Something /\ connecting' \in BOOLEAN
    BY <1>2, NetTypes DEF LoopEvent, SafeInv
  <2>10. At("loop") = "idle" /\ loop /\ UNCHANGED <<clients, connections_mutex, players_mutex, gameVars, crashed>>
    BY <1>2, Zenon DEF LoopEvent
  <2>11. QED  BY <1>1, <2>7, <2>8, <2>9, <2>10, WakesSafe
<1>3. QED  BY <1>2, EndingSafe

LEMMA NetCall ==
  ASSUME SafeInv,
         At("net") \in {"get_client", "found", "erase", "act", "connect", "add", "push"}
  PROVE  /\ "net" \in Threads
         /\ \E x \in Frames, r \in Seq(Frames) : InCall("net", x, r)
         /\ \A x \in Frames, r \in Seq(Frames) :
               InCall("net", x, r) => r = << >> /\ x.at = At("net") /\ TopOf(r) = "none"
<1>1. "net" \in Threads /\ At("net") # "idle"
  BY DEF Threads
<1>2. ASSUME NEW x \in Frames, NEW r \in Seq(Frames), InCall("net", x, r)
      PROVE  r = << >> /\ x.at = At("net") /\ TopOf(r) = "none"
  <2>1. TopOf(r) = "none"
    BY <1>2 DEF InCall, Calls
  <2>2. QED  BY <1>2, <2>1, NoneBelow DEF InCall
<1>3. QED  BY <1>1, <1>2, InsideCall

LEMMA NotFoundSafe ==
  ASSUME SafeInv, At("net") \in {"found", "erase"}, NotFound, LocalsKept,
         clients' \subseteq clients, UNCHANGED <<players_mutex, gameVars>>
  PROVE  SafeInv'
<1>1. PICK x \in Frames, r \in Seq(Frames) : InCall("net", x, r)
  BY NetCall
<1>2. /\ "net" \in Threads /\ x.at = At("net") /\ TopOf(r) = "none"
      /\ x.at \notin Stopping
  BY <1>1, NetCall DEF Stopping
<1>3. PICK y \in Frames : y = Frame("connect") /\ y.at = "connect"
  BY PlaceFrames DEF Places
<1>4. Replace("net", <<y>>)
  BY <1>3, Zenon DEF NotFound, Goto
<1>5. Leaves(x)
  BY <1>2 DEF NotFound, Unlock, Leaves, Holders
<1>6. <<y.at, TopOf(r)>> \in Calls("net") /\ y.at \notin Holders /\ y.at \notin Starting
  BY <1>2, <1>3 DEF Calls, Holders, Starting
<1>7. message' \in Something /\ connecting' \in BOOLEAN
  BY NetTypes DEF SafeInv
<1>8. /\ clients' \subseteq Somebody /\ crashed' \in BOOLEAN
      /\ players' \subseteq Names /\ ready' \subseteq Names
      /\ players_mutex' = players_mutex /\ running' = running /\ loop' = loop
  BY DEF SafeInv, ServerTypeOK, NotFound, gameVars
<1>9. QED  BY <1>1, <1>2, <1>4, <1>5, <1>6, <1>7, <1>8, GoesSafe

LEMMA MayStartIf ==
  \A pl, rd : MayStart(pl, rd) \in BOOLEAN /\ (MayStart(pl, rd) => ~running)
BY DEF MayStart

LEMMA LeavesSafe ==
  ASSUME Quiet, SafeInv, NEW t \in Threads, NEW x \in Frames, NEW r \in Seq(Frames),
         InCall(t, x, r), NEW y \in Frames, NEW n, OnDisconnect(t, n, <<y>>),
         <<x.at, y.at>> \in {<<"cleanup", "cleanup">>, <<"found", "erase">>},
         LocalsKept, UNCHANGED <<clients, connections_mutex, crashed>>
  PROVE  SafeInv'
<1>1. PICK q \in Seq(Frames) : q = On(y, r) /\ TopOf(q) = y.at
  BY OnType, Zenon
<1>2. PICK rest \in Seq(Frames) : rest = <<y>> /\ q = rest \o r
  BY <1>1, OneCall, Zenon DEF On
<1>3. y.at \in {"cleanup", "erase"} /\ <<y.at, TopOf(r)>> \in Calls(t)
  <2>1. CASE x.at = "cleanup"
    BY <2>1 DEF InCall
  <2>2. CASE x.at # "cleanup"
    BY <2>2 DEF InCall, Calls
  <2>3. QED  BY <2>1, <2>2
<1>4. /\ y.at \in Holders => x.at \in Holders
      /\ y.at \notin Starting /\ x.at \notin Stopping
  BY DEF Holders, Starting, Stopping
<1>5. Stands(t, q)
  BY <1>1, <1>3, StandsOn, Zenon DEF InCall
<1>6. Once(q, Holders)
  BY <1>1, <1>4, OnceOn, Zenon DEF InCall
<1>7. Has(q, Holders) => connections_mutex = t
  BY <1>1, <1>4, HasOn, Zenon DEF InCall
<1>8. Has(q, Starting) => Has(r, Starting)
  BY <1>1, <1>4, HasOn, Zenon
<1>9. TopOf(q) \in {"none", "cleanup", "erase"}
  BY <1>1, <1>3
<1>10. PICK starts \in BOOLEAN :
          starts = (n \in players /\ MayStart(players', ready')) /\ (starts => ~running)
  BY MayStartIf
<1>11. /\ StartOr(t, starts, rest) /\ UNCHANGED loop
       /\ players_mutex = NOBODY /\ CallAllowed(t)
  BY <1>2, <1>10, Zenon DEF OnDisconnect
<1>12. players' \subseteq Names /\ ready' \subseteq Names
  BY DEF OnDisconnect, SafeInv, ServerTypeOK
<1>13. UNCHANGED <<clients, connections_mutex, loop, crashed>>
  BY <1>11
<1>14. QED
  BY <1>2, <1>4, <1>5, <1>6, <1>7, <1>8, <1>9, <1>10, <1>11, <1>12, <1>13, StartsSafe

LEMMA FoundSafe ==
  ASSUME Quiet, SafeInv, NEW c \in clients, FoundNewer(c) \/ FoundOlder(c) \/ FoundSame(c)
  PROVE  SafeInv'
<1>1. At("net") = "found"
  BY DEF FoundNewer, FoundOlder, FoundSame
<1>2. PICK x \in Frames, r \in Seq(Frames) : InCall("net", x, r)
  BY <1>1, NetCall
<1>3. /\ "net" \in Threads /\ x.at = "found" /\ TopOf(r) = "none"
      /\ x.at \in Holders /\ x.at \notin Stopping
  BY <1>1, <1>2, NetCall DEF Holders, Stopping
<1>4. CASE FoundNewer(c)
  <2>1. Return("net") /\ Leaves(x) /\ LocalsKept
    BY <1>3, <1>4 DEF FoundNewer, Leaves, Unlock
  <2>2. /\ clients' \subseteq Somebody /\ crashed' \in BOOLEAN
        /\ players' \subseteq Names /\ ready' \subseteq Names
        /\ players_mutex' = players_mutex /\ running' = running /\ loop' = loop
    BY <1>4 DEF FoundNewer, SafeInv, ServerTypeOK, gameVars
  <2>3. QED  BY <1>2, <1>3, <2>1, <2>2, ReturnsSafe
<1>5. CASE FoundOlder(c)
  <2>1. PICK y \in Frames : y = Frame("erase") /\ y.at = "erase"
    BY PlaceFrames DEF Places
  <2>2. LocalsKept /\ UNCHANGED <<clients, connections_mutex, crashed>>
    BY <1>5 DEF FoundOlder
  <2>3. CASE c.name = OBSERVER
    <3>1. Replace("net", <<y>>) /\ UNCHANGED <<players_mutex, gameVars>>
      BY <1>5, <2>1, <2>3, Zenon DEF FoundOlder, Told
    <3>2. Leaves(x) /\ message' \in Something /\ connecting' \in BOOLEAN
      BY <2>2, NetTypes DEF Leaves, SafeInv
    <3>3. /\ <<y.at, TopOf(r)>> \in Calls("net") /\ y.at \notin Starting
          /\ y.at \in Holders => x.at \in Holders /\ connections_mutex' = connections_mutex
      BY <1>3, <2>1, <2>2 DEF Calls, Starting
    <3>4. /\ clients' \subseteq Somebody /\ crashed' \in BOOLEAN
          /\ players' \subseteq Names /\ ready' \subseteq Names
          /\ players_mutex' = players_mutex /\ running' = running /\ loop' = loop
      BY <2>2, <3>1 DEF SafeInv, ServerTypeOK, gameVars
    <3>5. QED  BY <1>2, <1>3, <3>1, <3>2, <3>3, <3>4, GoesSafe
  <2>4. CASE c.name # OBSERVER
    <3>1. OnDisconnect("net", c.name, <<y>>)
      BY <1>5, <2>1, <2>4, Zenon DEF FoundOlder, Told
    <3>2. <<x.at, y.at>> \in {<<"cleanup", "cleanup">>, <<"found", "erase">>}
      BY <1>3, <2>1
    <3>3. QED  BY <1>2, <1>3, <2>2, <3>1, <3>2, LeavesSafe
  <2>5. QED  BY <2>3, <2>4
<1>6. CASE FoundSame(c)
  <2>1. Leaves(x) /\ LocalsKept
    BY <1>3, <1>6 DEF FoundSame, Leaves, LockLeft, Unlock
  <2>2. /\ players_mutex' = players_mutex /\ running' = running /\ loop' = loop
        /\ crashed' \in BOOLEAN /\ players' \subseteq Names /\ ready' \subseteq Names
    BY <1>6 DEF FoundSame, SafeInv, ServerTypeOK, gameVars
  <2>3. [c EXCEPT !.active = TRUE] \in Somebody
    BY DEF SafeInv, ServerTypeOK, Somebody
  <2>4. clients' \subseteq Somebody
    BY <1>6, <2>3 DEF FoundSame, SafeInv, ServerTypeOK
  <2>5. CASE Return("net")
    BY <1>2, <1>3, <2>1, <2>2, <2>4, <2>5, ReturnsSafe
  <2>6. CASE Goto("net", "act")
    <3>1. PICK y \in Frames : y = Frame("act") /\ y.at = "act"
      BY PlaceFrames DEF Places
    <3>2. Replace("net", <<y>>)
      BY <2>6, <3>1, Zenon DEF Goto
    <3>3. <<y.at, TopOf(r)>> \in Calls("net") /\ y.at \notin Starting /\ y.at \notin Holders
      BY <1>3, <3>1 DEF Calls, Starting, Holders
    <3>4. message' \in Something /\ connecting' \in BOOLEAN
      BY <2>1, NetTypes DEF SafeInv
    <3>5. QED  BY <1>2, <1>3, <2>1, <2>2, <2>4, <3>2, <3>3, <3>4, GoesSafe
  <2>7. QED  BY <1>6, <2>5, <2>6, Zenon DEF FoundSame
<1>7. QED  BY <1>4, <1>5, <1>6

LEMMA ActSafe ==
  ASSUME Quiet, SafeInv, Act
  PROVE  SafeInv'
<1>1. At("net") = "act"
  BY DEF Act
<1>2. PICK x \in Frames, r \in Seq(Frames) : InCall("net", x, r)
  BY <1>1, NetCall
<1>3. "net" \in Threads /\ TopOf(r) = "none" /\ x.at \notin Stopping
  BY <1>1, <1>2, NetCall DEF Stopping
<1>4. << >> \in Seq(Frames) /\ r = << >> \o r
  OBVIOUS
<1>5. PICK rest \in Seq(Frames) : rest = << >> /\ r = rest \o r
  BY <1>4, Zenon
<1>6. PICK presses \in BOOLEAN, starts \in BOOLEAN :
         /\ ready' = IF presses THEN ready \cup {message.name} ELSE ready
         /\ presses => message.name \in players
         /\ starts => ~running
         /\ StartOr("net", starts, rest)
  <2> DEFINE nm == message.name
             presses == nm \in players /\ ~running /\ message.arrow /\ nm \notin ready
             starts == presses /\ MayStart(players, ready')
  <2>1. /\ ready' = IF presses THEN ready \cup {message.name} ELSE ready
        /\ StartOr("net", starts, << >>)
    BY Zenon DEF Act
  <2>2. /\ presses \in BOOLEAN /\ starts \in BOOLEAN /\ (starts => ~running)
        /\ presses => message.name \in players
    BY MayStartIf, Zenon DEF SafeInv, ServerTypeOK, Something
  <2> HIDE DEF presses, starts
  <2>3. QED  BY <1>5, <2>1, <2>2, Zenon
<1>7. players' = players /\ players' \subseteq Names /\ ready' \subseteq Names
  BY <1>6 DEF Act, SafeInv, ServerTypeOK
<1>8. UNCHANGED <<clients, connections_mutex, loop, crashed>> /\ LocalsKept
      /\ players_mutex = NOBODY /\ CallAllowed("net")
  BY DEF Act
<1>9. /\ Stands("net", r) /\ Once(r, Holders)
      /\ Has(r, Holders) => connections_mutex = "net"
      /\ TopOf(r) \in {"none", "cleanup", "erase"}
  BY <1>2, <1>3 DEF InCall
<1>10. QED  BY <1>2, <1>3, <1>5, <1>6, <1>7, <1>8, <1>9, StartsSafe

LEMMA ConnectSafe ==
  ASSUME SafeInv, Connect
  PROVE  SafeInv'
<1>1. At("net") = "connect"
  BY DEF Connect
<1>2. PICK x \in Frames, r \in Seq(Frames) : InCall("net", x, r)
  BY <1>1, NetCall
<1>3. "net" \in Threads /\ TopOf(r) = "none" /\ x.at \notin Stopping
  BY <1>1, <1>2, NetCall DEF Stopping
<1>4. Leaves(x) /\ LocalsKept /\ message' \in Something /\ connecting' \in BOOLEAN
  BY NetTypes DEF Connect, Leaves, SafeInv
<1>5. message.name \in Names \cup {OBSERVER}
  BY DEF SafeInv, ServerTypeOK, Something
<1>6. /\ players_mutex' = players_mutex /\ running' = running /\ loop' = loop
      /\ crashed' \in BOOLEAN /\ players' \subseteq Names /\ ready' \subseteq Names
      /\ clients' \subseteq Somebody
  BY <1>5 DEF Connect, SafeInv, ServerTypeOK
<1>7. CASE Return("net")
  BY <1>2, <1>3, <1>4, <1>6, <1>7, ReturnsSafe
<1>8. CASE Goto("net", "add")
  <2>1. PICK y \in Frames : y = Frame("add") /\ y.at = "add"
    BY PlaceFrames DEF Places
  <2>2. Replace("net", <<y>>)
    BY <1>8, <2>1, Zenon DEF Goto
  <2>3. <<y.at, TopOf(r)>> \in Calls("net") /\ y.at \notin Starting /\ y.at \notin Holders
    BY <1>3, <2>1 DEF Calls, Starting, Holders
  <2>4. QED  BY <1>2, <1>3, <1>4, <1>6, <2>2, <2>3, GoesSafe
<1>9. QED  BY <1>7, <1>8, Zenon DEF Connect

LEMMA PushSafe ==
  ASSUME SafeInv, Push
  PROVE  SafeInv'
<1>1. At("net") = "push"
  BY DEF Push
<1>2. PICK x \in Frames, r \in Seq(Frames) : InCall("net", x, r)
  BY <1>1, NetCall
<1>3. "net" \in Threads /\ TopOf(r) = "none" /\ x.at = "push" /\ x.at \notin Stopping
  BY <1>1, <1>2, NetCall DEF Stopping
<1>4. PICK y \in Frames : y = Frame("get_client") /\ y.at = "get_client"
  BY PlaceFrames DEF Places
<1>5. Replace("net", <<y>>)
  BY <1>4, Zenon DEF Push, Goto
<1>6. Leaves(x)
  BY <1>3 DEF Push, Leaves, Unlock, Holders
<1>7. <<y.at, TopOf(r)>> \in Calls("net") /\ y.at \notin Holders /\ y.at \notin Starting
  BY <1>3, <1>4 DEF Calls, Holders, Starting
<1>8. clients' \subseteq Somebody
  <2>1. /\ message.address \in Addresses \cup {NOBODY} /\ message.session \in Sessions
        /\ message.name \in Names \cup {OBSERVER}
    BY DEF SafeInv, ServerTypeOK, Something
  <2>2. PICK d \in Somebody :
           d = [address |-> message.address, session |-> message.session,
                name |-> message.name, active |-> TRUE]
    BY <2>1 DEF Somebody
  <2>3. clients' = clients \cup {d}
    BY <2>2, Zenon DEF Push
  <2>4. QED  BY <2>3 DEF SafeInv, ServerTypeOK
<1>9. /\ message' \in Something /\ connecting' \in BOOLEAN /\ crashed' \in BOOLEAN
      /\ players' \subseteq Names /\ ready' \subseteq Names
      /\ players_mutex' = players_mutex /\ running' = running /\ loop' = loop
  BY DEF SafeInv, ServerTypeOK, Push, gameVars
<1>10. QED  BY <1>2, <1>3, <1>5, <1>6, <1>7, <1>8, <1>9, GoesSafe

LEMMA HandleSafe ==
  ASSUME Quiet, SafeInv, Handle
  PROVE  SafeInv'
<1>1. CASE GetClient \/ Add
  <2>1. "net" \in Threads /\ "found" \in Places /\ "push" \in Places
    BY DEF Threads, Places
  <2>2. CASE GetClient
    BY <2>1, <2>2, EntersSafe DEF GetClient
  <2>3. CASE Add
    BY <2>1, <2>3, EntersSafe DEF Add
  <2>4. QED  BY <1>1, <2>2, <2>3
<1>2. CASE FoundNone
  BY <1>2, NotFoundSafe DEF FoundNone
<1>3. CASE Erase
  BY <1>3, NotFoundSafe DEF Erase
<1>4. QED
  BY <1>1, <1>2, <1>3, ActSafe, ConnectSafe, PushSafe, FoundSafe, Zenon DEF Handle

LEMMA WorkSafe ==
  ASSUME Quiet, SafeInv, NEW t \in Threads, Work(t)
  PROVE  SafeInv'
<1>1. At(t) # "idle"
  BY DEF Work, DropPlayer, DropObserver, EndCleanup, Broadcast, Sent, Started
<1>2. PICK x \in Frames, r \in Seq(Frames) : InCall(t, x, r)
  BY <1>1, InsideCall
<1>3. /\ x.at = At(t) /\ x.todo = Todo(t) /\ x.todo \subseteq Somebody
      /\ x.at \notin Stopping
  <2>1. x.at = At(t) /\ x.todo = Todo(t) /\ x.todo \subseteq Somebody
    BY <1>2 DEF InCall, Frames
  <2>2. At(t) \in {"cleanup", "broadcast", "sent", "started"}
    BY DEF Work, DropPlayer, DropObserver, EndCleanup, Broadcast, Sent, Started
  <2>3. QED  BY <2>1, <2>2 DEF Stopping
<1>4. CASE DropPlayer(t)
  <2>1. PICK c \in Todo(t) :
           OnDisconnect(t, c.name, <<[Cleanup EXCEPT !.todo = Todo(t) \ {c}]>>)
    BY <1>4, Zenon DEF DropPlayer
  <2>2. PICK y \in Frames :
           y = [Cleanup EXCEPT !.todo = Todo(t) \ {c}] /\ y.at = "cleanup"
    <3>1. PICK todo \in SUBSET Somebody : todo = Todo(t)
      BY <1>3
    <3>2. QED  BY <3>1, FewerLeft, Zenon
  <2>3. UNCHANGED <<clients, connections_mutex, crashed>> /\ LocalsKept
    BY <1>4 DEF DropPlayer
  <2>4. <<x.at, y.at>> \in {<<"cleanup", "cleanup">>, <<"found", "erase">>}
    BY <1>3, <1>4, <2>2 DEF DropPlayer
  <2>5. OnDisconnect(t, c.name, <<y>>)
    BY <2>1, <2>2, Zenon
  <2>6. QED  BY <1>2, <2>3, <2>4, <2>5, LeavesSafe
<1>5. CASE DropObserver(t)
  <2>1. PICK c \in Todo(t) : Replace(t, <<[Cleanup EXCEPT !.todo = Todo(t) \ {c}]>>)
    BY <1>5, Zenon DEF DropObserver
  <2>2. PICK y \in Frames :
           y = [Cleanup EXCEPT !.todo = Todo(t) \ {c}] /\ y.at = "cleanup"
    <3>1. PICK todo \in SUBSET Somebody : todo = Todo(t)
      BY <1>3
    <3>2. QED  BY <3>1, FewerLeft, Zenon
  <2>3. Replace(t, <<y>>)
    BY <2>1, <2>2, Zenon
  <2>4. x.at = "cleanup"
    BY <1>3, <1>5 DEF DropObserver
  <2>5. connections_mutex' = connections_mutex /\ LocalsKept
    BY <1>5, Zenon DEF DropObserver
  <2>6. Leaves(x) /\ message' \in Something /\ connecting' \in BOOLEAN
    BY <2>5, NetTypes DEF Leaves, SafeInv
  <2>7. <<y.at, TopOf(r)>> \in Calls(t) /\ y.at \notin Holders /\ y.at \notin Starting
    BY <1>2, <2>2, <2>4 DEF InCall, Holders, Starting
  <2>8. /\ clients' \subseteq Somebody /\ crashed' \in BOOLEAN
        /\ players' \subseteq Names /\ ready' \subseteq Names
        /\ players_mutex' = players_mutex /\ running' = running /\ loop' = loop
    BY <1>5 DEF DropObserver, SafeInv, ServerTypeOK, gameVars
  <2>9. QED  BY <1>2, <1>3, <2>3, <2>6, <2>7, <2>8, GoesSafe
<1>6. CASE EndCleanup(t)
  <2>1. connections_mutex' = connections_mutex /\ LocalsKept /\ Return(t)
    BY <1>6, Zenon DEF EndCleanup
  <2>2. Leaves(x)
    BY <2>1 DEF Leaves
  <2>3. /\ clients' \subseteq Somebody /\ crashed' \in BOOLEAN
        /\ players' \subseteq Names /\ ready' \subseteq Names
        /\ players_mutex' = players_mutex /\ running' = running /\ loop' = loop
    BY <1>6 DEF EndCleanup, SafeInv, ServerTypeOK, gameVars
  <2>4. QED  BY <1>2, <1>3, <2>1, <2>2, <2>3, ReturnsSafe
<1>7. CASE Broadcast(t)
  <2>1. "sent" \in Places
    BY DEF Places
  <2>2. QED  BY <1>7, <2>1, EntersSafe DEF Broadcast
<1>8. CASE Sent(t)
  <2>1. Return(t) /\ Leaves(x) /\ LocalsKept
    BY <1>3, <1>8 DEF Sent, Leaves, Unlock, Holders
  <2>2. /\ clients' \subseteq Somebody /\ crashed' \in BOOLEAN
        /\ players' \subseteq Names /\ ready' \subseteq Names
        /\ players_mutex' = players_mutex /\ running' = running /\ loop' = loop
    BY <1>8 DEF Sent, SafeInv, ServerTypeOK, gameVars
  <2>3. QED  BY <1>2, <1>3, <2>1, <2>2, ReturnsSafe
<1>9. CASE Started(t)
  <2>1. connections_mutex' = connections_mutex /\ LocalsKept /\ Return(t)
    BY <1>9, Zenon DEF Started
  <2>2. Becomes(t, r)
    BY <1>2, <2>1, Replaced, Zenon DEF InCall, SafeInv
  <2>3. Leaves(x)
    BY <2>1 DEF Leaves
  <2>4. stack' \in [Threads -> Seq(Frames)] /\ StackInv' /\ LockInv'
    BY <1>2, <2>2, <2>3, Returns
  <2>5. x.at = "started" /\ x.at \in Starting /\ t = "net"
    BY <1>2, <1>3, <1>9 DEF Started, Starting, InCall, Calls, Threads
  <2>6. stack'["net"] = r /\ stack'["loop"] = stack["loop"]
    BY <2>2, <2>5, BecomesIs DEF SafeInv, Threads
  <2>7. running /\ ~Has(r, Starting) /\ Once(r, Starting)
    BY <1>2, <2>5 DEF InCall, SafeInv, PlayInv
  <2>8. PlayInv'
    BY <1>9, <2>6, <2>7 DEF Started, PlayInv
  <2>9. ServerTypeOK'
    BY <1>9, <2>4, NetTypes DEF Started, SafeInv, ServerTypeOK
  <2>10. QED  BY <2>4, <2>8, <2>9 DEF SafeInv
<1>10. QED  BY <1>4, <1>5, <1>6, <1>7, <1>8, <1>9 DEF Work

-----------------------------------------------------------------------------
(* The theorem about the locks.                                            *)
LEMMA InitSafe ==
  ASSUME Init
  PROVE  SafeInv
<1>1. ServerTypeOK
  <2>1. NoMessage \in Something
    BY DEF NoMessage, Something, Sessions
  <2>2. stack \in [Threads -> Seq(Frames)]
    BY EmptyStack DEF Init
  <2>3. QED  BY <2>1, <2>2 DEF Init, ServerTypeOK
<1>2. \A t \in Threads : stack[t] = << >>
  BY DEF Init
<1>3. StackInv /\ LockInv
  BY <1>2, EmptyStack DEF StackInv, LockInv
<1>4. PlayInv
  BY <1>2, EmptyStack DEF PlayInv, Init, Threads
<1>5. QED  BY <1>1, <1>3, <1>4 DEF SafeInv

LEMMA NextSafe ==
  ASSUME Quiet, SafeInv, Next
  PROVE  SafeInv'
<1>1. ASSUME NEW c \in clients, FallSilent(c) PROVE SafeInv'
  <2>1. [c EXCEPT !.active = FALSE] \in Somebody
    BY DEF SafeInv, ServerTypeOK, Somebody
  <2>2. clients' \subseteq Somebody
    BY <1>1, <2>1 DEF FallSilent, SafeInv, ServerTypeOK
  <2>3. UNCHANGED <<connections_mutex, players_mutex, gameVars, stack, netVars, crashed>>
    BY <1>1, Zenon DEF FallSilent
  <2>4. ServerTypeOK'
    BY <2>2, <2>3 DEF SafeInv, ServerTypeOK, gameVars, netVars
  <2>5. StackInv' /\ LockInv' /\ PlayInv'
    BY <2>3 DEF SafeInv, StackInv, LockInv, PlayInv, gameVars
  <2>6. QED  BY <2>4, <2>5 DEF SafeInv
<1>2. QED  BY <1>1, PollSafe, HandleSafe, LoopSafe, WorkSafe, Zenon DEF Next

LEMMA SameSafe ==
  ASSUME SafeInv, UNCHANGED vars
  PROVE  SafeInv'
<1>1. /\ UNCHANGED <<clients, connections_mutex, players_mutex, stack, message>>
      /\ UNCHANGED <<players, ready, running, loop, connecting, crashed>>
  BY DEF vars, gameVars, netVars
<1>2. ServerTypeOK'
  BY <1>1 DEF SafeInv, ServerTypeOK
<1>3. StackInv' /\ LockInv' /\ PlayInv'
  BY <1>1 DEF SafeInv, StackInv, LockInv, PlayInv
<1>4. QED  BY <1>2, <1>3 DEF SafeInv

(* Every state has SafeInv: each variable its type, the calls of a thread  *)
(* nest as in the code, connections_mutex belongs to the only call that    *)
(* works under it, and players_mutex is kept only by a game that starts,   *)
(* in the network thread, while no thread is in game_loop(): not the one   *)
(* of the game before either, because the calls are Quiet.                 *)
THEOREM CallsNest ==
  ASSUME Quiet
  PROVE  Spec => []SafeInv
<1>1. SafeInv /\ [Next]_vars => SafeInv'
  BY NextSafe, SameSafe
<1>2. QED  BY InitSafe, <1>1, PTL DEF Spec

(* The two threads never wait for each other's mutexes: the game's thread  *)
(* would have to wait for players_mutex, which the network thread keeps    *)
(* only while no thread is in game_loop().  That is where Quiet is needed: *)
(* the thread of the game before, if it found `running` set again, would   *)
(* play on, and a cleanup of its wait under connections_mutex.             *)
LEMMA SafeHasNoCycle ==
  ASSUME SafeInv
  PROVE  NoLockCycle
<1>1. ASSUME WaitsFor("net", "loop"), WaitsFor("loop", "net") PROVE FALSE
  <2>1. At("loop") # "idle"
    BY <1>1 DEF WaitsFor, WantsConnections, WantsPlayers
  <2>2. loop
    BY <2>1 DEF At, SafeInv, PlayInv
  <2>3. players_mutex # "net" /\ players_mutex # "loop"
    BY <2>2 DEF SafeInv, PlayInv
  <2>4. connections_mutex = "loop" /\ connections_mutex = "net"
    BY <1>1, <2>3 DEF WaitsFor
  <2>5. QED  BY <2>4
<1>2. QED  BY <1>1, Zenon DEF NoLockCycle

THEOREM ThreadsDoNotBlock ==
  ASSUME Quiet
  PROVE  Spec => []NoLockCycle
<1>1. QED  BY CallsNest, SafeHasNoCycle, PTL

-----------------------------------------------------------------------------
(* What cleanups have told of and have to tell of, call by call.           *)
LEMMA ByOn ==
  ASSUME NEW x \in Frames, NEW r \in Seq(Frames)
  PROVE  /\ ToldBy(On(x, r)) =
               (IF x.at = "cleanup" THEN Somebody \ x.todo ELSE {}) \cup ToldBy(r)
         /\ TodoBy(On(x, r)) =
               (IF x.at = "cleanup" THEN x.todo ELSE {}) \cup TodoBy(r)
<1>1. x.todo \subseteq Somebody
  BY DEF Frames
<1>2. \A c : c \in ToldBy(On(x, r)) <=>
               c \in Somebody /\ ((x.at = "cleanup" /\ c \notin x.todo) \/ ToldIn(r, c))
  BY ToldOn, Zenon DEF ToldBy
<1>3. \A c : c \in TodoBy(On(x, r)) <=>
               c \in Somebody /\ ((x.at = "cleanup" /\ c \in x.todo) \/ TodoIn(r, c))
  BY TodoOn, Zenon DEF TodoBy
<1>4. \A c : /\ c \in ToldBy(r) <=> c \in Somebody /\ ToldIn(r, c)
             /\ c \in TodoBy(r) <=> c \in Somebody /\ TodoIn(r, c)
  BY DEF ToldBy, TodoBy
<1>5. QED  BY <1>1, <1>2, <1>3, <1>4

LEMMA ByOther ==
  ASSUME NEW x \in Frames, NEW r \in Seq(Frames), x.at # "cleanup"
  PROVE  ToldBy(On(x, r)) = ToldBy(r) /\ TodoBy(On(x, r)) = TodoBy(r)
BY ByOn

LEMMA ByNobody ==
  ASSUME NEW s, ~Has(s, {"cleanup"})
  PROVE  ToldBy(s) = {} /\ TodoBy(s) = {}
BY DEF Has, ToldBy, TodoBy, ToldIn, TodoIn

(* Below the innermost call there are only calls that others wait in.      *)
LEMMA Below ==
  ASSUME NEW t, NEW x \in Frames, NEW r \in Seq(Frames), Stands(t, On(x, r)),
         NEW p, Has(r, {p})
  PROVE  \E o : <<o, p>> \in Calls(t)
<1>1. PICK s, n : s = On(x, r) /\ Joined(s, n, x, r)
  BY OnJoins
<1>2. PICK i \in 1 .. n : r[i].at = p
  BY <1>1 DEF Has, Joined
<1>3. i + 1 \in 1 .. n + 1 /\ s[i + 1] = r[i] /\ Len(s) = n + 1 /\ DOMAIN s = 1 .. n + 1
  BY <1>1 DEF Joined
<1>4. i \in 1 .. n + 1 /\ i # n + 1
  BY <1>1 DEF Joined
<1>5. <<s[i].at, IF i = Len(s) THEN "none" ELSE s[i + 1].at>> \in Calls(t)
  BY <1>1, <1>3, <1>4, Zenon DEF Stands
<1>6. <<s[i].at, p>> \in Calls(t)
  BY <1>2, <1>3, <1>4, <1>5
<1>7. QED  BY <1>6

(* The game's thread cleans up under connections_mutex, and not in another *)
(* cleanup.                                                                *)
LEMMA LoopCleans ==
  ASSUME SafeInv, connections_mutex # "loop"
  PROVE  ~Has(stack["loop"], {"cleanup"})
<1>1. "loop" \in Threads /\ Stands("loop", stack["loop"])
      /\ ~Has(stack["loop"], Holders)
  BY DEF SafeInv, StackInv, LockInv, Threads
<1>2. PICK s \in Seq(Frames) : s = stack["loop"]
  BY <1>1 DEF SafeInv, ServerTypeOK
<1>3. ASSUME NEW i \in DOMAIN s, s[i].at = "cleanup" PROVE FALSE
  <2>1. <<s[i].at, IF i = Len(s) THEN "none" ELSE s[i + 1].at>> \in Calls("loop")
    BY <1>1, <1>2, <1>3 DEF Stands
  <2>2. i # Len(s) /\ s[i + 1].at = "sent"
    BY <1>3, <2>1 DEF Calls
  <2>3. i + 1 \in DOMAIN s
    BY <1>2, <2>2
  <2>4. QED  BY <1>1, <1>2, <2>2, <2>3 DEF Has, Holders
<1>4. QED  BY <1>2, <1>3 DEF Has

LEMMA LoopCleansOnce ==
  ASSUME SafeInv, NEW x \in Frames, NEW r \in Seq(Frames), InCall("loop", x, r)
  PROVE  ~Has(r, {"cleanup"})
<1>1. "loop" \in Threads /\ Stands("loop", On(x, r))
  BY DEF InCall, SafeInv, StackInv, Threads
<1>2. ~ \E o : <<o, "cleanup">> \in Calls("loop")
  BY DEF Calls
<1>3. QED  BY <1>1, <1>2, Below

(* A call that is outermost tells what the network thread is doing.        *)
LEMMA NetIs ==
  ASSUME SafeInv,
         At("net") \in {"get_client", "found", "erase", "act", "connect", "add", "push"}
  PROVE  /\ \A P : Has(stack["net"], P) <=> At("net") \in P
         /\ ToldBy(stack["net"]) = {} /\ TodoBy(stack["net"]) = {}
<1>1. PICK x \in Frames, r \in Seq(Frames) : InCall("net", x, r)
  BY NetCall
<1>2. r = << >> /\ x.at = At("net")
  BY <1>1, NetCall
<1>3. stack["net"] = On(x, << >>) /\ << >> \in Seq(Frames)
  BY <1>1, <1>2 DEF InCall
<1>4. ASSUME NEW P PROVE Has(stack["net"], P) <=> At("net") \in P
  <2>1. Has(On(x, << >>), P) <=> x.at \in P \/ Has(<< >>, P)
    BY <1>3, HasOn, Zenon
  <2>2. ~Has(<< >>, P)
    BY DEF Has
  <2>3. QED  BY <1>2, <1>3, <2>1, <2>2, Zenon
<1>5. ~Has(stack["net"], {"cleanup"})
  BY <1>4
<1>6. QED  BY <1>4, <1>5, ByNobody

(* While the network thread works under connections_mutex and does not     *)
(* clean up, nobody has been told of.                                      *)
LEMMA NobodyTold ==
  ASSUME SafeInv, connections_mutex # "loop",
         At("net") \in {"get_client", "found", "erase", "act", "connect", "add", "push"}
  PROVE  /\ \A t \in Threads : ToldBy(stack[t]) = {} /\ TodoBy(stack[t]) = {}
         /\ ToldNow = IF At("net") = "erase" THEN ClientsOf(message.address) ELSE {}
         /\ PendingNow = IF At("net") \in {"add", "push"} THEN {message.name} \cap Names ELSE {}
<1>1. \A P : Has(stack["net"], P) <=> At("net") \in P
  BY NetIs
<1>2. \A t \in Threads : ToldBy(stack[t]) = {} /\ TodoBy(stack[t]) = {}
  BY NetIs, LoopCleans, ByNobody DEF Threads
<1>3. Has(stack["net"], {"erase"}) <=> At("net") = "erase"
  BY <1>1
<1>4. QED  BY <1>1, <1>2, <1>3, Zenon DEF ToldNow, ErasedNow, PendingNow

-----------------------------------------------------------------------------
(* Steps that change neither the clients nor the players.  The locals of a *)
(* handler that ended are of no use any more.                              *)
MessageKept ==
    \/ message' = message
    \/ /\ ~Has(stack'["net"], {"erase"})
       /\ ~Has(stack'["net"], {"add", "push"})
       /\ ~Has(stack'["net"], {"connect", "add", "push"})

LEMMA LocalsEnd ==
  ASSUME LocalsKept
  PROVE  MessageKept
<1>1. CASE stack'["net"] = << >>
  BY <1>1, EmptyStack DEF MessageKept
<1>2. CASE stack'["net"] # << >>
  BY <1>2 DEF LocalsKept, MessageKept, netVars
<1>3. QED  BY <1>1, <1>2

(* The network thread with the calls s is where it was.                    *)
NetKept(s) ==
    /\ Has(s, {"erase"}) <=> Has(stack["net"], {"erase"})
    /\ Has(s, {"add", "push"}) <=> Has(stack["net"], {"add", "push"})
    /\ Has(s, {"connect", "add", "push"}) => ClientsOf(message.address) = {}

LEMMA NowKept ==
  ASSUME SafeInv, IsNew, NEW t \in Threads, NEW s \in Seq(Frames), Becomes(t, s),
         clients' = clients, t = "net" => NetKept(s), MessageKept
  PROVE  ErasedNow' = ErasedNow /\ PendingNow' = PendingNow /\ IsNew'
<1>1. stack'[t] = s /\ \A u \in Threads \ {t} : stack'[u] = stack[u]
  BY BecomesIs DEF SafeInv
<1>2. NetKept(stack'["net"])
  <2>1. CASE t = "net"
    BY <1>1, <2>1
  <2>2. CASE t = "loop"
    <3>1. stack'["net"] = stack["net"]
      BY <1>1, <2>2 DEF Threads
    <3>2. QED  BY <3>1, Zenon DEF NetKept, IsNew
  <2>3. QED  BY <2>1, <2>2 DEF Threads
<1>3. CASE message' = message
  <2>1. ClientsOf(message.address)' = ClientsOf(message.address)
    BY <1>3 DEF ClientsOf
  <2>2. QED  BY <1>2, <1>3, <2>1, Zenon DEF NetKept, ErasedNow, PendingNow, IsNew
<1>4. CASE message' # message
  <2>1. /\ ~Has(stack'["net"], {"erase"})
        /\ ~Has(stack'["net"], {"add", "push"})
        /\ ~Has(stack'["net"], {"connect", "add", "push"})
    BY <1>4, Zenon DEF MessageKept
  <2>2. QED  BY <2>1, <1>2, <1>4, Zenon DEF NetKept, ErasedNow, PendingNow, IsNew
<1>5. QED  BY <1>3, <1>4

LEMMA RosterKept ==
  ASSUME SafeInv, TodoInv, RosterInv,
         NEW t \in Threads, NEW s \in Seq(Frames), Becomes(t, s),
         clients' = clients, players' = players, ready' \subseteq players,
         Inactive \cap ToldBy(s) = Inactive \cap ToldBy(stack[t]),
         \A c \in TodoBy(s) :
            c \in TodoBy(stack[t]) \/ (c \in Inactive /\ c.name \notin PendingNow),
         t = "net" => NetKept(s), MessageKept
  PROVE  TodoInv' /\ RosterInv'
<1>1. stack'[t] = s /\ \A u \in Threads \ {t} : stack'[u] = stack[u]
  BY BecomesIs DEF SafeInv
<1>2. ErasedNow' = ErasedNow /\ PendingNow' = PendingNow /\ IsNew'
  BY NowKept DEF RosterInv
<1>3. Inactive' = Inactive
  BY DEF Inactive
<1>4. \A u \in Threads : Inactive \cap ToldBy(stack'[u]) = Inactive \cap ToldBy(stack[u])
  BY <1>1
<1>5. ToldNow' = ToldNow
  <2>1. ToldNow' = {c \in Inactive : \E u \in Threads : c \in ToldBy(stack'[u])} \cup ErasedNow
    BY <1>2, <1>3 DEF ToldNow, ToldBy
  <2>2. QED  BY <1>4, <2>1 DEF ToldNow
<1>6. RosterInv'
  BY <1>2, <1>5 DEF RosterInv, Roster
<1>7. TodoInv'
  <2>1. ASSUME NEW u \in Threads, NEW c \in TodoBy(stack'[u])
        PROVE  c.name \notin PendingNow /\ (c \in Inactive \/ (u = "net" /\ c.name \notin players))
    <3>1. CASE u = t
      BY <1>1, <2>1, <3>1 DEF TodoInv
    <3>2. CASE u # t
      BY <1>1, <2>1, <3>2 DEF TodoInv
    <3>3. QED  BY <3>1, <3>2
  <2>2. TodoInv' <=> \A u \in Threads : \A c \in TodoBy(stack'[u]) :
           /\ c.name \notin PendingNow
           /\ c \in Inactive \/ (u = "net" /\ c.name \notin players)
    BY <1>2, <1>3 DEF TodoInv, TodoBy
  <2>3. QED  BY <2>1, <2>2
<1>8. QED  BY <1>6, <1>7

LEMMA PopsKept ==
  ASSUME SafeInv, TodoInv, RosterInv,
         NEW t \in Threads, NEW x \in Frames, NEW r \in Seq(Frames), InCall(t, x, r),
         x.at \in {"sent", "started", "leave", "found", "connect"}, Becomes(t, r),
         clients' = clients, players' = players, ready' \subseteq players, LocalsKept
  PROVE  TodoInv' /\ RosterInv'
<1>1. stack[t] = On(x, r)
  BY DEF InCall
<1>2. ToldBy(r) = ToldBy(stack[t]) /\ TodoBy(r) = TodoBy(stack[t])
  <2>1. /\ ToldBy(On(x, r)) =
               (IF x.at = "cleanup" THEN Somebody \ x.todo ELSE {}) \cup ToldBy(r)
        /\ TodoBy(On(x, r)) =
               (IF x.at = "cleanup" THEN x.todo ELSE {}) \cup TodoBy(r)
    BY ByOn, Zenon
  <2>2. x.at # "cleanup"
    OBVIOUS
  <2>3. ToldBy(On(x, r)) = ToldBy(r) /\ TodoBy(On(x, r)) = TodoBy(r)
    <3> HIDE DEF ToldBy, TodoBy
    <3>1. QED  BY <2>1, <2>2
  <2>4. QED  BY <1>1, <2>3, Zenon
<1>3. \A P : Has(stack[t], P) <=> x.at \in P \/ Has(r, P)
  BY <1>1, HasOn
<1>4. t = "net" => NetKept(r)
  BY <1>3 DEF NetKept, RosterInv, IsNew
<1>5. QED  BY <1>2, <1>4, LocalsEnd, RosterKept

(* A client's name is not pending while connections_mutex is free.         *)
LEMMA PendingFree ==
  ASSUME SafeInv, RosterInv, connections_mutex = NOBODY
  PROVE  \A c \in clients : c.name \notin PendingNow
<1>1. ASSUME NEW c \in clients, c.name \in PendingNow PROVE FALSE
  <2>1. Has(stack["net"], {"add", "push"}) /\ c \in ToldNow
    BY <1>1 DEF PendingNow, RosterInv, Roster
  <2>2. "net" \in Threads /\ ~Has(stack["net"], Holders)
    BY DEF SafeInv, LockInv, Threads
  <2>3. Has(stack["net"], {"add"})
    BY <2>1, <2>2 DEF Has, Holders
  <2>4. At("net") # "idle"
    <3>1. stack["net"] # << >> /\ Head(stack["net"]) \in Frames
      BY <2>2, <2>3 DEF Has, SafeInv, ServerTypeOK
    <3>2. QED  BY <3>1 DEF At, Frames, Places
  <2>5. PICK x \in Frames, r \in Seq(Frames) : InCall("net", x, r)
    BY <2>2, <2>4, InsideCall
  <2>6. stack["net"] = On(x, r) /\ Stands("net", On(x, r))
    BY <2>2, <2>5 DEF InCall, SafeInv, StackInv
  <2>7. ~ \E o : <<o, "add">> \in Calls("net")
    BY DEF Calls
  <2>8. ~Has(r, {"add"})
    BY <2>6, <2>7, Below
  <2>9. Has(On(x, r), {"add"}) <=> x.at \in {"add"} \/ Has(r, {"add"})
    BY HasOn
  <2>10. At("net") = "add"
    BY <2>3, <2>5, <2>6, <2>8, <2>9 DEF InCall
  <2>11. connections_mutex # "loop"
    OBVIOUS
  <2>12. ToldNow = {}
    BY <2>10, <2>11, NobodyTold
  <2>13. QED  BY <2>1, <2>12
<1>2. QED  BY <1>1

LEMMA EntersKept ==
  ASSUME SafeInv, TodoInv, RosterInv, NEW t \in Threads, NEW p, NEW q \in Places,
         <<p, q>> \in {<<"get_client", "found">>, <<"add", "push">>, <<"broadcast", "sent">>},
         At(t) = p, Lock(t), Call(t, Cleanup, q), LocalsKept,
         UNCHANGED <<clients, players, ready>>
  PROVE  TodoInv' /\ RosterInv'
<1>1. PICK x \in Frames, r \in Seq(Frames) : InCall(t, x, r)
  BY InsideCall
<1>2. PICK y \in Frames : y = Cleanup /\ y.at = "cleanup" /\ y.todo = Inactive
  BY PlaceFrames DEF SafeInv
<1>3. PICK z \in Frames : z = Frame(q) /\ z.at = q
  BY PlaceFrames
<1>4. Becomes(t, On(y, On(z, r)))
  BY <1>1, <1>2, <1>3, Replaced, Zenon DEF InCall, SafeInv
<1>5. PICK u \in Seq(Frames) : u = On(z, r)
  BY OnType
<1>6. PICK s \in Seq(Frames) : s = On(y, u)
  BY OnType
<1>7. stack[t] = On(x, r) /\ x.at = p
  BY <1>1 DEF InCall
<1>8. /\ ToldBy(s) = (Somebody \ Inactive) \cup ToldBy(stack[t])
      /\ TodoBy(s) = Inactive \cup TodoBy(stack[t])
  <2>1. ToldBy(s) = (Somebody \ Inactive) \cup ToldBy(u) /\ TodoBy(s) = Inactive \cup TodoBy(u)
    BY <1>2, <1>6, ByOn
  <2>2. x.at # "cleanup" /\ z.at # "cleanup"
    BY <1>3, <1>7
  <2>3. ToldBy(u) = ToldBy(r) /\ TodoBy(u) = TodoBy(r)
    BY <1>5, <2>2, ByOther, Zenon
  <2>4. ToldBy(stack[t]) = ToldBy(r) /\ TodoBy(stack[t]) = TodoBy(r)
    BY <1>7, <2>2, ByOther, Zenon
  <2>5. QED  BY <2>1, <2>3, <2>4
<1>9. \A c \in Inactive : c.name \notin PendingNow
  BY PendingFree DEF Inactive, Lock
<1>10. \A P : Has(stack[t], P) <=> p \in P \/ Has(r, P)
  BY <1>7, HasOn
<1>11. \A P : Has(s, P) <=> "cleanup" \in P \/ q \in P \/ Has(r, P)
  BY <1>2, <1>3, <1>5, <1>6, HasOn
<1>12. t = "net" => NetKept(s)
  <2>1. /\ Has(s, {"erase"}) <=> Has(stack[t], {"erase"})
        /\ Has(s, {"add", "push"}) <=> Has(stack[t], {"add", "push"})
        /\ Has(s, {"connect", "add", "push"}) <=> Has(stack[t], {"connect", "add", "push"})
    BY <1>10, <1>11
  <2>2. QED  BY <2>1, Zenon DEF NetKept, RosterInv, IsNew
<1>13. Inactive \cap ToldBy(s) = Inactive \cap ToldBy(stack[t])
  BY <1>8
<1>14. /\ clients' = clients /\ players' = players /\ ready' \subseteq players
       /\ MessageKept
  BY LocalsEnd DEF RosterInv, Roster
<1>15. \A c \in TodoBy(s) :
          c \in TodoBy(stack[t]) \/ (c \in Inactive /\ c.name \notin PendingNow)
  BY <1>8, <1>9
<1>16. Becomes(t, s)
  BY <1>4, <1>5, <1>6
<1>17. QED
  BY <1>12, <1>13, <1>14, <1>15, <1>16, RosterKept

(* An idle thread begins with the calls s.                                 *)
LEMMA WakesKept ==
  ASSUME SafeInv, TodoInv, RosterInv, NEW t \in Threads, At(t) = "idle",
         NEW s \in Seq(Frames), Becomes(t, s),
         ~Has(s, {"erase"}), ~Has(s, {"add", "push"}), ~Has(s, {"connect", "add", "push"}),
         Inactive \cap ToldBy(s) = {}, TodoBy(s) \subseteq Inactive,
         t = "loop" => TodoBy(s) = {} /\ LocalsKept,
         UNCHANGED <<clients, players, ready>>
  PROVE  TodoInv' /\ RosterInv'
<1>1. stack[t] = << >> /\ << >> \in Seq(Frames)
  BY AtIdle DEF SafeInv
<1>2. \A P : ~Has(stack[t], P)
  BY <1>1 DEF Has
<1>3. ToldBy(stack[t]) = {}
  BY <1>2, ByNobody
<1>4. t = "net" => NetKept(s) /\ PendingNow = {}
  BY <1>2, Zenon DEF NetKept, PendingNow
<1>5. stack'[t] = s
  BY BecomesIs DEF SafeInv
<1>6. MessageKept
  BY <1>5, LocalsEnd DEF MessageKept, Threads
<1>7. \A c \in TodoBy(s) :
         c \in TodoBy(stack[t]) \/ (c \in Inactive /\ c.name \notin PendingNow)
  BY <1>4 DEF Threads
<1>8. clients' = clients /\ players' = players /\ ready' \subseteq players
  BY DEF RosterInv, Roster
<1>9. QED  BY <1>3, <1>4, <1>6, <1>7, <1>8, RosterKept

LEMMA OneCallBy ==
  ASSUME NEW y \in Frames
  PROVE  /\ y.at # "cleanup" => ToldBy(<<y>>) = {} /\ TodoBy(<<y>>) = {}
         /\ y.at = "cleanup" => ToldBy(<<y>>) = Somebody \ y.todo /\ TodoBy(<<y>>) = y.todo
<1>1. PICK r \in Seq(Frames) : r = << >>
  <2>1. << >> \in Seq(Frames)
    OBVIOUS
  <2>2. QED  BY <2>1, Zenon
<1>2. PICK s : s = <<y>> /\ s = On(y, r)
  BY <1>1, OneCall, Zenon
<1>3. ~Has(r, {"cleanup"})
  BY <1>1 DEF Has
<1>4. ToldBy(r) = {} /\ TodoBy(r) = {}
  BY <1>3, ByNobody
<1>5. /\ y.at # "cleanup" => ToldBy(s) = {} /\ TodoBy(s) = {}
      /\ y.at = "cleanup" => ToldBy(s) = Somebody \ y.todo /\ TodoBy(s) = y.todo
  <2>1. /\ ToldBy(s) =
              (IF y.at = "cleanup" THEN Somebody \ y.todo ELSE {}) \cup ToldBy(r)
        /\ TodoBy(s) =
              (IF y.at = "cleanup" THEN y.todo ELSE {}) \cup TodoBy(r)
    BY <1>2, ByOn, Zenon
  <2>2. QED  BY <1>4, <2>1
<1>6. QED  BY <1>2, <1>5, Zenon

LEMMA PollKept ==
  ASSUME SafeInv, TodoInv, RosterInv, Poll
  PROVE  TodoInv' /\ RosterInv'
<1>1. "net" \in Threads
  BY DEF Threads
<1>2. ASSUME NEW m \in Sends, Receive(m) PROVE TodoInv' /\ RosterInv'
  <2>1. PICK y \in Frames : y = Frame("get_client") /\ y.at = "get_client"
    BY PlaceFrames DEF Places
  <2>2. Becomes("net", <<y>>) /\ At("net") = "idle" /\ UNCHANGED <<clients, players, ready>>
    BY <1>2, <2>1, Zenon DEF Receive, Becomes, gameVars
  <2>3. PICK s \in Seq(Frames) : s = <<y>>
    BY OneCall, Zenon
  <2>4. /\ ~Has(s, {"erase"}) /\ ~Has(s, {"add", "push"})
        /\ ~Has(s, {"connect", "add", "push"})
    BY <2>1, <2>3, OneCall
  <2>5. ToldBy(s) = {} /\ TodoBy(s) = {}
    BY <2>1, <2>3, OneCallBy
  <2>6. QED  BY <1>1, <2>2, <2>3, <2>4, <2>5, WakesKept
<1>3. ASSUME PollTimeout PROVE TodoInv' /\ RosterInv'
  <2>1. PICK y \in Frames : y = Cleanup /\ y.at = "cleanup" /\ y.todo = Inactive
    BY PlaceFrames DEF SafeInv
  <2>2. Becomes("net", <<y>>) /\ At("net") = "idle" /\ UNCHANGED <<clients, players, ready>>
    BY <1>3, <2>1, Zenon DEF PollTimeout, Becomes, CleanupOnly, gameVars
  <2>3. PICK s \in Seq(Frames) : s = <<y>>
    BY OneCall, Zenon
  <2>4. /\ ~Has(s, {"erase"}) /\ ~Has(s, {"add", "push"})
        /\ ~Has(s, {"connect", "add", "push"})
    BY <2>1, <2>3, OneCall
  <2>5. ToldBy(s) = Somebody \ Inactive /\ TodoBy(s) = Inactive
    BY <2>1, <2>3, OneCallBy
  <2>6. QED  BY <1>1, <2>2, <2>3, <2>4, <2>5, WakesKept
<1>4. QED  BY <1>2, <1>3, Zenon DEF Poll

LEMMA LoopKept ==
  ASSUME SafeInv, TodoInv, RosterInv, LoopEvent \/ Ending
  PROVE  TodoInv' /\ RosterInv'
<1>1. "loop" \in Threads
  BY DEF Threads
<1>2. CASE LoopEvent
  <2>1. PICK y \in Frames : y = Frame("broadcast") /\ y.at = "broadcast"
    BY PlaceFrames DEF Places
  <2>2. PICK z \in Frames : z = Frame("over") /\ z.at = "over"
    BY PlaceFrames DEF Places
  <2>3. PICK after \in {<< >>, <<Frame("over")>>} :
           stack' = [stack EXCEPT !["loop"] = <<Frame("broadcast")>> \o after]
    BY <1>2, Zenon DEF LoopEvent
  <2>4. PICK a \in Seq(Frames) :
           /\ a = after /\ ToldBy(a) = {} /\ TodoBy(a) = {}
           /\ ~Has(a, {"erase"}) /\ ~Has(a, {"add", "push"})
           /\ ~Has(a, {"connect", "add", "push"})
    <3>1. CASE after = << >>
      <4>1. << >> \in Seq(Frames) /\ \A P : ~Has(<< >>, P)
        BY DEF Has
      <4>2. ToldBy(<< >>) = {} /\ TodoBy(<< >>) = {}
        BY <4>1, ByNobody, Zenon
      <4>3. QED  BY <3>1, <4>1, <4>2, Zenon
    <3>2. CASE after = <<z>>
      <4>1. ToldBy(<<z>>) = {} /\ TodoBy(<<z>>) = {}
        BY <2>2, OneCallBy
      <4>2. /\ ~Has(<<z>>, {"erase"}) /\ ~Has(<<z>>, {"add", "push"})
            /\ ~Has(<<z>>, {"connect", "add", "push"}) /\ <<z>> \in Seq(Frames)
        BY <2>2, OneCall
      <4>3. QED  BY <3>2, <4>1, <4>2, Zenon
    <3>3. QED  BY <2>2, <2>3, <3>1, <3>2, Zenon
  <2>5. PICK s \in Seq(Frames) : s = On(y, a)
    BY OnType, Zenon
  <2>6. Becomes("loop", s)
    BY <2>1, <2>3, <2>4, <2>5, Zenon DEF Becomes, On
  <2>7. ToldBy(s) = {} /\ TodoBy(s) = {}
    BY <2>1, <2>4, <2>5, ByOther
  <2>8. \A P : Has(s, P) <=> y.at \in P \/ Has(a, P)
    BY <2>5, HasOn
  <2>9. /\ ~Has(s, {"erase"}) /\ ~Has(s, {"add", "push"})
        /\ ~Has(s, {"connect", "add", "push"})
    BY <2>1, <2>4, <2>8
  <2>10. At("loop") = "idle" /\ LocalsKept /\ UNCHANGED <<clients, players, ready>>
    BY <1>2, Zenon DEF LoopEvent, gameVars
  <2>11. QED  BY <1>1, <2>6, <2>7, <2>9, <2>10, WakesKept
<1>3. CASE Over \/ Initialize
  <2>1. PICK p \in Stopping :
           Goto("loop", p) /\ At("loop") \in {"over", "initialize"}
    BY <1>3, Zenon DEF Over, Initialize, Stopping
  <2>2. PICK x \in Frames, r \in Seq(Frames) : InCall("loop", x, r)
    BY <1>1, <2>1, InsideCall
  <2>3. PICK y \in Frames : y = Frame(p) /\ y.at = p
    BY <2>1, PlaceFrames DEF Places, Stopping
  <2>4. PICK s \in Seq(Frames) : s = On(y, r)
    BY OnType, Zenon
  <2>5. Becomes("loop", s)
    BY <1>1, <2>1, <2>2, <2>3, <2>4, Replaced, Zenon DEF InCall, SafeInv, Goto
  <2>6. x.at # "cleanup" /\ y.at # "cleanup" /\ stack["loop"] = On(x, r)
    BY <2>1, <2>2, <2>3 DEF InCall, Stopping
  <2>7. /\ ToldBy(s) = ToldBy(r) /\ TodoBy(s) = TodoBy(r)
        /\ ToldBy(stack["loop"]) = ToldBy(r) /\ TodoBy(stack["loop"]) = TodoBy(r)
    BY <2>4, <2>6, ByOther, Zenon
  <2>8. clients' = clients /\ players' = players /\ ready' \subseteq players /\ LocalsKept
    BY <1>3 DEF Over, Initialize, RosterInv, Roster
  <2>9. QED  BY <1>1, <2>5, <2>7, <2>8, LocalsEnd, RosterKept
<1>4. CASE Leave
  <2>1. At("loop") = "leave" /\ Return("loop")
    BY <1>4 DEF Leave
  <2>2. PICK x \in Frames, r \in Seq(Frames) : InCall("loop", x, r)
    BY <1>1, <2>1, InsideCall
  <2>3. Becomes("loop", r)
    BY <1>1, <2>1, <2>2, Replaced, Zenon DEF InCall, SafeInv
  <2>4. x.at = "leave"
    BY <2>1, <2>2 DEF InCall
  <2>5. clients' = clients /\ players' = players /\ ready' \subseteq players /\ LocalsKept
    BY <1>4 DEF Leave, RosterInv, Roster
  <2>6. QED  BY <1>1, <2>2, <2>3, <2>4, <2>5, PopsKept
<1>5. QED  BY <1>2, <1>3, <1>4 DEF Ending

-----------------------------------------------------------------------------
(* The steps of the network thread that change clients or players.         *)
LEMMA HoldsIt ==
  ASSUME SafeInv, At("net") \in {"found", "erase", "push"}
  PROVE  connections_mutex # "loop" /\ ~Has(stack["loop"], {"cleanup"})
<1>1. PICK x \in Frames, r \in Seq(Frames) : InCall("net", x, r)
  BY NetCall
<1>2. x.at \in Holders
  BY <1>1, NetCall DEF Holders
<1>3. connections_mutex = "net"
  BY <1>1, <1>2 DEF InCall
<1>4. QED  BY <1>3, LoopCleans

(* The network thread goes on in p, or returns to its poll.                *)
LEMMA NetGoes ==
  ASSUME SafeInv,
         At("net") \in {"get_client", "found", "erase", "act", "connect", "add", "push"}
  PROVE  /\ Return("net") => Becomes("net", << >>)
         /\ \A p \in Places : Goto("net", p) =>
               \E s \in Seq(Frames) :
                  /\ Becomes("net", s) /\ s # << >> /\ stack'["net"] = s
                  /\ \A P : Has(s, P) <=> p \in P
<1>1. PICK x \in Frames, r \in Seq(Frames) : InCall("net", x, r)
  BY NetCall
<1>2. r = << >> /\ "net" \in Threads
  BY <1>1, NetCall
<1>3. Return("net") => Becomes("net", << >>)
  BY <1>1, <1>2, Replaced, Zenon DEF InCall, SafeInv
<1>4. ASSUME NEW p \in Places, Goto("net", p)
      PROVE  \E s \in Seq(Frames) :
                /\ Becomes("net", s) /\ s # << >> /\ stack'["net"] = s
                /\ \A P : Has(s, P) <=> p \in P
  <2>1. PICK y \in Frames : y = Frame(p) /\ y.at = p
    BY PlaceFrames
  <2>2. PICK s \in Seq(Frames) : s = On(y, r) /\ s # << >>
    BY OnType
  <2>3. Becomes("net", s)
    BY <1>1, <1>2, <1>4, <2>1, <2>2, Replaced, Zenon DEF InCall, SafeInv
  <2>4. \A P : ~Has(r, P)
    BY <1>2 DEF Has
  <2>5. \A P : Has(s, P) <=> p \in P
    BY <2>1, <2>2, <2>4, HasOn
  <2>6. stack'["net"] = s
    BY <1>2, <2>3, BecomesIs DEF SafeInv
  <2>7. QED  BY <2>2, <2>3, <2>5, <2>6
<1>5. QED  BY <1>3, <1>4

LEMMA ClearAfter ==
  ASSUME SafeInv, ~Has(stack["loop"], {"cleanup"}),
         NEW s \in Seq(Frames), Becomes("net", s), ~Has(s, {"cleanup"})
  PROVE  /\ TodoInv' /\ stack'["net"] = s
         /\ ToldNow' = IF Has(s, {"erase"})
                       THEN {c \in clients' : c.address = message'.address} ELSE {}
         /\ PendingNow' = IF Has(s, {"add", "push"}) THEN {message'.name} \cap Names ELSE {}
         /\ IsNew' <=> (Has(s, {"connect", "add", "push"}) =>
                           {c \in clients' : c.address = message'.address} = {})
<1>1. stack'["net"] = s /\ stack'["loop"] = stack["loop"]
  BY BecomesIs DEF SafeInv, Threads
<1>2. \A t \in Threads : ToldBy(stack'[t]) = {} /\ TodoBy(stack'[t]) = {}
  BY <1>1, ByNobody DEF Threads
<1>3. TodoInv'
  <2>1. \A t \in Threads : TodoBy(stack[t])' = {}
    BY <1>2 DEF TodoBy
  <2>2. QED  BY <2>1 DEF TodoInv
<1>4. ClientsOf(message.address)' = {c \in clients' : c.address = message'.address}
  BY DEF ClientsOf
<1>5. ToldNow' = ErasedNow'
  <2>1. \A t \in Threads : ToldBy(stack[t])' = {}
    BY <1>2 DEF ToldBy
  <2>2. QED  BY <2>1 DEF ToldNow
<1>6. /\ ErasedNow' = IF Has(s, {"erase"})
                       THEN {c \in clients' : c.address = message'.address} ELSE {}
      /\ PendingNow' = IF Has(s, {"add", "push"}) THEN {message'.name} \cap Names ELSE {}
      /\ IsNew' <=> (Has(s, {"connect", "add", "push"}) =>
                           {c \in clients' : c.address = message'.address} = {})
  BY <1>1, <1>4, Zenon DEF ErasedNow, PendingNow, IsNew
<1>7. QED  BY <1>1, <1>3, <1>5, <1>6

LEMMA FoundNoneKept ==
  ASSUME SafeInv, RosterInv, FoundNone
  PROVE  TodoInv' /\ RosterInv'
<1>1. At("net") = "found" /\ "connect" \in Places
  BY DEF FoundNone, Places
<1>2. PICK s \in Seq(Frames) :
         /\ Becomes("net", s) /\ s # << >> /\ stack'["net"] = s
         /\ \A P : Has(s, P) <=> "connect" \in P
  BY <1>1, NetGoes DEF FoundNone, NotFound
<1>3. message' = message
  BY <1>2 DEF FoundNone, LocalsKept, netVars
<1>4. ~Has(s, {"cleanup"}) /\ ~Has(s, {"erase"}) /\ ~Has(s, {"add", "push"})
  BY <1>2
<1>5. ~Has(stack["loop"], {"cleanup"}) /\ connections_mutex # "loop"
  BY <1>1, HoldsIt
<1>6. /\ TodoInv' /\ ToldNow' = {} /\ PendingNow' = {}
      /\ {c \in clients' : c.address = message'.address} = {} => IsNew'
  BY <1>2, <1>4, <1>5, ClearAfter
<1>7. ToldNow = {} /\ PendingNow = {}
  BY <1>1, <1>5, NobodyTold
<1>8. clients' = clients /\ players' = players /\ ready' = ready
  BY DEF FoundNone, gameVars
<1>9. IsNew'
  BY <1>3, <1>6, <1>8 DEF FoundNone, ClientsOf
<1>10. QED  BY <1>6, <1>7, <1>8, <1>9 DEF RosterInv, Roster

LEMMA EraseKept ==
  ASSUME SafeInv, RosterInv, Erase
  PROVE  TodoInv' /\ RosterInv'
<1>1. At("net") = "erase" /\ "connect" \in Places
  BY DEF Erase, Places
<1>2. PICK s \in Seq(Frames) :
         /\ Becomes("net", s) /\ s # << >> /\ stack'["net"] = s
         /\ \A P : Has(s, P) <=> "connect" \in P
  BY <1>1, NetGoes DEF Erase, NotFound
<1>3. message' = message
  BY <1>2 DEF Erase, LocalsKept, netVars
<1>4. ~Has(s, {"cleanup"}) /\ ~Has(s, {"erase"}) /\ ~Has(s, {"add", "push"})
  BY <1>2
<1>5. ~Has(stack["loop"], {"cleanup"}) /\ connections_mutex # "loop"
  BY <1>1, HoldsIt
<1>6. /\ TodoInv' /\ ToldNow' = {} /\ PendingNow' = {}
      /\ {c \in clients' : c.address = message'.address} = {} => IsNew'
  BY <1>2, <1>4, <1>5, ClearAfter
<1>7. ToldNow = ClientsOf(message.address) /\ PendingNow = {}
  BY <1>1, <1>5, NobodyTold
<1>8. clients' = clients \ ToldNow /\ players' = players /\ ready' = ready
  BY <1>7 DEF Erase, gameVars
<1>9. IsNew'
  BY <1>3, <1>6, <1>7, <1>8 DEF ClientsOf
<1>10. Roster(clients, players, ready, ToldNow, {})
  BY <1>7 DEF RosterInv
<1>11. Roster(clients', players', ready', {}, {})
  BY <1>8, <1>10 DEF Roster
<1>12. QED  BY <1>6, <1>9, <1>11 DEF RosterInv

LEMMA PushKept ==
  ASSUME SafeInv, RosterInv, Push
  PROVE  TodoInv' /\ RosterInv'
<1>1. At("net") = "push" /\ "get_client" \in Places
  BY DEF Push, Places
<1>2. PICK s \in Seq(Frames) :
         /\ Becomes("net", s) /\ s # << >> /\ stack'["net"] = s
         /\ \A P : Has(s, P) <=> "get_client" \in P
  BY <1>1, NetGoes DEF Push
<1>3. /\ ~Has(s, {"cleanup"}) /\ ~Has(s, {"erase"}) /\ ~Has(s, {"add", "push"})
      /\ ~Has(s, {"connect", "add", "push"})
  BY <1>2
<1>4. ~Has(stack["loop"], {"cleanup"}) /\ connections_mutex # "loop"
  BY <1>1, HoldsIt
<1>5. TodoInv' /\ ToldNow' = {} /\ PendingNow' = {} /\ IsNew'
  BY <1>2, <1>3, <1>4, ClearAfter
<1>6. ToldNow = {} /\ PendingNow = {message.name} \cap Names
  BY <1>1, <1>4, NobodyTold
<1>7. ClientsOf(message.address) = {}
  <2>1. Has(stack["net"], {"connect", "add", "push"})
    BY <1>1, NetIs
  <2>2. QED  BY <2>1 DEF RosterInv, IsNew
<1>8. PICK d : /\ clients' = clients \cup {d}
               /\ d.name = message.name /\ d.address = message.address
  <2>1. PICK d : d = [address |-> message.address, session |-> message.session,
                      name |-> message.name, active |-> TRUE]
    OBVIOUS
  <2>2. clients' = clients \cup {d}
    BY <2>1, Zenon DEF Push
  <2>3. d.name = message.name /\ d.address = message.address
    BY <2>1
  <2>4. QED  BY <2>2, <2>3
<1>9. players' = players /\ ready' = ready
  BY DEF Push, gameVars
<1>10. d.name \in Names \cup {OBSERVER}
  BY <1>8 DEF SafeInv, ServerTypeOK, Something
<1>11. Roster(clients, players, ready, {}, {d.name} \cap Names)
  BY <1>6, <1>8 DEF RosterInv
<1>12. \A c \in clients : c.address # d.address
  BY <1>7, <1>8 DEF ClientsOf
<1>13. Roster(clients \cup {d}, players, ready, {}, {})
  BY <1>10, <1>11, <1>12 DEF Roster
<1>14. QED  BY <1>5, <1>8, <1>9, <1>13 DEF RosterInv

LEMMA FoundSameKept ==
  ASSUME SafeInv, RosterInv, NEW c \in clients, FoundSame(c)
  PROVE  TodoInv' /\ RosterInv'
<1>1. At("net") = "found" /\ "act" \in Places
  BY DEF FoundSame, Places
<1>2. PICK s \in Seq(Frames) :
         /\ Becomes("net", s) /\ ~Has(s, {"cleanup"}) /\ ~Has(s, {"erase"})
         /\ ~Has(s, {"add", "push"}) /\ ~Has(s, {"connect", "add", "push"})
  <2>1. CASE Return("net")
    <3>1. << >> \in Seq(Frames) /\ \A P : ~Has(<< >>, P)
      BY DEF Has
    <3>2. QED  BY <1>1, <2>1, <3>1, NetGoes, Zenon
  <2>2. CASE Goto("net", "act")
    <3>1. PICK s \in Seq(Frames) : Becomes("net", s) /\ \A P : Has(s, P) <=> "act" \in P
      BY <1>1, <2>2, NetGoes
    <3>2. QED  BY <3>1
  <2>3. QED  BY <2>1, <2>2, Zenon DEF FoundSame
<1>3. ~Has(stack["loop"], {"cleanup"}) /\ connections_mutex # "loop"
  BY <1>1, HoldsIt
<1>4. TodoInv' /\ ToldNow' = {} /\ PendingNow' = {} /\ IsNew'
  BY <1>2, <1>3, ClearAfter
<1>5. ToldNow = {} /\ PendingNow = {}
  BY <1>1, <1>3, NobodyTold
<1>6. PICK d : /\ clients' = (clients \ {c}) \cup {d}
               /\ d.name = c.name /\ d.address = c.address
  <2>1. PICK d : d = [c EXCEPT !.active = TRUE]
    OBVIOUS
  <2>2. clients' = (clients \ {c}) \cup {d}
    BY <2>1, Zenon DEF FoundSame
  <2>3. d.name = c.name /\ d.address = c.address
    BY <2>1 DEF SafeInv, ServerTypeOK, Somebody
  <2>4. QED  BY <2>2, <2>3
<1>7. players' = players /\ ready' = ready
  BY DEF FoundSame, gameVars
<1>8. Roster(clients, players, ready, {}, {})
  BY <1>5 DEF RosterInv
<1>9. Roster((clients \ {c}) \cup {d}, players, ready, {}, {})
  BY <1>6, <1>8 DEF Roster
<1>10. QED  BY <1>4, <1>6, <1>7, <1>9 DEF RosterInv

(* What a thread does when a game may start, and then goes on with q.      *)
GoesOnWith(t, s, q) ==
    /\ Becomes(t, s) /\ ToldBy(s) = ToldBy(q) /\ TodoBy(s) = TodoBy(q)
    /\ q # << >> => s # << >>
    /\ \A P : "broadcast" \notin P /\ "started" \notin P =>
                 (Has(s, P) <=> Has(q, P))

LEMMA StartsView ==
  ASSUME ServerTypeOK, NEW t \in Threads, NEW x \in Frames, NEW r \in Seq(Frames),
         InCall(t, x, r), NEW rest \in Seq(Frames), NEW q \in Seq(Frames),
         q = rest \o r, NEW starts \in BOOLEAN, StartOr(t, starts, rest)
  PROVE  \E s \in Seq(Frames) : GoesOnWith(t, s, q)
<1>1. CASE starts
  <2>1. PICK b \in Frames : b = Frame("broadcast") /\ b.at = "broadcast"
    BY PlaceFrames DEF Places
  <2>2. PICK w \in Frames : w = Frame("started") /\ w.at = "started"
    BY PlaceFrames DEF Places
  <2>3. PICK u \in Seq(Frames) : u = On(w, q)
    BY OnType
  <2>4. PICK s \in Seq(Frames) : s = On(b, u) /\ s # << >>
    BY OnType
  <2>5. Replace(t, <<Frame("broadcast"), Frame("started")>> \o rest)
    BY <1>1, Zenon DEF StartOr
  <2>6. Becomes(t, s)
    BY <2>1, <2>2, <2>3, <2>4, <2>5, Replaced, Zenon DEF InCall
  <2>7. /\ ToldBy(s) = ToldBy(u) /\ TodoBy(s) = TodoBy(u)
        /\ ToldBy(u) = ToldBy(q) /\ TodoBy(u) = TodoBy(q)
    BY <2>1, <2>2, <2>3, <2>4, ByOther
  <2>8. \A P : Has(s, P) <=> "broadcast" \in P \/ Has(u, P)
    BY <2>1, <2>4, HasOn
  <2>9. ASSUME NEW P PROVE Has(u, P) <=> "started" \in P \/ Has(q, P)
    <3>1. Has(On(w, q), P) <=> w.at \in P \/ Has(q, P)
      BY HasOn, Zenon
    <3>2. QED  BY <2>2, <2>3, <3>1
  <2>10. GoesOnWith(t, s, q)
    BY <2>4, <2>6, <2>7, <2>8, <2>9 DEF GoesOnWith
  <2>11. QED  BY <2>10
<1>2. CASE ~starts
  <2>1. Replace(t, rest)
    BY <1>2, Zenon DEF StartOr
  <2>2. Becomes(t, q)
    BY <2>1, Zenon DEF Replace, Becomes, InCall, ServerTypeOK
  <2>3. QED  BY <2>2 DEF GoesOnWith
<1>3. QED  BY <1>1, <1>2

LEMMA FoundOlderKept ==
  ASSUME SafeInv, RosterInv, NEW c \in clients, FoundOlder(c)
  PROVE  TodoInv' /\ RosterInv'
<1>1. At("net") = "found" /\ c.address = message.address /\ "erase" \in Places
  BY DEF FoundOlder, Places
<1>2. PICK x \in Frames, r \in Seq(Frames) : InCall("net", x, r)
  BY <1>1, NetCall
<1>3. r = << >> /\ "net" \in Threads
  BY <1>1, <1>2, NetCall
<1>4. PICK y \in Frames : y = Frame("erase") /\ y.at = "erase"
  BY PlaceFrames DEF Places
<1>5. PICK q \in Seq(Frames) : q = On(y, r) /\ q # << >>
  BY OnType
<1>6. PICK rest \in Seq(Frames) : rest = <<y>> /\ q = rest \o r
  BY <1>5, OneCall, Zenon DEF On
<1>7. \A P : Has(q, P) <=> "erase" \in P
  <2>1. \A P : ~Has(r, P)
    BY <1>3 DEF Has
  <2>2. QED  BY <1>4, <1>5, <2>1, HasOn
<1>8. /\ \/ c.name = OBSERVER /\ players' = players /\ ready' = ready
         \/ /\ c.name # OBSERVER
            /\ players' = players \ {c.name} /\ ready' = ready \ {c.name}
      /\ \E s \in Seq(Frames) :
            /\ Becomes("net", s) /\ s # << >>
            /\ \A P : "broadcast" \notin P /\ "started" \notin P =>
                         (Has(s, P) <=> Has(q, P))
  <2>1. CASE c.name = OBSERVER
    <3>1. Replace("net", <<y>>) /\ UNCHANGED <<players_mutex, gameVars>>
      BY <1>4, <2>1, Zenon DEF FoundOlder, Told
    <3>2. Becomes("net", q)
      BY <1>2, <1>3, <1>5, <3>1, Replaced, Zenon DEF InCall, SafeInv
    <3>3. QED  BY <1>5, <2>1, <3>1, <3>2 DEF gameVars
  <2>2. CASE c.name # OBSERVER
    <3>1. OnDisconnect("net", c.name, rest)
      BY <1>4, <1>6, <2>2, Zenon DEF FoundOlder, Told
    <3>2. PICK starts \in BOOLEAN : StartOr("net", starts, rest)
      <4>1. PICK starts \in BOOLEAN :
               starts = (c.name \in players /\ MayStart(players', ready'))
        BY MayStartIf
      <4>2. QED  BY <3>1, <4>1, Zenon DEF OnDisconnect
    <3>3. PICK s \in Seq(Frames) : GoesOnWith("net", s, q)
      <4>1. "net" \in Threads /\ ServerTypeOK
        BY <1>3 DEF SafeInv
      <4>2. QED  BY <1>2, <1>6, <3>2, <4>1, StartsView
    <3>4. players' = players \ {c.name} /\ ready' = ready \ {c.name}
      BY <3>1 DEF OnDisconnect
    <3>5. QED  BY <1>5, <2>2, <3>3, <3>4 DEF GoesOnWith
  <2>3. QED  BY <2>1, <2>2
<1>9. PICK s \in Seq(Frames) :
         /\ Becomes("net", s) /\ s # << >>
         /\ Has(s, {"erase"}) /\ ~Has(s, {"cleanup"})
         /\ ~Has(s, {"add", "push"}) /\ ~Has(s, {"connect", "add", "push"})
  BY <1>7, <1>8
<1>10. ~Has(stack["loop"], {"cleanup"}) /\ connections_mutex # "loop"
  BY <1>1, HoldsIt
<1>11. /\ TodoInv' /\ PendingNow' = {} /\ IsNew' /\ stack'["net"] = s
       /\ ToldNow' = {d \in clients' : d.address = message'.address}
  BY <1>9, <1>10, ClearAfter
<1>12. ToldNow = {} /\ PendingNow = {}
  BY <1>1, <1>10, NobodyTold
<1>13. message' = message /\ clients' = clients
  BY <1>9, <1>11 DEF FoundOlder, LocalsKept, netVars
<1>14. Roster(clients, players, ready, {}, {})
  BY <1>12 DEF RosterInv
<1>15. ToldNow' = {c}
  BY <1>1, <1>11, <1>13, <1>14 DEF Roster
<1>16. players \subseteq Names
  BY DEF SafeInv, ServerTypeOK
<1>17. Roster(clients, players', ready', {c}, {})
  BY <1>8, <1>14, <1>16 DEF Roster
<1>18. QED  BY <1>11, <1>13, <1>15, <1>17 DEF RosterInv

LEMMA FoundNewerKept ==
  ASSUME SafeInv, TodoInv, RosterInv, NEW c \in clients, FoundNewer(c)
  PROVE  TodoInv' /\ RosterInv'
<1>1. At("net") = "found" /\ "net" \in Threads
  BY DEF FoundNewer, Threads
<1>2. PICK x \in Frames, r \in Seq(Frames) : InCall("net", x, r)
  BY <1>1, NetCall
<1>3. Becomes("net", r)
  BY <1>1, <1>2, Replaced, Zenon DEF FoundNewer, InCall, SafeInv
<1>4. x.at = "found"
  BY <1>1, <1>2 DEF InCall
<1>5. clients' = clients /\ players' = players /\ ready' \subseteq players /\ LocalsKept
  BY DEF FoundNewer, gameVars, RosterInv, Roster
<1>6. QED  BY <1>1, <1>2, <1>3, <1>4, <1>5, PopsKept

LEMMA ActKept ==
  ASSUME SafeInv, TodoInv, RosterInv, Act
  PROVE  TodoInv' /\ RosterInv'
<1>1. At("net") = "act" /\ "net" \in Threads
  BY DEF Act, Threads
<1>2. PICK x \in Frames, r \in Seq(Frames) : InCall("net", x, r)
  BY <1>1, NetCall
<1>3. r = << >>
  BY <1>1, <1>2, NetCall
<1>4. PICK rest \in Seq(Frames) : rest = << >> /\ r = rest \o r
  <2>1. << >> \in Seq(Frames) /\ r = << >> \o r
    OBVIOUS
  <2>2. QED  BY <2>1, Zenon
<1>5. PICK presses \in BOOLEAN, starts \in BOOLEAN :
         /\ ready' = IF presses THEN ready \cup {message.name} ELSE ready
         /\ presses => message.name \in players
         /\ StartOr("net", starts, rest)
  <2> DEFINE nm == message.name
             presses == nm \in players /\ ~running /\ message.arrow /\ nm \notin ready
             starts == presses /\ MayStart(players, ready')
  <2>1. /\ ready' = IF presses THEN ready \cup {message.name} ELSE ready
        /\ StartOr("net", starts, << >>)
    BY Zenon DEF Act
  <2>2. presses \in BOOLEAN /\ starts \in BOOLEAN /\ (presses => message.name \in players)
    BY MayStartIf, Zenon DEF SafeInv, ServerTypeOK, Something
  <2> HIDE DEF presses, starts
  <2>3. QED  BY <1>4, <2>1, <2>2, Zenon
<1>6. PICK s \in Seq(Frames) : GoesOnWith("net", s, r)
  <2>1. ServerTypeOK
    BY DEF SafeInv
  <2>2. QED  BY <1>1, <1>2, <1>4, <1>5, <2>1, StartsView
<1>7. \A P : ~Has(r, P)
  BY <1>3 DEF Has
<1>8. ToldBy(r) = {} /\ TodoBy(r) = {}
  BY <1>7, ByNobody
<1>9. /\ ~Has(s, {"erase"}) /\ ~Has(s, {"add", "push"})
      /\ ~Has(s, {"connect", "add", "push"})
  BY <1>6, <1>7 DEF GoesOnWith
<1>10. \A P : Has(stack["net"], P) <=> "act" \in P
  BY <1>1, NetIs
<1>11. NetKept(s)
  <2>1. ~Has(stack["net"], {"erase"}) /\ ~Has(stack["net"], {"add", "push"})
    BY <1>10
  <2>2. QED  BY <1>9, <2>1, Zenon DEF NetKept
<1>12. Becomes("net", s) /\ ToldBy(s) = {} /\ TodoBy(s) = {} /\ ToldBy(stack["net"]) = {}
  BY <1>1, <1>6, <1>8, NetIs DEF GoesOnWith
<1>13. clients' = clients /\ players' = players /\ ready' \subseteq players /\ MessageKept
  BY <1>5, LocalsEnd DEF Act, RosterInv, Roster
<1>14. QED  BY <1>1, <1>11, <1>12, <1>13, RosterKept

LEMMA LoopTellsOnce ==
  ASSUME SafeInv
  PROVE  ToldBy(stack["loop"]) \cap TodoBy(stack["loop"]) = {}
<1>1. "loop" \in Threads
  BY DEF Threads
<1>2. CASE At("loop") = "idle"
  <2>1. stack["loop"] = << >>
    BY <1>1, <1>2, AtIdle DEF SafeInv
  <2>2. ~Has(stack["loop"], {"cleanup"})
    BY <2>1 DEF Has
  <2>3. QED  BY <2>2, ByNobody
<1>3. CASE At("loop") # "idle"
  <2>1. PICK x \in Frames, r \in Seq(Frames) : InCall("loop", x, r)
    BY <1>1, <1>3, InsideCall
  <2>2. ToldBy(r) = {} /\ TodoBy(r) = {}
    BY <2>1, LoopCleansOnce, ByNobody
  <2>3. stack["loop"] = On(x, r)
    BY <2>1 DEF InCall
  <2>4. QED  BY <2>2, <2>3, ByOn
<1>4. QED  BY <1>2, <1>3

LEMMA ConnectKept ==
  ASSUME SafeInv, TodoInv, RosterInv, Connect
  PROVE  TodoInv' /\ RosterInv'
<1>1. At("net") = "connect" /\ "net" \in Threads /\ "add" \in Places
  BY DEF Connect, Threads, Places
<1>2. clients' = clients /\ ready' = ready /\ LocalsKept
  BY DEF Connect
<1>3. CASE Return("net") /\ players' = players
  <2>1. PICK x \in Frames, r \in Seq(Frames) : InCall("net", x, r)
    BY <1>1, NetCall
  <2>2. Becomes("net", r)
    BY <1>1, <1>3, <2>1, Replaced, Zenon DEF InCall, SafeInv
  <2>3. x.at = "connect"
    BY <1>1, <2>1 DEF InCall
  <2>4. ready' \subseteq players
    BY <1>2 DEF RosterInv, Roster
  <2>5. QED  BY <1>1, <1>2, <1>3, <2>1, <2>2, <2>3, <2>4, PopsKept
<1>4. CASE /\ Goto("net", "add") /\ players' = players \cup ({message.name} \cap Names)
           /\ message.name \notin players
  <2>1. PICK s \in Seq(Frames) :
           /\ Becomes("net", s) /\ s # << >> /\ stack'["net"] = s
           /\ \A P : Has(s, P) <=> "add" \in P
    BY <1>1, <1>4, NetGoes
  <2>2. message' = message
    BY <1>2, <2>1 DEF LocalsKept, netVars
  <2>3. /\ ~Has(s, {"cleanup"}) /\ ~Has(s, {"erase"})
        /\ Has(s, {"add", "push"}) /\ Has(s, {"connect", "add", "push"})
    BY <2>1
  <2>4. \A P : Has(stack["net"], P) <=> "connect" \in P
    BY <1>1, NetIs
  <2>5. /\ ~Has(stack["net"], {"erase"}) /\ ~Has(stack["net"], {"add", "push"})
        /\ Has(stack["net"], {"connect", "add", "push"})
    BY <2>4
  <2>6. stack'["loop"] = stack["loop"]
    BY <1>1, <2>1, BecomesIs DEF SafeInv, Threads
  <2>7. /\ ToldBy(stack["net"]) = {} /\ TodoBy(stack["net"]) = {}
        /\ ToldBy(s) = {} /\ TodoBy(s) = {}
    BY <1>1, <2>3, NetIs, ByNobody
  <2>8. \A t \in Threads : /\ ToldBy(stack'[t]) = ToldBy(stack[t])
                           /\ TodoBy(stack'[t]) = TodoBy(stack[t])
    BY <2>1, <2>6, <2>7 DEF Threads
  <2>9. Inactive' = Inactive
    BY <1>2 DEF Inactive
  <2>10. /\ ErasedNow = {} /\ ErasedNow' = {} /\ PendingNow = {}
         /\ PendingNow' = {message.name} \cap Names
    BY <2>1, <2>2, <2>3, <2>5, Zenon DEF ErasedNow, PendingNow
  <2>11. ToldNow' = ToldNow
    <3>1. \A t \in Threads : ToldBy(stack[t])' = ToldBy(stack[t])
      BY <2>8 DEF ToldBy
    <3>2. QED  BY <2>9, <2>10, <3>1 DEF ToldNow
  <2>12. ClientsOf(message.address) = {} /\ IsNew'
    <3>1. ClientsOf(message.address)' = ClientsOf(message.address)
      BY <1>2, <2>2 DEF ClientsOf
    <3>2. QED  BY <2>5, <3>1, Zenon DEF RosterInv, IsNew
  <2>13. Roster(clients, players, ready, ToldNow, {})
    BY <2>10 DEF RosterInv
  <2>14. \A c \in clients : c.name \in {message.name} \cap Names => c \in ToldNow
    BY <1>4, <2>13 DEF Roster
  <2>15. Roster(clients, players \cup ({message.name} \cap Names), ready, ToldNow,
                {message.name} \cap Names)
    BY <2>13, <2>14 DEF Roster
  <2>16. RosterInv'
    BY <1>2, <1>4, <2>10, <2>11, <2>12, <2>15 DEF RosterInv
  <2>17. ASSUME NEW t \in Threads, NEW c \in TodoBy(stack[t])
         PROVE  /\ c.name \notin {message.name} \cap Names
                /\ c \in Inactive
    <3>1. t = "loop" /\ c \in Inactive
      BY <2>7, <2>17 DEF TodoInv, Threads
    <3>2. ASSUME c.name \in {message.name} \cap Names PROVE FALSE
      <4>1. c \in clients
        BY <3>1 DEF Inactive
      <4>2. c \in ToldNow
        BY <2>14, <3>2, <4>1
      <4>3. c \in ToldBy(stack["loop"])
        BY <2>7, <2>10, <4>2 DEF ToldNow, Threads
      <4>4. QED  BY <2>17, <3>1, <4>3, LoopTellsOnce
    <3>3. QED  BY <3>1, <3>2
  <2>18. TodoInv'
    <3>1. \A t \in Threads : TodoBy(stack[t])' = TodoBy(stack[t])
      BY <2>8 DEF TodoBy
    <3>2. QED  BY <2>9, <2>10, <2>17, <3>1 DEF TodoInv
  <2>19. QED  BY <2>16, <2>18
<1>5. \/ Return("net") /\ players' = players
      \/ /\ Goto("net", "add") /\ players' = players \cup ({message.name} \cap Names)
         /\ message.name \notin players
  <2>1. message.name \in Names \cup {OBSERVER} /\ OBSERVER \notin Names /\ players \subseteq Names
    BY DEF SafeInv, ServerTypeOK, Something
  <2>2. CASE message.name = OBSERVER
    <3>1. Goto("net", "add") /\ players' = players
      BY <2>2, Zenon DEF Connect
    <3>2. QED  BY <2>1, <2>2, <3>1
  <2>3. CASE message.name # OBSERVER /\ message.name \in players
    <3>1. Return("net") /\ players' = players \cup {message.name}
      BY <2>3, Zenon DEF Connect
    <3>2. QED  BY <2>3, <3>1
  <2>4. CASE message.name # OBSERVER /\ message.name \notin players
    <3>1. Goto("net", "add") /\ players' = players \cup {message.name}
      BY <2>4, Zenon DEF Connect
    <3>2. QED  BY <2>1, <2>4, <3>1
  <2>5. QED  BY <2>2, <2>3, <2>4
<1>6. QED  BY <1>3, <1>4, <1>5

-----------------------------------------------------------------------------
(* The steps of a cleanup.                                                 *)
LEMMA DropsKept ==
  ASSUME SafeInv, TodoInv, RosterInv,
         NEW t \in Threads, NEW x \in Frames, NEW r \in Seq(Frames), InCall(t, x, r),
         x.at = "cleanup", NEW c \in x.todo,
         NEW y \in Frames, y.at = "cleanup", y.todo = x.todo \ {c},
         NEW q \in Seq(Frames), q = On(y, r), NEW s \in Seq(Frames), GoesOnWith(t, s, q),
         clients' = clients, LocalsKept,
         \/ c.name = OBSERVER /\ players' = players /\ ready' = ready
         \/ c.name # OBSERVER /\ players' = players \ {c.name} /\ ready' = ready \ {c.name}
  PROVE  TodoInv' /\ RosterInv'
<1>1. Becomes(t, s) /\ ToldBy(s) = ToldBy(q) /\ TodoBy(s) = TodoBy(q)
  BY DEF GoesOnWith
<1>2. stack[t] = On(x, r) /\ x.todo \subseteq Somebody
  BY DEF InCall, Frames
<1>3. /\ ToldBy(q) = (Somebody \ y.todo) \cup ToldBy(r)
      /\ TodoBy(q) = y.todo \cup TodoBy(r)
      /\ ToldBy(stack[t]) = (Somebody \ x.todo) \cup ToldBy(r)
      /\ TodoBy(stack[t]) = x.todo \cup TodoBy(r)
  <2>1. /\ ToldBy(q) = (Somebody \ y.todo) \cup ToldBy(r)
        /\ TodoBy(q) = y.todo \cup TodoBy(r)
    BY ByOn
  <2>2. /\ ToldBy(stack[t]) = (Somebody \ x.todo) \cup ToldBy(r)
        /\ TodoBy(stack[t]) = x.todo \cup TodoBy(r)
    BY <1>2, ByOn
  <2>3. QED  BY <2>1, <2>2
<1>4. /\ ToldBy(s) = ToldBy(stack[t]) \cup {c}
      /\ TodoBy(s) \subseteq TodoBy(stack[t])
      /\ c \in TodoBy(stack[t])
  BY <1>1, <1>2, <1>3
<1>5. stack'[t] = s /\ \A u \in Threads \ {t} : stack'[u] = stack[u]
  BY <1>1, BecomesIs DEF SafeInv
<1>6. t = "net" => NetKept(s)
  <2>1. \A P : Has(stack[t], P) <=> "cleanup" \in P \/ Has(r, P)
    BY <1>2, HasOn
  <2>2. \A P : Has(q, P) <=> "cleanup" \in P \/ Has(r, P)
    BY HasOn
  <2>3. /\ Has(s, {"erase"}) <=> Has(stack[t], {"erase"})
        /\ Has(s, {"add", "push"}) <=> Has(stack[t], {"add", "push"})
        /\ Has(s, {"connect", "add", "push"}) <=> Has(stack[t], {"connect", "add", "push"})
    BY <2>1, <2>2 DEF GoesOnWith
  <2>4. QED  BY <2>3, Zenon DEF NetKept, RosterInv, IsNew
<1>7. ErasedNow' = ErasedNow /\ PendingNow' = PendingNow /\ IsNew'
  BY <1>1, <1>6, LocalsEnd, NowKept DEF RosterInv
<1>8. Inactive' = Inactive /\ Inactive \subseteq clients
  BY DEF Inactive
<1>9. ToldNow' = ToldNow \cup ({c} \cap Inactive)
  <2>1. ToldNow' = {d \in Inactive : \E u \in Threads : d \in ToldBy(stack'[u])} \cup ErasedNow
    BY <1>7, <1>8 DEF ToldNow, ToldBy
  <2>2. \A d : (\E u \in Threads : d \in ToldBy(stack'[u]))
                 <=> d = c \/ \E u \in Threads : d \in ToldBy(stack[u])
    BY <1>4, <1>5
  <2>3. QED  BY <2>1, <2>2 DEF ToldNow
<1>10. /\ c.name \notin PendingNow
       /\ c \in Inactive \/ c.name \notin players
  BY <1>4 DEF TodoInv
<1>11. PICK cs, told, pend :
          /\ cs = clients /\ told = ToldNow /\ pend = PendingNow
          /\ Roster(cs, players, ready, told, pend)
  BY DEF RosterInv
<1>12. players \subseteq Names
  BY DEF SafeInv, ServerTypeOK
<1>13. Roster(cs, players', ready', told \cup ({c} \cap Inactive), pend)
  <2>1. CASE c.name = OBSERVER
    BY <1>8, <1>10, <1>11, <1>12, <2>1 DEF Roster
  <2>2. CASE c.name # OBSERVER
    <3>1. players' = players \ {c.name} /\ ready' = ready \ {c.name}
      BY <2>2
    <3>2. \A d \in cs : \/ d.name = OBSERVER \/ d.name \in players'
                        \/ d \in told \cup ({c} \cap Inactive)
      BY <1>8, <1>10, <1>11, <2>2, <3>1 DEF Roster
    <3>3. \A n \in players' : n \in pend \/
             \E d \in cs : d.name = n /\ d \notin told \cup ({c} \cap Inactive)
      BY <1>11, <3>1 DEF Roster
    <3>4. \A n \in pend : n \in players' /\
             \A d \in cs : d.name = n => d \in told \cup ({c} \cap Inactive)
      BY <1>10, <1>11, <3>1 DEF Roster
    <3>5. ready' \subseteq players'
      BY <1>11, <3>1 DEF Roster
    <3>6. QED  BY <1>11, <3>2, <3>3, <3>4, <3>5 DEF Roster
  <2>3. QED  BY <2>1, <2>2
<1>14. RosterInv'
  BY <1>7, <1>9, <1>11, <1>13 DEF RosterInv
<1>15. TodoInv'
  <2>1. \A u \in Threads : TodoBy(stack[u])' \subseteq TodoBy(stack[u])
    <3>1. \A u \in Threads : TodoBy(stack'[u]) \subseteq TodoBy(stack[u])
      BY <1>4, <1>5
    <3>2. QED  BY <3>1 DEF TodoBy
  <2>2. players' \subseteq players
    OBVIOUS
  <2>3. QED  BY <1>7, <1>8, <2>1, <2>2 DEF TodoInv
<1>16. QED  BY <1>14, <1>15

LEMMA DropPlayerKept ==
  ASSUME SafeInv, TodoInv, RosterInv, NEW t \in Threads, DropPlayer(t)
  PROVE  TodoInv' /\ RosterInv'
<1>1. At(t) = "cleanup"
  BY DEF DropPlayer
<1>2. PICK x \in Frames, r \in Seq(Frames) : InCall(t, x, r)
  BY <1>1, InsideCall
<1>3. x.at = "cleanup" /\ x.todo = Todo(t) /\ x.todo \subseteq Somebody
  BY <1>1, <1>2 DEF InCall, Frames
<1>4. PICK c \in Todo(t) :
         /\ c.name # OBSERVER
         /\ OnDisconnect(t, c.name, <<[Cleanup EXCEPT !.todo = Todo(t) \ {c}]>>)
  BY Zenon DEF DropPlayer
<1>5. PICK y \in Frames :
         /\ y = [Cleanup EXCEPT !.todo = Todo(t) \ {c}]
         /\ y.at = "cleanup" /\ y.todo = Todo(t) \ {c}
  <2>1. PICK todo \in SUBSET Somebody : todo = Todo(t)
    BY <1>3
  <2>2. QED  BY <2>1, FewerLeft, Zenon
<1>6. PICK q \in Seq(Frames) : q = On(y, r)
  BY OnType, Zenon
<1>7. PICK rest \in Seq(Frames) : rest = <<y>> /\ q = rest \o r
  BY <1>6, OneCall, Zenon DEF On
<1>8. PICK starts \in BOOLEAN : StartOr(t, starts, rest)
  <2>1. PICK starts \in BOOLEAN : starts = (c.name \in players /\ MayStart(players', ready'))
    BY MayStartIf
  <2>2. OnDisconnect(t, c.name, rest)
    BY <1>4, <1>5, <1>7, Zenon
  <2>3. QED  BY <2>1, <2>2, Zenon DEF OnDisconnect
<1>9. PICK s \in Seq(Frames) : GoesOnWith(t, s, q)
  <2>1. ServerTypeOK
    BY DEF SafeInv
  <2>2. QED  BY <1>2, <1>7, <1>8, <2>1, StartsView
<1>10. players' = players \ {c.name} /\ ready' = ready \ {c.name}
  BY <1>4, Zenon DEF OnDisconnect
<1>11. clients' = clients /\ LocalsKept
  BY DEF DropPlayer
<1>12. c \in x.todo /\ y.todo = x.todo \ {c}
  BY <1>3, <1>4, <1>5
<1>13. QED
  BY <1>2, <1>3, <1>4, <1>5, <1>6, <1>9, <1>10, <1>11, <1>12, DropsKept

LEMMA DropObserverKept ==
  ASSUME SafeInv, TodoInv, RosterInv, NEW t \in Threads, DropObserver(t)
  PROVE  TodoInv' /\ RosterInv'
<1>1. At(t) = "cleanup"
  BY DEF DropObserver
<1>2. PICK x \in Frames, r \in Seq(Frames) : InCall(t, x, r)
  BY <1>1, InsideCall
<1>3. x.at = "cleanup" /\ x.todo = Todo(t) /\ x.todo \subseteq Somebody
  BY <1>1, <1>2 DEF InCall, Frames
<1>4. PICK c \in Todo(t) :
         c.name = OBSERVER /\ Replace(t, <<[Cleanup EXCEPT !.todo = Todo(t) \ {c}]>>)
  BY Zenon DEF DropObserver
<1>5. PICK y \in Frames :
         /\ y = [Cleanup EXCEPT !.todo = Todo(t) \ {c}]
         /\ y.at = "cleanup" /\ y.todo = Todo(t) \ {c}
  <2>1. PICK todo \in SUBSET Somebody : todo = Todo(t)
    BY <1>3
  <2>2. QED  BY <2>1, FewerLeft, Zenon
<1>6. PICK q \in Seq(Frames) : q = On(y, r)
  BY OnType, Zenon
<1>7. Replace(t, <<y>>)
  BY <1>4, <1>5, Zenon
<1>8. Becomes(t, q)
  BY <1>2, <1>6, <1>7, Replaced, Zenon DEF InCall, SafeInv
<1>9. GoesOnWith(t, q, q)
  BY <1>8 DEF GoesOnWith
<1>10. clients' = clients /\ LocalsKept /\ players' = players /\ ready' = ready
  BY DEF DropObserver, gameVars
<1>11. c \in x.todo /\ y.todo = x.todo \ {c}
  BY <1>3, <1>4, <1>5
<1>12. QED
  BY <1>2, <1>3, <1>4, <1>5, <1>6, <1>9, <1>10, <1>11, DropsKept

LEMMA EndCleanupKept ==
  ASSUME SafeInv, TodoInv, RosterInv, NEW t \in Threads, EndCleanup(t), ~crashed'
  PROVE  TodoInv' /\ RosterInv'
<1>1. At(t) = "cleanup" /\ Todo(t) = {}
  BY DEF EndCleanup
<1>2. PICK x \in Frames, r \in Seq(Frames) : InCall(t, x, r)
  BY <1>1, InsideCall
<1>3. x.at = "cleanup" /\ x.todo = {} /\ stack[t] = On(x, r)
  BY <1>1, <1>2 DEF InCall
<1>4. Becomes(t, r)
  BY <1>2, Replaced, Zenon DEF EndCleanup, InCall, SafeInv
<1>5. stack'[t] = r /\ \A u \in Threads \ {t} : stack'[u] = stack[u]
  BY <1>4, BecomesIs DEF SafeInv
<1>6. Somebody \subseteq ToldBy(stack[t]) /\ TodoBy(stack[t]) = TodoBy(r)
  <2>1. x.at = "cleanup"
    BY <1>3
  <2>2. /\ ToldBy(On(x, r)) = (Somebody \ x.todo) \cup ToldBy(r)
        /\ TodoBy(On(x, r)) = x.todo \cup TodoBy(r)
    BY <2>1, ByOn
  <2>3. QED  BY <1>3, <2>2
<1>7. /\ clients' = clients \ Inactive /\ players' = players /\ ready' = ready
      /\ Inactive = {} \/ \A u \in Threads \ {t} : ~CleaningUp(u)
  BY DEF EndCleanup, gameVars
<1>8. Inactive' = {} /\ Inactive \subseteq ToldNow
  <2>1. Inactive' = {}
    BY <1>7 DEF Inactive
  <2>2. Inactive \subseteq Somebody
    BY DEF Inactive, SafeInv, ServerTypeOK
  <2>3. QED  BY <1>6, <2>1, <2>2 DEF ToldNow
<1>9. NetKept(stack'["net"])
  <2>1. CASE t = "net"
    <3>1. \A P : Has(stack[t], P) <=> "cleanup" \in P \/ Has(r, P)
      BY <1>3, HasOn
    <3>2. /\ Has(r, {"erase"}) <=> Has(stack[t], {"erase"})
          /\ Has(r, {"add", "push"}) <=> Has(stack[t], {"add", "push"})
          /\ Has(r, {"connect", "add", "push"}) <=> Has(stack[t], {"connect", "add", "push"})
      BY <3>1
    <3>3. stack'["net"] = r
      BY <1>5, <2>1
    <3>4. QED  BY <2>1, <3>2, <3>3, Zenon DEF NetKept, RosterInv, IsNew
  <2>2. CASE t = "loop"
    <3>1. stack'["net"] = stack["net"]
      BY <1>5, <2>2 DEF Threads
    <3>2. QED  BY <3>1, Zenon DEF NetKept, RosterInv, IsNew
  <2>3. QED  BY <2>1, <2>2 DEF Threads
<1>10. ErasedNow' = ErasedNow \ Inactive /\ PendingNow' = PendingNow /\ IsNew'
  <2>1. CASE message' = message
    <3>1. ClientsOf(message.address)' = ClientsOf(message.address) \ Inactive
      BY <1>7, <2>1 DEF ClientsOf
    <3>2. ErasedNow' = ErasedNow \ Inactive
      <4>1. CASE Has(stack["net"], {"erase"})
        <5>1. Has(stack'["net"], {"erase"})
          BY <1>9, <4>1, Zenon DEF NetKept
        <5>2. QED  BY <3>1, <4>1, <5>1, Zenon DEF ErasedNow
      <4>2. CASE ~Has(stack["net"], {"erase"})
        <5>1. ~Has(stack'["net"], {"erase"})
          BY <1>9, <4>2, Zenon DEF NetKept
        <5>2. ErasedNow' = {} /\ ErasedNow = {}
          BY <4>2, <5>1, Zenon DEF ErasedNow
        <5>3. QED  BY <5>2
      <4>3. QED  BY <4>1, <4>2
    <3>3. PendingNow' = PendingNow
      BY <1>9, <2>1, Zenon DEF NetKept, PendingNow
    <3>4. IsNew'
      <4>1. ClientsOf(message.address) = {} => ClientsOf(message.address)' = {}
        BY <3>1
      <4>2. QED  BY <1>9, <4>1, Zenon DEF NetKept, IsNew
    <3>5. QED  BY <3>2, <3>3, <3>4
  <2>2. CASE message' # message
    <3>1. /\ ~Has(stack'["net"], {"erase"})
          /\ ~Has(stack'["net"], {"add", "push"})
          /\ ~Has(stack'["net"], {"connect", "add", "push"})
      BY <2>2, LocalsEnd, Zenon DEF EndCleanup, MessageKept
    <3>2. /\ ErasedNow' = {} /\ ErasedNow = {} /\ IsNew'
          /\ PendingNow' = {} /\ PendingNow = {}
      BY <1>9, <3>1, Zenon DEF NetKept, ErasedNow, PendingNow, IsNew
    <3>3. QED  BY <3>2
  <2>3. QED  BY <2>1, <2>2
<1>11. ToldNow' = ToldNow \ Inactive
  <2>1. ToldNow' = ErasedNow'
    BY <1>8 DEF ToldNow
  <2>2. ToldNow \ Inactive = ErasedNow \ Inactive
    BY DEF ToldNow
  <2>3. QED  BY <1>10, <2>1, <2>2
<1>12. PICK cs, told, pend, gone :
          /\ cs = clients /\ told = ToldNow /\ pend = PendingNow /\ gone = Inactive
          /\ gone \subseteq told /\ Roster(cs, players, ready, told, pend)
  BY <1>8 DEF RosterInv
<1>13. Roster(cs \ gone, players, ready, told \ gone, pend)
  BY <1>12 DEF Roster
<1>14. RosterInv'
  BY <1>7, <1>10, <1>11, <1>12, <1>13 DEF RosterInv
<1>15. ASSUME NEW u \in Threads, NEW c \in TodoBy(stack'[u])
       PROVE  c.name \notin PendingNow /\ u = "net" /\ c.name \notin players
  <2>1. c \in TodoBy(stack[u])
    BY <1>5, <1>6, <1>15
  <2>2. c.name \notin PendingNow /\ (c \in Inactive \/ (u = "net" /\ c.name \notin players))
    BY <2>1 DEF TodoInv
  <2>3. CASE u # t
    <3>1. CleaningUp(u)
      BY <2>1 DEF TodoBy, TodoIn, CleaningUp
    <3>2. Inactive = {}
      BY <1>7, <2>3, <3>1
    <3>3. QED  BY <2>2, <3>2
  <2>4. CASE u = t
    <3>1. c \in TodoBy(r)
      BY <1>5, <1>15, <2>4
    <3>2. t = "net"
      <4>1. ASSUME t = "loop" PROVE FALSE
        <5>1. ~Has(r, {"cleanup"})
          BY <1>2, <4>1, LoopCleansOnce
        <5>2. QED  BY <3>1, <5>1, ByNobody
      <4>2. QED  BY <4>1 DEF Threads
    <3>3. ASSUME c \in Inactive, c.name \in players PROVE FALSE
      <4>1. c \in clients /\ c \in ToldNow /\ c.name # OBSERVER
        BY <1>8, <3>3 DEF Inactive, SafeInv, ServerTypeOK
      <4>2. PICK d \in clients : d.name = c.name /\ d \notin ToldNow
        BY <2>2, <3>3 DEF RosterInv, Roster
      <4>3. c = d
        BY <4>1, <4>2 DEF RosterInv, Roster
      <4>4. QED  BY <4>1, <4>2, <4>3
    <3>4. QED  BY <2>2, <2>4, <3>2, <3>3
  <2>5. QED  BY <2>3, <2>4
<1>16. TodoInv'
  <2>1. \A u \in Threads : TodoBy(stack[u])' = TodoBy(stack'[u])
    BY DEF TodoBy
  <2>2. QED  BY <1>7, <1>10, <1>15, <2>1 DEF TodoInv
<1>17. QED  BY <1>14, <1>16

LEMMA FallSilentKept ==
  ASSUME SafeInv, TodoInv, RosterInv, NEW c \in clients, FallSilent(c)
  PROVE  TodoInv' /\ RosterInv'
<1>1. /\ c.address # message.address /\ \A t \in Threads : ~CleaningUp(t)
      /\ UNCHANGED <<players, ready, stack, message>>
  BY DEF FallSilent, gameVars, netVars
<1>2. PICK d : /\ clients' = (clients \ {c}) \cup {d}
               /\ d.name = c.name /\ d.address = c.address
  <2>1. PICK d : d = [c EXCEPT !.active = FALSE]
    OBVIOUS
  <2>2. clients' = (clients \ {c}) \cup {d}
    BY <2>1, Zenon DEF FallSilent
  <2>3. d.name = c.name /\ d.address = c.address
    BY <2>1 DEF SafeInv, ServerTypeOK, Somebody
  <2>4. QED  BY <2>2, <2>3
<1>3. \A t \in Threads : /\ ToldBy(stack[t]) = {} /\ TodoBy(stack[t]) = {}
                         /\ ToldBy(stack[t])' = {} /\ TodoBy(stack[t])' = {}
  <2>1. \A t \in Threads : ~Has(stack[t], {"cleanup"})
    BY <1>1 DEF CleaningUp, Has
  <2>2. \A t \in Threads : ToldBy(stack[t]) = {} /\ TodoBy(stack[t]) = {}
    BY <2>1, ByNobody
  <2>3. QED  BY <1>1, <2>2 DEF ToldBy, TodoBy
<1>4. ClientsOf(message.address)' = ClientsOf(message.address)
  BY <1>1, <1>2 DEF ClientsOf
<1>5. ErasedNow' = ErasedNow /\ PendingNow' = PendingNow /\ IsNew'
  BY <1>1, <1>4, Zenon DEF ErasedNow, PendingNow, IsNew, RosterInv
<1>6. ToldNow' = ToldNow /\ ToldNow = ErasedNow
  BY <1>3, <1>5 DEF ToldNow
<1>7. c \notin ToldNow /\ d \notin ToldNow
  BY <1>1, <1>2, <1>6 DEF ErasedNow, ClientsOf
<1>8. PICK cs, told, pend :
         /\ cs = clients /\ told = ToldNow /\ pend = PendingNow
         /\ Roster(cs, players, ready, told, pend)
  BY DEF RosterInv
<1>9. Roster((cs \ {c}) \cup {d}, players, ready, told, pend)
  BY <1>2, <1>7, <1>8 DEF Roster
<1>10. RosterInv'
  BY <1>1, <1>2, <1>5, <1>6, <1>8, <1>9 DEF RosterInv
<1>11. TodoInv'
  BY <1>3 DEF TodoInv
<1>12. QED  BY <1>10, <1>11

-----------------------------------------------------------------------------
(* The theorem about the players.                                          *)
LEMMA HandleKept ==
  ASSUME SafeInv, TodoInv, RosterInv, Handle
  PROVE  TodoInv' /\ RosterInv'
<1>1. CASE GetClient \/ Add
  <2>1. "net" \in Threads /\ "found" \in Places /\ "push" \in Places
    BY DEF Threads, Places
  <2>2. CASE GetClient
    BY <2>1, <2>2, EntersKept DEF GetClient, gameVars
  <2>3. CASE Add
    BY <2>1, <2>3, EntersKept DEF Add, gameVars
  <2>4. QED  BY <1>1, <2>2, <2>3
<1>2. ASSUME NEW c \in clients, FoundNewer(c) \/ FoundOlder(c) \/ FoundSame(c)
      PROVE  TodoInv' /\ RosterInv'
  BY <1>2, FoundNewerKept, FoundOlderKept, FoundSameKept
<1>3. QED
  BY <1>1, <1>2, FoundNoneKept, EraseKept, ActKept, ConnectKept, PushKept, Zenon DEF Handle

LEMMA WorkKept ==
  ASSUME SafeInv, TodoInv, RosterInv, NEW t \in Threads, Work(t), ~crashed'
  PROVE  TodoInv' /\ RosterInv'
<1>1. CASE Broadcast(t)
  <2>1. "sent" \in Places
    BY DEF Places
  <2>2. QED  BY <1>1, <2>1, EntersKept DEF Broadcast, gameVars
<1>2. CASE Sent(t) \/ Started(t)
  <2>1. At(t) \in {"sent", "started"} /\ Return(t) /\ LocalsKept
    BY <1>2 DEF Sent, Started
  <2>2. At(t) # "idle"
    BY <2>1
  <2>3. PICK x \in Frames, r \in Seq(Frames) : InCall(t, x, r)
    BY <2>2, InsideCall
  <2>4. Becomes(t, r)
    BY <2>1, <2>3, Replaced, Zenon DEF InCall, SafeInv
  <2>5. x.at \in {"sent", "started"}
    BY <2>1, <2>3 DEF InCall
  <2>6. clients' = clients /\ players' = players /\ ready' \subseteq players
    BY <1>2 DEF Sent, Started, gameVars, RosterInv, Roster
  <2>7. QED  BY <2>1, <2>3, <2>4, <2>5, <2>6, PopsKept
<1>3. QED
  BY <1>1, <1>2, DropPlayerKept, DropObserverKept, EndCleanupKept DEF Work

(* What holds unless the program has crashed.                              *)
RosterSafe == SafeInv /\ (~crashed => TodoInv /\ RosterInv)

LEMMA NextKept ==
  ASSUME Quiet, RosterSafe, [Next]_vars
  PROVE  RosterSafe'
<1>1. SafeInv'
  BY NextSafe, SameSafe DEF RosterSafe
<1>2. ASSUME Next, ~crashed' PROVE TodoInv' /\ RosterInv'
  <2>1. SafeInv /\ TodoInv /\ RosterInv
    BY <1>2 DEF Next, RosterSafe
  <2>2. CASE Poll
    BY <2>1, <2>2, PollKept
  <2>3. CASE Handle
    BY <2>1, <2>3, HandleKept
  <2>4. CASE LoopEvent \/ Ending
    BY <2>1, <2>4, LoopKept
  <2>5. ASSUME NEW t \in Threads, Work(t) PROVE TodoInv' /\ RosterInv'
    BY <1>2, <2>1, <2>5, WorkKept
  <2>6. ASSUME NEW c \in clients, FallSilent(c) PROVE TodoInv' /\ RosterInv'
    BY <2>1, <2>6, FallSilentKept
  <2>7. QED  BY <1>2, <2>2, <2>3, <2>4, <2>5, <2>6, Zenon DEF Next
<1>3. ASSUME UNCHANGED vars, ~crashed' PROVE TodoInv' /\ RosterInv'
  <2>1. /\ UNCHANGED <<clients, players, ready, stack, message>>
        /\ TodoInv /\ RosterInv
    BY <1>3 DEF vars, gameVars, netVars, RosterSafe
  <2>2. ErasedNow' = ErasedNow /\ Inactive' = Inactive
    BY <2>1 DEF ErasedNow, ClientsOf, Inactive
  <2>3. ToldNow' = ToldNow /\ PendingNow' = PendingNow /\ (IsNew' <=> IsNew)
    BY <2>1, <2>2 DEF ToldNow, ToldBy, PendingNow, IsNew, ClientsOf
  <2>4. QED  BY <2>1, <2>2, <2>3 DEF TodoInv, TodoBy, RosterInv
<1>4. QED  BY <1>1, <1>2, <1>3, Zenon DEF RosterSafe

LEMMA InitKept ==
  ASSUME Init
  PROVE  RosterSafe
<1>1. SafeInv
  BY InitSafe
<1>2. \A t \in Threads : stack[t] = << >>
  BY DEF Init
<1>3. \A t \in Threads : \A P : ~Has(stack[t], P)
  BY <1>2 DEF Has
<1>4. \A t \in Threads : ToldBy(stack[t]) = {} /\ TodoBy(stack[t]) = {}
  BY <1>3, ByNobody
<1>5. /\ ~Has(stack["net"], {"erase"}) /\ ~Has(stack["net"], {"add", "push"})
      /\ ~Has(stack["net"], {"connect", "add", "push"})
  BY <1>3 DEF Threads
<1>6. ErasedNow = {} /\ PendingNow = {} /\ IsNew
  BY <1>5, Zenon DEF ErasedNow, PendingNow, IsNew
<1>7. ToldNow = {} /\ TodoInv
  BY <1>4, <1>6 DEF ToldNow, TodoInv
<1>8. Roster(clients, players, ready, {}, {})
  BY DEF Init, Roster
<1>9. QED  BY <1>1, <1>6, <1>7, <1>8 DEF RosterSafe, RosterInv

(* While a client is being forgotten or made, who is told of, erased or    *)
(* pending says in what the players may differ from the clients.           *)
THEOREM RosterIsTracked ==
  ASSUME Quiet
  PROVE  Spec => []RosterSafe
<1>1. RosterSafe /\ [Next]_vars => RosterSafe'
  BY NextKept
<1>2. QED  BY InitKept, <1>1, PTL DEF Spec

(* Between two messages, and outside cleanups, the players of the game are *)
(* exactly the named connections, each name connected once and each address*)
(* once, and only they are ready.                                          *)
LEMMA CalmMatches ==
  ASSUME RosterSafe
  PROVE  RosterMatches
<1> SUFFICES ASSUME Calm, ~crashed
             PROVE  LET named == {c \in clients : c.name # OBSERVER}
                    IN  /\ {c.name : c \in named} = players
                        /\ ready \subseteq players
                        /\ \A c, d \in named : c.name = d.name => c = d
                        /\ \A c, d \in clients : c.address = d.address => c = d
  BY DEF RosterMatches
<1>1. SafeInv /\ RosterInv /\ players \subseteq Names /\ "net" \in Threads
  BY DEF RosterSafe, SafeInv, ServerTypeOK, Threads
<1>2. stack["net"] = << >>
  BY <1>1, AtIdle DEF Calm, SafeInv
<1>3. \A t \in Threads : ~Has(stack[t], {"cleanup"})
  BY DEF Calm, CleaningUp, Has
<1>4. \A t \in Threads : ToldBy(stack[t]) = {}
  BY <1>3, ByNobody
<1>5. ~Has(stack["net"], {"erase"}) /\ ~Has(stack["net"], {"add", "push"})
  BY <1>2 DEF Has
<1>6. ErasedNow = {} /\ PendingNow = {}
  BY <1>5, Zenon DEF ErasedNow, PendingNow
<1>7. ToldNow = {}
  BY <1>4, <1>6 DEF ToldNow
<1>8. Roster(clients, players, ready, {}, {})
  BY <1>1, <1>6, <1>7 DEF RosterInv
<1>9. \A c \in clients : c.name # OBSERVER => c.name \in players
  BY <1>8 DEF Roster
<1>10. \A n \in players : n # OBSERVER /\ \E c \in clients : c.name = n
  BY <1>1, <1>8 DEF Roster
<1>11. {c.name : c \in {d \in clients : d.name # OBSERVER}} = players
  BY <1>9, <1>10
<1>12. QED  BY <1>8, <1>11 DEF Roster

THEOREM PlayersAreConnected ==
  ASSUME Quiet
  PROVE  Spec => []RosterMatches
<1>1. QED  BY RosterIsTracked, CalmMatches, PTL
=============================================================================
