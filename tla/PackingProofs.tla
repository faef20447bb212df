--------------------------- MODULE PackingProofs ---------------------------
(***************************************************************************)
(* Proofs about module Packing: a reply loses no event, and its datagrams  *)
(* are as full as they may be.                                             *)
(***************************************************************************)
EXTENDS Packing, WellFoundedInduction, TLAPS

-----------------------------------------------------------------------------
(* Sums of lengths.                                                        *)

(* A set of natural numbers that is not empty has a least member.          *)
LEMMA LeastOf ==
  ASSUME NEW T \in SUBSET Nat, T # {}
  PROVE  \E m \in T : \A k \in T : m <= k
<1>1. IsWellFoundedOn(OpToRel(<, Nat), Nat)
  BY NatLessThanWellFounded
<1>2. \A x, y \in Nat : <<y, x>> \in OpToRel(<, Nat) <=> y < x
  BY DEF OpToRel
<1>3. PICK Q : IsWellFoundedOn(Q, Nat) /\ \A x, y \in Nat : <<y, x>> \in Q <=> y < x
  BY <1>1, <1>2
<1>4. PICK m \in T : \A y \in T : ~ (<<y, m>> \in Q)
  BY <1>3, WFMin
<1>5. \A k \in T : ~(k < m)
  BY <1>3, <1>4
<1>6. QED  BY <1>4, <1>5

(* The sums of the first n lengths, for each n up to k.                    *)
IsSums(lens, k, g) ==
    g = [i \in 0 .. k |-> IF i = 0 THEN 0 ELSE g[i - 1] + lens[i]]

LEMMA SumsExist ==
  ASSUME NEW lens \in Seq(Nat), NEW k \in 0 .. Len(lens)
  PROVE  \E g : IsSums(lens, k, g)
<1> DEFINE Bad == {n \in 0 .. Len(lens) : ~\E g : IsSums(lens, n, g)}
<1>1. SUFFICES ASSUME Bad # {} PROVE FALSE
  OBVIOUS
<1>2. PICK n \in Bad : \A m \in Bad : n <= m
  <2>1. Bad \in SUBSET Nat
    OBVIOUS
  <2> QED
    BY <1>1, <2>1, LeastOf
<1>3. CASE n = 0
  <2> DEFINE g == [i \in 0 .. 0 |-> 0]
  <2>1. IsSums(lens, 0, g)
    BY DEF IsSums
  <2> QED
    BY <1>2, <1>3, <2>1
<1>4. CASE n # 0
  <2>1. n - 1 \in 0 .. Len(lens) /\ n \in Nat /\ n - 1 \notin Bad
    <3>1. n \in 0 .. Len(lens) /\ \A m \in Bad : n <= m
      BY <1>2
    <3>2. n - 1 \in 0 .. Len(lens) /\ n \in Nat /\ ~(n <= n - 1)
      BY <1>4, <3>1
    <3> QED
      BY <3>1, <3>2, Zenon
  <2>2. PICK g : IsSums(lens, n - 1, g)
    BY <2>1
  <2> DEFINE h == [i \in 0 .. n |-> IF i = n THEN g[n - 1] + lens[n] ELSE g[i]]
  <2>3. \A i \in 0 .. n - 1 :
           g[i] = IF i = 0 THEN 0 ELSE g[i - 1] + lens[i]
    BY <2>2 DEF IsSums
  <2>4. ASSUME NEW i \in 0 .. n
        PROVE  h[i] = IF i = 0 THEN 0 ELSE h[i - 1] + lens[i]
    BY <2>1, <2>3, <1>4
  <2>5. h = [i \in 0 .. n |-> IF i = 0 THEN 0 ELSE h[i - 1] + lens[i]]
    BY <2>4
  <2>6. IsSums(lens, n, h)
    BY <2>5 DEF IsSums
  <2> QED
    BY <1>2, <2>6
<1> QED
  BY <1>3, <1>4

SumsOf(lens) == CHOOSE g : IsSums(lens, Len(lens), g)

LEMMA SumSteps ==
  ASSUME NEW lens \in Seq(Nat)
  PROVE  /\ SumOf(lens) = SumsOf(lens)[Len(lens)]
         /\ \A i \in 0 .. Len(lens) :
               SumsOf(lens)[i] = IF i = 0 THEN 0 ELSE SumsOf(lens)[i - 1] + lens[i]
<1>1. SumOf(lens) = SumsOf(lens)[Len(lens)]
  BY DEF SumOf, SumsOf, IsSums
<1>2. IsSums(lens, Len(lens), SumsOf(lens))
  <2>1. \E g : IsSums(lens, Len(lens), g)
    BY SumsExist
  <2> QED
    BY <2>1 DEF SumsOf
<1> QED
  BY <1>1, <1>2 DEF IsSums

LEMMA SumsAreNumbers ==
  ASSUME NEW lens \in Seq(Nat)
  PROVE  \A i \in 0 .. Len(lens) : SumsOf(lens)[i] \in Nat
<1> DEFINE Bad == {i \in 0 .. Len(lens) : SumsOf(lens)[i] \notin Nat}
<1>1. SUFFICES ASSUME Bad # {} PROVE FALSE
  OBVIOUS
<1>2. PICK n \in Bad : \A m \in Bad : n <= m
  <2>1. Bad \in SUBSET Nat
    OBVIOUS
  <2> QED
    BY <1>1, <2>1, LeastOf
<1>3. n \in 0 .. Len(lens) /\ SumsOf(lens)[n] \notin Nat
  BY <1>2
<1>4. SumsOf(lens)[n] = IF n = 0 THEN 0 ELSE SumsOf(lens)[n - 1] + lens[n]
  BY <1>3, SumSteps
<1>5. n # 0
  BY <1>3, <1>4
<1>6. n - 1 \in 0 .. Len(lens) /\ ~(n <= n - 1) /\ lens[n] \in Nat
  BY <1>3, <1>5
<1>7. n - 1 \notin Bad
  BY <1>2, <1>6, Zenon
<1>8. SumsOf(lens)[n - 1] \in Nat
  BY <1>6, <1>7
<1> QED
  BY <1>3, <1>4, <1>5, <1>6, <1>8

(* The sum of a longer sequence begins with the sums of the shorter one.   *)
LEMMA SumsAgree ==
  ASSUME NEW lens \in Seq(Nat), NEW more \in Seq(Nat), Len(lens) <= Len(more),
         \A i \in 1 .. Len(lens) : more[i] = lens[i]
  PROVE  \A i \in 0 .. Len(lens) : SumsOf(more)[i] = SumsOf(lens)[i]
<1> DEFINE Bad == {i \in 0 .. Len(lens) : SumsOf(more)[i] # SumsOf(lens)[i]}
<1>1. SUFFICES ASSUME Bad # {} PROVE FALSE
  OBVIOUS
<1>2. PICK n \in Bad : \A m \in Bad : n <= m
  <2>1. Bad \in SUBSET Nat
    OBVIOUS
  <2> QED
    BY <1>1, <2>1, LeastOf
<1>3. n \in 0 .. Len(lens) /\ n \in 0 .. Len(more) /\ SumsOf(more)[n] # SumsOf(lens)[n]
  BY <1>2
<1>4. /\ SumsOf(lens)[n] = IF n = 0 THEN 0 ELSE SumsOf(lens)[n - 1] + lens[n]
      /\ SumsOf(more)[n] = IF n = 0 THEN 0 ELSE SumsOf(more)[n - 1] + more[n]
  BY <1>3, SumSteps
<1>5. n # 0
  BY <1>3, <1>4
<1>6. n - 1 \in 0 .. Len(lens) /\ ~(n <= n - 1) /\ more[n] = lens[n]
  BY <1>3, <1>5
<1>7. n - 1 \notin Bad
  BY <1>2, <1>6, Zenon
<1>8. SumsOf(more)[n - 1] = SumsOf(lens)[n - 1]
  BY <1>6, <1>7
<1> QED
  BY <1>3, <1>4, <1>5, <1>6, <1>8

LEMMA SumOfMore ==
  ASSUME NEW lens \in Seq(Nat), NEW more \in Seq(Nat), NEW x \in Nat,
         Len(more) = Len(lens) + 1, more[Len(more)] = x,
         \A i \in 1 .. Len(lens) : more[i] = lens[i]
  PROVE  SumOf(more) = SumOf(lens) + x
<1>1. /\ Len(lens) \in 0 .. Len(lens) /\ Len(more) \in 0 .. Len(more)
      /\ Len(more) # 0 /\ Len(more) - 1 = Len(lens) /\ Len(lens) <= Len(more)
  OBVIOUS
<1>2. SumsOf(more)[Len(lens)] = SumsOf(lens)[Len(lens)]
  BY <1>1, SumsAgree
<1>3. SumsOf(more)[Len(more)] = SumsOf(more)[Len(lens)] + x
  BY <1>1, SumSteps
<1>4. /\ SumOf(more) = SumsOf(more)[Len(more)]
      /\ SumOf(lens) = SumsOf(lens)[Len(lens)]
  BY SumSteps
<1> QED
  BY <1>2, <1>3, <1>4

LEMMA SumIsNumber ==
  ASSUME NEW lens \in Seq(Nat)
  PROVE  SumOf(lens) \in Nat /\ (lens = << >> => SumOf(lens) = 0)
<1>1. Len(lens) \in 0 .. Len(lens)
  OBVIOUS
<1>2. SumOf(lens) \in Nat
  BY <1>1, SumSteps, SumsAreNumbers
<1>3. ASSUME lens = << >> PROVE SumOf(lens) = 0
  <2>1. Len(lens) = 0
    BY <1>3
  <2> QED
    BY <1>1, <2>1, SumSteps
<1> QED
  BY <1>2, <1>3

(* The numbers s are those of stored events.                               *)
Stored(s) == s \in Seq(Nat) /\ \A i \in DOMAIN s : s[i] < Len(store)

LengthsOf(s) == [i \in DOMAIN s |-> store[s[i] + 1]]

LEMMA LengthsAreNumbers ==
  ASSUME store \in Seq(Nat), NEW s, Stored(s)
  PROVE  /\ LengthsOf(s) \in Seq(Nat) /\ Len(LengthsOf(s)) = Len(s)
         /\ \A i \in 1 .. Len(s) : LengthsOf(s)[i] = store[s[i] + 1]
<1>1. \A i \in DOMAIN s : s[i] + 1 \in 1 .. Len(store)
  BY DEF Stored
<1>2. DOMAIN s = 1 .. Len(s) /\ Len(s) \in Nat
  BY DEF Stored
<1> QED
  BY <1>1, <1>2 DEF LengthsOf

LEMMA TotalOfMore ==
  ASSUME store \in Seq(Nat), NEW s, Stored(s), NEW n \in Nat, n < Len(store)
  PROVE  /\ Stored(Append(s, n))
         /\ Total(Append(s, n)) = Total(s) + store[n + 1]
         /\ Total(s) \in Nat
<1>1. PICK t : t = Append(s, n)
  OBVIOUS
<1>2. /\ t \in Seq(Nat) /\ Len(t) = Len(s) + 1 /\ t[Len(t)] = n
      /\ \A i \in 1 .. Len(s) : t[i] = s[i]
      /\ DOMAIN t = 1 .. Len(t) /\ Len(s) \in Nat /\ DOMAIN s = 1 .. Len(s)
  BY <1>1 DEF Stored
<1>3. Stored(t)
  <2>1. ASSUME NEW i \in DOMAIN t PROVE t[i] < Len(store)
    <3>1. i \in DOMAIN s \/ i = Len(t)
      BY <1>2
    <3> QED
      BY <3>1, <1>2 DEF Stored
  <2> QED
    BY <1>2, <2>1 DEF Stored
<1>4. store[n + 1] \in Nat
  OBVIOUS
<1>5. /\ LengthsOf(t) \in Seq(Nat) /\ LengthsOf(s) \in Seq(Nat)
      /\ Len(LengthsOf(t)) = Len(LengthsOf(s)) + 1
      /\ LengthsOf(t)[Len(LengthsOf(t))] = store[n + 1]
      /\ \A i \in 1 .. Len(LengthsOf(s)) : LengthsOf(t)[i] = LengthsOf(s)[i]
  <2>1. /\ LengthsOf(t) \in Seq(Nat) /\ Len(LengthsOf(t)) = Len(t)
        /\ \A i \in 1 .. Len(t) : LengthsOf(t)[i] = store[t[i] + 1]
    BY <1>3, LengthsAreNumbers
  <2>2. /\ LengthsOf(s) \in Seq(Nat) /\ Len(LengthsOf(s)) = Len(s)
        /\ \A i \in 1 .. Len(s) : LengthsOf(s)[i] = store[s[i] + 1]
    BY LengthsAreNumbers
  <2>3. Len(s) \in Nat /\ Len(t) = Len(s) + 1 /\ Len(t) \in 1 .. Len(t)
        /\ \A i \in 1 .. Len(s) : i \in 1 .. Len(t)
    BY <1>2
  <2> QED
    BY <2>1, <2>2, <2>3, <1>2
<1>6. SumOf(LengthsOf(t)) = SumOf(LengthsOf(s)) + store[n + 1]
  BY <1>4, <1>5, SumOfMore
<1>7. SumOf(LengthsOf(s)) \in Nat
  BY <1>5, SumIsNumber
<1> QED
  BY <1>1, <1>3, <1>6, <1>7 DEF Total, LengthsOf

LEMMA TotalOfNone == store \in Seq(Nat) => Total(<< >>) = 0
<1>1. [i \in DOMAIN << >> |-> store[<< >>[i] + 1]] = << >>
  OBVIOUS
<1>2. << >> \in Seq(Nat)
  OBVIOUS
<1> QED
  BY <1>1, <1>2, SumIsNumber DEF Total

(* Events stored later leave the totals of earlier ones alone.             *)
LEMMA TotalStays ==
  ASSUME store \in Seq(Nat), NEW len \in Nat, store' = Append(store, len),
         NEW s, Stored(s)
  PROVE  Stored(s)' /\ Total(s)' = Total(s)
<1>1. Len(store') = Len(store) + 1
  OBVIOUS
<1>2. \A i \in DOMAIN s : store'[s[i] + 1] = store[s[i] + 1]
  BY DEF Stored
<1>3. \A i \in DOMAIN s : s[i] \in Nat /\ s[i] < Len(store')
  BY <1>1 DEF Stored
<1> QED
  BY <1>2, <1>3 DEF Stored, Total

-----------------------------------------------------------------------------
(* The inductive invariant.                                                *)

USE LengthsAssumption, BoundsAssumption

(* Every variable has its type; only NEW_GAME, the first event, could be   *)
(* longer than a datagram.                                                 *)
PackTypeOK ==
    /\ at \in {"new_game", "play", "reply"}
    /\ players_len \in Nat /\ players_len <= MaxEventDataLen
    /\ named \in Nat /\ asked \in Nat
    /\ store \in Seq(Nat) /\ Len(store) <= MaxStore
    /\ \A i \in DOMAIN store : i # 1 => store[i] <= MaxDataLen
    /\ queue \in Seq(Nat) /\ message \in [events : Seq(Nat), message_len : Nat]
    /\ sent \in Seq(Seq(Nat))
    /\ at = "new_game" => sent = << >>

NewGameFits == store # << >> => store[1] <= MaxDataLen

(* The message holds the events from First on, the queue those after them, *)
(* and one of the two is not empty.                                        *)
First == Len(store) - Len(queue) - Len(message.events)

FillInv ==
    /\ asked <= First /\ First < Len(store)
    /\ \A i \in DOMAIN message.events : message.events[i] = First + i - 1
    /\ \A i \in DOMAIN queue : queue[i] = Len(store) - Len(queue) + i - 1
    /\ message.message_len = Total(message.events)
    /\ message.message_len <= MaxDataLen

(* A datagram is a run of events, ...                                      *)
BeginOf(p) == sent[p][1]
EndOf(p)   == sent[p][1] + Len(sent[p])

SentInv ==
    /\ \A p \in DOMAIN sent :
          /\ sent[p] # << >> /\ Stored(sent[p]) /\ Total(sent[p]) <= MaxDataLen
    /\ FullButLast

(* ... and together those of a reply under way cover the events before     *)
(* First; the last one had no room for First.                              *)
RunInv ==
    /\ Len(sent) <= First - asked
    /\ \A p \in DOMAIN sent :
          /\ \A i \in DOMAIN sent[p] : sent[p][i] = BeginOf(p) + i - 1
          /\ asked <= BeginOf(p) /\ EndOf(p) <= First
    /\ \A p, q \in DOMAIN sent : p < q => EndOf(p) <= BeginOf(q)
    /\ \A n \in asked .. First - 1 :
          \E p \in DOMAIN sent : BeginOf(p) <= n /\ n < EndOf(p)
    /\ sent # << >> => Total(sent[Len(sent)]) + store[First + 1] > MaxDataLen

PackInv ==
    /\ PackTypeOK /\ SentInv
    /\ at = "reply" => FillInv /\ RunInv

LEMMA InitPacks == Init => PackInv
<1> SUFFICES ASSUME Init PROVE PackInv
  OBVIOUS
<1>1. /\ sent = << >> /\ store = << >> /\ queue = << >> /\ at = "new_game"
      /\ players_len = 0 /\ named = 0 /\ asked = 0
      /\ message = [events |-> << >>, message_len |-> 0]
  BY DEF Init, Empty
<1>2. << >> \in Seq(Nat) /\ << >> \in Seq(Seq(Nat)) /\ Len(<< >>) = 0
  OBVIOUS
<1>3. PackTypeOK
  <2>1. MaxEventDataLen \in Nat
    BY DEF MaxEventDataLen, HeaderLen, PixelLen
  <2> QED
    BY <1>1, <1>2, <2>1 DEF PackTypeOK
<1>4. SentInv
  <2>1. DOMAIN sent = {} /\ Len(sent) = 0
    BY <1>1
  <2>2. 1 .. Len(sent) - 1 = {}
    BY <2>1
  <2> QED
    BY <2>1, <2>2 DEF SentInv, FullButLast
<1> QED
  BY <1>1, <1>3, <1>4 DEF PackInv

LEMMA SamePacks == PackInv /\ UNCHANGED vars => PackInv'
BY DEF PackInv, vars, PackTypeOK, SentInv, FillInv, RunInv, FullButLast, Stored,
       Total, First, BeginOf, EndOf

(* Before there are events, and when one is added.                         *)
LEMMA ElementOf ==
  ASSUME NEW S, NEW s \in Seq(S), NEW i \in 1 .. Len(s)
  PROVE  s[i] \in S
OBVIOUS

LEMMA PlayPacks ==
  ASSUME PackInv, AddPlayer \/ NewGame \/ AddEvent
  PROVE  PackInv'
<1>1. CASE AddPlayer
  <2>1. /\ at = "new_game" /\ named < Len(NameLengths)
        /\ players_len + NameLengths[named + 1] + 1 <= MaxEventDataLen
        /\ players_len' = players_len + NameLengths[named + 1] + 1
        /\ named' = named + 1
        /\ UNCHANGED <<at, store, asked, queue, message, sent>>
    BY <1>1 DEF AddPlayer, FitsIn
  <2>2. NameLengths[named + 1] \in Nat
    <3>1. named \in Nat
      BY DEF PackInv, PackTypeOK
    <3>2. NameLengths \in Seq(1 .. 64)
      BY LengthsAssumption
    <3>3. named + 1 \in 1 .. Len(NameLengths)
      BY <2>1, <3>1, <3>2
    <3>4. NameLengths[named + 1] \in 1 .. 64
      BY <3>2, <3>3, ElementOf, Zenon
    <3>5. \A x \in 1 .. 64 : x \in Nat
      OBVIOUS
    <3> QED
      BY <3>4, <3>5, Zenon
  <2>3. players_len' \in Nat /\ named' \in Nat /\ players_len' <= MaxEventDataLen
    BY <2>1, <2>2 DEF PackInv, PackTypeOK
  <2>4. PackTypeOK'
    BY <2>1, <2>3 DEF PackInv, PackTypeOK
  <2>5. SentInv'
    BY <2>1 DEF PackInv, SentInv, FullButLast, Stored, Total
  <2> QED
    BY <2>1, <2>4, <2>5 DEF PackInv
<1>2. CASE NewGame
  <2> DEFINE len == HeaderLen + players_len + NewGameHeaderLen
  <2>1. /\ at = "new_game" /\ store' = <<len>> /\ at' = "play"
        /\ UNCHANGED <<players_len, named, asked, queue, message, sent>>
    BY <1>2 DEF NewGame
  <2>2. len \in Nat /\ sent = << >>
    BY <2>1 DEF PackInv, PackTypeOK, HeaderLen, NewGameHeaderLen
  <2> HIDE DEF len
  <2>3. store' \in Seq(Nat) /\ Len(store') = 1 /\ DOMAIN store' = {1}
    BY <2>1, <2>2
  <2>4. PackTypeOK'
    BY <2>1, <2>2, <2>3 DEF PackInv, PackTypeOK
  <2>5. DOMAIN sent' = {} /\ 1 .. Len(sent') - 1 = {}
    BY <2>1, <2>2
  <2> QED
    BY <2>1, <2>4, <2>5 DEF PackInv, SentInv, FullButLast
<1>3. CASE AddEvent
  <2>1. PICK len \in {PixelLen, EliminatedLen} : store' = Append(store, len)
    BY <1>3 DEF AddEvent
  <2>2. /\ at = "play" /\ Len(store) < MaxStore
        /\ UNCHANGED <<at, players_len, named, asked, queue, message, sent>>
    BY <1>3 DEF AddEvent
  <2>3. len \in Nat /\ len <= MaxDataLen
    BY <2>1 DEF PixelLen, EliminatedLen, HeaderLen
  <2>4. store \in Seq(Nat)
    BY DEF PackInv, PackTypeOK
  <2>5. /\ store' \in Seq(Nat) /\ Len(store') = Len(store) + 1
        /\ \A i \in DOMAIN store : store'[i] = store[i]
        /\ \A i \in DOMAIN store' : i \in DOMAIN store \/ store'[i] = len
    BY <2>1, <2>3, <2>4
  <2>6. PackTypeOK'
    <3>1. Len(store') <= MaxStore
      BY <2>2, <2>4, <2>5 DEF PackInv, PackTypeOK
    <3>2. \A i \in DOMAIN store' : i # 1 => store'[i] <= MaxDataLen
      BY <2>3, <2>5 DEF PackInv, PackTypeOK
    <3> QED
      BY <2>2, <2>5, <3>1, <3>2 DEF PackInv, PackTypeOK
  <2>7. \A p \in DOMAIN sent : Stored(sent[p])' /\ Total(sent[p])' = Total(sent[p])
    <3> SUFFICES ASSUME NEW p \in DOMAIN sent
                 PROVE  Stored(sent[p])' /\ Total(sent[p])' = Total(sent[p])
      OBVIOUS
    <3>1. PICK s : s = sent[p]
      OBVIOUS
    <3>2. Stored(s) /\ sent'[p] = s
      BY <2>2, <3>1 DEF PackInv, SentInv
    <3>3. Stored(s)' /\ Total(s)' = Total(s)
      BY <2>1, <2>3, <2>4, <3>2, TotalStays
    <3> QED
      BY <3>1, <3>2, <3>3
  <2>8. FullButLast'
    <3> SUFFICES ASSUME NEW i \in 1 .. Len(sent) - 1
                 PROVE  Total(sent[i])' + store'[sent[i + 1][1] + 1] > MaxDataLen
      BY <2>2 DEF FullButLast
    <3>1. i \in DOMAIN sent /\ i + 1 \in DOMAIN sent
      BY DEF PackInv, PackTypeOK
    <3>2. Stored(sent[i + 1]) /\ sent[i + 1] # << >>
      BY <3>1 DEF PackInv, SentInv
    <3>3. sent[i + 1][1] + 1 \in DOMAIN store
      BY <2>4, <3>2 DEF Stored
    <3> QED
      BY <2>5, <2>7, <3>1, <3>3 DEF PackInv, SentInv, FullButLast
  <2> QED
    BY <2>2, <2>6, <2>7, <2>8 DEF PackInv, SentInv
<1> QED
  BY <1>1, <1>2, <1>3

(* A reply begins: all of it is in the queue.                              *)
LEMMA MakePacks ==
  ASSUME PackInv, NEW next \in 0 .. MaxStore - 1, MakeMessage(next)
  PROVE  PackInv'
<1>1. /\ next \in Nat /\ next < Len(store) /\ at' = "reply" /\ asked' = next
      /\ queue' = [i \in 1 .. Len(store) - next |-> next + i - 1]
      /\ message' = [events |-> << >>, message_len |-> 0] /\ sent' = << >>
      /\ UNCHANGED <<players_len, named, store>> /\ at = "play"
  BY DEF MakeMessage, Empty
<1>2. store \in Seq(Nat) /\ Len(store) \in Nat
  BY DEF PackInv, PackTypeOK
<1>3. /\ queue' \in Seq(Nat) /\ Len(queue') = Len(store) - next
      /\ \A i \in DOMAIN queue' : queue'[i] = next + i - 1
  BY <1>1, <1>2
<1>4. message'.events = << >> /\ message'.message_len = 0 /\ << >> \in Seq(Nat)
      /\ << >> \in Seq(Seq(Nat)) /\ Len(<< >>) = 0
  BY <1>1
<1>5. PackTypeOK'
  BY <1>1, <1>3, <1>4 DEF PackInv, PackTypeOK
<1>6. First' = next
  BY <1>1, <1>2, <1>3, <1>4 DEF First
<1>7. FillInv'
  <2>1. DOMAIN message'.events = {}
    BY <1>4
  <2>2. Total(message.events)' = 0
    <3>1. [i \in DOMAIN message'.events |-> store'[message'.events[i] + 1]] = << >>
      BY <1>4
    <3> QED
      BY <1>4, <3>1, SumIsNumber, Zenon DEF Total
  <2>3. \A i \in DOMAIN queue' : queue'[i] = Len(store') - Len(queue') + i - 1
    BY <1>1, <1>2, <1>3
  <2> QED
    <3>1. 0 <= MaxDataLen
      BY LengthsAssumption
    <3>2. asked' <= First' /\ First' < Len(store')
      BY <1>1, <1>2, <1>6
    <3> QED
      BY <1>4, <2>1, <2>2, <2>3, <3>1, <3>2 DEF FillInv
<1>8. SentInv' /\ RunInv'
  <2>1. DOMAIN sent' = {} /\ 1 .. Len(sent') - 1 = {} /\ Len(sent') = 0
    BY <1>1
  <2>2. \A n \in asked' .. First' - 1 : FALSE
    BY <1>1, <1>6
  <2> QED
    BY <1>1, <1>6, <2>1, <2>2 DEF SentInv, FullButLast, RunInv
<1> QED
  BY <1>5, <1>7, <1>8 DEF PackInv

(* The next event of the queue is put into the message.                    *)
LEMMA PutPacks ==
  ASSUME PackInv, Put
  PROVE  PackInv'
<1>1. /\ at = "reply" /\ queue # << >>
      /\ message.message_len + store[Head(queue) + 1] <= MaxDataLen
      /\ message' = [events |-> Append(message.events, Head(queue)),
                     message_len |-> message.message_len + store[Head(queue) + 1]]
      /\ queue' = Tail(queue)
      /\ UNCHANGED <<at, players_len, named, store, asked, sent>>
  BY DEF Put, FitsMessage, WithEvent
<1>2. PICK m, n, q : m = message.events /\ n = Head(queue) /\ q = queue
  OBVIOUS
<1>3. /\ store \in Seq(Nat) /\ m \in Seq(Nat) /\ q \in Seq(Nat) /\ q # << >>
      /\ message.message_len \in Nat
  BY <1>1, <1>2 DEF PackInv, PackTypeOK
<1>4. /\ asked <= First /\ First < Len(store) /\ First = Len(store) - Len(q) - Len(m)
      /\ \A i \in DOMAIN m : m[i] = First + i - 1
      /\ \A i \in DOMAIN q : q[i] = Len(store) - Len(q) + i - 1
      /\ message.message_len = Total(m)
  BY <1>1, <1>2 DEF PackInv, FillInv, First
<1>5. /\ Len(q) \in Nat \ {0} /\ Len(m) \in Nat /\ Len(store) \in Nat
      /\ 1 \in DOMAIN q /\ n = q[1] /\ asked \in Nat
  BY <1>2, <1>3 DEF PackInv, PackTypeOK
<1>6. n = First + Len(m) /\ n \in Nat /\ n < Len(store) /\ First \in Nat
  BY <1>4, <1>5
<1>7. Stored(m)
  <2>1. DOMAIN m = 1 .. Len(m)
    BY <1>3
  <2>2. ASSUME NEW i \in DOMAIN m PROVE m[i] < Len(store)
    BY <1>4, <1>5, <1>6, <2>1
  <2> QED
    BY <1>3, <2>2 DEF Stored
<1>8. /\ Total(Append(m, n)) = Total(m) + store[n + 1] /\ Total(m) \in Nat
      /\ store[n + 1] \in Nat
  <2>1. store[n + 1] \in Nat
    BY <1>3, <1>6, SMTT(20)
  <2> QED
    BY <1>3, <1>6, <1>7, <2>1, TotalOfMore
<1>9. PICK r, t : r = Tail(q) /\ t = Append(m, n)
  OBVIOUS
<1>10. /\ r \in Seq(Nat) /\ Len(r) = Len(q) - 1
       /\ \A i \in DOMAIN r : i + 1 \in DOMAIN q /\ r[i] = q[i + 1] /\ i \in Nat
  BY <1>3, <1>9
<1>11. /\ t \in Seq(Nat) /\ Len(t) = Len(m) + 1 /\ t[Len(t)] = n
       /\ \A i \in 1 .. Len(m) : t[i] = m[i]
       /\ DOMAIN t = 1 .. Len(t) /\ DOMAIN m = 1 .. Len(m)
  BY <1>3, <1>6, <1>9
<1>12. /\ queue' = r /\ message'.events = t
       /\ message'.message_len = message.message_len + store[n + 1]
       /\ message' \in [events : Seq(Nat), message_len : Nat]
  <2>1. queue' = r
    BY <1>1, <1>2, <1>9
  <2>2. message' = [events |-> t, message_len |-> message.message_len + store[n + 1]]
    BY <1>1, <1>2, <1>9
  <2>3. message.message_len + store[n + 1] \in Nat
    BY <1>3, <1>8, SMTT(20)
  <2> QED
    BY <2>1, <2>2, <2>3, <1>11
<1>13. First' = First
  BY <1>1, <1>4, <1>5, <1>10, <1>11, <1>12 DEF First
<1>14. PackTypeOK'
  BY <1>1, <1>10, <1>12 DEF PackInv, PackTypeOK
<1>15. FillInv'
  <2>1. \A i \in DOMAIN t : t[i] = First + i - 1
    <3> SUFFICES ASSUME NEW i \in DOMAIN t PROVE t[i] = First + i - 1
      OBVIOUS
    <3>1. i \in DOMAIN m \/ i = Len(t)
      BY <1>5, <1>11
    <3>2. ASSUME i \in DOMAIN m PROVE t[i] = First + i - 1
      BY <1>4, <1>11, <3>2
    <3>3. ASSUME i = Len(t) PROVE t[i] = First + i - 1
      BY <1>5, <1>6, <1>11, <3>3
    <3> QED
      BY <3>1, <3>2, <3>3
  <2>2. \A i \in DOMAIN r : r[i] = Len(store) - Len(r) + i - 1
    BY <1>4, <1>5, <1>10, SMTT(20)
  <2>3. Total(t)' = Total(t) /\ message'.message_len = Total(t)
    BY <1>1, <1>4, <1>8, <1>9, <1>12 DEF Total
  <2>4. message'.message_len <= MaxDataLen
    BY <1>1, <1>2, <1>12
  <2> QED
    BY <1>1, <1>4, <1>12, <1>13, <2>1, <2>2, <2>3, <2>4 DEF FillInv
<1>16. SentInv' /\ RunInv'
  BY <1>1, <1>13 DEF PackInv, SentInv, RunInv, FullButLast, Stored, Total, BeginOf,
                     EndOf
<1> QED
  BY <1>1, <1>14, <1>15, <1>16 DEF PackInv

(* A message that is sent is recorded: there are no more datagrams than    *)
(* events.                                                                 *)
LEMMA RecordPacks ==
  ASSUME PackInv, at = "reply", message.events # << >>, Record(message.events),
         store' = store
  PROVE  /\ sent' = Append(sent, message.events) /\ sent' \in Seq(Seq(Nat))
         /\ SentInv'
<1>1. PICK m, L : m = message.events /\ L = Len(sent)
  OBVIOUS
<1>2. /\ store \in Seq(Nat) /\ m \in Seq(Nat) /\ m # << >> /\ sent \in Seq(Seq(Nat))
      /\ Len(store) <= MaxStore /\ asked \in Nat /\ queue \in Seq(Nat)
  BY <1>1 DEF PackInv, PackTypeOK
<1>3. FillInv /\ RunInv /\ SentInv
  BY DEF PackInv
<1>4. /\ L \in Nat /\ Len(m) \in Nat /\ 1 \in DOMAIN m /\ First \in Nat
      /\ Len(store) \in Nat /\ First + Len(m) <= Len(store)
  <2>1. /\ Len(m) \in Nat /\ 1 \in DOMAIN m /\ L \in Nat
        /\ Len(store) \in Nat /\ Len(queue) \in Nat
    BY <1>1, <1>2
  <2>2. asked <= First /\ First = Len(store) - Len(queue) - Len(m)
    BY <1>1, <1>3 DEF FillInv, First
  <2> QED
    BY <1>2, <2>1, <2>2, SMTT(20)
<1>5. L < MaxDatagrams
  <2>1. L <= First - asked /\ First < Len(store)
    BY <1>1, <1>3 DEF RunInv, FillInv
  <2>2. MaxStore \in Nat /\ MaxDatagrams \in Nat /\ MaxDatagrams >= MaxStore
    BY BoundsAssumption
  <2> QED
    BY <1>2, <1>4, <2>1, <2>2
<1>6. sent' = Append(sent, m)
  BY <1>1, <1>5 DEF Record
<1>7. /\ sent' \in Seq(Seq(Nat)) /\ Len(sent') = L + 1 /\ sent'[L + 1] = m
      /\ \A p \in 1 .. L : sent'[p] = sent[p]
      /\ DOMAIN sent' = 1 .. L + 1 /\ DOMAIN sent = 1 .. L
  BY <1>1, <1>2, <1>6
<1>8. Stored(m)
  <2>1. DOMAIN m = 1 .. Len(m) /\ \A i \in DOMAIN m : m[i] = First + i - 1
    BY <1>1, <1>2, <1>3 DEF FillInv
  <2>2. ASSUME NEW i \in DOMAIN m PROVE m[i] < Len(store)
    BY <1>4, <2>1
  <2> QED
    BY <1>2, <2>2 DEF Stored
<1>9. Total(m) <= MaxDataLen
  BY <1>1, <1>3 DEF FillInv
<1>10. \A s : Stored(s)' = Stored(s) /\ Total(s)' = Total(s)
  BY DEF Stored, Total
<1>11. ASSUME NEW p \in 1 .. L + 1
       PROVE  sent'[p] # << >> /\ Stored(sent'[p]) /\ Total(sent'[p]) <= MaxDataLen
  <2>1. p \in 1 .. L \/ p = L + 1
    BY <1>4
  <2>2. CASE p \in 1 .. L
    BY <1>3, <1>7, <2>2 DEF SentInv
  <2>3. CASE p = L + 1
    BY <1>2, <1>7, <1>8, <1>9, <2>3
  <2> QED
    BY <2>1, <2>2, <2>3
<1>12. ASSUME NEW p \in 1 .. L
       PROVE  Total(sent'[p]) + store[sent'[p + 1][1] + 1] > MaxDataLen
  <2>1. (p \in 1 .. L - 1 /\ p + 1 \in 1 .. L) \/ p = L
    BY <1>4
  <2>2. CASE p \in 1 .. L - 1 /\ p + 1 \in 1 .. L
    BY <1>1, <1>3, <1>7, <2>2 DEF SentInv, FullButLast
  <2>3. CASE p = L
    <3>1. sent # << >> /\ sent'[p] = sent[Len(sent)] /\ sent'[p + 1] = m
      BY <1>1, <1>4, <1>7, <2>3
    <3>2. m[1] = First
      BY <1>1, <1>3, <1>4 DEF FillInv
    <3> QED
      BY <1>3, <3>1, <3>2 DEF RunInv
  <2> QED
    BY <2>1, <2>2, <2>3
<1>13. SentInv'
  <2>1. Len(sent') - 1 = L
    BY <1>4, <1>7
  <2>2. FullButLast'
    <3> SUFFICES ASSUME NEW p \in 1 .. L
                 PROVE  Total(sent[p])' + store'[sent'[p + 1][1] + 1] > MaxDataLen
      BY <2>1 DEF FullButLast
    <3>1. PICK s : s = sent'[p]
      OBVIOUS
    <3>2. Total(sent[p])' = Total(s)
      BY <3>1 DEF Total
    <3> QED
      BY <1>12, <3>1, <3>2
  <2>3. ASSUME NEW p \in DOMAIN sent'
        PROVE  sent'[p] # << >> /\ Stored(sent[p])' /\ Total(sent[p])' <= MaxDataLen
    <3>1. PICK s : s = sent'[p]
      OBVIOUS
    <3>2. Stored(sent[p])' = Stored(s) /\ Total(sent[p])' = Total(s)
      BY <3>1 DEF Stored, Total
    <3> QED
      BY <1>7, <1>11, <3>1, <3>2
  <2> QED
    BY <2>2, <2>3 DEF SentInv
<1> QED
  BY <1>1, <1>6, <1>7, <1>13

(* The message is full: it is not empty, because every event fits an empty *)
(* one.                                                                    *)
LEMMA OverflowPacks ==
  ASSUME PackInv, NewGameFits, Overflow
  PROVE  PackInv'
<1>1. /\ at = "reply" /\ queue # << >>
      /\ ~(message.message_len + store[Head(queue) + 1] <= MaxDataLen)
      /\ Record(message.events)
      /\ message' = [events |-> << >>, message_len |-> 0]
      /\ UNCHANGED <<at, queue, players_len, named, store, asked>>
  BY DEF Overflow, FitsMessage, NewMessage, Empty, StaysQueued
<1>2. PICK m, q, f, L : m = message.events /\ q = queue /\ f = First /\ L = Len(sent)
  OBVIOUS
<1>3. /\ store \in Seq(Nat) /\ m \in Seq(Nat) /\ q \in Seq(Nat) /\ q # << >>
      /\ asked \in Nat /\ sent \in Seq(Seq(Nat))
      /\ \A i \in DOMAIN store : store[i] <= MaxDataLen
  BY <1>1, <1>2 DEF PackInv, PackTypeOK, NewGameFits
<1>4. /\ asked <= f /\ f < Len(store) /\ f = Len(store) - Len(q) - Len(m)
      /\ \A i \in DOMAIN m : m[i] = f + i - 1
      /\ \A i \in DOMAIN q : q[i] = Len(store) - Len(q) + i - 1
      /\ message.message_len = Total(m)
  BY <1>1, <1>2 DEF PackInv, FillInv, First
<1>5. /\ Len(q) \in Nat \ {0} /\ Len(m) \in Nat /\ Len(store) \in Nat
      /\ 1 \in DOMAIN q /\ Head(q) = q[1] /\ L \in Nat /\ DOMAIN m = 1 .. Len(m)
      /\ DOMAIN store = 1 .. Len(store)
  BY <1>2, <1>3
<1>6. /\ f \in Nat /\ f + Len(m) \in Nat /\ f + Len(m) < Len(store)
      /\ Head(q) = f + Len(m) /\ f + Len(m) + 1 \in DOMAIN store
  <2>1. q[1] = Len(store) - Len(q) + 1 - 1
    BY <1>4, <1>5
  <2>2. f \in Int /\ asked <= f /\ f + Len(m) = Len(store) - Len(q)
    BY <1>4, <1>5
  <2> QED
    BY <1>3, <1>5, <2>1, <2>2, SMTT(20)
<1>7. Total(m) + store[f + Len(m) + 1] > MaxDataLen
  <2>1. Stored(m)
    <3>1. ASSUME NEW i \in DOMAIN m PROVE m[i] < Len(store)
      BY <1>4, <1>5, <1>6
    <3> QED
      BY <1>3, <3>1 DEF Stored
  <2>2. Total(m) \in Nat
    BY <1>3, <1>6, <2>1, TotalOfMore
  <2>3. store[f + Len(m) + 1] \in Nat
    BY <1>3, <1>6
  <2>4. MaxDataLen \in Nat
    BY LengthsAssumption
  <2>5. ~(Total(m) + store[f + Len(m) + 1] <= MaxDataLen)
    BY <1>1, <1>2, <1>4, <1>6
  <2> QED
    BY <2>2, <2>3, <2>4, <2>5
<1>8. m # << >> /\ Len(m) > 0 /\ 1 \in DOMAIN m
  <2>1. m = << >> => Total(m) = 0
    BY <1>3, TotalOfNone
  <2>2. store[f + Len(m) + 1] <= MaxDataLen /\ store[f + Len(m) + 1] \in Nat
    BY <1>3, <1>6
  <2>3. MaxDataLen \in Nat
    BY LengthsAssumption
  <2>4. m # << >>
    BY <1>7, <2>1, <2>2, <2>3
  <2> QED
    BY <1>3, <1>5, <2>4
<1>9. sent' = Append(sent, m) /\ sent' \in Seq(Seq(Nat)) /\ SentInv'
  BY <1>1, <1>2, <1>8, RecordPacks
<1>10. /\ Len(sent') = L + 1 /\ sent'[L + 1] = m /\ sent' # << >>
       /\ \A p \in 1 .. L : sent'[p] = sent[p]
       /\ DOMAIN sent' = 1 .. L + 1 /\ DOMAIN sent = 1 .. L
  BY <1>2, <1>3, <1>9
<1>11. message'.events = << >> /\ message'.message_len = 0 /\ << >> \in Seq(Nat)
       /\ Len(<< >>) = 0
  BY <1>1
<1>12. First' = f + Len(m)
  <2>1. First' = Len(store) - Len(q) - 0
    BY <1>1, <1>2, <1>11 DEF First
  <2> QED
    BY <1>4, <1>5, <2>1
<1>13. PackTypeOK'
  BY <1>1, <1>9, <1>11 DEF PackInv, PackTypeOK
<1>14. FillInv'
  <2>1. DOMAIN message'.events = {}
    BY <1>11
  <2>2. Total(message.events)' = 0
    <3>1. [i \in DOMAIN message'.events |-> store'[message'.events[i] + 1]] = << >>
      BY <1>11
    <3> QED
      BY <1>11, <3>1, SumIsNumber, Zenon DEF Total
  <2>3. \A i \in DOMAIN queue' : queue'[i] = Len(store') - Len(queue') + i - 1
    BY <1>1, <1>2, <1>4
  <2>4. 0 <= MaxDataLen
    BY LengthsAssumption
  <2>5. asked' <= First' /\ First' < Len(store')
    BY <1>1, <1>3, <1>4, <1>5, <1>6, <1>12
  <2> QED
    BY <1>11, <2>1, <2>2, <2>3, <2>4, <2>5 DEF FillInv
<1>15. RunInv'
  <2>1. /\ L <= f - asked
        /\ \A p \in 1 .. L :
              /\ \A i \in DOMAIN sent[p] : sent[p][i] = BeginOf(p) + i - 1
              /\ asked <= BeginOf(p) /\ EndOf(p) <= f
        /\ \A p, q_1 \in 1 .. L : p < q_1 => EndOf(p) <= BeginOf(q_1)
        /\ \A n \in asked .. f - 1 :
              \E p \in 1 .. L : BeginOf(p) <= n /\ n < EndOf(p)
    BY <1>1, <1>2, <1>10 DEF PackInv, RunInv
  <2>2. \A p \in 1 .. L : BeginOf(p)' = BeginOf(p) /\ EndOf(p)' = EndOf(p)
    BY <1>10 DEF BeginOf, EndOf
  <2>3. PICK k : k = L + 1
    OBVIOUS
  <2>4. BeginOf(k)' = f /\ EndOf(k)' = f + Len(m)
    BY <1>4, <1>6, <1>8, <1>10, <2>3, SMTT(20) DEF BeginOf, EndOf
  <2>5. Len(sent') <= First' - asked'
    BY <1>1, <1>3, <1>5, <1>6, <1>8, <1>10, <1>12, <2>1
  <2>6. ASSUME NEW p \in DOMAIN sent'
        PROVE  p \in 1 .. L \/ p = k
    BY <1>5, <1>10, <2>3
  <2>7. ASSUME NEW p \in DOMAIN sent'
        PROVE  /\ \A i \in DOMAIN sent'[p] : sent'[p][i] = BeginOf(p)' + i - 1
               /\ asked' <= BeginOf(p)' /\ EndOf(p)' <= First'
    <3>1. CASE p \in 1 .. L
      <4>1. EndOf(p) \in Int
        <5>1. sent[p] \in Seq(Nat) /\ sent[p] # << >>
          BY <1>10, <3>1 DEF PackInv, SentInv, Stored
        <5> QED
          BY <5>1 DEF EndOf
      <4> QED
        BY <1>1, <1>5, <1>6, <1>10, <1>12, <2>1, <2>2, <3>1, <4>1
    <3>2. CASE p = k
      <4>1. sent'[p] = m
        BY <1>10, <2>3, <3>2
      <4>2. \A i \in DOMAIN sent'[p] : sent'[p][i] = BeginOf(p)' + i - 1
        BY <1>4, <2>4, <3>2, <4>1
      <4>3. asked' <= BeginOf(p)' /\ EndOf(p)' <= First'
        BY <1>1, <1>4, <1>6, <1>12, <2>4, <3>2
      <4> QED
        BY <4>2, <4>3
    <3> QED
      BY <2>6, <3>1, <3>2
  <2>8. ASSUME NEW p \in DOMAIN sent', NEW r \in DOMAIN sent', p < r
        PROVE  EndOf(p)' <= BeginOf(r)'
    <3>1. p \in 1 .. L /\ (r \in 1 .. L \/ r = k)
      BY <1>5, <1>10, <2>3, <2>8
    <3> QED
      BY <2>1, <2>2, <2>4, <2>8, <3>1
  <2>9. ASSUME NEW n \in asked' .. First' - 1
        PROVE  \E p \in DOMAIN sent' : BeginOf(p)' <= n /\ n < EndOf(p)'
    <3>1. n \in asked .. f - 1 \/ (f <= n /\ n < f + Len(m))
      BY <1>1, <1>3, <1>5, <1>6, <1>12
    <3>2. CASE n \in asked .. f - 1
      <4>1. PICK p \in 1 .. L : BeginOf(p) <= n /\ n < EndOf(p)
        BY <2>1, <3>2
      <4>2. p \in DOMAIN sent'
        BY <1>5, <1>10
      <4> QED
        BY <2>2, <4>1, <4>2
    <3>3. CASE f <= n /\ n < f + Len(m)
      <4>1. k \in DOMAIN sent'
        BY <1>5, <1>10, <2>3
      <4> QED
        BY <2>4, <3>3, <4>1
    <3> QED
      BY <3>1, <3>2, <3>3
  <2>10. Total(sent[Len(sent)])' + store'[First' + 1] > MaxDataLen
    <3>1. Total(sent[Len(sent)])' = Total(m)
      BY <1>1, <1>10 DEF Total
    <3> QED
      BY <1>1, <1>7, <1>12, <3>1
  <2> QED
    BY <2>5, <2>7, <2>8, <2>9, <2>10 DEF RunInv
<1> QED
  BY <1>9, <1>13, <1>14, <1>15 DEF PackInv

(* The last message, which has an event, is sent, and the reply is made.   *)
LEMMA FinishPacks ==
  ASSUME PackInv, Finish
  PROVE  PackInv'
<1>1. /\ at = "reply" /\ queue = << >> /\ Record(message.events) /\ at' = "play"
      /\ UNCHANGED <<players_len, named, store, asked, queue, message>>
  BY DEF Finish
<1>2. message.events # << >>
  <2>1. Len(queue) = 0 /\ First < Len(store) /\ Len(store) \in Nat
    BY <1>1 DEF PackInv, PackTypeOK, FillInv
  <2>2. First = Len(store) - Len(queue) - Len(message.events)
    BY DEF First
  <2>3. message.events = << >> => Len(message.events) = 0
    OBVIOUS
  <2> QED
    BY <2>1, <2>2, <2>3
<1>3. sent' \in Seq(Seq(Nat)) /\ SentInv'
  BY <1>1, <1>2, RecordPacks
<1>4. PackTypeOK'
  BY <1>1, <1>3 DEF PackInv, PackTypeOK
<1> QED
  BY <1>1, <1>3, <1>4 DEF PackInv

LEMMA NextPacks ==
  ASSUME PackInv, NewGameFits, [Next]_vars
  PROVE  PackInv'
BY SamePacks, PlayPacks, MakePacks, PutPacks, OverflowPacks, FinishPacks DEF Next

(* All of it, of an execution in which the names leave room for what       *)
(* NEW_GAME has beside them (8 bytes that add_player does not count,       *)
(* event_new_game.cc:40).                                                  *)
THEOREM PackingInvariant == Spec /\ []NewGameFits => []PackInv
<1>1. PackInv /\ NewGameFits /\ [Next]_vars => PackInv'
  BY NextPacks
<1> QED
  BY <1>1, InitPacks, PTL DEF Spec

(* Datagrams, message and queue are consecutive runs.                      *)
LEMMA RunsLoseNothing ==
  ASSUME PackInv, at = "reply"
  PROVE  NothingLost
<1>1. PICK m, q, f, L : m = message.events /\ q = queue /\ f = First /\ L = Len(sent)
  OBVIOUS
<1>2. /\ store \in Seq(Nat) /\ m \in Seq(Nat) /\ q \in Seq(Nat)
      /\ asked \in Nat /\ sent \in Seq(Seq(Nat)) /\ L \in Nat
      /\ Len(m) \in Nat /\ Len(q) \in Nat /\ Len(store) \in Nat
  BY <1>1 DEF PackInv, PackTypeOK
<1>3. /\ asked <= f /\ f < Len(store) /\ f = Len(store) - Len(q) - Len(m)
      /\ \A i \in DOMAIN m : m[i] = f + i - 1
      /\ \A i \in DOMAIN q : q[i] = Len(store) - Len(q) + i - 1
  BY <1>1 DEF PackInv, FillInv, First
<1>4. /\ \A p \in 1 .. L :
            /\ \A i \in DOMAIN sent[p] : sent[p][i] = BeginOf(p) + i - 1
            /\ asked <= BeginOf(p) /\ EndOf(p) <= f
      /\ \A p, r \in 1 .. L : p < r => EndOf(p) <= BeginOf(r)
      /\ \A n \in asked .. f - 1 : \E p \in 1 .. L : BeginOf(p) <= n /\ n < EndOf(p)
  <2>1. DOMAIN sent = 1 .. L
    BY <1>1, <1>2
  <2> QED
    BY <1>1, <2>1 DEF PackInv, RunInv
<1>5. PICK P : P = Parts
  OBVIOUS
<1>6. PICK k \in Nat : k = L + 1
  BY <1>2
<1>7. /\ DOMAIN P = 1 .. k + 1 /\ P[k] = m /\ P[k + 1] = q
      /\ \A p \in 1 .. L : P[p] = sent[p]
  BY <1>1, <1>2, <1>5, <1>6 DEF Parts
(* Part p has the events from from[p] on, to before to[p].                 *)
<1> DEFINE from(p) == IF p = k THEN f ELSE IF p = k + 1 THEN f + Len(m)
                                               ELSE BeginOf(p)
           to(p) == IF p = k THEN f + Len(m) ELSE IF p = k + 1 THEN Len(store)
                                                        ELSE EndOf(p)
<1>8. ASSUME NEW p \in DOMAIN P
      PROVE  (p \in 1 .. L /\ p # k /\ p # k + 1) \/ p = k \/ p = k + 1
  <2>1. p \in 1 .. k + 1
    BY <1>7, <1>8
  <2>2. L \in Nat /\ k = L + 1
    BY <1>2, <1>6
  <2>3. p \in Nat /\ 1 <= p /\ p <= k + 1
    BY <2>1, <2>2
  <2>4. p = k \/ p = k + 1 \/ (p <= L /\ p # k /\ p # k + 1)
    BY <2>2, <2>3
  <2> QED
    BY <2>2, <2>3, <2>4
<1>9. ASSUME NEW p \in DOMAIN P
      PROVE  /\ from(p) \in Int /\ to(p) = from(p) + Len(P[p])
             /\ P[p] \in Seq(Nat) /\ asked <= from(p) /\ to(p) <= Len(store)
             /\ \A i \in DOMAIN P[p] : P[p][i] = from(p) + i - 1
  <2>1. CASE p \in 1 .. L /\ p # k /\ p # k + 1
    <3>1. p \in DOMAIN sent /\ P[p] = sent[p] /\ from(p) = BeginOf(p) /\ to(p) = EndOf(p)
      BY <1>1, <1>2, <1>7, <2>1
    <3>2. sent[p] \in Seq(Nat) /\ sent[p] # << >>
      BY <3>1 DEF PackInv, SentInv, Stored
    <3>3. BeginOf(p) \in Nat /\ EndOf(p) = BeginOf(p) + Len(sent[p])
      BY <3>2 DEF BeginOf, EndOf
    <3>4. EndOf(p) <= Len(store)
      <4>1. EndOf(p) <= f /\ f < Len(store) /\ f \in Int /\ EndOf(p) \in Int
        <5>1. EndOf(p) <= f
          BY <1>4, <2>1
        <5>2. f \in Int /\ f < Len(store)
          BY <1>2, <1>3
        <5>3. EndOf(p) \in Int
          BY <3>2, <3>3
        <5> QED
          BY <5>1, <5>2, <5>3
      <4> QED
        BY <1>2, <4>1
    <3> HIDE DEF from, to
    <3> QED
      BY <1>4, <2>1, <3>1, <3>2, <3>3, <3>4
  <2>2. CASE p = k
    BY <1>2, <1>3, <1>7, <2>2
  <2>3. CASE p = k + 1
    <3>1. from(p) = f + Len(m) /\ to(p) = Len(store) /\ P[p] = q
      BY <1>6, <1>7, <2>3
    <3>2. f + Len(m) = Len(store) - Len(q) /\ asked <= f + Len(m) /\ f \in Int
      BY <1>2, <1>3
    <3> HIDE DEF from, to
    <3> QED
      BY <1>2, <1>3, <3>1, <3>2
  <2> QED
    BY <1>8, <2>1, <2>2, <2>3
<1>10. ASSUME NEW p \in DOMAIN P, NEW r \in DOMAIN P, p < r
       PROVE  to(p) <= from(r)
  <2>1. CASE r = k
    BY <1>4, <1>6, <1>7, <1>8, <1>10, <2>1
  <2>2. CASE r = k + 1
    <3>1. from(r) = f + Len(m) /\ f <= f + Len(m) /\ f \in Int
      BY <1>2, <1>3, <1>6, <2>2
    <3>2. CASE p = k
      BY <1>2, <1>3, <1>6, <2>2, <3>2
    <3>3. CASE p \in 1 .. L /\ p # k /\ p # k + 1
      BY <1>4, <1>9, <3>1, <3>3
    <3> QED
      BY <1>6, <1>8, <1>10, <2>2, <3>2, <3>3
  <2>3. CASE r \in 1 .. L /\ r # k /\ r # k + 1
    <3>1. p \in 1 .. L /\ p # k /\ p # k + 1
      BY <1>2, <1>6, <1>7, <1>10, <2>3
    <3> QED
      BY <1>4, <1>10, <2>3, <3>1
  <2> QED
    BY <1>8, <2>1, <2>2, <2>3
<1> HIDE DEF from, to
<1>11. ASSUME NEW p \in DOMAIN P, NEW i \in DOMAIN P[p]
       PROVE  /\ P[p][i] \in asked .. Len(store) - 1 /\ i \in Nat
              /\ from(p) <= P[p][i] /\ P[p][i] < to(p)
  <2>1. i \in 1 .. Len(P[p]) /\ Len(P[p]) \in Nat
    BY <1>9
  <2>2. /\ from(p) \in Int /\ to(p) = from(p) + Len(P[p])
        /\ asked <= from(p) /\ to(p) <= Len(store) /\ P[p][i] = from(p) + i - 1
    BY <1>9
  <2>3. PICK a \in Int, n \in Nat : a = from(p) /\ n = Len(P[p])
    BY <2>1, <2>2
  <2>4. a \in Int /\ i \in 1 .. n /\ to(p) = a + n /\ asked <= a /\ a + n <= Len(store)
        /\ P[p][i] = a + i - 1
    BY <2>1, <2>2, <2>3
  <2>5. asked \in Nat /\ Len(store) \in Nat
    BY <1>2
  <2> QED
    BY <2>3, <2>4, <2>5
<1>12. ASSUME NEW n \in asked .. Len(store) - 1
       PROVE  \E p \in DOMAIN P : \E i \in DOMAIN P[p] : P[p][i] = n
  <2>1. \E p \in DOMAIN P : from(p) <= n /\ n < to(p)
    <3>1. \/ n \in asked .. f - 1
          \/ f <= n /\ n < f + Len(m)
          \/ f + Len(m) <= n /\ n < Len(store)
      BY <1>2, <1>3, SMTT(20)
    <3>2. CASE n \in asked .. f - 1
      <4>1. PICK p \in 1 .. L : BeginOf(p) <= n /\ n < EndOf(p)
        BY <1>4, <3>2
      <4>2. p \in DOMAIN P /\ p # k /\ p # k + 1
        BY <1>2, <1>6, <1>7
      <4> QED
        BY <4>1, <4>2 DEF from, to
    <3>3. CASE f <= n /\ n < f + Len(m)
      <4>1. k \in DOMAIN P
        BY <1>2, <1>6, <1>7
      <4> QED
        BY <3>3, <4>1 DEF from, to
    <3>4. CASE f + Len(m) <= n /\ n < Len(store)
      <4>1. k + 1 \in DOMAIN P /\ k + 1 # k
        BY <1>2, <1>6, <1>7
      <4> QED
        BY <3>4, <4>1 DEF from, to
    <3> QED
      BY <3>1, <3>2, <3>3, <3>4
  <2>2. PICK p \in DOMAIN P : from(p) <= n /\ n < to(p)
    BY <2>1
  <2>3. n - from(p) + 1 \in 1 .. Len(P[p]) /\ DOMAIN P[p] = 1 .. Len(P[p])
    BY <1>2, <1>9, <2>2, SMTT(20)
  <2>4. P[p][n - from(p) + 1] = n
    <3>1. P[p][n - from(p) + 1] = from(p) + (n - from(p) + 1) - 1
      BY <1>9, <2>3, Zenon
    <3>2. from(p) \in Int /\ n \in Int
      BY <1>2, <1>9
    <3> QED
      BY <3>1, <3>2
  <2> QED
    BY <2>3, <2>4
<1>13. asked .. Len(store) - 1 =
          UNION {{P[p][i] : i \in DOMAIN P[p]} : p \in DOMAIN P}
  BY <1>11, <1>12
<1>14. ASSUME NEW p \in DOMAIN P, NEW r \in DOMAIN P,
              NEW i \in DOMAIN P[p], NEW j \in DOMAIN P[r],
              p < r \/ (p = r /\ i < j)
       PROVE  P[p][i] < P[r][j]
  <2>1. P[p][i] \in Int /\ P[r][j] \in Int /\ i \in Nat /\ j \in Nat
    BY <1>2, <1>11
  <2>2. CASE p < r
    <3>1. to(p) <= from(r) /\ to(p) \in Int /\ from(r) \in Int
      BY <1>9, <1>10, <2>2
    <3> QED
      BY <1>11, <2>1, <3>1
  <2>3. CASE p = r /\ i < j
    BY <1>9, <2>1, <2>3
  <2> QED
    BY <1>14, <2>2, <2>3
<1> QED
  BY <1>5, <1>13, <1>14 DEF NothingLost

(* A reply loses no event and repeats none (server.cc:153-164), for any    *)
(* store, any request and any length of datagrams.                         *)
THEOREM ReplyIsComplete == Spec /\ []NewGameFits => []NothingLost
<1>1. PackInv => NothingLost
  BY RunsLoseNothing DEF NothingLost
<1> QED
  BY <1>1, PackingInvariant, PTL

(* No datagram is too long and none is empty (server_message.cc:13).       *)
THEOREM DatagramsAreShort == Spec /\ []NewGameFits => []DatagramsFit
<1>1. PackInv => DatagramsFit
  BY DEF PackInv, PackTypeOK, SentInv, DatagramsFit
<1> QED
  BY <1>1, PackingInvariant, PTL

(* A datagram is sent only when the next event does not fit                *)
(* (server.cc:158-161).                                                    *)
THEOREM DatagramsAreFull == Spec /\ []NewGameFits => []FullButLast
<1>1. PackInv => FullButLast
  BY DEF PackInv, SentInv
<1> QED
  BY <1>1, PackingInvariant, PTL
=============================================================================
