-------------------------- MODULE SendQueueProofs --------------------------
(***************************************************************************)
(* Proofs about module SendQueue: no wake-up is lost, and each client gets *)
(* all that is addressed to it, in order.                                  *)
(***************************************************************************)
EXTENDS SendQueue, WellFoundedInduction, TLAPS

Message == [id : Nat, addresses : Seq(Clients)]

(* Every variable has its type.                                            *)
QueueTypeOK ==
    /\ messages \in Seq(Message) /\ added \in Seq(Message)
    /\ current_message \in Nat /\ current_addresses \in Seq(Clients)
    /\ events \in BOOLEAN /\ mask \in BOOLEAN
    /\ at \in {"run", "wait", "can_send", "send"}
    /\ sent \in [Clients -> Seq(Nat)]

(* send_message has an address to send to.                                 *)
SendInv == at = "send" => current_addresses # << >>

(* The buffer is what was added last; an id is a place in added.           *)
Popped == Len(added) - Len(messages)

BufferInv ==
    /\ Len(messages) <= Len(added)
    /\ \A i \in 1 .. Len(messages) : messages[i] = added[Popped + i]
    /\ \A n \in 1 .. Len(added) :
          added[n].id = n /\ IsInjective(added[n].addresses)

(* The message in hand is the last popped one that has any address, and    *)
(* the addresses left are some of its own, each once.                      *)
HandInv ==
    current_addresses # << >> =>
        /\ current_message \in 1 .. Popped
        /\ IsInjective(current_addresses)
        /\ \A c \in Clients : InHand(c) => IsFor(c, added[current_message])
        /\ \A n \in current_message + 1 .. Popped : added[n].addresses = << >>

(* A client was sent, once and in order, the popped messages that are for  *)
(* it, but for the one in hand.                                            *)
WasSent(c, n) == \E i \in DOMAIN sent[c] : sent[c][i] = n
IsOut(c, n) ==
    /\ n \in 1 .. Popped /\ IsFor(c, added[n])
    /\ ~(n = current_message /\ InHand(c))

InOrder(c) == \A i, j \in DOMAIN sent[c] : i < j => sent[c][i] < sent[c][j]

SentInv ==
    \A c \in Clients : InOrder(c) /\ \A n \in Nat : WasSent(c, n) <=> IsOut(c, n)

-----------------------------------------------------------------------------
(* A set of natural numbers that is not empty has a least member.          *)
LEMMA LeastOf ==
  ASSUME NEW T \in SUBSET Nat, T # {}
  PROVE  \E m \in T : \A k \in T : m <= k
<1>1. IsWellFoundedOn(OpToRel(<, Nat), Nat)
  BY NatLessThanWellFounded
<1>2. \A x, y \in Nat : <<y, x>> \in OpToRel(<, Nat) <=> y < x
  BY DEF OpToRel
<1>3. PICK Q : IsWellFoundedOn(Q, Nat) /\ \A x, y \in Nat : <<y, x>> \in Q <=> y < x
  BY <1>1, <1>2
<1>4. PICK m \in T : \A y \in T : ~ (<<y, m>> \in Q)
  BY <1>3, WFMin
<1>5. \A k \in T : ~(k < m)
  BY <1>3, <1>4
<1>6. QED  BY <1>4, <1>5

(* What can_send_message pops, the message in hand being done: all up to   *)
(* the first that has an address, or everything.                           *)
LEMMA Pops ==
  ASSUME QueueTypeOK, current_addresses = << >>, messages # << >>
  PROVE  /\ PopWhenDone(messages) \in 1 .. Len(messages)
         /\ \A j \in 1 .. PopWhenDone(messages) - 1 : messages[j].addresses = << >>
         /\ \/ PopWhenDone(messages) = Len(messages)
            \/ messages[PopWhenDone(messages)].addresses # << >>
<1> DEFINE done(k) == k = Len(messages) \/ messages[k].addresses # << >>
           T == {k \in 1 .. Len(messages) : done(k)}
           First(k) == done(k) /\ \A j \in 1 .. k - 1 : ~done(j)
<1>1. Len(messages) \in Nat /\ Len(messages) >= 1
  BY DEF QueueTypeOK
<1>2. T \in SUBSET Nat /\ T # {}
  BY <1>1
<1>3. PICK m \in T : \A k \in T : m <= k
  <2> HIDE DEF T
  <2>1. QED  BY <1>2, LeastOf
<1>4. ASSUME NEW j \in 1 .. m - 1 PROVE ~done(j)
  <2>1. j \in 1 .. Len(messages) /\ ~(m <= j)
    BY <1>1
  <2>2. j \notin T
    BY <1>3, <2>1
  <2>3. QED  BY <2>1, <2>2
<1>5. \E k \in 1 .. Len(messages) : First(k)
  BY <1>4
<1>6. PopWhenDone(messages) = CHOOSE k \in 1 .. Len(messages) : First(k)
  BY DEF PopWhenDone
<1>7. PICK k : k = PopWhenDone(messages)
  OBVIOUS
<1>8. k \in 1 .. Len(messages) /\ First(k)
  <2> HIDE DEF First
  <2>1. QED  BY <1>5, <1>6, <1>7, Zenon
<1>9. \A j \in 1 .. k - 1 : messages[j].addresses = << >>
  BY <1>1, <1>8
<1>10. QED  BY <1>7, <1>8, <1>9

(* The recipients of a message are clients, each once.                     *)
LEMMA RecipientsAre ==
  ASSUME NEW to \in Recipients
  PROVE  to \in Seq(Clients) /\ IsInjective(to)
BY DEF Recipients, BoundedSeq, SeqOf

-----------------------------------------------------------------------------
(* can_send_message, by how many messages it pops.                         *)
Pop(k) ==
    /\ messages' = SubSeq(messages, k + 1, Len(messages))
    /\ k = 0 => /\ UNCHANGED <<current_message, current_addresses>>
                /\ current_addresses = << >> => messages = << >>
    /\ k > 0 => /\ current_addresses = << >>
                /\ current_message' = messages[k].id
                /\ current_addresses' = messages[k].addresses
                /\ \A j \in 1 .. k - 1 : messages[j].addresses = << >>
                /\ k = Len(messages) \/ messages[k].addresses # << >>

LEMMA CanSendPops ==
  ASSUME QueueTypeOK, CanSendMessage
  PROVE  \E k \in 0 .. Len(messages) : Pop(k)
<1>1. PICK k : k = PopWhenDone(messages)
  OBVIOUS
<1>2. /\ messages' = SubSeq(messages, k + 1, Len(messages))
      /\ current_message' = CurrentOf(k)
      /\ current_addresses' = IF k = 0 THEN current_addresses
                              ELSE messages[k].addresses
  BY <1>1, Zenon DEF CanSendMessage
<1>3. Len(messages) \in Nat
  BY DEF QueueTypeOK
<1>4. CASE current_addresses # << >> \/ messages = << >>
  <2>1. k = 0
    BY <1>1, <1>4 DEF PopWhenDone
  <2>2. QED  BY <1>2, <1>3, <1>4, <2>1 DEF Pop, CurrentOf
<1>5. CASE current_addresses = << >> /\ messages # << >>
  <2>1. /\ k \in 1 .. Len(messages)
        /\ \A j \in 1 .. k - 1 : messages[j].addresses = << >>
        /\ k = Len(messages) \/ messages[k].addresses # << >>
    BY <1>1, <1>5, Pops
  <2>2. k # 0 /\ k \in 0 .. Len(messages)
    BY <1>3, <2>1
  <2>3. Pop(k)
    BY <1>2, <1>3, <1>5, <2>1, <2>2 DEF Pop, CurrentOf
  <2>4. QED  BY <2>2, <2>3
<1>6. QED  BY <1>4, <1>5

-----------------------------------------------------------------------------
(* The type of every variable.                                             *)
LEMMA QueueTypeInit == Init => QueueTypeOK
<1>1. << >> \in Seq(Message) /\ << >> \in Seq(Clients) /\ << >> \in Seq(Nat)
  OBVIOUS
<1>2. [c \in Clients |-> << >>] \in [Clients -> Seq(Nat)]
  BY <1>1
<1>3. 0 \in Nat /\ TRUE \in BOOLEAN /\ FALSE \in BOOLEAN
  OBVIOUS
<1>4. QED  BY <1>1, <1>2, <1>3, Zenon DEF Init, QueueTypeOK

LEMMA AddedType ==
  ASSUME QueueTypeOK, NEW to \in Recipients, AddMessage(to)
  PROVE  \E m \in Message :
            /\ m.id = Len(added) + 1 /\ m.addresses = to
            /\ messages' = Append(messages, m) /\ added' = Append(added, m)
<1>1. PICK m : m = [id |-> Len(added) + 1, addresses |-> to]
  OBVIOUS
<1>2. m \in Message
  BY <1>1, RecipientsAre DEF QueueTypeOK, Message
<1>3. QED  BY <1>1, <1>2 DEF AddMessage

LEMMA QueueTypeStep ==
  ASSUME QueueTypeOK, SendInv, [Next]_vars
  PROVE  QueueTypeOK'
<1>1. ASSUME NEW to \in Recipients, AddMessage(to)
      PROVE  QueueTypeOK'
  <2>1. messages' \in Seq(Message) /\ added' \in Seq(Message)
    <3>1. PICK m \in Message : messages' = Append(messages, m)
                                /\ added' = Append(added, m)
      BY <1>1, AddedType
    <3>2. QED  BY <3>1 DEF QueueTypeOK
  <2>2. /\ events' = TRUE
        /\ UNCHANGED <<current_message, current_addresses, at, mask, sent>>
    BY <1>1 DEF AddMessage, Wanted
  <2>3. QED  BY <2>1, <2>2 DEF QueueTypeOK
<1>2. CASE Wait \/ WakeForOther \/ WakeWritable \/ WouldBlock
  BY <1>2 DEF Wait, WakeForOther, WakeWritable, WouldBlock, queueVars, QueueTypeOK
<1>3. CASE CanSendMessage
  <2>1. PICK k \in 0 .. Len(messages) : Pop(k)
    BY <1>3, CanSendPops
  <2>2. messages' \in Seq(Message)
    BY <2>1 DEF Pop, QueueTypeOK
  <2>3. current_message' \in Nat /\ current_addresses' \in Seq(Clients)
    <3>1. CASE k = 0
      BY <2>1, <3>1 DEF Pop, QueueTypeOK
    <3>2. CASE k > 0
      <4>1. messages[k] \in Message
        BY <2>1, <3>2 DEF QueueTypeOK
      <4>2. QED  BY <2>1, <3>2, <4>1 DEF Pop, Message
    <3>3. QED  BY <2>1, <3>1, <3>2
  <2>4. /\ \/ events' = FALSE /\ at' = "run"
           \/ events' = events /\ at' = "send"
        /\ mask' = mask /\ added' = added /\ sent' = sent
    BY <1>3 DEF CanSendMessage
  <2>5. QED  BY <2>2, <2>3, <2>4 DEF QueueTypeOK
<1>4. CASE SendMessage
  <2>1. current_addresses # << >> /\ at' = "run"
    BY <1>4 DEF SendMessage, SendInv
  <2>2. Head(current_addresses) \in Clients /\ Tail(current_addresses) \in Seq(Clients)
    BY <2>1 DEF QueueTypeOK
  <2>3. sent' \in [Clients -> Seq(Nat)]
    BY <1>4, <2>2 DEF SendMessage, QueueTypeOK
  <2>4. /\ current_addresses' \in Seq(Clients)
        /\ UNCHANGED <<messages, current_message, events, mask, added>>
    BY <1>4, <2>2 DEF SendMessage
  <2>5. QED  BY <2>1, <2>3, <2>4 DEF QueueTypeOK
<1>5. CASE UNCHANGED vars
  BY <1>5 DEF vars, queueVars, QueueTypeOK
<1>6. QED  BY <1>1, <1>2, <1>3, <1>4, <1>5 DEF Next, Network

LEMMA SendStep ==
  ASSUME QueueTypeOK, SendInv, [Next]_vars
  PROVE  SendInv'
<1>1. CASE \E to \in Recipients : AddMessage(to)
  BY <1>1 DEF AddMessage, SendInv
<1>2. CASE Network
  BY <1>2 DEF Network, Wait, WakeForOther, WakeWritable, WouldBlock,
              CanSendMessage, SendMessage, queueVars, SendInv
<1>3. CASE UNCHANGED vars
  BY <1>3 DEF vars, queueVars, SendInv
<1>4. QED  BY <1>1, <1>2, <1>3 DEF Next

-----------------------------------------------------------------------------
(* Waking up.                                                              *)
LEMMA WakeupStep ==
  ASSUME QueueTypeOK, SendInv, NoLostWakeup, [Next]_vars
  PROVE  NoLostWakeup'
<1>1. CASE \E to \in Recipients : AddMessage(to)
  BY <1>1, Zenon DEF AddMessage, Wanted, NoLostWakeup
<1>2. CASE Wait \/ WakeForOther \/ WakeWritable \/ WouldBlock
  <2>1. UNCHANGED <<messages, current_addresses, events>>
    BY <1>2 DEF Wait, WakeForOther, WakeWritable, WouldBlock, queueVars
  <2>2. messages' = messages /\ current_addresses' = current_addresses /\ events' = events
    BY <2>1
  <2>3. QED  BY <2>2, Zenon DEF NoLostWakeup
<1>3. CASE CanSendMessage
  <2>1. PICK k \in 0 .. Len(messages) : Pop(k)
    BY <1>3, CanSendPops
  <2>2. CASE current_addresses' = << >>
    <3>1. messages' = << >>
      <4>1. CASE k = 0
        BY <2>1, <2>2, <4>1 DEF Pop, QueueTypeOK
      <4>2. CASE k > 0
        <5>1. k = Len(messages) /\ Len(messages) \in Nat
          BY <2>1, <2>2, <4>2 DEF Pop, QueueTypeOK
        <5>2. QED  BY <2>1, <5>1 DEF Pop, QueueTypeOK
      <4>3. QED  BY <2>1, <4>1, <4>2
    <3>2. QED  BY <2>2, <3>1 DEF NoLostWakeup
  <2>3. CASE current_addresses' # << >>
    <3>1. events' = events
      BY <1>3, <2>3, Zenon DEF CanSendMessage
    <3>2. messages # << >> \/ current_addresses # << >>
      <4>1. CASE k = 0
        BY <2>1, <2>3, <4>1 DEF Pop
      <4>2. CASE k > 0
        BY <2>1, <4>2 DEF QueueTypeOK
      <4>3. QED  BY <2>1, <4>1, <4>2
    <3>3. QED  BY <3>1, <3>2, Zenon DEF NoLostWakeup
  <2>4. QED  BY <2>2, <2>3
<1>4. CASE SendMessage
  <2>1. current_addresses # << >> /\ events' = events
    BY <1>4, Zenon DEF SendMessage, SendInv
  <2>2. QED  BY <2>1, Zenon DEF NoLostWakeup
<1>5. CASE UNCHANGED vars
  <2>1. messages' = messages /\ current_addresses' = current_addresses /\ events' = events
    BY <1>5 DEF vars, queueVars
  <2>2. QED  BY <2>1, Zenon DEF NoLostWakeup
<1>6. QED  BY <1>1, <1>2, <1>3, <1>4, <1>5 DEF Next, Network

(* While anything waits to be sent, the next poll() asks for POLLOUT, in   *)
(* whatever order the calls of add_message come between those of the       *)
(* network thread.                                                         *)
THEOREM NoWakeupIsLost == Spec => []NoLostWakeup
<1>1. Init => QueueTypeOK /\ SendInv /\ NoLostWakeup
  <2>1. Init => SendInv /\ NoLostWakeup
    BY DEF Init, SendInv, NoLostWakeup
  <2>2. QED  BY <2>1, QueueTypeInit
<1>2. QueueTypeOK /\ SendInv /\ NoLostWakeup /\ [Next]_vars
         => QueueTypeOK' /\ SendInv' /\ NoLostWakeup'
  BY QueueTypeStep, SendStep, WakeupStep
<1>3. QED  BY <1>1, <1>2, PTL DEF Spec

-----------------------------------------------------------------------------
(* Order and completeness.                                                 *)

(* add_message leaves what is popped and what is in hand alone.            *)
LEMMA AddedAtTheEnd ==
  ASSUME QueueTypeOK, BufferInv, NEW to \in Recipients, AddMessage(to)
  PROVE  /\ Len(added') = Len(added) + 1 /\ Len(messages') = Len(messages) + 1
         /\ Popped' = Popped
         /\ \A n \in 1 .. Len(added) : added'[n] = added[n]
         /\ added'[Len(added) + 1].id = Len(added) + 1
         /\ IsInjective(added'[Len(added) + 1].addresses)
         /\ \A i \in 1 .. Len(messages) : messages'[i] = messages[i]
         /\ messages'[Len(messages) + 1] = added'[Len(added) + 1]
         /\ UNCHANGED <<current_message, current_addresses, at, sent>>
<1>1. PICK m \in Message :
         /\ m.id = Len(added) + 1 /\ m.addresses = to
         /\ messages' = Append(messages, m) /\ added' = Append(added, m)
  BY AddedType
<1>2. messages \in Seq(Message) /\ added \in Seq(Message)
  BY DEF QueueTypeOK
<1>3. /\ Len(added') = Len(added) + 1 /\ Len(messages') = Len(messages) + 1
      /\ \A n \in 1 .. Len(added) : added'[n] = added[n]
      /\ \A i \in 1 .. Len(messages) : messages'[i] = messages[i]
      /\ added'[Len(added) + 1] = m /\ messages'[Len(messages) + 1] = m
  BY <1>1, <1>2
<1>4. Popped' = Popped
  BY <1>2, <1>3 DEF Popped
<1>5. IsInjective(m.addresses)
  BY <1>1, RecipientsAre
<1>6. UNCHANGED <<current_message, current_addresses, at, sent>>
  BY DEF AddMessage
<1>7. QED  BY <1>1, <1>3, <1>4, <1>5, <1>6

(* What can_send_message pops is out of the buffer, and the last of it is  *)
(* in hand.                                                                *)
LEMMA PoppedAre ==
  ASSUME QueueTypeOK, BufferInv, CanSendMessage, NEW k \in 0 .. Len(messages), Pop(k)
  PROVE  /\ Popped \in Nat /\ k \in Nat
         /\ Popped' = Popped + k /\ Popped + k <= Len(added)
         /\ Len(messages') = Len(messages) - k
         /\ \A i \in 1 .. Len(messages') : messages'[i] = messages[k + i]
         /\ \A i \in 1 .. k : messages[i] = added[Popped + i]
         /\ added' = added /\ sent' = sent
         /\ k > 0 => /\ current_message' = Popped + k
                     /\ current_addresses' = added[Popped + k].addresses
                     /\ IsInjective(current_addresses')
<1>1. /\ messages \in Seq(Message) /\ added \in Seq(Message)
      /\ Len(messages) \in Nat /\ Len(added) \in Nat
      /\ Len(messages) <= Len(added)
  BY DEF QueueTypeOK, BufferInv
<1>2. /\ Len(messages') = Len(messages) - k
      /\ \A i \in 1 .. Len(messages') : messages'[i] = messages[k + i]
  BY <1>1 DEF Pop
<1>3. added' = added /\ sent' = sent
  BY DEF CanSendMessage
<1>4. /\ Popped \in Nat /\ k \in Nat
      /\ Popped' = Popped + k /\ Popped + k <= Len(added)
  BY <1>1, <1>2, <1>3 DEF Popped
<1>5. \A i \in 1 .. k : messages[i] = added[Popped + i]
  BY <1>1 DEF BufferInv
<1>6. ASSUME k > 0
      PROVE  /\ current_message' = Popped + k
             /\ current_addresses' = added[Popped + k].addresses
             /\ IsInjective(current_addresses')
  <2>1. messages[k] = added[Popped + k]
    BY <1>4, <1>5, <1>6
  <2>2. /\ current_message' = added[Popped + k].id
        /\ current_addresses' = added[Popped + k].addresses
    BY <1>6, <2>1 DEF Pop
  <2>3. Popped + k \in 1 .. Len(added)
    BY <1>1, <1>4, <1>6
  <2>4. added[Popped + k].id = Popped + k /\ IsInjective(added[Popped + k].addresses)
    BY <2>3 DEF BufferInv
  <2>5. QED  BY <2>2, <2>4
<1>7. QED  BY <1>2, <1>3, <1>4, <1>5, <1>6

(* send_message takes the first of the addresses left.                     *)
LEMMA SentIs ==
  ASSUME QueueTypeOK, SendInv, HandInv, SendMessage
  PROVE  \E h \in Clients :
            /\ InHand(h) /\ ~InHand(h)'
            /\ \A c \in Clients \ {h} :
                  (InHand(c) <=> InHand(c)') /\ sent'[c] = sent[c]
            /\ sent'[h] = Append(sent[h], current_message)
            /\ current_addresses # << >>
            /\ IsInjective(current_addresses')
            /\ added' = added /\ messages' = messages
            /\ current_message' = current_message
<1>1. /\ current_addresses # << >> /\ current_addresses \in Seq(Clients)
      /\ current_addresses' = Tail(current_addresses)
      /\ added' = added /\ messages' = messages
      /\ current_message' = current_message
  BY DEF SendMessage, SendInv, QueueTypeOK
<1>2. PICK h : h = Head(current_addresses)
  OBVIOUS
<1>3. h \in Clients /\ h = current_addresses[1]
  BY <1>1, <1>2
<1>4. PICK n \in Nat : n = Len(current_addresses)
  BY <1>1
<1>5. /\ n >= 1 /\ DOMAIN current_addresses = 1 .. n
      /\ Len(current_addresses') = n - 1 /\ DOMAIN current_addresses' = 1 .. n - 1
      /\ \A i \in 1 .. n - 1 : current_addresses'[i] = current_addresses[i + 1]
  BY <1>1, <1>4
<1>6. \A i, j \in 1 .. n : current_addresses[i] = current_addresses[j] => i = j
  BY <1>1, <1>5 DEF HandInv, IsInjective
<1>7. InHand(h)
  BY <1>3, <1>4, <1>5 DEF InHand, Contains
<1>8. ~InHand(h)'
  <2>1. \A i \in 1 .. n - 1 : current_addresses'[i] # h
    BY <1>3, <1>5, <1>6
  <2>2. QED  BY <1>5, <2>1 DEF InHand, Contains
<1>9. ASSUME NEW c \in Clients \ {h} PROVE InHand(c) <=> InHand(c)'
  <2>1. ASSUME NEW i \in 1 .. n, current_addresses[i] = c
        PROVE  i - 1 \in 1 .. n - 1 /\ current_addresses'[i - 1] = c
    BY <1>3, <1>5, <2>1
  <2>2. ASSUME NEW i \in 1 .. n - 1, current_addresses'[i] = c
        PROVE  i + 1 \in 1 .. n /\ current_addresses[i + 1] = c
    BY <1>5, <2>2
  <2>3. InHand(c) => InHand(c)'
    BY <1>4, <1>5, <2>1 DEF InHand, Contains
  <2>4. InHand(c)' => InHand(c)
    BY <1>4, <1>5, <2>2 DEF InHand, Contains
  <2>5. QED  BY <2>3, <2>4
<1>10. IsInjective(current_addresses')
  BY <1>5, <1>6 DEF IsInjective
<1>11. /\ sent'[h] = Append(sent[h], current_message)
       /\ \A c \in Clients \ {h} : sent'[c] = sent[c]
  BY <1>2, <1>3 DEF SendMessage, QueueTypeOK
<1>12. QED  BY <1>1, <1>3, <1>7, <1>8, <1>9, <1>10, <1>11

-----------------------------------------------------------------------------
(* Steps that leave queue and history alone.                               *)
LEMMA QueueLeft ==
  ASSUME [Next]_vars, ~ \E to \in Recipients : AddMessage(to),
         ~CanSendMessage, ~SendMessage
  PROVE  UNCHANGED <<messages, current_message, current_addresses, added, sent>>
<1>1. CASE Wait \/ WakeForOther \/ WakeWritable \/ WouldBlock
  BY <1>1 DEF Wait, WakeForOther, WakeWritable, WouldBlock, queueVars
<1>2. CASE UNCHANGED vars
  BY <1>2 DEF vars, queueVars
<1>3. QED  BY <1>1, <1>2 DEF Next, Network

LEMMA BufferStep ==
  ASSUME QueueTypeOK, SendInv, BufferInv, HandInv, [Next]_vars
  PROVE  BufferInv'
<1>1. /\ Len(messages) \in Nat /\ Len(added) \in Nat
      /\ Len(messages) <= Len(added) /\ Popped \in Nat
  BY DEF QueueTypeOK, BufferInv, Popped
<1>2. ASSUME NEW to \in Recipients, AddMessage(to)
      PROVE  BufferInv'
  <2>1. /\ Len(added') = Len(added) + 1 /\ Len(messages') = Len(messages) + 1
        /\ Popped' = Popped
        /\ \A n \in 1 .. Len(added) : added'[n] = added[n]
        /\ added'[Len(added) + 1].id = Len(added) + 1
        /\ IsInjective(added'[Len(added) + 1].addresses)
        /\ \A i \in 1 .. Len(messages) : messages'[i] = messages[i]
        /\ messages'[Len(messages) + 1] = added'[Len(added) + 1]
    BY <1>2, AddedAtTheEnd
  <2>2. Len(messages') <= Len(added')
    BY <1>1, <2>1
  <2>3. ASSUME NEW i \in 1 .. Len(messages') PROVE messages'[i] = added'[Popped' + i]
    <3>1. CASE i = Len(messages) + 1
      BY <1>1, <2>1, <3>1 DEF Popped
    <3>2. CASE i \in 1 .. Len(messages)
      <4>1. Popped + i \in 1 .. Len(added)
        BY <1>1, <3>2 DEF Popped
      <4>2. messages[i] = added[Popped + i]
        BY <3>2 DEF BufferInv
      <4>3. QED  BY <2>1, <3>2, <4>1, <4>2
    <3>3. QED  BY <1>1, <2>1, <3>1, <3>2
  <2>4. ASSUME NEW n \in 1 .. Len(added')
        PROVE  added'[n].id = n /\ IsInjective(added'[n].addresses)
    <3>1. CASE n = Len(added) + 1
      BY <2>1, <3>1
    <3>2. CASE n \in 1 .. Len(added)
      BY <2>1, <3>2 DEF BufferInv
    <3>3. QED  BY <1>1, <2>1, <3>1, <3>2
  <2>5. QED  BY <2>2, <2>3, <2>4 DEF BufferInv
<1>3. CASE CanSendMessage
  <2>1. PICK k \in 0 .. Len(messages) : Pop(k)
    BY <1>3, CanSendPops
  <2>2. /\ k \in Nat /\ Popped' = Popped + k /\ Len(messages') = Len(messages) - k
        /\ \A i \in 1 .. Len(messages') : messages'[i] = messages[k + i]
        /\ added' = added
    BY <1>3, <2>1, PoppedAre
  <2>3. ASSUME NEW i \in 1 .. Len(messages') PROVE messages'[i] = added'[Popped' + i]
    <3>1. k + i \in 1 .. Len(messages) /\ Popped' + i = Popped + (k + i)
      BY <1>1, <2>1, <2>2
    <3>2. messages[k + i] = added[Popped + (k + i)]
      BY <3>1 DEF BufferInv
    <3>3. QED  BY <2>2, <3>1, <3>2
  <2>4. Len(messages') <= Len(added')
    BY <1>1, <2>1, <2>2
  <2>5. \A n \in 1 .. Len(added') : added'[n].id = n /\ IsInjective(added'[n].addresses)
    BY <2>2 DEF BufferInv
  <2>6. QED  BY <2>3, <2>4, <2>5 DEF BufferInv
<1>4. CASE SendMessage
  <2>1. added' = added /\ messages' = messages
    BY <1>4 DEF SendMessage
  <2>2. QED  BY <2>1 DEF BufferInv, Popped
<1>5. CASE UNCHANGED <<messages, added>>
  BY <1>5 DEF BufferInv, Popped
<1>6. QED  BY <1>2, <1>3, <1>4, <1>5, QueueLeft

LEMMA HandStep ==
  ASSUME QueueTypeOK, SendInv, BufferInv, HandInv, [Next]_vars
  PROVE  HandInv'
<1>1. /\ Len(messages) \in Nat /\ Len(added) \in Nat
      /\ Len(messages) <= Len(added) /\ Popped \in Nat /\ Popped <= Len(added)
  BY DEF QueueTypeOK, BufferInv, Popped
<1>2. ASSUME NEW to \in Recipients, AddMessage(to), current_addresses # << >>
      PROVE  HandInv'
  <2>1. /\ Popped' = Popped
        /\ \A n \in 1 .. Len(added) : added'[n] = added[n]
        /\ current_message' = current_message
        /\ current_addresses' = current_addresses
    BY <1>2, AddedAtTheEnd
  <2>2. /\ current_message \in 1 .. Popped /\ current_message \in 1 .. Len(added)
        /\ IsInjective(current_addresses)
        /\ \A c \in Clients : InHand(c) => IsFor(c, added[current_message])
        /\ \A n \in current_message + 1 .. Popped : added[n].addresses = << >>
    BY <1>1, <1>2 DEF HandInv
  <2>3. \A n \in current_message + 1 .. Popped : n \in 1 .. Len(added)
    BY <1>1, <2>2
  <2>4. \A c \in Clients : InHand(c)' => IsFor(c, added'[current_message'])
    BY <2>1, <2>2 DEF InHand
  <2>5. QED  BY <2>1, <2>2, <2>3, <2>4 DEF HandInv
<1>3. CASE CanSendMessage
  <2>1. PICK k \in 0 .. Len(messages) : Pop(k)
    BY <1>3, CanSendPops
  <2>2. /\ k \in Nat /\ Popped' = Popped + k /\ Popped + k <= Len(added)
        /\ \A i \in 1 .. k : messages[i] = added[Popped + i]
        /\ added' = added
        /\ k > 0 => /\ current_message' = Popped + k
                    /\ current_addresses' = added[Popped + k].addresses
                    /\ IsInjective(current_addresses')
    BY <1>3, <2>1, PoppedAre
  <2>3. CASE k = 0
    <3>1. /\ Popped' = Popped /\ added' = added
          /\ current_message' = current_message
          /\ current_addresses' = current_addresses
      BY <1>1, <2>1, <2>2, <2>3 DEF Pop
    <3>2. QED  BY <3>1 DEF HandInv, InHand
  <2>4. CASE k > 0
    <3>1. current_message' \in 1 .. Popped'
      BY <1>1, <2>2, <2>4
    <3>2. \A c \in Clients : InHand(c)' => IsFor(c, added'[current_message'])
      BY <2>2, <2>4 DEF InHand, IsFor
    <3>3. \A n \in current_message' + 1 .. Popped' : added'[n].addresses = << >>
      BY <1>1, <2>2, <2>4
    <3>4. QED  BY <2>2, <2>4, <3>1, <3>2, <3>3 DEF HandInv
  <2>5. QED  BY <2>2, <2>3, <2>4
<1>4. CASE SendMessage
  <2>1. /\ current_addresses # << >> /\ IsInjective(current_addresses')
        /\ \A c \in Clients : InHand(c)' => InHand(c)
        /\ added' = added /\ messages' = messages
        /\ current_message' = current_message
    BY <1>4, SentIs
  <2>2. Popped' = Popped
    BY <2>1 DEF Popped
  <2>3. QED  BY <2>1, <2>2 DEF HandInv
<1>5. CASE current_addresses' = << >>
  BY <1>5 DEF HandInv
<1>6. CASE UNCHANGED <<messages, current_message, current_addresses, added>>
  BY <1>6 DEF HandInv, Popped, InHand
<1>7. \A to \in Recipients : AddMessage(to) => current_addresses' = current_addresses
  BY DEF AddMessage
<1>8. QED  BY <1>2, <1>3, <1>4, <1>5, <1>6, <1>7, QueueLeft

LEMMA SentStep ==
  ASSUME QueueTypeOK, SendInv, BufferInv, HandInv, SentInv, [Next]_vars
  PROVE  SentInv'
<1>1. /\ Len(messages) \in Nat /\ Len(added) \in Nat
      /\ Len(messages) <= Len(added) /\ Popped \in Nat /\ Popped <= Len(added)
  BY DEF QueueTypeOK, BufferInv, Popped
<1>2. ASSUME UNCHANGED sent,
             \A c \in Clients : \A n \in Nat : IsOut(c, n) <=> IsOut(c, n)'
      PROVE  SentInv'
  BY <1>2 DEF SentInv, InOrder, WasSent
<1>3. ASSUME NEW to \in Recipients, AddMessage(to)
      PROVE  SentInv'
  <2>1. /\ Popped' = Popped /\ sent' = sent
        /\ \A n \in 1 .. Len(added) : added'[n] = added[n]
        /\ current_message' = current_message
        /\ current_addresses' = current_addresses
    BY <1>3, AddedAtTheEnd
  <2>2. \A n \in 1 .. Popped : n \in 1 .. Len(added)
    BY <1>1
  <2>3. ASSUME NEW c \in Clients, NEW n \in Nat
        PROVE  IsOut(c, n) <=> IsOut(c, n)'
    BY <2>1, <2>2 DEF IsOut, InHand
  <2>4. QED  BY <1>2, <2>1, <2>3
<1>4. CASE CanSendMessage
  <2>1. PICK k \in 0 .. Len(messages) : Pop(k)
    BY <1>4, CanSendPops
  <2>2. /\ k \in Nat /\ Popped' = Popped + k /\ Popped + k <= Len(added)
        /\ \A i \in 1 .. k : messages[i] = added[Popped + i]
        /\ added' = added /\ sent' = sent
        /\ k > 0 => /\ current_message' = Popped + k
                    /\ current_addresses' = added[Popped + k].addresses
    BY <1>4, <2>1, PoppedAre
  <2>3. ASSUME NEW c \in Clients, NEW n \in Nat
        PROVE  IsOut(c, n) <=> IsOut(c, n)'
    <3>1. CASE k = 0
      <4>1. /\ Popped' = Popped /\ added' = added
            /\ current_message' = current_message
            /\ current_addresses' = current_addresses
        BY <1>1, <2>1, <2>2, <3>1 DEF Pop
      <4>2. QED  BY <4>1 DEF IsOut, InHand
    <3>2. CASE k > 0
      <4>1. current_addresses = << >>
        BY <2>1, <3>2 DEF Pop
      <4>2. ~InHand(c)
        BY <4>1 DEF InHand, Contains
      <4>3. IsOut(c, n) <=> n \in 1 .. Popped /\ IsFor(c, added[n])
        BY <4>2 DEF IsOut
      <4>4. InHand(c)' <=> IsFor(c, added[Popped + k])
        BY <2>2, <3>2 DEF InHand, IsFor
      <4>5. \A j \in Popped + 1 .. Popped + k - 1 : ~IsFor(c, added[j])
        <5>1. ASSUME NEW j \in Popped + 1 .. Popped + k - 1
              PROVE  added[j].addresses = << >>
          <6>1. j - Popped \in 1 .. k - 1 /\ j - Popped \in 1 .. k
                /\ Popped + (j - Popped) = j
            BY <1>1, <2>2
          <6>2. messages[j - Popped].addresses = << >>
            BY <2>1, <3>2, <6>1 DEF Pop
          <6>3. QED  BY <2>2, <6>1, <6>2
        <5>2. QED  BY <5>1 DEF IsFor, Contains
      <4>6. IsOut(c, n)' <=> /\ n \in 1 .. Popped + k /\ IsFor(c, added[n])
                             /\ ~(n = Popped + k /\ IsFor(c, added[Popped + k]))
        BY <2>2, <3>2, <4>4 DEF IsOut
      <4>7. CASE n \in 1 .. Popped
        <5>1. n \in 1 .. Popped + k /\ n # Popped + k
          BY <1>1, <2>2, <3>2, <4>7
        <5>2. QED  BY <4>3, <4>6, <4>7, <5>1, Zenon
      <4>8. CASE n \notin 1 .. Popped
        <5>1. n \in 1 .. Popped + k =>
                 n = Popped + k \/ n \in Popped + 1 .. Popped + k - 1
          BY <1>1, <2>2, <3>2, <4>8
        <5>2. QED  BY <4>3, <4>5, <4>6, <4>8, <5>1, Zenon
      <4>9. QED  BY <4>7, <4>8
    <3>3. QED  BY <2>2, <3>1, <3>2
  <2>4. QED  BY <1>2, <2>2, <2>3
<1>5. CASE SendMessage
  <2>1. PICK h \in Clients :
           /\ InHand(h) /\ ~InHand(h)'
           /\ \A c \in Clients \ {h} :
                 (InHand(c) <=> InHand(c)') /\ sent'[c] = sent[c]
           /\ sent'[h] = Append(sent[h], current_message)
           /\ current_addresses # << >>
           /\ added' = added /\ messages' = messages
           /\ current_message' = current_message
    BY <1>5, SentIs
  <2>2. Popped' = Popped
    BY <2>1 DEF Popped
  <2>3. /\ current_message \in 1 .. Popped /\ IsFor(h, added[current_message])
        /\ \A n \in current_message + 1 .. Popped : added[n].addresses = << >>
    BY <2>1 DEF HandInv
  <2>4. ASSUME NEW c \in Clients, c # h
        PROVE  InOrder(c)' /\ \A n \in Nat : WasSent(c, n)' <=> IsOut(c, n)'
    <3>1. sent'[c] = sent[c] /\ (InHand(c) <=> InHand(c)')
      BY <2>1, <2>4
    <3>2. InOrder(c)' /\ \A n \in Nat : WasSent(c, n)' <=> WasSent(c, n)
      BY <3>1 DEF SentInv, InOrder, WasSent
    <3>3. \A n \in Nat : IsOut(c, n)' <=> IsOut(c, n)
      BY <2>1, <2>2, <3>1 DEF IsOut
    <3>4. QED  BY <3>2, <3>3 DEF SentInv
  <2>5. InOrder(h)' /\ \A n \in Nat : WasSent(h, n)' <=> IsOut(h, n)'
    <3>1. sent[h] \in Seq(Nat) /\ current_message \in Nat
      BY DEF QueueTypeOK
    <3>2. PICK l \in Nat : l = Len(sent[h])
      BY <3>1
    <3>3. /\ DOMAIN sent[h] = 1 .. l /\ DOMAIN sent'[h] = 1 .. l + 1
          /\ \A i \in 1 .. l : sent'[h][i] = sent[h][i] /\ sent[h][i] \in Nat
          /\ sent'[h][l + 1] = current_message
      BY <2>1, <3>1, <3>2
    <3>4. ASSUME NEW i \in 1 .. l PROVE sent[h][i] < current_message
      <4>1. PICK n \in Nat : n = sent[h][i]
        BY <3>3
      <4>2. WasSent(h, n)
        BY <3>3, <4>1 DEF WasSent
      <4>3. n \in 1 .. Popped /\ IsFor(h, added[n]) /\ n # current_message
        BY <2>1, <4>2 DEF SentInv, IsOut
      <4>4. n \notin current_message + 1 .. Popped
        BY <2>3, <4>3 DEF IsFor, Contains
      <4>5. QED  BY <1>1, <3>1, <4>1, <4>3, <4>4
    <3>5. InOrder(h)'
      <4>1. \A i, j \in 1 .. l : i < j => sent[h][i] < sent[h][j]
        BY <3>3 DEF SentInv, InOrder
      <4>2. \A i, j \in 1 .. l + 1 : i < j => sent'[h][i] < sent'[h][j]
        BY <3>3, <3>4, <4>1
      <4>3. QED  BY <3>3, <4>2 DEF InOrder
    <3>6. ASSUME NEW n \in Nat PROVE WasSent(h, n)' <=> IsOut(h, n)'
      <4>1. WasSent(h, n)' <=> WasSent(h, n) \/ n = current_message
        <5>1. WasSent(h, n) <=> \E i \in 1 .. l : sent[h][i] = n
          BY <3>3 DEF WasSent
        <5>2. WasSent(h, n)' <=> \E i \in 1 .. l + 1 : sent'[h][i] = n
          BY <3>3 DEF WasSent
        <5>3. QED  BY <3>3, <5>1, <5>2
      <4>2. WasSent(h, n) <=> /\ n \in 1 .. Popped /\ IsFor(h, added[n])
                              /\ n # current_message
        BY <2>1 DEF SentInv, IsOut
      <4>3. IsOut(h, n)' <=> n \in 1 .. Popped /\ IsFor(h, added[n])
        BY <2>1, <2>2 DEF IsOut
      <4>4. QED  BY <2>3, <4>1, <4>2, <4>3
    <3>7. QED  BY <3>5, <3>6
  <2>6. QED  BY <2>4, <2>5 DEF SentInv
<1>6. CASE UNCHANGED <<messages, current_message, current_addresses, added, sent>>
  <2>1. \A c \in Clients : \A n \in Nat : IsOut(c, n) <=> IsOut(c, n)'
    BY <1>6 DEF IsOut, Popped, InHand
  <2>2. QED  BY <1>2, <1>6, <2>1
<1>7. QED  BY <1>3, <1>4, <1>5, <1>6, QueueLeft

(* What SentInv says, in the words of EachGetsAllInOrder.                  *)
LEMMA InOrderFromInv ==
  ASSUME QueueTypeOK, BufferInv, HandInv, SentInv
  PROVE  EachGetsAllInOrder
<1>1. /\ Len(messages) \in Nat /\ Len(added) \in Nat
      /\ DOMAIN messages = 1 .. Len(messages) /\ DOMAIN added = 1 .. Len(added)
      /\ Popped = Len(added) - Len(messages) /\ Popped \in Nat
  BY DEF QueueTypeOK, BufferInv, Popped
<1>2. ASSUME NEW c \in Clients
      PROVE  Range(sent[c]) = {n \in DOMAIN added : IsFor(c, added[n])} \ Waiting(c)
  <2>1. \A n : n \in Range(sent[c]) <=> n \in Nat /\ WasSent(c, n)
    BY DEF Range, WasSent, QueueTypeOK
  <2>2. ASSUME NEW n \in 1 .. Len(added), IsFor(c, added[n])
        PROVE  n \in Waiting(c) <=> ~IsOut(c, n)
    <3>1. n \in Waiting(c) <=>
             \/ \E i \in 1 .. Len(messages) :
                   IsFor(c, messages[i]) /\ messages[i].id = n
             \/ n = current_message /\ InHand(c)
      BY <1>1 DEF Waiting
    <3>2. \A i \in 1 .. Len(messages) :
             messages[i] = added[Popped + i] /\ messages[i].id = Popped + i
      <4>1. \A i \in 1 .. Len(messages) : Popped + i \in 1 .. Len(added)
        BY <1>1
      <4>2. QED  BY <4>1 DEF BufferInv
    <3>3. (\E i \in 1 .. Len(messages) :
              IsFor(c, messages[i]) /\ messages[i].id = n)
          <=> n \notin 1 .. Popped
      <4>1. ASSUME NEW i \in 1 .. Len(messages), messages[i].id = n
            PROVE  n \notin 1 .. Popped
        <5>1. n = Popped + i
          BY <3>2, <4>1
        <5>2. QED  BY <1>1, <5>1
      <4>2. ASSUME n \notin 1 .. Popped
            PROVE  \E i \in 1 .. Len(messages) :
                      IsFor(c, messages[i]) /\ messages[i].id = n
        <5>1. n - Popped \in 1 .. Len(messages) /\ Popped + (n - Popped) = n
          BY <1>1, <4>2
        <5>2. messages[n - Popped] = added[n] /\ messages[n - Popped].id = n
          BY <3>2, <5>1
        <5>3. QED  BY <2>2, <5>1, <5>2
      <4>3. QED  BY <4>1, <4>2
    <3>4. QED  BY <2>2, <3>1, <3>3 DEF IsOut
  <2>3. \A n \in Nat : IsOut(c, n) => n \in 1 .. Len(added) /\ IsFor(c, added[n])
    BY <1>1 DEF IsOut
  <2>4. \A n \in Nat : WasSent(c, n) <=> IsOut(c, n)
    BY DEF SentInv
  <2>5. QED  BY <1>1, <2>1, <2>2, <2>3, <2>4
<1>3. \A c \in Clients : \A i, j \in DOMAIN sent[c] : i < j => sent[c][i] < sent[c][j]
  BY DEF SentInv, InOrder
<1>4. QED  BY <1>2, <1>3 DEF EachGetsAllInOrder

(* Each client is sent all that was ever addressed to it, once and in the  *)
(* order of the calls of add_message, but for what still waits for it,     *)
(* however the calls come between can_send_message and send_message.       *)
THEOREM AllInOrder == Spec => []EachGetsAllInOrder
<1>1. Init => QueueTypeOK /\ SendInv /\ BufferInv /\ HandInv /\ SentInv
  <2>1. ASSUME Init PROVE SendInv /\ BufferInv /\ HandInv
    BY <2>1 DEF Init, SendInv, BufferInv, HandInv
  <2>2. ASSUME Init PROVE SentInv
    <3>1. /\ messages = << >> /\ added = << >> /\ Len(messages) = 0 /\ Len(added) = 0
          /\ \A c \in Clients : sent[c] = << >> /\ DOMAIN sent[c] = {}
      BY <2>2 DEF Init
    <3>2. \A n \in Nat : n \notin 1 .. Popped
      BY <3>1 DEF Popped
    <3>3. QED  BY <3>1, <3>2 DEF SentInv, InOrder, WasSent, IsOut
  <2>3. QED  BY <2>1, <2>2, QueueTypeInit
<1>2. QueueTypeOK /\ SendInv /\ BufferInv /\ HandInv /\ SentInv /\ [Next]_vars
         => QueueTypeOK' /\ SendInv' /\ BufferInv' /\ HandInv' /\ SentInv'
  BY QueueTypeStep, SendStep, BufferStep, HandStep, SentStep
<1>3. QueueTypeOK /\ BufferInv /\ HandInv /\ SentInv => EachGetsAllInOrder
  BY InOrderFromInv
<1>4. QED  BY <1>1, <1>2, <1>3, PTL DEF Spec
=============================================================================
