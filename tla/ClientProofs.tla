---------------------------- MODULE ClientProofs ----------------------------
(***************************************************************************)
(* Proofs of the invariants of ClientProperties: the buffer of the keys    *)
(* never fills up, lines are handled in order (Keys), and no message is    *)
(* lost between the two threads.                                           *)
(***************************************************************************)
EXTENDS ClientProperties, FiniteSetTheorems, TLAPS

USE SizeAssumption, LengthAssumption

-----------------------------------------------------------------------------
(* The stream of keys.                                                     *)
StreamTypeOK ==
    /\ written \in Seq(Lines) /\ ends \in Seq(Nat) /\ Len(ends) = Len(written)
    /\ taken \in Nat /\ offset \in Nat /\ offset <= taken
    /\ direction \in Turns

(* Every line is at least a byte and fits the buffer with a byte to spare. *)
LinesFit == \A k \in DOMAIN ends : ends[k] - Before(k) \in 1 .. Size - 1

(* Nothing is read that is not written, and the buffer starts with a line. *)
StartsLine == Start = 0 \/ \E k \in DOMAIN ends : ends[k] = Start

Stream == StreamTypeOK /\ LinesFit /\ taken <= Written /\ StartsLine /\ AlwaysRoom

(* If the client has not handled all that is written, the buffer starts    *)
(* with one particular line.                                               *)
LEMMA NextLine ==
  ASSUME Stream, Start < Written
  PROVE  \E k \in DOMAIN ends : Before(k) = Start /\ ends[k] > Start
  <1>1. ends # << >> /\ Len(ends) \in DOMAIN ends /\ Written = ends[Len(ends)]
    BY DEF Written, Start, Stream, StreamTypeOK
  <1>2. CASE Start = 0
    <2>1. 1 \in DOMAIN ends /\ Before(1) = 0
      BY <1>1 DEF Before, Stream, StreamTypeOK
    <2>. QED  BY <2>1, <1>2 DEF Stream, LinesFit, StreamTypeOK
  <1>3. ASSUME NEW k \in DOMAIN ends, ends[k] = Start
        PROVE  \E j \in DOMAIN ends : Before(j) = Start /\ ends[j] > Start
    <2>1. k + 1 \in DOMAIN ends
      BY <1>1, <1>3 DEF Stream, StreamTypeOK
    <2>2. Before(k + 1) = ends[k]
      BY <1>3 DEF Before, Stream, StreamTypeOK
    <2>. QED  BY <2>1, <2>2, <1>3 DEF Stream, LinesFit, StreamTypeOK
  <1>. QED  BY <1>2, <1>3 DEF Stream, StartsLine

LEMMA StreamInit == GuiInit => Stream
  <1>. SUFFICES ASSUME GuiInit PROVE Stream
    OBVIOUS
  <1>1. written = << >> /\ ends = << >> /\ taken = 0 /\ offset = 0 /\ direction = "NONE"
    BY DEF GuiInit
  <1>2. StreamTypeOK
    BY <1>1 DEF StreamTypeOK, Turns
  <1>3. LinesFit
    <2>1. DOMAIN ends = {}
      BY <1>1
    <2>. QED  BY <2>1 DEF LinesFit
  <1>4. taken <= Written /\ StartsLine
    BY <1>1 DEF Written, StartsLine, Start
  <1>5. AlwaysRoom
    <2>1. "LEFT_KEY_DOWN" \in Lines
      BY DEF Lines
    <2>. QED  BY <2>1, <1>1 DEF AlwaysRoom, Room
  <1>. QED  BY <1>2, <1>3, <1>4, <1>5 DEF Stream

LEMMA StreamStutters == Stream /\ UNCHANGED guiVars => Stream'
  BY DEF guiVars, Stream, StreamTypeOK, LinesFit, StartsLine, AlwaysRoom, Room,
         Start, Written, Before

LEMMA WriteKeepsStream ==
  ASSUME Stream, NEW l \in Lines, Write(l)
  PROVE  Stream'
  <1>. DEFINE e == Written + KeyLength[l]
  <1>1. Written \in Nat /\ KeyLength[l] \in Nat \ {0} /\ KeyLength[l] < Size
    BY DEF Stream, StreamTypeOK, Written
  <1>2. /\ written' = Append(written, l) /\ ends' = Append(ends, e)
        /\ UNCHANGED <<taken, offset, direction>>
    BY DEF Write
  <1>3. /\ DOMAIN ends' = DOMAIN ends \cup {Len(ends) + 1}
        /\ \A k \in DOMAIN ends : ends'[k] = ends[k]
        /\ ends'[Len(ends) + 1] = e /\ Len(ends') = Len(ends) + 1
    BY <1>1, <1>2, SMTT(20) DEF Stream, StreamTypeOK
  <1>4. StreamTypeOK'
    BY <1>1, <1>2, <1>3 DEF Stream, StreamTypeOK
  <1>5. LinesFit'
    <2>1. ASSUME NEW k \in DOMAIN ends
          PROVE  Before(k)' = Before(k)
      BY <1>3, <2>1 DEF Before, Stream, StreamTypeOK
    <2>2. PICK m \in Nat : m = Len(ends) + 1
      BY DEF Stream, StreamTypeOK
    <2>3. Before(m)' = Written
      BY <2>2, <1>3 DEF Before, Written, Stream, StreamTypeOK
    <2>4. \A k \in DOMAIN ends : ends'[k] - Before(k)' \in 1 .. Size - 1
      BY <2>1, <1>3 DEF Stream, LinesFit
    <2>5. ends'[m] - Before(m)' \in 1 .. Size - 1
      BY <2>2, <2>3, <1>1, <1>3
    <2>. QED  BY <2>2, <2>4, <2>5, <1>3 DEF LinesFit
  <1>6. (taken <= Written)'
    <2>1. Written' = e
      BY <1>3, <1>4 DEF Written, StreamTypeOK
    <2>. QED  BY <2>1, <1>1, <1>2 DEF Stream, StreamTypeOK
  <1>7. StartsLine' /\ AlwaysRoom'
    BY <1>2, <1>3 DEF Stream, StartsLine, AlwaysRoom, Start, Room
  <1>. QED  BY <1>4, <1>5, <1>6, <1>7 DEF Stream

(* A read that completes a line takes that line out, and one that does not *)
(* leaves less than a line in the buffer.                                  *)
LEMMA ReadKeepsStream ==
  ASSUME Stream, NEW n \in 1 .. Size, ReceiveEvent(n)
  PROVE  Stream'
  <1>1. /\ n <= Room /\ n <= Written - taken /\ taken' = taken + n
        /\ UNCHANGED <<written, ends>>
    BY DEF ReceiveEvent
  <1>2. Written \in Nat /\ Written' = Written
    BY <1>1 DEF Stream, StreamTypeOK, Written
  <1>3. LinesFit' /\ (taken <= Written)'
    BY <1>1, <1>2 DEF Stream, StreamTypeOK, LinesFit, Before
  <1>4. CASE ReadLine(n)
    <2>1. PICK k \in DOMAIN ends :
              /\ ends[k] > Start /\ ends[k] <= taken + n
              /\ offset' = taken + n - ends[k]
              /\ direction' = IF Start = Before(k) THEN After(written[k])
                                                   ELSE direction
      BY <1>4 DEF ReadLine, FirstInBuffer, LineRemoved
    <2>2. ends[k] \in Nat /\ written[k] \in Lines
      BY DEF Stream, StreamTypeOK
    <2>3. offset' \in Nat /\ offset' <= taken' /\ Start' = ends[k]
      <3>1. taken \in Nat /\ taken' = taken + n
        BY <1>1 DEF Stream, StreamTypeOK
      <3>2. offset' = taken + n - ends[k] /\ ends[k] <= taken + n
        BY <2>1
      <3>. QED  BY <3>1, <3>2, <2>2 DEF Start
    <2>4. direction' \in Turns
      BY <2>1, <2>2 DEF After, Deselected, Lines, Turns, Stream, StreamTypeOK
    <2>5. AlwaysRoom'
      BY <2>1, <2>2, <1>1 DEF AlwaysRoom, Room, Start, Stream, StreamTypeOK
    <2>. QED
      BY <2>3, <2>4, <2>5, <1>1, <1>3 DEF Stream, StreamTypeOK, StartsLine
  <1>5. CASE ReadPart(n)
    <2>1. PICK k \in DOMAIN ends : Before(k) = Start /\ ends[k] > Start
      BY <1>1, <1>2, NextLine DEF Start, Stream, StreamTypeOK
    <2>2. ~FirstInBuffer(k, n) /\ offset' = offset + n /\ direction' = direction
      BY <1>5 DEF ReadPart
    <2>3. Start \in Nat /\ ends[k] \in Nat
      BY DEF Start, Stream, StreamTypeOK
    <2>4. taken + n < ends[k]
      BY <2>1, <2>2, <2>3 DEF FirstInBuffer, Stream, StreamTypeOK
    <2>5. ends[k] <= Start + Size - 1
      BY <2>1, <2>3 DEF Stream, LinesFit
    <2>6. AlwaysRoom'
      BY <2>2, <2>3, <2>4, <2>5 DEF AlwaysRoom, Room, Start, Stream, StreamTypeOK
    <2>7. Start' = Start /\ StreamTypeOK'
      BY <2>2, <1>1 DEF Start, Stream, StreamTypeOK
    <2>. QED  BY <2>6, <2>7, <1>1, <1>3 DEF Stream, StartsLine
  <1>. QED  BY <1>4, <1>5 DEF ReceiveEvent

-----------------------------------------------------------------------------
(* The lines that were handled, and how they implement Keys.               *)

(* Later lines end later.                                                  *)
Increasing ==
    /\ \A k \in DOMAIN ends : ends[k] > 0 /\ ends[k] <= Written
    /\ \A j, k \in DOMAIN ends : j < k => ends[j] < ends[k]

LEMMA IncreasingInit == GuiInit => Increasing
  <1>1. GuiInit => DOMAIN ends = {}
    BY DEF GuiInit
  <1>. QED  BY <1>1 DEF Increasing

LEMMA WriteKeepsIncreasing ==
  ASSUME Stream, Increasing, NEW l \in Lines, Write(l)
  PROVE  Increasing'
  <1>. DEFINE e == Written + KeyLength[l]
  <1>1. Written \in Nat /\ e \in Nat /\ e > Written
    BY DEF Stream, StreamTypeOK, Written
  <1>2. /\ DOMAIN ends' = DOMAIN ends \cup {Len(ends) + 1}
        /\ \A k \in DOMAIN ends : ends'[k] = ends[k]
        /\ ends'[Len(ends) + 1] = e /\ Len(ends') = Len(ends) + 1
        /\ DOMAIN ends = 1 .. Len(ends) /\ Len(ends) \in Nat
        /\ \A k \in DOMAIN ends : ends[k] \in Nat
    BY <1>1, SMTT(20) DEF Write, Stream, StreamTypeOK
  <1>3. Written' = e
    <2>1. ends' # << >>
      BY <1>2
    <2>. QED  BY <2>1, <1>2 DEF Written
  <1>. HIDE DEF e
  <1>4. \A k \in DOMAIN ends' : ends'[k] > 0 /\ ends'[k] <= Written'
    BY <1>1, <1>2, <1>3 DEF Increasing
  <1>5. \A j, k \in DOMAIN ends' : j < k => ends'[j] < ends'[k]
    BY <1>1, <1>2 DEF Increasing
  <1>. QED  BY <1>4, <1>5 DEF Increasing

(* n lines have been handled when the buffer starts behind the n-th.       *)
StartsAfter(n) == n \in 0 .. Len(ends) /\ Start = IF n = 0 THEN 0 ELSE ends[n]

LEMMA SomeHandled ==
  ASSUME Stream
  PROVE  \E n \in 0 .. Len(ends) : StartsAfter(n)
  <1>1. CASE Start = 0
    <2>1. 0 \in 0 .. Len(ends)
      BY DEF Stream, StreamTypeOK
    <2>. QED  BY <1>1, <2>1 DEF StartsAfter
  <1>2. ASSUME NEW k \in DOMAIN ends, ends[k] = Start
        PROVE  \E n \in 0 .. Len(ends) : StartsAfter(n)
    <2>1. k \in 0 .. Len(ends) /\ k # 0
      BY DEF Stream, StreamTypeOK
    <2>. QED  BY <1>2, <2>1 DEF StartsAfter
  <1>. QED  BY <1>1, <1>2 DEF Stream, StartsLine

(* The lines that end at s or before are the first n, when the n-th ends    *)
(* there.                                                                  *)
EndUpTo(e, s) == {k \in DOMAIN e : e[k] <= s}

LEMMA CountUpTo ==
  ASSUME NEW e \in Seq(Nat),
         \A k \in DOMAIN e : e[k] > 0,
         \A j, k \in DOMAIN e : j < k => e[j] < e[k],
         NEW n \in 0 .. Len(e), NEW s, s = IF n = 0 THEN 0 ELSE e[n]
  PROVE  Cardinality(EndUpTo(e, s)) = n
  <1>1. /\ DOMAIN e = 1 .. Len(e) /\ Len(e) \in Nat
        /\ \A k \in DOMAIN e : e[k] \in Nat
    OBVIOUS
  <1>2. \A k \in DOMAIN e : e[k] <= s <=> k <= n
    <2>1. CASE n = 0
      BY <1>1, <2>1
    <2>2. CASE n # 0
      <3>1. n \in DOMAIN e /\ s = e[n]
        BY <1>1, <2>2
      <3>. QED  BY <1>1, <3>1
    <2>. QED  BY <2>1, <2>2
  <1>3. EndUpTo(e, s) = 1 .. n
    BY <1>1, <1>2 DEF EndUpTo
  <1>4. Cardinality(1 .. n) = n
    BY FS_Interval
  <1>. QED  BY <1>3, <1>4

LEMMA HandledSoFar ==
  ASSUME Stream, Increasing, NEW n \in 0 .. Len(ends), StartsAfter(n)
  PROVE  HandledCount = n /\ Handled = SubSeq(written, 1, n)
  <1>1. HandledCount = n
    <2>1. /\ ends \in Seq(Nat) /\ n \in 0 .. Len(ends)
          /\ Start = IF n = 0 THEN 0 ELSE ends[n]
          /\ \A k \in DOMAIN ends : ends[k] > 0
          /\ \A j, k \in DOMAIN ends : j < k => ends[j] < ends[k]
      BY DEF Stream, StreamTypeOK, Increasing, StartsAfter
    <2>2. Cardinality(EndUpTo(ends, Start)) = n
      BY <2>1, CountUpTo, Zenon
    <2>. QED  BY <2>2 DEF HandledCount, EndUpTo
  <1>. QED  BY <1>1 DEF Handled

(* The GUI writes a line: it ends behind the buffer's start.               *)
LEMMA WritePresses ==
  ASSUME Stream, Increasing, NEW l \in Lines, Write(l)
  PROVE  KeyMachine!Press
  <1>1. PICK n \in 0 .. Len(ends) : StartsAfter(n)
    BY SomeHandled
  <1>2. Stream' /\ Increasing'
    BY WriteKeepsStream, WriteKeepsIncreasing
  <1>3. /\ written' = Append(written, l) /\ written \in Seq(Lines)
        /\ Len(ends) = Len(written) /\ Len(ends') = Len(ends) + 1
        /\ Start' = Start /\ direction' = direction
        /\ \A k \in DOMAIN ends : ends'[k] = ends[k]
        /\ DOMAIN ends = 1 .. Len(ends) /\ Len(ends) \in Nat
    BY DEF Write, Start, Stream, StreamTypeOK
  <1>4. Len(written') = Len(written) + 1 /\ SubSeq(written', 1, Len(written)) = written
    BY <1>3
  <1>5. n \in 0 .. Len(ends') /\ StartsAfter(n)'
    BY <1>1, <1>3, SMTT(20) DEF StartsAfter
  <1>6. Handled = SubSeq(written, 1, n)
    BY <1>1, HandledSoFar
  <1>7. Handled' = SubSeq(written', 1, n)
    <2>1. HandledCount' = n
      <3>1. /\ ends' \in Seq(Nat) /\ n \in 0 .. Len(ends')
            /\ Start' = IF n = 0 THEN 0 ELSE ends'[n]
            /\ \A k \in DOMAIN ends' : ends'[k] > 0
            /\ \A j, k \in DOMAIN ends' : j < k => ends'[j] < ends'[k]
        BY <1>2, <1>5 DEF Stream, StreamTypeOK, Increasing, StartsAfter
      <3>2. Cardinality(EndUpTo(ends', Start')) = n
        BY <3>1, CountUpTo, Zenon
      <3>. QED  BY <3>2 DEF HandledCount, EndUpTo
    <2>. QED  BY <2>1 DEF Handled
  <1>8. SubSeq(written', 1, n) = SubSeq(written, 1, n)
    BY <1>3
  <1>. QED  BY <1>3, <1>4, <1>6, <1>7, <1>8 DEF KeyMachine!Press

(* A read that completes a line handles the next one.                      *)
LEMMA ReadHandles ==
  ASSUME Stream, Increasing, NEW n \in 1 .. Size, ReceiveEvent(n)
  PROVE  KeyMachine!Handle \/ UNCHANGED <<written, Handled, direction>>
  <1>1. /\ taken' = taken + n /\ UNCHANGED <<written, ends>>
        /\ ReadLine(n) \/ ReadPart(n)
    BY DEF ReceiveEvent
  <1>2. PICK m \in 0 .. Len(ends) : StartsAfter(m)
    BY SomeHandled
  <1>3. Handled = SubSeq(written, 1, m)
    BY <1>2, HandledSoFar
  <1>4. CASE ReadPart(n)
    <2>1. Start' = Start /\ direction' = direction
      BY <1>1, <1>4 DEF ReadPart, Start, Stream, StreamTypeOK
    <2>. QED  BY <1>1, <2>1 DEF Handled, HandledCount
  <1>5. CASE ReadLine(n)
    <2>1. PICK k \in DOMAIN ends :
              /\ ends[k] > Start /\ ends[k] <= taken + n /\ Before(k) <= Start
              /\ offset' = taken + n - ends[k]
              /\ direction' = IF Start = Before(k) THEN After(written[k])
                                                   ELSE direction
      BY <1>5 DEF ReadLine, FirstInBuffer, LineRemoved
    <2>2. /\ DOMAIN ends = 1 .. Len(ends) /\ Len(ends) \in Nat
          /\ \A j \in DOMAIN ends : ends[j] \in Nat
          /\ written \in Seq(Lines) /\ Len(written) = Len(ends)
          /\ taken \in Nat
      BY DEF Stream, StreamTypeOK
    <2>3. k = m + 1 /\ Before(k) = Start
      <3>1. k > m
        <4>1. CASE m = 0
          BY <4>1, <2>2
        <4>2. CASE m # 0
          <5>1. m \in DOMAIN ends /\ ends[k] > ends[m]
            BY <4>2, <1>2, <2>1, <2>2 DEF StartsAfter
          <5>2. k = m \/ k < m \/ k > m
            BY <2>2
          <5>. QED  BY <5>1, <5>2, <2>2 DEF Increasing
        <4>. QED  BY <4>1, <4>2
      <3>2. CASE k = 1
        BY <3>1, <3>2, <1>2 DEF Before, StartsAfter
      <3>3. CASE k # 1
        <4>1. k - 1 \in DOMAIN ends /\ Before(k) = ends[k - 1]
          BY <3>3, <2>2 DEF Before
        <4>2. ends[k - 1] <= Start
          BY <4>1, <2>1
        <4>3. m # 0
          <5>1. ends[k - 1] > 0 /\ ends[k - 1] \in Nat
            BY <4>1, <2>2 DEF Increasing
          <5>2. m = 0 => Start = 0
            BY <1>2 DEF StartsAfter
          <5>. QED  BY <4>2, <5>1, <5>2
        <4>4. Start = ends[m] /\ m \in DOMAIN ends
          BY <4>3, <1>2, <2>2 DEF StartsAfter
        <4>5. k - 1 <= m
          BY <4>1, <4>2, <4>4, <2>2, SMTT(20) DEF Increasing
        <4>. QED  BY <4>1, <4>4, <4>5, <3>1, <2>2
      <3>. QED  BY <3>2, <3>3
    <2>4. Start' = ends[k]
      BY <1>1, <2>1, <2>2 DEF Start
    <2>5. Stream' /\ Increasing'
      <3>1. Increasing'
        BY <1>1 DEF Increasing, Written
      <3>. QED  BY <3>1, ReadKeepsStream
    <2>6. Handled' = SubSeq(written, 1, k)
      <3>1. k \in 0 .. Len(ends') /\ StartsAfter(k)'
        BY <1>1, <2>2, <2>4 DEF StartsAfter
      <3>2. Handled' = SubSeq(written', 1, k)
        <4>1. HandledCount' = k
          <5>1. /\ ends' \in Seq(Nat) /\ k \in 0 .. Len(ends')
                /\ Start' = IF k = 0 THEN 0 ELSE ends'[k]
                /\ \A i \in DOMAIN ends' : ends'[i] > 0
                /\ \A i, j \in DOMAIN ends' : i < j => ends'[i] < ends'[j]
            BY <2>5, <3>1 DEF Stream, StreamTypeOK, Increasing, StartsAfter
          <5>2. Cardinality(EndUpTo(ends', Start')) = k
            BY <5>1, CountUpTo, Zenon
          <5>. QED  BY <5>2 DEF HandledCount, EndUpTo
        <4>. QED  BY <4>1 DEF Handled
      <3>. QED  BY <3>2, <1>1
    <2>7. SubSeq(written, 1, k) = Append(SubSeq(written, 1, m), written[m + 1])
      BY <2>2, <2>3
    <2>8. Len(Handled) = m /\ m < Len(written) /\ written[m + 1] \in Lines
      BY <1>3, <2>2, <2>3
    <2>9. direction' = KeyMachine!Turn(direction, written[m + 1])
      BY <2>1, <2>3, <2>8 DEF After, Deselected, KeyMachine!Turn, Lines
    <2>10. Handled' = Append(Handled, written[m + 1])
      BY <1>3, <2>6, <2>7
    <2>. QED  BY <1>1, <2>8, <2>9, <2>10 DEF KeyMachine!Handle
  <1>. QED  BY <1>1, <1>4, <1>5

-----------------------------------------------------------------------------
(* The two threads.                                                        *)
ThreadTypeOK ==
    /\ told \in Turns /\ messages \in Seq(Turns) /\ owed \in Nat
    /\ events \in Nat /\ stopping \in BOOLEAN
    /\ server_events \in BOOLEAN /\ gui_events \in BOOLEAN
    /\ main \in {"run", "poll", "serve", "front", "pop", "exit", "failed",
                 "ended", "crashed"}
    /\ main \in {"front", "pop"} => messages # << >>
    /\ revents \subseteq {Order[i] : i \in DOMAIN Order}
    /\ asker \in {"loop", "push", "ended"}

Threads == ThreadTypeOK /\ EachIsSentOnce /\ NoLostWakeup

LEMMA Orders ==
  {Order[i] : i \in DOMAIN Order} =
      {"server_in", "server_out", "gui_in", "gui_out"}
  <1>1. DOMAIN Order = 1 .. 4
    BY DEF Order
  <1>2. /\ Order[1] = "server_in" /\ Order[2] = "server_out"
        /\ Order[3] = "gui_in" /\ Order[4] = "gui_out"
    BY DEF Order
  <1>3. 1 .. 4 = {1, 2, 3, 4}
    OBVIOUS
  <1>. QED  BY <1>1, <1>2, <1>3

LEMMA ThreadsInit == Init => Threads
  <1>. SUFFICES ASSUME Init PROVE Threads
    OBVIOUS
  <1>1. messages = <<"NONE">> /\ "NONE" \in Turns
    BY DEF Init, Turns
  <1>2. messages \in Seq(Turns) /\ Len(messages) = 1
    BY <1>1
  <1>3. ThreadTypeOK
    BY <1>1, <1>2 DEF Init, ThreadTypeOK
  <1>4. EachIsSentOnce /\ NoLostWakeup
    BY <1>2 DEF Init, EachIsSentOnce, NoLostWakeup, Stays
  <1>. QED  BY <1>3, <1>4 DEF Threads

(* A step that leaves the queues and their masks alone needs to keep only  *)
(* the control state in its types, and out of front() and pop().           *)
LEMMA ControlKeepsThreads ==
  ASSUME Threads, UNCHANGED <<queueVars, eventVars>>,
         stopping' \in BOOLEAN, asker' \in {"loop", "push", "ended"},
         revents' \subseteq {Order[i] : i \in DOMAIN Order},
         \/ UNCHANGED main
         \/ /\ main' \in {"run", "poll", "serve", "exit", "failed", "ended"}
            /\ main \notin {"pop", "crashed"}
         \/ main' = "crashed"
  PROVE  Threads'
  BY DEF Threads, ThreadTypeOK, EachIsSentOnce, NoLostWakeup, Stays, queueVars,
         eventVars

(* The push: one message more is queued and owed, and the mask asks for it.*)
LEMMA AddKeepsThreads ==
  ASSUME Threads, direction \in Turns, AddServerMessage
  PROVE  Threads'
  <1>1. /\ messages' = Append(messages, direction) /\ owed' = owed + 1
        /\ server_events' = TRUE /\ asker' = "loop"
        /\ UNCHANGED <<stopping, told, events, gui_events, main, revents>>
    BY DEF AddServerMessage, MaskWanted, eventVars
  <1>2. /\ messages' \in Seq(Turns) /\ messages' # << >>
        /\ Len(messages') = Len(messages) + 1
    BY <1>1 DEF Threads, ThreadTypeOK
  <1>. QED
    BY <1>1, <1>2 DEF Threads, ThreadTypeOK, EachIsSentOnce, NoLostWakeup, Stays

(* send_message, with whatever the asker has pushed since the look.        *)
LEMMA SendKeepsThreads ==
  ASSUME Threads, SendMessage, main # "crashed"
  PROVE  Threads'
  <1>1. CASE CanSend
    BY <1>1 DEF CanSend, Serves, Served, Threads, ThreadTypeOK, EachIsSentOnce,
                NoLostWakeup, Stays, eventVars
  <1>2. CASE SendFront
    <2>1. /\ main = "front" /\ main' = "pop" /\ told' = Head(messages)
          /\ owed' = owed - 1
          /\ UNCHANGED <<stopping, messages, server_events, events, gui_events,
                         revents, asker>>
      BY <1>2 DEF SendFront, eventVars
    <2>2. messages # << >> /\ Head(messages) \in Turns /\ Len(messages) > 0
      BY <2>1 DEF Threads, ThreadTypeOK
    <2>. QED
      BY <2>1, <2>2 DEF Threads, ThreadTypeOK, EachIsSentOnce, NoLostWakeup, Stays
  <1>3. CASE WouldBlock
    BY <1>3 DEF WouldBlock, KeptToSend, Served, Threads, ThreadTypeOK,
                EachIsSentOnce, NoLostWakeup, Stays, eventVars
  <1>4. CASE Pop
    <2>1. /\ main = "pop" /\ main' \in {"run", "serve"}
          /\ messages' = Tail(messages) /\ revents' \subseteq revents
          /\ UNCHANGED <<stopping, server_events, told, owed, events, gui_events,
                         asker>>
      BY <1>4 DEF Pop, Served, eventVars
    <2>2. messages # << >> /\ messages \in Seq(Turns)
      BY <2>1 DEF Threads, ThreadTypeOK
    <2>3. messages' \in Seq(Turns) /\ Len(messages') = Len(messages) - 1
      BY <2>1, <2>2
    <2>. QED
      BY <2>1, <2>2, <2>3 DEF Threads, ThreadTypeOK, EachIsSentOnce, NoLostWakeup,
                              Stays
  <1>5. CASE Race
    BY <1>5, ControlKeepsThreads DEF Race, Threads, ThreadTypeOK
  <1>. QED  BY <1>1, <1>2, <1>3, <1>4, <1>5 DEF SendMessage

(* The queue for the GUI, which only the main thread uses.                 *)
LEMMA EventsKeepThreads ==
  ASSUME Threads, TakeEvent \/ SendEvent
  PROVE  Threads'
  <1>1. CASE TakeEvent
    BY <1>1 DEF TakeEvent, GuiMaskWanted, queueVars, Threads, ThreadTypeOK,
                EachIsSentOnce, NoLostWakeup, Stays
  <1>2. CASE SendEvent
    <2>1. /\ main = "serve" /\ main' \in {"run", "serve"} /\ revents' \subseteq revents
          /\ UNCHANGED <<stopping, messages, server_events, told, owed, asker>>
      BY <1>2 DEF SendEvent, Serves, Served, queueVars
    <2>2. \/ events = 0 /\ gui_events' = FALSE /\ UNCHANGED events
          \/ events # 0 /\ events' = events - 1 /\ UNCHANGED gui_events
      BY <1>2 DEF SendEvent
    <2>3. events' \in Nat /\ gui_events' \in BOOLEAN
      <3>1. events \in Nat /\ gui_events \in BOOLEAN
        BY DEF Threads, ThreadTypeOK
      <3>2. events = 0 \/ events - 1 \in Nat
        BY <3>1
      <3>3. FALSE \in BOOLEAN
        OBVIOUS
      <3>4. events' \in Nat
        BY <2>2, <3>1, <3>2, Zenon
      <3>5. gui_events' \in BOOLEAN
        BY <2>2, <3>1, <3>3, Zenon
      <3>. QED  BY <3>4, <3>5
    <2>4. ThreadTypeOK'
      BY <2>1, <2>3 DEF Threads, ThreadTypeOK
    <2>5. EachIsSentOnce'
      BY <2>1 DEF Threads, EachIsSentOnce, Stays
    <2>6. NoLostWakeup'
      <3>1. events' > 0 => events > 0 /\ gui_events' = gui_events
        BY <2>2 DEF Threads, ThreadTypeOK
      <3>. QED  BY <3>1, <2>1 DEF Threads, NoLostWakeup, Stays
    <2>. QED  BY <2>4, <2>5, <2>6 DEF Threads
  <1>. QED  BY <1>1, <1>2

(* Everything else moves only the control state.                           *)
LEMMA RestIsControl ==
  ASSUME Threads,
         \/ Poll \/ NothingReady \/ (\E ready \in SUBSET revents : Ready(ready))
         \/ MessageTaken \/ Nonsense \/ ReceiveFails \/ ReadKeys \/ GuiLost
         \/ Join \/ AskerLoop \/ Interrupt \/ (\E l \in NextKeys : Press(l))
  PROVE  Threads'
  <1>. USE ControlKeepsThreads DEF Threads, ThreadTypeOK
  <1>1. CASE Poll
    BY <1>1, Orders DEF Poll, Asked
  <1>2. CASE NothingReady
    BY <1>2 DEF NothingReady
  <1>3. CASE \E ready \in SUBSET revents : Ready(ready)
    BY <1>3 DEF Ready
  <1>4. CASE MessageTaken
    BY <1>4 DEF MessageTaken, Serves, Served
  <1>5. CASE Nonsense
    BY <1>5 DEF Nonsense, Serves, StopAndThrow
  <1>6. CASE ReceiveFails
    BY <1>6 DEF ReceiveFails, Serves
  <1>7. CASE ReadKeys
    BY <1>7 DEF ReadKeys, Serves, Served
  <1>8. CASE GuiLost
    BY <1>8 DEF GuiLost, Serves, StopAndThrow
  <1>9. CASE Join
    BY <1>9 DEF Join
  <1>10. CASE AskerLoop
    BY <1>10 DEF AskerLoop
  <1>11. CASE Interrupt
    BY <1>11 DEF Interrupt
  <1>12. CASE \E l \in NextKeys : Press(l)
    BY <1>12 DEF Press
  <1>. QED
    BY <1>1, <1>2, <1>3, <1>4, <1>5, <1>6, <1>7, <1>8, <1>9, <1>10, <1>11, <1>12

-----------------------------------------------------------------------------
(* A step of the client writes a line, reads from the stream, or leaves    *)
(* both alone.                                                             *)
LEMMA StepsOnStream ==
  ASSUME [Next]_vars
  PROVE  \/ \E l \in Lines : Write(l)
         \/ \E n \in 1 .. Size : ReceiveEvent(n)
         \/ UNCHANGED guiVars
  <1>1. ASSUME NEW l \in NextKeys, Press(l)
        PROVE  l \in Lines /\ Write(l)
    BY <1>1 DEF NextKeys, Lines, Press
  <1>2. ASSUME ReadKeys
        PROVE  \E n \in 1 .. Size : ReceiveEvent(n)
    BY <1>2 DEF ReadKeys
  <1>3. ASSUME Main, ~ReadKeys
        PROVE  UNCHANGED guiVars
    <2>1. CASE ReceiveMessage
      BY <2>1 DEF ReceiveMessage, TakeEvent, MessageTaken, Nonsense, ReceiveFails
    <2>2. CASE SendMessage
      BY <2>2 DEF SendMessage, CanSend, SendFront, WouldBlock, Pop, Race
    <2>3. CASE GuiLost \/ SendEvent \/ Join
      BY <2>3 DEF GuiLost, SendEvent, Join
    <2>4. CASE Poll \/ NothingReady \/ \E ready \in SUBSET revents : Ready(ready)
      BY <2>4 DEF Poll, NothingReady, Ready
    <2>. QED  BY <1>3, <2>1, <2>2, <2>3, <2>4 DEF Main
  <1>4. Asker \/ Interrupt \/ UNCHANGED vars => UNCHANGED guiVars
    BY DEF Asker, AskerLoop, AddServerMessage, Interrupt, vars
  <1>. QED  BY <1>1, <1>2, <1>3, <1>4 DEF Next

LEMMA StepOnStream ==
  ASSUME Stream, [Next]_vars
  PROVE  Stream'
  BY StepsOnStream, WriteKeepsStream, ReadKeepsStream, StreamStutters

(* Lines are written, handled and left alone as Keys says.                 *)
LEMMA StepOnKeys ==
  ASSUME Stream, Increasing, [Next]_vars
  PROVE  Increasing' /\ [KeyMachine!Next]_<<written, Handled, direction>>
  <1>1. ASSUME NEW l \in Lines, Write(l)
        PROVE  Increasing' /\ KeyMachine!Press
    BY <1>1, WriteKeepsIncreasing, WritePresses
  <1>2. ASSUME NEW n \in 1 .. Size, ReceiveEvent(n)
        PROVE  /\ Increasing'
               /\ KeyMachine!Handle \/ UNCHANGED <<written, Handled, direction>>
    <2>1. ends' = ends
      BY <1>2 DEF ReceiveEvent
    <2>. QED  BY <1>2, <2>1, ReadHandles DEF Increasing, Written
  <1>3. ASSUME UNCHANGED guiVars
        PROVE  Increasing' /\ UNCHANGED <<written, Handled, direction>>
    BY <1>3 DEF guiVars, Increasing, Written, Handled, HandledCount, Start
  <1>. QED  BY <1>1, <1>2, <1>3, StepsOnStream DEF KeyMachine!Next

LEMMA StepOnThreads ==
  ASSUME Threads, direction \in Turns, [Next]_vars
  PROVE  Threads'
  <1>1. CASE UNCHANGED vars
    BY <1>1 DEF vars, queueVars, eventVars, Threads, ThreadTypeOK, EachIsSentOnce,
                NoLostWakeup, Stays
  <1>2. CASE ~Gone /\ Main
    BY <1>2, SendKeepsThreads, EventsKeepThreads, RestIsControl
       DEF Main, ReceiveMessage, Gone
  <1>3. CASE Asker
    BY <1>3, AddKeepsThreads, RestIsControl DEF Asker
  <1>4. CASE Interrupt \/ \E l \in NextKeys : Press(l)
    BY <1>4, RestIsControl
  <1>. QED  BY <1>1, <1>2, <1>3, <1>4 DEF Next

(* Both together are inductive.                                            *)
THEOREM ClientInvariant == Spec => [](Stream /\ Threads)
  <1>1. Init => Stream /\ Threads
    BY StreamInit, ThreadsInit DEF Init
  <1>2. Stream /\ Threads /\ [Next]_vars => (Stream /\ Threads)'
    BY StepOnStream, StepOnThreads DEF Stream, StreamTypeOK
  <1>. QED  BY <1>1, <1>2, PTL DEF Spec

(* Every variable of the client keeps its type.                            *)
THEOREM TypeCorrect == Spec => []TypeOK
  <1>1. Stream /\ Threads => TypeOK
    BY DEF Stream, StreamTypeOK, StartsLine, AlwaysRoom, Room, Threads,
           ThreadTypeOK, TypeOK, Written
  <1>. QED  BY <1>1, ClientInvariant, PTL

(* The key buffer has room for another byte whenever the client reads, for *)
(* any lengths of lines that are shorter than the buffer, and however many *)
(* lines the GUI writes (gui_client.cc:47-50).                             *)
THEOREM BufferHasRoom == Spec => []AlwaysRoom
  <1>1. Stream /\ Threads => AlwaysRoom
    BY DEF Stream
  <1>. QED  BY <1>1, ClientInvariant, PTL

(* No message to the server is lost or sent twice between the threads      *)
(* (client.cc:193-207), for queues of any length.                          *)
THEOREM MessagesSentOnce == Spec => []EachIsSentOnce
  <1>1. Stream /\ Threads => EachIsSentOnce
    BY DEF Threads
  <1>. QED  BY <1>1, ClientInvariant, PTL

(* Whatever the two threads do to the masks, what waits in a queue is      *)
(* polled for (client.cc:188, 199, 204).                                   *)
THEOREM WaitingIsPolledFor == Spec => []NoLostWakeup
  <1>1. Stream /\ Threads => NoLostWakeup
    BY DEF Threads
  <1>. QED  BY <1>1, ClientInvariant, PTL

(* The lines of the GUI are handled one at a time, each once and in order, *)
(* and the direction is what they amount to (gui_client.cc:44-86), for any *)
(* lengths of lines and however the stream is cut into reads.              *)
THEOREM KeysInOrder == Spec => ImplementsKeys
  <1>1. Init => Increasing /\ KeyMachine!Init
    <2>1. ASSUME Init PROVE KeyMachine!Init
      <3>1. /\ written = << >> /\ direction = "NONE" /\ ends = << >>
        BY <2>1 DEF Init, GuiInit
      <3>2. Stream /\ Increasing
        BY <2>1, StreamInit, IncreasingInit DEF Init
      <3>3. PICK n \in 0 .. Len(ends) : StartsAfter(n)
        BY <3>2, SomeHandled
      <3>4. n = 0
        BY <3>1, <3>3
      <3>5. Handled = SubSeq(written, 1, 0)
        BY <3>2, <3>3, <3>4, HandledSoFar
      <3>6. SubSeq(written, 1, 0) = << >>
        BY <3>1
      <3>. QED  BY <3>1, <3>5, <3>6 DEF KeyMachine!Init
    <2>. QED  BY <2>1, IncreasingInit DEF Init
  <1>2. Stream /\ Increasing /\ [Next]_vars
          => Increasing' /\ [KeyMachine!Next]_<<written, Handled, direction>>
    BY StepOnKeys
  <1>. QED  BY <1>1, <1>2, ClientInvariant, PTL
            DEF Spec, ImplementsKeys, KeyMachine!Spec
=============================================================================
