----------------------------- MODULE GuiClient -----------------------------
(***************************************************************************)
(* The arrow keys, from the GUI's TCP stream to the client's direction:    *)
(* GuiClient::receive_event, deselect and get_direction                    *)
(* (client/gui_client.cc).  Module Client runs them in its main thread.    *)
(*                                                                         *)
(* A definition whose name no action uses is the mistaken form of the one  *)
(* that follows it; PROJECT.json says which property tells them apart.     *)
(*                                                                         *)
(* Bytes are positions in the stream that the GUI has written: the buffer  *)
(* holds the positions after `taken - offset` up to `taken`, a newline is  *)
(* the last position of a line, and a line is recognised when it starts    *)
(* where the buffer starts.                                                *)
(***************************************************************************)
EXTENDS Naturals, Sequences

CONSTANTS
    Size,      \* length of the buffer
    KeyLength, \* length of a line with its newline: [Lines -> Nat]
    MaxLines   \* bound: lines the GUI writes

Lines == {"LEFT_KEY_DOWN", "LEFT_KEY_UP", "RIGHT_KEY_DOWN", "RIGHT_KEY_UP"}

ASSUME SizeAssumption == Size \in Nat \ {0}
ASSUME LengthAssumption ==
    KeyLength \in [Lines -> Nat \ {0}] /\ \A l \in Lines : KeyLength[l] < Size

VARIABLES
    written,   \* lines the GUI has written
    ends,      \* ends[k] is the position of the newline of written[k]
    taken,     \* bytes that the client has read
    offset,    \* GuiClient::offset, the bytes in the buffer
    direction  \* GuiClient::direction

guiVars == <<written, ends, taken, offset, direction>>

Written == IF ends = << >> THEN 0 ELSE ends[Len(ends)]
Start == taken - offset
Before(k) == IF k = 1 THEN 0 ELSE ends[k - 1]

-----------------------------------------------------------------------------
(* The GUI tells of a key that goes down or up (external; it does not      *)
(* repeat a line for a key whose state has not changed).                   *)
HeldIn(keys, down, up) ==
    \E i \in DOMAIN keys :
        keys[i] = down /\ \A j \in i .. Len(keys) : keys[j] # up
HeldLeft(keys) == HeldIn(keys, "LEFT_KEY_DOWN", "LEFT_KEY_UP")
HeldRight(keys) == HeldIn(keys, "RIGHT_KEY_DOWN", "RIGHT_KEY_UP")

NextKeys ==
    {IF HeldLeft(written) THEN "LEFT_KEY_UP" ELSE "LEFT_KEY_DOWN",
     IF HeldRight(written) THEN "RIGHT_KEY_UP" ELSE "RIGHT_KEY_DOWN"}

Write(l) ==
    /\ Len(written) < MaxLines
    /\ written' = Append(written, l)
    /\ ends' = Append(ends, Written + KeyLength[l])
    /\ UNCHANGED <<taken, offset, direction>>

-----------------------------------------------------------------------------
(* deselect                                                                *)
Deselected(d) == IF direction = d THEN "NONE" ELSE direction

After(l) ==
    CASE l = "LEFT_KEY_DOWN"  -> "LEFT"
      [] l = "RIGHT_KEY_DOWN" -> "RIGHT"
      [] l = "LEFT_KEY_UP"    -> Deselected("LEFT")
      [] l = "RIGHT_KEY_UP"   -> Deselected("RIGHT")

(* The first newline in the buffer, once `n` more bytes are read.          *)
FirstInNew(k, n) == ends[k] > taken /\ ends[k] <= taken + n
FirstAtEnd(k, n) == ends[k] = taken + n /\ Before(k) <= Start
FirstInBuffer(k, n) ==
    /\ ends[k] > Start /\ ends[k] <= taken + n
    /\ Before(k) <= Start

(* offset -= i + 1                                                         *)
NewlineKept(k, n) == taken + n - ends[k] + 1
LineRemoved(k, n) == taken + n - ends[k]

(* receive_event: read what the socket has, as far as there is room; then  *)
(* handle one line, if the buffer holds one.  With no room read() returns  *)
(* 0, which the code takes for a lost connection: it stops the client.     *)
(* The invariant AlwaysRoom says that this does not occur.                 *)
Room == Size - offset - 1
ReadLine(n) ==
    \E k \in DOMAIN ends :
       /\ FirstInBuffer(k, n)
       /\ offset' = LineRemoved(k, n)
       /\ direction' = IF Start = Before(k) THEN After(written[k]) ELSE direction

ReadPart(n) ==
    /\ \A k \in DOMAIN ends : ~FirstInBuffer(k, n)
    /\ offset' = offset + n
    /\ UNCHANGED direction

ReceiveEvent(n) ==
    /\ 0 < n /\ n <= Room /\ n <= Written - taken
    /\ taken' = taken + n
    /\ ReadLine(n) \/ ReadPart(n)
    /\ UNCHANGED <<written, ends>>

-----------------------------------------------------------------------------
GuiInit ==
    /\ written = << >> /\ ends = << >> /\ taken = 0 /\ offset = 0
    /\ direction = "NONE"
=============================================================================
