------------------------------ MODULE Composer ------------------------------
(***************************************************************************)
(* The framing of the chat protocol (notice.chat.Composer) and the thread  *)
(* of ChatClient that feeds it: each message travels behind its length, a  *)
(* number to the base 128 with the highest digit first and a mark on every *)
(* byte but the last.  A read returns any number of the bytes that have    *)
(* arrived.  The server frames as compose() does.  Sizes stay far below    *)
(* the width of an int.                                                    *)
(***************************************************************************)
EXTENDS Integers, Sequences, FiniteSets

CONSTANTS
    Base,       \* LEFT_SHIFT_BITS, the base of the length; 2^7 in the code
    Message,    \* encoded messages, sequences of bytes
    MaxSent,    \* bound: messages on one connection
    MaxConnect, \* bound: connections, each with a listener thread
    Failing     \* the message handler may throw

Byte == 0 .. 2 * Base - 1

ASSUME ComposerAssumption ==
    /\ Base \in Nat /\ Base > 1
    /\ Message \subseteq Seq(Byte) \ {<<>>}
    /\ MaxConnect \in Nat \ {0}

VARIABLES
    wire,      \* bytes on their way to the client
    listening, \* the listener threads that go on reading; one per connection
    piece,     \* of each thread: the bytes of its last read
    offset,    \* how many of them it has used
    state,     \* of the one Composer: what it reads next
    length,    \* the length it has read so far
    left,      \* how many bytes the message still needs
    buf,       \* those it has
    sent,      \* history: the messages the server has sent on this connection
    received,  \* history: those given to onMessage
    broken,    \* history: why the stream is broken
    connects   \* connections made

composer == <<state, length, left, buf>>
reading  == <<piece, offset>>
history  == <<sent, received, broken>>
vars     == <<wire, listening, reading, composer, history, connects>>

Thread == 1..MaxConnect
Reason == {"no", "cut", "handler", "reconnect", "listeners"}

(* Wrong variant of Digits: one digit too many.                            *)
DigitsPadded(n) ==
    LET digits[k \in 0..n] == IF k = 0 THEN <<0>> ELSE Append(digits[k \div Base], k % Base)
    IN  digits[n]

(* The digits of a length, the highest first; 0 has none.                  *)
Digits(n) ==
    LET digits[k \in 0..n] == IF k = 0 THEN <<>> ELSE Append(digits[k \div Base], k % Base)
    IN  digits[n]

Mark(digits, positions) ==
    [i \in 1..Len(digits) |-> IF i \in positions THEN digits[i] + Base ELSE digits[i]]

Header(n) == Mark(Digits(n), 1 .. Len(Digits(n)) - 1)

Compose(m) == Header(Len(m)) \o m

(* Wrong variant of Value: the digits of the read before are forgotten.    *)
ValueAnew(before, digits) ==
    LET value[n \in 0..Len(digits)] ==
            IF n = 0 THEN 0 ELSE value[n - 1] * Base + (digits[n] % Base)
    IN  value[Len(digits)]

(* The value of length digits behind the ones read before.                 *)
Value(before, digits) ==
    LET value[n \in 0..Len(digits)] ==
            IF n = 0 THEN before ELSE value[n - 1] * Base + (digits[n] % Base)
    IN  value[Len(digits)]

Init ==
    /\ wire = <<>> /\ listening = {1}
    /\ piece = [t \in Thread |-> <<>>] /\ offset = [t \in Thread |-> 0]
    /\ state = "length" /\ length = 0 /\ left = 0 /\ buf = <<>>
    /\ sent = <<>> /\ received = <<>> /\ broken = "no"
    /\ connects = 1

ServerSends(m) ==
    /\ Len(sent) < MaxSent
    /\ sent' = Append(sent, m)
    /\ wire' = wire \o Compose(m)
    /\ UNCHANGED <<listening, reading, composer, received, broken, connects>>

Unused(t)      == SubSeq(piece[t], offset[t] + 1, Len(piece[t]))
Rest(t)        == Len(piece[t]) - offset[t]
Breaks(reason) == broken' = IF broken = "no" THEN reason ELSE broken
Use(t, n)      == offset' = [offset EXCEPT ![t] = @ + n] /\ UNCHANGED piece

(* An exception ends feed(); the listener swallows it and reads again.     *)
Drop(t) ==
    /\ piece' = [piece EXCEPT ![t] = <<>>]
    /\ offset' = [offset EXCEPT ![t] = 0]

(* Two listeners that hold a piece each feed them in any order.            *)
Read(t, k) ==
    /\ t \in listening /\ Rest(t) = 0
    /\ piece' = [piece EXCEPT ![t] = SubSeq(wire, 1, k)]
    /\ offset' = [offset EXCEPT ![t] = 0]
    /\ wire' = SubSeq(wire, k + 1, Len(wire))
    /\ IF \E u \in Thread \ {t} : Rest(u) > 0 THEN Breaks("listeners") ELSE UNCHANGED broken
    /\ UNCHANGED <<listening, composer, sent, received, connects>>

(* Where the length ends: at its first byte without a mark, if at all.     *)
HeaderEnds(t) ==
    {n \in 1..Rest(t) : Unused(t)[n] < Base /\ \A i \in 1..n-1 : Unused(t)[i] >= Base}

(* The last digit of the length; an empty message is complete at once.     *)
ReadLength(t) ==
    /\ state = "length"
    /\ \E size \in HeaderEnds(t) :
         LET value == Value(length, SubSeq(Unused(t), 1, size))
         IN  /\ Use(t, size)
             /\ IF value = 0
                THEN /\ received' = Append(received, <<>>)
                     /\ UNCHANGED composer
                ELSE /\ state' = "data" /\ length' = value /\ left' = value /\ buf' = <<>>
                     /\ UNCHANGED received
    /\ UNCHANGED <<wire, listening, sent, broken, connects>>

(* The digits go on in the next read: kept when the length began this one. *)
ReadPartOfLength(t) ==
    /\ state = "length" /\ Rest(t) > 0 /\ HeaderEnds(t) = {} /\ offset[t] = 0
    /\ length' = Value(length, piece[t])
    /\ Use(t, Rest(t))
    /\ UNCHANGED <<wire, listening, state, left, buf, history, connects>>

(* The loop counts from offset but stops at end: behind another message it *)
(* runs past the array, and the digits it has read are forgotten.          *)
CutLength(t) ==
    /\ state = "length" /\ Rest(t) > 0 /\ HeaderEnds(t) = {} /\ offset[t] > 0
    /\ Drop(t)
    /\ Breaks("cut")
    /\ UNCHANGED <<wire, listening, composer, sent, received, connects>>

(* Wrong variant of ReadPartOfData: what is still needed stays the same.   *)
ReadPartUncounted(t) ==
    /\ state = "data" /\ 0 < Rest(t) /\ Rest(t) < left
    /\ buf' = buf \o Unused(t)
    /\ Use(t, Rest(t))
    /\ UNCHANGED <<wire, listening, state, length, left, history, connects>>

ReadPartOfData(t) ==
    /\ state = "data" /\ 0 < Rest(t) /\ Rest(t) < left
    /\ buf' = buf \o Unused(t) /\ left' = left - Rest(t)
    /\ Use(t, Rest(t))
    /\ UNCHANGED <<wire, listening, state, length, history, connects>>

(* Wrong variant of Reset: the next length goes on from this one.          *)
ResetKeepsLength == state' = "length" /\ left' = 0 /\ buf' = <<>> /\ UNCHANGED length

Reset == state' = "length" /\ length' = 0 /\ left' = 0 /\ buf' = <<>>

(* The rest of a message: onMessage gets it, and may throw.                *)
ReadData(t) ==
    /\ state = "data" /\ 0 < Rest(t) /\ left <= Rest(t)
    /\ received' = Append(received, buf \o SubSeq(Unused(t), 1, left))
    /\ Reset
    /\ \/ Use(t, left) /\ UNCHANGED broken
       \/ /\ Failing /\ Drop(t)
          /\ IF Rest(t) > left THEN Breaks("handler") ELSE UNCHANGED broken
    /\ UNCHANGED <<wire, listening, sent, connects>>

(* connectChatServer: a new socket and a new thread; the Composer goes on  *)
(* where it was, and the old thread with its piece.  It goes on reading,   *)
(* from the new socket, unless closeConnect has stopped it before.         *)
Reconnect ==
    /\ connects < MaxConnect
    /\ connects' = connects + 1
    /\ listening' \in {listening \cup {connects'}, {connects'}}
    /\ wire' = <<>> /\ sent' = <<>> /\ received' = <<>>
    /\ broken' = IF state = "length" /\ length = 0 /\ \A t \in Thread : Rest(t) = 0
                 THEN "no" ELSE "reconnect"
    /\ UNCHANGED <<reading, composer>>

Feed(t) ==
    \/ ReadLength(t) \/ ReadPartOfLength(t) \/ CutLength(t)
    \/ ReadPartOfData(t) \/ ReadData(t)

Listen(t) == Feed(t) \/ \E k \in 1..Len(wire) : Read(t, k)

Next ==
    \/ \E m \in Message : ServerSends(m)
    \/ \E t \in Thread : Listen(t)
    \/ Reconnect

Spec == Init /\ [][Next]_vars /\ \A t \in Thread : WF_vars(Listen(t))

-----------------------------------------------------------------------------
(* The Composer holds length bytes of a message, read or still to come.    *)
TypeOK ==
    /\ wire \in Seq(Byte) /\ listening \subseteq 1..connects
    /\ piece \in [Thread -> Seq(Byte)]
    /\ offset \in [Thread -> Nat] /\ \A t \in Thread : offset[t] <= Len(piece[t])
    /\ state \in {"length", "data"}
    /\ length \in Nat /\ left \in 0..length
    /\ buf \in Seq(Byte) /\ Len(buf) + left = IF state = "data" THEN length ELSE 0
    /\ sent \in Seq(Message) /\ received \in Seq(Seq(Byte))
    /\ broken \in Reason /\ connects \in Thread

(* What the Composer holds of a message.                                   *)
Held ==
    IF state = "data" THEN Header(length) \o buf
    ELSE Mark(Digits(length), 1..Len(Digits(length)))

Stream(messages) ==
    LET stream[n \in 0..Len(messages)] ==
            IF n = 0 THEN <<>> ELSE stream[n - 1] \o Compose(messages[n])
    IN  stream[Len(messages)]

(* Until the stream breaks no byte is lost, repeated or out of place: what *)
(* the server composed is what onMessage was given, the part of a message  *)
(* the Composer holds, what a thread has yet to feed, and the wire.  And a *)
(* length of one byte cannot be cut: a stream of messages shorter than the *)
(* base is broken only by a handler, a new connection or its listener.     *)
NoByteLost ==
    /\ broken = "no" =>
         /\ Cardinality({t \in Thread : Rest(t) > 0}) <= 1
         /\ \E t \in Thread : Stream(sent) = Stream(received) \o Held \o Unused(t) \o wire
    /\ broken = "cut" => \E i \in 1..Len(sent) : Len(sent[i]) >= Base

(* The listener and the Composer together are the link the client counts   *)
(* on: every message in order and once, and each of them in the end, while *)
(* the stream is whole.                                                    *)
L == INSTANCE Link WITH broken <- broken # "no"
IsLink == L!Spec

-----------------------------------------------------------------------------
(* What keeps the stream whole, as an invariant every step carries: one    *)
(* thread and the wire hold what the server composed from some place on.   *)
(* That place lies behind the messages received, and the Composer holds    *)
(* what is between: nothing, part of the header of the next message and    *)
(* the value of its digits, or its header and part of its bytes.           *)
Ahead(t) == Unused(t) \o wire

Follows(bytes, stream, place) ==
    /\ place + Len(bytes) = Len(stream)
    /\ \A i \in 1..Len(bytes) : bytes[i] = stream[place + i]

Coming == sent[Len(received) + 1]

HoldsNothing(place) ==
    /\ Len(received) = Len(sent) /\ state = "length" /\ length = 0
    /\ place = Len(Stream(received))

HoldsLength(place) ==
    /\ Len(received) < Len(sent) /\ state = "length"
    /\ \E j \in 0 .. Len(Header(Len(Coming))) - 1 :
         /\ place = Len(Stream(received)) + j
         /\ length = Value(0, SubSeq(Header(Len(Coming)), 1, j))

HoldsData(place) ==
    /\ Len(received) < Len(sent) /\ state = "data"
    /\ length = Len(Coming) /\ left > 0
    /\ \A i \in 1..Len(buf) : buf[i] = Coming[i]
    /\ place = Len(Stream(received)) + Len(Header(length)) + Len(buf)

Whole(t) ==
    /\ \A u \in Thread \ {t} : Rest(u) = 0
    /\ \E place \in 0..Len(Stream(sent)) :
         /\ Follows(Ahead(t), Stream(sent), place)
         /\ HoldsNothing(place) \/ HoldsLength(place) \/ HoldsData(place)

ReceivedFirst ==
    /\ Len(received) <= Len(sent)
    /\ \A i \in 1..Len(received) : received[i] = sent[i]

StreamIsWhole == broken = "no" => ReceivedFirst /\ \E t \in Thread : Whole(t)

CutIsLong == broken = "cut" => \E i \in 1..Len(sent) : Len(sent[i]) >= Base

IInv == TypeOK /\ StreamIsWhole /\ CutIsLong
=============================================================================
