----------------------------- MODULE OscStream -----------------------------
(***************************************************************************)
(* OutboundPacketStream (oscpack/osc/OscOutboundPacketStream.cpp): a packet *)
(* is written into one buffer of fixed size.  The arguments of a message    *)
(* grow from the message's cursor upwards and its type tags from the end of *)
(* the buffer downwards; when the message is closed the arguments are moved *)
(* up and the tags copied before them.  Elements of a bundle have a slot    *)
(* for their size, which holds the place of the enclosing slot until the    *)
(* element is closed.                                                       *)
(*                                                                         *)
(* Pointers into the buffer are offsets from data_.  An address pattern, a  *)
(* text or a blob is a sequence of bytes; a number is an integer that fits  *)
(* 32 bits (a float stands for its bit pattern; OscTypes.h takes a long for *)
(* it where long has 32 bits).                                              *)
(***************************************************************************)
EXTENDS Integers, Sequences

CONSTANTS
  Capacity,      \* size of the buffer
  Junk,          \* what its bytes may hold before anything is written
  Address,       \* address patterns, texts and blobs the callers write
  Text,
  Blob,
  Number,        \* the numbers they write
  Tag,           \* the type tags they use
  MaxWritten     \* bound on the number of accepted operations

Byte == 0..255

ASSUME StreamAssumption ==
  /\ Capacity \in Nat
  /\ Junk \subseteq Byte
  /\ Address \subseteq Seq(Byte) /\ Text \subseteq Seq(Byte)
  /\ Blob \subseteq Seq(Byte)
  /\ Number \subseteq Int
  /\ Tag \subseteq Byte
  /\ MaxWritten \in Nat

VARIABLES
  out,      \* the stream object
  written,  \* ghost: the accepted operations since the last Clear, with Misuse
            \* in the place of one that begins a second element after the
            \* outermost one or that writes an argument outside of a message
  spent     \* ghost: the number of accepted operations

vars == <<out, written, spent>>

(* OscTypes.h: the type tags, by the length of their argument.              *)
ZeroLengthTags == {84, 70, 78, 73, 42, 91, 93, 123, 125}  \* T F N I * [ ] { }
WordTags == {105, 102, 99, 114, 109}                      \* i f c r m
LongTags == {104, 116, 100}                               \* h t d
TextTags == {115, 83}                                     \* s S
BLOB_TYPE_TAG == 98
COMMA == 44
HashBundle == <<35, 98, 117, 110, 100, 108, 101, 0>>      \* "#bundle\0"

NoElement == -1       \* elementSizePtr_ == 0
Misuse == <<"misuse">>

-----------------------------------------------------------------------------
(* Bytes *)

(* Mutant: the length is not rounded. *)
RoundUp4Not(x) == x

RoundUp4(x) == 4 * ((x + 3) \div 4)

(* FromInt32, FromUInt32: the most significant byte first. *)
FromInt32(x) == [i \in 1..4 |-> (x \div 256^(4 - i)) % 256]

(* FromInt64, FromUInt64 of a number that fits 32 bits: the upper word is its *)
(* sign.                                                                    *)
FromInt64(x) == [i \in 1..4 |-> IF x < 0 THEN 255 ELSE 0] \o FromInt32(x)

Zeros(n) == [i \in 1..n |-> 0]

(* A string with its terminator, padded to a multiple of four bytes. *)
Padded(t) == t \o Zeros(RoundUp4(Len(t) + 1) - Len(t))

Store(b, at, bytes) ==
  [i \in DOMAIN b |->
    IF at <= i /\ i < at + Len(bytes) THEN bytes[i - at + 1] ELSE b[i]]

(* memmove *)
Move(b, to, from, n) ==
  [i \in DOMAIN b |-> IF to <= i /\ i < to + n THEN b[i - to + from] ELSE b[i]]

-----------------------------------------------------------------------------
(* Size, and the space that is checked for *)

TagCount(s) == Capacity - s.typeTagsCurrent

(* Mutant: the comma of the type tags is forgotten. *)
StreamSizeNoComma(s) ==
  s.argumentCurrent
    + IF s.messageIsInProgress THEN RoundUp4(TagCount(s) + 1) ELSE 0

StreamSize(s) ==
  s.argumentCurrent
    + IF s.messageIsInProgress THEN RoundUp4(TagCount(s) + 2) ELSE 0

SlotSize(s) == IF s.elementSizePtr # NoElement THEN 4 ELSE 0

BundleFits(s) == StreamSize(s) + SlotSize(s) + 16 <= Capacity

MessageFits(s, address) ==
  StreamSize(s) + SlotSize(s) + RoundUp4(Len(address) + 1) + 4 <= Capacity

(* Mutant: the tags in the buffer are counted without the new one. *)
ArgumentFitsOld(s, length) ==
  s.argumentCurrent + length + RoundUp4(TagCount(s) + 2) <= Capacity

ArgumentFits(s, length) ==
  s.argumentCurrent + length + RoundUp4(TagCount(s) + 3) <= Capacity

-----------------------------------------------------------------------------
(* Elements *)

(* In the slot of an open element: the offset of the enclosing slot, in the *)
(* byte order of the host (little endian).                                  *)
SlotOffset(b, at) ==
  b[at] + 256 * (b[at + 1] + 256 * (b[at + 2] + 256 * b[at + 3]))
HostOffset(x) ==
  LET high == x \div 256
      higher == high \div 256
  IN <<x % 256, high % 256, higher % 256, (higher \div 256) % 256>>

BeginElement(s) ==
  IF s.elementSizePtr = NoElement
  THEN [s EXCEPT !.elementSizePtr = 0]
  ELSE [s EXCEPT !.buffer = Store(@, s.messageCursor, HostOffset(s.elementSizePtr)),
                 !.elementSizePtr = s.messageCursor,
                 !.messageCursor = @ + 4]

EndElement(s) ==
  IF s.elementSizePtr = 0
  THEN [s EXCEPT !.elementSizePtr = NoElement]
  ELSE [s EXCEPT !.elementSizePtr = SlotOffset(s.buffer, @),
                 !.buffer = Store(@, s.elementSizePtr,
                                  FromInt32(s.messageCursor - s.elementSizePtr - 4))]

OpenBundle(s, timeTag) ==
  LET e == BeginElement(s)
  IN [e EXCEPT !.buffer = Store(@, e.messageCursor, HashBundle \o FromInt64(timeTag)),
               !.messageCursor = @ + 16,
               !.argumentCurrent = e.messageCursor + 16]

OpenMessage(s, address) ==
  LET e == BeginElement(s)
      end == e.messageCursor + RoundUp4(Len(address) + 1)
  IN [e EXCEPT !.buffer = Store(@, e.messageCursor, Padded(address)),
               !.messageCursor = end,
               !.argumentCurrent = end,
               !.typeTagsCurrent = Capacity,
               !.messageIsInProgress = TRUE]

(* The tags lie at the end of the buffer, the last one first. *)
TypeTags(s) == [i \in 1..TagCount(s) |-> s.buffer[Capacity - i]]

CloseMessage(s) ==
  LET n == TagCount(s)
      slot == RoundUp4(n + 2)    \* with the comma and the terminator
      size == s.argumentCurrent - s.messageCursor
      end == s.messageCursor + slot + size
      tags == <<COMMA>> \o TypeTags(s) \o Zeros(slot - n - 1)
  IN EndElement([s EXCEPT
       !.buffer = Store(Move(@, s.messageCursor + slot, s.messageCursor, size),
                        s.messageCursor, tags),
       !.typeTagsCurrent = Capacity,
       !.messageCursor = end,
       !.argumentCurrent = end,
       !.messageIsInProgress = FALSE])

(* An argument: its tag, and its bytes behind those of the others. *)
PutArgument(s, tag, bytes) ==
  [s EXCEPT !.buffer = Store(Store(@, s.typeTagsCurrent - 1, <<tag>>),
                             s.argumentCurrent, bytes),
            !.typeTagsCurrent = @ - 1,
            !.argumentCurrent = @ + Len(bytes)]

-----------------------------------------------------------------------------
(* Operations *)

EmptyStream(b) ==
  [buffer |-> b, typeTagsCurrent |-> Capacity, messageCursor |-> 0,
   argumentCurrent |-> 0, elementSizePtr |-> NoElement,
   messageIsInProgress |-> FALSE]

Init ==
  /\ \E j \in Junk : out = EmptyStream([i \in 0..(Capacity - 1) |-> j])
  /\ written = <<>>
  /\ spent = 0

(* An exception is thrown before anything has changed. *)
Throw == UNCHANGED vars

IsBundleInProgress(s) == s.elementSizePtr # NoElement
IsReady(s) == ~s.messageIsInProgress /\ ~IsBundleInProgress(s)

(* What the caller has written so far, and whether it is still one element. *)
Record(event, allowed) ==
  /\ spent < MaxWritten
  /\ spent' = spent + 1
  /\ written' = Append(written, IF allowed THEN event ELSE Misuse)

BundleInitiator(timeTag) ==
  \/ out.messageIsInProgress /\ Throw   \* MessageInProgress
  \/ /\ ~out.messageIsInProgress /\ ~BundleFits(out)
     /\ Throw   \* OutOfBufferMemory
  \/ /\ ~out.messageIsInProgress /\ BundleFits(out)
     /\ out' = OpenBundle(out, timeTag)
     /\ Record(<<"bundle", timeTag>>, IsBundleInProgress(out) \/ written = <<>>)

BundleTerminator ==
  \/ ~IsBundleInProgress(out) /\ Throw   \* BundleNotInProgress
  \/ /\ IsBundleInProgress(out) /\ out.messageIsInProgress
     /\ Throw   \* MessageInProgress
  \/ /\ IsBundleInProgress(out) /\ ~out.messageIsInProgress
     /\ out' = EndElement(out)
     /\ Record(<<"end">>, TRUE)

BeginMessage(address) ==
  \/ out.messageIsInProgress /\ Throw   \* MessageInProgress
  \/ /\ ~out.messageIsInProgress /\ ~MessageFits(out, address)
     /\ Throw   \* OutOfBufferMemory
  \/ /\ ~out.messageIsInProgress /\ MessageFits(out, address)
     /\ out' = OpenMessage(out, address)
     /\ Record(<<"message", address>>, IsBundleInProgress(out) \/ written = <<>>)

MessageTerminator ==
  \/ ~out.messageIsInProgress /\ Throw   \* MessageNotInProgress
  \/ /\ out.messageIsInProgress
     /\ out' = CloseMessage(out)
     /\ Record(<<"end">>, TRUE)

(* Each operator<< of an argument: nothing asks whether a message is open.  *)
Argument(tag, bytes, content) ==
  \/ ~ArgumentFits(out, Len(bytes)) /\ Throw   \* OutOfBufferMemory
  \/ /\ ArgumentFits(out, Len(bytes))
     /\ out' = PutArgument(out, tag, bytes)
     /\ Record(<<"argument", tag, content>>, out.messageIsInProgress)

PutFlag(tag) == tag \in ZeroLengthTags /\ Argument(tag, <<>>, 0)
PutWord(tag, x) == tag \in WordTags /\ Argument(tag, FromInt32(x), x)
PutLong(tag, x) == tag \in LongTags /\ Argument(tag, FromInt64(x), x)
PutText(tag, t) == tag \in TextTags /\ Argument(tag, Padded(t), t)
PutBlob(tag, d) ==
  /\ tag = BLOB_TYPE_TAG
  /\ Argument(tag, FromInt32(Len(d)) \o d \o Zeros(RoundUp4(Len(d)) - Len(d)), d)

Clear ==
  /\ written # <<>> /\ spent < MaxWritten
  /\ out' = EmptyStream(out.buffer)
  /\ written' = <<>>
  /\ UNCHANGED spent

Next ==
  \/ \E x \in Number : BundleInitiator(x)
  \/ BundleTerminator
  \/ \E a \in Address : BeginMessage(a)
  \/ MessageTerminator
  \/ \E tag \in Tag :
       \/ PutFlag(tag)
       \/ \E x \in Number : PutWord(tag, x) \/ PutLong(tag, x)
       \/ \E t \in Text : PutText(tag, t)
       \/ \E d \in Blob : PutBlob(tag, d)
  \/ Clear


Spec == Init /\ [][Next]_vars

-----------------------------------------------------------------------------
(* Properties *)

(* The type tags that grow downwards and the arguments that grow upwards    *)
(* never meet: there is always room for the tags, with their comma, their   *)
(* terminator and their padding, behind the arguments, so that closing the  *)
(* message (OscOutboundPacketStream.cpp:359) stays inside of the buffer.    *)
NeverOverlaps ==
  /\ out.messageCursor <= out.argumentCurrent
  /\ StreamSize(out) <= Capacity

(* Every place where an element, an argument or a size slot begins is a     *)
(* multiple of four, whatever the lengths of the texts and blobs: readers    *)
(* refuse a packet that is not (OscReceivedElements.cpp:552).               *)
CursorsAligned ==
  /\ out.messageCursor % 4 = 0
  /\ out.argumentCurrent % 4 = 0

Aligned ==
  /\ CursorsAligned
  /\ out.elementSizePtr # NoElement => out.elementSizePtr % 4 = 0

(* What Size() says while a message is open is the size the packet has when *)
(* the message is closed ("size() is valid even while building a message",  *)
(* OscOutboundPacketStream.h:75).                                           *)
SizeIsFinal ==
  [][out.messageIsInProgress /\ ~out'.messageIsInProgress /\ written' # <<>>
       => StreamSize(out') = StreamSize(out)]_vars

=============================================================================
