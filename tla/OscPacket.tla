----------------------------- MODULE OscPacket -----------------------------
(***************************************************************************)
(* The reading side of oscpack (oscpack/osc/OscReceivedElements.cpp): what  *)
(* ReceivedPacket, ReceivedMessage, ReceivedBundle and their iterators find *)
(* in the first bytes of a buffer.  The result is the list of the           *)
(* operations that write the same packet, or ends in Malformed where the    *)
(* code throws.                                                             *)
(***************************************************************************)
EXTENDS OscStream, SequencesExt

Malformed == <<"malformed">>

(* FindStr4End: the first multiple of four behind the string at p, or -1 if *)
(* it is not terminated before the end.  A first byte of zero is a string   *)
(* of four bytes (the integer addresses of SuperCollider).                  *)
FindStr4End(b, p, end) ==
  IF p >= end THEN -1
  ELSE IF b[p] = 0 THEN p + 4
  ELSE LET ends == {q \in (p + 3)..(end - 1) : (q - p) % 4 = 3 /\ b[q] = 0}
       IN IF ends = {} THEN -1 ELSE Min(ends) + 1

(* ToInt32, ToUInt32 (of numbers that fit an integer of the model), ToInt64 *)
ToInt32(b, p) ==
  LET top == IF b[p] > 127 THEN b[p] - 256 ELSE b[p]
  IN top * 256^3 + b[p + 1] * 256^2 + b[p + 2] * 256 + b[p + 3]
ToInt64(b, p) == ToInt32(b, p + 4)

(* The characters of the string at p. *)
ToText(b, p) ==
  LET end == Min({q \in DOMAIN b : q >= p /\ b[q] = 0})
  IN [i \in 1..(end - p) |-> b[p + i - 1]]

(* AsInt32 and the other accessors: what the argument with this tag holds.  *)
ArgumentValue(b, tag, p) ==
  CASE tag \in ZeroLengthTags -> 0
    [] tag \in WordTags -> ToInt32(b, p)
    [] tag \in LongTags -> ToInt64(b, p)
    [] tag \in TextTags -> ToText(b, p)
    [] tag = BLOB_TYPE_TAG ->
         [i \in 1..ToInt32(b, p) |-> b[p + 3 + i]]

(* Mutant: the iterator forgets the padding of a blob. *)
AdvanceUnpadded(b, tag, p) ==
  CASE tag \in ZeroLengthTags -> p
    [] tag \in WordTags -> p + 4
    [] tag \in LongTags -> p + 8
    [] tag \in TextTags -> FindStr4End(b, p, Capacity)
    [] tag = BLOB_TYPE_TAG -> p + 4 + ToInt32(b, p)

(* ReceivedMessageArgumentIterator::Advance. *)
Advance(b, tag, p) ==
  CASE tag \in ZeroLengthTags -> p
    [] tag \in WordTags -> p + 4
    [] tag \in LongTags -> p + 8
    [] tag \in TextTags -> FindStr4End(b, p, Capacity)
    [] tag = BLOB_TYPE_TAG -> p + 4 + RoundUp4(ToInt32(b, p))

(* The test of ReceivedMessage::Init on one argument.  (That a blob exceeds *)
(* the message is noticed, but not thrown.)                                 *)
WellFormed(b, tag, p, end) ==
  CASE tag \in ZeroLengthTags -> TRUE
    [] tag \in WordTags -> p + 4 <= end
    [] tag \in LongTags -> p + 8 <= end
    [] tag \in TextTags -> FindStr4End(b, p, end) # -1
    [] tag = BLOB_TYPE_TAG -> TRUE
    [] OTHER -> FALSE

(* The arguments from the type tag at t and the byte at p on. *)
RECURSIVE ReadArguments(_, _, _, _)
ReadArguments(b, t, p, end) ==
  IF b[t] = 0 THEN <<>>
  ELSE IF ~WellFormed(b, b[t], p, end) THEN <<Malformed>>
  ELSE <<<<"argument", b[t], ArgumentValue(b, b[t], p)>>>>
         \o ReadArguments(b, t + 1, Advance(b, b[t], p), end)

(* ReceivedMessage::Init, then the arguments from ArgumentsBegin to         *)
(* ArgumentsEnd.                                                            *)
ReadMessage(b, from, size) ==
  LET end == from + size
      tags == FindStr4End(b, from, end)
      arguments == FindStr4End(b, tags, end)
  IN IF size = 0 \/ size % 4 # 0 \/ tags = -1 THEN <<Malformed>>
     ELSE <<<<"message", ToText(b, from)>>>>
            \o (IF tags = end THEN <<>>
                ELSE IF b[tags] # COMMA THEN <<Malformed>>
                ELSE IF b[tags + 1] = 0 THEN <<>>
                ELSE IF arguments = -1 THEN <<Malformed>>
                ELSE ReadArguments(b, tags + 1, arguments, end))
            \o <<<<"end">>>>

IsBundle(b, from, size) == size > 0 /\ b[from] = HashBundle[1]

(* ReceivedBundle::Init, and the walk from ElementsBegin to ElementsEnd.    *)
RECURSIVE ReadElement(_, _, _), ReadElements(_, _, _)
ReadElement(b, from, size) ==
  IF ~IsBundle(b, from, size) THEN ReadMessage(b, from, size)
  ELSE IF size < 16 \/ size % 4 # 0
          \/ \E i \in 1..8 : b[from + i - 1] # HashBundle[i]
       THEN <<Malformed>>
  ELSE <<<<"bundle", ToInt64(b, from + 8)>>>>
         \o ReadElements(b, from + 16, from + size) \o <<<<"end">>>>

ReadElements(b, p, end) ==
  IF p = end THEN <<>>
  ELSE LET size == ToInt32(b, p)
       IN IF size % 4 # 0 \/ p + 4 + size > end THEN <<Malformed>>
          ELSE ReadElement(b, p + 4, size) \o ReadElements(b, p + 4 + size, end)

ReadPacket(s) == ReadElement(s.buffer, 0, StreamSize(s))

-----------------------------------------------------------------------------
(* Reading a finished packet gives back what was written into it: every     *)
(* address, tag and argument in its place and order, however the tags were  *)
(* collected backwards, the arguments moved up behind them, and the size    *)
(* slots of the bundles used for their links while they were open.          *)
ReadsBack ==
  IsReady(out) /\ written # <<>> /\ ~Contains(written, Misuse)
    => ReadPacket(out) = written

=============================================================================
