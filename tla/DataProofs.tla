----------------------------- MODULE DataProofs ----------------------------
(***************************************************************************)
(* Proofs about the data that the library keeps and sends: the buffer of an *)
(* outgoing packet (OscStream), the hash table (THash), the midi message    *)
(* (MidiMessage) and the tables of mappings (MapTables).                    *)
(***************************************************************************)
EXTENDS OscStream, THash, MidiMessage, MapTables, FiniteSetTheorems, SequenceTheorems,
        WellFoundedInduction, TLAPS

-----------------------------------------------------------------------------
(***************************************************************************)
(* OscStream, for buffers of every size and for every text, blob and number: *)
(* the cursors stay inside of the buffer and the type tags never meet the   *)
(* arguments (NeverOverlaps), every element and argument begins at a        *)
(* multiple of four (CursorsAligned), and Size() is final while a message   *)
(* is open (SizeIsFinal).  None of this depends on the bytes in the buffer, *)
(* so the invariant speaks of the cursors only.  That the open elements     *)
(* begin at multiples of four too (Aligned) does: their places are kept in  *)
(* the buffer, in a chain of slots that nothing must write over.            *)
(***************************************************************************)

(* The fields of a stream, and the types of its cursors. *)
Cursors(s) ==
  /\ DOMAIN s = {"buffer", "typeTagsCurrent", "messageCursor", "argumentCurrent",
                 "elementSizePtr", "messageIsInProgress"}
  /\ s.typeTagsCurrent \in Nat
  /\ s.messageCursor \in Nat
  /\ s.argumentCurrent \in Nat
  /\ s.messageIsInProgress \in BOOLEAN

(* The invariant of a stream: the room behind the arguments holds the type  *)
(* tags that were counted, and those of a message closed now.               *)
Sound(s) ==
  /\ Cursors(s)
  /\ s.typeTagsCurrent <= Capacity
  /\ s.messageCursor <= s.argumentCurrent
  /\ StreamSize(s) <= Capacity
  /\ s.messageCursor % 4 = 0
  /\ s.argumentCurrent % 4 = 0

StreamInv == Sound(out)

-----------------------------------------------------------------------------
(* Lengths *)

(* Rounding up reaches the next multiple of four. *)
LEMMA RoundUpFacts ==
  ASSUME NEW x \in Nat
  PROVE  /\ RoundUp4(x) \in Nat
         /\ x <= RoundUp4(x)
         /\ RoundUp4(x) % 4 = 0
BY DEF RoundUp4

LEMMA ZerosLength ==
  ASSUME NEW n \in Nat
  PROVE  Zeros(n) \in Seq(Int) /\ Len(Zeros(n)) = n
BY DEF Zeros

LEMMA WordLength ==
  ASSUME NEW x \in Int
  PROVE  FromInt32(x) \in Seq(Int) /\ Len(FromInt32(x)) = 4
BY DEF FromInt32

LEMMA ConcatLength ==
  ASSUME NEW a \in Seq(Int), NEW b \in Seq(Int)
  PROVE  /\ a \o b \in Seq(Int)
         /\ Len(a \o b) = Len(a) + Len(b)
         /\ Len(a) \in Nat /\ Len(b) \in Nat
OBVIOUS

LEMMA BytesAreInts ==
  ASSUME NEW t \in Seq(Byte)
  PROVE  t \in Seq(Int) /\ Len(t) \in Nat
<1>1. Len(t) \in Nat /\ t \in [1..Len(t) -> Byte]
  OBVIOUS
<1>2. ASSUME NEW i \in 1..Len(t) PROVE t[i] \in Int
  <2>1. t[i] \in Byte
    BY <1>1
  <2>2. \A v \in Byte : v \in Int
    BY DEF Byte
  <2> QED BY <2>1, <2>2
<1>3. t = [i \in 1..Len(t) |-> t[i]]
  BY <1>1
<1> QED BY <1>1, <1>2, <1>3

LEMMA AddAligned ==
  ASSUME NEW x \in Int, NEW y \in Int, x % 4 = 0, y % 4 = 0
  PROVE  (x + y) % 4 = 0
OBVIOUS

LEMMA LongLength ==
  ASSUME NEW x \in Int
  PROVE  FromInt64(x) \in Seq(Int) /\ Len(FromInt64(x)) = 8
<1> DEFINE sign == [i \in 1..4 |-> IF x < 0 THEN 255 ELSE 0]
<1>1. sign \in Seq(Int) /\ Len(sign) = 4
  OBVIOUS
<1>2. FromInt64(x) = sign \o FromInt32(x)
  BY DEF FromInt64
<1> HIDE DEF sign
<1>3. FromInt32(x) \in Seq(Int) /\ Len(FromInt32(x)) = 4
  BY WordLength
<1>4. /\ sign \o FromInt32(x) \in Seq(Int)
      /\ Len(sign \o FromInt32(x)) = Len(sign) + Len(FromInt32(x))
  BY <1>1, <1>3, ConcatLength
<1> QED BY <1>1, <1>2, <1>3, <1>4

(* A text of n bytes takes the multiple of four above n.                    *)
LEMMA PaddedLength ==
  ASSUME NEW t \in Seq(Byte)
  PROVE  /\ Padded(t) \in Seq(Int)
         /\ Len(Padded(t)) = RoundUp4(Len(t) + 1)
         /\ Len(Padded(t)) \in Nat
         /\ Len(Padded(t)) % 4 = 0
<1> DEFINE top == RoundUp4(Len(t) + 1)
<1>1. t \in Seq(Int) /\ Len(t) \in Nat /\ Len(t) + 1 \in Nat
  BY BytesAreInts
<1>2. top \in Nat /\ Len(t) + 1 <= top /\ top % 4 = 0
  BY <1>1, RoundUpFacts
<1>3. Padded(t) = t \o Zeros(top - Len(t))
  BY DEF Padded
<1> HIDE DEF top
<1>4. top - Len(t) \in Nat
  BY <1>1, <1>2
<1>5. Zeros(top - Len(t)) \in Seq(Int) /\ Len(Zeros(top - Len(t))) = top - Len(t)
  BY <1>4, ZerosLength
<1>6. Padded(t) \in Seq(Int) /\ Len(Padded(t)) = Len(t) + (top - Len(t))
  BY <1>1, <1>3, <1>5, ConcatLength
<1>7. Len(Padded(t)) = top
  BY <1>1, <1>2, <1>6
<1> QED BY <1>2, <1>6, <1>7 DEF top

LEMMA BlobLength ==
  ASSUME NEW d \in Seq(Byte)
  PROVE  LET bytes == FromInt32(Len(d)) \o d \o Zeros(RoundUp4(Len(d)) - Len(d))
         IN Len(bytes) \in Nat /\ Len(bytes) % 4 = 0
<1> DEFINE top == RoundUp4(Len(d))
           head == FromInt32(Len(d))
           zeros == Zeros(top - Len(d))
<1>1. d \in Seq(Int) /\ Len(d) \in Nat
  BY BytesAreInts
<1>2. top \in Nat /\ Len(d) <= top /\ top % 4 = 0
  BY <1>1, RoundUpFacts
<1>3. head \in Seq(Int) /\ Len(head) = 4
  BY <1>1, WordLength
<1>4. top - Len(d) \in Nat
  <2> HIDE DEF top
  <2> QED BY <1>1, <1>2
<1>5. zeros \in Seq(Int) /\ Len(zeros) = top - Len(d)
  BY <1>4, ZerosLength
<1> SUFFICES Len(head \o d \o zeros) \in Nat /\ Len(head \o d \o zeros) % 4 = 0
  OBVIOUS
<1> HIDE DEF top, head, zeros
<1>6. head \o d \in Seq(Int) /\ Len(head \o d) = 4 + Len(d)
  BY <1>1, <1>3, ConcatLength
<1>7. Len(head \o d \o zeros) = 4 + Len(d) + (top - Len(d))
  BY <1>5, <1>6, ConcatLength
<1>8. Len(head \o d \o zeros) = 4 + top
  BY <1>1, <1>2, <1>7
<1> QED BY <1>2, <1>8

-----------------------------------------------------------------------------
(* Elements *)

(* Opening an element takes a size slot, closing one moves no cursor.       *)
LEMMA BeginElementFacts ==
  ASSUME NEW s, Cursors(s)
  PROVE  /\ Cursors(BeginElement(s))
         /\ BeginElement(s).messageCursor = s.messageCursor + SlotSize(s)
         /\ BeginElement(s).argumentCurrent = s.argumentCurrent
         /\ BeginElement(s).typeTagsCurrent = s.typeTagsCurrent
         /\ BeginElement(s).messageIsInProgress = s.messageIsInProgress
<1>1. CASE s.elementSizePtr = NoElement
  BY <1>1 DEF Cursors, BeginElement, SlotSize
<1>2. CASE s.elementSizePtr # NoElement
  BY <1>2 DEF Cursors, BeginElement, SlotSize
<1> QED BY <1>1, <1>2

LEMMA EndElementFacts ==
  ASSUME NEW s, Cursors(s)
  PROVE  /\ Cursors(EndElement(s))
         /\ EndElement(s).messageCursor = s.messageCursor
         /\ EndElement(s).argumentCurrent = s.argumentCurrent
         /\ EndElement(s).typeTagsCurrent = s.typeTagsCurrent
         /\ EndElement(s).messageIsInProgress = s.messageIsInProgress
<1>1. CASE s.elementSizePtr = 0
  BY <1>1 DEF Cursors, EndElement
<1>2. CASE s.elementSizePtr # 0
  BY <1>2 DEF Cursors, EndElement
<1> QED BY <1>1, <1>2

LEMMA OpenBundleSound ==
  ASSUME NEW s, NEW x, Sound(s), ~s.messageIsInProgress, BundleFits(s)
  PROVE  Sound(OpenBundle(s, x))
<1> DEFINE e == BeginElement(s)
           b == OpenBundle(s, x)
<1>1. /\ Cursors(e) /\ e.messageCursor = s.messageCursor + SlotSize(s)
      /\ e.typeTagsCurrent = s.typeTagsCurrent
      /\ e.messageIsInProgress = FALSE
  BY BeginElementFacts DEF Sound, Cursors
<1>2. /\ Cursors(b) /\ b.messageCursor = e.messageCursor + 16
      /\ b.argumentCurrent = e.messageCursor + 16
      /\ b.typeTagsCurrent = s.typeTagsCurrent
      /\ b.messageIsInProgress = FALSE
  BY <1>1 DEF OpenBundle, Cursors
<1>3. SlotSize(s) \in {0, 4}
  BY DEF SlotSize
<1> HIDE DEF e, b
<1>4. StreamSize(s) = s.argumentCurrent /\ StreamSize(b) = b.argumentCurrent
  <2>1. ~b.messageIsInProgress /\ s.argumentCurrent \in Nat /\ b.argumentCurrent \in Nat
    BY <1>2 DEF Sound, Cursors
  <2> QED BY <2>1 DEF StreamSize
<1>5. /\ b.messageCursor = s.messageCursor + SlotSize(s) + 16
      /\ b.argumentCurrent = b.messageCursor
  BY <1>1, <1>2
<1>6. s.messageCursor % 4 = 0 /\ s.messageCursor <= s.argumentCurrent
  BY DEF Sound
<1>7. b.messageCursor % 4 = 0 /\ b.messageCursor <= Capacity
  BY <1>3, <1>4, <1>5, <1>6, StreamAssumption DEF BundleFits, Sound, Cursors
<1>8. Sound(b)
  BY <1>2, <1>4, <1>5, <1>7 DEF Sound, Cursors
<1> QED BY <1>8 DEF b

LEMMA OpenMessageSound ==
  ASSUME NEW s, NEW a \in Seq(Byte), Sound(s), ~s.messageIsInProgress,
         MessageFits(s, a)
  PROVE  Sound(OpenMessage(s, a))
<1> DEFINE e == BeginElement(s)
           m == OpenMessage(s, a)
           n == RoundUp4(Len(a) + 1)
<1>1. /\ Cursors(e) /\ e.messageCursor = s.messageCursor + SlotSize(s)
  BY BeginElementFacts DEF Sound, Cursors
<1>2. n \in Nat /\ n % 4 = 0
  <2>1. Len(a) + 1 \in Nat
    BY BytesAreInts
  <2> QED BY <2>1, RoundUpFacts
<1>3. /\ Cursors(m) /\ m.messageCursor = e.messageCursor + n
      /\ m.argumentCurrent = e.messageCursor + n
      /\ m.typeTagsCurrent = Capacity
      /\ m.messageIsInProgress = TRUE
  <2> HIDE DEF n
  <2> QED BY <1>1, <1>2, StreamAssumption DEF OpenMessage, Cursors, n
<1>4. SlotSize(s) \in {0, 4}
  BY DEF SlotSize
<1>5. StreamSize(s) = s.argumentCurrent
  BY DEF StreamSize, Sound, Cursors
<1>6. StreamSize(m) = m.argumentCurrent + 4
  BY <1>3, StreamAssumption DEF StreamSize, TagCount, RoundUp4
<1>7. s.argumentCurrent + SlotSize(s) + n + 4 <= Capacity
  <2> HIDE DEF n
  <2>1. StreamSize(s) + SlotSize(s) + n + 4 <= Capacity
    BY DEF MessageFits, n
  <2> QED BY <1>5, <2>1
<1> HIDE DEF e, m, n
<1>8. m.messageCursor = s.messageCursor + SlotSize(s) + n
  BY <1>1, <1>3
<1>9. m.messageCursor % 4 = 0 /\ m.messageCursor + 4 <= Capacity
  <2>1. /\ s.messageCursor \in Nat /\ s.messageCursor % 4 = 0
        /\ s.argumentCurrent \in Nat /\ s.messageCursor <= s.argumentCurrent
    BY DEF Sound, Cursors
  <2> DEFINE start == s.messageCursor + SlotSize(s)
  <2>2. start \in Int /\ start % 4 = 0
    BY <2>1, <1>4
  <2>3. start + n + 4 <= Capacity
    <3>1. SlotSize(s) \in Nat /\ Capacity \in Nat
      BY <1>4, StreamAssumption
    <3>2. start <= s.argumentCurrent + SlotSize(s)
      BY <2>1, <3>1
    <3> DEFINE room == s.argumentCurrent + SlotSize(s)
    <3>3. room \in Nat /\ start \in Nat
      BY <2>1, <3>1
    <3>4. room + n + 4 <= Capacity
      BY <1>7
    <3> HIDE DEF start, room
    <3> QED BY <1>2, <3>1, <3>2, <3>3, <3>4 DEF room
  <2>4. m.messageCursor = start + n
    BY <1>8
  <2> HIDE DEF start
  <2>5. (start + n) % 4 = 0
    BY <1>2, <2>2, AddAligned
  <2> QED BY <2>3, <2>4, <2>5
<1>10. Sound(m)
  BY <1>1, <1>3, <1>6, <1>9, StreamAssumption DEF Sound, Cursors
<1> QED BY <1>10 DEF m

(* Where a message ends when it is closed: just as far as its size said.    *)
LEMMA CloseMessageFacts ==
  ASSUME NEW s, Sound(s), s.messageIsInProgress
  PROVE  /\ Cursors(CloseMessage(s))
         /\ CloseMessage(s).typeTagsCurrent = Capacity
         /\ CloseMessage(s).messageCursor = StreamSize(s)
         /\ CloseMessage(s).argumentCurrent = StreamSize(s)
         /\ ~CloseMessage(s).messageIsInProgress
<1> DEFINE slot == RoundUp4(TagCount(s) + 2)
           end == s.messageCursor + slot + (s.argumentCurrent - s.messageCursor)
           tags == <<COMMA>> \o TypeTags(s) \o Zeros(slot - TagCount(s) - 1)
           size == s.argumentCurrent - s.messageCursor
           c == [s EXCEPT
                  !.buffer = Store(Move(@, s.messageCursor + slot, s.messageCursor, size),
                                   s.messageCursor, tags),
                  !.typeTagsCurrent = Capacity,
                  !.messageCursor = end,
                  !.argumentCurrent = end,
                  !.messageIsInProgress = FALSE]
<1>1. TagCount(s) \in Nat
  BY StreamAssumption DEF TagCount, Sound, Cursors
<1>2. slot \in Nat
  BY <1>1, RoundUpFacts
<1>3. end \in Nat /\ end = StreamSize(s)
  <2> HIDE DEF slot
  <2> QED BY <1>2 DEF StreamSize, Sound, Cursors, slot
<1>4. /\ Cursors(c) /\ c.typeTagsCurrent = Capacity
      /\ c.messageCursor = end /\ c.argumentCurrent = end
      /\ c.messageIsInProgress = FALSE
  <2> HIDE DEF end, tags, slot, size
  <2> QED BY <1>3, StreamAssumption DEF Sound, Cursors
<1>5. CloseMessage(s) = EndElement(c)
  BY DEF CloseMessage
<1> HIDE DEF c, end
<1> QED BY <1>3, <1>4, <1>5, EndElementFacts

LEMMA CloseMessageSound ==
  ASSUME NEW s, Sound(s), s.messageIsInProgress
  PROVE  Sound(CloseMessage(s))
<1> DEFINE c == CloseMessage(s)
<1>1. TagCount(s) \in Nat
  BY StreamAssumption DEF TagCount, Sound, Cursors
<1>2. /\ RoundUp4(TagCount(s) + 2) \in Nat
      /\ RoundUp4(TagCount(s) + 2) % 4 = 0
  BY <1>1, RoundUpFacts
<1>3. StreamSize(s) \in Nat /\ StreamSize(s) % 4 = 0 /\ StreamSize(s) <= Capacity
  BY <1>2 DEF StreamSize, Sound, Cursors
<1>4. /\ Cursors(c) /\ c.typeTagsCurrent = Capacity
      /\ c.messageCursor = StreamSize(s) /\ c.argumentCurrent = StreamSize(s)
      /\ ~c.messageIsInProgress
  BY CloseMessageFacts
<1> HIDE DEF c
<1>5. StreamSize(c) = c.argumentCurrent
  BY <1>3, <1>4 DEF StreamSize
<1>6. Sound(c)
  BY <1>3, <1>4, <1>5, StreamAssumption DEF Sound, Cursors
<1> QED BY <1>6 DEF c

LEMMA RoomForTags ==
  ASSUME NEW n \in Nat, NEW room \in Nat, NEW used \in Nat, NEW more \in Nat,
         NEW tags \in Nat, NEW all \in Nat,
         n + 3 <= room, used + more + room <= all, n = all - tags
  PROVE  tags - 1 \in Nat
OBVIOUS

(* An argument leaves room for its own type tag and all the earlier ones.   *)
LEMMA PutArgumentSound ==
  ASSUME NEW s, NEW tag, NEW bytes, Sound(s),
         Len(bytes) \in Nat, Len(bytes) % 4 = 0, ArgumentFits(s, Len(bytes))
  PROVE  Sound(PutArgument(s, tag, bytes))
<1> DEFINE p == PutArgument(s, tag, bytes)
           n == TagCount(s)
<1>1. n \in Nat
  BY StreamAssumption DEF TagCount, Sound, Cursors
<1>2. RoundUp4(n + 3) \in Nat /\ n + 3 <= RoundUp4(n + 3)
  <2>1. n + 3 \in Nat
    BY <1>1
  <2> QED BY <2>1, RoundUpFacts
<1>3. s.argumentCurrent + Len(bytes) + RoundUp4(n + 3) <= Capacity
  BY DEF ArgumentFits
<1>4. s.typeTagsCurrent - 1 \in Nat
  <2>1. /\ s.typeTagsCurrent \in Nat /\ s.argumentCurrent \in Nat /\ Capacity \in Nat
        /\ n = Capacity - s.typeTagsCurrent
    BY StreamAssumption DEF TagCount, Sound, Cursors
  <2>. HIDE DEF n, p
  <2>. QED BY <2>1, <1>1, <1>2, <1>3, RoomForTags
<1>5. /\ Cursors(p)
      /\ p.typeTagsCurrent = s.typeTagsCurrent - 1
      /\ p.messageCursor = s.messageCursor
      /\ p.argumentCurrent = s.argumentCurrent + Len(bytes)
      /\ p.messageIsInProgress = s.messageIsInProgress
  BY <1>4 DEF PutArgument, Sound, Cursors
<1>6. TagCount(p) = n + 1
  BY <1>5, StreamAssumption DEF TagCount, Sound, Cursors
<1>7. TagCount(p) + 2 = n + 3
  BY <1>1, <1>6
<1>8. StreamSize(p) <= s.argumentCurrent + Len(bytes) + RoundUp4(n + 3)
  <2>1. CASE s.messageIsInProgress
    BY <2>1, <1>2, <1>5, <1>7 DEF StreamSize, Sound, Cursors
  <2>2. CASE ~s.messageIsInProgress
    <3> HIDE DEF n, p
    <3>1. ~p.messageIsInProgress /\ p.argumentCurrent \in Nat
      BY <2>2, <1>5 DEF Cursors
    <3>2. StreamSize(p) = p.argumentCurrent
      BY <3>1 DEF StreamSize
    <3> QED BY <3>1, <3>2, <1>2, <1>5
  <2> QED BY <2>1, <2>2
<1>9. StreamSize(p) <= Capacity
  <2>1. StreamSize(p) \in Int
    <3>1. CASE s.messageIsInProgress
      BY <3>1, <1>2, <1>5, <1>7 DEF StreamSize, Cursors
    <3>2. CASE ~s.messageIsInProgress
      BY <3>2, <1>5 DEF StreamSize, Cursors
    <3> QED BY <3>1, <3>2
  <2> HIDE DEF n, p
  <2> QED BY <2>1, <1>2, <1>3, <1>8, StreamAssumption DEF Sound, Cursors
<1> HIDE DEF p, n
<1>10. p.argumentCurrent % 4 = 0 /\ p.messageCursor % 4 = 0
  <2>1. s.argumentCurrent \in Nat /\ s.argumentCurrent % 4 = 0 /\ s.messageCursor % 4 = 0
    BY DEF Sound, Cursors
  <2> DEFINE here == s.argumentCurrent
             more == Len(bytes)
  <2>2. here \in Int /\ more \in Int /\ here % 4 = 0 /\ more % 4 = 0
    BY <2>1
  <2>3. p.argumentCurrent = here + more
    BY <1>5
  <2> HIDE DEF here, more
  <2>4. (here + more) % 4 = 0
    BY <2>2, AddAligned
  <2> QED BY <1>5, <2>1, <2>3, <2>4
<1>11. p.messageCursor <= p.argumentCurrent /\ p.typeTagsCurrent <= Capacity
  BY <1>5, StreamAssumption DEF Sound, Cursors
<1>12. Sound(p)
  BY <1>5, <1>9, <1>10, <1>11 DEF Sound
<1> QED BY <1>12 DEF p

-----------------------------------------------------------------------------
(* Slots *)

(* The slots of the open elements but the outermost one: each is aligned,   *)
(* lies before the message's cursor and holds the place of one before it.   *)
Chain(s, slots) ==
  /\ slots \subseteq Nat
  /\ \A at \in slots :
       /\ 0 < at /\ at % 4 = 0 /\ at + 4 <= s.messageCursor
       /\ at <= s.elementSizePtr
       /\ SlotOffset(s.buffer, at) \in slots \cup {0}
       /\ SlotOffset(s.buffer, at) < at
  /\ s.elementSizePtr \in slots \cup {0, NoElement}
  /\ s.elementSizePtr # NoElement => 0 < s.messageCursor
  /\ s.messageIsInProgress => s.elementSizePtr # NoElement

Chained(s) ==
  /\ DOMAIN s.buffer = 0..(Capacity - 1)
  /\ \E slots : Chain(s, slots)

(* The buffer c is b up to the place m. *)
SameBelow(b, c, m) ==
  /\ DOMAIN c = DOMAIN b
  /\ \A i \in DOMAIN b : i < m => c[i] = b[i]

LEMMA StoreAbove ==
  ASSUME NEW b, DOMAIN b = 0..(Capacity - 1), NEW m \in Nat,
         NEW at \in Nat, m <= at, NEW bytes
  PROVE  SameBelow(b, Store(b, at, bytes), m)
<1>1. DOMAIN b \subseteq Nat
  BY StreamAssumption
<1>2. ASSUME NEW i \in DOMAIN b, i < m
      PROVE  ~(at <= i)
  BY <1>1, <1>2
<1> QED
  BY <1>1, <1>2 DEF SameBelow, Store

LEMMA MoveAbove ==
  ASSUME NEW b, DOMAIN b = 0..(Capacity - 1), NEW m \in Nat,
         NEW to \in Nat, m <= to, NEW from, NEW n
  PROVE  SameBelow(b, Move(b, to, from, n), m)
<1>1. DOMAIN b \subseteq Nat
  BY StreamAssumption
<1>2. ASSUME NEW i \in DOMAIN b, i < m
      PROVE  ~(to <= i)
  BY <1>1, <1>2
<1> QED
  BY <1>1, <1>2 DEF SameBelow, Move

LEMMA SameBelowTwice ==
  ASSUME NEW b, NEW c, NEW d, NEW m, SameBelow(b, c, m), SameBelow(c, d, m)
  PROVE  SameBelow(b, d, m)
BY DEF SameBelow

(* A slot reads the same in a buffer that is the same up to its end.        *)
LEMMA SlotKept ==
  ASSUME NEW b, NEW c, DOMAIN b = 0..(Capacity - 1), NEW m \in Nat,
         m <= Capacity, SameBelow(b, c, m), NEW at \in Nat, at + 4 <= m
  PROVE  SlotOffset(c, at) = SlotOffset(b, at)
<1>1. /\ at \in DOMAIN b /\ at + 1 \in DOMAIN b
      /\ at + 2 \in DOMAIN b /\ at + 3 \in DOMAIN b
      /\ at < m /\ at + 1 < m /\ at + 2 < m /\ at + 3 < m
  BY StreamAssumption
<1> QED
  BY <1>1 DEF SlotOffset, SameBelow

(* What is written behind the message's cursor leaves the chain alone.      *)
LEMMA ChainKept ==
  ASSUME NEW s, NEW t, NEW slots, Chain(s, slots),
         DOMAIN s.buffer = 0..(Capacity - 1),
         s.messageCursor \in Nat, s.messageCursor <= Capacity,
         t.messageCursor \in Nat, s.messageCursor <= t.messageCursor,
         SameBelow(s.buffer, t.buffer, s.messageCursor),
         t.elementSizePtr = s.elementSizePtr,
         t.messageIsInProgress => s.elementSizePtr # NoElement
  PROVE  Chain(t, slots)
<1>1. ASSUME NEW at \in slots
      PROVE  /\ SlotOffset(t.buffer, at) = SlotOffset(s.buffer, at)
             /\ at + 4 <= t.messageCursor
  <2>1. at \in Nat /\ at + 4 <= s.messageCursor
    BY DEF Chain
  <2>2. SlotOffset(t.buffer, at) = SlotOffset(s.buffer, at)
    BY <2>1, SlotKept
  <2> QED
    BY <2>1, <2>2
<1>2. s.elementSizePtr # NoElement => 0 < t.messageCursor
  BY DEF Chain
<1> QED
  BY <1>1, <1>2 DEF Chain

(* The place of a slot survives its four bytes.                             *)
LEMMA OffsetKept ==
  ASSUME NEW b, DOMAIN b = 0..(Capacity - 1), NEW at \in Nat,
         at + 4 <= Capacity, NEW x \in Nat, x < 256 * (256 * (256 * 256))
  PROVE  SlotOffset(Store(b, at, HostOffset(x)), at) = x
<1> DEFINE high == x \div 256
           higher == high \div 256
           highest == higher \div 256
           c == Store(b, at, HostOffset(x))
<1>1. HostOffset(x) = <<x % 256, high % 256, higher % 256, highest % 256>>
  BY DEF HostOffset
<1>2. /\ at \in DOMAIN b /\ at + 1 \in DOMAIN b
      /\ at + 2 \in DOMAIN b /\ at + 3 \in DOMAIN b
  BY StreamAssumption
<1>3. Len(HostOffset(x)) = 4
  BY <1>1
<1>4. \A i \in DOMAIN b : at <= i /\ i < at + 4 => c[i] = HostOffset(x)[i - at + 1]
  BY <1>3 DEF Store
<1>5. /\ c[at] = x % 256 /\ c[at + 1] = high % 256
      /\ c[at + 2] = higher % 256 /\ c[at + 3] = highest % 256
  <2>1. /\ c[at] = HostOffset(x)[1] /\ c[at + 1] = HostOffset(x)[2]
        /\ c[at + 2] = HostOffset(x)[3] /\ c[at + 3] = HostOffset(x)[4]
    <3> HIDE DEF c
    <3>1. /\ at - at + 1 = 1 /\ (at + 1) - at + 1 = 2
          /\ (at + 2) - at + 1 = 3 /\ (at + 3) - at + 1 = 4
      OBVIOUS
    <3> QED
      BY <3>1, <1>2, <1>4
  <2> HIDE DEF c
  <2> QED
    BY <1>1, <2>1
<1>6. /\ high \in Nat /\ x = 256 * high + (x % 256) /\ high < 256 * (256 * 256)
      /\ x % 256 \in Nat
  OBVIOUS
<1>7. /\ higher \in Nat /\ high = 256 * higher + (high % 256) /\ higher < 256 * 256
      /\ high % 256 \in Nat
  <2> HIDE DEF high
  <2> QED
    BY <1>6
<1>8. /\ highest \in Nat /\ higher = 256 * highest + (higher % 256)
      /\ highest < 256 /\ higher % 256 \in Nat
  <2> HIDE DEF higher
  <2> QED
    BY <1>7
<1>9. highest % 256 = highest
  <2> HIDE DEF highest
  <2> QED
    BY <1>8
<1> HIDE DEF c, high, higher, highest
<1>10. SlotOffset(c, at)
         = (x % 256) + 256 * ((high % 256) + 256 * ((higher % 256) + 256 * highest))
  BY <1>5, <1>9 DEF SlotOffset
<1> QED
  BY <1>6, <1>7, <1>8, <1>10 DEF c

(* Four bytes reach every place of the buffer. *)
SlotsReach == Capacity <= 256 * (256 * (256 * 256))

(* The slot of a new element holds the place of the enclosing one.          *)
LEMMA BeginElementChained ==
  ASSUME NEW s, Sound(s), Chained(s), ~s.messageIsInProgress, SlotsReach,
         s.messageCursor + SlotSize(s) <= Capacity
  PROVE  /\ BeginElement(s).elementSizePtr # NoElement
         /\ DOMAIN BeginElement(s).buffer = 0..(Capacity - 1)
         /\ \E slots : \A t :
              /\ t.messageCursor \in Nat
              /\ BeginElement(s).messageCursor <= t.messageCursor
              /\ 0 < t.messageCursor
              /\ t.elementSizePtr = BeginElement(s).elementSizePtr
              /\ SameBelow(BeginElement(s).buffer, t.buffer,
                           BeginElement(s).messageCursor)
              => Chain(t, slots)
<1> DEFINE e == BeginElement(s)
           m == s.messageCursor
<1>0. /\ Capacity \in Nat /\ m \in Nat /\ m % 4 = 0
      /\ DOMAIN s.buffer = 0..(Capacity - 1)
      /\ "elementSizePtr" \in DOMAIN s /\ "buffer" \in DOMAIN s
      /\ "messageCursor" \in DOMAIN s
  BY StreamAssumption DEF Sound, Cursors, Chained
<1>1. CASE s.elementSizePtr = NoElement
  <2>1. e.elementSizePtr = 0 /\ e.buffer = s.buffer /\ e.messageCursor = m
    BY <1>0, <1>1 DEF BeginElement, NoElement
  <2>2. ASSUME NEW t, 0 < t.messageCursor, t.elementSizePtr = 0
        PROVE  Chain(t, {})
    BY <2>2 DEF Chain, NoElement
  <2> HIDE DEF e
  <2>3. \A t : /\ t.messageCursor \in Nat /\ e.messageCursor <= t.messageCursor
               /\ 0 < t.messageCursor
               /\ t.elementSizePtr = e.elementSizePtr
               /\ SameBelow(e.buffer, t.buffer, e.messageCursor)
               => Chain(t, {})
    BY <2>1, <2>2
  <2>4. e.elementSizePtr # NoElement /\ DOMAIN e.buffer = 0..(Capacity - 1)
    BY <2>1, <1>0 DEF NoElement
  <2> QED
    BY <2>3, <2>4 DEF e
<1>2. CASE s.elementSizePtr # NoElement
  <2>1. PICK slots : Chain(s, slots)
    BY DEF Chained
  <2> DEFINE x == s.elementSizePtr
             more == slots \cup {m}
  <2>2. /\ e.elementSizePtr = m /\ e.messageCursor = m + 4
        /\ e.buffer = Store(s.buffer, m, HostOffset(x))
    BY <1>0, <1>2 DEF BeginElement
  <2>3. m + 4 <= Capacity
    BY <1>2 DEF SlotSize
  <2>4. x \in slots \cup {0} /\ x \in Nat /\ x < m /\ 0 < m
    <3>1. x \in slots \cup {0} /\ 0 < m
      BY <1>2, <2>1 DEF Chain
    <3>2. \A at \in slots : at \in Nat /\ at + 4 <= m
      BY <2>1 DEF Chain
    <3> QED
      BY <3>1, <3>2, <1>0
  <2>5. SlotOffset(e.buffer, m) = x
    <3>1. x < 256 * (256 * (256 * 256))
      BY <2>3, <2>4, <1>0 DEF SlotsReach
    <3> HIDE DEF x, m
    <3> QED
      BY <3>1, <2>2, <2>3, <2>4, <1>0, OffsetKept
  <2>6. SameBelow(s.buffer, e.buffer, m)
    BY <2>2, <1>0, StoreAbove
  <2>7. DOMAIN e.buffer = 0..(Capacity - 1)
    BY <2>6, <1>0 DEF SameBelow
  <2>8. \A at \in slots : /\ at \in Nat /\ 0 < at /\ at % 4 = 0 /\ at + 4 <= m
                          /\ SlotOffset(s.buffer, at) \in slots \cup {0}
                          /\ SlotOffset(s.buffer, at) < at
    BY <2>1 DEF Chain
  <2> HIDE DEF e, x
  <2>9. ASSUME NEW t, t.messageCursor \in Nat, e.messageCursor <= t.messageCursor,
               0 < t.messageCursor, t.elementSizePtr = e.elementSizePtr,
               SameBelow(e.buffer, t.buffer, e.messageCursor)
        PROVE  Chain(t, more)
    <3>1. ASSUME NEW at \in more
          PROVE  /\ at \in Nat /\ 0 < at /\ at % 4 = 0
                 /\ at + 4 <= t.messageCursor /\ at <= m
                 /\ SlotOffset(t.buffer, at) = SlotOffset(e.buffer, at)
      <4>1. at \in Nat /\ 0 < at /\ at % 4 = 0 /\ at <= m
        BY <2>4, <2>8, <1>0
      <4>2. at + 4 <= m + 4 /\ at + 4 <= t.messageCursor
        BY <4>1, <2>2, <2>9, <1>0
      <4>3. SlotOffset(t.buffer, at) = SlotOffset(e.buffer, at)
        <5> HIDE DEF m
        <5>1. m + 4 \in Nat
          BY <1>0
        <5> QED
          BY <5>1, <4>1, <4>2, <2>2, <2>3, <2>7, <2>9, SlotKept
      <4> QED
        BY <4>1, <4>2, <4>3
    <3>2. ASSUME NEW at \in slots
          PROVE  SlotOffset(e.buffer, at) = SlotOffset(s.buffer, at)
      <4> HIDE DEF m
      <4>1. at \in Nat /\ at + 4 <= m /\ m <= Capacity
        BY <2>3, <2>8, <1>0
      <4> QED
        BY <4>1, <2>6, <1>0, SlotKept
    <3>3. \A at \in more : /\ SlotOffset(t.buffer, at) \in more \cup {0}
                           /\ SlotOffset(t.buffer, at) < at
      <4>1. /\ SlotOffset(t.buffer, m) \in slots \cup {0}
            /\ SlotOffset(t.buffer, m) < m
        BY <3>1, <2>4, <2>5
      <4>2. \A at \in slots : /\ SlotOffset(t.buffer, at) \in slots \cup {0}
                              /\ SlotOffset(t.buffer, at) < at
        BY <3>1, <3>2, <2>8
      <4> QED
        BY <4>1, <4>2
    <3>4. more \subseteq Nat /\ t.elementSizePtr = m
      BY <3>1, <2>2, <2>9
    <3> HIDE DEF m
    <3> QED
      BY <3>1, <3>3, <3>4, <2>9, <1>0 DEF Chain, NoElement
  <2>10. e.elementSizePtr # NoElement
    BY <2>2, <1>0 DEF NoElement
  <2> HIDE DEF more
  <2> QED
    BY <2>7, <2>9, <2>10 DEF e
<1> QED
  BY <1>1, <1>2

(* The end of an element leads back to the enclosing one.                   *)
LEMMA EndElementChained ==
  ASSUME NEW s, Cursors(s), Chained(s), ~s.messageIsInProgress,
         s.messageCursor <= Capacity, s.elementSizePtr # NoElement
  PROVE  Chained(EndElement(s))
<1> DEFINE e == EndElement(s)
<1>0. /\ Capacity \in Nat /\ s.messageCursor \in Nat
      /\ DOMAIN s.buffer = 0..(Capacity - 1)
      /\ "elementSizePtr" \in DOMAIN s /\ "buffer" \in DOMAIN s
      /\ e.messageCursor = s.messageCursor /\ ~e.messageIsInProgress
  BY StreamAssumption, EndElementFacts DEF Cursors, Chained
<1>1. PICK slots : Chain(s, slots)
  BY DEF Chained
<1>2. CASE s.elementSizePtr = 0
  <2>1. e.elementSizePtr = NoElement /\ e.buffer = s.buffer
    BY <1>0, <1>2 DEF EndElement
  <2> HIDE DEF e
  <2>2. Chain(e, {})
    BY <2>1, <1>0 DEF Chain
  <2> QED
    BY <2>1, <2>2, <1>0 DEF Chained, e
<1>3. CASE s.elementSizePtr # 0
  <2> DEFINE last == s.elementSizePtr
             back == SlotOffset(s.buffer, last)
             less == {at \in slots : at <= back}
  <2>1. last \in slots
    BY <1>1, <1>3 DEF Chain
  <2>2. /\ last \in Nat /\ last % 4 = 0 /\ last + 4 <= s.messageCursor
        /\ back \in slots \cup {0} /\ back < last
    BY <1>1, <2>1 DEF Chain
  <2>3. \A at \in slots : /\ at \in Nat /\ 0 < at /\ at % 4 = 0
                          /\ at + 4 <= s.messageCursor
                          /\ SlotOffset(s.buffer, at) \in slots \cup {0}
                          /\ SlotOffset(s.buffer, at) < at
    BY <1>1 DEF Chain
  <2>4. back \in Nat
    BY <2>2, <2>3
  <2>5. /\ e.elementSizePtr = back
        /\ e.buffer = Store(s.buffer, last,
                            FromInt32(s.messageCursor - last - 4))
    BY <1>0, <1>3 DEF EndElement
  <2> HIDE DEF e, back
  <2>6. SameBelow(s.buffer, e.buffer, last)
    <3> HIDE DEF last
    <3> QED
      BY <1>0, <2>2, <2>5, StoreAbove
  <2>7. ASSUME NEW at \in less
        PROVE  SlotOffset(e.buffer, at) = SlotOffset(s.buffer, at)
    <3> HIDE DEF last
    <3>1. at \in Nat /\ at % 4 = 0 /\ at < last
      BY <2>2, <2>3, <2>4
    <3>2. at + 4 <= last /\ last <= Capacity
      BY <3>1, <2>2, <1>0
    <3> QED
      BY <3>1, <3>2, <2>2, <2>6, <1>0, SlotKept
  <2>8. ASSUME NEW at \in less
        PROVE  /\ SlotOffset(e.buffer, at) \in less \cup {0}
               /\ SlotOffset(e.buffer, at) < at
    <3>1. /\ SlotOffset(s.buffer, at) \in slots \cup {0}
          /\ SlotOffset(s.buffer, at) < at /\ at <= back /\ at \in Nat
      BY <2>3
    <3>2. SlotOffset(s.buffer, at) \in Nat
      <4>1. \A place \in slots \cup {0} : place \in Nat
        BY <2>3
      <4> QED
        BY <3>1, <4>1
    <3>3. SlotOffset(s.buffer, at) <= back
      <4> DEFINE before == SlotOffset(s.buffer, at)
      <4>1. before \in Nat /\ before < at /\ at <= back /\ at \in Nat
        BY <3>1, <3>2
      <4> HIDE DEF before
      <4>2. before <= back
        BY <4>1, <2>4
      <4> QED
        BY <4>2 DEF before
    <3>4. SlotOffset(s.buffer, at) \in less \cup {0}
      BY <3>1, <3>3
    <3> QED
      BY <3>1, <3>4, <2>7
  <2>9. back \in less \cup {0}
    BY <2>2, <2>4
  <2>10. 0 < s.messageCursor
    BY <2>2, <1>0
  <2>11. Chain(e, less)
    BY <2>3, <2>5, <2>8, <2>9, <2>10, <1>0 DEF Chain
  <2>12. DOMAIN e.buffer = 0..(Capacity - 1)
    BY <2>6, <1>0 DEF SameBelow
  <2> HIDE DEF less
  <2> QED
    BY <2>11, <2>12 DEF Chained, e
<1> QED
  BY <1>2, <1>3

LEMMA OpenBundleChained ==
  ASSUME NEW s, NEW x, Sound(s), Chained(s), ~s.messageIsInProgress,
         BundleFits(s), SlotsReach
  PROVE  Chained(OpenBundle(s, x))
<1> DEFINE e == BeginElement(s)
           b == OpenBundle(s, x)
<1>1. s.messageCursor + SlotSize(s) <= Capacity
  <2>1. StreamSize(s) = s.argumentCurrent
    BY DEF StreamSize, Sound, Cursors
  <2>2. SlotSize(s) \in {0, 4}
    BY DEF SlotSize
  <2> QED
    BY <2>1, <2>2, StreamAssumption DEF BundleFits, Sound, Cursors
<1>2. Cursors(e)
  BY BeginElementFacts DEF Sound
<1>3. /\ b.buffer = Store(e.buffer, e.messageCursor, HashBundle \o FromInt64(x))
      /\ b.messageCursor = e.messageCursor + 16
      /\ b.elementSizePtr = e.elementSizePtr
      /\ e.messageCursor \in Nat
  BY <1>2 DEF OpenBundle, Cursors
<1>4. /\ e.elementSizePtr # NoElement /\ DOMAIN e.buffer = 0..(Capacity - 1)
      /\ \E slots : \A t :
           /\ t.messageCursor \in Nat /\ e.messageCursor <= t.messageCursor
           /\ 0 < t.messageCursor /\ t.elementSizePtr = e.elementSizePtr
           /\ SameBelow(e.buffer, t.buffer, e.messageCursor)
           => Chain(t, slots)
  BY <1>1, BeginElementChained
<1> HIDE DEF e, b
<1>5. SameBelow(e.buffer, b.buffer, e.messageCursor)
  BY <1>3, <1>4, StoreAbove
<1>6. /\ b.messageCursor \in Nat /\ e.messageCursor <= b.messageCursor
      /\ 0 < b.messageCursor
  BY <1>3
<1>7. \E slots : Chain(b, slots)
  BY <1>3, <1>4, <1>5, <1>6
<1>8. DOMAIN b.buffer = 0..(Capacity - 1)
  BY <1>4, <1>5 DEF SameBelow
<1> QED
  BY <1>7, <1>8 DEF Chained, b

LEMMA OpenMessageChained ==
  ASSUME NEW s, NEW a \in Seq(Byte), Sound(s), Chained(s),
         ~s.messageIsInProgress, MessageFits(s, a), SlotsReach
  PROVE  Chained(OpenMessage(s, a))
<1> DEFINE e == BeginElement(s)
           m == OpenMessage(s, a)
           n == RoundUp4(Len(a) + 1)
<1>0. n \in Nat /\ 0 < n
  <2>1. Len(a) + 1 \in Nat /\ Len(a) \in Nat
    BY BytesAreInts
  <2>2. n \in Nat /\ Len(a) + 1 <= n
    BY <2>1, RoundUpFacts
  <2> HIDE DEF n
  <2> QED
    BY <2>1, <2>2
<1>1. s.messageCursor + SlotSize(s) <= Capacity
  <2>1. StreamSize(s) = s.argumentCurrent
    BY DEF StreamSize, Sound, Cursors
  <2>2. SlotSize(s) \in {0, 4}
    BY DEF SlotSize
  <2>3. StreamSize(s) + SlotSize(s) + n + 4 <= Capacity
    BY DEF MessageFits
  <2> HIDE DEF n
  <2> QED
    BY <1>0, <2>1, <2>2, <2>3, StreamAssumption DEF Sound, Cursors
<1>2. Cursors(e)
  BY BeginElementFacts DEF Sound
<1>3. /\ m.buffer = Store(e.buffer, e.messageCursor, Padded(a))
      /\ m.messageCursor = e.messageCursor + n
      /\ m.elementSizePtr = e.elementSizePtr
      /\ e.messageCursor \in Nat
  BY <1>2 DEF OpenMessage, Cursors
<1>4. /\ e.elementSizePtr # NoElement /\ DOMAIN e.buffer = 0..(Capacity - 1)
      /\ \E slots : \A t :
           /\ t.messageCursor \in Nat /\ e.messageCursor <= t.messageCursor
           /\ 0 < t.messageCursor /\ t.elementSizePtr = e.elementSizePtr
           /\ SameBelow(e.buffer, t.buffer, e.messageCursor)
           => Chain(t, slots)
  BY <1>1, BeginElementChained
<1> HIDE DEF e, m, n
<1>5. SameBelow(e.buffer, m.buffer, e.messageCursor)
  BY <1>3, <1>4, StoreAbove
<1>6. /\ m.messageCursor \in Nat /\ e.messageCursor <= m.messageCursor
      /\ 0 < m.messageCursor
  BY <1>0, <1>3
<1>7. \E slots : Chain(m, slots)
  BY <1>3, <1>4, <1>5, <1>6
<1>8. DOMAIN m.buffer = 0..(Capacity - 1)
  BY <1>4, <1>5 DEF SameBelow
<1> QED
  BY <1>7, <1>8 DEF Chained, m

LEMMA CloseMessageChained ==
  ASSUME NEW s, Sound(s), Chained(s), s.messageIsInProgress
  PROVE  Chained(CloseMessage(s))
<1> DEFINE slot == RoundUp4(TagCount(s) + 2)
           end == s.messageCursor + slot + (s.argumentCurrent - s.messageCursor)
           tags == <<COMMA>> \o TypeTags(s) \o Zeros(slot - TagCount(s) - 1)
           size == s.argumentCurrent - s.messageCursor
           moved == Move(s.buffer, s.messageCursor + slot, s.messageCursor, size)
           c == [s EXCEPT
                  !.buffer = Store(Move(@, s.messageCursor + slot, s.messageCursor, size),
                                   s.messageCursor, tags),
                  !.typeTagsCurrent = Capacity,
                  !.messageCursor = end,
                  !.argumentCurrent = end,
                  !.messageIsInProgress = FALSE]
<1>0. /\ Capacity \in Nat /\ s.messageCursor \in Nat
      /\ s.messageCursor <= Capacity
      /\ DOMAIN s.buffer = 0..(Capacity - 1) /\ s.elementSizePtr # NoElement
  <2>1. s.elementSizePtr # NoElement
    BY DEF Chained, Chain
  <2>2. s.messageCursor <= s.argumentCurrent /\ StreamSize(s) <= Capacity
    BY DEF Sound
  <2>3. TagCount(s) \in Nat
    BY StreamAssumption DEF TagCount, Sound, Cursors
  <2>4. slot \in Nat
    BY <2>3, RoundUpFacts
  <2>5. StreamSize(s) = s.argumentCurrent + slot
    BY DEF StreamSize
  <2> HIDE DEF slot
  <2> QED
    BY <2>1, <2>2, <2>4, <2>5, StreamAssumption DEF Sound, Cursors, Chained
<1>1. slot \in Nat
  <2>1. TagCount(s) \in Nat
    BY StreamAssumption DEF TagCount, Sound, Cursors
  <2> QED
    BY <2>1, RoundUpFacts
<1>2. end \in Nat /\ s.messageCursor <= end /\ end <= Capacity
  <2>1. StreamSize(s) = s.argumentCurrent + slot /\ StreamSize(s) <= Capacity
    BY DEF StreamSize, Sound
  <2> HIDE DEF slot
  <2> QED
    BY <1>1, <2>1 DEF Sound, Cursors
<1>3. SameBelow(s.buffer, Store(moved, s.messageCursor, tags), s.messageCursor)
  <2> HIDE DEF slot, tags, size
  <2>1. SameBelow(s.buffer, moved, s.messageCursor)
    <3>1. s.messageCursor + slot \in Nat /\ s.messageCursor <= s.messageCursor + slot
      BY <1>0, <1>1
    <3> QED
      BY <3>1, <1>0, MoveAbove
  <2>2. DOMAIN moved = 0..(Capacity - 1)
    BY <2>1, <1>0 DEF SameBelow
  <2> HIDE DEF moved
  <2>3. SameBelow(moved, Store(moved, s.messageCursor, tags), s.messageCursor)
    BY <2>2, <1>0, StoreAbove
  <2> QED
    BY <2>1, <2>3, SameBelowTwice
<1>4. /\ c.buffer = Store(moved, s.messageCursor, tags)
      /\ c.messageCursor = end /\ c.elementSizePtr = s.elementSizePtr
      /\ c.messageIsInProgress = FALSE
      /\ Cursors(c)
  <2> HIDE DEF end, tags, slot, size
  <2> QED
    BY <1>2, StreamAssumption DEF Sound, Cursors
<1>5. CloseMessage(s) = EndElement(c)
  BY DEF CloseMessage
<1> HIDE DEF c, end, tags, slot, moved, size
<1>6. Chained(c)
  <2>1. PICK slots : Chain(s, slots)
    BY DEF Chained
  <2>2. Chain(c, slots)
    BY <2>1, <1>0, <1>2, <1>3, <1>4, ChainKept
  <2> QED
    BY <2>2, <1>0, <1>3, <1>4 DEF Chained, SameBelow
<1>7. Chained(EndElement(c))
  BY <1>0, <1>2, <1>4, <1>6, EndElementChained
<1> QED
  BY <1>5, <1>7

LEMMA PutArgumentChained ==
  ASSUME NEW s, NEW tag, NEW bytes, Sound(s), Chained(s),
         Len(bytes) \in Nat, ArgumentFits(s, Len(bytes))
  PROVE  Chained(PutArgument(s, tag, bytes))
<1> DEFINE p == PutArgument(s, tag, bytes)
           n == TagCount(s)
           tagged == Store(s.buffer, s.typeTagsCurrent - 1, <<tag>>)
<1>0. /\ Capacity \in Nat /\ s.messageCursor \in Nat /\ s.argumentCurrent \in Nat
      /\ s.messageCursor <= s.argumentCurrent
      /\ DOMAIN s.buffer = 0..(Capacity - 1)
  BY StreamAssumption DEF Sound, Cursors, Chained
<1>1. /\ s.typeTagsCurrent - 1 \in Nat
      /\ s.messageCursor <= s.typeTagsCurrent - 1
      /\ s.messageCursor <= Capacity
  <2>1. n \in Nat /\ s.typeTagsCurrent = Capacity - n
    BY StreamAssumption DEF TagCount, Sound, Cursors
  <2>2. RoundUp4(n + 3) \in Nat /\ n + 3 <= RoundUp4(n + 3)
    <3>1. n + 3 \in Nat
      BY <2>1
    <3> QED
      BY <3>1, RoundUpFacts
  <2>3. s.argumentCurrent + Len(bytes) + RoundUp4(n + 3) <= Capacity
    BY DEF ArgumentFits
  <2> HIDE DEF n
  <2> QED
    BY <1>0, <2>1, <2>2, <2>3
<1>2. SameBelow(s.buffer, Store(tagged, s.argumentCurrent, bytes), s.messageCursor)
  <2>1. SameBelow(s.buffer, tagged, s.messageCursor)
    BY <1>0, <1>1, StoreAbove
  <2>2. DOMAIN tagged = 0..(Capacity - 1)
    BY <2>1, <1>0 DEF SameBelow
  <2> HIDE DEF tagged
  <2>3. SameBelow(tagged, Store(tagged, s.argumentCurrent, bytes), s.messageCursor)
    BY <2>2, <1>0, StoreAbove
  <2> QED
    BY <2>1, <2>3, SameBelowTwice
<1>3. /\ p.buffer = Store(tagged, s.argumentCurrent, bytes)
      /\ p.messageCursor = s.messageCursor
      /\ p.elementSizePtr = s.elementSizePtr
      /\ p.messageIsInProgress = s.messageIsInProgress
  BY DEF PutArgument, Sound, Cursors
<1> HIDE DEF p, tagged
<1>4. PICK slots : Chain(s, slots)
  BY DEF Chained
<1>5. p.messageIsInProgress => s.elementSizePtr # NoElement
  BY <1>3, <1>4 DEF Chain
<1>6. Chain(p, slots)
  BY <1>0, <1>1, <1>2, <1>3, <1>4, <1>5, ChainKept
<1>7. DOMAIN p.buffer = 0..(Capacity - 1)
  BY <1>0, <1>2, <1>3 DEF SameBelow
<1> QED
  BY <1>6, <1>7 DEF Chained, p

-----------------------------------------------------------------------------
(* The invariant *)

LEMMA InitSound == Init => StreamInv
<1> SUFFICES ASSUME Init PROVE Sound(out)
  BY DEF StreamInv
<1> PICK j \in Junk : out = EmptyStream([i \in 0..(Capacity - 1) |-> j])
  BY DEF Init
<1> QED BY StreamAssumption DEF EmptyStream, Sound, Cursors, StreamSize

(* Each operation keeps it, whoever calls it, and in whatever order.        *)
LEMMA ArgumentKeepsSound ==
  ASSUME NEW tag, NEW bytes, NEW content, Sound(out),
         Len(bytes) \in Nat, Len(bytes) % 4 = 0, Argument(tag, bytes, content)
  PROVE  Sound(out')
<1>1. CASE ArgumentFits(out, Len(bytes)) /\ out' = PutArgument(out, tag, bytes)
  BY <1>1, PutArgumentSound
<1>2. CASE Throw
  BY <1>2 DEF Throw, vars
<1> QED BY <1>1, <1>2 DEF Argument

LEMMA NextSound == StreamInv /\ [Next]_vars => StreamInv'
<1> SUFFICES ASSUME Sound(out), [Next]_vars PROVE Sound(out')
  BY DEF StreamInv
<1>1. CASE UNCHANGED vars
  BY <1>1 DEF vars
<1>2. CASE Throw
  BY <1>2 DEF Throw, vars
<1>3. ASSUME NEW x \in Number, BundleInitiator(x) PROVE Sound(out')
  BY <1>2, <1>3, OpenBundleSound DEF BundleInitiator
<1>4. CASE BundleTerminator
  <2>1. CASE ~out.messageIsInProgress /\ out' = EndElement(out)
    <3>1. StreamSize(EndElement(out)) = StreamSize(out)
      BY EndElementFacts DEF StreamSize, TagCount, Sound
    <3> QED BY <2>1, <3>1, EndElementFacts DEF Sound
  <2> QED BY <1>2, <1>4, <2>1 DEF BundleTerminator
<1>5. ASSUME NEW a \in Address, BeginMessage(a) PROVE Sound(out')
  <2>1. a \in Seq(Byte)
    BY StreamAssumption
  <2> QED BY <1>2, <1>5, <2>1, OpenMessageSound DEF BeginMessage
<1>6. CASE MessageTerminator
  BY <1>2, <1>6, CloseMessageSound DEF MessageTerminator
<1>7. ASSUME NEW tag \in Tag, PutFlag(tag) PROVE Sound(out')
  BY <1>7, ArgumentKeepsSound DEF PutFlag
<1>8. ASSUME NEW tag \in Tag, NEW x \in Number, PutWord(tag, x) PROVE Sound(out')
  <2>1. Len(FromInt32(x)) = 4
    BY WordLength, StreamAssumption
  <2>2. Len(FromInt32(x)) \in Nat /\ Len(FromInt32(x)) % 4 = 0
    BY <2>1
  <2> QED BY <1>8, <2>2, ArgumentKeepsSound DEF PutWord
<1>9. ASSUME NEW tag \in Tag, NEW x \in Number, PutLong(tag, x) PROVE Sound(out')
  <2>1. Len(FromInt64(x)) = 8
    BY LongLength, StreamAssumption
  <2>2. Len(FromInt64(x)) \in Nat /\ Len(FromInt64(x)) % 4 = 0
    BY <2>1
  <2> QED BY <1>9, <2>2, ArgumentKeepsSound DEF PutLong
<1>10. ASSUME NEW tag \in Tag, NEW t \in Text, PutText(tag, t) PROVE Sound(out')
  <2>1. t \in Seq(Byte)
    BY StreamAssumption
  <2>2. Len(Padded(t)) \in Nat /\ Len(Padded(t)) % 4 = 0
    BY <2>1, PaddedLength
  <2> QED BY <1>10, <2>2, ArgumentKeepsSound DEF PutText
<1>11. ASSUME NEW tag \in Tag, NEW d \in Blob, PutBlob(tag, d) PROVE Sound(out')
  <2> DEFINE bytes == FromInt32(Len(d)) \o d \o Zeros(RoundUp4(Len(d)) - Len(d))
  <2>1. d \in Seq(Byte)
    BY StreamAssumption
  <2>2. Len(bytes) \in Nat /\ Len(bytes) % 4 = 0
    BY <2>1, BlobLength
  <2>3. Argument(tag, bytes, d)
    BY <1>11 DEF PutBlob
  <2> HIDE DEF bytes
  <2> QED BY <2>2, <2>3, ArgumentKeepsSound
<1>12. CASE Clear
  <2>1. out' = EmptyStream(out.buffer)
    BY <1>12 DEF Clear
  <2> QED BY <2>1, StreamAssumption DEF EmptyStream, Sound, Cursors, StreamSize
<1> QED BY <1>1, <1>3, <1>4, <1>5, <1>6, <1>7, <1>8, <1>9, <1>10, <1>11, <1>12 DEF Next

(* The tags and the arguments of a packet never meet in its buffer, and     *)
(* closing a message stays inside of it, for a buffer of every size and any *)
(* sequence of operations.                                                  *)
THEOREM StreamNeverOverlaps == Spec => []NeverOverlaps
<1>1. StreamInv => NeverOverlaps
  BY DEF StreamInv, Sound, NeverOverlaps
<1> QED BY <1>1, InitSound, NextSound, PTL DEF Spec

(* Whatever lengths texts and blobs have, elements and arguments begin at   *)
(* multiples of four.                                                       *)
THEOREM StreamCursorsAligned == Spec => []CursorsAligned
<1>1. StreamInv => CursorsAligned
  BY DEF StreamInv, Sound, CursorsAligned
<1> QED BY <1>1, InitSound, NextSound, PTL DEF Spec

(* The chain of the open elements' slots, which are in the buffer that the  *)
(* arguments and tags are written to, is never written over.                *)
LEMMA ArgumentKeepsChained ==
  ASSUME NEW tag, NEW bytes, NEW content, Sound(out), Chained(out),
         Len(bytes) \in Nat, Argument(tag, bytes, content)
  PROVE  Chained(out')
<1>1. CASE ArgumentFits(out, Len(bytes)) /\ out' = PutArgument(out, tag, bytes)
  BY <1>1, PutArgumentChained
<1>2. CASE Throw
  BY <1>2 DEF Throw, vars
<1> QED BY <1>1, <1>2 DEF Argument

LEMMA EmptyChained ==
  ASSUME NEW b, DOMAIN b = 0..(Capacity - 1)
  PROVE  Chained(EmptyStream(b))
<1> DEFINE e == EmptyStream(b)
<1>1. e.buffer = b /\ e.elementSizePtr = NoElement /\ ~e.messageIsInProgress
  BY DEF EmptyStream
<1> HIDE DEF e
<1>2. Chain(e, {})
  BY <1>1 DEF Chain
<1> QED BY <1>1, <1>2 DEF Chained, e

LEMMA NextChained ==
  ASSUME StreamInv, Chained(out), [Next]_vars, SlotsReach
  PROVE  Chained(out')
<1>0. Sound(out)
  BY DEF StreamInv
<1>1. CASE UNCHANGED vars
  BY <1>1 DEF vars
<1>2. CASE Throw
  BY <1>2 DEF Throw, vars
<1>3. ASSUME NEW x \in Number, BundleInitiator(x) PROVE Chained(out')
  BY <1>0, <1>2, <1>3, OpenBundleChained DEF BundleInitiator
<1>4. CASE BundleTerminator
  <2>1. CASE /\ out.elementSizePtr # NoElement /\ ~out.messageIsInProgress
             /\ out' = EndElement(out)
    <3>1. Cursors(out) /\ out.messageCursor <= Capacity
      BY <2>1, <1>0, StreamAssumption DEF Sound, Cursors, StreamSize
    <3> QED BY <2>1, <3>1, EndElementChained
  <2> QED BY <1>2, <1>4, <2>1 DEF BundleTerminator, IsBundleInProgress
<1>5. ASSUME NEW a \in Address, BeginMessage(a) PROVE Chained(out')
  <2>1. a \in Seq(Byte)
    BY StreamAssumption
  <2> QED BY <1>0, <1>2, <1>5, <2>1, OpenMessageChained DEF BeginMessage
<1>6. CASE MessageTerminator
  BY <1>0, <1>2, <1>6, CloseMessageChained DEF MessageTerminator
<1>7. ASSUME NEW tag \in Tag, PutFlag(tag) PROVE Chained(out')
  <2>1. Len(<<>>) \in Nat
    OBVIOUS
  <2> QED BY <1>0, <1>7, <2>1, ArgumentKeepsChained DEF PutFlag
<1>8. ASSUME NEW tag \in Tag, NEW x \in Number, PutWord(tag, x) PROVE Chained(out')
  <2>1. Len(FromInt32(x)) \in Nat
    BY WordLength, StreamAssumption
  <2> QED BY <1>0, <1>8, <2>1, ArgumentKeepsChained DEF PutWord
<1>9. ASSUME NEW tag \in Tag, NEW x \in Number, PutLong(tag, x) PROVE Chained(out')
  <2>1. Len(FromInt64(x)) \in Nat
    BY LongLength, StreamAssumption
  <2> QED BY <1>0, <1>9, <2>1, ArgumentKeepsChained DEF PutLong
<1>10. ASSUME NEW tag \in Tag, NEW t \in Text, PutText(tag, t) PROVE Chained(out')
  <2>1. Len(Padded(t)) \in Nat
    BY PaddedLength, StreamAssumption
  <2> QED BY <1>0, <1>10, <2>1, ArgumentKeepsChained DEF PutText
<1>11. ASSUME NEW tag \in Tag, NEW d \in Blob, PutBlob(tag, d) PROVE Chained(out')
  <2> DEFINE bytes == FromInt32(Len(d)) \o d \o Zeros(RoundUp4(Len(d)) - Len(d))
  <2>1. Len(bytes) \in Nat
    BY BlobLength, StreamAssumption
  <2>2. Argument(tag, bytes, d)
    BY <1>11 DEF PutBlob
  <2> HIDE DEF bytes
  <2> QED BY <1>0, <2>1, <2>2, ArgumentKeepsChained
<1>12. CASE Clear
  <2>1. out' = EmptyStream(out.buffer) /\ DOMAIN out.buffer = 0..(Capacity - 1)
    BY <1>12 DEF Clear, Chained
  <2> QED BY <2>1, EmptyChained
<1> QED BY <1>1, <1>3, <1>4, <1>5, <1>6, <1>7, <1>8, <1>9, <1>10, <1>11, <1>12 DEF Next

(* ... and so begin the elements whose sizes are still to be written: the   *)
(* place that is found in a slot when an inner element ends is the slot of  *)
(* the enclosing one, in a buffer that four bytes can count.                *)
THEOREM StreamIsAligned ==
  ASSUME SlotsReach
  PROVE  Spec => []Aligned
<1>1. Init => StreamInv /\ Chained(out)
  <2> SUFFICES ASSUME Init PROVE Chained(out)
    BY InitSound
  <2> PICK j \in Junk : out = EmptyStream([i \in 0..(Capacity - 1) |-> j])
    BY DEF Init
  <2> QED BY EmptyChained
<1>2. StreamInv /\ Chained(out) /\ [Next]_vars => StreamInv' /\ Chained(out)'
  BY NextSound, NextChained
<1>3. StreamInv /\ Chained(out) => Aligned
  <2> SUFFICES ASSUME Sound(out), Chained(out) PROVE Aligned
    BY DEF StreamInv
  <2>1. PICK slots : Chain(out, slots)
    BY DEF Chained
  <2>2. out.elementSizePtr # NoElement => out.elementSizePtr % 4 = 0
    <3>1. \A place \in slots \cup {0} : place % 4 = 0
      BY <2>1 DEF Chain
    <3>2. out.elementSizePtr \in slots \cup {0, NoElement}
      BY <2>1 DEF Chain
    <3> QED BY <3>1, <3>2
  <2> QED BY <2>2 DEF Aligned, CursorsAligned, Sound
<1> QED BY <1>1, <1>2, <1>3, PTL DEF Spec

(* While a message is open, Size() is the size it will have when closed.    *)
THEOREM StreamSizeIsFinal == Spec => SizeIsFinal
<1> DEFINE Final == out.messageIsInProgress /\ ~out'.messageIsInProgress /\ written' # <<>>
                     => StreamSize(out') = StreamSize(out)
<1>1. StreamInv /\ [Next]_vars => [Final]_vars
  <2> SUFFICES ASSUME Sound(out), Next, out.messageIsInProgress,
                      ~out'.messageIsInProgress, written' # <<>>
               PROVE  StreamSize(out') = StreamSize(out)
    BY DEF StreamInv
  <2>1. CASE MessageTerminator
    <3>1. out' = CloseMessage(out)
      BY <2>1 DEF MessageTerminator
    <3>2. /\ StreamSize(out) \in Int
          /\ ~CloseMessage(out).messageIsInProgress
          /\ CloseMessage(out).argumentCurrent = StreamSize(out)
      <4>1. Cursors(CloseMessage(out))
        BY CloseMessageFacts
      <4> QED BY <4>1, CloseMessageFacts DEF Cursors
    <3> QED BY <3>1, <3>2 DEF StreamSize
  <2>2. CASE Throw
    BY <2>2 DEF Throw, vars
  <2>3. ASSUME NEW tag, NEW bytes, NEW content, Argument(tag, bytes, content) PROVE FALSE
    <3>1. CASE out' = PutArgument(out, tag, bytes)
      <4>1. PutArgument(out, tag, bytes).messageIsInProgress = out.messageIsInProgress
        BY DEF PutArgument, Sound, Cursors
      <4> QED BY <3>1, <4>1
    <3>2. CASE Throw
      BY <3>2 DEF Throw, vars
    <3> QED BY <2>3, <3>1, <3>2 DEF Argument
  <2>4. ASSUME NEW tag \in Tag, PutFlag(tag) PROVE FALSE
    BY <2>3, <2>4 DEF PutFlag
  <2>5. ASSUME NEW tag \in Tag, NEW x \in Number, PutWord(tag, x) \/ PutLong(tag, x)
        PROVE FALSE
    BY <2>3, <2>5 DEF PutWord, PutLong
  <2>6. ASSUME NEW tag \in Tag, NEW t \in Text, PutText(tag, t) PROVE FALSE
    BY <2>3, <2>6 DEF PutText
  <2>7. ASSUME NEW tag \in Tag, NEW d \in Blob, PutBlob(tag, d) PROVE FALSE
    BY <2>3, <2>7 DEF PutBlob
  <2>8. ASSUME NEW x \in Number, BundleInitiator(x) PROVE FALSE
    BY <2>8 DEF BundleInitiator, Throw, vars
  <2>9. CASE BundleTerminator
    BY <2>9 DEF BundleTerminator, Throw, vars
  <2>10. ASSUME NEW a \in Address, BeginMessage(a) PROVE FALSE
    BY <2>10 DEF BeginMessage, Throw, vars
  <2>11. CASE Clear
    BY <2>11 DEF Clear
  <2> QED BY <2>1, <2>4, <2>5, <2>6, <2>7, <2>8, <2>9, <2>10, <2>11 DEF Next
<1>2. Spec => [][Final]_vars
  BY <1>1, InitSound, NextSound, PTL DEF Spec
<1> QED BY <1>2 DEF SizeIsFinal

-----------------------------------------------------------------------------
(***************************************************************************)
(* THash, for any keys, however they collide, any values and any number of  *)
(* tables.  Its loops are recursive functions of the turns: each loop has   *)
(* an invariant that is proved from one turn to the next (UpTo), and what   *)
(* it gives is where it ends.  The invariant of the machine is TableInv.    *)
(***************************************************************************)

(* A set of numbers that is not empty has a least one.                      *)
LEMMA LeastNumber ==
  ASSUME NEW T \in SUBSET Nat, T # {}
  PROVE  \E n \in T : \A m \in T : n <= m
<1>1. IsWellFoundedOn(OpToRel(<, Nat), Nat)
  BY NatLessThanWellFounded
<1>2. PICK n \in T : \A m \in T : <<m, n>> \notin OpToRel(<, Nat)
  BY <1>1, WFMin
<1>3. \A m \in T : ~(m < n)
  BY <1>2 DEF OpToRel
<1>. QED
  BY <1>3

(* Induction up to N, on the set of the numbers for which a thing holds.    *)
LEMMA UpTo ==
  ASSUME NEW N \in Nat, NEW T, 0 \in T,
         \A n \in 1..N : n - 1 \in T => n \in T
  PROVE  \A n \in 0..N : n \in T
<1>. DEFINE U == {n \in 0..N : n \notin T}
<1>0. U \in SUBSET Nat /\ \A n \in 0..N : n \in U <=> n \notin T
  OBVIOUS
<1>00. U \subseteq 0..N
  OBVIOUS
<1>. HIDE DEF U
<1>1. CASE U = {}
  BY <1>0, <1>1
<1>2. CASE U # {}
  <2>1. PICK n \in U : \A m \in U : n <= m
    BY <1>0, <1>2, LeastNumber
  <2>2. n \in 1..N /\ n - 1 \in 0..N /\ ~(n <= n - 1)
    BY <1>0, <1>00, <2>1
  <2>3. n - 1 \in T
    BY <1>0, <2>1, <2>2
  <2>. QED
    BY <1>0, <2>1, <2>2, <2>3
<1>. QED
  BY <1>1, <1>2

(* A recursive function of the turns of a loop, from the function of one    *)
(* turn.                                                                    *)
Runs(f, N, start, turn) ==
  f[0] = start /\ \A n \in 1..N : f[n] = turn[<<n, f[n - 1]>>]

(* A loop whose turn is a function of its number and of the state has a     *)
(* run.                                                                     *)
LEMMA TurnsExist ==
  ASSUME NEW N \in Nat, NEW S, NEW start \in S, NEW turn \in [(1..N) \X S -> S]
  PROVE  \E f \in [0..N -> S] : Runs(f, N, start, turn)
<1>. DEFINE Upto(f, m) ==
              /\ f \in [0..m -> S]
              /\ f[0] = start /\ \A n \in 1..m : f[n] = turn[<<n, f[n - 1]>>]
            T == {m \in 0..N : \E f : Upto(f, m)}
<1>1. 0 \in T
  <2>1. PICK f : f = [n \in 0..0 |-> start]
    OBVIOUS
  <2>2. Upto(f, 0)
    BY <2>1
  <2>. QED
    BY <2>2
<1>2. ASSUME NEW m \in 1..N, m - 1 \in T
      PROVE  m \in T
  <2>1. PICK f : Upto(f, m - 1)
    BY <1>2
  <2>. DEFINE g == [n \in 0..m |-> IF n = m THEN turn[<<m, f[m - 1]>>] ELSE f[n]]
  <2>0. m \in Nat /\ m # 0 /\ m - 1 \in Nat
    OBVIOUS
  <2>2. f[m - 1] \in S
    BY <2>1, <2>0
  <2>3. turn[<<m, f[m - 1]>>] \in S
    BY <2>2
  <2>4. g \in [0..m -> S]
    <3>1. \A n \in 0..m : n = m \/ n \in 0..(m - 1)
      BY <2>0
    <3>. QED
      BY <2>1, <2>3, <3>1
  <2>5. ASSUME NEW n \in 1..m
        PROVE  g[n] = turn[<<n, g[n - 1]>>]
    <3>1. n - 1 \in 0..m /\ n - 1 # m /\ g[n - 1] = f[n - 1]
      BY <2>0
    <3>2. CASE n = m
      BY <2>0, <3>1, <3>2
    <3>3. CASE n # m
      <4>1. n \in 1..(m - 1) /\ n \in 0..m /\ g[n] = f[n]
        BY <2>0, <3>3
      <4>. QED
        BY <2>1, <3>1, <4>1
    <3>. QED
      BY <3>2, <3>3
  <2>6. g[0] = start
    BY <2>0, <2>1
  <2>. HIDE DEF g
  <2>7. Upto(g, m)
    BY <2>4, <2>5, <2>6
  <2>. QED
    BY <2>7
<1>3. N \in T
  <2>. HIDE DEF T
  <2>1. \A n \in 0..N : n \in T
    BY <1>1, <1>2, UpTo
  <2>. QED
    BY <2>1
<1>4. PICK f : Upto(f, N)
  BY <1>3
<1>. QED
  BY <1>4 DEF Runs


-----------------------------------------------------------------------------
(* Lists without some of their elements *)

(* The loop of Without, turn by turn. *)
Erases(f, list, gone) ==
  /\ f[0] = <<>>
  /\ \A n \in 1..Len(list) :
       f[n] = IF list[n] \in gone THEN f[n - 1] ELSE Append(f[n - 1], list[n])

(* What Without gives is where that loop ends.                              *)
LEMMA WithoutByTurns ==
  ASSUME NEW S, NEW list \in Seq(S), NEW gone
  PROVE  \E f \in [0..Len(list) -> Seq(S)] :
           Erases(f, list, gone) /\ Without(list, gone) = f[Len(list)]
<1>. DEFINE turn == [p \in (1..Len(list)) \X Seq(S) |->
                       IF list[p[1]] \in gone THEN p[2] ELSE Append(p[2], list[p[1]])]
            Kept(f) == f = [n \in 0..Len(list) |->
                              IF n = 0 THEN <<>>
                              ELSE IF list[n] \in gone THEN f[n - 1]
                                                       ELSE Append(f[n - 1], list[n])]
<1>1. turn \in [(1..Len(list)) \X Seq(S) -> Seq(S)]
  <2>1. \A p \in (1..Len(list)) \X Seq(S) : p[2] \in Seq(S) /\ list[p[1]] \in S
    OBVIOUS
  <2>2. \A p \in (1..Len(list)) \X Seq(S) :
          (IF list[p[1]] \in gone THEN p[2] ELSE Append(p[2], list[p[1]])) \in Seq(S)
    BY <2>1
  <2>. QED
    BY <2>2
<1>2. Len(list) \in Nat /\ <<>> \in Seq(S)
  OBVIOUS
<1>3. PICK f \in [0..Len(list) -> Seq(S)] : Runs(f, Len(list), <<>>, turn)
  <2>. HIDE DEF turn
  <2>. QED
    BY <1>1, <1>2, TurnsExist
<1>4. ASSUME NEW n \in 1..Len(list)
      PROVE  /\ n - 1 \in 0..Len(list) /\ n \in 0..Len(list) /\ n # 0
             /\ f[n] = IF list[n] \in gone THEN f[n - 1] ELSE Append(f[n - 1], list[n])
  <2>1. n - 1 \in 0..Len(list) /\ n \in 0..Len(list) /\ n # 0
    BY <1>2
  <2>2. PICK p : p = <<n, f[n - 1]>>
    OBVIOUS
  <2>3. p \in (1..Len(list)) \X Seq(S) /\ p[1] = n /\ p[2] = f[n - 1]
    BY <2>1, <2>2
  <2>4. f[n] = turn[p]
    BY <1>3, <2>2 DEF Runs
  <2>5. turn[p] = IF list[p[1]] \in gone THEN p[2] ELSE Append(p[2], list[p[1]])
    BY <2>3
  <2>. QED
    BY <2>1, <2>3, <2>4, <2>5
<1>5. Kept(f)
  <2>1. \A n \in 0..Len(list) : n = 0 \/ n \in 1..Len(list)
    OBVIOUS
  <2>2. \A n \in 0..Len(list) :
          f[n] = IF n = 0 THEN <<>>
                 ELSE IF list[n] \in gone THEN f[n - 1] ELSE Append(f[n - 1], list[n])
    <3>. HIDE DEF turn
    <3>1. f[0] = <<>>
      BY <1>3 DEF Runs
    <3>. QED
      BY <1>4, <2>1, <3>1
  <2>. QED
    BY <2>2
<1>6. \E g : Kept(g)
  BY <1>5
<1>7. Kept(CHOOSE g : Kept(g)) /\ Without(list, gone) = (CHOOSE g : Kept(g))[Len(list)]
  BY <1>6 DEF Without
<1>8. PICK g : Kept(g) /\ Without(list, gone) = g[Len(list)]
  BY <1>7
<1>9. g[0] = <<>> /\ \A n \in 1..Len(list) :
        g[n] = IF list[n] \in gone THEN g[n - 1] ELSE Append(g[n - 1], list[n])
  <2>1. \A n \in 0..Len(list) :
          g[n] = IF n = 0 THEN <<>>
                 ELSE IF list[n] \in gone THEN g[n - 1] ELSE Append(g[n - 1], list[n])
    BY <1>8
  <2>2. 0 \in 0..Len(list) /\ \A n \in 1..Len(list) : n \in 0..Len(list) /\ n # 0
    BY <1>2
  <2>. HIDE DEF Kept
  <2>. QED
    BY <2>1, <2>2
<1>10. g \in [0..Len(list) -> Seq(S)]
  <2>. DEFINE T == {n \in 0..Len(list) : g[n] \in Seq(S)}
  <2>1. 0 \in T
    <3>1. 0 \in 0..Len(list) /\ g[0] \in Seq(S)
      BY <1>2, <1>9
    <3>. QED
      BY <3>1
  <2>2. ASSUME NEW n \in 1..Len(list), n - 1 \in T  PROVE n \in T
    <3>1. g[n - 1] \in Seq(S) /\ list[n] \in S /\ n \in 0..Len(list)
      BY <2>2, <1>2
    <3>2. Append(g[n - 1], list[n]) \in Seq(S)
      BY <3>1
    <3>3. g[n] \in Seq(S)
      BY <1>9, <3>1, <3>2
    <3>. QED
      BY <3>1, <3>3
  <2>3. \A n \in 0..Len(list) : n \in T
    <3>. HIDE DEF T
    <3>. QED
      BY <1>2, <2>1, <2>2, UpTo
  <2>4. g = [n \in 0..Len(list) |-> g[n]]
    BY <1>8
  <2>. QED
    BY <2>3, <2>4
<1>. QED
  BY <1>8, <1>9, <1>10 DEF Erases

(* Two runs of the loop that see the same elements do the same. *)
LEMMA ErasesAlike ==
  ASSUME NEW S, NEW list \in Seq(S), NEW more \in Seq(S), NEW gone, NEW f, NEW g,
         Erases(f, list, gone), Erases(g, more, gone),
         Len(list) <= Len(more), \A n \in 1..Len(list) : more[n] = list[n]
  PROVE  \A n \in 0..Len(list) : f[n] = g[n]
<1>. DEFINE T == {n \in 0..Len(list) : f[n] = g[n]}
<1>0. Len(list) \in Nat /\ Len(more) \in Nat
  OBVIOUS
<1>1. 0 \in T
  BY <1>0 DEF Erases
<1>2. ASSUME NEW n \in 1..Len(list), n - 1 \in T  PROVE n \in T
  <2>1. n \in 1..Len(more) /\ n \in 0..Len(list) /\ f[n - 1] = g[n - 1]
    BY <1>0, <1>2
  <2>2. f[n] = IF list[n] \in gone THEN f[n - 1] ELSE Append(f[n - 1], list[n])
    BY DEF Erases
  <2>3. g[n] = IF more[n] \in gone THEN g[n - 1] ELSE Append(g[n - 1], more[n])
    BY <2>1 DEF Erases
  <2>4. f[n] = g[n]
    BY <2>1, <2>2, <2>3
  <2>. QED
    BY <2>1, <2>4
<1>3. \A n \in 0..Len(list) : n \in T
  <2>. HIDE DEF T
  <2>. QED
    BY <1>0, <1>1, <1>2, UpTo
<1>. QED
  BY <1>3

(* One element more at the end. *)
LEMMA WithoutAppended ==
  ASSUME NEW S, NEW list \in Seq(S), NEW x \in S, NEW gone
  PROVE  Without(Append(list, x), gone)
           = IF x \in gone THEN Without(list, gone) ELSE Append(Without(list, gone), x)
<1>1. PICK more : more = Append(list, x)
  OBVIOUS
<1>2. /\ more \in Seq(S) /\ Len(more) = Len(list) + 1 /\ more[Len(list) + 1] = x
      /\ Len(list) \in Nat /\ \A n \in 1..Len(list) : more[n] = list[n]
  BY <1>1
<1>3. PICK f \in [0..Len(list) -> Seq(S)] :
        Erases(f, list, gone) /\ Without(list, gone) = f[Len(list)]
  BY WithoutByTurns
<1>4. PICK g \in [0..Len(more) -> Seq(S)] :
        Erases(g, more, gone) /\ Without(more, gone) = g[Len(more)]
  BY <1>2, WithoutByTurns
<1>5. Len(list) <= Len(more)
  BY <1>2
<1>6. \A n \in 0..Len(list) : f[n] = g[n]
  <2>1. Erases(f, list, gone)
    BY <1>3
  <2>2. Erases(g, more, gone)
    BY <1>4
  <2>3. more \in Seq(S)
    BY <1>2
  <2>4. \A n \in 1..Len(list) : more[n] = list[n]
    BY <1>2
  <2>. QED
    BY <1>5, <2>1, <2>2, <2>3, <2>4, ErasesAlike, SMTT(30)
<1>7. f[Len(list)] = g[Len(list)]
  BY <1>2, <1>6
<1>8. g[Len(list) + 1] = IF more[Len(list) + 1] \in gone THEN g[Len(list)]
                         ELSE Append(g[Len(list)], more[Len(list) + 1])
  <2>1. Len(list) + 1 \in 1..Len(more) /\ (Len(list) + 1) - 1 = Len(list)
    BY <1>2
  <2>. QED
    BY <1>4, <2>1 DEF Erases
<1>. QED
  BY <1>1, <1>2, <1>3, <1>4, <1>7, <1>8

(* Nothing is left of nothing.                                              *)
LEMMA WithoutEmpty ==
  ASSUME NEW gone
  PROVE  Without(<<>>, gone) = <<>>
<1>1. <<>> \in Seq({}) /\ Len(<<>>) = 0
  OBVIOUS
<1>2. PICK f \in [0..Len(<<>>) -> Seq({})] :
        Erases(f, <<>>, gone) /\ Without(<<>>, gone) = f[Len(<<>>)]
  BY <1>1, WithoutByTurns
<1>. QED
  BY <1>1, <1>2 DEF Erases

(* Each element once, and which there are. *)
Distinct(list) == \A i, j \in DOMAIN list : list[i] = list[j] => i = j
In(list) == {list[i] : i \in DOMAIN list}

(* What f has kept of the first n elements. *)
KeptOf(f, list, gone, n) ==
  /\ Len(f[n]) <= n
  /\ \A y : y \in In(f[n]) <=> y \notin gone /\ \E k \in 1..n : list[k] = y
  /\ (\E k \in 1..n : list[k] \in gone) => Len(f[n]) < n
  /\ (\A k \in 1..n : list[k] \notin gone) =>
       Len(f[n]) = n /\ \A k \in 1..n : f[n][k] = list[k]
  /\ (\A i, j \in 1..n : list[i] = list[j] => i = j) => Distinct(f[n])

(* The loop's invariant: what it has kept after n turns.                    *)
LEMMA KeptNext ==
  ASSUME NEW S, NEW list \in Seq(S), NEW gone, NEW n \in 1..Len(list),
         NEW f \in [0..Len(list) -> Seq(S)], Erases(f, list, gone),
         KeptOf(f, list, gone, n - 1)
  PROVE  KeptOf(f, list, gone, n)
<1>1. /\ n \in Nat /\ n - 1 \in Nat /\ n \in 0..Len(list) /\ n - 1 \in 0..Len(list)
      /\ list[n] \in S /\ f[n - 1] \in Seq(S) /\ f[n] \in Seq(S)
  OBVIOUS
<1>2. PICK a, b, x : a = f[n - 1] /\ b = f[n] /\ x = list[n]
  OBVIOUS
<1>3. b = IF x \in gone THEN a ELSE Append(a, x)
  BY <1>2 DEF Erases
<1>4. /\ \A k \in 1..n : k = n \/ k \in 1..(n - 1)
      /\ n \in 1..n /\ \A k \in 1..(n - 1) : k \in 1..n /\ k # n
  BY <1>1
<1>5. /\ Len(a) <= n - 1
      /\ \A y : y \in In(a) <=> y \notin gone /\ \E k \in 1..(n - 1) : list[k] = y
      /\ (\E k \in 1..(n - 1) : list[k] \in gone) => Len(a) < n - 1
      /\ (\A k \in 1..(n - 1) : list[k] \notin gone) =>
           Len(a) = n - 1 /\ \A k \in 1..(n - 1) : a[k] = list[k]
      /\ (\A i, j \in 1..(n - 1) : list[i] = list[j] => i = j) => Distinct(a)
  BY <1>2 DEF KeptOf
<1>6. a \in Seq(S) /\ b \in Seq(S) /\ x \in S /\ Len(a) \in Nat /\ Len(b) \in Nat
  BY <1>1, <1>2
<1>7. CASE x \in gone
  <2>1. b = a
    BY <1>3, <1>7
  <2>2. \A y : y \in In(b) <=> y \notin gone /\ \E k \in 1..n : list[k] = y
    BY <1>2, <1>4, <1>5, <1>7, <2>1
  <2>3. Len(b) <= n /\ Len(b) < n
    BY <1>1, <1>5, <1>6, <2>1
  <2>4. ~\A k \in 1..n : list[k] \notin gone
    BY <1>2, <1>4, <1>7
  <2>5. (\A i, j \in 1..n : list[i] = list[j] => i = j) => Distinct(b)
    BY <1>4, <1>5, <2>1
  <2>. QED
    BY <1>2, <2>2, <2>3, <2>4, <2>5 DEF KeptOf
<1>8. CASE x \notin gone
  <2>1. b = Append(a, x)
    BY <1>3, <1>8
  <2>2. /\ Len(b) = Len(a) + 1 /\ b[Len(a) + 1] = x /\ DOMAIN b = 1..Len(b)
        /\ DOMAIN a = 1..Len(a)
        /\ \A k \in 1..Len(a) : b[k] = a[k]
    BY <1>6, <2>1
  <2>3. \A k \in 1..Len(b) : k = Len(a) + 1 \/ k \in 1..Len(a)
    BY <1>6, <2>2
  <2>4. Len(a) + 1 \in 1..Len(b) /\ \A k \in 1..Len(a) : k \in 1..Len(b) /\ k # Len(a) + 1
    BY <1>6, <2>2
  <2>5. \A y : y \in In(b) <=> y \in In(a) \/ y = x
    BY <2>2, <2>3, <2>4 DEF In
  <2>6. \A y : y \in In(b) <=> y \notin gone /\ \E k \in 1..n : list[k] = y
    BY <1>2, <1>4, <1>5, <1>8, <2>5
  <2>7. Len(b) <= n
    BY <1>1, <1>5, <1>6, <2>2
  <2>8. (\E k \in 1..n : list[k] \in gone) => Len(b) < n
    <3>1. (\E k \in 1..n : list[k] \in gone) => Len(a) < n - 1
      BY <1>2, <1>4, <1>5, <1>8
    <3>. QED
      BY <1>1, <1>6, <2>2, <3>1
  <2>9. ASSUME \A k \in 1..n : list[k] \notin gone
        PROVE  Len(b) = n /\ \A k \in 1..n : b[k] = list[k]
    <3>1. Len(a) = n - 1 /\ \A k \in 1..(n - 1) : a[k] = list[k]
      BY <1>4, <1>5, <2>9
    <3>2. Len(b) = n /\ Len(a) + 1 = n
      BY <1>1, <2>2, <3>1
    <3>. QED
      BY <1>2, <1>4, <2>2, <3>1, <3>2
  <2>10. ASSUME \A i, j \in 1..n : list[i] = list[j] => i = j
         PROVE  Distinct(b)
    <3>1. Distinct(a)
      BY <1>4, <1>5, <2>10
    <3>2. x \notin In(a)
      <4>1. \A k \in 1..(n - 1) : list[k] # list[n]
        BY <1>4, <2>10
      <4>. QED
        BY <1>2, <1>5, <4>1
    <3>3. ASSUME NEW i \in 1..Len(b), NEW j \in 1..Len(b), b[i] = b[j]
          PROVE  i = j
      <4>1. CASE i \in 1..Len(a) /\ j \in 1..Len(a)
        BY <2>2, <3>1, <3>3, <4>1 DEF Distinct
      <4>2. CASE i \in 1..Len(a) /\ j = Len(a) + 1
        BY <2>2, <3>2, <3>3, <4>2 DEF In
      <4>3. CASE j \in 1..Len(a) /\ i = Len(a) + 1
        BY <2>2, <3>2, <3>3, <4>3 DEF In
      <4>. QED
        BY <2>3, <4>1, <4>2, <4>3
    <3>. QED
      BY <2>2, <3>3 DEF Distinct
  <2>. QED
    BY <1>2, <2>6, <2>7, <2>8, <2>9, <2>10 DEF KeptOf
<1>. QED
  BY <1>7, <1>8

(* What is left without some elements. *)
LEMMA WithoutLeaves ==
  ASSUME NEW S, NEW list \in Seq(S), NEW gone
  PROVE  /\ Without(list, gone) \in Seq(S)
         /\ In(Without(list, gone)) = In(list) \ gone
         /\ Distinct(list) => Distinct(Without(list, gone))
         /\ In(list) \cap gone # {} => Len(Without(list, gone)) < Len(list)
         /\ In(list) \cap gone = {} => Without(list, gone) = list
<1>1. PICK f \in [0..Len(list) -> Seq(S)] :
        Erases(f, list, gone) /\ Without(list, gone) = f[Len(list)]
  BY WithoutByTurns
<1>. DEFINE T == {n \in 0..Len(list) : KeptOf(f, list, gone, n)}
<1>2. Len(list) \in Nat /\ DOMAIN list = 1..Len(list) /\ Len(list) \in 0..Len(list)
  OBVIOUS
<1>3. 0 \in T
  <2>1. f[0] = <<>> /\ In(f[0]) = {} /\ Len(f[0]) = 0 /\ 0 \in 0..Len(list)
    BY <1>1, <1>2 DEF Erases, In
  <2>2. KeptOf(f, list, gone, 0)
    BY <2>1 DEF KeptOf, Distinct
  <2>. QED
    BY <2>1, <2>2
<1>4. ASSUME NEW n \in 1..Len(list), n - 1 \in T  PROVE n \in T
  <2>1. KeptOf(f, list, gone, n - 1) /\ n \in 0..Len(list)
    BY <1>2, <1>4
  <2>2. Erases(f, list, gone)
    BY <1>1
  <2>3. KeptOf(f, list, gone, n)
    BY <2>1, <2>2, KeptNext
  <2>. QED
    BY <2>1, <2>3
<1>5. KeptOf(f, list, gone, Len(list))
  <2>1. \A n \in 0..Len(list) : n \in T
    <3>. HIDE DEF T
    <3>. QED
      BY <1>2, <1>3, <1>4, UpTo
  <2>. QED
    BY <1>2, <2>1
<1>6. PICK rest : rest = f[Len(list)]
  OBVIOUS
<1>7. rest \in Seq(S) /\ rest = Without(list, gone)
  BY <1>1, <1>2, <1>6
<1>8. In(rest) = In(list) \ gone
  <2>1. \A y : y \in In(rest) <=> y \notin gone /\ \E k \in 1..Len(list) : list[k] = y
    BY <1>5, <1>6 DEF KeptOf
  <2>. QED
    BY <1>2, <2>1 DEF In
<1>9. Distinct(list) => Distinct(rest)
  BY <1>2, <1>5, <1>6 DEF KeptOf, Distinct
<1>10. In(list) \cap gone # {} => Len(rest) < Len(list)
  <2>1. In(list) \cap gone # {} => \E k \in 1..Len(list) : list[k] \in gone
    BY <1>2 DEF In
  <2>. QED
    BY <1>5, <1>6, <2>1 DEF KeptOf
<1>11. ASSUME In(list) \cap gone = {}  PROVE rest = list
  <2>1. \A k \in 1..Len(list) : list[k] \notin gone
    BY <1>2, <1>11 DEF In
  <2>2. Len(rest) = Len(list) /\ \A k \in 1..Len(list) : rest[k] = list[k]
    BY <1>5, <1>6, <2>1 DEF KeptOf
  <2>. QED
    BY <1>7, <2>2, SeqEqual
<1>. QED
  BY <1>7, <1>8, <1>9, <1>10, <1>11

(* Erasing in two turns is erasing in one. *)
LEMMA WithoutTwice ==
  ASSUME NEW S, NEW list \in Seq(S), NEW gone, NEW also
  PROVE  Without(Without(list, gone), also) = Without(list, gone \cup also)
<1>1. PICK f \in [0..Len(list) -> Seq(S)] :
        Erases(f, list, gone) /\ Without(list, gone) = f[Len(list)]
  BY WithoutByTurns
<1>2. PICK g \in [0..Len(list) -> Seq(S)] :
        Erases(g, list, gone \cup also) /\ Without(list, gone \cup also) = g[Len(list)]
  BY WithoutByTurns
<1>. DEFINE T == {n \in 0..Len(list) : Without(f[n], also) = g[n]}
<1>3. Len(list) \in Nat /\ Len(list) \in 0..Len(list) /\ 0 \in 0..Len(list)
  OBVIOUS
<1>4. 0 \in T
  <2>1. f[0] = <<>> /\ g[0] = <<>>
    BY <1>1, <1>2 DEF Erases
  <2>2. Without(f[0], also) = g[0]
    BY <2>1, WithoutEmpty
  <2>. QED
    BY <1>3, <2>2
<1>5. ASSUME NEW n \in 1..Len(list), n - 1 \in T  PROVE n \in T
  <2>1. /\ n \in 0..Len(list) /\ n - 1 \in 0..Len(list)
        /\ list[n] \in S /\ Without(f[n - 1], also) = g[n - 1]
    BY <1>5
  <2>2. f[n - 1] \in Seq(S)
    BY <2>1
  <2>3. /\ f[n] = IF list[n] \in gone THEN f[n - 1] ELSE Append(f[n - 1], list[n])
        /\ g[n] = IF list[n] \in gone \cup also THEN g[n - 1]
                  ELSE Append(g[n - 1], list[n])
    BY <1>1, <1>2 DEF Erases
  <2>4. Without(Append(f[n - 1], list[n]), also)
          = IF list[n] \in also THEN Without(f[n - 1], also)
            ELSE Append(Without(f[n - 1], also), list[n])
    <3>1. PICK a, x : a = f[n - 1] /\ x = list[n]
      OBVIOUS
    <3>2. a \in Seq(S)
      BY <2>2, <3>1
    <3>3. x \in S
      BY <2>1, <3>1
    <3>4. Without(Append(a, x), also)
            = IF x \in also THEN Without(a, also) ELSE Append(Without(a, also), x)
      BY <3>2, <3>3, WithoutAppended
    <3>. QED
      BY <3>1, <3>4
  <2>5. Without(f[n], also) = g[n]
    BY <2>1, <2>3, <2>4
  <2>. QED
    BY <2>1, <2>5
<1>6. \A n \in 0..Len(list) : n \in T
  <2>. HIDE DEF T
  <2>. QED
    BY <1>3, <1>4, <1>5, UpTo
<1>. QED
  BY <1>1, <1>2, <1>3, <1>6

-----------------------------------------------------------------------------
(* One bucket *)

Chains == Seq(TableKey \X TableVal)

(* A chain answers with the pair of a key, of which it has one. *)
OneEach(chain) == \A i, j \in DOMAIN chain : chain[i][1] = chain[j][1] => i = j

(* Min of a set of numbers is in it and its least.                          *)
LEMMA MinIs ==
  ASSUME NEW I \in SUBSET Nat, I # {}
  PROVE  Min(I) \in I /\ \A m \in I : Min(I) <= m
BY LeastNumber DEF Min

(* Position finds the pair of a key in a chain that has it, and the place   *)
(* behind the chain otherwise.                                              *)
LEMMA PositionFinds ==
  ASSUME NEW chain \in Chains, NEW k
  PROVE  /\ Position(chain, k) \in 1..(Len(chain) + 1)
         /\ Position(chain, k) <= Len(chain) => chain[Position(chain, k)][1] = k
         /\ Position(chain, k) <= Len(chain) <=> \E p \in In(chain) : p[1] = k
<1>. DEFINE at == {i \in DOMAIN chain : chain[i][1] = k}
<1>1. DOMAIN chain = 1..Len(chain) /\ Len(chain) \in Nat
  BY DEF Chains
<1>2. CASE at = {}
  <2>1. Position(chain, k) = Len(chain) + 1
    BY <1>2 DEF Position
  <2>2. ~\E p \in In(chain) : p[1] = k
    BY <1>2 DEF In
  <2>. QED
    BY <1>1, <2>1, <2>2
<1>3. CASE at # {}
  <2>1. at \in SUBSET Nat
    BY <1>1
  <2>2. Min(at) \in at
    <3>. HIDE DEF at
    <3>. QED
      BY <1>3, <2>1, MinIs
  <2>3. Position(chain, k) = Min(at)
    BY <1>3 DEF Position
  <2>4. Position(chain, k) \in 1..Len(chain) /\ chain[Position(chain, k)][1] = k
    BY <1>1, <2>2, <2>3
  <2>5. \E p \in In(chain) : p[1] = k
    BY <1>1, <2>4 DEF In
  <2>. QED
    BY <1>1, <2>4, <2>5
<1>. QED
  BY <1>2, <1>3

(* A pair for k at the end, or in the place of the one it has. *)
PairSet(chain, k, v) ==
  IF Position(chain, k) > Len(chain) THEN Append(chain, <<k, v>>)
  ELSE [chain EXCEPT ![Position(chain, k)] = <<k, v>>]

(* A chain in which the pair of a key was written.                          *)
LEMMA ChainSet ==
  ASSUME NEW chain \in Chains, OneEach(chain), NEW k \in TableKey, NEW v \in TableVal,
         NEW new, new = PairSet(chain, k, v)
  PROVE  /\ new \in Chains /\ OneEach(new)
         /\ In(new) = {p \in In(chain) : p[1] # k} \cup {<<k, v>>}
<1>. DEFINE i == Position(chain, k)
<1>1. DOMAIN chain = 1..Len(chain) /\ Len(chain) \in Nat
  BY DEF Chains
<1>2. /\ i \in 1..(Len(chain) + 1)
      /\ i <= Len(chain) => chain[i][1] = k
      /\ i <= Len(chain) <=> \E p \in In(chain) : p[1] = k
  BY PositionFinds
<1>3. <<k, v>> \in TableKey \X TableVal
  OBVIOUS
<1>20. PICK pair : pair = <<k, v>>
  OBVIOUS
<1>4. pair = <<k, v>> /\ pair[1] = k
  BY <1>20
<1>40. new = IF i > Len(chain) THEN Append(chain, pair) ELSE [chain EXCEPT ![i] = pair]
  BY <1>4 DEF PairSet
<1>. HIDE DEF i
<1>5. CASE i > Len(chain)
  <2>1. new = Append(chain, pair)
    BY <1>40, <1>5
  <2>2. /\ new \in Chains /\ Len(new) = Len(chain) + 1 /\ new[Len(chain) + 1] = pair
        /\ DOMAIN new = 1..(Len(chain) + 1)
        /\ \A j \in 1..Len(chain) : new[j] = chain[j]
    BY <1>3, <1>4, <2>1 DEF Chains
  <2>3. \A j \in 1..(Len(chain) + 1) : j = Len(chain) + 1 \/ j \in 1..Len(chain)
    BY <1>1
  <2>4. Len(chain) + 1 \in 1..(Len(chain) + 1) /\ \A j \in 1..Len(chain) : j \in 1..(Len(chain) + 1)
    BY <1>1
  <2>5. \A j \in 1..Len(chain) : chain[j][1] # k
    BY <1>1, <1>2, <1>5 DEF In
  <2>6. In(new) = In(chain) \cup {pair}
    BY <1>1, <2>2, <2>3, <2>4 DEF In
  <2>7. In(chain) = {p \in In(chain) : p[1] # k}
    BY <1>1, <2>5 DEF In
  <2>8. OneEach(new)
    <3>1. ASSUME NEW a \in DOMAIN new, NEW b \in DOMAIN new, new[a][1] = new[b][1]
          PROVE  a = b
      <4>1. CASE a \in 1..Len(chain) /\ b \in 1..Len(chain)
        BY <1>1, <2>2, <3>1, <4>1 DEF OneEach
      <4>2. CASE a = Len(chain) + 1 /\ b \in 1..Len(chain)
        BY <1>4, <2>2, <2>5, <3>1, <4>2
      <4>3. CASE b = Len(chain) + 1 /\ a \in 1..Len(chain)
        BY <1>4, <2>2, <2>5, <3>1, <4>3
      <4>. QED
        BY <2>2, <2>3, <4>1, <4>2, <4>3
    <3>. QED
      BY <3>1 DEF OneEach
  <2>. QED
    BY <1>4, <2>2, <2>6, <2>7, <2>8
<1>6. CASE i <= Len(chain)
  <2>0. i \in 1..Len(chain) /\ chain[i][1] = k
    BY <1>1, <1>2, <1>6
  <2>1. new = [chain EXCEPT ![i] = pair]
    <3>1. ~(i > Len(chain))
      BY <1>1, <1>2, <1>6
    <3>. QED
      BY <1>40, <3>1
  <2>2. /\ new \in Chains
        /\ DOMAIN new = 1..Len(chain) /\ new[i] = pair
        /\ \A j \in 1..Len(chain) : j # i => new[j] = chain[j]
    <3>1. pair \in TableKey \X TableVal /\ chain \in Seq(TableKey \X TableVal)
      BY <1>3, <1>4 DEF Chains
    <3>2. PICK S : S = TableKey \X TableVal
      OBVIOUS
    <3>3. chain \in Seq(S) /\ pair \in S
      BY <3>1, <3>2
    <3>30. i \in 1..Len(chain)
      BY <2>0
    <3>31. [chain EXCEPT ![i] = pair] \in Seq(S)
      BY <3>3, <3>30, ExceptSeq
    <3>4. new \in Seq(S)
      BY <2>1, <3>31
    <3>. QED
      BY <1>1, <2>0, <2>1, <3>2, <3>4 DEF Chains
  <2>3. \A j \in 1..Len(chain) : chain[j][1] = k <=> j = i
    BY <1>1, <2>0 DEF OneEach
  <2>4. In(new) = {p \in In(chain) : p[1] # k} \cup {pair}
    <3>1. ASSUME NEW p \in In(new)  PROVE p \in {q \in In(chain) : q[1] # k} \cup {pair}
      <4>1. PICK j \in 1..Len(chain) : p = new[j]
        BY <2>2, <3>1 DEF In
      <4>2. CASE j = i
        BY <2>2, <4>1, <4>2
      <4>3. CASE j # i
        BY <1>1, <2>2, <2>3, <4>1, <4>3 DEF In
      <4>. QED
        BY <4>2, <4>3
    <3>2. ASSUME NEW p \in In(chain), p[1] # k  PROVE p \in In(new)
      <4>1. PICK j \in 1..Len(chain) : p = chain[j]
        BY <1>1, <3>2 DEF In
      <4>2. j # i /\ p = new[j]
        BY <2>0, <2>2, <3>2, <4>1
      <4>. QED
        BY <2>2, <4>2 DEF In
    <3>3. pair \in In(new)
      BY <2>0, <2>2 DEF In
    <3>. QED
      BY <3>1, <3>2, <3>3
  <2>5. OneEach(new)
    <3>1. \A j \in 1..Len(chain) : new[j][1] = chain[j][1]
      BY <1>4, <2>0, <2>2
    <3>. QED
      BY <1>1, <2>2, <3>1 DEF OneEach
  <2>. QED
    BY <1>4, <2>2, <2>4, <2>5
<1>7. i > Len(chain) \/ i <= Len(chain)
  BY <1>1, <1>2
<1>. QED
  BY <1>5, <1>6, <1>7

(* A sequence without the element at m, in two pieces. *)
LEMMA CutOut ==
  ASSUME NEW S, NEW vec \in Seq(S), NEW m \in DOMAIN vec
  PROVE  /\ RemoveAt(vec, m)
              = [i \in 1..(Len(vec) - 1) |-> vec[IF i < m THEN i ELSE i + 1]]
         /\ RemoveAt(vec, m) \in Seq(S)
<1>1. DOMAIN vec = 1..Len(vec) /\ Len(vec) \in Nat /\ m \in 1..Len(vec)
  OBVIOUS
<1> DEFINE a == SubSeq(vec, 1, m - 1)
           b == SubSeq(vec, m + 1, Len(vec))
<1>2. /\ a \in Seq(S) /\ Len(a) = m - 1
      /\ \A i \in 1..(m - 1) : a[i] = vec[i]
  BY <1>1
<1>3. /\ b \in Seq(S) /\ Len(b) = Len(vec) - m
      /\ \A i \in 1..(Len(vec) - m) : b[i] = vec[m + i]
  BY <1>1
<1>30. RemoveAt(vec, m) = a \o b
  BY DEF RemoveAt
<1>. HIDE DEF a, b
<1>4. PICK c : c = a \o b
  OBVIOUS
<1>5. /\ c \in Seq(S) /\ Len(c) = Len(vec) - 1
      /\ \A i \in 1..(Len(vec) - 1) :
           c[i] = IF i <= m - 1 THEN a[i] ELSE b[i - (m - 1)]
  <2>1. /\ c \in Seq(S) /\ Len(c) = Len(a) + Len(b)
        /\ \A i \in 1..(Len(a) + Len(b)) :
             c[i] = IF i <= Len(a) THEN a[i] ELSE b[i - Len(a)]
    BY <1>2, <1>3, <1>4, ConcatProperties
  <2>2. Len(a) + Len(b) = Len(vec) - 1
    BY <1>1, <1>2, <1>3
  <2>. QED BY <1>1, <1>2, <2>1, <2>2
<1>6. ASSUME NEW i \in 1..(Len(vec) - 1)
      PROVE  c[i] = vec[IF i < m THEN i ELSE i + 1]
  <2>1. CASE i < m
    <3>1. i \in 1..(m - 1) /\ i <= m - 1
      BY <1>1, <2>1
    <3>. QED BY <1>2, <1>5, <2>1, <3>1
  <2>2. CASE ~(i < m)
    <3>1. i - (m - 1) \in 1..(Len(vec) - m) /\ m + (i - (m - 1)) = i + 1 /\ ~(i <= m - 1)
      BY <1>1, <2>2
    <3>. QED BY <1>3, <1>5, <2>2, <3>1
  <2>. QED BY <2>1, <2>2
<1>7. c = [i \in 1..(Len(vec) - 1) |-> vec[IF i < m THEN i ELSE i + 1]]
  BY <1>1, <1>5, <1>6
<1>. QED
  BY <1>4, <1>5, <1>7, <1>30

(* Its pair taken out of the chain. *)
LEMMA ChainRemove ==
  ASSUME NEW chain \in Chains, OneEach(chain), NEW i \in DOMAIN chain
  PROVE  /\ RemoveAt(chain, i) \in Chains /\ OneEach(RemoveAt(chain, i))
         /\ In(RemoveAt(chain, i)) = {p \in In(chain) : p[1] # chain[i][1]}
<1>1. DOMAIN chain = 1..Len(chain) /\ Len(chain) \in Nat /\ i \in Nat
  BY DEF Chains
<1>2. PICK new : new = RemoveAt(chain, i)
  OBVIOUS
<1>3. /\ new = [j \in 1..(Len(chain) - 1) |-> chain[IF j < i THEN j ELSE j + 1]]
      /\ new \in Chains
  BY <1>2, CutOut DEF Chains
<1>4. /\ DOMAIN new = 1..(Len(chain) - 1)
      /\ \A j \in 1..(Len(chain) - 1) : new[j] = chain[IF j < i THEN j ELSE j + 1]
  BY <1>3
<1>5. ASSUME NEW j \in 1..(Len(chain) - 1)
      PROVE  \E n \in DOMAIN chain : n # i /\ n = (IF j < i THEN j ELSE j + 1)
  <2>1. (IF j < i THEN j ELSE j + 1) \in 1..Len(chain) /\ (IF j < i THEN j ELSE j + 1) # i
    BY <1>1
  <2>. QED
    BY <1>1, <2>1
<1>6. ASSUME NEW n \in DOMAIN chain, n # i
      PROVE  \E j \in 1..(Len(chain) - 1) : n = IF j < i THEN j ELSE j + 1
  <2>1. CASE n < i
    <3>1. n \in 1..(Len(chain) - 1)
      BY <1>1, <2>1
    <3>. QED
      BY <2>1, <3>1
  <2>2. CASE ~(n < i)
    <3>1. n - 1 \in 1..(Len(chain) - 1) /\ ~(n - 1 < i) /\ (n - 1) + 1 = n
      BY <1>1, <1>6, <2>2
    <3>. QED
      BY <3>1
  <2>. QED
    BY <2>1, <2>2
<1>7. ASSUME NEW p \in In(new)  PROVE p \in In(chain) /\ p[1] # chain[i][1]
  <2>1. PICK j \in 1..(Len(chain) - 1) : p = new[j]
    BY <1>4 DEF In
  <2>2. PICK n \in DOMAIN chain : n # i /\ n = (IF j < i THEN j ELSE j + 1)
    BY <1>5
  <2>3. p = chain[n]
    BY <1>4, <2>1, <2>2
  <2>. QED
    BY <2>2, <2>3 DEF In, OneEach
<1>8. ASSUME NEW p \in In(chain), p[1] # chain[i][1]  PROVE p \in In(new)
  <2>1. PICK n \in DOMAIN chain : p = chain[n]
    BY DEF In
  <2>2. n # i
    BY <1>8, <2>1
  <2>3. PICK j \in 1..(Len(chain) - 1) : n = IF j < i THEN j ELSE j + 1
    BY <1>6, <2>2
  <2>4. p = new[j]
    BY <1>4, <2>1, <2>3
  <2>. QED
    BY <1>4, <2>4 DEF In
<1>9. OneEach(new)
  <2>1. ASSUME NEW a \in DOMAIN new, NEW b \in DOMAIN new, new[a][1] = new[b][1]
        PROVE  a = b
    <3>1. PICK m \in DOMAIN chain : m # i /\ m = (IF a < i THEN a ELSE a + 1)
      BY <1>4, <1>5
    <3>2. PICK n \in DOMAIN chain : n # i /\ n = (IF b < i THEN b ELSE b + 1)
      BY <1>4, <1>5
    <3>3. new[a] = chain[m] /\ new[b] = chain[n]
      BY <1>4, <3>1, <3>2
    <3>4. m = n
      BY <2>1, <3>3 DEF OneEach
    <3>5. a \in Nat /\ b \in Nat
      BY <1>4
    <3>. QED
      BY <1>1, <3>1, <3>2, <3>4, <3>5
  <2>. QED
    BY <2>1 DEF OneEach
<1>. QED
  BY <1>2, <1>3, <1>7, <1>8, <1>9

-----------------------------------------------------------------------------
(* One table *)

Tables == [Bucket -> Chains]

(* Each key is in its own bucket, once. *)
Hashed(t) ==
  /\ t \in Tables
  /\ \A b \in Bucket : OneEach(t[b]) /\ \A p \in In(t[b]) : BucketOf(p[1]) = b

(* Each key has one bucket.                                                 *)
LEMMA BucketIs ==
  ASSUME NEW k \in TableKey
  PROVE  BucketOf(k) \in Bucket
<1>1. hashId[k] \in Nat /\ TableSize \in Nat /\ TableSize # 0
  BY HashAssumption
<1>2. PICK a : a = hashId[k]
  OBVIOUS
<1>3. a % TableSize \in 0..(TableSize - 1)
  BY <1>1, <1>2
<1>. QED
  BY <1>2, <1>3 DEF BucketOf, Bucket

(* What is in a chain of a table is a pair of a key and a value.            *)
LEMMA InChain ==
  ASSUME NEW chain \in Chains, NEW p \in In(chain)
  PROVE  p \in TableKey \X TableVal /\ p[1] \in TableKey /\ p[2] \in TableVal
BY DEF In, Chains

(* What a table answers is what the chain of the key's bucket holds. *)
LEMMA TableAnswers ==
  ASSUME NEW t, Hashed(t), NEW k \in TableKey
  PROVE  /\ HasObject(t, k) <=> \E p \in In(t[BucketOf(k)]) : p[1] = k
         /\ \A p \in In(t[BucketOf(k)]) : p[1] = k => ObjectAt(t, k) = p[2]
         /\ HasObject(t, k) => ObjectAt(t, k) \in TableVal
<1>1. PICK chain, n : chain = t[BucketOf(k)] /\ n = Position(chain, k)
  OBVIOUS
<1>2. chain \in Chains /\ OneEach(chain)
  BY <1>1, BucketIs DEF Hashed, Tables
<1>3. /\ n \in 1..(Len(chain) + 1)
      /\ n <= Len(chain) => chain[n][1] = k
      /\ n <= Len(chain) <=> \E p \in In(chain) : p[1] = k
  BY <1>1, <1>2, PositionFinds
<1>4. HasObject(t, k) <=> n <= Len(chain)
  BY <1>1 DEF HasObject
<1>5. ObjectAt(t, k) = chain[n][2]
  BY <1>1 DEF ObjectAt
<1>6. DOMAIN chain = 1..Len(chain) /\ Len(chain) \in Nat
  BY <1>2 DEF Chains
<1>7. ASSUME NEW p \in In(chain), p[1] = k  PROVE p[2] = chain[n][2]
  <2>1. PICK i \in DOMAIN chain : p = chain[i]
    BY DEF In
  <2>2. n \in DOMAIN chain /\ chain[n][1] = k
    BY <1>3, <1>6, <1>7
  <2>3. i = n
    BY <1>2, <1>7, <2>1, <2>2 DEF OneEach
  <2>. QED
    BY <2>1, <2>3
<1>8. n <= Len(chain) => chain[n][2] \in TableVal
  <2>1. n <= Len(chain) => chain[n] \in In(chain)
    BY <1>3, <1>6 DEF In
  <2>. QED
    BY <1>2, <2>1, InChain
<1>. QED
  BY <1>1, <1>3, <1>4, <1>5, <1>7, <1>8

(* Two tables with the same chain at a key's bucket answer the same. *)
LEMMA SameBucket ==
  ASSUME NEW t, NEW u, NEW k, t[BucketOf(k)] = u[BucketOf(k)]
  PROVE  (HasObject(t, k) <=> HasObject(u, k)) /\ ObjectAt(t, k) = ObjectAt(u, k)
BY DEF HasObject, ObjectAt

(* set: this key has this value, the others keep theirs. *)
LEMMA SetAnswers ==
  ASSUME NEW t, Hashed(t), NEW k \in TableKey, NEW v \in TableVal
  PROVE  /\ Hashed(WithSet(t, k, v))
         /\ \A x \in TableKey :
              /\ HasObject(WithSet(t, k, v), x) <=> x = k \/ HasObject(t, x)
              /\ HasObject(WithSet(t, k, v), x) =>
                   ObjectAt(WithSet(t, k, v), x) = IF x = k THEN v ELSE ObjectAt(t, x)
<1>1. PICK b, chain, u : b = BucketOf(k) /\ chain = t[b] /\ u = WithSet(t, k, v)
  OBVIOUS
<1>2. b \in Bucket /\ t \in Tables /\ chain \in Chains /\ OneEach(chain)
  BY <1>1, BucketIs DEF Hashed, Tables
<1>3. PICK new : new = PairSet(chain, k, v)
  OBVIOUS
<1>4. /\ new \in Chains /\ OneEach(new)
      /\ In(new) = {p \in In(chain) : p[1] # k} \cup {<<k, v>>}
  <2>1. chain \in Chains
    BY <1>2
  <2>2. OneEach(chain)
    BY <1>2
  <2>. QED
    BY <1>3, <2>1, <2>2, ChainSet
<1>5. u = [t EXCEPT ![b] = new]
  BY <1>1, <1>3 DEF WithSet, PairSet
<1>6. u \in Tables /\ u[b] = new /\ \A c \in Bucket : c # b => u[c] = t[c]
  BY <1>2, <1>4, <1>5 DEF Tables
<1>7. Hashed(u)
  <2>1. ASSUME NEW c \in Bucket
        PROVE  OneEach(u[c]) /\ \A p \in In(u[c]) : BucketOf(p[1]) = c
    <3>1. CASE c = b
      <4>1. \A p \in In(chain) : BucketOf(p[1]) = b
        BY <1>1, <1>2 DEF Hashed
      <4>2. ASSUME NEW p \in In(new)  PROVE BucketOf(p[1]) = b
        <5>1. CASE p \in In(chain)
          BY <4>1, <5>1
        <5>2. CASE p = <<k, v>>
          BY <1>1, <5>2
        <5>. QED
          BY <1>4, <5>1, <5>2
      <4>. QED
        BY <1>4, <1>6, <3>1, <4>2
    <3>2. CASE c # b
      BY <1>6, <3>2 DEF Hashed
    <3>. QED
      BY <3>1, <3>2
  <2>. QED
    BY <1>6, <2>1 DEF Hashed
<1>8. ASSUME NEW x \in TableKey
      PROVE  /\ HasObject(u, x) <=> x = k \/ HasObject(t, x)
             /\ HasObject(u, x) => ObjectAt(u, x) = IF x = k THEN v ELSE ObjectAt(t, x)
  <2>1. CASE BucketOf(x) # b
    <3>1. BucketOf(x) \in Bucket
      BY BucketIs
    <3>2. u[BucketOf(x)] = t[BucketOf(x)] /\ x # k
      BY <1>1, <1>6, <2>1, <3>1
    <3>. QED
      BY <3>2, SameBucket
  <2>2. CASE BucketOf(x) = b
    <3>1. /\ HasObject(u, x) <=> \E p \in In(new) : p[1] = x
          /\ \A p \in In(new) : p[1] = x => ObjectAt(u, x) = p[2]
      BY <1>6, <1>7, <2>2, TableAnswers
    <3>2. /\ HasObject(t, x) <=> \E p \in In(chain) : p[1] = x
          /\ \A p \in In(chain) : p[1] = x => ObjectAt(t, x) = p[2]
      BY <1>1, <2>2, TableAnswers
    <3>3. CASE x = k
      <4>1. PICK q : q = <<k, v>>
        OBVIOUS
      <4>2. q \in In(new) /\ q[1] = x /\ q[2] = v
        BY <1>4, <3>3, <4>1
      <4>. QED
        BY <3>1, <3>3, <4>2
    <3>4. CASE x # k
      <4>1. \A p : p[1] = x => (p \in In(new) <=> p \in In(chain))
        <5>1. PICK q : q = <<k, v>>
          OBVIOUS
        <5>2. q[1] = k /\ In(new) = {p \in In(chain) : p[1] # k} \cup {q}
          BY <1>4, <5>1
        <5>. QED
          BY <3>4, <5>2
      <4>. QED
        BY <3>1, <3>2, <3>4, <4>1
    <3>. QED
      BY <3>3, <3>4
  <2>. QED
    BY <2>1, <2>2
<1>. QED
  BY <1>1, <1>7, <1>8

(* remove_keeping_key: this key has none, the others keep theirs. *)
LEMMA RemoveAnswers ==
  ASSUME NEW t, Hashed(t), NEW k \in TableKey
  PROVE  /\ Hashed(WithoutPair(t, k))
         /\ \A x \in TableKey :
              /\ HasObject(WithoutPair(t, k), x) <=> x # k /\ HasObject(t, x)
              /\ HasObject(WithoutPair(t, k), x) =>
                   ObjectAt(WithoutPair(t, k), x) = ObjectAt(t, x)
<1>1. PICK b, chain, u, n : /\ b = BucketOf(k) /\ chain = t[b] /\ u = WithoutPair(t, k)
                            /\ n = Position(chain, k)
  OBVIOUS
<1>2. b \in Bucket /\ t \in Tables /\ chain \in Chains /\ OneEach(chain)
  BY <1>1, BucketIs DEF Hashed, Tables
<1>3. /\ n \in 1..(Len(chain) + 1)
      /\ n <= Len(chain) => chain[n][1] = k
      /\ n <= Len(chain) <=> \E p \in In(chain) : p[1] = k
  BY <1>1, <1>2, PositionFinds
<1>4. DOMAIN chain = 1..Len(chain) /\ Len(chain) \in Nat
  BY <1>2 DEF Chains
<1>5. PICK new : new = IF n > Len(chain) THEN chain ELSE RemoveAt(chain, n)
  OBVIOUS
<1>6. new \in Chains /\ OneEach(new) /\ In(new) = {p \in In(chain) : p[1] # k}
  <2>1. CASE n > Len(chain)
    <3>1. new = chain /\ \A p \in In(chain) : p[1] # k
      BY <1>3, <1>4, <1>5, <2>1
    <3>. QED
      BY <1>2, <3>1
  <2>2. CASE n <= Len(chain)
    <3>1. n \in DOMAIN chain /\ chain[n][1] = k /\ new = RemoveAt(chain, n)
      BY <1>3, <1>4, <1>5, <2>2
    <3>2. n \in DOMAIN chain
      BY <3>1
    <3>3. /\ RemoveAt(chain, n) \in Chains /\ OneEach(RemoveAt(chain, n))
          /\ In(RemoveAt(chain, n)) = {p \in In(chain) : p[1] # chain[n][1]}
      BY <1>2, <3>2, ChainRemove
    <3>. QED
      BY <3>1, <3>3
  <2>3. n > Len(chain) \/ n <= Len(chain)
    BY <1>3, <1>4
  <2>. QED
    BY <2>1, <2>2, <2>3
<1>7. u = [t EXCEPT ![b] = new]
  BY <1>1, <1>5 DEF WithoutPair
<1>8. u \in Tables /\ u[b] = new /\ \A c \in Bucket : c # b => u[c] = t[c]
  BY <1>2, <1>6, <1>7 DEF Tables
<1>9. Hashed(u)
  <2>1. ASSUME NEW c \in Bucket
        PROVE  OneEach(u[c]) /\ \A p \in In(u[c]) : BucketOf(p[1]) = c
    <3>1. CASE c = b
      BY <1>1, <1>2, <1>6, <1>8, <3>1 DEF Hashed
    <3>2. CASE c # b
      BY <1>8, <3>2 DEF Hashed
    <3>. QED
      BY <3>1, <3>2
  <2>. QED
    BY <1>8, <2>1 DEF Hashed
<1>10. ASSUME NEW x \in TableKey
       PROVE  /\ HasObject(u, x) <=> x # k /\ HasObject(t, x)
              /\ HasObject(u, x) => ObjectAt(u, x) = ObjectAt(t, x)
  <2>1. CASE BucketOf(x) # b
    <3>1. BucketOf(x) \in Bucket
      BY BucketIs
    <3>2. u[BucketOf(x)] = t[BucketOf(x)] /\ x # k
      BY <1>1, <1>8, <2>1, <3>1
    <3>. QED
      BY <3>2, SameBucket
  <2>2. CASE BucketOf(x) = b
    <3>1. /\ HasObject(u, x) <=> \E p \in In(new) : p[1] = x
          /\ \A p \in In(new) : p[1] = x => ObjectAt(u, x) = p[2]
      BY <1>8, <1>9, <2>2, TableAnswers
    <3>2. /\ HasObject(t, x) <=> \E p \in In(chain) : p[1] = x
          /\ \A p \in In(chain) : p[1] = x => ObjectAt(t, x) = p[2]
      BY <1>1, <2>2, TableAnswers
    <3>. QED
      BY <1>6, <3>1, <3>2
  <2>. QED
    BY <2>1, <2>2
<1>. QED
  BY <1>1, <1>9, <1>10

(* An empty table is sound and has no key.                                  *)
LEMMA EmptyAnswers == Hashed(EmptyTable) /\ \A x \in TableKey : ~HasObject(EmptyTable, x)
<1>1. \A b \in Bucket : EmptyTable[b] = <<>>
  BY DEF EmptyTable
<1>2. <<>> \in Chains /\ In(<<>>) = {} /\ OneEach(<<>>)
  BY DEF Chains, In, OneEach
<1>3. EmptyTable \in Tables
  BY <1>2 DEF EmptyTable, Tables
<1>4. Hashed(EmptyTable)
  BY <1>1, <1>2, <1>3 DEF Hashed
<1>5. ASSUME NEW x \in TableKey  PROVE ~HasObject(EmptyTable, x)
  BY <1>1, <1>2, <1>4, BucketIs, TableAnswers
<1>. QED
  BY <1>4, <1>5

-----------------------------------------------------------------------------
(* The loops over a table *)

HashedTables == {t \in Tables : Hashed(t)}
ListedTables == HashedTables \X Seq(TableKey)

(* What is left of t without some keys. *)
Minus(u, t, gone) ==
  /\ Hashed(u)
  /\ \A x \in TableKey :
       /\ HasObject(u, x) <=> x \notin gone /\ HasObject(t, x)
       /\ HasObject(u, x) => ObjectAt(u, x) = ObjectAt(t, x)

(* One key less.                                                            *)
LEMMA MinusNext ==
  ASSUME NEW u, NEW t, NEW gone, Minus(u, t, gone), NEW k \in TableKey
  PROVE  Minus(WithoutPair(u, k), t, gone \cup {k})
<1>1. Hashed(u)
  BY DEF Minus
<1>2. /\ Hashed(WithoutPair(u, k))
      /\ \A x \in TableKey :
           /\ HasObject(WithoutPair(u, k), x) <=> x # k /\ HasObject(u, x)
           /\ HasObject(WithoutPair(u, k), x) => ObjectAt(WithoutPair(u, k), x) = ObjectAt(u, x)
  BY <1>1, RemoveAnswers
<1>. QED
  BY <1>2 DEF Minus

(* A sound table is one of the tables over which the loops run.             *)
LEMMA HashedTypes ==
  ASSUME NEW t, Hashed(t)
  PROVE  t \in HashedTables
BY DEF Hashed, HashedTables

(* The loop of clear, turn by turn. *)
Clears(f, t, keys) ==
  /\ f[0] = t
  /\ \A n \in 1..Len(keys) : f[n] = WithoutPair(f[n - 1], keys[n])

(* What Cleared gives is where that loop ends.                              *)
LEMMA ClearedByTurns ==
  ASSUME NEW t, Hashed(t), NEW keys \in Seq(TableKey)
  PROVE  \E f \in [0..Len(keys) -> HashedTables] :
           Clears(f, t, keys) /\ Cleared(t, keys) = f[Len(keys)]
<1>. DEFINE turn == [p \in (1..Len(keys)) \X HashedTables |-> WithoutPair(p[2], keys[p[1]])]
            Loop(f) == f = [n \in 0..Len(keys) |->
                              IF n = 0 THEN t ELSE WithoutPair(f[n - 1], keys[n])]
<1>1. ASSUME NEW n \in 1..Len(keys), NEW s \in HashedTables
      PROVE  WithoutPair(s, keys[n]) \in HashedTables
  <2>1. Hashed(s) /\ keys[n] \in TableKey
    BY DEF HashedTables
  <2>2. Hashed(WithoutPair(s, keys[n]))
    BY <2>1, RemoveAnswers
  <2>. QED
    BY <2>2, HashedTypes
<1>2. Len(keys) \in Nat /\ t \in HashedTables
  BY HashedTypes
<1>3. turn \in [(1..Len(keys)) \X HashedTables -> HashedTables]
  <2>1. ASSUME NEW p \in (1..Len(keys)) \X HashedTables  PROVE WithoutPair(p[2], keys[p[1]]) \in HashedTables
    <3>1. p[1] \in 1..Len(keys) /\ p[2] \in HashedTables
      OBVIOUS
    <3>. QED
      BY <1>1, <3>1
  <2>. QED
    BY <2>1
<1>4. PICK f \in [0..Len(keys) -> HashedTables] : Runs(f, Len(keys), t, turn)
  <2>. HIDE DEF turn
  <2>. QED
    BY <1>2, <1>3, TurnsExist
<1>5. ASSUME NEW n \in 1..Len(keys)
      PROVE  f[n] = WithoutPair(f[n - 1], keys[n])
  <2>1. n - 1 \in 0..Len(keys)
    BY <1>2
  <2>2. PICK p : p = <<n, f[n - 1]>>
    OBVIOUS
  <2>3. p \in (1..Len(keys)) \X HashedTables /\ p[1] = n /\ p[2] = f[n - 1]
    BY <2>1, <2>2
  <2>4. f[n] = turn[p]
    BY <1>4, <2>2 DEF Runs
  <2>5. turn[p] = WithoutPair(p[2], keys[p[1]])
    BY <2>3
  <2>. QED
    BY <2>3, <2>4, <2>5
<1>6. Loop(f)
  <2>1. \A n \in 0..Len(keys) : n = 0 \/ n \in 1..Len(keys)
    BY <1>2
  <2>2. f[0] = t
    BY <1>4 DEF Runs
  <2>3. \A n \in 0..Len(keys) : f[n] = IF n = 0 THEN t ELSE WithoutPair(f[n - 1], keys[n])
    BY <1>5, <2>1, <2>2
  <2>. QED
    BY <2>3
<1>7. \E g : Loop(g)
  BY <1>6
<1>8. Loop(CHOOSE g : Loop(g)) /\ Cleared(t, keys) = (CHOOSE g : Loop(g))[Len(keys)]
  BY <1>7 DEF Cleared
<1>9. PICK g : Loop(g) /\ Cleared(t, keys) = g[Len(keys)]
  BY <1>8
<1>10. g[0] = t /\ \A n \in 1..Len(keys) : g[n] = WithoutPair(g[n - 1], keys[n])
  <2>1. \A n \in 0..Len(keys) : g[n] = IF n = 0 THEN t ELSE WithoutPair(g[n - 1], keys[n])
    BY <1>9
  <2>2. 0 \in 0..Len(keys) /\ \A n \in 1..Len(keys) : n \in 0..Len(keys) /\ n # 0
    BY <1>2
  <2>. HIDE DEF Loop
  <2>. QED
    BY <2>1, <2>2
<1>11. g \in [0..Len(keys) -> HashedTables]
  <2>. DEFINE T == {n \in 0..Len(keys) : g[n] \in HashedTables}
  <2>1. 0 \in T
    <3>1. 0 \in 0..Len(keys) /\ g[0] \in HashedTables
      BY <1>2, <1>10
    <3>. QED
      BY <3>1
  <2>2. ASSUME NEW n \in 1..Len(keys), n - 1 \in T  PROVE n \in T
    <3>1. g[n - 1] \in HashedTables /\ n \in 0..Len(keys)
      BY <1>2, <2>2
    <3>2. g[n] \in HashedTables
      <4>1. PICK s : s = g[n - 1]
        OBVIOUS
      <4>2. s \in HashedTables
        BY <3>1, <4>1
      <4>3. WithoutPair(s, keys[n]) \in HashedTables
        BY <1>1, <4>2
      <4>. QED
        BY <1>10, <4>1, <4>3
    <3>. QED
      BY <3>1, <3>2
  <2>3. \A n \in 0..Len(keys) : n \in T
    <3>. HIDE DEF T
    <3>. QED
      BY <1>2, <2>1, <2>2, UpTo
  <2>4. g = [n \in 0..Len(keys) |-> g[n]]
    BY <1>9
  <2>. QED
    BY <2>3, <2>4
<1>. QED
  BY <1>9, <1>10, <1>11 DEF Clears

(* When clear is through with the keys of a table it has none. *)
LEMMA ClearedAnswers ==
  ASSUME NEW t, Hashed(t), NEW keys \in Seq(TableKey)
  PROVE  Minus(Cleared(t, keys), t, In(keys))
<1>1. PICK f \in [0..Len(keys) -> HashedTables] :
        Clears(f, t, keys) /\ Cleared(t, keys) = f[Len(keys)]
  BY ClearedByTurns
<1>. DEFINE Keys(n) == {keys[i] : i \in 1..n}
            T == {n \in 0..Len(keys) : Minus(f[n], t, Keys(n))}
<1>2. Len(keys) \in Nat /\ DOMAIN keys = 1..Len(keys) /\ Len(keys) \in 0..Len(keys)
  OBVIOUS
<1>3. 0 \in T
  <2>1. f[0] = t /\ Keys(0) = {} /\ 0 \in 0..Len(keys)
    BY <1>1, <1>2 DEF Clears
  <2>2. Minus(f[0], t, Keys(0))
    BY <2>1 DEF Minus
  <2>. QED
    BY <2>1, <2>2
<1>4. ASSUME NEW n \in 1..Len(keys), n - 1 \in T  PROVE n \in T
  <2>1. Minus(f[n - 1], t, Keys(n - 1)) /\ n \in 0..Len(keys) /\ keys[n] \in TableKey
    BY <1>4
  <2>2. PICK u, k, gone : u = f[n - 1] /\ k = keys[n] /\ gone = Keys(n - 1)
    OBVIOUS
  <2>3. k \in TableKey
    BY <2>1, <2>2
  <2>4. Minus(u, t, gone)
    BY <2>1, <2>2
  <2>5. Minus(WithoutPair(u, k), t, gone \cup {k})
    BY <2>3, <2>4, MinusNext
  <2>6. gone \cup {k} = Keys(n)
    <3>1. \A i \in 1..n : i = n \/ i \in 1..(n - 1)
      BY <1>2
    <3>2. n \in 1..n /\ \A i \in 1..(n - 1) : i \in 1..n
      BY <1>2
    <3>. QED
      BY <2>2, <3>1, <3>2
  <2>7. f[n] = WithoutPair(u, k)
    BY <1>1, <2>2 DEF Clears
  <2>. QED
    BY <2>1, <2>5, <2>6, <2>7
<1>5. Minus(f[Len(keys)], t, Keys(Len(keys)))
  <2>1. \A n \in 0..Len(keys) : n \in T
    <3>. HIDE DEF T
    <3>. QED
      BY <1>2, <1>3, <1>4, UpTo
  <2>. QED
    BY <1>2, <2>1
<1>6. Keys(Len(keys)) = In(keys)
  BY <1>2 DEF In
<1>. QED
  BY <1>1, <1>5, <1>6

(* A turn of remove_element takes a key with the element, if there is one. *)
LEMMA ElementTurnTakes ==
  ASSUME NEW s \in ListedTables, NEW v
  PROVE  /\ KeysOf(s[1], s[2], v) = {} => ElementTurn(s, v) = s
         /\ KeysOf(s[1], s[2], v) # {} =>
              \E k \in In(s[2]) :
                /\ k \in TableKey /\ HasObject(s[1], k) /\ ObjectAt(s[1], k) = v
                /\ ElementTurn(s, v) = <<WithoutPair(s[1], k), Without(s[2], {k})>>
<1>1. PICK t, keys : t = s[1] /\ keys = s[2]
  OBVIOUS
<1>2. Hashed(t) /\ keys \in Seq(TableKey)
  BY <1>1 DEF ListedTables, HashedTables
<1>3. PICK at : at = KeysOf(t, keys, v)
  OBVIOUS
<1>4. CASE at = {}
  BY <1>1, <1>3, <1>4 DEF ElementTurn
<1>5. CASE at # {}
  <2>1. at \in SUBSET Nat
    BY <1>2, <1>3 DEF KeysOf
  <2>2. Min(at) \in at
    BY <1>5, <2>1, MinIs
  <2>3. PICK k : k = keys[Min(at)]
    OBVIOUS
  <2>4. /\ Min(at) \in DOMAIN keys /\ HasObject(t, k) /\ ObjectAt(t, k) = v
    BY <1>3, <2>2, <2>3 DEF KeysOf
  <2>5. k \in In(keys) /\ k \in TableKey
    BY <1>2, <2>3, <2>4 DEF In
  <2>6. ElementTurn(s, v) = <<WithoutPair(t, k), KeysWithout(t, keys, k)>>
    BY <1>1, <1>3, <1>5, <2>3 DEF ElementTurn
  <2>7. KeysWithout(t, keys, k) = Without(keys, {k})
    BY <2>4 DEF KeysWithout
  <2>. QED
    BY <1>1, <1>3, <1>5, <2>4, <2>5, <2>6, <2>7
<1>. QED
  BY <1>4, <1>5

(* The loop of remove_element, turn by turn. *)
Takes(f, t, keys, v) ==
  /\ f[0] = <<t, keys>>
  /\ \A n \in 1..Len(keys) : f[n] = ElementTurn(f[n - 1], v)

(* What WithoutElement gives is where that loop ends.                       *)
LEMMA WithoutElementByTurns ==
  ASSUME NEW t, Hashed(t), NEW keys \in Seq(TableKey), NEW v
  PROVE  \E f \in [0..Len(keys) -> ListedTables] :
           Takes(f, t, keys, v) /\ WithoutElement(t, keys, v) = f[Len(keys)]
<1>. DEFINE turn == [p \in (1..Len(keys)) \X ListedTables |-> ElementTurn(p[2], v)]
            Loop(f) == f = [n \in 0..Len(keys) |->
                              IF n = 0 THEN <<t, keys>> ELSE ElementTurn(f[n - 1], v)]
<1>1. ASSUME NEW n \in 1..Len(keys), NEW s \in ListedTables
      PROVE  ElementTurn(s, v) \in ListedTables
  <2>1. CASE KeysOf(s[1], s[2], v) = {}
    BY <2>1, ElementTurnTakes
  <2>2. CASE KeysOf(s[1], s[2], v) # {}
    <3>1. PICK k \in TableKey : ElementTurn(s, v) = <<WithoutPair(s[1], k), Without(s[2], {k})>>
      BY <2>2, ElementTurnTakes
    <3>2. Hashed(s[1]) /\ s[2] \in Seq(TableKey)
      BY DEF ListedTables, HashedTables
    <3>3. WithoutPair(s[1], k) \in HashedTables
      BY <3>2, RemoveAnswers, HashedTypes
    <3>4. Without(s[2], {k}) \in Seq(TableKey)
      BY <3>2, WithoutLeaves
    <3>. QED
      BY <3>1, <3>3, <3>4 DEF ListedTables
  <2>. QED
    BY <2>1, <2>2
<1>2. Len(keys) \in Nat /\ <<t, keys>> \in ListedTables
  BY HashedTypes DEF ListedTables
<1>3. turn \in [(1..Len(keys)) \X ListedTables -> ListedTables]
  <2>1. ASSUME NEW p \in (1..Len(keys)) \X ListedTables  PROVE ElementTurn(p[2], v) \in ListedTables
    <3>1. p[1] \in 1..Len(keys) /\ p[2] \in ListedTables
      OBVIOUS
    <3>. QED
      BY <1>1, <3>1
  <2>. QED
    BY <2>1
<1>4. PICK f \in [0..Len(keys) -> ListedTables] : Runs(f, Len(keys), <<t, keys>>, turn)
  <2>. HIDE DEF turn
  <2>. QED
    BY <1>2, <1>3, TurnsExist
<1>5. ASSUME NEW n \in 1..Len(keys)
      PROVE  f[n] = ElementTurn(f[n - 1], v)
  <2>1. n - 1 \in 0..Len(keys)
    BY <1>2
  <2>2. PICK p : p = <<n, f[n - 1]>>
    OBVIOUS
  <2>3. p \in (1..Len(keys)) \X ListedTables /\ p[1] = n /\ p[2] = f[n - 1]
    BY <2>1, <2>2
  <2>4. f[n] = turn[p]
    BY <1>4, <2>2 DEF Runs
  <2>5. turn[p] = ElementTurn(p[2], v)
    BY <2>3
  <2>. QED
    BY <2>3, <2>4, <2>5
<1>6. Loop(f)
  <2>1. \A n \in 0..Len(keys) : n = 0 \/ n \in 1..Len(keys)
    BY <1>2
  <2>2. f[0] = <<t, keys>>
    BY <1>4 DEF Runs
  <2>3. \A n \in 0..Len(keys) : f[n] = IF n = 0 THEN <<t, keys>> ELSE ElementTurn(f[n - 1], v)
    BY <1>5, <2>1, <2>2
  <2>. QED
    BY <2>3
<1>7. \E g : Loop(g)
  BY <1>6
<1>8. Loop(CHOOSE g : Loop(g)) /\ WithoutElement(t, keys, v) = (CHOOSE g : Loop(g))[Len(keys)]
  BY <1>7 DEF WithoutElement
<1>9. PICK g : Loop(g) /\ WithoutElement(t, keys, v) = g[Len(keys)]
  BY <1>8
<1>10. g[0] = <<t, keys>> /\ \A n \in 1..Len(keys) : g[n] = ElementTurn(g[n - 1], v)
  <2>1. \A n \in 0..Len(keys) : g[n] = IF n = 0 THEN <<t, keys>> ELSE ElementTurn(g[n - 1], v)
    BY <1>9
  <2>2. 0 \in 0..Len(keys) /\ \A n \in 1..Len(keys) : n \in 0..Len(keys) /\ n # 0
    BY <1>2
  <2>. HIDE DEF Loop
  <2>. QED
    BY <2>1, <2>2
<1>11. g \in [0..Len(keys) -> ListedTables]
  <2>. DEFINE T == {n \in 0..Len(keys) : g[n] \in ListedTables}
  <2>1. 0 \in T
    <3>1. 0 \in 0..Len(keys) /\ g[0] \in ListedTables
      BY <1>2, <1>10
    <3>. QED
      BY <3>1
  <2>2. ASSUME NEW n \in 1..Len(keys), n - 1 \in T  PROVE n \in T
    <3>1. g[n - 1] \in ListedTables /\ n \in 0..Len(keys)
      BY <1>2, <2>2
    <3>2. g[n] \in ListedTables
      <4>1. PICK s : s = g[n - 1]
        OBVIOUS
      <4>2. s \in ListedTables
        BY <3>1, <4>1
      <4>3. ElementTurn(s, v) \in ListedTables
        BY <1>1, <4>2
      <4>. QED
        BY <1>10, <4>1, <4>3
    <3>. QED
      BY <3>1, <3>2
  <2>3. \A n \in 0..Len(keys) : n \in T
    <3>. HIDE DEF T
    <3>. QED
      BY <1>2, <2>1, <2>2, UpTo
  <2>4. g = [n \in 0..Len(keys) |-> g[n]]
    BY <1>9
  <2>. QED
    BY <2>3, <2>4
<1>. QED
  BY <1>9, <1>10, <1>11 DEF Takes

(* The keys of t with an element. *)
Holding(t, v) == {k \in TableKey : HasObject(t, k) /\ ObjectAt(t, k) = v}

(* A table and its list of keys: each key that has an object, once.         *)
Listed(t, keys) ==
  /\ keys \in Seq(TableKey) /\ Distinct(keys)
  /\ \A k \in TableKey : HasObject(t, k) <=> k \in In(keys)

(* What n turns of remove_element have done: some keys with the element are *)
(* gone, as many as there were turns unless none is left.                   *)
Taken(s, n, gone, t, keys, v) ==
  /\ gone \subseteq Holding(t, v)
  /\ Minus(s[1], t, gone) /\ s[2] = Without(keys, gone)
  /\ KeysOf(s[1], s[2], v) = {} \/ Len(s[2]) <= Len(keys) - n

(* The loop's invariant: some keys with the element are taken, and either   *)
(* none is left or the list has become shorter in each turn.                *)
LEMMA TakenNext ==
  ASSUME NEW t, NEW keys \in Seq(TableKey), NEW v, NEW n \in 1..Len(keys),
         NEW s \in ListedTables, NEW gone, Taken(s, n - 1, gone, t, keys, v)
  PROVE  \E more : Taken(ElementTurn(s, v), n, more, t, keys, v)
<1>1. CASE KeysOf(s[1], s[2], v) = {}
  <2>1. ElementTurn(s, v) = s
    BY <1>1, ElementTurnTakes
  <2>2. Taken(s, n, gone, t, keys, v)
    BY <1>1 DEF Taken
  <2>. QED
    BY <2>1, <2>2
<1>2. CASE KeysOf(s[1], s[2], v) # {}
  <2>1. PICK k \in In(s[2]) :
          /\ k \in TableKey /\ HasObject(s[1], k) /\ ObjectAt(s[1], k) = v
          /\ ElementTurn(s, v) = <<WithoutPair(s[1], k), Without(s[2], {k})>>
    BY <1>2, ElementTurnTakes
  <2>2. /\ gone \subseteq Holding(t, v) /\ Minus(s[1], t, gone)
        /\ s[2] = Without(keys, gone) /\ Len(s[2]) <= Len(keys) - (n - 1)
    BY <1>2 DEF Taken
  <2>3. PICK u : u = ElementTurn(s, v)
    OBVIOUS
  <2>4. u[1] = WithoutPair(s[1], k) /\ u[2] = Without(s[2], {k})
    BY <2>1, <2>3
  <2>5. Minus(u[1], t, gone \cup {k})
    <3>1. Minus(s[1], t, gone)
      BY <2>2
    <3>2. k \in TableKey
      BY <2>1
    <3>3. Minus(WithoutPair(s[1], k), t, gone \cup {k})
      BY <3>1, <3>2, MinusNext
    <3>. QED
      BY <2>4, <3>3
  <2>6. u[2] = Without(keys, gone \cup {k})
    BY <2>2, <2>4, WithoutTwice
  <2>7. k \in Holding(t, v)
    BY <2>1, <2>2 DEF Minus, Holding
  <2>8. Len(u[2]) <= Len(keys) - n
    <3>1. s[2] \in Seq(TableKey)
      BY DEF ListedTables
    <3>2. Len(Without(s[2], {k})) < Len(s[2]) /\ Without(s[2], {k}) \in Seq(TableKey)
      <4>1. In(s[2]) \cap {k} # {}
        BY <2>1
      <4>. QED
        BY <3>1, <4>1, WithoutLeaves
    <3>3. PICK a, b, c : a = Len(u[2]) /\ b = Len(s[2]) /\ c = Len(keys)
      OBVIOUS
    <3>4. a \in Nat /\ b \in Nat /\ c \in Nat /\ a < b /\ b <= c - (n - 1) /\ n \in Nat
      BY <2>2, <2>4, <3>1, <3>2, <3>3
    <3>5. a <= c - n
      BY <3>4
    <3>. QED
      BY <3>3, <3>5
  <2>9. Taken(u, n, gone \cup {k}, t, keys, v)
    BY <2>2, <2>5, <2>6, <2>7, <2>8 DEF Taken
  <2>. QED
    BY <2>3, <2>9
<1>. QED
  BY <1>1, <1>2

(* remove_element takes all keys with the element, and no other. *)
LEMMA ElementAnswers ==
  ASSUME NEW t, Hashed(t), NEW keys, Listed(t, keys), NEW v
  PROVE  /\ Minus(WithoutElement(t, keys, v)[1], t, Holding(t, v))
         /\ WithoutElement(t, keys, v)[2] = Without(keys, Holding(t, v))
<1>0. keys \in Seq(TableKey) /\ Len(keys) \in Nat /\ Len(keys) \in 0..Len(keys)
  BY DEF Listed
<1>1. PICK f \in [0..Len(keys) -> ListedTables] :
        Takes(f, t, keys, v) /\ WithoutElement(t, keys, v) = f[Len(keys)]
  BY <1>0, WithoutElementByTurns
<1>. DEFINE T == {n \in 0..Len(keys) : \E gone : Taken(f[n], n, gone, t, keys, v)}
<1>2. 0 \in T
  <2>1. PICK s : s = <<t, keys>>
    OBVIOUS
  <2>2. s[1] = t /\ s[2] = keys /\ f[0] = s /\ 0 \in 0..Len(keys)
    BY <1>0, <1>1, <2>1 DEF Takes
  <2>3. Minus(t, t, {})
    BY DEF Minus
  <2>4. Without(keys, {}) = keys
    <3>1. In(keys) \cap {} = {}
      OBVIOUS
    <3>. QED
      BY <1>0, <3>1, WithoutLeaves
  <2>5. Len(keys) <= Len(keys) - 0
    BY <1>0
  <2>6. Taken(s, 0, {}, t, keys, v)
    BY <2>2, <2>3, <2>4, <2>5 DEF Taken
  <2>. QED
    BY <2>2, <2>6
<1>3. ASSUME NEW n \in 1..Len(keys), n - 1 \in T  PROVE n \in T
  <2>1. PICK gone : Taken(f[n - 1], n - 1, gone, t, keys, v)
    BY <1>3
  <2>2. PICK s : s = f[n - 1]
    OBVIOUS
  <2>3. s \in ListedTables
    <3>1. n - 1 \in 0..Len(keys)
      BY <1>0
    <3>. QED
      BY <1>1, <2>2, <3>1
  <2>4. Taken(s, n - 1, gone, t, keys, v)
    BY <2>1, <2>2
  <2>5. PICK more : Taken(ElementTurn(s, v), n, more, t, keys, v)
    BY <1>0, <2>3, <2>4, TakenNext
  <2>6. f[n] = ElementTurn(s, v) /\ n \in 0..Len(keys)
    BY <1>0, <1>1, <2>2 DEF Takes
  <2>. QED
    BY <2>5, <2>6
<1>4. \E gone : Taken(f[Len(keys)], Len(keys), gone, t, keys, v)
  <2>1. \A n \in 0..Len(keys) : n \in T
    <3>. HIDE DEF T
    <3>. QED
      BY <1>0, <1>2, <1>3, UpTo
  <2>. QED
    BY <1>0, <2>1
<1>5. PICK gone, s : s = WithoutElement(t, keys, v) /\ Taken(s, Len(keys), gone, t, keys, v)
  BY <1>1, <1>4
<1>6. /\ gone \subseteq Holding(t, v)
      /\ Minus(s[1], t, gone) /\ s[2] = Without(keys, gone)
      /\ KeysOf(s[1], s[2], v) = {} \/ Len(s[2]) <= Len(keys) - Len(keys)
  BY <1>5 DEF Taken
<1>7. s[2] \in Seq(TableKey) /\ In(s[2]) = In(keys) \ gone
  BY <1>0, <1>6, WithoutLeaves
<1>8. KeysOf(s[1], s[2], v) = {}
  <2>1. CASE Len(s[2]) <= Len(keys) - Len(keys)
    <3>1. DOMAIN s[2] = {}
      BY <1>0, <1>7, <2>1
    <3>. QED
      BY <3>1 DEF KeysOf
  <2>. QED
    BY <1>6, <2>1
<1>9. ASSUME NEW k \in Holding(t, v)  PROVE k \in gone
  <2>1. SUFFICES ASSUME k \notin gone  PROVE FALSE
    OBVIOUS
  <2>2. k \in TableKey /\ HasObject(t, k) /\ ObjectAt(t, k) = v
    BY DEF Holding
  <2>3. HasObject(s[1], k) /\ ObjectAt(s[1], k) = v
    BY <1>6, <2>1, <2>2 DEF Minus
  <2>4. k \in In(s[2])
    BY <1>7, <2>1, <2>2 DEF Listed
  <2>5. PICK i \in DOMAIN s[2] : s[2][i] = k
    BY <2>4 DEF In
  <2>6. i \in KeysOf(s[1], s[2], v)
    BY <2>3, <2>5 DEF KeysOf
  <2>. QED
    BY <1>8, <2>6
<1>10. gone = Holding(t, v)
  BY <1>6, <1>9
<1>. QED
  BY <1>5, <1>6, <1>10

(* A turn of copy sets a key of the other table. *)
LEMMA CopyTurnSets ==
  ASSUME NEW s \in ListedTables, NEW t, Hashed(t), NEW k \in TableKey
  PROVE  CopyTurn(s, t, k) \in ListedTables
<1>1. Hashed(s[1]) /\ s[2] \in Seq(TableKey)
  BY DEF ListedTables, HashedTables
<1>2. CASE ~HasObject(t, k)
  BY <1>2 DEF CopyTurn
<1>3. CASE HasObject(t, k)
  <2>1. ObjectAt(t, k) \in TableVal
    BY <1>3, TableAnswers
  <2>2. WithSet(s[1], k, ObjectAt(t, k)) \in HashedTables
    BY <1>1, <2>1, SetAnswers, HashedTypes
  <2>3. KeysWith(s[1], s[2], k) \in Seq(TableKey)
    BY <1>1 DEF KeysWith
  <2>4. CopyTurn(s, t, k) = <<WithSet(s[1], k, ObjectAt(t, k)), KeysWith(s[1], s[2], k)>>
    BY <1>3 DEF CopyTurn
  <2>. QED
    BY <2>2, <2>3, <2>4 DEF ListedTables
<1>. QED
  BY <1>2, <1>3

(* The loop of copy, turn by turn. *)
Copies(f, t, others) ==
  /\ f[0] = <<EmptyTable, <<>>>>
  /\ \A n \in 1..Len(others) : f[n] = CopyTurn(f[n - 1], t, others[n])

(* What Copied gives is where that loop ends.                               *)
LEMMA CopiedByTurns ==
  ASSUME NEW t, Hashed(t), NEW others \in Seq(TableKey)
  PROVE  \E f \in [0..Len(others) -> ListedTables] :
           Copies(f, t, others) /\ Copied(<<>>, t, others) = f[Len(others)]
<1>. DEFINE turn == [p \in (1..Len(others)) \X ListedTables |-> CopyTurn(p[2], t, others[p[1]])]
            Loop(f) == f = [n \in 0..Len(others) |->
                              IF n = 0 THEN <<EmptyTable, <<>>>> ELSE CopyTurn(f[n - 1], t, others[n])]
<1>1. ASSUME NEW n \in 1..Len(others), NEW s \in ListedTables
      PROVE  CopyTurn(s, t, others[n]) \in ListedTables
  <2>1. others[n] \in TableKey
    OBVIOUS
  <2>. QED
    BY <2>1, CopyTurnSets
<1>2. Len(others) \in Nat /\ <<EmptyTable, <<>>>> \in ListedTables
  <2>1. EmptyTable \in HashedTables
    BY EmptyAnswers, HashedTypes
  <2>2. <<>> \in Seq(TableKey) /\ Len(others) \in Nat
    OBVIOUS
  <2>. QED
    BY <2>1, <2>2 DEF ListedTables
<1>3. turn \in [(1..Len(others)) \X ListedTables -> ListedTables]
  <2>1. ASSUME NEW p \in (1..Len(others)) \X ListedTables  PROVE CopyTurn(p[2], t, others[p[1]]) \in ListedTables
    <3>1. p[1] \in 1..Len(others) /\ p[2] \in ListedTables
      OBVIOUS
    <3>. QED
      BY <1>1, <3>1
  <2>. QED
    BY <2>1
<1>4. PICK f \in [0..Len(others) -> ListedTables] : Runs(f, Len(others), <<EmptyTable, <<>>>>, turn)
  <2>. HIDE DEF turn
  <2>. QED
    BY <1>2, <1>3, TurnsExist
<1>5. ASSUME NEW n \in 1..Len(others)
      PROVE  f[n] = CopyTurn(f[n - 1], t, others[n])
  <2>1. n - 1 \in 0..Len(others)
    BY <1>2
  <2>2. PICK p : p = <<n, f[n - 1]>>
    OBVIOUS
  <2>3. p \in (1..Len(others)) \X ListedTables /\ p[1] = n /\ p[2] = f[n - 1]
    BY <2>1, <2>2
  <2>4. f[n] = turn[p]
    BY <1>4, <2>2 DEF Runs
  <2>5. turn[p] = CopyTurn(p[2], t, others[p[1]])
    BY <2>3
  <2>. QED
    BY <2>3, <2>4, <2>5
<1>6. Loop(f)
  <2>1. \A n \in 0..Len(others) : n = 0 \/ n \in 1..Len(others)
    BY <1>2
  <2>2. f[0] = <<EmptyTable, <<>>>>
    BY <1>4 DEF Runs
  <2>3. \A n \in 0..Len(others) : f[n] = IF n = 0 THEN <<EmptyTable, <<>>>> ELSE CopyTurn(f[n - 1], t, others[n])
    BY <1>5, <2>1, <2>2
  <2>. QED
    BY <2>3
<1>7. \E g : Loop(g)
  BY <1>6
<1>8. Loop(CHOOSE g : Loop(g)) /\ Copied(<<>>, t, others) = (CHOOSE g : Loop(g))[Len(others)]
  BY <1>7 DEF Copied
<1>9. PICK g : Loop(g) /\ Copied(<<>>, t, others) = g[Len(others)]
  BY <1>8
<1>10. g[0] = <<EmptyTable, <<>>>> /\ \A n \in 1..Len(others) : g[n] = CopyTurn(g[n - 1], t, others[n])
  <2>1. \A n \in 0..Len(others) : g[n] = IF n = 0 THEN <<EmptyTable, <<>>>> ELSE CopyTurn(g[n - 1], t, others[n])
    BY <1>9
  <2>2. 0 \in 0..Len(others) /\ \A n \in 1..Len(others) : n \in 0..Len(others) /\ n # 0
    BY <1>2
  <2>. HIDE DEF Loop
  <2>. QED
    BY <2>1, <2>2
<1>11. g \in [0..Len(others) -> ListedTables]
  <2>. DEFINE T == {n \in 0..Len(others) : g[n] \in ListedTables}
  <2>1. 0 \in T
    <3>1. 0 \in 0..Len(others) /\ g[0] \in ListedTables
      BY <1>2, <1>10
    <3>. QED
      BY <3>1
  <2>2. ASSUME NEW n \in 1..Len(others), n - 1 \in T  PROVE n \in T
    <3>1. g[n - 1] \in ListedTables /\ n \in 0..Len(others)
      BY <1>2, <2>2
    <3>2. g[n] \in ListedTables
      <4>1. PICK s : s = g[n - 1]
        OBVIOUS
      <4>2. s \in ListedTables
        BY <3>1, <4>1
      <4>3. CopyTurn(s, t, others[n]) \in ListedTables
        BY <1>1, <4>2
      <4>. QED
        BY <1>10, <4>1, <4>3
    <3>. QED
      BY <3>1, <3>2
  <2>3. \A n \in 0..Len(others) : n \in T
    <3>. HIDE DEF T
    <3>. QED
      BY <1>2, <2>1, <2>2, UpTo
  <2>4. g = [n \in 0..Len(others) |-> g[n]]
    BY <1>9
  <2>. QED
    BY <2>3, <2>4
<1>. QED
  BY <1>9, <1>10, <1>11 DEF Copies

(* What n turns of copy have done: the first n keys are in the new table. *)
CopiedTo(s, n, t, others) ==
  /\ s \in ListedTables /\ Len(s[2]) = n /\ \A i \in 1..n : s[2][i] = others[i]
  /\ \A x \in TableKey :
       /\ HasObject(s[1], x) <=> \E i \in 1..n : others[i] = x
       /\ HasObject(s[1], x) => ObjectAt(s[1], x) = ObjectAt(t, x)

(* The loop's invariant: the first n keys of the other table are copied.    *)
LEMMA CopiedToNext ==
  ASSUME NEW t, Hashed(t), NEW others, Listed(t, others), NEW n \in 1..Len(others),
         NEW s, CopiedTo(s, n - 1, t, others)
  PROVE  CopiedTo(CopyTurn(s, t, others[n]), n, t, others)
<1>0. /\ others \in Seq(TableKey) /\ Len(others) \in Nat /\ DOMAIN others = 1..Len(others)
      /\ n \in Nat
  BY DEF Listed
<1>1. PICK k, u : k = others[n] /\ u = CopyTurn(s, t, k)
  OBVIOUS
<1>2. k \in TableKey /\ HasObject(t, k)
  BY <1>0, <1>1 DEF Listed, In
<1>3. s \in ListedTables /\ Hashed(s[1]) /\ s[2] \in Seq(TableKey)
  BY DEF CopiedTo, ListedTables, HashedTables
<1>4. ObjectAt(t, k) \in TableVal
  BY <1>2, TableAnswers
<1>5. \A i \in 1..(n - 1) : others[i] # k
  <2>1. \A i \in 1..(n - 1) : i \in DOMAIN others /\ n \in DOMAIN others /\ i # n
    BY <1>0
  <2>. QED
    BY <1>1, <2>1 DEF Listed, Distinct
<1>6. ~HasObject(s[1], k)
  BY <1>2, <1>5 DEF CopiedTo
<1>7. u[1] = WithSet(s[1], k, ObjectAt(t, k)) /\ u[2] = Append(s[2], k)
  BY <1>1, <1>2, <1>6 DEF CopyTurn, KeysWith
<1>8. \A x \in TableKey :
        /\ HasObject(u[1], x) <=> x = k \/ HasObject(s[1], x)
        /\ HasObject(u[1], x) =>
             ObjectAt(u[1], x) = IF x = k THEN ObjectAt(t, k) ELSE ObjectAt(s[1], x)
  BY <1>2, <1>3, <1>4, <1>7, SetAnswers
<1>9. \A i \in 1..n : i = n \/ i \in 1..(n - 1)
  BY <1>0
<1>10. n \in 1..n /\ \A i \in 1..(n - 1) : i \in 1..n
  BY <1>0
<1>11. \A x \in TableKey :
         /\ HasObject(u[1], x) <=> \E i \in 1..n : others[i] = x
         /\ HasObject(u[1], x) => ObjectAt(u[1], x) = ObjectAt(t, x)
  BY <1>1, <1>8, <1>9, <1>10 DEF CopiedTo
<1>12. Len(u[2]) = n /\ \A i \in 1..n : u[2][i] = others[i]
  <2>1. Len(s[2]) = n - 1 /\ \A i \in 1..(n - 1) : s[2][i] = others[i]
    BY DEF CopiedTo
  <2>2. /\ Len(u[2]) = (n - 1) + 1 /\ u[2][(n - 1) + 1] = k
        /\ \A i \in 1..(n - 1) : u[2][i] = s[2][i]
    BY <1>2, <1>3, <1>7, <2>1, AppendProperties
  <2>3. (n - 1) + 1 = n
    BY <1>0
  <2>. QED
    BY <1>1, <1>9, <2>1, <2>2, <2>3
<1>13. u \in ListedTables
  BY <1>1, <1>2, <1>3, CopyTurnSets
<1>. QED
  BY <1>1, <1>11, <1>12, <1>13 DEF CopiedTo

(* A copy answers as the other table does, in the same order. *)
LEMMA CopyAnswers ==
  ASSUME NEW t, Hashed(t), NEW others, Listed(t, others)
  PROVE  /\ Minus(Copied(<<>>, t, others)[1], t, {})
         /\ Copied(<<>>, t, others)[2] = others
<1>0. /\ others \in Seq(TableKey) /\ Len(others) \in Nat /\ Len(others) \in 0..Len(others)
      /\ DOMAIN others = 1..Len(others)
  BY DEF Listed
<1>1. PICK f \in [0..Len(others) -> ListedTables] :
        Copies(f, t, others) /\ Copied(<<>>, t, others) = f[Len(others)]
  BY <1>0, CopiedByTurns
<1>. DEFINE T == {n \in 0..Len(others) : CopiedTo(f[n], n, t, others)}
<1>2. 0 \in T
  <2>1. PICK s : s = <<EmptyTable, <<>>>>
    OBVIOUS
  <2>2. s[1] = EmptyTable /\ s[2] = <<>> /\ f[0] = s /\ 0 \in 0..Len(others)
    BY <1>0, <1>1, <2>1 DEF Copies
  <2>3. s \in ListedTables
    BY <1>1, <2>2
  <2>4. CopiedTo(s, 0, t, others)
    BY <2>2, <2>3, EmptyAnswers DEF CopiedTo
  <2>. QED
    BY <2>2, <2>4
<1>3. ASSUME NEW n \in 1..Len(others), n - 1 \in T  PROVE n \in T
  <2>1. PICK s : s = f[n - 1]
    OBVIOUS
  <2>2. CopiedTo(s, n - 1, t, others)
    BY <1>3, <2>1
  <2>3. CopiedTo(CopyTurn(s, t, others[n]), n, t, others)
    BY <2>2, CopiedToNext
  <2>4. f[n] = CopyTurn(s, t, others[n]) /\ n \in 0..Len(others)
    BY <1>0, <1>1, <2>1 DEF Copies
  <2>. QED
    BY <2>3, <2>4
<1>4. CopiedTo(f[Len(others)], Len(others), t, others)
  <2>1. \A n \in 0..Len(others) : n \in T
    <3>. HIDE DEF T
    <3>. QED
      BY <1>0, <1>2, <1>3, UpTo
  <2>. QED
    BY <1>0, <2>1
<1>5. PICK s : s = Copied(<<>>, t, others) /\ CopiedTo(s, Len(others), t, others)
  BY <1>1, <1>4
<1>6. Hashed(s[1]) /\ s[2] \in Seq(TableKey) /\ Len(s[2]) = Len(others)
  BY <1>5 DEF CopiedTo, ListedTables, HashedTables
<1>7. s[2] = others
  <2>1. \A i \in 1..Len(s[2]) : s[2][i] = others[i]
    BY <1>5, <1>6 DEF CopiedTo
  <2>. QED
    BY <1>0, <1>6, <2>1, SeqEqual
<1>8. ASSUME NEW x \in TableKey  PROVE HasObject(s[1], x) <=> HasObject(t, x)
  <2>1. HasObject(s[1], x) <=> \E i \in 1..Len(others) : others[i] = x
    BY <1>5 DEF CopiedTo
  <2>2. HasObject(t, x) <=> x \in In(others)
    BY DEF Listed
  <2>. QED
    BY <1>0, <2>1, <2>2 DEF In
<1>9. Minus(s[1], t, {})
  BY <1>5, <1>6, <1>8 DEF Minus, CopiedTo
<1>. QED
  BY <1>5, <1>7, <1>9

-----------------------------------------------------------------------------
(* The refinement *)

TableInv ==
  /\ thash_table_ \in [Table -> Tables]
  /\ keys_ \in [Table -> Seq(TableKey)]
  /\ \A h \in Table : Hashed(thash_table_[h]) /\ Listed(thash_table_[h], keys_[h])

(* All tables are empty at the start.                                       *)
LEMMA TableInvInit == TableInit => TableInv
<1>. SUFFICES ASSUME TableInit  PROVE TableInv
  OBVIOUS
<1>1. EmptyTable \in Tables /\ <<>> \in Seq(TableKey)
  BY EmptyAnswers DEF Hashed
<1>2. Listed(EmptyTable, <<>>)
  BY EmptyAnswers DEF Listed, Distinct, In
<1>. QED
  BY <1>1, <1>2, EmptyAnswers DEF TableInit, TableInv

(* A table without some keys, and its list without them.                    *)
LEMMA ListedLess ==
  ASSUME NEW t, NEW keys, Listed(t, keys), NEW u, NEW gone, Minus(u, t, gone)
  PROVE  Listed(u, Without(keys, gone))
<1>1. keys \in Seq(TableKey) /\ Distinct(keys)
  BY DEF Listed
<1>2. /\ Without(keys, gone) \in Seq(TableKey) /\ Distinct(Without(keys, gone))
      /\ In(Without(keys, gone)) = In(keys) \ gone
  BY <1>1, WithoutLeaves
<1>. QED
  BY <1>2 DEF Listed, Minus

(* A table with one key more, and its list with that key behind it.         *)
LEMMA ListedMore ==
  ASSUME NEW t, Hashed(t), NEW keys, Listed(t, keys), NEW k \in TableKey, NEW v \in TableVal
  PROVE  Listed(WithSet(t, k, v), KeysWith(t, keys, k))
<1>1. PICK u, new : u = WithSet(t, k, v) /\ new = KeysWith(t, keys, k)
  OBVIOUS
<1>2. \A x \in TableKey : HasObject(u, x) <=> x = k \/ HasObject(t, x)
  BY <1>1, SetAnswers
<1>3. keys \in Seq(TableKey) /\ DOMAIN keys = 1..Len(keys) /\ Len(keys) \in Nat
  BY DEF Listed
<1>4. CASE HasObject(t, k)
  BY <1>1, <1>2, <1>4 DEF KeysWith, Listed
<1>5. CASE ~HasObject(t, k)
  <2>1. new = Append(keys, k) /\ k \notin In(keys)
    BY <1>1, <1>5 DEF KeysWith, Listed
  <2>2. /\ new \in Seq(TableKey) /\ DOMAIN new = 1..(Len(keys) + 1)
        /\ new[Len(keys) + 1] = k /\ \A i \in 1..Len(keys) : new[i] = keys[i]
    BY <1>3, <2>1
  <2>3. \A i \in 1..(Len(keys) + 1) : i = Len(keys) + 1 \/ i \in 1..Len(keys)
    BY <1>3
  <2>4. Len(keys) + 1 \in DOMAIN new /\ \A i \in 1..Len(keys) : i \in DOMAIN new
    BY <1>3, <2>2
  <2>5. In(new) = In(keys) \cup {k}
    BY <1>3, <2>2, <2>3, <2>4 DEF In
  <2>6. Distinct(new)
    <3>1. Distinct(keys) /\ \A i \in 1..Len(keys) : keys[i] # k
      BY <1>3, <2>1 DEF Listed, In
    <3>. QED
      BY <1>3, <2>2, <2>3, <3>1 DEF Distinct
  <2>. QED
    BY <1>1, <1>2, <2>2, <2>5, <2>6 DEF Listed
<1>. QED
  BY <1>4, <1>5

(* What a dictionary has instead of the table without some keys.            *)
LEMMA StoredLess ==
  ASSUME NEW t, NEW u, NEW gone, Minus(u, t, gone)
  PROVE  StoredValues(u) = Restrict(StoredValues(t), DOMAIN StoredValues(t) \ gone)
<1>1. /\ DOMAIN StoredValues(t) = {x \in TableKey : HasObject(t, x)}
      /\ DOMAIN StoredValues(u) = {x \in TableKey : HasObject(u, x)}
      /\ \A x \in DOMAIN StoredValues(t) : StoredValues(t)[x] = ObjectAt(t, x)
      /\ \A x \in DOMAIN StoredValues(u) : StoredValues(u)[x] = ObjectAt(u, x)
      /\ StoredValues(u) = [x \in DOMAIN StoredValues(u) |-> StoredValues(u)[x]]
  BY DEF StoredValues
<1>2. DOMAIN StoredValues(u) = DOMAIN StoredValues(t) \ gone
  BY <1>1 DEF Minus
<1>3. \A x \in DOMAIN StoredValues(u) : StoredValues(u)[x] = StoredValues(t)[x]
  BY <1>1, <1>2 DEF Minus
<1>. QED
  BY <1>1, <1>2, <1>3 DEF Restrict

(* Two tables that answer the same stand for the same dictionary.           *)
LEMMA StoredSame ==
  ASSUME NEW t, NEW u, Minus(u, t, {})
  PROVE  StoredValues(u) = StoredValues(t)
BY DEF StoredValues, Minus

(* A table with one key set stands for the dictionary with it set.          *)
LEMMA StoredMore ==
  ASSUME NEW t, Hashed(t), NEW k \in TableKey, NEW v \in TableVal
  PROVE  StoredValues(WithSet(t, k, v))
           = [x \in DOMAIN StoredValues(t) \cup {k} |-> IF x = k THEN v ELSE StoredValues(t)[x]]
<1>1. PICK u : u = WithSet(t, k, v)
  OBVIOUS
<1>2. \A x \in TableKey :
        /\ HasObject(u, x) <=> x = k \/ HasObject(t, x)
        /\ HasObject(u, x) => ObjectAt(u, x) = IF x = k THEN v ELSE ObjectAt(t, x)
  BY <1>1, SetAnswers
<1>3. /\ DOMAIN StoredValues(t) = {x \in TableKey : HasObject(t, x)}
      /\ DOMAIN StoredValues(u) = {x \in TableKey : HasObject(u, x)}
      /\ \A x \in DOMAIN StoredValues(t) : StoredValues(t)[x] = ObjectAt(t, x)
      /\ \A x \in DOMAIN StoredValues(u) : StoredValues(u)[x] = ObjectAt(u, x)
      /\ StoredValues(u) = [x \in DOMAIN StoredValues(u) |-> StoredValues(u)[x]]
  BY DEF StoredValues
<1>4. DOMAIN StoredValues(u) = DOMAIN StoredValues(t) \cup {k}
  BY <1>2, <1>3
<1>5. \A x \in DOMAIN StoredValues(u) :
        StoredValues(u)[x] = IF x = k THEN v ELSE StoredValues(t)[x]
  BY <1>2, <1>3, <1>4
<1>. QED
  BY <1>1, <1>3, <1>4, <1>5

(* The dictionaries that the tables stand for. *)
Stored == [h \in Table |-> StoredValues(thash_table_[h])]

(* When one table becomes t with this list, one dictionary changes.         *)
Becomes(h, t, list) ==
  /\ thash_table_' = [thash_table_ EXCEPT ![h] = t]
  /\ keys_' = [keys_ EXCEPT ![h] = list]

(* The invariant is left when a sound table and its list take the place of  *)
(* one.                                                                     *)
LEMMA BecomesSound ==
  ASSUME TableInv, NEW h \in Table, NEW t, NEW list,
         Becomes(h, t, list), Hashed(t), Listed(t, list)
  PROVE  TableInv'
<1>1. t \in Tables /\ list \in Seq(TableKey)
  BY DEF Hashed, Listed
<1>2. /\ thash_table_' \in [Table -> Tables] /\ keys_' \in [Table -> Seq(TableKey)]
      /\ thash_table_'[h] = t /\ keys_'[h] = list
      /\ \A g \in Table : g # h => thash_table_'[g] = thash_table_[g] /\ keys_'[g] = keys_[g]
  BY <1>1 DEF TableInv, Becomes
<1>. QED
  BY <1>2 DEF TableInv

(* Then its dictionary changes and no other.                                *)
LEMMA BecomesStored ==
  ASSUME TableInv, NEW h \in Table, NEW t, NEW list, Becomes(h, t, list)
  PROVE  /\ Stored' = [Stored EXCEPT ![h] = StoredValues(t)]
         /\ keys_' = [keys_ EXCEPT ![h] = list]
         /\ Stored[h] = StoredValues(thash_table_[h])
<1>1. /\ \A g \in Table : thash_table_'[g] = IF g = h THEN t ELSE thash_table_[g]
  BY DEF TableInv, Becomes
<1>2. \A g \in Table : Stored'[g] = StoredValues(thash_table_'[g])
  BY DEF Stored
<1>3. \A g \in Table : Stored[g] = StoredValues(thash_table_[g])
  BY DEF Stored
<1>4. Stored' = [g \in Table |-> StoredValues(thash_table_'[g])]
  BY DEF Stored
<1>5. DOMAIN Stored = Table /\ Stored = [g \in Table |-> Stored[g]]
  BY DEF Stored
<1>6. [Stored EXCEPT ![h] = StoredValues(t)]
        = [g \in Table |-> IF g = h THEN StoredValues(t) ELSE Stored[g]]
  BY <1>5
<1>7. \A g \in Table :
        StoredValues(thash_table_'[g]) = IF g = h THEN StoredValues(t) ELSE Stored[g]
  BY <1>1, <1>3
<1>. QED
  BY <1>3, <1>4, <1>6, <1>7 DEF Becomes

(* A table that becomes one without some keys deletes them from its         *)
(* dictionary.                                                              *)
LEMMA BecomesDelete ==
  ASSUME TableInv, NEW h \in Table, NEW t, NEW gone,
         Becomes(h, t, Without(keys_[h], gone)), Minus(t, thash_table_[h], gone)
  PROVE  TableInv' /\ Abstract!Delete(h, gone)
<1>1. Hashed(t) /\ Listed(thash_table_[h], keys_[h])
  BY DEF Minus, TableInv
<1>2. Listed(t, Without(keys_[h], gone))
  BY <1>1, ListedLess
<1>3. TableInv'
  BY <1>1, <1>2, BecomesSound
<1>4. PICK list : list = Without(keys_[h], gone)
  OBVIOUS
<1>5. Becomes(h, t, list)
  BY <1>4
<1>6. /\ Stored' = [Stored EXCEPT ![h] = StoredValues(t)]
      /\ keys_' = [keys_ EXCEPT ![h] = list]
      /\ Stored[h] = StoredValues(thash_table_[h])
  BY <1>5, BecomesStored
<1>7. StoredValues(t)
        = Restrict(Stored[h], DOMAIN Stored[h] \ gone)
  BY <1>6, StoredLess
<1>8. Stored' = [Stored EXCEPT ![h] = Restrict(@, DOMAIN @ \ gone)]
  BY <1>6, <1>7
<1>9. Abstract!Without(keys_[h], gone) = Without(keys_[h], gone)
  BY DEF Abstract!Without, Without
<1>10. Abstract!Restrict(Stored[h], DOMAIN Stored[h] \ gone)
         = Restrict(Stored[h], DOMAIN Stored[h] \ gone)
  BY DEF Abstract!Restrict, Restrict
<1>11. Stored' = [Stored EXCEPT ![h] = Abstract!Restrict(@, DOMAIN @ \ gone)]
  BY <1>8, <1>10
<1>12. keys_' = [keys_ EXCEPT ![h] = Abstract!Without(@, gone)]
  BY <1>4, <1>6, <1>9
<1>. QED
  BY <1>3, <1>11, <1>12 DEF Abstract!Delete, Stored

(* One step for each action. *)
LEMMA SetRefines ==
  ASSUME TableInv, NEW h \in Table, NEW k \in TableKey, NEW v \in TableVal, TableSet(h, k, v)
  PROVE  TableInv' /\ Abstract!Put(h, k, v)
<1>1. PICK t, list : t = WithSet(thash_table_[h], k, v) /\ list = KeysWith(thash_table_[h], keys_[h], k)
  OBVIOUS
<1>2. Becomes(h, t, list)
  BY <1>1 DEF TableSet, Becomes
<1>3. Hashed(thash_table_[h]) /\ Listed(thash_table_[h], keys_[h])
  BY DEF TableInv
<1>4. Hashed(t) /\ Listed(t, list)
  BY <1>1, <1>3, SetAnswers, ListedMore
<1>5. TableInv'
  BY <1>2, <1>4, BecomesSound
<1>6. /\ Stored' = [Stored EXCEPT ![h] = StoredValues(t)]
      /\ keys_' = [keys_ EXCEPT ![h] = list]
      /\ Stored[h] = StoredValues(thash_table_[h])
  BY <1>2, BecomesStored
<1>7. StoredValues(t) = [x \in DOMAIN Stored[h] \cup {k} |-> IF x = k THEN v ELSE Stored[h][x]]
  BY <1>1, <1>3, <1>6, StoredMore
<1>8. Stored' = [Stored EXCEPT ![h] = [x \in DOMAIN @ \cup {k} |-> IF x = k THEN v ELSE @[x]]]
  BY <1>6, <1>7
<1>9. k \in DOMAIN Stored[h] <=> HasObject(thash_table_[h], k)
  BY <1>6 DEF StoredValues
<1>10. keys_' = [keys_ EXCEPT ![h] = IF k \in DOMAIN Stored[h] THEN @ ELSE Append(@, k)]
  BY <1>1, <1>6, <1>9 DEF KeysWith
<1>. QED
  BY <1>5, <1>8, <1>10 DEF Abstract!Put, Stored

LEMMA RemoveRefines ==
  ASSUME TableInv, NEW h \in Table, NEW k \in TableKey, TableRemove(h, k)
  PROVE  TableInv' /\ Abstract!DeleteKey(h, k)
<1>1. PICK t : t = WithoutPair(thash_table_[h], k)
  OBVIOUS
<1>2. Hashed(thash_table_[h]) /\ Listed(thash_table_[h], keys_[h])
  BY DEF TableInv
<1>3. Minus(t, thash_table_[h], {k})
  BY <1>1, <1>2, RemoveAnswers DEF Minus
<1>4. KeysWithout(thash_table_[h], keys_[h], k) = Without(keys_[h], {k})
  <2>1. CASE HasObject(thash_table_[h], k)
    BY <2>1 DEF KeysWithout
  <2>2. CASE ~HasObject(thash_table_[h], k)
    <3>1. keys_[h] \in Seq(TableKey) /\ In(keys_[h]) \cap {k} = {}
      BY <1>2, <2>2 DEF Listed
    <3>2. Without(keys_[h], {k}) = keys_[h]
      BY <3>1, WithoutLeaves
    <3>. QED
      BY <2>2, <3>2 DEF KeysWithout
  <2>. QED
    BY <2>1, <2>2
<1>5. Becomes(h, t, Without(keys_[h], {k}))
  BY <1>1, <1>4 DEF TableRemove, Becomes
<1>6. TableInv' /\ Abstract!Delete(h, {k})
  BY <1>3, <1>5, BecomesDelete
<1>. QED
  BY <1>6 DEF Abstract!DeleteKey

LEMMA RemoveElementRefines ==
  ASSUME TableInv, NEW h \in Table, NEW v \in TableVal, TableRemoveElement(h, v)
  PROVE  TableInv' /\ Abstract!DeleteValue(h, v)
<1>1. PICK s : s = WithoutElement(thash_table_[h], keys_[h], v)
  OBVIOUS
<1>2. Hashed(thash_table_[h]) /\ Listed(thash_table_[h], keys_[h])
  BY DEF TableInv
<1>3. PICK gone : gone = Holding(thash_table_[h], v)
  OBVIOUS
<1>4. Minus(s[1], thash_table_[h], gone) /\ s[2] = Without(keys_[h], gone)
  BY <1>1, <1>2, <1>3, ElementAnswers
<1>5. Becomes(h, s[1], Without(keys_[h], gone))
  BY <1>1, <1>4 DEF TableRemoveElement, Becomes
<1>6. TableInv' /\ Abstract!Delete(h, gone)
  BY <1>4, <1>5, BecomesDelete
<1>7. Stored[h] = StoredValues(thash_table_[h])
  BY DEF Stored
<1>8. gone = {k \in DOMAIN Stored[h] : Stored[h][k] = v}
  BY <1>3, <1>7 DEF Holding, StoredValues
<1>. QED
  BY <1>6, <1>8 DEF Abstract!DeleteValue, Stored

LEMMA ClearRefines ==
  ASSUME TableInv, NEW h \in Table, TableClear(h)
  PROVE  TableInv' /\ Abstract!DeleteAll(h)
<1>1. PICK t, keys : t = Cleared(thash_table_[h], keys_[h]) /\ keys = keys_[h]
  OBVIOUS
<1>2. Hashed(thash_table_[h]) /\ Listed(thash_table_[h], keys) /\ keys \in Seq(TableKey)
  BY <1>1 DEF TableInv
<1>3. Minus(t, thash_table_[h], In(keys))
  BY <1>1, <1>2, ClearedAnswers
<1>4. Without(keys, In(keys)) = <<>>
  <2>1. /\ Without(keys, In(keys)) \in Seq(TableKey)
        /\ In(Without(keys, In(keys))) = In(keys) \ In(keys)
    BY <1>2, WithoutLeaves
  <2>2. PICK rest : rest = Without(keys, In(keys))
    OBVIOUS
  <2>3. rest \in Seq(TableKey) /\ DOMAIN rest = {}
    BY <2>1, <2>2 DEF In
  <2>. QED
    BY <2>2, <2>3
<1>5. Becomes(h, t, Without(keys_[h], In(keys)))
  BY <1>1, <1>4 DEF TableClear, Becomes
<1>6. TableInv' /\ Abstract!Delete(h, In(keys))
  BY <1>1, <1>3, <1>5, BecomesDelete
<1>7. Stored[h] = StoredValues(thash_table_[h])
  BY DEF Stored
<1>8. In(keys) = DOMAIN Stored[h]
  <2>1. In(keys) \subseteq TableKey
    BY <1>2 DEF In
  <2>. QED
    BY <1>2, <1>7, <2>1 DEF Listed, StoredValues
<1>. QED
  BY <1>6, <1>8 DEF Abstract!DeleteAll, Stored

LEMMA CopyRefines ==
  ASSUME TableInv, NEW h \in Table, NEW g \in Table, CopyTo(h, <<>>, g)
  PROVE  TableInv' /\ Abstract!Copy(h, g)
<1>1. PICK s : s = Copied(<<>>, thash_table_[g], keys_[g])
  OBVIOUS
<1>2. Hashed(thash_table_[g]) /\ Listed(thash_table_[g], keys_[g])
  BY DEF TableInv
<1>3. Minus(s[1], thash_table_[g], {}) /\ s[2] = keys_[g]
  BY <1>1, <1>2, CopyAnswers
<1>4. PICK t, list : t = s[1] /\ list = s[2]
  OBVIOUS
<1>5. Becomes(h, t, list)
  BY <1>1, <1>4 DEF CopyTo, Becomes
<1>6. Hashed(t) /\ Listed(t, list)
  BY <1>2, <1>3, <1>4 DEF Minus, Listed
<1>7. TableInv'
  BY <1>5, <1>6, BecomesSound
<1>8. /\ Stored' = [Stored EXCEPT ![h] = StoredValues(t)]
      /\ keys_' = [keys_ EXCEPT ![h] = list]
  BY <1>5, BecomesStored
<1>9. Stored[g] = StoredValues(thash_table_[g])
  BY DEF Stored
<1>10. StoredValues(t) = Stored[g]
  BY <1>3, <1>4, <1>9, StoredSame
<1>. QED
  BY <1>3, <1>4, <1>7, <1>8, <1>10 DEF Abstract!Copy, Stored

(* Every step of the tables keeps them sound and is a step of the           *)
(* dictionaries, or a stutter.                                              *)
LEMMA TableNextRefines ==
  ASSUME TableInv, [TableNext]_tableVars, ~Reassign
  PROVE  TableInv' /\ [Abstract!Next]_(Abstract!vars)
<1>1. CASE UNCHANGED tableVars
  <2>1. TableInv'
    BY <1>1 DEF tableVars, TableInv
  <2>2. UNCHANGED Abstract!vars
    BY <1>1 DEF tableVars, Abstract!vars
  <2>. QED
    BY <2>1, <2>2
<1>2. ASSUME NEW h \in Table, NEW k \in TableKey, NEW v \in TableVal, TableSet(h, k, v)
      PROVE  TableInv' /\ Abstract!Next
  <2>1. TableInv' /\ Abstract!Put(h, k, v)
    BY <1>2, SetRefines
  <2>. QED
    BY <2>1 DEF Abstract!Next
<1>3. ASSUME NEW h \in Table, NEW k \in TableKey, TableRemove(h, k)
      PROVE  TableInv' /\ Abstract!Next
  <2>1. TableInv' /\ Abstract!DeleteKey(h, k)
    BY <1>3, RemoveRefines
  <2>. QED
    BY <2>1 DEF Abstract!Next
<1>4. ASSUME NEW h \in Table, NEW v \in TableVal, TableRemoveElement(h, v)
      PROVE  TableInv' /\ Abstract!Next
  <2>1. TableInv' /\ Abstract!DeleteValue(h, v)
    BY <1>4, RemoveElementRefines
  <2>. QED
    BY <2>1 DEF Abstract!Next
<1>5. ASSUME NEW h \in Table, TableClear(h)
      PROVE  TableInv' /\ Abstract!Next
  <2>1. TableInv' /\ Abstract!DeleteAll(h)
    BY <1>5, ClearRefines
  <2>. QED
    BY <2>1 DEF Abstract!Next
<1>6. ASSUME NEW h \in Table, NEW g \in Table, TableCopy(h, g) \/ TableAssign(h, g)
      PROVE  TableInv' /\ Abstract!Next
  <2>1. CopyTo(h, <<>>, g)
    BY <1>6 DEF TableCopy, TableAssign
  <2>2. TableInv' /\ Abstract!Copy(h, g)
    BY <2>1, CopyRefines
  <2>. QED
    BY <2>2 DEF Abstract!Next
<1>. QED
  BY <1>1, <1>2, <1>3, <1>4, <1>5, <1>6 DEF TableNext

(* The empty tables stand for the empty dictionaries.                       *)
LEMMA TableInitRefines == TableInit => Abstract!Init
<1>. SUFFICES ASSUME TableInit  PROVE Abstract!Init
  OBVIOUS
<1>1. StoredValues(EmptyTable) = <<>>
  <2>1. DOMAIN StoredValues(EmptyTable) = {}
    BY EmptyAnswers DEF StoredValues
  <2>2. StoredValues(EmptyTable) = [x \in {} |-> StoredValues(EmptyTable)[x]]
    BY <2>1 DEF StoredValues
  <2>3. <<>> = [x \in {} |-> StoredValues(EmptyTable)[x]]
    OBVIOUS
  <2>. QED
    BY <2>2, <2>3
<1>2. \A h \in Table : thash_table_[h] = EmptyTable
  BY DEF TableInit
<1>3. [h \in Table |-> StoredValues(thash_table_[h])] = [h \in Table |-> <<>>]
  BY <1>1, <1>2
<1>. QED
  BY <1>3 DEF TableInit, Abstract!Init

(* A table is sound whatever is done to it: each key lies in its own        *)
(* bucket, once, and is listed once (thash.h; no table is assigned to that  *)
(* is not empty).                                                           *)
THEOREM TablesStaySound ==
  ASSUME ~Reassign
  PROVE  TableSpec => []TableInv
<1>1. TableInv /\ [TableNext]_tableVars => TableInv'
  BY TableNextRefines
<1>. QED
  BY <1>1, TableInvInit, PTL DEF TableSpec

(* The hash table implements a dictionary: for any keys, however they       *)
(* collide, and any order of set, remove, remove_element, clear and copies, *)
(* each key answers with the last value set for it and the list tells the   *)
(* keys in the order in which they came.                                    *)
THEOREM TablesAreDictionaries ==
  ASSUME ~Reassign
  PROVE  TableSpec => IsDictionary
<1>1. TableInv /\ [TableNext]_tableVars => TableInv' /\ [Abstract!Next]_(Abstract!vars)
  BY TableNextRefines
<1>. QED
  BY <1>1, TableInvInit, TableInitRefines, PTL DEF TableSpec, IsDictionary, Abstract!Spec

-----------------------------------------------------------------------------
(***************************************************************************)
(* MidiMessage, for any arguments.  The invariant is MidiTypeOK /\ MidiInv:  *)
(* the bytes are bytes, and the type is the status byte's unless a call has *)
(* misled the message.                                                      *)
(***************************************************************************)

(* A message as bytes and a type beside them: the type is one of those with *)
(* channels, which leave room for sixteen of them, or one of the system.    *)
MidiData == Seq(0..255)
MidiTypes == {n \in 0..239 : n % 16 = 0} \cup 240..255

Message == [type : MidiTypes, data : MidiData, length : Int]

MidiTypeOK ==
  /\ midi \in Message
  /\ misled \in BOOLEAN

(* The type is the status byte's unless a call has misled the message.      *)
HasByte(m) == m.data # <<>>
TypeFollows(m) == HasByte(m) /\ TypeOf(m.data[1]) = m.type
MidiInv == ~misled => TypeFollows(midi)

(* Types are numbers.                                                       *)
LEMMA TypesAreInts == \A t \in MidiTypes : t \in Int /\ t \in 0..255
  BY DEF MidiTypes

(* The type of a byte is a type.                                            *)
LEMMA TypeOfType == \A n \in 0..255 : TypeOf(n) \in MidiTypes
<1>1. \A n \in 0..239 : (n \div 16) * 16 \in 0..239 /\ ((n \div 16) * 16) % 16 = 0
  OBVIOUS
<1>2. QED
  BY <1>1 DEF TypeOf, MidiTypes

(* The bytes of a note that begins.                                         *)
LEMMA NoteOnBytes == \A n \in 0..255 : TypeOf(n) = 144 => n \in 144..159
  BY DEF TypeOf

(* What a byte keeps of a number.                                           *)
LEMMA LowByte == \A n \in Int : n % 256 \in 0..255 /\ (n \in 0..255 => n % 256 = n)
  OBVIOUS

(* The bytes that have a type: sixteen, or the one of the system.           *)
LEMMA TypeBounds ==
  \A n \in 0..255 :
    /\ TypeOf(n) \in Int
    /\ n < 240 => TypeOf(n) < 240 /\ n - TypeOf(n) \in 0..15
    /\ n >= 240 => TypeOf(n) = n
  BY DEF TypeOf

(* A status byte made of a type with channels and one of its channels.      *)
LEMMA StatusByte ==
  \A type \in MidiTypes, c \in 1..16 :
    ~OfSystem(type) => type + c - 1 \in 0..255 /\ (type < 240 => TypeOf(type + c - 1) = type)
<1>1. \A k \in 0..14, c \in 0..15 : 16 * k + c \in 0..239 /\ (16 * k + c) \div 16 = k
  OBVIOUS
<1>2. \A n \in 0..239 : n % 16 = 0 => \E k \in 0..14 : n = 16 * k
  OBVIOUS
<1>3. QED
  BY <1>1, <1>2 DEF MidiTypes, OfSystem, TypeOf

(* A byte is written over another.                                          *)
ByteAt(m, i, b) == [m EXCEPT !.data[i] = b]

LEMMA ByteWritten ==
  ASSUME NEW m \in Message,
         NEW i \in 1..Len(m.data), NEW b \in 0..255
  PROVE  /\ ByteAt(m, i, b) \in Message
         /\ ByteAt(m, i, b).type = m.type
         /\ Len(ByteAt(m, i, b).data) = Len(m.data)
         /\ i = 1 => ByteAt(m, i, b).data[1] = b
         /\ i # 1 => ByteAt(m, i, b).data[1] = m.data[1]
<1>1. PICK d : d = [m.data EXCEPT ![i] = b]
  OBVIOUS
<1>2. m.data \in Seq(0..255) /\ Len(m.data) \in Nat /\ DOMAIN m.data = 1..Len(m.data)
  BY DEF MidiData, Message
<1>3. d \in Seq(0..255) /\ Len(d) = Len(m.data) /\ d[1] = IF i = 1 THEN b ELSE m.data[1]
  BY <1>1, <1>2
<1>4. ByteAt(m, i, b) = [m EXCEPT !.data = d]
  BY <1>1 DEF ByteAt
<1>5. QED
  BY <1>3, <1>4 DEF MidiData, Message

(* What is written of a call is a byte, or a channel.                       *)
LEMMA Written == \A n \in Int : AsByte(n) \in 0..255 /\ AsChannel(n) \in 1..16
  BY DEF AsByte, AsChannel

(* set_key, set_value and set_length leave the type and the status byte.    *)
LEMMA KeyWritten ==
  ASSUME NEW m \in Message, Len(m.data) >= 3, NEW n \in Int
  PROVE  /\ WithKey(m, n) \in Message /\ Len(WithKey(m, n).data) = Len(m.data)
         /\ WithKey(m, n).type = m.type /\ WithKey(m, n).data[1] = m.data[1]
<1>1. AsByte(n) \in 0..255
  BY Written
<1>2. Len(m.data) \in Nat
  BY DEF Message, MidiData
<1>3. 2 \in 1..Len(m.data)
  BY <1>2
<1>4. PICK b \in 0..255 : b = AsByte(n)
  BY <1>1
<1>5. PICK i \in 1..Len(m.data) : i = 2
  BY <1>3
<1>6. WithKey(m, n) = ByteAt(m, i, b)
  BY <1>4, <1>5 DEF WithKey, ByteAt
<1>7. /\ ByteAt(m, i, b) \in Message
      /\ ByteAt(m, i, b).type = m.type
      /\ Len(ByteAt(m, i, b).data) = Len(m.data)
      /\ i = 1 => ByteAt(m, i, b).data[1] = b
      /\ i # 1 => ByteAt(m, i, b).data[1] = m.data[1]
  BY ByteWritten
<1>8. i # 1
  BY <1>5
<1>9. QED
  BY <1>6, <1>7, <1>8

LEMMA ValueWritten ==
  ASSUME NEW m \in Message, Len(m.data) >= 3, NEW n \in Int
  PROVE  /\ WithValue(m, n) \in Message /\ Len(WithValue(m, n).data) = Len(m.data)
         /\ WithValue(m, n).type = m.type /\ WithValue(m, n).data[1] = m.data[1]
<1>1. AsByte(n) \in 0..255
  BY Written
<1>2. Len(m.data) \in Nat
  BY DEF Message, MidiData
<1>3. 3 \in 1..Len(m.data)
  BY <1>2
<1>4. PICK b \in 0..255 : b = AsByte(n)
  BY <1>1
<1>5. PICK i \in 1..Len(m.data) : i = 3
  BY <1>3
<1>6. WithValue(m, n) = ByteAt(m, i, b)
  BY <1>4, <1>5 DEF WithValue, ByteAt
<1>7. /\ ByteAt(m, i, b) \in Message
      /\ ByteAt(m, i, b).type = m.type
      /\ Len(ByteAt(m, i, b).data) = Len(m.data)
      /\ i = 1 => ByteAt(m, i, b).data[1] = b
      /\ i # 1 => ByteAt(m, i, b).data[1] = m.data[1]
  BY ByteWritten
<1>8. i # 1
  BY <1>5
<1>9. QED
  BY <1>6, <1>7, <1>8

LEMMA LengthWritten ==
  ASSUME NEW m \in Message, NEW n \in Int
  PROVE  /\ WithLength(m, n) \in Message /\ WithLength(m, n).data = m.data
         /\ WithLength(m, n).type = m.type
<1>1. CASE n < 0
  BY <1>1 DEF WithLength, Message
<1>2. CASE ~(n < 0)
  BY <1>2 DEF WithLength, Message
<1>3. QED
  BY <1>1, <1>2

(* A byte string that is not empty has a first byte.                        *)
LEMMA StatusIsByte ==
  ASSUME NEW d \in MidiData, d # <<>>
  PROVE  Len(d) \in Nat /\ Len(d) >= 1 /\ d[1] \in 0..255
<1>1. Len(d) \in Nat /\ Len(d) # 0 /\ d \in Seq(0..255)
  BY EmptySeq DEF MidiData
<1>2. Len(d) >= 1
  BY <1>1
<1>3. d[1] \in 0..255
  <2>1. 1 \in 1..Len(d)
    BY <1>1, <1>2
  <2>2. QED
    BY <1>1, <2>1, ElementOfSeq
<1>4. QED
  BY <1>1, <1>2, <1>3

(* set_channel: the status byte becomes the type's, with a channel.         *)
LEMMA ChannelWritten ==
  ASSUME NEW m \in Message, HasByte(m), NEW n \in Int
  PROVE  /\ WithChannel(m, n) \in Message /\ Len(WithChannel(m, n).data) = Len(m.data)
         /\ WithChannel(m, n).type = m.type
         /\ OfSystem(m.type) => WithChannel(m, n) = m
         /\ m.type < 240 => TypeOf(WithChannel(m, n).data[1]) = m.type
<1>1. AsChannel(n) \in 1..16 /\ m.type \in MidiTypes
  BY Written DEF Message
<1>2. CASE OfSystem(m.type)
  <2>1. WithChannel(m, n) = m
    BY <1>2 DEF WithChannel
  <2>2. ~(m.type < 240)
    <3>1. m.type \in Int
      BY <1>1, TypesAreInts
    <3>2. QED
      BY <1>2, <3>1 DEF OfSystem
  <2>3. WithChannel(m, n).type = m.type /\ WithChannel(m, n).data = m.data
    BY <2>1
  <2>4. WithChannel(m, n) \in Message
    BY <2>1
  <2>5. QED
    BY <2>1, <2>2, <2>3, <2>4
<1>3. CASE ~OfSystem(m.type)
  <2> DEFINE b == m.type + AsChannel(n) - 1
  <2>1. b \in 0..255 /\ (m.type < 240 => TypeOf(b) = m.type)
    BY <1>1, <1>3, StatusByte
  <2>2. 1 \in 1..Len(m.data)
    BY StatusIsByte DEF Message, HasByte
  <2>3. WithChannel(m, n) = ByteAt(m, 1, b)
    BY <1>3 DEF WithChannel, ByteAt
  <2> HIDE DEF b
  <2>4. PICK i \in 1..Len(m.data), d \in 0..255 : i = 1 /\ d = b
    BY <2>1, <2>2
  <2>5. /\ ByteAt(m, i, d) \in Message
        /\ ByteAt(m, i, d).type = m.type
        /\ Len(ByteAt(m, i, d).data) = Len(m.data)
        /\ i = 1 => ByteAt(m, i, d).data[1] = d
    BY ByteWritten, ZenonT(60)
  <2>6. QED
    BY <1>3, <2>1, <2>3, <2>4, <2>5
<1>4. QED
  BY <1>2, <1>3

(* A type is given to a message, whatever its bytes.                        *)
LEMMA TypeGiven ==
  \A m \in Message : \A type \in MidiTypes :
    /\ [m EXCEPT !.type = type] \in Message
    /\ [m EXCEPT !.type = type].data = m.data
    /\ [m EXCEPT !.type = type].type = type
  BY DEF Message

(* A message that is no message of the system is built with a key, a        *)
(* channel and a value.                                                     *)
LEMMA NoteBuilt ==
  ASSUME NEW m \in Message, Len(m.data) >= 3,
         NEW note \in Int, NEW velocity \in Int, NEW length \in Int, NEW channel \in Int
  PROVE  /\ AsNote(m, note, velocity, length, channel) \in Message
         /\ Len(AsNote(m, note, velocity, length, channel).data) = Len(m.data)
         /\ TypeFollows(AsNote(m, note, velocity, length, channel))
<1>1. PICK t : t = [m EXCEPT !.type = IF velocity # 0 THEN NoteOn ELSE NoteOff]
  OBVIOUS
<1>2. t \in Message /\ t.data = m.data /\ t.type \in {NoteOn, NoteOff}
  <2>1. NoteOn \in MidiTypes /\ NoteOff \in MidiTypes
    BY DEF MidiTypes, NoteOn, NoteOff
  <2>2. QED
    BY <1>1, <2>1, TypeGiven
<1>3. PICK k : k = WithKey(t, note)
  OBVIOUS
<1>4. k \in Message /\ Len(k.data) = Len(m.data) /\ k.type = t.type
  BY <1>2, <1>3, KeyWritten
<1>5. PICK c : c = WithChannel(k, channel)
  OBVIOUS
<1>6. HasByte(k) /\ k.type < 240
  BY <1>2, <1>4 DEF Message, MidiData, NoteOn, NoteOff, HasByte
<1>7. c \in Message /\ Len(c.data) = Len(m.data) /\ c.type = k.type /\ TypeOf(c.data[1]) = k.type
  BY <1>4, <1>5, <1>6, ChannelWritten
<1>8. PICK v : v = WithValue(c, velocity)
  OBVIOUS
<1>9. /\ v \in Message /\ Len(v.data) = Len(m.data)
      /\ v.type = c.type /\ v.data[1] = c.data[1]
  BY <1>7, <1>8, ValueWritten
<1>10. AsNote(m, note, velocity, length, channel) = WithLength(v, length)
  BY <1>1, <1>3, <1>5, <1>8 DEF AsNote
<1>11. HasByte(v)
  BY <1>9 DEF Message, MidiData, HasByte
<1>12. /\ WithLength(v, length) \in Message /\ WithLength(v, length).data = v.data
       /\ WithLength(v, length).type = v.type
  BY <1>9, LengthWritten
<1>13. QED
  BY <1>7, <1>9, <1>10, <1>11, <1>12 DEF TypeFollows, HasByte

(* The same for a controller's message.                                     *)
LEMMA CtrlBuilt ==
  ASSUME NEW m \in Message, Len(m.data) >= 3,
         NEW ctrl \in Int, NEW value \in Int, NEW channel \in Int
  PROVE  /\ AsCtrl(m, ctrl, value, channel) \in Message
         /\ TypeFollows(AsCtrl(m, ctrl, value, channel))
<1>1. PICK t : t = [m EXCEPT !.type = CtrlChange]
  OBVIOUS
<1>2. t \in Message /\ t.data = m.data /\ t.type = 176
  <2>1. CtrlChange \in MidiTypes /\ CtrlChange = 176
    BY DEF MidiTypes, CtrlChange
  <2>2. QED
    BY <1>1, <2>1, TypeGiven
<1>3. PICK k : k = WithKey(t, ctrl)
  OBVIOUS
<1>4. k \in Message /\ Len(k.data) = Len(m.data) /\ k.type = t.type
  BY <1>2, <1>3, KeyWritten
<1>5. PICK c : c = WithChannel(k, channel)
  OBVIOUS
<1>6. HasByte(k) /\ k.type < 240
  BY <1>2, <1>4 DEF Message, MidiData, HasByte
<1>7. c \in Message /\ Len(c.data) = Len(m.data) /\ c.type = k.type /\ TypeOf(c.data[1]) = k.type
  BY <1>4, <1>5, <1>6, ChannelWritten
<1>8. PICK v : v = WithValue(c, value)
  OBVIOUS
<1>9. /\ v \in Message /\ Len(v.data) = Len(m.data)
      /\ v.type = c.type /\ v.data[1] = c.data[1]
  BY <1>7, <1>8, ValueWritten
<1>10. AsCtrl(m, ctrl, value, channel) = v
  BY <1>1, <1>3, <1>5, <1>8 DEF AsCtrl
<1>11. HasByte(v)
  BY <1>9 DEF Message, MidiData, HasByte
<1>12. QED
  BY <1>7, <1>9, <1>10, <1>11 DEF TypeFollows

(* A byte that was written first is the status byte.                        *)
LEMMA ByteIsThere ==
  ASSUME NEW m, NEW w \in Message, NEW i \in 1..Len(m.data), i = 1, NEW b,
         Len(w.data) = Len(m.data), i = 1 => w.data[1] = b
  PROVE  w.data # <<>> /\ w.data[1] = b
<1>1. w.data \in Seq(0..255)
  BY DEF Message, MidiData
<1>2. i \in 1..Len(w.data)
  OBVIOUS
<1>3. w.data # <<>>
  BY <1>1, <1>2
<1>4. QED
  BY <1>3

(* note_on_to_off and set_type on a message that has a status byte.         *)
LEMMA TurnedOff ==
  ASSUME NEW m \in Message, HasByte(m)
  PROVE  /\ NoteOnToOff(m) \in Message
         /\ TypeFollows(m) => TypeFollows(NoteOnToOff(m))
<1>1. CASE m.type # NoteOn
  BY <1>1 DEF NoteOnToOff
<1>2. CASE m.type = NoteOn
  <2>0. PICK x \in 0..255 : x = m.data[1]
    BY StatusIsByte DEF Message, HasByte
  <2>1. PICK b \in 0..255 : b = (x - 16) % 256
    OBVIOUS
  <2>8. TypeFollows(m) => b \in 128..143
    <3>1. TypeOf(x) = 144 => x \in 144..159
      BY NoteOnBytes
    <3>2. x \in 144..159 => b \in 128..143
      BY <2>1
    <3>3. TypeFollows(m) => TypeOf(x) = 144
      BY <1>2, <2>0 DEF TypeFollows, NoteOn
    <3>4. QED
      BY <3>1, <3>2, <3>3
  <2>2. PICK i \in 1..Len(m.data) : i = 1
    BY StatusIsByte DEF Message, HasByte
  <2>3. PICK w : w = ByteAt(m, i, b)
    OBVIOUS
  <2>4. /\ w \in Message /\ w.type = m.type
        /\ Len(w.data) = Len(m.data)
        /\ i = 1 => w.data[1] = b
    BY <2>3, ByteWritten, ZenonT(60)
  <2>5. NoteOnToOff(m) = [w EXCEPT !.type = NoteOff]
    BY <1>2, <2>0, <2>1, <2>2, <2>3 DEF NoteOnToOff, ByteAt
  <2>6. NoteOff \in MidiTypes
    BY DEF NoteOff, MidiTypes
  <2>7. /\ NoteOnToOff(m) \in Message
        /\ NoteOnToOff(m).data = w.data /\ NoteOnToOff(m).type = NoteOff
    BY <2>4, <2>5, <2>6, TypeGiven
  <2>9. b \in 128..143 => TypeOf(b) = NoteOff
    BY DEF TypeOf, NoteOff
  <2>10. w.data # <<>> /\ w.data[1] = b
    <3>1. i = 1 /\ w \in Message
      BY <2>2, <2>4
    <3>2. Len(w.data) = Len(m.data)
      BY <2>4
    <3>3. i = 1 => w.data[1] = b
      BY <2>4
    <3>4. QED
      BY <3>1, <3>2, <3>3, ByteIsThere
  <2>11. QED
    BY <2>7, <2>8, <2>9, <2>10 DEF TypeFollows, HasByte
<1>3. QED
  BY <1>1, <1>2

(* set_type: the status byte becomes the type's, with the channel it had.   *)
LEMMA TypeSet ==
  ASSUME NEW m \in Message, HasByte(m), NEW type \in MidiType
  PROVE  /\ WithType(m, type) \in Message
         /\ OfSystem(type) => TypeFollows(WithType(m, type))
         /\ TypeFollows(m) /\ ~OfSystem(m.type) => TypeFollows(WithType(m, type))
<1>1. type \in MidiTypes /\ (type \in 241..255 \/ (type \in 0..239 /\ type % 16 = 0))
  BY MidiAssumption DEF MidiTypes
<1>0. PICK x \in 0..255, k \in MidiTypes : x = m.data[1] /\ k = m.type
  BY StatusIsByte DEF Message, HasByte
<1>2. ChannelOf(m) = IF OfSystem(k) THEN 0 ELSE x - k + 1
  BY <1>0 DEF ChannelOf
<1>3. PICK n \in Int : n = IF OfSystem(type) THEN type ELSE type + ChannelOf(m) - 1
  BY <1>1, <1>2, TypesAreInts
<1>4. PICK b \in 0..255 : b = n % 256
  BY LowByte
<1>5. PICK i \in 1..Len(m.data) : i = 1
  BY StatusIsByte DEF Message, HasByte
<1>6. PICK w : w = ByteAt(m, i, b)
  OBVIOUS
<1>7. /\ w \in Message /\ w.type = m.type
      /\ Len(w.data) = Len(m.data)
      /\ i = 1 => w.data[1] = b
  BY <1>6, ByteWritten, ZenonT(60)
<1>8. WithType(m, type) = [w EXCEPT !.type = type]
  BY <1>3, <1>4, <1>5, <1>6 DEF WithType, ByteAt
<1>9. /\ WithType(m, type) \in Message
      /\ WithType(m, type).data = w.data /\ WithType(m, type).type = type
  BY <1>1, <1>7, <1>8, TypeGiven
<1>10. w.data # <<>> /\ w.data[1] = b
  <2>1. i = 1 /\ w \in Message
    BY <1>5, <1>7
  <2>2. Len(w.data) = Len(m.data)
    BY <1>7
  <2>3. i = 1 => w.data[1] = b
    BY <1>7
  <2>4. QED
    BY <2>1, <2>2, <2>3, ByteIsThere
<1>11. OfSystem(type) => TypeOf(b) = type
  <2>1. OfSystem(type) => n = type /\ type \in 241..255
    BY <1>1, <1>3 DEF OfSystem
  <2>2. n \in 241..255 => b = n
    BY <1>4
  <2>3. b >= 240 => TypeOf(b) = b
    BY TypeBounds
  <2>4. QED
    BY <2>1, <2>2, <2>3
<1>12. TypeFollows(m) /\ ~OfSystem(m.type) /\ ~OfSystem(type) => TypeOf(b) = type
  <2>1. SUFFICES ASSUME TypeFollows(m), ~OfSystem(m.type), ~OfSystem(type)
                 PROVE  TypeOf(b) = type
    OBVIOUS
  <2>2. TypeOf(x) = k /\ ~OfSystem(k)
    BY <1>0, <2>1 DEF TypeFollows
  <2>3. x - k \in 0..15
    <3>1. k \in Int /\ ~(k > 240)
      BY <2>2, TypesAreInts DEF OfSystem
    <3>2. x < 240 => x - k \in 0..15
      BY <2>2, TypeBounds
    <3>3. x >= 240 => x = k
      BY <2>2, TypeBounds
    <3>4. QED
      BY <3>1, <3>2, <3>3
  <2>4. PICK c \in 1..16 : c = x - k + 1
    <3>1. k \in Int
      BY TypesAreInts
    <3>2. QED
      BY <2>3, <3>1
  <2>5. type \in 0..239
    <3>1. type \in 241..255 => type > 240
      OBVIOUS
    <3>2. QED
      BY <1>1, <2>1, <3>1 DEF OfSystem
  <2>6. type + c - 1 \in 0..255 /\ TypeOf(type + c - 1) = type
    <3>1. type < 240
      BY <2>5
    <3>2. QED
      BY <1>1, <2>1, <3>1, StatusByte
  <2>7. n = type + c - 1
    BY <1>2, <1>3, <2>1, <2>2, <2>4, <2>5, TypesAreInts
  <2>8. b = n
    <3>1. n \in 0..255
      BY <2>6, <2>7
    <3>2. QED
      BY <1>4, <3>1, LowByte
  <2>9. QED
    BY <2>6, <2>7, <2>8
<1>13. QED
  BY <1>9, <1>10, <1>11, <1>12 DEF TypeFollows, HasByte

(* A list of numbers that are bytes, and a length behind them: unpack reads *)
(* the message they were told from.                                         *)
LEMMA NumbersTaken ==
  ASSUME NEW m \in Message, NEW d \in MidiData, d # <<>>, NEW length \in Int
  PROVE  /\ FromNumbers(m, Append(d, length)) \in Message
         /\ FromNumbers(m, Append(d, length)).data = d
         /\ FromNumbers(m, Append(d, length)).type = TypeOf(d[1])
<1>1. PICK n : n = Append(d, length)
  OBVIOUS
<1>2. d \in Seq(Int) /\ d \in Seq(0..255)
  <2>1. d \in Seq(0..255)
    BY DEF MidiData
  <2>2. (0..255) \subseteq Int
    OBVIOUS
  <2>3. QED
    BY <2>1, <2>2, SeqMonotonic
<1>3. Len(d) \in Nat /\ Len(d) >= 1 /\ d[1] \in 0..255
  BY StatusIsByte
<1>4. n \in Seq(Int) /\ Len(n) = Len(d) + 1 /\ n[Len(n)] = length
  BY <1>1, <1>2, AppendProperties
<1>5. \A i \in 1..Len(d) : n[i] = d[i] /\ d[i] \in 0..255
  BY <1>1, <1>2, AppendProperties, ElementOfSeq
<1>6. \A i \in 1..Len(d) : n[i] % 256 = d[i]
  <2> TAKE i \in 1..Len(d)
  <2>1. PICK x \in 0..255 : x = d[i]
    BY <1>5
  <2>2. x % 256 = x
    BY LowByte
  <2>3. QED
    BY <1>5, <2>1, <2>2
<1>7. [i \in 1..(Len(n) - 1) |-> n[i] % 256] = d
  <2>1. Len(n) - 1 = Len(d)
    BY <1>3, <1>4
  <2>2. d = [i \in 1..Len(d) |-> d[i]]
    BY <1>2
  <2>3. [i \in 1..Len(d) |-> n[i] % 256] = [i \in 1..Len(d) |-> d[i]]
    BY <1>6
  <2>4. QED
    BY <2>1, <2>2, <2>3
<1>8. n[1] % 256 = d[1]
  <2>1. 1 \in 1..Len(d)
    BY <1>3
  <2>2. QED
    BY <1>6, <2>1
<1>9. Last(n) = length
  BY <1>4 DEF Last
<1>10. PICK t : t = TypeOf(d[1])
  OBVIOUS
<1>11. t \in MidiTypes
  BY <1>3, <1>10, TypeOfType
<1>12. FromNumbers(m, n) = [m EXCEPT !.data = d, !.type = t, !.length = length]
  BY <1>7, <1>8, <1>9, <1>10 DEF FromNumbers
<1>13. PICK v : v = [m EXCEPT !.data = d, !.type = t, !.length = length]
  OBVIOUS
<1>14. v \in Message /\ v.data = d /\ v.type = t
  BY <1>11, <1>13 DEF Message
<1>15. QED
  BY <1>1, <1>10, <1>12, <1>13, <1>14

-----------------------------------------------------------------------------

(* A new message is a note whose type is its status byte's.                 *)
LEMMA MidiStarts == MidiInit => MidiTypeOK /\ MidiInv
<1>1. BlankMidi \in Message /\ Len(BlankMidi.data) >= 3
  BY DEF BlankMidi, Message, MidiTypes, MidiData, RawMidi
<1>2. /\ AsNote(BlankMidi, 60, 80, 500, 1) \in Message
      /\ TypeFollows(AsNote(BlankMidi, 60, 80, 500, 1))
  BY <1>1, NoteBuilt
<1>3. QED
  BY <1>2 DEF MidiInit, MidiTypeOK, MidiInv

(* Every call keeps the message's form, and its type with its status byte   *)
(* or marked as misled.                                                     *)
LEMMA MidiSteps == MidiTypeOK /\ MidiInv /\ [MidiNext]_midiVars => (MidiTypeOK /\ MidiInv)'
<1> SUFFICES ASSUME midi \in Message, misled \in BOOLEAN, MidiInv, [MidiNext]_midiVars
             PROVE  midi' \in Message /\ misled' \in BOOLEAN /\ MidiInv'
  BY DEF MidiTypeOK
<1>1. ASSUME NEW note \in DataByte, NEW velocity \in DataByte, NEW channel \in Channel,
             SetAsNote(note, velocity, 5, channel)
      PROVE  midi' \in Message /\ misled' \in BOOLEAN /\ MidiInv'
  <2>1. note \in Int /\ velocity \in Int /\ channel \in Int /\ 5 \in Int
    BY MidiAssumption
  <2>2. Len(midi.data) >= 3
    BY <1>1 DEF SetAsNote, Whole
  <2>3. /\ AsNote(midi, note, velocity, 5, channel) \in Message
        /\ TypeFollows(AsNote(midi, note, velocity, 5, channel))
    BY <2>1, <2>2, NoteBuilt
  <2>4. QED
    BY <1>1, <2>3 DEF SetAsNote, MidiInv
<1>2. ASSUME NEW ctrl \in DataByte, NEW value \in DataByte, NEW channel \in Channel,
             SetAsCtrl(ctrl, value, channel)
      PROVE  midi' \in Message /\ misled' \in BOOLEAN /\ MidiInv'
  <2>1. ctrl \in Int /\ value \in Int /\ channel \in Int
    BY MidiAssumption
  <2>2. Len(midi.data) >= 3
    BY <1>2 DEF SetAsCtrl, Whole
  <2>3. /\ AsCtrl(midi, ctrl, value, channel) \in Message
        /\ TypeFollows(AsCtrl(midi, ctrl, value, channel))
    BY <2>1, <2>2, CtrlBuilt
  <2>4. QED
    BY <1>2, <2>3 DEF SetAsCtrl, MidiInv
<1>3. CASE TurnOff
  <2>1. HasByte(midi)
    BY <1>3 DEF TurnOff, HasStatus, HasByte
  <2>2. QED
    BY <1>3, <2>1, TurnedOff DEF TurnOff, MidiInv
<1>4. ASSUME NEW type \in MidiType, SetType(type)
      PROVE  midi' \in Message /\ misled' \in BOOLEAN /\ MidiInv'
  <2>1. HasByte(midi)
    BY <1>4 DEF SetType, HasStatus, HasByte
  <2>2. /\ WithType(midi, type) \in Message
        /\ OfSystem(type) => TypeFollows(WithType(midi, type))
        /\ TypeFollows(midi) /\ ~OfSystem(midi.type) => TypeFollows(WithType(midi, type))
    BY <2>1, TypeSet
  <2>3. QED
    BY <1>4, <2>2 DEF SetType, MidiInv
<1>5. ASSUME NEW n \in DataByte, SetKey_(n) \/ SetValue_(n) \/ SetLength(n)
      PROVE  midi' \in Message /\ misled' \in BOOLEAN /\ MidiInv'
  <2>1. n \in Int
    BY MidiAssumption
  <2>2. CASE SetKey_(n)
    <3>1. Len(midi.data) >= 3
      BY <2>2 DEF SetKey_, Whole
    <3>2. /\ WithKey(midi, n) \in Message /\ Len(WithKey(midi, n).data) = Len(midi.data)
          /\ WithKey(midi, n).type = midi.type /\ WithKey(midi, n).data[1] = midi.data[1]
      BY <2>1, <3>1, KeyWritten
    <3>3. HasByte(WithKey(midi, n))
      BY <3>1, <3>2 DEF HasByte, Message, MidiData
    <3>4. QED
      BY <2>2, <3>2, <3>3 DEF SetKey_, MidiInv, TypeFollows
  <2>3. CASE SetValue_(n)
    <3>1. Len(midi.data) >= 3
      BY <2>3 DEF SetValue_, Whole
    <3>2. /\ WithValue(midi, n) \in Message /\ Len(WithValue(midi, n).data) = Len(midi.data)
          /\ WithValue(midi, n).type = midi.type /\ WithValue(midi, n).data[1] = midi.data[1]
      BY <2>1, <3>1, ValueWritten
    <3>3. HasByte(WithValue(midi, n))
      BY <3>1, <3>2 DEF HasByte, Message, MidiData
    <3>4. QED
      BY <2>3, <3>2, <3>3 DEF SetValue_, MidiInv, TypeFollows
  <2>4. CASE SetLength(n)
    <3>1. /\ WithLength(midi, n) \in Message /\ WithLength(midi, n).data = midi.data
          /\ WithLength(midi, n).type = midi.type
      BY <2>1, LengthWritten
    <3>2. QED
      BY <2>4, <3>1 DEF SetLength, MidiInv, TypeFollows, HasByte
  <2>5. QED
    BY <1>5, <2>2, <2>3, <2>4
<1>6. ASSUME NEW n \in Channel, SetChannel(n)
      PROVE  midi' \in Message /\ misled' \in BOOLEAN /\ MidiInv'
  <2>1. n \in Int /\ HasByte(midi)
    BY <1>6, MidiAssumption DEF SetChannel, HasStatus, HasByte
  <2>2. /\ WithChannel(midi, n) \in Message
        /\ Len(WithChannel(midi, n).data) = Len(midi.data)
        /\ WithChannel(midi, n).type = midi.type
        /\ OfSystem(midi.type) => WithChannel(midi, n) = midi
        /\ midi.type < 240 => TypeOf(WithChannel(midi, n).data[1]) = midi.type
    BY <2>1, ChannelWritten
  <2>3. midi.type # 240 => OfSystem(midi.type) \/ midi.type < 240
    <3>1. midi.type \in MidiTypes
      BY DEF Message
    <3>2. midi.type \in Int
      BY <3>1, TypesAreInts
    <3>3. QED
      BY <3>2 DEF OfSystem
  <2>4. HasByte(WithChannel(midi, n))
    BY <2>1, <2>2 DEF HasByte, Message, MidiData
  <2>5. QED
    BY <1>6, <2>2, <2>3, <2>4 DEF SetChannel, MidiInv, TypeFollows
<1>7. ASSUME NEW data \in Raw, SetBytes(data) \/ SetNumbers(Append(data, 7))
      PROVE  midi' \in Message /\ misled' \in BOOLEAN /\ MidiInv'
  <2>1. data \in Seq(0..255) /\ data # <<>>
    BY MidiAssumption
  <2>2. PICK t : t = TypeOf(data[1])
    OBVIOUS
  <2>3. data[1] \in 0..255 /\ t \in MidiTypes
    BY <2>1, <2>2, StatusIsByte, TypeOfType DEF MidiData
  <2>4. CASE SetBytes(data)
    <3>1. midi' = [midi EXCEPT !.data = data, !.type = t]
      BY <2>2, <2>4 DEF SetBytes, FromBytes
    <3>2. midi' \in Message /\ midi'.data = data /\ midi'.type = t
      BY <2>1, <2>3, <3>1 DEF Message, MidiData
    <3>3. QED
      BY <2>1, <2>2, <2>4, <3>2 DEF SetBytes, MidiInv, TypeFollows, HasByte
  <2>5. CASE SetNumbers(Append(data, 7))
    <3>1. /\ FromNumbers(midi, Append(data, 7)) \in Message
          /\ FromNumbers(midi, Append(data, 7)).data = data
          /\ FromNumbers(midi, Append(data, 7)).type = TypeOf(data[1])
      BY <2>1, NumbersTaken DEF MidiData
    <3>2. QED
      BY <2>1, <2>5, <3>1 DEF SetNumbers, MidiInv, TypeFollows, HasByte
  <2>6. QED
    BY <1>7, <2>4, <2>5
<1>8. ASSUME NEW data \in Raw \cup {<<>>}, RefuseNumbers(data)
      PROVE  midi' \in Message /\ misled' \in BOOLEAN /\ MidiInv'
  <2>1. data \in Seq(0..255)
    <3>1. CASE data \in Raw
      BY <3>1, MidiAssumption
    <3>2. CASE data = <<>>
      BY <3>2
    <3>3. QED
      BY <3>1, <3>2
  <2>2. QED
    BY <1>8, <2>1 DEF RefuseNumbers, Message, MidiData, MidiInv
<1>9. CASE UNCHANGED midiVars
  BY <1>9 DEF midiVars, MidiInv
<1>10. QED
  BY <1>1, <1>2, <1>3, <1>4, <1>5, <1>6, <1>7, <1>8, <1>9 DEF MidiNext

(* The type of a message stands beside its status byte, which many calls    *)
(* write: after any of them what to_json tells, and a device gets, is of    *)
(* the type the message says, for any bytes, channels, types and devices.   *)
THEOREM TypeKeepsItsByte == MidiSpec => []StatusTellsType
<1>1. MidiTypeOK /\ MidiInv => StatusTellsType
  <2> SUFFICES ASSUME midi \in Message, MidiInv, misled = FALSE
               PROVE  FromNumbers(midi, Told(midi)).type = midi.type /\ midi.data[1] \in 0..255
    BY DEF StatusTellsType, MidiTypeOK
  <2>1. HasByte(midi) /\ TypeOf(midi.data[1]) = midi.type
    BY DEF MidiInv, TypeFollows
  <2>2. midi.data \in MidiData /\ midi.length \in Int /\ midi.data # <<>>
    BY <2>1 DEF Message, HasByte
  <2>3. Told(midi) = Append(midi.data, midi.length)
    BY <2>2 DEF Told, MidiData
  <2>4. FromNumbers(midi, Append(midi.data, midi.length)).type = TypeOf(midi.data[1])
    BY <2>2, NumbersTaken
  <2>5. midi.data[1] \in 0..255
    BY <2>2, StatusIsByte
  <2>6. QED
    BY <2>1, <2>3, <2>4, <2>5
<1>2. QED
  BY <1>1, MidiStarts, MidiSteps, PTL DEF MidiSpec

-----------------------------------------------------------------------------
(***************************************************************************)
(* MapTables, for any urls and any scripts, parsed one after another.  The  *)
(* entries of a script are set by a loop, whose invariant is Paired: when   *)
(* an element leads to a control that is mapped back to where it came from, *)
(* the two were set together.  What is scaled there and back is then a      *)
(* matter of numbers (ScaledThere, ScaledBack).                             *)
(***************************************************************************)

MapElements == [target : MapUrl, from : MapRange, to : MapRange]
MapTable == UNION {[D -> MapElements] : D \in SUBSET MapUrl}
MapPair == [map : MapTable, back : MapTable]

Paired(m) ==
  \A u \in DOMAIN m.map :
    (/\ m.map[u].target \in DOMAIN m.back
     /\ m.back[m.map[u].target].target = u)
    => /\ m.back[m.map[u].target].from = m.map[u].to
       /\ m.back[m.map[u].target].to = m.map[u].from

PairedTables == {m \in MapPair : Paired(m)}
TablesNow == [map |-> map_, back |-> reverse_map_]
TablesInv == TablesNow \in PairedTables

(* One more element in a table.                                             *)
LEMMA WithMore ==
  ASSUME NEW m \in MapTable, NEW url \in MapUrl, NEW e \in MapElements,
         NEW w, w = With(m, url, e)
  PROVE  /\ w \in MapTable /\ DOMAIN w = DOMAIN m \cup {url} /\ w[url] = e
         /\ \A u \in DOMAIN m \ {url} : w[u] = m[u]
<1>1. PICK D \in SUBSET MapUrl : m \in [D -> MapElements]
  BY DEF MapTable
<1>3. w = [u \in D \cup {url} |-> IF u = url THEN e ELSE m[u]]
  BY <1>1 DEF With
<1>4. w \in [D \cup {url} -> MapElements] /\ D \cup {url} \in SUBSET MapUrl
  BY <1>1, <1>3
<1>5. w \in MapTable
  BY <1>4, Zenon DEF MapTable
<1>. QED
  BY <1>1, <1>3, <1>5

LEMMA ElementFields ==
  ASSUME NEW target, NEW from, NEW to
  PROVE  /\ Element(target, from, to).target = target
         /\ Element(target, from, to).from = from /\ Element(target, from, to).to = to
         /\ target \in MapUrl /\ from \in MapRange /\ to \in MapRange
              => Element(target, from, to) \in MapElements
BY DEF Element, MapElements

(* set_map writes both tables: what led to the source or the target before  *)
(* leads elsewhere or is not mapped back any more.                          *)
LEMMA SetMapPairs ==
  ASSUME NEW m \in PairedTables, NEW e \in MapEntry
  PROVE  SetMap(m, e) \in PairedTables
<1>1. m.map \in MapTable /\ m.back \in MapTable /\ Paired(m)
  BY DEF PairedTables, MapPair
<1>2. e[1] \in MapUrl /\ e[2] \in MapRange /\ e[3] \in MapUrl /\ e[4] \in MapRange
  BY DEF MapEntry
<1>3. PICK there : there = Element(e[3], e[2], e[4])
  OBVIOUS
<1>4. PICK back : back = Element(e[1], e[4], e[2])
  OBVIOUS
<1>5. /\ there \in MapElements /\ there.target = e[3] /\ there.from = e[2] /\ there.to = e[4]
      /\ back \in MapElements /\ back.target = e[1] /\ back.from = e[4] /\ back.to = e[2]
  BY <1>2, <1>3, <1>4, ElementFields
<1>6. PICK t : t = With(m.map, e[1], there)
  OBVIOUS
<1>7. PICK b : b = With(m.back, e[3], back)
  OBVIOUS
<1>8. /\ t \in MapTable /\ DOMAIN t = DOMAIN m.map \cup {e[1]} /\ t[e[1]] = there
      /\ \A u \in DOMAIN m.map \ {e[1]} : t[u] = m.map[u]
  <2>1. PICK x \in MapTable : x = m.map
    BY <1>1
  <2>2. PICK url \in MapUrl : url = e[1]
    BY <1>2
  <2>3. t = With(x, url, there) /\ there \in MapElements
    BY <1>5, <1>6, <2>1, <2>2
  <2>4. /\ t \in MapTable /\ DOMAIN t = DOMAIN x \cup {url} /\ t[url] = there
        /\ \A u \in DOMAIN x \ {url} : t[u] = x[u]
    BY <2>3, WithMore
  <2>. QED
    BY <2>1, <2>2, <2>4
<1>9. /\ b \in MapTable /\ DOMAIN b = DOMAIN m.back \cup {e[3]} /\ b[e[3]] = back
      /\ \A u \in DOMAIN m.back \ {e[3]} : b[u] = m.back[u]
  <2>1. PICK x \in MapTable : x = m.back
    BY <1>1
  <2>2. PICK url \in MapUrl : url = e[3]
    BY <1>2
  <2>3. b = With(x, url, back) /\ back \in MapElements
    BY <1>5, <1>7, <2>1, <2>2
  <2>4. /\ b \in MapTable /\ DOMAIN b = DOMAIN x \cup {url} /\ b[url] = back
        /\ \A u \in DOMAIN x \ {url} : b[u] = x[u]
    BY <2>3, WithMore
  <2>. QED
    BY <2>1, <2>2, <2>4
<1>10. PICK s : s = [map |-> t, back |-> b]
  OBVIOUS
<1>11. SetMap(m, e) = s
  BY <1>3, <1>4, <1>6, <1>7, <1>10 DEF SetMap
<1>12. s \in MapPair /\ s.map = t /\ s.back = b
  BY <1>8, <1>9, <1>10 DEF MapPair
<1>13. ASSUME NEW u \in DOMAIN t, t[u].target \in DOMAIN b, b[t[u].target].target = u
       PROVE  b[t[u].target].from = t[u].to /\ b[t[u].target].to = t[u].from
  <2>1. CASE u = e[1]
    BY <1>5, <1>8, <1>9, <2>1
  <2>2. CASE u # e[1]
    <3>1. t[u] = m.map[u] /\ u \in DOMAIN m.map
      BY <1>8, <2>2
    <3>2. t[u].target # e[3]
      BY <1>5, <1>9, <1>13, <2>2
    <3>3. t[u].target \in DOMAIN m.back /\ b[t[u].target] = m.back[t[u].target]
      BY <1>9, <1>13, <3>2
    <3>. QED
      BY <1>1, <1>13, <3>1, <3>3 DEF Paired
  <2>. QED
    BY <2>1, <2>2
<1>14. Paired(s)
  BY <1>12, <1>13 DEF Paired
<1>. QED
  BY <1>11, <1>12, <1>14 DEF PairedTables

(* So does the loop over the entries of a script.                           *)
LEMMA SetAllPairs ==
  ASSUME NEW m \in PairedTables, NEW entries \in Seq(MapEntry)
  PROVE  SetAll(m, entries) \in PairedTables
<1>. DEFINE turn == [p \in (1..Len(entries)) \X PairedTables |-> SetMap(p[2], entries[p[1]])]
            After(f) == f = [n \in 0..Len(entries) |->
                               IF n = 0 THEN m ELSE SetMap(f[n - 1], entries[n])]
<1>1. turn \in [(1..Len(entries)) \X PairedTables -> PairedTables]
  <2>1. \A p \in (1..Len(entries)) \X PairedTables :
          p[2] \in PairedTables /\ entries[p[1]] \in MapEntry
    OBVIOUS
  <2>2. \A p \in (1..Len(entries)) \X PairedTables : SetMap(p[2], entries[p[1]]) \in PairedTables
    BY <2>1, SetMapPairs
  <2>. QED
    BY <2>2
<1>2. Len(entries) \in Nat
  OBVIOUS
<1>3. PICK f \in [0..Len(entries) -> PairedTables] : Runs(f, Len(entries), m, turn)
  <2>. HIDE DEF turn
  <2>. QED
    BY <1>1, <1>2, TurnsExist
<1>4. ASSUME NEW n \in 1..Len(entries)
      PROVE  f[n] = SetMap(f[n - 1], entries[n])
  <2>1. n - 1 \in 0..Len(entries)
    BY <1>2
  <2>2. PICK p : p = <<n, f[n - 1]>>
    OBVIOUS
  <2>3. p \in (1..Len(entries)) \X PairedTables /\ p[1] = n /\ p[2] = f[n - 1]
    BY <2>1, <2>2
  <2>4. f[n] = turn[p]
    BY <1>3, <2>2 DEF Runs
  <2>5. turn[p] = SetMap(p[2], entries[p[1]])
    BY <2>3
  <2>. QED
    BY <2>3, <2>4, <2>5
<1>5. After(f)
  <2>1. \A n \in 0..Len(entries) : n = 0 \/ n \in 1..Len(entries)
    BY <1>2
  <2>2. \A n \in 0..Len(entries) : f[n] = IF n = 0 THEN m ELSE SetMap(f[n - 1], entries[n])
    <3>. HIDE DEF turn
    <3>1. f[0] = m
      BY <1>3 DEF Runs
    <3>. QED
      BY <1>4, <2>1, <3>1
  <2>. QED
    BY <2>2
<1>6. \E g : After(g)
  BY <1>5
<1>7. After(CHOOSE g : After(g)) /\ SetAll(m, entries) = (CHOOSE g : After(g))[Len(entries)]
  BY <1>6 DEF SetAll
<1>8. PICK g : After(g) /\ SetAll(m, entries) = g[Len(entries)]
  BY <1>7
<1>9. g[0] = m /\ \A n \in 1..Len(entries) : g[n] = SetMap(g[n - 1], entries[n])
  <2>1. \A n \in 0..Len(entries) : g[n] = IF n = 0 THEN m ELSE SetMap(g[n - 1], entries[n])
    BY <1>8
  <2>2. 0 \in 0..Len(entries) /\ \A n \in 1..Len(entries) : n \in 0..Len(entries) /\ n # 0
    BY <1>2
  <2>. HIDE DEF After
  <2>. QED
    BY <2>1, <2>2
<1>10. \A n \in 0..Len(entries) : g[n] \in PairedTables
  <2>. DEFINE T == {n \in 0..Len(entries) : g[n] \in PairedTables}
  <2>1. 0 \in T
    <3>1. 0 \in 0..Len(entries) /\ g[0] \in PairedTables
      BY <1>2, <1>9
    <3>. QED
      BY <3>1
  <2>2. ASSUME NEW n \in 1..Len(entries), n - 1 \in T  PROVE n \in T
    <3>1. g[n - 1] \in PairedTables /\ entries[n] \in MapEntry /\ n \in 0..Len(entries)
      BY <2>2, <1>2
    <3>2. SetMap(g[n - 1], entries[n]) \in PairedTables
      BY <3>1, SetMapPairs
    <3>. QED
      BY <1>9, <3>1, <3>2
  <2>3. \A n \in 0..Len(entries) : n \in T
    <3>. HIDE DEF T
    <3>. QED
      BY <1>2, <2>1, <2>2, UpTo
  <2>. QED
    BY <2>3
<1>. QED
  <2>1. Len(entries) \in 0..Len(entries)
    BY <1>2
  <2>. HIDE DEF After
  <2>. QED
    BY <1>8, <1>10, <2>1

-----------------------------------------------------------------------------
(* Scales *)

LEMMA Divides ==
  ASSUME NEW n \in Int, NEW y \in Nat, y > 0, n % y = 0
  PROVE  n = (n \div y) * y /\ n \div y \in Int
OBVIOUS

LEMMA LessTimes ==
  ASSUME NEW x \in Int, NEW z \in Int, NEW y \in Nat, y > 0
  PROVE  x <= z <=> x * y <= z * y
OBVIOUS

LEMMA TimesDiv ==
  ASSUME NEW x \in Int, NEW y \in Nat, y > 0
  PROVE  (x * y) \div y = x
OBVIOUS

(* How far an exact value is into the range it is scaled to: back from      *)
(* there it is where it was.                                                *)
LEMMA Proportion ==
  ASSUME NEW k \in Nat, NEW n \in Nat, NEW w \in Nat, n > 0, w > 0, k <= n, (k * w) % n = 0
  PROVE  /\ (k * w) \div n \in 0..w
         /\ (((k * w) \div n) * n) \div w = k
<1>1. k * w \in Int /\ k * w <= n * w /\ 0 <= k * w
  BY LessTimes
<1>2. PICK q \in Int : q = (k * w) \div n /\ k * w = q * n
  BY <1>1, Divides
<1>3. (q * n) \div w = k
  BY <1>2, TimesDiv
<1>4. q <= w
  <2>1. q * n <= w * n
    BY <1>1, <1>2
  <2>. QED
    BY <2>1, LessTimes
<1>5. 0 <= q
  <2>1. 0 * n <= q * n
    BY <1>1, <1>2
  <2>. QED
    BY <2>1, LessTimes
<1>. QED
  BY <1>2, <1>3, <1>4, <1>5

(* A value in the source range of an ascending element is not clamped.      *)
Spans(e, a, b, c, d) == a = e.from[1] /\ b = e.from[2] /\ c = e.to[1] /\ d = e.to[2]

LEMMA NotClamped ==
  ASSUME NEW e, NEW value \in Int, NEW a \in Int, NEW b \in Int, NEW c \in Int, NEW d \in Int,
         Spans(e, a, b, c, d),
         NEW q \in 0..(d - c), q = ((value - a) * (d - c)) \div (b - a)
  PROVE  Scale(e, value) = c + q
<1>1. PICK res : res = c + q
  OBVIOUS
<1>2. res \in Int /\ ~(res < c) /\ ~(res > d)
  BY <1>1
<1>3. Scale(e, value) = CASE res < c -> c
                          [] res >= c /\ res > d -> d
                          [] OTHER -> res
  BY <1>1 DEF Scale, Spans
<1>. QED
  BY <1>1, <1>2, <1>3

(* There and back.                                                          *)
LEMMA ThereAndBack ==
  ASSUME NEW e \in MapElements, NEW r \in MapElements, r.from = e.to, r.to = e.from,
         Ascending(e.from), Ascending(e.to),
         NEW value \in e.from[1]..e.from[2], Exact(e, value)
  PROVE  Scale(r, Scale(e, value)) = value
<1>1. e.from \in MapRange /\ e.to \in MapRange
  BY DEF MapElements
<1>2. PICK a \in Int, b \in Int, c \in Int, d \in Int :
        a = e.from[1] /\ b = e.from[2] /\ c = e.to[1] /\ d = e.to[2]
  BY <1>1 DEF MapRange
<1>3. a < b /\ c < d /\ value \in Int /\ a <= value /\ value <= b
  BY <1>2 DEF Ascending
<1>4. PICK k \in Nat : k = value - a
  BY <1>3
<1>5. PICK n \in Nat : n = b - a
  BY <1>3
<1>6. PICK w \in Nat : w = d - c
  BY <1>3
<1>7. n > 0 /\ w > 0 /\ k <= n
  BY <1>3, <1>4, <1>5, <1>6
<1>8. (k * w) % n = 0
  BY <1>2, <1>4, <1>5, <1>6 DEF Exact
<1>9. PICK q \in 0..w : q = (k * w) \div n /\ (q * n) \div w = k
  BY <1>7, <1>8, Proportion
<1>10. Scale(e, value) = c + q
  <2>1. q \in 0..(d - c) /\ q = ((value - a) * (d - c)) \div (b - a)
    BY <1>4, <1>5, <1>6, <1>9
  <2>2. Spans(e, a, b, c, d)
    BY <1>2 DEF Spans
  <2>. QED
    BY <1>3, <2>1, <2>2, NotClamped
<1>11. Scale(r, c + q) = a + k
  <2>1. PICK x \in Int : x = c + q
    OBVIOUS
  <2>2. k \in 0..(b - a) /\ k = ((x - c) * (b - a)) \div (d - c)
    <3>1. x - c = q
      BY <2>1
    <3>. QED
      BY <1>5, <1>6, <1>7, <1>9, <3>1
  <2>3. Spans(r, c, d, a, b)
    BY <1>2 DEF Spans
  <2>4. Scale(r, x) = a + k
    BY <2>2, <2>3, NotClamped
  <2>. QED
    BY <2>1, <2>4
<1>12. a + k = value
  BY <1>3, <1>4
<1>. QED
  BY <1>10, <1>11, <1>12

LEMMA MapperStarts == MapperInit => TablesInv
<1> SUFFICES ASSUME MapperInit
             PROVE  TablesInv
  OBVIOUS
<1>1. NoMapping \in MapTable /\ DOMAIN NoMapping = {}
  <2>1. NoMapping \in [{} -> MapElements] /\ {} \in SUBSET MapUrl
    BY DEF NoMapping
  <2>. QED
    BY <2>1, Zenon DEF MapTable, NoMapping
<1>2. PICK m : m = TablesNow
  OBVIOUS
<1>3. m = [map |-> NoMapping, back |-> NoMapping]
  BY <1>2 DEF MapperInit, TablesNow
<1>4. m \in MapPair /\ m.map = NoMapping
  BY <1>1, <1>3 DEF MapPair
<1>5. Paired(m)
  BY <1>1, <1>4 DEF Paired
<1>. QED
  BY <1>2, <1>4, <1>5 DEF TablesInv, PairedTables

LEMMA MapperSteps ==
  TablesInv /\ [\E entries \in Seq(MapEntry) : StoreAll(entries)]_mapperVars => TablesInv'
<1>1. ASSUME TablesInv, NEW entries \in Seq(MapEntry), StoreAll(entries)
      PROVE  TablesInv'
  <2>1. PICK now \in PairedTables : now = TablesNow
    BY <1>1 DEF TablesInv
  <2>2. PICK m : m = SetAll(now, entries)
    OBVIOUS
  <2>3. map_' = m.map /\ reverse_map_' = m.back
    BY <1>1, <2>1, <2>2 DEF StoreAll, TablesNow
  <2>4. m \in PairedTables
    BY <2>2, SetAllPairs
  <2>5. m = [map |-> m.map, back |-> m.back]
    BY <2>4 DEF PairedTables, MapPair
  <2>6. TablesNow' = m
    BY <2>3, <2>5 DEF TablesNow
  <2>. QED
    BY <2>4, <2>6 DEF TablesInv
<1>2. ASSUME TablesInv, UNCHANGED mapperVars
      PROVE  TablesInv'
  BY <1>2 DEF TablesInv, TablesNow, mapperVars
<1>. QED
  BY <1>1, <1>2

LEMMA PairsScaleBack == TablesInv => ScalesBack
<1>. SUFFICES ASSUME TablesInv,
                     NEW url \in DOMAIN map_,
                     NEW target, target = map_[url].target, target \in DOMAIN reverse_map_,
                     reverse_map_[target].target = url,
                     Ascending(map_[url].from), Ascending(map_[url].to),
                     NEW value \in map_[url].from[1]..map_[url].from[2],
                     Exact(map_[url], value)
              PROVE  Mapped(reverse_map_, target, Mapped(map_, url, value)[2]) = <<url, value>>
  BY Zenon DEF ScalesBack
<1>1. map_ \in MapTable /\ reverse_map_ \in MapTable
  BY DEF TablesInv, TablesNow, PairedTables, MapPair
<1>2. PICK e \in MapElements : e = map_[url]
  BY <1>1 DEF MapTable
<1>3. PICK r \in MapElements : r = reverse_map_[target]
  BY <1>1 DEF MapTable
<1>4. r.from = e.to /\ r.to = e.from
  <2>1. Paired(TablesNow) /\ TablesNow.map = map_ /\ TablesNow.back = reverse_map_
    BY DEF TablesInv, PairedTables, TablesNow
  <2>. QED
    BY <1>2, <1>3, <2>1, Zenon DEF Paired
<1>5. Scale(r, Scale(e, value)) = value
  BY <1>2, <1>4, ThereAndBack
<1>6. Mapped(map_, url, value)[2] = Scale(e, value)
  BY <1>2 DEF Mapped
<1>7. Mapped(reverse_map_, target, Scale(e, value)) = <<url, value>>
  BY <1>3, <1>5 DEF Mapped
<1>. QED
  BY <1>6, <1>7

(* For any scripts, parsed in any order: a control that is mapped to        *)
(* another, which is mapped back to it, gets back each value that the other *)
(* side can tell, however often either was mapped before.                   *)
THEOREM MappingsReturn == MapTablesSpec => []ScalesBack
<1>1. MapTablesSpec => []TablesInv
  BY MapperStarts, MapperSteps, PTL DEF MapTablesSpec
<1>. QED
  BY <1>1, PairsScaleBack, PTL

=============================================================================
