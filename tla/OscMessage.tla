----------------------------- MODULE OscMessage -----------------------------
(***************************************************************************)
(* Values on the wire (src/osc_command.cpp): OscCommand writes a value into *)
(* an OSC message with to_stream, and builds a value from a message that    *)
(* arrives with parse_osc_array, parse_osc_hash and parse_osc_value.        *)
(*                                                                         *)
(* A list at the outermost level has no brackets, a midi message is a hash  *)
(* with the one key "=m", an error its code and its message.  The parsers   *)
(* walk over the type tags and the arguments together: a position in both   *)
(* is a position in the list of arguments that OscPacket reads.             *)
(***************************************************************************)
EXTENDS OscPacket, Values

CONSTANT Sendable       \* the values that are sent

VARIABLE sent           \* ghost: the value in the packet, or EmptyValue

messageVars == <<out, written, spent, sent>>

PackedMidi == <<61, 109>>     \* "=m"

-----------------------------------------------------------------------------
(* to_stream *)

FlagArg(tag) == <<tag, <<>>, 0>>
FloatArg(r) == <<102, FromInt32(r), r>>
StringArg(s) == <<115, Padded(s), s>>

RECURSIVE ToStream(_, _), ToStreamAll(_, _)

(* Mutant: the brackets of an empty list are left out. *)
ToStreamNoEmptyList(v, inArray) ==
  CASE Is(v, "REAL") -> <<FloatArg(v.r)>>
    [] Is(v, "ERROR") -> <<FloatArg(v.code), StringArg(v.message)>>
    [] Is(v, "STRING") -> <<StringArg(v.string)>>
    [] Is(v, "EMPTY") \/ Is(v, "NIL") -> <<FlagArg(78)>>
    [] Is(v, "LIST") /\ inArray /\ v.list # <<>> ->
         <<FlagArg(91)>> \o ToStreamAll(v.list, 1) \o <<FlagArg(93)>>
    [] Is(v, "LIST") /\ (~inArray \/ v.list = <<>>) -> ToStreamAll(v.list, 1)
    [] Is(v, "ANY") -> <<FlagArg(42)>>
    [] Is(v, "TRUE") -> <<FlagArg(84)>>
    [] Is(v, "FALSE") -> <<FlagArg(70)>>
    [] Is(v, "HASH") ->
         <<FlagArg(123)>>
           \o FlattenSeq([i \in DOMAIN v.hash |->
                <<StringArg(v.hash[i][1])>> \o ToStream(v.hash[i][2], TRUE)])
           \o <<FlagArg(125)>>
    [] Is(v, "MIDI") ->
         <<FlagArg(123), StringArg(PackedMidi), FlagArg(91)>>
           \o [i \in 1..3 |-> FloatArg(v.data[i])]
           \o <<FloatArg(v.length), FlagArg(93), FlagArg(125)>>
    [] Is(v, "MATRIX") -> <<>>

(* The arguments of a value, each with its tag, its bytes and its content;  *)
(* a matrix has none.                                                       *)
ToStream(v, inArray) ==
  CASE Is(v, "REAL") -> <<FloatArg(v.r)>>
    [] Is(v, "ERROR") -> <<FloatArg(v.code), StringArg(v.message)>>
    [] Is(v, "STRING") -> <<StringArg(v.string)>>
    [] Is(v, "EMPTY") \/ Is(v, "NIL") -> <<FlagArg(78)>>
    [] Is(v, "LIST") /\ inArray ->
         <<FlagArg(91)>> \o ToStreamAll(v.list, 1) \o <<FlagArg(93)>>
    [] Is(v, "LIST") /\ ~inArray -> ToStreamAll(v.list, 1)
    [] Is(v, "ANY") -> <<FlagArg(42)>>
    [] Is(v, "TRUE") -> <<FlagArg(84)>>
    [] Is(v, "FALSE") -> <<FlagArg(70)>>
    [] Is(v, "HASH") ->
         <<FlagArg(123)>>
           \o FlattenSeq([i \in DOMAIN v.hash |->
                <<StringArg(v.hash[i][1])>> \o ToStream(v.hash[i][2], TRUE)])
           \o <<FlagArg(125)>>
    [] Is(v, "MIDI") ->
         <<FlagArg(123), StringArg(PackedMidi), FlagArg(91)>>
           \o [i \in 1..3 |-> FloatArg(v.data[i])]
           \o <<FloatArg(v.length), FlagArg(93), FlagArg(125)>>
    [] Is(v, "MATRIX") -> <<>>

ToStreamAll(l, i) ==
  IF i > Len(l) THEN <<>> ELSE ToStream(l[i], TRUE) \o ToStreamAll(l, i + 1)

OutOfBuffer == [thrown |-> TRUE]

(* Each operator<< in turn, as far as there is room. *)
RECURSIVE PutAll(_, _)
PutAll(s, args) ==
  IF args = <<>> THEN s
  ELSE IF ~ArgumentFits(s, Len(Head(args)[2])) THEN OutOfBuffer
  ELSE PutAll(PutArgument(s, Head(args)[1], Head(args)[2]), Tail(args))

(* build_message into osc_buffer_, which holds the bytes of an earlier      *)
(* packet; OutOfBuffer where the stream throws.                             *)
BuildMessage(b, path, v) ==
  LET s == EmptyStream(b)
  IN IF ~MessageFits(s, path) THEN OutOfBuffer
     ELSE LET filled == PutAll(OpenMessage(s, path), ToStream(v, FALSE))
          IN IF filled = OutOfBuffer THEN OutOfBuffer ELSE CloseMessage(filled)

-----------------------------------------------------------------------------
(* parse_osc_value, parse_osc_array, parse_osc_hash: each gives the value,  *)
(* and the position it has reached.                                         *)

Parsed(v, next) == [value |-> v, next |-> next]
Ends(args, i, tag) == i <= Len(args) /\ args[i][2] = tag

RECURSIVE ParseValue(_, _, _), ParseArray(_, _, _, _), ParseHash(_, _, _)

(* What the tag does not say (RGBA, 64 bit, time tag, symbol, blob,         *)
(* infinitum) leaves *res as it was: old.                                   *)
ParseValue(args, i, old) ==
  LET tag == args[i][2]
      content == args[i][3]
  IN CASE tag = 84 -> Parsed(TrueValue, i + 1)
       [] tag = 70 -> Parsed(FalseValue, i + 1)
       [] tag = 78 -> Parsed(NilValue, i + 1)
       [] tag = 42 -> Parsed(AnyValue, i + 1)
       [] tag = 91 -> LET a == ParseArray(args, i + 1, ListOf(<<>>), EmptyValue)
                      IN Parsed(a.value, a.next + 1)
       [] tag = 123 -> LET h == ParseHash(args, i + 1, HashOf(<<>>))
                       IN Parsed(h.value, h.next + 1)
       [] tag \in {93, 125} -> Parsed(old, i)
       [] tag \in {105, 102, 99, 100} -> Parsed(Real(content), i + 1)
       [] tag = 115 -> Parsed(String(content), i + 1)
       [] tag = 109 ->
            Parsed(Midi([k \in 1..3 |-> (content \div 256^(3 - k)) % 256], 0), i + 1)
       [] OTHER -> Parsed(old, i + 1)

(* tmp keeps the value of the element before. *)
ParseArray(args, i, res, tmp) ==
  IF i > Len(args) THEN Parsed(res, i)
  ELSE LET p == ParseValue(args, i, tmp)
           r == PushBack(res, p.value)
       IN IF Ends(args, p.next, 93) THEN Parsed(r, p.next)
          ELSE ParseArray(args, p.next, r, p.value)

(* A key that begins with '=' stands for packed data, of which only midi is *)
(* known; the value behind another is left for the next turn.  A tag that   *)
(* is no key ends the parsing.                                              *)
ParseHash(args, i, res) ==
  IF i > Len(args) \/ Ends(args, i, 125) THEN Parsed(res, i)
  ELSE IF args[i][2] # 115 THEN Parsed(res, Len(args) + 1)
  ELSE LET key == args[i][3]
       IN IF Len(key) > 1 /\ key[1] = 61
          THEN IF key[2] = 109
               THEN LET p == ParseValue(args, i + 1, EmptyValue)
                    IN ParseHash(args, p.next, Unpack(p.value))
               ELSE ParseHash(args, i + 1, res)
          ELSE LET p == ParseValue(args, i + 1, EmptyValue)
               IN ParseHash(args, p.next, SetKey(res, key, p.value))

(* value_from_osc *)
ValueFromOsc(events) ==
  LET args == SelectSeq(events, LAMBDA e : e[1] = "argument")
  IN ParseArray(args, 1, EmptyValue, EmptyValue).value

-----------------------------------------------------------------------------
(* send_message, up to the socket: from a new stream over the buffer.       *)

SendValue(path, v) ==
  LET s == BuildMessage(out.buffer, path, v)
      args == ToStream(v, FALSE)
  IN /\ spent = 0
     /\ s # OutOfBuffer
     /\ out' = s
     /\ sent' = v
     /\ spent' = MaxWritten
     /\ written' = <<<<"message", path>>>>
          \o [i \in 1..Len(args) |-> <<"argument", args[i][1], args[i][3]>>]
          \o <<<<"end">>>>

(* A message that does not fit is given up with an exception.               *)
SendTooLong(path, v) ==
  /\ spent = 0
  /\ BuildMessage(out.buffer, path, v) = OutOfBuffer
  /\ Throw /\ UNCHANGED sent

MessageInit == Init /\ sent = EmptyValue

MessageNext ==
  \/ Next /\ UNCHANGED sent
  \/ \E path \in Address, v \in Sendable : SendValue(path, v) \/ SendTooLong(path, v)

MessageSpec == MessageInit /\ [][MessageNext]_messageVars

-----------------------------------------------------------------------------
(* Properties *)

(* The values OSC can carry: without errors, matrices and empty values, and *)
(* hashes whose keys do not begin with the sign of packed data.             *)
RECURSIVE Carried(_)
Carried(v) ==
  /\ v.type \notin {"ERROR", "MATRIX", "EMPTY"}
  /\ Is(v, "LIST") => \A i \in DOMAIN v.list : Carried(v.list[i])
  /\ Is(v, "HASH") =>
       \A i \in DOMAIN v.hash :
         /\ Carried(v.hash[i][2])
         /\ ~(Len(v.hash[i][1]) > 1 /\ v.hash[i][1][1] = 61)

(* A list without brackets is the list of its elements only when they are   *)
(* several, or one list.                                                    *)
Plain(v) ==
  /\ Carried(v)
  /\ Is(v, "LIST") => Len(v.list) > 1 \/ (Len(v.list) = 1 /\ Is(v.list[1], "LIST"))

(* A value that is sent over OSC arrives as it was: with its nesting, the    *)
(* types and the order of its elements, the keys of its hashes and its midi  *)
(* messages (osc_command.cpp:50 against :226), unless it is of the kinds     *)
(* OSC cannot carry.                                                        *)
ValueArrives == Plain(sent) => ValueFromOsc(ReadPacket(out)) = sent

=============================================================================
