------------------------------- MODULE Values -------------------------------
(***************************************************************************)
(* The contents of a Value (include/oscit/value.h) as data, without the     *)
(* cells that hold and share them (those are in ValueHeap): a tree of       *)
(* records with the type and the contents.  A string is the sequence of its *)
(* characters' codes, a hash the sequence of its pairs <<key, value>> in    *)
(* the order of its list of keys, a Real an integer.                        *)
(***************************************************************************)
EXTENDS Integers, SequencesExt

Real(r) == [type |-> "REAL", r |-> r]
String(s) == [type |-> "STRING", string |-> s]
ListOf(l) == [type |-> "LIST", list |-> l]
ErrorOf(c, m) == [type |-> "ERROR", code |-> c, message |-> m]
HashOf(h) == [type |-> "HASH", hash |-> h]
Matrix(rows, cols) == [type |-> "MATRIX", rows |-> rows, cols |-> cols]
Midi(data, length) == [type |-> "MIDI", data |-> data, length |-> length]
EmptyValue == [type |-> "EMPTY"]
NilValue == [type |-> "NIL"]
TrueValue == [type |-> "TRUE"]
FalseValue == [type |-> "FALSE"]
AnyValue == [type |-> "ANY"]

Is(v, type) == v.type = type

-----------------------------------------------------------------------------
(* Hashes *)

HasKey(h, k) == \E i \in DOMAIN h : h[i][1] = k

(* THash::set: an old key keeps its place. *)
WithPair(h, k, v) ==
  IF HasKey(h, k)
  THEN [i \in DOMAIN h |-> IF h[i][1] = k THEN <<k, v>> ELSE h[i]]
  ELSE Append(h, <<k, v>>)

(* What a copy of a value holds: the copy of an empty value is nil. *)
CopyOf(x) == IF Is(x, "EMPTY") THEN NilValue ELSE x

(* Value::set(key, val): what is no hash becomes one. *)
SetKey(v, k, x) ==
  HashOf(WithPair(IF Is(v, "HASH") THEN v.hash ELSE <<>>, k, CopyOf(x)))

(* Value::get: what a key holds, nil without it. *)
ValueAt(v, k) ==
  IF Is(v, "HASH") /\ HasKey(v.hash, k)
  THEN v.hash[CHOOSE i \in DOMAIN v.hash : v.hash[i][1] = k][2] ELSE NilValue

WithoutKey(v, k) ==
  IF Is(v, "HASH") THEN HashOf(SelectSeq(v.hash, LAMBDA p : p[1] # k)) ELSE v

-----------------------------------------------------------------------------
(* Lists *)

(* Value::push_back *)
PushBack(v, x) ==
  CASE Is(x, "EMPTY") -> v
    [] ~Is(x, "EMPTY") /\ Is(v, "LIST") -> ListOf(Append(v.list, x))
    [] ~Is(x, "EMPTY") /\ Is(v, "EMPTY") /\ Is(x, "LIST") -> ListOf(<<x>>)
    [] ~Is(x, "EMPTY") /\ Is(v, "EMPTY") /\ ~Is(x, "LIST") -> x
    [] OTHER -> ListOf(<<v, x>>)

(* Value::push_front *)
PushFront(v, x) ==
  CASE Is(x, "EMPTY") -> v
    [] ~Is(x, "EMPTY") /\ Is(v, "LIST") -> ListOf(<<x>> \o v.list)
    [] ~Is(x, "EMPTY") /\ Is(v, "EMPTY") -> x
    [] OTHER -> ListOf(<<x, v>>)

-----------------------------------------------------------------------------
(* MidiMessage::unpack: the last element is the length, the others the data *)
(* bytes; what cannot be unpacked leaves the contents undefined.            *)
Unpackable(v) ==
  Is(v, "LIST") /\ Len(v.list) >= 2 /\ \A i \in DOMAIN v.list : Is(v.list[i], "REAL")

Unpack(v) ==
  Midi([i \in 1..(Len(v.list) - 1) |-> v.list[i].r % 256], Last(v.list).r)

-----------------------------------------------------------------------------
(* Value::contains_error looks through the type tags of a list, in which     *)
(* the tags of the lists inside stand, but only into its own hashes.        *)

RECURSIVE TypesIn(_)
TypesIn(v) ==
  IF Is(v, "LIST") THEN UNION {TypesIn(v.list[i]) : i \in DOMAIN v.list} ELSE {v.type}

RECURSIVE ContainsError(_)

(* Mutant: the hashes of a list are not searched. *)
ContainsErrorTagged(v) ==
  CASE Is(v, "LIST") -> "ERROR" \in TypesIn(v)
    [] Is(v, "HASH") -> \E i \in DOMAIN v.hash : ContainsError(v.hash[i][2])
    [] OTHER -> Is(v, "ERROR")

ContainsError(v) ==
  CASE Is(v, "LIST") ->
         \/ "ERROR" \in TypesIn(v)
         \/ \E i \in DOMAIN v.list : Is(v.list[i], "HASH") /\ ContainsError(v.list[i])
    [] Is(v, "HASH") -> \E i \in DOMAIN v.hash : ContainsError(v.hash[i][2])
    [] OTHER -> Is(v, "ERROR")

-----------------------------------------------------------------------------
(* Value::split and Value::join *)

(* std::string::find: the first place of the separator, 0 without one.      *)
Find(s, separator) ==
  LET at == {i \in DOMAIN s : IsPrefix(separator, SubSeq(s, i, Len(s)))}
  IN IF at = {} THEN 0 ELSE CHOOSE i \in at : \A j \in at : i <= j

(* Mutant: the search goes on behind the first character of a separator.    *)
RECURSIVE PiecesNarrow(_, _)
PiecesNarrow(s, separator) ==
  LET at == Find(s, separator)
  IN IF at = 0 THEN <<s>>
     ELSE <<SubSeq(s, 1, at - 1)>> \o PiecesNarrow(SubSeq(s, at + 1, Len(s)), separator)

(* The separator is not empty: the search for that one never ends. *)
RECURSIVE Pieces(_, _)
Pieces(s, separator) ==
  LET at == Find(s, separator)
  IN IF at = 0 THEN <<s>>
     ELSE <<SubSeq(s, 1, at - 1)>> \o
          Pieces(SubSeq(s, at + Len(separator), Len(s)), separator)

Split(v, separator) ==
  IF ~Is(v, "STRING") THEN ListOf(<<>>)
  ELSE LET pieces == Pieces(v.string, separator)
       IN ListOf([i \in DOMAIN pieces |-> String(pieces[i])])

(* What is no string is passed over, and no separator stands before the     *)
(* first text that is not empty.                                            *)
Join(v, separator) ==
  IF ~Is(v, "LIST") THEN String(<<>>)
  ELSE String(FoldLeft(LAMBDA acc, x :
                         CASE ~Is(x, "STRING") -> acc
                           [] Is(x, "STRING") /\ acc = <<>> -> x.string
                           [] OTHER -> acc \o separator \o x.string,
                       <<>>, v.list))

=============================================================================
