------------------------------- MODULE MCWire -------------------------------
(* OscMessage on a buffer of a few words.                                   *)
EXTENDS OscMessage

AddressV == {<<47, 97>>}                          \* "/a"
TextV == {<<97, 98, 99, 100>>}                    \* "abcd": its end takes another word
BlobV == {<<1>>}
NumberV == {-2}
TagV == {84, 105, 104, 115, 98}                  \* T i h s b

Leaves == {Real(1), Real(-2), String(<<>>), String(<<97>>), NilValue, EmptyValue, TrueValue, FalseValue,
           AnyValue, ErrorOf(404, <<97>>), Matrix(1, 1), Midi(<<144, 60, 80>>, 500)}
Few == {Real(1), String(<<97>>), NilValue, TrueValue}

SeqsUpTo(S, n) == UNION {[1..k -> S] : k \in 0..n}
Keys == {<<107>>, <<61, 109>>}                   \* "k", "=m"
Hashes(S) ==
  {HashOf(<<>>)} \cup {HashOf(<<<<k, v>>>>) : k \in Keys, v \in S}
  \cup {HashOf(<<<<<<107>>, v>>, <<<<108>>, w>>>>) : v \in S, w \in S}

Flat == {ListOf(l) : l \in SeqsUpTo(Leaves, 2) \cup SeqsUpTo(Few, 3)} \cup Hashes(Few)
Small == {ListOf(l) : l \in SeqsUpTo({Real(1), NilValue}, 2)} \cup {HashOf(<<<<<<107>>, TrueValue>>>>)}
Deep == {ListOf(l) : l \in SeqsUpTo(Small, 1) \cup {<<v, w>> : v \in Small, w \in Small \cup Few}}
        \cup Hashes(Small)
SendableV == Leaves \cup Flat \cup Deep

=============================================================================
