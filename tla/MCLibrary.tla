------------------------------ MODULE MCLibrary -----------------------------
(***************************************************************************)
(* The passive classes of the library, one beside the other: a part is       *)
(* chosen at the start and the others rest.  What has no state of its own   *)
(* (JSON, lists of strings, scripts of mappings) is checked on samples.     *)
(***************************************************************************)
EXTENDS THash, ValueHeap, Json, TypeTags, Mapper, Url, MidiMessage

CONSTANT Part

VARIABLES
  part,     \* the class that is used
  sample    \* a value, a string and its separator, or the lines of a script

(* All keys share a bucket. *)
HashIds == <<2, 4, 6>>

(* A string as the sequence of its characters. *)
Chars(s) == [i \in 1..Len(s) |-> SubSeq(s, i, i)]

-----------------------------------------------------------------------------
(* Values for variables: a list in a list, a hash in a hash, a hash with nil *)

JHolds(v) == HashOf(<<<<"j", v>>>>)
Literals_ ==
  {ListOf(<<String(<<>>), ListOf(<<String(<<>>)>>)>>),
   HashOf(<<<<"j", Real(1)>>, <<"k", JHolds(Real(1))>>>>),
   JHolds(NilValue)}

(* The variables may change their names. *)
Names == Permutations(Variable)

(* Values for JSON: every type, in lists and hashes up to a depth of three,  *)
(* and the texts that must be escaped, with the keys that are not.          *)
Leaves ==
  {EmptyValue, NilValue, TrueValue, FalseValue, AnyValue, Real(0), Real(-12), Real(305),
   String(<<>>), String(Chars("a\"b")), String(Chars("{,]:")), String(Chars("null")),
   ErrorOf(404, Chars("x")), Matrix(2, 3), Midi(<<144, 60, 80>>, 500)}
Few == {NilValue, TrueValue, Real(7), String(Chars("a,")), ErrorOf(1, <<>>)}
KeyTexts == {Chars("a"), Chars("b c")}

ListsOf(V) == {ListOf(l) : l \in UNION {[1..n -> V] : n \in 0..2}}
HashesOf(V) ==
  {HashOf(<<>>)} \cup {HashOf(<<<<k, v>>>>) : k \in KeyTexts, v \in V}
    \cup {HashOf(<<<<Chars("a"), v>>, <<Chars("b c"), w>>>>) : v \in V, w \in V}

Shallow == ListsOf(Few) \cup HashesOf(Few)
Small == {Real(7), TrueValue, ListOf(<<>>), ListOf(<<Real(1), String(<<>>)>>), HashOf(<<>>),
          HashOf(<<<<Chars("a"), ErrorOf(1, <<>>)>>>>)}
Deep == {ListOf(<<v>>) : v \in Shallow} \cup {HashOf(<<<<Chars("a"), v>>>>) : v \in Shallow}
          \cup ListsOf(Small) \cup HashesOf(Small)
Deeper == {ListOf(<<Real(1), v>>) : v \in Deep} \cup {HashOf(<<<<Chars("k"), v>>>>) : v \in Deep}
Texts == UNION {[1..n -> {"a", "\"", "\\"}] : n \in 0..5}
Escaped == {String(t) : t \in Texts} \cup {ErrorOf(7, t) : t \in Texts}
OddKeys == {Chars("a\"b"), Chars("\"a"), Chars("a\\"), Chars("=m"), Chars("=x"), Chars("a=b")}
Keyed == {HashOf(<<<<k, v>>>>) : k \in OddKeys, v \in {Real(1), ListOf(<<Real(1), Real(2)>>)}}
JsonSamples == Escaped \cup Keyed \cup Leaves \cup ListsOf(Leaves) \cup HashesOf(Leaves) \cup Shallow \cup Deep \cup Deeper

StringSamples ==
  {[text |-> t, separator |-> s] :
     t \in UNION {[1..n -> {"a", ",", ";"}] : n \in 0..5},
     s \in {<<",">>, <<",", ";">>, <<",", ",">>}}

-----------------------------------------------------------------------------
(* Scripts of mappings *)

Line(s, entries) == [text |-> Chars(s), entries |-> entries, bad |-> FALSE]
Lines ==
  {Line("/a [0,4] -> /t [0,2]", <<<<Chars("/a"), <<0, 4>>, Chars("/t"), <<0, 2>>>>>>),
   Line(" 'b c'  # text [\n\t[ -8, +4.5 ]\n# more\n--->#\n\"/u\" [1 ,3 ]",
        <<<<Chars("b c"), <<-8, 4>>, Chars("/u"), <<1, 3>>>>>>),
   Line("", <<>>), Line(" \t", <<>>), Line("# /a [0,1] -> /t [0,9]", <<>>),
   [text |-> Chars("?/a [0,1] -> /t [0,9]"), entries |-> <<>>, bad |-> TRUE]}

ScriptSamples == UNION {[1..n -> Lines] : n \in 0..4}

Scripts ==
  {Chars("/a [0,4] -> /t [0,2]\n/b [1,3] -> /t [5,9]"),
   Chars("/a [0,2] -> /u [2,10]\n# end"),
   Chars("/b [1,2] -> /u [0,8]\n/a [0,8] -> /t [0,4]"),
   Chars("/a [3,5] -> /t [4,2]\n/b [1,1] -> /t [0,1]\n/b [0,1] -> /t [0,1]"),
   Chars("/b [0,1] -> /t [0,1]\n/b: [0,1] -> /u [0,1]\n/a [1,0] -> /t [0,1]"),
   Chars("/b [2,4] -> /t [1,3]\n?\n/a [0,4] -> /u [1,9]")}

-----------------------------------------------------------------------------
(* Urls *)

UrlTexts ==
  {Chars("oscit://\"my place\"/a/b"), Chars("'it s'/a"), Chars("http://a.b:80/a/b_c.d"),
   Chars("10.0.0.4:14/a"), Chars("local:80/a"), Chars("oscit://a.b/c"), Chars("/a/b"),
   Chars("a/b c"), Chars("oscit://\"x\""), Chars("a://b:1/"), Chars("\"a\\\"b\"/a"), <<>>}
SubNames == {Chars("a"), Chars("b_c")}
Ips == {<<10, 0, 0, 4>>, <<255, 255, 255, 255>>}
FoundServices == {Location(Chars("oscit"), Chars("my place"), FALSE, <<10, 0, 0, 4>>, 80)}
Locations ==
  {NoLocation, AtIp(<<10, 0, 0, 4>>, 14), AtIp(<<255, 255, 255, 255>>, 0),
   AtHost(Chars("http"), Chars("a.b"), 8080), AtService(DEFAULT_PROTOCOL, Chars("my place"))}

-----------------------------------------------------------------------------
(* Midi *)

MidiBytes == {-1, 128}
RawMessages == {<<129, 60, 7>>, <<240, 1>>, <<248>>, <<192, 3>>}

-----------------------------------------------------------------------------

LibraryInit ==
  /\ part \in Part
  /\ TableInit /\ MapperInit /\ UrlInit /\ MidiInit
  /\ IF part = "heap" THEN HeapInit ELSE HeapRests
  /\ CASE part = "json" -> sample \in JsonSamples
       [] part = "strings" -> sample \in StringSamples
       [] part = "script" -> sample \in ScriptSamples
       [] OTHER -> sample = NilValue

LibraryVars == <<part, sample, tableVars, heapVars, mapperVars, url, midiVars>>

LibraryNext ==
  /\ UNCHANGED <<part, sample>>
  /\ \/ part = "table" /\ TableNext /\ UNCHANGED <<heapVars, mapperVars, url, midiVars>>
     \/ part = "heap" /\ HeapNext /\ UNCHANGED <<tableVars, mapperVars, url, midiVars>>
     \/ part = "mapper" /\ MapperNext /\ UNCHANGED <<tableVars, heapVars, url, midiVars>>
     \/ part = "url" /\ UrlNext /\ UNCHANGED <<tableVars, heapVars, mapperVars, midiVars>>
     \/ part = "midi" /\ MidiNext /\ UNCHANGED <<tableVars, heapVars, mapperVars, url>>

LibrarySpec == LibraryInit /\ [][LibraryNext]_LibraryVars

-----------------------------------------------------------------------------
(* Properties of the samples *)

(* What the code writes as JSON (to_json), it reads as the same value, when *)
(* the value is of the kind it can read; of texts, no other survives.       *)
JsonKept ==
  part = "json" =>
    /\ Readable(sample) => Survives(sample)
    /\ Is(sample, "STRING") /\ Survives(sample) => Escapable(sample.string)

(* value.h:181 "Create a value by parsing a JSON string", value.h:400       *)
(* to_json: the text of any value gives the value.  It does not (README).   *)
JsonSurvives == part = "json" => Survives(sample)

(* string_value_test.h:179 test_from_json_single_quote: the quotes in a     *)
(* text are written as \" in it, and nothing else of it changes             *)
(* (value.cpp:67 "append \"").  It does not hold either (README).           *)
RECURSIVE WithQuotes(_)
WithQuotes(s) ==
  CASE s = <<>> -> <<>>
    [] s # <<>> /\ s[1] = "\"" -> <<"\\", "\"">> \o WithQuotes(Tail(s))
    [] OTHER -> <<s[1]>> \o WithQuotes(Tail(s))
QuotesAreEscaped ==
  part = "json" /\ Is(sample, "STRING") /\ "\\" \notin ToSet(sample.string) =>
    ToJson(sample) = Quoted(WithQuotes(sample.string))

(* An error is found at any depth (set_all_ok relies on it), but for a hash *)
(* inside of a list in a list.                                              *)
RECURSIVE HoldsError(_), Hidden(_)
HoldsError(v) ==
  CASE Is(v, "LIST") -> \E i \in DOMAIN v.list : HoldsError(v.list[i])
    [] Is(v, "HASH") -> \E i \in DOMAIN v.hash : HoldsError(v.hash[i][2])
    [] OTHER -> Is(v, "ERROR")
Hidden(v) ==
  CASE Is(v, "LIST") ->
         \E i \in DOMAIN v.list :
           \/ Is(v.list[i], "LIST") /\ "HASH" \in TypesIn(v.list[i])
           \/ Hidden(v.list[i])
    [] Is(v, "HASH") -> \E i \in DOMAIN v.hash : Hidden(v.hash[i][2])
    [] OTHER -> FALSE
ErrorsAreFound == part = "json" /\ ~Hidden(sample) => ContainsError(sample) = HoldsError(sample)

(* Value(TypeTag) builds what the tag says. *)
TagsBuild == part = "json" => BuiltAsTagged(sample)

(* Values survive to_json, and are told and built by their type tags.       *)
ValuesKept == JsonKept /\ ErrorsAreFound /\ TagsBuild

(* Value::join gives back what Value::split took apart, unless the text     *)
(* begins with the separator: join has none before its first text.          *)
SplitsJoin ==
  part = "strings" /\ ~IsPrefix(sample.separator, sample.text) =>
    Join(Split(String(sample.text), sample.separator), sample.separator) = String(sample.text)

(* Mapper::parse stores what the lines say. *)
ScriptsAreRead == part = "script" => LinesAreRead(sample)

(* Nothing of a text is lost between its separators, or between its lines.  *)
TextsAreRead == SplitsJoin /\ ScriptsAreRead

=============================================================================
