-------------------------------- MODULE Json --------------------------------
(***************************************************************************)
(* Values written as JSON and read again (src/value.cpp).  The reader is    *)
(* the machine that ragel builds from src/value.rl: one step per character, *)
(* with actions that build the value and, for the elements of lists and     *)
(* hashes, start the machine again inside of the text.                      *)
(*                                                                         *)
(* Numbers are whole and below 1e6 (the stream writes others with an        *)
(* exponent or rounded to six digits); the digits of a fraction are read    *)
(* and dropped.                                                             *)
(***************************************************************************)
EXTENDS Values, Text

BeginsWord(c) == c \in Letters \cup {"@", "_"}
Closes(c) == c \in {"NUL", "}", "]"}

-----------------------------------------------------------------------------
(* Writing *)

(* What escape has counted is copied, from last_append on. *)
Run(s, e) == SubSeq(s, e.last_append, e.last_append + e.len - 1)

(* Mutant: the quote is copied once more with what follows it. *)
FlushedBefore(s, e) ==
  IF e.len = 0 THEN e
  ELSE [e EXCEPT !.res = @ \o Run(s, e), !.last_append = e.ptr, !.len = 0]

(* At a quote, last_append moves behind it, but only if something was       *)
(* copied: a quote that begins the text, or follows another, leaves it      *)
(* where it is, and the next run is copied from there.                      *)
Flushed(s, e) ==
  IF e.len = 0 THEN e
  ELSE [e EXCEPT !.res = @ \o Run(s, e), !.last_append = e.ptr + 1, !.len = 0]

(* A backslash and what stands behind it are copied as they are. *)
RECURSIVE EscapeFrom(_, _)
EscapeFrom(s, e) ==
  LET left == Len(s) - e.ptr + 1
      taken == IF s[e.ptr] = "\\" /\ left > 1 THEN 2 ELSE 1
  IN CASE left = 0 -> e.res \o Run(s, e)
       [] left > 0 /\ s[e.ptr] = "\"" ->
            EscapeFrom(s, [Flushed(s, e) EXCEPT !.res = @ \o <<"\\", "\"">>, !.ptr = @ + 1])
       [] OTHER -> EscapeFrom(s, [e EXCEPT !.len = @ + taken, !.ptr = @ + taken])

Escape(s) == EscapeFrom(s, [res |-> <<>>, last_append |-> 1, len |-> 0, ptr |-> 1])

Quoted(s) == <<"\"">> \o s \o <<"\"">>

(* The texts with ", " between them. *)
Listed(texts) ==
  FoldLeft(LAMBDA acc, i : acc \o (IF i > 1 THEN <<",", " ">> ELSE <<>>) \o texts[i],
           <<>>, [i \in DOMAIN texts |-> i])

Braces(s) == <<"{">> \o s \o <<"}">>
Brackets(s) == <<"[">> \o s \o <<"]">>

MidiJson(m) ==
  Braces(Quoted(<<"=", "m">>) \o <<":">> \o
         Brackets(Listed([i \in DOMAIN m.data |-> NumberText(m.data[i])]
                         \o <<NumberText(m.length)>>)))

NullText == <<"n", "u", "l", "l">>
MatrixText(v) ==
  <<"M", "a", "t", "r", "i", "x", " ">> \o NumberText(v.rows) \o <<"x">> \o NumberText(v.cols)

(* Value::to_stream, not lazy *)
RECURSIVE ToJson(_)
ToJson(v) ==
  CASE Is(v, "REAL") -> NumberText(v.r)
    [] Is(v, "ERROR") -> Quoted(NumberText(v.code) \o <<" ">> \o Escape(v.message))
    [] Is(v, "STRING") -> Quoted(Escape(v.string))
    [] Is(v, "HASH") ->
         Braces(Listed([i \in DOMAIN v.hash |->
                          Quoted(v.hash[i][1]) \o <<":">> \o ToJson(v.hash[i][2])]))
    [] Is(v, "MATRIX") -> Quoted(MatrixText(v))
    [] Is(v, "MIDI") -> MidiJson(v)
    [] Is(v, "LIST") -> Brackets(Listed([i \in DOMAIN v.list |-> ToJson(v.list[i])]))
    [] Is(v, "TRUE") -> <<"t", "r", "u", "e">>
    [] Is(v, "FALSE") -> <<"f", "a", "l", "s", "e">>
    [] OTHER -> NullText

-----------------------------------------------------------------------------
(* The machine.  Its states are pairs: a part of the grammar (the value, the *)
(* pairs of a lazy hash, the pairs of a hash in braces) and a place in it.  *)

(* The first character of a key. *)
BeginKey(part, c) ==
  CASE c = "\"" -> To(part, "dquote", <<>>)
    [] c = "'" -> To(part, "squote", <<>>)
    [] IsSign(c) -> To(part, "sign", <<"str_a">>)
    [] IsDigit(c) -> To(part, "digits", <<"str_a">>)
    [] BeginsWord(c) -> To(part, "word", <<"str_a">>)
    [] OTHER -> Failed

EndOfKey(part) == To(part, "pair", <<"hash_value">>)

InWord(part, c) ==
  CASE c = ":" -> EndOfKey(part)
    [] IsBlank(c) -> Failed
    [] OTHER -> To(part, "word", <<"str_a">>)

(* The keys of the pairs, and what stands between the pairs. *)
InPairs(part, place, c) ==
  CASE place \in QuotePlaces -> InQuotes(part, place, c)
    [] place = "word" -> InWord(part, c)
    [] place = "digits" /\ IsDigit(c) -> To(part, "digits", <<"str_a">>)
    [] place = "sign" /\ IsDigit(c) -> To(part, "digits", <<"str_a">>)
    [] place \in {"quoted", "digits"} /\ c = ":" -> EndOfKey(part)
    [] part = "lazy" /\ place = "pair" /\ Closes(c) -> To("value", "end", <<"set">>)
    [] part = "lazy" /\ place = "pair" /\ (IsBlank(c) \/ c = ",") ->
         To("lazy", "next", <<"set">>)
    [] part = "hash" /\ place = "pair" /\ (IsBlank(c) \/ c = ",") -> To("hash", "next", <<>>)
    [] place = "next" /\ IsBlank(c) -> To(part, "next", <<>>)
    [] part = "hash" /\ place = "first" /\ IsBlank(c) -> To("hash", "first", <<>>)
    [] part = "hash" /\ place = "first" /\ c = "}" -> To("value", "empty", <<>>)
    [] part = "hash" /\ place = "pair" /\ c = "}" -> To("value", "closed", <<>>)
    [] place \in {"pair", "next", "first"} -> BeginKey(part, c)
    [] OTHER -> Failed

(* What ends a value, with the actions that become is made of: a comma ends *)
(* a strict value, and begins a lazy list.                                  *)
EndOfValue(strict, become, c) ==
  CASE IsBlank(c) \/ Closes(c) \/ (strict /\ c = ",") -> To("value", "end", become \o <<"set">>)
    [] ~strict /\ c = "," ->
         To("value", "items", become \o <<"lazy_list", "list_value", "set">>)
    [] OTHER -> Failed

(* null, true and false, as far as they are read.  In lazy mode, they may   *)
(* still be keys.                                                           *)
Literals == [null |-> NullText, true |-> <<"t", "r", "u", "e">>,
             false |-> <<"f", "a", "l", "s", "e">>]

InLiteral(strict, name, read, c) ==
  LET text == Literals[name]
      whole == read = Len(text)
      keep == IF strict THEN <<>> ELSE <<"str_a">>
  IN CASE ~whole /\ c = text[read + 1] -> [to |-> <<name, read + 1>>, acts |-> keep]
       [] whole /\ strict -> EndOfValue(TRUE, <<name>>, c)
       [] whole /\ ~strict /\ IsBlank(c) -> To("value", "end", <<name, "set">>)
       [] whole /\ ~strict /\ Closes(c) -> To("lazy", "word or end", <<"str_a", name, "set">>)
       [] whole /\ ~strict /\ c = "," ->
            To("lazy", "word or items", <<name, "lazy_list", "list_value", "str_a", "set">>)
       [] strict -> Failed
       [] OTHER -> InWord("lazy", c)

(* The items of a lazy list: list returns with the second. *)
InItems(c) ==
  CASE c = "," -> To("value", "items", <<"list_value", "list", "set">>)
    [] IsBlank(c) \/ Closes(c) -> To("value", "end", <<"list", "set">>)
    [] OTHER -> Failed

BeginValue(strict, place, c) ==
  CASE IsBlank(c) -> To("value", "blank", <<>>)
    [] c = "\"" -> To("value", "dquote", <<>>)
    [] c = "'" -> To("value", "squote", <<>>)
    [] IsSign(c) -> To("value", "sign", <<"str_a">>)
    [] IsDigit(c) -> To("value", "digits", <<"str_a">>)
    [] c = "[" -> To("value", "list", <<"list_value">>)
    [] c = "{" -> To("hash", "first", <<>>)
    [] place = "start" /\ c \in {"n", "t", "f"} ->
         [to |-> <<CHOOSE l \in DOMAIN Literals : Literals[l][1] = c, 1>>,
          acts |-> IF strict THEN <<>> ELSE <<"str_a">>]
    [] ~strict /\ BeginsWord(c) /\ ~(place = "start" /\ c \in {"n", "t", "f"}) ->
         To("lazy", "word", <<"str_a">>)
    [] OTHER -> Failed

InNumber(strict, place, c) ==
  CASE IsDigit(c) ->
         To("value", IF place \in {"point", "fraction"} THEN "fraction" ELSE "digits",
            <<"str_a">>)
    [] place = "digits" /\ c = "." -> To("value", "point", <<"str_a">>)
    [] place = "digits" /\ ~strict /\ c = ":" -> EndOfKey("lazy")
    [] place \in {"digits", "fraction"} /\ c \notin {".", ":"} ->
         EndOfValue(strict, <<"number">>, c)
    [] OTHER -> Failed

InValue(strict, place, c) ==
  CASE place \in {"start", "blank"} -> BeginValue(strict, place, c)
    [] place \in QuotePlaces -> InQuotes("value", place, c)
    [] place = "quoted" /\ ~strict /\ c = ":" -> EndOfKey("lazy")
    [] place = "quoted" /\ ~(~strict /\ c = ":") -> EndOfValue(strict, <<"string">>, c)
    [] place \in {"sign", "digits", "point", "fraction"} -> InNumber(strict, place, c)
    [] place = "list" /\ c = "," -> To("value", "list", <<"list_value">>)
    [] place = "list" /\ c = "]" -> To("value", "closed", <<"list">>)
    [] place = "closed" -> EndOfValue(strict, <<>>, c)
    [] place = "empty" -> EndOfValue(strict, <<"empty_hash">>, c)
    [] place = "items" -> InItems(c)
    [] OTHER -> Failed

InWordOrItems(c) ==
  CASE c = "," -> To("lazy", "word or items", <<"list_value", "list", "str_a", "set">>)
    [] IsBlank(c) -> To("value", "end", <<"list", "set">>)
    [] Closes(c) -> To("lazy", "word or end", <<"list", "str_a", "set">>)
    [] OTHER -> InWord("lazy", c)

(* The transitions of the machine. *)
Transition(strict, state, c) ==
  CASE state = <<"lazy", "word or end">> -> InWord("lazy", c)
    [] state = <<"lazy", "word or items">> -> InWordOrItems(c)
    [] state[1] \in DOMAIN Literals -> InLiteral(strict, state[1], state[2], c)
    [] state[1] = "value" -> InValue(strict, state[2], c)
    [] OTHER -> InPairs(state[1], state[2], c)

-----------------------------------------------------------------------------
(* The actions.  The machine reads text from base on: p is where it is,     *)
(* self the value it builds.                                                *)

(* Value::unpack *)
Unpacked(key, v) == IF key = <<"=", "m">> /\ Unpackable(v) THEN Unpack(v) ELSE v

(* A reader that never ends, or that reads before its text. *)
Lost(m) == [m EXCEPT !.done = "lost"]

RECURSIVE Exec(_, _, _, _)

(* build_from_json: the value and the number of characters it takes. *)
Build(text, base, strict, fuel) ==
  LET m == Exec(text, base, strict,
                [state |-> <<"value", "start">>, p |-> base, buffer |-> <<>>, tmp |-> EmptyValue,
                 self |-> EmptyValue, done |-> "no", eaten |-> 0, fuel |-> fuel])
  IN [self |-> m.self, lost |-> m.done = "lost",
      eaten |-> CASE m.done = "returned" -> m.eaten
                  [] m.p = Len(text) + 1 -> m.p - base
                  [] OTHER -> m.p - 1 - base]

HashValue(text, m) ==
  LET element == Build(text, m.p + 1, TRUE, m.fuel - 1)
      special == m.buffer # <<>> /\ m.buffer[1] = "="
      read == [m EXCEPT !.p = m.p + element.eaten, !.buffer = <<>>,
                        !.tmp = IF special THEN Unpacked(m.buffer, element.self)
                                ELSE element.self,
                        !.self = IF special THEN @ ELSE SetKey(@, m.buffer, element.self)]
  IN IF element.lost THEN Lost(m) ELSE read

ListValue(text, m) ==
  LET element == Build(text, m.p + 1, TRUE, m.fuel - 1)
      p == m.p + 1 + element.eaten
      read == [m EXCEPT !.tmp = element.self, !.self = PushBack(@, element.self),
                        !.p = IF text[p - 1] = "," THEN p - 2 ELSE p - 1]
  IN IF element.lost \/ p < 2 THEN Lost(m) ELSE read

LazyList(m) ==
  LET first == IF Is(m.self, "HASH") THEN m.self ELSE m.tmp
  IN [m EXCEPT !.tmp = first, !.self = PushBack(ListOf(<<>>), first)]

(* Mutant: the closing bracket is not counted. *)
ReturnListShort(m, base) ==
  [m EXCEPT !.self = IF Is(@, "LIST") THEN @ ELSE ListOf(<<>>),
            !.done = "returned", !.eaten = m.p - base]

(* list: what is no list yet, a single element as well, becomes an empty    *)
(* one; the other actions of the transition are left out.                   *)
ReturnList(m, base) ==
  [m EXCEPT !.self = IF Is(@, "LIST") THEN @ ELSE ListOf(<<>>),
            !.done = "returned", !.eaten = m.p - base + 1]

Act(text, base, m, a) ==
  CASE m.done # "no" -> m
    [] m.done = "no" /\ a = "str_a" ->
         [m EXCEPT !.buffer = IF text[m.p] = "NUL" THEN @ ELSE Append(@, text[m.p])]
    [] m.done = "no" /\ a = "number" -> [m EXCEPT !.tmp = Real(NumberOf(m.buffer)), !.buffer = <<>>]
    [] m.done = "no" /\ a = "string" -> [m EXCEPT !.tmp = String(m.buffer), !.buffer = <<>>]
    [] m.done = "no" /\ a = "null" -> [m EXCEPT !.tmp = NilValue]
    [] m.done = "no" /\ a = "true" -> [m EXCEPT !.tmp = TrueValue]
    [] m.done = "no" /\ a = "false" -> [m EXCEPT !.tmp = FalseValue]
    [] m.done = "no" /\ a = "hash_value" -> HashValue(text, m)
    [] m.done = "no" /\ a = "list_value" -> ListValue(text, m)
    [] m.done = "no" /\ a = "lazy_list" -> LazyList(m)
    [] m.done = "no" /\ a = "empty_hash" ->
         [m EXCEPT !.self = IF Is(@, "EMPTY") THEN HashOf(<<>>) ELSE @]
    [] m.done = "no" /\ a = "list" -> ReturnList(m, base)
    [] m.done = "no" /\ a = "set" ->
         [m EXCEPT !.self = IF Is(@, "LIST") \/ Is(@, "HASH") THEN @ ELSE CopyOf(m.tmp)]

(* One character after the other, until the end of the text, an error, or   *)
(* the return of list.                                                      *)
Exec(text, base, strict, m) ==
  IF m.done # "no" \/ m.p = Len(text) + 1 THEN m
  ELSE IF m.fuel = 0 THEN Lost(m)
  ELSE LET t == Transition(strict, m.state, text[m.p])
           acted == FoldLeft(LAMBDA n, a : Act(text, base, n, a),
                             [m EXCEPT !.state = t.to, !.fuel = @ - 1], t.acts)
       IN IF acted.done # "no" \/ t.to = Failed.to THEN acted
          ELSE Exec(text, base, strict, [acted EXCEPT !.p = @ + 1])

(* Value(Json(text)) *)
FromJson(text) ==
  LET t == Append(text, "NUL")
  IN Build(t, 1, FALSE, 2 * Len(t) + 2)

-----------------------------------------------------------------------------
(* Properties *)

(* What JSON can say of a value: nil stands for what has no form of its      *)
(* own, a text for errors and matrices.                                     *)
RECURSIVE Said(_)
Said(v) ==
  CASE Is(v, "ERROR") -> String(NumberText(v.code) \o <<" ">> \o v.message)
    [] Is(v, "MATRIX") -> String(MatrixText(v))
    [] Is(v, "LIST") -> ListOf([i \in DOMAIN v.list |-> Said(v.list[i])])
    [] Is(v, "HASH") -> HashOf([i \in DOMAIN v.hash |-> <<v.hash[i][1], Said(v.hash[i][2])>>])
    [] v.type \in {"EMPTY", "ANY"} -> NilValue
    [] OTHER -> v

Survives(v) ==
  LET read == FromJson(ToJson(v))
  IN ~read.lost /\ read.self = Said(v)

(* What escape writes so that it can be read: no backslash, and no quote    *)
(* that has nothing before it, or another quote, and text behind it.        *)
Bare(s, i) == s[i] = "\"" /\ (i = 1 \/ s[i - 1] = "\"")
Escapable(s) ==
  /\ "\\" \notin ToSet(s)
  /\ \A i, j \in DOMAIN s : Bare(s, i) /\ i < j => s[j] = "\""

(* Keys are not escaped, and those that begin with = are not stored. *)
Key(s) == ToSet(s) \cap {"\"", "\\"} = {} /\ ~IsPrefix(<<"=">>, s)

(* What is read as it was written: such texts and keys, and lists of at      *)
(* least two elements, or of one list, where null, true and false stand at  *)
(* the front only (the writer puts a space before the others, and after a   *)
(* space the reader knows no literal).                                      *)
RECURSIVE Readable(_)
Readable(v) ==
  CASE Is(v, "STRING") -> Escapable(v.string)
    [] Is(v, "ERROR") -> Escapable(v.message)
    [] Is(v, "LIST") ->
         /\ v.list # <<>>
         /\ Len(v.list) = 1 => Is(v.list[1], "LIST")
         /\ \A i \in 2..Len(v.list) :
              Said(v.list[i]).type \notin {"NIL", "TRUE", "FALSE"}
         /\ \A i \in DOMAIN v.list : Readable(v.list[i])
    [] Is(v, "HASH") -> \A i \in DOMAIN v.hash : Key(v.hash[i][1]) /\ Readable(v.hash[i][2])
    [] OTHER -> TRUE

=============================================================================
