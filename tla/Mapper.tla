------------------------------- MODULE Mapper -------------------------------
(***************************************************************************)
(* Scripts of mappings between controls (src/mapper.cpp): a script of lines *)
(* such as                                                                  *)
(*     /slider [0,1] --> /tempo [60,240]                                   *)
(* is read by the machine that ragel builds from src/mapper.rl, and each    *)
(* entry is stored in the tables of MapTables.  The error texts are left    *)
(* out, and the definitions have no NUL in them.                            *)
(***************************************************************************)
EXTENDS Text, MapTables

CONSTANT Script     \* the definitions the program parses

-----------------------------------------------------------------------------
(* The machine: a part of an entry (the line's start, the source, the       *)
(* arrow, the target) and a place in it.                                    *)

UrlOf(part) == [source |-> "source_url", target |-> "target_url"][part]
Ends(part) ==
  [source |-> <<"source_min", "source_max">>, target |-> <<"target_min", "target_max">>][part]

BeginUrl(part, c) ==
  CASE c = "\"" -> To(part, "dquote", <<>>)
    [] c = "'" -> To(part, "squote", <<>>)
    [] IsLetter(c) \/ c = "/" -> To(part, "word", <<"str_a">>)
    [] OTHER -> Failed

(* Before the first line and between lines; an error is only seen between.  *)
AtLine(place, c) ==
  CASE IsBlank(c) -> To("line", "next", <<>>)
    [] c = "#" -> To("line", "next", <<"comment">>)
    [] BeginUrl("source", c) # Failed -> BeginUrl("source", c)
    [] OTHER -> IF place = "next" THEN To("none", "error", <<"error">>) ELSE Failed

(* The number before the separator, and the blanks around it. *)
InBound(part, n, place, c) ==
  LET separator == IF n = 1 THEN "," ELSE "]"
      closed ==
        CASE n = 1 -> <<part, "open 2">>
          [] n = 2 /\ part = "source" -> <<"arrow", "before">>
          [] n = 2 /\ part = "target" -> <<"target", "closed">>
      at(name) == <<part, name \o (IF n = 1 THEN " 1" ELSE " 2")>>
      step(to, acts) == [to |-> to, acts |-> acts]
  IN CASE place = "open" /\ IsBlank(c) -> step(at("open"), <<>>)
       [] place = "open" /\ IsSign(c) -> step(at("sign"), <<"str_a">>)
       [] place \in {"open", "sign", "digits"} /\ IsDigit(c) -> step(at("digits"), <<"str_a">>)
       [] place \in {"point", "fraction"} /\ IsDigit(c) -> step(at("fraction"), <<"str_a">>)
       [] place = "digits" /\ c = "." -> step(at("point"), <<"str_a">>)
       [] place \in {"digits", "fraction"} /\ IsBlank(c) -> step(at("after"), <<Ends(part)[n]>>)
       [] place \in {"digits", "fraction"} /\ c = separator -> step(closed, <<Ends(part)[n]>>)
       [] place = "after" /\ IsBlank(c) -> step(at("after"), <<>>)
       [] place = "after" /\ c = separator -> step(closed, <<>>)
       [] OTHER -> Failed

BoundPlaces == {"open", "sign", "digits", "point", "fraction", "after"}
BoundAt(place, n) == CHOOSE b \in BoundPlaces : place = b \o (IF n = 1 THEN " 1" ELSE " 2")

InSide(part, place, c) ==
  CASE place \in QuotePlaces -> InQuotes(part, place, c)
    [] place = "word" /\ c # ":" /\ ~IsBlank(c) -> To(part, "word", <<"str_a">>)
    [] place \in {"word", "quoted"} /\ IsBlank(c) -> To(part, "range", <<UrlOf(part)>>)
    [] place \in {"range", "range only"} /\ IsBlank(c) -> To(part, place, <<>>)
    [] place = "range" /\ c = "#" -> To(part, "range only", <<"comment">>)
    [] place \in {"range", "range only"} /\ c = "[" -> To(part, "open 1", <<>>)
    [] place \in {b \o " 1" : b \in BoundPlaces} -> InBound(part, 1, BoundAt(place, 1), c)
    [] place \in {b \o " 2" : b \in BoundPlaces} -> InBound(part, 2, BoundAt(place, 2), c)
    [] place = "closed" /\ c = "\n" -> To("line", "next", <<"set_map">>)
    [] OTHER -> Failed

(* One comment may stand before the arrow and one behind. *)
InArrow(place, c) ==
  CASE c = "-" -> To("arrow", "drawn", <<>>)
    [] place = "drawn" /\ c = ">" -> To("arrow", "behind", <<>>)
    [] place # "drawn" /\ IsBlank(c) -> To("arrow", place, <<>>)
    [] place = "before" /\ c = "#" -> To("arrow", "before only", <<"comment">>)
    [] OTHER -> Failed

BehindArrow(place, c) ==
  CASE IsBlank(c) -> To("arrow", place, <<>>)
    [] place = "behind" /\ c = "#" -> To("arrow", "behind only", <<"comment">>)
    [] OTHER -> BeginUrl("target", c)

MapTransition(state, c) ==
  CASE state[1] = "line" -> AtLine(state[2], c)
    [] state[1] = "arrow" /\ state[2] \in {"behind", "behind only"} -> BehindArrow(state[2], c)
    [] state[1] = "arrow" /\ state[2] \notin {"behind", "behind only"} -> InArrow(state[2], c)
    [] OTHER -> InSide(state[1], state[2], c)

-----------------------------------------------------------------------------
(* The actions *)

Blank == [source_url |-> <<>>, source_min |-> 0, source_max |-> 0,
          target_url |-> <<>>, target_min |-> 0, target_max |-> 0]

EntryOf(e) ==
  <<e.source_url, <<e.source_min, e.source_max>>, e.target_url, <<e.target_min, e.target_max>>>>

(* The position of the end of the line, which the texts end with. *)
EndOfLine(text, p) == CHOOSE i \in p..Len(text) :
  text[i] = "\n" /\ \A j \in p..(i - 1) : text[j] # "\n"

(* Mutant: the machine does not come back from a comment to where it was.   *)
CommentForgets(text, m) ==
  [m EXCEPT !.state = <<"line", "start">>, !.p = EndOfLine(text, m.p + 1)]

(* comment eats the line and the machine is where it was. *)
Comment(text, m) == [m EXCEPT !.p = EndOfLine(text, m.p + 1)]

(* error forgets the entry and eats the line, this character first; what    *)
(* follows is read as if no line had come before.                           *)
LineError(text, m) ==
  [m EXCEPT !.entry = Blank, !.state = <<"line", "start">>, !.p = EndOfLine(text, m.p)]

MapAct(text, m, a) ==
  CASE m.done # "no" -> m
    [] m.done = "no" /\ a = "str_a" -> [m EXCEPT !.buffer = Append(@, text[m.p])]
    [] m.done = "no" /\ a \in {"source_url", "target_url"} ->
         [m EXCEPT !.entry = [@ EXCEPT ![a] = m.buffer], !.buffer = <<>>]
    [] m.done = "no" /\ a \in ToSet(Ends("source")) \cup ToSet(Ends("target")) ->
         [m EXCEPT !.entry = [@ EXCEPT ![a] = NumberOf(m.buffer)], !.buffer = <<>>]
    [] m.done = "no" /\ a = "set_map" /\ Refused(EntryOf(m.entry)) ->
         [m EXCEPT !.done = "refused"]
    [] m.done = "no" /\ a = "set_map" /\ ~Refused(EntryOf(m.entry)) ->
         [m EXCEPT !.entries = Append(@, EntryOf(m.entry)), !.entry = Blank]
    [] m.done = "no" /\ a = "comment" -> Comment(text, m)
    [] m.done = "no" /\ a = "error" -> LineError(text, m)

RECURSIVE ReadOn(_, _)
ReadOn(text, m) ==
  IF m.done # "no" \/ m.p > Len(text) THEN m
  ELSE LET t == MapTransition(m.state, text[m.p])
           acted == FoldLeft(LAMBDA n, a : MapAct(text, n, a), [m EXCEPT !.state = t.to], t.acts)
       IN IF acted.state = Failed.to THEN [acted EXCEPT !.done = "stopped"]
          ELSE ReadOn(text, [acted EXCEPT !.p = @ + 1])

(* The entries that a script stores before it ends or the machine stops. *)
EntriesRead(text) ==
  ReadOn(Append(text, "\n"),
         [state |-> <<"line", "start">>, p |-> 1, buffer |-> <<>>, entry |-> Blank,
          entries |-> <<>>, done |-> "no"]).entries

Entries == [text \in Script |-> EntriesRead(text)]

(* What the machine stores is what set_map is given.                        *)
ASSUME ScriptsTellEntries == \A text \in Script : Entries[text] \in Seq(MapEntry)

ParseMap(text) == StoreAll(Entries[text])

MapperNext == \E text \in Script : ParseMap(text)

-----------------------------------------------------------------------------
(* Properties *)

(* The lines of a script are texts with the entry they tell, if any.  An    *)
(* entry is stored whatever stands around it; a line that begins with what  *)
(* no url begins with is passed over (action error), but only between       *)
(* others: before the first line and after such a line parsing stops.       *)
ScriptOf(lines) == FoldLeft(LAMBDA acc, l : acc \o l.text \o <<"\n">>, <<>>, lines)
LinesAreRead(lines) ==
  (\A i \in DOMAIN lines : lines[i].bad => i > 1 /\ ~lines[i - 1].bad)
  => EntriesRead(ScriptOf(lines)) =
       FlattenSeq([i \in DOMAIN lines |-> lines[i].entries])

=============================================================================
