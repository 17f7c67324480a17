------------------------------ MODULE TypeTags ------------------------------
(***************************************************************************)
(* Type tags (include/oscit/value.h, src/list.cpp): the type of a value as  *)
(* text, by which methods declare what they take, and the value with the    *)
(* default contents that is built from such a text.                         *)
(***************************************************************************)
EXTENDS Values

TagOf(type) ==
  CASE type = "NIL" -> "N" [] type = "TRUE" -> "T" [] type = "FALSE" -> "F"
    [] type = "REAL" -> "f" [] type = "ERROR" -> "E" [] type = "STRING" -> "s"
    [] type = "HASH" -> "H" [] type = "MATRIX" -> "M" [] type = "MIDI" -> "m"
    [] type = "ANY" -> "*"

(* A list's tag is kept with it: that of each element, in brackets for a     *)
(* list.                                                                    *)
RECURSIVE TypeTagOf(_)
TypeTagOf(v) ==
  CASE Is(v, "LIST") ->
         FlattenSeq([i \in DOMAIN v.list |->
           IF Is(v.list[i], "LIST") THEN <<"[">> \o TypeTagOf(v.list[i]) \o <<"]">>
           ELSE TypeTagOf(v.list[i])])
    [] Is(v, "EMPTY") -> <<>>
    [] OTHER -> <<TagOf(v.type)>>

(* type_from_char and set_default: an error is not among them, and any other *)
(* character stands for an empty value.                                     *)
Default(c) ==
  CASE c = "N" -> NilValue [] c = "T" -> TrueValue [] c = "F" -> FalseValue
    [] c = "f" -> Real(0) [] c = "s" -> String(<<>>) [] c = "H" -> HashOf(<<>>)
    [] c = "M" -> Matrix(0, 0) [] c = "m" -> Midi(<<144, 60, 80>>, 500)
    [] c = "*" -> AnyValue
    [] OTHER -> EmptyValue

RECURSIVE BuildList(_, _)

(* Value::set_type_tag: the value, and the tag behind what was taken of it.  *)
(* One character is not looked at as a list.                                *)
BuildFromTag(tag) ==
  IF Len(tag) > 1 THEN BuildList(tag, <<>>)
  ELSE [value |-> Default(tag[1]), rest |-> <<>>]

(* Mutant: the bracket that closes an inner list is read again. *)
BuildListOpen(tag, built) ==
  CASE tag = <<>> -> [value |-> ListOf(built), rest |-> <<>>]
    [] tag # <<>> /\ tag[1] = "]" -> [value |-> ListOf(built), rest |-> tag]
    [] tag # <<>> /\ tag[1] = "[" ->
         LET inner == BuildFromTag(Tail(tag))
         IN BuildList(inner.rest, Append(built, inner.value))
    [] OTHER -> BuildList(Tail(tag), Append(built, Default(tag[1])))

(* List::init_with_type_tag *)
BuildList(tag, built) ==
  CASE tag = <<>> -> [value |-> ListOf(built), rest |-> <<>>]
    [] tag # <<>> /\ tag[1] = "]" -> [value |-> ListOf(built), rest |-> Tail(tag)]
    [] tag # <<>> /\ tag[1] = "[" ->
         LET inner == BuildFromTag(Tail(tag))
         IN BuildList(inner.rest, Append(built, inner.value))
    [] OTHER -> BuildList(Tail(tag), Append(built, Default(tag[1])))

-----------------------------------------------------------------------------
(* Properties *)

(* Value(TypeTag(tag)) has the tag it was built from, for the tags of        *)
(* values.  A tag that ends with that of an empty list is the exception (its *)
(* last bracket is taken for a value), and one with an error, which no       *)
(* character stands for.                                                    *)
BuiltAsTagged(v) ==
  LET tag == TypeTagOf(v) IN
  (tag # <<>> /\ "E" \notin ToSet(tag) /\ ~IsSuffix(<<"[", "]">>, tag))
  => TypeTagOf(BuildFromTag(tag).value) = tag

=============================================================================
