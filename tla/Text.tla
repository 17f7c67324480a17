-------------------------------- MODULE Text --------------------------------
(***************************************************************************)
(* Texts as the parsers of the library read them: sequences of characters,  *)
(* a character being a string of length one and "NUL" the end of a text.    *)
(***************************************************************************)
EXTENDS Integers, SequencesExt

Digits == <<"0", "1", "2", "3", "4", "5", "6", "7", "8", "9">>
Letters ==
  {"a", "b", "c", "d", "e", "f", "g", "h", "i", "j", "k", "l", "m", "n", "o", "p", "q",
   "r", "s", "t", "u", "v", "w", "x", "y", "z", "M"}

IsDigit(c) == c \in ToSet(Digits)
IsLetter(c) == c \in Letters
IsBlank(c) == c \in {" ", "\t", "\n"}
IsSign(c) == c \in {"+", "-"}

(* A machine in a state reads a character: the next state and the actions   *)
(* on the way.                                                              *)
To(part, place, acts) == [to |-> <<part, place>>, acts |-> acts]
Failed == To("none", "error", <<>>)

(* Between the quotes of a string. *)
InQuotes(part, place, c) ==
  CASE place = "dquote" /\ c = "\"" -> To(part, "quoted", <<>>)
    [] place = "squote" /\ c = "'" -> To(part, "quoted", <<>>)
    [] place = "dquote" /\ c = "\\" -> To(part, "dquote escape", <<>>)
    [] place = "squote" /\ c = "\\" -> To(part, "squote escape", <<>>)
    [] place = "dquote escape" -> To(part, "dquote", <<"str_a">>)
    [] place = "squote escape" -> To(part, "squote", <<"str_a">>)
    [] OTHER -> To(part, place, <<"str_a">>)

QuotePlaces == {"dquote", "squote", "dquote escape", "squote escape"}

(* Numbers, as the stream writes and atof reads whole ones. *)
DigitsOf[n \in Nat] ==
  IF n < 10 THEN <<Digits[n + 1]>> ELSE Append(DigitsOf[n \div 10], Digits[(n % 10) + 1])
NumberText(r) == IF r < 0 THEN <<"-">> \o DigitsOf[-r] ELSE DigitsOf[r]

DigitValue(c) == (CHOOSE i \in DOMAIN Digits : Digits[i] = c) - 1
NumberOf(text) ==
  LET point == SelectInSeq(text, LAMBDA c : c = ".")
      whole == IF point = 0 THEN text ELSE SubSeq(text, 1, point - 1)
      n == FoldLeft(LAMBDA acc, c : 10 * acc + DigitValue(c), 0, SelectSeq(whole, IsDigit))
  IN IF whole # <<>> /\ whole[1] = "-" THEN -n ELSE n

=============================================================================
