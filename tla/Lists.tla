-------------------------------- MODULE Lists --------------------------------
(***************************************************************************)
(* The lists of keys of hash tables (include/oscit/thash.h).                *)
(***************************************************************************)
EXTENDS Integers, Sequences

(* The loop that erases the elements of a set: the others keep their order. *)
Without(list, gone) ==
  LET kept[n \in 0..Len(list)] ==
        IF n = 0 THEN <<>>
        ELSE IF list[n] \in gone THEN kept[n - 1] ELSE Append(kept[n - 1], list[n])
  IN kept[Len(list)]

=============================================================================
