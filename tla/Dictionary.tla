----------------------------- MODULE Dictionary -----------------------------
(***************************************************************************)
(* What the users of a THash rely on (include/oscit/thash.h): dictionaries  *)
(* that answer each key with the last value set for it and list their keys  *)
(* in the order in which they came.                                         *)
(***************************************************************************)
EXTENDS Lists, Functions

CONSTANTS Table, Key, Val

VARIABLES
  value,   \* of each dictionary: the function from its keys to their values
  order    \* of each dictionary: its keys, oldest first

vars == <<value, order>>

Init ==
  /\ value = [h \in Table |-> <<>>]
  /\ order = [h \in Table |-> <<>>]

Put(h, k, v) ==
  /\ value' = [value EXCEPT ![h] =
       [x \in DOMAIN @ \cup {k} |-> IF x = k THEN v ELSE @[x]]]
  /\ order' = [order EXCEPT ![h] =
       IF k \in DOMAIN value[h] THEN @ ELSE Append(@, k)]

Delete(h, gone) ==
  /\ value' = [value EXCEPT ![h] = Restrict(@, DOMAIN @ \ gone)]
  /\ order' = [order EXCEPT ![h] = Without(@, gone)]

DeleteKey(h, k) == Delete(h, {k})
DeleteValue(h, v) == Delete(h, {k \in DOMAIN value[h] : value[h][k] = v})
DeleteAll(h) == Delete(h, DOMAIN value[h])

Copy(h, g) ==
  /\ value' = [value EXCEPT ![h] = value[g]]
  /\ order' = [order EXCEPT ![h] = order[g]]

Next ==
  \E h \in Table :
    \/ \E k \in Key, v \in Val : Put(h, k, v)
    \/ \E k \in Key : DeleteKey(h, k)
    \/ \E v \in Val : DeleteValue(h, v)
    \/ DeleteAll(h)
    \/ \E g \in Table : Copy(h, g)

Spec == Init /\ [][Next]_vars

=============================================================================
