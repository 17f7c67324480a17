------------------------------- MODULE THash -------------------------------
(***************************************************************************)
(* The hash table of the library (include/oscit/thash.h), below children_,  *)
(* objects_, observers_, Value hashes and mappings: buckets whose first     *)
(* element lies in the table itself and whose others are chained to it, and *)
(* a list of the keys.  The first element of an unused bucket has no object *)
(* and nothing behind it.                                                   *)
(***************************************************************************)
EXTENDS Lists, SequencesExt, Functions

CONSTANTS
  Table, TableKey, TableVal,
  TableSize,         \* size_ of every table
  hashId,       \* of each key
  Reassign      \* operator= is used on tables that are not empty

ASSUME HashAssumption ==
  /\ TableSize \in Nat \ {0}
  /\ hashId \in [TableKey -> Nat]
  /\ Reassign \in BOOLEAN

VARIABLES
  thash_table_,  \* of each table and bucket: the pairs <<key, object>> of the
                 \* chain, the one in the table first
  keys_          \* of each table: the list of keys

tableVars == <<thash_table_, keys_>>

Bucket == 0..(TableSize - 1)
EmptyTable == [b \in Bucket |-> <<>>]

TableInit ==
  /\ thash_table_ = [h \in Table |-> EmptyTable]
  /\ keys_ = [h \in Table |-> <<>>]

BucketOf(k) == hashId[k] % TableSize

(* The position of the key in the chain; behind the last if it is not there. *)
Position(chain, k) ==
  LET at == {i \in DOMAIN chain : chain[i][1] = k}
  IN IF at = {} THEN Len(chain) + 1 ELSE Min(at)

HasObject(t, k) == Position(t[BucketOf(k)], k) <= Len(t[BucketOf(k)])

ObjectAt(t, k) == t[BucketOf(k)][Position(t[BucketOf(k)], k)][2]

-----------------------------------------------------------------------------
(* set *)

(* In the table, at the end of the chain, or in the place of the old value. *)
WithSet(t, k, v) ==
  LET chain == t[BucketOf(k)]
      i == Position(chain, k)
  IN [t EXCEPT ![BucketOf(k)] =
       IF i > Len(chain) THEN Append(@, <<k, v>>)
       ELSE [@ EXCEPT ![i] = <<k, v>>]]

(* Mutant: the key is listed again. *)
KeysWithAgain(t, keys, k) == Append(keys, k)

KeysWith(t, keys, k) == IF HasObject(t, k) THEN keys ELSE Append(keys, k)

TableSet(h, k, v) ==
  /\ thash_table_' = [thash_table_ EXCEPT ![h] = WithSet(@, k, v)]
  /\ keys_' = [keys_ EXCEPT ![h] = KeysWith(thash_table_[h], @, k)]

-----------------------------------------------------------------------------
(* remove_keeping_key, remove, remove_element, clear *)

(* Mutant: when the first element goes the chain behind it is forgotten.    *)
WithoutPairChain(t, k) ==
  LET chain == t[BucketOf(k)]
      i == Position(chain, k)
  IN [t EXCEPT ![BucketOf(k)] =
       IF i > Len(chain) THEN @ ELSE IF i = 1 THEN <<>> ELSE RemoveAt(@, i)]

(* The first of the chain moves into the table, another is unlinked.        *)
WithoutPair(t, k) ==
  LET chain == t[BucketOf(k)]
      i == Position(chain, k)
  IN [t EXCEPT ![BucketOf(k)] = IF i > Len(chain) THEN @ ELSE RemoveAt(@, i)]

KeysWithout(t, keys, k) ==
  IF HasObject(t, k) THEN Without(keys, {k}) ELSE keys

TableRemove(h, k) ==
  /\ thash_table_' = [thash_table_ EXCEPT ![h] = WithoutPair(@, k)]
  /\ keys_' = [keys_ EXCEPT ![h] = KeysWithout(thash_table_[h], @, k)]

(* get_key: the places of the keys with this element, of which it answers   *)
(* the first.                                                               *)
KeysOf(t, keys, v) ==
  {i \in DOMAIN keys : HasObject(t, keys[i]) /\ ObjectAt(t, keys[i]) = v}

(* One turn of the loop of remove_element, on a pair of table and list. *)
ElementTurn(left, v) ==
  LET at == KeysOf(left[1], left[2], v)
      k == left[2][Min(at)]
  IN IF at = {} THEN left
     ELSE <<WithoutPair(left[1], k), KeysWithout(left[1], left[2], k)>>

(* Each turn takes a key off the list: after as many as there were none is  *)
(* left with the element.                                                   *)
WithoutElement(t, keys, v) ==
  LET turn[n \in 0..Len(keys)] ==
        IF n = 0 THEN <<t, keys>> ELSE ElementTurn(turn[n - 1], v)
  IN turn[Len(keys)]

TableRemoveElement(h, v) ==
  LET left == WithoutElement(thash_table_[h], keys_[h], v)
  IN /\ thash_table_' = [thash_table_ EXCEPT ![h] = left[1]]
     /\ keys_' = [keys_ EXCEPT ![h] = left[2]]

(* clear removes key by key and then the list. *)
Cleared(t, keys) ==
  LET left[n \in 0..Len(keys)] ==
        IF n = 0 THEN t ELSE WithoutPair(left[n - 1], keys[n])
  IN left[Len(keys)]

TableClear(h) ==
  /\ thash_table_' = [thash_table_ EXCEPT ![h] = Cleared(@, keys_[h])]
  /\ keys_' = [keys_ EXCEPT ![h] = <<>>]

-----------------------------------------------------------------------------
(* copy: a new table; the list of keys is taken as it is, empty for the     *)
(* copy constructor.                                                        *)
CopyTurn(copy, t, k) ==
  IF HasObject(t, k)
  THEN <<WithSet(copy[1], k, ObjectAt(t, k)), KeysWith(copy[1], copy[2], k)>>
  ELSE copy

Copied(keys, t, others) ==
  LET copy[n \in 0..Len(others)] ==
        IF n = 0 THEN <<EmptyTable, keys>> ELSE CopyTurn(copy[n - 1], t, others[n])
  IN copy[Len(others)]

(* Both kinds of copy. *)
CopyTo(h, keys, g) ==
  LET copy == Copied(keys, thash_table_[g], keys_[g])
  IN /\ thash_table_' = [thash_table_ EXCEPT ![h] = copy[1]]
     /\ keys_' = [keys_ EXCEPT ![h] = copy[2]]

TableCopy(h, g) == h # g /\ keys_[h] = <<>> /\ CopyTo(h, <<>>, g)

TableAssign(h, g) == h # g /\ (Reassign \/ keys_[h] = <<>>) /\ CopyTo(h, keys_[h], g)

-----------------------------------------------------------------------------

TableNext ==
  \/ \E h \in Table, k \in TableKey, v \in TableVal : TableSet(h, k, v)
  \/ \E h \in Table, k \in TableKey : TableRemove(h, k)
  \/ \E h \in Table, v \in TableVal : TableRemoveElement(h, v)
  \/ \E h \in Table : TableClear(h)
  \/ \E h, g \in Table : TableCopy(h, g)
  \/ \E h, g \in Table : TableAssign(h, g)

TableSpec == TableInit /\ [][TableNext]_tableVars

-----------------------------------------------------------------------------
(* Properties *)

(* Every table is a dictionary: whatever collides, each key has its last    *)
(* value and the keys keep their order.                                     *)
StoredValues(t) == [k \in {x \in TableKey : HasObject(t, x)} |-> ObjectAt(t, k)]

Abstract == INSTANCE Dictionary WITH
  Key <- TableKey,
  Val <- TableVal,
  value <- [h \in Table |-> StoredValues(thash_table_[h])],
  order <- keys_

IsDictionary == Abstract!Spec

=============================================================================
