----------------------------- MODULE ValueHeap -----------------------------
(***************************************************************************)
(* The cells behind the values (include/oscit/value.h): a Value owns one    *)
(* reference to a cell (StringData, Error, MidiMessage, List or Hash), which *)
(* counts its references and is deleted with the last.  Assigning a value   *)
(* shares its cell; strings and lists are changed in place, for all who     *)
(* share them (test/list_value_test.h:99), hashes only after Hash::detach.  *)
(*                                                                         *)
(* An operation is an operator from a heap to a heap.  Where it also        *)
(* changes the Value it is called on, it returns both.  The callers keep to *)
(* what the code can do: they store no value inside of itself, they merge   *)
(* no value with itself, and an argument that the operation destroys before *)
(* it is read is a copy.                                                    *)
(***************************************************************************)
EXTENDS Values

CONSTANTS
  Addr,        \* 1..n, the addresses of the cells
  Variable,    \* the values the program declares
  HashKey,         \* keys of hashes
  Literal,     \* the values the program builds from JSON
  MaxSpent     \* bound on the number of operations

VARIABLES
  heap,        \* [Addr -> cell]
  root,        \* [Variable -> Value]: each a tree's leaf, or a type and an address
  astray,      \* ghost: the operations that did not give what they should
  spent        \* ghost: the number of operations

heapVars == <<heap, root, astray, spent>>

Counted == {"STRING", "MIDI", "LIST", "HASH"}
Ref(type, at) == [type |-> type, at |-> at]
IsRef(v) == v.type \in Counted

Free == [kind |-> "FREE", count |-> 0]
LeafCell(kind, data) == [kind |-> kind, count |-> 1, data |-> data]
ListCell(values, tags) == [kind |-> "LIST", count |-> 1, values |-> values, tags |-> tags]
HashCell(pairs, count) == [kind |-> "HASH", count |-> count, pairs |-> pairs]

-----------------------------------------------------------------------------
(* Reference counting *)

(* The values a cell owns. *)
Contents(c) ==
  CASE c.kind = "LIST" -> c.values
    [] c.kind = "HASH" -> [i \in DOMAIN c.pairs |-> c.pairs[i][2]]
    [] OTHER -> <<>>

Acquire(h, v) == IF IsRef(v) THEN [h EXCEPT ![v.at].count = @ + 1] ELSE h
AcquireAll(h, vs) == FoldLeft(Acquire, h, vs)

RECURSIVE Release(_, _)
Release(h, v) ==
  IF ~IsRef(v) THEN h
  ELSE IF h[v.at].count > 1 THEN [h EXCEPT ![v.at].count = @ - 1]
  ELSE FoldLeft(LAMBDA g, w : Release(g, w),
                [h EXCEPT ![v.at] = Free], Contents(h[v.at]))

FreeAddr(h) == {a \in Addr : h[a] = Free}
NewAt(h) == Min(FreeAddr(h))

(* A new cell, and the value that owns it. *)
New(h, cell) ==
  [heap |-> [h EXCEPT ![NewAt(h)] = cell], value |-> Ref(cell.kind, NewAt(h))]

(* The tree of a value. *)
RECURSIVE Tree(_, _)
Tree(h, v) ==
  CASE v.type = "STRING" -> String(h[v.at].data)
    [] v.type = "MIDI" -> Midi(h[v.at].data, 0)
    [] v.type = "LIST" ->
         ListOf([i \in DOMAIN h[v.at].values |-> Tree(h, h[v.at].values[i])])
    [] v.type = "HASH" ->
         HashOf([i \in DOMAIN h[v.at].pairs |->
                   <<h[v.at].pairs[i][1], Tree(h, h[v.at].pairs[i][2])>>])
    [] OTHER -> v

-----------------------------------------------------------------------------
(* Value::set, Value::copy *)

(* Mutant: a list or a hash is not held while the value lets go of it. *)
SetValueUnheld(h, d, s) ==
  IF IsRef(s) /\ s = d THEN [heap |-> h, value |-> d]
  ELSE IF IsRef(s) THEN [heap |-> Acquire(Release(h, d), s), value |-> s]
  ELSE [heap |-> Release(h, d), value |-> CopyOf(s)]

(* The value d is set to s, with "foo = foo[3]" in mind: its old list or    *)
(* hash is held until s is shared.                                          *)
SetValue(h, d, s) ==
  LET old == IF d.type \in {"LIST", "HASH"} THEN d ELSE NilValue
  IN IF IsRef(s) /\ s = d THEN [heap |-> h, value |-> d]
     ELSE IF IsRef(s)
     THEN [heap |-> Release(Acquire(Release(Acquire(h, old), d), s), old), value |-> s]
     ELSE [heap |-> Release(h, d), value |-> CopyOf(s)]

(* Type tags of a list: those of a list in it stand between brackets. *)
RECURSIVE TypeTag(_, _)
TypeTag(h, v) ==
  CASE v.type = "LIST" -> h[v.at].tags
    [] v.type = "EMPTY" -> <<>>
    [] OTHER -> <<v.type>>
ElementTag(h, v) ==
  IF v.type = "LIST" THEN <<"[">> \o TypeTag(h, v) \o <<"]">> ELSE TypeTag(h, v)

(* A copied hash has the count of its original (ReferenceCounted has no     *)
(* constructor for copies), and so has a midi message; a list is as deep a  *)
(* copy as its elements are.                                                *)
CopyCell(h, at) ==
  LET c == h[at]
      n == CASE c.kind = "LIST" -> ListCell(c.values, c.tags)
             [] c.kind = "STRING" -> LeafCell("STRING", c.data)
             [] OTHER -> c
  IN New(AcquireAll(h, Contents(c)), n)

(* copy: the old content goes first. *)
CopyValue(h, d, s) ==
  IF IsRef(s) THEN CopyCell(Release(h, d), s.at)
  ELSE [heap |-> Release(h, d), value |-> CopyOf(s)]

-----------------------------------------------------------------------------
(* Lists *)

ListPushBack(h, at, v) ==
  Acquire([h EXCEPT ![at].values = Append(@, CopyOf(v)),
                    ![at].tags = @ \o ElementTag(h, v)], v)

ListPushFront(h, at, v) ==
  Acquire([h EXCEPT ![at].values = <<CopyOf(v)>> \o @,
                    ![at].tags = ElementTag(h, v) \o @], v)

BecomeList(h, d) == New(Release(h, d), ListCell(<<>>, <<>>))

PushBackValue(h, d, v) ==
  CASE v.type = "EMPTY" -> [heap |-> h, value |-> d]
    [] v.type # "EMPTY" /\ d.type = "LIST" ->
         [heap |-> ListPushBack(h, d.at, v), value |-> d]
    [] v.type # "EMPTY" /\ d.type = "EMPTY" /\ v.type = "LIST" ->
         LET l == BecomeList(h, d)
         IN [heap |-> ListPushBack(l.heap, l.value.at, v), value |-> l.value]
    [] v.type # "EMPTY" /\ d.type = "EMPTY" /\ v.type # "LIST" -> SetValue(h, d, v)
    [] OTHER ->
         LET l == BecomeList(Acquire(h, d), d)     \* original holds the old content
             both == ListPushBack(ListPushBack(l.heap, l.value.at, d), l.value.at, v)
         IN [heap |-> Release(both, d), value |-> l.value]

PushFrontValue(h, d, v) ==
  CASE v.type = "EMPTY" -> [heap |-> h, value |-> d]
    [] v.type # "EMPTY" /\ d.type = "LIST" ->
         [heap |-> ListPushFront(h, d.at, v), value |-> d]
    [] v.type # "EMPTY" /\ d.type = "EMPTY" -> SetValue(h, d, v)
    [] OTHER ->
         LET l == BecomeList(Acquire(h, d), d)
             both == ListPushBack(ListPushBack(l.heap, l.value.at, v), l.value.at, d)
         IN [heap |-> Release(both, d), value |-> l.value]

(* List::set_value_at: a list takes only the place of what has its type_id, *)
(* the hash of its tags: of a list like it, or of a single value of the type *)
(* of its only element.  Otherwise the tag at this position is replaced,    *)
(* and std::string throws when there are fewer tags than that.              *)
ListSetAt(h, at, i, v) ==
  LET old == h[at].values[i]
      s == SetValue(h, old, v)
      stored == [s.heap EXCEPT ![at].values[i] = s.value]
  IN IF v.type = "LIST"
     THEN IF TypeTag(h, old) = TypeTag(h, v) THEN stored ELSE h
     ELSE IF i > Len(stored[at].tags) + 1 THEN stored
     ELSE [stored EXCEPT ![at].tags =
             SubSeq(@, 1, i - 1) \o TypeTag(h, v) \o SubSeq(@, i + 1, Len(@))]

-----------------------------------------------------------------------------
(* Hashes *)

(* Hash::detach: copy on write. *)
Detach(h, d) ==
  IF h[d.at].count > 1
  THEN LET n == CopyCell(h, d.at)
       IN [heap |-> Release(n.heap, d), value |-> n.value]
  ELSE [heap |-> h, value |-> d]

Pair(h, at, k) == CHOOSE i \in DOMAIN h[at].pairs : h[at].pairs[i][1] = k
Holds(h, at, k) == HasKey(h[at].pairs, k)
Got(h, at, k) == h[at].pairs[Pair(h, at, k)][2]

(* THash::set *)
HashSet(h, at, k, v) ==
  IF Holds(h, at, k)
  THEN LET s == SetValue(h, Got(h, at, k), v)
       IN [s.heap EXCEPT ![at].pairs[Pair(h, at, k)] = <<k, s.value>>]
  ELSE Acquire([h EXCEPT ![at].pairs = Append(@, <<k, CopyOf(v)>>)], v)

BecomeHash(h, d) == New(Release(h, d), HashCell(<<>>, 1))
OwnHash(h, d) == IF d.type = "HASH" THEN Detach(h, d) ELSE BecomeHash(h, d)

SetKeyValue(h, d, k, v) ==
  LET own == OwnHash(h, d)
  IN [heap |-> HashSet(own.heap, own.value.at, k, v), value |-> own.value]

(* set(key1, key2, val): the first key's value is changed where it is. *)
SetKeysValue(h, d, k1, k2, v) ==
  LET own == OwnHash(h, d)
      at == own.value.at
  IN IF Holds(own.heap, at, k1)
     THEN LET s == SetKeyValue(own.heap, Got(own.heap, at, k1), k2, v)
          IN [heap |-> [s.heap EXCEPT ![at].pairs[Pair(own.heap, at, k1)] = <<k1, s.value>>],
              value |-> own.value]
     ELSE LET tmp == SetKeyValue(own.heap, EmptyValue, k2, v)
          IN [heap |-> Release(HashSet(tmp.heap, at, k1, tmp.value), tmp.value),
              value |-> own.value]

(* Mutant: the key is removed from a shared hash. *)
RemoveKeyShared(h, d, k) ==
  IF d.type # "HASH" \/ ~Holds(h, d.at, k) THEN [heap |-> h, value |-> d]
  ELSE [heap |-> Release([h EXCEPT ![d.at].pairs = SelectSeq(@, LAMBDA p : p[1] # k)],
                         Got(h, d.at, k)),
        value |-> d]

RemoveKeyValue(h, d, k) ==
  IF d.type # "HASH" THEN [heap |-> h, value |-> d]
  ELSE LET own == Detach(h, d)
           at == own.value.at
       IN IF ~Holds(own.heap, at, k) THEN own
          ELSE [heap |-> Release([own.heap EXCEPT
                           ![at].pairs = SelectSeq(@, LAMBDA p : p[1] # k)],
                         Got(own.heap, at, k)),
                value |-> own.value]

(* s_deep_merge: each key of the hash of b in turn.  aHash, the hash that a *)
(* has after its detach, is kept for the whole loop.                        *)
RECURSIVE MergeValue(_, _, _)
MergeValue(h, a, b) ==
  LET own == Detach(h, a)
      aHash == own.value.at
      merge(g, pair) ==
        LET k == pair[1]
            vb == pair[2]
        IN IF ~Holds(g.heap, aHash, k) THEN SetKeyValue(g.heap, g.value, k, vb)
           ELSE IF Got(g.heap, aHash, k).type = "HASH" /\ vb.type = "HASH"
           THEN LET m == MergeValue(g.heap, Got(g.heap, aHash, k), vb)
                IN [heap |-> [m.heap EXCEPT
                      ![aHash].pairs[Pair(g.heap, aHash, k)] = <<k, m.value>>],
                    value |-> g.value]
           ELSE IF vb.type = "NIL" THEN RemoveKeyValue(g.heap, g.value, k)
           ELSE SetKeyValue(g.heap, g.value, k, vb)
  IN FoldLeft(merge, own, h[b.at].pairs)

DeepMerge(h, d, s) ==
  IF d.type # "HASH" \/ s.type # "HASH" THEN [heap |-> h, value |-> d]
  ELSE MergeValue(h, d, s)

-----------------------------------------------------------------------------
(* The program.  A place is a variable, or an element of a list in one; an  *)
(* argument is the value at a place, or a copy of what a key holds.         *)

Elements(x) == IF root[x].type = "LIST" THEN DOMAIN heap[root[x].at].values ELSE {}
Places == {<<x, 0>> : x \in Variable} \cup UNION {{x} \X Elements(x) : x \in Variable}

At(p) == IF p[2] = 0 THEN root[p[1]] ELSE heap[root[p[1]].at].values[p[2]]

KeyArguments ==
  UNION {{Got(heap, root[x].at, k) : k \in {j \in HashKey : Holds(heap, root[x].at, j)}} :
           x \in {y \in Variable : root[y].type = "HASH"}}

RECURSIVE Reaches(_, _, _)
Reaches(h, v, a) ==
  IsRef(v) /\ (v.at = a \/ \E i \in DOMAIN Contents(h[v.at]) : Reaches(h, Contents(h[v.at])[i], a))

(* v may be stored in d. *)
Storable(v, d) == IsRef(d) => ~Reaches(heap, v, d.at)

(* No cell is reached from both but through a copy. *)
Apart(v, d) == IsRef(v) => ~Reaches(heap, d, v.at)

Step == spent < MaxSpent /\ Cardinality(FreeAddr(heap)) > 8 /\ spent' = spent + 1

(* The value at p and the heap become what result says. *)
Store(p, result) ==
  IF p[2] = 0
  THEN heap' = result.heap /\ root' = [root EXCEPT ![p[1]] = result.value]
  ELSE /\ heap' = [result.heap EXCEPT ![root[p[1]].at].values[p[2]] = result.value]
       /\ root' = root

(* The value v is a copy that is released after the operation. *)
Temporary(v, op(_)) ==
  LET r == op(Acquire(heap, v)) IN [r EXCEPT !.heap = Release(@, v)]

Quiet == astray' = astray

(* An operation on the hash of x gives tree there, and changes nothing that *)
(* another variable holds.                                                  *)
Expect(op, x, tree) ==
  astray' = IF /\ Tree(heap', root'[x]) = tree
               /\ \A y \in Variable \ {x} : Tree(heap', root'[y]) = Tree(heap, root[y])
            THEN astray ELSE astray \cup {op}

(* A literal is built in new cells. *)
RECURSIVE BuildCells(_, _)
BuildCells(h, t) ==
  LET children == IF Is(t, "LIST") THEN t.list
                  ELSE IF Is(t, "HASH") THEN [i \in DOMAIN t.hash |-> t.hash[i][2]] ELSE <<>>
      built == FoldLeft(LAMBDA acc, c :
                          LET b == BuildCells(acc.heap, c)
                          IN [heap |-> b.heap, values |-> Append(acc.values, b.value)],
                        [heap |-> h, values |-> <<>>], children)
      tags == FlattenSeq([i \in DOMAIN built.values |-> ElementTag(built.heap, built.values[i])])
  IN CASE Is(t, "STRING") -> New(h, LeafCell("STRING", t.string))
       [] Is(t, "MIDI") -> New(h, LeafCell("MIDI", t.data))
       [] Is(t, "LIST") -> New(built.heap, ListCell(built.values, tags))
       [] Is(t, "HASH") ->
            New(built.heap,
                HashCell([i \in DOMAIN t.hash |-> <<t.hash[i][1], built.values[i]>>], 1))
       [] OTHER -> [heap |-> h, value |-> t]

ParseInto(x, t) ==
  /\ Step /\ Quiet
  /\ Store(<<x, 0>>, BuildCells(Release(heap, root[x]), t))

(* p = q: q may be a part of p, but not the other way round. *)
AssignTo(p, q) ==
  /\ Step /\ Quiet
  /\ Storable(At(q), At(p)) \/ (At(q) = At(p))
  /\ p[2] # 0 => Storable(At(q), root[p[1]])
  /\ Store(p, SetValue(heap, At(p), At(q)))

CopyFrom(x, q) ==
  /\ Step /\ Quiet
  /\ Apart(At(q), root[x])
  /\ Store(<<x, 0>>, CopyValue(heap, root[x], At(q)))

PushBackAt(p, q) ==
  /\ Step /\ Quiet
  /\ p # q /\ Storable(At(q), At(p)) /\ (p[2] # 0 => Storable(At(q), root[p[1]]))
  /\ Store(p, PushBackValue(heap, At(p), At(q)))

PushFrontAt(p, q) ==
  /\ Step /\ Quiet
  /\ p # q /\ Storable(At(q), At(p)) /\ (p[2] # 0 => Storable(At(q), root[p[1]]))
  /\ Store(p, PushFrontValue(heap, At(p), At(q)))

SetValueAt(p, q) ==
  /\ Step /\ Quiet
  /\ p[2] # 0 /\ Storable(At(q), root[p[1]])
  /\ heap' = ListSetAt(heap, root[p[1]].at, p[2], At(q))
  /\ UNCHANGED root

(* A string or a midi message is changed in place. *)
ChangeInPlace(x) ==
  /\ Step /\ Quiet
  /\ root[x].type \in {"STRING", "MIDI"} /\ Len(heap[root[x].at].data) < 2
  /\ heap' = [heap EXCEPT ![root[x].at].data = Append(@, 0)]
  /\ UNCHANGED root

SetKeyAt(x, k, v) ==
  /\ Step
  /\ Storable(v, root[x]) \/ v \in KeyArguments
  /\ Store(<<x, 0>>, Temporary(v, LAMBDA h : SetKeyValue(h, root[x], k, v)))
  /\ Expect("set", x, SetKey(Tree(heap, root[x]), k, Tree(heap, v)))

SetKeysAt(x, k1, k2, v) ==
  /\ Step
  /\ Storable(v, root[x]) \/ v \in KeyArguments
  /\ Store(<<x, 0>>, Temporary(v, LAMBDA h : SetKeysValue(h, root[x], k1, k2, v)))
  /\ LET tree == Tree(heap, root[x])
     IN Expect("set", x, SetKey(tree, k1, SetKey(ValueAt(tree, k1), k2, Tree(heap, v))))

RemoveKeyAt(x, k) ==
  /\ Step
  /\ Store(<<x, 0>>, RemoveKeyValue(heap, root[x], k))
  /\ Expect("remove", x, WithoutKey(Tree(heap, root[x]), k))

(* value.h:823: the keys of the other hash are set, those that are nil       *)
(* removed, and those that hold hashes on both sides merged in turn.        *)
RECURSIVE Merged(_, _)
Merged(a, b) ==
  LET merge(acc, pair) ==
        IF ~HasKey(acc.hash, pair[1]) THEN SetKey(acc, pair[1], pair[2])
        ELSE IF Is(ValueAt(acc, pair[1]), "HASH") /\ Is(pair[2], "HASH")
        THEN SetKey(acc, pair[1], Merged(ValueAt(acc, pair[1]), pair[2]))
        ELSE IF Is(pair[2], "NIL") THEN WithoutKey(acc, pair[1])
        ELSE SetKey(acc, pair[1], pair[2])
  IN FoldLeft(merge, a, b.hash)

Merge(x, y) ==
  /\ Step
  /\ x # y /\ root[x].type = "HASH" /\ root[y].type = "HASH"
  /\ Store(<<x, 0>>, DeepMerge(heap, root[x], root[y]))
  /\ Expect("merge", x, Merged(Tree(heap, root[x]), Tree(heap, root[y])))

(* A variable goes out of scope; another takes its name. *)
Destroy(x) ==
  /\ Step /\ Quiet
  /\ root[x] # EmptyValue
  /\ heap' = Release(heap, root[x])
  /\ root' = [root EXCEPT ![x] = EmptyValue]

(* Each variable begins empty, with a literal, or with the value of another *)
(* one, which was assigned to it.                                           *)
Begin(start) ==
  FoldSet(LAMBDA x, acc :
            LET b == BuildCells(acc.heap, start[x])
            IN [heap |-> b.heap, root |-> [acc.root EXCEPT ![x] = b.value]],
          [heap |-> [a \in Addr |-> Free], root |-> [x \in Variable |-> EmptyValue]],
          Variable)

HeapInit ==
  /\ \E start \in [Variable -> Literal \cup {EmptyValue}], from \in Variable, to \in Variable :
       LET begun == Begin(start)
           shared == SetValue(begun.heap, begun.root[to], begun.root[from])
       IN heap = shared.heap /\ root = [begun.root EXCEPT ![to] = shared.value]
  /\ astray = {}
  /\ spent = 0

(* No variable holds anything. *)
HeapRests ==
  /\ heap = [a \in Addr |-> Free] /\ root = [x \in Variable |-> EmptyValue]
  /\ astray = {} /\ spent = 0

HeapNext ==
  \/ \E x \in Variable : (\E t \in Literal : ParseInto(x, t)) \/ Destroy(x) \/ ChangeInPlace(x)
  \/ \E p \in Places, q \in Places :
       \/ AssignTo(p, q)
       \/ PushBackAt(p, q)
       \/ PushFrontAt(p, q)
       \/ SetValueAt(p, q)
       \/ p[2] = 0 /\ CopyFrom(p[1], q)
  \/ \E x \in Variable, k \in HashKey, v \in {At(p) : p \in Places} \cup KeyArguments :
       \/ SetKeyAt(x, k, v)
       \/ \E j \in HashKey : SetKeysAt(x, k, j, v)
  \/ \E x \in Variable, k \in HashKey : RemoveKeyAt(x, k)
  \/ \E x \in Variable, y \in Variable : Merge(x, y)

HeapSpec == HeapInit /\ [][HeapNext]_heapVars

-----------------------------------------------------------------------------
(* Properties *)

(* The references to a cell: from the variables, and from every cell that   *)
(* still exists.                                                            *)
References(a) ==
  Cardinality({x \in Variable : root[x] \in {Ref(t, a) : t \in Counted}})
    + FoldSet(LAMBDA b, n : n + Len(SelectSeq(Contents(heap[b]), LAMBDA v : IsRef(v) /\ v.at = a)),
              0, Addr)

(* No value refers to a cell that was deleted, or that will be deleted       *)
(* before it is gone: whatever is assigned from a part of itself, pushed,    *)
(* merged or copied on write, a cell counts at least its references, and     *)
(* has the kind they expect.                                                *)
NothingDangles ==
  /\ \A a \in Addr : heap[a].count >= References(a)
  /\ \A x \in Variable : IsRef(root[x]) => heap[root[x].at].kind = root[x].type

(* A write to the hash of one variable gives what the same write gives on a *)
(* tree, and is never seen by another variable, although they share cells   *)
(* at any depth (test/hash_value_test.h:337 test_copy_on_write).            *)
HashIsPrivate == astray \cap {"set", "remove"} = {}

(* Merging gives the merged tree (value.h:823-827).                         *)
MergedAsTold == "merge" \notin astray

(* A cell is deleted with its last reference (reference_counted.h:35).      *)
NothingLeaks == \A a \in Addr : heap[a].count = References(a)

(* The type tags of a list are those of its elements (list.h:91). *)
TagsAgree ==
  \A a \in Addr :
    heap[a].kind = "LIST" =>
      heap[a].tags = FlattenSeq([i \in DOMAIN heap[a].values |->
                                   ElementTag(heap, heap[a].values[i])])

=============================================================================
