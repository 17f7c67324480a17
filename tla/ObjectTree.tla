----------------------------- MODULE ObjectTree -----------------------------
(***************************************************************************)
(* The tree of Objects below a Root (src/object.cpp, include/oscit/object.h, *)
(* object_handle.h, c_reference_counted.h) and the Root's dictionary of urls *)
(* (src/root.cpp).  Every object is known in four places that have to agree: *)
(* its parent's children_ (a hash by name), its parent's children_vector_   *)
(* (by position), the Root's objects_ (by url) and its own url_ and root_.  *)
(*                                                                          *)
(* One thread edits the tree.  An object is kept alive by one reference, of *)
(* the user that created it and then of the tree, and by a handle.          *)
(***************************************************************************)
EXTENDS Integers, FiniteSets, SequencesExt

CONSTANTS
  Obj, Root, None,
  Letters,     \* the names the user gives: one character each (a digit is
               \* 0..9, a letter a greater number)
  MaxHandles,  \* bound: objects held by handles at a time
  MaxClears    \* bound: calls of Object::clear on an object that stays in use

ASSUME ObjAssumption ==
  /\ Root \notin Obj /\ None \notin Obj \cup {Root}
  /\ Letters \subseteq Nat \ 0..9
  /\ MaxHandles \in Nat /\ MaxClears \in Nat

All == Obj \cup {Root}

VARIABLES
  live,       \* objects that exist
  owner,      \* who holds the object's first reference: None, "user" or "tree"
  handles,    \* objects an ObjectHandle of the user holds
  parent_, name_, keep_last_, url_,
  rooted,     \* objects whose root_ is the Root
  children_,  \* of each object: the pairs <<name, object>>
  children_vector_,
  objects_,   \* the Root's dictionary: the pairs <<url, object>>
  hung,       \* register_child is in an endless loop, children_ locked
  clears

refVars == <<live, owner, handles>>
tree == <<parent_, name_, keep_last_, url_, rooted, children_,
          children_vector_, objects_>>
vars == <<refVars, tree, hung, clears>>

-----------------------------------------------------------------------------
(* Names: the characters before a '-', and the number behind it (0: no '-'). *)

Given(l) == [chars |-> <<l>>, suffix |-> 0]

(* find_next_name: substr(0, pos - 1) loses the character before the '-'    *)
(* and the '-' itself.                                                      *)
NextName(n) ==
  IF n.suffix = 0 THEN [n EXCEPT !.suffix = 1]
  ELSE [chars |-> Append(Front(n.chars), n.suffix + 1), suffix |-> 0]

RootName == [chars |-> <<>>, suffix |-> 0]
Name == [chars : Seq(Nat), suffix : Nat]

(* What is reached from the members of from when each x leads to next[x]:   *)
(* the least set with from in it that nothing leads out of.                 *)
Reached(from, next) ==
  LET around == {T \in SUBSET DOMAIN next :
                   from \subseteq T /\ \A x \in T : next[x] \subseteq T}
  IN {x \in DOMAIN next : \A T \in around : x \in T}

(* Mutant: the name is taken as it is. *)
FreeNameFirst(n, taken) == n

(* The loop of register_child goes through names that are taken and leaves  *)
(* it with one that is not; None when it comes back to one it tried.        *)
FreeName(n, taken) ==
  LET tried == Reached({n} \cap taken, [m \in taken |-> {NextName(m)} \cap taken])
      free == ({n} \cup {NextName(m) : m \in tried}) \ taken
  IN IF free = {} THEN None ELSE CHOOSE m \in free : TRUE

-----------------------------------------------------------------------------
(* The tree *)

Kids(p) == {e[2] : e \in children_[p]}

Subtree(o) == Reached({o}, [p \in All |-> Kids(p)])

(* moved() of the objects in who: the urls they get, each from its parent,  *)
(* but for those in given.                                                  *)
UrlsBelow(who, given) ==
  LET url[x \in who] == IF x \in DOMAIN given THEN given[x]
                        ELSE Append(url[parent_[x]], name_[x])
  IN url

(* Mutant: the child stays in the hash. *)
WithoutChildNone(parents, o) == children_

(* unregister_child of some parents, in both of their collections. *)
WithoutChild(parents, o) ==
  [p \in All |-> IF p \in parents THEN {e \in children_[p] : e[2] # o}
                 ELSE children_[p]]

(* Mutant: the position in the vector is forgotten. *)
VectorsWithoutNone(parents, o) == children_vector_

VectorsWithout(parents, o) ==
  [p \in All |-> IF p \in parents THEN RemoveFirst(children_vector_[p], o)
                 ELSE children_vector_[p]]

(* Mutant: always at the end. *)
VectorWithLast(vec, o, kept) == Append(vec, o)

(* register_child: behind the others, but before those that are kept last.  *)
(* kept: keep_last_ as read, whatever that gives for an object that is gone *)
VectorWith(vec, o, kept) ==
  IF kept[o] \/ vec = <<>> \/ ~kept[Last(vec)] THEN Append(vec, o)
  ELSE InsertAt(vec, SelectInSeq(vec, LAMBDA x : kept[x]), o)

KeepReads(p) ==
  {k \in [Obj -> BOOLEAN] : \A x \in Obj :
     x \in live \/ ~Contains(children_vector_[p], x)
       => k[x] = keep_last_[x]}

(* Mutant: only the object itself is moved. *)
MovedTop(o, u) == [x \in {o} |-> u]

(* moved() goes through the object and all that is below it.                *)
MovedUrls(o, u) == UrlsBelow(Subtree(o), [x \in {o} |-> u])

(* moved() of o to the url u, with or without a root: url_, root_, objects_ *)
Moved(o, u, hasRoot) ==
  \E urls \in {MovedUrls(o, u)} :
    LET who == DOMAIN urls
        at == {urls[x] : x \in who}
        others == {e \in objects_ : e[2] \notin who}
    IN /\ url_' = [x \in All |-> IF x \in who THEN urls[x] ELSE url_[x]]
       /\ rooted' = IF hasRoot THEN rooted \cup who ELSE rooted \ who
       /\ objects_' = IF hasRoot
                      THEN {e \in others : e[1] \notin at} \cup {<<urls[x], x>> : x \in who}
                      ELSE others

(* set_parent(p) of an object that wants the name n; keep_last_ is k.  Its  *)
(* old and its new parent forget it first.                                  *)
SetParent(o, p, n, k) ==
  LET parents == {parent_[o], p}
      others == WithoutChild(parents, o)
      free == FreeName(n, {e[1] : e \in others[p]})
  IN IF free = None
     THEN hung' = TRUE /\ UNCHANGED tree
     ELSE /\ parent_' = [parent_ EXCEPT ![o] = p]
          /\ name_' = [name_ EXCEPT ![o] = free]
          /\ keep_last_' = [keep_last_ EXCEPT ![o] = k]
          /\ children_' = [others EXCEPT ![p] = @ \cup {<<free, o>>}]
          /\ \E kept \in KeepReads(p) :
               children_vector_' = [VectorsWithout(parents, o) EXCEPT
                 ![p] = VectorWith(@, o, [kept EXCEPT ![o] = k])]
          /\ Moved(o, Append(url_[p], free), p \in rooted)
          /\ UNCHANGED hung

(* set_parent(NULL) of an object that has no parent. *)
StayAlone(o, n, k) ==
  /\ name_' = [name_ EXCEPT ![o] = n]
  /\ keep_last_' = [keep_last_ EXCEPT ![o] = k]
  /\ Moved(o, <<n>>, FALSE)
  /\ UNCHANGED <<parent_, children_, children_vector_, hung>>

(* set_parent(parent_), after the name or keep_last_ has changed. *)
ResetParent(o, n, k) ==
  IF parent_[o] = None THEN StayAlone(o, n, k) ELSE SetParent(o, parent_[o], n, k)

-----------------------------------------------------------------------------
(* Destruction *)

(* What goes with tops: their children, and theirs, that nothing else holds. *)
Dying(tops) == Reached(tops, [p \in All |-> Kids(p) \ handles])

(* Mutant: only the destroyed object itself is taken out. *)
LostTops(tops) == tops

(* The destroyed objects and what is below them: moved() takes it all out   *)
(* of objects_.                                                             *)
Lost(tops) == Reached(tops, [p \in All |-> Kids(p)])

(* ~Object of the objects in tops and of what dies with them: a child that  *)
(* is held keeps the url it got from the destructor of its parent.  What is *)
(* in cut loses its parent and its place in objects_, nothing else.         *)
Destroy(tops, cut, vectors, others) ==
  \E dead \in {Dying(tops)}, lost \in {Lost(tops)} :
  LET held == (UNION {Kids(o) : o \in dead}) \ dead
      free == dead \cup held \cup cut
      urls == UrlsBelow(lost, [x \in dead \cup held |->
                IF x \in dead THEN <<>> ELSE <<name_[parent_[x]], name_[x]>>])
  IN /\ live' = live \ dead
     /\ owner' = [x \in Obj |-> IF x \in free THEN None ELSE owner[x]]
     /\ parent_' = [x \in All |-> IF x \in free THEN None ELSE parent_[x]]
     /\ name_' = [x \in All |-> IF x \in dead THEN RootName ELSE name_[x]]
     /\ keep_last_' = [x \in Obj |-> x \notin dead /\ keep_last_[x]]
     /\ children_' = [x \in All |-> IF x \in dead THEN {} ELSE others[x]]
     /\ children_vector_' = [x \in All |-> IF x \in dead THEN <<>> ELSE vectors[x]]
     /\ url_' = [x \in All |-> IF x \in lost THEN urls[x] ELSE url_[x]]
     /\ rooted' = rooted \ lost
     /\ objects_' = {e \in objects_ : e[2] \notin lost \cup cut}

-----------------------------------------------------------------------------
(* What the user does *)

Init ==
  /\ live = {Root}
  /\ owner = [o \in Obj |-> None] /\ handles = {}
  /\ parent_ = [o \in All |-> None]
  /\ name_ = [o \in All |-> RootName]
  /\ keep_last_ = [o \in Obj |-> FALSE]
  /\ url_ = [o \in All |-> IF o = Root THEN <<RootName>> ELSE <<>>]
  /\ rooted = {Root}
  /\ children_ = [o \in All |-> {}]
  /\ children_vector_ = [o \in All |-> <<>>]
  /\ objects_ = {<<<<RootName>>, Root>>}
  /\ hung = FALSE /\ clears = 0

(* new Object(name, attrs, keep_last) *)
New(o, l, k) ==
  /\ ~hung /\ o \notin live
  /\ live' = live \cup {o}
  /\ owner' = [owner EXCEPT ![o] = "user"]
  /\ name_' = [name_ EXCEPT ![o] = Given(l)]
  /\ url_' = [url_ EXCEPT ![o] = <<Given(l)>>]
  /\ keep_last_' = [keep_last_ EXCEPT ![o] = k]
  /\ UNCHANGED <<handles, parent_, rooted, children_, children_vector_,
                 objects_, hung, clears>>

(* p->adopt(o).  A parent must not be adopted by what is below it. *)
Adopt(p, o) ==
  /\ ~hung /\ {p, o} \subseteq live /\ owner[o] # None
  /\ p \notin Subtree(o)
  /\ SetParent(o, p, name_[o], keep_last_[o])
  /\ owner' = [owner EXCEPT ![o] = "tree"]
  /\ UNCHANGED <<live, handles, clears>>

SetName(o, l) ==
  /\ ~hung /\ o \in live
  /\ ResetParent(o, Given(l), keep_last_[o])
  /\ UNCHANGED <<refVars, clears>>

SetKeepLast(o) ==
  /\ ~hung /\ o \in live
  /\ ResetParent(o, name_[o], ~keep_last_[o])
  /\ UNCHANGED <<refVars, clears>>

(* get_object_at(url, &handle), the only handle of the user on that object. *)
HoldAtUrl(o) ==
  /\ ~hung /\ \E e \in objects_ : e[2] = o
  /\ o \notin handles /\ Cardinality(handles) < MaxHandles
  /\ handles' = handles \cup {o}
  /\ UNCHANGED <<live, owner, tree, hung, clears>>

(* get_child(index, &handle) *)
HoldAtIndex(p, i) ==
  /\ ~hung /\ p \in live /\ i <= Len(children_vector_[p])
  /\ children_vector_[p][i] \in live \ handles
  /\ Cardinality(handles) < MaxHandles
  /\ handles' = handles \cup {children_vector_[p][i]}
  /\ UNCHANGED <<live, owner, tree, hung, clears>>

Unref(o) ==
  /\ Destroy({o}, {}, VectorsWithout({parent_[o]}, o), WithoutChild({parent_[o]}, o))
  /\ UNCHANGED <<hung, clears>>

(* ~ObjectHandle *)
DropHandle(o) ==
  /\ ~hung /\ o \in handles
  /\ handles' = handles \ {o}
  /\ owner[o] # None
  /\ UNCHANGED <<live, owner, tree, hung, clears>>

DropLastHandle(o) ==
  /\ ~hung /\ o \in handles
  /\ handles' = handles \ {o}
  /\ owner[o] = None
  /\ Unref(o)

(* o->release() of the user's or of the tree's reference, the last one.     *)
Release(o) ==
  /\ ~hung /\ o \in live \ handles /\ owner[o] # None
  /\ Unref(o)
  /\ UNCHANGED handles

(* p->Object::clear(): children_ is emptied, children_vector_ is not, and a *)
(* child that is held keeps its root_, its url_ and what is below it.       *)
Clear(p) ==
  /\ ~hung /\ p \in live /\ clears < MaxClears /\ children_[p] # {}
  /\ clears' = clears + 1
  /\ Destroy(Kids(p) \ handles, Kids(p) \cap handles, children_vector_,
             [children_ EXCEPT ![p] = {}])
  /\ UNCHANGED <<handles, hung>>

Next ==
  \/ \E o \in Obj, l \in Letters, k \in BOOLEAN : New(o, l, k)
  \/ \E p \in All, o \in Obj : Adopt(p, o)
  \/ \E o \in Obj, l \in Letters : SetName(o, l)
  \/ \E o \in Obj : SetKeepLast(o)
  \/ \E o \in Obj : HoldAtUrl(o)
  \/ \E p \in All, i \in 1..Cardinality(Obj) : HoldAtIndex(p, i)
  \/ \E o \in Obj : DropHandle(o)
  \/ \E o \in Obj : DropLastHandle(o)
  \/ \E o \in Obj : Release(o)
  \/ \E p \in All : Clear(p)

Spec == Init /\ [][Next]_vars

-----------------------------------------------------------------------------
(* Properties *)

TypeOK ==
  /\ Root \in live /\ live \subseteq All
  /\ owner \in [Obj -> {None, "user", "tree"}]
  /\ handles \subseteq live
  /\ parent_ \in [All -> All \cup {None}]
  /\ keep_last_ \in [Obj -> BOOLEAN]
  /\ rooted \subseteq live
  /\ \A p \in All : \A e \in children_[p] : e[2] \in live
  /\ \A p \in All : children_vector_[p] \in Seq(Obj)
  /\ hung \in BOOLEAN /\ clears \in 0..MaxClears

(* An object's two collections of children hold the same objects, each      *)
(* once, under the names they have, and these objects know their parent     *)
(* (register_child, unregister_child, ~Object).  Object::clear breaks it.     *)
ChildrenAgree ==
  clears = 0 => \A p \in live :
    /\ ToSet(children_vector_[p]) = Kids(p)
    /\ Len(children_vector_[p]) = Cardinality(children_[p])
    /\ \A e \in children_[p] : parent_[e[2]] = p /\ name_[e[2]] = e[1]

(* The Root finds by its url each object that can be reached from it, and   *)
(* no other, under the path of names that leads to it: adopt, set_name and  *)
(* the destruction of a subtree keep objects_ in step with the tree, as long *)
(* as Object::clear is not used.                                            *)
LookupIsReachability ==
  clears = 0 =>
    LET urls == UrlsBelow(Subtree(Root), [x \in {Root} |-> <<RootName>>])
    IN  objects_ = {<<urls[x], x>> : x \in Subtree(Root)}

(* Brothers have different names, so that none hides another from           *)
(* get_child(name).                                                         *)
SiblingsDiffer ==
  \A p \in live : \A d, e \in children_[p] : d[1] = e[1] => d = e

(* Children with keep_last_ stay behind the others whatever is adopted,     *)
(* renamed or removed (register_child).                                     *)
KeptLast ==
  clears = 0 => \A p \in live : \A i, j \in DOMAIN children_vector_[p] :
    i < j /\ keep_last_[children_vector_[p][i]]
      => keep_last_[children_vector_[p][j]]

(* Even after Object::clear, what objects_ finds exists, has the Root as    *)
(* root_ and answers to that url: release and moved() never leave a url     *)
(* pointing to an object that is gone or that was moved elsewhere.          *)
LookupIsSound ==
  \A e \in objects_ : e[2] \in rooted /\ url_[e[2]] = e[1]

(* The views of the tree that adopt, set_name, moved, clear and release     *)
(* maintain separately tell the same: the two collections of children, the  *)
(* children's own names and parents, and the Root's map of urls.            *)
TreeIsSound ==
  TypeOK /\ ChildrenAgree /\ LookupIsReachability /\ SiblingsDiffer /\ LookupIsSound

(* "Return the number of children objects." (children_count)                *)
CountIsChildren ==
  \A p \in live : Len(children_vector_[p]) = Cardinality(children_[p])

(* What "Clear all children (delete)" has removed is not found at its url   *)
(* any more: all that is found is in the tree.  The code does not keep it.  *)
ClearedIsNotFound == \A e \in objects_ : e[2] \in Subtree(Root)

(* "If the name is not unique in the parent's scope, the name is changed as *)
(* name-1, name-2, etc.": the letter the user gave is still what it begins   *)
(* with.                                                                    *)
NameKeepsBase ==
  \A o \in live \ {Root} : \E l \in Letters : name_[o].chars = <<l>>

(* ... and there is always a next name: register_child returns.             *)
NamingEnds == ~hung

====
