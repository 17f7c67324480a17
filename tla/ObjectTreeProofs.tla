--------------------------- MODULE ObjectTreeProofs ---------------------------
(***************************************************************************)
(* Proofs about ObjectTree, for any objects, names and number of handles:   *)
(* whatever is adopted, renamed, kept last, held, released and cleared, the *)
(* views of the tree agree (TreeIsSound), and the children to be kept last  *)
(* are (KeptLast).                                                          *)
(***************************************************************************)
EXTENDS ObjectTree, FiniteSetTheorems, SequenceTheorems, WellFoundedInduction, TLAPS

Types ==
  /\ Root \in live /\ live \subseteq All
  /\ owner \in [Obj -> {None, "user", "tree"}]
  /\ handles \subseteq live
  /\ parent_ \in [All -> All \cup {None}]
  /\ name_ \in [All -> Name]
  /\ keep_last_ \in [Obj -> BOOLEAN]
  /\ url_ \in [All -> Seq(Name)]
  /\ rooted \subseteq live
  /\ children_vector_ \in [All -> Seq(Obj)]
  /\ hung \in BOOLEAN /\ clears \in 0..MaxClears

(* The objects themselves say how the tree is: whose child each is ... *)
ChildrenOf(p) == {x \in Obj : parent_[x] = p}

(* ... and a child's url continues its parent's, whose root it has.  That   *)
(* urls grow from parent to child is why the tree has no rings.             *)
Follows(x) ==
  parent_[x] # None =>
    /\ x \in live \cap Obj /\ parent_[x] \in live
    /\ url_[x] = Append(url_[parent_[x]], name_[x])
    /\ x \in rooted <=> parent_[x] \in rooted

Siblings ==
  \A x, y \in Obj :
    parent_[x] # None /\ parent_[x] = parent_[y] /\ name_[x] = name_[y] => x = y

Rooted ==
  /\ Root \in rooted /\ parent_[Root] = None /\ url_[Root] = <<RootName>>
  /\ \A x \in live : url_[x] # <<>>
  /\ clears = 0 => \A x \in rooted \ {Root} : parent_[x] # None

(* What the objects say, as it should be in the Root's dictionary and in    *)
(* the collections of the parents.                                          *)
Answering == {<<url_[x], x>> : x \in rooted}

Dictionary == objects_ \subseteq Answering /\ (clears = 0 => objects_ = Answering)

Hashes == children_ = [p \in All |-> {<<name_[x], x>> : x \in ChildrenOf(p)}]

InRow(vec, kids, keep) ==
  /\ \A i, j \in DOMAIN vec : vec[i] = vec[j] => i = j
  /\ \A x : x \in kids <=> \E i \in DOMAIN vec : vec[i] = x
  /\ \A i, j \in DOMAIN vec : i < j /\ keep[vec[i]] => keep[vec[j]]

Vectors ==
  clears = 0 => \A p \in All : InRow(children_vector_[p], ChildrenOf(p), keep_last_)

Shape == Types /\ (\A x \in All : Follows(x)) /\ Siblings /\ Rooted

TreeInv == Shape /\ Dictionary /\ Hashes /\ Vectors

-----------------------------------------------------------------------------
(* Walks *)

(* What is reached has the beginning in it, and nothing leads out of it ... *)
LEMMA ReachedIsClosed ==
  ASSUME NEW D, NEW from \in SUBSET D, NEW next \in [D -> SUBSET D]
  PROVE  LET all == Reached(from, next) IN
         /\ all \subseteq D /\ from \subseteq all
         /\ \A x \in all : next[x] \subseteq all
<1>1. DOMAIN next = D
  OBVIOUS
<1>. QED
  BY <1>1 DEF Reached

(* ... it is the least such set. *)
LEMMA ReachedIsLeast ==
  ASSUME NEW D, NEW from \in SUBSET D, NEW next \in [D -> SUBSET D],
         NEW T \in SUBSET D, from \subseteq T, \A x \in T : next[x] \subseteq T
  PROVE  Reached(from, next) \subseteq T
<1>1. DOMAIN next = D
  OBVIOUS
<1>. QED
  BY <1>1 DEF Reached

(* A set of numbers that is not empty has a least one.                      *)
LEMMA LeastNumber ==
  ASSUME NEW T \in SUBSET Nat, T # {}
  PROVE  \E n \in T : \A m \in T : n <= m
<1>1. IsWellFoundedOn(OpToRel(<, Nat), Nat)
  BY NatLessThanWellFounded
<1>2. PICK n \in T : \A m \in T : <<m, n>> \notin OpToRel(<, Nat)
  BY <1>1, WFMin
<1>3. \A m \in T : ~(m < n)
  BY <1>2 DEF OpToRel
<1>. QED
  BY <1>3

-----------------------------------------------------------------------------
(* Urls *)

(* One url, from those of the others, and that those of who are there.      *)
OneUrl(url, given, x) ==
  IF x \in DOMAIN given THEN given[x] ELSE Append(url[parent_[x]], name_[x])
Urls(url, who, given) == url = [x \in who |-> OneUrl(url, given, x)]

(* When parents have shorter urls than their children, those of the lower   *)
(* levels can be computed ...                                               *)
Under(who, n) == {x \in who : Len(url_[x]) < n}

Climbs(who, given) ==
  \A x \in who :
    /\ Len(url_[x]) \in Nat
    /\ x \notin DOMAIN given =>
         parent_[x] \in who /\ Len(url_[parent_[x]]) < Len(url_[x])

(* Two computations agree where both have come to. *)
LEMMA UrlsAreUnique ==
  ASSUME NEW who, NEW given, Climbs(who, given), NEW n \in Nat, NEW m \in Nat,
         NEW f, Urls(f, Under(who, n), given), NEW g, Urls(g, Under(who, m), given)
  PROVE  \A x \in Under(who, n) \cap Under(who, m) : f[x] = g[x]
<1> DEFINE T == {Len(url_[x]) : x \in {y \in Under(who, n) \cap Under(who, m) : f[y] # g[y]}}
<1>1. SUFFICES ASSUME T # {} PROVE FALSE
  OBVIOUS
<1>2. T \in SUBSET Nat
  BY DEF Climbs, Under
<1>3. PICK k \in T : \A j \in T : k <= j
  <2>. HIDE DEF T
  <2>. QED BY <1>1, <1>2, LeastNumber
<1>4. PICK x \in Under(who, n) \cap Under(who, m) : f[x] # g[x] /\ Len(url_[x]) = k
  BY <1>3
<1>5. f[x] = OneUrl(f, given, x) /\ g[x] = OneUrl(g, given, x)
  BY <1>4 DEF Urls
<1>6. /\ x \notin DOMAIN given
      /\ f[parent_[x]] # g[parent_[x]]
  BY <1>4, <1>5 DEF OneUrl
<1>7. /\ parent_[x] \in Under(who, n) \cap Under(who, m)
      /\ Len(url_[parent_[x]]) \in Nat /\ Len(url_[parent_[x]]) < k
  BY <1>4, <1>6 DEF Under, Climbs
<1>8. Len(url_[parent_[x]]) \in T
  BY <1>6, <1>7
<1>. QED
  BY <1>2, <1>3, <1>7, <1>8

(* There is one for each length: level by level. *)
LEMMA UrlsUnderExist ==
  ASSUME NEW who, NEW given, Climbs(who, given), NEW n \in Nat
  PROVE  \E f : Urls(f, Under(who, n), given)
<1> DEFINE T == {k \in Nat : ~\E f : Urls(f, Under(who, k), given)}
<1>1. SUFFICES ASSUME T # {} PROVE FALSE
  OBVIOUS
<1>2. PICK k \in T : \A j \in T : k <= j
  <2>1. T \in SUBSET Nat
    OBVIOUS
  <2>. HIDE DEF T
  <2>. QED BY <1>1, <2>1, LeastNumber
<1>3. k \in Nat /\ ~\E f : Urls(f, Under(who, k), given)
  OBVIOUS
<1>4. k # 0
  <2>1. Under(who, 0) = {}
    BY DEF Under, Climbs
  <2>2. Urls([x \in {} |-> {}], {}, given)
    BY DEF Urls
  <2>. QED BY <2>1, <2>2, <1>3
<1>5. k - 1 \in Nat /\ k - 1 \notin T
  BY <1>2, <1>3, <1>4
<1>6. PICK f : Urls(f, Under(who, k - 1), given)
  BY <1>5
<1> DEFINE g == [x \in Under(who, k) |-> OneUrl(f, given, x)]
<1>7. ASSUME NEW x \in Under(who, k) PROVE OneUrl(g, given, x) = OneUrl(f, given, x)
  <2>1. CASE x \in DOMAIN given
    BY <2>1 DEF OneUrl
  <2>2. CASE x \notin DOMAIN given
    <3>1. parent_[x] \in Under(who, k - 1) /\ parent_[x] \in Under(who, k)
      <4>1. parent_[x] \in who /\ x \in who /\ Len(url_[x]) < k
        BY <2>2 DEF Under, Climbs
      <4>2. /\ Len(url_[x]) \in Nat /\ Len(url_[parent_[x]]) \in Nat
            /\ Len(url_[parent_[x]]) < Len(url_[x])
        BY <4>1, <2>2 DEF Climbs
      <4>. QED BY <4>1, <4>2, <1>3 DEF Under
    <3>2. g[parent_[x]] = OneUrl(f, given, parent_[x])
      BY <3>1
    <3>3. f[parent_[x]] = OneUrl(f, given, parent_[x])
      BY <3>1, <1>6 DEF Urls
    <3>4. g[parent_[x]] = f[parent_[x]]
      BY <3>2, <3>3
    <3>. HIDE DEF g
    <3>. QED BY <2>2, <3>4 DEF OneUrl
  <2>. QED BY <2>1, <2>2
<1>8. Urls(g, Under(who, k), given)
  BY <1>7 DEF Urls
<1>. QED
  BY <1>3, <1>8

(* ... and so all of them: UrlsBelow is what its recursion says.            *)
LEMMA UrlsBelowFits ==
  ASSUME NEW who, NEW given, Climbs(who, given)
  PROVE  Urls(UrlsBelow(who, given), who, given)
<1> DEFINE upTo(n) == CHOOSE f : Urls(f, Under(who, n), given)
           f == [x \in who |-> upTo(Len(url_[x]) + 1)[x]]
<1>1. ASSUME NEW n \in Nat PROVE Urls(upTo(n), Under(who, n), given)
  BY UrlsUnderExist
<1>2. ASSUME NEW x \in who PROVE f[x] = OneUrl(f, given, x)
  <2> DEFINE n == Len(url_[x]) + 1
  <2>1. n \in Nat /\ x \in Under(who, n)
    BY DEF Climbs, Under
  <2>2. f[x] = OneUrl(upTo(n), given, x)
    <3>1. Urls(upTo(n), Under(who, n), given)
      BY <1>1, <2>1
    <3>2. f[x] = upTo(n)[x]
      OBVIOUS
    <3>. HIDE DEF upTo, n
    <3>. QED BY <2>1, <3>1, <3>2 DEF Urls
  <2>3. CASE x \in DOMAIN given
    BY <2>2, <2>3 DEF OneUrl
  <2>4. CASE x \notin DOMAIN given
    <3> DEFINE y == parent_[x]
               m == Len(url_[y]) + 1
    <3>1. /\ y \in who /\ m \in Nat /\ y \in Under(who, m) /\ y \in Under(who, n)
      BY <2>1, <2>4 DEF Climbs, Under
    <3>2. upTo(n)[y] = upTo(m)[y]
      <4>1. Urls(upTo(n), Under(who, n), given) /\ Urls(upTo(m), Under(who, m), given)
        BY <1>1, <2>1, <3>1
      <4>. HIDE DEF upTo, n, m, y
      <4>. QED BY <2>1, <3>1, <4>1, UrlsAreUnique
    <3>3. f[y] = upTo(m)[y]
      BY <3>1
    <3>. HIDE DEF upTo, m, f, n
    <3>. QED BY <2>2, <2>4, <3>2, <3>3 DEF OneUrl
  <2>. QED BY <2>3, <2>4
<1>3. f = [x \in who |-> OneUrl(f, given, x)]
  <2>1. \A x \in who : f[x] = OneUrl(f, given, x)
    BY <1>2
  <2>2. f = [x \in who |-> f[x]]
    OBVIOUS
  <2>. HIDE DEF f
  <2>. QED BY <2>1, <2>2
<1>4. \E url : url = [x \in who |-> IF x \in DOMAIN given THEN given[x]
                                    ELSE Append(url[parent_[x]], name_[x])]
  <2>. HIDE DEF f
  <2>. QED BY <1>3 DEF OneUrl
<1>5. \A url : Urls(url, who, given) <=>
        url = [x \in who |-> IF x \in DOMAIN given THEN given[x]
                             ELSE Append(url[parent_[x]], name_[x])]
  BY DEF Urls, OneUrl
<1>. HIDE DEF f
<1>. QED
  BY <1>4, <1>5 DEF UrlsBelow

-----------------------------------------------------------------------------
(* The tree *)

(* The hash of an object and its children's own parent_ tell the same. *)
LEMMA KidsAreChildren ==
  ASSUME Hashes
  PROVE  \A p \in All : Kids(p) = ChildrenOf(p)
<1>. TAKE p \in All
<1>1. children_[p] = {<<name_[x], x>> : x \in ChildrenOf(p)}
  BY DEF Hashes
<1>2. ASSUME NEW x \in ChildrenOf(p) PROVE x \in Kids(p)
  <2>1. <<name_[x], x>> \in children_[p] /\ <<name_[x], x>>[2] = x
    BY <1>1
  <2>. QED BY <2>1 DEF Kids
<1>3. ASSUME NEW x \in Kids(p) PROVE x \in ChildrenOf(p)
  BY <1>1 DEF Kids
<1>. QED
  BY <1>2, <1>3

(* A child's url is one longer than its parent's. *)
LEMMA LengthsAre ==
  ASSUME Shape, NEW x \in All
  PROVE  /\ Len(url_[x]) \in Nat
         /\ parent_[x] # None => /\ parent_[x] \in All
                                 /\ Len(url_[x]) = Len(url_[parent_[x]]) + 1
<1>1. /\ url_[x] \in Seq(Name) /\ name_[x] \in Name
      /\ parent_[x] # None => parent_[x] \in All /\ url_[parent_[x]] \in Seq(Name)
  BY DEF Shape, Types
<1>2. parent_[x] # None => url_[x] = Append(url_[parent_[x]], name_[x])
  BY DEF Shape, Follows
<1>. QED
  BY <1>1, <1>2

(* What is reached through children comes from the tops through parents.    *)
LEMMA WalkComesDown ==
  ASSUME NEW tops \in SUBSET Obj, NEW next \in [All -> SUBSET All],
         \A p \in All : next[p] \subseteq ChildrenOf(p)
  PROVE  /\ Reached(tops, next) \subseteq Obj
         /\ \A x \in Reached(tops, next) :
              x \in tops \/ (parent_[x] \in Reached(tops, next) /\ x \in next[parent_[x]])
<1> DEFINE all == Reached(tops, next)
           T == {x \in all \cap Obj :
                   x \in tops \/ (parent_[x] \in all /\ x \in next[parent_[x]])}
<1>1. tops \in SUBSET All /\ Obj \subseteq All
  BY DEF All
<1>2. /\ all \subseteq All /\ tops \subseteq all
      /\ \A x \in all : next[x] \subseteq all
  BY <1>1, ReachedIsClosed
<1>. HIDE DEF all
<1>3. /\ T \in SUBSET All /\ tops \subseteq T
      /\ \A x \in T : next[x] \subseteq T
  BY <1>1, <1>2 DEF ChildrenOf
<1>4. Reached(tops, next) \subseteq T
  BY <1>1, <1>3, ReachedIsLeast
<1>. QED
  BY <1>4 DEF all

(* What is below the tops: closed under children, and reached by them only. *)
LEMMA LostIs ==
  ASSUME TreeInv, NEW tops \in SUBSET Obj
  PROVE  /\ Lost(tops) \subseteq Obj /\ tops \subseteq Lost(tops)
         /\ \A x \in Obj : parent_[x] \in Lost(tops) => x \in Lost(tops)
         /\ \A x \in Lost(tops) : x \in tops \/ parent_[x] \in Lost(tops)
<1> DEFINE next == [p \in All |-> Kids(p)]
<1>1. /\ next \in [All -> SUBSET All]
      /\ \A p \in All : next[p] = ChildrenOf(p)
      /\ tops \in SUBSET All /\ Obj \subseteq All
  BY KidsAreChildren DEF TreeInv, ChildrenOf, All
<1>2. Lost(tops) = Reached(tops, next)
  BY DEF Lost
<1>. HIDE DEF next
<1>3. /\ Lost(tops) \subseteq All /\ tops \subseteq Lost(tops)
      /\ \A x \in Lost(tops) : next[x] \subseteq Lost(tops)
  BY <1>1, <1>2, ReachedIsClosed
<1>4. /\ Lost(tops) \subseteq Obj
      /\ \A x \in Lost(tops) : x \in tops \/ parent_[x] \in Lost(tops)
  BY <1>1, <1>2, WalkComesDown
<1>. QED
  BY <1>1, <1>3, <1>4 DEF ChildrenOf

(* What dies is below the tops and not held, and a child of a dead object
   that lives on is held. *)
LEMMA DyingIs ==
  ASSUME TreeInv, NEW tops \in SUBSET Obj
  PROVE  /\ Dying(tops) \subseteq Lost(tops) /\ tops \subseteq Dying(tops)
         /\ \A x \in Dying(tops) :
              x \in tops \/ (parent_[x] \in Dying(tops) /\ x \notin handles)
         /\ \A x \in Obj : parent_[x] \in Dying(tops) => x \in Dying(tops) \/ x \in handles
<1> DEFINE next == [p \in All |-> Kids(p) \ handles]
<1>1. /\ next \in [All -> SUBSET All]
      /\ \A p \in All : next[p] = ChildrenOf(p) \ handles
      /\ tops \in SUBSET All /\ Obj \subseteq All
  BY KidsAreChildren DEF TreeInv, ChildrenOf, All
<1>2. Dying(tops) = Reached(tops, next)
  BY DEF Dying
<1>. HIDE DEF next
<1>3. /\ Dying(tops) \subseteq All /\ tops \subseteq Dying(tops)
      /\ \A x \in Dying(tops) : next[x] \subseteq Dying(tops)
  BY <1>1, <1>2, ReachedIsClosed
<1>4. \A x \in Dying(tops) : x \in tops \/ (parent_[x] \in Dying(tops) /\ x \notin handles)
  BY <1>1, <1>2, WalkComesDown
<1>5. Dying(tops) \subseteq Lost(tops)
  <2>1. /\ Lost(tops) \in SUBSET All /\ tops \subseteq Lost(tops)
        /\ \A x \in Lost(tops) : next[x] \subseteq Lost(tops)
    BY <1>1, LostIs DEF ChildrenOf
  <2>. QED BY <1>1, <1>2, <2>1, ReachedIsLeast
<1>. QED
  BY <1>1, <1>3, <1>4, <1>5 DEF ChildrenOf

(* What is below an object has urls as long as its own or longer. *)
LEMMA LostIsLower ==
  ASSUME TreeInv, NEW tops \in SUBSET Obj, NEW n \in Nat,
         \A t \in tops : n <= Len(url_[t])
  PROVE  \A x \in Lost(tops) : n <= Len(url_[x])
<1> DEFINE T == {x \in Obj : n <= Len(url_[x])}
           next == [p \in All |-> Kids(p)]
<1>1. /\ next \in [All -> SUBSET All]
      /\ \A p \in All : next[p] = ChildrenOf(p)
      /\ tops \in SUBSET All /\ T \in SUBSET All
  BY KidsAreChildren DEF TreeInv, ChildrenOf, All
<1>2. ASSUME NEW x \in T, NEW y \in ChildrenOf(x) PROVE y \in T
  <2>1. y \in Obj /\ parent_[y] = x /\ parent_[y] # None /\ y \in All /\ x \in All
    BY ObjAssumption DEF ChildrenOf, All
  <2>2. Len(url_[x]) \in Nat /\ Len(url_[y]) = Len(url_[x]) + 1
    BY <2>1, LengthsAre DEF TreeInv
  <2>3. n <= Len(url_[x])
    OBVIOUS
  <2>4. n <= Len(url_[y])
    BY <2>2, <2>3
  <2>. QED BY <2>1, <2>4
<1>3. Reached(tops, next) \subseteq T
  <2>1. tops \subseteq T /\ \A x \in T : next[x] \subseteq T
    <3>1. tops \subseteq T
      OBVIOUS
    <3>. HIDE DEF T, next
    <3>. QED BY <1>1, <1>2, <3>1
  <2>. HIDE DEF T, next
  <2>. QED BY <1>1, <2>1, ReachedIsLeast
<1>. QED
  BY <1>3 DEF Lost

-----------------------------------------------------------------------------
(* Names *)

(* find_next_name gives a name. *)
LEMMA NextNameIsName ==
  ASSUME NEW n \in Name
  PROVE  NextName(n) \in Name
<1>1. n.chars \in Seq(Nat) /\ n.suffix \in Nat /\ n = [chars |-> n.chars, suffix |-> n.suffix]
  BY DEF Name
<1>2. CASE n.suffix = 0
  BY <1>1, <1>2 DEF NextName, Name
<1>3. CASE n.suffix # 0
  <2>1. Front(n.chars) \in Seq(Nat)
    BY <1>1 DEF Front
  <2>2. Append(Front(n.chars), n.suffix + 1) \in Seq(Nat)
    BY <1>1, <2>1
  <2>. QED BY <1>3, <2>2 DEF NextName, Name
<1>. QED
  BY <1>2, <1>3

(* The name with which the loop of register_child ends is one that no       *)
(* brother has.                                                             *)
LEMMA FreeNameIsFree ==
  ASSUME NEW n \in Name, NEW taken \in SUBSET Name, FreeName(n, taken) # None
  PROVE  FreeName(n, taken) \in Name \ taken
<1> DEFINE next == [m \in taken |-> {NextName(m)} \cap taken]
           tried == Reached({n} \cap taken, next)
           free == ({n} \cup {NextName(m) : m \in tried}) \ taken
<1>1. tried \subseteq taken
  BY DEF Reached
<1>2. FreeName(n, taken) = IF free = {} THEN None ELSE CHOOSE m \in free : TRUE
  BY DEF FreeName
<1>. HIDE DEF tried
<1>3. free \subseteq Name \ taken
  BY <1>1, NextNameIsName
<1>. QED
  BY <1>2, <1>3

-----------------------------------------------------------------------------
(* Vectors *)

(* The least member of a set of numbers. *)
LEMMA MinIs ==
  ASSUME NEW I \in SUBSET Nat, I # {}
  PROVE  Min(I) \in I /\ \A m \in I : Min(I) <= m
BY LeastNumber DEF Min

(* A sequence without the element at m, in two pieces. *)
LEMMA CutOut ==
  ASSUME NEW S, NEW vec \in Seq(S), NEW m \in DOMAIN vec
  PROVE  /\ SubSeq(vec, 1, m - 1) \o SubSeq(vec, m + 1, Len(vec))
              = [i \in 1..(Len(vec) - 1) |-> vec[IF i < m THEN i ELSE i + 1]]
         /\ SubSeq(vec, 1, m - 1) \o SubSeq(vec, m + 1, Len(vec)) \in Seq(S)
<1>1. DOMAIN vec = 1..Len(vec) /\ Len(vec) \in Nat /\ m \in 1..Len(vec)
  OBVIOUS
<1> DEFINE a == SubSeq(vec, 1, m - 1)
           b == SubSeq(vec, m + 1, Len(vec))
<1>2. /\ a \in Seq(S) /\ Len(a) = m - 1
      /\ \A i \in 1..(m - 1) : a[i] = vec[i]
  BY <1>1
<1>3. /\ b \in Seq(S) /\ Len(b) = Len(vec) - m
      /\ \A i \in 1..(Len(vec) - m) : b[i] = vec[m + i]
  BY <1>1
<1>. HIDE DEF a, b
<1>4. PICK c : c = a \o b
  OBVIOUS
<1>5. /\ c \in Seq(S) /\ Len(c) = Len(vec) - 1
      /\ \A i \in 1..(Len(vec) - 1) :
           c[i] = IF i <= m - 1 THEN a[i] ELSE b[i - (m - 1)]
  <2>1. /\ c \in Seq(S) /\ Len(c) = Len(a) + Len(b)
        /\ \A i \in 1..(Len(a) + Len(b)) :
             c[i] = IF i <= Len(a) THEN a[i] ELSE b[i - Len(a)]
    BY <1>2, <1>3, <1>4, ConcatProperties
  <2>2. Len(a) + Len(b) = Len(vec) - 1
    BY <1>1, <1>2, <1>3
  <2>. QED BY <1>1, <1>2, <2>1, <2>2
<1>6. ASSUME NEW i \in 1..(Len(vec) - 1)
      PROVE  c[i] = vec[IF i < m THEN i ELSE i + 1]
  <2>1. CASE i < m
    <3>1. i \in 1..(m - 1) /\ i <= m - 1
      BY <1>1, <2>1
    <3>. QED BY <1>2, <1>5, <2>1, <3>1
  <2>2. CASE ~(i < m)
    <3>1. i - (m - 1) \in 1..(Len(vec) - m) /\ m + (i - (m - 1)) = i + 1 /\ ~(i <= m - 1)
      BY <1>1, <2>2
    <3>. QED BY <1>3, <1>5, <2>2, <3>1
  <2>. QED BY <2>1, <2>2
<1>7. c = [i \in 1..(Len(vec) - 1) |-> vec[IF i < m THEN i ELSE i + 1]]
  BY <1>1, <1>5, <1>6
<1>. QED
  BY <1>4, <1>5, <1>7 DEF a, b

(* What erasing the first x leaves. *)
LEMMA RemovingFirst ==
  ASSUME NEW S, NEW vec \in Seq(S), NEW x
  PROVE  /\ RemoveFirst(vec, x) \in Seq(S)
         /\ (\A i \in DOMAIN vec : vec[i] # x) => RemoveFirst(vec, x) = vec
         /\ \A m \in DOMAIN vec :
              vec[m] = x /\ (\A i \in DOMAIN vec : vec[i] = x => i = m) =>
                RemoveFirst(vec, x)
                  = [i \in 1..(Len(vec) - 1) |-> vec[IF i < m THEN i ELSE i + 1]]
<1>1. DOMAIN vec = 1..Len(vec) /\ Len(vec) \in Nat
  OBVIOUS
<1>2. CASE \A i \in DOMAIN vec : vec[i] # x
  BY <1>1, <1>2 DEF RemoveFirst
<1>3. CASE ~(\A i \in DOMAIN vec : vec[i] # x)
  <2>1. PICK I : I = {i \in 1..Len(vec) : vec[i] = x}
    OBVIOUS
  <2>2. I \in SUBSET Nat /\ I # {} /\ I \subseteq DOMAIN vec
    BY <1>1, <1>3, <2>1
  <2>3. PICK m : m = Min(I)
    OBVIOUS
  <2>4. m \in I
    BY <2>2, <2>3, MinIs
  <2>5. RemoveFirst(vec, x) = RemoveAt(vec, m)
    BY <1>1, <2>1, <2>2, <2>3 DEF RemoveFirst, SelectInSeq
  <2>6. RemoveFirst(vec, x) = SubSeq(vec, 1, m - 1) \o SubSeq(vec, m + 1, Len(vec))
    BY <2>5 DEF RemoveAt
  <2>7. m \in DOMAIN vec /\ vec[m] = x
    BY <2>1, <2>2, <2>4
  <2>. QED BY <2>6, <2>7, <1>3, CutOut
<1>. QED
  BY <1>2, <1>3

(* A vector in order is in order without one of its objects ... *)
LEMMA RowWithout ==
  ASSUME NEW vec \in Seq(Obj), NEW kids, NEW keep, InRow(vec, kids, keep), NEW x
  PROVE  InRow(RemoveFirst(vec, x), kids \ {x}, keep)
<1>1. DOMAIN vec = 1..Len(vec) /\ Len(vec) \in Nat
  OBVIOUS
<1>2. CASE x \notin kids
  <2>1. RemoveFirst(vec, x) = vec
    BY <1>2, RemovingFirst DEF InRow
  <2>2. kids \ {x} = kids
    BY <1>2
  <2>. QED BY <2>1, <2>2
<1>3. CASE x \in kids
  <2>1. PICK m \in DOMAIN vec : vec[m] = x
    BY <1>3 DEF InRow
  <2> DEFINE at(i) == IF i < m THEN i ELSE i + 1
  <2>2. PICK w : w = RemoveFirst(vec, x)
    OBVIOUS
  <2>3. w = [i \in 1..(Len(vec) - 1) |-> vec[IF i < m THEN i ELSE i + 1]]
    BY <2>1, <2>2, RemovingFirst DEF InRow
  <2>4. /\ DOMAIN w = 1..(Len(vec) - 1)
        /\ \A i \in DOMAIN w : /\ w[i] = vec[at(i)] /\ at(i) \in DOMAIN vec /\ at(i) # m
    BY <1>1, <2>1, <2>3
  <2>5. \A i, j \in DOMAIN w : /\ at(i) = at(j) => i = j
                               /\ i < j => at(i) < at(j)
    BY <1>1, <2>1, <2>4
  <2>6. \A k \in DOMAIN vec : k # m => \E i \in DOMAIN w : at(i) = k
    <3>. SUFFICES ASSUME NEW k \in DOMAIN vec, k # m PROVE \E i \in DOMAIN w : at(i) = k
      OBVIOUS
    <3>1. CASE k < m
      <4>1. k \in DOMAIN w /\ at(k) = k
        BY <1>1, <2>1, <2>4, <3>1
      <4>. QED BY <4>1
    <3>2. CASE k > m
      <4>1. k - 1 \in DOMAIN w /\ at(k - 1) = k
        BY <1>1, <2>1, <2>4, <3>2
      <4>. QED BY <4>1
    <3>. QED BY <1>1, <2>1, <3>1, <3>2
  <2>. HIDE DEF at
  <2>7. \A i, j \in DOMAIN w : w[i] = w[j] => i = j
    BY <2>4, <2>5 DEF InRow
  <2>8. \A i, j \in DOMAIN w : i < j /\ keep[w[i]] => keep[w[j]]
    BY <2>4, <2>5 DEF InRow
  <2>9. \A y : y \in kids \ {x} <=> \E i \in DOMAIN w : w[i] = y
    <3>. TAKE y
    <3>1. ASSUME y \in kids \ {x} PROVE \E i \in DOMAIN w : w[i] = y
      <4>1. PICK k \in DOMAIN vec : vec[k] = y
        BY <3>1 DEF InRow
      <4>2. k # m
        BY <2>1, <3>1, <4>1
      <4>. QED BY <2>4, <2>6, <4>1, <4>2
    <3>2. ASSUME NEW i \in DOMAIN w, w[i] = y PROVE y \in kids \ {x}
      <4>1. vec[at(i)] = y /\ at(i) \in DOMAIN vec /\ at(i) # m
        BY <2>4, <3>2
      <4>. QED BY <2>1, <4>1 DEF InRow
    <3>. QED BY <3>1, <3>2
  <2>. QED BY <2>2, <2>7, <2>8, <2>9 DEF InRow
<1>. QED
  BY <1>2, <1>3

(* ... and with one more, before the first that is kept last or at the end. *)
Widened(vec, k, o) ==
  [i \in 1..(Len(vec) + 1) |-> IF i < k THEN vec[i] ELSE IF i = k THEN o ELSE vec[i - 1]]

(* A row stays one with a child put between those that are not kept last and
   those that are. *)
LEMMA RowWith ==
  ASSUME NEW vec \in Seq(Obj), NEW kids, NEW keep, InRow(vec, kids, keep),
         NEW o, o \notin kids, NEW k \in 1..(Len(vec) + 1),
         \A i \in DOMAIN vec : IF i < k THEN keep[vec[i]] => keep[o]
                                        ELSE keep[o] => keep[vec[i]]
  PROVE  InRow(Widened(vec, k, o), kids \cup {o}, keep)
<1>1. DOMAIN vec = 1..Len(vec) /\ Len(vec) \in Nat
  OBVIOUS
<1> DEFINE from(i) == IF i < k THEN i ELSE i - 1
<1>2. PICK w : w = Widened(vec, k, o)
  OBVIOUS
<1>3. /\ DOMAIN w = 1..(Len(vec) + 1) /\ k \in DOMAIN w /\ w[k] = o
      /\ \A i \in DOMAIN w : i # k => w[i] = vec[from(i)] /\ from(i) \in DOMAIN vec
  BY <1>1, <1>2 DEF Widened
<1>4. \A i, j \in DOMAIN w : i # k /\ j # k =>
        /\ from(i) = from(j) => i = j
        /\ i < j => from(i) < from(j)
  BY <1>1, <1>3
<1>5. \A i \in DOMAIN w : /\ i < k => from(i) < k
                          /\ k < i => ~(from(i) < k)
  BY <1>1, <1>3
<1>6. \A m \in DOMAIN vec : \E i \in DOMAIN w : i # k /\ from(i) = m
  <2>. SUFFICES ASSUME NEW m \in DOMAIN vec PROVE \E i \in DOMAIN w : i # k /\ from(i) = m
    OBVIOUS
  <2>1. CASE m < k
    <3>1. m \in DOMAIN w /\ m # k /\ from(m) = m
      BY <1>1, <1>3, <2>1
    <3>. QED BY <3>1
  <2>2. CASE ~(m < k)
    <3>1. m + 1 \in DOMAIN w /\ m + 1 # k /\ from(m + 1) = m
      BY <1>1, <1>3, <2>2
    <3>. QED BY <3>1
  <2>. QED BY <2>1, <2>2
<1>. HIDE DEF from
<1>7. \A i \in DOMAIN w : i # k => w[i] \in kids /\ w[i] # o
  BY <1>3 DEF InRow
<1>8. \A i, j \in DOMAIN w : w[i] = w[j] => i = j
  BY <1>3, <1>4, <1>7 DEF InRow
<1>9. \A y : y \in kids \cup {o} <=> \E i \in DOMAIN w : w[i] = y
  <2>. TAKE y
  <2>1. ASSUME y \in kids PROVE \E i \in DOMAIN w : w[i] = y
    <3>1. PICK m \in DOMAIN vec : vec[m] = y
      BY <2>1 DEF InRow
    <3>. QED BY <1>3, <1>6, <3>1
  <2>. QED BY <1>3, <1>7, <2>1
<1>10. ASSUME NEW i \in DOMAIN w, NEW j \in DOMAIN w, i < j, keep[w[i]] PROVE keep[w[j]]
  <2>1. CASE i # k /\ j # k
    <3>1. from(i) < from(j) /\ from(i) \in DOMAIN vec /\ from(j) \in DOMAIN vec
      BY <1>3, <1>4, <1>10, <2>1
    <3>. QED BY <1>3, <1>10, <2>1, <3>1 DEF InRow
  <2>2. CASE i = k
    <3>1. j # k /\ k < j
      BY <1>1, <1>3, <1>10, <2>2
    <3>. QED BY <1>3, <1>5, <1>10, <2>2, <3>1
  <2>3. CASE j = k
    <3>1. i # k /\ i < k
      BY <1>1, <1>3, <1>10, <2>3
    <3>. QED BY <1>3, <1>5, <1>10, <2>3, <3>1
  <2>. QED BY <2>1, <2>2, <2>3
<1>. QED
  BY <1>2, <1>8, <1>9, <1>10 DEF InRow

(* InsertAt widens the sequence. *)
LEMMA InsertingAt ==
  ASSUME NEW S, NEW vec \in Seq(S), NEW o \in S, NEW k \in DOMAIN vec
  PROVE  InsertAt(vec, k, o) = Widened(vec, k, o) /\ InsertAt(vec, k, o) \in Seq(S)
<1>1. DOMAIN vec = 1..Len(vec) /\ Len(vec) \in Nat /\ k \in 1..Len(vec)
  OBVIOUS
<1> DEFINE a == SubSeq(vec, 1, k - 1)
           b == SubSeq(vec, k, Len(vec))
<1>2. /\ a \in Seq(S) /\ Len(a) = k - 1
      /\ \A i \in 1..(k - 1) : a[i] = vec[i]
  BY <1>1
<1>3. /\ b \in Seq(S) /\ Len(b) = Len(vec) - k + 1
      /\ \A i \in 1..(Len(vec) - k + 1) : b[i] = vec[k + i - 1]
  BY <1>1
<1>. HIDE DEF a, b
<1>4. PICK c : c = a \o <<o>>
  OBVIOUS
<1>5. /\ c \in Seq(S) /\ Len(c) = k /\ c[k] = o
      /\ \A i \in 1..(k - 1) : c[i] = vec[i]
  <2>1. c = Append(a, o)
    BY <1>2, <1>4, AppendIsConcat
  <2>2. /\ c \in Seq(S) /\ Len(c) = Len(a) + 1
        /\ \A i \in 1..Len(a) : c[i] = a[i]
        /\ c[Len(a) + 1] = o
    BY <1>2, <2>1, AppendProperties
  <2>3. Len(a) + 1 = k
    BY <1>1, <1>2
  <2>. QED BY <1>2, <2>2, <2>3
<1>6. PICK d : d = c \o b
  OBVIOUS
<1>7. /\ d \in Seq(S) /\ Len(d) = Len(vec) + 1
      /\ \A i \in 1..(Len(vec) + 1) : d[i] = IF i <= k THEN c[i] ELSE b[i - k]
  <2>1. /\ d \in Seq(S) /\ Len(d) = Len(c) + Len(b)
        /\ \A i \in 1..(Len(c) + Len(b)) :
             d[i] = IF i <= Len(c) THEN c[i] ELSE b[i - Len(c)]
    BY <1>3, <1>5, <1>6, ConcatProperties
  <2>2. Len(c) + Len(b) = Len(vec) + 1
    BY <1>1, <1>3, <1>5
  <2>. QED BY <1>1, <1>5, <2>1, <2>2
<1>8. ASSUME NEW i \in 1..(Len(vec) + 1)
      PROVE  d[i] = IF i < k THEN vec[i] ELSE IF i = k THEN o ELSE vec[i - 1]
  <2>1. CASE i < k
    <3>1. i \in 1..(k - 1) /\ i <= k
      BY <1>1, <2>1
    <3>. QED BY <1>5, <1>7, <2>1, <3>1
  <2>2. CASE i = k
    <3>1. i <= k /\ ~(i < k)
      BY <1>1, <2>2
    <3>. QED BY <1>5, <1>7, <2>2, <3>1
  <2>3. CASE i > k
    <3>1. i - k \in 1..(Len(vec) - k + 1) /\ k + (i - k) - 1 = i - 1 /\ ~(i <= k) /\ ~(i < k) /\ i # k
      BY <1>1, <2>3
    <3>. QED BY <1>3, <1>7, <3>1
  <2>. QED BY <1>1, <2>1, <2>2, <2>3
<1>9. d = Widened(vec, k, o)
  BY <1>1, <1>7, <1>8 DEF Widened
<1>10. d = InsertAt(vec, k, o)
  BY <1>4, <1>6 DEF InsertAt, a, b
<1>. QED
  BY <1>7, <1>9, <1>10

(* Where register_child puts the child. *)
LEMMA VectorWithIs ==
  ASSUME NEW vec \in Seq(Obj), NEW o \in Obj, NEW kept \in [Obj -> BOOLEAN]
  PROVE  \E k \in 1..(Len(vec) + 1) :
           /\ VectorWith(vec, o, kept) = Widened(vec, k, o)
           /\ VectorWith(vec, o, kept) \in Seq(Obj)
           /\ \/ /\ k = Len(vec) + 1
                 /\ (kept[o] \/ vec = <<>> \/ ~kept[vec[Len(vec)]])
              \/ /\ ~kept[o] /\ k \in DOMAIN vec /\ kept[vec[k]]
                 /\ \A i \in DOMAIN vec : i < k => ~kept[vec[i]]
<1>1. DOMAIN vec = 1..Len(vec) /\ Len(vec) \in Nat
  OBVIOUS
<1>2. CASE kept[o] \/ vec = <<>> \/ ~kept[Last(vec)]
  <2>1. VectorWith(vec, o, kept) = Append(vec, o)
    BY <1>2 DEF VectorWith
  <2>2. PICK w : w = Append(vec, o)
    OBVIOUS
  <2>3. /\ w \in Seq(Obj) /\ Len(w) = Len(vec) + 1
        /\ \A i \in 1..Len(vec) : w[i] = vec[i]
        /\ w[Len(vec) + 1] = o
    BY <2>2, AppendProperties
  <2>4. w = Widened(vec, Len(vec) + 1, o)
    BY <1>1, <2>3 DEF Widened
  <2>5. Len(vec) + 1 \in 1..(Len(vec) + 1)
    BY <1>1
  <2>6. kept[o] \/ vec = <<>> \/ ~kept[vec[Len(vec)]]
    BY <1>2 DEF Last
  <2>. QED BY <2>1, <2>2, <2>3, <2>4, <2>5, <2>6
<1>3. CASE ~(kept[o] \/ vec = <<>> \/ ~kept[Last(vec)])
  <2>1. PICK I : I = {i \in 1..Len(vec) : kept[vec[i]]}
    OBVIOUS
  <2>2. Len(vec) \in 1..Len(vec) /\ kept[vec[Len(vec)]]
    <3>1. Len(vec) # 0
      BY <1>3, EmptySeq
    <3>. QED BY <1>1, <1>3, <3>1 DEF Last
  <2>3. I \in SUBSET Nat /\ I # {}
    BY <1>1, <2>1, <2>2
  <2>4. PICK k : k = Min(I)
    OBVIOUS
  <2>5. k \in I /\ \A m \in I : k <= m
    BY <2>3, <2>4, MinIs
  <2>6. SelectInSeq(vec, LAMBDA x : kept[x]) = k
    BY <2>1, <2>3, <2>4 DEF SelectInSeq
  <2>7. VectorWith(vec, o, kept) = InsertAt(vec, k, o)
    BY <1>3, <2>6 DEF VectorWith
  <2>8. k \in DOMAIN vec /\ k \in 1..(Len(vec) + 1) /\ kept[vec[k]]
    BY <1>1, <2>1, <2>5
  <2>9. \A i \in DOMAIN vec : i < k => ~kept[vec[i]]
    BY <1>1, <2>1, <2>5, <2>8
  <2>10. InsertAt(vec, k, o) = Widened(vec, k, o) /\ InsertAt(vec, k, o) \in Seq(Obj)
    BY <2>8, InsertingAt
  <2>. QED BY <1>3, <2>7, <2>8, <2>9, <2>10
<1>. QED
  BY <1>2, <1>3

(* ... and that it is the right place, if it reads the keep_last_ of all the
   children there. *)
LEMMA RowWithChild ==
  ASSUME NEW vec \in Seq(Obj), NEW kids, NEW keep \in [Obj -> BOOLEAN], InRow(vec, kids, keep),
         NEW o \in Obj, o \notin kids, NEW kept \in [Obj -> BOOLEAN],
         \A y \in kids \cup {o} : kept[y] = keep[y]
  PROVE  InRow(VectorWith(vec, o, kept), kids \cup {o}, keep)
<1>1. DOMAIN vec = 1..Len(vec) /\ Len(vec) \in Nat
  OBVIOUS
<1>2. PICK k \in 1..(Len(vec) + 1) :
           /\ VectorWith(vec, o, kept) = Widened(vec, k, o)
           /\ VectorWith(vec, o, kept) \in Seq(Obj)
           /\ \/ /\ k = Len(vec) + 1
                 /\ (kept[o] \/ vec = <<>> \/ ~kept[vec[Len(vec)]])
              \/ /\ ~kept[o] /\ k \in DOMAIN vec /\ kept[vec[k]]
                 /\ \A i \in DOMAIN vec : i < k => ~kept[vec[i]]
  BY VectorWithIs, ZenonT(60)
<1>3. \A i \in DOMAIN vec : vec[i] \in kids /\ vec[i] \in Obj /\ keep[vec[i]] = kept[vec[i]]
  BY DEF InRow
<1>4. \A i, j \in DOMAIN vec : i < j /\ kept[vec[i]] => kept[vec[j]]
  BY <1>3 DEF InRow
<1>5. ASSUME NEW i \in DOMAIN vec
      PROVE  IF i < k THEN keep[vec[i]] => keep[o] ELSE keep[o] => keep[vec[i]]
  <2>1. CASE k = Len(vec) + 1 /\ kept[o]
    BY <1>1, <2>1
  <2>2. CASE k = Len(vec) + 1 /\ vec = <<>>
    BY <1>1, <2>2
  <2>3. CASE k = Len(vec) + 1 /\ ~kept[vec[Len(vec)]]
    <3>1. Len(vec) \in DOMAIN vec /\ (i = Len(vec) \/ i < Len(vec)) /\ i < k
      BY <1>1, <2>3
    <3>2. ~kept[vec[i]]
      BY <1>4, <2>3, <3>1
    <3>. QED BY <1>3, <3>1, <3>2
  <2>4. CASE /\ ~kept[o] /\ k \in DOMAIN vec /\ kept[vec[k]]
             /\ \A m \in DOMAIN vec : m < k => ~kept[vec[m]]
    BY <1>3, <2>4
  <2>. QED BY <1>2, <2>1, <2>2, <2>3, <2>4
<1>. QED
  BY <1>2, <1>5, RowWith

-----------------------------------------------------------------------------
(* moved() *)

(* Everything below an object that exists exists. *)
LEMMA LostLives ==
  ASSUME TreeInv, NEW tops \in SUBSET (Obj \cap live)
  PROVE  Lost(tops) \subseteq live
<1>1. \A x \in Lost(tops) : x \in Obj /\ (x \in tops \/ parent_[x] \in Lost(tops))
  BY LostIs
<1>2. \A x \in Obj : parent_[x] # None => x \in live
  BY DEF TreeInv, Shape, Follows, All
<1>3. None \notin Lost(tops)
  BY <1>1, ObjAssumption
<1>. QED
  BY <1>1, <1>2, <1>3

(* The urls moved() gives: each its parent's and the own name. *)
LEMMA MovedUrlsFit ==
  ASSUME TreeInv, NEW o \in Obj, NEW u \in Seq(Name), u # <<>>
  PROVE  /\ DOMAIN MovedUrls(o, u) = Lost({o})
         /\ MovedUrls(o, u)[o] = u
         /\ \A x \in Lost({o}) \ {o} :
              /\ parent_[x] \in Lost({o})
              /\ MovedUrls(o, u)[x] = Append(MovedUrls(o, u)[parent_[x]], name_[x])
         /\ \A x \in Lost({o}) :
              MovedUrls(o, u)[x] \in Seq(Name) /\ MovedUrls(o, u)[x] # <<>>
<1> DEFINE who == Lost({o})
           given == [x \in {o} |-> u]
<1>1. PICK urls : urls = MovedUrls(o, u)
  OBVIOUS
<1>2. urls = UrlsBelow(who, given)
  BY <1>1 DEF MovedUrls, Lost, Subtree
<1>3. /\ who \subseteq Obj /\ o \in who /\ None \notin who
      /\ \A x \in Obj : parent_[x] \in who => x \in who
      /\ \A x \in who : x = o \/ parent_[x] \in who
  BY LostIs, ObjAssumption
<1>4. DOMAIN given = {o} /\ given[o] = u
  OBVIOUS
<1>. HIDE DEF who, given
<1>5. Climbs(who, given)
  <2>. SUFFICES ASSUME NEW x \in who
                PROVE  /\ Len(url_[x]) \in Nat
                       /\ x \notin DOMAIN given =>
                            /\ parent_[x] \in who
                            /\ Len(url_[parent_[x]]) < Len(url_[x])
    BY DEF Climbs
  <2>1. x \in All /\ Shape
    BY <1>3 DEF All, TreeInv
  <2>2. /\ Len(url_[x]) \in Nat
        /\ parent_[x] # None => /\ parent_[x] \in All
                                /\ Len(url_[x]) = Len(url_[parent_[x]]) + 1
    BY <2>1, LengthsAre
  <2>3. parent_[x] # None => Len(url_[parent_[x]]) \in Nat
    BY <2>1, <2>2, LengthsAre
  <2>. QED BY <1>3, <1>4, <2>2, <2>3
<1>6. urls = [x \in who |-> OneUrl(urls, given, x)]
  BY <1>2, <1>5, UrlsBelowFits DEF Urls
<1>7. /\ DOMAIN urls = who /\ urls[o] = u
      /\ \A x \in who \ {o} : urls[x] = Append(urls[parent_[x]], name_[x])
  BY <1>3, <1>4, <1>6 DEF OneUrl
<1>8. \A x \in who : urls[x] \in Seq(Name) /\ urls[x] # <<>>
  <2> DEFINE T == {x \in who : urls[x] \in Seq(Name) /\ urls[x] # <<>>}
             next == [p \in All |-> Kids(p)]
  <2>1. ASSUME NEW x \in T, NEW y \in Obj, parent_[y] = x PROVE y \in T
    <3>1. y \in who
      BY <1>3, <2>1
    <3>2. CASE y = o
      BY <1>7, <3>1, <3>2
    <3>3. CASE y # o
      <4>1. urls[y] = Append(urls[x], name_[y])
        BY <1>7, <2>1, <3>1, <3>3
      <4>2. urls[x] \in Seq(Name) /\ name_[y] \in Name
        BY DEF TreeInv, Shape, Types, All
      <4>3. urls[y] \in Seq(Name) /\ urls[y] # <<>>
        BY <4>1, <4>2, AppendProperties
      <4>. QED BY <3>1, <4>3
    <3>. QED BY <3>2, <3>3
  <2>2. /\ next \in [All -> SUBSET All] /\ \A x \in All : next[x] = ChildrenOf(x)
        /\ T \subseteq All /\ {o} \subseteq T /\ {o} \in SUBSET All
    BY <1>3, <1>7, KidsAreChildren DEF TreeInv, ChildrenOf, All
  <2>3. \A x \in T : next[x] \subseteq T
    BY <2>1, <2>2 DEF ChildrenOf
  <2>4. who = Reached({o}, next)
    BY DEF who, Lost
  <2>. HIDE DEF T, next
  <2>5. who \subseteq T
    BY <2>2, <2>3, <2>4, ReachedIsLeast
  <2>. QED BY <2>5 DEF T
<1>. QED
  BY <1>1, <1>3, <1>7, <1>8 DEF who

(* What moved() does to the urls and to the Root's dictionary. *)
MovedWell(o, u, hasRoot) ==
  /\ url_' \in [All -> Seq(Name)] /\ url_'[o] = u
  /\ \A x \in All \ Lost({o}) : url_'[x] = url_[x]
  /\ \A x \in Lost({o}) : url_'[x] # <<>>
  /\ \A x \in Lost({o}) \ {o} :
       parent_[x] \in Lost({o}) /\ url_'[x] = Append(url_'[parent_[x]], name_[x])
  /\ rooted' = IF hasRoot THEN rooted \cup Lost({o}) ELSE rooted \ Lost({o})
  /\ objects_' \subseteq Answering'
  /\ clears = 0 /\ (\A x, y \in rooted' : url_'[x] = url_'[y] => x = y)
       => objects_' = Answering'

LEMMA MovedKeeps ==
  ASSUME TreeInv, NEW o \in Obj \cap live, NEW u \in Seq(Name), u # <<>>,
         NEW hasRoot \in BOOLEAN, Moved(o, u, hasRoot)
  PROVE  MovedWell(o, u, hasRoot)
<1>1. PICK who : who = Lost({o})
  OBVIOUS
<1>2. PICK urls :
        /\ urls = MovedUrls(o, u)
        /\ url_' = [x \in All |-> IF x \in DOMAIN urls THEN urls[x] ELSE url_[x]]
        /\ rooted' = IF hasRoot THEN rooted \cup DOMAIN urls ELSE rooted \ DOMAIN urls
        /\ objects_' =
             IF hasRoot
             THEN {e \in {d \in objects_ : d[2] \notin DOMAIN urls} :
                     e[1] \notin {urls[x] : x \in DOMAIN urls}}
                  \cup {<<urls[x], x>> : x \in DOMAIN urls}
             ELSE {d \in objects_ : d[2] \notin DOMAIN urls}
  BY DEF Moved
<1>3. /\ DOMAIN urls = who /\ urls[o] = u
      /\ \A x \in who \ {o} :
           parent_[x] \in who /\ urls[x] = Append(urls[parent_[x]], name_[x])
      /\ \A x \in who : urls[x] \in Seq(Name) /\ urls[x] # <<>>
  <2>1. /\ DOMAIN MovedUrls(o, u) = Lost({o})
        /\ MovedUrls(o, u)[o] = u
        /\ \A x \in Lost({o}) \ {o} :
              /\ parent_[x] \in Lost({o})
              /\ MovedUrls(o, u)[x] = Append(MovedUrls(o, u)[parent_[x]], name_[x])
        /\ \A x \in Lost({o}) :
              MovedUrls(o, u)[x] \in Seq(Name) /\ MovedUrls(o, u)[x] # <<>>
    <3>1. o \in Obj
      OBVIOUS
    <3>. QED BY <3>1, MovedUrlsFit
  <2>2. urls = MovedUrls(o, u) /\ who = Lost({o})
    BY <1>1, <1>2
  <2>. QED BY <2>1, <2>2
<1>4. /\ url_' = [x \in All |-> IF x \in who THEN urls[x] ELSE url_[x]]
      /\ rooted' = IF hasRoot THEN rooted \cup who ELSE rooted \ who
  BY <1>2, <1>3
<1>5. /\ who \subseteq Obj /\ o \in who /\ who \subseteq All /\ Obj \subseteq All
      /\ rooted \subseteq All /\ url_ \in [All -> Seq(Name)]
  BY <1>1, LostIs DEF All, TreeInv, Shape, Types
<1>6. /\ url_' \in [All -> Seq(Name)]
      /\ \A x \in who : url_'[x] = urls[x]
      /\ \A x \in All \ who : url_'[x] = url_[x]
  BY <1>3, <1>4, <1>5
<1>7. /\ \A x \in who : url_'[x] # <<>>
      /\ \A x \in who \ {o} :
           parent_[x] \in who /\ url_'[x] = Append(url_'[parent_[x]], name_[x])
      /\ url_'[o] = u
  BY <1>3, <1>5, <1>6
<1>8. \A e : e \in objects_' <=>
              \/ /\ e \in objects_ /\ e[2] \notin who
                 /\ hasRoot => \A x \in who : e[1] # urls[x]
              \/ hasRoot /\ \E x \in who : e = <<urls[x], x>>
  BY <1>2, <1>3
<1>9. ASSUME NEW e \in objects_' PROVE e \in Answering'
  <2>1. CASE e \in objects_ /\ e[2] \notin who
    <3>1. PICK x \in rooted : e = <<url_[x], x>>
      BY <2>1 DEF TreeInv, Dictionary, Answering
    <3>2. e[2] = x
      BY <3>1
    <3>3. x \in rooted' /\ url_'[x] = url_[x]
      BY <1>4, <1>5, <1>6, <2>1, <3>2
    <3>. QED BY <3>1, <3>3 DEF Answering
  <2>2. CASE hasRoot /\ \E x \in who : e = <<urls[x], x>>
    <3>1. PICK x \in who : e = <<urls[x], x>>
      BY <2>2
    <3>2. x \in rooted' /\ url_'[x] = urls[x]
      BY <1>4, <1>6, <2>2
    <3>. QED BY <3>1, <3>2 DEF Answering
  <2>. QED BY <1>8, <2>1, <2>2
<1>10. ASSUME clears = 0, \A x, y \in rooted' : url_'[x] = url_'[y] => x = y,
              NEW x \in rooted'
       PROVE  <<url_'[x], x>> \in objects_'
  <2>1. CASE x \in who
    <3>1. hasRoot
      BY <1>4, <1>10, <2>1
    <3>2. <<url_'[x], x>> = <<urls[x], x>>
      BY <1>6, <2>1
    <3>3. \E y \in who : <<url_'[x], x>> = <<urls[y], y>>
      BY <2>1, <3>2
    <3>. QED BY <1>8, <3>1, <3>3
  <2>2. CASE x \notin who
    <3>1. x \in rooted /\ x \in All /\ url_'[x] = url_[x]
      BY <1>4, <1>5, <1>6, <1>10, <2>2
    <3>2. <<url_[x], x>> \in objects_ /\ <<url_[x], x>>[2] \notin who
      BY <1>10, <2>2, <3>1 DEF TreeInv, Dictionary, Answering
    <3>3. hasRoot => \A y \in who : <<url_[x], x>>[1] # urls[y]
      BY <1>4, <1>6, <1>10, <2>2, <3>1
    <3>. QED BY <1>8, <3>1, <3>2, <3>3
  <2>. QED BY <2>1, <2>2
<1>11. objects_' \subseteq Answering'
  BY <1>9
<1>12. ASSUME clears = 0, \A x, y \in rooted' : url_'[x] = url_'[y] => x = y
       PROVE  objects_' = Answering'
  <2>1. \A x \in rooted' : <<url_'[x], x>> \in objects_'
    BY <1>10, <1>12
  <2>2. Answering' = {<<url_'[x], x>> : x \in rooted'}
    BY DEF Answering
  <2>. QED BY <1>11, <2>1, <2>2
<1>13. /\ url_' \in [All -> Seq(Name)] /\ url_'[o] = u
       /\ \A x \in All \ who : url_'[x] = url_[x]
       /\ \A x \in who : url_'[x] # <<>>
       /\ \A x \in who \ {o} :
            parent_[x] \in who /\ url_'[x] = Append(url_'[parent_[x]], name_[x])
       /\ rooted' = IF hasRoot THEN rooted \cup who ELSE rooted \ who
  BY <1>4, <1>6, <1>7
<1>. HIDE DEF Answering
<1>. QED
  BY <1>1, <1>11, <1>12, <1>13 DEF MovedWell

(* Two objects of the Root never have the same url. *)
UrlsDiffer == \A x, y \in rooted : url_[x] = url_[y] => x = y

(* Append loses nothing. *)
LEMMA AppendsDiffer ==
  ASSUME NEW S, NEW a \in Seq(S), NEW b \in Seq(S), NEW m \in S, NEW n \in S,
         Append(a, m) = Append(b, n)
  PROVE  a = b /\ m = n
<1>1. /\ Front(Append(a, m)) = a /\ Last(Append(a, m)) = m
      /\ Front(Append(b, n)) = b /\ Last(Append(b, n)) = n
  BY DEF Front, Last
<1>. QED
  BY <1>1

LEMMA RootedUrlsDiffer == Shape /\ clears = 0 => UrlsDiffer
<1>. SUFFICES ASSUME Shape, clears = 0 PROVE UrlsDiffer
  OBVIOUS
<1> DEFINE doubled == {x \in rooted : \E y \in rooted : url_[x] = url_[y] /\ x # y}
           T == {Len(url_[x]) : x \in doubled}
<1>1. SUFFICES ASSUME T # {} PROVE FALSE
  BY DEF UrlsDiffer
<1>2. rooted \subseteq All /\ Root \in All
  BY DEF Shape, Types
<1>3. T \in SUBSET Nat
  BY <1>2, LengthsAre
<1>4. PICK k \in T : \A j \in T : k <= j
  <2>. HIDE DEF T
  <2>. QED BY <1>1, <1>3, LeastNumber
<1>5. PICK x \in rooted, y \in rooted : url_[x] = url_[y] /\ x # y /\ Len(url_[x]) = k
  BY <1>4
<1>6. \A z \in rooted : z # Root =>
        /\ z \in Obj /\ parent_[z] # None /\ parent_[z] \in rooted
        /\ url_[z] = Append(url_[parent_[z]], name_[z])
        /\ url_[parent_[z]] # <<>>
  BY <1>2 DEF Shape, Types, Rooted, Follows
<1>7. \A z \in rooted : z # Root =>
        /\ Len(url_[parent_[z]]) \in Nat \ {0}
        /\ Len(url_[z]) = Len(url_[parent_[z]]) + 1
  <2>. SUFFICES ASSUME NEW z \in rooted, z # Root
                PROVE  /\ Len(url_[parent_[z]]) \in Nat \ {0}
                       /\ Len(url_[z]) = Len(url_[parent_[z]]) + 1
    OBVIOUS
  <2>1. parent_[z] # None /\ parent_[z] \in All /\ url_[parent_[z]] # <<>>
    BY <1>2, <1>6
  <2>2. url_[parent_[z]] \in Seq(Name)
    BY <2>1 DEF Shape, Types
  <2>3. Len(url_[z]) = Len(url_[parent_[z]]) + 1
    BY <1>2, <2>1, LengthsAre
  <2>. QED BY <2>1, <2>2, <2>3
<1>8. Len(url_[Root]) = 1
  BY DEF Shape, Rooted
<1>9. x # Root /\ y # Root
  <2>. HIDE DEF T, doubled
  <2>1. \A z \in rooted : z # Root => Len(url_[z]) # Len(url_[Root])
    <3>1. ASSUME NEW z \in rooted, z # Root PROVE Len(url_[z]) # Len(url_[Root])
      <4>1. /\ Len(url_[parent_[z]]) \in Nat \ {0}
            /\ Len(url_[z]) = Len(url_[parent_[z]]) + 1
        BY <1>7, <3>1
      <4>. QED BY <1>8, <4>1
    <3>. QED BY <3>1
  <2>2. Len(url_[x]) = Len(url_[y])
    BY <1>5
  <2>3. (x = Root \/ y = Root) => Len(url_[x]) = Len(url_[Root])
    BY <2>2
  <2>. QED BY <1>5, <2>1, <2>2, <2>3
<1>10. url_[parent_[x]] = url_[parent_[y]] /\ name_[x] = name_[y]
  <2>1. /\ url_[parent_[x]] \in Seq(Name) /\ url_[parent_[y]] \in Seq(Name)
        /\ name_[x] \in Name /\ name_[y] \in Name
    BY <1>2, <1>6, <1>9 DEF Shape, Types
  <2>2. Append(url_[parent_[x]], name_[x]) = Append(url_[parent_[y]], name_[y])
    BY <1>5, <1>6, <1>9
  <2>. QED BY <2>1, <2>2, AppendsDiffer, SMTT(30)
<1>11. parent_[x] = parent_[y]
  <2>1. SUFFICES ASSUME parent_[x] # parent_[y] PROVE FALSE
    OBVIOUS
  <2>2. parent_[x] \in doubled
    BY <1>6, <1>9, <1>10, <2>1
  <2>3. Len(url_[parent_[x]]) \in T
    BY <2>2
  <2>. HIDE DEF T
  <2>. QED BY <1>3, <1>4, <1>5, <1>7, <1>9, <2>3
<1>. QED
  BY <1>5, <1>6, <1>9, <1>10, <1>11 DEF Shape, Siblings

(* An object that has moved below p (None: nowhere), under the name n.      *)
MovesTo(o, p, n, k, u, hasRoot) ==
  /\ Moved(o, u, hasRoot)
  /\ parent_' = [parent_ EXCEPT ![o] = p] /\ name_' = [name_ EXCEPT ![o] = n]
  /\ keep_last_' = [keep_last_ EXCEPT ![o] = k]
  /\ live' = live /\ handles' = handles /\ clears' = clears /\ hung' = hung
  /\ owner' \in [Obj -> {None, "user", "tree"}]
  /\ children_vector_' \in [All -> Seq(Obj)]
  /\ p = None => ~hasRoot
  /\ p # None =>
       /\ p \in live /\ p \notin Lost({o}) /\ u = Append(url_[p], n)
       /\ hasRoot = (p \in rooted)
       /\ \A x \in ChildrenOf(p) : x # o => name_[x] # n

LEMMA MovedShape ==
  ASSUME TreeInv, NEW o \in Obj, o \in live, NEW p \in All \cup {None}, NEW n \in Name,
         NEW k \in BOOLEAN, NEW u \in Seq(Name), u # <<>>, NEW hasRoot \in BOOLEAN,
         MovesTo(o, p, n, k, u, hasRoot)
  PROVE  Shape' /\ Dictionary'
<1>. USE DEF MovesTo
<1>1. PICK who : who = Lost({o})
  OBVIOUS
<1>2. /\ who \subseteq Obj /\ o \in who
      /\ \A x \in Obj : parent_[x] \in who => x \in who
      /\ who \subseteq live
  BY <1>1, LostIs, LostLives
<1>3. /\ url_' \in [All -> Seq(Name)] /\ url_'[o] = u
      /\ \A x \in All \ who : url_'[x] = url_[x]
      /\ \A x \in who : url_'[x] # <<>>
      /\ \A x \in who \ {o} :
           parent_[x] \in who /\ url_'[x] = Append(url_'[parent_[x]], name_[x])
      /\ rooted' = IF hasRoot THEN rooted \cup who ELSE rooted \ who
      /\ objects_' \subseteq Answering'
      /\ clears = 0 /\ (\A x, y \in rooted' : url_'[x] = url_'[y] => x = y)
           => objects_' = Answering'
  <2>1. o \in Obj \cap live
    OBVIOUS
  <2>2. MovedWell(o, u, hasRoot)
    BY <2>1, MovedKeeps
  <2>. QED BY <1>1, <2>2 DEF MovedWell
<1>4. /\ Types /\ Siblings /\ Rooted /\ \A x \in All : Follows(x)
      /\ Obj \subseteq All /\ Root \in All /\ Root \notin Obj /\ None \notin All
  BY ObjAssumption DEF TreeInv, Shape, All
<1>5. /\ parent_'[o] = p /\ name_'[o] = n
      /\ \A x \in All : x # o => parent_'[x] = parent_[x] /\ name_'[x] = name_[x]
  BY <1>4 DEF Types
<1>6. Types'
  <2>1. rooted' \subseteq live'
    BY <1>2, <1>3, <1>4 DEF Types
  <2>2. /\ parent_' \in [All -> All \cup {None}] /\ name_' \in [All -> Name]
        /\ keep_last_' \in [Obj -> BOOLEAN]
    BY <1>4 DEF Types
  <2>. QED BY <1>3, <1>4, <2>1, <2>2 DEF Types
<1>7. ASSUME NEW x \in All, parent_'[x] # None
      PROVE  /\ x \in live \cap Obj /\ parent_'[x] \in live
             /\ url_'[x] = Append(url_'[parent_'[x]], name_'[x])
             /\ (x \in rooted' <=> parent_'[x] \in rooted')
  <2>1. CASE x = o
    <3>1. p # None /\ p \in live /\ p \in All /\ p \notin who
      BY <1>1, <1>5, <1>7, <2>1
    <3>2. url_'[p] = url_[p] /\ (p \in rooted' <=> p \in rooted)
      BY <1>3, <3>1
    <3>3. x \in rooted' <=> hasRoot
      BY <1>2, <1>3, <2>1
    <3>. QED BY <1>3, <1>5, <2>1, <3>1, <3>2, <3>3, ZenonT(60)
  <2>2. CASE x \in who /\ x # o
    <3>1. /\ parent_'[x] = parent_[x] /\ name_'[x] = name_[x]
          /\ parent_[x] \in who /\ url_'[x] = Append(url_'[parent_[x]], name_[x])
      BY <1>3, <1>5, <2>2
    <3>2. x \in rooted' <=> parent_[x] \in rooted'
      BY <1>3, <2>2, <3>1
    <3>. QED BY <1>2, <2>2, <3>1, <3>2
  <2>3. CASE x \notin who
    <3>1. x # o /\ parent_'[x] = parent_[x] /\ name_'[x] = name_[x]
      BY <1>2, <1>5, <2>3
    <3>2. /\ x \in live \cap Obj /\ parent_[x] \in live
          /\ url_[x] = Append(url_[parent_[x]], name_[x])
          /\ (x \in rooted <=> parent_[x] \in rooted)
      BY <1>4, <1>7, <3>1 DEF Follows
    <3>3. parent_[x] \notin who /\ parent_[x] \in All
      BY <1>2, <1>4, <2>3, <3>2 DEF Types
    <3>4. /\ url_'[x] = url_[x] /\ url_'[parent_[x]] = url_[parent_[x]]
          /\ (x \in rooted' <=> x \in rooted)
          /\ (parent_[x] \in rooted' <=> parent_[x] \in rooted)
      BY <1>3, <2>3, <3>3
    <3>. QED BY <3>1, <3>2, <3>4
  <2>. QED BY <2>1, <2>2, <2>3
<1>8. \A x \in All : Follows(x)'
  BY <1>7 DEF Follows
<1>9. Siblings'
  <2>. SUFFICES ASSUME NEW x \in Obj, NEW y \in Obj, parent_'[x] # None,
                       parent_'[x] = parent_'[y], name_'[x] = name_'[y], x # y
                PROVE  FALSE
    BY DEF Siblings
  <2>1. CASE x = o
    <3>1. parent_[y] = p /\ name_[y] = n /\ p # None
      BY <1>4, <1>5, <2>1
    <3>. QED BY <2>1, <3>1 DEF ChildrenOf
  <2>2. CASE y = o
    <3>1. parent_[x] = p /\ name_[x] = n /\ p # None
      BY <1>4, <1>5, <2>2
    <3>. QED BY <2>2, <3>1 DEF ChildrenOf
  <2>3. CASE x # o /\ y # o
    BY <1>4, <1>5, <2>3 DEF Siblings
  <2>. QED BY <2>1, <2>2, <2>3
<1>10. Rooted'
  <2>1. Root \notin who /\ Root # o
    BY <1>2, <1>4
  <2>2. Root \in rooted' /\ parent_'[Root] = None /\ url_'[Root] = <<RootName>>
    BY <1>3, <1>4, <1>5, <2>1 DEF Rooted
  <2>3. \A x \in live' : url_'[x] # <<>>
    BY <1>3, <1>4 DEF Rooted, Types
  <2>4. ASSUME clears' = 0, NEW x \in rooted' \ {Root} PROVE parent_'[x] # None
    <3>1. x \in All
      BY <1>6, <2>4 DEF Types
    <3>2. CASE x = o
      BY <1>2, <1>3, <1>5, <2>4, <3>2
    <3>3. CASE x \in who /\ x # o
      BY <1>2, <1>3, <1>4, <1>5, <3>1, <3>3
    <3>4. CASE x \notin who
      <4>1. x \in rooted \ {Root} /\ x # o
        BY <1>2, <1>3, <2>4, <3>4
      <4>. QED BY <1>4, <1>5, <2>4, <3>1, <4>1 DEF Rooted
    <3>. QED BY <3>2, <3>3, <3>4
  <2>. QED BY <2>2, <2>3, <2>4 DEF Rooted
<1>11. Shape'
  BY <1>6, <1>8, <1>9, <1>10 DEF Shape
<1>12. (Shape /\ clears = 0 => UrlsDiffer)'
  BY RootedUrlsDiffer, PTL
<1>13. Dictionary'
  BY <1>3, <1>11, <1>12 DEF Dictionary, UrlsDiffer
<1>. QED
  BY <1>11, <1>13

-----------------------------------------------------------------------------
(* register_child and unregister_child *)

(* A row depends on the keep_last_ of its children only. *)
LEMMA RowKeeps ==
  ASSUME NEW vec, NEW kids, NEW keep, NEW keep2, InRow(vec, kids, keep),
         \A x \in kids : keep2[x] = keep[x]
  PROVE  InRow(vec, kids, keep2)
<1>1. \A i \in DOMAIN vec : keep2[vec[i]] = keep[vec[i]]
  BY DEF InRow
<1>. QED
  BY <1>1 DEF InRow

(* unregister_child of both parents, in the hashes ... *)
LEMMA HashWithout ==
  ASSUME TreeInv, NEW o \in Obj, NEW parents, parent_[o] \in parents, NEW q \in All
  PROVE  WithoutChild(parents, o)[q] = {<<name_[x], x>> : x \in ChildrenOf(q) \ {o}}
<1>1. children_[q] = {<<name_[x], x>> : x \in ChildrenOf(q)}
  BY DEF TreeInv, Hashes
<1>2. WithoutChild(parents, o)[q]
        = IF q \in parents THEN {e \in children_[q] : e[2] # o} ELSE children_[q]
  BY DEF WithoutChild
<1>3. {e \in children_[q] : e[2] # o} = {<<name_[x], x>> : x \in ChildrenOf(q) \ {o}}
  <2>1. ASSUME NEW e \in children_[q], e[2] # o
        PROVE  e \in {<<name_[x], x>> : x \in ChildrenOf(q) \ {o}}
    BY <1>1, <2>1
  <2>2. ASSUME NEW x \in ChildrenOf(q) \ {o}
        PROVE  <<name_[x], x>> \in children_[q] /\ <<name_[x], x>>[2] # o
    BY <1>1
  <2>. QED BY <2>1, <2>2
<1>4. q \notin parents => o \notin ChildrenOf(q)
  BY DEF ChildrenOf
<1>. QED
  BY <1>1, <1>2, <1>3, <1>4

(* ... and in the vectors. *)
LEMMA VectorsAreWithout ==
  ASSUME TreeInv, NEW o \in Obj, NEW parents, parent_[o] \in parents, NEW q \in All
  PROVE  /\ VectorsWithout(parents, o)[q] \in Seq(Obj)
         /\ clears = 0 =>
              InRow(VectorsWithout(parents, o)[q], ChildrenOf(q) \ {o}, keep_last_)
<1>1. children_vector_[q] \in Seq(Obj)
  BY DEF TreeInv, Shape, Types
<1>2. clears = 0 => InRow(children_vector_[q], ChildrenOf(q), keep_last_)
  BY DEF TreeInv, Vectors
<1>3. VectorsWithout(parents, o)[q]
        = IF q \in parents THEN RemoveFirst(children_vector_[q], o) ELSE children_vector_[q]
  BY DEF VectorsWithout
<1>4. CASE q \in parents
  <2>1. RemoveFirst(children_vector_[q], o) \in Seq(Obj)
    BY <1>1, RemovingFirst
  <2>2. clears = 0 =>
          InRow(RemoveFirst(children_vector_[q], o), ChildrenOf(q) \ {o}, keep_last_)
    BY <1>1, <1>2, RowWithout
  <2>. QED BY <1>3, <1>4, <2>1, <2>2
<1>5. CASE q \notin parents
  <2>1. ChildrenOf(q) \ {o} = ChildrenOf(q)
    BY <1>5 DEF ChildrenOf
  <2>. QED BY <1>1, <1>2, <1>3, <1>5, <2>1
<1>. QED
  BY <1>4, <1>5

(* set_parent(p). *)
LEMMA SetParentKeeps ==
  ASSUME TreeInv, NEW o \in Obj, o \in live, NEW p \in All, p \in live,
         p \notin Lost({o}), NEW n \in Name, NEW k \in BOOLEAN,
         SetParent(o, p, n, k),
         live' = live, handles' = handles, clears' = clears,
         owner' \in [Obj -> {None, "user", "tree"}]
  PROVE  TreeInv'
<1>1. PICK parents : parents = {parent_[o], p}
  OBVIOUS
<1>2. PICK others : others = WithoutChild(parents, o)
  OBVIOUS
<1>3. PICK vectors : vectors = VectorsWithout(parents, o)
  OBVIOUS
<1>4. PICK free : free = FreeName(n, {e[1] : e \in others[p]})
  OBVIOUS
<1>5. /\ parent_[o] \in parents /\ p \in parents /\ o \in All /\ Obj \subseteq All
      /\ None \notin All /\ Root \notin Obj
      /\ Types /\ \A x \in All : Follows(x)
  BY <1>1, ObjAssumption DEF All, TreeInv, Shape
<1>6. CASE free = None
  <2>1. hung' = TRUE /\ UNCHANGED tree
    BY <1>1, <1>2, <1>4, <1>6 DEF SetParent
  <2>. QED
    BY <1>5, <2>1 DEF TreeInv, Shape, Types, Follows, Siblings, Rooted, Dictionary,
       Answering, Hashes, Vectors, ChildrenOf, tree
<1>7. CASE free # None
  <2>1. PICK kept \in KeepReads(p) :
          children_vector_' = [vectors EXCEPT ![p] = VectorWith(@, o, [kept EXCEPT ![o] = k])]
    BY <1>1, <1>2, <1>3, <1>4, <1>7 DEF SetParent
  <2>2. /\ parent_' = [parent_ EXCEPT ![o] = p] /\ name_' = [name_ EXCEPT ![o] = free]
        /\ keep_last_' = [keep_last_ EXCEPT ![o] = k] /\ hung' = hung
        /\ children_' = [others EXCEPT ![p] = @ \cup {<<free, o>>}]
        /\ Moved(o, Append(url_[p], free), p \in rooted)
    BY <1>1, <1>2, <1>4, <1>7 DEF SetParent
  <2>3. \A q \in All : others[q] = {<<name_[x], x>> : x \in ChildrenOf(q) \ {o}}
    BY <1>2, <1>5, HashWithout
  <2>4. others = [q \in All |-> others[q]] /\ vectors = [q \in All |-> vectors[q]]
    BY <1>2, <1>3 DEF WithoutChild, VectorsWithout
  <2>5. \A q \in All :
          /\ vectors[q] \in Seq(Obj)
          /\ clears = 0 => InRow(vectors[q], ChildrenOf(q) \ {o}, keep_last_)
    BY <1>3, <1>5, VectorsAreWithout
  <2>6. free \in Name /\ \A x \in ChildrenOf(p) : x # o => name_[x] # free
    <3>1. PICK taken : taken = {e[1] : e \in others[p]}
      OBVIOUS
    <3>2. ASSUME NEW x \in ChildrenOf(p), x # o PROVE name_[x] \in taken
      <4>1. <<name_[x], x>> \in others[p] /\ <<name_[x], x>>[1] = name_[x]
        BY <2>3, <3>2
      <4>. QED BY <3>1, <4>1
    <3>3. taken \in SUBSET Name
      <4>1. \A x \in ChildrenOf(p) : name_[x] \in Name
        BY <1>5 DEF Types, ChildrenOf
      <4>. QED BY <2>3, <3>1, <4>1
    <3>4. free \in Name \ taken
      BY <1>4, <1>7, <3>1, <3>3, FreeNameIsFree
    <3>. QED BY <3>2, <3>4
  <2>7. /\ keep_last_' \in [Obj -> BOOLEAN] /\ keep_last_'[o] = k
        /\ \A x \in Obj : x # o => keep_last_'[x] = keep_last_[x]
    BY <1>5, <2>2 DEF Types
  <2>8. PICK reads : reads = [kept EXCEPT ![o] = k]
    OBVIOUS
  <2>9. /\ reads \in [Obj -> BOOLEAN]
        /\ \A x \in ChildrenOf(p) \cup {o} : reads[x] = keep_last_'[x]
    <3>1. kept \in [Obj -> BOOLEAN] /\ \A x \in Obj \cap live : kept[x] = keep_last_[x]
      BY DEF KeepReads
    <3>2. ChildrenOf(p) \subseteq Obj \cap live
      BY <1>5 DEF Follows, ChildrenOf
    <3>. QED BY <2>7, <2>8, <3>1, <3>2
  <2>10. PICK row : row = VectorWith(vectors[p], o, reads)
    OBVIOUS
  <2>11. row \in Seq(Obj)
    BY <2>5, <2>9, <2>10, VectorWithIs
  <2>12. /\ \A q \in All : children_vector_'[q] = IF q = p THEN row ELSE vectors[q]
         /\ children_vector_' = [q \in All |-> children_vector_'[q]]
    BY <2>1, <2>4, <2>8, <2>10
  <2>13. children_vector_' \in [All -> Seq(Obj)]
    BY <2>5, <2>11, <2>12
  <2>14. PICK u : u = Append(url_[p], free)
    OBVIOUS
  <2>15. u \in Seq(Name) /\ u # <<>>
    <3>1. url_[p] \in Seq(Name)
      BY <1>5 DEF Types
    <3>. QED BY <2>6, <2>14, <3>1, AppendProperties
  <2>16. Shape' /\ Dictionary'
    <3>1. PICK hasRoot \in BOOLEAN : hasRoot = (p \in rooted)
      <4>1. CASE p \in rooted
        <5>1. TRUE = (p \in rooted)
          BY <4>1
        <5>. QED BY <5>1
      <4>2. CASE p \notin rooted
        <5>1. FALSE = (p \in rooted)
          BY <4>2
        <5>. QED BY <5>1
      <4>. QED BY <4>1, <4>2
    <3>2. Moved(o, u, hasRoot)
      BY <2>2, <2>14, <3>1
    <3>3. p # None => /\ p \in live /\ p \notin Lost({o}) /\ u = Append(url_[p], free)
                      /\ hasRoot = (p \in rooted)
                      /\ \A x \in ChildrenOf(p) : x # o => name_[x] # free
      BY <2>6, <2>14, <3>1
    <3>4. (p = None => ~hasRoot) /\ p \in All \cup {None}
      BY <1>5
    <3>5. MovesTo(o, p, free, k, u, hasRoot)
      BY <2>2, <2>13, <3>2, <3>3, <3>4 DEF MovesTo
    <3>. QED BY <2>6, <2>15, <3>4, <3>5, MovedShape
  <2>17. /\ parent_'[o] = p /\ name_'[o] = free
         /\ \A x \in All : x # o => parent_'[x] = parent_[x] /\ name_'[x] = name_[x]
    BY <1>5, <2>2 DEF Types
  <2>18. \A q \in All : ChildrenOf(q)' =
           IF q = p THEN (ChildrenOf(q) \ {o}) \cup {o} ELSE ChildrenOf(q) \ {o}
    BY <1>5, <2>17 DEF ChildrenOf
  <2>19. Hashes'
    <3>1. children_' = [q \in All |-> children_'[q]]
      BY <2>2, <2>4
    <3>2. ASSUME NEW q \in All
          PROVE  children_'[q] = {<<name_'[x], x>> : x \in ChildrenOf(q)'}
      <4>1. children_'[q] = IF q = p THEN others[q] \cup {<<free, o>>} ELSE others[q]
        BY <2>2, <2>4
      <4>2. \A x \in ChildrenOf(q) \ {o} : name_'[x] = name_[x]
        BY <1>5, <2>17 DEF ChildrenOf
      <4>3. others[q] = {<<name_'[x], x>> : x \in ChildrenOf(q) \ {o}}
        BY <2>3, <4>2
      <4>. QED BY <2>17, <2>18, <4>1, <4>3
    <3>. HIDE DEF ChildrenOf
    <3>. QED BY <3>1, <3>2 DEF Hashes
  <2>20. Vectors'
    <3>. SUFFICES ASSUME clears = 0, NEW q \in All
                  PROVE  InRow(children_vector_'[q], ChildrenOf(q)', keep_last_')
      BY DEF Vectors
    <3>1. PICK kids : kids = ChildrenOf(q) \ {o}
      OBVIOUS
    <3>2. vectors[q] \in Seq(Obj) /\ InRow(vectors[q], kids, keep_last_)
      BY <2>5, <3>1
    <3>3. InRow(vectors[q], kids, keep_last_')
      <4>1. \A x \in kids : keep_last_'[x] = keep_last_[x]
        BY <2>7, <3>1 DEF ChildrenOf
      <4>. QED BY <3>2, <4>1, RowKeeps
    <3>4. CASE q # p
      BY <2>12, <2>18, <3>1, <3>3, <3>4
    <3>5. CASE q = p
      <4>1. o \notin kids /\ \A y \in kids \cup {o} : reads[y] = keep_last_'[y]
        BY <2>9, <3>1, <3>5
      <4>2. InRow(VectorWith(vectors[q], o, reads), kids \cup {o}, keep_last_')
        BY <2>7, <2>9, <3>2, <3>3, <4>1, RowWithChild
      <4>. QED BY <2>10, <2>12, <2>18, <3>1, <3>5, <4>2
    <3>. QED BY <3>4, <3>5
  <2>. QED BY <2>16, <2>19, <2>20 DEF TreeInv
<1>. QED
  BY <1>6, <1>7

(* set_parent(NULL). *)
LEMMA StayAloneKeeps ==
  ASSUME TreeInv, NEW o \in Obj, o \in live, parent_[o] = None,
         NEW n \in Name, NEW k \in BOOLEAN, StayAlone(o, n, k),
         live' = live, handles' = handles, clears' = clears,
         owner' \in [Obj -> {None, "user", "tree"}]
  PROVE  TreeInv'
<1>1. /\ Types /\ o \in All /\ Obj \subseteq All /\ None \notin All
  BY ObjAssumption DEF All, TreeInv, Shape
<1>2. /\ parent_' = parent_ /\ name_' = [name_ EXCEPT ![o] = n]
      /\ keep_last_' = [keep_last_ EXCEPT ![o] = k] /\ hung' = hung
      /\ children_' = children_ /\ children_vector_' = children_vector_
  BY DEF StayAlone
<1>3. parent_' = [parent_ EXCEPT ![o] = None]
  BY <1>1, <1>2 DEF Types
<1>4. PICK u : u = <<n>>
  OBVIOUS
<1>5. PICK p : p = None
  OBVIOUS
<1>6. Shape' /\ Dictionary'
  <2>1. PICK hasRoot \in BOOLEAN : hasRoot = FALSE
    OBVIOUS
  <2>2. u \in Seq(Name) /\ u # <<>>
    BY <1>4
  <2>3. parent_' = [parent_ EXCEPT ![o] = p]
    BY <1>3, <1>5
  <2>4. p # None =>
          /\ p \in live /\ p \notin Lost({o}) /\ u = Append(url_[p], n)
          /\ hasRoot = (p \in rooted)
          /\ \A x \in ChildrenOf(p) : x # o => name_[x] # n
    BY <1>5
  <2>5. children_vector_' \in [All -> Seq(Obj)]
    BY <1>1, <1>2 DEF Types
  <2>6. Moved(o, u, hasRoot)
    BY <1>4, <2>1 DEF StayAlone
  <2>7. p = None => ~hasRoot
    BY <2>1
  <2>8. p \in All \cup {None}
    BY <1>5
  <2>9. name_' = [name_ EXCEPT ![o] = n] /\ keep_last_' = [keep_last_ EXCEPT ![o] = k]
        /\ hung' = hung
    BY <1>2
  <2>10. MovesTo(o, p, n, k, u, hasRoot)
    BY <2>3, <2>4, <2>5, <2>6, <2>7, <2>9 DEF MovesTo
  <2>. QED BY <2>2, <2>8, <2>10, MovedShape
<1>7. \A q \in All :
        /\ ChildrenOf(q)' = ChildrenOf(q)
        /\ \A x \in ChildrenOf(q) : name_'[x] = name_[x] /\ keep_last_'[x] = keep_last_[x]
  BY <1>1, <1>2 DEF ChildrenOf, Types
<1>8. Hashes'
  <2>1. children_' = [q \in All |-> {<<name_[x], x>> : x \in ChildrenOf(q)}]
    BY <1>2 DEF TreeInv, Hashes
  <2>2. \A q \in All :
          {<<name_[x], x>> : x \in ChildrenOf(q)} = {<<name_'[x], x>> : x \in ChildrenOf(q)'}
    BY <1>7
  <2>. HIDE DEF ChildrenOf
  <2>. QED BY <2>1, <2>2 DEF Hashes
<1>9. Vectors'
  <2>. SUFFICES ASSUME clears = 0, NEW q \in All
                PROVE  InRow(children_vector_'[q], ChildrenOf(q)', keep_last_')
    BY DEF Vectors
  <2>1. InRow(children_vector_[q], ChildrenOf(q), keep_last_)
    BY DEF TreeInv, Vectors
  <2>2. InRow(children_vector_[q], ChildrenOf(q), keep_last_')
    <3>1. \A x \in ChildrenOf(q) : keep_last_'[x] = keep_last_[x]
      BY <1>7
    <3>. QED BY <2>1, <3>1, RowKeeps
  <2>. QED BY <1>2, <1>7, <2>2
<1>. QED
  BY <1>6, <1>8, <1>9 DEF TreeInv

(* set_parent(parent_): an object is not below itself. *)
LEMMA ResetParentKeeps ==
  ASSUME TreeInv, NEW o \in Obj, o \in live, NEW n \in Name, NEW k \in BOOLEAN,
         ResetParent(o, n, k),
         live' = live, handles' = handles, clears' = clears,
         owner' \in [Obj -> {None, "user", "tree"}]
  PROVE  TreeInv'
<1>1. CASE parent_[o] = None
  <2>1. StayAlone(o, n, k)
    BY <1>1 DEF ResetParent
  <2>. QED BY <1>1, <2>1, StayAloneKeeps
<1>2. CASE parent_[o] # None
  <2>1. PICK p : p = parent_[o]
    OBVIOUS
  <2>2. o \in All /\ Shape
    BY DEF All, TreeInv
  <2>3. p \in All /\ p \in live
    BY <1>2, <2>1, <2>2 DEF Shape, Types, Follows
  <2>4. /\ Len(url_[o]) \in Nat /\ Len(url_[o]) = Len(url_[p]) + 1
    BY <1>2, <2>1, <2>2, LengthsAre
  <2>5. Len(url_[p]) \in Nat
    BY <2>2, <2>3, LengthsAre
  <2>6. p \notin Lost({o})
    <3>1. \A t \in {o} : Len(url_[o]) <= Len(url_[t])
      BY <2>4
    <3>2. \A x \in Lost({o}) : Len(url_[o]) <= Len(url_[x])
      BY <2>4, <3>1, LostIsLower
    <3>3. ASSUME p \in Lost({o}) PROVE FALSE
      <4>1. Len(url_[o]) <= Len(url_[p])
        BY <3>2, <3>3
      <4>. QED BY <2>4, <2>5, <4>1
    <3>. QED BY <3>3
  <2>7. SetParent(o, p, n, k)
    BY <1>2, <2>1 DEF ResetParent
  <2>. QED BY <2>3, <2>6, <2>7, SetParentKeeps
<1>. QED
  BY <1>1, <1>2

-----------------------------------------------------------------------------
(* ~Object and clear *)

(* ~Object of the tops and what dies with them, and what clear() cuts off. *)
LEMMA DestroyKeeps ==
  ASSUME TreeInv, NEW tops \in SUBSET Obj, tops \subseteq live, NEW cut \in SUBSET Obj,
         NEW vectors, NEW others, Destroy(tops, cut, vectors, others),
         handles' \subseteq handles \ tops, hung' = hung,
         clears' \in 0..MaxClears, clears' = 0 => clears = 0 /\ cut = {},
         \A q \in All : vectors[q] \in Seq(Obj),
         \A q \in All : others[q] = {<<name_[x], x>> : x \in ChildrenOf(q) \ (tops \cup cut)},
         clears' = 0 =>
           \A q \in All : InRow(vectors[q], ChildrenOf(q) \ tops, keep_last_)
  PROVE  TreeInv'
<1>1. PICK dead, lost : dead = Dying(tops) /\ lost = Lost(tops)
  OBVIOUS
<1>2. PICK held : held = (UNION {Kids(d) : d \in dead}) \ dead
  OBVIOUS
<1>3. PICK free : free = dead \cup held \cup cut
  OBVIOUS
<1>4. PICK given : given = [x \in dead \cup held |->
                     IF x \in dead THEN <<>> ELSE <<name_[parent_[x]], name_[x]>>]
  OBVIOUS
<1>5. PICK urls : urls = UrlsBelow(lost, given)
  OBVIOUS
<1>6. /\ live' = live \ dead
      /\ owner' = [x \in Obj |-> IF x \in free THEN None ELSE owner[x]]
      /\ parent_' = [x \in All |-> IF x \in free THEN None ELSE parent_[x]]
      /\ name_' = [x \in All |-> IF x \in dead THEN RootName ELSE name_[x]]
      /\ keep_last_' = [x \in Obj |-> x \notin dead /\ keep_last_[x]]
      /\ children_' = [x \in All |-> IF x \in dead THEN {} ELSE others[x]]
      /\ children_vector_' = [x \in All |-> IF x \in dead THEN <<>> ELSE vectors[x]]
      /\ url_' = [x \in All |-> IF x \in lost THEN urls[x] ELSE url_[x]]
      /\ rooted' = rooted \ lost
      /\ objects_' = {e \in objects_ : e[2] \notin lost \cup cut}
  BY <1>1, <1>2, <1>3, <1>4, <1>5 DEF Destroy
<1>7. /\ Types /\ Rooted /\ Siblings /\ \A x \in All : Follows(x)
      /\ Obj \subseteq All /\ None \notin All /\ Root \notin Obj /\ Root \in All
  BY ObjAssumption DEF All, TreeInv, Shape
<1>8. /\ lost \subseteq Obj /\ tops \subseteq dead /\ dead \subseteq lost
      /\ \A x \in Obj : parent_[x] \in lost => x \in lost
      /\ \A x \in lost : x \in tops \/ parent_[x] \in lost
      /\ \A x \in dead : x \in tops \/ (parent_[x] \in dead /\ x \notin handles)
  BY <1>1, LostIs, DyingIs
<1>9. \A x : x \in held <=> x \in Obj /\ parent_[x] \in dead /\ x \notin dead
  <2>1. \A d \in dead : Kids(d) = {x \in Obj : parent_[x] = d}
    <3>1. \A d \in All : Kids(d) = ChildrenOf(d)
      BY KidsAreChildren DEF TreeInv
    <3>. QED BY <1>7, <1>8, <3>1 DEF ChildrenOf
  <2>2. \A x : x \in held <=> (\E d \in dead : x \in Kids(d)) /\ x \notin dead
    <3>1. PICK below : below = UNION {Kids(d) : d \in dead}
      OBVIOUS
    <3>2. \A x : x \in below <=> \E d \in dead : x \in Kids(d)
      BY <3>1
    <3>3. held = below \ dead
      BY <1>2, <3>1
    <3>. QED BY <3>2, <3>3
  <2>3. \A x : (\E d \in dead : x \in Kids(d)) <=> x \in Obj /\ parent_[x] \in dead
    BY <2>1
  <2>. QED BY <2>2, <2>3
<1>10. /\ held \subseteq lost /\ free \subseteq Obj
       /\ \A x \in Obj : x \notin free => parent_[x] \notin dead /\ x \notin dead
       /\ DOMAIN given = dead \cup held
       /\ \A x \in dead : given[x] = <<>>
       /\ \A x \in held : given[x] = <<name_[parent_[x]], name_[x]>>
  BY <1>3, <1>4, <1>8, <1>9
<1>11. Climbs(lost, given)
  <2>. SUFFICES ASSUME NEW x \in lost
                PROVE  /\ Len(url_[x]) \in Nat
                       /\ x \notin DOMAIN given =>
                            /\ parent_[x] \in lost
                            /\ Len(url_[parent_[x]]) < Len(url_[x])
    BY DEF Climbs
  <2>1. x \in All /\ Shape
    BY <1>7, <1>8 DEF TreeInv
  <2>2. /\ Len(url_[x]) \in Nat
        /\ parent_[x] # None => /\ parent_[x] \in All
                                /\ Len(url_[x]) = Len(url_[parent_[x]]) + 1
    BY <2>1, LengthsAre
  <2>3. parent_[x] # None => Len(url_[parent_[x]]) \in Nat
    BY <2>1, <2>2, LengthsAre
  <2>4. x \notin DOMAIN given => parent_[x] \in lost /\ parent_[x] # None
    BY <1>7, <1>8, <1>10
  <2>. QED BY <2>2, <2>3, <2>4
<1>12. urls = [x \in lost |-> OneUrl(urls, given, x)]
  BY <1>5, <1>11, UrlsBelowFits DEF Urls
<1>13. /\ \A x \in dead : urls[x] = <<>>
       /\ \A x \in held : urls[x] = <<name_[parent_[x]], name_[x]>>
       /\ \A x \in lost : x \notin dead /\ x \notin held =>
            parent_[x] \in lost /\ urls[x] = Append(urls[parent_[x]], name_[x])
  BY <1>8, <1>10, <1>12 DEF OneUrl
<1>14. \A x \in lost : urls[x] \in Seq(Name)
  <2>1. PICK T : T = {x \in lost : urls[x] \in Seq(Name)}
    OBVIOUS
  <2>2. PICK next : next = [q \in All |-> Kids(q)]
    OBVIOUS
  <2>3. <<>> \in Seq(Name)
    OBVIOUS
  <2>4. ASSUME NEW x \in T, NEW y \in Obj, parent_[y] = x PROVE y \in T
    <3>1. y \in lost /\ name_[y] \in Name /\ name_[x] \in Name
      BY <1>7, <1>8, <2>1, <2>4 DEF Types
    <3>2. CASE y \in dead
      BY <1>13, <2>1, <2>3, <3>1, <3>2
    <3>3. CASE y \in held
      <4>1. urls[y] = <<name_[x], name_[y]>>
        BY <1>13, <2>4, <3>3
      <4>2. urls[y] \in Seq(Name)
        BY <3>1, <4>1
      <4>. QED BY <2>1, <3>1, <4>2
    <3>4. CASE y \notin dead /\ y \notin held
      <4>1. urls[y] = Append(urls[x], name_[y]) /\ urls[x] \in Seq(Name)
        BY <1>13, <2>1, <2>4, <3>1, <3>4
      <4>2. urls[y] \in Seq(Name)
        BY <3>1, <4>1, AppendProperties
      <4>. QED BY <2>1, <3>1, <4>2
    <3>. QED BY <3>2, <3>3, <3>4
  <2>5. /\ next \in [All -> SUBSET All] /\ \A x \in All : next[x] = ChildrenOf(x)
        /\ T \in SUBSET All /\ tops \subseteq T /\ tops \in SUBSET All
    <3>1. \A x \in All : Kids(x) = ChildrenOf(x) /\ ChildrenOf(x) \subseteq All
      BY <1>7, KidsAreChildren DEF TreeInv, ChildrenOf
    <3>2. T \in SUBSET All /\ tops \in SUBSET All
      BY <1>7, <1>8, <2>1
    <3>3. tops \subseteq T
      BY <1>8, <1>13, <2>1, <2>3
    <3>. QED BY <2>2, <3>1, <3>2, <3>3
  <2>6. \A x \in T : next[x] \subseteq T
    BY <2>4, <2>5 DEF ChildrenOf
  <2>7. lost = Reached(tops, next)
    BY <1>1, <2>2 DEF Lost
  <2>8. lost \subseteq T
    BY <2>5, <2>6, <2>7, ReachedIsLeast
  <2>. QED BY <2>1, <2>8
<1>15. /\ \A x \in lost : url_'[x] = urls[x]
       /\ \A x \in All \ lost : url_'[x] = url_[x]
       /\ \A x \in All : x \notin dead => name_'[x] = name_[x]
       /\ \A x \in All : parent_'[x] # None => x \notin free /\ parent_'[x] = parent_[x]
       /\ \A x \in All : x \notin free => parent_'[x] = parent_[x]
  BY <1>6, <1>7, <1>8
<1>16. Types'
  <2>1. url_' \in [All -> Seq(Name)]
    BY <1>6, <1>7, <1>14 DEF Types
  <2>2. children_vector_' \in [All -> Seq(Obj)]
    <3>1. <<>> \in Seq(Obj)
      OBVIOUS
    <3>. QED BY <1>6, <3>1
  <2>3. name_' \in [All -> Name]
    <3>1. RootName \in Name
      BY DEF RootName, Name
    <3>. QED BY <1>6, <1>7, <3>1 DEF Types
  <2>4. parent_' \in [All -> All \cup {None}] /\ owner' \in [Obj -> {None, "user", "tree"}]
    BY <1>6, <1>7 DEF Types
  <2>5. keep_last_' \in [Obj -> BOOLEAN]
    BY <1>6
  <2>6. Root \in live' /\ live' \subseteq All /\ handles' \subseteq live' /\ rooted' \subseteq live'
    BY <1>6, <1>7, <1>8 DEF Types
  <2>7. hung' \in BOOLEAN
    BY <1>7 DEF Types
  <2>. QED BY <2>1, <2>2, <2>3, <2>4, <2>5, <2>6, <2>7 DEF Types
<1>17. ASSUME NEW x \in All, parent_'[x] # None
       PROVE  /\ x \in live' \cap Obj /\ parent_'[x] \in live'
              /\ url_'[x] = Append(url_'[parent_'[x]], name_'[x])
              /\ (x \in rooted' <=> parent_'[x] \in rooted')
  <2>1. x \notin free /\ parent_'[x] = parent_[x] /\ parent_[x] # None
    BY <1>15, <1>17
  <2>2. /\ x \in live \cap Obj /\ parent_[x] \in live
        /\ url_[x] = Append(url_[parent_[x]], name_[x])
        /\ (x \in rooted <=> parent_[x] \in rooted)
    BY <1>7, <2>1 DEF Follows
  <2>3. x \notin dead /\ x \notin held /\ parent_[x] \notin dead /\ parent_[x] \in All
    BY <1>3, <1>7, <1>10, <2>1, <2>2 DEF Types
  <2>4. name_'[x] = name_[x]
    BY <1>15, <2>3
  <2>5. CASE x \in lost
    <3>1. parent_[x] \in lost /\ urls[x] = Append(urls[parent_[x]], name_[x])
      BY <1>13, <2>3, <2>5
    <3>. QED BY <1>6, <1>15, <2>1, <2>2, <2>3, <2>4, <2>5, <3>1
  <2>6. CASE x \notin lost
    <3>1. parent_[x] \notin lost
      BY <1>8, <2>2, <2>6
    <3>. QED BY <1>6, <1>15, <2>1, <2>2, <2>3, <2>4, <2>6, <3>1
  <2>. QED BY <2>5, <2>6
<1>18. \A x \in All : Follows(x)'
  BY <1>17 DEF Follows
<1>19. Siblings'
  <2>. SUFFICES ASSUME NEW x \in Obj, NEW y \in Obj, parent_'[x] # None,
                       parent_'[x] = parent_'[y], name_'[x] = name_'[y]
                PROVE  x = y
    BY DEF Siblings
  <2>1. /\ x \notin free /\ y \notin free
        /\ parent_'[x] = parent_[x] /\ parent_'[y] = parent_[y]
    BY <1>7, <1>15
  <2>2. name_'[x] = name_[x] /\ name_'[y] = name_[y]
    BY <1>3, <1>7, <1>15, <2>1
  <2>. QED BY <1>7, <2>1, <2>2 DEF Siblings
<1>20. Rooted'
  <2>1. Root \notin lost /\ Root \notin free
    BY <1>7, <1>8, <1>10
  <2>2. Root \in rooted' /\ parent_'[Root] = None /\ url_'[Root] = <<RootName>>
    BY <1>6, <1>7, <1>15, <2>1 DEF Rooted
  <2>3. ASSUME NEW x \in live' PROVE url_'[x] # <<>>
    <3>1. x \in live /\ x \notin dead /\ x \in All
      BY <1>6, <1>7, <2>3 DEF Types
    <3>2. CASE x \notin lost
      BY <1>7, <1>15, <3>1, <3>2 DEF Rooted
    <3>3. CASE x \in held
      <4>1. url_'[x] = <<name_[parent_[x]], name_[x]>>
        BY <1>10, <1>13, <1>15, <3>3
      <4>. QED BY <4>1
    <3>4. CASE x \in lost /\ x \notin held
      <4>1. /\ url_'[x] = Append(urls[parent_[x]], name_[x])
            /\ urls[parent_[x]] \in Seq(Name) /\ name_[x] \in Name
        BY <1>7, <1>13, <1>14, <1>15, <3>1, <3>4 DEF Types
      <4>. QED BY <4>1, AppendProperties
    <3>. QED BY <3>2, <3>3, <3>4
  <2>4. ASSUME clears' = 0, NEW x \in rooted' \ {Root} PROVE parent_'[x] # None
    <3>1. x \in rooted /\ x \notin lost /\ x # Root /\ x \in All /\ clears = 0 /\ cut = {}
      BY <1>6, <1>7, <2>4 DEF Types
    <3>2. x \notin free
      BY <1>3, <1>8, <1>10, <3>1
    <3>. QED BY <1>7, <1>15, <3>1, <3>2 DEF Rooted
  <2>. QED BY <2>2, <2>3, <2>4 DEF Rooted
<1>21. Dictionary'
  <2>1. ASSUME NEW e \in objects_' PROVE e \in Answering'
    <3>1. e \in objects_ /\ e[2] \notin lost
      BY <1>6
    <3>2. PICK x \in rooted : e = <<url_[x], x>>
      BY <3>1 DEF TreeInv, Dictionary, Answering
    <3>3. x \in rooted' /\ url_'[x] = url_[x]
      BY <1>6, <1>7, <1>15, <3>1, <3>2 DEF Types
    <3>. QED BY <3>2, <3>3 DEF Answering
  <2>2. ASSUME clears' = 0, NEW e \in Answering' PROVE e \in objects_'
    <3>1. PICK x \in rooted' : e = <<url_'[x], x>>
      BY DEF Answering
    <3>2. x \in rooted /\ x \notin lost /\ url_'[x] = url_[x]
      BY <1>6, <1>7, <1>15, <3>1 DEF Types
    <3>3. clears = 0 /\ cut = {} /\ e = <<url_[x], x>>
      BY <2>2, <3>1, <3>2
    <3>4. e \in objects_ /\ e[2] = x
      BY <3>2, <3>3 DEF TreeInv, Dictionary, Answering
    <3>. QED BY <1>6, <3>2, <3>3, <3>4
  <2>. HIDE DEF Answering
  <2>. QED BY <2>1, <2>2 DEF Dictionary
<1>22. \A q \in All : ChildrenOf(q)' =
         IF q \in dead THEN {} ELSE ChildrenOf(q) \ (tops \cup cut)
  <2>. SUFFICES ASSUME NEW q \in All, NEW x \in Obj
                PROVE  parent_'[x] = q <=>
                         q \notin dead /\ parent_[x] = q /\ x \notin tops /\ x \notin cut
    BY DEF ChildrenOf
  <2>1. ASSUME parent_'[x] = q
        PROVE  q \notin dead /\ parent_[x] = q /\ x \notin tops /\ x \notin cut
    BY <1>3, <1>7, <1>8, <1>10, <1>15, <2>1
  <2>2. ASSUME q \notin dead, parent_[x] = q, x \notin tops, x \notin cut
        PROVE  parent_'[x] = q
    <3>1. x \notin dead /\ x \notin held
      BY <1>8, <1>9, <2>2
    <3>. QED BY <1>3, <1>7, <1>15, <2>2, <3>1
  <2>. QED BY <2>1, <2>2
<1>23. \A q \in All : q \notin dead => \A x \in ChildrenOf(q)' : x \in Obj /\ x \notin dead
  <2>1. \A q \in All : \A x \in ChildrenOf(q)' : x \in Obj /\ parent_'[x] = q
    BY DEF ChildrenOf
  <2>. QED BY <1>3, <1>7, <1>15, <2>1
<1>24. Hashes'
  <2>1. ASSUME NEW q \in All PROVE children_'[q] = {<<name_'[x], x>> : x \in ChildrenOf(q)'}
    <3>1. CASE q \in dead
      BY <1>6, <1>22, <3>1
    <3>2. CASE q \notin dead
      <4>1. children_'[q] = {<<name_[x], x>> : x \in ChildrenOf(q)'}
        BY <1>6, <1>22, <3>2
      <4>2. \A x \in ChildrenOf(q)' : name_'[x] = name_[x]
        BY <1>7, <1>15, <1>23, <3>2
      <4>. QED BY <4>1, <4>2
    <3>. QED BY <3>1, <3>2
  <2>2. children_' = [q \in All |-> children_'[q]]
    BY <1>6
  <2>. HIDE DEF ChildrenOf
  <2>. QED BY <2>1, <2>2 DEF Hashes
<1>25. Vectors'
  <2>. SUFFICES ASSUME clears' = 0, NEW q \in All
                PROVE  InRow(children_vector_'[q], ChildrenOf(q)', keep_last_')
    BY DEF Vectors
  <2>1. CASE q \in dead
    <3>1. children_vector_'[q] = <<>> /\ ChildrenOf(q)' = {}
      BY <1>6, <1>22, <2>1
    <3>2. InRow(<<>>, {}, keep_last_')
      BY DEF InRow
    <3>. QED BY <3>1, <3>2
  <2>2. CASE q \notin dead
    <3>1. PICK kids : kids = ChildrenOf(q)'
      OBVIOUS
    <3>2. kids = ChildrenOf(q) \ tops /\ children_vector_'[q] = vectors[q]
      BY <1>6, <1>22, <2>2, <3>1
    <3>3. InRow(vectors[q], kids, keep_last_)
      BY <3>2
    <3>4. \A x \in kids : keep_last_'[x] = keep_last_[x]
      <4>1. \A x \in kids : x \in Obj /\ x \notin dead /\ keep_last_[x] \in BOOLEAN
        BY <1>7, <1>23, <2>2, <3>1 DEF Types
      <4>. QED BY <1>6, <4>1
    <3>5. InRow(vectors[q], kids, keep_last_')
      BY <3>3, <3>4, RowKeeps
    <3>. QED BY <3>1, <3>2, <3>5
  <2>. QED BY <2>1, <2>2
<1>. QED
  BY <1>16, <1>18, <1>19, <1>20, <1>21, <1>24, <1>25 DEF TreeInv, Shape

(* The last reference to an object is given back. *)
LEMMA UnrefKeeps ==
  ASSUME TreeInv, NEW o \in Obj, o \in live, Unref(o), handles' = handles \ {o}
  PROVE  TreeInv'
<1>1. PICK vectors : vectors = VectorsWithout({parent_[o]}, o)
  OBVIOUS
<1>2. PICK others : others = WithoutChild({parent_[o]}, o)
  OBVIOUS
<1>3. PICK tops, cut : tops = {o} /\ cut = {}
  OBVIOUS
<1>4. tops \in SUBSET Obj /\ tops \subseteq live /\ cut \in SUBSET Obj
  BY <1>3
<1>5. Destroy(tops, cut, vectors, others) /\ hung' = hung /\ clears' = clears
  BY <1>1, <1>2, <1>3 DEF Unref
<1>6. \A q \in All : vectors[q] \in Seq(Obj)
  BY <1>1, VectorsAreWithout
<1>7. \A q \in All : others[q] = {<<name_[x], x>> : x \in ChildrenOf(q) \ (tops \cup cut)}
  <2>1. \A q \in All : others[q] = {<<name_[x], x>> : x \in ChildrenOf(q) \ {o}}
    BY <1>2, HashWithout
  <2>2. tops \cup cut = {o}
    BY <1>3
  <2>. QED BY <2>1, <2>2
<1>8. clears' = 0 => \A q \in All : InRow(vectors[q], ChildrenOf(q) \ tops, keep_last_)
  BY <1>1, <1>3, <1>5, VectorsAreWithout
<1>9. clears' \in 0..MaxClears /\ (clears' = 0 => clears = 0 /\ cut = {})
  BY <1>3, <1>5 DEF TreeInv, Shape, Types
<1>10. handles' \subseteq handles \ tops
  BY <1>3
<1>. QED
  BY <1>4, <1>5, <1>6, <1>7, <1>8, <1>9, <1>10, DestroyKeeps

(* Object::clear. *)
LEMMA ClearKeeps ==
  ASSUME TreeInv, NEW p \in All, Clear(p)
  PROVE  TreeInv'
<1>1. PICK others : others = [children_ EXCEPT ![p] = {}]
  OBVIOUS
<1>2. PICK vectors : vectors = children_vector_
  OBVIOUS
<1>3. PICK tops, cut : tops = Kids(p) \ handles /\ cut = Kids(p) \cap handles
  OBVIOUS
<1>4. Kids(p) = ChildrenOf(p) /\ ChildrenOf(p) \subseteq Obj /\ ChildrenOf(p) \subseteq live
  BY KidsAreChildren, ObjAssumption DEF TreeInv, Shape, Follows, ChildrenOf, All
<1>5. /\ tops \in SUBSET Obj /\ tops \subseteq live /\ cut \in SUBSET Obj
      /\ tops \cup cut = ChildrenOf(p)
  BY <1>3, <1>4
<1>6. /\ Destroy(tops, cut, vectors, others) /\ hung' = hung /\ clears' = clears + 1
      /\ clears < MaxClears /\ handles' = handles
  BY <1>1, <1>2, <1>3 DEF Clear
<1>7. \A q \in All : vectors[q] \in Seq(Obj)
  BY <1>2 DEF TreeInv, Shape, Types
<1>8. ASSUME NEW q \in All
      PROVE  others[q] = {<<name_[x], x>> : x \in ChildrenOf(q) \ (tops \cup cut)}
  <2>1. /\ children_ = [r \in All |-> children_[r]]
        /\ children_[q] = {<<name_[x], x>> : x \in ChildrenOf(q)}
    BY DEF TreeInv, Hashes
  <2>2. others[q] = IF q = p THEN {} ELSE children_[q]
    BY <1>1, <2>1
  <2>3. ChildrenOf(q) \ (tops \cup cut) = IF q = p THEN {} ELSE ChildrenOf(q)
    BY <1>5 DEF ChildrenOf
  <2>. QED BY <2>1, <2>2, <2>3
<1>9. clears' \in 0..MaxClears /\ clears' # 0
  BY <1>6, ObjAssumption DEF TreeInv, Shape, Types
<1>10. handles' \subseteq handles \ tops
  BY <1>3, <1>6
<1>11. clears' = 0 => clears = 0 /\ cut = {}
  BY <1>9
<1>12. clears' = 0 => \A q \in All : InRow(vectors[q], ChildrenOf(q) \ tops, keep_last_)
  BY <1>9
<1>. QED
  BY <1>5, <1>6, <1>7, <1>8, <1>9, <1>10, <1>11, <1>12, DestroyKeeps

-----------------------------------------------------------------------------
(* The specification *)

(* The Root alone. *)
LEMMA InitTree == Init => TreeInv
<1>. SUFFICES ASSUME Init PROVE TreeInv
  OBVIOUS
<1>. USE DEF Init
<1>1. /\ Root \in All /\ Root \notin Obj /\ Obj \subseteq All /\ None \notin All
  BY ObjAssumption DEF All
<1>2. RootName \in Name /\ <<RootName>> \in Seq(Name) /\ <<>> \in Seq(Name) /\ <<>> \in Seq(Obj)
  BY DEF RootName, Name
<1>3. Types
  <2>1. /\ parent_ \in [All -> All \cup {None}] /\ name_ \in [All -> Name]
        /\ url_ \in [All -> Seq(Name)]
    BY <1>2
  <2>2. /\ owner \in [Obj -> {None, "user", "tree"}] /\ keep_last_ \in [Obj -> BOOLEAN]
        /\ children_vector_ \in [All -> Seq(Obj)]
    BY <1>2
  <2>3. /\ Root \in live /\ live \subseteq All /\ handles \subseteq live
        /\ rooted \subseteq live /\ hung \in BOOLEAN
    BY <1>1
  <2>4. clears \in 0..MaxClears
    BY ObjAssumption
  <2>. HIDE DEF Init
  <2>. QED BY <2>1, <2>2, <2>3, <2>4 DEF Types
<1>4. /\ \A x \in All : parent_[x] = None
      /\ \A q \in All : ChildrenOf(q) = {} /\ children_[q] = {} /\ children_vector_[q] = <<>>
  BY <1>1 DEF ChildrenOf
<1>5. (\A x \in All : Follows(x)) /\ Siblings /\ Rooted
  BY <1>1, <1>4 DEF Follows, Siblings, Rooted
<1>6. Dictionary
  BY <1>1 DEF Dictionary, Answering
<1>7. Hashes
  BY <1>4 DEF Hashes
<1>8. Vectors
  <2>1. InRow(<<>>, {}, keep_last_)
    BY DEF InRow
  <2>. QED BY <1>4, <2>1 DEF Vectors
<1>. QED
  BY <1>3, <1>5, <1>6, <1>7, <1>8 DEF TreeInv, Shape

(* Handles on objects that exist change nothing in the tree. *)
LEMMA HandlesKeep ==
  ASSUME TreeInv, UNCHANGED <<live, owner, tree, hung, clears>>, handles' \subseteq live
  PROVE  TreeInv'
BY DEF tree, TreeInv, Shape, Types, Follows, Siblings, Rooted, Dictionary, Answering,
   Hashes, Vectors, ChildrenOf

(* A new object is nobody's child or parent. *)
LEMMA NewKeeps ==
  ASSUME TreeInv, NEW o \in Obj, NEW l \in Letters, NEW k \in BOOLEAN, New(o, l, k)
  PROVE  TreeInv'
<1>1. /\ o \notin live /\ live' = live \cup {o}
      /\ owner' = [owner EXCEPT ![o] = "user"] /\ name_' = [name_ EXCEPT ![o] = Given(l)]
      /\ url_' = [url_ EXCEPT ![o] = <<Given(l)>>]
      /\ keep_last_' = [keep_last_ EXCEPT ![o] = k]
      /\ handles' = handles /\ parent_' = parent_ /\ rooted' = rooted
      /\ children_' = children_ /\ children_vector_' = children_vector_
      /\ objects_' = objects_ /\ hung' = hung /\ clears' = clears
  BY DEF New
<1>2. /\ Types /\ Siblings /\ Rooted /\ \A x \in All : Follows(x)
      /\ o \in All /\ Obj \subseteq All /\ None \notin All /\ o # Root
  BY ObjAssumption DEF TreeInv, Shape, All
<1>3. /\ parent_[o] = None /\ o \notin rooted
      /\ \A x \in All : parent_[x] # o
  BY <1>1, <1>2 DEF Types, Follows
<1>4. /\ \A x \in All : x # o => url_'[x] = url_[x] /\ name_'[x] = name_[x]
      /\ \A x \in Obj : x # o => keep_last_'[x] = keep_last_[x]
      /\ url_'[o] = <<Given(l)>>
  BY <1>1, <1>2 DEF Types
<1>5. Given(l) \in Name
  BY ObjAssumption DEF Given, Name
<1>6. Types'
  BY <1>1, <1>2, <1>5 DEF Types
<1>7. \A x \in All : Follows(x)'
  <2>. SUFFICES ASSUME NEW x \in All, parent_[x] # None
                PROVE  /\ x \in live' \cap Obj /\ parent_[x] \in live'
                       /\ url_'[x] = Append(url_'[parent_[x]], name_'[x])
                       /\ (x \in rooted' <=> parent_[x] \in rooted')
    BY <1>1 DEF Follows
  <2>1. x # o /\ parent_[x] # o /\ parent_[x] \in All
    BY <1>2, <1>3 DEF Types
  <2>. QED BY <1>1, <1>2, <1>4, <2>1 DEF Follows
<1>8. Siblings'
  BY <1>1, <1>2, <1>3, <1>4 DEF Siblings
<1>9. Rooted'
  BY <1>1, <1>2, <1>4 DEF Rooted, Types
<1>10. Answering' = Answering
  <2>1. \A x \in rooted : url_'[x] = url_[x]
    BY <1>2, <1>3, <1>4 DEF Types
  <2>. QED BY <1>1, <2>1 DEF Answering
<1>11. Dictionary'
  <2>. HIDE DEF Answering
  <2>. QED BY <1>1, <1>10 DEF Dictionary, TreeInv
<1>12. \A q \in All :
         /\ ChildrenOf(q)' = ChildrenOf(q)
         /\ \A x \in ChildrenOf(q) : name_'[x] = name_[x] /\ keep_last_'[x] = keep_last_[x]
  BY <1>1, <1>2, <1>3, <1>4 DEF ChildrenOf
<1>13. Hashes'
  <2>1. children_' = [q \in All |-> {<<name_[x], x>> : x \in ChildrenOf(q)}]
    BY <1>1 DEF TreeInv, Hashes
  <2>2. \A q \in All :
          {<<name_[x], x>> : x \in ChildrenOf(q)} = {<<name_'[x], x>> : x \in ChildrenOf(q)'}
    BY <1>12
  <2>. QED BY <2>1, <2>2 DEF Hashes
<1>14. Vectors'
  <2>. SUFFICES ASSUME clears = 0, NEW q \in All
                PROVE  InRow(children_vector_'[q], ChildrenOf(q)', keep_last_')
    BY <1>1 DEF Vectors
  <2>1. InRow(children_vector_[q], ChildrenOf(q), keep_last_)
    BY DEF TreeInv, Vectors
  <2>2. InRow(children_vector_[q], ChildrenOf(q), keep_last_')
    <3>1. \A x \in ChildrenOf(q) : keep_last_'[x] = keep_last_[x]
      BY <1>12
    <3>. QED BY <2>1, <3>1, RowKeeps
  <2>. QED BY <1>1, <1>12, <2>2
<1>. QED
  BY <1>6, <1>7, <1>8, <1>9, <1>11, <1>13, <1>14 DEF TreeInv, Shape

(* Every step keeps the invariant. *)
LEMMA NextTree == TreeInv /\ [Next]_vars => TreeInv'
<1>. SUFFICES ASSUME TreeInv, [Next]_vars PROVE TreeInv'
  OBVIOUS
<1>1. Types
  BY DEF TreeInv, Shape
<1>2. ASSUME NEW o \in Obj, NEW l \in Letters, NEW k \in BOOLEAN, New(o, l, k) PROVE TreeInv'
  BY <1>2, NewKeeps
<1>3. ASSUME NEW p \in All, NEW o \in Obj, Adopt(p, o) PROVE TreeInv'
  <2>1. /\ o \in live /\ p \in live /\ p \notin Lost({o})
        /\ live' = live /\ handles' = handles /\ clears' = clears
    BY <1>3 DEF Adopt, Subtree, Lost
  <2>2. owner' \in [Obj -> {None, "user", "tree"}]
    BY <1>1, <1>3 DEF Adopt, Types
  <2>3. PICK n \in Name : n = name_[o]
    BY <1>1 DEF Types, All
  <2>4. PICK k \in BOOLEAN : k = keep_last_[o]
    BY <1>1 DEF Types
  <2>5. SetParent(o, p, n, k)
    BY <1>3, <2>3, <2>4 DEF Adopt
  <2>. QED BY <2>1, <2>2, <2>5, SetParentKeeps
<1>4. ASSUME NEW o \in Obj, NEW l \in Letters, SetName(o, l) PROVE TreeInv'
  <2>1. /\ o \in live /\ live' = live /\ handles' = handles /\ clears' = clears
        /\ owner' \in [Obj -> {None, "user", "tree"}]
    BY <1>1, <1>4 DEF SetName, refVars, Types
  <2>2. PICK n \in Name : n = Given(l)
    <3>1. Given(l) \in Name
      BY ObjAssumption DEF Given, Name
    <3>. QED BY <3>1
  <2>3. PICK k \in BOOLEAN : k = keep_last_[o]
    BY <1>1 DEF Types
  <2>4. ResetParent(o, n, k)
    BY <1>4, <2>2, <2>3 DEF SetName
  <2>. QED BY <2>1, <2>4, ResetParentKeeps
<1>5. ASSUME NEW o \in Obj, SetKeepLast(o) PROVE TreeInv'
  <2>1. /\ o \in live /\ live' = live /\ handles' = handles /\ clears' = clears
        /\ owner' \in [Obj -> {None, "user", "tree"}]
    BY <1>1, <1>5 DEF SetKeepLast, refVars, Types
  <2>2. PICK n \in Name : n = name_[o]
    BY <1>1 DEF Types, All
  <2>3. PICK k \in BOOLEAN : k = ~keep_last_[o]
    BY <1>1 DEF Types
  <2>4. ResetParent(o, n, k)
    BY <1>5, <2>2, <2>3 DEF SetKeepLast
  <2>. QED BY <2>1, <2>4, ResetParentKeeps
<1>6. ASSUME NEW o \in Obj, HoldAtUrl(o) PROVE TreeInv'
  <2>1. PICK e \in objects_ : e[2] = o
    BY <1>6 DEF HoldAtUrl
  <2>2. o \in live
    BY <1>1, <2>1 DEF TreeInv, Dictionary, Answering, Types
  <2>3. UNCHANGED <<live, owner, tree, hung, clears>> /\ handles' \subseteq live
    BY <1>1, <1>6, <2>2 DEF HoldAtUrl, Types
  <2>. QED BY <2>3, HandlesKeep
<1>7. ASSUME NEW p \in All, NEW i \in 1..Cardinality(Obj), HoldAtIndex(p, i) PROVE TreeInv'
  <2>1. UNCHANGED <<live, owner, tree, hung, clears>> /\ handles' \subseteq live
    BY <1>1, <1>7 DEF HoldAtIndex, Types
  <2>. QED BY <2>1, HandlesKeep
<1>8. ASSUME NEW o \in Obj, DropHandle(o) PROVE TreeInv'
  <2>1. UNCHANGED <<live, owner, tree, hung, clears>> /\ handles' \subseteq live
    BY <1>1, <1>8 DEF DropHandle, Types
  <2>. QED BY <2>1, HandlesKeep
<1>9. ASSUME NEW o \in Obj, DropLastHandle(o) PROVE TreeInv'
  <2>1. o \in live /\ Unref(o) /\ handles' = handles \ {o}
    BY <1>1, <1>9 DEF DropLastHandle, Types
  <2>. QED BY <2>1, UnrefKeeps
<1>10. ASSUME NEW o \in Obj, Release(o) PROVE TreeInv'
  <2>1. o \in live /\ Unref(o) /\ handles' = handles \ {o}
    BY <1>10 DEF Release
  <2>. QED BY <2>1, UnrefKeeps
<1>11. ASSUME NEW p \in All, Clear(p) PROVE TreeInv'
  BY <1>11, ClearKeeps
<1>12. CASE UNCHANGED vars
  <2>1. UNCHANGED <<live, owner, tree, hung, clears>> /\ handles' \subseteq live
    BY <1>1, <1>12 DEF vars, refVars, Types
  <2>. QED BY <2>1, HandlesKeep
<1>. QED
  BY <1>2, <1>3, <1>4, <1>5, <1>6, <1>7, <1>8, <1>9, <1>10, <1>11, <1>12 DEF Next

(* What the Root knows is what is below it. *)
LEMMA RootedIsSubtree ==
  ASSUME TreeInv, clears = 0
  PROVE  Subtree(Root) = rooted
<1> DEFINE next == [p \in All |-> Kids(p)]
<1>1. /\ next \in [All -> SUBSET All]
      /\ \A p \in All : next[p] = ChildrenOf(p)
      /\ {Root} \in SUBSET All /\ rooted \in SUBSET All
  BY KidsAreChildren DEF TreeInv, Shape, Types, ChildrenOf, All
<1>2. PICK below : below = Subtree(Root)
  OBVIOUS
<1>3. below = Reached({Root}, next)
  BY <1>2 DEF Subtree
<1>. HIDE DEF next
<1>4. /\ below \subseteq All /\ Root \in below
      /\ \A x \in below : ChildrenOf(x) \subseteq below
  <2>1. /\ Reached({Root}, next) \subseteq All /\ {Root} \subseteq Reached({Root}, next)
        /\ \A x \in Reached({Root}, next) : next[x] \subseteq Reached({Root}, next)
    BY <1>1, ReachedIsClosed
  <2>2. /\ below \subseteq All /\ {Root} \subseteq below
        /\ \A x \in below : next[x] \subseteq below
    BY <1>3, <2>1
  <2>. QED BY <1>1, <2>2
<1>5. below \subseteq rooted
  <2>1. {Root} \subseteq rooted /\ \A x \in rooted : next[x] \subseteq rooted
    <3>1. ASSUME NEW x \in rooted, NEW y \in ChildrenOf(x) PROVE y \in rooted
      BY <1>1, ObjAssumption DEF TreeInv, Shape, Types, Follows, ChildrenOf, All
    <3>. QED BY <1>1, <3>1 DEF TreeInv, Shape, Rooted
  <2>. QED BY <1>1, <1>3, <2>1, ReachedIsLeast
<1>6. rooted \subseteq below
  <2> DEFINE T == {Len(url_[x]) : x \in rooted \ below}
  <2>1. SUFFICES ASSUME T # {} PROVE FALSE
    OBVIOUS
  <2>2. \A x \in rooted : Len(url_[x]) \in Nat
    BY <1>1, LengthsAre DEF TreeInv
  <2>3. T \in SUBSET Nat
    BY <2>2
  <2>4. PICK k \in T : \A j \in T : k <= j
    <3>. HIDE DEF T
    <3>. QED BY <2>1, <2>3, LeastNumber
  <2>5. PICK x \in rooted \ below : Len(url_[x]) = k
    BY <2>4
  <2>6. /\ parent_[x] # None /\ parent_[x] \in rooted /\ x \in Obj
    BY <1>1, <1>4, <2>5 DEF TreeInv, Shape, Types, Rooted, Follows
  <2>7. parent_[x] \notin below
    BY <1>4, <2>5, <2>6 DEF ChildrenOf
  <2>8. Len(url_[x]) = Len(url_[parent_[x]]) + 1
    BY <1>1, <2>5, <2>6, LengthsAre DEF TreeInv
  <2>9. Len(url_[parent_[x]]) \in T
    BY <2>6, <2>7
  <2>10. Len(url_[parent_[x]]) \in Nat /\ k <= Len(url_[parent_[x]])
    BY <2>2, <2>4, <2>6, <2>9
  <2>. QED BY <2>5, <2>8, <2>10
<1>. QED
  BY <1>2, <1>5, <1>6

(* The walk from the Root computes the urls the objects have. *)
LEMMA UrlsFromRoot ==
  ASSUME TreeInv, clears = 0
  PROVE  \A x \in rooted :
           UrlsBelow(rooted, [r \in {Root} |-> <<RootName>>])[x] = url_[x]
<1>1. PICK given : given = [r \in {Root} |-> <<RootName>>]
  OBVIOUS
<1>2. PICK urls : urls = UrlsBelow(rooted, given)
  OBVIOUS
<1>3. /\ rooted \subseteq All /\ Root \in rooted /\ DOMAIN given = {Root}
      /\ given[Root] = url_[Root]
  BY <1>1 DEF TreeInv, Shape, Types, Rooted
<1>4. \A x \in rooted : x # Root =>
        /\ parent_[x] # None /\ parent_[x] \in rooted
        /\ url_[x] = Append(url_[parent_[x]], name_[x])
  BY <1>3 DEF TreeInv, Shape, Types, Rooted, Follows
<1>5. \A x \in rooted :
        /\ Len(url_[x]) \in Nat
        /\ x # Root => Len(url_[x]) = Len(url_[parent_[x]]) + 1
  BY <1>3, <1>4, LengthsAre DEF TreeInv
<1>6. \A x \in rooted : x # Root => Len(url_[parent_[x]]) < Len(url_[x])
  <2>. SUFFICES ASSUME NEW x \in rooted, x # Root
                PROVE  Len(url_[parent_[x]]) < Len(url_[x])
    OBVIOUS
  <2>1. Len(url_[parent_[x]]) \in Nat /\ Len(url_[x]) = Len(url_[parent_[x]]) + 1
    BY <1>4, <1>5
  <2>. QED BY <2>1
<1>7. Climbs(rooted, given)
  BY <1>3, <1>4, <1>5, <1>6 DEF Climbs
<1>8. urls = [x \in rooted |-> OneUrl(urls, given, x)]
  BY <1>2, <1>7, UrlsBelowFits DEF Urls
<1>9. /\ urls[Root] = url_[Root]
      /\ \A x \in rooted : x # Root => urls[x] = Append(urls[parent_[x]], name_[x])
  BY <1>3, <1>8 DEF OneUrl
<1>10. \A x \in rooted : urls[x] = url_[x]
  <2> DEFINE T == {Len(url_[x]) : x \in {y \in rooted : urls[y] # url_[y]}}
  <2>1. SUFFICES ASSUME T # {} PROVE FALSE
    OBVIOUS
  <2>2. T \in SUBSET Nat
    BY <1>5
  <2>3. PICK k \in T : \A j \in T : k <= j
    <3>. HIDE DEF T
    <3>. QED BY <2>1, <2>2, LeastNumber
  <2>4. PICK x \in rooted : urls[x] # url_[x] /\ Len(url_[x]) = k
    BY <2>3
  <2>5. x # Root /\ parent_[x] \in rooted
    BY <1>4, <1>9, <2>4
  <2>6. urls[parent_[x]] # url_[parent_[x]]
    BY <1>4, <1>9, <2>4, <2>5
  <2>7. Len(url_[parent_[x]]) \in T
    BY <2>5, <2>6
  <2>8. /\ Len(url_[parent_[x]]) \in Nat /\ k <= Len(url_[parent_[x]])
        /\ Len(url_[parent_[x]]) < Len(url_[x]) /\ Len(url_[x]) \in Nat
    <3>1. Len(url_[parent_[x]]) < Len(url_[x]) /\ Len(url_[x]) \in Nat
      BY <1>5, <1>6, <2>4, <2>5
    <3>2. Len(url_[parent_[x]]) \in Nat /\ k <= Len(url_[parent_[x]])
      BY <2>2, <2>3, <2>7
    <3>. QED BY <3>1, <3>2
  <2>. HIDE DEF T
  <2>. QED BY <2>4, <2>8
<1>. QED
  BY <1>1, <1>2, <1>10

(* A row of children is as long as there are children. *)
LEMMA RowCounts ==
  ASSUME NEW vec \in Seq(Obj), NEW kids, NEW keep, InRow(vec, kids, keep)
  PROVE  ToSet(vec) = kids /\ Len(vec) = Cardinality({<<name_[x], x>> : x \in kids})
<1>1. DOMAIN vec = 1..Len(vec) /\ Len(vec) \in Nat
  OBVIOUS
<1>2. ToSet(vec) = kids
  BY DEF ToSet, InRow
<1>3. PICK entries : entries = {<<name_[x], x>> : x \in kids}
  OBVIOUS
<1>4. PICK f : f = [i \in 1..Len(vec) |-> <<name_[vec[i]], vec[i]>>]
  OBVIOUS
<1>5. f \in Bijection(1..Len(vec), entries)
  <2>1. ASSUME NEW i \in 1..Len(vec) PROVE f[i] \in entries
    BY <1>1, <1>3, <1>4 DEF InRow
  <2>2. f \in [1..Len(vec) -> entries]
    BY <1>4, <2>1
  <2>3. ASSUME NEW i \in 1..Len(vec), NEW j \in 1..Len(vec), f[i] = f[j] PROVE i = j
    <3>1. f[i][2] = vec[i] /\ f[j][2] = vec[j]
      BY <1>4
    <3>2. vec[i] = vec[j]
      BY <2>3, <3>1
    <3>. QED BY <1>1, <3>2 DEF InRow
  <2>4. ASSUME NEW e \in entries PROVE \E i \in 1..Len(vec) : f[i] = e
    <3>1. PICK x \in kids : e = <<name_[x], x>>
      BY <1>3
    <3>2. PICK i \in DOMAIN vec : vec[i] = x
      BY DEF InRow
    <3>. QED BY <1>1, <1>4, <3>1, <3>2
  <2>. QED BY <2>2, <2>3, <2>4 DEF Bijection, Injection, IsInjective, Surjection
<1>6. ExistsBijection(1..Len(vec), entries)
  BY <1>5 DEF ExistsBijection
<1>7. IsFiniteSet(1..Len(vec)) /\ Cardinality(1..Len(vec)) = Len(vec)
  <2>1. /\ IsFiniteSet(1..Len(vec))
        /\ Cardinality(1..Len(vec)) = IF 1 > Len(vec) THEN 0 ELSE Len(vec) - 1 + 1
    BY <1>1, FS_Interval
  <2>. QED BY <1>1, <2>1
<1>8. Cardinality(entries) = Cardinality(1..Len(vec))
  BY <1>6, <1>7, FS_Bijection
<1>. QED
  BY <1>2, <1>3, <1>7, <1>8

(* The invariant implies the first property ... *)
LEMMA TreeInvIsSound == TreeInv => TreeIsSound
<1>. SUFFICES ASSUME TreeInv PROVE TreeIsSound
  OBVIOUS
<1>1. \A p \in All :
        /\ Kids(p) = ChildrenOf(p) /\ ChildrenOf(p) \subseteq Obj \cap live
        /\ children_[p] = {<<name_[x], x>> : x \in ChildrenOf(p)}
  <2>1. \A p \in All : ChildrenOf(p) \subseteq Obj \cap live
    BY ObjAssumption DEF TreeInv, Shape, Follows, ChildrenOf, All
  <2>. QED BY <2>1, KidsAreChildren DEF TreeInv, Hashes
<1>2. \A p \in All : \A e \in children_[p] :
        /\ e[2] \in Obj \cap live /\ parent_[e[2]] = p
        /\ name_[e[2]] = e[1] /\ e = <<name_[e[2]], e[2]>>
  <2>. SUFFICES ASSUME NEW p \in All, NEW e \in children_[p]
                PROVE  /\ e[2] \in Obj \cap live /\ parent_[e[2]] = p
                       /\ name_[e[2]] = e[1] /\ e = <<name_[e[2]], e[2]>>
    OBVIOUS
  <2>1. PICK x \in ChildrenOf(p) : e = <<name_[x], x>>
    BY <1>1
  <2>2. x \in Obj \cap live /\ parent_[x] = p
    BY <1>1, <2>1 DEF ChildrenOf
  <2>. QED BY <2>1, <2>2
<1>3. TypeOK
  BY <1>2 DEF TypeOK, TreeInv, Shape, Types
<1>4. live \subseteq All
  BY DEF TreeInv, Shape, Types
<1>5. ChildrenAgree
  <2>. SUFFICES ASSUME clears = 0, NEW p \in live
                PROVE  /\ ToSet(children_vector_[p]) = Kids(p)
                       /\ Len(children_vector_[p]) = Cardinality(children_[p])
                       /\ \A e \in children_[p] : parent_[e[2]] = p /\ name_[e[2]] = e[1]
    BY DEF ChildrenAgree
  <2>1. /\ children_vector_[p] \in Seq(Obj)
        /\ InRow(children_vector_[p], ChildrenOf(p), keep_last_)
    BY <1>4 DEF TreeInv, Shape, Types, Vectors
  <2>2. /\ ToSet(children_vector_[p]) = ChildrenOf(p)
        /\ Len(children_vector_[p]) = Cardinality({<<name_[x], x>> : x \in ChildrenOf(p)})
    BY <2>1, RowCounts
  <2>. QED BY <1>1, <1>2, <1>4, <2>2
<1>6. LookupIsReachability
  <2>. SUFFICES ASSUME clears = 0
                PROVE  LET urls == UrlsBelow(Subtree(Root), [x \in {Root} |-> <<RootName>>])
                       IN  objects_ = {<<urls[x], x>> : x \in Subtree(Root)}
    BY DEF LookupIsReachability
  <2>1. PICK urls : urls = UrlsBelow(rooted, [x \in {Root} |-> <<RootName>>])
    OBVIOUS
  <2>2. \A x \in rooted : urls[x] = url_[x]
    BY <2>1, UrlsFromRoot
  <2>3. Subtree(Root) = rooted
    BY RootedIsSubtree
  <2>4. objects_ = {<<url_[x], x>> : x \in rooted}
    BY DEF TreeInv, Dictionary, Answering
  <2>5. objects_ = {<<urls[x], x>> : x \in rooted}
    BY <2>2, <2>4
  <2>. QED BY <2>1, <2>3, <2>5
<1>7. SiblingsDiffer
  <2>. SUFFICES ASSUME NEW p \in All, NEW d \in children_[p], NEW e \in children_[p],
                       d[1] = e[1]
                PROVE  d = e
    BY <1>4 DEF SiblingsDiffer
  <2>1. /\ d[2] \in Obj /\ parent_[d[2]] = p /\ name_[d[2]] = d[1] /\ d = <<name_[d[2]], d[2]>>
        /\ e[2] \in Obj /\ parent_[e[2]] = p /\ name_[e[2]] = e[1] /\ e = <<name_[e[2]], e[2]>>
    BY <1>2
  <2>2. p # None
    BY ObjAssumption DEF All
  <2>3. d[2] = e[2]
    BY <2>1, <2>2 DEF TreeInv, Shape, Siblings
  <2>. QED BY <2>1, <2>3
<1>8. LookupIsSound
  <2>. SUFFICES ASSUME NEW e \in objects_ PROVE e[2] \in rooted /\ url_[e[2]] = e[1]
    BY DEF LookupIsSound
  <2>1. PICK x \in rooted : e = <<url_[x], x>>
    BY DEF TreeInv, Dictionary, Answering
  <2>. QED BY <2>1
<1>. QED
  BY <1>3, <1>5, <1>6, <1>7, <1>8 DEF TreeIsSound

(* ... and the second. *)
LEMMA TreeInvKeepsLast == TreeInv => KeptLast
<1>. SUFFICES ASSUME TreeInv PROVE KeptLast
  OBVIOUS
<1>1. \A p \in live : p \in All
  BY DEF TreeInv, Shape, Types
<1>. QED
  BY <1>1 DEF TreeInv, Vectors, InRow, KeptLast

(* TreeInv holds in every state. *)
LEMMA TreeIsInvariant == Spec => []TreeInv
BY InitTree, NextTree, PTL DEF Spec

(* Whatever objects are adopted, renamed, held and released in whatever     *)
(* order, the hash and the vector of children, the children's own parents   *)
(* and names and the Root's dictionary of urls tell of the same tree        *)
(* (register_child, unregister_child, moved, ~Object); after Object::clear  *)
(* the dictionary still finds nothing that is gone.                         *)
THEOREM TreeStaysSound == Spec => []TreeIsSound
BY TreeIsInvariant, TreeInvIsSound, PTL

(* The children that are to be kept last are behind the others, wherever    *)
(* register_child inserts and whatever it reads of objects that are gone.   *)
THEOREM LastStaysLast == Spec => []KeptLast
BY TreeIsInvariant, TreeInvKeepsLast, PTL

=============================================================================
