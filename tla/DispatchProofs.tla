---------------------------- MODULE DispatchProofs ----------------------------
(***************************************************************************)
(* Proofs about Dispatch, for any nodes, watchers, trees, factories and      *)
(* calls, and with datagrams lost, doubled and overtaken: a mirror has only  *)
(* what its remote has had (MirrorIsSound) and, when nothing is lost, all of *)
(* it (MirrorIsComplete); who calls is answered (CallersAreAnswered).       *)
(***************************************************************************)
EXTENDS Dispatch, WellFoundedInduction, SequenceTheorems, TLAPS

(* A message says what its sender has had: a listing, attributes, a value;   *)
(* and a watcher asks for the attributes of what its remote has had.         *)
Lists(m, n) ==
  m.arg.path = ListAttPath /\ Has(m.arg.res, "entries") =>
    \A e \in m.arg.res.entries :
      /\ e.path \in Ever(n) /\ Up(e.path) = m.arg.res.of
      /\ e.attrs.type = AttrsOf(e.path).type

Tells(m, n) ==
  m.arg.path = AttrsPath /\ m.arg.res.is = "about" =>
    /\ m.arg.res.of \in Ever(n)
    /\ Has(m.arg.res, "attrs") =>
         m.arg.res.attrs.type \in {"none", AttrsOf(m.arg.res.of).type}

Measures(m, n) ==
  m.arg.res.is = "real" => <<m.arg.path, m.arg.res.num>> \in ever[n]

Truthful(m) ==
  /\ m.to \in Watcher /\ m.from = Remote[m.to] /\ m.path = ReplyPath =>
       Lists(m, m.from) /\ Tells(m, m.from) /\ Measures(m, m.from)
  /\ m.from \in Watcher /\ m.to = Remote[m.from] /\ m.path = AttrsPath /\ m.arg.is = "string" =>
       m.arg.str \in Ever(m.to)

IsOn(f, S) == f = [x \in S |-> f[x]]

Shape ==
  /\ IsABag(net)
  /\ IsOn(objects, Node) /\ \A n \in Node : IsOn(objects[n], DOMAIN objects[n])
  /\ IsOn(mirror, Watcher) /\ \A c \in Watcher : IsOn(mirror[c], DOMAIN mirror[c])
  /\ IsOn(attached, Watcher) /\ IsOn(told, Watcher)
  /\ IsOn(ever, Node) /\ IsOn(observers_, Node) /\ IsOn(waiting, Node)

(* The objects there are have been there, under what has been there. *)
Kept(n) ==
  /\ \A p \in DOMAIN objects[n] : p \in Path /\ <<p, objects[n][p]>> \in ever[n]
  /\ \A p \in Ever(n) : p \in Path \cup MetaPath /\ Up(p) \in Ever(n) \cup {Root_}

IsProxy(proxy) ==
  proxy = [attrs |-> proxy.attrs, value |-> proxy.value, phase |-> proxy.phase,
           toSend |-> proxy.toSend, needSync |-> proxy.needSync]

Ghost(c, p) ==
  LET proxy == mirror[c][p] IN
  /\ IsProxy(proxy)
  /\ p \in Ever(Remote[c])
  /\ proxy.attrs.type \in {"none", AttrsOf(p).type}
  /\ proxy.value.is = "real" => <<p, proxy.value.num>> \in ever[Remote[c]]
  /\ proxy.toSend.is # "string"
  /\ Up(p) \in Mirrored(c)

GhostInv ==
  /\ Shape
  /\ \A n \in Node : Kept(n)
  /\ \A c \in Watcher : \A p \in DOMAIN mirror[c] : Ghost(c, p)
  /\ \A m \in BagToSet(net) : Truthful(m)

(* The call of n, or its answer, is under way. *)
Coming(m, n) ==
  \/ m.from = n /\ m.to \in Node /\ m.path = waiting[n] /\ m.path \notin {ReplyPath, RegisterPath}
  \/ m.to = n /\ m.path = ReplyPath /\ m.arg.path = waiting[n]
  \/ m.to = n /\ m.path = ErrorPath

Answers ==
  "lost" \notin broken =>
    \A n \in Node : waiting[n] = Root_ \/ \E m \in BagToSet(net) : Coming(m, n)

(* What c has to hear of p is under way. *)
Listing(c) == Msg(c, Remote[c], ListAttPath, Str(Root_)) \in BagToSet(net)

Listed(m, c, p) ==
  /\ m.from = Remote[c] /\ m.to = c /\ m.path = ReplyPath
  /\ m.arg.path = ListAttPath /\ Has(m.arg.res, "entries") /\ m.arg.res.of = Root_
  /\ \E e \in m.arg.res.entries : e.path = p

Announced(m, c, p) ==
  /\ m.from = Remote[c] /\ m.to = c /\ m.path = ReplyPath
  /\ m.arg.path = AttrsPath /\ m.arg.res.is = "about" /\ m.arg.res.of = p

(* A watcher is observed, or asks for a listing as it should be.             *)
Observes(c) == Listing(c) \/ c \in observers_[Remote[c]]

HasListed(c) ==
  Remote[c] \in HasMeta =>
    \A p \in DOMAIN objects[Remote[c]] : Len(p) = 1 /\ Builds(p) =>
      \/ p \in DOMAIN mirror[c] \/ Listing(c)
      \/ \E m \in BagToSet(net) : Listed(m, c, p) \/ Announced(m, c, p)

HasBeenTold(c) ==
  "cut" \notin broken =>
    \A p \in told[c] : Builds(SubSeq(p, 1, 1)) =>
      p \in DOMAIN mirror[c] \/ \E m \in BagToSet(net) : Announced(m, c, p)

Complete(c) ==
  /\ attached[c] /\ "lost" \notin broken => Observes(c) /\ HasListed(c) /\ HasBeenTold(c)
  /\ told[c] \subseteq Path
  /\ "cut" \notin broken /\ told[c] # {} => attached[c]

CompleteInv == \A c \in Watcher : Complete(c)

-----------------------------------------------------------------------------
(* Numbers, paths, bags *)

(* A set of numbers that is not empty has a least one. *)
LEMMA LeastNumber ==
  ASSUME NEW T \in SUBSET Nat, T # {}
  PROVE  \E n \in T : \A m \in T : n <= m
<1>1. IsWellFoundedOn(OpToRel(<, Nat), Nat)
  BY NatLessThanWellFounded
<1>2. PICK n \in T : \A m \in T : <<m, n>> \notin OpToRel(<, Nat)
  BY <1>1, WFMin
<1>3. \A m \in T : ~(m < n)
  BY <1>2 DEF OpToRel
<1>. QED
  BY <1>3

LEMMA UpFacts ==
  ASSUME NEW S, NEW p \in Seq(S), p # <<>>
  PROVE  /\ Len(p) \in Nat /\ Len(p) >= 1
         /\ Up(p) \in Seq(S) /\ Len(Up(p)) = Len(p) - 1
         /\ Append(Up(p), p[Len(p)]) = p
<1>1. Len(p) \in Nat /\ Len(p) >= 1
  OBVIOUS
<1>2. Up(p) \in Seq(S) /\ Len(Up(p)) = Len(p) - 1 /\ \A i \in 1..(Len(p) - 1) : Up(p)[i] = p[i]
  <2>1. \A i \in 1..(Len(p) - 1) : p[i] \in S
    BY <1>1
  <2>2. PICK k \in Nat : k = Len(p) - 1
    BY <1>1
  <2>. DEFINE q == SubSeq(p, 1, k)
  <2>3. /\ q \in Seq(S)
        /\ Len(q) = IF 1 <= k THEN k - 1 + 1 ELSE 0
        /\ \A i \in 1..(k - 1 + 1) : q[i] = p[1 + i - 1]
    BY <2>1, <2>2, SubSeqProperties
  <2>. HIDE DEF q
  <2>4. Len(q) = k /\ \A i \in 1..k : q[i] = p[i]
    BY <2>3
  <2>. QED
    BY <2>2, <2>3, <2>4 DEF q, Up
<1>3. p[Len(p)] \in S
  BY <1>1
<1>4. Append(Up(p), p[Len(p)]) = p
  BY <1>1, <1>2, <1>3
<1>. QED
  BY <1>1, <1>2, <1>4

LEMMA PrefixFacts ==
  ASSUME NEW S, NEW p \in Seq(S), NEW i \in 1..Len(p)
  PROVE  /\ SubSeq(p, 1, i) \in Seq(S) /\ Len(SubSeq(p, 1, i)) = i
         /\ Up(SubSeq(p, 1, i)) = SubSeq(p, 1, i - 1)
         /\ SubSeq(p, 1, Len(p)) = p /\ SubSeq(p, 1, 0) = <<>>
<1>1. SubSeq(p, 1, i) \in Seq(S) /\ Len(SubSeq(p, 1, i)) = i
      /\ \A k \in 1..i : SubSeq(p, 1, i)[k] = p[k]
  OBVIOUS
<1>2. Up(SubSeq(p, 1, i)) = SubSeq(p, 1, i - 1)
  BY <1>1 DEF Up
<1>3. SubSeq(p, 1, Len(p)) = p
  OBVIOUS
<1>4. SubSeq(p, 1, 0) = <<>>
  OBVIOUS
<1>. QED
  BY <1>1, <1>2, <1>3, <1>4

LEMMA MetaFacts ==
  ASSUME NEW p \in MetaPath
  PROVE  (\E x : p \in Seq({x})) /\ Len(p) = 1 /\ p # Root_ /\ Up(p) = Root_
<1>1. PICK x : p = <<x>>
  BY DEF MetaPath, ErrorPath, InfoPath, ListPath, ListAttPath, AttrsPath, TreePath
<1>2. p \in Seq({x}) /\ Len(p) = 1
  BY <1>1
<1>3. Up(p) = Root_
  BY <1>2, SubSeqEmpty DEF Up, Root_
<1>4. p # Root_
  BY <1>2 DEF Root_
<1>. QED
  BY <1>2, <1>3, <1>4

(* The names of the meta methods, register and reply are different. *)
LEMMA NamesDiffer ==
  /\ ReplyPath \notin MetaPath /\ RegisterPath \notin MetaPath /\ ReplyPath # RegisterPath
  /\ AttrsPath # ListAttPath /\ AttrsPath # ErrorPath /\ ListAttPath # ErrorPath
  /\ AttrsPath # ReplyPath /\ AttrsPath # RegisterPath
  /\ ListAttPath # ReplyPath /\ ListAttPath # RegisterPath
  /\ ErrorPath # ReplyPath /\ ErrorPath # RegisterPath
  /\ ListPath \notin {AttrsPath, ListAttPath, TreePath} /\ TreePath \notin {AttrsPath, ListAttPath}
  /\ AttrsPath \in MetaPath /\ ListAttPath \in MetaPath /\ ErrorPath \in MetaPath
  /\ Root_ \notin MetaPath
<1>1. \A x, y : <<x>> = <<y>> => x = y
  OBVIOUS
<1>2. ReplyPath \notin MetaPath /\ RegisterPath \notin MetaPath /\ ReplyPath # RegisterPath
  BY <1>1 DEF MetaPath, ErrorPath, InfoPath, ListPath, ListAttPath, AttrsPath, TreePath,
              ReplyPath, RegisterPath
<1>3. AttrsPath # ListAttPath /\ AttrsPath # ErrorPath /\ ListAttPath # ErrorPath
  BY <1>1 DEF AttrsPath, ListAttPath, ErrorPath
<1>4. ListPath \notin {AttrsPath, ListAttPath, TreePath} /\ TreePath \notin {AttrsPath, ListAttPath}
  BY <1>1 DEF AttrsPath, ListAttPath, ListPath, TreePath
<1>5. AttrsPath \in MetaPath /\ ListAttPath \in MetaPath /\ ErrorPath \in MetaPath
  BY DEF MetaPath
<1>6. Root_ \notin MetaPath
  BY MetaFacts
<1>. QED
  BY <1>2, <1>3, <1>4, <1>5, <1>6

LEMMA PathFacts ==
  ASSUME NEW p \in Path
  PROVE  p \in Seq(STRING) /\ Len(p) >= 1 /\ p # Root_ /\ p \notin MetaPath /\ p # ReplyPath /\ p # RegisterPath
BY DispatchAssumption DEF Root_, IsMeta

(* What is closed under Up is closed under every prefix.                    *)
LEMMA PrefixesIn ==
  ASSUME NEW S, NEW X, NEW p \in Seq(S), p \in X, \A q \in X : Up(q) \in X \cup {Root_}
  PROVE  \A i \in 1..Len(p) : SubSeq(p, 1, i) \in X
<1>. DEFINE T == {d \in 0..(Len(p) - 1) : SubSeq(p, 1, Len(p) - d) \notin X}
<1>0. /\ T \in SUBSET Nat /\ Len(p) \in Nat
      /\ \A d \in 0..(Len(p) - 1) : d \in T <=> SubSeq(p, 1, Len(p) - d) \notin X
      /\ \A d \in T : d \in 0..(Len(p) - 1)
  OBVIOUS
<1>. HIDE DEF T
<1>1. ASSUME T # {} PROVE FALSE
  <2>1. PICK d \in T : \A e \in T : d <= e
    BY <1>0, <1>1, LeastNumber
  <2>2. d # 0
    <3>1. Len(p) \in 1..Len(p) /\ Len(p) - 0 = Len(p)
      BY <1>0, <2>1
    <3>2. SubSeq(p, 1, Len(p)) = p
      BY <3>1, PrefixFacts
    <3>. QED
      BY <1>0, <2>1, <3>1, <3>2
  <2>3. d - 1 \notin T /\ d - 1 \in 0..(Len(p) - 1)
    BY <1>0, <2>1, <2>2
  <2>. DEFINE k == Len(p) - d
  <2>4. k \in 1..(Len(p) - 1) /\ k + 1 \in 1..Len(p) /\ k + 1 = Len(p) - (d - 1)
    BY <1>0, <2>1, <2>2
  <2>5. SubSeq(p, 1, k + 1) \in X
    BY <1>0, <2>3, <2>4
  <2>. HIDE DEF k
  <2>6. Up(SubSeq(p, 1, k + 1)) = SubSeq(p, 1, k) /\ SubSeq(p, 1, k) # Root_
    <3>1. Up(SubSeq(p, 1, k + 1)) = SubSeq(p, 1, (k + 1) - 1)
      BY <2>4, PrefixFacts
    <3>2. (k + 1) - 1 = k /\ k \in 1..Len(p)
      BY <1>0, <2>4
    <3>3. Len(SubSeq(p, 1, k)) = k
      BY <3>2, PrefixFacts
    <3>. QED
      BY <2>4, <3>1, <3>2, <3>3 DEF Root_
  <2>. QED
    BY <1>0, <2>1, <2>5, <2>6 DEF k
<1>2. ASSUME NEW i \in 1..Len(p) PROVE SubSeq(p, 1, i) \in X
  <2>1. Len(p) - i \in 0..(Len(p) - 1) /\ Len(p) - (Len(p) - i) = i
    BY <1>0
  <2>. QED
    BY <1>0, <1>1, <2>1
<1>. QED
  BY <1>2

LEMMA SentBag ==
  ASSUME IsABag(net), NEW sent, SendAll(sent)
  PROVE  IsABag(net') /\ BagToSet(net') = BagToSet(net) \cup sent
<1>1. net' = [e \in DOMAIN net \cup sent |->
                (IF e \in DOMAIN net THEN net[e] ELSE 0) + (IF e \in sent THEN 1 ELSE 0)]
  BY DEF SendAll, SetToBag, (+)
<1>2. \A e \in DOMAIN net : net[e] \in Nat /\ net[e] > 0
  BY DEF IsABag
<1>. QED
  BY <1>1, <1>2 DEF IsABag, BagToSet

LEMMA ExchangedBag ==
  ASSUME IsABag(net), NEW m, NEW sent, Exchange(m, sent)
  PROVE  /\ IsABag(net')
         /\ BagToSet(net') \subseteq BagToSet(net) \cup sent
         /\ sent \subseteq BagToSet(net')
         /\ \A w \in BagToSet(net) : w = m \/ w \in BagToSet(net')
<1>. DEFINE left(e) == IF e = m THEN net[e] - 1 ELSE net[e]
            rest == net (-) SetToBag({m})
<1>1. rest = [e \in {d \in DOMAIN net : left(d) > 0} |-> left(e)]
  BY DEF SetToBag, (-)
<1>2. \A e \in DOMAIN net : net[e] \in Nat /\ net[e] > 0
  BY DEF IsABag
<1>3. /\ DOMAIN rest \subseteq DOMAIN net
      /\ \A e \in DOMAIN rest : rest[e] \in Nat /\ rest[e] > 0
      /\ \A e \in DOMAIN net : e = m \/ e \in DOMAIN rest
  BY <1>1, <1>2
<1>4. net' = rest (+) SetToBag(sent)
  BY DEF Exchange
<1>. HIDE DEF rest
<1>5. net' = [e \in DOMAIN rest \cup sent |->
                (IF e \in DOMAIN rest THEN rest[e] ELSE 0) + (IF e \in sent THEN 1 ELSE 0)]
  BY <1>4 DEF SetToBag, (+)
<1>. QED
  BY <1>3, <1>5 DEF IsABag, BagToSet

-----------------------------------------------------------------------------
(* What keeps the mirrors sound *)

LEMMA EverGrows ==
  ASSUME \A n \in Node : ever[n] \subseteq ever'[n], NEW n \in Node
  PROVE  Ever(n) \subseteq Ever(n)'
BY DEF Ever

LEMMA EverHas ==
  ASSUME NEW n, NEW p, NEW v, <<p, v>> \in ever[n]
  PROVE  p \in Ever(n)
<1>1. <<p, v>>[1] = p
  OBVIOUS
<1>. QED
  BY <1>1 DEF Ever

LEMMA EverWith ==
  ASSUME NEW n, NEW p, NEW v, ever'[n] = ever[n] \cup {<<p, v>>}
  PROVE  Ever(n)' = Ever(n) \cup {p}
<1>1. <<p, v>>[1] = p
  OBVIOUS
<1>2. {e[1] : e \in ever[n] \cup {<<p, v>>}} = {e[1] : e \in ever[n]} \cup {p}
  BY <1>1
<1>. QED
  BY <1>2 DEF Ever

LEMMA TruthStays ==
  ASSUME \A n \in Node : ever[n] \subseteq ever'[n], NEW m, Truthful(m)
  PROVE  Truthful(m)'
<1>1. \A c \in Watcher : Remote[c] \in Node
  BY DispatchAssumption
<1>2. \A n \in Node : \A p : p \in Ever(n) => p \in Ever(n)'
  BY EverGrows
<1>3. ASSUME m.to \in Watcher, m.from = Remote[m.to], m.path = ReplyPath
      PROVE  Lists(m, m.from)' /\ Tells(m, m.from)' /\ Measures(m, m.from)'
  <2>1. m.from \in Node /\ Lists(m, m.from) /\ Tells(m, m.from) /\ Measures(m, m.from)
    BY <1>1, <1>3 DEF Truthful
  <2>2. Lists(m, m.from)'
    BY <1>2, <2>1 DEF Lists
  <2>3. Tells(m, m.from)'
    BY <1>2, <2>1 DEF Tells
  <2>4. Measures(m, m.from)'
    BY <2>1 DEF Measures
  <2>. QED
    BY <2>2, <2>3, <2>4
<1>4. ASSUME m.from \in Watcher, m.to = Remote[m.from], m.path = AttrsPath, m.arg.is = "string"
      PROVE  (m.arg.str \in Ever(m.to))'
  BY <1>1, <1>2, <1>4 DEF Truthful
<1>. QED
  BY <1>3, <1>4 DEF Truthful

LEMMA GhostsStay ==
  ASSUME GhostInv, \A n \in Node : ever[n] \subseteq ever'[n], NEW c \in Watcher,
         NEW p \in DOMAIN mirror[c], mirror'[c][p] = mirror[c][p],
         DOMAIN mirror[c] \subseteq DOMAIN mirror'[c]
  PROVE  Ghost(c, p)'
<1>1. Ghost(c, p) /\ Remote[c] \in Node
  BY DispatchAssumption DEF GhostInv
<1>2. p \in Ever(Remote[c])'
  BY <1>1, EverGrows DEF Ghost
<1>. QED
  BY <1>1, <1>2 DEF Ghost, Mirrored

(* What a step leaves to be shown. *)
LEMMA StaysTrue ==
  ASSUME GhostInv, \A n \in Node : ever[n] \subseteq ever'[n], Shape',
         \A n \in Node : Kept(n)',
         \A c \in Watcher : \A p \in DOMAIN mirror'[c] : Ghost(c, p)',
         NEW sent, BagToSet(net') \subseteq BagToSet(net) \cup sent,
         \A m \in sent : Truthful(m)'
  PROVE  GhostInv'
<1>1. \A m \in BagToSet(net') : Truthful(m)'
  BY TruthStays DEF GhostInv
<1>. QED
  BY <1>1 DEF GhostInv

(* The trees stay as they are. *)
LEMMA TreeStays ==
  ASSUME GhostInv, UNCHANGED <<objects, ever>>, Shape',
         \A c \in Watcher : \A p \in DOMAIN mirror'[c] : Ghost(c, p)',
         NEW sent, BagToSet(net') \subseteq BagToSet(net) \cup sent,
         \A m \in sent : Truthful(m)'
  PROVE  GhostInv'
<1>1. \A n \in Node : Kept(n)'
  BY DEF GhostInv, Kept, Ever
<1>2. \A n \in Node : ever[n] \subseteq ever'[n]
  OBVIOUS
<1>. QED
  BY <1>1, <1>2, StaysTrue

(* The mirrors stay as well: only what is sent counts. *)
LEMMA OnlySends ==
  ASSUME GhostInv, UNCHANGED <<objects, ever, mirror>>, Shape',
         NEW sent, BagToSet(net') \subseteq BagToSet(net) \cup sent,
         \A m \in sent : Truthful(m)'
  PROVE  GhostInv'
<1>1. \A c \in Watcher : \A p \in DOMAIN mirror'[c] : Ghost(c, p)'
  BY GhostsStay
<1>. QED
  BY <1>1, TreeStays

(* Messages that say nothing of a tree. *)
LEMMA SaysNothing ==
  ASSUME NEW m, m.path # ReplyPath, m.path = AttrsPath => m.from \notin Watcher \/ m.arg.is # "string"
  PROVE  Truthful(m)'
BY DEF Truthful

(* The notification that an object has been registered. *)
LEMMA NewsIsTrue ==
  ASSUME NEW n \in Node, NEW o, NEW p \in Path, p \in Ever(n)',
         NEW m, m = Msg(n, o, ReplyPath, Reply(AttrsPath, AboutAttrs(p,
                    IF Signature[p] = "none" THEN NilAttrs ELSE Bare(Signature[p]))))
  PROVE  Truthful(m)'
<1>1. AttrsOf(p) = Whole(Signature[p])
  <2>1. p # Root_ /\ p # ErrorPath /\ p \notin MetaPath
    BY PathFacts, NamesDiffer
  <2>. QED
    BY <2>1 DEF AttrsOf
<1>2. m.path = ReplyPath /\ m.arg.path = AttrsPath /\ m.arg.res.is = "about" /\ m.arg.res.of = p
      /\ m.from = n /\ m.arg.res.attrs.type \in {"none", Signature[p]}
  BY DEF Msg, Reply, AboutAttrs, NilAttrs, Bare
<1>3. AttrsPath # ListAttPath /\ AttrsPath # ReplyPath
  BY NamesDiffer
<1>. QED
  BY <1>1, <1>2, <1>3 DEF Truthful, Lists, Tells, Measures, Whole

LEMMA RegisteredIsTrue ==
  ASSUME IsABag(net), NEW n \in Node, NEW ps \in SUBSET Path, Registered(n, ps),
         \A p \in ps : p \in Ever(n)'
  PROVE  /\ IsABag(net') /\ IsOn(told', Watcher)
         /\ \E sent : /\ BagToSet(net') \subseteq BagToSet(net) \cup sent
                      /\ \A m \in sent : Truthful(m)'
<1>. DEFINE news(p) == AboutAttrs(p, IF Signature[p] = "none" THEN NilAttrs ELSE Bare(Signature[p]))
            sent == UNION {Notification(n, AttrsPath, news(p)) : p \in ps}
<1>1. SendAll(sent) /\ IsOn(told', Watcher)
  BY DEF Registered, IsOn
<1>2. \A m \in sent : Truthful(m)'
  <2>1. ASSUME NEW m \in sent PROVE Truthful(m)'
    <3>1. PICK p \in ps : m \in Notification(n, AttrsPath, news(p))
      OBVIOUS
    <3>2. PICK o : m = Msg(n, o, ReplyPath, Reply(AttrsPath, news(p)))
      BY <3>1 DEF Notification
    <3>. QED
      BY <3>2, NewsIsTrue
  <2>. QED
    BY <2>1
<1>. QED
  BY <1>1, <1>2, SentBag

(* Everything that is Known to a node has been there. *)
LEMMA KnownIsEver ==
  ASSUME GhostInv, NEW n \in Node, NEW p \in Known(n), p # Root_
  PROVE  p \in Ever(n) /\ p \in Path \cup MetaPath
<1>1. Kept(n)
  BY DEF GhostInv
<1>2. CASE p \in DOMAIN objects[n]
  <2>1. p \in Path /\ <<p, objects[n][p]>> \in ever[n]
    BY <1>1, <1>2 DEF Kept
  <2>. QED
    BY <2>1, EverHas
<1>3. CASE n \in HasMeta /\ p \in MetaPath
  BY <1>3 DEF Ever
<1>. QED
  BY <1>2, <1>3 DEF Known

LEMMA BelowIsThere ==
  ASSUME GhostInv, NEW n \in Node, NEW p \in Path
  PROVE  Below(n, p) \subseteq DOMAIN objects[n]
<1>1. Len(p) \in Nat /\ Len(p) >= 1
  BY PathFacts
<1>2. Len(Root_) = 0 /\ \A q \in MetaPath : Len(q) = 1
  BY MetaFacts DEF Root_
<1>. QED
  BY <1>1, <1>2 DEF Below, Known

LEMMA AdoptGhost ==
  ASSUME GhostInv, NEW n \in Server, NEW p \in Path, Adopt(n, p)
  PROVE  GhostInv'
<1>. n \in Node
  BY DispatchAssumption
<1>. DEFINE with == [q \in DOMAIN objects[n] \cup {p} |-> IF q = p THEN Zero ELSE objects[n][q]]
<1>1. /\ Shape /\ Kept(n)
      /\ objects' = [objects EXCEPT ![n] = with]
      /\ ever' = [ever EXCEPT ![n] = ever[n] \cup {<<p, Zero>>}]
      /\ Up(p) \in DOMAIN objects[n] \cup {Root_}
      /\ UNCHANGED <<observers_, mirror, attached, broken, waiting>> /\ Registered(n, {p})
  BY DEF GhostInv, Adopt, mirrorVars
<1>2. /\ IsOn(ever', Node) /\ ever'[n] = ever[n] \cup {<<p, Zero>>}
      /\ \A k \in Node : k # n => ever'[k] = ever[k]
      /\ \A k \in Node : ever[k] \subseteq ever'[k]
  <2>1. IsOn(ever, Node)
    BY <1>1 DEF Shape
  <2>2. PICK w : w = ever[n] \cup {<<p, Zero>>}
    OBVIOUS
  <2>3. ever' = [ever EXCEPT ![n] = w]
    BY <1>1, <2>2
  <2>4. /\ IsOn(ever', Node) /\ ever'[n] = w
        /\ \A k \in Node : k # n => ever'[k] = ever[k]
    BY <2>1, <2>3 DEF IsOn
  <2>. QED
    BY <2>2, <2>4
<1>3. p \in Ever(n)' /\ \A q \in Ever(n)' : q = p \/ q \in Ever(n)
  <2>1. Ever(n)' = Ever(n) \cup {p}
    BY <1>2, EverWith
  <2>. QED
    BY <2>1
<1>4. /\ IsOn(objects', Node)
      /\ \A k \in Node : IsOn(objects'[k], DOMAIN objects'[k])
      /\ \A k \in Node : k # n => objects'[k] = objects[k]
      /\ DOMAIN objects'[n] = DOMAIN objects[n] \cup {p}
      /\ \A q \in DOMAIN objects'[n] : objects'[n][q] = IF q = p THEN Zero ELSE objects[n][q]
  <2>1. /\ IsOn(objects, Node)
        /\ \A k \in Node : IsOn(objects[k], DOMAIN objects[k])
    BY <1>1 DEF Shape
  <2>20. PICK w : w = with
    OBVIOUS
  <2>21. objects' = [objects EXCEPT ![n] = w]
    BY <1>1, <2>20
  <2>2. /\ IsOn(objects', Node) /\ objects'[n] = w
        /\ \A k \in Node : k # n => objects'[k] = objects[k]
    BY <2>1, <2>21 DEF IsOn
  <2>3. IsOn(with, DOMAIN with) /\ DOMAIN with = DOMAIN objects[n] \cup {p}
    BY DEF IsOn
  <2>4. w = with /\ \A q \in DOMAIN with : with[q] = IF q = p THEN Zero ELSE objects[n][q]
    BY <2>20
  <2>. HIDE DEF with
  <2>. QED
    BY <2>1, <2>2, <2>3, <2>4
<1>. DEFINE ps == {p}
<1>50. ps \in SUBSET Path /\ (\A q \in ps : q \in Ever(n)') /\ Registered(n, ps) /\ IsABag(net)
  BY <1>1, <1>3 DEF Shape
<1>. HIDE DEF ps
<1>5. PICK sent : /\ BagToSet(net') \subseteq BagToSet(net) \cup sent
                  /\ \A m \in sent : Truthful(m)'
  BY <1>50, RegisteredIsTrue
<1>6. IsABag(net') /\ IsOn(told', Watcher)
  BY <1>50, RegisteredIsTrue
<1>7. Shape'
  BY <1>1, <1>2, <1>4, <1>6 DEF Shape
<1>. HIDE DEF with
<1>8. \A k \in Node : Kept(k)'
  <2>1. ASSUME NEW k \in Node, k # n PROVE Kept(k)'
    BY <1>2, <1>4, <2>1 DEF GhostInv, Kept, Ever
  <2>2. Kept(n)'
    <3>1. \A q \in DOMAIN objects'[n] : q \in Path /\ <<q, objects'[n][q]>> \in ever'[n]
      BY <1>1, <1>2, <1>4 DEF Kept
    <3>2. Up(p) \in Ever(n)' \cup {Root_}
      <4>1. ASSUME Up(p) \in DOMAIN objects[n] PROVE Up(p) \in Ever(n)
        <5>1. PICK q : q = Up(p)
          OBVIOUS
        <5>2. <<q, objects[n][q]>> \in ever[n]
          BY <1>1, <4>1, <5>1 DEF Kept
        <5>3. q \in Ever(n)
          BY <5>2, EverHas
        <5>. QED
          BY <5>1, <5>3
      <4>2. Ever(n) \subseteq Ever(n)'
        BY <1>2, EverGrows
      <4>. QED
        BY <1>1, <4>1, <4>2
    <3>3. \A q \in Ever(n)' : q \in Path \cup MetaPath /\ Up(q) \in Ever(n)' \cup {Root_}
      BY <1>1, <1>2, <1>3, <3>2, EverGrows DEF Kept
    <3>. QED
      BY <3>1, <3>3 DEF Kept
  <2>. QED
    BY <2>1, <2>2
<1>9. \A c \in Watcher : \A q \in DOMAIN mirror'[c] : Ghost(c, q)'
  BY <1>1, <1>2, GhostsStay
<1>. QED
  BY <1>2, <1>5, <1>7, <1>8, <1>9, StaysTrue

LEMMA ReadoptGhost ==
  ASSUME GhostInv, NEW n \in Server, NEW p \in Path, Readopt(n, p)
  PROVE  GhostInv'
<1>. n \in Node
  BY DispatchAssumption
<1>1. /\ Shape /\ Kept(n) /\ p \in DOMAIN objects[n]
      /\ UNCHANGED <<objects, observers_, mirror, attached, broken, ever, waiting>>
      /\ Registered(n, {p} \cup Below(n, p))
  BY DEF GhostInv, Readopt, mirrorVars, treeVars
<1>. DEFINE ps == {p} \cup Below(n, p)
<1>2. ps \subseteq DOMAIN objects[n]
  BY <1>1, BelowIsThere
<1>3. \A q \in ps : q \in Path /\ q \in Ever(n)'
  <2>1. Ever(n)' = Ever(n)
    BY <1>1 DEF Ever
  <2>2. \A q \in DOMAIN objects[n] : q \in Path /\ <<q, objects[n][q]>> \in ever[n]
    BY <1>1 DEF Kept
  <2>3. \A q \in ps : q \in DOMAIN objects[n]
    BY <1>2
  <2>. HIDE DEF ps
  <2>. QED
    BY <2>1, <2>2, <2>3, EverHas
<1>4. ps \in SUBSET Path /\ Registered(n, ps)
  BY <1>1, <1>3
<1>. HIDE DEF ps
<1>5. PICK sent : /\ BagToSet(net') \subseteq BagToSet(net) \cup sent
                  /\ \A m \in sent : Truthful(m)'
  BY <1>1, <1>3, <1>4, RegisteredIsTrue DEF Shape
<1>6. IsABag(net') /\ IsOn(told', Watcher)
  BY <1>1, <1>3, <1>4, RegisteredIsTrue DEF Shape
<1>7. Shape'
  BY <1>1, <1>6 DEF Shape
<1>. QED
  BY <1>1, <1>5, <1>7, OnlySends

LEMMA DeleteGhost ==
  ASSUME GhostInv, NEW n \in Server, NEW p \in Path, Delete(n, p)
  PROVE  GhostInv'
<1>. n \in Node
  BY DispatchAssumption
<1>. DEFINE left == [q \in DOMAIN objects[n] \ ({p} \cup Below(n, p)) |-> objects[n][q]]
<1>1. /\ Shape /\ UNCHANGED <<observers_, mirror, attached, net, broken, ever, told, waiting>>
      /\ objects' = [objects EXCEPT ![n] = left]
  BY DEF GhostInv, Delete, mirrorVars, history
<1>2. /\ IsOn(objects', Node)
      /\ \A k \in Node : IsOn(objects'[k], DOMAIN objects'[k])
      /\ \A k \in Node : DOMAIN objects'[k] \subseteq DOMAIN objects[k]
      /\ \A k \in Node : \A q \in DOMAIN objects'[k] : objects'[k][q] = objects[k][q]
  <2>1. /\ IsOn(objects, Node)
        /\ \A k \in Node : IsOn(objects[k], DOMAIN objects[k])
    BY <1>1 DEF Shape
  <2>20. PICK w : w = left
    OBVIOUS
  <2>21. objects' = [objects EXCEPT ![n] = w]
    BY <1>1, <2>20
  <2>2. /\ IsOn(objects', Node) /\ objects'[n] = w
        /\ \A k \in Node : k # n => objects'[k] = objects[k]
    BY <2>1, <2>21 DEF IsOn
  <2>3. /\ DOMAIN left \subseteq DOMAIN objects[n] /\ IsOn(left, DOMAIN left)
        /\ \A q \in DOMAIN left : left[q] = objects[n][q]
    BY DEF IsOn
  <2>. HIDE DEF left
  <2>. QED
    BY <2>1, <2>2, <2>20, <2>3
<1>3. Shape'
  BY <1>1, <1>2 DEF Shape
<1>4. \A k \in Node : Kept(k)'
  BY <1>1, <1>2 DEF GhostInv, Kept, Ever
<1>5. \A c \in Watcher : \A q \in DOMAIN mirror'[c] : Ghost(c, q)'
  BY <1>1, GhostsStay
<1>6. \A k \in Node : ever[k] \subseteq ever'[k]
  BY <1>1
<1>7. PICK sent : sent = {}
  OBVIOUS
<1>8. BagToSet(net') \subseteq BagToSet(net) \cup sent /\ \A m \in sent : Truthful(m)'
  BY <1>1, <1>7
<1>. QED
  BY <1>3, <1>4, <1>5, <1>6, <1>8, StaysTrue


(* What becomes of a message that is not a reply. *)
LEMMA RegisterGhost ==
  ASSUME GhostInv, NEW m, ReceiveRegister(m)
  PROVE  GhostInv'
<1>1. /\ Shape /\ UNCHANGED <<objects, mirror, attached, broken, ever, told, waiting>>
      /\ Exchange(m, {})
  BY DEF GhostInv, ReceiveRegister, mirrorVars, history
<1>2. IsOn(observers_', Node)
  BY <1>1 DEF ReceiveRegister, Observe, Shape, IsOn
<1>3. PICK sent : sent = {} /\ IsABag(net') /\ BagToSet(net') \subseteq BagToSet(net) \cup sent
  BY <1>1, ExchangedBag DEF Shape
<1>4. Shape'
  BY <1>1, <1>2, <1>3 DEF Shape
<1>5. \A w \in sent : Truthful(w)'
  BY <1>3
<1>. QED
  BY <1>1, <1>3, <1>4, <1>5, OnlySends

(* One answer to the caller. *)
LEMMA AnswerGhost ==
  ASSUME GhostInv, NEW m, NEW answer, Exchange(m, {answer}), Truthful(answer)',
         UNCHANGED <<objects, mirror, attached, ever, told>>,
         IsOn(observers_', Node), IsOn(waiting', Node)
  PROVE  GhostInv'
<1>1. Shape
  BY DEF GhostInv
<1>2. PICK sent : sent = {answer} /\ IsABag(net') /\ BagToSet(net') \subseteq BagToSet(net) \cup sent
  BY <1>1, ExchangedBag DEF Shape
<1>3. Shape'
  BY <1>1, <1>2 DEF Shape
<1>4. \A w \in sent : Truthful(w)'
  BY <1>2
<1>. QED
  BY <1>2, <1>3, <1>4, OnlySends

LEMMA RefusedGhost ==
  ASSUME GhostInv, NEW m, ReceiveRefused(m)
  PROVE  GhostInv'
<1>. DEFINE answer == Msg(m.to, m.from, ErrorPath, Error)
<1>1. /\ Shape /\ UNCHANGED <<objects, mirror, attached, ever, told>>
      /\ Exchange(m, {answer})
  BY DEF GhostInv, ReceiveRefused, mirrorVars
<1>2. IsOn(observers_', Node) /\ IsOn(waiting', Node)
  BY <1>1 DEF ReceiveRefused, ObserveCaller, Observe, Shape, IsOn
<1>3. Truthful(answer)'
  <2>1. answer.path # ReplyPath /\ answer.path # AttrsPath
    BY NamesDiffer DEF Msg
  <2>. QED
    BY <2>1, SaysNothing
<1>. HIDE DEF answer
<1>. QED
  BY <1>1, <1>2, <1>3, AnswerGhost

(* What a meta method answers is true, if it is asked for the attributes of *)
(* what has been there.                                                     *)
LEMMA MetaIsTrue ==
  ASSUME GhostInv, UNCHANGED ever, NEW n \in Node, NEW path, NEW val,
         path = AttrsPath /\ val.is = "string" => val.str \in Ever(n),
         NEW m, m = Msg(n, m.to, ReplyPath, Reply(path, MetaAnswer(n, path, val)))
  PROVE  Lists(m, n)' /\ Tells(m, n)' /\ Measures(m, n)'
<1>0. Ever(n)' = Ever(n) /\ \A p : AttrsOf(p)' = AttrsOf(p)
  BY DEF Ever, AttrsOf
<1>1. m.arg.path = path /\ m.arg.res = MetaAnswer(n, path, val)
  BY DEF Msg, Reply
<1>2. CASE path = ErrorPath \/ val.is # "string"
  <2>1. m.arg.res = [is |-> "nil"]
    BY <1>1, <1>2 DEF MetaAnswer, Nil
  <2>. QED
    BY <2>1 DEF Lists, Tells, Measures, Has
<1>3. CASE path # ErrorPath /\ val.is = "string"
  <2>1. CASE val.str \notin Known(n)
    <3>1. m.arg.res = AboutNothing(val.str)
      BY <1>1, <1>3, <2>1 DEF MetaAnswer
    <3>2. m.arg.res.is = "about" /\ m.arg.res.of = val.str /\ ~Has(m.arg.res, "entries") /\ ~Has(m.arg.res, "attrs")
      BY <3>1 DEF AboutNothing, Has
    <3>. QED
      BY <1>0, <1>1, <1>3, <3>2 DEF Lists, Tells, Measures
  <2>2. CASE val.str \in Known(n) /\ path = AttrsPath
    <3>1. m.arg.res = AboutAttrs(val.str, AttrsOf(val.str))
      BY <1>1, <1>3, <2>2, NamesDiffer DEF MetaAnswer
    <3>2. m.arg.res.is = "about" /\ m.arg.res.of = val.str /\ m.arg.res.attrs = AttrsOf(val.str)
      BY <3>1 DEF AboutAttrs
    <3>. QED
      BY <1>0, <1>1, <1>3, <2>2, <3>2, NamesDiffer DEF Lists, Tells, Measures
  <2>3. CASE val.str \in Known(n) /\ path = ListAttPath
    <3>0. path # AttrsPath
      BY <2>3, NamesDiffer
    <3>1. m.arg.res = AboutChildren(val.str, Entries(n, val.str))
      BY <1>1, <1>3, <2>3, <3>0, NamesDiffer DEF MetaAnswer
    <3>2. m.arg.res.is = "about" /\ m.arg.res.of = val.str /\ m.arg.res.entries = Entries(n, val.str)
      BY <3>1 DEF AboutChildren
    <3>3. ASSUME NEW e \in Entries(n, val.str)
          PROVE  e.path \in Ever(n) /\ Up(e.path) = val.str /\ e.attrs = AttrsOf(e.path)
      <4>1. e.path \in ChildrenOf(n, val.str) /\ e.attrs = AttrsOf(e.path)
        BY DEF Entries
      <4>. QED
        BY <4>1, KnownIsEver DEF ChildrenOf
    <3>. QED
      BY <1>0, <1>1, <3>0, <3>2, <3>3 DEF Lists, Tells, Measures
  <2>4. CASE val.str \in Known(n) /\ path # AttrsPath /\ path # ListAttPath
    <3>1. m.arg.res.is = "about"
      BY <1>1, <1>3, <2>4 DEF MetaAnswer, AboutNames, AboutInfo
    <3>. QED
      BY <1>1, <2>4, <3>1 DEF Lists, Tells, Measures
  <2>. QED
    BY <2>1, <2>2, <2>3, <2>4
<1>. QED
  BY <1>2, <1>3

LEMMA MetaGhost ==
  ASSUME GhostInv, NEW m \in BagToSet(net), m.to \in Node, ReceiveMeta(m)
  PROVE  GhostInv'
<1>n. PICK n \in Node : n = m.to
  OBVIOUS
<1>0. PICK path, val, answer :
        /\ n = m.to /\ path = m.path /\ val = m.arg
        /\ answer = Msg(n, m.from, ReplyPath, Reply(path, MetaAnswer(n, path, val)))
  BY <1>n
<1>1. /\ Shape /\ UNCHANGED <<objects, mirror, attached, ever, told>>
      /\ Exchange(m, {answer})
  BY <1>0 DEF GhostInv, ReceiveMeta, mirrorVars
<1>2. IsOn(observers_', Node) /\ IsOn(waiting', Node)
  BY <1>1 DEF ReceiveMeta, ObserveCaller, Observe, Shape, IsOn
<1>3. Truthful(answer)'
  <2>1. /\ answer.path = ReplyPath /\ answer.from = n /\ answer.to = m.from
        /\ answer.arg = Reply(path, MetaAnswer(n, path, val)) /\ ReplyPath # AttrsPath
    BY <1>0, NamesDiffer DEF Msg
  <2>2. ASSUME m.from \in Watcher, m.to = Remote[m.from]
        PROVE  Lists(answer, n)' /\ Tells(answer, n)' /\ Measures(answer, n)'
    <3>1. path = AttrsPath /\ val.is = "string" => val.str \in Ever(n)
      BY <1>0, <2>2 DEF GhostInv, Truthful
    <3>2. answer = Msg(n, answer.to, ReplyPath, Reply(path, MetaAnswer(n, path, val)))
      BY <1>0, <2>1
    <3>. QED
      BY <1>1, <3>1, <3>2, MetaIsTrue
  <2>. QED
    BY <1>0, <2>1, <2>2 DEF Truthful
<1>. QED
  BY <1>1, <1>2, <1>3, AnswerGhost

(* What is called and is no meta method is an object. *)
LEMMA CalledIsThere ==
  ASSUME NEW m, ~Refused(m), ~IsMeta(m.path)
  PROVE  m.path \in DOMAIN objects[m.to]
<1>1. m.path # Root_
  <2>1. TypeOf(AttrsOf(Root_)) = "none"
    BY NamesDiffer DEF AttrsOf, Whole, TypeOf
  <2>. QED
    BY <2>1 DEF Refused, CanReceive
<1>2. m.path \in Known(m.to)
  BY DEF Refused
<1>. QED
  BY <1>1, <1>2 DEF Known, IsMeta

LEMMA CallGhost ==
  ASSUME GhostInv, NEW m, m.to \in Node, ReceiveCall(m)
  PROVE  GhostInv'
<1>n. PICK n \in Node : n = m.to
  OBVIOUS
<1>1. PICK p, v : n = m.to /\ p = m.path /\ v = ValueAfter(m.to, m.path, m.arg)
  BY <1>n
<1>2. /\ Shape /\ Kept(n) /\ p \in DOMAIN objects[n]
      /\ UNCHANGED <<mirror, attached, broken, told, waiting>>
      /\ objects' = [objects EXCEPT ![n][p] = v]
      /\ ever' = [ever EXCEPT ![n] = ever[n] \cup {<<p, v>>}]
      /\ Exchange(m, Notification(n, p, Real(v)))
      /\ IsOn(observers_', Node)
  <2>1. Shape /\ Kept(n)
    BY DEF GhostInv
  <2>2. p \in DOMAIN objects[n]
    BY <1>1, CalledIsThere DEF ReceiveCall
  <2>3. IsOn(observers_', Node)
    BY <2>1 DEF ReceiveCall, ObserveCaller, Observe, Shape, IsOn
  <2>. QED
    BY <1>1, <2>1, <2>2, <2>3 DEF ReceiveCall, mirrorVars
<1>3. /\ IsOn(ever', Node) /\ ever'[n] = ever[n] \cup {<<p, v>>}
      /\ \A k \in Node : k # n => ever'[k] = ever[k]
      /\ \A k \in Node : ever[k] \subseteq ever'[k]
  <2>1. IsOn(ever, Node)
    BY <1>2 DEF Shape
  <2>. QED
    BY <1>2, <2>1 DEF IsOn
<1>4. /\ IsOn(objects', Node)
      /\ \A k \in Node : IsOn(objects'[k], DOMAIN objects'[k])
      /\ \A k \in Node : k # n => objects'[k] = objects[k]
      /\ DOMAIN objects'[n] = DOMAIN objects[n]
      /\ \A q \in DOMAIN objects'[n] : objects'[n][q] = IF q = p THEN v ELSE objects[n][q]
  <2>1. /\ IsOn(objects, Node)
        /\ \A k \in Node : IsOn(objects[k], DOMAIN objects[k])
    BY <1>2 DEF Shape
  <2>. QED
    BY <1>2, <2>1 DEF IsOn
<1>5. <<p, v>> \in ever'[n] /\ Ever(n)' = Ever(n)
  <2>1. p \in Ever(n)
    <3>1. <<p, objects[n][p]>> \in ever[n]
      BY <1>2 DEF Kept
    <3>. QED
      BY <3>1, EverHas
  <2>2. Ever(n)' = Ever(n) \cup {p}
    BY <1>3, EverWith
  <2>. QED
    BY <1>3, <2>1, <2>2
<1>6. PICK sent : /\ sent = Notification(n, p, Real(v)) /\ IsABag(net')
                  /\ BagToSet(net') \subseteq BagToSet(net) \cup sent
  BY <1>2, ExchangedBag DEF Shape
<1>7. \A w \in sent : Truthful(w)'
  <2>1. ASSUME NEW w \in sent PROVE Truthful(w)'
    <3>1. PICK o : w = Msg(n, o, ReplyPath, Reply(p, Real(v)))
      BY <1>6 DEF Notification
    <3>2. w.path = ReplyPath /\ w.from = n /\ w.arg.path = p /\ w.arg.res = [is |-> "real", num |-> v]
      BY <3>1 DEF Msg, Reply, Real
    <3>3. p # ListAttPath /\ p # AttrsPath /\ ReplyPath # AttrsPath
      BY <1>2, PathFacts, NamesDiffer DEF Kept
    <3>. QED
      BY <1>5, <3>2, <3>3 DEF Truthful, Lists, Tells, Measures
  <2>. QED
    BY <2>1
<1>8. Shape'
  BY <1>2, <1>3, <1>4, <1>6 DEF Shape
<1>9. \A k \in Node : Kept(k)'
  <2>1. ASSUME NEW k \in Node, k # n PROVE Kept(k)'
    BY <1>3, <1>4, <2>1 DEF GhostInv, Kept, Ever
  <2>2. Kept(n)'
    <3>1. \A q \in DOMAIN objects'[n] : q \in Path /\ <<q, objects'[n][q]>> \in ever'[n]
      BY <1>2, <1>3, <1>4, <1>5 DEF Kept
    <3>2. \A q \in Ever(n)' : q \in Path \cup MetaPath /\ Up(q) \in Ever(n)' \cup {Root_}
      BY <1>2, <1>5 DEF Kept
    <3>. QED
      BY <3>1, <3>2 DEF Kept
  <2>. QED
    BY <2>1, <2>2
<1>10. \A c \in Watcher : \A q \in DOMAIN mirror'[c] : Ghost(c, q)'
  BY <1>2, <1>3, GhostsStay
<1>. QED
  BY <1>3, <1>6, <1>7, <1>8, <1>9, <1>10, StaysTrue


(* What may become of a proxy. *)
LEMMA SetValueKeeps ==
  ASSUME NEW proxy, IsProxy(proxy), NEW val, NEW o \in SetValue(proxy, val)
  PROVE  /\ IsProxy(o.proxy) /\ o.proxy.attrs = proxy.attrs /\ o.proxy.value = proxy.value
         /\ o.proxy.toSend \in {proxy.toSend, val} /\ o.sends \subseteq {val}
<1>1. \/ o = [proxy |-> proxy, sends |-> {}]
      \/ o = [proxy |-> proxy, sends |-> {val}]
      \/ o = [proxy |-> [proxy EXCEPT !.phase = "asked"], sends |-> {val}]
      \/ o = [proxy |-> [proxy EXCEPT !.toSend = val], sends |-> {}]
  BY DEF SetValue
<1>2. CASE o = [proxy |-> proxy, sends |-> {}] \/ o = [proxy |-> proxy, sends |-> {val}]
  BY <1>2
<1>3. CASE o = [proxy |-> [proxy EXCEPT !.phase = "asked"], sends |-> {val}]
  BY <1>3 DEF IsProxy
<1>4. CASE o = [proxy |-> [proxy EXCEPT !.toSend = val], sends |-> {}]
  BY <1>4 DEF IsProxy
<1>. QED
  BY <1>1, <1>2, <1>3, <1>4

LEMMA SetAttrsKeeps ==
  ASSUME NEW proxy, IsProxy(proxy), NEW attrs, NEW o \in SetAttrs(proxy, attrs)
  PROVE  /\ IsProxy(o.proxy) /\ o.proxy.attrs \in {proxy.attrs, attrs} /\ o.proxy.value = proxy.value
         /\ o.proxy.toSend \in {proxy.toSend, Nil} /\ o.sends \subseteq {Nil}
<1>. DEFINE now == [proxy EXCEPT !.attrs = attrs]
<1>1. IsProxy(now) /\ now.attrs = attrs /\ now.value = proxy.value /\ now.toSend = proxy.toSend
  BY DEF IsProxy
<1>2. \/ o = [proxy |-> proxy, sends |-> {}] \/ o = [proxy |-> now, sends |-> {}]
      \/ o \in SetValue(now, Nil)
  BY DEF SetAttrs
<1>. HIDE DEF now
<1>3. CASE o = [proxy |-> proxy, sends |-> {}] \/ o = [proxy |-> now, sends |-> {}]
  BY <1>1, <1>3
<1>4. CASE o \in SetValue(now, Nil)
  BY <1>1, <1>4, SetValueKeeps
<1>. QED
  BY <1>2, <1>3, <1>4

LEMMA ChangedKeeps ==
  ASSUME NEW proxy, IsProxy(proxy), NEW v, NEW o \in Changed(proxy, v)
  PROVE  /\ IsProxy(o.proxy) /\ o.proxy.attrs = proxy.attrs /\ o.proxy.value = v
         /\ o.proxy.toSend \in {proxy.toSend, Empty} /\ o.sends \subseteq {proxy.toSend}
<1>. DEFINE kept == [proxy EXCEPT !.value = v]
<1>1. IsProxy(kept) /\ kept.attrs = proxy.attrs /\ kept.value = v /\ kept.toSend = proxy.toSend
  BY DEF IsProxy
<1>2. \/ \E ph : o = [proxy |-> [kept EXCEPT !.phase = ph], sends |-> {}]
      \/ o = [proxy |-> [kept EXCEPT !.toSend = Empty], sends |-> {proxy.toSend} \ {Empty}]
  BY DEF Changed
<1>. HIDE DEF kept
<1>3. ASSUME NEW ph, o = [proxy |-> [kept EXCEPT !.phase = ph], sends |-> {}]
      PROVE  /\ IsProxy(o.proxy) /\ o.proxy.attrs = proxy.attrs /\ o.proxy.value = v
             /\ o.proxy.toSend = proxy.toSend /\ o.sends = {}
  BY <1>1, <1>3 DEF IsProxy
<1>4. CASE o = [proxy |-> [kept EXCEPT !.toSend = Empty], sends |-> {proxy.toSend} \ {Empty}]
  BY <1>1, <1>4 DEF IsProxy
<1>. QED
  BY <1>2, <1>3, <1>4

(* One mirror changes, and grows. *)
LEMMA MirrorMoves ==
  ASSUME GhostInv, NEW c \in Watcher, UNCHANGED <<objects, observers_, attached, ever, told>>,
         NEW now, IsOn(now, DOMAIN now), mirror' = [mirror EXCEPT ![c] = now],
         DOMAIN mirror[c] \subseteq DOMAIN now, \A p \in DOMAIN now : Ghost(c, p)',
         IsOn(waiting', Node), IsABag(net'),
         NEW sent, BagToSet(net') \subseteq BagToSet(net) \cup sent,
         \A m \in sent : Truthful(m)'
  PROVE  GhostInv'
<1>1. /\ IsOn(mirror, Watcher)
      /\ \A k \in Watcher : IsOn(mirror[k], DOMAIN mirror[k])
  BY DEF GhostInv, Shape
<1>2. /\ IsOn(mirror', Watcher) /\ mirror'[c] = now
      /\ \A k \in Watcher : k # c => mirror'[k] = mirror[k]
  BY <1>1 DEF IsOn
<1>3. \A k \in Watcher : IsOn(mirror'[k], DOMAIN mirror'[k])
  BY <1>1, <1>2
<1>4. Shape'
  BY <1>2, <1>3 DEF GhostInv, Shape
<1>5. \A k \in Node : ever[k] \subseteq ever'[k]
  OBVIOUS
<1>6. \A k \in Watcher : \A p \in DOMAIN mirror'[k] : Ghost(k, p)'
  <2>1. ASSUME NEW k \in Watcher, k # c PROVE \A p \in DOMAIN mirror'[k] : Ghost(k, p)'
    BY <1>2, <1>5, <2>1, GhostsStay
  <2>2. \A p \in DOMAIN mirror'[c] : Ghost(c, p)'
    BY <1>2
  <2>. QED
    BY <2>1, <2>2
<1>. QED
  BY <1>4, <1>6, TreeStays

(* A question of a watcher about what its remote has had. *)
LEMMA AsksIsTrue ==
  ASSUME GhostInv, UNCHANGED ever, NEW c \in Watcher, NEW p \in Ever(Remote[c]), NEW attrs
  PROVE  Truthful(Asks(c, p, attrs))'
<1>1. Remote[c] \in Node /\ Ever(Remote[c])' = Ever(Remote[c])
  BY DispatchAssumption DEF Ever
<1>2. p \in Path \cup MetaPath /\ p # ReplyPath
  <2>1. p \in Path \cup MetaPath
    BY <1>1 DEF GhostInv, Kept
  <2>. QED
    BY <2>1, PathFacts, NamesDiffer
<1>3. PICK w : w = Asks(c, p, attrs)
  OBVIOUS
<1>4. CASE w = Msg(c, Remote[c], AttrsPath, Str(p))
  <2>1. w.from = c /\ w.to = Remote[c] /\ w.path = AttrsPath /\ w.arg.str = p /\ AttrsPath # ReplyPath
    BY <1>4, NamesDiffer DEF Msg, Str
  <2>2. Truthful(w)'
    BY <1>1, <2>1 DEF Truthful
  <2>. QED
    BY <1>3, <2>2 DEF Asks
<1>5. CASE w = Msg(c, Remote[c], p, Nil)
  <2>1. w.path = p /\ w.arg.is = "nil"
    BY <1>5 DEF Msg, Nil
  <2>2. Truthful(w)'
    BY <1>2, <2>1, SaysNothing
  <2>. QED
    BY <1>3, <2>2 DEF Asks
<1>. QED
  BY <1>3, <1>4, <1>5 DEF Asks

(* A value that a proxy sends to its object. *)
LEMMA SendsAreTrue ==
  ASSUME GhostInv, NEW c \in Watcher, NEW p \in Ever(Remote[c]), NEW args,
         \A a \in args : a.is # "string", NEW w \in Sends(c, p, args)
  PROVE  Truthful(w)'
<1>1. p \in Path \cup MetaPath
  BY DispatchAssumption DEF GhostInv, Kept
<1>2. p # ReplyPath
  BY <1>1, PathFacts, NamesDiffer
<1>3. PICK a \in args : w = Msg(c, Remote[c], p, a)
  BY DEF Sends
<1>4. w.path = p /\ w.arg.is # "string"
  BY <1>3 DEF Msg
<1>. QED
  BY <1>2, <1>4, SaysNothing


(* What the reply of a proxy's remote says. *)
LEMMA HeardIsTrue ==
  ASSUME GhostInv, NEW m \in BagToSet(net), m.path = ReplyPath, FindProxy(m)
  PROVE  /\ m.to \in Watcher /\ m.from = Remote[m.to] /\ m.from \in Node
         /\ Lists(m, m.from) /\ Tells(m, m.from) /\ Measures(m, m.from)
BY DispatchAssumption DEF FindProxy, GhostInv, Truthful

LEMMA BuildGhost ==
  ASSUME GhostInv, NEW m \in BagToSet(net), m.path = ReplyPath, FindProxy(m), ListReply(m),
         BuildChildren(m), IsOn(waiting', Node),
         UNCHANGED <<objects, observers_, attached, ever, told>>
  PROVE  GhostInv'
<1>1. PICK c \in Watcher, n \in Node : c = m.to /\ n = m.from /\ n = Remote[c]
  BY HeardIsTrue
<1>. DEFINE at(e) == ChildAt(m.arg.res.of, e.path)
            new == {e \in m.arg.res.entries : at(e) \notin DOMAIN mirror[c] /\ Builds(at(e))}
            child(p) == CHOOSE e \in new : at(e) = p
            grown == [p \in DOMAIN mirror[c] \cup {at(e) : e \in new} |->
                        IF p \in DOMAIN mirror[c] THEN mirror[c][p]
                        ELSE NewProxy(child(p).attrs, child(p).more)]
            asks == {Asks(c, at(e), e.attrs) : e \in new}
<1>2. mirror' = [mirror EXCEPT ![c] = grown] /\ Exchange(m, asks)
  BY <1>1 DEF BuildChildren
<1>3. /\ \A e \in m.arg.res.entries :
           /\ e.path \in Ever(n) /\ Up(e.path) = m.arg.res.of /\ e.attrs.type = AttrsOf(e.path).type
      /\ m.arg.res.of \in Mirrored(c)
  BY <1>1, HeardIsTrue DEF Lists, ListReply
<1>4. ASSUME NEW e \in m.arg.res.entries PROVE at(e) = e.path
  <2>1. e.path \in Ever(n) /\ Up(e.path) = m.arg.res.of
    BY <1>3
  <2>2. e.path \in Path \cup MetaPath
    BY <2>1 DEF GhostInv, Kept
  <2>3. PICK S : e.path \in Seq(S) /\ e.path # <<>>
    BY <2>2, PathFacts, MetaFacts DEF Root_
  <2>4. Append(Up(e.path), e.path[Len(e.path)]) = e.path
    BY <2>3, UpFacts
  <2>. QED
    BY <2>1, <2>4 DEF ChildAt
<1>5. ASSUME NEW e \in new
      PROVE  /\ at(e) = e.path /\ at(e) \in Ever(n) /\ Up(at(e)) \in Mirrored(c)
             /\ e.attrs.type = AttrsOf(at(e)).type
  BY <1>3, <1>4
<1>. HIDE DEF at, new
<1>6. /\ IsOn(grown, DOMAIN grown)
      /\ DOMAIN grown = DOMAIN mirror[c] \cup {at(e) : e \in new}
      /\ \A p \in DOMAIN mirror[c] : grown[p] = mirror[c][p]
      /\ \A p \in DOMAIN grown : p \in DOMAIN mirror[c] \/
           \E e \in new : at(e) = p /\ grown[p] = NewProxy(e.attrs, e.more)
  <2>1. ASSUME NEW p \in DOMAIN grown, p \notin DOMAIN mirror[c]
        PROVE  \E e \in new : at(e) = p /\ grown[p] = NewProxy(e.attrs, e.more)
    <3>1. \E e \in new : at(e) = p
      BY <2>1
    <3>2. child(p) \in new /\ at(child(p)) = p
      BY <3>1
    <3>3. grown[p] = NewProxy(child(p).attrs, child(p).more)
      BY <2>1
    <3>. HIDE DEF child, grown
    <3>. QED
      BY <3>2, <3>3
  <2>2. /\ IsOn(grown, DOMAIN grown)
        /\ DOMAIN grown = DOMAIN mirror[c] \cup {at(e) : e \in new}
        /\ \A p \in DOMAIN mirror[c] : grown[p] = mirror[c][p]
    BY DEF IsOn
  <2>. QED
    BY <2>1, <2>2
<1>7. PICK now : now = grown
  OBVIOUS
<1>. HIDE DEF grown
<1>8. /\ IsOn(mirror, Watcher) /\ mirror'[c] = now
      /\ Ever(n)' = Ever(n) /\ \A k \in Node : ever[k] \subseteq ever'[k]
  BY <1>2, <1>7 DEF GhostInv, Shape, IsOn, Ever
<1>9. \A p \in DOMAIN now : Ghost(c, p)'
  <2>1. ASSUME NEW p \in DOMAIN mirror[c] PROVE Ghost(c, p)'
    BY <1>6, <1>7, <1>8, GhostsStay
  <2>2. ASSUME NEW p \in DOMAIN now, NEW e \in new, at(e) = p, now[p] = NewProxy(e.attrs, e.more)
        PROVE  Ghost(c, p)'
    <3>1. /\ p \in Ever(n)' /\ Up(p) \in Mirrored(c)'
          /\ e.attrs.type = AttrsOf(p).type
      BY <1>5, <1>6, <1>7, <1>8, <2>2 DEF Mirrored
    <3>2. /\ IsProxy(now[p]) /\ now[p].attrs = e.attrs /\ now[p].value.is = "empty"
          /\ now[p].toSend.is = "empty"
      BY <2>2 DEF NewProxy, IsProxy, Empty
    <3>. QED
      BY <1>1, <1>8, <3>1, <3>2 DEF Ghost
  <2>. QED
    BY <1>6, <1>7, <2>1, <2>2
<1>10. PICK sent : sent = asks /\ IsABag(net') /\ BagToSet(net') \subseteq BagToSet(net) \cup sent
  BY <1>2, ExchangedBag DEF GhostInv, Shape
<1>11. \A w \in sent : Truthful(w)'
  <2>1. ASSUME NEW w \in sent PROVE Truthful(w)'
    <3>1. PICK e \in new : w = Asks(c, at(e), e.attrs)
      BY <1>10
    <3>2. PICK p, a : p = at(e) /\ a = e.attrs /\ p \in Ever(Remote[c]) /\ w = Asks(c, p, a)
      BY <1>1, <1>5, <3>1
    <3>. QED
      BY <3>2, AsksIsTrue
  <2>. QED
    BY <2>1
<1>12. mirror' = [mirror EXCEPT ![c] = now] /\ IsOn(now, DOMAIN now) /\ DOMAIN mirror[c] \subseteq DOMAIN now
  BY <1>2, <1>6, <1>7
<1>. QED
  BY <1>9, <1>10, <1>11, <1>12, MirrorMoves

(* The proxies on the way to a path. *)
LEMMA MissingOnTheWay ==
  ASSUME GhostInv, NEW c \in Watcher, NEW n \in Node, NEW p \in Ever(n), NEW q \in Missing(c, p)
  PROVE  q \in Ever(n) /\ Up(q) \in Missing(c, p) \cup Mirrored(c)
<1>1. p \in Path \cup MetaPath /\ \A k \in Ever(n) : Up(k) \in Ever(n) \cup {Root_}
  BY DEF GhostInv, Kept
<1>2. PICK S : p \in Seq(S)
  BY <1>1, PathFacts, MetaFacts
<1>3. PICK i \in 1..Len(p) : q = SubSeq(p, 1, i) /\ Builds(SubSeq(p, 1, 1))
  BY DEF Missing
<1>4. q \in Ever(n)
  <2>1. PICK X : X = Ever(n)
    OBVIOUS
  <2>2. \A k \in 1..Len(p) : SubSeq(p, 1, k) \in X
    BY <1>1, <1>2, <2>1, PrefixesIn
  <2>. QED
    BY <1>3, <2>1, <2>2
<1>5. Up(q) = SubSeq(p, 1, i - 1)
  BY <1>2, <1>3, PrefixFacts
<1>6. CASE i = 1
  <2>1. Up(q) = Root_
    BY <1>2, <1>5, <1>6, PrefixFacts DEF Root_
  <2>. QED
    BY <1>4, <2>1 DEF Mirrored
<1>7. CASE i # 1
  <2>1. i - 1 \in 1..Len(p)
    BY <1>2, <1>7
  <2>. QED
    BY <1>3, <1>4, <1>5, <2>1 DEF Missing, Mirrored
<1>. QED
  BY <1>6, <1>7


LEMMA SetAttrsGhost ==
  ASSUME GhostInv, NEW m \in BagToSet(net), m.path = ReplyPath, FindProxy(m), AttrsReply(m),
         BuildAndSetAttrs(m), IsOn(waiting', Node), Shape,
         UNCHANGED <<objects, observers_, attached, ever, told>>
  PROVE  GhostInv'
<1>. DEFINE C == m.to
            P == m.arg.res.of
            Attrs == IF Has(m.arg.res, "attrs") THEN m.arg.res.attrs ELSE Code
            Built == [q \in DOMAIN mirror[C] \cup Missing(C, P) |->
                        IF q \in DOMAIN mirror[C] THEN mirror[C][q] ELSE NewProxy(NilAttrs, TRUE)]
            Questions == {Asks(C, q, NilAttrs) : q \in Missing(C, P)}
<1>a. \/ UNCHANGED mirror /\ Exchange(m, {})
      \/ /\ P \in DOMAIN Built
         /\ \E o \in SetAttrs(Built[P], Attrs) :
              /\ mirror' = [mirror EXCEPT ![C] = [Built EXCEPT ![P] = o.proxy]]
              /\ Exchange(m, Questions \cup Sends(C, P, o.sends))
  BY DEF BuildAndSetAttrs
<1>b. /\ IsOn(Built, DOMAIN Built) /\ DOMAIN Built = DOMAIN mirror[C] \cup Missing(C, P)
      /\ \A q \in DOMAIN mirror[C] : Built[q] = mirror[C][q]
      /\ \A q \in DOMAIN Built : q \in DOMAIN mirror[C] \/
           (q \in Missing(C, P) /\ Built[q] = NewProxy(NilAttrs, TRUE))
  BY DEF IsOn
<1>c. \A w \in Questions : \E q \in Missing(C, P) : w = Asks(C, q, NilAttrs)
  OBVIOUS
<1>n. PICK c \in Watcher, n \in Node : c = C /\ n = m.from /\ n = Remote[c]
  BY HeardIsTrue
<1>d. PICK p, attrs, built, asks :
        /\ c = C /\ n = m.from /\ n = Remote[c]
        /\ p = P /\ attrs = Attrs /\ built = Built /\ asks = Questions
  BY <1>n
<1>1. n = m.from /\ n = Remote[c]
  BY <1>d
<1>3. p \in Ever(n) /\ attrs.type \in {"none", AttrsOf(p).type}
  BY <1>d, HeardIsTrue DEF Tells, AttrsReply, Code
<1>. HIDE DEF C, P, Attrs, Built, Questions
<1>2. \/ UNCHANGED mirror /\ Exchange(m, {})
      \/ /\ p \in DOMAIN built
         /\ \E o \in SetAttrs(built[p], attrs) :
              /\ mirror' = [mirror EXCEPT ![c] = [built EXCEPT ![p] = o.proxy]]
              /\ Exchange(m, asks \cup Sends(c, p, o.sends))
  BY <1>a, <1>d
<1>4. /\ IsOn(built, DOMAIN built) /\ DOMAIN built = DOMAIN mirror[c] \cup Missing(c, p)
      /\ \A q \in DOMAIN mirror[c] : built[q] = mirror[c][q]
      /\ \A q \in DOMAIN built : q \in DOMAIN mirror[c] \/
           (q \in Missing(c, p) /\ built[q] = NewProxy(NilAttrs, TRUE))
      /\ \A w \in asks : \E q \in Missing(c, p) : w = Asks(c, q, NilAttrs)
  BY <1>b, <1>c, <1>d
<1>5. ASSUME UNCHANGED mirror, Exchange(m, {}) PROVE GhostInv'
  <2>1. PICK sent : sent = {} /\ IsABag(net') /\ BagToSet(net') \subseteq BagToSet(net) \cup sent
    BY <1>5, ExchangedBag DEF Shape
  <2>2. Shape'
    BY <1>5, <2>1 DEF Shape
  <2>3. \A w \in sent : Truthful(w)'
    BY <2>1
  <2>. QED
    BY <1>5, <2>1, <2>2, <2>3, OnlySends
<1>6. ASSUME p \in DOMAIN built, NEW o \in SetAttrs(built[p], attrs),
             mirror' = [mirror EXCEPT ![c] = [built EXCEPT ![p] = o.proxy]],
             Exchange(m, asks \cup Sends(c, p, o.sends))
      PROVE  GhostInv'
  <2>1. PICK now : now = [built EXCEPT ![p] = o.proxy]
    OBVIOUS
  <2>2. /\ IsOn(now, DOMAIN now) /\ DOMAIN now = DOMAIN built /\ now[p] = o.proxy
        /\ \A q \in DOMAIN built : q # p => now[q] = built[q]
    BY <1>4, <1>6, <2>1 DEF IsOn
  <2>3. /\ mirror' = [mirror EXCEPT ![c] = now] /\ mirror'[c] = now
        /\ Ever(n)' = Ever(n) /\ \A k \in Node : ever[k] \subseteq ever'[k]
    BY <1>6, <2>1 DEF Shape, IsOn, Ever
  (* What is in its place before the attributes are set. *)
  <2>4. ASSUME NEW q \in DOMAIN built
        PROVE  /\ IsProxy(built[q]) /\ q \in Ever(n) /\ Up(q) \in Mirrored(c)'
               /\ built[q].attrs.type \in {"none", AttrsOf(q).type}
               /\ built[q].value.is = "real" => <<q, built[q].value.num>> \in ever[n]
               /\ built[q].toSend.is # "string"
    <3>1. CASE q \in DOMAIN mirror[c]
      <4>1. Ghost(c, q)
        BY <3>1 DEF GhostInv
      <4>2. Up(q) \in Mirrored(c)'
        BY <1>4, <2>2, <2>3, <4>1 DEF Ghost, Mirrored
      <4>. QED
        BY <1>1, <1>4, <3>1, <4>1, <4>2 DEF Ghost
    <3>2. CASE q \in Missing(c, p) /\ built[q] = NewProxy(NilAttrs, TRUE)
      <4>1. q \in Ever(n) /\ Up(q) \in Missing(c, p) \cup Mirrored(c)
        BY <1>3, <3>2, MissingOnTheWay
      <4>2. Up(q) \in Mirrored(c)'
        BY <1>4, <2>2, <2>3, <4>1 DEF Mirrored
      <4>3. /\ IsProxy(built[q]) /\ built[q].attrs.type = "none" /\ built[q].value.is = "empty"
            /\ built[q].toSend.is = "empty"
        BY <3>2 DEF NewProxy, IsProxy, NilAttrs, Empty
      <4>. QED
        BY <4>1, <4>2, <4>3
    <3>. QED
      BY <1>4, <3>1, <3>2
  <2>4p. built[p].toSend.is # "string"
    BY <1>6, <2>4
  <2>5. /\ IsProxy(o.proxy) /\ o.proxy.attrs \in {built[p].attrs, attrs} /\ o.proxy.value = built[p].value
        /\ o.proxy.toSend \in {built[p].toSend, Nil} /\ o.sends \subseteq {Nil}
    BY <1>6, <2>4, SetAttrsKeeps
  <2>6. ASSUME NEW q \in DOMAIN now PROVE Ghost(c, q)'
    <3>1. CASE q # p
      BY <1>1, <2>2, <2>3, <2>4, <3>1 DEF Ghost
    <3>2. CASE q = p
      <4>1. o.proxy.toSend.is # "string"
        BY <2>4p, <2>5 DEF Nil
      <4>2. o.proxy.attrs.type \in {"none", AttrsOf(p).type}
        BY <1>3, <1>6, <2>4, <2>5
      <4>3. /\ p \in Ever(n) /\ Up(p) \in Mirrored(c)'
            /\ o.proxy.value.is = "real" => <<p, o.proxy.value.num>> \in ever[n]
        BY <1>6, <2>4, <2>5
      <4>. QED
        BY <1>1, <2>2, <2>3, <2>5, <3>2, <4>1, <4>2, <4>3 DEF Ghost
    <3>. QED
      BY <3>1, <3>2
  <2>7. PICK sent : /\ sent = asks \cup Sends(c, p, o.sends) /\ IsABag(net')
                    /\ BagToSet(net') \subseteq BagToSet(net) \cup sent
    BY <1>6, ExchangedBag DEF Shape
  <2>8. ASSUME NEW w \in sent PROVE Truthful(w)'
    <3>1. CASE w \in asks
      <4>1. PICK q \in Missing(c, p) : w = Asks(c, q, NilAttrs)
        BY <1>4, <3>1
      <4>2. q \in Ever(Remote[c])
        BY <1>1, <1>3, MissingOnTheWay
      <4>. QED
        BY <4>1, <4>2, AsksIsTrue
    <3>2. CASE w \in Sends(c, p, o.sends)
      <4>1. PICK args : args = o.sends /\ \A a \in args : a.is # "string"
        BY <2>5 DEF Nil
      <4>2. w \in Sends(c, p, args) /\ p \in Ever(Remote[c])
        BY <1>1, <1>3, <3>2, <4>1
      <4>. QED
        BY <4>1, <4>2, SendsAreTrue
    <3>. QED
      BY <2>7, <3>1, <3>2
  <2>9. DOMAIN mirror[c] \subseteq DOMAIN now
    BY <1>4, <2>2
  <2>. QED
    BY <2>2, <2>3, <2>6, <2>7, <2>8, <2>9, MirrorMoves
<1>. QED
  BY <1>2, <1>5, <1>6


LEMMA ChangeGhost ==
  ASSUME GhostInv, NEW m \in BagToSet(net), m.path = ReplyPath, FindProxy(m), ValueReply(m),
         ChangeValue(m), IsOn(waiting', Node),
         UNCHANGED <<objects, observers_, attached, ever, told>>
  PROVE  GhostInv'
<1>n. PICK c \in Watcher, n \in Node : c = m.to /\ n = m.from /\ n = Remote[c] /\ Measures(m, n)
  BY HeardIsTrue
<1>1. PICK p, v :
        /\ c = m.to /\ n = m.from /\ n = Remote[c] /\ p = m.arg.path /\ v = m.arg.res
        /\ v.is = "real" => <<p, v.num>> \in ever[n]
  BY <1>n DEF Measures
<1>2. PICK o \in Changed(mirror[c][p], v) :
        mirror' = [mirror EXCEPT ![c][p] = o.proxy] /\ Exchange(m, Sends(c, p, o.sends))
  BY <1>1 DEF ChangeValue
<1>3. p \in DOMAIN mirror[c] /\ Ghost(c, p)
  BY <1>1 DEF ValueReply, GhostInv
<1>4. PICK now : now = [mirror[c] EXCEPT ![p] = o.proxy]
  OBVIOUS
<1>5. /\ IsOn(now, DOMAIN now) /\ DOMAIN now = DOMAIN mirror[c] /\ now[p] = o.proxy
      /\ \A q \in DOMAIN now : q # p => now[q] = mirror[c][q]
  BY <1>3, <1>4 DEF GhostInv, Shape, IsOn
<1>6. /\ mirror' = [mirror EXCEPT ![c] = now] /\ mirror'[c] = now
      /\ Ever(n)' = Ever(n) /\ \A k \in Node : ever[k] \subseteq ever'[k]
  BY <1>2, <1>4 DEF GhostInv, Shape, IsOn, Ever
<1>7. PICK proxy : proxy = mirror[c][p] /\ IsProxy(proxy)
  BY <1>3 DEF Ghost
<1>8. /\ IsProxy(o.proxy) /\ o.proxy.attrs = proxy.attrs /\ o.proxy.value = v
      /\ o.proxy.toSend \in {proxy.toSend, Empty} /\ o.sends \subseteq {proxy.toSend}
  BY <1>2, <1>7, ChangedKeeps
<1>9. ASSUME NEW q \in DOMAIN now PROVE Ghost(c, q)'
  <2>1. CASE q # p
    BY <1>5, <1>6, <2>1, GhostsStay
  <2>2. CASE q = p
    <3>1. o.proxy.toSend.is # "string" /\ Up(p) \in Mirrored(c)'
      BY <1>3, <1>5, <1>6, <1>7, <1>8 DEF Ghost, Empty, Mirrored
    <3>2. /\ p \in Ever(n) /\ proxy.attrs.type \in {"none", AttrsOf(p).type}
      BY <1>1, <1>3, <1>7 DEF Ghost
    <3>3. mirror'[c][p] = o.proxy /\ p \in Ever(n)' /\ ever[n] \subseteq ever'[n]
      BY <1>3, <1>5, <1>6, <3>2
    <3>4. o.proxy.value.is = "real" => <<p, o.proxy.value.num>> \in ever'[n]
      BY <1>1, <1>8, <3>3
    <3>. QED
      BY <1>1, <1>8, <2>2, <3>1, <3>2, <3>3, <3>4 DEF Ghost
  <2>. QED
    BY <2>1, <2>2
<1>10. PICK sent : /\ sent = Sends(c, p, o.sends) /\ IsABag(net')
                   /\ BagToSet(net') \subseteq BagToSet(net) \cup sent
  BY <1>2, ExchangedBag DEF GhostInv, Shape
<1>11. ASSUME NEW w \in sent PROVE Truthful(w)'
  <2>1. PICK args : args = o.sends /\ \A a \in args : a.is # "string"
    BY <1>3, <1>7, <1>8 DEF Ghost
  <2>2. w \in Sends(c, p, args) /\ p \in Ever(Remote[c])
    BY <1>3, <1>10, <2>1 DEF Ghost
  <2>. QED
    BY <2>1, <2>2, SendsAreTrue
<1>12. DOMAIN mirror[c] \subseteq DOMAIN now
  BY <1>5
<1>. QED
  BY <1>5, <1>6, <1>9, <1>10, <1>11, <1>12, MirrorMoves

(* Nothing is made of a message. *)
LEMMA DroppedGhost ==
  ASSUME GhostInv, NEW m, Exchange(m, {}),
         UNCHANGED <<objects, observers_, mirror, attached, ever, told>>, IsOn(waiting', Node)
  PROVE  GhostInv'
<1>1. PICK sent : sent = {} /\ IsABag(net') /\ BagToSet(net') \subseteq BagToSet(net) \cup sent
  BY ExchangedBag DEF GhostInv, Shape
<1>2. Shape'
  BY <1>1 DEF GhostInv, Shape
<1>3. \A w \in sent : Truthful(w)'
  BY <1>1
<1>. QED
  BY <1>1, <1>2, <1>3, OnlySends

LEMMA ReplyGhost ==
  ASSUME GhostInv, NEW m \in BagToSet(net), m.path = ReplyPath, ReceiveReply(m)
  PROVE  GhostInv'
<1>1. /\ UNCHANGED <<objects, observers_, attached, ever, told>>
      /\ IsOn(waiting', Node) /\ Shape
  <2>1. Shape /\ UNCHANGED <<objects, observers_, attached, ever, told>>
    BY DEF GhostInv, ReceiveReply, treeVars
  <2>2. IsOn(waiting', Node)
    BY <2>1 DEF ReceiveReply, Heard, Shape, IsOn
  <2>. QED
    BY <2>1, <2>2
<1>2. \/ UNCHANGED mirror /\ Exchange(m, {})
      \/ FindProxy(m) /\ ListReply(m) /\ BuildChildren(m)
      \/ FindProxy(m) /\ AttrsReply(m) /\ BuildAndSetAttrs(m)
      \/ FindProxy(m) /\ ValueReply(m) /\ ChangeValue(m)
  BY DEF ReceiveReply
<1>3. CASE UNCHANGED mirror /\ Exchange(m, {})
  BY <1>1, <1>3, DroppedGhost
<1>4. CASE FindProxy(m) /\ ListReply(m) /\ BuildChildren(m)
  BY <1>1, <1>4, BuildGhost
<1>5. CASE FindProxy(m) /\ AttrsReply(m) /\ BuildAndSetAttrs(m)
  BY <1>1, <1>5, SetAttrsGhost
<1>6. CASE FindProxy(m) /\ ValueReply(m) /\ ChangeValue(m)
  BY <1>1, <1>6, ChangeGhost
<1>. QED
  BY <1>2, <1>3, <1>4, <1>5, <1>6

LEMMA ReceiveGhost ==
  ASSUME GhostInv, NEW m \in BagToSet(net), Receive(m)
  PROVE  GhostInv'
<1>1. CASE m.path = ReplyPath /\ ReceiveReply(m)
  BY <1>1, ReplyGhost
<1>2. CASE ReceiveRegister(m)
  BY <1>2, RegisterGhost
<1>3. CASE ReceiveRefused(m)
  BY <1>3, RefusedGhost
<1>4. CASE m.to \in Node /\ ReceiveMeta(m)
  BY <1>4, MetaGhost
<1>5. CASE m.to \in Node /\ ReceiveCall(m)
  BY <1>5, CallGhost
<1>. QED
  BY <1>1, <1>2, <1>3, <1>4, <1>5 DEF Receive, IsReply

(* What a user of a watcher, or of a node that calls, does. *)
LEMMA SaidGhost ==
  ASSUME GhostInv, NEW sent, SendAll(sent), \A w \in sent : Truthful(w)',
         UNCHANGED <<objects, observers_, mirror, ever, told>>,
         IsOn(attached', Watcher), IsOn(waiting', Node)
  PROVE  GhostInv'
<1>1. IsABag(net') /\ BagToSet(net') \subseteq BagToSet(net) \cup sent
  BY SentBag DEF GhostInv, Shape
<1>2. Shape'
  BY <1>1 DEF GhostInv, Shape
<1>. QED
  BY <1>1, <1>2, OnlySends

LEMMA AdoptProxyGhost ==
  ASSUME GhostInv, NEW c \in Watcher, AdoptProxy(c)
  PROVE  GhostInv'
<1>1. PICK sent : sent = {Msg(c, Remote[c], RegisterPath, Nil), Msg(c, Remote[c], ListAttPath, Str(Root_))}
  OBVIOUS
<1>2. /\ SendAll(sent) /\ UNCHANGED <<objects, observers_, mirror, ever, told>>
      /\ IsOn(attached', Watcher) /\ IsOn(waiting', Node)
  BY <1>1 DEF AdoptProxy, treeVars, history, GhostInv, Shape, IsOn
<1>3. ASSUME NEW w \in sent PROVE Truthful(w)'
  <2>1. w.path # ReplyPath /\ w.path # AttrsPath
    BY <1>1, NamesDiffer DEF Msg
  <2>. QED
    BY <2>1, SaysNothing
<1>. QED
  BY <1>2, <1>3, SaidGhost

LEMMA DetachGhost ==
  ASSUME GhostInv, NEW c \in Watcher, Detach(c)
  PROVE  GhostInv'
<1>1. /\ UNCHANGED <<objects, observers_, mirror, net, ever, told, waiting>>
      /\ IsOn(attached', Watcher)
  BY DEF Detach, treeVars, GhostInv, Shape, IsOn
<1>2. PICK sent : sent = {}
  OBVIOUS
<1>3. BagToSet(net') \subseteq BagToSet(net) \cup sent /\ \A w \in sent : Truthful(w)'
  BY <1>1, <1>2
<1>4. Shape'
  BY <1>1 DEF GhostInv, Shape
<1>. QED
  BY <1>1, <1>3, <1>4, OnlySends

(* A proxy changes in what its mirror is not told apart by, or takes a     *)
(* number to send.                                                          *)
LEMMA ProxyGhost ==
  ASSUME GhostInv, NEW c \in Watcher, NEW p \in DOMAIN mirror[c], NEW proxy,
         mirror' = [mirror EXCEPT ![c][p] = proxy], IsProxy(proxy),
         proxy.attrs = mirror[c][p].attrs, proxy.value = mirror[c][p].value,
         proxy.toSend.is # "string",
         UNCHANGED <<objects, observers_, attached, ever, told, waiting>>,
         NEW sent, IsABag(net'), BagToSet(net') \subseteq BagToSet(net) \cup sent,
         \A w \in sent : Truthful(w)'
  PROVE  GhostInv'
<1>1. Ghost(c, p) /\ Shape
  BY DEF GhostInv
<1>2. PICK now : now = [mirror[c] EXCEPT ![p] = proxy]
  OBVIOUS
<1>3. /\ IsOn(now, DOMAIN now) /\ DOMAIN now = DOMAIN mirror[c] /\ now[p] = proxy
      /\ \A q \in DOMAIN now : q # p => now[q] = mirror[c][q]
  BY <1>1, <1>2 DEF Shape, IsOn
<1>4. /\ mirror' = [mirror EXCEPT ![c] = now] /\ mirror'[c] = now
      /\ Ever(Remote[c])' = Ever(Remote[c]) /\ \A k \in Node : ever[k] \subseteq ever'[k]
  BY <1>1, <1>2 DEF Shape, IsOn, Ever
<1>5. ASSUME NEW q \in DOMAIN now PROVE Ghost(c, q)'
  <2>1. CASE q # p
    BY <1>3, <1>4, <2>1, GhostsStay
  <2>2. CASE q = p
    <3>1. Up(p) \in Mirrored(c)'
      BY <1>1, <1>3, <1>4 DEF Ghost, Mirrored
    <3>. QED
      BY <1>1, <1>3, <1>4, <2>2, <3>1 DEF Ghost
  <2>. QED
    BY <2>1, <2>2
<1>6. DOMAIN mirror[c] \subseteq DOMAIN now /\ IsOn(waiting', Node)
  BY <1>1, <1>3 DEF Shape
<1>. QED
  BY <1>3, <1>4, <1>5, <1>6, MirrorMoves

LEMMA SendToRemoteBag ==
  ASSUME GhostInv, NEW c, NEW sent, SendToRemote(c, sent)
  PROVE  IsABag(net') /\ BagToSet(net') \subseteq BagToSet(net) \cup sent
<1>1. PICK given : given = (IF attached[c] THEN sent ELSE {}) /\ SendAll(given)
  BY DEF SendToRemote
<1>2. IsABag(net') /\ BagToSet(net') = BagToSet(net) \cup given
  BY <1>1, SentBag DEF GhostInv, Shape
<1>. QED
  BY <1>1, <1>2

LEMMA SyncGhost ==
  ASSUME GhostInv, NEW c \in Watcher, NEW p, SyncChildren(c, p)
  PROVE  GhostInv'
<1>1. /\ p \in DOMAIN mirror[c] /\ mirror' = [mirror EXCEPT ![c][p].needSync = FALSE]
      /\ UNCHANGED <<objects, observers_, attached, ever, told, waiting>>
  BY DEF SyncChildren, treeVars, history
<1>2. PICK sent : sent = {Msg(c, Remote[c], ListAttPath, Str(p))} /\ SendToRemote(c, sent)
  BY DEF SyncChildren
<1>3. Ghost(c, p)
  BY <1>1 DEF GhostInv
<1>4. PICK proxy : proxy = [mirror[c][p] EXCEPT !.needSync = FALSE]
  OBVIOUS
<1>5. /\ mirror' = [mirror EXCEPT ![c][p] = proxy] /\ IsProxy(proxy)
      /\ proxy.attrs = mirror[c][p].attrs /\ proxy.value = mirror[c][p].value
      /\ proxy.toSend.is # "string"
  <2>1. /\ IsProxy(proxy) /\ proxy.attrs = mirror[c][p].attrs /\ proxy.value = mirror[c][p].value
        /\ proxy.toSend.is # "string"
    BY <1>3, <1>4 DEF Ghost, IsProxy
  <2>2. mirror' = [mirror EXCEPT ![c][p] = proxy]
    BY <1>1, <1>4
  <2>. QED
    BY <2>1, <2>2
<1>6. ASSUME NEW w \in sent PROVE Truthful(w)'
  <2>1. w.path # ReplyPath /\ w.path # AttrsPath
    BY <1>2, NamesDiffer DEF Msg
  <2>. QED
    BY <2>1, SaysNothing
<1>7. IsABag(net') /\ BagToSet(net') \subseteq BagToSet(net) \cup sent
  BY <1>2, SendToRemoteBag
<1>. QED
  BY <1>1, <1>5, <1>6, <1>7, ProxyGhost

LEMMA ResetGhost ==
  ASSUME GhostInv, NEW c \in Watcher, NEW p, ResetConnection(c, p)
  PROVE  GhostInv'
<1>1. /\ p \in DOMAIN mirror[c] /\ mirror' = [mirror EXCEPT ![c][p].phase = "new"]
      /\ UNCHANGED <<objects, observers_, attached, net, ever, told, waiting>>
  BY DEF ResetConnection, treeVars, history
<1>2. PICK sent : sent = {}
  OBVIOUS
<1>3. Ghost(c, p)
  BY <1>1 DEF GhostInv
<1>4. PICK proxy : proxy = [mirror[c][p] EXCEPT !.phase = "new"]
  OBVIOUS
<1>5. /\ mirror' = [mirror EXCEPT ![c][p] = proxy] /\ IsProxy(proxy)
      /\ proxy.attrs = mirror[c][p].attrs /\ proxy.value = mirror[c][p].value
      /\ proxy.toSend.is # "string"
  <2>1. /\ IsProxy(proxy) /\ proxy.attrs = mirror[c][p].attrs /\ proxy.value = mirror[c][p].value
        /\ proxy.toSend.is # "string"
    BY <1>3, <1>4 DEF Ghost, IsProxy
  <2>2. mirror' = [mirror EXCEPT ![c][p] = proxy]
    BY <1>1, <1>4
  <2>. QED
    BY <2>1, <2>2
<1>6. \A w \in sent : Truthful(w)'
  BY <1>2
<1>7. IsABag(net') /\ BagToSet(net') \subseteq BagToSet(net) \cup sent
  BY <1>1 DEF GhostInv, Shape
<1>. QED
  BY <1>1, <1>5, <1>6, <1>7, ProxyGhost

LEMMA UserGhost ==
  ASSUME GhostInv, NEW c \in Watcher, NEW p, NEW v, UserSetsValue(c, p, v)
  PROVE  GhostInv'
<1>1. p \in DOMAIN mirror[c] /\ UNCHANGED <<objects, observers_, attached, ever, told, waiting>>
  BY DEF UserSetsValue, treeVars, history
<1>2. PICK o \in SetValue(mirror[c][p], Real(v)) :
        mirror' = [mirror EXCEPT ![c][p] = o.proxy] /\ SendToRemote(c, Sends(c, p, o.sends))
  BY DEF UserSetsValue
<1>3. Ghost(c, p)
  BY <1>1 DEF GhostInv
<1>4. PICK proxy, args, num : proxy = o.proxy /\ args = o.sends /\ num = Real(v)
  OBVIOUS
<1>5. /\ IsProxy(proxy) /\ proxy.attrs = mirror[c][p].attrs /\ proxy.value = mirror[c][p].value
      /\ proxy.toSend \in {mirror[c][p].toSend, num} /\ args \subseteq {num}
  BY <1>2, <1>3, <1>4, SetValueKeeps DEF Ghost
<1>6. num.is # "string" /\ proxy.toSend.is # "string"
  BY <1>3, <1>4, <1>5 DEF Ghost, Real
<1>7. PICK sent : sent = Sends(c, p, args) /\ SendToRemote(c, sent)
  BY <1>2, <1>4
<1>8. ASSUME NEW w \in sent PROVE Truthful(w)'
  <2>1. (\A a \in args : a.is # "string") /\ p \in Ever(Remote[c]) /\ w \in Sends(c, p, args)
    BY <1>3, <1>5, <1>6, <1>7 DEF Ghost
  <2>. QED
    BY <2>1, SendsAreTrue
<1>9. IsABag(net') /\ BagToSet(net') \subseteq BagToSet(net) \cup sent
  BY <1>7, SendToRemoteBag
<1>10. mirror' = [mirror EXCEPT ![c][p] = proxy]
  BY <1>2, <1>4
<1>. QED
  BY <1>1, <1>5, <1>6, <1>8, <1>9, <1>10, ProxyGhost


LEMMA NextGhost ==
  ASSUME GhostInv, Next
  PROVE  GhostInv'
<1>1. ASSUME NEW m \in BagToSet(net), Vanish(m) PROVE GhostInv'
  <2>1. /\ Exchange(m, {}) /\ UNCHANGED <<objects, observers_, mirror, attached, ever, told>>
        /\ IsOn(waiting', Node)
    BY <1>1 DEF Vanish, treeVars, mirrorVars, history, GhostInv, Shape
  <2>. QED
    BY <2>1, DroppedGhost
<1>2. ASSUME NEW m \in BagToSet(net), Lose(m) PROVE GhostInv'
  <2>1. /\ Exchange(m, {}) /\ UNCHANGED <<objects, observers_, mirror, attached, ever, told>>
        /\ IsOn(waiting', Node)
    BY <1>2 DEF Lose, treeVars, mirrorVars, GhostInv, Shape
  <2>. QED
    BY <2>1, DroppedGhost
<1>3. ASSUME NEW m \in BagToSet(net), Duplicate(m) PROVE GhostInv'
  <2>1. PICK sent : sent = {m}
    OBVIOUS
  <2>2. /\ SendAll(sent) /\ UNCHANGED <<objects, observers_, mirror, ever, told>>
        /\ IsOn(attached', Watcher) /\ IsOn(waiting', Node)
    BY <1>3, <2>1 DEF Duplicate, treeVars, mirrorVars, history, GhostInv, Shape
  <2>3. Truthful(m)' /\ \A w \in sent : w = m
    <3>1. \A n \in Node : ever[n] \subseteq ever'[n]
      BY <2>2
    <3>. QED
      BY <2>1, <3>1, TruthStays DEF GhostInv
  <2>4. \A w \in sent : Truthful(w)'
    BY <2>3
  <2>. QED
    BY <2>2, <2>4, SaidGhost
<1>4. ASSUME NEW n \in Server, NEW p \in Path, Adopt(n, p) \/ Readopt(n, p) \/ Delete(n, p)
      PROVE  GhostInv'
  BY <1>4, AdoptGhost, ReadoptGhost, DeleteGhost
<1>5. ASSUME NEW c \in Watcher, WatcherUse(c) PROVE GhostInv'
  BY <1>5, AdoptProxyGhost, DetachGhost, SyncGhost, ResetGhost, UserGhost DEF WatcherUse
<1>6. ASSUME NEW n \in Node, NEW to, NEW call \in Calls, Call(n, to, call.path, call.arg) PROVE GhostInv'
  <2>1. PICK w, sent : w = Msg(n, to, call.path, call.arg) /\ sent = {w}
    OBVIOUS
  <2>2. /\ SendAll(sent) /\ UNCHANGED <<objects, observers_, mirror, ever, told>>
        /\ IsOn(attached', Watcher) /\ IsOn(waiting', Node)
    BY <1>6, <2>1 DEF Call, treeVars, mirrorVars, GhostInv, Shape, IsOn
  <2>3. Truthful(w)'
    <3>1. w.path # ReplyPath /\ w.from \notin Watcher
      BY <1>6, <2>1, DispatchAssumption DEF Call, Msg
    <3>. QED
      BY <3>1, SaysNothing
  <2>4. \A x \in sent : Truthful(x)'
    BY <2>1, <2>3
  <2>. QED
    BY <2>2, <2>4, SaidGhost
<1>7. ASSUME NEW n \in Node, NEW to, CallRegister(n, to) PROVE GhostInv'
  <2>1. PICK v \in Val : SendAll({Msg(n, to, RegisterPath, Real(v))})
    BY <1>7 DEF CallRegister
  <2>2. PICK w, sent : w = Msg(n, to, RegisterPath, Real(v)) /\ sent = {w}
    OBVIOUS
  <2>3. /\ SendAll(sent) /\ UNCHANGED <<objects, observers_, mirror, ever, told>>
        /\ IsOn(attached', Watcher) /\ IsOn(waiting', Node)
    BY <1>7, <2>1, <2>2 DEF CallRegister, treeVars, mirrorVars, history, GhostInv, Shape
  <2>4. Truthful(w)'
    <3>1. w.path # ReplyPath /\ w.path # AttrsPath
      BY <2>2, NamesDiffer DEF Msg
    <3>. QED
      BY <3>1, SaysNothing
  <2>5. \A x \in sent : Truthful(x)'
    BY <2>2, <2>4
  <2>. QED
    BY <2>3, <2>5, SaidGhost
<1>8. ASSUME NEW m \in BagToSet(net), Receive(m) PROVE GhostInv'
  BY <1>8, ReceiveGhost
<1>. QED
  BY <1>1, <1>2, <1>3, <1>4, <1>5, <1>6, <1>7, <1>8 DEF Next, Deliver, Network, TreeUse, CallUse

LEMMA InitGhost == Init => GhostInv
<1>. SUFFICES ASSUME Init PROVE GhostInv
  OBVIOUS
<1>1. PICK tree \in [Server -> Tree] :
        objects = [n \in Node |-> [p \in IF n \in Server THEN tree[n] ELSE {} |-> Zero]]
  BY DEF Init
<1>2. /\ net = EmptyBag /\ ever = [n \in Node |-> {<<p, Zero>> : p \in DOMAIN objects[n]}]
      /\ mirror = [c \in Watcher |-> <<>>] /\ attached = [c \in Watcher |-> FALSE]
      /\ told = [c \in Watcher |-> {}] /\ observers_ = [n \in Node |-> {}]
      /\ waiting = [n \in Node |-> Root_]
  BY DEF Init
<1>3. BagToSet(net) = {} /\ IsABag(net)
  BY <1>2 DEF EmptyBag, SetToBag, BagToSet, IsABag
<1>4. \A c \in Watcher : DOMAIN mirror[c] = {} /\ IsOn(mirror[c], DOMAIN mirror[c])
  BY <1>2 DEF IsOn
<1>5. ASSUME NEW n \in Node
      PROVE  /\ DOMAIN objects[n] \in Tree /\ IsOn(objects[n], DOMAIN objects[n])
             /\ \A p \in DOMAIN objects[n] : objects[n][p] = Zero
  <2>1. CASE n \in Server
    <3>1. objects[n] = [p \in tree[n] |-> Zero] /\ tree[n] \in Tree
      BY <1>1, <2>1
    <3>. QED
      BY <3>1 DEF IsOn
  <2>2. CASE n \notin Server
    <3>1. objects[n] = [p \in {} |-> Zero]
      BY <1>1, <2>2
    <3>2. {} \in Tree
      BY DEF Tree
    <3>. QED
      BY <3>1, <3>2 DEF IsOn
  <2>. QED
    BY <2>1, <2>2
<1>6. Shape
  <2>1. IsOn(objects, Node)
    BY <1>1 DEF IsOn
  <2>2. /\ IsOn(mirror, Watcher) /\ IsOn(attached, Watcher) /\ IsOn(told, Watcher)
        /\ IsOn(ever, Node) /\ IsOn(observers_, Node) /\ IsOn(waiting, Node)
    BY <1>2 DEF IsOn
  <2>. QED
    BY <1>3, <1>4, <1>5, <2>1, <2>2 DEF Shape
<1>7. ASSUME NEW n \in Node PROVE Kept(n)
  <2>1. ever[n] = {<<p, Zero>> : p \in DOMAIN objects[n]}
    BY <1>2
  <2>2. \A p : p \in Ever(n) <=> p \in DOMAIN objects[n] \/ (n \in HasMeta /\ p \in MetaPath)
    <3>1. \A p : <<p, Zero>>[1] = p
      OBVIOUS
    <3>2. {e[1] : e \in {<<p, Zero>> : p \in DOMAIN objects[n]}} = DOMAIN objects[n]
      BY <3>1
    <3>3. {e[1] : e \in ever[n]} = DOMAIN objects[n]
      BY <2>1, <3>2
    <3>. QED
      BY <3>3 DEF Ever
  <2>3. DOMAIN objects[n] \subseteq Path /\ \A p \in DOMAIN objects[n] : Up(p) \in DOMAIN objects[n] \cup {Root_}
    BY <1>5 DEF Tree
  <2>4. \A p \in MetaPath : Up(p) = Root_
    BY MetaFacts
  <2>5. \A p \in DOMAIN objects[n] : p \in Path /\ <<p, objects[n][p]>> \in ever[n]
    BY <1>5, <2>1, <2>3
  <2>6. \A p \in Ever(n) : p \in Path \cup MetaPath /\ Up(p) \in Ever(n) \cup {Root_}
    BY <2>2, <2>3, <2>4
  <2>. QED
    BY <2>5, <2>6 DEF Kept
<1>. QED
  BY <1>3, <1>4, <1>6, <1>7 DEF GhostInv

LEMMA GhostStep == GhostInv /\ [Next]_vars => GhostInv'
<1>1. ASSUME GhostInv, UNCHANGED vars PROVE GhostInv'
  <2>1. UNCHANGED <<objects, observers_, attached, mirror, net, events, broken, ever, told, waiting>>
    BY <1>1 DEF vars, treeVars, mirrorVars, history
  <2>2. PICK sent : sent = {}
      OBVIOUS
  <2>3. BagToSet(net') \subseteq BagToSet(net) \cup sent /\ \A w \in sent : Truthful(w)'
    BY <2>1, <2>2
  <2>4. Shape'
    BY <1>1, <2>1 DEF GhostInv, Shape
  <2>. QED
    BY <1>1, <2>1, <2>3, <2>4, OnlySends
<1>. QED
  BY <1>1, NextGhost

(* Whatever is lost, doubled or overtaken, a mirror has no object that its  *)
(* remote never had, no type but the one of that object, no value the       *)
(* object never had, and no object without its parent (root_proxy.h:45): a  *)
(* RootProxy builds what replies and notifications say, at the place they   *)
(* say, and those are about what the tree of the remote has had.            *)
THEOREM MirrorsAreGhosts == Spec => []MirrorIsSound
<1>1. GhostInv => MirrorIsSound
  BY DEF GhostInv, Ghost, MirrorIsSound
<1>2. GhostInv /\ [Next]_vars => GhostInv'
  BY GhostStep
<1>. QED
  BY <1>1, <1>2, InitGhost, PTL DEF Spec


-----------------------------------------------------------------------------
(* What keeps the callers answered *)

(* The messages persist, or what became of one is said of everybody who    *)
(* waited for it.                                                           *)
LEMMA AnswersStay ==
  ASSUME Answers, "lost" \in broken => "lost" \in broken',
         \A n \in Node : waiting'[n] \in {waiting[n], Root_},
         \A w \in BagToSet(net) : \/ w \in BagToSet(net')
           \/ \A n \in Node : Coming(w, n) =>
                waiting'[n] = Root_ \/ \E x \in BagToSet(net') : Coming(x, n)'
  PROVE  Answers'
<1>. SUFFICES ASSUME "lost" \notin broken', NEW n \in Node, waiting'[n] # Root_
              PROVE  \E x \in BagToSet(net') : Coming(x, n)'
  BY DEF Answers
<1>1. waiting'[n] = waiting[n]
  OBVIOUS
<1>2. PICK w \in BagToSet(net) : Coming(w, n)
  BY <1>1 DEF Answers
<1>3. CASE w \in BagToSet(net')
  <2>1. Coming(w, n)'
    BY <1>1, <1>2 DEF Coming
  <2>. QED
    BY <1>3, <2>1
<1>. QED
  BY <1>2, <1>3

LEMMA ReceiveAnswers ==
  ASSUME GhostInv, Answers, NEW m \in BagToSet(net), Receive(m)
  PROVE  Answers'
<1>1. /\ m.to \in Node /\ IsOn(waiting, Node) /\ IsOn(observers_, Node) /\ IsABag(net)
      /\ UNCHANGED broken
  BY DEF Receive, ReceiveReply, ReceiveRegister, ReceiveRefused, ReceiveMeta, ReceiveCall,
         history, GhostInv, Shape
<1>2. ASSUME NEW sent, Exchange(m, sent)
      PROVE  /\ sent \subseteq BagToSet(net')
             /\ \A w \in BagToSet(net) : w = m \/ w \in BagToSet(net')
  BY <1>1, <1>2, ExchangedBag
<1>3. \A w \in BagToSet(net) : w = m \/ w \in BagToSet(net')
  BY <1>2 DEF Receive, ReceiveReply, ReceiveRegister, ReceiveRefused, ReceiveMeta, ReceiveCall,
              BuildChildren, BuildAndSetAttrs, ChangeValue
<1>4. \A n \in Node : waiting'[n] \in {waiting[n], Root_}
  BY <1>1 DEF Receive, ReceiveReply, ReceiveRegister, ReceiveRefused, ReceiveMeta, ReceiveCall,
              history, Heard, IsOn
<1>5. ASSUME NEW n \in Node, Coming(m, n)
      PROVE  waiting'[n] = Root_ \/ \E x \in BagToSet(net') : Coming(x, n)'
  <2>1. CASE m.path = ReplyPath /\ ReceiveReply(m)
    <3>1. m.to = n /\ m.arg.path = waiting[n]
      BY <1>5, <2>1, NamesDiffer DEF Coming
    <3>. QED
      BY <1>1, <2>1, <3>1 DEF ReceiveReply, Heard, IsOn
  <2>2. CASE m.path # ReplyPath /\ m.path = RegisterPath
    BY <1>5, <2>2, NamesDiffer DEF Coming
  <2>3. CASE m.path # ReplyPath /\ m.path = ErrorPath /\ m.to = n
    BY <1>1, <2>3, NamesDiffer DEF Receive, IsReply, ReceiveRegister, ReceiveRefused, ReceiveMeta,
       ReceiveCall, IsMeta, IsOn
  <2>4. CASE m.from = n /\ m.path = waiting[n] /\ m.path \notin {ReplyPath, RegisterPath}
    <3>1. CASE ReceiveRefused(m)
      <4>1. PICK x : x = Msg(m.to, m.from, ErrorPath, Error)
        OBVIOUS
      <4>2. Exchange(m, {x})
        BY <3>1, <4>1 DEF ReceiveRefused
      <4>3. x \in BagToSet(net')
        BY <1>2, <4>2
      <4>4. Coming(x, n)'
        BY <2>4, <4>1 DEF Coming, Msg
      <4>. QED
        BY <4>3, <4>4
    <3>2. CASE ReceiveMeta(m)
      <4>1. PICK x : x = Msg(m.to, m.from, ReplyPath, Reply(m.path, MetaAnswer(m.to, m.path, m.arg)))
        OBVIOUS
      <4>2. Exchange(m, {x})
        BY <3>2, <4>1 DEF ReceiveMeta
      <4>3. x \in BagToSet(net')
        BY <1>2, <4>2
      <4>4. waiting'[n] = Root_ \/ Coming(x, n)'
        BY <1>4, <2>4, <4>1 DEF Coming, Msg, Reply
      <4>. QED
        BY <4>3, <4>4
    <3>3. CASE ReceiveCall(m)
      <4>1. PICK v, sent : /\ v = Real(ValueAfter(m.to, m.path, m.arg))
                           /\ sent = Notification(m.to, m.path, v)
        OBVIOUS
      <4>2. Exchange(m, sent)
        BY <3>3, <4>1 DEF ReceiveCall
      <4>3. m.from \in observers_'[m.to]
        BY <1>1, <3>3 DEF ReceiveCall, ObserveCaller, Observe, IsOn
      <4>4. PICK x : x = Msg(m.to, m.from, ReplyPath, Reply(m.path, v))
        OBVIOUS
      <4>5. x \in BagToSet(net')
        BY <1>2, <4>1, <4>2, <4>3, <4>4 DEF Notification
      <4>6. waiting'[n] = Root_ \/ Coming(x, n)'
        BY <1>4, <2>4, <4>4 DEF Coming, Msg, Reply
      <4>. QED
        BY <4>5, <4>6
    <3>. QED
      BY <2>4, <3>1, <3>2, <3>3 DEF Receive, IsReply, ReceiveRegister
  <2>. QED
    BY <1>5, <2>1, <2>2, <2>3, <2>4 DEF Coming, Receive, IsReply
<1>. QED
  BY <1>1, <1>3, <1>4, <1>5, AnswersStay

(* What does not answer a caller keeps the messages. *)
LEMMA OthersAnswer ==
  ASSUME Answers, "lost" \in broken => "lost" \in broken', UNCHANGED waiting,
         BagToSet(net) \subseteq BagToSet(net')
  PROVE  Answers'
<1>1. \A n \in Node : waiting'[n] \in {waiting[n], Root_}
  OBVIOUS
<1>. QED
  BY <1>1, AnswersStay

LEMMA CallAnswers ==
  ASSUME GhostInv, Answers, NEW n \in Node, NEW to \in Server, NEW call \in Calls,
         Call(n, to, call.path, call.arg)
  PROVE  Answers'
<1>1. PICK x, sent : x = Msg(n, to, call.path, call.arg) /\ sent = {x} /\ SendAll(sent)
  BY DEF Call
<1>2. BagToSet(net') = BagToSet(net) \cup sent
  BY <1>1, SentBag DEF GhostInv, Shape
<1>3. /\ IsOn(waiting, Node) /\ waiting' = [waiting EXCEPT ![n] = call.path] /\ UNCHANGED broken
  BY DEF Call, GhostInv, Shape
<1>4. waiting'[n] = call.path /\ \A k \in Node : k # n => waiting'[k] = waiting[k]
  BY <1>3 DEF IsOn
<1>5. Coming(x, n)'
  <2>1. call.path \notin {ReplyPath, RegisterPath} /\ to \in Node
    BY DispatchAssumption
  <2>. QED
    BY <1>1, <1>4, <2>1 DEF Coming, Msg
<1>6. ASSUME "lost" \notin broken', NEW k \in Node, waiting'[k] # Root_, k # n
      PROVE  \E w \in BagToSet(net') : Coming(w, k)'
  <2>1. PICK w \in BagToSet(net) : Coming(w, k)
    BY <1>3, <1>4, <1>6 DEF Answers
  <2>2. Coming(w, k)'
    BY <1>4, <1>6, <2>1 DEF Coming
  <2>. QED
    BY <1>2, <2>2
<1>7. x \in BagToSet(net')
  BY <1>1, <1>2
<1>. QED
  BY <1>5, <1>6, <1>7 DEF Answers

LEMMA NextAnswers ==
  ASSUME GhostInv, Answers, Next
  PROVE  Answers'
<1>0. IsABag(net)
  BY DEF GhostInv, Shape
<1>1. ASSUME NEW sent, SendAll(sent) PROVE BagToSet(net) \subseteq BagToSet(net')
  BY <1>0, <1>1, SentBag
<1>2. ASSUME NEW m \in BagToSet(net), Vanish(m) PROVE Answers'
  <2>1. m.to \notin Node /\ UNCHANGED <<broken, waiting>>
    BY <1>2, DispatchAssumption DEF Vanish, history
  <2>2. PICK sent : sent = {} /\ Exchange(m, sent)
    BY <1>2 DEF Vanish
  <2>3. \A w \in BagToSet(net) : w = m \/ w \in BagToSet(net')
    BY <1>0, <2>2, ExchangedBag
  <2>4. \A n \in Node : ~Coming(m, n)
    BY <2>1 DEF Coming
  <2>5. \A n \in Node : waiting'[n] \in {waiting[n], Root_}
    BY <2>1
  <2>. QED
    BY <2>1, <2>3, <2>4, <2>5, AnswersStay
<1>3. ASSUME NEW m \in BagToSet(net), Lose(m) PROVE Answers'
  BY <1>3 DEF Lose, Answers
<1>4. ASSUME NEW m \in BagToSet(net), Duplicate(m) PROVE Answers'
  <2>1. UNCHANGED <<broken, waiting>> /\ SendAll({m})
    BY <1>4 DEF Duplicate, history
  <2>. QED
    BY <1>1, <2>1, OthersAnswer
<1>5. ASSUME NEW n \in Server, NEW p \in Path, Adopt(n, p) \/ Readopt(n, p) \/ Delete(n, p)
      PROVE  Answers'
  <2>1. UNCHANGED <<broken, waiting>> /\ (UNCHANGED net \/ \E sent : SendAll(sent))
    BY <1>5 DEF Adopt, Readopt, Delete, Registered, history
  <2>. QED
    BY <1>1, <2>1, OthersAnswer
<1>6. ASSUME NEW c \in Watcher, WatcherUse(c) PROVE Answers'
  <2>1. /\ "lost" \in broken => "lost" \in broken'
        /\ UNCHANGED waiting /\ (UNCHANGED net \/ \E sent : SendAll(sent))
    BY <1>6 DEF WatcherUse, AdoptProxy, Detach, SyncChildren, ResetConnection, UserSetsValue,
                SendToRemote, history
  <2>. QED
    BY <1>1, <2>1, OthersAnswer
<1>7. ASSUME NEW n, NEW to, CallRegister(n, to) PROVE Answers'
  <2>1. UNCHANGED <<broken, waiting>> /\ \E sent : SendAll(sent)
    BY <1>7 DEF CallRegister, history
  <2>. QED
    BY <1>1, <2>1, OthersAnswer
<1>8. ASSUME NEW m \in BagToSet(net), Receive(m) PROVE Answers'
  BY <1>8, ReceiveAnswers
<1>9. ASSUME NEW n \in Node, NEW to \in Server, NEW call \in Calls, Call(n, to, call.path, call.arg)
      PROVE  Answers'
  BY <1>9, CallAnswers
<1>. QED
  BY <1>2, <1>3, <1>4, <1>5, <1>6, <1>7, <1>8, <1>9 DEF Next, Deliver, Network, TreeUse, CallUse

(* Who calls is answered, by a reply or an error, also when it has never    *)
(* registered (command.cpp:144-159): from the call to its answer, one of    *)
(* the two is under way as long as nothing is lost, because who calls is    *)
(* made an observer before the observers are told.                          *)
THEOREM CallersGetAnswers == Spec => []CallersAreAnswered
<1>1. Answers => CallersAreAnswered
  <2>1. net = EmptyBag => BagToSet(net) = {}
    BY DEF EmptyBag, SetToBag, BagToSet
  <2>. QED
    BY <2>1 DEF Answers, CallersAreAnswered, Quiet
<1>2. Init => GhostInv /\ Answers
  BY InitGhost DEF Init, Answers
<1>3. GhostInv /\ Answers /\ [Next]_vars => (GhostInv /\ Answers)'
  <2>1. GhostInv /\ [Next]_vars => GhostInv'
    BY GhostStep
  <2>2. ASSUME Answers, UNCHANGED vars PROVE Answers'
    <3>1. UNCHANGED <<waiting, broken, net>>
      BY <2>2 DEF vars, history
    <3>. QED
      BY <2>2, <3>1, OthersAnswer
  <2>. QED
    BY <2>1, <2>2, NextAnswers
<1>. QED
  BY <1>1, <1>2, <1>3, PTL DEF Spec


-----------------------------------------------------------------------------
(* What keeps the mirrors complete *)

(* What was under way for c, in w, is in its mirror, or under way again.    *)
Served(w, c) ==
  /\ w = Msg(c, Remote[c], ListAttPath, Str(Root_)) =>
       /\ c \in observers_'[Remote[c]]
       /\ Remote[c] \in HasMeta =>
            \A p \in DOMAIN objects[Remote[c]] : Len(p) = 1 =>
              \E x \in BagToSet(net') : Listed(x, c, p)
  /\ \A p \in Path : Len(p) = 1 /\ Builds(p) /\ Listed(w, c, p) => p \in DOMAIN mirror'[c]
  /\ \A p \in Path : Builds(SubSeq(p, 1, 1)) /\ Announced(w, c, p) => p \in DOMAIN mirror'[c]

(* The name of a path of one name. *)
LEMMA OneName ==
  ASSUME NEW p \in Path, Len(p) = 1
  PROVE  SubSeq(p, 1, 1) = p /\ Up(p) = Root_
<1>1. p \in Seq(STRING) /\ 1 \in 1..Len(p)
  BY PathFacts
<1>. QED
  BY <1>1, PrefixFacts DEF Up, Root_

LEMMA CompleteStays ==
  ASSUME GhostInv, NEW c \in Watcher, Complete(c),
         attached'[c] => attached[c], attached'[c] = attached[c] \/ "cut" \in broken',
         broken \subseteq broken', DOMAIN mirror[c] \subseteq DOMAIN mirror'[c],
         observers_[Remote[c]] \subseteq observers_'[Remote[c]],
         DOMAIN objects'[Remote[c]] \subseteq DOMAIN objects[Remote[c]], told'[c] = told[c],
         attached[c] => \A w \in BagToSet(net) : w \in BagToSet(net') \/ Served(w, c)
  PROVE  Complete(c)'
<1>1. /\ told[c] \subseteq Path /\ Remote[c] \in Node
      /\ \A p \in DOMAIN objects[Remote[c]] : p \in Path
  BY DispatchAssumption DEF Complete, GhostInv, Kept
<1>2. ASSUME attached'[c], "lost" \notin broken'
      PROVE  Observes(c)' /\ HasListed(c)' /\ HasBeenTold(c)'
  <2>1. Observes(c) /\ HasListed(c) /\ HasBeenTold(c)
    BY <1>2 DEF Complete
  <2>2. \A w \in BagToSet(net) : w \in BagToSet(net') \/ Served(w, c)
    BY <1>2
  <2>3. Observes(c)'
    BY <2>1, <2>2 DEF Observes, Listing, Served
  <2>4. HasListed(c)'
    <3>1. SUFFICES ASSUME Remote[c] \in HasMeta, NEW p \in DOMAIN objects[Remote[c]],
                          Len(p) = 1, Builds(p)
                   PROVE  \/ p \in DOMAIN mirror'[c] \/ Listing(c)'
                          \/ \E m \in BagToSet(net') : Listed(m, c, p) \/ Announced(m, c, p)
      BY DEF HasListed, Listed, Announced
    <3>2. \/ p \in DOMAIN mirror[c] \/ Listing(c)
          \/ \E m \in BagToSet(net) : Listed(m, c, p) \/ Announced(m, c, p)
      BY <2>1, <3>1 DEF HasListed
    <3>3. p \in Path /\ SubSeq(p, 1, 1) = p
      BY <1>1, <3>1, OneName
    <3>4. CASE Listing(c)
      BY <2>2, <3>1, <3>4 DEF Listing, Served
    <3>5. ASSUME NEW m \in BagToSet(net), Listed(m, c, p) \/ Announced(m, c, p)
          PROVE  p \in DOMAIN mirror'[c] \/ m \in BagToSet(net')
      BY <2>2, <3>1, <3>3, <3>5 DEF Served
    <3>. QED
      BY <3>2, <3>4, <3>5
  <2>5. HasBeenTold(c)'
    <3>1. SUFFICES ASSUME "cut" \notin broken', NEW p \in told[c], Builds(SubSeq(p, 1, 1))
                   PROVE  p \in DOMAIN mirror'[c] \/ \E m \in BagToSet(net') : Announced(m, c, p)
      BY DEF HasBeenTold, Announced
    <3>2. p \in DOMAIN mirror[c] \/ \E m \in BagToSet(net) : Announced(m, c, p)
      BY <2>1, <3>1 DEF HasBeenTold
    <3>. QED
      BY <1>1, <2>2, <3>1, <3>2 DEF Served
  <2>. QED
    BY <2>3, <2>4, <2>5
<1>. QED
  BY <1>1, <1>2 DEF Complete

(* Messages are sent, and nothing else changes for c. *)
LEMMA CompleteWithMore ==
  ASSUME GhostInv, NEW c \in Watcher, Complete(c),
         attached'[c] => attached[c], attached'[c] = attached[c] \/ "cut" \in broken',
         broken \subseteq broken', DOMAIN mirror[c] \subseteq DOMAIN mirror'[c],
         UNCHANGED observers_, DOMAIN objects'[Remote[c]] \subseteq DOMAIN objects[Remote[c]],
         told'[c] = told[c], BagToSet(net) \subseteq BagToSet(net')
  PROVE  Complete(c)'
<1>1. attached[c] => \A w \in BagToSet(net) : w \in BagToSet(net') \/ Served(w, c)
  OBVIOUS
<1>2. observers_[Remote[c]] \subseteq observers_'[Remote[c]]
  OBVIOUS
<1>. QED
  BY <1>1, <1>2, CompleteStays


(* Whoever observes is told of what is registered. *)
LEMMA RegisteredComplete ==
  ASSUME GhostInv, NEW c \in Watcher, Complete(c), NEW n \in Node, NEW ps \in SUBSET Path,
         Registered(n, ps), UNCHANGED <<observers_, attached, mirror, broken>>,
         DOMAIN objects'[n] \subseteq DOMAIN objects[n] \cup ps,
         \A k \in Node : k # n => objects'[k] = objects[k]
  PROVE  Complete(c)'
<1>. DEFINE news(p) == AboutAttrs(p, IF Signature[p] = "none" THEN NilAttrs ELSE Bare(Signature[p]))
            sent == UNION {Notification(n, AttrsPath, news(p)) : p \in ps}
<1>0. Remote[c] \in Node
  BY DispatchAssumption
<1>1. SendAll(sent)
  BY DEF Registered
<1>2. BagToSet(net) \subseteq BagToSet(net') /\ sent \subseteq BagToSet(net')
  BY <1>1, SentBag DEF GhostInv, Shape
<1>3. told'[c] = IF Remote[c] = n /\ c \in observers_[n] /\ attached[c] THEN told[c] \cup ps ELSE told[c]
  BY DEF Registered
<1>4. CASE Remote[c] # n
  <2>1. DOMAIN objects'[Remote[c]] \subseteq DOMAIN objects[Remote[c]] /\ told'[c] = told[c]
    BY <1>0, <1>3, <1>4
  <2>. QED
    BY <1>2, <2>1, CompleteWithMore
<1>5. ASSUME Remote[c] = n, c \in observers_[n], NEW p \in ps
      PROVE  \E x \in BagToSet(net') : Announced(x, c, p)
  <2>1. PICK x : x = Msg(n, c, ReplyPath, Reply(AttrsPath, news(p)))
    OBVIOUS
  <2>2. x \in Notification(n, AttrsPath, news(p))
    BY <1>5, <2>1 DEF Notification
  <2>3. x \in BagToSet(net')
    BY <1>2, <2>2
  <2>4. Announced(x, c, p)
    BY <1>5, <2>1 DEF Announced, Msg, Reply, AboutAttrs
  <2>. QED
    BY <2>3, <2>4
<1>. HIDE DEF sent, news
<1>6. CASE Remote[c] = n
  <2>1. told'[c] \subseteq Path /\ ("cut" \notin broken' /\ told'[c] # {} => attached'[c])
    BY <1>3 DEF Complete
  <2>2. ASSUME attached[c], "lost" \notin broken
        PROVE  Observes(c)' /\ HasListed(c)' /\ HasBeenTold(c)'
    <3>1. Observes(c) /\ HasListed(c) /\ HasBeenTold(c)
      BY <2>2 DEF Complete
    <3>2. Observes(c)'
      BY <1>2, <3>1 DEF Observes, Listing
    <3>3. HasListed(c)'
      <4>1. SUFFICES ASSUME Remote[c] \in HasMeta, NEW p \in DOMAIN objects'[n], Len(p) = 1, Builds(p)
                     PROVE  \/ p \in DOMAIN mirror'[c] \/ Listing(c)'
                            \/ \E m \in BagToSet(net') : Listed(m, c, p) \/ Announced(m, c, p)
        BY <1>6 DEF HasListed, Listed, Announced
      <4>2. CASE p \in DOMAIN objects[n]
        BY <1>2, <1>6, <3>1, <4>1, <4>2 DEF HasListed, Listing
      <4>3. CASE p \in ps
        BY <1>2, <1>5, <1>6, <3>1, <4>3 DEF Observes, Listing
      <4>. QED
        BY <4>1, <4>2, <4>3
    <3>4. HasBeenTold(c)'
      <4>1. SUFFICES ASSUME "cut" \notin broken, NEW p \in told'[c], Builds(SubSeq(p, 1, 1))
                     PROVE  p \in DOMAIN mirror[c] \/ \E m \in BagToSet(net') : Announced(m, c, p)
        BY DEF HasBeenTold, Announced
      <4>2. CASE p \in told[c]
        BY <1>2, <3>1, <4>1, <4>2 DEF HasBeenTold
      <4>3. CASE p \in ps /\ c \in observers_[n]
        BY <1>5, <1>6, <4>3
      <4>. QED
        BY <1>3, <4>1, <4>2, <4>3
    <3>. QED
      BY <3>2, <3>3, <3>4
  <2>. QED
    BY <2>1, <2>2 DEF Complete
<1>. QED
  BY <1>4, <1>6

LEMMA TreeComplete ==
  ASSUME GhostInv, NEW c \in Watcher, Complete(c), NEW n \in Server, NEW p \in Path,
         Adopt(n, p) \/ Readopt(n, p) \/ Delete(n, p)
  PROVE  Complete(c)'
<1>. n \in Node /\ Remote[c] \in Node
  BY DispatchAssumption
<1>0. IsOn(objects, Node) /\ \A k \in Node : DOMAIN objects[k] \subseteq Path
  BY DEF GhostInv, Shape, Kept
<1>1. CASE Adopt(n, p)
  <2>1. PICK ps : ps = {p} /\ ps \in SUBSET Path /\ Registered(n, ps)
    BY <1>1 DEF Adopt
  <2>2. /\ UNCHANGED <<observers_, attached, mirror, broken>>
        /\ DOMAIN objects'[n] \subseteq DOMAIN objects[n] \cup ps
        /\ \A k \in Node : k # n => objects'[k] = objects[k]
    BY <1>0, <1>1, <2>1 DEF Adopt, mirrorVars, IsOn
  <2>. QED
    BY <2>1, <2>2, RegisteredComplete
<1>2. CASE Readopt(n, p)
  <2>1. PICK ps : ps = {p} \cup Below(n, p) /\ ps \in SUBSET Path /\ Registered(n, ps)
    <3>1. Below(n, p) \subseteq Path
      BY <1>0, BelowIsThere
    <3>. QED
      BY <1>2, <3>1 DEF Readopt
  <2>2. /\ UNCHANGED <<observers_, attached, mirror, broken>>
        /\ DOMAIN objects'[n] \subseteq DOMAIN objects[n] \cup ps
        /\ \A k \in Node : k # n => objects'[k] = objects[k]
    BY <1>2 DEF Readopt, treeVars, mirrorVars
  <2>. QED
    BY <2>1, <2>2, RegisteredComplete
<1>3. CASE Delete(n, p)
  <2>1. UNCHANGED <<observers_, attached, mirror, net, broken, told>>
    BY <1>3 DEF Delete, mirrorVars, history
  <2>2. DOMAIN objects'[Remote[c]] \subseteq DOMAIN objects[Remote[c]]
    BY <1>0, <1>3 DEF Delete, IsOn
  <2>. QED
    BY <2>1, <2>2, CompleteWithMore
<1>. QED
  BY <1>1, <1>2, <1>3

(* A message that is not a reply serves a watcher when it asks for the      *)
(* listing, only.                                                           *)
LEMMA NoReplyServes ==
  ASSUME NEW m, NEW c, m.path # ReplyPath,
         m = Msg(c, Remote[c], ListAttPath, Str(Root_)) =>
           /\ c \in observers_'[Remote[c]]
           /\ Remote[c] \in HasMeta =>
                \A p \in DOMAIN objects[Remote[c]] : Len(p) = 1 =>
                  \E x \in BagToSet(net') : Listed(x, c, p)
  PROVE  Served(m, c)
BY DEF Served, Listed, Announced

(* The listing is not refused by a root with its meta methods. *)
LEMMA ListingIsMeta ==
  ASSUME GhostInv, NEW c \in Watcher, NEW m, m = Msg(c, Remote[c], ListAttPath, Str(Root_))
  PROVE  /\ m.path = ListAttPath /\ m.arg.is = "string" /\ m.arg.str = Root_
         /\ m.from = c /\ m.to = Remote[c] /\ IsMeta(m.path)
         /\ Remote[c] \in HasMeta => ~Refused(m)
<1>1. /\ m.path = ListAttPath /\ m.arg.is = "string" /\ m.arg.str = Root_
      /\ m.from = c /\ m.to = Remote[c]
  BY DEF Msg, Str
<1>2. IsMeta(m.path)
  BY <1>1, NamesDiffer DEF IsMeta
<1>3. ASSUME Remote[c] \in HasMeta PROVE ~Refused(m)
  <2>1. ListAttPath \in Known(Remote[c])
    BY <1>3, NamesDiffer DEF Known
  <2>2. AttrsOf(ListAttPath) = Whole("s")
    BY NamesDiffer DEF AttrsOf
  <2>3. TypeOf(Whole("s")) = "s"
    BY DEF TypeOf, Whole
  <2>. QED
    BY <1>1, <2>1, <2>2, <2>3 DEF Refused, CanReceive
<1>. QED
  BY <1>1, <1>2, <1>3

(* What is not a reply serves the watcher that sent it. *)
LEMMA AnswerComplete ==
  ASSUME GhostInv, NEW c \in Watcher, Complete(c), NEW m \in BagToSet(net), m.path # ReplyPath,
         Receive(m)
  PROVE  Complete(c)'
<1>0. /\ IsOn(observers_, Node) /\ IsOn(objects, Node) /\ IsABag(net) /\ m.to \in Node /\ Remote[c] \in Node
      /\ \A k \in Node : IsOn(objects[k], DOMAIN objects[k])
  BY DispatchAssumption DEF GhostInv, Shape, Receive
<1>1. /\ UNCHANGED <<attached, mirror, broken, told>>
      /\ observers_[Remote[c]] \subseteq observers_'[Remote[c]]
  <2>1. PICK n \in Node : n = m.to
    BY <1>0
  <2>2. UNCHANGED <<attached, mirror, broken, told>> /\ \E who : Observe(n, who)
    BY <2>1 DEF Receive, IsReply, ReceiveRegister, ReceiveRefused, ReceiveMeta, ReceiveCall,
       ObserveCaller, mirrorVars, history
  <2>3. \A k \in Node : observers_[k] \subseteq observers_'[k]
    BY <1>0, <2>2 DEF Observe, IsOn
  <2>. QED
    BY <1>0, <2>2, <2>3
<1>2. DOMAIN objects'[Remote[c]] \subseteq DOMAIN objects[Remote[c]]
  BY <1>0 DEF Receive, IsReply, ReceiveRegister, ReceiveRefused, ReceiveMeta, ReceiveCall, IsOn
<1>3. \E sent : Exchange(m, sent)
  BY DEF Receive, IsReply, ReceiveRegister, ReceiveRefused, ReceiveMeta, ReceiveCall
<1>4. \A w \in BagToSet(net) : w = m \/ w \in BagToSet(net')
  BY <1>0, <1>3, ExchangedBag
<1>5. ASSUME m = Msg(c, Remote[c], ListAttPath, Str(Root_))
      PROVE  /\ c \in observers_'[Remote[c]]
             /\ Remote[c] \in HasMeta =>
                  \A p \in DOMAIN objects[Remote[c]] : Len(p) = 1 =>
                    \E x \in BagToSet(net') : Listed(x, c, p)
  <2>1. /\ m.path = ListAttPath /\ m.arg.is = "string" /\ m.arg.str = Root_
        /\ m.from = c /\ m.to = Remote[c] /\ IsMeta(m.path) /\ m.path # RegisterPath
        /\ Remote[c] \in HasMeta => ~Refused(m)
    BY <1>5, ListingIsMeta, NamesDiffer
  <2>2. ReceiveRefused(m) \/ ReceiveMeta(m)
    BY <2>1 DEF Receive, IsReply, ReceiveRegister, ReceiveCall
  <2>3. c \in observers_'[Remote[c]]
    BY <1>0, <2>1, <2>2 DEF ReceiveRefused, ReceiveMeta, ObserveCaller, Observe, IsOn
  <2>4. ASSUME Remote[c] \in HasMeta, NEW p \in DOMAIN objects[Remote[c]], Len(p) = 1
        PROVE  \E x \in BagToSet(net') : Listed(x, c, p)
    <3>1. ReceiveMeta(m)
      BY <2>1, <2>2, <2>4 DEF ReceiveRefused
    <3>2. PICK x : x = Msg(m.to, m.from, ReplyPath, Reply(m.path, MetaAnswer(m.to, m.path, m.arg)))
      OBVIOUS
    <3>3. PICK sent : sent = {x} /\ Exchange(m, sent)
      BY <3>1, <3>2 DEF ReceiveMeta
    <3>4. x \in BagToSet(net')
      BY <1>0, <3>3, ExchangedBag
    <3>5. MetaAnswer(m.to, m.path, m.arg) = AboutChildren(Root_, Entries(Remote[c], Root_))
      <4>1. Root_ \in Known(Remote[c])
        BY DEF Known
      <4>. QED
        BY <2>1, <4>1, NamesDiffer DEF MetaAnswer
    <3>6. \E e \in Entries(Remote[c], Root_) : e.path = p
      <4>1. p \in Path /\ p # Root_ /\ Up(p) = Root_
        BY <1>0, <2>4, OneName, PathFacts DEF GhostInv, Kept
      <4>2. p \in ChildrenOf(Remote[c], Root_)
        BY <2>4, <4>1 DEF ChildrenOf, Known
      <4>3. PICK e : e = [path |-> p, attrs |-> AttrsOf(p), more |-> ChildrenOf(Remote[c], p) # {}]
        OBVIOUS
      <4>4. e \in Entries(Remote[c], Root_)
        BY <4>2, <4>3 DEF Entries
      <4>. QED
        BY <4>3, <4>4
    <3>7. Listed(x, c, p)
      BY <2>1, <3>2, <3>5, <3>6 DEF Listed, Msg, Reply, AboutChildren, Has
    <3>. QED
      BY <3>4, <3>7
  <2>. QED
    BY <2>3, <2>4
<1>6. Served(m, c)
  BY <1>5, NoReplyServes
<1>. QED
  BY <1>1, <1>2, <1>4, <1>6, CompleteStays


(* A reply of its remote serves an attached watcher. *)
LEMMA ReplyServes ==
  ASSUME GhostInv, NEW c \in Watcher, attached[c], NEW m \in BagToSet(net), m.path = ReplyPath,
         ReceiveReply(m), DOMAIN mirror[c] \subseteq DOMAIN mirror'[c]
  PROVE  Served(m, c)
<1>0. IsOn(mirror, Watcher)
  BY DEF GhostInv, Shape
<1>1. m # Msg(c, Remote[c], ListAttPath, Str(Root_))
  BY NamesDiffer DEF Msg
<1>2. ASSUME NEW p \in Path, Len(p) = 1, Builds(p), Listed(m, c, p)
      PROVE  p \in DOMAIN mirror'[c]
  <2>1. FindProxy(m) /\ ListReply(m) /\ m.to = c /\ BuildChildren(m)
    BY <1>2 DEF Listed, FindProxy, ListReply, Mirrored, ReceiveReply
  <2>2. PICK e \in m.arg.res.entries : e.path = p
    BY <1>2 DEF Listed
  <2>3. ChildAt(m.arg.res.of, e.path) = p
    <3>1. m.arg.res.of = Root_
      BY <1>2 DEF Listed
    <3>2. p \in Seq(STRING) /\ p # <<>>
      BY PathFacts DEF Root_
    <3>3. Append(Up(p), p[Len(p)]) = p /\ Up(p) = Root_
      BY <1>2, <3>2, UpFacts, OneName
    <3>. QED
      BY <2>2, <3>1, <3>3 DEF ChildAt
  <2>4. CASE p \in DOMAIN mirror[c]
    BY <2>4
  <2>5. CASE p \notin DOMAIN mirror[c]
    <3>. DEFINE at(d) == ChildAt(m.arg.res.of, d.path)
                new == {d \in m.arg.res.entries : at(d) \notin DOMAIN mirror[m.to] /\ Builds(at(d))}
                grown == [q \in DOMAIN mirror[m.to] \cup {at(d) : d \in new} |->
                            IF q \in DOMAIN mirror[m.to] THEN mirror[m.to][q]
                            ELSE LET d == CHOOSE d \in new : at(d) = q IN NewProxy(d.attrs, d.more)]
    <3>1. mirror' = [mirror EXCEPT ![m.to] = grown]
      BY <2>1 DEF BuildChildren
    <3>2. e \in new /\ at(e) = p
      BY <1>2, <2>1, <2>2, <2>3, <2>5
    <3>3. p \in DOMAIN grown
      BY <3>2
    <3>. HIDE DEF grown
    <3>. QED
      BY <1>0, <2>1, <3>1, <3>3 DEF IsOn
  <2>. QED
    BY <2>4, <2>5
<1>3. ASSUME NEW p \in Path, Builds(SubSeq(p, 1, 1)), Announced(m, c, p)
      PROVE  p \in DOMAIN mirror'[c]
  <2>1. FindProxy(m) /\ ~ListReply(m) /\ AttrsReply(m) /\ m.to = c /\ BuildAndSetAttrs(m)
    BY <1>3, NamesDiffer DEF Announced, FindProxy, ListReply, AttrsReply, ReceiveReply
  <2>. DEFINE built == [q \in DOMAIN mirror[m.to] \cup Missing(m.to, m.arg.res.of) |->
                         IF q \in DOMAIN mirror[m.to] THEN mirror[m.to][q] ELSE NewProxy(NilAttrs, TRUE)]
  <2>2. \/ m.arg.res.of \notin DOMAIN built
        \/ \E proxy : mirror' = [mirror EXCEPT ![m.to] = [built EXCEPT ![m.arg.res.of] = proxy]]
    BY <2>1 DEF BuildAndSetAttrs
  <2>3. DOMAIN built = DOMAIN mirror[m.to] \cup Missing(m.to, m.arg.res.of)
    OBVIOUS
  <2>4. m.arg.res.of = p /\ p \in Missing(c, p) \cup DOMAIN mirror[c]
    <3>1. p \in Seq(STRING) /\ Len(p) \in 1..Len(p)
      BY PathFacts
    <3>2. SubSeq(p, 1, Len(p)) = p
      BY <3>1, PrefixFacts
    <3>3. p \in {SubSeq(p, 1, i) : i \in 1..Len(p)}
      BY <3>1, <3>2
    <3>. QED
      BY <1>3, <3>3 DEF Announced, Missing
  <2>. HIDE DEF built
  <2>5. PICK proxy, now : now = [built EXCEPT ![p] = proxy] /\ mirror' = [mirror EXCEPT ![c] = now]
    BY <2>1, <2>2, <2>3, <2>4
  <2>6. DOMAIN now = DOMAIN built /\ mirror'[c] = now
    BY <1>0, <2>5 DEF IsOn
  <2>. QED
    BY <2>1, <2>3, <2>4, <2>6
<1>. QED
  BY <1>1, <1>2, <1>3 DEF Served

(* A mirror only grows. *)
LEMMA ReplyGrows ==
  ASSUME GhostInv, NEW c \in Watcher, NEW m, ReceiveReply(m)
  PROVE  DOMAIN mirror[c] \subseteq DOMAIN mirror'[c]
<1>0. IsOn(mirror, Watcher)
  BY DEF GhostInv, Shape
<1>1. \/ UNCHANGED mirror
      \/ m.to \in Watcher /\ BuildChildren(m)
      \/ m.to \in Watcher /\ BuildAndSetAttrs(m)
      \/ m.to \in Watcher /\ ChangeValue(m)
  BY DEF ReceiveReply, FindProxy
<1>2. \/ UNCHANGED mirror
      \/ m.to \in Watcher /\ \E now : mirror' = [mirror EXCEPT ![m.to] = now]
                                        /\ DOMAIN mirror[m.to] \subseteq DOMAIN now
  <2>1. CASE BuildChildren(m)
    BY <1>1, <2>1 DEF BuildChildren
  <2>2. CASE m.to \in Watcher /\ BuildAndSetAttrs(m)
    <3>. DEFINE built == [q \in DOMAIN mirror[m.to] \cup Missing(m.to, m.arg.res.of) |->
                           IF q \in DOMAIN mirror[m.to] THEN mirror[m.to][q] ELSE NewProxy(NilAttrs, TRUE)]
    <3>1. \/ UNCHANGED mirror
          \/ \E proxy : mirror' = [mirror EXCEPT ![m.to] = [built EXCEPT ![m.arg.res.of] = proxy]]
      BY <2>2 DEF BuildAndSetAttrs
    <3>2. DOMAIN mirror[m.to] \subseteq DOMAIN built
      OBVIOUS
    <3>. HIDE DEF built
    <3>3. ASSUME NEW proxy, mirror' = [mirror EXCEPT ![m.to] = [built EXCEPT ![m.arg.res.of] = proxy]]
          PROVE  \E now : mirror' = [mirror EXCEPT ![m.to] = now] /\ DOMAIN mirror[m.to] \subseteq DOMAIN now
      <4>1. PICK now : now = [built EXCEPT ![m.arg.res.of] = proxy]
        OBVIOUS
      <4>2. DOMAIN now = DOMAIN built
        BY <4>1
      <4>. QED
        BY <3>2, <3>3, <4>1, <4>2
    <3>. QED
      BY <2>2, <3>1, <3>3
  <2>3. CASE m.to \in Watcher /\ ChangeValue(m)
    <3>1. PICK proxy : mirror' = [mirror EXCEPT ![m.to] = [mirror[m.to] EXCEPT ![m.arg.path] = proxy]]
      BY <2>3 DEF ChangeValue
    <3>2. PICK now : now = [mirror[m.to] EXCEPT ![m.arg.path] = proxy]
      OBVIOUS
    <3>3. DOMAIN now = DOMAIN mirror[m.to]
      BY <3>2
    <3>. QED
      BY <2>3, <3>1, <3>2, <3>3
  <2>. QED
    BY <1>1, <2>1, <2>2, <2>3
<1>. QED
  BY <1>0, <1>2 DEF IsOn

LEMMA ReplyComplete ==
  ASSUME GhostInv, NEW c \in Watcher, Complete(c), NEW m \in BagToSet(net), m.path = ReplyPath,
         ReceiveReply(m)
  PROVE  Complete(c)'
<1>1. UNCHANGED <<objects, observers_, attached, broken, told>> /\ IsABag(net)
  BY DEF ReceiveReply, treeVars, GhostInv, Shape
<1>2. DOMAIN mirror[c] \subseteq DOMAIN mirror'[c]
  BY ReplyGrows
<1>3. \E sent : Exchange(m, sent)
  BY DEF ReceiveReply, BuildChildren, BuildAndSetAttrs, ChangeValue
<1>4. \A w \in BagToSet(net) : w = m \/ w \in BagToSet(net')
  BY <1>1, <1>3, ExchangedBag
<1>5. attached[c] => \A w \in BagToSet(net) : w \in BagToSet(net') \/ Served(w, c)
  BY <1>2, <1>4, ReplyServes
<1>6. /\ observers_[Remote[c]] \subseteq observers_'[Remote[c]]
      /\ DOMAIN objects'[Remote[c]] \subseteq DOMAIN objects[Remote[c]]
  BY <1>1
<1>. QED
  BY <1>1, <1>2, <1>5, <1>6, CompleteStays


LEMMA WatcherComplete ==
  ASSUME GhostInv, NEW c \in Watcher, Complete(c), NEW k \in Watcher, WatcherUse(k)
  PROVE  Complete(c)'
<1>0. /\ IsOn(mirror, Watcher) /\ IsOn(attached, Watcher) /\ IsABag(net)
      /\ \A d \in Watcher : IsOn(mirror[d], DOMAIN mirror[d])
  BY DEF GhostInv, Shape
<1>1. CASE AdoptProxy(k) /\ c # k
  <2>1. PICK sent : SendAll(sent)
    BY <1>1 DEF AdoptProxy
  <2>2. BagToSet(net) \subseteq BagToSet(net')
    BY <1>0, <2>1, SentBag
  <2>3. /\ UNCHANGED <<objects, observers_, mirror, broken, told>> /\ attached'[c] = attached[c]
    BY <1>0, <1>1 DEF AdoptProxy, treeVars, history, IsOn
  <2>. QED
    BY <2>2, <2>3, CompleteWithMore
<1>2. CASE AdoptProxy(k) /\ c = k
  <2>1. PICK w, sent : /\ w = Msg(c, Remote[c], ListAttPath, Str(Root_))
                       /\ sent = {Msg(c, Remote[c], RegisterPath, Nil), w} /\ SendAll(sent)
    BY <1>2 DEF AdoptProxy
  <2>2. BagToSet(net) \subseteq BagToSet(net') /\ w \in BagToSet(net')
    BY <1>0, <2>1, SentBag
  <2>3. Listing(c)'
    BY <2>1, <2>2 DEF Listing
  <2>4. /\ UNCHANGED <<objects, observers_, mirror, broken, told>> /\ attached'[c]
    BY <1>0, <1>2 DEF AdoptProxy, treeVars, history, IsOn
  <2>5. Observes(c)' /\ HasListed(c)'
    BY <2>3 DEF Observes, HasListed
  <2>6. ASSUME "lost" \notin broken PROVE HasBeenTold(c)'
    <3>1. SUFFICES ASSUME "cut" \notin broken, NEW p \in told[c], Builds(SubSeq(p, 1, 1))
                   PROVE  p \in DOMAIN mirror[c] \/ \E m \in BagToSet(net') : Announced(m, c, p)
      BY <2>4 DEF HasBeenTold, Announced
    <3>2. attached[c]
      BY <3>1 DEF Complete
    <3>3. HasBeenTold(c)
      BY <2>6, <3>2 DEF Complete
    <3>. QED
      BY <2>2, <3>1, <3>3 DEF HasBeenTold
  <2>. QED
    BY <2>4, <2>5, <2>6 DEF Complete
<1>3. CASE Detach(k)
  <2>1. /\ UNCHANGED <<objects, observers_, mirror, net, told>> /\ broken \subseteq broken'
        /\ "cut" \in broken' /\ (attached'[c] => attached[c])
    BY <1>0, <1>3 DEF Detach, treeVars, IsOn
  <2>. QED
    BY <2>1, CompleteWithMore
<1>4. ASSUME NEW p, SyncChildren(k, p) \/ ResetConnection(k, p) \/ \E v : UserSetsValue(k, p, v)
      PROVE  Complete(c)'
  <2>1. /\ UNCHANGED <<objects, observers_, attached, broken, told>>
        /\ UNCHANGED net \/ \E sent : SendAll(sent)
    BY <1>4 DEF SyncChildren, ResetConnection, UserSetsValue, SendToRemote, treeVars, history
  <2>2. BagToSet(net) \subseteq BagToSet(net')
    BY <1>0, <2>1, SentBag
  <2>3. DOMAIN mirror[c] \subseteq DOMAIN mirror'[c]
    <3>1. PICK proxy : mirror' = [mirror EXCEPT ![k] = [mirror[k] EXCEPT ![p] = proxy]]
      BY <1>4 DEF SyncChildren, ResetConnection, UserSetsValue
    <3>2. PICK now : now = [mirror[k] EXCEPT ![p] = proxy]
      OBVIOUS
    <3>3. DOMAIN now = DOMAIN mirror[k] /\ mirror' = [mirror EXCEPT ![k] = now]
      BY <3>1, <3>2
    <3>. QED
      BY <1>0, <3>3 DEF IsOn
  <2>. QED
    BY <2>1, <2>2, <2>3, CompleteWithMore
<1>. QED
  BY <1>1, <1>2, <1>3, <1>4 DEF WatcherUse

LEMMA NextComplete ==
  ASSUME GhostInv, NEW c \in Watcher, Complete(c), Next
  PROVE  Complete(c)'
<1>0. IsABag(net)
  BY DEF GhostInv, Shape
<1>1. ASSUME NEW m \in BagToSet(net), Vanish(m) PROVE Complete(c)'
  <2>1. m.to \notin Node /\ c \in Node /\ Remote[c] \in Node
    BY <1>1, DispatchAssumption DEF Vanish
  <2>2. PICK sent : sent = {} /\ Exchange(m, sent)
    BY <1>1 DEF Vanish
  <2>3. \A w \in BagToSet(net) : w = m \/ w \in BagToSet(net')
    BY <1>0, <2>2, ExchangedBag
  <2>4. Served(m, c)
    BY <2>1 DEF Served, Listed, Announced, Msg
  <2>5. UNCHANGED <<objects, observers_, attached, mirror, broken, told>>
    BY <1>1 DEF Vanish, treeVars, mirrorVars, history
  <2>6. /\ observers_[Remote[c]] \subseteq observers_'[Remote[c]]
        /\ DOMAIN objects'[Remote[c]] \subseteq DOMAIN objects[Remote[c]]
        /\ DOMAIN mirror[c] \subseteq DOMAIN mirror'[c]
    BY <2>5
  <2>. QED
    BY <2>3, <2>4, <2>5, <2>6, CompleteStays
<1>2. ASSUME NEW m \in BagToSet(net), Lose(m) PROVE Complete(c)'
  <2>1. "lost" \in broken' /\ broken \subseteq broken' /\ UNCHANGED <<attached, told>>
    BY <1>2 DEF Lose, mirrorVars
  <2>. QED
    BY <2>1 DEF Complete
<1>3. ASSUME UNCHANGED <<objects, observers_, attached, mirror, broken, told>>, \E sent : SendAll(sent)
      PROVE  Complete(c)'
  <2>1. BagToSet(net) \subseteq BagToSet(net')
    BY <1>0, <1>3, SentBag
  <2>2. /\ DOMAIN objects'[Remote[c]] \subseteq DOMAIN objects[Remote[c]]
        /\ DOMAIN mirror[c] \subseteq DOMAIN mirror'[c]
    BY <1>3
  <2>. QED
    BY <1>3, <2>1, <2>2, CompleteWithMore
<1>4. ASSUME NEW m, Duplicate(m) PROVE Complete(c)'
  BY <1>3, <1>4 DEF Duplicate, treeVars, mirrorVars, history
<1>5. ASSUME NEW n, NEW to, NEW call, Call(n, to, call.path, call.arg) \/ CallRegister(n, to)
      PROVE  Complete(c)'
  BY <1>3, <1>5 DEF Call, CallRegister, treeVars, mirrorVars, history
<1>6. ASSUME NEW m \in BagToSet(net), Receive(m) PROVE Complete(c)'
  <2>1. CASE m.path = ReplyPath
    BY <1>6, <2>1, ReplyComplete DEF Receive, IsReply
  <2>2. CASE m.path # ReplyPath
    BY <1>6, <2>2, AnswerComplete
  <2>. QED
    BY <2>1, <2>2
<1>7. ASSUME NEW n \in Server, NEW p \in Path, Adopt(n, p) \/ Readopt(n, p) \/ Delete(n, p)
      PROVE  Complete(c)'
  BY <1>7, TreeComplete
<1>8. ASSUME NEW k \in Watcher, WatcherUse(k) PROVE Complete(c)'
  BY <1>8, WatcherComplete
<1>. QED
  BY <1>1, <1>2, <1>4, <1>5, <1>6, <1>7, <1>8 DEF Next, Deliver, Network, TreeUse, CallUse

(* When nothing is lost and all messages are received, in whatever order    *)
(* and however often, an attached proxy has what its factory builds of what *)
(* is under the root of its remote, and all it was told of: what is missing *)
(* is in a listing that is asked for or under way, or in a notification,    *)
(* and whoever asks is made an observer before it is answered.              *)
THEOREM MirrorsAreWhole == Spec => []MirrorIsComplete
<1>1. GhostInv /\ CompleteInv => MirrorIsComplete
  <2>. SUFFICES ASSUME GhostInv, NEW c \in Watcher, Complete(c),
                       Quiet, attached[c], "lost" \notin broken
                PROVE  /\ Remote[c] \in HasMeta =>
                            {p \in DOMAIN objects[Remote[c]] : Len(p) = 1 /\ Builds(p)}
                              \subseteq DOMAIN mirror[c]
                       /\ "cut" \notin broken =>
                            {p \in told[c] : Builds(SubSeq(p, 1, 1))} \subseteq DOMAIN mirror[c]
    BY DEF CompleteInv, MirrorIsComplete
  <2>1. BagToSet(net) = {}
    BY DEF Quiet, EmptyBag, SetToBag, BagToSet
  <2>2. HasListed(c) /\ HasBeenTold(c)
    BY DEF Complete
  <2>. QED
    BY <2>1, <2>2 DEF HasListed, HasBeenTold, Listing
<1>2. Init => GhostInv /\ CompleteInv
  <2>1. ASSUME Init, NEW c \in Watcher PROVE Complete(c)
    <3>1. attached[c] = FALSE /\ told[c] = {}
      BY <2>1 DEF Init
    <3>. QED
      BY <3>1 DEF Complete
  <2>. QED
    BY <2>1, InitGhost DEF CompleteInv
<1>3. GhostInv /\ CompleteInv /\ [Next]_vars => (GhostInv /\ CompleteInv)'
  <2>1. GhostInv /\ [Next]_vars => GhostInv'
    BY GhostStep
  <2>2. ASSUME GhostInv, UNCHANGED vars, NEW c \in Watcher, Complete(c) PROVE Complete(c)'
    <3>1. UNCHANGED <<objects, observers_, attached, mirror, net, broken, told>>
      BY <2>2 DEF vars, treeVars, mirrorVars, history
    <3>2. /\ DOMAIN objects'[Remote[c]] \subseteq DOMAIN objects[Remote[c]]
          /\ DOMAIN mirror[c] \subseteq DOMAIN mirror'[c]
          /\ BagToSet(net) \subseteq BagToSet(net')
      BY <3>1
    <3>. QED
      BY <2>2, <3>1, <3>2, CompleteWithMore
  <2>3. ASSUME GhostInv, CompleteInv, [Next]_vars, NEW c \in Watcher PROVE Complete(c)'
    BY <2>2, <2>3, NextComplete DEF CompleteInv
  <2>. QED
    BY <2>1, <2>3 DEF CompleteInv
<1>. QED
  BY <1>1, <1>2, <1>3, PTL DEF Spec

=============================================================================
