-------------------------- MODULE DiscoveryProofs ---------------------------
(***************************************************************************)
(* Proofs about Discovery, for any names, interfaces, addresses and number  *)
(* of proxies: under a user's program that keeps to the order of Orderly,   *)
(* with a delete_proxy that takes the command's lock and no address that    *)
(* two names share, the browser, the command and the proxies agree on which *)
(* proxies there are (ProxiesAreListed) and neither a callback nor a reply  *)
(* uses one that is gone (NothingUsedIsGone).                               *)
(***************************************************************************)
EXTENDS Discovery, FiniteSetTheorems, TLAPS

(* What avahi reports to the browser. *)
Notice == [kind : {"new", "remove"}, name : Names, interface : Interfaces]

CallbackType == [at : {"idle", "adopt", "detach", "delete"},
                 proxy : Proxies \cup {None}]

(* TypeOK, and what makes the sequences of the model sequences.             *)
Types ==
  /\ TypeOK
  /\ IsFiniteSet(announced) /\ events \in Seq(Notice)
  /\ callback \in CallbackType

(* Nothing that the browser does has begun. *)
Early ==
  /\ ~running_ /\ callback = NoCallback /\ browser = "whole" /\ command
  /\ \A n \in Names : found_devices_[n] = None
  /\ \A p \in Proxies : proxy[p].factory = 0

(* What is left of the user's program fits to what there is already: a stop *)
(* is to come before anything is taken down, and so on.                     *)
Script ==
  /\ InOrder(program)
  /\ proxy_factory_ = 0 => After(program, "start", "factory")
  /\ command => After(program, "base", "command")
  /\ running_ => \A step \in Teardown : After(program, step, "stop")
  /\ \A j \in DOMAIN program :
       /\ program[j] \in Setup => Early
       /\ program[j] = "adopt" => \A p \in Proxies : proxy[p].state = "unborn"
       /\ program[j] = "start" => browser = "whole" /\ command

(* Avahi's thread runs callbacks of a whole browser that has a factory.     *)
Session ==
  /\ running_ <=> session # "off"
  /\ callback # NoCallback => session = "on"
  /\ resolving # {} => session = "on"
  /\ running_ => proxy_factory_ # 0 /\ browser = "whole" /\ command
  /\ browser = "dead" => ~command

(* An address that is kept for a name is one of that name's. *)
Places ==
  /\ \A n \in Names : address[n] \in Addresses[n]
  /\ \A r \in resolving : r.address \in Addresses[r.name]
  /\ \A n \in Names : found_devices_[n] \in Addresses[n] \cup {None}

In(seq, p) == \E k \in DOMAIN seq : seq[k] = p
Once(seq) == \A j, k \in DOMAIN seq : seq[j] = seq[k] => j = k

(* The hash, the vector and the proxies' own link tell the same, and a proxy*)
(* without a link is in the hands of a callback.                            *)
Hashed ==
  /\ \A a \in Address : root_proxies_[a] # None =>
       /\ proxy[root_proxies_[a]].state = "alive"
       /\ proxy[root_proxies_[a]].location = a
       /\ proxy[root_proxies_[a]].command_
  /\ \A p \in Proxies : proxy[p].command_ =>
       proxy[p].state = "alive" /\ root_proxies_[proxy[p].location] = p

Vectored ==
  /\ \A p \in Proxies : proxy[p].command_ <=> In(root_proxies_vector_, p)
  /\ Once(root_proxies_vector_)

Owned ==
  \A p \in Proxies :
    proxy[p].state = "alive" => proxy[p].command_ \/ callback.proxy = p

Links == command => Hashed /\ Vectored /\ Owned

(* The proxy that a callback works on. *)
Callback ==
  callback # NoCallback =>
    /\ proxy[callback.proxy].state = "alive"
    /\ callback.at \in {"adopt", "delete"} => ~proxy[callback.proxy].command_
    /\ callback.at = "adopt" =>
         root_proxies_[proxy[callback.proxy].location] = None
    /\ callback.at = "detach" =>
         \A n \in Names : found_devices_[n] # proxy[callback.proxy].location

(* Every device found has its proxy, at the latest at the callback's end.   *)
Found ==
  command => \A n \in Names : found_devices_[n] # None =>
    \/ root_proxies_[found_devices_[n]] # None
    \/ /\ callback.at = "adopt"
       /\ proxy[callback.proxy].location = found_devices_[n]

Living ==
  /\ ~command => \A p \in Proxies : proxy[p].state # "alive"
  /\ \A a \in Address : root_proxies_[a] # None =>
       proxy[root_proxies_[a]].state # "unborn"
  /\ handling # None => command /\ proxy[handling].state = "alive"
  /\ \A p \in Proxies : proxy[p].factory \in {0, proxy_factory_}

DiscInv ==
  /\ Types /\ Script /\ Session /\ Places
  /\ Links /\ Callback /\ Found /\ Living

-----------------------------------------------------------------------------
(* Sequences *)

(* Erasing from a vector that lists nothing twice takes one entry away and  *)
(* keeps the others.                                                        *)
LEMMA ErasedTakes ==
  ASSUME NEW S, NEW seq \in Seq(S), Once(seq), NEW p
  PROVE  /\ Erased(seq, p) \in Seq(S)
         /\ Once(Erased(seq, p))
         /\ \A q : In(Erased(seq, p), q) <=> In(seq, q) /\ q # p
<1>1. CASE ~In(seq, p)
  BY <1>1 DEF In, Erased
<1>2. CASE In(seq, p)
  <2> DEFINE isFirst(k) == seq[k] = p /\ \A j \in 1..(k - 1) : seq[j] # p
             k == CHOOSE k \in DOMAIN seq : isFirst(k)
  <2>1. DOMAIN seq = 1..Len(seq) /\ Len(seq) \in Nat
    OBVIOUS
  <2>2. PICK m \in DOMAIN seq : seq[m] = p
    BY <1>2 DEF In
  <2>3. isFirst(m)
    BY <2>1, <2>2 DEF Once
  <2>4. k \in DOMAIN seq /\ seq[k] = p
    BY <2>2, <2>3
  <2>5. k = m
    BY <2>2, <2>4 DEF Once
  <2>6. Erased(seq, p)
          = [i \in 1..(Len(seq) - 1) |-> seq[IF i < m THEN i ELSE i + 1]]
    BY <1>2, <2>5 DEF Erased, In
  <2> HIDE DEF k, isFirst
  <2>7. DOMAIN Erased(seq, p) = 1..(Len(seq) - 1)
    BY <2>6
  <2>8. \A i \in 1..(Len(seq) - 1) :
          Erased(seq, p)[i] = seq[IF i < m THEN i ELSE i + 1]
    BY <2>6
  <2>9. Erased(seq, p) \in Seq(S)
    BY <2>1, <2>2, <2>6
  <2>10. Once(Erased(seq, p))
    <3> DEFINE at(i) == IF i < m THEN i ELSE i + 1
    <3>1. SUFFICES ASSUME NEW i \in 1..(Len(seq) - 1),
                          NEW j \in 1..(Len(seq) - 1),
                          Erased(seq, p)[i] = Erased(seq, p)[j]
                   PROVE  i = j
      BY <2>7 DEF Once
    <3>2. at(i) \in DOMAIN seq /\ at(j) \in DOMAIN seq
      BY <2>1, <2>2
    <3>3. seq[at(i)] = seq[at(j)]
      BY <3>1, <2>8
    <3>4. at(i) = at(j)
      BY <3>2, <3>3 DEF Once
    <3> QED
      BY <3>4, <2>1, <2>2
  <2>11. ASSUME NEW q, In(Erased(seq, p), q)
         PROVE  In(seq, q) /\ q # p
    <3>1. PICK i \in 1..(Len(seq) - 1) : Erased(seq, p)[i] = q
      BY <2>7, <2>11 DEF In
    <3> DEFINE j == IF i < m THEN i ELSE i + 1
    <3>2. j \in DOMAIN seq /\ seq[j] = q /\ j # m
      BY <3>1, <2>1, <2>2, <2>8
    <3> QED
      BY <3>2, <2>2 DEF Once, In
  <2>12. ASSUME NEW q, In(seq, q), q # p
         PROVE  In(Erased(seq, p), q)
    <3>1. PICK j \in DOMAIN seq : seq[j] = q
      BY <2>12 DEF In
    <3>2. j # m
      BY <3>1, <2>2, <2>12
    <3>3. PICK i \in 1..(Len(seq) - 1) : (IF i < m THEN i ELSE i + 1) = j
      <4>1. CASE j < m
        <5>1. j \in 1..(Len(seq) - 1) /\ (IF j < m THEN j ELSE j + 1) = j
          BY <4>1, <3>1, <2>1, <2>2
        <5> QED
          BY <5>1
      <4>2. CASE j > m
        <5>1. /\ j - 1 \in 1..(Len(seq) - 1)
              /\ (IF j - 1 < m THEN j - 1 ELSE (j - 1) + 1) = j
          BY <4>2, <3>1, <2>1, <2>2
        <5> QED
          BY <5>1
      <4> QED
        BY <4>1, <4>2, <3>1, <3>2, <2>1, <2>2
    <3>4. Erased(seq, p)[i] = q
      BY <3>1, <3>3, <2>8
    <3> QED
      BY <3>3, <3>4, <2>7 DEF In
  <2> QED
    BY <2>9, <2>10, <2>11, <2>12
<1> QED
  BY <1>1, <1>2

(* Appending what is not there keeps a vector free of doubles. *)
LEMMA AppendKeeps ==
  ASSUME NEW S, NEW seq \in Seq(S), Once(seq), NEW p \in S, ~In(seq, p)
  PROVE  /\ Append(seq, p) \in Seq(S)
         /\ Once(Append(seq, p))
         /\ \A q : In(Append(seq, p), q) <=> In(seq, q) \/ q = p
<1>1. /\ Append(seq, p) \in Seq(S)
      /\ Len(seq) \in Nat /\ DOMAIN seq = 1..Len(seq)
      /\ DOMAIN Append(seq, p) = 1..(Len(seq) + 1)
      /\ \A k \in 1..Len(seq) : Append(seq, p)[k] = seq[k]
      /\ Append(seq, p)[Len(seq) + 1] = p
  OBVIOUS
<1> DEFINE longer == Append(seq, p)
<1> HIDE DEF longer
<1>2. /\ DOMAIN longer = 1..(Len(seq) + 1)
      /\ \A k \in 1..Len(seq) : longer[k] = seq[k]
      /\ longer[Len(seq) + 1] = p
  BY <1>1 DEF longer
<1>3. Once(longer)
  BY <1>1, <1>2 DEF Once, In
<1>4. ASSUME NEW q, In(longer, q)
      PROVE  In(seq, q) \/ q = p
  BY <1>4, <1>1, <1>2 DEF In
<1>5. ASSUME NEW q, In(seq, q) \/ q = p
      PROVE  In(longer, q)
  <2>1. CASE In(seq, q)
    BY <2>1, <1>1, <1>2 DEF In
  <2>2. CASE q = p
    BY <2>2, <1>1, <1>2 DEF In
  <2> QED
    BY <1>5, <2>1, <2>2
<1> QED
  BY <1>1, <1>3, <1>4, <1>5 DEF longer

(* How often something is in a vector that lists nothing twice. *)
LEMMA OnceCounts ==
  ASSUME NEW seq, Once(seq), NEW p
  PROVE  Cardinality({k \in DOMAIN seq : seq[k] = p})
           = IF In(seq, p) THEN 1 ELSE 0
<1>1. CASE In(seq, p)
  <2>1. PICK k \in DOMAIN seq : seq[k] = p
    BY <1>1 DEF In
  <2>2. {j \in DOMAIN seq : seq[j] = p} = {k}
    BY <2>1 DEF Once
  <2> QED
    BY <1>1, <2>2, FS_Singleton
<1>2. CASE ~In(seq, p)
  <2>1. {j \in DOMAIN seq : seq[j] = p} = {}
    BY <1>2 DEF In
  <2> QED
    BY <1>2, <2>1, FS_EmptySet
<1> QED
  BY <1>1, <1>2

-----------------------------------------------------------------------------
(* The user's program *)

(* The rest of a program, after a step of it. *)
LEMMA Rest ==
  ASSUME NEW steps \in Seq(Steps), steps # <<>>
  PROVE  /\ Tail(steps) \in Seq(Steps) /\ Head(steps) \in Steps
         /\ 1 \in DOMAIN steps /\ Head(steps) = steps[1]
         /\ DOMAIN steps \subseteq Nat
         /\ DOMAIN Tail(steps) \subseteq Nat \ {0}
         /\ \A j \in DOMAIN Tail(steps) :
              j + 1 \in DOMAIN steps /\ Tail(steps)[j] = steps[j + 1]
         /\ \A j \in DOMAIN steps : j > 1 =>
              j - 1 \in DOMAIN Tail(steps) /\ Tail(steps)[j - 1] = steps[j]
OBVIOUS

LEMMA RestInOrder ==
  ASSUME NEW steps \in Seq(Steps), steps # <<>>, InOrder(steps)
  PROVE  InOrder(Tail(steps))
<1> DEFINE rest == Tail(steps)
<1>1. /\ DOMAIN steps \subseteq Nat /\ DOMAIN rest \subseteq Nat \ {0}
      /\ \A j \in DOMAIN rest : j + 1 \in DOMAIN steps /\ rest[j] = steps[j + 1]
      /\ \A j \in DOMAIN steps : j > 1 =>
           j - 1 \in DOMAIN rest /\ rest[j - 1] = steps[j]
  BY Rest
<1> HIDE DEF rest
<1>2. SUFFICES ASSUME NEW i \in DOMAIN rest, NEW j \in DOMAIN rest, i < j
               PROVE  /\ rest[i] = "start" \/ rest[i] \in Teardown =>
                           rest[j] \notin Setup
                      /\ rest[i] \in Teardown => rest[j] # "start"
                      /\ rest[i] = "adopt" => rest[j] # "adopt"
                      /\ rest[i] = "start" /\ rest[j] \in Teardown =>
                           \E k \in DOMAIN rest :
                             i < k /\ k < j /\ rest[k] = "stop"
  BY DEF InOrder, rest
<1>3. /\ i \in Nat /\ j \in Nat /\ i > 0
      /\ i + 1 \in DOMAIN steps /\ j + 1 \in DOMAIN steps
      /\ rest[i] = steps[i + 1] /\ rest[j] = steps[j + 1] /\ i + 1 < j + 1
  BY <1>1, <1>2
<1>4. ASSUME rest[i] = "start", rest[j] \in Teardown
      PROVE  \E k \in DOMAIN rest : i < k /\ k < j /\ rest[k] = "stop"
  <2>1. PICK k \in DOMAIN steps : i + 1 < k /\ k < j + 1 /\ steps[k] = "stop"
    BY <1>3, <1>4 DEF InOrder
  <2>2. /\ k - 1 \in DOMAIN rest /\ rest[k - 1] = "stop"
        /\ i < k - 1 /\ k - 1 < j
    BY <2>1, <1>1, <1>3
  <2> QED
    BY <2>2
<1> QED
  BY <1>3, <1>4 DEF InOrder

(* A step that must come after another is not the first one, and still has  *)
(* to after any step but that other.                                        *)
LEMMA RestAfter ==
  ASSUME NEW steps \in Seq(Steps), steps # <<>>,
         NEW step, NEW before, After(steps, step, before)
  PROVE  /\ Head(steps) # step
         /\ Head(steps) # before => After(Tail(steps), step, before)
<1> DEFINE rest == Tail(steps)
<1>1. /\ 1 \in DOMAIN steps /\ Head(steps) = steps[1]
      /\ DOMAIN steps \subseteq Nat \ {0} /\ DOMAIN rest \subseteq Nat \ {0}
      /\ \A j \in DOMAIN rest : j + 1 \in DOMAIN steps /\ rest[j] = steps[j + 1]
      /\ \A j \in DOMAIN steps : j > 1 =>
           j - 1 \in DOMAIN rest /\ rest[j - 1] = steps[j]
  BY Rest
<1> HIDE DEF rest
<1>2. Head(steps) # step
  BY <1>1 DEF After
<1>3. ASSUME Head(steps) # before, NEW j \in DOMAIN rest, rest[j] = step
      PROVE  \E i \in DOMAIN rest : i < j /\ rest[i] = before
  <2>1. PICK i \in DOMAIN steps : i < j + 1 /\ steps[i] = before
    BY <1>1, <1>3 DEF After
  <2>2. i > 1 /\ i - 1 \in DOMAIN rest /\ rest[i - 1] = before /\ i - 1 < j
    BY <2>1, <1>1, <1>3
  <2> QED
    BY <2>2
<1> QED
  BY <1>2, <1>3 DEF After, rest

(* What the first step of a program forbids in the rest of it. *)
LEMMA RestAllows ==
  ASSUME NEW steps \in Seq(Steps), steps # <<>>, InOrder(steps)
  PROVE  /\ \A j \in DOMAIN Tail(steps) :
              /\ Head(steps) = "start" \/ Head(steps) \in Teardown =>
                   Tail(steps)[j] \notin Setup
              /\ Head(steps) \in Teardown => Tail(steps)[j] # "start"
              /\ Head(steps) = "adopt" => Tail(steps)[j] # "adopt"
         /\ Head(steps) = "start" =>
              \A step \in Teardown : After(Tail(steps), step, "stop")
<1> DEFINE rest == Tail(steps)
<1>1. /\ 1 \in DOMAIN steps /\ Head(steps) = steps[1]
      /\ DOMAIN steps \subseteq Nat \ {0} /\ DOMAIN rest \subseteq Nat \ {0}
      /\ \A j \in DOMAIN rest : j + 1 \in DOMAIN steps /\ rest[j] = steps[j + 1]
      /\ \A j \in DOMAIN steps : j > 1 =>
           j - 1 \in DOMAIN rest /\ rest[j - 1] = steps[j]
  BY Rest
<1> HIDE DEF rest
<1>2. \A j \in DOMAIN rest : 1 < j + 1
  BY <1>1
<1>3. \A j \in DOMAIN rest :
        /\ Head(steps) = "start" \/ Head(steps) \in Teardown =>
             rest[j] \notin Setup
        /\ Head(steps) \in Teardown => rest[j] # "start"
        /\ Head(steps) = "adopt" => rest[j] # "adopt"
  BY <1>1, <1>2 DEF InOrder
<1>4. ASSUME Head(steps) = "start", NEW step \in Teardown,
             NEW j \in DOMAIN rest, rest[j] = step
      PROVE  \E i \in DOMAIN rest : i < j /\ rest[i] = "stop"
  <2>1. PICK k \in DOMAIN steps : 1 < k /\ k < j + 1 /\ steps[k] = "stop"
    BY <1>1, <1>2, <1>4 DEF InOrder
  <2>2. k - 1 \in DOMAIN rest /\ rest[k - 1] = "stop" /\ k - 1 < j
    BY <2>1, <1>1, SMTT(30)
  <2> QED
    BY <2>2
<1> QED
  BY <1>3, <1>4 DEF After, rest

-----------------------------------------------------------------------------
(* Types *)

LEMMA Constants ==
  /\ None \notin Address /\ None \notin Proxies
  /\ \A n \in Names : Addresses[n] \subseteq Address
  /\ NoCallback \in CallbackType
  /\ NoCallback.at = "idle" /\ NoCallback.proxy = None
  /\ \A at \in {"adopt", "detach", "delete"}, p \in Proxies :
       /\ [at |-> at, proxy |-> p] \in CallbackType
       /\ [at |-> at, proxy |-> p] # NoCallback
  /\ Unborn \in [state : {"unborn", "alive", "deleted"}, command_ : BOOLEAN,
                 location : Address \cup {None}, factory : Nat]
BY DiscoveryAssumption DEF DiscoveryAssumption, Address, NoCallback, CallbackType, Unborn

(* A callback is under way exactly when it is somewhere and has a proxy.    *)
LEMMA CallbackAt ==
  ASSUME Types
  PROVE  /\ callback.at = "idle" => callback = NoCallback
         /\ callback # NoCallback =>
              /\ callback.at \in {"adopt", "detach", "delete"}
              /\ callback.proxy \in Proxies
         /\ callback = NoCallback =>
              callback.at = "idle" /\ callback.proxy \notin Proxies
<1>1. callback \in CallbackType
  BY DEF Types
<1>2. callback = [at |-> callback.at, proxy |-> callback.proxy]
  BY <1>1 DEF CallbackType
<1>3. /\ callback.at \in {"idle", "adopt", "detach", "delete"}
      /\ callback.at = "idle" => callback.proxy = None
      /\ callback.at # "idle" => callback.proxy \in Proxies
  BY DEF Types, TypeOK
<1>4. callback.at = "idle" => callback = NoCallback
  BY <1>2, <1>3 DEF NoCallback
<1> QED
  BY <1>3, <1>4, Constants

(* A proxy is taken out of the hash and the vector, and only that one.      *)
LEMMA UnregisteredTakes ==
  ASSUME Types, Once(root_proxies_vector_), NEW p \in Proxies, Unregistered(p)
  PROVE  /\ root_proxies_' \in [Address -> Proxies \cup {None}]
         /\ \A a \in Address :
              root_proxies_'[a] = IF root_proxies_[a] = p THEN None
                                  ELSE root_proxies_[a]
         /\ root_proxies_vector_' \in Seq(Proxies)
         /\ Once(root_proxies_vector_')
         /\ \A q : In(root_proxies_vector_', q) <=>
                     In(root_proxies_vector_, q) /\ q # p
<1>1. root_proxies_vector_ \in Seq(Proxies)
  BY DEF Types, TypeOK
<1>2. root_proxies_vector_' = Erased(root_proxies_vector_, p)
  BY DEF Unregistered
<1>3. /\ root_proxies_vector_' \in Seq(Proxies)
      /\ Once(root_proxies_vector_')
      /\ \A q : In(root_proxies_vector_', q) <=>
                  In(root_proxies_vector_, q) /\ q # p
  BY <1>1, <1>2, ErasedTakes
<1> QED
  BY <1>3 DEF Unregistered, Types, TypeOK

(* A proxy is put at its address and at the end of the vector.              *)
LEMMA RegisteredPuts ==
  ASSUME Types, Once(root_proxies_vector_),
         NEW p \in Proxies, NEW a \in Address, Registered(p, a)
  PROVE  /\ root_proxies_' \in [Address -> Proxies \cup {None}]
         /\ \A b \in Address :
              root_proxies_'[b] = IF b = a THEN p
                                  ELSE IF root_proxies_[b] = p THEN None
                                  ELSE root_proxies_[b]
         /\ root_proxies_vector_' \in Seq(Proxies)
         /\ Once(root_proxies_vector_')
         /\ \A q : In(root_proxies_vector_', q) <=>
                     In(root_proxies_vector_, q) \/ q = p
<1>1. root_proxies_vector_ \in Seq(Proxies)
  BY DEF Types, TypeOK
<1> DEFINE erased == Erased(root_proxies_vector_, p)
<1>2. root_proxies_vector_' = Append(erased, p)
  BY DEF Registered
<1>3. /\ erased \in Seq(Proxies) /\ Once(erased)
      /\ \A q : In(erased, q) <=> In(root_proxies_vector_, q) /\ q # p
  BY <1>1, ErasedTakes
<1> HIDE DEF erased
<1>4. /\ Append(erased, p) \in Seq(Proxies) /\ Once(Append(erased, p))
      /\ \A q : In(Append(erased, p), q) <=> In(erased, q) \/ q = p
  BY <1>3, AppendKeeps
<1>5. /\ root_proxies_vector_' \in Seq(Proxies)
      /\ Once(root_proxies_vector_')
      /\ \A q : In(root_proxies_vector_', q) <=>
                  In(root_proxies_vector_, q) \/ q = p
  BY <1>2, <1>3, <1>4
<1> QED
  BY <1>5 DEF Registered, Types, TypeOK

(* What holds while a callback is under way or a proxy of the user's comes. *)
LEMMA DuringCallback ==
  ASSUME DiscInv, callback # NoCallback
  PROVE  /\ session = "on" /\ running_ /\ command /\ browser = "whole"
         /\ Once(root_proxies_vector_)
         /\ callback.proxy \in Proxies
         /\ proxy[callback.proxy].state = "alive"
         /\ proxy[callback.proxy].location \in Address
<1>1. session = "on" /\ running_ /\ command /\ browser = "whole"
  BY DEF DiscInv, Session
<1>2. Once(root_proxies_vector_)
  BY <1>1 DEF DiscInv, Links, Vectored
<1>3. callback.proxy \in Proxies
  BY CallbackAt DEF DiscInv
<1>4. proxy[callback.proxy].state = "alive"
  BY DEF DiscInv, Callback
<1> QED
  BY <1>1, <1>2, <1>3, <1>4 DEF DiscInv, Types, TypeOK

(* All events that avahi reports are notices. *)
LEMMA EventsAre ==
  ASSUME Types, NEW kind \in {"new", "remove"}, NEW n \in Names,
         NEW i \in Interfaces, Event(kind, n, i)
  PROVE  events' \in Seq(Notice)
<1>1. [kind |-> kind, name |-> n, interface |-> i] \in Notice
  BY DEF Notice
<1> QED
  BY <1>1 DEF Event, Types

(* The first event of a list and the rest of it. *)
LEMMA HandledEvent ==
  ASSUME Types, NEW kind, HandlesEvent(kind)
  PROVE  /\ events' \in Seq(Notice) /\ Head(events) \in Notice
         /\ Head(events).name \in Names /\ Head(events).interface \in Interfaces
<1>1. events \in Seq(Notice) /\ events # <<>> /\ events' = Tail(events)
  BY DEF Types, HandlesEvent
<1>2. events' \in Seq(Notice) /\ Head(events) \in Notice
  BY <1>1
<1> QED
  BY <1>2 DEF Notice

LEMMA NoticesAre ==
  ASSUME NEW list \in Seq(Notice)
  PROVE  \A k \in DOMAIN list : /\ list[k].kind \in {"new", "remove"}
                                /\ list[k].name \in Names
                                /\ list[k].interface \in Interfaces
<1>1. \A k \in DOMAIN list : list[k] \in Notice
  OBVIOUS
<1> QED
  BY <1>1 DEF Notice

NetworkTypes ==
  /\ announced \subseteq Names \X Interfaces /\ IsFiniteSet(announced)
  /\ address \in [Names -> Address] /\ announcements \in 0..MaxAnnounced

AvahiTypes ==
  /\ session \in {"off", "on", "quit"} /\ events \in Seq(Notice)
  /\ resolving \subseteq [name : Names, interface : Interfaces,
                          address : Address]
  /\ failures \in 0..MaxFailures

DeviceTypes ==
  /\ running_ \in BOOLEAN /\ found_devices_ \in [Names -> Address \cup {None}]
  /\ proxy_factory_ \in Nat /\ browser \in {"whole", "base", "dead"}

CallbackTypes ==
  /\ callback \in CallbackType
  /\ callback.at = "idle" <=> callback.proxy = None

RegistryTypes ==
  /\ command \in BOOLEAN /\ root_proxies_ \in [Address -> Proxies \cup {None}]
  /\ root_proxies_vector_ \in Seq(Proxies)

ProxyTypes ==
  /\ proxy \in [Proxies -> [state : {"unborn", "alive", "deleted"},
                            command_ : BOOLEAN, location : Address \cup {None},
                            factory : Nat]]
  /\ \A p \in Proxies : proxy[p].state # "unborn" => proxy[p].location # None

UserTypes == handling \in Proxies \cup {None} /\ program \in Seq(Steps)

LEMMA TypesAre ==
  Types <=> /\ NetworkTypes /\ AvahiTypes /\ DeviceTypes /\ CallbackTypes
            /\ RegistryTypes /\ ProxyTypes /\ UserTypes
<1>1. AvahiTypes =>
        \A k \in DOMAIN events : /\ events[k].kind \in {"new", "remove"}
                                 /\ events[k].name \in Names
                                 /\ events[k].interface \in Interfaces
  BY NoticesAre DEF AvahiTypes
<1>2. CallbackTypes <=>
        /\ callback \in CallbackType
        /\ callback.at \in {"idle", "adopt", "detach", "delete"}
        /\ callback.proxy \in IF callback.at = "idle" THEN {None} ELSE Proxies
  BY Constants DEF CallbackTypes, CallbackType
<1>3. Types => /\ NetworkTypes /\ AvahiTypes /\ DeviceTypes
               /\ RegistryTypes /\ ProxyTypes /\ UserTypes
  BY DEF Types, TypeOK, NetworkTypes, AvahiTypes, DeviceTypes, RegistryTypes,
         ProxyTypes, UserTypes
<1>4. Types => CallbackTypes
  BY <1>2 DEF Types, TypeOK
<1>5. ASSUME NetworkTypes, AvahiTypes, DeviceTypes, CallbackTypes,
             RegistryTypes, ProxyTypes, UserTypes
      PROVE  Types
  BY <1>1, <1>2, <1>5 DEF Types, TypeOK, NetworkTypes, AvahiTypes,
         DeviceTypes, RegistryTypes, ProxyTypes, UserTypes
<1> QED
  BY <1>3, <1>4, <1>5

(* Which actions change which part of the state. *)
LEMMA Changes ==
  ASSUME [Next]_vars
  PROVE  /\ \/ UNCHANGED network
            \/ \E n \in Names, i \in Interfaces : Announce(n, i) \/ Withdraw(n, i)
         /\ \/ UNCHANGED avahi
            \/ \E n \in Names, i \in Interfaces : Announce(n, i) \/ Withdraw(n, i)
            \/ BrowserNew \/ BrowserRemove \/ Quit
            \/ \E r \in resolving : Resolve(r) \/ ResolveFails(r)
            \/ Start \/ Stop \/ DeleteBase
         /\ \/ UNCHANGED device
            \/ BrowserRemove \/ \E r \in resolving : Resolve(r)
            \/ AdoptFactory \/ Start \/ Stop \/ DeleteDerived \/ DeleteBase
         /\ \/ UNCHANGED callback
            \/ BrowserRemove \/ \E r \in resolving : Resolve(r)
            \/ AdoptProxy \/ Detach \/ DeleteProxy
         /\ \/ UNCHANGED registry
            \/ AdoptProxy \/ Detach \/ UserAdopts \/ DeleteCommand
         /\ \/ UNCHANGED proxy
            \/ \E r \in resolving : Resolve(r)
            \/ AdoptProxy \/ Detach \/ DeleteProxy \/ UserAdopts
            \/ DeleteCommand
         /\ \/ UNCHANGED handling
            \/ \E a \in Address : HandleReply(a)
            \/ ReplyHandled
         /\ UNCHANGED program \/ User
<1> USE DEF network, avahi, device, registry
<1>1. CASE \E n \in Names, i \in Interfaces : Announce(n, i) \/ Withdraw(n, i)
  BY <1>1 DEF Announce, Withdraw
<1>2. CASE BrowserNew
  BY <1>2 DEF BrowserNew
<1>3. CASE BrowserRemove
  BY <1>3 DEF BrowserRemove
<1>4. CASE \E r \in resolving : Resolve(r)
  BY <1>4 DEF Resolve, Answers
<1>5. CASE \E r \in resolving : ResolveFails(r)
  BY <1>5 DEF ResolveFails, Answers
<1>6. CASE AdoptProxy
  BY <1>6 DEF AdoptProxy
<1>7. CASE Detach
  BY <1>7 DEF Detach
<1>8. CASE DeleteProxy
  BY <1>8 DEF DeleteProxy
<1>9. CASE Quit
  BY <1>9 DEF Quit
<1>10. CASE \E a \in Address : HandleReply(a)
  BY <1>10 DEF HandleReply
<1>11. CASE ReplyHandled
  BY <1>11 DEF ReplyHandled
<1>12. CASE User
  BY <1>12 DEF User, AdoptFactory, UserAdopts, Start, Stop, DeleteCommand,
               DeleteDerived, DeleteBase
<1>13. CASE UNCHANGED vars
  BY <1>13 DEF vars
<1> QED
  BY <1>1, <1>2, <1>3, <1>4, <1>5, <1>6, <1>7, <1>8, <1>9, <1>10, <1>11,
     <1>12, <1>13 DEF Next, AvahiThread

(* No step breaks the types. *)
LEMMA TypesStep ==
  ASSUME DiscInv, [Next]_vars
  PROVE  Types'
<1>1. /\ Types /\ NetworkTypes /\ AvahiTypes /\ DeviceTypes /\ CallbackTypes
      /\ RegistryTypes /\ ProxyTypes /\ UserTypes
  BY TypesAre DEF DiscInv
<1>2. NetworkTypes'
  <2>1. ASSUME NEW n \in Names, NEW i \in Interfaces, Announce(n, i)
        PROVE  NetworkTypes'
    <3>1. IsFiniteSet(announced')
      BY <2>1, <1>1, FS_AddElement DEF Announce, NetworkTypes
    <3> QED
      BY <2>1, <3>1, <1>1, Constants, DiscoveryAssumption
         DEF Announce, NetworkTypes, DiscoveryAssumption
  <2>2. ASSUME NEW n \in Names, NEW i \in Interfaces, Withdraw(n, i)
        PROVE  NetworkTypes'
    <3>1. IsFiniteSet(announced')
      BY <2>2, <1>1, FS_RemoveElement DEF Withdraw, NetworkTypes
    <3> QED
      BY <2>2, <3>1, <1>1 DEF Withdraw, NetworkTypes
  <2>3. CASE UNCHANGED network
    BY <2>3, <1>1 DEF network, NetworkTypes
  <2> QED
    BY <2>1, <2>2, <2>3, Changes
<1>3. AvahiTypes'
  <2>1. ASSUME NEW n \in Names, NEW i \in Interfaces,
               Announce(n, i) \/ Withdraw(n, i)
        PROVE  AvahiTypes'
    <3>1. events' \in Seq(Notice)
      BY <2>1, <1>1, EventsAre DEF Announce, Withdraw
    <3> QED
      BY <2>1, <3>1, <1>1 DEF Announce, Withdraw, AvahiTypes
  <2>2. CASE BrowserNew
    <3>1. events' \in Seq(Notice) /\ Lookup(Head(events)) \in
            [name : Names, interface : Interfaces, address : Address]
      BY <2>2, <1>1, HandledEvent DEF BrowserNew, Lookup, NetworkTypes
    <3> QED
      BY <2>2, <3>1, <1>1 DEF BrowserNew, AvahiTypes
  <2>3. CASE BrowserRemove
    <3>1. events' \in Seq(Notice)
      BY <2>3, <1>1, HandledEvent DEF BrowserRemove
    <3> QED
      BY <2>3, <3>1, <1>1 DEF BrowserRemove, AvahiTypes
  <2>4. CASE Quit
    BY <2>4, <1>1 DEF Quit, AvahiTypes
  <2>5. ASSUME NEW r \in resolving, Resolve(r) \/ ResolveFails(r)
        PROVE  AvahiTypes'
    <3>1. UNCHANGED <<session, events>> /\ resolving' \subseteq resolving
      BY <2>5 DEF Resolve, ResolveFails, Answers
    <3>2. UNCHANGED failures \/ (failures < MaxFailures /\ failures' = failures + 1)
      BY <2>5 DEF Resolve, ResolveFails
    <3>3. failures' \in 0..MaxFailures
      BY <3>2, <1>1, DiscoveryAssumption DEF AvahiTypes, DiscoveryAssumption
    <3> QED
      BY <3>1, <3>3, <1>1 DEF AvahiTypes
  <2>6. CASE Start
    <3>1. CASE running_
      BY <3>1, <2>6, <1>1 DEF Start, AvahiTypes
    <3>2. CASE ~running_
      <4>1. PICK order \in [1..Cardinality(announced) -> announced] :
              events' = [k \in DOMAIN order |->
                           [kind |-> "new", name |-> order[k][1],
                            interface |-> order[k][2]]]
        BY <3>2, <2>6 DEF Start
      <4>2. Cardinality(announced) \in Nat
        BY <1>1, FS_CardinalityType DEF NetworkTypes
      <4>3. \A k \in DOMAIN order :
              [kind |-> "new", name |-> order[k][1],
               interface |-> order[k][2]] \in Notice
        <5>1. \A k \in DOMAIN order : order[k] \in Names \X Interfaces
          BY <1>1 DEF NetworkTypes
        <5> QED
          BY <5>1 DEF Notice
      <4>4. events' \in Seq(Notice)
        BY <4>1, <4>2, <4>3
      <4> QED
        BY <4>4, <3>2, <2>6, <1>1 DEF Start, AvahiTypes
    <3> QED
      BY <3>1, <3>2
  <2>7. CASE Stop \/ DeleteBase
    <3>1. <<>> \in Seq(Notice)
      OBVIOUS
    <3>2. CASE running_
      BY <3>1, <3>2, <2>7, <1>1 DEF Stop, DeleteBase, Stopped, AvahiTypes
    <3>3. CASE ~running_
      BY <3>3, <2>7, <1>1 DEF Stop, DeleteBase, Stopped, AvahiTypes
    <3> QED
      BY <3>2, <3>3
  <2>8. CASE UNCHANGED avahi
    BY <2>8, <1>1 DEF avahi, AvahiTypes
  <2> QED
    BY <2>1, <2>2, <2>3, <2>4, <2>5, <2>6, <2>7, <2>8, Changes
<1>4. DeviceTypes'
  <2>1. CASE BrowserRemove
    BY <2>1, <1>1 DEF BrowserRemove, DeviceTypes
  <2>2. ASSUME NEW r \in resolving, Resolve(r)
        PROVE  DeviceTypes'
    BY <2>2, <1>1 DEF Resolve, Answers, DeviceTypes, AvahiTypes
  <2>3. CASE AdoptFactory
    BY <2>3, <1>1 DEF AdoptFactory, DeviceTypes
  <2>4. CASE Start \/ Stop \/ DeleteDerived \/ DeleteBase
    BY <2>4, <1>1 DEF Start, Stop, DeleteDerived, DeleteBase, Stopped, DeviceTypes
  <2>5. CASE UNCHANGED device
    BY <2>5, <1>1 DEF device, DeviceTypes
  <2> QED
    BY <2>1, <2>2, <2>3, <2>4, <2>5, Changes
<1>5. CallbackTypes'
  <2>1. CASE BrowserRemove
    <3> DEFINE n == Head(events).name
    <3>1. n \in Names
      BY <2>1, <1>1, HandledEvent DEF BrowserRemove
    <3> HIDE DEF n
    <3>2. \/ callback' = NoCallback
          \/ \E p \in Proxies : callback' = [at |-> "detach", proxy |-> p]
      BY <2>1, <3>1, <1>1
         DEF BrowserRemove, FindProxy, n, DeviceTypes, RegistryTypes
    <3> QED
      BY <3>2, Constants DEF CallbackTypes
  <2>2. ASSUME NEW r \in resolving, Resolve(r)
        PROVE  CallbackTypes'
    <3>1. \/ UNCHANGED callback
          \/ \E p \in Proxies : callback' = [at |-> "adopt", proxy |-> p]
      BY <2>2 DEF Resolve
    <3> QED
      BY <3>1, <1>1, Constants DEF CallbackTypes
  <2>3. CASE AdoptProxy \/ DeleteProxy
    BY <2>3, Constants DEF AdoptProxy, DeleteProxy, CallbackTypes
  <2>4. CASE Detach
    BY <2>4, <1>1 DEF Detach, CallbackTypes, CallbackType
  <2>5. CASE UNCHANGED callback
    BY <2>5, <1>1 DEF CallbackTypes
  <2> QED
    BY <2>1, <2>2, <2>3, <2>4, <2>5, Changes
<1>6. RegistryTypes'
  <2>1. CASE AdoptProxy
    <3>1. callback # NoCallback
      BY <2>1, Constants DEF AdoptProxy
    <3> DEFINE p == callback.proxy
               a == proxy[p].location
    <3>2. /\ p \in Proxies /\ a \in Address /\ Once(root_proxies_vector_)
          /\ Registered(p, a)
      BY <2>1, <3>1, DuringCallback DEF AdoptProxy
    <3>3. /\ root_proxies_' \in [Address -> Proxies \cup {None}]
          /\ root_proxies_vector_' \in Seq(Proxies)
      <4> HIDE DEF p, a
      <4> QED
        BY <3>2, <1>1, RegisteredPuts
    <3> QED
      BY <3>3, <2>1, <1>1 DEF AdoptProxy, RegistryTypes
  <2>2. CASE Detach
    <3>1. callback # NoCallback
      BY <2>2, Constants DEF Detach
    <3>2. /\ root_proxies_' \in [Address -> Proxies \cup {None}]
          /\ root_proxies_vector_' \in Seq(Proxies)
      <4>1. CASE proxy[callback.proxy].command_
        <5>1. callback.proxy \in Proxies /\ Once(root_proxies_vector_)
          BY <3>1, DuringCallback
        <5>2. Unregistered(callback.proxy)
          BY <4>1, <2>2 DEF Detach
        <5> QED
          BY <5>1, <5>2, <1>1, UnregisteredTakes
      <4>2. CASE ~proxy[callback.proxy].command_
        BY <4>2, <2>2, <1>1 DEF Detach, RegistryTypes
      <4> QED
        BY <4>1, <4>2
    <3> QED
      BY <3>2, <2>2, <1>1 DEF Detach, RegistryTypes
  <2>3. CASE UserAdopts
    <3>1. Once(root_proxies_vector_)
      BY <2>3 DEF UserAdopts, DiscInv, Links, Vectored
    <3>2. PICK a \in Address, p \in Proxies : Registered(p, a)
      BY <2>3 DEF UserAdopts
    <3>3. /\ root_proxies_' \in [Address -> Proxies \cup {None}]
          /\ root_proxies_vector_' \in Seq(Proxies)
      BY <3>1, <3>2, <1>1, RegisteredPuts
    <3> QED
      BY <3>3, <2>3, <1>1 DEF UserAdopts, RegistryTypes
  <2>4. CASE DeleteCommand
    BY <2>4, <1>1 DEF DeleteCommand, RegistryTypes
  <2>5. CASE UNCHANGED registry
    BY <2>5, <1>1 DEF registry, RegistryTypes
  <2> QED
    BY <2>1, <2>2, <2>3, <2>4, <2>5, Changes
<1>7. ProxyTypes'
  <2>1. ASSUME NEW r \in resolving, Resolve(r)
        PROVE  ProxyTypes'
    <3>1. r.address \in Address /\ proxy_factory_ \in Nat
      BY <1>1 DEF AvahiTypes, DeviceTypes
    <3>2. CASE UNCHANGED proxy
      BY <3>2, <1>1 DEF ProxyTypes
    <3>3. ASSUME NEW p \in Proxies, Born(p, r.address, FALSE, proxy_factory_)
          PROVE  ProxyTypes'
      BY <3>1, <3>3, <1>1, Constants DEF Born, ProxyTypes
    <3> QED
      BY <2>1, <3>2, <3>3 DEF Resolve
  <2>2. CASE AdoptProxy \/ Detach \/ DeleteProxy
    <3>1. callback # NoCallback
      BY <2>2, Constants DEF AdoptProxy, Detach, DeleteProxy
    <3>2. callback.proxy \in Proxies /\ proxy[callback.proxy].state = "alive"
      BY <3>1, DuringCallback
    <3>3. CASE AdoptProxy
      BY <3>3, <3>2, <1>1 DEF AdoptProxy, ProxyTypes
    <3>4. CASE Detach
      BY <3>4, <3>2, <1>1 DEF Detach, ProxyTypes
    <3>5. CASE DeleteProxy
      BY <3>5, <3>2, <1>1 DEF DeleteProxy, ProxyTypes
    <3> QED
      BY <2>2, <3>3, <3>4, <3>5
  <2>3. CASE UserAdopts
    <3>1. PICK a \in Address, p \in Proxies : Born(p, a, TRUE, 0)
      BY <2>3 DEF UserAdopts
    <3> QED
      BY <3>1, <1>1, Constants DEF Born, ProxyTypes
  <2>4. CASE DeleteCommand
    <3>1. ASSUME NEW p \in Proxies, \E a \in Address : root_proxies_[a] = p
          PROVE  proxy[p].location # None
      BY <3>1, <1>1, Constants DEF DiscInv, Living, ProxyTypes
    <3> QED
      BY <2>4, <3>1, <1>1, ZenonT(60) DEF DeleteCommand, ProxyTypes
  <2>5. CASE UNCHANGED proxy
    BY <2>5, <1>1 DEF ProxyTypes
  <2> QED
    BY <2>1, <2>2, <2>3, <2>4, <2>5, Changes
<1>8. UserTypes'
  <2>1. handling' \in Proxies \cup {None}
    BY <1>1, Changes DEF HandleReply, ReplyHandled, FindProxy, UserTypes,
                         RegistryTypes
  <2>2. program' \in Seq(Steps)
    <3>1. CASE User
      <4>1. PICK step : Does(step)
        BY <3>1 DEF User, AdoptFactory, UserAdopts, Start, Stop,
                    DeleteCommand, DeleteDerived, DeleteBase
      <4> QED
        BY <4>1, <1>1, Rest DEF Does, UserTypes
    <3> QED
      BY <3>1, <1>1, Changes DEF UserTypes
  <2> QED
    BY <2>1, <2>2 DEF UserTypes
<1>9. Types' <=> /\ NetworkTypes' /\ AvahiTypes' /\ DeviceTypes'
                 /\ CallbackTypes' /\ RegistryTypes' /\ ProxyTypes'
                 /\ UserTypes'
  BY TypesAre, PTL
<1> QED
  BY <1>2, <1>3, <1>4, <1>5, <1>6, <1>7, <1>8, <1>9

-----------------------------------------------------------------------------
(* The user's program *)

(* What the user's program tells when a step of it is taken. *)
LEMMA ScriptRest ==
  ASSUME Types, Script, NEW step, Does(step)
  PROVE  /\ InOrder(program')
         /\ proxy_factory_ = 0 =>
              /\ step # "start"
              /\ step # "factory" => After(program', "start", "factory")
         /\ command =>
              /\ step # "base"
              /\ step # "command" => After(program', "base", "command")
         /\ running_ =>
              /\ step \notin Teardown
              /\ step # "stop" =>
                   \A down \in Teardown : After(program', down, "stop")
         /\ step = "start" =>
              /\ browser = "whole" /\ command
              /\ \A down \in Teardown : After(program', down, "stop")
         /\ step \in Setup => Early
         /\ step = "adopt" => \A p \in Proxies : proxy[p].state = "unborn"
         /\ \A j \in DOMAIN program' :
              /\ program'[j] \in Setup =>
                   Early /\ step # "start" /\ step \notin Teardown
              /\ program'[j] = "adopt" =>
                   /\ \A p \in Proxies : proxy[p].state = "unborn"
                   /\ step # "adopt"
              /\ program'[j] = "start" =>
                   browser = "whole" /\ command /\ step \notin Teardown
<1>1. /\ program \in Seq(Steps) /\ program # <<>>
      /\ Head(program) = step /\ program' = Tail(program)
  BY DEF Types, TypeOK, Does
<1> DEFINE rest == Tail(program)
<1>2. /\ 1 \in DOMAIN program /\ program[1] = step
      /\ \A j \in DOMAIN rest :
           j + 1 \in DOMAIN program /\ rest[j] = program[j + 1]
  BY <1>1, Rest
<1>3. InOrder(rest)
  BY <1>1, RestInOrder DEF Script
<1>4. /\ \A j \in DOMAIN rest :
           /\ step = "start" \/ step \in Teardown => rest[j] \notin Setup
           /\ step \in Teardown => rest[j] # "start"
           /\ step = "adopt" => rest[j] # "adopt"
      /\ step = "start" => \A down \in Teardown : After(rest, down, "stop")
  BY <1>1, RestAllows DEF Script
<1>5. proxy_factory_ = 0 =>
        /\ step # "start" /\ step # "factory" => After(rest, "start", "factory")
        /\ step # "start"
  BY <1>1, RestAfter DEF Script
<1>6. command => /\ step # "base"
                 /\ step # "command" => After(rest, "base", "command")
  BY <1>1, RestAfter DEF Script
<1>7. ASSUME running_, NEW down \in Teardown
      PROVE  step # down /\ (step # "stop" => After(rest, down, "stop"))
  BY <1>7, <1>1, RestAfter DEF Script
<1>8. /\ step \in Setup => Early
      /\ step = "adopt" => \A p \in Proxies : proxy[p].state = "unborn"
      /\ step = "start" => browser = "whole" /\ command
  BY <1>2 DEF Script
<1>9. \A j \in DOMAIN rest :
        /\ rest[j] \in Setup => Early
        /\ rest[j] = "adopt" => \A p \in Proxies : proxy[p].state = "unborn"
        /\ rest[j] = "start" => browser = "whole" /\ command
  BY <1>2 DEF Script
<1> HIDE DEF rest
<1>10. program' = rest
  BY <1>1 DEF rest
<1> QED
  BY <1>3, <1>4, <1>5, <1>6, <1>7, <1>8, <1>9, <1>10

(* A step of another thread leaves the user's program and what it has set   *)
(* up alone, and nothing happens before the browser is started.             *)
LEMMA OthersWait ==
  ASSUME DiscInv, [Next]_vars, ~User
  PROVE  /\ UNCHANGED <<program, running_, browser, command, proxy_factory_>>
         /\ Early => UNCHANGED <<callback, found_devices_, proxy>>
<1>1. Early => session = "off" /\ callback = NoCallback /\ resolving = {}
  BY DEF DiscInv, Session, Early
<1>2. /\ BrowserRemove => session = "on"
      /\ AdoptProxy \/ Detach \/ DeleteProxy => callback # NoCallback
  BY Constants DEF BrowserRemove, HandlesEvent, AdoptProxy, Detach, DeleteProxy
<1>3. Early => UNCHANGED <<callback, found_devices_, proxy>>
  BY <1>1, <1>2, Changes DEF User, device
<1>4. UNCHANGED <<running_, browser, proxy_factory_>>
  BY Changes DEF User, device, BrowserRemove, Resolve, Answers
<1>5. UNCHANGED command
  BY Changes DEF User, registry, AdoptProxy, Detach
<1>6. UNCHANGED program
  BY Changes
<1> QED
  BY <1>3, <1>4, <1>5, <1>6

LEMMA ScriptStep ==
  ASSUME DiscInv, [Next]_vars
  PROVE  Script'
<1>0. Types /\ Script
  BY DEF DiscInv
<1>1. CASE ~User
  <2>1. /\ UNCHANGED <<program, running_, browser, command, proxy_factory_>>
        /\ Early => UNCHANGED <<callback, found_devices_, proxy>>
    BY <1>1, OthersWait
  <2>2. Early => Early'
    BY <2>1 DEF Early
  <2>3. \A j \in DOMAIN program' :
          /\ program'[j] \in Setup => Early'
          /\ program'[j] = "adopt" => \A p \in Proxies : proxy'[p].state = "unborn"
          /\ program'[j] = "start" => browser' = "whole" /\ command'
    BY <2>1, <2>2, <1>0 DEF Script, Setup
  <2> QED
    BY <2>1, <2>3, <1>0 DEF Script
<1>2. CASE AdoptFactory
  <2>1. Does("factory")
    BY <1>2 DEF AdoptFactory
  <2>2. Early /\ "factory" \in Setup
    BY <2>1, <1>0, ScriptRest DEF Setup
  <2>3. proxy_factory_' # 0
    BY <1>2, <1>0 DEF AdoptFactory, Types, TypeOK
  <2>4. /\ UNCHANGED <<running_, browser, command, callback, found_devices_,
                       proxy>>
        /\ Early'
    BY <1>2, <2>2 DEF AdoptFactory, registry, Early
  <2>5. ~running_
    BY <2>2 DEF Early
  <2> QED
    BY <2>1, <2>3, <2>4, <2>5, <1>0, ScriptRest DEF Script
<1>3. CASE UserAdopts
  <2>1. Does("adopt") /\ "adopt" \in Setup
    BY <1>3 DEF UserAdopts, Setup
  <2>2. Early
    BY <2>1, <1>0, ScriptRest
  <2>3. PICK a \in Address, p \in Proxies : Born(p, a, TRUE, 0)
    BY <1>3 DEF UserAdopts
  <2>4. UNCHANGED <<running_, browser, command, callback, found_devices_,
                    proxy_factory_>>
    BY <1>3 DEF UserAdopts, device
  <2>5. \A q \in Proxies : proxy'[q].factory = 0
    BY <2>2, <2>3, <1>0 DEF Early, Born, Types, TypeOK
  <2>6. Early' /\ ~running_
    BY <2>2, <2>4, <2>5 DEF Early
  <2> QED
    BY <2>1, <2>4, <2>6, <1>0, ScriptRest DEF Script
<1>4. CASE Start
  <2>1. Does("start") /\ UNCHANGED <<proxy_factory_, command, browser>>
    BY <1>4 DEF Start, registry
  <2> QED
    BY <2>1, <1>0, ScriptRest DEF Script, Setup
<1>5. CASE Stop
  <2>1. /\ Does("stop")
        /\ UNCHANGED <<proxy_factory_, command, browser, callback,
                       found_devices_, proxy>>
        /\ ~running_'
    BY <1>5, <1>0 DEF Stop, Stopped, registry, Types, TypeOK
  <2>2. Early => Early'
    BY <2>1 DEF Early
  <2> QED
    BY <2>1, <2>2, <1>0, ScriptRest DEF Script
<1>6. CASE DeleteCommand
  <2>1. Does("command") /\ "command" \in Teardown
    BY <1>6 DEF DeleteCommand, Teardown
  <2>2. ~running_
    BY <2>1, <1>0, ScriptRest
  <2>3. UNCHANGED <<running_, proxy_factory_>> /\ ~command'
    BY <1>6 DEF DeleteCommand, device
  <2> QED
    BY <2>1, <2>2, <2>3, <1>0, ScriptRest DEF Script, Setup
<1>7. CASE DeleteDerived
  <2>1. Does("derived") /\ "derived" \in Teardown
    BY <1>7 DEF DeleteDerived, Teardown
  <2>2. ~running_
    BY <2>1, <1>0, ScriptRest
  <2>3. UNCHANGED <<running_, proxy_factory_, command>>
    BY <1>7 DEF DeleteDerived, registry
  <2> QED
    BY <2>1, <2>2, <2>3, <1>0, ScriptRest DEF Script, Setup
<1>8. CASE DeleteBase
  <2>1. Does("base") /\ "base" \in Teardown
    BY <1>8 DEF DeleteBase, Teardown
  <2>2. ~running_
    BY <2>1, <1>0, ScriptRest
  <2>3. UNCHANGED <<running_, proxy_factory_, command>>
    BY <1>8, <2>2 DEF DeleteBase, Stopped, registry
  <2> QED
    BY <2>1, <2>2, <2>3, <1>0, ScriptRest DEF Script, Setup
<1> QED
  BY <1>1, <1>2, <1>3, <1>4, <1>5, <1>6, <1>7, <1>8 DEF User

(* Avahi's thread runs while the browser, the factory and the command are   *)
(* there, as the user's program takes them down in order.                   *)
LEMMA SessionStep ==
  ASSUME DiscInv, [Next]_vars
  PROVE  Session'
<1>0. Types /\ Script /\ Session
  BY DEF DiscInv
<1>1. CASE AdoptFactory
  <2>1. Does("factory") /\ "factory" \in Setup
    BY <1>1 DEF AdoptFactory, Setup
  <2>2. Early
    BY <2>1, <1>0, ScriptRest
  <2> QED
    BY <1>1, <2>2, <1>0 DEF AdoptFactory, Early, Session, avahi, registry
<1>2. CASE Start
  <2>1. browser = "whole" /\ command /\ proxy_factory_ # 0
    BY <1>2, <1>0, ScriptRest DEF Start
  <2> QED
    BY <1>2, <2>1, <1>0 DEF Start, Session, registry
<1>3. CASE Stop
  BY <1>3, <1>0 DEF Stop, Stopped, Session, registry
<1>4. CASE DeleteCommand
  <2>1. ~running_
    BY <1>4, <1>0, ScriptRest DEF DeleteCommand, Teardown
  <2> QED
    BY <1>4, <2>1, <1>0 DEF DeleteCommand, Session, avahi, device
<1>5. CASE DeleteDerived
  <2>1. ~running_
    BY <1>5, <1>0, ScriptRest DEF DeleteDerived, Teardown
  <2> QED
    BY <1>5, <2>1, <1>0 DEF DeleteDerived, Session, avahi, registry
<1>6. CASE DeleteBase
  <2>1. ~running_ /\ ~command
    BY <1>6, <1>0, ScriptRest DEF DeleteBase, Teardown
  <2> QED
    BY <1>6, <2>1, <1>0 DEF DeleteBase, Stopped, Session, registry
<1>7. CASE UserAdopts
  BY <1>7, <1>0 DEF UserAdopts, Session, avahi, device
<1>8. CASE ~User
  <2>1. UNCHANGED <<running_, browser, command, proxy_factory_>>
    BY <1>8, OthersWait
  <2>2. (running_' <=> session' # "off")
    BY <2>1, <1>8, <1>0, Changes
       DEF Session, avahi, Announce, Withdraw, BrowserNew, BrowserRemove, Quit,
           Resolve, ResolveFails, Answers, User
  <2>3. callback' # NoCallback => session' = "on"
    <3>1. CASE Quit
      BY <3>1 DEF Quit
    <3>2. CASE UNCHANGED session
      <4>1. BrowserRemove \/ (\E r \in resolving : Resolve(r)) => session = "on"
        BY DEF BrowserRemove, HandlesEvent, Resolve, Answers
      <4>2. AdoptProxy \/ Detach \/ DeleteProxy => session = "on"
        BY <1>0, Constants DEF AdoptProxy, Detach, DeleteProxy, Session
      <4>3. UNCHANGED callback \/ session = "on"
        BY <4>1, <4>2, Changes
      <4> QED
        BY <3>2, <4>3, <1>0 DEF Session
    <3>3. Quit \/ UNCHANGED session
      BY <1>8, Changes
         DEF avahi, Announce, Withdraw, BrowserNew, BrowserRemove, Resolve,
             ResolveFails, Answers, User
    <3> QED
      BY <3>1, <3>2, <3>3
  <2>4. resolving' # {} => session' = "on"
    BY <1>8, <1>0, Changes
       DEF Session, avahi, Announce, Withdraw, BrowserNew, BrowserRemove,
           HandlesEvent, Quit, Resolve, ResolveFails, Answers, User
  <2> QED
    BY <2>1, <2>2, <2>3, <2>4, <1>0 DEF Session
<1> QED
  BY <1>1, <1>2, <1>3, <1>4, <1>5, <1>6, <1>7, <1>8 DEF User

(* Addresses stay with their names. *)
LEMMA PlacesStep ==
  ASSUME DiscInv, [Next]_vars
  PROVE  Places'
<1>0. Types /\ Places
  BY DEF DiscInv
<1>1. address \in [Names -> Address] /\ found_devices_ \in [Names -> Address \cup {None}]
  BY <1>0 DEF Types, TypeOK
<1>2. \A n \in Names : address'[n] \in Addresses[n]
  <2>1. ASSUME NEW n \in Names, NEW i \in Interfaces, Announce(n, i)
        PROVE  \A m \in Names : address'[m] \in Addresses[m]
    BY <2>1, <1>0, <1>1 DEF Announce, Places
  <2>2. ASSUME NEW n \in Names, NEW i \in Interfaces, Withdraw(n, i)
        PROVE  UNCHANGED address
    BY <2>2 DEF Withdraw
  <2> QED
    BY <2>1, <2>2, <1>0, Changes DEF network, Places
<1>3. \A r \in resolving' : r.address \in Addresses[r.name]
  <2>1. CASE BrowserNew
    <3>1. Head(events).name \in Names
      BY <2>1, <1>0, HandledEvent DEF BrowserNew
    <3>2. Lookup(Head(events)).address \in Addresses[Lookup(Head(events)).name]
      BY <3>1, <1>0 DEF Lookup, Places
    <3> QED
      BY <2>1, <3>2, <1>0 DEF BrowserNew, Places
  <2>2. CASE resolving' \subseteq resolving
    BY <2>2, <1>0 DEF Places
  <2>3. BrowserNew \/ resolving' \subseteq resolving
    BY Changes DEF avahi, Announce, Withdraw, BrowserRemove, Quit, Resolve,
                   ResolveFails, Answers, Start, Stop, DeleteBase, Stopped
  <2> QED
    BY <2>1, <2>2, <2>3
<1>4. \A n \in Names : found_devices_'[n] \in Addresses[n] \cup {None}
  <2>1. ASSUME NEW r \in resolving, Resolve(r)
        PROVE  \A n \in Names : found_devices_'[n] \in Addresses[n] \cup {None}
    <3>1. r.address \in Addresses[r.name]
      BY <1>0 DEF Places
    <3>2. \/ UNCHANGED found_devices_
          \/ found_devices_' = [found_devices_ EXCEPT ![r.name] = r.address]
      BY <2>1 DEF Resolve
    <3> QED
      BY <3>1, <3>2, <1>0, <1>1 DEF Places
  <2>2. CASE BrowserRemove
    BY <2>2, <1>0, <1>1 DEF BrowserRemove, Places
  <2>3. CASE UNCHANGED found_devices_
    BY <2>3, <1>0 DEF Places
  <2>4. \/ UNCHANGED found_devices_ \/ BrowserRemove
        \/ \E r \in resolving : Resolve(r)
    BY Changes DEF device, AdoptFactory, Start, Stop, DeleteDerived, DeleteBase
  <2> QED
    BY <2>1, <2>2, <2>3, <2>4
<1> QED
  BY <1>2, <1>3, <1>4 DEF Places

-----------------------------------------------------------------------------
(* Proxies *)

Held == Links /\ Callback /\ Found /\ Living

(* What there is of the proxies' types, for each proxy.                     *)
LEMMA ProxiesAre ==
  ASSUME Types
  PROVE  /\ proxy \in [Proxies -> [state : {"unborn", "alive", "deleted"},
                                   command_ : BOOLEAN,
                                   location : Address \cup {None},
                                   factory : Nat]]
         /\ root_proxies_ \in [Address -> Proxies \cup {None}]
         /\ found_devices_ \in [Names -> Address \cup {None}]
         /\ None \notin Address /\ None \notin Proxies
         /\ \A p \in Proxies :
              proxy[p].state # "unborn" => proxy[p].location \in Address
BY Constants DEF Types, TypeOK

(* A browser that listens: its command is there, and no callback runs.      *)
LEMMA Listening ==
  ASSUME DiscInv, session = "on"
  PROVE  /\ running_ /\ command /\ browser = "whole" /\ proxy_factory_ # 0
         /\ Hashed /\ Vectored /\ Owned
BY DEF DiscInv, Session, Links

(* A service is found, and a proxy may be made for it.                      *)
LEMMA ResolveStep ==
  ASSUME DiscInv, NEW r \in resolving, Resolve(r)
  PROVE  Held'
<1>0. Types /\ Callback /\ Found /\ Living
  BY DEF DiscInv
<1>1. /\ session = "on" /\ callback = NoCallback
      /\ UNCHANGED <<root_proxies_, root_proxies_vector_, command, handling,
                     proxy_factory_>>
  BY DEF Resolve, Answers, registry
<1>2. /\ command /\ Hashed /\ Vectored /\ Owned /\ proxy_factory_ # 0
      /\ callback.at = "idle" /\ callback.proxy \notin Proxies
  BY <1>0, <1>1, Listening, CallbackAt
<1>3. r.name \in Names /\ r.address \in Address
  BY <1>0 DEF Types, TypeOK
<1>4. CASE UNCHANGED <<found_devices_, callback, proxy>>
  BY <1>0, <1>1, <1>2, <1>4
     DEF Held, Links, Hashed, Vectored, Owned, Callback, Found, Living, In, Once
<1>5. ASSUME found_devices_' = [found_devices_ EXCEPT ![r.name] = r.address],
             root_proxies_[r.address] # None,
             UNCHANGED <<callback, proxy>>
      PROVE  Held'
  <2>1. Found'
    BY <1>0, <1>1, <1>2, <1>3, <1>5, ProxiesAre DEF Found
  <2> QED
    BY <2>1, <1>0, <1>1, <1>2, <1>5
       DEF Held, Links, Hashed, Vectored, Owned, Callback, Living, In, Once
<1>6. ASSUME found_devices_' = [found_devices_ EXCEPT ![r.name] = r.address],
             root_proxies_[r.address] = None,
             NEW p \in Proxies, Fresh(p),
             Born(p, r.address, FALSE, proxy_factory_),
             callback' = [at |-> "adopt", proxy |-> p]
      PROVE  Held'
  <2>1. /\ proxy[p].state = "unborn"
        /\ proxy'[p].state = "alive" /\ ~proxy'[p].command_
        /\ proxy'[p].location = r.address /\ proxy'[p].factory = proxy_factory_
        /\ \A q \in Proxies : q # p => proxy'[q] = proxy[q]
    BY <1>0, <1>6, ProxiesAre DEF Fresh, Born
  <2>2. callback'.at = "adopt" /\ callback'.proxy = p
    BY <1>6
  <2>3. \A a \in Address : root_proxies_[a] # p
    BY <1>2, <2>1, Constants DEF Hashed
  <2>4. ~proxy[p].command_
    BY <1>2, <2>1 DEF Hashed
  <2>5. Hashed'
    BY <1>0, <1>1, <1>2, <2>1, <2>3, ProxiesAre DEF Hashed
  <2>6. Vectored'
    BY <1>1, <1>2, <2>1, <2>4 DEF Vectored, In, Once
  <2>7. Owned'
    BY <1>2, <2>1, <2>2 DEF Owned
  <2>8. Callback'
    BY <2>1, <2>2, <1>1, <1>6 DEF Callback
  <2>9. Found'
    <3>1. found_devices_'[r.name] = r.address
          /\ \A n \in Names : n # r.name => found_devices_'[n] = found_devices_[n]
      BY <1>0, <1>3, <1>6, ProxiesAre
    <3> QED
      BY <3>1, <1>0, <1>1, <1>2, <2>1, <2>2 DEF Found
  <2>10. Living'
    BY <1>0, <1>1, <1>2, <2>1, <2>3, ProxiesAre, ZenonT(60) DEF Living, Types, TypeOK
  <2> QED
    BY <2>5, <2>6, <2>7, <2>8, <2>9, <2>10 DEF Held, Links
<1> QED
  BY <1>2, <1>4, <1>5, <1>6 DEF Resolve, FindProxy

(* A service is gone: its proxy, which no other name has found, is the      *)
(* callback's to detach.                                                    *)
LEMMA BrowserRemoveStep ==
  ASSUME DiscInv, BrowserRemove, AddressesAreOwn
  PROVE  Held'
<1>0. Types /\ Places /\ Callback /\ Found /\ Living
  BY DEF DiscInv
<1>1. /\ session = "on" /\ callback = NoCallback
      /\ UNCHANGED <<root_proxies_, root_proxies_vector_, command, handling,
                     proxy_factory_, proxy>>
  BY DEF BrowserRemove, HandlesEvent, registry
<1>2. /\ command /\ Hashed /\ Vectored /\ Owned
      /\ callback.at = "idle" /\ callback.proxy \notin Proxies
  BY <1>0, <1>1, Listening, CallbackAt
<1>3. PICK n \in Names : n = Head(events).name
  BY <1>0, HandledEvent DEF BrowserRemove
<1>4. /\ found_devices_'[n] = None
      /\ \A m \in Names : m # n => found_devices_'[m] = found_devices_[m]
  BY <1>0, <1>3, ProxiesAre DEF BrowserRemove
<1>5. Found'
  BY <1>0, <1>1, <1>2, <1>4 DEF Found
<1>6. Links' /\ Living'
  BY <1>0, <1>1, <1>2
     DEF Links, Hashed, Vectored, Owned, Living, In, Once
<1>7. CASE callback' = NoCallback
  BY <1>5, <1>6, <1>7 DEF Held, Callback
<1>8. CASE callback' # NoCallback
  <2>1. /\ found_devices_[n] # None
        /\ root_proxies_[found_devices_[n]] # None
        /\ callback' = [at |-> "detach",
                        proxy |-> root_proxies_[found_devices_[n]]]
    BY <1>3, <1>8 DEF BrowserRemove, FindProxy
  <2>2. PICK a \in Address : a = found_devices_[n]
    BY <2>1, <1>0, ProxiesAre
  <2>3. PICK p \in Proxies : p = root_proxies_[a]
    BY <2>1, <2>2, <1>0, ProxiesAre
  <2>4. callback'.at = "detach" /\ callback'.proxy = p
    BY <2>1, <2>2, <2>3
  <2>5. proxy[p].state = "alive" /\ proxy[p].location = a
    BY <2>1, <2>2, <2>3, <1>2 DEF Hashed
  <2>6. \A m \in Names : found_devices_'[m] # a
    <3>1. \A m \in Names : found_devices_[m] \in Addresses[m] \cup {None}
      BY <1>0 DEF Places
    <3>2. a \in Addresses[n] /\ a # None
      BY <3>1, <2>1, <2>2
    <3>3. \A m \in Names : m # n => found_devices_[m] # a
      BY <3>1, <3>2 DEF AddressesAreOwn
    <3> QED
      BY <3>2, <3>3, <1>4
  <2>7. Callback'
    BY <2>4, <2>5, <2>6, <1>1 DEF Callback
  <2> QED
    BY <2>7, <1>5, <1>6 DEF Held
<1> QED
  BY <1>7, <1>8

(* The new proxy gets its command, and the command its proxy.               *)
LEMMA AdoptProxyStep ==
  ASSUME DiscInv, AdoptProxy
  PROVE  Held'
<1>0. Types /\ Callback /\ Found /\ Living
  BY DEF DiscInv
<1>1. callback # NoCallback /\ callback.at = "adopt"
  BY Constants DEF AdoptProxy
<1>2. PICK p \in Proxies : p = callback.proxy
  BY <1>1, DuringCallback
<1>3. PICK a \in Address : a = proxy[p].location
  BY <1>1, <1>2, DuringCallback
<1>4. /\ command /\ Hashed /\ Vectored /\ Owned
      /\ proxy[p].state = "alive" /\ ~proxy[p].command_
      /\ root_proxies_[a] = None
  BY <1>0, <1>1, <1>2, <1>3, DuringCallback, Listening DEF Callback
<1>5. /\ UNCHANGED <<command, handling, found_devices_, proxy_factory_>>
      /\ callback' = NoCallback
  BY DEF AdoptProxy, device
<1>6. /\ proxy'[p].state = "alive" /\ proxy'[p].command_
      /\ proxy'[p].location = a /\ proxy'[p].factory = proxy[p].factory
      /\ \A q \in Proxies : q # p => proxy'[q] = proxy[q]
  BY <1>0, <1>2, <1>3, <1>4, ProxiesAre DEF AdoptProxy
<1>7. /\ root_proxies_' \in [Address -> Proxies \cup {None}]
      /\ \A b \in Address : root_proxies_'[b] = IF b = a THEN p
                                                ELSE IF root_proxies_[b] = p THEN None
                                                ELSE root_proxies_[b]
      /\ Once(root_proxies_vector_')
      /\ \A q : In(root_proxies_vector_', q) <=> In(root_proxies_vector_, q) \/ q = p
  <2>1. Registered(p, a) /\ Once(root_proxies_vector_)
    BY <1>2, <1>3, <1>4 DEF AdoptProxy, Vectored
  <2> QED
    BY <2>1, <1>0, RegisteredPuts
<1>8. \A b \in Address : root_proxies_[b] # p
  BY <1>4, Constants DEF Hashed
<1>9. \A b \in Address : root_proxies_'[b] = IF b = a THEN p ELSE root_proxies_[b]
  BY <1>7, <1>8
<1>10. Hashed'
  <2>1. ASSUME NEW q \in Proxies, proxy'[q].command_
        PROVE  proxy'[q].state = "alive" /\ root_proxies_'[proxy'[q].location] = q
    <3>1. CASE q = p
      BY <3>1, <1>6, <1>9
    <3>2. CASE q # p
      <4>1. /\ proxy'[q] = proxy[q] /\ proxy[q].state = "alive"
            /\ root_proxies_[proxy[q].location] = q
        BY <3>2, <2>1, <1>4, <1>6 DEF Hashed
      <4>2. proxy[q].location \in Address /\ proxy[q].location # a
        BY <4>1, <1>0, <1>4, ProxiesAre
      <4> QED
        BY <4>1, <4>2, <1>9
    <3> QED
      BY <3>1, <3>2
  <2>2. ASSUME NEW b \in Address, root_proxies_'[b] # None
        PROVE  /\ proxy'[root_proxies_'[b]].state = "alive"
               /\ proxy'[root_proxies_'[b]].location = b
               /\ proxy'[root_proxies_'[b]].command_
    <3>1. CASE b = a
      BY <3>1, <1>6, <1>9
    <3>2. CASE b # a
      BY <3>2, <2>2, <1>4, <1>6, <1>8, <1>9, <1>0, ProxiesAre DEF Hashed
    <3> QED
      BY <3>1, <3>2
  <2> QED
    BY <2>1, <2>2 DEF Hashed
<1>11. Vectored'
  BY <1>4, <1>6, <1>7 DEF Vectored
<1>12. Owned'
  BY <1>2, <1>4, <1>6 DEF Owned
<1>13. Found'
  BY <1>0, <1>2, <1>3, <1>4, <1>5, <1>9, ProxiesAre DEF Found
<1>14. Living'
  <2>1. \A q \in Proxies : /\ proxy'[q].state = proxy[q].state
                           /\ proxy'[q].factory = proxy[q].factory
    BY <1>4, <1>6
  <2>2. \A b \in Address :
          root_proxies_'[b] # None => proxy[root_proxies_'[b]].state # "unborn"
    BY <1>0, <1>4, <1>9 DEF Living
  <2>3. root_proxies_' \in [Address -> Proxies \cup {None}]
    BY <1>7
  <2>4. handling \in Proxies \cup {None}
    BY <1>0 DEF Types, TypeOK
  <2> QED
    BY <2>1, <2>2, <2>3, <2>4, <1>0, <1>4, <1>5 DEF Living
<1>15. Callback'
  BY <1>5 DEF Callback
<1> QED
  BY <1>10, <1>11, <1>12, <1>13, <1>14, <1>15 DEF Held, Links

(* The proxy of a service that is gone loses its command.                   *)
LEMMA DetachStep ==
  ASSUME DiscInv, Detach
  PROVE  Held'
<1>0. Types /\ Callback /\ Found /\ Living
  BY DEF DiscInv
<1>1. callback # NoCallback /\ callback.at = "detach"
  BY Constants DEF Detach
<1>2. PICK p \in Proxies : p = callback.proxy
  BY <1>1, DuringCallback
<1>3. /\ command /\ Hashed /\ Vectored /\ Owned
      /\ proxy[p].state = "alive"
      /\ \A n \in Names : found_devices_[n] # proxy[p].location
  BY <1>0, <1>1, <1>2, DuringCallback, Listening DEF Callback
<1>4. /\ UNCHANGED <<command, handling, found_devices_, proxy_factory_>>
      /\ callback'.at = "delete" /\ callback'.proxy = p
  BY <1>0, <1>2 DEF Detach, device, Types, CallbackType
<1>5. /\ proxy'[p].state = "alive" /\ ~proxy'[p].command_
      /\ proxy'[p].location = proxy[p].location
      /\ proxy'[p].factory = proxy[p].factory
      /\ \A q \in Proxies : q # p => proxy'[q] = proxy[q]
  BY <1>0, <1>2, <1>3, ProxiesAre DEF Detach
<1>6. /\ \A a \in Address : root_proxies_'[a] = IF root_proxies_[a] = p THEN None
                                                ELSE root_proxies_[a]
      /\ Once(root_proxies_vector_')
      /\ \A q : In(root_proxies_vector_', q) <=> In(root_proxies_vector_, q) /\ q # p
  <2>1. CASE proxy[p].command_
    <3>1. Unregistered(p) /\ Once(root_proxies_vector_)
      BY <2>1, <1>2, <1>3 DEF Detach, Vectored
    <3> QED
      BY <3>1, <1>0, UnregisteredTakes
  <2>2. CASE ~proxy[p].command_
    <3>1. UNCHANGED <<root_proxies_, root_proxies_vector_>>
      BY <2>2, <1>2 DEF Detach
    <3>2. ~In(root_proxies_vector_, p) /\ Once(root_proxies_vector_)
      BY <2>2, <1>3 DEF Vectored
    <3>3. \A a \in Address : root_proxies_[a] # p
      BY <2>2, <1>3, Constants DEF Hashed
    <3> QED
      BY <3>1, <3>2, <3>3
  <2> QED
    BY <2>1, <2>2
<1>7. Hashed'
  <2>1. ASSUME NEW q \in Proxies, proxy'[q].command_
        PROVE  proxy'[q].state = "alive" /\ root_proxies_'[proxy'[q].location] = q
    <3>1. /\ q # p /\ proxy'[q] = proxy[q] /\ proxy[q].state = "alive"
          /\ root_proxies_[proxy[q].location] = q
      BY <2>1, <1>3, <1>5 DEF Hashed
    <3>2. proxy[q].location \in Address
      BY <3>1, <1>0, ProxiesAre
    <3> QED
      BY <3>1, <3>2, <1>6
  <2>2. ASSUME NEW b \in Address, root_proxies_'[b] # None
        PROVE  /\ proxy'[root_proxies_'[b]].state = "alive"
               /\ proxy'[root_proxies_'[b]].location = b
               /\ proxy'[root_proxies_'[b]].command_
    BY <2>2, <1>0, <1>3, <1>5, <1>6, ProxiesAre DEF Hashed
  <2> QED
    BY <2>1, <2>2 DEF Hashed
<1>8. Vectored'
  BY <1>3, <1>5, <1>6 DEF Vectored
<1>9. Owned'
  BY <1>2, <1>3, <1>4, <1>5 DEF Owned
<1>10. Callback'
  BY <1>4, <1>5 DEF Callback
<1>11. Found'
  <2>1. ASSUME NEW n \in Names, found_devices_[n] # None
        PROVE  root_proxies_'[found_devices_[n]] # None
    <3>1. PICK a \in Address : a = found_devices_[n]
      BY <2>1, <1>0, ProxiesAre
    <3>2. root_proxies_[a] # None
      BY <2>1, <3>1, <1>0, <1>1, <1>3 DEF Found
    <3>3. root_proxies_[a] # p
      BY <3>1, <3>2, <1>3 DEF Hashed
    <3> QED
      BY <3>1, <3>2, <3>3, <1>6
  <2> QED
    BY <2>1, <1>4 DEF Found
<1>12. Living'
  <2>1. \A q \in Proxies : /\ proxy'[q].state = proxy[q].state
                           /\ proxy'[q].factory = proxy[q].factory
    BY <1>3, <1>5
  <2>2. \A b \in Address : root_proxies_'[b] # None =>
          root_proxies_'[b] \in Proxies /\ root_proxies_'[b] = root_proxies_[b]
    BY <1>0, <1>6, ProxiesAre
  <2>3. handling \in Proxies \cup {None}
    BY <1>0 DEF Types, TypeOK
  <2> QED
    BY <2>1, <2>2, <2>3, <1>0, <1>3, <1>4 DEF Living
<1> QED
  BY <1>7, <1>8, <1>9, <1>10, <1>11, <1>12 DEF Held, Links

(* ... and is deleted, not under the hands of the command's thread.         *)
LEMMA DeleteProxyStep ==
  ASSUME DiscInv, DeleteProxy, LockedDelete
  PROVE  Held'
<1>0. Types /\ Callback /\ Found /\ Living
  BY DEF DiscInv
<1>1. callback # NoCallback /\ callback.at = "delete"
  BY Constants DEF DeleteProxy
<1>2. PICK p \in Proxies : p = callback.proxy
  BY <1>1, DuringCallback
<1>3. /\ command /\ Hashed /\ Vectored /\ Owned /\ browser = "whole"
      /\ proxy[p].state = "alive" /\ ~proxy[p].command_
  BY <1>0, <1>1, <1>2, DuringCallback, Listening DEF Callback
<1>4. /\ UNCHANGED <<command, handling, found_devices_, proxy_factory_,
                     root_proxies_, root_proxies_vector_>>
      /\ callback' = NoCallback /\ handling = None
  BY <1>3 DEF DeleteProxy, device, registry
<1>5. /\ proxy'[p].state = "deleted" /\ ~proxy'[p].command_
      /\ proxy'[p].factory = proxy[p].factory
      /\ \A q \in Proxies : q # p => proxy'[q] = proxy[q]
  BY <1>0, <1>2, <1>3, ProxiesAre DEF DeleteProxy
<1>6. \A a \in Address : root_proxies_[a] # p
  BY <1>3, Constants DEF Hashed
<1>7. Hashed'
  BY <1>0, <1>3, <1>4, <1>5, <1>6, ProxiesAre DEF Hashed
<1>8. Vectored'
  BY <1>3, <1>4, <1>5 DEF Vectored, In, Once
<1>9. Owned'
  BY <1>2, <1>3, <1>5 DEF Owned
<1>10. Callback'
  BY <1>4 DEF Callback
<1>11. Found'
  BY <1>0, <1>1, <1>4 DEF Found
<1>12. Living'
  BY <1>0, <1>3, <1>4, <1>5, <1>6, ProxiesAre DEF Living
<1> QED
  BY <1>7, <1>8, <1>9, <1>10, <1>11, <1>12 DEF Held, Links

(* The user's own proxy comes before any other.                             *)
LEMMA UserAdoptsStep ==
  ASSUME DiscInv, UserAdopts
  PROVE  Held'
<1>0. Types /\ Script /\ Links /\ Living
  BY DEF DiscInv
<1>1. /\ Early /\ \A q \in Proxies : proxy[q].state = "unborn"
  BY <1>0, ScriptRest DEF UserAdopts, Setup
<1>2. /\ command /\ Hashed /\ Vectored
  BY <1>0 DEF UserAdopts, Links
<1>3. PICK a \in Address, p \in Proxies : Born(p, a, TRUE, 0) /\ Registered(p, a)
  BY DEF UserAdopts
<1>4. UNCHANGED <<command, handling, found_devices_, proxy_factory_, callback>>
  BY DEF UserAdopts, device
<1>5. /\ proxy'[p].state = "alive" /\ proxy'[p].command_
      /\ proxy'[p].location = a /\ proxy'[p].factory = 0
      /\ \A q \in Proxies : q # p => proxy'[q] = proxy[q]
  BY <1>0, <1>3, ProxiesAre DEF Born
<1>6. /\ \A b \in Address : root_proxies_'[b] = IF b = a THEN p
                                                ELSE IF root_proxies_[b] = p THEN None
                                                ELSE root_proxies_[b]
      /\ Once(root_proxies_vector_')
      /\ \A q : In(root_proxies_vector_', q) <=> In(root_proxies_vector_, q) \/ q = p
  BY <1>0, <1>2, <1>3, RegisteredPuts DEF Vectored
<1>7. \A b \in Address : root_proxies_[b] = None
  BY <1>0, <1>1, <1>2, ProxiesAre DEF Hashed
<1>8. \A q \in Proxies : ~proxy[q].command_
  BY <1>1, <1>2 DEF Hashed
<1>9. \A b \in Address : root_proxies_'[b] = IF b = a THEN p ELSE None
  BY <1>6, <1>7, Constants
<1>10. Hashed'
  BY <1>5, <1>8, <1>9 DEF Hashed
<1>11. Vectored'
  BY <1>2, <1>5, <1>6 DEF Vectored
<1>12. Owned'
  BY <1>1, <1>5 DEF Owned
<1>13. Callback' /\ Found'
  BY <1>1, <1>4 DEF Early, Callback, Found
<1>14. Living'
  BY <1>0, <1>1, <1>2, <1>4, <1>5, <1>9 DEF Living, Types, TypeOK
<1> QED
  BY <1>10, <1>11, <1>12, <1>13, <1>14 DEF Held, Links

(* With the command go all proxies: no callback has one of its own then.    *)
LEMMA DeleteCommandStep ==
  ASSUME DiscInv, DeleteCommand
  PROVE  Held'
<1>0. Types /\ Script /\ Session /\ Links /\ Living
  BY DEF DiscInv
<1>1. ~running_
  BY <1>0, ScriptRest DEF DeleteCommand, Teardown
<1>2. callback = NoCallback /\ callback.proxy \notin Proxies
  BY <1>0, <1>1, CallbackAt DEF Session
<1>3. /\ UNCHANGED <<handling, found_devices_, proxy_factory_, callback,
                     root_proxies_>>
      /\ ~command' /\ handling = None
  BY DEF DeleteCommand, device
<1>4. \A p \in Proxies :
        /\ proxy'[p].factory = proxy[p].factory
        /\ proxy'[p].state \in {proxy[p].state, "deleted"}
        /\ (\E a \in Address : root_proxies_[a] = p) => proxy'[p].state = "deleted"
  BY <1>0, ProxiesAre, ZenonT(60) DEF DeleteCommand
<1>5. ASSUME NEW p \in Proxies, proxy[p].state = "alive"
      PROVE  \E a \in Address : root_proxies_[a] = p
  <2>1. command /\ proxy[p].command_
    BY <1>0, <1>2, <1>5 DEF Living, Links, Owned
  <2>2. root_proxies_[proxy[p].location] = p
    BY <2>1, <1>0 DEF Links, Hashed
  <2> QED
    BY <2>2, <1>0, <1>5, ProxiesAre
<1>6. \A p \in Proxies : proxy'[p].state # "alive"
  BY <1>4, <1>5
<1>7. \A a \in Address : root_proxies_'[a] # None =>
        proxy'[root_proxies_'[a]].state # "unborn"
  BY <1>0, <1>3, <1>4, ProxiesAre DEF Living
<1>8. Living'
  BY <1>0, <1>3, <1>4, <1>6, <1>7 DEF Living
<1> QED
  BY <1>2, <1>3, <1>8 DEF Held, Links, Callback, Found

(* Steps that leave the proxies and what is known of them alone.            *)
LEMMA OtherStep ==
  ASSUME DiscInv,
         UNCHANGED <<callback, registry, proxy, found_devices_>>,
         handling' \in {handling, None}
           \/ (command /\ \E a \in Address :
                 root_proxies_[a] # None /\ handling' = root_proxies_[a]),
         proxy_factory_' = proxy_factory_ \/ Early
  PROVE  Held'
<1>0. Types /\ Links /\ Callback /\ Found /\ Living
  BY DEF DiscInv
<1>1. UNCHANGED <<callback, command, root_proxies_, root_proxies_vector_,
                  proxy, found_devices_>>
  BY DEF registry
<1>2. Links' /\ Callback' /\ Found'
  BY <1>0, <1>1
     DEF Links, Hashed, Vectored, Owned, In, Once, Callback, Found
<1>3. handling' # None => command /\ proxy[handling'].state = "alive"
  BY <1>0 DEF Living, Links, Hashed
<1>4. \A p \in Proxies : proxy[p].factory \in {0, proxy_factory_'}
  BY <1>0 DEF Living, Early
<1>5. Living'
  BY <1>0, <1>1, <1>3, <1>4 DEF Living
<1> QED
  BY <1>2, <1>5 DEF Held

LEMMA HeldStep ==
  ASSUME DiscInv, [Next]_vars, LockedDelete, AddressesAreOwn
  PROVE  Held'
<1>1. CASE Start \/ Stop \/ DeleteDerived \/ DeleteBase
  <2>1. /\ UNCHANGED <<callback, registry, proxy, found_devices_>>
        /\ handling' = handling /\ proxy_factory_' = proxy_factory_
    BY <1>1 DEF Start, Stop, DeleteDerived, DeleteBase
  <2> QED
    BY <2>1, OtherStep
<1>2. CASE AdoptFactory
  <2>1. /\ UNCHANGED <<callback, registry, proxy, found_devices_>>
        /\ handling' = handling
    BY <1>2 DEF AdoptFactory
  <2>2. Early
    BY <1>2, ScriptRest DEF AdoptFactory, Setup, DiscInv
  <2> QED
    BY <2>1, <2>2, OtherStep
<1>3. ASSUME NEW a \in Address, HandleReply(a)
      PROVE  Held'
  <2>1. /\ UNCHANGED <<callback, registry, proxy, found_devices_>>
        /\ proxy_factory_' = proxy_factory_
        /\ command /\ root_proxies_[a] # None /\ handling' = root_proxies_[a]
    BY <1>3 DEF HandleReply, FindProxy, device
  <2> QED
    BY <2>1, OtherStep
<1>4. CASE ReplyHandled
  <2>1. /\ UNCHANGED <<callback, registry, proxy, found_devices_>>
        /\ proxy_factory_' = proxy_factory_ /\ handling' = None
    BY <1>4 DEF ReplyHandled, device
  <2> QED
    BY <2>1, OtherStep
<1>5. ASSUME NEW n \in Names, NEW i \in Interfaces,
             Announce(n, i) \/ Withdraw(n, i)
      PROVE  Held'
  <2>1. /\ UNCHANGED <<callback, registry, proxy, found_devices_>>
        /\ proxy_factory_' = proxy_factory_ /\ handling' = handling
    BY <1>5 DEF Announce, Withdraw, device
  <2> QED
    BY <2>1, OtherStep
<1>6. CASE BrowserNew \/ Quit \/ (\E r \in resolving : ResolveFails(r))
  <2>1. /\ UNCHANGED <<callback, registry, proxy, found_devices_>>
        /\ proxy_factory_' = proxy_factory_ /\ handling' = handling
    BY <1>6 DEF BrowserNew, Quit, ResolveFails, Answers, device
  <2> QED
    BY <2>1, OtherStep
<1>7. CASE UNCHANGED vars
  <2>1. /\ UNCHANGED <<callback, registry, proxy, found_devices_>>
        /\ proxy_factory_' = proxy_factory_ /\ handling' = handling
    BY <1>7 DEF vars, device
  <2> QED
    BY <2>1, OtherStep
<1> QED
  BY <1>1, <1>2, <1>3, <1>4, <1>5, <1>6, <1>7, ResolveStep, BrowserRemoveStep,
     AdoptProxyStep, DetachStep, DeleteProxyStep, UserAdoptsStep,
     DeleteCommandStep DEF Next, AvahiThread, User

-----------------------------------------------------------------------------
LEMMA InvInit ==
  ASSUME Init, \A steps \in Programs : Orderly(steps)
  PROVE  DiscInv
<1>1. Types
  <2>1. address \in [Names -> Address]
    BY DEF Init
  <2>2. program \in Seq(Steps)
    BY DiscoveryAssumption DEF Init, DiscoveryAssumption
  <2>3. IsFiniteSet(announced)
    BY FS_EmptySet DEF Init
  <2>4. NetworkTypes /\ UserTypes
    BY <2>1, <2>2, <2>3, DiscoveryAssumption
       DEF Init, DiscoveryAssumption, NetworkTypes, UserTypes
  <2>5. <<>> \in Seq(Notice) /\ <<>> \in Seq(Proxies)
    OBVIOUS
  <2>6. AvahiTypes
    BY <2>5, DiscoveryAssumption DEF Init, DiscoveryAssumption, AvahiTypes
  <2>7. DeviceTypes
    BY DEF Init, DeviceTypes
  <2>8. RegistryTypes
    BY <2>5 DEF Init, RegistryTypes
  <2>9. CallbackTypes
    BY Constants DEF Init, CallbackTypes
  <2>10. ProxyTypes
    BY Constants DEF Init, ProxyTypes, Unborn
  <2> QED
    BY <2>4, <2>6, <2>7, <2>8, <2>9, <2>10, TypesAre
<1>2. /\ \A p \in Proxies : /\ proxy[p].state = "unborn" /\ ~proxy[p].command_
                            /\ proxy[p].factory = 0
      /\ \A a \in Address : root_proxies_[a] = None
      /\ \A n \in Names : found_devices_[n] = None
      /\ callback = NoCallback /\ command /\ handling = None /\ ~running_
      /\ browser = "whole" /\ session = "off" /\ resolving = {}
      /\ root_proxies_vector_ = <<>>
  BY DEF Init, Unborn
<1>3. Script
  BY <1>2 DEF Init, Script, Early, Orderly
<1>4. Session /\ Places
  BY <1>2 DEF Init, Session, Places
<1>5. Links /\ Callback /\ Found /\ Living
  BY <1>2 DEF Links, Hashed, Vectored, Owned, In, Once, Callback, Found, Living
<1> QED
  BY <1>1, <1>3, <1>4, <1>5 DEF DiscInv

LEMMA InvStep ==
  ASSUME DiscInv, [Next]_vars, LockedDelete, AddressesAreOwn
  PROVE  DiscInv'
BY TypesStep, ScriptStep, SessionStep, PlacesStep, HeldStep DEF DiscInv, Held

LEMMA InvHolds ==
  ASSUME \A steps \in Programs : Orderly(steps), LockedDelete, AddressesAreOwn
  PROVE  Spec => []DiscInv
<1>1. Init => DiscInv
  BY InvInit
<1>2. DiscInv /\ [Next]_vars => DiscInv'
  BY InvStep
<1> QED
  BY <1>1, <1>2, PTL DEF Spec

(* While the command exists, its hash, its vector and the proxies' own link *)
(* tell the same, and its destructor leaves no proxy behind, whatever the   *)
(* network, avahi's thread and the replies did (command.cpp:202-219).       *)
THEOREM ProxiesStayListed ==
  ASSUME \A steps \in Programs : Orderly(steps), LockedDelete, AddressesAreOwn
  PROVE  Spec => []ProxiesAreListed
<1>1. DiscInv => ProxiesAreListed
  <2>1. SUFFICES ASSUME DiscInv PROVE ProxiesAreListed
    OBVIOUS
  <2>2. RegistryAgrees
    <3>1. SUFFICES ASSUME command PROVE RegistryAgrees
      BY DEF RegistryAgrees
    <3>2. Hashed /\ Vectored
      BY <2>1, <3>1 DEF DiscInv, Links
    <3>3. \A p \in Proxies :
            Cardinality({k \in DOMAIN root_proxies_vector_ :
                           root_proxies_vector_[k] = p})
              = IF proxy[p].command_ THEN 1 ELSE 0
      BY <3>2, OnceCounts DEF Vectored
    <3> QED
      BY <3>2, <3>3 DEF RegistryAgrees, Hashed
  <2> QED
    BY <2>1, <2>2 DEF DiscInv, Types, Living, NothingLeaks, ProxiesAreListed
<1> QED
  BY <1>1, InvHolds, PTL

(* What a callback of the browser or a reply is using is not gone: the      *)
(* proxy, its command, its factory and the whole of the browser             *)
(* (zeroconf_browser.h:94-97, root_proxy.cpp:95).                           *)
THEOREM UsedIsThere ==
  ASSUME \A steps \in Programs : Orderly(steps), LockedDelete, AddressesAreOwn
  PROVE  Spec => []NothingUsedIsGone
<1>1. DiscInv => NothingUsedIsGone
  <2>1. SUFFICES ASSUME DiscInv PROVE NothingUsedIsGone
    OBVIOUS
  <2>2. HandledIsAlive
    <3>1. handling # None => handling \in Proxies
      BY <2>1 DEF DiscInv, Types, TypeOK
    <3> QED
      BY <2>1, <3>1 DEF HandledIsAlive, DiscInv, Living, Session
  <2>3. CallbackIsSafe
    BY <2>1 DEF CallbackIsSafe, DiscInv, Session
  <2>4. FoundHasProxy
    <3>1. callback = NoCallback => callback.at # "adopt"
      BY Constants
    <3> QED
      BY <2>1, <3>1 DEF FoundHasProxy, DiscInv, Found
  <2> QED
    BY <2>2, <2>3, <2>4 DEF NothingUsedIsGone
<1> QED
  BY <1>1, InvHolds, PTL
=============================================================================
