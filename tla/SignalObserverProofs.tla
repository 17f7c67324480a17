------------------------- MODULE SignalObserverProofs -------------------------
(***************************************************************************)
(* Proofs about SignalObserver, for any threads, signals, observers and     *)
(* number of calls: as long as disconnect, send_once and ~Signal run alone, *)
(* connections end at both of their ends and no list changes under a thread *)
(* that goes through it (ConnectionsAreSound).                              *)
(***************************************************************************)
EXTENDS SignalObserver, WellFoundedInduction, TLAPS

(* The calls that change a list they walk through under the lock for        *)
(* readers, or take the locks of both ends the other way round.             *)
Lonely == {"disconnect", "send_once", "~Signal"}

(* The lists of a connection's ends are out of step while one of these      *)
(* calls is between its two changes: the signal has the observer, which     *)
(* does not know it ...                                                     *)
Linking(t, s, o) ==
  /\ call[t].s = s
  /\ \/ At(t, "connect", "observed") /\ call[t].o = o
     \/ call[t].op \in {"send_once", "~Signal"} /\ call[t].pc # "enter"

(* ... or the other way round. *)
Unlinking(t, s, o) ==
  /\ call[t].o = o
  /\ \/ At(t, "disconnect", "observed") /\ call[t].s = s
     \/ At(t, "~Observer", "loop")

CallType ==
  [op : Ops \cup {"none"}, pc : {"idle", "enter", "loop", "observed", "trigger"},
   s : Sig \cup {None}, o : Obs \cup {None}, i : Nat]

Types ==
  /\ callbacks_ \in [Sig -> Seq(Obs)]
  /\ observed_signals_ \in [Obs -> Seq(Sig)]
  /\ state \in [Sig \cup Obs -> {"live", "dying", "gone"}]
  /\ call \in [Thread -> CallType]
  /\ calls \in 0..MaxCalls

(* What a call names and the state of it, and where the call can be. *)
Stage(t) ==
  LET c == call[t] IN
  /\ c.op = "none" => c = Idle
  /\ c.op \in {"connect", "disconnect"} =>
       c.s \in Sig /\ state[c.s] = "live" /\ c.o \in Obs /\ state[c.o] = "live"
  /\ c.op \in SendOps => c.s \in Sig /\ state[c.s] = "live" /\ c.o = None
  /\ c.op = "~Signal" => c.s \in Sig /\ state[c.s] = "dying" /\ c.o = None
  /\ c.op = "~Observer" => c.s = None /\ c.o \in Obs /\ state[c.o] = "dying"
  /\ c.op \in {"connect", "disconnect"} => c.pc \in {"enter", "observed"}
  /\ c.op \in {"send", "~Signal", "~Observer"} => c.pc \in {"enter", "loop"}
  /\ c.op = "send_once" => c.pc \in {"enter", "loop", "trigger"} /\ c.i = 1

(* Between disconnect_signal and erase in send_once. *)
Triggering(t) ==
  At(t, "send_once", "trigger") =>
    LET list == callbacks_[call[t].s] IN
    list # <<>> /\ ~Known(call[t].s, list[1])

(* The link that connect has made is there, that disconnect has taken is    *)
(* gone, before the observer hears of it.                                   *)
Halfway(t) ==
  /\ At(t, "connect", "observed") => Linked(call[t].s, call[t].o)
  /\ At(t, "disconnect", "observed") => ~Linked(call[t].s, call[t].o)

Apart ==
  \A t, u \in Thread : t # u =>
    /\ call[t].op \in Lonely => call[u] = Idle
    /\ call[t].op = "~Observer" /\ call[u].op = "~Observer" => call[t].o # call[u].o

InStep(s, o) ==
  /\ Linked(s, o) /\ ~Known(s, o) => \E t \in Thread : Linking(t, s, o)
  /\ Known(s, o) /\ ~Linked(s, o) => \E t \in Thread : Unlinking(t, s, o)

Forgotten(s, o) ==
  state[s] = "gone" \/ state[o] = "gone" => ~Linked(s, o) /\ ~Known(s, o)

LinkInv ==
  /\ Types /\ Apart /\ ~corrupt
  /\ \A t \in Thread : Stage(t) /\ Triggering(t) /\ Halfway(t)
  /\ \A s \in Sig, o \in Obs : InStep(s, o) /\ Forgotten(s, o)

-----------------------------------------------------------------------------
(* The lists *)

(* A set of numbers that is not empty has a least one.                      *)
LEMMA LeastNumber ==
  ASSUME NEW T \in SUBSET Nat, T # {}
  PROVE  \E n \in T : \A m \in T : n <= m
<1>1. IsWellFoundedOn(OpToRel(<, Nat), Nat)
  BY NatLessThanWellFounded
<1>2. PICK n \in T : \A m \in T : <<m, n>> \notin OpToRel(<, Nat)
  BY <1>1, WFMin
<1>3. \A m \in T : ~(m < n)
  BY <1>2 DEF OpToRel
<1>. QED
  BY <1>3

(* One turn of the loop of Without, and that all of them have run. *)
Turn(f, i, list, x) ==
  IF i = 0 THEN <<>> ELSE IF list[i] = x THEN f[i - 1] ELSE Append(f[i - 1], list[i])
Loops(f, n, list, x) == f = [i \in 0..n |-> Turn(f, i, list, x)]

LEMMA LoopExists ==
  ASSUME NEW S, NEW list \in Seq(S), NEW x
  PROVE  \E f : Loops(f, Len(list), list, x)
<1>. DEFINE T == {n \in Nat : ~\E f : Loops(f, n, list, x)}
<1>0. /\ T \in SUBSET Nat
      /\ \A n \in Nat : n \in T <=> ~\E f : Loops(f, n, list, x)
  OBVIOUS
<1>. HIDE DEF T
<1>1. CASE T = {}
  BY <1>0, <1>1
<1>2. CASE T # {}
  <2>1. PICK n \in T : \A m \in T : n <= m
    BY <1>0, <1>2, LeastNumber
  <2>2. CASE n = 0
    <3>1. Loops([i \in 0..0 |-> <<>>], 0, list, x)
      BY DEF Loops, Turn
    <3>. QED
      BY <1>0, <2>1, <2>2, <3>1
  <2>3. CASE n # 0
    <3>1. n \in Nat /\ n - 1 \in Nat /\ n - 1 \notin T
      BY <1>0, <2>1, <2>3
    <3>2. PICK f : Loops(f, n - 1, list, x)
      BY <1>0, <3>1
    <3>. DEFINE g == [i \in 0..n |-> IF i = n THEN Turn(f, n, list, x) ELSE f[i]]
    <3>3. \A i \in 0..(n - 1) : f[i] = Turn(f, i, list, x)
      BY <3>2 DEF Loops
    <3>4. \A i \in 0..n : i # 0 => i - 1 \in 0..(n - 1) /\ g[i - 1] = f[i - 1]
      BY <3>1
    <3>5. \A i \in 0..n : Turn(g, i, list, x) = Turn(f, i, list, x)
      BY <3>4 DEF Turn
    <3>6. \A i \in 0..n : g[i] = Turn(g, i, list, x)
      BY <3>1, <3>3, <3>5
    <3>7. Loops(g, n, list, x)
      BY <3>6 DEF Loops
    <3>. QED
      BY <1>0, <2>1, <3>7
  <2>. QED
    BY <2>2, <2>3
<1>. QED
  BY <1>1, <1>2

(* Without keeps all but x. *)
LEMMA WithoutKeeps ==
  ASSUME NEW S, NEW list \in Seq(S), NEW x
  PROVE  /\ Without(list, x) \in Seq(S)
         /\ ~Contains(Without(list, x), x)
         /\ \A y : y # x => (Contains(Without(list, x), y) <=> Contains(list, y))
<1>1. PICK f : Loops(f, Len(list), list, x) /\ Without(list, x) = f[Len(list)]
  <2>1. \E f : Loops(f, Len(list), list, x)
    BY LoopExists
  <2>. QED
    BY <2>1 DEF Without, Loops, Turn
<1>2. \A i \in 0..Len(list) : f[i] = Turn(f, i, list, x)
  BY <1>1 DEF Loops
<1>. DEFINE Right(i) ==
       /\ f[i] \in Seq(S)
       /\ \A y : Contains(f[i], y) <=> y # x /\ \E k \in 1..i : list[k] = y
     T == {i \in 0..Len(list) : ~Right(i)}
<1>0. /\ T \in SUBSET (0..Len(list)) /\ Len(list) \in Nat
      /\ \A i \in 0..Len(list) : i \in T <=> ~Right(i)
  OBVIOUS
<1>. HIDE DEF T
<1>3. CASE T = {}
  <2>1. Right(Len(list))
    <3>1. Len(list) \in 0..Len(list) /\ Len(list) \notin T
      BY <1>0, <1>3
    <3>. HIDE DEF Right
    <3>. QED
      BY <1>0, <3>1
  <2>. QED
    BY <1>1, <2>1 DEF Contains
<1>4. CASE T # {}
  <2>1. T \in SUBSET Nat
    BY <1>0
  <2>2. PICK n \in T : \A m \in T : n <= m
    BY <1>4, <2>1, LeastNumber
  <2>3. n # 0
    <3>1. f[0] = <<>>
      BY <1>2 DEF Turn
    <3>2. Right(0)
      BY <3>1 DEF Contains
    <3>. QED
      BY <1>0, <2>2, <3>2
  <2>4. n \in 1..Len(list) /\ Right(n - 1) /\ f[n] = Turn(f, n, list, x)
    <3>1. n \in 1..Len(list) /\ n - 1 \in 0..Len(list) /\ n - 1 < n
      BY <1>0, <2>2, <2>3
    <3>2. n - 1 \notin T
      BY <2>1, <2>2, <3>1
    <3>. QED
      BY <1>0, <1>2, <3>1, <3>2
  <2>5. \A y : (\E k \in 1..n : list[k] = y)
               <=> list[n] = y \/ \E k \in 1..(n - 1) : list[k] = y
    <3>1. n \in 1..n /\ \A k \in 1..n : k = n \/ k \in 1..(n - 1)
      BY <2>4
    <3>2. \A k \in 1..(n - 1) : k \in 1..n
      BY <2>4
    <3>. QED
      BY <3>1, <3>2
  <2>6. CASE list[n] = x
    <3>1. f[n] = f[n - 1]
      BY <2>3, <2>4, <2>6 DEF Turn
    <3>. QED
      BY <1>0, <2>2, <2>4, <2>5, <2>6, <3>1
  <2>7. CASE list[n] # x
    <3>1. f[n] = Append(f[n - 1], list[n]) /\ list[n] \in S
      BY <2>3, <2>4, <2>7 DEF Turn
    <3>2. \A y : Contains(f[n], y) <=> Contains(f[n - 1], y) \/ y = list[n]
      BY <2>4, <3>1 DEF Contains
    <3>3. f[n] \in Seq(S)
      BY <2>4, <3>1
    <3>. QED
      BY <1>0, <2>2, <2>4, <2>5, <2>7, <3>2, <3>3
  <2>. QED
    BY <2>6, <2>7
<1>. QED
  BY <1>3, <1>4

LEMMA AppendContains ==
  ASSUME NEW S, NEW list \in Seq(S), NEW x \in S
  PROVE  /\ Append(list, x) \in Seq(S)
         /\ \A y : Contains(Append(list, x), y) <=> Contains(list, y) \/ y = x
BY DEF Contains

LEMMA TailContains ==
  ASSUME NEW S, NEW list \in Seq(S), list # <<>>
  PROVE  /\ Head(list) = list[1] /\ list[1] \in S /\ Contains(list, list[1])
         /\ Tail(list) \in Seq(S)
         /\ \A y : Contains(Tail(list), y) => Contains(list, y)
         /\ \A y : Contains(list, y) => Contains(Tail(list), y) \/ y = list[1]
<1>1. /\ Head(list) = list[1] /\ list[1] \in S /\ Len(list) \in Nat /\ Len(list) # 0
      /\ Tail(list) \in Seq(S) /\ Len(Tail(list)) = Len(list) - 1
      /\ \A i \in 1..Len(Tail(list)) : i + 1 \in 1..Len(list) /\ Tail(list)[i] = list[i + 1]
  OBVIOUS
<1>2. \A i \in 2..Len(list) : i - 1 \in 1..Len(Tail(list)) /\ Tail(list)[i - 1] = list[i]
  BY <1>1
<1>. QED
  BY <1>1, <1>2 DEF Contains

-----------------------------------------------------------------------------
(* Steps *)

LEMMA Going ==
  ASSUME Types, NEW t \in Thread, NEW p \in {"loop", "observed", "trigger"}, Goto(t, p)
  PROVE  /\ call' \in [Thread -> CallType]
         /\ call'[t].op = call[t].op /\ call'[t].s = call[t].s
         /\ call'[t].o = call[t].o /\ call'[t].i = call[t].i /\ call'[t].pc = p
         /\ \A u \in Thread \ {t} : call'[u] = call[u]
BY DEF Types, Goto, CallType

LEMMA Returning ==
  ASSUME Types, NEW t \in Thread, Return(t)
  PROVE  /\ call' \in [Thread -> CallType] /\ call'[t] = Idle
         /\ \A u \in Thread \ {t} : call'[u] = call[u]
<1>1. Idle \in CallType
  BY DEF Idle, CallType
<1>. QED
  BY <1>1 DEF Types, Return

(* A thread that goes on in its call, or returns, is where it was apart.    *)
LEMMA StaysApart ==
  ASSUME Apart, NEW t \in Thread, \A u \in Thread \ {t} : call'[u] = call[u],
         call'[t] = Idle \/ (call[t] # Idle /\ call'[t].op = call[t].op /\ call'[t].o = call[t].o)
  PROVE  Apart'
<1>1. Idle.op = "none"
  BY DEF Idle
<1>. QED
  BY <1>1 DEF Apart, Lonely

(* Nobody is in send_once, disconnect or ~Signal beside another call.       *)
LEMMA NobodyLonely ==
  ASSUME LinkInv, NEW t \in Thread, call[t] # Idle
  PROVE  /\ \A u \in Thread \ {t} : call[u].op \notin Lonely
         /\ call[t].op \in Lonely => \A u \in Thread \ {t} : call[u] = Idle
BY DEF LinkInv, Apart

(* Whatever happens to the lists, a step of t leaves these to be shown.     *)
LEMMA ChangesKeep ==
  ASSUME LinkInv, NEW t \in Thread, call[t] # Idle,
         call' \in [Thread -> CallType], \A u \in Thread \ {t} : call'[u] = call[u],
         callbacks_' \in [Sig -> Seq(Obs)], observed_signals_' \in [Obs -> Seq(Sig)],
         UNCHANGED <<state, calls>>, ~corrupt',
         call'[t] = Idle \/ (call'[t].op = call[t].op /\ call'[t].o = call[t].o),
         Stage(t)', Triggering(t)', \A u \in Thread : Halfway(u)',
         \A s \in Sig, o \in Obs : InStep(s, o)' /\ Forgotten(s, o)'
  PROVE  LinkInv'
<1>1. Types' /\ Apart'
  BY StaysApart DEF LinkInv, Types
<1>2. \A u \in Thread \ {t} : Stage(u)'
  BY DEF LinkInv, Stage
<1>3. \A u \in Thread \ {t} : Triggering(u)'
  BY NobodyLonely DEF Triggering, At, Lonely
<1>. QED
  BY <1>1, <1>2, <1>3 DEF LinkInv

(* What the other threads are busy with stays.                              *)
LEMMA OthersLink ==
  ASSUME NEW t \in Thread, \A u \in Thread \ {t} : call'[u] = call[u]
  PROVE  \A u \in Thread \ {t}, s \in Sig, o \in Obs :
           Linking(u, s, o)' = Linking(u, s, o) /\ Unlinking(u, s, o)' = Unlinking(u, s, o)
BY DEF Linking, Unlinking, At

(* The lists stay as they are. *)
LEMMA MovesKeep ==
  ASSUME LinkInv, NEW t \in Thread, call[t] # Idle,
         call' \in [Thread -> CallType], \A u \in Thread \ {t} : call'[u] = call[u],
         UNCHANGED <<callbacks_, observed_signals_, state, calls, corrupt>>,
         call'[t] = Idle \/ (call'[t].op = call[t].op /\ call'[t].o = call[t].o),
         Stage(t)', Triggering(t)', call'[t].pc # "observed",
         \A s \in Sig, o \in Obs : Linking(t, s, o) /\ Linked(s, o) => Linking(t, s, o)',
         \A s \in Sig, o \in Obs : Unlinking(t, s, o) /\ Known(s, o) => Unlinking(t, s, o)'
  PROVE  LinkInv'
<1>1. \A s \in Sig, o \in Obs : Linked(s, o)' = Linked(s, o) /\ Known(s, o)' = Known(s, o)
  BY DEF Linked, Known
<1>2. \A u \in Thread : Halfway(u)'
  BY DEF LinkInv, Halfway, Linked, At
<1>3. \A s \in Sig, o \in Obs : InStep(s, o)' /\ Forgotten(s, o)'
  <2>. SUFFICES ASSUME NEW s \in Sig, NEW o \in Obs PROVE InStep(s, o)' /\ Forgotten(s, o)'
    OBVIOUS
  <2>1. InStep(s, o) /\ Forgotten(s, o)
    BY DEF LinkInv
  <2>2. Linked(s, o)' /\ ~Known(s, o)' => \E u \in Thread : Linking(u, s, o)'
    BY <1>1, <2>1, OthersLink DEF InStep
  <2>3. Known(s, o)' /\ ~Linked(s, o)' => \E u \in Thread : Unlinking(u, s, o)'
    BY <1>1, <2>1, OthersLink DEF InStep
  <2>. QED
    BY <1>1, <2>1, <2>2, <2>3 DEF InStep, Forgotten
<1>. QED
  BY <1>2, <1>3, ChangesKeep DEF LinkInv, Types

LEMMA EnterKeeps ==
  ASSUME LinkInv, NEW t \in Thread,
         EnterSend(t) \/ EnterSignalEnd(t) \/ EnterObserverEnd(t)
  PROVE  LinkInv'
<1>1. /\ Types /\ Stage(t) /\ call[t].op \in {"send", "send_once", "~Signal", "~Observer"}
      /\ call[t].pc = "enter" /\ Goto(t, "loop") /\ call[t] # Idle
      /\ UNCHANGED <<callbacks_, observed_signals_, state, calls, corrupt>>
  BY DEF LinkInv, EnterSend, EnterSignalEnd, EnterObserverEnd, At, SendOps, Idle
<1>2. /\ call' \in [Thread -> CallType] /\ \A u \in Thread \ {t} : call'[u] = call[u]
      /\ call'[t].op = call[t].op /\ call'[t].s = call[t].s /\ call'[t].pc = "loop"
      /\ call'[t].o = call[t].o /\ call'[t].i = call[t].i
  BY <1>1, Going
<1>3. Stage(t)' /\ Triggering(t)'
  BY <1>1, <1>2 DEF Stage, Triggering, At, SendOps
<1>4. \A s \in Sig, o \in Obs : ~Linking(t, s, o) /\ ~Unlinking(t, s, o)
  BY <1>1 DEF Linking, Unlinking, At
<1>. QED
  BY <1>1, <1>2, <1>3, <1>4, MovesKeep

LEMMA TriggerKeeps ==
  ASSUME LinkInv, NEW t \in Thread, Trigger(t)
  PROVE  LinkInv'
<1>1. /\ Types /\ Stage(t) /\ call[t].op = "send" /\ call[t].pc = "loop" /\ call[t] # Idle
      /\ call' = [call EXCEPT ![t].i = @ + 1]
      /\ UNCHANGED <<callbacks_, observed_signals_, state, calls, corrupt>>
  BY DEF LinkInv, Trigger, At, Idle
<1>2. /\ call' \in [Thread -> CallType] /\ \A u \in Thread \ {t} : call'[u] = call[u]
      /\ call'[t].op = call[t].op /\ call'[t].s = call[t].s /\ call'[t].pc = "loop"
      /\ call'[t].o = call[t].o
  <2>. DEFINE r == [call[t] EXCEPT !.i = call[t].i + 1]
  <2>1. call[t] \in CallType /\ call[t].i + 1 \in Nat
    BY <1>1 DEF Types, CallType
  <2>2. r \in CallType
    BY <2>1 DEF CallType
  <2>3. call' = [call EXCEPT ![t] = r]
    BY <1>1
  <2>. QED
    BY <1>1, <2>1, <2>2, <2>3 DEF Types, CallType
<1>3. Stage(t)' /\ Triggering(t)'
  BY <1>1, <1>2 DEF Stage, Triggering, At, SendOps
<1>4. \A s \in Sig, o \in Obs : ~Linking(t, s, o) /\ ~Unlinking(t, s, o)
  BY <1>1 DEF Linking, Unlinking, At
<1>. QED
  BY <1>1, <1>2, <1>3, <1>4, MovesKeep

(* A send_once that returns leaves no connection. *)
LEMMA LeaveSendKeeps ==
  ASSUME LinkInv, NEW t \in Thread, LeaveSend(t)
  PROVE  LinkInv'
<1>1. /\ Types /\ Stage(t) /\ call[t].op \in SendOps /\ call[t] # Idle /\ Return(t)
      /\ UNCHANGED <<callbacks_, observed_signals_, state, calls, corrupt>>
      /\ call[t].op = "send_once" => callbacks_[call[t].s] = <<>>
  BY DEF LinkInv, LeaveSend, SendOps, Idle
<1>2. /\ call' \in [Thread -> CallType] /\ \A u \in Thread \ {t} : call'[u] = call[u]
      /\ call'[t] = Idle /\ call'[t].pc = "idle"
  BY <1>1, Returning DEF Idle
<1>3. Stage(t)' /\ Triggering(t)'
  BY <1>2 DEF Stage, Triggering, At, SendOps, Idle
<1>4. \A s \in Sig, o \in Obs : Linking(t, s, o) => ~Linked(s, o)
  BY <1>1 DEF Linking, At, SendOps, Linked, Contains
<1>5. \A s \in Sig, o \in Obs : ~Unlinking(t, s, o)
  BY <1>1 DEF Unlinking, At, SendOps
<1>. QED
  BY <1>1, <1>2, <1>3, <1>4, <1>5, MovesKeep

(* A step of t that changes the lists: a connection that it leaves out of    *)
(* step is one it is busy with, or one that another call is busy with; and   *)
(* it makes none to an end that is gone.                                    *)
LEMMA ListsKeep ==
  ASSUME LinkInv, NEW t \in Thread, call[t] # Idle,
         call' \in [Thread -> CallType], \A u \in Thread \ {t} : call'[u] = call[u],
         callbacks_' \in [Sig -> Seq(Obs)], observed_signals_' \in [Obs -> Seq(Sig)],
         UNCHANGED <<state, calls>>, ~corrupt',
         call'[t] = Idle \/ (call'[t].op = call[t].op /\ call'[t].o = call[t].o),
         Stage(t)', Triggering(t)', Halfway(t)',
         \A s \in Sig, o \in Obs :
           (Linked(s, o)' /\ ~Known(s, o)' =>
              Linking(t, s, o)' \/ (Linked(s, o) /\ ~Known(s, o) /\ ~Linking(t, s, o))),
         \A s \in Sig, o \in Obs :
           (Known(s, o)' /\ ~Linked(s, o)' =>
              Unlinking(t, s, o)' \/ (Known(s, o) /\ ~Linked(s, o) /\ ~Unlinking(t, s, o))),
         \A s \in Sig, o \in Obs :
           (Linked(s, o)' => Linked(s, o) \/ (state[s] # "gone" /\ state[o] # "gone")),
         \A s \in Sig, o \in Obs :
           (Known(s, o)' => Known(s, o) \/ (state[s] # "gone" /\ state[o] # "gone")),
         \A s \in Sig, o \in Obs :
           (Linked(s, o) /\ ~Linked(s, o)' => state[o] = "dying" \/ call[t].op \in Lonely)
  PROVE  LinkInv'
<1>1. \A u \in Thread \ {t} : Halfway(u)'
  <2>. SUFFICES ASSUME NEW u \in Thread \ {t} PROVE Halfway(u)'
    OBVIOUS
  <2>1. Stage(u) /\ Halfway(u) /\ call'[u] = call[u]
    BY DEF LinkInv
  <2>2. ~At(u, "disconnect", "observed")
    BY NobodyLonely DEF At, Lonely
  <2>3. At(u, "connect", "observed") => call[t].op \notin Lonely
    BY NobodyLonely DEF At, Idle
  <2>4. At(u, "connect", "observed") =>
          /\ call[u].s \in Sig /\ call[u].o \in Obs /\ state[call[u].o] = "live"
          /\ Linked(call[u].s, call[u].o)
    BY <2>1 DEF Stage, Halfway, At
  <2>5. At(u, "connect", "observed") => Linked(call[u].s, call[u].o)'
    <3>. SUFFICES ASSUME At(u, "connect", "observed") PROVE Linked(call[u].s, call[u].o)'
      OBVIOUS
    <3>. DEFINE a == call[u].s
               b == call[u].o
    <3>1. a \in Sig /\ b \in Obs /\ state[b] = "live" /\ Linked(a, b) /\ a' = a /\ b' = b
      BY <2>1, <2>4
    <3>. HIDE DEF a, b
    <3>2. Linked(a, b) /\ ~Linked(a, b)' => state[b] = "dying" \/ call[t].op \in Lonely
      BY <3>1
    <3>3. Linked(a, b)'
      BY <2>3, <3>1, <3>2
    <3>. QED
      BY <3>3 DEF a, b
  <2>. QED
    BY <2>1, <2>2, <2>5 DEF Halfway, At
<1>2. \A s \in Sig, o \in Obs : InStep(s, o)' /\ Forgotten(s, o)'
  <2>. SUFFICES ASSUME NEW s \in Sig, NEW o \in Obs PROVE InStep(s, o)' /\ Forgotten(s, o)'
    OBVIOUS
  <2>1. InStep(s, o) /\ Forgotten(s, o)
    BY DEF LinkInv
  <2>2. Linked(s, o)' /\ ~Known(s, o)' => \E u \in Thread : Linking(u, s, o)'
    BY <2>1, OthersLink, ZenonT(60) DEF InStep
  <2>3. Known(s, o)' /\ ~Linked(s, o)' => \E u \in Thread : Unlinking(u, s, o)'
    BY <2>1, OthersLink, ZenonT(60) DEF InStep
  <2>4. Forgotten(s, o)'
    BY <2>1 DEF Forgotten
  <2>. QED
    BY <2>2, <2>3, <2>4 DEF InStep
<1>. QED
  BY <1>1, <1>2, ChangesKeep

(* callbacks_ of one signal changes, as an update of the function.          *)
LEMMA CallbacksChange ==
  ASSUME Types, NEW s \in Sig, NEW list \in Seq(Obs),
         callbacks_' = [callbacks_ EXCEPT ![s] = list]
  PROVE  /\ callbacks_' \in [Sig -> Seq(Obs)]
         /\ \A o \in Obs : Linked(s, o)' <=> Contains(list, o)
         /\ \A r \in Sig, o \in Obs : r # s => (Linked(r, o)' <=> Linked(r, o))
BY DEF Types, Linked

LEMMA ObservedChange ==
  ASSUME Types, NEW o \in Obs, NEW list \in Seq(Sig),
         observed_signals_' = [observed_signals_ EXCEPT ![o] = list]
  PROVE  /\ observed_signals_' \in [Obs -> Seq(Sig)]
         /\ \A s \in Sig : Known(s, o)' <=> Contains(list, s)
         /\ \A s \in Sig, p \in Obs : p # o => (Known(s, p)' <=> Known(s, p))
BY DEF Types, Known

LEMMA ConnectCallbackKeeps ==
  ASSUME LinkInv, NEW t \in Thread, ConnectCallback(t)
  PROVE  LinkInv'
<1>0. PICK a \in Sig, b \in Obs : a = call[t].s /\ b = call[t].o
  BY DEF LinkInv, ConnectCallback, At, Stage
<1>. DEFINE list == Append(callbacks_[a], b)
<1>1. /\ Types /\ Stage(t) /\ call[t].op = "connect" /\ call[t].pc = "enter" /\ call[t] # Idle
      /\ Goto(t, "observed") /\ UNCHANGED <<observed_signals_, state, calls>>
      /\ callbacks_' = [callbacks_ EXCEPT ![a] = list]
      /\ state[a] = "live" /\ state[b] = "live"
  BY <1>0 DEF LinkInv, ConnectCallback, At, Idle, Stage
<1>2. /\ call' \in [Thread -> CallType] /\ \A u \in Thread \ {t} : call'[u] = call[u]
      /\ call'[t].op = "connect" /\ call'[t].s = a /\ call'[t].o = b
      /\ call'[t].pc = "observed"
  BY <1>0, <1>1, Going
<1>3. ~corrupt'
  BY DEF LinkInv, ConnectCallback, CanWriteCallbacks, Touch
<1>4. callbacks_[a] \in Seq(Obs)
  BY <1>1 DEF Types
<1>5. list \in Seq(Obs) /\ \A y : Contains(list, y) <=> Linked(a, y) \/ y = b
  BY <1>1, <1>4, AppendContains DEF Linked
<1>. HIDE DEF list
<1>6. /\ callbacks_' \in [Sig -> Seq(Obs)]
      /\ \A o \in Obs : Linked(a, o)' <=> Linked(a, o) \/ o = b
      /\ \A r \in Sig, o \in Obs : r # a => (Linked(r, o)' <=> Linked(r, o))
  BY <1>1, <1>5, CallbacksChange
<1>7. \A s \in Sig, o \in Obs : Known(s, o)' = Known(s, o)
  BY <1>1 DEF Known
<1>8. Stage(t)' /\ Triggering(t)' /\ Halfway(t)'
  BY <1>1, <1>2, <1>6 DEF Stage, Triggering, Halfway, At, SendOps
<1>9. \A s \in Sig, o \in Obs : ~Linking(t, s, o) /\ ~Unlinking(t, s, o)
  BY <1>1 DEF Linking, Unlinking, At
<1>10. Linking(t, a, b)'
  BY <1>2 DEF Linking, At
<1>11. observed_signals_' \in [Obs -> Seq(Sig)]
  BY <1>1 DEF Types
<1>12. call'[t].op = call[t].op /\ call'[t].o = call[t].o
  BY <1>0, <1>1, <1>2
<1>13. \A s \in Sig, o \in Obs : Linked(s, o)' => Linked(s, o) \/ (s = a /\ o = b)
  BY <1>6
<1>14. \A s \in Sig, o \in Obs : Linked(s, o) => Linked(s, o)'
  BY <1>6
<1>15. \A s \in Sig, o \in Obs :
         (Linked(s, o)' /\ ~Known(s, o)' =>
            Linking(t, s, o)' \/ (Linked(s, o) /\ ~Known(s, o) /\ ~Linking(t, s, o)))
  BY <1>7, <1>9, <1>10, <1>13
<1>16. \A s \in Sig, o \in Obs :
         (Known(s, o)' /\ ~Linked(s, o)' =>
            Unlinking(t, s, o)' \/ (Known(s, o) /\ ~Linked(s, o) /\ ~Unlinking(t, s, o)))
  BY <1>7, <1>9, <1>14
<1>17. \A s \in Sig, o \in Obs :
         (Linked(s, o)' => Linked(s, o) \/ (state[s] # "gone" /\ state[o] # "gone"))
  BY <1>1, <1>13
<1>18. /\ callbacks_' \in [Sig -> Seq(Obs)]
       /\ \A s \in Sig, o \in Obs : Known(s, o)' => Known(s, o)
  BY <1>6, <1>7
<1>. QED
  BY <1>1, <1>2, <1>3, <1>8, <1>11, <1>12, <1>14, <1>15, <1>16, <1>17, <1>18, ListsKeep

LEMMA ConnectObservedKeeps ==
  ASSUME LinkInv, NEW t \in Thread, ConnectObserved(t)
  PROVE  LinkInv'
<1>0. PICK a \in Sig, b \in Obs : a = call[t].s /\ b = call[t].o
  BY DEF LinkInv, ConnectObserved, At, Stage
<1>. DEFINE list == Append(observed_signals_[b], a)
<1>1. /\ Types /\ Stage(t) /\ call[t].op = "connect" /\ call[t].pc = "observed" /\ call[t] # Idle
      /\ Return(t) /\ UNCHANGED <<callbacks_, state, calls, corrupt>>
      /\ observed_signals_' = [observed_signals_ EXCEPT ![b] = list]
      /\ state[a] = "live" /\ state[b] = "live" /\ Linked(a, b)
  BY <1>0 DEF LinkInv, ConnectObserved, At, Idle, Stage, Halfway
<1>2. /\ call' \in [Thread -> CallType] /\ \A u \in Thread \ {t} : call'[u] = call[u]
      /\ call'[t] = Idle
  BY <1>1, Returning
<1>3. ~corrupt' /\ callbacks_' \in [Sig -> Seq(Obs)]
  BY <1>1 DEF LinkInv, Types
<1>4. observed_signals_[b] \in Seq(Sig)
  BY <1>1 DEF Types
<1>5. list \in Seq(Sig) /\ \A y : Contains(list, y) <=> Known(y, b) \/ y = a
  BY <1>1, <1>4, AppendContains DEF Known
<1>9. \A s \in Sig, o \in Obs : Linking(t, s, o) => s = a /\ o = b
  BY <1>0, <1>1 DEF Linking, At
<1>. HIDE DEF list
<1>6. /\ observed_signals_' \in [Obs -> Seq(Sig)]
      /\ \A s \in Sig : Known(s, b)' <=> Known(s, b) \/ s = a
      /\ \A s \in Sig, p \in Obs : p # b => (Known(s, p)' <=> Known(s, p))
  BY <1>1, <1>5, ObservedChange
<1>7. \A s \in Sig, o \in Obs : Linked(s, o)' = Linked(s, o)
  BY <1>1 DEF Linked
<1>8. Stage(t)' /\ Triggering(t)' /\ Halfway(t)'
  BY <1>2 DEF Stage, Triggering, Halfway, At, SendOps, Idle
<1>10. \A s \in Sig, o \in Obs : ~Unlinking(t, s, o)
  BY <1>1 DEF Unlinking, At
<1>11. \A s \in Sig, o \in Obs : Known(s, o)' => Known(s, o) \/ (s = a /\ o = b)
  BY <1>6
<1>12. \A s \in Sig, o \in Obs : Known(s, o) => Known(s, o)'
  BY <1>6
<1>13. Known(a, b)'
  BY <1>6
<1>. QED
  BY <1>1, <1>2, <1>3, <1>6, <1>7, <1>8, <1>9, <1>10, <1>11, <1>12, <1>13, ListsKeep

(* Nobody else is in a list while t is in a call that runs alone.           *)
LEMMA TouchedAlone ==
  ASSUME LinkInv, NEW t \in Thread, call[t].op \in Lonely, NEW s, Touch(t, s)
  PROVE  ~corrupt'
<1>1. call[t] # Idle
  BY DEF Lonely, Idle
<1>2. \A u \in Thread \ {t} : call[u] = Idle
  BY <1>1, NobodyLonely
<1>3. Idle.op = "none"
  BY DEF Idle
<1>. QED
  BY <1>2, <1>3 DEF LinkInv, Touch, Readers, Writers, At, SendOps

LEMMA OnceDisconnectKeeps ==
  ASSUME LinkInv, NEW t \in Thread, OnceDisconnect(t)
  PROVE  LinkInv'
<1>0. PICK a \in Sig : a = call[t].s
  BY DEF LinkInv, OnceDisconnect, At, Stage, SendOps
<1>1. /\ Types /\ Stage(t) /\ call[t].op = "send_once" /\ call[t].pc = "loop" /\ call[t] # Idle
      /\ Goto(t, "trigger") /\ UNCHANGED <<callbacks_, state, calls, corrupt>>
      /\ call[t].i = 1 /\ callbacks_[a] # <<>> /\ callbacks_[a] \in Seq(Obs)
  BY <1>0 DEF LinkInv, OnceDisconnect, At, Idle, Stage, Types
<1>2. PICK b \in Obs : b = callbacks_[a][1]
  BY <1>1, TailContains
<1>. DEFINE list == Without(observed_signals_[b], a)
<1>3. observed_signals_' = [observed_signals_ EXCEPT ![b] = list]
  BY <1>0, <1>1, <1>2 DEF OnceDisconnect, Receiver
<1>4. observed_signals_[b] \in Seq(Sig)
  BY <1>1 DEF Types
<1>5. /\ list \in Seq(Sig) /\ ~Contains(list, a)
      /\ \A y : y # a => (Contains(list, y) <=> Known(y, b))
  BY <1>4, WithoutKeeps DEF Known
<1>6. /\ call' \in [Thread -> CallType] /\ \A u \in Thread \ {t} : call'[u] = call[u]
      /\ call'[t].op = "send_once" /\ call'[t].s = a /\ call'[t].o = call[t].o
      /\ call'[t].i = 1 /\ call'[t].pc = "trigger"
  BY <1>0, <1>1, Going
<1>. HIDE DEF list
<1>7. /\ observed_signals_' \in [Obs -> Seq(Sig)] /\ ~Known(a, b)'
      /\ \A s \in Sig, o \in Obs : s # a \/ o # b => (Known(s, o)' <=> Known(s, o))
  BY <1>1, <1>3, <1>5, ObservedChange
<1>8. \A s \in Sig, o \in Obs : Linked(s, o)' <=> Linked(s, o)
  BY <1>1 DEF Linked
<1>9. Stage(t)' /\ Halfway(t)'
  BY <1>0, <1>1, <1>6 DEF Stage, Halfway, At, SendOps
<1>10. Triggering(t)'
  <2>1. callbacks_'[call'[t].s] = callbacks_[a] /\ callbacks_[a][1] = b /\ call'[t].s = a
    BY <1>1, <1>2, <1>6
  <2>. QED
    BY <1>1, <1>7, <2>1 DEF Triggering, Known
<1>11. \A s \in Sig, o \in Obs : (Linking(t, s, o) => s = a) /\ ~Unlinking(t, s, o)
  BY <1>0, <1>1 DEF Linking, Unlinking, At
<1>12. \A o \in Obs : Linking(t, a, o)'
  BY <1>6 DEF Linking, At
<1>13. \A s \in Sig, o \in Obs :
         (Linked(s, o)' /\ ~Known(s, o)' =>
            Linking(t, s, o)' \/ (Linked(s, o) /\ ~Known(s, o) /\ ~Linking(t, s, o)))
  BY <1>7, <1>8, <1>11, <1>12
<1>14. \A s \in Sig, o \in Obs :
         (Known(s, o)' /\ ~Linked(s, o)' =>
            Unlinking(t, s, o)' \/ (Known(s, o) /\ ~Linked(s, o) /\ ~Unlinking(t, s, o)))
  BY <1>7, <1>8, <1>11
<1>15. callbacks_' \in [Sig -> Seq(Obs)] /\ ~corrupt' /\ call'[t].op = call[t].op
  BY <1>1, <1>6 DEF LinkInv, Types
<1>16. \A s \in Sig, o \in Obs :
         (Linked(s, o)' => Linked(s, o)) /\ (Linked(s, o) => Linked(s, o)')
         /\ (Known(s, o)' => Known(s, o))
  BY <1>7, <1>8
<1>. QED
  BY <1>1, <1>6, <1>7, <1>9, <1>10, <1>13, <1>14, <1>15, <1>16, ListsKeep

LEMMA OnceTriggerKeeps ==
  ASSUME LinkInv, NEW t \in Thread, OnceTrigger(t)
  PROVE  LinkInv'
<1>0. PICK a \in Sig : a = call[t].s
  BY DEF LinkInv, OnceTrigger, At, Stage, SendOps
<1>1. /\ Types /\ Stage(t) /\ call[t].op = "send_once" /\ call[t].pc = "trigger" /\ call[t] # Idle
      /\ Goto(t, "loop") /\ UNCHANGED <<observed_signals_, state, calls>>
      /\ callbacks_[a] # <<>> /\ callbacks_[a] \in Seq(Obs) /\ Touch(t, a)
      /\ ~Known(a, callbacks_[a][1])
  BY <1>0 DEF LinkInv, OnceTrigger, At, Idle, Stage, Types, Triggering
<1>2. PICK b \in Obs : b = callbacks_[a][1]
  BY <1>1, TailContains
<1>. DEFINE list == Tail(callbacks_[a])
<1>3. callbacks_' = [callbacks_ EXCEPT ![a] = list]
  BY <1>0, <1>1 DEF OnceTrigger
<1>5. /\ list \in Seq(Obs)
      /\ \A y : Contains(list, y) => Linked(a, y)
      /\ \A y : Linked(a, y) => Contains(list, y) \/ y = b
  BY <1>1, <1>2, TailContains DEF Linked
<1>6. /\ call' \in [Thread -> CallType] /\ \A u \in Thread \ {t} : call'[u] = call[u]
      /\ call'[t].op = "send_once" /\ call'[t].s = a /\ call'[t].o = call[t].o
      /\ call'[t].i = call[t].i /\ call'[t].pc = "loop"
  BY <1>0, <1>1, Going
<1>. HIDE DEF list
<1>7. /\ callbacks_' \in [Sig -> Seq(Obs)]
      /\ \A s \in Sig, o \in Obs : Linked(s, o)' => Linked(s, o)
      /\ \A s \in Sig, o \in Obs : Linked(s, o) => Linked(s, o)' \/ (s = a /\ o = b)
  BY <1>1, <1>3, <1>5, CallbacksChange
<1>8. \A s \in Sig, o \in Obs : Known(s, o)' <=> Known(s, o)
  BY <1>1 DEF Known
<1>9. Stage(t)' /\ Halfway(t)' /\ Triggering(t)'
  BY <1>0, <1>1, <1>6 DEF Stage, Halfway, Triggering, At, SendOps
<1>11. \A s \in Sig, o \in Obs : (Linking(t, s, o) => s = a) /\ ~Unlinking(t, s, o)
  BY <1>0, <1>1 DEF Linking, Unlinking, At
<1>12. \A o \in Obs : Linking(t, a, o)'
  BY <1>6 DEF Linking, At
<1>13. \A s \in Sig, o \in Obs :
         (Linked(s, o)' /\ ~Known(s, o)' =>
            Linking(t, s, o)' \/ (Linked(s, o) /\ ~Known(s, o) /\ ~Linking(t, s, o)))
  BY <1>7, <1>8, <1>11, <1>12
<1>14. \A s \in Sig, o \in Obs :
         (Known(s, o)' /\ ~Linked(s, o)' =>
            Unlinking(t, s, o)' \/ (Known(s, o) /\ ~Linked(s, o) /\ ~Unlinking(t, s, o)))
  BY <1>1, <1>2, <1>7, <1>8, <1>11
<1>15. /\ observed_signals_' \in [Obs -> Seq(Sig)] /\ ~corrupt' /\ call'[t].op = call[t].op
       /\ call[t].op \in Lonely
  BY <1>1, <1>6, TouchedAlone DEF Types, Lonely
<1>16. \A s \in Sig, o \in Obs : Known(s, o)' => Known(s, o)
  BY <1>8
<1>. QED
  BY <1>1, <1>6, <1>7, <1>9, <1>13, <1>14, <1>15, <1>16, ListsKeep

LEMMA DisconnectCallbacksKeeps ==
  ASSUME LinkInv, NEW t \in Thread, DisconnectCallbacks(t)
  PROVE  LinkInv'
<1>0. PICK a \in Sig, b \in Obs : a = call[t].s /\ b = call[t].o
  BY DEF LinkInv, DisconnectCallbacks, At, Stage
<1>. DEFINE list == Without(callbacks_[a], b)
<1>1. /\ Types /\ Stage(t) /\ call[t].op = "disconnect" /\ call[t].pc = "enter" /\ call[t] # Idle
      /\ Goto(t, "observed") /\ UNCHANGED <<observed_signals_, state, calls>>
      /\ callbacks_' = [callbacks_ EXCEPT ![a] = list] /\ Touch(t, a)
  BY <1>0 DEF LinkInv, DisconnectCallbacks, At, Idle
<1>4. callbacks_[a] \in Seq(Obs)
  BY <1>1 DEF Types
<1>5. /\ list \in Seq(Obs) /\ ~Contains(list, b)
      /\ \A y : y # b => (Contains(list, y) <=> Linked(a, y))
  BY <1>4, WithoutKeeps DEF Linked
<1>6. /\ call' \in [Thread -> CallType] /\ \A u \in Thread \ {t} : call'[u] = call[u]
      /\ call'[t].op = "disconnect" /\ call'[t].s = a /\ call'[t].o = b
      /\ call'[t].pc = "observed"
  BY <1>0, <1>1, Going
<1>. HIDE DEF list
<1>7. /\ callbacks_' \in [Sig -> Seq(Obs)] /\ ~Linked(a, b)'
      /\ \A s \in Sig, o \in Obs : s # a \/ o # b => (Linked(s, o)' <=> Linked(s, o))
  BY <1>1, <1>5, CallbacksChange
<1>8. \A s \in Sig, o \in Obs : Known(s, o)' <=> Known(s, o)
  BY <1>1 DEF Known
<1>9. Stage(t)' /\ Halfway(t)' /\ Triggering(t)'
  <2>1. ~Linked(call[t].s, call[t].o)'
    BY <1>6, <1>7
  <2>. QED
    BY <1>0, <1>1, <1>6, <2>1 DEF Stage, Halfway, Triggering, At, SendOps
<1>11. \A s \in Sig, o \in Obs : ~Linking(t, s, o) /\ ~Unlinking(t, s, o)
  BY <1>1 DEF Linking, Unlinking, At
<1>12. Unlinking(t, a, b)'
  BY <1>6 DEF Unlinking, At
<1>13. \A s \in Sig, o \in Obs :
         (Linked(s, o)' /\ ~Known(s, o)' =>
            Linking(t, s, o)' \/ (Linked(s, o) /\ ~Known(s, o) /\ ~Linking(t, s, o)))
  BY <1>7, <1>8, <1>11
<1>14. \A s \in Sig, o \in Obs :
         (Known(s, o)' /\ ~Linked(s, o)' =>
            Unlinking(t, s, o)' \/ (Known(s, o) /\ ~Linked(s, o) /\ ~Unlinking(t, s, o)))
  BY <1>7, <1>8, <1>11, <1>12
<1>15. /\ observed_signals_' \in [Obs -> Seq(Sig)] /\ ~corrupt'
       /\ call'[t].op = call[t].op /\ call'[t].o = call[t].o /\ call[t].op \in Lonely
  BY <1>0, <1>1, <1>6, TouchedAlone DEF Types, Lonely
<1>16. \A s \in Sig, o \in Obs : (Known(s, o)' => Known(s, o)) /\ (Linked(s, o)' => Linked(s, o))
  BY <1>7, <1>8
<1>. QED
  BY <1>1, <1>6, <1>7, <1>9, <1>13, <1>14, <1>15, <1>16, ListsKeep

LEMMA DisconnectObservedKeeps ==
  ASSUME LinkInv, NEW t \in Thread, DisconnectObserved(t)
  PROVE  LinkInv'
<1>0. PICK a \in Sig, b \in Obs : a = call[t].s /\ b = call[t].o
  BY DEF LinkInv, DisconnectObserved, At, Stage
<1>. DEFINE list == Without(observed_signals_[b], a)
<1>1. /\ Types /\ call[t].op = "disconnect" /\ call[t].pc = "observed" /\ call[t] # Idle
      /\ Return(t) /\ UNCHANGED <<callbacks_, state, calls, corrupt>>
      /\ observed_signals_' = [observed_signals_ EXCEPT ![b] = list]
      /\ ~Linked(a, b)
  BY <1>0 DEF LinkInv, DisconnectObserved, At, Idle, Halfway
<1>4. observed_signals_[b] \in Seq(Sig)
  BY <1>1 DEF Types
<1>5. /\ list \in Seq(Sig) /\ ~Contains(list, a)
      /\ \A y : y # a => (Contains(list, y) <=> Known(y, b))
  BY <1>4, WithoutKeeps DEF Known
<1>6. /\ call' \in [Thread -> CallType] /\ \A u \in Thread \ {t} : call'[u] = call[u]
      /\ call'[t] = Idle
  BY <1>1, Returning
<1>. HIDE DEF list
<1>7. /\ observed_signals_' \in [Obs -> Seq(Sig)] /\ ~Known(a, b)'
      /\ \A s \in Sig, o \in Obs : s # a \/ o # b => (Known(s, o)' <=> Known(s, o))
  BY <1>1, <1>5, ObservedChange
<1>8. \A s \in Sig, o \in Obs : Linked(s, o)' <=> Linked(s, o)
  BY <1>1 DEF Linked
<1>9. Stage(t)' /\ Halfway(t)' /\ Triggering(t)'
  BY <1>6 DEF Stage, Halfway, Triggering, At, SendOps, Idle
<1>11. \A s \in Sig, o \in Obs : ~Linking(t, s, o) /\ (Unlinking(t, s, o) => s = a /\ o = b)
  BY <1>0, <1>1 DEF Linking, Unlinking, At
<1>13. \A s \in Sig, o \in Obs :
         (Linked(s, o)' /\ ~Known(s, o)' =>
            Linking(t, s, o)' \/ (Linked(s, o) /\ ~Known(s, o) /\ ~Linking(t, s, o)))
  BY <1>1, <1>7, <1>8, <1>11
<1>14. \A s \in Sig, o \in Obs :
         (Known(s, o)' /\ ~Linked(s, o)' =>
            Unlinking(t, s, o)' \/ (Known(s, o) /\ ~Linked(s, o) /\ ~Unlinking(t, s, o)))
  BY <1>7, <1>8, <1>11
<1>15. callbacks_' \in [Sig -> Seq(Obs)] /\ ~corrupt'
  BY <1>1 DEF LinkInv, Types
<1>16. \A s \in Sig, o \in Obs :
         (Linked(s, o)' => Linked(s, o)) /\ (Linked(s, o) => Linked(s, o)')
         /\ (Known(s, o)' => Known(s, o))
  BY <1>7, <1>8
<1>. QED
  BY <1>1, <1>6, <1>7, <1>9, <1>13, <1>14, <1>15, <1>16, ListsKeep

LEMMA SignalEndTurnKeeps ==
  ASSUME LinkInv, NEW t \in Thread, SignalEndTurn(t)
  PROVE  LinkInv'
<1>0. PICK a \in Sig : a = call[t].s
  BY DEF LinkInv, SignalEndTurn, At, Stage
<1>1. /\ Types /\ Stage(t) /\ call[t].op = "~Signal" /\ call[t].pc = "loop" /\ call[t] # Idle
      /\ UNCHANGED <<call, state, calls>> /\ Touch(t, a)
      /\ callbacks_[a] # <<>> /\ callbacks_[a] \in Seq(Obs)
  BY <1>0 DEF LinkInv, SignalEndTurn, At, Idle, Types
<1>2. PICK b \in Obs : b = callbacks_[a][1] /\ b = Head(callbacks_[a])
  BY <1>1, TailContains
<1>. DEFINE left == Tail(callbacks_[a])
            list == Without(observed_signals_[b], a)
<1>3. /\ observed_signals_' = [observed_signals_ EXCEPT ![b] = list]
      /\ callbacks_' = [callbacks_ EXCEPT ![a] = left]
  BY <1>0, <1>2 DEF SignalEndTurn
<1>4. observed_signals_[b] \in Seq(Sig)
  BY <1>1 DEF Types
<1>5. /\ list \in Seq(Sig) /\ ~Contains(list, a)
      /\ \A y : y # a => (Contains(list, y) <=> Known(y, b))
  BY <1>4, WithoutKeeps DEF Known
<1>6. /\ left \in Seq(Obs)
      /\ \A y : Contains(left, y) => Linked(a, y)
      /\ \A y : Linked(a, y) => Contains(left, y) \/ y = b
  BY <1>1, <1>2, TailContains DEF Linked
<1>. HIDE DEF left, list
<1>7. /\ observed_signals_' \in [Obs -> Seq(Sig)] /\ ~Known(a, b)'
      /\ \A s \in Sig, o \in Obs : s # a \/ o # b => (Known(s, o)' <=> Known(s, o))
  BY <1>1, <1>3, <1>5, ObservedChange
<1>8. /\ callbacks_' \in [Sig -> Seq(Obs)]
      /\ \A s \in Sig, o \in Obs : Linked(s, o)' => Linked(s, o)
      /\ \A s \in Sig, o \in Obs : Linked(s, o) => Linked(s, o)' \/ (s = a /\ o = b)
  BY <1>1, <1>3, <1>6, CallbacksChange
<1>9. Stage(t)' /\ Halfway(t)' /\ Triggering(t)'
  BY <1>1 DEF Stage, Halfway, Triggering, At, SendOps
<1>11. \A s \in Sig, o \in Obs : (Linking(t, s, o) => s = a) /\ ~Unlinking(t, s, o)
  BY <1>0, <1>1 DEF Linking, Unlinking, At
<1>12. \A o \in Obs : Linking(t, a, o)'
  BY <1>0, <1>1 DEF Linking, At
<1>13. \A s \in Sig, o \in Obs :
         (Linked(s, o)' /\ ~Known(s, o)' =>
            Linking(t, s, o)' \/ (Linked(s, o) /\ ~Known(s, o) /\ ~Linking(t, s, o)))
  BY <1>7, <1>8, <1>11, <1>12
<1>14. \A s \in Sig, o \in Obs :
         (Known(s, o)' /\ ~Linked(s, o)' =>
            Unlinking(t, s, o)' \/ (Known(s, o) /\ ~Linked(s, o) /\ ~Unlinking(t, s, o)))
  BY <1>7, <1>8, <1>11
<1>15. ~corrupt' /\ call[t].op \in Lonely /\ call' \in [Thread -> CallType]
  BY <1>1, TouchedAlone DEF Types, Lonely
<1>16. \A s \in Sig, o \in Obs : Known(s, o)' => Known(s, o)
  BY <1>7
<1>. QED
  BY <1>1, <1>7, <1>8, <1>9, <1>13, <1>14, <1>15, <1>16, ListsKeep

LEMMA ObserverEndTurnKeeps ==
  ASSUME LinkInv, NEW t \in Thread, ObserverEndTurn(t)
  PROVE  LinkInv'
<1>0. PICK b \in Obs : b = call[t].o
  BY DEF LinkInv, ObserverEndTurn, At, Stage
<1>1. /\ Types /\ Stage(t) /\ call[t].op = "~Observer" /\ call[t].pc = "loop" /\ call[t] # Idle
      /\ UNCHANGED <<call, state, calls>> /\ state[b] = "dying"
      /\ observed_signals_[b] # <<>> /\ observed_signals_[b] \in Seq(Sig)
  BY <1>0 DEF LinkInv, ObserverEndTurn, At, Idle, Types, Stage
<1>2. PICK a \in Sig : a = observed_signals_[b][1] /\ a = Head(observed_signals_[b])
  BY <1>1, TailContains
<1>. DEFINE left == Tail(observed_signals_[b])
            list == Without(callbacks_[a], b)
<1>3. /\ callbacks_' = [callbacks_ EXCEPT ![a] = list]
      /\ observed_signals_' = [observed_signals_ EXCEPT ![b] = left]
      /\ CanWriteCallbacks(a) /\ Touch(t, a)
  BY <1>0, <1>2 DEF ObserverEndTurn
<1>4. callbacks_[a] \in Seq(Obs)
  BY <1>1 DEF Types
<1>5. /\ list \in Seq(Obs) /\ ~Contains(list, b)
      /\ \A y : y # b => (Contains(list, y) <=> Linked(a, y))
  BY <1>4, WithoutKeeps DEF Linked
<1>6. /\ left \in Seq(Sig)
      /\ \A y : Contains(left, y) => Known(y, b)
      /\ \A y : Known(y, b) => Contains(left, y) \/ y = a
  BY <1>1, <1>2, TailContains DEF Known
<1>. HIDE DEF left, list
<1>7. /\ callbacks_' \in [Sig -> Seq(Obs)] /\ ~Linked(a, b)'
      /\ \A s \in Sig, o \in Obs : s # a \/ o # b => (Linked(s, o)' <=> Linked(s, o))
  BY <1>1, <1>3, <1>5, CallbacksChange
<1>8. /\ observed_signals_' \in [Obs -> Seq(Sig)]
      /\ \A s \in Sig, o \in Obs : Known(s, o)' => Known(s, o)
      /\ \A s \in Sig, o \in Obs : Known(s, o) => Known(s, o)' \/ (s = a /\ o = b)
  BY <1>1, <1>3, <1>6, ObservedChange
<1>9. Stage(t)' /\ Halfway(t)' /\ Triggering(t)'
  BY <1>1 DEF Stage, Halfway, Triggering, At, SendOps
<1>11. \A s \in Sig, o \in Obs : (Unlinking(t, s, o) => o = b) /\ ~Linking(t, s, o)
  BY <1>0, <1>1 DEF Linking, Unlinking, At
<1>12. \A s \in Sig : Unlinking(t, s, b)'
  BY <1>0, <1>1 DEF Unlinking, At
<1>13. \A s \in Sig, o \in Obs :
         (Linked(s, o)' /\ ~Known(s, o)' =>
            Linking(t, s, o)' \/ (Linked(s, o) /\ ~Known(s, o) /\ ~Linking(t, s, o)))
  BY <1>7, <1>8, <1>11
<1>14. \A s \in Sig, o \in Obs :
         (Known(s, o)' /\ ~Linked(s, o)' =>
            Unlinking(t, s, o)' \/ (Known(s, o) /\ ~Linked(s, o) /\ ~Unlinking(t, s, o)))
  BY <1>7, <1>8, <1>11, <1>12
<1>15. ~corrupt' /\ call' \in [Thread -> CallType]
  BY <1>1, <1>3 DEF LinkInv, Types, CanWriteCallbacks, Touch
<1>16. \A s \in Sig, o \in Obs :
         (Linked(s, o)' => Linked(s, o)) /\ (Linked(s, o) /\ ~Linked(s, o)' => state[o] = "dying")
  BY <1>1, <1>7
<1>. QED
  BY <1>1, <1>7, <1>8, <1>9, <1>13, <1>14, <1>15, <1>16, ListsKeep

(* A destructor that returns leaves nothing of its end behind.              *)
LEMMA GoneKeeps ==
  ASSUME LinkInv, NEW t \in Thread, call[t] # Idle, Return(t), NEW x,
         state' = [state EXCEPT ![x] = "gone"],
         UNCHANGED <<callbacks_, observed_signals_, calls, corrupt>>,
         \A u \in Thread \ {t} : call[u].s # x /\ call[u].o # x,
         \A s \in Sig, o \in Obs : s = x \/ o = x => ~Linked(s, o) /\ ~Known(s, o),
         \A s \in Sig, o \in Obs : Linking(t, s, o) => ~Linked(s, o),
         \A s \in Sig, o \in Obs : Unlinking(t, s, o) => ~Known(s, o)
  PROVE  LinkInv'
<1>1. /\ call' \in [Thread -> CallType] /\ \A u \in Thread \ {t} : call'[u] = call[u]
      /\ call'[t] = Idle
  BY Returning DEF LinkInv
<1>2. Types' /\ Apart'
  BY <1>1, StaysApart DEF LinkInv, Types
<1>3. \A u \in Thread : Stage(u)' /\ Triggering(u)' /\ Halfway(u)'
  <2>1. Stage(t)' /\ Triggering(t)' /\ Halfway(t)'
    BY <1>1 DEF Stage, Triggering, Halfway, At, SendOps, Idle
  <2>2. \A u \in Thread \ {t} : Triggering(u)' /\ Halfway(u)'
    BY <1>1 DEF LinkInv, Triggering, Halfway, At, Linked, Known
  <2>3. \A u \in Thread \ {t} : Stage(u)'
    <3>. SUFFICES ASSUME NEW u \in Thread \ {t} PROVE Stage(u)'
      OBVIOUS
    <3>1. Stage(u) /\ call'[u] = call[u]
      BY <1>1 DEF LinkInv
    <3>2. state'[call[u].s] = state[call[u].s] \/ call[u].s \notin Sig
      BY DEF LinkInv, Types
    <3>3. state'[call[u].o] = state[call[u].o] \/ call[u].o \notin Obs
      BY DEF LinkInv, Types
    <3>. QED
      BY <3>1, <3>2, <3>3 DEF Stage
  <2>. QED
    BY <2>1, <2>2, <2>3
<1>4. \A s \in Sig, o \in Obs : InStep(s, o)' /\ Forgotten(s, o)'
  <2>. SUFFICES ASSUME NEW s \in Sig, NEW o \in Obs PROVE InStep(s, o)' /\ Forgotten(s, o)'
    OBVIOUS
  <2>1. InStep(s, o) /\ Forgotten(s, o) /\ (Linked(s, o)' <=> Linked(s, o))
        /\ (Known(s, o)' <=> Known(s, o))
    BY DEF LinkInv, Linked, Known
  <2>2. Forgotten(s, o)'
    <3>1. (s # x => state'[s] = state[s]) /\ (o # x => state'[o] = state[o])
      BY DEF LinkInv, Types
    <3>. QED
      BY <2>1, <3>1 DEF Forgotten
  <2>3. InStep(s, o)'
    BY <1>1, <2>1, OthersLink DEF InStep
  <2>. QED
    BY <2>2, <2>3
<1>. QED
  BY <1>2, <1>3, <1>4 DEF LinkInv

LEMMA LeaveSignalEndKeeps ==
  ASSUME LinkInv, NEW t \in Thread, LeaveSignalEnd(t)
  PROVE  LinkInv'
<1>0. PICK a \in Sig : a = call[t].s
  BY DEF LinkInv, LeaveSignalEnd, At, Stage
<1>1. /\ call[t].op = "~Signal" /\ call[t].pc = "loop" /\ call[t] # Idle /\ Return(t)
      /\ state' = [state EXCEPT ![a] = "gone"] /\ callbacks_[a] = <<>>
      /\ UNCHANGED <<callbacks_, observed_signals_, calls, corrupt>>
  BY <1>0 DEF LeaveSignalEnd, At, Idle
<1>2. \A u \in Thread \ {t} : call[u] = Idle
  BY <1>1, NobodyLonely DEF Lonely
<1>3. Idle.op = "none" /\ Idle.s = None /\ Idle.o = None /\ a # None
  BY CallsAssumption DEF Idle
<1>4. \A o \in Obs : ~Linked(a, o) /\ a # o
  BY <1>1, CallsAssumption DEF Linked, Contains
<1>5. \A s \in Sig, o \in Obs :
        (Linking(t, s, o) => s = a) /\ \A u \in Thread : ~Unlinking(u, s, o)
  BY <1>0, <1>1, <1>2, <1>3 DEF Linking, Unlinking, At
<1>6. \A o \in Obs : ~Known(a, o)
  BY <1>4, <1>5 DEF LinkInv, InStep
<1>7. \A s \in Sig, o \in Obs : s = a \/ o = a => ~Linked(s, o) /\ ~Known(s, o)
  BY <1>4, <1>6
<1>8. \A s \in Sig, o \in Obs :
        (Linking(t, s, o) => ~Linked(s, o)) /\ (Unlinking(t, s, o) => ~Known(s, o))
  BY <1>4, <1>5
<1>9. \A u \in Thread \ {t} : call[u].s # a /\ call[u].o # a
  BY <1>2, <1>3
<1>. QED
  BY <1>1, <1>7, <1>8, <1>9, GoneKeeps

LEMMA LeaveObserverEndKeeps ==
  ASSUME LinkInv, NEW t \in Thread, LeaveObserverEnd(t)
  PROVE  LinkInv'
<1>0. PICK b \in Obs : b = call[t].o
  BY DEF LinkInv, LeaveObserverEnd, At, Stage
<1>1. /\ call[t].op = "~Observer" /\ call[t].pc = "loop" /\ call[t] # Idle /\ Return(t)
      /\ state' = [state EXCEPT ![b] = "gone"] /\ observed_signals_[b] = <<>>
      /\ UNCHANGED <<callbacks_, observed_signals_, calls, corrupt>>
      /\ state[b] = "dying"
  BY <1>0 DEF LinkInv, LeaveObserverEnd, At, Idle, Stage
<1>2. \A u \in Thread \ {t} : call[u].s # b /\ call[u].o # b
  <2>. SUFFICES ASSUME NEW u \in Thread \ {t} PROVE call[u].s # b /\ call[u].o # b
    OBVIOUS
  <2>1. Stage(u) /\ call[u] \in CallType
    BY DEF LinkInv, Types
  <2>2. call[u].op = "~Observer" => call[u].o # b
    BY <1>0, <1>1 DEF LinkInv, Apart
  <2>3. Idle.o = None /\ b # None /\ b \notin Sig
    BY CallsAssumption DEF Idle
  <2>4. call[u].s # b
    BY <2>1, <2>3 DEF CallType
  <2>5. call[u].op \in Ops \cup {"none"}
    BY <2>1 DEF CallType
  <2>6. CASE call[u].op \in {"connect", "disconnect"}
    BY <1>1, <2>1, <2>4, <2>6 DEF Stage
  <2>7. CASE call[u].op \in SendOps \cup {"~Signal", "none"}
    BY <2>1, <2>3, <2>4, <2>7 DEF Stage, SendOps
  <2>. QED
    BY <2>2, <2>4, <2>5, <2>6, <2>7 DEF Ops, SendOps
<1>3. \A s \in Sig, o \in Obs : ~Linking(t, s, o) /\ (Unlinking(t, s, o) => o = b)
  BY <1>0, <1>1 DEF Linking, Unlinking, At
<1>4. \A s \in Sig : ~Known(s, b) /\ s # b
  BY <1>1, CallsAssumption DEF Known, Contains
<1>5. \A s \in Sig : \A u \in Thread \ {t} : ~Linking(u, s, b)
  BY <1>1, <1>2, NobodyLonely DEF Linking, At, Lonely
<1>6. \A s \in Sig : ~Linked(s, b)
  BY <1>3, <1>4, <1>5 DEF LinkInv, InStep
<1>7. \A s \in Sig, o \in Obs : s = b \/ o = b => ~Linked(s, o) /\ ~Known(s, o)
  BY <1>4, <1>6
<1>8. \A s \in Sig, o \in Obs :
        (Linking(t, s, o) => ~Linked(s, o)) /\ (Unlinking(t, s, o) => ~Known(s, o))
  BY <1>3, <1>4
<1>. QED
  BY <1>1, <1>2, <1>7, <1>8, GoneKeeps

LEMMA BeginKeeps ==
  ASSUME Lonely \subseteq Alone, LinkInv,
         NEW t \in Thread, NEW op \in Ops, NEW s \in Sig \cup {None}, NEW o \in Obs \cup {None},
         Begin(t, op, s, o)
  PROVE  LinkInv'
<1>. DEFINE new == [op |-> op, pc |-> "enter", s |-> s, o |-> o, i |-> 1]
<1>1. /\ call' = [call EXCEPT ![t] = new] /\ call[t] = Idle /\ MayOverlap(op)
      /\ calls < MaxCalls /\ calls' = calls + 1
      /\ UNCHANGED <<callbacks_, observed_signals_, corrupt>>
      /\ Types /\ Apart
  BY DEF Begin, LinkInv
<1>2. new \in CallType /\ new.op = op /\ new.pc = "enter" /\ new.s = s /\ new.o = o /\ new.i = 1
  BY DEF CallType
<1>. HIDE DEF new
<1>3. /\ call' \in [Thread -> CallType] /\ call'[t] = new
      /\ \A u \in Thread \ {t} : call'[u] = call[u]
  BY <1>1, <1>2 DEF Types
<1>4. /\ state' \in [Sig \cup Obs -> {"live", "dying", "gone"}]
      /\ \A x \in Sig \cup Obs : state'[x] = "gone" <=> state[x] = "gone"
      /\ \A x \in Sig \cup Obs : state'[x] # state[x] =>
           \/ op = "~Signal" /\ x = s /\ ~Named(s)
           \/ op = "~Observer" /\ x = o /\ ~Named(o)
      /\ op = "~Signal" => state'[s] = "dying"
      /\ op = "~Observer" => state'[o] = "dying"
  <2>1. CASE op = "~Signal"
    <3>1. /\ s \in Sig /\ ~Named(s) /\ state[s] = "live"
          /\ state' = [state EXCEPT ![s] = "dying"]
      BY <2>1 DEF Begin, NamesSignal
    <3>. QED
      BY <1>1, <2>1, <3>1 DEF Types
  <2>2. CASE op = "~Observer"
    <3>1. /\ o \in Obs /\ ~Named(o) /\ state[o] = "live"
          /\ state' = [state EXCEPT ![o] = "dying"]
      BY <2>2 DEF Begin, NamesObserver
    <3>. QED
      BY <1>1, <2>2, <3>1 DEF Types
  <2>3. CASE op \notin {"~Signal", "~Observer"}
    <3>1. state' = state
      BY <2>3 DEF Begin
    <3>. QED
      BY <1>1, <2>3, <3>1 DEF Types
  <2>. QED
    BY <2>1, <2>2, <2>3
<1>5. Types'
  BY <1>1, <1>3, <1>4, CallsAssumption DEF Types
<1>6. Apart'
  <2>1. Idle.op = "none"
    BY DEF Idle
  <2>2. op \in Lonely => \A u \in Thread : call[u] = Idle
    BY <1>1 DEF MayOverlap
  <2>3. \A u \in Thread : call[u].op \notin Lonely \/ call[u] = Idle
    BY <1>1 DEF MayOverlap
  <2>4. \A u \in Thread : call[u].op \notin Lonely
    BY <2>1, <2>3 DEF Lonely
  <2>5. op = "~Observer" => \A u \in Thread : call[u].o # o
    BY DEF Begin, Named
  <2>. QED
    BY <1>1, <1>2, <1>3, <2>1, <2>2, <2>4, <2>5 DEF Apart
<1>7. \A u \in Thread : Stage(u)'
  <2>1. Stage(t)'
    BY <1>2, <1>3, <1>4 DEF Stage, Begin, NamesSignal, NamesObserver, SendOps, Ops
  <2>2. ASSUME NEW u \in Thread \ {t} PROVE Stage(u)'
    <3>1. Stage(u) /\ call'[u] = call[u]
      BY <1>3 DEF LinkInv
    <3>2. call[u].s \in Sig => state'[call[u].s] = state[call[u].s]
      BY <1>4 DEF Named
    <3>3. call[u].o \in Obs => state'[call[u].o] = state[call[u].o]
      BY <1>4 DEF Named
    <3>. QED
      BY <3>1, <3>2, <3>3 DEF Stage
  <2>. QED
    BY <2>1, <2>2
<1>8. \A u \in Thread : Triggering(u)' /\ Halfway(u)'
  BY <1>1, <1>2, <1>3 DEF LinkInv, Triggering, Halfway, At, Linked, Known
<1>9. \A x \in Sig, y \in Obs : InStep(x, y)' /\ Forgotten(x, y)'
  <2>. SUFFICES ASSUME NEW x \in Sig, NEW y \in Obs PROVE InStep(x, y)' /\ Forgotten(x, y)'
    OBVIOUS
  <2>1. InStep(x, y) /\ Forgotten(x, y) /\ (Linked(x, y)' <=> Linked(x, y))
        /\ (Known(x, y)' <=> Known(x, y))
    BY <1>1 DEF LinkInv, Linked, Known
  <2>2. ~Linking(t, x, y) /\ ~Unlinking(t, x, y)
    BY <1>1 DEF Linking, Unlinking, At, Idle
  <2>. QED
    BY <1>3, <1>4, <2>1, <2>2, OthersLink DEF InStep, Forgotten
<1>. QED
  BY <1>1, <1>5, <1>6, <1>7, <1>8, <1>9 DEF LinkInv

-----------------------------------------------------------------------------
(* The invariant *)

LEMMA LinkInit ==
  ASSUME Init
  PROVE  LinkInv
<1>1. Idle \in CallType /\ Idle.op = "none" /\ Idle.pc = "idle"
  BY DEF Idle, CallType
<1>2. Types
  BY <1>1, CallsAssumption DEF Init, Types
<1>3. Apart /\ ~corrupt /\ \A t \in Thread : call[t] = Idle
  BY <1>1 DEF Init, Apart, Lonely
<1>4. \A t \in Thread : Stage(t) /\ Triggering(t) /\ Halfway(t)
  BY <1>1, <1>3 DEF Stage, Triggering, Halfway, At, SendOps
<1>5. \A s \in Sig, o \in Obs : ~Linked(s, o) /\ ~Known(s, o)
  BY DEF Init, Linked, Known, Contains
<1>. QED
  BY <1>2, <1>3, <1>4, <1>5 DEF LinkInv, InStep, Forgotten

LEMMA LinkNext ==
  ASSUME Lonely \subseteq Alone, LinkInv, [Next]_vars
  PROVE  LinkInv'
<1>1. CASE UNCHANGED vars
  BY <1>1 DEF vars, LinkInv, Types, Apart, Stage, Triggering, Halfway, InStep, Forgotten,
              Linking, Unlinking, Linked, Known, At
<1>2. ASSUME NEW t \in Thread, NEW op \in Ops, NEW s \in Sig \cup {None},
             NEW o \in Obs \cup {None}, Begin(t, op, s, o)
      PROVE  LinkInv'
  BY <1>2, BeginKeeps
<1>3. ASSUME NEW t \in Thread, Step(t) PROVE LinkInv'
  <2>1. CASE ConnectCallback(t)
    BY <2>1, ConnectCallbackKeeps
  <2>2. CASE ConnectObserved(t)
    BY <2>2, ConnectObservedKeeps
  <2>3. CASE EnterSend(t) \/ EnterSignalEnd(t) \/ EnterObserverEnd(t)
    BY <2>3, EnterKeeps
  <2>4. CASE Trigger(t)
    BY <2>4, TriggerKeeps
  <2>5. CASE OnceDisconnect(t)
    BY <2>5, OnceDisconnectKeeps
  <2>6. CASE OnceTrigger(t)
    BY <2>6, OnceTriggerKeeps
  <2>7. CASE LeaveSend(t)
    BY <2>7, LeaveSendKeeps
  <2>8. CASE DisconnectCallbacks(t)
    BY <2>8, DisconnectCallbacksKeeps
  <2>9. CASE DisconnectObserved(t)
    BY <2>9, DisconnectObservedKeeps
  <2>10. CASE SignalEndTurn(t)
    BY <2>10, SignalEndTurnKeeps
  <2>11. CASE LeaveSignalEnd(t)
    BY <2>11, LeaveSignalEndKeeps
  <2>12. CASE ObserverEndTurn(t)
    BY <2>12, ObserverEndTurnKeeps
  <2>13. CASE LeaveObserverEnd(t)
    BY <2>13, LeaveObserverEndKeeps
  <2>. QED
    BY <1>3, <2>1, <2>2, <2>3, <2>4, <2>5, <2>6, <2>7, <2>8, <2>9, <2>10, <2>11, <2>12, <2>13
       DEF Step
<1>. QED
  BY <1>1, <1>2, <1>3 DEF Next

LEMMA LinkImplies ==
  ASSUME LinkInv
  PROVE  ConnectionsAreSound
<1>1. NothingLeftBehind
  BY DEF LinkInv, Forgotten, NothingLeftBehind
<1>2. LinksAgree
  <2>. SUFFICES ASSUME \A t \in Thread : call[t] = Idle, NEW s \in Sig, NEW o \in Obs
                PROVE  Linked(s, o) <=> Known(s, o)
    BY DEF LinksAgree
  <2>1. \A t \in Thread : ~Linking(t, s, o) /\ ~Unlinking(t, s, o)
    BY DEF Linking, Unlinking, At, Idle
  <2>. QED
    BY <2>1 DEF LinkInv, InStep
<1>. QED
  BY <1>1, <1>2 DEF LinkInv, ConnectionsAreSound, ListsIntact

(* As long as the program runs disconnect, send_once and ~Signal alone, an  *)
(* end that is gone has left nothing behind in the other, both ends agree    *)
(* whenever no call is in progress, and no list changes under a thread that *)
(* goes through it: whatever connect, send and ~Observer overlap (signal.h,  *)
(* observer.h).                                                             *)
THEOREM ConnectionsStaySound ==
  ASSUME Lonely \subseteq Alone
  PROVE  Spec => []ConnectionsAreSound
<1>1. Init => LinkInv
  BY LinkInit
<1>2. LinkInv /\ [Next]_vars => LinkInv'
  BY LinkNext
<1>3. LinkInv => ConnectionsAreSound
  BY LinkImplies
<1>. QED
  BY <1>1, <1>2, <1>3, PTL DEF Spec

=============================================================================
