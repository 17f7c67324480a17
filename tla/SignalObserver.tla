--------------------------- MODULE SignalObserver ---------------------------
(***************************************************************************)
(* Signals and Observers (include/oscit/signal.h, observer.h): a connection *)
(* is a callback in the signal's callbacks_ and the signal in the           *)
(* observer's observed_signals_, two lists with a read-write lock each.     *)
(* Several threads connect, send, disconnect and delete either end.         *)
(*                                                                          *)
(* A call names a signal, an observer or both, and nobody deletes what a    *)
(* call in progress names; the other end of a connection may go at any time *)
(* ("When the either end is deleted, the connection is automatically        *)
(* removed. Thread safe.").  A list that is locked, changed and unlocked    *)
(* without a further lock in between is changed in one step.                *)
(***************************************************************************)
EXTENDS Integers, SequencesExt

CONSTANTS
  Thread, Sig, Obs, None,
  Alone,      \* the methods the program calls only while no other call runs
  MaxCalls    \* bound: calls in all

Ops == {"connect", "send", "send_once", "disconnect", "~Signal", "~Observer"}

ASSUME CallsAssumption ==
  /\ MaxCalls \in Nat /\ Alone \subseteq Ops
  /\ Sig \cap Obs = {} /\ None \notin Sig \cup Obs

VARIABLES
  callbacks_,         \* of each signal: the receivers, in order
  observed_signals_,  \* of each observer: the signals, in order
  state,              \* of each signal and observer: "live", "dying" from the
                      \* call of its destructor on, "gone"
  call,               \* what each thread is doing
  calls,              \* number of calls so far
  corrupt             \* a list was changed while another thread was in it

vars == <<callbacks_, observed_signals_, state, call, calls, corrupt>>

Idle == [op |-> "none", pc |-> "idle", s |-> None, o |-> None, i |-> 0]

At(t, op, pc) == call[t].op = op /\ call[t].pc = pc

Goto(t, pc) == call' = [call EXCEPT ![t].pc = pc]
Return(t) == call' = [call EXCEPT ![t] = Idle]

Init ==
  /\ callbacks_ = [s \in Sig |-> <<>>]
  /\ observed_signals_ = [o \in Obs |-> <<>>]
  /\ state = [x \in Sig \cup Obs |-> "live"]
  /\ call = [t \in Thread |-> Idle]
  /\ calls = 0 /\ corrupt = FALSE

(* The loops that erase every x from a list (disconnect_observer, and       *)
(* std::list::remove in disconnect_signal).                                 *)
Without(list, x) ==
  LET kept[i \in 0..Len(list)] ==
        IF i = 0 THEN <<>>
        ELSE IF list[i] = x THEN kept[i - 1] ELSE Append(kept[i - 1], list[i])
  IN kept[Len(list)]

-----------------------------------------------------------------------------
(* Locks: who is inside a list, from where the threads are. *)

SendOps == {"send", "send_once"}

Readers(s) == {t \in Thread : call[t].op \in SendOps /\ call[t].s = s
                              /\ call[t].pc # "enter"}
Writers(s) == {t \in Thread : At(t, "~Signal", "loop") /\ call[t].s = s}

(* Mutant: a writer does not wait for the readers. *)
CanWriteAtOnce(s) == Writers(s) = {}

CanWriteCallbacks(s) == Readers(s) = {} /\ Writers(s) = {}
CanReadCallbacks(s) == Writers(s) = {}
CanWriteObserved(o) ==
  \A t \in Thread : ~(At(t, "~Observer", "loop") /\ call[t].o = o)

(* The thread changes callbacks_ of s. *)
Touch(t, s) == corrupt' = (corrupt \/ (Readers(s) \cup Writers(s)) \ {t} # {})

-----------------------------------------------------------------------------
(* A call begins. *)

Named(x) == \E t \in Thread : call[t].s = x \/ call[t].o = x

NamesSignal(op) == op # "~Observer"
NamesObserver(op) == op \in {"connect", "disconnect", "~Observer"}

MayOverlap(op) ==
  \A u \in Thread : call[u] = Idle \/ (op \notin Alone /\ call[u].op \notin Alone)

Begin(t, op, s, o) ==
  /\ call[t] = Idle /\ calls < MaxCalls /\ MayOverlap(op)
  /\ IF NamesSignal(op) THEN s \in Sig /\ state[s] = "live" ELSE s = None
  /\ IF NamesObserver(op) THEN o \in Obs /\ state[o] = "live" ELSE o = None
  /\ op = "~Signal" => ~Named(s)
  /\ op = "~Observer" => ~Named(o)
  /\ calls' = calls + 1
  /\ call' = [call EXCEPT ![t] =
       [op |-> op, pc |-> "enter", s |-> s, o |-> o, i |-> 1]]
  /\ state' = CASE op = "~Signal" -> [state EXCEPT ![s] = "dying"]
                [] op = "~Observer" -> [state EXCEPT ![o] = "dying"]
                [] OTHER -> state
  /\ UNCHANGED <<callbacks_, observed_signals_, corrupt>>

-----------------------------------------------------------------------------
(* connect *)

ConnectCallback(t) ==
  LET c == call[t] IN
  /\ At(t, "connect", "enter")
  /\ CanWriteCallbacks(c.s)
  /\ callbacks_' = [callbacks_ EXCEPT ![c.s] = Append(@, c.o)]
  /\ Touch(t, c.s)
  /\ Goto(t, "observed")
  /\ UNCHANGED <<observed_signals_, state, calls>>

(* Mutant: the observer does not learn of the signal. *)
ConnectObservedNot(t) ==
  /\ At(t, "connect", "observed")
  /\ CanWriteObserved(call[t].o)
  /\ Return(t)
  /\ UNCHANGED <<callbacks_, observed_signals_, state, calls, corrupt>>

(* receiver->connect_signal(this) *)
ConnectObserved(t) ==
  LET c == call[t] IN
  /\ At(t, "connect", "observed")
  /\ CanWriteObserved(c.o)
  /\ observed_signals_' = [observed_signals_ EXCEPT ![c.o] = Append(@, c.s)]
  /\ Return(t)
  /\ UNCHANGED <<callbacks_, state, calls, corrupt>>

-----------------------------------------------------------------------------
(* send and send_once *)

EnterSend(t) ==
  /\ call[t].op \in SendOps /\ call[t].pc = "enter"
  /\ CanReadCallbacks(call[t].s)
  /\ Goto(t, "loop")
  /\ UNCHANGED <<callbacks_, observed_signals_, state, calls, corrupt>>

(* The callback about to be triggered. *)
Receiver(t) == callbacks_[call[t].s][call[t].i]

Trigger(t) ==
  /\ At(t, "send", "loop")
  /\ call[t].i <= Len(callbacks_[call[t].s])
  /\ call' = [call EXCEPT ![t].i = @ + 1]
  /\ UNCHANGED <<callbacks_, observed_signals_, state, calls, corrupt>>

(* receiver_->disconnect_signal(this) *)
OnceDisconnect(t) ==
  LET c == call[t] IN
  /\ At(t, "send_once", "loop")
  /\ callbacks_[c.s] # <<>>
  /\ CanWriteObserved(Receiver(t))
  /\ observed_signals_' = [observed_signals_ EXCEPT ![Receiver(t)] = Without(@, c.s)]
  /\ Goto(t, "trigger")
  /\ UNCHANGED <<callbacks_, state, calls, corrupt>>

(* Trigger, delete and erase, under the lock for readers. *)
OnceTrigger(t) ==
  LET c == call[t] IN
  /\ At(t, "send_once", "trigger")
  /\ callbacks_' = [callbacks_ EXCEPT ![c.s] =
       IF @ = <<>> THEN @ ELSE Tail(@)]
  /\ Touch(t, c.s)
  /\ Goto(t, "loop")
  /\ UNCHANGED <<observed_signals_, state, calls>>

LeaveSend(t) ==
  LET c == call[t] IN
  /\ c.op \in SendOps /\ c.pc = "loop"
  /\ IF c.op = "send" THEN c.i > Len(callbacks_[c.s])
     ELSE callbacks_[c.s] = <<>>
  /\ Return(t)
  /\ UNCHANGED <<callbacks_, observed_signals_, state, calls, corrupt>>

-----------------------------------------------------------------------------
(* disconnect *)

DisconnectCallbacks(t) ==
  LET c == call[t] IN
  /\ At(t, "disconnect", "enter")
  /\ CanWriteCallbacks(c.s)
  /\ callbacks_' = [callbacks_ EXCEPT ![c.s] = Without(@, c.o)]
  /\ Touch(t, c.s)
  /\ Goto(t, "observed")
  /\ UNCHANGED <<observed_signals_, state, calls>>

DisconnectObserved(t) ==
  LET c == call[t] IN
  /\ At(t, "disconnect", "observed")
  /\ CanWriteObserved(c.o)
  /\ observed_signals_' = [observed_signals_ EXCEPT ![c.o] = Without(@, c.s)]
  /\ Return(t)
  /\ UNCHANGED <<callbacks_, state, calls, corrupt>>

-----------------------------------------------------------------------------
(* The destructors: disconnect_all of either end. *)

EnterSignalEnd(t) ==
  /\ At(t, "~Signal", "enter")
  /\ CanWriteCallbacks(call[t].s)
  /\ Goto(t, "loop")
  /\ UNCHANGED <<callbacks_, observed_signals_, state, calls, corrupt>>

(* One turn: receiver_->disconnect_signal(this), erase. *)
SignalEndTurn(t) ==
  LET s == call[t].s
      o == Head(callbacks_[s])
  IN
  /\ At(t, "~Signal", "loop")
  /\ callbacks_[s] # <<>>
  /\ CanWriteObserved(o)
  /\ observed_signals_' = [observed_signals_ EXCEPT ![o] = Without(@, s)]
  /\ callbacks_' = [callbacks_ EXCEPT ![s] = Tail(@)]
  /\ Touch(t, s)
  /\ UNCHANGED <<state, call, calls>>

LeaveSignalEnd(t) ==
  LET s == call[t].s IN
  /\ At(t, "~Signal", "loop")
  /\ callbacks_[s] = <<>>
  /\ state' = [state EXCEPT ![s] = "gone"]
  /\ Return(t)
  /\ UNCHANGED <<callbacks_, observed_signals_, calls, corrupt>>

EnterObserverEnd(t) ==
  /\ At(t, "~Observer", "enter")
  /\ CanWriteObserved(call[t].o)
  /\ Goto(t, "loop")
  /\ UNCHANGED <<callbacks_, observed_signals_, state, calls, corrupt>>

(* Mutant: the signal keeps its callbacks. *)
ObserverEndTurnKeep(t) ==
  LET o == call[t].o
      s == Head(observed_signals_[o])
  IN
  /\ At(t, "~Observer", "loop")
  /\ observed_signals_[o] # <<>>
  /\ CanWriteCallbacks(s)
  /\ observed_signals_' = [observed_signals_ EXCEPT ![o] = Tail(@)]
  /\ UNCHANGED <<callbacks_, state, call, calls, corrupt>>

(* Mutant: the iterator does not move on. *)
ObserverEndTurnStuck(t) ==
  LET o == call[t].o
      s == Head(observed_signals_[o])
  IN
  /\ At(t, "~Observer", "loop")
  /\ observed_signals_[o] # <<>>
  /\ CanWriteCallbacks(s)
  /\ callbacks_' = [callbacks_ EXCEPT ![s] = Without(@, o)]
  /\ Touch(t, s)
  /\ UNCHANGED <<observed_signals_, state, call, calls>>

(* One turn: disconnect_observer(this) of the signal, erase. *)
ObserverEndTurn(t) ==
  LET o == call[t].o
      s == Head(observed_signals_[o])
  IN
  /\ At(t, "~Observer", "loop")
  /\ observed_signals_[o] # <<>>
  /\ CanWriteCallbacks(s)
  /\ callbacks_' = [callbacks_ EXCEPT ![s] = Without(@, o)]
  /\ observed_signals_' = [observed_signals_ EXCEPT ![o] = Tail(@)]
  /\ Touch(t, s)
  /\ UNCHANGED <<state, call, calls>>

LeaveObserverEnd(t) ==
  LET o == call[t].o IN
  /\ At(t, "~Observer", "loop")
  /\ observed_signals_[o] = <<>>
  /\ state' = [state EXCEPT ![o] = "gone"]
  /\ Return(t)
  /\ UNCHANGED <<callbacks_, observed_signals_, calls, corrupt>>

-----------------------------------------------------------------------------

Step(t) ==
  \/ ConnectCallback(t) \/ ConnectObserved(t)
  \/ EnterSend(t) \/ Trigger(t) \/ OnceDisconnect(t) \/ OnceTrigger(t)
  \/ LeaveSend(t)
  \/ DisconnectCallbacks(t) \/ DisconnectObserved(t)
  \/ EnterSignalEnd(t) \/ SignalEndTurn(t) \/ LeaveSignalEnd(t)
  \/ EnterObserverEnd(t) \/ ObserverEndTurn(t) \/ LeaveObserverEnd(t)

Next ==
  \E t \in Thread :
    \/ \E op \in Ops, s \in Sig \cup {None}, o \in Obs \cup {None} :
         Begin(t, op, s, o)
    \/ Step(t)

Spec == Init /\ [][Next]_vars

(* A thread that can go on does. *)
FairSpec == Spec /\ \A t \in Thread : WF_vars(Step(t))

-----------------------------------------------------------------------------
(* Properties *)

TypeOK ==
  /\ callbacks_ \in [Sig -> Seq(Obs)]
  /\ observed_signals_ \in [Obs -> Seq(Sig)]
  /\ state \in [Sig \cup Obs -> {"live", "dying", "gone"}]
  /\ \A t \in Thread :
       /\ call[t].op \in Ops \cup {"none"}
       /\ call[t].pc \in {"idle", "enter", "loop", "observed", "trigger"}
  /\ calls \in 0..MaxCalls /\ corrupt \in BOOLEAN

Linked(s, o) == Contains(callbacks_[s], o)
Known(s, o) == Contains(observed_signals_[o], s)

(* An end that is gone has left nothing behind in the other: no send will   *)
(* trigger a deleted observer and no destructor will visit a deleted signal *)
(* (disconnect_all of both classes, connect in its two steps).              *)
NothingLeftBehind ==
  \A s \in Sig, o \in Obs :
    /\ state[o] = "gone" => ~Linked(s, o)
    /\ state[s] = "gone" => ~Known(s, o)

(* When no call is in progress both ends agree on their connections.        *)
LinksAgree ==
  (\A t \in Thread : call[t] = Idle)
    => \A s \in Sig, o \in Obs : Linked(s, o) <=> Known(s, o)

(* A list is never changed under a thread that is going through it.         *)
ListsIntact == ~corrupt

(* A connection ends at both of its ends, whatever call ends it, and no    *)
(* list changes under a thread that goes through it (Signal::disconnect,    *)
(* ~Signal, ~Observer and the temporary Signal of send_once).               *)
ConnectionsAreSound == NothingLeftBehind /\ LinksAgree /\ ListsIntact

(* The destructors lock both ends in opposite order (~Signal callbacks_ and *)
(* then observed_signals_, ~Observer the other way): no thread waits for a  *)
(* list of a thread that waits for one of its own.  Two may (README).        *)
WaitsForSignal(t, s) ==
  \/ /\ At(t, "~Observer", "loop") /\ observed_signals_[call[t].o] # <<>>
     /\ s = Head(observed_signals_[call[t].o])
WaitsForObserver(t, o) ==
  \/ /\ At(t, "~Signal", "loop") /\ callbacks_[call[t].s] # <<>>
     /\ o = Head(callbacks_[call[t].s])
  \/ /\ At(t, "send_once", "loop") /\ callbacks_[call[t].s] # <<>>
     /\ o = Receiver(t)

NoDeadlyEmbrace ==
  \A t, u \in Thread :
    ~ /\ At(u, "~Observer", "loop") /\ WaitsForObserver(t, call[u].o)
      /\ WaitsForSignal(u, call[t].s)

(* The method of an observer is not called once its destructor has begun:   *)
(* ~Observer, which ends the connection, runs after the destructor of the   *)
(* derived class.                                                           *)
ReceiverIsWhole ==
  \A t \in Thread :
    At(t, "send", "loop") /\ call[t].i <= Len(callbacks_[call[t].s])
      => state[Receiver(t)] = "live"

(* Every call returns: locks taken by connect, send and ~Observer are given *)
(* back whatever the others do.                                             *)
CallsReturn == \A t \in Thread : call[t] # Idle ~> call[t] = Idle

=============================================================================
