---------------------------- MODULE ObjectProxy ----------------------------
(***************************************************************************)
(* An ObjectProxy (include/oscit/object_proxy.h, src/object_proxy.cpp) and  *)
(* the remote object it mirrors, joined by datagrams.  The user's thread    *)
(* calls set_value; the command's thread handles the replies.  set_value    *)
(* throttles what it sends by the measured latency: while an answer is      *)
(* awaited the last value waits in to_send_.                                *)
(*                                                                          *)
(* The user's values are numbered in the order they are set, so that "older *)
(* than" can be told; values set by other clients are negative and 0 is the *)
(* remote's first value.  Time is in the ticks of TimeRef::elapsed.         *)
(***************************************************************************)
EXTENDS Integers, Sequences

CONSTANTS
  MaxSets, MaxForeign, MaxFaults, MaxResets, MaxTime,  \* bounds of the model
  Serialised,  \* the user holds the command's lock while it calls the proxy
  Empty,       \* the empty Value of to_send_ and of a value_ never received
  Nil,         \* gNilValue: the query for the current value
  Attrs,       \* the /.attr query and its reply
  Register     \* the /.register message

ASSUME BoundsAssumption ==
  /\ MaxSets \in Nat /\ MaxForeign \in Nat /\ MaxFaults \in Nat
  /\ MaxResets \in Nat /\ MaxTime \in Nat
  /\ Serialised \in BOOLEAN

VARIABLES
  now,          \* elapsed()
  adopted,      \* a RootProxy has adopted the object
  typed,        \* attributes_ is a hash: the type is known
  value_, wait_until_, latency_, to_send_,
  upc,          \* where the user's thread is in set_value
  uval, unow,   \* its argument and the "now" it has read
  hpc,          \* where the command's thread is in handle_reply
  out, in,      \* datagrams to and from the remote
  remote,       \* value of the remote object
  observed,     \* the remote counts this side among its observers_
  sets, foreign, faults, resets,  \* events so far
  sent,         \* history: the last value of the user sent out
  sentAt,       \* history: when the last message on the value was sent ...
  answered      \* ... and whether a notification was handled since

netVars == <<out, in, remote, observed, foreign, faults>>
userVars == <<upc, uval, unow, sets, resets>>
histVars == <<sent, sentAt, answered>>
proxyVars == <<adopted, typed, value_, wait_until_, latency_, to_send_>>
vars == <<now, proxyVars, userVars, hpc, netVars, histVars>>

UserValue == 1..MaxSets
Value == (-MaxForeign)..MaxSets

(* t / d in C: towards zero. *)
Quotient(t, d) == IF t >= 0 THEN t \div d ELSE -((-t) \div d)

OneAndAHalf(t) == (3 * t) \div 2

(* Mutant: a wait of two latencies. *)
DeadlineTwice(t) == t + 2 * latency_

(* now + (latency_ * 1.5), computed in double and converted to time_t. *)
Deadline(t) == Quotient(2 * t + 3 * latency_, 2)

(* Mutant: the latency follows the last measure and not a quarter of it. *)
UpdatedLatencyWhole == latency_ + (now - wait_until_)

(* "(gently) update latency" *)
UpdatedLatency == latency_ + Quotient(now - wait_until_, 4)

Init ==
  /\ now = 0 /\ adopted = FALSE /\ typed \in BOOLEAN
  /\ value_ = Empty /\ wait_until_ = -1 /\ latency_ = -1 /\ to_send_ = Empty
  /\ upc = "idle" /\ uval = Nil /\ unow = 0 /\ hpc = "idle"
  /\ out = <<Register>> /\ in = <<>> /\ remote = 0 /\ observed = FALSE
  /\ sets = 0 /\ foreign = 0 /\ faults = 0 /\ resets = 0
  /\ sent = 0 /\ sentAt = 0 /\ answered = TRUE

-----------------------------------------------------------------------------
(* Sending *)

(* root_proxy_->send_to_remote(url, v), for a caller that read the time at. *)
SendValue(v, at) ==
  /\ out' = Append(out, v)
  /\ sent' = IF v = Nil THEN sent ELSE v
  /\ sentAt' = at
  /\ answered' = FALSE

(* Mutant: the wait for the answer is not checked. *)
BranchNoWait ==
  IF ~typed THEN "idle"
  ELSE IF latency_ < 0 THEN (IF wait_until_ >= 0 THEN "idle" ELSE "first")
  ELSE "send"

(* The branch set_value takes: nothing, first call, keep for later, send.  *)
Branch ==
  IF ~typed THEN "idle"
  ELSE IF latency_ < 0 THEN (IF wait_until_ >= 0 THEN "idle" ELSE "first")
  ELSE IF now < wait_until_ THEN "store" ELSE "send"

(* set_value(gNilValue) made by adopted() and set_attrs(): always the first *)
(* message of this proxy, unless the user was quicker.                      *)
QueryValue ==
  IF Branch = "first"
  THEN SendValue(Nil, now) /\ wait_until_' = now
  ELSE UNCHANGED <<out, histVars, wait_until_>>

(* adopted(): ask for the attributes, or for the value if they are known.  *)
Adopt ==
  /\ ~adopted
  /\ adopted' = TRUE
  /\ IF typed THEN QueryValue
     ELSE out' = Append(out, Attrs) /\ UNCHANGED <<histVars, wait_until_>>
  /\ UNCHANGED <<now, typed, value_, latency_, to_send_, userVars, hpc, in,
                 remote, observed, foreign, faults>>

-----------------------------------------------------------------------------
(* The user's thread *)

HandlerIdle == Serialised => hpc = "idle"

(* set_value(v) up to the choice of the branch. *)
SetValue ==
  /\ adopted /\ upc = "idle" /\ HandlerIdle
  /\ sets < MaxSets
  /\ sets' = sets + 1
  /\ upc' = Branch
  /\ uval' = sets + 1
  /\ unow' = now
  /\ UNCHANGED <<now, proxyVars, hpc, netVars, histVars, resets>>

(* The branch itself. *)
SetFirst ==
  /\ upc = "first"
  /\ SendValue(uval, unow)
  /\ wait_until_' = unow
  /\ UNCHANGED to_send_

SetSend ==
  /\ upc = "send"
  /\ SendValue(uval, unow)
  /\ wait_until_' = Deadline(unow)
  /\ UNCHANGED to_send_

SetStore ==
  /\ upc = "store"
  /\ to_send_' = uval
  /\ UNCHANGED <<out, histVars, wait_until_>>

FinishSet ==
  /\ SetFirst \/ SetSend \/ SetStore
  /\ upc' = "idle"
  /\ UNCHANGED <<now, adopted, typed, value_, latency_, uval, unow, sets,
                 resets, hpc, in, remote, observed, foreign, faults>>

(* reset_connection(): forget the latency and that an answer is awaited.    *)
ResetConnection ==
  /\ upc = "idle" /\ HandlerIdle
  /\ resets < MaxResets
  /\ resets' = resets + 1
  /\ wait_until_' = -1
  /\ latency_' = -1
  /\ UNCHANGED <<now, adopted, typed, value_, to_send_, upc, uval, unow, sets,
                 hpc, netVars, histVars>>

-----------------------------------------------------------------------------
(* The command's thread *)

Receives ==
  /\ in # <<>> /\ adopted /\ hpc = "idle" /\ (Serialised => upc = "idle")
  /\ in' = Tail(in)
  /\ UNCHANGED <<now, adopted, userVars, out, remote, observed, foreign,
                 faults, sent, sentAt>>

(* /.attr reply: set_attrs; a type seen for the first time asks for value. *)
HandleAttrs ==
  /\ Receives
  /\ Head(in) = Attrs
  /\ typed' = TRUE
  /\ hpc' = IF typed THEN "idle" ELSE "query"
  /\ UNCHANGED <<value_, wait_until_, latency_, to_send_, answered>>

HandleQuery ==
  /\ hpc = "query"
  /\ hpc' = "idle"
  /\ QueryValue
  /\ UNCHANGED <<now, adopted, typed, value_, latency_, to_send_, userVars, in,
                 remote, observed, foreign, faults>>

(* handle_value_change(v), up to the decision to flush: the cached value    *)
(* and the latency.  A value for a proxy without a type is not routed.     *)
ValueChange(decision) ==
  /\ Receives
  /\ Head(in) \in Value
  /\ IF ~typed
     THEN UNCHANGED <<value_, latency_, wait_until_, answered, hpc>>
     ELSE /\ value_' = Head(in)
          /\ answered' = TRUE
          /\ IF latency_ < 0 /\ wait_until_ >= 0
             THEN /\ latency_' = now - wait_until_
                  /\ wait_until_' = 0
                  /\ hpc' = "idle"
             ELSE /\ latency_' = IF wait_until_ = 0 THEN latency_
                                 ELSE UpdatedLatency
                  /\ hpc' = decision
                  /\ UNCHANGED wait_until_
  /\ UNCHANGED <<typed, to_send_>>

(* Mutant: the pending value is never sent.                                *)
HandleValueNoFlush == ValueChange("clear")

HandleValue == ValueChange(IF to_send_ = Empty THEN "clear" ELSE "flush")

(* "send now" ... *)
HandleFlush ==
  /\ hpc = "flush"
  /\ hpc' = "flushed"
  /\ SendValue(to_send_, now)
  /\ UNCHANGED <<now, proxyVars, userVars, in, remote, observed, foreign,
                 faults>>

(* ... "to_send_.set_empty()" and the new wait. *)
HandleFlushed ==
  /\ hpc = "flushed"
  /\ hpc' = "idle"
  /\ to_send_' = Empty
  /\ wait_until_' = Deadline(now)
  /\ UNCHANGED <<now, adopted, typed, value_, latency_, userVars, netVars,
                 histVars>>

HandleClear ==
  /\ hpc = "clear"
  /\ hpc' = "idle"
  /\ wait_until_' = 0
  /\ UNCHANGED <<now, adopted, typed, value_, latency_, to_send_, userVars,
                 netVars, histVars>>

HandleReply ==
  \/ HandleAttrs \/ HandleValue
  \/ HandleQuery \/ HandleFlush \/ HandleFlushed \/ HandleClear

-----------------------------------------------------------------------------
(* The remote and the network *)

(* Command::receive at the remote: whoever sends becomes an observer, the   *)
(* object is triggered, and the result goes to the caller (attributes) or   *)
(* to the observers (value).                                                *)
RemoteReceive ==
  /\ out # <<>>
  /\ out' = Tail(out)
  /\ remote' = IF Head(out) \in Value THEN Head(out) ELSE remote
  /\ in' = CASE Head(out) = Register -> in
             [] Head(out) = Attrs    -> Append(in, Attrs)
             [] OTHER                -> Append(in, remote')
  /\ observed' = TRUE
  /\ UNCHANGED <<now, proxyVars, userVars, hpc, foreign, faults, histVars>>

(* Mutant: a change made by another client is not notified. *)
RemoteChangeSilent ==
  /\ foreign < MaxForeign
  /\ foreign' = foreign + 1
  /\ remote' = -(foreign + 1)
  /\ UNCHANGED <<now, proxyVars, userVars, hpc, out, in, observed, faults,
                 histVars>>

(* Another client changes the remote value; observers are notified. *)
RemoteChange ==
  /\ foreign < MaxForeign
  /\ foreign' = foreign + 1
  /\ remote' = -(foreign + 1)
  /\ in' = IF observed THEN Append(in, -(foreign + 1)) ELSE in
  /\ UNCHANGED <<now, proxyVars, userVars, hpc, out, observed, faults, histVars>>

Without(queue, i) == SubSeq(queue, 1, i - 1) \o SubSeq(queue, i + 1, Len(queue))

(* A queue after the network has lost, or delayed, one of its datagrams.   *)
Faulty(queue) ==
  {Without(queue, i) : i \in DOMAIN queue}
    \cup {Append(Without(queue, i), queue[i]) : i \in 1..(Len(queue) - 1)}

(* The network loses a datagram, or delivers it after those sent so far.   *)
NetworkFails ==
  /\ faults < MaxFaults
  /\ faults' = faults + 1
  /\ \/ out' \in Faulty(out) /\ UNCHANGED in
     \/ in' \in Faulty(in) /\ UNCHANGED out
  /\ UNCHANGED <<now, proxyVars, userVars, hpc, remote, observed, foreign,
                 histVars>>

Tick ==
  /\ now < MaxTime
  /\ now' = now + 1
  /\ UNCHANGED <<proxyVars, userVars, hpc, netVars, histVars>>

Next ==
  \/ Adopt \/ SetValue \/ FinishSet \/ ResetConnection
  \/ HandleReply \/ RemoteReceive \/ RemoteChange \/ NetworkFails \/ Tick

Spec == Init /\ [][Next]_vars

(* Threads run and datagrams that are not lost arrive; the user need not set *)
(* anything, nor other clients change the remote.                           *)
Fairness ==
  /\ WF_vars(Adopt) /\ WF_vars(FinishSet)
  /\ WF_vars(HandleReply) /\ WF_vars(RemoteReceive)

FairSpec == Spec /\ Fairness

-----------------------------------------------------------------------------
(* Inductive invariants *)

(* What latency_, wait_until_ and the times that were read have to do with  *)
(* each other, however the two threads interleave.                          *)
LatencyInv ==
  /\ now \in Nat /\ unow \in 0..now /\ resets \in Nat
  /\ wait_until_ \in Int /\ latency_ \in Int
  /\ latency_ < 0 => wait_until_ <= now
  /\ upc = "send" => latency_ >= 0
  /\ hpc \in {"idle", "query"} /\ latency_ >= 0
       => wait_until_ <= now + OneAndAHalf(latency_)

(* With the user's thread under the command's lock: the wait reaches one    *)
(* and a half latencies beyond the last message that has no answer yet ...  *)
ThrottleInv ==
  /\ upc # "idle" \/ ~adopted => hpc = "idle"
  /\ upc = "first" => latency_ < 0
  /\ upc = "send" => unow >= wait_until_
  /\ sentAt \in 0..now
  /\ hpc \in {"flush", "clear"} => answered
  /\ ~answered /\ latency_ >= 0 /\ hpc # "flushed"
       => wait_until_ >= sentAt + OneAndAHalf(latency_)

(* ... and a value kept for later has a wait that will end with an answer.  *)
PendingInv ==
  resets = 0 =>
    /\ ~typed => latency_ < 0
    /\ latency_ < 0 \/ hpc \in {"query", "clear"} => to_send_ = Empty
    /\ upc = "store" => latency_ >= 0 /\ wait_until_ > 0
    /\ to_send_ # Empty /\ hpc = "idle" => wait_until_ > 0

(* Times, throttling and the pending value hold together at every step.     *)
ProxyInv == LatencyInv /\ (Serialised => ThrottleInv /\ PendingInv)

-----------------------------------------------------------------------------
(* A measured latency never turns negative: set_value would take the proxy  *)
(* for one that has not had its first answer, drop every value and wait for *)
(* an answer nobody owes (object_proxy.cpp:56-60, 90).                      *)
LatencyStaysMeasured ==
  [][latency_ >= 0 /\ resets' = resets => latency_' >= 0]_vars

(* The wait that latency updates and throttling start from is never longer  *)
(* than one and a half latencies from now.                                  *)
WaitIsBounded ==
  hpc = "idle" /\ latency_ >= 0 => wait_until_ <= now + OneAndAHalf(latency_)

(* "slow down in order to avoid flooding" (object_proxy.h:192-193): without *)
(* an answer in between, two messages are one and a half latencies apart.   *)
Throttled ==
  [][sentAt' # sentAt /\ ~answered /\ latency_ >= 0
       => sentAt' >= sentAt + OneAndAHalf(latency_)]_vars

(* A value kept for later is kept only while an answer is awaited: nothing  *)
(* but an answer or a later set_value ever sends it.                        *)
PendingIsAwaited ==
  to_send_ # Empty /\ upc = "idle" /\ hpc = "idle" /\ resets = 0
    => wait_until_ > 0

(* The network has failed nowhere, and the connection was not reset.       *)
Calm == faults = 0 /\ resets = 0

(* The pending value is sent or replaced by a later one.                    *)
PendingIsFlushed ==
  \A v \in UserValue : to_send_ = v /\ Calm ~> to_send_ # v \/ ~Calm

(* "a 'ghost' object that mirrors a remote 'real' object": when everyone is *)
(* done, the cached value is the remote one.                                *)
MirrorConverges == <>[](Calm => value_ = remote)

(* object_proxy.h:63: set_value "should be called to set a new value for    *)
(* the 'real' remote object": once an older value was overtaken by a newer  *)
(* one it must not be sent again.  The code does send it (README).          *)
NewerIsNotUndone == [][sent' >= sent]_vars

(* "Measured network latency between action and reply." (object_proxy.h:141): *)
(* a first latency is measured from a message this side has sent.           *)
MeasuredFromAnswer == [][latency_ < 0 /\ latency_' >= 0 => wait_until_ >= 0]_vars

Quiescent ==
  /\ adopted /\ typed /\ latency_ >= 0 /\ upc = "idle" /\ hpc = "idle"
  /\ out = <<>> /\ in = <<>>

(* object_proxy.h:63, for the last value: when nothing is left to happen the *)
(* remote has it.                                                           *)
LastSetArrives == Quiescent /\ sets > 0 => remote = sets
=============================================================================
