------------------------------- MODULE Dispatch ------------------------------
(***************************************************************************)
(* What becomes of a message: Command::receive, Root::call, the meta        *)
(* methods, the notifications to the observers, and the RootProxy that      *)
(* builds a mirror of a remote tree from the replies (src/command.cpp,      *)
(* include/oscit/root.h, src/root.cpp, src/root_proxy.cpp).                 *)
(*                                                                          *)
(* A node is a Root with one OscCommand.  A watcher is a node whose command *)
(* has one RootProxy; its remote location is the node Remote gives.  The    *)
(* datagrams between the nodes are a bag: they are received in any order,   *)
(* and a few are lost or come twice.  A message is received in one step, as *)
(* ProcessMessage holds the lock of the command.                            *)
(*                                                                          *)
(* A path is the sequence of its names.  A value is told by its kind; the   *)
(* attributes of an object by their form and the signature of their type:   *)
(* "whole" are the attributes of an object, "bare" the hash under "@type"   *)
(* alone, "code" the number that is left of an error on the wire.  The      *)
(* times of an ObjectProxy, which ObjectProxy.tla counts, are what it knows *)
(* of its latency: nothing ("new"), asked for, or known.                    *)
(***************************************************************************)
EXTENDS Integers, Sequences, FiniteSets, Bags

CONSTANTS
  Node,        \* the programs, and their locations
  Elsewhere,   \* locations where nobody listens
  Server,      \* bound: the nodes whose users edit the objects, and that are called
  Remote,      \* of each watcher: the node it mirrors
  HasMeta,     \* the nodes whose root was built with its meta methods
  Path,        \* where objects can be adopted
  Signature,   \* of each path: "none" (a container) or "f"
  Builds(_),   \* the ProxyFactory builds a proxy for the path
  Calls,       \* what is called: records of a path and an argument
  Val, Zero,   \* numbers; the first value of each object
  MaxEvents    \* bound: what the programs' users do, messages lost or doubled

Root_ == <<>>
Up(p) == SubSeq(p, 1, Len(p) - 1)
Watcher == DOMAIN Remote

VARIABLES
  objects,      \* of each node: the paths of its objects, with their values
  observers_,   \* of each node: who gets its notifications
  attached,     \* of each watcher: the RootProxy is registered with the command
  mirror,       \* of each watcher: the proxies by their paths
  net,          \* the messages under way
  events,
  (* history *)
  broken,       \* a message was lost ("lost"), a RootProxy detached ("cut")
  ever,         \* of each node: the paths and values its objects have had
  told,         \* of each watcher: the paths it was notified of while attached
  waiting       \* of each node: the path of the call that is not answered yet

treeVars == <<objects, observers_>>
mirrorVars == <<attached, mirror>>
history == <<broken, ever, told, waiting>>
vars == <<treeVars, mirrorVars, net, events, history>>

-----------------------------------------------------------------------------
(* Values, attributes, messages *)

Empty == [is |-> "empty"]
Nil == [is |-> "nil"]
Real(v) == [is |-> "real", num |-> v]
Str(p) == [is |-> "string", str |-> p]
Error == [is |-> "error"]
Reply(path, res) == [is |-> "reply", path |-> path, res |-> res]

(* What a meta method answers: the path and something about its object. *)
AboutAttrs(p, a) == [is |-> "about", of |-> p, attrs |-> a]
AboutChildren(p, es) == [is |-> "about", of |-> p, entries |-> es]
AboutNames(p, ps) == [is |-> "about", of |-> p, paths |-> ps]
AboutInfo(p) == [is |-> "about", of |-> p]
AboutNothing(p) == [is |-> "about", of |-> p, code |-> 404]

Whole(signature) == [form |-> "whole", type |-> signature]
Bare(signature) == [form |-> "bare", type |-> signature]
NilAttrs == [form |-> "nil", type |-> "none"]
Code == [form |-> "code", type |-> "none"]

(* Object::type().  What is under "@type" of a type is nothing. *)
TypeOf(attrs) == IF attrs.form = "whole" THEN attrs.type ELSE "none"

CanReceive(type, val) ==
  /\ type # "none"
  /\ \/ type = "*" \/ val = Nil
     \/ type = "f" /\ val.is = "real"
     \/ type = "s" /\ val.is = "string"

ErrorPath == <<".error">>
InfoPath == <<".info">>
ListPath == <<".list">>
ListAttPath == <<".list_att">>
AttrsPath == <<".attr">>
TreePath == <<".tree">>
ReplyPath == <<".reply">>
RegisterPath == <<".register">>
MetaPath == {ErrorPath, InfoPath, ListPath, ListAttPath, AttrsPath, TreePath}
IsMeta(path) == path \in MetaPath \cup {ReplyPath, RegisterPath}

ASSUME DispatchAssumption ==
  /\ \A c \in Watcher : c \in Node /\ Remote[c] \in Node \ {c}
  /\ HasMeta \subseteq Node /\ Server \subseteq Node /\ Elsewhere \cap Node = {}
  /\ Path \subseteq Seq(STRING) /\ Root_ \notin Path
  (* The names that begin with a dot belong to the meta methods. *)
  /\ \A p \in Path : ~IsMeta(p) /\ Up(p) \in Path \cup {Root_}
  /\ Zero \in Val /\ MaxEvents \in Nat
  (* CallRegister registers; nobody answers without having been called. *)
  /\ \A call \in Calls : call.path \notin {ReplyPath, RegisterPath}
  (* ObjectProxy::build_child adopts what the factory returns, NULL or not. *)
  /\ \A p \in Path : Len(p) > 1 => Builds(p)

Msg(from, to, path, arg) == [from |-> from, to |-> to, path |-> path, arg |-> arg]

(* A message is received: it leaves the network, and others are sent. *)
Exchange(m, sent) == net' = (net (-) SetToBag({m})) (+) SetToBag(sent)
SendAll(sent) == net' = net (+) SetToBag(sent)

Location == Node \cup Elsewhere

(* A root may have its objects before it adopts its command. *)
Tree == {ps \in SUBSET Path : \A p \in ps : Up(p) \in ps \cup {Root_}}

Init ==
  /\ \E tree \in [Server -> Tree] :
       objects = [n \in Node |-> [p \in IF n \in Server THEN tree[n] ELSE {} |-> Zero]]
  /\ observers_ = [n \in Node |-> {}]
  /\ attached = [c \in Watcher |-> FALSE]
  /\ mirror = [c \in Watcher |-> <<>>]
  /\ net = EmptyBag /\ events = 0
  /\ broken = {} /\ ever = [n \in Node |-> {<<p, Zero>> : p \in DOMAIN objects[n]}]
  /\ told = [c \in Watcher |-> {}]
  /\ waiting = [n \in Node |-> Root_]

-----------------------------------------------------------------------------
(* The tree of a node *)

Known(n) == {Root_} \cup DOMAIN objects[n] \cup (IF n \in HasMeta THEN MetaPath ELSE {})

AttrsOf(p) ==
  CASE p = Root_ -> Whole("none")
    [] p = ErrorPath -> Whole("*")
    [] p \in MetaPath \ {ErrorPath} -> Whole("s")
    [] OTHER -> Whole(Signature[p])

ChildrenOf(n, p) == {q \in Known(n) \ {Root_} : Up(q) = p}

(* Object::list_with_attributes *)
Entries(n, p) ==
  {[path |-> q, attrs |-> AttrsOf(q), more |-> ChildrenOf(n, q) # {}] : q \in ChildrenOf(n, p)}

(* Object::tree: the meta methods among the children, too. *)
Below(n, p) == {q \in Known(n) : Len(q) > Len(p) /\ SubSeq(q, 1, Len(p)) = p}

(* The meta methods answer a path with something about it, anything else    *)
(* with nil.                                                                *)
MetaAnswer(n, path, val) ==
  IF path = ErrorPath \/ val.is # "string" THEN Nil
  ELSE LET p == val.str IN
       IF p \notin Known(n) THEN AboutNothing(p)
       ELSE CASE path = AttrsPath -> AboutAttrs(p, AttrsOf(p))
         [] path = ListAttPath -> AboutChildren(p, Entries(n, p))
         [] path = ListPath -> AboutNames(p, ChildrenOf(n, p))
         [] path = TreePath -> AboutNames(p, Below(n, p))
         [] OTHER -> AboutInfo(p)

(* An object keeps the number it is called with and answers what it has. *)
ValueAfter(n, p, val) == IF val.is = "real" THEN val.num ELSE objects[n][p]

Notification(n, path, res) ==
  {Msg(n, o, ReplyPath, Reply(path, res)) : o \in observers_'[n]}

(* Root::register_object, of objects in their order from the root: whoever  *)
(* observes is told of the path and the type.                               *)
Registered(n, ps) ==
  LET news(p) == AboutAttrs(p, IF Signature[p] = "none" THEN NilAttrs ELSE Bare(Signature[p])) IN
  /\ SendAll(UNION {Notification(n, AttrsPath, news(p)) : p \in ps})
  /\ told' = [c \in Watcher |->
       IF Remote[c] = n /\ c \in observers_[n] /\ attached[c] THEN told[c] \cup ps ELSE told[c]]

Used == events < MaxEvents /\ events' = events + 1

Adopt(n, p) ==
  /\ p \notin DOMAIN objects[n] /\ Up(p) \in DOMAIN objects[n] \cup {Root_}
  /\ Used
  /\ objects' = [objects EXCEPT ![n] = [q \in DOMAIN @ \cup {p} |-> IF q = p THEN Zero ELSE @[q]]]
  /\ ever' = [ever EXCEPT ![n] = @ \cup {<<p, Zero>>}]
  /\ UNCHANGED observers_
  /\ Registered(n, {p})
  /\ UNCHANGED <<mirrorVars, broken, waiting>>

(* set_keep_last, set_name: the object is put into its place again, and all *)
(* that is under it.                                                        *)
Readopt(n, p) ==
  /\ p \in DOMAIN objects[n]
  /\ Used
  /\ UNCHANGED treeVars
  /\ Registered(n, {p} \cup Below(n, p))
  /\ UNCHANGED <<mirrorVars, broken, ever, waiting>>

(* An object is deleted with all under it.  Nobody is told. *)
Delete(n, p) ==
  /\ p \in DOMAIN objects[n]
  /\ Used
  /\ objects' = [objects EXCEPT ![n] =
       [q \in DOMAIN @ \ ({p} \cup Below(n, p)) |-> @[q]]]
  /\ UNCHANGED <<observers_, mirrorVars, net, history>>

-----------------------------------------------------------------------------
(* Command::receive, of a message that is not a reply *)

Observe(n, who) == observers_' = [observers_ EXCEPT ![n] = @ \cup {who}]

(* "/.register", with the number of another port or without *)
ReceiveRegister(m) ==
  /\ m.path = RegisterPath
  /\ \E who \in IF m.arg.is = "real" THEN Elsewhere ELSE {m.from} : Observe(m.to, who)
  /\ Exchange(m, {})
  /\ UNCHANGED <<objects, mirrorVars, events, history>>

(* Mutant: only who has registered observes. *)
ObserveCallerNot(m) == UNCHANGED observers_

(* handle_register_message: who calls, observes. *)
ObserveCaller(m) == Observe(m.to, m.from)

Refused(m) == m.path \in Known(m.to) => ~CanReceive(TypeOf(AttrsOf(m.path)), m.arg)

(* Only the caller learns of the error. *)
ReceiveRefused(m) ==
  /\ ObserveCaller(m)
  /\ Refused(m)
  /\ Exchange(m, {Msg(m.to, m.from, ErrorPath, Error)})
  /\ waiting' = IF m.path = ErrorPath THEN [waiting EXCEPT ![m.to] = Root_] ELSE waiting
  /\ UNCHANGED <<objects, mirrorVars, events, broken, ever, told>>

(* Only the caller gets the answer of a meta method. *)
ReceiveMeta(m) ==
  /\ ObserveCaller(m)
  /\ ~Refused(m) /\ m.path \in MetaPath
  /\ Exchange(m, {Msg(m.to, m.from, ReplyPath, Reply(m.path, MetaAnswer(m.to, m.path, m.arg)))})
  /\ waiting' = IF m.path = ErrorPath THEN [waiting EXCEPT ![m.to] = Root_] ELSE waiting
  /\ UNCHANGED <<objects, mirrorVars, events, broken, ever, told>>

(* All observers get the answer of any other method. *)
ReceiveCall(m) ==
  LET n == m.to  v == ValueAfter(n, m.path, m.arg) IN
  /\ ObserveCaller(m)
  /\ ~Refused(m) /\ ~IsMeta(m.path)
  /\ objects' = [objects EXCEPT ![n][m.path] = v]
  /\ ever' = [ever EXCEPT ![n] = @ \cup {<<m.path, v>>}]
  /\ Exchange(m, Notification(n, m.path, Real(v)))
  /\ UNCHANGED <<mirrorVars, events, broken, told, waiting>>

-----------------------------------------------------------------------------
(* ObjectProxy *)

NewProxy(attrs, sync) ==
  [attrs |-> attrs, value |-> Empty, phase |-> IF TypeOf(attrs) = "none" THEN "new" ELSE "asked",
   toSend |-> Empty, needSync |-> sync]

(* adopted: ask for the attributes, or for the value when there is a type. *)
Asks(c, p, attrs) ==
  IF TypeOf(attrs) = "none" THEN Msg(c, Remote[c], AttrsPath, Str(p))
  ELSE Msg(c, Remote[c], p, Nil)

(* set_value: what may become of the proxy, and what it sends.              *)
SetValue(proxy, val) ==
  IF ~CanReceive(TypeOf(proxy.attrs), val) THEN {[proxy |-> proxy, sends |-> {}]}
  ELSE CASE proxy.phase = "new" -> {[proxy |-> [proxy EXCEPT !.phase = "asked"], sends |-> {val}]}
         [] proxy.phase = "asked" -> {[proxy |-> proxy, sends |-> {}]}
         [] OTHER -> {[proxy |-> [proxy EXCEPT !.toSend = val], sends |-> {}],
                      [proxy |-> proxy, sends |-> {val}]}

(* handle_value_change: the first answer measures the latency; a value that *)
(* was not asked for may do so as well, or look like a question.            *)
Changed(proxy, v) ==
  LET kept == [proxy EXCEPT !.value = v] IN
  CASE proxy.phase = "asked" -> {[proxy |-> [kept EXCEPT !.phase = "known"], sends |-> {}]}
    [] proxy.phase = "new" ->
         {[proxy |-> [kept EXCEPT !.phase = ph], sends |-> {}] : ph \in {"asked", "known"}}
    [] OTHER -> {[proxy |-> [kept EXCEPT !.toSend = Empty],
                  sends |-> {proxy.toSend} \ {Empty}]}

(* set_attrs: the first attributes ask for a value. *)
SetAttrs(proxy, attrs) ==
  LET now == [proxy EXCEPT !.attrs = attrs] IN
  IF attrs = proxy.attrs THEN {[proxy |-> proxy, sends |-> {}]}
  ELSE IF proxy.attrs.form \in {"whole", "bare"} THEN {[proxy |-> now, sends |-> {}]}
  ELSE SetValue(now, Nil)

-----------------------------------------------------------------------------
(* RootProxy::handle_reply *)

(* Command::find_proxy *)
FindProxy(m) == m.to \in Watcher /\ attached[m.to] /\ Remote[m.to] = m.from

(* Mutant: a reply that no proxy wants is treated as any other message. *)
IsReplyWithProxy(m) == m.path = ReplyPath /\ FindProxy(m)

IsReply(m) == m.path = ReplyPath

(* A node that waits for an answer gets it with the reply. *)
Heard(m) ==
  waiting' = IF m.arg.path = waiting[m.to] THEN [waiting EXCEPT ![m.to] = Root_] ELSE waiting

Sends(c, p, args) == {Msg(c, Remote[c], p, a) : a \in args}
Has(val, field) == field \in DOMAIN val
Mirrored(c) == DOMAIN mirror[c] \cup {Root_}

ListReply(m) == m.arg.path = ListAttPath /\ Has(m.arg.res, "entries") /\ m.arg.res.of \in Mirrored(m.to)
AttrsReply(m) == m.arg.path = AttrsPath /\ m.arg.res.is = "about"
ValueReply(m) ==
  /\ m.arg.path \in DOMAIN mirror[m.to]
  /\ CanReceive(TypeOf(mirror[m.to][m.arg.path].attrs), m.arg.res)

(* Mutant: the children are built under the root. *)
ChildAtRoot(parent, path) == <<path[Len(path)]>>

ChildAt(parent, path) == Append(parent, path[Len(path)])

(* build_children_from_attributes *)
BuildChildren(m) ==
  LET c == m.to
      at(e) == ChildAt(m.arg.res.of, e.path)
      new == {e \in m.arg.res.entries : at(e) \notin DOMAIN mirror[c] /\ Builds(at(e))}
  IN
  /\ mirror' = [mirror EXCEPT ![c] =
       [p \in DOMAIN @ \cup {at(e) : e \in new} |->
          IF p \in DOMAIN @ THEN @[p]
          ELSE LET e == CHOOSE e \in new : at(e) = p IN NewProxy(e.attrs, e.more)]]
  /\ Exchange(m, {Asks(c, at(e), e.attrs) : e \in new})

(* Mutant: attributes of a path without a proxy are dropped. *)
MissingNot(c, path) == {}

(* find_or_build_object_at: the proxies there are not on the way to a path. *)
Missing(c, path) ==
  IF Builds(SubSeq(path, 1, 1)) THEN {SubSeq(path, 1, i) : i \in 1..Len(path)} \ DOMAIN mirror[c]
  ELSE {}

BuildAndSetAttrs(m) ==
  LET c == m.to
      p == m.arg.res.of
      attrs == IF Has(m.arg.res, "attrs") THEN m.arg.res.attrs ELSE Code
      built == [q \in DOMAIN mirror[c] \cup Missing(c, p) |->
                  IF q \in DOMAIN mirror[c] THEN mirror[c][q] ELSE NewProxy(NilAttrs, TRUE)]
      asks == {Asks(c, q, NilAttrs) : q \in Missing(c, p)}
  IN
  IF p \notin DOMAIN built THEN UNCHANGED mirror /\ Exchange(m, {})
  ELSE \E o \in SetAttrs(built[p], attrs) :
         /\ mirror' = [mirror EXCEPT ![c] = [built EXCEPT ![p] = o.proxy]]
         /\ Exchange(m, asks \cup Sends(c, p, o.sends))

ChangeValue(m) ==
  LET c == m.to  p == m.arg.path IN
  \E o \in Changed(mirror[c][p], m.arg.res) :
    /\ mirror' = [mirror EXCEPT ![c][p] = o.proxy]
    /\ Exchange(m, Sends(c, p, o.sends))

(* The reply goes to the proxy of its sender, or nowhere. *)
ReceiveReply(m) ==
  /\ Heard(m)
  /\ IF ~FindProxy(m) THEN UNCHANGED mirror /\ Exchange(m, {})
     ELSE IF ListReply(m) THEN BuildChildren(m)
     ELSE IF AttrsReply(m) THEN BuildAndSetAttrs(m)
     ELSE IF ValueReply(m) THEN ChangeValue(m)
     ELSE UNCHANGED mirror /\ Exchange(m, {})
  /\ UNCHANGED <<treeVars, attached, events, broken, ever, told>>

Receive(m) ==
  /\ m.to \in Node
  /\ IF IsReply(m) THEN ReceiveReply(m)
     ELSE ReceiveRegister(m) \/ (m.path # RegisterPath /\ (ReceiveRefused(m) \/ ReceiveMeta(m) \/ ReceiveCall(m)))

(* Nobody listens where the message goes. *)
Vanish(m) ==
  /\ m.to \in Elsewhere
  /\ Exchange(m, {})
  /\ UNCHANGED <<treeVars, mirrorVars, events, history>>

Deliver == \E m \in BagToSet(net) : Receive(m) \/ Vanish(m)

-----------------------------------------------------------------------------
(* The user of a watcher *)

(* Command::adopt_proxy: register with the remote and list its root. *)
AdoptProxy(c) ==
  /\ Used
  /\ attached' = [attached EXCEPT ![c] = TRUE]
  /\ SendAll({Msg(c, Remote[c], RegisterPath, Nil), Msg(c, Remote[c], ListAttPath, Str(Root_))})
  /\ UNCHANGED <<treeVars, mirror, history>>

Detach(c) ==
  /\ attached[c]
  /\ Used
  /\ attached' = [attached EXCEPT ![c] = FALSE]
  /\ broken' = broken \cup {"cut"}
  /\ UNCHANGED <<treeVars, mirror, net, ever, told, waiting>>

(* RootProxy::send_to_remote *)
SendToRemote(c, sent) == SendAll(IF attached[c] THEN sent ELSE {})

SyncChildren(c, p) ==
  /\ p \in DOMAIN mirror[c] /\ mirror[c][p].needSync
  /\ Used
  /\ mirror' = [mirror EXCEPT ![c][p].needSync = FALSE]
  /\ SendToRemote(c, {Msg(c, Remote[c], ListAttPath, Str(p))})
  /\ UNCHANGED <<treeVars, attached, history>>

UserSetsValue(c, p, v) ==
  /\ p \in DOMAIN mirror[c]
  /\ Used
  /\ \E o \in SetValue(mirror[c][p], Real(v)) :
       /\ mirror' = [mirror EXCEPT ![c][p] = o.proxy]
       /\ SendToRemote(c, Sends(c, p, o.sends))
  /\ UNCHANGED <<treeVars, attached, history>>

(* The first message was lost, the user knows: ask as if for the first time. *)
ResetConnection(c, p) ==
  /\ p \in DOMAIN mirror[c] /\ mirror[c][p].phase # "new"
  /\ Used
  /\ mirror' = [mirror EXCEPT ![c][p].phase = "new"]
  /\ UNCHANGED <<treeVars, attached, net, history>>

-----------------------------------------------------------------------------
(* A node without a proxy calls another and waits for its answer. *)

Call(n, to, path, arg) ==
  /\ n \in Node \ Watcher /\ to # n /\ waiting[n] = Root_
  /\ Used
  /\ SendAll({Msg(n, to, path, arg)})
  /\ waiting' = [waiting EXCEPT ![n] = path]
  /\ UNCHANGED <<treeVars, mirrorVars, broken, ever, told>>

(* It registers another port of its host. *)
CallRegister(n, to) ==
  /\ n \in Node \ Watcher /\ to # n
  /\ Used
  /\ \E v \in Val : SendAll({Msg(n, to, RegisterPath, Real(v))})
  /\ UNCHANGED <<treeVars, mirrorVars, history>>

(* The network *)

Lose(m) ==
  /\ Used
  /\ Exchange(m, {})
  /\ broken' = broken \cup {"lost"}
  /\ UNCHANGED <<treeVars, mirrorVars, ever, told, waiting>>

Duplicate(m) ==
  /\ Used
  /\ SendAll({m})
  /\ UNCHANGED <<treeVars, mirrorVars, history>>

-----------------------------------------------------------------------------

TreeUse(n) == \E p \in Path : Adopt(n, p) \/ Readopt(n, p) \/ Delete(n, p)

WatcherUse(c) ==
  \/ AdoptProxy(c) \/ Detach(c)
  \/ \E p \in Path : SyncChildren(c, p) \/ ResetConnection(c, p) \/ \E v \in Val : UserSetsValue(c, p, v)

CallUse(n, to) ==
  \/ \E call \in Calls : Call(n, to, call.path, call.arg)
  \/ CallRegister(n, to)

Network == \E m \in BagToSet(net) : Lose(m) \/ Duplicate(m)

Next ==
  \/ Deliver \/ Network
  \/ \E n \in Server : TreeUse(n)
  \/ \E c \in Watcher : WatcherUse(c)
  \/ \E n \in Node, to \in Server : CallUse(n, to)

Spec == Init /\ [][Next]_vars

FairSpec == Spec /\ WF_vars(Deliver)

-----------------------------------------------------------------------------
(* Properties *)

Quiet == net = EmptyBag

(* What a node has ever had under a path, its meta methods included. *)
Ever(n) == {e[1] : e \in ever[n]} \cup (IF n \in HasMeta THEN MetaPath ELSE {})

(* root_proxy.h:45 "maintain a 'ghost' tree that mirrors a remote 'real'    *)
(* tree": whatever is lost, doubled or overtaken, a mirror has no object    *)
(* that its remote never had, no type but the one of that object, no value  *)
(* the object never had, and no object without its parent.                  *)
MirrorIsSound ==
  \A c \in Watcher : \A p \in DOMAIN mirror[c] :
    LET proxy == mirror[c][p] IN
    /\ p \in Ever(Remote[c])
    /\ proxy.attrs.type \in {"none", AttrsOf(p).type}
    /\ proxy.value.is = "real" => <<p, proxy.value.num>> \in ever[Remote[c]]
    /\ Up(p) \in Mirrored(c)

(* When nothing is lost and all messages are received, an attached proxy    *)
(* has all that its factory builds of what is under the root of its remote, *)
(* if that can be listed, and of all it was told of since it was adopted.   *)
MirrorIsComplete ==
  \A c \in Watcher :
    LET n == Remote[c] IN
    Quiet /\ attached[c] /\ "lost" \notin broken =>
      /\ n \in HasMeta =>
           {p \in DOMAIN objects[n] : Len(p) = 1 /\ Builds(p)} \subseteq DOMAIN mirror[c]
      /\ "cut" \notin broken =>
           {p \in told[c] : Builds(SubSeq(p, 1, 1))} \subseteq DOMAIN mirror[c]

(* command.cpp:144-159: who calls is answered, by a reply or an error, also *)
(* when it has never registered.                                            *)
CallersAreAnswered ==
  Quiet /\ "lost" \notin broken => \A n \in Node : waiting[n] = Root_

(* object_proxy.h:104-105: a proxy that is connected has "type and value    *)
(* ... synced with remote", once all messages are received, if its object   *)
(* is still there.                                                          *)
ConnectedIsSynced ==
  Quiet /\ broken = {} =>
    \A c \in Watcher : attached[c] =>
      \A p \in DOMAIN mirror[c] \cap DOMAIN objects[Remote[c]] :
        TypeOf(mirror[c][p].attrs) # "none" => mirror[c][p].value # Empty

(* Answers are not answered for ever: when its users leave it alone, the    *)
(* network falls silent.                                                    *)
MessagesEnd == <>[]Quiet

=============================================================================
