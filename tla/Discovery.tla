----------------------------- MODULE Discovery -----------------------------
(***************************************************************************)
(* Devices that appear and disappear on the network become root proxies of  *)
(* a command: ZeroConfBrowser (zeroconf_browser_common.cpp and              *)
(* linux/zeroconf_browser.cpp), ProxyFactory, RootProxy's links and         *)
(* Command's dictionary of proxies.                                         *)
(*                                                                          *)
(* Three threads: avahi's, which runs the callbacks of the browser one by   *)
(* one; the command's, which hands the replies to the proxies; and the      *)
(* user's, which sets the objects up and takes them down in the order of a  *)
(* program.  The browser's own lock is left out: only avahi's thread takes  *)
(* it.  A location is the address (ip and port) that it resolves to, which  *)
(* is what Location's == and hashId go by once it is resolved.              *)
(***************************************************************************)
EXTENDS Naturals, Sequences, FiniteSets

CONSTANTS
  Names,        \* service names
  Interfaces,   \* network interfaces: a service is announced on each
  Addresses,    \* the addresses each name may have, [Names -> SUBSET Address]
  Programs,     \* what the user's thread may do, sequences over Steps
  LockedDelete, \* the user's delete_proxy takes the command's lock
  MaxAnnounced, MaxFailures, MaxProxies,  \* bounds of the model
  None

Proxies == 1..MaxProxies
Address == UNION {Addresses[n] : n \in Names}
Steps == {"factory", "adopt", "start", "stop", "command", "derived", "base"}

ASSUME DiscoveryAssumption ==
  /\ None \notin Address \cup Proxies
  /\ \A n \in Names : Addresses[n] # {}
  /\ Programs \subseteq Seq(Steps)
  /\ LockedDelete \in BOOLEAN
  /\ MaxAnnounced \in Nat /\ MaxFailures \in Nat /\ MaxProxies \in Nat

VARIABLES
  announced, address,     \* the network: who is announced where, and how often
  announcements,          \* a service has been announced
  session,                \* avahi's thread: "off", "on", or "quit" by itself
  events, resolving,      \* avahi's events to come, and lookups under way
  failures,               \* lookups of an announced service that failed
  running_, found_devices_, proxy_factory_,  \* the browser
  browser,                \* "whole", its derived part gone ("base"), or "dead"
  callback,               \* what a callback of avahi is about to do
  command,                \* the command exists
  root_proxies_, root_proxies_vector_,       \* its proxies, twice
  proxy,                  \* the proxies
  handling,               \* the proxy that the command's thread is using
  program                 \* what is left to the user's thread

network == <<announced, address, announcements>>
avahi == <<session, events, resolving, failures>>
device == <<running_, found_devices_, proxy_factory_, browser>>
registry == <<command, root_proxies_, root_proxies_vector_>>
vars == <<network, avahi, device, callback, registry, proxy, handling, program>>

NoCallback == [at |-> "idle", proxy |-> None]

Unborn == [state |-> "unborn", command_ |-> FALSE, location |-> None,
           factory |-> 0]

Init ==
  /\ announced = {} /\ announcements = 0
  /\ address \in [Names -> Address] /\ \A n \in Names : address[n] \in Addresses[n]
  /\ session = "off" /\ events = <<>> /\ resolving = {} /\ failures = 0
  /\ running_ = FALSE /\ browser = "whole" /\ proxy_factory_ = 0
  /\ found_devices_ = [n \in Names |-> None]
  /\ callback = NoCallback
  /\ command = TRUE
  /\ root_proxies_ = [a \in Address |-> None] /\ root_proxies_vector_ = <<>>
  /\ proxy = [p \in Proxies |-> Unborn]
  /\ handling = None
  /\ program \in Programs

-----------------------------------------------------------------------------
(* The network *)

Event(kind, n, i) ==
  events' = IF session = "on"
            THEN Append(events, [kind |-> kind, name |-> n, interface |-> i])
            ELSE events

(* A service appears on an interface; when it was nowhere it may come back  *)
(* at another address.                                                      *)
Announce(n, i) ==
  /\ <<n, i>> \notin announced
  /\ announcements < MaxAnnounced
  /\ announcements' = announcements + 1
  /\ announced' = announced \cup {<<n, i>>}
  /\ \E a \in Addresses[n] :
       /\ (\E j \in Interfaces : <<n, j>> \in announced) => a = address[n]
       /\ address' = [address EXCEPT ![n] = a]
  /\ Event("new", n, i)
  /\ UNCHANGED <<session, resolving, failures, device, callback, registry,
                 proxy, handling, program>>

Withdraw(n, i) ==
  /\ <<n, i>> \in announced
  /\ announced' = announced \ {<<n, i>>}
  /\ Event("remove", n, i)
  /\ UNCHANGED <<address, announcements, session, resolving, failures, device,
                 callback, registry, proxy, handling, program>>

-----------------------------------------------------------------------------
(* Command's dictionary of proxies and a proxy's link to it *)

FindProxy(a) == root_proxies_[a]

(* The vector without the first entry of p, its only one.                   *)
Erased(seq, p) ==
  IF \E k \in DOMAIN seq : seq[k] = p
  THEN LET k == CHOOSE k \in DOMAIN seq : seq[k] = p /\ \A j \in 1..(k - 1) : seq[j] # p
       IN  [i \in 1..(Len(seq) - 1) |-> seq[IF i < k THEN i ELSE i + 1]]
  ELSE seq

(* Mutant: the vector is forgotten. *)
UnregisteredHashOnly(p) ==
  /\ root_proxies_' = [a \in Address |-> IF root_proxies_[a] = p THEN None
                                         ELSE root_proxies_[a]]
  /\ UNCHANGED root_proxies_vector_

(* unregister_proxy                                                         *)
Unregistered(p) ==
  /\ root_proxies_' = [a \in Address |-> IF root_proxies_[a] = p THEN None
                                         ELSE root_proxies_[a]]
  /\ root_proxies_vector_' = Erased(root_proxies_vector_, p)

(* register_proxy: a proxy of the same location is replaced in the hash.    *)
Registered(p, a) ==
  /\ root_proxies_' = [b \in Address |->
                         IF b = a THEN p
                         ELSE IF root_proxies_[b] = p THEN None
                         ELSE root_proxies_[b]]
  /\ root_proxies_vector_' = Append(Erased(root_proxies_vector_, p), p)

Fresh(p) == /\ proxy[p].state = "unborn"
            /\ \A q \in 1..(p - 1) : proxy[q].state # "unborn"

(* Mutant: the constructor does not keep the location. *)
BornNowhere(p, a, linked, factory) ==
  proxy' = [proxy EXCEPT ![p] = [state |-> "alive", command_ |-> linked,
                                 location |-> None, factory |-> factory]]

Born(p, a, linked, factory) ==
  proxy' = [proxy EXCEPT ![p] = [state |-> "alive", command_ |-> linked,
                                 location |-> a, factory |-> factory]]

-----------------------------------------------------------------------------
(* Avahi's thread *)

HandlesEvent(kind) ==
  /\ session = "on" /\ callback = NoCallback
  /\ events # <<>> /\ Head(events).kind = kind
  /\ events' = Tail(events)

Lookup(e) == [name |-> e.name, interface |-> e.interface,
              address |-> address[e.name]]

(* Mutant: no second lookup while one of the same name is under way. *)
BrowserNewOnce ==
  /\ HandlesEvent("new")
  /\ resolving' = IF \E r \in resolving : r.name = Head(events).name
                  THEN resolving ELSE resolving \cup {Lookup(Head(events))}
  /\ UNCHANGED <<network, session, failures, device, callback, registry, proxy,
                 handling, program>>

(* AVAHI_BROWSER_NEW: look the address up. *)
BrowserNew ==
  /\ HandlesEvent("new")
  /\ resolving' = resolving \cup {Lookup(Head(events))}
  /\ UNCHANGED <<network, session, failures, device, callback, registry, proxy,
                 handling, program>>

Answers(r) ==
  /\ session = "on" /\ callback = NoCallback
  /\ resolving' = resolving \ {r}
  /\ UNCHANGED <<network, session, events, running_, proxy_factory_, browser,
                 registry, handling, program>>

(* Mutant: add_proxy does not look for a proxy of that location. *)
ResolveAlways(r) ==
  /\ Answers(r)
  /\ UNCHANGED failures
  /\ IF found_devices_[r.name] # None
     THEN UNCHANGED <<found_devices_, callback, proxy>>
     ELSE /\ found_devices_' = [found_devices_ EXCEPT ![r.name] = r.address]
          /\ IF proxy_factory_ = 0
             THEN UNCHANGED <<callback, proxy>>
             ELSE \E p \in Proxies :
                    /\ Fresh(p)
                    /\ Born(p, r.address, FALSE, proxy_factory_)
                    /\ callback' = [at |-> "adopt", proxy |-> p]

(* AVAHI_RESOLVER_FOUND: add_device and add_proxy, up to the new proxy.  A  *)
(* lookup may be answered after the service was withdrawn.                  *)
Resolve(r) ==
  /\ Answers(r)
  /\ UNCHANGED failures
  /\ IF found_devices_[r.name] # None
     THEN UNCHANGED <<found_devices_, callback, proxy>>
     ELSE /\ found_devices_' = [found_devices_ EXCEPT ![r.name] = r.address]
          /\ IF proxy_factory_ = 0 \/ FindProxy(r.address) # None
             THEN UNCHANGED <<callback, proxy>>
             ELSE \E p \in Proxies :
                    /\ Fresh(p)
                    /\ Born(p, r.address, FALSE, proxy_factory_)
                    /\ callback' = [at |-> "adopt", proxy |-> p]

(* AVAHI_RESOLVER_FAILURE: there is no other try. *)
ResolveFails(r) ==
  /\ Answers(r)
  /\ IF <<r.name, r.interface>> \in announced /\ address[r.name] = r.address
     THEN failures < MaxFailures /\ failures' = failures + 1
     ELSE UNCHANGED failures
  /\ UNCHANGED <<found_devices_, callback, proxy>>

(* adopt_proxy: RootProxy::set_command registers the proxy, then greets the *)
(* remote (/.register, list of children).                                   *)
AdoptProxy ==
  /\ callback.at = "adopt"
  /\ proxy' = [proxy EXCEPT ![callback.proxy].command_ = TRUE]
  /\ Registered(callback.proxy, proxy[callback.proxy].location)
  /\ callback' = NoCallback
  /\ UNCHANGED <<network, avahi, device, command, handling, program>>

(* Mutant: the device is not forgotten. *)
BrowserRemoveKeep ==
  /\ HandlesEvent("remove")
  /\ LET a == found_devices_[Head(events).name]
         p == IF a = None THEN None ELSE FindProxy(a)
     IN callback' = IF p = None THEN NoCallback
                    ELSE [at |-> "detach", proxy |-> p]
  /\ UNCHANGED <<network, session, resolving, failures, device, registry, proxy,
                 handling, program>>

(* AVAHI_BROWSER_REMOVE: remove_device and remove_proxy, up to find_proxy.  *)
BrowserRemove ==
  /\ HandlesEvent("remove")
  /\ LET n == Head(events).name
         a == found_devices_[n]
         p == IF a = None THEN None ELSE FindProxy(a)
     IN /\ found_devices_' = [found_devices_ EXCEPT ![n] = None]
        /\ callback' = IF p = None THEN NoCallback
                       ELSE [at |-> "detach", proxy |-> p]
  /\ UNCHANGED <<network, session, resolving, failures, running_,
                 proxy_factory_, browser, registry, proxy, handling, program>>

(* proxy->detach() *)
Detach ==
  /\ callback.at = "detach"
  /\ IF proxy[callback.proxy].command_
     THEN Unregistered(callback.proxy)
     ELSE UNCHANGED <<root_proxies_, root_proxies_vector_>>
  /\ proxy' = [proxy EXCEPT ![callback.proxy].command_ = FALSE]
  /\ callback' = [callback EXCEPT !.at = "delete"]
  /\ UNCHANGED <<network, avahi, device, command, handling, program>>

(* Mutant: the lock is not taken. *)
DeleteProxyUnlocked ==
  /\ callback.at = "delete"
  /\ proxy' = [proxy EXCEPT ![callback.proxy].state = "deleted"]
  /\ callback' = NoCallback
  /\ UNCHANGED <<network, avahi, device, registry, handling, program>>

(* delete_proxy(proxy): virtual, so the user's only as long as that part of *)
(* the browser exists.                                                      *)
DeleteProxy ==
  /\ callback.at = "delete"
  /\ LockedDelete /\ browser = "whole" => handling = None
  /\ proxy' = [proxy EXCEPT ![callback.proxy].state = "deleted"]
  /\ callback' = NoCallback
  /\ UNCHANGED <<network, avahi, device, registry, handling, program>>

(* AVAHI_CLIENT_FAILURE or AVAHI_BROWSER_FAILURE: avahi_threaded_poll_quit. *)
Quit ==
  /\ session = "on" /\ callback = NoCallback
  /\ session' = "quit"
  /\ events' = <<>> /\ resolving' = {}
  /\ UNCHANGED <<network, failures, device, callback, registry, proxy,
                 handling, program>>

AvahiThread ==
  \/ BrowserNew \/ BrowserRemove
  \/ \E r \in resolving : Resolve(r) \/ ResolveFails(r)
  \/ AdoptProxy \/ Detach \/ DeleteProxy

-----------------------------------------------------------------------------
(* The command's thread, from find_proxy to the end of handle_reply, under  *)
(* the command's lock.                                                      *)

HandleReply(a) ==
  /\ command /\ handling = None
  /\ FindProxy(a) # None
  /\ handling' = FindProxy(a)
  /\ UNCHANGED <<network, avahi, device, callback, registry, proxy, program>>

ReplyHandled ==
  /\ handling # None
  /\ handling' = None
  /\ UNCHANGED <<network, avahi, device, callback, registry, proxy, program>>

-----------------------------------------------------------------------------
(* The user's thread *)

Does(step) ==
  /\ program # <<>> /\ Head(program) = step
  /\ program' = Tail(program)

(* adopt_proxy_factory: the factory before is deleted. *)
AdoptFactory ==
  /\ Does("factory")
  /\ proxy_factory_' = proxy_factory_ + 1
  /\ UNCHANGED <<network, avahi, running_, found_devices_, browser, callback,
                 registry, proxy, handling>>

(* The user gives the command a proxy of his own, without a factory. *)
UserAdopts ==
  /\ Does("adopt") /\ command
  /\ \E a \in Address, p \in Proxies :
       /\ Fresh(p)
       /\ Born(p, a, TRUE, 0)
       /\ Registered(p, a)
  /\ UNCHANGED <<network, avahi, device, callback, command, handling>>

(* set_command: start, unless running. *)
Start ==
  /\ Does("start")
  /\ IF running_
     THEN UNCHANGED <<session, running_, events>>
     ELSE /\ session' = "on" /\ running_' = TRUE
          /\ \E order \in [1..Cardinality(announced) -> announced] :
               /\ \A s \in announced : \E k \in DOMAIN order : order[k] = s
               /\ events' = [k \in DOMAIN order |->
                               [kind |-> "new", name |-> order[k][1],
                                interface |-> order[k][2]]]
  /\ UNCHANGED <<network, resolving, failures, found_devices_, proxy_factory_,
                 browser, callback, registry, proxy, handling>>

(* Mutant: the callback that is running is not waited for. *)
StoppedAtOnce ==
  IF running_
  THEN /\ session' = "off" /\ running_' = FALSE
       /\ events' = <<>> /\ resolving' = {}
  ELSE UNCHANGED <<session, running_, events, resolving>>

(* stop: avahi_threaded_poll_stop joins avahi's thread. *)
Stopped ==
  IF running_
  THEN /\ callback = NoCallback
       /\ session' = "off" /\ running_' = FALSE
       /\ events' = <<>> /\ resolving' = {}
  ELSE UNCHANGED <<session, running_, events, resolving>>

Stop ==
  /\ Does("stop")
  /\ Stopped
  /\ UNCHANGED <<network, failures, found_devices_, proxy_factory_, browser,
                 callback, registry, proxy, handling>>

(* ~Command joins its thread and deletes the proxies of its dictionary.     *)
DeleteCommand ==
  /\ Does("command")
  /\ handling = None
  /\ command' = FALSE
  /\ proxy' = [p \in Proxies |->
                 IF \E a \in Address : root_proxies_[a] = p
                 THEN [proxy[p] EXCEPT !.state = "deleted", !.command_ = FALSE]
                 ELSE proxy[p]]
  /\ UNCHANGED <<network, avahi, device, callback, root_proxies_,
                 root_proxies_vector_, handling>>

(* The destructor of the user's browser ... *)
DeleteDerived ==
  /\ Does("derived")
  /\ browser' = "base"
  /\ UNCHANGED <<network, avahi, running_, found_devices_, proxy_factory_,
                 callback, registry, proxy, handling>>

(* ... and ~ZeroConfBrowser: stop, then delete the factory. *)
DeleteBase ==
  /\ Does("base")
  /\ Stopped
  /\ browser' = "dead"
  /\ UNCHANGED <<network, failures, found_devices_, proxy_factory_, callback,
                 registry, proxy, handling>>

User ==
  \/ AdoptFactory \/ UserAdopts \/ Start \/ Stop
  \/ DeleteCommand \/ DeleteDerived \/ DeleteBase

Next ==
  \/ \E n \in Names, i \in Interfaces : Announce(n, i) \/ Withdraw(n, i)
  \/ AvahiThread \/ Quit
  \/ \E a \in Address : HandleReply(a)
  \/ ReplyHandled
  \/ User

Spec == Init /\ [][Next]_vars

(* Avahi's thread runs, lookups end, a reply is handled to its end, and a   *)
(* thread that waits for the command's lock gets it however many replies    *)
(* come in.  A device may stay or go and the user may do nothing.           *)
Fairness ==
  /\ WF_vars(BrowserNew \/ BrowserRemove) /\ WF_vars(ReplyHandled)
  /\ WF_vars(AdoptProxy \/ Detach) /\ SF_vars(DeleteProxy)
  /\ \A n \in Names :
       WF_vars(\E r \in resolving :
                 r.name = n /\ (Resolve(r) \/ ResolveFails(r)))

FairSpec == Spec /\ Fairness

-----------------------------------------------------------------------------
TypeOK ==
  /\ announced \subseteq Names \X Interfaces
  /\ address \in [Names -> Address]
  /\ session \in {"off", "on", "quit"} /\ running_ \in BOOLEAN
  /\ \A k \in DOMAIN events : /\ events[k].kind \in {"new", "remove"}
                              /\ events[k].name \in Names
                              /\ events[k].interface \in Interfaces
  /\ resolving \subseteq [name : Names, interface : Interfaces,
                          address : Address]
  /\ found_devices_ \in [Names -> Address \cup {None}]
  /\ proxy_factory_ \in Nat /\ browser \in {"whole", "base", "dead"}
  /\ callback.at \in {"idle", "adopt", "detach", "delete"}
  /\ callback.proxy \in IF callback.at = "idle" THEN {None} ELSE Proxies
  /\ command \in BOOLEAN
  /\ root_proxies_ \in [Address -> Proxies \cup {None}]
  /\ root_proxies_vector_ \in Seq(Proxies)
  /\ proxy \in [Proxies -> [state : {"unborn", "alive", "deleted"},
                            command_ : BOOLEAN, location : Address \cup {None},
                            factory : Nat]]
  /\ \A p \in Proxies : proxy[p].state # "unborn" => proxy[p].location # None
  /\ handling \in Proxies \cup {None}
  /\ announcements \in 0..MaxAnnounced /\ failures \in 0..MaxFailures
  /\ program \in Seq(Steps)

(* While the command exists, its hash, its vector and the proxies' own link *)
(* tell the same: no entry of a deleted proxy, none that is linked and      *)
(* cannot be found (command.cpp:202-219, root_proxy.cpp:41-49).             *)
RegistryAgrees ==
  command =>
    /\ \A a \in Address : root_proxies_[a] # None =>
         /\ proxy[root_proxies_[a]].state = "alive"
         /\ proxy[root_proxies_[a]].location = a
         /\ proxy[root_proxies_[a]].command_
    /\ \A p \in Proxies : proxy[p].command_ =>
         root_proxies_[proxy[p].location] = p
    /\ \A p \in Proxies :
         Cardinality({k \in DOMAIN root_proxies_vector_ :
                        root_proxies_vector_[k] = p})
           = IF proxy[p].command_ THEN 1 ELSE 0

(* Command's destructor leaves no proxy behind, the browser's included.     *)
NothingLeaks ==
  ~command => \A p \in Proxies : proxy[p].state # "alive"

(* A reply is handled by a proxy that exists, and that builds its children  *)
(* with a factory that exists (root_proxy.cpp:95, 132).                     *)
HandledIsAlive ==
  handling # None =>
    /\ command
    /\ proxy[handling].state = "alive"
    /\ proxy[handling].factory = 0
         \/ (proxy[handling].factory = proxy_factory_ /\ browser # "dead")

(* "make sure the callbacks (add_device, remove_device) are not called in   *)
(* the middle of a class destruction" (zeroconf_browser.h:94-97): a callback*)
(* in progress has the whole browser and its command.                       *)
CallbackIsSafe == callback # NoCallback => browser = "whole" /\ command

(* Between two callbacks, every device found has a proxy that can be found  *)
(* by the location kept for it: removing the device will delete the proxy.  *)
FoundHasProxy ==
  command /\ callback = NoCallback =>
    \A n \in Names : found_devices_[n] # None =>
      root_proxies_[found_devices_[n]] # None

(* No proxy is lost or listed twice between the browser, the command that   *)
(* owns it and its own link to that command.                                *)
ProxiesAreListed == TypeOK /\ RegistryAgrees /\ NothingLeaks

(* What a callback or a reply is using, in the browser's or in the command's*)
(* thread, the other thread and the owner have not deleted.                 *)
NothingUsedIsGone == HandledIsAlive /\ CallbackIsSafe /\ FoundHasProxy

(* A service that stays announced while the browser listens is found, even  *)
(* when it comes back before the lookups of its first life have ended.      *)
AnnouncedIsFound ==
  \A n \in Names, i \in Interfaces :
    (<>[](session = "on" /\ <<n, i>> \in announced))
      => <>[](session = "on" => found_devices_[n] # None)

-----------------------------------------------------------------------------
(* What the user's program must keep to for the registry to be sound: the   *)
(* factory and a proxy of his own come before the browser is started, the   *)
(* browser is stopped before anything is taken down, and never started      *)
(* again then, and the command is deleted before the browser and its        *)
(* factory.                                                                 *)
Setup == {"factory", "adopt"}
Teardown == {"command", "derived", "base"}

InOrder(steps) ==
  \A i, j \in DOMAIN steps : i < j =>
    /\ steps[i] = "start" \/ steps[i] \in Teardown => steps[j] \notin Setup
    /\ steps[i] \in Teardown => steps[j] # "start"
    /\ steps[i] = "adopt" => steps[j] # "adopt"
    /\ steps[i] = "start" /\ steps[j] \in Teardown =>
         \E k \in DOMAIN steps : i < k /\ k < j /\ steps[k] = "stop"

After(steps, step, before) ==
  \A j \in DOMAIN steps : steps[j] = step =>
    \E i \in DOMAIN steps : i < j /\ steps[i] = before

Orderly(steps) ==
  /\ InOrder(steps)
  /\ After(steps, "start", "factory") /\ After(steps, "base", "command")

(* No two names have an address in common.                                  *)
AddressesAreOwn ==
  \A n, k \in Names : n # k => Addresses[n] \cap Addresses[k] = {}

-----------------------------------------------------------------------------
(* What does not hold *)

(* A device is kept as found only while it is announced: refuted by a lookup*)
(* that ends after the removal.                                             *)
FoundIsAnnounced ==
  session = "on" /\ events = <<>> /\ resolving = {} /\ callback = NoCallback
    => \A n \in Names : found_devices_[n] # None =>
         /\ \E i \in Interfaces : <<n, i>> \in announced
         /\ found_devices_[n] = address[n]

(* "Return true if the browser is running (searching for devices)."         *)
(* (zeroconf_browser.h:100): refuted when avahi's thread has quit.          *)
RunningIsTrue == running_ => session = "on"
=============================================================================
