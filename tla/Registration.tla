---------------------------- MODULE Registration ----------------------------
(***************************************************************************)
(* ZeroConfRegistration as built for Linux (src/linux/                      *)
(* zeroconf_registration.cpp): the callbacks that register a service with   *)
(* the Avahi daemon under a name that nobody else has.  The daemon, external *)
(* to the repository, changes its state, answers add_service and commit,    *)
(* and finds collisions; it tells in a queue of events, which the poll's    *)
(* thread turns into callbacks one after the other.                         *)
(*                                                                          *)
(* A name is a number: avahi_alternative_service_name gives the next one.   *)
(***************************************************************************)
EXTENDS Integers, Sequences, FiniteSets

CONSTANTS
  OnHost,      \* names that another program of this host has registered
  OnNetwork,   \* names that other hosts have
  MaxServerEvents, MaxFailures   \* bounds of the model

ASSUME RegistrationAssumption ==
  /\ OnHost \in SUBSET Nat /\ OnNetwork \in SUBSET Nat /\ IsFiniteSet(OnHost)
  /\ MaxServerEvents \in Nat /\ MaxFailures \in Nat

VARIABLES
  server,      \* the daemon's state
  group,       \* the entry group: "null", "empty", "filled", "registering", "established"
  entry,       \* the name in the group
  avahiEvents, \* callbacks to come: <<of whom, which>>
  name_,       \* the Implementation's name
  regName,     \* what the ZeroConfRegistration says its name is, 0 before it is told
  running_,    \* the poll's thread runs callbacks
  aborted,     \* the library was handed a group that is NULL
  overtaken,   \* a collision was heard of when the group had been filled again
  serverEvents, failures

implVars == <<name_, regName, running_, aborted, overtaken>>
regVars == <<server, group, entry, avahiEvents, implVars, serverEvents, failures>>

Fresh(n) == n \notin OnHost
FirstFresh(n) ==
  CHOOSE m \in n..(n + Cardinality(OnHost)) : Fresh(m) /\ \A l \in n..(m - 1) : ~Fresh(l)
ServerState == {"running", "registering", "collision", "connecting"}

(* The constructor makes the client, which is called back with the state of *)
(* the daemon, and starts the poll.                                         *)
RegistrationInit ==
  /\ server \in ServerState
  /\ group = "null" /\ entry = 0
  /\ avahiEvents = <<<<"client", server>>>>
  /\ name_ = 1 /\ regName = 0
  /\ running_ = TRUE /\ aborted = FALSE /\ overtaken = FALSE
  /\ serverEvents = 0 /\ failures = 0

-----------------------------------------------------------------------------
(* The daemon *)

Tell(whom, what) == avahiEvents' = Append(avahiEvents, <<whom, what>>)

ServerChanges(s) ==
  /\ s # server /\ serverEvents < MaxServerEvents
  /\ serverEvents' = serverEvents + 1
  /\ server' = s /\ Tell("client", s)
  /\ UNCHANGED <<group, entry, implVars, failures>>

(* A committed group collides with another host, which empties it, or is    *)
(* published.                                                               *)
GroupResolves ==
  /\ group = "registering"
  /\ IF entry \in OnNetwork THEN group' = "empty" /\ Tell("group", "collision")
     ELSE group' = "established" /\ Tell("group", "established")
  /\ UNCHANGED <<server, entry, implVars, serverEvents, failures>>

Fails(whom) ==
  /\ failures < MaxFailures /\ failures' = failures + 1
  /\ Tell(whom, "failure")
  /\ UNCHANGED <<server, group, entry, implVars, serverEvents>>

-----------------------------------------------------------------------------
(* Callbacks *)

(* create_services with name n: a local collision takes the next name and   *)
(* begins again.  The library may refuse the group, the entry or the commit. *)
CreateServices(n) ==
  \/ /\ group \notin {"null", "empty"}
     /\ name_' = n /\ UNCHANGED <<group, entry, failures>>
  \/ /\ group \in {"null", "empty"}
     /\ group' = "registering" /\ entry' = FirstFresh(n) /\ name_' = FirstFresh(n)
     /\ UNCHANGED failures
  \/ /\ group \in {"null", "empty"}
     /\ failures < MaxFailures /\ failures' = failures + 1
     /\ \/ group' = group /\ name_' = n /\ UNCHANGED entry
        \/ group' = "empty" /\ name_' = FirstFresh(n) /\ UNCHANGED entry
        \/ group' = "filled" /\ name_' = FirstFresh(n) /\ entry' = FirstFresh(n)

Next_(whom, what) ==
  /\ running_ /\ ~aborted
  /\ avahiEvents # <<>> /\ Head(avahiEvents) = <<whom, what>>
  /\ avahiEvents' = Tail(avahiEvents)
  /\ UNCHANGED <<server, serverEvents>>

ServerRunning ==
  /\ Next_("client", "running")
  /\ CreateServices(name_)
  /\ UNCHANGED <<regName, running_, aborted, overtaken>>

ServerNotReady ==
  /\ Next_("client", "collision") \/ Next_("client", "registering")
  /\ aborted' = (group = "null")
  /\ group' = IF group = "null" THEN group ELSE "empty"
  /\ UNCHANGED <<entry, name_, regName, running_, overtaken, failures>>

ServerConnecting ==
  /\ Next_("client", "connecting")
  /\ UNCHANGED <<group, entry, implVars, failures>>

(* Mutant: the name that was asked for is reported. *)
GroupEstablishedAsAsked ==
  /\ Next_("group", "established")
  /\ regName' = 1
  /\ UNCHANGED <<group, entry, name_, running_, aborted, overtaken, failures>>

GroupEstablished ==
  /\ Next_("group", "established")
  /\ regName' = name_
  /\ UNCHANGED <<group, entry, name_, running_, aborted, overtaken, failures>>

(* Mutant: the new name is not tried. *)
GroupCollisionLeft ==
  /\ Next_("group", "collision")
  /\ name_' = name_ + 1
  /\ UNCHANGED <<group, entry, regName, running_, aborted, overtaken, failures>>

GroupCollision ==
  /\ Next_("group", "collision")
  /\ CreateServices(name_ + 1)
  /\ overtaken' = (overtaken \/ group # "empty")
  /\ UNCHANGED <<regName, running_, aborted>>

(* quit *)
Failure_ ==
  /\ Next_("client", "failure") \/ Next_("group", "failure")
  /\ running_' = FALSE
  /\ UNCHANGED <<group, entry, name_, regName, aborted, overtaken, failures>>

(* stop, called by whoever deletes it *)
StopRegistration ==
  /\ running_ /\ running_' = FALSE
  /\ UNCHANGED <<server, group, entry, avahiEvents, name_, regName, aborted, overtaken, serverEvents, failures>>

Callback ==
  \/ ServerRunning \/ ServerNotReady \/ ServerConnecting
  \/ GroupEstablished \/ GroupCollision \/ Failure_

RegistrationNext ==
  \/ GroupResolves \/ Callback \/ StopRegistration
  \/ \E s \in ServerState : ServerChanges(s)
  \/ \E whom \in {"client", "group"} : Fails(whom)

RegistrationSpec == RegistrationInit /\ [][RegistrationNext]_regVars

-----------------------------------------------------------------------------
(* Properties *)

(* When there is nothing left to hear, the name that is reported is the one *)
(* that the daemon publishes, and nobody else has it: unless the daemon was *)
(* busy while it told of a collision, so that the group is filled again     *)
(* before the next name is taken, which is then reported and not published. *)
Settled == group = "established" /\ avahiEvents = <<>> /\ ~aborted /\ ~overtaken
NameIsPublished == Settled => regName = entry
NameIsUnique == Settled => entry \notin OnHost \cup OnNetwork
NameIsOurs == NameIsPublished /\ NameIsUnique

(* The service is published under some name when the daemon runs, whatever  *)
(* collides and however often the daemon was busy before: unless the poll   *)
(* was stopped, a call of the library was refused, or the daemon was busy   *)
(* before there was a group to reset.                                       *)
RegisteredAtLast ==
  <>[](server = "running") =>
    <>[](group = "established" \/ ~running_ \/ aborted \/ failures > 0)

=============================================================================
