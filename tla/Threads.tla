------------------------------- MODULE Threads ------------------------------
(***************************************************************************)
(* A Thread (include/oscit/thread.h, src/thread.cpp), which one owner       *)
(* starts, kills, joins or tells to quit, and a Semaphore of several        *)
(* resources (include/oscit/semaphore.h), of which callers take one or many. *)
(*                                                                          *)
(* A body is the thread that pthread_create made in the n-th start.         *)
(***************************************************************************)
EXTENDS Integers, FiniteSets, Sequences

CONSTANTS
  Caller, Wanted,   \* of each caller of the semaphore: the resources it wants
  Resources,        \* resource_count_
  MaxStarts, MaxUses   \* bounds of the model

Nobody_ == "nobody"

ASSUME ThreadsAssumption ==
  /\ Resources \in Nat \ {0} /\ Wanted \in [Caller -> 1..Resources]
  /\ MaxStarts \in Nat /\ MaxUses \in Nat
  /\ Nobody_ \notin Caller

VARIABLES
  thread_id_,    \* the body it identifies, 0 for NULL
  should_run_,
  ready_,        \* the count of the Thread's semaphore_
  owner,         \* the call the owner is in and the body it waits for
  bodies,        \* of each body so far: "new", "armed", "runs", "over", "gone"
  crashed,       \* pthread_cancel or pthread_join of NULL
  resources_,    \* free resources of the Semaphore
  acquire_mutex_,
  use            \* of each caller: where it is, what it holds, its uses so far

threadVars == <<thread_id_, should_run_, ready_, owner, bodies, crashed>>
semaphoreVars == <<resources_, acquire_mutex_, use>>

ThreadsInit ==
  /\ thread_id_ = 0 /\ should_run_ = FALSE /\ ready_ = 0
  /\ owner = [pc |-> "idle", b |-> 0] /\ bodies = <<>> /\ crashed = FALSE
  /\ resources_ = Resources /\ acquire_mutex_ = Nobody_
  /\ use = [c \in Caller |-> [pc |-> "idle", held |-> 0, uses |-> 0]]

-----------------------------------------------------------------------------
(* The owner *)

OwnerAt(pc) == owner.pc = pc /\ ~crashed
Free == OwnerAt("idle")
OwnerTo(pc) == owner' = [pc |-> pc, b |-> 0]

(* start_thread: refused when it runs; create, and wait for thread_ready. *)
Start ==
  /\ Free /\ thread_id_ = 0 /\ Len(bodies) < MaxStarts
  /\ should_run_' = TRUE
  /\ bodies' = Append(bodies, "new") /\ thread_id_' = Len(bodies) + 1
  /\ OwnerTo("start")
  /\ UNCHANGED <<ready_, crashed>>

Started ==
  /\ OwnerAt("start") /\ ready_ > 0
  /\ ready_' = ready_ - 1 /\ OwnerTo("idle")
  /\ UNCHANGED <<thread_id_, should_run_, bodies, crashed>>

Quit ==
  /\ Free /\ should_run_' = FALSE
  /\ UNCHANGED <<thread_id_, ready_, owner, bodies, crashed>>

(* kill: thread_id_ is read for the test, to cancel, and to join. *)
Kill ==
  /\ Free /\ should_run_' = FALSE
  /\ OwnerTo(IF thread_id_ = 0 THEN "idle" ELSE "cancel")
  /\ UNCHANGED <<thread_id_, ready_, bodies, crashed>>

(* A body is cancelled where it sleeps or waits, in its method. *)
Cancel ==
  /\ OwnerAt("cancel")
  /\ crashed' = (thread_id_ = 0)
  /\ bodies' = [b \in DOMAIN bodies |->
       IF b = thread_id_ /\ bodies[b] = "runs" THEN "gone" ELSE bodies[b]]
  /\ OwnerTo("join")
  /\ UNCHANGED <<thread_id_, should_run_, ready_>>

Join ==
  /\ Free /\ thread_id_ # 0
  /\ OwnerTo("join")
  /\ UNCHANGED <<thread_id_, should_run_, ready_, bodies, crashed>>

JoinBegin ==
  /\ OwnerAt("join")
  /\ crashed' = (thread_id_ = 0)
  /\ owner' = [pc |-> "wait", b |-> thread_id_]
  /\ UNCHANGED <<thread_id_, should_run_, ready_, bodies>>

(* Mutant: the thread is not waited for. *)
JoinedAtOnce ==
  /\ OwnerAt("wait")
  /\ thread_id_' = 0 /\ OwnerTo("idle")
  /\ UNCHANGED <<should_run_, ready_, bodies, crashed>>

Joined ==
  /\ OwnerAt("wait") /\ bodies[owner.b] = "gone"
  /\ thread_id_' = 0 /\ OwnerTo("idle")
  /\ UNCHANGED <<should_run_, ready_, bodies, crashed>>

-----------------------------------------------------------------------------
(* A body: s_start_thread around a method that calls thread_ready and runs  *)
(* while should_run.                                                        *)

BodyTo(b, pc) == bodies' = [bodies EXCEPT ![b] = pc]

Arm(b) ==
  /\ bodies[b] = "new" /\ BodyTo(b, "armed")
  /\ should_run_' = TRUE
  /\ UNCHANGED <<thread_id_, ready_, owner, crashed>>

ThreadReady_(b) ==
  /\ bodies[b] = "armed" /\ BodyTo(b, "runs")
  /\ ready_' = ready_ + 1
  /\ UNCHANGED <<thread_id_, should_run_, owner, crashed>>

(* The method ends when it should, or of itself. *)
End(b) ==
  /\ bodies[b] = "runs" /\ BodyTo(b, "over")
  /\ UNCHANGED <<thread_id_, should_run_, ready_, owner, crashed>>

(* "not running anymore" *)
Forget(b) ==
  /\ bodies[b] = "over" /\ BodyTo(b, "gone")
  /\ thread_id_' = 0
  /\ UNCHANGED <<should_run_, ready_, owner, crashed>>

ThreadStep_ ==
  \/ Started \/ Cancel \/ JoinBegin \/ Joined
  \/ ~crashed /\ \E b \in DOMAIN bodies : Arm(b) \/ ThreadReady_(b) \/ End(b) \/ Forget(b)

ThreadNext == ThreadStep_ \/ Start \/ Quit \/ Kill \/ Join

-----------------------------------------------------------------------------
(* The Semaphore: acquire(count) takes one resource after the other under a *)
(* mutex of its own, acquire() takes one without it.                        *)

UseTo(c, pc) == use' = [use EXCEPT ![c].pc = pc]

AcquireBegin(c) ==
  /\ use[c].pc = "idle" /\ use[c].uses < MaxUses
  /\ use' = [use EXCEPT ![c].pc = IF Wanted[c] = 1 THEN "take" ELSE "lock", ![c].uses = @ + 1]
  /\ UNCHANGED <<resources_, acquire_mutex_>>

(* Mutant: the resources are taken without the mutex. *)
AcquireUnlocked(c) ==
  /\ use[c].pc = "lock"
  /\ UseTo(c, "take") /\ UNCHANGED <<resources_, acquire_mutex_>>

AcquireLock(c) ==
  /\ use[c].pc = "lock" /\ acquire_mutex_ = Nobody_
  /\ acquire_mutex_' = c /\ UseTo(c, "take")
  /\ UNCHANGED resources_

Acquire(c) ==
  /\ use[c].pc = "take" /\ use[c].held < Wanted[c]
  /\ resources_ > 0 /\ resources_' = resources_ - 1
  /\ use' = [use EXCEPT ![c].held = @ + 1]
  /\ UNCHANGED acquire_mutex_

Acquired(c) ==
  /\ use[c].pc = "take" /\ use[c].held = Wanted[c]
  /\ acquire_mutex_' = IF acquire_mutex_ = c THEN Nobody_ ELSE acquire_mutex_
  /\ UseTo(c, "holds") /\ UNCHANGED resources_

Release_(c) ==
  /\ use[c].pc = "holds"
  /\ resources_' = resources_ + 1
  /\ use' = [use EXCEPT ![c].held = @ - 1, ![c].pc = IF use[c].held = 1 THEN "idle" ELSE "holds"]
  /\ UNCHANGED acquire_mutex_

SemaphoreStep(c) == AcquireLock(c) \/ Acquire(c) \/ Acquired(c) \/ Release_(c)
SemaphoreNext == \E c \in Caller : AcquireBegin(c) \/ SemaphoreStep(c)

(* A Thread and a Semaphore, in any order: they share nothing. *)
ThreadsSpec ==
  /\ ThreadsInit
  /\ [][\/ ThreadNext /\ UNCHANGED semaphoreVars
        \/ SemaphoreNext /\ UNCHANGED threadVars]_<<threadVars, semaphoreVars>>

-----------------------------------------------------------------------------
(* Properties *)

Alive(b) == bodies[b] # "gone"

(* A Thread has one body at a time, that body is ready when start_thread has *)
(* returned, no signal of readiness is left over for the next start, and    *)
(* kill and join return when the body has ended: unless the body ends of itself  *)
(* in the middle of a kill, which then cancels or joins NULL.               *)
OneBodyAtATime ==
  ~crashed => \A b \in DOMAIN bodies : Alive(b) =>
    thread_id_ = b /\ \A d \in DOMAIN bodies : Alive(d) => b = d
ReadyWhenStarted ==
  ~crashed /\ owner.pc # "start" =>
    ready_ = 0 /\ \A b \in DOMAIN bodies : bodies[b] \notin {"new", "armed"}

(* Nobody holds some of the resources it wants and waits for more while     *)
(* another does the same.                                                   *)
Gathers(c) == use[c].pc = "take" /\ Wanted[c] > 1
GathersAlone == \A c, d \in Caller : Gathers(c) /\ Gathers(d) => c = d

(* What the rest of the library relies on: the thread it has started, alone *)
(* and ready, and resources that are not torn apart.                        *)
ThreadsAreSound == OneBodyAtATime /\ ReadyWhenStarted /\ GathersAlone

(* Whoever asks for resources gets them.                                    *)
AcquireReturns == \A c \in Caller : use[c].pc \in {"lock", "take"} ~> use[c].pc = "holds"

=============================================================================
