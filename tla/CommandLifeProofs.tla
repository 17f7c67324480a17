-------------------------- MODULE CommandLifeProofs -------------------------
(***************************************************************************)
(* Proofs about CommandLife, for any users, commands and bounds: as long as *)
(* one user at the most adopts, clears and sends, no command is used after  *)
(* it was deleted (UsedIsAlive); when that user waits until the threads     *)
(* listen, commands_, the commands and their threads stay in step           *)
(* (CommandsAreSound).                                                      *)
(***************************************************************************)
EXTENDS CommandLife, TLAPS

(* One user at the most adopts, clears and sends: Root::send uses the       *)
(* command it has found without lock.                                       *)
Owning == {"adopt_command", "clear", "send"}
OneOwner == \A u, v \in User : Ops[u] \cap Owning # {} /\ Ops[v] \cap Owning # {} => u = v

Pcs == {"idle", "enter", "push", "start", "wait", "kill", "join", "loop", "use", "found"}
Activity == [op : AllOps \cup {"none"}, pc : Pcs, c : Cmd \cup {None}, i : Nat]

Types ==
  /\ commands_ \in Seq(Cmd)
  /\ cmd \in [Cmd -> {"new", "owned", "deleted"}]
  /\ tpc \in [Cmd -> {"none", "init", "ready", "run", "ended"}]
  /\ running_ \in [Cmd -> BOOLEAN] /\ break_ \in [Cmd -> BOOLEAN]
  /\ act \in [Actor -> Activity]
  /\ calls \in 0..MaxCalls /\ messages \in 0..MaxMessages

(* Where an actor can be in each call, and the command it is busy with.     *)
Stage(x) ==
  /\ act[x].op = "none" => act[x] = Idle
  /\ act[x].op = "adopt_command" =>
       act[x].c \in Cmd /\ act[x].pc \in {"enter", "push", "start", "wait"}
  /\ act[x].op = "clear" => act[x].c = None /\ act[x].pc \in {"enter", "kill", "join"}
  /\ act[x].op = "notify_observers" => act[x].pc \in {"enter", "loop", "use"}
  /\ act[x].op = "notify_observers" /\ act[x].pc # "use" => act[x].c = None
  /\ act[x].op = "notify_observers" /\ act[x].pc = "enter" => act[x].i = 1
  /\ act[x].op = "send" => act[x].pc \in {"enter", "found", "use"}
  /\ act[x].op = "send" /\ act[x].pc = "enter" => act[x].c = None

(* A reader is at a place of the list, a join at its first. *)
Place(x) ==
  /\ Reading(x) => act[x].i \in 1..(Len(commands_) + 1)
  /\ Reading(x) /\ act[x].pc = "use" =>
       act[x].i <= Len(commands_) /\ act[x].c = commands_[act[x].i]
  /\ Writing(x) /\ act[x].pc = "join" => commands_ # <<>>

(* What the owner has found stays in the list while it sends. *)
Found(u) ==
  act[u].op = "send" /\ act[u].pc # "enter" =>
    \E i \in DOMAIN commands_ : commands_[i] = act[u].c

(* A command's thread answers through its command, while it runs. *)
Answers(c) ==
  /\ act[c].op \in {"none", "notify_observers", "send"}
  /\ act[c].op = "send" => act[c].c = c /\ act[c].pc = "use"
  /\ act[c].op # "none" => tpc[c] = "run"

Allowed == \A u \in User : act[u].op \in Ops[u] \cup {"none"}

Locked == \A x, y \in Actor : Writing(x) => ~Reading(y)

(* A command being adopted is nobody else's. *)
Adopting(u) ==
  act[u].op = "adopt_command" =>
    /\ cmd[act[u].c] = "owned"
    /\ act[u].pc \in {"enter", "push", "start"} => tpc[act[u].c] = "none"
    /\ act[u].pc = "enter" => \A i \in DOMAIN commands_ : commands_[i] # act[u].c
    /\ act[u].pc = "push" =>
         \A i \in DOMAIN commands_ : Protocol[commands_[i]] # Protocol[act[u].c]

(* The commands in the list are alive, the others have no thread. *)
Listed == \A i \in DOMAIN commands_ : cmd[commands_[i]] = "owned"
Fates ==
  \A c \in Cmd :
    /\ cmd[c] = "new" => tpc[c] = "none"
    /\ cmd[c] = "deleted" => tpc[c] \in {"none", "ended"}

LifeInv ==
  /\ Types
  /\ \A x \in Actor : Stage(x) /\ Place(x)
  /\ Allowed /\ Locked
  /\ \A u \in User : Found(u) /\ Adopting(u)
  /\ \A c \in Cmd : Answers(c)
  /\ Listed /\ Fates /\ OnePerProtocol

(* A thread that can be told to end listens for it. *)
HeardInv ==
  /\ \A u \in User : act[u].op = "clear" => Listening
  /\ \A u \in User : At(u, "clear", "join") =>
       (tpc[Head(commands_)] = "run" => break_[Head(commands_)])
  /\ \A c \in Cmd : tpc[c] = "ready" => running_[c]
  /\ \A c \in Cmd : tpc[c] = "run" => running_[c] \/ break_[c]

-----------------------------------------------------------------------------
(* The initial state *)

LEMMA LifeInit == Init => LifeInv
<1>. USE LifeAssumption
<1>. SUFFICES ASSUME Init PROVE LifeInv
  OBVIOUS
<1>1. Idle \in Activity
  BY DEF Idle, Activity, Pcs
<1>2. Types
  BY <1>1 DEF Init, Types
<1>3. \A x \in Actor : act[x] = Idle
  BY DEF Init
<1>4. /\ Idle.op = "none" /\ Idle.pc = "idle" /\ Idle.c = None
  BY DEF Idle
<1>5. \A x \in Actor : Stage(x) /\ Place(x)
  BY <1>3, <1>4 DEF Stage, Place, Reading, Writing
<1>6. /\ Allowed /\ Locked
      /\ \A u \in User : Found(u) /\ Adopting(u)
      /\ \A c \in Cmd : Answers(c)
  BY <1>3, <1>4 DEF Allowed, Locked, Writing, Found, Adopting, Answers, Actor
<1>7. Listed /\ Fates /\ OnePerProtocol
  BY DEF Init, Listed, Fates, OnePerProtocol
<1>. QED
  BY <1>2, <1>5, <1>6, <1>7 DEF LifeInv

-----------------------------------------------------------------------------
(* Steps of one actor that leave the commands alone: only what they say of  *)
(* the actor has to be shown.                                               *)

LEMMA OnlyMoves ==
  ASSUME LifeInv, Types', NEW x \in Actor,
         UNCHANGED <<commands_, cmd, tpc>>,
         \A y \in Actor \ {x} : act'[y] = act[y],
         Stage(x)', Place(x)',
         x \in User => Found(x)' /\ Adopting(x)' /\ act'[x].op \in Ops[x] \cup {"none"},
         x \in Cmd => Answers(x)',
         Writing(x)' => \A y \in Actor \ {x} : ~Reading(y),
         Reading(x)' => \A y \in Actor \ {x} : ~Writing(y)
  PROVE  LifeInv'
<1>1. \A y \in Actor : (Stage(y) /\ Place(y))'
  BY DEF LifeInv, Stage, Place, Reading, Writing
<1>2. Allowed'
  BY DEF LifeInv, Allowed, Actor
<1>3. Locked'
  BY DEF LifeInv, Locked, Writing, Reading
<1>4. \A u \in User : (Found(u) /\ Adopting(u))'
  BY DEF LifeInv, Found, Adopting, Actor
<1>5. \A c \in Cmd : Answers(c)'
  BY DEF LifeInv, Answers, Actor
<1>6. (Listed /\ Fates /\ OnePerProtocol)'
  BY DEF LifeInv, Listed, Fates, OnePerProtocol
<1>. QED
  BY <1>1, <1>2, <1>3, <1>4, <1>5, <1>6 DEF LifeInv

LEMMA Going ==
  ASSUME Types, NEW x \in Actor, NEW p \in Pcs, Goto(x, p)
  PROVE  /\ act' \in [Actor -> Activity]
         /\ act'[x].op = act[x].op /\ act'[x].pc = p
         /\ act'[x].c = act[x].c /\ act'[x].i = act[x].i
         /\ \A y \in Actor \ {x} : act'[y] = act[y]
BY DEF Types, Goto, Activity

LEMMA Returning ==
  ASSUME Types, NEW x \in Actor, Return(x)
  PROVE  /\ act' \in [Actor -> Activity]
         /\ act'[x] = Idle
         /\ \A y \in Actor \ {x} : act'[y] = act[y]
<1>1. Idle \in Activity
  BY LifeAssumption DEF Idle, Activity, Pcs
<1>. QED
  BY <1>1 DEF Types, Return

(* What the invariant says of a user. *)
LEMMA UserFacts ==
  ASSUME LifeInv, NEW u \in User
  PROVE  /\ Types /\ Stage(u) /\ Place(u) /\ Found(u) /\ Adopting(u)
         /\ act[u].op \in Ops[u] \cup {"none"}
         /\ u \in Actor /\ u \notin Cmd
BY LifeAssumption DEF LifeInv, Allowed, Actor

(* A user that owns the commands is the only one that does, and no thread   *)
(* does.                                                                    *)
LEMMA OwnerAlone ==
  ASSUME OneOwner, LifeInv, NEW u \in User, Ops[u] \cap Owning # {}
  PROVE  \A y \in Actor \ {u} : act[y].op \in Owning =>
           y \in Cmd /\ act[y].op = "send"
<1>1. "none" \notin Owning /\ "notify_observers" \notin Owning
  BY DEF Owning
<1>2. \A v \in User : act[v].op \in Owning => v = u
  BY <1>1 DEF OneOwner, LifeInv, Allowed
<1>3. \A c \in Cmd : act[c].op \in Owning => act[c].op = "send"
  BY <1>1 DEF LifeInv, Answers
<1>. QED
  BY <1>2, <1>3 DEF Actor

(* notify_observers, and the end of a send *)
LEMMA NotifyStepKeeps ==
  ASSUME LifeInv, NEW x \in Actor, NotifyStep(x)
  PROVE  LifeInv'
<1>. USE DEF At, Goto, Return, threadVars
<1>1. /\ Types /\ Stage(x) /\ Place(x)
      /\ act \in [Actor -> Activity]
      /\ x \in Cmd => Answers(x)
      /\ x \in User => act[x].op \in Ops[x] \cup {"none"}
      /\ User \cap Cmd = {}
  BY LifeAssumption DEF LifeInv, Types, Allowed
<1>2. /\ UNCHANGED <<commands_, cmd, tpc>>
      /\ \A y \in Actor \ {x} : act'[y] = act[y]
      /\ Types'
  <2>1. Idle \in Activity
    BY DEF Idle, Activity, Pcs
  <2>2. CASE NotifyEnter(x)
    BY <1>1, <2>2, SMTT(30) DEF NotifyEnter, Types, Activity, Pcs
  <2>3. CASE NotifyUse(x)
    <3>1. act[x].i \in 1..Len(commands_)
      BY <1>1, <2>3 DEF NotifyUse, Types, Activity, Place, Reading
    <3>2. commands_[act[x].i] \in Cmd /\ "use" \in Pcs
      BY <1>1, <3>1 DEF Types, Pcs
    <3>3. act' = [act EXCEPT ![x] = [@ EXCEPT !.pc = "use", !.c = commands_[act[x].i]]]
      BY <1>1, <2>3 DEF NotifyUse
    <3>4. [act[x] EXCEPT !.pc = "use", !.c = commands_[act[x].i]] \in Activity
      BY <1>1, <3>2 DEF Activity
    <3>. QED
      BY <1>1, <2>3, <3>3, <3>4 DEF NotifyUse, Types
  <2>4. CASE NotifyUsed(x)
    BY <1>1, <2>4, SMTT(30) DEF NotifyUsed, Types, Activity, Pcs
  <2>5. CASE NotifyLeave(x)
    BY <1>1, <2>1, <2>5 DEF NotifyLeave, Types
  <2>6. CASE SendUsed(x)
    BY <1>1, <2>1, <2>6 DEF SendUsed, Types
  <2>. QED
    BY <2>2, <2>3, <2>4, <2>5, <2>6 DEF NotifyStep
<1>3. Stage(x)' /\ Place(x)' /\ (x \in Cmd => Answers(x)')
  <2>2. CASE NotifyEnter(x)
    BY <1>1, <2>2 DEF NotifyEnter, Types, Activity, Stage, Place, Reading, Writing, Answers
  <2>3. CASE NotifyUse(x)
    BY <1>1, <2>3 DEF NotifyUse, Types, Activity, Stage, Place, Reading, Writing, Answers
  <2>4. CASE NotifyUsed(x)
    BY <1>1, <2>4 DEF NotifyUsed, Types, Activity, Stage, Place, Reading, Writing, Answers
  <2>5. CASE NotifyLeave(x)
    BY <1>1, <2>5 DEF NotifyLeave, Types, Idle, Stage, Place, Reading, Writing, Answers
  <2>6. CASE SendUsed(x)
    BY <1>1, <2>6 DEF SendUsed, Types, Idle, Stage, Place, Reading, Writing, Answers
  <2>. QED
    BY <2>2, <2>3, <2>4, <2>5, <2>6 DEF NotifyStep
<1>4. /\ act'[x].op \in {"notify_observers", "none"}
      /\ act'[x].op # "none" => act'[x].op = act[x].op
      /\ Reading(x)' => Reading(x) \/ CanRead
  BY <1>1 DEF NotifyStep, NotifyEnter, NotifyUse, NotifyUsed, NotifyLeave, SendUsed,
              Types, Activity, Idle, Reading
<1>5. Reading(x)' => \A y \in Actor \ {x} : ~Writing(y)
  BY <1>4 DEF LifeInv, Locked, CanRead
<1>6. ~Writing(x)' /\ (x \in User => Found(x)' /\ Adopting(x)')
  BY <1>4 DEF Found, Adopting, Writing
<1>7. x \in User => act'[x].op \in Ops[x] \cup {"none"}
  BY <1>1, <1>4
<1>. QED
  BY <1>1, <1>2, <1>3, <1>5, <1>6, <1>7, OnlyMoves

-----------------------------------------------------------------------------
(* The steps of users and threads *)

LEMMA BeginKeeps ==
  ASSUME OneOwner, LifeInv, NEW u \in User, NEW op \in AllOps,
         NEW c \in Cmd \cup {None}, Begin(u, op, c)
  PROVE  LifeInv'
<1>. DEFINE r == [op |-> op, pc |-> "enter", c |-> c, i |-> 1]
<1>1. /\ Types /\ u \in Actor /\ u \notin Cmd /\ act[u] = Idle
      /\ act' = [act EXCEPT ![u] = r] /\ r \in Activity
      /\ op \in Ops[u] /\ op # "none" /\ None \notin Cmd
      /\ UNCHANGED <<commands_, tpc, running_, break_, messages>>
  BY UserFacts, LifeAssumption DEF Begin, threadVars, Activity, Pcs, AllOps
<1>2. /\ act' \in [Actor -> Activity] /\ act'[u] = r
      /\ \A y \in Actor \ {u} : act'[y] = act[y]
  BY <1>1 DEF Types
<1>3. calls' \in 0..MaxCalls
  BY <1>1, LifeAssumption DEF Begin, Types
<1>4. /\ ~Reading(u)' /\ ~Writing(u)' /\ Place(u)'
  BY <1>2 DEF Reading, Writing, Place
<1>5. CASE op # "adopt_command"
  <2>1. c = None /\ cmd' = cmd
    BY <1>5 DEF Begin, AllOps
  <2>2. Types'
    BY <1>1, <1>2, <1>3, <2>1 DEF Types
  <2>3. Stage(u)' /\ Found(u)' /\ Adopting(u)'
    BY <1>1, <1>2, <1>5, <2>1 DEF Stage, Found, Adopting, AllOps
  <2>. QED
    BY <1>1, <1>2, <1>4, <2>1, <2>2, <2>3, OnlyMoves
<1>6. CASE op = "adopt_command"
  <2>1. c \in Cmd /\ cmd[c] = "new" /\ cmd' = [cmd EXCEPT ![c] = "owned"]
    BY <1>6 DEF Begin
  <2>2. Types'
    BY <1>1, <1>2, <1>3, <2>1 DEF Types
  <2>3. tpc[c] = "none" /\ \A i \in DOMAIN commands_ : commands_[i] # c
    BY <2>1 DEF LifeInv, Fates, Listed
  <2>4. \A y \in Actor \ {u} : act[y].op # "adopt_command"
    <3>1. Ops[u] \cap Owning # {} /\ "adopt_command" \in Owning
      BY <1>1, <1>6 DEF Owning
    <3>. QED
      BY <3>1, OwnerAlone
  <2>5. \A y \in Actor : (Stage(y) /\ Place(y))'
    <3>1. Stage(u)'
      BY <1>2, <1>6, <2>1 DEF Stage
    <3>. QED
      BY <1>1, <1>2, <1>4, <3>1 DEF LifeInv, Stage, Place, Reading, Writing
  <2>6. Allowed' /\ Locked'
    BY <1>1, <1>2, <1>4 DEF LifeInv, Allowed, Locked, Reading, Writing, Actor
  <2>7. \A v \in User : (Found(v) /\ Adopting(v))'
    <3>1. Found(u)' /\ Adopting(u)'
      BY <1>1, <1>2, <1>6, <2>1, <2>3 DEF Found, Adopting, Types
    <3>. QED
      BY <1>1, <1>2, <2>4, <3>1 DEF LifeInv, Found, Adopting, Actor
  <2>8. \A d \in Cmd : Answers(d)'
    BY <1>1, <1>2 DEF LifeInv, Answers, Actor
  <2>9. (Listed /\ Fates /\ OnePerProtocol)'
    BY <1>1, <2>1, <2>3 DEF LifeInv, Types, Listed, Fates, OnePerProtocol
  <2>. QED
    BY <2>2, <2>5, <2>6, <2>7, <2>8, <2>9 DEF LifeInv
<1>. QED
  BY <1>5, <1>6

LEMMA AdoptCheckKeeps ==
  ASSUME OneOwner, LifeInv, NEW u \in User, AdoptCheck(u)
  PROVE  LifeInv'
<1>1. /\ Types /\ Stage(u) /\ Adopting(u) /\ u \in Actor /\ u \notin Cmd
      /\ act[u].op = "adopt_command" /\ act[u].pc = "enter"
      /\ act[u].c \in Cmd /\ act[u].op \in Ops[u]
      /\ UNCHANGED <<commands_, tpc, running_, break_, calls, messages>>
  BY UserFacts DEF AdoptCheck, At, threadVars, Stage
<1>2. CASE \E d \in ToSet(commands_) : Handles(d, Protocol[act[u].c])
  <2>1. cmd' = [cmd EXCEPT ![act[u].c] = "deleted"] /\ Return(u)
    BY <1>2 DEF AdoptCheck
  <2>2. /\ act' \in [Actor -> Activity] /\ act'[u] = Idle
        /\ \A y \in Actor \ {u} : act'[y] = act[y]
    BY <1>1, <2>1, Returning
  <2>3. Types'
    BY <1>1, <2>1, <2>2 DEF Types
  <2>4. Idle.op = "none"
    BY DEF Idle
  <2>5. \A y \in Actor \ {u} : act[y].op # "adopt_command"
    <3>1. Ops[u] \cap Owning # {} /\ "adopt_command" \in Owning
      BY <1>1 DEF Owning
    <3>. QED
      BY <3>1, OwnerAlone
  <2>6. \A y \in Actor : (Stage(y) /\ Place(y))'
    BY <1>1, <2>2, <2>4 DEF LifeInv, Stage, Place, Reading, Writing
  <2>7. Allowed' /\ Locked'
    BY <1>1, <2>2, <2>4 DEF LifeInv, Allowed, Locked, Reading, Writing, Actor
  <2>8. \A v \in User : (Found(v) /\ Adopting(v))'
    BY <1>1, <2>2, <2>4, <2>5 DEF LifeInv, Found, Adopting, Actor
  <2>9. \A d \in Cmd : Answers(d)'
    BY <1>1, <2>2 DEF LifeInv, Answers, Actor
  <2>10. (Listed /\ Fates /\ OnePerProtocol)'
    BY <1>1, <2>1 DEF LifeInv, Types, Adopting, Listed, Fates, OnePerProtocol
  <2>. QED
    BY <2>3, <2>6, <2>7, <2>8, <2>9, <2>10 DEF LifeInv
<1>3. CASE ~\E d \in ToSet(commands_) : Handles(d, Protocol[act[u].c])
  <2>1. cmd' = cmd /\ Goto(u, "push")
    BY <1>3 DEF AdoptCheck
  <2>2. /\ act' \in [Actor -> Activity]
        /\ act'[u].op = "adopt_command" /\ act'[u].pc = "push" /\ act'[u].c = act[u].c
        /\ \A y \in Actor \ {u} : act'[y] = act[y]
    BY <1>1, <2>1, Going DEF Pcs
  <2>3. Types'
    BY <1>1, <2>1, <2>2 DEF Types
  <2>4. \A i \in DOMAIN commands_ : Protocol[commands_[i]] # Protocol[act[u].c]
    BY <1>3 DEF Handles, ToSet
  <2>5. Stage(u)' /\ Place(u)' /\ Found(u)' /\ ~Reading(u)' /\ ~Writing(u)'
    BY <1>1, <2>2 DEF Stage, Place, Found, Reading, Writing
  <2>6. Adopting(u)'
    BY <1>1, <2>1, <2>2, <2>4 DEF Adopting
  <2>. QED
    BY <1>1, <2>1, <2>2, <2>3, <2>5, <2>6, OnlyMoves
<1>. QED
  BY <1>2, <1>3

LEMMA AdoptPushKeeps ==
  ASSUME OneOwner, LifeInv, NEW u \in User, AdoptPush(u)
  PROVE  LifeInv'
<1>1. /\ Types /\ Stage(u) /\ Adopting(u) /\ u \in Actor /\ u \notin Cmd
      /\ act[u].op = "adopt_command" /\ act[u].pc = "push"
      /\ act[u].c \in Cmd /\ act[u].op \in Ops[u]
      /\ CanWrite /\ Goto(u, "start")
      /\ commands_' = Append(commands_, act[u].c)
      /\ UNCHANGED <<cmd, tpc, running_, break_, calls, messages>>
  BY UserFacts DEF AdoptPush, At, threadVars, Stage
<1>2. /\ act' \in [Actor -> Activity]
      /\ act'[u].op = "adopt_command" /\ act'[u].pc = "start" /\ act'[u].c = act[u].c
      /\ \A y \in Actor \ {u} : act'[y] = act[y]
  BY <1>1, Going DEF Pcs
<1>3. Types'
  BY <1>1, <1>2 DEF Types
<1>4. \A y \in Actor \ {u} : act[y].op # "adopt_command"
  <2>1. Ops[u] \cap Owning # {} /\ "adopt_command" \in Owning
    BY <1>1 DEF Owning
  <2>. QED
    BY <2>1, OwnerAlone
<1>5. /\ DOMAIN commands_' = 1..(Len(commands_) + 1)
      /\ \A i \in DOMAIN commands_ : commands_'[i] = commands_[i]
      /\ commands_'[Len(commands_) + 1] = act[u].c
      /\ DOMAIN commands_ = 1..Len(commands_) /\ Len(commands_) \in Nat
  BY <1>1 DEF Types
<1>6. \A y \in Actor : (Stage(y) /\ Place(y))'
  <2>1. \A y \in Actor : ~Reading(y)' /\ ~Writing(y)'
    BY <1>1, <1>2 DEF CanWrite, Reading, Writing
  <2>2. Stage(u)'
    BY <1>1, <1>2 DEF Stage
  <2>. QED
    BY <1>1, <1>2, <2>1, <2>2 DEF LifeInv, Stage, Place
<1>7. Allowed' /\ Locked'
  BY <1>1, <1>2 DEF LifeInv, Allowed, Locked, Reading, Writing, Actor
<1>8. \A v \in User : (Found(v) /\ Adopting(v))'
  <2>1. Found(u)' /\ Adopting(u)'
    BY <1>1, <1>2 DEF Found, Adopting
  <2>2. \A v \in User \ {u} : Found(v)'
    BY <1>2, <1>5 DEF LifeInv, Found, Actor
  <2>3. \A v \in User \ {u} : Adopting(v)'
    BY <1>2, <1>4 DEF Adopting, Actor
  <2>. QED
    BY <2>1, <2>2, <2>3
<1>9. \A d \in Cmd : Answers(d)'
  BY <1>1, <1>2 DEF LifeInv, Answers, Actor
<1>10. Listed' /\ OnePerProtocol'
  BY <1>1, <1>5 DEF LifeInv, Adopting, Listed, OnePerProtocol
<1>11. Fates'
  BY <1>1 DEF LifeInv, Fates
<1>. QED
  BY <1>3, <1>6, <1>7, <1>8, <1>9, <1>10, <1>11 DEF LifeInv

LEMMA AdoptStartKeeps ==
  ASSUME OneOwner, LifeInv, NEW u \in User, AdoptStart(u)
  PROVE  LifeInv'
<1>1. /\ Types /\ Stage(u) /\ Adopting(u) /\ u \in Actor /\ u \notin Cmd
      /\ act[u].op = "adopt_command" /\ act[u].pc = "start"
      /\ act[u].c \in Cmd /\ act[u].op \in Ops[u] /\ Goto(u, "wait")
      /\ tpc' = [tpc EXCEPT ![act[u].c] = "init"]
      /\ UNCHANGED <<commands_, cmd, running_, break_, calls, messages>>
  BY UserFacts DEF AdoptStart, At, Stage
<1>2. /\ act' \in [Actor -> Activity]
      /\ act'[u].op = "adopt_command" /\ act'[u].pc = "wait" /\ act'[u].c = act[u].c
      /\ \A y \in Actor \ {u} : act'[y] = act[y]
  BY <1>1, Going DEF Pcs
<1>3. Types'
  BY <1>1, <1>2 DEF Types
<1>4. \A y \in Actor \ {u} : act[y].op # "adopt_command"
  <2>1. Ops[u] \cap Owning # {} /\ "adopt_command" \in Owning
    BY <1>1 DEF Owning
  <2>. QED
    BY <2>1, OwnerAlone
<1>5. \A y \in Actor : (Stage(y) /\ Place(y))'
  BY <1>1, <1>2 DEF LifeInv, Stage, Place, Reading, Writing
<1>6. Allowed' /\ Locked'
  BY <1>1, <1>2 DEF LifeInv, Allowed, Locked, Reading, Writing, Actor
<1>7. \A v \in User : (Found(v) /\ Adopting(v))'
  BY <1>1, <1>2, <1>4 DEF LifeInv, Found, Adopting, Actor
<1>8. tpc[act[u].c] = "none" /\ cmd[act[u].c] = "owned"
  BY <1>1 DEF Adopting
<1>9. \A d \in Cmd : Answers(d)'
  BY <1>1, <1>2, <1>8 DEF LifeInv, Types, Answers, Actor
<1>10. (Listed /\ Fates /\ OnePerProtocol)'
  BY <1>1, <1>8 DEF LifeInv, Types, Listed, Fates, OnePerProtocol
<1>. QED
  BY <1>3, <1>5, <1>6, <1>7, <1>9, <1>10 DEF LifeInv

LEMMA AdoptReadyKeeps ==
  ASSUME LifeInv, NEW u \in User, AdoptReady(u)
  PROVE  LifeInv'
<1>1. Types /\ u \in Actor /\ u \notin Cmd
  BY UserFacts
<1>2. /\ act' \in [Actor -> Activity] /\ act'[u] = Idle
      /\ \A y \in Actor \ {u} : act'[y] = act[y]
      /\ UNCHANGED <<commands_, cmd, tpc, running_, break_, calls, messages>>
  BY <1>1, Returning DEF AdoptReady, threadVars
<1>3. Types'
  BY <1>1, <1>2 DEF Types
<1>4. /\ Stage(u)' /\ Place(u)' /\ Found(u)' /\ Adopting(u)'
      /\ ~Reading(u)' /\ ~Writing(u)' /\ act'[u].op = "none"
  BY <1>2 DEF Idle, Stage, Place, Found, Adopting, Reading, Writing
<1>. QED
  BY <1>1, <1>2, <1>3, <1>4, OnlyMoves

(* Root::clear *)
LEMMA ClearMoves ==
  ASSUME LifeInv, NEW u \in User, ClearEnter(u) \/ ClearKill(u) \/ ClearLeave(u)
  PROVE  LifeInv'
<1>1. /\ Types /\ Stage(u) /\ u \in Actor /\ u \notin Cmd
      /\ act[u].op = "clear" /\ act[u].op \in Ops[u]
      /\ UNCHANGED <<commands_, cmd, tpc, calls, messages>>
  BY UserFacts DEF ClearEnter, ClearKill, ClearLeave, At, threadVars
<1>2. \A y \in Actor \ {u} : ~Reading(y)
  BY <1>1 DEF LifeInv, Locked, ClearEnter, ClearKill, ClearLeave, At, Writing, CanWrite
<1>3. /\ act' \in [Actor -> Activity]
      /\ \A y \in Actor \ {u} : act'[y] = act[y]
      /\ \/ act'[u] = Idle
         \/ /\ act'[u].op = "clear" /\ act'[u].c = act[u].c
            /\ \/ act'[u].pc = "kill"
               \/ act'[u].pc = "join" /\ commands_ # <<>>
  BY <1>1, Going, Returning DEF ClearEnter, ClearKill, ClearLeave, Pcs
<1>4. running_' \in [Cmd -> BOOLEAN] /\ break_' \in [Cmd -> BOOLEAN]
  BY <1>1 DEF Types, ClearEnter, ClearKill, ClearLeave, threadVars
<1>5. Types'
  BY <1>1, <1>3, <1>4 DEF Types
<1>6. /\ Stage(u)' /\ Place(u)' /\ Found(u)' /\ Adopting(u)' /\ ~Reading(u)'
      /\ act'[u].op \in Ops[u] \cup {"none"}
  BY <1>1, <1>3 DEF Idle, Stage, Place, Found, Adopting, Reading, Writing
<1>. QED
  BY <1>1, <1>2, <1>3, <1>5, <1>6, OnlyMoves

LEMMA ClearJoinKeeps ==
  ASSUME OneOwner, LifeInv, NEW u \in User, ClearJoin(u)
  PROVE  LifeInv'
<1>. DEFINE c == commands_[1]
<1>1. /\ Types /\ Stage(u) /\ Place(u) /\ u \in Actor /\ u \notin Cmd
      /\ act[u].op = "clear" /\ act[u].pc = "join" /\ act[u].op \in Ops[u]
      /\ Writing(u) /\ commands_ # <<>>
      /\ Goto(u, "kill") /\ commands_' = Tail(commands_)
      /\ UNCHANGED <<tpc, running_, break_, calls, messages>>
  BY UserFacts DEF ClearJoin, At, threadVars, Writing, Place
<1>2. /\ c \in Cmd /\ tpc[c] \in {"none", "ended"}
      /\ cmd' = [cmd EXCEPT ![c] = "deleted"]
      /\ commands_' \in Seq(Cmd)
      /\ \A i \in DOMAIN commands_' :
           /\ i + 1 \in DOMAIN commands_ /\ i + 1 # 1
           /\ commands_'[i] = commands_[i + 1]
      /\ 1 \in DOMAIN commands_
  BY <1>1 DEF ClearJoin, Types
<1>3. /\ act' \in [Actor -> Activity]
      /\ act'[u].op = "clear" /\ act'[u].pc = "kill" /\ act'[u].c = act[u].c
      /\ \A y \in Actor \ {u} : act'[y] = act[y]
  BY <1>1, Going DEF Pcs
<1>4. Types'
  BY <1>1, <1>2, <1>3 DEF Types
<1>5. \A y \in Actor \ {u} : act[y].op \in Owning => y \in Cmd /\ act[y].op = "send"
  <2>1. Ops[u] \cap Owning # {}
    BY <1>1 DEF Owning
  <2>. QED
    BY <2>1, OwnerAlone
<1>6. \A y \in Actor \ {u} : ~Reading(y) /\ ~Writing(y)
  BY <1>1, <1>5 DEF LifeInv, Locked, Writing, Owning
<1>7. \A y \in Actor : (Stage(y) /\ Place(y))'
  <2>1. Stage(u)' /\ Place(u)'
    BY <1>1, <1>3 DEF Stage, Place, Reading, Writing
  <2>2. \A y \in Actor \ {u} : (Stage(y) /\ Place(y))'
    BY <1>3, <1>6 DEF LifeInv, Stage, Place, Reading, Writing
  <2>. QED
    BY <2>1, <2>2
<1>8. Allowed' /\ Locked'
  BY <1>1, <1>3, <1>6 DEF LifeInv, Allowed, Locked, Reading, Writing, Actor
<1>9. \A v \in User : (Found(v) /\ Adopting(v))'
  <2>1. Found(u)' /\ Adopting(u)'
    BY <1>3 DEF Found, Adopting
  <2>2. \A v \in User \ {u} : act'[v].op \notin {"send", "adopt_command"}
    BY <1>3, <1>5, LifeAssumption DEF Owning, Actor
  <2>3. \A v \in User \ {u} : Found(v)' /\ Adopting(v)'
    BY <2>2 DEF Found, Adopting
  <2>. QED
    BY <2>1, <2>3
<1>10. \A d \in Cmd : Answers(d)'
  BY <1>1, <1>3 DEF LifeInv, Answers, Actor
<1>11. \A i \in DOMAIN commands_ : commands_[i] = c => i = 1
  BY <1>2 DEF LifeInv, OnePerProtocol
<1>12. (Listed /\ Fates /\ OnePerProtocol)'
  <2>1. Listed'
    BY <1>1, <1>2, <1>11 DEF LifeInv, Types, Listed
  <2>2. Fates'
    BY <1>1, <1>2 DEF LifeInv, Types, Fates
  <2>3. OnePerProtocol'
    <3>. SUFFICES ASSUME NEW i \in DOMAIN commands_', NEW j \in DOMAIN commands_',
                         Protocol[commands_'[i]] = Protocol[commands_'[j]]
                  PROVE  i = j
      BY DEF OnePerProtocol
    <3>1. i + 1 = j + 1
      BY <1>2 DEF LifeInv, OnePerProtocol
    <3>2. i \in Int /\ j \in Int
      BY <1>2
    <3>. QED
      BY <3>1, <3>2
  <2>. QED
    BY <2>1, <2>2, <2>3
<1>. QED
  BY <1>4, <1>7, <1>8, <1>9, <1>10, <1>12 DEF LifeInv

(* Root::send *)
LEMMA SendKeeps ==
  ASSUME LifeInv, NEW u \in User, SendUse(u) \/ \E d \in Cmd : SendFind(u, d)
  PROVE  LifeInv'
<1>1. /\ Types /\ Stage(u) /\ Found(u) /\ u \in Actor /\ u \notin Cmd
      /\ act[u].op = "send" /\ act[u].op \in Ops[u]
      /\ UNCHANGED <<commands_, cmd, tpc, running_, break_, calls, messages>>
  BY UserFacts DEF SendFind, SendUse, At, threadVars
<1>2. /\ act' \in [Actor -> Activity]
      /\ \A y \in Actor \ {u} : act'[y] = act[y]
      /\ \/ act'[u] = Idle
         \/ /\ act'[u].op = "send" /\ act'[u].pc \in {"found", "use"}
            /\ \E i \in DOMAIN commands_ : commands_[i] = act'[u].c
  <2>1. CASE SendUse(u)
    <3>1. act[u].pc = "found" /\ Goto(u, "use") /\ "use" \in Pcs
      BY <2>1 DEF SendUse, At, Pcs
    <3>. QED
      BY <1>1, <3>1, Going DEF Found
  <2>2. ASSUME NEW d \in Cmd, SendFind(u, d), ~Return(u)
        PROVE  \E i \in DOMAIN commands_ :
                 act' = [act EXCEPT ![u].pc = "found", ![u].c = commands_[i]]
    BY <2>2 DEF SendFind
  <2>3. ASSUME NEW i \in DOMAIN commands_,
               act' = [act EXCEPT ![u].pc = "found", ![u].c = commands_[i]]
        PROVE  /\ act' \in [Actor -> Activity]
               /\ \A y \in Actor \ {u} : act'[y] = act[y]
               /\ act'[u].op = "send" /\ act'[u].pc = "found" /\ act'[u].c = commands_[i]
    <3>1. commands_[i] \in Cmd /\ "found" \in Pcs
      BY <1>1 DEF Types, Pcs
    <3>2. [act[u] EXCEPT !.pc = "found", !.c = commands_[i]] \in Activity
      BY <1>1, <3>1 DEF Types, Activity
    <3>3. act' = [act EXCEPT ![u] = [@ EXCEPT !.pc = "found", !.c = commands_[i]]]
      BY <2>3
    <3>. QED
      BY <1>1, <3>2, <3>3 DEF Types, Activity
  <2>. QED
    BY <1>1, <2>1, <2>2, <2>3, Returning
<1>3. Types'
  BY <1>1, <1>2 DEF Types
<1>4. commands_' = commands_ /\ \A i \in DOMAIN commands_ : commands_[i] \in Cmd
  BY <1>1 DEF Types
<1>5. /\ Stage(u)' /\ Place(u)' /\ Found(u)' /\ Adopting(u)'
      /\ ~Reading(u)' /\ ~Writing(u)' /\ act'[u].op \in Ops[u] \cup {"none"}
  BY <1>1, <1>2, <1>4 DEF Idle, Stage, Place, Found, Adopting, Reading, Writing
<1>. QED
  BY <1>1, <1>2, <1>3, <1>5, OnlyMoves

(* A command's thread gets on: the command is owned, and nobody adopts it   *)
(* who has not started its thread.                                          *)
LEMMA ThreadStepKeeps ==
  ASSUME LifeInv, NEW c \in Cmd, ThreadStep(c)
  PROVE  LifeInv'
<1>1. /\ Types /\ Answers(c)
      /\ tpc[c] \in {"init", "ready", "run"}
      /\ tpc[c] = "run" => act[c] = Idle
      /\ \E p \in {"ready", "run", "ended"} : tpc' = [tpc EXCEPT ![c] = p]
      /\ UNCHANGED <<commands_, cmd, act, calls, messages>>
  BY DEF LifeInv, ThreadStep, ThreadReady, ThreadRun, ThreadEnd
<1>2. running_' \in [Cmd -> BOOLEAN] /\ break_' \in [Cmd -> BOOLEAN]
  BY <1>1 DEF Types, ThreadStep, ThreadReady, ThreadRun, ThreadEnd
<1>3. Types'
  BY <1>1, <1>2 DEF Types
<1>4. cmd[c] = "owned" /\ act[c].op = "none"
  BY <1>1 DEF LifeInv, Types, Fates, Answers, Idle
<1>5. \A y \in Actor : (Stage(y) /\ Place(y))'
  BY <1>1 DEF LifeInv, Stage, Place, Reading, Writing
<1>6. Allowed' /\ Locked'
  BY <1>1 DEF LifeInv, Allowed, Locked, Reading, Writing
<1>7. \A v \in User : (Found(v) /\ Adopting(v))'
  <2>1. \A v \in User : Found(v)'
    BY <1>1 DEF LifeInv, Found
  <2>2. \A v \in User : Adopting(v)'
    <3>1. \A d \in Cmd : tpc[d] = "none" => tpc'[d] = "none"
      BY <1>1 DEF Types
    <3>2. \A v \in User : act[v].op = "adopt_command" => act[v].c \in Cmd
      BY DEF LifeInv, Stage, Actor
    <3>. QED
      BY <1>1, <3>1, <3>2 DEF LifeInv, Adopting
  <2>. QED
    BY <2>1, <2>2
<1>8. \A d \in Cmd : Answers(d)'
  BY <1>1, <1>4 DEF LifeInv, Types, Answers
<1>9. (Listed /\ Fates /\ OnePerProtocol)'
  BY <1>1, <1>4 DEF LifeInv, Types, Listed, Fates, OnePerProtocol
<1>. QED
  BY <1>3, <1>5, <1>6, <1>7, <1>8, <1>9 DEF LifeInv

LEMMA ThreadReceiveKeeps ==
  ASSUME LifeInv, NEW c \in Cmd, NEW kind \in Kinds, ThreadReceive(c, kind)
  PROVE  LifeInv'
<1>. DEFINE r == IF kind = "meta" THEN [op |-> "send", pc |-> "use", c |-> c, i |-> 1]
                 ELSE [op |-> "notify_observers", pc |-> "enter", c |-> None, i |-> 1]
<1>1. /\ Types /\ c \in Actor /\ c \notin User /\ tpc[c] = "run"
      /\ r \in Activity /\ act' = [act EXCEPT ![c] = r]
      /\ UNCHANGED <<commands_, cmd, tpc, running_, break_, calls>>
      /\ messages' \in 0..MaxMessages
  <2>1. Types /\ c \in Actor /\ c \notin User
    BY LifeAssumption DEF LifeInv, Actor
  <2>2. r \in Activity
    BY DEF Activity, Pcs, AllOps
  <2>3. messages' \in 0..MaxMessages
    BY <2>1, LifeAssumption DEF Types, ThreadReceive
  <2>. QED
    BY <2>1, <2>2, <2>3 DEF ThreadReceive, threadVars
<1>2. /\ act' \in [Actor -> Activity] /\ act'[c] = r
      /\ \A y \in Actor \ {c} : act'[y] = act[y]
  BY <1>1 DEF Types
<1>3. Types'
  BY <1>1, <1>2 DEF Types
<1>4. Stage(c)' /\ Place(c)' /\ Answers(c)' /\ ~Reading(c)' /\ ~Writing(c)'
  BY <1>1, <1>2 DEF Stage, Place, Answers, Reading, Writing
<1>. QED
  BY <1>1, <1>2, <1>3, <1>4, OnlyMoves

LEMMA LifeNext == ASSUME OneOwner, LifeInv, [Next]_vars PROVE LifeInv'
<1>1. ASSUME NEW u \in User, NEW op \in AllOps, NEW c \in Cmd \cup {None}, Begin(u, op, c)
      PROVE  LifeInv'
  BY <1>1, BeginKeeps
<1>2. ASSUME NEW u \in User, UserStep(u) PROVE LifeInv'
  BY <1>2, AdoptCheckKeeps, AdoptPushKeeps, AdoptStartKeeps, AdoptReadyKeeps,
     ClearMoves, ClearJoinKeeps, SendKeeps DEF UserStep
<1>3. ASSUME NEW x \in Actor, NotifyStep(x) PROVE LifeInv'
  BY <1>3, NotifyStepKeeps
<1>4. ASSUME NEW c \in Cmd, ThreadStep(c) PROVE LifeInv'
  BY <1>4, ThreadStepKeeps
<1>5. ASSUME NEW c \in Cmd, NEW kind \in Kinds, ThreadReceive(c, kind) PROVE LifeInv'
  BY <1>5, ThreadReceiveKeeps
<1>6. CASE UNCHANGED vars
  BY <1>6 DEF vars, threadVars, LifeInv, Types, Stage, Place, Allowed, Locked, Found,
              Adopting, Answers, Listed, Fates, OnePerProtocol, Reading, Writing
<1>. QED
  BY <1>1, <1>2, <1>3, <1>4, <1>5, <1>6 DEF Next

-----------------------------------------------------------------------------
(* With one owner, whatever a call goes through, has found or adopts is not *)
(* deleted before it is done with: Root::clear takes the lock for writers   *)
(* before it deletes a command, and joins the command's thread              *)
(* (include/oscit/root.h, src/osc_command.cpp).                             *)
LEMMA LifeUsed == LifeInv => UsedIsAlive
<1>. SUFFICES ASSUME LifeInv, NEW x \in Actor, act[x].c # None
              PROVE  cmd[act[x].c] # "deleted"
  BY DEF UsedIsAlive
<1>1. \A i \in DOMAIN commands_ : cmd[commands_[i]] = "owned"
  BY DEF LifeInv, Listed
<1>2. Types /\ Stage(x) /\ Place(x)
  BY DEF LifeInv
<1>3. CASE act[x].op = "notify_observers"
  <2>1. act[x].pc = "use" /\ Reading(x)
    BY <1>2, <1>3 DEF Stage, Reading
  <2>2. act[x].i \in DOMAIN commands_ /\ act[x].c = commands_[act[x].i]
    BY <1>2, <2>1 DEF Types, Place
  <2>. QED
    BY <1>1, <2>2
<1>4. CASE x \in User /\ act[x].op = "send"
  BY <1>1, <1>2, <1>4 DEF LifeInv, Stage, Found
<1>5. CASE x \in Cmd /\ act[x].op = "send"
  BY <1>5 DEF LifeInv, Answers, Fates
<1>6. CASE x \in User /\ act[x].op = "adopt_command"
  BY <1>6 DEF LifeInv, Adopting
<1>7. \A c \in Cmd : act[c].op # "adopt_command"
  BY DEF LifeInv, Answers
<1>8. act[x].op # "clear" /\ act[x].op # "none"
  BY <1>2 DEF Stage, Idle
<1>. QED
  BY <1>2, <1>3, <1>4, <1>5, <1>6, <1>7, <1>8 DEF Types, Activity, AllOps, Actor

THEOREM CommandsOutliveTheirUse ==
  ASSUME OneOwner PROVE Spec => []UsedIsAlive
<1>1. LifeInv /\ [Next]_vars => LifeInv'
  BY LifeNext
<1>. QED
  BY <1>1, LifeInit, LifeUsed, PTL DEF Spec

-----------------------------------------------------------------------------
(* A thread that is told to end hears it, if clear is called only when      *)
(* every thread listens: Run begins with break_ = false.                    *)
LEMMA HeardInit == Init => HeardInv
BY LifeAssumption DEF Init, HeardInv, At, Idle, Actor

(* While a user clears, no other adopts, and no thread is on its way to its *)
(* loop.                                                                    *)
LEMMA ClearAlone ==
  ASSUME OneOwner, LifeInv, NEW u \in User, NEW v \in User \ {u}, act[u].op = "clear"
  PROVE  act[v].op \notin Owning
<1>1. Ops[u] \cap Owning # {}
  BY UserFacts DEF Owning
<1>. QED
  BY <1>1, OwnerAlone, UserFacts

LEMMA HeardNext ==
  ASSUME OneOwner, Patient, LifeInv, HeardInv, [Next]_vars
  PROVE  HeardInv'
<1>1. Types
  BY DEF LifeInv
<1>2. CASE UNCHANGED <<tpc, running_, break_, commands_>>
           /\ \A u \in User : act'[u].op = "clear" =>
                Listening /\ (At(u, "clear", "join")' => At(u, "clear", "join"))
  BY <1>2 DEF HeardInv, At, Listening
<1>3. ASSUME NEW u \in User, NEW op \in AllOps, NEW c \in Cmd \cup {None}, Begin(u, op, c)
      PROVE  HeardInv'
  <2>1. /\ \A v \in User \ {u} : act'[v] = act[v]
        /\ act'[u].op = op /\ act'[u].pc = "enter"
    BY <1>1, <1>3, UserFacts DEF Begin, Types
  <2>2. op = "clear" => Listening
    BY <1>3 DEF Begin
  <2>. QED
    BY <1>2, <1>3, <2>1, <2>2 DEF Begin, threadVars, HeardInv, At
<1>4. ASSUME NEW u \in User, UserStep(u) PROVE HeardInv'
  <2>. USE UserFacts
  <2>1. ASSUME NEW p \in Pcs, Goto(u, p)
        PROVE  act'[u].op = act[u].op /\ act'[u].pc = p /\ \A v \in User \ {u} : act'[v] = act[v]
    BY <2>1, <1>1, Going DEF Actor
  <2>2. ASSUME Return(u)
        PROVE  act'[u].op = "none" /\ \A v \in User \ {u} : act'[v] = act[v]
    BY <2>2, <1>1, Returning DEF Actor, Idle
  <2>3. CASE AdoptCheck(u)
    <3>1. act[u].op = "adopt_command" /\ "push" \in Pcs
      BY <2>3 DEF AdoptCheck, At, Pcs
    <3>. QED
      BY <1>2, <2>1, <2>2, <2>3, <3>1 DEF AdoptCheck, threadVars, HeardInv, At
  <2>4. CASE AdoptPush(u)
    <3>1. act[u].op = "adopt_command" /\ "start" \in Pcs /\ "adopt_command" \in Owning
      BY <2>4 DEF AdoptPush, At, Pcs, Owning
    <3>2. \A v \in User : act[v].op # "clear"
      BY <3>1, ClearAlone
    <3>. QED
      BY <2>1, <2>4, <3>1, <3>2 DEF AdoptPush, threadVars, HeardInv, At
  <2>5. CASE AdoptStart(u)
    <3>1. act[u].op = "adopt_command" /\ "wait" \in Pcs /\ "adopt_command" \in Owning
      BY <2>5 DEF AdoptStart, At, Pcs, Owning
    <3>2. \A v \in User : act[v].op # "clear"
      BY <3>1, ClearAlone
    <3>. QED
      BY <1>1, <2>1, <2>5, <3>1, <3>2 DEF Types, AdoptStart, HeardInv, At
  <2>6. CASE AdoptReady(u)
    BY <1>2, <2>2, <2>6 DEF AdoptReady, threadVars, HeardInv, At
  <2>7. CASE ClearEnter(u)
    <3>1. "kill" \in Pcs /\ act[u].op = "clear"
      BY <2>7 DEF ClearEnter, At, Pcs
    <3>. QED
      BY <1>2, <2>1, <2>7, <3>1 DEF ClearEnter, threadVars, HeardInv, At
  <2>8. CASE ClearKill(u)
    <3>. DEFINE c == Head(commands_)
    <3>1. /\ act[u].op = "clear" /\ "clear" \in Owning /\ c \in Cmd /\ commands_ # <<>>
          /\ break_' = [break_ EXCEPT ![c] = break_[c] \/ running_[c]]
          /\ running_' = [running_ EXCEPT ![c] = FALSE]
          /\ UNCHANGED <<tpc, commands_>>
      BY <1>1, <2>8 DEF ClearKill, At, Owning, Types
    <3>2. Listening /\ \A d \in Cmd : tpc[d] = "run" => running_[d] \/ break_[d]
      BY <3>1 DEF HeardInv
    <3>3. \A v \in User \ {u} : act'[v].op # "clear"
      <4>1. "join" \in Pcs /\ Goto(u, "join")
        BY <2>8 DEF ClearKill, Pcs
      <4>. QED
        BY <2>1, <3>1, <4>1, ClearAlone
    <3>4. Listening' /\ \A d \in Cmd : tpc'[d] # "ready"
      BY <3>1, <3>2 DEF Listening
    <3>5. \A d \in Cmd : tpc[d] = "run" => running_'[d] \/ break_'[d]
      BY <1>1, <3>1, <3>2 DEF Types
    <3>6. tpc[c] = "run" => break_'[c]
      BY <1>1, <3>1, <3>2 DEF Types
    <3>. QED
      BY <3>1, <3>3, <3>4, <3>5, <3>6 DEF HeardInv, At
  <2>9. CASE ClearJoin(u)
    <3>1. "kill" \in Pcs /\ act[u].op = "clear" /\ "clear" \in Owning
      BY <2>9 DEF ClearJoin, At, Pcs, Owning
    <3>2. \A v \in User \ {u} : act[v].op # "clear"
      BY <3>1, ClearAlone
    <3>. QED
      BY <2>1, <2>9, <3>1, <3>2 DEF ClearJoin, threadVars, HeardInv, At, Listening
  <2>10. CASE ClearLeave(u)
    BY <1>2, <2>2, <2>10 DEF ClearLeave, threadVars, HeardInv, At
  <2>11. CASE SendUse(u) \/ \E d \in Cmd : SendFind(u, d)
    <3>1. /\ \A v \in User \ {u} : act'[v] = act[v]
          /\ act[u].op = "send" /\ act'[u].op # "clear"
      <4>1. act \in [Actor -> Activity] /\ u \in Actor
        BY <1>1 DEF Types
      <4>. QED
        BY <2>11, <4>1 DEF SendUse, SendFind, At, Goto, Return, Idle, Actor, Activity
    <3>. QED
      BY <1>2, <2>11, <3>1 DEF SendUse, SendFind, threadVars, HeardInv, At
  <2>. QED
    BY <1>4, <2>3, <2>4, <2>5, <2>6, <2>7, <2>8, <2>9, <2>10, <2>11 DEF UserStep
<1>5. ASSUME NEW x \in Actor, NotifyStep(x) PROVE HeardInv'
  <2>1. /\ act[x].op \in {"notify_observers", "send"}
        /\ act'[x].op # "clear" /\ \A y \in Actor \ {x} : act'[y] = act[y]
        /\ UNCHANGED <<tpc, running_, break_, commands_>>
    <3>1. act \in [Actor -> Activity]
      BY <1>1 DEF Types
    <3>. QED
      BY <1>5, <3>1 DEF NotifyStep, NotifyEnter, NotifyUse, NotifyUsed, NotifyLeave,
                        SendUsed, At, Goto, Return, Idle, Activity, threadVars
  <2>. QED
    BY <1>2, <2>1 DEF HeardInv, At, Actor
<1>6. ASSUME NEW c \in Cmd, ThreadStep(c) PROVE HeardInv'
  <2>1. CASE ThreadReady(c)
    <3>1. \A u \in User : act[u].op # "clear"
      BY <2>1 DEF ThreadReady, HeardInv, Listening
    <3>. QED
      BY <1>1, <2>1, <3>1 DEF ThreadReady, Types, HeardInv, At
  <2>2. CASE ThreadRun(c)
    <3>1. \A u \in User : act[u].op # "clear"
      BY <2>2 DEF ThreadRun, HeardInv, Listening
    <3>. QED
      BY <1>1, <2>2, <3>1 DEF ThreadRun, Types, HeardInv, At
  <2>3. CASE ThreadEnd(c)
    BY <1>1, <2>3 DEF ThreadEnd, Types, HeardInv, At, Listening
  <2>. QED
    BY <1>6, <2>1, <2>2, <2>3 DEF ThreadStep
<1>7. ASSUME NEW c \in Cmd, NEW kind \in Kinds, ThreadReceive(c, kind) PROVE HeardInv'
  <2>1. \A u \in User : act'[u] = act[u]
    BY <1>1, <1>7, LifeAssumption DEF ThreadReceive, Types, Actor
  <2>. QED
    BY <1>2, <1>7, <2>1 DEF ThreadReceive, threadVars, HeardInv, At
<1>8. CASE UNCHANGED vars
  BY <1>2, <1>8 DEF vars, threadVars, HeardInv, At
<1>. QED
  BY <1>3, <1>4, <1>5, <1>6, <1>7, <1>8 DEF Next

LEMMA HeardSound == LifeInv /\ HeardInv => CommandsAreSound
<1>. SUFFICES ASSUME LifeInv, HeardInv PROVE CommandsAreSound
  OBVIOUS
<1>1. Types /\ Listed /\ Fates /\ OnePerProtocol
  BY DEF LifeInv
<1>2. TypeOK
  <2>1. \A x \in Actor : Reading(x) => act[x].i <= Len(commands_) + 1
    BY <1>1 DEF LifeInv, Place, Types
  <2>. QED
    BY <1>1, <2>1 DEF TypeOK, Types, Activity
<1>3. ThreadEndsFirst
  BY <1>1 DEF ThreadEndsFirst, Types, Listed, Fates, ToSet
<1>4. KillIsHeard
  BY DEF HeardInv, KillIsHeard
<1>. QED
  BY <1>1, <1>2, <1>3, <1>4 DEF CommandsAreSound

(* Adopting and clearing keep commands_, the commands and their threads in  *)
(* step: one command per protocol, deleted only when its thread has ended   *)
(* and off the list, and a thread that is joined has been told to end.      *)
THEOREM CommandsStaySound ==
  ASSUME OneOwner, Patient PROVE Spec => []CommandsAreSound
<1>1. Init => LifeInv /\ HeardInv
  BY LifeInit, HeardInit
<1>2. (LifeInv /\ HeardInv) /\ [Next]_vars => (LifeInv /\ HeardInv)'
  BY LifeNext, HeardNext
<1>. QED
  BY <1>1, <1>2, HeardSound, PTL DEF Spec

=============================================================================
