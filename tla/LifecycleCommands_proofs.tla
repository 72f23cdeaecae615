----------------------- MODULE LifecycleCommands_proofs -----------------------
(***************************************************************************)
(* Theorems about LifecycleCommands, for any commands, sessions, releases  *)
(* and failures.                                                           *)
(***************************************************************************)
EXTENDS LifecycleCommands, TLAPS

OpHeld == {"lease", "check", "undo"} \cup Begun
ExHeld == {"check", "undo"} \cup Begun
Transitional == {"enabling", "stopping", "updating"}
Commands == {"enable", "stop", "update"}
CmdType ==
  [op : {"none", "enable", "stop", "update"},
   pc : {"idle", "prepare", "lock", "lease", "check", "undo"} \cup Begun,
   seen : State \cup {NoState}, base : State \cup {NoState}, target : Nat]
CountType == [{"ops", "requests", "raises", "kills"} -> Nat]

-----------------------------------------------------------------------------
(* The invariant: what a command knows where it is.  It knows the state it *)
(* has looked at once it holds the operation lease, the state it publishes *)
(* on top of is the one on disk, and there is a journal as long as it has  *)
(* begun something.                                                        *)
CmdInv(u) ==
  /\ ~At(u, "idle") => cmd[u].op \in Commands
  /\ cmd[u].pc \in {"lease", "check"} /\ cmd[u].op # "update" => cmd[u].seen = life
  /\ cmd[u].pc \in Begun \cup {"undo"} => journal # NoState
  /\ cmd[u].pc \in Begun => cmd[u].base = life
  /\ At(u, "final") /\ cmd[u].op # "stop" => life.status = "ready"
  /\ At(u, "commit") => life.status \notin Transitional

\* A journal goes back to a state that is not in transition.
JournalSettled == journal # NoState => journal.status \notin Transitional

LifeInv ==
  TypeOK /\ (\A u \in Users : CmdInv(u)) /\ JournalSettled /\ TransitionIsOwned

\* One command at most holds the operation lease.
LEMMA OneOwner ==
  ASSUME TypeOK, NEW u \in Users, NEW v \in Users, u # v, cmd[u].pc \in OpHeld
  PROVE  cmd[v].pc \notin OpHeld
BY DEF TypeOK, OpHeld

\* No command holds it when it is free.
LEMMA NoOwner ==
  ASSUME TypeOK, opLock = "free", NEW v \in Users PROVE cmd[v].pc \notin OpHeld
BY ConstantsOK DEF TypeOK, OpHeld

LEMMA NoStateType ==
  /\ NoState \notin State /\ NoState.status = "none"
  /\ NoState.gen \in Nat /\ NoState.version \in Nat
BY DEF NoState, State, Status

\* A command that does not hold the operation lease is not disturbed.
LEMMA OthersKeep ==
  ASSUME NEW v \in Users, cmd[v].pc \notin OpHeld, CmdInv(v), cmd'[v] = cmd[v]
  PROVE  CmdInv(v)'
BY DEF CmdInv, OpHeld, Begun, At

\* The invariant holds initially.
LEMMA InitLife == Init => LifeInv
<1> SUFFICES ASSUME Init PROVE LifeInv
  OBVIOUS
<1>1. TypeOK
  BY ConstantsOK DEF Init, TypeOK, State, Status, NoCmd, NoReq, Begun
<1>2. \A u \in Users : CmdInv(u)
  BY DEF Init, CmdInv, At, NoCmd, Begun
<1>3. JournalSettled /\ TransitionIsOwned
  BY DEF Init, JournalSettled, TransitionIsOwned
<1> QED
  BY <1>1, <1>2, <1>3 DEF LifeInv

\* A command that begins recovers what another left behind.
LEMMA BeginKeeps ==
  ASSUME LifeInv, NEW u \in Users, NEW op \in Commands, Begin(u, op) PROVE LifeInv'
<1> USE DEF LifeInv
<1>1. PICK v \in 1..latest : cmd' = [cmd EXCEPT ![u] = [NoCmd EXCEPT
          !.op = op, !.target = v, !.pc = IF op = "update" THEN "prepare" ELSE "lock"]]
  BY DEF Begin
<1>2. v \in Nat /\ latest \in Nat
  BY DEF TypeOK
<1>3. cmd'[u] = [NoCmd EXCEPT !.op = op, !.target = v,
                  !.pc = IF op = "update" THEN "prepare" ELSE "lock"]
  BY <1>1 DEF TypeOK
<1>4. cmd'[u].pc \notin OpHeld /\ cmd'[u].op = op /\ cmd'[u].pc # "idle"
  BY <1>3 DEF NoCmd, OpHeld, Begun
<1>5. CmdInv(u)'
  BY <1>4 DEF CmdInv, At, OpHeld, Begun
<1>6. ASSUME NEW w \in Users, w # u PROVE CmdInv(w)'
  <2>1. cmd'[w] = cmd[w]
    BY <1>1, <1>6 DEF TypeOK
  <2> QED
    BY <2>1, NoOwner, OthersKeep DEF Begin
<1>7. life' \in State /\ journal' \in State \cup {NoState}
  BY DEF Begin, TypeOK
<1>8. TypeOK'
  <2>1. cmd' \in [Users -> CmdType]
    BY <1>1, <1>2 DEF TypeOK, CmdType, NoCmd, Commands
  <2>2. cmd[u].pc = "idle" /\ count' \in CountType
    BY DEF Begin, At, Count, TypeOK, CountType
  <2>3. \A w \in Users : opLock' = w <=> cmd'[w].pc \in {"lease", "check", "undo"} \cup Begun
    BY <1>1, <1>4, <2>2 DEF Begin, TypeOK, OpHeld, Begun
  <2>4. \A w \in Users : exclusive' = w <=> cmd'[w].pc \in {"check", "undo"} \cup Begun
    BY <1>1, <1>4, <2>2 DEF Begin, TypeOK, OpHeld, Begun
  <2> QED
    BY <1>7, <2>1, <2>2, <2>3, <2>4 DEF Begin, TypeOK, CmdType, CountType
<1>9. JournalSettled' /\ TransitionIsOwned'
  <2>1. \/ UNCHANGED <<life, journal>>
        \/ journal # NoState /\ life' = journal /\ journal' = NoState
    BY DEF Begin
  <2> QED
    BY <2>1 DEF JournalSettled, TransitionIsOwned, Transitional
<1> QED
  BY <1>5, <1>6, <1>8, <1>9

\* What a command learns and gives up without touching anything: a step on the
\* way to the leases.
LEMMA WayKeeps ==
  ASSUME LifeInv, NEW u \in Users, Prepare(u) \/ Lock(u) \/ Lease(u) PROVE LifeInv'
<1> USE ConstantsOK DEF LifeInv
<1>1. UNCHANGED <<life, journal, shared, index, latest, req, count>>
  BY DEF Prepare, Lock, Lease
<1>0. cmd \in [Users -> CmdType] /\ cmd[u] \in CmdType /\ NoCmd \in CmdType /\ life \in State /\ latest \in Nat
  BY DEF TypeOK, CmdType, NoCmd
<1>2. PICK c \in CmdType : cmd' = [cmd EXCEPT ![u] = c]
  <2>1. CASE Prepare(u)
    <3>1. CASE cmd' = [cmd EXCEPT ![u].pc = "lock", ![u].seen = life, ![u].target = latest]
      <4> DEFINE d == [cmd[u] EXCEPT !.pc = "lock", !.seen = life, !.target = latest]
      <4>1. d \in CmdType
        BY <1>0 DEF CmdType
      <4>2. cmd' = [cmd EXCEPT ![u] = d]
        BY <1>0, <3>1 DEF CmdType
      <4> QED
        BY <4>1, <4>2
    <3>2. CASE cmd' = [cmd EXCEPT ![u] = NoCmd]
      BY <1>0, <3>2
    <3> QED
      BY <2>1, <3>1, <3>2 DEF Prepare, End
  <2>2. CASE Lock(u)
    <3> DEFINE seen == IF cmd[u].op = "update" THEN cmd[u].seen ELSE life
    <3>1. CASE cmd' = [cmd EXCEPT ![u].pc = "lease", ![u].seen = seen]
      <4> DEFINE d == [cmd[u] EXCEPT !.pc = "lease", !.seen = seen]
      <4>1. d \in CmdType
        BY <1>0 DEF CmdType
      <4>2. cmd' = [cmd EXCEPT ![u] = d]
        BY <1>0, <3>1 DEF CmdType
      <4> QED
        BY <4>1, <4>2
    <3>2. CASE cmd' = [cmd EXCEPT ![u] = NoCmd]
      BY <1>0, <3>2
    <3> QED
      BY <2>2, <3>1, <3>2 DEF Lock, End, TypeOK
  <2>3. CASE Lease(u)
    <3>1. [cmd[u] EXCEPT !.pc = "check"] \in CmdType
      BY DEF TypeOK, CmdType
    <3> QED
      BY <2>3, <3>1 DEF Lease, Goto, TypeOK
  <2> QED
    BY <2>1, <2>2, <2>3
<1>3. TypeOK'
  <2>1. CASE Prepare(u)
    BY <1>1, <1>2, <2>1 DEF Prepare, TypeOK, CmdType, At, End, NoCmd, Begun
  <2>2. CASE Lock(u)
    BY <1>1, <1>2, <2>2 DEF Lock, TypeOK, CmdType, At, End, NoCmd, Begun
  <2>3. CASE Lease(u)
    BY <1>1, <1>2, <2>3 DEF Lease, TypeOK, CmdType, At, Goto, Begun
  <2> QED
    BY <2>1, <2>2, <2>3
<1>4. CmdInv(u)'
  <2>1. CASE Prepare(u)
    BY <1>1, <2>1 DEF Prepare, TypeOK, CmdInv, At, End, NoCmd, Begun, Commands
  <2>2. CASE Lock(u)
    BY <1>1, <2>2 DEF Lock, TypeOK, CmdInv, At, End, NoCmd, Begun, Commands
  <2>3. CASE Lease(u)
    BY <1>1, <2>3 DEF Lease, TypeOK, CmdInv, At, Goto, Begun, Commands
  <2> QED
    BY <2>1, <2>2, <2>3
<1>5. ASSUME NEW w \in Users, w # u PROVE CmdInv(w)'
  <2>1. cmd'[w] = cmd[w]
    BY <1>2, <1>5 DEF TypeOK
  <2> QED
    BY <1>1, <2>1 DEF CmdInv, At
<1> QED
  BY <1>1, <1>3, <1>4, <1>5 DEF JournalSettled, TransitionIsOwned

\* A step of a command that has begun and goes on.
LEMMA HeldKeeps ==
  ASSUME LifeInv, NEW u \in Users, NEW c \in CmdType, cmd' = [cmd EXCEPT ![u] = c],
         cmd[u].pc \in Begun, c.pc \in Begun \cup {"undo"}, c.op = cmd[u].op,
         life' \in State, index' \in Nat, count' \in CountType,
         UNCHANGED <<journal, opLock, exclusive, shared, latest, req>>,
         c.pc \in Begun => c.base = life',
         c.pc = "final" /\ c.op # "stop" => life'.status = "ready",
         c.pc = "commit" => life'.status \notin Transitional
  PROVE  LifeInv'
<1> USE ConstantsOK DEF LifeInv
<1>1. cmd'[u] = c /\ \A w \in Users : w # u => cmd'[w] = cmd[w]
  BY DEF TypeOK
<1>2. TypeOK'
  BY <1>1 DEF TypeOK, CmdType, CountType, Begun
<1>3. CmdInv(u)'
  BY <1>1 DEF CmdInv, At, Begun, Commands
<1>4. ASSUME NEW w \in Users, w # u PROVE CmdInv(w)'
  BY <1>1, <1>4, OneOwner, OthersKeep DEF OpHeld
<1>5. journal # NoState
  BY DEF CmdInv
<1> QED
  BY <1>2, <1>3, <1>4, <1>5 DEF JournalSettled, TransitionIsOwned

\* A step of a command that ends.
LEMMA LeaveKeeps ==
  ASSUME LifeInv, NEW u \in Users, Leave(u), End(u), life' \in State,
         journal' \in State \cup {NoState}, index' \in Nat, count' \in CountType,
         UNCHANGED <<shared, latest, req>>,
         UNCHANGED <<life, journal>> \/ cmd[u].pc \in OpHeld,
         JournalSettled', TransitionIsOwned'
  PROVE  LifeInv'
<1> USE ConstantsOK DEF LifeInv
<1>1. cmd'[u] = NoCmd /\ \A w \in Users : w # u => cmd'[w] = cmd[w]
  BY DEF TypeOK, End
<1>2. TypeOK'
  <2>1. cmd' \in [Users -> CmdType]
    BY DEF TypeOK, CmdType, End, NoCmd
  <2>2. opLock' \in Users \cup {"free"} /\ exclusive' \in Users \cup Clients \cup {"free"}
    BY DEF TypeOK, Leave
  <2>3. ASSUME NEW w \in Users
        PROVE  /\ opLock' = w <=> cmd'[w].pc \in {"lease", "check", "undo"} \cup Begun
               /\ exclusive' = w <=> cmd'[w].pc \in {"check", "undo"} \cup Begun
    BY <1>1 DEF TypeOK, Leave, NoCmd, Begun
  <2> QED
    BY <2>1, <2>2, <2>3 DEF TypeOK, CmdType, CountType
<1>3. CmdInv(u)'
  BY <1>1 DEF CmdInv, At, Begun, NoCmd
<1>4. ASSUME NEW w \in Users, w # u PROVE CmdInv(w)'
  <2>1. CASE UNCHANGED <<life, journal>>
    BY <1>1, <1>4, <2>1 DEF CmdInv, At
  <2>2. CASE cmd[u].pc \in OpHeld
    BY <1>1, <1>4, <2>2, OneOwner, OthersKeep
  <2> QED
    BY <2>1, <2>2
<1> QED
  BY <1>2, <1>3, <1>4

\* What a command that publishes leaves behind: a state that follows the one
\* on disk.
Follower(u, c, pc) ==
  /\ cmd' = [cmd EXCEPT ![u] = c] /\ c.pc = pc /\ c.op = cmd[u].op
  /\ c.seen = cmd[u].seen /\ c.target = cmd[u].target

LEMMA Published ==
  ASSUME LifeInv, NEW u \in Users, cmd[u].pc \in Begun, NEW status \in Status,
         NEW version \in Nat, NEW pc \in Begun, Publish(u, status, version, pc)
  PROVE  /\ life' \in State /\ life'.status = status /\ life'.version = version
         /\ life'.gen = life.gen + 1
         /\ \E c \in CmdType : Follower(u, c, pc) /\ c.base = life'
<1>0. cmd \in [Users -> CmdType] /\ cmd[u] \in CmdType /\ cmd[u].base = life /\ life \in State
  BY DEF LifeInv, CmdInv, TypeOK, CmdType
<1>1. life' = [status |-> status, gen |-> life.gen + 1, version |-> version]
  BY <1>0 DEF Publish, Transition
<1>2. life' \in State
  BY <1>0, <1>1 DEF State
<1> DEFINE c == [cmd[u] EXCEPT !.pc = pc, !.base = life']
<1>3. cmd' = [cmd EXCEPT ![u].pc = pc, ![u].base = life']
  BY DEF Publish
<1>4. c \in CmdType
  BY <1>0, <1>2 DEF CmdType
<1>5. cmd' = [cmd EXCEPT ![u] = c]
  BY <1>0, <1>3 DEF CmdType
<1>6. Follower(u, c, pc) /\ c.base = life'
  BY <1>0, <1>5 DEF CmdType, Follower
<1> QED
  BY <1>1, <1>2, <1>4, <1>6

\* And one that goes on without publishing.
LEMMA Gone ==
  ASSUME LifeInv, NEW u \in Users, cmd[u].pc \in Begun, NEW pc \in Begun \cup {"undo"},
         Goto(u, pc)
  PROVE  \E c \in CmdType : Follower(u, c, pc) /\ c.base = cmd[u].base
<1>0. cmd \in [Users -> CmdType] /\ cmd[u] \in CmdType
  BY DEF LifeInv, TypeOK, CmdType
<1> DEFINE c == [cmd[u] EXCEPT !.pc = pc]
<1>1. c \in CmdType
  BY <1>0 DEF CmdType
<1>2. cmd' = [cmd EXCEPT ![u] = c]
  BY <1>0 DEF CmdType, Goto
<1>3. Follower(u, c, pc) /\ c.base = cmd[u].base
  BY <1>0, <1>2 DEF CmdType, Follower
<1> QED
  BY <1>1, <1>3

\* The states a command publishes are states.
LEMMA StatusType ==
  /\ Transitional \subseteq Status /\ {"ready", "stopped"} \subseteq Status
  /\ Transitional \cap {"ready", "stopped"} = {}
  /\ {"first", "work", "accept", "final", "commit"} = Begun
BY DEF Transitional, Status, Begun

\* The steps of a command that has begun.
LEMMA WorkKeeps ==
  ASSUME LifeInv, NEW u \in Users,
         First(u) \/ WorkOn(u) \/ Accept(u) \/ Final(u) \/ Raise(u)
  PROVE  LifeInv'
<1>0. /\ cmd[u].pc \in Begun /\ cmd[u].base = life /\ life \in State /\ index \in Nat
      /\ cmd[u].op \in Commands /\ cmd[u].target \in Nat /\ cmd[u].base.version \in Nat
      /\ count \in CountType
      /\ At(u, "final") /\ cmd[u].op # "stop" => life.status = "ready"
  <2>1. cmd[u].pc \in Begun
    BY DEF First, WorkOn, Accept, Final, Raise, At, Begun
  <2>2. CmdInv(u) /\ life \in State /\ index \in Nat /\ cmd[u] \in CmdType /\ count \in CountType
    BY DEF LifeInv, TypeOK, CmdType, CountType
  <2>3. cmd[u].base = life /\ cmd[u].op \in Commands
    BY <2>1, <2>2 DEF CmdInv, Begun, At
  <2> QED
    BY <2>1, <2>2, <2>3 DEF CmdInv, CmdType, State
<1>1. CASE First(u)
  <2>1. UNCHANGED <<journal, opLock, exclusive, shared, index, latest, req, count>>
    BY <1>1 DEF First
  <2>2. CASE Goto(u, "work") /\ UNCHANGED life
    <3>1. PICK c \in CmdType : Follower(u, c, "work") /\ c.base = life
      BY <1>0, <2>2, Gone, StatusType
    <3> QED
      BY <1>0, <2>1, <2>2, <3>1, HeldKeeps, StatusType DEF Follower
  <2>3. CASE Publish(u, [stop |-> "stopping", update |-> "updating",
                         enable |-> "enabling"][cmd[u].op], cmd[u].base.version, "work")
    <3>1. [stop |-> "stopping", update |-> "updating", enable |-> "enabling"][cmd[u].op] \in Status
      BY <1>0 DEF Commands, Status
    <3>2. life' \in State
          /\ \E c \in CmdType : Follower(u, c, "work") /\ c.base = life'
      BY <1>0, <2>3, <3>1, Published, StatusType
    <3>3. PICK c \in CmdType : Follower(u, c, "work") /\ c.base = life'
      BY <3>2
    <3> QED
      BY <1>0, <2>1, <3>2, <3>3, HeldKeeps, StatusType DEF Follower
  <2> QED
    BY <1>1, <2>2, <2>3 DEF First
<1>2. CASE WorkOn(u)
  <2>1. UNCHANGED <<life, journal, opLock, exclusive, shared, latest, req, count>>
        /\ index' \in Nat
    BY <1>0, <1>2 DEF WorkOn
  <2>2. CASE cmd[u].op = "stop"
    <3>1. PICK c \in CmdType : Follower(u, c, "final") /\ c.base = life
      BY <1>0, <1>2, <2>2, Gone, StatusType DEF WorkOn
    <3> QED
      BY <1>0, <2>1, <2>2, <3>1, HeldKeeps, StatusType DEF Follower
  <2>3. CASE cmd[u].op # "stop"
    <3>1. PICK c \in CmdType : Follower(u, c, "accept") /\ c.base = life
      BY <1>0, <1>2, <2>3, Gone, StatusType DEF WorkOn
    <3> QED
      BY <1>0, <2>1, <3>1, HeldKeeps, StatusType DEF Follower
  <2> QED
    BY <2>2, <2>3
<1>3. CASE Accept(u)
  <2>1. UNCHANGED <<journal, opLock, exclusive, shared, index, latest, req, count>>
    BY <1>3 DEF Accept
  <2>2. CASE Goto(u, "final") /\ UNCHANGED life /\ life.status = "ready"
    <3>1. PICK c \in CmdType : Follower(u, c, "final") /\ c.base = life
      BY <1>0, <2>2, Gone, StatusType
    <3> QED
      BY <1>0, <2>1, <2>2, <3>1, HeldKeeps, StatusType DEF Follower
  <2>3. CASE Publish(u, "ready", cmd[u].target, "final")
    <3>1. life' \in State /\ life'.status = "ready"
          /\ \E c \in CmdType : Follower(u, c, "final") /\ c.base = life'
      BY <1>0, <2>3, Published, StatusType
    <3>2. PICK c \in CmdType : Follower(u, c, "final") /\ c.base = life'
      BY <3>1
    <3> QED
      BY <1>0, <2>1, <3>1, <3>2, HeldKeeps, StatusType DEF Follower
  <2> QED
    BY <1>3, <2>2, <2>3 DEF Accept
<1>4. CASE Final(u)
  <2>1. UNCHANGED <<journal, opLock, exclusive, shared, index, latest, req, count>>
    BY <1>4 DEF Final
  <2>2. CASE Goto(u, "commit") /\ UNCHANGED life /\ cmd[u].op # "stop"
    <3>1. PICK c \in CmdType : Follower(u, c, "commit") /\ c.base = life
      BY <1>0, <2>2, Gone, StatusType
    <3>2. life.status = "ready"
      BY <1>0, <1>4, <2>2 DEF Final
    <3> QED
      BY <1>0, <2>1, <2>2, <3>1, <3>2, HeldKeeps, StatusType DEF Follower
  <2>3. ASSUME NEW status \in {"ready", "stopped"}, NEW version \in Nat,
               Publish(u, status, version, "commit")
        PROVE  LifeInv'
    <3>1. life' \in State /\ life'.status = status
          /\ \E c \in CmdType : Follower(u, c, "commit") /\ c.base = life'
      BY <1>0, <2>3, Published, StatusType
    <3>2. PICK c \in CmdType : Follower(u, c, "commit") /\ c.base = life'
      BY <3>1
    <3> QED
      BY <1>0, <2>1, <3>1, <3>2, HeldKeeps, StatusType DEF Follower
  <2>4. \/ Goto(u, "commit") /\ UNCHANGED life /\ cmd[u].op # "stop"
        \/ Publish(u, "stopped", cmd[u].base.version, "commit")
        \/ Publish(u, "stopped", cmd[u].target, "commit")
        \/ Publish(u, "ready", cmd[u].target, "commit")
    BY <1>0, <1>4 DEF Final, Commands
  <2> QED
    BY <1>0, <2>2, <2>3, <2>4
<1>5. CASE Raise(u)
  <2>1. UNCHANGED <<life, journal, opLock, exclusive, shared, index, latest, req>>
        /\ count' \in CountType /\ Goto(u, "undo")
    BY <1>0, <1>5 DEF Raise, Count, CountType
  <2>2. PICK c \in CmdType : Follower(u, c, "undo") /\ c.base = life
    BY <1>0, <2>1, Gone
  <2> QED
    BY <1>0, <2>1, <2>2, HeldKeeps, StatusType DEF Follower, Begun
<1> QED
  BY <1>1, <1>2, <1>3, <1>4, <1>5

\* A command that has both leases looks at the state again and begins.
LEMMA CheckKeeps ==
  ASSUME LifeInv, NEW u \in Users, Check(u) PROVE LifeInv'
<1> USE ConstantsOK DEF LifeInv
<1>0. /\ cmd \in [Users -> CmdType] /\ cmd[u] \in CmdType /\ life \in State
      /\ cmd[u].pc = "check" /\ CmdInv(u) /\ cmd[u].pc \in OpHeld
  BY DEF TypeOK, CmdType, Check, At, OpHeld
<1>1. UNCHANGED <<life, shared, index, latest, req, count>>
  BY DEF Check
<1>2. CASE journal = NoState /\ (cmd[u].op = "update" => life.gen = cmd[u].seen.gen)
  <2>1. /\ cmd' = [cmd EXCEPT ![u].pc = "first",
                   ![u].base = IF cmd[u].op = "update" THEN life ELSE cmd[u].seen]
        /\ journal' = life /\ UNCHANGED <<opLock, exclusive>>
    BY <1>2 DEF Check
  <2>2. cmd[u].op # "update" => cmd[u].seen = life
    BY <1>0 DEF CmdInv
  <2> DEFINE c == [cmd[u] EXCEPT !.pc = "first", !.base = life]
  <2>3. c \in CmdType
    BY <1>0 DEF CmdType, Begun
  <2>4. cmd' = [cmd EXCEPT ![u] = c]
    BY <1>0, <2>1, <2>2 DEF CmdType
  <2>5. cmd'[u] = c /\ \A w \in Users : w # u => cmd'[w] = cmd[w]
    BY <1>0, <2>4
  <2>6. c.pc = "first" /\ c.base = life /\ c.op = cmd[u].op
    BY <1>0 DEF CmdType
  <2> HIDE DEF c
  <2>7. TypeOK'
    <3>1. cmd' \in [Users -> CmdType]
      BY <1>0, <2>3, <2>4
    <3>2. ASSUME NEW w \in Users
          PROVE  /\ opLock' = w <=> cmd'[w].pc \in {"lease", "check", "undo"} \cup Begun
                 /\ exclusive' = w <=> cmd'[w].pc \in {"check", "undo"} \cup Begun
      BY <1>0, <2>1, <2>5, <2>6 DEF TypeOK, Begun
    <3> QED
      BY <1>1, <2>1, <3>1, <3>2 DEF TypeOK, CmdType
  <2>8. CmdInv(u)'
    BY <1>0, <1>1, <2>1, <2>5, <2>6, NoStateType DEF CmdInv, At, Begun
  <2>9. ASSUME NEW w \in Users, w # u PROVE CmdInv(w)'
    BY <1>0, <2>5, <2>9, OneOwner, OthersKeep
  <2>10. JournalSettled' /\ TransitionIsOwned'
    BY <1>0, <1>1, <1>2, <2>1, NoStateType DEF JournalSettled, TransitionIsOwned, Transitional
  <2> QED
    BY <2>7, <2>8, <2>9, <2>10
<1>3. CASE ~(journal = NoState /\ (cmd[u].op = "update" => life.gen = cmd[u].seen.gen))
  <2>1. Leave(u) /\ End(u) /\ UNCHANGED journal
    BY <1>3 DEF Check
  <2> QED
    BY <1>1, <2>1, LeaveKeeps DEF TypeOK, CountType, JournalSettled, TransitionIsOwned
<1> QED
  BY <1>2, <1>3

\* The steps with which a command ends: it gives up waiting, commits, rolls
\* back or dies.
LEMMA EndKeeps ==
  ASSUME LifeInv, NEW u \in Users, LeaseTimeout(u) \/ Commit(u) \/ Undo(u) \/ Kill(u)
  PROVE  LifeInv'
<1>0. /\ TypeOK /\ CmdInv(u) /\ JournalSettled /\ TransitionIsOwned
      /\ life \in State /\ journal \in State \cup {NoState} /\ index \in Nat
      /\ count \in CountType /\ NoState.status = "none"
  BY NoStateType DEF LifeInv, TypeOK, CountType
<1>1. CASE LeaseTimeout(u)
  <2>1. /\ Leave(u) /\ End(u) /\ UNCHANGED <<life, journal, shared, index, latest, req, count>>
    BY <1>1 DEF LeaseTimeout
  <2> QED
    BY <1>0, <2>1, LeaveKeeps DEF JournalSettled, TransitionIsOwned
<1>2. CASE Commit(u)
  <2>1. /\ Leave(u) /\ End(u) /\ journal' = NoState /\ UNCHANGED <<life, shared, index, latest, req, count>>
        /\ cmd[u].pc \in OpHeld /\ life.status \notin Transitional
    BY <1>0, <1>2 DEF Commit, At, OpHeld, Begun, CmdInv
  <2> QED
    BY <1>0, <2>1, LeaveKeeps DEF JournalSettled, TransitionIsOwned, Transitional
<1>3. CASE Undo(u)
  <2>1. /\ Leave(u) /\ End(u) /\ life' = journal /\ journal' = NoState
        /\ UNCHANGED <<shared, index, latest, req, count>>
        /\ cmd[u].pc \in OpHeld /\ journal # NoState
    BY <1>0, <1>3 DEF Undo, At, OpHeld, Begun, CmdInv
  <2>2. life' \in State /\ JournalSettled' /\ TransitionIsOwned'
    BY <1>0, <2>1 DEF JournalSettled, TransitionIsOwned, Transitional
  <2> QED
    BY <1>0, <2>1, <2>2, LeaveKeeps
<1>4. CASE Kill(u)
  <2>1. /\ Leave(u) /\ End(u) /\ UNCHANGED <<life, journal, shared, index, latest, req>>
        /\ count' \in CountType
    BY <1>0, <1>4 DEF Kill, Count, CountType
  <2> QED
    BY <1>0, <2>1, LeaveKeeps DEF JournalSettled, TransitionIsOwned
<1> QED
  BY <1>1, <1>2, <1>3, <1>4

\* A request changes nothing a command relies on: of the leases of the
\* commands it takes and gives back only the refresh lease, when it is free.
LEMMA RequestKeeps ==
  ASSUME LifeInv, NEW c \in Clients, Gate(c) \/ Serve(c) PROVE LifeInv'
<1> USE ConstantsOK DEF LifeInv
<1>1. UNCHANGED <<life, journal, opLock, latest, cmd>>
  BY DEF Gate, Serve, Acquire, WaitTimeout, Answer, Snapshot, Compare, Verdict
<1>2. /\ index' \in Nat /\ shared' \subseteq Clients /\ count' \in CountType
      /\ exclusive' \in Users \cup Clients \cup {"free"}
      /\ \A w \in Users : exclusive' = w <=> exclusive = w
  BY DEF Gate, Serve, Acquire, WaitTimeout, Answer, Snapshot, Compare, Verdict, TypeOK,
         CountType, Count
<1> DEFINE ReqType == [kind : Kinds \cup {"none"}, gen : Nat, life : State \cup {NoState},
               pc : {"idle", "waiting", "reading", "snapshot", "compare", "pass", "incomplete"}]
<1>3. req' \in [Clients -> ReqType]
  <2>0. req \in [Clients -> ReqType] /\ req[c] \in ReqType /\ NoReq \in ReqType
        /\ index \in Nat /\ life \in State
    BY DEF TypeOK, NoReq
  <2>1. CASE Gate(c)
    <3>1. PICK k \in Kinds :
       req' = [req EXCEPT ![c] = [kind |-> k, gen |-> index, life |-> NoState,
                 pc |-> CASE k = "cli" -> "reading" [] k = "verify" -> "snapshot"
                          [] OTHER -> "waiting"]]
      BY <2>1 DEF Gate
    <3>2. (CASE k = "cli" -> "reading" [] k = "verify" -> "snapshot" [] OTHER -> "waiting")
          \in {"reading", "snapshot", "waiting"}
      OBVIOUS
    <3> QED
      BY <2>0, <3>1, <3>2
  <2>2. CASE Acquire(c)
    BY <2>0, <2>2 DEF Acquire
  <2>3. CASE WaitTimeout(c) \/ Answer(c) \/ Verdict(c)
    BY <2>0, <2>3 DEF WaitTimeout, Answer, Verdict
  <2>4. CASE Snapshot(c)
    BY <2>0, <2>4 DEF Snapshot
  <2>5. CASE Compare(c)
    BY <2>0, <2>5 DEF Compare
  <2> QED
    BY <2>1, <2>2, <2>3, <2>4, <2>5 DEF Serve
<1>4. TypeOK'
  BY <1>1, <1>2, <1>3 DEF TypeOK, CountType
<1>5. (\A u \in Users : CmdInv(u)') /\ JournalSettled' /\ TransitionIsOwned'
  BY <1>1 DEF CmdInv, At, JournalSettled, TransitionIsOwned
<1> QED
  BY <1>4, <1>5

\* Every step keeps the invariant.
LEMMA NextLife == LifeInv /\ [Next]_vars => LifeInv'
<1> SUFFICES ASSUME LifeInv, [Next]_vars PROVE LifeInv'
  OBVIOUS
<1>1. ASSUME NEW u \in Users, NEW op \in Commands, Begin(u, op) PROVE LifeInv'
  BY <1>1, BeginKeeps
<1>2. ASSUME NEW u \in Users, Step(u) PROVE LifeInv'
  BY <1>2, WayKeeps, WorkKeeps, CheckKeeps, EndKeeps DEF Step
<1>3. ASSUME NEW u \in Users, Raise(u) \/ Kill(u) PROVE LifeInv'
  BY <1>3, WorkKeeps, EndKeeps
<1>4. ASSUME NEW c \in Clients, Gate(c) \/ Serve(c) PROVE LifeInv'
  BY <1>4, RequestKeeps
<1>5. CASE Release \/ UNCHANGED vars
  <2>1. UNCHANGED <<life, journal, opLock, exclusive, shared, index, cmd, req, count>>
    BY <1>5 DEF Release, vars
  <2>2. latest' \in Nat
    BY <1>5 DEF Release, vars, LifeInv, TypeOK
  <2>3. TypeOK'
    BY <2>1, <2>2 DEF LifeInv, TypeOK
  <2> QED
    BY <2>1, <2>3 DEF LifeInv, CmdInv, At, JournalSettled, TransitionIsOwned
<1> QED
  BY <1>1, <1>2, <1>3, <1>4, <1>5 DEF Next, Commands

LEMMA LifeInvariant == Spec => []LifeInv
  BY InitLife, NextLife, PTL DEF Spec

-----------------------------------------------------------------------------
\* The types of every variable, and that the holder of each lease is at a
\* step that holds it: the mutual exclusion of the commands.
THEOREM TypeCorrect == Spec => []TypeOK
<1>1. LifeInv => TypeOK
  BY DEF LifeInv
<1> QED
  BY <1>1, LifeInvariant, PTL

\* A project is never left between two states: whatever fails, dies or races,
\* a state in transition has a journal that leads back (the rollback of the
\* owner in simple_cli.py or _recover_before_mutation of the next command).
THEOREM TransitionsAreOwned == Spec => []TransitionIsOwned
<1>1. LifeInv => TransitionIsOwned
  BY DEF LifeInv
<1> QED
  BY <1>1, LifeInvariant, PTL

-----------------------------------------------------------------------------
(* The refresh lease.  A session that reads holds it as its request needs  *)
(* it, and readers and a writer exclude each other.                        *)
LeaseInv ==
  /\ \A c \in Clients :
       /\ c \in shared <=> req[c].pc = "reading" /\ req[c].kind = "query"
       /\ exclusive = c <=> req[c].pc = "reading" /\ req[c].kind = "refresh"
       /\ req[c].pc = "reading" => req[c].kind \in {"query", "refresh", "cli"}
  /\ shared # {} => exclusive = "free"

ReadInv == LifeInv /\ LeaseInv /\ OneGeneration

LEMMA InitRead == Init => ReadInv
<1> SUFFICES ASSUME Init PROVE LeaseInv /\ OneGeneration
  BY InitLife DEF ReadInv
<1> QED
  BY ConstantsOK DEF Init, LeaseInv, OneGeneration, NoReq

\* A command takes the lease only from nobody, and indexes only under it.
LEMMA CommandReads ==
  ASSUME ReadInv, NEW u \in Users, NEW op \in Commands,
         Begin(u, op) \/ Step(u) \/ Raise(u) \/ Kill(u)
  PROVE  LeaseInv' /\ OneGeneration'
<1> USE ConstantsOK
<1>1. UNCHANGED <<shared, req>>
  BY DEF Begin, Step, Prepare, Lock, Lease, LeaseTimeout, Check, First, WorkOn, Accept, Final,
         Commit, Undo, Raise, Kill
<1>2. \/ UNCHANGED exclusive
      \/ shared = {} /\ exclusive = "free" /\ exclusive' = u
      \/ exclusive = u /\ exclusive' = "free"
  BY DEF Begin, Step, Prepare, Lock, Lease, LeaseTimeout, Check, First, WorkOn, Accept, Final,
         Commit, Undo, Raise, Kill, Leave
<1>3. UNCHANGED index \/ exclusive = u
  <2>1. CASE WorkOn(u)
    BY <2>1 DEF WorkOn, ReadInv, LifeInv, TypeOK, At, Begun
  <2>2. CASE ~WorkOn(u)
    BY <2>2 DEF Begin, Step, Prepare, Lock, Lease, LeaseTimeout, Check, First, Accept, Final,
                Commit, Undo, Raise, Kill
  <2> QED
    BY <2>1, <2>2
<1>4. LeaseInv'
  BY <1>1, <1>2 DEF ReadInv, LeaseInv
<1>5. OneGeneration'
  <2>1. CASE UNCHANGED index
    BY <1>1, <2>1 DEF ReadInv, OneGeneration
  <2>2. CASE exclusive = u
    BY <1>1, <2>2 DEF ReadInv, LeaseInv, OneGeneration
  <2> QED
    BY <1>3, <2>1, <2>2
<1> QED
  BY <1>4, <1>5

\* A session reads what is published when it gets the lease, and publishes only
\* when it alone has it.
LEMMA SessionReads ==
  ASSUME ReadInv, NEW c \in Clients, Gate(c) \/ Serve(c)
  PROVE  LeaseInv' /\ OneGeneration'
<1> USE ConstantsOK DEF ReadInv
<1>0. /\ req \in [Clients -> [kind : Kinds \cup {"none"}, gen : Nat, life : State \cup {NoState},
            pc : {"idle", "waiting", "reading", "snapshot", "compare", "pass", "incomplete"}]]
      /\ c # "free" /\ LeaseInv /\ OneGeneration
  BY DEF LifeInv, TypeOK
<1>1. CASE Gate(c)
  <2>1. PICK k \in Kinds :
       req' = [req EXCEPT ![c] = [kind |-> k, gen |-> index, life |-> NoState,
                 pc |-> CASE k = "cli" -> "reading" [] k = "verify" -> "snapshot"
                          [] OTHER -> "waiting"]]
    BY <1>1 DEF Gate
  <2>2. /\ req'[c].pc = "reading" => req'[c].kind = "cli"
        /\ \A d \in Clients : d # c => req'[d] = req[d]
    BY <1>0, <2>1
  <2>3. req[c].pc = "idle" /\ UNCHANGED <<exclusive, shared, index>>
    BY <1>1 DEF Gate
  <2> QED
    BY <1>0, <2>2, <2>3 DEF LeaseInv, OneGeneration
<1>2. CASE Acquire(c)
  <2>1. /\ req'[c].pc = "reading" /\ req'[c].gen = index /\ req'[c].kind = req[c].kind
        /\ \A d \in Clients : d # c => req'[d] = req[d]
        /\ req[c].pc = "waiting" /\ exclusive = "free" /\ UNCHANGED index
    BY <1>0, <1>2 DEF Acquire
  <2>2. CASE req[c].kind = "query" /\ shared' = shared \cup {c} /\ UNCHANGED exclusive
    BY <1>0, <2>1, <2>2 DEF LeaseInv, OneGeneration
  <2>3. CASE req[c].kind = "refresh" /\ shared = {} /\ exclusive' = c /\ UNCHANGED shared
    BY <1>0, <2>1, <2>3 DEF LeaseInv, OneGeneration
  <2> QED
    BY <1>2, <2>2, <2>3 DEF Acquire
<1>3. CASE WaitTimeout(c) \/ Snapshot(c) \/ Compare(c) \/ Verdict(c)
  <2>1. /\ req[c].pc # "reading" /\ req'[c].pc # "reading"
        /\ \A d \in Clients : d # c => req'[d] = req[d]
        /\ UNCHANGED <<exclusive, shared, index>>
    BY <1>0, <1>3 DEF WaitTimeout, Snapshot, Compare, Verdict, NoReq
  <2> QED
    BY <1>0, <2>1 DEF LeaseInv, OneGeneration
<1>4. CASE Answer(c)
  <2>1. /\ req[c].pc = "reading" /\ req'[c].pc = "idle"
        /\ \A d \in Clients : d # c => req'[d] = req[d]
        /\ shared' = shared \ {c} /\ exclusive' = IF exclusive = c THEN "free" ELSE exclusive
        /\ index' = IF req[c].kind = "refresh" THEN index + 1 ELSE index
    BY <1>0, <1>4 DEF Answer, NoReq
  <2>2. LeaseInv'
    BY <1>0, <2>1 DEF LeaseInv
  <2>3. CASE req[c].kind = "refresh"
    BY <1>0, <2>1, <2>3 DEF LeaseInv, OneGeneration
  <2>4. CASE req[c].kind # "refresh"
    BY <1>0, <2>1, <2>2, <2>4 DEF OneGeneration
  <2> QED
    BY <2>2, <2>3, <2>4
<1> QED
  BY <1>1, <1>2, <1>3, <1>4 DEF Serve

LEMMA NextRead == ReadInv /\ [Next]_vars => ReadInv'
<1> SUFFICES ASSUME ReadInv, [Next]_vars PROVE LeaseInv' /\ OneGeneration'
  BY NextLife DEF ReadInv
<1>1. CASE Release \/ UNCHANGED vars
  BY <1>1 DEF Release, vars, ReadInv, LeaseInv, OneGeneration
<1> QED
  BY <1>1, CommandReads, SessionReads DEF Next, Commands

\* What a query or a refresh of a session reads stays the published index until
\* it has answered, whatever commands and sessions run beside it
\* (RefreshCoordinator.query_snapshot and its refresh lease).
THEOREM ReadsOneGeneration == Spec => []OneGeneration
<1>1. ReadInv => OneGeneration
  BY DEF ReadInv
<1> QED
  BY <1>1, InitRead, NextRead, PTL DEF Spec

-----------------------------------------------------------------------------
(* Updates among other commands.  As long as no command fails, the state   *)
(* an update has read is older than the one on disk or is the one on disk: *)
(* nothing goes back, and every publication counts up.                     *)
Fresh(u) ==
  /\ cmd[u].seen \in State /\ cmd[u].seen.gen <= life.gen
  /\ cmd[u].seen.gen = life.gen => cmd[u].seen = life
  /\ cmd[u].seen.version <= cmd[u].target
  /\ cmd[u].seen.status \in {"ready", "stopped"}

\* What an update that has not begun, or has, relies on.
UpdInv(u) ==
  /\ cmd[u].pc \in {"lock", "lease", "check"} => Fresh(u)
  /\ cmd[u].pc \in Begun => journal = cmd[u].seen /\ journal.status \in {"ready", "stopped"}
  /\ cmd[u].pc \in Begun => life.version <= cmd[u].target
  /\ At(u, "commit") => life.status = cmd[u].seen.status

\* Only a command that has begun has a journal.
Calm ==
  /\ \A u \in Users : ~At(u, "undo")
  /\ \A u \in Users : cmd[u].pc \in {"lease", "check"} => journal = NoState
  /\ opLock = "free" => journal = NoState
  /\ \A u \in Users : cmd[u].op = "update" => UpdInv(u)

CalmInv == LifeInv /\ (Unfailing => Calm)

\* Failures are counted and never forgotten.
LEMMA StaysUnfailing ==
  ASSUME LifeInv, [Next]_vars, Unfailing' PROVE Unfailing
<1>1. count \in CountType
  BY DEF LifeInv, TypeOK, CountType
<1>2. \/ UNCHANGED count
      \/ \E what \in {"ops", "requests", "raises", "kills"} : Count(what)
  BY DEF Next, Begin, Step, Prepare, Lock, Lease, LeaseTimeout, Check, First, WorkOn, Accept,
         Final, Commit, Undo, Raise, Kill, Release, Gate, Serve, Acquire, WaitTimeout, Answer,
         Snapshot, Compare, Verdict, vars
<1>3. CASE UNCHANGED count
  BY <1>3 DEF Unfailing
<1>4. ASSUME NEW what \in {"ops", "requests", "raises", "kills"}, Count(what) PROVE Unfailing
  <2>1. /\ count'.raises = count.raises \/ count'.raises = count.raises + 1
        /\ count'.kills = count.kills \/ count'.kills = count.kills + 1
    BY <1>1, <1>4 DEF Count, CountType
  <2>2. count.raises \in Nat /\ count.kills \in Nat
    BY <1>1 DEF CountType
  <2> QED
    BY <2>1, <2>2 DEF Unfailing
<1> QED
  BY <1>2, <1>3, <1>4

\* A command that counts one up leaves the others' knowledge what it is.
LEMMA FreshStays ==
  ASSUME NEW v \in Users, Fresh(v), cmd'[v] = cmd[v], life \in State, life' \in State,
         life' = life \/ life'.gen = life.gen + 1
  PROVE  Fresh(v)'
BY DEF Fresh, State

\* A command that others get in the way of, which holds no lease or has begun
\* nothing itself.
LEMMA OthersCalm ==
  ASSUME NEW v \in Users, UpdInv(v), cmd'[v] = cmd[v], life \in State, life' \in State,
         life' = life \/ life'.gen = life.gen + 1,
         cmd[v].pc \in Begun => UNCHANGED <<life, journal>>
  PROVE  UpdInv(v)'
<1>1. Fresh(v) => Fresh(v)'
  BY FreshStays
<1> QED
  BY <1>1 DEF UpdInv, At, Begun

\* A step of u leaves the rest calm: who changes the state or the journal
\* holds the operation lease, so nobody else has begun or is about to.
LEMMA RestCalm ==
  ASSUME LifeInv, LifeInv', Calm, NEW u \in Users,
         \A w \in Users : w # u => cmd'[w] = cmd[w],
         life' = life \/ life'.gen = life.gen + 1,
         UNCHANGED <<life, journal>> \/ cmd[u].pc \in OpHeld,
         ~At(u, "undo")', cmd'[u].pc \in {"lease", "check"} => journal' = NoState,
         opLock' = "free" => journal' = NoState, cmd'[u].op = "update" => UpdInv(u)'
  PROVE  Calm'
<1>0. life \in State /\ life' \in State /\ TypeOK
  BY DEF LifeInv, TypeOK
<1>1. ASSUME NEW v \in Users, v # u
      PROVE  /\ ~At(v, "undo")'
             /\ cmd'[v].pc \in {"lease", "check"} => journal' = NoState
             /\ cmd'[v].op = "update" => UpdInv(v)'
  <2>1. cmd'[v] = cmd[v] /\ ~At(v, "undo")
    BY <1>1 DEF Calm
  <2>2. cmd[v].pc \in OpHeld => UNCHANGED <<life, journal>>
    BY <1>0, <1>1, OneOwner
  <2>3. cmd[v].pc \in {"lease", "check"} => journal' = NoState
    BY <2>2 DEF Calm, OpHeld
  <2>4. cmd[v].op = "update" => UpdInv(v)'
    BY <1>0, <2>1, <2>2, OthersCalm DEF Calm, OpHeld, Begun
  <2> QED
    BY <2>1, <2>3, <2>4 DEF At
<1> QED
  BY <1>1 DEF Calm

\* A command on its way to the leases.
LEMMA WayCalm ==
  ASSUME LifeInv, LifeInv', Calm, NEW u \in Users, NEW op \in Commands,
         Begin(u, op) \/ Prepare(u) \/ Lock(u) \/ Lease(u)
  PROVE  Calm'
<1> USE ConstantsOK
<1>0. /\ cmd \in [Users -> CmdType] /\ cmd[u] \in CmdType /\ life \in State /\ latest \in Nat
      /\ u # "free" /\ (cmd[u].op = "update" => UpdInv(u))
  BY DEF LifeInv, TypeOK, CmdType, Calm
<1>1. UNCHANGED <<life, journal>>
  BY DEF Begin, Prepare, Lock, Lease, Calm
<1>2. \A w \in Users : w # u => cmd'[w] = cmd[w]
  BY <1>0 DEF Begin, Prepare, Lock, Lease, End, Goto
<1>3. CASE Begin(u, op)
  <2>1. PICK v \in 1..latest : cmd' = [cmd EXCEPT ![u] = [NoCmd EXCEPT
          !.op = op, !.target = v, !.pc = IF op = "update" THEN "prepare" ELSE "lock"]]
    BY <1>3 DEF Begin
  <2>2. /\ cmd'[u].op = op /\ cmd'[u].pc = IF op = "update" THEN "prepare" ELSE "lock"
    BY <1>0, <2>1 DEF NoCmd
  <2>3. opLock = "free" /\ opLock' = "free"
    BY <1>3 DEF Begin
  <2> QED
    BY <1>0, <1>1, <1>2, <2>2, <2>3, RestCalm DEF UpdInv, At, Begun, Calm
<1>4. CASE Prepare(u)
  <2>1. UNCHANGED opLock /\ cmd[u].pc = "prepare"
    BY <1>4 DEF Prepare, At
  <2>2. CASE cmd'[u] = NoCmd
    BY <1>0, <1>1, <1>2, <2>1, <2>2, RestCalm DEF NoCmd, At, Calm
  <2>3. CASE /\ life.status \in {"ready", "stopped"} /\ latest > life.version
             /\ cmd' = [cmd EXCEPT ![u].pc = "lock", ![u].seen = life, ![u].target = latest]
    <3>1. cmd'[u].pc = "lock" /\ cmd'[u].seen = life /\ cmd'[u].target = latest
      BY <1>0, <2>3 DEF CmdType
    <3>2. life.gen \in Nat /\ life.version \in Nat /\ life.version <= latest
      BY <1>0, <2>3 DEF State
    <3>3. Fresh(u)'
      BY <1>0, <1>1, <2>3, <3>1, <3>2 DEF Fresh
    <3>4. UpdInv(u)'
      BY <3>1, <3>3 DEF UpdInv, At, Begun
    <3> QED
      BY <1>0, <1>1, <1>2, <2>1, <3>1, <3>4, RestCalm DEF At, Calm
  <2> QED
    BY <1>0, <1>4, <2>2, <2>3 DEF Prepare, End
<1>5. CASE Lock(u)
  <2>1. CASE cmd'[u] = NoCmd /\ UNCHANGED opLock
    BY <1>0, <1>1, <1>2, <2>1, RestCalm DEF NoCmd, At, Calm
  <2>2. CASE /\ opLock = "free" /\ opLock' = u
             /\ cmd' = [cmd EXCEPT ![u].pc = "lease",
                        ![u].seen = IF cmd[u].op = "update" THEN @ ELSE life]
    <3>1. /\ cmd'[u].pc = "lease" /\ cmd'[u].op = cmd[u].op /\ cmd'[u].target = cmd[u].target
          /\ cmd[u].op = "update" => cmd'[u].seen = cmd[u].seen
      BY <1>0, <2>2 DEF CmdType
    <3>2. cmd[u].pc = "lock" /\ journal = NoState
      BY <1>5, <2>2 DEF Lock, At, Calm
    <3>3. cmd[u].op = "update" => Fresh(u)'
      BY <1>0, <1>1, <3>1, <3>2 DEF UpdInv, Fresh
    <3>4. cmd[u].op = "update" => UpdInv(u)'
      BY <3>1, <3>3 DEF UpdInv, At, Begun
    <3> QED
      BY <1>0, <1>1, <1>2, <2>2, <3>1, <3>2, <3>4, RestCalm DEF At
  <2> QED
    BY <1>0, <1>5, <2>1, <2>2 DEF Lock, End
<1>6. CASE Lease(u)
  <2>1. /\ cmd'[u].pc = "check" /\ cmd'[u].op = cmd[u].op /\ cmd'[u].target = cmd[u].target
        /\ cmd'[u].seen = cmd[u].seen /\ cmd[u].pc = "lease" /\ UNCHANGED opLock
    BY <1>0, <1>6 DEF CmdType, Lease, Goto, At
  <2>2. cmd[u].op = "update" => UpdInv(u)'
    BY <1>0, <1>1, <2>1 DEF UpdInv, Fresh, At, Begun
  <2> QED
    BY <1>0, <1>1, <1>2, <2>1, <2>2, RestCalm DEF At, Calm
<1> QED
  BY <1>3, <1>4, <1>5, <1>6

\* A command that looks again: what an update goes on with is on disk.
LEMMA CheckCalm ==
  ASSUME LifeInv, LifeInv', Calm, NEW u \in Users, Check(u) PROVE Calm'
<1> USE ConstantsOK
<1>0. /\ cmd \in [Users -> CmdType] /\ cmd[u] \in CmdType /\ life \in State
      /\ u # "free" /\ (cmd[u].op = "update" => UpdInv(u)) /\ cmd[u].pc = "check"
      /\ cmd[u].pc \in OpHeld /\ opLock = u /\ journal = NoState /\ UNCHANGED life
  BY DEF LifeInv, TypeOK, CmdType, Calm, Check, At, OpHeld
<1>1. \A w \in Users : w # u => cmd'[w] = cmd[w]
  BY <1>0 DEF Check, End
<1>2. CASE cmd[u].op = "update" => life.gen = cmd[u].seen.gen
  <2>1. /\ cmd' = [cmd EXCEPT ![u].pc = "first",
                   ![u].base = IF cmd[u].op = "update" THEN life ELSE cmd[u].seen]
        /\ journal' = life /\ UNCHANGED opLock
    BY <1>0, <1>2 DEF Check
  <2>2. /\ cmd'[u].pc = "first" /\ cmd'[u].op = cmd[u].op /\ cmd'[u].seen = cmd[u].seen
        /\ cmd'[u].target = cmd[u].target
    BY <1>0, <2>1 DEF CmdType
  <2>3. cmd[u].op = "update" =>
          cmd[u].seen = life /\ life.status \in {"ready", "stopped"} /\ life.version <= cmd[u].target
    BY <1>0, <1>2 DEF UpdInv, Fresh
  <2>4. cmd[u].op = "update" => UpdInv(u)'
    BY <1>0, <2>1, <2>2, <2>3 DEF UpdInv, At, Begun
  <2> QED
    BY <1>0, <1>1, <2>1, <2>2, <2>4, RestCalm DEF At
<1>3. CASE ~(cmd[u].op = "update" => life.gen = cmd[u].seen.gen)
  <2>1. cmd'[u] = NoCmd /\ UNCHANGED journal
    BY <1>0, <1>3 DEF Check, End
  <2> QED
    BY <1>0, <1>1, <2>1, RestCalm DEF NoCmd, At
<1> QED
  BY <1>2, <1>3

\* A command that works towards its commit.
LEMMA WorkCalm ==
  ASSUME LifeInv, LifeInv', Calm, NEW u \in Users,
         First(u) \/ WorkOn(u) \/ Accept(u) \/ Final(u)
  PROVE  Calm' /\ (life' = life \/ life'.gen = life.gen + 1)
               /\ (cmd[u].op = "update" => life'.version >= life.version)
<1> USE ConstantsOK
<1>0. /\ cmd \in [Users -> CmdType] /\ cmd[u] \in CmdType /\ life \in State
      /\ u # "free" /\ (cmd[u].op = "update" => UpdInv(u)) /\ cmd[u].pc \in Begun
      /\ cmd[u].pc \in OpHeld /\ opLock = u /\ cmd[u].base = life /\ cmd[u].op \in Commands
      /\ At(u, "final") /\ cmd[u].op # "stop" => life.status = "ready"
      /\ cmd[u].target \in Nat /\ life.version \in Nat
  BY DEF LifeInv, TypeOK, CmdType, Calm, First, WorkOn, Accept, Final, At, OpHeld, Begun, CmdInv,
         State
<1>1. /\ \A w \in Users : w # u => cmd'[w] = cmd[w]
      /\ UNCHANGED <<journal, opLock>>
  <2>1. UNCHANGED <<journal, opLock>>
    BY DEF First, WorkOn, Accept, Final
  <2>2. (\E pc \in Begun : Goto(u, pc)) \/ (\E status, version, pc : Publish(u, status, version, pc))
    BY <1>0, StatusType DEF First, WorkOn, Accept, Final, Commands
  <2>3. ASSUME NEW pc, Goto(u, pc) PROVE \A w \in Users : w # u => cmd'[w] = cmd[w]
    BY <1>0, <2>3 DEF Goto
  <2>4. ASSUME NEW status, NEW version, NEW pc, Publish(u, status, version, pc)
        PROVE  \A w \in Users : w # u => cmd'[w] = cmd[w]
    BY <1>0, <2>4 DEF Publish
  <2> QED
    BY <2>1, <2>2, <2>3, <2>4
<1> DEFINE Onward(pc) ==
      /\ cmd'[u].pc = pc /\ cmd'[u].op = cmd[u].op /\ cmd'[u].seen = cmd[u].seen
      /\ cmd'[u].target = cmd[u].target
<1>2. ASSUME NEW pc \in Begun, Goto(u, pc) PROVE Onward(pc)
  BY <1>0, <1>2 DEF CmdType, Goto
<1>3. ASSUME NEW status \in Status, NEW version \in Nat, NEW pc \in Begun,
             Publish(u, status, version, pc)
      PROVE  /\ Onward(pc) /\ life'.gen = life.gen + 1 /\ life'.status = status
             /\ life'.version = version
  <2>1. PICK c \in CmdType : Follower(u, c, pc)
    BY <1>0, <1>3, Published
  <2>2. Onward(pc)
    BY <1>0, <2>1 DEF Follower
  <2> QED
    BY <1>0, <1>3, <2>2, Published
<1> DEFINE Result(pc) ==
      /\ Onward(pc) /\ (life' = life \/ life'.gen = life.gen + 1)
      /\ cmd[u].op = "update" =>
           /\ life'.version >= life.version /\ life'.version <= cmd[u].target
           /\ pc = "commit" => life'.status = cmd[u].seen.status
<1>4. ASSUME NEW pc \in Begun, Result(pc)
      PROVE  Calm' /\ (life' = life \/ life'.gen = life.gen + 1)
                   /\ (cmd[u].op = "update" => life'.version >= life.version)
  <2>1. cmd[u].op = "update" => UpdInv(u)'
    BY <1>0, <1>1, <1>4 DEF UpdInv, At, Begun
  <2> QED
    BY <1>0, <1>1, <1>4, <2>1, RestCalm DEF At, Begun
<1>5. cmd[u].op = "update" =>
        /\ life.version <= cmd[u].target /\ journal = cmd[u].seen
        /\ cmd[u].seen.status \in {"ready", "stopped"}
  BY <1>0 DEF UpdInv
<1> HIDE DEF Onward
<1>6. CASE First(u)
  <2>1. CASE Goto(u, "work") /\ UNCHANGED life
    BY <1>0, <1>2, <1>4, <1>5, <2>1, StatusType
  <2>2. CASE Publish(u, [stop |-> "stopping", update |-> "updating",
                         enable |-> "enabling"][cmd[u].op], cmd[u].base.version, "work")
    <3>1. [stop |-> "stopping", update |-> "updating", enable |-> "enabling"][cmd[u].op] \in Status
      BY <1>0 DEF Commands, Status
    <3>2. Onward("work") /\ life'.gen = life.gen + 1 /\ life'.version = life.version
      BY <1>0, <1>3, <2>2, <3>1, StatusType
    <3> QED
      BY <1>0, <1>4, <1>5, <3>2, StatusType
  <2> QED
    BY <1>6, <2>1, <2>2 DEF First
<1>7. CASE WorkOn(u)
  <2>1. UNCHANGED life /\ \E pc \in {"final", "accept"} : Goto(u, pc)
    BY <1>7 DEF WorkOn
  <2> QED
    BY <1>0, <1>2, <1>4, <1>5, <2>1, StatusType
<1>8. CASE Accept(u)
  <2>1. CASE Goto(u, "final") /\ UNCHANGED life
    BY <1>0, <1>2, <1>4, <1>5, <2>1, StatusType
  <2>2. CASE Publish(u, "ready", cmd[u].target, "final")
    <3>1. Onward("final") /\ life'.gen = life.gen + 1 /\ life'.version = cmd[u].target
      BY <1>0, <1>3, <2>2, StatusType
    <3> QED
      BY <1>0, <1>4, <1>5, <3>1, StatusType
  <2> QED
    BY <1>8, <2>1, <2>2 DEF Accept
<1>9. CASE Final(u)
  <2>1. CASE cmd[u].op # "update"
    <3>1. \/ Goto(u, "commit") /\ UNCHANGED life
          \/ \E status \in {"ready", "stopped"}, version \in {cmd[u].base.version, cmd[u].target} :
               Publish(u, status, version, "commit")
      BY <1>0, <1>9, <2>1 DEF Final, Commands
    <3>2. Onward("commit") /\ (life' = life \/ life'.gen = life.gen + 1)
      BY <1>0, <1>2, <1>3, <3>1, StatusType
    <3> QED
      BY <1>4, <2>1, <3>2, StatusType
  <2>2. CASE cmd[u].op = "update" /\ cmd[u].seen.status = "stopped"
    <3>1. Publish(u, "stopped", cmd[u].target, "commit")
      BY <1>9, <2>2 DEF Final
    <3>2. Onward("commit") /\ life'.gen = life.gen + 1 /\ life'.version = cmd[u].target
          /\ life'.status = "stopped"
      BY <1>0, <1>3, <3>1, StatusType
    <3> QED
      BY <1>0, <1>4, <1>5, <2>2, <3>2, StatusType
  <2>3. CASE cmd[u].op = "update" /\ cmd[u].seen.status # "stopped"
    <3>1. Goto(u, "commit") /\ UNCHANGED life /\ life.status = "ready"
      BY <1>0, <1>9, <2>3 DEF Final
    <3> QED
      BY <1>0, <1>2, <1>4, <1>5, <2>3, <3>1, StatusType
  <2> QED
    BY <2>1, <2>2, <2>3
<1> QED
  BY <1>6, <1>7, <1>8, <1>9

\* A command that ends without a failure leaves no journal.
LEMMA EndCalm ==
  ASSUME LifeInv, LifeInv', Calm, NEW u \in Users, LeaseTimeout(u) \/ Commit(u) PROVE Calm'
<1> USE ConstantsOK
<1>0. /\ cmd \in [Users -> CmdType] /\ cmd[u].pc \in OpHeld
  BY DEF LifeInv, TypeOK, CmdType, LeaseTimeout, Commit, At, OpHeld, Begun
<1>1. cmd'[u] = NoCmd /\ \A w \in Users : w # u => cmd'[w] = cmd[w]
  BY <1>0 DEF LeaseTimeout, Commit, End
<1>2. UNCHANGED life /\ journal' = NoState
  BY DEF LeaseTimeout, Commit, At, Calm
<1> QED
  BY <1>0, <1>1, <1>2, RestCalm DEF NoCmd, At

\* Initially nobody has begun anything.
LEMMA InitCalm == Init => CalmInv
<1> SUFFICES ASSUME Init PROVE Calm
  BY InitLife DEF CalmInv
<1> QED
  BY DEF Init, Calm, UpdInv, NoCmd, At, Begun

LEMMA NextCalm == CalmInv /\ [Next]_vars => CalmInv'
<1> SUFFICES ASSUME CalmInv, [Next]_vars, Unfailing' PROVE Calm'
  BY NextLife DEF CalmInv
<1>0. LifeInv /\ LifeInv' /\ Calm /\ Unfailing
  BY NextLife, StaysUnfailing DEF CalmInv
<1>1. ASSUME NEW u \in Users, NEW op \in Commands, Begin(u, op) \/ Step(u) PROVE Calm'
  <2>1. ~Undo(u)
    BY <1>0 DEF Undo, Calm
  <2> QED
    BY <1>0, <1>1, <2>1, WayCalm, CheckCalm, WorkCalm, EndCalm DEF Step
<1>2. ASSUME NEW u \in Users PROVE ~Raise(u) /\ ~Kill(u)
  <2>1. count \in CountType
    BY <1>0 DEF LifeInv, TypeOK, CountType
  <2> QED
    BY <1>0, <2>1 DEF Raise, Kill, Count, CountType, Unfailing
<1>3. CASE UNCHANGED <<life, journal, opLock, cmd>>
  BY <1>0, <1>3 DEF Calm, UpdInv, Fresh, At
<1>4. ASSUME NEW c \in Clients, Gate(c) \/ Serve(c) PROVE Calm'
  BY <1>3, <1>4 DEF Gate, Serve, Acquire, WaitTimeout, Answer, Snapshot, Compare, Verdict
<1>5. CASE Release \/ UNCHANGED vars
  BY <1>3, <1>5 DEF Release, vars
<1> QED
  BY <1>1, <1>2, <1>4, <1>5 DEF Next, Commands

\* Each step publishes on top of the state on disk, or goes back to the
\* journal's; only a command that has begun publishes.
LEMMA StepFollows ==
  ASSUME LifeInv, [Next]_vars
  PROVE  /\ Follows
         /\ \/ life' = life
            \/ journal # NoState /\ life' = journal
            \/ \E u \in Users : First(u) \/ Accept(u) \/ Final(u)
<1>1. ASSUME NEW u \in Users, First(u) \/ Accept(u) \/ Final(u) PROVE life' = life \/ life'.gen = life.gen + 1
  <2>1. /\ cmd[u].pc \in Begun /\ cmd[u].base = life /\ life.version \in Nat /\ cmd[u].target \in Nat
        /\ cmd[u].op \in Commands
    BY <1>1 DEF First, Accept, Final, At, Begun, LifeInv, CmdInv, TypeOK, State
  <2>2. ASSUME NEW status \in Status, NEW version \in Nat, NEW pc \in Begun,
               Publish(u, status, version, pc)
        PROVE  life'.gen = life.gen + 1
    BY <2>1, <2>2, Published
  <2>3. CASE First(u)
    <3>1. [stop |-> "stopping", update |-> "updating", enable |-> "enabling"][cmd[u].op] \in Status
      BY <2>1 DEF Commands, Status
    <3> QED
      BY <2>1, <2>2, <2>3, <3>1, StatusType DEF First
  <2>4. CASE Accept(u)
    BY <2>1, <2>2, <2>4, StatusType DEF Accept
  <2>5. CASE Final(u)
    <3>1. \/ UNCHANGED life
          \/ \E status \in {"ready", "stopped"}, version \in {cmd[u].base.version, cmd[u].target} :
               Publish(u, status, version, "commit")
      BY <2>1, <2>5 DEF Final, Commands
    <3> QED
      BY <2>1, <2>2, <3>1, StatusType
  <2> QED
    BY <1>1, <2>3, <2>4, <2>5
<1>2. \/ life' = life
      \/ journal # NoState /\ life' = journal
      \/ \E u \in Users : First(u) \/ Accept(u) \/ Final(u)
  <2>1. ASSUME NEW u \in Users, Undo(u) PROVE journal # NoState /\ life' = journal
    BY <2>1 DEF Undo, LifeInv, CmdInv, At
  <2>2. ASSUME NEW u \in Users, NEW op \in Commands, Begin(u, op)
        PROVE  life' = life \/ (journal # NoState /\ life' = journal)
    BY <2>2 DEF Begin
  <2>3. ASSUME NEW u \in Users,
               Prepare(u) \/ Lock(u) \/ Lease(u) \/ LeaseTimeout(u) \/ Check(u) \/ WorkOn(u)
               \/ Commit(u) \/ Raise(u) \/ Kill(u)
        PROVE  life' = life
    BY <2>3 DEF Prepare, Lock, Lease, LeaseTimeout, Check, WorkOn, Commit, Raise, Kill
  <2>4. ASSUME NEW c \in Clients, Gate(c) \/ Serve(c) PROVE life' = life
    BY <2>4 DEF Gate, Serve, Acquire, WaitTimeout, Answer, Snapshot, Compare, Verdict
  <2>5. CASE Release \/ UNCHANGED vars
    BY <2>5 DEF Release, vars
  <2> QED
    BY <2>1, <2>2, <2>3, <2>4, <2>5 DEF Next, Step, Commands
<1> QED
  BY <1>1, <1>2 DEF Follows

\* Without a failure an update publishes no older version, and commits the
\* status it has found.
LEMMA CalmUpdates ==
  ASSUME CalmInv, [Next]_vars, Unfailing PROVE Upgrades /\ UpdateKeepsStatus
<1>0. LifeInv /\ LifeInv' /\ Calm /\ life.version \in Nat
  BY NextLife DEF CalmInv, LifeInv, TypeOK, State
<1>1. Upgrades
  <2> SUFFICES ASSUME NEW u \in Users, cmd[u].op = "update", cmd'[u] # cmd[u], opLock = u,
                      opLock' = u
               PROVE  life'.version >= life.version
    BY DEF Upgrades
  <2>1. CASE life' = life
    BY <1>0, <2>1
  <2>2. opLock # "free" /\ cmd[u].pc \in OpHeld
    BY <1>0, ConstantsOK DEF LifeInv, TypeOK, OpHeld
  <2>3. CASE journal # NoState /\ life' = journal /\ life' # life
    <3>1. PICK w \in Users : (\E op \in Commands : Begin(w, op)) \/ Step(w) \/ Raise(w) \/ Kill(w)
      BY <2>3 DEF Next, Commands, Gate, Serve, Acquire, WaitTimeout, Answer, Snapshot, Compare,
                  Verdict, Release, vars
    <3>2. ~Undo(w) /\ \A op \in Commands : ~Begin(w, op)
      BY <1>0, <2>2 DEF Undo, Begin, Calm
    <3>3. First(w) \/ Accept(w) \/ Final(w)
      BY <2>3, <3>1, <3>2 DEF Step, Prepare, Lock, Lease, LeaseTimeout, Check, WorkOn, Commit, Raise, Kill
    <3>4. cmd[w].pc \in OpHeld
      BY <3>3 DEF First, Accept, Final, At, OpHeld, Begun
    <3>5. w = u
      BY <1>0, <2>2, <3>4, OneOwner DEF LifeInv
    <3> QED
      BY <1>0, <3>3, <3>5, WorkCalm
  <2>4. CASE \E w \in Users : First(w) \/ Accept(w) \/ Final(w)
    <3>1. PICK w \in Users : First(w) \/ Accept(w) \/ Final(w)
      BY <2>4
    <3>2. cmd[w].pc \in OpHeld
      BY <3>1 DEF First, Accept, Final, At, OpHeld, Begun
    <3>3. w = u
      BY <1>0, <2>2, <3>2, OneOwner DEF LifeInv
    <3> QED
      BY <1>0, <3>1, <3>3, WorkCalm
  <2> QED
    BY <1>0, <2>1, <2>3, <2>4, StepFollows
<1>2. UpdateKeepsStatus
  BY <1>0 DEF UpdateKeepsStatus, Calm, UpdInv, At, Begun
<1> QED
  BY <1>1, <1>2

\* Nobody's change to the lifecycle state is lost: what is published counts up
\* from the state on disk, or is the journal's.  And while no command fails, an
\* update that was overtaken between its first look and its leases publishes no
\* older version and no other status (update_project's comparison of the
\* operation generation).
THEOREM ChangesAreKept == Spec => NothingOverwritten
<1>1. CalmInv /\ [Next]_vars => [Follows /\ (Unfailing => Upgrades /\ UpdateKeepsStatus)]_vars
  BY StepFollows, CalmUpdates DEF CalmInv
<1> QED
  BY <1>1, InitCalm, NextCalm, PTL DEF Spec, NothingOverwritten
=============================================================================
