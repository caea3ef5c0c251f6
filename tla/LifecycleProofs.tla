--------------------------- MODULE LifecycleProofs ---------------------------
(***************************************************************************)
(* What Lifecycle promises for any number of connections and commands and  *)
(* every value of its bounds: its types, that a daemon alone is reachable,  *)
(* and that a loaded label runs what its plist names; and that all of this  *)
(* holds with the menu (MenuBar) over it, too.                             *)
(***************************************************************************)
EXTENDS MenuBar, TLAPS

\* AloneReachable, made inductive: the name is clear before the bind, and
\* nobody else is there to take it.
NameInv ==
  \A p \in Procs :
    alone[p] /\ Alive(p) =>
      /\ \A q \in Procs : Alive(q) => q = p
      /\ phase[p] = "cleared" => path = "none"
      /\ phase[p] = "bound" \/ Listening(p) => path = p

\* What the steps of one process do to the variables of the processes.
ProcStep ==
  \/ \E p \in Procs :
       \/ \E b \in Backends : Birth(p, b)
       \/ ClearName(p) \/ Bind(p) \/ Listen(p) \/ ListenFails(p) \/ Load(p)
       \/ EnterRun(p) \/ Woken(p) \/ AcceptFails(p) \/ StopLearner(p)
       \/ Leave(p) \/ Signal(p) \/ Crash(p)
       \/ \E c \in Clients : Accept(p, c)
  \/ \E c \in Clients :
       /\ \/ \E p \in Procs :
               path = p /\ Listening(p) /\ queue' = [queue EXCEPT ![p] = @ \cup {c}]
               /\ served' = served
          \/ /\ queue' = [p \in Procs |-> queue[p] \ {c}]
             /\ served' = [p \in Procs |-> served[p] \ {c}]
       /\ UNCHANGED <<phase, wake, backend, path, alone>>
  \/ UNCHANGED procVars

ProcTypes ==
  /\ phase \in [Procs -> Phases]
  /\ wake \in [Procs -> BOOLEAN]
  /\ backend \in [Procs -> Backends]
  /\ path \in Procs \cup {"none", "stale"}
  /\ queue \in [Procs -> SUBSET Clients]
  /\ served \in [Procs -> SUBSET Clients]
  /\ alone \in [Procs -> BOOLEAN]

CmdTypes ==
  /\ cmd \in [Shells -> Cmds]
  /\ \A u \in Shells : cmd[u].op = "waiting" => cmd[u].n \in 0 .. MaxWaits
  /\ \A u \in Shells : cmd[u].op = "trying" => cmd[u].n \in 0 .. MaxTries

-----------------------------------------------------------------------------

(* A process that ends keeps the types and takes nothing from one alone.   *)
LEMMA GoneKeeps ==
  ASSUME ProcTypes, NameInv, NEW p \in Procs, Alive(p),
         NEW name \in {"none", LeftBehind(p), path}, Gone(p, name)
  PROVE  ProcTypes' /\ NameInv'
<1>1. name \in Procs \cup {"none", "stale"}
  BY DEF ProcTypes, LeftBehind
<1>2. ProcTypes'
  BY <1>1 DEF ProcTypes, Gone, Goto, Phases
<1>3. NameInv'
  <2> SUFFICES ASSUME NEW r \in Procs, alone'[r], Alive(r)'
               PROVE  FALSE
    BY Zenon DEF NameInv
  <2>1. r # p /\ alone[r] /\ Alive(r)
    BY DEF Gone, Goto, Alive, ProcTypes
  <2> QED
    BY <2>1 DEF NameInv
<1> QED
  BY <1>2, <1>3

(* The same for a process that moves on and leaves the name alone.         *)
LEMMA MoveKeeps ==
  ASSUME ProcTypes, NameInv, NEW p \in Procs, Alive(p), NEW ph \in Phases,
         ph # "none", Goto(p, ph), path' = path, alone' = alone,
         ph = "cleared" => FALSE,
         ph = "bound" => FALSE,
         phase[p] = "bound" \/ Listening(p)
  PROVE  NameInv'
<1> SUFFICES ASSUME NEW r \in Procs, alone'[r], Alive(r)'
             PROVE  /\ \A q \in Procs : Alive(q)' => q = r
                    /\ phase'[r] = "cleared" => path' = "none"
                    /\ phase'[r] = "bound" \/ Listening(r)' => path' = r
  BY Zenon DEF NameInv
<1>1. alone[r] /\ Alive(r)
  BY DEF Goto, Alive, ProcTypes
<1>2. r = p
  BY <1>1 DEF NameInv
<1>3. /\ \A q \in Procs : Alive(q) => q = r
      /\ path = p
  BY <1>1, <1>2 DEF NameInv
<1> QED
  BY <1>2, <1>3 DEF Goto, Alive, ProcTypes, Listening

LEMMA ProcKeeps ==
  ASSUME ProcTypes, NameInv, ProcStep
  PROVE  ProcTypes' /\ NameInv'
<1>1. ASSUME NEW p \in Procs, NEW b \in Backends, Birth(p, b)
      PROVE  ProcTypes' /\ NameInv'
  <2>1. ProcTypes'
    BY <1>1 DEF Birth, Goto, ProcTypes, Phases
  <2>2. ASSUME NEW r \in Procs, alone'[r], Alive(r)'
        PROVE  /\ \A q \in Procs : Alive(q)' => q = r
               /\ phase'[r] = "cleared" => path' = "none"
               /\ phase'[r] = "bound" \/ Listening(r)' => path' = r
    BY <1>1, <2>2 DEF Birth, Goto, Alive, ProcTypes, Listening
  <2> QED
    BY <2>1, <2>2, Zenon DEF NameInv
<1>2. ASSUME NEW p \in Procs, ClearName(p)
      PROVE  ProcTypes' /\ NameInv'
  <2>1. ProcTypes'
    BY <1>2 DEF ClearName, Goto, ProcTypes, Phases
  <2>2. ASSUME NEW r \in Procs, alone'[r], Alive(r)'
        PROVE  /\ \A q \in Procs : Alive(q)' => q = r
               /\ phase'[r] = "cleared" => path' = "none"
               /\ phase'[r] = "bound" \/ Listening(r)' => path' = r
    <3>1. alone[r] /\ Alive(r) /\ Alive(p)
      BY <1>2, <2>2 DEF ClearName, Goto, Alive, ProcTypes
    <3>2. r = p /\ \A q \in Procs : Alive(q) => q = r
      BY <3>1 DEF NameInv
    <3> QED
      BY <1>2, <3>2 DEF ClearName, Goto, Alive, ProcTypes, Listening
  <2> QED
    BY <2>1, <2>2, Zenon DEF NameInv
<1>3. ASSUME NEW p \in Procs, Bind(p)
      PROVE  ProcTypes' /\ NameInv'
  <2>1. CASE path # "none"
    BY <1>3, <2>1, GoneKeeps DEF Bind, Alive
  <2>2. CASE path = "none"
    <3>1. ProcTypes'
      BY <1>3, <2>2 DEF Bind, Goto, ProcTypes, Phases
    <3>2. ASSUME NEW r \in Procs, alone'[r], Alive(r)'
          PROVE  /\ \A q \in Procs : Alive(q)' => q = r
                 /\ phase'[r] = "cleared" => path' = "none"
                 /\ phase'[r] = "bound" \/ Listening(r)' => path' = r
      <4>1. alone[r] /\ Alive(r) /\ Alive(p)
        BY <1>3, <2>2, <3>2 DEF Bind, Goto, Alive, ProcTypes
      <4>2. r = p /\ \A q \in Procs : Alive(q) => q = r
        BY <4>1 DEF NameInv
      <4> QED
        BY <1>3, <2>2, <4>2 DEF Bind, Goto, Alive, ProcTypes, Listening
    <3> QED
      BY <3>1, <3>2, Zenon DEF NameInv
  <2> QED
    BY <2>1, <2>2
<1>4. ASSUME NEW p \in Procs,
             \/ Listen(p) \/ Load(p) \/ EnterRun(p) \/ Woken(p)
             \/ AcceptFails(p) \/ StopLearner(p)
      PROVE  ProcTypes' /\ NameInv'
  <2>1. /\ phase[p] = "bound" \/ Listening(p)
        /\ Alive(p)
        /\ path' = path
        /\ alone' = alone
    BY <1>4 DEF Listen, Load, EnterRun, Woken, AcceptFails, StopLearner,
                Listening, Alive
  <2>2. PICK ph \in {"loading", "ready", "serving", "stopping", "leaving"} :
          Goto(p, ph)
    BY <1>4 DEF Listen, Load, EnterRun, Woken, AcceptFails, StopLearner
  <2>3. NameInv'
    <3>1. ph \in Phases /\ ph # "none" /\ ph # "cleared" /\ ph # "bound"
      BY <2>2 DEF Phases
    <3> QED
      BY <2>1, <2>2, <3>1, MoveKeeps, Zenon
  <2>4. backend' \in [Procs -> Backends]
    BY <1>4, BackendsAssumption
    DEF Listen, Load, EnterRun, Woken, AcceptFails, StopLearner, ProcTypes
  <2>5. UNCHANGED <<wake, queue, served>>
    BY <1>4 DEF Listen, Load, EnterRun, Woken, AcceptFails, StopLearner
  <2> QED
    BY <2>1, <2>2, <2>3, <2>4, <2>5 DEF ProcTypes, Goto, Phases
<1>5. ASSUME NEW p \in Procs, ListenFails(p) \/ Leave(p) \/ Crash(p)
      PROVE  ProcTypes' /\ NameInv'
  <2>1. Alive(p)
    BY <1>5 DEF ListenFails, Leave, Crash, Alive
  <2>2. PICK name \in {"none", LeftBehind(p), path} : Gone(p, name)
    BY <1>5 DEF ListenFails, Leave, Crash
  <2> QED
    BY <2>1, <2>2, GoneKeeps
<1>6. ASSUME NEW p \in Procs, Signal(p)
      PROVE  ProcTypes' /\ NameInv'
  <2>1. CASE Alive(p) /\ Gone(p, LeftBehind(p))
    BY <2>1, GoneKeeps
  <2>2. CASE /\ wake' = [wake EXCEPT ![p] = TRUE]
             /\ UNCHANGED <<phase, backend, path, queue, served, alone>>
    BY <2>2 DEF ProcTypes, NameInv, Alive, Listening
  <2>3. CASE UNCHANGED procVars
    BY <2>3 DEF ProcTypes, NameInv, Alive, Listening, procVars
  <2> QED
    BY <1>6, <2>1, <2>2, <2>3 DEF Signal
<1>7. ASSUME NEW p \in Procs, NEW c \in Clients, Accept(p, c)
      PROVE  ProcTypes' /\ NameInv'
  BY <1>7 DEF Accept, ProcTypes, NameInv, Alive, Listening
<1>8. ASSUME NEW c \in Clients,
             \/ \E p \in Procs :
                  path = p /\ Listening(p) /\ queue' = [queue EXCEPT ![p] = @ \cup {c}]
                  /\ served' = served
             \/ /\ queue' = [p \in Procs |-> queue[p] \ {c}]
                /\ served' = [p \in Procs |-> served[p] \ {c}],
             UNCHANGED <<phase, wake, backend, path, alone>>
      PROVE  ProcTypes' /\ NameInv'
  <2>1. queue' \in [Procs -> SUBSET Clients] /\ served' \in [Procs -> SUBSET Clients]
    BY <1>8 DEF ProcTypes
  <2> QED
    BY <1>8, <2>1 DEF ProcTypes, NameInv, Alive, Listening
<1>9. CASE UNCHANGED procVars
  BY <1>9 DEF ProcTypes, NameInv, Alive, Listening, procVars
<1> QED
  BY <1>1, <1>2, <1>3, <1>4, <1>5, <1>6, <1>7, <1>8, <1>9 DEF ProcStep

-----------------------------------------------------------------------------

(* Every step is a step of the processes, and one of the commands.         *)
LEMMA NextIsProcStep ==
  ASSUME TypeOK, Next
  PROVE  ProcStep
<1>1. CASE \E p \in Procs : Runs(p) \/ Fails(p)
  BY <1>1, Zenon DEF Runs, Fails, ProcStep
<1>2. CASE \E p \in Procs, c \in Clients : Takes(p, c)
  BY <1>2, Zenon DEF Takes, ProcStep
<1>3. CASE \E c \in Clients : Connect(c) \/ HangUp(c)
  BY <1>3 DEF Connect, HangUp, ProcStep
<1>4. CASE Spawn
  <2>1. conf \in Backends /\ Job \in Procs /\ Birth(Job, conf)
    BY <1>4 DEF Spawn, TypeOK, Procs
  <2> QED
    BY <2>1, Zenon DEF ProcStep
<1>5. CASE StartByHand \/ Interrupt
  <2>1. Hand \in Procs
    BY DEF Procs
  <2> QED
    BY <1>5, <2>1, Zenon DEF StartByHand, Interrupt, ProcStep
<1>6. CASE \E u \in Shells : Works(u) \/ Refused(u)
  <2>1. Job \in Procs
    BY DEF Procs
  <2>2. Signal(Job) \/ UNCHANGED procVars
    BY <1>6 DEF Works, Pause, Resume, Setup, Refused, BootOut, BootStrap
  <2> QED
    BY <2>1, <2>2, Zenon DEF ProcStep
<1>7. CASE \E u \in Shells, op \in {"pause", "resume", "setup"}, b \in Backends :
             Begin(u, op, b)
  BY <1>7, Zenon DEF Begin, ProcStep
<1> QED
  BY <1>1, <1>2, <1>3, <1>4, <1>5, <1>6, <1>7 DEF Next, System

RestTypes ==
  /\ loaded \in BOOLEAN
  /\ conf \in Backends
  /\ plist \in Backends
  /\ events \in 0 .. MaxEvents

RestInv == CmdTypes /\ RestTypes /\ LoadedIsCurrent

LEMMA StillKeeps ==
  ASSUME RestInv, UNCHANGED <<jobVars, cmd>>, events' \in 0 .. MaxEvents
  PROVE  RestInv'
BY DEF RestInv, CmdTypes, RestTypes, LoadedIsCurrent, jobVars

(* bootout and bootstrap: a label that is loaded is one that was, or has    *)
(* just read the plist.                                                    *)
LEMMA LaunchctlKeeps ==
  ASSUME RestTypes, BootOut \/ BootStrap \/ UNCHANGED jobVars
  PROVE  /\ loaded' \in BOOLEAN /\ conf' \in Backends /\ plist' \in Backends
         /\ loaded' => \/ conf' = plist'
                       \/ loaded /\ conf' = conf /\ plist' = plist
<1>1. CASE BootOut
  <2>1. CASE loaded' = FALSE /\ conf' = conf /\ plist' = plist
    BY <2>1 DEF RestTypes
  <2>2. CASE UNCHANGED jobVars /\ ~loaded
    BY <2>2 DEF RestTypes, jobVars
  <2> QED
    BY <1>1, <2>1, <2>2 DEF BootOut
<1>2. CASE BootStrap
  BY <1>2 DEF RestTypes, BootStrap
<1>3. CASE UNCHANGED jobVars
  BY <1>3 DEF RestTypes, jobVars
<1> QED
  BY <1>1, <1>2, <1>3

(* A command at any other step than "reboot" goes on, or ends.             *)
LEMMA CmdKeeps ==
  ASSUME RestInv, NEW u \in Shells, NEW c \in Cmds,
         cmd' = [cmd EXCEPT ![u] = c],
         c.op = "waiting" => c.n \in 0 .. MaxWaits,
         c.op = "trying" => c.n \in 0 .. MaxTries,
         BootOut \/ BootStrap \/ UNCHANGED jobVars,
         cmd[u].op = "reboot" => BootOut,
         events' \in 0 .. MaxEvents
  PROVE  RestInv'
<1>1. CmdTypes'
  BY DEF RestInv, CmdTypes
<1>2. RestTypes'
  BY LaunchctlKeeps DEF RestInv, RestTypes
<1>3. LoadedIsCurrent'
  <2> SUFFICES ASSUME loaded', conf' # plist'
               PROVE  \E v \in Shells : cmd'[v].op = "reboot"
    BY DEF LoadedIsCurrent
  <2>1. loaded /\ conf # plist
    BY LaunchctlKeeps DEF RestInv
  <2>2. PICK v \in Shells : cmd[v].op = "reboot"
    BY <2>1 DEF RestInv, LoadedIsCurrent
  <2>3. v # u
    BY <2>1, <2>2 DEF BootOut, RestInv
  <2> QED
    BY <2>2, <2>3 DEF RestInv, CmdTypes
<1> QED
  BY <1>1, <1>2, <1>3 DEF RestInv

LEMMA RestKeeps ==
  ASSUME RestInv, Next
  PROVE  RestInv'
<1>0. /\ MaxWaits \in Nat /\ MaxTries \in Nat /\ MaxEvents \in Nat
      /\ events \in 0 .. MaxEvents
      /\ cmd \in [Shells -> Cmds]
      /\ Fallback \in Backends
  BY BoundsAssumption, BackendsAssumption DEF RestInv, RestTypes, CmdTypes
<1>1. CASE \/ \E p \in Procs : Runs(p) \/ Fails(p)
           \/ \E p \in Procs, c \in Clients : Takes(p, c)
           \/ \E c \in Clients : Connect(c) \/ HangUp(c)
           \/ Spawn \/ StartByHand \/ Interrupt
  <2>1. UNCHANGED <<jobVars, cmd>>
    BY <1>1 DEF Runs, Fails, Takes, Connect, HangUp, Spawn, StartByHand, Interrupt
  <2>2. events' = events \/ Happens
    BY <1>1 DEF Runs, Fails, Takes, Connect, HangUp, Spawn, StartByHand, Interrupt
  <2>3. events' \in 0 .. MaxEvents
    BY <1>0, <2>2 DEF Happens
  <2> QED
    BY <2>1, <2>3, StillKeeps
<1>2. ASSUME NEW u \in Shells, Pause(u) \/ Resume(u)
      PROVE  RestInv'
  <2>1. PICK c \in Cmds :
          /\ cmd' = [cmd EXCEPT ![u] = c]
          /\ c.op = "waiting" => c.n \in 0 .. MaxWaits
          /\ c.op = "trying" => c.n \in 0 .. MaxTries
    <3> DEFINE W(op, n) == [op |-> op, n |-> n, want |-> cmd[u].want]
    <3>1. cmd[u] \in Cmds /\ cmd[u].n \in Nat /\ cmd[u].want \in Backends
      BY <1>0 DEF Cmds
    <3>2. /\ Idle \in Cmds /\ W("bootout", 0) \in Cmds
          /\ W("waiting", 0) \in Cmds /\ W("waiting", cmd[u].n + 1) \in Cmds
          /\ W("trying", 0) \in Cmds /\ W("trying", cmd[u].n + 1) \in Cmds
      BY <1>0, <3>1 DEF Cmds, Idle
    <3>3. /\ cmd[u].n < MaxWaits => cmd[u].n + 1 \in 0 .. MaxWaits
          /\ cmd[u].n < MaxTries => cmd[u].n + 1 \in 0 .. MaxTries
          /\ 0 \in 0 .. MaxWaits /\ 0 \in 0 .. MaxTries
      BY <1>0, <3>1
    <3>4. \/ cmd' = [cmd EXCEPT ![u] = Idle]
          \/ cmd' = [cmd EXCEPT ![u] = W("bootout", 0)]
          \/ cmd' = [cmd EXCEPT ![u] = W("waiting", 0)]
          \/ /\ cmd[u].n < MaxWaits
             /\ cmd' = [cmd EXCEPT ![u] = W("waiting", cmd[u].n + 1)]
          \/ cmd' = [cmd EXCEPT ![u] = W("trying", 0)]
          \/ /\ cmd[u].n < MaxTries
             /\ cmd' = [cmd EXCEPT ![u] = W("trying", cmd[u].n + 1)]
      BY <1>2 DEF Pause, Resume, Become, Finish
    <3> QED
      BY <3>2, <3>3, <3>4 DEF Idle
  <2>2. BootOut \/ BootStrap \/ UNCHANGED jobVars
    BY <1>2 DEF Pause, Resume
  <2>3. cmd[u].op # "reboot"
    BY <1>2 DEF Pause, Resume
  <2>4. events' \in 0 .. MaxEvents
    BY <1>0, <1>2 DEF Pause, Resume
  <2> QED
    BY <2>1, <2>2, <2>3, <2>4, CmdKeeps
<1>3. ASSUME NEW u \in Shells, Setup(u)
      PROVE  RestInv'
  <2>0. /\ events' \in 0 .. MaxEvents
        /\ cmd[u] \in Cmds /\ cmd[u].want \in Backends
    BY <1>0, <1>3 DEF Setup, Cmds
  <2>1. CASE cmd[u].op = "setup"
    <3> DEFINE c == [op |-> "reboot", n |-> 0, want |-> cmd[u].want]
    <3>1. /\ plist' = cmd[u].want
          /\ cmd' = [cmd EXCEPT ![u] = c]
          /\ UNCHANGED <<loaded, conf>>
      BY <1>3, <2>1 DEF Setup, Become
    <3>2. c \in Cmds /\ c.op = "reboot"
      BY <2>0 DEF Cmds
    <3> HIDE DEF c
    <3>3. CmdTypes'
      BY <3>1, <3>2 DEF RestInv, CmdTypes
    <3>4. cmd'[u].op = "reboot"
      BY <1>0, <3>1, <3>2
    <3>5. LoadedIsCurrent'
      BY <3>4 DEF LoadedIsCurrent
    <3> QED
      BY <2>0, <3>1, <3>3, <3>5 DEF RestInv, RestTypes
  <2>2. CASE cmd[u].op \in {"reboot", "strap"}
    <3>1. PICK c \in Cmds :
            cmd' = [cmd EXCEPT ![u] = c] /\ c.op \in {"strap", "idle"}
      <4>1. /\ Idle \in Cmds /\ Idle.op = "idle"
            /\ [op |-> "strap", n |-> 0, want |-> cmd[u].want] \in Cmds
        BY <1>0, <2>0 DEF Cmds, Idle
      <4> QED
        BY <1>3, <2>2, <4>1 DEF Setup, Become, Finish
    <3>2. BootOut \/ BootStrap \/ UNCHANGED jobVars
      BY <1>3, <2>2 DEF Setup
    <3>3. cmd[u].op = "reboot" => BootOut
      BY <1>3 DEF Setup
    <3> QED
      BY <2>0, <3>1, <3>2, <3>3, CmdKeeps
  <2> QED
    BY <1>3, <2>1, <2>2 DEF Setup
<1>4. ASSUME NEW u \in Shells, Refused(u)
      PROVE  RestInv'
  <2>0. /\ events' \in 0 .. MaxEvents
        /\ cmd[u] \in Cmds /\ cmd[u].want \in Backends /\ cmd[u].n \in Nat
    BY <1>0, <1>4 DEF Refused, Happens, Cmds
  <2>1. PICK c \in Cmds :
          /\ cmd' = [cmd EXCEPT ![u] = c]
          /\ c.op = "waiting" => c.n \in 0 .. MaxWaits
          /\ c.op = "trying" => c.n \in 0 .. MaxTries
    <3>1. /\ Idle \in Cmds /\ Idle.op = "idle"
          /\ [op |-> "trying", n |-> cmd[u].n + 1, want |-> cmd[u].want] \in Cmds
      BY <1>0, <2>0 DEF Cmds, Idle
    <3>2. cmd[u].n < MaxTries => cmd[u].n + 1 \in 0 .. MaxTries
      BY <1>0, <2>0
    <3> QED
      BY <1>4, <3>1, <3>2 DEF Refused, Become, Finish
  <2>2. UNCHANGED jobVars /\ cmd[u].op # "reboot"
    BY <1>4 DEF Refused
  <2> QED
    BY <2>0, <2>1, <2>2, CmdKeeps
<1>5. ASSUME NEW u \in Shells, NEW op \in {"pause", "resume", "setup"},
             NEW b \in Backends, Begin(u, op, b)
      PROVE  RestInv'
  <2> DEFINE c == [op |-> op, n |-> 0, want |-> b]
  <2>1. /\ cmd' = [cmd EXCEPT ![u] = c]
        /\ UNCHANGED jobVars
        /\ cmd[u].op # "reboot"
    BY <1>5 DEF Begin
  <2>2. events' \in 0 .. MaxEvents
    BY <1>0, <1>5 DEF Begin, Happens
  <2>3. c \in Cmds /\ c.op # "waiting" /\ c.op # "trying"
    BY DEF Cmds
  <2> HIDE DEF c
  <2> QED
    BY <2>1, <2>2, <2>3, CmdKeeps
<1> QED
  BY <1>1, <1>2, <1>3, <1>4, <1>5, Zenon DEF Next, System, Works

-----------------------------------------------------------------------------

IInv == ProcTypes /\ NameInv /\ RestInv

LEMMA Starts == Init => IInv
<1> SUFFICES ASSUME Init PROVE IInv
  OBVIOUS
<1>1. ProcTypes /\ NameInv
  BY BackendsAssumption DEF Init, ProcTypes, NameInv, Phases, Alive
<1>2. CmdTypes
  BY BackendsAssumption DEF Init, CmdTypes, Cmds, Idle
<1>3. RestTypes /\ LoadedIsCurrent
  BY BackendsAssumption, BoundsAssumption DEF Init, RestTypes, LoadedIsCurrent
<1> QED
  BY <1>1, <1>2, <1>3 DEF IInv, RestInv

LEMMA TypesAre == IInv => TypeOK
BY DEF IInv, RestInv, RestTypes, CmdTypes, ProcTypes, TypeOK

LEMMA Continues == IInv /\ [Next]_vars => IInv'
<1> SUFFICES ASSUME IInv, [Next]_vars PROVE IInv'
  OBVIOUS
<1>1. CASE Next
  <2>1. ProcStep
    BY <1>1, TypesAre, NextIsProcStep
  <2> QED
    BY <1>1, <2>1, ProcKeeps, RestKeeps DEF IInv
<1>2. CASE UNCHANGED vars
  <2>1. UNCHANGED procVars /\ UNCHANGED <<jobVars, cmd>> /\ events' = events
    BY <1>2 DEF vars
  <2>2. ProcStep
    BY <2>1, Zenon DEF ProcStep
  <2>3. RestInv'
    BY <2>1, StillKeeps DEF IInv, RestInv, RestTypes
  <2> QED
    BY <2>2, <2>3, ProcKeeps DEF IInv
<1> QED
  BY <1>1, <1>2

THEOREM Inductive == Spec => []IInv
BY Starts, Continues, PTL DEF Spec

(* Types, and the numbers of looks and attempts of pause and resume, for   *)
(* every number of commands that run at once.                              *)
THEOREM TypeCorrect == Spec => []TypeOK
BY Inductive, TypesAre, PTL

(* A daemon that has been alone since it started is the one connect()      *)
(* reaches, whatever an earlier one left behind (ListenEndpoint).          *)
THEOREM Reachable == Spec => []AloneReachable
<1>1. IInv => AloneReachable
  BY DEF IInv, NameInv, AloneReachable, Alive, Listening
<1> QED
  BY <1>1, Inductive, PTL

(* A loaded label runs the backend its plist names, or a setup is about to *)
(* boot it out (CmdPause, CmdResume, install_launchagent.sh).              *)
THEOREM Current == Spec => []LoadedIsCurrent
<1>1. IInv => LoadedIsCurrent
  BY DEF IInv, RestInv
<1> QED
  BY <1>1, Inductive, PTL

-----------------------------------------------------------------------------
(* The menu over all that (MenuBar).                                       *)

\* A click is followed by a poll only while polls of it are to come, and what
\* is to be shown is something the menu can show. A version that is not 0 is that
\* of the reranker its process has.
MenuInv ==
  /\ \A u \in Shells : poll[u].at # "idle" => clicked[u].polls > 0
  /\ \A k \in Pollers : poll[k].at = "show" =>
       poll[k].answer \in Named \cup {"paused", "unreachable", "toolMissing"}
  /\ \A p \in Procs : version[p] # Mock => phase[p] = "serving" /\ version[p] = backend[p]

MenuIInv == MenuTypeOK /\ MenuInv

LEMMA MenuStarts == AllInit => MenuIInv
BY BackendsAssumption, FollowUpsAssumption, TimerAssumption
   DEF AllInit, MenuIInv, MenuTypeOK, MenuInv, NotPolling, NotClicked, Answers, Named, Pollers

(* One poller goes on, and the clicks stay as they are.                    *)
LEMMA PollKeeps ==
  ASSUME MenuIInv, NEW k \in Pollers, NEW at \in {"idle", "stats", "ping", "show"},
         NEW answer \in Answers \cup {"paused", "unreachable", "toolMissing"},
         Polls(k, at, answer), UNCHANGED <<vars, shown, clicked, version>>
                               \/ UNCHANGED <<procVars, shown, clicked, version>>,
         k \in Shells /\ at # "idle" => clicked[k].polls > 0,
         at = "show" => answer \in Named \cup {"paused", "unreachable", "toolMissing"}
  PROVE  MenuIInv'
<1>1. /\ poll' \in [Pollers -> [at : {"idle", "stats", "ping", "show"},
                                answer : Answers \cup {"paused", "unreachable", "toolMissing"}]]
      /\ \A j \in Pollers : poll'[j] = IF j = k THEN [at |-> at, answer |-> answer] ELSE poll[j]
  BY DEF MenuIInv, MenuTypeOK, Polls
<1>2. MenuTypeOK'
  BY <1>1 DEF MenuIInv, MenuTypeOK
<1>3. UNCHANGED <<phase, backend, version, clicked>>
  BY DEF vars, procVars
<1>4. MenuInv'
  BY <1>1, <1>3 DEF MenuIInv, MenuInv, Pollers
<1> QED
  BY <1>2, <1>4 DEF MenuIInv

LEMMA AskedIs ==
  ASSUME MenuTypeOK
  PROVE  Asked \in Answers
BY DEF Asked, Answers, MenuTypeOK

(* A process that serves, and goes on, keeps its reranker.                 *)
LEMMA ServingKeeps ==
  ASSUME ProcTypes, ProcStep, NEW p \in Procs, phase[p] = "serving", phase'[p] = "serving"
  PROVE  backend'[p] = backend[p]
<1>1. ASSUME NEW q \in Procs, NEW b \in Backends, Birth(q, b) PROVE backend'[p] = backend[p]
  BY <1>1 DEF Birth, Alive, ProcTypes
<1>2. ASSUME NEW q \in Procs, NEW name, Gone(q, name) PROVE backend'[p] = backend[p]
  BY <1>2 DEF Gone
<1>3. ASSUME NEW q \in Procs,
             \/ ClearName(q) \/ Bind(q) \/ Listen(q) \/ ListenFails(q) \/ EnterRun(q)
             \/ Woken(q) \/ AcceptFails(q) \/ StopLearner(q) \/ Leave(q) \/ Signal(q)
             \/ Crash(q)
      PROVE  backend'[p] = backend[p]
  BY <1>2, <1>3 DEF ClearName, Bind, Listen, ListenFails, EnterRun, Woken, AcceptFails,
     StopLearner, Leave, Signal, Crash, procVars
<1>4. ASSUME NEW q \in Procs, Load(q) PROVE backend'[p] = backend[p]
  BY <1>4 DEF Load, ProcTypes
<1>5. ASSUME NEW q \in Procs, NEW c \in Clients, Accept(q, c) PROVE backend'[p] = backend[p]
  BY <1>5 DEF Accept
<1>6. UNCHANGED backend \/ UNCHANGED procVars => backend'[p] = backend[p]
  BY DEF procVars
<1> QED
  BY <1>1, <1>3, <1>4, <1>5, <1>6 DEF ProcStep

(* A step of the system leaves the menu alone, and resets versions.        *)
LEMMA SystemKeeps ==
  ASSUME IInv, MenuIInv, System, Forgets
  PROVE  MenuIInv'
<1>1. ProcStep
  BY TypesAre, NextIsProcStep DEF Next
<1>2. \A p \in Procs : version'[p] = (IF phase'[p] = "serving" THEN version[p] ELSE Mock)
  BY DEF Forgets
<1>3. MenuTypeOK'
  BY DEF Forgets, menuVars, MenuIInv, MenuTypeOK, Named
<1>4. ASSUME NEW p \in Procs, version'[p] # Mock
      PROVE  phase'[p] = "serving" /\ version'[p] = backend'[p]
  <2>1. phase'[p] = "serving" /\ version'[p] = version[p]
    BY <1>2, <1>4
  <2>2. phase[p] = "serving" /\ version[p] = backend[p]
    BY <1>4, <2>1 DEF MenuIInv, MenuInv
  <2>3. backend'[p] = backend[p]
    BY <1>1, <2>1, <2>2, ServingKeeps DEF IInv
  <2> QED
    BY <2>1, <2>2, <2>3
<1>5. MenuInv'
  BY <1>4 DEF Forgets, menuVars, MenuIInv, MenuInv
<1> QED
  BY <1>3, <1>5 DEF MenuIInv

LEMMA MenuContinues ==
  ASSUME IInv, MenuIInv, AllNext
  PROVE  MenuIInv'
<1>1. CASE System /\ Forgets
  BY <1>1, SystemKeeps
<1>9. CASE Typed
  <2>1. UNCHANGED procVars
    BY <1>9 DEF Typed, Begin
  <2> QED
    BY <1>9, <2>1 DEF Typed, procVars, menuVars, MenuIInv, MenuTypeOK, MenuInv
<1>10. ASSUME NEW p \in Procs, Rerank(p) PROVE MenuIInv'
  <2>1. backend[p] \in Named
    BY DEF IInv, ProcTypes, Named
  <2>2. UNCHANGED <<phase, backend, shown, poll, clicked>>
    BY <1>10 DEF Rerank, vars, procVars, menuVars
  <2>3. version' = [version EXCEPT ![p] = backend[p]] /\ phase[p] = "serving"
    BY <1>10 DEF Rerank
  <2> QED
    BY <2>1, <2>2, <2>3 DEF MenuIInv, MenuTypeOK, MenuInv
<1>2. ASSUME NEW u \in Shells, Click(u) PROVE MenuIInv'
  <2>1. cmd' \in [Shells -> Cmds] /\ UNCHANGED <<phase, backend, shown, poll, version>> /\ poll[u] = NotPolling
    BY <1>2, BackendsAssumption DEF Click, Begin, procVars, Cmds, IInv, RestInv, CmdTypes
  <2>2. PICK n \in 1 .. MaxFollowUps :
          clicked' = [clicked EXCEPT ![u] = [polls |-> n, want |-> cmd'[u].want, over |-> FALSE]]
    <3>1. 1 \in 1 .. MaxFollowUps /\ MaxFollowUps \in 1 .. MaxFollowUps
      BY FollowUpsAssumption
    <3>2. \/ clicked' = [clicked EXCEPT ![u] =
                [polls |-> MaxFollowUps, want |-> cmd'[u].want, over |-> FALSE]]
          \/ clicked' = [clicked EXCEPT ![u] =
                [polls |-> 1, want |-> cmd'[u].want, over |-> FALSE]]
      <4>1. CASE cmd'[u].op = "setup"
        BY <1>2, <4>1 DEF Click
      <4>2. CASE cmd'[u].op # "setup"
        BY <1>2, <4>2 DEF Click
      <4> QED
        BY <4>1, <4>2
    <3> QED
      BY <3>1, <3>2
  <2>3. cmd'[u].want \in Backends /\ n \in 0 .. MaxFollowUps /\ n > 0
    BY <2>1, FollowUpsAssumption DEF Cmds
  <2> QED
    BY <2>1, <2>2, <2>3 DEF MenuIInv, MenuTypeOK, MenuInv, NotPolling
<1>3. ASSUME NEW u \in Shells, Overshoots(u) PROVE MenuIInv'
  <2>1. UNCHANGED <<phase, backend, shown, poll, version>> /\ clicked' = [clicked EXCEPT ![u].over = TRUE]
    BY <1>3 DEF Overshoots, procVars
  <2> QED
    BY <2>1 DEF MenuIInv, MenuTypeOK, MenuInv
<1>4. ASSUME NEW k \in Pollers, StartPoll(k) PROVE MenuIInv'
  BY <1>4, PollKeeps DEF StartPoll, Answers
<1>5. ASSUME NEW k \in Pollers, poll[k].at \in {"stats", "ping"}
      PROVE  k \in Shells => clicked[k].polls > 0
  BY <1>5 DEF MenuIInv, MenuInv
<1>6. ASSUME NEW k \in Pollers, Ask(k) PROVE MenuIInv'
  <2>1. Asked \in Answers
    BY AskedIs DEF MenuIInv
  <2>2. UNCHANGED <<vars, shown, clicked, version>> /\ poll[k].at \in {"stats", "ping"}
    BY <1>6 DEF Ask
  <2>3. \/ Asked # "none" /\ Polls(k, "show", Asked)
        \/ Polls(k, "ping", "none")
        \/ Polls(k, "show", "unreachable")
        \/ Polls(k, "show", "paused")
    BY <1>6 DEF Ask
  <2> QED
    BY <1>5, <2>1, <2>2, <2>3, PollKeeps DEF Answers
<1>7. ASSUME NEW k \in Pollers, NoTool(k) PROVE MenuIInv'
  <2>1. UNCHANGED <<procVars, shown, clicked, version>> /\ poll[k].at \in {"stats", "ping"}
    BY <1>7 DEF NoTool
  <2>2. Polls(k, "show", "toolMissing") \/ Polls(k, "show", "paused")
    BY <1>7 DEF NoTool
  <2> QED
    BY <1>5, <2>1, <2>2, PollKeeps
<1>8. ASSUME NEW k \in Pollers, Show(k) PROVE MenuIInv'
  <2>1. /\ shown' \in Named \cup {"paused", "unreachable", "toolMissing"}
        /\ poll' \in [Pollers -> [at : {"idle", "stats", "ping", "show"},
                        answer : Answers \cup {"paused", "unreachable", "toolMissing"}]]
        /\ \A j \in Pollers : poll'[j] = IF j = k THEN [at |-> "idle", answer |-> "none"] ELSE poll[j]
    BY <1>8 DEF Show, Polls, MenuIInv, MenuTypeOK, MenuInv, Answers
  <2>2. clicked' \in [Shells -> [polls : 0 .. MaxFollowUps, want : Backends, over : BOOLEAN]]
    <3>1. CASE k \in Shells
      <4>1. clicked[k] \in [polls : 0 .. MaxFollowUps, want : Backends, over : BOOLEAN]
            /\ clicked[k].polls > 0
        BY <1>8, <3>1 DEF Show, MenuIInv, MenuTypeOK, MenuInv
      <4>2. [clicked[k] EXCEPT !.polls = clicked[k].polls - 1]
              \in [polls : 0 .. MaxFollowUps, want : Backends, over : BOOLEAN]
        BY <4>1, FollowUpsAssumption
      <4>3. NotClicked \in [polls : 0 .. MaxFollowUps, want : Backends, over : BOOLEAN]
        BY FollowUpsAssumption, BackendsAssumption DEF NotClicked
      <4>4. \/ clicked' = [clicked EXCEPT ![k] = NotClicked]
            \/ clicked' = [clicked EXCEPT ![k] = [clicked[k] EXCEPT !.polls = clicked[k].polls - 1]]
        <5>1. clicked' = IF k \in Shells
                THEN [clicked EXCEPT ![k] =
                        IF @.polls = 1 \/ shown' = @.want
                          THEN NotClicked ELSE [@ EXCEPT !.polls = clicked[k].polls - 1]]
                ELSE clicked
          BY <1>8, Zenon DEF Show
        <5>2. clicked' = [clicked EXCEPT ![k] =
                IF @.polls = 1 \/ shown' = @.want
                  THEN NotClicked ELSE [@ EXCEPT !.polls = clicked[k].polls - 1]]
          BY <3>1, <5>1, Zenon
        <5>3. CASE clicked[k].polls = 1 \/ shown' = clicked[k].want
          BY <5>2, <5>3
        <5>4. CASE ~(clicked[k].polls = 1 \/ shown' = clicked[k].want)
          BY <5>2, <5>4
        <5> QED
          BY <5>3, <5>4
      <4> QED
        BY <4>2, <4>3, <4>4 DEF MenuIInv, MenuTypeOK
    <3>2. CASE k \notin Shells
      BY <1>8, <3>2 DEF Show, MenuIInv, MenuTypeOK
    <3> QED
      BY <3>1, <3>2
  <2>3. \A u \in Shells : u # k => clicked'[u] = clicked[u]
    BY <1>8 DEF Show, MenuIInv, MenuTypeOK
  <2>4. UNCHANGED <<phase, backend, version>>
    BY <1>8 DEF Show, vars, procVars
  <2>5. MenuInv'
    BY <2>1, <2>3, <2>4 DEF MenuIInv, MenuInv, Pollers
  <2> QED
    BY <2>1, <2>2, <2>4, <2>5 DEF MenuIInv, MenuTypeOK
<1> QED
  BY <1>1, <1>2, <1>3, <1>4, <1>6, <1>7, <1>8, <1>9, <1>10 DEF AllNext

(* A command that overshoots its timeout ends early, but never one that has *)
(* rewritten the plist and not booted the label out: that script runs on.  *)
LEMMA OvershootKeeps ==
  ASSUME IInv, NEW u \in Shells, Overshoots(u)
  PROVE  IInv'
<1>1. UNCHANGED procVars /\ UNCHANGED jobVars /\ events' \in 0 .. MaxEvents
  BY BoundsAssumption DEF Overshoots, Happens, IInv, RestInv, RestTypes
<1>2. ProcTypes' /\ NameInv'
  <2>1. ProcStep
    BY <1>1, Zenon DEF ProcStep
  <2> QED
    BY <2>1, ProcKeeps DEF IInv
<1>3. CASE UNCHANGED cmd
  BY <1>1, <1>2, <1>3, StillKeeps DEF IInv
<1>4. CASE Finish(u) /\ cmd[u].op # "reboot"
  <2>1. Idle \in Cmds
    BY BackendsAssumption DEF Idle, Cmds
  <2> QED
    BY <1>1, <1>2, <1>4, <2>1, CmdKeeps DEF IInv, Finish, Idle
<1> QED
  BY <1>3, <1>4 DEF Overshoots

LEMMA AllContinues ==
  ASSUME IInv, MenuIInv, [AllNext]_allVars
  PROVE  IInv' /\ MenuIInv'
<1>1. CASE UNCHANGED allVars
  <2>1. UNCHANGED vars /\ UNCHANGED <<phase, backend, version>> /\ UNCHANGED menuVars
    BY <1>1 DEF allVars, vars, procVars
  <2> QED
    BY <2>1, Continues DEF menuVars, MenuIInv, MenuTypeOK, MenuInv
<1>2. CASE AllNext
  <2>1. \/ Next \/ UNCHANGED vars
        \/ \E u \in Shells : Overshoots(u)
        \/ \E k \in Pollers : NoTool(k)
    <3>1. System => Next
      BY DEF Next
    <3>2. Typed => Next
      BY Zenon DEF Typed, Next
    <3>3. ASSUME NEW u \in Shells, Click(u) PROVE Next
      <4>1. \E op \in {"pause", "resume", "setup"}, b \in Backends : Begin(u, op, b)
        BY <3>3, BackendsAssumption, Zenon DEF Click
      <4> QED
        BY <4>1, Zenon DEF Next
    <3>4. ASSUME NEW k \in Pollers, StartPoll(k) \/ Ask(k) \/ Show(k) PROVE UNCHANGED vars
      BY <3>4 DEF StartPoll, Ask, Show
    <3>5. ASSUME NEW p \in Procs, Rerank(p) PROVE UNCHANGED vars
      BY <3>5, Zenon DEF Rerank
    <3> QED
      BY <1>2, <3>1, <3>2, <3>3, <3>4, <3>5, Zenon DEF AllNext
  <2>2. ASSUME NEW k \in Pollers, NoTool(k) PROVE IInv'
    <3>1. UNCHANGED procVars /\ UNCHANGED <<jobVars, cmd>> /\ events' \in 0 .. MaxEvents
      BY <2>2, BoundsAssumption DEF NoTool, Happens, IInv, RestInv, RestTypes
    <3>2. ProcStep
      BY <3>1, Zenon DEF ProcStep
    <3> QED
      BY <3>1, <3>2, ProcKeeps, StillKeeps DEF IInv
  <2> QED
    BY <1>2, <2>1, <2>2, Continues, OvershootKeeps, MenuContinues
<1> QED
  BY <1>1, <1>2

(* The inductive invariant of the menu, together with that of what it shows. *)
THEOREM MenuInductive == AllSpec => [](IInv /\ MenuIInv)
<1>1. AllInit => IInv /\ MenuIInv
  BY Starts, MenuStarts DEF AllInit
<1>2. (IInv /\ MenuIInv) /\ [AllNext]_allVars => (IInv /\ MenuIInv)'
  BY AllContinues
<1> QED
  BY <1>1, <1>2, PTL DEF AllSpec

(* Types, with the menu's: polls are counted down and never below zero, and *)
(* what is shown is always one of its states (MenuBarController.swift):     *)
(* a backend somebody can ask for, or the mock, whose version 0 a daemon    *)
(* reports that has served no rerank (server.h:49).                        *)
THEOREM MenuTypeCorrect == AllSpec => []AllTypeOK
<1>1. IInv /\ MenuIInv => AllTypeOK
  BY TypesAre DEF MenuIInv, AllTypeOK
<1> QED
  BY <1>1, MenuInductive, PTL

(* `stats` never names a reranker the daemon does not run, through crashes, *)
(* restarts and changes of backend, but for the mock, which stands for not  *)
(* having been asked yet (server.cc:70-71, 115-116).                       *)
THEOREM StatsTruthful == AllSpec => [](Asked \in {"none", Mock, Running})
<1>1. IInv /\ MenuIInv => Asked \in {"none", Mock, Running}
  BY DEF MenuIInv, MenuInv, Asked, Running, Serves
<1> QED
  BY <1>1, MenuInductive, PTL

(* Whatever is clicked, and whichever commands are cut off by their timeout, *)
(* a daemon alone is reachable and a loaded label is current: the menu      *)
(* breaks neither promise of the daemon and of launchd.                     *)
THEOREM MenuBreaksNothing == AllSpec => [](AloneReachable /\ LoadedIsCurrent)
<1>1. IInv => AloneReachable /\ LoadedIsCurrent
  BY DEF IInv, RestInv, NameInv, AloneReachable, Alive, Listening
<1> QED
  BY <1>1, MenuInductive, PTL
=============================================================================
