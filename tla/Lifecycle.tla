------------------------------ MODULE Lifecycle ------------------------------
(***************************************************************************)
(* The life of a daemon process on macOS and who decides about it: main   *)
(* (listen, load the reranker, install the handlers, run, stop, leave),    *)
(* the socket's name in the file system, launchd, a daemon somebody starts *)
(* by hand (`dafeng-daemon --foreground`), and the commands `pause`,       *)
(* `resume` and `setup` of dafeng-cli, any number of which may run at once.*)
(*                                                                         *)
(* The socket's name belongs to nobody: every start removes it, and so     *)
(* does every orderly end, whichever process bound it last.                *)
(***************************************************************************)
EXTENDS Naturals, FiniteSets

CONSTANTS
  Job,          \* the process launchd runs for com.dafeng.daemon
  Hand,         \* the process somebody runs in a terminal
  Clients,      \* connections: the IME's, or a `stats` of the CLI
  Shells,       \* running dafeng-cli processes
  Backends,     \* rerankers `setup --backend` may ask for
  Fallback,     \* the one that is always available: deterministic
  MaxWaits,     \* looks of `pause` for the process to go: 30 in the code
  MaxTries,     \* attempts of `resume` to bootstrap: 5 in the code
  MaxEvents     \* bound: starts by hand, commands, crashes, failing calls

Procs == {Job, Hand}

ASSUME ProcsAssumption ==
  /\ Job # Hand
  /\ Procs \cap {"none", "stale"} = {}
ASSUME BackendsAssumption == Fallback \in Backends
ASSUME BoundsAssumption ==
  /\ MaxWaits \in Nat
  /\ MaxTries \in Nat \ {0}
  /\ MaxEvents \in Nat

VARIABLES
  phase,     \* how far main of a process has come
  wake,      \* a byte is in the process's self-pipe
  backend,   \* the reranker a process has, or will ask for
  path,      \* who the socket file leads to: a process, nobody, no file
  queue,     \* connections waiting in the backlog of a process
  served,    \* connections a worker of the process serves
  alone,     \* no other process has been alive since this one started
  loaded,    \* launchd has the label
  conf,      \* the backend in the plist launchd has read
  plist,     \* the backend in the plist on disk
  cmd,       \* what each dafeng-cli is doing
  events     \* how many of those there have been

procVars  == <<phase, wake, backend, path, queue, served, alone>>
jobVars   == <<loaded, conf, plist>>
vars      == <<procVars, jobVars, cmd, events>>

Phases ==
  {"none", "starting", "cleared", "bound", "loading", "ready", "serving",
   "stopping", "leaving"}

Alive(p)     == phase[p] # "none"
\* listen() has succeeded and the descriptor is open.
Listening(p) == phase[p] \in {"loading", "ready", "serving", "stopping", "leaving"}
\* The handlers are installed and g_server points to the server.
Handles(p)   == phase[p] \in {"ready", "serving", "stopping"}

Idle == [op |-> "idle", n |-> 0, want |-> Fallback]
Cmds ==
  [op : {"idle", "pause", "bootout", "waiting", "resume", "trying",
         "setup", "reboot", "strap"},
   n : Nat, want : Backends]

TypeOK ==
  /\ phase \in [Procs -> Phases]
  /\ wake \in [Procs -> BOOLEAN]
  /\ backend \in [Procs -> Backends]
  /\ path \in Procs \cup {"none", "stale"}
  /\ queue \in [Procs -> SUBSET Clients]
  /\ served \in [Procs -> SUBSET Clients]
  /\ alone \in [Procs -> BOOLEAN]
  /\ loaded \in BOOLEAN
  /\ conf \in Backends
  /\ plist \in Backends
  /\ cmd \in [Shells -> Cmds]
  /\ \A u \in Shells : cmd[u].op = "waiting" => cmd[u].n \in 0 .. MaxWaits
  /\ \A u \in Shells : cmd[u].op = "trying" => cmd[u].n \in 0 .. MaxTries
  /\ events \in 0 .. MaxEvents

(* After `dafeng-cli setup`: the plist exists, the label is loaded.        *)
Init ==
  /\ phase = [p \in Procs |-> "none"]
  /\ wake = [p \in Procs |-> FALSE]
  /\ backend = [p \in Procs |-> Fallback]
  /\ path = "none"
  /\ queue = [p \in Procs |-> {}]
  /\ served = [p \in Procs |-> {}]
  /\ alone = [p \in Procs |-> FALSE]
  /\ loaded = TRUE
  /\ conf = Fallback
  /\ plist = Fallback
  /\ cmd = [u \in Shells |-> Idle]
  /\ events = 0

-----------------------------------------------------------------------------
(* One process: src/src/daemon/main.cc, over endpoint_unix.cc.             *)

Goto(p, ph) == phase' = [phase EXCEPT ![p] = ph]

Birth(p, b) ==
  /\ ~Alive(p)
  /\ Goto(p, "starting")
  /\ backend' = [backend EXCEPT ![p] = b]
  /\ alone' = [q \in Procs |-> q = p /\ \A r \in Procs \ {p} : ~Alive(r)]
  /\ UNCHANGED <<wake, path, queue, served>>

\* The process is gone: its descriptors are closed, its connections end; a
\* socket file that led to it stays, and leads nowhere, unless it is removed.
Gone(p, name) ==
  /\ Goto(p, "none")
  /\ wake' = [wake EXCEPT ![p] = FALSE]
  /\ queue' = [queue EXCEPT ![p] = {}]
  /\ served' = [served EXCEPT ![p] = {}]
  /\ path' = name
  /\ UNCHANGED <<backend, alone>>

LeftBehind(p) == IF path = p THEN "stale" ELSE path

\* What an earlier daemon left behind is not removed.
ClearName_Not(p) ==
  /\ phase[p] = "starting"
  /\ Goto(p, "cleared")
  /\ UNCHANGED <<wake, backend, path, queue, served, alone>>

\* ::unlink(address), before the socket is made.
ClearName(p) ==
  /\ phase[p] = "starting"
  /\ Goto(p, "cleared")
  /\ path' = "none"
  /\ UNCHANGED <<wake, backend, queue, served, alone>>

\* bind() fails when the name has come back; main then returns 2.
Bind(p) ==
  /\ phase[p] = "cleared"
  /\ \/ /\ path = "none"
        /\ Goto(p, "bound")
        /\ path' = p
        /\ UNCHANGED <<wake, backend, queue, served, alone>>
     \/ /\ path # "none"
        /\ Gone(p, path)

\* The clean-up of a failed listen() is run after a good one too.
Listen_Unlinks(p) ==
  /\ phase[p] = "bound"
  /\ Goto(p, "loading")
  /\ path' = "none"
  /\ UNCHANGED <<wake, backend, queue, served, alone>>

Listen(p) ==
  /\ phase[p] = "bound"
  /\ Goto(p, "loading")
  /\ UNCHANGED <<wake, backend, path, queue, served, alone>>

\* listen() fails: the name is removed, whoever has bound it meanwhile.
ListenFails(p) ==
  /\ phase[p] = "bound"
  /\ Gone(p, "none")

\* BuildReranker, with its fall back; then the handlers are installed.
Load(p) ==
  /\ phase[p] = "loading"
  /\ Goto(p, "ready")
  /\ \E b \in {backend[p], Fallback} : backend' = [backend EXCEPT ![p] = b]
  /\ UNCHANGED <<wake, path, queue, served, alone>>

\* The auto-learner is started, and Server::Run entered.
EnterRun(p) ==
  /\ phase[p] = "ready"
  /\ Goto(p, "serving")
  /\ UNCHANGED <<wake, backend, path, queue, served, alone>>

\* Accept returns a connection only while the self-pipe is empty; a worker
\* is detached for it.
Accept(p, c) ==
  /\ phase[p] = "serving"
  /\ ~wake[p]
  /\ c \in queue[p]
  /\ queue' = [queue EXCEPT ![p] = @ \ {c}]
  /\ served' = [served EXCEPT ![p] = @ \cup {c}]
  /\ UNCHANGED <<phase, wake, backend, path, alone>>

\* Accept returns nullptr: for the byte in the pipe, or ...
Woken(p) ==
  /\ phase[p] = "serving"
  /\ wake[p]
  /\ Goto(p, "stopping")
  /\ UNCHANGED <<wake, backend, path, queue, served, alone>>

\* ... because accept() failed, for want of descriptors say.
AcceptFails(p) ==
  /\ phase[p] = "serving"
  /\ queue[p] # {}
  /\ Goto(p, "stopping")
  /\ UNCHANGED <<wake, backend, path, queue, served, alone>>

\* auto_learner->Stop() has joined the watcher; g_server = nullptr.
StopLearner(p) ==
  /\ phase[p] = "stopping"
  /\ Goto(p, "leaving")
  /\ UNCHANGED <<wake, backend, path, queue, served, alone>>

\* main's locals are destroyed, and ~UnixServer removes the name, whoever
\* has bound it. Workers still use the server meanwhile, which is undefined:
\* the process may also die before the name is removed.
Leave(p) ==
  /\ phase[p] = "leaving"
  /\ \/ Gone(p, "none")
     \/ /\ served[p] # {}
        /\ Gone(p, LeftBehind(p))

\* Shutdown wakes a waiting Accept, and leaves no byte for a later one.
Signal_OnlyWaiting(p) ==
  \/ /\ Alive(p) /\ ~Handles(p) /\ phase[p] # "leaving"
     /\ Gone(p, LeftBehind(p))
  \/ /\ phase[p] = "serving"
     /\ wake' = [wake EXCEPT ![p] = TRUE]
     /\ UNCHANGED <<phase, backend, path, queue, served, alone>>
  \/ /\ ~Alive(p) \/ phase[p] \in {"ready", "stopping", "leaving"}
     /\ UNCHANGED procVars

\* SIGTERM or SIGINT. Before the handlers are installed it is fatal; with
\* them it puts a byte in the pipe; once g_server is null it does nothing.
Signal(p) ==
  \/ /\ Alive(p) /\ ~Handles(p) /\ phase[p] # "leaving"
     /\ Gone(p, LeftBehind(p))
  \/ /\ Handles(p)
     /\ wake' = [wake EXCEPT ![p] = TRUE]
     /\ UNCHANGED <<phase, backend, path, queue, served, alone>>
  \/ /\ ~Alive(p) \/ phase[p] = "leaving"
     /\ UNCHANGED procVars

Crash(p) ==
  /\ Alive(p)
  /\ Gone(p, LeftBehind(p))

\* Something nobody can count on, or count.
Happens == events < MaxEvents /\ events' = events + 1

\* The steps main takes of itself.
Runs(p) ==
  /\ \/ ClearName(p) \/ Bind(p) \/ Listen(p) \/ Load(p) \/ EnterRun(p)
     \/ Woken(p) \/ StopLearner(p) \/ Leave(p)
  /\ UNCHANGED <<jobVars, cmd, events>>
Takes(p, c) == Accept(p, c) /\ UNCHANGED <<jobVars, cmd, events>>
Fails(p) ==
  /\ ListenFails(p) \/ AcceptFails(p) \/ Crash(p)
  /\ Happens
  /\ UNCHANGED <<jobVars, cmd>>

-----------------------------------------------------------------------------
(* Connections: connect() needs a name that leads to a listening process.  *)

Away(c) == \A p \in Procs : c \notin queue[p] \cup served[p]

Connect(c) ==
  /\ Away(c)
  /\ \E p \in Procs :
       /\ path = p
       /\ Listening(p)
       /\ queue' = [queue EXCEPT ![p] = @ \cup {c}]
  /\ UNCHANGED <<phase, wake, backend, path, served, alone>>
  /\ UNCHANGED <<jobVars, cmd, events>>

HangUp(c) ==
  /\ ~Away(c)
  /\ queue' = [p \in Procs |-> queue[p] \ {c}]
  /\ served' = [p \in Procs |-> served[p] \ {c}]
  /\ UNCHANGED <<phase, wake, backend, path, alone>>
  /\ UNCHANGED <<jobVars, cmd, events>>

-----------------------------------------------------------------------------
(* launchd, and the terminal.                                              *)

\* RunAtLoad and KeepAlive: whenever the label is loaded and its process is
\* not there, it is started.
Spawn ==
  /\ loaded
  /\ Birth(Job, conf)
  /\ UNCHANGED <<jobVars, cmd, events>>

StartByHand ==
  /\ Happens
  /\ \E b \in Backends : Birth(Hand, b)
  /\ UNCHANGED <<jobVars, cmd>>

Interrupt ==
  /\ Alive(Hand)
  /\ Signal(Hand)
  /\ UNCHANGED <<jobVars, cmd, events>>

\* launchctl bootout: the label is unloaded and its process gets SIGTERM. A
\* label that is not loaded is an error every caller puts up with.
BootOut ==
  \/ /\ loaded
     /\ loaded' = FALSE
     /\ Signal(Job)
     /\ UNCHANGED <<conf, plist>>
  \/ /\ ~loaded
     /\ UNCHANGED <<procVars, jobVars>>

\* launchctl bootstrap reads the plist and loads the label. It refuses while
\* the process of the label that was booted out is still there.
BootStrap ==
  /\ ~loaded
  /\ ~Alive(Job)
  /\ loaded' = TRUE
  /\ conf' = plist
  /\ UNCHANGED <<procVars, plist>>

-----------------------------------------------------------------------------
(* dafeng-cli. Each command is a program of its own: several run at once,  *)
(* and between two of its steps anything may have happened.                *)

Become(u, op, n) ==
  cmd' = [cmd EXCEPT ![u] = [op |-> op, n |-> n, want |-> cmd[u].want]]
Finish(u) == cmd' = [cmd EXCEPT ![u] = Idle]

Begin(u, op, b) ==
  /\ Happens
  /\ cmd[u].op = "idle"
  /\ op \in {"pause", "resume"} => b = Fallback    \* only setup takes one
  /\ cmd' = [cmd EXCEPT ![u] = [op |-> op, n |-> 0, want |-> b]]
  /\ UNCHANGED <<procVars, jobVars>>

Pause(u) ==
  /\ UNCHANGED events
  /\ \/ /\ cmd[u].op = "pause"
        /\ IF loaded THEN Become(u, "bootout", 0) ELSE Finish(u)
        /\ UNCHANGED <<procVars, jobVars>>
     \/ /\ cmd[u].op = "bootout"
        /\ BootOut
        /\ Become(u, "waiting", 0)
     \/ /\ cmd[u].op = "waiting"
        /\ IF cmd[u].n < MaxWaits /\ \E p \in Procs : Alive(p)
             THEN Become(u, "waiting", cmd[u].n + 1)
             ELSE Finish(u)
        /\ UNCHANGED <<procVars, jobVars>>

Resume(u) ==
  /\ UNCHANGED events
  /\ \/ /\ cmd[u].op = "resume"
        /\ IF loaded THEN Finish(u) ELSE Become(u, "trying", 0)
        /\ UNCHANGED <<procVars, jobVars>>
     \/ /\ cmd[u].op = "trying"
        /\ cmd[u].n < MaxTries
        /\ BootStrap
        /\ Finish(u)
     \/ /\ cmd[u].op = "trying"
        /\ loaded \/ cmd[u].n = MaxTries    \* exit 17, or the last attempt
        /\ Finish(u)
        /\ UNCHANGED <<procVars, jobVars>>
     \/ /\ cmd[u].op = "trying"
        /\ cmd[u].n < MaxTries
        /\ ~loaded /\ Alive(Job)
        /\ Become(u, "trying", cmd[u].n + 1)
        /\ UNCHANGED <<procVars, jobVars>>

\* The old label is booted out first, and the plist written then.
Setup_BootsOutFirst(u) ==
  /\ UNCHANGED events
  /\ \/ /\ cmd[u].op = "setup"
        /\ BootOut
        /\ Become(u, "reboot", 0)
     \/ /\ cmd[u].op = "reboot"
        /\ plist' = cmd[u].want
        /\ Become(u, "strap", 0)
        /\ UNCHANGED <<procVars, loaded, conf>>
     \/ /\ cmd[u].op = "strap"
        /\ BootStrap
        /\ Finish(u)
     \/ /\ cmd[u].op = "strap"
        /\ loaded \/ Alive(Job)
        /\ Finish(u)
        /\ UNCHANGED <<procVars, jobVars>>

\* setup and install_launchagent.sh: the plist is written, the old label
\* booted out, the new one bootstrapped at once, and only once.
Setup(u) ==
  /\ UNCHANGED events
  /\ \/ /\ cmd[u].op = "setup"
        /\ plist' = cmd[u].want
        /\ Become(u, "reboot", 0)
        /\ UNCHANGED <<procVars, loaded, conf>>
     \/ /\ cmd[u].op = "reboot"
        /\ BootOut
        /\ Become(u, "strap", 0)
     \/ /\ cmd[u].op = "strap"
        /\ BootStrap
        /\ Finish(u)
     \/ /\ cmd[u].op = "strap"
        /\ loaded \/ Alive(Job)
        /\ Finish(u)
        /\ UNCHANGED <<procVars, jobVars>>

\* bootstrap also fails now and then for launchd's own reasons.
Refused(u) ==
  /\ Happens
  /\ \/ /\ cmd[u].op = "trying"
        /\ cmd[u].n < MaxTries
        /\ Become(u, "trying", cmd[u].n + 1)
     \/ /\ cmd[u].op = "strap"
        /\ Finish(u)
  /\ UNCHANGED <<procVars, jobVars>>

Works(u) == Pause(u) \/ Resume(u) \/ Setup(u)

\* The processes, launchd, the commands under way.
System ==
  \/ \E p \in Procs : Runs(p) \/ Fails(p) \/ \E c \in Clients : Takes(p, c)
  \/ \E c \in Clients : Connect(c) \/ HangUp(c)
  \/ Spawn \/ StartByHand \/ Interrupt
  \/ \E u \in Shells : Works(u) \/ Refused(u)

Next ==
  \/ System
  \/ \E u \in Shells, op \in {"pause", "resume", "setup"}, b \in Backends :
       Begin(u, op, b)

Progress == Spawn \/ (\E p \in Procs : Runs(p)) \/ (\E u \in Shells : Works(u))
Accepts  == \E p \in Procs, c \in Clients : Takes(p, c)

(* The processes go on, launchd restarts what it manages, and Stop of the  *)
(* auto-learner returns (AutoLearn's StopReturns). As starts by hand,      *)
(* commands and crashes are bounded, it is enough that some of the steps   *)
(* that can go on does. Nothing is assumed of crashes, of the terminal, or *)
(* of clients hanging up.                                                  *)
Fairness == WF_vars(Progress) /\ WF_vars(Accepts)

Spec == Init /\ [][Next]_vars /\ Fairness

-----------------------------------------------------------------------------
(* Properties.                                                             *)

\* A daemon that has been the only one since it started is the one the socket
\* file leads to: what a crashed one left behind is cleared before it binds,
\* and nobody removes its name (ListenEndpoint, ~UnixServer). With a second
\* daemon this fails for good: whichever ends last takes the other's name.
AloneReachable == \A p \in Procs : alone[p] /\ Listening(p) => path = p

\* A label that is loaded runs the backend the plist names, whatever pauses,
\* resumes and setups crossed each other: the plist is rewritten before the
\* old label is booted out (install_launchagent.sh).
LoadedIsCurrent ==
  loaded /\ conf # plist => \E u \in Shells : cmd[u].op = "reboot"

\* A booted-out process ends, at whatever point of main the signal met it:
\* the byte in the self-pipe waits for Accept.
StopsWhenAsked == ~loaded /\ Alive(Job) ~> loaded \/ ~Alive(Job)

\* A label that stays loaded has in the end a daemon that serves, after
\* crashes, failed starts, and a fight for the name with one started by hand.
LoadedServes == <>[]loaded => <>[](phase[Job] = "serving")
=============================================================================
