------------------------------- MODULE MenuBar -------------------------------
(***************************************************************************)
(* The inspector's menu-bar item (MenuBarController.swift) over the life of *)
(* the daemon: it polls `dafeng-cli stats` every few seconds, shows what it *)
(* found, and offers pause, resume and another backend accordingly. Every   *)
(* click is a detached task that runs the CLI and then polls on its own, so *)
(* polls overlap, and each shows its answer when it gets to it. What `stats` *)
(* says of the backend is the model version of the last rerank the process *)
(* has served: until somebody types, that is 0, which stands for the mock. *)
(***************************************************************************)
EXTENDS Lifecycle

CONSTANTS
  Timer,        \* the poller of the loop in start()
  Mock,         \* the backend model version 0 stands for
  MaxFollowUps  \* polls after a change of backend: 10 in the code

\* A click runs its command in a shell, and then polls.
Pollers == Shells \cup {Timer}

ASSUME TimerAssumption == Timer \notin Shells
ASSUME FollowUpsAssumption == MaxFollowUps \in Nat \ {0}

VARIABLES
  shown,   \* state: what the menu shows; a backend stands for .running(backend)
  poll,    \* what each poller is doing
  clicked, \* clicks whose command runs, or is to be followed by polls
  version  \* the backend rerank_model_version_ of a process stands for

menuVars == <<shown, poll, clicked>>
allVars  == <<vars, menuVars, version>>

Named   == Backends \cup {Mock}
Answers == Named \cup {"none"}
NotPolling == [at |-> "idle", answer |-> "none"]
NotClicked == [polls |-> 0, want |-> Fallback, over |-> FALSE]

MenuTypeOK ==
  /\ shown \in Named \cup {"unknown", "paused", "unreachable", "toolMissing"}
  /\ poll \in [Pollers -> [at : {"idle", "stats", "ping", "show"},
                           answer : Answers \cup {"paused", "unreachable", "toolMissing"}]]
  /\ clicked \in [Shells -> [polls : 0 .. MaxFollowUps, want : Backends, over : BOOLEAN]]
  /\ version \in [Procs -> Named]

AllInit ==
  /\ Init
  /\ shown = "unknown"
  /\ poll = [k \in Pollers |-> NotPolling]
  /\ clicked = [u \in Shells |-> NotClicked]
  /\ version = [p \in Procs |-> Mock]

(* What a call of the CLI gets now: what the daemon the name leads to reports,
   if that one serves. Otherwise connect() fails, or the call times out.   *)
Serves(p) == path = p /\ phase[p] = "serving"
Asked == IF path \in Procs /\ Serves(path) THEN version[path] ELSE "none"

Polls(k, at, answer) == poll' = [poll EXCEPT ![k] = [at |-> at, answer |-> answer]]

canPause  == shown \in Named       \* and canToggleBackend
canResume == shown = "paused"

-----------------------------------------------------------------------------
\* pause(), resume(), switchTo(): offered by what is shown, not by what is.
Click(u) ==
  /\ clicked[u].polls = 0
  /\ poll[u] = NotPolling
  /\ \/ canPause /\ Begin(u, "pause", Fallback)
     \/ canResume /\ Begin(u, "resume", Fallback)
     \/ canPause /\ \E b \in Backends : Begin(u, "setup", b)
  /\ clicked' = [clicked EXCEPT ![u] =
       [polls |-> IF cmd'[u].op = "setup" THEN MaxFollowUps ELSE 1,
        want |-> cmd'[u].want, over |-> FALSE]]
  /\ UNCHANGED <<shown, poll, version>>

\* DafengCLI.run terminates dafeng-cli when it overshoots its timeout. That
\* ends the command's own loops; the script `setup` has started runs on.
Overshoots(u) ==
  /\ clicked[u].polls > 0 /\ ~clicked[u].over
  /\ cmd[u].op # "idle"
  /\ Happens
  /\ IF cmd[u].op \in {"reboot", "strap"} THEN UNCHANGED cmd ELSE Finish(u)
  /\ clicked' = [clicked EXCEPT ![u].over = TRUE]
  /\ UNCHANGED <<procVars, jobVars, shown, poll, version>>

StartPoll(k) ==
  /\ poll[k].at = "idle"
  /\ k \in Shells => clicked[k].polls > 0 /\ (clicked[k].over \/ cmd[k].op = "idle")
  /\ Polls(k, "stats", "none")
  /\ UNCHANGED <<vars, shown, clicked, version>>

\* A failing `stats` ends the poll, and what was shown stays.
Ask_KeepsShown(k) ==
  /\ poll[k].at = "stats"
  /\ IF Asked # "none" THEN Polls(k, "show", Asked)
                           ELSE Polls(k, "idle", "none")
  /\ UNCHANGED <<vars, shown, clicked, version>>

\* `stats`, and `ping` when it failed.
Ask(k) ==
  /\ \/ /\ poll[k].at = "stats"
        /\ IF Asked # "none" THEN Polls(k, "show", Asked)
                                 ELSE Polls(k, "ping", "none")
     \/ /\ poll[k].at = "ping"
        /\ Polls(k, "show", IF Asked # "none" THEN "unreachable" ELSE "paused")
  /\ UNCHANGED <<vars, shown, clicked, version>>

\* The CLI cannot be run.
NoTool(k) ==
  /\ Happens
  /\ \/ poll[k].at = "stats" /\ Polls(k, "show", "toolMissing")
     \/ poll[k].at = "ping" /\ Polls(k, "show", "paused")
  /\ UNCHANGED <<procVars, jobVars, cmd, shown, clicked, version>>

\* Back on the main actor, the answer is published, however old it is. The
\* polls after a change of backend end with the first that shows it.
Show(k) ==
  /\ poll[k].at = "show"
  /\ shown' = poll[k].answer
  /\ Polls(k, "idle", "none")
  /\ clicked' = IF k \in Shells
                  THEN [clicked EXCEPT ![k] =
                          IF @.polls = 1 \/ shown' = @.want
                            THEN NotClicked ELSE [@ EXCEPT !.polls = clicked[k].polls - 1]]
                  ELSE clicked
  /\ UNCHANGED <<vars, version>>

-----------------------------------------------------------------------------
\* Somebody types, and a worker of the daemon answers the request.
Rerank(p) ==
  /\ phase[p] = "serving"
  /\ version' = [version EXCEPT ![p] = backend[p]]
  /\ UNCHANGED <<vars, menuVars>>

\* A process that starts has a Server of its own, with nothing stored. (What one
\* that no longer accepts would report, nobody asks.)
Forgets ==
  /\ version' = [p \in Procs |->
                   IF phase'[p] = "serving" THEN version[p] ELSE Mock]
  /\ UNCHANGED menuVars

\* A command typed in a terminal is followed by no poll.
Typed ==
  /\ \E u \in Shells, op \in {"pause", "resume", "setup"}, b \in Backends :
       clicked[u].polls = 0 /\ Begin(u, op, b)
  /\ UNCHANGED <<menuVars, version>>

AllNext ==
  \/ System /\ Forgets
  \/ Typed
  \/ \E p \in Procs : Rerank(p)
  \/ \E u \in Shells : Click(u) \/ Overshoots(u)
  \/ \E k \in Pollers : StartPoll(k) \/ Ask(k) \/ NoTool(k) \/ Show(k)

(* The loop polls again and again, and every poll comes to its end. Nobody *)
(* is made to type.                                                        *)
AllFairness ==
  /\ WF_allVars(Progress /\ Forgets)
  /\ WF_allVars(Accepts /\ Forgets)
  /\ \A k \in Pollers : WF_allVars(StartPoll(k) \/ Ask(k) \/ Show(k))

AllSpec == AllInit /\ [][AllNext]_allVars /\ AllFairness

-----------------------------------------------------------------------------
(* Properties.                                                             *)

AllTypeOK == TypeOK /\ MenuTypeOK

Running == IF path \in Procs /\ Serves(path) THEN backend[path] ELSE "none"
Reranked == path \in Procs /\ version[path] # Mock

\* What the menu would show if it looked and published in one step.
Truth == IF Running = "none" THEN "paused"
         ELSE IF Reranked THEN Running ELSE Mock

\* Once the truth changes no more, the menu shows it in the end: the backend if
\* somebody has typed since the daemon started, the mock until then, and that
\* there is no daemon when there is none. The answers of polls that overlapped a
\* change are all overwritten, and the menu is never left offering what no longer
\* applies (MenuBarController.swift:161-195).
MenuSettles == <>[][FALSE]_Truth => <>[](shown = Truth)
=============================================================================
