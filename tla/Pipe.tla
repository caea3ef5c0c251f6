-------------------------------- MODULE Pipe --------------------------------
(***************************************************************************)
(* The Windows endpoint: daemons that accept on a named pipe, one instance  *)
(* per Accept, and clients that look for an instance and open it.           *)
(*                                                                         *)
(* A name exists while a process holds an instance of it. An instance takes *)
(* one client, from the moment it is created. Between two accepts a daemon  *)
(* may hold none, and to a client there is then no difference to a daemon  *)
(* that does not run. Any call of Accept may fail, and ends it. The bytes   *)
(* that pass are the business of Wire.                                     *)
(***************************************************************************)
EXTENDS Naturals, FiniteSets

CONSTANTS
  Daemons,     \* processes
  Clients,     \* threads that connect
  Instances,   \* bound: instances of the pipe at one time
  Nobody, Gone \* no client yet; the client has closed its handle

ASSUME InstancesAssumption ==
  /\ IsFiniteSet(Daemons) /\ IsFiniteSet(Clients) /\ IsFiniteSet(Instances)
  /\ Cardinality(Instances) >= Cardinality(Daemons) + Cardinality(Clients)
ASSUME NamesAssumption ==
  /\ {Nobody, Gone} \cap Clients = {}
  /\ Nobody # Gone

VARIABLES
  phase,    \* how far main of a daemon has come
  ours,     \* the instances the accept thread holds: one or none
  served,   \* the instances its workers hold
  stop,     \* shutdown_event_ of a daemon is set
  failed,   \* a call of its accept thread has failed (history)
  peer,     \* who is at the other end of an instance
  client    \* what a client does in ConnectEndpoint, or has

pipeVars == <<phase, ours, served, stop, failed, peer, client>>

Owned(d) == ours[d] \cup served[d]
Held     == UNION {Owned(d) : d \in Daemons}
Free     == Instances \ Held
Fresh    == CHOOSE i \in Free : TRUE
Listens  == {i \in Held : peer[i] = Nobody}

PipeTypeOK ==
  /\ phase \in [Daemons -> {"down", "probing", "loading", "accepting", "created",
                            "waiting", "cancelling", "ending"}]
  /\ ours \in [Daemons -> SUBSET Instances]
  /\ \A d \in Daemons : \A i, j \in ours[d] : i = j
  /\ served \in [Daemons -> SUBSET Instances]
  /\ stop \in [Daemons -> BOOLEAN]
  /\ failed \in [Daemons -> BOOLEAN]
  /\ peer \in [Instances -> Clients \cup {Nobody, Gone}]
  /\ client \in [Clients -> {"idle", "looking", "opening", "refused", "open"}]
  /\ \A c \in Clients :
       client[c] = "open" <=> \E i \in Held : peer[i] = c

PipeInit ==
  /\ phase = [d \in Daemons |-> "down"]
  /\ ours = [d \in Daemons |-> {}]
  /\ served = [d \in Daemons |-> {}]
  /\ stop = [d \in Daemons |-> FALSE]
  /\ failed = [d \in Daemons |-> FALSE]
  /\ peer = [i \in Instances |-> Nobody]
  /\ client = [c \in Clients |-> "idle"]

\* Handles are closed: who was at the other end finds out at its next call.
Close(is) ==
  /\ peer' = [i \in Instances |-> IF i \in is THEN Nobody ELSE peer[i]]
  /\ client' = [c \in Clients |->
                  IF \E i \in is : peer[i] = c THEN "idle" ELSE client[c]]
-----------------------------------------------------------------------------
(***************************************************************************)
(* The daemon.                                                             *)
(***************************************************************************)

\* ListenEndpoint makes the first instance of the name.
Probe(d) ==
  /\ phase[d] = "down"
  /\ Held = {} /\ Free # {}
  /\ ours' = [ours EXCEPT ![d] = {Fresh}]
  /\ phase' = [phase EXCEPT ![d] = "probing"]
  /\ UNCHANGED <<served, stop, failed, peer, client>>

\* It is closed; the reranker is loaded.
EndProbe(d) ==
  /\ phase[d] = "probing"
  /\ Close(ours[d])
  /\ ours' = [ours EXCEPT ![d] = {}]
  /\ phase' = [phase EXCEPT ![d] = "loading"]
  /\ UNCHANGED <<served, stop, failed>>

\* The handler is installed; Run calls Accept.
Run(d) ==
  /\ phase[d] = "loading"
  /\ phase' = [phase EXCEPT ![d] = "accepting"]
  /\ UNCHANGED <<ours, served, stop, failed, peer, client>>

Create(d) ==
  /\ phase[d] = "accepting" /\ Free # {}
  /\ ours' = [ours EXCEPT ![d] = {Fresh}]
  /\ phase' = [phase EXCEPT ![d] = "created"]
  /\ UNCHANGED <<served, stop, failed, peer, client>>

\* No instance, or no event to be shut down by: Accept, and with it Run, returns.
CreateFails(d) ==
  /\ phase[d] = "accepting"
  /\ phase' = [phase EXCEPT ![d] = "ending"]
  /\ failed' = [failed EXCEPT ![d] = TRUE]
  /\ UNCHANGED <<ours, served, stop, peer, client>>

\* The connection goes to a worker of its own, and the loop comes round.
HandOver(d) ==
  /\ served' = [served EXCEPT ![d] = @ \cup ours[d]]
  /\ ours' = [ours EXCEPT ![d] = {}]
  /\ phase' = [phase EXCEPT ![d] = "accepting"]
  /\ UNCHANGED <<stop, failed, peer, client>>

\* Mutant of GiveUp: Run takes the empty result for a client lost, and accepts on.
GiveUp_GoesOn(d) ==
  /\ Close(ours[d])
  /\ ours' = [ours EXCEPT ![d] = {}]
  /\ phase' = [phase EXCEPT ![d] = "accepting"]
  /\ UNCHANGED <<served, stop>>

\* The instance is closed, whoever is on it; Accept returns nothing, which ends
\* Run.
GiveUp(d) ==
  /\ Close(ours[d])
  /\ ours' = [ours EXCEPT ![d] = {}]
  /\ phase' = [phase EXCEPT ![d] = "ending"]
  /\ UNCHANGED <<served, stop>>

\* Mutant of ConnectNamedPipe: a client that came early is taken for an error.
ConnectNamedPipe_Strict(d) ==
  /\ phase[d] = "created"
  /\ \/ /\ \E i \in ours[d] : peer[i] = Nobody
        /\ phase' = [phase EXCEPT ![d] = "waiting"]
        /\ UNCHANGED <<ours, served, stop, failed, peer, client>>
     \/ (\E i \in ours[d] : peer[i] # Nobody) /\ GiveUp(d) /\ UNCHANGED failed

\* Nobody yet: wait. ERROR_PIPE_CONNECTED: somebody was quick. ERROR_NO_DATA:
\* somebody was, and has left again; that ends Accept.
ConnectNamedPipe(d) ==
  /\ phase[d] = "created"
  /\ \/ /\ \E i \in ours[d] : peer[i] = Nobody
        /\ phase' = [phase EXCEPT ![d] = "waiting"]
        /\ UNCHANGED <<ours, served, stop, failed, peer, client>>
     \/ (\E i \in ours[d] : peer[i] \in Clients) /\ HandOver(d)
     \/ (\E i \in ours[d] : peer[i] = Gone) /\ GiveUp(d) /\ UNCHANGED failed

\* No event for the connect, or the connect is not queued, or it ends in an
\* error: the instance is closed all the same.
AcceptFails(d) ==
  /\ \/ phase[d] = "created"
     \/ phase[d] = "waiting" /\ \E i \in ours[d] : peer[i] # Nobody
  /\ GiveUp(d)
  /\ failed' = [failed EXCEPT ![d] = TRUE]

\* The first of the two events to be looked at: a client has come.
Connected(d) ==
  /\ phase[d] = "waiting"
  /\ \E i \in ours[d] : peer[i] # Nobody
  /\ HandOver(d)

\* The second: shutdown.
Woken(d) ==
  /\ phase[d] = "waiting"
  /\ \E i \in ours[d] : peer[i] = Nobody
  /\ stop[d]
  /\ phase' = [phase EXCEPT ![d] = "cancelling"]
  /\ UNCHANGED <<ours, served, stop, failed, peer, client>>

\* The wait for the two fails, which is taken for a shutdown.
WaitFails(d) ==
  /\ phase[d] = "waiting"
  /\ phase' = [phase EXCEPT ![d] = "cancelling"]
  /\ failed' = [failed EXCEPT ![d] = TRUE]
  /\ UNCHANGED <<ours, served, stop, peer, client>>

\* Mutant of Cancel: the instance is left open.
Cancel_Leaks(d) ==
  /\ phase[d] = "cancelling"
  /\ phase' = [phase EXCEPT ![d] = "ending"]
  /\ UNCHANGED <<ours, served, stop, failed, peer, client>>

\* The connect is cancelled and the instance closed, with a client that came
\* at the last moment.
Cancel(d) == phase[d] = "cancelling" /\ GiveUp(d) /\ UNCHANGED failed

\* A worker's connection ends, because the client has gone or for reasons of
\* its own (Ipc).
WorkerEnds(d, i) ==
  /\ i \in served[d]
  /\ Close({i})
  /\ served' = [served EXCEPT ![d] = @ \ {i}]
  /\ UNCHANGED <<phase, ours, stop, failed>>

\* The end of the process, after Run or by force, closes everything.
Exit(d) ==
  /\ phase[d] # "down"
  /\ Close(ours[d] \cup served[d])
  /\ ours' = [ours EXCEPT ![d] = {}]
  /\ served' = [served EXCEPT ![d] = {}]
  /\ stop' = [stop EXCEPT ![d] = FALSE]
  /\ failed' = [failed EXCEPT ![d] = FALSE]
  /\ phase' = [phase EXCEPT ![d] = "down"]

\* HandleConsoleCtrl: a manual-reset event, so it stays set.
CtrlEvent(d) ==
  /\ phase[d] \in {"accepting", "created", "waiting", "cancelling"}
  /\ stop' = [stop EXCEPT ![d] = TRUE]
  /\ UNCHANGED <<phase, ours, served, failed, peer, client>>
-----------------------------------------------------------------------------
(***************************************************************************)
(* ConnectEndpoint.                                                        *)
(***************************************************************************)

Connect(c) ==
  /\ client[c] \in {"idle", "refused"}
  /\ client' = [client EXCEPT ![c] = "looking"]
  /\ UNCHANGED <<phase, ours, served, stop, failed, peer>>

\* WaitNamedPipeW: an instance is free, or there is none at all. If all are
\* taken it times out, and the loop comes round.
WaitNamedPipe(c) ==
  /\ client[c] = "looking"
  /\ \/ Listens # {} /\ client' = [client EXCEPT ![c] = "opening"]
     \/ Held = {} /\ client' = [client EXCEPT ![c] = "refused"]
  /\ UNCHANGED <<phase, ours, served, stop, failed, peer>>

\* CreateFileW: got one; ERROR_PIPE_BUSY, another was quicker; or any other
\* error, which is not tried again.
CreateFile(c) ==
  /\ client[c] = "opening"
  /\ \/ \E i \in Listens :
          /\ peer' = [peer EXCEPT ![i] = c]
          /\ client' = [client EXCEPT ![c] = "open"]
     \/ /\ Listens = {} /\ Held # {}
        /\ client' = [client EXCEPT ![c] = "looking"]
        /\ UNCHANGED peer
     \/ /\ client' = [client EXCEPT ![c] = "refused"]
        /\ UNCHANGED peer
  /\ UNCHANGED <<phase, ours, served, stop, failed>>

\* The budget of one second is used up.
GiveUpLooking(c) ==
  /\ client[c] = "looking"
  /\ client' = [client EXCEPT ![c] = "refused"]
  /\ UNCHANGED <<phase, ours, served, stop, failed, peer>>

\* The client closes its end.
Leave(c) ==
  /\ client[c] = "open"
  /\ peer' = [i \in Instances |-> IF peer[i] = c THEN Gone ELSE peer[i]]
  /\ client' = [client EXCEPT ![c] = "idle"]
  /\ UNCHANGED <<phase, ours, served, stop, failed>>

Accepts(d) ==
  \/ Run(d) \/ Create(d) \/ ConnectNamedPipe(d) \/ Connected(d)
  \/ Woken(d) \/ Cancel(d) \/ (phase[d] = "ending" /\ Exit(d))

PipeNext ==
  \/ \E d \in Daemons :
       \/ Probe(d) \/ EndProbe(d) \/ Accepts(d) \/ CreateFails(d)
       \/ AcceptFails(d) \/ WaitFails(d)
       \/ Exit(d) \/ CtrlEvent(d)
       \/ \E i \in Instances : WorkerEnds(d, i)
  \/ \E c \in Clients :
       \/ Connect(c) \/ WaitNamedPipe(c) \/ CreateFile(c)
       \/ GiveUpLooking(c) \/ Leave(c)

PipeSpec == PipeInit /\ [][PipeNext]_pipeVars

\* The accept thread runs, and so does a worker whose client has gone.
DroppedBy(d) == \E i \in Instances : peer[i] = Gone /\ WorkerEnds(d, i)

FairSpec ==
  PipeSpec /\ \A d \in Daemons : WF_pipeVars(Accepts(d)) /\ WF_pipeVars(DroppedBy(d))
-----------------------------------------------------------------------------
(***************************************************************************)
(* Properties.                                                             *)
(***************************************************************************)

\* A client only ever opens an instance whose daemon is about to accept it
\* (or is probing the name): none is left behind by an Accept that was shut
\* down (endpoint_win.cc:252-257), where a client would wait for an answer
\* until its timeout.
ListenersAttended ==
  \A i \in Listens : \E d \in Daemons :
    i \in ours[d] /\ phase[d] \in {"probing", "created", "waiting", "cancelling"}

\* The handles (endpoint_win.cc:112-120, 189-257): each instance has one owner,
\* each client one instance; a worker's instance has had its client, and the
\* accept thread holds one only while it attends to it.
PipeInv ==
  /\ \A d \in Daemons :
       /\ ours[d] # {} => phase[d] \in {"probing", "created", "waiting", "cancelling"}
       /\ ours[d] \cap served[d] = {}
       /\ \A i \in served[d] : peer[i] # Nobody
       /\ phase[d] = "cancelling" => stop[d] \/ failed[d]
  /\ \A d, e \in Daemons : d # e => Owned(d) \cap Owned(e) = {}
  /\ \A i \in Free : peer[i] = Nobody
  /\ \A i, j \in Instances : peer[i] \in Clients /\ peer[i] = peer[j] => i = j

\* endpoint_win.cc:228-231: however early it came, a client that has opened an
\* instance and is still there is handed to a worker. It is cut off only by the
\* probe, a shutdown, a call of Accept that fails, or the end of the process: to
\* have come before ConnectNamedPipe, or during it, is none of these.
NobodyTurnedAway ==
  [][\A d \in Daemons : \A i \in ours[d] :
       peer[i] \in Clients /\ client[peer[i]] = "open"
         /\ client'[peer[i]] = "idle" /\ peer'[i] = Nobody =>
         phase[d] = "probing" \/ stop[d] \/ failed'[d] \/ phase'[d] = "down"]_pipeVars

\* From some time on nobody connects.
ClientsRest == <>[](\A c \in Clients : client[c] \notin {"looking", "opening"})

\* endpoint.h:46-48: a shutdown ends Accept whenever it comes, before, between
\* or during the waits. (Clients that keep coming are accepted first, since
\* their event is the first of the two; without a pause they keep the daemon.)
StopEnds ==
  ClientsRest => \A d \in Daemons : stop[d] ~> ~stop[d]
=============================================================================
