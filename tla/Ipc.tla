-------------------------------- MODULE Ipc --------------------------------
(***************************************************************************)
(* The IPC path of dafeng: the DafengClient singleton inside the IME (its  *)
(* mutex, its lazily made connection, its calls), the Unix-domain stream   *)
(* connections, and the daemon's accept loop with one detached worker per  *)
(* connection.                                                             *)
(*                                                                         *)
(* A frame is one value [kind, id, call]: kind is the message type, id the *)
(* 32-bit request id, and call is a history field that names the client    *)
(* call the frame belongs to (the reply to a request carries the request's *)
(* call). The server's counters are left to ServerStats.tla, the contents  *)
(* of requests and replies are not told apart.                             *)
(*                                                                         *)
(* A ReadFull/WriteAll deadline is a failure that may strike at any moment *)
(* while the thread is in poll(): the code bounds it from above only. The  *)
(* sockets are blocking ones, so once poll() has let a write() begin that  *)
(* does not fit the socket buffer no deadline ends it ("blocked").         *)
(***************************************************************************)
EXTENDS Naturals, Sequences

CONSTANTS
  Threads,              \* host threads sharing one DafengClient
  NoThread,             \* "the mutex is free"
  Kinds,                \* the client operations the threads use
  IdSpace,              \* request ids wrap here (2^32 in the code)
  Room,                 \* whole frames a connection's socket buffer takes
  HostIgnoresSigpipe,   \* has the host process disabled SIGPIPE?
  MaxCalls,             \* bound: client calls
  MaxConns,             \* bound: connections ever made
  MaxCrashes,           \* bound: daemon crashes
  MaxExits              \* bound: exits of the host of its own accord

Asks     == {"Rerank", "GetStats", "Ping"}     \* wait for a reply
AllKinds == Asks \cup {"RecordCommit", "ResetConnection"}

ASSUME ThreadsAssumption == NoThread \notin Threads
ASSUME KindsAssumption   == Kinds \subseteq AllKinds
ASSUME IdAssumption      == IdSpace \in Nat \ {0}
ASSUME RoomAssumption    == Room \in Nat \ {0}
ASSUME PipeAssumption    == HostIgnoresSigpipe \in BOOLEAN
ASSUME BoundAssumption   == /\ MaxCalls \in Nat
                            /\ MaxConns \in Nat
                            /\ MaxCrashes \in Nat
                            /\ MaxExits \in Nat

VARIABLES
  \* client
  host,             \* "up" | "dead"
  pc,               \* pc[t]: where thread t is in its call
  call,             \* call[t]: its call [kind, num], or NoCall
  ret,              \* ret[t]: its last call and what that call returned
  reqid,            \* reqid[t]: the request id of its call
  mu,               \* mu_: holder, or NoThread
  conn,             \* conn_: a connection, or NoConn
  next_request_id,  \* next_request_id_
  \* connections
  c2s, s2c,         \* frames written by client, by server, not yet read
  \* daemon
  daemon,           \* "up" | "down"
  worker,           \* worker[c]: where c's server end is
  job,              \* job[c]: the message its worker holds, or NoFrame
  recorded,         \* calls of the commits given to ICommitLogger::Record
  \* counters for naming and bounding
  calls, nconns, crashes, exits

clientVars == <<host, pc, call, ret, reqid, mu, conn, next_request_id, calls>>
daemonVars == <<daemon, worker, job, recorded>>
vars == <<host, pc, call, ret, reqid, mu, conn, next_request_id, c2s, s2c,
          daemon, worker, job, recorded, calls, nconns, crashes, exits>>

Conns   == 1..MaxConns
NoConn  == 0
Ids     == 0..(IdSpace - 1)
Calls   == 1..MaxCalls
NoCall  == [kind |-> "None", num |-> 0]
NoRet   == [call |-> 0, answer |-> 0]
NoFrame == [kind |-> "None", id |-> 0, call |-> 0]
Torn    == [kind |-> "Torn", id |-> 0, call |-> 0]   \* a frame cut short
Frame   == [kind : Asks \cup {"RecordCommit"}, id : Ids, call : Calls]

AnyCall  == [kind : Kinds, num : Calls] \cup {NoCall}
AnyRet   == [call : 0..MaxCalls, answer : 0..MaxCalls]
AnyFrame == Frame \cup {Torn}
AnyJob   == Frame \cup {NoFrame}

Open == {"backlog", "reading", "handling", "replying", "closing"}
ServerEndOpen(c) == worker[c] \in Open

TypeOK ==
  /\ host \in {"up", "dead"}
  /\ pc \in [Threads -> {"idle", "locking", "connecting", "writing",
                         "blocked", "reading"}]
  /\ call \in [Threads -> AnyCall]
  /\ ret \in [Threads -> AnyRet]
  /\ reqid \in [Threads -> Ids]
  /\ mu \in Threads \cup {NoThread}
  /\ conn \in Conns \cup {NoConn}
  /\ next_request_id \in Ids
  /\ c2s \in [Conns -> Seq(AnyFrame)]
  /\ s2c \in [Conns -> Seq(AnyFrame)]
  /\ daemon \in {"up", "down"}
  /\ worker \in [Conns -> Open \cup {"none", "done"}]
  /\ job \in [Conns -> AnyJob]
  /\ recorded \in Seq(Calls)
  /\ calls \in 0..MaxCalls
  /\ nconns \in 0..MaxConns
  /\ crashes \in 0..MaxCrashes
  /\ exits \in 0..MaxExits

FirstId   == IF IdSpace = 1 THEN 0 ELSE 1
NextId(i) == IF i + 1 = IdSpace THEN 0 ELSE i + 1

Init ==
  /\ host = "up"
  /\ pc = [t \in Threads |-> "idle"]
  /\ call = [t \in Threads |-> NoCall]
  /\ ret = [t \in Threads |-> NoRet]
  /\ reqid = [t \in Threads |-> 0]
  /\ mu = NoThread
  /\ conn = NoConn
  /\ next_request_id = FirstId
  /\ c2s = [c \in Conns |-> <<>>]
  /\ s2c = [c \in Conns |-> <<>>]
  /\ daemon = "up"
  /\ worker = [c \in Conns |-> "none"]
  /\ job = [c \in Conns |-> NoFrame]
  /\ recorded = <<>>
  /\ calls = 0
  /\ nconns = 0
  /\ crashes = 0
  /\ exits = 0
-----------------------------------------------------------------------------
(***************************************************************************)
(* Client: one thread's way through a call.                                *)
(***************************************************************************)

\* Thread t enters a client operation; it does not hold mu_ yet.
Begin(t, k) ==
  /\ host = "up"
  /\ pc[t] = "idle"
  /\ calls < MaxCalls
  /\ calls' = calls + 1
  /\ call' = [call EXCEPT ![t] = [kind |-> k, num |-> calls + 1]]
  /\ pc' = [pc EXCEPT ![t] = "locking"]
  /\ UNCHANGED <<host, ret, reqid, mu, conn, next_request_id, c2s, s2c,
                 daemonVars, nconns, crashes, exits>>

Lock(t) ==
  /\ pc[t] = "locking"
  /\ mu = NoThread
  /\ mu' = t
  /\ pc' = [pc EXCEPT ![t] = "connecting"]
  /\ UNCHANGED <<host, call, ret, reqid, conn, next_request_id, c2s, s2c,
                 daemonVars, calls, nconns, crashes, exits>>

\* t leaves its call with answer a (0: none) and lets go of mu_.
Return(t, a) ==
  /\ ret' = [ret EXCEPT ![t] = [call |-> call[t].num, answer |-> a]]
  /\ call' = [call EXCEPT ![t] = NoCall]
  /\ pc' = [pc EXCEPT ![t] = "idle"]
  /\ mu' = NoThread

\* ResetLocked: close and forget the connection; what the server had sent
\* and nobody read is gone. What the client had sent stays readable.
Reset ==
  /\ conn' = NoConn
  /\ s2c' = [c \in Conns |-> IF c = conn THEN <<>> ELSE s2c[c]]

ResetConnection(t) ==
  /\ pc[t] = "connecting"
  /\ call[t].kind = "ResetConnection"
  /\ Reset
  /\ Return(t, 0)
  /\ UNCHANGED <<host, reqid, next_request_id, c2s, daemonVars, calls,
                 nconns, crashes, exits>>

\* The next request id is taken once the connection is there; a commit
\* carries none.
TakeId(t) ==
  IF call[t].kind \in Asks
    THEN /\ reqid' = [reqid EXCEPT ![t] = next_request_id]
         /\ next_request_id' = NextId(next_request_id)
    ELSE UNCHANGED <<reqid, next_request_id>>

\* EnsureConnectedLocked: the descriptor is all it looks at, so a connection
\* whose other end is gone still counts as connected.
EnsureConnected(t) ==
  /\ pc[t] = "connecting"
  /\ call[t].kind # "ResetConnection"
  /\ \/ /\ conn # NoConn
        /\ UNCHANGED <<conn, worker, nconns>>
     \/ /\ conn = NoConn
        /\ daemon = "up"
        /\ nconns < MaxConns
        /\ nconns' = nconns + 1
        /\ conn' = nconns + 1
        /\ worker' = [worker EXCEPT ![nconns + 1] = "backlog"]
  /\ TakeId(t)
  /\ pc' = [pc EXCEPT ![t] = "writing"]
  /\ UNCHANGED <<host, call, ret, mu, c2s, s2c, daemon, job, recorded, calls,
                 crashes, exits>>

\* connect() refused (no daemon), or the backlog or the descriptors are full.
ConnectFails(t) ==
  /\ pc[t] = "connecting"
  /\ call[t].kind # "ResetConnection"
  /\ conn = NoConn
  /\ Return(t, 0)
  /\ UNCHANGED <<host, reqid, conn, next_request_id, c2s, s2c, daemonVars,
                 calls, nconns, crashes, exits>>

Request(t) ==
  [kind |-> call[t].kind,
   id   |-> IF call[t].kind \in Asks THEN reqid[t] ELSE 0,
   call |-> call[t].num]

\* WriteAll succeeds: the kernel has the frame. A commit is done with that.
Write(t) ==
  /\ pc[t] \in {"writing", "blocked"}
  /\ ServerEndOpen(conn)
  /\ Len(c2s[conn]) < Room
  /\ c2s' = [c2s EXCEPT ![conn] = Append(@, Request(t))]
  /\ \/ /\ call[t].kind \in Asks
        /\ pc' = [pc EXCEPT ![t] = "reading"]
        /\ UNCHANGED <<call, ret, mu>>
     \/ /\ call[t].kind = "RecordCommit"
        /\ Return(t, 0)
  /\ UNCHANGED <<host, reqid, conn, next_request_id, s2c, daemonVars, calls,
                 nconns, crashes, exits>>

\* poll() reports room, but not enough for the frame: write() on a blocking
\* socket returns only when the reader has made room for all of it.
WriteBlocks(t) ==
  /\ pc[t] = "writing"
  /\ ServerEndOpen(conn)
  /\ Len(c2s[conn]) >= Room
  /\ pc' = [pc EXCEPT ![t] = "blocked"]
  /\ UNCHANGED <<host, call, ret, reqid, mu, conn, next_request_id, c2s, s2c,
                 daemonVars, calls, nconns, crashes, exits>>

\* Mutant of WriteTimesOut: the connection is kept after a failed write.
WriteTimesOut_KeepsConnection(t) ==
  /\ pc[t] = "writing"
  /\ \/ /\ ServerEndOpen(conn)
        /\ c2s' = [c2s EXCEPT ![conn] = Append(@, Torn)]
     \/ UNCHANGED c2s
  /\ Return(t, 0)
  /\ UNCHANGED <<host, reqid, conn, next_request_id, s2c, daemonVars, calls,
                 nconns, crashes, exits>>

\* WriteAll gives up at its deadline, with or without part of the frame sent.
WriteTimesOut(t) ==
  /\ pc[t] = "writing"
  /\ \/ /\ ServerEndOpen(conn)
        /\ c2s' = [c2s EXCEPT ![conn] = Append(@, Torn)]
     \/ UNCHANGED c2s
  /\ Reset
  /\ Return(t, 0)
  /\ UNCHANGED <<host, reqid, next_request_id, daemonVars, calls, nconns,
                 crashes, exits>>

\* The host process ends: its descriptors are closed, its threads are gone.
HostDies ==
  /\ host' = "dead"
  /\ pc' = [t \in Threads |-> "idle"]
  /\ call' = [t \in Threads |-> NoCall]
  /\ mu' = NoThread
  /\ Reset

\* write() on a connection whose other end is closed: EPIPE, preceded by
\* SIGPIPE, whose default action ends the process.
WriteBrokenPipe(t) ==
  /\ pc[t] \in {"writing", "blocked"}
  /\ ~ServerEndOpen(conn)
  /\ \/ /\ HostIgnoresSigpipe
        /\ Reset
        /\ Return(t, 0)
        /\ UNCHANGED host
     \/ /\ ~HostIgnoresSigpipe
        /\ HostDies
        /\ UNCHANGED ret
  /\ UNCHANGED <<reqid, next_request_id, c2s, daemonVars, calls, nconns,
                 crashes, exits>>

\* The next reply frame is in. GetStats and Ping compare its id, Rerank only
\* its type; a reply that does not match drops the connection.
ReadReply(t) ==
  /\ pc[t] = "reading"
  /\ s2c[conn] # <<>>
  /\ Head(s2c[conn]) # Torn
  /\ LET r == Head(s2c[conn])
         matches == /\ r.kind = call[t].kind
                    /\ call[t].kind = "Rerank" \/ r.id = reqid[t]
     IN IF matches
          THEN /\ s2c' = [s2c EXCEPT ![conn] = Tail(@)]
               /\ UNCHANGED conn
               /\ Return(t, r.call)
          ELSE /\ Reset
               /\ Return(t, 0)
  /\ UNCHANGED <<host, reqid, next_request_id, c2s, daemonVars, calls, nconns,
                 crashes, exits>>

\* Mutant of ReadFails: the connection is kept after a reply that came too late.
ReadFails_KeepsConnection(t) ==
  /\ pc[t] = "reading"
  /\ Return(t, 0)
  /\ UNCHANGED <<host, reqid, conn, next_request_id, c2s, s2c, daemonVars,
                 calls, nconns, crashes, exits>>

\* Mutant of ReadFails: the error path returns without unlocking mu_.
ReadFails_KeepsLock(t) ==
  /\ pc[t] = "reading"
  /\ Reset
  /\ ret' = [ret EXCEPT ![t] = [call |-> call[t].num, answer |-> 0]]
  /\ call' = [call EXCEPT ![t] = NoCall]
  /\ pc' = [pc EXCEPT ![t] = "idle"]
  /\ UNCHANGED <<host, reqid, mu, next_request_id, c2s, daemonVars, calls,
                 nconns, crashes, exits>>

\* Deadline passed, connection closed by the server, or the frame is cut.
ReadFails(t) ==
  /\ pc[t] = "reading"
  /\ Reset
  /\ Return(t, 0)
  /\ UNCHANGED <<host, reqid, next_request_id, c2s, daemonVars, calls, nconns,
                 crashes, exits>>

\* The user quits or the system restarts the IME.
HostExit ==
  /\ host = "up"
  /\ exits < MaxExits
  /\ exits' = exits + 1
  /\ HostDies
  /\ UNCHANGED <<ret, reqid, next_request_id, c2s, daemonVars, calls, nconns,
                 crashes>>

\* A new host process with a new DafengClient: request ids start over.
HostStart ==
  /\ host = "dead"
  /\ host' = "up"
  /\ reqid' = [t \in Threads |-> 0]
  /\ next_request_id' = FirstId
  /\ UNCHANGED <<pc, call, ret, mu, conn, c2s, s2c, daemonVars, calls, nconns,
                 crashes, exits>>
-----------------------------------------------------------------------------
(***************************************************************************)
(* Daemon: Server::Run accepts, HandleConnection serves one connection.    *)
(***************************************************************************)

\* Connections leave the backlog in order; each gets a detached worker.
Accept(c) ==
  /\ daemon = "up"
  /\ worker[c] = "backlog"
  /\ \A d \in 1..(c - 1) : worker[d] # "backlog"
  /\ worker' = [worker EXCEPT ![c] = "reading"]
  /\ UNCHANGED <<clientVars, c2s, s2c, daemon, job, recorded, nconns, crashes,
                 exits>>

\* Mutant of ReadRequest: the frame handled is not taken from the stream.
ReadRequest_NotConsumed(c) ==
  /\ worker[c] = "reading"
  /\ c2s[c] # <<>>
  /\ Head(c2s[c]) # Torn
  /\ job' = [job EXCEPT ![c] = Head(c2s[c])]
  /\ worker' = [worker EXCEPT ![c] = "handling"]
  /\ UNCHANGED <<clientVars, c2s, s2c, daemon, recorded, nconns, crashes, exits>>

\* Header and body of the next frame are in and decode.
ReadRequest(c) ==
  /\ worker[c] = "reading"
  /\ c2s[c] # <<>>
  /\ Head(c2s[c]) # Torn
  /\ job' = [job EXCEPT ![c] = Head(c2s[c])]
  /\ c2s' = [c2s EXCEPT ![c] = Tail(@)]
  /\ worker' = [worker EXCEPT ![c] = "handling"]
  /\ UNCHANGED <<clientVars, s2c, daemon, recorded, nconns, crashes, exits>>

\* Mutant of GiveUpReading: an idle or closed connection is read for ever.
GiveUpReading_NeverIdle(c) ==
  /\ worker[c] = "reading"
  /\ c2s[c] # <<>> /\ Head(c2s[c]) = Torn
  /\ worker' = [worker EXCEPT ![c] = "closing"]
  /\ UNCHANGED <<clientVars, c2s, s2c, daemon, job, recorded, nconns, crashes,
                 exits>>

\* Mutant of GiveUpReading: a client that hung up is dropped with what it sent.
GiveUpReading_OnHangup(c) ==
  /\ worker[c] = "reading"
  /\ \/ c2s[c] = <<>>
     \/ c2s[c] # <<>> /\ Head(c2s[c]) = Torn
     \/ conn # c
  /\ worker' = [worker EXCEPT ![c] = "closing"]
  /\ UNCHANGED <<clientVars, c2s, s2c, daemon, job, recorded, nconns, crashes,
                 exits>>

\* No frame came within kIdleReadTimeout, the client closed, or the frame
\* at hand never completes: the read loop is left.
GiveUpReading(c) ==
  /\ worker[c] = "reading"
  /\ \/ c2s[c] = <<>>
     \/ c2s[c] # <<>> /\ Head(c2s[c]) = Torn
  /\ worker' = [worker EXCEPT ![c] = "closing"]
  /\ UNCHANGED <<clientVars, c2s, s2c, daemon, job, recorded, nconns, crashes,
                 exits>>

\* A commit goes to the logger and gets no reply.
HandleCommit(c) ==
  /\ worker[c] = "handling"
  /\ job[c].kind = "RecordCommit"
  /\ recorded' = Append(recorded, job[c].call)
  /\ job' = [job EXCEPT ![c] = NoFrame]
  /\ worker' = [worker EXCEPT ![c] = "reading"]
  /\ UNCHANGED <<clientVars, c2s, s2c, daemon, nconns, crashes, exits>>

\* A request has its reply computed; the reply repeats type, id and call.
HandleAsk(c) ==
  /\ worker[c] = "handling"
  /\ job[c].kind \in Asks
  /\ worker' = [worker EXCEPT ![c] = "replying"]
  /\ UNCHANGED <<clientVars, c2s, s2c, daemon, job, recorded, nconns, crashes,
                 exits>>

Reply(c) ==
  /\ worker[c] = "replying"
  /\ conn = c
  /\ s2c' = [s2c EXCEPT ![c] = Append(@, job[c])]
  /\ job' = [job EXCEPT ![c] = NoFrame]
  /\ worker' = [worker EXCEPT ![c] = "reading"]
  /\ UNCHANGED <<clientVars, c2s, daemon, recorded, nconns, crashes, exits>>

\* EPIPE because the client hung up, or kWriteTimeout with part of the reply
\* perhaps sent. (The daemon ignores SIGPIPE.)
ReplyFails(c) ==
  /\ worker[c] = "replying"
  /\ \/ /\ conn = c
        /\ s2c' = [s2c EXCEPT ![c] = Append(@, Torn)]
     \/ UNCHANGED s2c
  /\ job' = [job EXCEPT ![c] = NoFrame]
  /\ worker' = [worker EXCEPT ![c] = "closing"]
  /\ UNCHANGED <<clientVars, c2s, daemon, recorded, nconns, crashes, exits>>

\* The worker returns and its Connection is destroyed: what the client wrote
\* in the meantime is never read.
CloseConnection(c) ==
  /\ worker[c] = "closing"
  /\ worker' = [worker EXCEPT ![c] = "done"]
  /\ c2s' = [c2s EXCEPT ![c] = <<>>]
  /\ UNCHANGED <<clientVars, s2c, daemon, job, recorded, nconns, crashes, exits>>

\* The daemon is killed or exits: every server end is closed, what was not
\* yet handled is gone, replies already written can still be read.
Crash ==
  /\ daemon = "up"
  /\ crashes < MaxCrashes
  /\ crashes' = crashes + 1
  /\ daemon' = "down"
  /\ worker' = [c \in Conns |-> IF worker[c] = "none" THEN "none" ELSE "done"]
  /\ c2s' = [c \in Conns |-> <<>>]
  /\ job' = [c \in Conns |-> NoFrame]
  /\ UNCHANGED <<clientVars, s2c, recorded, nconns, exits>>

\* launchd (KeepAlive) or the user starts it again on the same socket path.
Restart ==
  /\ daemon = "down"
  /\ daemon' = "up"
  /\ UNCHANGED <<clientVars, c2s, s2c, worker, job, recorded, nconns, crashes,
                 exits>>
-----------------------------------------------------------------------------
\* What thread t does inside a call once it holds mu_.
InCall(t) ==
  \/ ResetConnection(t) \/ EnsureConnected(t) \/ ConnectFails(t)
  \/ Write(t) \/ WriteBlocks(t) \/ WriteTimesOut(t) \/ WriteBrokenPipe(t)
  \/ ReadReply(t) \/ ReadFails(t)

Work(c) ==
  \/ ReadRequest(c) \/ GiveUpReading(c) \/ HandleCommit(c) \/ HandleAsk(c)
  \/ Reply(c) \/ ReplyFails(c) \/ CloseConnection(c)

Next ==
  \/ \E t \in Threads : Lock(t) \/ InCall(t) \/ \E k \in Kinds : Begin(t, k)
  \/ HostExit \/ HostStart
  \/ \E c \in Conns : Accept(c) \/ Work(c)
  \/ Crash \/ Restart

Spec == Init /\ [][Next]_vars

\* A thread inside a call is scheduled. poll() has a deadline, and connect
\* returns at once on a Unix socket with room in its backlog.
ClientFairness == \A t \in Threads : WF_vars(InCall(t))

\* Every worker has a thread of its own and polls with a deadline, and the
\* accept loop does nothing but accept.
DaemonFairness == \A c \in Conns : WF_vars(Accept(c)) /\ WF_vars(Work(c))

\* Nothing is assumed of who gets the mutex, of crashes, restarts, exits or
\* new calls.
FairSpec == Spec /\ ClientFairness /\ DaemonFairness
-----------------------------------------------------------------------------
(***************************************************************************)
(* Properties.                                                             *)
(***************************************************************************)

\* Whatever a call returns is the daemon's answer to that very call, though
\* Rerank never compares request ids (client.cc:77-83) and ids wrap.
AnswersOwnCall ==
  \A t \in Threads : ret[t].answer \in {0, ret[t].call}

\* n is the call of a thread that waits for its reply.
Waiting(n) == \E t \in Threads : pc[t] = "reading" /\ call[t].num = n

\* The live connection owes at most one reply, and owes it to the thread that
\* waits: a request is the last frame in the stream, the worker holds one only
\* when nothing follows it, and a reply waits alone. Whenever nobody waits,
\* no request and no reply is anywhere on the connection, so the next reply
\* read from it cannot be a late one (DESIGN.md:134: a response that arrives
\* after the timeout is discarded).
OneReplyOwed ==
  conn # NoConn =>
    /\ \A i \in 1..Len(c2s[conn]) :
         c2s[conn][i].kind \in Asks =>
           i = Len(c2s[conn]) /\ Waiting(c2s[conn][i].call)
    /\ job[conn].kind \in Asks => c2s[conn] = <<>> /\ Waiting(job[conn].call)
    /\ s2c[conn] # <<>> =>
         /\ Len(s2c[conn]) = 1
         /\ c2s[conn] = <<>>
         /\ job[conn] = NoFrame
         /\ s2c[conn][1] = Torn \/ Waiting(s2c[conn][1].call)
         /\ \E t \in Threads : pc[t] = "reading"

\* A frame that was cut short is the last thing ever written to its stream:
\* after a failed write either side drops the connection, so no reader takes
\* the middle of one frame for the header of the next.
FramingInSync ==
  \A c \in Conns :
    /\ \A i \in 1..Len(c2s[c]) :
         c2s[c][i] = Torn => i = Len(c2s[c]) /\ conn # c
    /\ \A i \in 1..Len(s2c[c]) :
         s2c[c][i] = Torn => i = Len(s2c[c]) /\ worker[c] \in {"closing", "done"}

\* No commit reaches the logger twice, however connections, workers and
\* processes come and go.
RecordedOnce ==
  \A i, j \in 1..Len(recorded) : recorded[i] = recorded[j] => i = j

\* Who holds mu_, and what each place in a call has established.
LockDiscipline ==
  /\ \A t \in Threads :
       /\ mu = t <=> pc[t] \in {"connecting", "writing", "blocked", "reading"}
       /\ pc[t] = "idle" <=> call[t] = NoCall
       /\ pc[t] \in {"writing", "blocked", "reading"} =>
            conn # NoConn /\ call[t].kind # "ResetConnection"
       /\ pc[t] = "reading" => call[t].kind \in Asks

\* Which connections exist, and which workers hold a message.
ConnDiscipline ==
  /\ conn <= nconns
  /\ \A c \in Conns :
       /\ worker[c] = "none" <=> c > nconns
       /\ c > nconns => c2s[c] = <<>> /\ s2c[c] = <<>>
       /\ worker[c] \in {"handling", "replying"} <=> job[c] # NoFrame
       /\ worker[c] = "replying" => job[c].kind \in Asks

\* Call n has left its thread and not yet been used up as a message.
OnWire(n) ==
  \/ \E c \in Conns : \E i \in 1..Len(c2s[c]) : c2s[c][i].call = n
  \/ \E c \in Conns : job[c].call = n

Logged(n) == \E i \in 1..Len(recorded) : recorded[i] = n

\* Every call is in at most one place: with its thread before it is written,
\* at one position of one stream, with one worker, or in the log.
OnePlace ==
  /\ \A t \in Threads : call[t].num <= calls
  /\ \A t, u \in Threads :
       call[t] # NoCall /\ call[t].num = call[u].num => t = u
  /\ \A n \in Calls : OnWire(n) \/ Logged(n) => n <= calls
  /\ \A t \in Threads :
       pc[t] \in {"locking", "connecting", "writing", "blocked"} =>
         ~OnWire(call[t].num) /\ ~Logged(call[t].num)
  /\ \A n \in Calls : ~(OnWire(n) /\ Logged(n))
  /\ \A c, d \in Conns :
       \A i \in 1..Len(c2s[c]), j \in 1..Len(c2s[d]) :
         c2s[c][i] # Torn /\ c2s[c][i].call = c2s[d][j].call => c = d /\ i = j
  /\ \A c, d \in Conns :
       job[c] # NoFrame =>
         /\ job[c].call = job[d].call => c = d
         /\ \A i \in 1..Len(c2s[d]) : c2s[d][i].call # job[c].call

\* The inductive invariant behind the theorems of IpcProofs: what the client
\* knows at each place of a call, who owns which connection, where each call
\* is, and the safety properties above.
IndInv ==
  /\ TypeOK
  /\ LockDiscipline
  /\ ConnDiscipline
  /\ OnePlace
  /\ OneReplyOwed
  /\ FramingInSync
  /\ AnswersOwnCall
  /\ RecordedOnce

CommitsIn(s) == {s[i].call : i \in {k \in 1..Len(s) : s[k].kind = "RecordCommit"}}

\* Commits given to RecordCommit that may still reach the logger.
Offered ==
  {call[t].num : t \in {u \in Threads : call[u].kind = "RecordCommit"}}
    \cup {job[c].call : c \in {d \in Conns : job[d].kind = "RecordCommit"}}
    \cup UNION {CommitsIn(c2s[c]) : c \in Conns}

Service == INSTANCE RerankService WITH offered <- Offered

\* All of the above as one promise to the caller: the IPC path implements the
\* abstract service.
ImplementsService == Service!Spec

\* A thread that holds the client's mutex lets go of it, however calls of
\* several threads, full socket buffers, closed connections and a crash meet,
\* as long as the daemon's threads run while the daemon lives.
LockReleased == \A t \in Threads : (mu = t) ~> (mu # t)

\* The server end of a connection the client has dropped is closed in the
\* end: abandoned connections leave no worker thread behind.
AbandonedWorkersEnd ==
  \A c \in Conns : (ServerEndOpen(c) /\ conn # c) ~> ~ServerEndOpen(c)

\* Dropping a connection loses none of the commits written to it before: a
\* worker that has not given up on it hands each of them to the logger,
\* unless the daemon dies.
AbandonedCommitsRecorded ==
  \A n \in Calls :
    (\E c \in Conns : /\ conn # c
                      /\ worker[c] \in Open \ {"closing"}
                      /\ n \in CommitsIn(c2s[c]))
      ~> (crashes > 0 \/ \E i \in 1..Len(recorded) : recorded[i] = n)

\* client.h:5-7: daemon down, connect failed, timeout "all collapse to
\* std::nullopt", for a client that is "safe to call from inside librime's
\* filter pipeline": the host process never ends because of a call.
HostSurvivesCalls == host = "dead" => exits > 0
=============================================================================
