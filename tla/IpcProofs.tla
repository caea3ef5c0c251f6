----------------------------- MODULE IpcProofs -----------------------------
(***************************************************************************)
(* Proofs about Ipc, for every set of threads, every choice of operations  *)
(* and every value of the bounds.                                          *)
(***************************************************************************)
EXTENDS Ipc, TLAPS

USE DEF daemonVars, clientVars, NoConn

-----------------------------------------------------------------------------
(***************************************************************************)
(* The values the specification is made of.                                *)
(***************************************************************************)

\* Call records: what is one, and what can be read from it.
LEMMA CallFacts ==
  /\ NoCall \in AnyCall /\ NoCall.kind = "None" /\ NoCall.num = 0
  /\ \A k \in Kinds, n \in Calls :
       /\ [kind |-> k, num |-> n] \in AnyCall
       /\ [kind |-> k, num |-> n] # NoCall
  /\ \A x \in AnyCall : x # NoCall => x.kind \in Kinds /\ x.num \in Calls
  /\ \A x \in AnyCall : x.num \in 0..MaxCalls
  /\ \A x \in AnyCall : x.kind \in Asks \cup {"RecordCommit"} => x # NoCall
  BY KindsAssumption, BoundAssumption
  DEF AnyCall, NoCall, Calls, AllKinds, Asks

\* Frames: a frame is neither a torn one nor the absence of one.
LEMMA FrameFacts ==
  /\ Torn \in AnyFrame /\ Torn.kind = "Torn" /\ Torn.call = 0
  /\ NoFrame \in AnyJob /\ NoFrame.kind = "None" /\ NoFrame.call = 0
  /\ \A x \in AnyFrame : x # Torn => x \in AnyJob /\ x # NoFrame
  /\ \A x \in AnyJob : x # NoFrame => x \in AnyFrame /\ x # Torn
  /\ \A x \in AnyFrame \cup AnyJob :
       /\ x.kind \in Asks \cup {"RecordCommit"} \/ x = Torn \/ x = NoFrame
       /\ x.kind \in Asks \cup {"RecordCommit"} =>
            x \in AnyFrame /\ x \in AnyJob /\ x.call \in Calls
  BY BoundAssumption
  DEF AnyFrame, AnyJob, Frame, Torn, NoFrame, Calls, Asks

\* What a thread writes for its call is a frame of that call.
LEMMA RequestFacts ==
  ASSUME TypeOK, NEW t \in Threads,
         call[t].kind \in Asks \cup {"RecordCommit"}
  PROVE  /\ Request(t) \in AnyFrame
         /\ Request(t) # Torn
         /\ Request(t).kind = call[t].kind
         /\ Request(t).call = call[t].num
<1>1. call[t].num \in Calls /\ reqid[t] \in Ids /\ 0 \in Ids
  BY CallFacts, IdAssumption DEF TypeOK, Ids
<1>2. Request(t) \in Frame
  BY <1>1 DEF Request, Frame
<1> QED
  BY <1>2, FrameFacts DEF Request, AnyFrame, Torn, Frame, Asks

\* The return values.
LEMMA RetFacts ==
  \A n, a \in 0..MaxCalls : [call |-> n, answer |-> a] \in AnyRet
  BY DEF AnyRet

\* Request ids stay in their space, starting over at its end.
LEMMA IdFacts == FirstId \in Ids /\ \A i \in Ids : NextId(i) \in Ids
  BY IdAssumption DEF Ids, FirstId, NextId

\* Appending a frame to one stream leaves streams of frames.
LEMMA AppendFact ==
  ASSUME NEW q \in [Conns -> Seq(AnyFrame)], NEW c \in Conns, NEW f \in AnyFrame
  PROVE  [q EXCEPT ![c] = Append(@, f)] \in [Conns -> Seq(AnyFrame)]
  OBVIOUS

\* Returning an answer that is a call number leaves well-typed results.
LEMMA ReturnFact ==
  ASSUME TypeOK, NEW t \in Threads, NEW a \in 0..MaxCalls, Return(t, a)
  PROVE  /\ ret' \in [Threads -> AnyRet]
         /\ call' \in [Threads -> AnyCall]
         /\ pc' \in [Threads -> {"idle", "locking", "connecting", "writing",
                              "blocked", "reading"}]
         /\ mu' \in Threads \cup {NoThread}
  BY CallFacts, RetFacts DEF TypeOK, Return

\* Dropping the connection leaves streams of frames.
LEMMA ResetFact ==
  ASSUME TypeOK, Reset
  PROVE  conn' \in Conns \cup {NoConn} /\ s2c' \in [Conns -> Seq(AnyFrame)]
  BY DEF TypeOK, Reset

\* A step that returns from a call and leaves its streams typed is typed.
LEMMA ReturnType ==
  ASSUME TypeOK, NEW t \in Threads, NEW a \in 0..MaxCalls, Return(t, a),
         conn' \in Conns \cup {NoConn},
         c2s' \in [Conns -> Seq(AnyFrame)], s2c' \in [Conns -> Seq(AnyFrame)],
         UNCHANGED <<host, reqid, next_request_id, daemonVars, calls, nconns,
                     crashes, exits>>
  PROVE  TypeOK'
  BY ReturnFact DEF TypeOK

\* A thread that returns leaves the mutex free and every thread in order.
LEMMA ReturnLock ==
  ASSUME TypeOK, LockDiscipline, NEW t \in Threads, NEW a, Return(t, a),
         pc[t] \in {"connecting", "writing", "blocked", "reading"}
  PROVE  LockDiscipline'
<1>1. pc'[t] = "idle" /\ call'[t] = NoCall /\ mu' = NoThread
  BY DEF Return, TypeOK
<1>2. \A u \in Threads : u # t =>
        pc'[u] = pc[u] /\ call'[u] = call[u] /\ pc[u] \in {"idle", "locking"}
  BY DEF Return, TypeOK, LockDiscipline
<1> QED
  BY <1>1, <1>2, ThreadsAssumption DEF LockDiscipline

\* A reply ends the call: either it is returned and taken off the stream, or
\* the connection is dropped and nothing is returned.
LEMMA ReadReplyCases ==
  ASSUME NEW t \in Threads, ReadReply(t)
  PROVE  \/ /\ Return(t, Head(s2c[conn]).call)
            /\ s2c' = [s2c EXCEPT ![conn] = Tail(@)]
            /\ conn' = conn
         \/ Return(t, 0) /\ Reset
  BY DEF ReadReply

\* Every step keeps the types.
LEMMA TypeStep ==
  TypeOK /\ LockDiscipline /\ ConnDiscipline /\ [Next]_vars => TypeOK'
<1> SUFFICES ASSUME TypeOK, LockDiscipline, ConnDiscipline, [Next]_vars
             PROVE  TypeOK'
  OBVIOUS
<1> USE BoundAssumption DEF Conns, Open
<1>1. ASSUME NEW t \in Threads, NEW k \in Kinds, Begin(t, k) PROVE TypeOK'
  <2>1. calls + 1 \in Calls
    BY <1>1 DEF TypeOK, Begin, Calls
  <2>2. [kind |-> k, num |-> calls + 1] \in AnyCall
    BY <2>1, CallFacts DEF TypeOK
  <2> QED
    BY <1>1, <2>1, <2>2 DEF TypeOK, Begin, Calls
<1>2. ASSUME NEW t \in Threads, Lock(t) PROVE TypeOK'
  BY <1>2 DEF TypeOK, Lock
<1>3. ASSUME NEW t \in Threads, ResetConnection(t) PROVE TypeOK'
  <2>1. c2s' \in [Conns -> Seq(AnyFrame)]
    BY <1>3 DEF ResetConnection, TypeOK
  <2> QED
    BY <1>3, <2>1, ReturnType, ResetFact DEF ResetConnection
<1>4. ASSUME NEW t \in Threads, EnsureConnected(t) PROVE TypeOK'
  <2>1. reqid' \in [Threads -> Ids] /\ next_request_id' \in Ids
    BY <1>4, IdFacts DEF TypeOK, EnsureConnected, TakeId
  <2>2. /\ conn' \in Conns \cup {NoConn}
        /\ nconns' \in 0..MaxConns
        /\ worker' \in [Conns -> Open \cup {"none", "done"}]
    <3>1. CASE conn # NoConn
      BY <1>4, <3>1 DEF TypeOK, EnsureConnected
    <3>2. CASE conn = NoConn
      BY <1>4, <3>2 DEF TypeOK, EnsureConnected
    <3> QED
      BY <3>1, <3>2 DEF TypeOK
  <2> QED
    BY <1>4, <2>1, <2>2 DEF TypeOK, EnsureConnected
<1>5. ASSUME NEW t \in Threads, ConnectFails(t) PROVE TypeOK'
  BY <1>5, ReturnFact DEF TypeOK, ConnectFails
<1>6. ASSUME NEW t \in Threads, Write(t) PROVE TypeOK'
  <2>1. conn \in Conns /\ call[t].kind \in Asks \cup {"RecordCommit"}
    BY <1>6 DEF TypeOK, LockDiscipline, Write
  <2>2. c2s' \in [Conns -> Seq(AnyFrame)]
    BY <1>6, <2>1, RequestFacts, AppendFact DEF TypeOK, Write
  <2>3. CASE call[t].kind \in Asks
    BY <1>6, <2>2, <2>3 DEF TypeOK, Write, Asks
  <2>4. CASE Return(t, 0)
    BY <1>6, <2>2, <2>4, ReturnFact DEF TypeOK, Write
  <2> QED
    BY <1>6, <2>3, <2>4 DEF TypeOK, Write
<1>7. ASSUME NEW t \in Threads, WriteTimesOut(t) PROVE TypeOK'
  <2>1. conn \in Conns
    BY <1>7 DEF TypeOK, LockDiscipline, WriteTimesOut
  <2>2. c2s' \in [Conns -> Seq(AnyFrame)]
    <3>1. [c2s EXCEPT ![conn] = Append(@, Torn)] \in [Conns -> Seq(AnyFrame)]
      BY <2>1, AppendFact, FrameFacts DEF TypeOK
    <3> QED
      BY <1>7, <3>1 DEF TypeOK, WriteTimesOut
  <2> QED
    BY <1>7, <2>2, ReturnType, ResetFact DEF WriteTimesOut
<1>8. ASSUME NEW t \in Threads, WriteBrokenPipe(t) PROVE TypeOK'
  <2>1. CASE Reset /\ Return(t, 0) /\ UNCHANGED host
    <3>1. c2s' \in [Conns -> Seq(AnyFrame)]
      BY <1>8 DEF WriteBrokenPipe, TypeOK
    <3> QED
      BY <1>8, <2>1, <3>1, ReturnType, ResetFact DEF WriteBrokenPipe
  <2>2. CASE HostDies /\ UNCHANGED ret
    BY <1>8, <2>2, ResetFact, CallFacts DEF WriteBrokenPipe, HostDies, TypeOK
  <2> QED
    BY <1>8, <2>1, <2>2 DEF TypeOK, WriteBrokenPipe
<1>9. ASSUME NEW t \in Threads, ReadReply(t) PROVE TypeOK'
  <2>1. conn \in Conns
    BY <1>9 DEF TypeOK, LockDiscipline, ReadReply
  <2>2. Head(s2c[conn]) \in AnyFrame /\ Tail(s2c[conn]) \in Seq(AnyFrame)
    BY <2>1, <1>9 DEF TypeOK, ReadReply
  <2> QED
    <3>1. Head(s2c[conn]).call \in 0..MaxCalls
      BY <1>9, <2>2, FrameFacts DEF TypeOK, ReadReply, Calls
    <3>2. PICK a \in 0..MaxCalls : Return(t, a)
      BY <1>9, <3>1 DEF TypeOK, ReadReply
    <3>3. s2c' \in [Conns -> Seq(AnyFrame)] /\ conn' \in Conns \cup {NoConn}
      <4>1. CASE Reset
        BY <2>1, <4>1 DEF TypeOK, Reset
      <4>2. CASE s2c' = [s2c EXCEPT ![conn] = Tail(@)] /\ UNCHANGED conn
        BY <2>1, <2>2, <4>2 DEF TypeOK
      <4> QED
        BY <1>9, <4>1, <4>2 DEF TypeOK, ReadReply
    <3>4. /\ UNCHANGED <<host, reqid, next_request_id, daemonVars, calls,
                         nconns, crashes, exits>>
          /\ c2s' \in [Conns -> Seq(AnyFrame)]
      BY <1>9 DEF ReadReply, TypeOK
    <3> QED
      BY <3>2, <3>3, <3>4, ReturnType
<1>10. ASSUME NEW t \in Threads, ReadFails(t) PROVE TypeOK'
  <2>1. c2s' \in [Conns -> Seq(AnyFrame)]
    BY <1>10 DEF ReadFails, TypeOK
  <2> QED
    BY <1>10, <2>1, ReturnType, ResetFact DEF ReadFails
<1>11. CASE HostExit
  BY <1>11, CallFacts DEF TypeOK, HostExit, HostDies, Reset
<1>12. CASE HostStart
  <2>1. reqid' \in [Threads -> Ids] /\ next_request_id' \in Ids
    BY <1>12, IdFacts, IdAssumption DEF HostStart, Ids
  <2> QED
    BY <1>12, <2>1 DEF TypeOK, HostStart
<1>13. ASSUME NEW c \in Conns, Accept(c) PROVE TypeOK'
  BY <1>13 DEF TypeOK, Accept
<1>14. ASSUME NEW c \in Conns, ReadRequest(c) PROVE TypeOK'
  <2>1. Head(c2s[c]) \in AnyJob /\ Tail(c2s[c]) \in Seq(AnyFrame)
    BY <1>14, FrameFacts DEF TypeOK, ReadRequest
  <2> QED
    BY <1>14, <2>1 DEF TypeOK, ReadRequest
<1>15. ASSUME NEW c \in Conns, GiveUpReading(c) PROVE TypeOK'
  BY <1>15 DEF TypeOK, GiveUpReading
<1>16. ASSUME NEW c \in Conns, HandleCommit(c) PROVE TypeOK'
  <2>1. job[c].call \in Calls
    BY <1>16, FrameFacts DEF TypeOK, HandleCommit
  <2> QED
    BY <1>16, <2>1, FrameFacts DEF TypeOK, HandleCommit
<1>17. ASSUME NEW c \in Conns, HandleAsk(c) PROVE TypeOK'
  BY <1>17 DEF TypeOK, HandleAsk
<1>18. ASSUME NEW c \in Conns, Reply(c) PROVE TypeOK'
  <2>1. job[c] \in AnyFrame
    BY <1>18, FrameFacts DEF TypeOK, ConnDiscipline, Reply
  <2> QED
    BY <1>18, <2>1, AppendFact, FrameFacts DEF TypeOK, Reply
<1>19. ASSUME NEW c \in Conns, ReplyFails(c) PROVE TypeOK'
  <2>1. [s2c EXCEPT ![c] = Append(@, Torn)] \in [Conns -> Seq(AnyFrame)]
    BY AppendFact, FrameFacts DEF TypeOK
  <2> QED
    BY <1>19, <2>1, FrameFacts DEF TypeOK, ReplyFails
<1>20. ASSUME NEW c \in Conns, CloseConnection(c) PROVE TypeOK'
  BY <1>20 DEF TypeOK, CloseConnection
<1>21. CASE Crash
  BY <1>21, FrameFacts DEF TypeOK, Crash
<1>22. CASE Restart
  BY <1>22 DEF TypeOK, Restart
<1>23. CASE UNCHANGED vars
  BY <1>23 DEF TypeOK, vars
<1>24. ASSUME NEW t \in Threads, WriteBlocks(t) PROVE TypeOK'
  BY <1>24 DEF TypeOK, WriteBlocks
<1> QED
  BY <1>1, <1>2, <1>3, <1>4, <1>5, <1>6, <1>7, <1>8, <1>9, <1>10, <1>11,
     <1>12, <1>13, <1>14, <1>15, <1>16, <1>17, <1>18, <1>19, <1>20, <1>21,
     <1>22, <1>23, <1>24
  DEF Next, InCall, Work

\* Every step keeps the mutex with the thread whose call is under way.
LEMMA LockStep ==
  TypeOK /\ LockDiscipline /\ [Next]_vars => LockDiscipline'
<1> SUFFICES ASSUME TypeOK, LockDiscipline, [Next]_vars PROVE LockDiscipline'
  OBVIOUS
<1>1. ASSUME NEW t \in Threads, NEW k \in Kinds, Begin(t, k) PROVE
     LockDiscipline'
  BY <1>1, CallFacts DEF Begin, TypeOK, LockDiscipline
<1>2. ASSUME NEW t \in Threads, Lock(t) PROVE LockDiscipline'
  BY <1>2, CallFacts, ThreadsAssumption DEF Lock, TypeOK, LockDiscipline
<1>3. ASSUME NEW t \in Threads, ResetConnection(t) PROVE LockDiscipline'
  BY <1>3, ReturnLock DEF ResetConnection
<1>4. ASSUME NEW t \in Threads, EnsureConnected(t) PROVE LockDiscipline'
  BY <1>4, CallFacts DEF EnsureConnected, TakeId, TypeOK, LockDiscipline
<1>5. ASSUME NEW t \in Threads, ConnectFails(t) PROVE LockDiscipline'
  BY <1>5, ReturnLock DEF ConnectFails
<1>6. ASSUME NEW t \in Threads, Write(t) PROVE LockDiscipline'
  <2>1. CASE Return(t, 0)
    BY <1>6, <2>1, ReturnLock DEF Write
  <2>2. CASE pc' = [pc EXCEPT ![t] = "reading"] /\ call[t].kind \in Asks
    <3>1. call' = call /\ mu' = mu /\ conn' = conn
      BY <1>6, <2>2 DEF Write, Asks
    <3>2. pc'[t] = "reading" /\ \A u \in Threads : u # t => pc'[u] = pc[u]
      BY <2>2 DEF TypeOK
    <3>3. pc[t] \in {"writing", "blocked"}
      BY <1>6 DEF Write
    <3> QED
      BY <2>2, <3>1, <3>2, <3>3 DEF LockDiscipline
  <2> QED
    BY <1>6, <2>1, <2>2 DEF Write
<1>7. ASSUME NEW t \in Threads, WriteTimesOut(t) PROVE LockDiscipline'
  BY <1>7, ReturnLock DEF WriteTimesOut
<1>8. ASSUME NEW t \in Threads, WriteBrokenPipe(t) PROVE LockDiscipline'
  <2>1. CASE Return(t, 0)
    BY <1>8, <2>1, ReturnLock DEF WriteBrokenPipe
  <2>2. CASE HostDies
    BY <2>2, ThreadsAssumption, CallFacts DEF HostDies, LockDiscipline
  <2> QED
    BY <1>8, <2>1, <2>2 DEF WriteBrokenPipe
<1>9. ASSUME NEW t \in Threads, ReadReply(t) PROVE LockDiscipline'
  <2>1. CASE Return(t, 0) /\ Reset
    BY <1>9, <2>1, ReturnLock DEF ReadReply
  <2>2. CASE Return(t, Head(s2c[conn]).call) /\ conn' = conn
    BY <1>9, <2>2, ReturnLock DEF ReadReply
  <2> QED
    BY <1>9, <2>1, <2>2, ReadReplyCases
<1>10. ASSUME NEW t \in Threads, ReadFails(t) PROVE LockDiscipline'
  BY <1>10, ReturnLock DEF ReadFails
<1>11. CASE HostExit
  BY <1>11, ThreadsAssumption DEF HostExit, HostDies, Reset, TypeOK, LockDiscipline
<1>12. CASE HostStart
  BY <1>12 DEF HostStart, TypeOK, LockDiscipline
<1>13. ASSUME NEW c \in Conns, Accept(c) PROVE LockDiscipline'
  BY <1>13 DEF Accept, TypeOK, LockDiscipline
<1>14. ASSUME NEW c \in Conns, ReadRequest(c) PROVE LockDiscipline'
  BY <1>14 DEF ReadRequest, TypeOK, LockDiscipline
<1>15. ASSUME NEW c \in Conns, GiveUpReading(c) PROVE LockDiscipline'
  BY <1>15 DEF GiveUpReading, TypeOK, LockDiscipline
<1>16. ASSUME NEW c \in Conns, HandleCommit(c) PROVE LockDiscipline'
  BY <1>16 DEF HandleCommit, TypeOK, LockDiscipline
<1>17. ASSUME NEW c \in Conns, HandleAsk(c) PROVE LockDiscipline'
  BY <1>17 DEF HandleAsk, TypeOK, LockDiscipline
<1>18. ASSUME NEW c \in Conns, Reply(c) PROVE LockDiscipline'
  BY <1>18 DEF Reply, TypeOK, LockDiscipline
<1>19. ASSUME NEW c \in Conns, ReplyFails(c) PROVE LockDiscipline'
  BY <1>19 DEF ReplyFails, TypeOK, LockDiscipline
<1>20. ASSUME NEW c \in Conns, CloseConnection(c) PROVE LockDiscipline'
  BY <1>20 DEF CloseConnection, TypeOK, LockDiscipline
<1>21. CASE Crash
  BY <1>21 DEF Crash, TypeOK, LockDiscipline
<1>22. CASE Restart
  BY <1>22 DEF Restart, TypeOK, LockDiscipline
<1>23. CASE UNCHANGED vars
  BY <1>23 DEF vars, TypeOK, LockDiscipline
<1>24. ASSUME NEW t \in Threads, WriteBlocks(t) PROVE LockDiscipline'
  BY <1>24, CallFacts DEF WriteBlocks, TypeOK, LockDiscipline
<1> QED
  BY <1>1, <1>2, <1>3, <1>4, <1>5, <1>6, <1>7, <1>8, <1>9, <1>10, <1>11,
     <1>12, <1>13, <1>14, <1>15, <1>16, <1>17, <1>18, <1>19, <1>20, <1>21,
     <1>22, <1>23, <1>24
  DEF Next, InCall, Work

\* Every step keeps the connections in order and each message with its
\* worker.
LEMMA ConnStep ==
  TypeOK /\ LockDiscipline /\ ConnDiscipline /\ [Next]_vars => ConnDiscipline'
<1> SUFFICES ASSUME TypeOK, LockDiscipline, ConnDiscipline, [Next]_vars PROVE
     ConnDiscipline'
  OBVIOUS
<1>1. ASSUME NEW t \in Threads, NEW k \in Kinds, Begin(t, k)
      PROVE  ConnDiscipline'
  BY <1>1 DEF Begin, TypeOK, ConnDiscipline, Conns
<1>2. ASSUME NEW t \in Threads, Lock(t) PROVE ConnDiscipline'
  BY <1>2 DEF Lock, TypeOK, ConnDiscipline, Conns
<1>3. ASSUME NEW t \in Threads, ResetConnection(t) PROVE ConnDiscipline'
  BY <1>3, BoundAssumption DEF ResetConnection, Reset, Return, TypeOK,
     ConnDiscipline, Conns
<1>4. ASSUME NEW t \in Threads, EnsureConnected(t) PROVE ConnDiscipline'
  <2>1. CASE conn # NoConn
    BY <1>4, <2>1 DEF EnsureConnected, ConnDiscipline
  <2>2. CASE conn = NoConn
    <3>1. nconns \in Nat /\ nconns + 1 \in Conns
      BY <1>4, <2>2, BoundAssumption DEF EnsureConnected, TypeOK, Conns
    <3>2. /\ nconns' = nconns + 1 /\ conn' = nconns + 1
          /\ worker' = [worker EXCEPT ![nconns + 1] = "backlog"]
          /\ UNCHANGED <<c2s, s2c, job>>
      BY <1>4, <2>2 DEF EnsureConnected
    <3>3. worker[nconns + 1] = "none"
      BY <3>1 DEF ConnDiscipline
    <3>4. job[nconns + 1] = NoFrame
      BY <3>1, <3>3 DEF ConnDiscipline
    <3>5. worker'[nconns + 1] = "backlog" /\ \A c \in Conns : c # nconns + 1 => worker'[c] = worker[c]
      BY <3>1, <3>2 DEF TypeOK
    <3>6. \A c \in Conns : c > nconns' <=> c > nconns /\ c # nconns + 1
      BY <3>1, <3>2 DEF Conns
    <3> SUFFICES ASSUME NEW c \in Conns
                 PROVE  /\ worker'[c] = "none" <=> c > nconns'
                        /\ c > nconns' => c2s'[c] = <<>> /\ s2c'[c] = <<>>
                        /\ worker'[c] \in {"handling", "replying"} <=>
                             job'[c] # NoFrame
                        /\ worker'[c] = "replying" => job'[c].kind \in Asks
      BY <3>1, <3>2 DEF ConnDiscipline
    <3>7. CASE c = nconns + 1
      BY <3>1, <3>2, <3>4, <3>5, <3>6, <3>7
    <3>8. CASE c # nconns + 1
      BY <3>2, <3>5, <3>6, <3>8 DEF ConnDiscipline
    <3> QED
      BY <3>7, <3>8
  <2> QED
    BY <2>1, <2>2
<1>5. ASSUME NEW t \in Threads, ConnectFails(t) PROVE ConnDiscipline'
  BY <1>5 DEF ConnectFails, Return, TypeOK, ConnDiscipline, Conns
<1>6. ASSUME NEW t \in Threads, Write(t) PROVE ConnDiscipline'
  <2>1. conn \in Conns /\ conn <= nconns
    BY <1>6 DEF Write, LockDiscipline, TypeOK, ConnDiscipline
  <2>2. /\ \A c \in Conns : c # conn => c2s'[c] = c2s[c]
        /\ UNCHANGED <<nconns, worker, job, s2c, conn>>
    BY <1>6, <2>1 DEF Write, TypeOK
  <2>3. \A c \in Conns : c > nconns => c # conn
    BY <2>1, BoundAssumption DEF TypeOK, Conns
  <2> QED
    BY <2>2, <2>3 DEF ConnDiscipline
<1>7. ASSUME NEW t \in Threads, WriteTimesOut(t) PROVE ConnDiscipline'
  <2>1. conn \in Conns /\ conn <= nconns
    BY <1>7 DEF WriteTimesOut, LockDiscipline, TypeOK, ConnDiscipline
  <2>2. /\ \A c \in Conns : c # conn => c2s'[c] = c2s[c]
        /\ \A c \in Conns : c # conn => s2c'[c] = s2c[c]
        /\ UNCHANGED <<nconns, worker, job>> /\ conn' = NoConn
    BY <1>7, <2>1 DEF WriteTimesOut, Reset, TypeOK
  <2>3. \A c \in Conns : c > nconns => c # conn
    BY <2>1, BoundAssumption DEF TypeOK, Conns
  <2>4. nconns >= 0
    BY BoundAssumption DEF TypeOK
  <2> QED
    BY <2>2, <2>3, <2>4 DEF ConnDiscipline
<1>8. ASSUME NEW t \in Threads, WriteBrokenPipe(t) PROVE ConnDiscipline'
  BY <1>8, BoundAssumption DEF WriteBrokenPipe, Reset, Return, HostDies,
     TypeOK, ConnDiscipline, Conns
<1>9. ASSUME NEW t \in Threads, ReadReply(t) PROVE ConnDiscipline'
  <2>1. CASE Return(t, 0) /\ Reset
    BY <1>9, <2>1, BoundAssumption DEF ReadReply, Reset, Return, TypeOK,
     ConnDiscipline, LockDiscipline, Conns
  <2>2. CASE s2c' = [s2c EXCEPT ![conn] = Tail(@)] /\ conn' = conn
    BY <1>9, <2>2 DEF ReadReply, Return, TypeOK, ConnDiscipline,
     LockDiscipline, Conns
  <2> QED
    BY <1>9, <2>1, <2>2, ReadReplyCases
<1>10. ASSUME NEW t \in Threads, ReadFails(t) PROVE ConnDiscipline'
  BY <1>10, BoundAssumption DEF ReadFails, Reset, Return, TypeOK,
     ConnDiscipline, Conns
<1>11. CASE HostExit
  BY <1>11, BoundAssumption DEF HostExit, HostDies, Reset, TypeOK,
     ConnDiscipline, Conns
<1>12. CASE HostStart
  BY <1>12 DEF HostStart, TypeOK, ConnDiscipline, Conns
<1>13. ASSUME NEW c \in Conns, Accept(c) PROVE ConnDiscipline'
  BY <1>13 DEF Accept, TypeOK, ConnDiscipline, Conns
<1>14. ASSUME NEW c \in Conns, ReadRequest(c) PROVE ConnDiscipline'
  <2>1. /\ worker[c] = "reading" /\ worker'[c] = "handling"
        /\ job'[c] # NoFrame /\ c2s[c] # <<>>
    BY <1>14, FrameFacts DEF ReadRequest, TypeOK
  <2>2. \A d \in Conns : d # c =>
          worker'[d] = worker[d] /\ job'[d] = job[d] /\ c2s'[d] = c2s[d]
    BY <1>14 DEF ReadRequest, TypeOK
  <2>3. UNCHANGED <<conn, nconns, s2c>>
    BY <1>14 DEF ReadRequest
  <2> QED
    BY <2>1, <2>2, <2>3 DEF ConnDiscipline
<1>15. ASSUME NEW c \in Conns, GiveUpReading(c) PROVE ConnDiscipline'
  BY <1>15 DEF GiveUpReading, TypeOK, ConnDiscipline, Conns
<1>16. ASSUME NEW c \in Conns, HandleCommit(c) PROVE ConnDiscipline'
  BY <1>16 DEF HandleCommit, TypeOK, ConnDiscipline, Conns
<1>17. ASSUME NEW c \in Conns, HandleAsk(c) PROVE ConnDiscipline'
  BY <1>17 DEF HandleAsk, TypeOK, ConnDiscipline, Conns
<1>18. ASSUME NEW c \in Conns, Reply(c) PROVE ConnDiscipline'
  BY <1>18 DEF Reply, TypeOK, ConnDiscipline, Conns
<1>19. ASSUME NEW c \in Conns, ReplyFails(c) PROVE ConnDiscipline'
  <2>1. /\ worker[c] = "replying" /\ worker'[c] = "closing" /\ job'[c] = NoFrame
        /\ \A d \in Conns : d # c => worker'[d] = worker[d] /\ job'[d] = job[d]
        /\ UNCHANGED <<conn, nconns, c2s>>
    BY <1>19 DEF ReplyFails, TypeOK
  <2>2. c <= nconns /\ nconns \in Nat
    BY <2>1, BoundAssumption DEF ConnDiscipline, TypeOK, Conns
  <2>3. \A d \in Conns : d # c => s2c'[d] = s2c[d]
    BY <1>19 DEF ReplyFails, TypeOK
  <2> QED
    BY <2>1, <2>2, <2>3 DEF ConnDiscipline, Conns
<1>20. ASSUME NEW c \in Conns, CloseConnection(c) PROVE ConnDiscipline'
  BY <1>20 DEF CloseConnection, TypeOK, ConnDiscipline, Conns
<1>21. CASE Crash
  BY <1>21 DEF Crash, TypeOK, ConnDiscipline, Conns
<1>22. CASE Restart
  BY <1>22 DEF Restart, TypeOK, ConnDiscipline, Conns
<1>23. CASE UNCHANGED vars
  BY <1>23 DEF vars, TypeOK, ConnDiscipline, Conns
<1>24. ASSUME NEW t \in Threads, WriteBlocks(t) PROVE ConnDiscipline'
  BY <1>24 DEF WriteBlocks, TypeOK, ConnDiscipline
<1> QED
  BY <1>1, <1>2, <1>3, <1>4, <1>5, <1>6, <1>7, <1>8, <1>9, <1>10, <1>11,
     <1>12, <1>13, <1>14, <1>15, <1>16, <1>17, <1>18, <1>19, <1>20, <1>21,
     <1>22, <1>23, <1>24
  DEF Next, InCall, Work

\* Two threads inside their calls are the same thread.
LEMMA OneHolder ==
  ASSUME LockDiscipline, NEW t \in Threads, NEW u \in Threads,
         pc[t] \in {"connecting", "writing", "blocked", "reading"},
         pc[u] \in {"connecting", "writing", "blocked", "reading"}
  PROVE  t = u
  BY DEF LockDiscipline

\* Returning nothing, or one's own call, keeps answers with their calls.
LEMMA ReturnAnswers ==
  ASSUME TypeOK, AnswersOwnCall, NEW t \in Threads, NEW a \in {0, call[t].num},
         Return(t, a)
  PROVE  AnswersOwnCall'
  BY DEF TypeOK, AnswersOwnCall, Return
\* Every step keeps answers with their calls: the one that returns an answer
\* returns the head of a stream that owes nothing to anybody else.
LEMMA AnswersStep ==
  TypeOK /\ LockDiscipline /\ OneReplyOwed /\ AnswersOwnCall /\ [Next]_vars => AnswersOwnCall'
<1> SUFFICES ASSUME TypeOK, LockDiscipline, OneReplyOwed, AnswersOwnCall,
     [Next]_vars PROVE AnswersOwnCall'
  OBVIOUS
<1>1. ASSUME NEW t \in Threads, NEW k \in Kinds, Begin(t, k)
      PROVE  AnswersOwnCall'
  BY <1>1 DEF Begin, AnswersOwnCall
<1>2. ASSUME NEW t \in Threads, Lock(t) PROVE AnswersOwnCall'
  BY <1>2 DEF Lock, AnswersOwnCall
<1>3. ASSUME NEW t \in Threads, ResetConnection(t) PROVE AnswersOwnCall'
  BY <1>3, ReturnAnswers DEF ResetConnection
<1>4. ASSUME NEW t \in Threads, EnsureConnected(t) PROVE AnswersOwnCall'
  BY <1>4 DEF EnsureConnected, TakeId, AnswersOwnCall
<1>5. ASSUME NEW t \in Threads, ConnectFails(t) PROVE AnswersOwnCall'
  BY <1>5, ReturnAnswers DEF ConnectFails
<1>6. ASSUME NEW t \in Threads, Write(t) PROVE AnswersOwnCall'
  BY <1>6, ReturnAnswers DEF Write, AnswersOwnCall
<1>7. ASSUME NEW t \in Threads, WriteTimesOut(t) PROVE AnswersOwnCall'
  BY <1>7, ReturnAnswers DEF WriteTimesOut
<1>8. ASSUME NEW t \in Threads, WriteBrokenPipe(t) PROVE AnswersOwnCall'
  BY <1>8, ReturnAnswers DEF WriteBrokenPipe, AnswersOwnCall
<1>9. ASSUME NEW t \in Threads, ReadReply(t) PROVE AnswersOwnCall'
  <2>1. conn # NoConn /\ s2c[conn] # <<>> /\ Head(s2c[conn]) # Torn
    BY <1>9 DEF ReadReply, LockDiscipline
  <2>2. s2c[conn] \in Seq(AnyFrame)
    BY <2>1 DEF TypeOK
  <2>3. Head(s2c[conn]) = s2c[conn][1]
    BY <2>1, <2>2
  <2>4. PICK u \in Threads :
          pc[u] = "reading" /\ call[u].num = Head(s2c[conn]).call
    BY <2>1, <2>3 DEF OneReplyOwed, Waiting
  <2>5. Head(s2c[conn]).call = call[t].num
    BY <1>9, <2>4, OneHolder DEF ReadReply
  <2> QED
    BY <1>9, <2>5, ReadReplyCases, ReturnAnswers
<1>10. ASSUME NEW t \in Threads, ReadFails(t) PROVE AnswersOwnCall'
  BY <1>10, ReturnAnswers DEF ReadFails
<1>11. CASE HostExit
  BY <1>11 DEF HostExit, HostDies, Reset, AnswersOwnCall
<1>12. CASE HostStart
  BY <1>12 DEF HostStart, AnswersOwnCall
<1>13. ASSUME NEW c \in Conns, Accept(c) PROVE AnswersOwnCall'
  BY <1>13 DEF Accept, AnswersOwnCall
<1>14. ASSUME NEW c \in Conns, ReadRequest(c) PROVE AnswersOwnCall'
  BY <1>14 DEF ReadRequest, AnswersOwnCall
<1>15. ASSUME NEW c \in Conns, GiveUpReading(c) PROVE AnswersOwnCall'
  BY <1>15 DEF GiveUpReading, AnswersOwnCall
<1>16. ASSUME NEW c \in Conns, HandleCommit(c) PROVE AnswersOwnCall'
  BY <1>16 DEF HandleCommit, AnswersOwnCall
<1>17. ASSUME NEW c \in Conns, HandleAsk(c) PROVE AnswersOwnCall'
  BY <1>17 DEF HandleAsk, AnswersOwnCall
<1>18. ASSUME NEW c \in Conns, Reply(c) PROVE AnswersOwnCall'
  BY <1>18 DEF Reply, AnswersOwnCall
<1>19. ASSUME NEW c \in Conns, ReplyFails(c) PROVE AnswersOwnCall'
  BY <1>19 DEF ReplyFails, AnswersOwnCall
<1>20. ASSUME NEW c \in Conns, CloseConnection(c) PROVE AnswersOwnCall'
  BY <1>20 DEF CloseConnection, AnswersOwnCall
<1>21. CASE Crash
  BY <1>21 DEF Crash, AnswersOwnCall
<1>22. CASE Restart
  BY <1>22 DEF Restart, AnswersOwnCall
<1>23. CASE UNCHANGED vars
  BY <1>23 DEF vars, AnswersOwnCall
<1>24. ASSUME NEW t \in Threads, WriteBlocks(t) PROVE AnswersOwnCall'
  BY <1>24 DEF WriteBlocks, AnswersOwnCall
<1> QED
  BY <1>1, <1>2, <1>3, <1>4, <1>5, <1>6, <1>7, <1>8, <1>9, <1>10, <1>11,
     <1>12, <1>13, <1>14, <1>15, <1>16, <1>17, <1>18, <1>19, <1>20, <1>21,
     <1>22, <1>23, <1>24
  DEF Next, InCall, Work

\* Positions in a stream after a frame is appended, and after one is read.
LEMMA AppendAt ==
  ASSUME NEW q \in Seq(AnyFrame), NEW f \in AnyFrame
  PROVE  /\ Len(Append(q, f)) = Len(q) + 1 /\ Len(q) \in Nat
         /\ \A i \in 1..Len(q) : Append(q, f)[i] = q[i]
         /\ Append(q, f)[Len(q) + 1] = f
  OBVIOUS

\* Reading the same way: the rest of a stream, one position on.
LEMMA TailAt ==
  ASSUME NEW q \in Seq(AnyFrame), q # <<>>
  PROVE  /\ Head(q) = q[1]
         /\ Len(q) \in Nat \ {0} /\ Len(Tail(q)) = Len(q) - 1
         /\ \A i \in 1..Len(Tail(q)) : Tail(q)[i] = q[i + 1] /\ i + 1 \in 1..Len(q)
  OBVIOUS

\* A thread between taking its request id and its reply has a connection.
LEMMA LiveConn ==
  ASSUME TypeOK, LockDiscipline, NEW t \in Threads,
         pc[t] \in {"writing", "blocked", "reading"}
  PROVE  conn \in Conns /\ c2s[conn] \in Seq(AnyFrame) /\ s2c[conn] \in Seq(AnyFrame)
  BY DEF TypeOK, LockDiscipline

\* Every step keeps torn frames last on streams nobody writes to any more.
LEMMA FramingStep ==
  TypeOK /\ LockDiscipline /\ ConnDiscipline /\ FramingInSync /\ [Next]_vars => FramingInSync'
<1> SUFFICES ASSUME TypeOK, LockDiscipline, ConnDiscipline, FramingInSync,
     [Next]_vars PROVE FramingInSync'
  OBVIOUS
<1>1. ASSUME NEW t \in Threads, NEW k \in Kinds, Begin(t, k)
      PROVE  FramingInSync'
  BY <1>1 DEF Begin, FramingInSync
<1>2. ASSUME NEW t \in Threads, Lock(t) PROVE FramingInSync'
  BY <1>2 DEF Lock, FramingInSync
<1>3. ASSUME NEW t \in Threads, ResetConnection(t) PROVE FramingInSync'
  BY <1>3 DEF ResetConnection, Reset, Return, FramingInSync, TypeOK, Conns
<1>4. ASSUME NEW t \in Threads, EnsureConnected(t) PROVE FramingInSync'
  <2>1. UNCHANGED <<c2s, s2c>>
    BY <1>4 DEF EnsureConnected
  <2>2. CASE conn # NoConn
    BY <1>4, <2>1, <2>2 DEF EnsureConnected, FramingInSync
  <2>3. CASE conn = NoConn
    <3>1. nconns + 1 \in Conns /\ nconns + 1 > nconns /\ conn' = nconns + 1
      BY <1>4, <2>3, BoundAssumption DEF EnsureConnected, TypeOK, Conns
    <3>2. c2s[nconns + 1] = <<>> /\ s2c[nconns + 1] = <<>>
      BY <3>1 DEF ConnDiscipline
    <3>3. \A c \in Conns : c # nconns + 1 => worker'[c] = worker[c]
      BY <1>4, <2>3 DEF EnsureConnected, TypeOK
    <3> QED
      BY <2>1, <3>1, <3>2, <3>3 DEF FramingInSync
  <2> QED
    BY <2>2, <2>3
<1>5. ASSUME NEW t \in Threads, ConnectFails(t) PROVE FramingInSync'
  BY <1>5 DEF ConnectFails, FramingInSync
<1>6. ASSUME NEW t \in Threads, Write(t) PROVE FramingInSync'
  <2> DEFINE f == Request(t)
  <2>1. f \in AnyFrame /\ f # Torn
    BY <1>6, RequestFacts DEF Write
  <2>2. conn \in Conns /\ c2s[conn] \in Seq(AnyFrame)
    BY <1>6, LiveConn DEF Write
  <2>3. /\ c2s'[conn] = Append(c2s[conn], f)
        /\ \A c \in Conns : c # conn => c2s'[c] = c2s[c]
        /\ UNCHANGED <<s2c, worker, conn>>
    BY <1>6, <2>2 DEF Write, TypeOK
  <2>4. \A i \in 1..Len(c2s'[conn]) : c2s'[conn][i] # Torn
    <3> HIDE DEF f
    <3> QED
      BY <2>1, <2>2, <2>3, AppendAt DEF FramingInSync
  <2> QED
    BY <2>2, <2>3, <2>4 DEF FramingInSync
<1>7. ASSUME NEW t \in Threads, WriteTimesOut(t) PROVE FramingInSync'
  <2>1. conn \in Conns /\ c2s[conn] \in Seq(AnyFrame)
    BY <1>7, LiveConn DEF WriteTimesOut
  <2>2. /\ \A c \in Conns : c # conn => c2s'[c] = c2s[c] /\ s2c'[c] = s2c[c]
        /\ s2c'[conn] = <<>>
        /\ UNCHANGED worker /\ conn' = NoConn
    BY <1>7, <2>1 DEF WriteTimesOut, Reset, TypeOK
  <2>3. c2s'[conn] = c2s[conn] \/ c2s'[conn] = Append(c2s[conn], Torn)
    BY <1>7, <2>1 DEF WriteTimesOut, TypeOK
  <2>4. \A i \in 1..Len(c2s'[conn]) :
          c2s'[conn][i] = Torn => i = Len(c2s'[conn])
    BY <2>1, <2>3, AppendAt, FrameFacts DEF FramingInSync
  <2>5. \A c \in Conns : c # conn' /\ conn \in Nat /\ conn' # conn
    BY <2>1, <2>2 DEF Conns
  <2> QED
    BY <2>2, <2>4, <2>5 DEF FramingInSync
<1>8. ASSUME NEW t \in Threads, WriteBrokenPipe(t) PROVE FramingInSync'
  <2>1. Reset /\ UNCHANGED <<c2s, worker>>
    BY <1>8 DEF WriteBrokenPipe, HostDies
  <2> QED
    BY <2>1 DEF Reset, FramingInSync, Conns
<1>9. ASSUME NEW t \in Threads, ReadReply(t) PROVE FramingInSync'
  <2>1. conn \in Conns /\ s2c[conn] \in Seq(AnyFrame) /\ s2c[conn] # <<>>
    BY <1>9, LiveConn DEF ReadReply
  <2>2. UNCHANGED <<c2s, worker>>
    BY <1>9 DEF ReadReply
  <2>3. CASE Return(t, 0) /\ Reset
    BY <2>1, <2>2, <2>3 DEF Reset, FramingInSync, Conns
  <2>4. CASE s2c' = [s2c EXCEPT ![conn] = Tail(@)] /\ conn' = conn
    <3>1. s2c'[conn] = Tail(s2c[conn]) /\ \A c \in Conns : c # conn => s2c'[c] = s2c[c]
      BY <2>1, <2>4 DEF TypeOK
    <3>2. \A i \in 1..Len(s2c'[conn]) :
            s2c'[conn][i] = Torn => i = Len(s2c'[conn]) /\ worker[conn] \in {"closing", "done"}
      BY <2>1, <3>1, TailAt DEF FramingInSync
    <3> QED
      BY <2>2, <2>4, <3>1, <3>2 DEF FramingInSync
  <2> QED
    BY <1>9, <2>3, <2>4, ReadReplyCases
<1>10. ASSUME NEW t \in Threads, ReadFails(t) PROVE FramingInSync'
  BY <1>10 DEF ReadFails, Reset, Return, FramingInSync, TypeOK, Conns
<1>11. CASE HostExit
  BY <1>11 DEF HostExit, HostDies, Reset, FramingInSync, TypeOK, Conns
<1>12. CASE HostStart
  BY <1>12 DEF HostStart, FramingInSync
<1>13. ASSUME NEW c \in Conns, Accept(c) PROVE FramingInSync'
  BY <1>13 DEF Accept, FramingInSync, TypeOK, Conns
<1>14. ASSUME NEW c \in Conns, ReadRequest(c) PROVE FramingInSync'
  <2>1. c2s[c] \in Seq(AnyFrame) /\ c2s[c] # <<>>
    BY <1>14 DEF ReadRequest, TypeOK
  <2>2. /\ c2s'[c] = Tail(c2s[c]) /\ worker[c] = "reading"
        /\ \A d \in Conns : d # c => c2s'[d] = c2s[d] /\ worker'[d] = worker[d]
        /\ UNCHANGED <<s2c, conn>>
    BY <1>14 DEF ReadRequest, TypeOK
  <2>3. \A i \in 1..Len(c2s'[c]) :
          c2s'[c][i] = Torn => i = Len(c2s'[c]) /\ conn # c
    <3>1. \A i \in 1..Len(c2s[c]) :
            c2s[c][i] = Torn => i = Len(c2s[c]) /\ conn # c
      BY DEF FramingInSync
    <3> QED
      BY <2>1, <2>2, <3>1, TailAt
  <2>4. \A i \in 1..Len(s2c[c]) : s2c[c][i] # Torn
    BY <2>2 DEF FramingInSync
  <2> QED
    BY <2>2, <2>3, <2>4 DEF FramingInSync
<1>15. ASSUME NEW c \in Conns, GiveUpReading(c) PROVE FramingInSync'
  BY <1>15 DEF GiveUpReading, FramingInSync, TypeOK, Conns
<1>16. ASSUME NEW c \in Conns, HandleCommit(c) PROVE FramingInSync'
  BY <1>16 DEF HandleCommit, FramingInSync, TypeOK
<1>17. ASSUME NEW c \in Conns, HandleAsk(c) PROVE FramingInSync'
  BY <1>17 DEF HandleAsk, FramingInSync, TypeOK
<1>18. ASSUME NEW c \in Conns, Reply(c) PROVE FramingInSync'
  <2>1. job[c] \in AnyFrame /\ job[c] # Torn /\ s2c[c] \in Seq(AnyFrame)
    BY <1>18, FrameFacts DEF Reply, TypeOK, ConnDiscipline
  <2>2. /\ s2c'[c] = Append(s2c[c], job[c]) /\ worker[c] = "replying"
        /\ \A d \in Conns : d # c => s2c'[d] = s2c[d] /\ worker'[d] = worker[d]
        /\ UNCHANGED <<c2s, conn>>
    BY <1>18 DEF Reply, TypeOK
  <2>3. \A i \in 1..Len(s2c'[c]) : s2c'[c][i] # Torn
    BY <2>1, <2>2, AppendAt DEF FramingInSync
  <2> QED
    BY <2>2, <2>3 DEF FramingInSync
<1>19. ASSUME NEW c \in Conns, ReplyFails(c) PROVE FramingInSync'
  <2>1. s2c[c] \in Seq(AnyFrame)
    BY <1>19 DEF TypeOK
  <2>2. /\ worker[c] = "replying" /\ worker'[c] = "closing"
        /\ \A d \in Conns : d # c => worker'[d] = worker[d]
        /\ UNCHANGED <<c2s, conn>>
    BY <1>19 DEF ReplyFails, TypeOK
  <2>3. s2c' = s2c \/ s2c' = [s2c EXCEPT ![c] = Append(@, Torn)]
    BY <1>19 DEF ReplyFails
  <2>4. /\ s2c'[c] = s2c[c] \/ s2c'[c] = Append(s2c[c], Torn)
        /\ \A d \in Conns : d # c => s2c'[d] = s2c[d]
    <3>1. CASE s2c' = s2c
      BY <3>1
    <3>2. CASE s2c' = [s2c EXCEPT ![c] = Append(@, Torn)]
      BY <3>2 DEF TypeOK
    <3> QED
      BY <2>3, <3>1, <3>2
  <2>5. \A i \in 1..Len(s2c'[c]) : s2c'[c][i] = Torn => i = Len(s2c'[c])
    <3>1. \A i \in 1..Len(s2c[c]) : s2c[c][i] # Torn
      BY <2>2 DEF FramingInSync
    <3>2. CASE s2c'[c] = s2c[c]
      BY <3>1, <3>2
    <3>3. CASE s2c'[c] = Append(s2c[c], Torn)
      BY <2>1, <3>1, <3>3, AppendAt, FrameFacts
    <3> QED
      BY <2>4, <3>2, <3>3
  <2> QED
    BY <2>2, <2>4, <2>5 DEF FramingInSync
<1>20. ASSUME NEW c \in Conns, CloseConnection(c) PROVE FramingInSync'
  <2>1. /\ c2s'[c] = <<>> /\ worker'[c] = "done"
        /\ \A d \in Conns : d # c => c2s'[d] = c2s[d] /\ worker'[d] = worker[d]
        /\ UNCHANGED <<s2c, conn>>
    BY <1>20 DEF CloseConnection, TypeOK
  <2> QED
    BY <2>1 DEF FramingInSync
<1>21. CASE Crash
  BY <1>21 DEF Crash, FramingInSync
<1>22. CASE Restart
  BY <1>22 DEF Restart, FramingInSync
<1>23. CASE UNCHANGED vars
  BY <1>23 DEF vars, FramingInSync
<1>24. ASSUME NEW t \in Threads, WriteBlocks(t) PROVE FramingInSync'
  BY <1>24 DEF WriteBlocks, FramingInSync
<1> QED
  BY <1>1, <1>2, <1>3, <1>4, <1>5, <1>6, <1>7, <1>8, <1>9, <1>10, <1>11,
     <1>12, <1>13, <1>14, <1>15, <1>16, <1>17, <1>18, <1>19, <1>20, <1>21,
     <1>22, <1>23, <1>24
  DEF Next, InCall, Work

\* While the thread that holds mu_ is not waiting for a reply, its connection
\* carries no request and no reply.
LEMMA NobodyWaits ==
  ASSUME TypeOK, LockDiscipline, OneReplyOwed, conn # NoConn,
         NEW t \in Threads, pc[t] \in {"connecting", "writing", "blocked"}
  PROVE  /\ \A i \in 1..Len(c2s[conn]) : c2s[conn][i].kind \notin Asks
         /\ job[conn].kind \notin Asks
         /\ s2c[conn] = <<>>
<1>1. \A u \in Threads : pc[u] # "reading"
  BY OneHolder
<1> QED
  BY <1>1 DEF OneReplyOwed, Waiting

\* Every step keeps at most one reply owed on the live connection, and owed
\* to the thread that waits.
LEMMA OneReplyStep ==
  TypeOK /\ LockDiscipline /\ ConnDiscipline /\ OneReplyOwed /\ [Next]_vars => OneReplyOwed'
<1> SUFFICES ASSUME TypeOK, LockDiscipline, ConnDiscipline, OneReplyOwed,
     [Next]_vars PROVE OneReplyOwed'
  OBVIOUS
<1>1. ASSUME NEW t \in Threads, NEW k \in Kinds, Begin(t, k)
      PROVE  OneReplyOwed'
  <2>1. UNCHANGED <<conn, c2s, s2c, job>>
    BY <1>1 DEF Begin
  <2>2. /\ \A n : Waiting(n) => Waiting(n)'
        /\ (\E u \in Threads : pc[u] = "reading") =>
             (\E u \in Threads : pc'[u] = "reading")
    BY <1>1 DEF Begin, Waiting, TypeOK
  <2> QED
    BY <2>1, <2>2 DEF OneReplyOwed
<1>2. ASSUME NEW t \in Threads, Lock(t) PROVE OneReplyOwed'
  <2>1. UNCHANGED <<conn, c2s, s2c, job>>
    BY <1>2 DEF Lock
  <2>2. /\ \A n : Waiting(n) => Waiting(n)'
        /\ (\E u \in Threads : pc[u] = "reading") =>
             (\E u \in Threads : pc'[u] = "reading")
    BY <1>2 DEF Lock, Waiting, TypeOK
  <2> QED
    BY <2>1, <2>2 DEF OneReplyOwed
<1>3. ASSUME NEW t \in Threads, ResetConnection(t) PROVE OneReplyOwed'
  BY <1>3 DEF ResetConnection, Reset, OneReplyOwed
<1>4. ASSUME NEW t \in Threads, EnsureConnected(t) PROVE OneReplyOwed'
  <2>1. UNCHANGED <<c2s, s2c, job>> /\ pc[t] = "connecting"
    BY <1>4 DEF EnsureConnected
  <2>2. CASE conn # NoConn
    <3>1. UNCHANGED conn
      BY <1>4, <2>2 DEF EnsureConnected
    <3> QED
      BY <2>1, <2>2, <3>1, NobodyWaits DEF OneReplyOwed
  <2>3. CASE conn = NoConn
    <3>1. /\ nconns + 1 \in Conns /\ nconns + 1 > nconns /\ nconns \in Nat
          /\ conn' = nconns + 1
      BY <1>4, <2>3, BoundAssumption DEF EnsureConnected, TypeOK, Conns
    <3>2. /\ c2s[nconns + 1] = <<>> /\ s2c[nconns + 1] = <<>>
          /\ worker[nconns + 1] = "none"
      BY <3>1 DEF ConnDiscipline
    <3>3. job[nconns + 1] = NoFrame
      BY <3>1, <3>2 DEF ConnDiscipline
    <3> QED
      BY <2>1, <3>1, <3>2, <3>3, FrameFacts DEF OneReplyOwed, Asks
  <2> QED
    BY <2>2, <2>3
<1>5. ASSUME NEW t \in Threads, ConnectFails(t) PROVE OneReplyOwed'
  BY <1>5 DEF ConnectFails, OneReplyOwed
<1>6. ASSUME NEW t \in Threads, Write(t) PROVE OneReplyOwed'
  <2> DEFINE f == Request(t)
  <2>1. /\ f \in AnyFrame /\ f.kind = call[t].kind /\ f.call = call[t].num
    BY <1>6, RequestFacts DEF Write
  <2>2. conn \in Conns /\ conn # NoConn /\ c2s[conn] \in Seq(AnyFrame)
    BY <1>6, LiveConn DEF Write, LockDiscipline
  <2>3. /\ c2s'[conn] = Append(c2s[conn], f)
        /\ UNCHANGED <<s2c, job, conn>>
    BY <1>6, <2>2 DEF Write, TypeOK
  <2>4. /\ \A i \in 1..Len(c2s[conn]) : c2s[conn][i].kind \notin Asks
        /\ job[conn].kind \notin Asks
        /\ s2c[conn] = <<>>
    BY <1>6, <2>2, NobodyWaits DEF Write
  <2>5. f.kind \in Asks =>
          \E u \in Threads : pc'[u] = "reading" /\ call'[u].num = f.call
    <3> SUFFICES ASSUME f.kind \in Asks
                 PROVE  pc'[t] = "reading" /\ call'[t].num = f.call
      OBVIOUS
    <3>1. pc' = [pc EXCEPT ![t] = "reading"] /\ call' = call
      BY <1>6, <2>1 DEF Write, Asks
    <3> QED
      BY <2>1, <3>1 DEF TypeOK
  <2> HIDE DEF f
  <2>6. \A i \in 1..Len(c2s'[conn]) :
          c2s'[conn][i].kind \in Asks =>
            i = Len(c2s'[conn]) /\ c2s'[conn][i] = f
    BY <2>1, <2>2, <2>3, <2>4, AppendAt
  <2>7. conn' = conn /\ job' = job /\ s2c' = s2c
    BY <2>3
  <2>8. ASSUME NEW i \in 1..Len(c2s'[conn]), c2s'[conn][i].kind \in Asks
        PROVE  /\ i = Len(c2s'[conn])
               /\ \E u \in Threads :
                    pc'[u] = "reading" /\ call'[u].num = c2s'[conn][i].call
    BY <2>5, <2>6, <2>8
  <2> QED
    BY <2>4, <2>7, <2>8 DEF OneReplyOwed, Waiting
<1>7. ASSUME NEW t \in Threads, WriteTimesOut(t) PROVE OneReplyOwed'
  BY <1>7 DEF WriteTimesOut, Reset, OneReplyOwed
<1>8. ASSUME NEW t \in Threads, WriteBrokenPipe(t) PROVE OneReplyOwed'
  BY <1>8 DEF WriteBrokenPipe, HostDies, Reset, OneReplyOwed
<1>9. ASSUME NEW t \in Threads, ReadReply(t) PROVE OneReplyOwed'
  <2>1. /\ conn \in Conns /\ s2c[conn] \in Seq(AnyFrame)
        /\ s2c[conn] # <<>> /\ conn # NoConn
    BY <1>9, LiveConn DEF ReadReply, LockDiscipline
  <2>2. UNCHANGED <<c2s, job>>
    BY <1>9 DEF ReadReply
  <2>3. CASE Return(t, 0) /\ Reset
    BY <2>3 DEF Reset, OneReplyOwed
  <2>4. CASE s2c' = [s2c EXCEPT ![conn] = Tail(@)] /\ conn' = conn
    <3>1. Len(s2c[conn]) = 1 /\ c2s[conn] = <<>> /\ job[conn] = NoFrame
      BY <2>1 DEF OneReplyOwed
    <3>2. s2c'[conn] = <<>>
      BY <2>1, <2>4, <3>1 DEF TypeOK
    <3> QED
      BY <2>2, <2>4, <3>1, <3>2, FrameFacts DEF OneReplyOwed, Asks
  <2> QED
    BY <1>9, <2>3, <2>4, ReadReplyCases
<1>10. ASSUME NEW t \in Threads, ReadFails(t) PROVE OneReplyOwed'
  BY <1>10 DEF ReadFails, Reset, OneReplyOwed
<1>11. CASE HostExit
  BY <1>11 DEF HostExit, HostDies, Reset, OneReplyOwed
<1>12. CASE HostStart
  BY <1>12 DEF HostStart, OneReplyOwed, Waiting
<1>13. ASSUME NEW c \in Conns, Accept(c) PROVE OneReplyOwed'
  BY <1>13 DEF Accept, OneReplyOwed, Waiting
<1>14. ASSUME NEW c \in Conns, ReadRequest(c) PROVE OneReplyOwed'
  <2>1. /\ c2s[c] \in Seq(AnyFrame) /\ c2s[c] # <<>>
        /\ c2s'[c] = Tail(c2s[c]) /\ job'[c] = Head(c2s[c])
        /\ UNCHANGED <<s2c, conn, pc, call>>
    BY <1>14 DEF ReadRequest, TypeOK
  <2>2. \A d \in Conns : d # c => c2s'[d] = c2s[d] /\ job'[d] = job[d]
    BY <1>14 DEF ReadRequest, TypeOK
  <2>3. CASE conn # NoConn /\ conn # c
    <3>1. /\ conn \in Conns /\ conn' = conn
          /\ c2s'[conn] = c2s[conn] /\ job'[conn] = job[conn]
          /\ s2c'[conn] = s2c[conn]
      BY <2>1, <2>2, <2>3 DEF TypeOK
    <3> QED
      BY <2>1, <2>3, <3>1 DEF OneReplyOwed, Waiting
  <2>4. CASE conn = c /\ conn # NoConn
    <3>1. s2c[c] = <<>>
      BY <2>1, <2>4 DEF OneReplyOwed
    <3>2. job'[c].kind \in Asks => c2s'[c] = <<>> /\ Waiting(job'[c].call)
      BY <2>1, <2>4, TailAt DEF OneReplyOwed
    <3>3. \A i \in 1..Len(c2s'[c]) : c2s'[c][i].kind \in Asks =>
            i = Len(c2s'[c]) /\ Waiting(c2s'[c][i].call)
      BY <2>1, <2>4, TailAt DEF OneReplyOwed
    <3> QED
      BY <2>1, <2>4, <3>1, <3>2, <3>3 DEF OneReplyOwed, Waiting
  <2> QED
    BY <2>1, <2>3, <2>4 DEF OneReplyOwed
<1>15. ASSUME NEW c \in Conns, GiveUpReading(c) PROVE OneReplyOwed'
  BY <1>15 DEF GiveUpReading, OneReplyOwed, Waiting
<1>16. ASSUME NEW c \in Conns, HandleCommit(c) PROVE OneReplyOwed'
  <2>1. /\ job' = [job EXCEPT ![c] = NoFrame]
        /\ UNCHANGED <<c2s, s2c, conn, pc, call>>
    BY <1>16 DEF HandleCommit
  <2> QED
    BY <2>1, FrameFacts DEF OneReplyOwed, Waiting, TypeOK, Asks
<1>17. ASSUME NEW c \in Conns, HandleAsk(c) PROVE OneReplyOwed'
  BY <1>17 DEF HandleAsk, OneReplyOwed, Waiting
<1>18. ASSUME NEW c \in Conns, Reply(c) PROVE OneReplyOwed'
  <2>1. /\ s2c[c] \in Seq(AnyFrame) /\ job[c] \in AnyFrame /\ conn = c
        /\ conn # NoConn /\ job[c].kind \in Asks
    <3>1. worker[c] = "replying" /\ conn = c /\ c # NoConn
      BY <1>18 DEF Reply, Conns
    <3>2. job[c] # NoFrame /\ job[c].kind \in Asks
      BY <3>1 DEF ConnDiscipline
    <3> QED
      BY <3>1, <3>2 DEF TypeOK, AnyFrame, AnyJob
  <2>2. /\ s2c'[c] = Append(s2c[c], job[c]) /\ job'[c] = NoFrame
        /\ UNCHANGED <<c2s, conn, pc, call>>
    BY <1>18 DEF Reply, TypeOK
  <2>3. c2s[c] = <<>> /\ s2c[c] = <<>> /\ Waiting(job[c].call)
    BY <2>1, FrameFacts DEF OneReplyOwed, Asks
  <2>4. Len(s2c'[c]) = 1 /\ s2c'[c][1] = job[c]
    BY <2>1, <2>2, <2>3
  <2>5. \E u \in Threads : pc'[u] = "reading" /\ call'[u].num = s2c'[c][1].call
    BY <2>2, <2>3, <2>4 DEF Waiting
  <2>6. NoFrame.kind \notin Asks
    BY FrameFacts DEF Asks
  <2> QED
    BY <2>1, <2>2, <2>3, <2>4, <2>5, <2>6 DEF OneReplyOwed, Waiting
<1>19. ASSUME NEW c \in Conns, ReplyFails(c) PROVE OneReplyOwed'
  <2>1. job[c].kind \in Asks /\ c # NoConn
    BY <1>19 DEF ReplyFails, ConnDiscipline, Conns
  <2>2. /\ job'[c] = NoFrame
        /\ \A d \in Conns : d # c => job'[d] = job[d]
        /\ UNCHANGED <<c2s, conn, pc, call>>
    BY <1>19 DEF ReplyFails, TypeOK
  <2>3. s2c' = s2c \/ s2c' = [s2c EXCEPT ![c] = Append(@, Torn)]
    BY <1>19 DEF ReplyFails
  <2>4. CASE conn # NoConn /\ conn # c
    <3>1. s2c'[conn] = s2c[conn] /\ conn \in Conns
      BY <2>3, <2>4 DEF TypeOK
    <3> QED
      BY <2>2, <2>4, <3>1 DEF OneReplyOwed, Waiting
  <2>5. CASE conn = c
    <3>1. c2s[c] = <<>> /\ s2c[c] = <<>> /\ Waiting(job[c].call)
      BY <2>1, <2>5, FrameFacts DEF OneReplyOwed, Asks
    <3>2. s2c'[c] = <<>> \/ (Len(s2c'[c]) = 1 /\ s2c'[c][1] = Torn)
      BY <2>3, <3>1 DEF TypeOK
    <3> QED
      BY <2>1, <2>2, <2>5, <3>1, <3>2, FrameFacts
      DEF OneReplyOwed, Waiting, Asks
  <2> QED
    BY <2>2, <2>4, <2>5 DEF OneReplyOwed
<1>20. ASSUME NEW c \in Conns, CloseConnection(c) PROVE OneReplyOwed'
  <2>1. /\ c2s' = [c2s EXCEPT ![c] = <<>>]
        /\ UNCHANGED <<job, s2c, conn, pc, call>>
    BY <1>20 DEF CloseConnection
  <2>2. conn # NoConn => c2s'[conn] = c2s[conn] \/ c2s'[conn] = <<>>
    BY <2>1 DEF TypeOK
  <2> QED
    BY <2>1, <2>2 DEF OneReplyOwed, Waiting
<1>21. CASE Crash
  <2>1. /\ c2s' = [c \in Conns |-> <<>>]
        /\ job' = [c \in Conns |-> NoFrame]
        /\ UNCHANGED <<s2c, conn, pc, call>>
    BY <1>21 DEF Crash
  <2> QED
    BY <2>1, FrameFacts DEF OneReplyOwed, Waiting, TypeOK, Asks
<1>22. CASE Restart
  BY <1>22 DEF Restart, OneReplyOwed, Waiting
<1>23. CASE UNCHANGED vars
  BY <1>23 DEF vars, OneReplyOwed, Waiting
<1>24. ASSUME NEW t \in Threads, WriteBlocks(t) PROVE OneReplyOwed'
  <2>1. UNCHANGED <<conn, c2s, s2c, job>>
    BY <1>24 DEF WriteBlocks
  <2>2. /\ \A n : Waiting(n) => Waiting(n)'
        /\ (\E u \in Threads : pc[u] = "reading") =>
             (\E u \in Threads : pc'[u] = "reading")
    BY <1>24 DEF WriteBlocks, Waiting, TypeOK
  <2> QED
    BY <2>1, <2>2 DEF OneReplyOwed
<1> QED
  BY <1>1, <1>2, <1>3, <1>4, <1>5, <1>6, <1>7, <1>8, <1>9, <1>10, <1>11,
     <1>12, <1>13, <1>14, <1>15, <1>16, <1>17, <1>18, <1>19, <1>20, <1>21,
     <1>22, <1>23, <1>24
  DEF Next, InCall, Work
-----------------------------------------------------------------------------
(***************************************************************************)
(* Every call is in one place.                                             *)
(***************************************************************************)

\* t has yet to write its call.
Unwritten(t) == pc[t] \in {"locking", "connecting", "writing", "blocked"}

\* No thread takes up a call or comes back to writing one.
Settling ==
  \A t \in Threads :
    /\ call'[t] \in {call[t], NoCall}
    /\ Unwritten(t)' => Unwritten(t) /\ call'[t] = call[t]

\* Calls of threads are numbered from 1 and their frames by them.
LEMMA NumberFacts ==
  ASSUME TypeOK
  PROVE  /\ \A t \in Threads : call[t] # NoCall => call[t].num \in Calls
         /\ \A t \in Threads : call[t].num \in 0..MaxCalls
         /\ \A c \in Conns : job[c] # NoFrame => job[c].call \in Calls
         /\ \A c \in Conns : \A i \in 1..Len(c2s[c]) :
              c2s[c][i] \in AnyFrame /\ (c2s[c][i] # Torn => c2s[c][i].call \in Calls)
         /\ 0 \notin Calls /\ Calls \subseteq Nat
<1>1. \A x \in AnyFrame : x # Torn => x.call \in Calls
  BY FrameFacts
<1>2. \A c \in Conns : c2s[c] \in Seq(AnyFrame)
  BY DEF TypeOK
<1> QED
  BY <1>1, <1>2, CallFacts, FrameFacts DEF TypeOK, Calls

\* Threads that settle keep their calls apart.
LEMMA ThreadsApart ==
  ASSUME TypeOK, OnePlace, Settling, calls' = calls
  PROVE  /\ \A t \in Threads : call'[t].num <= calls'
         /\ \A t, u \in Threads :
              call'[t] # NoCall /\ call'[t].num = call'[u].num => t = u
<1>1. NoCall.num = 0 /\ calls \in Nat
  BY CallFacts, BoundAssumption DEF TypeOK
<1> QED
  BY <1>1, NumberFacts DEF Settling, OnePlace

\* Steps that drop calls and frames, and move none, keep OnePlace.
LEMMA Dropping ==
  ASSUME TypeOK, LockDiscipline, OnePlace, Settling, calls' = calls, recorded' = recorded,
         \A d \in Conns : c2s'[d] \in {c2s[d], <<>>} /\ job'[d] \in {job[d], NoFrame}
  PROVE  OnePlace'
<1>1. \A c \in Conns : \A i \in 1..Len(c2s'[c]) :
        i \in 1..Len(c2s[c]) /\ c2s'[c][i] = c2s[c][i]
  OBVIOUS
<1>2. \A n \in Calls : OnWire(n)' => OnWire(n)
  BY <1>1, NumberFacts, FrameFacts DEF OnWire
<1>3. \A n : Logged(n)' <=> Logged(n)
  BY DEF Logged
<1>4. ASSUME NEW t \in Threads, Unwritten(t)'
      PROVE  ~OnWire(call[t].num)' /\ ~Logged(call[t].num)'
  <2>1. Unwritten(t) /\ call'[t] = call[t]
    BY <1>4 DEF Settling
  <2>2. call[t].num \in Calls
    BY <2>1, NumberFacts DEF LockDiscipline, Unwritten
  <2>3. ~OnWire(call[t].num) /\ ~Logged(call[t].num)
    BY <2>1 DEF OnePlace, Unwritten
  <2> DEFINE n == call[t].num
  <2>4. ~OnWire(n) => ~(\/ \E c \in Conns : \E i \in 1..Len(c2s'[c]) : c2s'[c][i].call = n
                        \/ \E c \in Conns : job'[c].call = n)
    BY <1>1, <2>2, NumberFacts, FrameFacts DEF OnWire
  <2> QED
    BY <2>1, <2>3, <2>4 DEF OnWire, Logged
<1>5. \A n \in Calls : (OnWire(n)' \/ Logged(n)' => n <= calls') /\ ~(OnWire(n)' /\ Logged(n)')
  BY <1>2, <1>3 DEF OnePlace
<1>6. \A c, d \in Conns : \A i \in 1..Len(c2s'[c]), j \in 1..Len(c2s'[d]) :
        c2s'[c][i] # Torn /\ c2s'[c][i].call = c2s'[d][j].call => c = d /\ i = j
  BY <1>1 DEF OnePlace
<1>7. \A c, d \in Conns :
        job'[c] # NoFrame =>
          /\ job'[c].call = job'[d].call => c = d
          /\ \A i \in 1..Len(c2s'[d]) : c2s'[d][i].call # job'[c].call
  BY <1>1, NumberFacts, FrameFacts DEF OnePlace
<1> QED
  BY ThreadsApart, <1>4, <1>5, <1>6, <1>7 DEF OnePlace, Unwritten
\* A frame put at the end of a stream keeps OnePlace if it is a torn one, or
\* that of a call so far unwritten.
LEMMA Appending ==
  ASSUME TypeOK, LockDiscipline, OnePlace, Settling, calls' = calls,
         recorded' = recorded, job' = job,
         NEW c \in Conns, NEW f \in AnyFrame,
         c2s' = [c2s EXCEPT ![c] = Append(@, f)],
         \/ f = Torn
         \/ /\ f.call \in Calls /\ f.call <= calls
            /\ ~OnWire(f.call) /\ ~Logged(f.call)
            /\ \A t \in Threads : Unwritten(t)' => call[t].num # f.call
  PROVE  OnePlace'
<1>1. /\ \A d \in Conns : c2s[d] \in Seq(AnyFrame)
      /\ \A d \in Conns : d # c => c2s'[d] = c2s[d]
      /\ c2s'[c] = Append(c2s[c], f)
  BY DEF TypeOK
<1>2. \A d \in Conns : \A i \in 1..Len(c2s'[d]) :
        \/ i \in 1..Len(c2s[d]) /\ c2s'[d][i] = c2s[d][i]
        \/ d = c /\ i = Len(c2s[c]) + 1 /\ c2s'[d][i] = f
  BY <1>1, AppendAt
<1>3. ASSUME NEW n \in Calls, n # f.call, OnWire(n)' PROVE OnWire(n)
  BY <1>2, <1>3 DEF OnWire
<1>4. ASSUME NEW t \in Threads, Unwritten(t)'
      PROVE  ~OnWire(call[t].num)' /\ ~Logged(call[t].num)'
  <2>1. Unwritten(t) /\ call'[t] = call[t]
    BY <1>4 DEF Settling
  <2>2. call[t].num \in Calls /\ call[t].num # f.call
    BY <1>4, <2>1, NumberFacts, FrameFacts DEF LockDiscipline, Unwritten
  <2>3. ~OnWire(call[t].num) /\ ~Logged(call[t].num)
    BY <2>1 DEF OnePlace, Unwritten
  <2>4. /\ \A d \in Conns : \A i \in 1..Len(c2s'[d]) : c2s'[d][i].call # call[t].num
        /\ \A d \in Conns : job'[d].call # call[t].num
    BY <1>2, <2>2, <2>3 DEF OnWire
  <2> QED
    BY <2>1, <2>3, <2>4 DEF OnWire, Logged
<1>5. ASSUME NEW n \in Calls
      PROVE  /\ OnWire(n)' \/ Logged(n)' => n <= calls'
             /\ ~(OnWire(n)' /\ Logged(n)')
  <2>1. Logged(n)' <=> Logged(n)
    BY DEF Logged
  <2>2. CASE n = f.call
    BY <2>1, <2>2, FrameFacts, NumberFacts DEF OnePlace
  <2>3. CASE n # f.call
    BY <1>3, <2>1, <2>3 DEF OnePlace
  <2> QED
    BY <2>2, <2>3
<1>6. ASSUME NEW d \in Conns, NEW e \in Conns,
             NEW i \in 1..Len(c2s'[d]), NEW j \in 1..Len(c2s'[e]),
             c2s'[d][i] # Torn, c2s'[d][i].call = c2s'[e][j].call
      PROVE  d = e /\ i = j
  <2>1. c2s'[d][i].call \in Calls
    BY <1>1, <1>2, <1>6, FrameFacts, NumberFacts
  <2>2. CASE i \in 1..Len(c2s[d]) /\ c2s'[d][i] = c2s[d][i]
    <3>1. c2s[d][i].call # f.call
      BY <1>6, <2>1, <2>2, FrameFacts, NumberFacts DEF OnWire
    <3> QED
      BY <1>2, <1>6, <2>2, <3>1 DEF OnePlace
  <2>3. CASE d = c /\ i = Len(c2s[c]) + 1 /\ c2s'[d][i] = f
    <3>1. ~OnWire(f.call)
      BY <1>6, <2>3
    <3> QED
      BY <1>2, <1>6, <2>3, <3>1 DEF OnWire
  <2> QED
    BY <1>2, <2>2, <2>3
<1>7. ASSUME NEW d \in Conns, NEW e \in Conns, job'[d] # NoFrame
      PROVE  /\ job'[d].call = job'[e].call => d = e
             /\ \A i \in 1..Len(c2s'[e]) : c2s'[e][i].call # job'[d].call
  <2>1. job[d] # NoFrame /\ job[d].call \in Calls
    BY <1>7, NumberFacts
  <2>2. job[d].call # f.call
    BY <2>1, NumberFacts, FrameFacts DEF OnWire
  <2> QED
    BY <1>2, <2>1, <2>2 DEF OnePlace
<1> QED
  BY ThreadsApart, <1>4, <1>5, <1>6, <1>7 DEF OnePlace, Unwritten

\* A worker that takes the next frame from its stream keeps OnePlace.
LEMMA Taking ==
  ASSUME TypeOK, LockDiscipline, ConnDiscipline, OnePlace, NEW c \in Conns,
         ReadRequest(c)
  PROVE  OnePlace'
<1> DEFINE q == c2s[c]
<1>1. /\ q \in Seq(AnyFrame) /\ q # <<>> /\ q[1] # Torn /\ q[1] \in AnyFrame
      /\ c2s'[c] = Tail(q) /\ job'[c] = q[1] /\ job[c] = NoFrame
      /\ \A d \in Conns : d # c => c2s'[d] = c2s[d] /\ job'[d] = job[d]
      /\ UNCHANGED <<call, pc, calls, recorded>>
  <2>1. q \in Seq(AnyFrame) /\ q # <<>> /\ Head(q) # Torn
    BY DEF ReadRequest, TypeOK
  <2>2. Head(q) = q[1] /\ 1 \in 1..Len(q) /\ q[1] \in AnyFrame
    BY <2>1
  <2>3. worker[c] = "reading" /\ job[c] = NoFrame
    BY DEF ReadRequest, ConnDiscipline
  <2> QED
    BY <2>1, <2>2, <2>3 DEF ReadRequest, TypeOK
<1> DEFINE from(d, i) == IF d = c THEN i + 1 ELSE i
<1>2. ASSUME NEW d \in Conns, NEW i \in 1..Len(c2s'[d])
      PROVE  /\ from(d, i) \in 1..Len(c2s[d])
             /\ c2s'[d][i] = c2s[d][from(d, i)]
             /\ d = c => from(d, i) # 1
  <2>1. CASE d = c
    <3>1. c2s'[d] = Tail(c2s[d]) /\ c2s[d] \in Seq(AnyFrame) /\ c2s[d] # <<>>
      BY <1>1, <2>1
    <3> QED
      BY <2>1, <3>1, TailAt
  <2>2. CASE d # c
    BY <1>1, <2>2
  <2> QED
    BY <2>1, <2>2
<1>3. q[1].call \in Calls /\ 1 \in 1..Len(q)
  BY <1>1, FrameFacts
<1>4. ASSUME NEW n \in Calls, OnWire(n)' PROVE OnWire(n)
  BY <1>1, <1>2, <1>3, <1>4 DEF OnWire
<1>5. \A n : Logged(n)' <=> Logged(n)
  BY <1>1 DEF Logged
<1>6. ASSUME NEW t \in Threads, Unwritten(t)'
      PROVE  ~OnWire(call[t].num)' /\ ~Logged(call[t].num)'
  <2>1. call'[t] = call[t] /\ Unwritten(t) /\ call[t].num \in Calls
    BY <1>1, <1>6, NumberFacts DEF LockDiscipline, Unwritten
  <2>2. ~OnWire(call[t].num) /\ ~Logged(call[t].num)
    BY <2>1 DEF OnePlace, Unwritten
  <2>3. /\ \A d \in Conns : \A i \in 1..Len(c2s'[d]) : c2s'[d][i].call # call[t].num
        /\ \A d \in Conns : job'[d].call # call[t].num
    <3>1. q[1].call # call[t].num
      BY <1>3, <2>2 DEF OnWire
    <3> HIDE DEF from
    <3> QED
      BY <1>1, <1>2, <2>2, <3>1 DEF OnWire
  <2> QED
    BY <1>1, <2>1, <2>2, <2>3 DEF OnWire, Logged
<1>7. ASSUME NEW d \in Conns, NEW e \in Conns,
             NEW i \in 1..Len(c2s'[d]), NEW j \in 1..Len(c2s'[e]),
             c2s'[d][i] # Torn, c2s'[d][i].call = c2s'[e][j].call
      PROVE  d = e /\ i = j
  <2>1. d = e /\ from(d, i) = from(e, j)
    <3>1. PICK k \in 1..Len(c2s[d]) : k = from(d, i) /\ c2s'[d][i] = c2s[d][k]
      BY <1>2
    <3>2. PICK l \in 1..Len(c2s[e]) : l = from(e, j) /\ c2s'[e][j] = c2s[e][l]
      BY <1>2
    <3>3. d = e /\ k = l
      BY <1>7, <3>1, <3>2 DEF OnePlace
    <3> QED
      BY <3>1, <3>2, <3>3
  <2> QED
    BY <2>1
<1>8. ASSUME NEW d \in Conns, NEW e \in Conns, job'[d] # NoFrame
      PROVE  /\ job'[d].call = job'[e].call => d = e
             /\ \A i \in 1..Len(c2s'[e]) : c2s'[e][i].call # job'[d].call
  <2>1. CASE d = c
    <3>1. e # c => job[e].call # q[1].call
      BY <1>1, <1>3, FrameFacts, NumberFacts DEF OnePlace
    <3>2. \A i \in 1..Len(c2s'[e]) : c2s'[e][i].call # q[1].call
      <4> TAKE i \in 1..Len(c2s'[e])
      <4>1. PICK k \in 1..Len(c2s[e]) :
              c2s'[e][i] = c2s[e][k] /\ (e = c => k # 1)
        BY <1>2
      <4> QED
        BY <1>1, <1>3, <4>1 DEF OnePlace
    <3> QED
      BY <1>1, <2>1, <3>1, <3>2
  <2>2. CASE d # c
    <3>1. job[d] # NoFrame /\ job'[d] = job[d] /\ q[1].call # job[d].call
      BY <1>1, <1>3, <1>8, <2>2 DEF OnePlace
    <3> QED
      BY <1>1, <1>2, <2>2, <3>1 DEF OnePlace
  <2> QED
    BY <2>1, <2>2
<1>9. /\ \A t \in Threads : call'[t].num <= calls'
      /\ \A t, u \in Threads :
           call'[t] # NoCall /\ call'[t].num = call'[u].num => t = u
      /\ \A n \in Calls : (OnWire(n)' \/ Logged(n)' => n <= calls')
                          /\ ~(OnWire(n)' /\ Logged(n)')
  BY <1>1, <1>4, <1>5 DEF OnePlace
<1> QED
  BY <1>6, <1>7, <1>8, <1>9 DEF OnePlace, Unwritten
\* A worker that gives a commit to the logger keeps OnePlace, and gives it
\* there for the first time.
LEMMA Logging ==
  ASSUME TypeOK, LockDiscipline, ConnDiscipline, OnePlace, RecordedOnce,
         NEW c \in Conns, HandleCommit(c)
  PROVE  OnePlace' /\ RecordedOnce'
<1> DEFINE n == job[c].call
<1>1. /\ n \in Calls /\ job[c] # NoFrame /\ recorded \in Seq(Calls)
      /\ recorded' = Append(recorded, n)
      /\ job'[c] = NoFrame
      /\ \A d \in Conns : d # c => job'[d] = job[d]
      /\ UNCHANGED <<call, pc, calls, c2s>>
  <2>1. job[c] # NoFrame
    BY DEF HandleCommit, ConnDiscipline
  <2> QED
    BY <2>1, NumberFacts DEF HandleCommit, TypeOK
<1>2. OnWire(n) /\ ~Logged(n) /\ n <= calls
  BY <1>1 DEF OnWire, OnePlace
<1> HIDE DEF n
<1>3. /\ Len(recorded') = Len(recorded) + 1 /\ Len(recorded) \in Nat
      /\ \A i \in 1..Len(recorded) : recorded'[i] = recorded[i]
      /\ recorded'[Len(recorded) + 1] = n
  BY <1>1
<1>4. RecordedOnce'
  BY <1>2, <1>3 DEF RecordedOnce, Logged
<1>5. \A m : Logged(m)' => Logged(m) \/ m = n
  BY <1>3 DEF Logged
<1>6. ASSUME NEW m \in Calls, OnWire(m)' PROVE OnWire(m) /\ m # n
  <2>1. CASE \E d \in Conns : \E i \in 1..Len(c2s[d]) : c2s[d][i].call = m
    BY <1>1, <2>1 DEF OnWire, OnePlace, n
  <2>2. CASE \E d \in Conns : job'[d].call = m
    BY <1>1, <1>6, <2>2, FrameFacts, NumberFacts DEF OnWire, OnePlace, n
  <2> QED
    BY <1>1, <1>6, <2>1, <2>2 DEF OnWire
<1>7. ASSUME NEW t \in Threads, Unwritten(t)'
      PROVE  ~OnWire(call[t].num)' /\ ~Logged(call[t].num)'
  <2>1. call'[t] = call[t] /\ Unwritten(t) /\ call[t].num \in Calls
    BY <1>1, <1>7, NumberFacts DEF LockDiscipline, Unwritten
  <2>2. ~OnWire(call[t].num) /\ ~Logged(call[t].num)
    BY <2>1 DEF OnePlace, Unwritten
  <2>3. call[t].num # n
    BY <1>2, <2>2
  <2>4. \A d \in Conns : job'[d].call # call[t].num
    BY <1>1, <2>1, <2>2, FrameFacts, NumberFacts DEF OnWire
  <2>5. \A i \in 1..Len(recorded') : recorded'[i] # call[t].num
    BY <1>3, <2>2, <2>3 DEF Logged
  <2> QED
    BY <1>1, <2>1, <2>2, <2>4, <2>5 DEF OnWire, Logged
<1>8. ASSUME NEW m \in Calls
      PROVE  /\ OnWire(m)' \/ Logged(m)' => m <= calls'
             /\ ~(OnWire(m)' /\ Logged(m)')
  <2>1. (OnWire(m) \/ Logged(m) => m <= calls) /\ ~(OnWire(m) /\ Logged(m))
    BY DEF OnePlace
  <2>2. (Logged(m)' => Logged(m) \/ m = n) /\ (OnWire(m)' => OnWire(m) /\ m # n)
    BY <1>5, <1>6
  <2> QED
    BY <1>1, <1>2, <2>1, <2>2
<1>9. ASSUME NEW d \in Conns, NEW e \in Conns, job'[d] # NoFrame
      PROVE  /\ job'[d].call = job'[e].call => d = e
             /\ \A i \in 1..Len(c2s'[e]) : c2s'[e][i].call # job'[d].call
  <2>1. d # c /\ job'[d] = job[d] /\ job[d] # NoFrame /\ job[d].call \in Calls
    BY <1>1, <1>9, NumberFacts
  <2>2. job'[d].call = job'[e].call => d = e
    <3>1. job[d].call # 0
      BY <2>1, NumberFacts
    <3>2. e = c => job'[e].call = 0
      BY <1>1, FrameFacts
    <3> QED
      BY <1>1, <2>1, <3>1, <3>2 DEF OnePlace
  <2>3. \A i \in 1..Len(c2s[e]) : c2s[e][i].call # job[d].call
    BY <2>1 DEF OnePlace
  <2> QED
    BY <1>1, <2>1, <2>2, <2>3
<1> QED
  BY <1>1, <1>4, <1>7, <1>8, <1>9 DEF OnePlace, Unwritten

\* A new call has a number no frame, worker, log entry or thread has.
LEMMA Beginning ==
  ASSUME TypeOK, LockDiscipline, OnePlace, NEW t \in Threads, NEW k \in Kinds,
         Begin(t, k)
  PROVE  OnePlace'
<1>1. /\ calls \in Nat /\ calls' = calls + 1 /\ calls + 1 \in Calls
      /\ call'[t] = [kind |-> k, num |-> calls + 1]
      /\ \A u \in Threads : u # t => call'[u] = call[u] /\ pc'[u] = pc[u]
      /\ UNCHANGED <<c2s, job, recorded>>
  BY BoundAssumption DEF Begin, TypeOK, Calls
<1>2. call'[t] # NoCall /\ call'[t].num = calls + 1
  BY <1>1, CallFacts
<1>3. ~OnWire(calls + 1) /\ ~Logged(calls + 1)
  BY <1>1 DEF OnePlace
<1>4. \A u \in Threads : call'[u].num <= calls'
  BY <1>1, <1>2, NumberFacts DEF OnePlace
<1>5. \A u, v \in Threads :
        call'[u] # NoCall /\ call'[u].num = call'[v].num => u = v
  BY <1>1, <1>2, NumberFacts DEF OnePlace
<1>6. /\ \A n : OnWire(n)' <=> OnWire(n)
      /\ \A n : Logged(n)' <=> Logged(n)
  BY <1>1 DEF OnWire, Logged
<1>7. \A n \in Calls : (OnWire(n)' \/ Logged(n)' => n <= calls')
                       /\ ~(OnWire(n)' /\ Logged(n)')
  BY <1>1, <1>6 DEF OnePlace, Calls
<1>8. ASSUME NEW u \in Threads, Unwritten(u)'
      PROVE  ~OnWire(call[u].num)' /\ ~Logged(call[u].num)'
  <2>1. CASE u = t
    BY <1>1, <1>2, <1>3, <2>1 DEF OnWire, Logged
  <2>2. CASE u # t
    <3>1. ~OnWire(call[u].num) /\ ~Logged(call[u].num) /\ call'[u] = call[u]
      BY <1>1, <1>8, <2>2 DEF OnePlace, Unwritten
    <3> QED
      BY <1>1, <3>1 DEF OnWire, Logged
  <2> QED
    BY <2>1, <2>2
<1> QED
  BY <1>1, <1>4, <1>5, <1>7, <1>8 DEF OnePlace, Unwritten
\* Every step keeps every call in one place.
LEMMA OnePlaceStep ==
  TypeOK /\ LockDiscipline /\ ConnDiscipline /\ OnePlace /\ RecordedOnce /\ [Next]_vars => OnePlace'
<1> SUFFICES ASSUME TypeOK, LockDiscipline, ConnDiscipline, OnePlace,
     RecordedOnce, [Next]_vars PROVE OnePlace'
  OBVIOUS
<1>1. ASSUME NEW t \in Threads, NEW k \in Kinds, Begin(t, k) PROVE OnePlace'
  BY <1>1, Beginning
<1>2. ASSUME NEW t \in Threads, Lock(t) PROVE OnePlace'
  <2>1. /\ calls' = calls /\ recorded' = recorded
        /\ \A d \in Conns : c2s'[d] \in {c2s[d], <<>>} /\ job'[d] \in {job[d], NoFrame}
    BY <1>2 DEF Lock, TypeOK
  <2>2. Settling
    BY <1>2 DEF Lock, Settling, Unwritten, Return, TypeOK
  <2> QED
    BY <2>1, <2>2, Dropping
<1>3. ASSUME NEW t \in Threads, ResetConnection(t) PROVE OnePlace'
  <2>1. /\ calls' = calls /\ recorded' = recorded
        /\ \A d \in Conns : c2s'[d] \in {c2s[d], <<>>} /\ job'[d] \in {job[d], NoFrame}
    BY <1>3 DEF ResetConnection, TypeOK
  <2>2. Settling
    BY <1>3 DEF ResetConnection, Settling, Unwritten, Return, TypeOK
  <2> QED
    BY <2>1, <2>2, Dropping
<1>4. ASSUME NEW t \in Threads, EnsureConnected(t) PROVE OnePlace'
  <2>1. /\ calls' = calls /\ recorded' = recorded
        /\ \A d \in Conns : c2s'[d] \in {c2s[d], <<>>} /\ job'[d] \in {job[d], NoFrame}
    BY <1>4 DEF EnsureConnected, TypeOK
  <2>2. Settling
    BY <1>4 DEF EnsureConnected, Settling, Unwritten, Return, TypeOK
  <2> QED
    BY <2>1, <2>2, Dropping
<1>5. ASSUME NEW t \in Threads, ConnectFails(t) PROVE OnePlace'
  <2>1. /\ calls' = calls /\ recorded' = recorded
        /\ \A d \in Conns : c2s'[d] \in {c2s[d], <<>>} /\ job'[d] \in {job[d], NoFrame}
    BY <1>5 DEF ConnectFails, TypeOK
  <2>2. Settling
    BY <1>5 DEF ConnectFails, Settling, Unwritten, Return, TypeOK
  <2> QED
    BY <2>1, <2>2, Dropping
<1>6. ASSUME NEW t \in Threads, Write(t) PROVE OnePlace'
  <2>1. /\ calls' = calls /\ recorded' = recorded /\ job' = job
        /\ c2s' = [c2s EXCEPT ![conn] = Append(@, Request(t))]
        /\ call[t].kind \in Asks \cup {"RecordCommit"} /\ pc[t] \in {"writing", "blocked"}
    BY <1>6 DEF Write
  <2>2. /\ Settling /\ ~Unwritten(t)'
    BY <1>6 DEF Write, Settling, Unwritten, Return, TypeOK
  <2>3. /\ conn \in Conns /\ Request(t) \in AnyFrame
        /\ Request(t).call = call[t].num /\ call[t].num \in Calls
    BY <2>1, LiveConn, RequestFacts, NumberFacts DEF LockDiscipline
  <2>4. /\ call[t].num <= calls /\ call[t] # NoCall
        /\ ~OnWire(call[t].num) /\ ~Logged(call[t].num)
    BY <2>1 DEF OnePlace, LockDiscipline
  <2>5. ASSUME NEW u \in Threads, Unwritten(u)' PROVE call[u].num # call[t].num
    <3>1. u # t
      BY <2>2, <2>5
    <3> QED
      BY <2>4, <3>1 DEF OnePlace
  <2>6. \A u \in Threads : Unwritten(u)' => call[u].num # Request(t).call
    BY <2>3, <2>5
  <2>7. /\ Request(t).call \in Calls /\ Request(t).call <= calls
        /\ ~OnWire(Request(t).call) /\ ~Logged(Request(t).call)
    BY <2>3, <2>4
  <2> QED
    BY <2>1, <2>2, <2>3, <2>6, <2>7, Appending
<1>7. ASSUME NEW t \in Threads, WriteTimesOut(t) PROVE OnePlace'
  <2>1. calls' = calls /\ recorded' = recorded /\ job' = job /\ Return(t, 0)
    BY <1>7 DEF WriteTimesOut
  <2>2. Settling
    BY <2>1 DEF Settling, Unwritten, Return, TypeOK
  <2>3. CASE UNCHANGED c2s
    BY <2>1, <2>2, <2>3, Dropping
  <2>4. CASE c2s' = [c2s EXCEPT ![conn] = Append(@, Torn)]
    <3>1. conn \in Conns /\ Torn \in AnyFrame
      BY <1>7, LiveConn, FrameFacts DEF WriteTimesOut, LockDiscipline
    <3> QED
      BY <2>1, <2>2, <2>4, <3>1, Appending
  <2> QED
    BY <1>7, <2>3, <2>4 DEF WriteTimesOut
<1>8. ASSUME NEW t \in Threads, WriteBrokenPipe(t) PROVE OnePlace'
  <2>1. /\ calls' = calls /\ recorded' = recorded
        /\ \A d \in Conns : c2s'[d] \in {c2s[d], <<>>} /\ job'[d] \in {job[d], NoFrame}
    BY <1>8 DEF WriteBrokenPipe, HostDies, TypeOK
  <2>2. Settling
    BY <1>8 DEF WriteBrokenPipe, HostDies, Settling, Unwritten, Return, TypeOK
  <2> QED
    BY <2>1, <2>2, Dropping
<1>9. ASSUME NEW t \in Threads, ReadReply(t) PROVE OnePlace'
  <2>1. /\ calls' = calls /\ recorded' = recorded
        /\ c2s' = c2s /\ job' = job
    BY <1>9 DEF ReadReply
  <2>2. Return(t, Head(s2c[conn]).call) \/ Return(t, 0)
    BY <1>9, ReadReplyCases
  <2>3. Settling
    BY <2>2 DEF Settling, Unwritten, Return, TypeOK
  <2> QED
    BY <2>1, <2>3, Dropping
<1>10. ASSUME NEW t \in Threads, ReadFails(t) PROVE OnePlace'
  <2>1. /\ calls' = calls /\ recorded' = recorded
        /\ \A d \in Conns : c2s'[d] \in {c2s[d], <<>>} /\ job'[d] \in {job[d], NoFrame}
    BY <1>10 DEF ReadFails, TypeOK
  <2>2. Settling
    BY <1>10 DEF ReadFails, Settling, Unwritten, Return, TypeOK
  <2> QED
    BY <2>1, <2>2, Dropping
<1>11. CASE HostExit
  <2>1. /\ calls' = calls /\ recorded' = recorded
        /\ \A d \in Conns : c2s'[d] \in {c2s[d], <<>>} /\ job'[d] \in {job[d], NoFrame}
    BY <1>11 DEF HostExit, HostDies, TypeOK
  <2>2. Settling
    BY <1>11 DEF HostExit, HostDies, Settling, Unwritten, Return, TypeOK
  <2> QED
    BY <2>1, <2>2, Dropping
<1>12. CASE HostStart
  <2>1. /\ calls' = calls /\ recorded' = recorded
        /\ \A d \in Conns : c2s'[d] \in {c2s[d], <<>>} /\ job'[d] \in {job[d], NoFrame}
    BY <1>12 DEF HostStart, TypeOK
  <2>2. Settling
    BY <1>12 DEF HostStart, Settling, Unwritten, Return, TypeOK
  <2> QED
    BY <2>1, <2>2, Dropping
<1>13. ASSUME NEW c \in Conns, Accept(c) PROVE OnePlace'
  <2>1. /\ calls' = calls /\ recorded' = recorded
        /\ \A d \in Conns : c2s'[d] \in {c2s[d], <<>>} /\ job'[d] \in {job[d], NoFrame}
    BY <1>13 DEF Accept, TypeOK
  <2>2. Settling
    BY <1>13 DEF Accept, Settling, Unwritten, Return, TypeOK
  <2> QED
    BY <2>1, <2>2, Dropping
<1>14. ASSUME NEW c \in Conns, ReadRequest(c) PROVE OnePlace'
  BY <1>14, Taking
<1>15. ASSUME NEW c \in Conns, GiveUpReading(c) PROVE OnePlace'
  <2>1. /\ calls' = calls /\ recorded' = recorded
        /\ \A d \in Conns : c2s'[d] \in {c2s[d], <<>>} /\ job'[d] \in {job[d], NoFrame}
    BY <1>15 DEF GiveUpReading, TypeOK
  <2>2. Settling
    BY <1>15 DEF GiveUpReading, Settling, Unwritten, Return, TypeOK
  <2> QED
    BY <2>1, <2>2, Dropping
<1>16. ASSUME NEW c \in Conns, HandleCommit(c) PROVE OnePlace'
  BY <1>16, Logging
<1>17. ASSUME NEW c \in Conns, HandleAsk(c) PROVE OnePlace'
  <2>1. /\ calls' = calls /\ recorded' = recorded
        /\ \A d \in Conns : c2s'[d] \in {c2s[d], <<>>} /\ job'[d] \in {job[d], NoFrame}
    BY <1>17 DEF HandleAsk, TypeOK
  <2>2. Settling
    BY <1>17 DEF HandleAsk, Settling, Unwritten, Return, TypeOK
  <2> QED
    BY <2>1, <2>2, Dropping
<1>18. ASSUME NEW c \in Conns, Reply(c) PROVE OnePlace'
  <2>1. /\ calls' = calls /\ recorded' = recorded
        /\ \A d \in Conns : c2s'[d] \in {c2s[d], <<>>} /\ job'[d] \in {job[d], NoFrame}
    BY <1>18 DEF Reply, TypeOK
  <2>2. Settling
    BY <1>18 DEF Reply, Settling, Unwritten, Return, TypeOK
  <2> QED
    BY <2>1, <2>2, Dropping
<1>19. ASSUME NEW c \in Conns, ReplyFails(c) PROVE OnePlace'
  <2>1. /\ calls' = calls /\ recorded' = recorded
        /\ \A d \in Conns : c2s'[d] \in {c2s[d], <<>>} /\ job'[d] \in {job[d], NoFrame}
    BY <1>19 DEF ReplyFails, TypeOK
  <2>2. Settling
    BY <1>19 DEF ReplyFails, Settling, Unwritten, Return, TypeOK
  <2> QED
    BY <2>1, <2>2, Dropping
<1>20. ASSUME NEW c \in Conns, CloseConnection(c) PROVE OnePlace'
  <2>1. /\ calls' = calls /\ recorded' = recorded
        /\ \A d \in Conns : c2s'[d] \in {c2s[d], <<>>} /\ job'[d] \in {job[d], NoFrame}
    BY <1>20 DEF CloseConnection, TypeOK
  <2>2. Settling
    BY <1>20 DEF CloseConnection, Settling, Unwritten, Return, TypeOK
  <2> QED
    BY <2>1, <2>2, Dropping
<1>21. CASE Crash
  <2>1. /\ calls' = calls /\ recorded' = recorded
        /\ \A d \in Conns : c2s'[d] \in {c2s[d], <<>>} /\ job'[d] \in {job[d], NoFrame}
    BY <1>21 DEF Crash, TypeOK
  <2>2. Settling
    BY <1>21 DEF Crash, Settling, Unwritten, Return, TypeOK
  <2> QED
    BY <2>1, <2>2, Dropping
<1>22. CASE Restart
  <2>1. /\ calls' = calls /\ recorded' = recorded
        /\ \A d \in Conns : c2s'[d] \in {c2s[d], <<>>} /\ job'[d] \in {job[d], NoFrame}
    BY <1>22 DEF Restart, TypeOK
  <2>2. Settling
    BY <1>22 DEF Restart, Settling, Unwritten, Return, TypeOK
  <2> QED
    BY <2>1, <2>2, Dropping
<1>23. CASE UNCHANGED vars
  <2>1. /\ calls' = calls /\ recorded' = recorded
        /\ \A d \in Conns : c2s'[d] \in {c2s[d], <<>>} /\ job'[d] \in {job[d], NoFrame}
    BY <1>23 DEF vars, TypeOK
  <2>2. Settling
    BY <1>23 DEF vars, Settling, Unwritten, Return, TypeOK
  <2> QED
    BY <2>1, <2>2, Dropping
<1>24. ASSUME NEW t \in Threads, WriteBlocks(t) PROVE OnePlace'
  <2>1. /\ calls' = calls /\ recorded' = recorded
        /\ \A d \in Conns : c2s'[d] \in {c2s[d], <<>>} /\ job'[d] \in {job[d], NoFrame}
    BY <1>24 DEF WriteBlocks, TypeOK
  <2>2. Settling
    BY <1>24 DEF WriteBlocks, Settling, Unwritten, TypeOK
  <2> QED
    BY <2>1, <2>2, Dropping
<1> QED
  BY <1>1, <1>2, <1>3, <1>4, <1>5, <1>6, <1>7, <1>8, <1>9, <1>10, <1>11,
     <1>12, <1>13, <1>14, <1>15, <1>16, <1>17, <1>18, <1>19, <1>20, <1>21,
     <1>22, <1>23, <1>24
  DEF Next, InCall, Work

\* Every step keeps the log free of duplicates.
LEMMA RecordedStep ==
  TypeOK /\ LockDiscipline /\ ConnDiscipline /\ OnePlace /\ RecordedOnce
    /\ [Next]_vars => RecordedOnce'
<1> SUFFICES ASSUME TypeOK, LockDiscipline, ConnDiscipline, OnePlace,
                    RecordedOnce, [Next]_vars
             PROVE  RecordedOnce'
  OBVIOUS
<1>1. CASE \E c \in Conns : HandleCommit(c)
  BY <1>1, Logging
<1>2. CASE recorded' = recorded
  BY <1>2 DEF RecordedOnce
<1>3. recorded' = recorded \/ \E c \in Conns : HandleCommit(c)
  BY DEF vars, Next, InCall, Work, Begin, Lock, ResetConnection, EnsureConnected,
     ConnectFails, Write, WriteBlocks, WriteTimesOut, WriteBrokenPipe, ReadReply, ReadFails,
     HostExit, HostStart, Accept, ReadRequest, GiveUpReading, HandleAsk, Reply,
     ReplyFails, CloseConnection, Crash, Restart
<1> QED
  BY <1>1, <1>2, <1>3

-----------------------------------------------------------------------------
(***************************************************************************)
(* The inductive invariant and what follows from it.                       *)
(***************************************************************************)

\* The initial state has all parts of the invariant.
LEMMA InitIndInv == Init => IndInv
<1> SUFFICES ASSUME Init PROVE IndInv
  OBVIOUS
<1>1. TypeOK
  BY CallFacts, FrameFacts, RetFacts, IdFacts, BoundAssumption, IdAssumption
  DEF Init, TypeOK, NoRet, Ids, Open
<1>2. LockDiscipline
  BY ThreadsAssumption DEF Init, LockDiscipline
<1>3. ConnDiscipline
  BY BoundAssumption DEF Init, ConnDiscipline, Conns
<1>4. OnePlace
  BY CallFacts, FrameFacts, BoundAssumption
  DEF Init, OnePlace, OnWire, Logged, Calls
<1>5. OneReplyOwed /\ FramingInSync
  BY DEF Init, OneReplyOwed, FramingInSync
<1>6. AnswersOwnCall /\ RecordedOnce
  BY DEF Init, AnswersOwnCall, RecordedOnce, NoRet
<1> QED
  BY <1>1, <1>2, <1>3, <1>4, <1>5, <1>6 DEF IndInv

\* Every step keeps the invariant.
LEMMA NextIndInv == IndInv /\ [Next]_vars => IndInv'
  BY TypeStep, LockStep, ConnStep, OnePlaceStep, OneReplyStep, FramingStep,
     AnswersStep, RecordedStep
  DEF IndInv

\* The invariant holds in every reachable state, for every number of threads,
\* calls, connections, crashes and exits and every id space.
THEOREM Inductive == Spec => []IndInv
  BY InitIndInv, NextIndInv, PTL DEF Spec

\* The state variables keep to their types.
THEOREM TypeCorrect == Spec => []TypeOK
<1>1. IndInv => TypeOK
  BY DEF IndInv
<1> QED
  BY <1>1, Inductive, PTL

\* Whatever a call of the client returns is the daemon's answer to that call,
\* though Rerank never compares the request id (client.cc Rerank).
THEOREM AnswersCorrect == Spec => []AnswersOwnCall
<1>1. IndInv => AnswersOwnCall
  BY DEF IndInv
<1> QED
  BY <1>1, Inductive, PTL

\* The live connection owes at most one reply, to the thread that waits for
\* it: no late reply is ever left on it (client.cc ResetLocked).
THEOREM OneReply == Spec => []OneReplyOwed
<1>1. IndInv => OneReplyOwed
  BY DEF IndInv
<1> QED
  BY <1>1, Inductive, PTL

\* A frame cut short is the last one written to its stream, on both sides.
THEOREM Framing == Spec => []FramingInSync
<1>1. IndInv => FramingInSync
  BY DEF IndInv
<1> QED
  BY <1>1, Inductive, PTL

\* No commit is given to the logger twice (server.cc HandleConnection).
THEOREM LoggedOnce == Spec => []RecordedOnce
<1>1. IndInv => RecordedOnce
  BY DEF IndInv
<1> QED
  BY <1>1, Inductive, PTL
-----------------------------------------------------------------------------
(***************************************************************************)
(* Ipc implements RerankService: what the abstract service calls offered   *)
(* is with a thread, with a worker or in a stream, and a step of Ipc moves *)
(* it, loses it or gives it to the logger.                                 *)
(***************************************************************************)

\* A commit that waits to be read from a stream.
Streamed(n) == \E c \in Conns : n \in CommitsIn(c2s[c])

\* A commit that a thread, or a worker, has in hand.
Called(n) == \E t \in Threads : call[t].kind = "RecordCommit" /\ call[t].num = n
Held(n)   == \E c \in Conns : job[c].kind = "RecordCommit" /\ job[c].call = n

LEMMA OfferedParts ==
  /\ \A n : n \in Offered <=> Called(n) \/ Held(n) \/ Streamed(n)
  /\ \A n : n \in Offered' <=> Called(n)' \/ Held(n)' \/ Streamed(n)'
  BY DEF Offered, Called, Held, Streamed

\* The commits of a stream after a frame is appended, and before the first is
\* taken.
LEMMA AppendCommits ==
  ASSUME NEW q \in Seq(AnyFrame), NEW f \in AnyFrame, NEW n
  PROVE  n \in CommitsIn(Append(q, f)) <=>
           n \in CommitsIn(q) \/ (f.kind = "RecordCommit" /\ n = f.call)
<1>1. Len(Append(q, f)) = Len(q) + 1 /\ Len(q) \in Nat
  BY AppendAt
<1>2. \A i \in 1..(Len(q) + 1) :
        Append(q, f)[i] = IF i = Len(q) + 1 THEN f ELSE q[i]
  BY AppendAt
<1> QED
  BY <1>1, <1>2 DEF CommitsIn

LEMMA TailCommits ==
  ASSUME NEW q \in Seq(AnyFrame), q # <<>>, NEW n
  PROVE  n \in CommitsIn(q) <=>
           \/ n \in CommitsIn(Tail(q))
           \/ Head(q).kind = "RecordCommit" /\ n = Head(q).call
<1>1. /\ Head(q) = q[1] /\ Len(q) \in Nat \ {0} /\ Len(Tail(q)) = Len(q) - 1
      /\ \A i \in 1..Len(Tail(q)) : Tail(q)[i] = q[i + 1] /\ i + 1 \in 1..Len(q)
  BY TailAt
<1>2. ASSUME n \in CommitsIn(q)
      PROVE  \/ n \in CommitsIn(Tail(q))
             \/ Head(q).kind = "RecordCommit" /\ n = Head(q).call
  <2>1. PICK i \in 1..Len(q) : q[i].kind = "RecordCommit" /\ q[i].call = n
    BY <1>2 DEF CommitsIn
  <2>2. i = 1 \/ (i - 1 \in 1..Len(Tail(q)) /\ Tail(q)[i - 1] = q[i])
    BY <1>1, <2>1
  <2> QED
    BY <1>1, <2>1, <2>2 DEF CommitsIn
<1>3. ASSUME n \in CommitsIn(Tail(q)) PROVE n \in CommitsIn(q)
  BY <1>1, <1>3 DEF CommitsIn
<1>4. ASSUME Head(q).kind = "RecordCommit", n = Head(q).call PROVE n \in CommitsIn(q)
  <2>1. 1 \in 1..Len(q) /\ q[1].kind = "RecordCommit" /\ q[1].call = n
    BY <1>1, <1>4
  <2> QED
    BY <2>1 DEF CommitsIn
<1> QED
  BY <1>2, <1>3, <1>4

\* What is in a stream, or with a worker, is on the wire.
LEMMA StreamedOnWire ==
  \A n : n # 0 /\ (Streamed(n) \/ Held(n)) => OnWire(n)
  BY DEF Streamed, Held, OnWire, CommitsIn

\* Steps that leave calls, workers and streams alone offer the same commits.
LEMMA SameOffered ==
  ASSUME \A n : Called(n)' <=> Called(n), \A n : Held(n)' <=> Held(n),
         \A n : Streamed(n)' <=> Streamed(n)
  PROVE  Offered' = Offered
<1>1. \A n : n \in Offered' <=> n \in Offered
  BY OfferedParts
<1> QED
  BY <1>1

\* A call that comes back has written its commit (w) or takes it away with it:
\* it was nowhere else.
LEMMA ReturnMaps ==
  ASSUME TypeOK, LockDiscipline, OnePlace, NEW t \in Threads, NEW w \in BOOLEAN,
         NEW a \in {0} \cup (IF call[t].kind \in Asks THEN {call[t].num} ELSE {}),
         pc[t] \in {"connecting", "writing", "blocked", "reading"}, Return(t, a),
         UNCHANGED <<job, recorded, calls>>, w => call[t].kind = "RecordCommit",
         \A n : Streamed(n)' <=> Streamed(n) \/ (w /\ n = call[t].num)
  PROVE  Service!Return(t)
<1> DEFINE m == call[t].num
<1>1. call[t] # NoCall
  BY DEF LockDiscipline
<1>2. \A n : Held(n)' <=> Held(n)
  BY DEF Held
<1>3. \A u \in Threads : call'[u] = IF u = t THEN NoCall ELSE call[u]
  BY DEF Return, TypeOK
<1>4. Offered' \in {Offered, Offered \ {m}}
  <2>1. CASE call[t].kind # "RecordCommit"
    <3>1. \A n : Called(n)' <=> Called(n)
      BY <1>3, <2>1, CallFacts DEF Called
    <3> QED
      BY <1>2, <2>1, <3>1, SameOffered
  <2>2. CASE call[t].kind = "RecordCommit"
    <3>1. \A n : Called(n)' <=> Called(n) /\ n # m
      BY <1>1, <1>3, <2>2, CallFacts DEF Called, OnePlace
    <3>2. m # 0 /\ ~OnWire(m)
      <4>1. pc[t] \in {"connecting", "writing", "blocked"}
        BY <2>2 DEF LockDiscipline, Asks
      <4> QED
        BY <1>1, <4>1, NumberFacts DEF OnePlace
    <3>3. ~Held(m) /\ ~Streamed(m) /\ Called(m)
      BY <2>2, <3>2, StreamedOnWire DEF Called
    <3>4. CASE w
      <4>1. \A n : n \in Offered' <=> n \in Offered
        BY <1>2, <3>1, <3>3, <3>4, OfferedParts
      <4> QED
        BY <4>1
    <3>5. CASE ~w
      <4>1. \A n : n \in Offered' <=> n \in Offered \ {m}
        BY <1>2, <3>1, <3>3, <3>5, OfferedParts
      <4> QED
        BY <4>1
    <3> QED
      BY <3>4, <3>5
  <2> QED
    BY <2>1, <2>2
<1> QED
  BY <1>1, <1>4 DEF Return, NoCall, Asks, Service!Return, Service!NoCall, Service!Asks

\* Streams to which nothing, or a frame cut short, is added offer the same.
LEMMA SameStreamed ==
  ASSUME TypeOK,
         \/ c2s' = c2s
         \/ conn \in Conns /\ c2s' = [c2s EXCEPT ![conn] = Append(@, Torn)]
  PROVE  \A n : Streamed(n)' <=> Streamed(n)
<1>1. CASE c2s' = c2s
  BY <1>1 DEF Streamed
<1>2. CASE conn \in Conns /\ c2s' = [c2s EXCEPT ![conn] = Append(@, Torn)]
  <2>1. \A c \in Conns : c2s'[c] = IF c = conn THEN Append(c2s[c], Torn) ELSE c2s[c]
    BY <1>2 DEF TypeOK
  <2>2. \A n : n \in CommitsIn(Append(c2s[conn], Torn)) <=> n \in CommitsIn(c2s[conn])
    <3>1. c2s[conn] \in Seq(AnyFrame) /\ Torn \in AnyFrame /\ Torn.kind = "Torn"
      BY <1>2, FrameFacts DEF TypeOK
    <3> QED
      BY <3>1, AppendCommits
  <2> QED
    BY <2>1, <2>2 DEF Streamed
<1> QED
  BY <1>1, <1>2

\* Steps that lose commits, and let no new ones in.
LEMMA Losing ==
  ASSUME \A n : Called(n)' => Called(n), \A n : Held(n)' => Held(n),
         \A n : Streamed(n)' => Streamed(n)
  PROVE  Offered' \subseteq Offered
<1>1. \A n : n \in Offered' => n \in Offered
  BY OfferedParts
<1> QED
  BY <1>1

\* The abstract step, or none, for every step of a thread in a call.
ServiceStep == Service!Next \/ UNCHANGED <<calls, call, ret, Offered, recorded>>

LEMMA ReturnIsStep ==
  ASSUME NEW t \in Threads, Service!Return(t)
  PROVE  ServiceStep
  BY DEF ServiceStep, Service!Next

\* A step that changes no call, no worker and no stream is none of the service's.
LEMMA Stutters ==
  ASSUME UNCHANGED <<calls, call, ret, job, c2s, recorded>>
  PROVE  ServiceStep
<1>1. Offered' = Offered
  BY SameOffered DEF Called, Held, Streamed
<1> QED
  BY <1>1 DEF ServiceStep

\* A host that dies abandons its calls.
LEMMA DyingMaps ==
  ASSUME TypeOK, HostDies, UNCHANGED <<ret, job, c2s, calls, recorded>>
  PROVE  ServiceStep
<1>1. call' = [u \in Threads |-> NoCall]
  BY DEF HostDies
<1>2. \A n : ~Called(n)'
  BY <1>1, CallFacts DEF Called
<1>3. Offered' \subseteq Offered
  BY <1>2, Losing DEF Held, Streamed
<1> QED
  BY <1>1, <1>3 DEF ServiceStep, Service!Next, Service!Abandon, Service!NoCall, NoCall

LEMMA BeginMaps ==
  ASSUME TypeOK, LockDiscipline, NEW t \in Threads, NEW k \in Kinds, Begin(t, k)
  PROVE  ServiceStep
<1>1. call[t] = NoCall /\ UNCHANGED <<job, c2s, ret, recorded>>
  BY DEF Begin, LockDiscipline
<1>2. \A u \in Threads :
        call'[u] = IF u = t THEN [kind |-> k, num |-> calls + 1] ELSE call[u]
  BY DEF Begin, TypeOK
<1>3. \A n : Called(n)' <=> Called(n) \/ (k = "RecordCommit" /\ n = calls + 1)
  BY <1>1, <1>2, CallFacts DEF Called
<1>4. \A n : n \in Offered' <=>
               n \in (IF k = "RecordCommit" THEN Offered \cup {calls + 1} ELSE Offered)
  BY <1>1, <1>3, OfferedParts DEF Held, Streamed
<1>5. Offered' = IF k = "RecordCommit" THEN Offered \cup {calls + 1} ELSE Offered
  BY <1>4
<1>6. Service!Begin(t, k)
  BY <1>1, <1>5 DEF Begin, Service!Begin, Service!NoCall, NoCall
<1> QED
  BY <1>6 DEF ServiceStep, Service!Next

\* The frame of a commit takes it from its thread to the stream.
LEMMA WriteMaps ==
  ASSUME TypeOK, LockDiscipline, OnePlace, NEW t \in Threads, Write(t)
  PROVE  ServiceStep
<1> DEFINE f == Request(t)
<1>1. /\ conn \in Conns /\ c2s[conn] \in Seq(AnyFrame)
      /\ \A c \in Conns : c2s'[c] = IF c = conn THEN Append(c2s[c], f) ELSE c2s[c]
  BY LiveConn DEF Write, TypeOK
<1>2. f \in AnyFrame /\ f.kind = call[t].kind /\ f.call = call[t].num
  BY RequestFacts DEF Write
<1>3. \A n : Streamed(n)' <=>
               Streamed(n) \/ (call[t].kind = "RecordCommit" /\ n = call[t].num)
  <2>1. \A n : n \in CommitsIn(Append(c2s[conn], f)) <=>
                 \/ n \in CommitsIn(c2s[conn])
                 \/ call[t].kind = "RecordCommit" /\ n = call[t].num
    BY <1>1, <1>2, AppendCommits
  <2> QED
    BY <1>1, <2>1 DEF Streamed
<1>4. CASE call[t].kind \in Asks /\ UNCHANGED <<call, ret, mu>>
  <2>1. \A n : Streamed(n)' <=> Streamed(n)
    BY <1>3, <1>4 DEF Asks
  <2>2. Offered' = Offered
    BY <1>4, <2>1, SameOffered DEF Write, Called, Held
  <2> QED
    BY <1>4, <2>2 DEF Write, ServiceStep
<1>5. CASE call[t].kind = "RecordCommit" /\ Return(t, 0)
  <2>1. Service!Return(t)
    BY <1>3, <1>5, ReturnMaps DEF Write
  <2> QED
    BY <2>1, ReturnIsStep
<1> QED
  BY <1>4, <1>5 DEF Write

\* Every other way out of a call: the answer is the call's own, or none, and
\* no stream has got its commit.
LEMMA LeaveMaps ==
  ASSUME TypeOK, LockDiscipline, OnePlace, AnswersOwnCall', NEW t \in Threads,
         \/ ResetConnection(t) \/ ConnectFails(t) \/ WriteTimesOut(t)
         \/ ReadReply(t) \/ ReadFails(t)
         \/ WriteBrokenPipe(t) /\ HostIgnoresSigpipe
  PROVE  ServiceStep
<1>1. /\ pc[t] \in {"connecting", "writing", "blocked", "reading"}
      /\ UNCHANGED <<job, recorded, calls>>
  BY DEF ResetConnection, ConnectFails, WriteTimesOut, ReadReply, ReadFails,
         WriteBrokenPipe
<1>2. \A n : Streamed(n)' <=> Streamed(n)
  <2>1. \/ c2s' = c2s
        \/ pc[t] = "writing" /\ c2s' = [c2s EXCEPT ![conn] = Append(@, Torn)]
    BY DEF ResetConnection, ConnectFails, WriteTimesOut, ReadReply, ReadFails,
           WriteBrokenPipe
  <2> QED
    BY <2>1, LiveConn, SameStreamed
<1>3. \E a \in {0} \cup (IF call[t].kind \in Asks THEN {call[t].num} ELSE {}) :
        Return(t, a)
  <2>1. CASE Return(t, 0)
    BY <2>1
  <2>2. CASE ReadReply(t) /\ Return(t, Head(s2c[conn]).call)
    <3>1. ret'[t].call = call[t].num /\ ret'[t].answer = Head(s2c[conn]).call
      BY <2>2 DEF Return, TypeOK
    <3>2. Head(s2c[conn]).call \in {0, call[t].num}
      BY <3>1 DEF AnswersOwnCall
    <3>3. call[t].kind \in Asks
      BY <2>2 DEF ReadReply, LockDiscipline
    <3> QED
      BY <2>2, <3>2, <3>3
  <2> QED
    BY <2>1, <2>2, ReadReplyCases
    DEF ResetConnection, ConnectFails, WriteTimesOut, ReadFails, WriteBrokenPipe
<1>4. PICK a \in {0} \cup (IF call[t].kind \in Asks THEN {call[t].num} ELSE {}) :
        Return(t, a)
  BY <1>3
<1>5. Service!Return(t)
  <2>1. \E w \in BOOLEAN : w = FALSE
    OBVIOUS
  <2>2. PICK w \in BOOLEAN : w = FALSE
    BY <2>1
  <2> QED
    BY <1>1, <1>2, <1>4, <2>2, ReturnMaps
<1> QED
  BY <1>5, ReturnIsStep

\* A worker takes a commit from its stream into its hands.
LEMMA TakingMaps ==
  ASSUME TypeOK, ConnDiscipline, NEW c \in Conns, ReadRequest(c)
  PROVE  ServiceStep
<1> DEFINE q == c2s[c]
<1>1. /\ q \in Seq(AnyFrame) /\ q # <<>> /\ job[c] = NoFrame
      /\ \A d \in Conns : c2s'[d] = IF d = c THEN Tail(q) ELSE c2s[d]
      /\ \A d \in Conns : job'[d] = IF d = c THEN Head(q) ELSE job[d]
  BY DEF ReadRequest, TypeOK, ConnDiscipline
<1>2. \A n : n \in CommitsIn(q) <=>
               \/ n \in CommitsIn(Tail(q))
               \/ Head(q).kind = "RecordCommit" /\ n = Head(q).call
  BY <1>1, TailCommits
<1>3. job[c].kind # "RecordCommit"
  BY <1>1, FrameFacts
<1>4. \A n : Held(n)' \/ Streamed(n)' <=> Held(n) \/ Streamed(n)
  BY <1>1, <1>2, <1>3 DEF Held, Streamed
<1>5. \A n : Called(n)' <=> Called(n)
  BY DEF ReadRequest, Called
<1>6. \A n : n \in Offered' <=> n \in Offered
  BY <1>4, <1>5, OfferedParts
<1>7. Offered' = Offered
  BY <1>6
<1> QED
  BY <1>7 DEF ReadRequest, ServiceStep

\* The logger is given a commit that is nowhere else.
LEMMA LoggingMaps ==
  ASSUME TypeOK, LockDiscipline, ConnDiscipline, OnePlace, NEW c \in Conns,
         HandleCommit(c)
  PROVE  ServiceStep
<1> DEFINE m == job[c].call
<1>1. /\ job[c] # NoFrame /\ m \in Calls /\ OnWire(m)
      /\ \A d \in Conns : job'[d] = IF d = c THEN NoFrame ELSE job[d]
      /\ UNCHANGED <<call, c2s>>
  BY FrameFacts, NumberFacts DEF HandleCommit, TypeOK, OnWire
<1>2. ~Called(m)
  <2> SUFFICES ASSUME NEW t \in Threads, call[t].kind = "RecordCommit",
                      call[t].num = m
               PROVE  FALSE
    BY DEF Called
  <2>1. call[t] # NoCall
    BY CallFacts
  <2>2. pc[t] \in {"locking", "connecting", "writing", "blocked"}
    BY <2>1 DEF LockDiscipline, TypeOK, Asks
  <2> QED
    BY <1>1, <2>2 DEF OnePlace
<1>3. ~Streamed(m)
  BY <1>1 DEF OnePlace, Streamed, CommitsIn
<1>4. \A d \in Conns : d # c => job[d].call # m
  BY <1>1 DEF OnePlace
<1>5. \A n : Held(n)' <=> Held(n) /\ n # m
  BY <1>1, <1>4, FrameFacts DEF Held, HandleCommit
<1>6. \A n : n \in Offered' <=> n \in Offered \ {m}
  BY <1>1, <1>2, <1>3, <1>5, OfferedParts DEF Called, Streamed
<1>7. m \in Offered
  BY OfferedParts DEF HandleCommit, Held
<1>8. Offered' = Offered \ {m}
  BY <1>6
<1>9. Service!Record(m)
  BY <1>7, <1>8 DEF HandleCommit, Service!Record
<1> QED
  BY <1>7, <1>9 DEF ServiceStep, Service!Next

\* Commits in the stream of a connection that is closed, and in the daemon
\* when it dies, are lost.
LEMMA LosingMaps ==
  ASSUME TypeOK, (\E c \in Conns : CloseConnection(c)) \/ Crash
  PROVE  ServiceStep
<1>1. /\ \A d \in Conns : c2s'[d] \in {c2s[d], <<>>}
      /\ \A d \in Conns : job'[d] \in {job[d], NoFrame}
      /\ UNCHANGED <<calls, call, ret, recorded>>
  BY DEF CloseConnection, Crash, TypeOK
<1>2. \A n : n \notin CommitsIn(<<>>)
  BY DEF CommitsIn
<1>3. \A n : Streamed(n)' => Streamed(n)
  BY <1>1, <1>2 DEF Streamed
<1>4. \A n : Held(n)' => Held(n)
  BY <1>1, FrameFacts DEF Held
<1>5. Offered' \subseteq Offered
  BY <1>1, <1>3, <1>4, Losing DEF Called
<1> QED
  BY <1>1, <1>5 DEF ServiceStep, Service!Next, Service!Lose

\* A request is let go of without a trace, replied to or not.
LEMMA ReplyMaps ==
  ASSUME TypeOK, ConnDiscipline, NEW c \in Conns, Reply(c) \/ ReplyFails(c)
  PROVE  ServiceStep
<1>1. /\ job[c].kind \in Asks
      /\ \A d \in Conns : job'[d] = IF d = c THEN NoFrame ELSE job[d]
      /\ UNCHANGED <<calls, call, ret, c2s, recorded>>
  BY DEF Reply, ReplyFails, TypeOK, ConnDiscipline
<1>2. \A n : Held(n)' <=> Held(n)
  BY <1>1, FrameFacts DEF Held, Asks
<1>3. Offered' = Offered
  BY <1>1, <1>2, SameOffered DEF Called, Streamed
<1> QED
  BY <1>1, <1>3 DEF ServiceStep

LEMMA StepMaps == IndInv /\ IndInv' /\ [Next]_vars => ServiceStep
<1> SUFFICES ASSUME IndInv, IndInv', [Next]_vars PROVE ServiceStep
  OBVIOUS
<1> USE DEF IndInv
<1>1. ASSUME NEW t \in Threads, NEW k \in Kinds, Begin(t, k) PROVE ServiceStep
  BY <1>1, BeginMaps
<1>2. ASSUME NEW t \in Threads, Write(t) PROVE ServiceStep
  BY <1>2, WriteMaps
<1>3. ASSUME NEW t \in Threads,
             \/ ResetConnection(t) \/ ConnectFails(t) \/ WriteTimesOut(t)
             \/ ReadReply(t) \/ ReadFails(t)
             \/ WriteBrokenPipe(t) /\ HostIgnoresSigpipe
      PROVE  ServiceStep
  BY <1>3, LeaveMaps
<1>4. ASSUME NEW t \in Threads, WriteBrokenPipe(t) /\ ~HostIgnoresSigpipe
      PROVE  ServiceStep
  BY <1>4, DyingMaps DEF WriteBrokenPipe
<1>5. ASSUME HostExit PROVE ServiceStep
  BY <1>5, DyingMaps DEF HostExit
<1>6. ASSUME NEW c \in Conns, ReadRequest(c) PROVE ServiceStep
  BY <1>6, TakingMaps
<1>7. ASSUME NEW c \in Conns, HandleCommit(c) PROVE ServiceStep
  BY <1>7, LoggingMaps
<1>8. ASSUME NEW c \in Conns, Reply(c) \/ ReplyFails(c) PROVE ServiceStep
  BY <1>8, ReplyMaps
<1>9. CASE (\E c \in Conns : CloseConnection(c)) \/ Crash
  BY <1>9, LosingMaps
<1>10. ASSUME NEW t \in Threads, Lock(t) \/ EnsureConnected(t) \/ WriteBlocks(t)
       PROVE  ServiceStep
  BY <1>10, Stutters DEF Lock, EnsureConnected, WriteBlocks
<1>11. ASSUME NEW c \in Conns, Accept(c) \/ GiveUpReading(c) \/ HandleAsk(c)
       PROVE  ServiceStep
  BY <1>11, Stutters DEF Accept, GiveUpReading, HandleAsk
<1>12. CASE HostStart \/ Restart \/ UNCHANGED vars
  BY <1>12, Stutters DEF HostStart, Restart, vars
<1> QED
  BY <1>1, <1>2, <1>3, <1>4, <1>5, <1>6, <1>7, <1>8, <1>9, <1>10, <1>11, <1>12
  DEF Next, InCall, Work

\* The whole path, from a thread's call through mutex, connection, worker and
\* crashes, keeps the promise of RerankService: a call returns its own answer
\* or none, and the logger is given each commit at most once, and none that
\* was not given to RecordCommit.
THEOREM Refines == Spec => ImplementsService
<1>1. Init => Service!Init
  <2> SUFFICES ASSUME Init PROVE Service!Init
    OBVIOUS
  <2>1. \A n : n \notin Offered
    <3>1. \A n : n \notin CommitsIn(<<>>)
      BY DEF CommitsIn
    <3> QED
      BY <3>1, CallFacts, FrameFacts, OfferedParts DEF Init, Called, Held, Streamed
  <2>2. Offered = {}
    BY <2>1
  <2> QED
    BY <2>2 DEF Init, Service!Init, NoCall, NoRet, Service!NoCall, Service!NoRet
<1>2. IndInv /\ IndInv' /\ [Next]_vars
        => [Service!Next]_<<calls, call, ret, Offered, recorded>>
  BY StepMaps DEF ServiceStep
<1> QED
  BY <1>1, <1>2, Inductive, PTL DEF Spec, ImplementsService, Service!Spec, Service!vars
=============================================================================
