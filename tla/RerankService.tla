--------------------------- MODULE RerankService ---------------------------
(***************************************************************************)
(* What the dafeng client promises to the threads of the IME that call it, *)
(* with sockets, the daemon, the mutex and crashes abstracted away:        *)
(*                                                                         *)
(*   - a call that waits for the daemon (Rerank, GetStats, Ping) returns   *)
(*     either nothing or the daemon's answer to that very call;            *)
(*   - a commit given to RecordCommit reaches the daemon's commit logger   *)
(*     at most once, possibly after RecordCommit has returned, possibly    *)
(*     never, and in no promised order;                                    *)
(*   - nothing reaches the logger that was not given to RecordCommit.      *)
(*                                                                         *)
(* Ipc.tla is shown to implement this module.                              *)
(***************************************************************************)
EXTENDS Naturals, Sequences

CONSTANTS
  Threads,      \* threads of the host process that share one client
  Kinds,        \* the client operations they use
  MaxCalls      \* bound on the number of calls

VARIABLES
  calls,        \* number of calls begun; it names each call
  call,         \* call[t]: the call thread t is in, or NoCall
  ret,          \* ret[t]: the last call t returned from and its answer
  offered,      \* commits given to RecordCommit and still on their way
  recorded      \* commits the daemon's logger was given, in that order

vars == <<calls, call, ret, offered, recorded>>

Asks   == {"Rerank", "GetStats", "Ping"}
NoCall == [kind |-> "None", num |-> 0]
NoRet  == [call |-> 0, answer |-> 0]      \* answer 0: std::nullopt / false

Init ==
  /\ calls = 0
  /\ call = [t \in Threads |-> NoCall]
  /\ ret = [t \in Threads |-> NoRet]
  /\ offered = {}
  /\ recorded = <<>>

Begin(t, k) ==
  /\ call[t] = NoCall
  /\ calls < MaxCalls
  /\ calls' = calls + 1
  /\ call' = [call EXCEPT ![t] = [kind |-> k, num |-> calls + 1]]
  /\ offered' = IF k = "RecordCommit" THEN offered \cup {calls + 1} ELSE offered
  /\ UNCHANGED <<ret, recorded>>

\* A call comes back with its own answer or with none. A commit whose call
\* comes back may have been given up.
Return(t) ==
  /\ call[t] # NoCall
  /\ \E a \in {0} \cup (IF call[t].kind \in Asks THEN {call[t].num} ELSE {}) :
       ret' = [ret EXCEPT ![t] = [call |-> call[t].num, answer |-> a]]
  /\ call' = [call EXCEPT ![t] = NoCall]
  /\ offered' \in {offered, offered \ {call[t].num}}
  /\ UNCHANGED <<calls, recorded>>

Record(n) ==
  /\ n \in offered
  /\ offered' = offered \ {n}
  /\ recorded' = Append(recorded, n)
  /\ UNCHANGED <<calls, call, ret>>

\* Commits on their way are lost (with the daemon, or with a connection).
Lose ==
  /\ offered' \subseteq offered
  /\ UNCHANGED <<calls, call, ret, recorded>>

\* The host process dies and all its calls with it.
Abandon ==
  /\ call' = [t \in Threads |-> NoCall]
  /\ offered' \subseteq offered
  /\ UNCHANGED <<calls, ret, recorded>>

Next ==
  \/ \E t \in Threads : Return(t) \/ \E k \in Kinds : Begin(t, k)
  \/ \E n \in offered : Record(n)
  \/ Lose
  \/ Abandon

Spec == Init /\ [][Next]_vars
=============================================================================
