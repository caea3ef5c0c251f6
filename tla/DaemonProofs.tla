---------------------------- MODULE DaemonProofs ----------------------------
(***************************************************************************)
(* Proofs about what the daemon's workers count (ServerStats), for any     *)
(* number of workers, messages and latencies: StatsInv is inductive, and   *)
(* from it the properties of the counters and of what is told of them; and *)
(* about the pipe they are reached by on Windows (Pipe), for any daemons,  *)
(* clients and instances, from PipeInv. The two share nothing.             *)
(***************************************************************************)
EXTENDS ServerStats, Pipe, TLAPS

-----------------------------------------------------------------------------
(***************************************************************************)
(* The counters of the workers.                                            *)
(***************************************************************************)

USE LatencyAssumption, VersionAssumption, MessagesAssumption, KindsAssumption

\* Values are partially ordered by Covers.
LEMMA CoversTransitive ==
  ASSUME NEW a \in Values, NEW b \in Values, NEW d \in Values,
         Covers(a, b), Covers(b, d)
  PROVE  Covers(a, d)
BY DEF Covers, Values

LEMMA CoversReflexive ==
  ASSUME NEW a \in Values
  PROVE  Covers(a, a)
BY DEF Covers, Values

\* Join is the least value that covers both.
LEMMA JoinValue ==
  ASSUME NEW a \in Values, NEW b \in Values
  PROVE  Join(a, b) \in Values
BY DEF Join, Values, Larger

LEMMA JoinCovered ==
  ASSUME NEW a \in Values, NEW b \in Values, NEW d \in Values,
         Covers(d, a), Covers(d, b)
  PROVE  Covers(d, Join(a, b))
<1>1. \A s \in Sums : Join(a, b).sums[s] = a.sums[s] \cup b.sums[s]
  BY DEF Join
<1>2. Join(a, b).max = Larger(a.max, b.max) /\ Join(a, b).version = Larger(a.version, b.version)
  BY DEF Join
<1> QED
  BY <1>1, <1>2 DEF Covers, Values, Larger

LEMMA NothingValue == Nothing \in Values
BY DEF Nothing, Values

LEMMA CountedValue ==
  ASSUME TypeOK
  PROVE  Counted \in Values
BY DEF TypeOK, Counted, Values

\* The parts of a message.
LEMMA JobParts ==
  ASSUME NEW j \in Job
  PROVE  /\ j.kind \in Kinds /\ j.num \in Messages
         /\ j.latency \in Latencies \cup {0} /\ j.latency \in Nat
<1>1. j.kind \in Kinds /\ j.num \in Messages /\ j.latency \in Latencies \cup {0}
  BY DEF Job
<1>2. Latencies \cup {0} \subseteq Nat
  BY LatencyAssumption
<1> QED
  BY <1>1, <1>2

\* What a reply says is a value of the counters.
LEMMA SaysValue ==
  ASSUME TypeOK, NEW w \in Workers, job[w] # NoJob
  PROVE  Says(w) \in Values
<1>1. job[w] \in Job
  BY DEF TypeOK
<1>2. CASE job[w].kind = "Rerank"
  <2>1. Says(w) = [sums |-> [c \in Sums |-> IF c \in Updates("Rerank")
                                     THEN {job[w].num} ELSE {}],
                   max |-> job[w].latency, version |-> Version]
    BY <1>2 DEF Says
  <2>2. job[w].latency \in Nat /\ job[w].num \in Messages
    BY <1>1, JobParts
  <2>3. [c \in Sums |-> IF c \in Updates("Rerank") THEN {job[w].num} ELSE {}]
          \in [Sums -> SUBSET Messages]
    BY <2>2
  <2> QED
    BY <2>1, <2>2, <2>3 DEF Values
<1>3. CASE job[w].kind = "Ping"
  <2>1. Says(w) = [Nothing EXCEPT !.sums["ping_count"] = {job[w].num}]
    BY <1>3 DEF Says
  <2> QED
    BY <1>1, <2>1 DEF Job, Values, Nothing, Sums
<1>4. CASE job[w].kind = "Stats"
  BY <1>4 DEF Says, TypeOK
<1>5. CASE job[w].kind \notin {"Rerank", "Ping", "Stats"}
  BY <1>5, NothingValue DEF Says
<1> QED
  BY <1>2, <1>3, <1>4, <1>5

\* A worker that is not reading has a message.
LEMMA Busy ==
  ASSUME TypeOK, Underway, NEW w \in Workers, pc[w] # "reading"
  PROVE  job[w] \in Job /\ job[w] # NoJob
<1>1. job[w] # NoJob
  BY DEF Underway
<1> QED
  BY <1>1 DEF TypeOK

\* Type correctness of a step.
LEMMA TypeStep ==
  ASSUME TypeOK, Underway, [Next]_vars
  PROVE  TypeOK'
<1>1. ASSUME NEW w \in Workers, NEW k \in Kinds, NEW l \in Latencies \cup {0},
             ReadMessage(w, k, l)
      PROVE  TypeOK'
  <2>1. messages + 1 \in Messages
    BY <1>1 DEF ReadMessage, TypeOK, Messages
  <2>2. Updates(k) \subseteq Counters
    BY DEF Updates, Counters, Sums
  <2>3. [kind |-> k, num |-> messages + 1, latency |-> l] \in Job
    BY <2>1 DEF Job
  <2>4. job' \in [Workers -> Job \cup {NoJob}]
    BY <1>1, <2>3 DEF ReadMessage, TypeOK
  <2>5. snap' \in [Workers -> Values] /\ floor' \in [Workers -> Values]
    BY <1>1, NothingValue DEF ReadMessage, TypeOK
  <2>6. todo' \in [Workers -> SUBSET Counters]
    BY <1>1, <2>2 DEF ReadMessage, TypeOK
  <2>7. latency' \in [Messages -> Latencies \cup {0}] /\ messages' \in 0..MaxMessages
    BY <1>1, <2>1 DEF ReadMessage, TypeOK, Messages
  <2>8. pc' \in [Workers -> {"reading", "updating", "swapping", "snapshot"}]
    BY <1>1 DEF ReadMessage, TypeOK
  <2> QED
    BY <1>1, <2>4, <2>5, <2>6, <2>7, <2>8 DEF ReadMessage, TypeOK
<1>2. ASSUME NEW w \in Workers, RejectFrame(w)
      PROVE  TypeOK'
  BY <1>2 DEF RejectFrame, TypeOK, Messages
<1>3. ASSUME NEW w \in Workers, NEW c \in Sums, FetchAdd(w, c)
      PROVE  TypeOK'
  <2>1. job[w] \in Job
    BY <1>3, Busy DEF FetchAdd
  <2>2. job[w].num \in Messages
    BY <2>1 DEF Job
  <2> QED
    BY <1>3, <2>2 DEF FetchAdd, TypeOK
<1>4. ASSUME NEW w \in Workers, StoreVersion(w)
      PROVE  TypeOK'
  BY <1>4 DEF StoreVersion, TypeOK
<1>5. ASSUME NEW w \in Workers, LoadMax(w)
      PROVE  TypeOK'
  BY <1>5 DEF LoadMax, TypeOK
<1>6. ASSUME NEW w \in Workers, SwapMax(w)
      PROVE  TypeOK'
  <2>1. job[w] \in Job
    BY <1>6, Busy DEF SwapMax
  <2>2. job[w].latency \in Nat
    BY <2>1, JobParts
  <2> QED
    BY <1>6, <2>2 DEF SwapMax, TypeOK
<1>7. ASSUME NEW w \in Workers, NEW c \in Counters, Load(w, c)
      PROVE  TypeOK'
  <2>1. /\ snap[w] \in Values
        /\ snap' = [snap EXCEPT ![w] =
             CASE c \in Sums -> [snap[w] EXCEPT !.sums[c] = sums[c]]
               [] c = "rerank_latency_max_us" -> [snap[w] EXCEPT !.max = max]
               [] c = "rerank_model_version" -> [snap[w] EXCEPT !.version = version]]
    BY <1>7 DEF Load, TypeOK
  <2>2. c \in Sums => [snap[w] EXCEPT !.sums[c] = sums[c]] \in Values
    BY <2>1 DEF Values, TypeOK
  <2>3. [snap[w] EXCEPT !.max = max] \in Values /\ [snap[w] EXCEPT !.version = version] \in Values
    BY <2>1 DEF Values, TypeOK
  <2>4. snap' \in [Workers -> Values]
    BY <2>1, <2>2, <2>3 DEF Counters, TypeOK, Sums
  <2>5. todo' \in [Workers -> SUBSET Counters]
    BY <1>7 DEF Load, TypeOK
  <2> QED
    BY <1>7, <2>4, <2>5 DEF Load, TypeOK
<1>8. ASSUME NEW w \in Workers, Reply(w)
      PROVE  TypeOK'
  <2>1. Says(w) \in Values
    BY <1>8, SaysValue DEF Reply, Underway
  <2>2. told' \in Values
    BY <1>8, <2>1, JoinValue DEF Reply, TypeOK
  <2> QED
    BY <1>8, <2>2 DEF Reply, TypeOK
<1>9. CASE UNCHANGED vars
  BY <1>9 DEF vars, TypeOK
<1> QED
  BY <1>1, <1>2, <1>3, <1>4, <1>5, <1>6, <1>7, <1>8, <1>9 DEF Next

\* No step lowers a counter.
LEMMA Grows ==
  ASSUME TypeOK, Underway, [Next]_vars
  PROVE  Covers(Counted', Counted)
<1> USE DEF Covers, Counted
<1>1. ASSUME NEW w \in Workers, NEW k \in Kinds, NEW l \in Latencies \cup {0},
             ReadMessage(w, k, l)
      PROVE  Covers(Counted', Counted)
  BY <1>1 DEF ReadMessage, TypeOK
<1>2. ASSUME NEW w \in Workers, RejectFrame(w)
      PROVE  Covers(Counted', Counted)
  BY <1>2 DEF RejectFrame, TypeOK
<1>3. ASSUME NEW w \in Workers, NEW c \in Sums, FetchAdd(w, c)
      PROVE  Covers(Counted', Counted)
  BY <1>3 DEF FetchAdd, TypeOK
<1>4. ASSUME NEW w \in Workers, StoreVersion(w)
      PROVE  Covers(Counted', Counted)
  BY <1>4 DEF StoreVersion, TypeOK, Underway
<1>5. ASSUME NEW w \in Workers, LoadMax(w)
      PROVE  Covers(Counted', Counted)
  BY <1>5 DEF LoadMax, TypeOK
<1>6. ASSUME NEW w \in Workers, SwapMax(w)
      PROVE  Covers(Counted', Counted)
  <2>1. job[w].latency \in Nat
    BY <1>6, Busy, JobParts DEF SwapMax
  <2> QED
    BY <1>6, <2>1 DEF SwapMax, TypeOK
<1>7. ASSUME NEW w \in Workers, NEW c \in Counters, Load(w, c)
      PROVE  Covers(Counted', Counted)
  BY <1>7 DEF Load, TypeOK
<1>8. ASSUME NEW w \in Workers, Reply(w)
      PROVE  Covers(Counted', Counted)
  BY <1>8 DEF Reply, TypeOK
<1>9. CASE UNCHANGED vars
  BY <1>9 DEF vars, TypeOK
<1> QED
  BY <1>1, <1>2, <1>3, <1>4, <1>5, <1>6, <1>7, <1>8, <1>9 DEF Next

\* The part of Underway about worker u.
UnderwayAt(u) ==
  /\ pc[u] = "reading" <=> job[u] = NoJob
  /\ pc[u] = "reading" => todo[u] = {}
  /\ pc[u] = "snapshot" <=> job[u].kind = "Stats"
  /\ pc[u] = "swapping" => "rerank_latency_max_us" \in todo[u]
  /\ prev_max[u] <= max
  /\ pc[u] \in {"updating", "swapping"} =>
       /\ todo[u] \subseteq Updates(job[u].kind)
       /\ \A c \in Sums \cap Updates(job[u].kind) :
            c \in todo[u] \/ job[u].num \in sums[c]
       /\ "rerank_latency_max_us" \in Updates(job[u].kind) =>
            "rerank_latency_max_us" \in todo[u] \/ job[u].latency <= max
       /\ "rerank_model_version" \in Updates(job[u].kind) =>
            "rerank_model_version" \in todo[u] \/ version = Version

LEMMA UnderwayParts ==
  Underway <=> (\A u \in Workers : UnderwayAt(u)) /\ version <= Version
BY DEF Underway, UnderwayAt

\* A worker that a step leaves alone stays where it is, as the counters only
\* grow.
LEMMA LeftAlone ==
  ASSUME TypeOK, TypeOK', Underway, Covers(Counted', Counted),
         version' \in {version, Version}, NEW u \in Workers,
         pc'[u] = pc[u], job'[u] = job[u], todo'[u] = todo[u],
         prev_max'[u] = prev_max[u]
  PROVE  UnderwayAt(u)'
<1>1. UnderwayAt(u)
  BY UnderwayParts
<1>2. max <= max' /\ \A c \in Sums : sums[c] \subseteq sums'[c]
  BY DEF Covers, Counted
<1>3. prev_max[u] \in Nat /\ max \in Nat /\ max' \in Nat
  BY DEF TypeOK
<1>4. pc[u] # "reading" => job[u].latency \in Nat
  BY Busy, JobParts
<1>5. prev_max[u] <= max'
  BY <1>1, <1>2, <1>3 DEF UnderwayAt
<1>6. ASSUME pc[u] \in {"updating", "swapping"}
      PROVE  /\ \A c \in Sums \cap Updates(job[u].kind) :
                  c \in todo[u] \/ job[u].num \in sums'[c]
             /\ "rerank_latency_max_us" \in Updates(job[u].kind) =>
                  "rerank_latency_max_us" \in todo[u] \/ job[u].latency <= max'
             /\ "rerank_model_version" \in Updates(job[u].kind) =>
                  "rerank_model_version" \in todo[u] \/ version' = Version
  <2>1. \A c \in Sums \cap Updates(job[u].kind) : c \in todo[u] \/ job[u].num \in sums[c]
    BY <1>1, <1>6 DEF UnderwayAt
  <2>2. \A c \in Sums \cap Updates(job[u].kind) : c \in todo[u] \/ job[u].num \in sums'[c]
    BY <2>1, <1>2
  <2>3. "rerank_latency_max_us" \in Updates(job[u].kind) =>
          "rerank_latency_max_us" \in todo[u] \/ job[u].latency <= max
    BY <1>1, <1>6 DEF UnderwayAt
  <2>4. job[u].latency <= max => job[u].latency <= max'
    BY <1>2, <1>3, <1>4, <1>6
  <2>5. "rerank_model_version" \in Updates(job[u].kind) =>
          "rerank_model_version" \in todo[u] \/ version = Version
    BY <1>1, <1>6 DEF UnderwayAt
  <2> QED
    BY <2>2, <2>3, <2>4, <2>5
<1> QED
  BY <1>1, <1>5, <1>6 DEF UnderwayAt

LEMMA UnderwayStep ==
  ASSUME TypeOK, TypeOK', Underway, [Next]_vars
  PROVE  Underway'
<1> DEFINE Others(w) == \A u \in Workers \ {w} :
             /\ pc'[u] = pc[u] /\ job'[u] = job[u]
             /\ todo'[u] = todo[u] /\ prev_max'[u] = prev_max[u]
<1>g. Covers(Counted', Counted)
  BY Grows
<1>m. max <= max' /\ max \in Nat /\ max' \in Nat
  BY <1>g DEF Covers, Counted, TypeOK
<1>u. \A u \in Workers : UnderwayAt(u)
  BY UnderwayParts
<1>v. version <= Version
  BY UnderwayParts
<1>o. ASSUME NEW w \in Workers, Others(w), UnderwayAt(w)',
             version' \in {version, Version}
      PROVE  Underway'
  <2>1. \A u \in Workers \ {w} : UnderwayAt(u)'
    BY <1>o, <1>g, LeftAlone
  <2>2. (\A u \in Workers : UnderwayAt(u))'
    BY <2>1, <1>o
  <2>3. version' <= Version
    BY <1>o, <1>v
  <2> QED
    BY <2>2, <2>3 DEF Underway, UnderwayAt
<1>1. ASSUME NEW w \in Workers, NEW k \in Kinds, NEW l \in Latencies \cup {0},
             ReadMessage(w, k, l)
      PROVE  Underway'
  <2>1. Others(w) /\ version' = version
    BY <1>1 DEF ReadMessage, TypeOK
  <2>2. /\ job'[w] = [kind |-> k, num |-> messages + 1, latency |-> l]
        /\ pc'[w] = IF k = "Stats" THEN "snapshot" ELSE "updating"
        /\ todo'[w] = IF k = "Stats" THEN Counters ELSE Updates(k)
        /\ prev_max'[w] = prev_max[w] /\ max' = max
    BY <1>1 DEF ReadMessage, TypeOK
  <2>3. job'[w] # NoJob /\ job'[w].kind = k
    BY <2>2 DEF NoJob, TypeOK
  <2>4. prev_max[w] <= max
    BY <1>u DEF UnderwayAt
  <2>5. UnderwayAt(w)'
    BY <2>2, <2>3, <2>4 DEF UnderwayAt
  <2> QED
    BY <2>1, <2>5, <1>o
<1>2. ASSUME NEW w \in Workers, RejectFrame(w)
      PROVE  Underway'
  BY <1>2 DEF RejectFrame, Underway
<1>3. ASSUME NEW w \in Workers, NEW c \in Sums, FetchAdd(w, c)
      PROVE  Underway'
  <2>1. Others(w) /\ version' = version
    BY <1>3 DEF FetchAdd, TypeOK
  <2>2. /\ pc'[w] = "updating" /\ pc[w] = "updating" /\ job'[w] = job[w]
        /\ todo'[w] = todo[w] \ {c}
        /\ prev_max'[w] = prev_max[w] /\ max' = max
        /\ \A d \in Sums : sums'[d] = IF d = c THEN sums[d] \cup {job[w].num} ELSE sums[d]
    BY <1>3 DEF FetchAdd, TypeOK
  <2>3. UnderwayAt(w)
    BY <1>u
  <2>4. c \notin {"rerank_latency_max_us", "rerank_model_version"}
    BY DEF Sums
  <2>5. \A d \in Sums \cap Updates(job[w].kind) : d \in todo'[w] \/ job[w].num \in sums'[d]
    BY <2>2, <2>3 DEF UnderwayAt
  <2>6. UnderwayAt(w)'
    BY <2>1, <2>2, <2>3, <2>4, <2>5 DEF UnderwayAt
  <2> QED
    BY <2>1, <2>6, <1>o
<1>4. ASSUME NEW w \in Workers, StoreVersion(w)
      PROVE  Underway'
  <2>1. Others(w) /\ version' = Version
    BY <1>4 DEF StoreVersion, TypeOK
  <2>2. /\ pc'[w] = "updating" /\ pc[w] = "updating" /\ job'[w] = job[w]
        /\ todo'[w] = todo[w] \ {"rerank_model_version"}
        /\ prev_max'[w] = prev_max[w] /\ max' = max /\ sums' = sums
    BY <1>4 DEF StoreVersion, TypeOK
  <2>3. UnderwayAt(w)
    BY <1>u
  <2>4. \A d \in Sums : d # "rerank_model_version"
    BY DEF Sums
  <2>5. UnderwayAt(w)'
    BY <2>1, <2>2, <2>3, <2>4 DEF UnderwayAt
  <2> QED
    BY <2>1, <2>5, <1>o
<1>5. ASSUME NEW w \in Workers, LoadMax(w)
      PROVE  Underway'
  <2>1. Others(w) /\ version' = version
    BY <1>5 DEF LoadMax, TypeOK
  <2>2. /\ pc'[w] = "swapping" /\ pc[w] = "updating" /\ job'[w] = job[w]
        /\ todo'[w] = todo[w] /\ "rerank_latency_max_us" \in todo[w]
        /\ prev_max'[w] = max /\ max' = max /\ sums' = sums
    BY <1>5 DEF LoadMax, TypeOK
  <2>3. UnderwayAt(w)
    BY <1>u
  <2>4. UnderwayAt(w)'
    BY <2>1, <2>2, <2>3, <1>m DEF UnderwayAt
  <2> QED
    BY <2>1, <2>4, <1>o
<1>6. ASSUME NEW w \in Workers, SwapMax(w)
      PROVE  Underway'
  <2>1. Others(w) /\ version' = version /\ sums' = sums /\ job'[w] = job[w]
    BY <1>6 DEF SwapMax, TypeOK
  <2>2. UnderwayAt(w) /\ pc[w] = "swapping"
    BY <1>u, <1>6 DEF SwapMax
  <2>3. job[w].latency \in Nat /\ prev_max[w] \in Nat
    BY <2>2, Busy, JobParts DEF TypeOK
  <2>4. ASSUME /\ pc'[w] = "updating"
               /\ todo'[w] = todo[w] \ {"rerank_latency_max_us"}
               /\ prev_max'[w] = prev_max[w]
               /\ job[w].latency <= max'
        PROVE  UnderwayAt(w)'
    <3>1. \A d \in Sums : d # "rerank_latency_max_us"
      BY DEF Sums
    <3>2. prev_max[w] <= max'
      BY <2>2, <2>3, <1>m DEF UnderwayAt
    <3> QED
      BY <2>1, <2>2, <2>4, <3>1, <3>2 DEF UnderwayAt
  <2>5. ASSUME /\ pc'[w] = pc[w] /\ todo'[w] = todo[w]
               /\ prev_max'[w] = max /\ max' = max
        PROVE  UnderwayAt(w)'
    BY <2>1, <2>2, <2>5, <1>m DEF UnderwayAt
  <2>6. UnderwayAt(w)'
    <3>1. prev_max[w] <= max
      BY <2>2 DEF UnderwayAt
    <3>2. \/ /\ pc'[w] = "updating" /\ todo'[w] = todo[w] \ {"rerank_latency_max_us"}
             /\ prev_max'[w] = prev_max[w]
             /\ \/ job[w].latency <= prev_max[w] /\ max' = max
                \/ max' = job[w].latency
          \/ /\ pc'[w] = pc[w] /\ todo'[w] = todo[w]
             /\ prev_max'[w] = max /\ max' = max
      BY <1>6 DEF SwapMax, TypeOK
    <3>3. \/ job[w].latency <= prev_max[w] /\ max' = max
          \/ max' = job[w].latency
          => job[w].latency <= max'
      BY <2>3, <3>1, <1>m
    <3> QED
      BY <2>4, <2>5, <3>2, <3>3
  <2> QED
    BY <2>1, <2>6, <1>o
<1>7. ASSUME NEW w \in Workers, NEW c \in Counters, Load(w, c)
      PROVE  Underway'
  <2>1. Others(w) /\ version' = version
    BY <1>7 DEF Load, TypeOK
  <2>2. /\ pc'[w] = "snapshot" /\ pc[w] = "snapshot" /\ job'[w] = job[w]
        /\ prev_max'[w] = prev_max[w] /\ max' = max
    BY <1>7 DEF Load, TypeOK
  <2>3. UnderwayAt(w)
    BY <1>u
  <2>4. UnderwayAt(w)'
    BY <2>2, <2>3 DEF UnderwayAt
  <2> QED
    BY <2>1, <2>4, <1>o
<1>8. ASSUME NEW w \in Workers, Reply(w)
      PROVE  Underway'
  <2>1. Others(w) /\ version' = version
    BY <1>8 DEF Reply, TypeOK
  <2>2. /\ pc'[w] = "reading" /\ job'[w] = NoJob /\ todo'[w] = {}
        /\ prev_max'[w] = prev_max[w] /\ max' = max
    BY <1>8 DEF Reply, TypeOK
  <2>3. UnderwayAt(w)
    BY <1>u
  <2>4. UnderwayAt(w)'
    BY <2>2, <2>3 DEF UnderwayAt, NoJob
  <2> QED
    BY <2>1, <2>4, <1>o
<1>9. CASE UNCHANGED vars
  BY <1>9 DEF vars, Underway
<1> QED
  BY <1>1, <1>2, <1>3, <1>4, <1>5, <1>6, <1>7, <1>8, <1>9 DEF Next

LEMMA RepliesStep ==
  ASSUME TypeOK, TypeOK', Underway, SnapshotsUnderway, RepliesCounted, [Next]_vars
  PROVE  RepliesCounted'
<1>v. Counted \in Values /\ Counted' \in Values /\ told \in Values
  BY DEF TypeOK, Counted, Values
<1>g. Covers(Counted', Counted)
  BY Grows
<1>t. Covers(Counted', told)
  BY <1>g, <1>v, CoversTransitive DEF RepliesCounted
<1>1. CASE UNCHANGED told
  BY <1>1, <1>t DEF RepliesCounted
<1>2. ASSUME NEW w \in Workers, Reply(w)
      PROVE  RepliesCounted'
  <2>1. Counted' = Counted
    BY <1>2 DEF Reply, Counted
  <2>2. job[w] \in Job /\ job[w] # NoJob
    BY <1>2, Busy DEF Reply
  <2>3. Says(w) \in Values
    BY <2>2, SaysValue
  <2>4. UnderwayAt(w) /\ todo[w] = {} /\ pc[w] \in {"updating", "snapshot"}
    BY <1>2, UnderwayParts DEF Reply
  <2>5. Covers(Counted, Says(w))
    <3>1. CASE job[w].kind = "Rerank"
      <4>1. Says(w) = [sums |-> [c \in Sums |-> IF c \in Updates("Rerank")
                                         THEN {job[w].num} ELSE {}],
                       max |-> job[w].latency, version |-> Version]
        BY <3>1 DEF Says
      <4>2. pc[w] = "updating"
        BY <2>4, <3>1 DEF UnderwayAt
      <4>3. \A c \in Sums \cap Updates("Rerank") : job[w].num \in sums[c]
        BY <2>4, <4>2, <3>1 DEF UnderwayAt
      <4>4. job[w].latency <= max /\ version = Version
        BY <2>4, <4>2, <3>1 DEF UnderwayAt, Updates
      <4>5. \A c \in Sums : Says(w).sums[c] \subseteq sums[c]
        BY <4>1, <4>3
      <4>6. max >= Says(w).max /\ version >= Says(w).version
        BY <4>1, <4>4, <2>2, JobParts DEF TypeOK
      <4> QED
        BY <4>5, <4>6 DEF Covers, Counted
    <3>2. CASE job[w].kind = "Ping"
      <4>1. Says(w) = [Nothing EXCEPT !.sums["ping_count"] = {job[w].num}]
        BY <3>2 DEF Says
      <4>2. pc[w] = "updating"
        BY <2>4, <3>2 DEF UnderwayAt
      <4>3. \A c \in Sums \cap Updates("Ping") : job[w].num \in sums[c]
        BY <2>4, <4>2, <3>2 DEF UnderwayAt
      <4>4. job[w].num \in sums["ping_count"]
        BY <4>3 DEF Updates, Sums
      <4>5. \A c \in Sums : Says(w).sums[c] \subseteq sums[c]
        BY <4>1, <4>4 DEF Nothing
      <4>6. max >= Says(w).max /\ version >= Says(w).version
        BY <4>1 DEF TypeOK, Nothing
      <4> QED
        BY <4>5, <4>6 DEF Covers, Counted
    <3>3. CASE job[w].kind = "Stats"
      <4>1. Says(w) = snap[w]
        BY <3>3 DEF Says
      <4> QED
        BY <4>1 DEF SnapshotsUnderway
    <3>4. CASE job[w].kind \notin {"Rerank", "Ping", "Stats"}
      <4>1. Says(w) = Nothing
        BY <3>4 DEF Says
      <4> QED
        BY <4>1 DEF Covers, Counted, Nothing, TypeOK
    <3> QED
      BY <3>1, <3>2, <3>3, <3>4
  <2>6. Covers(Counted, Join(told, Says(w)))
    BY <1>v, <2>3, <2>5, JoinCovered DEF RepliesCounted
  <2> QED
    BY <1>2, <1>t, <2>1, <2>6 DEF Reply, RepliesCounted
<1> QED
  BY <1>1, <1>2 DEF Next, vars, ReadMessage, RejectFrame, FetchAdd,
     StoreVersion, LoadMax, SwapMax, Load

\* The part of SnapshotsUnderway about worker u.
SnapshotAt(u) ==
  /\ Covers(Counted, floor[u])
  /\ Covers(Counted, snap[u])
  /\ pc[u] = "snapshot" =>
       /\ \A c \in Sums : c \in todo[u] \/ floor[u].sums[c] \subseteq snap[u].sums[c]
       /\ "rerank_latency_max_us" \in todo[u] \/ floor[u].max <= snap[u].max
       /\ "rerank_model_version" \in todo[u] \/ floor[u].version <= snap[u].version

\* Steps that touch no StatsResponse under way leave all of them right.
LEMMA SnapshotKept ==
  ASSUME TypeOK, TypeOK', SnapshotsUnderway, Covers(Counted', Counted),
         NEW u \in Workers, snap'[u] = snap[u], floor'[u] = floor[u],
         pc'[u] = "snapshot" => pc[u] = "snapshot" /\ todo'[u] = todo[u]
  PROVE  SnapshotAt(u)'
<1>1. /\ Counted \in Values /\ Counted' \in Values
      /\ floor[u] \in Values /\ snap[u] \in Values
  BY DEF TypeOK, Counted, Values
<1>2. SnapshotAt(u)
  BY DEF SnapshotsUnderway, SnapshotAt
<1>3. Covers(Counted', floor[u]) /\ Covers(Counted', snap[u])
  BY <1>1, <1>2, CoversTransitive DEF SnapshotAt
<1> QED
  BY <1>2, <1>3 DEF SnapshotAt

LEMMA SnapshotStep ==
  ASSUME TypeOK, TypeOK', Underway, SnapshotsUnderway, RepliesCounted, [Next]_vars
  PROVE  SnapshotsUnderway'
<1>g. Covers(Counted', Counted)
  BY Grows
<1>o. SUFFICES ASSUME NEW u \in Workers
               PROVE  SnapshotAt(u)'
  BY DEF SnapshotsUnderway, SnapshotAt
<1>k. ASSUME snap'[u] = snap[u], floor'[u] = floor[u],
             pc'[u] = "snapshot" => pc[u] = "snapshot" /\ todo'[u] = todo[u]
      PROVE  SnapshotAt(u)'
  BY <1>k, <1>g, SnapshotKept
<1>1. ASSUME NEW w \in Workers, NEW k \in Kinds, NEW l \in Latencies \cup {0},
             ReadMessage(w, k, l)
      PROVE  SnapshotAt(u)'
  <2>1. CASE u # w
    BY <1>1, <2>1, <1>k DEF ReadMessage, TypeOK
  <2>2. CASE u = w
    <3>1. /\ snap'[u] = Nothing /\ floor'[u] = told /\ Counted' = Counted
          /\ pc'[u] = "snapshot" => todo'[u] = Counters
      BY <1>1, <2>2 DEF ReadMessage, TypeOK, Counted
    <3>2. Covers(Counted, Nothing)
      BY DEF Covers, Counted, Nothing, TypeOK
    <3> QED
      BY <3>1, <3>2 DEF SnapshotAt, RepliesCounted, Counters
  <2> QED
    BY <2>1, <2>2
<1>2. ASSUME NEW w \in Workers, RejectFrame(w)
      PROVE  SnapshotAt(u)'
  BY <1>2, <1>k DEF RejectFrame
<1>3. ASSUME NEW w \in Workers, NEW c \in Sums, FetchAdd(w, c)
      PROVE  SnapshotAt(u)'
  BY <1>3, <1>k DEF FetchAdd, TypeOK
<1>4. ASSUME NEW w \in Workers, StoreVersion(w)
      PROVE  SnapshotAt(u)'
  BY <1>4, <1>k DEF StoreVersion, TypeOK
<1>5. ASSUME NEW w \in Workers, LoadMax(w)
      PROVE  SnapshotAt(u)'
  BY <1>5, <1>k DEF LoadMax, TypeOK
<1>6. ASSUME NEW w \in Workers, SwapMax(w)
      PROVE  SnapshotAt(u)'
  BY <1>6, <1>k DEF SwapMax, TypeOK
<1>7. ASSUME NEW w \in Workers, NEW c \in Counters, Load(w, c)
      PROVE  SnapshotAt(u)'
  <2>1. CASE u # w
    BY <1>7, <2>1, <1>k DEF Load, TypeOK
  <2>2. CASE u = w
    <3>1. /\ floor'[u] = floor[u] /\ Counted' = Counted
          /\ pc[u] = "snapshot" /\ todo'[u] = todo[u] \ {c}
          /\ snap'[u] = CASE c \in Sums -> [snap[u] EXCEPT !.sums[c] = sums[c]]
                          [] c = "rerank_latency_max_us" -> [snap[u] EXCEPT !.max = max]
                          [] c = "rerank_model_version" -> [snap[u] EXCEPT !.version = version]
      BY <1>7, <2>2 DEF Load, TypeOK, Counted
    <3>2. /\ SnapshotAt(u) /\ snap[u] \in Values /\ floor[u] \in Values
          /\ sums \in [Sums -> SUBSET Messages] /\ max \in Nat /\ version \in Nat
      BY DEF SnapshotsUnderway, SnapshotAt, TypeOK
    <3>3. /\ \A d \in Sums : /\ snap[u].sums[d] \subseteq sums[d]
                             /\ floor[u].sums[d] \subseteq sums[d]
          /\ snap[u].max <= max /\ snap[u].version <= version
          /\ floor[u].max <= max /\ floor[u].version <= version
      BY <3>2 DEF SnapshotAt, Covers, Counted, Values
    <3>4. CASE c \in Sums
      <4>2. c # "rerank_latency_max_us" /\ c # "rerank_model_version"
        BY <3>4 DEF Sums
      <4>0. snap'[u] = [snap[u] EXCEPT !.sums[c] = sums[c]]
        BY <3>1, <3>4, <4>2
      <4>1. /\ \A d \in Sums : snap'[u].sums[d] = IF d = c THEN sums[d] ELSE snap[u].sums[d]
            /\ snap'[u].max = snap[u].max /\ snap'[u].version = snap[u].version
        BY <4>0, <3>2, <3>4 DEF Values
      <4>3. Covers(Counted, snap'[u])
        BY <4>1, <3>2, <3>3 DEF Covers, Counted, Values
      <4>4. \A d \in Sums : d \in todo'[u] \/ floor[u].sums[d] \subseteq snap'[u].sums[d]
        BY <4>1, <3>1, <3>2, <3>3 DEF SnapshotAt
      <4> QED
        BY <4>1, <4>2, <4>3, <4>4, <3>1, <3>2 DEF SnapshotAt
    <3>5. CASE c = "rerank_latency_max_us"
      <4>1. c \notin Sums /\ c # "rerank_model_version"
        BY <3>5 DEF Sums
      <4>2. /\ snap'[u].sums = snap[u].sums
            /\ snap'[u].max = max /\ snap'[u].version = snap[u].version
        BY <3>1, <3>2, <3>5, <4>1 DEF Values
      <4>3. Covers(Counted, snap'[u])
        BY <4>2, <3>2, <3>3 DEF Covers, Counted
      <4>4. \A d \in Sums : d \in todo'[u] \/ floor[u].sums[d] \subseteq snap'[u].sums[d]
        BY <4>1, <4>2, <3>1, <3>2 DEF SnapshotAt
      <4> QED
        BY <4>1, <4>2, <4>3, <4>4, <3>1, <3>2, <3>3, <3>5 DEF SnapshotAt
    <3>6. CASE c = "rerank_model_version"
      <4>1. c \notin Sums /\ c # "rerank_latency_max_us"
        BY <3>6 DEF Sums
      <4>2. /\ snap'[u].sums = snap[u].sums
            /\ snap'[u].max = snap[u].max /\ snap'[u].version = version
        BY <3>1, <3>2, <3>6, <4>1 DEF Values
      <4>3. Covers(Counted, snap'[u])
        BY <4>2, <3>2, <3>3 DEF Covers, Counted
      <4>4. \A d \in Sums : d \in todo'[u] \/ floor[u].sums[d] \subseteq snap'[u].sums[d]
        BY <4>1, <4>2, <3>1, <3>2 DEF SnapshotAt
      <4> QED
        BY <4>1, <4>2, <4>3, <4>4, <3>1, <3>2, <3>3, <3>6 DEF SnapshotAt
    <3> QED
      BY <3>4, <3>5, <3>6 DEF Counters
  <2> QED
    BY <2>1, <2>2
<1>8. ASSUME NEW w \in Workers, Reply(w)
      PROVE  SnapshotAt(u)'
  BY <1>8, <1>k DEF Reply, TypeOK
<1>9. CASE UNCHANGED vars
  BY <1>9, <1>k DEF vars
<1> QED
  BY <1>1, <1>2, <1>3, <1>4, <1>5, <1>6, <1>7, <1>8, <1>9 DEF Next

\* StatsInv is inductive.
THEOREM Inductive == Spec => []StatsInv
<1>1. Init => StatsInv
  <2> SUFFICES ASSUME Init PROVE StatsInv
    OBVIOUS
  <2>1. TypeOK
    BY NothingValue DEF Init, TypeOK, Messages
  <2>2. Underway
    BY DEF Init, Underway, NoJob
  <2>3. Covers(Counted, Nothing)
    BY DEF Init, Covers, Counted, Nothing
  <2> QED
    BY <2>1, <2>2, <2>3 DEF Init, StatsInv, SnapshotsUnderway, RepliesCounted
<1>2. StatsInv /\ [Next]_vars => StatsInv'
  <2> SUFFICES ASSUME StatsInv, [Next]_vars PROVE StatsInv'
    OBVIOUS
  <2>1. TypeOK'
    BY TypeStep DEF StatsInv
  <2> QED
    BY <2>1, UnderwayStep, SnapshotStep, RepliesStep DEF StatsInv
<1> QED
  BY <1>1, <1>2, PTL DEF Spec

\* Type correctness of the counters, workers and responses.
THEOREM TypeCorrect == Spec => []TypeOK
<1>1. StatsInv => TypeOK
  BY DEF StatsInv
<1> QED
  BY <1>1, Inductive, PTL

\* What a reply tells a client has been counted (server.cc:102-117 counts
\* before it replies).
THEOREM Replies == Spec => []RepliesCounted
<1>1. StatsInv => RepliesCounted
  BY DEF StatsInv
<1> QED
  BY <1>1, Inductive, PTL

\* A StatsResponse shows at least what clients were told before it was asked
\* for (server.cc:60-77 reads the counters one by one).
THEOREM Snapshots == Spec => []SnapshotsCoverReplies
<1>1. StatsInv => SnapshotsCoverReplies
  <2> SUFFICES ASSUME StatsInv, NEW w \in Workers, pc[w] = "snapshot", todo[w] = {}
               PROVE  Covers(snap[w], floor[w])
    BY DEF SnapshotsCoverReplies
  <2>1. floor[w] \in Values /\ snap[w] \in Values
    BY DEF StatsInv, TypeOK
  <2> QED
    BY <2>1 DEF StatsInv, SnapshotsUnderway, Covers, Values
<1> QED
  BY <1>1, Inductive, PTL

\* types.h:71: the counters are monotonic.
THEOREM Monotonic == Spec => CountersMonotonic
<1>1. StatsInv /\ [Next]_vars => [Covers(Counted', Counted)]_vars
  BY Grows DEF StatsInv
<1> QED
  BY <1>1, Inductive, PTL DEF Spec, CountersMonotonic
-----------------------------------------------------------------------------
(***************************************************************************)
(* QuietExact: which message is behind each counted rerank, and behind the *)
(* maximum.                                                                *)
(***************************************************************************)

\* A worker still handles rerank m.
Handled(m) == \E w \in Workers : job[w].kind = "Rerank" /\ job[w].num = m

\* The latency of a message under way is known. A rerank that is in one of
\* the two sums is in both and under the maximum, or its worker is not done;
\* and a message with the latency of the maximum is counted, or not done.
Tallied ==
  /\ \A w \in Workers : job[w] # NoJob =>
       job[w].num <= messages /\ latency[job[w].num] = job[w].latency
  /\ \A m \in sums["rerank_count"] \cup sums["rerank_latency_sum_us"] :
       /\ m <= messages
       /\ \/ Handled(m)
          \/ /\ m \in sums["rerank_count"] /\ m \in sums["rerank_latency_sum_us"]
             /\ latency[m] <= max
  /\ max > 0 => \E m \in Messages :
       /\ m <= messages /\ latency[m] = max
       /\ Handled(m) \/ m \in sums["rerank_count"]

\* Only reranks update the rerank counters.
LEMMA RerankUpdates ==
  \A k \in Kinds :
    \/ "rerank_count" \in Updates(k) \/ "rerank_latency_sum_us" \in Updates(k)
    \/ "rerank_latency_max_us" \in Updates(k)
    => k = "Rerank"
  BY DEF AllKinds, Updates

\* A step that leaves messages, their workers and the counters alone.
LEMMA TalliedKept ==
  ASSUME Tallied, UNCHANGED <<job, sums, max, latency, messages>>
  PROVE  Tallied'
  BY DEF Tallied, Handled

LEMMA ReadTallied ==
  ASSUME TypeOK, Underway, Tallied, NEW w \in Workers, NEW k \in Kinds,
         NEW l \in Latencies \cup {0}, ReadMessage(w, k, l)
  PROVE  Tallied'
<1>1. /\ job[w] = NoJob /\ messages \in Nat /\ messages' = messages + 1
      /\ \A u \in Workers : job'[u] = IF u = w
           THEN [kind |-> k, num |-> messages + 1, latency |-> l] ELSE job[u]
      /\ UNCHANGED <<sums, max>>
  BY DEF ReadMessage, TypeOK, Underway
<1>2. /\ messages + 1 \in Messages
      /\ \A m \in Messages : latency'[m] = IF m = messages + 1 THEN l ELSE latency[m]
  BY DEF ReadMessage, TypeOK, Messages
<1>3. \A m \in Messages : m <= messages => m <= messages + 1 /\ latency'[m] = latency[m]
  BY <1>1, <1>2 DEF Messages
<1>4. \A u \in Workers : job[u] # NoJob => job[u].num \in Messages
  BY JobParts DEF TypeOK
<1>5. \A m : Handled(m) => Handled(m)'
  BY <1>1 DEF Handled, NoJob
<1>6. \A u \in Workers : job'[u] # NoJob =>
        job'[u].num <= messages' /\ latency'[job'[u].num] = job'[u].latency
  BY <1>1, <1>2, <1>3, <1>4 DEF Tallied
<1>7. \A m \in sums["rerank_count"] \cup sums["rerank_latency_sum_us"] : m \in Messages
  BY DEF TypeOK, Sums
<1> QED
  BY <1>1, <1>3, <1>5, <1>6, <1>7 DEF Tallied

LEMMA AddTallied ==
  ASSUME TypeOK, Underway, Tallied, NEW w \in Workers, NEW c \in Sums, FetchAdd(w, c)
  PROVE  Tallied'
<1>1. /\ UNCHANGED <<job, max, latency, messages>>
      /\ \A d \in Sums : sums'[d] = IF d = c THEN sums[d] \cup {job[w].num} ELSE sums[d]
  BY DEF FetchAdd, TypeOK
<1>2. /\ job[w] # NoJob /\ job[w] \in Job /\ c \in Updates(job[w].kind)
  BY Busy DEF FetchAdd, Underway
<1>3. {"rerank_count", "rerank_latency_sum_us"} \subseteq Sums
  BY DEF Sums
<1>4. \A m : Handled(m)' <=> Handled(m)
  BY <1>1 DEF Handled
<1>5. \A m \in sums'["rerank_count"] \cup sums'["rerank_latency_sum_us"] :
        \/ m \in sums["rerank_count"] \cup sums["rerank_latency_sum_us"]
        \/ m = job[w].num /\ Handled(m)
  <2>1. c \in {"rerank_count", "rerank_latency_sum_us"} => Handled(job[w].num)
    BY <1>2, JobParts, RerankUpdates DEF Handled
  <2> QED
    BY <1>1, <1>3, <2>1
<1>6. /\ sums["rerank_count"] \subseteq sums'["rerank_count"]
      /\ sums["rerank_latency_sum_us"] \subseteq sums'["rerank_latency_sum_us"]
  BY <1>1, <1>3
<1> QED
  BY <1>1, <1>2, <1>4, <1>5, <1>6 DEF Tallied

LEMMA SwapTallied ==
  ASSUME TypeOK, Underway, Tallied, NEW w \in Workers, SwapMax(w)
  PROVE  Tallied'
<1>1. /\ UNCHANGED <<job, sums, latency, messages>>
      /\ max' = max \/ (max' = job[w].latency /\ max < max')
  <2>1. job[w].latency \in Nat
    BY Busy, JobParts DEF SwapMax
  <2> QED
    BY <2>1 DEF SwapMax, TypeOK
<1>2. /\ job[w] \in Job /\ job[w] # NoJob /\ job[w].kind = "Rerank"
      /\ job[w].num \in Messages /\ job[w].latency \in Nat
  <2>1. job[w] \in Job /\ job[w] # NoJob
    BY Busy DEF SwapMax
  <2>2. "rerank_latency_max_us" \in Updates(job[w].kind)
    BY DEF SwapMax, Underway
  <2> QED
    BY <2>1, <2>2, JobParts, RerankUpdates
<1>3. Handled(job[w].num)
  BY <1>2 DEF Handled
<1>4. \A m : Handled(m)' <=> Handled(m)
  BY <1>1 DEF Handled
<1>5. CASE max' = max
  BY <1>1, <1>5, TalliedKept
<1>6. CASE max' = job[w].latency /\ max < max'
  <2>1. \A m \in sums["rerank_count"] : latency[m] \in Nat /\ max \in Nat
    <3>1. "rerank_count" \in Sums /\ Latencies \cup {0} \subseteq Nat
      BY DEF Sums
    <3>2. sums["rerank_count"] \subseteq Messages
      BY <3>1 DEF TypeOK
    <3> QED
      BY <3>1, <3>2 DEF TypeOK
  <2>2. \A m \in sums["rerank_count"] : latency[m] <= max => latency[m] <= max'
    BY <1>2, <1>6, <2>1
  <2>3. job[w].num <= messages /\ latency[job[w].num] = max'
    BY <1>2, <1>6 DEF Tallied
  <2> QED
    BY <1>1, <1>2, <1>3, <1>4, <2>2, <2>3 DEF Tallied
<1> QED
  BY <1>1, <1>5, <1>6

LEMMA ReplyTallied ==
  ASSUME TypeOK, Underway, Tallied, NEW w \in Workers, Reply(w)
  PROVE  Tallied'
<1>1. /\ UNCHANGED <<sums, max, latency, messages>>
      /\ \A u \in Workers : job'[u] = IF u = w THEN NoJob ELSE job[u]
  BY DEF Reply, TypeOK
<1>2. ASSUME job[w].kind = "Rerank"
      PROVE  /\ job[w].num \in sums["rerank_count"]
             /\ job[w].num \in sums["rerank_latency_sum_us"]
             /\ latency[job[w].num] <= max
  <2>1. pc[w] = "updating" /\ todo[w] = {} /\ job[w] # NoJob
    BY <1>2 DEF Reply, Underway
  <2>2. {"rerank_count", "rerank_latency_sum_us"} \subseteq Sums \cap Updates("Rerank")
    BY DEF Sums, Updates
  <2>3. "rerank_latency_max_us" \in Updates("Rerank")
    BY DEF Updates
  <2> QED
    BY <1>2, <2>1, <2>2, <2>3 DEF Underway, Tallied
<1>3. \A m : Handled(m) => Handled(m)' \/ (job[w].kind = "Rerank" /\ m = job[w].num)
  BY <1>1 DEF Handled
<1> QED
  BY <1>1, <1>2, <1>3 DEF Tallied

\* When no message is under way count and sum have the same reranks, none is
\* above the maximum, and one reaches it (server.cc:102-117).
THEOREM Quiet == Spec => []QuietExact
<1>1. Init => Tallied
  BY DEF Init, Tallied, Sums
<1>2. StatsInv /\ Tallied /\ [Next]_vars => Tallied'
  <2> SUFFICES ASSUME TypeOK, Underway, Tallied, [Next]_vars PROVE Tallied'
    BY DEF StatsInv
  <2>1. ASSUME NEW w \in Workers, NEW k \in Kinds, NEW l \in Latencies \cup {0},
               ReadMessage(w, k, l)
        PROVE  Tallied'
    BY <2>1, ReadTallied
  <2>2. ASSUME NEW w \in Workers, RejectFrame(w) PROVE Tallied'
    <3>1. messages' = messages + 1 /\ messages \in Nat /\ Messages \subseteq Nat
      BY <2>2 DEF RejectFrame, TypeOK, Messages
    <3>2. \A m \in Messages : m <= messages => m <= messages'
      BY <3>1
    <3>3. \A u \in Workers : job[u] # NoJob => job[u].num \in Messages
      BY JobParts DEF TypeOK
    <3>4. \A m \in sums["rerank_count"] \cup sums["rerank_latency_sum_us"] : m \in Messages
      BY DEF TypeOK, Sums
    <3> QED
      BY <2>2, <3>2, <3>3, <3>4 DEF RejectFrame, Tallied, Handled
  <2>3. ASSUME NEW w \in Workers, NEW c \in Sums, FetchAdd(w, c) PROVE Tallied'
    BY <2>3, AddTallied
  <2>4. ASSUME NEW w \in Workers, SwapMax(w) PROVE Tallied'
    BY <2>4, SwapTallied
  <2>5. ASSUME NEW w \in Workers, Reply(w) PROVE Tallied'
    BY <2>5, ReplyTallied
  <2>6. ASSUME NEW w \in Workers, StoreVersion(w) \/ LoadMax(w) PROVE Tallied'
    BY <2>6, TalliedKept DEF StoreVersion, LoadMax
  <2>7. ASSUME NEW w \in Workers, NEW c \in Counters, Load(w, c) PROVE Tallied'
    BY <2>7, TalliedKept DEF Load
  <2>8. CASE UNCHANGED vars
    BY <2>8, TalliedKept DEF vars
  <2> QED
    BY <2>1, <2>2, <2>3, <2>4, <2>5, <2>6, <2>7, <2>8 DEF Next
<1>3. StatsInv /\ Tallied => QuietExact
  <2> SUFFICES ASSUME TypeOK, Underway, Tallied, \A w \in Workers : pc[w] = "reading"
               PROVE  /\ sums["rerank_count"] = sums["rerank_latency_sum_us"]
                      /\ \A m \in sums["rerank_count"] : latency[m] <= max
                      /\ max > 0 => \E m \in sums["rerank_count"] : latency[m] = max
    BY DEF QuietExact, StatsInv
  <2>1. \A m : ~Handled(m)
    BY DEF Handled, Underway, NoJob
  <2> QED
    BY <2>1 DEF Tallied
<1> QED
  BY <1>1, <1>2, <1>3, Inductive, PTL DEF Spec
-----------------------------------------------------------------------------
(***************************************************************************)
(* The named pipe.                                                         *)
(***************************************************************************)

PipeIInv == PipeTypeOK /\ PipeInv

(* The first free instance is one.                                        *)
LEMMA FreshIsFree ==
  ASSUME Free # {}
  PROVE  Fresh \in Free
BY DEF Fresh

(* The inductive invariant holds at first.                                *)
THEOREM PipeInitInv == PipeInit => PipeIInv
<1> SUFFICES ASSUME PipeInit PROVE PipeIInv
  OBVIOUS
<1>1. Held = {}
  BY DEF PipeInit, Held, Owned
<1>2. PipeTypeOK
  BY <1>1, NamesAssumption DEF PipeInit, PipeTypeOK
<1>3. PipeInv
  <2>1. \A e \in Daemons : Owned(e) = {} /\ phase[e] = "down"
    BY DEF PipeInit, Owned
  <2>2. \A i \in Instances : peer[i] = Nobody /\ peer[i] \notin Clients
    BY NamesAssumption DEF PipeInit
  <2> QED
    BY <2>1, <2>2 DEF PipeInv, Owned, Free
<1> QED
  BY <1>2, <1>3 DEF PipeIInv

(* A daemon lets go of instances and closes them.                          *)
LEMMA ReleaseKeeps ==
  ASSUME PipeIInv, NEW d \in Daemons, NEW is \in SUBSET Owned(d), Close(is),
         ours' = [ours EXCEPT ![d] = @ \ is],
         served' = [served EXCEPT ![d] = @ \ is],
         phase' \in [Daemons -> {"down", "probing", "loading", "accepting",
                                 "created", "waiting", "cancelling", "ending"}],
         stop' \in [Daemons -> BOOLEAN], failed' \in [Daemons -> BOOLEAN],
         \A e \in Daemons \ {d} : /\ phase'[e] = phase[e] /\ stop'[e] = stop[e]
                                   /\ failed'[e] = failed[e],
         phase'[d] = "cancelling" => stop'[d] \/ failed'[d],
         ours[d] \subseteq is
           \/ phase'[d] \in {"probing", "created", "waiting", "cancelling"}
           \/ ours[d] = {}
  PROVE  PipeIInv'
<1> USE DEF PipeIInv
<1>1. \A e \in Daemons : Owned(e)' = IF e = d THEN Owned(e) \ is ELSE Owned(e)
  BY DEF PipeTypeOK, Owned
<1>2. \A i \in Instances : i \in Held' <=> i \in Held /\ i \notin is
  BY <1>1 DEF PipeInv, Held
<1>3. \A i \in Instances : peer'[i] = IF i \in is THEN Nobody ELSE peer[i]
  BY DEF Close
<1>4. PipeTypeOK'
  <2>1. ours' \in [Daemons -> SUBSET Instances] /\ served' \in [Daemons -> SUBSET Instances]
    BY DEF PipeTypeOK
  <2>2. \A e \in Daemons : \A i, j \in ours'[e] : i = j
    BY DEF PipeTypeOK
  <2>3. peer' \in [Instances -> Clients \cup {Nobody, Gone}]
    BY DEF PipeTypeOK, Close
  <2>4. client' \in [Clients -> {"idle", "looking", "opening", "refused", "open"}]
    BY DEF PipeTypeOK, Close
  <2>5. ASSUME NEW c \in Clients
        PROVE  client'[c] = "open" <=> \E i \in Held' : peer'[i] = c
    <3>1. client'[c] = IF \E i \in is : peer[i] = c THEN "idle" ELSE client[c]
      BY DEF Close
    <3>2. Held \subseteq Instances /\ Held' \subseteq Instances /\ is \subseteq Instances
      BY <2>1 DEF Held, Owned, PipeTypeOK
    <3>3. CASE \E i \in is : peer[i] = c
      BY <1>2, <1>3, <3>1, <3>2, <3>3, NamesAssumption DEF PipeInv
    <3>4. CASE ~ \E i \in is : peer[i] = c
      BY <1>2, <1>3, <3>1, <3>2, <3>4, NamesAssumption DEF PipeTypeOK
    <3> QED
      BY <3>3, <3>4
  <2> QED
    BY <2>1, <2>2, <2>3, <2>4, <2>5 DEF PipeTypeOK
<1>5. PipeInv'
  <2>1. \A i, j \in Instances : peer'[i] \in Clients /\ peer'[i] = peer'[j] => i = j
    BY <1>3, NamesAssumption DEF PipeInv
  <2>2. \A i \in Free' : peer'[i] = Nobody
    BY <1>2, <1>3 DEF PipeInv, Free
  <2>3. \A e, f \in Daemons : e # f => Owned(e)' \cap Owned(f)' = {}
    BY <1>1 DEF PipeInv
  <2>4. ASSUME NEW e \in Daemons
        PROVE  /\ ours'[e] # {} => phase'[e] \in {"probing", "created", "waiting", "cancelling"}
               /\ ours'[e] \cap served'[e] = {}
               /\ \A i \in served'[e] : peer'[i] # Nobody
               /\ phase'[e] = "cancelling" => stop'[e] \/ failed'[e]
    <3>1. ours'[e] = (IF e = d THEN ours[e] \ is ELSE ours[e])
      BY DEF PipeTypeOK
    <3>2. served'[e] = (IF e = d THEN served[e] \ is ELSE served[e])
      BY DEF PipeTypeOK
    <3>3. e # d => served[e] \cap is = {}
      BY DEF PipeInv, Owned
    <3>4. served[e] \subseteq Instances
      BY DEF PipeTypeOK
    <3>5. \A i \in served'[e] : peer'[i] # Nobody
      BY <1>3, <3>2, <3>3, <3>4 DEF PipeInv
    <3> QED
      BY <3>1, <3>2, <3>5 DEF PipeInv
  <2> QED
    BY <2>1, <2>2, <2>3, <2>4 DEF PipeInv
<1> QED
  BY <1>4, <1>5

(* A daemon makes an instance, or hands the one it has to a worker.         *)
LEMMA AcquireKeeps ==
  ASSUME PipeIInv, NEW d \in Daemons, Free # {}, ours[d] = {},
         ours' = [ours EXCEPT ![d] = {Fresh}],
         NEW q \in {"probing", "created"}, phase' = [phase EXCEPT ![d] = q],
         UNCHANGED <<served, stop, failed, peer, client>>
  PROVE  PipeIInv'
<1> USE DEF PipeIInv
<1>1. Fresh \in Free /\ Fresh \in Instances /\ Fresh \notin Held
  BY FreshIsFree DEF Free
<1>2. \A e \in Daemons : Owned(e)' = IF e = d THEN Owned(e) \cup {Fresh} ELSE Owned(e)
  BY DEF PipeTypeOK, Owned
<1>3. \A i : i \in Held' <=> i \in Held \/ i = Fresh
  BY <1>2 DEF Held
<1>4. peer[Fresh] = Nobody
  BY <1>1 DEF PipeInv
<1>5. PipeTypeOK'
  <2>1. ours' \in [Daemons -> SUBSET Instances]
    BY <1>1 DEF PipeTypeOK
  <2>2. \A e \in Daemons : \A i, j \in ours'[e] : i = j
    BY DEF PipeTypeOK
  <2>3. \A c \in Clients : client'[c] = "open" <=> \E i \in Held' : peer'[i] = c
    BY <1>3, <1>4, NamesAssumption DEF PipeTypeOK
  <2> QED
    BY <2>1, <2>2, <2>3 DEF PipeTypeOK
<1>6. PipeInv'
  <2>1. \A i \in Free' : peer'[i] = Nobody
    BY <1>3 DEF PipeInv, Free
  <2>2. \A e \in Daemons : Fresh \notin Owned(e)
    BY <1>1 DEF Held
  <2>3. \A e, f \in Daemons : e # f => Owned(e)' \cap Owned(f)' = {}
    BY <1>2, <2>2 DEF PipeInv
  <2>4. ASSUME NEW e \in Daemons
        PROVE  /\ ours'[e] # {} => phase'[e] \in {"probing", "created", "waiting", "cancelling"}
               /\ ours'[e] \cap served'[e] = {}
               /\ \A i \in served'[e] : peer'[i] # Nobody
               /\ phase'[e] = "cancelling" => stop'[e] \/ failed'[e]
    BY <2>2 DEF PipeInv, PipeTypeOK, Owned
  <2> QED
    BY <2>1, <2>3, <2>4 DEF PipeInv
<1> QED
  BY <1>5, <1>6

(* A worker takes over the instance whose client has come.                 *)
LEMMA HandOverKeeps ==
  ASSUME PipeIInv, NEW d \in Daemons, HandOver(d), \E i \in ours[d] : peer[i] # Nobody
  PROVE  PipeIInv'
<1> USE DEF PipeIInv, HandOver
<1>1. \A e \in Daemons : Owned(e)' = Owned(e)
  BY DEF PipeTypeOK, Owned
<1>2. Held' = Held
  BY <1>1 DEF Held
<1>3. \A i \in ours[d] : peer[i] # Nobody
  BY DEF PipeTypeOK
<1>4. PipeTypeOK'
  <2>1. ours' \in [Daemons -> SUBSET Instances] /\ served' \in [Daemons -> SUBSET Instances]
    BY DEF PipeTypeOK
  <2>2. \A e \in Daemons : \A i, j \in ours'[e] : i = j
    BY DEF PipeTypeOK
  <2> QED
    BY <1>2, <2>1, <2>2 DEF PipeTypeOK
<1>5. PipeInv'
  <2>1. \A i \in Free' : peer'[i] = Nobody
    BY <1>2 DEF PipeInv, Free
  <2>2. \A e, f \in Daemons : e # f => Owned(e)' \cap Owned(f)' = {}
    BY <1>1 DEF PipeInv
  <2>3. \A e \in Daemons :
           /\ ours'[e] # {} => phase'[e] \in {"probing", "created", "waiting", "cancelling"}
           /\ ours'[e] \cap served'[e] = {}
           /\ \A i \in served'[e] : peer'[i] # Nobody
           /\ phase'[e] = "cancelling" => stop'[e] \/ failed'[e]
    BY <1>3 DEF PipeInv, PipeTypeOK
  <2> QED
    BY <2>1, <2>2, <2>3 DEF PipeInv
<1> QED
  BY <1>4, <1>5

(* A client opens an instance that listens.                                *)
LEMMA OpenKeeps ==
  ASSUME PipeIInv, NEW c \in Clients, client[c] = "opening", NEW i \in Listens,
         peer' = [peer EXCEPT ![i] = c], client' = [client EXCEPT ![c] = "open"],
         UNCHANGED <<phase, ours, served, stop, failed>>
  PROVE  PipeIInv'
<1> USE DEF PipeIInv
<1>1. i \in Instances /\ i \in Held /\ peer[i] = Nobody
  BY DEF Listens, Held, Owned, PipeTypeOK
<1>2. Held' = Held /\ Held \subseteq Instances
  BY DEF Held, Owned, PipeTypeOK
<1>3. \A e \in Daemons : Owned(e)' = Owned(e)
  BY DEF Owned
<1>4. \A j \in Instances : peer[j] # c
  BY <1>2, NamesAssumption DEF PipeTypeOK, PipeInv, Free
<1>5. PipeTypeOK'
  <2>1. ASSUME NEW b \in Clients
        PROVE  client'[b] = "open" <=> \E j \in Held' : peer'[j] = b
    BY <1>1, <1>2, NamesAssumption DEF PipeTypeOK
  <2>2. /\ peer' \in [Instances -> Clients \cup {Nobody, Gone}]
        /\ client' \in [Clients -> {"idle", "looking", "opening", "refused", "open"}]
    BY DEF PipeTypeOK
  <2>3. UNCHANGED <<phase, ours, served, stop, failed>>
    OBVIOUS
  <2> QED
    BY <2>1, <2>2, <2>3 DEF PipeTypeOK
<1>6. PipeInv'
  <2>1. \A j, k \in Instances : peer'[j] \in Clients /\ peer'[j] = peer'[k] => j = k
    BY <1>1, <1>4 DEF PipeInv, PipeTypeOK
  <2>2. \A j \in Free' : peer'[j] = Nobody
    BY <1>1, <1>2 DEF PipeInv, Free, PipeTypeOK
  <2>3. \A e \in Daemons : \A j \in served'[e] : peer'[j] # Nobody
    BY <1>1, NamesAssumption DEF PipeInv, PipeTypeOK
  <2> QED
    BY <1>3, <2>1, <2>2, <2>3 DEF PipeInv
<1> QED
  BY <1>5, <1>6

(* A client closes its end.                                                *)
LEMMA LeaveKeeps ==
  ASSUME PipeIInv, NEW c \in Clients, Leave(c)
  PROVE  PipeIInv'
<1> USE DEF PipeIInv
<1>1. Held' = Held /\ Held \subseteq Instances
  BY DEF Leave, Held, Owned, PipeTypeOK
<1>2. \A e \in Daemons : Owned(e)' = Owned(e)
  BY DEF Leave, Owned
<1>3. \A j \in Instances : peer'[j] = IF peer[j] = c THEN Gone ELSE peer[j]
  BY DEF Leave
<1>4. PipeTypeOK'
  <2>1. ASSUME NEW b \in Clients
        PROVE  client'[b] = "open" <=> \E j \in Held' : peer'[j] = b
    BY <1>1, <1>3, NamesAssumption DEF PipeTypeOK, Leave
  <2>2. /\ peer' \in [Instances -> Clients \cup {Nobody, Gone}]
        /\ client' \in [Clients -> {"idle", "looking", "opening", "refused", "open"}]
    BY DEF PipeTypeOK, Leave
  <2>3. UNCHANGED <<phase, ours, served, stop, failed>>
    BY DEF Leave
  <2> QED
    BY <2>1, <2>2, <2>3 DEF PipeTypeOK
<1>5. PipeInv'
  <2>1. \A j, k \in Instances : peer'[j] \in Clients /\ peer'[j] = peer'[k] => j = k
    BY <1>3, NamesAssumption DEF PipeInv
  <2>2. \A j \in Free' : peer'[j] = Nobody
    BY <1>1, <1>3, NamesAssumption DEF PipeInv, Free
  <2>3. \A e \in Daemons : \A j \in served'[e] : peer'[j] # Nobody
    BY <1>3, NamesAssumption DEF PipeInv, PipeTypeOK, Leave
  <2> QED
    BY <1>2, <2>1, <2>2, <2>3 DEF PipeInv, Leave
<1> QED
  BY <1>4, <1>5

(* A step that leaves the handles alone.                                   *)
LEMMA PhaseKeeps ==
  ASSUME PipeIInv, NEW d \in Daemons,
         phase' \in [Daemons -> {"down", "probing", "loading", "accepting",
                                 "created", "waiting", "cancelling", "ending"}],
         stop' \in [Daemons -> BOOLEAN], failed' \in [Daemons -> BOOLEAN],
         \A e \in Daemons \ {d} : /\ phase'[e] = phase[e] /\ stop'[e] = stop[e]
                                   /\ failed'[e] = failed[e],
         phase'[d] = "cancelling" => stop'[d] \/ failed'[d],
         phase'[d] \in {"probing", "created", "waiting", "cancelling"} \/ ours[d] = {},
         UNCHANGED <<ours, served, peer, client>>
  PROVE  PipeIInv'
<1> USE DEF PipeIInv
<1>1. Held' = Held /\ Free' = Free /\ \A e \in Daemons : Owned(e)' = Owned(e)
  BY DEF Held, Owned, Free
<1>2. PipeTypeOK'
  BY <1>1 DEF PipeTypeOK
<1>3. PipeInv'
  <2>1. \A e \in Daemons :
          /\ ours'[e] # {} => phase'[e] \in {"probing", "created", "waiting", "cancelling"}
          /\ ours'[e] \cap served'[e] = {}
          /\ \A i \in served'[e] : peer'[i] # Nobody
          /\ phase'[e] = "cancelling" => stop'[e] \/ failed'[e]
    BY DEF PipeInv
  <2> QED
    BY <1>1, <2>1 DEF PipeInv
<1> QED
  BY <1>2, <1>3

(* A step of a client that leaves the connections alone.                   *)
LEMMA LookKeeps ==
  ASSUME PipeIInv, NEW c \in Clients, client[c] # "open",
         NEW q \in {"idle", "looking", "opening", "refused"},
         client' = [client EXCEPT ![c] = q],
         UNCHANGED <<phase, ours, served, stop, failed, peer>>
  PROVE  PipeIInv'
<1> USE DEF PipeIInv
<1>1. Held' = Held /\ Free' = Free /\ \A e \in Daemons : Owned(e)' = Owned(e)
  BY DEF Held, Owned, Free
<1>2. PipeTypeOK'
  BY <1>1 DEF PipeTypeOK
<1>3. PipeInv'
  BY <1>1 DEF PipeInv
<1> QED
  BY <1>2, <1>3

LEMMA GiveUpKeeps ==
  ASSUME PipeIInv, NEW d \in Daemons, GiveUp(d), failed' \in [Daemons -> BOOLEAN],
         \A e \in Daemons \ {d} : failed'[e] = failed[e]
  PROVE  PipeIInv'
<1>1. ours' = [ours EXCEPT ![d] = @ \ ours[d]]
  BY DEF PipeIInv, PipeTypeOK, GiveUp
<1>2. served' = [served EXCEPT ![d] = @ \ ours[d]]
  BY DEF PipeIInv, PipeTypeOK, PipeInv, GiveUp
<1>3. ours[d] \in SUBSET Owned(d)
  BY DEF Owned
<1> QED
  BY <1>1, <1>2, <1>3, ReleaseKeeps DEF PipeIInv, PipeTypeOK, GiveUp

LEMMA ExitKeeps ==
  ASSUME PipeIInv, NEW d \in Daemons, Exit(d)
  PROVE  PipeIInv'
<1>1. ours' = [ours EXCEPT ![d] = @ \ Owned(d)]
  BY DEF PipeIInv, PipeTypeOK, Exit, Owned
<1>2. served' = [served EXCEPT ![d] = @ \ Owned(d)]
  BY DEF PipeIInv, PipeTypeOK, Exit, Owned
<1>3. Close(Owned(d)) /\ ours[d] \subseteq Owned(d)
  BY DEF Exit, Owned
<1> QED
  BY <1>1, <1>2, <1>3, ReleaseKeeps DEF PipeIInv, PipeTypeOK, Exit

(* The inductive step, action by action.                                   *)
THEOREM PipeNextInv == PipeIInv /\ [PipeNext]_pipeVars => PipeIInv'
<1> SUFFICES ASSUME PipeIInv, [PipeNext]_pipeVars PROVE PipeIInv'
  OBVIOUS
<1>1. CASE UNCHANGED pipeVars
  BY <1>1 DEF pipeVars, PipeIInv, PipeTypeOK, PipeInv, Held, Owned, Free
<1>2. ASSUME NEW d \in Daemons, Probe(d) PROVE PipeIInv'
  <2>1. ours[d] = {}
    BY <1>2 DEF Probe, Held, Owned
  <2> QED
    BY <1>2, <2>1, AcquireKeeps DEF Probe
<1>3. ASSUME NEW d \in Daemons, EndProbe(d) PROVE PipeIInv'
  <2>1. ours' = [ours EXCEPT ![d] = @ \ ours[d]]
    BY <1>3 DEF PipeIInv, PipeTypeOK, EndProbe
  <2>2. served' = [served EXCEPT ![d] = @ \ ours[d]]
    BY <1>3 DEF PipeIInv, PipeTypeOK, PipeInv, EndProbe
  <2>3. ours[d] \in SUBSET Owned(d)
    BY DEF Owned
  <2> QED
    BY <1>3, <2>1, <2>2, <2>3, ReleaseKeeps DEF PipeIInv, PipeTypeOK, EndProbe
<1>4. ASSUME NEW d \in Daemons, Run(d) PROVE PipeIInv'
  BY <1>4, PhaseKeeps DEF Run, PipeIInv, PipeTypeOK, PipeInv
<1>5. ASSUME NEW d \in Daemons, Create(d) PROVE PipeIInv'
  <2>1. ours[d] = {}
    BY <1>5 DEF Create, PipeIInv, PipeInv
  <2> QED
    BY <1>5, <2>1, AcquireKeeps DEF Create
<1>6. ASSUME NEW d \in Daemons, CreateFails(d) PROVE PipeIInv'
  <2>1. failed' \in [Daemons -> BOOLEAN] /\ ours[d] = {}
    BY <1>6 DEF CreateFails, PipeIInv, PipeTypeOK, PipeInv
  <2>2. \A e \in Daemons \ {d} : phase'[e] = phase[e] /\ failed'[e] = failed[e]
    BY <1>6 DEF CreateFails, PipeIInv, PipeTypeOK
  <2>3. phase'[d] = "ending"
    BY <1>6 DEF CreateFails, PipeIInv, PipeTypeOK
  <2> QED
    BY <1>6, <2>1, <2>2, <2>3, PhaseKeeps DEF CreateFails, PipeIInv, PipeTypeOK
<1>7. ASSUME NEW d \in Daemons, ConnectNamedPipe(d) PROVE PipeIInv'
  <2>1. CASE UNCHANGED <<ours, served, stop, failed, peer, client>>
             /\ phase' = [phase EXCEPT ![d] = "waiting"]
    BY <2>1, PhaseKeeps DEF PipeIInv, PipeTypeOK
  <2>2. CASE HandOver(d) /\ \E i \in ours[d] : peer[i] \in Clients
    BY <2>2, HandOverKeeps, NamesAssumption
  <2>3. CASE GiveUp(d) /\ UNCHANGED failed
    BY <2>3, GiveUpKeeps DEF PipeIInv, PipeTypeOK
  <2> QED
    BY <1>7, <2>1, <2>2, <2>3 DEF ConnectNamedPipe
<1>8. ASSUME NEW d \in Daemons, Connected(d) PROVE PipeIInv'
  BY <1>8, HandOverKeeps DEF Connected
<1>9. ASSUME NEW d \in Daemons, Woken(d) PROVE PipeIInv'
  BY <1>9, PhaseKeeps DEF Woken, PipeIInv, PipeTypeOK
<1>10. ASSUME NEW d \in Daemons, Cancel(d) PROVE PipeIInv'
  BY <1>10, GiveUpKeeps DEF Cancel, PipeIInv, PipeTypeOK
<1>11. ASSUME NEW d \in Daemons, Exit(d) PROVE PipeIInv'
  BY <1>11, ExitKeeps
<1>12. ASSUME NEW d \in Daemons, CtrlEvent(d) PROVE PipeIInv'
  <2>1. stop' \in [Daemons -> BOOLEAN] /\ stop'[d]
    BY <1>12 DEF CtrlEvent, PipeIInv, PipeTypeOK
  <2>2. /\ \A e \in Daemons \ {d} : stop'[e] = stop[e]
        /\ failed' = failed /\ failed \in [Daemons -> BOOLEAN]
    BY <1>12 DEF CtrlEvent, PipeIInv, PipeTypeOK
  <2>3. phase[d] \in {"probing", "created", "waiting", "cancelling"} \/ ours[d] = {}
    BY DEF PipeIInv, PipeInv
  <2>4. phase' = phase /\ phase \in [Daemons -> {"down", "probing", "loading", "accepting",
                                 "created", "waiting", "cancelling", "ending"}]
    BY <1>12 DEF CtrlEvent, PipeIInv, PipeTypeOK
  <2> QED
    BY <1>12, <2>1, <2>2, <2>3, <2>4, PhaseKeeps DEF CtrlEvent
<1>13. ASSUME NEW d \in Daemons, NEW i \in Instances, WorkerEnds(d, i) PROVE PipeIInv'
  <2>1. ours' = [ours EXCEPT ![d] = @ \ {i}]
    BY <1>13 DEF PipeIInv, PipeTypeOK, PipeInv, WorkerEnds
  <2>2. {i} \in SUBSET Owned(d)
    BY <1>13 DEF WorkerEnds, Owned
  <2>3. ours[d] = {} \/ phase'[d] \in {"probing", "created", "waiting", "cancelling"}
    BY <1>13 DEF WorkerEnds, PipeIInv, PipeInv
  <2>4. /\ Close({i}) /\ UNCHANGED <<phase, stop, failed>>
        /\ served' = [served EXCEPT ![d] = @ \ {i}]
    BY <1>13 DEF WorkerEnds
  <2>5. phase[d] = "cancelling" => stop[d] \/ failed[d]
    BY DEF PipeIInv, PipeInv
  <2> QED
    BY <2>1, <2>2, <2>3, <2>4, <2>5, ReleaseKeeps DEF PipeIInv, PipeTypeOK
<1>14. ASSUME NEW c \in Clients, Connect(c) PROVE PipeIInv'
  BY <1>14, LookKeeps DEF Connect
<1>15. ASSUME NEW c \in Clients, WaitNamedPipe(c) PROVE PipeIInv'
  BY <1>15, LookKeeps DEF WaitNamedPipe
<1>16. ASSUME NEW c \in Clients, CreateFile(c) PROVE PipeIInv'
  <2>1. CASE \E i \in Listens : /\ peer' = [peer EXCEPT ![i] = c]
                                 /\ client' = [client EXCEPT ![c] = "open"]
    BY <1>16, <2>1, OpenKeeps DEF CreateFile
  <2>2. CASE /\ UNCHANGED peer
             /\ \E q \in {"looking", "refused"} : client' = [client EXCEPT ![c] = q]
    BY <1>16, <2>2, LookKeeps DEF CreateFile
  <2> QED
    BY <1>16, <2>1, <2>2 DEF CreateFile
<1>17. ASSUME NEW c \in Clients, GiveUpLooking(c) PROVE PipeIInv'
  BY <1>17, LookKeeps DEF GiveUpLooking
<1>18. ASSUME NEW c \in Clients, Leave(c) PROVE PipeIInv'
  BY <1>18, LeaveKeeps
<1>19. ASSUME NEW d \in Daemons, AcceptFails(d) PROVE PipeIInv'
  BY <1>19, GiveUpKeeps DEF AcceptFails, PipeIInv, PipeTypeOK
<1>20. ASSUME NEW d \in Daemons, WaitFails(d) PROVE PipeIInv'
  <2>1. failed' \in [Daemons -> BOOLEAN] /\ failed'[d]
    BY <1>20 DEF WaitFails, PipeIInv, PipeTypeOK
  <2>2. \A e \in Daemons \ {d} : phase'[e] = phase[e] /\ failed'[e] = failed[e]
    BY <1>20 DEF WaitFails, PipeIInv, PipeTypeOK
  <2> QED
    BY <1>20, <2>1, <2>2, PhaseKeeps DEF WaitFails, PipeIInv, PipeTypeOK
<1> QED
  BY <1>1, <1>2, <1>3, <1>4, <1>5, <1>6, <1>7, <1>8, <1>9, <1>10, <1>11, <1>12,
     <1>13, <1>14, <1>15, <1>16, <1>17, <1>18, <1>19, <1>20 DEF PipeNext, Accepts

(* The handles of instances have one owner each, for any daemons, clients  *)
(* and instances.                                                          *)
THEOREM PipeInductive == PipeSpec => [](PipeTypeOK /\ PipeInv)
<1>1. PipeSpec => []PipeIInv
  BY PipeInitInv, PipeNextInv, PTL DEF PipeSpec
<1> QED
  BY <1>1, PTL DEF PipeIInv

(* Type correctness; a client has a connection if and only if an instance  *)
(* is connected to it.                                                     *)
THEOREM PipeTypeCorrect == PipeSpec => []PipeTypeOK
BY PipeInductive, PTL

(* No instance is left open that nobody will accept.                       *)
THEOREM Attended == PipeSpec => []ListenersAttended
<1>1. PipeTypeOK /\ PipeInv => ListenersAttended
  <2> SUFFICES ASSUME PipeTypeOK, PipeInv, NEW i \in Listens
               PROVE  \E d \in Daemons : i \in ours[d]
                        /\ phase[d] \in {"probing", "created", "waiting", "cancelling"}
    BY DEF ListenersAttended
  <2>1. PICK d \in Daemons : i \in Owned(d)
    BY DEF Listens, Held
  <2> QED
    BY <2>1 DEF PipeInv, Listens, Owned
<1> QED
  BY <1>1, PipeInductive, PTL

(* A client is cut off before its worker takes it only by the probe, a      *)
(* shutdown, a call of Accept that fails, or the end of the process.       *)
THEOREM EarlyClientsServed == PipeSpec => NobodyTurnedAway
<1>1. ASSUME PipeIInv, [PipeNext]_pipeVars, NEW d \in Daemons, NEW i \in ours[d],
             peer[i] \in Clients, client[peer[i]] = "open",
             client'[peer[i]] = "idle", peer'[i] = Nobody
      PROVE  phase[d] = "probing" \/ stop[d] \/ failed'[d] \/ phase'[d] = "down"
  <2> PICK c \in Clients : c = peer[i]
    BY <1>1
  <2>1. i \in Instances /\ i \in Owned(d) /\ c = peer[i]
    BY <1>1 DEF PipeIInv, PipeTypeOK, Owned
  <2>2. ASSUME NEW is \in SUBSET Instances, Close(is) PROVE i \in is
    <3>1. client'[c] = IF \E j \in is : peer[j] = c THEN "idle" ELSE client[c]
      BY <2>2 DEF Close
    <3>2. PICK j \in is : peer[j] = c
      BY <1>1, <2>1, <3>1
    <3> QED
      BY <1>1, <2>1, <2>2, <3>2 DEF PipeIInv, PipeInv
  <2>3. ASSUME NEW e \in Daemons, NEW is \in SUBSET Owned(e), Close(is) PROVE e = d
    <3>1. is \in SUBSET Instances
      BY <1>1 DEF Owned, PipeIInv, PipeTypeOK
    <3>2. i \in Owned(e)
      BY <2>2, <2>3, <3>1
    <3> QED
      BY <1>1, <2>1, <3>2 DEF PipeIInv, PipeInv
  <2>4. UNCHANGED peer \/ UNCHANGED client => FALSE
    BY <1>1, NamesAssumption
  <2>5. ASSUME NEW e \in Daemons, GiveUp(e) PROVE e = d
    BY <2>3, <2>5 DEF GiveUp, Owned
  <2>6. ASSUME NEW e \in Daemons, EndProbe(e) PROVE phase[d] = "probing"
    BY <2>3, <2>6 DEF EndProbe, Owned
  <2>7. ASSUME NEW e \in Daemons, ConnectNamedPipe(e) PROVE FALSE
    <3>1. PICK j \in ours[e] : peer[j] = Gone /\ GiveUp(e)
      BY <2>4, <2>7 DEF ConnectNamedPipe, HandOver
    <3>2. j = i
      BY <1>1, <2>5, <3>1 DEF PipeIInv, PipeTypeOK
    <3> QED
      BY <1>1, <3>1, <3>2, NamesAssumption
  <2>8. ASSUME NEW e \in Daemons, Cancel(e) PROVE stop[d] \/ failed'[d]
    BY <1>1, <2>5, <2>8 DEF Cancel, PipeIInv, PipeInv
  <2>9. ASSUME NEW e \in Daemons, Exit(e) PROVE phase'[d] = "down"
    BY <1>1, <2>3, <2>9 DEF Exit, Owned, PipeIInv, PipeTypeOK
  <2>10. ASSUME NEW e \in Daemons, NEW j \in Instances, WorkerEnds(e, j) PROVE FALSE
    <3>1. {j} \in SUBSET Owned(e) /\ j \in served[e]
      BY <2>10 DEF WorkerEnds, Owned
    <3>2. e = d
      BY <2>3, <2>10, <3>1 DEF WorkerEnds
    <3>3. i \in {j}
      BY <2>2, <2>10 DEF WorkerEnds
    <3> QED
      BY <1>1, <3>1, <3>2, <3>3 DEF PipeIInv, PipeInv
  <2>11. ASSUME NEW b \in Clients, Leave(b) PROVE FALSE
    BY <1>1, <2>1, <2>11, NamesAssumption DEF Leave
  <2>12. ASSUME NEW b \in Clients, CreateFile(b) PROVE FALSE
    BY <1>1, <2>1, <2>4, <2>12 DEF CreateFile, PipeIInv, PipeTypeOK
  <2>13. ASSUME NEW e \in Daemons,
                Probe(e) \/ Run(e) \/ Create(e) \/ CreateFails(e) \/ Connected(e)
                  \/ Woken(e) \/ WaitFails(e) \/ CtrlEvent(e)
         PROVE  FALSE
    BY <2>4, <2>13 DEF Probe, Run, Create, CreateFails, Connected, HandOver, Woken,
       WaitFails, CtrlEvent
  <2>14. ASSUME NEW b \in Clients, Connect(b) \/ WaitNamedPipe(b) \/ GiveUpLooking(b)
         PROVE  FALSE
    BY <2>4, <2>14 DEF Connect, WaitNamedPipe, GiveUpLooking
  <2>15. ASSUME NEW e \in Daemons, AcceptFails(e) PROVE failed'[d]
    BY <1>1, <2>5, <2>15 DEF AcceptFails, PipeIInv, PipeTypeOK
  <2> QED
    BY <1>1, <2>4, <2>6, <2>7, <2>8, <2>9, <2>10, <2>11, <2>12, <2>13, <2>14, <2>15
    DEF PipeNext, Accepts, pipeVars
<1>2. PipeIInv /\ [PipeNext]_pipeVars =>
        [\A d \in Daemons : \A i \in ours[d] :
           peer[i] \in Clients /\ client[peer[i]] = "open"
             /\ client'[peer[i]] = "idle" /\ peer'[i] = Nobody =>
             phase[d] = "probing" \/ stop[d] \/ failed'[d] \/ phase'[d] = "down"]_pipeVars
  BY <1>1
<1> QED
  BY <1>2, PipeInitInv, PipeNextInv, PTL DEF PipeSpec, NobodyTurnedAway

=============================================================================
