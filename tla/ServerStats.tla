---------------------------- MODULE ServerStats ----------------------------
(***************************************************************************)
(* The daemon's counters: worker threads update them with relaxed atomic   *)
(* operations while others read them, one by one, into a StatsResponse.    *)
(*                                                                         *)
(* A counter that is only ever added to is modelled by the set of messages *)
(* added to it (addition commutes): rerank_count is the number of messages *)
(* in its set, rerank_latency_sum_us the sum of their latencies.           *)
(*                                                                         *)
(* Relaxed operations on different counters are not ordered, so a worker   *)
(* does its updates, and its reads, in any order. Operations on one        *)
(* counter have one order for all threads. The write() of a reply comes    *)
(* after the updates made for it, and the read() of a request before what  *)
(* is read for it. (uptime_sec is a clock, and left out.)                  *)
(***************************************************************************)
EXTENDS Naturals, FiniteSets

CONSTANTS
  Workers,      \* worker threads, one per connection
  Latencies,    \* latencies a rerank may have
  Version,      \* the backend's model_version
  Kinds,        \* kinds of messages that come
  MaxMessages   \* bound: messages read

ASSUME LatencyAssumption  == Latencies \subseteq Nat
ASSUME VersionAssumption  == Version \in Nat
ASSUME MessagesAssumption == MaxMessages \in Nat

Messages == 1..MaxMessages

\* The counters fetch_add goes to.
Sums == {"rerank_count", "rerank_latency_sum_us", "ping_count",
         "commit_count", "error_count"}

\* What handling a message of each kind updates. ("Other" is a message that
\* decodes but is not for a server; a "Malformed" one is never handled.)
Updates(k) ==
  CASE k = "Rerank" -> {"rerank_count", "rerank_latency_sum_us",
                        "rerank_latency_max_us", "rerank_model_version"}
    [] k = "Ping"   -> {"ping_count"}
    [] k = "Commit" -> {"commit_count"}
    [] k = "Other"  -> {"error_count"}
    [] OTHER        -> {}

AllKinds == {"Rerank", "Ping", "Commit", "Stats", "Other", "Malformed"}

ASSUME KindsAssumption == Kinds \subseteq AllKinds

Counters == Sums \cup {"rerank_latency_max_us", "rerank_model_version"}

VARIABLES
  sums,       \* sums[c]: the messages added to counter c
  max,        \* rerank_latency_max_us_
  version,    \* rerank_model_version_
  pc,         \* pc[w]: "reading" | "updating" | "swapping" | "snapshot"
  job,        \* job[w]: the message worker w handles: [kind, num, latency]
  todo,       \* todo[w]: counters still to update, or to read
  prev_max,   \* prev_max[w]: the maximum w last saw
  snap,       \* snap[w]: the StatsResponse w fills in
  \* history
  told,       \* what the replies sent so far say the counters have reached
  floor,      \* floor[w]: told, when w read its StatsRequest
  latency,    \* latency[m]: of message m, once it is known
  messages    \* number of messages read

vars == <<sums, max, version, pc, job, todo, prev_max, snap, told, floor,
          latency, messages>>

NoJob   == [kind |-> "None", num |-> 0, latency |-> 0]
Job     == [kind : Kinds, num : Messages, latency : Latencies \cup {0}]
Nothing == [sums |-> [c \in Sums |-> {}], max |-> 0, version |-> 0]
Values  == [sums : [Sums -> SUBSET Messages], max : Nat, version : Nat]

TypeOK ==
  /\ sums \in [Sums -> SUBSET Messages]
  /\ max \in Nat
  /\ version \in Nat
  /\ pc \in [Workers -> {"reading", "updating", "swapping", "snapshot"}]
  /\ job \in [Workers -> Job \cup {NoJob}]
  /\ todo \in [Workers -> SUBSET Counters]
  /\ prev_max \in [Workers -> Nat]
  /\ snap \in [Workers -> Values]
  /\ told \in Values
  /\ floor \in [Workers -> Values]
  /\ latency \in [Messages -> Latencies \cup {0}]
  /\ messages \in 0..MaxMessages

Init ==
  /\ sums = [c \in Sums |-> {}]
  /\ max = 0
  /\ version = 0
  /\ pc = [w \in Workers |-> "reading"]
  /\ job = [w \in Workers |-> NoJob]
  /\ todo = [w \in Workers |-> {}]
  /\ prev_max = [w \in Workers |-> 0]
  /\ snap = [w \in Workers |-> Nothing]
  /\ told = Nothing
  /\ floor = [w \in Workers |-> Nothing]
  /\ latency = [m \in Messages |-> 0]
  /\ messages = 0

Larger(a, b) == IF a > b THEN a ELSE b

\* The least values that are at least a and b.
Join(a, b) ==
  [sums |-> [c \in Sums |-> a.sums[c] \cup b.sums[c]],
   max |-> Larger(a.max, b.max),
   version |-> Larger(a.version, b.version)]

Covers(a, b) ==
  /\ \A c \in Sums : b.sums[c] \subseteq a.sums[c]
  /\ a.max >= b.max
  /\ a.version >= b.version

Counted == [sums |-> sums, max |-> max, version |-> version]
-----------------------------------------------------------------------------
\* A worker has read and decoded a message. A rerank is computed before
\* anything is counted.
ReadMessage(w, k, l) ==
  /\ pc[w] = "reading"
  /\ messages < MaxMessages
  /\ messages' = messages + 1
  /\ job' = [job EXCEPT ![w] = [kind |-> k, num |-> messages + 1, latency |-> l]]
  /\ latency' = [latency EXCEPT ![messages + 1] = l]
  /\ pc' = [pc EXCEPT ![w] = IF k = "Stats" THEN "snapshot" ELSE "updating"]
  /\ todo' = [todo EXCEPT ![w] = IF k = "Stats" THEN Counters ELSE Updates(k)]
  /\ snap' = [snap EXCEPT ![w] = Nothing]
  /\ floor' = [floor EXCEPT ![w] = told]
  /\ UNCHANGED <<sums, max, version, prev_max, told>>

\* A frame with a bad length, or a body that does not decode: the connection
\* is closed and nothing is counted. (The worker's place is taken by that of
\* the next connection.)
RejectFrame(w) ==
  /\ pc[w] = "reading"
  /\ messages < MaxMessages
  /\ messages' = messages + 1
  /\ UNCHANGED <<sums, max, version, pc, job, todo, prev_max, snap, told,
                 floor, latency>>

\* Mutant of FetchAdd: the sum is added to, the count is not.
FetchAdd_Skips(w, c) ==
  /\ pc[w] = "updating"
  /\ c \in todo[w]
  /\ sums' = [sums EXCEPT ![c] = IF c = "rerank_count" THEN @
                                 ELSE @ \cup {job[w].num}]
  /\ todo' = [todo EXCEPT ![w] = @ \ {c}]
  /\ UNCHANGED <<max, version, pc, job, prev_max, snap, told, floor, latency,
                 messages>>

FetchAdd(w, c) ==
  /\ pc[w] = "updating"
  /\ c \in todo[w]
  /\ sums' = [sums EXCEPT ![c] = @ \cup {job[w].num}]
  /\ todo' = [todo EXCEPT ![w] = @ \ {c}]
  /\ UNCHANGED <<max, version, pc, job, prev_max, snap, told, floor, latency,
                 messages>>

StoreVersion(w) ==
  /\ pc[w] = "updating"
  /\ "rerank_model_version" \in todo[w]
  /\ version' = Version
  /\ todo' = [todo EXCEPT ![w] = @ \ {"rerank_model_version"}]
  /\ UNCHANGED <<sums, max, pc, job, prev_max, snap, told, floor, latency,
                 messages>>

LoadMax(w) ==
  /\ pc[w] = "updating"
  /\ "rerank_latency_max_us" \in todo[w]
  /\ prev_max' = [prev_max EXCEPT ![w] = max]
  /\ pc' = [pc EXCEPT ![w] = "swapping"]
  /\ UNCHANGED <<sums, max, version, job, todo, snap, told, floor, latency,
                 messages>>

\* Mutant of SwapMax: a plain store instead of compare-exchange.
SwapMax_Stores(w) ==
  /\ pc[w] = "swapping"
  /\ max' = IF job[w].latency > prev_max[w] THEN job[w].latency ELSE max
  /\ pc' = [pc EXCEPT ![w] = "updating"]
  /\ todo' = [todo EXCEPT ![w] = @ \ {"rerank_latency_max_us"}]
  /\ UNCHANGED <<sums, version, job, prev_max, snap, told, floor, latency,
                 messages>>

\* One turn of the loop: done if the maximum is no smaller; else
\* compare_exchange_weak, which may fail without cause and then brings the
\* maximum it saw.
SwapMax(w) ==
  /\ pc[w] = "swapping"
  /\ \/ /\ \/ job[w].latency <= prev_max[w] /\ UNCHANGED max
           \/ /\ job[w].latency > prev_max[w]
              /\ max = prev_max[w]
              /\ max' = job[w].latency
        /\ pc' = [pc EXCEPT ![w] = "updating"]
        /\ todo' = [todo EXCEPT ![w] = @ \ {"rerank_latency_max_us"}]
        /\ UNCHANGED prev_max
     \/ /\ job[w].latency > prev_max[w]
        /\ prev_max' = [prev_max EXCEPT ![w] = max]
        /\ UNCHANGED <<max, pc, todo>>
  /\ UNCHANGED <<sums, version, job, snap, told, floor, latency, messages>>

\* What a reply to w's message says of the counters.
Says(w) ==
  CASE job[w].kind = "Rerank" ->
         [sums |-> [c \in Sums |-> IF c \in Updates("Rerank")
                                     THEN {job[w].num} ELSE {}],
          max |-> job[w].latency, version |-> Version]
    [] job[w].kind = "Ping" ->
         [Nothing EXCEPT !.sums["ping_count"] = {job[w].num}]
    [] job[w].kind = "Stats" -> snap[w]
    [] OTHER -> Nothing

\* Mutant of Reply: the reply is sent before the counters are updated.
Reply_First(w) ==
  /\ pc[w] \in {"updating", "snapshot"}
  /\ told' = Join(told, Says(w))
  /\ pc' = [pc EXCEPT ![w] = "reading"]
  /\ job' = [job EXCEPT ![w] = NoJob]
  /\ todo' = [todo EXCEPT ![w] = {}]
  /\ UNCHANGED <<sums, max, version, prev_max, snap, floor, latency, messages>>

\* The message is handled: its reply, if it has one, is sent, or cannot be
\* and the connection is closed.
Reply(w) ==
  /\ pc[w] \in {"updating", "snapshot"}
  /\ todo[w] = {}
  /\ told' \in {told, Join(told, Says(w))}
  /\ pc' = [pc EXCEPT ![w] = "reading"]
  /\ job' = [job EXCEPT ![w] = NoJob]
  /\ UNCHANGED <<sums, max, version, todo, prev_max, snap, floor, latency,
                 messages>>

\* GetStats loads one counter.
Load(w, c) ==
  /\ pc[w] = "snapshot"
  /\ c \in todo[w]
  /\ snap' = [snap EXCEPT ![w] =
       CASE c \in Sums -> [@ EXCEPT !.sums[c] = sums[c]]
         [] c = "rerank_latency_max_us" -> [@ EXCEPT !.max = max]
         [] c = "rerank_model_version" -> [@ EXCEPT !.version = version]]
  /\ todo' = [todo EXCEPT ![w] = @ \ {c}]
  /\ UNCHANGED <<sums, max, version, pc, job, prev_max, told, floor, latency,
                 messages>>

Next ==
  \E w \in Workers :
    \/ "Rerank" \in Kinds /\ \E l \in Latencies : ReadMessage(w, "Rerank", l)
    \/ \E k \in Kinds \ {"Rerank", "Malformed"} : ReadMessage(w, k, 0)
    \/ "Malformed" \in Kinds /\ RejectFrame(w)
    \/ \E c \in Sums : FetchAdd(w, c)
    \/ StoreVersion(w) \/ LoadMax(w) \/ SwapMax(w)
    \/ \E c \in Counters : Load(w, c)
    \/ Reply(w)

Spec == Init /\ [][Next]_vars
-----------------------------------------------------------------------------
(***************************************************************************)
(* Properties.                                                             *)
(***************************************************************************)

\* Whatever a reply has told a client, the counters have reached it: a rerank
\* that was answered is counted, its latency is in the sum and under the
\* maximum, although other workers race for the maximum.
RepliesCounted == Covers(Counted, told)

\* A StatsResponse never shows less, in any counter, than what any reply or
\* StatsResponse told any client before it was asked for, although its
\* counters are read one by one while workers update them.
SnapshotsCoverReplies ==
  \A w \in Workers :
    pc[w] = "snapshot" /\ todo[w] = {} => Covers(snap[w], floor[w])

\* When no message is being handled the three rerank counters agree: each
\* counted rerank is in the sum, none exceeds the maximum, and one reaches it.
QuietExact ==
  (\A w \in Workers : pc[w] = "reading") =>
    /\ sums["rerank_count"] = sums["rerank_latency_sum_us"]
    /\ \A m \in sums["rerank_count"] : latency[m] <= max
    /\ max > 0 => \E m \in sums["rerank_count"] : latency[m] = max

\* types.h:71: "All counters are monotonic since daemon start".
CountersMonotonic == [][Covers(Counted', Counted)]_vars

\* Where each update of a message under way is, and what has been read.
Underway ==
  /\ \A w \in Workers :
       /\ pc[w] = "reading" <=> job[w] = NoJob
       /\ pc[w] = "reading" => todo[w] = {}
       /\ pc[w] = "snapshot" <=> job[w].kind = "Stats"
       /\ pc[w] = "swapping" => "rerank_latency_max_us" \in todo[w]
       /\ prev_max[w] <= max
       /\ pc[w] \in {"updating", "swapping"} =>
            /\ todo[w] \subseteq Updates(job[w].kind)
            /\ \A c \in Sums \cap Updates(job[w].kind) :
                 c \in todo[w] \/ job[w].num \in sums[c]
            /\ "rerank_latency_max_us" \in Updates(job[w].kind) =>
                 "rerank_latency_max_us" \in todo[w] \/ job[w].latency <= max
            /\ "rerank_model_version" \in Updates(job[w].kind) =>
                 "rerank_model_version" \in todo[w] \/ version = Version
  /\ version <= Version

\* What w has read so far covers what it must; what it has yet to read does.
SnapshotsUnderway ==
  \A w \in Workers :
    /\ Covers(Counted, floor[w])
    /\ Covers(Counted, snap[w])
    /\ pc[w] = "snapshot" =>
         /\ \A c \in Sums : c \in todo[w] \/ floor[w].sums[c] \subseteq snap[w].sums[c]
         /\ "rerank_latency_max_us" \in todo[w] \/ floor[w].max <= snap[w].max
         /\ "rerank_model_version" \in todo[w] \/ floor[w].version <= snap[w].version

\* The inductive invariant of DaemonProofs.
StatsInv ==
  /\ TypeOK
  /\ Underway
  /\ SnapshotsUnderway
  /\ RepliesCounted
=============================================================================
