---------------------------- MODULE ComputeOrder ----------------------------
(***************************************************************************)
(* The order in which the librime filter yields its candidates: keystroke  *)
(* after keystroke, compute_order of dafeng_rerank.lua pins the first few, *)
(* asks the daemon for an order of the next few, and lets the rest follow. *)
(*                                                                         *)
(* Candidates are named by their position 1..n in librime's order. The     *)
(* daemon is a program of its own, perhaps of another version, so its      *)
(* reply is any sequence of integers (Indices, 0-based); the rerankers of  *)
(* this repository all return a permutation (Permutes).                    *)
(***************************************************************************)
EXTENDS Integers, Sequences

CONSTANTS
  OptionSets,   \* option sets a session of the input method may have
  Indices,      \* integers a reply may hold
  MaxN,         \* bound: candidates of a keystroke
  MaxReply      \* bound: integers in a reply

Options == [enabled : BOOLEAN, client : BOOLEAN,
            protect_top_n : Int, max_rerank : Int]

ASSUME OptionAssumption == OptionSets \subseteq Options
ASSUME IndexAssumption  == Indices \subseteq Int
ASSUME SizeAssumption   == MaxN \in Nat /\ MaxReply \in Nat

VARIABLES
  options,   \* env.options, and whether there is a client
  n,         \* #buffered
  pc,        \* place in compute_order
  out,       \* out
  reply,     \* the indices in the daemon's reply, 0-based
  i,         \* loop index
  emitted    \* the keys of the table emitted

vars == <<options, n, pc, out, reply, i, emitted>>

AtMost(a, b)  == IF a < b THEN a ELSE b
AtLeast(a, b) == IF a > b THEN a ELSE b

protect_n    == AtLeast(0, AtMost(options.protect_top_n, n))
rerank_start == protect_n + 1
rerank_end   == AtMost(protect_n + options.max_rerank, n)
Block        == rerank_start..rerank_end

\* The candidates a, a+1, ..., b.
Run(a, b) == [k \in 1..(IF b < a THEN 0 ELSE b - a + 1) |-> a + k - 1]

Bypass == ~options.enabled \/ ~options.client \/ options.max_rerank < 1

\* Mutant of indices: the bridge hands the 0-based indices on.
indices_ZeroBased == reply

\* result.indices: the bridge adds one to each index.
indices == [k \in DOMAIN reply |-> reply[k] + 1]

\* Sequences of at most m members of S, without Seq, which TLC cannot list.
UpTo(S, m) == UNION {[1..k -> S] : k \in 0..m}

Init ==
  /\ options \in OptionSets
  /\ n = 0
  /\ pc = "done"
  /\ out = <<>>
  /\ reply = <<>>
  /\ i = 1
  /\ emitted = {}
-----------------------------------------------------------------------------
\* librime hands the filter the candidates of the next keystroke.
Keystroke(m) ==
  /\ pc = "done"
  /\ n' = m
  /\ pc' = "start"
  /\ out' = <<>>
  /\ reply' = <<>>
  /\ i' = 1
  /\ emitted' = {}
  /\ UNCHANGED options

\* No candidates, the filter is off, or there is nobody to ask.
PassThrough ==
  /\ pc = "start"
  /\ n = 0 \/ Bypass
  /\ out' = Run(1, n)
  /\ pc' = "done"
  /\ UNCHANGED <<options, n, reply, i, emitted>>

Protect ==
  /\ pc = "start"
  /\ n > 0 /\ ~Bypass
  /\ out' = Run(1, protect_n)
  /\ pc' = IF rerank_end >= rerank_start THEN "asking" ELSE "tail"
  /\ UNCHANGED <<options, n, reply, i, emitted>>

\* client:rerank returns.
Ask(r) ==
  /\ pc = "asking"
  /\ reply' = r
  /\ pc' = IF r = <<>> THEN "fallback" ELSE "taking"
  /\ UNCHANGED <<options, n, out, i, emitted>>

\* nil (no daemon, timeout, no memory) or an error raised inside.
AskFails ==
  /\ pc = "asking"
  /\ pc' = "fallback"
  /\ UNCHANGED <<options, n, out, reply, i, emitted>>

\* Mutant of TakeIndex: the lower end of the block is not looked at.
TakeIndex_Unprotected ==
  /\ pc = "taking"
  /\ i <= Len(indices)
  /\ LET actual == indices[i] + protect_n
     IN IF actual >= 1 /\ actual <= rerank_end
          THEN out' = Append(out, actual) /\ emitted' = emitted \cup {actual}
          ELSE UNCHANGED <<out, emitted>>
  /\ i' = i + 1
  /\ UNCHANGED <<options, n, pc, reply>>

\* One turn of the loop over the reply.
TakeIndex ==
  /\ pc = "taking"
  /\ i <= Len(indices)
  /\ LET actual == indices[i] + protect_n
     IN IF actual \in Block
          THEN out' = Append(out, actual) /\ emitted' = emitted \cup {actual}
          ELSE UNCHANGED <<out, emitted>>
  /\ i' = i + 1
  /\ UNCHANGED <<options, n, pc, reply>>

\* Mutant of Taken: trusts the reply to name every candidate.
Taken_TrustsReply ==
  /\ pc = "taking"
  /\ i > Len(indices)
  /\ pc' = "filling"
  /\ i' = rerank_end + 1
  /\ UNCHANGED <<options, n, out, reply, emitted>>

Taken ==
  /\ pc = "taking"
  /\ i > Len(indices)
  /\ pc' = "filling"
  /\ i' = rerank_start
  /\ UNCHANGED <<options, n, out, reply, emitted>>

\* One turn of the loop that emits what the reply left out.
FillDropped ==
  /\ pc = "filling"
  /\ i <= rerank_end
  /\ out' = IF i \in emitted THEN out ELSE Append(out, i)
  /\ i' = i + 1
  /\ UNCHANGED <<options, n, pc, reply, emitted>>

Filled ==
  /\ pc = "filling"
  /\ i > rerank_end
  /\ pc' = "tail"
  /\ UNCHANGED <<options, n, out, reply, i, emitted>>

Fallback ==
  /\ pc = "fallback"
  /\ out' = out \o Run(rerank_start, rerank_end)
  /\ pc' = "tail"
  /\ UNCHANGED <<options, n, reply, i, emitted>>

TailFollows ==
  /\ pc = "tail"
  /\ out' = out \o Run(rerank_end + 1, n)
  /\ pc' = "done"
  /\ UNCHANGED <<options, n, reply, i, emitted>>

Next ==
  \/ \E m \in 0..MaxN : Keystroke(m)
  \/ PassThrough \/ Protect
  \/ \E r \in UpTo(Indices, MaxReply) : Ask(r)
  \/ AskFails \/ TakeIndex \/ Taken \/ FillDropped \/ Filled
  \/ Fallback \/ TailFollows

Spec == Init /\ [][Next]_vars
-----------------------------------------------------------------------------
(***************************************************************************)
(* Properties.                                                             *)
(***************************************************************************)

TypeOK ==
  /\ options \in OptionSets
  /\ n \in 0..MaxN
  /\ pc \in {"start", "asking", "taking", "filling", "fallback", "tail", "done"}
  /\ out \in Seq(1..n)
  /\ reply \in Seq(Int)
  /\ i \in Nat \ {0}
  /\ emitted \subseteq Block

\* dafeng_rerank.lua:78-90 with :103: whatever the daemon answers, whether it
\* drops candidates, repeats them, names none of them or does not answer,
\* the user is offered every candidate.
NothingLost ==
  pc = "done" => \A k \in 1..n : \E j \in 1..Len(out) : out[j] = k

\* dafeng_rerank.lua:10: the protected candidates never move, whatever the
\* daemon answers; no reply can bring a second copy of one in either.
ProtectedStay ==
  pc = "done" /\ ~Bypass =>
    \A j \in 1..Len(out) : j <= protect_n \/ out[j] <= protect_n => out[j] = j

Distinct(s) == \A j, k \in 1..Len(s) : s[j] = s[k] => j = k

\* A reply that names no candidate twice, however short, long or out of
\* range, never makes the filter offer a candidate twice.
NoneTwice == Distinct(reply) => Distinct(out)

\* s orders 0..(k-1): what every reranker of the daemon returns.
Permutes(s, k) ==
  /\ Len(s) = k
  /\ Distinct(s)
  /\ \A j \in 1..k : s[j] \in 0..(k - 1)
  /\ \A m \in 0..(k - 1) : \E j \in 1..k : s[j] = m

\* A reranker's order reaches the user as it is: the block is in the order of
\* the reply, between the protected candidates and the rest, and all others
\* stay where they were.
ReplyRespected ==
  pc = "done" /\ reply # <<>> /\ Permutes(reply, rerank_end - protect_n) =>
    \A j \in 1..n :
      out[j] = IF j \in Block THEN rerank_start + reply[j - protect_n] ELSE j

\* The candidates in positions from..Len(out).
Offered(from) == {out[j] : j \in from..Len(out)}

\* What is out at each place.
Emitting ==
  /\ pc = "start" => out = <<>>
  /\ pc \in {"start", "asking", "fallback"} => reply = <<>>
  /\ pc \in {"start", "asking"} => emitted = {} /\ i = 1
  /\ pc \notin {"start", "done"} =>
       /\ n > 0 /\ ~Bypass
       /\ protect_n <= Len(out)
       /\ \A j \in 1..protect_n : out[j] = j
       /\ \A j \in rerank_start..Len(out) : out[j] \in Block
  /\ pc \in {"asking", "fallback"} => Len(out) = protect_n
  /\ pc \in {"asking", "fallback", "taking", "filling"} =>
       rerank_start <= rerank_end
  /\ pc = "taking" => Offered(rerank_start) = emitted
  /\ pc = "filling" =>
       /\ i \in rerank_start..(rerank_end + 1)
       /\ Offered(rerank_start) = emitted \cup (rerank_start..(i - 1))
  /\ pc = "tail" => Offered(rerank_start) = Block

\* Nothing is out that the reply still holds, if it holds nothing twice.
Unrepeated ==
  /\ pc = "taking" /\ Distinct(reply) =>
       \A j \in i..Len(reply) : rerank_start + reply[j] \notin emitted
  /\ pc = "taking" => i <= Len(reply) + 1

\* How far a permutation has been followed.
Following ==
  reply # <<>> /\ Permutes(reply, rerank_end - protect_n) =>
    /\ pc = "taking" => Len(out) = protect_n + i - 1
    /\ pc \in {"filling", "tail"} => Len(out) = rerank_end
    /\ pc = "filling" => emitted = Block
    /\ pc \in {"taking", "filling", "tail"} =>
         \A j \in rerank_start..Len(out) :
           out[j] = rerank_start + reply[j - protect_n]

\* The inductive invariant of RerankedOrderProofs.
OrderInv ==
  /\ TypeOK
  /\ Emitting
  /\ Unrepeated
  /\ Following
  /\ NothingLost
  /\ ProtectedStay
  /\ NoneTwice
  /\ ReplyRespected
=============================================================================
