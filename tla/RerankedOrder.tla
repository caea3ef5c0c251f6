--------------------------- MODULE RerankedOrder ---------------------------
(***************************************************************************)
(* ComputeOrder with the daemon behind it: a reply is either made by one of *)
(* this repository's rerankers from the scores of the candidates, or, as in *)
(* ComputeOrder, by a daemon of which nothing is known.                     *)
(*                                                                         *)
(* How a score is computed (a table of bigrams, the logits of a language    *)
(* model) is left out; any candidate may have any score, and the language  *)
(* model may be unable to score one, or all.                                *)
(***************************************************************************)
EXTENDS ComputeOrder, FiniteSets

CONSTANT Scores   \* scores of a candidate

ASSUME ScoreAssumption == Scores \subseteq Nat

VARIABLE served   \* who made the reply, and from which scores

allVars == <<vars, served>>

Nobody == [by |-> "nobody", scores |-> <<>>]

Sink == -1        \* -1e9: below every score
Failed == <<>>    \* ScoreCandidates returned nothing

\* The scores from which a backend orders k candidates.
Scored(backend, k) ==
  CASE backend \in {"deterministic", "mlx"} -> [1..k -> Scores]
    [] backend = "llama_cpp" -> [1..k -> Scores \cup {Sink}] \cup {Failed}
    [] backend = "mock" -> {Failed}

\* The comparison, and the place of the a-th score in the sorted order.
Before(scores, a, b) == scores[a] > scores[b] \/ (scores[a] = scores[b] /\ a < b)
Place(scores, a) == Cardinality({b \in DOMAIN scores : Before(scores, b, a)}) + 1

\* Mutant of ByScore: as std::sort may, the later of equals comes first.
ByScore_Unstable(scores) ==
  LET Later(a, b) == scores[a] > scores[b] \/ (scores[a] = scores[b] /\ a > b)
      At(a) == Cardinality({b \in DOMAIN scores : Later(b, a)}) + 1
  IN [p \in DOMAIN scores |-> (CHOOSE a \in DOMAIN scores : At(a) = p) - 1]

\* stable_sort by descending score, as 0-based indices.
ByScore(scores) ==
  [p \in DOMAIN scores |-> (CHOOSE a \in DOMAIN scores : Place(scores, a) = p) - 1]

\* IRerankService::Rerank for k candidates.
Rerank(backend, k, scores) ==
  IF backend = "mock" THEN [p \in 1..k |-> k - p]
  ELSE IF scores = Failed THEN [p \in 1..k |-> p - 1]
  ELSE ByScore(scores)

AllInit == Init /\ served = Nobody

\* A daemon built from this repository answers.
Serve(backend) ==
  LET k == rerank_end - protect_n
  IN /\ pc = "asking"
     /\ \E scores \in Scored(backend, k) :
          /\ Ask(Rerank(backend, k, scores))
          /\ served' = [by |-> backend, scores |-> scores]

\* Any other program answers.
ForeignReply ==
  /\ \E r \in UpTo(Indices, MaxReply) : Ask(r)
  /\ UNCHANGED served

NextKeystroke ==
  /\ \E m \in 0..MaxN : Keystroke(m)
  /\ served' = Nobody

FilterStep ==
  /\ \/ PassThrough \/ Protect \/ AskFails
     \/ TakeIndex \/ Taken \/ FillDropped \/ Filled \/ Fallback \/ TailFollows
  /\ UNCHANGED served

Backends == {"mock", "deterministic", "mlx", "llama_cpp"}

AllNext ==
  \/ NextKeystroke \/ FilterStep \/ ForeignReply
  \/ \E backend \in Backends : Serve(backend)

AllSpec == AllInit /\ [][AllNext]_allVars
-----------------------------------------------------------------------------
(***************************************************************************)
(* Properties.                                                             *)
(***************************************************************************)

\* The candidates that were reranked, as the user sees them.
Reranked(j, k) == j \in Block /\ k \in Block /\ j < k

\* DESIGN's R5 (reranker_deterministic.cc:140-141): the user is offered a better
\* candidate before a worse one, and candidates of equal score, those that
\* cannot be scored among them, in librime's order; all of them, whatever was
\* protected or is not reranked.
BestFirst ==
  pc = "done" /\ served.scores # <<>> =>
    \A j, k \in 1..Len(out) : Reranked(j, k) =>
      LET score(c) == served.scores[c - protect_n]
      IN \/ score(out[j]) > score(out[k])
         \/ score(out[j]) = score(out[k]) /\ out[j] < out[k]

\* reranker_llamacpp.cc:119-120: when the model cannot score, the candidates
\* are offered as if there were no daemon.
UnscoredUntouched ==
  pc = "done" /\ served.by = "llama_cpp" /\ served.scores = Failed =>
    out = Run(1, n)
=============================================================================
