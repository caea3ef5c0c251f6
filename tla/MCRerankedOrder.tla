-------------------------- MODULE MCRerankedOrder --------------------------
(***************************************************************************)
(* RerankedOrder on small instances: the options a schema may set, and what *)
(* replies hold.                                                           *)
(***************************************************************************)
EXTENDS RerankedOrder

Schema(p, m) == [enabled |-> TRUE, client |-> TRUE,
                 protect_top_n |-> p, max_rerank |-> m]

\* Nothing, some and more than all is protected; none, some and more than
\* all is reranked; the filter is off; there is no client.
SomeOptions ==
  {Schema(p, m) : p \in {-1, 0, 1, 5}, m \in {0, 1, 3, 5}}
    \cup {[Schema(1, 3) EXCEPT !.enabled = FALSE],
          [Schema(1, 3) EXCEPT !.client = FALSE]}

\* From below the first candidate to the fourth, which is beyond most blocks.
SomeIndices == -1..3
=============================================================================
