----------------------------- MODULE MCNewWords -----------------------------
(***************************************************************************)
(* NewWords on a small instance: two Chinese characters, one of them typed *)
(* with a short and with its full code, a phrase of both, and a letter.    *)
(***************************************************************************)
EXTENDS NewWords

Commit(code, text) == [code |-> code, text |-> text]

SomeCommits ==
  {Commit(<<"p">>, <<"ni">>), Commit(<<"p", "q">>, <<"ni">>),
   Commit(<<"p", "v">>, <<"ni", "hao">>), Commit(<<"x">>, <<"x">>)}

\* A dictionary with shortcuts and a phrase, and one that lacks a character.
Line(text, code) == [text |-> text, code |-> code]

SomeFiles ==
  {<<Line(<<"ni">>, <<"p">>), Line(<<"ni">>, <<"p", "q", "i">>),
     Line(<<"ni", "hao">>, <<"p", "q", "v", "b">>), Line(<<"hao">>, <<"v">>)>>,
   <<Line(<<"ni">>, <<"p", "q", "i">>), Line(<<"ni">>, <<"p">>)>>}

\* A pause of exactly MaxGap, a longer one, and a clock set back.
SomeMoves == {2, 3, -3}
=============================================================================
