------------------------------ MODULE NewWords ------------------------------
(***************************************************************************)
(* What a learning round makes of the history: UpdateBigrams counts pairs   *)
(* of characters, Discover finds words, Encode gives them their Wubi code.  *)
(* Each reads for itself (the history twice, the Wubi dictionary once), and *)
(* commits are stored in between, stamped by a wall clock that may be set.  *)
(*                                                                         *)
(* A text is a sequence of characters, a code a sequence of keys. Texts are *)
(* well-formed: librime hands over nothing else, and the plugin drops empty *)
(* ones. When a word was seen (first_seen_us, last_seen_us) and the order   *)
(* of the words in the file are left out.                                   *)
(***************************************************************************)
EXTENDS Integers, FiniteSets, SequencesExt

CONSTANTS
  Chars, Keys,   \* what texts and codes are made of
  Commits,       \* what a user may commit: records [code, text]
  WubiFiles,     \* what wubi86.dict.yaml may hold: rows [text, code]
  Unreadable,    \* it cannot be opened
  Blanks, Ascii, \* classes of characters
  Window,        \* scan_max_entries = ngram_scan_max_entries
  MinFrequency,  \* min_frequency
  MaxGap,        \* chain_max_gap_us = kChainGapUs
  Moves,         \* how far the wall clock may move between two commits
  MaxRows,       \* bound: commits
  MaxLate        \* bound: commits stored while a round runs

Texts == Seq(Chars) \ {<<>>}
Entry == [ts : Int, code : Seq(Keys), text : Texts]
Row   == [text : Seq(Chars), code : Seq(Keys)]

ASSUME CommitAssumption == Commits \subseteq [code : Seq(Keys), text : Texts]
ASSUME FileAssumption   == WubiFiles \subseteq Seq(Row) /\ Unreadable \notin WubiFiles
ASSUME WindowAssumption == Window \in Nat /\ MinFrequency \in Nat \ {0} /\ MaxGap \in Nat
ASSUME ClockAssumption  == Moves \subseteq Int /\ MaxRows \in Nat /\ MaxLate \in Nat
ASSUME BlankAssumption  == Blanks \subseteq Ascii

VARIABLES
  history,   \* the commits table, by id: records [ts, code, text]
  clock,     \* the wall clock
  wubi,      \* the Wubi dictionary of this user
  pc,        \* which step of the round is next, or idle
  table,     \* the bigram table of the round
  words,     \* the words of the round
  counted,   \* Len(history) when the table was made
  found      \* Len(history) when the words were found

vars == <<history, clock, wubi, pc, table, words, counted, found>>

NoCounts == [pair \in Chars \X Chars |-> 0]

Init ==
  /\ history = <<>>
  /\ clock = 0
  /\ wubi \in WubiFiles \cup {Unreadable}
  /\ pc = "idle"
  /\ table = NoCounts
  /\ words = {}
  /\ counted = 0
  /\ found = 0
-----------------------------------------------------------------------------
(***************************************************************************)
(* Reading the history.                                                    *)
(***************************************************************************)

Smaller(a, b) == IF a < b THEN a ELSE b

\* Which rows of h make a scan: the newest, oldest first.
Orders(h) ==
  {s \in [1..Smaller(Window, Len(h)) -> DOMAIN h] :
     /\ IsInjective(s)
     /\ \A i, j \in DOMAIN s : i < j => h[s[i]].ts <= h[s[j]].ts
     /\ \A r \in DOMAIN h \ ToSet(s), i \in DOMAIN s : h[r].ts <= h[s[i]].ts}

\* RecentEntries(Window), then std::sort by ts. Among rows of one time
\* neither decides.
Scans(h) == {[i \in DOMAIN s |-> h[s[i]]] : s \in Orders(h)}

\* Too long after the row before it.
Apart(before, after) == after - before > MaxGap

\* Mutant of Chain: a pause does not end the phrase.
Chain_KeepsLast(prev, ts, e) == prev

\* prev_char, or nothing after a pause.
Chain(prev, ts, e) == IF prev # <<>> /\ Apart(ts, e.ts) THEN <<>> ELSE prev

\* How often y stands right after x.
Pairs(line, x, y) ==
  Cardinality({k \in 1..(Len(line) - 1) : line[k] = x /\ line[k + 1] = y})

\* One row: each of its characters is counted after the one before it.
Count(st, e) ==
  LET line == Chain(st.prev, st.ts, e) \o e.text
  IN [prev |-> <<line[Len(line)]>>, ts |-> e.ts,
      table |-> [pair \in Chars \X Chars |-> st.table[pair] + Pairs(line, pair[1], pair[2])]]

\* UpdateBigramsFromHistory into an empty table.
Bigrams(es) ==
  LET after[i \in 0..Len(es)] ==
        IF i = 0 THEN [prev |-> <<>>, ts |-> 0, table |-> NoCounts]
                 ELSE Count(after[i - 1], es[i])
  IN after[Len(es)].table

\* entry_to_tokens: only a single character is known by its own code.
Tokens(e) ==
  [i \in DOMAIN e.text |->
     [ch |-> e.text[i], code |-> IF Len(e.text) = 1 THEN e.code ELSE <<>>]]

\* One row: it continues the run, or ends it and begins another.
Extend(st, e) ==
  IF st.run # <<>> /\ Apart(st.ts, e.ts)
    THEN [runs |-> Append(st.runs, st.run), run |-> Tokens(e), ts |-> e.ts]
    ELSE [runs |-> st.runs, run |-> st.run \o Tokens(e), ts |-> e.ts]

\* After i rows: the runs that are over, and the one that is open.
Chained(es) ==
  LET after[i \in 0..Len(es)] ==
        IF i = 0 THEN [runs |-> <<>>, run |-> <<>>, ts |-> 0]
                 ELSE Extend(after[i - 1], es[i])
  IN after[Len(es)]

\* Mutant of Runs: the run that is open at the end is lost.
Runs_DropsLast(es) == Chained(es).runs

\* The tokens of commits that follow each other without a pause.
Runs(es) ==
  LET last == Chained(es)
  IN IF last.run = <<>> THEN last.runs ELSE Append(last.runs, last.run)

\* emit is called for every pair and every triple of neighbours in a run, and
\* in this order for those of one length.
Grams(runs) ==
  UNION {{[run |-> r, at |-> i, span |-> m] : i \in 1..(Len(runs[r]) - m + 1)} :
           r \in DOMAIN runs, m \in {2, 3}}

Earlier(g, h) == g.run < h.run \/ (g.run = h.run /\ g.at < h.at)

Gram(runs, g) == SubSeq(runs[g.run], g.at, g.at + g.span - 1)

Text(gram) == [k \in DOMAIN gram |-> gram[k].ch]

\* Mutant of Code: the characters without a code are passed over.
Code_Partial(gram) == FlattenSeq([k \in DOMAIN gram |-> gram[k].code])

Code(gram) ==
  IF \E k \in DOMAIN gram : gram[k].code = <<>>
    THEN <<>>
    ELSE FlattenSeq([k \in DOMAIN gram |-> gram[k].code])

\* A longer code takes the place of a shorter, and no other does.
Stays(code, other, first) ==
  Len(code) > Len(other) \/ (Len(code) = Len(other) /\ first)

LooksLikeRealCandidate(text) ==
  /\ ToSet(text) \cap Blanks = {}
  /\ ~(ToSet(text) \subseteq Ascii)
  /\ ~(Len(text) >= 3 /\ Cardinality(ToSet(text)) = 1)

\* FrequencyDiscovery::Discover.
Discovered(es) ==
  LET runs == Runs(es)
      Of(text) == {g \in Grams(runs) : Text(Gram(runs, g)) = text}
      best(text) ==
        CHOOSE g \in Of(text) : \A h \in Of(text) \ {g} :
          Stays(Code(Gram(runs, g)), Code(Gram(runs, h)), Earlier(g, h))
      Word(text) == [text |-> text,
                     frequency |-> Cardinality(Of(text)),
                     code |-> Code(Gram(runs, best(text)))]
      Likely == {text \in {Text(Gram(runs, g)) : g \in Grams(runs)} :
                   Cardinality(Of(text)) >= MinFrequency /\ LooksLikeRealCandidate(text)}
  IN {Word(text) : text \in Likely}
-----------------------------------------------------------------------------
(***************************************************************************)
(* WubiCodec.                                                              *)
(***************************************************************************)

\* LoadFromDict: the longest code of each single character with a row. What
\* could not be read knows no character, and is not asked.
FullCodes ==
  LET Of(c) == {k \in DOMAIN wubi : wubi[k].text = <<c>> /\ wubi[k].code # <<>>}
      best(c) == CHOOSE k \in Of(c) : \A j \in Of(c) \ {k} :
                   Stays(wubi[k].code, wubi[j].code, k < j)
      Coded == IF wubi = Unreadable THEN {} ELSE {c \in Chars : Of(c) # {}}
  IN [c \in Coded |-> wubi[best(c)].code]

Take(code, n) == SubSeq(code, 1, Smaller(n, Len(code)))

Known(text) == ToSet(text) \subseteq DOMAIN FullCodes

\* EncodePhrase.
EncodePhrase(text) ==
  LET code(k, n) == Take(FullCodes[text[k]], n)
  IN IF Len(text) < 2 \/ ~Known(text) THEN <<>>
     ELSE CASE Len(text) = 2 -> code(1, 2) \o code(2, 2)
            [] Len(text) = 3 -> code(1, 1) \o code(2, 1) \o code(3, 2)
            [] OTHER -> code(1, 1) \o code(2, 1) \o code(3, 1) \o code(Len(text), 1)
-----------------------------------------------------------------------------
\* SqliteHistoryStore::Insert, by the commit logger, at any time.
Insert(c, d) ==
  /\ Len(history) < MaxRows
  /\ pc # "idle" => Len(history) < counted + MaxLate
  /\ clock' = clock + d
  /\ history' = Append(history, [ts |-> clock + d, code |-> c.code, text |-> c.text])
  /\ UNCHANGED <<wubi, pc, table, words, counted, found>>

UpdateBigrams ==
  /\ pc = "idle"
  /\ \E es \in Scans(history) : table' = Bigrams(es)
  /\ counted' = Len(history)
  /\ pc' = "discover"
  /\ UNCHANGED <<history, clock, wubi, words, found>>

Discover ==
  /\ pc = "discover"
  /\ \E es \in Scans(history) : words' = Discovered(es)
  /\ found' = Len(history)
  /\ pc' = "encode"
  /\ UNCHANGED <<history, clock, wubi, table, counted>>

\* A word whose characters are all known gets its canonical code.
Encoded(w) ==
  IF EncodePhrase(w.text) = <<>> THEN w
  ELSE [w EXCEPT !.code = EncodePhrase(w.text)]

Encode ==
  /\ pc = "encode"
  /\ words' = {Encoded(w) : w \in words}
  /\ pc' = "write"
  /\ UNCHANGED <<history, clock, wubi, table, counted, found>>

\* The files are written (LearnFiles), and the round's table and words go.
EndRound ==
  /\ pc = "write"
  /\ table' = NoCounts /\ words' = {}
  /\ counted' = 0 /\ found' = 0
  /\ pc' = "idle"
  /\ UNCHANGED <<history, clock, wubi>>

Next ==
  \/ \E c \in Commits, d \in Moves : Insert(c, d)
  \/ UpdateBigrams \/ Discover \/ Encode \/ EndRound

Spec == Init /\ [][Next]_vars
-----------------------------------------------------------------------------
(***************************************************************************)
(* Properties.                                                             *)
(***************************************************************************)

TypeOK ==
  /\ history \in Seq(Entry)
  /\ clock \in Int
  /\ wubi \in WubiFiles \cup {Unreadable}
  /\ pc \in {"idle", "discover", "encode", "write"}
  /\ table \in [Chars \X Chars -> Nat]
  /\ words \subseteq [text : [1..2 -> Chars] \cup [1..3 -> Chars],
                      frequency : Nat, code : Seq(Keys)]
  /\ {counted, found} \subseteq 0..Len(history)

\* The places of the scanned characters: which row, and where in its text.
Places(es) == UNION {{<<i, k>> : k \in DOMAIN es[i].text} : i \in DOMAIN es}

\* q was typed right after p: in the same row, or without a pause.
Follows(es, p, q) ==
  \/ q = <<p[1], p[2] + 1>>
  \/ /\ p[2] = Len(es[p[1]].text) /\ q = <<p[1] + 1, 1>>
     /\ ~Apart(es[p[1]].ts, es[q[1]].ts)

\* Two or three characters, each typed right after the one before it.
Phrases(es) ==
  LET two   == {ph \in Places(es) \X Places(es) : Follows(es, ph[1], ph[2])}
      three == {<<ph[1], ph[2], q>> : ph \in two, q \in Places(es)}
  IN two \cup {ph \in three : Follows(es, ph[2], ph[3])}

Typed(es, ph) == [k \in DOMAIN ph |-> es[ph[k][1]].text[ph[k][2]]]

\* The words describe the history as it is.
Current == pc \in {"encode", "write"} /\ found = Len(history)

\* new_word.h:3-7: "any 2- or 3-char sequence that the user has committed at
\* least N times within the scanned window", counted here without runs: one
\* place of the scanned texts at a time, wherever rows begin and end, however
\* the clock was set.
CountsExact ==
  Current =>
    \E es \in Scans(history) :
      LET phrases == Phrases(es)
          Times(text) == Cardinality({ph \in phrases : Typed(es, ph) = text})
      IN {[text |-> w.text, frequency |-> w.frequency] : w \in words} =
           {[text |-> t, frequency |-> Times(t)] :
              t \in {u \in {Typed(es, ph) : ph \in phrases} :
                       Times(u) >= MinFrequency /\ LooksLikeRealCandidate(u)}}

\* No two rows are of one time.
Distinct == \A r, s \in DOMAIN history : r # s => history[r].ts # history[s].ts

\* The rows were stored one after the other in time.
Ordered == \A r, s \in DOMAIN history : r < s => history[r].ts < history[s].ts

\* ngram.cc and new_word.cc chain commits each in its own way, and read the
\* history one after the other: a word of two characters has been seen exactly
\* as often as its bigram, or more often, when commits came in between.
BigramsAgree ==
  (/\ pc \in {"encode", "write"}
   /\ \/ Distinct /\ counted = found
      \/ Ordered /\ found <= Window) =>
    \A x, y \in Chars :
      LET seen == {w \in words : w.text = <<x, y>>}
          times == table[<<x, y>>]
      IN /\ times >= MinFrequency /\ LooksLikeRealCandidate(<<x, y>>) => seen # {}
         /\ \A w \in seen : \/ w.frequency = times
                            \/ w.frequency > times /\ counted < found

\* new_word.h:21-24: a code that is not from the Wubi dictionary is what the
\* user typed for these characters, one by one and without a pause, never a
\* part of it.
CodesAsTyped ==
  Current =>
    \A w \in words :
      w.code # <<>> /\ (pc = "write" => ~Known(w.text)) =>
        \E es \in Scans(history) : \E i \in 1..(Len(es) - Len(w.text) + 1) :
          /\ \A k \in DOMAIN w.text : es[i + k - 1].text = <<w.text[k]>>
          /\ w.code = FlattenSeq([k \in DOMAIN w.text |-> es[i + k - 1].code])
          /\ \A k \in 2..Len(w.text) : ~Apart(es[i + k - 2].ts, es[i + k - 1].ts)

\* Key n of a character's full code, if it has that many.
Key(c, n) == IF n <= Len(FullCodes[c]) THEN <<FullCodes[c][n]>> ELSE <<>>

\* wubi_codec.h:64-69: AaAbBaBb for two characters, AaBaCaCb for three. A word
\* of known characters has that code, however it was typed.
CodesCanonical ==
  pc = "write" =>
    \A w \in words : Known(w.text) =>
      w.code = IF Len(w.text) = 2
                 THEN Key(w.text[1], 1) \o Key(w.text[1], 2)
                        \o Key(w.text[2], 1) \o Key(w.text[2], 2)
                 ELSE Key(w.text[1], 1) \o Key(w.text[2], 1)
                        \o Key(w.text[3], 1) \o Key(w.text[3], 2)

\* Every code that goes into the dictionary is one or the other: the canonical
\* code of a word of known characters, or what was typed.
CodesExplained == CodesCanonical /\ CodesAsTyped
=============================================================================
