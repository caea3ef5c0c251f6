-------------------------- MODULE AutoLearnProofs --------------------------
(***************************************************************************)
(* Proofs about AutoLearn, for every choice of the words, the faults that  *)
(* may happen and the bounds: LearnInv is inductive.                       *)
(***************************************************************************)
EXTENDS AutoLearn, FiniteSetTheorems, TLAPS

LEMMA Constants ==
  /\ MaxEntries \in Nat /\ MaxFaults \in Nat /\ MaxStarts \in Nat \ {0}
  /\ MaxClockSets \in Nat
  /\ WordEntries \subseteq Entries
  /\ TypedWords \subseteq WordEntries /\ SpelledWords \subseteq WordEntries
BY LearnBoundAssumption, WordsAssumption DEF Entries, scan_max_entries

\* A number of words.
LEMMA WordsNumber ==
  ASSUME NEW S
  PROVE  Cardinality(Words(S)) \in Nat
<1>1. IsFiniteSet(1..MaxEntries)
  BY Constants, FS_Interval
<1>2. Words(S) \subseteq 1..MaxEntries
  BY Constants DEF Words, Entries
<1> QED
  BY <1>1, <1>2, FS_Subset, FS_CardinalityType

\* The words with a code are among the words.
LEMMA CodedWords ==
  ASSUME NEW W, NEW loaded \in BOOLEAN
  PROVE  /\ Coded(Words(W), loaded) \subseteq Coded(W, TRUE)
         /\ Coded(Words(W), TRUE) = Coded(W, TRUE)
         /\ Coded(W, TRUE) \subseteq W
         /\ Coded(W, TRUE) \subseteq WordEntries
         /\ \A V : W \subseteq V => Coded(W, TRUE) \subseteq Coded(V, TRUE)
BY Constants DEF Coded, Words

\* The history, and one more entry.
LEMMA HistoryTyped ==
  ASSUME TypeOK
  PROVE  /\ History \subseteq Entries
         /\ stored' = stored => History' = History
         /\ stored' = stored + 1 => History \subseteq History'
         /\ last_round_entry_count <= stored => 1..last_round_entry_count \subseteq History
BY Constants DEF History, Entries, TypeOK

\* Failures are counted and noted.
LEMMA FaultsTyped ==
  ASSUME TypeOK, Works \/ \E f : Fails(f)
  PROVE  faults' \in 0..MaxFaults /\ failed' \subseteq Faults
<1>1. CASE Works
  BY <1>1 DEF Works, TypeOK
<1>2. CASE \E f : Fails(f)
  <2>1. PICK f : Fails(f)
    BY <1>2
  <2>2. faults < MaxFaults /\ faults' = faults + 1 /\ faults \in 0..MaxFaults
    BY <2>1 DEF Fails, TypeOK
  <2>3. faults' \in 0..MaxFaults
    BY <2>2, Constants
  <2>4. failed' \subseteq Faults
    BY <2>1 DEF Fails, TypeOK
  <2> QED
    BY <2>3, <2>4
<1> QED
  BY <1>1, <1>2

\* What the steps of a round do to its results.
LEMMA BigramsFound ==
  ASSUME TypeOK, UpdateBigrams
  PROVE  /\ scan' \in Scan
         /\ scan'.words = scan.words /\ scan'.coded = scan.coded
         /\ scan'.bigrams \subseteq History
         /\ failed \subseteq failed'
         /\ scan'.short => "read" \in failed'
         /\ ~scan'.short => scan'.bigrams = History
<1>1. PICK S \in SUBSET Entries, short \in BOOLEAN :
        Read(S, short) /\ scan' = [scan EXCEPT !.bigrams = S, !.short = short]
  BY DEF UpdateBigrams
<1>2. /\ scan' \in Scan
      /\ scan'.words = scan.words /\ scan'.coded = scan.coded
      /\ scan'.bigrams = S /\ scan'.short = short
  BY <1>1 DEF TypeOK, Scan
<1>3. /\ S \subseteq History /\ failed \subseteq failed'
      /\ short => "read" \in failed'
      /\ ~short => S = History
  BY <1>1 DEF Read, Works, Fails
<1> QED
  BY <1>2, <1>3

LEMMA WordsFound ==
  ASSUME TypeOK, Discover
  PROVE  /\ scan' \in Scan
         /\ scan'.bigrams = scan.bigrams /\ scan'.coded = scan.coded
         /\ scan'.words \subseteq History
         /\ failed \subseteq failed'
         /\ scan'.short => scan.short \/ "read" \in failed'
         /\ ~scan'.short => ~scan.short /\ scan'.words = History
<1>1. PICK S \in SUBSET Entries, short \in BOOLEAN :
        /\ Read(S, short)
        /\ scan' = [scan EXCEPT !.words = S, !.short = scan.short \/ short]
  BY DEF Discover
<1>2. /\ scan' \in Scan
      /\ scan'.bigrams = scan.bigrams /\ scan'.coded = scan.coded
      /\ scan'.words = S /\ scan'.short = (scan.short \/ short)
  BY <1>1 DEF TypeOK, Scan
<1>3. /\ S \subseteq History /\ failed \subseteq failed'
      /\ short => "read" \in failed'
      /\ ~short => S = History
  BY <1>1 DEF Read, Works, Fails
<1> QED
  BY <1>2, <1>3

LEMMA CodesFound ==
  ASSUME TypeOK, EncodeWords
  PROVE  /\ scan' \in Scan
         /\ scan'.bigrams = scan.bigrams /\ scan'.words = scan.words
         /\ scan'.coded \subseteq Coded(scan.words, TRUE)
         /\ failed \subseteq failed'
         /\ scan'.short => scan.short \/ "codec" \in failed'
         /\ ~scan'.short
              => ~scan.short /\ scan'.coded = Coded(scan.words, TRUE)
<1>1. PICK loaded \in BOOLEAN :
        /\ IF loaded THEN Works ELSE Fails("codec")
        /\ scan' = [scan EXCEPT !.coded = Coded(Words(scan.words), loaded),
                                !.short = scan.short \/ ~loaded]
  BY DEF EncodeWords
<1>2. Coded(Words(scan.words), loaded) \subseteq WordEntries
  BY Constants, CodedWords
<1>3. /\ scan' \in Scan
      /\ scan'.bigrams = scan.bigrams /\ scan'.words = scan.words
      /\ scan'.coded = Coded(Words(scan.words), loaded)
      /\ scan'.short = (scan.short \/ ~loaded)
  BY <1>1, <1>2 DEF TypeOK, Scan
<1>4. /\ failed \subseteq failed'
      /\ ~loaded => "codec" \in failed'
  BY <1>1 DEF Works, Fails
<1>5. Coded(Words(scan.words), loaded) \subseteq Coded(scan.words, TRUE)
  BY CodedWords
<1>6. loaded => Coded(Words(scan.words), loaded) = Coded(scan.words, TRUE)
  <2>1. Coded(Words(scan.words), TRUE) = Coded(scan.words, TRUE)
    BY CodedWords
  <2> QED
    BY <2>1 DEF Coded
<1> QED
  BY <1>3, <1>4, <1>5, <1>6

LEMMA FilesWritten ==
  ASSUME TypeOK, GenerateDict \/ SaveNgrams
  PROVE  /\ scan' \in Scan
         /\ scan'.words = scan.words /\ scan'.bigrams = scan.bigrams
         /\ scan'.coded = scan.coded /\ scan'.short = scan.short
         /\ failed \subseteq failed'
<1>1. \/ scan' = scan
      \/ scan' = [scan EXCEPT !.yaml = TRUE]
      \/ scan' = [scan EXCEPT !.bin = TRUE]
  BY DEF GenerateDict, SaveNgrams
<1>2. failed \subseteq failed'
  BY DEF GenerateDict, SaveNgrams, Works, Fails
<1> QED
  BY <1>1, <1>2 DEF TypeOK, Scan

\* A round that has not begun, or is over.
LEMMA NoScanTyped ==
  /\ NoScan \in Scan /\ ~NoScan.short
  /\ NoScan.bigrams = {} /\ NoScan.words = {} /\ NoScan.coded = {}
BY DEF NoScan, Scan

\* Type correctness of a step.
LEMMA TypeStep ==
  ASSUME TypeOK, [Next]_vars
  PROVE  TypeOK'
<1> USE DEF vars, diskVars, ownerVars, countVars, envVars
<1>a. NoScan \in Scan /\ 0 \in 0..MaxEntries
  BY Constants, NoScanTyped
<1>b. /\ "none" \in Places /\ "exited" \in Places /\ "locking" \in Places
     /\ "parking" \in Places /\ "waiting" \in Places /\ "woken" \in Places
     /\ "timedout" \in Places /\ "counting" \in Places /\ "resting" \in Places
     /\ "idling" \in Places /\ "bigrams" \in Places /\ "words" \in Places
     /\ "codes" \in Places
     /\ "yaml" \in Places /\ "bin" \in Places /\ "rimedict" \in Places
     /\ "finishing" \in Places /\ "deploying" \in Places
     /\ "notifying" \in Places
  BY DEF Places, Gates, Rounds, After, Waits
<1>1. CASE Insert
  <2>1. stored + 1 \in 0..MaxEntries
    BY <1>1, Constants DEF Insert, TypeOK
  <2> QED
    BY <1>1, <2>1, Constants DEF Insert, TypeOK
<1>2. CASE IntervalPasses
  BY <1>b, <1>2 DEF IntervalPasses, TypeOK
<1>3. CASE QuietPasses
  BY <1>b, <1>3 DEF QuietPasses, TypeOK
<1>4. CASE ClockSet
  <2>1. clocksets + 1 \in 0..MaxClockSets
    BY <1>4, Constants DEF ClockSet, TypeOK
  <2> QED
    BY <1>4, <2>1, Constants DEF ClockSet, TypeOK
<1>5. CASE ProcessEnds
  BY <1>a, <1>b, <1>5 DEF ProcessEnds, Fresh, TypeOK
<1>6. CASE Restart
  <2>1. starts + 1 \in 1..MaxStarts
    BY <1>6, Constants DEF Restart, TypeOK
  <2> QED
    BY <1>6, <2>1, Constants DEF Restart, TypeOK
<1>7. CASE Start
  <2>1. faults' \in 0..MaxFaults /\ failed' \subseteq Faults
    BY <1>7, FaultsTyped DEF Start, Count
  <2>2. last_round_entry_count' \in 0..MaxEntries
    BY <1>a, <1>7 DEF Start, Count, TypeOK
  <2> QED
    BY <1>a, <1>b, <1>7, <2>1, <2>2 DEF Start, TypeOK
<1>8. CASE TickForTesting
  BY <1>b, <1>8 DEF TickForTesting, TypeOK
<1>9. CASE Stop
  BY <1>b, <1>9 DEF Stop, TypeOK
<1>10. CASE NotifyAll
  BY <1>b, <1>10 DEF NotifyAll, TypeOK
<1>11. CASE Join
  BY <1>b, <1>11 DEF Join, TypeOK
<1>12. CASE Lock
  BY <1>b, <1>12 DEF Lock, TypeOK
<1>13. CASE Park
  BY <1>b, <1>13 DEF Park, TypeOK
<1>14. CASE Resume
  BY <1>b, <1>14 DEF Resume, TypeOK
<1>15. CASE Timeout
  BY <1>b, <1>15 DEF Timeout, TypeOK
<1>16. CASE SpuriousWake
  BY <1>b, <1>16 DEF SpuriousWake, TypeOK
<1>17. CASE CountGate
  <2>1. faults' \in 0..MaxFaults /\ failed' \subseteq Faults
    BY <1>17, FaultsTyped DEF CountGate, Count
  <2> QED
    BY <1>a, <1>b, <1>17, <2>1 DEF CountGate, TypeOK, Done
<1>18. CASE IntervalGate
  BY <1>a, <1>b, <1>18 DEF IntervalGate, Done, TypeOK
<1>19. CASE IdleGate
  <2>1. faults' \in 0..MaxFaults /\ failed' \subseteq Faults
    BY <1>19, FaultsTyped DEF IdleGate, Done
  <2> QED
    BY <1>a, <1>b, <1>19, <2>1 DEF IdleGate, TypeOK, Done
<1>20. CASE UpdateBigrams
  <2>1. faults' \in 0..MaxFaults /\ failed' \subseteq Faults
    BY <1>20, FaultsTyped DEF UpdateBigrams, Read
  <2> QED
    BY <1>b, <1>20, <2>1, BigramsFound DEF UpdateBigrams, TypeOK
<1>21. CASE Discover
  <2>1. faults' \in 0..MaxFaults /\ failed' \subseteq Faults
    BY <1>21, FaultsTyped DEF Discover, Read
  <2> QED
    BY <1>b, <1>21, <2>1, WordsFound DEF Discover, TypeOK
<1>21a. CASE EncodeWords
  <2>1. faults' \in 0..MaxFaults /\ failed' \subseteq Faults
    BY <1>21a, FaultsTyped DEF EncodeWords
  <2> QED
    BY <1>b, <1>21a, <2>1, CodesFound DEF EncodeWords, TypeOK
<1>22. CASE GenerateDict
  <2>1. faults' \in 0..MaxFaults /\ failed' \subseteq Faults
    BY <1>22, FaultsTyped DEF GenerateDict
  <2>2. scan.words \subseteq Entries
    BY DEF TypeOK, Scan
  <2> QED
    BY <1>b, <1>22, <2>1, <2>2, FilesWritten DEF GenerateDict, TypeOK
<1>23. CASE SaveNgrams
  <2>1. faults' \in 0..MaxFaults /\ failed' \subseteq Faults
    BY <1>23, FaultsTyped DEF SaveNgrams
  <2>2. scan.bigrams \subseteq Entries
    BY DEF TypeOK, Scan
  <2> QED
    BY <1>b, <1>23, <2>1, <2>2, FilesWritten DEF SaveNgrams, TypeOK
<1>24. CASE WriteRimeDict
  <2>1. faults' \in 0..MaxFaults /\ failed' \subseteq Faults
    BY <1>24, FaultsTyped DEF WriteRimeDict
  <2>2. scan.coded \subseteq WordEntries
    BY DEF TypeOK, Scan
  <2> QED
    BY <1>a, <1>b, <1>24, <2>1, <2>2 DEF WriteRimeDict, TypeOK
<1>25. CASE RoundThrows
  <2>1. faults' \in 0..MaxFaults /\ failed' \subseteq Faults
    BY <1>25, FaultsTyped DEF RoundThrows
  <2> QED
    BY <1>a, <1>b, <1>25, <2>1 DEF RoundThrows, TypeOK, Done
<1>26. CASE FinishRound
  <2>1. faults' \in 0..MaxFaults /\ failed' \subseteq Faults
    BY <1>26, FaultsTyped DEF FinishRound, Count
  <2>2. last_round_entry_count' \in 0..MaxEntries
    BY <1>a, <1>26 DEF FinishRound, Count, TypeOK
  <2>3. Cardinality(Words(scan.words)) \in Nat
    BY WordsNumber
  <2>4. /\ total_words_learned + Cardinality(Words(scan.words)) \in Nat
        /\ total_runs + 1 \in Nat
    BY <2>3 DEF TypeOK
  <2> QED
    BY <1>a, <1>b, <1>26, <2>1, <2>2, <2>3, <2>4 DEF FinishRound, TypeOK, Done
<1>27. CASE Redeploy
  <2>1. faults' \in 0..MaxFaults /\ failed' \subseteq Faults
    BY <1>27, FaultsTyped DEF Redeploy
  <2> QED
    BY <1>a, <1>b, <1>27, <2>1 DEF Redeploy, TypeOK, Done
<1>28. CASE Notify
  <2>1. Words(scan.words) \subseteq WordEntries
    BY DEF Words
  <2> QED
    BY <1>a, <1>b, <1>28, <2>1 DEF Notify, Done, TypeOK
<1>29. CASE UNCHANGED vars
  BY <1>29 DEF TypeOK
<1> QED
  BY <1>1, <1>2, <1>3, <1>4, <1>5, <1>6, <1>7, <1>8, <1>9, <1>10,
     <1>11, <1>12, <1>13, <1>14, <1>15, <1>16, <1>17, <1>18, <1>19, <1>20,
     <1>21, <1>21a, <1>22, <1>23, <1>24, <1>25, <1>26, <1>27, <1>28, <1>29
     DEF Next, Loop, ShouldRun, RunOneRound

\* Who holds mu_, and where the watcher may be.
LEMMA RunnerStep ==
  ASSUME TypeOK, RunnerDiscipline, [Next]_vars
  PROVE  RunnerDiscipline'
<1> USE DEF vars, diskVars, ownerVars, countVars, envVars
<1>1. CASE Insert
  BY <1>1 DEF Insert, TypeOK, RunnerDiscipline, Places, Gates, Rounds,
     After, Waits
<1>2. CASE IntervalPasses
  BY <1>2 DEF IntervalPasses, TypeOK, RunnerDiscipline, Places, Gates,
     Rounds, After, Waits
<1>3. CASE QuietPasses
  BY <1>3 DEF QuietPasses, TypeOK, RunnerDiscipline, Places, Gates, Rounds,
     After, Waits
<1>4. CASE ClockSet
  BY <1>4 DEF ClockSet, TypeOK, RunnerDiscipline, Places, Gates, Rounds,
     After, Waits
<1>5. CASE ProcessEnds
  BY <1>5 DEF ProcessEnds, Fresh, TypeOK, RunnerDiscipline, Places, Gates,
     Rounds, After, Waits
<1>6. CASE Restart
  BY <1>6 DEF Restart, TypeOK, RunnerDiscipline, Places, Gates, Rounds,
     After, Waits
<1>7. CASE Start
  BY <1>7 DEF Start, Count, Works, Fails, TypeOK, RunnerDiscipline, Places,
     Gates, Rounds, After, Waits
<1>8. CASE TickForTesting
  BY <1>8 DEF TickForTesting, TypeOK, RunnerDiscipline, Places, Gates,
     Rounds, After, Waits
<1>9. CASE Stop
  BY <1>9 DEF Stop, TypeOK, RunnerDiscipline, Places, Gates, Rounds, After,
     Waits
<1>10. CASE NotifyAll
  BY <1>10 DEF NotifyAll, TypeOK, RunnerDiscipline, Places, Gates, Rounds,
     After, Waits
<1>11. CASE Join
  BY <1>11 DEF Join, TypeOK, RunnerDiscipline, Places, Gates, Rounds, After,
     Waits
<1>12. CASE Lock
  BY <1>12 DEF Lock, TypeOK, RunnerDiscipline, Places, Gates, Rounds, After,
     Waits
<1>13. CASE Park
  BY <1>13 DEF Park, TypeOK, RunnerDiscipline, Places, Gates, Rounds, After,
     Waits
<1>14. CASE Resume
  BY <1>14 DEF Resume, TypeOK, RunnerDiscipline, Places, Gates, Rounds,
     After, Waits
<1>15. CASE Timeout
  BY <1>15 DEF Timeout, TypeOK, RunnerDiscipline, Places, Gates, Rounds,
     After, Waits
<1>16. CASE SpuriousWake
  BY <1>16 DEF SpuriousWake, TypeOK, RunnerDiscipline, Places, Gates,
     Rounds, After, Waits
<1>17. CASE CountGate
  BY <1>17 DEF CountGate, Count, Works, Fails, Done, TypeOK,
     RunnerDiscipline, Places, Gates, Rounds, After, Waits
<1>18. CASE IntervalGate
  BY <1>18 DEF IntervalGate, Done, TypeOK, RunnerDiscipline, Places, Gates,
     Rounds, After, Waits
<1>19. CASE IdleGate
  BY <1>19 DEF IdleGate, Works, Fails, Done, TypeOK, RunnerDiscipline,
     Places, Gates, Rounds, After, Waits
<1>20. CASE UpdateBigrams
  BY <1>20 DEF UpdateBigrams, Read, Works, Fails, TypeOK, RunnerDiscipline,
     Places, Gates, Rounds, After, Waits
<1>21. CASE Discover
  BY <1>21 DEF Discover, Read, Works, Fails, TypeOK, RunnerDiscipline,
     Places, Gates, Rounds, After, Waits
<1>21a. CASE EncodeWords
  BY <1>21a DEF EncodeWords, Works, Fails, TypeOK, RunnerDiscipline, Places,
     Gates, Rounds, After, Waits
<1>22. CASE GenerateDict
  BY <1>22 DEF GenerateDict, Works, Fails, TypeOK, RunnerDiscipline, Places,
     Gates, Rounds, After, Waits
<1>23. CASE SaveNgrams
  BY <1>23 DEF SaveNgrams, Works, Fails, TypeOK, RunnerDiscipline, Places,
     Gates, Rounds, After, Waits
<1>24. CASE WriteRimeDict
  BY <1>24 DEF WriteRimeDict, Works, Fails, TypeOK, RunnerDiscipline,
     Places, Gates, Rounds, After, Waits
<1>25. CASE RoundThrows
  BY <1>25 DEF RoundThrows, Fails, Done, TypeOK, RunnerDiscipline, Places,
     Gates, Rounds, After, Waits
<1>26. CASE FinishRound
  BY <1>26 DEF FinishRound, Count, Works, Fails, Done, TypeOK,
     RunnerDiscipline, Places, Gates, Rounds, After, Waits
<1>27. CASE Redeploy
  BY <1>27 DEF Redeploy, Works, Fails, Done, TypeOK, RunnerDiscipline,
     Places, Gates, Rounds, After, Waits
<1>28. CASE Notify
  BY <1>28 DEF Notify, Done, TypeOK, RunnerDiscipline, Places, Gates,
     Rounds, After, Waits
<1>29. CASE UNCHANGED vars
  BY <1>29 DEF TypeOK, RunnerDiscipline, Places, Gates, Rounds, After, Waits
<1> QED
  BY <1>1, <1>2, <1>3, <1>4, <1>5, <1>6, <1>7, <1>8, <1>9, <1>10,
     <1>11, <1>12, <1>13, <1>14, <1>15, <1>16, <1>17, <1>18, <1>19, <1>20,
     <1>21, <1>21a, <1>22, <1>23, <1>24, <1>25, <1>26, <1>27, <1>28, <1>29
     DEF Next, Loop, ShouldRun, RunOneRound

\* The steps that neither learn nor count: the watcher's waiting, its owner,
\* the clocks.
Elsewhere ==
  \/ IntervalPasses \/ QuietPasses \/ ClockSet \/ Restart \/ TickForTesting
  \/ Stop \/ NotifyAll \/ Join \/ Loop \/ Timeout \/ SpuriousWake
  \/ UNCHANGED vars

LEMMA ElsewhereKeeps ==
  ASSUME Elsewhere
  PROVE  /\ UNCHANGED <<diskVars, announced, countVars, scan, failed>>
         /\ pc' = pc \/ pc' \in {"exited", "counting"} \cup Waits
BY DEF Elsewhere, Loop, Waits, vars, diskVars, ownerVars, countVars,
   envVars, IntervalPasses, QuietPasses, ClockSet, Restart, TickForTesting,
   Stop, NotifyAll, Join, Lock, Park, Resume, Timeout, SpuriousWake

\* Files and scans stay within the history when nothing is written.
LEMMA RoundKept ==
  ASSUME RoundDiscipline, TypeOK,
         UNCHANGED <<stored, dict, ngrams, rime, announced>>,
         scan' = scan \/ scan' = NoScan,
         last_round_entry_count' <= stored,
         pc' \in {"resting", "idling"} \cup Rounds
           => last_round_entry_count' < stored
  PROVE  RoundDiscipline'
<1>1. History' = History
  BY HistoryTyped
<1>2. Coded(History, TRUE)' = Coded(History, TRUE)
  BY <1>1 DEF Coded
<1> QED
  BY <1>1, <1>2, NoScanTyped DEF RoundDiscipline

\* What the gates have established, and that nothing is ahead of the history.
LEMMA RoundStep ==
  ASSUME TypeOK, RoundDiscipline, [Next]_vars
  PROVE  RoundDiscipline'
<1> USE DEF vars, diskVars, ownerVars, countVars, envVars
<1>1. CASE Insert
  <2>1. stored' = stored + 1 /\ History \subseteq History'
    BY <1>1, HistoryTyped DEF Insert
  <2>2. Coded(History, TRUE) \subseteq Coded(History', TRUE)
    BY <2>1, CodedWords
  <2>3. UNCHANGED <<dict, ngrams, rime, announced, scan, pc, last_round_entry_count>>
    BY <1>1 DEF Insert
  <2>4. stored \in Nat /\ last_round_entry_count \in Nat
    BY Constants DEF TypeOK
  <2> QED
    BY <2>1, <2>2, <2>3, <2>4 DEF RoundDiscipline, Coded
<1>2. CASE ProcessEnds
  <2>1. stored \in Nat /\ last_round_entry_count \in Nat
    BY Constants DEF TypeOK
  <2> QED
    BY <1>2, <2>1, RoundKept DEF ProcessEnds, Fresh, Rounds
<1>3. CASE Start
  <2>1. stored \in Nat /\ last_round_entry_count \in Nat
    BY Constants DEF TypeOK
  <2> QED
    BY <1>3, <2>1, RoundKept DEF Start, Count, Rounds
<1>4. CASE CountGate
  <2>1. stored \in Nat /\ last_round_entry_count \in Nat
    BY Constants DEF TypeOK
  <2>2. PICK n \in 0..MaxEntries :
          /\ Count(n)
          /\ IF n > last_round_entry_count
               THEN pc' = "resting" /\ UNCHANGED scan
               ELSE Done
    BY <1>4 DEF CountGate
  <2>3. n > last_round_entry_count => last_round_entry_count < stored
    BY <2>1, <2>2 DEF Count
  <2>4. UNCHANGED <<diskVars, announced, countVars>>
    BY <1>4 DEF CountGate
  <2>5. last_round_entry_count <= stored
    BY DEF RoundDiscipline
  <2> QED
    BY <2>2, <2>3, <2>4, <2>5, RoundKept DEF Done, Rounds
<1>5. CASE IntervalGate
  BY <1>5, HistoryTyped, NoScanTyped, Constants DEF IntervalGate, Done,
     TypeOK, RoundDiscipline, Gates, Rounds, After, Waits
<1>6. CASE IdleGate
  BY <1>6, HistoryTyped, NoScanTyped, Constants DEF IdleGate, Works,
     Fails, Done, TypeOK, RoundDiscipline, Gates, Rounds, After, Waits
<1>7. CASE UpdateBigrams
  BY <1>7, BigramsFound, HistoryTyped, NoScanTyped, Constants DEF
     UpdateBigrams, TypeOK, RoundDiscipline, Gates, Rounds, After, Waits
<1>8. CASE Discover
  BY <1>8, WordsFound, HistoryTyped, NoScanTyped, Constants DEF Discover,
     TypeOK, RoundDiscipline, Gates, Rounds, After, Waits
<1>9. CASE EncodeWords
  <2>1. Coded(scan.words, TRUE) \subseteq Coded(History, TRUE)
    BY CodedWords DEF RoundDiscipline
  <2>2. /\ pc = "codes" /\ pc' = "yaml"
        /\ UNCHANGED <<diskVars, announced, last_round_entry_count>>
    BY <1>9 DEF EncodeWords
  <2> QED
    BY <1>9, <2>1, <2>2, CodesFound, HistoryTyped DEF RoundDiscipline, Rounds
<1>10. CASE GenerateDict
  BY <1>10, FilesWritten, HistoryTyped, NoScanTyped, Constants DEF
     GenerateDict, TypeOK, RoundDiscipline, Gates, Rounds, After, Waits
<1>11. CASE SaveNgrams
  BY <1>11, FilesWritten, HistoryTyped, NoScanTyped, Constants DEF
     SaveNgrams, TypeOK, RoundDiscipline, Gates, Rounds, After, Waits
<1>12. CASE WriteRimeDict
  BY <1>12, HistoryTyped, NoScanTyped, Constants DEF WriteRimeDict, Works,
     Fails, TypeOK, RoundDiscipline, Gates, Rounds, After, Waits
<1>13. CASE RoundThrows
  BY <1>13, HistoryTyped, NoScanTyped, Constants DEF RoundThrows, Fails,
     Done, TypeOK, RoundDiscipline, Gates, Rounds, After, Waits
<1>14. CASE FinishRound
  <2>1. stored \in Nat /\ last_round_entry_count \in Nat
    BY Constants DEF TypeOK
  <2>2. UNCHANGED <<diskVars, announced>> /\ pc' \notin Rounds \cup {"resting", "idling"}
    BY <1>14 DEF FinishRound, Done, Rounds
  <2>3. scan' = scan \/ scan' = NoScan
    BY <1>14 DEF FinishRound, Done
  <2>4. last_round_entry_count' <= stored
    BY <1>14, <2>1 DEF FinishRound, Count
  <2> QED
    BY <2>2, <2>3, <2>4, RoundKept
<1>15. CASE Redeploy
  BY <1>15, HistoryTyped, NoScanTyped, Constants DEF Redeploy, Works,
     Fails, Done, TypeOK, RoundDiscipline, Gates, Rounds, After, Waits
<1>16. CASE Notify
  <2>1. Words(scan.words) \subseteq scan.words
    BY DEF Words
  <2> QED
    BY <1>16, <2>1, HistoryTyped, NoScanTyped
       DEF Notify, Done, RoundDiscipline, Rounds, After, Waits
<1>17. CASE Elsewhere
  BY <1>17, ElsewhereKeeps, HistoryTyped, NoScanTyped, Constants DEF
     TypeOK, RoundDiscipline, Gates, Rounds, After, Waits
<1> QED
  BY <1>1, <1>2, <1>3, <1>4, <1>5, <1>6, <1>7, <1>8, <1>9, <1>10, <1>11,
     <1>12, <1>13, <1>14, <1>15, <1>16, <1>17 DEF Next, Loop, ShouldRun,
     RunOneRound, Elsewhere

\* A round raises the count it starts from.
LEMMA PaidStep ==
  ASSUME TypeOK, RoundDiscipline, RoundsNeedEntries, [Next]_vars
  PROVE  RoundsNeedEntries'
<1> USE DEF vars, diskVars, ownerVars, countVars, envVars
<1>1. CASE Insert
  BY <1>1, HistoryTyped, NoScanTyped, Constants DEF Insert, TypeOK,
     RoundDiscipline, RoundsNeedEntries, Rounds
<1>2. CASE ProcessEnds
  BY <1>2, HistoryTyped, NoScanTyped, Constants DEF ProcessEnds, Fresh,
     TypeOK, RoundDiscipline, RoundsNeedEntries, Rounds
<1>3. CASE Start
  BY <1>3, HistoryTyped, NoScanTyped, Constants DEF Start, Count, Works,
     Fails, TypeOK, RoundDiscipline, RoundsNeedEntries, Rounds
<1>4. CASE CountGate
  BY <1>4, HistoryTyped, NoScanTyped, Constants DEF CountGate, Count,
     Works, Fails, Done, TypeOK, RoundDiscipline, RoundsNeedEntries, Rounds
<1>5. CASE IntervalGate
  BY <1>5, HistoryTyped, NoScanTyped, Constants DEF IntervalGate, Done,
     TypeOK, RoundDiscipline, RoundsNeedEntries, Rounds
<1>6. CASE IdleGate
  BY <1>6, HistoryTyped, NoScanTyped, Constants DEF IdleGate, Works,
     Fails, Done, TypeOK, RoundDiscipline, RoundsNeedEntries, Rounds
<1>7. CASE UpdateBigrams
  BY <1>7, BigramsFound, HistoryTyped, NoScanTyped, Constants DEF
     UpdateBigrams, TypeOK, RoundDiscipline, RoundsNeedEntries, Rounds
<1>8. CASE Discover
  BY <1>8, WordsFound, HistoryTyped, NoScanTyped, Constants DEF Discover,
     TypeOK, RoundDiscipline, RoundsNeedEntries, Rounds
<1>9. CASE EncodeWords
  BY <1>9, CodesFound, HistoryTyped, NoScanTyped, Constants DEF
     EncodeWords, TypeOK, RoundDiscipline, RoundsNeedEntries, Rounds
<1>10. CASE GenerateDict
  BY <1>10, FilesWritten, HistoryTyped, NoScanTyped, Constants DEF
     GenerateDict, TypeOK, RoundDiscipline, RoundsNeedEntries, Rounds
<1>11. CASE SaveNgrams
  BY <1>11, FilesWritten, HistoryTyped, NoScanTyped, Constants DEF
     SaveNgrams, TypeOK, RoundDiscipline, RoundsNeedEntries, Rounds
<1>12. CASE WriteRimeDict
  BY <1>12, HistoryTyped, NoScanTyped, Constants DEF WriteRimeDict, Works,
     Fails, TypeOK, RoundDiscipline, RoundsNeedEntries, Rounds
<1>13. CASE RoundThrows
  BY <1>13, HistoryTyped, NoScanTyped, Constants DEF RoundThrows, Fails,
     Done, TypeOK, RoundDiscipline, RoundsNeedEntries, Rounds
<1>14. CASE FinishRound
  BY <1>14, HistoryTyped, NoScanTyped, Constants DEF FinishRound, Count,
     Works, Fails, Done, TypeOK, RoundDiscipline, RoundsNeedEntries, Rounds
<1>15. CASE Redeploy
  BY <1>15, HistoryTyped, NoScanTyped, Constants DEF Redeploy, Works,
     Fails, Done, TypeOK, RoundDiscipline, RoundsNeedEntries, Rounds
<1>16. CASE Notify
  BY <1>16, HistoryTyped, NoScanTyped, Constants DEF Notify, Done, TypeOK,
     RoundDiscipline, RoundsNeedEntries, Rounds
<1>17. CASE Elsewhere
  BY <1>17, ElsewhereKeeps, HistoryTyped, NoScanTyped, Constants DEF
     TypeOK, RoundDiscipline, RoundsNeedEntries, Rounds
<1> QED
  BY <1>1, <1>2, <1>3, <1>4, <1>5, <1>6, <1>7, <1>8, <1>9, <1>10, <1>11,
     <1>12, <1>13, <1>14, <1>15, <1>16, <1>17 DEF Next, Loop, ShouldRun,
     RunOneRound, Elsewhere

\* A round that reads everything reads what earlier rounds did.
LEMMA ScansStep ==
  ASSUME TypeOK, RoundDiscipline, ScansCover, [Next]_vars
  PROVE  ScansCover'
<1> USE DEF vars, diskVars, ownerVars, countVars, envVars
<1>1. CASE Insert
  BY <1>1, HistoryTyped, NoScanTyped, Constants DEF Insert,
     RoundDiscipline, ScansCover, Scanned, Encoded, Rounds, After, Waits
<1>2. CASE ProcessEnds
  BY <1>2, HistoryTyped, NoScanTyped, Constants DEF ProcessEnds, Fresh,
     RoundDiscipline, ScansCover, Scanned, Encoded, Rounds, After, Waits
<1>3. CASE Start
  BY <1>3, HistoryTyped, NoScanTyped, Constants DEF Start, Count, Works,
     Fails, RoundDiscipline, ScansCover, Scanned, Encoded, Rounds, After,
     Waits
<1>4. CASE CountGate
  BY <1>4, HistoryTyped, NoScanTyped, Constants DEF CountGate, Count,
     Works, Fails, Done, RoundDiscipline, ScansCover, Scanned, Encoded,
     Rounds, After, Waits
<1>5. CASE IntervalGate
  BY <1>5, HistoryTyped, NoScanTyped, Constants DEF IntervalGate, Done,
     RoundDiscipline, ScansCover, Scanned, Encoded, Rounds, After, Waits
<1>6. CASE IdleGate
  BY <1>6, HistoryTyped, NoScanTyped, Constants DEF IdleGate, Works,
     Fails, Done, RoundDiscipline, ScansCover, Scanned, Encoded, Rounds,
     After, Waits
<1>7. CASE UpdateBigrams
  BY <1>7, BigramsFound, HistoryTyped, NoScanTyped, Constants DEF
     UpdateBigrams, RoundDiscipline, ScansCover, Scanned, Encoded, Rounds,
     After, Waits
<1>8. CASE Discover
  <2>1. /\ pc = "words" /\ pc' = "codes"
        /\ UNCHANGED <<diskVars, announced>>
    BY <1>8 DEF Discover
  <2>2. dict \cup rime \subseteq History
    BY CodedWords DEF RoundDiscipline
  <2> QED
    BY <1>8, <2>1, <2>2, WordsFound
       DEF ScansCover, Scanned, Encoded, Rounds, After
<1>9. CASE EncodeWords
  BY <1>9, CodesFound, HistoryTyped, NoScanTyped, Constants DEF
     EncodeWords, RoundDiscipline, ScansCover, Scanned, Encoded, Rounds,
     After, Waits
<1>10. CASE GenerateDict
  BY <1>10, FilesWritten, HistoryTyped, NoScanTyped, Constants DEF
     GenerateDict, RoundDiscipline, ScansCover, Scanned, Encoded, Rounds,
     After, Waits
<1>11. CASE SaveNgrams
  BY <1>11, FilesWritten, HistoryTyped, NoScanTyped, Constants DEF
     SaveNgrams, RoundDiscipline, ScansCover, Scanned, Encoded, Rounds,
     After, Waits
<1>12. CASE WriteRimeDict
  <2>1. /\ pc = "rimedict" /\ pc' = "finishing"
        /\ UNCHANGED <<dict, ngrams, scan>>
        /\ rime' = scan.coded \/ rime' = rime
    BY <1>12 DEF WriteRimeDict
  <2>2. Coded(scan.words, TRUE) \subseteq scan.words
    BY CodedWords
  <2> QED
    BY <2>1, <2>2 DEF ScansCover, Scanned, Encoded, Rounds, After
<1>13. CASE RoundThrows
  BY <1>13, HistoryTyped, NoScanTyped, Constants DEF RoundThrows, Fails,
     Done, RoundDiscipline, ScansCover, Scanned, Encoded, Rounds, After,
     Waits
<1>14. CASE FinishRound
  BY <1>14, HistoryTyped, NoScanTyped, Constants DEF FinishRound, Count,
     Works, Fails, Done, RoundDiscipline, ScansCover, Scanned, Encoded,
     Rounds, After, Waits
<1>15. CASE Redeploy
  BY <1>15, HistoryTyped, NoScanTyped, Constants DEF Redeploy, Works,
     Fails, Done, RoundDiscipline, ScansCover, Scanned, Encoded, Rounds,
     After, Waits
<1>16. CASE Notify
  BY <1>16, HistoryTyped, NoScanTyped, Constants DEF Notify, Done,
     RoundDiscipline, ScansCover, Scanned, Encoded, Rounds, After, Waits
<1>17. CASE Elsewhere
  BY <1>17, ElsewhereKeeps, HistoryTyped, NoScanTyped, Constants DEF
     RoundDiscipline, ScansCover, Scanned, Encoded, Rounds, After, Waits
<1> QED
  BY <1>1, <1>2, <1>3, <1>4, <1>5, <1>6, <1>7, <1>8, <1>9, <1>10, <1>11,
     <1>12, <1>13, <1>14, <1>15, <1>16, <1>17 DEF Next, Loop, ShouldRun,
     RunOneRound, Elsewhere

\* What is announced has been deployed.
LEMMA DeployStep ==
  ASSUME TypeOK, RoundDiscipline, ScansCover, DeployCovers, [Next]_vars
  PROVE  DeployCovers'
<1> USE DEF vars, diskVars, ownerVars, countVars, envVars
<1>1. CASE Insert
  BY <1>1, HistoryTyped, NoScanTyped, Constants DEF Insert,
     RoundDiscipline, DeployCovers, Scanned, Rounds, After, Waits
<1>2. CASE ProcessEnds
  BY <1>2, HistoryTyped, NoScanTyped, Constants DEF ProcessEnds, Fresh,
     RoundDiscipline, DeployCovers, Scanned, Rounds, After, Waits
<1>3. CASE Start
  BY <1>3, HistoryTyped, NoScanTyped, Constants DEF Start, Count, Works,
     Fails, RoundDiscipline, DeployCovers, Scanned, Rounds, After, Waits
<1>4. CASE CountGate
  BY <1>4, HistoryTyped, NoScanTyped, Constants DEF CountGate, Count,
     Works, Fails, Done, RoundDiscipline, DeployCovers, Scanned, Rounds,
     After, Waits
<1>5. CASE IntervalGate
  BY <1>5, HistoryTyped, NoScanTyped, Constants DEF IntervalGate, Done,
     RoundDiscipline, DeployCovers, Scanned, Rounds, After, Waits
<1>6. CASE IdleGate
  BY <1>6, HistoryTyped, NoScanTyped, Constants DEF IdleGate, Works,
     Fails, Done, RoundDiscipline, DeployCovers, Scanned, Rounds, After,
     Waits
<1>7. CASE UpdateBigrams
  BY <1>7, BigramsFound, HistoryTyped, NoScanTyped, Constants DEF
     UpdateBigrams, RoundDiscipline, DeployCovers, Scanned, Rounds, After,
     Waits
<1>8. CASE Discover
  BY <1>8, WordsFound, HistoryTyped, NoScanTyped, Constants DEF Discover,
     RoundDiscipline, DeployCovers, Scanned, Rounds, After, Waits
<1>9. CASE EncodeWords
  BY <1>9, CodesFound, HistoryTyped, NoScanTyped, Constants DEF
     EncodeWords, RoundDiscipline, DeployCovers, Scanned, Rounds, After,
     Waits
<1>10. CASE GenerateDict
  BY <1>10, FilesWritten, HistoryTyped, NoScanTyped, Constants DEF
     GenerateDict, RoundDiscipline, DeployCovers, Scanned, Rounds, After,
     Waits
<1>11. CASE SaveNgrams
  BY <1>11, FilesWritten, HistoryTyped, NoScanTyped, Constants DEF
     SaveNgrams, RoundDiscipline, DeployCovers, Scanned, Rounds, After, Waits
<1>12. CASE WriteRimeDict
  BY <1>12, HistoryTyped, NoScanTyped, Constants DEF WriteRimeDict, Works,
     Fails, RoundDiscipline, DeployCovers, Scanned, Rounds, After, Waits
<1>13. CASE RoundThrows
  BY <1>13, HistoryTyped, NoScanTyped, Constants DEF RoundThrows, Fails,
     Done, RoundDiscipline, DeployCovers, Scanned, Rounds, After, Waits
<1>14. CASE FinishRound
  BY <1>14, HistoryTyped, NoScanTyped, Constants DEF FinishRound, Count,
     Works, Fails, Done, RoundDiscipline, DeployCovers, Scanned, Rounds,
     After, Waits
<1>15. CASE Redeploy
  <2>1. /\ pc = "deploying" /\ UNCHANGED <<rime, announced>>
        /\ failed \subseteq failed'
        /\ \/ build' = rime /\ pc' = "notifying" /\ scan' = scan
           \/ build' = build /\ scan' = NoScan /\ pc' \in {"locking", "none"}
    BY <1>15 DEF Redeploy, Works, Fails, Done
  <2>2. announced \subseteq scan.words
          => Coded(announced, TRUE) \subseteq Coded(scan.words, TRUE)
    BY CodedWords
  <2>3. ~scan.short => scan.coded = Coded(scan.words, TRUE)
    BY <2>1 DEF ScansCover, Encoded, Scanned, Rounds, After
  <2> QED
    BY <2>1, <2>2, <2>3, NoScanTyped DEF DeployCovers, Scanned, Rounds, After
<1>16. CASE Notify
  <2>1. /\ pc = "notifying" /\ UNCHANGED <<rime, build, failed>>
        /\ announced' = announced \cup Words(scan.words)
        /\ scan' = NoScan /\ pc' \in {"locking", "none"}
    BY <1>16 DEF Notify, Done
  <2>2. Words(scan.words) \subseteq scan.words
    BY DEF Words
  <2>3. announced' \subseteq scan.words
          => Coded(announced', TRUE) \subseteq Coded(scan.words, TRUE)
    BY CodedWords
  <2>4. ~scan.short => scan.coded = Coded(scan.words, TRUE)
    BY <2>1 DEF ScansCover, Encoded, Scanned, Rounds, After
  <2> QED
    BY <2>1, <2>2, <2>3, <2>4, NoScanTyped
       DEF DeployCovers, Scanned, Rounds, After
<1>17. CASE Elsewhere
  BY <1>17, ElsewhereKeeps, HistoryTyped, NoScanTyped, Constants DEF
     RoundDiscipline, DeployCovers, Scanned, Rounds, After, Waits
<1> QED
  BY <1>1, <1>2, <1>3, <1>4, <1>5, <1>6, <1>7, <1>8, <1>9, <1>10, <1>11,
     <1>12, <1>13, <1>14, <1>15, <1>16, <1>17 DEF Next, Loop, ShouldRun,
     RunOneRound, Elsewhere

\* LearnInv is inductive.
THEOREM Inductive == Spec => []LearnInv
<1>1. Init => LearnInv
  <2> SUFFICES ASSUME Init PROVE LearnInv
    OBVIOUS
  <2>1. TypeOK
    <3>1. NoScan \in Scan /\ "none" \in Places
      BY Constants DEF NoScan, Scan, Places
    <3>2. 0 \in 0..MaxEntries /\ 1 \in 1..MaxStarts /\ 0 \in 0..MaxFaults
          /\ 0 \in 0..MaxClockSets
      BY Constants
    <3> QED
      BY <3>1, <3>2 DEF Init, TypeOK
  <2>2. RunnerDiscipline
    BY DEF Init, RunnerDiscipline, Gates, Rounds, After, Waits
  <2>3. RoundDiscipline
    BY NoScanTyped DEF Init, RoundDiscipline, Rounds
  <2>4. pc \notin Rounds \cup After /\ pc \notin Scanned \cup Encoded
    BY DEF Init, Encoded, Scanned, Rounds, After
  <2>5. RoundsNeedEntries
    BY DEF Init, RoundsNeedEntries
  <2>6. ScansCover
    BY <2>4 DEF ScansCover
  <2>7. DeployCovers
    <3>1. Coded(announced, TRUE) \subseteq build
      BY DEF Init, Coded
    <3>2. ~scan.short /\ pc \notin {"finishing", "notifying"}
      BY NoScanTyped DEF Init
    <3> QED
      BY <2>4, <3>1, <3>2 DEF DeployCovers
  <2> QED
    BY <2>1, <2>2, <2>3, <2>5, <2>6, <2>7 DEF LearnInv
<1>2. LearnInv /\ [Next]_vars => LearnInv'
  BY TypeStep, RunnerStep, RoundStep, PaidStep, ScansStep, DeployStep DEF
     LearnInv
<1> QED
  BY <1>1, <1>2, PTL DEF Spec

\* Type correctness.
THEOREM TypeCorrect == Spec => []TypeOK
<1>1. LearnInv => TypeOK
  BY DEF LearnInv
<1> QED
  BY <1>1, Inductive, PTL

\* Until Count() fails, no round is run without a new entry
\* (auto_learn.cc:129-131, 181-183).
THEOREM RoundsPaidFor == Spec => []RoundsNeedEntries
<1>1. LearnInv => RoundsNeedEntries
  BY DEF LearnInv
<1> QED
  BY <1>1, Inductive, PTL

\* Until a read, wubi's dictionary or a write of RIME's fails, every word that
\* has a code and was announced is compiled (auto_learn.cc:198-205, 241).
THEOREM Announced == Spec => []AnnouncedDeployed
<1>1. LearnInv => AnnouncedDeployed
  BY DEF LearnInv, DeployCovers, AnnouncedDeployed
<1> QED
  BY <1>1, Inductive, PTL

\* A round that got the whole history and all the codes leaves files that hold
\* what they held before, whatever earlier rounds and processes have met with
\* (learning_round.cc:74-87).
THEOREM FilesGrow == Spec => FilesNeverShrink
<1>1. LearnInv /\ [Next]_vars
        => [~scan.short => /\ dict \subseteq dict'
                           /\ ngrams \subseteq ngrams'
                           /\ rime \subseteq rime']_vars
  <2> SUFFICES ASSUME LearnInv, [Next]_vars, ~scan.short
               PROVE  /\ dict \subseteq dict'
                      /\ ngrams \subseteq ngrams'
                      /\ rime \subseteq rime'
    OBVIOUS
  <2>1. CASE UNCHANGED <<dict, ngrams, rime>>
    BY <2>1
  <2>2. CASE GenerateDict
    <3>1. dict \subseteq scan.words
      BY <2>2 DEF GenerateDict, LearnInv, ScansCover, Scanned, Rounds
    <3>2. dict' = scan.words \/ dict' = dict
      BY <2>2 DEF GenerateDict
    <3> QED
      BY <2>2, <3>1, <3>2 DEF GenerateDict
  <2>3. CASE SaveNgrams
    BY <2>3 DEF SaveNgrams, LearnInv, ScansCover, Scanned, Rounds
  <2>4. CASE WriteRimeDict
    <3>1. /\ scan.coded = Coded(scan.words, TRUE)
          /\ rime \subseteq scan.words
      BY <2>4 DEF WriteRimeDict, LearnInv, ScansCover, Encoded, Scanned, Rounds
    <3>2. rime \subseteq Coded(scan.words, TRUE)
      BY <3>1 DEF LearnInv, RoundDiscipline, Coded
    <3> QED
      BY <2>4, <3>1, <3>2 DEF WriteRimeDict
  <2> QED
    BY <2>1, <2>2, <2>3, <2>4 DEF Next, vars, diskVars, Insert, IntervalPasses,
       QuietPasses, ClockSet, ProcessEnds, Restart, Start, TickForTesting, Stop,
       NotifyAll, Join, Loop, Lock, Park, Resume, Timeout, SpuriousWake,
       ShouldRun, CountGate, IntervalGate, IdleGate, RunOneRound,
       UpdateBigrams, Discover, EncodeWords, RoundThrows, FinishRound,
       Redeploy, Notify
<1> QED
  BY <1>1, Inductive, PTL DEF Spec, FilesNeverShrink
=============================================================================
