----------------------------- MODULE AutoLearn -----------------------------
(***************************************************************************)
(* Background learning in the daemon: the history that commits are stored  *)
(* in, AutoLearnRunner with its watcher thread and its gates, the learning *)
(* round it runs, the RIME redeploy and the notification, under restarts.  *)
(*                                                                         *)
(* History entries are numbered in the order they are stored and are never *)
(* deleted (nothing calls Prune). What is made from the history is named   *)
(* by the set of entries it was made from; a round that reads the whole    *)
(* history makes everything from 1..stored. An entry of WordEntries is one *)
(* whose commit completes a new word, and stands for that word.            *)
(*                                                                         *)
(* RIME's dictionary has a row per word and needs its code: a word comes   *)
(* with the code it was typed with, or wubi spells it, or it has none.     *)
(*                                                                         *)
(* Clocks are two flags: "rested", min_round_interval has passed since     *)
(* last_round_at_ on the steady clock; "quiet", the newest entry is at     *)
(* least idle_threshold old on the wall clock.                             *)
(***************************************************************************)
EXTENDS Naturals, FiniteSets

CONSTANTS
  WordEntries,    \* entries that complete a word not discovered before
  TypedWords,     \* words with a code from the commits they were typed in
  SpelledWords,   \* words that WubiCodec has a code for
  Faults,         \* which operations may fail, see AllFaults
  Testing,        \* a test owns the runner and the history, not main
  MaxEntries,     \* bound: entries ever stored
  MaxFaults,      \* bound: failures
  MaxStarts,      \* bound: daemon processes
  MaxClockSets    \* bound: times the wall clock is set

\* Count() and RecentEntries() return 0 and less than there is when SQLite
\* fails; wubi's dictionary may not load; the two files and RIME's dictionary
\* may not be written; the round may throw; the deployer may be missing or
\* fail.
AllFaults == {"count", "read", "codec", "dict", "ngram", "rime", "throw",
              "deploy"}

ASSUME FaultsAssumption == Faults \subseteq AllFaults
ASSUME TestingAssumption == Testing \in BOOLEAN
\* Both scans of a round take the newest scan_max_entries only. The model is
\* of a history that is not longer, so that a scan sees all of it.
scan_max_entries == 5000

ASSUME LearnBoundAssumption == /\ MaxEntries \in 0..scan_max_entries
                               /\ MaxFaults \in Nat
                               /\ MaxStarts \in Nat \ {0}
                               /\ MaxClockSets \in Nat
ASSUME WordsAssumption == /\ WordEntries \subseteq 1..MaxEntries
                          /\ TypedWords \subseteq WordEntries
                          /\ SpelledWords \subseteq WordEntries

VARIABLES
  \* on disk
  stored,        \* entries in history.db
  dict,          \* the entries learned_words.yaml is made from
  ngrams,        \* the entries personal_ngram.bin is made from
  rime,          \* the words in dafeng_learned.dict.yaml
  build,         \* the words in RIME's compiled dictionary
  \* told to the user, over all processes
  announced,     \* the words the notifications were about
  \* AutoLearnRunner
  main,          \* the thread that owns the runner
  pc,            \* the watcher thread (or TickForTesting)
  mu, stop, started,
  last_round_entry_count,
  total_runs, total_words_learned,
  scan,          \* the round's results, see Scan
  \* clocks and environment
  rested, quiet,
  faults, starts, clocksets,
  failed         \* what has failed so far

diskVars  == <<stored, dict, ngrams, rime, build>>
ownerVars == <<main, mu, stop, started>>
countVars == <<last_round_entry_count, total_runs, total_words_learned>>
envVars   == <<faults, failed, starts, clocksets>>
vars == <<diskVars, announced, ownerVars, countVars, pc, scan, rested, quiet,
          envVars>>

Entries == 1..MaxEntries
History == 1..stored
Words(S) == S \cap WordEntries        \* the words found in these entries

\* Words with a code, by whether wubi's dictionary is there.
Coded(W, loaded) ==
  W \cap (TypedWords \cup (IF loaded THEN SpelledWords ELSE {}))

\* What the two scans have got, the words that have a code, whether the files
\* were written, and (for the properties) whether it is less than there is.
Scan == [bigrams : SUBSET Entries, words : SUBSET Entries,
         coded : SUBSET WordEntries, yaml : BOOLEAN, bin : BOOLEAN, short : BOOLEAN]
NoScan == [bigrams |-> {}, words |-> {}, coded |-> {}, yaml |-> FALSE,
           bin |-> FALSE, short |-> FALSE]

Gates  == {"counting", "resting", "idling"}
Rounds == {"bigrams", "words", "codes", "yaml", "bin", "rimedict", "finishing"}
After  == {"deploying", "notifying"}
\* Places of the watcher thread between two evaluations.
Waits  == {"locking", "parking", "waiting", "woken", "timedout"}
Places == {"none", "exited"} \cup Waits \cup Gates \cup Rounds \cup After

TypeOK ==
  /\ stored \in 0..MaxEntries
  /\ dict \subseteq Entries /\ ngrams \subseteq Entries
  /\ rime \subseteq WordEntries /\ build \subseteq WordEntries
  /\ announced \subseteq WordEntries
  /\ main \in {"down", "created", "serving", "signalling", "joining", "stopped"}
  /\ pc \in Places
  /\ mu \in BOOLEAN
  /\ stop \in BOOLEAN
  /\ started \in BOOLEAN
  /\ last_round_entry_count \in 0..MaxEntries
  /\ total_runs \in Nat
  /\ total_words_learned \in Nat
  /\ scan \in Scan
  /\ rested \in BOOLEAN
  /\ quiet \in BOOLEAN
  /\ faults \in 0..MaxFaults
  /\ failed \subseteq Faults
  /\ starts \in 1..MaxStarts
  /\ clocksets \in 0..MaxClockSets

\* What a new process and its new runner start from: last_round_at_ is long
\* ago, nothing is counted as learned.
Fresh ==
  /\ pc' = "none"
  /\ mu' = FALSE
  /\ stop' = FALSE
  /\ started' = FALSE
  /\ last_round_entry_count' = 0
  /\ total_runs' = 0
  /\ total_words_learned' = 0
  /\ scan' = NoScan
  /\ rested' = TRUE

Init ==
  /\ stored = 0 /\ dict = {} /\ ngrams = {} /\ rime = {} /\ build = {}
  /\ announced = {}
  /\ main = "created" /\ pc = "none"
  /\ mu = FALSE /\ stop = FALSE /\ started = FALSE
  /\ last_round_entry_count = 0 /\ total_runs = 0 /\ total_words_learned = 0
  /\ scan = NoScan
  /\ rested = TRUE /\ quiet = TRUE
  /\ faults = 0 /\ starts = 1 /\ clocksets = 0
  /\ failed = {}
-----------------------------------------------------------------------------
Fails(f) ==
  /\ f \in Faults
  /\ faults < MaxFaults
  /\ faults' = faults + 1
  /\ failed' = failed \cup {f}

Works == UNCHANGED <<faults, failed>>

\* history_->Count() returns n.
Count(n) ==
  \/ n = stored /\ Works
  \/ n = 0 /\ Fails("count")

\* RecentEntries returns the whole history, or what it had when SQLite failed:
\* the newest rows or none. Which words are found in some of the rows depends
\* on how often they occur there, so any set stands for such a read.
Read(S, short) ==
  \/ S = History /\ ~short /\ Works
  \/ S \subseteq History /\ short /\ Fails("read")

\* The evaluation is over: back to the loop, or TickForTesting returns.
Done ==
  /\ pc' = IF started THEN "locking" ELSE "none"
  /\ scan' = NoScan
-----------------------------------------------------------------------------
(***************************************************************************)
(* The user, the clocks, the process.                                      *)
(***************************************************************************)

\* A worker of the server stores a commit; main starts the server after the
\* runner, tests insert at any time.
Insert ==
  /\ main # "down"
  /\ main = "created" => Testing
  /\ stored < MaxEntries
  /\ stored' = stored + 1
  /\ quiet' = FALSE
  /\ UNCHANGED <<dict, ngrams, rime, build, announced, ownerVars, countVars, pc,
                 scan, rested, envVars>>

IntervalPasses ==
  /\ ~rested
  /\ rested' = TRUE
  /\ UNCHANGED <<diskVars, announced, ownerVars, countVars, pc, scan, quiet,
                 envVars>>

QuietPasses ==
  /\ ~quiet
  /\ quiet' = TRUE
  /\ UNCHANGED <<diskVars, announced, ownerVars, countVars, pc, scan, rested,
                 envVars>>

\* The wall clock is set: forward, the newest entry looks old at once; back,
\* it lies in the future.
ClockSet ==
  /\ clocksets < MaxClockSets
  /\ clocksets' = clocksets + 1
  /\ quiet' \in BOOLEAN
  /\ UNCHANGED <<diskVars, announced, ownerVars, countVars, pc, scan, rested,
                 faults, failed, starts>>

\* main returns, or the process is killed.
ProcessEnds ==
  /\ main # "down"
  /\ main' = "down"
  /\ Fresh
  /\ UNCHANGED <<diskVars, announced, quiet, envVars>>

Restart ==
  /\ main = "down"
  /\ starts < MaxStarts
  /\ starts' = starts + 1
  /\ main' = "created"
  /\ UNCHANGED <<diskVars, announced, mu, stop, started, countVars, pc, scan,
                 rested, quiet, faults, failed, clocksets>>
-----------------------------------------------------------------------------
(***************************************************************************)
(* The owner of the runner: main, or a test.                               *)
(***************************************************************************)

\* Under mu_: everything stored so far counts as learned. A second Start
\* finds started_ set and changes nothing.
Start ==
  /\ main = "created"
  /\ pc = "none"
  /\ ~mu
  /\ ~started
  /\ Count(last_round_entry_count')
  /\ rested' = FALSE
  /\ stop' = FALSE
  /\ started' = TRUE
  /\ pc' = "locking"
  /\ main' = "serving"
  /\ UNCHANGED <<diskVars, announced, mu, total_runs, total_words_learned, scan,
                 quiet, starts, clocksets>>

\* One evaluation on the owner's thread, on a runner that is not started.
TickForTesting ==
  /\ Testing
  /\ main = "created"
  /\ pc = "none"
  /\ pc' = "counting"
  /\ UNCHANGED <<diskVars, announced, ownerVars, countVars, scan, rested, quiet,
                 envVars>>

\* Mutant of Stop: stop_ is set without mu_.
Stop_Unlocked ==
  /\ main = "serving"
  /\ started
  /\ stop' = TRUE
  /\ main' = "signalling"
  /\ UNCHANGED <<diskVars, announced, mu, started, countVars, pc, scan, rested,
                 quiet, envVars>>

\* Stop, first block: under mu_.
Stop ==
  /\ main = "serving"
  /\ ~mu
  /\ started
  /\ stop' = TRUE
  /\ main' = "signalling"
  /\ UNCHANGED <<diskVars, announced, mu, started, countVars, pc, scan, rested,
                 quiet, envVars>>

\* cv_.notify_all() wakes the watcher if it waits.
NotifyAll ==
  /\ main = "signalling"
  /\ pc' = IF pc = "waiting" THEN "woken" ELSE pc
  /\ main' = "joining"
  /\ UNCHANGED <<diskVars, announced, mu, stop, started, countVars, scan, rested,
                 quiet, envVars>>

Join ==
  /\ main = "joining"
  /\ pc = "exited"
  /\ started' = FALSE
  /\ main' = "stopped"
  /\ UNCHANGED <<diskVars, announced, mu, stop, countVars, pc, scan, rested,
                 quiet, envVars>>
-----------------------------------------------------------------------------
(***************************************************************************)
(* The watcher thread: Loop.                                               *)
(***************************************************************************)

\* Takes mu_ and evaluates wait_for's predicate.
Lock ==
  /\ pc = "locking"
  /\ ~mu
  /\ \/ stop /\ pc' = "exited" /\ UNCHANGED mu
     \/ ~stop /\ pc' = "parking" /\ mu' = TRUE
  /\ UNCHANGED <<diskVars, announced, main, stop, started, countVars, scan,
                 rested, quiet, envVars>>

\* wait_for lets go of mu_ and sleeps, in one.
Park ==
  /\ pc = "parking"
  /\ pc' = "waiting"
  /\ mu' = FALSE
  /\ UNCHANGED <<diskVars, announced, main, stop, started, countVars, scan,
                 rested, quiet, envVars>>

\* poll_interval is over.
Timeout ==
  /\ pc = "waiting"
  /\ pc' = "timedout"
  /\ UNCHANGED <<diskVars, announced, ownerVars, countVars, scan, rested, quiet,
                 envVars>>

SpuriousWake ==
  /\ pc = "waiting"
  /\ pc' = "woken"
  /\ UNCHANGED <<diskVars, announced, ownerVars, countVars, scan, rested, quiet,
                 envVars>>

\* The watcher has mu_ again: it stops, goes back to sleep, or goes to work
\* without mu_.
Resume ==
  /\ pc \in {"woken", "timedout"}
  /\ ~mu
  /\ \/ stop /\ pc' = "exited" /\ UNCHANGED mu
     \/ ~stop /\ pc = "woken" /\ pc' = "parking" /\ mu' = TRUE
     \/ ~stop /\ pc = "timedout" /\ pc' = "counting" /\ UNCHANGED mu
  /\ UNCHANGED <<diskVars, announced, main, stop, started, countVars, scan,
                 rested, quiet, envVars>>
-----------------------------------------------------------------------------
(***************************************************************************)
(* ShouldRunLocked: three gates, each reading the world when it gets there.*)
(***************************************************************************)

CountGate ==
  /\ pc = "counting"
  /\ \E n \in 0..MaxEntries :
       /\ Count(n)
       /\ IF n > last_round_entry_count
            THEN pc' = "resting" /\ UNCHANGED scan
            ELSE Done
  /\ UNCHANGED <<diskVars, announced, ownerVars, countVars, rested, quiet,
                 starts, clocksets>>

IntervalGate ==
  /\ pc = "resting"
  /\ IF rested THEN pc' = "idling" /\ UNCHANGED scan ELSE Done
  /\ UNCHANGED <<diskVars, announced, ownerVars, countVars, rested, quiet,
                 envVars>>

\* No newest entry, no reason to wait.
IdleGate ==
  /\ pc = "idling"
  /\ \/ quiet /\ pc' = "bigrams" /\ UNCHANGED scan /\ Works
     \/ ~quiet /\ Done /\ Works
     \/ pc' = "bigrams" /\ UNCHANGED scan /\ Fails("read")
  /\ UNCHANGED <<diskVars, announced, ownerVars, countVars, rested, quiet,
                 starts, clocksets>>
-----------------------------------------------------------------------------
(***************************************************************************)
(* RunOneRoundLocked and the RunLearningRound it calls, without mu_.       *)
(***************************************************************************)

\* The table is a new one each round, so it holds what this scan found.
UpdateBigrams ==
  /\ pc = "bigrams"
  /\ \E S \in SUBSET Entries, short \in BOOLEAN :
       Read(S, short) /\ scan' = [scan EXCEPT !.bigrams = S, !.short = short]
  /\ pc' = "words"
  /\ UNCHANGED <<diskVars, announced, ownerVars, countVars, rested, quiet,
                 starts, clocksets>>

\* Mutant of Discover: looks only at what was counted before.
Discover_Counted ==
  /\ pc = "words"
  /\ scan' = [scan EXCEPT !.words = 1..last_round_entry_count]
  /\ pc' = "codes"
  /\ UNCHANGED <<diskVars, announced, ownerVars, countVars, rested, quiet,
                 envVars>>

Discover ==
  /\ pc = "words"
  /\ \E S \in SUBSET Entries, short \in BOOLEAN :
       /\ Read(S, short)
       /\ scan' = [scan EXCEPT !.words = S, !.short = scan.short \/ short]
  /\ pc' = "codes"
  /\ UNCHANGED <<diskVars, announced, ownerVars, countVars, rested, quiet,
                 starts, clocksets>>

\* The round has WubiCodec spell the words. A word it has no code for keeps
\* the one it was typed with, or has none.
EncodeWords ==
  /\ pc = "codes"
  /\ \E loaded \in BOOLEAN :
       /\ IF loaded THEN Works ELSE Fails("codec")
       /\ scan' = [scan EXCEPT !.coded = Coded(Words(scan.words), loaded),
                               !.short = scan.short \/ ~loaded]
  /\ pc' = "yaml"
  /\ UNCHANGED <<diskVars, announced, ownerVars, countVars, rested, quiet,
                 starts, clocksets>>

GenerateDict ==
  /\ pc = "yaml"
  /\ \/ /\ Works
        /\ dict' = scan.words
        /\ scan' = [scan EXCEPT !.yaml = TRUE]
     \/ Fails("dict") /\ UNCHANGED <<dict, scan>>
  /\ pc' = "bin"
  /\ UNCHANGED <<stored, ngrams, rime, build, announced, ownerVars, countVars,
                 rested, quiet, starts, clocksets>>

SaveNgrams ==
  /\ pc = "bin"
  /\ \/ /\ Works
        /\ ngrams' = scan.bigrams
        /\ scan' = [scan EXCEPT !.bin = TRUE]
     \/ Fails("ngram") /\ UNCHANGED <<ngrams, scan>>
  /\ pc' = "rimedict"
  /\ UNCHANGED <<stored, dict, rime, build, announced, ownerVars, countVars,
                 rested, quiet, starts, clocksets>>

\* A row for each word that has a code, none for the others. Whether RIME's
\* dictionary was written is not looked at. The sentinel and the git step that
\* follow touch nothing of this module (and may throw).
WriteRimeDict ==
  /\ pc = "rimedict"
  /\ \/ Works /\ rime' = scan.coded
     \/ Fails("rime") /\ UNCHANGED rime
  /\ pc' = "finishing"
  /\ UNCHANGED <<stored, dict, ngrams, build, announced, ownerVars, countVars,
                 scan, rested, quiet, starts, clocksets>>

\* Mutant of RoundThrows: the entries count as learned all the same.
RoundThrows_Counts ==
  /\ pc \in Rounds
  /\ Fails("throw")
  /\ rested' = FALSE
  /\ last_round_entry_count' = stored
  /\ Done
  /\ UNCHANGED <<diskVars, announced, ownerVars, total_runs,
                 total_words_learned, quiet, starts, clocksets>>

\* Only the clock is moved: the entries are tried again.
RoundThrows ==
  /\ pc \in Rounds
  /\ Fails("throw")
  /\ rested' = FALSE
  /\ Done
  /\ UNCHANGED <<diskVars, announced, ownerVars, countVars, quiet, starts,
                 clocksets>>

\* Mutant of FinishRound: the count is left alone.
FinishRound_NoCount ==
  /\ pc = "finishing"
  /\ total_runs' = total_runs + 1
  /\ rested' = FALSE
  /\ IF scan.yaml /\ scan.bin /\ Words(scan.words) # {}
       THEN /\ total_words_learned'
                 = total_words_learned + Cardinality(Words(scan.words))
            /\ pc' = "deploying"
            /\ UNCHANGED scan
       ELSE Done /\ UNCHANGED total_words_learned
  /\ UNCHANGED <<diskVars, announced, ownerVars, last_round_entry_count, quiet,
                 envVars>>

\* The entries are counted again after the round, and before its result is
\* looked at. words_discovered counts the words without a code as well.
FinishRound ==
  /\ pc = "finishing"
  /\ total_runs' = total_runs + 1
  /\ rested' = FALSE
  /\ Count(last_round_entry_count')
  /\ IF scan.yaml /\ scan.bin /\ Words(scan.words) # {}
       THEN /\ total_words_learned'
                 = total_words_learned + Cardinality(Words(scan.words))
            /\ pc' = "deploying"
            /\ UNCHANGED scan
       ELSE Done /\ UNCHANGED total_words_learned
  /\ UNCHANGED <<diskVars, announced, ownerVars, quiet, starts, clocksets>>

\* Mutant of Redeploy: the deployer's failure is not looked at.
Redeploy_Unchecked ==
  /\ pc = "deploying"
  /\ \/ Works /\ build' = rime
     \/ Fails("deploy") /\ UNCHANGED build
  /\ pc' = "notifying"
  /\ UNCHANGED <<stored, dict, ngrams, rime, announced, ownerVars, countVars,
                 scan, rested, quiet, starts, clocksets>>

\* rime_deployer compiles the dictionary that is there.
Redeploy ==
  /\ pc = "deploying"
  /\ \/ Works /\ build' = rime /\ pc' = "notifying" /\ UNCHANGED scan
     \/ Fails("deploy") /\ UNCHANGED build /\ Done
  /\ UNCHANGED <<stored, dict, ngrams, rime, announced, ownerVars, countVars,
                 rested, quiet, starts, clocksets>>

Notify ==
  /\ pc = "notifying"
  /\ announced' = announced \cup Words(scan.words)
  /\ Done
  /\ UNCHANGED <<diskVars, ownerVars, countVars, rested, quiet, envVars>>
-----------------------------------------------------------------------------
ShouldRun == CountGate \/ IntervalGate \/ IdleGate

RunOneRound ==
  \/ UpdateBigrams \/ Discover \/ EncodeWords
  \/ GenerateDict \/ SaveNgrams \/ WriteRimeDict
  \/ RoundThrows \/ FinishRound \/ Redeploy \/ Notify

Loop == Lock \/ Park \/ Resume

Next ==
  \/ Insert \/ IntervalPasses \/ QuietPasses \/ ClockSet
  \/ ProcessEnds \/ Restart
  \/ Start \/ TickForTesting \/ Stop \/ NotifyAll \/ Join
  \/ Loop \/ Timeout \/ SpuriousWake
  \/ ShouldRun \/ RunOneRound

Spec == Init /\ [][Next]_vars

WatcherFairness == WF_vars(Loop) /\ WF_vars(ShouldRun) /\ WF_vars(RunOneRound)

\* The threads run.
FairSpec ==
  /\ Spec
  /\ WatcherFairness
  /\ WF_vars(NotifyAll) /\ WF_vars(Join)

\* Waits end by their (absolute) deadlines and time passes. Entries are
\* bounded, so in the end the user is quiet.
TimePasses ==
  SF_vars(Timeout) /\ WF_vars(IntervalPasses) /\ WF_vars(QuietPasses)
-----------------------------------------------------------------------------
(***************************************************************************)
(* Properties.                                                             *)
(***************************************************************************)

\* auto_learn.cc:241 tells the user that the words "take effect the next time
\* the input method is switched": those that have a code are in the dictionary
\* RIME has compiled, whatever rounds, throws and restarts have come since.
\* (Until a read, wubi's dictionary or a write of RIME's fails; the round goes
\* on after each, learning_round.cc:29, 37, 47, 84.)
AnnouncedDeployed ==
  failed \cap {"read", "codec", "rime"} = {}
    => Coded(announced, TRUE) \subseteq build

\* A round that got the whole history and all the codes leaves files that hold
\* what they held before, in this process or an earlier one, and whatever has
\* failed in earlier rounds.
FilesNeverShrink ==
  [][ ~scan.short => /\ dict \subseteq dict'
                     /\ ngrams \subseteq ngrams'
                     /\ rime \subseteq rime' ]_vars

\* Every round is paid for by an entry that came after the last one: learning
\* never runs (and RIME is never rebuilt) over and over for the same input.
\* (Until Count() fails, and nothing counts as learned.)
RoundsNeedEntries ==
  "count" \notin failed => total_runs <= last_round_entry_count

\* Who is where: mu_ is the watcher's only while it parks, and there is a
\* watcher exactly between Start and Join.
RunnerDiscipline ==
  /\ mu <=> pc = "parking"
  /\ started <=> main \in {"serving", "signalling", "joining"}
  /\ pc \in Waits \cup {"exited"} => main \notin {"created", "down"}
  /\ started => pc # "none"
  /\ ~started => pc \in {"none", "exited"} \cup Gates \cup Rounds \cup After
  /\ main \in {"stopped", "joining", "signalling"} => stop
  /\ pc = "exited" => stop
  /\ main = "down" => pc = "none"
  /\ main = "stopped" => pc = "exited"

\* What a place of the evaluation has established.
RoundDiscipline ==
  /\ last_round_entry_count <= stored
  /\ pc \in {"resting", "idling"} \cup Rounds => last_round_entry_count < stored
  /\ dict \subseteq History /\ ngrams \subseteq History
  /\ rime \subseteq Coded(History, TRUE)
  /\ announced \subseteq History
  /\ scan.bigrams \subseteq History /\ scan.words \subseteq History
  /\ scan.coded \subseteq Coded(History, TRUE)

Scanned == (Rounds \ {"bigrams", "words"}) \cup After
Encoded == Scanned \ {"codes"}

\* A round whose scans were complete has all that the files hold.
ScansCover ==
  ~scan.short =>
    /\ pc \in Rounds \ {"bigrams"} => ngrams \subseteq scan.bigrams
    /\ pc \in Scanned => dict \cup rime \subseteq scan.words
    /\ pc \in Encoded => scan.coded = Coded(scan.words, TRUE)

\* What is deployed and then announced is what the round found.
DeployCovers ==
  failed \cap {"read", "codec", "rime"} = {} =>
    /\ ~scan.short
    /\ Coded(announced, TRUE) \subseteq build
    /\ pc \in Scanned => announced \subseteq scan.words
    /\ pc \in {"finishing"} \cup After => rime = scan.coded
    /\ pc = "notifying" => build = scan.coded

\* The inductive invariant of AutoLearnProofs.
LearnInv ==
  /\ TypeOK
  /\ RunnerDiscipline
  /\ RoundDiscipline
  /\ RoundsNeedEntries
  /\ ScansCover
  /\ DeployCovers

\* An entry that is in the history while no round runs, and is not counted as
\* learned, is learned: also when rounds throw, the user keeps typing for a
\* while, the wall clock is set, or the deployer is missing. Excused are a
\* daemon that stops or dies, and one whose count, read or write of the
\* dictionary has failed (the code does not try again).
WaitingEntriesLearned ==
  TimePasses =>
    \A n \in 1..MaxEntries :
      (/\ main = "serving"
       /\ pc \notin Rounds
       /\ last_round_entry_count < n
       /\ n <= stored)
        ~> (\/ n \in dict
            \/ main # "serving"
            \/ failed \cap {"count", "read", "dict"} # {})

\* Stop never misses the watcher: it ends it without waiting for the poll
\* interval to run out.
StopReturns == (main = "signalling") ~> (main \in {"stopped", "down"})
=============================================================================
