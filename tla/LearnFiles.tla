---------------------------- MODULE LearnFiles ----------------------------
(***************************************************************************)
(* The files of a learning round, and who writes them: the daemon's        *)
(* watcher and `dafeng-cli learn`, two processes over one history and one  *)
(* directory, without a lock between them. A save opens <file>.tmp with    *)
(* truncation, writes it part by part, closes it and renames it over the   *)
(* file; then userdata/ is committed to git and the daemon has RIME build  *)
(* its dictionary.                                                         *)
(*                                                                         *)
(* POSIX files: a stream stays with the file it opened, whatever the name  *)
(* is bound to later. With fixed names a stream is open on what is now     *)
(* called .tmp, on what has been published since, or on a file that has    *)
(* no name any more; `stream` says which. Every stream has its own offset. *)
(*                                                                         *)
(* A version of a file is the sequence that gives, for each history entry  *)
(* it was made from, how often that entry was counted; words are listed    *)
(* once each. An entry that a scan did not get counts zero times in it. A  *)
(* file's content gives for each part the version it was written from, as  *)
(* a set: {} is a part not written (a hole).                               *)
(***************************************************************************)
EXTENDS Integers, Sequences, FiniteSets

CONSTANTS
  Daemons,       \* processes that run RunOneRoundLocked
  Clis,          \* processes that run `dafeng-cli learn`
  Parts,         \* write()s per file
  CommitToGit,   \* is git sync built in and switched on?
  MaxEntries,    \* bound: history entries
  MaxRounds,     \* bound: rounds ever begun
  MaxMishaps     \* bound: failed reads of the history, failed file
                 \* operations and killed processes

Processes == Daemons \cup Clis

ASSUME ProcessAssumption == Daemons \cap Clis = {}
ASSUME PartsAssumption   == Parts \in Nat \ {0}
ASSUME GitAssumption     == CommitToGit \in BOOLEAN
ASSUME BoundAssumption   == /\ MaxEntries \in Nat
                            /\ MaxRounds \in Nat
                            /\ MaxMishaps \in Nat

FileOrder == <<"words", "ngram", "rime">>       \* the order of the saves
Files     == {"words", "ngram", "rime"}
Userdata  == {"words", "ngram"}                 \* files in the repository

Version   == Seq(Nat)
Content   == [1..Parts -> SUBSET Version]
Absent    == <<>>
Holes     == [k \in 1..Parts |-> {}]
Entries(v) == {e \in DOMAIN v : v[e] > 0}      \* the ones it was made from
Complete(v) == [k \in 1..Parts |-> {v}]
Whole(c)  == \E v \in c[1] : c = Complete(v)
Sound(c)  == c = Absent \/ Whole(c)

VARIABLES
  entries,    \* rows of the history table
  step,       \* step[p]: where p is in its round
  turn,       \* turn[p]: which file of FileOrder p is at
  made,       \* made[p][f]: the version p is to save
  stream,     \* stream[p]: what p's output stream is open on
  pos,        \* pos[p]: parts p has written to it
  wrote,      \* wrote[p]: files whose save returned true this round
  staged,     \* staged[p]: the tree p is about to commit
  short,      \* short[p]: has p's round read less than the whole history?
  tmp, pub,   \* contents of <file>.tmp and <file>
  head,       \* the tree of HEAD
  build,      \* the dictionary RIME has compiled
  rounds, mishaps,
  \* history
  shared,     \* files that two processes have saved at once
  together,   \* have two rounds overlapped?
  cliRuns     \* rounds of `dafeng-cli learn` since a daemon saved its count

locals  == <<turn, made, stream, pos, wrote, staged, short>>
disk    == <<tmp, pub, head, build>>
history == <<shared, together, cliRuns>>
vars    == <<entries, step, locals, disk, rounds, mishaps, history>>

Tree  == [files : [Userdata -> Content \cup {Absent}], strays : SUBSET Userdata]
Steps == {"idle", "count", "discover", "open", "write", "stage", "commit",
          "deploy"}
Streams == {"none", "tmp", "pub", "unlinked"}

TypeOK ==
  /\ entries \in 0..MaxEntries
  /\ step \in [Processes -> Steps]
  /\ turn \in [Processes -> 1..3]
  /\ made \in [Processes -> [Files -> Version]]
  /\ stream \in [Processes -> Streams]
  /\ pos \in [Processes -> 0..Parts]
  /\ wrote \in [Processes -> SUBSET Files]
  /\ staged \in [Processes -> Tree]
  /\ short \in [Processes -> BOOLEAN]
  /\ tmp \in [Files -> Content \cup {Absent}]
  /\ pub \in [Files -> Content \cup {Absent}]
  /\ head \in Tree
  /\ build \in Content \cup {Absent}
  /\ rounds \in 0..MaxRounds
  /\ mishaps \in 0..MaxMishaps
  /\ shared \in SUBSET Files
  /\ together \in BOOLEAN
  /\ cliRuns \in 0..rounds

NoTree == [files |-> [f \in Userdata |-> Absent], strays |-> {}]

Init ==
  /\ entries = 0
  /\ step = [p \in Processes |-> "idle"]
  /\ turn = [p \in Processes |-> 1]
  /\ made = [p \in Processes |-> [f \in Files |-> <<>>]]
  /\ stream = [p \in Processes |-> "none"]
  /\ pos = [p \in Processes |-> 0]
  /\ wrote = [p \in Processes |-> {}]
  /\ staged = [p \in Processes |-> NoTree]
  /\ short = [p \in Processes |-> FALSE]
  /\ tmp = [f \in Files |-> Absent]
  /\ pub = [f \in Files |-> Absent]
  /\ head = NoTree
  /\ build = Absent
  /\ rounds = 0
  /\ mishaps = 0
  /\ shared = {}
  /\ together = FALSE
  /\ cliRuns = 0

File(p)  == FileOrder[turn[p]]

\* The round of p is over, and with it its locals.
Leave(p) ==
  /\ step' = [step EXCEPT ![p] = "idle"]
  /\ turn' = [turn EXCEPT ![p] = 1]
  /\ made' = [made EXCEPT ![p] = [f \in Files |-> <<>>]]
  /\ stream' = [stream EXCEPT ![p] = "none"]
  /\ pos' = [pos EXCEPT ![p] = 0]
  /\ wrote' = [wrote EXCEPT ![p] = {}]
  /\ staged' = [staged EXCEPT ![p] = NoTree]
  /\ short' = [short EXCEPT ![p] = FALSE]

Busy(p)  == step[p] # "idle"
Saves(p, f) == stream[p] # "none" /\ File(p) = f
-----------------------------------------------------------------------------
\* The daemon stores a committed text.
RecordCommit ==
  /\ entries < MaxEntries
  /\ entries' = entries + 1
  /\ UNCHANGED <<step, locals, disk, rounds, mishaps, history>>

\* What Load leaves in the table of file f. The result of Load is ignored,
\* and a file that is not whole leaves what was read before the error.
Loaded(f) == IF pub[f] = Absent THEN {<<>>}
             ELSE IF Whole(pub[f]) THEN pub[f][1]
             ELSE {<<>>} \cup UNION {pub[f][k] : k \in 1..Parts}

\* Mutant of StartTable: the daemon loads the table it is about to replace.
StartTable_Daemon(p) == Loaded("ngram")
\* CmdLearn adds to the saved table, RunOneRoundLocked starts a new one.
StartTable(p) == IF p \in Clis THEN Loaded("ngram") ELSE {<<>>}

BeginRound(p) ==
  /\ step[p] = "idle"
  /\ rounds < MaxRounds
  /\ rounds' = rounds + 1
  /\ \E t \in StartTable(p) : made' = [made EXCEPT ![p]["ngram"] = t]
  /\ step' = [step EXCEPT ![p] = "count"]
  /\ together' = (together \/ \E q \in Processes \ {p} : Busy(q))
  /\ cliRuns' = IF p \in Clis THEN cliRuns + 1 ELSE cliRuns
  /\ UNCHANGED <<entries, turn, stream, pos, wrote, staged, short, disk,
                 mishaps, shared>>

\* RecentEntries of n entries, newest first, that ends after the first k.
Read(n, k) == [e \in 1..n |-> IF e > n - k THEN 1 ELSE 0]

\* SQLite may fail before the first row or after any other: the rows it got
\* are returned like a whole result.
RecentEntries(p, k) ==
  \/ /\ k = entries
     /\ UNCHANGED <<short, mishaps>>
  \/ /\ k < entries
     /\ mishaps < MaxMishaps
     /\ mishaps' = mishaps + 1
     /\ short' = [short EXCEPT ![p] = TRUE]

\* UpdateBigramsFromHistory: every entry read adds one to what the table has.
Counted(t, r) == [e \in DOMAIN r |-> r[e] + (IF e \in DOMAIN t THEN t[e] ELSE 0)]

UpdateBigrams(p) ==
  /\ step[p] = "count"
  /\ \E k \in 0..entries :
       /\ RecentEntries(p, k)
       /\ made' = [made EXCEPT ![p]["ngram"] = Counted(@, Read(entries, k))]
  /\ step' = [step EXCEPT ![p] = "discover"]
  /\ UNCHANGED <<entries, turn, stream, pos, wrote, staged, disk, rounds,
                 history>>

\* DiscoverNewWords scans again: the history may have grown meanwhile.
Discover(p) ==
  /\ step[p] = "discover"
  /\ \E k \in 0..entries :
       /\ RecentEntries(p, k)
       /\ made' = [made EXCEPT ![p] = [f \in Files |-> IF f = "ngram" THEN @[f]
                                         ELSE Read(entries, k)]]
  /\ step' = [step EXCEPT ![p] = "open"]
  /\ UNCHANGED <<entries, turn, stream, pos, wrote, staged, disk, rounds,
                 history>>

\* ofstream(tmp, trunc): a file of that name is emptied, not replaced, so a
\* stream another process has open on it goes on writing into the same file.
OpenTmp(p) ==
  /\ step[p] = "open"
  /\ tmp' = [tmp EXCEPT ![File(p)] = Holes]
  /\ stream' = [stream EXCEPT ![p] = "tmp"]
  /\ step' = [step EXCEPT ![p] = "write"]
  /\ shared' = IF \E q \in Processes \ {p} : Saves(q, File(p))
                 THEN shared \cup {File(p)} ELSE shared
  /\ UNCHANGED <<entries, turn, made, pos, wrote, staged, short, pub, head,
                 build, rounds, mishaps, together, cliRuns>>

\* Part k of the content c, written from version v.
Put(c, k, v) == [c EXCEPT ![k] = {v}]

WritePart(p) ==
  /\ step[p] = "write"
  /\ pos[p] < Parts
  /\ pos' = [pos EXCEPT ![p] = @ + 1]
  /\ LET f == File(p)
         v == made[p][f]
     IN \/ /\ stream[p] = "tmp"
           /\ tmp' = [tmp EXCEPT ![f] = Put(@, pos[p] + 1, v)]
           /\ UNCHANGED pub
        \/ /\ stream[p] = "pub"
           /\ pub' = [pub EXCEPT ![f] = Put(@, pos[p] + 1, v)]
           /\ UNCHANGED tmp
        \/ /\ stream[p] = "unlinked"
           /\ UNCHANGED <<tmp, pub>>
  /\ UNCHANGED <<entries, step, turn, made, stream, wrote, staged, short, head,
                 build, rounds, mishaps, history>>

LastFile(p) == turn[p] = Len(FileOrder)

\* After a save the round goes on to the next file, whatever its result.
\* A failed save leaves its temporary file behind.
NextFile(p) ==
  /\ pos' = [pos EXCEPT ![p] = 0]
  /\ \/ /\ ~LastFile(p)
        /\ turn' = [turn EXCEPT ![p] = @ + 1]
        /\ step' = [step EXCEPT ![p] = "open"]
     \/ /\ LastFile(p)
        /\ UNCHANGED turn
        /\ step' = [step EXCEPT ![p] = IF CommitToGit THEN "stage" ELSE "deploy"]

\* Mutant of FailedWrite: the state of the stream is not looked at.
FailedWrite_Unchecked(p) ==
  /\ pub' = [pub EXCEPT ![File(p)] = tmp[File(p)]]
  /\ tmp' = [tmp EXCEPT ![File(p)] = Absent]
  /\ wrote' = [wrote EXCEPT ![p] = @ \cup {File(p)}]
\* A write() failed: close() leaves the stream bad and Save returns false.
FailedWrite(p) == UNCHANGED <<pub, tmp, wrote>>

\* The file cannot be opened; or it was, and the disk is full.
SaveFails(p) ==
  /\ step[p] \in {"open", "write"}
  /\ mishaps < MaxMishaps
  /\ mishaps' = mishaps + 1
  /\ IF step[p] = "open" THEN UNCHANGED <<pub, tmp, wrote>> ELSE FailedWrite(p)
  /\ stream' = [stream EXCEPT ![p] = "none"]
  /\ NextFile(p)
  /\ UNCHANGED <<entries, made, staged, short, head, build, rounds, history>>

\* Where the streams on file f are once <f>.tmp has become <f>.
Renamed(f, p) ==
  [q \in Processes |-> IF q = p THEN "none"
                       ELSE IF ~Saves(q, f) THEN stream[q]
                       ELSE IF stream[q] = "tmp" THEN "pub"
                       ELSE "unlinked"]

\* Mutant of Move: the temporary file is copied and left there.
Move_Copy(f) ==
  /\ pub' = [pub EXCEPT ![f] = tmp[f]]
  /\ UNCHANGED tmp
\* rename(<f>.tmp, <f>).
Move(f) ==
  /\ pub' = [pub EXCEPT ![f] = tmp[f]]
  /\ tmp' = [tmp EXCEPT ![f] = Absent]

\* Mutant of Written: the rename does not wait for the last write.
Written_Early(p) == pos[p] >= Parts - 1
Written(p) == pos[p] = Parts

\* close() and rename(). Another process may have renamed the file away;
\* then rename() fails and the save returns false.
Publish(p) ==
  /\ step[p] = "write"
  /\ Written(p)
  /\ LET f == File(p)
     IN \/ /\ tmp[f] # Absent
           /\ Move(f)
           /\ stream' = Renamed(f, p)
           /\ wrote' = [wrote EXCEPT ![p] = @ \cup {f}]
           /\ cliRuns' = IF f = "ngram" /\ p \in Daemons THEN 0 ELSE cliRuns
        \/ /\ tmp[f] = Absent
           /\ stream' = [stream EXCEPT ![p] = "none"]
           /\ UNCHANGED <<pub, tmp, wrote, cliRuns>>
  /\ NextFile(p)
  /\ UNCHANGED <<entries, made, staged, short, head, build, rounds, mishaps,
                 shared, together>>

\* What git_index_add_all(".") finds in userdata/: temporary files as well.
Worktree == [files  |-> [f \in Userdata |-> pub[f]],
             strays |-> {f \in Userdata : tmp[f] # Absent}]

Stage(p) ==
  /\ step[p] = "stage"
  /\ staged' = [staged EXCEPT ![p] = Worktree]
  /\ step' = [step EXCEPT ![p] = "commit"]
  /\ UNCHANGED <<entries, turn, made, stream, pos, wrote, short, disk, rounds,
                 mishaps, history>>

\* git_commit_create, with the HEAD of this moment as the parent.
CommitAll(p) ==
  /\ step[p] = "commit"
  /\ head' = staged[p]
  /\ step' = [step EXCEPT ![p] = "deploy"]
  /\ staged' = [staged EXCEPT ![p] = NoTree]
  /\ UNCHANGED <<entries, turn, made, stream, pos, wrote, short, tmp, pub,
                 build, rounds, mishaps, history>>

\* Init or any call of CommitAll fails: the round goes on without.
GitFails(p) ==
  /\ step[p] \in {"stage", "commit"}
  /\ mishaps < MaxMishaps
  /\ mishaps' = mishaps + 1
  /\ step' = [step EXCEPT ![p] = "deploy"]
  /\ UNCHANGED <<entries, locals, disk, rounds, history>>

\* rime_deployer compiles the dictionary it finds. RunOneRoundLocked asks
\* for it when there is a word and both files of userdata/ were written.
Deploy(p) ==
  /\ step[p] = "deploy"
  /\ p \in Daemons
  /\ Userdata \subseteq wrote[p]
  /\ Entries(made[p]["words"]) # {}
  /\ build' = pub["rime"]
  /\ Leave(p)
  /\ UNCHANGED <<entries, tmp, pub, head, rounds, mishaps, history>>

\* The CLI ends; so does a round that is not clean, found no word or has no
\* deployer.
EndRound(p) ==
  /\ step[p] = "deploy"
  /\ Leave(p)
  /\ UNCHANGED <<entries, disk, rounds, mishaps, history>>

\* The process dies inside its round. What it wrote stays.
Crash(p) ==
  /\ Busy(p)
  /\ mishaps < MaxMishaps
  /\ mishaps' = mishaps + 1
  /\ Leave(p)
  /\ UNCHANGED <<entries, disk, rounds, history>>

Next ==
  \/ RecordCommit
  \/ \E p \in Processes :
       \/ BeginRound(p) \/ UpdateBigrams(p) \/ Discover(p)
       \/ OpenTmp(p) \/ WritePart(p) \/ Publish(p) \/ SaveFails(p)
       \/ Stage(p) \/ CommitAll(p) \/ GitFails(p)
       \/ Deploy(p) \/ EndRound(p) \/ Crash(p)

Spec == Init /\ [][Next]_vars
-----------------------------------------------------------------------------
(***************************************************************************)
(* The inductive invariant (LearnFilesProofs).                             *)
(***************************************************************************)

\* A stream is open exactly while its file is being written, and the file it
\* is open on is there.
StreamDiscipline ==
  \A p \in Processes :
    /\ stream[p] # "none" <=> step[p] = "write"
    /\ step[p] # "write" => pos[p] = 0
    /\ stream[p] = "tmp" => tmp[File(p)] \in Content
    /\ stream[p] = "pub" => pub[File(p)] \in Content

\* A file that was never shared has one writer, which writes the temporary
\* file and has written it from its start.
OneWriter ==
  \A f \in Files \ shared : \A p \in Processes :
    Saves(p, f) =>
      /\ \A q \in Processes : Saves(q, f) => q = p
      /\ stream[p] = "tmp"
      /\ tmp[f] \in Content
      /\ \A k \in 1..pos[p] : tmp[f][k] = {made[p][f]}

\* What is published, staged, committed or compiled of it is whole.
AllSound ==
  \A f \in Files \ shared :
    /\ Sound(pub[f])
    /\ f \in Userdata => Sound(head.files[f])
    /\ f \in Userdata => \A p \in Processes : Sound(staged[p].files[f])
    /\ f = "rime" => Sound(build)

FilesInv == StreamDiscipline /\ OneWriter /\ AllSound
-----------------------------------------------------------------------------
(***************************************************************************)
(* Properties.                                                             *)
(***************************************************************************)

\* The promise of AtomicFiles: whoever opens a file finds one complete
\* version, whatever fails and whenever a process is killed (Save, ngram.cc:92;
\* Generate and WriteRimeDictYaml, user_dict.cc), until two processes have
\* saved the file at once.
Found(f) == IF f \in shared \/ pub[f] = Absent THEN {}
            ELSE IF Whole(pub[f]) THEN pub[f][1]
            ELSE {<<-1>>}                          \* no version at all
Abstract == INSTANCE AtomicFiles
              WITH value <- [f \in Files |-> Found(f)], spoiled <- shared
ImplementsAtomicFiles == Abstract!Spec

\* Everything made from the files is made from whole ones: what git keeps
\* (git_sync.cc:98) and what RIME compiles (auto_learn.cc:207).
CopiesWhole ==
  /\ \A f \in Userdata \ shared : Sound(head.files[f])
  /\ "rime" \notin shared => Sound(build)

\* A round that has read the whole history takes nothing away: every entry a
\* file was made from is among those its new version is made from, as long as
\* rounds do not overlap. Daemon and CLI may take turns, fail and be killed,
\* and earlier rounds may have read less (RecentEntries, history_store.cc:94,
\* 98). RunLearningRound scans first and writes last, learning_round.cc:29-87.
Learned(c) == IF c # Absent /\ c[1] # {} THEN Entries(CHOOSE v \in c[1] : TRUE)
              ELSE {}
NeverOlder ==
  [][(~together' /\ \A p \in Processes : ~short[p])
       => \A f \in Files : Learned(pub[f]) \subseteq Learned(pub'[f])]_vars

\* An entry counts once in the saved table, plus once for each run of
\* `dafeng-cli learn` since a daemon last saved (cli/main.cc:375 loads the
\* table, auto_learn.cc:156 starts a new one): the daemon forgets what the
\* CLI has added, and nothing else inflates a count.
CountsExplained ==
  (~together /\ pub["ngram"] # Absent)
    => \A v \in pub["ngram"][1] : \A e \in DOMAIN v : v[e] <= 1 + cliRuns

\* Without failures, kills and overlapping rounds a commit leaves HEAD equal
\* to the files, with no temporary file in it (CommitAll adds everything it
\* finds, git_sync.cc:109).
HeadIsCurrent ==
  (~together /\ mishaps = 0)
    => \A p \in Processes : step[p] = "deploy" /\ CommitToGit
         => head = [files |-> [f \in Userdata |-> pub[f]], strays |-> {}]
=============================================================================
