------------------------- MODULE LearnFilesProofs -------------------------
(***************************************************************************)
(* Proofs about LearnFiles for any daemons and CLIs, any number of parts   *)
(* per file and any bounds: a file only ever saved by one process at a     *)
(* time always holds one complete version.                                 *)
(***************************************************************************)
EXTENDS LearnFiles, TLAPS

USE ProcessAssumption, PartsAssumption, GitAssumption, BoundAssumption

\* The file a process is at is one of the files.
LEMMA FileInFiles ==
  ASSUME NEW p \in Processes, turn \in [Processes -> 1..3]
  PROVE  File(p) \in Files
  <1>1. turn[p] = 1 \/ turn[p] = 2 \/ turn[p] = 3
    OBVIOUS
  <1> QED BY <1>1 DEF File, FileOrder, Files

LEMMA ReadTyped ==
  ASSUME NEW n \in Nat, NEW k
  PROVE  Read(n, k) \in Version /\ DOMAIN Read(n, k) = 1..n
  BY DEF Read, Version

LEMMA CountedTyped ==
  ASSUME NEW t \in Version, NEW r \in Version
  PROVE  Counted(t, r) \in Version /\ DOMAIN Counted(t, r) = DOMAIN r
  <1>1. \A e \in DOMAIN r : r[e] + (IF e \in DOMAIN t THEN t[e] ELSE 0) \in Nat
    BY DEF Version
  <1>2. DOMAIN r = 1..Len(r) /\ Len(r) \in Nat
    BY DEF Version
  <1> QED BY <1>1, <1>2 DEF Counted, Version

LEMMA LoadedTyped ==
  ASSUME NEW f \in Files, pub \in [Files -> Content \cup {Absent}],
         NEW t \in Loaded(f)
  PROVE  t \in Version
  <1>1. <<>> \in Version
    BY DEF Version
  <1>2. CASE pub[f] = Absent
    BY <1>1, <1>2 DEF Loaded
  <1>3. CASE pub[f] # Absent
    <2>1. pub[f] \in Content
      BY <1>3
    <2>2. \A k \in 1..Parts : pub[f][k] \subseteq Version
      BY <2>1 DEF Content
    <2>3. 1 \in 1..Parts
      OBVIOUS
    <2> QED BY <1>1, <1>3, <2>2, <2>3 DEF Loaded
  <1> QED BY <1>2, <1>3

LEMMA CompleteTyped ==
  ASSUME NEW v \in Version PROVE Complete(v) \in Content /\ Whole(Complete(v))
  BY DEF Complete, Content, Whole

LEMMA HolesTyped == Holes \in Content
  BY DEF Holes, Content

LEMMA PutTyped ==
  ASSUME NEW c \in Content, NEW k \in 1..Parts, NEW v \in Version
  PROVE  /\ Put(c, k, v) \in Content
         /\ Put(c, k, v)[k] = {v}
         /\ \A j \in 1..Parts : j # k => Put(c, k, v)[j] = c[j]
  BY DEF Put, Content

LEMMA NoTreeTyped == NoTree \in Tree
  BY DEF NoTree, Tree

LEMMA WorktreeTyped == ASSUME TypeOK PROVE Worktree \in Tree
  <1>1. Userdata \subseteq Files
    BY DEF Userdata, Files
  <1> QED BY <1>1 DEF Worktree, Tree, TypeOK

LEMMA Constants ==
  /\ \A x \in {"idle", "count", "discover", "open", "write", "stage", "commit",
              "deploy"} : x \in Steps
  /\ \A x \in {"none", "tmp", "pub", "unlinked"} : x \in Streams
  /\ <<>> \in Version
  /\ 0 \in 0..Parts
  /\ 1 \in 1..3
  /\ Len(FileOrder) = 3
  BY DEF Steps, Streams, Version, FileOrder

LEMMA LeaveTyped ==
  ASSUME TypeOK, NEW p \in Processes, Leave(p)
  PROVE  /\ step' \in [Processes -> Steps]
         /\ turn' \in [Processes -> 1..3]
         /\ made' \in [Processes -> [Files -> Version]]
         /\ stream' \in [Processes -> Streams]
         /\ pos' \in [Processes -> 0..Parts]
         /\ wrote' \in [Processes -> SUBSET Files]
         /\ staged' \in [Processes -> Tree]
         /\ short' \in [Processes -> BOOLEAN]
  <1>1. [f \in Files |-> <<>>] \in [Files -> Version]
    BY Constants
  <1>2. step' \in [Processes -> Steps] /\ stream' \in [Processes -> Streams]
    BY Constants DEF Leave, TypeOK
  <1>3. turn' \in [Processes -> 1..3] /\ pos' \in [Processes -> 0..Parts]
    BY Constants DEF Leave, TypeOK
  <1>4. made' \in [Processes -> [Files -> Version]]
    BY <1>1 DEF Leave, TypeOK
  <1>5. wrote' \in [Processes -> SUBSET Files]
    BY DEF Leave, TypeOK
  <1>6. staged' \in [Processes -> Tree]
    BY NoTreeTyped DEF Leave, TypeOK
  <1>7. short' \in [Processes -> BOOLEAN]
    BY DEF Leave, TypeOK
  <1> QED BY <1>2, <1>3, <1>4, <1>5, <1>6, <1>7

LEMMA NextFileTyped ==
  ASSUME TypeOK, NEW p \in Processes, NextFile(p)
  PROVE  /\ step' \in [Processes -> Steps]
         /\ turn' \in [Processes -> 1..3]
         /\ pos' \in [Processes -> 0..Parts]
  <1>1. /\ step \in [Processes -> Steps]
        /\ turn \in [Processes -> 1..3]
        /\ pos \in [Processes -> 0..Parts]
    BY DEF TypeOK
  <1>2. turn[p] \in 1..3 /\ (~LastFile(p) => turn[p] + 1 \in 1..3)
    BY <1>1, Constants DEF LastFile
  <1>3. turn' \in [Processes -> 1..3]
    BY <1>1, <1>2 DEF NextFile
  <1>4. pos' \in [Processes -> 0..Parts]
    BY <1>1, Constants DEF NextFile
  <1>5. (IF CommitToGit THEN "stage" ELSE "deploy") \in Steps
    BY Constants
  <1>6. step' \in [Processes -> Steps]
    BY <1>1, <1>5, Constants DEF NextFile
  <1> QED BY <1>3, <1>4, <1>6

LEMMA TypeInit == Init => TypeOK
  <1> SUFFICES ASSUME Init PROVE TypeOK
    OBVIOUS
  <1>1. [f \in Files |-> <<>>] \in [Files -> Version]
    BY Constants
  <1>2. /\ step \in [Processes -> Steps]
        /\ stream \in [Processes -> Streams]
        /\ turn \in [Processes -> 1..3]
        /\ pos \in [Processes -> 0..Parts]
    BY Constants DEF Init
  <1>3. made \in [Processes -> [Files -> Version]]
    BY <1>1 DEF Init
  <1>4. wrote \in [Processes -> SUBSET Files] /\ staged \in [Processes -> Tree]
    BY NoTreeTyped DEF Init
  <1>5. /\ tmp \in [Files -> Content \cup {Absent}]
        /\ pub \in [Files -> Content \cup {Absent}]
        /\ head \in Tree
        /\ build \in Content \cup {Absent}
    BY NoTreeTyped DEF Init
  <1>6. /\ entries \in 0..MaxEntries /\ rounds \in 0..MaxRounds
        /\ mishaps \in 0..MaxMishaps /\ cliRuns \in 0..rounds
    BY DEF Init
  <1>7. /\ shared \in SUBSET Files /\ together \in BOOLEAN
        /\ short \in [Processes -> BOOLEAN]
    BY DEF Init
  <1> QED BY <1>2, <1>3, <1>4, <1>5, <1>6, <1>7 DEF TypeOK

LEMMA TypeRecordCommit == ASSUME TypeOK, RecordCommit PROVE TypeOK'
  <1>1. entries' \in 0..MaxEntries
    BY DEF RecordCommit, TypeOK
  <1> QED BY <1>1 DEF RecordCommit, TypeOK, locals, disk, history

LEMMA TypeBeginRound ==
  ASSUME TypeOK, NEW p \in Processes, BeginRound(p) PROVE TypeOK'
  <1>1. step' \in [Processes -> Steps]
    BY Constants DEF BeginRound, TypeOK
  <1>2. made' \in [Processes -> [Files -> Version]]
    <2>1. PICK t \in StartTable(p) : made' = [made EXCEPT ![p]["ngram"] = t]
      BY DEF BeginRound
    <2>2. t \in Version
      BY <2>1, LoadedTyped, Constants DEF StartTable, TypeOK, Files
    <2> QED BY <2>1, <2>2 DEF TypeOK, Files
  <1>3. rounds' \in 0..MaxRounds
    BY DEF BeginRound, TypeOK
  <1>4. together' \in BOOLEAN
    BY DEF BeginRound, TypeOK
  <1>5. cliRuns' \in 0..rounds'
    BY DEF BeginRound, TypeOK
  <1>6. UNCHANGED <<entries, turn, stream, pos, wrote, staged, short, tmp, pub, head, build, mishaps, shared>>
    BY DEF BeginRound, locals, disk, history
  <1> QED BY <1>1, <1>2, <1>3, <1>4, <1>5, <1>6 DEF TypeOK

LEMMA TypeRecentEntries ==
  ASSUME TypeOK, NEW p \in Processes, NEW k, RecentEntries(p, k)
  PROVE  /\ short' \in [Processes -> BOOLEAN]
         /\ mishaps' \in 0..MaxMishaps
         /\ mishaps <= mishaps'
  <1>1. short \in [Processes -> BOOLEAN] /\ mishaps \in 0..MaxMishaps
    BY DEF TypeOK
  <1>2. CASE short' = short /\ mishaps' = mishaps
    BY <1>1, <1>2
  <1>3. CASE /\ mishaps < MaxMishaps
             /\ mishaps' = mishaps + 1
             /\ short' = [short EXCEPT ![p] = TRUE]
    <2>1. short' \in [Processes -> BOOLEAN]
      BY <1>1, <1>3
    <2>2. mishaps' \in 0..MaxMishaps /\ mishaps <= mishaps'
      BY <1>1, <1>3
    <2> QED BY <2>1, <2>2
  <1> QED BY <1>2, <1>3 DEF RecentEntries

LEMMA TypeUpdateBigrams ==
  ASSUME TypeOK, NEW p \in Processes, UpdateBigrams(p) PROVE TypeOK'
  <1>1. step' \in [Processes -> Steps]
    BY Constants DEF UpdateBigrams, TypeOK
  <1>2. PICK k \in 0..entries :
          /\ RecentEntries(p, k)
          /\ made' = [made EXCEPT ![p]["ngram"]
                                = Counted(made[p]["ngram"], Read(entries, k))]
    BY DEF UpdateBigrams
  <1>3. made' \in [Processes -> [Files -> Version]]
    <2>1. Read(entries, k) \in Version
      BY ReadTyped DEF TypeOK
    <2>2. Counted(made[p]["ngram"], Read(entries, k)) \in Version
      BY <2>1, CountedTyped DEF TypeOK, Files
    <2> QED BY <1>2, <2>2 DEF TypeOK
  <1>4. UNCHANGED <<entries, turn, stream, pos, wrote, staged, tmp, pub, head, build, rounds, shared, together, cliRuns>>
    BY DEF UpdateBigrams, disk, history
  <1> QED BY <1>1, <1>2, <1>3, <1>4, TypeRecentEntries DEF TypeOK

LEMMA TypeDiscover ==
  ASSUME TypeOK, NEW p \in Processes, Discover(p) PROVE TypeOK'
  <1>1. step' \in [Processes -> Steps]
    BY Constants DEF Discover, TypeOK
  <1>2. PICK k \in 0..entries :
          /\ RecentEntries(p, k)
          /\ made' = [made EXCEPT ![p] =
                        [f \in Files |-> IF f = "ngram" THEN made[p][f]
                                         ELSE Read(entries, k)]]
    BY DEF Discover
  <1>3. made' \in [Processes -> [Files -> Version]]
    <2>1. Read(entries, k) \in Version
      BY ReadTyped DEF TypeOK
    <2>2. [f \in Files |-> IF f = "ngram" THEN made[p][f] ELSE Read(entries, k)]
            \in [Files -> Version]
      BY <2>1 DEF TypeOK
    <2> QED BY <1>2, <2>2 DEF TypeOK
  <1>4. UNCHANGED <<entries, turn, stream, pos, wrote, staged, tmp, pub, head, build, rounds, shared, together, cliRuns>>
    BY DEF Discover, disk, history
  <1> QED BY <1>1, <1>2, <1>3, <1>4, TypeRecentEntries DEF TypeOK

LEMMA TypeOpenTmp ==
  ASSUME TypeOK, NEW p \in Processes, OpenTmp(p) PROVE TypeOK'
  <1>1. step' \in [Processes -> Steps]
    BY Constants DEF OpenTmp, TypeOK
  <1>2. stream' \in [Processes -> Streams]
    BY Constants DEF OpenTmp, TypeOK
  <1>3. tmp' \in [Files -> Content \cup {Absent}]
    BY HolesTyped DEF OpenTmp, TypeOK
  <1>4. shared' \in SUBSET Files
    BY FileInFiles DEF OpenTmp, TypeOK
  <1>5. UNCHANGED <<entries, turn, made, pos, wrote, staged, short, pub, head, build, rounds, mishaps, together, cliRuns>>
    BY DEF OpenTmp, locals, disk, history
  <1> QED BY <1>1, <1>2, <1>3, <1>4, <1>5 DEF TypeOK

LEMMA TypeWritePart ==
  ASSUME TypeOK, FilesInv, NEW p \in Processes, WritePart(p) PROVE TypeOK'
  <1>1. pos' \in [Processes -> 0..Parts]
    <2>1. pos[p] + 1 \in 0..Parts
      BY DEF WritePart, TypeOK
    <2> QED BY <2>1 DEF WritePart, TypeOK
  <1>2. File(p) \in Files /\ pos[p] + 1 \in 1..Parts /\ made[p][File(p)] \in Version
    BY FileInFiles DEF WritePart, TypeOK
  <1> DEFINE f == File(p)
             v == made[p][f]
             k == pos[p] + 1
  <1>3. /\ stream[p] = "tmp" => Put(tmp[f], k, v) \in Content
        /\ stream[p] = "pub" => Put(pub[f], k, v) \in Content
    <2>1. /\ stream[p] = "tmp" => tmp[f] \in Content
          /\ stream[p] = "pub" => pub[f] \in Content
      BY DEF FilesInv, StreamDiscipline
    <2>2. k \in 1..Parts /\ v \in Version
      BY <1>2
    <2> HIDE DEF f, v, k
    <2> QED BY <2>1, <2>2, PutTyped
  <1>4. \/ /\ stream[p] = "tmp"
           /\ tmp' = [tmp EXCEPT ![f] = Put(tmp[f], k, v)] /\ pub' = pub
        \/ /\ stream[p] = "pub"
           /\ pub' = [pub EXCEPT ![f] = Put(pub[f], k, v)] /\ tmp' = tmp
        \/ tmp' = tmp /\ pub' = pub
    BY DEF WritePart
  <1>5. /\ tmp \in [Files -> Content \cup {Absent}]
        /\ pub \in [Files -> Content \cup {Absent}]
    BY DEF TypeOK
  <1> HIDE DEF f, v, k
  <1>6. /\ tmp' \in [Files -> Content \cup {Absent}]
        /\ pub' \in [Files -> Content \cup {Absent}]
    BY <1>3, <1>4, <1>5
  <1> QED BY <1>1, <1>6 DEF WritePart, TypeOK, history

LEMMA TypePublish ==
  ASSUME TypeOK, NEW p \in Processes, Publish(p) PROVE TypeOK'
  <1>1. File(p) \in Files
    BY FileInFiles DEF TypeOK
  <1>2. /\ step' \in [Processes -> Steps]
        /\ turn' \in [Processes -> 1..3]
        /\ pos' \in [Processes -> 0..Parts]
    BY NextFileTyped DEF Publish
  <1>3. tmp' \in [Files -> Content \cup {Absent}]
    BY <1>1 DEF Publish, Move, TypeOK
  <1>4. pub' \in [Files -> Content \cup {Absent}]
    BY <1>1 DEF Publish, Move, TypeOK
  <1>5. Renamed(File(p), p) \in [Processes -> Streams]
    BY Constants DEF Renamed, TypeOK
  <1>6. stream' \in [Processes -> Streams]
    BY <1>5, Constants DEF Publish, TypeOK
  <1>7. wrote' \in [Processes -> SUBSET Files] /\ cliRuns' \in 0..rounds
    BY <1>1 DEF Publish, TypeOK
  <1> QED BY <1>2, <1>3, <1>4, <1>6, <1>7 DEF Publish, TypeOK

LEMMA TypeSaveFails ==
  ASSUME TypeOK, NEW p \in Processes, SaveFails(p) PROVE TypeOK'
  <1>1. /\ step' \in [Processes -> Steps]
        /\ turn' \in [Processes -> 1..3]
        /\ pos' \in [Processes -> 0..Parts]
    BY NextFileTyped DEF SaveFails
  <1>2. stream' \in [Processes -> Streams] /\ mishaps' \in 0..MaxMishaps
    BY Constants DEF SaveFails, TypeOK
  <1> QED BY <1>1, <1>2 DEF SaveFails, FailedWrite, TypeOK, history

LEMMA TypeStage ==
  ASSUME TypeOK, NEW p \in Processes, Stage(p) PROVE TypeOK'
  <1>1. step' \in [Processes -> Steps]
    BY Constants DEF Stage, TypeOK
  <1>2. staged' \in [Processes -> Tree]
    BY WorktreeTyped DEF Stage, TypeOK
  <1>3. UNCHANGED <<entries, turn, made, stream, pos, wrote, short, tmp, pub, head, build, rounds, mishaps, shared, together, cliRuns>>
    BY DEF Stage, locals, disk, history
  <1> QED BY <1>1, <1>2, <1>3 DEF TypeOK

LEMMA TypeCommitAll ==
  ASSUME TypeOK, NEW p \in Processes, CommitAll(p) PROVE TypeOK'
  <1>1. step' \in [Processes -> Steps]
    BY Constants DEF CommitAll, TypeOK
  <1>2. staged' \in [Processes -> Tree]
    BY NoTreeTyped DEF CommitAll, TypeOK
  <1>3. head' \in Tree
    BY DEF CommitAll, TypeOK
  <1>4. UNCHANGED <<entries, turn, made, stream, pos, wrote, short, tmp, pub, build, rounds, mishaps, shared, together, cliRuns>>
    BY DEF CommitAll, locals, disk, history
  <1> QED BY <1>1, <1>2, <1>3, <1>4 DEF TypeOK

LEMMA TypeGitFails ==
  ASSUME TypeOK, NEW p \in Processes, GitFails(p) PROVE TypeOK'
  <1>1. step' \in [Processes -> Steps]
    BY Constants DEF GitFails, TypeOK
  <1>2. mishaps' \in 0..MaxMishaps
    BY DEF GitFails, TypeOK
  <1>3. UNCHANGED <<entries, turn, made, stream, pos, wrote, staged, short, tmp, pub, head, build, rounds, shared, together, cliRuns>>
    BY DEF GitFails, locals, disk, history
  <1> QED BY <1>1, <1>2, <1>3 DEF TypeOK

LEMMA TypeDeploy ==
  ASSUME TypeOK, NEW p \in Processes, Deploy(p) PROVE TypeOK'
  <1>1. Leave(p)
    BY DEF Deploy
  <1>2. build' \in Content \cup {Absent}
    BY DEF Deploy, TypeOK, Files
  <1> QED BY <1>1, <1>2, LeaveTyped DEF Deploy, TypeOK, disk, history

LEMMA TypeEndRound ==
  ASSUME TypeOK, NEW p \in Processes, EndRound(p) PROVE TypeOK'
  <1>1. Leave(p)
    BY DEF EndRound
  <1> QED BY <1>1, LeaveTyped DEF EndRound, TypeOK, disk, history

LEMMA TypeCrash ==
  ASSUME TypeOK, NEW p \in Processes, Crash(p) PROVE TypeOK'
  <1>1. Leave(p)
    BY DEF Crash
  <1>2. mishaps' \in 0..MaxMishaps
    BY DEF Crash, TypeOK
  <1> QED BY <1>1, <1>2, LeaveTyped DEF Crash, TypeOK, disk, history

\* Types are preserved by every step.
LEMMA TypeStep == TypeOK /\ FilesInv /\ [Next]_vars => TypeOK'
  <1> SUFFICES ASSUME TypeOK, FilesInv, [Next]_vars PROVE TypeOK'
    OBVIOUS
  <1>1. CASE RecordCommit
    BY <1>1, TypeRecordCommit
  <1>2. ASSUME NEW p \in Processes,
               \/ BeginRound(p) \/ UpdateBigrams(p) \/ Discover(p)
               \/ OpenTmp(p) \/ WritePart(p) \/ Publish(p) \/ SaveFails(p)
               \/ Stage(p) \/ CommitAll(p) \/ GitFails(p)
               \/ Deploy(p) \/ EndRound(p) \/ Crash(p)
        PROVE  TypeOK'
    BY <1>2, TypeBeginRound, TypeUpdateBigrams, TypeDiscover, TypeOpenTmp,
       TypeWritePart, TypePublish, TypeSaveFails, TypeStage, TypeCommitAll,
       TypeGitFails, TypeDeploy, TypeEndRound, TypeCrash
  <1>3. CASE UNCHANGED vars
    BY <1>3 DEF vars, locals, disk, history, TypeOK
  <1> QED BY <1>1, <1>2, <1>3 DEF Next

-----------------------------------------------------------------------------
(***************************************************************************)
(* FilesInv is preserved.                                                  *)
(***************************************************************************)

LEMMA InvInit == Init => FilesInv
  <1> SUFFICES ASSUME Init PROVE FilesInv
    OBVIOUS
  <1>1. StreamDiscipline /\ OneWriter
    BY DEF Init, StreamDiscipline, OneWriter, Saves
  <1>2. Sound(Absent) /\ Userdata \subseteq Files
    BY DEF Sound, Userdata, Files
  <1>3. AllSound
    BY <1>2 DEF Init, AllSound, NoTree
  <1> QED BY <1>1, <1>3 DEF FilesInv

\* A step that leaves streams, offsets, versions of writers and contents alone.
LEMMA Untouched ==
  ASSUME TypeOK, FilesInv, UNCHANGED <<turn, stream, pos, tmp, pub, shared>>,
         \A p \in Processes : step[p] = "write" <=> step'[p] = "write",
         \A p \in Processes : step[p] = "write" => made'[p] = made[p]
  PROVE  StreamDiscipline' /\ OneWriter'
  <1>1. StreamDiscipline'
    BY DEF FilesInv, StreamDiscipline, File, FileOrder
  <1>2. OneWriter'
    BY DEF FilesInv, StreamDiscipline, OneWriter, Saves, File, FileOrder
  <1> QED BY <1>1, <1>2

\* A process without a stream that ends its round disturbs nobody's writing;
\* neither does one that dies.
LEMMA LeaveDiscipline ==
  ASSUME TypeOK, FilesInv, NEW p \in Processes, Leave(p),
         UNCHANGED <<tmp, pub, shared>>
  PROVE  StreamDiscipline' /\ OneWriter'
  <1>1. \A q \in Processes : q # p =>
          UNCHANGED <<step[q], turn[q], made[q], stream[q], pos[q]>>
    BY DEF Leave, TypeOK
  <1>2. stream'[p] = "none" /\ step'[p] = "idle" /\ pos'[p] = 0
    BY DEF Leave, TypeOK
  <1>3. StreamDiscipline'
    BY <1>1, <1>2 DEF FilesInv, StreamDiscipline, File
  <1>4. OneWriter'
    BY <1>1, <1>2 DEF FilesInv, OneWriter, Saves, File
  <1> QED BY <1>3, <1>4

\* Nothing that is published, staged, committed or compiled has changed, but
\* for a tree that became empty.
LEMMA SoundUntouched ==
  ASSUME TypeOK, FilesInv, UNCHANGED <<pub, head, build, shared>>,
         \A q \in Processes : staged'[q] = staged[q] \/ staged'[q] = NoTree
  PROVE  AllSound'
  <1>1. \A f \in Userdata : Sound(NoTree.files[f])
    BY DEF NoTree, Sound
  <1> QED BY <1>1 DEF FilesInv, AllSound

LEMMA InvRecordCommit == ASSUME TypeOK, FilesInv, RecordCommit PROVE FilesInv'
  <1>1. /\ UNCHANGED <<step, turn, made, stream, pos, staged>>
        /\ UNCHANGED <<tmp, pub, head, build, shared>>
    BY DEF RecordCommit, locals, disk, history
  <1> QED BY <1>1, Untouched, SoundUntouched DEF FilesInv

LEMMA InvBeginRound ==
  ASSUME TypeOK, FilesInv, NEW p \in Processes, BeginRound(p) PROVE FilesInv'
  <1>1. /\ UNCHANGED <<turn, stream, pos, staged>>
        /\ UNCHANGED <<tmp, pub, head, build, shared>>
    BY DEF BeginRound, locals, disk, history
  <1>2. /\ step[p] # "write" /\ step'[p] # "write"
        /\ \A q \in Processes : q # p => step'[q] = step[q] /\ made'[q] = made[q]
    BY DEF BeginRound, locals, TypeOK
  <1> QED BY <1>1, <1>2, Untouched, SoundUntouched DEF FilesInv

LEMMA InvUpdateBigrams ==
  ASSUME TypeOK, FilesInv, NEW p \in Processes, UpdateBigrams(p) PROVE FilesInv'
  <1>1. /\ UNCHANGED <<turn, stream, pos, staged>>
        /\ UNCHANGED <<tmp, pub, head, build, shared>>
    BY DEF UpdateBigrams, locals, disk, history
  <1>2. /\ step[p] # "write" /\ step'[p] # "write"
        /\ \A q \in Processes : q # p => step'[q] = step[q] /\ made'[q] = made[q]
    BY DEF UpdateBigrams, locals, TypeOK
  <1> QED BY <1>1, <1>2, Untouched, SoundUntouched DEF FilesInv

LEMMA InvDiscover ==
  ASSUME TypeOK, FilesInv, NEW p \in Processes, Discover(p) PROVE FilesInv'
  <1>1. /\ UNCHANGED <<turn, stream, pos, staged>>
        /\ UNCHANGED <<tmp, pub, head, build, shared>>
    BY DEF Discover, locals, disk, history
  <1>2. /\ step[p] # "write" /\ step'[p] # "write"
        /\ \A q \in Processes : q # p => step'[q] = step[q] /\ made'[q] = made[q]
    BY DEF Discover, locals, TypeOK
  <1> QED BY <1>1, <1>2, Untouched, SoundUntouched DEF FilesInv

LEMMA InvGitFails ==
  ASSUME TypeOK, FilesInv, NEW p \in Processes, GitFails(p) PROVE FilesInv'
  <1>1. /\ UNCHANGED <<turn, stream, pos, staged>>
        /\ UNCHANGED <<tmp, pub, head, build, shared>>
    BY DEF GitFails, locals, disk, history
  <1>2. /\ step[p] # "write" /\ step'[p] # "write"
        /\ \A q \in Processes : q # p => step'[q] = step[q] /\ made'[q] = made[q]
    BY DEF GitFails, locals, TypeOK
  <1> QED BY <1>1, <1>2, Untouched, SoundUntouched DEF FilesInv

LEMMA InvStage ==
  ASSUME TypeOK, FilesInv, NEW p \in Processes, Stage(p) PROVE FilesInv'
  <1>1. UNCHANGED <<turn, made, stream, pos, tmp, pub, head, build, shared>>
    BY DEF Stage, disk, history
  <1>2. /\ step[p] # "write" /\ step'[p] # "write"
        /\ \A q \in Processes : q # p => step'[q] = step[q]
    BY DEF Stage, TypeOK
  <1>3. StreamDiscipline' /\ OneWriter'
    BY <1>1, <1>2, Untouched
  <1>4. \A f \in Userdata : Worktree.files[f] = pub[f]
    BY DEF Worktree
  <1>5. \A q \in Processes : staged'[q] = IF q = p THEN Worktree ELSE staged[q]
    BY DEF Stage, TypeOK
  <1>6. AllSound'
    BY <1>1, <1>4, <1>5 DEF FilesInv, AllSound
  <1> QED BY <1>3, <1>6 DEF FilesInv

LEMMA InvCommitAll ==
  ASSUME TypeOK, FilesInv, NEW p \in Processes, CommitAll(p) PROVE FilesInv'
  <1>1. UNCHANGED <<turn, made, stream, pos, tmp, pub, build, shared>>
    BY DEF CommitAll, history
  <1>2. /\ step[p] # "write" /\ step'[p] # "write"
        /\ \A q \in Processes : q # p => step'[q] = step[q]
    BY DEF CommitAll, TypeOK
  <1>3. StreamDiscipline' /\ OneWriter'
    BY <1>1, <1>2, Untouched
  <1>4. \A f \in Userdata : Sound(NoTree.files[f])
    BY DEF NoTree, Sound
  <1>5. \A q \in Processes : staged'[q] = IF q = p THEN NoTree ELSE staged[q]
    BY DEF CommitAll, TypeOK
  <1>6. head' = staged[p]
    BY DEF CommitAll
  <1>7. AllSound'
    BY <1>1, <1>4, <1>5, <1>6 DEF FilesInv, AllSound
  <1> QED BY <1>3, <1>7 DEF FilesInv

LEMMA LeaveStaged ==
  ASSUME TypeOK, NEW p \in Processes, Leave(p)
  PROVE  \A q \in Processes : staged'[q] = staged[q] \/ staged'[q] = NoTree
  BY DEF Leave, TypeOK

LEMMA InvEndRound ==
  ASSUME TypeOK, FilesInv, NEW p \in Processes, EndRound(p) \/ Crash(p)
  PROVE  FilesInv'
  <1>1. UNCHANGED <<tmp, pub, head, build, shared>> /\ Leave(p)
    BY DEF EndRound, Crash, disk, history
  <1> QED BY <1>1, LeaveDiscipline, LeaveStaged, SoundUntouched DEF FilesInv

LEMMA InvDeploy ==
  ASSUME TypeOK, FilesInv, NEW p \in Processes, Deploy(p) PROVE FilesInv'
  <1>1. UNCHANGED <<tmp, pub, head, shared>> /\ Leave(p) /\ build' = pub["rime"]
    BY DEF Deploy, history
  <1>2. StreamDiscipline' /\ OneWriter'
    BY <1>1, LeaveDiscipline
  <1>3. \A f \in Userdata : Sound(NoTree.files[f])
    BY DEF NoTree, Sound
  <1>4. "rime" \in Files
    BY DEF Files
  <1>5. AllSound'
    BY <1>1, <1>3, <1>4, LeaveStaged DEF FilesInv, AllSound
  <1> QED BY <1>2, <1>5 DEF FilesInv

LEMMA InvOpenTmp ==
  ASSUME TypeOK, FilesInv, NEW p \in Processes, OpenTmp(p) PROVE FilesInv'
  <1> DEFINE f == File(p)
  <1>1. UNCHANGED <<turn, made, pos, staged, pub, head, build>>
    BY DEF OpenTmp
  <1>2. /\ step[p] = "open" /\ step'[p] = "write" /\ stream'[p] = "tmp"
        /\ \A q \in Processes : q # p => step'[q] = step[q] /\ stream'[q] = stream[q]
    BY DEF OpenTmp, TypeOK
  <1>3. f \in Files /\ \A q \in Processes : File(q)' = File(q)
    BY <1>1, FileInFiles DEF TypeOK, File
  <1>4. \A g \in Files : tmp'[g] = IF g = f THEN Holes ELSE tmp[g]
    BY DEF OpenTmp, TypeOK
  <1>5. StreamDiscipline'
    <2> SUFFICES ASSUME NEW q \in Processes
                 PROVE  /\ stream'[q] # "none" <=> step'[q] = "write"
                        /\ step'[q] # "write" => pos'[q] = 0
                        /\ stream'[q] = "tmp" => tmp'[File(q)'] \in Content
                        /\ stream'[q] = "pub" => pub'[File(q)'] \in Content
      BY DEF StreamDiscipline
    <2>1. File(q) \in Files
      BY FileInFiles DEF TypeOK
    <2> QED BY <1>1, <1>2, <1>3, <1>4, <2>1, HolesTyped DEF FilesInv, StreamDiscipline
  <1>6. \A g \in Files \ shared' : g \in Files \ shared
    BY DEF OpenTmp
  <1>7. f \notin shared' => \A q \in Processes \ {p} : ~Saves(q, f)
    BY DEF OpenTmp
  <1>8. pos[p] = 0
    BY <1>2 DEF FilesInv, StreamDiscipline
  <1>9. OneWriter'
    <2> SUFFICES ASSUME NEW g \in Files \ shared', NEW q \in Processes, Saves(q, g)'
                 PROVE  /\ \A r \in Processes : Saves(r, g)' => r = q
                        /\ stream'[q] = "tmp"
                        /\ tmp'[g] \in Content
                        /\ \A k \in 1..pos'[q] : tmp'[g][k] = {made'[q][g]}
      BY DEF OneWriter
    <2>1. CASE g = f
      <3>1. \A r \in Processes : Saves(r, g)' => r = p
        BY <1>2, <1>3, <1>7, <2>1 DEF Saves
      <3> QED BY <1>1, <1>2, <1>4, <1>8, <2>1, <3>1, HolesTyped
    <2>2. CASE g # f
      <3>1. \A r \in Processes : Saves(r, g)' => r # p /\ Saves(r, g)
        BY <1>2, <1>3, <2>2 DEF Saves
      <3>2. tmp'[g] = tmp[g] /\ stream'[q] = stream[q]
        BY <1>2, <1>4, <2>2, <3>1
      <3> QED BY <1>1, <1>6, <3>1, <3>2 DEF FilesInv, OneWriter
    <2> QED BY <2>1, <2>2
  <1>10. AllSound'
    BY <1>1, <1>6 DEF FilesInv, AllSound
  <1> QED BY <1>5, <1>9, <1>10 DEF FilesInv

LEMMA InvWritePart ==
  ASSUME TypeOK, FilesInv, NEW p \in Processes, WritePart(p) PROVE FilesInv'
  <1> DEFINE f == File(p)
             v == made[p][f]
             k == pos[p] + 1
  <1>1. UNCHANGED <<step, turn, made, stream, staged, head, build, shared>>
    BY DEF WritePart, history
  <1>2. /\ step[p] = "write" /\ pos'[p] = k
        /\ \A q \in Processes : q # p => pos'[q] = pos[q]
    BY DEF WritePart, TypeOK
  <1>3. f \in Files /\ \A q \in Processes : File(q)' = File(q)
    BY <1>1, FileInFiles DEF TypeOK, File
  <1>4. k \in 1..Parts /\ v \in Version /\ pos[p] \in 0..Parts
    BY <1>3 DEF WritePart, TypeOK
  <1>5. \/ /\ stream[p] = "tmp"
           /\ tmp' = [tmp EXCEPT ![f] = Put(tmp[f], k, v)] /\ pub' = pub
        \/ /\ stream[p] = "pub"
           /\ pub' = [pub EXCEPT ![f] = Put(pub[f], k, v)] /\ tmp' = tmp
        \/ stream[p] = "unlinked" /\ tmp' = tmp /\ pub' = pub
    BY DEF WritePart
  <1>6. tmp \in [Files -> Content \cup {Absent}] /\ pub \in [Files -> Content \cup {Absent}]
    BY DEF TypeOK
  <1>7. Saves(p, f) /\ (stream[p] = "tmp" => tmp[f] \in Content)
                   /\ (stream[p] = "pub" => pub[f] \in Content)
    BY <1>2 DEF FilesInv, StreamDiscipline, Saves
  <1>8. f \notin shared =>
          /\ stream[p] = "tmp" /\ tmp[f] \in Content
          /\ \A q \in Processes : Saves(q, f) => q = p
          /\ \A j \in 1..pos[p] : tmp[f][j] = {v}
    BY <1>3, <1>7 DEF FilesInv, OneWriter
  <1> HIDE DEF f, v, k
  <1>9. \A g \in Files : g # f => tmp'[g] = tmp[g] /\ pub'[g] = pub[g]
    BY <1>5, <1>6
  <1>10. /\ tmp[f] \in Content => tmp'[f] \in Content
         /\ pub[f] \in Content => pub'[f] \in Content
    BY <1>3, <1>4, <1>5, <1>6, PutTyped
  <1>11. StreamDiscipline'
    <2> SUFFICES ASSUME NEW q \in Processes
                 PROVE  /\ stream'[q] # "none" <=> step'[q] = "write"
                        /\ step'[q] # "write" => pos'[q] = 0
                        /\ stream'[q] = "tmp" => tmp'[File(q)'] \in Content
                        /\ stream'[q] = "pub" => pub'[File(q)'] \in Content
      BY DEF StreamDiscipline
    <2>1. File(q) \in Files
      BY FileInFiles DEF TypeOK
    <2>2. /\ stream[q] # "none" <=> step[q] = "write"
          /\ step[q] # "write" => pos[q] = 0
          /\ stream[q] = "tmp" => tmp[File(q)] \in Content
          /\ stream[q] = "pub" => pub[File(q)] \in Content
      BY DEF FilesInv, StreamDiscipline
    <2> QED BY <1>1, <1>2, <1>3, <1>9, <1>10, <2>1, <2>2
  <1>12. OneWriter'
    <2> SUFFICES ASSUME NEW g \in Files \ shared, NEW q \in Processes, Saves(q, g)
                 PROVE  /\ \A r \in Processes : Saves(r, g) => r = q
                        /\ stream[q] = "tmp"
                        /\ tmp'[g] \in Content
                        /\ \A j \in 1..pos'[q] : tmp'[g][j] = {made[q][g]}
      BY <1>1, <1>3 DEF OneWriter, Saves
    <2>1. CASE g = f
      <3>1. q = p
        BY <1>8, <2>1
      <3>2. tmp'[f] = Put(tmp[f], k, v)
        BY <1>3, <1>5, <1>6, <1>8, <2>1
      <3>3. \A j \in 1..k : tmp'[f][j] = {v}
        <4> SUFFICES ASSUME NEW j \in 1..k PROVE tmp'[f][j] = {v}
          OBVIOUS
        <4>1. j = k \/ j \in 1..pos[p]
          BY <1>4 DEF k
        <4>2. j \in 1..Parts
          BY <1>4
        <4> QED BY <1>4, <1>8, <2>1, <3>2, <4>1, <4>2, PutTyped
      <3> QED BY <1>2, <1>8, <1>10, <2>1, <3>1, <3>3 DEF v
    <2>2. CASE g # f
      <3>1. q # p
        BY <2>2 DEF Saves, f
      <3> QED BY <1>2, <1>9, <2>2, <3>1 DEF FilesInv, OneWriter
    <2> QED BY <2>1, <2>2
  <1>13. \A g \in Files \ shared : pub'[g] = pub[g]
    BY <1>5, <1>8, <1>9
  <1>14. AllSound'
    BY <1>1, <1>13 DEF FilesInv, AllSound
  <1> QED BY <1>11, <1>12, <1>14 DEF FilesInv

\* What NextFile(p) leaves alone.
LEMMA NextFileOthers ==
  ASSUME TypeOK, NEW p \in Processes, NextFile(p)
  PROVE  /\ \A q \in Processes : q # p =>
              UNCHANGED <<step[q], turn[q], pos[q]>> /\ File(q)' = File(q)
         /\ step'[p] # "write" /\ pos'[p] = 0
  BY DEF NextFile, TypeOK, File

\* The writers that remain when p's stream is closed and the file is not
\* renamed.
LEMMA InvSaveFails ==
  ASSUME TypeOK, FilesInv, NEW p \in Processes, SaveFails(p) PROVE FilesInv'
  <1>1. UNCHANGED <<made, staged, head, build, shared, tmp, pub>> /\ NextFile(p)
    BY DEF SaveFails, FailedWrite, history
  <1>2. /\ stream'[p] = "none"
        /\ \A q \in Processes : q # p => stream'[q] = stream[q]
    BY DEF SaveFails, TypeOK
  <1>3. StreamDiscipline'
    BY <1>1, <1>2, NextFileOthers DEF FilesInv, StreamDiscipline
  <1>4. OneWriter'
    BY <1>1, <1>2, NextFileOthers DEF FilesInv, OneWriter, Saves
  <1>5. AllSound'
    BY <1>1 DEF FilesInv, AllSound
  <1> QED BY <1>3, <1>4, <1>5 DEF FilesInv

\* What p has written of an unshared file is the version it made.
LEMMA WrittenWhole ==
  ASSUME TypeOK, FilesInv, NEW p \in Processes, step[p] = "write",
         pos[p] = Parts, File(p) \notin shared
  PROVE  /\ tmp[File(p)] = Complete(made[p][File(p)])
         /\ Whole(tmp[File(p)])
         /\ made[p][File(p)] \in Version
  <1>1. File(p) \in Files
    BY FileInFiles DEF TypeOK
  <1>2. Saves(p, File(p))
    BY DEF FilesInv, StreamDiscipline, Saves
  <1>3. /\ tmp[File(p)] \in Content
        /\ \A k \in 1..Parts : tmp[File(p)][k] = {made[p][File(p)]}
    BY <1>1, <1>2 DEF FilesInv, OneWriter
  <1>4. made[p][File(p)] \in Version
    BY <1>1 DEF TypeOK
  <1>5. tmp[File(p)] = Complete(made[p][File(p)])
    BY <1>3 DEF Complete, Content
  <1> QED BY <1>4, <1>5, CompleteTyped

LEMMA InvPublish ==
  ASSUME TypeOK, FilesInv, NEW p \in Processes, Publish(p) PROVE FilesInv'
  <1> DEFINE f == File(p)
  <1>1. /\ UNCHANGED <<made, staged, head, build, shared>> /\ NextFile(p)
        /\ step[p] = "write" /\ pos[p] = Parts
    BY DEF Publish, Written
  <1>2. f \in Files /\ \A q \in Processes : File(q) \in Files
    BY FileInFiles DEF TypeOK
  <1>3. CASE tmp[f] = Absent
    <2>1. UNCHANGED <<pub, tmp>>
      BY <1>3 DEF Publish
    <2>2. /\ stream'[p] = "none"
          /\ \A q \in Processes : q # p => stream'[q] = stream[q]
      BY <1>3 DEF Publish, TypeOK
    <2>3. StreamDiscipline'
      BY <1>1, <2>1, <2>2, NextFileOthers DEF FilesInv, StreamDiscipline
    <2>4. OneWriter'
      BY <1>1, <2>1, <2>2, NextFileOthers DEF FilesInv, OneWriter, Saves
    <2>5. AllSound'
      BY <1>1, <2>1 DEF FilesInv, AllSound
    <2> QED BY <2>3, <2>4, <2>5 DEF FilesInv
  <1>4. CASE tmp[f] # Absent
    <2>1. /\ \A g \in Files : pub'[g] = IF g = f THEN tmp[f] ELSE pub[g]
          /\ \A g \in Files : g # f => tmp'[g] = tmp[g]
      BY <1>4 DEF Publish, Move, TypeOK
    <2>2. stream' = Renamed(f, p)
      BY <1>4 DEF Publish
    <2>3. /\ stream'[p] = "none"
          /\ \A q \in Processes : q # p /\ ~Saves(q, f) => stream'[q] = stream[q]
          /\ \A q \in Processes : q # p /\ Saves(q, f) /\ stream[q] = "tmp"
               => stream'[q] = "pub"
          /\ \A q \in Processes : q # p /\ Saves(q, f) /\ stream[q] # "tmp"
               => stream'[q] = "unlinked"
      BY <2>2 DEF Renamed
    <2>4. StreamDiscipline'
      <3> SUFFICES ASSUME NEW q \in Processes
                   PROVE  /\ stream'[q] # "none" <=> step'[q] = "write"
                          /\ step'[q] # "write" => pos'[q] = 0
                          /\ stream'[q] = "tmp" => tmp'[File(q)'] \in Content
                          /\ stream'[q] = "pub" => pub'[File(q)'] \in Content
        BY DEF StreamDiscipline
      <3>1. CASE q = p
        BY <1>1, <2>3, <3>1, NextFileOthers
      <3>2. CASE q # p /\ ~Saves(q, f)
        <4>1. stream'[q] # "none" => File(q) # f
          BY <2>3, <3>2 DEF Saves
        <4> QED BY <1>1, <1>2, <2>1, <2>3, <3>2, <4>1, NextFileOthers
                DEF FilesInv, StreamDiscipline
      <3>3. CASE q # p /\ Saves(q, f)
        <4>1. File(q) = f /\ stream[q] # "none"
          BY <3>3 DEF Saves
        <4> QED BY <1>1, <1>2, <2>1, <2>3, <3>3, <4>1, NextFileOthers
                DEF FilesInv, StreamDiscipline
      <3> QED BY <3>1, <3>2, <3>3
    <2>5. OneWriter'
      <3> SUFFICES ASSUME NEW g \in Files \ shared, NEW q \in Processes, Saves(q, g)'
                   PROVE  /\ \A r \in Processes : Saves(r, g)' => r = q
                          /\ stream'[q] = "tmp"
                          /\ tmp'[g] \in Content
                          /\ \A j \in 1..pos'[q] : tmp'[g][j] = {made'[q][g]}
        BY <1>1 DEF OneWriter
      <3>1. \A r \in Processes : Saves(r, g)' => r # p /\ Saves(r, g)
        BY <1>1, <2>3, NextFileOthers DEF Saves
      <3>2. g # f
        <4>1. Saves(p, f)
          BY <1>1 DEF FilesInv, StreamDiscipline, Saves
        <4> QED BY <1>2, <3>1, <4>1 DEF FilesInv, OneWriter
      <3>3. stream'[q] = stream[q]
        BY <2>3, <3>1, <3>2 DEF Saves
      <3> QED BY <1>1, <2>1, <3>1, <3>2, <3>3, NextFileOthers DEF FilesInv, OneWriter
    <2>6. \A g \in Files \ shared : Sound(pub'[g])
      <3>1. f \notin shared => Sound(tmp[f])
        BY <1>1, WrittenWhole DEF Sound
      <3> QED BY <2>1, <3>1 DEF FilesInv, AllSound
    <2>7. AllSound'
      BY <1>1, <2>6 DEF FilesInv, AllSound
    <2> QED BY <2>4, <2>5, <2>7 DEF FilesInv
  <1> QED BY <1>3, <1>4

LEMMA InvStep == TypeOK /\ FilesInv /\ [Next]_vars => FilesInv'
  <1> SUFFICES ASSUME TypeOK, FilesInv, [Next]_vars PROVE FilesInv'
    OBVIOUS
  <1>1. CASE RecordCommit
    BY <1>1, InvRecordCommit
  <1>2. ASSUME NEW p \in Processes,
               \/ BeginRound(p) \/ UpdateBigrams(p) \/ Discover(p)
               \/ OpenTmp(p) \/ WritePart(p) \/ Publish(p) \/ SaveFails(p)
               \/ Stage(p) \/ CommitAll(p) \/ GitFails(p)
               \/ Deploy(p) \/ EndRound(p) \/ Crash(p)
        PROVE  FilesInv'
    BY <1>2, InvBeginRound, InvUpdateBigrams, InvDiscover, InvOpenTmp,
       InvWritePart, InvPublish, InvSaveFails, InvStage, InvCommitAll,
       InvGitFails, InvDeploy, InvEndRound
  <1>3. CASE UNCHANGED vars
    BY <1>3, Untouched, SoundUntouched DEF vars, locals, disk, history, FilesInv
  <1> QED BY <1>1, <1>2, <1>3 DEF Next

-----------------------------------------------------------------------------
(***************************************************************************)
(* Theorems.                                                               *)
(***************************************************************************)

\* Streams and contents stay as FilesInv says in every behaviour of
\* the saves (ngram.cc:92, user_dict.cc:61).
THEOREM Inductive == Spec => [](TypeOK /\ FilesInv)
  <1>1. Init => TypeOK /\ FilesInv
    BY TypeInit, InvInit
  <1>2. TypeOK /\ FilesInv /\ [Next]_vars => (TypeOK /\ FilesInv)'
    BY TypeStep, InvStep
  <1> QED BY <1>1, <1>2, PTL DEF Spec

\* The variables of LearnFiles keep their types.
THEOREM TypeCorrect == Spec => []TypeOK
  BY Inductive, PTL

\* Git and RIME's compiler only ever get whole files of those that no two
\* processes have saved at once (git_sync.cc:98, auto_learn.cc:207).
THEOREM Copies == Spec => []CopiesWhole
  <1>1. FilesInv => CopiesWhole
    BY DEF FilesInv, AllSound, CopiesWhole, Userdata, Files
  <1> QED BY <1>1, Inductive, PTL

-----------------------------------------------------------------------------
(***************************************************************************)
(* LearnFiles implements AtomicFiles.                                      *)
(***************************************************************************)

Value == [f \in Files |-> Found(f)]

\* A step that changes no unshared file is a stutter.
LEMMA SameFound ==
  ASSUME shared' = shared, \A f \in Files \ shared : pub'[f] = pub[f]
  PROVE  Value' = Value
  <1>1. \A f \in Files : Found(f)' = Found(f)
    BY DEF Found, Whole
  <1> QED BY <1>1 DEF Value

LEMMA OpenRefines ==
  ASSUME TypeOK, FilesInv, NEW p \in Processes, OpenTmp(p)
  PROVE  Abstract!Next \/ UNCHANGED <<Value, shared>>
  <1>1. pub' = pub
    BY DEF OpenTmp
  <1>2. CASE shared' = shared
    BY <1>1, <1>2, SameFound
  <1>3. CASE shared' # shared
    <2>1. shared' = shared \cup {File(p)}
      BY <1>3 DEF OpenTmp
    <2>2. File(p) \in Files
      BY FileInFiles DEF TypeOK
    <2>3. \A f \in Files : Found(f)' = IF f = File(p) THEN {} ELSE Found(f)
      BY <1>1, <2>1 DEF Found, Whole
    <2>4. Value' = [Value EXCEPT ![File(p)] = {}]
      BY <2>3 DEF Value
    <2>5. Abstract!Spoil(File(p))
      BY <2>1, <2>4 DEF Abstract!Spoil, Value
    <2> QED BY <2>2, <2>5 DEF Abstract!Next
  <1> QED BY <1>2, <1>3

LEMMA PublishRefines ==
  ASSUME TypeOK, FilesInv, NEW p \in Processes, Publish(p)
  PROVE  Abstract!Next \/ UNCHANGED <<Value, shared>>
  <1>0. PICK f \in Files : f = File(p)
    BY FileInFiles DEF TypeOK
  <1>1. /\ f \in Files /\ shared' = shared
        /\ step[p] = "write" /\ pos[p] = Parts
    BY DEF Publish, Written
  <1>2. CASE f \in shared \/ tmp[f] = Absent
    <2>1. \A g \in Files \ shared : pub'[g] = pub[g]
      BY <1>0, <1>2 DEF Publish, Move, TypeOK
    <2> QED BY <1>1, <2>1, SameFound
  <1>3. CASE f \notin shared /\ tmp[f] # Absent
    <2>1. \A g \in Files : pub'[g] = IF g = f THEN tmp[f] ELSE pub[g]
      BY <1>0, <1>3 DEF Publish, Move, TypeOK
    <2>2. PICK v \in Version : tmp[f] = Complete(v)
      BY <1>0, <1>1, <1>3, WrittenWhole
    <2>3. tmp[f][1] = {v}
      BY <2>2 DEF Complete
    <2>4. Found(f)' = {v}
      <3>1. pub'[f] = tmp[f]
        BY <1>1, <2>1
      <3>2. Whole(pub'[f]) /\ pub'[f][1] = {v}
        BY <2>2, <2>3, <3>1, CompleteTyped
      <3> QED BY <1>1, <1>3, <3>1, <3>2 DEF Found, Whole
    <2>5. \A g \in Files : g # f => Found(g)' = Found(g)
      BY <1>1, <2>1 DEF Found, Whole
    <2>6. Value' = [Value EXCEPT ![f] = {v}]
      BY <1>1, <2>4, <2>5 DEF Value
    <2>7. Value'[f] = {v}
      BY <1>1, <2>4 DEF Value
    <2>8. Abstract!Publish(f)
      BY <1>1, <1>3, <2>2, <2>6, <2>7
         DEF Abstract!Publish, Abstract!Version, Version, Value
    <2> QED BY <1>1, <2>8 DEF Abstract!Next
  <1> QED BY <1>2, <1>3

LEMMA WriteRefines ==
  ASSUME TypeOK, FilesInv, NEW p \in Processes, WritePart(p)
  PROVE  UNCHANGED <<Value, shared>>
  <1>1. shared' = shared
    BY DEF WritePart, history
  <1>2. File(p) \in Files /\ Saves(p, File(p))
    BY FileInFiles DEF TypeOK, WritePart, FilesInv, StreamDiscipline, Saves
  <1>3. File(p) \notin shared => stream[p] = "tmp"
    BY <1>2 DEF FilesInv, OneWriter
  <1>4. \A g \in Files \ shared : pub'[g] = pub[g]
    BY <1>3 DEF WritePart, TypeOK
  <1> QED BY <1>1, <1>4, SameFound

\* The saves of ngram.cc:92 and user_dict.cc implement files that change in
\* one step from one version to the next, whatever fails and whoever is
\* killed, until two processes have saved a file at once.
THEOREM Atomic == Spec => ImplementsAtomicFiles
  <1>1. Init => Abstract!Init
    BY DEF Init, Abstract!Init, Found
  <1>2. TypeOK /\ FilesInv /\ [Next]_vars
          => [Abstract!Next]_<<[f \in Files |-> Found(f)], shared>>
    <2> SUFFICES ASSUME TypeOK, FilesInv, [Next]_vars
                 PROVE  Abstract!Next \/ UNCHANGED <<Value, shared>>
      BY DEF Value
    <2>1. CASE UNCHANGED <<pub, shared>>
      BY <2>1, SameFound
    <2>2. ASSUME NEW p \in Processes, OpenTmp(p) \/ WritePart(p) \/ Publish(p)
          PROVE  Abstract!Next \/ UNCHANGED <<Value, shared>>
      BY <2>2, OpenRefines, WriteRefines, PublishRefines
    <2>3. ASSUME NEW p \in Processes,
                 \/ BeginRound(p) \/ UpdateBigrams(p) \/ Discover(p)
                 \/ SaveFails(p) \/ Stage(p) \/ CommitAll(p) \/ GitFails(p)
                 \/ Deploy(p) \/ EndRound(p) \/ Crash(p)
          PROVE  UNCHANGED <<pub, shared>>
      BY <2>3 DEF BeginRound, UpdateBigrams, Discover, SaveFails, FailedWrite,
         Stage, CommitAll, GitFails, Deploy, EndRound, Crash, disk, history
    <2>4. RecordCommit => UNCHANGED <<pub, shared>>
      BY DEF RecordCommit, disk, history
    <2>5. UNCHANGED vars => UNCHANGED <<pub, shared>>
      BY DEF vars, disk, history
    <2> QED BY <2>1, <2>2, <2>3, <2>4, <2>5 DEF Next
  <1> QED BY <1>1, <1>2, Inductive, PTL
         DEF Spec, ImplementsAtomicFiles, Abstract!Spec

-----------------------------------------------------------------------------
(***************************************************************************)
(* Rounds that do not overlap: HEAD, the counts and the age of the files.  *)
(***************************************************************************)

\* As long as no two rounds have overlapped there is at most one.
Alone == ~together =>
  /\ shared = {}
  /\ \A p, q \in Processes : Busy(p) /\ Busy(q) => p = q

\* What everybody but the process that acts sees of a step.
LEMMA StepFrame ==
  ASSUME TypeOK, NEW p \in Processes,
         \/ BeginRound(p) \/ UpdateBigrams(p) \/ Discover(p)
         \/ OpenTmp(p) \/ WritePart(p) \/ Publish(p) \/ SaveFails(p)
         \/ Stage(p) \/ CommitAll(p) \/ GitFails(p)
         \/ Deploy(p) \/ EndRound(p) \/ Crash(p)
  PROVE  /\ \A q \in Processes : q # p =>
              UNCHANGED <<step[q], turn[q], made[q], staged[q]>>
         /\ together => together'
         /\ UNCHANGED entries
         /\ mishaps <= mishaps'
  <1>1. CASE BeginRound(p) \/ UpdateBigrams(p) \/ Discover(p)
    <2>1. CASE UpdateBigrams(p) \/ Discover(p)
      <3>1. mishaps <= mishaps'
        BY <2>1, TypeRecentEntries DEF UpdateBigrams, Discover
      <3>2. \A q \in Processes : q # p => step'[q] = step[q] /\ made'[q] = made[q]
        BY <2>1 DEF UpdateBigrams, Discover, TypeOK
      <3>3. UNCHANGED <<entries, turn, staged, together>>
        BY <2>1 DEF UpdateBigrams, Discover, history
      <3> QED BY <3>1, <3>2, <3>3
    <2>2. CASE BeginRound(p)
      BY <2>2 DEF BeginRound, TypeOK
    <2> QED BY <1>1, <2>1, <2>2
  <1>2. CASE OpenTmp(p) \/ WritePart(p)
    BY <1>2 DEF OpenTmp, WritePart, TypeOK, history
  <1>3. CASE Publish(p) \/ SaveFails(p)
    BY <1>3 DEF Publish, SaveFails, NextFile, TypeOK, history
  <1>4. CASE Stage(p) \/ CommitAll(p) \/ GitFails(p)
    BY <1>4 DEF Stage, CommitAll, GitFails, TypeOK, history, locals
  <1>5. CASE Deploy(p) \/ EndRound(p) \/ Crash(p)
    BY <1>5 DEF Deploy, EndRound, Crash, Leave, TypeOK, history
  <1> QED BY <1>1, <1>2, <1>3, <1>4, <1>5

\* Which process a step is about, and that it was in a round.
LEMMA StepBusy ==
  ASSUME NEW p \in Processes,
         \/ UpdateBigrams(p) \/ Discover(p)
         \/ OpenTmp(p) \/ WritePart(p) \/ Publish(p) \/ SaveFails(p)
         \/ Stage(p) \/ CommitAll(p) \/ GitFails(p)
         \/ Deploy(p) \/ EndRound(p) \/ Crash(p)
  PROVE  Busy(p) /\ together' = together
  BY DEF Busy, UpdateBigrams, Discover, OpenTmp, WritePart, Publish, SaveFails,
         Stage, CommitAll, GitFails, Deploy, EndRound, Crash, history

LEMMA AloneStep ==
  ASSUME TypeOK, FilesInv, Alone, [Next]_vars
  PROVE  Alone'
  <1>1. CASE RecordCommit \/ UNCHANGED vars
    BY <1>1 DEF RecordCommit, vars, history, Alone, Busy
  <1>2. ASSUME NEW p \in Processes, BeginRound(p)
        PROVE  Alone'
    <2>1. shared' = shared /\ together' = (together \/ \E q \in Processes \ {p} : Busy(q))
      BY <1>2 DEF BeginRound
    <2>2. \A q \in Processes : q # p => (Busy(q)' <=> Busy(q))
      BY <1>2, StepFrame DEF Busy
    <2> QED BY <2>1, <2>2 DEF Alone
  <1>3. ASSUME NEW p \in Processes,
               \/ UpdateBigrams(p) \/ Discover(p)
               \/ OpenTmp(p) \/ WritePart(p) \/ Publish(p) \/ SaveFails(p)
               \/ Stage(p) \/ CommitAll(p) \/ GitFails(p)
               \/ Deploy(p) \/ EndRound(p) \/ Crash(p)
        PROVE  Alone'
    <2>1. Busy(p) /\ together' = together
      BY <1>3, StepBusy
    <2>2. \A q \in Processes : Busy(q)' => Busy(q)
      BY <1>3, <2>1, StepFrame DEF Busy
    <2>3. ~together => shared' = shared
      <3>1. \A q \in Processes \ {p} : ~together => ~Saves(q, File(p))
        BY <2>1 DEF Alone, FilesInv, StreamDiscipline, Saves, Busy
      <3> QED BY <1>3, <3>1 DEF UpdateBigrams, Discover, OpenTmp, WritePart,
                 Publish, SaveFails, Stage, CommitAll, GitFails, Deploy,
                 EndRound, Crash, history
    <2> QED BY <2>1, <2>2, <2>3 DEF Alone
  <1> QED BY <1>1, <1>2, <1>3 DEF Next

\* A process that is alone writes to its temporary file: no file is changed
\* but by its rename.
LEMMA OnlyRenames ==
  ASSUME TypeOK, FilesInv, Alone, ~together, NEW p \in Processes, WritePart(p)
  PROVE  /\ UNCHANGED <<pub, head, step, turn, made, staged, cliRuns, mishaps>>
         /\ step[p] = "write"
         /\ \A f \in Files : f # File(p) => tmp'[f] = tmp[f]
  <1>1. File(p) \in Files /\ Saves(p, File(p))
    BY FileInFiles DEF TypeOK, WritePart, FilesInv, StreamDiscipline, Saves
  <1>2. stream[p] = "tmp"
    BY <1>1 DEF Alone, FilesInv, OneWriter
  <1> QED BY <1>1, <1>2 DEF WritePart, TypeOK, history

\* What a process that is alone publishes is the version it has made.
LEMMA PublishesOwn ==
  ASSUME TypeOK, FilesInv, Alone, ~together, NEW p \in Processes, Publish(p)
  PROVE  /\ File(p) \in Files /\ step[p] = "write" /\ NextFile(p)
         /\ tmp[File(p)] = Complete(made[p][File(p)])
         /\ tmp[File(p)] # Absent
         /\ \A g \in Files : /\ pub'[g] = IF g = File(p) THEN tmp[g] ELSE pub[g]
                             /\ tmp'[g] = IF g = File(p) THEN Absent ELSE tmp[g]
         /\ cliRuns' = IF File(p) = "ngram" /\ p \in Daemons THEN 0 ELSE cliRuns
         /\ UNCHANGED <<made, staged, head, mishaps>>
  <1>1. File(p) \in Files
    BY FileInFiles DEF TypeOK
  <1>2. /\ step[p] = "write" /\ pos[p] = Parts /\ NextFile(p)
        /\ UNCHANGED <<made, staged, head, mishaps>>
    BY DEF Publish, Written
  <1>3. tmp[File(p)] = Complete(made[p][File(p)]) /\ made[p][File(p)] \in Version
    BY <1>2, WrittenWhole DEF Alone
  <1>4. tmp[File(p)] # Absent
    <2>1. 1 \in DOMAIN tmp[File(p)] /\ DOMAIN Absent = {}
      BY <1>3 DEF Complete, Absent
    <2> QED BY <2>1
  <1>5. pub \in [Files -> Content \cup {Absent}] /\ tmp \in [Files -> Content \cup {Absent}]
    BY DEF TypeOK
  <1> QED BY <1>1, <1>2, <1>3, <1>4, <1>5 DEF Publish, Move

Others(p) == Processes \ {p}

\* The process that is in a round is the only one, before the step and after.
LEMMA OthersIdle ==
  ASSUME TypeOK, Alone, ~together, NEW p \in Processes,
         \/ UpdateBigrams(p) \/ Discover(p)
         \/ OpenTmp(p) \/ WritePart(p) \/ Publish(p) \/ SaveFails(p)
         \/ Stage(p) \/ CommitAll(p) \/ GitFails(p)
         \/ Deploy(p) \/ EndRound(p) \/ Crash(p)
  PROVE  \A q \in Others(p) : step[q] = "idle" /\ step'[q] = "idle"
  <1>1. Busy(p)
    BY StepBusy
  <1>2. \A q \in Others(p) : step[q] = "idle"
    BY <1>1 DEF Alone, Busy, Others
  <1>3. \A q \in Others(p) : step'[q] = step[q]
    BY StepFrame DEF Others
  <1> QED BY <1>2, <1>3

LEMMA BeginAlone ==
  ASSUME TypeOK, NEW p \in Processes, BeginRound(p), ~together'
  PROVE  /\ ~together
         /\ \A q \in Others(p) : step[q] = "idle" /\ step'[q] = "idle"
         /\ step'[p] = "count" /\ UNCHANGED <<tmp, pub, head, entries, mishaps>>
  BY DEF BeginRound, Busy, Others, TypeOK, disk

\* HEAD when it is up to date with the files.
Current == [files |-> [f \in Userdata |-> pub[f]], strays |-> {}]

\* Without failures and overlapping rounds a temporary file is there only
\* while it is written, and what is staged and committed is current.
Tidy == (~together /\ mishaps = 0) =>
  /\ \A f \in Files : tmp[f] # Absent
       => \E p \in Processes : step[p] = "write" /\ File(p) = f
  /\ \A p \in Processes : step[p] = "commit" => staged[p] = Current
  /\ \A p \in Processes : step[p] = "deploy" /\ CommitToGit => head = Current

LEMMA TidyStep ==
  ASSUME TypeOK, FilesInv, Alone, Tidy, [Next]_vars
  PROVE  Tidy'
  <1> SUFFICES ASSUME ~together', mishaps' = 0 PROVE Tidy'
    BY DEF Tidy
  <1>1. CASE RecordCommit \/ UNCHANGED vars
    BY <1>1 DEF RecordCommit, vars, history, locals, disk, Tidy, Current, File
  <1>2. ASSUME NEW p \in Processes, BeginRound(p)
        PROVE  Tidy'
    <2>1. /\ ~together
          /\ \A q \in Others(p) : step[q] = "idle" /\ step'[q] = "idle"
          /\ step'[p] = "count" /\ UNCHANGED <<tmp, pub, head, mishaps>>
      BY <1>2, BeginAlone
    <2>2. step[p] = "idle"
      BY <1>2 DEF BeginRound
    <2> QED BY <2>1, <2>2 DEF Tidy, Current, Others
  <1>3. ASSUME NEW p \in Processes,
               \/ UpdateBigrams(p) \/ Discover(p)
               \/ OpenTmp(p) \/ WritePart(p) \/ Publish(p) \/ SaveFails(p)
               \/ Stage(p) \/ CommitAll(p) \/ GitFails(p)
               \/ Deploy(p) \/ EndRound(p) \/ Crash(p)
        PROVE  Tidy'
    <2>1. Busy(p) /\ ~together
      BY <1>3, StepBusy
    <2>2. mishaps = 0
      BY <1>3, StepFrame DEF TypeOK
    <2>3. \A q \in Processes : q # p => step[q] = "idle" /\ step'[q] = "idle"
      BY <1>3, <2>1, OthersIdle DEF Others
    <2>4. CASE UpdateBigrams(p) \/ Discover(p)
      <3>1. UNCHANGED <<tmp, pub, head>> /\ step[p] # "write"
            /\ step'[p] \in {"discover", "open"}
        BY <2>4 DEF UpdateBigrams, Discover, disk, TypeOK
      <3> QED BY <3>1, <2>1, <2>2, <2>3 DEF Tidy
    <2>5. CASE OpenTmp(p)
      <3>1. /\ File(p)' = File(p) /\ step'[p] = "write" /\ step[p] = "open"
            /\ \A f \in Files : f # File(p) => tmp'[f] = tmp[f]
        BY <2>5 DEF OpenTmp, TypeOK, File
      <3> QED BY <3>1, <2>1, <2>2, <2>3 DEF Tidy
    <2>6. CASE WritePart(p)
      <3>1. /\ File(p)' = File(p) /\ step'[p] = "write" /\ step[p] = "write"
            /\ \A f \in Files : f # File(p) => tmp'[f] = tmp[f]
        BY <2>6, <2>1, OnlyRenames DEF File
      <3> QED BY <3>1, <2>1, <2>2, <2>3 DEF Tidy
    <2>7. CASE Publish(p)
      <3>1. /\ step[p] = "write"
            /\ \A f \in Files : tmp'[f] = IF f = File(p) THEN Absent ELSE tmp[f]
        BY <2>7, <2>1, PublishesOwn
      <3>2. step'[p] \in {"open", "stage", "deploy"} /\ (step'[p] = "deploy" => ~CommitToGit)
        BY <2>7 DEF Publish, NextFile, TypeOK
      <3> QED BY <3>1, <3>2, <2>1, <2>2, <2>3 DEF Tidy
    <2>8. CASE Stage(p)
      <3>1. /\ step[p] = "stage" /\ step'[p] = "commit" /\ staged'[p] = Worktree
            /\ UNCHANGED <<tmp, pub, head>>
        BY <2>8 DEF Stage, disk, TypeOK
      <3>2. \A f \in Files : tmp[f] = Absent
        BY <3>1, <2>1, <2>2, <2>3 DEF Tidy
      <3>3. Worktree = Current /\ Current' = Current
        BY <3>1, <3>2 DEF Worktree, Current, Userdata, Files
      <3> QED BY <3>1, <3>2, <3>3, <2>3 DEF Tidy
    <2>9. CASE CommitAll(p)
      <3>1. /\ step[p] = "commit" /\ step'[p] = "deploy" /\ head' = staged[p]
            /\ UNCHANGED <<tmp, pub>>
        BY <2>9 DEF CommitAll, TypeOK
      <3>2. \A f \in Files : tmp[f] = Absent
        BY <3>1, <2>1, <2>2, <2>3 DEF Tidy
      <3>3. staged[p] = Current /\ Current' = Current
        BY <3>1, <2>1, <2>2 DEF Tidy, Current
      <3> QED BY <3>1, <3>2, <3>3, <2>3 DEF Tidy
    <2>10. CASE Deploy(p) \/ EndRound(p)
      <3>1. /\ step[p] = "deploy" /\ step'[p] = "idle"
            /\ UNCHANGED <<tmp, pub, head>>
        BY <2>10 DEF Deploy, EndRound, Leave, disk, TypeOK
      <3> QED BY <3>1, <2>1, <2>2, <2>3 DEF Tidy
    <2>11. CASE SaveFails(p) \/ GitFails(p) \/ Crash(p)
      BY <2>11, <2>2 DEF SaveFails, GitFails, Crash
    <2> QED BY <1>3, <2>4, <2>5, <2>6, <2>7, <2>8, <2>9, <2>10, <2>11
  <1> QED BY <1>1, <1>2, <1>3 DEF Next

LEMMA AloneInit == Init => Alone /\ Tidy
  BY DEF Init, Alone, Tidy, Busy, Files

\* After a commit HEAD is what userdata/ holds, with no temporary file in it
\* (GitSync::CommitAll, git_sync.cc:98), when nothing failed and no two
\* rounds overlapped.
THEOREM HeadCurrent == Spec => []HeadIsCurrent
  <1>1. Init => Alone /\ Tidy
    BY AloneInit
  <1>2. (TypeOK /\ FilesInv) /\ (Alone /\ Tidy) /\ [Next]_vars => (Alone /\ Tidy)'
    BY AloneStep, TidyStep
  <1>3. Tidy => HeadIsCurrent
    BY DEF Tidy, HeadIsCurrent, Current
  <1> QED BY <1>1, <1>2, <1>3, Inductive, PTL DEF Spec

Within(v, n) == \A e \in DOMAIN v : v[e] <= n
Limit(p)     == IF p \in Clis THEN 1 + cliRuns ELSE 1

\* How often an entry may be counted in the saved table and in the one that
\* is being made.
Tallies == ~together =>
  /\ pub["ngram"] # Absent => \A v \in pub["ngram"][1] : Within(v, 1 + cliRuns)
  /\ \A p \in Processes : step[p] = "count"
       => Within(made[p]["ngram"], Limit(p) - 1)
  /\ \A p \in Processes : step[p] \in {"discover", "open", "write"}
       => Within(made[p]["ngram"], Limit(p))

\* A table that is loaded whole, and nothing if there is none.
LEMMA LoadsSaved ==
  ASSUME TypeOK, FilesInv, shared = {}, NEW t \in Loaded("ngram")
  PROVE  /\ t \in Version
         /\ t = <<>> \/ (pub["ngram"] # Absent /\ t \in pub["ngram"][1])
  <1>1. "ngram" \in Files
    BY DEF Files
  <1>2. Sound(pub["ngram"])
    BY <1>1 DEF FilesInv, AllSound
  <1>3. t \in Version
    <2>1. pub \in [Files -> Content \cup {Absent}]
      BY DEF TypeOK
    <2> QED BY <1>1, <2>1, LoadedTyped
  <1>4. CASE pub["ngram"] = Absent
    BY <1>3, <1>4 DEF Loaded
  <1>5. CASE pub["ngram"] # Absent /\ Whole(pub["ngram"])
    BY <1>3, <1>5 DEF Loaded
  <1> QED BY <1>2, <1>4, <1>5 DEF Sound

LEMMA CountedWithin ==
  ASSUME NEW t \in Version, NEW n \in Nat, NEW k, NEW l \in Nat \ {0},
         Within(t, l - 1)
  PROVE  Within(Counted(t, Read(n, k)), l)
  <1>1. \A e \in DOMAIN t : t[e] \in Nat
    BY DEF Version
  <1>2. \A e \in 1..n : Read(n, k)[e] \in {0, 1}
    BY DEF Read
  <1>3. DOMAIN Read(n, k) = 1..n
    BY ReadTyped
  <1>4. ASSUME NEW e \in 1..n
        PROVE  Counted(t, Read(n, k))[e] <= l
    BY <1>1, <1>2, <1>3 DEF Within, Counted
  <1> QED BY <1>3, <1>4 DEF Within, Counted

LEMMA TalliesStep ==
  ASSUME TypeOK, FilesInv, Alone, Tallies, [Next]_vars
  PROVE  Tallies'
  <1> SUFFICES ASSUME ~together' PROVE Tallies'
    BY DEF Tallies
  <1>1. CASE RecordCommit \/ UNCHANGED vars
    BY <1>1 DEF RecordCommit, vars, history, locals, disk, Tallies, Limit, Within
  <1>2. ASSUME NEW p \in Processes, BeginRound(p)
        PROVE  Tallies'
    <2>1. /\ ~together /\ pub' = pub /\ step'[p] = "count"
          /\ \A q \in Others(p) : step'[q] = "idle"
      BY <1>2, BeginAlone
    <2>2. PICK t \in StartTable(p) : made'[p]["ngram"] = t
      BY <1>2 DEF BeginRound, TypeOK, Files
    <2>3. cliRuns' = (IF p \in Clis THEN cliRuns + 1 ELSE cliRuns)
      BY <1>2 DEF BeginRound
    <2>4. cliRuns \in Nat /\ shared = {}
      BY <2>1 DEF TypeOK, Alone
    <2>5. pub["ngram"] # Absent
            => \A v \in pub["ngram"][1] : v \in Version /\ Within(v, 1 + cliRuns)
      <3>1. pub["ngram"] # Absent => pub["ngram"] \in Content
        BY DEF TypeOK, Files
      <3>2. pub["ngram"] # Absent => pub["ngram"][1] \subseteq Version
        BY <3>1, PartsAssumption DEF Content
      <3> QED BY <2>1, <3>2 DEF Tallies
    <2>6. pub["ngram"] # Absent
            => \A v \in pub["ngram"][1] : Within(v, 1 + cliRuns')
      BY <2>3, <2>4, <2>5 DEF Within, Version
    <2>7. Within(t, Limit(p)' - 1)
      <3>1. CASE p \in Clis
        <4>1. t = <<>> \/ (pub["ngram"] # Absent /\ t \in pub["ngram"][1])
          BY <2>2, <2>4, <3>1, LoadsSaved DEF StartTable
        <4>2. Limit(p)' - 1 = 1 + cliRuns
          BY <2>3, <2>4, <3>1 DEF Limit
        <4> QED BY <4>1, <4>2, <2>5 DEF Within
      <3>2. CASE p \notin Clis
        BY <2>2, <3>2 DEF StartTable, Within
      <3> QED BY <3>1, <3>2
    <2> QED BY <2>1, <2>2, <2>6, <2>7 DEF Tallies, Others
  <1>3. ASSUME NEW p \in Processes,
               \/ UpdateBigrams(p) \/ Discover(p)
               \/ OpenTmp(p) \/ WritePart(p) \/ Publish(p) \/ SaveFails(p)
               \/ Stage(p) \/ CommitAll(p) \/ GitFails(p)
               \/ Deploy(p) \/ EndRound(p) \/ Crash(p)
        PROVE  Tallies'
    <2>1. Busy(p) /\ ~together
      BY <1>3, StepBusy
    <2>2. \A q \in Processes : q # p => step[q] = "idle" /\ step'[q] = "idle"
      BY <1>3, <2>1, OthersIdle DEF Others
    <2>3. cliRuns \in Nat /\ "ngram" \in Files
      BY DEF TypeOK, Files
    <2>4. CASE UpdateBigrams(p)
      <3>1. /\ step[p] = "count" /\ step'[p] = "discover"
            /\ \E k : made'[p]["ngram"]
                       = Counted(made[p]["ngram"], Read(entries, k))
            /\ UNCHANGED <<pub, cliRuns>>
        BY <2>4, <2>3 DEF UpdateBigrams, TypeOK, disk, history
      <3>2. made[p]["ngram"] \in Version /\ entries \in Nat /\ Limit(p) \in Nat \ {0}
        BY <2>3 DEF TypeOK, Limit
      <3>3. Within(made'[p]["ngram"], Limit(p))
        BY <3>1, <3>2, <2>1, CountedWithin DEF Tallies
      <3> QED BY <3>1, <3>3, <2>1, <2>2 DEF Tallies, Limit
    <2>5. CASE Discover(p) \/ OpenTmp(p)
      <3>1. /\ step[p] \in {"discover", "open"} /\ step'[p] \in {"open", "write"}
            /\ made'[p]["ngram"] = made[p]["ngram"]
            /\ UNCHANGED <<pub, cliRuns>>
        BY <2>5, <2>3 DEF Discover, OpenTmp, TypeOK, disk, history
      <3> QED BY <3>1, <2>1, <2>2 DEF Tallies, Limit
    <2>6. CASE WritePart(p)
      BY <2>6, <2>1, OnlyRenames DEF Tallies, Limit
    <2>7. CASE Publish(p)
      <3>1. /\ step[p] = "write" /\ made' = made
            /\ tmp[File(p)] = Complete(made[p][File(p)])
            /\ pub'["ngram"] = IF "ngram" = File(p) THEN tmp["ngram"] ELSE pub["ngram"]
            /\ cliRuns' = IF File(p) = "ngram" /\ p \in Daemons THEN 0 ELSE cliRuns
        BY <2>7, <2>1, <2>3, PublishesOwn
      <3>2. Within(made[p]["ngram"], Limit(p))
        BY <3>1, <2>1 DEF Tallies
      <3>3. Limit(p)' = Limit(p)
        BY <3>1, ProcessAssumption DEF Limit
      <3>4. step'[p] \in {"open", "stage", "deploy"}
        BY <2>7 DEF Publish, NextFile, TypeOK
      <3>5. File(p) = "ngram" => /\ pub'["ngram"][1] = {made[p]["ngram"]}
                                 /\ Limit(p) = 1 + cliRuns'
        BY <3>1, <2>3, PartsAssumption, ProcessAssumption DEF Complete, Limit, Processes
      <3>6. pub'["ngram"] # Absent => \A v \in pub'["ngram"][1] : Within(v, 1 + cliRuns')
        BY <3>1, <3>2, <3>5, <2>1 DEF Tallies
      <3> QED BY <3>1, <3>2, <3>3, <3>4, <3>6, <2>2 DEF Tallies
    <2>8. CASE SaveFails(p)
      <3>1. /\ step[p] \in {"open", "write"}
            /\ step'[p] \in {"open", "stage", "deploy"}
            /\ UNCHANGED <<made, pub, cliRuns>>
        BY <2>8 DEF SaveFails, FailedWrite, NextFile, TypeOK, history
      <3> QED BY <3>1, <2>1, <2>2 DEF Tallies, Limit
    <2>9. CASE Stage(p) \/ CommitAll(p) \/ GitFails(p)
               \/ Deploy(p) \/ EndRound(p) \/ Crash(p)
      <3>1. /\ step'[p] \in {"commit", "deploy", "idle"}
            /\ UNCHANGED <<pub, cliRuns>>
        BY <2>9 DEF Stage, CommitAll, GitFails, Deploy, EndRound, Crash, Leave,
                    TypeOK, disk, history
      <3> QED BY <3>1, <2>1, <2>2 DEF Tallies
    <2> QED BY <1>3, <2>4, <2>5, <2>6, <2>7, <2>8, <2>9
  <1> QED BY <1>1, <1>2, <1>3 DEF Next

\* No count in the saved table is higher than one and the runs of
\* `dafeng-cli learn` since a daemon saved it (CmdLearn, cli/main.cc:375),
\* when no two rounds overlapped.
THEOREM Counts == Spec => []CountsExplained
  <1>1. Init => Alone /\ Tallies
    BY DEF Init, Alone, Tallies, Busy, Files
  <1>2. (TypeOK /\ FilesInv) /\ (Alone /\ Tallies) /\ [Next]_vars => (Alone /\ Tallies)'
    BY AloneStep, TalliesStep
  <1>3. Tallies => CountsExplained
    BY DEF Tallies, CountsExplained, Within
  <1> QED BY <1>1, <1>2, <1>3, Inductive, PTL DEF Spec

\* The entries the saved files and the made versions were made from. A round
\* that has read the whole history has those of the file it is to replace.
Ages == ~together =>
  /\ \A f \in Files : Learned(pub[f]) \subseteq 1..entries
  /\ \A p \in Processes : \A f \in Files :
       \/ step[p] \in {"open", "write"}
       \/ step[p] = "discover" /\ f = "ngram"
       => /\ Entries(made[p][f]) \subseteq 1..entries
          /\ ~short[p] => Learned(pub[f]) \subseteq Entries(made[p][f])

LEMMA LearnedComplete ==
  ASSUME NEW v, Complete(v) # Absent PROVE Learned(Complete(v)) = Entries(v)
  <1>1. Complete(v)[1] = {v}
    BY PartsAssumption DEF Complete
  <1>2. (CHOOSE w \in {v} : TRUE) = v
    OBVIOUS
  <1> QED BY <1>1, <1>2 DEF Learned

\* A scan that got every row was made from every entry.
LEMMA MadeEntries ==
  ASSUME NEW n \in Nat, NEW k \in 0..n, NEW t \in Version
  PROVE  /\ Entries(Read(n, k)) \subseteq 1..n
         /\ Entries(Counted(t, Read(n, k))) \subseteq 1..n
         /\ k = n => /\ Entries(Read(n, k)) = 1..n
                     /\ Entries(Counted(t, Read(n, k))) = 1..n
  <1>1. DOMAIN Read(n, k) = 1..n /\ Read(n, k) \in Version
    BY ReadTyped
  <1>2. DOMAIN Counted(t, Read(n, k)) = 1..n
    BY <1>1, CountedTyped
  <1>3. ASSUME k = n, NEW e \in 1..n
        PROVE  Read(n, k)[e] = 1 /\ Counted(t, Read(n, k))[e] > 0
    <2>1. Read(n, k)[e] = 1
      BY <1>3 DEF Read
    <2>2. e \in DOMAIN t => t[e] \in Nat
      BY DEF Version
    <2> QED BY <1>1, <2>1, <2>2 DEF Counted
  <1> QED BY <1>1, <1>2, <1>3 DEF Entries

\* A round that is alone replaces a file by the version it has made.
LEMMA PublishLearned ==
  ASSUME TypeOK, FilesInv, Alone, Ages, ~together,
         NEW p \in Processes, Publish(p), NEW f \in Files
  PROVE  /\ ~short[p] => Learned(pub[f]) \subseteq Learned(pub'[f])
         /\ Learned(pub'[f]) \subseteq 1..entries
         /\ Entries(made[p][f]) \subseteq 1..entries
         /\ ~short[p] => Learned(pub'[f]) \subseteq Entries(made[p][f])
  <1>1. /\ step[p] = "write"
        /\ tmp[File(p)] = Complete(made[p][File(p)]) /\ tmp[File(p)] # Absent
        /\ pub'[f] = IF f = File(p) THEN tmp[f] ELSE pub[f]
    BY PublishesOwn
  <1>2. /\ Learned(pub[f]) \subseteq 1..entries
        /\ Entries(made[p][f]) \subseteq 1..entries
        /\ ~short[p] => Learned(pub[f]) \subseteq Entries(made[p][f])
    BY <1>1 DEF Ages
  <1>3. f = File(p) => Learned(pub'[f]) = Entries(made[p][f])
    BY <1>1, LearnedComplete
  <1>4. f # File(p) => Learned(pub'[f]) = Learned(pub[f])
    BY <1>1
  <1> QED BY <1>2, <1>3, <1>4

\* What NeverOlder says of a step.
NothingLost == (\A p \in Processes : ~short[p])
                 => \A f \in Files : Learned(pub[f]) \subseteq Learned(pub'[f])

LEMMA AgesStep ==
  ASSUME TypeOK, FilesInv, Alone, Ages, [Next]_vars
  PROVE  Ages' /\ [~together' => NothingLost]_vars
  <1> SUFFICES ASSUME ~together' PROVE Ages' /\ NothingLost
    BY DEF Ages
  <1>0. entries \in Nat
    BY DEF TypeOK
  <1>1. CASE RecordCommit
    <2>1. entries' = entries + 1 /\ UNCHANGED <<pub, step, made, short, together>>
      BY <1>1 DEF RecordCommit, history, locals, disk
    <2>2. 1..entries \subseteq 1..entries'
      BY <2>1, <1>0
    <2> QED BY <2>1, <2>2 DEF Ages, NothingLost
  <1>2. CASE UNCHANGED vars
    BY <1>2 DEF vars, history, locals, disk, Ages, NothingLost
  <1>3. ASSUME NEW p \in Processes, BeginRound(p)
        PROVE  Ages' /\ NothingLost
    <2>1. /\ ~together /\ UNCHANGED <<pub, entries>> /\ step'[p] = "count"
          /\ \A q \in Others(p) : step'[q] = "idle"
      BY <1>3, BeginAlone
    <2> QED BY <2>1 DEF Ages, NothingLost, Others
  <1>4. ASSUME NEW p \in Processes,
               \/ UpdateBigrams(p) \/ Discover(p)
               \/ OpenTmp(p) \/ WritePart(p) \/ Publish(p) \/ SaveFails(p)
               \/ Stage(p) \/ CommitAll(p) \/ GitFails(p)
               \/ Deploy(p) \/ EndRound(p) \/ Crash(p)
        PROVE  Ages' /\ NothingLost
    <2>1. Busy(p) /\ ~together
      BY <1>4, StepBusy
    <2>2. \A q \in Processes : q # p => step[q] = "idle" /\ step'[q] = "idle"
      BY <1>4, <2>1, OthersIdle DEF Others
    <2>3. entries' = entries
      BY <1>4, StepFrame
    <2>4. CASE UpdateBigrams(p)
      <3>1. PICK k \in 0..entries :
              /\ RecentEntries(p, k)
              /\ made' = [made EXCEPT ![p]["ngram"]
                                    = Counted(made[p]["ngram"], Read(entries, k))]
        BY <2>4 DEF UpdateBigrams
      <3>2. /\ step'[p] = "discover" /\ pub' = pub
            /\ made'[p]["ngram"] = Counted(made[p]["ngram"], Read(entries, k))
            /\ made[p]["ngram"] \in Version
        BY <2>4, <3>1 DEF UpdateBigrams, TypeOK, disk, Files
      <3>3. ~short'[p] => k = entries
        BY <3>1 DEF RecentEntries, TypeOK
      <3>4. /\ Entries(made'[p]["ngram"]) \subseteq 1..entries
            /\ ~short'[p] => Entries(made'[p]["ngram"]) = 1..entries
        BY <3>2, <3>3, <1>0, MadeEntries
      <3> QED BY <3>2, <3>4, <2>1, <2>2, <2>3 DEF Ages, NothingLost
    <2>5. CASE Discover(p)
      <3>1. PICK k \in 0..entries :
              /\ RecentEntries(p, k)
              /\ made' = [made EXCEPT ![p] =
                            [f \in Files |-> IF f = "ngram" THEN made[p][f]
                                             ELSE Read(entries, k)]]
        BY <2>5 DEF Discover
      <3>2. /\ step[p] = "discover" /\ step'[p] = "open" /\ pub' = pub
            /\ \A f \in Files : made'[p][f] = IF f = "ngram" THEN made[p][f]
                                              ELSE Read(entries, k)
        BY <2>5, <3>1 DEF Discover, TypeOK, disk
      <3>3. /\ ~short'[p] => k = entries /\ ~short[p]
        BY <3>1 DEF RecentEntries, TypeOK
      <3>4. <<>> \in Version
        BY DEF Version
      <3>5. /\ Entries(Read(entries, k)) \subseteq 1..entries
            /\ k = entries => Entries(Read(entries, k)) = 1..entries
        BY <3>4, <1>0, MadeEntries
      <3> QED BY <3>2, <3>3, <3>5, <2>1, <2>2, <2>3 DEF Ages, NothingLost
    <2>6. CASE OpenTmp(p)
      <3>1. /\ step[p] = "open" /\ step'[p] = "write"
            /\ UNCHANGED <<pub, made, short>>
        BY <2>6 DEF OpenTmp, TypeOK
      <3> QED BY <3>1, <2>1, <2>2, <2>3 DEF Ages, NothingLost
    <2>7. CASE WritePart(p)
      <3>1. UNCHANGED <<pub, step, made, short>>
        BY <2>7, <2>1, OnlyRenames DEF WritePart
      <3> QED BY <3>1, <2>1, <2>2, <2>3 DEF Ages, NothingLost
    <2>8. CASE Publish(p)
      <3>1. /\ UNCHANGED <<made, short>> /\ step'[p] \in {"open", "stage", "deploy"}
        BY <2>8 DEF Publish, NextFile, TypeOK
      <3>2. \A f \in Files :
              /\ ~short[p] => Learned(pub[f]) \subseteq Learned(pub'[f])
              /\ Learned(pub'[f]) \subseteq 1..entries
              /\ Entries(made[p][f]) \subseteq 1..entries
              /\ ~short[p] => Learned(pub'[f]) \subseteq Entries(made[p][f])
        BY <2>8, <2>1, PublishLearned
      <3> QED BY <3>1, <3>2, <2>2, <2>3 DEF Ages, NothingLost
    <2>9. CASE SaveFails(p)
      <3>1. /\ step[p] \in {"open", "write"}
            /\ step'[p] \in {"open", "stage", "deploy"}
            /\ UNCHANGED <<made, pub, short>>
        BY <2>9 DEF SaveFails, FailedWrite, NextFile, TypeOK
      <3> QED BY <3>1, <2>1, <2>2, <2>3 DEF Ages, NothingLost
    <2>10. CASE Stage(p) \/ CommitAll(p) \/ GitFails(p)
                \/ Deploy(p) \/ EndRound(p) \/ Crash(p)
      <3>1. step'[p] \in {"commit", "deploy", "idle"} /\ pub' = pub
        BY <2>10 DEF Stage, CommitAll, GitFails, Deploy, EndRound, Crash, Leave,
                     TypeOK, disk
      <3> QED BY <3>1, <2>1, <2>2, <2>3 DEF Ages, NothingLost
    <2> QED BY <1>4, <2>4, <2>5, <2>6, <2>7, <2>8, <2>9, <2>10
  <1> QED BY <1>1, <1>2, <1>3, <1>4 DEF Next

\* A round scans the history before it saves, so a round that could read all
\* of it leaves no entry out of a file that was made from it, whatever earlier
\* rounds could read (RunLearningRound, learning_round.cc:29-87), as long as
\* rounds do not overlap.
THEOREM Newer == Spec => NeverOlder
  <1>1. Init => Alone /\ Ages
    BY DEF Init, Alone, Ages, Busy, Files, Learned
  <1>2. (TypeOK /\ FilesInv) /\ (Alone /\ Ages) /\ [Next]_vars
          => /\ (Alone /\ Ages)'
             /\ [~together' => NothingLost]_vars
    BY AloneStep, AgesStep
  <1>3. [~together' => NothingLost]_vars
          => [(~together' /\ \A p \in Processes : ~short[p])
               => \A f \in Files : Learned(pub[f]) \subseteq Learned(pub'[f])]_vars
    BY DEF NothingLost
  <1> QED BY <1>1, <1>2, <1>3, Inductive, PTL DEF Spec, NeverOlder
=============================================================================
