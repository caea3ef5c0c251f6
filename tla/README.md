# dafeng: models, checks and proofs

TLA+ models of the dafeng daemon and of the client inside the input method,
TLC configurations that check them on small instances, and TLAPS proofs about
them for all values of their constants. Source paths are relative to the
repository root; `client.cc:77` is line 77 of that file.

Contents: 1. the system, 2. what makes it hard, 3. what makes it correct,
4. the modules, 5. the runs, 6. disagreements between code and documentation,
7. the proofs, 8. what is not modelled, 9. what is left, 10. running it.

## 1. The system

dafeng reranks the candidates of a Wubi input method. For each keystroke the
**librime plugin** (Lua on a C bridge, inside the IME process) hands the
candidates to the **client** library, which asks the **daemon** over a local
socket for a better order and falls back to librime's own order when no answer
comes in time. Each committed text is sent to the daemon too, which stores it
in a **history** database. A watcher thread in the daemon learns from the
history when the user is idle: it recounts bigrams, discovers new words,
writes the files the reranker and RIME read, and has RIME rebuild its
dictionary.

| component | source | state it keeps | operations | talks to |
|---|---|---|---|---|
| Client | `src/client/client.cc` | mutex `mu_`, connection `conn_`, `next_request_id_` | `Rerank`, `GetStats`, `Ping`, `RecordCommit`, `ResetConnection`, `IsConnected` | endpoint |
| C API | `src/client/client_c.cc` | none | the same, marshalled | client |
| Endpoint, Unix | `src/common/endpoint_unix.cc` | descriptors, shutdown pipe, socket path | `ConnectEndpoint`, `ListenEndpoint`, `Accept`, `ReadFull`, `WriteAll`, `Close`, `Shutdown` | kernel |
| Endpoint, Windows | `src/common/endpoint_win.cc` | pipe instances, events | the same interface | kernel |
| Protocol | `src/common/protocol.cc` | none | frame length, encode, decode | |
| Server | `src/daemon/server.cc` | atomic counters; one detached thread per connection | `Run`, `HandleConnection`, `GetStats`, `Shutdown` | endpoint, reranker, commit logger |
| Rerankers | `src/daemon/reranker_*.cc`, `mock_reranker.cc` | models, n-gram table | `Rerank`, `Record` | history |
| History | `src/daemon/history_store.cc` | SQLite table | `Insert`, `Count`, `RecentEntries`, `Prune`, `Vacuum` | |
| AutoLearnRunner | `src/daemon/auto_learn.cc` | `started_`, `stop_`, `last_round_*`, totals, the watcher thread | `Start`, `Stop`, `TickForTesting`, its loop | history, learning round, deployer, notifier |
| Learning round | `src/daemon/learning_round.cc` | none | `RunLearningRound`, `RequestRimeRedeploy` | the five below |
| N-gram table | `src/daemon/ngram.cc` | counts; `personal_ngram.bin` | `UpdateBigramsFromHistory`, `Save`, `Load` | |
| New words | `src/daemon/new_word.cc` | none | `Discover` | |
| User dictionary | `src/daemon/user_dict.cc` | `learned_words.yaml`, `dafeng_learned.dict.yaml` | write | |
| Wubi codec | `src/daemon/wubi_codec.cc` | code table | encode a word | |
| Git sync | `src/daemon/git_sync.cc` | a repository | `Init`, `CommitAll`, `Push` | |
| Daemon main | `src/daemon/main.cc` | signal flag, lifetimes | start, stop | all of the daemon |
| CLI | `src/cli/main.cc` | none | `ping`, `stats`, `learn`, ... | client; the learning files directly |
| Plugin | `src/plugin/dafeng_rerank.lua`, `dafeng_filter.lua`, `dafeng_lua_bridge.c` | none | `compute_order` | C API |
| Inspector | `apps/inspector` | status | polling, display | CLI |
| Logging, paths | `src/common/logging.cc`, `paths_*.cc` | log level | | |
| Packaging | `packaging/`, `install.sh` | | install, launchd `KeepAlive` | |

How they interact. The IME's threads share one `DafengClient`; each call holds
`mu_` from its connect to its reply. A connection is a byte stream in each
direction, and a request is answered on the connection it came on; commits get
no answer. In the daemon each connection has a detached worker; workers share
the counters, the reranker and the history. The watcher thread shares the
history with the workers, and the files with the reranker, with RIME and with
`dafeng-cli learn`, which is a second process.

## 2. What makes it hard

* **Concurrency.** Threads of the host on one connection; workers that
  outlive the connection the client has given up on; workers racing for a
  maximum with relaxed atomics; commits stored while a round scans; `Stop`
  racing the watcher's wait; polls of the menu that overtake each other.
* **Processes without a lock between them.** Two daemons and one socket name;
  the daemon and `dafeng-cli learn` with one temporary name per file; `pause`,
  `resume` and `setup` run at once; clients racing for a pipe instance.
* **Failure.** The daemon dies with requests in every place; a deadline cuts
  a frame short on either side; writing to a closed socket; SQLite reads that
  fail and look like an empty history; one of several files of a round not
  written, or the process killed between open and rename; the deployer
  missing; a round that throws; `accept()` without descriptors; a model that
  cannot score.
* **Ordering.** Commits in the stream of a dropped connection while the next
  connection is already served; a reply that comes after its call gave up; a
  signal at any point of `main`; entries with equal or decreasing time stamps.
* **Other versions.** The daemon and the plugin are installed separately: a
  body may lack keys or have new ones, and a reply may be any list of integers.
* **Time.** Deadlines bound `poll()` only; the learning gates compare a steady
  and a wall clock.

The full list, each at its line, is `hazards` in `PROJECT.json`, with the
properties that cover it or the reason none does.

## 3. What makes it correct

* **Client and server.** A call returns its own answer or none, however calls,
  timeouts, reconnects and crashes meet; streams never get out of step; a
  commit is recorded at most once, and is not lost merely because the client
  dropped the connection afterwards; the mutex is always let go; abandoned
  connections leave no worker.
* **Wire.** However the bytes are cut, the reader hands on whole messages, in
  order, each once, with the meaning the protocol gives them, or closes.
* **Counters.** What a client was told has been counted, and later statistics
  never show less; when nothing is under way count, sum and maximum agree.
* **Learning.** What the user is told is deployed, as far as it has a code;
  every round is paid for by a new entry; a round that has read everything takes
  nothing away from the files; entries that wait are learned; `Stop` ends the
  watcher promptly. Words, counts and codes are what the history and the Wubi
  dictionary say.
* **Files.** A file that one process saves at a time is always one complete
  version, and so is every copy made of it.
* **The order of candidates.** Whatever the daemon answers, every candidate is
  offered and the protected ones stay; better candidates come first, and equal
  ones in librime's order.
* **Lifecycle.** A daemon that is alone can be reached; a loaded label runs
  what its plist says, and serves in the end; a signal ends a daemon at
  whatever point it meets it; the menu shows in the end what is the case.
* **Windows.** A client that got a pipe instance is not turned away for having
  come early; no instance is left that nobody attends; a shutdown ends the daemon.

## 4. The modules

| module | models | uses |
|---|---|---|
| `RerankService` | abstract: what the client promises its callers | |
| `Ipc` | client, connections, accept loop, workers, crashes, host exits | instance of `RerankService` as `Service` |
| `FrameChannel` | abstract: whole messages, in order, or the end | |
| `Wire` | bodies, frames, the loops that move bytes, on both platforms | instance of `FrameChannel` as `Channel` |
| `ServerStats` | the counters and `GetStats` | |
| `ComputeOrder` | the plugin's `compute_order`, the bridge, the C API's `rerank` | |
| `RerankedOrder` | the same with the rerankers behind it | extends `ComputeOrder` |
| `AutoLearn` | history, runner, round, redeploy, notification, restarts | |
| `NewWords` | what a round computes: bigrams, words, codes | |
| `AtomicFiles` | abstract: a file changes in one step | |
| `LearnFiles` | the files of a round, written by two processes; git; RIME's build | instance of `AtomicFiles` as `Abstract` |
| `Lifecycle` | `main`, the socket name, launchd, `pause`, `resume`, `setup` | |
| `MenuBar` | the inspector's menu over all that | extends `Lifecycle` |
| `Pipe` | the Windows endpoint: instances, Accept, ConnectEndpoint | |
| `MCIpc`, `MCServerStats`, `MCRerankedOrder`, `MCWire`, `MCNewWords` | symmetry and small sets for TLC | their module |
| `IpcProofs`, `DaemonProofs` (about `ServerStats` and `Pipe`), `AutoLearnProofs`, `RerankedOrderProofs` (which also proves about `ComputeOrder`), `LearnFilesProofs`, `LifecycleProofs` (with `MenuBar`), `WireProofs`, `NewWordsProofs` | theorems | their modules, `TLAPS` |

How they fit. `Ipc` takes frames as units; `Wire` shows why it may: one
direction of a connection, byte by byte, is a `FrameChannel`. `Lifecycle`
says when there is a daemon to connect to, `Ipc` what happens once connected.
`AutoLearn` has the order of a round and its failures with a file as a
set of entries; `LearnFiles` has the files of the same round and a second process;
`NewWords` has the contents.

Definitions named `X_Y`, where `X` is an action or operator, are wrong
variants of `X`; each shows that some property notices the mistake. They are
in no next-state relation.

### Ipc

| state | code |
|---|---|
| `mu`, `conn`, `next_request_id` | `mu_`, `conn_`, `next_request_id_` of `DafengClient` |
| `pc`, `call`, `reqid`, `ret` | where each thread is in its call, the call, its request id, and what its last call returned |
| `c2s`, `s2c` | the two streams of each connection, in frames not yet read |
| `worker`, `job` | the server end of a connection: in the backlog, or where in `HandleConnection` its worker is, and the message it holds |
| `recorded` | what `ICommitLogger::Record` was given (history) |
| `host`, `daemon` | the two processes |

A frame is `[kind, id, call]`. `call` is a history field: the number of the
client call the frame belongs to. No guard reads it; `AnswersOwnCall` compares
it with the call it was returned to. `Torn` is a frame cut short.

| actions | code |
|---|---|
| `Begin`, `Lock`, `Return` | entry and exit of the five operations and their `lock_guard` |
| `EnsureConnected`, `ConnectFails`, `TakeId` | `EnsureConnectedLocked`, then `next_request_id_++` |
| `Write`, `WriteBlocks`, `WriteTimesOut`, `WriteBrokenPipe` | `WriteAll`: done; blocked inside `write()`; deadline, with or without part of the frame sent; EPIPE with SIGPIPE before it |
| `ReadReply`, `ReadFails` | header and body of the reply, type and id compared; deadline, end of stream, or a bad frame. Every failure goes through `Reset` (`ResetLocked`) |
| `Accept`, `ReadRequest`, `GiveUpReading`, `HandleCommit`, `HandleAsk`, `Reply`, `ReplyFails`, `CloseConnection` | `Server::Run` and the branches of `HandleConnection` |
| `Crash`, `Restart`, `HostExit`, `HostStart` | the processes |

Abstractions. A deadline may strike at any moment of a `poll()`: the code
bounds a wait from above only. `Room` is the number of frames a socket buffer
takes; `write()` with a full buffer blocks, because the sockets are in
blocking mode, and no deadline ends it. A `poll()` that reports no room is a
`WriteTimesOut`. The mismatch branch of `ReadReply` is in the model because
it is in the code; `OneReplyOwed` says that it is never taken. Malformed
frames are not modelled here beyond torn ones: no client of this repository
sends any (`ServerStats` has them). A reply's content is its `call`.

### Wire

A body is the number of its pairs, then keys and values in turn; a key, a value
and that number are one byte each, since how MessagePack encodes them is a
library's. The four bytes of the length are real, and all of them lie in `0 ..
255`; no body has 2 GiB, for `EncodeFrame` would cut its length to 32 bits
(`WireAssumption`). `Alien` is a value of a type the field does not have, which
`convert()` throws at.

| state | code |
|---|---|
| `out` | what the loop of `WriteAll` has left |
| `net` | the bytes in the socket or pipe, at most `Capacity` |
| `got`, `part` | the loop of `ReadFull`: what it has, and of what (header, or a body of that size) |
| `sending`, `receiving` | an end that has given up has closed the connection |
| `sent`, `received` | history |

`WriteAll(n)` and `ReadFull(n)` are one `write()` or `read()` of `n` bytes (or
one overlapped operation of `DoIo`); `HeaderRead`, `BodyRead` and `Reject` are
what `HandleConnection` and the client do with what they read. `StopSending`
and `StopReceiving` are a deadline, a closed peer, or an error, at any byte.

### ServerStats

Each counter that is only added to (`rerank_count_`, the latency sum,
`ping_count_`, ...) is the *set of messages* added to it; addition commutes,
so its value is the size of the set, or the sum of the latencies of its
messages. `max` and `version` are values. Relaxed operations on different
counters are unordered, so a worker does the updates of one message, and the
loads of one snapshot, in *any* order (`todo` is the set of those to come).
Operations on one counter have one order for all threads. `LoadMax` and
`SwapMax` are the load and one turn of the `compare_exchange_weak` loop,
spurious failures included. `told` is the history of what replies have said,
`floor[w]` its value when worker `w` read its request. `uptime_sec` is a
clock and left out.

### AutoLearn

Entries are numbered in the order they are stored. Nothing in the daemon
deletes entries, and a round scans the whole history (up to
`scan_max_entries`, 5000; the model is of histories no longer than that).
What is made from the history is the set of entries it was made from, which
after a read that failed may be any part of it: `dict`, `ngrams` (the two files
in `userdata/`). `WordEntries` are the entries that complete a new word, and
stand for it: `rime` and `build` are the words in RIME's dictionary and in what
RIME has compiled, `announced` those the notifications were about.

A word has a code because it was typed with one (`TypedWords`) or because
`WubiCodec` spells it (`SpelledWords`), or it has none; the last kind is counted
and announced like the others, and gets no row in RIME's dictionary
(`WriteRimeDict`, `Notify`). A word has its code from the start or never: that
later commits may bring one is not modelled here (`NewWords` has the codes).
`scan` is what a round has got so far, and whether that is less than there is.

The clocks are two flags: `rested`, `min_round_interval` has passed since
`last_round_at_` (steady clock), and `quiet`, the newest entry is at least
`idle_threshold` old (wall clock, which `ClockSet` may move either way).

`Lock`, `Park`, `Timeout`, `SpuriousWake`, `Resume` are the watcher's `Loop`
around its condition variable; `CountGate`, `IntervalGate`, `IdleGate` the
three gates of `ShouldRunLocked`, each reading the world when it gets there;
`UpdateBigrams` to `FinishRound` the steps of a round in the code's order, at
each of which it may throw (`RoundThrows`);
`Redeploy`, `Notify` what follows it. `Start`, `Stop` (three steps: flag,
`notify_all`, join) and `TickForTesting` are the owner's. Each fallible
operation has its failure (`Faults`), and `failed` remembers which kinds have
happened, so that a property can say until when it holds.

### NewWords

The history is a sequence of rows `[ts, code, text]`; `clock` is the wall clock
at the last commit, and may be set back. `Scans` are the results `RecentEntries` may give
(`ORDER BY ts DESC LIMIT`, then sorted by time; rows of one time in any order).
`Bigrams`, `Runs`, `Grams`, `Discovered` are the loops of
`UpdateBigramsFromHistory` and `FrequencyDiscovery`, `FullCodes` and
`EncodePhrase` those of `WubiCodec`; a loop over rows is a function of how many
of them it has seen, with `Count` or `Extend` as its body. `UpdateBigrams`,
`Discover` and `Encode` are the steps of `RunLearningRound`, with `Insert` in
between. The reference definitions in the properties do without runs and
loops: a phrase is two or three places of the scanned texts, each typed right
after the one before it (`Follows`), and they are counted.

### LearnFiles

A version of a file is the sequence that says, for each entry, how often it was
counted; an entry that a scan did not get counts zero times in it. A file has
`Parts` parts, each written from some version or not yet (`Holes`); `tmp` and
`pub` are the contents of `<file>.tmp` and `<file>`. A stream stays with the
file it opened: `stream[p]` is `"tmp"`, `"pub"` when another process has since
renamed that file into place, or `"unlinked"` when that one has been replaced.

| actions | code |
|---|---|
| `BeginRound` | `CmdLearn` loads the saved table, `RunOneRoundLocked` starts an empty one |
| `UpdateBigrams`, `Discover` | the two scans; `RecentEntries` may fail before the first row or after any other, and what it got then passes for the whole history |
| `OpenTmp`, `WritePart`, `Publish`, `SaveFails` | `Save`, `Generate`, `WriteRimeDictYaml`: truncate, write, close and rename; each may fail, and the round goes on |
| `Stage`, `CommitAll`, `GitFails` | `git_index_add_all` of what lies there, `git_commit_create` |
| `Deploy`, `EndRound` | RIME compiles what it finds, if the round found a word and both files of `userdata/` were written |
| `Crash` | the process is killed inside its round |

`short[p]` says that `p`'s round has read less than the history, `together` that
rounds have overlapped. `shared` remembers the files two processes have saved at
once; about those the code promises nothing, and the properties do not either.

### ComputeOrder

One session of the input method: its options and client are fixed, and
`Keystroke` hands the filter the next candidates, named by their position
`1..n`. `out`, `emitted`, `i` are the locals of `compute_order` (`i` stands
for both loop indices), `reply` what `dafeng_client_rerank` returned, 0-based;
`indices` is `reply` after the bridge has added one to each.

| actions | code (`dafeng_rerank.lua`) |
|---|---|
| `PassThrough`, `Protect` | the early returns; the protected prefix, and whether the block is empty |
| `Ask`, `AskFails` | `client:rerank`: any sequence; `nil`, or an error caught by `pcall`. An empty reply goes to `Fallback` as well |
| `TakeIndex`, `Taken` | the loop over the reply: an index outside the block is skipped |
| `FillDropped`, `Filled` | the loop over the block: what the reply left out |
| `Fallback`, `TailFollows` | librime's order for the block; the rest |

The reply is not assumed to be one of this repository's rerankers: the daemon
is a separate program that may be of another version. A reply may repeat an index,
and then the candidate is offered twice; so `NoneTwice` has the premise that it
does not, and `NothingLost` has none.

### RerankedOrder

`Serve(backend)` is `Ask` with a reply that the named backend makes from the
scores of the candidates: `Rerank` is its sort, or the order it keeps when it
cannot score. `served` remembers who and from which scores. `ForeignReply` is
any list of integers, as in `ComputeOrder`. Scores are numbers from a small
set; all that the order depends on is how they compare. `Sink` is llama.cpp's
-1e9 for a candidate that has no token, `Failed` an empty result.

### Lifecycle

`phase[p]` is how far `main` of a process has come; `path` is who the socket's
name leads to, `wake[p]` the byte in the self-pipe, `queue` and `served` the
connections in the backlog and with workers.

| actions | code |
|---|---|
| `ClearName`, `Bind`, `Listen`, `ListenFails` | `ListenEndpoint`: unlink, bind, listen, and the unlink after a failure |
| `Load`, `EnterRun` | `BuildReranker` with its fallback; handlers; `Run` |
| `Accept`, `Woken`, `AcceptFails` | `UnixServer::Accept` |
| `StopLearner`, `Leave` | the end of `main`; `~UnixServer` unlinks the name |
| `Signal`, `Crash` | SIGTERM: fatal before the handlers, a byte in the pipe after, nothing once `g_server` is null |
| `Spawn`, `BootOut`, `BootStrap` | launchd: `KeepAlive`, and what `launchctl` does |
| `Pause`, `Resume`, `Setup`, `Refused` | the commands step by step, with their loops |
| `StartByHand`, `Interrupt` | a daemon in a terminal |

Destroying the server under its workers is undefined behaviour: `Leave` may
then be a crash.

### MenuBar

`shown` is the published state, `poll[k]` what each poller does: the timer's,
or the one that follows a click. `Ask` runs `stats`, and `ping` when it failed;
the answer is taken at that moment and shown by `Show` at any later one.
What `stats` says of the backend is `version[p]`: the model version of the last
rerank that process has served (`Rerank`), which is 0, printed as "mock", until
somebody types; a process that starts has forgotten it (`Forgets`).
`Click` is offered by what is shown. `Overshoots` is `DafengCLI`'s timeout,
which ends the command but not the script it has started.

### Pipe

`ours[d]` is the instance the accept thread holds, `served[d]` those of its
workers, `peer[i]` who has opened instance `i`, `stop[d]` the shutdown event.
`Probe`, `EndProbe` are `ListenEndpoint`; `Create` to `Cancel` are `Accept` with
`ConnectNamedPipe` and the wait for two events, of which the first that is set
counts; `CreateFails`, `AcceptFails` and `WaitFails` are its calls that fail,
after each of which the instance is closed with whoever is on it and Accept, and
with it `Run`, ends (`failed[d]` remembers that). `Connect` to `GiveUpLooking`
are `ConnectEndpoint`'s loop; no name, any error but "busy", and the end of the
budget are all the same `nullptr`, `"refused"`. Which instances exist, and who
may open one, is Windows' (`external` in the map). The specification is
`PipeInit`, `PipeNext`, `PipeSpec`, because one module of proofs extends this
one and `ServerStats`.

## 5. The runs

Twelve runs, each for one question. `CHECK_DEADLOCK FALSE` is set in each but
`order` and `pipe`, because the bounds (`MaxCalls`, `MaxMessages`,
`MaxEntries`, `MaxStarts`, `MaxEvents`, `MaxSends`, `MaxRounds`, `MaxRows`) end
those runs: a system that has used them up has nothing left to do. `order`
goes on with keystrokes and `pipe` with clients, and both are checked for
deadlock.

| run | distinct states | shows |
|---|---|---|
| `ipc_safety` | 546 k | two threads, reranks, pings, commits and resets, two connections, a crash and restart, a host that exits or is killed by SIGPIPE: `AnswersOwnCall`, `OneReplyOwed`, `FramingInSync`, `RecordedOnce`, and that `Ipc` implements `RerankService` (`ImplementsService`). The id space is **one**: the comparison of ids is not what keeps replies with their calls; dropping the connection on every failure is |
| `ipc_liveness` | 41 k | `LockReleased`, `AbandonedWorkersEnd`, `AbandonedCommitsRecorded` |
| `ipc_sigpipe_kills` | small | section 6 |
| `wire` | 55 k | all eight types, eleven bodies of other versions or none, a channel of three bytes: `SameVersion`, `ImplementsChannel`, `SentArrives` |
| `stats` | 1.9 M | two workers, reranks of different latencies, commits, statistics and malformed bodies: `SnapshotsCoverReplies`, `QuietExact`, `CountersMonotonic` |
| `order` | 256 k | every scoring by every backend, and every reply of up to four integers, to up to four candidates: `NothingLost`, `ProtectedStay`, `ReplyRespected`, `BestFirst` |
| `learn` | 133 k | commits at every step of a round, a failure of any kind, words with a code and without, a restart, tests that tick, a clock that is set: `AnnouncedDeployed`, `RoundsNeedEntries`, `FilesNeverShrink`, and the liveness properties `WaitingEntriesLearned`, `StopReturns` |
| `words` | 724 k | histories longer than the window, pauses, a clock set back, commits inside a round, two dictionaries and none: `CountsExact`, `BigramsAgree`, `CodesExplained` |
| `files` | 1.6 M | a daemon and a CLI, a round each or two of one, one failed read, write, git call or kill at any step: `CopiesWhole`, `ImplementsAtomicFiles`, `NeverOlder`, `CountsExplained`, `HeadIsCurrent` |
| `lifecycle` | 315 k | two daemons, two shells, three mishaps or commands: `AloneReachable`, `LoadedIsCurrent`, `StopsWhenAsked`, `LoadedServes` |
| `menu` | 805 k | the timer's polls and those of a click, over launchd's daemon and one by hand, with somebody typing or nobody: `MenuSettles` |
| `pipe` | 105 k | three clients, one daemon, starts, shutdowns, kills and failing calls of Accept without bound: `ListenersAttended`, `NobodyTurnedAway`, `StopEnds` |

Each run lists what is worth saying of the code and no more. The type invariants
and the inductive invariants (`IndInv`, `StatsInv`, `LearnInv`, `OrderInv`,
`FilesInv`, `PipeInv`, `IInv`, `MenuIInv`, `Arrived`, `InFlight`) are in no run:
section 7 proves them for all values of the constants, as it does
`RepliesCounted`, `NoneTwice` and `UnscoredUntouched`.

**Bounds, and why they are enough.**
`Ipc`: two threads are needed for the mutex to matter, and a third would only
queue behind it. Two connections are the dropped one and its successor; three calls are
one that fails, one that could take its late reply, and one of another
thread. `Room = 1` makes a full buffer ordinary. One crash gives every place a
request can be in when the daemon dies. `IdSpace = 1` makes every id the id
of every call.
`Wire`: a capacity of three is smaller than a header, so every read and write
is cut at every place; two messages are one that could be mistaken for the
rest of another; `MaxBody` is the longest message's body, so that a body over the
cap exists.
`ServerStats`: two workers and three messages are the fewest for a
compare-exchange that fails and a reply that must show what another was told;
two latencies make the maximum move.
`AutoLearn`: two entries are one learned before a round and one stored during or
after it, and with two words one has a code and the other none; two
processes are a restart, and a fault may hit either. Three rounds are among
them (a tick after each entry, and one after a restart, which counts from zero),
so a short read may come between two whole ones.
`NewWords`: four rows with a window of three make the window move; gaps of
exactly the allowed pause, of more, and backwards; `MinFrequency` 2.
`LearnFiles`: two parts make a half-written file; two rounds are two in turn or
two that overlap, of one process or of both; one entry makes an older and a newer
version, and a read of it that fails an older one again.
`Lifecycle`: three events are, for example, a daemon by hand and two commands
that cross, or a crash between two commands; two attempts of `resume` stand
for five, one look of `pause` for thirty, since the loops are the same from the
second turn on. `MenuBar` has one shell and two events: the timer and the polls
of one click overlap, and a third poller would add no new kind of overlap.
`Pipe`: three clients are one that is served and two that race; instances are
as many as daemon and clients can hold, so there is always one to create.
`ComputeOrder`: options that protect nothing, some or
more than all, and rerank none, some or more than all, meet 0 to 4 candidates;
replies range from one below the first candidate to beyond the block, and are
shorter and longer than it; two scores make ties and differences.
The theorems of section 7 hold without any of these limits.
Thread and worker symmetry is used in the safety runs `ipc_safety` and `stats`
only, where threads differ in nothing but their name.

**Fairness, and why the code justifies it.**
`Ipc!FairSpec`: a thread inside a call is scheduled and its `poll()` has a
deadline (`ClientFairness`); every worker has its own thread and polls with a
deadline, and the accept loop does nothing but accept (`DaemonFairness`).
Nothing is assumed of who gets the mutex, of crashes, restarts or new calls.
The thread of `WriteBlocks` is helped by the worker's reads or by the closing
of its end, not by fairness of its own.
`AutoLearn!FairSpec`: the watcher and the thread in `Stop` run. That time
passes is *not* part of it, but the premise `TimePasses` of the liveness
property that needs it; `StopReturns` needs none, which is its point: `Stop`
does not wait for the poll interval. `SF` on `Timeout` because spurious
wake-ups go back to the *same* absolute deadline of `wait_for`.
`Wire!Spec`: as long as bytes can be moved or a whole part has been read, the
loops go on (`Moves`). Sending and giving up are not fair.
`Lifecycle!Fairness`: some process, command or launchd goes on when one can
(`Progress`), and an accept loop with a connection accepts (`Accepts`). Crashes,
commands, failing calls and starts by hand are not fair, and bounded; hanging
up is not fair either. `MenuBar!AllFairness` adds that every poll comes to
its end and the timer polls again (the calls have timeouts); nobody is made to type.
`Pipe!FairSpec`: the accept thread runs, and a worker whose client has gone
ends. Clients are not fair; `StopEnds` has the premise that they rest, because
the code prefers a client's event to the shutdown's.

## 6. Where code and documentation disagree

One disagreement is a run that TLC ends with a counterexample
(`findings` in `PROJECT.json` has the quotations):

* `ipc_sigpipe_kills`. `client.h` promises that every failure collapses to
  `std::nullopt`. `WriteAll` on a connection the daemon has closed raises
  SIGPIPE, and only the daemon ignores it; a host with the default disposition
  is killed by its next call after the daemon went away
  (`HostSurvivesCalls` is violated).

Others were seen while modelling. The models contain the behaviour, and the
properties are stated so that they say what does hold:

* Entries stored while a round runs count as learned, because the history is
  counted *after* the round (`auto_learn.cc:183`), and wait for the next
  commit; `auto_learn.h:13-17` has a round run whenever there are new entries
  (`WaitingEntriesLearned` is about the others).
* Each round announces all words of the scanned history again, not only new
  ones (`auto_learn.cc:205`, `:241`).
* `RecordCommit` waits for the mutex another thread holds while it awaits a
  reply (`client.cc:170`); `client.h:8-9` says that it never blocks on one.
* `write()` on a blocking socket with a full buffer is ended by no deadline
  (`endpoint_unix.cc:97`); `endpoint.h:36-37` and `client.h:5` say otherwise.
* `ngram.h:36-38` and `user_dict.h:30-33` promise atomic writes; with the fixed
  temporary name two processes that save one file at once may publish a
  mixture (`ImplementsAtomicFiles` holds until then). Both saves return true.
* `ngram.h:40-41` has `Load` leave an empty table on a corrupt file; a truncated
  one leaves what was read before its end.
* `ngram.h:50-52` says that bigrams are counted within each committed text; the
  code chains across commits that follow each other without a pause, and so does
  `NewWords!Bigrams`.
* `git_sync.h:47-48` has nothing to commit be no commit; `CommitAll` creates
  an empty one.
* The notification says of all words a round has found that they take effect
  the next time the input method is switched (`auto_learn.cc:241-242`). Words
  without a code are among them and get no row in RIME's dictionary
  (`user_dict.cc:141`), with nothing having failed; and the result of
  `WriteRimeDictYaml` is dropped, so after a failure the others may be missing
  too. `AnnouncedDeployed` is therefore about the words that have a code, until
  such a failure.
* A read of the history that fails passes for a shorter history
  (`history_store.cc:94-96`, `:98`), and the round overwrites the files with what
  it got. `FilesNeverShrink` and `NeverOlder` are about the other rounds.
* The menu is to be kept in sync with the backend (`MenuBarController.swift:12-14`),
  but `stats` reports the model version of the last rerank (`server.cc:70-71`,
  `:115-116`), 0 at the start of a process, which the CLI prints as "mock"
  (`cli/main.cc:464-469`). After a start, resume or setup the menu therefore shows
  the mock until somebody types (`MenuSettles` says so). An MLX reranker that is
  not ready answers with the fallback's version.
* A reply is called a permutation (`types.h:38`, `dafeng_rerank.lua:11`); the
  plugin does not check that it is one, and offers a candidate twice that the
  reply names twice.
* `dafeng-cli learn` adds the whole history to the saved table again
  (`CountsExplained` says by how much), and the daemon's next round undoes it.
* `pause` prints "daemon stopped" after three seconds whether it has stopped or not.
* Two daemons take the socket's name from each other, and the one that ends
  last takes it away (`AloneReachable` is about a daemon that has been alone).
* `setup` bootstraps once, right after `bootout`, and may be refused; `resume`
  retries.
* On Windows a client that connects early and leaves at once makes
  `ConnectNamedPipe` fail with ERROR_NO_DATA, and Accept, and with it the
  daemon, ends (`endpoint.h:42-43`: only for Shutdown or an unrecoverable
  error). Before the first accept, and between two when the last client has
  left, there is no instance, so "there really is no server"
  (`endpoint_win.cc:315-316`) may be said of a daemon that runs. For the same
  reason a second daemon may start then. Clients that never pause hold a
  shutdown off.
* Malformed frames are not counted as errors (`types.h:79`).
* `MenuBarController.swift:174` speaks of `pgrep`; the code runs `ping`, so a
  daemon that loads its model is shown as paused.
* A deployment may start after the user has begun to type again.

## 7. The proofs

`tlapm` checks all of them with no gaps. The theorems hold for every
value of the constants, under the named assumptions of the modules: any number of
threads, workers, processes, clients or shells, any `IdSpace >= 1`,
`Room >= 1`, `Parts >= 1`, any bounds, any set of faults, SIGPIPE ignored or
not. (`MaxEntries <= 5000` in `AutoLearn` is the limit of what the model is of.)

| module | theorem | statement |
|---|---|---|
| `IpcProofs` | `Inductive` | `Spec => []IndInv` |
| | `TypeCorrect`, `AnswersCorrect`, `OneReply`, `Framing`, `LoggedOnce` | `Spec => []` of `TypeOK`, `AnswersOwnCall`, `OneReplyOwed`, `FramingInSync`, `RecordedOnce` |
| | `Refines` | `Spec => Service!Spec`: client, stream and daemon implement `RerankService` |
| `DaemonProofs` | `Inductive`, `TypeCorrect`, `Replies`, `Snapshots`, `Quiet` | `Spec => []` of `StatsInv`, `TypeOK`, `RepliesCounted`, `SnapshotsCoverReplies`, `QuietExact` |
| | `Monotonic` | `Spec => CountersMonotonic` |
| | `PipeInductive`, `PipeTypeCorrect`, `Attended` | `PipeSpec => []` of `PipeTypeOK /\ PipeInv`, `PipeTypeOK`, `ListenersAttended` |
| | `EarlyClientsServed` | `PipeSpec => NobodyTurnedAway` |
| `AutoLearnProofs` | `Inductive`, `TypeCorrect`, `RoundsPaidFor`, `Announced` | `Spec => []` of `LearnInv`, `TypeOK`, `RoundsNeedEntries`, `AnnouncedDeployed` |
| | `FilesGrow` | `Spec => FilesNeverShrink` |
| `RerankedOrderProofs` | `Inductive`, `TypeCorrect`, `EveryCandidate`, `Protection`, `NoCopies`, `OrderReachesUser` | `Spec => []` of `OrderInv`, `TypeOK`, `NothingLost`, `ProtectedStay`, `NoneTwice`, `ReplyRespected` |
| | `OrderKept`, `BestComesFirst`, `UnscoredAsBefore` | `AllSpec => []` of `OrderInv`, `BestFirst`, `UnscoredUntouched` |
| `LearnFilesProofs` | `Inductive`, `TypeCorrect`, `Copies`, `HeadCurrent`, `Counts` | `Spec => []` of `TypeOK /\ FilesInv`, `TypeOK`, `CopiesWhole`, `HeadIsCurrent`, `CountsExplained` |
| | `Atomic` | `Spec => Abstract!Spec`: the saves implement `AtomicFiles` |
| | `Newer` | `Spec => NeverOlder` |
| `LifecycleProofs` | `Inductive`, `TypeCorrect`, `Reachable`, `Current` | `Spec => []` of `IInv`, `TypeOK`, `AloneReachable`, `LoadedIsCurrent` |
| | `MenuInductive`, `MenuTypeCorrect`, `StatsTruthful`, `MenuBreaksNothing` | `AllSpec => []` of `IInv /\ MenuIInv`, `AllTypeOK`, `Asked \in {"none", Mock, Running}`, `AloneReachable /\ LoadedIsCurrent` |
| `WireProofs` | `TypeCorrect`, `NothingBetween`, `SameVersionHolds` | `Spec => []` of `TypeOK`, `Arrived /\ InFlight`, `SameVersion` |
| | `ChannelImplemented` | `Spec => Channel!Spec`: the framing implements `FrameChannel` |
| `NewWordsProofs` | `RoundExplained`, `TypeCorrect`, `CountsCorrect`, `BigramsCorrect`, `CodesCorrect` | `Spec => []` of `IInv`, `TypeOK`, `CountsExact`, `BigramsAgree`, `CodesExplained` |

**Ipc.** That a call gets its own answer is not inductive: a late reply
already in the stream would break it. `OneReplyOwed` says that there is none: what
the live connection owes it owes to the thread that waits. That in turn needs
who is where in a call (`LockDiscipline`), which connections exist and what
their workers hold (`ConnDiscipline`), and, for `RecordedOnce`, that every call
is in at most one place: with its thread, at one position of one stream, with
one worker, or in the log (`OnePlace`). `FramingInSync` stands beside them: a
torn frame ends its stream. `IndInv` is their conjunction, and each
action preserves each part by a lemma of its own. For the refinement, the
commits offered and not yet logged or lost are those with a thread, in a stream
or with a worker (`OfferedParts`); every step moves one among them, which is a
stutter of the service, or loses or logs it, which is a step of it.

**ServerStats.** `RepliesCounted` follows from what a worker has done so far:
an update of its message is either still in `todo` or in the counter
(`Underway`). `SnapshotsCoverReplies` needs that what a snapshot has read
covers `floor`, and that the counters do too, so what is yet to be read will
(`SnapshotsUnderway`). For `QuietExact`, `Tallied` names the message
behind each counted rerank and behind the maximum: its worker is either
still busy with it or has handled it.

**AutoLearn.** `RoundsNeedEntries` needs that a round is entered only with
more entries than the last count, and that the second count of the round sees them
(`RoundDiscipline`). `FilesNeverShrink` needs `ScansCover`: a round whose reads
were whole, and that had wubi's dictionary, has all that the files hold,
whatever earlier rounds got, because all of that is of the same history.
`AnnouncedDeployed` needs `DeployCovers`: what is deployed is what this round
wrote, and this round found all that was announced before. Both hold across
processes because the files survive them, and there is one watcher at a time
(`RunnerDiscipline`).

**ComputeOrder.** The theorems hold for any integers as options and reply and
any number of candidates. `Emitting` says what is out at each place: the
protected prefix first, then members of the block, which are those in `emitted`
and, in the second loop, those before `i`; at its end they are the whole
block. `NoneTwice` needs that nothing emitted is still to come in a reply
without repetitions (`Unrepeated`), and `ReplyRespected` that a permutation is
followed index by index and leaves the second loop nothing to do
(`Following`).

**RerankedOrder.** That the sort of `k` scores is a permutation of the `k`
indices is proved from `Place`: the place of a candidate is one more than the
number of those before it, `Before` is a strict total order, so places are distinct
and fill `1..k`. With `ReplyRespected` the block is the sorted
order, whatever is protected before it.

**LearnFiles.** `FilesInv`: a stream is open exactly while a file is being
written (`StreamDiscipline`); a file never shared has one writer, whose parts
so far are all of its own version (`OneWriter`); so what it renames into place
is whole, and so is what git and RIME copy (`AllSound`). A step maps to
`Publish` or `Spoil` of `AtomicFiles`, or to a stutter. The last three theorems
are about rounds that did not overlap: then one process at most is in a round
(`Alone`), and what it found when it began is what it replaces. `Tidy` says
where temporary files may be, `Tallies` bounds the counts in the saved table and
in the one being made, and `Ages` says that a round that has read the whole
history has all the entries of the file it is to replace, which is why `NeverOlder`
needs no premise about earlier rounds.

**Lifecycle.** `NameInv` ties the name to processes: if a process has been
alone since it started, then from its bind on the name leads to it. `CmdTypes`
bounds the loops; `LoadedIsCurrent` is inductive beside it, since `setup`
writes the plist before it boots the label out.

**MenuBar.** Its steps are steps of `Lifecycle` or leave that alone, except one:
a command that overshoots its timeout ends where it is (`OvershootKeeps`). That breaks
nothing, because the script of `setup`, once it has rewritten the plist, is
not ended with it. `MenuInv` says that a click has polls to come while one runs, so that
their count does not fall below zero, and that what is to be shown is one of the
menu's states; a process that serves reports its own backend or the mock
(`StatsTruthful`), never that of the one before it.

**Pipe.** `PipeInv` gives every instance one owner and every client one
instance; that an accept thread holds an instance only while it attends to it gives
`Attended`, and that it closes one only after a shutdown or a failed call gives
`EarlyClientsServed`.

**Wire.** For any messages and any bodies of other versions, any cap and any capacity.
Three facts of the data come first. `RoundTrip`: no type has a field twice or one
named like the header (`FieldsDistinct`), so of what `EncodeBody` packs
`DecodeBody` finds each value under its key. `DecodesMeaning`: for any bytes at all
it finds what `Meaning` says; the first pair with a key exists because a
nonempty set of numbers has a least one (`LeastExists`). `LengthWritten`,
`LengthRead`: four bytes and the length they stand for determine each other.
Then `FrameUnique`: from the same bytes no two different frames can be read.
The invariant says where the bytes are: what stood before the body being read,
what is read of it, what is in the connection and what is still to write begin
the frames of the bodies not handed on yet, and are all of them while the
sender is there (`InFlight`); what was handed on are the first bodies, decoded
(`Arrived`). A read or a write moves bytes inside that stream and changes
nothing of it; a body read is the first frame of it, which is then taken off; a sender
that stops cuts its end off. `SentArrives` stays with TLC.

**NewWords.** For any commits, any dictionary, any window, any pause and any
clock. `IInv` says that the table of a round is what `Bigrams` makes of a scan
of the rows there were when it was read, and the words what `Discovered` makes
of a scan of the rows there were when *they* were found, encoded or not
(`TableExact`, `WordsExact`); a commit in between adds a row behind both and
disturbs neither. It is needed because the properties compare two reads of a
history that has changed since. That `IInv` gives the properties is a matter of
the algorithms. A loop over rows has its value after each row, by induction on
the rows (a set of numbers with 0 and with each successor; `Induct`). In
`UpdateBigramsFromHistory` the table after row `i` has each pair as often as it
was typed up to there (`TallyOfRow`). In `Discover` each character of the scan
has a spot of its own in the runs, and stands right before another exactly if
that was typed right after it (`Placed`, `ChainOfRow`); so phrases and grams
match one to one (`OneGram`, `GramIsPhrase`), and a text is found as often as it
was typed (`FoundAsTyped`): `CountsExact`. For two characters that is the count
of the other loop (`UsesOfPair`, `PairCounts`): `BigramsAgree`, for which scans
must be the same (`OneScan`: no two rows of one time) or the second an extension
of the first (`ScanOfRising`). For `CodesExplained`, the code of a gram is taken
only if each of its characters was a row of its own, and these rows follow each
other (`PhraseIsGram`); whichever gram is best (`BestExists`, a finite set with
an order has a first), it is one that was typed. `PhraseEncoded` has the
canonical codes key by key.

**Only model-checked:** all liveness (the provers do not do ENABLED and
fairness), `MenuSettles` among it.

## 8. What is not modelled, and why

* Deadlines as numbers. Every wait may end at any time; what is left of a
  budget after a wait for the lock is not in the model.
* The contents of candidates and contexts, MessagePack's encoding, the binary
  format of the n-gram table, the text of the YAML files.
* `l_rerank` pushes all candidates on Lua's stack without `luaL_checkstack`
  (`dafeng_lua_bridge.c:86-89`), which matters when `max_rerank` is set far above
  its default; the size of that stack is not in the model.
* Model versions beyond the four the CLI knows, which it prints as "unknown".
* The scores of the rerankers (floating point, llama.cpp, MLX): any score is
  possible.
* `Prune` and `Vacuum` of the history, which the daemon does not call; `Push`,
  which is never enabled; `PeekMessageType`, `TopFollowers`, `FullCode`,
  `HasChanges`, which tests alone call.
* `first_seen_us`, `last_seen_us` and the order of the words in a file; the sentinel
  file of `RequestRimeRedeploy`, which nobody reads.
* The plugin's commit hook and its clipping of the context, the Inspector's
  views and readers, logging, paths, parsing of command lines, and scripts
  that copy files: no state that two steps could disagree on.

## 9. What is left

1. `ClientTiming`: what a call's deadline bounds, with a clock.
2. The plugin's commit hook, with what it drops before a commit reaches the client.

No module with a proof, and none it uses, has a `RECURSIVE` operator: loops
are recursive functions.

## 10. Running it

    tlc -config MCIpc_safety.cfg MCIpc.tla      # any run of PROJECT.json
    tlc -config LearnFiles.cfg LearnFiles.tla
    tlapm LearnFilesProofs.tla                  # any *Proofs module
