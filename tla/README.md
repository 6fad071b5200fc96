# floyd in TLA+

floyd is a Raft library in C++ (`src/floyd/`): a cluster of servers keeps a
replicated log in RocksDB and applies it to a key-value store with locks.
This directory holds TLA+ models of its parts, the TLC runs that check them on
small instances, and TLAPS proofs for instances of any size. The models are
written from the source; where the source departs from Raft, so do they.

| file | what it is |
|---|---|
| `FloydRaft.tla` | the core: elections, replication, commit, apply, restart |
| `ClusterContract.tla` | what a cluster promises its clients; `FloydRaft` with one candidate implements it, with all its servers up to two |
| `FloydTimers.tla` | heartbeats against election timeouts, in time |
| `RaftLog.tla` | the log on RocksDB, access by access |
| `LogContract.tla` | what the rest of floyd relies on in `RaftLog`; `RaftLog` implements it |
| `FloydApply.tla` | the replicated state machine: keys, locks, members, and the answers read from them |
| `FloydCommand.tla` | a command from the client's call to its answer: redirects, the connection pool, the workers |
| `FloydMessages.tla` | the message classes as tables |
| `FloydProto.tla` | what becomes of a message that is built, serialized, parsed and copied |
| `MC*.tla` | symmetry sets for TLC |
| `FloydRaftProofs.tla`, `FloydTimersProofs.tla`, `RaftLogProofs.tla`, `FloydApplyProofs.tla`, `FloydCommandProofs.tla` | theorems and proofs, one module per model |
| `FloydReplicationProofs.tla`, `FloydCommitProofs.tla` | more theorems about `FloydRaft`: replication; commit, apply and answers |
| `IndexFacts.tla` | lemmas about sets of indexes that several of them use |
| `*.cfg` | one file per run |
| `PROJECT.json` | components, runs, mutants, the map from definitions to source lines, findings, hazards, theorems |

Check with `tlc -workers 2 -config Election.cfg MCFloydRaft` (and likewise for
the other runs of `PROJECT.json`) and `tlapm FloydRaftProofs.tla` (and likewise
for the other proof modules).

## 1. The system

### Components

| component | state | operations |
|---|---|---|
| `FloydContext` | `current_term`, `role`, `voted_for`, `leader`, `vote_quorum`, `commit_index`, `last_applied`, `members`, `last_op_time`; the locks `global_mu`, `apply_mu` | `RecoverInit`, `BecomeFollower`, `BecomeCandidate`, `BecomeLeader` |
| `FloydImpl` (RPC handlers) | `vote_for_`, a map from term to candidate, in memory only | `ReplyRequestVote` with `GrantVote`, `ReplyAppendEntries`, `AdvanceFollowerCommitIndex` |
| `FloydImpl` (commands) | the client thread's own | `DoCommand`, `ExecuteCommand`, redirect to the leader |
| `FloydImpl` (life cycle) | the databases, all threads | `Init`, `InitPeers`, the destructor |
| `Peer`, one per other member | `next_index_`, `match_index_`, `peer_last_op_time`, a task queue and its thread | `RequestVoteRPC`, `AppendEntriesRPC`, `CheckAndVote`, `UpdatePeerInfo`, `QuorumMatchIndex`, `AdvanceLeaderCommitIndex` |
| `FloydPrimary` | a queue of immediate and of delayed tasks | `LaunchCheckLeader`, `LaunchHeartBeat`, `LaunchNewCommand`, `NoticePeerTask` |
| `FloydApply` | `db_`, the apply thread | `ScheduleApply`, `ApplyStateMachine`, `Apply`, `MembershipChange` |
| `RaftLog` | the entries in RocksDB, `last_log_index_` | `Append`, `GetEntry`, `GetLastLogTermAndIndex`, `TruncateSuffix` |
| `RaftMeta` | term, vote, commit index, applied index on disk | getters and setters |
| `ClientPool` | a connection and a mutex per server | `SendAndRecv`, `GetClient`, `UpHoldCli` |
| `FloydWorker` | the server's worker threads | `DealMessage` |
| locks | lease and holder, as values in `db_` | `TryLock`, `UnLock` |
| membership | `members`, the peers, a key in `db_` | `AddServer`, `RemoveServer`, `AddNewPeer`, `RemoveOutPeer` |

### How they interact

* The **primary thread** finds the leader silent, makes its server a candidate
  and queues a `RequestVote` task with every peer thread. A leader's primary
  thread queues an `AppendEntries` task with every peer thread per heart beat
  and per new command.
* A **peer thread** takes one task at a time, builds a request under
  `global_mu`, gives the lock up, blocks in `SendAndRecv`, takes the lock again
  and acts on the answer. `AppendEntriesRPC` reads the entries after it has
  given the lock up.
* A **worker thread** of the receiving server serves the request under
  `global_mu`. `ReplyAppendEntries` cuts the log off, appends to it, sets the
  commit index and saves it, one after the other.
* The **apply thread** is scheduled whenever `commit_index` is set. It copies
  `last_applied` and `commit_index`, applies one entry after the other and
  counts the whole batch at the end. It takes no part in `global_mu`: it reads
  the log and the commit index also while a handler is between its writes.
* A **client thread** copies the leader under `global_mu`, then, without the
  lock, appends its entry to the log and waits up to a second for
  `last_applied` to reach its index. In single mode it sets `commit_index`
  itself.
* A call at a server that does not lead is **redirected**: the client thread
  sends the request through `ClientPool` and blocks; a worker of the other
  server runs `DoCommand` itself, and may redirect again. The peer threads use
  the same connections and mutexes, and the same worker answers them.
* **Disk**: term and vote, the commit index, the applied index and the log are
  written as they change; `vote_for_`, `next_index_`, `match_index_`, the
  queues and the client threads are lost in a crash.

### What is hard here

* Whatever a peer thread read before it blocked may be stale when the answer
  comes: the role, the term, `next_index_`, the log. A queued task runs in
  whatever term and role its server has by then.
* Answers and requests are lost, come late, or belong to an earlier candidacy;
  a request given up by its sender may be served after a newer one.
* Client threads append to the log outside `global_mu`.
* A crash comes between two writes, or in the middle of a batch; the apply
  thread looks at the log between two writes of a handler.
* Replication goes on only through chains of heart beats and tasks.

`PROJECT.json` lists these hazards, each at its line.

### What makes each part correct

* Elections: a leader holds a majority of its term's votes; a server votes once
  per term; a term has one leader.
* Replication: logs are prefixes of the leader's; what is taken for replicated
  at a peer, or for committed, is so; a commit index does not go back.
* Apply: all servers, and every replay after a crash or a failure, apply the
  same entry at an index; what counts as applied has been applied.
* Commands: what was answered ok is applied and on a majority; what was
  appended by a lasting leader is applied everywhere in the end; a command is
  executed at most once, its answer reaches the right caller, and every call
  and every worker comes back although they wait for each other.
* Persistence: what a restart reads is what the server had acted on.
* The log: its last index matches its keys through failing writes and crashes;
  callers may take its operations for atomic.
* State machine: the store, the members and the peers are those of the log;
  reads see what was answered before; locks are exclusive while their lease
  lasts.
* Timers: a live leader is not given up, a silent one is.
* Messages: what is read is what was written; what is accepted is complete.
* Not stated: majorities follow the membership.

## 2. The models

Each module models its part in full and takes the others by what they promise:

| module | takes from | what |
|---|---|---|
| `FloydRaft` | `RaftLog` | a log with atomic operations: `LogContract`, which `RaftLog` is shown to implement |
| `FloydRaft` | `FloydTimers` | nothing: a leader check or a heart beat may come at any time |
| `FloydApply` | `FloydRaft` | one committed log, of which a server learns in order: the order of `ClusterContract`, which `FloydRaft` with one candidate is shown to implement, with both of two servers and in a larger cluster with its leader (section 3 has what a third server may do) |
| `FloydCommand` | `FloydRaft` | leaders follow each other in increasing terms, as they do for servers that no denial takes back |
| all | `FloydProto` | a message is received as it was sent |

### `FloydRaft`: state

One variable per field, indexed by server: `currentTerm`, `role`, `votedFor`,
`leader`, `voteQuorum`, `commitIndex`, `lastApplied` (`FloydContext`),
`voteFor` (`vote_for_`), `nextIndex[i][j]`, `matchIndex[i][j]`, `tasks[i][j]`
(the `Peer` of `i` for `j`), `log` (`RaftLog`), `metaTerm`, `metaVotedFor`,
`metaCommit`, `metaApplied` (`RaftMeta`). `applied[i]` is what was applied to
`db_`, as a set of index and entry; `batch[i]` are the locals of
`ApplyStateMachine` while it runs. `cmds[c]` is the thread that executes
command `c`. `call[i][j]` is where the peer thread of `i` for `j` stands: idle,
header built, request sent, being served, answered. `late` are requests of failed
calls that may still be served. `mu[i]` is `global_mu` of `i`: free, or how far
the thread has got that holds it across several steps, and the request it is
serving.

`grants` and `fellBack` are history variables: all votes ever given, and the
servers whose term a denial took back. No action reads them.

A command is a model value, an entry is a term and a command. Ips and ports are
a server, or `Nil` for the empty address.

#### Actions

One action is one critical section of `global_mu`, or one step of code that
runs outside it. Two critical sections are cut further, where the apply thread,
which does not take the lock, can look in between, or where a crash in between
shows: `ReplyAppendEntries`, and the advance of the leader's commit index.
While `mu[i]` is not free no other critical section of server `i` begins; the
apply thread, the client threads, the loop that reads entries for a request,
crashes and the caller's timeout go on.

| action | code |
|---|---|
| `LaunchCheckLeader` | `FloydPrimary::LaunchCheckLeader`: the candidacy, or in single mode leadership at once |
| `LaunchHeartBeat` | `LaunchHeartBeat` and `LaunchNewCommand`, which queue the same tasks under the same condition |
| `RequestVoteRPC`, `RequestVoteReply` | `Peer::RequestVoteRPC` before and after `SendAndRecv` |
| `AppendEntriesSkip` | the early return of `Peer::AppendEntriesRPC` |
| `AppendEntriesRPC`, `AppendEntriesRead`, `AppendEntriesReply` | its first critical section; the loop outside the lock; the last critical section |
| `ReplyRequestVote` | the handler of `FloydImpl`, every branch |
| `ReplyAppendEntries`, `AppendReceived` | the handler up to the first `TruncateSuffix` with its two early returns; the comparison of terms with the second `TruncateSuffix`, and `Append` |
| `AdvanceFollowerCommitIndex`, `SaveFollowerCommitIndex` | the assignment of `commit_index` when it differs from the leader's; `RaftMeta::SetCommitIndex` and the answer |
| `SaveLeaderCommitIndex` | `SetCommitIndex` after `AdvanceLeaderCommitIndex`, which is part of `AppendEntriesReply`, has assigned it |
| `SendAndRecvFails` | a failed or timed out `ClientPool::SendAndRecv`; its request may stay behind |
| `ApplyStateMachine`, `Apply`, `ApplyFails`, `SetLastApplied` | the start of `ApplyStateMachine`, a turn of its loop, the retry when `Apply` fails, its end |
| `DoCommand`, `BuildLogEntry`, `ExecuteCommand` | the leader test; the read of `current_term`; `RaftLog::Append` |
| `CommitSingle`, `RereadCommitIndex`, `SaveCommitIndex` | the unlocked writes of single mode |
| `CommandApplied`, `CommandTimeout` | the two ends of the wait |
| `Restart` | a crash between any two of these steps, followed by `Init`, `RecoverInit` and `InitPeers`; a call that was being served there fails |

Departures from textbook Raft that the model keeps because the code has them:
a denial makes a candidate a follower in the *answer's* term;
`vote_for_` does not know the candidate's vote for itself, and is not saved;
votes are counted per answer; `ReplyAppendEntries` cuts off everything after
`prev_log_index`, also where it agrees, and sets the commit index whenever it
differs from the leader's, also downwards; the role is not tested when a
request is built, nor the request's term when its answer comes; and the commit
rule looks at the term of the last entry of the request.

#### Abstractions

* **Clocks.** `last_op_time` is in `FloydTimers`; here the leader check of a server in
  `Electable` may find its leader silent at any time, and `AppendEntriesSkip`
  may happen whenever there is nothing to send. This allows more behaviours
  than the code has, never fewer.
* **`Electable`** restricts who may stand. With one member it describes a
  cluster in which the other servers never time out, which is the regime in
  which the replication properties hold (see the violations below).
* **Network** (external: `pink`). A call is synchronous, and at most one per
  ordered pair of servers. A request is served at most once. The queue of a
  peer thread is cut at `MaxTasks`: a task beyond it is one whose call cannot
  connect.
* **RocksDB** writes of the log and the metadata succeed; `RaftLog` is the
  sequence of `LogContract`.
* **Membership** is constant, and commands are issued at the server that takes
  itself for the leader.
* **Writes taken together.** A change of term or vote and its three `Put`s are one
  step (`SetMeta`), and in `ReplyAppendEntries` so is the first cut of the log: a
  crash in between would lose a term that no other server has seen yet, or save
  a term without the vote. The assignment of `last_applied` and its `Put` are one
  step (`SetLastApplied`): both are under `apply_mu`, and so are those who read
  it. The entries of a request are read in one step (`AppendEntriesRead`), while
  the code reads them one by one, which differs only when the sender's own log is
  cut off meanwhile.

### `ClusterContract`

The abstract specification of a cluster, in the terms of those who use it:
`issued` and `answered` commands, the `order` on which the servers agree, and
the `store` of each, commands by their place. `Commit` lets the order grow by
commands that were issued and have no place yet; `Apply` lets a server apply the
command at a place up to which it has applied everything, for the first time or
again; `Answer` lets a command be answered ok that some server has applied.
There are no terms, logs, messages or crashes, and nothing is ever taken back.

`ImplementsCluster` says that `FloydRaft` behaves like this. Its refinement
mapping, at the end of the properties of `FloydRaft`, takes a command as issued
once `DoCommand` has let it in, and as the order the commands in the log of
the server that stands (`Leading`): what is written there keeps its place, also
when a crash takes a commit index back that was assigned and not saved. `Store`
is what the servers in `Reliable` have applied: all of them when they are at most
two, and in a larger cluster the one that stands, because a third server may
apply an empty entry (section 3). A command that was given up
(`CommandTimeout`, a crash) may still enter the order.

### `FloydTimers`

A server that leads again and again, and its followers, in discrete time.
`beats` are the delayed `kHeartBeat` tasks, one per chain; a chain is started by
every election and ends when its task finds the server not leading. `queued`,
`busy`, `sent` and `behind` are the peer thread of each follower: its queue,
whether it waits for an answer, the age of `peer_last_op_time`, and whether
`next_index_ <= last_log_index`. `sinceOp` and `check` are the age of the
follower's `last_op_time` and the time to its next `kCheckLeader` task. `heard`,
`unheard` and `misses` are history.

`LaunchHeartBeat`, `LaunchNewCommand` and `LaunchCheckLeader` are those of
`FloydPrimary`; `AppendEntriesRPC` is the first half of the RPC with the test
that skips it; `ReplyAppendEntries`, `RefuseAppendEntries` and
`MissAppendEntries` are its three outcomes, the follower's handler included.
`Tick` lets time pass when nothing is due: threads are punctual, and a call that
does not fail takes at most `Delay`. Ages are kept up to the age at which the
code stops telling them apart. `standing` are the followers that have stood: a
candidate that is denied a vote falls back without touching `last_op_time` or
its chain of checks, and so will stand again; the model does not tell the two
apart.

### `RaftLog` and `LogContract`

`db` are the index keys and who wrote them, `meta` the keys of `RaftMeta` in the
same database. `last_log_index_++` and `--` are a load and a store, each an
action of its own; `Append` holds `lli_mutex_` from `AppendBegin` to
`AppendWrite`, `TruncateSuffix` takes no lock, `GetLastLogIndex` neither, and
`GetEntry` waits for the mutex (`EntryReadable`). A write batch is written as a
whole or fails. `Restart` is a crash at any moment and the constructor, which
steps back five keys; `MetaInit` writes the five keys of the first start one at
a time, so that a crash can come between them. (With fewer keys than five the
constructor calls `Prev()` on an iterator that is no longer valid, which leaves it
so, or ends a debug build, which then starts again; the model has index 0.) `Overlap` says whether a client
thread may append while the worker cuts off.

`LogContract` is the abstract specification: a sequence, an `Append` and a
`TruncateSuffix` that take effect at once, restarts that change nothing, and
the two ways a failing disk shows (a failed `Append` answers the old index; after
a failed `TruncateSuffix` a restart promises nothing). `KeepsContract` is the
refinement. Its mapping shows the log as long as it was before the call under
way, so that the call takes effect with its write.

### `FloydApply`

The committed log is one sequence; `batch` is the apply thread of every server.
A key of `db` holds nothing, a plain value or a lock, as in the code, where they
share the keys and `Lock::ParseFromString` of a plain value gives the defaults;
`nodes` is the list under `#MEMBERCONFIG`, `members` and `peers` are what the
memory makes of it. `Apply` is one turn of the loop with the whole of
`FloydApply::Apply`: the key by `ApplyToKey`, membership by `MembershipChange`
and then `members` and the peers, in one step: a crash in between loses only what
is built again from the list. (After a removal the loop of `MembershipChange`
goes on to the old count and reads one node past the end, a string that
`RemoveLast` has cleared; this read is left out.) `ExecuteCommand` appends the entry that
`Build*Request` and `BuildLogEntry` make, `Answer` is the switch that reads `db_`
after the wait. `Restart`, `ApplyFails` and `Timeout` are the faults, `Turn`
moves the leadership, `Tick` the clock. The clocks of all servers agree; that
they decide differently all the same is a matter of when they apply.

`reached[i]` is history: the highest index server `i` ever applied, above
`lastApplied` while a batch that failed or was cut off is applied again.
`ReadIsFresh` speaks of a `GetAllServers` answer server by server: see section 3
for why it cannot speak of the list.

### `FloydCommand`

`task[th]` is where a client thread or a worker is inside
`DoCommand`, `SendAndRecv` and `ExecuteCommand`: every point at which it may
block or be overtaken is a stage. `mu`, `conn`, `inbox` and `outbox` are a
`Client` of the pool: its mutex, the number of its connection, and what was sent
and not read in either direction. A closed connection takes unread answers with
it, while a request sent on it may still be served or be lost. `Return` is the
end of `DoCommand` in both callers; a response whose code nobody set reads as
`kOk`, as in the generated accessor. `Replicate` needs the mutex and an idle
worker at the follower, since append requests use the same; that the peer thread
then holds both for the time of its call is left out, and only delays others.
What the servers believe of the leader (`leaderIp`, `term`) changes at any time,
with terms that only grow, which is what `FloydRaft` says of servers whose term
no denial took back. (With terms that are taken back again and again TLC finds
`CallsReturn` violated: a command whose client has given up is redirected back
and forth for ever, and each time overtakes a thread that waits for the same
mutex.)

A client makes one call, and each server has one worker, which is how `pink`
runs the server thread. The kinds of command are two, those with a preset code
(`kv`) and those without (`member`).

### `FloydMessages` and `FloydProto`

Each of the sixteen classes of `floyd.pb.cc` has its own code for each
operation, and `FloydMessages` has a table for each of them, taken from that
code: defaults, the cases of the parser, the order of the writer, what `Clear`
resets, `ByteSize` counts, `MergeFrom` copies and `IsInitialized` asks for.
`FloydProto` gives the operations that the classes share in form. It builds a
message by accessor calls, serializes it, lets the bytes be cut short or come
from a newer version (an unknown field, an unknown enum value), and parses them
into an object that held another message, as `request_` of a connection does. A
wire is a sequence of fields with number and wire type; sizes count the bytes of
tags, lengths and values. `WireType`, `VarintSize`, `SerializeToString` and
`ParseFromString` are of the protobuf library and modelled from their use.


## 3. What the runs check

Each property has a mutant: a plausible slip in a definition that models code,
under which TLC finds the property violated in the same run.

### `FloydRaft`

Bounds: `MaxTerm` candidacies, `MaxTasks` queued tasks per peer, `MaxBeats`
heart beats and new-command tasks, `MaxFails` failures of calls or of `Apply`,
`MaxLate` requests left behind, `MaxRestarts` crashes. `BatchSize` is
`append_entries_count_once`; 1 makes entries travel one by one, which is where
indexes go wrong. These runs are bounded, and so they stop: deadlock is not
checked. Symmetry permutes the servers inside and outside `Electable`, and the
commands; it is not used for liveness.

| run | instance | shows |
|---|---|---|
| `election` | 3 servers, 2 stand, 2 terms, a failed call | `LeaderWasElected`, `OneVotePerTerm`, `OneLeaderPerTerm`. Two terms let votes and denials of one candidacy arrive in the next; three servers are the least in which two candidates share a voter. |
| `turns` | 2 servers that both stand, 3 terms, a command, a failed call, a late request | `TypeOK`, `OneLeaderPerTerm`. Three terms are the least in which a server leads, follows and leads again, so that requests left behind in one reign are served in another, and a former leader's entry is missing at the peer when it leads again (`next_index_` is taken back). |
| `recovery` | 2 servers, 1 stands twice, 2 commands, 2 crashes | `ImplementsCluster`, that the cluster of two implements `ClusterContract`, and `StateMachineSafety`, `NothingForgotten`, `CommitIndexNeverDecreases`. Two commands make a batch that a crash can cut in two; two crashes hit both servers, or one twice, also between `TruncateSuffix` and `Append` and between a commit index and its save. |
| `lossy` | 3 servers, 1 stands, 2 commands, a failure | `LogsFollowLeader`, `CommittedOnMajority`, `MatchIndexSound`, `AckedOnMajority`. A follower can be one or two entries behind while the other carries the commit, and the repeated request cuts off what the follower has before it appends it again. |
| `single` | single mode, 3 commands, a crash | `AckedIsApplied`, although the threads race for `commit_index`. (`ImplementsCluster` holds on this instance as well.) |
| `live` | 2 servers, 2 commands, a failure | `EventuallyApplied`: what a lasting leader has appended is applied by both servers. |

### The other modules

| run | instance | shows |
|---|---|---|
| `timers` | 1 follower, a heartbeat of 3, an election timeout of 7, calls of up to 2 ticks, 2 reigns, 2 misses | `LeaderKept`, `HeardInTime`, `SilenceNoticed`. 7 is `MaxSilence`, 2 * 3 - 1 + 2, the least timeout for which `LeaderKept` holds. Two reigns give two chains of heartbeats at once. Followers do not interact, so one is enough; the theorems have any number. Deadlock is checked: time never stops. |
| `log` | 2 clients, batches of up to 2, indexes up to 3, a failing write, 2 restarts | `KeysMatchIndex`, `LastIndexReadable`, and `KeepsContract`, that `RaftLog` implements `LogContract`. The second restart finds what the first, or a crash during the first start, left. |
| `apply` | 2 servers, the first of which is removed and added again, 2 calls of any of the 8 operations, 1 key, 2 holders, a fault, a leader change, times 0 to 2 with leases of 1 | `StateFollowsLog`, `PeersFollowMembers`, `ReadIsFresh`, `LockHeldByOne`, `RefusedStaysRefused`. Two entries are a batch that a fault can cut in two; a lease of 1 can be held and be over within the clock. The server that is removed is the leader itself, a peer, not the last of the list, and after its removal no member, so that every branch of `MembershipChange`, `AddNewPeer` and `RemoveOutPeer` is taken but the removal of the last of the list. |
| `command` | 2 servers, 2 clients, both kinds, 2 elections | `AnswersAwaited`, `AtMostOnce`, `OkMeansExecuted`, `CallsReturn`, `WorkersReturn`. Two servers and two clients are the least in which two redirects cross and a worker waits for a mutex that a client holds. |
| `codec` | 16 classes, up to 3 accessor calls on an empty or a full message | `RoundTrip`, `AcceptedIffComplete`, `NothingLost`, `SizeIsExact`, `CopyIsEqual`. Three calls set, change and clear fields, and repeat repeated ones; the full message has every field, nested ones too. |

### The run that finds a violation

`lost_write` checks `AckedIsApplied` with two servers that both stand. A former
leader, by now a follower in the new term, runs a queued append task with that
term. The new leader takes it for its own term's and cuts off its own log; it
then applies nothing at the index it lost, counts it as applied, and answers ok.

### Where the properties stop

Other behaviours of the code fix the conditions under which properties are
stated. Each was found with TLC by lifting the condition.

* *An entry is lost to a follower* (`floyd_apply.cc:77`, between
  `floyd_impl.cc:831` and `869`). Three servers, one of which stands, one command,
  two heart beats and one lost answer are enough. The leader commits index 1 with
  the second server, and sends it to the third, which appends it, sets its commit
  index and schedules apply; the answer is lost, and the leader sends the same
  request again. The third server cuts its log off. Before it has appended the
  entry again, the apply thread asks for index 1, finds nothing, applies the empty
  entry and counts it: the command is never applied there. `StateMachineSafety`
  is checked and proved for two servers, where nothing is committed before the
  answer of the only peer has come, and `ImplementsCluster` and
  `EventuallyApplied` speak of the servers in `Reliable`. What is written in the
  logs, counted as replicated, committed or answered is not affected, and those
  properties are checked with three servers, and proved with any number, in the
  same steps.
* *A commit index is lost in a crash* (`floyd_impl.cc:784`,
  `floyd_peer_thread.cc:200`) when it was assigned and not yet saved, also after
  the apply thread has read it. `CommitIndexNeverDecreases` and
  `NothingForgotten` except this; the saved index does not go back, and neither do
  the leader's log and the contract's order.
* *A term goes back* (`floyd_peer_thread.cc:159`). A denial of term 1 arrives
  when its candidate stands in term 2, and takes it back to term 1, on disk too.
  `OneLeaderPerTerm` is stated for `fellBack = {}`.
* *A double vote* (`floyd_impl.cc:759`). The saved vote is the empty address and
  `vote_for_` is lost in a restart: the server votes again in the same term.
  `election` has no restarts.
* *Two votes of one peer* (`floyd_peer_thread.cc:69`). With four servers, two
  `RequestVote` tasks of one peer, queued by two candidacies, run in the same
  term and count as two voters. `election` has three servers.
* *A late append* (`floyd_impl.cc:826`) cuts an acknowledged entry off a
  follower's log. `recovery` and `lossy` have no late requests, and, because of
  the lost write above, one candidate.
* *The commit index goes back* when a new leader knows less than its follower:
  `ReplyAppendEntries` (`floyd_impl.cc:880`) calls `AdvanceFollowerCommitIndex`
  whenever the two differ, while the comment at `floyd_impl.cc:780-783` says "If
  leaderCommit > commitIndex". `recovery` has one server that stands. It also goes
  back in single mode when two clients set it in the order
  opposite to their appends.
* *A truncation races an append* (`raft_log.cc:120`; `raft_log.h:40` calls
  `lli_mutex_` the "mutex for last_log_index_"). With `Overlap = TRUE` the two
  overwrite each other's count, and `KeysMatchIndex` fails. This takes a client
  thread still appending on a server that has begun to follow.
* *Locks across leaders*. An entry applied late by one server finds a lease over
  that another found running. `LockHeldByOne` is stated for one leader
  (`turns = 0`), and for names that nobody writes to as keys.
* *Members during a replay* (`floyd_apply.cc:190`). A batch that adds `a`,
  removes `a` and adds `b` fails at its end and is applied again from its
  beginning; a `GetAllServers` answered in between finds `a` and `b` together,
  a list that no prefix of the log leads to. Each server for itself is a member
  as of some prefix that is recent enough, and that is what `ReadIsFresh` says.
  The attempt to prove it for the whole list found this; TLC shows it with five
  calls.
* *Membership answers*. `DealMessage` sets no code for `AddServer`,
  `RemoveServer` and `GetAllServers`, so a redirected one that failed is told as
  done. `OkMeansExecuted` is stated for the others.
* *The default times*. With a heartbeat of 3 and a timeout of 6 s (the least of 6 to 8), and calls of up to
  2 s, `LeaderKept` fails: after a command a heartbeat is skipped, and the silence
  is two heartbeats long. The comment at `floyd_options.cc:107-109` reckons with
  one. `timers` has a timeout of 7.

### Fairness

`live` runs under `FairSpec`: weak fairness of the leader check and the heart
beat, which reschedule themselves (`AddTask` at their end), of the apply
thread, of a peer thread working off its queue and its answers, of a worker
serving a request, and of whoever holds `global_mu` going on. `AppendEntriesRPC` is strongly fair: the task may be skipped
instead, but only if the last one went out less than `heartbeat_us` ago, and
heart beats are `heartbeat_us` apart. Clients and faults are not fair. Faults
are bounded by `MaxFails`, heart beats are not bounded in this run
(`MaxBeats = 0`). That the leader keeps its place is the instance's:
`Electable` has one server and `MaxTerm` is 1. Without it floyd promises no
liveness, as two candidates may interrupt each other for ever.

`command` assumes weak fairness of every thread's own steps, timeouts among
them (`set_recv_timeout`, `TimedWait`): a thread that can go on does. Nothing is
assumed of the network, the leader, or a worker's reading of requests. Waiting
for a mutex is weakly fair only, which suffices because a client makes one call
and so a mutex is contended a bounded number of times; with a stream of calls it
would take a fair mutex.

## 4. What is proved

`FloydRaftProofs` proves, for every finite set of servers, every set of
commands and all values of the bounds (`ServerAssumption` and
`BoundAssumption` of `FloydRaft`, which TLC evaluates in every run):

| theorem | statement | further assumptions |
|---|---|---|
| `TypeCorrect` | `[]TypeOK` | none |
| `VotesOnce` | `[](restarts = 0 => OneVotePerTerm)` | none; the double vote of section 3 is why restarts are excluded |
| `LeadersElected` | `[]LeaderWasElected` | at most three servers; see section 3 for four |
| `LeadersUnique` | `[](restarts = 0 => OneLeaderPerTerm)` | at most three servers |
| `RestartsForgetNothing` | `[]NothingForgotten` | none |
| `TermsFallOnDenial` | no step of a running server takes its term back, but that in which a candidate takes in a denial | none |
| `AppliedNeverDecreases` | no step takes `last_applied` back | none |

**Types.** `TypeOK` is inductive. Its interesting part is `nextIndex > 0`: the
code subtracts one from `next_index_` as a `uint64_t`. It holds because
`UpdatePeerInfo` and `InitPeers` add one, and the adjustment after a failed
append is guarded by `adjust_index > 0`.

**Elections.** None of the three election properties is inductive.
`ElectionInv` strengthens them with what the messages know and what the
servers remember:

* `CallsAddressed`, `GrantsRecorded`: a request names its sender and receiver,
  and a granted answer in a candidate's hands is a vote that was given.
* `LeaderHasVote`: a leader holds another server's vote of the term it leads.
  This is where `CheckAndVote`'s comparison of terms is needed.
* `VotesKept`, `VotesFunctional`: until the first restart every vote is in
  `vote_for_`, which holds one candidate per term. `VotesOnce` follows.
* `GrantEndsCandidacy`: while no term has gone back, who has voted in a term
  is past it, or a follower in it. A follower does not stand again in its term.

With up to three servers one other vote makes a majority (`LeadersElected`).
Two leaders of a term would each hold a vote of another server; neither is the
other's voter, since a voter is a follower; so both votes come from the one
server left, which votes once (`LeadersUnique`).

**Restarts.** `SavedInv` adds that the stages of single mode occur in single
mode only, that memory and disk agree on the applied index and, except while the
holder of `global_mu` is about to save it, on the commit index, and that
everything the apply thread has passed in its current batch has been applied. The
last is what makes the property survive a crash, or a failure of `Apply`, in the
middle of a batch.

**Terms and the applied index.** `TermsFallOnDenial` is the other side of the
fallen term of section 3: every assignment of `current_term` but the one in
`Peer::RequestVoteRPC` that follows a denial is guarded by a comparison, for any
number of candidates, late requests and crashes of others. It says nothing of a
crash of the server itself, for `SetMeta` is one step. `AppliedNeverDecreases`
needs that a batch begins at `last_applied` (`BatchAhead`), and no commit index
that only grows: `ApplyStateMachine` copies both and stops when the commit index is
behind.

`FloydReplicationProofs` and, on top of it, `FloydCommitProofs` prove the
replication properties, for any number of servers, commands, terms, failures and
restarts and any batch size, while one server stands:

| theorem | statement | further assumptions |
|---|---|---|
| `FollowersKeepPrefixes` | `[]LogsFollowLeader` | `OneCandidate` |
| `MatchIndexesSound` | `[]MatchIndexSound` | `OneCandidate`, `MaxLate = 0` |
| `CommitsOnMajority` | `[]CommittedOnMajority` | `OneCandidate`, `MaxLate = 0` |
| `CommitsNeverDecrease` | `CommitIndexNeverDecreases` | `OneCandidate`, `MaxLate = 0`, not `SingleMode` |
| `StateMachinesAgree` | `[]StateMachineSafety` | `OneCandidate`, `MaxLate = 0`, at most two servers |
| `AnswersApplied` | `[]AckedIsApplied` | `OneCandidate`, `MaxLate = 0` |
| `AnswersOnMajority` | `[]AckedOnMajority` | `OneCandidate`, `MaxLate = 0` |
| `ClusterImplements` | `ImplementsCluster`: `FloydRaft` implements `ClusterContract`, with the servers in `Reliable` | `OneCandidate`, `MaxLate = 0` |

`OneCandidate` says that `Electable` has one member; that server may lose its
place by a crash and stand again. `MaxLate = 0` says that a request is not
served after its call was given up; requests and answers may be lost all the
same. Section 3 shows what happens without either, in single mode to the commit
index, and at a third server to what it applies. So these theorems say what the
code keeps while no election is contested, and what it does not keep even then.

**Replication.** What is to be shown is a relation between two logs, and a step
that changes one of them goes by a request that was built long before, and takes
several steps to change it. So the invariant is mostly about the slot
`call[Candidate][j]` and the holder `mu[j]`, and comes in layers, each of which
needs the ones before:

* `OthersFollow`: the others start nothing. A task, a request, a command or a
  service under way is the candidate's, so its log grows only by
  `ExecuteCommand`.
* `PartsSent`: a request is a part of the candidate's log, with the term in
  front of it, and so every log is a prefix of that log, also when it is cut off
  and not yet appended to (`Halfway`). The header is built in one critical
  section and the entries are read outside of it: the layer says that in between
  `next_index_` still fits `prev_log_index`, or is beyond what will be read.
  `FollowersKeepPrefixes` follows, late requests included.
* `VotesCover`: a request for a vote tells of as long a log as the voter has, or
  will have when the append it is serving is done.
* `TermsInv`: no server is ahead of the candidate's term, or of the term of a
  request that it may yet serve, and none denies its vote. So a leader leads
  until it crashes, a request to append is one of a leader, and terms in its log
  are in order (`UpToDate` compares the last ones).
* `PeersSettled`: while an answer is on its way nothing happens at the peer, and
  the answer says what is in its log.
* `MatchesKept`: what the leader takes for replicated is in the peer's log and in
  front of `next_index_` (`Keeps`). No request that is built from then on cuts
  the log off below it. `MatchIndexesSound` follows. A log as such may get
  shorter, for the steps between a cut and an append, or for good when a crash
  comes between them; what is kept is what has been counted.

**Commit.** `CommitsHeld`: every commit index, saved or not, and every one that a
request carries is *held*, that is, in the candidate's log and kept by a majority
(`Keeps`). `QuorumIsMajority` is what `Peer::QuorumMatchIndex` computes: no more
than half of the peers are behind the index it picks, so the rest and the leader
are a majority, of an even number of servers too. In single mode the commit index
may go back, but stays within the log (`Placed`).

**A commit index that only rises.** A follower sets its commit index to the
leader's, cut to the end of its own log, and the log may have been cut off by the
very same request. `CommitsRise` is the layer that `CommitsNeverDecrease` needs on
top. No follower, and no request, is ahead of what the candidate has saved
(`Capped`), so a crash of the candidate takes back nothing that others know.
Requests are served in the order in which they were built: one that is yet to be
served carries no less than the follower's commit index (`Newer`). A request has
a full batch of entries or reaches the commit index it carries (`Batched`); the
follower's commit index is at most a batch ahead of `next_index_` and of its log
(`Near`), and what is being served was sent from `next_index_` or before
(`Behind`). So the entries put back reach the commit index again before it is set
(`Within`).

**Apply and answers.** `AppliesHeld`: what an apply thread has counted, and the
end of its batch, is held. With two servers a majority is everybody, and the
candidate always has what is held (`ReliableHas`): at a server in `Reliable`
`GetEntry` finds the index it is asked for, and what was applied at an index is
the candidate's entry there. `StateMachinesAgree` follows. `Placed` says a command
is at its index in the candidate's log; `Answers` that a command answered ok has
been passed by `last_applied`. With `AppliedSaved` and `CommitsHeld`
`AnswersApplied` and `AnswersOnMajority` follow, for any number of servers: what
is answered goes by the candidate's own apply thread.

**The contract.** `ClusterImplements` needs one invariant more: `Numbered`, that
what is in the candidate's log are commands, each at the index that its thread
was given. So no command is there twice, and none that was not issued. It holds
because a thread appends once and its command is not issued again. Then every
step is one of the contract's. The order grows, as the candidate's log does
(`OrderGrows`), so a step that issues, applies and answers nothing is a `Commit`,
or changes nothing (`ClusterCommits`): those of the primary and the peer threads,
the handlers and their steps, the writes of single mode, a timeout, a crash.
`DoCommand` is `Issue`. `Apply` is `Apply`: the batch is held, and everything below
has been applied (`AppliesHeld`, `AppliedSaved`); at a server outside `Reliable` it
is no step of the contract. `CommandApplied` is `Answer`, as in `AnswersApplied`.

`FloydTimersProofs` proves, for every set of followers, every heartbeat, every
election timeout, every call delay below a heartbeat and all values of the
bounds (`TimerAssumption`, `TimerBoundAssumption`):

| theorem | statement | further assumptions |
|---|---|---|
| `TimersTyped` | `[]TypeOK` | none |
| `SilencesNoticed` | `[]SilenceNoticed` | none |
| `LeadersHeard` | `[]HeardInTime` | none |
| `LeadersKept` | `[]LeaderKept` | `CheckLeader >= MaxSilence` |

`LeadersKept` is the condition the options have to meet: an election timeout of
at least two heartbeats and a call.

**A silent leader.** `SilenceNoticed` is not inductive: it says nothing of a
follower whose next look at the clock is far away. `CheckedInTime` says that for
a follower that does not stand, the age of `last_op_time` and the time to the
next check together never exceed two timeouts and a tick.

**A live leader.** `Silence(p)` is the time since follower `p` last heard, or
since the reign began or a call failed. `HeardInv` bounds it in both states of the
peer thread. While a call is under way (`CallInTime`), the silence before it was
sent was shorter than two heartbeats, and the call is no older than `Delay`.
While none is (`WaitInTime`), the silence is no longer than the age of the last
request, and a task is queued, or a heartbeat of this reign's own chain is due
before two heartbeats of silence are over (`Reminded`). The skipping of a
heartbeat keeps this: it happens only when the last request, and so the silence,
is less than one heartbeat old, and the chain comes again one heartbeat later.
Both `HeardInTime` and `LeaderKept` follow, and the invariant has been checked
with TLC on the instance of `timers` as well.

`RaftLogProofs` proves, for any number of clients, any batch sizes and all
values of the bounds, with `Overlap = FALSE` (no client appends while the worker
cuts off; with `TRUE` it is false, section 3):

| theorem | statement |
|---|---|
| `LogInvariant` | `[]IInv`, the inductive invariant |
| `LogTypeCorrect` | `[]TypeOK` |
| `KeysAreTheLog` | `[]KeysMatchIndex` |
| `ReadsLastIndex` | `[]LastIndexReadable` |
| `LogKeepsContract` | `KeepsContract`: `RaftLog` implements `LogContract` |

**The log.** While a call is under way, the keys and `last_log_index_` do not
match, and the two properties say nothing. `IInv` says what holds then: one
thread is inside a call (`Calls`), it has counted exactly the entries of its
batch, from the index at which it started (`Batches`), and the keys are still
those of that index (`Keys`). The meta keys come before the first entry
(`MetaFirst`), so that a restart, which steps back five keys from the end, finds
the last entry in front of them. `Read` bounds how far off the index that a peer
thread has read may be. For the refinement the abstract log is the keys up to
the index at which the call under way started, so every step is a stutter but
the write that ends a call, and that is the abstract call.

`FloydApplyProofs` proves all properties of the run `apply`, for any servers,
clients, keys, holders and bounds (`ApplyAssumption`):

| theorem | statement |
|---|---|
| `ApplyInvariant` | `[]IInv`, the inductive invariant |
| `ApplyTypeCorrect` | `[]TypeOK` |
| `PeersAreMembers` | `[]PeersFollowMembers` |
| `ReplayConverges` | `[]StateFollowsLog` |
| `ReadsAreFresh` | `[]ReadIsFresh` |
| `RefusalIsFinal` | `[]RefusedStaysRefused` |
| `LocksExclude` | `[]LockHeldByOne` |

**Replays.** After a failure the store is ahead of `last_applied`, and as
entries are applied again it is the state of no prefix of the log: keys that a
replayed entry does not touch are ahead of those it does. So `StateFollowsLog`,
which speaks of a server that has caught up, is far from inductive. The
invariant (`KeysFollow`, `MembersFollow`) takes every key, and every server's
membership, for itself: it is what *some* prefix of the log says, not shorter
than the position of the apply thread and not longer than `reached`. When both
bounds meet, all prefixes are the same one (`ReplayConverges`). An answer that is
read after the wait lies beyond its entry's index, so it is as fresh as it
claims (`ReadsAreFresh`). This needs that what a key holds after an entry depends
on that key alone, and that a plain write or delete forgets what was there.

**Locks.** Locks are not decided by the log alone but by the clock at the time
of applying. `Refused` says a lock refused to a call is in `db_` only for another
call of that holder; `Held` says that the lock of a call that was told so stays
in `db_` while its lease runs, since nobody else's `TryLock` or `UnLock` changes
it, and under one leader only one server's `db_` is asked.

`FloydCommandProofs` proves, for any servers and clients and any number of
elections (`CommandAssumption`):

| theorem | statement |
|---|---|
| `CommandTypeCorrect` | `[]TypeOK` |
| `AnswersAreAwaited` | `[]AnswersAwaited` |
| `AppendedAtMostOnce` | `[]AtMostOnce` |
| `OkIsTrue` | `[]OkMeansExecuted` |

**Commands.** The invariant has three layers. `Places`: what a thread knows at
each stage of `DoCommand`. `Connections`: who holds the mutex of a link, and that
of the requests on their way, the workers serving one and the answers not yet
read, at most one belongs to the connection that is open now, and that is the
call the holder of the mutex waits for; the numbers of connections keep apart
what a closed one left behind. `Commands`: a command that is not yet appended is
carried by one thread or one request (`OneCarrier`), so it is appended at most
once; and every ok under way on behalf of a `kv` command is of one that was
executed (`TrueAnswers`).

`IndexFacts`: where these proofs need induction over indexes they take the least
counterexample, which `LeastNat` provides.

**Only model-checked.** Liveness, and what a recursive operator computes, which
is out of the prover's reach: `EventuallyApplied`, `CallsReturn`,
`WorkersReturn`, and `FloydProto`, whose messages nest. That the layers of the
replication proof hold was also checked with TLC, on the instances of `lossy`,
`recovery` and `single`, before they were proved.

## 5. Plan

1. *Done*: `FloydRaft`, its runs, the election and persistence theorems.
2. *Done*: `RaftLog` and `LogContract` with the refinement; `FloydApply` with
   locks and membership; `FloydCommand`; `FloydTimers` with its theorems;
   `FloydMessages` and `FloydProto`.
3. *Done*: theorems about `FloydCommand`, `RaftLog` and `FloydApply`.
4. *Done*: theorems about `FloydRaft` with one candidate, from `LogsFollowLeader`
   to `AckedOnMajority`.
5. *Done*: `ClusterContract`, and that `FloydRaft` with one candidate implements
   it; when a term goes back, and that the applied index does not.
6. *Done*: `ReplyAppendEntries` and the commit index step by step, towards the
   apply thread and crashes, and the theorems over these steps.
7. Left, should the code change: `vote_for_` and the vote saved, the role and the
   term of a queued task tested, the log cut off only where it differs. Then
   `StateMachineSafety` could be stated for any cluster, and `OneCandidate` could
   go from the theorems, by an argument over all pairs of logs instead of one log
   that the others follow.

## 6. Not modelled

* Elections and majorities among changing members. `FloydRaft` has constant
  members; `CheckAndVote` goes by the options and `peers_` by the log, and the
  threads iterate over `peers_` while it changes, which is undefined in C++.
* The order of starting and stopping threads. `Init` starts the worker before
  the apply thread exists; the destructor deletes objects that peer threads
  still use. In the models a server stops by a crash and starts in one step.
* The commit rule's look at the term of the last entry of the request
  (`floyd_peer_thread.cc:318`) is in `FloydRaft` as it is, but the behaviour in
  which it would count an older entry needs four servers and three terms, more
  than TLC finishes.
* `append_entries_size_once`: batches are cut by count only.
* Left out: `Logger` (output); `Swap`, reflection, descriptors and the array
  variants in `floyd.pb.*`; `Options::Dump` and `ToString`; `DirtyRead`,
  `GetServerStatus` and the other queries, which change nothing; the fencing
  token of `RaftMeta`, which nothing uses; examples and tools.
