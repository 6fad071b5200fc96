------------------------------ MODULE FloydRaft ------------------------------
(***************************************************************************)
(* The consensus core of floyd: leader election, log replication, commit,  *)
(* apply and restart, as the threads of a cluster of servers execute them. *)
(*                                                                         *)
(*   FloydContext   floyd_context.{h,cc}        term, role, leader, commit *)
(*   FloydImpl      floyd_impl.cc               RPC handlers, commands     *)
(*   Peer           floyd_peer_thread.{h,cc}    one sender thread per peer *)
(*   FloydPrimary   floyd_primary_thread.cc     election and heart beat    *)
(*   FloydApply     floyd_apply.cc              the apply thread           *)
(*   RaftLog/Meta   raft_log.cc, raft_meta.cc   what survives a restart    *)
(*                                                                         *)
(* One action is one critical section of global_mu, one piece of code that *)
(* runs without it, or, where the apply thread can look or a crash can     *)
(* come between two writes of the log or of the commit index, one of the   *)
(* steps of a critical section; mu says which of them is next.  An RPC is  *)
(* a blocking call of a peer thread: at most one is outstanding per        *)
(* ordered pair of servers, its answer reaches only the thread that waits  *)
(* for it, and a call that failed may leave its request behind on the      *)
(* closed connection, to be served later (late).                           *)
(***************************************************************************)
EXTENDS Naturals, Sequences, FiniteSets

CONSTANTS
  Server,       \* options_.members, the same on every server
  Command,      \* client commands, each issued once
  Nil,          \* the empty ip_port
  Electable,    \* the servers whose leader check may find the leader silent
  BatchSize,    \* options_.append_entries_count_once
  MaxTerm,      \* bound: no candidacy beyond this term
  MaxTasks,     \* bound: length of a peer thread's task queue
  MaxBeats,     \* bound: number of heart beats (0: no bound)
  MaxFails,     \* bound: number of RPCs and of calls of Apply that fail
  MaxLate,      \* bound: requests left behind on closed connections
  MaxRestarts   \* bound: number of process restarts

ASSUME ServerAssumption ==
  /\ IsFiniteSet(Server)
  /\ Server # {}
  /\ Nil \notin Server \cup Command
  /\ Electable \subseteq Server

ASSUME BoundAssumption ==
  /\ BatchSize \in Nat \ {0}
  /\ {MaxTerm, MaxTasks, MaxBeats, MaxFails, MaxLate, MaxRestarts}
       \subseteq Nat

VARIABLES
  currentTerm,  \* FloydContext::current_term
  role,         \* FloydContext::role
  votedFor,     \* FloydContext::voted_for_ip/port
  leader,       \* FloydContext::leader_ip/port
  voteQuorum,   \* FloydContext::vote_quorum
  commitIndex,  \* FloydContext::commit_index
  lastApplied,  \* FloydContext::last_applied
  voteFor,      \* FloydImpl::vote_for_, a map from term to candidate
  log,          \* RaftLog, on disk
  metaTerm, metaVotedFor, metaCommit, metaApplied,   \* RaftMeta, on disk
  applied,      \* what was applied to db_, on disk: the entries, by index
  batch,        \* the locals of ApplyStateMachine while it runs
  mu,           \* FloydContext::global_mu, and how far its holder has got
  nextIndex,    \* Peer::next_index_
  matchIndex,   \* Peer::match_index_
  tasks,        \* Peer::bg_thread_, the queue of RPCs to run
  call,         \* what the peer thread is doing: the RPC it is inside of
  late,         \* requests of failed calls, still to be served
  cmds,         \* the client commands and the threads that execute them
  beats, fails, restarts,   \* how much of the bounds is used
  grants,       \* history: every vote any server ever granted
  fellBack      \* history: the servers whose current_term went back

ctxVars  == <<currentTerm, role, votedFor, leader, voteQuorum>>
metaVars == <<metaTerm, metaVotedFor>>
logVars  == <<log, commitIndex, metaCommit>>
smVars   == <<lastApplied, metaApplied, applied, batch>>
peerVars == <<nextIndex, matchIndex>>
netVars  == <<call, late, mu>>
voteVars == <<voteFor, grants, fellBack>>
bounds   == <<beats, fails, restarts>>
vars == <<ctxVars, metaVars, logVars, smVars, peerVars, netVars, voteVars,
          tasks, cmds, bounds>>

-----------------------------------------------------------------------------
(* Data *)

Role    == {"kFollower", "kCandidate", "kLeader"}
Task    == {"RequestVote", "AppendEntries"}
Address == Server \cup {Nil}
Entry   == [term : Nat, cmd : Command \cup {Nil}]

\* An Entry object nothing was parsed into: optype kRead, applied as a no-op.
EmptyEntry == [term |-> 0, cmd |-> Nil]

VoteRequest == [type : {"RequestVote"}, from : Server, to : Server,
                term : Nat, lastLogTerm : Nat, lastLogIndex : Nat]
AppendRequest == [type : {"AppendEntries"}, from : Server, to : Server,
                  term : Nat, prevLogIndex : Nat, prevLogTerm : Nat,
                  leaderCommit : Nat, entries : Seq(Entry)]
VoteResponse   == [term : Nat, granted : BOOLEAN]
AppendResponse == [term : Nat, success : BOOLEAN, lastLogIndex : Nat]

\* The stages of a peer thread: waiting for a task; inside AppendEntriesRPC
\* with the header built and the entries not yet read; inside SendAndRecv,
\* before and while the request is served; back from it with an answer.
Call == [stage : {"idle"}]
          \cup [stage : {"header"}, req : AppendRequest, last : Nat]
          \cup [stage : {"sent"}, req : VoteRequest \cup AppendRequest]
          \cup [stage : {"serving"}, req : AppendRequest]
          \cup [stage : {"replied"}, req : VoteRequest, res : VoteResponse]
          \cup [stage : {"replied"}, req : AppendRequest,
                res : AppendResponse]
Idle == [stage |-> "idle"]

\* Who holds global_mu between two steps: nobody; a worker in the middle of
\* ReplyAppendEntries, which has cut the log off, has appended the entries, or
\* has set the commit index and not saved it; a peer thread that has set the
\* leader's commit index and not saved it.
Holder == [at : {"free", "leading"}]
            \cup [at : {"cut", "appended", "following"}, req : AppendRequest]
Free == [at |-> "free"]

\* A client command: how far the thread that executes it has got, the server
\* it runs on, the value it last read from the context (the term of its entry,
\* or the commit index to be saved) and the index of its entry.
RunningCommand == [stage : {"checked", "built", "appended", "committed",
                            "saving", "waiting", "ok", "failed"},
                   at : Server, read : Nat, index : Nat]
CommandState == [stage : {"new"}, at : {Nil}, read : Nat, index : Nat]
                  \cup RunningCommand

\* The apply thread: the index it has reached, the commit_index it read (0 when
\* it is not inside ApplyStateMachine) and the Entry object of its loop.
Batch == [at : Nat, upto : Nat, entry : Entry]
NoBatch == [at |-> 0, upto |-> 0, entry |-> EmptyEntry]

SingleMode == Cardinality(Server) = 1

Lesser(a, b) == IF a < b THEN a ELSE b

\* RaftLog::GetLastLogIndex and the two results of GetLastLogTermAndIndex.
LastLogIndex(i) == Len(log[i])
LastLogTerm(i)  == IF log[i] = <<>> THEN 0 ELSE log[i][Len(log[i])].term

\* RaftLog::GetEntry as its callers use it: the term stays 0 when not found.
TermAt(i, index) ==
  IF index \in 1..Len(log[i]) THEN log[i][index].term ELSE 0

\* Mutant: the entry at index itself is kept.
TruncateSuffixAfter(s, index) == SubSeq(s, 1, Lesser(index, Len(s)))

\* RaftLog::TruncateSuffix(index): of what there is, 1..index - 1 is left.
TruncateSuffix(s, index) == SubSeq(s, 1, Lesser(index - 1, Len(s)))

\* BGThread::Schedule.  The queue is bounded: a task beyond MaxTasks is one
\* whose RPC fails to connect, which has no effect.
Schedule(q, task) == IF Len(q) < MaxTasks THEN Append(q, task) ELSE q

InFlight ==
  late \cup UNION {{call[i][j].req : j \in {k \in Server :
                                     call[i][k].stage = "sent"}} : i \in Server}
-----------------------------------------------------------------------------
(* FloydContext *)

BecomeFollower(i, term, ip) ==
  /\ currentTerm' = [currentTerm EXCEPT ![i] = term]
  /\ votedFor' = [votedFor EXCEPT ![i] = ip]
  /\ leader' = [leader EXCEPT ![i] = ip]
  /\ role' = [role EXCEPT ![i] = "kFollower"]
  /\ UNCHANGED voteQuorum

BecomeCandidate(i) ==
  /\ currentTerm' = [currentTerm EXCEPT ![i] = @ + 1]
  /\ role' = [role EXCEPT ![i] = "kCandidate"]
  /\ leader' = [leader EXCEPT ![i] = Nil]
  /\ votedFor' = [votedFor EXCEPT ![i] = i]
  /\ voteQuorum' = [voteQuorum EXCEPT ![i] = 1]

BecomeLeader(i) ==
  /\ role' = [role EXCEPT ![i] = "kLeader"]
  /\ leader' = [leader EXCEPT ![i] = i]
  /\ UNCHANGED currentTerm

\* RaftMeta::SetCurrentTerm, SetVotedForIp and SetVotedForPort.
SetMeta(i, term, ip) ==
  /\ metaTerm' = [metaTerm EXCEPT ![i] = term]
  /\ metaVotedFor' = [metaVotedFor EXCEPT ![i] = ip]

\* BecomeFollower followed by the three writes, as most callers have it.
StepDown(i, term, ip) == BecomeFollower(i, term, ip) /\ SetMeta(i, term, ip)

\* Mutant: the commit index is not saved.
SetCommitIndexNever(i) == UNCHANGED metaCommit

\* RaftMeta::SetCommitIndex, after commit_index was assigned.
SetCommitIndex(i) == metaCommit' = [metaCommit EXCEPT ![i] = commitIndex[i]]

-----------------------------------------------------------------------------
(* FloydPrimary *)

NoticePeerTask(i, task) ==
  tasks' = [tasks EXCEPT ![i] =
              [j \in Server |-> IF j = i THEN @[j] ELSE Schedule(@[j], task)]]

\* The leader check of a server that is not leader.  Clocks are left out:
\* the check of an Electable server may find last_op_time too old at any
\* time.  A single server makes itself leader in the term it is in.
LaunchCheckLeader(i) ==
  /\ mu[i] = Free
  /\ role[i] \in {"kFollower", "kCandidate"}
  /\ \/ /\ SingleMode
        /\ BecomeLeader(i)
        /\ votedFor' = [votedFor EXCEPT ![i] = i]
        /\ SetMeta(i, currentTerm[i], i)
        /\ UNCHANGED <<voteQuorum, tasks>>
     \/ /\ ~SingleMode
        /\ i \in Electable
        /\ currentTerm[i] < MaxTerm
        /\ BecomeCandidate(i)
        /\ SetMeta(i, currentTerm[i] + 1, i)
        /\ NoticePeerTask(i, "RequestVote")
  /\ UNCHANGED <<logVars, smVars, peerVars, netVars, voteVars, cmds, bounds>>

\* LaunchHeartBeat and LaunchNewCommand: an append task for every peer.
\* LaunchNewCommand does not wait for global_mu.
LaunchHeartBeat(i) ==
  /\ ~SingleMode
  /\ role[i] = "kLeader"
  /\ MaxBeats = 0 \/ beats < MaxBeats
  /\ beats' = IF MaxBeats = 0 THEN beats ELSE beats + 1
  /\ NoticePeerTask(i, "AppendEntries")
  /\ UNCHANGED <<ctxVars, metaVars, logVars, smVars, peerVars, netVars,
                 voteVars, cmds, fails, restarts>>

-----------------------------------------------------------------------------
(* Peer: sending *)

\* The peer thread of i for j takes its next task.
TakeTask(i, j, task) ==
  /\ call[i][j] = Idle
  /\ tasks[i][j] # <<>>
  /\ Head(tasks[i][j]) = task
  /\ tasks' = [tasks EXCEPT ![i][j] = Tail(@)]

\* Peer::RequestVoteRPC up to SendAndRecv: the request carries the term and
\* the log of the moment it is built, and the role is not looked at.
RequestVoteRPC(i, j) ==
  /\ mu[i] = Free
  /\ TakeTask(i, j, "RequestVote")
  /\ call' = [call EXCEPT ![i][j] =
                [stage |-> "sent",
                 req |-> [type |-> "RequestVote", from |-> i, to |-> j,
                          term |-> currentTerm[i],
                          lastLogTerm |-> LastLogTerm(i),
                          lastLogIndex |-> LastLogIndex(i)]]]
  /\ UNCHANGED <<ctxVars, metaVars, logVars, smVars, peerVars, late, mu,
                 voteVars, cmds, bounds>>

\* Peer::AppendEntriesRPC returns at once: there is nothing to send and the
\* peer was heard of less than heartbeat_us ago.
AppendEntriesSkip(i, j) ==
  /\ mu[i] = Free
  /\ TakeTask(i, j, "AppendEntries")
  /\ nextIndex[i][j] > LastLogIndex(i)
  /\ UNCHANGED <<ctxVars, metaVars, logVars, smVars, peerVars, netVars,
                 voteVars, cmds, bounds>>

\* The first critical section of Peer::AppendEntriesRPC builds the header.
\* The role is not looked at.
AppendEntriesRPC(i, j) ==
  LET prev == nextIndex[i][j] - 1 IN
  /\ mu[i] = Free
  /\ TakeTask(i, j, "AppendEntries")
  /\ call' = [call EXCEPT ![i][j] =
                [stage |-> "header", last |-> LastLogIndex(i),
                 req |-> [type |-> "AppendEntries", from |-> i, to |-> j,
                          term |-> currentTerm[i],
                          prevLogIndex |-> prev,
                          prevLogTerm |-> TermAt(i, prev),
                          leaderCommit |-> commitIndex[i],
                          entries |-> <<>>]]]
  /\ UNCHANGED <<ctxVars, metaVars, logVars, smVars, peerVars, late, mu,
                 voteVars, cmds, bounds>>

\* The entries are read after the lock is released, from the next_index_ and
\* the log of that moment; then the request is sent.
AppendEntriesRead(i, j) ==
  LET h    == call[i][j]
      from == nextIndex[i][j]
      to   == Lesser(Lesser(h.last, LastLogIndex(i)), from + BatchSize - 1)
  IN
  /\ h.stage = "header"
  /\ call' = [call EXCEPT ![i][j] =
                [stage |-> "sent",
                 req |-> [h.req EXCEPT !.entries = SubSeq(log[i], from, to)]]]
  /\ UNCHANGED <<ctxVars, metaVars, logVars, smVars, peerVars, late, mu,
                 voteVars, tasks, cmds, bounds>>
-----------------------------------------------------------------------------
(* FloydWorker and FloydImpl: serving RPCs *)

\* Request r has been served with answer res.  The answer reaches the peer
\* thread only if it still waits for it.
Reply(r, res) ==
  \/ /\ call[r.from][r.to] = [stage |-> "sent", req |-> r]
     /\ call' = [call EXCEPT ![r.from][r.to] =
                   [stage |-> "replied", req |-> r, res |-> res]]
     /\ UNCHANGED late
  \/ /\ r \in late
     /\ late' = late \ {r}
     /\ UNCHANGED call

\* A worker of r.to takes request r and keeps global_mu until the answer.
BeginService(r) ==
  \/ /\ call[r.from][r.to] = [stage |-> "sent", req |-> r]
     /\ call' = [call EXCEPT ![r.from][r.to] =
                   [stage |-> "serving", req |-> r]]
     /\ UNCHANGED late
  \/ /\ r \in late
     /\ late' = late \ {r}
     /\ UNCHANGED call

\* The answer is lost if the peer thread has given up, or was killed.
EndService(i, res) ==
  LET r == mu[i].req IN
  /\ mu' = [mu EXCEPT ![i] = Free]
  /\ call' = [call EXCEPT ![r.from][i] =
                IF @ = [stage |-> "serving", req |-> r]
                THEN [stage |-> "replied", req |-> r, res |-> res] ELSE @]

UpToDate(i, r) ==
  \/ r.lastLogTerm > LastLogTerm(i)
  \/ r.lastLogTerm = LastLogTerm(i) /\ r.lastLogIndex >= LastLogIndex(i)

\* Mutant: vote_for_ is not consulted.
VotedForNobody(i, r) == FALSE

VotedForOther(i, r) ==
  \E v \in voteFor[i] : v.term = r.term /\ v.candidate # r.from

\* FloydImpl::ReplyRequestVote.  A granted vote is recorded in vote_for_ and
\* in voted_for, but what SetVotedFor writes is the empty address that
\* BecomeFollower left: GrantVote comes after it.
ReplyRequestVote(r) ==
  LET i == r.to IN
  /\ r.type = "RequestVote"
  /\ mu[i] = Free
  /\ \/ /\ r.term < currentTerm[i]
        /\ Reply(r, [term |-> currentTerm[i], granted |-> FALSE])
        /\ UNCHANGED <<ctxVars, metaVars, voteVars>>
     \/ /\ r.term = currentTerm[i]
        /\ ~UpToDate(i, r) \/ VotedForOther(i, r)
        /\ Reply(r, [term |-> r.term, granted |-> FALSE])
        /\ UNCHANGED <<ctxVars, metaVars, voteVars>>
     \/ /\ r.term > currentTerm[i]
        /\ ~UpToDate(i, r) \/ VotedForOther(i, r)
        /\ BecomeFollower(i, r.term, Nil)
        /\ metaTerm' = [metaTerm EXCEPT ![i] = r.term]
        /\ Reply(r, [term |-> r.term, granted |-> FALSE])
        /\ UNCHANGED <<metaVotedFor, voteVars>>
     \/ /\ r.term >= currentTerm[i]
        /\ UpToDate(i, r)
        /\ ~VotedForOther(i, r)
        /\ voteFor' = [voteFor EXCEPT ![i] =
                         @ \cup {[term |-> r.term, candidate |-> r.from]}]
        /\ grants' = grants \cup {[term |-> r.term, voter |-> i,
                                   candidate |-> r.from]}
        /\ currentTerm' = [currentTerm EXCEPT ![i] = r.term]
        /\ role' = [role EXCEPT ![i] = "kFollower"]
        /\ leader' = [leader EXCEPT ![i] = Nil]
        /\ votedFor' = [votedFor EXCEPT ![i] = r.from]
        /\ SetMeta(i, r.term, Nil)
        /\ Reply(r, [term |-> r.term, granted |-> TRUE])
        /\ UNCHANGED <<voteQuorum, fellBack>>
  /\ UNCHANGED <<logVars, smVars, peerVars, mu, tasks, cmds, bounds>>

\* The sender becomes the leader i follows, unless i is already following one
\* in that term, or leads it.
FollowSender(i, r) ==
  IF \/ r.term > currentTerm[i]
     \/ role[i] = "kCandidate"
     \/ role[i] = "kFollower" /\ leader[i] = Nil
  THEN StepDown(i, r.term, r.from)
  ELSE UNCHANGED <<ctxVars, metaVars>>

AppendAnswer(term, success, s) ==
  [term |-> term, success |-> success, lastLogIndex |-> Len(s)]

\* FloydImpl::ReplyAppendEntries as far as the first TruncateSuffix.  Whatever
\* lies beyond prev_log_index is cut off before the terms are compared, and
\* not only where it conflicts; the apply thread does not wait for what is
\* appended in its place.
ReplyAppendEntries(r) ==
  LET i == r.to IN
  /\ r.type = "AppendEntries"
  /\ mu[i] = Free
  /\ \/ /\ r.term < currentTerm[i]
        /\ Reply(r, AppendAnswer(currentTerm[i], FALSE, log[i]))
        /\ UNCHANGED <<ctxVars, metaVars, log, mu>>
     \/ /\ r.term >= currentTerm[i]
        /\ r.prevLogIndex > LastLogIndex(i)
        /\ FollowSender(i, r)
        /\ Reply(r, AppendAnswer(r.term, FALSE, log[i]))
        /\ UNCHANGED <<log, mu>>
     \/ /\ r.term >= currentTerm[i]
        /\ r.prevLogIndex <= LastLogIndex(i)
        /\ FollowSender(i, r)
        /\ log' = [log EXCEPT ![i] = TruncateSuffix(@, r.prevLogIndex + 1)]
        /\ BeginService(r)
        /\ mu' = [mu EXCEPT ![i] = [at |-> "cut", req |-> r]]
  /\ UNCHANGED <<commitIndex, metaCommit, smVars, peerVars, voteVars, tasks,
                 cmds, bounds>>

serviceFrame == <<ctxVars, metaVars, smVars, peerVars, late, voteVars, tasks,
                  cmds, bounds>>

\* It goes on: the terms are compared and the entries are appended.  A commit
\* index that differs from the leader's is still to be set.
AppendReceived(i) ==
  LET r == mu[i].req IN
  /\ mu[i].at = "cut"
  /\ \/ /\ r.prevLogTerm # TermAt(i, r.prevLogIndex)
        /\ log' = [log EXCEPT ![i] = TruncateSuffix(@, r.prevLogIndex)]
        /\ EndService(i, AppendAnswer(currentTerm[i], FALSE, log'[i]))
     \/ /\ r.prevLogTerm = TermAt(i, r.prevLogIndex)
        /\ log' = [log EXCEPT ![i] = @ \o r.entries]
        /\ IF r.leaderCommit = commitIndex[i]
           THEN EndService(i, AppendAnswer(currentTerm[i], TRUE, log'[i]))
           ELSE /\ mu' = [mu EXCEPT ![i] = [at |-> "appended", req |-> r]]
                /\ UNCHANGED call
  /\ UNCHANGED <<commitIndex, metaCommit, serviceFrame>>

\* Mutant: the last entry is left out.
FollowerCommitIndexOneLess(i, leaderCommit) ==
  Lesser(leaderCommit, LastLogIndex(i) - 1)

FollowerCommitIndex(i, leaderCommit) == Lesser(leaderCommit, LastLogIndex(i))

\* FloydImpl::AdvanceFollowerCommitIndex sets the commit index, whichever way
\* it goes ...
AdvanceFollowerCommitIndex(i) ==
  LET r == mu[i].req IN
  /\ mu[i].at = "appended"
  /\ commitIndex' = [commitIndex EXCEPT ![i] =
                       FollowerCommitIndex(i, r.leaderCommit)]
  /\ mu' = [mu EXCEPT ![i] = [at |-> "following", req |-> r]]
  /\ UNCHANGED <<log, metaCommit, call, serviceFrame>>

\* ... and saves it; then the request is answered.
SaveFollowerCommitIndex(i) ==
  /\ mu[i].at = "following"
  /\ SetCommitIndex(i)
  /\ EndService(i, AppendAnswer(currentTerm[i], TRUE, log[i]))
  /\ UNCHANGED <<log, commitIndex, serviceFrame>>

-----------------------------------------------------------------------------
(* Peer: the answers *)

\* Peer::QuorumMatchIndex returns index: element size / 2 of the sorted match
\* indexes of the peers.  The leader's own log is not among them.
IsQuorumMatchIndex(i, match, index) ==
  LET peers == Server \ {i}
      mid   == Cardinality(peers) \div 2
  IN /\ Cardinality({j \in peers : match[j] < index}) <= mid
     /\ Cardinality({j \in peers : match[j] <= index}) > mid

\* Mutant: what the leader has is committed, not what a quorum has.
AdvanceLeaderCommitIndexAlone(i, match) ==
  /\ commitIndex' = [commitIndex EXCEPT ![i] = LastLogIndex(i)]
  /\ mu' = [mu EXCEPT ![i] = [at |-> "leading"]]

\* Peer::AdvanceLeaderCommitIndex.  The index is set first and then saved.
AdvanceLeaderCommitIndex(i, match) ==
  \E index \in {match[j] : j \in Server \ {i}} :
    /\ IsQuorumMatchIndex(i, match, index)
    /\ IF commitIndex[i] < index
       THEN /\ commitIndex' = [commitIndex EXCEPT ![i] = index]
            /\ mu' = [mu EXCEPT ![i] = [at |-> "leading"]]
       ELSE UNCHANGED <<commitIndex, mu>>

SaveLeaderCommitIndex(i) ==
  /\ mu[i].at = "leading"
  /\ SetCommitIndex(i)
  /\ mu' = [mu EXCEPT ![i] = Free]
  /\ UNCHANGED <<log, commitIndex, call, serviceFrame>>

\* Mutant: a vote given in an earlier term counts too.
IsVoteOfAnyTerm(i, res) == TRUE

\* Peer::CheckAndVote: votes of other terms are ignored, and the answers are
\* counted, not the voters.
IsVoteOfTerm(i, res) == res.term = currentTerm[i]
IsQuorum(votes)      == votes > Cardinality(Server) \div 2

\* Mutant: next_index_ is the last index, not the one after it.
UpdatePeerInfoAtLast(i) ==
  /\ nextIndex' = [nextIndex EXCEPT ![i] = [k \in Server |-> LastLogIndex(i)]]
  /\ matchIndex' = [matchIndex EXCEPT ![i] = [k \in Server |-> 0]]

UpdatePeerInfo(i) ==
  /\ nextIndex' = [nextIndex EXCEPT ![i] =
                     [k \in Server |-> LastLogIndex(i) + 1]]
  /\ matchIndex' = [matchIndex EXCEPT ![i] = [k \in Server |-> 0]]

\* Peer::RequestVoteRPC from SendAndRecv on.  A denial makes a candidate a
\* follower in the term of the answer, which may be older than its own.
RequestVoteReply(i, j) ==
  LET res == call[i][j].res
      Unmoved == UNCHANGED <<ctxVars, metaVars, peerVars, fellBack>>
  IN
  /\ mu[i] = Free
  /\ call[i][j].stage = "replied"
  /\ call[i][j].req.type = "RequestVote"
  /\ call' = [call EXCEPT ![i][j] = Idle]
  /\ \/ /\ res.term > currentTerm[i]
        /\ StepDown(i, res.term, Nil)
        /\ UNCHANGED <<peerVars, fellBack>>
     \/ /\ res.term <= currentTerm[i]
        /\ role[i] = "kCandidate"
        /\ ~res.granted
        /\ StepDown(i, res.term, Nil)
        /\ fellBack' = fellBack \cup {k \in {i} : res.term < currentTerm[k]}
        /\ UNCHANGED peerVars
     \/ /\ role[i] = "kCandidate"
        /\ res.term <= currentTerm[i]
        /\ res.granted
        /\ ~IsVoteOfTerm(i, res)
        /\ Unmoved
     \/ /\ role[i] = "kCandidate"
        /\ res.term <= currentTerm[i]
        /\ res.granted
        /\ IsVoteOfTerm(i, res)
        /\ voteQuorum' = [voteQuorum EXCEPT ![i] = @ + 1]
        /\ UNCHANGED <<votedFor, metaVars, fellBack>>
        /\ IF IsQuorum(voteQuorum[i] + 1)
           THEN BecomeLeader(i) /\ UpdatePeerInfo(i)
           ELSE UNCHANGED <<currentTerm, role, leader, peerVars>>
     \/ /\ res.term <= currentTerm[i]
        /\ role[i] # "kCandidate"
        /\ Unmoved
  /\ UNCHANGED <<logVars, smVars, late, mu, voteFor, grants, tasks, cmds,
                 bounds>>

\* Mutant: one more than the last index sent.
ReplicatedBeyond(req) == req.prevLogIndex + Len(req.entries) + 1

\* The last index the peer has once req has succeeded.
ReplicatedBy(req) == req.prevLogIndex + Len(req.entries)

\* Peer::AppendEntriesRPC from SendAndRecv on.  Only the role of this moment
\* is tested, not the term in which the request was made.
AppendEntriesReply(i, j) ==
  LET req == call[i][j].req
      res == call[i][j].res
      acked  == ReplicatedBy(req)
      adjust == Lesser(res.lastLogIndex + 1, nextIndex[i][j] - 1)
      match  == [matchIndex[i] EXCEPT ![j] = acked]
  IN
  /\ mu[i] = Free
  /\ call[i][j].stage = "replied"
  /\ req.type = "AppendEntries"
  /\ call' = [call EXCEPT ![i][j] = Idle]
  /\ \/ /\ role[i] # "kLeader"
        /\ UNCHANGED <<ctxVars, metaVars, commitIndex, peerVars, mu, tasks>>
     \/ /\ role[i] = "kLeader"
        /\ res.term > currentTerm[i]
        /\ StepDown(i, res.term, Nil)
        /\ UNCHANGED <<commitIndex, peerVars, mu, tasks>>
     \/ /\ role[i] = "kLeader"
        /\ res.term <= currentTerm[i]
        /\ res.success
        /\ IF req.entries # <<>>
           THEN /\ matchIndex' = [matchIndex EXCEPT ![i] = match]
                /\ nextIndex' = [nextIndex EXCEPT ![i][j] = acked + 1]
                /\ IF req.entries[Len(req.entries)].term = currentTerm[i]
                   THEN AdvanceLeaderCommitIndex(i, match)
                   ELSE UNCHANGED <<commitIndex, mu>>
           ELSE UNCHANGED <<peerVars, commitIndex, mu>>
        /\ UNCHANGED <<ctxVars, metaVars, tasks>>
     \/ /\ role[i] = "kLeader"
        /\ res.term <= currentTerm[i]
        /\ ~res.success
        /\ IF adjust > 0
           THEN /\ nextIndex' = [nextIndex EXCEPT ![i][j] = adjust]
                /\ tasks' = [tasks EXCEPT ![i][j] =
                               Schedule(@, "AppendEntries")]
           ELSE UNCHANGED <<nextIndex, tasks>>
        /\ UNCHANGED <<ctxVars, metaVars, commitIndex, matchIndex, mu>>
  /\ UNCHANGED <<log, metaCommit, smVars, late, voteVars, cmds, bounds>>

\* SendAndRecv fails: it cannot connect or send, its receive times out, or
\* the answer is lost.  A request already on its way may still be served.
SendAndRecvFails(i, j) ==
  /\ fails < MaxFails
  /\ fails' = fails + 1
  /\ call[i][j].stage \in {"sent", "serving", "replied"}
  /\ call' = [call EXCEPT ![i][j] = Idle]
  /\ \/ UNCHANGED late
     \/ /\ call[i][j].stage = "sent"
        /\ Cardinality(late) < MaxLate
        /\ late' = late \cup {call[i][j].req}
  /\ UNCHANGED <<ctxVars, metaVars, logVars, smVars, peerVars, mu, voteVars,
                 tasks, cmds, beats, restarts>>

-----------------------------------------------------------------------------
(* FloydApply *)

applyFrame == <<ctxVars, metaVars, logVars, peerVars, netVars, voteVars, tasks,
                cmds, bounds>>

\* ApplyStateMachine reads last_applied and commit_index, without global_mu.
\* Every change of commit_index schedules it, and so does Start.
ApplyStateMachine(i) ==
  /\ batch[i].upto = 0
  /\ lastApplied[i] < commitIndex[i]
  /\ batch' = [batch EXCEPT ![i] = [at |-> lastApplied[i],
                                    upto |-> commitIndex[i],
                                    entry |-> EmptyEntry]]
  /\ UNCHANGED <<lastApplied, metaApplied, applied, applyFrame>>

\* Mutant: every turn of the loop reads the entry after last_applied.
EntryToApplyFirst(i, index) ==
  LET first == lastApplied[i] + 1
  IN IF first \in 1..LastLogIndex(i) THEN log[i][first] ELSE batch[i].entry

\* What the loop hands to Apply at index: GetEntry leaves the Entry object as
\* it was when the log has no such index, and its result is not looked at.
EntryToApply(i, index) ==
  IF index \in 1..LastLogIndex(i) THEN log[i][index] ELSE batch[i].entry

\* One turn of the loop: GetEntry and Apply.
Apply(i) ==
  LET index == batch[i].at + 1
      entry == EntryToApply(i, index)
  IN
  /\ batch[i].at < batch[i].upto
  /\ applied' = [applied EXCEPT ![i] =
                   @ \cup {[index |-> index, entry |-> entry]}]
  /\ batch' = [batch EXCEPT ![i].at = index, ![i].entry = entry]
  /\ UNCHANGED <<lastApplied, metaApplied, applyFrame>>

\* Apply fails: ApplyStateMachine gives up and is scheduled again, to start
\* from last_applied.  What it has applied so far stays applied.
ApplyFails(i) ==
  /\ fails < MaxFails
  /\ fails' = fails + 1
  /\ batch[i].at < batch[i].upto
  /\ batch' = [batch EXCEPT ![i] = NoBatch]
  /\ UNCHANGED <<lastApplied, metaApplied, applied, ctxVars, metaVars, logVars,
                 peerVars, netVars, voteVars, tasks, cmds, beats, restarts>>

\* Mutant: the batch counts as applied while it is being applied.
BatchDoneEarly(i) == batch[i].upto # 0

BatchDone(i) == batch[i].upto # 0 /\ batch[i].at = batch[i].upto

\* The end of ApplyStateMachine: the whole batch is counted as applied.
SetLastApplied(i) ==
  /\ BatchDone(i)
  /\ lastApplied' = [lastApplied EXCEPT ![i] = batch[i].upto]
  /\ metaApplied' = [metaApplied EXCEPT ![i] = batch[i].upto]
  /\ batch' = [batch EXCEPT ![i] = NoBatch]
  /\ UNCHANGED <<applied, applyFrame>>

-----------------------------------------------------------------------------
(* FloydImpl: commands *)

commandFrame == <<ctxVars, metaVars, smVars, peerVars, netVars, voteVars,
                  tasks, bounds>>

\* DoCommand at the server that takes itself for the leader.  A server that
\* does not forwards the command, which is then issued there.
DoCommand(c, i) ==
  /\ mu[i] = Free
  /\ cmds[c].stage = "new"
  /\ leader[i] = i
  /\ cmds' = [cmds EXCEPT ![c] = [@ EXCEPT !.stage = "checked", !.at = i]]
  /\ UNCHANGED <<logVars, commandFrame>>

\* ExecuteCommand, without global_mu: the entry gets the current_term of this
\* moment, whatever the role is by now.
BuildLogEntry(c) ==
  /\ cmds[c].stage = "checked"
  /\ cmds' = [cmds EXCEPT ![c] =
                [@ EXCEPT !.stage = "built", !.read = currentTerm[cmds[c].at]]]
  /\ UNCHANGED <<logVars, commandFrame>>

\* ExecuteCommand's call of RaftLog::Append, still without global_mu.
ExecuteCommand(c) ==
  LET i == cmds[c].at IN
  /\ cmds[c].stage = "built"
  /\ log' = [log EXCEPT ![i] = Append(@, [term |-> cmds[c].read, cmd |-> c])]
  /\ cmds' = [cmds EXCEPT ![c] =
                [@ EXCEPT !.stage = IF SingleMode THEN "appended"
                                                  ELSE "waiting",
                          !.index = Len(log[i]) + 1]]
  /\ UNCHANGED <<commitIndex, metaCommit, commandFrame>>

\* In single mode the calling thread itself, without a lock, sets the commit
\* index, reads it again and saves what it read.
CommitSingle(c) ==
  /\ cmds[c].stage = "appended"
  /\ commitIndex' = [commitIndex EXCEPT ![cmds[c].at] = cmds[c].index]
  /\ cmds' = [cmds EXCEPT ![c] = [@ EXCEPT !.stage = "committed"]]
  /\ UNCHANGED <<log, metaCommit, commandFrame>>

RereadCommitIndex(c) ==
  /\ cmds[c].stage = "committed"
  /\ cmds' = [cmds EXCEPT ![c] =
                [@ EXCEPT !.stage = "saving", !.read = commitIndex[cmds[c].at]]]
  /\ UNCHANGED <<logVars, commandFrame>>

SaveCommitIndex(c) ==
  /\ cmds[c].stage = "saving"
  /\ metaCommit' = [metaCommit EXCEPT ![cmds[c].at] = cmds[c].read]
  /\ cmds' = [cmds EXCEPT ![c] = [@ EXCEPT !.stage = "waiting"]]
  /\ UNCHANGED <<log, commitIndex, commandFrame>>

\* Mutant: the command is answered without the wait.
CommandAppliedEarly(c) ==
  /\ cmds[c].stage = "waiting"
  /\ cmds' = [cmds EXCEPT ![c] = [@ EXCEPT !.stage = "ok"]]
  /\ UNCHANGED <<logVars, commandFrame>>

\* The wait for last_applied ends: the command is answered.
CommandApplied(c) ==
  /\ cmds[c].stage = "waiting"
  /\ lastApplied[cmds[c].at] >= cmds[c].index
  /\ cmds' = [cmds EXCEPT ![c] = [@ EXCEPT !.stage = "ok"]]
  /\ UNCHANGED <<logVars, commandFrame>>

\* TimedWait gives up after a second.
CommandTimeout(c) ==
  /\ cmds[c].stage = "waiting"
  /\ cmds' = [cmds EXCEPT ![c] = [@ EXCEPT !.stage = "failed"]]
  /\ UNCHANGED <<logVars, commandFrame>>

-----------------------------------------------------------------------------
(* FloydImpl::Init after a crash: RecoverInit and new Peer objects.  The calls *)
(* that were being served here fail with their connections.                *)

Restart(i) ==
  /\ restarts < MaxRestarts
  /\ restarts' = restarts + 1
  /\ currentTerm' = [currentTerm EXCEPT ![i] = metaTerm[i]]
  /\ votedFor' = [votedFor EXCEPT ![i] = metaVotedFor[i]]
  /\ commitIndex' = [commitIndex EXCEPT ![i] = metaCommit[i]]
  /\ lastApplied' = [lastApplied EXCEPT ![i] = metaApplied[i]]
  /\ batch' = [batch EXCEPT ![i] = NoBatch]
  /\ role' = [role EXCEPT ![i] = "kFollower"]
  /\ leader' = [leader EXCEPT ![i] = Nil]
  /\ voteQuorum' = [voteQuorum EXCEPT ![i] = 0]
  /\ voteFor' = [voteFor EXCEPT ![i] = {}]
  /\ nextIndex' = [nextIndex EXCEPT ![i] =
                     [j \in Server |-> LastLogIndex(i) + 1]]
  /\ matchIndex' = [matchIndex EXCEPT ![i] =
                      [j \in Server |-> metaApplied[i]]]
  /\ tasks' = [tasks EXCEPT ![i] = [j \in Server |-> <<>>]]
  /\ mu' = [mu EXCEPT ![i] = Free]
  /\ call' = [k \in Server |-> [j \in Server |->
                IF k = i \/ (j = i /\ call[k][j].stage = "serving")
                THEN Idle ELSE call[k][j]]]
  /\ \E left \in SUBSET {call[i][j].req : j \in {k \in Server :
                                            call[i][k].stage = "sent"}} :
       /\ late' = late \cup left
       /\ left = {} \/ Cardinality(late') <= MaxLate
  /\ cmds' = [c \in Command |->
                IF cmds[c].at = i /\ cmds[c].stage # "ok"
                THEN [cmds[c] EXCEPT !.stage = "failed"] ELSE cmds[c]]
  /\ UNCHANGED <<metaVars, log, metaCommit, metaApplied, applied, grants,
                 fellBack, beats, fails>>

-----------------------------------------------------------------------------

Init ==
  /\ currentTerm = [i \in Server |-> 0]
  /\ role = [i \in Server |-> "kFollower"]
  /\ votedFor = [i \in Server |-> Nil]
  /\ leader = [i \in Server |-> Nil]
  /\ voteQuorum = [i \in Server |-> 0]
  /\ commitIndex = [i \in Server |-> 0]
  /\ lastApplied = [i \in Server |-> 0]
  /\ voteFor = [i \in Server |-> {}]
  /\ log = [i \in Server |-> <<>>]
  /\ metaTerm = [i \in Server |-> 0]
  /\ metaVotedFor = [i \in Server |-> Nil]
  /\ metaCommit = [i \in Server |-> 0]
  /\ metaApplied = [i \in Server |-> 0]
  /\ applied = [i \in Server |-> {}]
  /\ batch = [i \in Server |-> NoBatch]
  /\ nextIndex = [i \in Server |-> [j \in Server |-> 1]]
  /\ matchIndex = [i \in Server |-> [j \in Server |-> 0]]
  /\ tasks = [i \in Server |-> [j \in Server |-> <<>>]]
  /\ call = [i \in Server |-> [j \in Server |-> Idle]]
  /\ late = {}
  /\ mu = [i \in Server |-> Free]
  /\ cmds = [c \in Command |-> [stage |-> "new", at |-> Nil,
                            read |-> 0, index |-> 0]]
  /\ beats = 0
  /\ fails = 0
  /\ restarts = 0
  /\ grants = {}
  /\ fellBack = {}

\* The thread that holds global_mu of i goes on.
HolderStep(i) ==
  \/ AppendReceived(i)
  \/ AdvanceFollowerCommitIndex(i)
  \/ SaveFollowerCommitIndex(i)
  \/ SaveLeaderCommitIndex(i)

\* The threads of one server: primary, apply, and a sender per peer.
ServerStep(i) ==
  \/ LaunchCheckLeader(i)
  \/ LaunchHeartBeat(i)
  \/ ApplyStateMachine(i)
  \/ Apply(i)
  \/ ApplyFails(i)
  \/ SetLastApplied(i)
  \/ Restart(i)

PeerStep(i, j) ==
  \/ RequestVoteRPC(i, j)
  \/ AppendEntriesSkip(i, j)
  \/ AppendEntriesRPC(i, j)
  \/ AppendEntriesRead(i, j)
  \/ RequestVoteReply(i, j)
  \/ AppendEntriesReply(i, j)
  \/ SendAndRecvFails(i, j)

CommandStep(c) ==
  \/ \E i \in Server : DoCommand(c, i)
  \/ BuildLogEntry(c)
  \/ ExecuteCommand(c)
  \/ CommitSingle(c)
  \/ RereadCommitIndex(c)
  \/ SaveCommitIndex(c)
  \/ CommandApplied(c)
  \/ CommandTimeout(c)

Next ==
  \/ \E i \in Server : ServerStep(i)
  \/ \E i \in Server : \E j \in Server \ {i} : PeerStep(i, j)
  \/ \E r \in InFlight : ReplyRequestVote(r) \/ ReplyAppendEntries(r)
  \/ \E i \in Server : HolderStep(i)
  \/ \E c \in Command : CommandStep(c)

Spec == Init /\ [][Next]_vars

-----------------------------------------------------------------------------
(* Properties *)

CtxTypeOK ==
  /\ currentTerm \in [Server -> Nat]
  /\ role \in [Server -> Role]
  /\ votedFor \in [Server -> Address]
  /\ leader \in [Server -> Address]
  /\ voteQuorum \in [Server -> Nat]

MetaTypeOK ==
  /\ metaTerm \in [Server -> Nat]
  /\ metaVotedFor \in [Server -> Address]

LogTypeOK ==
  /\ log \in [Server -> Seq(Entry)]
  /\ commitIndex \in [Server -> Nat]
  /\ metaCommit \in [Server -> Nat]

SmTypeOK ==
  /\ lastApplied \in [Server -> Nat]
  /\ metaApplied \in [Server -> Nat]
  /\ applied \in [Server -> SUBSET [index : Nat, entry : Entry]]
  /\ batch \in [Server -> Batch]

PeerTypeOK ==
  /\ nextIndex \in [Server -> [Server -> Nat \ {0}]]
  /\ matchIndex \in [Server -> [Server -> Nat]]

NetTypeOK ==
  /\ call \in [Server -> [Server -> Call]]
  /\ late \in SUBSET (VoteRequest \cup AppendRequest)
  /\ mu \in [Server -> Holder]

VoteTypeOK ==
  /\ voteFor \in [Server -> SUBSET [term : Nat, candidate : Server]]
  /\ grants \in SUBSET [term : Nat, voter : Server, candidate : Server]
  /\ fellBack \in SUBSET Server

\* Every variable has its type.
TypeOK ==
  /\ CtxTypeOK
  /\ MetaTypeOK
  /\ LogTypeOK
  /\ SmTypeOK
  /\ PeerTypeOK
  /\ NetTypeOK
  /\ VoteTypeOK
  /\ tasks \in [Server -> [Server -> Seq(Task)]]
  /\ cmds \in [Command -> CommandState]
  /\ {beats, fails, restarts} \subseteq Nat

-----------------------------------------------------------------------------
(* Properties: elections *)

Voters(i, term) ==
  {v \in Server \ {i} : [term |-> term, voter |-> v, candidate |-> i] \in grants}

\* A leader was voted for, in the term it leads, by servers that form a
\* majority together with itself.  CheckAndVote counts answers, and nothing in
\* it says that they come from different peers, or were given in this
\* candidacy: up to three servers one answer decides, beyond that it may not.
LeaderWasElected ==
  \A i \in Server : role[i] = "kLeader" =>
    2 * (1 + Cardinality(Voters(i, currentTerm[i]))) > Cardinality(Server)

\* A server grants its vote to one candidate per term.  ReplyRequestVote finds
\* out from vote_for_, which is kept in memory only.
OneVotePerTerm ==
  \A g, h \in grants :
    g.term = h.term /\ g.voter = h.voter => g.candidate = h.candidate

\* Two servers never lead the same term at the same time, as long as no
\* candidate has gone back to an older term (the denial branch of
\* Peer::RequestVoteRPC).  A candidate's vote for itself is not in vote_for_:
\* what protects the term is that granting a vote ends a candidacy.
OneLeaderPerTerm ==
  fellBack = {} => \A i, j \in Server :
    /\ role[i] = "kLeader" /\ role[j] = "kLeader"
    /\ currentTerm[i] = currentTerm[j]
    => i = j

\* A thread that holds global_mu has set the commit index and not saved it.
Unsaved(i) == mu[i].at \in {"following", "leading"}

\* What RecoverInit would read is what the running server goes by: every
\* change of the term and of the commit index is saved before global_mu is
\* given up, and what is saved as applied is in db_, also when the server
\* stops in the middle of ApplyStateMachine.  (The commit index not in single
\* mode, where ExecuteCommand sets it without a lock.)
NothingForgotten ==
  \A i \in Server :
    /\ metaTerm[i] = currentTerm[i]
    /\ ~SingleMode /\ ~Unsaved(i) => metaCommit[i] = commitIndex[i]
    /\ metaApplied[i] = lastApplied[i]
    /\ \A k \in 1..metaApplied[i] : \E a \in applied[i] : a.index = k

-----------------------------------------------------------------------------
(* Properties: replication, while at most one server ever stands *)

IsMajority(Q) == 2 * Cardinality(Q) > Cardinality(Server)

IsPrefix(s, t) == Len(s) <= Len(t) /\ s = SubSeq(t, 1, Len(s))

\* Every log is a prefix of the log of the only candidate, although
\* AppendEntriesRPC reads the entries after it gave up the lock under which it
\* chose prev_log_index, and ReplyAppendEntries cuts off without comparing.
LogsFollowLeader ==
  \A i \in Server, l \in Electable : IsPrefix(log[i], log[l])

\* An index some server takes for committed is in the logs of a majority.
CommittedOnMajority ==
  \A i \in Server :
    IsMajority({j \in Server : Len(log[j]) >= commitIndex[i]})

\* A command that was answered ok is in the logs of a majority.
AckedOnMajority ==
  \A c \in Command : cmds[c].stage = "ok" =>
    IsMajority({j \in Server : \E k \in 1..Len(log[j]) : log[j][k].cmd = c})

\* A command that was answered ok is what its server applied at the index the
\* command was given: the wait in ExecuteCommand only compares indexes.
AckedIsApplied ==
  \A c \in Command : cmds[c].stage = "ok" =>
    \E a \in applied[cmds[c].at] : a.index = cmds[c].index /\ a.entry.cmd = c

\* What two servers apply at an index is the same, and so is what a server
\* applies again after it has stopped in the middle of ApplyStateMachine.  With
\* two servers nothing is committed that the other one could have to be sent
\* again.  With three it can be, and one answer that is lost is enough to have
\* an empty entry applied between TruncateSuffix and Append.
StateMachineSafety ==
  \A i, j \in Server : \A a \in applied[i], b \in applied[j] :
    a.index = b.index => a.entry = b.entry

\* What a leader takes for replicated at a peer is in the peer's log, although
\* an answer is applied to the match_index_ of whatever term it arrives in.
MatchIndexSound ==
  \A i, j \in Server : role[i] = "kLeader" /\ i # j =>
    matchIndex[i][j] <= Len(log[j])

\* What a server has saved as its commit index never goes back, and what it
\* goes by only when it is restarted before it has saved a new one, although
\* AdvanceFollowerCommitIndex takes whatever the leader says, and leaves out
\* the comparison its comment asks for.
CommitIndexNeverDecreases ==
  [][\A i \in Server :
       /\ metaCommit'[i] >= metaCommit[i]
       /\ \/ commitIndex'[i] >= commitIndex[i]
          \/ Unsaved(i) /\ restarts' > restarts]_vars

-----------------------------------------------------------------------------
(* What the cluster promises, while only one server stands *)

Leading == CHOOSE l \in Electable : TRUE

\* The servers that apply only what the leader has.  With three servers an
\* index may be committed while a call to the third has yet to be repeated;
\* its log is then cut off below what it has committed, and the apply thread
\* does not wait until the entries are back.
Reliable == IF Cardinality(Server) <= 2 THEN Server ELSE Electable

Issued     == {c \in Command : cmds[c].stage # "new"}
AnsweredOk == {c \in Command : cmds[c].stage = "ok"}
Order      == [k \in 1..Len(log[Leading]) |-> log[Leading][k].cmd]
Store      == [i \in Reliable |-> {[index |-> a.index, cmd |-> a.entry.cmd] :
                                     a \in applied[i]}]

Cluster == INSTANCE ClusterContract
  WITH Server <- Reliable,
       issued <- Issued, order <- Order, store <- Store, answered <- AnsweredOk

\* The cluster keeps its promises through lost calls, failures of Apply and
\* crashes, also between the steps of ReplyAppendEntries and between a commit
\* index and its save: no command gets two places in the order or a place
\* before it was issued, none loses its place, the servers that can be relied
\* on apply them in this order, and ok is answered for what was applied.
ImplementsCluster == Cluster!Spec

-----------------------------------------------------------------------------
(* Fairness and liveness *)

\* A request on its way from i to j is served by a worker thread of j.
Serve(i, j) ==
  \E r \in InFlight : /\ r.from = i
                      /\ r.to = j
                      /\ ReplyRequestVote(r) \/ ReplyAppendEntries(r)

\* The peer thread works off its queue and its answers.
PeerThread(i, j) ==
  \/ RequestVoteRPC(i, j)
  \/ AppendEntriesSkip(i, j)
  \/ AppendEntriesRead(i, j)
  \/ RequestVoteReply(i, j)
  \/ AppendEntriesReply(i, j)

ApplyThread(i) == ApplyStateMachine(i) \/ Apply(i) \/ SetLastApplied(i)

\* The threads never stop: primary's two timers, the apply thread, the peer
\* threads and the workers, with global_mu or without.  AppendEntriesSkip is
\* not taken for ever: it asks for an RPC less than heartbeat_us ago, and heart
\* beats are heartbeat_us apart.
Fairness ==
  /\ \A i \in Server : /\ WF_vars(LaunchCheckLeader(i))
                       /\ WF_vars(LaunchHeartBeat(i))
                       /\ WF_vars(ApplyThread(i))
                       /\ WF_vars(HolderStep(i))
  /\ \A i, j \in Server : i # j => /\ WF_vars(PeerThread(i, j))
                                   /\ SF_vars(AppendEntriesRPC(i, j))
                                   /\ WF_vars(Serve(i, j))

FairSpec == Spec /\ Fairness

\* A command that was appended by a leader that keeps its place is applied in
\* the end by every server that can be relied on: by the leader, and with two
\* servers by the other one too, also when its client has given up waiting,
\* when an RPC fails, and however far behind the peer is.
EventuallyApplied ==
  \A c \in Command :
    cmds[c].stage = "waiting"
    ~> \A j \in Reliable : \E a \in applied[j] : a.entry.cmd = c

=============================================================================
