------------------------ MODULE FloydReplicationProofs ------------------------
(***************************************************************************)
(* Proofs about FloydRaft in a cluster in which one server stands for      *)
(* election (Electable has one member): how the logs are replicated, for   *)
(* any number of servers and commands and any bounds.  All but the first   *)
(* theorem need that no request is served after its caller has given it up *)
(* (MaxLate = 0).  The invariant grows in layers, each of which rests on   *)
(* the ones before it:                                                     *)
(*                                                                         *)
(*   OthersFollow  the other servers start nothing                         *)
(*   PartsSent     a request is a part of the candidate's log, and every   *)
(*                 log is the beginning of it                              *)
(*   VotesCover    a request for a vote tells of as long a log as the      *)
(*                 voter has, or will have when it is done                 *)
(*   TermsInv      no server is ahead of the candidate's term and none     *)
(*                 denies its vote, so it leads until it restarts          *)
(*   PeersSettled  an answer says what is in the log of the peer           *)
(*   MatchesKept   what the leader takes for replicated at a peer is there *)
(*                 and stays, although the peer cuts its log off before it *)
(*                 appends what a repeated request brings                  *)
(*                                                                         *)
(* FloydCommitProofs goes on from there, to what is committed and applied. *)
(***************************************************************************)
EXTENDS FloydRaftProofs

\* The server that stands, when there is one.
Candidate    == CHOOSE l \in Server : Electable = {l}
OneCandidate == \E l \in Server : Electable = {l}
Follower     == Server \ {Candidate}

LEMMA CandidateStands ==
  ASSUME OneCandidate
  PROVE  Candidate \in Server /\ Electable = {Candidate}
  BY DEF OneCandidate, Candidate

\* A single server is the candidate.
LEMMA SingleIsCandidate ==
  ASSUME OneCandidate, SingleMode
  PROVE  Server = {Candidate}
<1>1. PICK x : Server = {x}
  BY ServerAssumption, FS_Singleton DEF SingleMode
<1> QED BY <1>1, CandidateStands

-----------------------------------------------------------------------------
(* Only the candidate acts *)

\* The other servers start nothing, and what is under way is the candidate's.
Follows(i) ==
  /\ role[i] = "kFollower"
  /\ leader[i] # i
  /\ \A j \in Server : tasks[i][j] = <<>> /\ call[i][j] = Idle

\* The holder of global_mu is in the middle of ReplyAppendEntries.
Serving(h) == h.at \notin {"free", "leading"}

\* The candidate serves nobody, and another server only the candidate.
HeldFor(i, h) ==
  IF i = Candidate
  THEN ~Serving(h)
  ELSE h.at = "free" \/ (Serving(h) /\ h.req.from = Candidate /\ h.req.to = i)

OthersFollow ==
  /\ \A i \in Follower : Follows(i)
  /\ \A r \in late : r.from = Candidate
  /\ \A c \in Command : cmds[c].stage # "new" => cmds[c].at = Candidate
  /\ \A i \in Server : HeldFor(i, mu[i])

LEMMA OthersInit == Init => OthersFollow
<1> SUFFICES ASSUME Init PROVE OthersFollow
  OBVIOUS
<1>1. \A i \in Follower : Follows(i)
  BY ServerAssumption DEF Init, Follows, Follower, Idle
<1>2. \A i \in Server : HeldFor(i, mu[i])
  BY DEF Init, HeldFor, Serving, Free
<1> QED BY <1>1, <1>2 DEF Init, OthersFollow

\* A holder in the middle of ReplyAppendEntries is a follower's.
LEMMA HolderFollows ==
  ASSUME OneCandidate, TypeOK, OthersFollow, NEW i \in Server
  PROVE  /\ mu[i] \in Holder
         /\ Serving(mu[i]) <=> mu[i].at \in {"cut", "appended", "following"}
         /\ Serving(mu[i]) => /\ i \in Follower
                              /\ mu[i].req \in AppendRequest
                              /\ mu[i].req.from = Candidate
                              /\ mu[i].req.to = i
         /\ i \in Follower => mu[i].at # "leading"
<1>1. mu[i] \in Holder
  BY TypeParts DEF NetTypeOK
<1>2. Serving(mu[i]) <=> mu[i].at \in {"cut", "appended", "following"}
  BY <1>1, HolderParts DEF Serving
<1>3. HeldFor(i, mu[i])
  BY DEF OthersFollow
<1> QED BY <1>1, <1>2, <1>3, HolderParts DEF HeldFor, Serving, Follower

\* A request in flight goes from the candidate to another server.
LEMMA FromCandidate ==
  ASSUME OneCandidate, TypeOK, CallsInv, OthersFollow, NEW r \in InFlight
  PROVE  r.from = Candidate /\ r.to \in Follower
<1>1. CASE r \in late
  BY <1>1, InFlightType, InFlightAddressed DEF OthersFollow, Follower
<1>2. CASE r \notin late
  <2>1. PICK i \in Server, j \in Server :
          call[i][j].stage = "sent" /\ r = call[i][j].req
    BY <1>2 DEF InFlight
  <2>2. i = Candidate
    BY <2>1 DEF OthersFollow, Follows, Follower, Idle
  <2> QED BY <2>1, <2>2 DEF CallsInv, CallsAddressed, Follower
<1> QED BY <1>1, <1>2

\* The steps that are the candidate's alone.
LEMMA CandidateActs ==
  ASSUME OneCandidate, OthersFollow, NEW i \in Server
  PROVE  /\ LaunchCheckLeader(i) \/ LaunchHeartBeat(i) => i = Candidate
         /\ \A j \in Server : PeerStep(i, j) => i = Candidate
         /\ \A c \in Command : DoCommand(c, i) => i = Candidate
<1>1. LaunchCheckLeader(i) => i = Candidate
  BY CandidateStands, SingleIsCandidate DEF LaunchCheckLeader
<1>2. LaunchHeartBeat(i) => i = Candidate
  BY DEF LaunchHeartBeat, OthersFollow, Follows, Follower
<1>3. ASSUME NEW j \in Server, PeerStep(i, j) PROVE i = Candidate
  <2>1. tasks[i][j] # <<>> \/ call[i][j].stage # "idle"
    BY <1>3 DEF PeerStep, RequestVoteRPC, AppendEntriesSkip, AppendEntriesRPC,
                AppendEntriesRead, RequestVoteReply, AppendEntriesReply,
                SendAndRecvFails, TakeTask
  <2> QED BY <2>1 DEF OthersFollow, Follows, Follower, Idle
<1>4. \A c \in Command : DoCommand(c, i) => i = Candidate
  BY DEF DoCommand, OthersFollow, Follows, Follower
<1> QED BY <1>1, <1>2, <1>3, <1>4

\* Steps of the candidate's own threads.
LEMMA OthersKept ==
  ASSUME OneCandidate, OthersFollow, UNCHANGED cmds,
         \A i \in Follower : /\ role'[i] = role[i]
                             /\ leader'[i] = leader[i]
                             /\ \A j \in Server : /\ tasks'[i][j] = tasks[i][j]
                                                  /\ call'[i][j] = call[i][j],
         \A r \in late' : r.from = Candidate,
         \A i \in Server : HeldFor(i, mu'[i])
  PROVE  OthersFollow'
<1>1. \A i \in Follower : Follows(i)'
  BY DEF OthersFollow, Follows
<1> QED BY <1>1 DEF OthersFollow

\* A command's state, field by field.
IsState(s, stage, at, read, index) ==
  /\ s.stage = stage
  /\ s.at = at
  /\ s.read = read
  /\ s.index = index

LEMMA CommandFields ==
  ASSUME NEW s \in CommandState, NEW t, NEW v, NEW w
  PROVE  /\ t = [s EXCEPT !.stage = v] =>
              IsState(t, v, s.at, s.read, s.index)
         /\ t = [s EXCEPT !.stage = v, !.at = w] =>
              IsState(t, v, w, s.read, s.index)
         /\ t = [s EXCEPT !.stage = v, !.read = w] =>
              IsState(t, v, s.at, w, s.index)
         /\ t = [s EXCEPT !.stage = v, !.index = w] =>
              IsState(t, v, s.at, s.read, w)
<1> USE DEF CommandState, RunningCommand, IsState
<1>1. t = [s EXCEPT !.stage = v] => IsState(t, v, s.at, s.read, s.index)
  OBVIOUS
<1>2. t = [s EXCEPT !.stage = v, !.at = w] => IsState(t, v, w, s.read, s.index)
  OBVIOUS
<1>3. t = [s EXCEPT !.stage = v, !.read = w] => IsState(t, v, s.at, w, s.index)
  OBVIOUS
<1>4. t = [s EXCEPT !.stage = v, !.index = w] => IsState(t, v, s.at, s.read, w)
  OBVIOUS
<1> QED BY <1>1, <1>2, <1>3, <1>4

\* What the step of a command does to cmds.
LEMMA CommandEffect ==
  ASSUME TypeOK, NEW c \in Command
  PROVE  LET s == cmds[c] IN
         /\ CommandStep(c) => \A d \in Command \ {c} : cmds'[d] = cmds[d]
         /\ \A i \in Server : DoCommand(c, i) =>
              IsState(cmds'[c], "checked", i, s.read, s.index)
         /\ BuildLogEntry(c) =>
              IsState(cmds'[c], "built", s.at, currentTerm[s.at], s.index)
         /\ ExecuteCommand(c) =>
              IsState(cmds'[c], IF SingleMode THEN "appended" ELSE "waiting",
                s.at, s.read, Len(log[s.at]) + 1)
         /\ CommitSingle(c) =>
              IsState(cmds'[c], "committed", s.at, s.read, s.index)
         /\ RereadCommitIndex(c) =>
              IsState(cmds'[c], "saving", s.at, commitIndex[s.at], s.index)
         /\ SaveCommitIndex(c) =>
              IsState(cmds'[c], "waiting", s.at, s.read, s.index)
         /\ CommandApplied(c) =>
              IsState(cmds'[c], "ok", s.at, s.read, s.index)
         /\ CommandTimeout(c) =>
              IsState(cmds'[c], "failed", s.at, s.read, s.index)
<1> DEFINE s == cmds[c]
<1>1. cmds \in [Command -> CommandState] /\ s \in CommandState
  BY TypeParts
<1>2. ASSUME NEW v, cmds' = [cmds EXCEPT ![c] = v]
      PROVE  cmds'[c] = v /\ \A d \in Command \ {c} : cmds'[d] = cmds[d]
  BY <1>1, <1>2
<1>3. CommandStep(c) => \A d \in Command \ {c} : cmds'[d] = cmds[d]
  BY <1>2 DEF CommandStep, DoCommand, BuildLogEntry, ExecuteCommand,
         CommitSingle, RereadCommitIndex, SaveCommitIndex, CommandApplied,
         CommandTimeout
<1>4. ASSUME NEW i \in Server, DoCommand(c, i)
      PROVE  IsState(cmds'[c], "checked", i, s.read, s.index)
  <2>1. cmds'[c] = [s EXCEPT !.stage = "checked", !.at = i]
    BY <1>2, <1>4 DEF DoCommand
  <2> QED BY <1>1, <2>1, CommandFields
<1>5. ASSUME BuildLogEntry(c)
      PROVE  IsState(cmds'[c], "built", s.at, currentTerm[s.at], s.index)
  <2>1. cmds'[c] = [s EXCEPT !.stage = "built", !.read = currentTerm[s.at]]
    BY <1>2, <1>5 DEF BuildLogEntry
  <2> HIDE DEF s
  <2> QED BY <1>1, <2>1, CommandFields
<1>6. ASSUME ExecuteCommand(c)
      PROVE  IsState(cmds'[c], IF SingleMode THEN "appended" ELSE "waiting",
                s.at, s.read, Len(log[s.at]) + 1)
  <2> DEFINE v == IF SingleMode THEN "appended" ELSE "waiting"
             w == Len(log[s.at]) + 1
  <2>1. cmds'[c] = [s EXCEPT !.stage = v, !.index = w]
    BY <1>2, <1>6 DEF ExecuteCommand
  <2> HIDE DEF s, v, w
  <2>2. IsState(cmds'[c], v, s.at, s.read, w)
    BY <1>1, <2>1, CommandFields
  <2> QED BY <2>2 DEF v, w
<1>7. ASSUME CommitSingle(c)
      PROVE  IsState(cmds'[c], "committed", s.at, s.read, s.index)
  <2>1. cmds'[c] = [s EXCEPT !.stage = "committed"]
    BY <1>2, <1>7 DEF CommitSingle
  <2> QED BY <1>1, <2>1, CommandFields
<1>8. ASSUME RereadCommitIndex(c)
      PROVE  IsState(cmds'[c], "saving", s.at, commitIndex[s.at], s.index)
  <2>1. cmds'[c] = [s EXCEPT !.stage = "saving", !.read = commitIndex[s.at]]
    BY <1>2, <1>8 DEF RereadCommitIndex
  <2> HIDE DEF s
  <2> QED BY <1>1, <2>1, CommandFields
<1>9. ASSUME SaveCommitIndex(c)
      PROVE  IsState(cmds'[c], "waiting", s.at, s.read, s.index)
  <2>1. cmds'[c] = [s EXCEPT !.stage = "waiting"]
    BY <1>2, <1>9 DEF SaveCommitIndex
  <2> QED BY <1>1, <2>1, CommandFields
<1>10. ASSUME CommandApplied(c)
       PROVE  IsState(cmds'[c], "ok", s.at, s.read, s.index)
  <2>1. cmds'[c] = [s EXCEPT !.stage = "ok"]
    BY <1>2, <1>10 DEF CommandApplied
  <2> QED BY <1>1, <2>1, CommandFields
<1>11. ASSUME CommandTimeout(c)
       PROVE  IsState(cmds'[c], "failed", s.at, s.read, s.index)
  <2>1. cmds'[c] = [s EXCEPT !.stage = "failed"]
    BY <1>2, <1>11 DEF CommandTimeout
  <2> QED BY <1>1, <2>1, CommandFields
<1> HIDE DEF s
<1>12. QED
  BY <1>3, <1>4, <1>5, <1>6, <1>7, <1>8, <1>9, <1>10, <1>11 DEF s

\* A command stays where it is executed.
LEMMA CommandStays ==
  ASSUME OneCandidate, TypeOK, OthersFollow, NEW c \in Command, CommandStep(c)
  PROVE  /\ cmds'[c].at = Candidate
         /\ cmds[c].stage # "new" => cmds[c].at = Candidate
         /\ cmds'[c].stage # "new"
<1>1. CASE \E i \in Server : DoCommand(c, i)
  <2>1. PICK i \in Server : DoCommand(c, i)
    BY <1>1
  <2>2. IsState(cmds'[c], "checked", i, cmds[c].read, cmds[c].index)
    BY <2>1, CommandEffect
  <2> QED BY <2>1, <2>2, CandidateActs DEF DoCommand, IsState
<1>2. CASE ~\E i \in Server : DoCommand(c, i)
  <2>1. cmds[c].stage # "new"
    BY <1>2 DEF CommandStep, BuildLogEntry, ExecuteCommand, CommitSingle,
                RereadCommitIndex, SaveCommitIndex, CommandApplied,
                CommandTimeout
  <2>2. cmds'[c].at = cmds[c].at /\ cmds'[c].stage # "new"
    BY <1>2, CommandEffect DEF CommandStep, IsState
  <2> QED BY <2>1, <2>2 DEF OthersFollow
<1> QED BY <1>1, <1>2

LEMMA CommandLeaves ==
  ASSUME NEW c \in Command, CommandStep(c)
  PROVE  UNCHANGED commandFrame
  BY DEF CommandStep, DoCommand, BuildLogEntry, ExecuteCommand, CommitSingle,
         RereadCommitIndex, SaveCommitIndex, CommandApplied, CommandTimeout

\* The command threads of a server end with it; what was answered stays so.
LEMMA RestartCommands ==
  ASSUME TypeOK, NEW i \in Server, Restart(i), NEW c \in Command
  PROVE  /\ cmds'[c].at = cmds[c].at
         /\ cmds'[c].index = cmds[c].index
         /\ \/ cmds'[c] = cmds[c] /\ (cmds[c].at # i \/ cmds[c].stage = "ok")
            \/ /\ cmds'[c].stage = "failed"
               /\ cmds[c].at = i
               /\ cmds[c].stage \notin {"new", "ok"}
<1>1. cmds[c] \in CommandState
  BY TypeParts
<1>2. cmds[c].at = i => cmds[c].stage # "new"
  BY <1>1, ServerAssumption DEF CommandState, RunningCommand
<1>3. CASE cmds[c].at = i /\ cmds[c].stage # "ok"
  <2>1. cmds'[c] = [cmds[c] EXCEPT !.stage = "failed"]
    BY <1>3 DEF Restart
  <2> QED BY <1>1, <1>2, <1>3, <2>1 DEF CommandState, RunningCommand
<1>4. CASE ~(cmds[c].at = i /\ cmds[c].stage # "ok")
  BY <1>4 DEF Restart
<1> QED BY <1>3, <1>4

\* A slot of the peer threads' table is replaced.
LEMMA CallAt ==
  ASSUME TypeOK, NEW i \in Server, NEW j \in Server, NEW c,
         call' = [call EXCEPT ![i][j] = c]
  PROVE  \A k, l \in Server :
           call'[k][l] = IF k = i /\ l = j THEN c ELSE call[k][l]
  BY TypeParts DEF NetTypeOK

\* The step of a peer thread leaves the rows of the other servers alone.
LEMMA PeerStepRow ==
  ASSUME TypeOK, NEW i \in Server, NEW j \in Server, PeerStep(i, j)
  PROVE  /\ \A k \in Server \ {i} : /\ role'[k] = role[k]
                                    /\ leader'[k] = leader[k]
                                    /\ tasks'[k] = tasks[k]
                                    /\ \A l \in Server : call'[k][l] = call[k][l]
                                    /\ mu'[k] = mu[k]
         /\ mu'[i] = mu[i] \/ mu'[i].at = "leading"
         /\ \/ late' = late
            \/ call[i][j].stage = "sent" /\ late' = late \cup {call[i][j].req}
         /\ UNCHANGED <<cmds, voteFor, smVars, log>>
<1>1. /\ role \in [Server -> Role] /\ leader \in [Server -> Address]
      /\ tasks \in [Server -> [Server -> Seq(Task)]]
  BY TypeParts DEF CtxTypeOK
<1>2. ASSUME NEW c, call' = [call EXCEPT ![i][j] = c]
      PROVE  \A k \in Server \ {i}, l \in Server : call'[k][l] = call[k][l]
  BY <1>2, CallAt
<1>3. \A k \in Server \ {i}, l \in Server : call'[k][l] = call[k][l]
  BY <1>2 DEF PeerStep, RequestVoteRPC, AppendEntriesSkip, AppendEntriesRPC,
     AppendEntriesRead, RequestVoteReply, AppendEntriesReply, SendAndRecvFails,
     netVars
<1>4. \A k \in Server \ {i} : tasks'[k] = tasks[k]
  BY <1>1 DEF PeerStep, RequestVoteRPC, AppendEntriesSkip, AppendEntriesRPC,
     AppendEntriesRead, RequestVoteReply, AppendEntriesReply, SendAndRecvFails,
     TakeTask
<1>5. \A k \in Server \ {i} : role'[k] = role[k] /\ leader'[k] = leader[k]
  <2>1. CASE RequestVoteReply(i, j)
    BY <1>1, <2>1 DEF RequestVoteReply, StepDown, BecomeFollower, BecomeLeader,
                      ctxVars
  <2>2. CASE AppendEntriesReply(i, j)
    BY <1>1, <2>2 DEF AppendEntriesReply, StepDown, BecomeFollower, ctxVars
  <2>3. CASE ~RequestVoteReply(i, j) /\ ~AppendEntriesReply(i, j)
    BY <2>3 DEF PeerStep, RequestVoteRPC, AppendEntriesSkip, AppendEntriesRPC,
                AppendEntriesRead, SendAndRecvFails, ctxVars
  <2> QED BY <2>1, <2>2, <2>3
<1>6. \/ late' = late
      \/ call[i][j].stage = "sent" /\ late' = late \cup {call[i][j].req}
  BY DEF PeerStep, RequestVoteRPC, AppendEntriesSkip, AppendEntriesRPC,
     AppendEntriesRead, RequestVoteReply, AppendEntriesReply, SendAndRecvFails,
     netVars
<1>7. UNCHANGED <<cmds, voteFor, smVars, log>>
  <2>1. CASE AppendEntriesReply(i, j)
    BY <2>1 DEF AppendEntriesReply, logVars, voteVars
  <2>2. CASE ~AppendEntriesReply(i, j)
    BY <2>2 DEF PeerStep, RequestVoteRPC, AppendEntriesSkip, AppendEntriesRPC,
       AppendEntriesRead, RequestVoteReply, SendAndRecvFails, logVars, voteVars
  <2> QED BY <2>1, <2>2
<1>8. /\ \A k \in Server \ {i} : mu'[k] = mu[k]
      /\ mu'[i] = mu[i] \/ mu'[i].at = "leading"
  <2>1. UNCHANGED mu \/ mu' = [mu EXCEPT ![i] = [at |-> "leading"]]
    <3>1. CASE AppendEntriesReply(i, j)
      BY <3>1 DEF AppendEntriesReply, AdvanceLeaderCommitIndex
    <3>2. CASE ~AppendEntriesReply(i, j)
      BY <3>2 DEF PeerStep, RequestVoteRPC, AppendEntriesSkip,
         AppendEntriesRPC, AppendEntriesRead, RequestVoteReply,
         SendAndRecvFails, netVars
    <3> QED BY <3>1, <3>2
  <2> QED BY <2>1, TypeParts DEF NetTypeOK
<1> QED BY <1>3, <1>4, <1>5, <1>6, <1>7, <1>8

\* A request is answered at once, or the worker keeps global_mu and goes on.
LEMMA Served ==
  ASSUME NEW r \in InFlight, ReplyRequestVote(r) \/ ReplyAppendEntries(r)
  PROVE  /\ mu[r.to] = Free
         /\ \/ /\ \E res : Reply(r, res)
               /\ UNCHANGED <<mu, log>>
            \/ /\ r.type = "AppendEntries"
               /\ BeginService(r)
               /\ mu' = [mu EXCEPT ![r.to] = [at |-> "cut", req |-> r]]
               /\ log' = [log EXCEPT ![r.to] =
                            TruncateSuffix(@, r.prevLogIndex + 1)]
         /\ UNCHANGED <<commitIndex, metaCommit, smVars, peerVars, tasks, cmds,
                        bounds>>
<1>1. CASE ReplyRequestVote(r)
  BY <1>1 DEF ReplyRequestVote, logVars
<1>2. CASE ReplyAppendEntries(r)
  BY <1>2 DEF ReplyAppendEntries
<1> QED BY <1>1, <1>2

\* Serving a request moves its slot, or takes it from the late ones.
LEMMA ServeRow ==
  ASSUME TypeOK, NEW r \in InFlight, ReplyRequestVote(r) \/ ReplyAppendEntries(r)
  PROVE  /\ \A k, l \in Server :
              k # r.from \/ l # r.to => call'[k][l] = call[k][l]
         /\ late' \subseteq late
         /\ \A k \in Server \ {r.to} : /\ role'[k] = role[k]
                                       /\ leader'[k] = leader[k]
                                       /\ currentTerm'[k] = currentTerm[k]
                                       /\ voteFor'[k] = voteFor[k]
                                       /\ log'[k] = log[k]
                                       /\ mu'[k] = mu[k]
         /\ UNCHANGED <<commitIndex, metaCommit, smVars, peerVars, tasks, cmds,
                        bounds>>
<1>1. /\ role \in [Server -> Role] /\ leader \in [Server -> Address]
      /\ currentTerm \in [Server -> Nat]
      /\ DOMAIN voteFor = Server
      /\ DOMAIN log = Server
      /\ DOMAIN mu = Server
      /\ r.from \in Server /\ r.to \in Server
  BY TypeParts, InFlightType DEF CtxTypeOK, VoteTypeOK, LogTypeOK, NetTypeOK
<1>2. \E c : UNCHANGED call \/ call' = [call EXCEPT ![r.from][r.to] = c]
  <2>1. CASE BeginService(r)
    <3> DEFINE c == [stage |-> "serving", req |-> r]
    <3>1. UNCHANGED call \/ call' = [call EXCEPT ![r.from][r.to] = c]
      BY <2>1 DEF BeginService
    <3> HIDE DEF c
    <3> QED BY <3>1
  <2>2. ASSUME NEW res, Reply(r, res)
        PROVE  \E c : UNCHANGED call \/ call' = [call EXCEPT ![r.from][r.to] = c]
    <3> DEFINE c == [stage |-> "replied", req |-> r, res |-> res]
    <3>1. UNCHANGED call \/ call' = [call EXCEPT ![r.from][r.to] = c]
      BY <2>2 DEF Reply
    <3> HIDE DEF c
    <3> QED BY <3>1
  <2> QED BY <2>1, <2>2, Served
<1>3. \A k, l \in Server : k # r.from \/ l # r.to => call'[k][l] = call[k][l]
  <2>0. PICK c : UNCHANGED call \/ call' = [call EXCEPT ![r.from][r.to] = c]
    BY <1>2
  <2>1. CASE UNCHANGED call
    BY <2>1
  <2>2. CASE call' = [call EXCEPT ![r.from][r.to] = c]
    <3> DEFINE i == r.from
               j == r.to
    <3>1. i \in Server /\ j \in Server /\ call' = [call EXCEPT ![i][j] = c]
      BY <1>1, <2>2
    <3> HIDE DEF i, j
    <3>2. \A k, l \in Server :
            call'[k][l] = IF k = i /\ l = j THEN c ELSE call[k][l]
      BY <3>1, TypeParts DEF NetTypeOK
    <3> QED BY <3>2 DEF i, j
  <2> QED BY <2>0, <2>1, <2>2
<1>4. late' \subseteq late
  BY Served DEF Reply, BeginService
<1>5. \A k \in Server \ {r.to} : log'[k] = log[k] /\ mu'[k] = mu[k]
  <2>1. CASE UNCHANGED <<mu, log>>
    BY <2>1
  <2>2. CASE /\ mu' = [mu EXCEPT ![r.to] = [at |-> "cut", req |-> r]]
             /\ log' = [log EXCEPT ![r.to] =
                          TruncateSuffix(@, r.prevLogIndex + 1)]
    BY <1>1, <2>2
  <2> QED BY <2>1, <2>2, Served
<1>6. CASE ReplyRequestVote(r)
  <2>1. \A k \in Server \ {r.to} : /\ role'[k] = role[k]
                                   /\ leader'[k] = leader[k]
                                   /\ currentTerm'[k] = currentTerm[k]
                                   /\ voteFor'[k] = voteFor[k]
    BY <1>1, <1>6 DEF ReplyRequestVote, BecomeFollower, ctxVars, voteVars
  <2> QED BY <1>3, <1>4, <1>5, <2>1, Served
<1>7. CASE ReplyAppendEntries(r)
  <2>1. \A k \in Server \ {r.to} : /\ role'[k] = role[k]
                                   /\ leader'[k] = leader[k]
                                   /\ currentTerm'[k] = currentTerm[k]
    <3>1. FollowSender(r.to, r) \/ UNCHANGED ctxVars
      BY <1>7 DEF ReplyAppendEntries
    <3>2. StepDown(r.to, r.term, r.from) \/ UNCHANGED ctxVars
      BY <3>1 DEF FollowSender
    <3> QED BY <1>1, <3>2 DEF StepDown, BecomeFollower, ctxVars
  <2>2. UNCHANGED voteFor
    BY <1>7 DEF ReplyAppendEntries, voteVars
  <2> QED BY <1>3, <1>4, <1>5, <2>1, <2>2, Served
<1> QED BY <1>6, <1>7

\* The slot of peer thread k for l gets its answer from holder h of l.
Answered(c, d, h) ==
  /\ c.stage = "serving" /\ c.req = h.req
  /\ d.stage = "replied" /\ d.req = h.req

\* The thread that holds global_mu goes on, or gives it up with an answer.
LEMMA HolderRow ==
  ASSUME TypeOK, CallsInv, NEW i \in Server, HolderStep(i)
  PROVE  /\ UNCHANGED serviceFrame
         /\ \A k \in Server \ {i} : /\ log'[k] = log[k]
                                    /\ commitIndex'[k] = commitIndex[k]
                                    /\ metaCommit'[k] = metaCommit[k]
                                    /\ mu'[k] = mu[k]
         /\ \/ mu'[i] = Free
            \/ /\ mu[i].at \in {"cut", "appended"}
               /\ mu'[i].at \in {"appended", "following"}
               /\ mu'[i].req = mu[i].req
               /\ UNCHANGED call
         /\ \A k, l \in Server :
              call'[k][l] = call[k][l]
              \/ /\ l = i /\ k = mu[i].req.from /\ Serving(mu[i])
                 /\ Answered(call[k][l], call'[k][l], mu[i])
<1>1. /\ DOMAIN log = Server /\ DOMAIN mu = Server
      /\ DOMAIN commitIndex = Server /\ DOMAIN metaCommit = Server
      /\ mu[i] \in Holder
  BY TypeParts DEF LogTypeOK, NetTypeOK
<1>2. \A k \in Server \ {i} : /\ log'[k] = log[k]
                             /\ commitIndex'[k] = commitIndex[k]
                             /\ metaCommit'[k] = metaCommit[k]
                             /\ mu'[k] = mu[k]
  BY <1>1 DEF HolderStep, AppendReceived, AdvanceFollowerCommitIndex,
     SaveFollowerCommitIndex, SaveLeaderCommitIndex, SetCommitIndex, EndService
<1> DEFINE r == mu[i].req
<1>3. \/ /\ mu[i].at \in {"cut", "following"}
         /\ \E res : EndService(i, res)
      \/ /\ mu[i].at \in {"cut", "appended"}
         /\ \E a \in {"appended", "following"} :
              mu' = [mu EXCEPT ![i] = [at |-> a, req |-> r]]
         /\ UNCHANGED call
      \/ mu' = [mu EXCEPT ![i] = Free] /\ UNCHANGED call
  <2>1. CASE AppendReceived(i)
    BY <2>1 DEF AppendReceived
  <2>2. CASE AdvanceFollowerCommitIndex(i)
    BY <2>2 DEF AdvanceFollowerCommitIndex
  <2>3. CASE SaveFollowerCommitIndex(i) \/ SaveLeaderCommitIndex(i)
    BY <2>3 DEF SaveFollowerCommitIndex, SaveLeaderCommitIndex
  <2> QED BY <2>1, <2>2, <2>3 DEF HolderStep
<1>4. CASE mu[i].at \in {"cut", "following"} /\ \E res : EndService(i, res)
  <2>1. PICK res : EndService(i, res)
    BY <1>4
  <2>2. mu'[i] = Free
    BY <1>1, <2>1 DEF EndService
  <2>3. r \in AppendRequest /\ Serving(mu[i])
    BY <1>1, <1>4, HolderParts DEF Serving
  <2> DEFINE c == [stage |-> "replied", req |-> r, res |-> res]
  <2>4. CASE /\ r.from \in Server \ {i}
             /\ call[r.from][i] = [stage |-> "serving", req |-> r]
             /\ call' = [call EXCEPT ![r.from][i] = c]
    <3>1. Answered(call[r.from][i], c, mu[i])
      BY <2>4 DEF Answered
    <3> HIDE DEF c
    <3>2. \A k, l \in Server :
            call'[k][l] = IF k = r.from /\ l = i THEN c ELSE call[k][l]
      <4> DEFINE f == r.from
      <4>1. f \in Server /\ call' = [call EXCEPT ![f][i] = c]
        BY <2>4
      <4> HIDE DEF f
      <4>2. \A k, l \in Server :
              call'[k][l] = IF k = f /\ l = i THEN c ELSE call[k][l]
        BY <4>1, TypeParts DEF NetTypeOK
      <4> QED BY <4>2 DEF f
    <3> QED BY <1>2, <2>2, <2>3, <3>1, <3>2, HolderFrame
  <2>5. CASE UNCHANGED call
    BY <1>2, <2>2, <2>5, HolderFrame
  <2> QED BY <2>1, <2>3, <2>4, <2>5, EndServiceSlot
<1>5. CASE /\ mu[i].at \in {"cut", "appended"}
           /\ \E a \in {"appended", "following"} :
                mu' = [mu EXCEPT ![i] = [at |-> a, req |-> r]]
           /\ UNCHANGED call
  BY <1>1, <1>2, <1>5, HolderFrame
<1>6. CASE mu' = [mu EXCEPT ![i] = Free] /\ UNCHANGED call
  BY <1>1, <1>2, <1>6, HolderFrame
<1> QED BY <1>3, <1>4, <1>5, <1>6

\* A follower that serves a request of the candidate stays one.
LEMMA ServeFollows ==
  ASSUME OneCandidate, TypeOK, CallsInv, OthersFollow, NEW r \in InFlight,
         ReplyRequestVote(r) \/ ReplyAppendEntries(r)
  PROVE  role'[r.to] = "kFollower" /\ leader'[r.to] # r.to
<1>1. /\ role \in [Server -> Role] /\ leader \in [Server -> Address]
      /\ r.to \in Server /\ r.from # r.to /\ Nil # r.to
  BY TypeParts, InFlightType, InFlightAddressed, ServerAssumption DEF CtxTypeOK
<1>2. role[r.to] = "kFollower" /\ leader[r.to] # r.to
  BY FromCandidate DEF OthersFollow, Follows
<1>3. CASE ReplyRequestVote(r)
  BY <1>1, <1>2, <1>3 DEF ReplyRequestVote, BecomeFollower, ctxVars
<1>4. CASE ReplyAppendEntries(r)
  BY <1>1, <1>2, <1>4 DEF ReplyAppendEntries, FollowSender, StepDown,
                          BecomeFollower, ctxVars
<1> QED BY <1>3, <1>4

\* What a restart leaves behind is what was sent.
LEMMA RestartLeaves ==
  ASSUME NEW i \in Server, Restart(i)
  PROVE  \E left \in SUBSET {call[i][j].req : j \in {k \in Server :
                                              call[i][k].stage = "sent"}} :
           /\ late' = late \cup left
           /\ left = {} \/ Cardinality(late') <= MaxLate
  BY DEF Restart

\* It ends the calls of its own peer threads, and the ones it was serving.
LEMMA RestartSlots ==
  ASSUME NEW i \in Server, Restart(i)
  PROVE  /\ \A k, l \in Server : call'[k][l] \in {Idle, call[k][l]}
         /\ \A l \in Server : call'[i][l] = Idle
         /\ \A k, l \in Server \ {i} : call'[k][l] = call[k][l]
         /\ \A k \in Server :
              call'[k][i] = call[k][i] \/ call[k][i].stage = "serving" \/ k = i
         /\ \A k \in Server : call'[k][i].stage # "serving"
<1>1. \A k, l \in Server :
        call'[k][l] = IF k = i \/ (l = i /\ call[k][l].stage = "serving")
                      THEN Idle ELSE call[k][l]
  BY DEF Restart
<1> QED BY <1>1 DEF Idle

LEMMA OthersRestart ==
  ASSUME OneCandidate, TypeOK, CallsInv, OthersFollow, NEW i \in Server,
         Restart(i)
  PROVE  OthersFollow'
<1>1. \A k \in Follower : Follows(k)'
  <2> SUFFICES ASSUME NEW k \in Follower PROVE Follows(k)'
    OBVIOUS
  <2>1. k \in Server /\ Follows(k)
    BY DEF Follower, OthersFollow
  <2>2. CASE k = i
    <3>1. role'[i] = "kFollower" /\ leader'[i] = Nil
      BY TypeParts DEF Restart, CtxTypeOK
    <3>2. \A j \in Server : tasks'[i][j] = <<>> /\ call'[i][j] = Idle
      BY TypeParts DEF Restart, NetTypeOK
    <3> QED BY <2>1, <2>2, <3>1, <3>2, ServerAssumption DEF Follows
  <2>3. CASE k # i
    <3>1. role'[k] = role[k] /\ leader'[k] = leader[k]
      BY <2>1, <2>3, TypeParts DEF Restart, CtxTypeOK
    <3>2. tasks'[k] = tasks[k]
      BY <2>1, <2>3, TypeParts DEF Restart
    <3>3. \A l \in Server : call'[k][l] = Idle
      BY <2>1, RestartSlots DEF Follows
    <3> QED BY <2>1, <3>1, <3>2, <3>3 DEF Follows
  <2> QED BY <2>2, <2>3
<1>2. \A r \in late' : r.from = Candidate
  <2>1. \A r \in late : r.from = Candidate
    BY DEF OthersFollow
  <2>2. ASSUME NEW j \in Server, call[i][j].stage = "sent"
        PROVE  call[i][j].req.from = Candidate
    BY <2>2 DEF OthersFollow, Follows, Follower, Idle, CallsInv, CallsAddressed
  <2> QED BY <2>1, <2>2, RestartLeaves
<1>3. \A c \in Command : cmds'[c].stage # "new" => cmds'[c].at = Candidate
  BY RestartCommands DEF OthersFollow
<1>4. \A k \in Server : HeldFor(k, mu'[k])
  <2>1. \A k \in Server : mu'[k] = Free \/ mu'[k] = mu[k]
    BY TypeParts DEF Restart, NetTypeOK
  <2> QED BY <2>1 DEF HeldFor, Serving, Free, OthersFollow
<1> QED BY <1>1, <1>2, <1>3, <1>4 DEF OthersFollow

LEMMA OthersNext ==
  ASSUME OneCandidate, TypeOK, CallsInv, OthersFollow, [Next]_vars
  PROVE  OthersFollow'
<1>0. /\ \A r \in late : r.from = Candidate
      /\ \A i \in Server : HeldFor(i, mu[i])
  BY DEF OthersFollow
<1>1. ASSUME UNCHANGED <<role, leader, tasks, call, late, mu, cmds>>
      PROVE  OthersFollow'
  BY <1>0, <1>1, OthersKept
<1>2. CASE UNCHANGED vars
  BY <1>1, <1>2 DEF vars, ctxVars, netVars
<1>3. ASSUME NEW i \in Server, ServerStep(i) PROVE OthersFollow'
  <2>1. CASE LaunchCheckLeader(i)
    <3>1. i = Candidate
      BY <2>1, CandidateActs
    <3>2. \A k \in Follower : /\ role'[k] = role[k] /\ leader'[k] = leader[k]
                              /\ tasks'[k] = tasks[k]
      BY <2>1, <3>1, TypeParts DEF LaunchCheckLeader, CtxTypeOK, BecomeLeader,
         BecomeCandidate, NoticePeerTask, Follower
    <3>3. UNCHANGED <<call, late, mu, cmds>>
      BY <2>1 DEF LaunchCheckLeader, netVars
    <3> QED BY <1>0, <3>2, <3>3, OthersKept
  <2>2. CASE LaunchHeartBeat(i)
    <3>1. i = Candidate
      BY <2>2, CandidateActs
    <3>2. \A k \in Follower : tasks'[k] = tasks[k]
      BY <2>2, <3>1, TypeParts DEF LaunchHeartBeat, NoticePeerTask, Follower
    <3>3. UNCHANGED <<role, leader, call, late, mu, cmds>>
      BY <2>2 DEF LaunchHeartBeat, netVars, ctxVars
    <3> QED BY <1>0, <3>2, <3>3, OthersKept
  <2>3. CASE ApplyThread(i) \/ ApplyFails(i)
    BY <1>1, <2>3 DEF ApplyThread, ApplyStateMachine, Apply, SetLastApplied,
                      ApplyFails, applyFrame, netVars, ctxVars
  <2>4. CASE Restart(i)
    BY <2>4, OthersRestart
  <2> QED BY <1>3, <2>1, <2>2, <2>3, <2>4 DEF ServerStep, ApplyThread
<1>4. ASSUME NEW i \in Server, NEW j \in Server \ {i}, PeerStep(i, j)
      PROVE  OthersFollow'
  <2>1. i = Candidate
    BY <1>4, CandidateActs
  <2>2. call[i][j].stage = "sent" => call[i][j].req.from = Candidate
    BY <2>1 DEF CallsInv, CallsAddressed
  <2>3. \A r \in late' : r.from = Candidate
    BY <1>0, <1>4, <2>2, PeerStepRow
  <2>4. \A k \in Follower : /\ role'[k] = role[k] /\ leader'[k] = leader[k]
                            /\ tasks'[k] = tasks[k]
                            /\ \A l \in Server : call'[k][l] = call[k][l]
    BY <1>4, <2>1, PeerStepRow DEF Follower
  <2>5. \A k \in Server : HeldFor(k, mu'[k])
    BY <1>0, <1>4, <2>1, PeerStepRow DEF HeldFor, Serving
  <2> QED BY <1>4, <2>3, <2>4, <2>5, PeerStepRow, OthersKept
<1>5. ASSUME NEW r \in InFlight, ReplyRequestVote(r) \/ ReplyAppendEntries(r)
      PROVE  OthersFollow'
  <2>1. r.from = Candidate /\ r.to \in Follower
    BY FromCandidate
  <2>2. \A k \in Follower : Follows(k)'
    <3> SUFFICES ASSUME NEW k \in Follower PROVE Follows(k)'
      OBVIOUS
    <3>1. Follows(k) /\ k \in Server /\ k # Candidate
      BY DEF OthersFollow, Follower
    <3>2. role'[k] = "kFollower" /\ leader'[k] # k
      BY <1>5, <3>1, ServeRow, ServeFollows DEF Follows
    <3>3. \A l \in Server : tasks'[k][l] = tasks[k][l] /\ call'[k][l] = call[k][l]
      BY <1>5, <2>1, <3>1, ServeRow
    <3> QED BY <3>1, <3>2, <3>3 DEF Follows
  <2>3. HeldFor(r.to, mu'[r.to])
    <3>1. /\ HeldFor(r.to, mu[r.to]) /\ r.to \in Server /\ r.to # Candidate
          /\ DOMAIN mu = Server
      BY <1>0, <2>1, TypeParts DEF Follower, NetTypeOK
    <3>2. CASE UNCHANGED mu
      BY <3>1, <3>2
    <3>3. CASE mu' = [mu EXCEPT ![r.to] = [at |-> "cut", req |-> r]]
      <4>1. mu'[r.to] = [at |-> "cut", req |-> r]
        BY <3>1, <3>3
      <4> QED BY <2>1, <3>1, <4>1 DEF HeldFor, Serving
    <3> QED BY <1>5, <3>2, <3>3, Served
  <2>4. \A k \in Server : HeldFor(k, mu'[k])
    BY <1>0, <1>5, <2>3, ServeRow
  <2> QED BY <1>0, <1>5, <2>2, <2>4, ServeRow DEF OthersFollow
<1>7. ASSUME NEW i \in Server, HolderStep(i) PROVE OthersFollow'
  <2>1. UNCHANGED <<role, leader, tasks, late, cmds>>
    BY <1>7, HolderFrame DEF serviceFrame, ctxVars
  <2>2. \A k \in Follower, l \in Server : call'[k][l] = call[k][l]
    BY <1>7, HolderRow DEF OthersFollow, Follows, Follower, Idle, Answered
  <2>3. HeldFor(i, mu'[i])
    <3>1. HeldFor(i, mu[i]) /\ mu[i] \in Holder
      BY <1>0, HolderFollows
    <3>2. CASE mu'[i] = Free
      BY <3>2 DEF HeldFor, Serving, Free
    <3>3. CASE /\ mu[i].at \in {"cut", "appended"}
               /\ mu'[i].at \in {"appended", "following"}
               /\ mu'[i].req = mu[i].req
      BY <3>1, <3>3 DEF HeldFor, Serving
    <3> QED BY <1>7, <3>2, <3>3, HolderRow
  <2>4. \A k \in Server : HeldFor(k, mu'[k])
    BY <1>0, <1>7, <2>3, HolderRow
  <2> QED BY <1>0, <2>1, <2>2, <2>4, OthersKept
<1>6. ASSUME NEW c \in Command, CommandStep(c) PROVE OthersFollow'
  <2>1. UNCHANGED <<role, leader, tasks, call, late, mu>>
    BY <1>6, CommandLeaves DEF commandFrame, ctxVars, netVars
  <2>2. \A d \in Command : cmds'[d].stage # "new" => cmds'[d].at = Candidate
    BY <1>6, CommandEffect, CommandStays DEF OthersFollow
  <2> QED BY <2>1, <2>2 DEF OthersFollow, Follows
<1> QED BY <1>2, <1>3, <1>4, <1>5, <1>6, <1>7 DEF Next

-----------------------------------------------------------------------------
(* Requests carry parts of the candidate's log *)

PrefixOf(s, t) == /\ Len(s) <= Len(t)
                  /\ \A k \in 1..Len(s) : s[k] = t[k]

TermOf(s, k) == IF k \in 1..Len(s) THEN s[k].term ELSE 0

Appending(c) == c.stage # "idle" /\ c.req.type = "AppendEntries"
Voting(c)    == c.stage # "idle" /\ c.req.type = "RequestVote"

\* Request r carries entries of log s, and the term in front of them.
PartOf(r, s) ==
  /\ r.prevLogIndex + Len(r.entries) <= Len(s)
  /\ r.prevLogTerm = TermOf(s, r.prevLogIndex)
  /\ \A k \in 1..Len(r.entries) : r.entries[k] = s[r.prevLogIndex + k]

\* What a peer thread that does c sends is a part of log s.  The entries are
\* read later than the header was built: by then next may have moved, but only
\* beyond what will be read.
MaySend(c, next, s) ==
  /\ next <= Len(s) + 1
  /\ Appending(c) => PartOf(c.req, s)
  /\ c.stage = "header" =>
       /\ c.last <= Len(s)
       /\ next = c.req.prevLogIndex + 1 \/ next > c.last

\* Holder h of a server whose log is s serves a part of log t, and has cut its
\* log off in front of the entries or has appended them.
Halfway(h, s, t) ==
  Serving(h) =>
    /\ PartOf(h.req, t)
    /\ Len(s) = IF h.at = "cut" THEN h.req.prevLogIndex ELSE ReplicatedBy(h.req)

PartsSent ==
  /\ \A j \in Follower :
       MaySend(call[Candidate][j], nextIndex[Candidate][j], log[Candidate])
  /\ \A r \in late : r.type = "AppendEntries" => PartOf(r, log[Candidate])
  /\ \A i \in Server : PrefixOf(log[i], log[Candidate])
  /\ \A i \in Server : Halfway(mu[i], log[i], log[Candidate])

LEMMA AppendingType ==
  ASSUME NEW c \in Call
  PROVE  /\ Appending(c) =>
              /\ c.req \in AppendRequest
              /\ c.req.prevLogIndex \in Nat
              /\ c.req.leaderCommit \in Nat
              /\ c.req.term \in Nat
              /\ c.req.entries \in Seq(Entry)
              /\ Len(c.req.entries) \in Nat
         /\ Appending(c) /\ c.stage = "replied" => c.res \in AppendResponse
         /\ c.stage = "header" => Appending(c) /\ c.last \in Nat
         /\ c.stage # "idle" => Appending(c) \/ Voting(c)
         /\ ~(Appending(c) /\ Voting(c))
         /\ Voting(c) => c.req \in VoteRequest
         /\ Voting(c) /\ c.stage = "replied" => c.res \in VoteResponse
<1>1. Appending(c) => c.req \in AppendRequest
  BY CallParts DEF Appending, Request, VoteRequest
<1>2. Voting(c) => c.req \in VoteRequest
  BY CallParts DEF Voting, Request, AppendRequest
<1>3. c.stage # "idle" => Appending(c) \/ Voting(c)
  BY DEF Call, Appending, Voting, VoteRequest, AppendRequest
<1>4. ~(Appending(c) /\ Voting(c))
  BY DEF Appending, Voting
<1>5. c.stage = "header" => Appending(c) /\ c.last \in Nat
  BY CallParts DEF Appending, AppendRequest
<1>6. \A r \in AppendRequest : /\ r.prevLogIndex \in Nat
                               /\ r.leaderCommit \in Nat
                               /\ r.term \in Nat
                               /\ r.entries \in Seq(Entry)
                               /\ Len(r.entries) \in Nat
  BY LenProperties DEF AppendRequest
<1>7. /\ Appending(c) /\ c.stage = "replied" => c.res \in AppendResponse
      /\ Voting(c) /\ c.stage = "replied" => c.res \in VoteResponse
  BY CallParts DEF Appending, Voting
<1> QED BY <1>1, <1>2, <1>3, <1>4, <1>5, <1>6, <1>7

LEMMA PrefixTransitive ==
  ASSUME NEW s \in Seq(Entry), NEW t \in Seq(Entry), NEW u \in Seq(Entry),
         PrefixOf(s, t), PrefixOf(t, u)
  PROVE  PrefixOf(s, u)
<1>1. Len(s) \in Nat /\ Len(t) \in Nat /\ Len(u) \in Nat
  BY LenProperties
<1> QED BY <1>1 DEF PrefixOf

LEMMA AppendPrefix ==
  ASSUME NEW s \in Seq(Entry), NEW e \in Entry
  PROVE  /\ PrefixOf(s, Append(s, e)) /\ PrefixOf(s, s)
         /\ Len(Append(s, e)) = Len(s) + 1
         /\ Append(s, e)[Len(s) + 1] = e
<1>1. Len(s) \in Nat
  BY LenProperties
<1> QED BY <1>1, AppendProperties DEF PrefixOf

\* What is part of a log stays so when the log grows.
LEMMA PartGrows ==
  ASSUME NEW r \in AppendRequest, NEW s \in Seq(Entry), NEW t \in Seq(Entry),
         PrefixOf(s, t), PartOf(r, s)
  PROVE  PartOf(r, t)
<1>1. /\ Len(s) \in Nat /\ Len(t) \in Nat /\ Len(r.entries) \in Nat
      /\ r.prevLogIndex \in Nat
  BY LenProperties DEF AppendRequest
<1>2. r.prevLogIndex <= Len(s)
  BY <1>1 DEF PartOf
<1>3. TermOf(t, r.prevLogIndex) = TermOf(s, r.prevLogIndex)
  BY <1>1, <1>2 DEF TermOf, PrefixOf
<1>4. ASSUME NEW k \in 1..Len(r.entries)
      PROVE  r.entries[k] = t[r.prevLogIndex + k]
  <2>1. r.prevLogIndex + k \in 1..Len(s)
    BY <1>1 DEF PartOf
  <2> QED BY <2>1 DEF PartOf, PrefixOf
<1> QED BY <1>1, <1>3, <1>4 DEF PartOf, PrefixOf

LEMMA MaySendGrows ==
  ASSUME NEW c \in Call, NEW n \in Nat, NEW s \in Seq(Entry),
         NEW t \in Seq(Entry), PrefixOf(s, t), MaySend(c, n, s)
  PROVE  MaySend(c, n, t)
<1>1. Len(s) \in Nat /\ Len(t) \in Nat /\ Len(s) <= Len(t)
  BY LenProperties DEF PrefixOf
<1>2. Appending(c) => PartOf(c.req, t)
  BY AppendingType, PartGrows DEF MaySend
<1>3. c.stage = "header" => c.last \in Nat
  BY AppendingType
<1> QED BY <1>1, <1>2, <1>3 DEF MaySend

\* The candidate's log only grows, and the others change when they are told.
LEMMA LogSteps ==
  ASSUME OneCandidate, TypeOK, CallsInv, OthersFollow, [Next]_vars
  PROVE  /\ log[Candidate] \in Seq(Entry) /\ log'[Candidate] \in Seq(Entry)
         /\ PrefixOf(log[Candidate], log'[Candidate])
         /\ \A j \in Follower :
              \/ log'[j] = log[j] /\ mu'[j] \in {mu[j], Free}
              \/ \E r \in InFlight : r.to = j /\ ReplyAppendEntries(r)
              \/ HolderStep(j)
<1>0. Candidate \in Server /\ log[Candidate] \in Seq(Entry)
  BY CandidateStands, LogType
<1> DEFINE Still(j) == log'[j] = log[j] /\ mu'[j] \in {mu[j], Free}
<1>1. ASSUME UNCHANGED log
      PROVE  /\ log'[Candidate] \in Seq(Entry)
             /\ PrefixOf(log[Candidate], log'[Candidate])
             /\ \A j \in Follower : log'[j] = log[j]
  BY <1>0, <1>1, AppendPrefix DEF PrefixOf
<1>2. CASE UNCHANGED vars
  BY <1>0, <1>1, <1>2 DEF vars, logVars, netVars
<1>3. ASSUME NEW i \in Server, ServerStep(i)
      PROVE  UNCHANGED log /\ \A j \in Server : Still(j)
  <2>1. UNCHANGED log /\ (UNCHANGED mu \/ mu' = [mu EXCEPT ![i] = Free])
    BY <1>3 DEF ServerStep, LaunchCheckLeader, LaunchHeartBeat,
       ApplyStateMachine, Apply, ApplyFails, SetLastApplied, Restart,
       applyFrame, logVars, netVars
  <2> QED BY <2>1, TypeParts DEF NetTypeOK
<1>4. ASSUME NEW i \in Server, NEW j \in Server \ {i}, PeerStep(i, j)
      PROVE  UNCHANGED log /\ \A k \in Follower : Still(k)
  BY <1>4, PeerStepRow, CandidateActs DEF Follower
<1>5. ASSUME NEW r \in InFlight, ReplyRequestVote(r)
      PROVE  UNCHANGED log /\ \A j \in Server : Still(j)
  BY <1>5 DEF ReplyRequestVote, logVars
<1>6. ASSUME NEW r \in InFlight, ReplyAppendEntries(r)
      PROVE  /\ log'[Candidate] = log[Candidate]
             /\ \A j \in Follower : r.to = j \/ Still(j)
  <2>1. r.to # Candidate
    BY FromCandidate DEF Follower
  <2>2. \A k \in Server \ {r.to} : log'[k] = log[k] /\ mu'[k] = mu[k]
    BY <1>6, ServeRow
  <2> QED BY <1>0, <2>1, <2>2 DEF Follower
<1>12. ASSUME NEW i \in Server, HolderStep(i)
       PROVE  /\ log'[Candidate] = log[Candidate]
              /\ \A j \in Follower : i = j \/ Still(j)
  <2>1. \A k \in Server \ {i} : log'[k] = log[k] /\ mu'[k] = mu[k]
    BY <1>12, HolderRow
  <2>2. i = Candidate => log'[i] = log[i]
    <3>1. mu[Candidate].at \notin {"cut", "appended", "following"}
      BY <1>0, HolderFollows DEF Follower
    <3>2. i = Candidate => UNCHANGED log
      BY <1>12, <3>1 DEF HolderStep, AppendReceived, AdvanceFollowerCommitIndex,
         SaveFollowerCommitIndex, SaveLeaderCommitIndex
    <3> QED BY <3>2
  <2> QED BY <1>0, <2>1, <2>2 DEF Follower
<1>7. ASSUME NEW c \in Command, CommandStep(c)
      PROVE  /\ UNCHANGED log \/ \E e \in Entry :
                                   log'[Candidate] = Append(log[Candidate], e)
             /\ \A j \in Follower : Still(j)
  <2>0. UNCHANGED mu
    BY <1>7, CommandLeaves DEF commandFrame, netVars
  <2>1. CASE ExecuteCommand(c)
    <3>1. cmds[c].at = Candidate /\ cmds[c] \in CommandState
      BY <2>1, TypeParts DEF ExecuteCommand, OthersFollow
    <3>2. [term |-> cmds[c].read, cmd |-> c] \in Entry
      BY <3>1 DEF Entry, CommandState, RunningCommand
    <3>3. log \in [Server -> Seq(Entry)]
      BY TypeParts DEF LogTypeOK
    <3>4. log' = [log EXCEPT ![Candidate] =
                    Append(@, [term |-> cmds[c].read, cmd |-> c])]
      BY <2>1, <3>1 DEF ExecuteCommand
    <3>5. log'[Candidate] = Append(log[Candidate],
                                   [term |-> cmds[c].read, cmd |-> c])
      BY <1>0, <3>3, <3>4
    <3> QED BY <2>0, <3>2, <3>3, <3>4, <3>5 DEF Follower
  <2>2. CASE ~ExecuteCommand(c)
    <3>1. UNCHANGED log
      BY <1>7, <2>2 DEF CommandStep, DoCommand, BuildLogEntry, CommitSingle,
         RereadCommitIndex, SaveCommitIndex, CommandApplied, CommandTimeout,
         logVars
    <3> QED BY <2>0, <3>1
  <2> QED BY <2>1, <2>2
<1>8. ASSUME NEW e \in Entry, log'[Candidate] = Append(log[Candidate], e)
      PROVE  /\ log'[Candidate] \in Seq(Entry)
             /\ PrefixOf(log[Candidate], log'[Candidate])
  BY <1>0, <1>8, AppendPrefix
<1>9. log'[Candidate] = log[Candidate] => /\ log'[Candidate] \in Seq(Entry)
                                          /\ PrefixOf(log[Candidate], log'[Candidate])
  BY <1>0, AppendPrefix DEF PrefixOf
<1>10. CASE \E r \in InFlight : ReplyAppendEntries(r)
  BY <1>0, <1>6, <1>9, <1>10
<1>11. CASE \E c \in Command : CommandStep(c)
  BY <1>0, <1>7, <1>8, <1>9, <1>11
<1>13. CASE \E i \in Server : HolderStep(i)
  BY <1>0, <1>9, <1>12, <1>13
<1>14. CASE \E i \in Server : ServerStep(i)
  BY <1>0, <1>1, <1>3, <1>14 DEF Follower
<1>15. CASE \E i \in Server : \E j \in Server \ {i} : PeerStep(i, j)
  BY <1>0, <1>1, <1>4, <1>15
<1>16. CASE \E r \in InFlight : ReplyRequestVote(r)
  BY <1>0, <1>1, <1>5, <1>16 DEF Follower
<1> QED BY <1>2, <1>10, <1>11, <1>13, <1>14, <1>15, <1>16 DEF Next

\* A request of the candidate agrees with any beginning of its log.
LEMMA TermsAgree ==
  ASSUME NEW r \in AppendRequest, NEW s \in Seq(Entry), NEW t \in Seq(Entry),
         PartOf(r, t), PrefixOf(s, t), r.prevLogIndex <= Len(s)
  PROVE  r.prevLogTerm = TermOf(s, r.prevLogIndex)
<1>1. Len(s) \in Nat /\ Len(t) \in Nat /\ r.prevLogIndex \in Nat
  BY LenProperties DEF AppendRequest
<1>2. TermOf(s, r.prevLogIndex) = TermOf(t, r.prevLogIndex)
  BY <1>1 DEF TermOf, PrefixOf
<1> QED BY <1>2 DEF PartOf

\* Cutting off leaves a beginning of the candidate's log.
LEMMA CutOff ==
  ASSUME NEW r \in AppendRequest, NEW s \in Seq(Entry), NEW t \in Seq(Entry),
         PrefixOf(s, t), r.prevLogIndex <= Len(s)
  PROVE  LET u == TruncateSuffix(s, r.prevLogIndex + 1) IN
         /\ u \in Seq(Entry)
         /\ Len(u) = r.prevLogIndex
         /\ PrefixOf(u, t)
<1> DEFINE prev == r.prevLogIndex
           u    == TruncateSuffix(s, prev + 1)
<1>1. Len(s) \in Nat /\ Len(t) \in Nat /\ prev \in Nat /\ prev <= Len(s)
  BY LenProperties DEF AppendRequest
<1> HIDE DEF prev
<1>2. prev + 1 \in 1..Len(s) + 1 /\ prev + 1 \in Nat /\ (prev + 1) - 1 = prev
  BY <1>1
<1>3. u \in Seq(Entry) /\ Len(u) = prev /\ u = SubSeq(s, 1, prev)
  BY <1>2, TruncateSuffixType
<1>4. \A k \in 1..prev : u[k] = s[k]
  <2>1. \A k \in 1..prev : s[k] \in Entry
    BY <1>1, ElementOfSeq
  <2> HIDE DEF u
  <2> QED BY <1>1, <1>3, <2>1, SubSeqProperties
<1> HIDE DEF u
<1>5. PrefixOf(u, t)
  BY <1>1, <1>3, <1>4 DEF PrefixOf
<1> QED BY <1>3, <1>5 DEF u, prev

\* Appending then gives a beginning of the candidate's log again.
LEMMA PutBack ==
  ASSUME NEW r \in AppendRequest, NEW s \in Seq(Entry), NEW t \in Seq(Entry),
         PartOf(r, t), PrefixOf(s, t), Len(s) = r.prevLogIndex
  PROVE  LET u == s \o r.entries IN
         /\ u \in Seq(Entry)
         /\ Len(u) = ReplicatedBy(r)
         /\ PrefixOf(u, t)
<1> DEFINE prev == r.prevLogIndex
           es   == r.entries
           u    == s \o es
<1>1. /\ Len(s) = prev /\ Len(t) \in Nat /\ prev \in Nat
      /\ es \in Seq(Entry) /\ Len(es) \in Nat
  BY LenProperties DEF AppendRequest
<1>2. prev + Len(es) <= Len(t) /\ \A k \in 1..Len(es) : es[k] = t[prev + k]
  BY DEF PartOf
<1> HIDE DEF prev, es
<1>6. /\ u \in Seq(Entry) /\ Len(u) = prev + Len(es)
      /\ \A k \in 1..prev : u[k] = s[k]
      /\ \A k \in (prev + 1)..(prev + Len(es)) : u[k] = es[k - prev]
  <2>1. /\ u \in Seq(Entry) /\ Len(u) = Len(s) + Len(es)
        /\ \A k \in 1..(Len(s) + Len(es)) :
             u[k] = IF k <= Len(s) THEN s[k] ELSE es[k - Len(s)]
    BY <1>1, ConcatProperties
  <2> HIDE DEF u
  <2> QED BY <1>1, <2>1
<1> HIDE DEF u
<1>7. ASSUME NEW k \in 1..Len(u) PROVE u[k] = t[k]
  <2>1. CASE k <= prev
    <3>1. k \in 1..prev /\ k \in 1..Len(s)
      BY <1>1, <1>6, <2>1
    <3> QED BY <1>6, <3>1 DEF PrefixOf
  <2>2. CASE k > prev
    <3>1. k \in (prev + 1)..(prev + Len(es)) /\ k - prev \in 1..Len(es)
      BY <1>1, <1>6, <2>2
    <3>2. prev + (k - prev) = k
      BY <1>1
    <3> QED BY <1>2, <1>6, <3>1, <3>2
  <2> QED BY <1>1, <2>1, <2>2
<1>8. PrefixOf(u, t)
  BY <1>2, <1>6, <1>7 DEF PrefixOf
<1> QED BY <1>6, <1>8 DEF u, prev, es, ReplicatedBy

\* Every append request in flight is a part of the candidate's log.
LEMMA InFlightPart ==
  ASSUME OneCandidate, TypeOK, CallsInv, OthersFollow, PartsSent,
         NEW r \in InFlight, r.type = "AppendEntries"
  PROVE  r \in AppendRequest /\ PartOf(r, log[Candidate])
<1>1. r \in AppendRequest
  BY InFlightType
<1>2. CASE r \in late
  BY <1>1, <1>2 DEF PartsSent
<1>3. CASE r \notin late
  <2>1. PICK i \in Server, j \in Server :
          call[i][j].stage = "sent" /\ r = call[i][j].req
    BY <1>3 DEF InFlight
  <2>2. i = Candidate
    BY <2>1 DEF OthersFollow, Follows, Follower, Idle
  <2>3. j \in Follower
    BY <2>1, <2>2 DEF CallsInv, CallsAddressed, Follower
  <2>4. MaySend(call[i][j], nextIndex[i][j], log[Candidate])
    BY <2>2, <2>3 DEF PartsSent
  <2> QED BY <1>1, <2>1, <2>4 DEF MaySend, Appending
<1> QED BY <1>2, <1>3

\* What ReplyAppendEntries does first to the follower's log: it refuses, or
\* cuts it off where the entries begin.
LEMMA ServedLog ==
  ASSUME OneCandidate, TypeOK, CallsInv, OthersFollow, PartsSent,
         NEW r \in InFlight, ReplyAppendEntries(r)
  PROVE  /\ r \in AppendRequest /\ PartOf(r, log[Candidate])
         /\ r.to \in Server
         /\ log[r.to] \in Seq(Entry) /\ log'[r.to] \in Seq(Entry)
         /\ PrefixOf(log'[r.to], log[Candidate])
         /\ mu[r.to] = Free
         /\ \/ /\ r.term < currentTerm[r.to] \/ r.prevLogIndex > Len(log[r.to])
               /\ UNCHANGED <<log, mu>>
               /\ \E n \in Nat : Reply(r, AppendAnswer(n, FALSE, log[r.to]))
            \/ /\ r.term >= currentTerm[r.to]
               /\ r.prevLogIndex <= Len(log[r.to])
               /\ Len(log'[r.to]) = r.prevLogIndex
               /\ mu'[r.to].at = "cut" /\ mu'[r.to].req = r
               /\ BeginService(r)
<1> DEFINE i == r.to
           s == log[i]
           t == log[Candidate]
           u == TruncateSuffix(s, r.prevLogIndex + 1)
<1>1. /\ r \in AppendRequest /\ PartOf(r, t) /\ r.term \in Nat
      /\ i \in Server /\ currentTerm[i] \in Nat
  BY InFlightPart, InFlightType, TypeParts DEF ReplyAppendEntries, CtxTypeOK
<1>2. /\ s \in Seq(Entry) /\ t \in Seq(Entry) /\ PrefixOf(s, t)
      /\ log \in [Server -> Seq(Entry)] /\ DOMAIN mu = Server
  BY <1>1, CandidateStands, LogType, TypeParts DEF PartsSent, LogTypeOK, NetTypeOK
<1>3. mu[i] = Free
  BY DEF ReplyAppendEntries
<1>4. CASE /\ r.term < currentTerm[i]
           /\ Reply(r, AppendAnswer(currentTerm[i], FALSE, s))
           /\ UNCHANGED <<log, mu>>
  BY <1>1, <1>2, <1>3, <1>4
<1>5. CASE /\ r.term >= currentTerm[i] /\ r.prevLogIndex > Len(s)
           /\ Reply(r, AppendAnswer(r.term, FALSE, s))
           /\ UNCHANGED <<log, mu>>
  BY <1>1, <1>2, <1>3, <1>5
<1>6. CASE /\ r.term >= currentTerm[i] /\ r.prevLogIndex <= Len(s)
           /\ log' = [log EXCEPT ![i] = u]
           /\ mu' = [mu EXCEPT ![i] = [at |-> "cut", req |-> r]]
           /\ BeginService(r)
  <2>1. u \in Seq(Entry) /\ Len(u) = r.prevLogIndex /\ PrefixOf(u, t)
    <3> HIDE DEF s, t
    <3> QED BY <1>1, <1>2, <1>6, CutOff
  <2>2. mu'[i].at = "cut" /\ mu'[i].req = r
    BY <1>1, <1>2, <1>6
  <2>3. log'[i] = u
    <3> HIDE DEF u
    <3> QED BY <1>1, <1>2, <1>6
  <2> HIDE DEF u
  <2> QED BY <1>1, <1>2, <1>3, <1>6, <2>1, <2>2, <2>3
<1>7. \/ /\ r.term < currentTerm[i]
         /\ Reply(r, AppendAnswer(currentTerm[i], FALSE, s))
         /\ UNCHANGED <<log, mu>>
      \/ /\ r.term >= currentTerm[i] /\ r.prevLogIndex > Len(s)
         /\ Reply(r, AppendAnswer(r.term, FALSE, s))
         /\ UNCHANGED <<log, mu>>
      \/ /\ r.term >= currentTerm[i] /\ r.prevLogIndex <= Len(s)
         /\ log' = [log EXCEPT ![i] = u]
         /\ mu' = [mu EXCEPT ![i] = [at |-> "cut", req |-> r]]
         /\ BeginService(r)
  BY DEF ReplyAppendEntries, LastLogIndex
<1> QED BY <1>4, <1>5, <1>6, <1>7

\* What it does then: the terms in front of the entries agree, so it appends
\* them and cuts off nothing else.
LEMMA ReceivedLog ==
  ASSUME OneCandidate, TypeOK, CallsInv, OthersFollow, PartsSent,
         NEW j \in Server, AppendReceived(j)
  PROVE  LET r == mu[j].req IN
         /\ mu[j].at = "cut" /\ Serving(mu[j])
         /\ r \in AppendRequest /\ PartOf(r, log[Candidate])
         /\ log[j] \in Seq(Entry) /\ log'[j] \in Seq(Entry)
         /\ Len(log[j]) = r.prevLogIndex
         /\ Len(log'[j]) = ReplicatedBy(r)
         /\ PrefixOf(log'[j], log[Candidate])
         /\ \/ /\ r.leaderCommit = commitIndex[j]
               /\ EndService(j, AppendAnswer(currentTerm[j], TRUE, log'[j]))
            \/ /\ r.leaderCommit # commitIndex[j]
               /\ mu'[j].at = "appended" /\ mu'[j].req = r
               /\ UNCHANGED call
<1> DEFINE r == mu[j].req
           s == log[j]
           t == log[Candidate]
           u == s \o r.entries
<1>1. mu[j].at = "cut" /\ Serving(mu[j]) /\ r \in AppendRequest
  BY HolderFollows DEF AppendReceived, Serving
<1>2. PartOf(r, t) /\ Len(s) = r.prevLogIndex
  BY <1>1 DEF PartsSent, Halfway
<1>3. /\ s \in Seq(Entry) /\ t \in Seq(Entry) /\ PrefixOf(s, t)
      /\ log \in [Server -> Seq(Entry)] /\ DOMAIN mu = Server
  BY CandidateStands, LogType, TypeParts DEF PartsSent, LogTypeOK, NetTypeOK
<1>4. r.prevLogTerm = TermAt(j, r.prevLogIndex)
  <2> HIDE DEF s, t, r
  <2>0. r.prevLogIndex <= Len(s)
    BY <1>2, <1>3, LenProperties
  <2>1. r.prevLogTerm = TermOf(s, r.prevLogIndex)
    BY <1>1, <1>2, <1>3, <2>0, TermsAgree
  <2> QED BY <2>1 DEF TermAt, TermOf, s
<1>5. /\ log' = [log EXCEPT ![j] = u]
      /\ \/ /\ r.leaderCommit = commitIndex[j]
            /\ EndService(j, AppendAnswer(currentTerm[j], TRUE, log'[j]))
         \/ /\ r.leaderCommit # commitIndex[j]
            /\ mu' = [mu EXCEPT ![j] = [at |-> "appended", req |-> r]]
            /\ UNCHANGED call
  BY <1>4 DEF AppendReceived
<1>6. u \in Seq(Entry) /\ Len(u) = ReplicatedBy(r) /\ PrefixOf(u, t)
  <2> HIDE DEF s, t, r
  <2> QED BY <1>1, <1>2, <1>3, PutBack
<1>7. log'[j] = u
  <2> HIDE DEF u
  <2> QED BY <1>3, <1>5
<1>8. mu' = [mu EXCEPT ![j] = [at |-> "appended", req |-> r]]
        => mu'[j].at = "appended" /\ mu'[j].req = r
  BY <1>3
<1> HIDE DEF u
<1> QED BY <1>1, <1>2, <1>3, <1>5, <1>6, <1>7, <1>8

\* What a follower's holder has done so far, after the step.
LEMMA HalfwayNext ==
  ASSUME OneCandidate, TypeOK, CallsInv, OthersFollow, PartsSent, [Next]_vars,
         NEW j \in Server
  PROVE  Halfway(mu'[j], log'[j], log[Candidate])
<1>1. Halfway(mu[j], log[j], log[Candidate])
  BY DEF PartsSent
<1>2. CASE j = Candidate
  <2>1. HeldFor(j, mu'[j])
    BY OthersNext DEF OthersFollow
  <2> QED BY <1>2, <2>1 DEF HeldFor, Halfway
<1>3. CASE j \in Follower
  <2>0. ~Serving(Free)
    BY DEF Serving, Free
  <2>1. CASE log'[j] = log[j] /\ mu'[j] \in {mu[j], Free}
    BY <1>1, <2>0, <2>1 DEF Halfway
  <2>2. ASSUME NEW r \in InFlight, r.to = j, ReplyAppendEntries(r)
        PROVE  Halfway(mu'[j], log'[j], log[Candidate])
    <3>1. CASE UNCHANGED <<log, mu>>
      BY <1>1, <3>1
    <3>2. CASE /\ Len(log'[j]) = r.prevLogIndex
               /\ mu'[j].at = "cut" /\ mu'[j].req = r
      BY <2>2, <3>2, ServedLog DEF Halfway
    <3> QED BY <2>2, <3>1, <3>2, ServedLog
  <2>3. CASE AppendReceived(j)
    <3>1. CASE mu'[j] = Free
      BY <2>0, <3>1 DEF Halfway
    <3>2. CASE mu'[j] # Free
      <4>1. mu'[j].at = "appended" /\ mu'[j].req = mu[j].req
        <5>1. DOMAIN mu = Server
          BY TypeParts DEF NetTypeOK
        <5> QED BY <2>3, <3>2, <5>1, ReceivedLog DEF EndService
      <4> QED BY <2>3, <4>1, ReceivedLog DEF Halfway
    <3> QED BY <3>1, <3>2
  <2>4. CASE HolderStep(j) /\ ~AppendReceived(j)
    <3>1. UNCHANGED log
      BY <2>4 DEF HolderStep, AdvanceFollowerCommitIndex,
         SaveFollowerCommitIndex, SaveLeaderCommitIndex
    <3>2. mu'[j] = Free \/ (mu[j].at = "appended" /\ mu'[j].at = "following"
                             /\ mu'[j].req = mu[j].req)
      <4>0. DOMAIN mu = Server
        BY TypeParts DEF NetTypeOK
      <4>1. CASE AdvanceFollowerCommitIndex(j)
        BY <4>0, <4>1 DEF AdvanceFollowerCommitIndex
      <4>2. CASE SaveFollowerCommitIndex(j)
        BY <4>0, <4>2 DEF SaveFollowerCommitIndex, EndService
      <4>3. CASE SaveLeaderCommitIndex(j)
        BY <4>0, <4>3 DEF SaveLeaderCommitIndex
      <4> QED BY <2>4, <4>1, <4>2, <4>3 DEF HolderStep
    <3> QED BY <1>1, <2>0, <3>1, <3>2 DEF Halfway, Serving
  <2> QED BY <1>3, <2>1, <2>2, <2>3, <2>4, LogSteps
<1> QED BY <1>2, <1>3 DEF Follower

-----------------------------------------------------------------------------
(* The steps of a peer thread, slot by slot *)

LEMMA PeerStepSlots ==
  ASSUME TypeOK, NEW i \in Server, NEW j \in Server, PeerStep(i, j)
  PROVE  /\ \A k \in Server \ {j} : /\ call'[i][k] = call[i][k]
                                    /\ tasks'[i][k] = tasks[i][k]
         /\ \/ /\ UpdatePeerInfo(i)
               /\ role[i] = "kCandidate"
            \/ \A k \in Server \ {j} : /\ nextIndex'[i][k] = nextIndex[i][k]
                                       /\ matchIndex'[i][k] = matchIndex[i][k]
<1>1. /\ tasks \in [Server -> [Server -> Seq(Task)]]
      /\ nextIndex \in [Server -> [Server -> Nat \ {0}]]
      /\ matchIndex \in [Server -> [Server -> Nat]]
  BY TypeParts DEF PeerTypeOK
<1>2. ASSUME NEW c, call' = [call EXCEPT ![i][j] = c]
      PROVE  \A k \in Server \ {j} : call'[i][k] = call[i][k]
  BY <1>2, CallAt
<1>3. \A k \in Server \ {j} : call'[i][k] = call[i][k]
  BY <1>2 DEF PeerStep, RequestVoteRPC, AppendEntriesSkip, AppendEntriesRPC,
     AppendEntriesRead, RequestVoteReply, AppendEntriesReply, SendAndRecvFails,
     netVars
<1>4. \A k \in Server \ {j} : tasks'[i][k] = tasks[i][k]
  <2>1. \/ UNCHANGED tasks
        \/ tasks' = [tasks EXCEPT ![i][j] = Tail(tasks[i][j])]
        \/ tasks' = [tasks EXCEPT ![i][j] =
                        Schedule(tasks[i][j], "AppendEntries")]
    BY DEF PeerStep, RequestVoteRPC, AppendEntriesSkip, AppendEntriesRPC,
       AppendEntriesRead, RequestVoteReply, AppendEntriesReply,
       SendAndRecvFails, TakeTask
  <2>2. ASSUME NEW v, tasks' = [tasks EXCEPT ![i][j] = v]
        PROVE  \A k \in Server \ {j} : tasks'[i][k] = tasks[i][k]
    BY <1>1, <2>2
  <2>3. CASE UNCHANGED tasks
    BY <2>3
  <2> QED BY <2>1, <2>2, <2>3
<1>5. CASE AppendEntriesReply(i, j)
  <2>1. \A k \in Server \ {j} : /\ nextIndex'[i][k] = nextIndex[i][k]
                                /\ matchIndex'[i][k] = matchIndex[i][k]
    <3> DEFINE acked == ReplicatedBy(call[i][j].req)
               row   == [matchIndex[i] EXCEPT ![j] = acked]
               adjust == Lesser(call[i][j].res.lastLogIndex + 1,
                                nextIndex[i][j] - 1)
    <3>1. /\ \/ UNCHANGED nextIndex
             \/ nextIndex' = [nextIndex EXCEPT ![i][j] = acked + 1]
             \/ nextIndex' = [nextIndex EXCEPT ![i][j] = adjust]
          /\ \/ UNCHANGED matchIndex
             \/ matchIndex' = [matchIndex EXCEPT ![i] = row]
      BY <1>5 DEF AppendEntriesReply, peerVars
    <3> HIDE DEF adjust, acked
    <3>2. \A k \in Server \ {j} : nextIndex'[i][k] = nextIndex[i][k]
      <4>1. ASSUME NEW v, nextIndex' = [nextIndex EXCEPT ![i][j] = v]
            PROVE  \A k \in Server \ {j} : nextIndex'[i][k] = nextIndex[i][k]
        BY <1>1, <4>1
      <4>2. CASE UNCHANGED nextIndex
        BY <4>2
      <4> QED BY <3>1, <4>1, <4>2
    <3>3. \A k \in Server \ {j} : row[k] = matchIndex[i][k]
      BY <1>1
    <3> HIDE DEF row
    <3> QED BY <1>1, <3>1, <3>2, <3>3
  <2> QED BY <1>3, <1>4, <2>1
<1>6. CASE RequestVoteReply(i, j)
  <2>1. \/ UpdatePeerInfo(i) /\ role[i] = "kCandidate"
        \/ UNCHANGED <<nextIndex, matchIndex>>
    BY <1>6 DEF RequestVoteReply, peerVars
  <2> QED BY <1>3, <1>4, <2>1
<1>7. CASE ~AppendEntriesReply(i, j) /\ ~RequestVoteReply(i, j)
  <2>1. UNCHANGED <<nextIndex, matchIndex>>
    BY <1>7 DEF PeerStep, RequestVoteRPC, AppendEntriesSkip, AppendEntriesRPC,
                AppendEntriesRead, SendAndRecvFails, peerVars
  <2> QED BY <1>3, <1>4, <2>1
<1> QED BY <1>5, <1>6, <1>7

LEMMA UpdatePeerInfoEffect ==
  ASSUME TypeOK, NEW i \in Server, UpdatePeerInfo(i), NEW k \in Server
  PROVE  nextIndex'[i][k] = Len(log[i]) + 1 /\ matchIndex'[i][k] = 0
  BY TypeParts DEF PeerTypeOK, UpdatePeerInfo, LastLogIndex

LEMMA TakeTaskEffect ==
  ASSUME TypeOK, NEW i \in Server, NEW j \in Server, NEW t, TakeTask(i, j, t)
  PROVE  /\ call[i][j] = Idle
         /\ Len(tasks[i][j]) > 0
         /\ tasks[i][j][1] = t
         /\ tasks'[i][j] = Tail(tasks[i][j])
         /\ Len(tasks'[i][j]) = Len(tasks[i][j]) - 1
         /\ \A k \in 1..Len(tasks'[i][j]) : tasks'[i][j][k] = tasks[i][j][k + 1]
<1>1. tasks \in [Server -> [Server -> Seq(Task)]] /\ tasks[i][j] \in Seq(Task)
  BY TypeParts
<1>2. /\ call[i][j] = Idle /\ tasks[i][j] # <<>> /\ Head(tasks[i][j]) = t
      /\ tasks'[i][j] = Tail(tasks[i][j])
  BY <1>1 DEF TakeTask
<1> DEFINE q == tasks[i][j]
<1>3. q \in Seq(Task) /\ q # <<>>
  BY <1>1, <1>2
<1> HIDE DEF q
<1>4. /\ Len(q) \in Nat /\ Len(q) > 0 /\ Head(q) = q[1]
      /\ Len(Tail(q)) = Len(q) - 1
      /\ \A k \in 1..Len(Tail(q)) : Tail(q)[k] = q[k + 1]
  BY <1>3, LenProperties, EmptySeq, HeadTailProperties
<1> QED BY <1>2, <1>4 DEF q

LEMMA RequestVoteRPCEffect ==
  ASSUME TypeOK, NEW i \in Server, NEW j \in Server, RequestVoteRPC(i, j)
  PROVE  /\ Voting(call'[i][j])
         /\ call'[i][j].stage = "sent"
         /\ call'[i][j].req.term = currentTerm[i]
         /\ call'[i][j].req.lastLogTerm = LastLogTerm(i)
         /\ call'[i][j].req.lastLogIndex = Len(log[i])
<1> DEFINE c == [stage |-> "sent",
                 req |-> [type |-> "RequestVote", from |-> i, to |-> j,
                          term |-> currentTerm[i],
                          lastLogTerm |-> LastLogTerm(i),
                          lastLogIndex |-> LastLogIndex(i)]]
<1>1. call'[i][j] = c
  <2>1. call' = [call EXCEPT ![i][j] = c]
    BY DEF RequestVoteRPC
  <2> HIDE DEF c
  <2> QED BY <2>1, TypeParts DEF NetTypeOK
<1> QED BY <1>1 DEF Voting, LastLogIndex

LEMMA AppendEntriesRPCEffect ==
  ASSUME TypeOK, NEW i \in Server, NEW j \in Server, AppendEntriesRPC(i, j)
  PROVE  LET c == call'[i][j] IN
         /\ c.stage = "header" /\ Appending(c)
         /\ c.last = Len(log[i])
         /\ c.req.term = currentTerm[i]
         /\ c.req.prevLogIndex = nextIndex[i][j] - 1
         /\ c.req.prevLogTerm = TermAt(i, nextIndex[i][j] - 1)
         /\ c.req.leaderCommit = commitIndex[i]
         /\ c.req.entries = <<>>
<1> DEFINE prev == nextIndex[i][j] - 1
           c == [stage |-> "header", last |-> LastLogIndex(i),
                 req |-> [type |-> "AppendEntries", from |-> i, to |-> j,
                          term |-> currentTerm[i],
                          prevLogIndex |-> prev,
                          prevLogTerm |-> TermAt(i, prev),
                          leaderCommit |-> commitIndex[i],
                          entries |-> <<>>]]
<1>1. call'[i][j] = c
  <2>1. call' = [call EXCEPT ![i][j] = c]
    BY DEF AppendEntriesRPC
  <2> HIDE DEF c
  <2> QED BY <2>1, TypeParts DEF NetTypeOK
<1> QED BY <1>1 DEF Appending, LastLogIndex

\* The entries that AppendEntriesRead takes from the log.
LEMMA PartRead ==
  ASSUME NEW s \in Seq(Entry), NEW m \in Nat \ {0}, NEW n \in Nat, n <= Len(s)
  PROVE  /\ SubSeq(s, m, n) \in Seq(Entry)
         /\ Len(SubSeq(s, m, n)) = IF m <= n THEN n - m + 1 ELSE 0
         /\ \A k \in 1..Len(SubSeq(s, m, n)) : SubSeq(s, m, n)[k] = s[m + k - 1]
<1>1. Len(s) \in Nat
  BY LenProperties
<1>2. \A k \in m..n : s[k] \in Entry
  BY <1>1, ElementOfSeq
<1> QED BY <1>1, <1>2, SubSeqProperties

LEMMA AppendEntriesReadEffect ==
  ASSUME TypeOK, NEW i \in Server, NEW j \in Server, AppendEntriesRead(i, j)
  PROVE  LET h  == call[i][j]
             c  == call'[i][j]
             to == Lesser(Lesser(h.last, Len(log[i])),
                          nextIndex[i][j] + BatchSize - 1)
         IN
         /\ h.stage = "header" /\ h.req \in AppendRequest /\ h.last \in Nat
         /\ c.stage = "sent" /\ Appending(c)
         /\ c.req.term = h.req.term
         /\ c.req.prevLogIndex = h.req.prevLogIndex
         /\ c.req.prevLogTerm = h.req.prevLogTerm
         /\ c.req.leaderCommit = h.req.leaderCommit
         /\ to \in Nat
         /\ to <= Len(log[i])
         /\ Len(c.req.entries) = IF nextIndex[i][j] <= to
                                 THEN to - nextIndex[i][j] + 1 ELSE 0
         /\ \A k \in 1..Len(c.req.entries) :
              c.req.entries[k] = log[i][nextIndex[i][j] + k - 1]
<1> DEFINE h    == call[i][j]
           from == nextIndex[i][j]
           to   == Lesser(Lesser(h.last, Len(log[i])), from + BatchSize - 1)
           part == SubSeq(log[i], from, to)
           req  == [h.req EXCEPT !.entries = part]
           c    == [stage |-> "sent", req |-> req]
<1>1. h.stage = "header" /\ h.req \in AppendRequest /\ h.last \in Nat
  <2>1. h \in Call
    BY TypeParts DEF NetTypeOK
  <2> QED BY <2>1, CallParts DEF AppendEntriesRead
<1>2. from \in Nat \ {0} /\ BatchSize \in Nat \ {0}
  BY TypeParts, BoundAssumption DEF PeerTypeOK
<1>3. Len(log[i]) \in Nat /\ log[i] \in Seq(Entry)
  BY LogType, LenProperties
<1>4. to \in Nat /\ to <= Len(log[i])
  BY <1>1, <1>2, <1>3 DEF Lesser
<1>5. call'[i][j] = c
  <2>1. call' = [call EXCEPT ![i][j] = c]
    BY DEF AppendEntriesRead, LastLogIndex
  <2> HIDE DEF c
  <2> QED BY <2>1, TypeParts DEF NetTypeOK
<1> HIDE DEF to, from
<1>6. /\ part \in Seq(Entry)
      /\ Len(part) = IF from <= to THEN to - from + 1 ELSE 0
      /\ \A k \in 1..Len(part) : part[k] = log[i][from + k - 1]
  BY <1>2, <1>3, <1>4, PartRead
<1> HIDE DEF part, h
<1>7. /\ c.stage = "sent" /\ c.req = req
      /\ req.type = "AppendEntries"
      /\ req.term = h.req.term
      /\ req.prevLogIndex = h.req.prevLogIndex
      /\ req.prevLogTerm = h.req.prevLogTerm
      /\ req.leaderCommit = h.req.leaderCommit
      /\ req.entries = part
  BY <1>1 DEF AppendRequest
<1> HIDE DEF c, req
<1> QED BY <1>1, <1>4, <1>5, <1>6, <1>7 DEF Appending, h, from, to

\* The types of a peer thread's slot.
LEMMA SlotTypes ==
  ASSUME OneCandidate, TypeOK
  PROVE  /\ Candidate \in Server
         /\ \A j \in Follower :
              /\ j \in Server
              /\ call[Candidate][j] \in Call
              /\ nextIndex[Candidate][j] \in Nat \ {0}
              /\ matchIndex[Candidate][j] \in Nat
              /\ tasks[Candidate][j] \in Seq(Task)
         /\ \A i \in Server : /\ currentTerm[i] \in Nat
                              /\ log[i] \in Seq(Entry)
                              /\ Len(log[i]) \in Nat
                              /\ commitIndex[i] \in Nat
                              /\ metaCommit[i] \in Nat
<1>1. \A i \in Server : log[i] \in Seq(Entry) /\ Len(log[i]) \in Nat
  BY LogType, LenProperties
<1> QED BY <1>1, CandidateStands, TypeParts
        DEF Follower, NetTypeOK, PeerTypeOK, CtxTypeOK, LogTypeOK

LEMMA SlotTypesNext == OneCandidate /\ TypeOK' =>
  /\ Candidate \in Server
  /\ \A j \in Follower : /\ call'[Candidate][j] \in Call
                         /\ nextIndex'[Candidate][j] \in Nat \ {0}
                         /\ matchIndex'[Candidate][j] \in Nat
                         /\ tasks'[Candidate][j] \in Seq(Task)
  /\ \A i \in Server : /\ currentTerm'[i] \in Nat
                       /\ log'[i] \in Seq(Entry)
                       /\ Len(log'[i]) \in Nat
                       /\ commitIndex'[i] \in Nat
                       /\ metaCommit'[i] \in Nat
<1> SUFFICES ASSUME OneCandidate, TypeOK'
             PROVE  /\ Candidate \in Server
                    /\ \A j \in Follower :
                         /\ call'[Candidate][j] \in Call
                         /\ nextIndex'[Candidate][j] \in Nat \ {0}
                         /\ matchIndex'[Candidate][j] \in Nat
                         /\ tasks'[Candidate][j] \in Seq(Task)
                    /\ \A i \in Server : /\ currentTerm'[i] \in Nat
                                         /\ log'[i] \in Seq(Entry)
                                         /\ Len(log'[i]) \in Nat
                                         /\ commitIndex'[i] \in Nat
                                         /\ metaCommit'[i] \in Nat
  OBVIOUS
<1>1. \A i \in Server : log'[i] \in Seq(Entry) /\ Len(log'[i]) \in Nat
  BY LenProperties DEF TypeOK, LogTypeOK
<1> QED BY <1>1, CandidateStands
        DEF Follower, TypeOK, NetTypeOK, PeerTypeOK, CtxTypeOK, LogTypeOK

\* It is enough that the requests are parts of the log before the step.
LEMMA PartsFrom ==
  ASSUME OneCandidate, TypeOK, TypeOK', CallsInv, OthersFollow, PartsSent,
         [Next]_vars,
         \A j \in Follower : MaySend(call'[Candidate][j],
                                     nextIndex'[Candidate][j], log[Candidate]),
         \A r \in late' :
           r.type = "AppendEntries" => PartOf(r, log[Candidate])
  PROVE  PartsSent'
<1> DEFINE s == log[Candidate]
           t == log'[Candidate]
<1>1. s \in Seq(Entry) /\ t \in Seq(Entry) /\ PrefixOf(s, t)
  BY LogSteps
<1> HIDE DEF s, t
<1>2. ASSUME NEW j \in Follower
      PROVE  MaySend(call'[Candidate][j], nextIndex'[Candidate][j], t)
  <2>1. MaySend(call'[Candidate][j], nextIndex'[Candidate][j], s)
    BY DEF s
  <2>2. call'[Candidate][j] \in Call /\ nextIndex'[Candidate][j] \in Nat
    BY SlotTypesNext
  <2> QED BY <1>1, <2>1, <2>2, MaySendGrows
<1>3. ASSUME NEW r \in late', r.type = "AppendEntries" PROVE PartOf(r, t)
  <2>1. r \in AppendRequest
    <3>1. late' \in SUBSET (VoteRequest \cup AppendRequest)
      BY DEF TypeOK, NetTypeOK
    <3> QED BY <1>3, <3>1 DEF VoteRequest
  <2>2. PartOf(r, s)
    BY <1>3 DEF s
  <2> QED BY <1>1, <2>1, <2>2, PartGrows
<1>4. ASSUME NEW i \in Server PROVE PrefixOf(log'[i], t)
  <2>1. log[i] \in Seq(Entry) /\ log'[i] \in Seq(Entry)
    BY SlotTypes, SlotTypesNext
  <2>2. PrefixOf(log'[i], s) \/ i = Candidate
    <3>1. PrefixOf(log[i], s)
      BY DEF PartsSent, s
    <3>2. CASE log'[i] = log[i]
      BY <3>1, <3>2
    <3>3. ASSUME NEW r \in InFlight, r.to = i, ReplyAppendEntries(r)
          PROVE  PrefixOf(log'[i], s)
      <4>1. PrefixOf(log'[r.to], log[Candidate])
        BY <3>3, ServedLog
      <4> QED BY <3>3, <4>1 DEF s
    <3>4. CASE HolderStep(i)
      <4>1. UNCHANGED log \/ AppendReceived(i)
        BY <3>4 DEF HolderStep, AdvanceFollowerCommitIndex,
           SaveFollowerCommitIndex, SaveLeaderCommitIndex
      <4> QED BY <3>2, <4>1, ReceivedLog DEF s
    <3> QED BY <3>2, <3>3, <3>4, LogSteps DEF Follower
  <2>3. PrefixOf(t, t)
    <3>1. Len(t) \in Nat
      BY <1>1, LenProperties
    <3> QED BY <3>1 DEF PrefixOf
  <2>4. CASE PrefixOf(log'[i], s)
    BY <1>1, <2>1, <2>4, PrefixTransitive
  <2>5. CASE i = Candidate
    BY <2>3, <2>5 DEF t
  <2> QED BY <2>2, <2>4, <2>5
<1>5. ASSUME NEW i \in Server PROVE Halfway(mu'[i], log'[i], t)
  <2>1. Halfway(mu'[i], log'[i], s)
    BY HalfwayNext DEF s
  <2>2. Serving(mu'[i]) => mu'[i].req \in AppendRequest
    <3>1. mu'[i] \in Holder
      BY DEF TypeOK, NetTypeOK
    <3> QED BY <3>1, HolderParts DEF Serving
  <2> QED BY <1>1, <2>1, <2>2, PartGrows DEF Halfway
<1> QED BY <1>2, <1>3, <1>4, <1>5 DEF PartsSent, t

LEMMA IdleMaySend ==
  ASSUME NEW n, NEW s, n <= Len(s) + 1
  PROVE  MaySend(Idle, n, s)
  BY DEF MaySend, Idle, Appending

LEMMA PartsPeerStep ==
  ASSUME OneCandidate, TypeOK, TypeOK', CallsInv, OthersFollow, PartsSent,
         NEW j \in Follower, PeerStep(Candidate, j)
  PROVE  \A k \in Follower : MaySend(call'[Candidate][k],
                                     nextIndex'[Candidate][k], log[Candidate])
<1> DEFINE L == Candidate
           s == log[L]
<1>0. /\ L \in Server /\ j \in Server /\ s \in Seq(Entry) /\ Len(s) \in Nat
      /\ nextIndex[L][j] \in Nat \ {0}
      /\ nextIndex \in [Server -> [Server -> Nat \ {0}]]
      /\ call[L][j] \in Call
      /\ L # j
  BY SlotTypes, TypeParts DEF PeerTypeOK, Follower
<1>1. \A k \in Follower : MaySend(call[L][k], nextIndex[L][k], s)
  BY DEF PartsSent
<1>2. ASSUME \/ UpdatePeerInfo(L)
             \/ \A k \in Follower \ {j} : nextIndex'[L][k] = nextIndex[L][k],
             NEW k \in Follower \ {j}
      PROVE  MaySend(call'[L][k], nextIndex'[L][k], s)
  <2>1. call'[L][k] = call[L][k] /\ k \in Server
    BY <1>0, PeerStepSlots DEF Follower
  <2>2. MaySend(call[L][k], nextIndex[L][k], s)
    BY <1>1
  <2>3. CASE nextIndex'[L][k] = nextIndex[L][k]
    BY <2>1, <2>2, <2>3
  <2>4. CASE UpdatePeerInfo(L)
    <3>1. nextIndex'[L][k] = Len(s) + 1
      BY <1>0, <2>1, <2>4, UpdatePeerInfoEffect
    <3>2. call[L][k] \in Call
      BY SlotTypes
    <3>3. call[L][k].stage = "header" => call[L][k].last \in Nat
      BY <3>2, AppendingType
    <3> QED BY <1>0, <2>1, <2>2, <3>1, <3>3 DEF MaySend
  <2> QED BY <1>2, <2>3, <2>4
<1>3. \A k \in Follower \ {j} : MaySend(call'[L][k], nextIndex'[L][k], s)
  <2>1. \/ UpdatePeerInfo(L)
        \/ \A k \in Follower \ {j} : nextIndex'[L][k] = nextIndex[L][k]
    BY <1>0, PeerStepSlots DEF Follower
  <2> QED BY <1>2, <2>1
<1> DEFINE c == call[L][j]
           d == call'[L][j]
           n == nextIndex[L][j]
           m == nextIndex'[L][j]
<1>4. MaySend(c, n, s) /\ n <= Len(s) + 1
  BY <1>1 DEF MaySend
<1>5. MaySend(d, m, s)
  <2>1. CASE RequestVoteRPC(L, j)
    <3>1. Voting(d) /\ d.stage = "sent"
      BY <1>0, <2>1, RequestVoteRPCEffect
    <3>2. m = n
      BY <2>1 DEF RequestVoteRPC, peerVars
    <3> QED BY <1>4, <3>1, <3>2 DEF MaySend, Voting, Appending
  <2>2. CASE AppendEntriesSkip(L, j)
    BY <1>4, <2>2 DEF AppendEntriesSkip, peerVars, netVars
  <2>3. CASE AppendEntriesRPC(L, j)
    <3>1. m = n
      BY <2>3 DEF AppendEntriesRPC, peerVars
    <3>2. /\ d.stage = "header"
          /\ d.last = Len(s)
          /\ d.req.prevLogIndex = n - 1
          /\ d.req.prevLogTerm = TermAt(L, n - 1)
          /\ d.req.entries = <<>>
      BY <1>0, <2>3, AppendEntriesRPCEffect
    <3>3. Len(d.req.entries) = 0
      BY <3>2
    <3>4. PartOf(d.req, s)
      BY <1>0, <1>4, <3>2, <3>3 DEF PartOf, TermAt, TermOf
    <3> QED BY <1>0, <1>4, <3>1, <3>2, <3>4 DEF MaySend
  <2>4. CASE AppendEntriesRead(L, j)
    <3> DEFINE to == Lesser(Lesser(c.last, Len(s)), n + BatchSize - 1)
    <3>1. m = n
      BY <2>4 DEF AppendEntriesRead, peerVars
    <3>2. /\ c.stage = "header" /\ c.req \in AppendRequest /\ c.last \in Nat
          /\ d.stage = "sent" /\ Appending(d)
          /\ d.req.prevLogIndex = c.req.prevLogIndex
          /\ d.req.prevLogTerm = c.req.prevLogTerm
          /\ to \in Nat /\ to <= Len(s)
          /\ Len(d.req.entries) = IF n <= to THEN to - n + 1 ELSE 0
          /\ \A k \in 1..Len(d.req.entries) : d.req.entries[k] = s[n + k - 1]
      BY <1>0, <2>4, AppendEntriesReadEffect
    <3>3. to <= c.last
      <4>1. n \in Nat \ {0} /\ Len(s) \in Nat /\ BatchSize \in Nat \ {0}
        BY <1>0, BoundAssumption
      <4> HIDE DEF n, s, c
      <4> QED BY <3>2, <4>1 DEF Lesser
    <3>4. PartOf(c.req, s) /\ (n = c.req.prevLogIndex + 1 \/ n > c.last)
      BY <1>0, <1>4, <3>2, AppendingType DEF MaySend
    <3>5. c.req.prevLogIndex \in Nat /\ Len(c.req.entries) \in Nat
      BY <3>2, LenProperties DEF AppendRequest
    <3> HIDE DEF c, d, n, m, to, s
    <3>6. c.req.prevLogIndex <= Len(s)
      BY <1>0, <3>4, <3>5 DEF PartOf, s
    <3>7. n \in Nat \ {0} /\ Len(s) \in Nat
      BY <1>0 DEF n, s
    <3>8. d.req.prevLogIndex + Len(d.req.entries) <= Len(s)
      BY <3>2, <3>3, <3>4, <3>5, <3>6, <3>7
    <3>9. ASSUME NEW k \in 1..Len(d.req.entries)
          PROVE  d.req.entries[k] = s[d.req.prevLogIndex + k]
      <4>1. n <= to /\ n = c.req.prevLogIndex + 1
        BY <3>2, <3>3, <3>4, <3>7
      <4>2. n + k - 1 = d.req.prevLogIndex + k
        BY <3>2, <3>5, <4>1
      <4> QED BY <3>2, <4>2
    <3>10. PartOf(d.req, s)
      BY <3>2, <3>4, <3>8, <3>9 DEF PartOf
    <3> QED BY <1>4, <3>1, <3>2, <3>10 DEF MaySend
  <2>5. CASE RequestVoteReply(L, j)
    <3>1. d = Idle
      BY <1>0, <2>5, TypeParts DEF RequestVoteReply, NetTypeOK
    <3>2. m = n \/ UpdatePeerInfo(L)
      BY <2>5 DEF RequestVoteReply, peerVars
    <3>3. UpdatePeerInfo(L) => m = Len(s) + 1
      BY <1>0, UpdatePeerInfoEffect
    <3>4. m <= Len(s) + 1
      BY <1>0, <1>4, <3>2, <3>3
    <3> QED BY <3>1, <3>4, IdleMaySend
  <2>6. CASE AppendEntriesReply(L, j)
    <3>1. d = Idle /\ Appending(c) /\ c.stage = "replied"
      BY <1>0, <2>6, TypeParts DEF AppendEntriesReply, NetTypeOK, Appending
    <3>2. \/ m = n
          \/ m = ReplicatedBy(c.req) + 1
          \/ m = Lesser(c.res.lastLogIndex + 1, n - 1)
      <4> DEFINE acked  == ReplicatedBy(call[L][j].req) + 1
                 adjust == Lesser(call[L][j].res.lastLogIndex + 1,
                                  nextIndex[L][j] - 1)
      <4>1. \/ UNCHANGED nextIndex
            \/ nextIndex' = [nextIndex EXCEPT ![L][j] = acked]
            \/ nextIndex' = [nextIndex EXCEPT ![L][j] = adjust]
        BY <2>6 DEF AppendEntriesReply, peerVars
      <4>2. m = n \/ m = acked \/ m = adjust
        <5> HIDE DEF acked, adjust, L
        <5>1. ASSUME NEW v, nextIndex' = [nextIndex EXCEPT ![L][j] = v]
              PROVE  nextIndex'[L][j] = v
          BY <1>0, <5>1
        <5> QED BY <4>1, <5>1
      <4> QED BY <4>2
    <3>3. PartOf(c.req, s) /\ ReplicatedBy(c.req) <= Len(s)
          /\ ReplicatedBy(c.req) \in Nat
      <4>1. /\ PartOf(c.req, s) /\ c.req.prevLogIndex \in Nat
            /\ Len(c.req.entries) \in Nat
        <5>1. c \in Call
          BY <1>0
        <5> HIDE DEF c, s
        <5> QED BY <1>4, <3>1, <5>1, AppendingType DEF MaySend
      <4> HIDE DEF c
      <4> QED BY <4>1 DEF PartOf, ReplicatedBy
    <3>4. c.res.lastLogIndex \in Nat
      <4>1. c \in Call
        BY <1>0
      <4> HIDE DEF c
      <4>2. c.res \in AppendResponse
        BY <3>1, <4>1, AppendingType
      <4> QED BY <4>2 DEF AppendResponse
    <3>5. m <= Len(s) + 1
      <4> HIDE DEF c, s, n, m
      <4>1. n \in Nat \ {0} /\ Len(s) \in Nat
        BY <1>0 DEF n, s
      <4> QED BY <1>4, <3>2, <3>3, <3>4, <4>1 DEF Lesser
    <3> QED BY <3>1, <3>5, IdleMaySend
  <2>7. CASE SendAndRecvFails(L, j)
    <3>1. d = Idle
      BY <1>0, <2>7, TypeParts DEF SendAndRecvFails, NetTypeOK
    <3>2. m = n
      BY <2>7 DEF SendAndRecvFails, peerVars
    <3> QED BY <1>4, <3>1, <3>2, IdleMaySend
  <2> QED BY <2>1, <2>2, <2>3, <2>4, <2>5, <2>6, <2>7 DEF PeerStep
<1> QED BY <1>3, <1>5

LEMMA PartsInit == OneCandidate /\ Init => PartsSent
<1> SUFFICES ASSUME OneCandidate, Init PROVE PartsSent
  OBVIOUS
<1>1. Candidate \in Server
  BY CandidateStands
<1>2. \A i \in Server : log[i] = <<>> /\ Len(log[i]) = 0
  BY DEF Init
<1>3. \A j \in Follower : /\ call[Candidate][j] = Idle
                         /\ nextIndex[Candidate][j] = 1
  BY <1>1 DEF Init, Follower
<1>4. \A j \in Follower :
        MaySend(call[Candidate][j], nextIndex[Candidate][j], log[Candidate])
  BY <1>1, <1>2, <1>3, IdleMaySend
<1>5. \A i \in Server : PrefixOf(log[i], log[Candidate])
  BY <1>1, <1>2 DEF PrefixOf
<1>6. late = {}
  BY DEF Init
<1>7. \A i \in Server : Halfway(mu[i], log[i], log[Candidate])
  BY DEF Init, Halfway, Serving, Free
<1> QED BY <1>4, <1>5, <1>6, <1>7 DEF PartsSent

\* A request that is served leaves its slot with the answer.
LEMMA ServeSlot ==
  ASSUME TypeOK, CallsInv, NEW r \in InFlight, NEW res, Reply(r, res)
  PROVE  /\ r.from \in Server /\ r.to \in Server
         /\ \/ /\ call[r.from][r.to].stage = "sent"
               /\ call[r.from][r.to].req = r
               /\ call'[r.from][r.to].stage = "replied"
               /\ call'[r.from][r.to].req = r
               /\ call'[r.from][r.to].res = res
            \/ r \in late /\ call'[r.from][r.to] = call[r.from][r.to]
<1> DEFINE i == r.from
           j == r.to
           c == [stage |-> "replied", req |-> r, res |-> res]
<1>1. i \in Server /\ j \in Server
  BY InFlightType
<1>2. CASE r \in late /\ UNCHANGED call
  BY <1>1, <1>2
<1>3. CASE /\ call[i][j] = [stage |-> "sent", req |-> r]
           /\ call' = [call EXCEPT ![i][j] = c]
  <2>1. call[i][j].stage = "sent" /\ call[i][j].req = r
    BY <1>3
  <2>2. call'[i][j] = c
    <3> HIDE DEF i, j, c
    <3> QED BY <1>1, <1>3, TypeParts DEF NetTypeOK
  <2>3. c.stage = "replied" /\ c.req = r /\ c.res = res
    OBVIOUS
  <2> HIDE DEF c
  <2> QED BY <1>1, <2>1, <2>2, <2>3
<1> QED BY <1>2, <1>3 DEF Reply

\* A request whose service begins keeps its slot.
LEMMA BeginSlot ==
  ASSUME TypeOK, CallsInv, NEW r \in InFlight, BeginService(r)
  PROVE  /\ r.from \in Server /\ r.to \in Server
         /\ \/ /\ call[r.from][r.to].stage = "sent"
               /\ call[r.from][r.to].req = r
               /\ call'[r.from][r.to].stage = "serving"
               /\ call'[r.from][r.to].req = r
            \/ r \in late /\ call'[r.from][r.to] = call[r.from][r.to]
<1> DEFINE i == r.from
           j == r.to
           c == [stage |-> "serving", req |-> r]
<1>1. i \in Server /\ j \in Server
  BY InFlightType
<1>2. CASE r \in late /\ UNCHANGED call
  BY <1>1, <1>2
<1>3. CASE /\ call[i][j] = [stage |-> "sent", req |-> r]
           /\ call' = [call EXCEPT ![i][j] = c]
  <2>1. call[i][j].stage = "sent" /\ call[i][j].req = r
    BY <1>3
  <2>2. call'[i][j] = c
    <3> HIDE DEF i, j, c
    <3> QED BY <1>1, <1>3, TypeParts DEF NetTypeOK
  <2>3. c.stage = "serving" /\ c.req = r
    OBVIOUS
  <2> HIDE DEF c
  <2> QED BY <1>1, <2>1, <2>2, <2>3
<1> QED BY <1>2, <1>3 DEF BeginService

LEMMA PartsNext ==
  ASSUME OneCandidate, TypeOK, TypeOK', CallsInv, OthersFollow, PartsSent,
         [Next]_vars
  PROVE  PartsSent'
<1> DEFINE s == log[Candidate]
<1>0. /\ \A j \in Follower :
           MaySend(call[Candidate][j], nextIndex[Candidate][j], s)
      /\ \A r \in late : r.type = "AppendEntries" => PartOf(r, s)
  BY DEF PartsSent
<1>1. ASSUME UNCHANGED <<call, late, nextIndex>> PROVE PartsSent'
  BY <1>0, <1>1, PartsFrom
<1>2. CASE UNCHANGED vars
  BY <1>1, <1>2 DEF vars, netVars, peerVars
<1>3. ASSUME NEW j \in Follower, call[Candidate][j].stage = "sent",
             call[Candidate][j].req.type = "AppendEntries"
      PROVE  PartOf(call[Candidate][j].req, s)
  BY <1>0, <1>3 DEF MaySend, Appending
<1>4. ASSUME NEW i \in Server, ServerStep(i) PROVE PartsSent'
  <2>1. CASE ~Restart(i)
    <3>1. UNCHANGED <<call, late, nextIndex>>
      BY <1>4, <2>1 DEF ServerStep, LaunchCheckLeader, LaunchHeartBeat,
         ApplyStateMachine, Apply, ApplyFails, SetLastApplied, applyFrame,
         netVars, peerVars
    <3> QED BY <1>1, <3>1
  <2>2. CASE Restart(i)
    <3>1. ASSUME NEW j \in Follower
          PROVE  MaySend(call'[Candidate][j], nextIndex'[Candidate][j], s)
      <4>0. Candidate \in Server /\ j \in Server
        BY CandidateStands DEF Follower
      <4>1. CASE i = Candidate
        <5>1. call'[i][j] = Idle /\ nextIndex'[i][j] = Len(s) + 1
          BY <2>2, <4>0, <4>1, TypeParts
             DEF Restart, NetTypeOK, PeerTypeOK, LastLogIndex
        <5> QED BY <4>0, <4>1, <5>1, SlotTypes, IdleMaySend
      <4>2. CASE i # Candidate
        <5>1. nextIndex'[Candidate] = nextIndex[Candidate]
          BY <2>2, <4>0, <4>2, TypeParts DEF Restart, PeerTypeOK
        <5>2. call'[Candidate][j] \in {Idle, call[Candidate][j]}
          BY <2>2, <4>0, RestartSlots
        <5>3. MaySend(call[Candidate][j], nextIndex[Candidate][j], s)
          BY <1>0
        <5>4. nextIndex[Candidate][j] <= Len(s) + 1
          BY <5>3 DEF MaySend
        <5> QED BY <5>1, <5>2, <5>3, <5>4, IdleMaySend
      <4> QED BY <4>1, <4>2
    <3>2. ASSUME NEW r \in late', r.type = "AppendEntries" PROVE PartOf(r, s)
      <4>1. CASE r \in late
        BY <1>0, <3>2, <4>1
      <4>2. CASE r \notin late
        <5>1. PICK j \in Server : call[i][j].stage = "sent" /\ r = call[i][j].req
          BY <2>2, <4>2, RestartLeaves
        <5>2. r \in InFlight
          BY <5>1 DEF InFlight
        <5> QED BY <3>2, <5>2, InFlightPart
      <4> QED BY <4>1, <4>2
    <3> QED BY <3>1, <3>2, PartsFrom
  <2> QED BY <2>1, <2>2
<1>5. ASSUME NEW i \in Server, NEW j \in Server \ {i}, PeerStep(i, j)
      PROVE  PartsSent'
  <2>1. i = Candidate /\ j \in Follower
    BY <1>5, CandidateActs DEF Follower
  <2>2. \A k \in Follower : MaySend(call'[Candidate][k],
                                   nextIndex'[Candidate][k], s)
    BY <1>5, <2>1, PartsPeerStep
  <2>3. \A r \in late' : r.type = "AppendEntries" => PartOf(r, s)
    BY <1>0, <1>3, <1>5, <2>1, PeerStepRow
  <2> QED BY <2>2, <2>3, PartsFrom
<1>6. ASSUME NEW r \in InFlight, ReplyRequestVote(r) \/ ReplyAppendEntries(r)
      PROVE  PartsSent'
  <2>1. r.from = Candidate /\ r.to \in Follower
    BY FromCandidate
  <2>3. UNCHANGED nextIndex /\ late' \subseteq late
    BY <1>6, ServeRow DEF peerVars
  <2>4. ASSUME NEW j \in Follower
        PROVE  MaySend(call'[Candidate][j], nextIndex'[Candidate][j], s)
    <3> DEFINE c == call[Candidate][j]
               d == call'[Candidate][j]
               n == nextIndex[Candidate][j]
    <3>1. MaySend(c, n, s) /\ nextIndex'[Candidate][j] = n
      BY <1>0, <2>3
    <3>2. CASE d = c
      BY <3>1, <3>2
    <3>3. CASE /\ c.stage = "sent" /\ d.stage \in {"serving", "replied"}
               /\ d.req = c.req
      BY <3>1, <3>3 DEF MaySend, Appending
    <3>4. \/ d = c
          \/ /\ c.stage = "sent" /\ d.stage \in {"serving", "replied"}
             /\ d.req = c.req
      <4>1. CASE j = r.to
        BY <1>6, <2>1, <4>1, Served, ServeSlot, BeginSlot
      <4>2. CASE j # r.to
        BY <1>6, <2>1, <4>2, ServeRow, CandidateStands DEF Follower
      <4> QED BY <4>1, <4>2
    <3> QED BY <3>2, <3>3, <3>4
  <2> QED BY <1>0, <2>3, <2>4, PartsFrom
<1>7. ASSUME NEW c \in Command, CommandStep(c) PROVE PartsSent'
  BY <1>1, <1>7, CommandLeaves DEF commandFrame, netVars, peerVars
<1>8. ASSUME NEW i \in Server, HolderStep(i) PROVE PartsSent'
  <2>1. UNCHANGED <<nextIndex, late>>
    BY <1>8, HolderFrame DEF serviceFrame, peerVars
  <2>2. ASSUME NEW j \in Follower
        PROVE  MaySend(call'[Candidate][j], nextIndex'[Candidate][j], s)
    <3> DEFINE c == call[Candidate][j]
               d == call'[Candidate][j]
    <3>1. MaySend(c, nextIndex[Candidate][j], s)
      BY <1>0
    <3>2. d = c \/ (c.stage = "serving" /\ d.stage = "replied" /\ d.req = c.req)
      BY <1>8, HolderRow, SlotTypes DEF Answered
    <3> QED BY <2>1, <3>1, <3>2 DEF MaySend, Appending
  <2> QED BY <1>0, <2>1, <2>2, PartsFrom
<1> QED BY <1>2, <1>4, <1>5, <1>6, <1>7, <1>8 DEF Next

PrefixInv == ElectionInv /\ OthersFollow /\ PartsSent

LEMMA PrefixInvariant == OneCandidate /\ Spec => []PrefixInv
<1>1. OneCandidate /\ Init => PrefixInv
  BY ElectionInit, OthersInit, PartsInit DEF PrefixInv
<1>2. OneCandidate /\ PrefixInv /\ [Next]_vars => PrefixInv'
  <2> SUFFICES ASSUME OneCandidate, PrefixInv, [Next]_vars PROVE PrefixInv'
    OBVIOUS
  <2>1. ElectionInv'
    BY TypeNext, CallsNext, VotesNext DEF PrefixInv, ElectionInv
  <2> QED BY <2>1, OthersNext, PartsNext DEF PrefixInv, ElectionInv
<1>3. CASE OneCandidate
  BY <1>1, <1>2, <1>3, PTL DEF Spec
<1> QED BY <1>3

LEMMA IsPrefixOf ==
  ASSUME NEW s \in Seq(Entry), NEW t \in Seq(Entry), PrefixOf(s, t)
  PROVE  IsPrefix(s, t)
<1> DEFINE u == SubSeq(t, 1, Len(s))
<1>1. Len(s) \in Nat /\ Len(t) \in Nat /\ Len(s) <= Len(t)
  BY LenProperties DEF PrefixOf
<1>2. u \in Seq(Entry) /\ Len(u) = Len(s)
  BY <1>1, PartRead
<1>3. \A k \in 1..Len(s) : u[k] = t[k]
  <2>1. \A k \in 1..Len(u) : u[k] = t[1 + k - 1]
    BY <1>1, PartRead
  <2> HIDE DEF u
  <2>2. \A k \in 1..Len(s) : 1 + k - 1 = k
    BY <1>1
  <2> QED BY <1>2, <2>1, <2>2
<1> HIDE DEF u
<1>4. s = u
  BY <1>1, <1>2, <1>3, SeqEqual DEF PrefixOf
<1> QED BY <1>1, <1>4 DEF IsPrefix, u

\* Every log is a prefix of the log of the only server that stands: whatever
\* is lost, repeated, late or restarted, and although the entries of a request
\* are read without the lock under which its header was built.
THEOREM FollowersKeepPrefixes ==
  ASSUME OneCandidate
  PROVE  Spec => []LogsFollowLeader
<1>1. PrefixInv => LogsFollowLeader
  <2> SUFFICES ASSUME PrefixInv, NEW i \in Server, NEW l \in Electable
               PROVE  IsPrefix(log[i], log[l])
    BY DEF LogsFollowLeader
  <2>1. l = Candidate /\ Candidate \in Server
    BY CandidateStands
  <2>2. log[i] \in Seq(Entry) /\ log[l] \in Seq(Entry) /\ PrefixOf(log[i], log[l])
    BY <2>1, SlotTypes DEF PrefixInv, ElectionInv, PartsSent
  <2> QED BY <2>2, IsPrefixOf
<1> QED BY <1>1, PrefixInvariant, PTL

-----------------------------------------------------------------------------
(* Nothing is served late *)

LEMMA RequestsFinite ==
  ASSUME NEW i \in Server
  PROVE  IsFiniteSet({call[i][j].req : j \in {k \in Server :
                                        call[i][k].stage = "sent"}})
<1> DEFINE S == {k \in Server : call[i][k].stage = "sent"}
           T == {call[i][j].req : j \in S}
           f == [j \in S |-> call[i][j].req]
<1>1. IsFiniteSet(S)
  BY ServerAssumption, FS_Subset
<1>2. f \in Surjection(S, T)
  BY DEF Surjection
<1> HIDE DEF S, T, f
<1>3. IsFiniteSet(T)
  BY <1>1, <1>2, FS_Surjection
<1> QED BY <1>3 DEF T, S

NoneLate == late = {}

LEMMA NoneLateNext ==
  ASSUME MaxLate = 0, TypeOK, NoneLate, [Next]_vars
  PROVE  NoneLate'
<1>1. ASSUME UNCHANGED late PROVE NoneLate'
  BY <1>1 DEF NoneLate
<1>2. CASE UNCHANGED vars
  BY <1>1, <1>2 DEF vars, netVars
<1>3. ASSUME NEW i \in Server, ServerStep(i) PROVE NoneLate'
  <2>1. CASE ~Restart(i)
    BY <1>1, <1>3, <2>1 DEF ServerStep, LaunchCheckLeader, LaunchHeartBeat,
       ApplyStateMachine, Apply, ApplyFails, SetLastApplied, applyFrame, netVars
  <2>2. CASE Restart(i)
    <3> DEFINE T == {call[i][j].req : j \in {k \in Server :
                                        call[i][k].stage = "sent"}}
    <3>1. PICK left \in SUBSET T : /\ late' = late \cup left
                                   /\ left = {} \/ Cardinality(late') <= MaxLate
      BY <2>2, RestartLeaves
    <3>2. IsFiniteSet(T)
      BY RequestsFinite
    <3> HIDE DEF T
    <3>3. late' = left /\ IsFiniteSet(left)
      BY <3>1, <3>2, FS_Subset DEF NoneLate
    <3>4. Cardinality(left) \in Nat
      BY <3>3, FS_CardinalityType
    <3>5. left = {} \/ Cardinality(left) = 0
      BY <3>1, <3>3, <3>4
    <3> QED BY <3>3, <3>5, FS_EmptySet DEF NoneLate
  <2> QED BY <2>1, <2>2
<1>4. ASSUME NEW i \in Server, NEW j \in Server \ {i}, PeerStep(i, j)
      PROVE  NoneLate'
  <2>1. UNCHANGED late \/ Cardinality(late) < MaxLate
    BY <1>4 DEF PeerStep, RequestVoteRPC, AppendEntriesSkip, AppendEntriesRPC,
       AppendEntriesRead, RequestVoteReply, AppendEntriesReply,
       SendAndRecvFails, netVars
  <2>2. Cardinality(late) = 0
    BY FS_EmptySet DEF NoneLate
  <2> QED BY <1>1, <2>1, <2>2
<1>5. ASSUME NEW r \in InFlight, ReplyRequestVote(r) \/ ReplyAppendEntries(r)
      PROVE  NoneLate'
  BY <1>5, ServeRow DEF NoneLate
<1>6. ASSUME NEW c \in Command, CommandStep(c) PROVE NoneLate'
  BY <1>1, <1>6, CommandLeaves DEF commandFrame, netVars
<1>7. ASSUME NEW i \in Server, HolderStep(i) PROVE NoneLate'
  BY <1>1, <1>7, HolderFrame DEF serviceFrame
<1> QED BY <1>2, <1>3, <1>4, <1>5, <1>6, <1>7 DEF Next

\* A request in flight is the one its peer thread waits for.
LEMMA InFlightSlot ==
  ASSUME OneCandidate, TypeOK, CallsInv, OthersFollow, NoneLate,
         NEW r \in InFlight
  PROVE  /\ r.from = Candidate /\ r.to \in Follower
         /\ call[Candidate][r.to].stage = "sent"
         /\ call[Candidate][r.to].req = r
<1>1. PICK i \in Server, j \in Server :
        call[i][j].stage = "sent" /\ r = call[i][j].req
  BY DEF InFlight, NoneLate
<1>2. i = Candidate
  BY <1>1 DEF OthersFollow, Follows, Follower, Idle
<1>3. r.to = j
  BY <1>1 DEF CallsInv, CallsAddressed
<1> QED BY <1>1, <1>2, <1>3, FromCandidate

-----------------------------------------------------------------------------
(* The slots of the candidate's peer threads *)

\* What can happen to the slot of a peer thread.
LEMMA SlotMoves ==
  ASSUME OneCandidate, TypeOK, CallsInv, OthersFollow, [Next]_vars,
         NEW j \in Follower
  PROVE  LET c == call[Candidate][j]
             d == call'[Candidate][j]
         IN \/ d = c \/ d = Idle
            \/ PeerStep(Candidate, j)
            \/ /\ c.stage \in {"sent", "serving"}
               /\ d.stage \in {"serving", "replied"} /\ d.req = c.req
<1> DEFINE L == Candidate
           c == call[L][j]
           d == call'[L][j]
<1>0. L \in Server /\ j \in Server /\ j # L
  BY CandidateStands DEF Follower
<1>1. CASE UNCHANGED vars
  BY <1>1 DEF vars, netVars
<1>2. ASSUME NEW i \in Server, ServerStep(i) PROVE d = c \/ d = Idle
  <2>1. CASE Restart(i)
    BY <1>0, <2>1, RestartSlots
  <2>2. CASE ~Restart(i)
    BY <1>2, <2>2 DEF ServerStep, LaunchCheckLeader, LaunchHeartBeat,
       ApplyStateMachine, Apply, ApplyFails, SetLastApplied, applyFrame, netVars
  <2> QED BY <2>1, <2>2
<1>3. ASSUME NEW i \in Server, NEW k \in Server \ {i}, PeerStep(i, k)
      PROVE  d = c \/ PeerStep(L, j)
  <2>1. i = L
    BY <1>3, CandidateActs
  <2> QED BY <1>0, <1>3, <2>1, PeerStepSlots
<1>4. ASSUME NEW r \in InFlight, ReplyRequestVote(r) \/ ReplyAppendEntries(r)
      PROVE  \/ d = c
             \/ /\ c.stage = "sent"
                /\ d.stage \in {"serving", "replied"} /\ d.req = c.req
  <2>1. r.from = L
    BY FromCandidate
  <2>2. CASE j = r.to
    BY <1>4, <2>1, <2>2, Served, ServeSlot, BeginSlot
  <2>3. CASE j # r.to
    BY <1>0, <1>4, <2>3, ServeRow
  <2> QED BY <2>2, <2>3
<1>5. ASSUME NEW i \in Server, HolderStep(i)
      PROVE  \/ d = c
             \/ c.stage = "serving" /\ d.stage = "replied" /\ d.req = c.req
  BY <1>0, <1>5, HolderRow DEF Answered
<1>6. ASSUME NEW e \in Command, CommandStep(e) PROVE d = c
  BY <1>6, CommandLeaves DEF commandFrame, netVars
<1> QED BY <1>1, <1>2, <1>3, <1>4, <1>5, <1>6 DEF Next

\* The end of service: the answer says that the entries were appended.
LEMMA HolderAnswer ==
  ASSUME OneCandidate, TypeOK, CallsInv, OthersFollow, PartsSent,
         NEW j \in Follower, HolderStep(j),
         call'[Candidate][j] # call[Candidate][j]
  PROVE  LET c == call[Candidate][j]
             d == call'[Candidate][j]
         IN /\ c.stage = "serving" /\ Serving(mu[j]) /\ c.req = mu[j].req
            /\ d.stage = "replied" /\ d.req = c.req
            /\ d.res.term = currentTerm[j]
            /\ d.res.success = TRUE
            /\ mu'[j] = Free
            /\ Len(log'[j]) = ReplicatedBy(c.req)
<1> DEFINE L == Candidate
           r == mu[j].req
           c == call[L][j]
           d == call'[L][j]
           res == AppendAnswer(currentTerm[j], TRUE, log'[j])
<1>0. L \in Server /\ j \in Server /\ DOMAIN mu = Server
  BY CandidateStands, TypeParts DEF Follower, NetTypeOK
<1>1. /\ mu[j].at \in {"cut", "following"} /\ EndService(j, res)
      /\ Len(log'[j]) = ReplicatedBy(r)
  <2>1. CASE AppendReceived(j)
    <3>1. mu[j].at = "cut" /\ Len(log'[j]) = ReplicatedBy(r)
      BY <1>0, <2>1, ReceivedLog
    <3>2. EndService(j, res)
      BY <1>0, <2>1, ReceivedLog
    <3> QED BY <3>1, <3>2
  <2>2. CASE SaveFollowerCommitIndex(j)
    <3>1. mu[j].at = "following" /\ UNCHANGED log
      BY <2>2 DEF SaveFollowerCommitIndex
    <3>2. Len(log[j]) = ReplicatedBy(r)
      BY <1>0, <3>1 DEF PartsSent, Halfway, Serving
    <3> QED BY <2>2, <3>1, <3>2 DEF SaveFollowerCommitIndex
  <2>3. CASE AdvanceFollowerCommitIndex(j) \/ SaveLeaderCommitIndex(j)
    BY <2>3 DEF AdvanceFollowerCommitIndex, SaveLeaderCommitIndex
  <2> QED BY <2>1, <2>2, <2>3 DEF HolderStep
<1>2. r \in AppendRequest /\ Serving(mu[j]) /\ r.from = L
  BY <1>0, <1>1, HolderFollows
<1>3. mu'[j] = Free
  BY <1>0, <1>1 DEF EndService
<1>4. res.term = currentTerm[j] /\ res.success = TRUE
  BY DEF AppendAnswer
<1> HIDE DEF res
<1> DEFINE v == [stage |-> "replied", req |-> r, res |-> res]
<1>5. /\ call[L][j] = [stage |-> "serving", req |-> r]
      /\ call' = [call EXCEPT ![L][j] = v]
  BY <1>0, <1>1, <1>2, EndServiceSlot
<1>6. c.stage = "serving" /\ c.req = r
  BY <1>5
<1>7. v.stage = "replied" /\ v.req = r /\ v.res = res
  OBVIOUS
<1> HIDE DEF v
<1>8. d = v
  BY <1>0, <1>5, TypeParts DEF NetTypeOK
<1> QED BY <1>1, <1>2, <1>3, <1>4, <1>6, <1>7, <1>8

-----------------------------------------------------------------------------
(* What a vote is asked for with *)

\* How long the log s of a server is when its holder h is done.
Reach(h, s) == IF h.at = "cut" THEN ReplicatedBy(h.req) ELSE Len(s)

\* The log s of the peer will not be longer than the beginning of the
\* candidate's log t that a request for its vote tells of.
VoteCovers(c, h, s, t) ==
  c.stage = "sent" /\ Voting(c) =>
    /\ Reach(h, s) <= c.req.lastLogIndex
    /\ c.req.lastLogIndex <= Len(t)
    /\ c.req.lastLogTerm = TermOf(t, c.req.lastLogIndex)

VotesCover ==
  \A j \in Follower :
    VoteCovers(call[Candidate][j], mu[j], log[j], log[Candidate])

LEMMA ReachType ==
  ASSUME OneCandidate, TypeOK, OthersFollow, PartsSent, NEW j \in Follower
  PROVE  /\ Reach(mu[j], log[j]) \in Nat
         /\ Len(log[j]) <= Reach(mu[j], log[j])
         /\ Reach(mu[j], log[j]) <= Len(log[Candidate])
<1> DEFINE r == mu[j].req
<1>0. /\ j \in Server /\ Candidate \in Server
      /\ Len(log[j]) \in Nat /\ Len(log[Candidate]) \in Nat
      /\ Len(log[j]) <= Len(log[Candidate])
  BY SlotTypes DEF PartsSent, PrefixOf
<1>1. CASE mu[j].at = "cut"
  <2>1. /\ r \in AppendRequest /\ PartOf(r, log[Candidate])
        /\ Len(log[j]) = r.prevLogIndex
    BY <1>0, <1>1, HolderFollows DEF PartsSent, Halfway, Serving
  <2>2. r.prevLogIndex \in Nat /\ Len(r.entries) \in Nat
    BY <2>1, LenProperties DEF AppendRequest
  <2>3. ReplicatedBy(r) <= Len(log[Candidate])
    BY <2>1 DEF PartOf, ReplicatedBy
  <2> QED BY <1>0, <1>1, <2>1, <2>2, <2>3 DEF Reach, ReplicatedBy
<1>2. CASE mu[j].at # "cut"
  BY <1>0, <1>2 DEF Reach
<1> QED BY <1>1, <1>2

\* Nothing that happens while a vote is asked for makes the log longer.
LEMMA ReachKept ==
  ASSUME OneCandidate, TypeOK, CallsInv, OthersFollow, PartsSent, NoneLate,
         [Next]_vars, NEW j \in Follower, call[Candidate][j].stage = "sent",
         Voting(call[Candidate][j])
  PROVE  Reach(mu'[j], log'[j]) <= Reach(mu[j], log[j])
<1>0. /\ j \in Server /\ Reach(mu[j], log[j]) \in Nat /\ Len(log[j]) \in Nat
      /\ Len(log[j]) <= Reach(mu[j], log[j])
  BY SlotTypes, ReachType
<1>1. CASE log'[j] = log[j] /\ mu'[j] = mu[j]
  BY <1>0, <1>1
<1>2. CASE log'[j] = log[j] /\ mu'[j] = Free
  BY <1>0, <1>2 DEF Reach, Free
<1>3. ~\E r \in InFlight : r.to = j /\ ReplyAppendEntries(r)
  BY InFlightSlot DEF ReplyAppendEntries, Voting
<1>4. CASE AppendReceived(j)
  <2>1. /\ mu[j].at = "cut" /\ Len(log'[j]) = ReplicatedBy(mu[j].req)
        /\ mu'[j] = Free \/ mu'[j].at = "appended"
    <3>1. DOMAIN mu = Server
      BY TypeParts DEF NetTypeOK
    <3> QED BY <1>0, <1>4, <3>1, ReceivedLog DEF EndService
  <2> QED BY <1>0, <2>1 DEF Reach, Free
<1>5. CASE HolderStep(j) /\ ~AppendReceived(j)
  <2>1. UNCHANGED log
    BY <1>5 DEF HolderStep, AdvanceFollowerCommitIndex,
       SaveFollowerCommitIndex, SaveLeaderCommitIndex
  <2>2. mu'[j].at # "cut"
    <3>1. mu'[j] = Free \/ mu'[j].at \in {"appended", "following"}
      BY <1>0, <1>5, HolderRow
    <3> QED BY <3>1 DEF Free
  <2> QED BY <1>0, <2>1, <2>2 DEF Reach
<1> QED BY <1>1, <1>2, <1>3, <1>4, <1>5, LogSteps

LEMMA LastTerm ==
  ASSUME TypeOK, NEW i \in Server
  PROVE  LastLogTerm(i) = TermOf(log[i], Len(log[i]))
<1>1. log[i] \in Seq(Entry) /\ Len(log[i]) \in Nat
  BY LogType, LenProperties
<1>2. log[i] = <<>> <=> Len(log[i]) = 0
  BY <1>1, EmptySeq
<1> QED BY <1>1, <1>2 DEF LastLogTerm, TermOf

LEMMA VotesCoverInit == OneCandidate /\ Init => VotesCover
<1> SUFFICES ASSUME OneCandidate, Init, NEW j \in Follower
             PROVE  VoteCovers(call[Candidate][j], mu[j], log[j], log[Candidate])
  BY DEF VotesCover
<1>1. call[Candidate][j].stage = "idle"
  BY CandidateStands DEF Init, Follower, Idle
<1> QED BY <1>1 DEF VoteCovers

LEMMA VotesCoverNext ==
  ASSUME OneCandidate, TypeOK, TypeOK', CallsInv, OthersFollow, PartsSent,
         NoneLate, VotesCover, [Next]_vars
  PROVE  VotesCover'
<1> DEFINE L == Candidate
<1> SUFFICES ASSUME NEW j \in Follower
             PROVE  VoteCovers(call'[L][j], mu'[j], log'[j], log'[L])
  BY DEF VotesCover
<1> DEFINE c == call[L][j]
           d == call'[L][j]
           s == log[L]
           t == log'[L]
           a == Reach(mu[j], log[j])
           b == Reach(mu'[j], log'[j])
<1>1. /\ L \in Server /\ j \in Server /\ c \in Call /\ d \in Call
      /\ s \in Seq(Entry) /\ t \in Seq(Entry) /\ PrefixOf(s, t)
      /\ Len(s) \in Nat /\ Len(t) \in Nat
      /\ a \in Nat /\ a <= Len(s)
  BY SlotTypes, SlotTypesNext, LogSteps, ReachType
<1>2. /\ OthersFollow' /\ PartsSent'
  BY OthersNext, PartsNext
<1>3. Len(log'[j]) \in Nat
  BY <1>1, SlotTypesNext
<1>4. CASE d = c /\ c.stage = "sent" /\ Voting(c)
  <2>1. VoteCovers(c, mu[j], log[j], s)
    BY DEF VotesCover
  <2>2. b <= a
    BY <1>4, ReachKept
  <2>3. c.req.lastLogIndex \in Nat
    <3> HIDE DEF c
    <3> QED BY <1>1, <1>4, AppendingType DEF VoteRequest
  <2>4. /\ a <= c.req.lastLogIndex /\ c.req.lastLogIndex <= Len(s)
        /\ c.req.lastLogTerm = TermOf(s, c.req.lastLogIndex)
    BY <1>4, <2>1 DEF VoteCovers
  <2>5. b \in Int
    <3>1. CASE mu'[j].at = "cut"
      <4>1. mu'[j] \in Holder
        BY <1>1 DEF TypeOK, NetTypeOK
      <4>2. mu'[j].req \in AppendRequest
        BY <3>1, <4>1, HolderParts
      <4> QED BY <3>1, <4>2, LenProperties DEF Reach, ReplicatedBy, AppendRequest
    <3>2. CASE mu'[j].at # "cut"
      BY <1>3, <3>2 DEF Reach
    <3> QED BY <3>1, <3>2
  <2> HIDE DEF a, b, s, t, c, d
  <2>6. /\ b <= c.req.lastLogIndex /\ c.req.lastLogIndex <= Len(t)
    BY <1>1, <2>2, <2>3, <2>4, <2>5 DEF PrefixOf
  <2>7. TermOf(t, c.req.lastLogIndex) = TermOf(s, c.req.lastLogIndex)
    BY <1>1, <2>3, <2>4 DEF TermOf, PrefixOf
  <2>8. VoteCovers(d, mu'[j], log'[j], t)
    BY <1>4, <2>4, <2>6, <2>7 DEF VoteCovers, b
  <2> QED BY <2>8 DEF d, t, L
<1>5. CASE RequestVoteRPC(L, j)
  <2>1. /\ d.req.lastLogTerm = LastLogTerm(L) /\ d.req.lastLogIndex = Len(s)
    BY <1>1, <1>5, RequestVoteRPCEffect
  <2>2. UNCHANGED <<log, mu>>
    BY <1>5 DEF RequestVoteRPC, logVars
  <2>3. LastLogTerm(L) = TermOf(s, Len(s))
    BY <1>1, LastTerm
  <2>4. t = s /\ b = a
    BY <2>2
  <2> HIDE DEF a, b, s, t, d
  <2>5. VoteCovers(d, mu'[j], log'[j], t)
    BY <1>1, <2>1, <2>3, <2>4 DEF VoteCovers, b
  <2> QED BY <2>5 DEF d, t
<1>6. CASE ~(d.stage = "sent" /\ Voting(d))
  BY <1>6 DEF VoteCovers
<1>7. CASE PeerStep(L, j) /\ ~RequestVoteRPC(L, j)
  <2>1. CASE AppendEntriesSkip(L, j)
    BY <1>4, <1>6, <2>1 DEF AppendEntriesSkip, netVars
  <2>2. CASE AppendEntriesRPC(L, j)
    BY <1>1, <1>6, <2>2, AppendEntriesRPCEffect
  <2>3. CASE AppendEntriesRead(L, j)
    <3>1. Appending(d)
      BY <1>1, <2>3, AppendEntriesReadEffect
    <3> QED BY <1>6, <3>1 DEF Appending, Voting
  <2>4. CASE \/ RequestVoteReply(L, j) \/ AppendEntriesReply(L, j)
             \/ SendAndRecvFails(L, j)
    <3>1. d = Idle
      BY <1>1, <2>4, TypeParts DEF RequestVoteReply, AppendEntriesReply,
                                  SendAndRecvFails, NetTypeOK
    <3> QED BY <1>6, <3>1 DEF Idle
  <2> QED BY <1>7, <2>1, <2>2, <2>3, <2>4 DEF PeerStep
<1>8. d = Idle => d.stage # "sent"
  BY DEF Idle
<1> QED BY <1>4, <1>5, <1>6, <1>7, <1>8, SlotMoves

-----------------------------------------------------------------------------
(* The candidate's terms and its reign *)

\* The peer is not ahead of the term of the request that is made to it, and its
\* answer does not deny.  Here c is what the peer thread does, term the term of
\* the peer, and top is the term of the candidate.
InStep(c, term, top) ==
  /\ term <= top
  /\ c.stage # "idle" => c.req.term <= top
  /\ c.stage \in {"header", "sent", "serving"} => term <= c.req.term
  /\ c.stage = "replied" => c.res.term <= c.req.term
  /\ c.stage = "replied" /\ Voting(c) => c.res.granted = TRUE

\* Only votes are asked for.
OnlyVotes(q, c) ==
  /\ \A k \in 1..Len(q) : q[k] = "RequestVote"
  /\ ~Appending(c)

Ordered(s) == \A k, l \in 1..Len(s) : k <= l => s[k].term <= s[l].term

TermsFollow ==
  \A j \in Follower :
    /\ InStep(call[Candidate][j], currentTerm[j], currentTerm[Candidate])
    /\ \A v \in voteFor[j] : v.candidate = Candidate

\* The candidate sends entries and takes commands only while it leads.
ReignLasts ==
  /\ role[Candidate] # "kLeader" =>
       /\ leader[Candidate] # Candidate
       /\ \A j \in Follower : OnlyVotes(tasks[Candidate][j], call[Candidate][j])
  /\ \A c \in Command :
       /\ cmds[c].stage \in {"checked", "built"} => role[Candidate] = "kLeader"
       /\ cmds[c].stage = "built" => cmds[c].read = currentTerm[Candidate]

\* The terms in the candidate's log go up, to at most its own.
TermsOrdered ==
  /\ Ordered(log[Candidate])
  /\ \A k \in 1..Len(log[Candidate]) :
       log[Candidate][k].term <= currentTerm[Candidate]

TermsInv == TermsFollow /\ ReignLasts /\ TermsOrdered

LEMMA TermsInit == OneCandidate /\ Init => NoneLate /\ TermsInv
<1> SUFFICES ASSUME OneCandidate, Init PROVE NoneLate /\ TermsInv
  OBVIOUS
<1>1. Candidate \in Server
  BY CandidateStands
<1>2. \A i \in Server : log[i] = <<>> /\ Len(log[i]) = 0
  BY DEF Init
<1>3. \A j \in Follower : /\ call[Candidate][j] = Idle
                         /\ tasks[Candidate][j] = <<>>
                         /\ Len(tasks[Candidate][j]) = 0
                         /\ currentTerm[j] = 0 /\ currentTerm[Candidate] = 0
                         /\ voteFor[j] = {}
  BY <1>1 DEF Init, Follower
<1>4. TermsFollow
  BY <1>3 DEF TermsFollow, InStep, Idle, Voting
<1>5. ReignLasts
  <2>1. \A j \in Follower : OnlyVotes(tasks[Candidate][j], call[Candidate][j])
    BY <1>3 DEF OnlyVotes, Idle, Appending
  <2>2. leader[Candidate] # Candidate
    BY <1>1, ServerAssumption DEF Init
  <2>3. \A c \in Command : cmds[c].stage = "new"
    BY DEF Init
  <2> QED BY <2>1, <2>2, <2>3 DEF ReignLasts
<1>6. TermsOrdered
  BY <1>1, <1>2 DEF TermsOrdered, Ordered
<1> QED BY <1>4, <1>5, <1>6 DEF TermsInv, Init, NoneLate

LEMMA PrefixLastTerm ==
  ASSUME NEW s \in Seq(Entry), NEW t \in Seq(Entry), PrefixOf(s, t), Ordered(t),
         NEW n \in Nat, Len(s) <= n, n <= Len(t)
  PROVE  TermOf(s, Len(s)) <= TermOf(t, n)
<1>1. Len(s) \in Nat /\ Len(t) \in Nat
  BY LenProperties
<1>2. \A k \in 1..Len(t) : t[k].term \in Nat
  <2>1. \A k \in 1..Len(t) : t[k] \in Entry
    BY ElementOfSeq
  <2>2. \A e \in Entry : e.term \in Nat
    BY DEF Entry
  <2> QED BY <2>1, <2>2
<1>3. CASE Len(s) = 0
  BY <1>1, <1>2, <1>3 DEF TermOf
<1>4. CASE Len(s) # 0
  <2>1. Len(s) \in 1..Len(s) /\ Len(s) \in 1..Len(t) /\ n \in 1..Len(t)
    BY <1>1, <1>4
  <2>2. TermOf(s, Len(s)) = t[Len(s)].term /\ TermOf(t, n) = t[n].term
    BY <2>1 DEF TermOf, PrefixOf
  <2> QED BY <1>1, <2>1, <2>2 DEF Ordered
<1> QED BY <1>3, <1>4

\* An answer is not ahead of the candidate's term, and does not deny.
LEMMA ReplyNotAhead ==
  ASSUME OneCandidate, TypeOK, TermsFollow, NEW j \in Follower,
         call[Candidate][j].stage = "replied"
  PROVE  /\ call[Candidate][j].res.term <= currentTerm[Candidate]
         /\ call[Candidate][j].res.term \in Nat
         /\ Voting(call[Candidate][j]) =>
              call[Candidate][j].res.granted = TRUE
<1> DEFINE L == Candidate
           c == call[L][j]
<1>1. /\ c \in Call /\ currentTerm[L] \in Nat
      /\ InStep(c, currentTerm[j], currentTerm[L])
  BY SlotTypes DEF TermsFollow
<1>2. c.stage = "replied"
  OBVIOUS
<1> HIDE DEF c, L
<1>3. c.res.term \in Nat /\ c.req.term \in Nat
  BY <1>1, <1>2, AppendingType DEF AppendResponse, VoteResponse, VoteRequest
<1>4. c.res.term <= currentTerm[L] /\ (Voting(c) => c.res.granted = TRUE)
  BY <1>1, <1>2, <1>3 DEF InStep
<1> QED BY <1>3, <1>4 DEF c, L

\* The answers never make the candidate step down.
LEMMA ReignPeerStep ==
  ASSUME OneCandidate, TypeOK, TermsFollow, ReignLasts, NEW j \in Follower,
         PeerStep(Candidate, j)
  PROVE  /\ UNCHANGED currentTerm
         /\ AppendEntriesReply(Candidate, j) => role[Candidate] = "kLeader"
         /\ \/ UNCHANGED <<role, leader>>
            \/ /\ RequestVoteReply(Candidate, j)
               /\ role[Candidate] = "kCandidate"
               /\ role'[Candidate] = "kLeader"
               /\ UpdatePeerInfo(Candidate)
<1> DEFINE L == Candidate
           c == call[L][j]
<1>1. /\ L \in Server /\ c \in Call /\ currentTerm[L] \in Nat
      /\ role \in [Server -> Role]
      /\ InStep(c, currentTerm[j], currentTerm[L])
      /\ role[L] # "kLeader" => ~Appending(c)
  BY SlotTypes, TypeParts DEF CtxTypeOK, TermsFollow, ReignLasts, OnlyVotes
<1>2. c.stage = "replied" =>
        /\ c.res.term <= currentTerm[L]
        /\ c.res.term \in Nat
        /\ Voting(c) => c.res.granted = TRUE
  BY ReplyNotAhead
<1>3. CASE RequestVoteReply(L, j)
  <2>1. /\ c.res.term <= currentTerm[L] /\ c.res.term \in Nat
        /\ c.res.granted = TRUE
    BY <1>2, <1>3 DEF RequestVoteReply, Voting
  <2>2. \/ UNCHANGED ctxVars
        \/ /\ role[L] = "kCandidate"
           /\ UNCHANGED <<currentTerm, role, leader>>
        \/ /\ role[L] = "kCandidate"
           /\ BecomeLeader(L) /\ UpdatePeerInfo(L)
    BY <1>1, <1>3, <2>1 DEF RequestVoteReply
  <2>3. ~AppendEntriesReply(L, j)
    BY <1>3 DEF RequestVoteReply, AppendEntriesReply
  <2> QED BY <1>1, <1>3, <2>2, <2>3 DEF ctxVars, BecomeLeader
<1>4. CASE AppendEntriesReply(L, j)
  <2>1. c.res.term <= currentTerm[L] /\ c.res.term \in Nat /\ Appending(c)
    BY <1>2, <1>4 DEF AppendEntriesReply, Appending
  <2>2. role[L] = "kLeader"
    BY <1>1, <2>1
  <2>3. UNCHANGED ctxVars
    BY <1>1, <1>4, <2>1, <2>2 DEF AppendEntriesReply
  <2> QED BY <2>2, <2>3 DEF ctxVars
<1>5. CASE ~RequestVoteReply(L, j) /\ ~AppendEntriesReply(L, j)
  BY <1>5 DEF PeerStep, RequestVoteRPC, AppendEntriesSkip, AppendEntriesRPC,
              AppendEntriesRead, SendAndRecvFails, ctxVars
<1> QED BY <1>3, <1>4, <1>5

\* A peer thread that is idle again, or goes on to the next stage.
LEMMA IdleInStep ==
  ASSUME NEW term, NEW top, term <= top
  PROVE  InStep(Idle, term, top)
  BY DEF InStep, Idle, Voting

LEMMA InStepPeerStep ==
  ASSUME OneCandidate, TypeOK, TypeOK', TermsInv, NEW j \in Follower,
         PeerStep(Candidate, j)
  PROVE  InStep(call'[Candidate][j], currentTerm[j], currentTerm[Candidate])
<1> DEFINE L == Candidate
           c == call[L][j]
           d == call'[L][j]
<1> SUFFICES InStep(d, currentTerm[j], currentTerm[L])
  OBVIOUS
<1>1. /\ L \in Server /\ j \in Server /\ c \in Call /\ currentTerm[L] \in Nat
      /\ d \in Call
      /\ currentTerm[j] \in Nat
  BY SlotTypes, SlotTypesNext
<1>2. /\ InStep(c, currentTerm[j], currentTerm[L])
      /\ currentTerm[j] <= currentTerm[L]
  BY DEF TermsInv, TermsFollow, InStep
<1>3. CASE RequestVoteRPC(L, j)
  <2>1. d.stage = "sent" /\ d.req.term = currentTerm[L]
    BY <1>1, <1>3, RequestVoteRPCEffect
  <2> HIDE DEF d, L
  <2> QED BY <1>1, <1>2, <2>1 DEF InStep
<1>4. CASE AppendEntriesSkip(L, j)
  BY <1>2, <1>4 DEF AppendEntriesSkip, netVars
<1>5. CASE AppendEntriesRPC(L, j)
  <2>1. d.stage = "header" /\ Appending(d) /\ d.req.term = currentTerm[L]
    BY <1>1, <1>5, AppendEntriesRPCEffect
  <2> HIDE DEF d, L
  <2> QED BY <1>1, <1>2, <2>1 DEF InStep
<1>6. CASE AppendEntriesRead(L, j)
  <2>1. /\ c.stage = "header" /\ d.stage = "sent" /\ Appending(d)
        /\ d.req.term = c.req.term
    BY <1>1, <1>6, AppendEntriesReadEffect
  <2>2. ~Voting(d)
    BY <2>1 DEF Appending, Voting
  <2> HIDE DEF c, d, L
  <2> QED BY <1>1, <1>2, <2>1, <2>2 DEF InStep
<1>7. CASE \/ RequestVoteReply(L, j) \/ AppendEntriesReply(L, j)
           \/ SendAndRecvFails(L, j)
  <2>1. d = Idle
    BY <1>1, <1>7, TypeParts DEF RequestVoteReply, AppendEntriesReply,
                                SendAndRecvFails, NetTypeOK
  <2> QED BY <1>2, <2>1, IdleInStep
<1> QED BY <1>3, <1>4, <1>5, <1>6, <1>7 DEF PeerStep

\* Serving a request of the candidate: the vote is granted, and the term of an
\* answer is that of the request.
LEMMA ServedTerm ==
  ASSUME OneCandidate, TypeOK, CallsInv, OthersFollow, PartsSent, NoneLate,
         VotesCover, TermsFollow, TermsOrdered,
         NEW r \in InFlight, ReplyRequestVote(r) \/ ReplyAppendEntries(r)
  PROVE  /\ r.term \in Nat /\ currentTerm[r.to] <= r.term
         /\ currentTerm'[r.to] \in {currentTerm[r.to], r.term}
         /\ \A v \in voteFor'[r.to] : v.candidate = Candidate
         /\ call'[Candidate][r.to].req = r
         /\ \/ /\ call'[Candidate][r.to].stage = "replied"
               /\ call'[Candidate][r.to].res.term = r.term
            \/ /\ call'[Candidate][r.to].stage = "serving"
               /\ r.type = "AppendEntries"
         /\ r.type = "RequestVote" =>
              call'[Candidate][r.to].res.granted = TRUE
<1> DEFINE L == Candidate
           j == r.to
           d == call'[L][j]
<1>1. /\ r.from = L /\ j \in Follower /\ j \in Server /\ L \in Server
      /\ call[L][j].stage = "sent" /\ call[L][j].req = r
      /\ r.term \in Nat
      /\ currentTerm \in [Server -> Nat]
      /\ voteFor \in [Server -> SUBSET [term : Nat, candidate : Server]]
  <2>1. r.term \in Nat
    BY InFlightType DEF VoteRequest, AppendRequest
  <2> QED BY <2>1, InFlightSlot, CandidateStands, TypeParts
          DEF Follower, CtxTypeOK, VoteTypeOK
<1>2. /\ InStep(call[L][j], currentTerm[j], currentTerm[L])
      /\ \A v \in voteFor[j] : v.candidate = L
  BY <1>1 DEF TermsFollow
<1>3. currentTerm[j] <= r.term
  BY <1>1, <1>2 DEF InStep
<1>4. ASSUME NEW res, Reply(r, res)
      PROVE  d.stage = "replied" /\ d.req = r /\ d.res = res
  BY <1>1, <1>4, ServeSlot DEF NoneLate
<1>5. CASE ReplyRequestVote(r)
  <2>0. r \in VoteRequest /\ Voting(call[L][j]) /\ r.type = "RequestVote"
    BY <1>1, <1>5, InFlightType DEF ReplyRequestVote, Voting
  <2>1. UpToDate(j, r)
    <3> DEFINE s == log[j]
               t == log[L]
    <3>0. /\ s \in Seq(Entry) /\ t \in Seq(Entry) /\ Len(s) \in Nat
          /\ PrefixOf(s, t) /\ Ordered(t)
          /\ r.lastLogIndex \in Nat
      BY <1>1, <2>0, SlotTypes DEF PartsSent, TermsOrdered, VoteRequest
    <3>1. /\ Reach(mu[j], s) <= r.lastLogIndex /\ r.lastLogIndex <= Len(t)
          /\ r.lastLogTerm = TermOf(t, r.lastLogIndex)
      BY <1>1, <2>0 DEF VotesCover, VoteCovers
    <3>2. Reach(mu[j], s) = Len(s)
      BY <1>5 DEF ReplyRequestVote, Reach, Free
    <3> HIDE DEF s, t
    <3>3. TermOf(s, Len(s)) <= r.lastLogTerm /\ r.lastLogIndex >= Len(s)
      BY <3>0, <3>1, <3>2, PrefixLastTerm
    <3>4. LastLogTerm(j) = TermOf(s, Len(s))
      BY <1>1, LastTerm DEF s
    <3>5. r.lastLogTerm \in Nat /\ LastLogTerm(j) \in Nat
      BY <1>1, <2>0, LogType DEF VoteRequest
    <3> QED BY <3>3, <3>4, <3>5 DEF UpToDate, LastLogIndex, s
  <2>2. ~VotedForOther(j, r)
    BY <1>1, <1>2 DEF VotedForOther
  <2> DEFINE res == [term |-> r.term, granted |-> TRUE]
  <2>3. /\ Reply(r, res)
        /\ voteFor' = [voteFor EXCEPT ![j] =
                         @ \cup {[term |-> r.term, candidate |-> r.from]}]
        /\ currentTerm' = [currentTerm EXCEPT ![j] = r.term]
    BY <1>1, <1>3, <1>5, <2>1, <2>2 DEF ReplyRequestVote
  <2>4. currentTerm'[j] = r.term
    BY <1>1, <2>3
  <2>5. \A v \in voteFor'[j] : v.candidate = L
    BY <1>1, <1>2, <2>3
  <2>6. res.term = r.term /\ res.granted = TRUE
    OBVIOUS
  <2> HIDE DEF res
  <2> QED BY <1>1, <1>3, <1>4, <2>3, <2>4, <2>5, <2>6
<1>6. CASE ReplyAppendEntries(r)
  <2>1. r.type = "AppendEntries"
    BY <1>6 DEF ReplyAppendEntries
  <2>2. ~(r.term < currentTerm[j])
    BY <1>1, <1>3
  <2> DEFINE res == AppendAnswer(r.term, FALSE, log[j])
  <2>3. FollowSender(j, r) /\ (Reply(r, res) \/ BeginService(r))
    BY <1>6, <2>2 DEF ReplyAppendEntries
  <2>4. UNCHANGED voteFor
    BY <1>6 DEF ReplyAppendEntries, voteVars
  <2>5. currentTerm'[j] \in {currentTerm[j], r.term}
    BY <1>1, <2>3 DEF FollowSender, StepDown, BecomeFollower, ctxVars
  <2>6. res.term = r.term
    BY DEF AppendAnswer
  <2> HIDE DEF res
  <2>7. BeginService(r) => d.stage = "serving" /\ d.req = r
    BY <1>1, BeginSlot DEF NoneLate
  <2>8. \/ d.stage = "replied" /\ d.req = r /\ d.res = res
        \/ d.stage = "serving" /\ d.req = r
    BY <1>4, <2>3, <2>7
  <2> QED BY <1>1, <1>2, <1>3, <2>1, <2>4, <2>5, <2>6, <2>8
<1> QED BY <1>5, <1>6

LEMMA OnlyVotesSchedule ==
  ASSUME NEW q \in Seq(Task), NEW c, OnlyVotes(q, c)
  PROVE  OnlyVotes(Schedule(q, "RequestVote"), c)
<1>1. Len(q) \in Nat /\ "RequestVote" \in Task
  BY LenProperties DEF Task
<1>2. /\ Len(Append(q, "RequestVote")) = Len(q) + 1
      /\ \A k \in 1..Len(q) : Append(q, "RequestVote")[k] = q[k]
      /\ Append(q, "RequestVote")[Len(q) + 1] = "RequestVote"
  BY <1>1, AppendProperties
<1> QED BY <1>1, <1>2 DEF OnlyVotes, Schedule

LEMMA TermsKept ==
  ASSUME TermsInv, UNCHANGED <<call, currentTerm, log, voteFor, role, leader,
                               tasks, cmds>>
  PROVE  TermsInv'
  BY DEF TermsInv, TermsFollow, ReignLasts, TermsOrdered

LEMMA TermsCheckLeader ==
  ASSUME OneCandidate, TypeOK, TermsInv, LaunchCheckLeader(Candidate)
  PROVE  TermsInv'
<1> DEFINE L == Candidate
<1>1. /\ L \in Server /\ role[L] # "kLeader"
      /\ role \in [Server -> Role] /\ leader \in [Server -> Address]
      /\ currentTerm \in [Server -> Nat]
      /\ Nil # L
  BY SlotTypes, TypeParts, ServerAssumption DEF CtxTypeOK, LaunchCheckLeader
<1>2. UNCHANGED <<call, log, voteFor, cmds>>
  BY DEF LaunchCheckLeader, logVars, netVars, voteVars
<1>3. \A c \in Command : cmds[c].stage \notin {"checked", "built"}
  BY <1>1 DEF TermsInv, ReignLasts
<1>4. CASE SingleMode
  <2>1. role'[L] = "kLeader" /\ UNCHANGED currentTerm
    BY <1>1, <1>4 DEF LaunchCheckLeader, BecomeLeader
  <2>2. TermsFollow' /\ TermsOrdered'
    BY <1>2, <2>1 DEF TermsInv, TermsFollow, TermsOrdered
  <2>3. ReignLasts'
    BY <1>2, <1>3, <2>1 DEF ReignLasts
  <2> QED BY <2>2, <2>3 DEF TermsInv
<1>5. CASE ~SingleMode
  <2>1. /\ currentTerm' = [currentTerm EXCEPT ![L] = @ + 1]
        /\ leader'[L] = Nil /\ NoticePeerTask(L, "RequestVote")
    BY <1>1, <1>5 DEF LaunchCheckLeader, BecomeCandidate
  <2>2. /\ currentTerm'[L] = currentTerm[L] + 1
        /\ \A j \in Follower : currentTerm'[j] = currentTerm[j]
    BY <1>1, <2>1 DEF Follower
  <2>3. \A j \in Follower :
          InStep(call[L][j], currentTerm[j], currentTerm[L] + 1)
    <3> SUFFICES ASSUME NEW j \in Follower
                 PROVE  InStep(call[L][j], currentTerm[j], currentTerm[L] + 1)
      OBVIOUS
    <3> DEFINE c == call[L][j]
    <3>1. /\ InStep(c, currentTerm[j], currentTerm[L])
          /\ c \in Call /\ currentTerm[j] \in Nat /\ currentTerm[L] \in Nat
      BY SlotTypes, <1>1 DEF TermsInv, TermsFollow, Follower
    <3> HIDE DEF c, L
    <3>2. c.stage # "idle" => c.req.term \in Nat
      BY <3>1, AppendingType DEF VoteRequest
    <3>3. InStep(c, currentTerm[j], currentTerm[L] + 1)
      BY <3>1, <3>2 DEF InStep
    <3> QED BY <3>3 DEF c
  <2>4. TermsFollow'
    BY <1>2, <2>2, <2>3 DEF TermsInv, TermsFollow
  <2>5. TermsOrdered'
    <3>1. \A k \in 1..Len(log[L]) : log[L][k].term <= currentTerm[L] + 1
      <4>1. \A k \in 1..Len(log[L]) : log[L][k] \in Entry
        BY <1>1, LogType, ElementOfSeq
      <4>2. \A e \in Entry : e.term \in Nat
        BY DEF Entry
      <4>3. \A k \in 1..Len(log[L]) : log[L][k].term <= currentTerm[L]
        BY DEF TermsInv, TermsOrdered
      <4>4. currentTerm[L] \in Nat
        BY <1>1
      <4> HIDE DEF L
      <4> QED BY <4>1, <4>2, <4>3, <4>4
    <3> QED BY <1>2, <2>2, <3>1 DEF TermsInv, TermsOrdered
  <2>6. ReignLasts'
    <3>1. \A j \in Follower :
            /\ tasks[L][j] \in Seq(Task)
            /\ tasks'[L][j] = Schedule(tasks[L][j], "RequestVote")
      BY <1>1, <2>1, TypeParts DEF NoticePeerTask, Follower
    <3>2. \A j \in Follower : OnlyVotes(tasks'[L][j], call[L][j])
      BY <1>1, <3>1, OnlyVotesSchedule DEF TermsInv, ReignLasts
    <3> QED BY <1>1, <1>2, <1>3, <2>1, <3>2 DEF ReignLasts
  <2> QED BY <2>4, <2>5, <2>6 DEF TermsInv
<1> QED BY <1>4, <1>5

LEMMA TermsRestart ==
  ASSUME OneCandidate, TypeOK, OthersFollow, TermSaved, TermsInv,
         NEW i \in Server, Restart(i)
  PROVE  TermsInv'
<1> DEFINE L == Candidate
<1>1. L \in Server /\ Nil # L
  BY CandidateStands, ServerAssumption
<1>2. \A k \in Server : currentTerm'[k] = currentTerm[k]
  BY TypeParts DEF Restart, CtxTypeOK, TermSaved
<1>3. UNCHANGED log
  BY DEF Restart
<1>4. \A k \in Server : \A v \in voteFor'[k] : v \in voteFor[k]
  BY TypeParts DEF Restart, VoteTypeOK
<1>5. TermsOrdered'
  BY <1>1, <1>2, <1>3 DEF TermsInv, TermsOrdered
<1>6. CASE i = L
  <2>1. /\ role'[L] = "kFollower" /\ leader'[L] = Nil
        /\ \A j \in Follower : /\ tasks'[L][j] = <<>> /\ Len(tasks'[L][j]) = 0
                               /\ call'[L][j] = Idle
    BY <1>1, <1>6, TypeParts DEF Restart, CtxTypeOK, NetTypeOK, Follower
  <2>2. ASSUME NEW j \in Follower
        PROVE  InStep(call'[L][j], currentTerm'[j], currentTerm'[L])
    BY <1>1, <1>2, <2>1, IdleInStep DEF TermsInv, TermsFollow, InStep, Follower
  <2>3. TermsFollow'
    BY <1>4, <2>2 DEF TermsInv, TermsFollow, Follower
  <2>4. \A j \in Follower : OnlyVotes(tasks'[L][j], call'[L][j])
    BY <2>1 DEF OnlyVotes, Appending, Idle
  <2>5. ASSUME NEW c \in Command
        PROVE  cmds'[c].stage \notin {"checked", "built"}
    <3>1. cmds[c].at # L => cmds[c].stage = "new"
      BY DEF OthersFollow
    <3> QED BY <1>6, <3>1, RestartCommands
  <2>6. ReignLasts'
    BY <1>1, <2>1, <2>4, <2>5 DEF ReignLasts
  <2> QED BY <1>5, <2>3, <2>6 DEF TermsInv
<1>7. CASE i # L
  <2>1. /\ role'[L] = role[L] /\ leader'[L] = leader[L]
        /\ tasks'[L] = tasks[L]
    BY <1>1, <1>7, TypeParts DEF Restart, CtxTypeOK
  <2>5. \A j \in Follower : call'[L][j] \in {Idle, call[L][j]}
    BY <1>1, RestartSlots DEF Follower
  <2>2. TermsFollow'
    <3>1. ASSUME NEW j \in Follower
          PROVE  InStep(call'[L][j], currentTerm'[j], currentTerm'[L])
      <4>1. InStep(call[L][j], currentTerm[j], currentTerm[L])
        BY DEF TermsInv, TermsFollow
      <4>2. InStep(Idle, currentTerm[j], currentTerm[L])
        BY <4>1, IdleInStep DEF InStep
      <4> QED BY <1>1, <1>2, <2>5, <4>1, <4>2 DEF Follower
    <3> QED BY <1>4, <3>1 DEF TermsInv, TermsFollow, Follower
  <2>3. \A c \in Command : cmds'[c] = cmds[c] \/ cmds'[c].stage = "failed"
    BY RestartCommands
  <2>4. ReignLasts'
    <3>1. \A j \in Follower : OnlyVotes(tasks[L][j], call[L][j]) =>
                               OnlyVotes(tasks'[L][j], call'[L][j])
      BY <2>1, <2>5 DEF OnlyVotes, Appending, Idle
    <3> QED BY <1>1, <1>2, <2>1, <2>3, <3>1 DEF TermsInv, ReignLasts
  <2> QED BY <1>5, <2>2, <2>4 DEF TermsInv
<1> QED BY <1>6, <1>7

LEMMA TermsPeerStep ==
  ASSUME OneCandidate, TypeOK, TypeOK', TermsInv, NEW j \in Follower,
         PeerStep(Candidate, j)
  PROVE  TermsInv'
<1> DEFINE L == Candidate
<1>0. L \in Server /\ j \in Server /\ j # L
  BY CandidateStands DEF Follower
<1>1. UNCHANGED <<cmds, voteFor, log, currentTerm>>
  BY <1>0, PeerStepRow, ReignPeerStep DEF TermsInv
<1>2. \A k \in Follower \ {j} : /\ call'[L][k] = call[L][k]
                                /\ tasks'[L][k] = tasks[L][k]
  BY <1>0, PeerStepSlots DEF Follower
<1>3. InStep(call'[L][j], currentTerm[j], currentTerm[L])
  BY InStepPeerStep
<1>4. TermsFollow'
  BY <1>1, <1>2, <1>3 DEF TermsInv, TermsFollow
<1>5. TermsOrdered'
  BY <1>1 DEF TermsInv, TermsOrdered
<1>6. role[L] = "kLeader" => role'[L] = "kLeader"
  BY ReignPeerStep DEF TermsInv
<1>7. ASSUME role'[L] # "kLeader"
      PROVE  leader'[L] # L /\ OnlyVotes(tasks'[L][j], call'[L][j])
  <2>1. /\ role[L] # "kLeader" /\ UNCHANGED leader
        /\ ~AppendEntriesReply(L, j)
    BY <1>6, <1>7, ReignPeerStep DEF TermsInv
  <2>2. leader[L] # L /\ OnlyVotes(tasks[L][j], call[L][j])
    BY <2>1 DEF TermsInv, ReignLasts
  <2>3. CASE RequestVoteRPC(L, j)
    <3>1. Voting(call'[L][j])
      BY <1>0, <2>3, RequestVoteRPCEffect
    <3>2. ~Appending(call'[L][j])
      BY <3>1 DEF Voting, Appending
    <3>3. TakeTask(L, j, "RequestVote")
      BY <2>3 DEF RequestVoteRPC
    <3>4. /\ Len(tasks'[L][j]) = Len(tasks[L][j]) - 1
          /\ \A k \in 1..Len(tasks'[L][j]) :
               tasks'[L][j][k] = tasks[L][j][k + 1]
      BY <1>0, <3>3, TakeTaskEffect
    <3>5. Len(tasks[L][j]) \in Nat
      BY SlotTypes, LenProperties
    <3> QED BY <2>1, <2>2, <3>2, <3>4, <3>5 DEF OnlyVotes
  <2>4. CASE AppendEntriesSkip(L, j) \/ AppendEntriesRPC(L, j)
    <3>1. TakeTask(L, j, "AppendEntries")
      BY <2>4 DEF AppendEntriesSkip, AppendEntriesRPC
    <3>2. Len(tasks[L][j]) > 0 /\ tasks[L][j][1] = "AppendEntries"
      BY <1>0, <3>1, TakeTaskEffect
    <3>3. Len(tasks[L][j]) \in Nat
      BY SlotTypes, LenProperties
    <3>4. 1 \in 1..Len(tasks[L][j])
      BY <3>2, <3>3
    <3> QED BY <2>2, <3>2, <3>4 DEF OnlyVotes
  <2>5. CASE AppendEntriesRead(L, j)
    <3>1. call[L][j].stage = "header" /\ call[L][j] \in Call
      BY <2>5, SlotTypes DEF AppendEntriesRead
    <3> QED BY <2>2, <3>1, AppendingType DEF OnlyVotes
  <2>6. CASE RequestVoteReply(L, j) \/ SendAndRecvFails(L, j)
    <3>1. call'[L][j] = Idle /\ UNCHANGED tasks
      BY <1>0, <2>6, TypeParts DEF RequestVoteReply, SendAndRecvFails, NetTypeOK
    <3> QED BY <2>1, <2>2, <3>1 DEF OnlyVotes, Appending, Idle
  <2> QED BY <2>1, <2>3, <2>4, <2>5, <2>6 DEF PeerStep
<1>8. ReignLasts'
  <2>1. ASSUME role'[L] # "kLeader", NEW k \in Follower
        PROVE  OnlyVotes(tasks'[L][k], call'[L][k])
    BY <1>2, <1>6, <1>7, <2>1 DEF TermsInv, ReignLasts
  <2>2. \A c \in Command :
          /\ cmds'[c].stage \in {"checked", "built"} => role'[L] = "kLeader"
          /\ cmds'[c].stage = "built" => cmds'[c].read = currentTerm'[L]
    BY <1>1, <1>6 DEF TermsInv, ReignLasts
  <2> QED BY <1>7, <2>1, <2>2 DEF ReignLasts
<1> QED BY <1>4, <1>5, <1>8 DEF TermsInv

LEMMA TermsServe ==
  ASSUME OneCandidate, TypeOK, TypeOK', CallsInv, OthersFollow, PartsSent,
         NoneLate, VotesCover, TermsInv, NEW r \in InFlight,
         ReplyRequestVote(r) \/ ReplyAppendEntries(r)
  PROVE  TermsInv'
<1> DEFINE L == Candidate
           j == r.to
           c == call[L][j]
           d == call'[L][j]
<1>0. /\ L \in Server /\ j \in Server /\ j # L /\ r.from = L /\ j \in Follower
      /\ c.stage = "sent" /\ c.req = r
      /\ currentTerm[L] \in Nat /\ currentTerm'[j] \in Nat /\ c \in Call
  BY CandidateStands, InFlightSlot, SlotTypes, SlotTypesNext DEF Follower
<1>1. /\ \A k \in Follower \ {j} : /\ call'[L][k] = call[L][k]
                                   /\ currentTerm'[k] = currentTerm[k]
                                   /\ voteFor'[k] = voteFor[k]
      /\ role'[L] = role[L] /\ leader'[L] = leader[L]
      /\ currentTerm'[L] = currentTerm[L] /\ log'[L] = log[L]
      /\ UNCHANGED <<tasks, cmds>>
  BY <1>0, ServeRow DEF Follower
<1>2. /\ r.term \in Nat /\ currentTerm[j] <= r.term
      /\ currentTerm'[j] \in {currentTerm[j], r.term}
      /\ \A v \in voteFor'[j] : v.candidate = L
      /\ d.req = r
      /\ \/ d.stage = "replied" /\ d.res.term = r.term
         \/ d.stage = "serving" /\ r.type = "AppendEntries"
      /\ r.type = "RequestVote" => d.res.granted = TRUE
  BY ServedTerm DEF TermsInv
<1>3. InStep(c, currentTerm[j], currentTerm[L])
  BY <1>0 DEF TermsInv, TermsFollow
<1>4. InStep(d, currentTerm'[j], currentTerm[L])
  <2>1. r.term <= currentTerm[L]
    BY <1>0, <1>3 DEF InStep
  <2>2. currentTerm'[j] <= currentTerm[L]
    BY <1>0, <1>2, <1>3, <2>1 DEF InStep
  <2>3. currentTerm'[j] <= r.term /\ currentTerm[j] \in Nat
    BY <1>0, <1>2, SlotTypes
  <2> HIDE DEF d, c, L, j
  <2> QED BY <1>2, <2>1, <2>2, <2>3 DEF InStep, Voting
<1>5. TermsFollow'
  BY <1>1, <1>2, <1>4 DEF TermsInv, TermsFollow
<1>6. TermsOrdered'
  BY <1>1 DEF TermsInv, TermsOrdered
<1>7. ReignLasts'
  <2>1. \A k \in Follower : Appending(call'[L][k]) => Appending(call[L][k])
    BY <1>0, <1>1, <1>2 DEF Appending
  <2> QED BY <1>1, <2>1 DEF TermsInv, ReignLasts, OnlyVotes
<1> QED BY <1>5, <1>6, <1>7 DEF TermsInv

LEMMA TermsHolder ==
  ASSUME OneCandidate, TypeOK, CallsInv, OthersFollow, PartsSent, TermsInv,
         NEW i \in Server, HolderStep(i)
  PROVE  TermsInv'
<1> DEFINE L == Candidate
<1>0. L \in Server /\ \A j \in Follower : j \in Server
  BY CandidateStands DEF Follower
<1>1. UNCHANGED <<currentTerm, voteFor, role, leader, tasks, cmds>>
  BY HolderFrame DEF serviceFrame, ctxVars, voteVars
<1>2. log'[L] = log[L]
  <2>1. CASE i # L
    BY <1>0, <2>1, HolderRow
  <2>2. CASE i = L
    <3>1. mu[L].at \notin {"cut", "appended", "following"}
      BY <1>0, HolderFollows DEF Follower
    <3>2. UNCHANGED log
      BY <2>2, <3>1 DEF HolderStep, AppendReceived, AdvanceFollowerCommitIndex,
         SaveFollowerCommitIndex, SaveLeaderCommitIndex
    <3> QED BY <3>2
  <2> QED BY <2>1, <2>2
<1>3. ASSUME NEW j \in Follower, call'[L][j] # call[L][j]
      PROVE  LET c == call[L][j]
                 d == call'[L][j]
             IN /\ c.stage = "serving" /\ d.stage = "replied" /\ d.req = c.req
                /\ d.res.term = currentTerm[j]
                /\ c.req.type = "AppendEntries"
  <2>1. i = j
    BY <1>0, <1>3, HolderRow
  <2>2. /\ call[L][j].stage = "serving" /\ call[L][j].req = mu[j].req
        /\ call'[L][j].stage = "replied" /\ call'[L][j].req = call[L][j].req
        /\ call'[L][j].res.term = currentTerm[j]
        /\ Serving(mu[j])
    BY <1>3, <2>1, HolderAnswer
  <2>3. mu[j].req.type = "AppendEntries"
    BY <1>0, <2>2, HolderFollows DEF AppendRequest
  <2> QED BY <2>2, <2>3
<1>4. TermsFollow'
  <2>1. ASSUME NEW j \in Follower
        PROVE  InStep(call'[L][j], currentTerm[j], currentTerm[L])
    <3>1. InStep(call[L][j], currentTerm[j], currentTerm[L])
      BY DEF TermsInv, TermsFollow
    <3>2. CASE call'[L][j] = call[L][j]
      BY <3>1, <3>2
    <3>3. CASE call'[L][j] # call[L][j]
      BY <1>3, <3>1, <3>3 DEF InStep, Voting
    <3> QED BY <3>2, <3>3
  <2> QED BY <1>1, <2>1 DEF TermsInv, TermsFollow
<1>5. TermsOrdered'
  BY <1>1, <1>2 DEF TermsInv, TermsOrdered
<1>6. ReignLasts'
  <2>1. \A j \in Follower : Appending(call'[L][j]) => Appending(call[L][j])
    BY <1>3 DEF Appending
  <2> QED BY <1>1, <2>1 DEF TermsInv, ReignLasts, OnlyVotes
<1> QED BY <1>4, <1>5, <1>6 DEF TermsInv

\* What the execution of a command appends to the candidate's log.
LEMMA ExecuteEffect ==
  ASSUME OneCandidate, TypeOK, OthersFollow, NEW c \in Command,
         ExecuteCommand(c)
  PROVE  LET e == [term |-> cmds[c].read, cmd |-> c] IN
         /\ cmds[c].at = Candidate
         /\ e \in Entry /\ e.term = cmds[c].read /\ e.cmd = c
         /\ log'[Candidate] = Append(log[Candidate], e)
         /\ \A j \in Follower : log'[j] = log[j]
         /\ cmds[c].stage = "built"
<1>1. cmds[c].at = Candidate /\ cmds[c] \in CommandState /\ Candidate \in Server
  BY CandidateStands, TypeParts DEF ExecuteCommand, OthersFollow
<1>2. [term |-> cmds[c].read, cmd |-> c] \in Entry
  BY <1>1 DEF Entry, CommandState, RunningCommand
<1> DEFINE e == [term |-> cmds[c].read, cmd |-> c]
<1>3. e.term = cmds[c].read /\ e.cmd = c
  OBVIOUS
<1>4. log' = [log EXCEPT ![Candidate] = Append(@, e)]
  BY <1>1 DEF ExecuteCommand
<1> HIDE DEF e
<1>5. log'[Candidate] = Append(log[Candidate], e)
      /\ \A j \in Follower : log'[j] = log[j]
  BY <1>1, <1>4, TypeParts DEF LogTypeOK, Follower
<1>6. e \in Entry
  BY <1>2 DEF e
<1> QED BY <1>1, <1>3, <1>5, <1>6 DEF ExecuteCommand, e

LEMMA CommandKeepsLog ==
  ASSUME NEW c \in Command, CommandStep(c), ~ExecuteCommand(c)
  PROVE  UNCHANGED log
  BY DEF CommandStep, DoCommand, BuildLogEntry, CommitSingle,
     RereadCommitIndex, SaveCommitIndex, CommandApplied, CommandTimeout, logVars

LEMMA TermsCommand ==
  ASSUME OneCandidate, TypeOK, OthersFollow, TermsInv, NEW c \in Command,
         CommandStep(c)
  PROVE  TermsInv'
<1> DEFINE L == Candidate
<1>0. L \in Server /\ currentTerm[L] \in Nat /\ log[L] \in Seq(Entry)
  BY SlotTypes
<1>1. UNCHANGED <<call, currentTerm, voteFor, role, leader, tasks>>
  BY CommandLeaves DEF commandFrame, ctxVars, netVars, voteVars
<1>2. \A j \in Follower : log'[j] = log[j]
  <2>1. CASE ExecuteCommand(c)
    BY <2>1, ExecuteEffect
  <2>2. CASE ~ExecuteCommand(c)
    BY <2>2, CommandKeepsLog
  <2> QED BY <2>1, <2>2
<1>3. TermsFollow'
  BY <1>1, <1>2 DEF TermsInv, TermsFollow
<1>4. TermsOrdered'
  <2>1. CASE ExecuteCommand(c)
    <3> DEFINE e == [term |-> cmds[c].read, cmd |-> c]
               s == log[L]
               t == log'[L]
    <3>1. /\ e \in Entry /\ e.term = currentTerm[L]
          /\ t = Append(s, e)
      BY <2>1, ExecuteEffect DEF TermsInv, ReignLasts
    <3>2. Len(s) \in Nat
      BY <1>0, LenProperties
    <3>3. Ordered(s) /\ \A k \in 1..Len(s) : s[k].term <= currentTerm[L]
      BY DEF TermsInv, TermsOrdered
    <3>4. currentTerm'[L] = currentTerm[L]
      BY <1>1
    <3>5. s \in Seq(Entry)
      BY <1>0
    <3> HIDE DEF e, s, t, L
    <3>6. /\ Len(t) = Len(s) + 1
          /\ \A k \in 1..Len(s) : t[k] = s[k]
          /\ t[Len(s) + 1] = e
      BY <3>1, <3>2, <3>5, AppendProperties
    <3>7. \A k \in 1..Len(t) : t[k].term <= currentTerm[L]
      BY <1>0, <3>1, <3>2, <3>3, <3>6
    <3>8. Ordered(t)
      <4> SUFFICES ASSUME NEW k \in 1..Len(t), NEW l \in 1..Len(t), k <= l
                   PROVE  t[k].term <= t[l].term
        BY DEF Ordered
      <4>1. CASE l = Len(s) + 1
        BY <3>1, <3>6, <3>7, <4>1
      <4>2. CASE l # Len(s) + 1
        <5>1. k \in 1..Len(s) /\ l \in 1..Len(s)
          BY <3>2, <3>6, <4>2
        <5> QED BY <3>3, <3>6, <5>1 DEF Ordered
      <4> QED BY <4>1, <4>2
    <3> QED BY <3>4, <3>7, <3>8 DEF TermsOrdered, t, L
  <2>2. CASE ~ExecuteCommand(c)
    BY <1>1, <2>2, CommandKeepsLog DEF TermsInv, TermsOrdered
  <2> QED BY <2>1, <2>2
<1>5. ReignLasts'
  <2>1. \A d \in Command \ {c} : cmds'[d] = cmds[d]
    BY CommandEffect
  <2>2. /\ cmds'[c].stage \in {"checked", "built"} => role[L] = "kLeader"
        /\ cmds'[c].stage = "built" => cmds'[c].read = currentTerm[L]
    <3>1. CASE \E i \in Server : DoCommand(c, i)
      <4>1. PICK i \in Server : DoCommand(c, i)
        BY <3>1
      <4>2. cmds'[c].stage = "checked" /\ i = L /\ leader[i] = i
        BY <4>1, CommandEffect, CandidateActs DEF IsState, DoCommand
      <4> QED BY <4>2 DEF TermsInv, ReignLasts
    <3>2. CASE BuildLogEntry(c)
      <4>1. cmds[c].stage = "checked" /\ cmds[c].at = L
        BY <3>2 DEF BuildLogEntry, OthersFollow
      <4>2. cmds'[c].stage = "built" /\ cmds'[c].read = currentTerm[L]
        BY <3>2, <4>1, CommandEffect DEF IsState
      <4> QED BY <4>1, <4>2 DEF TermsInv, ReignLasts
    <3>3. CASE ~BuildLogEntry(c) /\ ~\E i \in Server : DoCommand(c, i)
      <4>1. cmds'[c].stage \notin {"checked", "built"}
        BY <3>3, CommandEffect DEF CommandStep, IsState
      <4> QED BY <4>1
    <3> QED BY <3>1, <3>2, <3>3
  <2>3. \A d \in Command :
          /\ cmds'[d].stage \in {"checked", "built"} => role'[L] = "kLeader"
          /\ cmds'[d].stage = "built" => cmds'[d].read = currentTerm'[L]
    BY <1>1, <2>1, <2>2 DEF TermsInv, ReignLasts
  <2> QED BY <1>1, <2>3 DEF TermsInv, ReignLasts
<1> QED BY <1>3, <1>4, <1>5 DEF TermsInv

LEMMA TermsNext ==
  ASSUME OneCandidate, TypeOK, TypeOK', CallsInv, TermSaved, OthersFollow,
         PartsSent, NoneLate, VotesCover, TermsInv, [Next]_vars
  PROVE  TermsInv'
<1>1. CASE UNCHANGED vars
  BY <1>1, TermsKept DEF vars, netVars, ctxVars, logVars, voteVars
<1>2. ASSUME NEW i \in Server, ServerStep(i) PROVE TermsInv'
  <2>1. CASE LaunchCheckLeader(i)
    BY <2>1, CandidateActs, TermsCheckLeader
  <2>2. CASE LaunchHeartBeat(i)
    <3>1. i = Candidate /\ role[Candidate] = "kLeader"
      BY <2>2, CandidateActs DEF LaunchHeartBeat
    <3>2. UNCHANGED <<call, currentTerm, log, voteFor, role, leader, cmds>>
      BY <2>2 DEF LaunchHeartBeat, netVars, ctxVars, logVars, voteVars
    <3> QED BY <3>1, <3>2 DEF TermsInv, TermsFollow, ReignLasts, TermsOrdered
  <2>3. CASE ApplyThread(i) \/ ApplyFails(i)
    BY <2>3, TermsKept DEF ApplyThread, ApplyStateMachine, Apply,
       SetLastApplied, ApplyFails, applyFrame, netVars, ctxVars, logVars, voteVars
  <2>4. CASE Restart(i)
    BY <2>4, TermsRestart
  <2> QED BY <1>2, <2>1, <2>2, <2>3, <2>4 DEF ServerStep, ApplyThread
<1>3. ASSUME NEW i \in Server, NEW j \in Server \ {i}, PeerStep(i, j)
      PROVE  TermsInv'
  BY <1>3, CandidateActs, TermsPeerStep DEF Follower
<1>4. ASSUME NEW r \in InFlight, ReplyRequestVote(r) \/ ReplyAppendEntries(r)
      PROVE  TermsInv'
  BY <1>4, TermsServe
<1>5. ASSUME NEW c \in Command, CommandStep(c) PROVE TermsInv'
  BY <1>5, TermsCommand
<1>6. ASSUME NEW i \in Server, HolderStep(i) PROVE TermsInv'
  BY <1>6, TermsHolder
<1> QED BY <1>1, <1>2, <1>3, <1>4, <1>5, <1>6 DEF Next

-----------------------------------------------------------------------------
(* The peers' logs *)

\* What the peer thread with slot c and next_index_ next goes by, when the log
\* of its peer is s and h holds the peer's global_mu: while an answer is on its
\* way nothing happens there, and the answer says what is in the log.
Settled(c, h, s, next) ==
  /\ c.stage = "replied" => h = Free
  /\ Appending(c) => next = c.req.prevLogIndex + 1
  /\ Appending(c) /\ c.stage = "replied" =>
       \/ c.res.success = TRUE /\ Len(s) = ReplicatedBy(c.req)
       \/ /\ c.res.success = FALSE
          /\ Len(s) = c.res.lastLogIndex
          /\ Len(s) < c.req.prevLogIndex

PeersSettled ==
  \A j \in Follower :
    Settled(call[Candidate][j], mu[j], log[j], nextIndex[Candidate][j])

\* The peer with log s has index n and will not lose it: no request that is made
\* with next_index_ next cuts the log off below it.
Keeps(s, next, n) == n <= Len(s) /\ n < next

\* What the leader takes for replicated at a peer.
MatchesKept ==
  role[Candidate] = "kLeader" =>
    \A j \in Follower : Keeps(log[j], nextIndex[Candidate][j],
                              matchIndex[Candidate][j])

LEMMA SettledInit == OneCandidate /\ Init => PeersSettled /\ MatchesKept
<1> SUFFICES ASSUME OneCandidate, Init PROVE PeersSettled /\ MatchesKept
  OBVIOUS
<1>1. \A j \in Follower : call[Candidate][j] = Idle
  BY CandidateStands DEF Init, Follower
<1>2. PeersSettled
  BY <1>1 DEF PeersSettled, Settled, Appending, Idle
<1>3. role[Candidate] = "kFollower"
  BY CandidateStands DEF Init
<1> QED BY <1>2, <1>3 DEF MatchesKept

\* The answer to an append request, at a leader it does not unseat.
LEMMA AppendEntriesReplyEffect ==
  ASSUME TypeOK, NEW i \in Server, NEW j \in Server, AppendEntriesReply(i, j),
         role[i] = "kLeader", call[i][j].res.term <= currentTerm[i]
  PROVE  LET c == call[i][j] IN
         /\ c.stage = "replied" /\ Appending(c) /\ c.res \in AppendResponse
         /\ call'[i][j] = Idle
         /\ \/ /\ c.res.success = TRUE
               /\ c.req.entries # <<>>
               /\ nextIndex'[i][j] = ReplicatedBy(c.req) + 1
               /\ matchIndex'[i][j] = ReplicatedBy(c.req)
               /\ \/ UNCHANGED <<commitIndex, mu>>
                  \/ AdvanceLeaderCommitIndex(i, matchIndex'[i])
            \/ /\ c.res.success = TRUE
               /\ UNCHANGED <<nextIndex, matchIndex, commitIndex, mu>>
            \/ /\ c.res.success = FALSE
               /\ \/ nextIndex'[i][j] = nextIndex[i][j]
                     /\ Lesser(c.res.lastLogIndex + 1, nextIndex[i][j] - 1) <= 0
                  \/ nextIndex'[i][j] =
                       Lesser(c.res.lastLogIndex + 1, nextIndex[i][j] - 1)
               /\ UNCHANGED <<matchIndex, commitIndex, mu>>
<1> DEFINE c     == call[i][j]
           acked == ReplicatedBy(c.req)
           adjust == Lesser(c.res.lastLogIndex + 1, nextIndex[i][j] - 1)
           row   == [matchIndex[i] EXCEPT ![j] = acked]
<1>1. /\ c \in Call /\ currentTerm[i] \in Nat
      /\ nextIndex \in [Server -> [Server -> Nat \ {0}]]
      /\ matchIndex \in [Server -> [Server -> Nat]]
  BY TypeParts DEF NetTypeOK, CtxTypeOK, PeerTypeOK
<1>2. c.stage = "replied" /\ Appending(c) /\ call'[i][j] = Idle
  BY TypeParts DEF AppendEntriesReply, Appending, NetTypeOK
<1>3. /\ c.res \in AppendResponse /\ c.res.term \in Nat
      /\ c.res.success \in BOOLEAN /\ c.res.lastLogIndex \in Nat
  <2> HIDE DEF c
  <2>1. c.res \in AppendResponse
    BY <1>1, <1>2, AppendingType
  <2> QED BY <2>1 DEF AppendResponse
<1>4. ASSUME NEW v, nextIndex' = [nextIndex EXCEPT ![i][j] = v]
      PROVE  nextIndex'[i][j] = v
  BY <1>1, <1>4
<1>5. ASSUME matchIndex' = [matchIndex EXCEPT ![i] = row]
      PROVE  matchIndex'[i] = row /\ matchIndex'[i][j] = acked
  <2>1. row[j] = acked
    BY <1>1
  <2>2. matchIndex'[i] = row
    <3> HIDE DEF row
    <3> QED BY <1>1, <1>5
  <2> QED BY <2>1, <2>2
<1>6. \/ /\ c.res.success
         /\ c.req.entries # <<>>
         /\ matchIndex' = [matchIndex EXCEPT ![i] = row]
         /\ nextIndex' = [nextIndex EXCEPT ![i][j] = acked + 1]
         /\ \/ UNCHANGED <<commitIndex, mu>>
            \/ AdvanceLeaderCommitIndex(i, row)
      \/ /\ c.res.success
         /\ UNCHANGED <<peerVars, commitIndex, mu>>
      \/ /\ ~c.res.success
         /\ \/ adjust > 0 /\ nextIndex' = [nextIndex EXCEPT ![i][j] = adjust]
            \/ ~(adjust > 0) /\ UNCHANGED nextIndex
         /\ UNCHANGED <<commitIndex, matchIndex, mu>>
  <2>1. ~(c.res.term > currentTerm[i])
    BY <1>1, <1>3
  <2>2. CASE c.res.success
    <3>1. CASE c.req.entries # <<>>
      BY <2>1, <2>2, <3>1 DEF AppendEntriesReply
    <3>2. CASE c.req.entries = <<>>
      BY <2>1, <2>2, <3>2 DEF AppendEntriesReply
    <3> QED BY <3>1, <3>2
  <2>3. CASE ~c.res.success
    BY <2>1, <2>3 DEF AppendEntriesReply
  <2> QED BY <2>2, <2>3
<1>7. adjust \in Int
  BY <1>1, <1>3 DEF Lesser
<1> HIDE DEF c, acked, adjust, row
<1>8. CASE /\ c.res.success
           /\ c.req.entries # <<>>
           /\ matchIndex' = [matchIndex EXCEPT ![i] = row]
           /\ nextIndex' = [nextIndex EXCEPT ![i][j] = acked + 1]
           /\ \/ UNCHANGED <<commitIndex, mu>>
              \/ AdvanceLeaderCommitIndex(i, row)
  <2>1. c.res.success = TRUE
    BY <1>3, <1>8
  <2>2. nextIndex'[i][j] = acked + 1 /\ matchIndex'[i][j] = acked
        /\ matchIndex'[i] = row
    BY <1>4, <1>5, <1>8
  <2> QED BY <1>2, <1>3, <1>8, <2>1, <2>2 DEF c, acked
<1>9. CASE /\ c.res.success
           /\ UNCHANGED <<peerVars, commitIndex, mu>>
  <2>1. c.res.success = TRUE
    BY <1>3, <1>9
  <2>2. UNCHANGED <<nextIndex, matchIndex, commitIndex, mu>>
    BY <1>9 DEF peerVars
  <2> QED BY <1>2, <1>3, <2>1, <2>2 DEF c
<1>10. CASE /\ ~c.res.success
            /\ \/ adjust > 0 /\ nextIndex' = [nextIndex EXCEPT ![i][j] = adjust]
               \/ ~(adjust > 0) /\ UNCHANGED nextIndex
            /\ UNCHANGED <<commitIndex, matchIndex, mu>>
  <2>1. c.res.success = FALSE
    BY <1>3, <1>10
  <2>2. \/ nextIndex'[i][j] = nextIndex[i][j] /\ adjust <= 0
        \/ nextIndex'[i][j] = adjust
    BY <1>4, <1>7, <1>10
  <2>3. UNCHANGED <<matchIndex, commitIndex, mu>>
    BY <1>10
  <2> QED BY <1>2, <1>3, <2>1, <2>2, <2>3 DEF c, adjust
<1> QED BY <1>6, <1>8, <1>9, <1>10


\* What can happen to next_index_ and match_index_ of the candidate's threads.
LEMMA IndexSteps ==
  ASSUME OneCandidate, TypeOK, CallsInv, OthersFollow, TermsInv, [Next]_vars,
         NEW j \in Follower
  PROVE  LET L == Candidate IN
         \/ /\ nextIndex'[L][j] = nextIndex[L][j]
            /\ matchIndex'[L][j] = matchIndex[L][j]
            /\ role'[L] = "kLeader" => role[L] = "kLeader"
         \/ /\ nextIndex'[L][j] = Len(log[L]) + 1
            /\ UNCHANGED log
            /\ ~Appending(call'[L][j])
            /\ role'[L] = "kLeader" => matchIndex'[L][j] = 0
         \/ /\ PeerStep(L, j) /\ AppendEntriesReply(L, j)
            /\ role[L] = "kLeader"
            /\ call[L][j].res.term <= currentTerm[L]
<1> DEFINE L == Candidate
           Kept == /\ nextIndex'[L][j] = nextIndex[L][j]
                   /\ matchIndex'[L][j] = matchIndex[L][j]
                   /\ role'[L] = "kLeader" => role[L] = "kLeader"
           Reset == /\ nextIndex'[L][j] = Len(log[L]) + 1
                    /\ UNCHANGED log
                    /\ ~Appending(call'[L][j])
                    /\ role'[L] = "kLeader" => matchIndex'[L][j] = 0
           Learnt == /\ PeerStep(L, j) /\ AppendEntriesReply(L, j)
                     /\ role[L] = "kLeader"
                     /\ call[L][j].res.term <= currentTerm[L]
<1>0. /\ L \in Server /\ j \in Server /\ j # L
      /\ CtxTypeOK /\ PeerTypeOK /\ NetTypeOK
  BY CandidateStands, TypeParts DEF Follower
<1>i. ~Appending(Idle)
  BY DEF Appending, Idle
<1> SUFFICES Kept \/ Reset \/ Learnt
  OBVIOUS
<1>1. ASSUME UNCHANGED <<nextIndex, matchIndex>>,
             role'[L] = "kLeader" => role[L] = "kLeader"
      PROVE  Kept
  BY <1>1
<1>2. CASE UNCHANGED vars
  BY <1>1, <1>2 DEF vars, peerVars, ctxVars
<1>3. ASSUME NEW i \in Server, ServerStep(i) PROVE Kept \/ Reset
  <2>1. CASE LaunchCheckLeader(i)
    <3>1. i = L
      BY <2>1, CandidateActs
    <3>2. ~SingleMode
      BY <1>0, SingleIsCandidate
    <3>3. role'[L] = "kCandidate" /\ UNCHANGED peerVars
      BY <1>0, <2>1, <3>1, <3>2 DEF LaunchCheckLeader, BecomeCandidate, CtxTypeOK
    <3> QED BY <1>1, <3>3 DEF peerVars
  <2>2. CASE Restart(i)
    <3>1. CASE i = L
      <4>1. /\ role'[L] = "kFollower" /\ UNCHANGED log
            /\ nextIndex'[L][j] = Len(log[L]) + 1
        BY <1>0, <2>2, <3>1 DEF Restart, CtxTypeOK, PeerTypeOK, LastLogIndex
      <4>2. call'[L][j] = Idle
        BY <1>0, <2>2, <3>1, RestartSlots
      <4> QED BY <1>i, <4>1, <4>2
    <3>2. CASE i # L
      <4>1. /\ role'[L] = role[L] /\ nextIndex'[L] = nextIndex[L]
            /\ matchIndex'[L] = matchIndex[L]
        BY <1>0, <2>2, <3>2 DEF Restart, CtxTypeOK, PeerTypeOK
      <4> QED BY <4>1
    <3> QED BY <3>1, <3>2
  <2>3. CASE ~LaunchCheckLeader(i) /\ ~Restart(i)
    BY <1>1, <1>3, <2>3 DEF ServerStep, LaunchHeartBeat, ApplyStateMachine,
       Apply, ApplyFails, SetLastApplied, applyFrame, peerVars, ctxVars
  <2> QED BY <2>1, <2>2, <2>3
<1>4. ASSUME NEW i \in Server, NEW k \in Server \ {i}, PeerStep(i, k)
      PROVE  Kept \/ Reset \/ Learnt
  <2>1. i = L /\ k \in Follower /\ k \in Server
    BY <1>4, CandidateActs DEF Follower
  <2>2. UNCHANGED log
    BY <1>0, <1>4, <2>1, PeerStepRow
  <2>3. /\ \/ UNCHANGED <<role, leader>>
           \/ /\ RequestVoteReply(L, k) /\ role[L] = "kCandidate"
              /\ UpdatePeerInfo(L)
        /\ AppendEntriesReply(L, k) => role[L] = "kLeader"
    BY <1>4, <2>1, ReignPeerStep DEF TermsInv
  <2>4. CASE UpdatePeerInfo(L) /\ role[L] = "kCandidate"
    <3>1. nextIndex'[L][j] = Len(log[L]) + 1 /\ matchIndex'[L][j] = 0
      BY <1>0, <2>4, UpdatePeerInfoEffect
    <3>2. ~Appending(call[L][j])
      BY <2>4 DEF TermsInv, ReignLasts, OnlyVotes
    <3>3. ~AppendEntriesReply(L, k)
      BY <2>3, <2>4
    <3>4. CASE k # j
      BY <1>0, <1>4, <2>1, <2>2, <3>1, <3>2, <3>4, PeerStepSlots
    <3>5. CASE k = j
      <4>1. CASE ~RequestVoteReply(L, j)
        <5>1. UNCHANGED <<role, nextIndex, matchIndex>>
          BY <1>4, <2>1, <2>3, <3>3, <3>5, <4>1 DEF PeerStep, RequestVoteRPC,
             AppendEntriesSkip, AppendEntriesRPC, AppendEntriesRead,
             SendAndRecvFails, peerVars
        <5> QED BY <1>1, <5>1
      <4>2. CASE RequestVoteReply(L, j)
        <5>1. call'[L][j] = Idle
          BY <1>0, <4>2 DEF RequestVoteReply, NetTypeOK
        <5> QED BY <1>i, <2>2, <3>1, <5>1
      <4> QED BY <4>1, <4>2
    <3> QED BY <3>4, <3>5
  <2>5. CASE ~(UpdatePeerInfo(L) /\ role[L] = "kCandidate")
    <3>1. UNCHANGED role
      BY <2>3, <2>5
    <3>2. CASE k # j
      BY <1>0, <1>4, <2>1, <2>5, <3>1, <3>2, PeerStepSlots
    <3>3. CASE k = j /\ AppendEntriesReply(L, j)
      <4>1. call[L][j].stage = "replied"
        BY <3>3 DEF AppendEntriesReply
      <4>2. call[L][j].res.term <= currentTerm[L]
        BY <4>1, ReplyNotAhead DEF TermsInv
      <4> QED BY <1>4, <2>1, <2>3, <3>3, <4>2
    <3>4. CASE k = j /\ ~AppendEntriesReply(L, j)
      <4>1. CASE RequestVoteReply(L, j)
        <5>1. UNCHANGED peerVars
          BY <2>5, <4>1 DEF RequestVoteReply
        <5> QED BY <1>1, <3>1, <5>1 DEF peerVars
      <4>2. CASE ~RequestVoteReply(L, j)
        <5>1. UNCHANGED <<nextIndex, matchIndex>>
          BY <1>4, <2>1, <3>4, <4>2 DEF PeerStep, RequestVoteRPC,
             AppendEntriesSkip, AppendEntriesRPC, AppendEntriesRead,
             SendAndRecvFails, peerVars
        <5> QED BY <1>1, <3>1, <5>1
      <4> QED BY <4>1, <4>2
    <3> QED BY <3>2, <3>3, <3>4
  <2> QED BY <2>4, <2>5
<1>5. ASSUME NEW r \in InFlight, ReplyRequestVote(r) \/ ReplyAppendEntries(r)
      PROVE  Kept
  <2>1. r.to # L
    BY FromCandidate DEF Follower
  <2>2. UNCHANGED peerVars /\ role'[L] = role[L]
    BY <1>0, <1>5, <2>1, ServeRow
  <2> QED BY <1>1, <2>2 DEF peerVars
<1>6. ASSUME NEW i \in Server, HolderStep(i) PROVE Kept
  BY <1>1, <1>6, HolderFrame DEF serviceFrame, peerVars, ctxVars
<1>7. ASSUME NEW c \in Command, CommandStep(c) PROVE Kept
  BY <1>1, <1>7, CommandLeaves DEF commandFrame, peerVars, ctxVars
<1> QED BY <1>2, <1>3, <1>4, <1>5, <1>6, <1>7 DEF Next

\* What becomes of an append request that is taken up.
LEMMA ServedAppend ==
  ASSUME OneCandidate, TypeOK, CallsInv, OthersFollow, PartsSent, NoneLate,
         VotesCover, TermsInv, NEW r \in InFlight, ReplyAppendEntries(r)
  PROVE  LET j == r.to
             d == call'[Candidate][r.to]
         IN
         \/ /\ d.stage = "replied" /\ d.res.success = FALSE
            /\ Len(log[j]) < r.prevLogIndex
            /\ d.res.lastLogIndex = Len(log[j])
            /\ log'[j] = log[j] /\ mu'[j] = Free
         \/ /\ d.stage = "serving"
            /\ r.prevLogIndex <= Len(log[j])
            /\ Len(log'[j]) = r.prevLogIndex
            /\ mu'[j].at = "cut" /\ mu'[j].req = r
<1> DEFINE j == r.to
           d == call'[Candidate][j]
<1>1. /\ r.term \in Nat /\ currentTerm[j] <= r.term /\ currentTerm[j] \in Nat
      /\ r.from = Candidate /\ r \in AppendRequest /\ r.prevLogIndex \in Nat
      /\ Len(log[j]) \in Nat /\ mu[j] = Free
  <2>1. r \in AppendRequest
    BY InFlightPart DEF ReplyAppendEntries
  <2> QED BY <2>1, ServedTerm, ServedLog, InFlightSlot, SlotTypes
          DEF TermsInv, Follower, AppendRequest
<1>2. CASE /\ r.term < currentTerm[j] \/ r.prevLogIndex > Len(log[j])
           /\ UNCHANGED <<log, mu>>
           /\ \E n \in Nat : Reply(r, AppendAnswer(n, FALSE, log[j]))
  <2>1. PICK n \in Nat : Reply(r, AppendAnswer(n, FALSE, log[j]))
    BY <1>2
  <2>2. d.stage = "replied" /\ d.res = AppendAnswer(n, FALSE, log[j])
    BY <1>1, <2>1, ServeSlot DEF NoneLate
  <2>3. d.res.success = FALSE /\ d.res.lastLogIndex = Len(log[j])
    BY <2>2 DEF AppendAnswer
  <2>4. Len(log[j]) < r.prevLogIndex
    BY <1>1, <1>2
  <2> QED BY <1>1, <1>2, <2>2, <2>3, <2>4
<1>3. CASE /\ r.term >= currentTerm[j]
           /\ r.prevLogIndex <= Len(log[j])
           /\ Len(log'[j]) = r.prevLogIndex
           /\ mu'[j].at = "cut" /\ mu'[j].req = r
           /\ BeginService(r)
  <2>1. d.stage = "serving"
    BY <1>1, <1>3, BeginSlot DEF NoneLate
  <2> QED BY <1>3, <2>1
<1> QED BY <1>2, <1>3, ServedLog

\* An answer that arrives says what is in the log of the peer.
LEMMA SettledAnswer ==
  ASSUME OneCandidate, TypeOK, CallsInv, OthersFollow, PartsSent, NoneLate,
         VotesCover, TermsInv, [Next]_vars, NEW j \in Follower,
         call'[Candidate][j] # call[Candidate][j],
         call'[Candidate][j].stage = "replied"
  PROVE  LET d == call'[Candidate][j] IN
         /\ mu'[j] = Free
         /\ Appending(d) =>
              \/ d.res.success = TRUE /\ Len(log'[j]) = ReplicatedBy(d.req)
              \/ /\ d.res.success = FALSE
                 /\ Len(log'[j]) = d.res.lastLogIndex
                 /\ Len(log'[j]) < d.req.prevLogIndex
<1> DEFINE L == Candidate
           c == call[L][j]
           d == call'[L][j]
<1>0. L \in Server /\ j \in Server /\ j # L /\ NetTypeOK
  BY CandidateStands, TypeParts DEF Follower
<1>1. ~UNCHANGED vars
  BY DEF vars, netVars
<1>2. ASSUME NEW i \in Server, ServerStep(i) PROVE FALSE
  <2>1. CASE Restart(i)
    <3>1. d \in {Idle, c}
      BY <1>0, <2>1, RestartSlots
    <3> QED BY <3>1 DEF Idle
  <2>2. CASE ~Restart(i)
    BY <1>2, <2>2 DEF ServerStep, LaunchCheckLeader, LaunchHeartBeat,
       ApplyStateMachine, Apply, ApplyFails, SetLastApplied, applyFrame, netVars
  <2> QED BY <2>1, <2>2
<1>3. ASSUME NEW i \in Server, NEW k \in Server \ {i}, PeerStep(i, k)
      PROVE  FALSE
  <2>1. i = L
    BY <1>3, CandidateActs
  <2>2. k = j
    BY <1>0, <1>3, <2>1, PeerStepSlots
  <2>3. CASE RequestVoteRPC(L, j)
    BY <1>0, <2>3, RequestVoteRPCEffect
  <2>4. CASE AppendEntriesSkip(L, j)
    BY <2>4 DEF AppendEntriesSkip, netVars
  <2>5. CASE AppendEntriesRPC(L, j)
    BY <1>0, <2>5, AppendEntriesRPCEffect
  <2>6. CASE AppendEntriesRead(L, j)
    BY <1>0, <2>6, AppendEntriesReadEffect
  <2>7. CASE \/ RequestVoteReply(L, j) \/ AppendEntriesReply(L, j)
             \/ SendAndRecvFails(L, j)
    <3>1. d = Idle
      BY <1>0, <2>7 DEF RequestVoteReply, AppendEntriesReply,
                        SendAndRecvFails, NetTypeOK
    <3> QED BY <3>1 DEF Idle
  <2> QED BY <1>3, <2>1, <2>2, <2>3, <2>4, <2>5, <2>6, <2>7 DEF PeerStep
<1>4. ASSUME NEW r \in InFlight, ReplyRequestVote(r) \/ ReplyAppendEntries(r)
      PROVE  /\ mu'[j] = Free
             /\ Appending(d) => /\ d.res.success = FALSE
                                /\ Len(log'[j]) = d.res.lastLogIndex
                                /\ Len(log'[j]) < d.req.prevLogIndex
  <2>1. r.to = j
    BY <1>0, <1>4, ServeRow
  <2>2. d.req = r
    BY <1>4, <2>1, ServedTerm DEF TermsInv
  <2>3. CASE ReplyRequestVote(r)
    BY <2>1, <2>2, <2>3 DEF ReplyRequestVote, Appending
  <2>4. CASE ReplyAppendEntries(r)
    BY <2>1, <2>2, <2>4, ServedAppend
  <2> QED BY <1>4, <2>3, <2>4
<1>5. ASSUME NEW i \in Server, HolderStep(i)
      PROVE  /\ mu'[j] = Free
             /\ d.res.success = TRUE
             /\ Len(log'[j]) = ReplicatedBy(d.req)
  <2>1. i = j
    BY <1>0, <1>5, HolderRow
  <2> QED BY <1>5, <2>1, HolderAnswer
<1>6. ASSUME NEW e \in Command, CommandStep(e) PROVE FALSE
  BY <1>6, CommandLeaves DEF commandFrame, netVars
<1> QED BY <1>1, <1>2, <1>3, <1>4, <1>5, <1>6 DEF Next

\* While nothing holds global_mu and nothing is on its way, nothing happens.
LEMMA QuietPeer ==
  ASSUME OneCandidate, TypeOK, CallsInv, OthersFollow, NoneLate, [Next]_vars,
         NEW j \in Follower, mu[j] = Free, call[Candidate][j].stage # "sent"
  PROVE  log'[j] = log[j] /\ mu'[j] = Free
<1>1. ~\E r \in InFlight : r.to = j /\ ReplyAppendEntries(r)
  BY InFlightSlot
<1>2. ~HolderStep(j)
  BY DEF HolderStep, AppendReceived, AdvanceFollowerCommitIndex,
         SaveFollowerCommitIndex, SaveLeaderCommitIndex, Free
<1> QED BY <1>1, <1>2, LogSteps

LEMMA SettledNext ==
  ASSUME OneCandidate, TypeOK, TypeOK', CallsInv, OthersFollow, PartsSent,
         NoneLate, VotesCover, TermsInv, PeersSettled, [Next]_vars
  PROVE  PeersSettled'
<1> DEFINE L == Candidate
<1> SUFFICES ASSUME NEW j \in Follower
             PROVE  Settled(call'[L][j], mu'[j], log'[j], nextIndex'[L][j])
  BY DEF PeersSettled
<1> DEFINE c == call[L][j]
           d == call'[L][j]
           next  == nextIndex[L][j]
           next1 == nextIndex'[L][j]
<1>0. /\ L \in Server /\ j \in Server /\ j # L /\ c \in Call /\ d \in Call
      /\ next \in Nat \ {0} /\ next1 \in Nat \ {0} /\ NetTypeOK
      /\ Settled(c, mu[j], log[j], next)
  BY SlotTypes, SlotTypesNext, TypeParts DEF Follower, PeersSettled
<1>1. ASSUME d.stage # "replied", Appending(d) => next1 = d.req.prevLogIndex + 1
      PROVE  Settled(d, mu'[j], log'[j], next1)
  BY <1>1 DEF Settled
<1>2. ASSUME Appending(c), Appending(d), d.req = c.req, c.stage # "replied" \/ d = c
      PROVE  next1 = d.req.prevLogIndex + 1
  <2>1. next = c.req.prevLogIndex + 1
    BY <1>0, <1>2 DEF Settled
  <2>2. ~AppendEntriesReply(L, j)
    <3> SUFFICES ASSUME AppendEntriesReply(L, j) PROVE FALSE
      OBVIOUS
    <3>1. c.stage = "replied" /\ d = Idle
      BY <1>0 DEF AppendEntriesReply, NetTypeOK
    <3> QED BY <1>2, <3>1 DEF Appending, Idle
  <2> QED BY <1>2, <2>1, <2>2, IndexSteps
<1>3. CASE d = Idle
  BY <1>1, <1>3 DEF Idle, Appending
<1>4. CASE d = c
  <2>1. Appending(d) => next1 = d.req.prevLogIndex + 1
    BY <1>2, <1>4
  <2>2. CASE c.stage # "replied"
    BY <1>1, <1>4, <2>1, <2>2
  <2>3. CASE c.stage = "replied"
    <3>1. log'[j] = log[j] /\ mu'[j] = Free
      BY <1>0, <2>3, QuietPeer DEF Settled
    <3> SUFFICES Settled(d, mu'[j], log'[j], next1)
      OBVIOUS
    <3> HIDE DEF c, d, next, next1
    <3> QED BY <1>0, <1>4, <2>1, <3>1 DEF Settled
  <2> QED BY <2>2, <2>3
<1>5. CASE d # c /\ d.stage = "replied"
  <2>1. /\ mu'[j] = Free
        /\ Appending(d) =>
             \/ d.res.success = TRUE /\ Len(log'[j]) = ReplicatedBy(d.req)
             \/ /\ d.res.success = FALSE
                /\ Len(log'[j]) = d.res.lastLogIndex
                /\ Len(log'[j]) < d.req.prevLogIndex
    BY <1>5, SettledAnswer
  <2>2. c.stage \in {"sent", "serving"} /\ d.req = c.req
    <3>1. CASE PeerStep(L, j)
      <4>1. CASE RequestVoteRPC(L, j)
        BY <1>0, <1>5, <4>1, RequestVoteRPCEffect
      <4>2. CASE AppendEntriesSkip(L, j)
        BY <1>5, <4>2 DEF AppendEntriesSkip, netVars
      <4>3. CASE AppendEntriesRPC(L, j)
        BY <1>0, <1>5, <4>3, AppendEntriesRPCEffect
      <4>4. CASE AppendEntriesRead(L, j)
        BY <1>0, <1>5, <4>4, AppendEntriesReadEffect
      <4>5. CASE \/ RequestVoteReply(L, j) \/ AppendEntriesReply(L, j)
                 \/ SendAndRecvFails(L, j)
        <5>1. d = Idle
          BY <1>0, <4>5 DEF RequestVoteReply, AppendEntriesReply,
                            SendAndRecvFails, NetTypeOK
        <5> QED BY <1>5, <5>1 DEF Idle
      <4> QED BY <3>1, <4>1, <4>2, <4>3, <4>4, <4>5 DEF PeerStep
    <3>2. CASE ~PeerStep(L, j)
      BY <1>5, <3>2, SlotMoves DEF Idle
    <3> QED BY <3>1, <3>2
  <2>3. Appending(d) => next1 = d.req.prevLogIndex + 1
    <3>1. Appending(d) => Appending(c)
      BY <2>2 DEF Appending
    <3> QED BY <1>2, <2>2, <3>1
  <2> SUFFICES Settled(d, mu'[j], log'[j], next1)
    OBVIOUS
  <2> HIDE DEF d, next1
  <2> QED BY <2>1, <2>3 DEF Settled
<1>6. CASE d # c /\ d.stage # "replied" /\ PeerStep(L, j)
  <2>1. CASE RequestVoteRPC(L, j)
    <3>1. Voting(d)
      BY <1>0, <2>1, RequestVoteRPCEffect
    <3> QED BY <1>1, <1>6, <3>1 DEF Voting, Appending
  <2>2. CASE AppendEntriesSkip(L, j)
    BY <1>6, <2>2 DEF AppendEntriesSkip, netVars
  <2>3. CASE AppendEntriesRPC(L, j)
    <3>1. d.req.prevLogIndex = next - 1
      BY <1>0, <2>3, AppendEntriesRPCEffect
    <3>2. next1 = next
      BY <2>3 DEF AppendEntriesRPC, peerVars
    <3>3. next1 = d.req.prevLogIndex + 1
      BY <1>0, <3>1, <3>2
    <3> QED BY <1>1, <1>6, <3>3
  <2>4. CASE AppendEntriesRead(L, j)
    <3>1. c.stage = "header" /\ d.req.prevLogIndex = c.req.prevLogIndex
      BY <1>0, <2>4, AppendEntriesReadEffect
    <3>2. next1 = next
      BY <2>4 DEF AppendEntriesRead, peerVars
    <3>3. Appending(c)
      BY <1>0, <3>1, AppendingType
    <3>4. next1 = d.req.prevLogIndex + 1
      BY <1>0, <3>1, <3>2, <3>3 DEF Settled
    <3> QED BY <1>1, <1>6, <3>4
  <2>5. CASE \/ RequestVoteReply(L, j) \/ AppendEntriesReply(L, j)
             \/ SendAndRecvFails(L, j)
    <3>1. d = Idle
      BY <1>0, <2>5 DEF RequestVoteReply, AppendEntriesReply,
                        SendAndRecvFails, NetTypeOK
    <3> QED BY <1>3, <3>1
  <2> QED BY <1>6, <2>1, <2>2, <2>3, <2>4, <2>5 DEF PeerStep
<1>7. CASE d # c /\ d.stage # "replied" /\ ~PeerStep(L, j) /\ d # Idle
  <2>1. c.stage \in {"sent", "serving"} /\ d.req = c.req
    BY <1>7, SlotMoves
  <2>2. Appending(d) => Appending(c)
    BY <2>1 DEF Appending
  <2> QED BY <1>1, <1>2, <1>7, <2>1, <2>2
<1> QED BY <1>3, <1>4, <1>5, <1>6, <1>7

\* What a peer keeps at the answer to an append request.
LEMMA KeepsAnswer ==
  ASSUME OneCandidate, TypeOK, TypeOK', PartsSent, TermsInv, PeersSettled,
         NEW j \in Follower, PeerStep(Candidate, j),
         AppendEntriesReply(Candidate, j), role[Candidate] = "kLeader",
         call[Candidate][j].res.term <= currentTerm[Candidate]
  PROVE  LET L == Candidate IN
         /\ UNCHANGED log
         /\ \A n \in Nat : Keeps(log[j], nextIndex[L][j], n) =>
                             Keeps(log[j], nextIndex'[L][j], n)
         /\ \/ matchIndex'[L][j] = matchIndex[L][j]
            \/ Keeps(log[j], nextIndex'[L][j], matchIndex'[L][j])
<1> DEFINE L == Candidate
           c == call[L][j]
           m == Len(log[j])
           next   == nextIndex[L][j]
           match  == matchIndex[L][j]
           next1  == nextIndex'[L][j]
           match1 == matchIndex'[L][j]
<1>0. /\ L \in Server /\ j \in Server /\ c \in Call /\ m \in Nat
      /\ next \in Nat \ {0} /\ match \in Nat
  BY SlotTypes
<1>1. UNCHANGED log
  BY <1>0, PeerStepRow
<1>2. /\ c.stage = "replied" /\ Appending(c) /\ c.res \in AppendResponse
      /\ \/ /\ c.res.success = TRUE
            /\ next1 = ReplicatedBy(c.req) + 1
            /\ match1 = ReplicatedBy(c.req)
         \/ /\ c.res.success = TRUE
            /\ next1 = next /\ match1 = match
         \/ /\ c.res.success = FALSE
            /\ \/ next1 = next
               \/ next1 = Lesser(c.res.lastLogIndex + 1, next - 1)
            /\ match1 = match
  BY <1>0, AppendEntriesReplyEffect
<1>3. /\ next = c.req.prevLogIndex + 1
      /\ \/ c.res.success = TRUE /\ m = ReplicatedBy(c.req)
         \/ c.res.success = FALSE /\ m = c.res.lastLogIndex
            /\ m < c.req.prevLogIndex
  BY <1>2 DEF PeersSettled, Settled
<1>4. c.req.prevLogIndex \in Nat
  BY <1>0, <1>2, AppendingType
<1> SUFFICES /\ UNCHANGED log
             /\ \A n \in Nat : Keeps(log[j], next, n) => Keeps(log[j], next1, n)
             /\ match1 = match \/ Keeps(log[j], next1, match1)
  OBVIOUS
<1> HIDE DEF c, next, next1, match, match1
<1>5. CASE c.res.success = TRUE
  BY <1>0, <1>1, <1>2, <1>3, <1>5 DEF Keeps
<1>6. CASE c.res.success = FALSE
  <2>1. next1 = next \/ next1 = m + 1
    BY SMTT(30), <1>0, <1>2, <1>3, <1>4, <1>6 DEF Lesser
  <2>2. match1 = match
    BY <1>2, <1>6
  <2> QED BY <1>0, <1>1, <2>1, <2>2 DEF Keeps
<1> QED BY <1>2, <1>5, <1>6

\* What a peer keeps it keeps: neither the next request nor one that is being
\* served, repeated or not, cuts its log off below that.
LEMMA KeepsNext ==
  ASSUME OneCandidate, TypeOK, TypeOK', CallsInv, OthersFollow, PartsSent,
         NoneLate, VotesCover, TermsInv, PeersSettled, [Next]_vars,
         NEW j \in Follower, NEW n \in Nat,
         Keeps(log[j], nextIndex[Candidate][j], n)
  PROVE  Keeps(log'[j], nextIndex'[Candidate][j], n)
<1> DEFINE L == Candidate
           c == call[L][j]
           next  == nextIndex[L][j]
           next1 == nextIndex'[L][j]
<1>0. /\ L \in Server /\ j \in Server /\ c \in Call
      /\ Len(log[j]) \in Nat /\ Len(log'[j]) \in Nat /\ Len(log[L]) \in Nat
      /\ Len(log[j]) <= Len(log[L])
      /\ n <= Len(log[j]) /\ n < next /\ next \in Nat
  BY SlotTypes, SlotTypesNext DEF Keeps, PartsSent, PrefixOf
<1>1. n < next1
  <2>1. CASE next1 = next
    BY <1>0, <2>1
  <2>2. CASE next1 = Len(log[L]) + 1
    BY <1>0, <2>2
  <2>3. CASE /\ PeerStep(L, j) /\ AppendEntriesReply(L, j)
             /\ role[L] = "kLeader" /\ c.res.term <= currentTerm[L]
    BY <2>3, KeepsAnswer DEF Keeps
  <2> QED BY <2>1, <2>2, <2>3, IndexSteps
<1>2. n <= Len(log'[j])
  <2>1. CASE log'[j] = log[j]
    BY <1>0, <2>1
  <2>2. ASSUME NEW r \in InFlight, r.to = j, ReplyAppendEntries(r)
        PROVE  n <= Len(log'[j])
    <3>1. c.stage = "sent" /\ c.req = r /\ Appending(c)
      BY <2>2, InFlightSlot DEF ReplyAppendEntries, Appending
    <3>2. next = r.prevLogIndex + 1 /\ r.prevLogIndex \in Nat
      BY <1>0, <3>1, AppendingType DEF PeersSettled, Settled
    <3>3. log'[j] = log[j] \/ Len(log'[j]) = r.prevLogIndex
      BY <2>2, ServedAppend
    <3> QED BY <1>0, <3>2, <3>3
  <2>3. CASE AppendReceived(j)
    <3>1. /\ mu[j].req \in AppendRequest /\ Len(log[j]) = mu[j].req.prevLogIndex
          /\ Len(log'[j]) = ReplicatedBy(mu[j].req)
      BY <1>0, <2>3, ReceivedLog
    <3>2. Len(mu[j].req.entries) \in Nat
      BY <3>1, LenProperties DEF AppendRequest
    <3> QED BY <1>0, <3>1, <3>2 DEF ReplicatedBy
  <2>4. CASE HolderStep(j) /\ ~AppendReceived(j)
    BY <2>1, <2>4 DEF HolderStep, AdvanceFollowerCommitIndex,
       SaveFollowerCommitIndex, SaveLeaderCommitIndex
  <2> QED BY <2>1, <2>2, <2>3, <2>4, LogSteps
<1> QED BY <1>1, <1>2 DEF Keeps

LEMMA MatchesNext ==
  ASSUME OneCandidate, TypeOK, TypeOK', CallsInv, OthersFollow, PartsSent,
         NoneLate, VotesCover, TermsInv, PeersSettled, MatchesKept,
         [Next]_vars
  PROVE  MatchesKept'
<1> DEFINE L == Candidate
<1> SUFFICES ASSUME role'[L] = "kLeader", NEW j \in Follower
             PROVE  Keeps(log'[j], nextIndex'[L][j], matchIndex'[L][j])
  BY DEF MatchesKept
<1> DEFINE match  == matchIndex[L][j]
           match1 == matchIndex'[L][j]
<1>0. /\ match \in Nat /\ nextIndex'[L][j] \in Nat \ {0}
      /\ j \in Server /\ Len(log'[j]) \in Nat
  BY SlotTypes, SlotTypesNext
<1>1. CASE match1 = match /\ role[L] = "kLeader"
  <2>1. Keeps(log[j], nextIndex[L][j], match)
    BY <1>1 DEF MatchesKept
  <2> QED BY <1>0, <1>1, <2>1, KeepsNext
<1>2. CASE match1 = 0
  BY <1>0, <1>2 DEF Keeps
<1>3. CASE /\ PeerStep(L, j) /\ AppendEntriesReply(L, j)
           /\ role[L] = "kLeader" /\ call[L][j].res.term <= currentTerm[L]
  <2>1. /\ UNCHANGED log
        /\ \/ match1 = match
           \/ Keeps(log[j], nextIndex'[L][j], match1)
    BY <1>3, KeepsAnswer
  <2> QED BY <1>1, <1>3, <2>1
<1> QED BY <1>1, <1>2, <1>3, IndexSteps

ReplicationInv ==
  /\ PrefixInv
  /\ NoneLate
  /\ VotesCover
  /\ TermsInv
  /\ PeersSettled
  /\ MatchesKept

LEMMA ReplicationNext ==
  ASSUME OneCandidate, MaxLate = 0, ReplicationInv, [Next]_vars
  PROVE  ReplicationInv'
<1>1. ElectionInv' /\ TypeOK /\ CallsInv /\ TermSaved /\ ElectionInv
  BY TypeNext, CallsNext, VotesNext
     DEF ReplicationInv, PrefixInv, ElectionInv, VotesInv
<1>2. TypeOK'
  BY <1>1 DEF ElectionInv
<1>3. /\ OthersFollow /\ PartsSent /\ NoneLate /\ VotesCover /\ TermsInv
      /\ PeersSettled /\ MatchesKept
  BY DEF ReplicationInv, PrefixInv
<1>4. OthersFollow' /\ PartsSent'
  BY <1>1, <1>2, <1>3, OthersNext, PartsNext
<1>5. NoneLate' /\ VotesCover' /\ TermsInv'
  BY <1>1, <1>2, <1>3, NoneLateNext, VotesCoverNext, TermsNext
<1>6. PeersSettled' /\ MatchesKept'
  BY <1>1, <1>2, <1>3, SettledNext, MatchesNext
<1> QED BY <1>1, <1>4, <1>5, <1>6 DEF ReplicationInv, PrefixInv

LEMMA ReplicationInit ==
  ASSUME OneCandidate, Init
  PROVE  ReplicationInv
  BY ElectionInit, OthersInit, PartsInit, VotesCoverInit, TermsInit, SettledInit
     DEF ReplicationInv, PrefixInv

\* What a leader takes for replicated at a peer is in the peer's log: no other
\* server stands, and no request is served after its caller has given it up.
\* It stays there when the log of the peer is cut off for a request that is
\* repeated, before the entries are back.
THEOREM MatchIndexesSound ==
  ASSUME OneCandidate, MaxLate = 0
  PROVE  Spec => []MatchIndexSound
<1>1. Init => ReplicationInv
  BY ReplicationInit
<1>2. ReplicationInv /\ [Next]_vars => ReplicationInv'
  BY ReplicationNext
<1>3. ReplicationInv => MatchIndexSound
  <2> SUFFICES ASSUME ReplicationInv, NEW i \in Server, NEW j \in Server,
                      role[i] = "kLeader", i # j
               PROVE  matchIndex[i][j] <= Len(log[j])
    BY DEF MatchIndexSound
  <2>1. i = Candidate
    BY DEF ReplicationInv, PrefixInv, OthersFollow, Follows, Follower
  <2> QED BY <2>1 DEF ReplicationInv, MatchesKept, Keeps, Follower
<1> QED BY <1>1, <1>2, <1>3, PTL DEF Spec

=============================================================================
