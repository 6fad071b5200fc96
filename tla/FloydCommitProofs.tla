-------------------------- MODULE FloydCommitProofs --------------------------
(***************************************************************************)
(* Proofs about FloydRaft, continued from FloydReplicationProofs: what is  *)
(* committed, applied and answered while one server stands for election    *)
(* and no request is served late.                                          *)
(*                                                                         *)
(*   Placed        a command is at its index in the candidate's log        *)
(*   CommitsHeld   what is committed is held by a majority that keeps it   *)
(*   AppliesHeld   so is what is being applied; and what the servers that  *)
(*                 can be relied on have applied is the candidate's log    *)
(*   Answers       an answered command has been passed by last_applied     *)
(*   Numbered      a command has one place in the candidate's log          *)
(*                                                                         *)
(* With these the cluster implements ClusterContract.  That no commit      *)
(* index goes back needs one more layer, CommitsRise.                      *)
(***************************************************************************)
EXTENDS FloydReplicationProofs

\* What the steps below start from and lead to.
Replicated ==
  /\ TypeOK /\ CallsInv /\ OthersFollow /\ PartsSent /\ NoneLate /\ VotesCover
  /\ TermsInv /\ PeersSettled /\ MatchesKept
  /\ TypeOK' /\ OthersFollow' /\ PartsSent' /\ MatchesKept'

LEMMA ReplicatedSteps ==
  ASSUME OneCandidate, MaxLate = 0, ReplicationInv, [Next]_vars
  PROVE  Replicated
<1>1. ReplicationInv'
  BY ReplicationNext
<1> QED BY <1>1 DEF Replicated, ReplicationInv, PrefixInv, ElectionInv

\* Nothing is ever removed from the log of the candidate.
LEMMA CandidateLog ==
  ASSUME OneCandidate, Replicated, [Next]_vars
  PROVE  /\ log[Candidate] \in Seq(Entry) /\ log'[Candidate] \in Seq(Entry)
         /\ Len(log[Candidate]) \in Nat /\ Len(log'[Candidate]) \in Nat
         /\ Len(log[Candidate]) <= Len(log'[Candidate])
         /\ PrefixOf(log[Candidate], log'[Candidate])
<1>1. PrefixOf(log[Candidate], log'[Candidate])
  BY LogSteps DEF Replicated
<1> QED BY <1>1, SlotTypes, SlotTypesNext DEF Replicated, PrefixOf

-----------------------------------------------------------------------------
(* Commands and their entries *)

\* A command whose state is s, once it is executed, has its entry in log t.
PlacedIn(c, s, t) ==
  /\ s.stage \in {"appended", "committed", "saving", "waiting", "ok"} =>
       s.index \in 1..Len(t) /\ t[s.index].cmd = c
  /\ s.stage = "saving" => s.read <= Len(t)

Placed == \A c \in Command : PlacedIn(c, cmds[c], log[Candidate])

LEMMA PlacedGrows ==
  ASSUME NEW c, NEW s \in CommandState, NEW t \in Seq(Entry),
         NEW u \in Seq(Entry), PrefixOf(t, u), PlacedIn(c, s, t)
  PROVE  PlacedIn(c, s, u)
<1>1. /\ Len(t) \in Nat /\ Len(u) \in Nat /\ Len(t) <= Len(u)
      /\ s.read \in Nat
  BY LenProperties DEF PrefixOf, CommandState, RunningCommand
<1>2. s.index \in 1..Len(t) => s.index \in 1..Len(u) /\ u[s.index] = t[s.index]
  BY <1>1 DEF PrefixOf
<1> QED BY <1>1, <1>2 DEF PlacedIn

LEMMA PlacedInit == Init => Placed
  BY DEF Init, Placed, PlacedIn

LEMMA PlacedNext ==
  ASSUME OneCandidate, Replicated, Placed, [Next]_vars,
         commitIndex[Candidate] <= Len(log[Candidate])
  PROVE  Placed'
<1> USE DEF Replicated
<1> DEFINE L == Candidate
<1>0. /\ L \in Server /\ log[L] \in Seq(Entry) /\ log'[L] \in Seq(Entry)
      /\ PrefixOf(log[L], log'[L]) /\ Len(log[L]) \in Nat
      /\ cmds \in [Command -> CommandState] /\ cmds' \in [Command -> CommandState]
      /\ commitIndex[L] \in Nat
  BY SlotTypes, SlotTypesNext, LogSteps DEF TypeOK
<1>1. ASSUME NEW c \in Command, cmds'[c] = cmds[c]
      PROVE  PlacedIn(c, cmds'[c], log'[L])
  BY <1>0, <1>1, PlacedGrows DEF Placed
<1>2. CASE UNCHANGED cmds
  BY <1>1, <1>2 DEF Placed
<1>3. ASSUME NEW i \in Server, Restart(i) PROVE Placed'
  <2> SUFFICES ASSUME NEW c \in Command PROVE PlacedIn(c, cmds'[c], log'[L])
    BY DEF Placed
  <2>1. cmds'[c] = cmds[c] \/ cmds'[c].stage = "failed"
    BY <1>3, RestartCommands
  <2> QED BY <1>1, <2>1 DEF PlacedIn
<1>4. ASSUME NEW c \in Command, CommandStep(c) PROVE Placed'
  <2>1. \A d \in Command \ {c} : cmds'[d] = cmds[d]
    BY <1>4, CommandEffect
  <2>2. PlacedIn(c, cmds[c], log[L])
    BY DEF Placed
  <2>3. PlacedIn(c, cmds'[c], log'[L])
    <3>1. CASE ExecuteCommand(c)
      <4> DEFINE e == [term |-> cmds[c].read, cmd |-> c]
      <4>1. /\ cmds[c].at = L /\ e \in Entry /\ e.cmd = c
            /\ log'[L] = Append(log[L], e)
        BY <3>1, ExecuteEffect
      <4>2. /\ cmds'[c].stage \in {"appended", "waiting"}
            /\ cmds'[c].index = Len(log[L]) + 1
        BY <3>1, <4>1, CommandEffect DEF IsState
      <4> HIDE DEF e
      <4>3. Len(log'[L]) = Len(log[L]) + 1 /\ log'[L][Len(log[L]) + 1] = e
        BY <1>0, <4>1, AppendPrefix
      <4> QED BY <1>0, <4>1, <4>2, <4>3 DEF PlacedIn
    <3>2. CASE RereadCommitIndex(c)
      <4>1. /\ cmds[c].at = L /\ cmds[c].stage = "committed"
        BY <3>2 DEF RereadCommitIndex, OthersFollow
      <4>2. /\ cmds'[c].stage = "saving" /\ cmds'[c].index = cmds[c].index
            /\ cmds'[c].read = commitIndex[L]
        BY <3>2, <4>1, CommandEffect DEF IsState
      <4>3. UNCHANGED log
        BY <3>2 DEF RereadCommitIndex, logVars
      <4> QED BY <1>0, <2>2, <4>1, <4>2, <4>3 DEF PlacedIn
    <3>3. CASE ~ExecuteCommand(c) /\ ~RereadCommitIndex(c)
      <4>1. UNCHANGED log
        BY <1>4, <3>3, CommandKeepsLog
      <4>2. \/ cmds'[c].stage \in {"checked", "built", "failed"}
            \/ /\ cmds'[c].stage \in {"committed", "waiting", "ok"}
               /\ cmds'[c].index = cmds[c].index
               /\ cmds[c].stage \in {"appended", "saving", "waiting"}
        <5>1. CASE CommitSingle(c)
          BY <5>1, CommandEffect DEF IsState, CommitSingle
        <5>2. CASE SaveCommitIndex(c)
          BY <5>2, CommandEffect DEF IsState, SaveCommitIndex
        <5>3. CASE CommandApplied(c)
          BY <5>3, CommandEffect DEF IsState, CommandApplied
        <5>4. CASE \/ \E i \in Server : DoCommand(c, i)
                   \/ BuildLogEntry(c) \/ CommandTimeout(c)
          BY <5>4, CommandEffect DEF IsState
        <5> QED BY <1>4, <3>3, <5>1, <5>2, <5>3, <5>4 DEF CommandStep
      <4> QED BY <2>2, <4>1, <4>2 DEF PlacedIn
    <3> QED BY <3>1, <3>2, <3>3
  <2> QED BY <1>1, <2>1, <2>3 DEF Placed
<1>5. CASE \E i \in Server : ServerStep(i) /\ ~Restart(i)
  <2>1. UNCHANGED cmds
    BY <1>5 DEF ServerStep, LaunchCheckLeader, LaunchHeartBeat,
       ApplyStateMachine, Apply, ApplyFails, SetLastApplied, applyFrame
  <2> QED BY <1>2, <2>1
<1>6. CASE UNCHANGED vars
  BY <1>2, <1>6 DEF vars
<1>7. ASSUME NEW i \in Server, NEW j \in Server \ {i}, PeerStep(i, j)
      PROVE  Placed'
  BY <1>2, <1>7, PeerStepRow
<1>8. ASSUME NEW r \in InFlight, ReplyRequestVote(r) \/ ReplyAppendEntries(r)
      PROVE  Placed'
  BY <1>2, <1>8, ServeRow
<1>9. ASSUME NEW i \in Server, HolderStep(i) PROVE Placed'
  BY <1>2, <1>9, HolderFrame DEF serviceFrame
<1> QED BY <1>3, <1>4, <1>5, <1>6, <1>7, <1>8, <1>9 DEF Next

-----------------------------------------------------------------------------
(* What a majority holds *)

LEMMA ServersFinite ==
  /\ IsFiniteSet(Server) /\ Cardinality(Server) \in Nat
  /\ \A Q \in SUBSET Server : IsFiniteSet(Q) /\ Cardinality(Q) \in Nat
  BY ServerAssumption, FS_Subset, FS_CardinalityType

LEMMA MajorityGrows ==
  ASSUME NEW Q \in SUBSET Server, NEW R \in SUBSET Server, Q \subseteq R,
         IsMajority(Q)
  PROVE  IsMajority(R)
<1>1. Cardinality(Q) \in Nat /\ Cardinality(R) \in Nat /\ IsFiniteSet(R)
  BY ServersFinite
<1>2. Cardinality(Q) <= Cardinality(R)
  BY <1>1, FS_Subset
<1> QED BY <1>1, <1>2, ServersFinite DEF IsMajority

LEMMA AllAreMajority == IsMajority(Server)
<1>1. Cardinality(Server) # 0
  BY ServerAssumption, FS_EmptySet
<1> QED BY <1>1, ServersFinite DEF IsMajority

\* Peer::QuorumMatchIndex: with the leader itself, the peers that have reached
\* the index it returns are a majority.
LEMMA QuorumIsMajority ==
  ASSUME OneCandidate, NEW match, NEW index \in Nat,
         IsQuorumMatchIndex(Candidate, match, index),
         NEW Q \in SUBSET Server, Candidate \in Q,
         \A j \in Follower : match[j] < index \/ j \in Q
  PROVE  IsMajority(Q)
<1> DEFINE L    == Candidate
           P    == Follower
           low  == {j \in P : match[j] < index}
           high == P \ low
           p    == Cardinality(P)
<1>1. /\ L \in Server /\ P \in SUBSET Server /\ L \notin P /\ P = Server \ {L}
      /\ low \in SUBSET Server /\ high \in SUBSET Server
      /\ high \cup {L} \subseteq Q /\ L \notin high /\ P \cap low = low
  BY CandidateStands DEF Follower
<1>2. Cardinality(low) <= p \div 2
  BY DEF IsQuorumMatchIndex, Follower
<1>3. p = Cardinality(Server) - 1
  BY <1>1, ServersFinite, FS_RemoveElement
<1>4. /\ IsFiniteSet(P) /\ IsFiniteSet(high) /\ p \in Nat
      /\ Cardinality(low) \in Nat /\ Cardinality(high) \in Nat
      /\ Cardinality(Q) \in Nat /\ IsFiniteSet(Q)
  BY <1>1, ServersFinite
<1>5. Cardinality(high) = p - Cardinality(low)
  <2>1. Cardinality(P \ low) = Cardinality(P) - Cardinality(P \cap low)
    BY <1>4, FS_Difference
  <2> HIDE DEF low, P
  <2> QED BY <1>1, <2>1
<1> HIDE DEF low, P, high, p, L
<1>6. Cardinality(high \cup {L}) = Cardinality(high) + 1
  BY <1>1, <1>4, FS_AddElement
<1>7. Cardinality(high \cup {L}) <= Cardinality(Q)
  BY <1>1, <1>4, FS_Subset
<1>8. 2 * (p \div 2) <= p
  BY <1>4
<1> QED BY <1>2, <1>3, <1>4, <1>5, <1>6, <1>7, <1>8, ServersFinite
        DEF IsMajority

\* The servers that have the first n entries of the candidate's log and keep
\* them, whatever is sent to them next: lg are the logs, nx the next_index_ of
\* the candidate's peers.
Holding(lg, nx, n) ==
  {i \in Server : i = Candidate \/ Keeps(lg[i], nx[i], n)}

Held(lg, nx, n) ==
  n <= Len(lg[Candidate]) /\ IsMajority(Holding(lg, nx, n))

LEMMA HeldNext ==
  ASSUME OneCandidate, Replicated, [Next]_vars, NEW n \in Nat,
         Held(log, nextIndex[Candidate], n)
  PROVE  Held(log', nextIndex'[Candidate], n)
<1> DEFINE L == Candidate
           Q == Holding(log, nextIndex[L], n)
           R == Holding(log', nextIndex'[L], n)
<1>1. n <= Len(log'[L])
  BY CandidateLog DEF Held
<1>2. Q \in SUBSET Server /\ R \in SUBSET Server
  BY DEF Holding
<1>3. Q \subseteq R
  <2> SUFFICES ASSUME NEW i \in Q PROVE i \in R
    OBVIOUS
  <2>1. CASE i = L
    BY <2>1 DEF Holding
  <2>2. CASE i # L
    <3>1. i \in Follower /\ Keeps(log[i], nextIndex[L][i], n)
      BY <2>2 DEF Holding, Follower
    <3>2. Keeps(log'[i], nextIndex'[L][i], n)
      BY <3>1, KeepsNext DEF Replicated
    <3> QED BY <1>2, <3>2 DEF Holding
  <2> QED BY <2>1, <2>2
<1>4. IsMajority(Q)
  BY DEF Held
<1>5. IsMajority(R)
  <2> HIDE DEF Q, R
  <2> QED BY <1>2, <1>3, <1>4, MajorityGrows
<1> QED BY <1>1, <1>5 DEF Held

LEMMA HeldLess ==
  ASSUME OneCandidate, NEW lg, NEW nx, \A i \in Server : Len(lg[i]) \in Nat,
         \A j \in Follower : nx[j] \in Nat, NEW n \in Nat, NEW m \in Nat,
         m <= n, Held(lg, nx, n)
  PROVE  Held(lg, nx, m)
<1> DEFINE Q == Holding(lg, nx, n)
           R == Holding(lg, nx, m)
<1>1. m <= Len(lg[Candidate])
  BY CandidateStands DEF Held
<1>2. Q \in SUBSET Server /\ R \in SUBSET Server
  BY DEF Holding
<1>3. Q \subseteq R
  BY DEF Holding, Keeps, Follower
<1>4. IsMajority(Q)
  BY DEF Held
<1>5. IsMajority(R)
  <2> HIDE DEF Q, R
  <2> QED BY <1>2, <1>3, <1>4, MajorityGrows
<1> QED BY <1>1, <1>5 DEF Held

\* A single server holds what is in its log.
LEMMA HeldSingle ==
  ASSUME OneCandidate, SingleMode, NEW lg, NEW nx, NEW n, n <= Len(lg[Candidate])
  PROVE  Held(lg, nx, n)
<1>1. Holding(lg, nx, n) = Server
  BY SingleIsCandidate DEF Holding
<1> QED BY <1>1, AllAreMajority DEF Held

LEMMA HeldInit == OneCandidate /\ Init => Held(log, nextIndex[Candidate], 0)
<1> SUFFICES ASSUME OneCandidate, Init
             PROVE  Held(log, nextIndex[Candidate], 0)
  OBVIOUS
<1>1. Candidate \in Server
  BY CandidateStands
<1>2. \A i \in Server : Len(log[i]) = 0 /\ nextIndex[Candidate][i] = 1
  BY <1>1 DEF Init
<1>3. Holding(log, nextIndex[Candidate], 0) = Server
  BY <1>2 DEF Holding, Keeps
<1> QED BY <1>1, <1>2, <1>3, AllAreMajority DEF Held

\* With two servers a majority is everybody.
LEMMA ReliableHas ==
  ASSUME OneCandidate, NEW lg, NEW nx, NEW n, Held(lg, nx, n),
         NEW i \in Reliable
  PROVE  i \in Server /\ n <= Len(lg[i])
<1> DEFINE Q == Holding(lg, nx, n)
<1>1. CASE Cardinality(Server) <= 2
  <2>1. Q \in SUBSET Server /\ IsMajority(Q)
    BY DEF Holding, Held
  <2>2. Q = Server
    <3> HIDE DEF Q
    <3>1. /\ IsFiniteSet(Server) /\ Cardinality(Q) <= Cardinality(Server)
          /\ Cardinality(Server) = Cardinality(Q) => Server = Q
      BY <2>1, ServersFinite, FS_Subset
    <3>2. Cardinality(Q) \in Nat /\ Cardinality(Server) \in Nat
      BY <2>1, ServersFinite
    <3> QED BY <1>1, <2>1, <3>1, <3>2 DEF IsMajority
  <2>3. i \in Q
    BY <1>1, <2>2 DEF Reliable
  <2> QED BY <2>3 DEF Holding, Held, Keeps
<1>2. CASE ~(Cardinality(Server) <= 2)
  <2>1. i = Candidate
    BY <1>2, CandidateStands DEF Reliable
  <2> QED BY <2>1, CandidateStands DEF Held
<1> QED BY <1>1, <1>2

-----------------------------------------------------------------------------
(* What is committed *)

\* The answers of the peers commit what a majority has, and only more of it.
LEMMA LeaderCommits ==
  ASSUME OneCandidate, Replicated, NEW j \in Follower,
         PeerStep(Candidate, j), AppendEntriesReply(Candidate, j)
  PROVE  \/ UNCHANGED commitIndex
         \/ /\ commitIndex[Candidate] < commitIndex'[Candidate]
            /\ Held(log', nextIndex'[Candidate], commitIndex'[Candidate])
            /\ \A i \in Follower : commitIndex'[i] = commitIndex[i]
<1> USE DEF Replicated
<1> DEFINE L == Candidate
           match == matchIndex'[L]
<1>1. /\ L \in Server /\ j \in Server
      /\ role[L] = "kLeader" /\ role'[L] = "kLeader"
      /\ call[L][j].res.term <= currentTerm[L]
  <2>1. call[L][j].stage = "replied"
    BY DEF AppendEntriesReply
  <2>2. L \in Server /\ j \in Server
    BY CandidateStands DEF Follower
  <2>3. role[L] = "kLeader"
    BY ReignPeerStep DEF TermsInv
  <2>4. role'[L] = "kLeader"
    BY <2>3, ReignPeerStep DEF TermsInv
  <2>5. call[L][j].res.term <= currentTerm[L]
    BY <2>1, ReplyNotAhead DEF TermsInv
  <2> QED BY <2>2, <2>3, <2>4, <2>5
<1>2. \A k \in Follower : /\ Keeps(log'[k], nextIndex'[L][k], match[k])
                          /\ match[k] \in Nat /\ nextIndex'[L][k] \in Nat
                          /\ k \in Server
  BY <1>1, SlotTypesNext DEF MatchesKept, Follower
<1>3. \A k \in Server : /\ Len(log'[k]) \in Nat /\ commitIndex'[k] \in Nat
                        /\ Len(log'[k]) <= Len(log'[L])
  BY SlotTypesNext DEF PartsSent, PrefixOf
<1>4. CASE AdvanceLeaderCommitIndex(L, match)
  <2>1. PICK index \in {match[k] : k \in Server \ {L}} :
          /\ IsQuorumMatchIndex(L, match, index)
          /\ IF commitIndex[L] < index
             THEN commitIndex' = [commitIndex EXCEPT ![L] = index]
             ELSE UNCHANGED commitIndex
    BY <1>4 DEF AdvanceLeaderCommitIndex
  <2>2. index \in Nat /\ index <= Len(log'[L])
    <3>1. PICK k \in Follower : index = match[k]
      BY <2>1 DEF Follower
    <3>2. k \in Server
      BY DEF Follower
    <3> HIDE DEF match
    <3> QED BY <1>2, <1>3, <3>1, <3>2 DEF Keeps
  <2>3. Held(log', nextIndex'[L], index)
    <3> DEFINE Q == Holding(log', nextIndex'[L], index)
    <3>1. Q \in SUBSET Server /\ L \in Q
      BY <1>1 DEF Holding
    <3>2. \A k \in Follower : match[k] < index \/ k \in Q
      <4> HIDE DEF match
      <4> SUFFICES ASSUME NEW k \in Follower, ~(match[k] < index) PROVE k \in Q
        OBVIOUS
      <4>1. Keeps(log'[k], nextIndex'[L][k], index)
        BY <1>2, <1>3, <2>2 DEF Keeps
      <4> QED BY <1>2, <4>1 DEF Holding
    <3> HIDE DEF Q, match
    <3>3. IsMajority(Q)
      BY <2>1, <2>2, <3>1, <3>2, QuorumIsMajority
    <3> QED BY <2>2, <3>3 DEF Q, Held
  <2>4. LogTypeOK
    BY TypeParts
  <2> HIDE DEF match
  <2> QED BY <1>1, <2>1, <2>2, <2>3, <2>4 DEF LogTypeOK, Follower
<1> QED BY <1>1, <1>4, AppendEntriesReplyEffect

\* A single server commits in the thread that executes the command.
SingleCommits(i) ==
  \E c \in Command :
    /\ SingleMode /\ i = Candidate
    /\ \/ /\ cmds[c].stage = "appended" /\ commitIndex'[i] = cmds[c].index
          /\ metaCommit'[i] = metaCommit[i]
       \/ /\ cmds[c].stage = "saving" /\ metaCommit'[i] = cmds[c].read
          /\ commitIndex'[i] = commitIndex[i]

\* How the two commit indexes of a server change.
LEMMA CommitSteps ==
  ASSUME OneCandidate, Replicated, SingleStages, [Next]_vars, NEW i \in Server
  PROVE  \/ commitIndex'[i] = commitIndex[i] /\ metaCommit'[i] = metaCommit[i]
         \/ /\ Restart(i)
            /\ commitIndex'[i] = metaCommit[i] /\ metaCommit'[i] = metaCommit[i]
         \/ /\ i \in Follower /\ AdvanceFollowerCommitIndex(i)
            /\ commitIndex'[i] = Lesser(mu[i].req.leaderCommit, Len(log[i]))
            /\ metaCommit'[i] = metaCommit[i]
         \/ /\ Unsaved(i) /\ HolderStep(i)
            /\ commitIndex'[i] = commitIndex[i]
            /\ metaCommit'[i] = commitIndex[i]
         \/ /\ i = Candidate /\ commitIndex[i] < commitIndex'[i]
            /\ Held(log', nextIndex'[Candidate], commitIndex'[i])
            /\ metaCommit'[i] = metaCommit[i]
            /\ \E j \in Follower : AppendEntriesReply(Candidate, j)
         \/ SingleCommits(i)
<1> USE DEF Replicated
<1> DEFINE L == Candidate
<1>0. LogTypeOK /\ L \in Server
  BY TypeParts, CandidateStands
<1>1. CASE UNCHANGED <<commitIndex, metaCommit>>
  BY <1>1
<1>2. CASE UNCHANGED vars
  BY <1>1, <1>2 DEF vars, logVars
<1>3. ASSUME NEW k \in Server, ServerStep(k)
      PROVE  \/ commitIndex'[i] = commitIndex[i] /\ metaCommit'[i] = metaCommit[i]
             \/ /\ Restart(i) /\ commitIndex'[i] = metaCommit[i]
                /\ metaCommit'[i] = metaCommit[i]
  <2>1. CASE Restart(k)
    <3>1. /\ commitIndex' = [commitIndex EXCEPT ![k] = metaCommit[k]]
          /\ UNCHANGED metaCommit
      BY <2>1 DEF Restart
    <3> QED BY <1>0, <2>1, <3>1 DEF LogTypeOK
  <2>2. CASE ~Restart(k)
    BY <1>3, <2>2 DEF ServerStep, LaunchCheckLeader, LaunchHeartBeat,
       ApplyStateMachine, Apply, ApplyFails, SetLastApplied, applyFrame, logVars
  <2> QED BY <2>1, <2>2
<1>4. ASSUME NEW k \in Server, NEW j \in Server \ {k}, PeerStep(k, j)
      PROVE  \/ commitIndex'[i] = commitIndex[i] /\ metaCommit'[i] = metaCommit[i]
             \/ /\ i = L /\ commitIndex[i] < commitIndex'[i]
                /\ Held(log', nextIndex'[L], commitIndex'[i])
                /\ metaCommit'[i] = metaCommit[i]
                /\ \E q \in Follower : AppendEntriesReply(L, q)
  <2>1. k = L /\ j \in Follower
    BY <1>4, CandidateActs DEF Follower
  <2>2. UNCHANGED metaCommit
    BY <1>4 DEF PeerStep, RequestVoteRPC, AppendEntriesSkip, AppendEntriesRPC,
       AppendEntriesRead, RequestVoteReply, AppendEntriesReply,
       SendAndRecvFails, logVars
  <2>3. CASE AppendEntriesReply(L, j)
    <3>1. \/ UNCHANGED commitIndex
          \/ /\ commitIndex[L] < commitIndex'[L]
             /\ Held(log', nextIndex'[L], commitIndex'[L])
             /\ \A q \in Follower : commitIndex'[q] = commitIndex[q]
      BY <1>4, <2>1, <2>3, LeaderCommits
    <3> QED BY <2>1, <2>2, <2>3, <3>1 DEF Follower
  <2>4. CASE ~AppendEntriesReply(k, j)
    <3>1. UNCHANGED commitIndex
      BY <1>4, <2>4 DEF PeerStep, RequestVoteRPC, AppendEntriesSkip,
         AppendEntriesRPC, AppendEntriesRead, RequestVoteReply,
         SendAndRecvFails, logVars
    <3> QED BY <2>2, <3>1
  <2> QED BY <2>1, <2>3, <2>4
<1>5. ASSUME NEW r \in InFlight, ReplyRequestVote(r) \/ ReplyAppendEntries(r)
      PROVE  UNCHANGED <<commitIndex, metaCommit>>
  BY <1>5, ServeRow
<1>6. ASSUME NEW k \in Server, HolderStep(k)
      PROVE  \/ commitIndex'[i] = commitIndex[i] /\ metaCommit'[i] = metaCommit[i]
             \/ /\ i \in Follower /\ AdvanceFollowerCommitIndex(i)
                /\ commitIndex'[i] = Lesser(mu[i].req.leaderCommit, Len(log[i]))
                /\ metaCommit'[i] = metaCommit[i]
             \/ /\ Unsaved(i) /\ HolderStep(i)
                /\ commitIndex'[i] = commitIndex[i]
                /\ metaCommit'[i] = commitIndex[i]
  <2>1. CASE k # i
    BY <1>6, <2>1, HolderRow
  <2>2. CASE k = i /\ AppendReceived(i)
    BY <2>2 DEF AppendReceived
  <2>3. CASE k = i /\ AdvanceFollowerCommitIndex(i)
    <3>1. Serving(mu[i])
      BY <2>3 DEF AdvanceFollowerCommitIndex, Serving
    <3>2. i \in Follower
      BY <3>1, HolderFollows
    <3> QED BY <1>0, <2>3, <3>2 DEF AdvanceFollowerCommitIndex, LogTypeOK,
                FollowerCommitIndex, LastLogIndex
  <2>4. CASE k = i /\ (SaveFollowerCommitIndex(i) \/ SaveLeaderCommitIndex(i))
    <3>1. Unsaved(i) /\ HolderStep(i)
      BY <2>4 DEF SaveFollowerCommitIndex, SaveLeaderCommitIndex, Unsaved,
                  HolderStep
    <3> QED BY <1>0, <2>4, <3>1 DEF SaveFollowerCommitIndex,
                SaveLeaderCommitIndex, SetCommitIndex, LogTypeOK
  <2> QED BY <1>6, <2>1, <2>2, <2>3, <2>4 DEF HolderStep
<1>7. ASSUME NEW c \in Command, CommandStep(c)
      PROVE  \/ commitIndex'[i] = commitIndex[i] /\ metaCommit'[i] = metaCommit[i]
             \/ SingleCommits(i)
  <2>1. CASE CommitSingle(c) \/ SaveCommitIndex(c)
    <3>1. cmds[c].stage \in {"appended", "saving"}
      BY <2>1 DEF CommitSingle, SaveCommitIndex
    <3>2. SingleMode /\ cmds[c].at = L /\ i = L
      BY <3>1, SingleIsCandidate DEF SingleStages, OthersFollow
    <3> QED BY <1>0, <2>1, <3>2 DEF CommitSingle, SaveCommitIndex, LogTypeOK,
                SingleCommits
  <2>2. CASE ~CommitSingle(c) /\ ~SaveCommitIndex(c)
    BY <1>7, <2>2 DEF CommandStep, DoCommand, BuildLogEntry, ExecuteCommand,
       RereadCommitIndex, CommandApplied, CommandTimeout, logVars
  <2> QED BY <2>1, <2>2
<1> QED BY <1>1, <1>2, <1>3, <1>4, <1>5, <1>6, <1>7 DEF Next

\* A request that is being served was sent.
LEMMA ServingSteps ==
  ASSUME OneCandidate, Replicated, [Next]_vars, NEW j \in Follower,
         Serving(mu'[j])
  PROVE  \/ /\ Serving(mu[j]) /\ mu'[j].req = mu[j].req
            /\ mu[j].at = "following" => mu'[j].at = "following"
         \/ /\ mu[j] = Free /\ mu'[j].at = "cut"
            /\ call[Candidate][j].stage = "sent" /\ Appending(call[Candidate][j])
            /\ mu'[j].req = call[Candidate][j].req
            /\ Len(log'[j]) = mu'[j].req.prevLogIndex
<1> USE DEF Replicated
<1>0. ~Serving(Free) /\ j \in Server
  BY DEF Serving, Free, Follower
<1>1. CASE mu'[j] \in {mu[j], Free}
  BY <1>0, <1>1
<1>2. ASSUME NEW r \in InFlight, r.to = j, ReplyAppendEntries(r)
      PROVE  /\ mu[j] = Free /\ mu'[j].at = "cut"
             /\ call[Candidate][j].stage = "sent"
             /\ Appending(call[Candidate][j])
             /\ mu'[j].req = call[Candidate][j].req
             /\ Len(log'[j]) = mu'[j].req.prevLogIndex
  <2>1. /\ call[Candidate][j].stage = "sent" /\ call[Candidate][j].req = r
        /\ Appending(call[Candidate][j])
    BY <1>2, InFlightSlot DEF Appending, ReplyAppendEntries
  <2>2. /\ mu[j] = Free /\ mu'[j].at = "cut" /\ mu'[j].req = r
        /\ Len(log'[j]) = r.prevLogIndex
    BY <1>0, <1>2, ServedAppend, Served
  <2> QED BY <2>1, <2>2
<1>3. CASE HolderStep(j)
  <2>1. mu[j].at \in {"cut", "appended"} /\ mu'[j].req = mu[j].req
    BY <1>0, <1>3, HolderRow
  <2> QED BY <2>1 DEF Serving
<1> QED BY <1>1, <1>2, <1>3, LogSteps

\* The commit index that a request carries is the one the leader had.
LEMMA CommitSent ==
  ASSUME OneCandidate, Replicated, [Next]_vars, NEW j \in Follower,
         Appending(call'[Candidate][j])
  PROVE  LET c == call[Candidate][j]
             d == call'[Candidate][j]
         IN \/ Appending(c) /\ d.req.leaderCommit = c.req.leaderCommit
            \/ /\ AppendEntriesRPC(Candidate, j)
               /\ d.req.leaderCommit = commitIndex[Candidate]
<1> USE DEF Replicated
<1> DEFINE L == Candidate
           c == call[L][j]
           d == call'[L][j]
<1>0. L \in Server /\ j \in Server /\ c \in Call
  BY SlotTypes
<1>1. CASE d = c
  BY <1>1
<1>2. CASE d = Idle
  BY <1>2 DEF Appending, Idle
<1>3. CASE /\ c.stage \in {"sent", "serving"}
           /\ d.stage \in {"serving", "replied"} /\ d.req = c.req
  BY <1>3 DEF Appending
<1>4. CASE PeerStep(L, j)
  <2>1. CASE AppendEntriesRPC(L, j)
    BY <1>0, <2>1, AppendEntriesRPCEffect
  <2>2. CASE AppendEntriesRead(L, j)
    BY <1>0, <2>2, AppendEntriesReadEffect, AppendingType
  <2>3. CASE AppendEntriesSkip(L, j)
    BY <1>1, <2>3 DEF AppendEntriesSkip, netVars
  <2>4. CASE RequestVoteRPC(L, j)
    BY <1>0, <2>4, RequestVoteRPCEffect DEF Voting, Appending
  <2>5. CASE \/ RequestVoteReply(L, j) \/ AppendEntriesReply(L, j)
             \/ SendAndRecvFails(L, j)
    <3>1. d = Idle
      BY <1>0, <2>5, TypeParts DEF RequestVoteReply, AppendEntriesReply,
                                  SendAndRecvFails, NetTypeOK
    <3> QED BY <1>2, <3>1
  <2> QED BY <1>4, <2>1, <2>2, <2>3, <2>4, <2>5 DEF PeerStep
<1> QED BY <1>1, <1>2, <1>3, <1>4, SlotMoves

CommitsHeld ==
  /\ \A i \in Server : /\ Held(log, nextIndex[Candidate], commitIndex[i])
                       /\ Held(log, nextIndex[Candidate], metaCommit[i])
  /\ \A j \in Follower :
       /\ Appending(call[Candidate][j]) =>
            Held(log, nextIndex[Candidate], call[Candidate][j].req.leaderCommit)
       /\ Serving(mu[j]) =>
            Held(log, nextIndex[Candidate], mu[j].req.leaderCommit)

LEMMA CommitsInit == OneCandidate /\ Init => CommitsHeld
<1> SUFFICES ASSUME OneCandidate, Init PROVE CommitsHeld
  OBVIOUS
<1>1. Held(log, nextIndex[Candidate], 0)
  BY HeldInit
<1>2. \A i \in Server : commitIndex[i] = 0 /\ metaCommit[i] = 0
  BY DEF Init
<1>3. \A j \in Follower : call[Candidate][j] = Idle /\ mu[j] = Free
  BY CandidateStands DEF Init, Follower
<1>4. ~Appending(Idle) /\ ~Serving(Free)
  BY DEF Appending, Idle, Serving, Free
<1> QED BY <1>1, <1>2, <1>3, <1>4 DEF CommitsHeld

LEMMA CommitsNext ==
  ASSUME OneCandidate, Replicated, SingleStages, Placed, CommitsHeld,
         [Next]_vars
  PROVE  CommitsHeld'
<1> USE DEF Replicated
<1> DEFINE L == Candidate
<1>0. /\ L \in Server
      /\ \A i \in Server : /\ commitIndex[i] \in Nat /\ metaCommit[i] \in Nat
                           /\ Len(log[i]) \in Nat /\ Len(log'[i]) \in Nat
      /\ \A j \in Follower : /\ j \in Server /\ call[L][j] \in Call
                             /\ nextIndex'[L][j] \in Nat
  BY SlotTypes, SlotTypesNext DEF Follower
<1>1. ASSUME NEW i \in Server
      PROVE  /\ Held(log', nextIndex'[L], commitIndex'[i])
             /\ Held(log', nextIndex'[L], metaCommit'[i])
  <2>1. /\ Held(log', nextIndex'[L], commitIndex[i])
        /\ Held(log', nextIndex'[L], metaCommit[i])
    BY <1>0, HeldNext DEF CommitsHeld
  <2>2. CASE /\ commitIndex'[i] \in {commitIndex[i], metaCommit[i]}
             /\ metaCommit'[i] \in {commitIndex[i], metaCommit[i]}
    BY <2>1, <2>2
  <2>3. CASE /\ i \in Follower /\ AdvanceFollowerCommitIndex(i)
             /\ commitIndex'[i] = Lesser(mu[i].req.leaderCommit, Len(log[i]))
             /\ metaCommit'[i] = metaCommit[i]
    <3> DEFINE n == mu[i].req.leaderCommit
               m == Lesser(n, Len(log[i]))
    <3>1. Serving(mu[i]) /\ mu[i].req \in AppendRequest
      <4>1. Serving(mu[i])
        BY <2>3 DEF AdvanceFollowerCommitIndex, Serving
      <4> QED BY <4>1, HolderFollows
    <3>2. n \in Nat
      BY <3>1 DEF AppendRequest
    <3>3. Held(log, nextIndex[L], n)
      BY <2>3, <3>1 DEF CommitsHeld
    <3> HIDE DEF n
    <3>4. Held(log', nextIndex'[L], n)
      BY <3>2, <3>3, HeldNext
    <3>5. m \in Nat /\ m <= n
      BY <1>0, <3>2 DEF Lesser
    <3> HIDE DEF m
    <3>6. Held(log', nextIndex'[L], m)
      BY <1>0, <3>2, <3>4, <3>5, HeldLess
    <3> QED BY <2>1, <2>3, <3>6 DEF m, n
  <2>4. CASE /\ Held(log', nextIndex'[L], commitIndex'[i])
             /\ metaCommit'[i] = metaCommit[i]
    BY <2>1, <2>4
  <2>5. CASE SingleCommits(i)
    <3>1. PICK c \in Command :
            /\ SingleMode /\ i = L
            /\ \/ /\ cmds[c].stage = "appended" /\ commitIndex'[i] = cmds[c].index
                  /\ metaCommit'[i] = metaCommit[i]
               \/ /\ cmds[c].stage = "saving" /\ metaCommit'[i] = cmds[c].read
                  /\ commitIndex'[i] = commitIndex[i]
      BY <2>5 DEF SingleCommits
    <3>2. PlacedIn(c, cmds[c], log[L]) /\ cmds[c] \in CommandState
      BY TypeParts DEF Placed
    <3>3. /\ cmds[c].index \in Nat /\ cmds[c].read \in Nat
      BY <3>2 DEF CommandState, RunningCommand
    <3>4. /\ cmds[c].stage = "appended" => cmds[c].index <= Len(log'[L])
          /\ cmds[c].stage = "saving" => cmds[c].read <= Len(log'[L])
      BY <1>0, <3>2, <3>3, CandidateLog DEF PlacedIn
    <3>5. /\ cmds[c].stage = "appended" =>
               Held(log', nextIndex'[L], cmds[c].index)
          /\ cmds[c].stage = "saving" => Held(log', nextIndex'[L], cmds[c].read)
      BY <3>1, <3>4, HeldSingle
    <3> QED BY <2>1, <3>1, <3>5
  <2> QED BY <2>2, <2>3, <2>4, <2>5, CommitSteps
<1>2. ASSUME NEW j \in Follower, Appending(call'[L][j])
      PROVE  Held(log', nextIndex'[L], call'[L][j].req.leaderCommit)
  <2>1. CASE /\ Appending(call[L][j])
             /\ call'[L][j].req.leaderCommit = call[L][j].req.leaderCommit
    <3>1. call[L][j].req.leaderCommit \in Nat
      BY <1>0, <2>1, AppendingType
    <3> QED BY <2>1, <3>1, HeldNext DEF CommitsHeld
  <2>2. CASE call'[L][j].req.leaderCommit = commitIndex[L]
    BY <1>0, <2>2, HeldNext DEF CommitsHeld
  <2> QED BY <1>2, <2>1, <2>2, CommitSent
<1>3. ASSUME NEW j \in Follower, Serving(mu'[j])
      PROVE  Held(log', nextIndex'[L], mu'[j].req.leaderCommit)
  <2>1. CASE Serving(mu[j]) /\ mu'[j].req = mu[j].req
    <3>1. mu[j].req \in AppendRequest
      BY <1>0, <2>1, HolderFollows
    <3>2. mu[j].req.leaderCommit \in Nat
      BY <3>1 DEF AppendRequest
    <3> QED BY <2>1, <3>2, HeldNext DEF CommitsHeld
  <2>2. CASE Appending(call[L][j]) /\ mu'[j].req = call[L][j].req
    <3>1. call[L][j].req.leaderCommit \in Nat
      BY <1>0, <2>2, AppendingType
    <3> QED BY <2>2, <3>1, HeldNext DEF CommitsHeld
  <2> QED BY <1>3, <2>1, <2>2, ServingSteps
<1> QED BY <1>1, <1>2, <1>3 DEF CommitsHeld

-----------------------------------------------------------------------------
(* What is applied *)

\* What is in A was applied from log t.
FromLog(A, t) == \A a \in A : a.index \in 1..Len(t) /\ a.entry = t[a.index]

AppliesHeld ==
  /\ \A i \in Server : /\ Held(log, nextIndex[Candidate], lastApplied[i])
                       /\ Held(log, nextIndex[Candidate], batch[i].upto)
  /\ \A i \in Reliable : FromLog(applied[i], log[Candidate])

LEMMA ReliableServers ==
  ASSUME OneCandidate
  PROVE  Reliable \subseteq Server /\ Candidate \in Reliable
  BY CandidateStands DEF Reliable

LEMMA AppliesInit == OneCandidate /\ Init => AppliesHeld
<1> SUFFICES ASSUME OneCandidate, Init PROVE AppliesHeld
  OBVIOUS
<1>1. Held(log, nextIndex[Candidate], 0)
  BY HeldInit
<1>2. \A i \in Server : /\ lastApplied[i] = 0 /\ batch[i].upto = 0
                        /\ applied[i] = {}
  BY DEF Init, NoBatch
<1> QED BY <1>1, <1>2, ReliableServers DEF AppliesHeld, FromLog

LEMMA FromLogGrows ==
  ASSUME NEW A, NEW t \in Seq(Entry), NEW u \in Seq(Entry), PrefixOf(t, u),
         FromLog(A, t)
  PROVE  FromLog(A, u)
<1>1. Len(t) \in Nat /\ Len(u) \in Nat
  BY LenProperties
<1> QED BY <1>1 DEF FromLog, PrefixOf

\* A server that can be relied on has what it is about to apply, and has it
\* from the candidate.
LEMMA EntryApplied ==
  ASSUME OneCandidate, TypeOK, PartsSent, AppliesHeld, NEW i \in Reliable,
         batch[i].at < batch[i].upto
  PROVE  LET k == batch[i].at + 1 IN
         /\ k \in 1..Len(log[Candidate])
         /\ EntryToApply(i, k) = log[Candidate][k]
<1> DEFINE L == Candidate
           k == batch[i].at + 1
<1>1. /\ i \in Server /\ L \in Server
      /\ Len(log[i]) \in Nat /\ Len(log[L]) \in Nat
      /\ batch[i].at \in Nat /\ batch[i].upto \in Nat
  BY ReliableServers, SlotTypes, SmTypes
<1>2. batch[i].upto <= Len(log[i])
  BY <1>1, ReliableHas DEF AppliesHeld
<1>3. k \in 1..Len(log[i])
  BY <1>1, <1>2
<1>4. PrefixOf(log[i], log[L])
  BY <1>1 DEF PartsSent
<1>5. EntryToApply(i, k) = log[i][k]
  BY <1>3 DEF EntryToApply, LastLogIndex
<1> SUFFICES k \in 1..Len(log[L]) /\ EntryToApply(i, k) = log[L][k]
  OBVIOUS
<1> HIDE DEF k
<1> QED BY <1>1, <1>3, <1>4, <1>5 DEF PrefixOf

LEMMA AppliesNext ==
  ASSUME OneCandidate, Replicated, AppliedSaved, CommitsHeld, AppliesHeld,
         [Next]_vars
  PROVE  AppliesHeld'
<1> USE DEF Replicated
<1> DEFINE L == Candidate
<1>1. ASSUME NEW i \in Server
      PROVE  /\ Held(log', nextIndex'[L], lastApplied'[i])
             /\ Held(log', nextIndex'[L], batch'[i].upto)
  <2>1. /\ lastApplied[i] \in Nat /\ batch[i].upto \in Nat
        /\ commitIndex[i] \in Nat /\ NoBatch.upto = 0
    BY SmTypes
  <2>2. /\ Held(log', nextIndex'[L], lastApplied[i])
        /\ Held(log', nextIndex'[L], batch[i].upto)
        /\ Held(log', nextIndex'[L], commitIndex[i])
    BY <2>1, HeldNext DEF AppliesHeld, CommitsHeld
  <2>3. Held(log', nextIndex'[L], 0)
    <3>1. /\ \A k \in Server : Len(log'[k]) \in Nat
          /\ \A j \in Follower : nextIndex'[L][j] \in Nat
      BY SlotTypesNext
    <3>2. 0 \in Nat /\ 0 <= lastApplied[i]
      BY <2>1
    <3> QED BY <2>1, <2>2, <3>1, <3>2, HeldLess
  <2>4. /\ lastApplied'[i] \in {lastApplied[i], batch[i].upto}
        /\ batch'[i].upto \in {batch[i].upto, commitIndex[i], 0}
    <3>1. CASE batch'[i] \in {batch[i], NoBatch} /\ lastApplied'[i] = lastApplied[i]
      BY <2>1, <3>1
    <3>2. CASE ApplyStateMachine(i) \/ Apply(i) \/ SetLastApplied(i)
      BY <2>1, <3>2, ApplyEffect
    <3> QED BY <3>1, <3>2, ApplySteps DEF ApplyThread
  <2> QED BY <2>2, <2>3, <2>4
<1>2. ASSUME NEW i \in Reliable PROVE FromLog(applied'[i], log'[L])
  <2>1. i \in Server
    BY ReliableServers
  <2>2. /\ log[L] \in Seq(Entry) /\ log'[L] \in Seq(Entry)
        /\ PrefixOf(log[L], log'[L])
    BY CandidateLog
  <2>3. FromLog(applied[i], log[L])
    BY DEF AppliesHeld
  <2>4. FromLog(applied'[i], log[L])
    <3>1. CASE applied'[i] = applied[i]
      BY <2>3, <3>1
    <3>2. CASE ApplyStateMachine(i) \/ SetLastApplied(i)
      BY <2>1, <2>3, <3>2, ApplyEffect
    <3>3. CASE Apply(i)
      <4> DEFINE k == batch[i].at + 1
                 e == EntryToApply(i, k)
                 new == [index |-> k, entry |-> e]
      <4>1. batch[i].at < batch[i].upto /\ applied'[i] = applied[i] \cup {new}
        BY <2>1, <3>3, ApplyEffect
      <4>2. k \in 1..Len(log[L]) /\ e = log[L][k]
        BY <4>1, EntryApplied
      <4>3. new.index = k /\ new.entry = e
        OBVIOUS
      <4> HIDE DEF new, k, e
      <4> QED BY <2>3, <4>1, <4>2, <4>3 DEF FromLog
    <3> QED BY <2>1, <3>1, <3>2, <3>3, ApplySteps DEF ApplyThread
  <2> QED BY <2>2, <2>4, FromLogGrows
<1> QED BY <1>1, <1>2 DEF AppliesHeld

-----------------------------------------------------------------------------
(* What is answered *)

\* A command is answered when what it appended has been passed by.
Answers ==
  \A c \in Command : cmds[c].stage = "ok" =>
    cmds[c].index <= lastApplied[Candidate]

LEMMA AnswersNext ==
  ASSUME OneCandidate, Replicated, Answers, [Next]_vars,
         \A i \in Server : lastApplied'[i] >= lastApplied[i]
  PROVE  Answers'
<1> USE DEF Replicated
<1>0. /\ Candidate \in Server /\ lastApplied[Candidate] \in Nat
      /\ lastApplied'[Candidate] \in Nat
      /\ lastApplied'[Candidate] >= lastApplied[Candidate]
  BY CandidateStands, TypeParts DEF TypeOK, SmTypeOK
<1> SUFFICES ASSUME NEW c \in Command, cmds'[c].stage = "ok"
             PROVE  cmds'[c].index <= lastApplied'[Candidate]
  BY DEF Answers
<1>1. cmds[c] \in CommandState /\ cmds[c].index \in Nat
  BY TypeParts DEF CommandState, RunningCommand
<1>2. CASE cmds'[c] = cmds[c]
  BY <1>0, <1>1, <1>2 DEF Answers
<1>3. CASE CommandApplied(c)
  <2>1. cmds[c].stage = "waiting" /\ lastApplied[cmds[c].at] >= cmds[c].index
    BY <1>3 DEF CommandApplied
  <2>2. cmds[c].at = Candidate
    BY <2>1 DEF OthersFollow
  <2>3. cmds'[c].index = cmds[c].index
    BY <1>3, CommandEffect DEF IsState
  <2> QED BY <1>0, <1>1, <2>1, <2>2, <2>3
<1>4. cmds'[c] = cmds[c] \/ CommandApplied(c)
  <2>1. CASE UNCHANGED cmds
    BY <2>1
  <2>2. CASE UNCHANGED vars
    BY <2>2 DEF vars
  <2>3. ASSUME NEW i \in Server, ServerStep(i) PROVE cmds'[c] = cmds[c]
    <3>1. CASE Restart(i)
      BY <3>1, RestartCommands
    <3>2. CASE ~Restart(i)
      BY <2>3, <3>2 DEF ServerStep, LaunchCheckLeader, LaunchHeartBeat,
         ApplyStateMachine, Apply, ApplyFails, SetLastApplied, applyFrame
    <3> QED BY <3>1, <3>2
  <2>4. ASSUME NEW i \in Server, NEW j \in Server \ {i}, PeerStep(i, j)
        PROVE  UNCHANGED cmds
    BY <2>4, PeerStepRow
  <2>5. ASSUME NEW r \in InFlight, ReplyRequestVote(r) \/ ReplyAppendEntries(r)
        PROVE  UNCHANGED cmds
    BY <2>5, ServeRow
  <2>6. ASSUME NEW d \in Command, CommandStep(d)
        PROVE  cmds'[c] = cmds[c] \/ CommandApplied(c)
    <3>1. CASE d # c
      BY <2>6, <3>1, CommandEffect
    <3>2. CASE d = c /\ ~CommandApplied(c)
      <4>1. cmds'[c].stage # "ok"
        BY <2>6, <3>2, CommandEffect DEF IsState, CommandStep
      <4> QED BY <4>1
    <3> QED BY <3>1, <3>2
  <2>7. ASSUME NEW i \in Server, HolderStep(i) PROVE UNCHANGED cmds
    BY <2>7, HolderFrame DEF serviceFrame
  <2> QED BY <2>1, <2>2, <2>3, <2>4, <2>5, <2>6, <2>7 DEF Next
<1> QED BY <1>2, <1>3, <1>4

-----------------------------------------------------------------------------
(* The invariant, and what follows from it *)

CommitInv ==
  /\ ReplicationInv
  /\ SavedInv
  /\ BatchAhead
  /\ Placed
  /\ CommitsHeld
  /\ AppliesHeld
  /\ Answers

LEMMA CommitInvInit ==
  ASSUME OneCandidate, Init
  PROVE  CommitInv
<1>1. Answers
  BY DEF Init, Answers
<1>2. BatchAhead
  BY DEF Init, BatchAhead, NoBatch
<1> QED BY <1>1, <1>2, ReplicationInit, SavedInit, PlacedInit, CommitsInit,
           AppliesInit
        DEF CommitInv

LEMMA CommitInvNext ==
  ASSUME OneCandidate, MaxLate = 0, CommitInv, [Next]_vars
  PROVE  CommitInv'
<1> USE DEF CommitInv
<1>1. /\ Replicated /\ ReplicationInv' /\ TypeOK
      /\ SingleStages /\ AppliedSaved
  BY ReplicatedSteps, ReplicationNext DEF Replicated, SavedInv
<1>2. SavedInv'
  BY <1>1, SavedNext
<1>3. commitIndex[Candidate] <= Len(log[Candidate])
  BY CandidateStands DEF CommitsHeld, Held
<1>4. Placed'
  BY <1>1, <1>3, PlacedNext
<1>5. CommitsHeld'
  BY <1>1, CommitsNext
<1>6. AppliesHeld'
  BY <1>1, AppliesNext
<1>7. BatchAhead' /\ \A i \in Server : lastApplied'[i] >= lastApplied[i]
  BY <1>1, BatchNext
<1>8. Answers'
  BY <1>1, <1>7, AnswersNext
<1> QED BY <1>1, <1>2, <1>4, <1>5, <1>6, <1>7, <1>8

\* While one server stands and no request is served late, every server's
\* commit index is in the logs of a majority, for any number of servers: the
\* element of the sorted match indexes that Peer::QuorumMatchIndex picks is
\* one that enough peers have reached and keep, also while ReplyAppendEntries
\* has cut their logs off and not yet appended, and a follower takes over no
\* more than its leader has committed.
THEOREM CommitsOnMajority ==
  ASSUME OneCandidate, MaxLate = 0
  PROVE  Spec => []CommittedOnMajority
<1>1. Init => CommitInv
  BY CommitInvInit
<1>2. CommitInv /\ [Next]_vars => CommitInv'
  BY CommitInvNext
<1>3. CommitInv => CommittedOnMajority
  <2> SUFFICES ASSUME CommitInv, NEW i \in Server
               PROVE  IsMajority({j \in Server : Len(log[j]) >= commitIndex[i]})
    BY DEF CommittedOnMajority
  <2> DEFINE Q == Holding(log, nextIndex[Candidate], commitIndex[i])
             R == {j \in Server : Len(log[j]) >= commitIndex[i]}
  <2>1. TypeOK /\ Held(log, nextIndex[Candidate], commitIndex[i])
    BY DEF CommitInv, ReplicationInv, PrefixInv, ElectionInv, CommitsHeld
  <2>2. IsMajority(Q) /\ commitIndex[i] <= Len(log[Candidate])
    BY <2>1 DEF Held
  <2>3. Q \subseteq R /\ Q \in SUBSET Server /\ R \in SUBSET Server
    BY <2>1, <2>2, SlotTypes DEF Holding, Keeps
  <2> HIDE DEF Q, R
  <2>4. IsMajority(R)
    BY <2>2, <2>3, MajorityGrows
  <2> QED BY <2>4 DEF R
<1> QED BY <1>1, <1>2, <1>3, PTL DEF Spec

\* While one of at most two servers stands and no request is served late, both
\* servers apply the same entry at an index, and apply it again after a crash
\* or a failed Apply in the middle of ApplyStateMachine: the loop never asks
\* for an index its log does not have, so the Entry object of the turn before,
\* which GetEntry leaves behind when it finds nothing, is never applied.  With
\* three servers this does not hold: an index may be committed by two of them
\* while the third is about to be sent again what it has, and cuts it off.
THEOREM StateMachinesAgree ==
  ASSUME OneCandidate, MaxLate = 0, Cardinality(Server) <= 2
  PROVE  Spec => []StateMachineSafety
<1>1. Init => CommitInv
  BY CommitInvInit
<1>2. CommitInv /\ [Next]_vars => CommitInv'
  BY CommitInvNext
<1>3. CommitInv => StateMachineSafety
  BY DEF CommitInv, AppliesHeld, FromLog, StateMachineSafety, Reliable
<1> QED BY <1>1, <1>2, <1>3, PTL DEF Spec

\* While one server stands and no request is served late, a command that was
\* answered ok is what its server applied at the command's index: ExecuteCommand
\* waits for an index only, and no other entry ever takes that index.
THEOREM AnswersApplied ==
  ASSUME OneCandidate, MaxLate = 0
  PROVE  Spec => []AckedIsApplied
<1>1. Init => CommitInv
  BY CommitInvInit
<1>2. CommitInv /\ [Next]_vars => CommitInv'
  BY CommitInvNext
<1>3. CommitInv => AckedIsApplied
  <2> SUFFICES ASSUME CommitInv, NEW c \in Command, cmds[c].stage = "ok"
               PROVE  \E a \in applied[cmds[c].at] :
                        a.index = cmds[c].index /\ a.entry.cmd = c
    BY DEF AckedIsApplied
  <2> DEFINE L == Candidate
             n == cmds[c].index
  <2>1. L \in Server /\ cmds[c].at = L /\ TypeOK
    BY CandidateStands
       DEF CommitInv, ReplicationInv, PrefixInv, OthersFollow, ElectionInv
  <2>2. n \in 1..Len(log[L]) /\ log[L][n].cmd = c
    BY DEF CommitInv, Placed, PlacedIn
  <2>3. n <= lastApplied[L] /\ lastApplied[L] \in Nat /\ Len(log[L]) \in Nat
    BY <2>1, SmTypes, SlotTypes DEF CommitInv, Answers
  <2>4. n \in 1..lastApplied[L]
    BY <2>2, <2>3
  <2>5. PICK a \in applied[L] : a.index = n
    BY <2>1, <2>4 DEF CommitInv, SavedInv, AppliedSaved, AppliedUpTo
  <2>6. a.entry = log[L][n]
    BY <2>5, ReliableServers DEF CommitInv, AppliesHeld, FromLog
  <2> QED BY <2>1, <2>2, <2>5, <2>6
<1> QED BY <1>1, <1>2, <1>3, PTL DEF Spec

\* While one server stands and no request is served late, a command that was
\* answered ok is in the logs of a majority, which keeps it.
THEOREM AnswersOnMajority ==
  ASSUME OneCandidate, MaxLate = 0
  PROVE  Spec => []AckedOnMajority
<1>1. Init => CommitInv
  BY CommitInvInit
<1>2. CommitInv /\ [Next]_vars => CommitInv'
  BY CommitInvNext
<1>3. CommitInv => AckedOnMajority
  <2> SUFFICES ASSUME CommitInv, NEW c \in Command, cmds[c].stage = "ok"
               PROVE  IsMajority({j \in Server :
                        \E k \in 1..Len(log[j]) : log[j][k].cmd = c})
    BY DEF AckedOnMajority
  <2> DEFINE L == Candidate
             n == cmds[c].index
             Q == Holding(log, nextIndex[L], lastApplied[L])
             R == {j \in Server : \E k \in 1..Len(log[j]) : log[j][k].cmd = c}
  <2>1. /\ L \in Server /\ TypeOK /\ PartsSent
        /\ R \in SUBSET Server /\ Q \in SUBSET Server
    BY CandidateStands
       DEF CommitInv, ReplicationInv, PrefixInv, ElectionInv, Holding
  <2>2. n \in 1..Len(log[L]) /\ log[L][n].cmd = c
    BY DEF CommitInv, Placed, PlacedIn
  <2>3. /\ n <= lastApplied[L] /\ lastApplied[L] \in Nat
        /\ Len(log[L]) \in Nat /\ IsMajority(Q)
    BY <2>1, SmTypes, SlotTypes DEF CommitInv, Answers, AppliesHeld, Held
  <2>4. ASSUME NEW j \in Q PROVE j \in R
    <3>1. CASE j = L
      BY <2>1, <2>2, <3>1
    <3>2. CASE j # L
      <4>1. /\ j \in Server /\ Len(log[j]) \in Nat
            /\ lastApplied[L] <= Len(log[j])
        BY <2>1, <3>2, SlotTypes DEF Holding, Keeps
      <4>2. n \in 1..Len(log[j])
        BY <2>2, <2>3, <4>1
      <4>3. log[j][n] = log[L][n]
        BY <2>1, <4>1, <4>2 DEF PartsSent, PrefixOf
      <4> QED BY <2>2, <4>1, <4>2, <4>3
    <3> QED BY <3>1, <3>2
  <2> HIDE DEF Q, R
  <2>5. IsMajority(R)
    BY <2>1, <2>3, <2>4, MajorityGrows
  <2> QED BY <2>5 DEF R
<1> QED BY <1>1, <1>2, <1>3, PTL DEF Spec

-----------------------------------------------------------------------------
(* The contract *)

\* What is in log t are commands, each at the index it was given.
Numbered(cm, t) ==
  \A k \in 1..Len(t) : /\ t[k].cmd \in Command
                       /\ cm[t[k].cmd].stage \notin {"new", "checked", "built"}
                       /\ cm[t[k].cmd].index = k

LEMMA NumberedInit == OneCandidate /\ Init => Numbered(cmds, log[Candidate])
<1> SUFFICES ASSUME OneCandidate, Init PROVE Numbered(cmds, log[Candidate])
  OBVIOUS
<1>1. Len(log[Candidate]) = 0
  BY CandidateStands DEF Init
<1> QED BY <1>1 DEF Numbered

\* A command is appended once: the thread that did it does not come back.
LEMMA NumberedNext ==
  ASSUME OneCandidate, Replicated, Numbered(cmds, log[Candidate]), [Next]_vars
  PROVE  Numbered(cmds', log'[Candidate])
<1> USE DEF Replicated
<1> DEFINE L == Candidate
           Early == {"new", "checked", "built"}
<1>0. L \in Server /\ log[L] \in Seq(Entry) /\ Len(log[L]) \in Nat
  BY SlotTypes
<1>1. ASSUME log'[L] = log[L],
             \A c \in Command : /\ cmds'[c].index = cmds[c].index
                                /\ cmds'[c].stage \in Early =>
                                     cmds[c].stage \in Early
      PROVE  Numbered(cmds', log'[L])
  BY <1>1 DEF Numbered
<1>2. ASSUME UNCHANGED cmds, log'[L] = log[L] PROVE Numbered(cmds', log'[L])
  BY <1>2 DEF Numbered
<1>3. CASE UNCHANGED vars
  BY <1>2, <1>3 DEF vars, logVars
<1>4. ASSUME NEW i \in Server, ServerStep(i) PROVE Numbered(cmds', log'[L])
  <2>1. CASE Restart(i)
    <3>1. UNCHANGED log
      BY <2>1 DEF Restart
    <3>2. \A c \in Command : /\ cmds'[c].index = cmds[c].index
                             /\ cmds'[c].stage \in Early =>
                                  cmds[c].stage \in Early
      BY <2>1, RestartCommands
    <3> QED BY <1>1, <3>1, <3>2
  <2>2. CASE ~Restart(i)
    BY <1>2, <1>4, <2>2 DEF ServerStep, LaunchCheckLeader, LaunchHeartBeat,
       ApplyStateMachine, Apply, ApplyFails, SetLastApplied, applyFrame, logVars
  <2> QED BY <2>1, <2>2
<1>5. ASSUME NEW i \in Server, NEW j \in Server \ {i}, PeerStep(i, j)
      PROVE  Numbered(cmds', log'[L])
  BY <1>2, <1>5, PeerStepRow
<1>6. ASSUME NEW r \in InFlight, ReplyRequestVote(r) \/ ReplyAppendEntries(r)
      PROVE  Numbered(cmds', log'[L])
  <2>1. r.to # L
    BY InFlightSlot DEF Follower
  <2> QED BY <1>0, <1>2, <1>6, <2>1, ServeRow
<1>7. ASSUME NEW c \in Command, CommandStep(c) PROVE Numbered(cmds', log'[L])
  <2>1. \A d \in Command \ {c} : cmds'[d] = cmds[d]
    BY <1>7, CommandEffect
  <2>2. CASE ExecuteCommand(c)
    <3> DEFINE e == [term |-> cmds[c].read, cmd |-> c]
    <3>1. /\ cmds[c].at = L /\ e \in Entry /\ e.cmd = c
          /\ log'[L] = Append(log[L], e) /\ cmds[c].stage = "built"
      BY <2>2, ExecuteEffect
    <3>2. /\ cmds'[c].stage \in {"appended", "waiting"}
          /\ cmds'[c].index = Len(log[L]) + 1
      BY <2>2, <3>1, CommandEffect DEF IsState
    <3> HIDE DEF e
    <3>3. /\ Len(log'[L]) = Len(log[L]) + 1 /\ log'[L][Len(log[L]) + 1] = e
          /\ \A k \in 1..Len(log[L]) : log'[L][k] = log[L][k]
      BY <1>0, <3>1, AppendPrefix DEF PrefixOf
    <3>4. ASSUME NEW k \in 1..Len(log'[L])
          PROVE  /\ log'[L][k].cmd \in Command
                 /\ cmds'[log'[L][k].cmd].stage \notin Early
                 /\ cmds'[log'[L][k].cmd].index = k
      <4>1. CASE k = Len(log[L]) + 1
        BY <3>1, <3>2, <3>3, <4>1
      <4>2. CASE k \in 1..Len(log[L])
        <5>1. log'[L][k].cmd \in Command \ {c}
          BY <3>1, <3>3, <4>2 DEF Numbered
        <5> QED BY <2>1, <3>3, <4>2, <5>1 DEF Numbered
      <4> QED BY <1>0, <3>3, <4>1, <4>2
    <3> QED BY <3>4 DEF Numbered
  <2>3. CASE ~ExecuteCommand(c)
    <3>1. UNCHANGED log
      BY <1>7, <2>3, CommandKeepsLog
    <3>2. /\ cmds'[c].index = cmds[c].index
          /\ cmds'[c].stage \in Early => cmds[c].stage \in Early
      <4>1. CASE \E i \in Server : DoCommand(c, i)
        BY <4>1, CommandEffect DEF IsState, DoCommand
      <4>2. CASE BuildLogEntry(c)
        BY <4>2, CommandEffect DEF IsState, BuildLogEntry
      <4>3. CASE \/ CommitSingle(c) \/ RereadCommitIndex(c)
                 \/ SaveCommitIndex(c) \/ CommandApplied(c) \/ CommandTimeout(c)
        BY <4>3, CommandEffect DEF IsState
      <4> QED BY <1>7, <2>3, <4>1, <4>2, <4>3 DEF CommandStep
    <3>3. \A d \in Command : /\ cmds'[d].index = cmds[d].index
                             /\ cmds'[d].stage \in Early =>
                                  cmds[d].stage \in Early
      BY <2>1, <3>2
    <3> QED BY <1>1, <3>1, <3>3
  <2> QED BY <2>2, <2>3
<1>8. ASSUME NEW i \in Server, HolderStep(i) PROVE Numbered(cmds', log'[L])
  <2>1. UNCHANGED cmds
    BY <1>8, HolderFrame DEF serviceFrame
  <2>2. log'[L] = log[L]
    <3>1. CASE i # L
      BY <1>0, <1>8, <3>1, HolderRow
    <3>2. CASE i = L
      <4>1. ~Serving(mu[L])
        BY <1>0, HolderFollows DEF Follower
      <4> QED BY <1>8, <3>2, <4>1 DEF HolderStep, AppendReceived, Serving,
                  AdvanceFollowerCommitIndex, SaveFollowerCommitIndex,
                  SaveLeaderCommitIndex
    <3> QED BY <3>1, <3>2
  <2> QED BY <1>2, <2>1, <2>2
<1> QED BY <1>3, <1>4, <1>5, <1>6, <1>7, <1>8 DEF Next

\* The commands in log t.
OrderOf(t) == [k \in 1..Len(t) |-> t[k].cmd]

LEMMA LeadingIsCandidate ==
  ASSUME OneCandidate
  PROVE  Leading = Candidate
  BY CandidateStands DEF Leading

LEMMA OrderParts ==
  ASSUME OneCandidate
  PROVE  Order = OrderOf(log[Candidate]) /\ Order' = OrderOf(log'[Candidate])
  BY LeadingIsCandidate DEF Order, OrderOf

LEMMA OrderOfLog ==
  ASSUME NEW t \in Seq(Entry)
  PROVE  /\ OrderOf(t) \in Seq(Command \cup {Nil})
         /\ Len(OrderOf(t)) = Len(t)
         /\ \A k \in 1..Len(t) : OrderOf(t)[k] = t[k].cmd
<1>1. Len(t) \in Nat /\ \A k \in 1..Len(t) : t[k] \in Entry
  BY LenProperties, ElementOfSeq
<1>2. \A k \in 1..Len(t) : t[k].cmd \in Command \cup {Nil}
  BY <1>1 DEF Entry
<1>3. OrderOf(t) \in [1..Len(t) -> Command \cup {Nil}]
  BY <1>2 DEF OrderOf
<1> QED BY <1>1, <1>3, SeqDef, LenProperties DEF OrderOf

\* An order only grows while the log does.
LEMMA OrderExtends ==
  ASSUME NEW t \in Seq(Entry), NEW u \in Seq(Entry), PrefixOf(t, u)
  PROVE  Cluster!Extends(OrderOf(t), OrderOf(u))
<1> DEFINE s == OrderOf(t)
           r == OrderOf(u)
           n == Len(t)
           p == SubSeq(r, 1, n)
<1> SUFFICES Cluster!Extends(s, r)
  OBVIOUS
<1>0. n \in Nat /\ Len(u) \in Nat /\ n <= Len(u)
  BY LenProperties DEF PrefixOf
<1>1. /\ s \in Seq(Command \cup {Nil}) /\ Len(s) = n
      /\ \A k \in 1..n : s[k] = t[k].cmd
  BY OrderOfLog
<1>2. /\ r \in Seq(Command \cup {Nil}) /\ Len(r) = Len(u)
      /\ \A k \in 1..Len(u) : r[k] = u[k].cmd
  BY OrderOfLog
<1>3. \A k \in 1..n : t[k] = u[k]
  BY DEF PrefixOf
<1> HIDE DEF s, r, n
<1>4. /\ p \in Seq(Command \cup {Nil}) /\ Len(p) = n
      /\ \A k \in 1..n : p[k] = r[k]
  BY <1>0, <1>2, SubSeqProperties
<1>5. \A k \in 1..n : s[k] = p[k]
  BY <1>0, <1>1, <1>2, <1>3, <1>4
<1> HIDE DEF p
<1>6. s = p
  BY <1>1, <1>4, <1>5, SeqEqual
<1> QED BY <1>0, <1>1, <1>2, <1>6 DEF Cluster!Extends, p

\* What has a place keeps it.
LEMMA OrderGrows ==
  ASSUME OneCandidate, Replicated, [Next]_vars
  PROVE  /\ Cluster!Extends(Order, Order')
         /\ Len(Order) \in Nat /\ Len(Order') = Len(log'[Candidate])
         /\ \A k \in 1..Len(Order') : Order'[k] = log'[Candidate][k].cmd
<1> DEFINE t == log[Candidate]
           u == log'[Candidate]
<1>1. /\ t \in Seq(Entry) /\ u \in Seq(Entry) /\ PrefixOf(t, u)
      /\ Len(t) \in Nat
  BY CandidateLog
<1>2. Order = OrderOf(t) /\ Order' = OrderOf(u)
  BY OrderParts
<1> SUFFICES /\ Cluster!Extends(Order, Order')
             /\ Len(Order) \in Nat /\ Len(Order') = Len(u)
             /\ \A k \in 1..Len(Order') : Order'[k] = u[k].cmd
  OBVIOUS
<1> HIDE DEF t, u
<1> QED BY <1>1, <1>2, OrderExtends, OrderOfLog

\* Where nothing is issued, applied or answered, commands get their place, or
\* nothing happens.
LEMMA ClusterCommits ==
  ASSUME OneCandidate, Replicated, [Next]_vars,
         Numbered(cmds', log'[Candidate]),
         UNCHANGED <<Issued, Store, AnsweredOk>>
  PROVE  Cluster!Commit
<1> DEFINE u == log'[Candidate]
<1>1. /\ Cluster!Extends(Order, Order')
      /\ Len(Order) \in Nat /\ Len(Order') = Len(u)
      /\ \A k \in 1..Len(Order') : Order'[k] = u[k].cmd
  BY OrderGrows
<1>2. Len(u) \in Nat
  BY SlotTypesNext DEF Replicated
<1>3. \A k \in 1..Len(Order') : /\ u[k].cmd \in Command
                                /\ cmds'[u[k].cmd].stage # "new"
                                /\ cmds'[u[k].cmd].index = k
  BY <1>1 DEF Numbered
<1>4. \A k \in Len(Order) + 1 .. Len(Order') :
        /\ Order'[k] \in Issued
        /\ \A l \in 1..Len(Order') : Order'[l] = Order'[k] => l = k
  <2> SUFFICES ASSUME NEW k \in Len(Order) + 1 .. Len(Order')
               PROVE  /\ Order'[k] \in Issued'
                      /\ \A l \in 1..Len(Order') : Order'[l] = Order'[k] => l = k
    OBVIOUS
  <2>1. k \in 1..Len(Order')
    BY <1>1, <1>2
  <2>2. Order'[k] \in Issued'
    BY <1>1, <1>3, <2>1 DEF Issued
  <2>3. ASSUME NEW l \in 1..Len(Order'), Order'[l] = Order'[k] PROVE l = k
    BY <1>1, <1>3, <2>1, <2>3
  <2> QED BY <2>2, <2>3
<1> QED BY <1>1, <1>4 DEF Cluster!Commit

\* The two steps of the apply thread and of a client that the contract knows.
LEMMA ClusterIssues ==
  ASSUME OneCandidate, TypeOK, NEW c \in Command, NEW i \in Server,
         DoCommand(c, i)
  PROVE  Cluster!Issue(c)
<1>1. /\ cmds[c].stage = "new" /\ cmds'[c].stage = "checked"
      /\ \A d \in Command \ {c} : cmds'[d] = cmds[d]
  BY CommandEffect DEF IsState, DoCommand, CommandStep
<1>2. UNCHANGED <<log, applied>>
  BY DEF DoCommand, logVars, commandFrame, smVars
<1>3. c \notin Issued /\ Issued' = Issued \cup {c}
  BY <1>1 DEF Issued
<1>4. AnsweredOk' = AnsweredOk
  BY <1>1 DEF AnsweredOk
<1>5. Order' = Order
  BY <1>2, OrderParts
<1>6. Store' = Store
  BY <1>2 DEF Store
<1> QED BY <1>3, <1>4, <1>5, <1>6 DEF Cluster!Issue

LEMMA ClusterAnswers ==
  ASSUME OneCandidate, CommitInv, NEW c \in Command, CommandApplied(c)
  PROVE  Cluster!Answer(c)
<1> DEFINE L == Candidate
           n == cmds[c].index
<1>1. TypeOK /\ OthersFollow
  BY DEF CommitInv, ReplicationInv, PrefixInv, ElectionInv
<1>2. /\ cmds[c].stage = "waiting" /\ cmds'[c].stage = "ok"
      /\ \A d \in Command \ {c} : cmds'[d] = cmds[d]
  BY <1>1, CommandEffect DEF IsState, CommandApplied, CommandStep
<1>3. cmds[c].at = L /\ L \in Server /\ lastApplied[L] >= n
  BY <1>1, <1>2, CandidateStands DEF OthersFollow, CommandApplied
<1>4. n \in 1..Len(log[L]) /\ log[L][n].cmd = c
  BY <1>2 DEF CommitInv, Placed, PlacedIn
<1>5. lastApplied[L] \in Nat /\ Len(log[L]) \in Nat
  BY <1>1, <1>3, SmTypes, SlotTypes
<1>6. PICK a \in applied[L] : a.index = n
  BY <1>3, <1>4, <1>5 DEF CommitInv, SavedInv, AppliedSaved, AppliedUpTo
<1>7. a.entry.cmd = c
  BY <1>4, <1>6, ReliableServers DEF CommitInv, AppliesHeld, FromLog
<1>8. \E i \in Reliable : \E b \in Store[i] : b.cmd = c
  <2> DEFINE b == [index |-> a.index, cmd |-> a.entry.cmd]
  <2>1. L \in Reliable /\ b \in Store[L] /\ b.cmd = c
    BY <1>6, <1>7, ReliableServers DEF Store
  <2> QED BY <2>1
<1>9. UNCHANGED <<log, applied>>
  BY DEF CommandApplied, logVars, commandFrame, smVars
<1>10. Issued' = Issued /\ AnsweredOk' = AnsweredOk \cup {c}
  BY <1>2 DEF Issued, AnsweredOk
<1>11. Order' = Order
  BY <1>9, OrderParts
<1>12. Store' = Store
  BY <1>9 DEF Store
<1> QED BY <1>8, <1>10, <1>11, <1>12 DEF Cluster!Answer

LEMMA ClusterApplies ==
  ASSUME OneCandidate, CommitInv, NEW i \in Reliable, Apply(i)
  PROVE  Cluster!Apply(i)
<1> DEFINE L == Candidate
           k == batch[i].at + 1
           entry == EntryToApply(i, k)
           new == [index |-> k, entry |-> entry]
           put == [index |-> k, cmd |-> entry.cmd]
<1>1. /\ TypeOK /\ PartsSent /\ SmTypeOK /\ AppliesHeld
      /\ i \in Server /\ L \in Server /\ Reliable \subseteq Server
  BY TypeParts, ReliableServers, CandidateStands
     DEF CommitInv, ReplicationInv, PrefixInv, ElectionInv
<1>2. /\ log[L] \in Seq(Entry) /\ Len(log[L]) \in Nat /\ batch[i].at \in Nat
  BY <1>1, SlotTypes, SmTypes
<1>3. /\ applied' = [applied EXCEPT ![i] = @ \cup {new}]
      /\ batch[i].at < batch[i].upto
      /\ UNCHANGED <<log, cmds>>
  BY DEF Apply, applyFrame, logVars
<1>4. AppliedUpTo(batch[i].at, applied[i])
  BY <1>1 DEF CommitInv, SavedInv, AppliedSaved
<1>5. k \in 1..Len(log[L]) /\ entry = log[L][k]
  BY <1>1, <1>3, EntryApplied
<1>6. k \in 1..Len(Order) /\ Order[k] = entry.cmd
  <2> HIDE DEF entry, k
  <2> QED BY <1>2, <1>5, OrderParts, OrderOfLog
<1>7. \A l \in 1..k - 1 : \E a \in Store[i] : a.index = l
  <2> SUFFICES ASSUME NEW l \in 1..k - 1 PROVE \E a \in Store[i] : a.index = l
    OBVIOUS
  <2>1. PICK a \in applied[i] : a.index = l
    BY <1>2, <1>4 DEF AppliedUpTo
  <2> DEFINE b == [index |-> a.index, cmd |-> a.entry.cmd]
  <2>2. b \in Store[i] /\ b.index = l
    BY <2>1 DEF Store
  <2> QED BY <2>2
<1>8. Store' = [Store EXCEPT ![i] = @ \cup {put}]
  <2>1. new.index = k /\ new.entry = entry
    OBVIOUS
  <2>2. put = [index |-> new.index, cmd |-> new.entry.cmd]
    BY <2>1
  <2> HIDE DEF new, put, entry, k
  <2> QED BY <1>1, <1>3, <2>2 DEF Store, SmTypeOK
<1>9. Order' = Order
  BY <1>3, OrderParts
<1>10. Issued' = Issued /\ AnsweredOk' = AnsweredOk
  BY <1>3 DEF Issued, AnsweredOk
<1> SUFFICES Cluster!Apply(i)
  OBVIOUS
<1>11. put = [index |-> k, cmd |-> Order[k]]
  BY <1>6
<1> HIDE DEF k, put, entry, new
<1> QED BY <1>6, <1>7, <1>8, <1>9, <1>10, <1>11 DEF Cluster!Apply

ClusterInv == CommitInv /\ Numbered(cmds, log[Candidate])

LEMMA ClusterInit == OneCandidate /\ Init => Cluster!Init
<1> SUFFICES ASSUME OneCandidate, Init PROVE Cluster!Init
  OBVIOUS
<1>1. Issued = {} /\ AnsweredOk = {}
  BY DEF Init, Issued, AnsweredOk
<1>2. Store = [i \in Reliable |-> {}]
  BY ReliableServers DEF Init, Store
<1>3. Candidate \in Server
  BY CandidateStands
<1>4. Order = <<>>
  <2>1. Order = OrderOf(log[Candidate])
    BY OrderParts
  <2>2. log[Candidate] \in Seq(Entry) /\ Len(log[Candidate]) = 0
    BY <1>3 DEF Init
  <2>3. Order \in Seq(Command \cup {Nil}) /\ Len(Order) = 0
    BY <2>1, <2>2, OrderOfLog
  <2> QED BY <2>3, EmptySeq
<1> QED BY <1>1, <1>2, <1>4 DEF Cluster!Init

LEMMA ClusterNext ==
  ASSUME OneCandidate, MaxLate = 0, ClusterInv, [Next]_vars
  PROVE  ClusterInv' /\ [Cluster!Next]_(Cluster!vars)
<1> USE DEF ClusterInv
<1>1. Replicated /\ TypeOK
  BY ReplicatedSteps DEF CommitInv, Replicated
<1>2. CommitInv' /\ Numbered(cmds', log'[Candidate])
  BY <1>1, CommitInvNext, NumberedNext
<1>3. Reliable \subseteq Server
  BY ReliableServers
<1>4. ASSUME \A i \in Reliable : applied'[i] = applied[i],
             UNCHANGED <<Issued, AnsweredOk>>
      PROVE  Cluster!Next
  <2>1. Store' = Store
    BY <1>4 DEF Store
  <2>2. Cluster!Commit
    BY <1>1, <1>2, <1>4, <2>1, ClusterCommits
  <2> QED BY <2>2 DEF Cluster!Next
<1>5. ASSUME UNCHANGED <<applied, cmds>> PROVE Cluster!Next
  BY <1>4, <1>5 DEF Issued, AnsweredOk
<1>6. ASSUME UNCHANGED vars PROVE Cluster!Next
  BY <1>5, <1>6 DEF vars, smVars
<1>7. ASSUME NEW i \in Server, ServerStep(i) PROVE Cluster!Next
  <2>1. CASE Restart(i)
    <3>1. UNCHANGED applied
      BY <2>1 DEF Restart
    <3>2. \A c \in Command : /\ cmds'[c].stage = "new" <=> cmds[c].stage = "new"
                             /\ cmds'[c].stage = "ok" <=> cmds[c].stage = "ok"
      BY <1>1, <2>1, RestartCommands
    <3>3. UNCHANGED <<Issued, AnsweredOk>>
      BY <3>2 DEF Issued, AnsweredOk
    <3> QED BY <1>4, <3>1, <3>3
  <2>2. CASE Apply(i)
    <3>1. CASE i \in Reliable
      <4>1. Cluster!Apply(i)
        BY <2>2, <3>1, ClusterApplies
      <4> QED BY <3>1, <4>1 DEF Cluster!Next
    <3>2. CASE i \notin Reliable
      <4>1. UNCHANGED cmds /\ applied \in [Server -> SUBSET [index : Nat,
                                                            entry : Entry]]
        BY <1>1, <2>2, TypeParts DEF Apply, applyFrame, SmTypeOK
      <4>2. \A k \in Reliable : applied'[k] = applied[k]
        BY <1>3, <2>2, <3>2, <4>1 DEF Apply
      <4> QED BY <1>4, <4>1, <4>2 DEF Issued, AnsweredOk
    <3> QED BY <3>1, <3>2
  <2>3. CASE ~Restart(i) /\ ~Apply(i)
    BY <1>5, <1>7, <2>3 DEF ServerStep, LaunchCheckLeader, LaunchHeartBeat,
       ApplyStateMachine, ApplyFails, SetLastApplied, applyFrame, smVars
  <2> QED BY <2>1, <2>2, <2>3
<1>8. ASSUME NEW i \in Server, NEW j \in Server \ {i}, PeerStep(i, j)
      PROVE  Cluster!Next
  BY <1>1, <1>5, <1>8, PeerStepRow DEF smVars
<1>9. ASSUME NEW r \in InFlight, ReplyRequestVote(r) \/ ReplyAppendEntries(r)
      PROVE  Cluster!Next
  BY <1>1, <1>5, <1>9, ServeRow DEF smVars
<1>10. ASSUME NEW c \in Command, CommandStep(c) PROVE Cluster!Next
  <2>1. CASE \E i \in Server : DoCommand(c, i)
    <3>1. Cluster!Issue(c)
      BY <1>1, <2>1, ClusterIssues
    <3> QED BY <3>1 DEF Cluster!Next
  <2>2. CASE CommandApplied(c)
    <3>1. Cluster!Answer(c)
      BY <2>2, ClusterAnswers
    <3> QED BY <3>1 DEF Cluster!Next
  <2>3. CASE ~CommandApplied(c) /\ ~\E i \in Server : DoCommand(c, i)
    <3>1. /\ cmds[c].stage \notin {"new", "ok"}
          /\ cmds'[c].stage \notin {"new", "ok"}
      BY <1>1, <1>10, <2>3, CommandEffect
         DEF IsState, CommandStep, BuildLogEntry, ExecuteCommand, CommitSingle,
             RereadCommitIndex, SaveCommitIndex, CommandTimeout
    <3>2. \A d \in Command \ {c} : cmds'[d] = cmds[d]
      BY <1>1, <1>10, CommandEffect
    <3>3. UNCHANGED <<Issued, AnsweredOk>>
      BY <3>1, <3>2 DEF Issued, AnsweredOk
    <3>4. UNCHANGED applied
      BY <1>10, CommandLeaves DEF commandFrame, smVars
    <3> QED BY <1>4, <3>3, <3>4
  <2> QED BY <2>1, <2>2, <2>3
<1>11. ASSUME NEW i \in Server, HolderStep(i) PROVE Cluster!Next
  BY <1>5, <1>11, HolderFrame DEF serviceFrame, smVars
<1> QED BY <1>2, <1>6, <1>7, <1>8, <1>9, <1>10, <1>11 DEF Next

\* While one server stands and no request is served late, a cluster keeps its
\* contract, with all its servers when they are at most two and with its leader
\* when they are more.  A step of FloydImpl::ExecuteCommand, of the apply thread
\* or of a peer thread issues a command, gives it its place, applies it or
\* answers it, or is none of the steps of the contract; and a crash takes
\* nothing back, also when it comes between a commit index and its save.
THEOREM ClusterImplements ==
  ASSUME OneCandidate, MaxLate = 0
  PROVE  Spec => ImplementsCluster
<1>1. Init => ClusterInv /\ Cluster!Init
  BY CommitInvInit, NumberedInit, ClusterInit DEF ClusterInv
<1>2. ClusterInv /\ [Next]_vars => ClusterInv' /\ [Cluster!Next]_(Cluster!vars)
  BY ClusterNext
<1> QED BY <1>1, <1>2, PTL DEF Spec, ImplementsCluster, Cluster!Spec


-----------------------------------------------------------------------------
(* No commit index goes back *)

\* The commit index a request carries is within the entries it carries, or
\* there are as many of them as a request may have.
Batched(c) ==
  /\ Appending(c) => Len(c.req.entries) <= BatchSize
  /\ c.stage = "header" => c.req.leaderCommit <= c.last
  /\ Appending(c) /\ c.stage = "sent" =>
       \/ c.req.leaderCommit <= ReplicatedBy(c.req)
       \/ Len(c.req.entries) = BatchSize

\* A follower with slot c and holder h has committed ci and saved mc; top is
\* what the candidate has saved.
Capped(c, h, ci, mc, top) ==
  /\ mc <= ci /\ ci <= top
  /\ Appending(c) => c.req.leaderCommit <= top
  /\ Serving(h) => h.req.leaderCommit <= top

\* A request that is not yet served tells of no less than the follower knows
\* or is about to know.
Newer(c, h, ci) ==
  Appending(c) /\ c.stage \in {"header", "sent"} =>
    /\ ci <= c.req.leaderCommit
    /\ Serving(h) => h.req.leaderCommit <= c.req.leaderCommit

\* A follower has committed at most one request's entries more than the end
\* of its log and the next entry it will be sent.
Near(s, next, n) == n <= Len(s) + BatchSize /\ n < next + BatchSize

\* What is being served was sent from where the peer thread is, or before.
Behind(h, next) ==
  Serving(h) => h.req.prevLogIndex < next /\ Len(h.req.entries) <= BatchSize

\* What is being served takes the commit index no way back.
Within(h, ci) ==
  h.at \in {"cut", "appended"} =>
    ci <= h.req.leaderCommit /\ ci <= ReplicatedBy(h.req)

CommitsRise ==
  /\ metaCommit[Candidate] <= commitIndex[Candidate]
  /\ \A j \in Follower :
       /\ Batched(call[Candidate][j])
       /\ Capped(call[Candidate][j], mu[j], commitIndex[j], metaCommit[j],
                 metaCommit[Candidate])
       /\ Newer(call[Candidate][j], mu[j], commitIndex[j])
       /\ Near(log[j], nextIndex[Candidate][j], commitIndex[j])
       /\ Behind(mu[j], nextIndex[Candidate][j])
       /\ Within(mu[j], commitIndex[j])

LEMMA RiseInit == OneCandidate /\ Init => CommitsRise
<1> SUFFICES ASSUME OneCandidate, Init PROVE CommitsRise
  OBVIOUS
<1>1. \A i \in Server : commitIndex[i] = 0 /\ metaCommit[i] = 0
  BY DEF Init
<1>2. \A j \in Follower : /\ j \in Server /\ call[Candidate][j] = Idle
                          /\ mu[j] = Free /\ log[j] = <<>>
                          /\ nextIndex[Candidate][j] = 1
  BY CandidateStands DEF Init, Follower
<1>3. ~Appending(Idle) /\ ~Serving(Free) /\ Idle.stage = "idle" /\ Free.at = "free"
  BY DEF Appending, Idle, Serving, Free
<1>4. BatchSize \in Nat \ {0} /\ Len(<<>>) = 0
  BY BoundAssumption
<1> QED BY <1>1, <1>2, <1>3, <1>4, CandidateStands
        DEF CommitsRise, Batched, Capped, Newer, Near, Behind, Within

\* What happens to the request of a peer thread.
LEMMA RequestSteps ==
  ASSUME OneCandidate, Replicated, [Next]_vars, NEW j \in Follower
  PROVE  LET c == call[Candidate][j]
             d == call'[Candidate][j]
         IN \/ d = c
            \/ ~Appending(d) /\ d.stage # "header"
            \/ /\ c.stage \in {"sent", "serving"}
               /\ d.stage \in {"serving", "replied"} /\ d.req = c.req
            \/ AppendEntriesRPC(Candidate, j)
            \/ AppendEntriesRead(Candidate, j)
<1> USE DEF Replicated
<1> DEFINE L == Candidate
           c == call[L][j]
           d == call'[L][j]
<1>0. L \in Server /\ j \in Server
  BY SlotTypes
<1>1. CASE d = Idle
  BY <1>1 DEF Appending, Idle
<1>2. CASE PeerStep(L, j)
  <2>1. CASE AppendEntriesSkip(L, j)
    BY <2>1 DEF AppendEntriesSkip, netVars
  <2>2. CASE RequestVoteRPC(L, j)
    BY <1>0, <2>2, RequestVoteRPCEffect DEF Voting, Appending
  <2>3. CASE \/ RequestVoteReply(L, j) \/ AppendEntriesReply(L, j)
             \/ SendAndRecvFails(L, j)
    <3>1. d = Idle
      BY <1>0, <2>3, TypeParts DEF RequestVoteReply, AppendEntriesReply,
                                  SendAndRecvFails, NetTypeOK
    <3> QED BY <1>1, <3>1
  <2> QED BY <1>2, <2>1, <2>2, <2>3 DEF PeerStep
<1> QED BY <1>1, <1>2, SlotMoves

LEMMA BatchedNext ==
  ASSUME OneCandidate, Replicated, CommitsHeld, [Next]_vars, NEW j \in Follower,
         Batched(call[Candidate][j])
  PROVE  Batched(call'[Candidate][j])
<1> USE DEF Replicated
<1> DEFINE L == Candidate
           c == call[L][j]
           d == call'[L][j]
           next == nextIndex[L][j]
<1>0. /\ L \in Server /\ j \in Server /\ c \in Call /\ d \in Call
      /\ next \in Nat \ {0} /\ Len(log[L]) \in Nat
      /\ BatchSize \in Nat \ {0}
  BY SlotTypes, SlotTypesNext, BoundAssumption
<1>1. CASE d = c
  BY <1>1
<1>2. CASE ~Appending(d) /\ d.stage # "header"
  BY <1>2 DEF Batched
<1>3. CASE /\ c.stage \in {"sent", "serving"}
           /\ d.stage \in {"serving", "replied"} /\ d.req = c.req
  BY <1>3 DEF Batched, Appending
<1>4. CASE AppendEntriesRPC(L, j)
  <2>1. /\ d.stage = "header" /\ d.last = Len(log[L])
        /\ d.req.leaderCommit = commitIndex[L] /\ d.req.entries = <<>>
    BY <1>0, <1>4, AppendEntriesRPCEffect
  <2>2. commitIndex[L] <= Len(log[L])
    BY <1>0 DEF CommitsHeld, Held
  <2> QED BY <1>0, <2>1, <2>2 DEF Batched
<1>5. CASE AppendEntriesRead(L, j)
  <2> DEFINE to == Lesser(Lesser(c.last, Len(log[L])), next + BatchSize - 1)
             n  == Len(d.req.entries)
             lc == c.req.leaderCommit
             prev == c.req.prevLogIndex
  <2>1. /\ c.stage = "header" /\ c.last \in Nat
        /\ d.stage = "sent" /\ Appending(d)
        /\ d.req.prevLogIndex = prev /\ d.req.leaderCommit = lc
        /\ n = IF next <= to THEN to - next + 1 ELSE 0
    BY <1>0, <1>5, AppendEntriesReadEffect
  <2>2. Appending(c) /\ prev \in Nat /\ lc \in Nat
    BY <1>0, <2>1, AppendingType
  <2>3. c.last <= Len(log[L]) /\ next = prev + 1 /\ lc <= c.last
    BY <2>1, <2>2 DEF PartsSent, MaySend, PeersSettled, Settled, Batched
  <2> DEFINE last == c.last
  <2>4. /\ last \in Nat /\ last <= Len(log[L]) /\ lc <= last
        /\ n = IF next <= to THEN to - next + 1 ELSE 0
        /\ to = Lesser(Lesser(last, Len(log[L])), next + BatchSize - 1)
    BY <2>1, <2>3
  <2>5. ReplicatedBy(d.req) = prev + n
    BY <2>1 DEF ReplicatedBy
  <2>6. n <= BatchSize /\ (lc <= prev + n \/ n = BatchSize)
    <3> HIDE DEF last, to, n, lc, prev, next
    <3>1. to = Lesser(last, next + BatchSize - 1)
      BY <1>0, <2>4 DEF Lesser
    <3>2. CASE last < next + BatchSize - 1
      <4>1. to = last
        BY <1>0, <2>4, <3>1, <3>2 DEF Lesser
      <4>2. CASE next <= to
        <5>1. n = to - next + 1
          BY <2>4, <4>2
        <5>2. n <= BatchSize /\ prev + n = last
          BY SMTT(30), <1>0, <2>2, <2>3, <2>4, <3>2, <4>1, <5>1
        <5> QED BY <2>4, <5>2
      <4>3. CASE ~(next <= to)
        <5>1. n = 0
          BY <2>4, <4>3
        <5>2. last <= prev + n
          BY <1>0, <2>2, <2>3, <2>4, <4>1, <4>3, <5>1
        <5> QED BY <1>0, <2>2, <2>4, <5>1, <5>2
      <4> QED BY <4>2, <4>3
    <3>3. CASE ~(last < next + BatchSize - 1)
      <4>1. to = next + BatchSize - 1
        BY <1>0, <2>4, <3>1, <3>3 DEF Lesser
      <4> QED BY <1>0, <2>4, <4>1
    <3> QED BY <3>2, <3>3
  <2> QED BY <2>1, <2>5, <2>6 DEF Batched
<1> QED BY <1>1, <1>2, <1>3, <1>4, <1>5, RequestSteps

\* How the commit index of a follower changes.
LEMMA FollowerCommits ==
  ASSUME OneCandidate, ~SingleMode, Replicated, SingleStages, CommitsRise,
         [Next]_vars, NEW j \in Follower
  PROVE  LET h   == mu[j]
             ci  == commitIndex[j]
             ci1 == commitIndex'[j]
             mc  == metaCommit[j]
             mc1 == metaCommit'[j]
         IN /\ ci \in Nat /\ ci1 \in Nat /\ mc \in Nat /\ mc1 \in Nat
            /\ mc <= mc1 /\ mc1 <= ci1
            /\ \/ ci1 = ci
               \/ ci1 = mc /\ Restart(j) /\ mu'[j] = Free
               \/ /\ h.at = "appended" /\ Serving(h) /\ h.req \in AppendRequest
                  /\ mu'[j].at = "following" /\ mu'[j].req = h.req
                  /\ ci <= ci1 /\ ci1 <= h.req.leaderCommit
                  /\ ci1 <= Len(log[j]) /\ Len(log[j]) = ReplicatedBy(h.req)
<1> USE DEF Replicated
<1> DEFINE h   == mu[j]
           ci  == commitIndex[j]
           ci1 == commitIndex'[j]
           mc  == metaCommit[j]
           mc1 == metaCommit'[j]
<1>0. /\ j \in Server /\ j # Candidate /\ Len(log[j]) \in Nat
      /\ ci \in Nat /\ ci1 \in Nat /\ mc \in Nat /\ mc1 \in Nat
      /\ mc <= ci /\ Within(h, ci)
  BY SlotTypes, SlotTypesNext DEF Follower, CommitsRise, Capped
<1>1. CASE ci1 = ci /\ mc1 = mc
  BY <1>0, <1>1
<1>2. CASE Restart(j) /\ ci1 = mc /\ mc1 = mc
  <2>1. mu'[j] = Free
    BY <1>0, <1>2, TypeParts DEF Restart, NetTypeOK
  <2> QED BY <1>0, <1>2, <2>1
<1>3. CASE /\ AdvanceFollowerCommitIndex(j)
           /\ ci1 = Lesser(h.req.leaderCommit, Len(log[j])) /\ mc1 = mc
  <2>1. h.at = "appended" /\ mu'[j].at = "following" /\ mu'[j].req = h.req
    BY <1>0, <1>3, TypeParts DEF AdvanceFollowerCommitIndex, NetTypeOK
  <2>2. Serving(h)
    BY <2>1 DEF Serving
  <2>3. h.req \in AppendRequest /\ Len(log[j]) = ReplicatedBy(h.req)
    BY <1>0, <2>1, <2>2, HolderFollows DEF PartsSent, Halfway
  <2> DEFINE lc == h.req.leaderCommit
             m  == Len(log[j])
  <2>4. lc \in Nat /\ ci <= lc /\ ci <= m
    BY <1>0, <2>1, <2>3 DEF AppendRequest, Within
  <2>5. m \in Nat /\ ci1 = Lesser(lc, m)
    BY <1>0, <1>3
  <2> HIDE DEF lc, m
  <2>6. ci <= ci1 /\ ci1 <= lc /\ ci1 <= m
    BY <1>0, <2>4, <2>5 DEF Lesser
  <2> QED BY <1>0, <1>3, <2>1, <2>2, <2>3, <2>6 DEF lc, m
<1>4. CASE ci1 = ci /\ mc1 = ci
  BY <1>0, <1>4
<1> QED BY <1>0, <1>1, <1>2, <1>3, <1>4, CommitSteps DEF SingleCommits

\* What the candidate has saved only rises.
LEMMA TopRises ==
  ASSUME OneCandidate, ~SingleMode, Replicated, SingleStages, CommitsRise,
         [Next]_vars
  PROVE  /\ metaCommit[Candidate] \in Nat /\ metaCommit'[Candidate] \in Nat
         /\ metaCommit[Candidate] <= metaCommit'[Candidate]
         /\ metaCommit'[Candidate] <= commitIndex'[Candidate]
<1> USE DEF Replicated
<1>1. /\ Candidate \in Server /\ Candidate \notin Follower
      /\ commitIndex[Candidate] \in Nat /\ commitIndex'[Candidate] \in Nat
      /\ metaCommit[Candidate] \in Nat /\ metaCommit'[Candidate] \in Nat
      /\ metaCommit[Candidate] <= commitIndex[Candidate]
  BY SlotTypes, SlotTypesNext DEF Follower, CommitsRise
<1> QED BY <1>1, CommitSteps DEF SingleCommits

\* The request that is built carries what the candidate has saved: the thread
\* that sets the commit index saves it before it gives global_mu up.
LEMMA SavedIsSent ==
  ASSUME OneCandidate, ~SingleMode, Replicated, CommitSaved, NEW j \in Follower,
         AppendEntriesRPC(Candidate, j)
  PROVE  call'[Candidate][j].req.leaderCommit = metaCommit[Candidate]
<1>1. mu[Candidate] = Free
  BY DEF AppendEntriesRPC
<1>2. ~Unsaved(Candidate)
  BY <1>1 DEF Unsaved, Free
<1> QED BY <1>2, CandidateStands, SlotTypes, AppendEntriesRPCEffect
        DEF CommitSaved, Replicated

LEMMA CappedNext ==
  ASSUME OneCandidate, ~SingleMode, Replicated, SingleStages, CommitSaved,
         CommitsRise, [Next]_vars, NEW j \in Follower
  PROVE  /\ Capped(call'[Candidate][j], mu'[j], commitIndex'[j], metaCommit'[j],
                   metaCommit'[Candidate])
         /\ Newer(call'[Candidate][j], mu'[j], commitIndex'[j])
<1> USE DEF Replicated
<1> DEFINE L == Candidate
           c == call[L][j]
           d == call'[L][j]
           h  == mu[j]
           h1 == mu'[j]
           ci  == commitIndex[j]
           ci1 == commitIndex'[j]
           mc  == metaCommit[j]
           mc1 == metaCommit'[j]
           top  == metaCommit[L]
           top1 == metaCommit'[L]
<1>0. /\ j \in Server /\ c \in Call /\ d \in Call
      /\ ci \in Nat /\ ci1 \in Nat /\ mc \in Nat /\ mc1 \in Nat /\ mc1 <= ci1
      /\ top \in Nat /\ top1 \in Nat /\ top <= top1
      /\ Capped(c, h, ci, mc, top) /\ Newer(c, h, ci)
  BY SlotTypes, SlotTypesNext, FollowerCommits, TopRises DEF CommitsRise
<1>1. /\ Appending(c) => c.req.leaderCommit \in Nat /\ c.req.leaderCommit <= top
      /\ Serving(h) => h.req.leaderCommit \in Nat /\ h.req.leaderCommit <= top
  BY <1>0, AppendingType, HolderFollows DEF Capped, AppendRequest
<1>2. \/ ci1 <= ci
      \/ Serving(h) /\ ci1 <= h.req.leaderCommit
  BY <1>0, FollowerCommits DEF Capped
<1>3. ci1 <= top
  BY <1>0, <1>1, <1>2 DEF Capped
<1>4. Serving(h1) => \/ Serving(h) /\ h1.req = h.req
                     \/ Appending(c) /\ h1.req = c.req
  BY ServingSteps
<1>5. Serving(h1) => h1.req.leaderCommit \in Nat /\ h1.req.leaderCommit <= top
  BY <1>1, <1>4
<1>6. Appending(d) =>
        \/ Appending(c) /\ d.req.leaderCommit = c.req.leaderCommit
        \/ AppendEntriesRPC(L, j) /\ d.req.leaderCommit = top
  BY CommitSent, SavedIsSent
<1>7. Appending(d) => d.req.leaderCommit \in Nat /\ d.req.leaderCommit <= top
  BY <1>0, <1>1, <1>6
<1>8. ASSUME Appending(d), d.stage \in {"header", "sent"}
      PROVE  /\ ci1 <= d.req.leaderCommit
             /\ Serving(h1) => h1.req.leaderCommit <= d.req.leaderCommit
  <2>1. CASE AppendEntriesRPC(L, j)
    <3>1. d.req.leaderCommit = top
      BY <2>1, SavedIsSent
    <3> QED BY <1>3, <1>5, <3>1
  <2>2. CASE ~AppendEntriesRPC(L, j)
    <3>1. c.stage \in {"header", "sent"} /\ Appending(c)
          /\ d.req.leaderCommit = c.req.leaderCommit
      <4>1. c.stage \in {"header", "sent"}
        <5>1. CASE AppendEntriesRead(L, j)
          BY <5>1 DEF AppendEntriesRead
        <5> QED BY <1>8, <2>2, <5>1, RequestSteps
      <4> QED BY <1>6, <1>8, <2>2, <4>1
    <3> DEFINE lc == d.req.leaderCommit
    <3>2. /\ lc \in Nat /\ ci <= lc
          /\ Serving(h) => h.req.leaderCommit <= lc
      BY <1>0, <1>7, <1>8, <3>1 DEF Newer
    <3>3. c.req.leaderCommit = lc
      BY <3>1
    <3> SUFFICES ci1 <= lc /\ (Serving(h1) => h1.req.leaderCommit <= lc)
      OBVIOUS
    <3> HIDE DEF lc
    <3>4. ci1 <= lc
      BY <1>0, <1>1, <1>2, <3>2
    <3>5. Serving(h1) => h1.req.leaderCommit <= lc
      BY <1>4, <1>5, <3>2, <3>3
    <3> QED BY <3>4, <3>5
  <2> QED BY <2>1, <2>2
<1>9. Newer(d, h1, ci1)
  BY <1>8 DEF Newer
<1>10. /\ mc1 <= ci1 /\ ci1 <= top1
       /\ Appending(d) => d.req.leaderCommit <= top1
       /\ Serving(h1) => h1.req.leaderCommit <= top1
  BY <1>0, <1>3, <1>5, <1>7
<1> QED BY <1>9, <1>10 DEF Capped

\* The log of a follower is cut off where its peer thread is.
LEMMA NearNext ==
  ASSUME OneCandidate, Replicated, [Next]_vars, NEW j \in Follower,
         NEW n \in Nat, Near(log[j], nextIndex[Candidate][j], n)
  PROVE  Near(log'[j], nextIndex'[Candidate][j], n)
<1> USE DEF Replicated
<1> DEFINE L == Candidate
           c == call[L][j]
           next  == nextIndex[L][j]
           next1 == nextIndex'[L][j]
<1>0. /\ L \in Server /\ j \in Server /\ c \in Call /\ BatchSize \in Nat \ {0}
      /\ Len(log[j]) \in Nat /\ Len(log'[j]) \in Nat /\ Len(log[L]) \in Nat
      /\ Len(log[j]) <= Len(log[L])
      /\ next \in Nat \ {0} /\ next1 \in Nat \ {0}
      /\ n <= Len(log[j]) + BatchSize /\ n < next + BatchSize
  BY SlotTypes, SlotTypesNext, BoundAssumption DEF Near, PartsSent, PrefixOf
<1>1. n < next1 + BatchSize
  <2>1. CASE next1 = next
    BY <1>0, <2>1
  <2>2. CASE next1 = Len(log[L]) + 1
    BY <1>0, <2>2
  <2>3. CASE /\ PeerStep(L, j) /\ AppendEntriesReply(L, j)
             /\ role[L] = "kLeader" /\ c.res.term <= currentTerm[L]
    <3> DEFINE m == Len(log[j])
               k == Lesser(m, next - 1)
    <3>1. m <= Len(log[j]) /\ k \in Nat /\ k <= m /\ k < next /\ k + 1 >= 1
          /\ (n <= m + BatchSize) /\ (k = m \/ k = next - 1)
      BY SMTT(30), <1>0 DEF Lesser
    <3>2. Keeps(log[j], next, k)
      BY <1>0, <3>1 DEF Keeps
    <3>3. k < next1
      BY <2>3, <3>1, <3>2, KeepsAnswer DEF Keeps
    <3> HIDE DEF k, m, next, next1
    <3> QED BY <1>0, <3>1, <3>3 DEF m
  <2> QED BY <2>1, <2>2, <2>3, IndexSteps
<1>2. n <= Len(log'[j]) + BatchSize
  <2>1. CASE log'[j] = log[j]
    BY <1>0, <2>1
  <2>2. ASSUME NEW r \in InFlight, r.to = j, ReplyAppendEntries(r)
        PROVE  n <= Len(log'[j]) + BatchSize
    <3>1. c.stage = "sent" /\ c.req = r /\ Appending(c)
      BY <2>2, InFlightSlot DEF ReplyAppendEntries, Appending
    <3>2. next = r.prevLogIndex + 1 /\ r.prevLogIndex \in Nat
      BY <1>0, <3>1, AppendingType DEF PeersSettled, Settled
    <3>3. log'[j] = log[j] \/ Len(log'[j]) = r.prevLogIndex
      BY <2>2, ServedAppend
    <3> QED BY <1>0, <3>2, <3>3
  <2>3. CASE AppendReceived(j)
    <3>1. /\ mu[j].req \in AppendRequest /\ Len(log[j]) = mu[j].req.prevLogIndex
          /\ Len(log'[j]) = ReplicatedBy(mu[j].req)
      BY <1>0, <2>3, ReceivedLog
    <3>2. Len(mu[j].req.entries) \in Nat
      BY <3>1, LenProperties DEF AppendRequest
    <3>3. Len(log[j]) <= Len(log'[j])
      BY <1>0, <3>1, <3>2 DEF ReplicatedBy
    <3> QED BY <1>0, <3>3
  <2>4. CASE HolderStep(j) /\ ~AppendReceived(j)
    BY <2>1, <2>4 DEF HolderStep, AdvanceFollowerCommitIndex,
       SaveFollowerCommitIndex, SaveLeaderCommitIndex
  <2> QED BY <2>1, <2>2, <2>3, <2>4, LogSteps
<1> QED BY <1>1, <1>2 DEF Near

LEMMA BehindNext ==
  ASSUME OneCandidate, Replicated, CommitsRise, [Next]_vars, NEW j \in Follower
  PROVE  Behind(mu'[j], nextIndex'[Candidate][j])
<1> USE DEF Replicated
<1> DEFINE L == Candidate
           c == call[L][j]
           h  == mu[j]
           h1 == mu'[j]
           next  == nextIndex[L][j]
           next1 == nextIndex'[L][j]
<1> SUFFICES ASSUME Serving(h1)
             PROVE  h1.req.prevLogIndex < next1 /\ Len(h1.req.entries) <= BatchSize
  BY DEF Behind
<1>0. /\ j \in Server /\ c \in Call /\ Len(log[L]) \in Nat
      /\ next \in Nat \ {0} /\ next1 \in Nat \ {0}
      /\ Behind(h, next) /\ Batched(c)
  BY SlotTypes, SlotTypesNext DEF CommitsRise
<1>1. /\ h1.req \in AppendRequest
      /\ h1.req.prevLogIndex < next /\ Len(h1.req.entries) <= BatchSize
      /\ PartOf(h1.req, log[L])
      /\ c.stage # "replied"
  <2>1. CASE Serving(h) /\ h1.req = h.req
    <3>1. c.stage # "replied"
      BY <2>1 DEF PeersSettled, Settled, Serving, Free
    <3> QED BY <1>0, <2>1, <3>1, HolderFollows DEF Behind, PartsSent, Halfway
  <2>2. CASE c.stage = "sent" /\ Appending(c) /\ h1.req = c.req
    <3>1. c.req \in AppendRequest /\ c.req.prevLogIndex \in Nat
      BY <1>0, <2>2, AppendingType
    <3>2. next = c.req.prevLogIndex + 1 /\ PartOf(c.req, log[L])
      BY <2>2 DEF PeersSettled, Settled, PartsSent, MaySend
    <3> QED BY <1>0, <2>2, <3>1, <3>2 DEF Batched
  <2> QED BY <2>1, <2>2, ServingSteps
<1>2. /\ h1.req.prevLogIndex \in Nat
      /\ h1.req.prevLogIndex <= Len(log[L])
  <2>1. h1.req.prevLogIndex \in Nat /\ Len(h1.req.entries) \in Nat
    BY <1>1, LenProperties DEF AppendRequest
  <2> QED BY SMTT(30), <1>0, <1>1, <2>1 DEF PartOf
<1>3. next1 = next \/ next1 = Len(log[L]) + 1
  <2>1. ~AppendEntriesReply(L, j)
    BY <1>1 DEF AppendEntriesReply
  <2> QED BY <2>1, IndexSteps
<1> HIDE DEF next, next1, h1
<1> QED BY <1>0, <1>1, <1>2, <1>3

LEMMA WithinNext ==
  ASSUME OneCandidate, ~SingleMode, Replicated, SingleStages, CommitsRise,
         [Next]_vars, NEW j \in Follower
  PROVE  Within(mu'[j], commitIndex'[j])
<1> USE DEF Replicated
<1> DEFINE L == Candidate
           c == call[L][j]
           h  == mu[j]
           h1 == mu'[j]
           ci  == commitIndex[j]
           ci1 == commitIndex'[j]
           next == nextIndex[L][j]
<1> SUFFICES ASSUME h1.at \in {"cut", "appended"}
             PROVE  ci1 <= h1.req.leaderCommit /\ ci1 <= ReplicatedBy(h1.req)
  BY DEF Within
<1>0. /\ j \in Server /\ c \in Call /\ ci \in Nat /\ BatchSize \in Nat \ {0}
      /\ next \in Nat \ {0}
      /\ Batched(c) /\ Newer(c, h, ci) /\ Near(log[j], next, ci) /\ Within(h, ci)
  BY SlotTypes, BoundAssumption DEF CommitsRise
<1>1. ci1 = ci
  BY FollowerCommits DEF Free
<1>2. CASE /\ Serving(h) /\ h1.req = h.req
           /\ h.at = "following" => h1.at = "following"
  <2>1. h.at \in {"cut", "appended"}
    BY <1>0, <1>2, HolderFollows
  <2> QED BY <1>0, <1>1, <1>2, <2>1 DEF Within
<1>3. CASE c.stage = "sent" /\ Appending(c) /\ h1.req = c.req
  <2> DEFINE prev == c.req.prevLogIndex
             n  == Len(c.req.entries)
             lc == c.req.leaderCommit
  <2>1. /\ prev \in Nat /\ n \in Nat /\ lc \in Nat
        /\ next = prev + 1 /\ ReplicatedBy(c.req) = prev + n
        /\ ci <= lc /\ ci < next + BatchSize
        /\ lc <= prev + n \/ n = BatchSize
    BY <1>0, <1>3, AppendingType
       DEF PeersSettled, Settled, ReplicatedBy, Newer, Near, Batched
  <2>2. ci <= lc /\ ci <= prev + n
    <3> HIDE DEF prev, n, lc, ci, next
    <3> QED BY <1>0, <2>1
  <2> QED BY <1>1, <1>3, <2>1, <2>2
<1>4. Serving(h1)
  BY DEF Serving
<1> QED BY <1>2, <1>3, <1>4, ServingSteps

LEMMA RiseNext ==
  ASSUME OneCandidate, ~SingleMode, Replicated, SingleStages, CommitSaved,
         CommitsHeld, CommitsRise, [Next]_vars
  PROVE  CommitsRise'
<1> USE DEF Replicated
<1> DEFINE L == Candidate
<1>1. metaCommit'[L] <= commitIndex'[L]
  BY TopRises
<1>2. ASSUME NEW j \in Follower
      PROVE  /\ Batched(call'[L][j])
             /\ Capped(call'[L][j], mu'[j], commitIndex'[j], metaCommit'[j],
                       metaCommit'[L])
             /\ Newer(call'[L][j], mu'[j], commitIndex'[j])
             /\ Near(log'[j], nextIndex'[L][j], commitIndex'[j])
             /\ Behind(mu'[j], nextIndex'[L][j])
             /\ Within(mu'[j], commitIndex'[j])
  <2>1. Batched(call'[L][j])
    BY BatchedNext DEF CommitsRise
  <2>2. Near(log'[j], nextIndex'[L][j], commitIndex'[j])
    <3> DEFINE ci   == commitIndex[j]
               ci1  == commitIndex'[j]
               next == nextIndex[L][j]
               m    == Len(log[j])
    <3>1. /\ ci \in Nat /\ ci1 \in Nat /\ m \in Nat /\ next \in Nat \ {0}
          /\ BatchSize \in Nat \ {0} /\ j \in Server
          /\ ci <= m + BatchSize /\ ci < next + BatchSize
          /\ Behind(mu[j], next)
      BY SlotTypes, SlotTypesNext, BoundAssumption DEF CommitsRise, Near
    <3>2. \/ ci1 <= ci
          \/ /\ Serving(mu[j]) /\ mu[j].req \in AppendRequest
             /\ ci1 <= m /\ m = ReplicatedBy(mu[j].req)
      BY <3>1, FollowerCommits DEF CommitsRise, Capped
    <3>3. ASSUME /\ Serving(mu[j]) /\ mu[j].req \in AppendRequest
                 /\ ci1 <= m /\ m = ReplicatedBy(mu[j].req)
          PROVE  ci1 <= m + BatchSize /\ ci1 < next + BatchSize
      <4> DEFINE prev == mu[j].req.prevLogIndex
                 n    == Len(mu[j].req.entries)
      <4>1. /\ prev \in Nat /\ n \in Nat /\ m = prev + n
            /\ prev < next /\ n <= BatchSize
        BY <3>1, <3>3, LenProperties DEF AppendRequest, ReplicatedBy, Behind
      <4>2. ci1 <= m
        BY <3>3
      <4> HIDE DEF prev, n, m, next, ci1
      <4> QED BY <3>1, <4>1, <4>2
    <3>4. ASSUME ci1 <= ci
          PROVE  ci1 <= m + BatchSize /\ ci1 < next + BatchSize
      <4> HIDE DEF m, next, ci, ci1
      <4> QED BY <3>1, <3>4
    <3>5. ci1 <= m + BatchSize /\ ci1 < next + BatchSize
      BY <3>2, <3>3, <3>4
    <3> QED BY <3>1, <3>5, NearNext DEF Near
  <2> QED BY <2>1, <2>2, CappedNext, BehindNext, WithinNext
<1> QED BY <1>1, <1>2 DEF CommitsRise

RiseInv == CommitInv /\ CommitsRise

\* What a server has saved as its commit index never goes back, and what it
\* goes by only when the server is restarted between the assignment and the
\* Put of it: while one server stands and no request is served late, in a
\* cluster of any size.  AdvanceFollowerCommitIndex takes whatever the leader
\* says, cut to the end of a log that has itself been cut off; it is the order
\* of the requests and the number of entries in each that let it only rise.
THEOREM CommitsNeverDecrease ==
  ASSUME OneCandidate, MaxLate = 0, ~SingleMode
  PROVE  Spec => CommitIndexNeverDecreases
<1>1. Init => RiseInv
  BY CommitInvInit, RiseInit DEF RiseInv
<1>2. RiseInv /\ [Next]_vars => RiseInv'
  <2> SUFFICES ASSUME RiseInv, [Next]_vars PROVE RiseInv'
    OBVIOUS
  <2>1. /\ CommitInv /\ CommitsRise /\ Replicated /\ SingleStages
        /\ CommitSaved /\ CommitsHeld
    BY ReplicatedSteps DEF RiseInv, CommitInv, SavedInv
  <2> QED BY <2>1, CommitInvNext, RiseNext DEF RiseInv
<1>3. RiseInv /\ [Next]_vars =>
        [\A i \in Server : /\ metaCommit'[i] >= metaCommit[i]
                           /\ \/ commitIndex'[i] >= commitIndex[i]
                              \/ Unsaved(i) /\ restarts' > restarts]_vars
  <2> SUFFICES ASSUME RiseInv, [Next]_vars, NEW i \in Server
               PROVE  /\ metaCommit'[i] >= metaCommit[i]
                      /\ \/ commitIndex'[i] >= commitIndex[i]
                         \/ Unsaved(i) /\ restarts' > restarts
    OBVIOUS
  <2>1. /\ CommitsRise /\ Replicated /\ SingleStages /\ CommitSaved
        /\ TypeOK /\ TypeOK'
    BY ReplicatedSteps DEF RiseInv, CommitInv, SavedInv, Replicated
  <2>2. /\ commitIndex[i] \in Nat /\ commitIndex'[i] \in Nat
        /\ metaCommit[i] \in Nat /\ metaCommit'[i] \in Nat
    BY <2>1, SlotTypes, SlotTypesNext
  <2>3. Restart(i) => restarts' > restarts
    BY <2>1, TypeParts DEF Restart, TypeOK, NetTypeOK
  <2>4. Unsaved(i) \/ metaCommit[i] = commitIndex[i]
    BY <2>1 DEF CommitSaved
  <2>5. CASE i = Candidate
    <3>1. metaCommit[i] <= metaCommit'[i]
      BY <2>1, <2>5, TopRises
    <3>2. \/ commitIndex'[i] = commitIndex[i]
          \/ Restart(i) /\ commitIndex'[i] = metaCommit[i]
          \/ commitIndex[i] < commitIndex'[i]
      BY <2>1, <2>5, CommitSteps DEF SingleCommits, Follower
    <3> QED BY <2>2, <2>3, <2>4, <3>1, <3>2
  <2>6. CASE i # Candidate
    <3>1. i \in Follower
      BY <2>6 DEF Follower
    <3>2. /\ metaCommit[i] <= metaCommit'[i]
          /\ \/ commitIndex'[i] = commitIndex[i]
             \/ Restart(i) /\ commitIndex'[i] = metaCommit[i]
             \/ commitIndex[i] <= commitIndex'[i]
      BY <2>1, <3>1, FollowerCommits
    <3> QED BY <2>2, <2>3, <2>4, <3>2
  <2> QED BY <2>5, <2>6
<1> QED BY <1>1, <1>2, <1>3, PTL DEF Spec, CommitIndexNeverDecreases

=============================================================================
