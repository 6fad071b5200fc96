--------------------------- MODULE FloydRaftProofs ---------------------------
(***************************************************************************)
(* Proofs about FloydRaft, for every set of servers and commands and every *)
(* value of the bounds.                                                    *)
(***************************************************************************)
EXTENDS FloydRaft, FiniteSetTheorems, SequenceTheorems, TLAPS

-----------------------------------------------------------------------------
(* Types *)

Request == VoteRequest \cup AppendRequest

\* What is known of a peer thread's request and answer at each stage.
LEMMA CallParts ==
  ASSUME NEW c \in Call
  PROVE  /\ c.stage \in {"idle", "header", "sent", "serving", "replied"}
         /\ c.stage = "header" => c.req \in AppendRequest /\ c.last \in Nat
         /\ c.stage = "sent" => c.req \in Request
         /\ c.stage = "serving" => c.req \in AppendRequest
         /\ c.stage = "replied" /\ c.req.type = "RequestVote"
              => c.req \in VoteRequest /\ c.res \in VoteResponse
         /\ c.stage = "replied" /\ c.req.type = "AppendEntries"
              => c.req \in AppendRequest /\ c.res \in AppendResponse
  BY DEF Call, Request, VoteRequest, AppendRequest

\* The values the peer threads and the handlers build are of the right type.
LEMMA CallBuild ==
  /\ Idle \in Call
  /\ \A r \in AppendRequest, n \in Nat :
       [stage |-> "header", last |-> n, req |-> r] \in Call
  /\ \A r \in Request : [stage |-> "sent", req |-> r] \in Call
  /\ \A r \in AppendRequest : [stage |-> "serving", req |-> r] \in Call
  /\ \A r \in VoteRequest, s \in VoteResponse :
       [stage |-> "replied", req |-> r, res |-> s] \in Call
  /\ \A r \in AppendRequest, s \in AppendResponse :
       [stage |-> "replied", req |-> r, res |-> s] \in Call
  BY DEF Call, Idle, Request

\* What is known of the thread that holds global_mu.
LEMMA HolderParts ==
  ASSUME NEW h \in Holder
  PROVE  /\ h.at \in {"free", "cut", "appended", "following", "leading"}
         /\ h.at \in {"cut", "appended", "following"} => h.req \in AppendRequest
         /\ h.at = "free" => h = Free
  BY DEF Holder, Free

LEMMA HolderBuild ==
  /\ Free \in Holder
  /\ [at |-> "leading"] \in Holder
  /\ \A r \in AppendRequest : /\ [at |-> "cut", req |-> r] \in Holder
                              /\ [at |-> "appended", req |-> r] \in Holder
                              /\ [at |-> "following", req |-> r] \in Holder
  BY DEF Holder, Free

\* Requests in flight are typed, whether their caller still waits or not.
LEMMA InFlightType ==
  ASSUME TypeOK, NEW r \in InFlight
  PROVE  /\ r \in Request
         /\ r.from \in Server /\ r.to \in Server /\ r.term \in Nat
         /\ r.type = "RequestVote" => r \in VoteRequest
         /\ r.type = "AppendEntries" => r \in AppendRequest
<1>1. r \in Request
  <2>1. CASE r \in late
    BY <2>1 DEF TypeOK, NetTypeOK, Request
  <2>2. CASE r \notin late
    <3>1. PICK i \in Server, j \in Server :
            call[i][j].stage = "sent" /\ r = call[i][j].req
      BY <2>2 DEF InFlight
    <3>2. call[i][j] \in Call
      BY DEF TypeOK, NetTypeOK
    <3> QED BY <3>1, <3>2, CallParts
  <2> QED BY <2>1, <2>2
<1> QED BY <1>1 DEF Request, VoteRequest, AppendRequest

\* Cutting a log leaves a log.
LEMMA TruncateSuffixType ==
  ASSUME NEW s \in Seq(Entry), NEW n \in Nat
  PROVE  /\ TruncateSuffix(s, n) \in Seq(Entry)
         /\ n \in 1..Len(s) + 1 => Len(TruncateSuffix(s, n)) = n - 1
         /\ n \in 1..Len(s) + 1 => TruncateSuffix(s, n) = SubSeq(s, 1, n - 1)
<1> DEFINE last == Lesser(n - 1, Len(s))
<1>1. Len(s) \in Nat
  BY LenProperties
<1>2. /\ last \in Int /\ last <= Len(s)
      /\ n \in 1..Len(s) + 1 => last = n - 1
  BY <1>1 DEF Lesser
<1>3. TruncateSuffix(s, n) = SubSeq(s, 1, last)
  BY DEF TruncateSuffix
<1> HIDE DEF last
<1>4. \A k \in 1..last : s[k] \in Entry
  BY <1>1, <1>2, ElementOfSeq
<1> QED BY <1>1, <1>2, <1>3, <1>4, SubSeqProperties

LEMMA LogType ==
  ASSUME TypeOK, NEW i \in Server
  PROVE  /\ log[i] \in Seq(Entry)
         /\ LastLogIndex(i) \in Nat
         /\ LastLogTerm(i) \in Nat
         /\ \A n \in Nat : TermAt(i, n) \in Nat
<1>1. log[i] \in Seq(Entry)
  BY DEF TypeOK, LogTypeOK
<1>2. Len(log[i]) \in Nat /\ \A n \in 1..Len(log[i]) : log[i][n] \in Entry
  BY <1>1, LenProperties, ElementOfSeq
<1>3. log[i] # <<>> => Len(log[i]) \in 1..Len(log[i])
  BY <1>1, EmptySeq
<1> QED BY <1>1, <1>2, <1>3 DEF LastLogIndex, LastLogTerm, TermAt, Entry

LEMMA NoBatchType == NoBatch \in Batch /\ EmptyEntry \in Entry
  BY DEF NoBatch, Batch, EmptyEntry, Entry

LEMMA TypeInit == Init => TypeOK
  BY CallBuild, HolderBuild, NoBatchType, ServerAssumption, EmptySeq
     DEF Init, TypeOK, CtxTypeOK, MetaTypeOK, LogTypeOK, SmTypeOK, PeerTypeOK,
         NetTypeOK, VoteTypeOK, Address, Role, CommandState

-----------------------------------------------------------------------------
(* The type invariant, action by action *)

LEMMA ScheduleType ==
  ASSUME NEW q \in Seq(Task), NEW t \in Task
  PROVE  Schedule(q, t) \in Seq(Task)
  BY DEF Schedule

\* A group of variables that keeps its value keeps its type.
LEMMA Unmoved ==
  /\ CtxTypeOK /\ UNCHANGED ctxVars => CtxTypeOK'
  /\ MetaTypeOK /\ UNCHANGED metaVars => MetaTypeOK'
  /\ LogTypeOK /\ UNCHANGED logVars => LogTypeOK'
  /\ SmTypeOK /\ UNCHANGED smVars => SmTypeOK'
  /\ PeerTypeOK /\ UNCHANGED peerVars => PeerTypeOK'
  /\ NetTypeOK /\ UNCHANGED netVars => NetTypeOK'
  /\ VoteTypeOK /\ UNCHANGED voteVars => VoteTypeOK'
<1>1. CtxTypeOK /\ UNCHANGED ctxVars => CtxTypeOK'
  BY DEF CtxTypeOK, ctxVars
<1>2. MetaTypeOK /\ UNCHANGED metaVars => MetaTypeOK'
  BY DEF MetaTypeOK, metaVars
<1>3. LogTypeOK /\ UNCHANGED logVars => LogTypeOK'
  BY DEF LogTypeOK, logVars
<1>4. SmTypeOK /\ UNCHANGED smVars => SmTypeOK'
  BY DEF SmTypeOK, smVars
<1>5. PeerTypeOK /\ UNCHANGED peerVars => PeerTypeOK'
  BY DEF PeerTypeOK, peerVars
<1>6. NetTypeOK /\ UNCHANGED netVars => NetTypeOK'
  BY DEF NetTypeOK, netVars
<1>7. VoteTypeOK /\ UNCHANGED voteVars => VoteTypeOK'
  BY DEF VoteTypeOK, voteVars
<1> QED BY <1>1, <1>2, <1>3, <1>4, <1>5, <1>6, <1>7

\* The parts of TypeOK, for steps that need one of them only.
LEMMA TypeParts ==
  ASSUME TypeOK
  PROVE  /\ CtxTypeOK /\ MetaTypeOK /\ LogTypeOK /\ SmTypeOK /\ PeerTypeOK
         /\ NetTypeOK /\ VoteTypeOK
         /\ tasks \in [Server -> [Server -> Seq(Task)]]
         /\ cmds \in [Command -> CommandState]
         /\ beats \in Nat /\ fails \in Nat /\ restarts \in Nat
  BY DEF TypeOK

LEMMA NoticePeerTaskType ==
  ASSUME tasks \in [Server -> [Server -> Seq(Task)]], NEW i \in Server,
         NEW t \in Task, NoticePeerTask(i, t)
  PROVE  tasks' \in [Server -> [Server -> Seq(Task)]]
<1>1. \A j \in Server : tasks[i][j] \in Seq(Task)
  OBVIOUS
<1>2. [j \in Server |-> IF j = i THEN tasks[i][j]
                                 ELSE Schedule(tasks[i][j], t)]
        \in [Server -> Seq(Task)]
  BY <1>1, ScheduleType
<1> QED BY <1>2 DEF NoticePeerTask

LEMMA TypeCheckLeader ==
  ASSUME TypeOK, NEW i \in Server, LaunchCheckLeader(i)
  PROVE  TypeOK'
<1>0. CtxTypeOK /\ MetaTypeOK
  BY TypeParts
<1>1. CtxTypeOK'
  BY <1>0 DEF LaunchCheckLeader, CtxTypeOK, BecomeLeader, BecomeCandidate, Role,
              Address
<1>2. MetaTypeOK'
  BY <1>0 DEF LaunchCheckLeader, CtxTypeOK, MetaTypeOK, SetMeta, Address
<1>3. tasks' \in [Server -> [Server -> Seq(Task)]]
  <2>1. UNCHANGED tasks \/ NoticePeerTask(i, "RequestVote")
    BY DEF LaunchCheckLeader
  <2> QED BY <2>1, TypeParts, NoticePeerTaskType DEF Task
<1> QED BY <1>1, <1>2, <1>3, TypeParts, Unmoved
        DEF LaunchCheckLeader, TypeOK, bounds

LEMMA TypeHeartBeat ==
  ASSUME TypeOK, NEW i \in Server, LaunchHeartBeat(i)
  PROVE  TypeOK'
<1>1. tasks' \in [Server -> [Server -> Seq(Task)]]
  BY TypeParts, NoticePeerTaskType DEF LaunchHeartBeat, Task
<1>2. beats' \in Nat
  BY TypeParts DEF LaunchHeartBeat
<1> QED BY <1>1, <1>2, TypeParts, Unmoved DEF LaunchHeartBeat, TypeOK

\* Taking a task leaves a queue of tasks.
LEMMA TakeTaskType ==
  ASSUME tasks \in [Server -> [Server -> Seq(Task)]], NEW i \in Server,
         NEW j \in Server, NEW t, TakeTask(i, j, t)
  PROVE  tasks' \in [Server -> [Server -> Seq(Task)]]
<1>1. Tail(tasks[i][j]) \in Seq(Task)
  BY HeadTailProperties DEF TakeTask
<1> QED BY <1>1 DEF TakeTask

\* Replacing a slot, or a row, of a table of peers.
LEMMA SlotType ==
  ASSUME NEW S, NEW f \in [Server -> [Server -> S]], NEW i \in Server,
         NEW j \in Server, NEW v \in S
  PROVE  [f EXCEPT ![i][j] = v] \in [Server -> [Server -> S]]
  OBVIOUS

LEMMA RowType ==
  ASSUME NEW S, NEW f \in [Server -> [Server -> S]], NEW i \in Server,
         NEW row \in [Server -> S]
  PROVE  [f EXCEPT ![i] = row] \in [Server -> [Server -> S]]
  OBVIOUS

\* Putting a typed value into one slot of call.
LEMMA CallUpdate ==
  ASSUME NetTypeOK, NEW i \in Server, NEW j \in Server, NEW c \in Call,
         call' = [call EXCEPT ![i][j] = c]
  PROVE  call' \in [Server -> [Server -> Call]]
  BY DEF NetTypeOK

LEMMA TypeRequestVoteRPC ==
  ASSUME TypeOK, NEW i \in Server, NEW j \in Server, RequestVoteRPC(i, j)
  PROVE  TypeOK'
<1> DEFINE req == [type |-> "RequestVote", from |-> i, to |-> j,
                   term |-> currentTerm[i], lastLogTerm |-> LastLogTerm(i),
                   lastLogIndex |-> LastLogIndex(i)]
<1>1. req \in VoteRequest
  BY TypeParts, LogType DEF CtxTypeOK, VoteRequest
<1>2. [stage |-> "sent", req |-> req] \in Call
  BY <1>1, CallBuild DEF Request
<1>3. call' \in [Server -> [Server -> Call]]
  BY <1>2, TypeParts, CallUpdate DEF RequestVoteRPC
<1>4. NetTypeOK'
  BY <1>3, TypeParts DEF RequestVoteRPC, NetTypeOK
<1>5. tasks' \in [Server -> [Server -> Seq(Task)]]
  BY TypeParts, TakeTaskType DEF RequestVoteRPC
<1> QED BY <1>4, <1>5, TypeParts, Unmoved DEF RequestVoteRPC, TypeOK, bounds

LEMMA TypeAppendEntriesSkip ==
  ASSUME TypeOK, NEW i \in Server, NEW j \in Server, AppendEntriesSkip(i, j)
  PROVE  TypeOK'
<1>1. tasks' \in [Server -> [Server -> Seq(Task)]]
  BY TypeParts, TakeTaskType DEF AppendEntriesSkip
<1> QED BY <1>1, TypeParts, Unmoved DEF AppendEntriesSkip, TypeOK, bounds

LEMMA TypeAppendEntriesRPC ==
  ASSUME TypeOK, NEW i \in Server, NEW j \in Server, AppendEntriesRPC(i, j)
  PROVE  TypeOK'
<1> DEFINE prev == nextIndex[i][j] - 1
           req == [type |-> "AppendEntries", from |-> i, to |-> j,
                   term |-> currentTerm[i], prevLogIndex |-> prev,
                   prevLogTerm |-> TermAt(i, prev),
                   leaderCommit |-> commitIndex[i], entries |-> <<>>]
<1>1. prev \in Nat /\ TermAt(i, prev) \in Nat
  <2>1. nextIndex[i][j] \in Nat \ {0}
    BY TypeParts DEF PeerTypeOK
  <2>2. prev \in Nat
    BY <2>1
  <2> HIDE DEF prev
  <2> QED BY <2>2, LogType
<1>2. currentTerm[i] \in Nat /\ commitIndex[i] \in Nat
  BY TypeParts DEF CtxTypeOK, LogTypeOK
<1>3. req \in AppendRequest
  BY <1>1, <1>2, EmptySeq DEF AppendRequest
<1>4. [stage |-> "header", last |-> LastLogIndex(i), req |-> req] \in Call
  BY <1>3, CallBuild, LogType
<1>5. call' \in [Server -> [Server -> Call]]
  BY <1>4, TypeParts, CallUpdate DEF AppendEntriesRPC
<1>6. NetTypeOK'
  BY <1>5, TypeParts DEF AppendEntriesRPC, NetTypeOK
<1>7. tasks' \in [Server -> [Server -> Seq(Task)]]
  BY TypeParts, TakeTaskType DEF AppendEntriesRPC
<1> QED BY <1>6, <1>7, TypeParts, Unmoved DEF AppendEntriesRPC, TypeOK, bounds

\* A part of a log is a sequence of entries, wherever it begins and ends.
LEMMA LogPartType ==
  ASSUME NEW s \in Seq(Entry), NEW m \in Nat \ {0}, NEW n \in Nat, n <= Len(s)
  PROVE  SubSeq(s, m, n) \in Seq(Entry)
<1>1. Len(s) \in Nat
  BY LenProperties
<1>2. \A k \in m..n : s[k] \in Entry
  BY <1>1, ElementOfSeq
<1> QED BY <1>2, SubSeqProperties

LEMMA TypeAppendEntriesRead ==
  ASSUME TypeOK, NEW i \in Server, NEW j \in Server, AppendEntriesRead(i, j)
  PROVE  TypeOK'
<1> DEFINE h    == call[i][j]
           from == nextIndex[i][j]
           to   == Lesser(Lesser(h.last, LastLogIndex(i)), from + BatchSize - 1)
           part == SubSeq(log[i], from, to)
           req  == [h.req EXCEPT !.entries = part]
<1>1. h.req \in AppendRequest /\ h.last \in Nat
  <2>1. h \in Call
    BY TypeParts DEF NetTypeOK
  <2> QED BY <2>1, CallParts DEF AppendEntriesRead
<1>2. part \in Seq(Entry)
  <2>1. from \in Nat \ {0} /\ BatchSize \in Nat \ {0}
    BY TypeParts, BoundAssumption DEF PeerTypeOK
  <2>2. LastLogIndex(i) \in Nat /\ log[i] \in Seq(Entry)
    BY LogType
  <2>3. to \in Nat /\ to <= Len(log[i])
    BY <1>1, <2>1, <2>2 DEF Lesser, LastLogIndex
  <2> HIDE DEF to, from
  <2> QED BY <2>1, <2>2, <2>3, LogPartType
<1>3. req \in AppendRequest
  <2> HIDE DEF part, h
  <2> QED BY <1>1, <1>2 DEF AppendRequest
<1>4. [stage |-> "sent", req |-> req] \in Call
  BY <1>3, CallBuild DEF Request
<1>5. call' \in [Server -> [Server -> Call]]
  BY <1>4, TypeParts, CallUpdate DEF AppendEntriesRead
<1>6. NetTypeOK'
  BY <1>5, TypeParts DEF AppendEntriesRead, NetTypeOK
<1> QED BY <1>6, TypeParts, Unmoved DEF AppendEntriesRead, TypeOK, bounds

\* An answer of the right kind keeps the network typed.
LEMMA ReplyType ==
  ASSUME TypeOK, NEW r \in InFlight, NEW res, Reply(r, res), UNCHANGED mu,
         \/ r.type = "RequestVote" /\ res \in VoteResponse
         \/ r.type = "AppendEntries" /\ res \in AppendResponse
  PROVE  NetTypeOK'
<1>1. r.from \in Server /\ r.to \in Server
  BY InFlightType
<1>2. [stage |-> "replied", req |-> r, res |-> res] \in Call
  BY InFlightType, CallBuild
<1> DEFINE answer == [stage |-> "replied", req |-> r, res |-> res]
<1>3. CASE call' = [call EXCEPT ![r.from][r.to] = answer] /\ UNCHANGED late
  <2>1. call' \in [Server -> [Server -> Call]]
    <3> HIDE DEF answer
    <3> QED BY <1>1, <1>2, <1>3, TypeParts, CallUpdate DEF answer
  <2> QED BY <2>1, <1>3, TypeParts DEF NetTypeOK
<1>4. CASE UNCHANGED call /\ late' = late \ {r}
  BY <1>4, TypeParts DEF NetTypeOK
<1> QED BY <1>3, <1>4 DEF Reply

LEMMA TypeReplyRequestVote ==
  ASSUME TypeOK, NEW r \in InFlight, ReplyRequestVote(r)
  PROVE  TypeOK'
<1> DEFINE i == r.to
<1>1. /\ r.type = "RequestVote"
      /\ i \in Server /\ r.from \in Server /\ r.term \in Nat
  BY InFlightType DEF ReplyRequestVote
<1>2. CtxTypeOK /\ MetaTypeOK /\ VoteTypeOK
  BY TypeParts
<1> HIDE DEF i
<1>3. CtxTypeOK'
  BY <1>1, <1>2
     DEF i, ReplyRequestVote, CtxTypeOK, BecomeFollower, Role, Address, ctxVars
<1>4. MetaTypeOK'
  BY <1>1, <1>2 DEF i, ReplyRequestVote, MetaTypeOK, SetMeta, Address, metaVars
<1>5. VoteTypeOK'
  BY <1>1, <1>2 DEF i, ReplyRequestVote, VoteTypeOK, voteVars
<1>6. NetTypeOK'
  <2>1. PICK res \in VoteResponse : Reply(r, res)
    <3>1. currentTerm[i] \in Nat
      BY <1>1, <1>2 DEF CtxTypeOK
    <3>2. /\ [term |-> currentTerm[i], granted |-> FALSE] \in VoteResponse
          /\ [term |-> r.term, granted |-> FALSE] \in VoteResponse
          /\ [term |-> r.term, granted |-> TRUE] \in VoteResponse
      BY <1>1, <3>1 DEF VoteResponse
    <3> QED BY <3>2 DEF i, ReplyRequestVote
  <2>2. UNCHANGED mu
    BY DEF ReplyRequestVote
  <2> QED BY <2>1, <2>2, <1>1, ReplyType
<1> QED BY <1>3, <1>4, <1>5, <1>6, TypeParts, Unmoved
        DEF ReplyRequestVote, TypeOK, bounds

LEMMA FollowSenderType ==
  ASSUME CtxTypeOK, MetaTypeOK, NEW i \in Server, NEW r, r.from \in Server,
         r.term \in Nat, FollowSender(i, r)
  PROVE  CtxTypeOK' /\ MetaTypeOK'
<1>1. CASE StepDown(i, r.term, r.from)
  BY <1>1 DEF StepDown, BecomeFollower, SetMeta, CtxTypeOK, MetaTypeOK, Role,
              Address
<1>2. CASE UNCHANGED <<ctxVars, metaVars>>
  BY <1>2, Unmoved
<1> QED BY <1>1, <1>2 DEF FollowSender

LEMMA AnswerType ==
  ASSUME NEW t \in Nat, NEW ok \in BOOLEAN, NEW s \in Seq(Entry)
  PROVE  AppendAnswer(t, ok, s) \in AppendResponse
  BY LenProperties DEF AppendAnswer, AppendResponse

\* Taking a request into service keeps the network typed.
LEMMA BeginServiceType ==
  ASSUME TypeOK, NEW r \in InFlight, r.type = "AppendEntries", BeginService(r),
         mu' = [mu EXCEPT ![r.to] = [at |-> "cut", req |-> r]]
  PROVE  NetTypeOK'
<1>1. r \in AppendRequest /\ r.from \in Server /\ r.to \in Server
  BY InFlightType
<1>2. mu' \in [Server -> Holder]
  BY <1>1, HolderBuild, TypeParts DEF NetTypeOK
<1>3. CASE /\ call' = [call EXCEPT ![r.from][r.to] =
                         [stage |-> "serving", req |-> r]]
           /\ UNCHANGED late
  <2>1. [stage |-> "serving", req |-> r] \in Call
    BY <1>1, CallBuild
  <2>2. call' \in [Server -> [Server -> Call]]
    BY <1>1, <1>3, <2>1, TypeParts, CallUpdate
  <2> QED BY <1>2, <1>3, <2>2, TypeParts DEF NetTypeOK
<1>4. CASE UNCHANGED call /\ late' = late \ {r}
  BY <1>2, <1>4, TypeParts DEF NetTypeOK
<1> QED BY <1>3, <1>4 DEF BeginService

LEMMA TypeReplyAppendEntries ==
  ASSUME TypeOK, NEW r \in InFlight, ReplyAppendEntries(r)
  PROVE  TypeOK'
<1> DEFINE i == r.to
<1>1. /\ r.type = "AppendEntries" /\ r \in AppendRequest
      /\ i \in Server /\ r.from \in Server /\ r.term \in Nat
      /\ r.prevLogIndex \in Nat
  BY InFlightType DEF ReplyAppendEntries, AppendRequest
<1>2. /\ CtxTypeOK /\ MetaTypeOK /\ LogTypeOK /\ log[i] \in Seq(Entry)
      /\ currentTerm[i] \in Nat
  BY <1>1, TypeParts, LogType DEF CtxTypeOK
<1> HIDE DEF i
<1>3. CtxTypeOK' /\ MetaTypeOK'
  <2>1. FollowSender(i, r) \/ UNCHANGED <<ctxVars, metaVars>>
    BY DEF ReplyAppendEntries, i
  <2> QED BY <1>1, <1>2, <2>1, FollowSenderType, Unmoved
<1>4. LogTypeOK'
  <2>1. /\ \/ UNCHANGED log
           \/ log' = [log EXCEPT ![i] =
                        TruncateSuffix(log[i], r.prevLogIndex + 1)]
        /\ UNCHANGED <<commitIndex, metaCommit>>
    BY DEF ReplyAppendEntries, i
  <2>2. TruncateSuffix(log[i], r.prevLogIndex + 1) \in Seq(Entry)
    BY <1>1, <1>2, TruncateSuffixType
  <2> QED BY <1>1, <1>2, <2>1, <2>2 DEF LogTypeOK
<1>5. NetTypeOK'
  <2>1. CASE \E t \in {r.term, currentTerm[i]} :
               Reply(r, AppendAnswer(t, FALSE, log[i])) /\ UNCHANGED mu
    BY <1>1, <1>2, <2>1, AnswerType, ReplyType
  <2>2. CASE /\ BeginService(r)
             /\ mu' = [mu EXCEPT ![i] = [at |-> "cut", req |-> r]]
    BY <1>1, <2>2, BeginServiceType DEF i
  <2> QED BY <2>1, <2>2 DEF ReplyAppendEntries, i
<1> QED BY <1>3, <1>4, <1>5, TypeParts, Unmoved
        DEF ReplyAppendEntries, TypeOK, bounds

\* Answering the request in service keeps the network typed.
LEMMA EndServiceType ==
  ASSUME TypeOK, NEW i \in Server, NEW res \in AppendResponse,
         mu[i].req \in AppendRequest, EndService(i, res), UNCHANGED late
  PROVE  NetTypeOK'
<1> DEFINE r == mu[i].req
           slot == IF call[r.from][i] = [stage |-> "serving", req |-> r]
                   THEN [stage |-> "replied", req |-> r, res |-> res]
                   ELSE call[r.from][i]
<1>1. r \in AppendRequest /\ r.from \in Server
  BY DEF AppendRequest
<1>2. call[r.from][i] \in Call
  BY <1>1, TypeParts DEF NetTypeOK
<1>3. slot \in Call
  BY <1>1, <1>2, CallBuild
<1>4. /\ mu' = [mu EXCEPT ![i] = Free]
      /\ call' = [call EXCEPT ![r.from][i] = slot]
  BY DEF EndService
<1> HIDE DEF r, slot
<1>5. call' \in [Server -> [Server -> Call]]
  BY <1>1, <1>3, <1>4, TypeParts, CallUpdate
<1> QED BY <1>4, <1>5, HolderBuild, TypeParts DEF NetTypeOK

\* What the holder of global_mu leaves alone.
LEMMA HolderFrame ==
  ASSUME NEW i \in Server, HolderStep(i)
  PROVE  UNCHANGED serviceFrame
  BY DEF HolderStep, AppendReceived, AdvanceFollowerCommitIndex,
         SaveFollowerCommitIndex, SaveLeaderCommitIndex

LEMMA TypeHolder ==
  ASSUME TypeOK, NEW i \in Server, HolderStep(i)
  PROVE  TypeOK'
<1> DEFINE r == mu[i].req
<1>1. /\ mu[i] \in Holder /\ LogTypeOK /\ log[i] \in Seq(Entry)
      /\ currentTerm[i] \in Nat /\ LastLogIndex(i) \in Nat
  BY TypeParts, LogType DEF NetTypeOK, CtxTypeOK
<1>2. mu[i].at # "leading" =>
        /\ r \in AppendRequest /\ r.prevLogIndex \in Nat
        /\ r.entries \in Seq(Entry) /\ r.leaderCommit \in Nat
  BY <1>1, HolderParts
     DEF HolderStep, AppendReceived, AdvanceFollowerCommitIndex,
         SaveFollowerCommitIndex, SaveLeaderCommitIndex, AppendRequest
<1>3. UNCHANGED serviceFrame
  BY HolderFrame
<1>4. ASSUME LogTypeOK', NetTypeOK' PROVE TypeOK'
  BY <1>3, <1>4, TypeParts, Unmoved DEF serviceFrame, TypeOK, bounds
<1>5. ASSUME NEW h \in Holder, mu' = [mu EXCEPT ![i] = h],
             UNCHANGED <<call, late>>
      PROVE  NetTypeOK'
  BY <1>5, TypeParts DEF NetTypeOK
<1> HIDE DEF r
<1>6. CASE AppendReceived(i)
  <2>1. r \in AppendRequest /\ UNCHANGED late
    BY <1>2, <1>3, <1>6 DEF AppendReceived, serviceFrame
  <2>2. log' \in [Server -> Seq(Entry)] /\ log'[i] \in Seq(Entry)
    <3>1. /\ TruncateSuffix(log[i], r.prevLogIndex) \in Seq(Entry)
          /\ log[i] \o r.entries \in Seq(Entry)
      BY <1>1, <1>2, <1>6, TruncateSuffixType, ConcatProperties
         DEF AppendReceived
    <3>2. \/ log' = [log EXCEPT ![i] = TruncateSuffix(log[i], r.prevLogIndex)]
          \/ log' = [log EXCEPT ![i] = log[i] \o r.entries]
      BY <1>6 DEF AppendReceived, r
    <3> QED BY <1>1, <3>1, <3>2 DEF LogTypeOK
  <2>3. LogTypeOK'
    BY <1>1, <1>6, <2>2 DEF AppendReceived, LogTypeOK
  <2>4. CASE \E ok \in BOOLEAN :
               EndService(i, AppendAnswer(currentTerm[i], ok, log'[i]))
    <3>1. PICK ok \in BOOLEAN :
                 EndService(i, AppendAnswer(currentTerm[i], ok, log'[i]))
      BY <2>4
    <3> DEFINE s == log'[i]
               res == AppendAnswer(currentTerm[i], ok, s)
    <3>2. res \in AppendResponse
      <4> HIDE DEF s
      <4> QED BY <1>1, <2>2, AnswerType DEF s
    <3>3. EndService(i, res)
      BY <3>1
    <3> HIDE DEF res
    <3>4. NetTypeOK'
      BY <2>1, <3>2, <3>3, EndServiceType DEF r
    <3> QED BY <1>4, <2>3, <3>4
  <2>5. CASE /\ mu' = [mu EXCEPT ![i] = [at |-> "appended", req |-> r]]
             /\ UNCHANGED call
    BY <1>4, <1>5, <2>1, <2>3, <2>5, HolderBuild
  <2> QED BY <1>6, <2>4, <2>5 DEF AppendReceived, r
<1>7. CASE AdvanceFollowerCommitIndex(i)
  <2>1. Lesser(r.leaderCommit, LastLogIndex(i)) \in Nat
    BY <1>1, <1>2, <1>7 DEF AdvanceFollowerCommitIndex, Lesser
  <2>2. LogTypeOK'
    BY <1>1, <1>7, <2>1
       DEF AdvanceFollowerCommitIndex, FollowerCommitIndex, LogTypeOK, r
  <2>3. NetTypeOK'
    BY <1>2, <1>3, <1>5, <1>7, HolderBuild
       DEF AdvanceFollowerCommitIndex, serviceFrame, r
  <2> QED BY <1>4, <2>2, <2>3
<1>8. CASE SaveFollowerCommitIndex(i)
  <2>1. LogTypeOK'
    BY <1>1, <1>8 DEF SaveFollowerCommitIndex, SetCommitIndex, LogTypeOK
  <2>2. NetTypeOK'
    BY <1>1, <1>2, <1>3, <1>8, AnswerType, EndServiceType
       DEF SaveFollowerCommitIndex, serviceFrame, r
  <2> QED BY <1>4, <2>1, <2>2
<1>9. CASE SaveLeaderCommitIndex(i)
  <2>1. LogTypeOK'
    BY <1>1, <1>9 DEF SaveLeaderCommitIndex, SetCommitIndex, LogTypeOK
  <2>2. NetTypeOK'
    BY <1>3, <1>5, <1>9, HolderBuild DEF SaveLeaderCommitIndex, serviceFrame
  <2> QED BY <1>4, <2>1, <2>2
<1> QED BY <1>6, <1>7, <1>8, <1>9 DEF HolderStep

LEMMA TypeRequestVoteReply ==
  ASSUME TypeOK, NEW i \in Server, NEW j \in Server, RequestVoteReply(i, j)
  PROVE  TypeOK'
<1> DEFINE res == call[i][j].res
<1>1. res \in VoteResponse /\ res.term \in Nat
  <2>1. call[i][j] \in Call
    BY TypeParts DEF NetTypeOK
  <2> QED BY <2>1, CallParts DEF RequestVoteReply, VoteResponse
<1>2. CtxTypeOK /\ MetaTypeOK /\ PeerTypeOK /\ VoteTypeOK
      /\ LastLogIndex(i) \in Nat
  BY TypeParts, LogType
<1>3. NetTypeOK'
  <2>1. call' \in [Server -> [Server -> Call]]
    BY TypeParts, CallBuild, CallUpdate DEF RequestVoteReply
  <2> QED BY <2>1, TypeParts DEF RequestVoteReply, NetTypeOK
<1> HIDE DEF res
<1>4. CtxTypeOK'
  BY <1>1, <1>2
     DEF res, RequestVoteReply, CtxTypeOK, StepDown, BecomeFollower,
         BecomeLeader, Role, Address, ctxVars
<1>5. MetaTypeOK'
  BY <1>1, <1>2
     DEF res, RequestVoteReply, MetaTypeOK, StepDown, SetMeta, Address, metaVars
<1>6. PeerTypeOK'
  <2>1. UNCHANGED peerVars \/ UpdatePeerInfo(i)
    BY DEF RequestVoteReply
  <2>2. /\ [k \in Server |-> LastLogIndex(i) + 1] \in [Server -> Nat \ {0}]
        /\ [k \in Server |-> 0] \in [Server -> Nat]
    BY <1>2
  <2>3. CASE UpdatePeerInfo(i)
    BY <1>2, <2>2, <2>3, RowType DEF PeerTypeOK, UpdatePeerInfo
  <2> QED BY <1>2, <2>1, <2>3, Unmoved
<1>7. VoteTypeOK'
  BY <1>2 DEF RequestVoteReply, VoteTypeOK
<1> QED BY <1>3, <1>4, <1>5, <1>6, <1>7, TypeParts, Unmoved
        DEF RequestVoteReply, TypeOK, bounds

LEMMA TypeAppendEntriesReply ==
  ASSUME TypeOK, NEW i \in Server, NEW j \in Server, AppendEntriesReply(i, j)
  PROVE  TypeOK'
<1> DEFINE req == call[i][j].req
           res == call[i][j].res
           acked == ReplicatedBy(req)
           adjust == Lesser(res.lastLogIndex + 1, nextIndex[i][j] - 1)
           match == [matchIndex[i] EXCEPT ![j] = acked]
<1>1. req \in AppendRequest /\ res \in AppendResponse
  <2>1. call[i][j] \in Call
    BY TypeParts DEF NetTypeOK
  <2> QED BY <2>1, CallParts DEF AppendEntriesReply
<1>2. CtxTypeOK /\ MetaTypeOK /\ LogTypeOK /\ PeerTypeOK
  BY TypeParts
<1>3. acked \in Nat /\ res.term \in Nat
  <2>1. req.prevLogIndex \in Nat /\ req.entries \in Seq(Entry)
    BY <1>1 DEF AppendRequest
  <2>2. Len(req.entries) \in Nat
    BY <2>1, LenProperties
  <2>3. res.term \in Nat
    BY <1>1 DEF AppendResponse
  <2> HIDE DEF req
  <2> QED BY <2>1, <2>2, <2>3 DEF ReplicatedBy
<1>4. adjust \in Nat
  <2>1. nextIndex[i][j] \in Nat \ {0} /\ res.lastLogIndex \in Nat
    BY <1>1, <1>2 DEF PeerTypeOK, AppendResponse
  <2> QED BY <2>1 DEF Lesser
<1>5. match \in [Server -> Nat]
  BY <1>2, <1>3 DEF PeerTypeOK
<1>6. NetTypeOK'
  <2>1. call' \in [Server -> [Server -> Call]]
    BY TypeParts, CallBuild, CallUpdate DEF AppendEntriesReply
  <2>2. mu' \in [Server -> Holder]
    <3>1. UNCHANGED mu \/ mu' = [mu EXCEPT ![i] = [at |-> "leading"]]
      BY DEF AppendEntriesReply, AdvanceLeaderCommitIndex
    <3> QED BY <3>1, HolderBuild, TypeParts DEF NetTypeOK
  <2> QED BY <2>1, <2>2, TypeParts DEF AppendEntriesReply, NetTypeOK
<1>7. CtxTypeOK' /\ MetaTypeOK'
  <2>1. StepDown(i, res.term, Nil) \/ UNCHANGED <<ctxVars, metaVars>>
    BY DEF AppendEntriesReply
  <2> HIDE DEF res
  <2>2. CASE StepDown(i, res.term, Nil)
    BY <1>2, <1>3, <2>2
       DEF StepDown, BecomeFollower, SetMeta, CtxTypeOK, MetaTypeOK, Role, Address
  <2> QED BY <1>2, <2>1, <2>2, Unmoved
<1>8. PeerTypeOK'
  <2>1. \/ UNCHANGED peerVars
        \/ /\ matchIndex' = [matchIndex EXCEPT ![i] = match]
           /\ nextIndex' = [nextIndex EXCEPT ![i][j] = acked + 1]
        \/ /\ adjust > 0
           /\ nextIndex' = [nextIndex EXCEPT ![i][j] = adjust]
           /\ UNCHANGED matchIndex
    BY DEF AppendEntriesReply, peerVars
  <2>2. CASE UNCHANGED peerVars
    BY <1>2, <2>2, Unmoved
  <2> HIDE DEF acked, match, adjust
  <2>3. CASE /\ matchIndex' = [matchIndex EXCEPT ![i] = match]
             /\ nextIndex' = [nextIndex EXCEPT ![i][j] = acked + 1]
    <3>1. acked + 1 \in Nat \ {0}
      BY <1>3
    <3> QED BY <1>2, <1>5, <2>3, <3>1, RowType, SlotType DEF PeerTypeOK
  <2>4. CASE /\ adjust > 0
             /\ nextIndex' = [nextIndex EXCEPT ![i][j] = adjust]
             /\ UNCHANGED matchIndex
    <3>1. adjust \in Nat \ {0}
      BY <1>4, <2>4
    <3> QED BY <1>2, <2>4, <3>1, SlotType DEF PeerTypeOK
  <2> QED BY <2>1, <2>2, <2>3, <2>4
<1>9. LogTypeOK'
  <2>1. /\ UNCHANGED commitIndex \/ AdvanceLeaderCommitIndex(i, match)
        /\ UNCHANGED <<log, metaCommit>>
    BY DEF AppendEntriesReply
  <2> HIDE DEF match
  <2> QED BY <1>2, <1>5, <2>1 DEF AdvanceLeaderCommitIndex, LogTypeOK
<1>10. tasks' \in [Server -> [Server -> Seq(Task)]]
  <2>1. \/ UNCHANGED tasks
        \/ tasks' = [tasks EXCEPT ![i][j] =
                                Schedule(tasks[i][j], "AppendEntries")]
    BY DEF AppendEntriesReply
  <2>2. tasks \in [Server -> [Server -> Seq(Task)]]
    BY TypeParts
  <2>3. Schedule(tasks[i][j], "AppendEntries") \in Seq(Task)
    BY <2>2, ScheduleType DEF Task
  <2> DEFINE q == Schedule(tasks[i][j], "AppendEntries")
             T == Seq(Task)
  <2> HIDE DEF q, T
  <2>4. [tasks EXCEPT ![i][j] = q] \in [Server -> [Server -> T]]
    BY <2>2, <2>3, SlotType DEF q, T
  <2> QED BY <2>1, <2>2, <2>4 DEF q, T
<1> QED BY <1>6, <1>7, <1>8, <1>9, <1>10, TypeParts, Unmoved
        DEF AppendEntriesReply, TypeOK, bounds

LEMMA TypeSendAndRecvFails ==
  ASSUME TypeOK, NEW i \in Server, NEW j \in Server, SendAndRecvFails(i, j)
  PROVE  TypeOK'
<1>1. NetTypeOK'
  <2>1. call' \in [Server -> [Server -> Call]]
    BY TypeParts, CallBuild, CallUpdate DEF SendAndRecvFails
  <2>2. call[i][j] \in Call
    BY TypeParts DEF NetTypeOK
  <2>3. call[i][j].stage = "sent" => call[i][j].req \in Request
    BY <2>2, CallParts
  <2> QED BY <2>1, <2>3, TypeParts DEF SendAndRecvFails, NetTypeOK, Request
<1>2. fails' \in Nat
  BY TypeParts DEF SendAndRecvFails
<1> QED BY <1>1, <1>2, TypeParts, Unmoved DEF SendAndRecvFails, TypeOK

\* Whatever the log holds, the apply thread has an entry to hand on.
LEMMA EntryToApplyType ==
  ASSUME TypeOK, NEW i \in Server, NEW n
  PROVE  EntryToApply(i, n) \in Entry
<1>1. \A k \in 1..LastLogIndex(i) : log[i][k] \in Entry
  BY LogType, ElementOfSeq DEF LastLogIndex
<1>2. batch[i].entry \in Entry
  BY TypeParts DEF SmTypeOK, Batch
<1> QED BY <1>1, <1>2 DEF EntryToApply

LEMMA TypeApplyThread ==
  ASSUME TypeOK, NEW i \in Server, ApplyThread(i)
  PROVE  TypeOK'
<1>1. SmTypeOK /\ LogTypeOK /\ batch[i] \in Batch
  BY TypeParts DEF SmTypeOK
<1>2. NoBatch \in Batch /\ EmptyEntry \in Entry
  BY NoBatchType
<1>3. SmTypeOK'
  <2>1. CASE ApplyStateMachine(i)
    <3>1. [at |-> lastApplied[i], upto |-> commitIndex[i],
           entry |-> EmptyEntry] \in Batch
      BY <1>1, <1>2 DEF SmTypeOK, LogTypeOK, Batch
    <3> QED BY <1>1, <2>1, <3>1 DEF ApplyStateMachine, SmTypeOK
  <2>2. CASE Apply(i)
    <3> DEFINE index == batch[i].at + 1
               entry == EntryToApply(i, index)
               next  == [batch[i] EXCEPT !.at = index, !.entry = entry]
    <3>1. index \in Nat /\ entry \in Entry
      BY <1>1, EntryToApplyType DEF Batch
    <3>2. /\ applied' = [applied EXCEPT ![i] =
                           @ \cup {[index |-> index, entry |-> entry]}]
          /\ batch' = [batch EXCEPT ![i] = next]
          /\ UNCHANGED <<lastApplied, metaApplied>>
      BY <1>1, <2>2 DEF Apply, SmTypeOK
    <3> HIDE DEF index, entry
    <3>3. next \in Batch
      BY <1>1, <3>1 DEF Batch
    <3> HIDE DEF next
    <3> QED BY <1>1, <3>1, <3>2, <3>3 DEF SmTypeOK
  <2>3. CASE SetLastApplied(i)
    BY <1>1, <1>2, <2>3 DEF SetLastApplied, SmTypeOK, Batch
  <2> QED BY <2>1, <2>2, <2>3 DEF ApplyThread
<1>4. UNCHANGED applyFrame
  BY DEF ApplyThread, ApplyStateMachine, Apply, SetLastApplied
<1> QED BY <1>3, <1>4, TypeParts, Unmoved DEF applyFrame, TypeOK, bounds

LEMMA TypeApplyFails ==
  ASSUME TypeOK, NEW i \in Server, ApplyFails(i)
  PROVE  TypeOK'
<1>1. SmTypeOK'
  BY TypeParts, NoBatchType DEF ApplyFails, SmTypeOK
<1>2. fails' \in Nat
  BY TypeParts DEF ApplyFails
<1> QED BY <1>1, <1>2, TypeParts, Unmoved DEF ApplyFails, TypeOK

LEMMA TypeRestart ==
  ASSUME TypeOK, NEW i \in Server, Restart(i)
  PROVE  TypeOK'
<1>1. CtxTypeOK /\ MetaTypeOK /\ LogTypeOK /\ SmTypeOK /\ PeerTypeOK
      /\ NetTypeOK /\ VoteTypeOK
  BY TypeParts
<1>2. CtxTypeOK'
  BY <1>1 DEF Restart, CtxTypeOK, MetaTypeOK, Role, Address
<1>3. LogTypeOK' /\ SmTypeOK'
  BY <1>1, NoBatchType DEF Restart, LogTypeOK, SmTypeOK
<1>4. PeerTypeOK'
  <2>1. LastLogIndex(i) \in Nat /\ metaApplied[i] \in Nat
    BY <1>1, LogType DEF SmTypeOK
  <2>2. /\ [j \in Server |-> LastLogIndex(i) + 1] \in [Server -> Nat \ {0}]
        /\ [j \in Server |-> metaApplied[i]] \in [Server -> Nat]
    BY <2>1
  <2> QED BY <1>1, <2>2, RowType DEF PeerTypeOK, Restart
<1>5. NetTypeOK'
  <2>1. call' \in [Server -> [Server -> Call]]
    BY <1>1, CallBuild DEF Restart, NetTypeOK
  <2>2. \A j \in Server :
          call[i][j].stage = "sent" => call[i][j].req \in Request
    BY <1>1, CallParts DEF NetTypeOK
  <2>3. PICK left \in SUBSET {call[i][j].req : j \in {k \in Server :
                                                call[i][k].stage = "sent"}} :
          late' = late \cup left
    BY DEF Restart
  <2>4. mu' \in [Server -> Holder]
    BY <1>1, HolderBuild DEF Restart, NetTypeOK
  <2> QED BY <1>1, <2>1, <2>2, <2>3, <2>4 DEF NetTypeOK, Request
<1>6. VoteTypeOK'
  BY <1>1 DEF Restart, VoteTypeOK
<1>7. tasks' \in [Server -> [Server -> Seq(Task)]]
  <2>1. [j \in Server |-> <<>>] \in [Server -> Seq(Task)]
    BY EmptySeq
  <2> QED BY <2>1, TypeParts, RowType DEF Restart
<1>8. cmds' \in [Command -> CommandState]
  <2>1. cmds \in [Command -> CommandState]
    BY TypeParts
  <2>2. ASSUME NEW c \in Command, cmds[c].at = i
        PROVE  [cmds[c] EXCEPT !.stage = "failed"] \in CommandState
    <3>1. cmds[c] \in RunningCommand
      BY <2>1, <2>2, ServerAssumption DEF CommandState
    <3> QED BY <3>1 DEF CommandState, RunningCommand
  <2> QED BY <2>1, <2>2 DEF Restart
<1>9. restarts' \in Nat
  BY TypeParts DEF Restart
<1> QED BY <1>2, <1>3, <1>4, <1>5, <1>6, <1>7, <1>8, <1>9, TypeParts, Unmoved
        DEF Restart, TypeOK

\* Every step of a command's thread leaves it in a typed state.
LEMMA CommandUpdate ==
  ASSUME NEW s \in RunningCommand, NEW n \in Nat,
         NEW st \in {"checked", "built", "appended", "committed", "saving",
                     "waiting", "ok", "failed"}
  PROVE  /\ [s EXCEPT !.stage = st] \in CommandState
         /\ [s EXCEPT !.stage = st, !.read = n] \in CommandState
         /\ [s EXCEPT !.stage = st, !.index = n] \in CommandState
  BY DEF CommandState, RunningCommand

LEMMA TypeCommand ==
  ASSUME TypeOK, NEW c \in Command, CommandStep(c)
  PROVE  TypeOK'
<1> DEFINE s == cmds[c]
           i == cmds[c].at
<1>1. cmds \in [Command -> CommandState] /\ s \in CommandState
  BY TypeParts
<1>2. LogTypeOK /\ CtxTypeOK
  BY TypeParts
<1>3. s.stage # "new" => s \in RunningCommand /\ i \in Server
  BY <1>1 DEF CommandState, RunningCommand
<1>4. ASSUME NEW t \in CommandState, cmds' = [cmds EXCEPT ![c] = t],
             LogTypeOK', UNCHANGED commandFrame
      PROVE  TypeOK'
  <2>1. cmds' \in [Command -> CommandState]
    BY <1>1, <1>4
  <2> QED BY <1>4, <2>1, TypeParts, Unmoved DEF TypeOK, commandFrame, bounds
<1>5. CASE \E k \in Server : DoCommand(c, k)
  <2>1. PICK k \in Server : DoCommand(c, k)
    BY <1>5
  <2>2. [s EXCEPT !.stage = "checked", !.at = k] \in CommandState
    BY <1>1 DEF CommandState, RunningCommand
  <2> QED BY <1>2, <1>4, <2>1, <2>2, Unmoved DEF DoCommand
<1>6. CASE BuildLogEntry(c)
  <2>1. currentTerm[i] \in Nat /\ s \in RunningCommand
    BY <1>2, <1>3, <1>6 DEF BuildLogEntry, CtxTypeOK
  <2>2. [s EXCEPT !.stage = "built", !.read = currentTerm[i]] \in CommandState
    BY <2>1, CommandUpdate
  <2> QED BY <1>2, <1>4, <1>6, <2>2, Unmoved DEF BuildLogEntry
<1>7. CASE ExecuteCommand(c)
  <2>1. s \in RunningCommand /\ i \in Server
    BY <1>3, <1>7 DEF ExecuteCommand
  <2>2. log[i] \in Seq(Entry) /\ Len(log[i]) + 1 \in Nat
    BY SMTT(30), <2>1, LogType DEF LastLogIndex
  <2>3. [s EXCEPT !.stage = IF SingleMode THEN "appended" ELSE "waiting",
                  !.index = Len(log[i]) + 1] \in CommandState
    BY <2>1, <2>2, CommandUpdate
  <2>4. LogTypeOK'
    <3> DEFINE e == [term |-> s.read, cmd |-> c]
    <3>1. e \in Entry
      BY <2>1 DEF RunningCommand, Entry
    <3>2. log' = [log EXCEPT ![i] = Append(log[i], e)]
      BY <1>7 DEF ExecuteCommand
    <3> HIDE DEF e
    <3>3. Append(log[i], e) \in Seq(Entry)
      BY <2>2, <3>1
    <3> QED BY <1>2, <1>7, <3>2, <3>3 DEF ExecuteCommand, LogTypeOK
  <2> QED BY <1>4, <1>7, <2>3, <2>4 DEF ExecuteCommand
<1>8. CASE CommitSingle(c)
  <2>1. s \in RunningCommand /\ s.index \in Nat
    BY <1>3, <1>8 DEF CommitSingle, RunningCommand
  <2>2. LogTypeOK'
    BY <1>2, <1>8, <2>1 DEF CommitSingle, LogTypeOK
  <2> QED BY <1>4, <1>8, <2>1, <2>2, CommandUpdate DEF CommitSingle
<1>9. CASE RereadCommitIndex(c)
  <2>1. commitIndex[i] \in Nat /\ s \in RunningCommand
    BY <1>2, <1>3, <1>9 DEF RereadCommitIndex, LogTypeOK
  <2>2. [s EXCEPT !.stage = "saving", !.read = commitIndex[i]] \in CommandState
    BY <2>1, CommandUpdate
  <2> QED BY <1>2, <1>4, <1>9, <2>2, Unmoved DEF RereadCommitIndex
<1>10. CASE SaveCommitIndex(c)
  <2>1. s \in RunningCommand /\ s.read \in Nat
    BY <1>3, <1>10 DEF SaveCommitIndex, RunningCommand
  <2>2. LogTypeOK'
    BY <1>2, <1>10, <2>1 DEF SaveCommitIndex, LogTypeOK
  <2> QED BY <1>4, <1>10, <2>1, <2>2, CommandUpdate DEF SaveCommitIndex
<1>11. CASE CommandApplied(c) \/ CommandTimeout(c)
  <2>1. s \in RunningCommand
    BY <1>3, <1>11 DEF CommandApplied, CommandTimeout
  <2> QED BY <1>2, <1>4, <1>11, <2>1, CommandUpdate, Unmoved
          DEF CommandApplied, CommandTimeout
<1> QED BY <1>5, <1>6, <1>7, <1>8, <1>9, <1>10, <1>11 DEF CommandStep

LEMMA TypeStutter == TypeOK /\ UNCHANGED vars => TypeOK'
  BY TypeParts, Unmoved DEF vars, TypeOK, bounds

\* A step of the system keeps every variable of its type.
LEMMA TypeNext == TypeOK /\ [Next]_vars => TypeOK'
<1> SUFFICES ASSUME TypeOK, Next PROVE TypeOK'
  BY TypeStutter
<1>1. CASE \E i \in Server : ServerStep(i)
  BY <1>1, TypeCheckLeader, TypeHeartBeat, TypeApplyThread, TypeApplyFails,
     TypeRestart
     DEF ServerStep, ApplyThread
<1>2. CASE \E i \in Server : \E j \in Server \ {i} : PeerStep(i, j)
  BY <1>2, TypeRequestVoteRPC, TypeAppendEntriesSkip, TypeAppendEntriesRPC,
     TypeAppendEntriesRead, TypeRequestVoteReply, TypeAppendEntriesReply,
     TypeSendAndRecvFails DEF PeerStep
<1>3. CASE \E r \in InFlight : ReplyRequestVote(r) \/ ReplyAppendEntries(r)
  BY <1>3, TypeReplyRequestVote, TypeReplyAppendEntries
<1>4. CASE \E c \in Command : CommandStep(c)
  BY <1>4, TypeCommand
<1>5. CASE \E i \in Server : HolderStep(i)
  BY <1>5, TypeHolder
<1> QED BY <1>1, <1>2, <1>3, <1>4, <1>5 DEF Next

\* Every variable keeps its type in every run of the threads of floyd: in
\* particular next_index_ stays positive, so that prev_log_index never wraps
\* around, whatever answers arrive and in whatever order.
THEOREM TypeCorrect == Spec => []TypeOK
  BY TypeInit, TypeNext, PTL DEF Spec

-----------------------------------------------------------------------------
(* Elections: the inductive invariant *)

Grant(t, v, c) == [term |-> t, voter |-> v, candidate |-> c]

\* A peer thread calls another server, and says who it is.
CallsAddressed ==
  /\ \A i, j \in Server : call[i][j].stage \in {"header", "sent", "serving"} =>
       /\ i # j
       /\ call[i][j].req.from = i
       /\ call[i][j].req.to = j
  /\ \A i \in Server : call[i][i] = Idle
  /\ \A r \in late : r.from # r.to

\* A granted vote that a candidate holds in its hands was given.
GrantsRecorded ==
  \A i, j \in Server :
    /\ call[i][j].stage = "replied"
    /\ call[i][j].req.type = "RequestVote"
    /\ call[i][j].res.granted
    => Grant(call[i][j].res.term, j, i) \in grants

CallsInv == CallsAddressed /\ GrantsRecorded

TermSaved == \A i \in Server : metaTerm[i] = currentTerm[i]

\* A leader holds a vote of another server, given in the term it leads.
LeaderHasVote ==
  ~SingleMode => \A i \in Server : role[i] = "kLeader" =>
    \E v \in Server \ {i} : Grant(currentTerm[i], v, i) \in grants

\* Until the first restart vote_for_ remembers every vote.
VotesKept ==
  restarts = 0 => \A g \in grants :
    [term |-> g.term, candidate |-> g.candidate] \in voteFor[g.voter]

\* vote_for_ is a map.
VotesFunctional ==
  \A i \in Server : \A u, v \in voteFor[i] :
    u.term = v.term => u.candidate = v.candidate

\* Who has voted in a term stands in it no more, unless terms go back.
GrantEndsCandidacy ==
  ~SingleMode /\ fellBack = {} => \A g \in grants :
    /\ currentTerm[g.voter] >= g.term
    /\ currentTerm[g.voter] = g.term => role[g.voter] = "kFollower"

VotesInv ==
  /\ TermSaved
  /\ LeaderHasVote
  /\ VotesKept
  /\ VotesFunctional
  /\ GrantEndsCandidacy

ElectionInv == TypeOK /\ CallsInv /\ VotesInv

electionVars == <<currentTerm, role, metaTerm, voteFor, grants, fellBack,
                  restarts>>

LEMMA ElectionInit == Init => ElectionInv
<1> SUFFICES ASSUME Init PROVE CallsInv /\ VotesInv
  BY TypeInit DEF ElectionInv
<1>1. CallsInv
  BY DEF Init, CallsInv, CallsAddressed, GrantsRecorded, Idle
<1>2. VotesInv
  BY DEF Init, VotesInv, TermSaved, LeaderHasVote, VotesKept, VotesFunctional,
         GrantEndsCandidacy
<1> QED BY <1>1, <1>2

\* Steps that leave the contexts and the votes alone.
LEMMA VotesUnmoved ==
  ASSUME VotesInv, UNCHANGED electionVars
  PROVE  VotesInv'
  BY DEF VotesInv, TermSaved, LeaderHasVote, VotesKept, VotesFunctional,
         GrantEndsCandidacy, electionVars, SingleMode, Grant

\* Steps after which no server leads that did not lead its term before.
LEMMA LeadersKept ==
  ASSUME VotesInv, grants \subseteq grants',
         \A k \in Server : role'[k] = "kLeader" =>
           role[k] = "kLeader" /\ currentTerm'[k] = currentTerm[k]
  PROVE  LeaderHasVote'
<1> SUFFICES ASSUME ~SingleMode, NEW k \in Server, role'[k] = "kLeader"
             PROVE  \E v \in Server \ {k} :
                      Grant(currentTerm'[k], v, k) \in grants'
  BY DEF LeaderHasVote, SingleMode
<1>1. role[k] = "kLeader" /\ currentTerm'[k] = currentTerm[k]
  OBVIOUS
<1>2. \E v \in Server \ {k} : Grant(currentTerm[k], v, k) \in grants
  BY <1>1 DEF VotesInv, LeaderHasVote
<1> QED BY <1>1, <1>2

\* BecomeFollower with a term that is not older is harmless, whoever calls it.
LEMMA VotesFollower ==
  ASSUME TypeOK, VotesInv, NEW i \in Server, NEW t \in Nat,
         t >= currentTerm[i],
         currentTerm' = [currentTerm EXCEPT ![i] = t],
         role' = [role EXCEPT ![i] = "kFollower"],
         metaTerm' = [metaTerm EXCEPT ![i] = t],
         UNCHANGED <<voteFor, grants, fellBack, restarts>>
  PROVE  VotesInv'
<1>1. CtxTypeOK /\ MetaTypeOK /\ VoteTypeOK
  BY TypeParts
<1>2. TermSaved'
  BY <1>1 DEF VotesInv, TermSaved, CtxTypeOK, MetaTypeOK
<1>3. LeaderHasVote'
  BY <1>1, LeadersKept DEF CtxTypeOK
<1>4. VotesKept' /\ VotesFunctional'
  BY DEF VotesInv, VotesKept, VotesFunctional
<1>5. GrantEndsCandidacy'
  BY <1>1 DEF VotesInv, GrantEndsCandidacy, CtxTypeOK, VoteTypeOK, SingleMode
<1> QED BY <1>2, <1>3, <1>4, <1>5 DEF VotesInv

LEMMA VotesCheckLeader ==
  ASSUME ElectionInv, NEW i \in Server, LaunchCheckLeader(i)
  PROVE  VotesInv'
<1>1. CtxTypeOK /\ MetaTypeOK /\ VoteTypeOK /\ VotesInv
  BY TypeParts DEF ElectionInv
<1>2. TermSaved'
  BY <1>1 DEF VotesInv, TermSaved, CtxTypeOK, MetaTypeOK, LaunchCheckLeader,
              BecomeLeader, BecomeCandidate, SetMeta
<1>3. LeaderHasVote'
  <2>1. CASE SingleMode
    BY <2>1 DEF LeaderHasVote, SingleMode
  <2>2. CASE ~SingleMode
    BY <1>1, <2>2, LeadersKept
       DEF CtxTypeOK, LaunchCheckLeader, BecomeCandidate, voteVars
  <2> QED BY <2>1, <2>2
<1>4. VotesKept' /\ VotesFunctional'
  BY <1>1 DEF VotesInv, VotesKept, VotesFunctional, LaunchCheckLeader, voteVars,
              bounds
<1>5. GrantEndsCandidacy'
  BY <1>1 DEF VotesInv, GrantEndsCandidacy, CtxTypeOK, VoteTypeOK, SingleMode,
              LaunchCheckLeader, BecomeCandidate, voteVars
<1> QED BY <1>2, <1>3, <1>4, <1>5 DEF VotesInv

LEMMA VotesReplyRequestVote ==
  ASSUME ElectionInv, NEW r \in InFlight, ReplyRequestVote(r)
  PROVE  VotesInv'
<1> DEFINE i == r.to
<1>1. TypeOK /\ CtxTypeOK /\ MetaTypeOK /\ VoteTypeOK /\ VotesInv
  BY TypeParts DEF ElectionInv
<1>2. i \in Server /\ r.from \in Server /\ r.term \in Nat
  BY <1>1, InFlightType
<1>3. CASE UNCHANGED <<ctxVars, metaVars, voteVars>>
  BY <1>1, <1>3, VotesUnmoved
     DEF ReplyRequestVote, electionVars, ctxVars, metaVars, voteVars, bounds
<1>4. CASE /\ r.term > currentTerm[i]
           /\ BecomeFollower(i, r.term, Nil)
           /\ metaTerm' = [metaTerm EXCEPT ![i] = r.term]
           /\ UNCHANGED voteVars
  <2>1. r.term >= currentTerm[i]
    BY <1>1, <1>2, <1>4 DEF CtxTypeOK
  <2> HIDE DEF i
  <2> QED BY <1>1, <1>2, <1>4, <2>1, VotesFollower
          DEF BecomeFollower, ReplyRequestVote, voteVars, bounds
<1> DEFINE g == Grant(r.term, i, r.from)
<1>5. CASE /\ r.term >= currentTerm[i]
           /\ ~VotedForOther(i, r)
           /\ voteFor' = [voteFor EXCEPT ![i] =
                           @ \cup {[term |-> r.term, candidate |-> r.from]}]
           /\ grants' = grants \cup {g}
           /\ currentTerm' = [currentTerm EXCEPT ![i] = r.term]
           /\ role' = [role EXCEPT ![i] = "kFollower"]
           /\ metaTerm' = [metaTerm EXCEPT ![i] = r.term]
           /\ UNCHANGED <<fellBack, restarts>>
  <2> HIDE DEF i
  <2>1. TermSaved'
    BY <1>1, <1>2, <1>5 DEF VotesInv, TermSaved, CtxTypeOK, MetaTypeOK
  <2>2. LeaderHasVote'
    BY <1>1, <1>2, <1>5, LeadersKept DEF CtxTypeOK
  <2>3. VotesKept'
    <3> SUFFICES ASSUME restarts = 0, NEW h \in grants'
                 PROVE  [term |-> h.term, candidate |-> h.candidate]
                          \in voteFor'[h.voter]
      BY <1>5 DEF VotesKept
    <3>1. CASE h = g
      BY <1>1, <1>2, <1>5, <3>1 DEF VoteTypeOK, Grant
    <3>2. CASE h \in grants
      <4>1. /\ [term |-> h.term, candidate |-> h.candidate] \in voteFor[h.voter]
            /\ h.voter \in Server
        BY <1>1, <3>2 DEF VotesInv, VotesKept, VoteTypeOK
      <4>2. voteFor[h.voter] \subseteq voteFor'[h.voter]
        BY <1>1, <1>2, <1>5, <4>1 DEF VoteTypeOK
      <4> QED BY <4>1, <4>2
    <3> QED BY <1>5, <3>1, <3>2
  <2>4. VotesFunctional'
    BY <1>1, <1>2, <1>5 DEF VotesInv, VotesFunctional, VoteTypeOK, VotedForOther
  <2>5. GrantEndsCandidacy'
    BY <1>1, <1>2, <1>5
       DEF VotesInv, GrantEndsCandidacy, CtxTypeOK, VoteTypeOK, SingleMode, Grant
  <2> QED BY <2>1, <2>2, <2>3, <2>4, <2>5 DEF VotesInv
<1> QED BY <1>3, <1>4, <1>5
        DEF ReplyRequestVote, SetMeta, Grant, bounds, voteVars

LEMMA VotesReplyAppendEntries ==
  ASSUME ElectionInv, NEW r \in InFlight, ReplyAppendEntries(r)
  PROVE  VotesInv'
<1> DEFINE i == r.to
<1>1. TypeOK /\ CtxTypeOK /\ VotesInv
  BY TypeParts DEF ElectionInv
<1>2. i \in Server /\ r.from \in Server /\ r.term \in Nat
  BY <1>1, InFlightType
<1>3. UNCHANGED <<voteFor, grants, fellBack, restarts>>
  BY DEF ReplyAppendEntries, voteVars, bounds
<1>4. \/ UNCHANGED <<ctxVars, metaVars>>
      \/ r.term >= currentTerm[i] /\ StepDown(i, r.term, r.from)
  BY DEF ReplyAppendEntries, FollowSender
<1> HIDE DEF i
<1>5. CASE UNCHANGED <<ctxVars, metaVars>>
  BY <1>1, <1>3, <1>5, VotesUnmoved DEF electionVars, ctxVars, metaVars
<1>6. CASE r.term >= currentTerm[i] /\ StepDown(i, r.term, r.from)
  BY <1>1, <1>2, <1>3, <1>6, VotesFollower
     DEF StepDown, BecomeFollower, SetMeta
<1> QED BY <1>4, <1>5, <1>6

LEMMA VotesRequestVoteReply ==
  ASSUME ElectionInv, NEW i \in Server, NEW j \in Server \ {i},
         RequestVoteReply(i, j)
  PROVE  VotesInv'
<1> DEFINE res == call[i][j].res
<1>1. TypeOK /\ CtxTypeOK /\ MetaTypeOK /\ VoteTypeOK /\ VotesInv
  BY TypeParts DEF ElectionInv
<1>2. res.term \in Nat
  <2>1. call[i][j] \in Call
    BY TypeParts, <1>1 DEF NetTypeOK
  <2> QED BY <2>1, CallParts DEF RequestVoteReply, VoteResponse
<1>3. UNCHANGED <<voteFor, grants, restarts>>
  BY DEF RequestVoteReply, bounds
<1>4. res.granted /\ IsVoteOfTerm(i, res)
        => Grant(currentTerm[i], j, i) \in grants
  BY DEF ElectionInv, CallsInv, GrantsRecorded, RequestVoteReply, IsVoteOfTerm
<1>5. \/ UNCHANGED <<ctxVars, metaVars, fellBack>>
      \/ /\ res.term >= currentTerm[i]
         /\ StepDown(i, res.term, Nil)
         /\ UNCHANGED fellBack
      \/ /\ res.term < currentTerm[i]
         /\ StepDown(i, res.term, Nil)
         /\ i \in fellBack'
      \/ /\ role[i] = "kCandidate"
         /\ res.granted /\ IsVoteOfTerm(i, res)
         /\ UNCHANGED <<metaTerm, currentTerm, fellBack>>
         /\ BecomeLeader(i) \/ UNCHANGED role
  <2>1. currentTerm[i] \in Nat
    BY <1>1 DEF CtxTypeOK
  <2>2. CASE res.term > currentTerm[i]
    BY <1>2, <2>1, <2>2 DEF RequestVoteReply
  <2>3. CASE res.term <= currentTerm[i] /\ role[i] # "kCandidate"
    BY <1>2, <2>1, <2>3 DEF RequestVoteReply
  <2>4. CASE res.term <= currentTerm[i] /\ role[i] = "kCandidate"
             /\ ~res.granted
    <3>1. /\ StepDown(i, res.term, Nil)
          /\ fellBack' = fellBack \cup {k \in {i} : res.term < currentTerm[k]}
      BY <1>2, <2>1, <2>4 DEF RequestVoteReply
    <3>2. CASE res.term < currentTerm[i]
      BY <3>1, <3>2
    <3>3. CASE ~(res.term < currentTerm[i])
      <4>1. res.term >= currentTerm[i]
        BY <1>2, <2>1, <3>3
      <4> QED BY <3>1, <3>3, <4>1
    <3> QED BY <3>2, <3>3
  <2>5. CASE res.term <= currentTerm[i] /\ role[i] = "kCandidate"
             /\ res.granted /\ ~IsVoteOfTerm(i, res)
    BY <1>2, <2>1, <2>5 DEF RequestVoteReply
  <2>6. CASE res.term <= currentTerm[i] /\ role[i] = "kCandidate"
             /\ res.granted /\ IsVoteOfTerm(i, res)
    <3>1. /\ UNCHANGED <<metaVars, fellBack>>
          /\ \/ BecomeLeader(i)
             \/ UNCHANGED <<currentTerm, role>>
      BY <1>2, <2>1, <2>6 DEF RequestVoteReply
    <3>2. UNCHANGED <<metaTerm, currentTerm>>
      BY <3>1 DEF BecomeLeader, metaVars
    <3> QED BY <2>6, <3>1, <3>2
  <2>7. res.term > currentTerm[i] \/ res.term <= currentTerm[i]
    BY <1>2, <2>1
  <2> QED BY <2>2, <2>3, <2>4, <2>5, <2>6, <2>7
<1> HIDE DEF res
<1>6. CASE UNCHANGED <<ctxVars, metaVars, fellBack>>
  BY <1>1, <1>3, <1>6, VotesUnmoved DEF electionVars, ctxVars, metaVars
<1>7. CASE /\ res.term >= currentTerm[i]
           /\ StepDown(i, res.term, Nil)
           /\ UNCHANGED fellBack
  BY <1>1, <1>2, <1>3, <1>7, VotesFollower DEF StepDown, BecomeFollower, SetMeta
<1>8. CASE /\ res.term < currentTerm[i]
           /\ StepDown(i, res.term, Nil)
           /\ i \in fellBack'
  <2>1. TermSaved'
    BY <1>1, <1>8 DEF VotesInv, TermSaved, CtxTypeOK, MetaTypeOK, StepDown,
                      BecomeFollower, SetMeta
  <2>2. LeaderHasVote'
    BY <1>1, <1>3, <1>8, LeadersKept DEF CtxTypeOK, StepDown, BecomeFollower
  <2>3. VotesKept' /\ VotesFunctional'
    BY <1>1, <1>3 DEF VotesInv, VotesKept, VotesFunctional
  <2>4. GrantEndsCandidacy'
    BY <1>8 DEF GrantEndsCandidacy
  <2> QED BY <2>1, <2>2, <2>3, <2>4 DEF VotesInv
<1>9. CASE /\ role[i] = "kCandidate"
           /\ res.granted /\ IsVoteOfTerm(i, res)
           /\ UNCHANGED <<metaTerm, currentTerm, fellBack>>
           /\ BecomeLeader(i)
  <2>1. TermSaved'
    BY <1>1, <1>9 DEF VotesInv, TermSaved
  <2>2. LeaderHasVote'
    <3> SUFFICES ASSUME ~SingleMode, NEW k \in Server, role'[k] = "kLeader"
                 PROVE  \E v \in Server \ {k} :
                          Grant(currentTerm'[k], v, k) \in grants'
      BY DEF LeaderHasVote, SingleMode
    <3>1. CASE k = i
      BY <1>3, <1>4, <1>9, <3>1
    <3>2. CASE k # i
      <4>1. role[k] = "kLeader"
        BY <1>1, <1>9, <3>2 DEF BecomeLeader, CtxTypeOK
      <4>2. \E v \in Server \ {k} : Grant(currentTerm[k], v, k) \in grants
        BY <1>1, <4>1 DEF VotesInv, LeaderHasVote
      <4> QED BY <1>3, <1>9, <4>2
    <3> QED BY <3>1, <3>2
  <2>3. VotesKept' /\ VotesFunctional'
    BY <1>1, <1>3 DEF VotesInv, VotesKept, VotesFunctional
  <2>4. GrantEndsCandidacy'
    BY <1>1, <1>3, <1>9
       DEF VotesInv, GrantEndsCandidacy, BecomeLeader, CtxTypeOK, VoteTypeOK,
           SingleMode
  <2> QED BY <2>1, <2>2, <2>3, <2>4 DEF VotesInv
<1>10. CASE UNCHANGED <<metaTerm, currentTerm, fellBack, role>>
  BY <1>1, <1>3, <1>10, VotesUnmoved DEF electionVars
<1> QED BY <1>5, <1>6, <1>7, <1>8, <1>9, <1>10

LEMMA VotesAppendEntriesReply ==
  ASSUME ElectionInv, NEW i \in Server, NEW j \in Server \ {i},
         AppendEntriesReply(i, j)
  PROVE  VotesInv'
<1> DEFINE res == call[i][j].res
<1>1. TypeOK /\ CtxTypeOK /\ VotesInv
  BY TypeParts DEF ElectionInv
<1>2. res.term \in Nat
  <2>1. call[i][j] \in Call
    BY TypeParts, <1>1 DEF NetTypeOK
  <2> QED BY <2>1, CallParts DEF AppendEntriesReply, AppendResponse
<1>3. UNCHANGED <<voteFor, grants, fellBack, restarts>>
  BY DEF AppendEntriesReply, voteVars, bounds
<1>4. \/ UNCHANGED <<ctxVars, metaVars>>
      \/ res.term >= currentTerm[i] /\ StepDown(i, res.term, Nil)
  <2>1. currentTerm[i] \in Nat
    BY <1>1 DEF CtxTypeOK
  <2> QED BY <1>2, <2>1 DEF AppendEntriesReply
<1> HIDE DEF res
<1>5. CASE UNCHANGED <<ctxVars, metaVars>>
  BY <1>1, <1>3, <1>5, VotesUnmoved DEF electionVars, ctxVars, metaVars
<1>6. CASE res.term >= currentTerm[i] /\ StepDown(i, res.term, Nil)
  BY <1>1, <1>2, <1>3, <1>6, VotesFollower DEF StepDown, BecomeFollower, SetMeta
<1> QED BY <1>4, <1>5, <1>6

LEMMA VotesRestart ==
  ASSUME ElectionInv, NEW i \in Server, Restart(i)
  PROVE  VotesInv'
<1>1. CtxTypeOK /\ MetaTypeOK /\ VoteTypeOK /\ VotesInv /\ restarts \in Nat
  BY TypeParts DEF ElectionInv
<1>2. UNCHANGED currentTerm
  BY <1>1 DEF VotesInv, TermSaved, CtxTypeOK, Restart
<1>3. TermSaved'
  BY <1>1, <1>2 DEF VotesInv, TermSaved, Restart, metaVars
<1>4. LeaderHasVote'
  BY <1>1, <1>2, LeadersKept DEF CtxTypeOK, Restart
<1>5. VotesKept'
  BY <1>1 DEF VotesKept, Restart
<1>6. VotesFunctional'
  BY <1>1 DEF VotesInv, VotesFunctional, VoteTypeOK, Restart
<1>7. GrantEndsCandidacy'
  BY <1>1, <1>2 DEF VotesInv, GrantEndsCandidacy, CtxTypeOK, VoteTypeOK,
                    SingleMode, Restart
<1> QED BY <1>3, <1>4, <1>5, <1>6, <1>7 DEF VotesInv

\* Whatever else a step does, the votes stay in order.
LEMMA VotesNext == ElectionInv /\ [Next]_vars => VotesInv'
<1> SUFFICES ASSUME ElectionInv, [Next]_vars PROVE VotesInv'
  OBVIOUS
<1>0. VotesInv
  BY DEF ElectionInv
<1> USE DEF electionVars, ctxVars, metaVars, voteVars, bounds
<1>1. CASE UNCHANGED vars
  BY <1>0, <1>1, VotesUnmoved DEF vars
<1>2. ASSUME NEW i \in Server, ServerStep(i) PROVE VotesInv'
  <2>1. CASE LaunchHeartBeat(i) \/ ApplyThread(i) \/ ApplyFails(i)
    BY <1>0, <2>1, VotesUnmoved
       DEF LaunchHeartBeat, ApplyThread, ApplyStateMachine, Apply,
           SetLastApplied, ApplyFails, applyFrame
  <2> QED BY <1>2, <2>1, VotesCheckLeader, VotesRestart
          DEF ServerStep, ApplyThread
<1>3. ASSUME NEW i \in Server, NEW j \in Server \ {i}, PeerStep(i, j)
      PROVE  VotesInv'
  <2>1. CASE RequestVoteRPC(i, j) \/ AppendEntriesSkip(i, j)
             \/ AppendEntriesRPC(i, j) \/ AppendEntriesRead(i, j)
             \/ SendAndRecvFails(i, j)
    BY <1>0, <2>1, VotesUnmoved
       DEF RequestVoteRPC, AppendEntriesSkip, AppendEntriesRPC,
           AppendEntriesRead, SendAndRecvFails
  <2> QED BY <1>3, <2>1, VotesRequestVoteReply, VotesAppendEntriesReply
          DEF PeerStep
<1>4. ASSUME NEW c \in Command, CommandStep(c) PROVE VotesInv'
  <2>1. UNCHANGED commandFrame
    BY <1>4 DEF CommandStep, DoCommand, BuildLogEntry, ExecuteCommand,
                CommitSingle, RereadCommitIndex, SaveCommitIndex,
                CommandApplied, CommandTimeout
  <2> QED BY <1>0, <2>1, VotesUnmoved DEF commandFrame
<1>5. ASSUME NEW i \in Server, HolderStep(i) PROVE VotesInv'
  BY <1>0, <1>5, HolderFrame, VotesUnmoved DEF serviceFrame
<1> QED BY <1>1, <1>2, <1>3, <1>4, <1>5, VotesReplyRequestVote,
           VotesReplyAppendEntries DEF Next

-----------------------------------------------------------------------------

Addressed(c, i, j) ==
  c.stage \in {"header", "sent", "serving"} => c.req.from = i /\ c.req.to = j

Recorded(c, i, j, G) ==
  c.stage = "replied" /\ c.req.type = "RequestVote" /\ c.res.granted
  => Grant(c.res.term, j, i) \in G

\* One peer thread moves on, with a request of its own or an answer to it.
LEMMA CallsSlot ==
  ASSUME NetTypeOK, CallsInv, NEW i \in Server, NEW j \in Server \ {i}, NEW c,
         Addressed(c, i, j), Recorded(c, i, j, grants'),
         call' = [call EXCEPT ![i][j] = c],
         \A r \in late' : r.from # r.to,
         grants \subseteq grants'
  PROVE  CallsInv'
<1>1. \A k, l \in Server :
        call'[k][l] = IF k = i /\ l = j THEN c ELSE call[k][l]
  BY DEF NetTypeOK
<1>2. CallsAddressed'
  BY <1>1 DEF CallsInv, CallsAddressed, Addressed
<1>3. GrantsRecorded'
  BY <1>1 DEF CallsInv, GrantsRecorded, Recorded
<1> QED BY <1>2, <1>3 DEF CallsInv

LEMMA CallsUnmoved ==
  ASSUME CallsInv, UNCHANGED <<call, late, grants>>
  PROVE  CallsInv'
  BY DEF CallsInv, CallsAddressed, GrantsRecorded

\* A request in flight goes from one server to another.
LEMMA InFlightAddressed ==
  ASSUME CallsInv, NEW r \in InFlight
  PROVE  r.from # r.to
  BY DEF CallsInv, CallsAddressed, InFlight

LEMMA CallsReply ==
  ASSUME TypeOK, CallsInv, NEW r \in InFlight, NEW res, Reply(r, res),
         grants \subseteq grants',
         r.type = "RequestVote" /\ res.granted
           => Grant(res.term, r.to, r.from) \in grants'
  PROVE  CallsInv'
<1> DEFINE i == r.from
           j == r.to
           c == [stage |-> "replied", req |-> r, res |-> res]
<1>1. i \in Server /\ j \in Server \ {i} /\ NetTypeOK
  BY InFlightType, InFlightAddressed, TypeParts
<1>2. CASE call' = [call EXCEPT ![i][j] = c] /\ UNCHANGED late
  <2>1. Addressed(c, i, j) /\ Recorded(c, i, j, grants')
    BY DEF Addressed, Recorded
  <2>2. \A q \in late' : q.from # q.to
    BY <1>2 DEF CallsInv, CallsAddressed
  <2> HIDE DEF i, j, c
  <2> QED BY <1>1, <1>2, <2>1, <2>2, CallsSlot
<1>3. CASE UNCHANGED call /\ late' = late \ {r}
  BY <1>3 DEF CallsInv, CallsAddressed, GrantsRecorded
<1> QED BY <1>2, <1>3 DEF Reply

LEMMA CallsBeginService ==
  ASSUME TypeOK, CallsInv, NEW r \in InFlight, BeginService(r), UNCHANGED grants
  PROVE  CallsInv'
<1> DEFINE i == r.from
           j == r.to
           c == [stage |-> "serving", req |-> r]
<1>1. i \in Server /\ j \in Server \ {i} /\ NetTypeOK
  BY InFlightType, InFlightAddressed, TypeParts
<1>2. CASE call' = [call EXCEPT ![i][j] = c] /\ UNCHANGED late
  <2>1. Addressed(c, i, j) /\ Recorded(c, i, j, grants')
    BY DEF Addressed, Recorded
  <2>2. \A q \in late' : q.from # q.to
    BY <1>2 DEF CallsInv, CallsAddressed
  <2> HIDE DEF i, j, c
  <2> QED BY <1>1, <1>2, <2>1, <2>2, CallsSlot
<1>3. CASE UNCHANGED call /\ late' = late \ {r}
  BY <1>3 DEF CallsInv, CallsAddressed, GrantsRecorded
<1> QED BY <1>2, <1>3 DEF BeginService

\* The end of service: the slot of a caller that still waits gets the answer.
LEMMA EndServiceSlot ==
  ASSUME TypeOK, CallsInv, NEW i \in Server, NEW res, EndService(i, res),
         mu[i].req \in AppendRequest
  PROVE  \/ UNCHANGED call
         \/ /\ mu[i].req.from \in Server \ {i}
            /\ call[mu[i].req.from][i] = [stage |-> "serving", req |-> mu[i].req]
            /\ call' = [call EXCEPT ![mu[i].req.from][i] =
                          [stage |-> "replied", req |-> mu[i].req, res |-> res]]
<1> DEFINE r == mu[i].req
<1>1. r.from \in Server /\ NetTypeOK
  BY TypeParts DEF AppendRequest
<1>2. CASE call[r.from][i] = [stage |-> "serving", req |-> r]
  <2>1. r.from # i
    BY <1>2 DEF CallsInv, CallsAddressed, Idle
  <2> QED BY <1>1, <1>2, <2>1 DEF EndService
<1>3. CASE call[r.from][i] # [stage |-> "serving", req |-> r]
  <2>1. call' = [call EXCEPT ![r.from][i] = call[r.from][i]]
    BY <1>3 DEF EndService
  <2> QED BY <1>1, <2>1 DEF NetTypeOK
<1> QED BY <1>2, <1>3

LEMMA CallsHolder ==
  ASSUME TypeOK, CallsInv, NEW i \in Server, HolderStep(i)
  PROVE  CallsInv'
<1> DEFINE r == mu[i].req
<1>1. NetTypeOK /\ mu[i] \in Holder
  BY TypeParts DEF NetTypeOK
<1>2. UNCHANGED <<late, grants>>
  BY HolderFrame DEF serviceFrame, voteVars
<1>3. CASE UNCHANGED call
  BY <1>2, <1>3, CallsUnmoved
<1>4. ASSUME NEW res, EndService(i, res), r \in AppendRequest
      PROVE  CallsInv'
  <2> DEFINE c == [stage |-> "replied", req |-> r, res |-> res]
  <2>1. CASE r.from \in Server \ {i} /\ call' = [call EXCEPT ![r.from][i] = c]
    <3>1. Addressed(c, r.from, i) /\ Recorded(c, r.from, i, grants')
      BY <1>4 DEF Addressed, Recorded, AppendRequest
    <3>2. \A q \in late' : q.from # q.to
      BY <1>2 DEF CallsInv, CallsAddressed
    <3> HIDE DEF c
    <3>3. i \in Server \ {r.from}
      BY <2>1
    <3> QED BY <1>1, <1>2, <2>1, <3>1, <3>2, <3>3, CallsSlot
  <2> QED BY <1>3, <1>4, <2>1, EndServiceSlot
<1>5. \/ UNCHANGED call
      \/ r \in AppendRequest /\ \E res : EndService(i, res)
  <2>1. CASE AppendReceived(i)
    BY <1>1, <2>1, HolderParts DEF AppendReceived
  <2>2. CASE SaveFollowerCommitIndex(i)
    BY <1>1, <2>2, HolderParts DEF SaveFollowerCommitIndex
  <2>3. CASE AdvanceFollowerCommitIndex(i) \/ SaveLeaderCommitIndex(i)
    BY <2>3 DEF AdvanceFollowerCommitIndex, SaveLeaderCommitIndex
  <2> QED BY <2>1, <2>2, <2>3 DEF HolderStep
<1> QED BY <1>3, <1>4, <1>5

LEMMA CallsPeerStep ==
  ASSUME ElectionInv, NEW i \in Server, NEW j \in Server \ {i}, PeerStep(i, j)
  PROVE  CallsInv'
<1>1. TypeOK /\ NetTypeOK /\ CallsInv
  BY TypeParts DEF ElectionInv
<1>2. \A r \in late : r.from # r.to
  BY <1>1 DEF CallsInv, CallsAddressed
<1>3. grants \subseteq grants'
  BY DEF PeerStep, RequestVoteRPC, AppendEntriesSkip, AppendEntriesRPC,
         AppendEntriesRead, RequestVoteReply, AppendEntriesReply,
         SendAndRecvFails, voteVars
<1>4. Addressed(Idle, i, j) /\ Recorded(Idle, i, j, grants')
  BY DEF Addressed, Recorded, Idle
<1>5. CASE RequestVoteRPC(i, j)
  <2> DEFINE c == [stage |-> "sent",
                   req |-> [type |-> "RequestVote", from |-> i, to |-> j,
                            term |-> currentTerm[i],
                            lastLogTerm |-> LastLogTerm(i),
                            lastLogIndex |-> LastLogIndex(i)]]
  <2>1. Addressed(c, i, j) /\ Recorded(c, i, j, grants')
    BY DEF Addressed, Recorded
  <2>2. call' = [call EXCEPT ![i][j] = c] /\ UNCHANGED late
    BY <1>5 DEF RequestVoteRPC
  <2> HIDE DEF c
  <2> QED BY <1>1, <1>2, <1>3, <2>1, <2>2, CallsSlot
<1>6. CASE AppendEntriesSkip(i, j)
  BY <1>1, <1>6, CallsUnmoved DEF AppendEntriesSkip, netVars, voteVars
<1>7. CASE AppendEntriesRPC(i, j)
  <2> DEFINE prev == nextIndex[i][j] - 1
             c == [stage |-> "header", last |-> LastLogIndex(i),
                   req |-> [type |-> "AppendEntries", from |-> i, to |-> j,
                            term |-> currentTerm[i], prevLogIndex |-> prev,
                            prevLogTerm |-> TermAt(i, prev),
                            leaderCommit |-> commitIndex[i], entries |-> <<>>]]
  <2>1. Addressed(c, i, j) /\ Recorded(c, i, j, grants')
    BY DEF Addressed, Recorded
  <2>2. call' = [call EXCEPT ![i][j] = c] /\ UNCHANGED late
    BY <1>7 DEF AppendEntriesRPC
  <2> HIDE DEF c
  <2> QED BY <1>1, <1>2, <1>3, <2>1, <2>2, CallsSlot
<1>8. CASE AppendEntriesRead(i, j)
  <2> DEFINE h == call[i][j]
             part == SubSeq(log[i], nextIndex[i][j],
                            Lesser(Lesser(h.last, LastLogIndex(i)),
                                   nextIndex[i][j] + BatchSize - 1))
             c == [stage |-> "sent", req |-> [h.req EXCEPT !.entries = part]]
  <2>1. h.req \in AppendRequest /\ h.req.from = i /\ h.req.to = j
    <3>1. h \in Call
      BY <1>1 DEF NetTypeOK
    <3> QED BY <1>1, <1>8, <3>1, CallParts
            DEF AppendEntriesRead, CallsInv, CallsAddressed
  <2>2. call' = [call EXCEPT ![i][j] = c] /\ UNCHANGED late
    BY <1>8 DEF AppendEntriesRead
  <2> HIDE DEF part, h
  <2>3. Addressed(c, i, j) /\ Recorded(c, i, j, grants')
    BY <2>1 DEF Addressed, Recorded, AppendRequest
  <2> HIDE DEF c
  <2> QED BY <1>1, <1>2, <1>3, <2>2, <2>3, CallsSlot
<1>9. CASE RequestVoteReply(i, j) \/ AppendEntriesReply(i, j)
  <2>1. call' = [call EXCEPT ![i][j] = Idle] /\ UNCHANGED late
    BY <1>9 DEF RequestVoteReply, AppendEntriesReply
  <2> QED BY <1>1, <1>2, <1>3, <1>4, <2>1, CallsSlot
<1>10. CASE SendAndRecvFails(i, j)
  <2>1. call' = [call EXCEPT ![i][j] = Idle]
    BY <1>10 DEF SendAndRecvFails
  <2>2. \A r \in late' : r.from # r.to
    BY <1>1, <1>2, <1>10 DEF SendAndRecvFails, CallsInv, CallsAddressed
  <2> QED BY <1>1, <1>3, <1>4, <2>1, <2>2, CallsSlot
<1> QED BY <1>5, <1>6, <1>7, <1>8, <1>9, <1>10 DEF PeerStep

LEMMA CallsRestart ==
  ASSUME ElectionInv, NEW i \in Server, Restart(i)
  PROVE  CallsInv'
<1>1. NetTypeOK /\ CallsInv
  BY TypeParts DEF ElectionInv
<1>2. \A k, l \in Server : call'[k][l] \in {Idle, call[k][l]}
  BY <1>1 DEF NetTypeOK, Restart
<1>3. \A r \in late' : r.from # r.to
  <2>1. PICK left \in SUBSET {call[i][j].req : j \in {k \in Server :
                                                call[i][k].stage = "sent"}} :
          late' = late \cup left
    BY DEF Restart
  <2> QED BY <1>1, <2>1 DEF CallsInv, CallsAddressed
<1>4. CallsAddressed'
  BY <1>1, <1>2, <1>3 DEF CallsInv, CallsAddressed, Idle
<1>5. GrantsRecorded'
  BY <1>1, <1>2 DEF CallsInv, GrantsRecorded, Idle, Restart
<1> QED BY <1>4, <1>5 DEF CallsInv

LEMMA CallsNext == ElectionInv /\ [Next]_vars => CallsInv'
<1> SUFFICES ASSUME ElectionInv, [Next]_vars PROVE CallsInv'
  OBVIOUS
<1>0. TypeOK /\ CallsInv
  BY DEF ElectionInv
<1>1. CASE UNCHANGED vars
  BY <1>0, <1>1, CallsUnmoved DEF vars, netVars, voteVars
<1>2. ASSUME NEW i \in Server, ServerStep(i) PROVE CallsInv'
  <2>1. CASE LaunchCheckLeader(i) \/ LaunchHeartBeat(i) \/ ApplyThread(i)
             \/ ApplyFails(i)
    BY <1>0, <2>1, CallsUnmoved
       DEF LaunchCheckLeader, LaunchHeartBeat, ApplyThread, ApplyStateMachine,
           Apply, SetLastApplied, ApplyFails, applyFrame, netVars, voteVars
  <2> QED BY <1>2, <2>1, CallsRestart DEF ServerStep, ApplyThread
<1>3. ASSUME NEW r \in InFlight, ReplyRequestVote(r) PROVE CallsInv'
  <2>1. PICK res : /\ Reply(r, res)
                   /\ res.granted => Grant(res.term, r.to, r.from) \in grants'
    BY SMTT(30), <1>3 DEF ReplyRequestVote, Grant
  <2>2. grants \subseteq grants'
    BY <1>3 DEF ReplyRequestVote, voteVars
  <2> QED BY <1>0, <2>1, <2>2, CallsReply
<1>4. ASSUME NEW r \in InFlight, ReplyAppendEntries(r) PROVE CallsInv'
  <2>1. BeginService(r) \/ \E res : Reply(r, res)
    BY <1>4 DEF ReplyAppendEntries
  <2>2. r.type = "AppendEntries" /\ UNCHANGED grants
    BY <1>4 DEF ReplyAppendEntries, voteVars
  <2> QED BY <1>0, <2>1, <2>2, CallsReply, CallsBeginService
<1>5. ASSUME NEW c \in Command, CommandStep(c) PROVE CallsInv'
  <2>1. UNCHANGED commandFrame
    BY <1>5 DEF CommandStep, DoCommand, BuildLogEntry, ExecuteCommand,
                CommitSingle, RereadCommitIndex, SaveCommitIndex,
                CommandApplied, CommandTimeout
  <2> QED BY <1>0, <2>1, CallsUnmoved DEF commandFrame, netVars, voteVars
<1> QED BY <1>0, <1>1, <1>2, <1>3, <1>4, <1>5, CallsPeerStep, CallsHolder
        DEF Next

LEMMA ElectionInvariant == Spec => []ElectionInv
<1>1. ElectionInv /\ [Next]_vars => ElectionInv'
  BY TypeNext, CallsNext, VotesNext DEF ElectionInv
<1> QED BY <1>1, ElectionInit, PTL DEF Spec

-----------------------------------------------------------------------------
(* Elections: what follows *)

LEMMA ElectionOneVote ==
  ASSUME ElectionInv, restarts = 0
  PROVE  OneVotePerTerm
<1> SUFFICES ASSUME NEW g \in grants, NEW h \in grants,
                    g.term = h.term, g.voter = h.voter
             PROVE  g.candidate = h.candidate
  BY DEF OneVotePerTerm
<1>1. VotesKept /\ VotesFunctional
  BY DEF ElectionInv, VotesInv
<1>2. g.voter \in Server
  BY TypeParts DEF ElectionInv, VoteTypeOK
<1> DEFINE u == [term |-> g.term, candidate |-> g.candidate]
           v == [term |-> h.term, candidate |-> h.candidate]
<1>3. u \in voteFor[g.voter] /\ v \in voteFor[g.voter]
  BY <1>1 DEF VotesKept
<1>4. u.term = v.term
  OBVIOUS
<1>5. u.candidate = v.candidate
  <2> HIDE DEF u, v
  <2> QED BY <1>1, <1>2, <1>3, <1>4 DEF VotesFunctional
<1> QED BY <1>5

\* Until a server restarts, ReplyRequestVote grants every server's vote to one
\* candidate per term, for any number of servers, although the vote a candidate
\* gives itself is not in vote_for_ and terms may go back: vote_for_ remembers
\* the votes of every term, not only of the current one.
THEOREM VotesOnce == Spec => [](restarts = 0 => OneVotePerTerm)
<1>1. ElectionInv => (restarts = 0 => OneVotePerTerm)
  BY ElectionOneVote
<1> QED BY <1>1, ElectionInvariant, PTL

\* A vote from another server makes a majority of up to three.
LEMMA ElectionLeader ==
  ASSUME ElectionInv, Cardinality(Server) <= 3
  PROVE  LeaderWasElected
<1> SUFFICES ASSUME NEW i \in Server, role[i] = "kLeader"
             PROVE  2 * (1 + Cardinality(Voters(i, currentTerm[i])))
                      > Cardinality(Server)
  BY DEF LeaderWasElected
<1> DEFINE V == Voters(i, currentTerm[i])
<1>1. V \in SUBSET Server
  BY DEF Voters
<1>2. IsFiniteSet(V) /\ Cardinality(V) \in Nat /\ Cardinality(Server) \in Nat
  BY <1>1, ServerAssumption, FS_Subset, FS_CardinalityType
<1>3. CASE SingleMode
  BY <1>2, <1>3 DEF SingleMode
<1>4. CASE ~SingleMode
  <2>1. PICK v \in Server \ {i} : Grant(currentTerm[i], v, i) \in grants
    BY <1>4 DEF ElectionInv, VotesInv, LeaderHasVote
  <2>2. v \in V
    BY <2>1 DEF Voters, Grant
  <2>3. Cardinality(V) # 0
    BY <1>2, <2>2, FS_EmptySet
  <2> QED BY <1>2, <2>3
<1> QED BY <1>3, <1>4

\* In a cluster of up to three servers every leader was elected by a majority
\* in the term it leads, through lost, late and reordered votes and restarts:
\* CheckAndVote's comparison of the terms is what keeps old votes out.  From
\* four servers on this is not so (CheckAndVote counts answers, not voters).
THEOREM LeadersElected ==
  ASSUME Cardinality(Server) <= 3
  PROVE  Spec => []LeaderWasElected
<1>1. ElectionInv => LeaderWasElected
  BY ElectionLeader
<1> QED BY <1>1, ElectionInvariant, PTL

\* There are not four of three.
LEMMA NoFour ==
  ASSUME Cardinality(Server) <= 3,
         NEW a \in Server, NEW b \in Server \ {a},
         NEW c \in Server \ {a, b}, NEW d \in Server \ {a, b, c}
  PROVE  FALSE
<1>1. IsFiniteSet({a}) /\ Cardinality({a}) = 1
  BY FS_Singleton
<1>2. IsFiniteSet({a} \cup {b}) /\ Cardinality({a} \cup {b}) = 2
  <2> DEFINE one == {a}
  <2>1. b \notin one /\ IsFiniteSet(one) /\ Cardinality(one) = 1
    BY <1>1
  <2> HIDE DEF one
  <2>2. IsFiniteSet(one \cup {b}) /\ Cardinality(one \cup {b}) = 2
    BY <2>1, FS_AddElement
  <2> QED BY <2>2 DEF one
<1>3. /\ IsFiniteSet({a} \cup {b} \cup {c})
      /\ Cardinality({a} \cup {b} \cup {c}) = 3
  <2>1. c \notin {a} \cup {b}
    OBVIOUS
  <2> QED BY <1>2, <2>1, FS_AddElement
<1> DEFINE four == {a} \cup {b} \cup {c} \cup {d}
<1>4. Cardinality(four) = 4
  <2>1. d \notin {a} \cup {b} \cup {c}
    OBVIOUS
  <2> QED BY <1>3, <2>1, FS_AddElement
<1>5. four \in SUBSET Server
  OBVIOUS
<1>6. 4 <= Cardinality(Server)
  <2> HIDE DEF four
  <2> QED BY <1>4, <1>5, ServerAssumption, FS_Subset
<1> QED BY <1>6, ServerAssumption, FS_CardinalityType

LEMMA ElectionOneLeader ==
  ASSUME ElectionInv, restarts = 0, Cardinality(Server) <= 3
  PROVE  OneLeaderPerTerm
<1> SUFFICES ASSUME fellBack = {}, NEW i \in Server, NEW j \in Server,
                    role[i] = "kLeader", role[j] = "kLeader",
                    currentTerm[i] = currentTerm[j], i # j
             PROVE  FALSE
  BY DEF OneLeaderPerTerm
<1>1. ~SingleMode
  BY ServerAssumption, FS_Singleton DEF SingleMode
<1>2. LeaderHasVote /\ GrantEndsCandidacy /\ OneVotePerTerm
  BY ElectionOneVote DEF ElectionInv, VotesInv
<1> DEFINE t == currentTerm[i]
<1>3. PICK v \in Server \ {i} : Grant(t, v, i) \in grants
  BY <1>1, <1>2 DEF LeaderHasVote
<1>4. PICK w \in Server \ {j} : Grant(t, w, j) \in grants
  BY <1>1, <1>2 DEF LeaderHasVote
<1>5. \A x \in Server, c \in Server :
        Grant(t, x, c) \in grants /\ currentTerm[x] = t
        => role[x] = "kFollower"
  BY <1>1, <1>2 DEF GrantEndsCandidacy, Grant
<1>6. v # j /\ w # i
  BY <1>3, <1>4, <1>5
<1>7. v = w
  BY <1>3, <1>4, <1>6, NoFour
<1>8. i = j
  <2>1. /\ Grant(t, v, i).term = Grant(t, w, j).term
        /\ Grant(t, v, i).voter = Grant(t, w, j).voter
    BY <1>7 DEF Grant
  <2>2. Grant(t, v, i).candidate = Grant(t, w, j).candidate
    BY <1>2, <1>3, <1>4, <2>1 DEF OneVotePerTerm
  <2> QED BY <2>2 DEF Grant
<1> QED BY <1>8

\* Up to three servers, until one of them restarts and unless a late denial has
\* taken a candidate back to an older term, a term has one leader at a time.
\* The argument: a leader holds another server's vote; neither leader can be
\* the other's voter, since granting a vote ends a candidacy; so the two voters
\* are the one server that is left, and it votes once per term.
THEOREM LeadersUnique ==
  ASSUME Cardinality(Server) <= 3
  PROVE  Spec => [](restarts = 0 => OneLeaderPerTerm)
<1>1. ElectionInv => (restarts = 0 => OneLeaderPerTerm)
  BY ElectionOneLeader
<1> QED BY <1>1, ElectionInvariant, PTL

-----------------------------------------------------------------------------
(* What a restart finds *)

\* Only a single server commits in the thread that executes the command.
SingleStages ==
  \A c \in Command :
    cmds[c].stage \in {"appended", "committed", "saving"} => SingleMode

\* The commit index is saved before global_mu is given up.
CommitSaved ==
  ~SingleMode => \A i \in Server :
    Unsaved(i) \/ metaCommit[i] = commitIndex[i]

\* The apply thread has applied everything it has passed by.
AppliedUpTo(n, A) == \A k \in 1..n : \E a \in A : a.index = k

AppliedSaved ==
  /\ metaApplied = lastApplied
  /\ \A i \in Server : /\ AppliedUpTo(lastApplied[i], applied[i])
                       /\ AppliedUpTo(batch[i].at, applied[i])

SavedInv == SingleStages /\ CommitSaved /\ AppliedSaved

LEMMA SavedInit == Init => SavedInv
  BY DEF Init, SavedInv, SingleStages, CommitSaved, AppliedSaved, AppliedUpTo,
         NoBatch

\* Steps that leave the commit index and its save to who is busy with them.
LEMMA SavedUnmoved ==
  ASSUME SavedInv, UNCHANGED <<commitIndex, metaCommit, smVars, cmds>>,
         \A k \in Server : Unsaved(k) => Unsaved(k)'
  PROVE  SavedInv'
  BY DEF SavedInv, SingleStages, CommitSaved, AppliedSaved, SingleMode, smVars

\* Steps that set the commit index of a server, or save it.
LEMMA SavedCommit ==
  ASSUME TypeOK, SavedInv, UNCHANGED <<smVars, cmds>>, NEW i \in Server,
         NEW h, mu' = [mu EXCEPT ![i] = h],
         \A k \in Server \ {i} : /\ commitIndex'[k] = commitIndex[k]
                                  /\ metaCommit'[k] = metaCommit[k],
         Unsaved(i)' \/ metaCommit'[i] = commitIndex'[i]
  PROVE  SavedInv'
<1>1. \A k \in Server \ {i} : mu'[k] = mu[k]
  BY TypeParts DEF NetTypeOK
<1>2. CommitSaved'
  BY <1>1 DEF SavedInv, CommitSaved, SingleMode, Unsaved
<1> QED BY <1>2 DEF SavedInv, SingleStages, AppliedSaved, SingleMode, smVars

LEMMA SavedApplyThread ==
  ASSUME TypeOK, SavedInv, NEW i \in Server, ApplyThread(i)
  PROVE  SavedInv'
<1>1. SmTypeOK /\ batch[i] \in Batch /\ AppliedSaved
  BY TypeParts DEF SmTypeOK, SavedInv
<1>2. AppliedSaved'
  <2>1. CASE ApplyStateMachine(i)
    <3>1. batch'[i].at = lastApplied[i]
      BY <1>1, <2>1 DEF ApplyStateMachine, SmTypeOK
    <3>2. \A k \in Server \ {i} : batch'[k] = batch[k]
      BY <1>1, <2>1 DEF ApplyStateMachine, SmTypeOK
    <3>3. UNCHANGED <<lastApplied, metaApplied, applied>>
      BY <2>1 DEF ApplyStateMachine
    <3> QED BY <1>1, <3>1, <3>2, <3>3 DEF AppliedSaved
  <2>2. CASE Apply(i)
    <3> DEFINE index == batch[i].at + 1
               entry == EntryToApply(i, index)
               new   == [index |-> index, entry |-> entry]
    <3>1. /\ applied'[i] = applied[i] \cup {new}
          /\ batch'[i].at = index
      BY <1>1, <2>2 DEF Apply, SmTypeOK, Batch
    <3>2. \A k \in Server \ {i} :
            applied'[k] = applied[k] /\ batch'[k] = batch[k]
      BY <1>1, <2>2 DEF Apply, SmTypeOK
    <3>3. UNCHANGED <<lastApplied, metaApplied>>
      BY <2>2 DEF Apply
    <3>4. batch[i].at \in Nat /\ new.index = batch[i].at + 1
      BY <1>1 DEF Batch
    <3> HIDE DEF entry, new
    <3>5. AppliedUpTo(index, applied[i] \cup {new})
      BY <1>1, <3>4 DEF AppliedSaved, AppliedUpTo
    <3>6. AppliedUpTo(lastApplied[i], applied[i] \cup {new})
      BY <1>1 DEF AppliedSaved, AppliedUpTo
    <3> HIDE DEF index
    <3> QED BY <1>1, <3>1, <3>2, <3>3, <3>5, <3>6 DEF AppliedSaved
  <2>3. CASE SetLastApplied(i)
    <3>1. /\ lastApplied'[i] = batch[i].at
          /\ batch'[i].at = 0
      BY <1>1, <2>3 DEF SetLastApplied, BatchDone, NoBatch, SmTypeOK
    <3>2. \A k \in Server \ {i} :
            lastApplied'[k] = lastApplied[k] /\ batch'[k] = batch[k]
      BY <1>1, <2>3 DEF SetLastApplied, SmTypeOK
    <3>3. UNCHANGED applied /\ metaApplied' = lastApplied'
      BY <1>1, <2>3 DEF SetLastApplied, AppliedSaved
    <3>4. AppliedUpTo(0, applied[i])
      BY DEF AppliedUpTo
    <3> QED BY <1>1, <3>1, <3>2, <3>3, <3>4 DEF AppliedSaved
  <2> QED BY <2>1, <2>2, <2>3 DEF ApplyThread
<1>3. UNCHANGED applyFrame
  BY DEF ApplyThread, ApplyStateMachine, Apply, SetLastApplied
<1> QED BY <1>2, <1>3 DEF SavedInv, SingleStages, CommitSaved, SingleMode,
                          applyFrame, logVars, netVars, Unsaved

LEMMA SavedApplyFails ==
  ASSUME TypeOK, SavedInv, NEW i \in Server, ApplyFails(i)
  PROVE  SavedInv'
<1>1. SmTypeOK /\ AppliedSaved
  BY TypeParts DEF SavedInv
<1>2. batch'[i].at = 0 /\ \A k \in Server \ {i} : batch'[k] = batch[k]
  BY <1>1 DEF ApplyFails, NoBatch, SmTypeOK
<1>3. AppliedUpTo(0, applied[i])
  BY DEF AppliedUpTo
<1>4. UNCHANGED <<lastApplied, metaApplied, applied>>
  BY DEF ApplyFails
<1>5. AppliedSaved'
  BY <1>1, <1>2, <1>3, <1>4 DEF AppliedSaved
<1> QED BY <1>5 DEF SavedInv, SingleStages, CommitSaved, SingleMode, ApplyFails,
                    logVars, netVars, Unsaved

LEMMA SavedRestart ==
  ASSUME TypeOK, SavedInv, NEW i \in Server, Restart(i)
  PROVE  SavedInv'
<1>1. SmTypeOK /\ LogTypeOK /\ cmds \in [Command -> CommandState]
  BY TypeParts
<1>2. SingleStages'
  <2> SUFFICES ASSUME NEW c \in Command, ~SingleMode
               PROVE  cmds'[c].stage \notin {"appended", "committed", "saving"}
    BY DEF SingleStages, SingleMode
  <2>1. cmds[c].stage \notin {"appended", "committed", "saving"}
    BY DEF SavedInv, SingleStages
  <2>2. CASE cmds'[c] = cmds[c]
    BY <2>1, <2>2
  <2>3. CASE cmds'[c] = [cmds[c] EXCEPT !.stage = "failed"]
    BY <1>1, <2>3 DEF CommandState, RunningCommand
  <2> QED BY <2>2, <2>3 DEF Restart
<1>3. CommitSaved'
  <2>1. \A k \in Server \ {i} : mu'[k] = mu[k] /\ commitIndex'[k] = commitIndex[k]
    BY <1>1, TypeParts DEF Restart, LogTypeOK, NetTypeOK
  <2>2. commitIndex'[i] = metaCommit[i] /\ UNCHANGED metaCommit
    BY <1>1 DEF Restart, LogTypeOK
  <2> QED BY <2>1, <2>2 DEF SavedInv, CommitSaved, SingleMode, Unsaved
<1>4. lastApplied' = lastApplied
  BY <1>1 DEF SavedInv, AppliedSaved, Restart, SmTypeOK
<1>5. AppliedSaved'
  <2>1. \A k \in Server : batch'[k] = IF k = i THEN NoBatch ELSE batch[k]
    BY <1>1 DEF Restart, SmTypeOK
  <2>2. \A k \in Server : AppliedUpTo(0, applied[k])
    BY DEF AppliedUpTo
  <2>3. UNCHANGED <<metaApplied, applied>>
    BY DEF Restart
  <2> QED BY <1>4, <2>1, <2>2, <2>3 DEF SavedInv, AppliedSaved, NoBatch
<1> QED BY <1>2, <1>3, <1>5 DEF SavedInv

LEMMA SavedCommand ==
  ASSUME TypeOK, SavedInv, NEW c \in Command, CommandStep(c)
  PROVE  SavedInv'
<1>1. cmds \in [Command -> CommandState] /\ LogTypeOK
  BY TypeParts
<1>2. UNCHANGED smVars
  BY DEF CommandStep, DoCommand, BuildLogEntry, ExecuteCommand, CommitSingle,
         RereadCommitIndex, SaveCommitIndex, CommandApplied, CommandTimeout,
         commandFrame
<1>3. \A d \in Command \ {c} : cmds'[d] = cmds[d]
  BY <1>1 DEF CommandStep, DoCommand, BuildLogEntry, ExecuteCommand,
         CommitSingle, RereadCommitIndex, SaveCommitIndex, CommandApplied,
         CommandTimeout
<1>4. /\ SingleMode \/ UNCHANGED <<commitIndex, metaCommit>>
      /\ cmds'[c].stage \in {"appended", "committed", "saving"} => SingleMode
  <2> DEFINE s == cmds[c]
  <2>1. s \in CommandState
    BY <1>1
  <2>2. CASE ~SingleMode
    <3>1. s.stage \notin {"appended", "committed", "saving"}
      BY <2>2 DEF SavedInv, SingleStages
    <3>2. CASE \E k \in Server : DoCommand(c, k)
      <4>1. PICK k \in Server : DoCommand(c, k)
        BY <3>2
      <4>2. cmds'[c].stage = "checked"
        BY <1>1, <2>1, <4>1 DEF DoCommand, CommandState, RunningCommand
      <4> QED BY <4>1, <4>2 DEF DoCommand, logVars
    <3>3. CASE BuildLogEntry(c)
      <4>1. cmds'[c].stage = "built"
        BY <1>1, <2>1, <3>3 DEF BuildLogEntry, CommandState, RunningCommand
      <4> QED BY <3>3, <4>1 DEF BuildLogEntry, logVars
    <3>4. CASE ExecuteCommand(c)
      <4>1. cmds'[c].stage = "waiting"
        BY <1>1, <2>1, <2>2, <3>4
           DEF ExecuteCommand, CommandState, RunningCommand
      <4> QED BY <3>4, <4>1 DEF ExecuteCommand
    <3>5. CASE CommandApplied(c) \/ CommandTimeout(c)
      <4>1. cmds'[c].stage \in {"ok", "failed"}
        BY <1>1, <2>1, <3>5
           DEF CommandApplied, CommandTimeout, CommandState, RunningCommand
      <4> QED BY <3>5, <4>1 DEF CommandApplied, CommandTimeout, logVars
    <3>6. ~(CommitSingle(c) \/ RereadCommitIndex(c) \/ SaveCommitIndex(c))
      BY <3>1 DEF CommitSingle, RereadCommitIndex, SaveCommitIndex
    <3> QED BY <3>2, <3>3, <3>4, <3>5, <3>6 DEF CommandStep
  <2> QED BY <2>2
<1>5. SingleStages'
  BY <1>3, <1>4 DEF SavedInv, SingleStages, SingleMode
<1>6. CommitSaved'
  <2>1. UNCHANGED mu
    BY DEF CommandStep, DoCommand, BuildLogEntry, ExecuteCommand, CommitSingle,
           RereadCommitIndex, SaveCommitIndex, CommandApplied, CommandTimeout,
           commandFrame, netVars
  <2> QED BY <1>4, <2>1 DEF SavedInv, CommitSaved, SingleMode, Unsaved
<1>7. AppliedSaved'
  BY <1>2 DEF SavedInv, AppliedSaved, smVars
<1> QED BY <1>5, <1>6, <1>7 DEF SavedInv

LEMMA SavedReplyAppendEntries ==
  ASSUME TypeOK, SavedInv, NEW r \in InFlight, ReplyAppendEntries(r)
  PROVE  SavedInv'
<1>1. UNCHANGED <<commitIndex, metaCommit, smVars, cmds>>
  BY DEF ReplyAppendEntries
<1>2. \A k \in Server : Unsaved(k) => mu'[k] = mu[k]
  <2>1. \/ UNCHANGED mu
        \/ mu[r.to] = Free /\ mu' = [mu EXCEPT ![r.to] = [at |-> "cut", req |-> r]]
    BY DEF ReplyAppendEntries
  <2> QED BY <2>1, TypeParts, InFlightType DEF NetTypeOK, Unsaved, Free
<1> QED BY <1>1, <1>2, SavedUnmoved DEF Unsaved

LEMMA SavedHolder ==
  ASSUME TypeOK, SavedInv, NEW i \in Server, HolderStep(i)
  PROVE  SavedInv'
<1>1. LogTypeOK /\ NetTypeOK /\ UNCHANGED <<smVars, cmds>>
  BY TypeParts, HolderFrame DEF serviceFrame
<1>2. CASE AppendReceived(i)
  <2>1. \A k \in Server : Unsaved(k) => mu'[k] = mu[k]
    BY <1>1, <1>2 DEF AppendReceived, EndService, NetTypeOK, Unsaved
  <2> QED BY <1>1, <1>2, <2>1, SavedUnmoved DEF AppendReceived, Unsaved
<1>3. CASE AdvanceFollowerCommitIndex(i)
  <2> DEFINE h == [at |-> "following", req |-> mu[i].req]
  <2>1. mu' = [mu EXCEPT ![i] = h] /\ Unsaved(i)'
    BY <1>1, <1>3 DEF AdvanceFollowerCommitIndex, NetTypeOK, Unsaved
  <2>2. \A k \in Server \ {i} : /\ commitIndex'[k] = commitIndex[k]
                                 /\ metaCommit'[k] = metaCommit[k]
    BY <1>1, <1>3 DEF AdvanceFollowerCommitIndex, LogTypeOK
  <2> HIDE DEF h
  <2> QED BY <1>1, <2>1, <2>2, SavedCommit
<1>4. CASE SaveFollowerCommitIndex(i) \/ SaveLeaderCommitIndex(i)
  <2>1. mu' = [mu EXCEPT ![i] = Free]
    BY <1>4 DEF SaveFollowerCommitIndex, SaveLeaderCommitIndex, EndService
  <2>2. /\ metaCommit' = [metaCommit EXCEPT ![i] = commitIndex[i]]
        /\ UNCHANGED commitIndex
    BY <1>4 DEF SaveFollowerCommitIndex, SaveLeaderCommitIndex, SetCommitIndex
  <2>3. /\ metaCommit'[i] = commitIndex'[i]
        /\ \A k \in Server \ {i} : /\ commitIndex'[k] = commitIndex[k]
                                    /\ metaCommit'[k] = metaCommit[k]
    BY <1>1, <2>2 DEF LogTypeOK
  <2> QED BY <1>1, <2>1, <2>3, SavedCommit
<1> QED BY <1>2, <1>3, <1>4 DEF HolderStep

LEMMA SavedAppendEntriesReply ==
  ASSUME TypeOK, SavedInv, NEW i \in Server, NEW j \in Server \ {i},
         AppendEntriesReply(i, j)
  PROVE  SavedInv'
<1>1. LogTypeOK /\ NetTypeOK /\ UNCHANGED <<metaCommit, smVars, cmds>>
  BY TypeParts DEF AppendEntriesReply
<1>2. \/ UNCHANGED <<commitIndex, mu>>
      \/ \E n : /\ commitIndex' = [commitIndex EXCEPT ![i] = n]
                /\ mu' = [mu EXCEPT ![i] = [at |-> "leading"]]
  BY DEF AppendEntriesReply, AdvanceLeaderCommitIndex
<1>3. CASE UNCHANGED <<commitIndex, mu>>
  BY <1>1, <1>3, SavedUnmoved DEF Unsaved
<1>4. CASE \E n : /\ commitIndex' = [commitIndex EXCEPT ![i] = n]
                 /\ mu' = [mu EXCEPT ![i] = [at |-> "leading"]]
  <2>1. Unsaved(i)'
    BY <1>1, <1>4 DEF NetTypeOK, Unsaved
  <2>2. \A k \in Server \ {i} : commitIndex'[k] = commitIndex[k]
    BY <1>1, <1>4 DEF LogTypeOK
  <2> QED BY <1>1, <1>4, <2>1, <2>2, SavedCommit
<1> QED BY <1>2, <1>3, <1>4

LEMMA SavedNext == TypeOK /\ SavedInv /\ [Next]_vars => SavedInv'
<1> SUFFICES ASSUME TypeOK, SavedInv, [Next]_vars PROVE SavedInv'
  OBVIOUS
<1> USE DEF logVars, netVars, Unsaved
<1>1. CASE UNCHANGED vars
  BY <1>1, SavedUnmoved DEF vars
<1>2. ASSUME NEW i \in Server, ServerStep(i) PROVE SavedInv'
  <2>1. CASE LaunchCheckLeader(i) \/ LaunchHeartBeat(i)
    BY <2>1, SavedUnmoved DEF LaunchCheckLeader, LaunchHeartBeat
  <2> QED BY <1>2, <2>1, SavedApplyThread, SavedApplyFails, SavedRestart
          DEF ServerStep, ApplyThread
<1>3. ASSUME NEW i \in Server, NEW j \in Server \ {i}, PeerStep(i, j)
      PROVE  SavedInv'
  <2>1. CASE RequestVoteRPC(i, j) \/ AppendEntriesSkip(i, j)
             \/ AppendEntriesRPC(i, j) \/ AppendEntriesRead(i, j)
             \/ RequestVoteReply(i, j) \/ SendAndRecvFails(i, j)
    BY <2>1, SavedUnmoved
       DEF RequestVoteRPC, AppendEntriesSkip, AppendEntriesRPC,
           AppendEntriesRead, RequestVoteReply, SendAndRecvFails
  <2> QED BY <1>3, <2>1, SavedAppendEntriesReply DEF PeerStep
<1>4. ASSUME NEW r \in InFlight, ReplyRequestVote(r) PROVE SavedInv'
  BY <1>4, SavedUnmoved DEF ReplyRequestVote
<1> QED BY <1>1, <1>2, <1>3, <1>4, SavedReplyAppendEntries, SavedHolder,
           SavedCommand DEF Next

\* What RecoverInit reads after a crash is what the server went by before it:
\* the term and, except in single mode and while a thread that holds global_mu
\* has set the commit index and not yet saved it, the commit index.  What it
\* reads as applied is in db_, also when the crash comes inside
\* ApplyStateMachine: every entry is applied before it is counted.
THEOREM RestartsForgetNothing == Spec => []NothingForgotten
<1>1. Init => SavedInv
  BY SavedInit
<1>2. ElectionInv /\ SavedInv /\ [Next]_vars => SavedInv'
  BY SavedNext DEF ElectionInv
<1>3. ElectionInv /\ SavedInv => NothingForgotten
  BY DEF ElectionInv, VotesInv, TermSaved, SavedInv, CommitSaved, AppliedSaved,
         AppliedUpTo, NothingForgotten
<1> QED BY <1>1, <1>2, <1>3, ElectionInvariant, PTL DEF Spec

-----------------------------------------------------------------------------
(* Terms, and what is applied, from step to step *)

\* The step in which candidate i takes in the denial of a vote.
Denied(i) ==
  \E j \in Server \ {i} : /\ RequestVoteReply(i, j)
                          /\ role[i] = "kCandidate"
                          /\ ~call[i][j].res.granted

LEMMA TermsRise ==
  ASSUME TypeOK, TermSaved, [Next]_vars, NEW i \in Server
  PROVE  currentTerm'[i] >= currentTerm[i] \/ Denied(i)
<1>0. CtxTypeOK /\ currentTerm[i] \in Nat
  BY TypeParts DEF CtxTypeOK
<1>1. CASE UNCHANGED currentTerm
  BY <1>0, <1>1
<1>2. ASSUME NEW k \in Server, NEW t, t >= currentTerm[k],
             currentTerm' = [currentTerm EXCEPT ![k] = t]
      PROVE  currentTerm'[i] >= currentTerm[i]
  BY <1>0, <1>2 DEF CtxTypeOK
<1>3. CASE UNCHANGED vars
  BY <1>1, <1>3 DEF vars, ctxVars
<1>4. ASSUME NEW k \in Server, ServerStep(k)
      PROVE  currentTerm'[i] >= currentTerm[i]
  <2>1. CASE LaunchCheckLeader(k)
    <3>1. \/ UNCHANGED currentTerm
          \/ currentTerm' = [currentTerm EXCEPT ![k] = currentTerm[k] + 1]
      BY <2>1 DEF LaunchCheckLeader, BecomeLeader, BecomeCandidate
    <3>2. currentTerm[k] + 1 >= currentTerm[k]
      BY <1>0 DEF CtxTypeOK
    <3> QED BY <1>0, <1>2, <3>1, <3>2
  <2>2. CASE Restart(k)
    BY <1>0, <2>2 DEF Restart, TermSaved, CtxTypeOK
  <2>3. CASE ~LaunchCheckLeader(k) /\ ~Restart(k)
    BY <1>0, <1>4, <2>3 DEF ServerStep, LaunchHeartBeat, ApplyStateMachine,
       Apply, ApplyFails, SetLastApplied, applyFrame, ctxVars
  <2> QED BY <2>1, <2>2, <2>3
<1>5. ASSUME NEW k \in Server, NEW j \in Server \ {k}, PeerStep(k, j)
      PROVE  currentTerm'[i] >= currentTerm[i] \/ Denied(i)
  <2> DEFINE res == call[k][j].res
  <2>1. CASE RequestVoteReply(k, j)
    <3>1. /\ call[k][j].stage = "replied" /\ call[k][j].req.type = "RequestVote"
          /\ \/ UNCHANGED currentTerm
             \/ /\ res.term > currentTerm[k]
                /\ currentTerm' = [currentTerm EXCEPT ![k] = res.term]
             \/ /\ role[k] = "kCandidate" /\ ~res.granted
                /\ currentTerm' = [currentTerm EXCEPT ![k] = res.term]
      BY <2>1 DEF RequestVoteReply, StepDown, BecomeFollower, BecomeLeader,
                  ctxVars
    <3>2. res.term \in Nat /\ currentTerm[k] \in Nat
      <4>1. call[k][j] \in Call
        BY TypeParts DEF NetTypeOK
      <4>2. res \in VoteResponse
        BY <3>1, <4>1, CallParts
      <4> QED BY <1>0, <4>2 DEF VoteResponse, CtxTypeOK
    <3>3. CASE UNCHANGED currentTerm
      BY <1>1, <3>3
    <3>4. CASE /\ res.term > currentTerm[k]
               /\ currentTerm' = [currentTerm EXCEPT ![k] = res.term]
      <4> HIDE DEF res
      <4> QED BY <1>0, <3>2, <3>4 DEF CtxTypeOK
    <3>5. CASE /\ role[k] = "kCandidate" /\ ~res.granted
               /\ currentTerm' = [currentTerm EXCEPT ![k] = res.term]
      <4>1. CASE i = k
        BY <2>1, <3>5, <4>1 DEF Denied
      <4>2. CASE i # k
        BY <1>0, <3>5, <4>2 DEF CtxTypeOK
      <4> QED BY <4>1, <4>2
    <3> QED BY <3>1, <3>3, <3>4, <3>5
  <2>2. CASE AppendEntriesReply(k, j)
    <3>1. /\ call[k][j].stage = "replied"
          /\ call[k][j].req.type = "AppendEntries"
          /\ \/ UNCHANGED currentTerm
             \/ /\ res.term > currentTerm[k]
                /\ currentTerm' = [currentTerm EXCEPT ![k] = res.term]
      BY <2>2 DEF AppendEntriesReply, StepDown, BecomeFollower, ctxVars
    <3>2. res.term \in Nat /\ currentTerm[k] \in Nat
      <4>1. call[k][j] \in Call
        BY TypeParts DEF NetTypeOK
      <4>2. res \in AppendResponse
        BY <3>1, <4>1, CallParts
      <4> QED BY <1>0, <4>2 DEF AppendResponse, CtxTypeOK
    <3> QED BY <1>1, <1>2, <3>1, <3>2
  <2>3. CASE ~RequestVoteReply(k, j) /\ ~AppendEntriesReply(k, j)
    BY <1>1, <1>5, <2>3 DEF PeerStep, RequestVoteRPC, AppendEntriesSkip,
       AppendEntriesRPC, AppendEntriesRead, SendAndRecvFails, ctxVars
  <2> QED BY <2>1, <2>2, <2>3
<1>6. ASSUME NEW r \in InFlight, ReplyRequestVote(r) \/ ReplyAppendEntries(r)
      PROVE  currentTerm'[i] >= currentTerm[i]
  <2>1. r.to \in Server /\ r.term \in Nat /\ currentTerm[r.to] \in Nat
    BY <1>0, InFlightType DEF CtxTypeOK
  <2>2. \/ UNCHANGED currentTerm
        \/ /\ r.term >= currentTerm[r.to]
           /\ currentTerm' = [currentTerm EXCEPT ![r.to] = r.term]
    <3>1. CASE ReplyRequestVote(r)
      BY <2>1, <3>1 DEF ReplyRequestVote, BecomeFollower, ctxVars
    <3>2. CASE ReplyAppendEntries(r)
      BY <3>2 DEF ReplyAppendEntries, FollowSender, StepDown, BecomeFollower,
                  ctxVars
    <3> QED BY <1>6, <3>1, <3>2
  <2> QED BY <1>0, <1>2, <2>1, <2>2
<1>7. ASSUME NEW k \in Server, HolderStep(k) PROVE UNCHANGED currentTerm
  BY <1>7, HolderFrame DEF serviceFrame, ctxVars
<1>8. ASSUME NEW c \in Command, CommandStep(c) PROVE UNCHANGED currentTerm
  BY <1>8 DEF CommandStep, DoCommand, BuildLogEntry, ExecuteCommand,
     CommitSingle, RereadCommitIndex, SaveCommitIndex, CommandApplied,
     CommandTimeout, commandFrame, ctxVars
<1> QED BY <1>1, <1>3, <1>4, <1>5, <1>6, <1>7, <1>8 DEF Next

\* While a server runs, its term goes back in one place only, whatever fails
\* and whatever is served late: where Peer::RequestVoteRPC makes a candidate a
\* follower in the term of a denial, which nothing compares with its own.  (A
\* crash can take back a term that was set and not yet saved.)
THEOREM TermsFallOnDenial ==
  Spec => [][\A i \in Server : \/ currentTerm'[i] >= currentTerm[i]
                               \/ Denied(i)
                               \/ Restart(i)]_vars
<1>1. ElectionInv /\ [Next]_vars =>
        [\A i \in Server : \/ currentTerm'[i] >= currentTerm[i]
                           \/ Denied(i)
                           \/ Restart(i)]_vars
  BY TermsRise DEF ElectionInv, VotesInv
<1> QED BY <1>1, ElectionInvariant, PTL DEF Spec

\* The apply thread works on what lies ahead of last_applied.
BatchAhead ==
  \A i \in Server :
    /\ batch[i].at <= batch[i].upto
    /\ batch[i].upto # 0 => lastApplied[i] <= batch[i].upto

\* A step of the apply thread, or one that leaves it alone or stops it.
LEMMA ApplySteps ==
  ASSUME TypeOK, AppliedSaved, [Next]_vars, NEW i \in Server
  PROVE  \/ ApplyThread(i)
         \/ /\ batch'[i] \in {batch[i], NoBatch}
            /\ lastApplied'[i] = lastApplied[i] /\ applied'[i] = applied[i]
<1>0. SmTypeOK
  BY TypeParts
<1>1. CASE UNCHANGED smVars
  BY <1>1 DEF smVars
<1>2. CASE UNCHANGED vars
  BY <1>1, <1>2 DEF vars
<1>3. ASSUME NEW k \in Server, ServerStep(k), ~ApplyThread(i)
      PROVE  /\ batch'[i] \in {batch[i], NoBatch}
             /\ lastApplied'[i] = lastApplied[i] /\ applied'[i] = applied[i]
  <2>1. CASE LaunchCheckLeader(k) \/ LaunchHeartBeat(k)
    BY <2>1 DEF LaunchCheckLeader, LaunchHeartBeat, smVars
  <2>2. CASE ApplyThread(k)
    BY <1>0, <1>3, <2>2 DEF ApplyThread, ApplyStateMachine, Apply,
                            SetLastApplied, SmTypeOK
  <2>3. CASE ApplyFails(k)
    BY <1>0, <2>3 DEF ApplyFails, SmTypeOK
  <2>4. CASE Restart(k)
    BY <1>0, <2>4 DEF Restart, SmTypeOK, AppliedSaved
  <2> QED BY <1>3, <2>1, <2>2, <2>3, <2>4 DEF ServerStep, ApplyThread
<1>4. ASSUME NEW k \in Server, NEW j \in Server \ {k}, PeerStep(k, j)
      PROVE  UNCHANGED smVars
  BY <1>4 DEF PeerStep, RequestVoteRPC, AppendEntriesSkip, AppendEntriesRPC,
     AppendEntriesRead, RequestVoteReply, AppendEntriesReply, SendAndRecvFails
<1>5. ASSUME NEW r \in InFlight, ReplyRequestVote(r) \/ ReplyAppendEntries(r)
      PROVE  UNCHANGED smVars
  BY <1>5 DEF ReplyRequestVote, ReplyAppendEntries
<1>6. ASSUME NEW k \in Server, HolderStep(k) PROVE UNCHANGED smVars
  BY <1>6, HolderFrame DEF serviceFrame
<1>7. ASSUME NEW c \in Command, CommandStep(c) PROVE UNCHANGED smVars
  BY <1>7 DEF CommandStep, DoCommand, BuildLogEntry, ExecuteCommand,
     CommitSingle, RereadCommitIndex, SaveCommitIndex, CommandApplied,
     CommandTimeout, commandFrame
<1> QED BY <1>1, <1>2, <1>3, <1>4, <1>5, <1>6, <1>7 DEF Next

LEMMA SmTypes ==
  ASSUME TypeOK, NEW i \in Server
  PROVE  /\ lastApplied[i] \in Nat /\ commitIndex[i] \in Nat
         /\ batch[i] \in Batch
         /\ batch[i].at \in Nat /\ batch[i].upto \in Nat
         /\ NoBatch.at = 0 /\ NoBatch.upto = 0
  BY TypeParts DEF SmTypeOK, LogTypeOK, Batch, NoBatch

\* What the steps of ApplyStateMachine do to its locals.
LEMMA ApplyEffect ==
  ASSUME TypeOK, NEW i \in Server
  PROVE  /\ ApplyStateMachine(i) =>
              /\ batch[i].upto = 0 /\ lastApplied[i] < commitIndex[i]
              /\ batch'[i].at = lastApplied[i]
              /\ batch'[i].upto = commitIndex[i]
              /\ UNCHANGED <<lastApplied, applied>>
         /\ Apply(i) =>
              /\ batch[i].at < batch[i].upto
              /\ batch'[i].at = batch[i].at + 1
              /\ batch'[i].upto = batch[i].upto
              /\ applied'[i] = applied[i] \cup
                   {[index |-> batch[i].at + 1,
                     entry |-> EntryToApply(i, batch[i].at + 1)]}
              /\ UNCHANGED lastApplied
         /\ SetLastApplied(i) =>
              /\ batch[i].upto # 0 /\ lastApplied'[i] = batch[i].upto
              /\ batch'[i] = NoBatch
              /\ UNCHANGED applied
<1>1. SmTypeOK /\ batch[i] \in Batch
  BY TypeParts, SmTypes
<1>2. ASSUME ApplyStateMachine(i)
      PROVE  /\ batch[i].upto = 0 /\ lastApplied[i] < commitIndex[i]
             /\ batch'[i].at = lastApplied[i]
             /\ batch'[i].upto = commitIndex[i]
             /\ UNCHANGED <<lastApplied, applied>>
  BY <1>1, <1>2 DEF ApplyStateMachine, SmTypeOK
<1>3. ASSUME Apply(i)
      PROVE  /\ batch[i].at < batch[i].upto
             /\ batch'[i].at = batch[i].at + 1
             /\ batch'[i].upto = batch[i].upto
             /\ applied'[i] = applied[i] \cup
                  {[index |-> batch[i].at + 1,
                    entry |-> EntryToApply(i, batch[i].at + 1)]}
             /\ UNCHANGED lastApplied
  BY <1>1, <1>3 DEF Apply, SmTypeOK, Batch
<1>4. ASSUME SetLastApplied(i)
      PROVE  /\ batch[i].upto # 0 /\ lastApplied'[i] = batch[i].upto
             /\ batch'[i] = NoBatch
             /\ UNCHANGED applied
  BY <1>1, <1>4 DEF SetLastApplied, BatchDone, SmTypeOK
<1> QED BY <1>2, <1>3, <1>4

LEMMA BatchNext ==
  ASSUME TypeOK, AppliedSaved, BatchAhead, [Next]_vars
  PROVE  BatchAhead' /\ \A i \in Server : lastApplied'[i] >= lastApplied[i]
<1> SUFFICES ASSUME NEW i \in Server
             PROVE  /\ batch'[i].at <= batch'[i].upto
                    /\ batch'[i].upto # 0 => lastApplied'[i] <= batch'[i].upto
                    /\ lastApplied'[i] >= lastApplied[i]
  BY DEF BatchAhead
<1>1. /\ lastApplied[i] \in Nat /\ commitIndex[i] \in Nat
      /\ batch[i].at \in Nat /\ batch[i].upto \in Nat
      /\ NoBatch.at = 0 /\ NoBatch.upto = 0
      /\ batch[i].at <= batch[i].upto
      /\ batch[i].upto # 0 => lastApplied[i] <= batch[i].upto
  BY SmTypes DEF BatchAhead
<1>2. CASE /\ batch'[i] \in {batch[i], NoBatch}
           /\ lastApplied'[i] = lastApplied[i]
  BY <1>1, <1>2
<1>3. CASE ApplyStateMachine(i)
  BY <1>1, <1>3, ApplyEffect
<1>4. CASE Apply(i)
  BY <1>1, <1>4, ApplyEffect
<1>5. CASE SetLastApplied(i)
  BY <1>1, <1>5, ApplyEffect
<1> QED BY <1>2, <1>3, <1>4, <1>5, ApplySteps DEF ApplyThread

\* last_applied never goes back, in a cluster of any size and however many
\* stand for election: not when Apply fails in the middle of a batch, not when
\* a restart reads it again, not when a commit index is taken back below it,
\* and not in single mode, where two client threads may leave the commit index
\* at the lower of their two entries.  (Between its assignment and its save it
\* is under apply_mu, and nobody has seen it yet.)
THEOREM AppliedNeverDecreases ==
  Spec => [][\A i \in Server : lastApplied'[i] >= lastApplied[i]]_vars
<1> DEFINE Inv == ElectionInv /\ SavedInv /\ BatchAhead
<1>1. Init => Inv
  <2>1. Init => BatchAhead
    BY DEF Init, BatchAhead, NoBatch
  <2> QED BY <2>1, ElectionInit, SavedInit
<1>2. Inv /\ [Next]_vars => Inv'
  BY TypeNext, CallsNext, VotesNext, SavedNext, BatchNext
     DEF ElectionInv, SavedInv
<1>3. Inv /\ [Next]_vars =>
        [\A i \in Server : lastApplied'[i] >= lastApplied[i]]_vars
  BY BatchNext DEF ElectionInv, SavedInv
<1> QED BY <1>1, <1>2, <1>3, PTL DEF Spec

=============================================================================
