-------------------------- MODULE FloydTimersProofs --------------------------
(***************************************************************************)
(* Theorems about FloydTimers, for any number of followers, any heartbeat  *)
(* and check interval, any delay of the RPCs below a heartbeat, and any    *)
(* number of reigns, commands and misses.                                  *)
(***************************************************************************)
EXTENDS FloydTimers, TLAPS

-----------------------------------------------------------------------------
(* Types *)

\* The limits of the ages are numbers.
LEMMA Limits ==
  /\ HeartBeat \in Nat /\ HeartBeat >= 1
  /\ CheckLeader \in Nat /\ CheckLeader >= 1
  /\ Delay \in Nat /\ Delay < HeartBeat
  /\ MaxReigns \in Nat /\ MaxMisses \in Nat /\ MaxQueue \in Nat
  /\ OldSent \in Nat /\ OldSent = 2 * HeartBeat
  /\ OldOp \in Nat /\ OldOp = 2 * CheckLeader + 2
  /\ MaxSilence \in Nat /\ MaxSilence = 2 * HeartBeat - 1 + Delay
  /\ OldUnheard \in Nat /\ OldUnheard = MaxSilence + 1
BY TimerAssumption, TimerBoundAssumption
   DEF OldSent, OldOp, MaxSilence, OldUnheard

\* An age grows by at most one and stays within its limit.
LEMMA OlderBounds ==
  ASSUME NEW limit \in Nat, NEW age \in 0..limit
  PROVE  /\ Older(age, limit) \in 0..limit
         /\ Older(age, limit) <= age + 1
         /\ age < limit => Older(age, limit) = age + 1
BY DEF Older

\* Every variable of FloydTimers has its type at the start.
LEMMA InitType == Init => TypeOK
<1> USE Limits
<1>0. Init => /\ leading \in BOOLEAN
              /\ busy \in [Follower -> BOOLEAN]
              /\ behind \in [Follower -> BOOLEAN]
              /\ covered \in [Follower -> BOOLEAN]
  BY Zenon DEF Init
<1>1. Init => /\ reign \in 0..MaxReigns
              /\ beats \subseteq (1..MaxReigns) \X (0..HeartBeat)
              /\ queued \in [Follower -> Nat]
              /\ sent \in [Follower -> 0..OldSent]
  BY DEF Init
<1>2. Init => /\ sinceOp \in [Follower -> 0..OldOp]
              /\ check \in [Follower -> 0..CheckLeader]
              /\ standing \in SUBSET Follower
              /\ heard \in SUBSET Follower
              /\ unheard \in [Follower -> 0..OldUnheard]
              /\ misses \in 0..MaxMisses
  BY DEF Init, NextCheck
<1> QED BY <1>0, <1>1, <1>2 DEF TypeOK

\* A heartbeat, and the task that follows it, keep the types.
LEMMA HeartBeatType ==
  ASSUME TypeOK, NEW b \in beats, LaunchHeartBeat(b)
  PROVE  TypeOK'
<1> USE Limits
<1>1. b[1] \in 1..MaxReigns /\ <<b[1], HeartBeat>> \in (1..MaxReigns) \X (0..HeartBeat)
  BY DEF TypeOK
<1>2. beats' \subseteq (1..MaxReigns) \X (0..HeartBeat)
  BY <1>1 DEF TypeOK, LaunchHeartBeat, NextBeat
<1>3. queued' \in [Follower -> Nat]
  BY DEF TypeOK, LaunchHeartBeat, NoticePeers
<1> QED
  BY <1>2, <1>3 DEF TypeOK, LaunchHeartBeat, followerVars, history

\* The steps of the peer threads and of the followers keep the types.
LEMMA PeerType ==
  ASSUME TypeOK, NEW p \in Follower,
         \/ LaunchCheckLeader(p) \/ AppendEntriesRPC(p) \/ ReplyAppendEntries(p)
         \/ RefuseAppendEntries(p) \/ MissAppendEntries(p)
  PROVE  TypeOK'
<1> USE Limits
<1>1. CASE LaunchCheckLeader(p)
  BY <1>1 DEF TypeOK, LaunchCheckLeader, NextCheck, leaderVars, peerVars, history
<1>2. CASE AppendEntriesRPC(p)
  <2>1. queued' \in [Follower -> Nat]
    BY <1>2 DEF TypeOK, AppendEntriesRPC, Waiting
  <2>2. sent' \in [Follower -> 0..OldSent]
    BY <1>2 DEF TypeOK, AppendEntriesRPC
  <2>3. CASE Skipped(p)
    BY <1>2, <2>1, <2>2, <2>3
       DEF TypeOK, AppendEntriesRPC, leaderVars, followerVars, history
  <2>4. CASE ~Skipped(p)
    <3>1. /\ busy' = [busy EXCEPT ![p] = TRUE]
          /\ covered' = [covered EXCEPT ![p] = TRUE]
      BY <1>2, <2>4, Zenon DEF AppendEntriesRPC
    <3>2. busy' \in [Follower -> BOOLEAN] /\ covered' \in [Follower -> BOOLEAN]
      BY <3>1 DEF TypeOK
    <3> QED
      BY <1>2, <2>1, <2>2, <3>2
         DEF TypeOK, AppendEntriesRPC, leaderVars, followerVars, history
  <2> QED
    BY <2>3, <2>4
<1>3. CASE ReplyAppendEntries(p)
  <2>1. behind' \in [Follower -> BOOLEAN]
    BY <1>3 DEF TypeOK, ReplyAppendEntries
  <2>2. /\ sinceOp' \in [Follower -> 0..OldOp]
        /\ standing' \in SUBSET Follower
        /\ heard' \in SUBSET Follower
    BY <1>3 DEF TypeOK, ReplyAppendEntries, SetLastOpTime
  <2> QED
    BY <1>3, <2>1, <2>2 DEF TypeOK, ReplyAppendEntries, leaderVars
<1>4. CASE RefuseAppendEntries(p)
  <2>1. /\ sinceOp' \in [Follower -> 0..OldOp]
        /\ standing' \in SUBSET Follower
        /\ heard' \in SUBSET Follower
    BY <1>4 DEF TypeOK, RefuseAppendEntries, SetLastOpTime
  <2>2. queued' \in [Follower -> Nat]
    BY <1>4 DEF TypeOK, RefuseAppendEntries
  <2>3. behind' \in [Follower -> BOOLEAN]
    <3>1. \/ behind' = [behind EXCEPT ![p] = TRUE]
          \/ behind' = behind
      BY <1>4, Zenon DEF RefuseAppendEntries
    <3> QED BY <3>1 DEF TypeOK
  <2>4. busy' \in [Follower -> BOOLEAN] /\ misses' \in 0..MaxMisses
    BY <1>4 DEF TypeOK, RefuseAppendEntries
  <2> QED
    BY <1>4, <2>1, <2>2, <2>3, <2>4 DEF TypeOK, RefuseAppendEntries, leaderVars
<1>5. CASE MissAppendEntries(p)
  BY <1>5 DEF TypeOK, MissAppendEntries, leaderVars, followerVars
<1> QED BY <1>1, <1>2, <1>3, <1>4, <1>5

\* Elections and commands keep the types.
LEMMA LeaderType ==
  ASSUME TypeOK, LaunchNewCommand \/ BecomeLeader \/ BecomeFollower
  PROVE  TypeOK'
<1> USE Limits
<1>1. CASE LaunchNewCommand
  BY <1>1 DEF TypeOK, LaunchNewCommand, NoticePeers, leaderVars, followerVars,
              history
<1>2. CASE BecomeLeader
  <2>1. reign' \in 0..MaxReigns /\ FirstBeat \in (1..MaxReigns) \X (0..HeartBeat)
    BY <1>2 DEF TypeOK, BecomeLeader, FirstBeat
  <2>2. beats' \subseteq (1..MaxReigns) \X (0..HeartBeat)
    BY <1>2, <2>1 DEF TypeOK, BecomeLeader
  <2>3. sinceOp' \in [Follower -> 0..OldOp] /\ standing' \in SUBSET Follower
    BY <1>2 DEF TypeOK, BecomeLeader
  <2> QED BY <1>2, <2>1, <2>2, <2>3 DEF TypeOK, BecomeLeader
<1>3. CASE BecomeFollower
  BY <1>3 DEF TypeOK, BecomeFollower, peerVars, followerVars, history
<1> QED BY <1>1, <1>2, <1>3

\* The passing of time keeps the types: no age or delay leaves its limits.
LEMMA TickType == ASSUME TypeOK, Tick PROVE TypeOK'
<1> USE Limits
<1>1. beats' \subseteq (1..MaxReigns) \X (0..HeartBeat)
  <2> SUFFICES ASSUME NEW c \in beats'
               PROVE  c \in (1..MaxReigns) \X (0..HeartBeat)
    OBVIOUS
  <2>1. PICK b \in beats : c = <<b[1], b[2] - 1>>
    BY DEF Tick
  <2>2. b[1] \in 1..MaxReigns /\ b[2] \in 0..HeartBeat /\ b[2] # 0
    BY DEF TypeOK, Tick, DueBeats
  <2> QED BY <2>1, <2>2
<1>2. check' \in [Follower -> 0..CheckLeader]
  BY DEF TypeOK, Tick
<1>3. /\ sent' \in [Follower -> 0..OldSent]
      /\ sinceOp' \in [Follower -> 0..OldOp]
      /\ unheard' \in [Follower -> 0..OldUnheard]
  BY OlderBounds DEF TypeOK, Tick
<1> QED BY <1>1, <1>2, <1>3 DEF TypeOK, Tick

\* Every step keeps the types.
LEMMA NextType == TypeOK /\ [Next]_vars => TypeOK'
<1> SUFFICES ASSUME TypeOK, [Next]_vars PROVE TypeOK'
  OBVIOUS
<1>1. ASSUME NEW b \in beats, LaunchHeartBeat(b) PROVE TypeOK'
  BY <1>1, HeartBeatType
<1>2. ASSUME NEW p \in Follower,
             \/ LaunchCheckLeader(p) \/ AppendEntriesRPC(p)
             \/ ReplyAppendEntries(p) \/ RefuseAppendEntries(p)
             \/ MissAppendEntries(p)
      PROVE  TypeOK'
  BY <1>2, PeerType
<1>3. CASE LaunchNewCommand \/ BecomeLeader \/ BecomeFollower
  BY <1>3, LeaderType
<1>4. CASE Tick
  BY <1>4, TickType
<1>5. CASE UNCHANGED vars
  BY <1>5 DEF TypeOK, vars, leaderVars, peerVars, followerVars, history
<1> QED BY <1>1, <1>2, <1>3, <1>4, <1>5 DEF Next

\* The variables of FloydTimers keep their types: no timed task is ever due
\* later than its delay, and no age leaves its limits.
THEOREM TimersTyped == Spec => []TypeOK
BY InitType, NextType, PTL DEF Spec

-----------------------------------------------------------------------------
(* A silent leader is noticed *)

\* A follower that does not stand will look at its clock in time.
CheckedInTime ==
  \A p \in Follower :
    p \notin standing => sinceOp[p] + check[p] <= 2 * CheckLeader + 1

\* Every step of FloydTimers keeps CheckedInTime.
LEMMA NextChecked == TypeOK /\ CheckedInTime /\ [Next]_vars => CheckedInTime'
<1> USE Limits
<1> SUFFICES ASSUME TypeOK, CheckedInTime, [Next]_vars,
                    NEW q \in Follower, q \notin standing'
             PROVE  sinceOp'[q] + check'[q] <= 2 * CheckLeader + 1
  BY DEF CheckedInTime
<1>0. /\ sinceOp[q] \in 0..OldOp /\ check[q] \in 0..CheckLeader
      /\ q \notin standing => sinceOp[q] + check[q] <= 2 * CheckLeader + 1
  BY DEF TypeOK, CheckedInTime
<1>1. ASSUME UNCHANGED followerVars
      PROVE  sinceOp'[q] + check'[q] <= 2 * CheckLeader + 1
  BY <1>0, <1>1 DEF followerVars
<1>2. ASSUME NEW p \in Follower, LaunchCheckLeader(p)
      PROVE  sinceOp'[q] + check'[q] <= 2 * CheckLeader + 1
  <2>1. sinceOp' = sinceOp /\ check' = [check EXCEPT ![p] = CheckLeader]
    BY <1>2 DEF LaunchCheckLeader, peerVars, NextCheck
  <2>2. CASE q = p
    <3>1. ~TimedOut(p)
      BY <1>2, <2>2 DEF LaunchCheckLeader
    <3> QED BY <1>0, <2>1, <2>2, <3>1 DEF TimedOut, TypeOK
  <2>3. CASE q # p
    BY <1>0, <1>2, <2>1, <2>3 DEF LaunchCheckLeader, TypeOK
  <2> QED BY <2>2, <2>3
<1>3. ASSUME NEW p \in Follower, ReplyAppendEntries(p) \/ RefuseAppendEntries(p)
      PROVE  sinceOp'[q] + check'[q] <= 2 * CheckLeader + 1
  <2>1. check' = check /\ SetLastOpTime(p)
    BY <1>3 DEF ReplyAppendEntries, RefuseAppendEntries
  <2> QED BY <1>0, <2>1 DEF SetLastOpTime, TypeOK
<1>4. CASE BecomeLeader
  <2>1. PICK granted \in SUBSET Follower :
          /\ sinceOp' = [p \in Follower |-> IF p \in granted THEN 0 ELSE sinceOp[p]]
          /\ standing' = standing \ granted
    BY <1>4 DEF BecomeLeader
  <2>2. check' = check
    BY <1>4 DEF BecomeLeader
  <2> QED BY <1>0, <2>1, <2>2
<1>5. CASE Tick
  <2>1. /\ check'[q] = check[q] - 1
        /\ sinceOp'[q] = Older(sinceOp[q], OldOp)
        /\ standing' = standing
    BY <1>5 DEF Tick
  <2>2. sinceOp'[q] <= sinceOp[q] + 1 /\ sinceOp'[q] \in Int
    BY <1>0, <2>1, OlderBounds
  <2> QED BY <1>0, <2>1, <2>2
<1>6. ASSUME NEW b \in beats, LaunchHeartBeat(b) PROVE UNCHANGED followerVars
  BY <1>6 DEF LaunchHeartBeat
<1>7. ASSUME NEW p \in Follower, AppendEntriesRPC(p) \/ MissAppendEntries(p)
      PROVE  UNCHANGED followerVars
  BY <1>7 DEF AppendEntriesRPC, MissAppendEntries
<1>8. CASE LaunchNewCommand \/ BecomeFollower \/ UNCHANGED vars
  BY <1>1, <1>8 DEF LaunchNewCommand, BecomeFollower, vars
<1> QED BY <1>1, <1>2, <1>3, <1>4, <1>5, <1>6, <1>7, <1>8 DEF Next

\* A follower that has heard of nobody for twice check_leader_us has stood for
\* election, whatever the leader, the other followers and the network do.
THEOREM SilencesNoticed == Spec => []SilenceNoticed
<1>1. Init => CheckedInTime
  BY Limits DEF Init, CheckedInTime, NextCheck
<1>2. TypeOK /\ CheckedInTime => SilenceNoticed
  BY Limits DEF TypeOK, CheckedInTime, SilenceNoticed
<1> QED BY <1>1, <1>2, TimersTyped, NextChecked, PTL DEF Spec

-----------------------------------------------------------------------------
(* A leader that is alive is heard *)

\* The ticks since p got a request; as long as it got none in this reign, or
\* since one was missed, the ticks since then.
Silence(p) == IF p \in heard THEN sinceOp[p] ELSE unheard[p]

\* A heartbeat of this reign will end the silence in time, unless the task of
\* the last one is still to be run.
Reminded(p) ==
  \E r \in 0..HeartBeat :
    /\ <<reign, r>> \in beats
    /\ r = 0 \/ queued[p] > 0 \/ Silence(p) + r <= 2 * HeartBeat - 1

\* While a request is under way the silence is at most what it was when the
\* request was sent, and the time since.
CallInTime(p) ==
  busy[p] => /\ Silence(p) <= 2 * HeartBeat - 1 + sent[p]
             /\ \E r \in 0..HeartBeat : <<reign, r>> \in beats

\* While none is, the silence began after the last one was sent: a heartbeat
\* that is skipped because of that one is not the second in a row.
WaitInTime(p) ==
  ~busy[p] => /\ Silence(p) <= sent[p]
              /\ Silence(p) <= 2 * HeartBeat - 1
              /\ Reminded(p)

\* The inductive invariant of both.
HeardInv ==
  \A p \in Follower : /\ busy[p] => sent[p] <= Delay
                      /\ leading => CallInTime(p) /\ WaitInTime(p)

\* What HeardInv says of one follower, with the types it needs.
LEMMA HeardFacts ==
  ASSUME TypeOK, HeardInv, NEW p \in Follower
  PROVE  /\ busy[p] \in BOOLEAN
         /\ sent[p] \in 0..OldSent
         /\ queued[p] \in Nat
         /\ sinceOp[p] \in 0..OldOp
         /\ unheard[p] \in 0..OldUnheard
         /\ Silence(p) \in Nat
         /\ busy[p] => sent[p] <= Delay
         /\ leading => CallInTime(p) /\ WaitInTime(p)
BY Limits DEF TypeOK, HeardInv, Silence

\* Nothing changes for a follower whose peer thread does nothing, unless time
\* passes or the leader changes; its queue may have grown.
LEMMA HeardKept ==
  ASSUME TypeOK, HeardInv, NEW p \in Follower,
         leading' => leading, reign' = reign, beats \subseteq beats',
         busy'[p] = busy[p], sent'[p] = sent[p],
         queued'[p] \in Nat, queued'[p] >= queued[p],
         sinceOp'[p] = sinceOp[p], unheard'[p] = unheard[p],
         p \in heard' <=> p \in heard
  PROVE  /\ busy'[p] => sent'[p] <= Delay
         /\ leading' => CallInTime(p)' /\ WaitInTime(p)'
<1>1. Silence(p)' = Silence(p)
  BY DEF Silence
<1>2. CallInTime(p) => CallInTime(p)'
  BY <1>1 DEF CallInTime
<1>3. queued[p] > 0 => queued'[p] > 0
  BY HeardFacts
<1>4. Reminded(p) => Reminded(p)'
  BY <1>1, <1>3, Zenon DEF Reminded
<1>5. WaitInTime(p) => WaitInTime(p)'
  BY <1>1, <1>4 DEF WaitInTime
<1> QED BY <1>2, <1>5, HeardFacts

\* A heartbeat task leaves the next one of its chain and a task for every peer.
LEMMA HeardHeartBeat ==
  ASSUME TypeOK, HeardInv, NEW b \in beats, LaunchHeartBeat(b)
  PROVE  HeardInv'
<1> USE Limits
<1> SUFFICES ASSUME NEW p \in Follower
             PROVE  /\ busy'[p] => sent'[p] <= Delay
                    /\ leading' => CallInTime(p)' /\ WaitInTime(p)'
  BY DEF HeardInv
<1>1. /\ leading' = leading /\ reign' = reign
      /\ UNCHANGED <<busy, sent, sinceOp, heard, unheard>>
  BY DEF LaunchHeartBeat, followerVars, history
<1>2. Silence(p)' = Silence(p)
  BY <1>1 DEF Silence
<1>3. CASE leading
  <2>1. /\ beats' = (beats \ {b}) \cup {<<b[1], HeartBeat>>}
        /\ queued'[p] = queued[p] + 1
    BY <1>3 DEF LaunchHeartBeat, NextBeat, NoticePeers
  <2>2. queued'[p] > 0
    BY <2>1, HeardFacts
  <2>3. ASSUME NEW r \in 0..HeartBeat, <<reign, r>> \in beats
        PROVE  \E s \in 0..HeartBeat : <<reign, s>> \in beats'
    BY <2>1, <2>3
  <2>4. \E s \in 0..HeartBeat : <<reign', s>> \in beats'
    BY <1>1, <1>3, <2>3, HeardFacts DEF CallInTime, WaitInTime, Reminded
  <2>5. Reminded(p)'
    BY <2>2, <2>4 DEF Reminded
  <2> QED
    BY <1>1, <1>2, <2>4, <2>5, <1>3, HeardFacts DEF CallInTime, WaitInTime
<1>4. CASE ~leading
  BY <1>1, <1>4, HeardFacts
<1> QED BY <1>3, <1>4

\* A peer thread skips its task only when the silence is shorter than a
\* heartbeat, and otherwise makes its call.
LEMMA HeardRPC ==
  ASSUME TypeOK, HeardInv, NEW q \in Follower, AppendEntriesRPC(q)
  PROVE  HeardInv'
<1> USE Limits
<1> SUFFICES ASSUME NEW p \in Follower
             PROVE  /\ busy'[p] => sent'[p] <= Delay
                    /\ leading' => CallInTime(p)' /\ WaitInTime(p)'
  BY DEF HeardInv
<1>1. UNCHANGED <<leading, reign, beats, sinceOp, heard, unheard>>
  BY DEF AppendEntriesRPC, leaderVars, followerVars, history
<1>2. Silence(p)' = Silence(p)
  BY <1>1 DEF Silence
<1>3. CASE p # q
  <2>1. queued'[p] = queued[p] /\ busy'[p] = busy[p] /\ sent'[p] = sent[p]
    BY <1>3 DEF AppendEntriesRPC, TypeOK
  <2> QED BY <1>1, <2>1, HeardKept, HeardFacts
<1>4. CASE p = q /\ Skipped(q)
  <2>1. ~busy[p] /\ busy' = busy /\ sent' = sent /\ sent[p] < HeartBeat
    BY <1>4 DEF AppendEntriesRPC, Waiting, Skipped
  <2>2. ASSUME leading PROVE Reminded(p)'
    <3>1. /\ Silence(p) <= sent[p]
          /\ Reminded(p)
      BY <2>1, <2>2, HeardFacts DEF WaitInTime
    <3>2. PICK r \in 0..HeartBeat : <<reign, r>> \in beats
      BY <3>1 DEF Reminded
    <3>3. Silence(p)' + r <= 2 * HeartBeat - 1
      BY <1>2, <2>1, <3>1, HeardFacts
    <3> QED BY <1>1, <3>2, <3>3 DEF Reminded
  <2> QED
    BY <1>1, <1>2, <2>1, <2>2, HeardFacts DEF CallInTime, WaitInTime
<1>5. CASE p = q /\ ~Skipped(q)
  <2>1. ~busy[p] /\ busy'[p] = TRUE /\ sent'[p] = 0
    BY <1>5 DEF AppendEntriesRPC, Waiting, TypeOK
  <2>2. ASSUME leading
        PROVE  /\ Silence(p) <= 2 * HeartBeat - 1
               /\ \E r \in 0..HeartBeat : <<reign, r>> \in beats
    BY <2>1, <2>2, HeardFacts DEF WaitInTime, Reminded
  <2> QED
    BY <1>1, <1>2, <2>1, <2>2, HeardFacts DEF CallInTime, WaitInTime
<1> QED BY <1>3, <1>4, <1>5

\* An answer, a refusal and a miss begin a new silence.
LEMMA HeardAnswer ==
  ASSUME TypeOK, HeardInv, NEW q \in Follower,
         ReplyAppendEntries(q) \/ RefuseAppendEntries(q) \/ MissAppendEntries(q)
  PROVE  HeardInv'
<1> USE Limits
<1> SUFFICES ASSUME NEW p \in Follower
             PROVE  /\ busy'[p] => sent'[p] <= Delay
                    /\ leading' => CallInTime(p)' /\ WaitInTime(p)'
  BY DEF HeardInv
<1>1. /\ UNCHANGED <<leading, reign, beats, sent>>
      /\ busy[q]
      /\ busy' = [busy EXCEPT ![q] = FALSE]
  BY DEF ReplyAppendEntries, RefuseAppendEntries, MissAppendEntries, leaderVars
<1>2. CASE p # q
  <2>1. queued'[p] = queued[p] /\ busy'[p] = busy[p]
    BY <1>1, <1>2 DEF ReplyAppendEntries, RefuseAppendEntries,
                      MissAppendEntries, TypeOK
  <2>2. /\ sinceOp'[p] = sinceOp[p] /\ unheard'[p] = unheard[p]
        /\ p \in heard' <=> p \in heard
    BY <1>2 DEF ReplyAppendEntries, RefuseAppendEntries, MissAppendEntries,
                SetLastOpTime, followerVars, TypeOK
  <2>3. queued'[p] \in Nat /\ queued'[p] >= queued[p]
    BY <2>1, HeardFacts
  <2> QED BY <1>1, <2>1, <2>2, <2>3, HeardKept
<1>3. CASE p = q
  <2>1. ~busy'[p]
    BY <1>1, <1>3 DEF TypeOK
  <2>2. Silence(p)' = 0
    BY <1>3 DEF ReplyAppendEntries, RefuseAppendEntries, MissAppendEntries,
                SetLastOpTime, Silence, TypeOK
  <2>3. ASSUME leading PROVE Reminded(p)'
    <3>1. PICK r \in 0..HeartBeat : <<reign, r>> \in beats
      BY <1>1, <1>3, <2>3, HeardFacts DEF CallInTime
    <3> QED BY <1>1, <2>2, <3>1 DEF Reminded
  <2> QED
    BY <1>1, <2>1, <2>2, <2>3, HeardFacts DEF CallInTime, WaitInTime
<1> QED BY <1>2, <1>3

\* An election begins a new silence and a chain of heartbeats that is due.
LEMMA HeardElection ==
  ASSUME TypeOK, HeardInv, BecomeLeader
  PROVE  HeardInv'
<1> USE Limits
<1> SUFFICES ASSUME NEW p \in Follower
             PROVE  /\ busy'[p] => sent'[p] <= Delay
                    /\ leading' => CallInTime(p)' /\ WaitInTime(p)'
  BY DEF HeardInv
<1>1. /\ UNCHANGED <<busy, sent>>
      /\ <<reign', 0>> \in beats'
  BY DEF BecomeLeader, FirstBeat
<1>2. Silence(p)' = 0
  BY DEF BecomeLeader, Silence
<1>3. 0 \in 0..HeartBeat
  OBVIOUS
<1>4. Reminded(p)'
  BY <1>1, <1>3 DEF Reminded
<1> QED BY <1>1, <1>2, <1>3, <1>4, HeardFacts DEF CallInTime, WaitInTime

\* Time passes for the silence, the call and the chain alike.
LEMMA HeardTick ==
  ASSUME TypeOK, HeardInv, Tick
  PROVE  HeardInv'
<1> USE Limits
<1> SUFFICES ASSUME NEW p \in Follower
             PROVE  /\ busy'[p] => sent'[p] <= Delay
                    /\ leading' => CallInTime(p)' /\ WaitInTime(p)'
  BY DEF HeardInv
<1>1. /\ UNCHANGED <<leading, reign, queued, busy, heard>>
      /\ sent'[p] = Older(sent[p], OldSent)
      /\ sinceOp'[p] = Older(sinceOp[p], OldOp)
      /\ unheard'[p] = Older(unheard[p], OldUnheard)
  BY DEF Tick
<1>2. Silence(p)' <= Silence(p) + 1 /\ Silence(p)' \in Nat
  <2>0. sinceOp[p] \in 0..OldOp /\ unheard[p] \in 0..OldUnheard
    BY HeardFacts
  <2>1. /\ sinceOp'[p] <= sinceOp[p] + 1 /\ sinceOp'[p] \in Nat
        /\ unheard'[p] <= unheard[p] + 1 /\ unheard'[p] \in Nat
    BY <1>1, <2>0 DEF Older
  <2> QED BY <1>1, <2>1 DEF Silence
<1>3. ASSUME NEW r \in 0..HeartBeat, <<reign, r>> \in beats
      PROVE  r # 0 /\ r - 1 \in 0..HeartBeat /\ <<reign', r - 1>> \in beats'
  <2>1. r # 0
    BY <1>3 DEF Tick, DueBeats
  <2>2. <<reign, r - 1>> \in beats'
    BY <1>3 DEF Tick
  <2> QED BY <1>1, <2>1, <2>2
<1>4. CASE busy[p]
  <2>1. sent[p] \in Nat /\ sent[p] < Delay
    BY <1>4, HeardFacts DEF Tick, Overdue
  <2>2. sent'[p] = sent[p] + 1
    BY <1>1, <2>1 DEF Older
  <2>3. ASSUME leading PROVE CallInTime(p)'
    <3>1. /\ Silence(p) <= 2 * HeartBeat - 1 + sent[p]
          /\ \E r \in 0..HeartBeat : <<reign, r>> \in beats
      BY <1>4, <2>3, HeardFacts DEF CallInTime
    <3>2. \E r \in 0..HeartBeat : <<reign', r>> \in beats'
      BY <3>1, <1>3
    <3>3. Silence(p)' <= 2 * HeartBeat - 1 + sent'[p]
      BY <1>2, <2>2, <3>1, HeardFacts
    <3> QED BY <3>2, <3>3 DEF CallInTime
  <2> QED
    BY <1>1, <1>4, <2>1, <2>2, <2>3, HeardFacts DEF WaitInTime
<1>5. CASE ~busy[p]
  <2>1. ~(queued[p] > 0)
    BY <1>5 DEF Tick, Waiting
  <2>2. ASSUME leading PROVE WaitInTime(p)'
    <3>1. Silence(p) <= sent[p] /\ Reminded(p)
      BY <1>5, <2>2, HeardFacts DEF WaitInTime
    <3>2. PICK r \in 0..HeartBeat :
            /\ <<reign, r>> \in beats
            /\ r = 0 \/ queued[p] > 0 \/ Silence(p) + r <= 2 * HeartBeat - 1
      BY <3>1 DEF Reminded
    <3>3. /\ r # 0 /\ r - 1 \in 0..HeartBeat
          /\ <<reign', r - 1>> \in beats'
      BY <1>3, <3>2
    <3>4. Silence(p)' + (r - 1) <= 2 * HeartBeat - 1
      BY <1>2, <2>1, <3>2, <3>3, HeardFacts
    <3>5. Silence(p)' <= 2 * HeartBeat - 1
      BY <1>2, <3>3, <3>4
    <3>6. Silence(p)' <= sent'[p]
      <4>1. CASE sent[p] < OldSent
        <5>1. sent'[p] = sent[p] + 1
          BY <1>1, <4>1 DEF Older
        <5> QED BY <1>2, <3>1, <5>1, HeardFacts
      <4>2. CASE sent[p] = OldSent
        BY <1>1, <1>2, <3>5, <4>2, HeardFacts DEF Older
      <4> QED BY <4>1, <4>2, HeardFacts
    <3> QED BY <3>3, <3>4, <3>5, <3>6 DEF WaitInTime, Reminded
  <2> QED
    BY <1>1, <1>5, <2>2, HeardFacts DEF CallInTime
<1> QED BY <1>4, <1>5

\* Every step of FloydTimers keeps HeardInv.
LEMMA NextHeard == TypeOK /\ HeardInv /\ [Next]_vars => HeardInv'
<1> SUFFICES ASSUME TypeOK, HeardInv, [Next]_vars PROVE HeardInv'
  OBVIOUS
<1>1. ASSUME NEW b \in beats, LaunchHeartBeat(b) PROVE HeardInv'
  BY <1>1, HeardHeartBeat
<1>2. ASSUME NEW p \in Follower, AppendEntriesRPC(p) PROVE HeardInv'
  BY <1>2, HeardRPC
<1>3. ASSUME NEW p \in Follower, \/ ReplyAppendEntries(p)
                                 \/ RefuseAppendEntries(p)
                                 \/ MissAppendEntries(p)
      PROVE  HeardInv'
  BY <1>3, HeardAnswer
<1>4. CASE BecomeLeader
  BY <1>4, HeardElection
<1>5. CASE Tick
  BY <1>5, HeardTick
<1>6. ASSUME leading' => leading, reign' = reign, beats' = beats, busy' = busy,
             sent' = sent, sinceOp' = sinceOp, unheard' = unheard, heard' = heard,
             \A p \in Follower : queued'[p] \in Nat /\ queued'[p] >= queued[p]
      PROVE  HeardInv'
  BY <1>6, HeardKept DEF HeardInv
<1>7. \A p \in Follower : queued[p] \in Nat
  BY DEF TypeOK
<1>8. CASE LaunchNewCommand
  <2>1. \A p \in Follower : queued'[p] = queued[p] + 1
    BY <1>8 DEF LaunchNewCommand, NoticePeers
  <2> QED
    BY <1>6, <1>7, <1>8, <2>1
       DEF LaunchNewCommand, leaderVars, followerVars, history
<1>9. ASSUME NEW p \in Follower, LaunchCheckLeader(p) PROVE HeardInv'
  BY <1>6, <1>7, <1>9 DEF LaunchCheckLeader, leaderVars, peerVars, history
<1>10. CASE BecomeFollower
  BY <1>6, <1>7, <1>10 DEF BecomeFollower, peerVars, followerVars, history
<1>11. CASE UNCHANGED vars
  BY <1>6, <1>7, <1>11 DEF vars, leaderVars, peerVars, followerVars, history
<1> QED
  BY <1>1, <1>2, <1>3, <1>4, <1>5, <1>8, <1>9, <1>10, <1>11 DEF Next

\* HeardInv always holds.
LEMMA HeardAlways == Spec => []HeardInv
<1>1. Init => HeardInv
  BY DEF Init, HeardInv
<1> QED BY <1>1, TimersTyped, NextHeard, PTL DEF Spec

\* No silence of a leader that is alive is longer than MaxSilence.
LEMMA SilenceBounded ==
  ASSUME TypeOK, HeardInv, NEW p \in Follower, leading
  PROVE  Silence(p) \in Nat /\ Silence(p) <= MaxSilence
BY Limits, HeardFacts DEF CallInTime, WaitInTime

\* A new leader is heard by every follower within MaxSilence, and again within
\* MaxSilence of a failed RPC, whatever tasks of earlier reigns are left.
THEOREM LeadersHeard == Spec => []HeardInTime
<1>1. TypeOK /\ HeardInv => HeardInTime
  BY Limits, SilenceBounded DEF HeardInTime, Silence
<1> QED BY <1>1, TimersTyped, HeardAlways, PTL

\* With check_leader_us at least MaxSilence, that is two heartbeats and the
\* delay of an RPC, no follower stands against a leader that is alive.
THEOREM LeadersKept ==
  ASSUME CheckLeader >= MaxSilence
  PROVE  Spec => []LeaderKept
<1>1. TypeOK /\ HeardInv => LeaderKept
  BY Limits, SilenceBounded DEF LeaderKept, TimedOut, Silence
<1> QED BY <1>1, TimersTyped, HeardAlways, PTL

=============================================================================
