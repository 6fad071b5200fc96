----------------------------- MODULE FloydTimers -----------------------------
(***************************************************************************)
(* Heartbeats against election timeouts: the timed tasks of FloydPrimary   *)
(* and the rule by which a peer thread skips a heartbeat, in discrete time.*)
(*                                                                         *)
(*   one server   that leads again and again: its kHeartBeat tasks, and a  *)
(*                peer thread for every follower                           *)
(*   followers    their last_op_time and their kCheckLeader task           *)
(*                                                                         *)
(* Every task runs as soon as it is due and its thread is free.  An RPC    *)
(* that does not fail is done within Delay.  Times are kept as ages        *)
(* (NowMicros() minus the stored time), up to an age beyond which the code *)
(* makes no difference.                                                    *)
(***************************************************************************)
EXTENDS Integers, FiniteSets

CONSTANTS
  Follower,      \* the other servers
  HeartBeat,     \* options_.heartbeat_us, in ticks
  CheckLeader,   \* options_.check_leader_us, in ticks
  Delay,         \* the longest time of an RPC, in ticks
  MaxReigns,     \* bound: how often the server is elected
  MaxMisses,     \* bound: RPCs that fail or are refused
  MaxQueue       \* bound: tasks in the queue of a peer thread

ASSUME TimerAssumption ==
  /\ HeartBeat \in Nat \ {0}
  /\ CheckLeader \in Nat \ {0}
  /\ Delay \in Nat
  /\ Delay < HeartBeat

ASSUME TimerBoundAssumption == {MaxReigns, MaxMisses, MaxQueue} \subseteq Nat

VARIABLES
  leading,    \* role = kLeader
  reign,      \* how often the server has been elected
  beats,      \* the kHeartBeat tasks of the primary thread: <<reign that
              \*   started the chain, ticks until it is due>>
  queued,     \* AppendEntries tasks in the queue of each peer thread
  busy,       \* whether the peer thread waits for an answer
  sent,       \* age of Peer::peer_last_op_time
  behind,     \* next_index_ <= last_log_index
  covered,    \* the request under way has all entries
  sinceOp,    \* age of last_op_time of the follower
  check,      \* ticks until the kCheckLeader task of the follower is due
  standing,   \* followers that have stood and not gone back to the leader; a
              \*   candidate that is denied a vote may follow and stand again,
              \*   which leaves last_op_time and the chain of checks alone
  heard,      \* history: followers that got a request in this reign, and none
              \*   has missed them since
  unheard,    \* history: ticks since the reign began, or the last miss
  misses      \* how many RPCs failed or were refused

leaderVars   == <<leading, reign, beats>>
peerVars     == <<queued, busy, sent, behind, covered>>
followerVars == <<sinceOp, check, standing>>
history      == <<heard, unheard, misses>>
vars == <<leaderVars, peerVars, followerVars, history>>

-----------------------------------------------------------------------------
(* Time *)

\* The longest a follower is without a request while the leader is alive: the
\* heartbeat after a command may be skipped, the one after it is not.
MaxSilence == 2 * HeartBeat - 1 + Delay

\* The ages beyond which nothing changes.
OldSent    == 2 * HeartBeat
OldOp      == 2 * CheckLeader + 2
OldUnheard == MaxSilence + 1

Older(age, limit) == IF age < limit THEN age + 1 ELSE limit

DueBeats == {b \in beats : b[2] = 0}
Waiting(p) == queued[p] > 0 /\ ~busy[p]
Overdue(p) == busy[p] /\ sent[p] >= Delay

-----------------------------------------------------------------------------
(* FloydPrimary *)

\* NoticePeerTask(kNewCommand): a task for every peer thread.
NoticePeers == queued' = [p \in Follower |-> queued[p] + 1]

\* Mutant: the chain goes on only when there is something to send.
NextBeatIfBehind(b) == IF \E p \in Follower : behind[p]
                       THEN {<<b[1], HeartBeat>>} ELSE {}

\* AddTask(kHeartBeat) at the end of LaunchHeartBeat.
NextBeat(b) == {<<b[1], HeartBeat>>}

\* A chain ends when its task finds that the server does not lead.
LaunchHeartBeat(b) ==
  /\ b \in DueBeats
  /\ IF leading
     THEN /\ NoticePeers
          /\ beats' = (beats \ {b}) \cup NextBeat(b)
     ELSE /\ beats' = beats \ {b}
          /\ UNCHANGED queued
  /\ UNCHANGED <<leading, reign, busy, sent, behind, covered, followerVars,
                 history>>

\* ExecuteCommand appends an entry and AddTask(kNewCommand): every peer has
\* something to send.
LaunchNewCommand ==
  /\ leading
  /\ \A p \in Follower : queued[p] < MaxQueue
  /\ NoticePeers
  /\ behind' = [p \in Follower |-> TRUE]
  /\ covered' = [p \in Follower |-> FALSE]
  /\ UNCHANGED <<leaderVars, busy, sent, followerVars, history>>

\* last_op_time + check_leader_us < NowMicros()
TimedOut(p) == sinceOp[p] > CheckLeader

\* Mutant: the next look at the clock is taken twice as late.
NextCheckLate == 2 * CheckLeader

NextCheck == CheckLeader

\* The follower looks at its clock and stands if it is time.  The task comes
\* back in any case.
LaunchCheckLeader(p) ==
  /\ check[p] = 0
  /\ check' = [check EXCEPT ![p] = NextCheck]
  /\ standing' = IF TimedOut(p) THEN standing \cup {p} ELSE standing
  /\ UNCHANGED <<leaderVars, peerVars, sinceOp, history>>

-----------------------------------------------------------------------------
(* Peer *)

\* Mutant: the age of the last request is not looked at again.
SkippedAlways(p) == ~behind[p]

\* Nothing to send, and a request was sent less than a heartbeat ago.
Skipped(p) == ~behind[p] /\ sent[p] < HeartBeat

\* AppendEntriesRPC up to the call: it is made whatever the role has become.
AppendEntriesRPC(p) ==
  /\ Waiting(p)
  /\ queued' = [queued EXCEPT ![p] = @ - 1]
  /\ IF Skipped(p)
     THEN UNCHANGED <<busy, sent, covered>>
     ELSE /\ busy' = [busy EXCEPT ![p] = TRUE]
          /\ sent' = [sent EXCEPT ![p] = 0]
          /\ covered' = [covered EXCEPT ![p] = TRUE]
  /\ UNCHANGED <<leaderVars, behind, followerVars, history>>

\* last_op_time is set even if the request is of an old term; a candidate goes
\* back to following if it is not.
SetLastOpTime(p) ==
  /\ sinceOp' = [sinceOp EXCEPT ![p] = 0]
  /\ standing' \in {standing, standing \ {p}}
  /\ heard' = heard \cup {p}

\* ReplyAppendEntries at the follower, whose log the entries fit, and the rest
\* of AppendEntriesRPC with its answer.
ReplyAppendEntries(p) ==
  /\ busy[p]
  /\ busy' = [busy EXCEPT ![p] = FALSE]
  /\ behind' = [behind EXCEPT ![p] = @ /\ ~covered[p]]
  /\ SetLastOpTime(p)
  /\ UNCHANGED <<leaderVars, queued, sent, covered, check, unheard, misses>>

\* The entries do not fit: last_op_time is set all the same, next_index_ goes
\* back, and the peer tries again at once if it leads.
RefuseAppendEntries(p) ==
  /\ busy[p]
  /\ misses < MaxMisses
  /\ misses' = misses + 1
  /\ busy' = [busy EXCEPT ![p] = FALSE]
  /\ SetLastOpTime(p)
  /\ IF leading
     THEN /\ behind' = [behind EXCEPT ![p] = TRUE]
          /\ queued' = [queued EXCEPT ![p] = @ + 1]
     ELSE UNCHANGED <<behind, queued>>
  /\ UNCHANGED <<leaderVars, sent, covered, check, unheard>>

\* SendAndRecv fails: nothing is done about it until the next task.
MissAppendEntries(p) ==
  /\ busy[p]
  /\ misses < MaxMisses
  /\ misses' = misses + 1
  /\ busy' = [busy EXCEPT ![p] = FALSE]
  /\ heard' = heard \ {p}
  /\ unheard' = [unheard EXCEPT ![p] = 0]
  /\ UNCHANGED <<leaderVars, queued, sent, behind, covered, followerVars>>

-----------------------------------------------------------------------------
(* Reigns *)

\* primary_->AddTask(kHeartBeat, false)
FirstBeat == <<reign + 1, 0>>

\* The server wins an election.  Those who granted their vote have set their
\* last_op_time and follow; UpdatePeerInfo has set every next_index_; tasks of former
\* reigns are still there, and so is peer_last_op_time.
BecomeLeader ==
  /\ ~leading
  /\ reign < MaxReigns
  /\ leading' = TRUE
  /\ reign' = reign + 1
  /\ beats' = beats \cup {FirstBeat}
  /\ behind' = [p \in Follower |-> FALSE]
  /\ covered' = [p \in Follower |-> FALSE]
  /\ \E granted \in SUBSET Follower :
       /\ sinceOp' = [p \in Follower |-> IF p \in granted THEN 0 ELSE sinceOp[p]]
       /\ standing' = standing \ granted
  /\ heard' = {}
  /\ unheard' = [p \in Follower |-> 0]
  /\ UNCHANGED <<queued, busy, sent, check, misses>>

\* BecomeFollower, by a request or an answer of one that stood.
BecomeFollower ==
  /\ leading
  /\ standing # {}
  /\ leading' = FALSE
  /\ UNCHANGED <<reign, beats, peerVars, followerVars, history>>

-----------------------------------------------------------------------------

\* Time does not pass while something is due.
Tick ==
  /\ DueBeats = {}
  /\ \A p \in Follower : check[p] > 0 /\ ~Waiting(p) /\ ~Overdue(p)
  /\ beats' = {<<b[1], b[2] - 1>> : b \in beats}
  /\ check' = [p \in Follower |-> check[p] - 1]
  /\ sent' = [p \in Follower |-> Older(sent[p], OldSent)]
  /\ sinceOp' = [p \in Follower |-> Older(sinceOp[p], OldOp)]
  /\ unheard' = [p \in Follower |-> Older(unheard[p], OldUnheard)]
  /\ UNCHANGED <<leading, reign, queued, busy, behind, covered, standing, heard,
                 misses>>

\* last_op_time and peer_last_op_time start at 0, which is longer ago than any
\* timeout; the first kCheckLeader task is delayed like every other.
Init ==
  /\ leading = FALSE
  /\ reign = 0
  /\ beats = {}
  /\ queued = [p \in Follower |-> 0]
  /\ busy = [p \in Follower |-> FALSE]
  /\ sent = [p \in Follower |-> OldSent]
  /\ behind = [p \in Follower |-> FALSE]
  /\ covered = [p \in Follower |-> FALSE]
  /\ sinceOp = [p \in Follower |-> CheckLeader + 1]
  /\ check = [p \in Follower |-> NextCheck]
  /\ standing = {}
  /\ heard = {}
  /\ unheard = [p \in Follower |-> 0]
  /\ misses = 0

Next ==
  \/ \E b \in beats : LaunchHeartBeat(b)
  \/ LaunchNewCommand
  \/ \E p \in Follower : \/ LaunchCheckLeader(p)
                         \/ AppendEntriesRPC(p)
                         \/ ReplyAppendEntries(p)
                         \/ RefuseAppendEntries(p)
                         \/ MissAppendEntries(p)
  \/ BecomeLeader
  \/ BecomeFollower
  \/ Tick

Spec == Init /\ [][Next]_vars

-----------------------------------------------------------------------------
(* Properties *)

\* Every variable has its type: no task is due later than its delay.
TypeOK ==
  /\ leading \in BOOLEAN
  /\ reign \in 0..MaxReigns
  /\ beats \subseteq (1..MaxReigns) \X (0..HeartBeat)
  /\ queued \in [Follower -> Nat]
  /\ busy \in [Follower -> BOOLEAN]
  /\ sent \in [Follower -> 0..OldSent]
  /\ behind \in [Follower -> BOOLEAN]
  /\ covered \in [Follower -> BOOLEAN]
  /\ sinceOp \in [Follower -> 0..OldOp]
  /\ check \in [Follower -> 0..CheckLeader]
  /\ standing \in SUBSET Follower
  /\ heard \in SUBSET Follower
  /\ unheard \in [Follower -> 0..OldUnheard]
  /\ misses \in 0..MaxMisses

\* A follower will not stand against a leader that is alive: one that it has
\* heard of in this reign, with no failed RPC since.  The skipped heartbeats
\* are what makes this depend on 2 * heartbeat_us and not on one.
LeaderKept ==
  \A p \in Follower : leading /\ p \in heard => ~TimedOut(p)

\* A new leader makes itself heard by every follower within MaxSilence of its
\* election, and again after a failed RPC, although its first heartbeat may be
\* skipped because of a request it sent in an earlier reign.
HeardInTime ==
  \A p \in Follower : leading /\ unheard[p] > MaxSilence => p \in heard

\* A follower that has heard of nobody for twice check_leader_us has stood.
SilenceNoticed ==
  \A p \in Follower : sinceOp[p] > 2 * CheckLeader + 1 => p \in standing

=============================================================================
