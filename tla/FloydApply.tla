------------------------------ MODULE FloydApply ------------------------------
(***************************************************************************)
(* The replicated state machine: what FloydApply::Apply does to db_ with   *)
(* every kind of entry, and what ExecuteCommand answers by reading db_     *)
(* afterwards.                                                             *)
(*                                                                         *)
(*   db_       keys with plain values, locks (lease and holder) among the  *)
(*             same keys, and the member list under #MEMBERCONFIG          *)
(*   Apply     one entry at a time, by the clock of the server at that     *)
(*             time; a batch that is cut short by a failure or a crash is  *)
(*             applied again from its start                                *)
(*   answers   are read from db_ some time after the entry was applied     *)
(*                                                                         *)
(* The log is the committed one, the same for all servers (FloydRaft); a   *)
(* server may learn of its entries at any time.  The clocks of the servers *)
(* agree.                                                                  *)
(***************************************************************************)
EXTENDS Naturals, Sequences, FiniteSets, Functions

CONSTANTS
  Server,       \* the servers that run, options_.members in some order
  Target,       \* the servers that are added and removed
  Client,       \* client threads, each making one call
  Key,          \* keys, and names of locks
  Holder,       \* holders of locks
  Op,           \* the calls that are made
  Nil,          \* no value, no server
  Ttl,          \* the ttl of TryLock, in clock ticks
  MaxTime,      \* bound: the clock
  MaxFaults,    \* bound: failures of db_, timeouts of clients and restarts
  MaxTurns      \* bound: number of leader changes

Command == {"kWrite", "kDelete", "kRead", "kTryLock", "kUnLock", "kAddServer",
            "kRemoveServer", "kGetAllServers"}

ASSUME ApplyAssumption ==
  /\ IsFiniteSet(Server)
  /\ Server # {}
  /\ IsFiniteSet(Target)
  /\ Op \subseteq Command
  /\ Nil \notin Key \cup Holder \cup Server \cup Target

ASSUME ApplyBoundAssumption ==
  {Ttl, MaxTime, MaxFaults, MaxTurns} \subseteq Nat

VARIABLES
  now,          \* NowMicros()
  log,          \* the committed entries
  leader,       \* the server that executes commands
  db,           \* db_ of every server, but for #MEMBERCONFIG
  nodes,        \* the list under #MEMBERCONFIG, of every server
  members,      \* FloydContext::members
  peers,        \* the keys of FloydImpl::peers_
  lastApplied,  \* FloydContext::last_applied, as saved
  batch,        \* ApplyStateMachine: the index reached and where it ends
  call,         \* the calls of the clients
  reached,      \* history: the highest index a server ever applied
  faults, turns   \* how much of the bounds is used

storeVars == <<db, nodes, members, peers>>
applyVars == <<lastApplied, batch, reached>>
vars == <<now, log, leader, storeVars, applyVars, call, faults, turns>>

-----------------------------------------------------------------------------
(* Data *)

Absent          == [kind |-> "absent"]
Plain(v)        == [kind |-> "plain", value |-> v]
Lock(h, lease)  == [kind |-> "lock", holder |-> h, lease |-> lease]
Membership(S)   == [kind |-> "membership", nodes |-> S]

\* Lock::ParseFromString of a stored value, whose result is not looked at: of
\* a value that is no lock the fields keep their defaults.
ParsedLock(v) == IF v.kind = "lock" THEN v ELSE Lock(Nil, 0)

\* What db_ may hold under a key, and what a call may find there.
Value == [kind : {"absent"}]
         \cup [kind : {"plain"}, value : Client \cup {Nil}]
         \cup [kind : {"lock"}, holder : Holder \cup {Nil}, lease : Nat]

Found == Value \cup [kind : {"membership"}, nodes : SUBSET (Server \cup Target)]

\* BuildLogEntry: the fields an operation does not use are empty.  The value
\* written is named after the client that writes it.
Entry == [op : Op, key : Key \cup {Nil}, value : Client \cup {Nil},
          holder : Holder \cup {Nil}, lease : Nat,
          server : Target \cup {Nil}]

\* The Build*Request functions followed by BuildLogEntry, for the call op of
\* client c.
BuildLogEntry(op, c, k, h, s) ==
  [op |-> op,
   key |-> IF op \in {"kWrite", "kDelete", "kRead", "kTryLock", "kUnLock"}
           THEN k ELSE Nil,
   value  |-> IF op = "kWrite" THEN c ELSE Nil,
   holder |-> IF op \in {"kTryLock", "kUnLock"} THEN h ELSE Nil,
   lease  |-> IF op = "kTryLock" THEN now + Ttl ELSE 0,
   server |-> IF op \in {"kAddServer", "kRemoveServer"} THEN s ELSE Nil]

\* What a call may ask for: one of each choice that the operation looks at.
Requests(c) ==
  {BuildLogEntry(op, c, k, h, s) :
     op \in Op, k \in Key, h \in Holder, s \in Target}

Call == [stage : {"new", "waiting", "answered", "timeout"},
         at : Server \cup {Nil}, index : Nat, since : Nat,
         code : {Nil, "kOk", "kNotFound", "kLocked", "kError"},
         value : Found]

NotCalled == [stage |-> "new", at |-> Nil, index |-> 0, since |-> 0,
              code |-> Nil, value |-> Absent]

NoBatch == [at |-> 0, upto |-> 0]

SeqOf(S) == CHOOSE f \in [1..Cardinality(S) -> S] : Range(f) = S

\* The last of a set of indexes, 0 if it is empty.
Latest(J) == IF J = {} THEN 0 ELSE CHOOSE j \in J : \A m \in J : m <= j

-----------------------------------------------------------------------------
(* FloydApply::Apply *)

\* Mutant: any lock gives way, whatever its lease.
ExpiredAnyway(lock) == TRUE

Expired(lock) == lock.lease < now

\* What the entry leaves under its key, where db_ had v.
ApplyToKey(e, v) ==
  CASE e.op = "kWrite"   -> Plain(e.value)
    [] e.op = "kDelete"  -> Absent
    [] e.op = "kTryLock" ->
         IF v = Absent \/ Expired(ParsedLock(v)) THEN Lock(e.holder, e.lease)
                                                 ELSE v
    [] e.op = "kUnLock"  ->
         IF /\ v # Absent
            /\ ParsedLock(v).holder = e.holder
            /\ ~Expired(ParsedLock(v))
         THEN Absent ELSE v
    [] OTHER -> v

\* Mutant: the place of a removed node is left to itself.
RemoveNodeLast(ns, s) == SubSeq(ns, 1, Len(ns) - 1)

\* The loop of MembershipChange: the last node takes the place of s.  It goes
\* on to the old count, where it finds the string that RemoveLast has cleared.
RemoveNode(ns, s) ==
  LET i == CHOOSE k \in DOMAIN ns : ns[k] = s
  IN SubSeq([ns EXCEPT ![i] = ns[Len(ns)]], 1, Len(ns) - 1)

\* FloydApply::MembershipChange on the stored list.
MembershipChange(ns, s, add) ==
  IF add THEN IF s \in Range(ns) THEN ns ELSE Append(ns, s)
         ELSE IF s \in Range(ns) THEN RemoveNode(ns, s) ELSE ns

\* Mutant: a server that leaves keeps its peer thread.
ChangedPeersKept(i, s, add) ==
  IF add /\ s # i THEN peers[i] \cup {s} ELSE peers[i]

\* FloydImpl::AddNewPeer and RemoveOutPeer.
ChangedPeers(i, s, add) ==
  IF s = i THEN peers[i]
  ELSE IF add THEN peers[i] \cup {s} ELSE peers[i] \ {s}

\* The membership entries: the list first, then the context and the peers.  A
\* crash in between is one after it: both are built again from the list.
ApplyMembers(i, e) ==
  IF e.op \in {"kAddServer", "kRemoveServer"}
  THEN LET add == e.op = "kAddServer" IN
       /\ nodes' = [nodes EXCEPT ![i] = MembershipChange(@, e.server, add)]
       /\ members' = [members EXCEPT ![i] = IF add THEN @ \cup {e.server}
                                                   ELSE @ \ {e.server}]
       /\ peers' = [peers EXCEPT ![i] = ChangedPeers(i, e.server, add)]
  ELSE UNCHANGED <<nodes, members, peers>>

-----------------------------------------------------------------------------
(* FloydApply::ApplyStateMachine *)

\* Mutant: one index too many.
CommitIndexBeyond(i) == 1 .. Len(log) + 1

\* What commit_index may be when the server looks at it.
CommitIndex(i) == 0 .. Len(log)

\* The server has learned that the log is committed up to some index.
ApplyStateMachine(i) ==
  /\ batch[i] = NoBatch
  /\ \E upto \in CommitIndex(i) :
       /\ lastApplied[i] < upto
       /\ batch' = [batch EXCEPT ![i] = [at |-> lastApplied[i], upto |-> upto]]
  /\ UNCHANGED <<now, log, leader, storeVars, lastApplied, reached, call,
                 faults, turns>>

Apply(i) ==
  LET index == batch[i].at + 1
      e == log[index]
  IN
  /\ batch[i].at < batch[i].upto
  /\ db' = IF e.key = Nil THEN db
           ELSE [db EXCEPT ![i][e.key] = ApplyToKey(e, @)]
  /\ ApplyMembers(i, e)
  /\ batch' = [batch EXCEPT ![i].at = index]
  /\ reached' = [reached EXCEPT ![i] = IF index > @ THEN index ELSE @]
  /\ UNCHANGED <<now, log, leader, lastApplied, call, faults, turns>>

\* Apply returns an error of db_: the batch is dropped and tried once more.
ApplyFails(i) ==
  /\ batch[i].at < batch[i].upto
  /\ faults < MaxFaults
  /\ faults' = faults + 1
  /\ batch' = [batch EXCEPT ![i] = NoBatch]
  /\ UNCHANGED <<now, log, leader, storeVars, lastApplied, reached, call,
                 turns>>

SetLastApplied(i) ==
  /\ batch[i] # NoBatch
  /\ batch[i].at = batch[i].upto
  /\ lastApplied' = [lastApplied EXCEPT ![i] = batch[i].upto]
  /\ batch' = [batch EXCEPT ![i] = NoBatch]
  /\ UNCHANGED <<now, log, leader, storeVars, reached, call, faults,
                 turns>>

-----------------------------------------------------------------------------
(* FloydImpl: the calls *)

Answered(c) == call[c].stage = "answered"
EntryOf(c)  == log[call[c].index]

\* The last index whose call has been answered ok.
LastAnswered ==
  Latest({call[c].index : c \in {d \in Client : Answered(d) /\
                                                call[d].code = "kOk"}})

\* A call reaches the leader, which appends its entry.
ExecuteCommand(c, e) ==
  /\ call[c].stage = "new"
  /\ log' = Append(log, e)
  /\ call' = [call EXCEPT ![c] = [@ EXCEPT !.stage = "waiting", !.at = leader,
                                           !.index = Len(log) + 1,
                                           !.since = LastAnswered]]
  /\ UNCHANGED <<now, leader, storeVars, applyVars, faults, turns>>

\* Mutant: the wait ends when the entry is known to be committed.
AppliedCommitted(c) ==
  \/ lastApplied[call[c].at] >= call[c].index
  \/ batch[call[c].at].upto >= call[c].index

\* The condition of the wait.
Applied(c) == lastApplied[call[c].at] >= call[c].index

\* The switch at the end of ExecuteCommand: the code that db_ of this moment
\* leads to.
CodeOf(e, v) ==
  CASE e.op = "kRead" -> IF v = Absent THEN "kNotFound" ELSE "kOk"
    [] e.op = "kTryLock" ->
         IF v = Absent THEN "kLocked"
         ELSE IF /\ ParsedLock(v).holder = e.holder
                 /\ ParsedLock(v).lease = e.lease
              THEN "kOk" ELSE "kError"
    [] e.op = "kUnLock" -> IF v = Absent THEN "kOk" ELSE "kLocked"
    [] OTHER -> "kOk"

\* The wait is over: db_ is read and the call returns.
Answer(c) ==
  /\ call[c].stage = "waiting"
  /\ Applied(c)
  /\ LET e == EntryOf(c)
         v == CASE e.key # Nil -> db[call[c].at][e.key]
                [] e.op = "kGetAllServers" -> Membership(Range(nodes[call[c].at]))
                [] OTHER -> Absent
     IN call' = [call EXCEPT ![c] = [@ EXCEPT !.stage = "answered",
                                              !.code = CodeOf(e, v),
                                              !.value = v]]
  /\ UNCHANGED <<now, log, leader, storeVars, applyVars, faults, turns>>

\* TimedWait gives up.  The entry stays in the log.
Timeout(c) ==
  /\ call[c].stage = "waiting"
  /\ faults < MaxFaults
  /\ faults' = faults + 1
  /\ call' = [call EXCEPT ![c].stage = "timeout"]
  /\ UNCHANGED <<now, log, leader, storeVars, applyVars, turns>>

-----------------------------------------------------------------------------
(* The rest of the world *)

\* Another server is elected.  Calls at the old leader still wait there.
Turn ==
  /\ turns < MaxTurns
  /\ turns' = turns + 1
  /\ leader' \in Server \ {leader}
  /\ UNCHANGED <<now, log, storeVars, applyVars, call, faults>>

\* Init prefers the list in db_ to the options.
RecoveredMembers(i) == Range(nodes[i])

\* Mutant: the index of the last applied entry is not read again.
RecoveredAppliedNone(i) == 0

\* FloydContext::RecoverInit reads what SetLastApplied has saved.
RecoveredApplied(i) == lastApplied[i]

\* A crash at any moment, and FloydImpl::Init: the batch starts again from the
\* saved index, the members are read from db_ and get their peers.
Restart(i) ==
  /\ faults < MaxFaults
  /\ faults' = faults + 1
  /\ batch' = [batch EXCEPT ![i] = NoBatch]
  /\ lastApplied' = [lastApplied EXCEPT ![i] = RecoveredApplied(i)]
  /\ members' = [members EXCEPT ![i] = RecoveredMembers(i)]
  /\ peers' = [peers EXCEPT ![i] = RecoveredMembers(i) \ {i}]
  /\ call' = [c \in Client |-> IF call[c].stage = "waiting" /\ call[c].at = i
                               THEN [call[c] EXCEPT !.stage = "timeout"]
                               ELSE call[c]]
  /\ UNCHANGED <<now, log, leader, db, nodes, reached, turns>>

Tick ==
  /\ now < MaxTime
  /\ now' = now + 1
  /\ UNCHANGED <<log, leader, storeVars, applyVars, call, faults,
                 turns>>

-----------------------------------------------------------------------------

Init ==
  /\ now = 0
  /\ log = <<>>
  /\ leader = SeqOf(Server)[1]
  /\ db = [i \in Server |-> [k \in Key |-> Absent]]
  /\ nodes = [i \in Server |-> SeqOf(Server)]
  /\ members = [i \in Server |-> Server]
  /\ peers = [i \in Server |-> Server \ {i}]
  /\ lastApplied = [i \in Server |-> 0]
  /\ batch = [i \in Server |-> NoBatch]
  /\ call = [c \in Client |-> NotCalled]
  /\ reached = [i \in Server |-> 0]
  /\ faults = 0
  /\ turns = 0

Next ==
  \/ \E i \in Server : \/ ApplyStateMachine(i)
                       \/ Apply(i)
                       \/ ApplyFails(i)
                       \/ SetLastApplied(i)
                       \/ Restart(i)
  \/ \E c \in Client : \/ \E e \in Requests(c) : ExecuteCommand(c, e)
                       \/ Answer(c)
                       \/ Timeout(c)
  \/ Turn
  \/ Tick

Spec == Init /\ [][Next]_vars

-----------------------------------------------------------------------------
(* Properties *)

\* Every variable has its type; nobody applies beyond the committed log.
TypeOK ==
  /\ now \in 0..MaxTime
  /\ log \in Seq(Entry)
  /\ leader \in Server
  /\ db \in [Server -> [Key -> Value]]
  /\ nodes \in [Server -> Seq(Server \cup Target)]
  /\ members \in [Server -> SUBSET (Server \cup Target)]
  /\ peers \in [Server -> SUBSET (Server \cup Target)]
  /\ lastApplied \in [Server -> 0..Len(log)]
  /\ batch \in [Server -> [at : 0..Len(log), upto : 0..Len(log)]]
  /\ call \in [Client -> Call]
  /\ \A c \in Client : call[c].index \in 0..Len(log)
  /\ reached \in [Server -> 0..Len(log)]
  /\ {faults, turns} \subseteq Nat

\* The reference: what the first n entries make of key k, and of the members,
\* when locks have no part in it.
ValueAfter(n, k) ==
  LET j == Latest({m \in 1..n : /\ log[m].key = k
                                /\ log[m].op \in {"kWrite", "kDelete"}})
  IN IF j = 0 \/ log[j].op = "kDelete" THEN Absent ELSE Plain(log[j].value)

MembersAfter(n) ==
  {s \in Server \cup Target :
     LET j == Latest({m \in 1..n : log[m].server = s})
     IN IF j = 0 THEN s \in Server ELSE log[j].op = "kAddServer"}

UsedByLocks(k) == \E e \in Range(log) : e.key = k /\ e.op \in {"kTryLock", "kUnLock"}
UsedByKv(k) == \E e \in Range(log) : e.key = k /\ e.op \in {"kWrite", "kDelete"}

\* A server that has applied the log up to an index, and nothing beyond, has
\* what the log says, however often failures and crashes made it apply parts
\* of it again.  Keys used by locks are not among it.
StateFollowsLog ==
  \A i \in Server : batch[i] = NoBatch /\ lastApplied[i] = reached[i] =>
    /\ \A k \in Key : ~UsedByLocks(k) =>
         db[i][k] = ValueAfter(lastApplied[i], k)
    /\ Range(nodes[i]) = MembersAfter(lastApplied[i])

\* The context's members are those in db_, and there is a peer thread for each
\* of them but the server itself: also after a restart in the middle of a
\* batch, which forgets the context and keeps the list.
PeersFollowMembers ==
  \A i \in Server : /\ members[i] = Range(nodes[i])
                    /\ peers[i] = members[i] \ {i}

\* A read, of a key or of the members, sees every change that was answered
\* before it began, also at a leader that has changed or restarted in between.
\* ExecuteCommand reads db_ after the wait, while later entries are being
\* applied.  Of the members this is said one by one: while a batch that failed
\* is applied again, the list may be one that no prefix of the log leads to.
ReadIsFresh ==
  \A c \in Client : Answered(c) =>
    LET e == EntryOf(c) IN
    /\ e.op = "kRead" /\ ~UsedByLocks(e.key) =>
         \E n \in call[c].since .. Len(log) : call[c].value = ValueAfter(n, e.key)
    /\ e.op = "kGetAllServers" =>
         /\ call[c].value.kind = "membership"
         /\ \A s \in Server \cup Target :
              \E n \in call[c].since .. Len(log) :
                s \in call[c].value.nodes <=> s \in MembersAfter(n)

\* The lock that c was told it got, which it has not given back.
Holds(c) ==
  /\ Answered(c)
  /\ call[c].code = "kOk"
  /\ EntryOf(c).op = "kTryLock"
  /\ EntryOf(c).lease >= now
  /\ \A j \in call[c].index + 1 .. Len(log) :
       ~(log[j].op = "kUnLock" /\ log[j].key = EntryOf(c).key
         /\ log[j].holder = EntryOf(c).holder)

HeldByOne ==
  \A c, d \in Client : Holds(c) /\ Holds(d) =>
    \/ EntryOf(c).key # EntryOf(d).key
    \/ EntryOf(c).holder = EntryOf(d).holder
    \/ UsedByKv(EntryOf(c).key)

\* Two holders do not have a lock at the same time, while one server leads and
\* nobody writes to the lock's name; the leader may crash in the middle of a
\* batch and decide again about its locks, at a later time.
LockHeldByOne == turns = 0 => HeldByOne

\* A lock that was refused is not taken later: the entry that asked for it is
\* not applied again, because its index is saved before it is answered.
RefusedStaysRefused ==
  \A c \in Client : Answered(c) /\ call[c].code = "kError" =>
    LET e == EntryOf(c) IN
    db[call[c].at][e.key] = Lock(e.holder, e.lease) =>
      \E d \in Client \ {c} :
        /\ call[d].index # 0 /\ EntryOf(d).op = "kTryLock"
        /\ EntryOf(d).key = e.key
        /\ EntryOf(d).holder = e.holder /\ EntryOf(d).lease = e.lease

=============================================================================
