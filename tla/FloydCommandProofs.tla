-------------------------- MODULE FloydCommandProofs --------------------------
(***************************************************************************)
(* Proofs about FloydCommand, for every set of servers and clients and     *)
(* every number of elections.  The invariant grows in three layers:        *)
(*                                                                         *)
(*   Places       what a thread knows at each stage of DoCommand           *)
(*   Connections  the mutex of a link, the number of its connection and    *)
(*                the requests, workers and answers that refer to it       *)
(*   Commands     where a command is, and what its answers say             *)
(***************************************************************************)
EXTENDS FloydCommand, FiniteSetTheorems, TLAPS

USE DEF Thread

-----------------------------------------------------------------------------
(* Types *)

LEMMA IdleType == Idle \in Task /\ Idle.at = "idle"
  BY DEF Idle, Task, Stages

\* What Return does, without its cases.
LEMMA ReturnTypes ==
  ASSUME TypeOK, NEW th \in Thread, NEW ok \in BOOLEAN,
         NEW code \in {"unset", "kOk", "kError"},
         NEW ob \in [Pair -> Seq(Response)],
         task[th].call \in Client,
         th \in Server => task[th].back \in Pair,
         Return(th, ok, code, ob)
  PROVE  /\ task' \in [Thread -> Task]
         /\ result' \in [Client -> {Nil, "ok", "error"}]
         /\ outbox' \in [Pair -> Seq(Response)]
  <1>1. task' \in [Thread -> Task]
    BY IdleType DEF TypeOK, Return
  <1>2. result' \in [Client -> {Nil, "ok", "error"}]
    BY DEF TypeOK, Return, Told
  <1>3. outbox' \in [Pair -> Seq(Response)]
    <2>1. CASE th \in Server /\ conn[task[th].back] = task[th].num
      <3>1. [call |-> task[th].call, code |-> code] \in Response
        BY DEF Response
      <3>2. Append(ob[task[th].back], [call |-> task[th].call, code |-> code])
              \in Seq(Response)
        BY <2>1, <3>1
      <3>3. outbox' = [ob EXCEPT ![task[th].back] =
                         Append(@, [call |-> task[th].call, code |-> code])]
        BY <2>1 DEF Return
      <3> QED BY <2>1, <3>2, <3>3
    <2>2. CASE ~(th \in Server /\ conn[task[th].back] = task[th].num)
      BY <2>2 DEF Return
    <2> QED BY <2>1, <2>2
  <1> QED BY <1>1, <1>2, <1>3


\* Where a thread is in DoCommand and what it has decided go together: a
\* client works on its own command, a worker for the connection it read from,
\* and whoever is redirected goes to another server.
Places ==
  \A th \in Thread :
    /\ task[th].at = "idle" => task[th] = Idle
    /\ task[th].at # "idle" => /\ task[th].on \in Server
                               /\ task[th].call \in Client
    /\ task[th].at # "idle" /\ th \in Client => task[th].call = th
    /\ task[th].at # "idle" /\ th \in Server =>
         /\ task[th].on = th
         /\ task[th].back \in Pair
         /\ task[th].back[2] = th
    /\ task[th].at \in {"lock", "connect", "send", "recv"} => Link(th) \in Pair

LEMMA ImageIsFinite ==
  ASSUME NEW S, IsFiniteSet(S), NEW f, DOMAIN f = S, f = [x \in S |-> f[x]]
  PROVE  IsFiniteSet({f[x] : x \in S})
  <1> DEFINE T == {f[x] : x \in S}
  <1>1. f \in Surjection(S, T)
    BY DEF Surjection
  <1> QED BY <1>1, FS_Surjection

\* A new connection gets a number that no request and no worker refers to.
LEMMA NewNumberIsNew ==
  ASSUME TypeOK, NEW p \in Pair
  PROVE  /\ NewNumber(p) \in Nat \ {0}
         /\ \A k \in DOMAIN inbox[p] : inbox[p][k].num # NewNumber(p)
         /\ \A w \in Server : task[w].back = p => task[w].num # NewNumber(p)
  <1> DEFINE ks   == DOMAIN inbox[p]
             ws   == {w \in Server : task[w].back = p}
             nums == {inbox[p][k].num : k \in ks}
             back == {task[s].num : s \in ws}
             used == nums \cup back
             top  == Cardinality(used) + 1
  <1>1. IsFiniteSet(nums)
    <2> DEFINE f == [k \in ks |-> inbox[p][k].num]
    <2>1. Len(inbox[p]) \in Nat /\ ks = 1..Len(inbox[p])
      BY DEF TypeOK
    <2>2. IsFiniteSet(ks)
      <3>1. \A n \in Nat : IsFiniteSet(1..n)
        BY FS_Interval
      <3> QED BY <2>1, <3>1
    <2>3. IsFiniteSet({f[k] : k \in ks})
      BY <2>2, ImageIsFinite
    <2>4. nums = {f[k] : k \in ks}
      OBVIOUS
    <2> QED BY <2>3, <2>4
  <1>2. IsFiniteSet(back)
    <2> DEFINE f == [w \in ws |-> task[w].num]
    <2>1. IsFiniteSet(ws)
      BY CommandAssumption, FS_Subset
    <2>2. DOMAIN f = ws /\ f = [w \in ws |-> f[w]]
      OBVIOUS
    <2>3. back = {f[w] : w \in ws}
      OBVIOUS
    <2> HIDE DEF f, ws
    <2>4. IsFiniteSet({f[w] : w \in ws})
      BY <2>1, <2>2, ImageIsFinite
    <2> QED BY <2>3, <2>4
  <1>3. IsFiniteSet(used)
    BY <1>1, <1>2, FS_Union
  <1>4. top \in Nat \ {0}
    BY <1>3, FS_CardinalityType
  <1>5. \E n \in 1..top : n \notin used
    <2>1. SUFFICES ASSUME 1..top \subseteq used PROVE FALSE
      OBVIOUS
    <2>2. Cardinality(1..top) <= Cardinality(used)
      BY <1>3, <2>1, FS_Subset
    <2>3. Cardinality(1..top) = top
      BY <1>4, FS_Interval
    <2> QED BY <1>3, <2>2, <2>3, FS_CardinalityType
  <1>6. NewNumber(p) = CHOOSE n \in 1..top : n \notin used
    BY DEF NewNumber
  <1>7. NewNumber(p) \in 1..top /\ NewNumber(p) \notin used
    BY <1>5, <1>6
  <1> QED BY <1>4, <1>7


LEMMA TypedInit == Init => TypeOK /\ Places
  BY CommandAssumption, IdleType DEF Init, TypeOK, Places, Idle, Request, Response

LEMMA TypedCall ==
  ASSUME TypeOK, Places, NEW c \in Client, NEW s \in Server, NEW k \in Kind,
         Call(c, s, k)
  PROVE  TypeOK' /\ Places'
  <1> DEFINE new == [Idle EXCEPT !.at = "decide", !.on = s, !.call = c]
  <1>1. /\ new \in Task
        /\ new.at = "decide" /\ new.on = s /\ new.call = c
    BY DEF Idle, Task, Stages
  <1>2. task' = [task EXCEPT ![c] = new]
    BY DEF Call
  <1> HIDE DEF new
  <1>3. TypeOK'
    BY <1>1, <1>2 DEF TypeOK, Call, viewVars, poolVars, entryVars
  <1>4. Places'
    BY <1>1, <1>2, CommandAssumption DEF TypeOK, Places, Link
  <1> QED BY <1>3, <1>4

LEMMA TypedDealMessage ==
  ASSUME TypeOK, Places, NEW p \in Pair, DealMessage(p)
  PROVE  TypeOK' /\ Places'
  <1> DEFINE s   == p[2]
             new == [at |-> "decide", on |-> s, call |-> Head(inbox[p]).call,
                     to |-> Nil, back |-> p, num |-> Head(inbox[p]).num]
  <1>0. s \in Server
    BY DEF Pair
  <1>1. /\ Head(inbox[p]) \in Request
        /\ Tail(inbox[p]) \in Seq(Request)
    BY DEF TypeOK, DealMessage
  <1>2. /\ new \in Task
        /\ new.at = "decide" /\ new.on = s /\ new.call \in Client
        /\ new.back = p
    BY <1>0, <1>1 DEF Task, Stages, Request
  <1>3. /\ task' = [task EXCEPT ![s] = new]
        /\ inbox' = [inbox EXCEPT ![p] = Tail(inbox[p])]
    BY DEF DealMessage
  <1> HIDE DEF new
  <1>4. TypeOK'
    BY <1>0, <1>1, <1>2, <1>3 DEF TypeOK, DealMessage, viewVars, entryVars
  <1>5. Places'
    BY <1>0, <1>2, <1>3, CommandAssumption DEF TypeOK, Places, Link
  <1> QED BY <1>4, <1>5

LEMMA TypedLoseRequest ==
  ASSUME TypeOK, Places, NEW p \in Pair, LoseRequest(p)
  PROVE  TypeOK' /\ Places'
  <1>1. Tail(inbox[p]) \in Seq(Request)
    BY DEF TypeOK, LoseRequest
  <1>2. TypeOK'
    BY <1>1 DEF TypeOK, LoseRequest, viewVars, entryVars
  <1>3. Places'
    BY DEF Places, LoseRequest, Link
  <1> QED BY <1>2, <1>3

\* DoCommand returns: the thread is idle again.
LEMMA TypedReturn ==
  ASSUME TypeOK, Places, NEW th \in Thread, task[th].at # "idle",
         NEW ok \in BOOLEAN, NEW code \in {"unset", "kOk", "kError"},
         NEW ob \in [Pair -> Seq(Response)],
         Return(th, ok, code, ob)
  PROVE  /\ task' \in [Thread -> Task]
         /\ result' \in [Client -> {Nil, "ok", "error"}]
         /\ outbox' \in [Pair -> Seq(Response)]
         /\ Places'
  <1>1. /\ task[th].call \in Client
        /\ th \in Server => task[th].back \in Pair
    BY DEF Places
  <1>2. Places'
    BY IdleType DEF TypeOK, Places, Return, Link
  <1> QED BY <1>1, <1>2, ReturnTypes

LEMMA UnsetType ==
  ASSUME NEW th
  PROVE  Unset(th) \in {"unset", "kOk", "kError"}
  BY DEF Unset, Preset

\* A thread goes on to its next stage, and keeps the rest of its task.
LEMMA GoEffect ==
  ASSUME TypeOK, NEW th \in Thread, NEW stage \in Stages, Go(th, stage)
  PROVE  /\ task' \in [Thread -> Task]
         /\ \A u \in Thread \ {th} : task'[u] = task[u]
         /\ task'[th].at = stage
         /\ task'[th].on = task[th].on
         /\ task'[th].call = task[th].call
         /\ task'[th].to = task[th].to
         /\ task'[th].back = task[th].back
         /\ task'[th].num = task[th].num
  <1> DEFINE new == [task[th] EXCEPT !.at = stage]
  <1>1. task[th] \in Task
    BY DEF TypeOK
  <1>2. /\ new \in Task
        /\ new.at = stage
        /\ new.on = task[th].on
        /\ new.call = task[th].call
        /\ new.to = task[th].to
        /\ new.back = task[th].back
        /\ new.num = task[th].num
    BY <1>1 DEF Task
  <1>3. task' = [task EXCEPT ![th] = new]
    BY DEF Go
  <1> HIDE DEF new
  <1> QED BY <1>2, <1>3 DEF TypeOK

LEMMA TypedGo ==
  ASSUME TypeOK, Places, NEW th \in Thread, task[th].at # "idle",
         NEW stage \in Stages \ {"idle"}, Go(th, stage),
         stage \in {"lock", "connect", "send", "recv"} => Link(th) \in Pair
  PROVE  task' \in [Thread -> Task] /\ Places'
  <1>1. /\ task' \in [Thread -> Task]
        /\ \A u \in Thread \ {th} : task'[u] = task[u]
        /\ task'[th].at = stage
        /\ task'[th].on = task[th].on
        /\ task'[th].call = task[th].call
        /\ task'[th].to = task[th].to
        /\ task'[th].back = task[th].back
    BY GoEffect
  <1>2. Places'
    BY <1>1 DEF Places, Link
  <1> QED BY <1>1, <1>2

LEMMA TypedDoCommand ==
  ASSUME TypeOK, Places, NEW th \in Thread, DoCommand(th)
  PROVE  TypeOK' /\ Places'
  <1> DEFINE s == task[th].on
             l == leaderIp[s]
  <1>0. /\ task[th].at # "idle"
        /\ s \in Server
        /\ l \in Server \cup {Nil}
    BY DEF DoCommand, Places, TypeOK
  <1>1. CASE l = s
    <2>1. Go(th, "append") /\ UNCHANGED <<result, outbox>>
      BY <1>0, <1>1, CommandAssumption DEF DoCommand
    <2>2. task' \in [Thread -> Task] /\ Places'
      BY <1>0, <2>1, TypedGo DEF Stages
    <2> QED BY <2>1, <2>2 DEF TypeOK, DoCommand, viewVars, entryVars
  <1>2. CASE l # s /\ l = Nil
    <2>1. Return(th, FALSE, Unset(th), outbox)
      BY <1>0, <1>2, CommandAssumption DEF DoCommand
    <2>2. /\ task' \in [Thread -> Task]
          /\ result' \in [Client -> {Nil, "ok", "error"}]
          /\ outbox' \in [Pair -> Seq(Response)]
          /\ Places'
      BY <1>0, <2>1, TypedReturn, UnsetType DEF TypeOK
    <2> QED BY <2>2 DEF TypeOK, DoCommand, viewVars, entryVars
  <1>3. CASE l # s /\ l # Nil
    <2> DEFINE new == [task[th] EXCEPT !.at = "lock", !.to = l]
    <2>1. /\ task' = [task EXCEPT ![th] = new]
          /\ UNCHANGED <<result, outbox>>
      BY <1>3 DEF DoCommand
    <2>2. task[th] \in Task
      BY DEF TypeOK
    <2>3. /\ new \in Task
          /\ new.at = "lock" /\ new.on = s /\ new.to = l
          /\ new.call = task[th].call /\ new.back = task[th].back
      BY <1>0, <2>2 DEF Task, Stages
    <2> HIDE DEF new
    <2>4. <<s, l>> \in Pair
      BY <1>0, <1>3 DEF Pair
    <2>5. Places'
      BY <1>0, <2>1, <2>3, <2>4 DEF TypeOK, Places, Link
    <2> QED BY <2>1, <2>3, <2>5 DEF TypeOK, DoCommand, viewVars, entryVars
  <1> QED BY <1>1, <1>2, <1>3

LEMMA TypedLockClient ==
  ASSUME TypeOK, Places, NEW th \in Thread, LockClient(th)
  PROVE  TypeOK' /\ Places'
  <1> DEFINE stage == IF conn[Link(th)] = 0 THEN "connect" ELSE "send"
  <1>1. task[th].at # "idle" /\ Link(th) \in Pair /\ Go(th, stage)
    BY DEF LockClient, Places
  <1>2. stage \in Stages \ {"idle"}
    BY DEF Stages
  <1> HIDE DEF stage
  <1>3. task' \in [Thread -> Task] /\ Places'
    BY <1>1, <1>2, TypedGo
  <1> QED BY <1>1, <1>3 DEF TypeOK, LockClient, viewVars, entryVars

LEMMA TypedUpHoldCli ==
  ASSUME TypeOK, Places, NEW th \in Thread, UpHoldCli(th)
  PROVE  TypeOK' /\ Places'
  <1>1. task[th].at # "idle" /\ Link(th) \in Pair /\ Go(th, "send")
    BY DEF UpHoldCli, Places
  <1>2. task' \in [Thread -> Task] /\ Places'
    BY <1>1, TypedGo DEF Stages
  <1>3. NewNumber(Link(th)) \in Nat
    BY <1>1, NewNumberIsNew
  <1> QED BY <1>1, <1>2, <1>3 DEF TypeOK, UpHoldCli, viewVars, entryVars

LEMMA TypedSend ==
  ASSUME TypeOK, Places, NEW th \in Thread, Send(th)
  PROVE  TypeOK' /\ Places'
  <1> DEFINE p == Link(th)
             r == [call |-> task[th].call, num |-> conn[p]]
  <1>1. task[th].at # "idle" /\ p \in Pair /\ Go(th, "recv")
    BY DEF Send, Places
  <1>2. task' \in [Thread -> Task] /\ Places'
    BY <1>1, TypedGo DEF Stages
  <1>3. r \in Request
    BY <1>1 DEF TypeOK, Places, Request
  <1>4. Append(inbox[p], r) \in Seq(Request)
    BY <1>1, <1>3 DEF TypeOK
  <1>5. inbox' = [inbox EXCEPT ![p] = Append(inbox[p], r)]
    BY DEF Send
  <1> HIDE DEF r
  <1> QED BY <1>1, <1>2, <1>4, <1>5 DEF TypeOK, Send, viewVars, entryVars

LEMMA TypedRecv ==
  ASSUME TypeOK, Places, NEW th \in Thread, Recv(th)
  PROVE  TypeOK' /\ Places'
  <1> DEFINE p  == Link(th)
             ob == [outbox EXCEPT ![p] = Tail(outbox[p])]
  <1>1. task[th].at # "idle" /\ p \in Pair /\ outbox[p] # <<>>
    BY DEF Recv, Places
  <1>2. /\ outbox[p] \in Seq(Response)
        /\ Head(outbox[p]) \in Response
        /\ Tail(outbox[p]) \in Seq(Response)
    BY <1>1 DEF TypeOK
  <1>3. Head(outbox[p]).code \in {"unset", "kOk", "kError"}
    BY <1>2 DEF Response
  <1>4. ob \in [Pair -> Seq(Response)]
    BY <1>1, <1>2 DEF TypeOK
  <1>5. Return(th, TRUE, Head(outbox[p]).code, ob)
    BY DEF Recv
  <1> HIDE DEF ob
  <1>6. /\ task' \in [Thread -> Task]
        /\ result' \in [Client -> {Nil, "ok", "error"}]
        /\ outbox' \in [Pair -> Seq(Response)]
        /\ Places'
    BY <1>1, <1>3, <1>4, <1>5, TypedReturn
  <1> QED BY <1>1, <1>6 DEF TypeOK, Recv, viewVars, entryVars

LEMMA TypedSendAndRecvFails ==
  ASSUME TypeOK, Places, NEW th \in Thread, SendAndRecvFails(th)
  PROVE  TypeOK' /\ Places'
  <1> DEFINE p  == Link(th)
             ob == [outbox EXCEPT ![p] = <<>>]
  <1>1. task[th].at # "idle" /\ p \in Pair
    BY DEF SendAndRecvFails, Places
  <1>2. ob \in [Pair -> Seq(Response)]
    BY <1>1 DEF TypeOK
  <1>3. Return(th, FALSE, Unset(th), ob)
    BY DEF SendAndRecvFails, Closed
  <1> HIDE DEF ob
  <1>4. /\ task' \in [Thread -> Task]
        /\ result' \in [Client -> {Nil, "ok", "error"}]
        /\ outbox' \in [Pair -> Seq(Response)]
        /\ Places'
    BY <1>1, <1>2, <1>3, TypedReturn, UnsetType
  <1> QED BY <1>1, <1>4 DEF TypeOK, SendAndRecvFails, Released, Closed,
                            viewVars, entryVars

LEMMA TypedAppendEntry ==
  ASSUME TypeOK, Places, NEW th \in Thread, AppendEntry(th)
  PROVE  TypeOK' /\ Places'
  <1>1. /\ task[th].at # "idle"
        /\ task[th].call \in Client
        /\ task[th].on \in Server
        /\ Go(th, "wait")
    BY DEF AppendEntry, Places
  <1>2. task' \in [Thread -> Task] /\ Places'
    BY <1>1, TypedGo DEF Stages
  <1>3. appended' \in [Client -> Nat]
    BY <1>1 DEF TypeOK, AppendEntry
  <1>4. acks' \in [Client -> SUBSET Server]
    BY <1>1 DEF TypeOK, AppendEntry, StoredAt
  <1> QED BY <1>2, <1>3, <1>4 DEF TypeOK, AppendEntry, viewVars, poolVars

LEMMA TypedReplicate ==
  ASSUME TypeOK, Places, NEW th \in Thread, NEW s \in Server, Replicate(th, s)
  PROVE  TypeOK' /\ Places'
  <1>1. task[th].call \in Client
    BY DEF Replicate, Places
  <1>2. TypeOK'
    BY <1>1 DEF TypeOK, Replicate, viewVars, poolVars
  <1>3. Places'
    BY DEF Places, Replicate, Link
  <1> QED BY <1>2, <1>3

LEMMA TypedApplied ==
  ASSUME TypeOK, Places, NEW th \in Thread, Applied(th)
  PROVE  TypeOK' /\ Places'
  <1>1. /\ task[th].at # "idle"
        /\ task[th].call \in Client
        /\ Return(th, TRUE, "kOk", outbox)
    BY DEF Applied, Places
  <1>2. /\ task' \in [Thread -> Task]
        /\ result' \in [Client -> {Nil, "ok", "error"}]
        /\ outbox' \in [Pair -> Seq(Response)]
        /\ Places'
    BY <1>1, TypedReturn DEF TypeOK
  <1> QED BY <1>1, <1>2 DEF TypeOK, Applied, viewVars

LEMMA TypedWaitFails ==
  ASSUME TypeOK, Places, NEW th \in Thread, WaitFails(th)
  PROVE  TypeOK' /\ Places'
  <1>1. task[th].at # "idle" /\ Return(th, FALSE, "kError", outbox)
    BY DEF WaitFails, Places
  <1>2. /\ task' \in [Thread -> Task]
        /\ result' \in [Client -> {Nil, "ok", "error"}]
        /\ outbox' \in [Pair -> Seq(Response)]
        /\ Places'
    BY <1>1, TypedReturn DEF TypeOK
  <1> QED BY <1>1, <1>2 DEF TypeOK, WaitFails, viewVars, entryVars

\* What the servers learn of the leader touches no thread.
View ==
  \E s \in Server : \/ BecomeLeader(s)
                    \/ \E n \in 1..MaxReigns : Follow(s, n)
                    \/ ForgetLeader(s)

LEMMA TypedView ==
  ASSUME TypeOK, Places, View
  PROVE  TypeOK' /\ Places'
  <1>1. UNCHANGED <<task, kind, result, poolVars, entryVars>>
    BY DEF View, BecomeLeader, Follow, ForgetLeader
  <1>2. Places'
    BY <1>1 DEF Places, Link
  <1>3. PICK s \in Server : \/ BecomeLeader(s)
                            \/ \E n \in 1..MaxReigns : Follow(s, n)
                            \/ ForgetLeader(s)
    BY DEF View
  <1>4. /\ reigns' \in Seq(Server)
        /\ term' \in [Server -> 0..MaxReigns]
        /\ leaderIp' \in [Server -> Server \cup {Nil}]
    <2>1. CASE BecomeLeader(s)
      BY <2>1, CommandAssumption DEF BecomeLeader, TypeOK
    <2>2. ASSUME NEW n \in 1..MaxReigns, Follow(s, n)
          PROVE  /\ reigns' \in Seq(Server)
                 /\ term' \in [Server -> 0..MaxReigns]
                 /\ leaderIp' \in [Server -> Server \cup {Nil}]
      BY <2>2, CommandAssumption DEF Follow, TypeOK
    <2>3. CASE ForgetLeader(s)
      BY <2>3 DEF ForgetLeader, TypeOK
    <2> QED BY <1>3, <2>1, <2>2, <2>3
  <1> QED BY <1>1, <1>2, <1>4 DEF TypeOK, poolVars, entryVars

LEMMA TypedStep == TypeOK /\ Places /\ [Next]_vars => TypeOK' /\ Places'
  <1> SUFFICES ASSUME TypeOK, Places, [Next]_vars PROVE TypeOK' /\ Places'
    OBVIOUS
  <1>1. CASE UNCHANGED vars
    BY <1>1 DEF vars, viewVars, poolVars, entryVars, TypeOK, Places, Link
  <1>2. CASE Next
    BY <1>2, TypedCall, TypedDealMessage, TypedLoseRequest, TypedDoCommand,
       TypedLockClient, TypedUpHoldCli, TypedSend, TypedRecv,
       TypedSendAndRecvFails, TypedAppendEntry, TypedReplicate, TypedApplied,
       TypedWaitFails, TypedView DEF Next, Step, View
  <1> QED BY <1>1, <1>2

\* The variables keep their types.
THEOREM CommandTypeCorrect == Spec => []TypeOK
  BY TypedInit, TypedStep, PTL DEF Spec

-----------------------------------------------------------------------------
(* Connections *)

\* A thread between Connect and the end of Recv holds the mutex of its link.
Linked(th) == task[th].at \in {"connect", "send", "recv"}

MutexHeld == \A th \in Thread : Linked(th) => mu[Link(th)] = th

\* Sending and receiving are done on an open connection.
Opened ==
  \A th \in Thread : task[th].at \in {"send", "recv"} => conn[Link(th)] # 0

\* The thread that holds link p is in Recv, for command c.
Awaits(p, c) ==
  /\ mu[p] \in Thread
  /\ task[mu[p]].at = "recv"
  /\ task[mu[p]].call = c
  /\ Link(mu[p]) = p

\* Worker w has a request of the connection that is open on link p now.
Serves(w, p) ==
  task[w].at # "idle" /\ task[w].back = p /\ task[w].num = conn[p]

\* What a worker answers.
Answer(w, code) == [call |-> task[w].call, code |-> code]

\* Request k of link p was sent on the connection that is open now.
Current(p, k) == inbox[p][k].num = conn[p]

RequestsAwaited ==
  \A p \in Pair : \A k \in DOMAIN inbox[p] :
    /\ inbox[p][k].num # 0
    /\ Current(p, k) => Awaits(p, inbox[p][k].call)

WorkersAwaited ==
  \A w \in Server :
    /\ task[w].at # "idle" => task[w].num # 0
    /\ \A p \in Pair : Serves(w, p) => Awaits(p, task[w].call)

ResponsesAwaited ==
  \A p \in Pair : \A k \in DOMAIN outbox[p] : Awaits(p, outbox[p][k].call)

\* An open connection carries one request, or has one worker serving it, or
\* carries one answer.
OneUnderWay ==
  \A p \in Pair :
    /\ Len(outbox[p]) <= 1
    /\ \A j, k \in DOMAIN inbox[p] : Current(p, j) /\ Current(p, k) => j = k
    /\ \A k \in DOMAIN inbox[p] : Current(p, k) =>
         outbox[p] = <<>> /\ \A w \in Server : ~Serves(w, p)
    /\ \A w \in Server : Serves(w, p) => outbox[p] = <<>>

Connections ==
  /\ MutexHeld
  /\ Opened
  /\ RequestsAwaited
  /\ WorkersAwaited
  /\ ResponsesAwaited
  /\ OneUnderWay

LEMMA AwaitsKept ==
  ASSUME NEW p, NEW c, Awaits(p, c),
         mu'[p] = mu[p], task'[mu[p]] = task[mu[p]]
  PROVE  Awaits(p, c)'
  BY DEF Awaits, Link

LEMMA ConnectionsInit == Init => Connections
  BY IdleType DEF Init, Connections, MutexHeld, Linked, Opened, RequestsAwaited,
     WorkersAwaited, ResponsesAwaited, OneUnderWay, Serves, Current

LEMMA ConnectionsCall ==
  ASSUME TypeOK, Places, Connections,
         NEW c \in Client, NEW s \in Server, NEW k \in Kind, Call(c, s, k)
  PROVE  Connections'
  <1> DEFINE new == [Idle EXCEPT !.at = "decide", !.on = s, !.call = c]
  <1>1. /\ task' = [task EXCEPT ![c] = new]
        /\ new.at = "decide"
        /\ task[c].at = "idle"
        /\ UNCHANGED <<mu, conn, inbox, outbox>>
    BY IdleType DEF Call, Idle, poolVars
  <1>2. \A u \in Thread : u # c => task'[u] = task[u]
    BY <1>1 DEF TypeOK
  <1>3. task'[c].at = "decide"
    BY <1>1 DEF TypeOK
  <1>4. c \notin Server
    BY CommandAssumption
  <1> HIDE DEF new
  <1>5. \A p, d : Awaits(p, d) => Awaits(p, d)'
    BY <1>1, <1>2, AwaitsKept DEF Awaits
  <1>6. \A w \in Server, p \in Pair : Serves(w, p)' <=> Serves(w, p)
    BY <1>1, <1>2, <1>4 DEF Serves
  <1>7. MutexHeld' /\ Opened'
    BY <1>1, <1>2, <1>3 DEF Connections, MutexHeld, Linked, Opened, Link
  <1>8. RequestsAwaited'
    BY <1>1, <1>5 DEF Connections, RequestsAwaited, Current
  <1>9. WorkersAwaited'
    BY <1>2, <1>4, <1>5, <1>6 DEF Connections, WorkersAwaited
  <1>10. ResponsesAwaited'
    BY <1>1, <1>5 DEF Connections, ResponsesAwaited
  <1>11. OneUnderWay'
    BY <1>1, <1>6 DEF Connections, OneUnderWay, Current
  <1> QED BY <1>7, <1>8, <1>9, <1>10, <1>11 DEF Connections

\* Steps that only change the stage of a thread, away from the connections.
LEMMA ConnectionsAway ==
  ASSUME TypeOK, Places, Connections, NEW th \in Thread,
         task[th].at \notin {"idle", "connect", "send", "recv"},
         task'[th].at \notin {"idle", "connect", "send", "recv"},
         task'[th].call = task[th].call,
         task'[th].back = task[th].back,
         task'[th].num = task[th].num,
         \A u \in Thread : u # th => task'[u] = task[u],
         UNCHANGED <<mu, conn, inbox, outbox>>
  PROVE  Connections'
  <1>1. \A p, d : Awaits(p, d) => Awaits(p, d)'
    BY AwaitsKept DEF Awaits
  <1>2. \A w \in Server, p \in Pair : Serves(w, p)' <=> Serves(w, p)
    BY DEF Serves
  <1>3. MutexHeld' /\ Opened'
    BY DEF Connections, MutexHeld, Linked, Opened, Link
  <1>4. RequestsAwaited'
    BY <1>1 DEF Connections, RequestsAwaited, Current
  <1>5. WorkersAwaited'
    BY <1>1, <1>2 DEF Connections, WorkersAwaited
  <1>6. ResponsesAwaited'
    BY <1>1 DEF Connections, ResponsesAwaited
  <1>7. OneUnderWay'
    BY <1>2 DEF Connections, OneUnderWay, Current
  <1> QED BY <1>3, <1>4, <1>5, <1>6, <1>7 DEF Connections

LEMMA AppendToEmpty ==
  \A x : Append(<<>>, x) = <<x>> /\ Len(Append(<<>>, x)) = 1
  OBVIOUS

\* What Return leaves: the thread is idle and, if it was a worker and its
\* connection is still open, the answer is on its way.
LEMMA ReturnEffect ==
  ASSUME TypeOK, Places, NEW th \in Thread, task[th].at # "idle",
         NEW ok, NEW code, NEW ob \in [Pair -> Seq(Response)],
         Return(th, ok, code, ob)
  PROVE  /\ task'[th] = Idle
         /\ \A u \in Thread : u # th => task'[u] = task[u]
         /\ \A p \in Pair : ~(th \in Server /\ Serves(th, p)) => outbox'[p] = ob[p]
         /\ \A p \in Pair : th \in Server /\ Serves(th, p) =>
              outbox'[p] = Append(ob[p], Answer(th, code))
  <1>1. /\ task'[th] = Idle
        /\ \A u \in Thread : u # th => task'[u] = task[u]
    BY DEF Return, TypeOK
  <1>2. th \in Server => task[th].back \in Pair
    BY DEF Places
  <1>3. CASE th \in Server /\ conn[task[th].back] = task[th].num
    <2>1. outbox' = [ob EXCEPT ![task[th].back] =
                       Append(ob[task[th].back], Answer(th, code))]
      BY <1>3 DEF Return, Answer
    <2> QED BY <1>1, <1>2, <1>3, <2>1 DEF Serves
  <1>4. CASE ~(th \in Server /\ conn[task[th].back] = task[th].num)
    <2>1. outbox' = ob
      BY <1>4 DEF Return
    <2> QED BY <1>1, <1>4, <2>1 DEF Serves
  <1> QED BY <1>3, <1>4

\* DoCommand returns, leaving its link, if it has one, with nothing under way.
LEMMA ConnectionsReturn ==
  ASSUME TypeOK, Places, Connections, NEW th \in Thread,
         task[th].at # "idle",
         NEW ok, NEW code \in {"unset", "kOk", "kError"},
         NEW ob \in [Pair -> Seq(Response)],
         Return(th, ok, code, ob),
         \A p \in Pair : ~(Linked(th) /\ p = Link(th)) =>
           mu'[p] = mu[p] /\ conn'[p] = conn[p] /\ ob[p] = outbox[p],
         \A p \in Pair : Linked(th) /\ p = Link(th) =>
           /\ ob[p] = <<>>
           /\ \A k \in DOMAIN inbox[p] : inbox[p][k].num # conn'[p]
           /\ \A w \in Server : task[w].at # "idle" /\ task[w].back = p =>
                task[w].num # conn'[p],
         UNCHANGED inbox
  PROVE  Connections'
  <1>1. /\ task'[th] = Idle
        /\ \A u \in Thread : u # th => task'[u] = task[u]
        /\ \A p \in Pair : ~(th \in Server /\ Serves(th, p)) => outbox'[p] = ob[p]
        /\ \A p \in Pair : th \in Server /\ Serves(th, p) =>
             outbox'[p] = Append(ob[p], Answer(th, code))
    BY ReturnEffect
  <1>0. task'[th].at = "idle"
    BY <1>1, IdleType
  <1>2. \A p \in Pair : th \in Server /\ Serves(th, p) =>
          ~(Linked(th) /\ p = Link(th))
    <2>1. Linked(th) => Link(th) \in Pair
      BY DEF Places, Linked
    <2>2. Linked(th) => Link(th)[2] # task[th].on
      BY <2>1 DEF Pair, Link
    <2> QED BY <2>2 DEF Places, Serves
  <1>3. \A p \in Pair : \A c : Awaits(p, c) /\ ~(Linked(th) /\ p = Link(th)) =>
          Awaits(p, c)'
    <2> SUFFICES ASSUME NEW p \in Pair, NEW c, Awaits(p, c),
                        ~(Linked(th) /\ p = Link(th))
                 PROVE  Awaits(p, c)'
      OBVIOUS
    <2>1. mu[p] \in Thread /\ mu[p] # th
      BY DEF Awaits, Linked
    <2> QED BY <1>0, <1>1, <2>1, AwaitsKept
  <1>4. \A w \in Server, p \in Pair :
          Serves(w, p)' => w # th /\ Serves(w, p) /\ ~(Linked(th) /\ p = Link(th))
    BY <1>0, <1>1 DEF Serves
  <1>5. \A p \in Pair : \A k \in DOMAIN inbox[p] :
          Current(p, k)' => Current(p, k) /\ ~(Linked(th) /\ p = Link(th))
    BY DEF Current
  <1>6. MutexHeld'
    <2> SUFFICES ASSUME NEW u \in Thread,
                        task'[u].at \in {"connect", "send", "recv"}
                 PROVE  mu'[Link(u)'] = u
      BY DEF MutexHeld, Linked
    <2>1. u # th /\ task'[u] = task[u] /\ Link(u)' = Link(u)
      BY <1>0, <1>1 DEF Link
    <2>2. mu[Link(u)] = u /\ Link(u) \in Pair
      BY <2>1 DEF Connections, MutexHeld, Linked, Places
    <2>3. Linked(th) => mu[Link(th)] = th
      BY DEF Connections, MutexHeld, Linked
    <2> QED BY <2>1, <2>2, <2>3
  <1>7. Opened'
    <2> SUFFICES ASSUME NEW u \in Thread, task'[u].at \in {"send", "recv"}
                 PROVE  conn'[Link(u)'] # 0
      BY DEF Opened
    <2>1. u # th /\ task'[u] = task[u] /\ Link(u)' = Link(u)
      BY <1>0, <1>1 DEF Link
    <2>2. mu[Link(u)] = u /\ Link(u) \in Pair /\ conn[Link(u)] # 0
      BY <2>1 DEF Connections, MutexHeld, Linked, Opened, Places
    <2>3. Linked(th) => mu[Link(th)] = th
      BY DEF Connections, MutexHeld, Linked
    <2> QED BY <2>1, <2>2, <2>3
  <1>8. RequestsAwaited'
    BY <1>3, <1>5 DEF Connections, RequestsAwaited
  <1>9. WorkersAwaited'
    <2> SUFFICES ASSUME NEW w \in Server
                 PROVE  /\ task'[w].at # "idle" => task'[w].num # 0
                        /\ \A p \in Pair : Serves(w, p)' =>
                             Awaits(p, task[w].call)'
      BY DEF WorkersAwaited
    <2>1. task'[w].at # "idle" => task'[w].num # 0
      BY <1>0, <1>1 DEF Connections, WorkersAwaited
    <2>2. ASSUME NEW p \in Pair, Serves(w, p)'
          PROVE  Awaits(p, task[w].call)'
      <3>1. w # th /\ Serves(w, p) /\ ~(Linked(th) /\ p = Link(th))
        BY <1>4, <2>2
      <3>2. Awaits(p, task[w].call)
        BY <3>1 DEF Connections, WorkersAwaited
      <3>3. task'[w] = task[w]
        BY <1>0, <1>1, <3>1
      <3> QED BY <1>3, <3>1, <3>2, <3>3
    <2> QED BY <2>1, <2>2
  <1>10. ResponsesAwaited'
    <2> SUFFICES ASSUME NEW p \in Pair, NEW k \in DOMAIN outbox'[p]
                 PROVE  Awaits(p, outbox[p][k].call)'
      BY DEF ResponsesAwaited
    <2>1. CASE th \in Server /\ Serves(th, p)
      <3>1. ob[p] = <<>>
        BY <1>2, <2>1 DEF Connections, OneUnderWay
      <3>2. outbox'[p][k].call = task[th].call
        BY <1>1, <2>1, <3>1, AppendToEmpty DEF Answer
      <3>3. Awaits(p, task[th].call)
        BY <2>1 DEF Connections, WorkersAwaited
      <3> QED BY <1>2, <1>3, <2>1, <3>2, <3>3
    <2>2. CASE ~(th \in Server /\ Serves(th, p))
      BY <1>0, <1>1, <1>3, <2>2 DEF Connections, ResponsesAwaited
    <2> QED BY <2>1, <2>2
  <1>11. OneUnderWay'
    <2> SUFFICES ASSUME NEW p \in Pair
                 PROVE
           /\ Len(outbox'[p]) <= 1
           /\ \A j, k \in DOMAIN inbox'[p] : Current(p, j)' /\ Current(p, k)' => j = k
           /\ \A k \in DOMAIN inbox'[p] : Current(p, k)' =>
                outbox'[p] = <<>> /\ \A w \in Server : ~Serves(w, p)'
           /\ \A w \in Server : Serves(w, p)' => outbox'[p] = <<>>
      BY DEF OneUnderWay
    <2>1. CASE th \in Server /\ Serves(th, p)
      <3>1. ob[p] = <<>>
        BY <1>2, <2>1 DEF Connections, OneUnderWay
      <3>2. Len(outbox'[p]) = 1
        <4>1. outbox'[p] = Append(<<>>, Answer(th, code))
          BY <1>1, <2>1, <3>1
        <4> QED BY <4>1, AppendToEmpty
      <3>3. \A k \in DOMAIN inbox'[p] : ~Current(p, k)'
        BY <1>5, <2>1 DEF Connections, OneUnderWay
      <3>4. \A w \in Server : ~Serves(w, p)'
        BY <1>4, <2>1 DEF Serves, Places
      <3> QED BY <3>2, <3>3, <3>4
    <2>2. CASE ~(th \in Server /\ Serves(th, p))
      <3>1. outbox'[p] = ob[p]
        BY <1>0, <1>1, <2>2
      <3>2. CASE Linked(th) /\ p = Link(th)
        BY <1>4, <1>5, <3>1, <3>2
      <3>3. CASE ~(Linked(th) /\ p = Link(th))
        BY <1>4, <1>5, <3>1, <3>3 DEF Connections, OneUnderWay
      <3> QED BY <3>2, <3>3
    <2> QED BY <2>1, <2>2
  <1> QED BY <1>6, <1>7, <1>8, <1>9, <1>10, <1>11 DEF Connections

\* The rest of a queue.
LEMMA TailOf ==
  ASSUME NEW S, NEW q \in Seq(S), q # <<>>
  PROVE  /\ 1 \in DOMAIN q /\ Head(q) = q[1]
         /\ \A k \in DOMAIN Tail(q) : k + 1 \in DOMAIN q /\ Tail(q)[k] = q[k + 1]
         /\ \A k \in DOMAIN Tail(q) : k \in Nat \ {0}
  OBVIOUS

LEMMA QueuedTypes ==
  ASSUME TypeOK, NEW p \in Pair
  PROVE  /\ \A k \in DOMAIN inbox[p] : inbox[p][k] \in Request
         /\ \A k \in DOMAIN outbox[p] : outbox[p][k] \in Response
  <1>1. inbox[p] \in Seq(Request) /\ outbox[p] \in Seq(Response)
    BY DEF TypeOK
  <1> QED BY <1>1

LEMMA EmptyQueue ==
  ASSUME NEW S, NEW q \in Seq(S), \A k \in DOMAIN q : FALSE
  PROVE  q = <<>>
  <1>1. Len(q) \in Nat /\ DOMAIN q = 1..Len(q)
    OBVIOUS
  <1>2. Len(q) = 0
    BY <1>1
  <1> QED BY <1>2

LEMMA AppendTo ==
  ASSUME NEW S, NEW q \in Seq(S), NEW x \in S
  PROVE  /\ DOMAIN Append(q, x) = DOMAIN q \cup {Len(q) + 1}
         /\ Len(q) + 1 \notin DOMAIN q
         /\ \A k \in DOMAIN q : Append(q, x)[k] = q[k]
         /\ Append(q, x)[Len(q) + 1] = x
  OBVIOUS

LEMMA ConnectionsDealMessage ==
  ASSUME TypeOK, Places, Connections, NEW p \in Pair, DealMessage(p)
  PROVE  Connections'
  <1> DEFINE s == p[2]
             h == Head(inbox[p])
  <1>1. s \in Server /\ task[s].at = "idle"
    BY IdleType DEF Pair, DealMessage
  <1>2. /\ task'[s].at = "decide"
        /\ task'[s].call = h.call
        /\ task'[s].back = p
        /\ task'[s].num = h.num
        /\ \A u \in Thread : u # s => task'[u] = task[u]
        /\ UNCHANGED <<mu, conn, outbox>>
        /\ inbox'[p] = Tail(inbox[p])
        /\ \A q \in Pair : q # p => inbox'[q] = inbox[q]
    BY <1>1 DEF TypeOK, DealMessage
  <1>3. /\ 1 \in DOMAIN inbox[p] /\ h = inbox[p][1]
        /\ \A k \in DOMAIN inbox'[p] : /\ k + 1 \in DOMAIN inbox[p]
                                       /\ k + 1 # 1
                                       /\ inbox'[p][k] = inbox[p][k + 1]
    BY <1>2, TailOf DEF TypeOK, DealMessage
  <1> HIDE DEF s, h
  <1>4. \A q, d : Awaits(q, d) => Awaits(q, d)'
    BY <1>1, <1>2, AwaitsKept DEF Awaits
  <1>5. \A w \in Server, q \in Pair :
          Serves(w, q)' => \/ Serves(w, q) /\ w # s
                           \/ w = s /\ q = p /\ Current(p, 1)
    BY <1>2, <1>3 DEF Serves, Current
  <1>6. MutexHeld' /\ Opened'
    BY <1>2 DEF Connections, MutexHeld, Linked, Opened, Link
  <1>7. RequestsAwaited'
    <2>1. ASSUME NEW q \in Pair, NEW k \in DOMAIN inbox'[q]
          PROVE  \E j \in DOMAIN inbox[q] : inbox'[q][k] = inbox[q][j]
      <3>1. CASE q = p
        BY <1>3, <3>1
      <3>2. CASE q # p
        BY <1>2, <3>2
      <3> QED BY <3>1, <3>2
    <2> QED BY <1>2, <1>4, <2>1 DEF Connections, RequestsAwaited, Current
  <1>8. WorkersAwaited'
    <2> SUFFICES ASSUME NEW w \in Server
                 PROVE  /\ task'[w].at # "idle" => task'[w].num # 0
                        /\ \A q \in Pair : Serves(w, q)' =>
                             Awaits(q, task[w].call)'
      BY DEF WorkersAwaited
    <2>1. task'[w].at # "idle" => task'[w].num # 0
      <3>1. h.num # 0
        BY <1>3 DEF Connections, RequestsAwaited
      <3>2. w # s => (task[w].at # "idle" => task[w].num # 0)
        BY DEF Connections, WorkersAwaited
      <3> QED BY <1>2, <3>1, <3>2
    <2>2. ASSUME NEW q \in Pair, Serves(w, q)'
          PROVE  Awaits(q, task[w].call)'
      <3>1. CASE Serves(w, q) /\ w # s
        <4>1. Awaits(q, task[w].call) /\ task'[w] = task[w]
          BY <1>2, <3>1 DEF Connections, WorkersAwaited
        <4> QED BY <1>4, <4>1
      <3>2. CASE w = s /\ q = p /\ Current(p, 1)
        <4>1. Awaits(p, h.call) /\ task'[w].call = h.call
          BY <1>2, <1>3, <3>2 DEF Connections, RequestsAwaited
        <4> QED BY <1>4, <3>2, <4>1
      <3> QED BY <1>5, <2>2, <3>1, <3>2
    <2> QED BY <2>1, <2>2
  <1>9. ResponsesAwaited'
    BY <1>2, <1>4 DEF Connections, ResponsesAwaited
  <1>10. OneUnderWay'
    <2> SUFFICES ASSUME NEW q \in Pair
                 PROVE
           /\ Len(outbox'[q]) <= 1
           /\ \A j, k \in DOMAIN inbox'[q] : Current(q, j)' /\ Current(q, k)' => j = k
           /\ \A k \in DOMAIN inbox'[q] : Current(q, k)' =>
                outbox'[q] = <<>> /\ \A w \in Server : ~Serves(w, q)'
           /\ \A w \in Server : Serves(w, q)' => outbox'[q] = <<>>
      BY DEF OneUnderWay
    <2>1. CASE q # p
      BY <1>2, <1>5, <2>1 DEF Connections, OneUnderWay, Current
    <2>2. CASE q = p
      <3>1. \A k \in DOMAIN inbox'[p] : /\ Current(p, k)' => Current(p, k + 1)
                                        /\ k \in Int
        BY <1>2, <1>3, TailOf DEF Current, TypeOK, DealMessage
      <3>2. \A j, k \in DOMAIN inbox'[p] : Current(p, j)' /\ Current(p, k)' => j = k
        <4>1. ASSUME NEW j \in DOMAIN inbox'[p], NEW k \in DOMAIN inbox'[p],
                     Current(p, j)', Current(p, k)'
              PROVE  j = k
          <5>1. j + 1 = k + 1
            BY <1>3, <3>1, <4>1 DEF Connections, OneUnderWay
          <5> QED BY <3>1, <5>1
        <4> QED BY <4>1
      <3>3. \A k \in DOMAIN inbox'[p] : Current(p, k)' =>
              ~Current(p, 1) /\ outbox[p] = <<>> /\ \A w \in Server : ~Serves(w, p)
        BY <1>3, <3>1 DEF Connections, OneUnderWay
      <3>4. Current(p, 1) => outbox[p] = <<>>
        BY <1>3 DEF Connections, OneUnderWay
      <3> QED BY <1>2, <1>5, <2>2, <3>2, <3>3, <3>4 DEF Connections, OneUnderWay
    <2> QED BY <2>1, <2>2
  <1> QED BY <1>6, <1>7, <1>8, <1>9, <1>10 DEF Connections

LEMMA ConnectionsLoseRequest ==
  ASSUME TypeOK, Places, Connections, NEW p \in Pair, LoseRequest(p)
  PROVE  Connections'
  <1>2. /\ UNCHANGED <<task, mu, conn, outbox>>
        /\ inbox'[p] = Tail(inbox[p])
        /\ \A q \in Pair : q # p => inbox'[q] = inbox[q]
    BY DEF TypeOK, LoseRequest
  <1>3. \A k \in DOMAIN inbox'[p] : /\ k + 1 \in DOMAIN inbox[p]
                                    /\ k \in Int
                                    /\ inbox'[p][k] = inbox[p][k + 1]
    BY <1>2, TailOf DEF TypeOK, LoseRequest
  <1>4. \A q, d : Awaits(q, d) => Awaits(q, d)'
    BY <1>2, AwaitsKept DEF Awaits
  <1>5. \A w \in Server, q \in Pair : Serves(w, q)' <=> Serves(w, q)
    BY <1>2 DEF Serves
  <1>6. MutexHeld' /\ Opened'
    BY <1>2 DEF Connections, MutexHeld, Linked, Opened, Link
  <1>7. RequestsAwaited'
    <2>1. ASSUME NEW q \in Pair, NEW k \in DOMAIN inbox'[q]
          PROVE  \E j \in DOMAIN inbox[q] : inbox'[q][k] = inbox[q][j]
      BY <1>2, <1>3
    <2> QED BY <1>2, <1>4, <2>1 DEF Connections, RequestsAwaited, Current
  <1>8. WorkersAwaited'
    BY <1>2, <1>4, <1>5 DEF Connections, WorkersAwaited
  <1>9. ResponsesAwaited'
    BY <1>2, <1>4 DEF Connections, ResponsesAwaited
  <1>10. OneUnderWay'
    <2> SUFFICES ASSUME NEW q \in Pair
                 PROVE
           /\ Len(outbox'[q]) <= 1
           /\ \A j, k \in DOMAIN inbox'[q] : Current(q, j)' /\ Current(q, k)' => j = k
           /\ \A k \in DOMAIN inbox'[q] : Current(q, k)' =>
                outbox'[q] = <<>> /\ \A w \in Server : ~Serves(w, q)'
           /\ \A w \in Server : Serves(w, q)' => outbox'[q] = <<>>
      BY DEF OneUnderWay
    <2>1. CASE q # p
      BY <1>2, <1>5, <2>1 DEF Connections, OneUnderWay, Current
    <2>2. CASE q = p
      <3>1. \A k \in DOMAIN inbox'[p] : Current(p, k)' => Current(p, k + 1)
        BY <1>2, <1>3 DEF Current
      <3>2. \A j, k \in DOMAIN inbox'[p] : Current(p, j)' /\ Current(p, k)' => j = k
        <4>1. ASSUME NEW j \in DOMAIN inbox'[p], NEW k \in DOMAIN inbox'[p],
                     Current(p, j)', Current(p, k)'
              PROVE  j = k
          <5>1. j + 1 = k + 1
            BY <1>3, <3>1, <4>1 DEF Connections, OneUnderWay
          <5> QED BY <1>3, <5>1
        <4> QED BY <4>1
      <3> QED BY <1>2, <1>3, <1>5, <2>2, <3>1, <3>2 DEF Connections, OneUnderWay
    <2> QED BY <2>1, <2>2
  <1> QED BY <1>6, <1>7, <1>8, <1>9, <1>10 DEF Connections

LEMMA ConnectionsDoCommand ==
  ASSUME TypeOK, Places, Connections, NEW th \in Thread, DoCommand(th)
  PROVE  Connections'
  <1> DEFINE s == task[th].on
             l == leaderIp[s]
  <1>0. /\ task[th].at = "decide"
        /\ s \in Server
        /\ l \in Server \cup {Nil}
        /\ UNCHANGED <<mu, conn, inbox>>
    BY DEF DoCommand, Places, TypeOK
  <1>1. CASE l = s
    <2>1. Go(th, "append") /\ UNCHANGED outbox
      BY <1>0, <1>1, CommandAssumption DEF DoCommand
    <2>2. /\ \A u \in Thread \ {th} : task'[u] = task[u]
          /\ task'[th].at = "append"
          /\ task'[th].call = task[th].call
          /\ task'[th].back = task[th].back
          /\ task'[th].num = task[th].num
      BY <2>1, GoEffect DEF Stages
    <2> QED BY <1>0, <2>1, <2>2, ConnectionsAway
  <1>2. CASE l # s /\ l = Nil
    <2>1. Return(th, FALSE, Unset(th), outbox)
      BY <1>0, <1>2, CommandAssumption DEF DoCommand
    <2>2. outbox \in [Pair -> Seq(Response)] /\ ~Linked(th)
      BY <1>0 DEF TypeOK, Linked
    <2> QED BY <1>0, <2>1, <2>2, UnsetType, ConnectionsReturn
  <1>3. CASE l # s /\ l # Nil
    <2> DEFINE new == [task[th] EXCEPT !.at = "lock", !.to = l]
    <2>1. task' = [task EXCEPT ![th] = new] /\ UNCHANGED outbox
      BY <1>3 DEF DoCommand
    <2>2. task[th] \in Task
      BY DEF TypeOK
    <2>3. /\ new.at = "lock" /\ new.num = task[th].num
          /\ new.call = task[th].call /\ new.back = task[th].back
      BY <1>0, <2>2 DEF Task
    <2> HIDE DEF new
    <2>4. task'[th] = new /\ \A u \in Thread : u # th => task'[u] = task[u]
      BY <2>1 DEF TypeOK
    <2> QED BY <1>0, <2>1, <2>3, <2>4, ConnectionsAway
  <1> QED BY <1>1, <1>2, <1>3

LEMMA ConnectionsAppendEntry ==
  ASSUME TypeOK, Places, Connections, NEW th \in Thread, AppendEntry(th)
  PROVE  Connections'
  <1>1. /\ task[th].at = "append"
        /\ Go(th, "wait")
        /\ UNCHANGED <<mu, conn, inbox, outbox>>
    BY DEF AppendEntry, poolVars
  <1>2. /\ \A u \in Thread \ {th} : task'[u] = task[u]
        /\ task'[th].at = "wait"
        /\ task'[th].call = task[th].call
        /\ task'[th].back = task[th].back
        /\ task'[th].num = task[th].num
    BY <1>1, GoEffect DEF Stages
  <1> QED BY <1>1, <1>2, ConnectionsAway

LEMMA ConnectionsWaitEnds ==
  ASSUME TypeOK, Places, Connections, NEW th \in Thread,
         Applied(th) \/ WaitFails(th)
  PROVE  Connections'
  <1>1. /\ task[th].at = "wait"
        /\ UNCHANGED <<mu, conn, inbox>>
        /\ \E ok, code : /\ code \in {"unset", "kOk", "kError"}
                         /\ Return(th, ok, code, outbox)
    BY DEF Applied, WaitFails
  <1>2. outbox \in [Pair -> Seq(Response)] /\ ~Linked(th)
    BY <1>1 DEF TypeOK, Linked
  <1>3. PICK ok, code : /\ code \in {"unset", "kOk", "kError"}
                        /\ Return(th, ok, code, outbox)
    BY <1>1
  <1> QED BY <1>1, <1>2, <1>3, ConnectionsReturn

LEMMA ConnectionsRecv ==
  ASSUME TypeOK, Places, Connections, NEW th \in Thread, Recv(th)
  PROVE  Connections'
  <1> DEFINE p  == Link(th)
             ob == [outbox EXCEPT ![p] = Tail(outbox[p])]
             code == Head(outbox[p]).code
  <1>1. /\ task[th].at = "recv" /\ p \in Pair /\ outbox[p] # <<>>
        /\ mu' = [mu EXCEPT ![p] = Nil]
        /\ UNCHANGED <<conn, inbox>>
        /\ Return(th, TRUE, code, ob)
    BY DEF Recv, Places
  <1>2. /\ outbox[p] \in Seq(Response)
        /\ Head(outbox[p]) \in Response
        /\ Tail(outbox[p]) \in Seq(Response)
    BY <1>1 DEF TypeOK
  <1>3. Tail(outbox[p]) = <<>>
    BY <1>1, <1>2 DEF Connections, OneUnderWay
  <1>4. code \in {"unset", "kOk", "kError"}
    BY <1>2 DEF Response
  <1>5. /\ ob \in [Pair -> Seq(Response)]
        /\ ob[p] = <<>>
        /\ \A q \in Pair : q # p => ob[q] = outbox[q] /\ mu'[q] = mu[q]
    BY <1>1, <1>2, <1>3 DEF TypeOK
  <1>6. /\ \A k \in DOMAIN inbox[p] : inbox[p][k].num # conn'[p]
        /\ \A w \in Server : task[w].at # "idle" /\ task[w].back = p =>
             task[w].num # conn'[p]
    BY <1>1 DEF Connections, OneUnderWay, Current, Serves
  <1>7. /\ \A q \in Pair : ~(Linked(th) /\ q = Link(th)) =>
             mu'[q] = mu[q] /\ conn'[q] = conn[q] /\ ob[q] = outbox[q]
        /\ \A q \in Pair : Linked(th) /\ q = Link(th) =>
             /\ ob[q] = <<>>
             /\ \A k \in DOMAIN inbox[q] : inbox[q][k].num # conn'[q]
             /\ \A w \in Server : task[w].at # "idle" /\ task[w].back = q =>
                  task[w].num # conn'[q]
    BY <1>1, <1>5, <1>6 DEF Linked
  <1> HIDE DEF ob, code, p
  <1> QED BY <1>1, <1>4, <1>5, <1>7, ConnectionsReturn

LEMMA ConnectionsSendAndRecvFails ==
  ASSUME TypeOK, Places, Connections, NEW th \in Thread, SendAndRecvFails(th)
  PROVE  Connections'
  <1> DEFINE p  == Link(th)
             ob == [outbox EXCEPT ![p] = <<>>]
  <1>1. /\ task[th].at \in {"connect", "send", "recv"} /\ p \in Pair
        /\ mu' = [mu EXCEPT ![p] = Nil]
        /\ conn' = [conn EXCEPT ![p] = 0]
        /\ UNCHANGED inbox
        /\ Return(th, FALSE, Unset(th), ob)
    BY DEF SendAndRecvFails, Places, Released, Closed
  <1>2. /\ ob \in [Pair -> Seq(Response)]
        /\ ob[p] = <<>>
        /\ conn'[p] = 0
        /\ \A q \in Pair : q # p => /\ ob[q] = outbox[q]
                                    /\ mu'[q] = mu[q]
                                    /\ conn'[q] = conn[q]
    BY <1>1 DEF TypeOK
  <1>3. /\ \A k \in DOMAIN inbox[p] : inbox[p][k].num # conn'[p]
        /\ \A w \in Server : task[w].at # "idle" /\ task[w].back = p =>
             task[w].num # conn'[p]
    BY <1>1, <1>2 DEF Connections, RequestsAwaited, WorkersAwaited
  <1>7. /\ \A q \in Pair : ~(Linked(th) /\ q = Link(th)) =>
             mu'[q] = mu[q] /\ conn'[q] = conn[q] /\ ob[q] = outbox[q]
        /\ \A q \in Pair : Linked(th) /\ q = Link(th) =>
             /\ ob[q] = <<>>
             /\ \A k \in DOMAIN inbox[q] : inbox[q][k].num # conn'[q]
             /\ \A w \in Server : task[w].at # "idle" /\ task[w].back = q =>
                  task[w].num # conn'[q]
    BY <1>1, <1>2, <1>3 DEF Linked
  <1> HIDE DEF ob, p
  <1>8. /\ task[th].at # "idle"
        /\ Unset(th) \in {"unset", "kOk", "kError"}
        /\ ob \in [Pair -> Seq(Response)]
        /\ Return(th, FALSE, Unset(th), ob)
        /\ UNCHANGED inbox
    BY <1>1, <1>2, UnsetType
  <1> QED BY <1>7, <1>8, ConnectionsReturn

LEMMA ConnectionsLockClient ==
  ASSUME TypeOK, Places, Connections, NEW th \in Thread, LockClient(th)
  PROVE  Connections'
  <1> DEFINE p == Link(th)
             stage == IF conn[p] = 0 THEN "connect" ELSE "send"
  <1>1. /\ task[th].at = "lock"
        /\ p \in Pair
        /\ mu[p] = Nil
        /\ mu' = [mu EXCEPT ![p] = th]
        /\ Go(th, stage)
        /\ stage \in {"connect", "send"}
        /\ stage = "send" => conn[p] # 0
        /\ UNCHANGED <<conn, inbox, outbox>>
    BY DEF LockClient, Places
  <1> HIDE DEF stage
  <1>2. /\ \A u \in Thread : u # th => task'[u] = task[u]
        /\ task'[th].at = stage
        /\ task'[th].call = task[th].call
        /\ task'[th].back = task[th].back
        /\ task'[th].num = task[th].num
        /\ Link(th)' = p
        /\ \A u \in Thread : u # th => Link(u)' = Link(u)
    BY <1>1, GoEffect DEF Stages, Link
  <1>3. mu'[p] = th /\ \A q \in Pair : q # p => mu'[q] = mu[q]
    BY <1>1 DEF TypeOK
  <1>4. Nil \notin Thread
    BY CommandAssumption
  <1>5. \A q \in Pair : \A d : Awaits(q, d) => Awaits(q, d)'
    <2> SUFFICES ASSUME NEW q \in Pair, NEW d, Awaits(q, d) PROVE Awaits(q, d)'
      OBVIOUS
    <2>1. q # p /\ mu[q] # th /\ mu[q] \in Thread
      BY <1>1, <1>4 DEF Awaits
    <2> QED BY <1>2, <1>3, <2>1, AwaitsKept
  <1>6. \A w \in Server, q \in Pair : Serves(w, q)' => Serves(w, q)
    BY <1>1, <1>2 DEF Serves
  <1>7. MutexHeld'
    <2> SUFFICES ASSUME NEW u \in Thread, Linked(u)'
                 PROVE  mu'[Link(u)'] = u
      BY DEF MutexHeld
    <2>1. CASE u = th
      BY <1>2, <1>3, <2>1
    <2>2. CASE u # th
      <3>1. mu[Link(u)] = u /\ Link(u) \in Pair
        BY <1>2, <2>2 DEF Connections, MutexHeld, Linked, Places
      <3> QED BY <1>1, <1>2, <1>3, <1>4, <2>2, <3>1
    <2> QED BY <2>1, <2>2
  <1>8. Opened'
    <2> SUFFICES ASSUME NEW u \in Thread, task'[u].at \in {"send", "recv"}
                 PROVE  conn'[Link(u)'] # 0
      BY DEF Opened
    <2>1. CASE u = th
      BY <1>1, <1>2, <2>1
    <2>2. CASE u # th
      BY <1>1, <1>2, <2>2 DEF Connections, Opened
    <2> QED BY <2>1, <2>2
  <1>9. RequestsAwaited'
    BY <1>1, <1>5 DEF Connections, RequestsAwaited, Current
  <1>10. WorkersAwaited'
    <2>1. \A w \in Server : /\ task'[w].call = task[w].call
                            /\ task'[w].num = task[w].num
                            /\ task'[w].at # "idle" => task[w].at # "idle"
      BY <1>1, <1>2
    <2> QED BY <1>5, <1>6, <2>1 DEF Connections, WorkersAwaited
  <1>11. ResponsesAwaited'
    BY <1>1, <1>5 DEF Connections, ResponsesAwaited
  <1>12. OneUnderWay'
    BY <1>1, <1>6 DEF Connections, OneUnderWay, Current
  <1> QED BY <1>7, <1>8, <1>9, <1>10, <1>11, <1>12 DEF Connections

LEMMA ConnectionsUpHoldCli ==
  ASSUME TypeOK, Places, Connections, NEW th \in Thread, UpHoldCli(th)
  PROVE  Connections'
  <1> DEFINE p == Link(th)
  <1>1. /\ task[th].at = "connect"
        /\ p \in Pair
        /\ mu[p] = th
        /\ conn' = [conn EXCEPT ![p] = NewNumber(p)]
        /\ Go(th, "send")
        /\ UNCHANGED <<mu, inbox, outbox>>
    BY DEF UpHoldCli, Places, Connections, MutexHeld, Linked
  <1>2. /\ \A u \in Thread : u # th => task'[u] = task[u]
        /\ task'[th].at = "send"
        /\ task'[th].call = task[th].call
        /\ task'[th].back = task[th].back
        /\ task'[th].num = task[th].num
        /\ Link(th)' = p
        /\ \A u \in Thread : u # th => Link(u)' = Link(u)
    BY <1>1, GoEffect DEF Stages, Link
  <1>3. conn'[p] = NewNumber(p) /\ \A q \in Pair : q # p => conn'[q] = conn[q]
    BY <1>1 DEF TypeOK
  <1>4. /\ conn'[p] # 0
        /\ \A k \in DOMAIN inbox[p] : inbox[p][k].num # conn'[p]
        /\ \A w \in Server : task[w].back = p => task[w].num # conn'[p]
    BY <1>1, <1>3, NewNumberIsNew
  <1>5. \A q \in Pair : \A d : Awaits(q, d) => q # p /\ Awaits(q, d)'
    <2> SUFFICES ASSUME NEW q \in Pair, NEW d, Awaits(q, d)
                 PROVE  q # p /\ Awaits(q, d)'
      OBVIOUS
    <2>1. q # p /\ mu[q] # th /\ mu[q] \in Thread
      BY <1>1 DEF Awaits
    <2> QED BY <1>1, <1>2, <2>1, AwaitsKept
  <1>6. \A w \in Server, q \in Pair : Serves(w, q)' => q # p /\ Serves(w, q)
    BY <1>1, <1>2, <1>3, <1>4 DEF Serves
  <1>7. \A q \in Pair : \A k \in DOMAIN inbox[q] :
          Current(q, k)' => q # p /\ Current(q, k)
    BY <1>1, <1>3, <1>4 DEF Current
  <1>8. MutexHeld'
    BY <1>1, <1>2 DEF Connections, MutexHeld, Linked
  <1>9. Opened'
    <2> SUFFICES ASSUME NEW u \in Thread, task'[u].at \in {"send", "recv"}
                 PROVE  conn'[Link(u)'] # 0
      BY DEF Opened
    <2>1. CASE u = th
      BY <1>2, <1>4, <2>1
    <2>2. CASE u # th
      <3>1. Link(u)' = Link(u) /\ conn[Link(u)] # 0 /\ Link(u) \in Pair
        BY <1>2, <2>2 DEF Connections, Opened, Places
      <3> QED BY <1>3, <1>4, <3>1
    <2> QED BY <2>1, <2>2
  <1>10. RequestsAwaited'
    BY <1>1, <1>5, <1>7 DEF Connections, RequestsAwaited
  <1>11. WorkersAwaited'
    <2>1. \A w \in Server : /\ task'[w].call = task[w].call
                            /\ task'[w].num = task[w].num
                            /\ task'[w].at # "idle" => task[w].at # "idle"
      BY <1>1, <1>2
    <2> QED BY <1>5, <1>6, <2>1 DEF Connections, WorkersAwaited
  <1>12. ResponsesAwaited'
    BY <1>1, <1>5 DEF Connections, ResponsesAwaited
  <1>13. OneUnderWay'
    BY <1>1, <1>6, <1>7 DEF Connections, OneUnderWay
  <1> QED BY <1>8, <1>9, <1>10, <1>11, <1>12, <1>13 DEF Connections

LEMMA ConnectionsSend ==
  ASSUME TypeOK, Places, Connections, NEW th \in Thread, Send(th)
  PROVE  Connections'
  <1> DEFINE p == Link(th)
             r == [call |-> task[th].call, num |-> conn[p]]
             n == Len(inbox[p]) + 1
  <1>1. /\ task[th].at = "send"
        /\ p \in Pair
        /\ mu[p] = th
        /\ conn[p] # 0
        /\ inbox' = [inbox EXCEPT ![p] = Append(inbox[p], r)]
        /\ Go(th, "recv")
        /\ UNCHANGED <<mu, conn, outbox>>
    BY DEF Send, Places, Connections, MutexHeld, Opened, Linked
  <1>2. /\ \A u \in Thread : u # th => task'[u] = task[u]
        /\ task'[th].at = "recv"
        /\ task'[th].call = task[th].call
        /\ task'[th].back = task[th].back
        /\ task'[th].num = task[th].num
        /\ Link(th)' = p
        /\ \A u \in Thread : u # th => Link(u)' = Link(u)
    BY <1>1, GoEffect DEF Stages, Link
  <1>3. r \in Request /\ r.call = task[th].call /\ r.num = conn[p]
    BY <1>1 DEF TypeOK, Places, Request
  <1> HIDE DEF r
  <1>4. /\ \A q \in Pair : q # p => inbox'[q] = inbox[q]
        /\ DOMAIN inbox'[p] = DOMAIN inbox[p] \cup {n}
        /\ n \notin DOMAIN inbox[p]
        /\ \A k \in DOMAIN inbox[p] : inbox'[p][k] = inbox[p][k]
        /\ inbox'[p][n] = r
    BY <1>1, <1>3, AppendTo DEF TypeOK
  <1> HIDE DEF n
  <1>5. \A q \in Pair : \A d : Awaits(q, d) => q # p /\ Awaits(q, d)'
    <2> SUFFICES ASSUME NEW q \in Pair, NEW d, Awaits(q, d)
                 PROVE  q # p /\ Awaits(q, d)'
      OBVIOUS
    <2>1. q # p /\ mu[q] # th /\ mu[q] \in Thread
      BY <1>1 DEF Awaits
    <2> QED BY <1>1, <1>2, <2>1, AwaitsKept
  <1>6. \A q, d : q = p /\ d = r.call => Awaits(q, d)'
    BY <1>1, <1>2, <1>3 DEF Awaits
  <1>7. \A w \in Server, q \in Pair : Serves(w, q)' => q # p /\ Serves(w, q)
    <2>1. \A w \in Server, q \in Pair : Serves(w, q)' => Serves(w, q)
      BY <1>1, <1>2 DEF Serves
    <2> QED BY <1>5, <2>1 DEF Connections, WorkersAwaited
  <1>8. \A q \in Pair : \A k \in DOMAIN inbox'[q] : Current(q, k)' =>
          \/ q # p /\ k \in DOMAIN inbox[q] /\ Current(q, k)
          \/ q = p /\ k = n
    <2>1. \A k \in DOMAIN inbox[p] : ~Current(p, k)
      BY <1>1, <1>5 DEF Connections, RequestsAwaited
    <2> QED BY <1>1, <1>4, <2>1 DEF Current
  <1>9. outbox[p] = <<>>
    <2>1. \A k \in DOMAIN outbox[p] : FALSE
      BY <1>1, <1>5 DEF Connections, ResponsesAwaited
    <2>2. outbox[p] \in Seq(Response)
      BY <1>1 DEF TypeOK
    <2> QED BY <2>1, <2>2, EmptyQueue
  <1>10. MutexHeld'
    BY <1>1, <1>2 DEF Connections, MutexHeld, Linked
  <1>11. Opened'
    BY <1>1, <1>2 DEF Connections, Opened
  <1>12. RequestsAwaited'
    <2> SUFFICES ASSUME NEW q \in Pair, NEW k \in DOMAIN inbox'[q]
                 PROVE  /\ inbox'[q][k].num # 0
                        /\ Current(q, k)' => Awaits(q, inbox[q][k].call)'
      BY DEF RequestsAwaited
    <2>1. CASE q = p /\ k = n
      BY <1>1, <1>3, <1>4, <1>6, <2>1
    <2>2. CASE ~(q = p /\ k = n)
      <3>1. k \in DOMAIN inbox[q] /\ inbox'[q][k] = inbox[q][k]
        BY <1>4, <2>2
      <3>2. Current(q, k)' => Current(q, k)
        BY <1>1, <3>1 DEF Current
      <3> QED BY <1>5, <3>1, <3>2 DEF Connections, RequestsAwaited
    <2> QED BY <2>1, <2>2
  <1>13. WorkersAwaited'
    <2>1. \A w \in Server : /\ task'[w].call = task[w].call
                            /\ task'[w].num = task[w].num
                            /\ task'[w].at # "idle" => task[w].at # "idle"
      BY <1>1, <1>2
    <2> QED BY <1>5, <1>7, <2>1 DEF Connections, WorkersAwaited
  <1>14. ResponsesAwaited'
    BY <1>1, <1>5 DEF Connections, ResponsesAwaited
  <1>15. OneUnderWay'
    <2> SUFFICES ASSUME NEW q \in Pair
                 PROVE
           /\ Len(outbox'[q]) <= 1
           /\ \A j, k \in DOMAIN inbox'[q] : Current(q, j)' /\ Current(q, k)' => j = k
           /\ \A k \in DOMAIN inbox'[q] : Current(q, k)' =>
                outbox'[q] = <<>> /\ \A w \in Server : ~Serves(w, q)'
           /\ \A w \in Server : Serves(w, q)' => outbox'[q] = <<>>
      BY DEF OneUnderWay
    <2>1. CASE q = p
      BY <1>1, <1>7, <1>8, <1>9, <2>1
    <2>2. CASE q # p
      BY <1>1, <1>4, <1>7, <1>8, <2>2 DEF Connections, OneUnderWay
    <2> QED BY <2>1, <2>2
  <1> QED BY <1>10, <1>11, <1>12, <1>13, <1>14, <1>15 DEF Connections

\* Steps that leave the threads and the connections alone.
LEMMA ConnectionsElsewhere ==
  ASSUME Connections, UNCHANGED <<task, mu, conn, inbox, outbox>>
  PROVE  Connections'
  BY DEF Connections, MutexHeld, Linked, Opened, RequestsAwaited,
     WorkersAwaited, ResponsesAwaited, OneUnderWay, Serves, Current, Awaits, Link

LEMMA ConnectionsStep ==
  TypeOK /\ Places /\ Connections /\ [Next]_vars => Connections'
  <1> SUFFICES ASSUME TypeOK, Places, Connections, [Next]_vars
               PROVE  Connections'
    OBVIOUS
  <1>1. CASE UNCHANGED vars
    BY <1>1, ConnectionsElsewhere DEF vars, poolVars
  <1>2. CASE View
    BY <1>2, ConnectionsElsewhere
       DEF View, BecomeLeader, Follow, ForgetLeader, poolVars
  <1>3. ASSUME NEW th \in Thread, NEW s \in Server, Replicate(th, s)
        PROVE  Connections'
    BY <1>3, ConnectionsElsewhere DEF Replicate, poolVars
  <1>4. ASSUME NEW th \in Thread, Step(th)
        PROVE  Connections'
    BY <1>4, ConnectionsDoCommand, ConnectionsLockClient, ConnectionsUpHoldCli,
       ConnectionsSend, ConnectionsRecv, ConnectionsSendAndRecvFails,
       ConnectionsAppendEntry, ConnectionsWaitEnds DEF Step
  <1> QED BY <1>1, <1>2, <1>3, <1>4, ConnectionsCall, ConnectionsDealMessage,
             ConnectionsLoseRequest DEF Next, View

\* An answer that waits on a connection is for the command of the thread that
\* holds the connection, although answers carry nothing to tell: whatever
\* timed out before, no late answer is taken for the answer to a later request.
THEOREM AnswersAreAwaited == Spec => []AnswersAwaited
  <1>1. Connections => AnswersAwaited
    BY CommandAssumption DEF Connections, ResponsesAwaited, Awaits, AnswersAwaited
  <1> QED BY <1>1, TypedInit, TypedStep, ConnectionsInit, ConnectionsStep, PTL
          DEF Spec

-----------------------------------------------------------------------------
(* Commands *)

Called(c) == task[c] # Idle \/ result[c] # Nil

\* Whatever is under way belongs to a call that was made.
Known ==
  /\ \A th \in Thread : task[th].at # "idle" => Called(task[th].call)
  /\ \A p \in Pair : \A k \in DOMAIN inbox[p] : Called(inbox[p][k].call)
  /\ \A p \in Pair : \A k \in DOMAIN outbox[p] : Called(outbox[p][k].call)
  /\ \A c \in Client : appended[c] # 0 => Called(c)

\* The thread th has command c and has neither sent nor appended it.
Carrying == {"decide", "lock", "connect", "send", "append"}
Carries(th, c) == task[th].at \in Carrying /\ task[th].call = c

\* A command that is not in the log is with one thread or in one request at
\* most; one that is in the log is with none and in none.
OneCarrier ==
  \A c \in Client :
    /\ appended[c] <= 1
    /\ \A th \in Thread : Carries(th, c) =>
         /\ appended[c] = 0
         /\ \A u \in Thread : Carries(u, c) => u = th
         /\ \A p \in Pair : \A k \in DOMAIN inbox[p] : inbox[p][k].call # c
    /\ \A p \in Pair : \A k \in DOMAIN inbox[p] : inbox[p][k].call = c =>
         /\ appended[c] = 0
         /\ \A q \in Pair : \A j \in DOMAIN inbox[q] :
              inbox[q][j].call = c => q = p /\ j = k

\* An answer that would be read as ok is one to a command that was executed.
TrueAnswers ==
  \A p \in Pair : \A k \in DOMAIN outbox[p] :
    CodeRead(outbox[p][k].code) = "kOk" /\ kind[outbox[p][k].call] = "kv" =>
      outbox[p][k].call \in executed

LEMMA CommandsInit == Init => Known /\ OneCarrier /\ TrueAnswers /\ OkMeansExecuted
  <1> SUFFICES ASSUME Init PROVE Known /\ OneCarrier /\ TrueAnswers /\ OkMeansExecuted
    OBVIOUS
  <1>1. Known
    BY IdleType DEF Init, Known
  <1>2. OneCarrier
    BY IdleType DEF Init, OneCarrier, Carries, Carrying
  <1>3. TrueAnswers
    BY DEF Init, TrueAnswers
  <1>4. OkMeansExecuted
    BY CommandAssumption DEF Init, OkMeansExecuted
  <1> QED BY <1>1, <1>2, <1>3, <1>4

\* The steps of threads in DoCommand: no thread gets a command by them, and
\* none that has let go of its command gets it back.
LEMMA StepFrame ==
  ASSUME TypeOK, Places, NEW th \in Thread, Step(th)
  PROVE  \A u \in Thread : task'[u].at # "idle" =>
           /\ task[u].at # "idle"
           /\ task'[u].call = task[u].call
           /\ task'[u].at \in Carrying => task[u].at \in Carrying
           /\ u # th => task'[u] = task[u]
  <1>1. ASSUME NEW stage \in Stages, Go(th, stage), task[th].at # "idle",
               stage \in Carrying => task[th].at \in Carrying
        PROVE  \A u \in Thread : task'[u].at # "idle" =>
                 /\ task[u].at # "idle"
                 /\ task'[u].call = task[u].call
                 /\ task'[u].at \in Carrying => task[u].at \in Carrying
                 /\ u # th => task'[u] = task[u]
    <2>1. /\ \A u \in Thread \ {th} : task'[u] = task[u]
          /\ task'[th].at = stage
          /\ task'[th].call = task[th].call
      BY <1>1, GoEffect
    <2> QED BY <1>1, <2>1
  <1>2. ASSUME NEW ok, NEW code, NEW ob, Return(th, ok, code, ob)
        PROVE  \A u \in Thread : task'[u].at # "idle" =>
                 /\ task[u].at # "idle"
                 /\ task'[u].call = task[u].call
                 /\ task'[u].at \in Carrying => task[u].at \in Carrying
                 /\ u # th => task'[u] = task[u]
    <2>1. task' = [task EXCEPT ![th] = Idle]
      BY <1>2 DEF Return
    <2> QED BY <2>1, IdleType DEF TypeOK
  <1>3. CASE DoCommand(th)
    <2> DEFINE s == task[th].on
               l == leaderIp[s]
    <2>1. task[th].at = "decide" /\ s \in Server /\ l \in Server \cup {Nil}
      BY <1>3 DEF DoCommand, Places, TypeOK
    <2>2. CASE l = s
      <3>1. Go(th, "append")
        BY <1>3, <2>1, <2>2, CommandAssumption DEF DoCommand
      <3> QED BY <1>1, <2>1, <3>1 DEF Stages, Carrying
    <2>3. CASE l # s /\ l = Nil
      <3>1. Return(th, FALSE, Unset(th), outbox)
        BY <1>3, <2>1, <2>3, CommandAssumption DEF DoCommand
      <3> QED BY <1>2, <3>1
    <2>4. CASE l # s /\ l # Nil
      <3> DEFINE new == [task[th] EXCEPT !.at = "lock", !.to = l]
      <3>1. task' = [task EXCEPT ![th] = new]
        BY <1>3, <2>4 DEF DoCommand
      <3>2. task[th] \in Task
        BY DEF TypeOK
      <3>3. new.at = "lock" /\ new.call = task[th].call
        BY <3>2 DEF Task
      <3> HIDE DEF new
      <3> QED BY <2>1, <3>1, <3>3 DEF TypeOK, Carrying
    <2> QED BY <2>2, <2>3, <2>4
  <1>4. CASE LockClient(th)
    <2> DEFINE stage == IF conn[Link(th)] = 0 THEN "connect" ELSE "send"
    <2>1. task[th].at = "lock" /\ Go(th, stage) /\ stage \in {"connect", "send"}
      BY <1>4 DEF LockClient
    <2> HIDE DEF stage
    <2> QED BY <1>1, <2>1 DEF Stages, Carrying
  <1>5. CASE UpHoldCli(th)
    BY <1>1, <1>5 DEF UpHoldCli, Stages, Carrying
  <1>6. CASE Send(th)
    <2>1. task[th].at = "send" /\ Go(th, "recv")
      BY <1>6 DEF Send
    <2> QED BY <1>1, <2>1 DEF Stages, Carrying
  <1>7. CASE Recv(th)
    BY <1>2, <1>7 DEF Recv
  <1>8. CASE SendAndRecvFails(th)
    <2>1. \E ob : Return(th, FALSE, Unset(th), ob)
      BY <1>8 DEF SendAndRecvFails
    <2> QED BY <1>2, <2>1
  <1>9. CASE AppendEntry(th)
    <2>1. task[th].at = "append" /\ Go(th, "wait")
      BY <1>9 DEF AppendEntry
    <2> QED BY <1>1, <2>1 DEF Stages, Carrying
  <1>10. CASE Applied(th) \/ WaitFails(th)
    BY <1>2, <1>10 DEF Applied, WaitFails
  <1> QED BY <1>3, <1>4, <1>5, <1>6, <1>7, <1>8, <1>9, <1>10 DEF Step

\* A call that was made is under way or has returned.
LEMMA ReturnCalled ==
  ASSUME TypeOK, NEW th \in Thread, NEW ok, NEW code, NEW ob,
         Return(th, ok, code, ob)
  PROVE  \A c \in Client : Called(c) => Called(c)'
  <1>1. /\ task' = [task EXCEPT ![th] = Idle]
        /\ th \in Client => result' = [result EXCEPT ![th] = Told(ok, code)]
        /\ th \notin Client => result' = result
    BY DEF Return
  <1>2. Told(ok, code) # Nil
    BY CommandAssumption DEF Told
  <1> QED BY <1>1, <1>2 DEF Called, TypeOK

LEMMA GoCalled ==
  ASSUME TypeOK, NEW th \in Thread, task'[th].at # "idle", UNCHANGED result,
         \A u \in Thread : u # th => task'[u] = task[u]
  PROVE  \A c \in Client : Called(c) => Called(c)'
  BY IdleType DEF Called

LEMMA StepCalled ==
  ASSUME TypeOK, Places, NEW th \in Thread, Step(th)
  PROVE  \A c \in Client : Called(c) => Called(c)'
  <1>1. ASSUME NEW stage \in Stages \ {"idle"}, Go(th, stage), UNCHANGED result
        PROVE  \A c \in Client : Called(c) => Called(c)'
    <2>1. /\ \A u \in Thread \ {th} : task'[u] = task[u]
          /\ task'[th].at = stage
      BY <1>1, GoEffect
    <2> QED BY <1>1, <2>1, GoCalled
  <1>3. CASE DoCommand(th)
    <2> DEFINE s == task[th].on
               l == leaderIp[s]
    <2>1. task[th].at = "decide" /\ s \in Server /\ l \in Server \cup {Nil}
      BY <1>3 DEF DoCommand, Places, TypeOK
    <2>2. CASE l = s
      <3>1. Go(th, "append") /\ UNCHANGED result
        BY <1>3, <2>1, <2>2, CommandAssumption DEF DoCommand
      <3> QED BY <1>1, <3>1 DEF Stages
    <2>3. CASE l # s /\ l = Nil
      <3>1. Return(th, FALSE, Unset(th), outbox)
        BY <1>3, <2>1, <2>3, CommandAssumption DEF DoCommand
      <3> QED BY <3>1, ReturnCalled
    <2>4. CASE l # s /\ l # Nil
      <3> DEFINE new == [task[th] EXCEPT !.at = "lock", !.to = l]
      <3>1. task' = [task EXCEPT ![th] = new] /\ UNCHANGED result
        BY <1>3, <2>4 DEF DoCommand
      <3>2. task[th] \in Task
        BY DEF TypeOK
      <3>3. new.at = "lock"
        BY <3>2 DEF Task
      <3> HIDE DEF new
      <3>4. task'[th] = new /\ \A u \in Thread : u # th => task'[u] = task[u]
        BY <3>1 DEF TypeOK
      <3> QED BY <3>1, <3>3, <3>4, GoCalled
    <2> QED BY <2>2, <2>3, <2>4
  <1>4. CASE LockClient(th)
    <2> DEFINE stage == IF conn[Link(th)] = 0 THEN "connect" ELSE "send"
    <2>1. Go(th, stage) /\ stage \in {"connect", "send"} /\ UNCHANGED result
      BY <1>4 DEF LockClient
    <2> HIDE DEF stage
    <2> QED BY <1>1, <2>1 DEF Stages
  <1>5. CASE UpHoldCli(th) \/ Send(th) \/ AppendEntry(th)
    BY <1>1, <1>5 DEF UpHoldCli, Send, AppendEntry, Stages
  <1>6. CASE \E ok, code, ob : Return(th, ok, code, ob)
    BY <1>6, ReturnCalled
  <1>7. CASE SendAndRecvFails(th)
    <2>1. \E ob : Return(th, FALSE, Unset(th), ob)
      BY <1>7 DEF SendAndRecvFails
    <2> QED BY <1>6, <2>1
  <1>8. CASE Recv(th)
    BY <1>6, <1>8 DEF Recv
  <1>9. CASE Applied(th) \/ WaitFails(th)
    BY <1>6, <1>9 DEF Applied, WaitFails
  <1> QED BY <1>3, <1>4, <1>5, <1>7, <1>8, <1>9 DEF Step

\* What DoCommand returns is true: each code that will be read as ok stands for
\* a command that was executed, at a client whose status is ok and in the
\* response of a worker, which does not look at the status.
LEMMA CommandsReturn ==
  ASSUME TypeOK, Places, TrueAnswers, OkMeansExecuted,
         NEW th \in Thread, task[th].at # "idle",
         NEW ok \in BOOLEAN, NEW code, NEW ob \in [Pair -> Seq(Response)],
         Return(th, ok, code, ob),
         \A p \in Pair : \A k \in DOMAIN ob[p] :
           \E j \in DOMAIN outbox[p] : ob[p][k] = outbox[p][j],
         UNCHANGED kind, executed \subseteq executed',
         (th \in Server \/ ok) /\ CodeRead(code) = "kOk"
           /\ kind[task[th].call] = "kv" => task[th].call \in executed'
  PROVE  /\ TrueAnswers'
         /\ OkMeansExecuted'
         /\ \A p \in Pair : \A k \in DOMAIN outbox'[p] :
              \/ \E j \in DOMAIN outbox[p] : outbox'[p][k] = outbox[p][j]
              \/ outbox'[p][k].call = task[th].call
  <1> DEFINE a == Answer(th, code)
  <1>0. task[th].call \in Client
    BY DEF Places
  <1>1. a.call = task[th].call /\ a.code = code
    BY DEF Answer
  <1>2. \A p \in Pair : \A k \in DOMAIN outbox'[p] :
          \/ \E j \in DOMAIN outbox[p] : outbox'[p][k] = outbox[p][j]
          \/ th \in Server /\ outbox'[p][k] = a
    <2> SUFFICES ASSUME NEW p \in Pair, NEW k \in DOMAIN outbox'[p]
                 PROVE  \/ \E j \in DOMAIN outbox[p] : outbox'[p][k] = outbox[p][j]
                        \/ th \in Server /\ outbox'[p][k] = a
      OBVIOUS
    <2>1. CASE th \in Server /\ Serves(th, p)
      <3>1. outbox'[p] = Append(ob[p], a)
        BY <2>1, ReturnEffect
      <3>2. \/ k \in DOMAIN ob[p] /\ outbox'[p][k] = ob[p][k]
            \/ outbox'[p][k] = a
        <4> HIDE DEF a
        <4>1. ob[p] \in Seq(Response)
          OBVIOUS
        <4>2. ob[p] \in Seq(Response \cup {a}) /\ a \in Response \cup {a}
          BY <4>1
        <4> QED BY <3>1, <4>2, AppendTo
      <3> QED BY <2>1, <3>2
    <2>2. CASE ~(th \in Server /\ Serves(th, p))
      <3>1. outbox'[p] = ob[p]
        BY <2>2, ReturnEffect
      <3> QED BY <3>1
    <2> QED BY <2>1, <2>2
  <1> HIDE DEF a
  <1>3. TrueAnswers'
    <2> SUFFICES ASSUME NEW p \in Pair, NEW k \in DOMAIN outbox'[p],
                        CodeRead(outbox'[p][k].code) = "kOk",
                        kind'[outbox'[p][k].call] = "kv"
                 PROVE  outbox'[p][k].call \in executed'
      BY DEF TrueAnswers, CodeRead
    <2>1. CASE \E j \in DOMAIN outbox[p] : outbox'[p][k] = outbox[p][j]
      BY <2>1 DEF TrueAnswers
    <2>2. CASE th \in Server /\ outbox'[p][k] = a
      BY <1>1, <2>2
    <2> QED BY <1>2, <2>1, <2>2
  <1>4. OkMeansExecuted'
    <2> SUFFICES ASSUME NEW c \in Client, result'[c] = "ok", kind'[c] = "kv"
                 PROVE  c \in executed'
      BY DEF OkMeansExecuted
    <2>1. CASE result'[c] = result[c]
      BY <2>1 DEF OkMeansExecuted
    <2>2. CASE result'[c] # result[c]
      <3>1. c = th /\ Told(ok, code) = "ok"
        BY <2>2 DEF Return, TypeOK
      <3>2. ok /\ CodeRead(code) = "kOk"
        BY <3>1 DEF Told
      <3>3. task[th].call = c
        BY <3>1 DEF Places
      <3> QED BY <3>2, <3>3
    <2> QED BY <2>1, <2>2
  <1> QED BY <1>1, <1>2, <1>3, <1>4

\* The answers that are new come from thread th.
AnswersOf(th) ==
  \A p \in Pair : \A k \in DOMAIN outbox'[p] :
    \/ \E j \in DOMAIN outbox[p] : outbox'[p][k] = outbox[p][j]
    \/ outbox'[p][k].call = task[th].call

LEMMA UnsetIsNotOk ==
  ASSUME NEW th \in Server, kind[task[th].call] = "kv"
  PROVE  CodeRead(Unset(th)) # "kOk"
  BY DEF Unset, Preset, CodeRead

LEMMA StepAnswers ==
  ASSUME TypeOK, Places, Connections, TrueAnswers, OkMeansExecuted,
         NEW th \in Thread, Step(th)
  PROVE  TrueAnswers' /\ OkMeansExecuted' /\ AnswersOf(th)
  <1>1. ASSUME UNCHANGED <<outbox, result, kind, executed>>
        PROVE  TrueAnswers' /\ OkMeansExecuted' /\ AnswersOf(th)
    BY <1>1 DEF TrueAnswers, OkMeansExecuted, AnswersOf, CodeRead
  <1>2. CASE DoCommand(th)
    <2> DEFINE s == task[th].on
               l == leaderIp[s]
    <2>1. /\ task[th].at = "decide" /\ s \in Server /\ l \in Server \cup {Nil}
          /\ UNCHANGED <<kind, executed>>
      BY <1>2 DEF DoCommand, Places, TypeOK, entryVars
    <2>2. CASE l = s
      <3>1. UNCHANGED <<result, outbox>>
        BY <1>2, <2>1, <2>2, CommandAssumption DEF DoCommand
      <3> QED BY <1>1, <2>1, <3>1
    <2>3. CASE l # s /\ l = Nil
      <3>1. Return(th, FALSE, Unset(th), outbox)
        BY <1>2, <2>1, <2>3, CommandAssumption DEF DoCommand
      <3>2. outbox \in [Pair -> Seq(Response)]
        BY DEF TypeOK
      <3> QED BY <2>1, <3>1, <3>2, UnsetIsNotOk, CommandsReturn DEF AnswersOf
    <2>4. CASE l # s /\ l # Nil
      <3>1. UNCHANGED <<result, outbox>>
        BY <1>2, <2>4 DEF DoCommand
      <3> QED BY <1>1, <2>1, <3>1
    <2> QED BY <2>2, <2>3, <2>4
  <1>3. CASE LockClient(th) \/ UpHoldCli(th) \/ Send(th) \/ AppendEntry(th)
    BY <1>1, <1>3 DEF LockClient, UpHoldCli, Send, AppendEntry, entryVars, poolVars
  <1>4. CASE Recv(th)
    <2> DEFINE p  == Link(th)
               ob == [outbox EXCEPT ![p] = Tail(outbox[p])]
               code == Head(outbox[p]).code
    <2>1. /\ task[th].at = "recv" /\ p \in Pair /\ outbox[p] # <<>>
          /\ UNCHANGED <<kind, executed>>
          /\ Return(th, TRUE, code, ob)
      BY <1>4 DEF Recv, Places, entryVars
    <2>2. outbox[p] \in Seq(Response) /\ Tail(outbox[p]) \in Seq(Response)
      BY <2>1 DEF TypeOK
    <2>3. /\ 1 \in DOMAIN outbox[p] /\ Head(outbox[p]) = outbox[p][1]
          /\ \A k \in DOMAIN Tail(outbox[p]) :
               \E j \in DOMAIN outbox[p] : Tail(outbox[p])[k] = outbox[p][j]
      BY <2>1, <2>2, TailOf
    <2>4. ob \in [Pair -> Seq(Response)]
      BY <2>1, <2>2 DEF TypeOK
    <2>5. \A q \in Pair : \A k \in DOMAIN ob[q] :
            \E j \in DOMAIN outbox[q] : ob[q][k] = outbox[q][j]
      BY <2>1, <2>3 DEF TypeOK
    <2>6. CodeRead(code) = "kOk" /\ kind[task[th].call] = "kv" =>
            task[th].call \in executed
      <3>1. outbox[p][1].call = task[th].call
        <4>1. mu[p] = th
          BY <2>1 DEF Connections, MutexHeld, Linked
        <4> QED BY <2>1, <2>3, <4>1 DEF Connections, ResponsesAwaited, Awaits
      <3> QED BY <2>1, <2>3, <3>1 DEF TrueAnswers
    <2> HIDE DEF ob, code, p
    <2> QED BY <2>1, <2>4, <2>5, <2>6, CommandsReturn DEF AnswersOf
  <1>5. CASE SendAndRecvFails(th)
    <2> DEFINE p  == Link(th)
               ob == [outbox EXCEPT ![p] = <<>>]
    <2>1. /\ task[th].at # "idle" /\ p \in Pair
          /\ UNCHANGED <<kind, executed>>
          /\ Return(th, FALSE, Unset(th), ob)
      BY <1>5 DEF SendAndRecvFails, Places, Closed, entryVars
    <2>2. ob \in [Pair -> Seq(Response)]
      BY <2>1 DEF TypeOK
    <2>3. \A q \in Pair : \A k \in DOMAIN ob[q] :
            \E j \in DOMAIN outbox[q] : ob[q][k] = outbox[q][j]
      BY <2>1 DEF TypeOK
    <2> HIDE DEF ob, p
    <2>4. \/ ~(th \in Server)
          \/ ~(CodeRead(Unset(th)) = "kOk" /\ kind[task[th].call] = "kv")
      BY UnsetIsNotOk
    <2> QED BY <2>1, <2>2, <2>3, <2>4, CommandsReturn DEF AnswersOf
  <1>6. CASE Applied(th)
    <2>1. /\ task[th].at # "idle"
          /\ Return(th, TRUE, "kOk", outbox)
          /\ executed' = executed \cup {task[th].call}
          /\ UNCHANGED kind
          /\ outbox \in [Pair -> Seq(Response)]
      BY <1>6 DEF Applied, TypeOK
    <2> QED BY <2>1, CommandsReturn DEF AnswersOf
  <1>7. CASE WaitFails(th)
    <2>1. /\ task[th].at # "idle"
          /\ Return(th, FALSE, "kError", outbox)
          /\ UNCHANGED <<kind, executed>>
          /\ outbox \in [Pair -> Seq(Response)]
          /\ CodeRead("kError") # "kOk"
      BY <1>7 DEF WaitFails, TypeOK, entryVars, CodeRead
    <2> QED BY <2>1, CommandsReturn DEF AnswersOf
  <1> QED BY <1>2, <1>3, <1>4, <1>5, <1>6, <1>7 DEF Step

\* Requests come from Send alone, entries from AppendEntry.
LEMMA StepQueues ==
  ASSUME NEW th, Step(th)
  PROVE  /\ inbox' = inbox \/ Send(th)
         /\ appended' = appended \/ AppendEntry(th)
         /\ ~(Send(th) /\ AppendEntry(th))
  <1>1. DoCommand(th) => UNCHANGED <<inbox, appended>>
    BY DEF DoCommand, entryVars
  <1>2. LockClient(th) \/ UpHoldCli(th) => UNCHANGED <<inbox, appended>>
    BY DEF LockClient, UpHoldCli, entryVars
  <1>3. Send(th) => appended' = appended /\ task[th].at = "send"
    BY DEF Send, entryVars
  <1>4. Recv(th) \/ SendAndRecvFails(th) => UNCHANGED <<inbox, appended>>
    BY DEF Recv, SendAndRecvFails, entryVars
  <1>5. AppendEntry(th) => inbox' = inbox /\ task[th].at = "append"
    BY DEF AppendEntry, poolVars
  <1>6. Applied(th) \/ WaitFails(th) => UNCHANGED <<inbox, appended>>
    BY DEF Applied, WaitFails, entryVars
  <1> QED BY <1>1, <1>2, <1>3, <1>4, <1>5, <1>6 DEF Step

\* What Send puts on the link.
LEMMA SendEffect ==
  ASSUME TypeOK, Places, NEW th \in Thread, Send(th)
  PROVE  \E p \in Pair, n \in Nat :
           /\ \A q \in Pair : q # p => inbox'[q] = inbox[q]
           /\ DOMAIN inbox'[p] = DOMAIN inbox[p] \cup {n}
           /\ n \notin DOMAIN inbox[p]
           /\ \A k \in DOMAIN inbox[p] : inbox'[p][k] = inbox[p][k]
           /\ inbox'[p][n].call = task[th].call
           /\ task[th].at = "send"
           /\ task'[th].at = "recv"
           /\ UNCHANGED <<appended, outbox>>
  <1> DEFINE p == Link(th)
             r == [call |-> task[th].call, num |-> conn[p]]
  <1>1. /\ task[th].at = "send"
        /\ p \in Pair
        /\ inbox' = [inbox EXCEPT ![p] = Append(inbox[p], r)]
        /\ Go(th, "recv")
        /\ UNCHANGED <<appended, outbox>>
    BY DEF Send, Places, entryVars
  <1>2. r \in Request /\ r.call = task[th].call
    BY <1>1 DEF TypeOK, Places, Request
  <1>3. task'[th].at = "recv"
    BY <1>1, GoEffect DEF Stages
  <1> HIDE DEF r
  <1>4. /\ inbox[p] \in Seq(Request)
        /\ inbox'[p] = Append(inbox[p], r)
        /\ \A q \in Pair : q # p => inbox'[q] = inbox[q]
    BY <1>1 DEF TypeOK
  <1>5. /\ DOMAIN inbox'[p] = DOMAIN inbox[p] \cup {Len(inbox[p]) + 1}
        /\ Len(inbox[p]) + 1 \notin DOMAIN inbox[p]
        /\ \A k \in DOMAIN inbox[p] : inbox'[p][k] = inbox[p][k]
        /\ inbox'[p][Len(inbox[p]) + 1] = r
    BY <1>2, <1>4, AppendTo
  <1> QED BY <1>1, <1>2, <1>3, <1>4, <1>5

LEMMA KnownStep ==
  ASSUME TypeOK, Places, Known, NEW th \in Thread, Step(th), AnswersOf(th)
  PROVE  Known'
  <1>1. /\ \A c \in Client : Called(c) => Called(c)'
        /\ \A u \in Thread : task'[u].at # "idle" =>
             task[u].at # "idle" /\ task'[u].call = task[u].call
    BY StepCalled, StepFrame
  <1>0. task[th].at # "idle"
    BY DEF Step, DoCommand, LockClient, UpHoldCli, Send, Recv,
           SendAndRecvFails, AppendEntry, Applied, WaitFails
  <1>2. task[th].call \in Client /\ Called(task[th].call)
    BY <1>0 DEF Known, Places
  <1>3. \A u \in Thread : task'[u].at # "idle" => Called(task[u].call)'
    <2> SUFFICES ASSUME NEW u \in Thread, task'[u].at # "idle"
                 PROVE  Called(task[u].call)'
      OBVIOUS
    <2>1. /\ task[u].at # "idle" /\ task'[u].call = task[u].call
          /\ task[u].call \in Client /\ Called(task[u].call)
      BY <1>1 DEF Known, Places
    <2> QED BY <1>1, <2>1 DEF Called
  <1>4. \A p \in Pair : \A k \in DOMAIN inbox'[p] : Called(inbox[p][k].call)'
    <2> SUFFICES ASSUME NEW p \in Pair, NEW k \in DOMAIN inbox'[p]
                 PROVE  Called(inbox[p][k].call)'
      OBVIOUS
    <2>1. \/ k \in DOMAIN inbox[p] /\ inbox'[p][k] = inbox[p][k]
          \/ inbox'[p][k].call = task[th].call
      BY StepQueues, SendEffect
    <2>2. \A j \in DOMAIN inbox[p] : inbox[p][j].call \in Client
      BY QueuedTypes DEF Request
    <2>3. inbox'[p][k].call \in Client /\ Called(inbox'[p][k].call)
      BY <1>2, <2>1, <2>2 DEF Known
    <2> QED BY <1>1, <2>3 DEF Called
  <1>5. \A p \in Pair : \A k \in DOMAIN outbox'[p] : Called(outbox[p][k].call)'
    <2> SUFFICES ASSUME NEW p \in Pair, NEW k \in DOMAIN outbox'[p]
                 PROVE  Called(outbox[p][k].call)'
      OBVIOUS
    <2>1. \A j \in DOMAIN outbox[p] : outbox[p][j].call \in Client
      BY QueuedTypes DEF Response
    <2>2. outbox'[p][k].call \in Client /\ Called(outbox'[p][k].call)
      BY <1>2, <2>1 DEF Known, AnswersOf
    <2> QED BY <1>1, <2>2 DEF Called
  <1>6. \A c \in Client : appended'[c] # 0 => Called(c)'
    <2> SUFFICES ASSUME NEW c \in Client, appended'[c] # 0 PROVE Called(c)'
      OBVIOUS
    <2>1. appended[c] # 0 \/ c = task[th].call
      BY StepQueues DEF AppendEntry, TypeOK
    <2> QED BY <1>1, <1>2, <2>1 DEF Known
  <1> QED BY <1>3, <1>4, <1>5, <1>6 DEF Known

LEMMA CarrierStep ==
  ASSUME TypeOK, Places, OneCarrier, NEW th \in Thread, Step(th)
  PROVE  OneCarrier'
  <1> SUFFICES ASSUME NEW c \in Client
               PROVE
      /\ appended'[c] <= 1
      /\ \A t \in Thread : Carries(t, c)' =>
           /\ appended'[c] = 0
           /\ \A u \in Thread : Carries(u, c)' => u = t
           /\ \A p \in Pair : \A k \in DOMAIN inbox'[p] : inbox'[p][k].call # c
      /\ \A p \in Pair : \A k \in DOMAIN inbox'[p] : inbox'[p][k].call = c =>
           /\ appended'[c] = 0
           /\ \A q \in Pair : \A j \in DOMAIN inbox'[q] :
                inbox'[q][j].call = c => q = p /\ j = k
    BY DEF OneCarrier
  <1>1. \A u \in Thread : Carries(u, c)' => Carries(u, c)
    BY StepFrame DEF Carries, Carrying
  <1>2. CASE UNCHANGED <<inbox, appended>>
    BY <1>1, <1>2 DEF OneCarrier
  <1>3. CASE Send(th)
    <2>1. PICK p \in Pair, n \in Nat :
            /\ \A q \in Pair : q # p => inbox'[q] = inbox[q]
            /\ DOMAIN inbox'[p] = DOMAIN inbox[p] \cup {n}
            /\ n \notin DOMAIN inbox[p]
            /\ \A k \in DOMAIN inbox[p] : inbox'[p][k] = inbox[p][k]
            /\ inbox'[p][n].call = task[th].call
            /\ task[th].at = "send"
            /\ task'[th].at = "recv"
            /\ UNCHANGED <<appended, outbox>>
      BY <1>3, SendEffect
    <2>2. ~Carries(th, c)'
      BY <2>1 DEF Carries, Carrying
    <2>3. Carries(th, task[th].call)
      BY <2>1 DEF Carries, Carrying
    <2>4. CASE task[th].call = c
      <3>1. /\ appended[c] = 0
            /\ \A u \in Thread : Carries(u, c) => u = th
            /\ \A q \in Pair : \A k \in DOMAIN inbox[q] : inbox[q][k].call # c
        BY <2>3, <2>4 DEF OneCarrier
      <3>2. \A q \in Pair : \A k \in DOMAIN inbox'[q] :
              inbox'[q][k].call = c => q = p /\ k = n
        BY <2>1, <3>1
      <3>3. \A u \in Thread : ~Carries(u, c)'
        BY <1>1, <2>2, <3>1
      <3> QED BY <2>1, <3>1, <3>2, <3>3
    <2>5. CASE task[th].call # c
      <3>1. \A q \in Pair : \A k \in DOMAIN inbox'[q] : inbox'[q][k].call = c =>
              k \in DOMAIN inbox[q] /\ inbox[q][k].call = c
        BY <2>1, <2>5
      <3> QED BY <1>1, <2>1, <3>1 DEF OneCarrier
    <2> QED BY <2>4, <2>5
  <1>4. CASE AppendEntry(th)
    <2>1. /\ task[th].at = "append"
          /\ task[th].call \in Client
          /\ appended' = [appended EXCEPT ![task[th].call] = @ + 1]
          /\ Go(th, "wait")
          /\ UNCHANGED inbox
      BY <1>4 DEF AppendEntry, poolVars, Places
    <2>2. Carries(th, task[th].call)
      BY <2>1 DEF Carries, Carrying
    <2>3. ~Carries(th, c)'
      <3>1. task'[th].at = "wait"
        BY <2>1, GoEffect DEF Stages
      <3> QED BY <3>1 DEF Carries, Carrying
    <2>4. CASE task[th].call = c
      <3>1. /\ appended[c] = 0
            /\ \A u \in Thread : Carries(u, c) => u = th
            /\ \A q \in Pair : \A k \in DOMAIN inbox[q] : inbox[q][k].call # c
        BY <2>2, <2>4 DEF OneCarrier
      <3>2. appended'[c] = 1
        BY <2>1, <2>4, <3>1 DEF TypeOK
      <3>3. \A u \in Thread : ~Carries(u, c)'
        BY <1>1, <2>3, <3>1
      <3> QED BY <2>1, <3>1, <3>2, <3>3
    <2>5. CASE task[th].call # c
      <3>1. appended'[c] = appended[c]
        BY <2>1, <2>5 DEF TypeOK
      <3> QED BY <1>1, <2>1, <3>1 DEF OneCarrier
    <2> QED BY <2>4, <2>5
  <1> QED BY <1>2, <1>3, <1>4, StepQueues

Commands == Known /\ OneCarrier /\ TrueAnswers /\ OkMeansExecuted

\* Steps that leave the commands alone.
LEMMA CommandsElsewhere ==
  ASSUME Commands,
         UNCHANGED <<task, kind, result, inbox, outbox, appended, executed>>
  PROVE  Commands'
  BY DEF Commands, Known, OneCarrier, TrueAnswers, OkMeansExecuted, Called,
     Carries, Carrying, CodeRead

LEMMA CommandsCall ==
  ASSUME TypeOK, Places, Commands,
         NEW c \in Client, NEW s \in Server, NEW k \in Kind, Call(c, s, k)
  PROVE  Commands'
  <1> DEFINE new == [Idle EXCEPT !.at = "decide", !.on = s, !.call = c]
  <1>1. /\ task' = [task EXCEPT ![c] = new]
        /\ new.at = "decide" /\ new.call = c
        /\ ~Called(c)
        /\ kind' = [kind EXCEPT ![c] = k]
        /\ UNCHANGED <<result, inbox, outbox, appended, executed>>
    BY IdleType DEF Call, Idle, poolVars, entryVars, Called
  <1> HIDE DEF new
  <1>2. /\ task'[c].at = "decide" /\ task'[c].call = c
        /\ \A u \in Thread : u # c => task'[u] = task[u]
    BY <1>1 DEF TypeOK
  <1>3. Called(c)' /\ \A d \in Client : Called(d) => Called(d)'
    BY <1>1, <1>2, IdleType DEF Called
  <1>4. /\ \A th \in Thread : task[th].at # "idle" => task[th].call # c
        /\ \A p \in Pair : \A j \in DOMAIN inbox[p] : inbox[p][j].call # c
        /\ \A p \in Pair : \A j \in DOMAIN outbox[p] : outbox[p][j].call # c
        /\ appended[c] = 0
        /\ result[c] = Nil
    BY <1>1 DEF Commands, Known, Called
  <1>5. Known'
    <2>1. \A th \in Thread : task'[th].at # "idle" => Called(task[th].call)'
      <3> SUFFICES ASSUME NEW th \in Thread, task'[th].at # "idle"
                   PROVE  Called(task[th].call)'
        OBVIOUS
      <3>1. CASE th = c
        BY <1>2, <1>3, <3>1 DEF Called
      <3>2. CASE th # c
        <4>1. task'[th] = task[th] /\ task[th].call \in Client
              /\ Called(task[th].call)
          BY <1>2, <3>2 DEF Commands, Known, Places
        <4> QED BY <1>3, <4>1 DEF Called
      <3> QED BY <3>1, <3>2
    <2>2. \A p \in Pair : \A j \in DOMAIN inbox[p] :
            inbox[p][j].call \in Client /\ Called(inbox[p][j].call)
      BY QueuedTypes DEF Request, Commands, Known
    <2>3. \A p \in Pair : \A j \in DOMAIN outbox[p] :
            outbox[p][j].call \in Client /\ Called(outbox[p][j].call)
      BY QueuedTypes DEF Response, Commands, Known
    <2>4. /\ \A p \in Pair : \A j \in DOMAIN inbox'[p] : Called(inbox[p][j].call)'
          /\ \A p \in Pair : \A j \in DOMAIN outbox'[p] : Called(outbox[p][j].call)'
      BY <1>1, <1>3, <2>2, <2>3 DEF Called
    <2>5. \A d \in Client : appended'[d] # 0 => Called(d)'
      BY <1>1, <1>3 DEF Commands, Known
    <2> QED BY <2>1, <2>4, <2>5 DEF Known
  <1>6. OneCarrier'
    <2>1. /\ \A u \in Thread, d \in Client : d # c => (Carries(u, d)' <=> Carries(u, d))
          /\ \A u \in Thread : Carries(u, c)' => u = c
      <3> SUFFICES ASSUME NEW u \in Thread
                   PROVE  /\ \A d \in Client : d # c => (Carries(u, d)' <=> Carries(u, d))
                          /\ Carries(u, c)' => u = c
        OBVIOUS
      <3>1. CASE u = c
        <4>1. task[c].at = "idle"
          BY <1>1, IdleType DEF Called
        <4> QED BY <1>2, <3>1, <4>1 DEF Carries, Carrying
      <3>2. CASE u # c
        BY <1>2, <1>4, <3>2 DEF Carries, Carrying
      <3> QED BY <3>1, <3>2
    <2> QED BY <1>1, <1>4, <2>1 DEF Commands, OneCarrier
  <1>7. TrueAnswers'
    <2> SUFFICES ASSUME NEW p \in Pair, NEW j \in DOMAIN outbox[p],
                        CodeRead(outbox[p][j].code) = "kOk",
                        kind'[outbox[p][j].call] = "kv"
                 PROVE  outbox[p][j].call \in executed
      BY <1>1 DEF TrueAnswers, CodeRead
    <2>1. outbox[p][j].call \in Client
      BY QueuedTypes DEF Response
    <2>2. kind'[outbox[p][j].call] = kind[outbox[p][j].call]
      BY <1>1, <1>4, <2>1 DEF TypeOK
    <2> QED BY <2>2 DEF Commands, TrueAnswers
  <1>8. OkMeansExecuted'
    BY <1>1, <1>4, CommandAssumption DEF Commands, OkMeansExecuted, TypeOK
  <1> QED BY <1>5, <1>6, <1>7, <1>8 DEF Commands

\* A request leaves the queue of its link: it goes to the worker, or is lost.
LEMMA CommandsDequeue ==
  ASSUME TypeOK, Places, Commands, NEW p \in Pair, DealMessage(p) \/ LoseRequest(p)
  PROVE  Commands'
  <1> DEFINE s == p[2]
             c == inbox[p][1].call
  <1>1. /\ inbox[p] \in Seq(Request) /\ inbox[p] # <<>>
        /\ inbox' = [inbox EXCEPT ![p] = Tail(inbox[p])]
        /\ UNCHANGED <<kind, result, outbox, appended, executed>>
    BY DEF DealMessage, LoseRequest, entryVars, TypeOK
  <1>2. /\ 1 \in DOMAIN inbox[p] /\ Head(inbox[p]) = inbox[p][1]
        /\ inbox'[p] = Tail(inbox[p])
        /\ \A k \in DOMAIN inbox'[p] : /\ k + 1 \in DOMAIN inbox[p]
                                       /\ k \in Nat \ {0}
                                       /\ inbox'[p][k] = inbox[p][k + 1]
        /\ \A q \in Pair : q # p => inbox'[q] = inbox[q]
    BY <1>1, TailOf DEF TypeOK
  <1>3. s \in Server /\ c \in Client /\ Called(c)
    <2>1. s \in Server
      BY DEF Pair
    <2> QED BY <1>2, <2>1, QueuedTypes DEF Request, Commands, Known
  <1>4. /\ \A u \in Thread : u # s => task'[u] = task[u]
        /\ task'[s] = task[s] \/ /\ task[s] = Idle
                                 /\ task'[s].at = "decide"
                                 /\ task'[s].call = c
    <2>1. CASE LoseRequest(p)
      BY <2>1 DEF LoseRequest
    <2>2. CASE DealMessage(p)
      BY <1>2, <1>3, <2>2 DEF DealMessage, TypeOK
    <2> QED BY <2>1, <2>2
  <1> HIDE DEF s, c
  <1>5. \A d \in Client : Called(d) => Called(d)'
    <2>1. s \notin Client
      BY <1>3, CommandAssumption
    <2> QED BY <1>1, <1>4, <2>1 DEF Called
  <1>6. \A q \in Pair : \A k \in DOMAIN inbox'[q] :
          \E j \in DOMAIN inbox[q] : /\ inbox'[q][k] = inbox[q][j]
                                     /\ ~(q = p /\ j = 1)
                                     /\ j = IF q = p THEN k + 1 ELSE k
    <2> SUFFICES ASSUME NEW q \in Pair, NEW k \in DOMAIN inbox'[q]
                 PROVE  \E j \in DOMAIN inbox[q] :
                          /\ inbox'[q][k] = inbox[q][j]
                          /\ ~(q = p /\ j = 1)
                          /\ j = IF q = p THEN k + 1 ELSE k
      OBVIOUS
    <2>1. CASE q = p
      <3>1. k + 1 # 1
        <4>1. k \in Nat \ {0}
          BY <1>2, <2>1
        <4> QED BY <4>1
      <3> QED BY <1>2, <2>1, <3>1
    <2>2. CASE q # p
      BY <1>2, <2>2
    <2> QED BY <2>1, <2>2
  <1>7. Known'
    <2>1. \A th \in Thread : task'[th].at # "idle" => Called(task[th].call)'
      <3> SUFFICES ASSUME NEW th \in Thread, task'[th].at # "idle"
                   PROVE  Called(task[th].call)'
        OBVIOUS
      <3>1. CASE task'[th] = task[th]
        <4>1. task[th].call \in Client /\ Called(task[th].call)
          BY <3>1 DEF Commands, Known, Places
        <4> QED BY <1>5, <3>1, <4>1 DEF Called
      <3>2. CASE task'[th] # task[th]
        <4>1. task'[th].call = c
          BY <1>4, <3>2
        <4> QED BY <1>3, <1>5, <4>1 DEF Called
      <3> QED BY <3>1, <3>2
    <2>2. \A q \in Pair : \A k \in DOMAIN inbox'[q] : Called(inbox[q][k].call)'
      <3> SUFFICES ASSUME NEW q \in Pair, NEW k \in DOMAIN inbox'[q]
                   PROVE  Called(inbox[q][k].call)'
        OBVIOUS
      <3>1. PICK j \in DOMAIN inbox[q] : inbox'[q][k] = inbox[q][j]
        BY <1>6
      <3>2. inbox[q][j].call \in Client /\ Called(inbox[q][j].call)
        BY QueuedTypes DEF Request, Commands, Known
      <3> QED BY <1>5, <3>1, <3>2 DEF Called
    <2>3. \A q \in Pair : \A k \in DOMAIN outbox'[q] : Called(outbox[q][k].call)'
      <3>1. \A q \in Pair : \A j \in DOMAIN outbox[q] :
              outbox[q][j].call \in Client /\ Called(outbox[q][j].call)
        BY QueuedTypes DEF Response, Commands, Known
      <3> QED BY <1>1, <1>5, <3>1 DEF Called
    <2>4. \A d \in Client : appended'[d] # 0 => Called(d)'
      BY <1>1, <1>5 DEF Commands, Known
    <2> QED BY <2>1, <2>2, <2>3, <2>4 DEF Known
  <1>8. OneCarrier'
    <2> SUFFICES ASSUME NEW d \in Client
                 PROVE
        /\ appended'[d] <= 1
        /\ \A t \in Thread : Carries(t, d)' =>
             /\ appended'[d] = 0
             /\ \A u \in Thread : Carries(u, d)' => u = t
             /\ \A q \in Pair : \A k \in DOMAIN inbox'[q] : inbox'[q][k].call # d
        /\ \A q \in Pair : \A k \in DOMAIN inbox'[q] : inbox'[q][k].call = d =>
             /\ appended'[d] = 0
             /\ \A r \in Pair : \A j \in DOMAIN inbox'[r] :
                  inbox'[r][j].call = d => r = q /\ j = k
      BY DEF OneCarrier
    <2>1. \A u \in Thread : Carries(u, d)' => Carries(u, d) \/ (u = s /\ d = c)
      BY <1>4 DEF Carries
    <2>2. \A q \in Pair : \A k \in DOMAIN inbox'[q] : inbox'[q][k].call = d =>
            /\ d # c
            /\ appended[d] = 0
            /\ \A u \in Thread : ~Carries(u, d)
      <3> SUFFICES ASSUME NEW q \in Pair, NEW k \in DOMAIN inbox'[q],
                          inbox'[q][k].call = d
                   PROVE  /\ d # c
                          /\ appended[d] = 0
                          /\ \A u \in Thread : ~Carries(u, d)
        OBVIOUS
      <3>1. PICK j \in DOMAIN inbox[q] : /\ inbox'[q][k] = inbox[q][j]
                                         /\ ~(q = p /\ j = 1)
        BY <1>6
      <3>2. d # c
        <4>1. inbox[q][j].call = d
          BY <3>1
        <4>2. inbox[p][1].call = d => q = p /\ j = 1
          BY <1>2, <4>1 DEF Commands, OneCarrier
        <4> QED BY <3>1, <4>2 DEF c
      <3> QED BY <3>1, <3>2 DEF Commands, OneCarrier
    <2>3. ASSUME NEW q \in Pair, NEW k \in DOMAIN inbox'[q],
                 inbox'[q][k].call = d,
                 NEW r \in Pair, NEW j \in DOMAIN inbox'[r],
                 inbox'[r][j].call = d
          PROVE  r = q /\ j = k
      <3>1. PICK k1 \in DOMAIN inbox[q] : /\ inbox'[q][k] = inbox[q][k1]
                                          /\ k1 = IF q = p THEN k + 1 ELSE k
        BY <1>6
      <3>2. PICK j1 \in DOMAIN inbox[r] : /\ inbox'[r][j] = inbox[r][j1]
                                          /\ j1 = IF r = p THEN j + 1 ELSE j
        BY <1>6
      <3>3. r = q /\ j1 = k1
        BY <2>3, <3>1, <3>2 DEF Commands, OneCarrier
      <3>4. q = p => k \in Nat /\ j \in Nat
        BY <1>2, <3>3
      <3> QED BY <3>1, <3>2, <3>3, <3>4
    <2>4. /\ appended[d] <= 1
          /\ d = c => appended[d] = 0 /\ \A u \in Thread : ~Carries(u, d)
      BY <1>2 DEF Commands, OneCarrier, c
    <2>5. \A t, u \in Thread : Carries(t, d)' /\ Carries(u, d)' => u = t
      BY <2>1, <2>4 DEF Commands, OneCarrier
    <2>6. \A t \in Thread : Carries(t, d)' => appended[d] = 0
      BY <2>1, <2>4 DEF Commands, OneCarrier
    <2> QED BY <1>1, <2>1, <2>2, <2>3, <2>4, <2>5, <2>6
  <1>9. TrueAnswers' /\ OkMeansExecuted'
    BY <1>1 DEF Commands, TrueAnswers, OkMeansExecuted, CodeRead
  <1> QED BY <1>7, <1>8, <1>9 DEF Commands

LEMMA CommandsStep ==
  TypeOK /\ Places /\ Connections /\ Commands /\ [Next]_vars => Commands'
  <1> SUFFICES ASSUME TypeOK, Places, Connections, Commands, [Next]_vars
               PROVE  Commands'
    OBVIOUS
  <1>1. CASE UNCHANGED vars
    BY <1>1, CommandsElsewhere DEF vars, poolVars, entryVars
  <1>2. CASE View
    BY <1>2, CommandsElsewhere
       DEF View, BecomeLeader, Follow, ForgetLeader, poolVars, entryVars
  <1>3. ASSUME NEW th \in Thread, NEW s \in Server, Replicate(th, s)
        PROVE  Commands'
    BY <1>3, CommandsElsewhere DEF Replicate, poolVars
  <1>4. ASSUME NEW th \in Thread, Step(th)
        PROVE  Commands'
    <2>1. TrueAnswers' /\ OkMeansExecuted' /\ AnswersOf(th)
      BY <1>4, StepAnswers DEF Commands
    <2>2. Known' /\ OneCarrier'
      BY <1>4, <2>1, KnownStep, CarrierStep DEF Commands
    <2> QED BY <2>1, <2>2 DEF Commands
  <1> QED BY <1>1, <1>2, <1>3, <1>4, CommandsCall, CommandsDequeue DEF Next, View

LEMMA CommandsAlways == Spec => []Commands
  <1>1. Init => Commands
    BY CommandsInit DEF Commands
  <1> QED BY <1>1, TypedInit, TypedStep, ConnectionsInit, ConnectionsStep,
             CommandsStep, PTL DEF Spec

\* A command is in the log at most once: DoCommand hands it from thread to
\* request to worker, and whoever times out on the way has let go of it.
THEOREM AppendedAtMostOnce == Spec => []AtMostOnce
  <1>1. Commands => AtMostOnce
    BY DEF Commands, OneCarrier, AtMostOnce
  <1> QED BY <1>1, CommandsAlways, PTL

\* A client that was told ok had its kv or lock command executed, through any
\* chain of redirections, timeouts and changes of the leader.
THEOREM OkIsTrue == Spec => []OkMeansExecuted
  <1>1. Commands => OkMeansExecuted
    BY DEF Commands
  <1> QED BY <1>1, CommandsAlways, PTL

=============================================================================
