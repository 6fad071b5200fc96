----------------------------- MODULE FloydCommand -----------------------------
(***************************************************************************)
(* A command from the call of a client thread to its answer: DoCommand on  *)
(* the server it was called on, the redirection to the leader through      *)
(* ClientPool, the worker thread there, ExecuteCommand, and the way back.  *)
(*                                                                         *)
(*   pool      one connection for every server and target, with a mutex    *)
(*             that is held from Connect to the end of Recv; the peer      *)
(*             threads use the same connections                            *)
(*   worker    one thread for every server: it serves one request at a     *)
(*             time and runs DoCommand itself, so that it redirects too,   *)
(*             and answers no AppendEntries meanwhile                      *)
(*   timeouts  Recv and the wait of ExecuteCommand give up at any time     *)
(*                                                                         *)
(* Who leads is known to the servers with delay: leaders follow each other *)
(* in increasing terms (FloydRaft), and a server that has led knows of no  *)
(* earlier term.                                                           *)
(***************************************************************************)
EXTENDS Naturals, Sequences, FiniteSets

CONSTANTS
  Server,      \* the servers; a server stands for its worker thread too
  Client,      \* client threads, each making one call
  Kind,        \* "kv": Write, Read, Delete, TryLock, UnLock;
               \* "member": AddServer, RemoveServer, GetAllServers
  Nil,         \* nobody, nothing
  MaxReigns    \* bound: number of elections

ASSUME CommandAssumption ==
  /\ IsFiniteSet(Server)
  /\ Server \cap Client = {}
  /\ Nil \notin Server \cup Client \cup {"ok", "error"}
  /\ Kind \subseteq {"kv", "member"}
  /\ MaxReigns \in Nat

Thread == Client \cup Server
Pair == {p \in Server \X Server : p[1] # p[2]}

VARIABLES
  reigns,      \* the leaders so far, one for each term
  term,        \* the term each server knows of
  leaderIp,    \* the leader each server knows of: FloydContext::leader_ip
  task,        \* what every thread is doing
  kind,        \* the kind of each client's command
  result,      \* what each client was told
  mu,          \* Client::mu, by server and target: who holds it
  conn,        \* the connection: its number, 0 when closed
  inbox,       \* requests that the target has not read
  outbox,      \* answers that the sender has not read
  appended,    \* how many entries a command has in the log
  acks,        \* the servers that have its entry
  executed     \* the commands whose entry was seen applied

viewVars   == <<reigns, term, leaderIp>>
poolVars   == <<mu, conn, inbox, outbox>>
entryVars  == <<appended, acks, executed>>
vars == <<viewVars, task, kind, result, poolVars, entryVars>>

-----------------------------------------------------------------------------
(* Threads *)

\* on: the server the thread runs on; call: the client whose command it is;
\* to: where it is redirected; back: for a worker, the connection to answer.
Idle == [at |-> "idle", on |-> Nil, call |-> Nil, to |-> Nil,
         back |-> Nil, num |-> 0]

Stages == {"idle", "decide", "lock", "connect", "send", "recv", "append", "wait"}

Task == [at : Stages, on : Server \cup {Nil}, call : Client \cup {Nil},
         to : Server \cup {Nil}, back : Pair \cup {Nil}, num : Nat]

\* A request on a connection, and an answer.
Request  == [call : Client, num : Nat]
Response == [call : Client, code : {"unset", "kOk", "kError"}]

Link(th) == <<task[th].on, task[th].to>>
Go(th, stage) == task' = [task EXCEPT ![th].at = stage]

\* Mutant: the worker leaves the code of every response to DoCommand.
PresetNone(k) == "unset"

\* DealMessage: the code the response has before DoCommand is called.
Preset(k) == IF k = "kv" THEN "kError" ELSE "unset"

\* CmdResponse::code() of a response without a code is the first value, kOk.
CodeRead(code) == IF code = "unset" THEN "kOk" ELSE code

\* The end of the calls Write, Read, AddServer...
Told(ok, code) == IF ok /\ CodeRead(code) = "kOk" THEN "ok" ELSE "error"

\* DoCommand returns to th with a status and a response.  A client is told; a
\* worker does not look at the status and sends the response, which nobody
\* gets if the connection was closed meanwhile.  ob: the answers on their way.
Return(th, ok, code, ob) ==
  LET t == task[th] IN
  /\ task' = [task EXCEPT ![th] = Idle]
  /\ result' = IF th \in Client THEN [result EXCEPT ![th] = Told(ok, code)]
                                ELSE result
  /\ outbox' = IF th \in Server /\ conn[t.back] = t.num
               THEN [ob EXCEPT ![t.back] = Append(@, [call |-> t.call,
                                                      code |-> code])]
               ELSE ob

\* The code of the response when DoCommand has not set one.
Unset(th) == IF th \in Server THEN Preset(kind[task[th].call]) ELSE "unset"

-----------------------------------------------------------------------------
(* Calls, and FloydImpl::DoCommand *)

Call(c, s, k) ==
  /\ task[c] = Idle
  /\ result[c] = Nil
  /\ kind' = [kind EXCEPT ![c] = k]
  /\ task' = [task EXCEPT ![c] = [Idle EXCEPT !.at = "decide", !.on = s,
                                              !.call = c]]
  /\ UNCHANGED <<viewVars, result, poolVars, entryVars>>

\* DealMessage: the worker reads the next request of one of its connections,
\* also of one that was closed after the request was sent.
DealMessage(p) ==
  LET s == p[2] IN
  /\ task[s] = Idle
  /\ inbox[p] # <<>>
  /\ inbox' = [inbox EXCEPT ![p] = Tail(@)]
  /\ task' = [task EXCEPT ![s] =
                [at |-> "decide", on |-> s, call |-> Head(inbox[p]).call,
                 to |-> Nil, back |-> p, num |-> Head(inbox[p]).num]]
  /\ UNCHANGED <<viewVars, kind, result, mu, conn, outbox, entryVars>>

\* Execute here, redirect, or give up: by the leader known at this moment.
DoCommand(th) ==
  LET s == task[th].on
      l == leaderIp[s]
  IN
  /\ task[th].at = "decide"
  /\ CASE l = s -> Go(th, "append") /\ UNCHANGED <<result, outbox>>
       [] l = Nil -> Return(th, FALSE, Unset(th), outbox)
       [] OTHER -> /\ task' = [task EXCEPT ![th].at = "lock", ![th].to = l]
                   /\ UNCHANGED <<result, outbox>>
  /\ UNCHANGED <<viewVars, kind, mu, conn, inbox, entryVars>>

-----------------------------------------------------------------------------
(* ClientPool::SendAndRecv *)

LockClient(th) ==
  /\ task[th].at = "lock"
  /\ mu[Link(th)] = Nil
  /\ mu' = [mu EXCEPT ![Link(th)] = th]
  /\ Go(th, IF conn[Link(th)] = 0 THEN "connect" ELSE "send")
  /\ UNCHANGED <<viewVars, kind, result, conn, inbox, outbox, entryVars>>

\* A number that nothing under way on this link refers to.
NewNumber(p) ==
  LET used == {inbox[p][k].num : k \in DOMAIN inbox[p]} \cup
              {task[s].num : s \in {w \in Server : task[w].back = p}}
  IN CHOOSE n \in 1 .. Cardinality(used) + 1 : n \notin used

\* UpHoldCli opens a new connection.
UpHoldCli(th) ==
  /\ task[th].at = "connect"
  /\ conn' = [conn EXCEPT ![Link(th)] = NewNumber(Link(th))]
  /\ Go(th, "send")
  /\ UNCHANGED <<viewVars, kind, result, mu, inbox, outbox, entryVars>>

Send(th) ==
  /\ task[th].at = "send"
  /\ inbox' = [inbox EXCEPT ![Link(th)] =
                 Append(@, [call |-> task[th].call, num |-> conn[Link(th)]])]
  /\ Go(th, "recv")
  /\ UNCHANGED <<viewVars, kind, result, mu, conn, outbox, entryVars>>

\* Mutant: only an answer frees the connection.
ReleasedByAnswer(p) == mu[p]

\* MutexLock l(&client->mu) ends when SendAndRecv returns with an error.
Released(p) == Nil

\* Any response that comes is taken for the answer.
Recv(th) ==
  LET p == Link(th) IN
  /\ task[th].at = "recv"
  /\ outbox[p] # <<>>
  /\ mu' = [mu EXCEPT ![p] = Nil]
  /\ Return(th, TRUE, Head(outbox[p]).code, [outbox EXCEPT ![p] = Tail(@)])
  /\ UNCHANGED <<viewVars, kind, conn, inbox, entryVars>>

\* Mutant: the connection is kept.
ClosedKept(p) == conn[p]

\* cli->Close() after a failure.
Closed(p) == 0

\* Mutant: a request without an answer is sent again.
SendAndRecvAgain(th) ==
  LET p == Link(th) IN
  /\ task[th].at = "recv"
  /\ conn' = [conn EXCEPT ![p] = 0]
  /\ outbox' = [outbox EXCEPT ![p] = <<>>]
  /\ Go(th, "connect")
  /\ UNCHANGED <<viewVars, kind, result, mu, inbox, entryVars>>

\* Connect, Send or Recv fails or times out.  Nothing is tried again.
SendAndRecvFails(th) ==
  LET p == Link(th) IN
  /\ task[th].at \in {"connect", "send", "recv"}
  /\ mu' = [mu EXCEPT ![p] = Released(p)]
  /\ conn' = [conn EXCEPT ![p] = Closed(p)]
  /\ Return(th, FALSE, Unset(th),
            IF Closed(p) = 0 THEN [outbox EXCEPT ![p] = <<>>] ELSE outbox)
  /\ UNCHANGED <<viewVars, kind, inbox, entryVars>>

\* What was sent on a connection that is closed now may be lost.
LoseRequest(p) ==
  /\ inbox[p] # <<>>
  /\ Head(inbox[p]).num # conn[p]
  /\ inbox' = [inbox EXCEPT ![p] = Tail(@)]
  /\ UNCHANGED <<viewVars, task, kind, result, mu, conn, outbox, entryVars>>

-----------------------------------------------------------------------------
(* FloydImpl::ExecuteCommand *)

\* Mutant: the entry counts for the leader known by now.
StoredAtLeader(s) == {leaderIp[s]}

\* The servers that have an entry appended at s.
StoredAt(s) == {s}

\* The entry is appended whether or not the server still leads.
AppendEntry(th) ==
  LET c == task[th].call IN
  /\ task[th].at = "append"
  /\ appended' = [appended EXCEPT ![c] = @ + 1]
  /\ acks' = [acks EXCEPT ![c] = StoredAt(task[th].on)]
  /\ Go(th, "wait")
  /\ UNCHANGED <<viewVars, kind, result, poolVars, executed>>

\* The peer thread gets the entry to server s: this takes the connection to s
\* and its worker, for as long as the call lasts, which is one step.
Replicate(th, s) ==
  LET c == task[th].call IN
  /\ task[th].at = "wait"
  /\ s \notin acks[c]
  /\ mu[<<task[th].on, s>>] = Nil
  /\ task[s] = Idle
  /\ acks' = [acks EXCEPT ![c] = @ \cup {s}]
  /\ UNCHANGED <<viewVars, task, kind, result, poolVars, appended, executed>>

\* The entry is on a majority and was applied before the wait ended.
Applied(th) ==
  LET c == task[th].call IN
  /\ task[th].at = "wait"
  /\ 2 * Cardinality(acks[c]) > Cardinality(Server)
  /\ executed' = executed \cup {c}
  /\ Return(th, TRUE, "kOk", outbox)
  /\ UNCHANGED <<viewVars, kind, mu, conn, inbox, appended, acks>>

\* TimedWait gives up.  ExecuteCommand has set kError before.
WaitFails(th) ==
  /\ task[th].at = "wait"
  /\ Return(th, FALSE, "kError", outbox)
  /\ UNCHANGED <<viewVars, kind, mu, conn, inbox, entryVars>>

-----------------------------------------------------------------------------
(* What the servers know of the leader *)

BecomeLeader(s) ==
  /\ Len(reigns) < MaxReigns
  /\ reigns' = Append(reigns, s)
  /\ term' = [term EXCEPT ![s] = Len(reigns) + 1]
  /\ leaderIp' = [leaderIp EXCEPT ![s] = s]
  /\ UNCHANGED <<task, kind, result, poolVars, entryVars>>

\* BecomeFollower with the leader of an AppendEntries request.  Terms only
\* grow: the denial that takes a candidate's term back is left to FloydRaft.
Follow(s, n) ==
  /\ n \in DOMAIN reigns
  /\ term[s] < n
  /\ term' = [term EXCEPT ![s] = n]
  /\ leaderIp' = [leaderIp EXCEPT ![s] = reigns[n]]
  /\ UNCHANGED <<reigns, task, kind, result, poolVars, entryVars>>

\* BecomeCandidate, or BecomeFollower without a leader.
ForgetLeader(s) ==
  /\ leaderIp[s] # Nil
  /\ leaderIp' = [leaderIp EXCEPT ![s] = Nil]
  /\ UNCHANGED <<reigns, term, task, kind, result, poolVars, entryVars>>

-----------------------------------------------------------------------------

Init ==
  /\ reigns = <<>>
  /\ term = [s \in Server |-> 0]
  /\ leaderIp = [s \in Server |-> Nil]
  /\ task = [th \in Thread |-> Idle]
  /\ kind = [c \in Client |-> Nil]
  /\ result = [c \in Client |-> Nil]
  /\ mu = [p \in Pair |-> Nil]
  /\ conn = [p \in Pair |-> 0]
  /\ inbox = [p \in Pair |-> <<>>]
  /\ outbox = [p \in Pair |-> <<>>]
  /\ appended = [c \in Client |-> 0]
  /\ acks = [c \in Client |-> {}]
  /\ executed = {}

\* The steps a thread takes by itself.
Step(th) ==
  \/ DoCommand(th)
  \/ LockClient(th)
  \/ UpHoldCli(th)
  \/ Send(th)
  \/ Recv(th)
  \/ SendAndRecvFails(th)
  \/ AppendEntry(th)
  \/ Applied(th)
  \/ WaitFails(th)

Next ==
  \/ \E c \in Client, s \in Server, k \in Kind : Call(c, s, k)
  \/ \E p \in Pair : DealMessage(p) \/ LoseRequest(p)
  \/ \E th \in Thread : Step(th) \/ \E s \in Server : Replicate(th, s)
  \/ \E s \in Server : \/ BecomeLeader(s)
                       \/ \E n \in 1..MaxReigns : Follow(s, n)
                       \/ ForgetLeader(s)

\* Every thread goes on, and a wait that nobody ends is ended by its timeout.
\* Nothing is assumed of the leader, the network or the other servers.
Spec == Init /\ [][Next]_vars /\ \A th \in Thread : WF_vars(Step(th))

-----------------------------------------------------------------------------
(* Properties *)

\* The variables keep their types; only servers hold entries.
TypeOK ==
  /\ reigns \in Seq(Server)
  /\ term \in [Server -> 0..MaxReigns]
  /\ leaderIp \in [Server -> Server \cup {Nil}]
  /\ task \in [Thread -> Task]
  /\ kind \in [Client -> Kind \cup {Nil}]
  /\ result \in [Client -> {Nil, "ok", "error"}]
  /\ mu \in [Pair -> Thread \cup {Nil}]
  /\ conn \in [Pair -> Nat]
  /\ inbox \in [Pair -> Seq(Request)]
  /\ outbox \in [Pair -> Seq(Response)]
  /\ appended \in [Client -> Nat]
  /\ acks \in [Client -> SUBSET Server]
  /\ executed \subseteq Client

\* An answer that waits on a connection is for the command of the thread that
\* holds the connection: no late answer to an earlier request is ever taken
\* for the answer to this one, although answers carry nothing to tell.
AnswersAwaited ==
  \A p \in Pair : \A k \in DOMAIN outbox[p] :
    /\ mu[p] # Nil
    /\ task[mu[p]].at = "recv"
    /\ task[mu[p]].call = outbox[p][k].call

\* A command is in the log at most once, whatever timed out on its way.
AtMostOnce == \A c \in Client : appended[c] <= 1

\* A client that was told ok had its command executed, if it was one of the kv
\* or lock operations.
OkMeansExecuted ==
  \A c \in Client : result[c] = "ok" /\ kind[c] = "kv" => c \in executed

\* Every call returns, even when threads on several servers wait for each
\* other's workers and connections.
CallsReturn == \A c \in Client : task[c] # Idle ~> task[c] = Idle

\* Every worker gets back to reading requests, those of the leader included,
\* although it redirects commands itself and waits for connections to do so.
WorkersReturn == \A s \in Server : task[s] # Idle ~> task[s] = Idle

=============================================================================
