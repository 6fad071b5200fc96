------------------------------- MODULE RaftLog -------------------------------
(***************************************************************************)
(* RaftLog (raft_log.cc) down to its accesses to last_log_index_ and its   *)
(* writes to RocksDB, as the threads of one server execute them:           *)
(*                                                                         *)
(*   client threads   ExecuteCommand appends one entry, without global_mu  *)
(*   the worker       ReplyAppendEntries cuts off and appends              *)
(*   a peer thread    AppendEntriesRPC reads the last index, then entries  *)
(*                                                                         *)
(* Append, GetEntry and GetLastLogTermAndIndex hold lli_mutex_;            *)
(* TruncateSuffix and GetLastLogIndex do not.  last_log_index_ is a plain  *)
(* uint64_t, so its ++ and -- are a load and a store.  It is not stored:   *)
(* the constructor finds it in the keys, five places before the last one,  *)
(* past the five keys that RaftMeta keeps in the same database.            *)
(***************************************************************************)
EXTENDS Integers, Sequences, FiniteSets

CONSTANTS
  Client,       \* client threads, each appending one entry
  Worker,       \* the worker thread
  Nil,          \* no thread
  NoAnswer,     \* a call that has not returned
  Overlap,      \* whether a client may append while the worker cuts off
  MaxIndex,     \* bound: length of the log
  MaxBatch,     \* bound: entries of one AppendEntries request
  MaxFails,     \* bound: number of failing writes
  MaxRestarts   \* bound: number of restarts

Thread == Client \cup {Worker}

ASSUME ThreadAssumption ==
  /\ IsFiniteSet(Client)
  /\ Worker \notin Client
  /\ Nil \notin Thread
  /\ Overlap \in BOOLEAN

ASSUME LogBoundAssumption ==
  {MaxIndex, MaxBatch, MaxFails, MaxRestarts} \subseteq Nat

VARIABLES
  db,             \* the index keys of the database and their entries
  meta,           \* the keys of RaftMeta that are in the database
  boot,           \* how many of the keys RaftMeta::Init has passed
  lastLogIndex,   \* last_log_index_
  mutex,          \* lli_mutex_: the thread that holds it
  thread,         \* the call every thread is inside of
  answer,         \* what the last call of a thread returned
  reader,         \* the peer thread: the index it read, what it found there
  durable,        \* history: no truncation has failed
  moved,          \* history: an entry was cut off, or a write failed, since
                  \*   the peer thread read the last index
  fails, restarts \* how much of the bounds is used

diskVars  == <<db, meta>>
callVars  == <<lastLogIndex, mutex, thread, answer>>
faultVars == <<durable, fails, restarts>>
vars == <<diskVars, boot, callVars, reader, moved, faultVars>>

-----------------------------------------------------------------------------
(* Data *)

\* The keys of RaftMeta in the order RaftMeta::Init looks at them.  All of
\* them sort after every index key, which starts with a zero byte.
MetaKeys == <<"CURRENTTERM", "VOTEFORIP", "VOTEFORPORT", "COMMITINDEX",
              "APPLYINDEX">>

\* The bytes of a meta key, read as an index.
MetaKeyAsIndex == MaxIndex + 1

\* Where a thread is: outside, or inside Append or TruncateSuffix, between its
\* accesses to last_log_index_.  todo: entries still to be counted; from: the
\* first index to cut off; reg: the last_log_index_ it loaded; base: the one
\* it started from; put, del: its write batch.
Outside == [at |-> "outside", todo |-> 0, from |-> 0, reg |-> 0, base |-> 0,
            put |-> {}, del |-> {}]

ThreadState == [at : {"outside", "append", "counting", "truncate", "cutting"},
                todo : 0..MaxBatch, from : 0..MaxIndex, reg : Int, base : Int,
                put : SUBSET Int, del : SUBSET Int]

Idle == [at |-> "idle", index |-> 0]

Appending(t)  == thread[t].at \in {"append", "counting"}
Truncating(t) == thread[t].at \in {"truncate", "cutting"}
Running == boot = Len(MetaKeys)

-----------------------------------------------------------------------------
(* RaftLog::Append *)

\* Append takes lli_mutex_.  A client calls it once, the worker for every
\* request with entries.
AppendBegin(t, n) ==
  /\ Running
  /\ mutex = Nil
  /\ thread[t] = Outside
  /\ t = Worker \/ (n = 1 /\ answer[t] = NoAnswer)
  /\ Overlap \/ ~Truncating(Worker)
  /\ lastLogIndex + n <= MaxIndex
  /\ mutex' = t
  /\ thread' = [thread EXCEPT ![t] = [Outside EXCEPT !.at = "append",
                                        !.todo = n, !.base = lastLogIndex]]
  /\ answer' = [answer EXCEPT ![t] = NoAnswer]
  /\ UNCHANGED <<diskVars, boot, lastLogIndex, reader, moved, faultVars>>

\* last_log_index_++ for the next entry: the load, then the store with the Put
\* of the entry into the batch.
AppendLoad(t) ==
  /\ thread[t].at = "append"
  /\ thread[t].todo > 0
  /\ thread' = [thread EXCEPT ![t].at = "counting", ![t].reg = lastLogIndex]
  /\ UNCHANGED <<diskVars, boot, lastLogIndex, mutex, answer, reader, moved,
                 faultVars>>

AppendStore(t) ==
  /\ thread[t].at = "counting"
  /\ lastLogIndex' = thread[t].reg + 1
  /\ thread' = [thread EXCEPT ![t].at = "append", ![t].todo = @ - 1,
                              ![t].put = @ \cup {thread[t].reg + 1}]
  /\ UNCHANGED <<diskVars, boot, mutex, answer, reader, moved, faultVars>>

\* Mutant: a failed write leaves last_log_index_ where it is.
AppendedIndexKept(t, ok) == lastLogIndex

\* Mutant: a failed write takes back one more than it counted.
AppendedIndexOneLess(t, ok) ==
  IF ok THEN lastLogIndex
        ELSE lastLogIndex - Cardinality(thread[t].put) - 1

\* What Append leaves in last_log_index_, and returns.
AppendedIndex(t, ok) ==
  IF ok THEN lastLogIndex
        ELSE lastLogIndex - Cardinality(thread[t].put)

\* The batch is written as a whole, or not at all.
AppendWrite(t) ==
  /\ thread[t].at = "append"
  /\ thread[t].todo = 0
  /\ \E ok \in BOOLEAN :
       /\ ok \/ fails < MaxFails
       /\ db' = IF ok
                THEN [k \in DOMAIN db \cup thread[t].put |->
                        IF k \in thread[t].put THEN t ELSE db[k]]
                ELSE db
       /\ lastLogIndex' = AppendedIndex(t, ok)
       /\ answer' = [answer EXCEPT ![t] = lastLogIndex']
       /\ fails' = IF ok THEN fails ELSE fails + 1
       /\ moved' = (moved \/ ~ok)
  /\ mutex' = Nil
  /\ thread' = [thread EXCEPT ![t] = Outside]
  /\ UNCHANGED <<meta, boot, reader, durable, restarts>>

-----------------------------------------------------------------------------
(* RaftLog::TruncateSuffix *)

\* ReplyAppendEntries cuts off from an index its log has.  No lock is taken.
TruncateBegin(from) ==
  /\ Running
  /\ thread[Worker] = Outside
  /\ Overlap \/ mutex = Nil
  /\ from \in 1..lastLogIndex
  /\ thread' = [thread EXCEPT ![Worker] =
                  [Outside EXCEPT !.at = "truncate", !.from = from,
                                  !.base = lastLogIndex]]
  /\ answer' = [answer EXCEPT ![Worker] = NoAnswer]
  /\ UNCHANGED <<diskVars, boot, lastLogIndex, mutex, reader, moved, faultVars>>

\* One turn of the loop: the load with the Delete, then the store of the --.
TruncateLoad ==
  /\ thread[Worker].at = "truncate"
  /\ lastLogIndex >= thread[Worker].from
  /\ thread' = [thread EXCEPT ![Worker].at = "cutting",
                              ![Worker].reg = lastLogIndex,
                              ![Worker].del = @ \cup {lastLogIndex}]
  /\ UNCHANGED <<diskVars, boot, lastLogIndex, mutex, answer, reader, moved,
                 faultVars>>

TruncateStore ==
  /\ thread[Worker].at = "cutting"
  /\ lastLogIndex' = thread[Worker].reg - 1
  /\ thread' = [thread EXCEPT ![Worker].at = "truncate"]
  /\ UNCHANGED <<diskVars, boot, mutex, answer, reader, moved, faultVars>>

\* The keys the batch deletes.
CutOff == thread[Worker].del

\* A failed write is reported, but last_log_index_ stays decremented.
TruncateWrite ==
  /\ thread[Worker].at = "truncate"
  /\ lastLogIndex < thread[Worker].from
  /\ \E ok \in BOOLEAN :
       /\ ok \/ fails < MaxFails
       /\ db' = IF ok THEN [k \in DOMAIN db \ CutOff |-> db[k]] ELSE db
       /\ answer' = [answer EXCEPT ![Worker] = IF ok THEN 0 ELSE -1]
       /\ fails' = IF ok THEN fails ELSE fails + 1
       /\ durable' = (durable /\ ok)
  /\ moved' = TRUE
  /\ thread' = [thread EXCEPT ![Worker] = Outside]
  /\ UNCHANGED <<meta, boot, lastLogIndex, mutex, reader, restarts>>

-----------------------------------------------------------------------------
(* The peer thread *)

\* GetLastLogIndex, without the mutex: an Append may be under way.
GetLastLogIndex ==
  /\ Running
  /\ reader.at # "index"
  /\ reader' = [at |-> "index", index |-> lastLogIndex]
  /\ moved' = Truncating(Worker)
  /\ UNCHANGED <<diskVars, boot, callVars, faultVars>>

\* Mutant: GetEntry does not wait for the mutex.
EntryReadableAnyTime == TRUE

EntryReadable == mutex = Nil

\* GetEntry of the index that was read.
GetEntry ==
  /\ reader.at = "index"
  /\ EntryReadable
  /\ reader' = [reader EXCEPT !.at = IF reader.index \in DOMAIN db
                                     THEN "found" ELSE "missing"]
  /\ UNCHANGED <<diskVars, boot, callVars, moved, faultVars>>

-----------------------------------------------------------------------------
(* Restarts: the constructor and RaftMeta::Init *)

KeyAt(n) == CHOOSE k \in DOMAIN db : Cardinality({j \in DOMAIN db : j <= k}) = n

\* Mutant: one Prev too few.
RecoveredIndexPrev4 ==
  LET at == Cardinality(DOMAIN db) + Cardinality(meta) - 4
  IN IF at < 1 THEN 0
     ELSE IF at <= Cardinality(DOMAIN db) THEN KeyAt(at) ELSE MetaKeyAsIndex

\* The key five places before the last one.  There is none in a database that
\* holds at most five keys.  With fewer, which a crash during the first start
\* leaves behind, Prev is called on an iterator that is no longer valid: it
\* stays so, or the assertion of a debug build ends the process once more.
RecoveredIndex ==
  LET at == Cardinality(DOMAIN db) + Cardinality(meta) - 5
  IN IF at < 1 THEN 0
     ELSE IF at <= Cardinality(DOMAIN db) THEN KeyAt(at) ELSE MetaKeyAsIndex

\* The process stops at any moment and FloydImpl::Init constructs the RaftLog,
\* before RaftMeta::Init has written the meta keys.
Restart ==
  /\ restarts < MaxRestarts
  /\ restarts' = restarts + 1
  /\ boot' = 0
  /\ lastLogIndex' = RecoveredIndex
  /\ mutex' = Nil
  /\ thread' = [t \in Thread |-> Outside]
  /\ reader' = Idle
  /\ UNCHANGED <<diskVars, answer, moved, durable, fails>>

\* RaftMeta::Init writes the next key, unless it has a value.
MetaInit ==
  /\ ~Running
  /\ boot' = boot + 1
  /\ meta' = meta \cup {MetaKeys[boot + 1]}
  /\ UNCHANGED <<db, callVars, reader, moved, faultVars>>

-----------------------------------------------------------------------------

Init ==
  /\ db = << >>
  /\ meta = {}
  /\ boot = 0
  /\ lastLogIndex = 0
  /\ mutex = Nil
  /\ thread = [t \in Thread |-> Outside]
  /\ answer = [t \in Thread |-> NoAnswer]
  /\ reader = Idle
  /\ durable = TRUE
  /\ moved = FALSE
  /\ fails = 0
  /\ restarts = 0

Next ==
  \/ \E t \in Thread : \/ \E n \in 1..MaxBatch : AppendBegin(t, n)
                       \/ AppendLoad(t)
                       \/ AppendStore(t)
                       \/ AppendWrite(t)
  \/ \E from \in 1..MaxIndex : TruncateBegin(from)
  \/ TruncateLoad
  \/ TruncateStore
  \/ TruncateWrite
  \/ GetLastLogIndex
  \/ GetEntry
  \/ Restart
  \/ MetaInit

Spec == Init /\ [][Next]_vars

-----------------------------------------------------------------------------
(* Properties *)

\* Every variable has its type; last_log_index_ is unsigned and never passes 0.
TypeOK ==
  /\ DOMAIN db \subseteq Int
  /\ \A k \in DOMAIN db : db[k] \in Thread
  /\ meta \subseteq {MetaKeys[k] : k \in DOMAIN MetaKeys}
  /\ boot \in 0..Len(MetaKeys)
  /\ lastLogIndex \in Nat
  /\ mutex \in Thread \cup {Nil}
  /\ thread \in [Thread -> ThreadState]
  /\ answer \in [Thread -> Int \cup {NoAnswer}]
  /\ reader \in [at : {"idle", "index", "found", "missing"}, index : Int]
  /\ {durable, moved} \subseteq BOOLEAN
  /\ {fails, restarts} \subseteq Nat

\* While no call is under way the keys are those of 1..last_log_index_: no
\* hole and nothing beyond, whichever calls, failed appends and restarts led
\* there.  A failed truncation leaves keys behind that a restart would count,
\* or that turn into a hole when a later truncation deletes those below.
KeysMatchIndex ==
  durable /\ (\A t \in Thread : thread[t] = Outside) =>
    DOMAIN db = 1..lastLogIndex

\* A peer thread finds the entry at the last index it read, although it reads
\* the index without the mutex while an Append may have counted but not yet
\* written; unless an entry was cut off or a write failed in between.
LastIndexReadable ==
  durable /\ reader.at = "missing" /\ reader.index > 0 => moved

\* The log as its callers know it: the call under way has not taken effect
\* until its write.
StableIndex ==
  IF \E t \in Thread : thread[t] # Outside
  THEN (CHOOSE s \in {thread[t] : t \in Thread} : s # Outside).base
  ELSE lastLogIndex

Contract == INSTANCE LogContract
  WITH log <- [k \in 1..StableIndex |-> IF k \in DOMAIN db THEN db[k] ELSE Nil]

\* RaftLog keeps its contract: every call takes effect at once, and restarts
\* neither lose nor invent entries.
KeepsContract == Contract!Spec

=============================================================================
