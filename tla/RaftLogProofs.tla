---------------------------- MODULE RaftLogProofs ----------------------------
(***************************************************************************)
(* What is proved of RaftLog for any number of client threads and any      *)
(* bounds, as long as no client appends while the worker cuts off          *)
(* (Overlap = FALSE; otherwise the two overwrite each other's count and    *)
(* KeysMatchIndex fails).                                                  *)
(*                                                                         *)
(* The inductive invariant has five parts besides the types:               *)
(*                                                                         *)
(*   Calls      one thread at most is inside a call, and whether it holds  *)
(*              lli_mutex_ tells which call                                *)
(*   Batches    how far the call has counted last_log_index_, and which    *)
(*              keys its batch holds for that                              *)
(*   MetaFirst  the keys of RaftMeta are there before the first entry      *)
(*   Keys       the keys of the database against last_log_index_           *)
(*   Read       how far the index of the peer thread may be off            *)
(*                                                                         *)
(* The second half shows that RaftLog implements LogContract.              *)
(***************************************************************************)
EXTENDS RaftLog, IndexFacts

-----------------------------------------------------------------------------
(* The inductive invariant *)

Active(t) == thread[t].at # "outside"

OneCall ==
  \A t, u \in Thread : Active(t) /\ Active(u) => t = u

Calls ==
  /\ \A t \in Thread : ~Active(t) => thread[t] = Outside
  /\ OneCall
  /\ \A t \in Thread : Appending(t) => mutex = t
  /\ \A t \in Thread : Truncating(t) => t = Worker /\ mutex = Nil
  /\ mutex # Nil => Appending(mutex)
  /\ \A t \in Thread : Active(t) => Running

\* Append has counted the entries of its batch, and no other.
Counted(t) ==
  /\ thread[t].base \in Nat
  /\ thread[t].base <= lastLogIndex
  /\ thread[t].put = thread[t].base + 1 .. lastLogIndex
  /\ lastLogIndex + thread[t].todo <= MaxIndex
  /\ thread[t].base < lastLogIndex + thread[t].todo
  /\ thread[t].at = "counting" => /\ thread[t].reg = lastLogIndex
                                  /\ thread[t].todo > 0

\* TruncateSuffix deletes the keys it has counted down past.
Cut(t) ==
  /\ thread[t].base \in Nat
  /\ thread[t].from \in 1..thread[t].base
  /\ lastLogIndex \in thread[t].from - 1 .. thread[t].base
  /\ thread[t].at = "truncate" =>
       thread[t].del = lastLogIndex + 1 .. thread[t].base
  /\ thread[t].at = "cutting" =>
       /\ thread[t].reg = lastLogIndex
       /\ thread[t].from <= lastLogIndex
       /\ thread[t].del = lastLogIndex .. thread[t].base

Batches ==
  /\ \A t \in Thread : Appending(t) => Counted(t)
  /\ \A t \in Thread : Truncating(t) => Cut(t)

AllMeta == {MetaKeys[k] : k \in DOMAIN MetaKeys}

\* The meta keys were all written before the first entry.
MetaFirst ==
  /\ \A k \in 1..boot : MetaKeys[k] \in meta
  /\ DOMAIN db # {} => meta = AllMeta

Keys ==
  /\ DOMAIN db \subseteq 1..MaxIndex
  /\ durable => \A t \in Thread : Active(t) => DOMAIN db = 1..thread[t].base
  /\ KeysMatchIndex

\* The last index an entry can have been counted for.
Reach == IF Truncating(Worker) THEN thread[Worker].base ELSE lastLogIndex

Read ==
  /\ reader.at = "index" /\ durable /\ ~moved => reader.index \in 0..Reach
  /\ LastIndexReadable

IInv == TypeOK /\ Calls /\ Batches /\ MetaFirst /\ Keys /\ Read

-----------------------------------------------------------------------------
(* Facts about the threads *)

LEMMA OutsideTyped == Outside \in ThreadState
  <1>1. MaxIndex \in Nat /\ MaxBatch \in Nat  BY LogBoundAssumption
  <1> QED  BY <1>1 DEF Outside, ThreadState

LEMMA Kinds ==
  ASSUME TypeOK, NEW t \in Thread
  PROVE  /\ thread[t] \in ThreadState
         /\ Active(t) <=> Appending(t) \/ Truncating(t)
         /\ ~(Appending(t) /\ Truncating(t))
         /\ thread[t] = Outside => ~Active(t)
  BY DEF TypeOK, ThreadState, Active, Appending, Truncating, Outside

\* While t is inside a call every other thread is outside.
LEMMA Alone ==
  ASSUME TypeOK, Calls, NEW t \in Thread, Active(t)
  PROVE  \A u \in Thread : u # t => thread[u] = Outside
  BY DEF Calls, OneCall

\* Without the mutex held or a truncation under way all threads are outside.
LEMMA AllOutside ==
  ASSUME TypeOK, Calls, mutex = Nil, ~Truncating(Worker)
  PROVE  \A u \in Thread : thread[u] = Outside
  <1>1. \A u \in Thread : ~Appending(u)
    BY ThreadAssumption DEF Calls
  <1>2. \A u \in Thread : ~Truncating(u)
    BY DEF Calls
  <1> QED  BY <1>1, <1>2, Kinds DEF Calls

LEMMA Loading ==
  ASSUME NEW s \in ThreadState, NEW n \in Int
  PROVE  LET new == [s EXCEPT !.at = "counting", !.reg = n]
         IN  /\ new \in ThreadState
             /\ new.at = "counting" /\ new.reg = n
             /\ new.todo = s.todo /\ new.base = s.base /\ new.put = s.put
  BY DEF ThreadState

LEMMA Storing ==
  ASSUME NEW s \in ThreadState, NEW k \in Int, s.todo - 1 \in 0..MaxBatch
  PROVE  LET new == [s EXCEPT !.at = "append", !.todo = @ - 1,
                              !.put = @ \cup {k}]
         IN  /\ new \in ThreadState
             /\ new.at = "append" /\ new.todo = s.todo - 1
             /\ new.base = s.base /\ new.put = s.put \cup {k}
  BY DEF ThreadState

LEMMA Deleting ==
  ASSUME NEW s \in ThreadState, NEW k \in Int
  PROVE  LET new == [s EXCEPT !.at = "cutting", !.reg = k, !.del = @ \cup {k}]
         IN  /\ new \in ThreadState
             /\ new.at = "cutting" /\ new.reg = k
             /\ new.base = s.base /\ new.from = s.from
             /\ new.del = s.del \cup {k}
  BY DEF ThreadState

LEMMA Decrementing ==
  ASSUME NEW s \in ThreadState
  PROVE  LET new == [s EXCEPT !.at = "truncate"]
         IN  /\ new \in ThreadState
             /\ new.at = "truncate"
             /\ new.base = s.base /\ new.from = s.from /\ new.del = s.del
  BY DEF ThreadState

-----------------------------------------------------------------------------
(* Append *)

LEMMA AppendBeginKeeps ==
  ASSUME IInv, Overlap = FALSE, NEW t \in Thread, NEW n \in 1..MaxBatch,
         AppendBegin(t, n)
  PROVE  IInv'
  <1> DEFINE new == [Outside EXCEPT !.at = "append", !.todo = n,
                                    !.base = lastLogIndex]
  <1>c. MaxIndex \in Nat /\ MaxBatch \in Nat  BY LogBoundAssumption
  <1>w. Worker \in Thread  BY DEF Thread
  <1>i. TypeOK /\ Calls /\ Batches /\ MetaFirst /\ Keys /\ Read  BY DEF IInv
  <1>l. lastLogIndex \in Nat  BY <1>i DEF TypeOK
  <1>n. /\ new.at = "append" /\ new.todo = n
        /\ new.base = lastLogIndex /\ new.put = {}
        /\ new \in ThreadState
    <2>1. n \in 0..MaxBatch /\ lastLogIndex \in Int  BY <1>c, <1>l
    <2>2. Outside.put = {}  BY DEF Outside
    <2> QED  BY <2>1, <2>2, OutsideTyped DEF ThreadState
  <1>t. thread' = [thread EXCEPT ![t] = new]  BY DEF AppendBegin
  <1> HIDE DEF new
  <1>o. \A u \in Thread : thread[u] = Outside
    BY <1>i, AllOutside DEF AppendBegin
  <1>1. /\ thread' \in [Thread -> ThreadState]
        /\ thread'[t] = new
        /\ \A u \in Thread : u # t => thread'[u] = Outside
    BY <1>i, <1>t, <1>o, <1>n DEF TypeOK
  <1>2. TypeOK'
    BY <1>i, <1>1 DEF TypeOK, AppendBegin, diskVars, faultVars
  <1>3. Calls'
    <2>1. mutex' = t /\ Running /\ Running'  BY DEF AppendBegin, Running
    <2>2. Active(t)' /\ Appending(t)' /\ ~Truncating(t)'
      BY <1>1, <1>n DEF Active, Appending, Truncating
    <2>3. \A u \in Thread : u # t =>
            ~Active(u)' /\ ~Appending(u)' /\ ~Truncating(u)'
      BY <1>1 DEF Active, Appending, Truncating, Outside
    <2> QED  BY <2>1, <2>2, <2>3, <1>1 DEF Calls, OneCall
  <1>4. Batches'
    <2>1. lastLogIndex' = lastLogIndex /\ lastLogIndex + n <= MaxIndex
      BY DEF AppendBegin
    <2>2. Counted(t)'
      BY <2>1, <1>1, <1>n, <1>l DEF Counted
    <2> QED  BY <2>2, <1>1, <1>n DEF Batches, Appending, Truncating, Outside
  <1>5. Keys'
    <2>1. /\ db' = db /\ durable' = durable /\ lastLogIndex' = lastLogIndex
      BY DEF AppendBegin, diskVars, faultVars
    <2>2. durable => DOMAIN db = 1..lastLogIndex
      BY <1>i, <1>o DEF Keys, KeysMatchIndex
    <2>3. thread'[t] # Outside  BY <1>1, <1>n DEF Outside
    <2> QED  BY <2>1, <2>2, <2>3, <1>i, <1>1, <1>n
             DEF Keys, KeysMatchIndex, Active, Outside
  <1>6. MetaFirst'
    BY <1>i DEF MetaFirst, AppendBegin, diskVars
  <1>7. Read'
    <2>1. ~Truncating(Worker) /\ ~Truncating(Worker)'
      BY <1>o, <1>1, <1>n, <1>w DEF Truncating, Outside
    <2> QED  BY <2>1, <1>i DEF Read, Reach, AppendBegin, LastIndexReadable, faultVars
  <1> QED  BY <1>2, <1>3, <1>4, <1>5, <1>6, <1>7 DEF IInv

LEMMA AppendLoadKeeps ==
  ASSUME IInv, NEW t \in Thread, AppendLoad(t)
  PROVE  IInv'
  <1> DEFINE new == [thread[t] EXCEPT !.at = "counting", !.reg = lastLogIndex]
  <1>w. Worker \in Thread  BY DEF Thread
  <1>i. TypeOK /\ Calls /\ Batches /\ MetaFirst /\ Keys /\ Read  BY DEF IInv
  <1>l. lastLogIndex \in Nat  BY <1>i DEF TypeOK
  <1>a. Active(t) /\ Appending(t) /\ thread[t].todo > 0
    BY DEF AppendLoad, Active, Appending
  <1>n. /\ new.at = "counting" /\ new.todo = thread[t].todo
        /\ new.reg = lastLogIndex
        /\ new.base = thread[t].base /\ new.put = thread[t].put
        /\ new \in ThreadState
    <2>1. thread[t] \in ThreadState  BY <1>i, Kinds
    <2>2. lastLogIndex \in Int  BY <1>l
    <2> QED  BY <2>1, <2>2, Loading
  <1>t. thread' = [thread EXCEPT ![t] = new]
    BY <1>i DEF AppendLoad, TypeOK
  <1> HIDE DEF new
  <1>o. \A u \in Thread : u # t => thread[u] = Outside
    BY <1>i, <1>a, Alone
  <1>1. /\ thread' \in [Thread -> ThreadState]
        /\ thread'[t] = new
        /\ \A u \in Thread : u # t => thread'[u] = Outside
    BY <1>i, <1>t, <1>o, <1>n DEF TypeOK
  <1>2. TypeOK'
    BY <1>i, <1>1 DEF TypeOK, AppendLoad, diskVars, faultVars
  <1>3. Calls'
    BY <1>i, <1>a, <1>1, <1>n DEF Calls, OneCall, AppendLoad, Active, Outside,
       Appending, Truncating, Running
  <1>4. Batches'
    <2>1. lastLogIndex' = lastLogIndex /\ Counted(t)
      BY <1>i, <1>a DEF AppendLoad, Batches
    <2>2. Counted(t)'
      BY <2>1, <1>1, <1>n, <1>l, <1>a DEF Counted
    <2> QED  BY <2>2, <1>1, <1>n DEF Batches, Appending, Truncating, Outside
  <1>5. Keys'
    <2>1. /\ db' = db /\ durable' = durable
      BY DEF AppendLoad, diskVars, faultVars
    <2>3. thread'[t] # Outside  BY <1>1, <1>n DEF Outside
    <2> QED  BY <2>1, <2>3, <1>i, <1>1, <1>n, <1>a
             DEF Keys, KeysMatchIndex, Active, Outside
  <1>6. MetaFirst'
    BY <1>i DEF MetaFirst, AppendLoad, diskVars
  <1>7. Read'
    <2>1. ~Truncating(Worker) /\ ~Truncating(Worker)'
      BY <1>i, <1>a, <1>o, <1>1, <1>n, <1>w, Kinds DEF Truncating, Outside
    <2> QED  BY <2>1, <1>i DEF Read, Reach, AppendLoad, LastIndexReadable, faultVars
  <1> QED  BY <1>2, <1>3, <1>4, <1>5, <1>6, <1>7 DEF IInv

LEMMA AppendStoreKeeps ==
  ASSUME IInv, NEW t \in Thread, AppendStore(t)
  PROVE  IInv'
  <1> DEFINE new == [thread[t] EXCEPT !.at = "append", !.todo = @ - 1,
                                      !.put = @ \cup {thread[t].reg + 1}]
  <1>w. Worker \in Thread  BY DEF Thread
  <1>c. MaxIndex \in Nat /\ MaxBatch \in Nat  BY LogBoundAssumption
  <1>i. TypeOK /\ Calls /\ Batches /\ MetaFirst /\ Keys /\ Read  BY DEF IInv
  <1>l. lastLogIndex \in Nat  BY <1>i DEF TypeOK
  <1>a. Active(t) /\ Appending(t) /\ thread[t].at = "counting"
    BY DEF AppendStore, Active, Appending
  <1>b. Counted(t)  BY <1>i, <1>a DEF Batches
  <1>s. thread[t] \in ThreadState  BY <1>i, Kinds
  <1>r. thread[t].reg = lastLogIndex /\ thread[t].todo \in 1..MaxBatch
    BY <1>a, <1>b, <1>s, <1>c DEF Counted, ThreadState
  <1>n. /\ new.at = "append" /\ new.todo = thread[t].todo - 1
        /\ new.base = thread[t].base
        /\ new.put = thread[t].put \cup {lastLogIndex + 1}
        /\ new \in ThreadState
    <2>1. thread[t].todo - 1 \in 0..MaxBatch  BY <1>r, <1>c
    <2>2. lastLogIndex + 1 \in Int /\ thread[t].reg + 1 = lastLogIndex + 1
      BY <1>l, <1>r
    <2> QED  BY <1>s, <2>1, <2>2, Storing
  <1>t. thread' = [thread EXCEPT ![t] = new]
    BY <1>i DEF AppendStore, TypeOK
  <1> HIDE DEF new
  <1>o. \A u \in Thread : u # t => thread[u] = Outside
    BY <1>i, <1>a, Alone
  <1>1. /\ thread' \in [Thread -> ThreadState]
        /\ thread'[t] = new
        /\ \A u \in Thread : u # t => thread'[u] = Outside
    BY <1>i, <1>t, <1>o, <1>n DEF TypeOK
  <1>e. lastLogIndex' = lastLogIndex + 1
    BY <1>r DEF AppendStore
  <1>2. TypeOK'
    BY <1>i, <1>1, <1>e, <1>l DEF TypeOK, AppendStore, diskVars, faultVars
  <1>3. Calls'
    BY <1>i, <1>a, <1>1, <1>n DEF Calls, OneCall, AppendStore, Active, Outside,
       Appending, Truncating, Running
  <1>4. Batches'
    <2>2. Counted(t)'
      BY <1>b, <1>1, <1>n, <1>l, <1>r, <1>e DEF Counted
    <2> QED  BY <2>2, <1>1, <1>n DEF Batches, Appending, Truncating, Outside
  <1>5. Keys'
    <2>1. /\ db' = db /\ durable' = durable
      BY DEF AppendStore, diskVars, faultVars
    <2>3. thread'[t] # Outside  BY <1>1, <1>n DEF Outside
    <2> QED  BY <2>1, <2>3, <1>i, <1>1, <1>n, <1>a
             DEF Keys, KeysMatchIndex, Active, Outside
  <1>6. MetaFirst'
    BY <1>i DEF MetaFirst, AppendStore, diskVars
  <1>7. Read'
    <2>1. ~Truncating(Worker) /\ ~Truncating(Worker)'
      BY <1>i, <1>a, <1>o, <1>1, <1>n, <1>w, Kinds DEF Truncating, Outside
    <2> QED  BY <2>1, <1>i, <1>e, <1>l DEF Read, Reach, AppendStore, LastIndexReadable, faultVars
  <1> QED  BY <1>2, <1>3, <1>4, <1>5, <1>6, <1>7 DEF IInv

\* Once RaftMeta::Init is through, all its keys are there.
LEMMA MetaComplete ==
  ASSUME TypeOK, MetaFirst, Running
  PROVE  meta = AllMeta
  <1>1. DOMAIN MetaKeys = 1..boot
    BY DEF Running, MetaKeys
  <1> QED  BY <1>1 DEF TypeOK, MetaFirst, AllMeta

LEMMA AppendWriteKeeps ==
  ASSUME IInv, NEW t \in Thread, AppendWrite(t)
  PROVE  IInv'
  <1>w. Worker \in Thread  BY DEF Thread
  <1>c. MaxIndex \in Nat /\ MaxBatch \in Nat  BY LogBoundAssumption
  <1>i. TypeOK /\ Calls /\ Batches /\ MetaFirst /\ Keys /\ Read  BY DEF IInv
  <1>l. lastLogIndex \in Nat  BY <1>i DEF TypeOK
  <1>a. Active(t) /\ Appending(t) /\ thread[t].todo = 0
    BY DEF AppendWrite, Active, Appending
  <1>b. Counted(t)  BY <1>i, <1>a DEF Batches
  <1> DEFINE base == thread[t].base
             put  == thread[t].put
  <1>p. /\ base \in Nat /\ base < lastLogIndex /\ lastLogIndex <= MaxIndex
        /\ put = base + 1 .. lastLogIndex
    BY <1>a, <1>b, <1>l, <1>c DEF Counted
  <1>q. lastLogIndex - Cardinality(put) = base
    BY <1>p, <1>l, IntervalSize
  <1>o. \A u \in Thread : u # t => thread[u] = Outside
    BY <1>i, <1>a, Alone
  <1>t. \A u \in Thread : thread'[u] = Outside
    BY <1>i, <1>o DEF AppendWrite, TypeOK
  <1>k. durable => DOMAIN db = 1..base
    BY <1>i, <1>a DEF Keys
  <1> HIDE DEF base, put
  <1>e. PICK ok \in BOOLEAN :
          /\ db' = IF ok THEN [k \in DOMAIN db \cup put |->
                                  IF k \in put THEN t ELSE db[k]]
                         ELSE db
          /\ lastLogIndex' = IF ok THEN lastLogIndex ELSE base
          /\ answer' = [answer EXCEPT ![t] = lastLogIndex']
          /\ fails' = IF ok THEN fails ELSE fails + 1
          /\ moved' = (moved \/ ~ok)
    BY <1>q DEF AppendWrite, AppendedIndex, put
  <1>f. /\ mutex' = Nil /\ meta' = meta /\ boot' = boot /\ reader' = reader
        /\ durable' = durable /\ restarts' = restarts
        /\ thread' = [thread EXCEPT ![t] = Outside]
    BY DEF AppendWrite
  <1>d. DOMAIN db' = IF ok THEN DOMAIN db \cup put ELSE DOMAIN db
    BY <1>e
  <1>2. TypeOK'
    <2>1. DOMAIN db' \subseteq Int /\ \A k \in DOMAIN db' : db'[k] \in Thread
      BY <1>i, <1>e, <1>p, <1>l DEF TypeOK
    <2>2. thread' \in [Thread -> ThreadState]
      BY <1>i, <1>f, OutsideTyped DEF TypeOK
    <2>3. lastLogIndex' \in Nat  BY <1>e, <1>l, <1>p
    <2>4. answer' \in [Thread -> Int \cup {NoAnswer}]
      BY <1>i, <1>e, <2>3 DEF TypeOK
    <2>5. fails' \in Nat /\ moved' \in BOOLEAN
      BY <1>i, <1>e DEF TypeOK
    <2> QED  BY <1>i, <1>f, <2>1, <2>2, <2>3, <2>4, <2>5 DEF TypeOK
  <1>n. \A u \in Thread : ~Active(u)' /\ ~Appending(u)' /\ ~Truncating(u)'
    BY <1>t DEF Active, Appending, Truncating, Outside
  <1>3. Calls'
    BY <1>f, <1>n, <1>t DEF Calls, OneCall
  <1>4. Batches'
    BY <1>n DEF Batches
  <1>5. Keys'
    <2>1. DOMAIN db' \subseteq 1..MaxIndex
      BY <1>i, <1>d, <1>p, <1>c, <1>l DEF Keys
    <2>2. durable' => DOMAIN db' = 1..lastLogIndex'
      <3>1. CASE ok
        <4>1. durable => DOMAIN db' = (1..base) \cup (base + 1 .. lastLogIndex)
          BY <3>1, <1>d, <1>k, <1>p
        <4>2. (1..base) \cup (base + 1 .. lastLogIndex) = 1..lastLogIndex
          BY <1>p, <1>l
        <4> QED  BY <4>1, <4>2, <3>1, <1>e, <1>f
      <3>2. CASE ~ok
        BY <3>2, <1>d, <1>e, <1>f, <1>k
      <3> QED  BY <3>1, <3>2
    <2> QED  BY <2>1, <2>2, <1>n DEF Keys, KeysMatchIndex
  <1>6. MetaFirst'
    <2>1. meta = AllMeta
      BY <1>i, <1>a, MetaComplete DEF Calls
    <2> QED  BY <2>1, <1>i, <1>f DEF MetaFirst, AllMeta
  <1>7. Read'
    <2>1. ~Truncating(Worker) /\ ~Truncating(Worker)'
      BY <1>i, <1>a, <1>o, <1>n, <1>w, Kinds DEF Truncating, Outside
    <2>2. moved' \/ (~moved /\ lastLogIndex' = lastLogIndex)
      BY <1>e, <1>i DEF TypeOK
    <2>3. moved => moved'  BY <1>e
    <2> QED  BY <2>1, <2>2, <2>3, <1>i, <1>f DEF Read, Reach, LastIndexReadable
  <1> QED  BY <1>2, <1>3, <1>4, <1>5, <1>6, <1>7 DEF IInv

-----------------------------------------------------------------------------
(* TruncateSuffix *)

LEMMA TruncateBeginKeeps ==
  ASSUME IInv, Overlap = FALSE, NEW from \in 1..MaxIndex, TruncateBegin(from)
  PROVE  IInv'
  <1> DEFINE new == [Outside EXCEPT !.at = "truncate", !.from = from,
                                    !.base = lastLogIndex]
  <1>c. MaxIndex \in Nat /\ MaxBatch \in Nat  BY LogBoundAssumption
  <1>w. Worker \in Thread  BY DEF Thread
  <1>i. TypeOK /\ Calls /\ Batches /\ MetaFirst /\ Keys /\ Read  BY DEF IInv
  <1>l. lastLogIndex \in Nat  BY <1>i DEF TypeOK
  <1>n. /\ new.at = "truncate" /\ new.from = from
        /\ new.base = lastLogIndex /\ new.del = {}
        /\ new \in ThreadState
    <2>1. from \in 0..MaxIndex /\ lastLogIndex \in Int  BY <1>c, <1>l
    <2>2. Outside.del = {}  BY DEF Outside
    <2> QED  BY <2>1, <2>2, OutsideTyped DEF ThreadState
  <1>t. thread' = [thread EXCEPT ![Worker] = new]  BY DEF TruncateBegin
  <1> HIDE DEF new
  <1>o. \A u \in Thread : thread[u] = Outside
    BY <1>i, <1>w, Kinds, AllOutside DEF TruncateBegin
  <1>1. /\ thread' \in [Thread -> ThreadState]
        /\ thread'[Worker] = new
        /\ \A u \in Thread : u # Worker => thread'[u] = Outside
    BY <1>i, <1>t, <1>o, <1>n, <1>w DEF TypeOK
  <1>f. /\ db' = db /\ meta' = meta /\ boot' = boot /\ mutex' = mutex
        /\ lastLogIndex' = lastLogIndex /\ reader' = reader /\ moved' = moved
        /\ durable' = durable /\ fails' = fails /\ restarts' = restarts
        /\ Running /\ from \in 1..lastLogIndex /\ mutex = Nil
        /\ answer' = [answer EXCEPT ![Worker] = NoAnswer]
    BY DEF TruncateBegin, diskVars, faultVars
  <1>2. TypeOK'
    BY <1>i, <1>1, <1>f DEF TypeOK
  <1>x. Active(Worker)' /\ ~Appending(Worker)' /\ Truncating(Worker)'
    BY <1>1, <1>n DEF Active, Appending, Truncating
  <1>y. \A u \in Thread : u # Worker =>
          ~Active(u)' /\ ~Appending(u)' /\ ~Truncating(u)'
    BY <1>1 DEF Active, Appending, Truncating, Outside
  <1>3. Calls'
    BY <1>f, <1>x, <1>y, <1>1 DEF Calls, OneCall, Running
  <1>4. Batches'
    <2>2. Cut(Worker)'
      BY <1>1, <1>n, <1>l, <1>f DEF Cut
    <2> QED  BY <2>2, <1>x, <1>y DEF Batches
  <1>5. Keys'
    <2>2. durable => DOMAIN db = 1..lastLogIndex
      BY <1>i, <1>o DEF Keys, KeysMatchIndex
    <2>3. thread'[Worker] # Outside  BY <1>1, <1>n DEF Outside
    <2> QED  BY <2>2, <2>3, <1>i, <1>f, <1>1, <1>n, <1>w, <1>y
             DEF Keys, KeysMatchIndex
  <1>6. MetaFirst'
    BY <1>i, <1>f DEF MetaFirst
  <1>7. Read'
    <2>1. ~Truncating(Worker)
      BY <1>o, <1>w DEF Truncating, Outside
    <2>2. thread'[Worker].base = lastLogIndex  BY <1>1, <1>n
    <2> QED  BY <2>1, <2>2, <1>x, <1>i, <1>f DEF Read, Reach, LastIndexReadable
  <1> QED  BY <1>2, <1>3, <1>4, <1>5, <1>6, <1>7 DEF IInv

LEMMA TruncateLoadKeeps ==
  ASSUME IInv, TruncateLoad
  PROVE  IInv'
  <1> DEFINE new == [thread[Worker] EXCEPT !.at = "cutting",
                       !.reg = lastLogIndex, !.del = @ \cup {lastLogIndex}]
  <1>w. Worker \in Thread  BY DEF Thread
  <1>i. TypeOK /\ Calls /\ Batches /\ MetaFirst /\ Keys /\ Read  BY DEF IInv
  <1>l. lastLogIndex \in Nat  BY <1>i DEF TypeOK
  <1>a. /\ Active(Worker) /\ Truncating(Worker)
        /\ thread[Worker].at = "truncate" /\ lastLogIndex >= thread[Worker].from
    BY DEF TruncateLoad, Active, Truncating
  <1>b. Cut(Worker)  BY <1>i, <1>a, <1>w DEF Batches
  <1>n. /\ new.at = "cutting" /\ new.reg = lastLogIndex
        /\ new.base = thread[Worker].base /\ new.from = thread[Worker].from
        /\ new.del = thread[Worker].del \cup {lastLogIndex}
        /\ new \in ThreadState
    <2>1. thread[Worker] \in ThreadState  BY <1>i, <1>w, Kinds
    <2>2. lastLogIndex \in Int  BY <1>l
    <2> QED  BY <2>1, <2>2, Deleting
  <1>t. thread' = [thread EXCEPT ![Worker] = new]
    BY <1>i DEF TruncateLoad, TypeOK
  <1> HIDE DEF new
  <1>o. \A u \in Thread : u # Worker => thread[u] = Outside
    BY <1>i, <1>a, <1>w, Alone
  <1>1. /\ thread' \in [Thread -> ThreadState]
        /\ thread'[Worker] = new
        /\ \A u \in Thread : u # Worker => thread'[u] = Outside
    BY <1>i, <1>t, <1>o, <1>n, <1>w DEF TypeOK
  <1>f. /\ db' = db /\ meta' = meta /\ boot' = boot /\ mutex' = mutex
        /\ lastLogIndex' = lastLogIndex /\ reader' = reader /\ moved' = moved
        /\ durable' = durable /\ fails' = fails /\ restarts' = restarts
        /\ answer' = answer
    BY DEF TruncateLoad, diskVars, faultVars
  <1>2. TypeOK'
    BY <1>i, <1>1, <1>f DEF TypeOK
  <1>x. Active(Worker)' /\ ~Appending(Worker)' /\ Truncating(Worker)'
    BY <1>1, <1>n DEF Active, Appending, Truncating
  <1>y. \A u \in Thread : u # Worker =>
          ~Active(u)' /\ ~Appending(u)' /\ ~Truncating(u)'
    BY <1>1 DEF Active, Appending, Truncating, Outside
  <1>3. Calls'
    BY <1>f, <1>x, <1>y, <1>1, <1>i, <1>a, <1>w DEF Calls, OneCall, Running
  <1>4. Batches'
    <2>2. Cut(Worker)'
      BY <1>1, <1>n, <1>l, <1>f, <1>a, <1>b DEF Cut
    <2> QED  BY <2>2, <1>x, <1>y DEF Batches
  <1>5. Keys'
    <2>3. thread'[Worker] # Outside  BY <1>1, <1>n DEF Outside
    <2> QED  BY <2>3, <1>i, <1>a, <1>f, <1>1, <1>n, <1>w, <1>y
             DEF Keys, KeysMatchIndex
  <1>6. MetaFirst'
    BY <1>i, <1>f DEF MetaFirst
  <1>7. Read'
    <2>2. thread'[Worker].base = thread[Worker].base  BY <1>1, <1>n
    <2> QED  BY <2>2, <1>a, <1>x, <1>i, <1>f DEF Read, Reach, LastIndexReadable
  <1> QED  BY <1>2, <1>3, <1>4, <1>5, <1>6, <1>7 DEF IInv

LEMMA TruncateStoreKeeps ==
  ASSUME IInv, TruncateStore
  PROVE  IInv'
  <1> DEFINE new == [thread[Worker] EXCEPT !.at = "truncate"]
  <1>w. Worker \in Thread  BY DEF Thread
  <1>i. TypeOK /\ Calls /\ Batches /\ MetaFirst /\ Keys /\ Read  BY DEF IInv
  <1>l. lastLogIndex \in Nat  BY <1>i DEF TypeOK
  <1>a. /\ Active(Worker) /\ Truncating(Worker)
        /\ thread[Worker].at = "cutting"
    BY DEF TruncateStore, Active, Truncating
  <1>b. Cut(Worker)  BY <1>i, <1>a, <1>w DEF Batches
  <1>n. /\ new.at = "truncate"
        /\ new.base = thread[Worker].base /\ new.from = thread[Worker].from
        /\ new.del = thread[Worker].del
        /\ new \in ThreadState
    <2>1. thread[Worker] \in ThreadState  BY <1>i, <1>w, Kinds
    <2> QED  BY <2>1, Decrementing
  <1>t. thread' = [thread EXCEPT ![Worker] = new]
    BY <1>i DEF TruncateStore, TypeOK
  <1> HIDE DEF new
  <1>o. \A u \in Thread : u # Worker => thread[u] = Outside
    BY <1>i, <1>a, <1>w, Alone
  <1>1. /\ thread' \in [Thread -> ThreadState]
        /\ thread'[Worker] = new
        /\ \A u \in Thread : u # Worker => thread'[u] = Outside
    BY <1>i, <1>t, <1>o, <1>n, <1>w DEF TypeOK
  <1>f. /\ db' = db /\ meta' = meta /\ boot' = boot /\ mutex' = mutex
        /\ reader' = reader /\ moved' = moved
        /\ durable' = durable /\ fails' = fails /\ restarts' = restarts
        /\ answer' = answer
    BY DEF TruncateStore, diskVars, faultVars
  <1>e. lastLogIndex' = lastLogIndex - 1 /\ lastLogIndex' \in Nat
    BY <1>a, <1>b, <1>l DEF TruncateStore, Cut
  <1>2. TypeOK'
    BY <1>i, <1>1, <1>f, <1>e DEF TypeOK
  <1>x. Active(Worker)' /\ ~Appending(Worker)' /\ Truncating(Worker)'
    BY <1>1, <1>n DEF Active, Appending, Truncating
  <1>y. \A u \in Thread : u # Worker =>
          ~Active(u)' /\ ~Appending(u)' /\ ~Truncating(u)'
    BY <1>1 DEF Active, Appending, Truncating, Outside
  <1>3. Calls'
    BY <1>f, <1>x, <1>y, <1>1, <1>i, <1>a, <1>w DEF Calls, OneCall, Running
  <1>4. Batches'
    <2>2. Cut(Worker)'
      BY <1>1, <1>n, <1>l, <1>e, <1>a, <1>b DEF Cut
    <2> QED  BY <2>2, <1>x, <1>y DEF Batches
  <1>5. Keys'
    <2>3. thread'[Worker] # Outside  BY <1>1, <1>n DEF Outside
    <2> QED  BY <2>3, <1>i, <1>a, <1>f, <1>1, <1>n, <1>w, <1>y
             DEF Keys, KeysMatchIndex
  <1>6. MetaFirst'
    BY <1>i, <1>f DEF MetaFirst
  <1>7. Read'
    <2>2. thread'[Worker].base = thread[Worker].base  BY <1>1, <1>n
    <2> QED  BY <2>2, <1>a, <1>x, <1>i, <1>f DEF Read, Reach, LastIndexReadable
  <1> QED  BY <1>2, <1>3, <1>4, <1>5, <1>6, <1>7 DEF IInv

LEMMA TruncateWriteKeeps ==
  ASSUME IInv, TruncateWrite
  PROVE  IInv'
  <1>w. Worker \in Thread  BY DEF Thread
  <1>c. MaxIndex \in Nat /\ MaxBatch \in Nat  BY LogBoundAssumption
  <1>i. TypeOK /\ Calls /\ Batches /\ MetaFirst /\ Keys /\ Read  BY DEF IInv
  <1>l. lastLogIndex \in Nat  BY <1>i DEF TypeOK
  <1>a. /\ Active(Worker) /\ Truncating(Worker)
        /\ thread[Worker].at = "truncate" /\ lastLogIndex < thread[Worker].from
    BY DEF TruncateWrite, Active, Truncating
  <1>b. Cut(Worker)  BY <1>i, <1>a, <1>w DEF Batches
  <1> DEFINE base == thread[Worker].base
  <1>p. /\ base \in Nat /\ lastLogIndex <= base
        /\ CutOff = lastLogIndex + 1 .. base
    BY <1>a, <1>b, <1>l DEF Cut, CutOff
  <1>o. \A u \in Thread : u # Worker => thread[u] = Outside
    BY <1>i, <1>a, <1>w, Alone
  <1>t. \A u \in Thread : thread'[u] = Outside
    BY <1>i, <1>o DEF TruncateWrite, TypeOK
  <1>k. durable => DOMAIN db = 1..base
    BY <1>i, <1>a, <1>w DEF Keys
  <1> HIDE DEF base
  <1>e. PICK ok \in BOOLEAN :
          /\ db' = IF ok THEN [k \in DOMAIN db \ CutOff |-> db[k]] ELSE db
          /\ answer' = [answer EXCEPT ![Worker] = IF ok THEN 0 ELSE -1]
          /\ fails' = IF ok THEN fails ELSE fails + 1
          /\ durable' = (durable /\ ok)
    BY DEF TruncateWrite
  <1>f. /\ moved' = TRUE /\ mutex' = mutex /\ meta' = meta /\ boot' = boot
        /\ reader' = reader /\ restarts' = restarts
        /\ lastLogIndex' = lastLogIndex
        /\ thread' = [thread EXCEPT ![Worker] = Outside]
    BY DEF TruncateWrite
  <1>m. mutex = Nil  BY <1>i, <1>a, <1>w DEF Calls
  <1>d. DOMAIN db' = IF ok THEN DOMAIN db \ CutOff ELSE DOMAIN db
    BY <1>e
  <1>2. TypeOK'
    <2>1. DOMAIN db' \subseteq Int /\ \A k \in DOMAIN db' : db'[k] \in Thread
      BY <1>i, <1>e DEF TypeOK
    <2>2. thread' \in [Thread -> ThreadState]
      BY <1>i, <1>f, OutsideTyped DEF TypeOK
    <2>4. answer' \in [Thread -> Int \cup {NoAnswer}]
      <3>1. (IF ok THEN 0 ELSE -1) \in Int  OBVIOUS
      <3> QED  BY <3>1, <1>i, <1>e DEF TypeOK
    <2>5. fails' \in Nat /\ durable' \in BOOLEAN
      BY <1>i, <1>e DEF TypeOK
    <2> QED  BY <1>i, <1>f, <2>1, <2>2, <2>4, <2>5 DEF TypeOK
  <1>n. \A u \in Thread : ~Active(u)' /\ ~Appending(u)' /\ ~Truncating(u)'
    BY <1>t DEF Active, Appending, Truncating, Outside
  <1>3. Calls'
    BY <1>f, <1>m, <1>n, <1>t DEF Calls, OneCall
  <1>4. Batches'
    BY <1>n DEF Batches
  <1>5. Keys'
    <2>1. DOMAIN db' \subseteq 1..MaxIndex
      BY <1>i, <1>d DEF Keys
    <2>2. durable' => DOMAIN db' = 1..lastLogIndex'
      <3>1. CASE ok
        <4>1. durable => DOMAIN db' = (1..base) \ (lastLogIndex + 1 .. base)
          BY <3>1, <1>d, <1>k, <1>p
        <4>2. (1..base) \ (lastLogIndex + 1 .. base) = 1..lastLogIndex
          BY <1>p, <1>l
        <4> QED  BY <4>1, <4>2, <3>1, <1>e, <1>f
      <3>2. CASE ~ok
        BY <3>2, <1>e
      <3> QED  BY <3>1, <3>2
    <2> QED  BY <2>1, <2>2, <1>n DEF Keys, KeysMatchIndex
  <1>6. MetaFirst'
    BY <1>d, <1>i, <1>f DEF MetaFirst
  <1>7. Read'
    BY <1>f DEF Read, LastIndexReadable
  <1> QED  BY <1>2, <1>3, <1>4, <1>5, <1>6, <1>7 DEF IInv

-----------------------------------------------------------------------------
(* The peer thread *)

LEMMA GetLastLogIndexKeeps ==
  ASSUME IInv, GetLastLogIndex
  PROVE  IInv'
  <1>i. TypeOK /\ Calls /\ Batches /\ MetaFirst /\ Keys /\ Read  BY DEF IInv
  <1>l. lastLogIndex \in Nat  BY <1>i DEF TypeOK
  <1>f. /\ db' = db /\ meta' = meta /\ boot' = boot /\ mutex' = mutex
        /\ lastLogIndex' = lastLogIndex /\ thread' = thread
        /\ answer' = answer
        /\ durable' = durable /\ fails' = fails /\ restarts' = restarts
    BY DEF GetLastLogIndex, diskVars, callVars, faultVars
  <1>r. /\ reader' = [at |-> "index", index |-> lastLogIndex]
        /\ moved' = Truncating(Worker)
    BY DEF GetLastLogIndex
  <1>2. TypeOK'
    <2>1. reader' \in [at : {"idle", "index", "found", "missing"}, index : Int]
      BY <1>r, <1>l
    <2>2. moved' \in BOOLEAN  BY <1>r DEF Truncating
    <2> QED  BY <1>i, <1>f, <2>1, <2>2 DEF TypeOK
  <1>3. Calls'
    BY <1>i, <1>f DEF Calls, OneCall, Active, Appending, Truncating, Running
  <1>4. Batches'
    BY <1>i, <1>f DEF Batches, Counted, Cut, Appending, Truncating
  <1>5. Keys'
    BY <1>i, <1>f DEF Keys, KeysMatchIndex, Active
  <1>6. MetaFirst'
    BY <1>i, <1>f DEF MetaFirst
  <1>7. Read'
    <2>1. reader'.at = "index" /\ reader'.index = lastLogIndex
      BY <1>r
    <2>2. Truncating(Worker)' <=> Truncating(Worker)
      BY <1>f DEF Truncating
    <2>3. ~moved' => Reach' = lastLogIndex
      BY <2>2, <1>r, <1>f DEF Reach
    <2> QED  BY <2>1, <2>3, <1>l DEF Read, LastIndexReadable
  <1> QED  BY <1>2, <1>3, <1>4, <1>5, <1>6, <1>7 DEF IInv

LEMMA GetEntryKeeps ==
  ASSUME IInv, GetEntry
  PROVE  IInv'
  <1>w. Worker \in Thread  BY DEF Thread
  <1>i. TypeOK /\ Calls /\ Batches /\ MetaFirst /\ Keys /\ Read  BY DEF IInv
  <1>l. lastLogIndex \in Nat  BY <1>i DEF TypeOK
  <1>f. /\ db' = db /\ meta' = meta /\ boot' = boot /\ mutex' = mutex
        /\ lastLogIndex' = lastLogIndex /\ thread' = thread
        /\ answer' = answer /\ moved' = moved
        /\ durable' = durable /\ fails' = fails /\ restarts' = restarts
    BY DEF GetEntry, diskVars, callVars, faultVars
  <1>r. /\ reader.at = "index" /\ mutex = Nil
        /\ reader' = [reader EXCEPT !.at = IF reader.index \in DOMAIN db
                                          THEN "found" ELSE "missing"]
    BY DEF GetEntry, EntryReadable
  <1>s. /\ reader'.index = reader.index
        /\ reader'.at = IF reader.index \in DOMAIN db
                         THEN "found" ELSE "missing"
        /\ reader' \in [at : {"idle", "index", "found", "missing"}, index : Int]
    BY <1>i, <1>r DEF TypeOK
  <1>2. TypeOK'
    BY <1>i, <1>f, <1>s DEF TypeOK
  <1>3. Calls'
    BY <1>i, <1>f DEF Calls, OneCall, Active, Appending, Truncating, Running
  <1>4. Batches'
    BY <1>i, <1>f DEF Batches, Counted, Cut, Appending, Truncating
  <1>5. Keys'
    BY <1>i, <1>f DEF Keys, KeysMatchIndex, Active
  <1>6. MetaFirst'
    BY <1>i, <1>f DEF MetaFirst
  <1>7. Read'
    <2>1. durable => DOMAIN db = 1..Reach
      <3>1. CASE Truncating(Worker)
        BY <3>1, <1>i, <1>w, Kinds DEF Reach, Keys
      <3>2. CASE ~Truncating(Worker)
        <4>1. \A u \in Thread : thread[u] = Outside
          BY <3>2, <1>i, <1>r, AllOutside
        <4> QED  BY <4>1, <3>2, <1>i DEF Keys, KeysMatchIndex, Reach
      <3> QED  BY <3>1, <3>2
    <2>2. durable /\ ~moved => reader.index \in 0..Reach
      BY <1>i, <1>r DEF Read
    <2>3. reader.index \in Int /\ moved \in BOOLEAN  BY <1>i DEF TypeOK
    <2>4. Reach \in Int
      BY <1>i, <1>w, <1>l, Kinds DEF Reach, ThreadState
    <2>5. durable /\ ~moved /\ reader.index > 0 => reader.index \in DOMAIN db
      BY <2>1, <2>2, <2>3, <2>4
    <2> QED  BY <2>5, <2>3, <1>f, <1>s DEF Read, LastIndexReadable
  <1> QED  BY <1>2, <1>3, <1>4, <1>5, <1>6, <1>7 DEF IInv

-----------------------------------------------------------------------------
(* Restarts *)

LEMMA FiveMetaKeys ==
  /\ IsFiniteSet(AllMeta)
  /\ Cardinality(AllMeta) = 5
  <1> DEFINE A == {"CURRENTTERM"}
             B == A \cup {"VOTEFORIP"}
             C == B \cup {"VOTEFORPORT"}
             D == C \cup {"COMMITINDEX"}
             E == D \cup {"APPLYINDEX"}
  <1>1. IsFiniteSet(A) /\ Cardinality(A) = 1
    BY FS_Singleton
  <1>2. IsFiniteSet(B) /\ Cardinality(B) = 2
    <2>1. "VOTEFORIP" \notin A  OBVIOUS
    <2> HIDE DEF A
    <2> QED  BY <1>1, <2>1, FS_AddElement
  <1>3. IsFiniteSet(C) /\ Cardinality(C) = 3
    <2>1. "VOTEFORPORT" \notin B  OBVIOUS
    <2> HIDE DEF B
    <2> QED  BY <1>2, <2>1, FS_AddElement
  <1>4. IsFiniteSet(D) /\ Cardinality(D) = 4
    <2>1. "COMMITINDEX" \notin C  OBVIOUS
    <2> HIDE DEF C
    <2> QED  BY <1>3, <2>1, FS_AddElement
  <1>5. IsFiniteSet(E) /\ Cardinality(E) = 5
    <2>1. "APPLYINDEX" \notin D  OBVIOUS
    <2> HIDE DEF D
    <2> QED  BY <1>4, <2>1, FS_AddElement
  <1>6. AllMeta = E
    <2>1. DOMAIN MetaKeys = {1, 2, 3, 4, 5}  BY DEF MetaKeys
    <2>2. AllMeta = {MetaKeys[1], MetaKeys[2], MetaKeys[3], MetaKeys[4],
                     MetaKeys[5]}
      BY <2>1 DEF AllMeta
    <2>3. /\ MetaKeys[1] = "CURRENTTERM" /\ MetaKeys[2] = "VOTEFORIP"
          /\ MetaKeys[3] = "VOTEFORPORT" /\ MetaKeys[4] = "COMMITINDEX"
          /\ MetaKeys[5] = "APPLYINDEX"
      BY DEF MetaKeys
    <2> QED  BY <2>2, <2>3
  <1> QED  BY <1>5, <1>6

\* The constructor finds the last key of the database, and no meta key.
LEMMA RecoversLastKey ==
  ASSUME TypeOK, MetaFirst, DOMAIN db \subseteq 1..MaxIndex
  PROVE  /\ RecoveredIndex \in Nat
         /\ \A n \in Nat : DOMAIN db = 1..n => RecoveredIndex = n
  <1> DEFINE S == DOMAIN db
  <1>c. MaxIndex \in Nat  BY LogBoundAssumption
  <1>s. /\ IsFiniteSet(S) /\ Cardinality(S) \in Nat
        /\ (Cardinality(S) = 0 <=> S = {})
    <2>1. IsFiniteSet(1..MaxIndex)  BY <1>c, FS_Interval
    <2>2. IsFiniteSet(S)  BY <2>1, FS_Subset
    <2> QED  BY <2>2, FS_CardinalityType, FS_EmptySet
  <1>m. Cardinality(meta) \in Nat /\ Cardinality(meta) <= 5
    <2>1. meta \subseteq AllMeta  BY DEF TypeOK, AllMeta
    <2>2. IsFiniteSet(meta) /\ Cardinality(meta) <= Cardinality(AllMeta)
      BY <2>1, FiveMetaKeys, FS_Subset
    <2> QED  BY <2>2, FiveMetaKeys, FS_CardinalityType
  <1>1. CASE S = {}
    <2>1. Cardinality(S) + Cardinality(meta) - 5 < 1
      BY <1>1, <1>s, <1>m
    <2>2. RecoveredIndex = 0  BY <2>1 DEF RecoveredIndex
    <2>3. \A n \in Nat : S = 1..n => n = 0
      <3>1. \A n \in Nat : n # 0 => 1 \in 1..n  OBVIOUS
      <3> QED  BY <3>1, <1>1
    <2> QED  BY <2>2, <2>3
  <1>2. CASE S # {}
    <2>1. Cardinality(meta) = 5
      BY <1>2, FiveMetaKeys DEF MetaFirst
    <2>2. /\ Cardinality(S) + Cardinality(meta) - 5 = Cardinality(S)
          /\ ~(Cardinality(S) < 1)
      BY <1>2, <1>s, <2>1
    <2>3. RecoveredIndex = KeyAt(Cardinality(S))
      BY <2>2, <1>s DEF RecoveredIndex
    <2>4. PICK k \in S : \A j \in S : j <= k
      <3>1. MaxIndex \in Nat /\ S \in SUBSET (0..MaxIndex)  BY <1>c
      <3> QED  BY <3>1, <1>2, LastIndex
    <2>5. {j \in S : j <= k} = S  BY <2>4
    <2>6. \E i \in S : Cardinality({j \in S : j <= i}) = Cardinality(S)
      BY <2>5
    <2> DEFINE i == KeyAt(Cardinality(S))
    <2>7. i \in S /\ Cardinality({j \in S : j <= i}) = Cardinality(S)
      BY <2>6 DEF KeyAt
    <2> HIDE DEF i
    <2>8. ASSUME NEW n \in Nat, S = 1..n PROVE i = n
      <3>1. i \in Nat /\ i <= n /\ 1 <= i  BY <2>7, <2>8
      <3>2. {j \in S : j <= i} = 0 + 1 .. i  BY <3>1, <2>8
      <3>3. S = 0 + 1 .. n  BY <2>8
      <3>4. \A a \in Nat : Cardinality(0 + 1 .. a) = a - 0
        BY IntervalSize
      <3>5. Cardinality({j \in S : j <= i}) = i - 0
        BY <3>1, <3>2, <3>4
      <3>6. Cardinality(S) = n - 0
        BY <3>3, <3>4
      <3> QED  BY <2>7, <3>1, <3>5, <3>6
    <2>9. i \in Nat  BY <2>7, <1>c
    <2> QED  BY <2>3, <2>8, <2>9 DEF i
  <1> QED  BY <1>1, <1>2

\* While no truncation has failed, the keys are a prefix of the indexes.
LEMMA NoHoles ==
  ASSUME IInv, durable
  PROVE  \E n \in Nat : DOMAIN db = 1..n
  <1>i. TypeOK /\ Calls /\ Batches /\ MetaFirst /\ Keys /\ Read  BY DEF IInv
  <1>1. CASE \A t \in Thread : ~Active(t)
    BY <1>1, <1>i DEF Calls, Keys, KeysMatchIndex, TypeOK
  <1>2. ASSUME NEW t \in Thread, Active(t)
        PROVE  \E n \in Nat : DOMAIN db = 1..n
    <2>1. Counted(t) \/ Cut(t)  BY <1>2, <1>i, Kinds DEF Batches
    <2>2. thread[t].base \in Nat  BY <2>1 DEF Counted, Cut
    <2> QED  BY <2>2, <1>2, <1>i DEF Keys
  <1> QED  BY <1>1, <1>2

LEMMA RestartKeeps ==
  ASSUME IInv, Restart
  PROVE  IInv'
  <1>i. TypeOK /\ Calls /\ Batches /\ MetaFirst /\ Keys /\ Read  BY DEF IInv
  <1>f. /\ db' = db /\ meta' = meta /\ boot' = 0 /\ mutex' = Nil
        /\ lastLogIndex' = RecoveredIndex
        /\ thread' = [t \in Thread |-> Outside]
        /\ answer' = answer /\ moved' = moved /\ reader' = Idle
        /\ durable' = durable /\ fails' = fails /\ restarts' = restarts + 1
    BY DEF Restart, diskVars
  <1>t. \A u \in Thread : thread'[u] = Outside  BY <1>f
  <1>n. \A u \in Thread : ~Active(u)' /\ ~Appending(u)' /\ ~Truncating(u)'
    BY <1>t DEF Active, Appending, Truncating, Outside
  <1>k. DOMAIN db \subseteq 1..MaxIndex  BY <1>i DEF Keys
  <1>2. TypeOK'
    <2>1. RecoveredIndex \in Nat  BY <1>i, <1>k, RecoversLastKey
    <2>2. thread' \in [Thread -> ThreadState]  BY <1>f, OutsideTyped
    <2>3. reader' \in [at : {"idle", "index", "found", "missing"}, index : Int]
      BY <1>f DEF Idle
    <2>4. boot' \in 0..Len(MetaKeys)  BY <1>f DEF MetaKeys
    <2> QED  BY <1>i, <1>f, <2>1, <2>2, <2>3, <2>4 DEF TypeOK
  <1>3. Calls'
    BY <1>f, <1>n, <1>t DEF Calls, OneCall
  <1>4. Batches'
    BY <1>n DEF Batches
  <1>5. Keys'
    <2>1. durable => DOMAIN db = 1..RecoveredIndex
      BY <1>i, <1>k, NoHoles, RecoversLastKey
    <2> QED  BY <2>1, <1>k, <1>n, <1>f DEF Keys, KeysMatchIndex
  <1>6. MetaFirst'
    BY <1>i, <1>f DEF MetaFirst
  <1>7. Read'
    <2>1. reader'.at = "idle"  BY <1>f DEF Idle
    <2> QED  BY <2>1 DEF Read, LastIndexReadable
  <1> QED  BY <1>2, <1>3, <1>4, <1>5, <1>6, <1>7 DEF IInv

LEMMA MetaInitKeeps ==
  ASSUME IInv, MetaInit
  PROVE  IInv'
  <1>i. TypeOK /\ Calls /\ Batches /\ MetaFirst /\ Keys /\ Read  BY DEF IInv
  <1>w. Worker \in Thread  BY DEF Thread
  <1>f. /\ db' = db /\ meta' = meta \cup {MetaKeys[boot + 1]}
        /\ boot' = boot + 1 /\ mutex' = mutex
        /\ lastLogIndex' = lastLogIndex /\ thread' = thread
        /\ answer' = answer /\ moved' = moved /\ reader' = reader
        /\ durable' = durable /\ fails' = fails /\ restarts' = restarts
    BY DEF MetaInit, callVars, faultVars
  <1>d. Len(MetaKeys) = 5 /\ DOMAIN MetaKeys = 1..5  BY DEF MetaKeys
  <1>b. boot \in 0..4
    BY <1>i, <1>d DEF MetaInit, Running, TypeOK
  <1>m. MetaKeys[boot + 1] \in AllMeta
    BY <1>b, <1>d DEF AllMeta
  <1>n. \A u \in Thread : ~Active(u)
    BY <1>i DEF Calls, MetaInit
  <1>x. \A u \in Thread : ~Active(u)' /\ ~Appending(u)' /\ ~Truncating(u)'
    BY <1>n, <1>i, <1>f DEF Active, Appending, Truncating
  <1>2. TypeOK'
    <2>1. meta' \subseteq {MetaKeys[k] : k \in DOMAIN MetaKeys}
      BY <1>i, <1>f, <1>m DEF TypeOK, AllMeta
    <2>2. boot' \in 0..Len(MetaKeys)  BY <1>b, <1>f, <1>d
    <2> QED  BY <1>i, <1>f, <2>1, <2>2 DEF TypeOK
  <1>3. Calls'
    <2>1. mutex = Nil
      BY <1>i, <1>n, Kinds DEF Calls, TypeOK
    <2> QED  BY <2>1, <1>x, <1>f, <1>i, <1>n DEF Calls, OneCall
  <1>4. Batches'
    BY <1>x DEF Batches
  <1>5. Keys'
    BY <1>i, <1>f DEF Keys, KeysMatchIndex, Active
  <1>6. MetaFirst'
    <2>1. \A k \in 1..(boot + 1) : MetaKeys[k] \in meta'
      BY <1>i, <1>f, <1>b DEF MetaFirst
    <2>2. DOMAIN db' # {} => meta' = AllMeta
      BY <1>i, <1>f, <1>m DEF MetaFirst
    <2> QED  BY <2>1, <2>2, <1>f DEF MetaFirst
  <1>7. Read'
    BY <1>i, <1>f DEF Read, Reach, LastIndexReadable, Truncating
  <1> QED  BY <1>2, <1>3, <1>4, <1>5, <1>6, <1>7 DEF IInv

-----------------------------------------------------------------------------
(* The invariants *)

LEMMA InitKeeps == Init => IInv
  <1> SUFFICES ASSUME Init PROVE IInv  OBVIOUS
  <1>c. {MaxIndex, MaxBatch, MaxFails, MaxRestarts} \subseteq Nat
    BY LogBoundAssumption
  <1>t. \A u \in Thread : thread[u] = Outside  BY DEF Init
  <1>n. \A u \in Thread : ~Active(u) /\ ~Appending(u) /\ ~Truncating(u)
    BY <1>t DEF Active, Appending, Truncating, Outside
  <1>d. DOMAIN db = {}  BY DEF Init
  <1>2. TypeOK
    <2>1. thread \in [Thread -> ThreadState]  BY OutsideTyped DEF Init
    <2>2. reader \in [at : {"idle", "index", "found", "missing"}, index : Int]
      BY DEF Init, Idle
    <2>3. boot \in 0..Len(MetaKeys)  BY DEF Init, MetaKeys
    <2>4. /\ DOMAIN db \subseteq Int
          /\ \A k \in DOMAIN db : db[k] \in Thread
      BY <1>d
    <2>5. answer \in [Thread -> Int \cup {NoAnswer}]  BY DEF Init
    <2>6. /\ meta \subseteq {MetaKeys[k] : k \in DOMAIN MetaKeys}
          /\ lastLogIndex \in Nat /\ mutex \in Thread \cup {Nil}
          /\ {fails, restarts} \subseteq Nat
      BY DEF Init
    <2>7. {durable, moved} \subseteq BOOLEAN  BY Zenon DEF Init
    <2> QED  BY <2>1, <2>2, <2>3, <2>4, <2>5, <2>6, <2>7 DEF TypeOK
  <1>3. Calls  BY <1>t, <1>n DEF Calls, OneCall, Init
  <1>4. Batches  BY <1>n DEF Batches
  <1>5. Keys  BY <1>d, <1>n DEF Keys, KeysMatchIndex, Init
  <1>6. MetaFirst  BY <1>d DEF MetaFirst, Init
  <1>7. Read  BY DEF Read, LastIndexReadable, Init, Idle
  <1> QED  BY <1>2, <1>3, <1>4, <1>5, <1>6, <1>7 DEF IInv

LEMMA StutterKeeps ==
  ASSUME IInv, UNCHANGED vars
  PROVE  IInv'
  <1>i. TypeOK /\ Calls /\ Batches /\ MetaFirst /\ Keys /\ Read  BY DEF IInv
  <1>f. /\ db' = db /\ meta' = meta /\ boot' = boot /\ mutex' = mutex
        /\ lastLogIndex' = lastLogIndex /\ thread' = thread
        /\ answer' = answer /\ moved' = moved /\ reader' = reader
        /\ durable' = durable /\ fails' = fails /\ restarts' = restarts
    BY DEF vars, diskVars, callVars, faultVars
  <1>2. TypeOK'  BY <1>i, <1>f DEF TypeOK
  <1>3. Calls'
    BY <1>i, <1>f DEF Calls, OneCall, Active, Appending, Truncating, Running
  <1>4. Batches'
    BY <1>i, <1>f DEF Batches, Counted, Cut, Appending, Truncating
  <1>5. Keys'  BY <1>i, <1>f DEF Keys, KeysMatchIndex, Active
  <1>6. MetaFirst'  BY <1>i, <1>f DEF MetaFirst
  <1>7. Read'
    BY <1>i, <1>f DEF Read, Reach, LastIndexReadable, Truncating
  <1> QED  BY <1>2, <1>3, <1>4, <1>5, <1>6, <1>7 DEF IInv

LEMMA NextKeeps ==
  ASSUME IInv, Overlap = FALSE, [Next]_vars
  PROVE  IInv'
  <1>1. CASE Next
    BY <1>1, AppendBeginKeeps, AppendLoadKeeps, AppendStoreKeeps,
       AppendWriteKeeps, TruncateBeginKeeps, TruncateLoadKeeps,
       TruncateStoreKeeps, TruncateWriteKeeps, GetLastLogIndexKeeps,
       GetEntryKeeps, RestartKeeps, MetaInitKeeps DEF Next
  <1>2. CASE UNCHANGED vars
    BY <1>2, StutterKeeps
  <1> QED  BY <1>1, <1>2

\* The inductive invariant holds in every state that RaftLog reaches.
THEOREM LogInvariant ==
  ASSUME Overlap = FALSE
  PROVE  Spec => []IInv
  <1>1. Init => IInv  BY InitKeeps
  <1>2. IInv /\ [Next]_vars => IInv'  BY NextKeeps
  <1> QED  BY <1>1, <1>2, PTL DEF Spec

\* Every variable of the log keeps its type: last_log_index_, which Append
\* increments and TruncateSuffix and a failed Append decrement, never wraps
\* below 0, and the constructor never takes a meta key for an index.
THEOREM LogTypeCorrect ==
  ASSUME Overlap = FALSE
  PROVE  Spec => []TypeOK
  <1>1. IInv => TypeOK  BY DEF IInv
  <1> QED  BY <1>1, LogInvariant, PTL

\* Between calls the keys are 1..last_log_index_, whatever appends, failed
\* appends, truncations and restarts in mid-call came before.
THEOREM KeysAreTheLog ==
  ASSUME Overlap = FALSE
  PROVE  Spec => []KeysMatchIndex
  <1>1. IInv => KeysMatchIndex  BY DEF IInv, Keys
  <1> QED  BY <1>1, LogInvariant, PTL

\* A peer thread that reads last_log_index_ without lli_mutex_ finds the entry
\* there with GetEntry, unless the log was cut off or a write failed.
THEOREM ReadsLastIndex ==
  ASSUME Overlap = FALSE
  PROVE  Spec => []LastIndexReadable
  <1>1. IInv => LastIndexReadable  BY DEF IInv, Read
  <1> QED  BY <1>1, LogInvariant, PTL

-----------------------------------------------------------------------------
(***************************************************************************)
(* RaftLog implements LogContract.  The entries of the contract are those  *)
(* up to the index from which the call under way started.                  *)
(***************************************************************************)

Log == [k \in 1..StableIndex |-> IF k \in DOMAIN db THEN db[k] ELSE Nil]

LEMMA StableInside ==
  ASSUME IInv, NEW t \in Thread, Active(t)
  PROVE  StableIndex = thread[t].base /\ StableIndex \in Nat
  <1>i. TypeOK /\ Calls /\ Batches  BY DEF IInv
  <1>1. thread[t] # Outside  BY <1>i, Kinds
  <1>2. \A s \in {thread[u] : u \in Thread} : s # Outside <=> s = thread[t]
    BY <1>1, <1>i, Alone
  <1>3. (CHOOSE s \in {thread[u] : u \in Thread} : s # Outside) = thread[t]
    BY <1>1, <1>2
  <1>4. StableIndex = thread[t].base
    BY <1>1, <1>3 DEF StableIndex
  <1>5. Counted(t) \/ Cut(t)  BY <1>i, Kinds DEF Batches
  <1> QED  BY <1>4, <1>5 DEF Counted, Cut

LEMMA StableOutside ==
  ASSUME IInv, \A t \in Thread : ~Active(t)
  PROVE  StableIndex = lastLogIndex /\ StableIndex \in Nat
  BY DEF IInv, Calls, TypeOK, StableIndex

LEMMA StableNat ==
  ASSUME IInv
  PROVE  StableIndex \in Nat
  BY StableInside, StableOutside

LEMMA StableKeys ==
  ASSUME IInv, durable
  PROVE  DOMAIN db = 1..StableIndex
  <1>1. CASE \A t \in Thread : ~Active(t)
    BY <1>1, StableOutside DEF IInv, Keys, KeysMatchIndex, Calls
  <1>2. ASSUME NEW t \in Thread, Active(t)
        PROVE  DOMAIN db = 1..StableIndex
    BY <1>2, StableInside DEF IInv, Keys
  <1> QED  BY <1>1, <1>2

LEMMA PrefixOf ==
  ASSUME NEW m \in Nat, NEW n \in Nat, m <= n, NEW S,
         NEW f \in [1..m -> S], NEW g \in [1..n -> S],
         \A k \in 1..m : f[k] = g[k]
  PROVE  /\ Len(f) = m /\ Len(g) = n
         /\ f = SubSeq(g, 1, m)
  <1>1. f \in Seq(S) /\ g \in Seq(S)  OBVIOUS
  <1>2. Len(f) = m /\ Len(g) = n  BY <1>1
  <1> QED  BY <1>1, <1>2

LEMMA LogTyped ==
  ASSUME IInv
  PROVE  /\ Log \in [1..StableIndex -> Thread \cup {Nil}]
         /\ Len(Log) = StableIndex
  <1>1. Log \in [1..StableIndex -> Thread \cup {Nil}]
    BY DEF Log, IInv, TypeOK
  <1>2. StableIndex \in Nat  BY StableNat
  <1>3. \A k \in 1..StableIndex : Log[k] = Log[k]  OBVIOUS
  <1> QED  BY <1>1, <1>2, <1>3, PrefixOf

\* The same facts, for the state after a step.
Stable ==
  /\ StableIndex \in Nat
  /\ \A t \in Thread : Active(t) => StableIndex = thread[t].base
  /\ (\A t \in Thread : ~Active(t)) => StableIndex = lastLogIndex
  /\ Log \in [1..StableIndex -> Thread \cup {Nil}]
  /\ Len(Log) = StableIndex

LEMMA StableNow == IInv => Stable
  BY StableNat, StableInside, StableOutside, LogTyped DEF Stable

LEMMA StableNext == IInv' => Stable'
  BY StableNow, PTL

LEMMA InitImplements == Init => Contract!Init
  <1> SUFFICES ASSUME Init PROVE Contract!Init  OBVIOUS
  <1>1. IInv  BY InitKeeps
  <1>2. \A t \in Thread : ~Active(t)  BY DEF Init, Active, Outside
  <1>3. StableIndex = 0  BY <1>1, <1>2, StableOutside DEF Init
  <1>4. Log = <<>>
    BY <1>3 DEF Log
  <1> QED  BY <1>4 DEF Contract!Init, Init, Log

LEMMA SameLog ==
  ASSUME StableIndex' = StableIndex, db' = db
  PROVE  Log' = Log
  BY DEF Log

LEMMA NothingSeen ==
  ASSUME Log' = Log, answer' = answer, durable' = durable
  PROVE  UNCHANGED Contract!vars
  BY DEF Contract!vars, Log

\* A call begins: the log is that before it.
LEMMA BeginImplements ==
  ASSUME IInv, IInv', NEW t \in Thread,
         \A u \in Thread : thread[u] = Outside,
         thread'[t].base = lastLogIndex, Active(t)',
         db' = db, durable' = durable,
         answer' = [answer EXCEPT ![t] = NoAnswer]
  PROVE  Contract!Next
  <1>1. \A u \in Thread : ~Active(u)  BY DEF Active, Outside
  <1>2. StableIndex = lastLogIndex  BY <1>1, StableOutside
  <1>3. StableIndex' = thread'[t].base  BY StableNext DEF Stable
  <1>4. Log' = Log  BY <1>2, <1>3, SameLog
  <1>5. Contract!Call(t)  BY <1>4 DEF Contract!Call, Log
  <1> QED  BY <1>5 DEF Contract!Next

\* Inside a call nothing of it is seen.
LEMMA InsideImplements ==
  ASSUME IInv, IInv', NEW t \in Thread, Active(t), Active(t)',
         thread'[t].base = thread[t].base,
         db' = db, durable' = durable, answer' = answer
  PROVE  UNCHANGED Contract!vars
  <1>1. StableIndex = thread[t].base  BY StableInside
  <1>2. StableIndex' = thread'[t].base  BY StableNext DEF Stable
  <1> QED  BY <1>1, <1>2, SameLog, NothingSeen

LEMMA AppendBeginImplements ==
  ASSUME IInv, IInv', Overlap = FALSE, NEW t \in Thread,
         NEW n \in 1..MaxBatch, AppendBegin(t, n)
  PROVE  Contract!Next
  <1>w. Worker \in Thread  BY DEF Thread
  <1>i. TypeOK /\ Calls  BY DEF IInv
  <1>1. \A u \in Thread : thread[u] = Outside
    BY <1>i, AllOutside DEF AppendBegin
  <1>2. thread'[t] = [Outside EXCEPT !.at = "append", !.todo = n,
                                     !.base = lastLogIndex]
    BY <1>i DEF AppendBegin, TypeOK
  <1>3. thread'[t].base = lastLogIndex /\ Active(t)'
    BY <1>2, OutsideTyped DEF ThreadState, Active
  <1>4. /\ db' = db /\ durable' = durable
        /\ answer' = [answer EXCEPT ![t] = NoAnswer]
    BY DEF AppendBegin, diskVars, faultVars
  <1> QED  BY <1>1, <1>3, <1>4, BeginImplements

LEMMA TruncateBeginImplements ==
  ASSUME IInv, IInv', Overlap = FALSE, NEW from \in 1..MaxIndex,
         TruncateBegin(from)
  PROVE  Contract!Next
  <1>w. Worker \in Thread  BY DEF Thread
  <1>i. TypeOK /\ Calls  BY DEF IInv
  <1>1. \A u \in Thread : thread[u] = Outside
    BY <1>i, <1>w, Kinds, AllOutside DEF TruncateBegin
  <1>2. thread'[Worker] = [Outside EXCEPT !.at = "truncate", !.from = from,
                                          !.base = lastLogIndex]
    BY <1>i, <1>w DEF TruncateBegin, TypeOK
  <1>3. thread'[Worker].base = lastLogIndex /\ Active(Worker)'
    BY <1>2, OutsideTyped DEF ThreadState, Active
  <1>4. /\ db' = db /\ durable' = durable
        /\ answer' = [answer EXCEPT ![Worker] = NoAnswer]
    BY DEF TruncateBegin, diskVars, faultVars
  <1> QED  BY <1>1, <1>3, <1>4, <1>w, BeginImplements

LEMMA AppendLoadImplements ==
  ASSUME IInv, IInv', NEW t \in Thread, AppendLoad(t)
  PROVE  UNCHANGED Contract!vars
  <1>1. thread'[t] = [thread[t] EXCEPT !.at = "counting", !.reg = lastLogIndex]
    BY DEF AppendLoad, IInv, TypeOK
  <1>2. thread[t] \in ThreadState  BY Kinds DEF IInv
  <1>3. thread'[t].base = thread[t].base /\ Active(t)' /\ Active(t)
    <2>1. Active(t)  BY DEF Active, AppendLoad
    <2>2. thread'[t].base = thread[t].base /\ thread'[t].at # "outside"
      BY <1>1, <1>2 DEF ThreadState
    <2> QED  BY <2>1, <2>2 DEF Active
  <1>4. db' = db /\ durable' = durable /\ answer' = answer
    BY DEF AppendLoad, diskVars, faultVars
  <1> QED  BY <1>3, <1>4, InsideImplements

LEMMA AppendStoreImplements ==
  ASSUME IInv, IInv', NEW t \in Thread, AppendStore(t)
  PROVE  UNCHANGED Contract!vars
  <1>1. thread'[t] = [thread[t] EXCEPT !.at = "append", !.todo = @ - 1,
                                       !.put = @ \cup {thread[t].reg + 1}]
    BY DEF AppendStore, IInv, TypeOK
  <1>2. thread[t] \in ThreadState  BY Kinds DEF IInv
  <1>3. thread'[t].base = thread[t].base /\ Active(t)' /\ Active(t)
    <2>1. Active(t)  BY DEF Active, AppendStore
    <2>2. thread'[t].base = thread[t].base /\ thread'[t].at # "outside"
      BY <1>1, <1>2 DEF ThreadState
    <2> QED  BY <2>1, <2>2 DEF Active
  <1>4. db' = db /\ durable' = durable /\ answer' = answer
    BY DEF AppendStore, diskVars, faultVars
  <1> QED  BY <1>3, <1>4, InsideImplements

LEMMA TruncateLoadImplements ==
  ASSUME IInv, IInv', TruncateLoad
  PROVE  UNCHANGED Contract!vars
  <1>w. Worker \in Thread  BY DEF Thread
  <1>1. thread'[Worker] = [thread[Worker] EXCEPT !.at = "cutting",
                             !.reg = lastLogIndex,
                             !.del = @ \cup {lastLogIndex}]
    BY <1>w DEF TruncateLoad, IInv, TypeOK
  <1>2. thread[Worker] \in ThreadState  BY <1>w, Kinds DEF IInv
  <1>3. /\ thread'[Worker].base = thread[Worker].base
        /\ Active(Worker)' /\ Active(Worker)
    <2>1. Active(Worker)  BY DEF Active, TruncateLoad
    <2>2. thread'[Worker].base = thread[Worker].base /\ thread'[Worker].at # "outside"
      BY <1>1, <1>2 DEF ThreadState
    <2> QED  BY <2>1, <2>2 DEF Active
  <1>4. db' = db /\ durable' = durable /\ answer' = answer
    BY DEF TruncateLoad, diskVars, faultVars
  <1> QED  BY <1>3, <1>4, <1>w, InsideImplements

LEMMA TruncateStoreImplements ==
  ASSUME IInv, IInv', TruncateStore
  PROVE  UNCHANGED Contract!vars
  <1>w. Worker \in Thread  BY DEF Thread
  <1>1. thread'[Worker] = [thread[Worker] EXCEPT !.at = "truncate"]
    BY <1>w DEF TruncateStore, IInv, TypeOK
  <1>2. thread[Worker] \in ThreadState  BY <1>w, Kinds DEF IInv
  <1>3. /\ thread'[Worker].base = thread[Worker].base
        /\ Active(Worker)' /\ Active(Worker)
    BY <1>1, <1>2 DEF ThreadState, Active, TruncateStore
  <1>4. db' = db /\ durable' = durable /\ answer' = answer
    BY DEF TruncateStore, diskVars, faultVars
  <1> QED  BY <1>3, <1>4, <1>w, InsideImplements

LEMMA AppendWriteImplements ==
  ASSUME IInv, IInv', NEW t \in Thread, AppendWrite(t)
  PROVE  Contract!Next
  <1>i. TypeOK /\ Calls /\ Batches  BY DEF IInv
  <1>l. lastLogIndex \in Nat  BY <1>i DEF TypeOK
  <1>a. Active(t) /\ Appending(t) /\ thread[t].todo = 0
    BY DEF AppendWrite, Active, Appending
  <1>b. Counted(t)  BY <1>i, <1>a DEF Batches
  <1> DEFINE base == thread[t].base
             put  == thread[t].put
  <1>p. base \in Nat /\ base < lastLogIndex /\ put = base + 1 .. lastLogIndex
    BY <1>a, <1>b, <1>l DEF Counted
  <1>q. lastLogIndex - Cardinality(put) = base
    BY <1>p, <1>l, IntervalSize
  <1>t. \A u \in Thread : thread'[u] = Outside
    BY <1>i, <1>a, Alone DEF AppendWrite, TypeOK
  <1>n. \A u \in Thread : ~Active(u)'
    BY <1>t DEF Active, Outside
  <1>s. StableIndex = base /\ StableIndex' = lastLogIndex'
    BY <1>a, <1>n, StableNow, StableNext DEF Stable
  <1> HIDE DEF base, put
  <1>e. PICK ok \in BOOLEAN :
          /\ db' = IF ok THEN [k \in DOMAIN db \cup put |->
                                  IF k \in put THEN t ELSE db[k]]
                         ELSE db
          /\ lastLogIndex' = IF ok THEN lastLogIndex ELSE base
          /\ answer' = [answer EXCEPT ![t] = lastLogIndex']
    BY <1>q DEF AppendWrite, AppendedIndex, put
  <1>f. durable' = durable  BY DEF AppendWrite
  <1>g. /\ Log \in [1..base -> Thread \cup {Nil}] /\ Len(Log) = base
        /\ Log' \in [1..lastLogIndex' -> Thread \cup {Nil}]
        /\ Len(Log') = lastLogIndex'
    BY <1>s, StableNow, StableNext DEF Stable
  <1>1. CASE ok
    <2>1. lastLogIndex' = lastLogIndex /\ answer' = [answer EXCEPT ![t] = Len(Log')]
      BY <1>1, <1>e, <1>g
    <2>2. \A k \in 1..base : Log[k] = Log'[k]
      <3>1. \A k \in 1..base : k \notin put  BY <1>p, <1>l
      <3>2. \A k \in 1..base : k \in DOMAIN db' <=> k \in DOMAIN db
        BY <3>1, <1>1, <1>e
      <3>3. \A k \in 1..base : k \in DOMAIN db => db'[k] = db[k]
        BY <3>1, <1>1, <1>e
      <3>4. \A k \in 1..base : k \in 1..StableIndex /\ k \in 1..StableIndex'
        BY <1>s, <2>1, <1>p, <1>l
      <3> QED  BY <3>2, <3>3, <3>4 DEF Log
    <2>3. \A k \in base + 1 .. lastLogIndex : Log'[k] = t
      <3>1. \A k \in base + 1 .. lastLogIndex :
              k \in 1..StableIndex' /\ k \in DOMAIN db' /\ db'[k] = t
        BY <1>1, <1>e, <1>p, <1>l, <1>s, <2>1
      <3> QED  BY <3>1 DEF Log
    <2>4. Len(Log) <= Len(Log') /\ Len(Log') > Len(Log)
      BY <1>g, <1>p, <2>1, <1>l
    <2>5. Log = SubSeq(Log', 1, Len(Log))
      BY <1>g, <1>p, <1>l, <2>1, <2>2, PrefixOf
    <2>6. \A k \in Len(Log) + 1 .. Len(Log') : Log'[k] = t
      BY <2>3, <2>1, <1>g
    <2>7. Contract!AppendOk(t)
      BY <2>1, <2>4, <2>5, <2>6, <1>f DEF Contract!AppendOk, Contract!Extends, Log
    <2> QED  BY <2>7 DEF Contract!Next
  <1>2. CASE ~ok
    <2>1. Log' = Log  BY <1>2, <1>e, <1>s, SameLog
    <2>2. answer' = [answer EXCEPT ![t] = Len(Log)]  BY <1>2, <1>e, <1>g
    <2>3. Contract!AppendFails(t)
      BY <2>1, <2>2, <1>f DEF Contract!AppendFails, Log
    <2> QED  BY <2>3 DEF Contract!Next
  <1> QED  BY <1>1, <1>2

LEMMA TruncateWriteImplements ==
  ASSUME IInv, IInv', TruncateWrite
  PROVE  Contract!Next
  <1>w. Worker \in Thread  BY DEF Thread
  <1>i. TypeOK /\ Calls /\ Batches  BY DEF IInv
  <1>l. lastLogIndex \in Nat  BY <1>i DEF TypeOK
  <1>a. Active(Worker) /\ Truncating(Worker) /\ thread[Worker].at = "truncate"
    BY DEF TruncateWrite, Active, Truncating
  <1>b. Cut(Worker)  BY <1>i, <1>a, <1>w DEF Batches
  <1> DEFINE base == thread[Worker].base
  <1>p. /\ base \in Nat /\ lastLogIndex <= base
        /\ CutOff = lastLogIndex + 1 .. base
    BY <1>a, <1>b, <1>l DEF Cut, CutOff
  <1>t. \A u \in Thread : thread'[u] = Outside
    BY <1>i, <1>a, <1>w, Alone DEF TruncateWrite, TypeOK
  <1>n. \A u \in Thread : ~Active(u)'
    BY <1>t DEF Active, Outside
  <1>f. lastLogIndex' = lastLogIndex  BY DEF TruncateWrite
  <1>s. StableIndex = base /\ StableIndex' = lastLogIndex
    BY <1>a, <1>n, <1>f, <1>w, StableNow, StableNext DEF Stable
  <1> HIDE DEF base
  <1>e. PICK ok \in BOOLEAN :
          /\ db' = IF ok THEN [k \in DOMAIN db \ CutOff |-> db[k]] ELSE db
          /\ answer' = [answer EXCEPT ![Worker] = IF ok THEN 0 ELSE -1]
          /\ durable' = (durable /\ ok)
    BY DEF TruncateWrite
  <1>g. /\ Log \in [1..base -> Thread \cup {Nil}] /\ Len(Log) = base
        /\ Log' \in [1..lastLogIndex -> Thread \cup {Nil}]
        /\ Len(Log') = lastLogIndex
    BY <1>s, StableNow, StableNext DEF Stable
  <1>1. \A k \in 1..lastLogIndex : Log'[k] = Log[k]
    <2>1. \A k \in 1..lastLogIndex : k \notin CutOff  BY <1>p, <1>l
    <2>2. \A k \in 1..lastLogIndex : k \in DOMAIN db' <=> k \in DOMAIN db
      BY <2>1, <1>e
    <2>3. \A k \in 1..lastLogIndex : k \in DOMAIN db => db'[k] = db[k]
      BY <2>1, <1>e
    <2>4. \A k \in 1..lastLogIndex : k \in 1..StableIndex /\ k \in 1..StableIndex'
      BY <1>s, <1>p, <1>l
    <2> QED  BY <2>2, <2>3, <2>4 DEF Log
  <1>2. Len(Log') <= Len(Log) /\ Log' = SubSeq(Log, 1, Len(Log'))
    BY <1>g, <1>p, <1>l, <1>1, PrefixOf
  <1>3. Contract!Truncate(Worker)
    BY <1>2, <1>e DEF Contract!Truncate, Contract!Extends, Log
  <1> QED  BY <1>3, <1>w DEF Contract!Next

LEMMA RestartImplements ==
  ASSUME IInv, IInv', Restart
  PROVE  Contract!Next
  <1>1. /\ db' = db /\ answer' = answer /\ durable' = durable
        /\ lastLogIndex' = RecoveredIndex
    BY DEF Restart, diskVars
  <1>2. \A t \in Thread : ~Active(t)'
    BY DEF Restart, Active, Outside
  <1>3. StableIndex' = RecoveredIndex
    BY <1>1, <1>2, StableNext DEF Stable
  <1>4. durable => Log' = Log
    <2> SUFFICES ASSUME durable PROVE Log' = Log  OBVIOUS
    <2>1. DOMAIN db = 1..StableIndex /\ StableIndex \in Nat
      BY StableKeys, StableNat
    <2>2. RecoveredIndex = StableIndex
      BY <2>1, RecoversLastKey DEF IInv, Keys
    <2> QED  BY <2>2, <1>1, <1>3, SameLog
  <1>5. Contract!Restart
    BY <1>1, <1>4 DEF Contract!Restart, Log
  <1> QED  BY <1>5 DEF Contract!Next

\* The peer thread, RaftMeta::Init and steps that change nothing.
LEMMA OthersImplement ==
  ASSUME IInv, IInv',
         GetLastLogIndex \/ GetEntry \/ MetaInit \/ UNCHANGED vars
  PROVE  UNCHANGED Contract!vars
  <1>1. /\ db' = db /\ answer' = answer /\ durable' = durable
        /\ thread' = thread /\ lastLogIndex' = lastLogIndex
    BY DEF GetLastLogIndex, GetEntry, MetaInit, vars, callVars, diskVars, faultVars
  <1>2. StableIndex' = StableIndex  BY <1>1 DEF StableIndex
  <1> QED  BY <1>1, <1>2, SameLog, NothingSeen

LEMMA NextImplements ==
  ASSUME IInv, IInv', Overlap = FALSE, [Next]_vars
  PROVE  [Contract!Next]_(Contract!vars)
  <1>1. CASE Next
    <2>1. ASSUME NEW t \in Thread,
                 \/ \E n \in 1..MaxBatch : AppendBegin(t, n)
                 \/ AppendLoad(t) \/ AppendStore(t) \/ AppendWrite(t)
          PROVE  [Contract!Next]_(Contract!vars)
      BY <2>1, AppendBeginImplements, AppendLoadImplements,
         AppendStoreImplements, AppendWriteImplements
    <2>2. ASSUME NEW from \in 1..MaxIndex, TruncateBegin(from)
          PROVE  [Contract!Next]_(Contract!vars)
      BY <2>2, TruncateBeginImplements
    <2>3. CASE TruncateLoad \/ TruncateStore
      BY <2>3, TruncateLoadImplements, TruncateStoreImplements
    <2>4. CASE TruncateWrite  BY <2>4, TruncateWriteImplements
    <2>5. CASE GetLastLogIndex \/ GetEntry \/ MetaInit
      BY <2>5, OthersImplement
    <2>6. CASE Restart  BY <2>6, RestartImplements
    <2> QED  BY <1>1, <2>1, <2>2, <2>3, <2>4, <2>5, <2>6 DEF Next
  <1>2. CASE UNCHANGED vars
    BY <1>2, OthersImplement
  <1> QED  BY <1>1, <1>2

\* RaftLog keeps the contract of LogContract: to its callers every Append and
\* TruncateSuffix takes effect at once, with the answer it returns, although
\* last_log_index_ and the database change in many steps; a failed Append
\* leaves no trace, and a restart, at whatever step of a call, neither loses
\* nor invents an entry.
THEOREM LogKeepsContract ==
  ASSUME Overlap = FALSE
  PROVE  Spec => KeepsContract
  <1>1. Init => Contract!Init  BY InitImplements
  <1>2. IInv /\ IInv' /\ [Next]_vars => [Contract!Next]_(Contract!vars)
    BY NextImplements
  <1> QED  BY <1>1, <1>2, LogInvariant, PTL DEF Spec, KeepsContract, Contract!Spec

=============================================================================
