--------------------------- MODULE FloydApplyProofs ---------------------------
(***************************************************************************)
(* What is proved of FloydApply: all the properties that its run checks,   *)
(* for any number of servers, clients, keys and holders and any bounds.    *)
(*                                                                         *)
(* The inductive invariant says, besides the types:                        *)
(*                                                                         *)
(*   Entries     the entries of the log are those of BuildLogEntry         *)
(*   Positions   where the apply thread is, between the saved index and    *)
(*               the highest index it ever applied                         *)
(*   Nodes       the stored list names no server twice                     *)
(*   Calls       every entry belongs to one call, and an answered call's   *)
(*               entry is below the saved index                            *)
(*   Follow      each key, and each server's membership, is what some      *)
(*               prefix of the log says, not shorter than the position and *)
(*               not longer than the highest index applied                 *)
(*   Refused     a lock that was refused is in db_ only if another call of *)
(*               the same holder asked for it                              *)
(*   Held        the lock of a call that was told so is still in db_       *)
(***************************************************************************)
EXTENDS FloydApply, IndexFacts, SequenceTheorems

-----------------------------------------------------------------------------
(* The inductive invariant *)

KeyOp    == {"kWrite", "kDelete", "kRead", "kTryLock", "kUnLock"}
MemberOp == {"kAddServer", "kRemoveServer"}

\* What BuildLogEntry makes of a call.
Formed(e) ==
  /\ IF e.op \in KeyOp THEN e.key \in Key ELSE e.key = Nil
  /\ IF e.op \in MemberOp THEN e.server \in Target ELSE e.server = Nil
  /\ e.op \in {"kTryLock", "kUnLock"} => e.holder \in Holder

Entries == \A j \in 1..Len(log) : Formed(log[j])

\* The last index that the apply thread has applied since it started from the
\* saved one.
Position(i) == IF batch[i] = NoBatch THEN lastApplied[i] ELSE batch[i].at

Positions ==
  \A i \in Server :
    /\ batch[i] # NoBatch => batch[i].at <= batch[i].upto
    /\ lastApplied[i] <= Position(i)
    /\ Position(i) <= reached[i]

Nodes == \A i \in Server : IsInjective(nodes[i])

\* A call whose entry is in the log.
Issued(c) ==
  /\ call[c].at \in Server
  /\ call[c].since < call[c].index
  /\ Answered(c) => lastApplied[call[c].at] >= call[c].index
  /\ turns = 0 => call[c].at = leader

Calls ==
  /\ \A c \in Client : call[c].stage = "new" <=> call[c].index = 0
  /\ \A c \in Client : call[c].index > 0 => Issued(c)
  /\ \A c, d \in Client :
       call[c].index = call[d].index /\ call[c].index > 0 => c = d
  /\ \A j \in 1..Len(log) : \E c \in Client : call[c].index = j

KeysFollow ==
  \A i \in Server, k \in Key : ~UsedByLocks(k) =>
    \E n \in Position(i)..reached[i] : db[i][k] = ValueAfter(n, k)

MembersFollow ==
  \A i \in Server, s \in Server \cup Target :
    \E n \in Position(i)..reached[i] :
      s \in Range(nodes[i]) <=> s \in MembersAfter(n)

\* Another call of this holder got the lock under the name that c asked for.
TakenByAnother(c) ==
  \E d \in Client \ {c} :
    /\ call[d].index # 0 /\ EntryOf(d).op = "kTryLock"
    /\ EntryOf(d).key = EntryOf(c).key
    /\ EntryOf(d).holder = EntryOf(c).holder /\ EntryOf(d).lease = EntryOf(c).lease

Refused ==
  \A c \in Client : Answered(c) /\ call[c].code = "kError" =>
    /\ EntryOf(c).op = "kTryLock"
    /\ db[call[c].at][EntryOf(c).key] = Lock(EntryOf(c).holder, EntryOf(c).lease)
         => TakenByAnother(c)

Held ==
  \A c \in Client : Holds(c) /\ ~UsedByKv(EntryOf(c).key) =>
    db[call[c].at][EntryOf(c).key] = Lock(EntryOf(c).holder, EntryOf(c).lease)

-----------------------------------------------------------------------------
(* The reference: prefixes of the log *)

LEMMA LatestOf ==
  ASSUME NEW n \in Nat, NEW J \in SUBSET (0..n)
  PROVE  /\ J = {} => Latest(J) = 0
         /\ J # {} => Latest(J) \in J /\ \A m \in J : m <= Latest(J)
  BY LastIndex DEF Latest

LEMMA LatestIsNew ==
  ASSUME NEW n \in Nat, NEW J \in SUBSET (1..n)
  PROVE  Latest(J \cup {n + 1}) = n + 1
  <1> DEFINE K == J \cup {n + 1}
  <1>1. n + 1 \in Nat /\ K \in SUBSET (0..(n + 1)) /\ K # {}  OBVIOUS
  <1>2. n + 1 \in K /\ \A m \in K : m \in Int /\ m <= n + 1  OBVIOUS
  <1> HIDE DEF K
  <1>3. Latest(K) \in K /\ \A m \in K : m <= Latest(K)
    BY <1>1, LatestOf
  <1>4. Latest(K) = n + 1  BY <1>2, <1>3
  <1> QED  BY <1>4 DEF K

\* The entries up to n that change key k, and those about server s.
Changes(n, k) ==
  {m \in 1..n : log[m].key = k /\ log[m].op \in {"kWrite", "kDelete"}}
About(n, s) == {m \in 1..n : log[m].server = s}

LEMMA ValueStep ==
  ASSUME NEW n \in Nat, NEW k
  PROVE  ValueAfter(n + 1, k) =
           IF log[n + 1].key = k /\ log[n + 1].op \in {"kWrite", "kDelete"}
           THEN IF log[n + 1].op = "kDelete" THEN Absent
                                             ELSE Plain(log[n + 1].value)
           ELSE ValueAfter(n, k)
  <1>1. Changes(n, k) \in SUBSET (1..n)  BY DEF Changes
  <1>2. CASE log[n + 1].key = k /\ log[n + 1].op \in {"kWrite", "kDelete"}
    <2>1. Changes(n + 1, k) = Changes(n, k) \cup {n + 1}
      BY <1>2 DEF Changes
    <2>2. Latest(Changes(n + 1, k)) = n + 1  BY <1>1, <2>1, LatestIsNew
    <2>3. n + 1 # 0  OBVIOUS
    <2> QED  BY <1>2, <2>2, <2>3 DEF ValueAfter, Changes
  <1>3. CASE ~(log[n + 1].key = k /\ log[n + 1].op \in {"kWrite", "kDelete"})
    <2>1. Changes(n + 1, k) = Changes(n, k)
      BY <1>3 DEF Changes
    <2> QED  BY <1>3, <2>1 DEF ValueAfter, Changes
  <1> QED  BY <1>2, <1>3

LEMMA MembersStep ==
  ASSUME NEW n \in Nat, NEW s \in Server \cup Target
  PROVE  s \in MembersAfter(n + 1) <=>
           IF log[n + 1].server = s THEN log[n + 1].op = "kAddServer"
                                    ELSE s \in MembersAfter(n)
  <1>1. About(n, s) \in SUBSET (1..n)  BY DEF About
  <1>2. CASE log[n + 1].server = s
    <2>1. About(n + 1, s) = About(n, s) \cup {n + 1}
      BY <1>2 DEF About
    <2>2. Latest(About(n + 1, s)) = n + 1  BY <1>1, <2>1, LatestIsNew
    <2>3. n + 1 # 0  OBVIOUS
    <2> QED  BY <1>2, <2>2, <2>3 DEF MembersAfter, About
  <1>3. CASE log[n + 1].server # s
    <2>1. About(n + 1, s) = About(n, s)
      BY <1>3 DEF About
    <2> QED  BY <1>3, <2>1 DEF MembersAfter, About
  <1> QED  BY <1>2, <1>3

\* What a prefix says does not change when the log grows.
LEMMA ValueKept ==
  ASSUME NEW n \in Nat, NEW k, \A m \in 1..n : log'[m] = log[m]
  PROVE  ValueAfter(n, k)' = ValueAfter(n, k)
  <1>1. Changes(n, k) \in SUBSET (1..n) /\ Changes(n, k) \in SUBSET (0..n)
    BY DEF Changes
  <1>2. Changes(n, k)' = Changes(n, k)  BY DEF Changes
  <1> DEFINE j == Latest(Changes(n, k))
  <1>3. j = 0 \/ j \in 1..n  BY <1>1, LatestOf
  <1>4. ValueAfter(n, k) = IF j = 0 \/ log[j].op = "kDelete" THEN Absent
                                                       ELSE Plain(log[j].value)
    BY DEF ValueAfter, Changes
  <1>5. ValueAfter(n, k)' = IF j = 0 \/ log'[j].op = "kDelete" THEN Absent
                                                       ELSE Plain(log'[j].value)
    BY <1>2 DEF ValueAfter, Changes
  <1> HIDE DEF j
  <1>6. j # 0 => log'[j] = log[j]  BY <1>3
  <1> QED  BY <1>4, <1>5, <1>6

LEMMA MembersKept ==
  ASSUME NEW n \in Nat, NEW s \in Server \cup Target,
         \A m \in 1..n : log'[m] = log[m]
  PROVE  s \in MembersAfter(n)' <=> s \in MembersAfter(n)
  <1>1. About(n, s) \in SUBSET (1..n) /\ About(n, s) \in SUBSET (0..n)
    BY DEF About
  <1>2. About(n, s)' = About(n, s)  BY DEF About
  <1> DEFINE j == Latest(About(n, s))
  <1>3. j = 0 \/ j \in 1..n  BY <1>1, LatestOf
  <1>4. s \in MembersAfter(n) <=> IF j = 0 THEN s \in Server
                                           ELSE log[j].op = "kAddServer"
    BY DEF MembersAfter, About
  <1>5. s \in MembersAfter(n)' <=> IF j = 0 THEN s \in Server
                                            ELSE log'[j].op = "kAddServer"
    BY <1>2 DEF MembersAfter, About
  <1> HIDE DEF j
  <1>6. j # 0 => log'[j] = log[j]  BY <1>3
  <1> QED  BY <1>4, <1>5, <1>6

-----------------------------------------------------------------------------
(* The list under #MEMBERCONFIG *)

\* The last node takes the place of the one removed: nobody else is lost.
LEMMA RemoveNodeRange ==
  ASSUME NEW S, NEW ns \in Seq(S), IsInjective(ns), NEW s \in Range(ns)
  PROVE  /\ RemoveNode(ns, s) \in Seq(S)
         /\ IsInjective(RemoveNode(ns, s))
         /\ Range(RemoveNode(ns, s)) = Range(ns) \ {s}
  <1> DEFINE n == Len(ns)
             i == CHOOSE k \in DOMAIN ns : ns[k] = s
             ms == [ns EXCEPT ![i] = ns[n]]
             rs == SubSeq(ms, 1, n - 1)
  <1>1. n \in Nat /\ DOMAIN ns = 1..n /\ \A k \in 1..n : ns[k] \in S
    OBVIOUS
  <1>2. i \in 1..n /\ ns[i] = s
    BY <1>1 DEF Range
  <1>3. RemoveNode(ns, s) = rs
    BY DEF RemoveNode
  <1> HIDE DEF i, n
  <1>4. /\ ms \in Seq(S) /\ Len(ms) = n
        /\ \A k \in 1..n : ms[k] = IF k = i THEN ns[n] ELSE ns[k]
    <2>1. ns[n] \in S  BY <1>1, <1>2
    <2> QED  BY <1>1, <1>2, <2>1 DEF n
  <1> HIDE DEF ms
  <1>5. /\ rs \in Seq(S) /\ Len(rs) = n - 1
        /\ \A k \in 1..(n - 1) : rs[k] = ms[k]
    BY <1>1, <1>2, <1>4
  <1>6. DOMAIN rs = 1..(n - 1)
    BY <1>5
  <1> HIDE DEF rs
  <1>7. \A k \in 1..(n - 1) :
          rs[k] = (IF k = i THEN ns[n] ELSE ns[k]) /\ k \in 1..n
    BY <1>1, <1>4, <1>5
  <1>8. \A j, k \in 1..n : ns[j] = ns[k] => j = k
    BY <1>1 DEF IsInjective
  <1>9. n \in 1..n  BY <1>1, <1>2
  <1>10. IsInjective(rs)
    BY <1>1, <1>2, <1>6, <1>7, <1>8, <1>9 DEF IsInjective
  <1>11. ASSUME NEW x \in Range(rs) PROVE x \in Range(ns) \ {s}
    <2>1. PICK k \in 1..(n - 1) : x = rs[k]  BY <1>6 DEF Range
    <2>2. CASE k = i
      <3>1. x = ns[n] /\ i # n  BY <2>1, <2>2, <1>7, <1>1
      <3> QED  BY <3>1, <1>1, <1>2, <1>8, <1>9 DEF Range
    <2>3. CASE k # i
      <3>1. x = ns[k] /\ k \in 1..n  BY <2>1, <2>3, <1>7
      <3> QED  BY <3>1, <2>3, <1>1, <1>2, <1>8 DEF Range
    <2> QED  BY <2>2, <2>3
  <1>12. ASSUME NEW x \in Range(ns), x # s PROVE x \in Range(rs)
    <2>1. PICK k \in 1..n : x = ns[k]  BY <1>1 DEF Range
    <2>2. k # i  BY <2>1, <1>2, <1>12
    <2>3. CASE k = n
      <3>1. i \in 1..(n - 1)  BY <2>2, <2>3, <1>1, <1>2
      <3>2. rs[i] = x  BY <3>1, <2>1, <2>3, <1>7
      <3> QED  BY <3>1, <3>2, <1>6 DEF Range
    <2>4. CASE k # n
      <3>1. k \in 1..(n - 1)  BY <2>4, <1>1
      <3>2. rs[k] = x  BY <3>1, <2>1, <2>2, <1>7
      <3> QED  BY <3>1, <3>2, <1>6 DEF Range
    <2> QED  BY <2>3, <2>4
  <1>13. Range(rs) = Range(ns) \ {s}
    BY <1>11, <1>12
  <1> QED  BY <1>3, <1>5, <1>10, <1>13

LEMMA AppendRange ==
  ASSUME NEW S, NEW ns \in Seq(S), NEW s \in S
  PROVE  /\ Append(ns, s) \in Seq(S)
         /\ Len(Append(ns, s)) = Len(ns) + 1
         /\ Range(Append(ns, s)) = Range(ns) \cup {s}
         /\ IsInjective(ns) /\ s \notin Range(ns) => IsInjective(Append(ns, s))
  <1> DEFINE n == Len(ns)
             as == Append(ns, s)
  <1>1. /\ n \in Nat /\ DOMAIN ns = 1..n
        /\ as \in Seq(S) /\ Len(as) = n + 1 /\ DOMAIN as = 1..(n + 1)
        /\ \A k \in 1..n : as[k] = ns[k]
        /\ as[n + 1] = s
    OBVIOUS
  <1> HIDE DEF n, as
  <1>2. \A k \in 1..(n + 1) : k \in 1..n \/ k = n + 1
    BY <1>1
  <1>3. \A k \in 1..n : k \in 1..(n + 1)
    BY <1>1
  <1>4. n + 1 \in 1..(n + 1)
    BY <1>1
  <1>5. Range(as) = Range(ns) \cup {s}
    BY <1>1, <1>2, <1>3, <1>4 DEF Range
  <1>6. IsInjective(ns) /\ s \notin Range(ns) => IsInjective(as)
    BY <1>1, <1>2 DEF IsInjective, Range
  <1> QED  BY <1>1, <1>5, <1>6 DEF n, as

Known == Server \cup Target

LEMMA AddsServer ==
  ASSUME NEW ns \in Seq(Known), IsInjective(ns),
         NEW s \in Known
  PROVE  /\ MembershipChange(ns, s, TRUE) \in Seq(Known)
         /\ IsInjective(MembershipChange(ns, s, TRUE))
         /\ Range(MembershipChange(ns, s, TRUE)) = Range(ns) \cup {s}
  <1>1. CASE s \in Range(ns)
    BY <1>1 DEF MembershipChange
  <1>2. CASE s \notin Range(ns)
    <2>1. MembershipChange(ns, s, TRUE) = Append(ns, s)
      BY <1>2 DEF MembershipChange
    <2>2. /\ Append(ns, s) \in Seq(Known)
          /\ Range(Append(ns, s)) = Range(ns) \cup {s}
          /\ IsInjective(Append(ns, s))
      BY <1>2, AppendRange, Zenon
    <2> QED  BY <2>1, <2>2, Zenon
  <1> QED  BY <1>1, <1>2

LEMMA RemovesServer ==
  ASSUME NEW ns \in Seq(Known), IsInjective(ns),
         NEW s \in Known
  PROVE  /\ MembershipChange(ns, s, FALSE) \in Seq(Known)
         /\ IsInjective(MembershipChange(ns, s, FALSE))
         /\ Range(MembershipChange(ns, s, FALSE)) = Range(ns) \ {s}
  <1>1. CASE s \in Range(ns)
    <2>1. MembershipChange(ns, s, FALSE) = RemoveNode(ns, s)
      BY <1>1 DEF MembershipChange
    <2>2. /\ RemoveNode(ns, s) \in Seq(Known)
          /\ IsInjective(RemoveNode(ns, s))
          /\ Range(RemoveNode(ns, s)) = Range(ns) \ {s}
      BY <1>1, RemoveNodeRange, Zenon
    <2> QED  BY <2>1, <2>2, Zenon
  <1>2. CASE s \notin Range(ns)
    BY <1>2 DEF MembershipChange
  <1> QED  BY <1>1, <1>2

LEMMA ServerList ==
  /\ SeqOf(Server) \in Seq(Server)
  /\ IsInjective(SeqOf(Server))
  /\ Range(SeqOf(Server)) = Server
  /\ SeqOf(Server)[1] \in Server
  <1> DEFINE n == Cardinality(Server)
             f == SeqOf(Server)
  <1>1. n \in Nat /\ n # 0
    BY ApplyAssumption, FS_CardinalityType, FS_EmptySet
  <1>2. ExistsBijection(1..n, Server)
    BY ApplyAssumption, FS_CardinalityType
  <1>3. PICK g \in [1..n -> Server] : \A s \in Server : \E k \in 1..n : g[k] = s
    BY <1>2 DEF ExistsBijection, Bijection, Surjection
  <1>4. Range(g) = Server
    BY <1>3 DEF Range
  <1>5. f \in [1..n -> Server] /\ Range(f) = Server
    BY <1>4 DEF SeqOf
  <1> HIDE DEF f, n
  <1>6. f \in Surjection(1..n, Server)
    BY <1>5 DEF Surjection, Range
  <1>7. IsFiniteSet(1..n) /\ Cardinality(1..n) = n
    <2>1. \A m \in Nat : IsFiniteSet(1..m) /\ Cardinality(1..m) = m
      BY FS_Interval
    <2> QED  BY <1>1, <2>1
  <1>8. f \in Injection(1..n, Server)
    BY <1>6, <1>7, ApplyAssumption, FS_SurjSameCardinalityImpliesInj DEF n
  <1>9. IsInjective(f)  BY <1>8 DEF Injection
  <1>10. f \in Seq(Server) /\ f[1] \in Server
    BY <1>1, <1>5
  <1> QED  BY <1>5, <1>9, <1>10 DEF f

-----------------------------------------------------------------------------
(* Values, entries and calls *)

LEMMA Kinds ==
  /\ Absent \in Value
  /\ \A x \in Client \cup {Nil} : Plain(x) \in Value
  /\ \A h \in Holder \cup {Nil}, l \in Nat : Lock(h, l) \in Value
  /\ \A x : Plain(x) # Absent
  /\ \A h, l : Lock(h, l) # Absent /\ Lock(h, l).kind = "lock"
  /\ \A x, h, l : Plain(x) # Lock(h, l) /\ Plain(x).kind = "plain"
  /\ \A g, h, l, m : Lock(g, l) = Lock(h, m) <=> g = h /\ l = m
  /\ \A h, l : Lock(h, l).holder = h /\ Lock(h, l).lease = l
  /\ Absent.kind = "absent"
  BY DEF Value, Absent, Plain, Lock

LEMMA ValueKinds ==
  ASSUME NEW v \in Value
  PROVE  \/ v = Absent
         \/ \E x \in Client \cup {Nil} : v = Plain(x)
         \/ \E h \in Holder \cup {Nil}, l \in Nat : v = Lock(h, l)
  <1>1. CASE v \in [kind : {"absent"}]
    BY <1>1 DEF Absent
  <1>2. CASE v \in [kind : {"plain"}, value : Client \cup {Nil}]
    <2>1. v = Plain(v.value) /\ v.value \in Client \cup {Nil}
      BY <1>2 DEF Plain
    <2> QED  BY <2>1
  <1>3. CASE v \in [kind : {"lock"}, holder : Holder \cup {Nil}, lease : Nat]
    <2>1. /\ v = Lock(v.holder, v.lease)
          /\ v.holder \in Holder \cup {Nil} /\ v.lease \in Nat
      BY <1>3 DEF Lock
    <2> QED  BY <2>1
  <1> QED  BY <1>1, <1>2, <1>3 DEF Value

LEMMA ParsedIsLock ==
  ASSUME NEW v \in Value
  PROVE  \E h \in Holder \cup {Nil}, l \in Nat :
           /\ ParsedLock(v) = Lock(h, l)
           /\ v.kind # "lock" => h = Nil
           /\ v.kind = "lock" => v = Lock(h, l)
  <1>1. CASE v.kind = "lock"
    BY <1>1, ValueKinds, Kinds DEF ParsedLock
  <1>2. CASE v.kind # "lock"
    BY <1>2 DEF ParsedLock
  <1> QED  BY <1>1, <1>2

LEMMA ApplyToKeyTyped ==
  ASSUME NEW e \in Entry, NEW v \in Value
  PROVE  ApplyToKey(e, v) \in Value
  <1>1. /\ e.value \in Client \cup {Nil} /\ e.holder \in Holder \cup {Nil}
        /\ e.lease \in Nat
    BY DEF Entry
  <1>2. /\ Plain(e.value) \in Value /\ Lock(e.holder, e.lease) \in Value
        /\ Absent \in Value
    BY <1>1, Kinds
  <1> QED  BY <1>2 DEF ApplyToKey

LEMMA RequestsFormed ==
  ASSUME TypeOK, NEW c \in Client, NEW e \in Requests(c)
  PROVE  e \in Entry /\ Formed(e)
  <1>1. PICK op \in Op, k \in Key, h \in Holder, s \in Target :
          e = BuildLogEntry(op, c, k, h, s)
    BY DEF Requests
  <1>2. now \in Nat /\ Ttl \in Nat /\ now + Ttl \in Nat
    BY ApplyBoundAssumption DEF TypeOK
  <1>3. /\ e.op = op
        /\ e.key = IF op \in KeyOp THEN k ELSE Nil
        /\ e.value = IF op = "kWrite" THEN c ELSE Nil
        /\ e.holder = IF op \in {"kTryLock", "kUnLock"} THEN h ELSE Nil
        /\ e.lease = IF op = "kTryLock" THEN now + Ttl ELSE 0
        /\ e.server = IF op \in MemberOp THEN s ELSE Nil
    BY <1>1 DEF BuildLogEntry, KeyOp, MemberOp
  <1>4. e \in Entry
    <2>1. /\ e.key \in Key \cup {Nil} /\ e.value \in Client \cup {Nil}
          /\ e.holder \in Holder \cup {Nil} /\ e.lease \in Nat
          /\ e.server \in Target \cup {Nil} /\ e.op \in Op
      BY <1>2, <1>3
    <2>2. e = [op |-> e.op, key |-> e.key, value |-> e.value,
               holder |-> e.holder, lease |-> e.lease, server |-> e.server]
      BY <1>1 DEF BuildLogEntry
    <2> QED  BY <2>1, <2>2 DEF Entry
  <1>5. Formed(e)
    BY <1>3 DEF Formed, KeyOp, MemberOp
  <1> QED  BY <1>4, <1>5

\* What one step of Apply does, in terms of the position before it.
LEMMA AppliesNext ==
  ASSUME TypeOK, Entries, Positions, Nodes, NEW i \in Server, Apply(i)
  PROVE  /\ Position(i) + 1 \in 1..Len(log)
         /\ log[Position(i) + 1] \in Entry
         /\ Formed(log[Position(i) + 1])
         /\ batch[i] # NoBatch /\ batch[i].at = Position(i)
         /\ batch[i].at < batch[i].upto
  <1>1. /\ batch[i] \in [at : 0..Len(log), upto : 0..Len(log)]
        /\ batch[i].at < batch[i].upto /\ Len(log) \in Nat
    BY DEF TypeOK, Apply
  <1>2. batch[i] # NoBatch  BY <1>1 DEF NoBatch
  <1>3. Position(i) = batch[i].at  BY <1>2 DEF Position
  <1>4. Position(i) + 1 \in 1..Len(log)  BY <1>1, <1>3
  <1>5. log[Position(i) + 1] \in Entry  BY <1>4 DEF TypeOK
  <1> QED  BY <1>1, <1>2, <1>3, <1>4, <1>5 DEF Entries

-----------------------------------------------------------------------------
(* Types, positions and members *)

Base == TypeOK /\ Entries /\ Positions /\ Nodes /\ PeersFollowMembers

\* The entry that the apply thread comes to next, and the members it leads to.
NextEntry(i) == log[Position(i) + 1]

Changed(S, e) ==
  IF e.op = "kAddServer" THEN S \cup {e.server}
  ELSE IF e.op = "kRemoveServer" THEN S \ {e.server} ELSE S

LEMMA ApplyToStore ==
  ASSUME Base, NEW i \in Server, Apply(i)
  PROVE  /\ db' \in [Server -> [Key -> Value]]
         /\ \A j \in Server, k \in Key :
              db'[j][k] = IF j = i /\ k = NextEntry(i).key
                          THEN ApplyToKey(NextEntry(i), db[j][k])
                          ELSE db[j][k]
  <1> DEFINE e == NextEntry(i)
             w == ApplyToKey(e, db[i][e.key])
  <1>b. TypeOK /\ Entries /\ Positions /\ Nodes  BY DEF Base
  <1>1. e \in Entry /\ batch[i].at = Position(i)
    BY <1>b, AppliesNext DEF NextEntry
  <1>2. db' = IF e.key = Nil THEN db ELSE [db EXCEPT ![i][e.key] = w]
    BY <1>1 DEF Apply, NextEntry
  <1>3. e.key \in Key \cup {Nil} /\ Nil \notin Key
    BY <1>1, ApplyAssumption DEF Entry
  <1>4. db \in [Server -> [Key -> Value]]  BY <1>b DEF TypeOK
  <1>5. e.key # Nil => w \in Value
    BY <1>1, <1>3, <1>4, ApplyToKeyTyped
  <1>6. \A k \in Key : k = e.key => ApplyToKey(e, db[i][k]) = w
    OBVIOUS
  <1> HIDE DEF w, e
  <1>7. CASE e.key = Nil
    <2>1. db' = db /\ \A k \in Key : k # e.key  BY <1>7, <1>2, <1>3
    <2> QED  BY <2>1, <1>4 DEF e
  <1>8. CASE e.key # Nil
    <2>1. db' = [db EXCEPT ![i] = [db[i] EXCEPT ![e.key] = w]]
      BY <1>8, <1>2, <1>4
    <2>2. e.key \in Key /\ w \in Value  BY <1>8, <1>3, <1>5
    <2>3. db' \in [Server -> [Key -> Value]]  BY <2>1, <2>2, <1>4
    <2>4. \A j \in Server, k \in Key :
            db'[j][k] = IF j = i /\ k = e.key THEN w ELSE db[j][k]
      BY <2>1, <2>2, <1>4
    <2> QED  BY <2>3, <2>4, <1>6 DEF e
  <1> QED  BY <1>7, <1>8

LEMMA ApplyToMembers ==
  ASSUME Base, NEW i \in Server, Apply(i)
  PROVE  /\ nodes' \in [Server -> Seq(Server \cup Target)]
         /\ members' \in [Server -> SUBSET (Server \cup Target)]
         /\ peers' \in [Server -> SUBSET (Server \cup Target)]
         /\ \A j \in Server : j # i =>
              /\ nodes'[j] = nodes[j] /\ members'[j] = members[j]
              /\ peers'[j] = peers[j]
         /\ IsInjective(nodes'[i])
         /\ Range(nodes'[i]) = Changed(Range(nodes[i]), NextEntry(i))
         /\ members'[i] = Changed(members[i], NextEntry(i))
         /\ peers'[i] = members'[i] \ {i}
  <1> DEFINE e == NextEntry(i)
  <1>b. TypeOK /\ Entries /\ Positions /\ Nodes /\ PeersFollowMembers
    BY DEF Base
  <1>1. e \in Entry /\ Formed(e) /\ batch[i].at = Position(i)
    BY <1>b, AppliesNext DEF NextEntry
  <1>2. ApplyMembers(i, e)
    BY <1>1 DEF Apply, NextEntry
  <1>3. /\ nodes \in [Server -> Seq(Server \cup Target)]
        /\ members \in [Server -> SUBSET (Server \cup Target)]
        /\ peers \in [Server -> SUBSET (Server \cup Target)]
        /\ IsInjective(nodes[i])
        /\ peers[i] = members[i] \ {i}
    BY <1>b DEF TypeOK, Nodes, PeersFollowMembers
  <1> HIDE DEF e
  <1>4. CASE e.op \in MemberOp
    <2> DEFINE add == e.op = "kAddServer"
               ns == MembershipChange(nodes[i], e.server, add)
    <2>1. e.server \in Server \cup Target  BY <1>1, <1>4 DEF Formed
    <2>2. /\ ns \in Seq(Server \cup Target)
          /\ IsInjective(ns)
          /\ Range(ns) = IF add THEN Range(nodes[i]) \cup {e.server}
                                ELSE Range(nodes[i]) \ {e.server}
      <3>1. /\ nodes[i] \in Seq(Known) /\ IsInjective(nodes[i])
            /\ e.server \in Known
        BY <1>3, <2>1 DEF Known
      <3>2. CASE add
        <4>1. ns = MembershipChange(nodes[i], e.server, TRUE)
          BY <3>2, Zenon
        <4> HIDE DEF ns, add
        <4> QED  BY <3>1, <3>2, <4>1, AddsServer DEF Known
      <3>3. CASE ~add
        <4>1. add = FALSE  BY <3>3
        <4>2. ns = MembershipChange(nodes[i], e.server, FALSE)
          BY <4>1, Zenon
        <4> HIDE DEF ns, add
        <4> QED  BY <3>1, <3>3, <4>2, RemovesServer DEF Known
      <3> QED  BY <3>2, <3>3
    <2>3. /\ nodes' = [nodes EXCEPT ![i] = ns]
          /\ members' = [members EXCEPT ![i] = IF add THEN @ \cup {e.server}
                                                      ELSE @ \ {e.server}]
          /\ peers' = [peers EXCEPT ![i] = ChangedPeers(i, e.server, add)]
      BY <1>2, <1>4 DEF ApplyMembers, MemberOp
    <2>4. Changed(members[i], e) = IF add THEN members[i] \cup {e.server}
                                          ELSE members[i] \ {e.server}
      BY <1>4 DEF Changed, MemberOp
    <2>5. Changed(Range(nodes[i]), e) = Range(ns)
      BY <2>2, <1>4 DEF Changed, MemberOp
    <2>6. ChangedPeers(i, e.server, add) = Changed(members[i], e) \ {i}
      BY <2>4, <1>3 DEF ChangedPeers
    <2>7. Changed(members[i], e) \in SUBSET (Server \cup Target)
      BY <2>1, <2>4, <1>3
    <2>8. members' = [members EXCEPT ![i] = Changed(members[i], e)]
      BY <2>3, <2>4
    <2>9. peers' = [peers EXCEPT ![i] = Changed(members[i], e) \ {i}]
      BY <2>3, <2>6
    <2> HIDE DEF ns, add
    <2> QED  BY <2>2, <2>3, <2>5, <2>7, <2>8, <2>9, <1>3 DEF e
  <1>5. CASE e.op \notin MemberOp
    <2>1. /\ nodes' = nodes /\ members' = members /\ peers' = peers
          /\ \A S : Changed(S, e) = S
      BY <1>2, <1>5 DEF ApplyMembers, Changed, MemberOp
    <2> QED  BY <2>1, <1>3 DEF e
  <1> QED  BY <1>4, <1>5

LEMMA ApplyMoves ==
  ASSUME Base, NEW i \in Server, Apply(i)
  PROVE  /\ batch' \in [Server -> [at : 0..Len(log), upto : 0..Len(log)]]
         /\ reached' \in [Server -> 0..Len(log)]
         /\ \A j \in Server : j # i =>
              batch'[j] = batch[j] /\ reached'[j] = reached[j]
         /\ batch'[i] # NoBatch /\ batch'[i].at <= batch'[i].upto
         /\ batch'[i].at = Position(i) + 1
         /\ reached'[i] = IF Position(i) + 1 > reached[i] THEN Position(i) + 1
                                                         ELSE reached[i]
  <1> DEFINE new == [batch[i] EXCEPT !.at = batch[i].at + 1]
             p == Position(i)
  <1>b. TypeOK /\ Entries /\ Positions /\ Nodes  BY DEF Base
  <1>1. /\ p + 1 \in 1..Len(log) /\ batch[i].at = p
        /\ batch[i].at < batch[i].upto
    BY <1>b, AppliesNext
  <1>2. /\ batch \in [Server -> [at : 0..Len(log), upto : 0..Len(log)]]
        /\ reached \in [Server -> 0..Len(log)] /\ Len(log) \in Nat
    BY <1>b DEF TypeOK
  <1> HIDE DEF p
  <1>3. new.at = p + 1 /\ new.upto = batch[i].upto
    BY <1>1, <1>2
  <1>4. new \in [at : 0..Len(log), upto : 0..Len(log)]
    BY <1>1, <1>2
  <1>5. batch' = [batch EXCEPT ![i] = new]
    BY <1>2 DEF Apply
  <1>6. new # NoBatch /\ new.at <= new.upto
    BY <1>1, <1>2, <1>3 DEF NoBatch
  <1>7. reached' = [reached EXCEPT ![i] = IF p + 1 > reached[i] THEN p + 1
                                                              ELSE reached[i]]
    BY <1>1 DEF Apply
  <1> HIDE DEF new
  <1>8. /\ batch' \in [Server -> [at : 0..Len(log), upto : 0..Len(log)]]
        /\ batch'[i] = new
        /\ \A j \in Server : j # i => batch'[j] = batch[j]
    BY <1>2, <1>4, <1>5
  <1>9. /\ reached' \in [Server -> 0..Len(log)]
        /\ reached'[i] = IF p + 1 > reached[i] THEN p + 1 ELSE reached[i]
        /\ \A j \in Server : j # i => reached'[j] = reached[j]
    BY <1>1, <1>2, <1>7
  <1> QED  BY <1>3, <1>6, <1>8, <1>9 DEF p

LEMMA ApplyKeepsBase ==
  ASSUME Base, NEW i \in Server, Apply(i)
  PROVE  Base'
  <1>b. TypeOK /\ Entries /\ Positions /\ Nodes /\ PeersFollowMembers
    BY DEF Base
  <1>u. /\ now' = now /\ log' = log /\ leader' = leader
        /\ lastApplied' = lastApplied /\ call' = call
        /\ faults' = faults /\ turns' = turns
    BY DEF Apply
  <1>1. TypeOK'
    BY <1>b, <1>u, ApplyToStore, ApplyToMembers, ApplyMoves DEF TypeOK
  <1>2. Entries'  BY <1>b, <1>u DEF Entries
  <1>3. Positions'
    <2>1. Position(i)' = Position(i) + 1
      BY ApplyMoves DEF Position
    <2>2. \A j \in Server : j # i => Position(j)' = Position(j)
      BY <1>u, ApplyMoves DEF Position
    <2>3. /\ Position(i) \in Nat /\ reached[i] \in Nat /\ lastApplied[i] \in Nat
          /\ lastApplied[i] <= Position(i)
      <3>1. Position(i) = batch[i].at  BY <1>b, AppliesNext
      <3>2. batch[i].at \in Nat  BY <1>b DEF TypeOK
      <3> QED  BY <3>1, <3>2, <1>b DEF TypeOK, Positions
    <2> QED  BY <2>1, <2>2, <2>3, <1>b, <1>u, ApplyMoves DEF Positions
  <1>4. Nodes'
    BY <1>b, ApplyToMembers DEF Nodes
  <1>5. PeersFollowMembers'
    BY <1>b, ApplyToMembers DEF PeersFollowMembers, Changed
  <1> QED  BY <1>1, <1>2, <1>3, <1>4, <1>5 DEF Base

LEMMA BatchKeepsBase ==
  ASSUME Base, NEW i \in Server,
         ApplyStateMachine(i) \/ ApplyFails(i) \/ SetLastApplied(i)
  PROVE  Base'
  <1>b. TypeOK /\ Entries /\ Positions /\ Nodes /\ PeersFollowMembers
    BY DEF Base
  <1>u. /\ now' = now /\ log' = log /\ leader' = leader /\ db' = db
        /\ nodes' = nodes /\ members' = members /\ peers' = peers
        /\ reached' = reached /\ call' = call /\ turns' = turns
    BY DEF ApplyStateMachine, ApplyFails, SetLastApplied, storeVars
  <1>t. /\ batch \in [Server -> [at : 0..Len(log), upto : 0..Len(log)]]
        /\ lastApplied \in [Server -> 0..Len(log)] /\ Len(log) \in Nat
        /\ reached \in [Server -> 0..Len(log)]
    BY <1>b DEF TypeOK
  <1>n. NoBatch \in [at : 0..Len(log), upto : 0..Len(log)]
    BY <1>t DEF NoBatch
  <1>1. /\ batch' \in [Server -> [at : 0..Len(log), upto : 0..Len(log)]]
        /\ lastApplied' \in [Server -> 0..Len(log)]
        /\ faults' \in Nat
        /\ \A j \in Server : j # i =>
             batch'[j] = batch[j] /\ lastApplied'[j] = lastApplied[j]
        /\ batch'[i] # NoBatch => batch'[i].at <= batch'[i].upto
        /\ Position(i)' \in lastApplied'[i] .. Position(i)
    <2>1. CASE ApplyStateMachine(i)
      <3>1. PICK upto \in CommitIndex(i) :
              /\ lastApplied[i] < upto
              /\ batch' = [batch EXCEPT ![i] = [at |-> lastApplied[i],
                                                upto |-> upto]]
        BY <2>1 DEF ApplyStateMachine
      <3>2. upto \in 0..Len(log)  BY <3>1 DEF CommitIndex
      <3> DEFINE new == [at |-> lastApplied[i], upto |-> upto]
      <3>3. /\ new \in [at : 0..Len(log), upto : 0..Len(log)]
            /\ new.at = lastApplied[i] /\ new.upto = upto
            /\ new.at <= new.upto
        BY <1>t, <3>1, <3>2
      <3>4. new # NoBatch  BY <1>t, <3>1, <3>2 DEF NoBatch
      <3>5. batch' = [batch EXCEPT ![i] = new]  BY <3>1
      <3> HIDE DEF new
      <3>6. /\ lastApplied' = lastApplied /\ faults' = faults
            /\ batch[i] = NoBatch
        BY <2>1 DEF ApplyStateMachine
      <3>7. /\ batch' \in [Server -> [at : 0..Len(log), upto : 0..Len(log)]]
            /\ batch'[i] = new
            /\ \A j \in Server : j # i => batch'[j] = batch[j]
        BY <3>3, <3>5, <1>t
      <3>8. Position(i)' = lastApplied[i] /\ Position(i) = lastApplied[i]
        BY <3>3, <3>4, <3>6, <3>7 DEF Position
      <3> QED  BY <3>3, <3>6, <3>7, <3>8, <1>t, <1>b DEF TypeOK
    <2>2. CASE ApplyFails(i)
      <3>1. /\ lastApplied' = lastApplied /\ faults' = faults + 1
            /\ batch' = [batch EXCEPT ![i] = NoBatch]
        BY <2>2 DEF ApplyFails
      <3>2. /\ batch' \in [Server -> [at : 0..Len(log), upto : 0..Len(log)]]
            /\ batch'[i] = NoBatch
            /\ \A j \in Server : j # i => batch'[j] = batch[j]
        BY <3>1, <1>t, <1>n
      <3>3. Position(i)' = lastApplied[i]  BY <3>1, <3>2 DEF Position
      <3>4. lastApplied[i] <= Position(i) /\ Position(i) \in Nat
        BY <1>b, <1>t DEF Positions, Position
      <3>5. faults' \in Nat  BY <3>1, <1>b DEF TypeOK
      <3>6. Position(i)' \in lastApplied'[i] .. Position(i)
        BY <3>1, <3>3, <3>4, <1>t
      <3> QED  BY <3>1, <3>2, <3>5, <3>6, <1>t
    <2>3. CASE SetLastApplied(i)
      <3>1. /\ batch[i] # NoBatch /\ batch[i].at = batch[i].upto
            /\ lastApplied' = [lastApplied EXCEPT ![i] = batch[i].upto]
            /\ batch' = [batch EXCEPT ![i] = NoBatch] /\ faults' = faults
        BY <2>3 DEF SetLastApplied
      <3>2. /\ batch' \in [Server -> [at : 0..Len(log), upto : 0..Len(log)]]
            /\ batch'[i] = NoBatch
            /\ \A j \in Server : j # i => batch'[j] = batch[j]
        BY <3>1, <1>t, <1>n
      <3>3. batch[i].upto \in 0..Len(log)  BY <1>t
      <3>4. /\ lastApplied' \in [Server -> 0..Len(log)]
            /\ lastApplied'[i] = batch[i].upto
            /\ \A j \in Server : j # i => lastApplied'[j] = lastApplied[j]
        BY <3>1, <3>3, <1>t
      <3>5. Position(i) = batch[i].upto /\ Position(i)' = batch[i].upto
        BY <3>1, <3>2, <3>4 DEF Position
      <3> QED  BY <3>1, <3>2, <3>3, <3>4, <3>5, <1>b DEF TypeOK
    <2> QED  BY <2>1, <2>2, <2>3
  <1>2. TypeOK'  BY <1>1, <1>u, <1>b DEF TypeOK
  <1>3. Entries'  BY <1>b, <1>u DEF Entries
  <1>4. Positions'
    <2>1. \A j \in Server : j # i => Position(j)' = Position(j)
      BY <1>1 DEF Position
    <2>2. /\ lastApplied'[i] <= Position(i)'
          /\ Position(i)' <= reached'[i]
      <3>1. Position(i) <= reached[i] /\ Position(i) \in Nat
        BY <1>b, <1>t DEF Positions, Position
      <3>2. lastApplied'[i] \in Nat /\ reached[i] \in Nat  BY <1>1, <1>t
      <3> QED  BY <3>1, <3>2, <1>1, <1>u
    <2> QED  BY <2>1, <2>2, <1>1, <1>b, <1>u DEF Positions
  <1>5. Nodes'  BY <1>b, <1>u DEF Nodes
  <1>6. PeersFollowMembers'  BY <1>b, <1>u DEF PeersFollowMembers
  <1> QED  BY <1>2, <1>3, <1>4, <1>5, <1>6 DEF Base

\* The calls that a step of a client leads to.
LEMMA CallGivesUp ==
  ASSUME NEW s \in Call
  PROVE  LET new == [s EXCEPT !.stage = "timeout"]
         IN  /\ new \in Call /\ new.stage = "timeout"
             /\ new.at = s.at /\ new.index = s.index /\ new.since = s.since
  BY DEF Call

LEMMA CodeTyped ==
  ASSUME NEW e, NEW v
  PROVE  CodeOf(e, v) \in {"kOk", "kNotFound", "kLocked", "kError"}
  BY DEF CodeOf

LEMMA LastAnsweredTyped ==
  ASSUME TypeOK
  PROVE  LastAnswered \in 0..Len(log)
  <1> DEFINE J == {call[c].index : c \in {d \in Client : Answered(d) /\
                                                        call[d].code = "kOk"}}
  <1>1. J \in SUBSET (0..Len(log)) /\ Len(log) \in Nat
    BY DEF TypeOK
  <1>2. LastAnswered = Latest(J)  BY DEF LastAnswered
  <1> HIDE DEF J
  <1>3. Latest(J) = 0 \/ Latest(J) \in J  BY <1>1, LatestOf
  <1>4. 0 \in 0..Len(log)  BY <1>1
  <1>5. Latest(J) \in 0..Len(log)  BY <1>1, <1>3, <1>4
  <1> QED  BY <1>2, <1>5

LEMMA ExecuteCommandEffect ==
  ASSUME Base, NEW c \in Client, NEW e \in Requests(c), ExecuteCommand(c, e)
  PROVE  /\ e \in Entry /\ Formed(e)
         /\ log' \in Seq(Entry) /\ Len(log') = Len(log) + 1 /\ Len(log) \in Nat
         /\ \A j \in 1..Len(log) : log'[j] = log[j]
         /\ log'[Len(log) + 1] = e
         /\ call' \in [Client -> Call]
         /\ \A d \in Client : d # c => call'[d] = call[d]
         /\ call[c].stage = "new" /\ call'[c].stage = "waiting"
         /\ call'[c].at = leader /\ call'[c].index = Len(log) + 1
         /\ call'[c].since \in 0..Len(log)
  <1>b. TypeOK  BY DEF Base
  <1>1. e \in Entry /\ Formed(e)  BY <1>b, RequestsFormed
  <1>2. log \in Seq(Entry) /\ log' = Append(log, e) /\ call[c].stage = "new"
    BY <1>b DEF ExecuteCommand, TypeOK
  <1>3. /\ log' \in Seq(Entry) /\ Len(log') = Len(log) + 1 /\ Len(log) \in Nat
        /\ \A j \in 1..Len(log) : log'[j] = log[j]
        /\ log'[Len(log) + 1] = e
    BY <1>1, <1>2
  <1> DEFINE n == Len(log) + 1
             m == LastAnswered
             new == [call[c] EXCEPT !.stage = "waiting", !.at = leader,
                                    !.index = n, !.since = m]
  <1>4. n \in Nat /\ m \in Nat /\ m \in 0..Len(log) /\ leader \in Server
    BY <1>b, <1>3, LastAnsweredTyped DEF TypeOK
  <1>5. call' = [call EXCEPT ![c] = new]  BY DEF ExecuteCommand
  <1>6. call \in [Client -> Call] /\ call[c] \in Call  BY <1>b DEF TypeOK
  <1> HIDE DEF n, m
  <1>7. /\ new \in Call /\ new.stage = "waiting" /\ new.at = leader
        /\ new.index = n /\ new.since = m
    BY <1>4, <1>6 DEF Call
  <1> HIDE DEF new
  <1>8. /\ call' \in [Client -> Call] /\ call'[c] = new
        /\ \A d \in Client : d # c => call'[d] = call[d]
    BY <1>5, <1>6, <1>7
  <1> QED  BY <1>1, <1>2, <1>3, <1>4, <1>7, <1>8 DEF n, m

LEMMA ExecuteCommandKeepsBase ==
  ASSUME Base, NEW c \in Client, NEW e \in Requests(c), ExecuteCommand(c, e)
  PROVE  Base'
  <1>b. TypeOK /\ Entries /\ Positions /\ Nodes /\ PeersFollowMembers
    BY DEF Base
  <1>u. /\ now' = now /\ leader' = leader /\ db' = db
        /\ nodes' = nodes /\ members' = members /\ peers' = peers
        /\ reached' = reached /\ lastApplied' = lastApplied /\ batch' = batch
        /\ faults' = faults /\ turns' = turns
    BY DEF ExecuteCommand, storeVars, applyVars
  <1>1. \A x : x \in 0..Len(log) => x \in 0..Len(log')
    BY ExecuteCommandEffect
  <1>2. TypeOK'
    <2>1. /\ lastApplied \in [Server -> 0..Len(log')]
          /\ reached \in [Server -> 0..Len(log')]
      BY <1>1, <1>b DEF TypeOK
    <2>2. batch \in [Server -> [at : 0..Len(log'), upto : 0..Len(log')]]
      BY <1>1, <1>b DEF TypeOK
    <2>3. \A d \in Client : call'[d].index \in 0..Len(log')
      <3>1. \A d \in Client : d # c => call'[d].index \in 0..Len(log)
        BY <1>b, ExecuteCommandEffect DEF TypeOK
      <3>2. call'[c].index \in 0..Len(log')
        BY ExecuteCommandEffect
      <3> QED  BY <3>1, <3>2, <1>1
    <2>4. log' \in Seq(Entry) /\ call' \in [Client -> Call]
      BY ExecuteCommandEffect
    <2> QED  BY <2>1, <2>2, <2>3, <2>4, <1>u, <1>b DEF TypeOK
  <1>3. Entries'
    <2>1. \A j \in 1..Len(log') : j \in 1..Len(log) \/ j = Len(log) + 1
      BY ExecuteCommandEffect
    <2> QED  BY <2>1, <1>b, ExecuteCommandEffect DEF Entries
  <1>4. Positions'  BY <1>b, <1>u DEF Positions, Position
  <1>5. Nodes'  BY <1>b, <1>u DEF Nodes
  <1>6. PeersFollowMembers'  BY <1>b, <1>u DEF PeersFollowMembers
  <1> QED  BY <1>2, <1>3, <1>4, <1>5, <1>6 DEF Base

\* What a call finds in db_ when its wait is over.
Sought(c) ==
  CASE EntryOf(c).key # Nil -> db[call[c].at][EntryOf(c).key]
    [] EntryOf(c).op = "kGetAllServers" -> Membership(Range(nodes[call[c].at]))
    [] OTHER -> Absent

LEMMA SoughtKinds ==
  ASSUME Base, NEW c \in Client, call[c].at \in Server,
         call[c].index \in 1..Len(log)
  PROVE  /\ EntryOf(c) \in Entry /\ Formed(EntryOf(c))
         /\ EntryOf(c).op \in KeyOp =>
              /\ EntryOf(c).key \in Key
              /\ Sought(c) = db[call[c].at][EntryOf(c).key]
              /\ Sought(c) \in Value
         /\ EntryOf(c).op = "kGetAllServers" =>
              Sought(c) = Membership(Range(nodes[call[c].at]))
         /\ Sought(c) \in Found
  <1> DEFINE e == EntryOf(c)
             i == call[c].at
  <1>b. TypeOK /\ Entries  BY DEF Base
  <1>1. e \in Entry /\ Formed(e)  BY <1>b DEF TypeOK, Entries, EntryOf
  <1>2. db \in [Server -> [Key -> Value]] /\ Nil \notin Key
    BY <1>b, ApplyAssumption DEF TypeOK
  <1>3. Membership(Range(nodes[i])) \in Found
    <2>1. nodes[i] \in Seq(Server \cup Target)  BY <1>b DEF TypeOK
    <2>2. Range(nodes[i]) \subseteq Server \cup Target  BY <2>1 DEF Range
    <2> QED  BY <2>2 DEF Membership, Found
  <1>4. Absent \in Found  BY Kinds DEF Found
  <1>5. \A v \in Value : v \in Found  BY DEF Found
  <1>6. /\ e.op \in KeyOp => e.key \in Key
        /\ e.op \notin KeyOp => e.key = Nil
        /\ "kGetAllServers" \notin KeyOp
    BY <1>1 DEF Formed, KeyOp
  <1>7. Sought(c) = IF e.key # Nil THEN db[i][e.key]
                    ELSE IF e.op = "kGetAllServers"
                         THEN Membership(Range(nodes[i])) ELSE Absent
    BY <1>2, <1>6 DEF Sought
  <1> HIDE DEF e, i
  <1>8. i \in Server  BY DEF i
  <1>9. e.key # Nil => e.key \in Key /\ e.op \in KeyOp  BY <1>6
  <1>10. e.op \in KeyOp => e.key # Nil  BY <1>2, <1>6
  <1>11. e.key \in Key => db[i][e.key] \in Value  BY <1>2, <1>8
  <1> QED
    <2>1. e.op \in KeyOp => /\ e.key \in Key /\ Sought(c) = db[i][e.key]
                            /\ Sought(c) \in Value
      BY <1>6, <1>7, <1>10, <1>11
    <2>2. e.op = "kGetAllServers" => Sought(c) = Membership(Range(nodes[i]))
      BY <1>6, <1>7
    <2>3. Sought(c) \in Found
      BY <1>3, <1>4, <1>5, <1>7, <1>9, <1>11
    <2> QED  BY <2>1, <2>2, <2>3, <1>1 DEF e, i

LEMMA AnswerEffect ==
  ASSUME Base, Calls, NEW c \in Client, Answer(c)
  PROVE  /\ call[c].stage = "waiting" /\ call[c].at \in Server
         /\ call[c].index \in 1..Len(log)
         /\ lastApplied[call[c].at] >= call[c].index
         /\ call' \in [Client -> Call]
         /\ \A d \in Client : d # c => call'[d] = call[d]
         /\ call'[c].stage = "answered" /\ call'[c].value = Sought(c)
         /\ call'[c].code = CodeOf(EntryOf(c), Sought(c))
         /\ call'[c].at = call[c].at /\ call'[c].index = call[c].index
         /\ call'[c].since = call[c].since
  <1>b. TypeOK  BY DEF Base
  <1>1. /\ call[c].stage = "waiting"
        /\ lastApplied[call[c].at] >= call[c].index
    BY DEF Answer, Applied
  <1>2. call[c].index \in 0..Len(log) /\ Len(log) \in Nat  BY <1>b DEF TypeOK
  <1>3. call[c].index # 0  BY <1>1 DEF Calls
  <1>4. call[c].index \in 1..Len(log)  BY <1>2, <1>3
  <1>5. call[c].at \in Server  BY <1>4, <1>2 DEF Calls, Issued
  <1> DEFINE w == CodeOf(EntryOf(c), Sought(c))
             v == Sought(c)
             new == [call[c] EXCEPT !.stage = "answered", !.code = w, !.value = v]
  <1>6. call' = [call EXCEPT ![c] = new]
    BY DEF Answer, Sought
  <1>7. v \in Found  BY <1>4, <1>5, SoughtKinds
  <1>8. w \in {"kOk", "kNotFound", "kLocked", "kError"}  BY CodeTyped
  <1>9. call \in [Client -> Call] /\ call[c] \in Call  BY <1>b DEF TypeOK
  <1> HIDE DEF w, v
  <1>10. /\ new \in Call /\ new.stage = "answered" /\ new.code = w
         /\ new.value = v /\ new.at = call[c].at /\ new.index = call[c].index
         /\ new.since = call[c].since
    BY <1>7, <1>8, <1>9 DEF Call
  <1> HIDE DEF new
  <1>11. /\ call' \in [Client -> Call] /\ call'[c] = new
         /\ \A d \in Client : d # c => call'[d] = call[d]
    BY <1>6, <1>9, <1>10
  <1> QED  BY <1>1, <1>4, <1>5, <1>10, <1>11 DEF w, v

\* A call that is answered stays so; the others may be given up.
LEMMA GivingUp ==
  ASSUME TypeOK, (\E c \in Client : Timeout(c)) \/ (\E i \in Server : Restart(i))
  PROVE  /\ call' \in [Client -> Call]
         /\ \A d \in Client :
              /\ call'[d].at = call[d].at /\ call'[d].index = call[d].index
              /\ call'[d].since = call[d].since
              /\ call'[d].stage = "new" <=> call[d].stage = "new"
              /\ call'[d].stage = "answered" => call'[d] = call[d]
         /\ log' = log /\ now' = now /\ leader' = leader /\ db' = db
         /\ nodes' = nodes /\ reached' = reached /\ turns' = turns
         /\ lastApplied' = lastApplied
  <1>1. ASSUME NEW c \in Client, Timeout(c)
        PROVE  /\ call' \in [Client -> Call]
               /\ \A d \in Client :
                    \/ call'[d] = call[d]
                    \/ /\ call[d].stage = "waiting"
                       /\ call'[d] = [call[d] EXCEPT !.stage = "timeout"]
    <2> DEFINE new == [call[c] EXCEPT !.stage = "timeout"]
    <2>1. call \in [Client -> Call] /\ call[c] \in Call  BY DEF TypeOK
    <2>2. call' = [call EXCEPT ![c] = new] /\ call[c].stage = "waiting"
      BY <1>1, <2>1 DEF Timeout
    <2>3. new \in Call  BY <2>1, CallGivesUp
    <2> HIDE DEF new
    <2>4. /\ call' \in [Client -> Call] /\ call'[c] = new
          /\ \A d \in Client : d # c => call'[d] = call[d]
      BY <2>1, <2>2, <2>3
    <2> QED  BY <2>2, <2>4 DEF new
  <1>2. ASSUME NEW i \in Server, Restart(i)
        PROVE  /\ call' \in [Client -> Call]
               /\ \A d \in Client :
                    \/ call'[d] = call[d]
                    \/ /\ call[d].stage = "waiting"
                       /\ call'[d] = [call[d] EXCEPT !.stage = "timeout"]
    <2>1. call' = [c \in Client |->
                     IF call[c].stage = "waiting" /\ call[c].at = i
                     THEN [call[c] EXCEPT !.stage = "timeout"] ELSE call[c]]
      BY <1>2 DEF Restart
    <2>2. \A c \in Client :
            call[c] \in Call /\ [call[c] EXCEPT !.stage = "timeout"] \in Call
      BY CallGivesUp DEF TypeOK
    <2> QED  BY <2>1, <2>2
  <1>3. /\ call' \in [Client -> Call]
        /\ \A d \in Client :
             \/ call'[d] = call[d]
             \/ /\ call[d].stage = "waiting"
                /\ call'[d] = [call[d] EXCEPT !.stage = "timeout"]
    BY <1>1, <1>2
  <1>4. ASSUME NEW d \in Client
        PROVE  /\ call'[d].at = call[d].at /\ call'[d].index = call[d].index
               /\ call'[d].since = call[d].since
               /\ call'[d].stage = "new" <=> call[d].stage = "new"
               /\ call'[d].stage = "answered" => call'[d] = call[d]
    <2>1. call[d] \in Call  BY DEF TypeOK
    <2> QED  BY <2>1, <1>3, CallGivesUp
  <1>5. /\ log' = log /\ now' = now /\ leader' = leader /\ db' = db
        /\ nodes' = nodes /\ reached' = reached /\ turns' = turns
    BY DEF Timeout, Restart, storeVars, applyVars
  <1>6. lastApplied' = lastApplied
    <2>1. ASSUME NEW i \in Server, Restart(i) PROVE lastApplied' = lastApplied
      BY <2>1 DEF Restart, RecoveredApplied, TypeOK
    <2>2. ASSUME NEW c \in Client, Timeout(c) PROVE lastApplied' = lastApplied
      BY <2>2 DEF Timeout, applyVars
    <2> QED  BY <2>1, <2>2
  <1> QED  BY <1>3, <1>4, <1>5, <1>6

LEMMA RestartKeepsBase ==
  ASSUME Base, NEW i \in Server, Restart(i)
  PROVE  Base' /\ \A j \in Server : /\ Position(j)' \in Nat
                                    /\ Position(j)' <= Position(j)
  <1>b. TypeOK /\ Entries /\ Positions /\ Nodes /\ PeersFollowMembers
    BY DEF Base
  <1>u. /\ log' = log /\ now' = now /\ leader' = leader /\ db' = db
        /\ nodes' = nodes /\ reached' = reached /\ turns' = turns
        /\ lastApplied' = lastApplied /\ call' \in [Client -> Call]
        /\ \A d \in Client : call'[d].index = call[d].index
    BY <1>b, GivingUp
  <1>r. /\ batch' = [batch EXCEPT ![i] = NoBatch]
        /\ members' = [members EXCEPT ![i] = Range(nodes[i])]
        /\ peers' = [peers EXCEPT ![i] = Range(nodes[i]) \ {i}]
        /\ faults' = faults + 1
    BY DEF Restart, RecoveredMembers
  <1>t. /\ batch \in [Server -> [at : 0..Len(log), upto : 0..Len(log)]]
        /\ members \in [Server -> SUBSET (Server \cup Target)]
        /\ peers \in [Server -> SUBSET (Server \cup Target)]
        /\ nodes[i] \in Seq(Server \cup Target) /\ Len(log) \in Nat
        /\ lastApplied \in [Server -> 0..Len(log)]
    BY <1>b DEF TypeOK
  <1>1. NoBatch \in [at : 0..Len(log), upto : 0..Len(log)]
    BY <1>t DEF NoBatch
  <1>2. Range(nodes[i]) \subseteq Server \cup Target  BY <1>t DEF Range
  <1>3. /\ batch' \in [Server -> [at : 0..Len(log), upto : 0..Len(log)]]
        /\ batch'[i] = NoBatch
        /\ \A j \in Server : j # i => batch'[j] = batch[j]
    BY <1>1, <1>t, <1>r
  <1>4. /\ members' \in [Server -> SUBSET (Server \cup Target)]
        /\ members'[i] = Range(nodes[i])
        /\ \A j \in Server : j # i => members'[j] = members[j]
    BY <1>2, <1>t, <1>r
  <1>5. /\ peers' \in [Server -> SUBSET (Server \cup Target)]
        /\ peers'[i] = Range(nodes[i]) \ {i}
        /\ \A j \in Server : j # i => peers'[j] = peers[j]
    <2>1. Range(nodes[i]) \ {i} \subseteq Server \cup Target  BY <1>2
    <2> QED  BY <2>1, <1>t, <1>r
  <1>6. faults' \in Nat  BY <1>b, <1>r DEF TypeOK
  <1>7. TypeOK'
    BY <1>b, <1>u, <1>3, <1>4, <1>5, <1>6 DEF TypeOK
  <1>8. \A j \in Server : /\ Position(j)' \in Nat /\ Position(j) \in Nat
                          /\ Position(j)' <= Position(j)
                          /\ lastApplied'[j] <= Position(j)'
    <2>1. \A j \in Server : j # i => Position(j)' = Position(j)
      BY <1>u, <1>3 DEF Position
    <2>2. Position(i)' = lastApplied[i]  BY <1>u, <1>3 DEF Position
    <2>3. \A j \in Server : /\ Position(j) \in Nat /\ lastApplied[j] \in Nat
                            /\ lastApplied[j] <= Position(j)
      BY <1>b, <1>t DEF Positions, Position
    <2> QED  BY <2>1, <2>2, <2>3, <1>u
  <1>9. Positions'
    <2>1. \A j \in Server : Position(j) <= reached[j] /\ reached[j] \in Nat
      BY <1>b DEF Positions, TypeOK
    <2>2. \A j \in Server : batch'[j] # NoBatch => batch'[j].at <= batch'[j].upto
      BY <1>b, <1>3 DEF Positions
    <2> QED  BY <2>1, <2>2, <1>8, <1>u DEF Positions
  <1>10. Entries' /\ Nodes'  BY <1>b, <1>u DEF Entries, Nodes
  <1>11. PeersFollowMembers'
    BY <1>b, <1>u, <1>4, <1>5 DEF PeersFollowMembers
  <1> QED  BY <1>7, <1>8, <1>9, <1>10, <1>11 DEF Base

\* The steps that touch neither the store nor the apply thread.
LEMMA OthersKeepBase ==
  ASSUME Base, Calls,
         \/ \E c \in Client : Answer(c) \/ Timeout(c)
         \/ Turn \/ Tick \/ UNCHANGED vars
  PROVE  Base' /\ UNCHANGED <<log, storeVars, applyVars>>
  <1>b. TypeOK /\ Entries /\ Positions /\ Nodes /\ PeersFollowMembers
    BY DEF Base
  <1>u. UNCHANGED <<log, storeVars, applyVars>>
    BY DEF Answer, Timeout, Turn, Tick, vars
  <1>v. /\ log' = log /\ db' = db /\ nodes' = nodes /\ members' = members
        /\ peers' = peers /\ lastApplied' = lastApplied /\ batch' = batch
        /\ reached' = reached
    BY <1>u DEF storeVars, applyVars
  <1>1. /\ call' \in [Client -> Call]
        /\ \A d \in Client : call'[d].index = call[d].index
    <2>1. ASSUME NEW c \in Client, Answer(c)
          PROVE  /\ call' \in [Client -> Call]
                 /\ \A d \in Client : call'[d].index = call[d].index
      BY <2>1, AnswerEffect
    <2>2. ASSUME NEW c \in Client, Timeout(c)
          PROVE  /\ call' \in [Client -> Call]
                 /\ \A d \in Client : call'[d].index = call[d].index
      BY <2>2, <1>b, GivingUp
    <2>3. CASE Turn \/ Tick \/ UNCHANGED vars
      BY <2>3, <1>b DEF Turn, Tick, vars, TypeOK
    <2> QED  BY <2>1, <2>2, <2>3
  <1>2. now' \in 0..MaxTime /\ leader' \in Server
    <2>1. now \in 0..MaxTime /\ leader \in Server /\ MaxTime \in Nat
      BY <1>b, ApplyBoundAssumption DEF TypeOK
    <2>2. CASE \E c \in Client : Answer(c) \/ Timeout(c)
      BY <2>1, <2>2 DEF Answer, Timeout
    <2>3. CASE Turn  BY <2>1, <2>3 DEF Turn
    <2>4. CASE Tick  BY <2>1, <2>4 DEF Tick
    <2>5. CASE UNCHANGED vars  BY <2>1, <2>5 DEF vars
    <2> QED  BY <2>2, <2>3, <2>4, <2>5
  <1>3. faults' \in Nat /\ turns' \in Nat
    <2>1. faults \in Nat /\ turns \in Nat  BY <1>b DEF TypeOK
    <2>2. ASSUME NEW c \in Client, Answer(c) \/ Timeout(c)
          PROVE  faults' \in Nat /\ turns' \in Nat
      <3>1. CASE Answer(c)  BY <2>1, <3>1 DEF Answer
      <3>2. CASE Timeout(c)  BY <2>1, <3>2 DEF Timeout
      <3> QED  BY <2>2, <3>1, <3>2
    <2>3. CASE Turn  BY <2>1, <2>3 DEF Turn
    <2>4. CASE Tick  BY <2>1, <2>4 DEF Tick
    <2>5. CASE UNCHANGED vars  BY <2>1, <2>5 DEF vars
    <2> QED  BY <2>2, <2>3, <2>4, <2>5
  <1>4. TypeOK'
    BY <1>b, <1>v, <1>1, <1>2, <1>3 DEF TypeOK
  <1>5. Entries' /\ Nodes' /\ PeersFollowMembers'
    BY <1>b, <1>v DEF Entries, Nodes, PeersFollowMembers
  <1>6. Positions'  BY <1>b, <1>v DEF Positions, Position
  <1> QED  BY <1>u, <1>4, <1>5, <1>6 DEF Base

-----------------------------------------------------------------------------
(* Calls and their entries *)

LEMMA CallsKept ==
  ASSUME Base, Calls, log' = log,
         (turns' = turns /\ leader' = leader) \/ turns' # 0,
         \A i \in Server : lastApplied'[i] \in Nat
                           /\ lastApplied'[i] >= lastApplied[i],
         \A d \in Client :
           /\ call'[d].at = call[d].at /\ call'[d].index = call[d].index
           /\ call'[d].since = call[d].since
           /\ call'[d].stage = "new" <=> call[d].stage = "new"
           /\ call'[d].stage = "answered" =>
                call[d].stage = "answered" \/ lastApplied[call[d].at] >= call[d].index
  PROVE  Calls'
  <1>t. /\ \A d \in Client : call[d].index \in Nat
        /\ \A i \in Server : lastApplied[i] \in Nat
    BY DEF Base, TypeOK
  <1>1. ASSUME NEW d \in Client, call[d].index > 0 PROVE Issued(d)'
    <2>1. Issued(d)  BY <1>1 DEF Calls
    <2>2. call[d].at \in Server /\ call[d].since < call[d].index
      BY <2>1 DEF Issued
    <2>3. call'[d].stage = "answered" => lastApplied[call[d].at] >= call[d].index
      BY <2>1 DEF Issued, Answered
    <2>4. call'[d].stage = "answered" => lastApplied'[call[d].at] >= call[d].index
      BY <2>2, <2>3, <1>t
    <2>5. turns' = 0 => call[d].at = leader'
      BY <2>1 DEF Issued
    <2> QED  BY <2>2, <2>4, <2>5 DEF Issued, Answered
  <1>2. \A d \in Client : call'[d].index > 0 => Issued(d)'
    BY <1>1
  <1>3. \A d \in Client : call'[d].stage = "new" <=> call'[d].index = 0
    BY DEF Calls
  <1>4. \A c, d \in Client :
          call'[c].index = call'[d].index /\ call'[c].index > 0 => c = d
    BY DEF Calls
  <1>5. \A j \in 1..Len(log') : \E c \in Client : call'[c].index = j
    BY DEF Calls
  <1> QED  BY <1>2, <1>3, <1>4, <1>5 DEF Calls

LEMMA ExecuteCommandKeepsCalls ==
  ASSUME Base, Calls, NEW c \in Client, NEW e \in Requests(c),
         ExecuteCommand(c, e)
  PROVE  Calls'
  <1>u. leader' = leader /\ turns' = turns /\ lastApplied' = lastApplied
    BY DEF ExecuteCommand, applyVars
  <1>t. /\ \A d \in Client : call[d].index \in 0..Len(log)
        /\ Len(log) \in Nat /\ leader \in Server
    BY DEF Base, TypeOK
  <1> DEFINE n == Len(log) + 1
  <1>e. /\ Len(log') = n
        /\ \A d \in Client : d # c => call'[d] = call[d]
        /\ call[c].stage = "new" /\ call'[c].stage = "waiting"
        /\ call'[c].at = leader /\ call'[c].index = n
        /\ call'[c].since \in 0..Len(log)
    BY ExecuteCommandEffect
  <1>n. n \in Nat /\ n > 0 /\ n \notin 0..Len(log)
        /\ \A j \in 1..n : j \in 1..Len(log) \/ j = n
    BY <1>t
  <1>s. \A m \in 0..Len(log) : m < n  BY <1>t
  <1> HIDE DEF n
  <1>c. call[c].index = 0  BY <1>e DEF Calls
  <1>1. \A d \in Client : call'[d].stage = "new" <=> call'[d].index = 0
    BY <1>e, <1>n DEF Calls
  <1>2. \A d \in Client : call'[d].index > 0 => Issued(d)'
    <2>1. Issued(c)'
      BY <1>e, <1>s, <1>t, <1>u DEF Issued, Answered
    <2>2. ASSUME NEW d \in Client, d # c, call'[d].index > 0
          PROVE  Issued(d)'
      <3>1. call'[d] = call[d] /\ Issued(d)  BY <2>2, <1>e DEF Calls
      <3> QED  BY <3>1, <1>u DEF Issued, Answered
    <2> QED  BY <2>1, <2>2
  <1>3. \A a, d \in Client :
          call'[a].index = call'[d].index /\ call'[a].index > 0 => a = d
    <2>1. \A d \in Client : d # c => call'[d].index \in 0..Len(log)
      BY <1>e, <1>t
    <2>2. \A d \in Client : call'[d].index = n => d = c
      BY <2>1, <1>n
    <2> QED  BY <2>2, <1>e DEF Calls
  <1>4. \A j \in 1..Len(log') : \E d \in Client : call'[d].index = j
    <2>1. ASSUME NEW j \in 1..Len(log) PROVE \E d \in Client : call'[d].index = j
      <3>1. PICK d \in Client : call[d].index = j  BY DEF Calls
      <3>2. d # c  BY <3>1, <1>c
      <3> QED  BY <3>1, <3>2, <1>e
    <2> QED  BY <2>1, <1>e, <1>n
  <1> QED  BY <1>1, <1>2, <1>3, <1>4 DEF Calls

LEMMA CallsNext ==
  ASSUME Base, Base', Calls, [Next]_vars
  PROVE  Calls'
  <1>t. /\ \A i \in Server : lastApplied[i] \in Nat /\ lastApplied'[i] \in Nat
        /\ turns \in Nat
    BY DEF Base, TypeOK
  <1>1. ASSUME NEW i \in Server, ApplyStateMachine(i) \/ Apply(i) \/ ApplyFails(i)
        PROVE  Calls'
    <2>1. /\ log' = log /\ turns' = turns /\ leader' = leader
          /\ lastApplied' = lastApplied /\ call' = call
      BY <1>1 DEF ApplyStateMachine, Apply, ApplyFails
    <2> QED  BY <2>1, <1>t, CallsKept
  <1>2. ASSUME NEW i \in Server, SetLastApplied(i) PROVE Calls'
    <2>1. /\ log' = log /\ turns' = turns /\ leader' = leader /\ call' = call
          /\ lastApplied' = [lastApplied EXCEPT ![i] = batch[i].upto]
          /\ batch[i] # NoBatch /\ batch[i].at = batch[i].upto
      BY <1>2 DEF SetLastApplied
    <2>2. lastApplied[i] <= batch[i].upto /\ batch[i].upto \in Nat
      BY <2>1 DEF Base, TypeOK, Positions, Position
    <2>3. \A j \in Server : /\ lastApplied'[j] \in Nat
                            /\ lastApplied'[j] >= lastApplied[j]
      <3>1. lastApplied \in [Server -> 0..Len(log)]  BY DEF Base, TypeOK
      <3>2. /\ lastApplied'[i] = batch[i].upto
            /\ \A j \in Server : j # i => lastApplied'[j] = lastApplied[j]
        BY <3>1, <2>1
      <3> QED  BY <3>2, <2>2, <1>t
    <2> QED  BY <2>1, <2>3, CallsKept
  <1>3. ASSUME (\E c \in Client : Timeout(c)) \/ (\E i \in Server : Restart(i))
        PROVE  Calls'
    <2>1. TypeOK  BY DEF Base
    <2>2. /\ log' = log /\ turns' = turns /\ leader' = leader
          /\ lastApplied' = lastApplied
          /\ \A d \in Client :
               /\ call'[d].at = call[d].at /\ call'[d].index = call[d].index
               /\ call'[d].since = call[d].since
               /\ call'[d].stage = "new" <=> call[d].stage = "new"
               /\ call'[d].stage = "answered" => call'[d] = call[d]
      BY <1>3, <2>1, GivingUp
    <2>3. /\ \A i \in Server : lastApplied'[i] \in Nat
                               /\ lastApplied'[i] >= lastApplied[i]
          /\ \A d \in Client :
               call'[d].stage = "answered" => call[d].stage = "answered"
      BY <2>2, <1>t
    <2> QED  BY <2>2, <2>3, CallsKept
  <1>4. ASSUME NEW c \in Client, Answer(c) PROVE Calls'
    <2>1. /\ log' = log /\ turns' = turns /\ leader' = leader
          /\ lastApplied' = lastApplied
      BY <1>4 DEF Answer, applyVars
    <2>2. \A d \in Client :
            /\ call'[d].at = call[d].at /\ call'[d].index = call[d].index
            /\ call'[d].since = call[d].since
            /\ call'[d].stage = "new" <=> call[d].stage = "new"
            /\ call'[d].stage = "answered" =>
                 call[d].stage = "answered" \/ lastApplied[call[d].at] >= call[d].index
      BY <1>4, AnswerEffect
    <2>3. \A i \in Server : lastApplied'[i] \in Nat
                            /\ lastApplied'[i] >= lastApplied[i]
      BY <2>1, <1>t
    <2> QED  BY <2>1, <2>2, <2>3, CallsKept
  <1>5. CASE Turn \/ Tick \/ UNCHANGED vars
    <2>1. /\ log' = log /\ lastApplied' = lastApplied /\ call' = call
          /\ (turns' = turns /\ leader' = leader) \/ turns' # 0
      <3>1. CASE Turn
        <4>1. turns' = turns + 1 /\ turns' # 0  BY <3>1, <1>t DEF Turn
        <4> QED  BY <3>1, <4>1 DEF Turn, applyVars
      <3>2. CASE Tick  BY <3>2 DEF Tick, applyVars
      <3>3. CASE UNCHANGED vars  BY <3>3 DEF vars, applyVars
      <3> QED  BY <1>5, <3>1, <3>2, <3>3
    <2> QED  BY <2>1, <1>t, CallsKept
  <1>6. ASSUME NEW c \in Client, NEW e \in Requests(c), ExecuteCommand(c, e)
        PROVE  Calls'
    BY <1>6, ExecuteCommandKeepsCalls
  <1> QED  BY <1>1, <1>2, <1>3, <1>4, <1>5, <1>6 DEF Next

LEMMA BaseNext ==
  ASSUME Base, Calls, [Next]_vars
  PROVE  Base'
  BY ApplyKeepsBase, BatchKeepsBase, ExecuteCommandKeepsBase,
     RestartKeepsBase, OthersKeepBase DEF Next

LEMMA InitBase ==
  ASSUME Init
  PROVE  Base /\ Calls
  <1>1. Len(log) = 0 /\ log \in Seq(Entry)  BY DEF Init
  <1>2. TypeOK
    <2>1. /\ db \in [Server -> [Key -> Value]]
          /\ nodes \in [Server -> Seq(Server \cup Target)]
      <3>1. SeqOf(Server) \in Seq(Server \cup Target)
        BY ServerList
      <3> QED  BY <3>1, Kinds DEF Init
    <2>2. /\ members \in [Server -> SUBSET (Server \cup Target)]
          /\ peers \in [Server -> SUBSET (Server \cup Target)]
      BY DEF Init
    <2>3. /\ lastApplied \in [Server -> 0..Len(log)]
          /\ reached \in [Server -> 0..Len(log)]
          /\ batch \in [Server -> [at : 0..Len(log), upto : 0..Len(log)]]
      BY <1>1 DEF Init, NoBatch
    <2>4. /\ call \in [Client -> Call]
          /\ \A c \in Client : call[c].index \in 0..Len(log)
      <3>1. Absent \in Found  BY Kinds DEF Found
      <3>2. NotCalled \in Call /\ NotCalled.index = 0
        BY <3>1 DEF NotCalled, Call
      <3> QED  BY <3>2, <1>1 DEF Init
    <2>5. now \in 0..MaxTime /\ leader \in Server /\ {faults, turns} \subseteq Nat
      BY ApplyBoundAssumption, ServerList DEF Init
    <2> QED  BY <1>1, <2>1, <2>2, <2>3, <2>4, <2>5 DEF TypeOK
  <1>3. Entries  BY <1>1 DEF Entries
  <1>4. Positions  BY DEF Positions, Position, Init, NoBatch
  <1>5. Nodes  BY ServerList DEF Nodes, Init
  <1>6. PeersFollowMembers  BY ServerList DEF PeersFollowMembers, Init
  <1>7. Calls  BY <1>1 DEF Calls, Init, NotCalled
  <1> QED  BY <1>2, <1>3, <1>4, <1>5, <1>6, <1>7 DEF Base

-----------------------------------------------------------------------------
(* The state follows the log *)

Placed(i) ==
  /\ Position(i) \in Nat /\ reached[i] \in Nat /\ lastApplied[i] \in Nat
  /\ lastApplied[i] <= Position(i) /\ Position(i) <= reached[i]
  /\ reached[i] <= Len(log) /\ Len(log) \in Nat

LEMMA PlacedAll == Base => \A i \in Server : Placed(i)
  <1> SUFFICES ASSUME Base, NEW i \in Server PROVE Placed(i)
    OBVIOUS
  <1>1. /\ reached[i] \in 0..Len(log) /\ lastApplied[i] \in 0..Len(log)
        /\ batch[i].at \in 0..Len(log) /\ Len(log) \in Nat
    BY DEF Base, TypeOK
  <1>2. Position(i) \in Nat  BY <1>1 DEF Position
  <1>3. lastApplied[i] <= Position(i) /\ Position(i) <= reached[i]
    BY DEF Base, Positions
  <1> QED  BY <1>1, <1>2, <1>3 DEF Placed

LEMMA PlacedAllNext == Base' => (\A i \in Server : Placed(i))'
  BY PlacedAll, PTL

\* Steps other than Apply keep the position or go back with it.
LEMMA BatchGoesBack ==
  ASSUME Base, NEW i \in Server,
         ApplyStateMachine(i) \/ ApplyFails(i) \/ SetLastApplied(i)
  PROVE  \A j \in Server : Position(j)' <= Position(j)
  <1>t. /\ batch \in [Server -> [at : 0..Len(log), upto : 0..Len(log)]]
        /\ lastApplied \in [Server -> 0..Len(log)] /\ Len(log) \in Nat
    BY DEF Base, TypeOK
  <1>p. \A j \in Server : Position(j) \in Nat /\ lastApplied[j] <= Position(j)
    BY PlacedAll DEF Placed
  <1>1. CASE ApplyStateMachine(i)
    <2>1. PICK u : /\ batch' = [batch EXCEPT ![i] = [at |-> lastApplied[i], upto |-> u]]
                   /\ batch[i] = NoBatch
      BY <1>1 DEF ApplyStateMachine
    <2>2. lastApplied' = lastApplied  BY <1>1 DEF ApplyStateMachine
    <2>3. /\ batch'[i].at = lastApplied[i]
          /\ \A j \in Server : j # i => batch'[j] = batch[j]
      BY <2>1, <1>t
    <2>4. Position(i)' = lastApplied[i]  BY <2>2, <2>3 DEF Position
    <2>5. \A j \in Server : j # i => Position(j)' = Position(j)
      BY <2>2, <2>3 DEF Position
    <2> QED  BY <2>4, <2>5, <1>p
  <1>2. CASE ApplyFails(i)
    <2>1. batch' = [batch EXCEPT ![i] = NoBatch] /\ lastApplied' = lastApplied
      BY <1>2 DEF ApplyFails
    <2>2. /\ batch'[i] = NoBatch
          /\ \A j \in Server : j # i => batch'[j] = batch[j]
      BY <2>1, <1>t
    <2>3. Position(i)' = lastApplied[i]  BY <2>1, <2>2 DEF Position
    <2>4. \A j \in Server : j # i => Position(j)' = Position(j)
      BY <2>1, <2>2 DEF Position
    <2> QED  BY <2>3, <2>4, <1>p
  <1>3. CASE SetLastApplied(i)
    <2>1. /\ batch' = [batch EXCEPT ![i] = NoBatch] /\ batch[i] # NoBatch
          /\ lastApplied' = [lastApplied EXCEPT ![i] = batch[i].upto]
          /\ batch[i].at = batch[i].upto
      BY <1>3 DEF SetLastApplied
    <2>2. /\ batch'[i] = NoBatch /\ lastApplied'[i] = batch[i].at
          /\ \A j \in Server : j # i => /\ batch'[j] = batch[j]
                                        /\ lastApplied'[j] = lastApplied[j]
      BY <2>1, <1>t
    <2>3. Position(i)' = Position(i)  BY <2>1, <2>2 DEF Position
    <2>4. \A j \in Server : j # i => Position(j)' = Position(j)
      BY <2>2 DEF Position
    <2> QED  BY <2>3, <2>4, <1>p
  <1> QED  BY <1>1, <1>2, <1>3

\* When the store stays and the log keeps the prefixes that were applied.
LEMMA FollowKept ==
  ASSUME Base, Base', KeysFollow, MembersFollow,
         db' = db, nodes' = nodes, reached' = reached,
         \A j \in Server : Position(j)' <= Position(j),
         \A m \in 1..Len(log) : log'[m] = log[m],
         \A k \in Key : UsedByLocks(k) => UsedByLocks(k)'
  PROVE  KeysFollow' /\ MembersFollow'
  <1>1. \A j \in Server : /\ Position(j) \in Nat /\ Position(j)' \in Nat
                          /\ reached[j] \in Nat /\ reached[j] <= Len(log)
                          /\ Len(log) \in Nat
    BY PlacedAll, PlacedAllNext DEF Placed
  <1>2. ASSUME NEW j \in Server, NEW n \in Position(j)..reached[j]
        PROVE  /\ n \in Nat /\ n \in Position(j)'..reached'[j]
               /\ \A k \in Key : ValueAfter(n, k)' = ValueAfter(n, k)
               /\ \A s \in Server \cup Target :
                    s \in MembersAfter(n)' <=> s \in MembersAfter(n)
    <2>1. n \in Nat /\ n \in Position(j)'..reached'[j] /\ n <= Len(log)
      BY <1>1
    <2>2. \A m \in 1..n : log'[m] = log[m]  BY <2>1, <1>1
    <2> QED  BY <2>1, <2>2, ValueKept, MembersKept
  <1>3. ASSUME NEW j \in Server, NEW k \in Key, ~UsedByLocks(k)'
        PROVE  \E n \in Position(j)'..reached'[j] :
                 db'[j][k] = ValueAfter(n, k)'
    <2>1. PICK n \in Position(j)..reached[j] : db[j][k] = ValueAfter(n, k)
      BY <1>3 DEF KeysFollow
    <2>2. n \in Position(j)'..reached'[j] /\ ValueAfter(n, k)' = ValueAfter(n, k)
      BY <1>2
    <2> QED  BY <2>1, <2>2
  <1>4. ASSUME NEW j \in Server, NEW s \in Server \cup Target
        PROVE  \E n \in Position(j)'..reached'[j] :
                 s \in Range(nodes'[j]) <=> s \in MembersAfter(n)'
    <2>1. PICK n \in Position(j)..reached[j] :
            s \in Range(nodes[j]) <=> s \in MembersAfter(n)
      BY DEF MembersFollow
    <2>2. /\ n \in Position(j)'..reached'[j]
          /\ s \in MembersAfter(n)' <=> s \in MembersAfter(n)
      BY <1>2
    <2> QED  BY <2>1, <2>2
  <1> QED  BY <1>3, <1>4 DEF KeysFollow, MembersFollow

\* Where the prefix may end, one entry later.
LEMMA ApplyAdvances ==
  ASSUME Base, NEW i \in Server, Apply(i)
  PROVE  /\ Position(i) \in Nat /\ Position(i)' = Position(i) + 1
         /\ Position(i) + 1 \in Position(i)'..reached'[i]
         /\ \A n \in Position(i)..reached[i] :
              n \in Nat /\ (n # Position(i) => n \in Position(i)'..reached'[i])
         /\ \A j \in Server : j # i =>
              Position(j)' = Position(j) /\ reached'[j] = reached[j]
         /\ log' = log
  <1>1. log' = log /\ lastApplied' = lastApplied  BY DEF Apply
  <1>2. /\ \A j \in Server : j # i =>
             batch'[j] = batch[j] /\ reached'[j] = reached[j]
        /\ batch'[i] # NoBatch /\ batch'[i].at = Position(i) + 1
        /\ reached'[i] = IF Position(i) + 1 > reached[i] THEN Position(i) + 1
                                                         ELSE reached[i]
    BY ApplyMoves
  <1>3. Position(i)' = Position(i) + 1  BY <1>2 DEF Position
  <1>4. \A j \in Server : j # i => Position(j)' = Position(j)
    BY <1>1, <1>2 DEF Position
  <1>5. Position(i) \in Nat /\ reached[i] \in Nat /\ Position(i) <= reached[i]
    BY PlacedAll DEF Placed
  <1>6. Position(i) + 1 <= reached'[i] /\ reached[i] <= reached'[i]
        /\ reached'[i] \in Nat
    BY <1>2, <1>5
  <1> HIDE DEF Position
  <1> QED  BY <1>1, <1>2, <1>3, <1>4, <1>5, <1>6

LEMMA ApplyKeepsKeys ==
  ASSUME Base, KeysFollow, NEW i \in Server, Apply(i)
  PROVE  KeysFollow'
  <1> DEFINE p == Position(i)
             e == NextEntry(i)
  <1>0. /\ p \in Nat /\ Position(i)' = p + 1 /\ p + 1 \in Position(i)'..reached'[i]
        /\ \A n \in p..reached[i] :
             n \in Nat /\ (n # p => n \in Position(i)'..reached'[i])
        /\ \A j \in Server : j # i =>
             Position(j)' = Position(j) /\ reached'[j] = reached[j]
        /\ log' = log
    BY ApplyAdvances
  <1>1. p + 1 \in 1..Len(log) /\ log[p + 1] = e /\ e \in Entry
    BY AppliesNext DEF Base, NextEntry
  <1>2. e \in Range(log)
    <2>1. log \in Seq(Entry)  BY DEF Base, TypeOK
    <2>2. DOMAIN log = 1..Len(log)  BY <2>1
    <2> QED  BY <1>1, <2>2 DEF Range
  <1>3. \A j \in Server, k \in Key :
          db'[j][k] = IF j = i /\ k = e.key THEN ApplyToKey(e, db[j][k])
                                            ELSE db[j][k]
    BY ApplyToStore
  <1>4. \A n, k : ValueAfter(n, k)' = ValueAfter(n, k)
    BY <1>0 DEF ValueAfter
  <1>5. \A k \in Key : UsedByLocks(k)' <=> UsedByLocks(k)
    BY <1>0 DEF UsedByLocks
  <1> HIDE DEF p, e
  <1>6. ASSUME NEW k \in Key, ~UsedByLocks(k)
        PROVE  \E n \in Position(i)'..reached'[i] : db'[i][k] = ValueAfter(n, k)
    <2>1. CASE e.key = k /\ e.op \in {"kWrite", "kDelete"}
      <3>1. db'[i][k] = IF e.op = "kDelete" THEN Absent ELSE Plain(e.value)
        BY <1>3, <2>1 DEF ApplyToKey
      <3>2. ValueAfter(p + 1, k) = IF e.op = "kDelete" THEN Absent
                                                      ELSE Plain(e.value)
        BY <1>0, <1>1, <2>1, ValueStep
      <3> QED  BY <3>1, <3>2, <1>0
    <2>2. CASE ~(e.key = k /\ e.op \in {"kWrite", "kDelete"})
      <3>1. db'[i][k] = db[i][k]
        <4>1. e.key = k => e.op \notin {"kTryLock", "kUnLock", "kWrite", "kDelete"}
          BY <1>2, <1>6, <2>2 DEF UsedByLocks
        <4>2. CASE e.key = k
          <5>1. ApplyToKey(e, db[i][k]) = db[i][k]
            BY <4>1, <4>2 DEF ApplyToKey
          <5> QED  BY <5>1, <1>3, <4>2
        <4>3. CASE e.key # k  BY <4>3, <1>3
        <4> QED  BY <4>2, <4>3
      <3>2. ValueAfter(p + 1, k) = ValueAfter(p, k)
        BY <1>0, <1>1, <2>2, ValueStep
      <3>3. PICK n \in p..reached[i] : db[i][k] = ValueAfter(n, k)
        BY <1>6 DEF KeysFollow, p
      <3>4. CASE n = p  BY <3>1, <3>2, <3>3, <3>4, <1>0
      <3>5. CASE n # p
        <4>1. n \in Position(i)'..reached'[i]  BY <3>5, <1>0
        <4> QED  BY <4>1, <3>1, <3>3
      <3> QED  BY <3>4, <3>5
    <2> QED  BY <2>1, <2>2
  <1>7. ASSUME NEW j \in Server, j # i, NEW k \in Key, ~UsedByLocks(k)
        PROVE  \E n \in Position(j)'..reached'[j] : db'[j][k] = ValueAfter(n, k)
    <2>1. PICK n \in Position(j)..reached[j] : db[j][k] = ValueAfter(n, k)
      BY <1>7 DEF KeysFollow
    <2>2. Position(j)' = Position(j) /\ reached'[j] = reached[j]
      BY <1>7, <1>0
    <2>3. db'[j][k] = db[j][k]  BY <1>7, <1>3
    <2> QED  BY <2>1, <2>2, <2>3
  <1>8. ASSUME NEW j \in Server, NEW k \in Key, ~UsedByLocks(k)'
        PROVE  \E n \in Position(j)'..reached'[j] : db'[j][k] = ValueAfter(n, k)'
    <2>1. ~UsedByLocks(k)  BY <1>8, <1>5
    <2>2. \E n \in Position(j)'..reached'[j] : db'[j][k] = ValueAfter(n, k)
      BY <2>1, <1>6, <1>7
    <2> QED  BY <2>2, <1>4
  <1> QED  BY <1>8 DEF KeysFollow

LEMMA ApplyKeepsMembers ==
  ASSUME Base, MembersFollow, NEW i \in Server, Apply(i)
  PROVE  MembersFollow'
  <1> DEFINE p == Position(i)
             e == NextEntry(i)
  <1>0. /\ p \in Nat /\ Position(i)' = p + 1 /\ p + 1 \in Position(i)'..reached'[i]
        /\ \A n \in p..reached[i] :
             n \in Nat /\ (n # p => n \in Position(i)'..reached'[i])
        /\ \A j \in Server : j # i =>
             Position(j)' = Position(j) /\ reached'[j] = reached[j]
        /\ log' = log
    BY ApplyAdvances
  <1>1. p + 1 \in 1..Len(log) /\ log[p + 1] = e /\ e \in Entry /\ Formed(e)
    BY AppliesNext DEF Base, NextEntry
  <1>2. /\ \A j \in Server : j # i => nodes'[j] = nodes[j]
        /\ Range(nodes'[i]) = Changed(Range(nodes[i]), e)
    BY ApplyToMembers
  <1>3. \A n : MembersAfter(n)' = MembersAfter(n)
    BY <1>0 DEF MembersAfter
  <1>4. ASSUME NEW s \in Server \cup Target, e.server = s
        PROVE  e.op \in MemberOp
    <2>1. Nil \notin Server \cup Target  BY ApplyAssumption
    <2> QED  BY <1>1, <1>4, <2>1 DEF Formed
  <1> HIDE DEF p, e
  <1>5. ASSUME NEW s \in Server \cup Target
        PROVE  \E n \in Position(i)'..reached'[i] :
                 s \in Range(nodes'[i]) <=> s \in MembersAfter(n)
    <2>1. CASE e.server = s
      <3>1. e.op \in MemberOp  BY <1>4, <2>1
      <3>2. s \in Range(nodes'[i]) <=> e.op = "kAddServer"
        BY <3>1, <2>1, <1>2 DEF Changed, MemberOp
      <3>3. s \in MembersAfter(p + 1) <=> e.op = "kAddServer"
        BY <1>0, <1>1, <2>1, MembersStep
      <3> QED  BY <3>2, <3>3, <1>0
    <2>2. CASE e.server # s
      <3>1. s \in Range(nodes'[i]) <=> s \in Range(nodes[i])
        BY <2>2, <1>2 DEF Changed
      <3>2. s \in MembersAfter(p + 1) <=> s \in MembersAfter(p)
        BY <1>0, <1>1, <2>2, MembersStep
      <3>3. PICK n \in p..reached[i] :
              s \in Range(nodes[i]) <=> s \in MembersAfter(n)
        BY DEF MembersFollow, p
      <3>4. CASE n = p  BY <3>1, <3>2, <3>3, <3>4, <1>0
      <3>5. CASE n # p
        <4>1. n \in Position(i)'..reached'[i]  BY <3>5, <1>0
        <4> QED  BY <4>1, <3>1, <3>3
      <3> QED  BY <3>4, <3>5
    <2> QED  BY <2>1, <2>2
  <1>6. ASSUME NEW j \in Server, j # i, NEW s \in Server \cup Target
        PROVE  \E n \in Position(j)'..reached'[j] :
                 s \in Range(nodes'[j]) <=> s \in MembersAfter(n)
    <2>1. PICK n \in Position(j)..reached[j] :
            s \in Range(nodes[j]) <=> s \in MembersAfter(n)
      BY DEF MembersFollow
    <2>2. /\ Position(j)' = Position(j) /\ reached'[j] = reached[j]
          /\ nodes'[j] = nodes[j]
      BY <1>6, <1>0, <1>2
    <2> QED  BY <2>1, <2>2
  <1>7. ASSUME NEW j \in Server, NEW s \in Server \cup Target
        PROVE  \E n \in Position(j)'..reached'[j] :
                 s \in Range(nodes'[j]) <=> s \in MembersAfter(n)'
    <2>1. \E n \in Position(j)'..reached'[j] :
            s \in Range(nodes'[j]) <=> s \in MembersAfter(n)
      BY <1>5, <1>6
    <2> QED  BY <2>1, <1>3
  <1> QED  BY <1>7 DEF MembersFollow

LEMMA FollowNext ==
  ASSUME Base, Base', Calls, KeysFollow, MembersFollow, [Next]_vars
  PROVE  KeysFollow' /\ MembersFollow'
  <1>p. \A j \in Server : Position(j) \in Nat  BY PlacedAll DEF Placed
  <1>1. ASSUME NEW i \in Server, Apply(i) PROVE KeysFollow' /\ MembersFollow'
    BY <1>1, ApplyKeepsKeys, ApplyKeepsMembers
  <1>2. ASSUME log' = log PROVE \A k \in Key : UsedByLocks(k) => UsedByLocks(k)'
    BY <1>2 DEF UsedByLocks
  <1>3. ASSUME NEW i \in Server,
               ApplyStateMachine(i) \/ ApplyFails(i) \/ SetLastApplied(i)
        PROVE  KeysFollow' /\ MembersFollow'
    <2>1. log' = log /\ db' = db /\ nodes' = nodes /\ reached' = reached
      BY <1>3 DEF ApplyStateMachine, ApplyFails, SetLastApplied, storeVars
    <2>2. \A j \in Server : Position(j)' <= Position(j)
      BY <1>3, BatchGoesBack
    <2> QED  BY <2>1, <2>2, <1>2, FollowKept
  <1>4. ASSUME NEW i \in Server, Restart(i) PROVE KeysFollow' /\ MembersFollow'
    <2>1. log' = log /\ db' = db /\ nodes' = nodes /\ reached' = reached
      BY <1>4 DEF Restart
    <2>2. \A j \in Server : Position(j)' <= Position(j)
      BY <1>4, RestartKeepsBase
    <2> QED  BY <2>1, <2>2, <1>2, FollowKept
  <1>5. CASE \/ \E c \in Client : Answer(c) \/ Timeout(c)
             \/ Turn \/ Tick \/ UNCHANGED vars
    <2>1. UNCHANGED <<log, storeVars, applyVars>>  BY <1>5, OthersKeepBase
    <2>2. /\ log' = log /\ db' = db /\ nodes' = nodes /\ reached' = reached
          /\ batch' = batch /\ lastApplied' = lastApplied
      BY <2>1 DEF storeVars, applyVars
    <2>3. \A j \in Server : Position(j)' <= Position(j)
      BY <2>2, <1>p DEF Position
    <2> QED  BY <2>2, <2>3, <1>2, FollowKept
  <1>6. ASSUME NEW c \in Client, NEW e \in Requests(c), ExecuteCommand(c, e)
        PROVE  KeysFollow' /\ MembersFollow'
    <2>1. /\ db' = db /\ nodes' = nodes /\ reached' = reached
          /\ batch' = batch /\ lastApplied' = lastApplied
      BY <1>6 DEF ExecuteCommand, storeVars, applyVars
    <2>2. \A j \in Server : Position(j)' <= Position(j)
      BY <2>1, <1>p DEF Position
    <2>3. /\ \A m \in 1..Len(log) : log'[m] = log[m]
          /\ Len(log') = Len(log) + 1 /\ Len(log) \in Nat /\ log' \in Seq(Entry)
      BY <1>6, ExecuteCommandEffect
    <2>4. Range(log) \subseteq Range(log')
      <3>1. log \in Seq(Entry)  BY DEF Base, TypeOK
      <3>2. DOMAIN log = 1..Len(log) /\ DOMAIN log' = 1..Len(log')
        BY <3>1, <2>3
      <3>3. \A m \in DOMAIN log : m \in DOMAIN log' /\ log'[m] = log[m]
        BY <3>2, <2>3
      <3> QED  BY <3>3 DEF Range
    <2>5. \A k \in Key : UsedByLocks(k) => UsedByLocks(k)'
      BY <2>4 DEF UsedByLocks
    <2> QED  BY <2>1, <2>2, <2>3, <2>5, FollowKept
  <1> QED  BY <1>1, <1>3, <1>4, <1>5, <1>6 DEF Next

-----------------------------------------------------------------------------
(* Calls that were answered *)

LEMMA LogKept ==
  ASSUME Base, [Next]_vars
  PROVE  /\ \A m \in 1..Len(log) : log'[m] = log[m]
         /\ Len(log) \in Nat /\ Len(log') \in Nat /\ Len(log) <= Len(log')
         /\ Range(log) \subseteq Range(log')
  <1>t. log \in Seq(Entry) /\ Len(log) \in Nat  BY DEF Base, TypeOK
  <1>1. CASE log' = log  BY <1>1, <1>t
  <1>2. ASSUME NEW c \in Client, NEW e \in Requests(c), ExecuteCommand(c, e)
        PROVE  /\ \A m \in 1..Len(log) : log'[m] = log[m]
               /\ Len(log) \in Nat /\ Len(log') \in Nat /\ Len(log) <= Len(log')
               /\ Range(log) \subseteq Range(log')
    <2>1. /\ \A m \in 1..Len(log) : log'[m] = log[m]
          /\ Len(log') = Len(log) + 1 /\ log' \in Seq(Entry)
      BY <1>2, ExecuteCommandEffect
    <2>2. DOMAIN log = 1..Len(log) /\ DOMAIN log' = 1..Len(log')
      BY <1>t, <2>1
    <2>3. \A m \in DOMAIN log : m \in DOMAIN log' /\ log'[m] = log[m]
      BY <1>t, <2>1, <2>2
    <2>4. Range(log) \subseteq Range(log')  BY <2>3 DEF Range
    <2> QED  BY <1>t, <2>1, <2>4
  <1>3. ASSUME NEW i \in Server,
               \/ ApplyStateMachine(i) \/ Apply(i) \/ ApplyFails(i)
               \/ SetLastApplied(i) \/ Restart(i)
        PROVE  log' = log
    BY <1>3 DEF ApplyStateMachine, Apply, ApplyFails, SetLastApplied, Restart
  <1>4. ASSUME NEW c \in Client, Answer(c) \/ Timeout(c)
        PROVE  log' = log
    BY <1>4 DEF Answer, Timeout
  <1>5. Turn \/ Tick \/ UNCHANGED vars => log' = log
    BY DEF Turn, Tick, vars
  <1> QED  BY <1>1, <1>2, <1>3, <1>4, <1>5 DEF Next

LEMMA UseKept ==
  ASSUME Base, [Next]_vars, NEW k
  PROVE  /\ UsedByLocks(k) => UsedByLocks(k)'
         /\ UsedByKv(k) => UsedByKv(k)'
  BY LogKept DEF UsedByLocks, UsedByKv

\* What is known of a call that was answered.
Settled(c) ==
  /\ call[c].at \in Server /\ call[c].index \in 1..Len(log)
  /\ call[c].since \in Nat /\ call[c].since < call[c].index
  /\ lastApplied[call[c].at] >= call[c].index
  /\ EntryOf(c) \in Entry /\ Formed(EntryOf(c))
  /\ turns = 0 => call[c].at = leader

LEMMA AnsweredIsSettled ==
  ASSUME Base, Calls, NEW c \in Client, Answered(c)
  PROVE  Settled(c)
  <1>1. call[c].index \in 0..Len(log) /\ call[c].since \in Nat /\ Len(log) \in Nat
    BY DEF Base, TypeOK, Call
  <1>2. call[c].index # 0  BY DEF Calls, Answered
  <1>3. call[c].index > 0 /\ call[c].index \in 1..Len(log)  BY <1>1, <1>2
  <1>4. Issued(c)  BY <1>3 DEF Calls
  <1>5. EntryOf(c) \in Entry /\ Formed(EntryOf(c))
    BY <1>3 DEF Base, TypeOK, Entries, EntryOf
  <1> QED  BY <1>1, <1>3, <1>4, <1>5 DEF Issued, Settled

\* A call with an entry keeps it, and one that was answered keeps the answer.
LEMMA CallKept ==
  ASSUME Base, Calls, [Next]_vars, NEW c \in Client
  PROVE  /\ call[c].index # 0 =>
              call'[c].index = call[c].index /\ EntryOf(c)' = EntryOf(c)
         /\ Answered(c)' /\ ~Answer(c) => call'[c] = call[c] /\ Answered(c)
  <1>t. call[c].index \in 0..Len(log) /\ Len(log) \in Nat
    BY DEF Base, TypeOK
  <1> DEFINE Kept == /\ call[c].index # 0 => call'[c].index = call[c].index
                     /\ call'[c].stage = "answered" /\ ~Answer(c) =>
                          call'[c] = call[c]
  <1>1. Kept
    <2>1. CASE call' = call  BY <2>1
    <2>2. ASSUME NEW d \in Client, NEW e \in Requests(d), ExecuteCommand(d, e)
          PROVE  Kept
      <3>1. /\ d # c => call'[c] = call[c]
            /\ call[d].stage = "new" /\ call'[d].stage = "waiting"
        BY <2>2, ExecuteCommandEffect
      <3>2. call[d].index = 0  BY <3>1 DEF Calls
      <3> QED  BY <3>1, <3>2
    <2>3. ASSUME NEW d \in Client, Answer(d) PROVE Kept
      <3>1. /\ d # c => call'[c] = call[c]
            /\ call'[d].index = call[d].index
        BY <2>3, AnswerEffect
      <3> QED  BY <3>1, <2>3
    <2>4. ASSUME (\E d \in Client : Timeout(d)) \/ (\E i \in Server : Restart(i))
          PROVE  Kept
      <3>1. TypeOK  BY DEF Base
      <3>2. /\ call'[c].index = call[c].index
            /\ call'[c].stage = "answered" => call'[c] = call[c]
        BY <2>4, <3>1, GivingUp
      <3> QED  BY <3>2
    <2>5. ASSUME NEW i \in Server,
                 ApplyStateMachine(i) \/ Apply(i) \/ ApplyFails(i) \/ SetLastApplied(i)
          PROVE  call' = call
      BY <2>5 DEF ApplyStateMachine, Apply, ApplyFails, SetLastApplied
    <2>6. Turn \/ Tick \/ UNCHANGED vars => call' = call
      BY DEF Turn, Tick, vars
    <2> HIDE DEF Kept
    <2> QED  BY <2>1, <2>2, <2>3, <2>4, <2>5, <2>6 DEF Next
  <1>2. ASSUME call[c].index # 0
        PROVE  call'[c].index = call[c].index /\ EntryOf(c)' = EntryOf(c)
    <2>1. call'[c].index = call[c].index  BY <1>1, <1>2
    <2>2. call[c].index \in 1..Len(log)  BY <1>2, <1>t
    <2>3. log'[call[c].index] = log[call[c].index]  BY <2>2, LogKept
    <2> QED  BY <2>1, <2>3 DEF EntryOf
  <1>3. ASSUME Answered(c)', ~Answer(c) PROVE call'[c] = call[c] /\ Answered(c)
    BY <1>1, <1>3 DEF Answered
  <1> QED  BY <1>2, <1>3

-----------------------------------------------------------------------------
(* What a read saw *)

FreshCall(c) ==
  LET e == EntryOf(c) IN
  /\ e.op = "kRead" /\ ~UsedByLocks(e.key) =>
       \E n \in call[c].since .. Len(log) : call[c].value = ValueAfter(n, e.key)
  /\ e.op = "kGetAllServers" =>
       /\ call[c].value.kind = "membership"
       /\ \A s \in Server \cup Target :
            \E n \in call[c].since .. Len(log) :
              s \in call[c].value.nodes <=> s \in MembersAfter(n)

LEMMA FreshWhenAnswered ==
  ASSUME Base, Calls, KeysFollow, MembersFollow, NEW c \in Client, Answer(c)
  PROVE  FreshCall(c)'
  <1> DEFINE i == call[c].at
             e == EntryOf(c)
  <1>1. /\ i \in Server /\ call[c].index \in 1..Len(log)
        /\ lastApplied[i] >= call[c].index
        /\ call'[c].value = Sought(c)
        /\ call'[c].index = call[c].index /\ call'[c].since = call[c].since
    BY AnswerEffect
  <1>2. log' = log  BY DEF Answer
  <1>3. call[c].since \in Nat /\ call[c].since < call[c].index
        /\ call[c].index \in Nat
    <2>1. call[c].index > 0  BY <1>1 DEF Base, TypeOK
    <2> QED  BY <1>1, <2>1 DEF Calls, Issued, Base, TypeOK, Call
  <1>4. Placed(i)  BY <1>1, PlacedAll
  <1>5. \A n \in Position(i)..reached[i] : n \in call[c].since..Len(log)
    BY <1>1, <1>3, <1>4 DEF Placed
  <1>6. /\ e.op \in KeyOp => e.key \in Key /\ Sought(c) = db[i][e.key]
        /\ e.op = "kGetAllServers" => Sought(c) = Membership(Range(nodes[i]))
    BY <1>1, SoughtKinds
  <1>7. /\ EntryOf(c)' = e
        /\ \A n, k : ValueAfter(n, k)' = ValueAfter(n, k)
        /\ \A n : MembersAfter(n)' = MembersAfter(n)
        /\ \A k : UsedByLocks(k)' <=> UsedByLocks(k)
    BY <1>1, <1>2 DEF EntryOf, ValueAfter, MembersAfter, UsedByLocks
  <1> HIDE DEF i, e
  <1>8. ASSUME e.op = "kRead", ~UsedByLocks(e.key)
        PROVE  \E n \in call[c].since..Len(log) : Sought(c) = ValueAfter(n, e.key)
    <2>1. e.key \in Key /\ Sought(c) = db[i][e.key]
      BY <1>6, <1>8 DEF KeyOp
    <2>2. PICK n \in Position(i)..reached[i] : db[i][e.key] = ValueAfter(n, e.key)
      BY <1>1, <1>8, <2>1 DEF KeysFollow
    <2> QED  BY <2>1, <2>2, <1>5
  <1>9. ASSUME e.op = "kGetAllServers"
        PROVE  /\ Sought(c).kind = "membership"
               /\ \A s \in Server \cup Target :
                    \E n \in call[c].since..Len(log) :
                      s \in Sought(c).nodes <=> s \in MembersAfter(n)
    <2>1. Sought(c).kind = "membership" /\ Sought(c).nodes = Range(nodes[i])
      BY <1>6, <1>9 DEF Membership
    <2>2. ASSUME NEW s \in Server \cup Target
          PROVE  \E n \in call[c].since..Len(log) :
                   s \in Sought(c).nodes <=> s \in MembersAfter(n)
      <3>1. PICK n \in Position(i)..reached[i] :
              s \in Range(nodes[i]) <=> s \in MembersAfter(n)
        BY <1>1 DEF MembersFollow
      <3> QED  BY <3>1, <2>1, <1>5
    <2> QED  BY <2>1, <2>2
  <1> QED  BY <1>1, <1>2, <1>7, <1>8, <1>9 DEF FreshCall

LEMMA FreshKept ==
  ASSUME Base, Calls, [Next]_vars, NEW c \in Client,
         Answered(c), call'[c] = call[c], FreshCall(c)
  PROVE  FreshCall(c)'
  <1>1. /\ call[c].index \in 1..Len(log) /\ call[c].since \in Nat
        /\ EntryOf(c) \in Entry /\ Formed(EntryOf(c))
    BY AnsweredIsSettled DEF Settled
  <1>2. Len(log) \in Nat /\ Len(log') \in Nat /\ Len(log) <= Len(log')
        /\ \A m \in 1..Len(log) : log'[m] = log[m]
    BY LogKept
  <1>3. EntryOf(c)' = EntryOf(c)  BY <1>1, <1>2 DEF EntryOf
  <1>4. ASSUME NEW n \in call[c].since..Len(log)
        PROVE  /\ n \in call[c].since..Len(log')
               /\ \A k : ValueAfter(n, k)' = ValueAfter(n, k)
               /\ \A s \in Server \cup Target :
                    s \in MembersAfter(n)' <=> s \in MembersAfter(n)
    <2>1. n \in Nat /\ n \in call[c].since..Len(log')  BY <1>1, <1>2
    <2>2. \A m \in 1..n : log'[m] = log[m]  BY <2>1, <1>1, <1>2
    <2> QED  BY <2>1, <2>2, ValueKept, MembersKept
  <1>5. \A k : UsedByLocks(k) => UsedByLocks(k)'  BY UseKept
  <1> DEFINE e == EntryOf(c)
  <1>6. EntryOf(c)' = e  BY <1>3
  <1>7. /\ e.op = "kRead" /\ ~UsedByLocks(e.key) =>
             \E n \in call[c].since .. Len(log) :
               call[c].value = ValueAfter(n, e.key)
        /\ e.op = "kGetAllServers" =>
             /\ call[c].value.kind = "membership"
             /\ \A s \in Server \cup Target :
                  \E n \in call[c].since .. Len(log) :
                    s \in call[c].value.nodes <=> s \in MembersAfter(n)
    BY DEF FreshCall
  <1> HIDE DEF e
  <1>8. ASSUME NEW k, k = e.key, e.op = "kRead", ~UsedByLocks(k)'
        PROVE  \E n \in call[c].since..Len(log') :
                 call[c].value = ValueAfter(n, k)'
    <2>1. ~UsedByLocks(k)  BY <1>5, <1>8
    <2>2. PICK n \in call[c].since..Len(log) : call[c].value = ValueAfter(n, k)
      BY <2>1, <1>7, <1>8
    <2>3. n \in call[c].since..Len(log') /\ ValueAfter(n, k)' = ValueAfter(n, k)
      BY <1>4
    <2> QED  BY <2>2, <2>3
  <1>9. ASSUME e.op = "kGetAllServers", NEW s \in Server \cup Target
        PROVE  \E n \in call[c].since .. Len(log') :
                 s \in call[c].value.nodes <=> s \in MembersAfter(n)'
    <2>1. PICK n \in call[c].since..Len(log) :
            s \in call[c].value.nodes <=> s \in MembersAfter(n)
      BY <1>7, <1>9
    <2>2. n \in call[c].since..Len(log')
          /\ (s \in MembersAfter(n)' <=> s \in MembersAfter(n))
      BY <1>4
    <2> QED  BY <2>1, <2>2
  <1> QED  BY <1>6, <1>7, <1>8, <1>9 DEF FreshCall

-----------------------------------------------------------------------------
(* Locks *)

\* What one entry does to a key that holds a lock or is to hold one: only a
\* kTryLock writes its lock, and a lease that lasts is ended by the holder's
\* kUnLock, a kWrite or a kDelete.
LEMMA OnlyTryLockLocks ==
  ASSUME NEW e, NEW v, NEW h, NEW l, v # Lock(h, l), ApplyToKey(e, v) = Lock(h, l)
  PROVE  e.op = "kTryLock" /\ e.holder = h /\ e.lease = l
  <1>1. e.op = "kTryLock" /\ ApplyToKey(e, v) = Lock(e.holder, e.lease)
    BY Kinds DEF ApplyToKey
  <1>2. Lock(e.holder, e.lease) = Lock(h, l)  BY <1>1
  <1>3. e.holder = h /\ e.lease = l  BY <1>2 DEF Lock
  <1> QED  BY <1>1, <1>3

LEMMA LeaseLasts ==
  ASSUME NEW e, NEW h, NEW l \in Nat, now \in Nat, l >= now,
         e.op \notin {"kWrite", "kDelete"},
         e.op = "kUnLock" => e.holder # h
  PROVE  ApplyToKey(e, Lock(h, l)) = Lock(h, l)
  <1>1. ParsedLock(Lock(h, l)) = Lock(h, l)  BY Kinds DEF ParsedLock
  <1>2. ~Expired(Lock(h, l))  BY Kinds DEF Expired
  <1>3. Lock(h, l) # Absent /\ Lock(h, l).holder = h  BY Kinds
  <1> QED  BY <1>1, <1>2, <1>3 DEF ApplyToKey

\* The entry that is applied next is that of some call, not of one that was
\* answered at this server.
LEMMA AppliesAnother ==
  ASSUME Base, Calls, NEW i \in Server, Apply(i)
  PROVE  /\ Position(i) + 1 \in 1..Len(log) /\ NextEntry(i) = log[Position(i) + 1]
         /\ NextEntry(i) \in Range(log)
         /\ \E d \in Client : call[d].index # 0 /\ EntryOf(d) = NextEntry(i)
                              /\ call[d].index = Position(i) + 1
         /\ \A c \in Client : Answered(c) /\ call[c].at = i =>
              call[c].index \in Nat /\ call[c].index < Position(i) + 1
  <1>1. Position(i) + 1 \in 1..Len(log)  BY AppliesNext DEF Base
  <1>2. NextEntry(i) \in Range(log)
    <2>1. log \in Seq(Entry)  BY DEF Base, TypeOK
    <2>2. DOMAIN log = 1..Len(log)  BY <2>1
    <2> QED  BY <1>1, <2>2 DEF Range, NextEntry
  <1>3. PICK d \in Client : call[d].index = Position(i) + 1
    BY <1>1 DEF Calls
  <1>4. EntryOf(d) = NextEntry(i)  BY <1>3 DEF EntryOf, NextEntry
  <1>5. Position(i) + 1 # 0 /\ Position(i) \in Nat /\ lastApplied[i] \in Nat
        /\ lastApplied[i] <= Position(i)
    BY PlacedAll DEF Placed
  <1>6. ASSUME NEW c \in Client, Answered(c), call[c].at = i
        PROVE  call[c].index \in Nat /\ call[c].index < Position(i) + 1
    <2>1. call[c].index \in 1..Len(log) /\ lastApplied[i] >= call[c].index
      BY <1>6, AnsweredIsSettled DEF Settled
    <2>2. call[c].index \in Nat  BY <2>1
    <2> QED  BY <2>1, <2>2, <1>5
  <1> QED  BY <1>1, <1>2, <1>3, <1>4, <1>5, <1>6 DEF NextEntry

LEMMA RefusedWhenAnswered ==
  ASSUME Base, Calls, NEW c \in Client, Answer(c), call'[c].code = "kError"
  PROVE  /\ EntryOf(c).op = "kTryLock"
         /\ db[call[c].at][EntryOf(c).key] # Lock(EntryOf(c).holder, EntryOf(c).lease)
  <1> DEFINE e == EntryOf(c)
             v == Sought(c)
  <1>1. CodeOf(e, v) = "kError" /\ call[c].at \in Server
        /\ call[c].index \in 1..Len(log)
    BY AnswerEffect
  <1>2. e.op \in KeyOp => v = db[call[c].at][e.key]
    BY <1>1, SoughtKinds
  <1> HIDE DEF e, v
  <1>3. /\ e.op = "kTryLock"
        /\ ~(ParsedLock(v).holder = e.holder /\ ParsedLock(v).lease = e.lease)
    BY <1>1 DEF CodeOf
  <1>4. v # Lock(e.holder, e.lease)
    BY <1>3, Kinds DEF ParsedLock
  <1> QED  BY <1>2, <1>3, <1>4 DEF KeyOp, e, v

LEMMA TakenKept ==
  ASSUME Base, Calls, [Next]_vars, NEW c \in Client, call[c].index # 0,
         TakenByAnother(c)
  PROVE  TakenByAnother(c)'
  <1>1. PICK d \in Client \ {c} :
          /\ call[d].index # 0 /\ EntryOf(d).op = "kTryLock"
          /\ EntryOf(d).key = EntryOf(c).key
          /\ EntryOf(d).holder = EntryOf(c).holder
          /\ EntryOf(d).lease = EntryOf(c).lease
    BY DEF TakenByAnother
  <1>2. EntryOf(c)' = EntryOf(c)  BY CallKept
  <1>3. EntryOf(d)' = EntryOf(d) /\ call'[d].index = call[d].index
    BY <1>1, CallKept
  <1> QED  BY <1>1, <1>2, <1>3 DEF TakenByAnother

LEMMA DbKept ==
  ASSUME Base, Calls, [Next]_vars, \A i \in Server : ~Apply(i)
  PROVE  db' = db
  <1>1. ASSUME NEW i \in Server,
               ApplyStateMachine(i) \/ ApplyFails(i) \/ SetLastApplied(i)
        PROVE  db' = db
    BY <1>1 DEF ApplyStateMachine, ApplyFails, SetLastApplied, storeVars
  <1>2. ASSUME NEW i \in Server, Restart(i) PROVE db' = db
    BY <1>2 DEF Restart
  <1>3. ASSUME \/ \E c \in Client : Answer(c) \/ Timeout(c)
               \/ Turn \/ Tick \/ UNCHANGED vars
        PROVE  db' = db
    BY <1>3, OthersKeepBase DEF storeVars
  <1>4. ASSUME NEW c \in Client, NEW e \in Requests(c), ExecuteCommand(c, e)
        PROVE  db' = db
    BY <1>4 DEF ExecuteCommand, storeVars
  <1> QED  BY <1>1, <1>2, <1>3, <1>4 DEF Next

LEMMA RefusedNext ==
  ASSUME Base, Calls, Refused, [Next]_vars
  PROVE  Refused'
  <1> SUFFICES ASSUME NEW c \in Client, Answered(c)', call'[c].code = "kError"
               PROVE  /\ EntryOf(c)'.op = "kTryLock"
                      /\ db'[call'[c].at][EntryOf(c)'.key]
                           = Lock(EntryOf(c)'.holder, EntryOf(c)'.lease)
                           => TakenByAnother(c)'
    BY DEF Refused
  <1>1. CASE Answer(c)
    <2>1. /\ EntryOf(c).op = "kTryLock"
          /\ db[call[c].at][EntryOf(c).key]
               # Lock(EntryOf(c).holder, EntryOf(c).lease)
      BY <1>1, RefusedWhenAnswered
    <2>2. /\ call'[c].at = call[c].at /\ call'[c].index = call[c].index
          /\ log' = log /\ db' = db
      BY <1>1, AnswerEffect DEF Answer, storeVars
    <2>3. EntryOf(c)' = EntryOf(c)  BY <2>2 DEF EntryOf
    <2> QED  BY <2>1, <2>2, <2>3
  <1>2. CASE ~Answer(c)
    <2> DEFINE e == EntryOf(c)
               a == call[c].at
    <2>1. call'[c] = call[c] /\ Answered(c)  BY <1>2, CallKept
    <2>2. Settled(c)  BY <2>1, AnsweredIsSettled
    <2>3. /\ a \in Server /\ call[c].index # 0
          /\ e \in Entry /\ Formed(e)
      BY <2>2 DEF Settled
    <2>4. EntryOf(c)' = e  BY <2>3, CallKept
    <2>5. /\ e.op = "kTryLock"
          /\ db[a][e.key] = Lock(e.holder, e.lease) => TakenByAnother(c)
      BY <2>1 DEF Refused
    <2>6. e.key \in Key  BY <2>3, <2>5 DEF Formed, KeyOp
    <2> HIDE DEF e, a
    <2>7. TakenByAnother(c) => TakenByAnother(c)'
      BY <2>3, TakenKept DEF e
    <2>8. ASSUME db'[a][e.key] = Lock(e.holder, e.lease)
          PROVE  TakenByAnother(c)'
      <3>1. CASE db[a][e.key] = Lock(e.holder, e.lease)
        BY <3>1, <2>5, <2>7
      <3>2. CASE db[a][e.key] # Lock(e.holder, e.lease)
        <4>1. PICK i \in Server : Apply(i)
          BY <2>8, <3>2, DbKept
        <4> DEFINE x == NextEntry(i)
        <4>2. \A j \in Server, k \in Key :
                db'[j][k] = IF j = i /\ k = x.key THEN ApplyToKey(x, db[j][k])
                                                  ELSE db[j][k]
          BY <4>1, ApplyToStore
        <4>3. PICK d \in Client : /\ call[d].index # 0 /\ EntryOf(d) = x
                                  /\ call[d].index = Position(i) + 1
          BY <4>1, AppliesAnother
        <4>4. \A b \in Client : Answered(b) /\ call[b].at = i =>
                call[b].index \in Nat /\ call[b].index < Position(i) + 1
          BY <4>1, AppliesAnother
        <4> HIDE DEF x
        <4>5. a = i /\ e.key = x.key
              /\ ApplyToKey(x, db[a][e.key]) = Lock(e.holder, e.lease)
          BY <4>2, <2>3, <2>6, <2>8, <3>2
        <4>6. x.op = "kTryLock" /\ x.holder = e.holder /\ x.lease = e.lease
          BY <4>5, <3>2, OnlyTryLockLocks
        <4>7. c # d  BY <4>3, <4>4, <4>5, <2>1 DEF a
        <4>8. TakenByAnother(c)
          BY <4>3, <4>5, <4>6, <4>7 DEF TakenByAnother, e
        <4> QED  BY <4>8, <2>7
      <3> QED  BY <3>1, <3>2
    <2> QED  BY <2>1, <2>4, <2>5, <2>8 DEF a
  <1> QED  BY <1>1, <1>2

LEMMA HeldWhenAnswered ==
  ASSUME Base, Calls, NEW c \in Client, Answer(c), call'[c].code = "kOk",
         EntryOf(c).op = "kTryLock"
  PROVE  db[call[c].at][EntryOf(c).key] = Lock(EntryOf(c).holder, EntryOf(c).lease)
  <1> DEFINE e == EntryOf(c)
             v == Sought(c)
  <1>1. CodeOf(e, v) = "kOk" /\ call[c].at \in Server
        /\ call[c].index \in 1..Len(log)
    BY AnswerEffect
  <1>2. /\ e.op \in KeyOp => v = db[call[c].at][e.key] /\ v \in Value
        /\ Formed(e)
    BY <1>1, SoughtKinds
  <1>3. e.op = "kTryLock"  OBVIOUS
  <1> HIDE DEF e, v
  <1>4. /\ v \in Value /\ v = db[call[c].at][e.key] /\ e.holder \in Holder
    BY <1>2, <1>3 DEF KeyOp, Formed
  <1>5. ParsedLock(v).holder = e.holder /\ ParsedLock(v).lease = e.lease
    BY <1>1, <1>3 DEF CodeOf
  <1>6. e.holder # Nil  BY <1>4, ApplyAssumption
  <1>7. PICK h \in Holder \cup {Nil}, l \in Nat :
          /\ ParsedLock(v) = Lock(h, l)
          /\ v.kind # "lock" => h = Nil
          /\ v.kind = "lock" => v = Lock(h, l)
    BY <1>4, ParsedIsLock
  <1>8. Lock(h, l).holder = h /\ Lock(h, l).lease = l  BY DEF Lock
  <1>9. h = e.holder /\ l = e.lease  BY <1>5, <1>7, <1>8
  <1>10. v = Lock(e.holder, e.lease)  BY <1>6, <1>7, <1>9
  <1> QED  BY <1>4, <1>10 DEF e, v

LEMMA HoldsBefore ==
  ASSUME Base, Calls, [Next]_vars, NEW c \in Client,
         Answered(c), call'[c] = call[c], Holds(c)'
  PROVE  Holds(c)
  <1>1. /\ call[c].index # 0 /\ call[c].index \in Nat /\ EntryOf(c) \in Entry
    BY AnsweredIsSettled DEF Settled
  <1>2. EntryOf(c)' = EntryOf(c)  BY <1>1, CallKept
  <1>3. now \in Nat /\ now' \in Nat /\ now <= now'
    <2>1. now \in Nat  BY DEF Base, TypeOK
    <2>2. now' = now \/ now' = now + 1
      <3>1. ASSUME NEW i \in Server,
                   \/ ApplyStateMachine(i) \/ Apply(i) \/ ApplyFails(i)
                   \/ SetLastApplied(i) \/ Restart(i)
            PROVE  now' = now
        BY <3>1 DEF ApplyStateMachine, Apply, ApplyFails, SetLastApplied, Restart
      <3>2. ASSUME NEW d \in Client, Answer(d) \/ Timeout(d) PROVE now' = now
        BY <3>2 DEF Answer, Timeout
      <3>3. ASSUME NEW d \in Client, NEW e \in Requests(d), ExecuteCommand(d, e)
            PROVE  now' = now
        BY <3>3 DEF ExecuteCommand
      <3>4. Turn \/ UNCHANGED vars => now' = now  BY DEF Turn, vars
      <3>5. Tick => now' = now + 1  BY DEF Tick
      <3> QED  BY <3>1, <3>2, <3>3, <3>4, <3>5 DEF Next
    <2> QED  BY <2>1, <2>2
  <1>4. EntryOf(c).lease \in Nat  BY <1>1 DEF Entry
  <1>5. EntryOf(c).lease >= now'  BY <1>2 DEF Holds
  <1>6. EntryOf(c).lease >= now  BY <1>3, <1>4, <1>5
  <1>7. /\ \A m \in 1..Len(log) : log'[m] = log[m]
        /\ Len(log) \in Nat /\ Len(log') \in Nat /\ Len(log) <= Len(log')
    BY LogKept
  <1>8. ASSUME NEW j \in call[c].index + 1 .. Len(log)
        PROVE  ~(log[j].op = "kUnLock" /\ log[j].key = EntryOf(c).key
                 /\ log[j].holder = EntryOf(c).holder)
    <2>1. j \in 1..Len(log) /\ j \in call[c].index + 1 .. Len(log')
      BY <1>1, <1>7
    <2>2. log'[j] = log[j]  BY <2>1, <1>7
    <2>3. ~(log'[j].op = "kUnLock" /\ log'[j].key = EntryOf(c)'.key
            /\ log'[j].holder = EntryOf(c)'.holder)
      BY <2>1 DEF Holds
    <2> QED  BY <2>2, <2>3, <1>2
  <1>9. call[c].code = "kOk" /\ EntryOf(c).op = "kTryLock"
    BY <1>2 DEF Holds
  <1> QED  BY <1>6, <1>8, <1>9 DEF Holds

LEMMA HeldNext ==
  ASSUME Base, Calls, Held, [Next]_vars
  PROVE  Held'
  <1> SUFFICES ASSUME NEW c \in Client, Holds(c)', ~UsedByKv(EntryOf(c).key)'
               PROVE  db'[call'[c].at][EntryOf(c)'.key]
                        = Lock(EntryOf(c)'.holder, EntryOf(c)'.lease)
    BY DEF Held
  <1>h. Answered(c)' /\ call'[c].code = "kOk" /\ EntryOf(c)'.op = "kTryLock"
    BY DEF Holds
  <1>1. CASE Answer(c)
    <2>1. /\ call'[c].at = call[c].at /\ call'[c].index = call[c].index
          /\ log' = log /\ db' = db
      BY <1>1, AnswerEffect DEF Answer, storeVars
    <2>2. EntryOf(c)' = EntryOf(c)  BY <2>1 DEF EntryOf
    <2>3. EntryOf(c).op = "kTryLock"  BY <1>h, <2>2
    <2>4. db[call[c].at][EntryOf(c).key] = Lock(EntryOf(c).holder, EntryOf(c).lease)
      BY <1>1, <1>h, <2>3, HeldWhenAnswered
    <2> QED  BY <2>1, <2>2, <2>4
  <1>2. CASE ~Answer(c)
    <2> DEFINE e == EntryOf(c)
               a == call[c].at
    <2>1. call'[c] = call[c] /\ Answered(c)  BY <1>h, <1>2, CallKept
    <2>2. Settled(c)  BY <2>1, AnsweredIsSettled
    <2>3. /\ a \in Server /\ call[c].index # 0 /\ call[c].index \in Nat
          /\ e \in Entry /\ Formed(e)
      BY <2>2 DEF Settled
    <2>4. EntryOf(c)' = e  BY <2>3, CallKept
    <2>5. Holds(c)  BY <2>1, HoldsBefore
    <2>6. e.op = "kTryLock" /\ e.lease >= now
          /\ \A j \in call[c].index + 1 .. Len(log) :
               ~(log[j].op = "kUnLock" /\ log[j].key = e.key
                 /\ log[j].holder = e.holder)
      BY <2>5 DEF Holds
    <2>7. e.key \in Key /\ e.lease \in Nat
      BY <2>3, <2>6 DEF Formed, KeyOp, Entry
    <2>8. ~UsedByKv(e.key)
      <3>1. ASSUME NEW k, k = e.key, UsedByKv(k) PROVE FALSE
        <4>1. UsedByKv(k)'  BY <3>1, UseKept
        <4>2. EntryOf(c)'.key = k  BY <3>1, <2>4
        <4> QED  BY <4>1, <4>2 DEF UsedByKv
      <3> QED  BY <3>1
    <2>9. db[a][e.key] = Lock(e.holder, e.lease)
      BY <2>5, <2>8 DEF Held
    <2> HIDE DEF e, a
    <2>10. db'[a][e.key] = Lock(e.holder, e.lease)
      <3>1. CASE \A i \in Server : ~Apply(i)
        BY <3>1, <2>9, DbKept
      <3>2. ASSUME NEW i \in Server, Apply(i)
            PROVE  db'[a][e.key] = Lock(e.holder, e.lease)
        <4> DEFINE x == NextEntry(i)
                   q == Position(i) + 1
        <4>1. \A j \in Server, k \in Key :
                db'[j][k] = IF j = i /\ k = x.key THEN ApplyToKey(x, db[j][k])
                                                  ELSE db[j][k]
          BY <3>2, ApplyToStore
        <4>2. /\ x \in Range(log) /\ q \in 1..Len(log) /\ x = log[q]
              /\ \A b \in Client : Answered(b) /\ call[b].at = i =>
                   call[b].index \in Nat /\ call[b].index < q
          BY <3>2, AppliesAnother
        <4> HIDE DEF x, q
        <4>3. CASE ~(a = i /\ e.key = x.key)
          BY <4>1, <4>3, <2>3, <2>7, <2>9
        <4>4. CASE a = i /\ e.key = x.key
          <5>1. x.op \notin {"kWrite", "kDelete"}
            BY <4>2, <4>4, <2>8 DEF UsedByKv
          <5>2. call[c].index < q  BY <4>2, <4>4, <2>1 DEF a
          <5>3. q \in call[c].index + 1 .. Len(log)
            BY <5>2, <4>2, <2>3
          <5>4. x.op = "kUnLock" => x.holder # e.holder
            BY <5>3, <4>2, <4>4, <2>6
          <5>5. now \in Nat  BY DEF Base, TypeOK
          <5>6. ApplyToKey(x, Lock(e.holder, e.lease)) = Lock(e.holder, e.lease)
            BY <5>1, <5>4, <5>5, <2>6, <2>7, LeaseLasts
          <5>7. db'[a][e.key] = ApplyToKey(x, db[a][e.key])
            BY <4>1, <4>4, <2>3, <2>7
          <5> QED  BY <5>6, <5>7, <2>9
        <4> QED  BY <4>3, <4>4
      <3> QED  BY <3>1, <3>2
    <2> QED  BY <2>1, <2>4, <2>10 DEF a
  <1> QED  BY <1>1, <1>2

-----------------------------------------------------------------------------
(* The invariant, and what follows from it *)

IInv ==
  /\ Base
  /\ Calls
  /\ KeysFollow
  /\ MembersFollow
  /\ ReadIsFresh
  /\ Refused
  /\ Held

LEMMA ReadIsFreshNext ==
  ASSUME Base, Calls, KeysFollow, MembersFollow, ReadIsFresh, [Next]_vars
  PROVE  ReadIsFresh'
  <1>1. ASSUME NEW c \in Client, Answered(c)' PROVE FreshCall(c)'
    <2>1. CASE Answer(c)  BY <2>1, FreshWhenAnswered
    <2>2. CASE ~Answer(c)
      <3>1. call'[c] = call[c] /\ Answered(c)  BY <1>1, <2>2, CallKept
      <3>2. FreshCall(c)  BY <3>1 DEF ReadIsFresh, FreshCall
      <3> QED  BY <3>1, <3>2, FreshKept
    <2> QED  BY <2>1, <2>2
  <1> QED  BY <1>1 DEF ReadIsFresh, FreshCall

LEMMA InitInvariant ==
  ASSUME Init
  PROVE  IInv
  <1>1. Base /\ Calls  BY InitBase
  <1>2. \A c \in Client : ~Answered(c)  BY DEF Init, Answered, NotCalled
  <1>3. Refused /\ Held /\ ReadIsFresh
    BY <1>2 DEF Refused, Held, Holds, ReadIsFresh
  <1>4. \A i \in Server : Position(i) = 0 /\ reached[i] = 0
    BY DEF Init, Position
  <1>5. 0 \in 0..0 /\ \A m \in 1..0 : FALSE  OBVIOUS
  <1>6. KeysFollow
    <2>1. ASSUME NEW k PROVE ValueAfter(0, k) = Absent
      <3>1. {m \in 1..0 : log[m].key = k /\ log[m].op \in {"kWrite", "kDelete"}} = {}
        BY <1>5
      <3>2. Latest({}) = 0  BY DEF Latest
      <3> QED  BY <3>1, <3>2 DEF ValueAfter
    <2>2. \A i \in Server, k \in Key : db[i][k] = Absent  BY DEF Init
    <2> QED  BY <2>1, <2>2, <1>4, <1>5 DEF KeysFollow
  <1>7. MembersFollow
    <2>1. MembersAfter(0) = Server
      <3>1. \A s : {m \in 1..0 : log[m].server = s} = {}  BY <1>5
      <3>2. Latest({}) = 0  BY DEF Latest
      <3> QED  BY <3>1, <3>2 DEF MembersAfter
    <2>2. \A i \in Server : Range(nodes[i]) = Server
      BY ServerList DEF Init
    <2> QED  BY <2>1, <2>2, <1>4, <1>5 DEF MembersFollow
  <1> QED  BY <1>1, <1>3, <1>6, <1>7 DEF IInv

\* The invariant is inductive: every entry is applied in order from the saved
\* index, by every server, through failures in the middle of a batch, restarts
\* and changes of the leader.
THEOREM ApplyInvariant == Spec => []IInv
  <1>1. Init => IInv  BY InitInvariant
  <1>2. IInv /\ [Next]_vars => IInv'
    <2> SUFFICES ASSUME IInv, [Next]_vars PROVE IInv'
      OBVIOUS
    <2>1. /\ Base /\ Calls /\ KeysFollow /\ MembersFollow /\ ReadIsFresh
          /\ Refused /\ Held
      BY DEF IInv
    <2>2. Base'  BY <2>1, BaseNext
    <2>3. Calls'  BY <2>1, <2>2, CallsNext
    <2>4. KeysFollow' /\ MembersFollow'  BY <2>1, <2>2, FollowNext
    <2>5. ReadIsFresh'  BY <2>1, ReadIsFreshNext
    <2>6. Refused'  BY <2>1, RefusedNext
    <2>7. Held'  BY <2>1, HeldNext
    <2> QED  BY <2>2, <2>3, <2>4, <2>5, <2>6, <2>7 DEF IInv
  <1> QED  BY <1>1, <1>2, PTL DEF Spec

\* Every variable keeps its type: no server applies, and no call refers to, an
\* entry beyond the committed log, and db_ holds only what Apply writes.
THEOREM ApplyTypeCorrect == Spec => []TypeOK
  <1>1. IInv => TypeOK  BY DEF IInv, Base
  <1> QED  BY <1>1, ApplyInvariant, PTL

\* The members in the context are those of the list in db_, and the peers are
\* those members without the server, after any sequence of membership entries,
\* also entries applied twice, and restarts in the middle of a batch.
THEOREM PeersAreMembers == Spec => []PeersFollowMembers
  <1>1. IInv => PeersFollowMembers  BY DEF IInv, Base
  <1> QED  BY <1>1, ApplyInvariant, PTL

\* A server whose apply thread is back at the highest index it ever applied has
\* in db_ what the log says up to there, whatever was applied twice before.
THEOREM ReplayConverges == Spec => []StateFollowsLog
  <1>1. IInv => StateFollowsLog
    <2> SUFFICES ASSUME IInv, NEW i \in Server,
                        batch[i] = NoBatch, lastApplied[i] = reached[i]
                 PROVE  /\ \A k \in Key : ~UsedByLocks(k) =>
                             db[i][k] = ValueAfter(lastApplied[i], k)
                        /\ Range(nodes[i]) = MembersAfter(lastApplied[i])
      BY DEF StateFollowsLog
    <2> DEFINE p == lastApplied[i]
    <2>1. Base /\ KeysFollow /\ MembersFollow  BY DEF IInv
    <2>2. Position(i) = p /\ reached[i] = p  BY DEF Position
    <2>3. p \in Nat  BY <2>1, PlacedAll DEF Placed
    <2> HIDE DEF p
    <2>4. \A n \in Position(i)..reached[i] : n = p  BY <2>2, <2>3
    <2>5. ASSUME NEW k \in Key, ~UsedByLocks(k) PROVE db[i][k] = ValueAfter(p, k)
      <3>1. PICK n \in Position(i)..reached[i] : db[i][k] = ValueAfter(n, k)
        BY <2>1, <2>5 DEF KeysFollow
      <3>2. n = p  BY <2>4
      <3> QED  BY <3>1, <3>2
    <2>6. ASSUME NEW s \in Server \cup Target
          PROVE  s \in Range(nodes[i]) <=> s \in MembersAfter(p)
      <3>1. PICK n \in Position(i)..reached[i] :
              s \in Range(nodes[i]) <=> s \in MembersAfter(n)
        BY <2>1 DEF MembersFollow
      <3>2. n = p  BY <2>4
      <3> QED  BY <3>1, <3>2
    <2>7. Range(nodes[i]) \subseteq Server \cup Target
      <3>1. members[i] = Range(nodes[i]) /\ members[i] \subseteq Server \cup Target
        BY <2>1 DEF Base, TypeOK, PeersFollowMembers
      <3> QED  BY <3>1
    <2>8. MembersAfter(p) \subseteq Server \cup Target  BY DEF MembersAfter
    <2>9. Range(nodes[i]) = MembersAfter(p)  BY <2>6, <2>7, <2>8
    <2> QED  BY <2>5, <2>9 DEF p
  <1> QED  BY <1>1, ApplyInvariant, PTL

\* A read of a key or of the members sees every change that was answered before
\* it began, whichever server answers it.
THEOREM ReadsAreFresh == Spec => []ReadIsFresh
  <1>1. IInv => ReadIsFresh  BY DEF IInv
  <1> QED  BY <1>1, ApplyInvariant, PTL

\* A lock that was refused is not taken later on behalf of the refused call.
THEOREM RefusalIsFinal == Spec => []RefusedStaysRefused
  <1>1. IInv => RefusedStaysRefused
    BY DEF IInv, Refused, RefusedStaysRefused, TakenByAnother
  <1> QED  BY <1>1, ApplyInvariant, PTL

\* Two holders are never told that they have the same lock, for leases that
\* overlap, while one server leads: also when that server crashes in the middle
\* of a batch and decides again, at a later time, about entries it had applied.
THEOREM LocksExclude == Spec => []LockHeldByOne
  <1>1. IInv => LockHeldByOne
    <2> SUFFICES ASSUME IInv, turns = 0, NEW c \in Client, NEW d \in Client,
                        Holds(c), Holds(d), EntryOf(c).key = EntryOf(d).key,
                        ~UsedByKv(EntryOf(c).key)
                 PROVE  EntryOf(c).holder = EntryOf(d).holder
      BY DEF LockHeldByOne, HeldByOne
    <2>1. Base /\ Calls /\ Held  BY DEF IInv
    <2>2. Answered(c) /\ Answered(d)  BY DEF Holds
    <2>3. call[c].at = leader /\ call[d].at = leader
      BY <2>1, <2>2, AnsweredIsSettled DEF Settled
    <2>4. /\ db[leader][EntryOf(c).key] = Lock(EntryOf(c).holder, EntryOf(c).lease)
          /\ db[leader][EntryOf(d).key] = Lock(EntryOf(d).holder, EntryOf(d).lease)
      BY <2>1, <2>3 DEF Held
    <2>5. Lock(EntryOf(c).holder, EntryOf(c).lease)
            = Lock(EntryOf(d).holder, EntryOf(d).lease)
      BY <2>4
    <2> QED  BY <2>5, Kinds
  <1> QED  BY <1>1, ApplyInvariant, PTL

=============================================================================
