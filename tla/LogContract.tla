----------------------------- MODULE LogContract -----------------------------
(***************************************************************************)
(* What the rest of floyd relies on when it uses RaftLog: a sequence of    *)
(* entries with an atomic Append and an atomic TruncateSuffix, the same    *)
(* after a restart.  The two ways in which a failing disk shows are part   *)
(* of the contract: a failed Append answers like an Append of nothing, and *)
(* once a TruncateSuffix has failed nothing is said of the log after a     *)
(* restart.                                                                *)
(***************************************************************************)
EXTENDS Integers, Sequences

CONSTANTS
  Thread,    \* the callers; an entry is identified by who appended it
  NoAnswer   \* a call that has not returned

VARIABLES
  log,       \* the entries
  answer,    \* what each thread's last call returned
  durable    \* no TruncateSuffix has failed

vars == <<log, answer, durable>>

Extends(s, t) == Len(s) <= Len(t) /\ s = SubSeq(t, 1, Len(s))

Init ==
  /\ log = <<>>
  /\ answer = [t \in Thread |-> NoAnswer]
  /\ durable = TRUE

\* A call of t begins.
Call(t) ==
  /\ answer' = [answer EXCEPT ![t] = NoAnswer]
  /\ UNCHANGED <<log, durable>>

\* The new entries are t's; the answer is the index of the last of them.
AppendOk(t) ==
  /\ Extends(log, log')
  /\ Len(log') > Len(log)
  /\ \A k \in Len(log) + 1 .. Len(log') : log'[k] = t
  /\ answer' = [answer EXCEPT ![t] = Len(log')]
  /\ UNCHANGED durable

\* The caller is told the last index there is.
AppendFails(t) ==
  /\ answer' = [answer EXCEPT ![t] = Len(log)]
  /\ UNCHANGED <<log, durable>>

Truncate(t) ==
  /\ Extends(log', log)
  /\ \E ok \in BOOLEAN :
       /\ answer' = [answer EXCEPT ![t] = IF ok THEN 0 ELSE -1]
       /\ durable' = (durable /\ ok)

\* The entries survive; the calls under way do not return.
Restart ==
  /\ durable => log' = log
  /\ UNCHANGED <<answer, durable>>

Next ==
  \/ \E t \in Thread : Call(t) \/ AppendOk(t) \/ AppendFails(t) \/ Truncate(t)
  \/ Restart

Spec == Init /\ [][Next]_vars

=============================================================================
