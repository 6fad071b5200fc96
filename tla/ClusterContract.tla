--------------------------- MODULE ClusterContract ---------------------------
(***************************************************************************)
(* What a cluster of floyd promises to those who use it: the commands are  *)
(* put into one order, in which every server applies them, and ok is       *)
(* answered for nothing that was not applied.  None of it is undone by a   *)
(* crash; a command that is applied again has the place it had.  A command *)
(* enters the order after it was issued and before it is answered, so the  *)
(* order is one that the clients could have observed.                      *)
(***************************************************************************)
EXTENDS Naturals, Sequences

CONSTANTS
  Server,
  Command    \* each is issued once

VARIABLES
  issued,    \* the commands some server has begun to execute
  order,     \* the commands that have a place, by their place
  store,     \* what each server has applied: commands by their place
  answered   \* the commands that were answered ok

vars == <<issued, order, store, answered>>

Extends(s, t) == Len(s) <= Len(t) /\ s = SubSeq(t, 1, Len(s))

Init ==
  /\ issued = {}
  /\ order = <<>>
  /\ store = [i \in Server |-> {}]
  /\ answered = {}

Issue(c) ==
  /\ c \notin issued
  /\ issued' = issued \cup {c}
  /\ UNCHANGED <<order, store, answered>>

\* Any number of commands get their places at once.  They were issued, and no
\* command has two places.
Commit ==
  /\ Extends(order, order')
  /\ \A k \in Len(order) + 1 .. Len(order') :
       /\ order'[k] \in issued
       /\ \A l \in 1..Len(order') : order'[l] = order'[k] => l = k
  /\ UNCHANGED <<issued, store, answered>>

\* A server applies the next command, and nothing is left out before it.
Apply(i) ==
  \E k \in 1..Len(order) :
    /\ \A l \in 1..k - 1 : \E a \in store[i] : a.index = l
    /\ store' = [store EXCEPT ![i] = @ \cup {[index |-> k, cmd |-> order[k]]}]
    /\ UNCHANGED <<issued, order, answered>>

Answer(c) ==
  /\ \E i \in Server : \E a \in store[i] : a.cmd = c
  /\ answered' = answered \cup {c}
  /\ UNCHANGED <<issued, order, store>>

Next ==
  \/ \E c \in Command : Issue(c) \/ Answer(c)
  \/ Commit
  \/ \E i \in Server : Apply(i)

Spec == Init /\ [][Next]_vars

=============================================================================
