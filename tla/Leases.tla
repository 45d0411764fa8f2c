------------------------------ MODULE Leases ------------------------------
(***************************************************************************)
(* What the session pool promises its callers, without capacity counters,  *)
(* queues, logins or resets: at most MaxSize leases at a time, a session   *)
(* leased to one caller at a time, and no lease starts on a session that   *)
(* still has the uncommitted changes of an earlier one.                    *)
(***************************************************************************)
EXTENDS Naturals, FiniteSets

CONSTANTS Callers, Sessions, MaxSize, None

VARIABLES
  lease,     \* the session leased to each caller, or None
  dirty      \* sessions with changes neither committed nor aborted

vars == <<lease, dirty>>

Leased == {lease[c] : c \in Callers} \ {None}

Init == lease = [c \in Callers |-> None] /\ dirty = {}

(* A caller is given a session that is free and clean. *)
Grant(c) ==
  /\ lease[c] = None
  /\ Cardinality(Leased) < MaxSize
  /\ \E s \in Sessions \ (Leased \cup dirty) : lease' = [lease EXCEPT ![c] = s]
  /\ UNCHANGED dirty

(* A holder changes objects, commits or aborts, and gives the session      *)
(* back, which may end its changes in the same step.                       *)
Change(c) ==
  /\ lease[c] # None
  /\ dirty' = dirty \cup {lease[c]}
  /\ UNCHANGED lease

Settle(c) ==
  /\ lease[c] # None
  /\ dirty' = dirty \ {lease[c]}
  /\ UNCHANGED lease

GiveBack(c) ==
  /\ lease[c] # None
  /\ lease' = [lease EXCEPT ![c] = None]
  /\ dirty' \in {dirty, dirty \ {lease[c]}}

(* The pool aborts, or logs out, a session nobody holds. *)
Clean(s) ==
  /\ s \in dirty \ Leased
  /\ dirty' = dirty \ {s}
  /\ UNCHANGED lease

Next ==
  \/ \E c \in Callers : Grant(c) \/ Change(c) \/ Settle(c) \/ GiveBack(c)
  \/ \E s \in Sessions : Clean(s)

Spec == Init /\ [][Next]_vars
=============================================================================
