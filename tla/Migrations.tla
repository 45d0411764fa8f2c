----------------------------- MODULE Migrations -----------------------------
(***************************************************************************)
(* The migration runner of src/migrations.ts: several deployments call     *)
(* upgrade() or downgrade() at about the same time, each on a session of   *)
(* its own, on one table of applied steps and one advisory lock.  A step   *)
(* is the number of its place in orderedSteps().                           *)
(*                                                                         *)
(* The Stone is external: a session sees its view until it commits or      *)
(* aborts, and a commit is refused when it writes a thing that another     *)
(* commit has written since.  What a step changes is counted in `data`,    *)
(* once for each time it is applied and not rolled back.                   *)
(***************************************************************************)
EXTENDS Integers, FiniteSets

CONSTANTS
  Runners,
  LastStep,     \* steps are 1 .. LastStep
  Depends,      \* Depends[s]: the steps that s depends on, which come before it
  Owners,       \* lockOwner of each call
  Locking,      \* useLock: the values all the calls of a behaviour may share
  LocksExpire,  \* a lock may be found stale, while its owner runs or not
  Forcing,      \* forceLock may be given
  Faults,       \* which of "callback", "commit", "abort", "crash" may happen
  None

Steps  == 1..LastStep
Table  == 0              \* the things of UserGlobals, beside what steps change
Lock   == -1
Things == Steps \cup {Table, Lock}

ASSUME ParametersAssumption ==
  /\ LastStep \in Nat
  /\ Depends \in [Steps -> SUBSET Steps]
  /\ \A s \in Steps : \A d \in Depends[s] : d < s
  /\ Locking \subseteq BOOLEAN /\ LocksExpire \in BOOLEAN /\ Forcing \in BOOLEAN
  /\ Faults \subseteq {"callback", "commit", "abort", "crash"}
  /\ None \notin [owner : Owners, by : Runners]

VARIABLES
  useLock,  \* whether the calls use the lock
  head,     \* what is committed: the table, the lock and what steps changed
  view,     \* what each session sees
  missed,   \* the things others have written since that view
  wrote,    \* the things with uncommitted changes in the session
  call,     \* what each runner was asked
  pc,       \* where its call is
  applied,  \* the table as it has it in memory
  pending,  \* the steps it has yet to run
  fate,     \* how the call ended
  stuck     \* it could not release its lock

stoneVars == <<head, view, missed, wrote>>
callVars  == <<call, applied, pending, fate, stuck>>
vars      == <<useLock, stoneVars, callVars, pc>>

Calls == [direction : {"upgrade", "downgrade"}, target : 0..LastStep,
          owner : Owners, force : IF Forcing THEN BOOLEAN ELSE {FALSE}]

(* A lock is known by its owner, which calls may share, and by who wrote it. *)
Locks  == [owner : Owners, by : Runners]
States == [table : SUBSET Steps, lock : Locks \cup {None}, data : [Steps -> Int]]

TypeOK ==
  /\ useLock \in Locking
  /\ head \in States
  /\ view \in [Runners -> States]
  /\ missed \in [Runners -> SUBSET Things]
  /\ wrote \in [Runners -> SUBSET Things]
  /\ call \in [Runners -> Calls]
  /\ pc \in [Runners -> {"new", "connected", "locking", "running", "releasing", "over"}]
  /\ applied \in [Runners -> SUBSET Steps]
  /\ pending \in [Runners -> SUBSET Steps]
  /\ fate \in [Runners -> {"open", "done", "failed", "crashed"}]
  /\ stuck \in [Runners -> BOOLEAN]

Closed(t) == \A s \in t : Depends[s] \subseteq t

Init ==
  /\ useLock \in Locking
  /\ head \in {[table |-> t, lock |-> None, data |-> [s \in Steps |-> IF s \in t THEN 1 ELSE 0]] :
                 t \in {u \in SUBSET Steps : Closed(u)}}
  /\ view = [r \in Runners |-> head]
  /\ missed = [r \in Runners |-> {}] /\ wrote = [r \in Runners |-> {}]
  /\ call \in [Runners -> Calls]
  /\ pc = [r \in Runners |-> "new"]
  /\ applied = [r \in Runners |-> {}] /\ pending = [r \in Runners |-> {}]
  /\ fate = [r \in Runners |-> "open"]
  /\ stuck = [r \in Runners |-> FALSE]

-----------------------------------------------------------------------------
(* The session                                                             *)

(* r's transaction, which sees v and has written w, is committed.          *)
Committed(r, v, w) ==
  /\ w \cap missed[r] = {}
  /\ head' = [table |-> IF Table \in w THEN v.table ELSE head.table,
              lock  |-> IF Lock \in w THEN v.lock ELSE head.lock,
              data  |-> [s \in Steps |-> IF s \in w THEN v.data[s] ELSE head.data[s]]]
  /\ view' = [view EXCEPT ![r] = head']
  /\ missed' = [q \in Runners |-> IF q = r THEN {} ELSE missed[q] \cup w]
  /\ wrote' = [wrote EXCEPT ![r] = {}]

(* It is aborted, or the abort fails, which its callers ignore.            *)
Aborted(r, v, w) ==
  \/ /\ view' = [view EXCEPT ![r] = head]
     /\ missed' = [missed EXCEPT ![r] = {}]
     /\ wrote' = [wrote EXCEPT ![r] = {}]
     /\ UNCHANGED head
  \/ /\ "abort" \in Faults
     /\ view' = [view EXCEPT ![r] = v]
     /\ wrote' = [wrote EXCEPT ![r] = w]
     /\ UNCHANGED <<head, missed>>

CommitRefused(r, w) == w \cap missed[r] /= {} \/ "commit" \in Faults

-----------------------------------------------------------------------------
(* A call                                                                  *)

(* The runner's session is logged in. *)
Connect(r) ==
  /\ pc[r] = "new"
  /\ view' = [view EXCEPT ![r] = head]
  /\ missed' = [missed EXCEPT ![r] = {}]
  /\ pc' = [pc EXCEPT ![r] = "connected"]
  /\ UNCHANGED <<useLock, head, wrote, callVars>>

End(r, how) ==
  /\ pc' = [pc EXCEPT ![r] = "over"]
  /\ fate' = [fate EXCEPT ![r] = how]

(* Mutant: steps are planned whether they have been applied or not. *)
PlanUpgrade_Again(target, table) == {s \in Steps : target = 0 \/ s <= target}

(* planUpgrade and planDowngrade, whose target 0 is "base" for a downgrade *)
(* and no target for an upgrade.                                           *)
PlanUpgrade(target, table) ==
  {s \in Steps : s \notin table /\ (target = 0 \/ s <= target)}
PlanDowngrade(target, table) == {s \in table : s > target}

(* The applied steps are read and the call planned, before the lock.       *)
Plan(r) ==
  LET table  == view[r].table
      target == call[r].target
      steps  == IF call[r].direction = "upgrade" THEN PlanUpgrade(target, table)
                ELSE PlanDowngrade(target, table)
      unknown == call[r].direction = "downgrade" /\ target \notin table \cup {0}
  IN  /\ pc[r] = "connected"
      /\ applied' = [applied EXCEPT ![r] = table]
      /\ \/ unknown /\ End(r, "failed") /\ UNCHANGED pending
         \/ ~unknown /\ steps = {} /\ End(r, "done") /\ UNCHANGED pending
         \/ /\ ~unknown /\ steps /= {}
            /\ pending' = [pending EXCEPT ![r] = steps]
            /\ pc' = [pc EXCEPT ![r] = IF useLock THEN "locking" ELSE "running"]
            /\ UNCHANGED fate
      /\ UNCHANGED <<useLock, stoneVars, call, stuck>>

(* acquireMigrationLock *)
TakeLock(r) ==
  LET v == [view[r] EXCEPT !.lock = [owner |-> call[r].owner, by |-> r]]
      w == wrote[r] \cup {Lock}
      held == view[r].lock /= None /\ ~call[r].force
  IN  /\ pc[r] = "locking"
      /\ \/ held /\ End(r, "failed") /\ UNCHANGED stoneVars
         \/ /\ ~held \/ LocksExpire
            /\ \/ /\ Committed(r, v, w)
                  /\ pc' = [pc EXCEPT ![r] = "running"]
                  /\ UNCHANGED fate
               \/ CommitRefused(r, w) /\ Aborted(r, v, w) /\ End(r, "failed")
      /\ UNCHANGED <<useLock, call, applied, pending, stuck>>

(* Mutant: a downgrade starts with the oldest step. *)
Chosen_OldestFirst(r, s) == s \in pending[r] /\ \A t \in pending[r] : s <= t

(* The next step: its callback, the table with its record, the commit.     *)
Chosen(r, s) ==
  /\ s \in pending[r]
  /\ IF call[r].direction = "upgrade"
     THEN \A t \in pending[r] : s <= t
     ELSE \A t \in pending[r] : t <= s

(* Mutant: a failed step ends the call at once. *)
Leave_Unlocked(r, how) ==
  IF useLock /\ how = "done"
  THEN pc' = [pc EXCEPT ![r] = "releasing"] /\ fate' = [fate EXCEPT ![r] = how]
  ELSE End(r, how)

Leave(r, how) ==
  IF useLock
  THEN pc' = [pc EXCEPT ![r] = "releasing"] /\ fate' = [fate EXCEPT ![r] = how]
  ELSE End(r, how)

RunStep(r, s) ==
  LET up      == call[r].direction = "upgrade"
      table   == IF up THEN applied[r] \cup {s} ELSE applied[r] \ {s}
      changed == [view[r] EXCEPT !.data[s] = IF up THEN @ + 1 ELSE @ - 1]
      v       == [changed EXCEPT !.table = table]
      w       == wrote[r] \cup {s, Table}
  IN  /\ pc[r] = "running" /\ Chosen(r, s)
      /\ \/ /\ Committed(r, v, w)
            /\ applied' = [applied EXCEPT ![r] = table]
            /\ pending' = [pending EXCEPT ![r] = @ \ {s}]
            /\ IF pending'[r] = {} THEN Leave(r, "done") ELSE UNCHANGED <<pc, fate>>
         \/ /\ CommitRefused(r, w) /\ Aborted(r, v, w)
            /\ applied' = [applied EXCEPT ![r] = table]
            /\ Leave(r, "failed")
            /\ UNCHANGED pending
         \/ /\ "callback" \in Faults   \* it throws, before or after its change
            /\ Aborted(r, view[r], wrote[r]) \/ Aborted(r, changed, wrote[r] \cup {s})
            /\ Leave(r, "failed")
            /\ UNCHANGED <<applied, pending>>
      /\ UNCHANGED <<useLock, call, stuck>>

(* releaseMigrationLock, whose errors are dropped if a step has failed.    *)
Release(r) ==
  LET v == [view[r] EXCEPT !.lock = None]
      w == wrote[r] \cup {Lock}
      mine == call[r].force \/ (view[r].lock /= None => view[r].lock.owner = call[r].owner)
  IN  /\ pc[r] = "releasing"
      /\ pc' = [pc EXCEPT ![r] = "over"]
      /\ \/ /\ view[r].lock = None
            /\ UNCHANGED <<stoneVars, fate, stuck>>
         \/ /\ ~mine
            /\ fate' = [fate EXCEPT ![r] = "failed"]
            /\ UNCHANGED <<stoneVars, stuck>>
         \/ /\ view[r].lock /= None /\ mine
            /\ Committed(r, v, w)
            /\ UNCHANGED <<fate, stuck>>
         \/ /\ view[r].lock /= None /\ mine
            /\ CommitRefused(r, w) /\ Aborted(r, v, w)
            /\ fate' = [fate EXCEPT ![r] = "failed"]
            /\ stuck' = [stuck EXCEPT ![r] = TRUE]
      /\ UNCHANGED <<useLock, call, applied, pending>>

(* The process dies: what its session has not committed is lost. *)
Crash(r) ==
  /\ "crash" \in Faults
  /\ pc[r] \notin {"new", "over"}
  /\ End(r, "crashed")
  /\ wrote' = [wrote EXCEPT ![r] = {}]
  /\ UNCHANGED <<useLock, head, view, missed, call, applied, pending, stuck>>

Next == \E r \in Runners :
  \/ Connect(r) \/ Plan(r) \/ TakeLock(r) \/ Release(r) \/ Crash(r)
  \/ \E s \in Steps : RunStep(r, s)

Spec == Init /\ [][Next]_vars

-----------------------------------------------------------------------------
(* Properties                                                              *)

(* What the steps have changed is what the table says: every recorded step *)
(* has been applied once, no other has, whatever runs at the same time,    *)
(* fails or crashes.                                                       *)
TableMatchesData ==
  \A s \in Steps : head.data[s] = IF s \in head.table THEN 1 ELSE 0

(* Of the calls that use the lock, one at a time runs its steps.           *)
OneRunner ==
  \A r, q \in Runners :
    useLock /\ pc[r] \in {"running", "releasing"} /\ pc[q] \in {"running", "releasing"}
      => r = q

(* A call that is over has given its lock back, unless it crashed or could *)
(* not commit the release: docs/migrations.md says "when possible".        *)
LocksComeBack ==
  \A r \in Runners :
    pc[r] = "over" /\ head.lock /= None /\ head.lock.by = r =>
      fate[r] = "crashed" \/ stuck[r]

(* The table changes by one step at a time, which all it depends on        *)
(* precede and on which nothing that is applied depends.                   *)
OneStepAtATime ==
  [][head'.table /= head.table =>
       /\ Closed(head.table) /\ Closed(head'.table)
       /\ \E s \in Steps : \/ head'.table = head.table \cup {s}
                           \/ head'.table = head.table \ {s}]_vars
=============================================================================
