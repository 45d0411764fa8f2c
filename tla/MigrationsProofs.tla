------------------------- MODULE MigrationsProofs ---------------------------
(***************************************************************************)
(* Proofs about module Migrations for any runners, steps, dependencies and *)
(* targets.  TypeOK holds whatever the options and the faults; the safety  *)
(* properties hold when locks neither expire nor are forced and aborts do  *)
(* not fail, which TLC shows to be needed.                                 *)
(***************************************************************************)
EXTENDS Migrations, TLAPS

Act(r) ==
  \/ Connect(r) \/ Plan(r) \/ TakeLock(r) \/ Release(r) \/ Crash(r)
  \/ \E s \in Steps : RunStep(r, s)

Stages == {"new", "connected", "locking", "running", "releasing", "over"}
Fates  == {"open", "done", "failed", "crashed"}

LEMMA NumbersApart == Table \notin Steps /\ Lock \notin Steps /\ Table /= Lock
BY DEF Table, Lock, Steps

-----------------------------------------------------------------------------
(* Types                                                                   *)

LEMMA CommittedType ==
  ASSUME TypeOK, NEW r \in Runners, NEW v \in States, NEW w \in SUBSET Things,
         Committed(r, v, w)
  PROVE  /\ head' \in States
         /\ view' \in [Runners -> States]
         /\ missed' \in [Runners -> SUBSET Things]
         /\ wrote' \in [Runners -> SUBSET Things]
<1>1. /\ head.table \in SUBSET Steps /\ head.lock \in Locks \cup {None}
      /\ head.data \in [Steps -> Int] /\ v.data \in [Steps -> Int]
      /\ v.table \in SUBSET Steps /\ v.lock \in Locks \cup {None}
  BY DEF TypeOK, States
<1>2. [s \in Steps |-> IF s \in w THEN v.data[s] ELSE head.data[s]] \in [Steps -> Int]
  BY <1>1
<1>3. head' \in States
  BY <1>1, <1>2 DEF Committed, States
<1>4. QED
  BY <1>3 DEF Committed, TypeOK

LEMMA AbortedType ==
  ASSUME TypeOK, NEW r \in Runners, NEW v \in States, NEW w \in SUBSET Things,
         Aborted(r, v, w)
  PROVE  /\ head' \in States
         /\ view' \in [Runners -> States]
         /\ missed' \in [Runners -> SUBSET Things]
         /\ wrote' \in [Runners -> SUBSET Things]
BY DEF Aborted, TypeOK

LEMMA EndType ==
  ASSUME TypeOK, NEW r \in Runners, NEW how \in Fates, End(r, how) \/ Leave(r, how)
  PROVE  pc' \in [Runners -> Stages] /\ fate' \in [Runners -> Fates]
BY DEF End, Leave, TypeOK, Stages, Fates

LEMMA TypeStep ==
  ASSUME TypeOK, [Next]_vars
  PROVE  TypeOK'
<1> DEFINE StoneOK == /\ head' \in States
                      /\ view' \in [Runners -> States]
                      /\ missed' \in [Runners -> SUBSET Things]
                      /\ wrote' \in [Runners -> SUBSET Things]
           FlowOK == pc' \in [Runners -> Stages] /\ fate' \in [Runners -> Fates]
           PlanOK == applied' \in [Runners -> SUBSET Steps] /\ pending' \in [Runners -> SUBSET Steps]
           RestOK == useLock' = useLock /\ call' = call /\ stuck' \in [Runners -> BOOLEAN]
<1>1. CASE UNCHANGED vars
  BY <1>1 DEF TypeOK, vars, stoneVars, callVars
<1>2. ASSUME NEW r \in Runners, Connect(r) PROVE TypeOK'
  BY <1>2 DEF Connect, TypeOK, callVars, Things
<1>3. ASSUME NEW r \in Runners, Plan(r) PROVE TypeOK'
  <2>1. view[r].table \in SUBSET Steps /\ call[r].target \in 0..LastStep
    BY DEF TypeOK, States, Calls
  <2>2. /\ PlanUpgrade(call[r].target, view[r].table) \in SUBSET Steps
        /\ PlanDowngrade(call[r].target, view[r].table) \in SUBSET Steps
    BY <2>1 DEF PlanUpgrade, PlanDowngrade
  <2>3. applied' \in [Runners -> SUBSET Steps]
    BY <1>3, <2>1 DEF Plan, TypeOK
  <2>4. pending' \in [Runners -> SUBSET Steps]
    <3>1. \E t \in SUBSET Steps : pending' = pending \/ pending' = [pending EXCEPT ![r] = t]
      BY <1>3, <2>2 DEF Plan
    <3>2. QED
      BY <3>1 DEF TypeOK
  <2>5. pc' \in [Runners -> Stages] /\ fate' \in [Runners -> Fates]
    BY <1>3 DEF Plan, End, TypeOK, Stages, Fates
  <2>6. QED
    BY <1>3, <2>3, <2>4, <2>5 DEF Plan, TypeOK, stoneVars, Stages, Fates
<1>4. ASSUME NEW r \in Runners, TakeLock(r) PROVE TypeOK'
  <2> DEFINE v == [view[r] EXCEPT !.lock = [owner |-> call[r].owner, by |-> r]]
             w == wrote[r] \cup {Lock}
  <2>1. v \in States /\ w \in SUBSET Things
    BY DEF TypeOK, States, Locks, Calls, Things
  <2>2. \/ UNCHANGED stoneVars \/ Committed(r, v, w) \/ Aborted(r, v, w)
    BY <1>4 DEF TakeLock
  <2> HIDE DEF v, w
  <2>3. StoneOK
    BY <2>1, <2>2, CommittedType, AbortedType DEF TypeOK, stoneVars
  <2>4. FlowOK
    BY <1>4 DEF TakeLock, End, TypeOK, Stages, Fates
  <2>5. QED
    BY <1>4, <2>3, <2>4 DEF TakeLock, TypeOK, Stages, Fates
<1>5. ASSUME NEW r \in Runners, NEW s \in Steps, RunStep(r, s) PROVE TypeOK'
  <2> DEFINE up      == call[r].direction = "upgrade"
             table   == IF up THEN applied[r] \cup {s} ELSE applied[r] \ {s}
             changed == [view[r] EXCEPT !.data[s] = IF up THEN @ + 1 ELSE @ - 1]
             v       == [changed EXCEPT !.table = table]
             w       == wrote[r] \cup {s, Table}
  <2>1. table \in SUBSET Steps /\ w \in SUBSET Things /\ wrote[r] \cup {s} \in SUBSET Things
    BY DEF TypeOK, Things
  <2>2. changed \in States /\ v \in States /\ view[r] \in States /\ wrote[r] \in SUBSET Things
    <3>1. view[r] \in States /\ wrote[r] \in SUBSET Things
      BY DEF TypeOK
    <3>2. view[r].data[s] \in Int
      BY <3>1 DEF States
    <3>3. changed \in States
      BY <3>1, <3>2 DEF States
    <3>4. v \in States
      BY <2>1, <3>3 DEF States
    <3>5. QED
      BY <3>1, <3>3, <3>4
  <2>3. \/ Committed(r, v, w) \/ Aborted(r, v, w)
        \/ Aborted(r, view[r], wrote[r]) \/ Aborted(r, changed, wrote[r] \cup {s})
    BY <1>5 DEF RunStep
  <2>4. PlanOK
    <3>1. applied' = applied \/ applied' = [applied EXCEPT ![r] = table]
      BY <1>5 DEF RunStep
    <3>2. pending' = pending \/ pending' = [pending EXCEPT ![r] = @ \ {s}]
      BY <1>5 DEF RunStep
    <3>3. applied' \in [Runners -> SUBSET Steps]
      BY <2>1, <3>1 DEF TypeOK
    <3>4. QED
      BY <3>2, <3>3 DEF TypeOK
  <2>5. RestOK
    BY <1>5 DEF RunStep, TypeOK
  <2>6. FlowOK
    <3>1. Leave(r, "done") \/ Leave(r, "failed") \/ UNCHANGED <<pc, fate>>
      BY <1>5 DEF RunStep
    <3>2. QED
      BY <3>1, EndType DEF TypeOK, Stages, Fates
  <2> HIDE DEF up, table, changed, v, w
  <2>7. StoneOK
    BY <2>1, <2>2, <2>3, CommittedType, AbortedType
  <2>8. QED
    BY <2>4, <2>5, <2>6, <2>7 DEF TypeOK, Stages, Fates
<1>6. ASSUME NEW r \in Runners, Release(r) PROVE TypeOK'
  <2> DEFINE v == [view[r] EXCEPT !.lock = None]
             w == wrote[r] \cup {Lock}
  <2>1. v \in States /\ w \in SUBSET Things
    BY DEF TypeOK, States, Things
  <2>2. \/ UNCHANGED stoneVars \/ Committed(r, v, w) \/ Aborted(r, v, w)
    BY <1>6 DEF Release, stoneVars
  <2> HIDE DEF v, w
  <2>3. StoneOK
    BY <2>1, <2>2, CommittedType, AbortedType DEF TypeOK, stoneVars
  <2>4. FlowOK /\ RestOK
    BY <1>6 DEF Release, TypeOK, Stages, Fates
  <2>5. QED
    BY <1>6, <2>3, <2>4 DEF Release, TypeOK, Stages, Fates
<1>7. ASSUME NEW r \in Runners, Crash(r) PROVE TypeOK'
  BY <1>7 DEF Crash, End, TypeOK, Things
<1>8. QED
  BY <1>1, <1>2, <1>3, <1>4, <1>5, <1>6, <1>7 DEF Next

(* Type correctness, whatever the options and the faults. *)
THEOREM MigrationsTypeOK == Spec => []TypeOK
<1>1. Init => TypeOK
  BY ParametersAssumption DEF Init, TypeOK, States, Closed
<1>2. QED
  BY <1>1, TypeStep, PTL DEF Spec

-----------------------------------------------------------------------------
(* The invariant                                                           *)

Careful == ~LocksExpire /\ ~Forcing /\ "abort" \notin Faults

(* A session is clean between commits, and sees what is committed but for  *)
(* what it has missed.  A step's changes are missed with the table.        *)
InSync(r) ==
  /\ wrote[r] = {}
  /\ Table \notin missed[r] => view[r].table = head.table /\ view[r].data = head.data
  /\ Lock \notin missed[r] => view[r].lock = head.lock

(* A session that sees no lock and has missed a change of the table has    *)
(* also missed the lock under which it was made.                           *)
LockFirst(r) ==
  useLock /\ view[r].lock = None /\ Table \in missed[r] => Lock \in missed[r]

(* Who runs steps holds the lock. *)
Holder(r) ==
  useLock /\ pc[r] \in {"running", "releasing"} =>
    head.lock = [owner |-> call[r].owner, by |-> r] /\ Lock \notin missed[r]

(* Whose lock it is runs steps, crashed, or could not release it. *)
Held(r) ==
  head.lock /= None /\ head.lock.by = r =>
    /\ useLock
    /\ \/ pc[r] \in {"running", "releasing"}
       \/ pc[r] = "over" /\ (fate[r] = "crashed" \/ stuck[r])

(* The table in memory is the one in view, and the plan is complete: the   *)
(* steps before a pending one are applied or pending in an upgrade, those  *)
(* after it are not applied or pending in a downgrade.                     *)
Planned(r) ==
  /\ pc[r] \in {"locking", "running"} => applied[r] = view[r].table
  /\ pc[r] = "locking" => useLock
  /\ pc[r] = "releasing" => useLock
  /\ pc[r] \in {"locking", "running"} =>
       IF call[r].direction = "upgrade"
       THEN /\ pending[r] \cap applied[r] = {}
            /\ \A s \in pending[r], t \in Steps : t < s => t \in applied[r] \cup pending[r]
       ELSE /\ pending[r] \subseteq applied[r]
            /\ \A s \in pending[r], t \in applied[r] : t > s => t \in pending[r]

Mine(r) == InSync(r) /\ LockFirst(r) /\ Holder(r) /\ Held(r) /\ Planned(r)

Stone == TableMatchesData /\ Closed(head.table)

IInv == Careful /\ Stone /\ \A r \in Runners : Mine(r)

USE DEF InSync, LockFirst, Holder, Held, Planned

-----------------------------------------------------------------------------
(* The steps                                                               *)

(* An abort that works.                                                    *)
LEMMA AbortedMine ==
  ASSUME TypeOK, Careful, NEW r \in Runners, NEW v, NEW w, Aborted(r, v, w), wrote[r] = {}
  PROVE  /\ head' = head /\ wrote' = wrote
         /\ view'[r] = head /\ missed'[r] = {}
         /\ \A q \in Runners \ {r} : view'[q] = view[q] /\ missed'[q] = missed[q]
BY DEF Aborted, Careful, TypeOK

(* A commit: its session sees it, and the others miss it.                  *)
LEMMA CommittedMine ==
  ASSUME TypeOK, NEW r \in Runners, NEW v \in States, NEW w \in SUBSET Things,
         Committed(r, v, w), wrote[r] = {}
  PROVE  /\ w \cap missed[r] = {} /\ wrote' = wrote
         /\ view'[r] = head' /\ missed'[r] = {}
         /\ \A q \in Runners \ {r} : view'[q] = view[q] /\ missed'[q] = missed[q] \cup w
         /\ head'.table = IF Table \in w THEN v.table ELSE head.table
         /\ head'.lock = IF Lock \in w THEN v.lock ELSE head.lock
         /\ head'.data = [s \in Steps |-> IF s \in w THEN v.data[s] ELSE head.data[s]]
BY DEF Committed, TypeOK

(* What no action of r touches of the others.                              *)
LEMMA OthersSame ==
  ASSUME TypeOK, NEW r \in Runners, Act(r), NEW q \in Runners \ {r}
  PROVE  /\ useLock' = useLock /\ call' = call
         /\ pc'[q] = pc[q] /\ fate'[q] = fate[q] /\ stuck'[q] = stuck[q]
         /\ applied'[q] = applied[q] /\ pending'[q] = pending[q]
<1>1. CASE Connect(r)
  BY <1>1 DEF Connect, TypeOK, callVars
<1>2. CASE Plan(r)
  BY <1>2 DEF Plan, End, TypeOK
<1>3. CASE TakeLock(r)
  BY <1>3 DEF TakeLock, End, TypeOK
<1>4. CASE Release(r)
  BY <1>4 DEF Release, TypeOK
<1>5. CASE Crash(r)
  BY <1>5 DEF Crash, End, TypeOK
<1>6. CASE \E s \in Steps : RunStep(r, s)
  <2>1. PICK s \in Steps : RunStep(r, s)
    BY <1>6
  <2>2. /\ \/ UNCHANGED <<pc, fate>>
           \/ \E where \in Stages, how \in Fates :
                pc' = [pc EXCEPT ![r] = where] /\ fate' = [fate EXCEPT ![r] = how]
        /\ applied' = applied \/ \E t \in SUBSET Steps : applied' = [applied EXCEPT ![r] = t]
        /\ pending' = pending \/ pending' = [pending EXCEPT ![r] = @ \ {s}]
        /\ UNCHANGED <<useLock, call, stuck>>
    BY <2>1 DEF RunStep, Leave, End, TypeOK, Stages, Fates
  <2>3. QED
    BY <2>2 DEF TypeOK
<1>7. QED
  BY <1>1, <1>2, <1>3, <1>4, <1>5, <1>6 DEF Act

(* The others, of whom only the view and what they miss can matter.        *)
LEMMA OthersKeep ==
  ASSUME TypeOK, NEW r \in Runners, Act(r), NEW q \in Runners \ {r},
         Mine(q), head' = head, wrote' = wrote,
         view'[q] = view[q], missed'[q] = missed[q]
  PROVE  Mine(q)'
<1>1. /\ useLock' = useLock /\ call' = call
      /\ pc'[q] = pc[q] /\ fate'[q] = fate[q] /\ stuck'[q] = stuck[q]
      /\ applied'[q] = applied[q] /\ pending'[q] = pending[q]
  BY OthersSame
<1>2. QED
  BY <1>1 DEF Mine

(* Whoever has not planned, or has just been refused the lock, has none.   *)
LEMMA NotHeld ==
  ASSUME NEW r \in Runners, Mine(r), pc[r] \in {"new", "connected", "locking"}
  PROVE  ~(head.lock /= None /\ head.lock.by = r)
BY DEF Mine

LEMMA ConnectStep ==
  ASSUME TypeOK, IInv, NEW r \in Runners, Connect(r)
  PROVE  IInv'
<1>1. /\ head' = head /\ wrote' = wrote /\ view'[r] = head /\ missed'[r] = {}
      /\ pc'[r] = "connected"
      /\ \A q \in Runners \ {r} : view'[q] = view[q] /\ missed'[q] = missed[q]
  BY DEF Connect, TypeOK
<1>2. Mine(r)'
  <2>1. ~(head.lock /= None /\ head.lock.by = r)
    BY NotHeld DEF IInv, Connect
  <2>2. QED
    BY <1>1, <2>1 DEF Mine, IInv
<1>3. ASSUME NEW q \in Runners \ {r} PROVE Mine(q)'
  BY <1>1, OthersKeep DEF IInv, Act
<1>4. QED
  BY <1>1, <1>2, <1>3 DEF IInv, Stone, TableMatchesData, Closed, Careful

LEMMA PlanStep ==
  ASSUME TypeOK, IInv, NEW r \in Runners, Plan(r)
  PROVE  IInv'
<1> DEFINE table  == view[r].table
           target == call[r].target
           steps  == IF call[r].direction = "upgrade" THEN PlanUpgrade(target, table)
                     ELSE PlanDowngrade(target, table)
<1>1. UNCHANGED <<head, view, missed, wrote>>
  BY DEF Plan, stoneVars
<1>2. Mine(r)'
  <2>1. ~(head.lock /= None /\ head.lock.by = r)
    BY NotHeld DEF IInv, Plan
  <2>2. /\ applied'[r] = table /\ useLock' = useLock /\ call' = call
        /\ \/ pc'[r] = "over"
           \/ /\ pending'[r] = steps
              /\ pc'[r] = IF useLock THEN "locking" ELSE "running"
    BY DEF Plan, End, TypeOK
  <2>3. target \in Nat /\ table \in SUBSET Steps
    <3>1. target \in 0..LastStep /\ table \in SUBSET Steps
      BY DEF TypeOK, Calls, States
    <3>2. QED
      BY <3>1, ParametersAssumption
  <2>4. CASE pc'[r] = "over"
    BY <1>1, <2>1, <2>2, <2>4 DEF IInv, Mine
  <2>5. CASE pending'[r] = steps /\ pc'[r] = IF useLock THEN "locking" ELSE "running"
    <3>1. CASE call[r].direction = "upgrade"
      <4>1. steps \cap table = {}
        BY <3>1 DEF PlanUpgrade
      <4>2. \A s \in steps, t \in Steps : t < s => t \in table \cup steps
        BY <3>1, <2>3 DEF PlanUpgrade, Steps
      <4>3. Planned(r)'
        BY <1>1, <2>2, <2>5, <3>1, <4>1, <4>2
      <4>4. QED
        BY <1>1, <2>1, <2>2, <2>5, <4>3 DEF IInv, Mine
    <3>2. CASE call[r].direction /= "upgrade"
      <4>1. steps \subseteq table
        BY <3>2 DEF PlanDowngrade
      <4>2. \A s \in steps, t \in table : t > s => t \in steps
        BY <3>2, <2>3 DEF PlanDowngrade, Steps
      <4>3. Planned(r)'
        BY <1>1, <2>2, <2>5, <3>2, <4>1, <4>2
      <4>4. QED
        BY <1>1, <2>1, <2>2, <2>5, <4>3 DEF IInv, Mine
    <3>3. QED
      BY <3>1, <3>2
  <2>6. QED
    BY <2>2, <2>4, <2>5
<1>3. ASSUME NEW q \in Runners \ {r} PROVE Mine(q)'
  BY <1>1, OthersKeep DEF IInv, Act
<1>4. QED
  BY <1>1, <1>2, <1>3 DEF IInv, Stone, TableMatchesData, Closed, Careful

LEMMA CrashStep ==
  ASSUME TypeOK, IInv, NEW r \in Runners, Crash(r)
  PROVE  IInv'
<1>1. UNCHANGED <<head, view, missed, useLock, call>> /\ wrote' = wrote
  BY DEF Crash, IInv, Mine, TypeOK
<1>2. Mine(r)'
  <2>1. pc'[r] = "over" /\ fate'[r] = "crashed" /\ wrote[r] = {}
    BY DEF Crash, End, IInv, Mine, TypeOK
  <2>2. InSync(r)' /\ LockFirst(r)'
    BY <1>1, <2>1 DEF IInv, Mine
  <2>3. Holder(r)' /\ Held(r)' /\ Planned(r)'
    BY <1>1, <2>1 DEF IInv, Mine
  <2>4. QED
    BY <2>2, <2>3 DEF Mine
<1>3. ASSUME NEW q \in Runners \ {r} PROVE Mine(q)'
  BY <1>1, OthersKeep DEF IInv, Act
<1>4. QED
  BY <1>1, <1>2, <1>3 DEF IInv, Stone, TableMatchesData, Closed, Careful

(* The lock that r writes.                                                 *)
LEMMA Marks ==
  ASSUME TypeOK, NEW r \in Runners
  PROVE  /\ [owner |-> call[r].owner, by |-> r] \in Locks
         /\ [owner |-> call[r].owner, by |-> r] /= None
<1>1. call[r].owner \in Owners
  BY DEF TypeOK, Calls
<1>2. [owner |-> call[r].owner, by |-> r] \in [owner : Owners, by : Runners]
  BY <1>1
<1>3. None \notin [owner : Owners, by : Runners]
  BY ParametersAssumption
<1>4. QED
  BY <1>2, <1>3 DEF Locks

LEMMA TakeLockStep ==
  ASSUME TypeOK, IInv, NEW r \in Runners, TakeLock(r)
  PROVE  IInv'
<1> DEFINE mark == [owner |-> call[r].owner, by |-> r]
           v == [view[r] EXCEPT !.lock = mark]
           w == wrote[r] \cup {Lock}
<1>1. v \in States /\ w \in SUBSET Things /\ v.lock = mark /\ mark /= None
  <2>1. mark \in Locks /\ mark /= None
    BY Marks
  <2> HIDE DEF mark
  <2>2. QED
    BY <2>1 DEF TypeOK, States, Things
<1>2. w = {Lock} /\ wrote[r] = {}
  BY DEF IInv, Mine
<1>3. /\ pc[r] = "locking" /\ useLock /\ useLock' = useLock /\ call' = call
      /\ applied'[r] = applied[r] /\ pending'[r] = pending[r]
  BY DEF TakeLock, IInv, Mine
<1>4. ~(head.lock /= None /\ head.lock.by = r)
  BY <1>3, NotHeld DEF IInv
<1>5. \/ pc'[r] = "over" /\ UNCHANGED stoneVars
      \/ pc'[r] = "over" /\ Aborted(r, v, w)
      \/ pc'[r] = "running" /\ view[r].lock = None /\ Committed(r, v, w)
  BY DEF TakeLock, End, TypeOK, IInv, Careful, Calls
<1> HIDE DEF mark, v, w
<1>6. CASE pc'[r] = "over" /\ UNCHANGED stoneVars
  <2>1. Mine(r)'
    BY <1>3, <1>4, <1>6 DEF IInv, Mine, stoneVars
  <2>2. ASSUME NEW q \in Runners \ {r} PROVE Mine(q)'
    BY <1>6, OthersKeep DEF IInv, Act, stoneVars
  <2>3. QED
    BY <1>6, <2>1, <2>2 DEF IInv, Stone, TableMatchesData, Closed, Careful, stoneVars
<1>7. CASE pc'[r] = "over" /\ Aborted(r, v, w)
  <2>1. /\ head' = head /\ wrote' = wrote
        /\ view'[r] = head /\ missed'[r] = {}
        /\ \A q \in Runners \ {r} : view'[q] = view[q] /\ missed'[q] = missed[q]
    BY <1>2, <1>7, AbortedMine DEF IInv
  <2>2. Mine(r)'
    BY <1>2, <1>3, <1>4, <1>7, <2>1 DEF IInv, Mine
  <2>3. ASSUME NEW q \in Runners \ {r} PROVE Mine(q)'
    BY <2>1, OthersKeep DEF IInv, Act
  <2>4. QED
    BY <2>1, <2>2, <2>3 DEF IInv, Stone, TableMatchesData, Closed, Careful
<1>8. CASE pc'[r] = "running" /\ view[r].lock = None /\ Committed(r, v, w)
  <2>1. /\ w \cap missed[r] = {} /\ wrote' = wrote
        /\ view'[r] = head' /\ missed'[r] = {}
        /\ \A q \in Runners \ {r} : view'[q] = view[q] /\ missed'[q] = missed[q] \cup w
        /\ head'.table = IF Table \in w THEN v.table ELSE head.table
        /\ head'.lock = IF Lock \in w THEN v.lock ELSE head.lock
        /\ head'.data = [s \in Steps |-> IF s \in w THEN v.data[s] ELSE head.data[s]]
    BY <1>1, <1>2, <1>8, CommittedMine
  <2>2. /\ head'.table = head.table /\ head'.lock = mark /\ head'.data = head.data
        /\ Lock \notin missed[r]
    BY <1>1, <1>2, <2>1, NumbersApart DEF TypeOK, States
  <2>3. head.lock = None /\ applied[r] = head.table
    BY <1>3, <1>8, <2>2 DEF IInv, Mine
  <2>4. Mine(r)'
    <3>1. head'.lock.by = r
      BY <2>2 DEF mark
    <3>2. InSync(r)' /\ LockFirst(r)'
      BY <1>2, <2>1, <2>2
    <3>3. Holder(r)' /\ Held(r)'
      BY <1>3, <1>8, <2>1, <2>2 DEF mark
    <3>4. Planned(r)'
      <4>1. applied'[r] = view'[r].table
        BY <1>3, <2>1, <2>2, <2>3
      <4>2. QED
        BY <1>3, <1>8, <4>1 DEF IInv, Mine
    <3>5. QED
      BY <3>2, <3>3, <3>4 DEF Mine
  <2>5. ASSUME NEW q \in Runners \ {r} PROVE Mine(q)'
    <3>1. /\ useLock' = useLock /\ call' = call
          /\ pc'[q] = pc[q] /\ fate'[q] = fate[q] /\ stuck'[q] = stuck[q]
          /\ applied'[q] = applied[q] /\ pending'[q] = pending[q]
          /\ wrote'[q] = wrote[q] /\ view'[q] = view[q] /\ missed'[q] = missed[q] \cup {Lock}
      BY <1>2, <2>1, OthersSame DEF Act
    <3>2. pc[q] \notin {"running", "releasing"}
      <4>1. Holder(q) /\ [owner |-> call[q].owner, by |-> q] /= None
        BY Marks DEF IInv, Mine
      <4>2. QED
        BY <1>3, <2>3, <4>1
    <3>3. InSync(q)' /\ LockFirst(q)'
      BY <2>2, <3>1, NumbersApart DEF IInv, Mine
    <3>4. Holder(q)' /\ Held(q)'
      BY <2>2, <3>1, <3>2 DEF mark
    <3>5. Planned(q)'
      BY <3>1 DEF IInv, Mine
    <3>6. QED
      BY <3>3, <3>4, <3>5 DEF Mine
  <2>6. QED
    BY <2>2, <2>4, <2>5 DEF IInv, Stone, TableMatchesData, Closed, Careful
<1>9. QED
  BY <1>5, <1>6, <1>7, <1>8

LEMMA ReleaseStep ==
  ASSUME TypeOK, IInv, NEW r \in Runners, Release(r)
  PROVE  IInv'
<1> DEFINE v == [view[r] EXCEPT !.lock = None]
           w == wrote[r] \cup {Lock}
<1>1. v \in States /\ w \in SUBSET Things /\ v.lock = None
  BY DEF TypeOK, States, Things
<1>2. w = {Lock} /\ wrote[r] = {}
  BY DEF IInv, Mine
<1>3. /\ pc[r] = "releasing" /\ pc'[r] = "over"
      /\ useLock /\ useLock' = useLock /\ call' = call
  BY DEF Release, IInv, Mine, TypeOK
<1>4. /\ head.lock = [owner |-> call[r].owner, by |-> r]
      /\ view[r].lock = head.lock /\ head.lock /= None
  <2>1. [owner |-> call[r].owner, by |-> r] /= None
    BY Marks
  <2>2. QED
    BY <1>3, <2>1 DEF IInv, Mine
<1>5. \/ Committed(r, v, w)
      \/ Aborted(r, v, w) /\ stuck'[r] = TRUE
  BY <1>4 DEF Release, TypeOK
<1> HIDE DEF v, w
<1>6. CASE Aborted(r, v, w) /\ stuck'[r] = TRUE
  <2>1. /\ head' = head /\ wrote' = wrote
        /\ view'[r] = head /\ missed'[r] = {}
        /\ \A q \in Runners \ {r} : view'[q] = view[q] /\ missed'[q] = missed[q]
    BY <1>2, <1>6, AbortedMine DEF IInv
  <2>2. Mine(r)'
    BY <1>2, <1>3, <1>6, <2>1 DEF Mine
  <2>3. ASSUME NEW q \in Runners \ {r} PROVE Mine(q)'
    BY <2>1, OthersKeep DEF IInv, Act
  <2>4. QED
    BY <2>1, <2>2, <2>3 DEF IInv, Stone, TableMatchesData, Closed, Careful
<1>7. CASE Committed(r, v, w)
  <2>1. /\ w \cap missed[r] = {} /\ wrote' = wrote
        /\ view'[r] = head' /\ missed'[r] = {}
        /\ \A q \in Runners \ {r} : view'[q] = view[q] /\ missed'[q] = missed[q] \cup w
        /\ head'.table = IF Table \in w THEN v.table ELSE head.table
        /\ head'.lock = IF Lock \in w THEN v.lock ELSE head.lock
        /\ head'.data = [s \in Steps |-> IF s \in w THEN v.data[s] ELSE head.data[s]]
    BY <1>1, <1>2, <1>7, CommittedMine
  <2>2. head'.table = head.table /\ head'.lock = None /\ head'.data = head.data
    BY <1>1, <1>2, <2>1, NumbersApart DEF TypeOK, States
  <2>3. Mine(r)'
    BY <1>2, <1>3, <2>1, <2>2 DEF Mine
  <2>4. ASSUME NEW q \in Runners \ {r} PROVE Mine(q)'
    <3>1. /\ useLock' = useLock /\ call' = call
          /\ pc'[q] = pc[q] /\ fate'[q] = fate[q] /\ stuck'[q] = stuck[q]
          /\ applied'[q] = applied[q] /\ pending'[q] = pending[q]
          /\ wrote'[q] = wrote[q] /\ view'[q] = view[q] /\ missed'[q] = missed[q] \cup {Lock}
      BY <1>2, <2>1, OthersSame DEF Act
    <3>2. pc[q] \notin {"running", "releasing"}
      <4>1. Holder(q) /\ head.lock.by = r
        BY <1>4 DEF IInv, Mine
      <4>2. QED
        BY <1>3, <4>1
    <3>3. InSync(q)' /\ LockFirst(q)'
      BY <2>2, <3>1, NumbersApart DEF IInv, Mine
    <3>4. Holder(q)' /\ Held(q)' /\ Planned(q)'
      BY <2>2, <3>1, <3>2 DEF IInv, Mine
    <3>5. QED
      BY <3>3, <3>4 DEF Mine
  <2>5. QED
    BY <2>2, <2>3, <2>4 DEF IInv, Stone, TableMatchesData, Closed, Careful
<1>8. QED
  BY <1>5, <1>6, <1>7

(* A step that is committed is the next one of a plan made on the table    *)
(* that is committed.                                                      *)
LEMMA StepCommits ==
  ASSUME TypeOK, IInv, NEW r \in Runners, NEW s \in Steps,
         pc[r] = "running", Chosen(r, s), {s, Table} \cap missed[r] = {}
  PROVE  /\ view[r].table = head.table /\ view[r].data = head.data
         /\ applied[r] = head.table
         /\ IF call[r].direction = "upgrade"
            THEN s \notin head.table /\ Closed(head.table \cup {s})
            ELSE s \in head.table /\ Closed(head.table \ {s})
<1>1. /\ view[r].table = head.table /\ view[r].data = head.data
      /\ applied[r] = head.table
  BY DEF IInv, Mine
<1>2. /\ head.table \in SUBSET Steps /\ Depends \in [Steps -> SUBSET Steps]
      /\ \A u \in Steps : \A d \in Depends[u] : d < u
      /\ s \in pending[r] /\ pending[r] \in SUBSET Steps
      /\ \A u \in head.table : Depends[u] \subseteq head.table
  BY ParametersAssumption DEF TypeOK, States, Chosen, IInv, Stone, Closed
<1>3. CASE call[r].direction = "upgrade"
  <2>1. /\ s \notin head.table
        /\ \A t \in Steps : t < s => t \in head.table \cup pending[r]
        /\ \A t \in pending[r] : s <= t
    BY <1>1, <1>2, <1>3 DEF IInv, Mine, Chosen
  <2>2. ASSUME NEW d \in Depends[s] PROVE d \in head.table
    <3>1. d \in Steps /\ d < s
      BY <1>2
    <3>2. d \notin pending[r]
      BY <2>1, <3>1 DEF Steps
    <3>3. QED
      BY <2>1, <3>1, <3>2
  <2>3. QED
    BY <1>1, <1>2, <1>3, <2>1, <2>2 DEF Closed
<1>4. CASE call[r].direction /= "upgrade"
  <2>1. /\ s \in head.table
        /\ \A t \in head.table : t > s => t \in pending[r]
        /\ \A t \in pending[r] : t <= s
    BY <1>1, <1>2, <1>4 DEF IInv, Mine, Chosen
  <2>2. ASSUME NEW u \in head.table, s \in Depends[u] PROVE FALSE
    <3>1. u \in Steps /\ s < u
      BY <1>2, <2>2
    <3>2. u \in pending[r] /\ ~(u <= s)
      BY <2>1, <3>1 DEF Steps
    <3>3. QED
      BY <2>1, <3>2
  <2>3. QED
    BY <1>1, <1>2, <1>4, <2>1, <2>2 DEF Closed
<1>5. QED
  BY <1>3, <1>4

(* Where a call goes when it runs no more steps.                           *)
LEMMA Leaves ==
  ASSUME TypeOK, NEW r \in Runners, NEW how \in Fates, Leave(r, how)
  PROVE  pc'[r] = IF useLock THEN "releasing" ELSE "over"
BY DEF Leave, End, TypeOK

LEMMA FailedStep ==
  ASSUME TypeOK, IInv, NEW r \in Runners, Act(r), pc[r] = "running",
         NEW v, NEW w, Aborted(r, v, w), Leave(r, "failed")
  PROVE  IInv'
<1>1. /\ head' = head /\ wrote' = wrote
      /\ view'[r] = head /\ missed'[r] = {}
      /\ \A q \in Runners \ {r} : view'[q] = view[q] /\ missed'[q] = missed[q]
  BY AbortedMine DEF IInv, Mine
<1>2. pc'[r] = IF useLock THEN "releasing" ELSE "over"
  BY Leaves DEF Fates
<1>3. ASSUME NEW q \in Runners \ {r} PROVE Mine(q)'
  BY <1>1, OthersKeep DEF IInv
<1>4. Mine(r)'
  <2>1. useLock' = useLock /\ call' = call
    BY DEF Act, Connect, Plan, TakeLock, RunStep, Release, Crash, callVars
  <2>2. QED
    BY <1>1, <1>2, <2>1 DEF IInv, Mine
<1>5. QED
  BY <1>1, <1>3, <1>4 DEF IInv, Stone, TableMatchesData, Closed, Careful

LEMMA RunStepStep ==
  ASSUME TypeOK, IInv, NEW r \in Runners, NEW s \in Steps, RunStep(r, s)
  PROVE  /\ IInv'
         /\ head'.table /= head.table =>
              head'.table = head.table \cup {s} \/ head'.table = head.table \ {s}
<1> DEFINE up      == call[r].direction = "upgrade"
           table   == IF up THEN applied[r] \cup {s} ELSE applied[r] \ {s}
           changed == [view[r] EXCEPT !.data[s] = IF up THEN @ + 1 ELSE @ - 1]
           v       == [changed EXCEPT !.table = table]
           w       == wrote[r] \cup {s, Table}
           rest    == pending[r] \ {s}
<1>1. /\ v \in States /\ w \in SUBSET Things /\ v.table = table
      /\ v.data = [view[r].data EXCEPT ![s] = IF up THEN @ + 1 ELSE @ - 1]
  <2>1. /\ view[r] \in States /\ view[r].data[s] \in Int /\ view[r].data \in [Steps -> Int]
        /\ table \in SUBSET Steps
    BY DEF TypeOK, States
  <2>2. changed \in States
    BY <2>1 DEF States
  <2>3. v \in States /\ w \in SUBSET Things
    BY <2>1, <2>2 DEF States, TypeOK, Things
  <2>4. v.table = table /\ v.data = changed.data
    BY <2>1, <2>2 DEF States
  <2>5. changed.data = [view[r].data EXCEPT ![s] = IF up THEN @ + 1 ELSE @ - 1]
    BY <2>1 DEF States
  <2>6. QED
    BY <2>3, <2>4, <2>5
<1>2. w = {s, Table} /\ wrote[r] = {}
  BY DEF IInv, Mine
<1>3. pc[r] = "running" /\ Chosen(r, s) /\ useLock' = useLock /\ call' = call /\ Act(r)
  BY DEF RunStep, Act
<1>4. \/ /\ Committed(r, v, w)
         /\ applied'[r] = table /\ pending'[r] = rest
         /\ IF rest = {} THEN Leave(r, "done") ELSE UNCHANGED pc
      \/ Leave(r, "failed") /\ \E x \in {v, view[r], changed} :
           \E y \in {w, wrote[r], wrote[r] \cup {s}} : Aborted(r, x, y)
  BY DEF RunStep, TypeOK
<1> HIDE DEF v, w, changed
<1>5. CASE Leave(r, "failed") /\ \E x \in {v, view[r], changed} :
             \E y \in {w, wrote[r], wrote[r] \cup {s}} : Aborted(r, x, y)
  <2>1. PICK x, y : Aborted(r, x, y)
    BY <1>5
  <2>2. IInv'
    BY <1>3, <1>5, <2>1, FailedStep
  <2>3. head' = head
    BY <2>1, <1>2, AbortedMine DEF IInv
  <2>4. QED
    BY <2>2, <2>3
<1>6. CASE /\ Committed(r, v, w)
           /\ applied'[r] = table /\ pending'[r] = rest
           /\ IF rest = {} THEN Leave(r, "done") ELSE UNCHANGED pc
  <2>1. /\ w \cap missed[r] = {} /\ wrote' = wrote
        /\ view'[r] = head' /\ missed'[r] = {}
        /\ \A q \in Runners \ {r} : view'[q] = view[q] /\ missed'[q] = missed[q] \cup w
        /\ head'.table = IF Table \in w THEN v.table ELSE head.table
        /\ head'.lock = IF Lock \in w THEN v.lock ELSE head.lock
        /\ \A t \in Steps : head'.data[t] = IF t \in w THEN v.data[t] ELSE head.data[t]
    <3>1. v \in States /\ w \in SUBSET Things /\ Committed(r, v, w) /\ wrote[r] = {}
      BY <1>1, <1>2, <1>6
    <3>2. w \cap missed[r] = {} /\ wrote' = wrote
      BY <3>1, CommittedMine
    <3>3. view'[r] = head' /\ missed'[r] = {}
      BY <3>1, CommittedMine
    <3>4. \A q \in Runners \ {r} : view'[q] = view[q] /\ missed'[q] = missed[q] \cup w
      BY <3>1 DEF Committed, TypeOK
    <3>5. /\ head'.table = IF Table \in w THEN v.table ELSE head.table
          /\ head'.lock = IF Lock \in w THEN v.lock ELSE head.lock
      BY <3>1 DEF Committed
    <3>6. \A t \in Steps : head'.data[t] = IF t \in w THEN v.data[t] ELSE head.data[t]
      BY <3>1 DEF Committed
    <3>7. QED
      BY <3>2, <3>3, <3>4, <3>5, <3>6
  <2>2. /\ view[r].table = head.table /\ view[r].data = head.data
        /\ applied[r] = head.table
        /\ IF up THEN s \notin head.table /\ Closed(head.table \cup {s})
           ELSE s \in head.table /\ Closed(head.table \ {s})
    BY <1>2, <1>3, <2>1, StepCommits
  <2>3. /\ head'.table = table /\ head'.lock = head.lock
        /\ \A t \in Steps : head'.data[t] = IF t = s THEN (IF up THEN head.data[s] + 1 ELSE head.data[s] - 1)
                                            ELSE head.data[t]
    <3>1. Lock \notin w /\ Table \in w /\ \A t \in Steps : t \in w <=> t = s
      BY <1>2, NumbersApart
    <3>2. head.data \in [Steps -> Int]
      BY DEF TypeOK, States
    <3>3. v.data[s] = IF up THEN head.data[s] + 1 ELSE head.data[s] - 1
      BY <1>1, <2>2, <3>2
    <3>4. QED
      BY <1>1, <2>1, <3>1, <3>3
  <2>4. table = IF up THEN head.table \cup {s} ELSE head.table \ {s}
    BY <2>2
  <2> HIDE DEF table
  <2>5. Stone'
    <3>1. \A t \in Steps : head.data[t] = IF t \in head.table THEN 1 ELSE 0
      BY DEF IInv, Stone, TableMatchesData
    <3>2. TableMatchesData'
      BY <2>2, <2>3, <2>4, <3>1 DEF TableMatchesData
    <3>3. Closed(table)
      BY <2>2, <2>4
    <3>4. QED
      BY <2>3, <3>2, <3>3 DEF Stone, Closed
  <2>6. pc'[r] = IF rest = {} THEN IF useLock THEN "releasing" ELSE "over" ELSE "running"
    BY <1>3, <1>6, Leaves DEF Fates
  <2>7. Mine(r)'
    <3>1. InSync(r)' /\ LockFirst(r)'
      BY <1>2, <2>1
    <3>2. Holder(r)'
      BY <1>3, <2>1, <2>3, <2>6 DEF IInv, Mine
    <3>3. Held(r)'
      BY <1>3, <2>3, <2>6 DEF IInv, Mine
    <3>4. Planned(r)'
      <4>1. applied'[r] = view'[r].table
        BY <1>6, <2>1, <2>3
      <4>2. applied[r] \subseteq Steps /\ pending[r] \subseteq Steps /\ s \in pending[r]
        BY <1>3 DEF TypeOK, Chosen
      <4>3. CASE up
        <5>1. /\ pending[r] \cap applied[r] = {}
              /\ \A u \in pending[r], t \in Steps : t < u => t \in applied[r] \cup pending[r]
          BY <1>3, <4>3 DEF IInv, Mine
        <5>2. applied'[r] = applied[r] \cup {s}
          BY <1>6, <4>3 DEF table
        <5>3. /\ rest \cap applied'[r] = {}
              /\ \A u \in rest, t \in Steps : t < u => t \in applied'[r] \cup rest
          BY <5>1, <5>2
        <5>4. QED
          BY <1>3, <1>6, <2>6, <4>1, <4>3, <5>3
      <4>4. CASE ~up
        <5>1. /\ pending[r] \subseteq applied[r]
              /\ \A u \in pending[r], t \in applied[r] : t > u => t \in pending[r]
          BY <1>3, <4>4 DEF IInv, Mine
        <5>2. applied'[r] = applied[r] \ {s}
          BY <1>6, <4>4 DEF table
        <5>3. /\ rest \subseteq applied'[r]
              /\ \A u \in rest, t \in applied'[r] : t > u => t \in rest
          BY <5>1, <5>2
        <5>4. QED
          BY <1>3, <1>6, <2>6, <4>1, <4>4, <5>3
      <4>5. QED
        BY <4>3, <4>4
    <3>5. QED
      BY <3>1, <3>2, <3>3, <3>4 DEF Mine
  <2>8. ASSUME NEW q \in Runners \ {r} PROVE Mine(q)'
    <3>1. /\ useLock' = useLock /\ call' = call
          /\ pc'[q] = pc[q] /\ fate'[q] = fate[q] /\ stuck'[q] = stuck[q]
          /\ applied'[q] = applied[q] /\ pending'[q] = pending[q]
          /\ wrote'[q] = wrote[q] /\ view'[q] = view[q] /\ missed'[q] = missed[q] \cup {s, Table}
      BY <1>2, <1>3, <2>1, OthersSame
    <3>2. Lock \notin {s, Table}
      BY NumbersApart
    <3>3. InSync(q)'
      BY <2>3, <3>1, <3>2 DEF IInv, Mine
    <3>4. LockFirst(q)'
      <4>1. useLock => head.lock /= None
        BY <1>3, Marks DEF IInv, Mine
      <4>2. QED
        BY <3>1, <4>1 DEF IInv, Mine
    <3>5. Holder(q)' /\ Held(q)' /\ Planned(q)'
      BY <2>3, <3>1, <3>2 DEF IInv, Mine
    <3>6. QED
      BY <3>3, <3>4, <3>5 DEF Mine
  <2>9. QED
    BY <2>3, <2>4, <2>5, <2>7, <2>8 DEF IInv, Careful
<1>7. QED
  BY <1>4, <1>5, <1>6

-----------------------------------------------------------------------------
(* The theorems                                                            *)

LEMMA InvInit == Init /\ Careful => IInv
<1> SUFFICES ASSUME Init, Careful PROVE IInv
  OBVIOUS
<1>1. head.lock = None /\ Stone
  BY DEF Init, Stone, TableMatchesData
<1>2. ASSUME NEW r \in Runners PROVE Mine(r)
  BY <1>1 DEF Init, Mine
<1>3. QED
  BY <1>1, <1>2 DEF IInv

(* Only a step that is committed changes the table.                        *)
LEMMA InvStep ==
  ASSUME TypeOK, IInv, [Next]_vars
  PROVE  /\ IInv'
         /\ head'.table /= head.table =>
              \E s \in Steps : \/ head'.table = head.table \cup {s}
                               \/ head'.table = head.table \ {s}
<1>1. CASE UNCHANGED vars
  BY <1>1 DEF vars, stoneVars, callVars, IInv, Stone, TableMatchesData, Closed, Careful, Mine
<1>2. ASSUME NEW r \in Runners, Connect(r) PROVE IInv' /\ head' = head
  BY <1>2, ConnectStep DEF Connect
<1>3. ASSUME NEW r \in Runners, Plan(r) PROVE IInv' /\ head' = head
  BY <1>3, PlanStep DEF Plan, stoneVars
<1>4. ASSUME NEW r \in Runners, Crash(r) PROVE IInv' /\ head' = head
  BY <1>4, CrashStep DEF Crash
<1>5. ASSUME NEW r \in Runners, TakeLock(r) PROVE IInv' /\ head'.table = head.table
  <2>1. wrote[r] = {} /\ Table /= Lock
    BY NumbersApart DEF IInv, Mine
  <2>2. UNCHANGED head \/ head'.table = head.table
    BY <1>5, <2>1 DEF TakeLock, Committed, Aborted, stoneVars
  <2>3. QED
    BY <1>5, <2>2, TakeLockStep
<1>6. ASSUME NEW r \in Runners, Release(r) PROVE IInv' /\ head'.table = head.table
  <2>1. wrote[r] = {} /\ Table /= Lock
    BY NumbersApart DEF IInv, Mine
  <2>2. UNCHANGED head \/ head'.table = head.table
    BY <1>6, <2>1 DEF Release, Committed, Aborted, stoneVars
  <2>3. QED
    BY <1>6, <2>2, ReleaseStep
<1>7. QED
  BY <1>1, <1>2, <1>3, <1>4, <1>5, <1>6, RunStepStep DEF Next

LEMMA Inductive == Spec /\ Careful => [](TypeOK /\ IInv)
<1>1. Init /\ Careful => TypeOK /\ IInv
  <2>1. Init => TypeOK
    BY ParametersAssumption DEF Init, TypeOK, States, Closed
  <2>2. QED
    BY <2>1, InvInit
<1>2. TypeOK /\ IInv /\ [Next]_vars => (TypeOK /\ IInv)'
  BY TypeStep, InvStep
<1>3. QED
  BY <1>1, <1>2, PTL DEF Spec

(* Whatever runs at the same time, fails or crashes, what the steps have   *)
(* changed is what the table says, with and without the lock.              *)
THEOREM MigrationsTableMatchesData == Spec /\ Careful => []TableMatchesData
<1>1. IInv => TableMatchesData
  BY DEF IInv, Stone
<1>2. QED
  BY <1>1, Inductive, PTL

(* With the lock, one call at a time runs steps.                           *)
THEOREM MigrationsOneRunner == Spec /\ Careful => []OneRunner
<1>1. IInv => OneRunner
  <2> SUFFICES ASSUME IInv, NEW r \in Runners, NEW q \in Runners, useLock,
                      pc[r] \in {"running", "releasing"}, pc[q] \in {"running", "releasing"}
               PROVE  r = q
    BY DEF OneRunner
  <2>1. Holder(r) /\ Holder(q)
    BY DEF IInv, Mine
  <2>2. QED
    BY <2>1
<1>2. QED
  BY <1>1, Inductive, PTL

(* A call that is over keeps the lock only if it crashed or could not      *)
(* commit its release.                                                     *)
THEOREM MigrationsLocksComeBack == Spec /\ Careful => []LocksComeBack
<1>1. IInv => LocksComeBack
  BY DEF IInv, Mine, LocksComeBack
<1>2. QED
  BY <1>1, Inductive, PTL

(* The table changes by one step at a time, and depends on nothing that    *)
(* is not in it.                                                           *)
THEOREM MigrationsOneStepAtATime == Spec /\ Careful => OneStepAtATime
<1> DEFINE Changed == head'.table /= head.table =>
       /\ Closed(head.table) /\ Closed(head'.table)
       /\ \E s \in Steps : \/ head'.table = head.table \cup {s}
                           \/ head'.table = head.table \ {s}
<1>1. TypeOK /\ IInv /\ [Next]_vars => [Changed]_vars
  <2> SUFFICES ASSUME TypeOK, IInv, [Next]_vars PROVE Changed
    OBVIOUS
  <2>1. Closed(head.table) /\ Closed(head'.table)
    BY InvStep DEF IInv, Stone, Closed
  <2>2. QED
    BY <2>1, InvStep
<1>2. QED
  BY <1>1, Inductive, PTL DEF Spec, OneStepAtATime
=============================================================================
