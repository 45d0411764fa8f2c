--------------------------- MODULE MigrationPlans ---------------------------
(***************************************************************************)
(* Which migration steps are run, in which order, and what the command     *)
(* line of src/migrations.ts does with its session: the pure part of it.   *)
(* A manifest is a sequence of steps [id, needs, checksum, reversible]; a  *)
(* table gives each applied step its checksum and time.  An answer is a    *)
(* sequence of steps, or an error.                                         *)
(***************************************************************************)
EXTENDS Integers, Sequences, FiniteSets, SequencesExt

PlanRefused(why) == [error |-> why, steps |-> <<>>]
Planned(s)   == [error |-> "none", steps |-> s]

StepsOf(m)    == {m[i].id : i \in DOMAIN m}
StepNamed(m, id) == m[CHOOSE i \in DOMAIN m : m[i].id = id]
Twice(m)      == \E i, j \in DOMAIN m : i < j /\ m[i].id = m[j].id

-----------------------------------------------------------------------------
(* The order                                                               *)

(* Depth first: a step after all it needs.  `at' holds the steps that are  *)
(* being visited.                                                          *)
RECURSIVE Visit(_, _, _, _)
Visit(m, id, at, sofar) ==
  IF sofar.error # "none" \/ id \in Range(sofar.steps) THEN sofar
  ELSE IF id \in at THEN PlanRefused("cycle")
  ELSE IF id \notin StepsOf(m) THEN PlanRefused("unknown dependency")
  ELSE LET below == FoldLeft(LAMBDA found, d : Visit(m, d, at \cup {id}, found), sofar, StepNamed(m, id).needs)
       IN  IF below.error # "none" THEN below ELSE Planned(Append(below.steps, id))

OrderedSteps(m) ==
  IF Twice(m) THEN PlanRefused("duplicate")
  ELSE FoldLeft(LAMBDA found, s : Visit(m, s.id, {}, found), Planned(<<>>), m)

-----------------------------------------------------------------------------
(* What is stored                                                          *)

(* The table is an error unless it is absent or an object in JSON; the     *)
(* lock is one whatever it is, and stale only by a time it tells.          *)
ReadTable(stored) ==
  CASE stored.kind = "nothing" -> [error |-> "none", table |-> [id \in {} |-> 0]]
    [] stored.kind = "object"  -> [error |-> "none", table |-> stored.table]
    [] OTHER -> [error |-> "not a table", table |-> [id \in {} |-> 0]]

NoTime == -1   \* no time
Never   == -1   \* no staleAfter

ReadLock(stored) ==
  CASE stored.kind = "nothing" -> [held |-> FALSE, owner |-> "none", at |-> NoTime]
    [] stored.kind = "object"  -> [held |-> TRUE, owner |-> stored.owner, at |-> stored.at]
    [] OTHER -> [held |-> TRUE, owner |-> "unknown", at |-> NoTime]

LockIsStale(lock, now, staleAfter) ==
  staleAfter # Never /\ lock.at # NoTime /\ now - lock.at > staleAfter

MayTakeLock(stored, now, staleAfter, force) ==
  LET lock == ReadLock(stored) IN ~lock.held \/ force \/ LockIsStale(lock, now, staleAfter)

-----------------------------------------------------------------------------
(* Plans                                                                   *)

PositionOf(s, id) == CHOOSE i \in DOMAIN s : s[i] = id
Unapplied(s, applied) == SelectSeq(s, LAMBDA id : id \notin applied)
Applied(s, applied)   == SelectSeq(s, LAMBDA id : id \in applied)

UpTo_Before(s, target) == IF target = "none" THEN s ELSE SubSeq(s, 1, PositionOf(s, target) - 1)

UpTo(s, target)  == IF target = "none" THEN s ELSE SubSeq(s, 1, PositionOf(s, target))
After(s, target) == IF target = "base" THEN s ELSE SubSeq(s, PositionOf(s, target) + 1, Len(s))

UpgradePlan(m, applied, target) ==
  LET ordered == OrderedSteps(m)
  IN  IF ordered.error # "none" THEN ordered
      ELSE IF target # "none" /\ target \notin StepsOf(m) THEN PlanRefused("unknown target")
      ELSE Planned(Unapplied(UpTo(ordered.steps, target), applied))

DowngradePlan(m, applied, target) ==
  LET ordered == OrderedSteps(m)
  IN  IF ordered.error # "none" THEN ordered
      ELSE IF target # "base" /\ target \notin StepsOf(m) THEN PlanRefused("unknown target")
      ELSE IF target # "base" /\ target \notin applied THEN PlanRefused("target not applied")
      ELSE Planned(Reverse(Applied(After(ordered.steps, target), applied)))

(* A table that has steps the manifest has not, or another version of one. *)
ValidateMigrationState(m, table) ==
  LET ordered == OrderedSteps(m)
      changed(id) == "" \notin {table[id].checksum, StepNamed(m, id).checksum}
                       /\ table[id].checksum # StepNamed(m, id).checksum
  IN  IF ordered.error # "none" THEN ordered
      ELSE IF ~(DOMAIN table \subseteq StepsOf(m)) THEN PlanRefused("not in the manifest")
      ELSE IF \E id \in DOMAIN table : changed(id) THEN PlanRefused("checksum mismatch")
      ELSE ordered

(* What upgrade() or downgrade() would run: nothing at all when one of the *)
(* steps cannot be undone.                                                 *)
PlanOf(m, table, direction, target) ==
  LET valid == ValidateMigrationState(m, table)
      plan  == IF direction = "upgrade" THEN UpgradePlan(m, DOMAIN table, target)
               ELSE DowngradePlan(m, DOMAIN table, target)
  IN  IF valid.error # "none" THEN valid
      ELSE IF direction = "downgrade" /\ \E id \in Range(plan.steps) : ~StepNamed(m, id).reversible THEN
             PlanRefused("cannot be undone")
      ELSE plan

(* The version is the step applied last; of those applied in the same      *)
(* millisecond, the one whose name is the last: `before' are the pairs of  *)
(* names in their order.                                                   *)
CurrentVersion(table, before) ==
  IF DOMAIN table = {} THEN "base"
  ELSE CHOOSE id \in DOMAIN table : \A d \in DOMAIN table :
         \/ table[d].at < table[id].at
         \/ table[d].at = table[id].at /\ <<id, d>> \notin before

MigrationStatus(m, stored) ==
  LET read  == ReadTable(stored)
      valid == ValidateMigrationState(m, read.table)
  IN  IF read.error # "none" THEN PlanRefused(read.error)
      ELSE IF valid.error # "none" THEN valid
      ELSE UpgradePlan(m, DOMAIN read.table, "none")

-----------------------------------------------------------------------------
(* The command line                                                        *)

UsageError(o) ==
  \/ o.command = "none" /\ ~o.help
  \/ o.command \notin {"none", "current"} /\ ~o.manifest
  \/ o.record /\ ~o.dryRun

(* The calls a command makes in turn, unless one fails before.             *)
CallsOf(o) ==
  IF o.command = "current" THEN <<"connect", "read", "abort">>
  ELSE IF o.command \in {"status", "plan"} THEN <<"manifest", "connect", "read", "abort">>
  ELSE IF o.dryRun THEN <<"manifest", "connect", "read", "abort">>
  ELSE <<"manifest", "connect", "read", "migrate">>

(* The session is aborted after a failure, which is not failing itself,    *)
(* and is always logged out; a help or a usage error makes no call.        *)
RunMigrationsCli(o, failing) ==
  LET calls  == CallsOf(o)
      broken == {i \in DOMAIN calls : calls[i] \in failing}
      made   == IF broken = {} THEN calls ELSE SubSeq(calls, 1, CHOOSE i \in broken : \A j \in broken : i <= j)
      opened == "connect" \in Range(made) /\ (broken = {} \/ Last(made) # "connect")
  IN  IF o.help \/ UsageError(o)
        THEN [exit |-> IF UsageError(o) THEN 2 ELSE 0, calls |-> <<>>]
        ELSE [exit  |-> IF broken = {} THEN 0 ELSE 1,
              calls |-> made \o (IF opened /\ broken # {} THEN <<"abort">> ELSE <<>>)
                             \o (IF opened THEN <<"logout">> ELSE <<>>)]

-----------------------------------------------------------------------------
(* What is meant                                                           *)

Needs(m, id)     == Range(StepNamed(m, id).needs)
ClosedUnder(m, applied) == \A id \in applied : Needs(m, id) \subseteq applied
HasCycle(m)      == \E S \in SUBSET StepsOf(m) : S # {} /\ \A id \in S : Needs(m, id) \cap S # {}
Sound(m)         == ~Twice(m) /\ ~HasCycle(m) /\ \A id \in StepsOf(m) : Needs(m, id) \subseteq StepsOf(m)

(* A manifest is refused if and only if a step is there twice, needs what  *)
(* is not there, or itself in the end; otherwise its order has every step  *)
(* once, after what it needs, and is that of the manifest where it can be. *)
OrderIsMeant(m) ==
  LET ordered == OrderedSteps(m)
      s       == ordered.steps
  IN  /\ ordered.error = "none" <=> Sound(m)
      /\ Sound(m) =>
           /\ Len(s) = Len(m) /\ Range(s) = StepsOf(m)
           /\ \A i \in DOMAIN s : Needs(m, s[i]) \subseteq {s[j] : j \in 1..(i - 1)}
           /\ (\A i \in DOMAIN m : Range(m[i].needs) \subseteq {m[j].id : j \in 1..(i - 1)})
                => s = [i \in DOMAIN m |-> m[i].id]

(* Each step of a plan is run when all it needs is applied, or undone when *)
(* nothing applied needs it; an upgrade applies its target and a downgrade *)
(* keeps it, an upgrade without a target leaves nothing pending, and one   *)
(* to base leaves nothing applied.  (Of a table that is closed: a step     *)
(* that was applied before it came to need another one is not undone.)     *)
PlansAreMeant(m, applied) ==
  Sound(m) /\ applied \subseteq StepsOf(m) /\ ClosedUnder(m, applied) =>
    /\ \A target \in StepsOf(m) \cup {"none"} :
         LET plan == UpgradePlan(m, applied, target).steps IN
           /\ \A i \in 0..Len(plan) : ClosedUnder(m, applied \cup {plan[j] : j \in 1..i})
           /\ applied \cap Range(plan) = {} /\ IsInjective(plan)
           /\ IF target = "none" THEN applied \cup Range(plan) = StepsOf(m)
              ELSE target \in applied \cup Range(plan)
    /\ \A target \in applied \cup {"base"} :
         LET plan == DowngradePlan(m, applied, target).steps IN
           /\ \A i \in 0..Len(plan) : ClosedUnder(m, applied \ {plan[j] : j \in 1..i})
           /\ Range(plan) \subseteq applied
           /\ IF target = "base" THEN Range(plan) = applied ELSE target \notin Range(plan)

(* Nothing is planned from a table that tells of a step the manifest has   *)
(* not, or has in another version, and no step is undone that cannot be;   *)
(* what is pending is the rest of the manifest.  When steps were applied   *)
(* one after the other in their order, the version is the last of them.    *)
TablesAreMeant(m, table, before) ==
  LET known     == DOMAIN table \subseteq StepsOf(m)
      same(id)  == "" \in {table[id].checksum, StepNamed(m, id).checksum} \/ table[id].checksum = StepNamed(m, id).checksum
      status    == MigrationStatus(m, [kind |-> "object", table |-> table])
      undone    == PlanOf(m, table, "downgrade", "base")
      ordered   == OrderedSteps(m).steps
      inOrder   == [id \in DOMAIN table |-> [at |-> PositionOf(ordered, id)]]
  IN  /\ status.error = "none" <=> Sound(m) /\ known /\ \A id \in DOMAIN table : same(id)
      /\ status.error = "none" =>
           /\ Range(status.steps) = StepsOf(m) \ DOMAIN table
           /\ undone.error = "none" <=> \A id \in DOMAIN table : StepNamed(m, id).reversible
           /\ DOMAIN table # {} =>
                CurrentVersion(inOrder, before) = Last(Applied(ordered, DOMAIN table))

(* What is stored as the lock keeps others out, whatever it is, until it   *)
(* is older than it may be by a time it tells, or force is used.           *)
LocksAreMeant(stored, now, staleAfter) ==
  /\ MayTakeLock(stored, now, staleAfter, TRUE)
  /\ stored.kind \notin {"nothing", "object"} => ~MayTakeLock(stored, now, staleAfter, FALSE)
  /\ stored.kind = "object" =>
       (MayTakeLock(stored, now, staleAfter, FALSE) =>
          staleAfter # Never /\ stored.at # NoTime /\ stored.at + staleAfter < now)

(* A command exits with 0 only when all of its calls worked; a session is  *)
(* logged out, last of all, if it was opened, and one that was only read,  *)
(* or whose command failed, is aborted before.                             *)
CliIsMeant(o, failing) ==
  LET ran    == RunMigrationsCli(o, failing)
      called == Range(ran.calls)
      opened == "read" \in called
  IN  /\ ran.exit = 0 => called \cap failing \subseteq {"logout"}
      /\ opened <=> "logout" \in called
      /\ opened => Last(ran.calls) = "logout" /\ ("abort" \in called \/ (ran.exit = 0 /\ "migrate" \in called))
      /\ "migrate" \in called => o.command \in {"upgrade", "downgrade"} /\ ~o.dryRun

=============================================================================
