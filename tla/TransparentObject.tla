-------------------------- MODULE TransparentObject --------------------------
(***************************************************************************)
(* transparentObject() of src/object-mapping.ts: a proxy of one GemStone   *)
(* object, shared by the flows of an application.  An assignment cannot be *)
(* awaited, so the proxy queues the writes one behind the other and keeps  *)
(* what was assigned for the reads that follow; a read awaits the queue,   *)
(* or is answered from what is kept.                                       *)
(*                                                                         *)
(* A value is the number of the write it comes from, 0 for the first one.  *)
(* The promise reactions of one settlement run before anything else, so a  *)
(* step of the application or of the Stone waits until all flows that can  *)
(* go on have done so.                                                     *)
(***************************************************************************)
EXTENDS Integers, FiniteSets, Sequences

CONSTANTS
  Flows,
  Properties,
  Setups,         \* options.cache, and which more than reads and writes flows do
  MappingFaults,  \* which of "write", "read" may fail
  MaxWrites,      \* no value is written when there have been this many
  NoProperty      \* no property

Extras == {"clear", "direct", "external"}

ASSUME MappingAssumption ==
  /\ Setups \subseteq [cache : BOOLEAN, extras : SUBSET Extras]
  /\ MappingFaults \subseteq {"write", "read"}
  /\ MaxWrites \in Nat
  /\ NoProperty \notin Properties

VARIABLES
  setup,
  stored,     \* the properties of the object, as the session sees them
  writes,     \* the writes so far: of which property, by the queue or not, how far
  tail,       \* writeTail: the newest write of the queue, 0 if none
  error,      \* pendingWriteError: the write it is of, 0 if none
  assigned,   \* assignedValues
  cached,     \* readCache
  pc,         \* the await at which each flow stands
  target,     \* the property it reads
  until,      \* the write whose end it awaits in flushWrites(), 0 if none
  on,         \* the promise it awaits in readProperty(), or what its send read
  seen,       \* the values the object had while it read
  prior,      \* the writes of that property, arrived or in the queue when it began
  unreported  \* the writes that failed since an error was thrown

kept        == <<assigned, cached>>
flow        == <<pc, target, until, on>>
ghost       == <<seen, prior, unreported>>
mappingVars == <<setup, stored, writes, tail, error, kept, flow, ghost>>

-----------------------------------------------------------------------------
(* Promises                                                                *)

(* A promise of readCache or assignedValues, by what it waits for or what  *)
(* it is settled with.                                                     *)
Nothing    == [kind |-> "nothing", by |-> 0]
Value(v)   == [kind |-> "value", by |-> v]
Rejected   == [kind |-> "rejected", by |-> 0]
OfWrite(i) == [kind |-> "write", by |-> i]
OfRead(f)  == [kind |-> "read", by |-> f]

Values == 0..MaxWrites

(* Whoever holds promise p now holds q, which it is settled with.          *)
Settle(holders, p, q) == [h \in DOMAIN holders |-> IF holders[h] = p THEN q ELSE holders[h]]

Settled(i) == i \in DOMAIN writes => writes[i].state \in {"ok", "failed"}
Queued     == {i \in DOMAIN writes : writes[i].queued}

Runnable ==
  {f \in Flows :
    \/ pc[f] \in {"flushing", "preparing", "sending"} /\ Settled(until[f])
    \/ pc[f] = "awaiting" /\ on[f].kind \in {"value", "rejected"}}

Idle(f) == pc[f] = "idle" /\ Runnable = {}

-----------------------------------------------------------------------------
MappingInit ==
  /\ setup \in Setups
  /\ stored = [p \in Properties |-> 0]
  /\ writes = <<>>
  /\ tail = 0
  /\ error = 0
  /\ assigned = [p \in Properties |-> Nothing]
  /\ cached = [p \in Properties |-> Nothing]
  /\ pc = [f \in Flows |-> "idle"]
  /\ target = [f \in Flows |-> NoProperty]
  /\ until = [f \in Flows |-> 0]
  /\ on = [f \in Flows |-> Nothing]
  /\ seen = [f \in Flows |-> {}]
  /\ prior = [f \in Flows |-> {}]
  /\ unreported = {}
-----------------------------------------------------------------------------
(* Calls of the application                                                *)

AddWrite(p, queued, state) ==
  /\ Len(writes) < MaxWrites
  /\ writes' = Append(writes, [prop |-> p, queued |-> queued, state |-> state])

(* queueWrite: what is assigned is kept until a read asks for it.          *)
QueueWrite(p) ==
  /\ AddWrite(p, TRUE, "waiting")
  /\ tail' = Len(writes) + 1
  /\ assigned' = [assigned EXCEPT ![p] = OfWrite(Len(writes) + 1)]

(* flushWrites, to its await; it is also the beginning of a read.          *)
AwaitWrites(f, i, stage) ==
  /\ pc' = [pc EXCEPT ![f] = stage]
  /\ until' = [until EXCEPT ![f] = i]

(* proxy.p = v: the flow goes on at once.                                  *)
Assign(f, p) ==
  /\ Idle(f)
  /\ QueueWrite(p)
  /\ UNCHANGED <<setup, stored, error, cached, flow, ghost>>

(* $set; $assign is a number of assignments and a $set.                    *)
Set(f, p) ==
  /\ Idle(f)
  /\ QueueWrite(p)
  /\ AwaitWrites(f, Len(writes) + 1, "flushing")
  /\ UNCHANGED <<setup, stored, error, cached, target, on, ghost>>

(* $flush, and what $inspect, $dump, $printString, $snapshot and $release  *)
(* do first.                                                               *)
Flush(f) ==
  /\ Idle(f)
  /\ AwaitWrites(f, tail, "flushing")
  /\ UNCHANGED <<setup, stored, writes, tail, error, kept, target, on, ghost>>

Forget(ps) ==
  /\ assigned' = [p \in Properties |-> IF p \in ps THEN Nothing ELSE assigned[p]]
  /\ cached' = [p \in Properties |-> IF p \in ps THEN Nothing ELSE cached[p]]

(* $clearCache, of one property or of all.                                 *)
ClearCache(f, ps) ==
  /\ Idle(f) /\ "clear" \in setup.extras
  /\ Forget(ps)
  /\ UNCHANGED <<setup, stored, writes, tail, error, flow, ghost>>

(* $refresh() without a property.                                          *)
RefreshAll(f) ==
  /\ Idle(f) /\ "clear" \in setup.extras
  /\ Forget(Properties)
  /\ AwaitWrites(f, tail, "flushing")
  /\ UNCHANGED <<setup, stored, writes, tail, error, target, on, ghost>>

Begin(f, p) ==
  /\ target' = [target EXCEPT ![f] = p]
  /\ seen' = [seen EXCEPT ![f] = {stored[p]}]
  /\ prior' = [prior EXCEPT ![f] =
                 {i \in Queued : writes[i].prop = p /\ writes[i].state # "failed"}]

(* Mutant: the cache is looked at first. *)
Found_CacheFirst(p) == IF cached[p] # Nothing THEN cached[p] ELSE assigned[p]

Found(p) == IF assigned[p] # Nothing THEN assigned[p] ELSE cached[p]

(* await proxy.p, when something is kept ...                               *)
ReadKept(f, p) ==
  /\ Idle(f)
  /\ Found(p) # Nothing
  /\ Begin(f, p)
  /\ pc' = [pc EXCEPT ![f] = "awaiting"]
  /\ on' = [on EXCEPT ![f] = Found(p)]
  /\ UNCHANGED <<setup, stored, writes, tail, error, kept, until, unreported>>

(* ... and when the object has to be asked, or refresh() of the accessor.  *)
Read(f, p) ==
  /\ Idle(f)
  /\ Begin(f, p)
  /\ AwaitWrites(f, tail, "preparing")
  /\ UNCHANGED <<setup, stored, writes, tail, error, kept, on, unreported>>

(* $refresh of a property.                                                 *)
Refresh(f, p) ==
  /\ Idle(f) /\ "clear" \in setup.extras
  /\ Forget({p})
  /\ Begin(f, p)
  /\ AwaitWrites(f, tail, "preparing")
  /\ UNCHANGED <<setup, stored, writes, tail, error, on, unreported>>

(* proxy.setP(v) or $send of a setter: not behind the queue.               *)
SendDirect(f, p) ==
  /\ Idle(f) /\ "direct" \in setup.extras
  /\ AddWrite(p, FALSE, "waiting")
  /\ AwaitWrites(f, Len(writes) + 1, "sending")
  /\ UNCHANGED <<setup, tail, stored, error, kept, target, on, ghost>>

-----------------------------------------------------------------------------
(* What awaited calls go on to do, in any order among themselves           *)

(* The call of f returns; promises are those that flows await then.        *)
Return(f, promises) ==
  /\ pc' = [pc EXCEPT ![f] = "idle"]
  /\ target' = [target EXCEPT ![f] = NoProperty]
  /\ until' = [until EXCEPT ![f] = 0]
  /\ on' = [promises EXCEPT ![f] = Nothing]
  /\ seen' = [seen EXCEPT ![f] = {}]
  /\ prior' = [prior EXCEPT ![f] = {}]

(* flushWrites throws the error it finds, which is then forgotten.         *)
Throw(f) ==
  /\ error # 0
  /\ error' = 0
  /\ unreported' = {}
  /\ Return(f, on)
  /\ UNCHANGED <<setup, stored, writes, tail, kept>>

(* Mutant: the error is forgotten before it is looked at. *)
FlushDone_Swallows(f) ==
  /\ pc[f] = "flushing" /\ Settled(until[f])
  /\ error' = 0
  /\ Return(f, on)
  /\ UNCHANGED <<setup, stored, writes, tail, kept, unreported>>

FlushDone(f) ==
  /\ pc[f] = "flushing" /\ Settled(until[f])
  /\ \/ Throw(f)
     \/ /\ error = 0
        /\ Return(f, on)
        /\ UNCHANGED <<setup, stored, writes, tail, error, kept, unreported>>

(* A read sends its selector, and a cache keeps the promise of the answer. *)
WritesDone(f) ==
  /\ pc[f] = "preparing" /\ Settled(until[f])
  /\ \/ Throw(f)
     \/ /\ error = 0
        /\ pc' = [pc EXCEPT ![f] = "reading"]
        /\ cached' = IF setup.cache THEN [cached EXCEPT ![target[f]] = OfRead(f)] ELSE cached
        /\ UNCHANGED <<setup, stored, writes, tail, error, assigned, target, until, on, ghost>>

KeptDone(f) ==
  /\ pc[f] = "awaiting" /\ on[f].kind \in {"value", "rejected"}
  /\ Return(f, on)
  /\ UNCHANGED <<setup, stored, writes, tail, error, kept, unreported>>

SendDone(f) ==
  /\ pc[f] = "sending" /\ Settled(until[f])
  /\ Return(f, on)
  /\ UNCHANGED <<setup, stored, writes, tail, error, kept, unreported>>

-----------------------------------------------------------------------------
(* Messages of the session: each has its effect, and ends when its answer  *)
(* has been marshalled, which may fail as well.                            *)

ReadPerform(f) ==
  /\ Runnable = {} /\ pc[f] = "reading"
  /\ pc' = [pc EXCEPT ![f] = "marshalling"]
  /\ on' = [on EXCEPT ![f] = Value(stored[target[f]])]
  /\ UNCHANGED <<setup, stored, writes, tail, error, kept, target, until, ghost>>

(* The promise of the read of f is settled with how.                       *)
ReadEnds(f, how) ==
  /\ cached' = Settle(cached, OfRead(f), how)
  /\ Return(f, Settle(on, OfRead(f), how))
  /\ UNCHANGED <<setup, stored, writes, tail, error, assigned, unreported>>

ReadDone(f) == Runnable = {} /\ pc[f] = "marshalling" /\ ReadEnds(f, on[f])

ReadFails(f) ==
  /\ Runnable = {} /\ pc[f] \in {"reading", "marshalling"} /\ "read" \in MappingFaults
  /\ ReadEnds(f, Rejected)

Move(i, state) == writes' = [writes EXCEPT ![i].state = state]

(* queueWrite chains a write to the end of the one before, however it ends. *)
Turn(i) ==
  /\ Runnable = {}
  /\ writes[i].queued => \A j \in Queued : j < i => Settled(j)

Apply(i, p) ==
  /\ stored' = [stored EXCEPT ![p] = i]
  /\ seen' = [f \in Flows |-> IF target[f] = p THEN seen[f] \cup {i} ELSE seen[f]]

Perform(i) ==
  /\ Turn(i) /\ writes[i].state = "waiting"
  /\ Move(i, "performed")
  /\ Apply(i, writes[i].prop)
  /\ UNCHANGED <<setup, tail, error, kept, flow, prior, unreported>>

(* Mutant: values are cached whether options.cache is set or not. *)
WriteArrives_AlwaysCaches(i) ==
  LET p == writes[i].prop
  IN  /\ Runnable = {} /\ writes[i].state = "performed" /\ writes[i].queued
      /\ Move(i, "ok")
      /\ on' = Settle(on, OfWrite(i), Value(i))
      /\ cached' = [cached EXCEPT ![p] = Value(i)]
      /\ assigned' = [assigned EXCEPT ![p] = Nothing]
      /\ UNCHANGED <<setup, tail, stored, error, pc, target, until, ghost>>

(* The reactions of queueWrite to a write that has arrived: without cache  *)
(* whatever is kept of the property is dropped, with it kept for good.     *)
WriteArrives(i) ==
  LET p == writes[i].prop
  IN  /\ Runnable = {} /\ writes[i].state = "performed" /\ writes[i].queued
      /\ Move(i, "ok")
      /\ on' = Settle(on, OfWrite(i), Value(i))
      /\ IF setup.cache
         THEN /\ cached' = [cached EXCEPT ![p] = Value(i)]
              /\ assigned' = Settle(assigned, OfWrite(i), Value(i))
         ELSE /\ assigned' = [assigned EXCEPT ![p] = Nothing]
              /\ UNCHANGED cached
      /\ UNCHANGED <<setup, tail, stored, error, pc, target, until, ghost>>

(* Mutant: what is cached survives a write that failed. *)
WriteFails_KeepsCache(i) ==
  /\ Turn(i) /\ writes[i].state \in {"waiting", "performed"} /\ writes[i].queued
  /\ "write" \in MappingFaults
  /\ Move(i, "failed")
  /\ on' = Settle(on, OfWrite(i), Rejected)
  /\ assigned' = [assigned EXCEPT ![writes[i].prop] = Nothing]
  /\ error' = IF error = 0 THEN i ELSE error
  /\ unreported' = unreported \cup {i}
  /\ UNCHANGED <<setup, tail, stored, cached, pc, target, until, seen, prior>>

(* ... and to one that failed, before or after it had its effect.          *)
WriteFails(i) ==
  LET p == writes[i].prop
  IN  /\ Turn(i) /\ writes[i].state \in {"waiting", "performed"} /\ writes[i].queued
      /\ "write" \in MappingFaults
      /\ Move(i, "failed")
      /\ on' = Settle(on, OfWrite(i), Rejected)
      /\ assigned' = [assigned EXCEPT ![p] = Nothing]
      /\ cached' = [cached EXCEPT ![p] = Nothing]
      /\ error' = IF error = 0 THEN i ELSE error
      /\ unreported' = unreported \cup {i}
      /\ UNCHANGED <<setup, tail, stored, pc, target, until, seen, prior>>

DirectEnds(i) ==
  /\ Runnable = {} /\ writes[i].state \in {"waiting", "performed"} /\ ~writes[i].queued
  /\ \/ writes[i].state = "performed" /\ Move(i, "ok")
     \/ "write" \in MappingFaults /\ Move(i, "failed")
  /\ UNCHANGED <<setup, tail, stored, error, kept, flow, ghost>>

(* Another session's commit comes into view.                               *)
External(p) ==
  /\ Runnable = {} /\ "external" \in setup.extras
  /\ AddWrite(p, FALSE, "ok")
  /\ Apply(Len(writes) + 1, p)
  /\ UNCHANGED <<setup, tail, error, kept, flow, prior, unreported>>

-----------------------------------------------------------------------------
Call(f) ==
  \/ Flush(f) \/ RefreshAll(f) \/ ClearCache(f, Properties)
  \/ \E p \in Properties :
        \/ Assign(f, p) \/ Set(f, p) \/ SendDirect(f, p) \/ ClearCache(f, {p})
        \/ ReadKept(f, p) \/ Read(f, p) \/ Refresh(f, p)

GoOn(f)    == FlushDone(f) \/ WritesDone(f) \/ KeptDone(f) \/ SendDone(f)
Message(f) == ReadPerform(f) \/ ReadDone(f) \/ ReadFails(f)
Progress(i) == Perform(i) \/ WriteArrives(i) \/ WriteFails(i) \/ DirectEnds(i)

MappingNext ==
  \/ \E f \in Flows : Call(f) \/ GoOn(f) \/ Message(f)
  \/ \E i \in DOMAIN writes : Progress(i)
  \/ \E p \in Properties : External(p)

MappingSpec == MappingInit /\ [][MappingNext]_mappingVars

-----------------------------------------------------------------------------
Stages == {"idle", "flushing", "preparing", "reading", "marshalling", "awaiting", "sending"}
States == {"waiting", "performed", "ok", "failed"}

Writes == [prop : Properties, queued : BOOLEAN, state : States]

Kept       == {Nothing} \cup {Value(v) : v \in Values}
Assignable == Kept \cup {OfWrite(i) : i \in Values}
Cacheable  == Kept \cup {Rejected} \cup {OfRead(f) : f \in Flows}
Awaitable  == Assignable \cup Cacheable

Types ==
  /\ setup \in Setups
  /\ stored \in [Properties -> Values]
  /\ writes \in Seq(Writes) /\ Len(writes) <= MaxWrites
  /\ tail \in Values
  /\ error \in Values
  /\ assigned \in [Properties -> Assignable]
  /\ cached \in [Properties -> Cacheable]
  /\ pc \in [Flows -> Stages]
  /\ target \in [Flows -> Properties \cup {NoProperty}]
  /\ until \in [Flows -> Values]
  /\ on \in [Flows -> Awaitable]
  /\ seen \in [Flows -> SUBSET Values]
  /\ prior \in [Flows -> SUBSET Values]
  /\ unreported \subseteq Values

(* The promises there are will be settled: they are of writes in the queue *)
(* that have not ended, and of reads under way.                            *)
Promised ==
  /\ \A p \in Properties, i \in Values :
       assigned[p] = OfWrite(i) => i \in Queued /\ writes[i].prop = p /\ ~Settled(i)
  /\ \A p \in Properties, f \in Flows :
       cached[p] = OfRead(f) => pc[f] \in {"reading", "marshalling"} /\ target[f] = p
  /\ \A f \in Flows, i \in Values : on[f] = OfWrite(i) => i \in Queued /\ ~Settled(i)
  /\ \A f, g \in Flows : on[f] = OfRead(g) => pc[g] \in {"reading", "marshalling"}

(* Types; and every promise that is kept or awaited is settled in the end. *)
(* A failure is kept by a cache of reads only.                             *)
MappingTypeOK == Types /\ Promised

(* When the queue has nothing more to do for a property, then whatever has *)
(* failed, been dropped or been read meanwhile, the object has the newest  *)
(* value that arrived or a newer one, whose write failed after its effect; *)
(* and nothing else is kept of it, nor will be by a read under way.        *)
WritesConverge ==
  setup.extras \subseteq {"clear"} =>
    \A p \in Properties :
      LET own     == {i \in Queued : writes[i].prop = p}
          current == Value(stored[p])
      IN  (\A i \in own : Settled(i)) =>
            /\ \A i \in own : writes[i].state = "ok" => i <= stored[p]
            /\ assigned[p] \in {Nothing, current}
            /\ cached[p].kind = "value" => cached[p] = current
            /\ \A f \in Flows :
                 cached[p] = OfRead(f) /\ pc[f] = "marshalling" => on[f] = current

(* No call that waits for the queue goes on while a failure of a write it  *)
(* waited for has not been thrown to anybody (pendingWriteError).          *)
FailuresAreTold ==
  [][\A f \in Flows :
        /\ pc[f] \in {"flushing", "preparing"} /\ pc'[f] # pc[f]
        /\ unreported' = unreported
        => unreported \cap 1..until[f] = {}]_mappingVars

(* What a call of f returns that ends here, if it does not throw.          *)
Answers(f, v) == pc[f] \in {"awaiting", "marshalling"} /\ pc'[f] = "idle" /\ on[f] = Value(v)

(* Where what is kept of p is what it should be.  It knows nothing of what *)
(* bypasses the proxy.  A cache is filled by each write that arrives: when *)
(* a newer one is queued, and $clearCache or the failure of an older one   *)
(* has dropped what was assigned, reads are answered with the older value. *)
KeptIsCurrent(p) ==
  IF setup.cache
  THEN setup.extras = {} /\ \A i \in Queued : writes[i].prop = p => writes[i].state # "failed"
  ELSE setup.extras \subseteq {"clear"}

(* A read returns a value that the object had at some time between its     *)
(* call and its return, whatever readCache and assignedValues have done.   *)
ReadsAreRegular ==
  [][\A f \in Flows, v \in Values :
        Answers(f, v) /\ (pc[f] = "awaiting" => KeptIsCurrent(target[f])) => v \in seen[f]]_mappingVars

(* A read never returns a value older than the newest one assigned before  *)
(* it, unless that write fails.                                            *)
OwnWritesAreRead ==
  [][\A f \in Flows, v \in Values :
        Answers(f, v) /\ KeptIsCurrent(target[f])
          => \A i \in prior[f] : i <= v \/ writes[i].state = "failed"]_mappingVars
=============================================================================
