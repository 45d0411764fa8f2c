------------------------ MODULE TransactionsProofs --------------------------
(***************************************************************************)
(* Proofs about modules StoreBuffers, for any keys and values, and         *)
(* Transactions, for any clients, keys, jobs, faults, number of attempts   *)
(* and wording of conflicts: their type invariants, the two invariants of  *)
(* the calls, that the buffers of a store implement a dictionary, and that *)
(* calls whose stores write blindly implement the atomic updates of module *)
(* Updates.                                                                *)
(***************************************************************************)
EXTENDS Transactions, StoreBuffers, TLAPS

-----------------------------------------------------------------------------
(* The buffers of a store                                                  *)
(*                                                                         *)
(* The buffers implement the dictionary of BuffersKeepPromises.  It rests  *)
(* on Apart: the reads look into the buffers in an order of their own      *)
(* each, and the write sets before it deletes, so a key may be in one      *)
(* buffer only.                                                            *)

Apart == \A k \in deletes : dirty[k] = NoEntry

(* The transaction began with what the file has until it is written; when  *)
(* it is read-only or its callback throws, that is for good.               *)
FileKept ==
  /\ phase # "over" => file = data
  /\ readOnly => deletes = {} /\ dirty = [k \in StoreKeys |-> NoEntry]

StoreInv == StoreTypeOK /\ Apart /\ FileKept

-----------------------------------------------------------------------------
LEMMA StoreStart == StoreInit => StoreInv
BY DEF StoreInit, StoreInv, StoreTypeOK, Apart, FileKept, StoreEntries

LEMMA StoreStep == StoreInv /\ [StoreNext]_storeVars => StoreInv'
<1> SUFFICES ASSUME StoreInv, [StoreNext]_storeVars PROVE StoreInv'
  OBVIOUS
<1> USE DEF StoreInv, StoreTypeOK, Apart, FileKept, StoreEntries
<1>1. CASE UNCHANGED storeVars
  BY <1>1 DEF storeVars, edits
<1>2. CASE Call
  <2> UNCHANGED <<file, data, readOnly, phase>>
    BY <1>2 DEF Call
  <2>1. ASSUME NEW k \in StoreKeys, Delete(k) PROVE StoreInv'
    BY <2>1 DEF Delete, Writable, Open
  <2>2. ASSUME NEW k \in StoreKeys, NEW v \in StoreValues, Set(k, v) PROVE StoreInv'
    BY <2>2 DEF Set, Writable, Open
  <2>3. ASSUME UNCHANGED edits PROVE StoreInv'
    BY <2>3 DEF edits
  <2> QED
    BY <1>2, <2>1, <2>2, <2>3 DEF Call, AskGet, AskHas, AskKeys, Answer, RefuseCall
<1>3. CASE CallbackThrows \/ CallbackReturns
  BY <1>3 DEF CallbackThrows, CallbackReturns, Open, edits
<1>4. CASE WriteStore
  BY <1>4 DEF WriteStore, AfterWrite, edits
<1> QED
  BY <1>1, <1>2, <1>3, <1>4 DEF StoreNext

(* Types: every value the buffers of GStoreTransaction have is one of its  *)
(* own, and the phases of a transaction are the three there are.           *)
THEOREM StoreBuffersTypeOK == StoreSpec => []StoreTypeOK
<1>1. StoreInv => StoreTypeOK
  BY DEF StoreInv
<1> QED
  BY <1>1, StoreStart, StoreStep, PTL DEF StoreSpec

-----------------------------------------------------------------------------
(* The reads, by the entries that are shown.  Has() and the list look at   *)
(* #deletes first, get() at #dirty.                                        *)
LEMMA ReadsAgree ==
  ASSUME StoreInv, NEW k \in StoreKeys
  PROVE  /\ Has(k) <=> Get(k) # NoEntry
         /\ phase # "over" => Seen[k] = Get(k)
BY DEF StoreInv, Apart, Has, Get, Seen

LEMMA CallRefines == StoreInv /\ Call => [Promised!Next]_(Promised!vars)
<1> SUFFICES ASSUME StoreInv, Call PROVE Promised!Next
  BY DEF Promised!Next
<1> USE DEF Promised!Next
<1>0. UNCHANGED <<file, data, readOnly, phase>>
  BY DEF Call
<1>1. ASSUME NEW k \in StoreKeys, Delete(k) PROVE Promised!Remove(k)
  <2>1. Seen' = [Seen EXCEPT ![k] = NoEntry]
    BY <1>0, <1>1 DEF Delete, Writable, Open, Seen, Get, StoreInv, StoreTypeOK, StoreEntries
  <2>2. Has(k) = (Seen[k] # NoEntry)
    BY <1>1, ReadsAgree DEF Delete, Writable, Open, Has
  <2> QED
    BY <1>1, <2>1, <2>2 DEF Delete, Promised!Remove
<1>2. ASSUME NEW k \in StoreKeys, NEW v \in StoreValues, Set(k, v) PROVE Promised!Put(k, v)
  <2>1. Seen' = [Seen EXCEPT ![k] = v]
    BY <1>0, <1>2, StoreAssumption DEF Set, Writable, Open, Seen, Get, StoreInv, StoreTypeOK, StoreEntries, Apart
  <2> QED
    BY <1>2, <2>1 DEF Set, Promised!Put, Promised!Nothing
<1>3. ASSUME UNCHANGED edits PROVE UNCHANGED Seen
  BY <1>0, <1>3 DEF edits, Seen, Get
<1>4. ASSUME NEW k \in StoreKeys, AskGet(k) PROVE Promised!Read(k)
  BY <1>3, <1>4, ReadsAgree DEF AskGet, Answer, Open, Promised!Read
<1>5. ASSUME NEW k \in StoreKeys, AskHas(k) PROVE Promised!Has(k)
  <2>1. phase # "over" /\ UNCHANGED Seen
    BY <1>3, <1>5 DEF AskHas, Answer, Open
  <2>2. Has(k) = (Seen[k] # NoEntry)
    BY <2>1, ReadsAgree DEF Has
  <2> QED
    BY <1>5, <2>1, <2>2 DEF AskHas, Answer, Promised!Has
<1>6. ASSUME AskKeys PROVE Promised!List
  <2>1. phase # "over" /\ UNCHANGED Seen
    BY <1>3, <1>6 DEF AskKeys, Answer, Open
  <2>2. ({k \in StoreKeys : dirty[k] # NoEntry \/ data[k] # NoEntry} \ deletes) = {k \in StoreKeys : Has(k)}
    BY DEF Has
  <2>3. \A k \in StoreKeys : Has(k) <=> Seen[k] # NoEntry
    BY <2>1, ReadsAgree
  <2>4. {k \in StoreKeys : Has(k)} = {k \in StoreKeys : Seen[k] # NoEntry}
    BY <2>3
  <2> QED
    BY <1>6, <2>1, <2>2, <2>4 DEF AskKeys, Answer, Promised!List
<1>7. ASSUME RefuseCall PROVE Promised!Refuse
  BY <1>3, <1>7 DEF RefuseCall, Promised!Refuse, Promised!Refused
<1>8. UNCHANGED data
  BY <1>0
<1> QED
  BY <1>1, <1>2, <1>4, <1>5, <1>6, <1>7, <1>8 DEF Call

(* When the callback throws, the entries are again those of the beginning; *)
(* that it returns, and the write, are not seen.                           *)
LEMMA EndRefines ==
  StoreInv /\ (CallbackThrows \/ CallbackReturns \/ WriteStore) => [Promised!Next]_(Promised!vars)
<1> SUFFICES ASSUME StoreInv, CallbackThrows \/ CallbackReturns \/ WriteStore
             PROVE  [Promised!Next]_(Promised!vars)
  OBVIOUS
<1>1. CASE CallbackThrows
  <2>1. Seen' = data
    BY <1>1 DEF CallbackThrows, Open, Seen, StoreInv, FileKept
  <2> QED
    BY <1>1, <2>1 DEF CallbackThrows, Promised!Next, Promised!Throw, Promised!Nothing
<1>2. CASE CallbackReturns
  <2>1. UNCHANGED Seen
    BY <1>2 DEF CallbackReturns, Open, Seen, Get, edits
  <2> QED
    BY <1>2, <2>1 DEF CallbackReturns, Promised!vars
<1>3. CASE WriteStore
  <2>1. file = data /\ file \in [StoreKeys -> StoreValues \cup {NoEntry}]
    BY <1>3 DEF WriteStore, StoreInv, FileKept, StoreTypeOK, StoreEntries
  <2>2. AfterWrite = [k \in StoreKeys |-> Get(k)]
    BY <2>1 DEF AfterWrite, Get, StoreInv, Apart
  <2>3. ASSUME readOnly \/ ~IsDirty PROVE file = [k \in StoreKeys |-> Get(k)]
    <3>1. deletes = {} /\ \A k \in StoreKeys : dirty[k] = NoEntry
      BY <2>3 DEF IsDirty, StoreInv, FileKept
    <3> QED
      BY <2>1, <3>1 DEF Get
  <2>4. Seen' = file' /\ Seen = [k \in StoreKeys |-> Get(k)]
    BY <1>3 DEF WriteStore, Seen
  <2>5. UNCHANGED Seen
    BY <1>3, <2>2, <2>3, <2>4 DEF WriteStore
  <2> QED
    BY <1>3, <2>5 DEF WriteStore, Promised!vars
<1> QED
  BY <1>1, <1>2, <1>3

(* Refinement: each answer a GStoreTransaction gives is that of a          *)
(* dictionary that did what it was told at once, and writeFile() leaves    *)
(* the store with the entries of that dictionary.                          *)
THEOREM StoreBuffersKeepPromises == StoreSpec => BuffersKeepPromises
<1>1. StoreInit => Promised!Init
  BY DEF StoreInit, Promised!Init, Promised!Nothing, Seen, Get, StoreEntries
<1>2. StoreInv /\ [StoreNext]_storeVars => [Promised!Next]_(Promised!vars)
  <2>1. UNCHANGED storeVars => UNCHANGED Promised!vars
    BY DEF storeVars, edits, Promised!vars, Seen, Get
  <2> QED
    BY <2>1, CallRefines, EndRefines DEF StoreNext
<1> QED
  BY <1>1, <1>2, StoreStart, StoreStep, PTL DEF StoreSpec, Promised!Spec, BuffersKeepPromises

-----------------------------------------------------------------------------
(* The invariant, of each client c                                         *)

(* The call is open until it is over. *)
OpenUntilOver(c) == fate[c] = "open" <=> pc[c] /= "over"

(* An up-to-date view without changes is what is committed.  Changes that  *)
(* an abort failed to drop belong to a view that is out of date, so they   *)
(* are never committed.                                                    *)
Views(c) ==
  /\ seen[c] = version /\ ~changed[c] => view[c] = head
  /\ pc[c] \in {"start", "work", "write"} /\ changed[c] => seen[c] /= version
  /\ pc[c] \in {"notify", "retry"} => changed[c] /\ seen[c] /= version

(* The buffers of a store hold what its program does. *)
Buffers(c) ==
  /\ pc[c] \in {"write", "commit", "retry"} /\ OnStore(c) =>
       /\ puts[c] = {k \in Keys : Buffered(Program(c)[k]).put}
       /\ dels[c] = {k \in Keys : Buffered(Program(c)[k]).del}
  /\ pc[c] = "discard" => ~Writes(c)
  /\ pc[c] = "write" => OnStore(c)
  /\ pc[c] = "notify" => ~OnStore(c)

(* What commit() commits is the program's effect on what is committed, if  *)
(* the program is replayed or does not read.                               *)
Effect(c) ==
  pc[c] = "commit" =>
    /\ ~changed[c] => ~Writes(c)
    /\ seen[c] = version /\ changed[c] /\ Blind(c) =>
         /\ ~U!Refuses(Program(c), head)
         /\ view[c] = U!Result(c, Program(c), head)

(* Unless it is marred, the session is clean but for the attempt under     *)
(* way, and its view at least as new as the conflicts it has had.          *)
Orderly(c) ==
  /\ pc[c] \in {"start", "work", "refuse", "discard", "write"} /\ changed[c] => marred[c]
  /\ pc[c] /= "over" /\ ~marred[c] => seen[c] >= born[c] + attempt[c] - 1

(* What SessionLeftClean and BeatenByOthers say of c. *)
Ended(c) ==
  /\ fate[c] /= "open" /\ changed[c] => marred[c]
  /\ fate[c] = "exhausted" /\ ~marred[c] => version - born[c] >= Attempts

Mine(c) == OpenUntilOver(c) /\ Views(c) /\ Buffers(c) /\ Effect(c) /\ Orderly(c) /\ Ended(c)

IInv == \A c \in Clients : Mine(c)

USE DEF OpenUntilOver, Views, Buffers, Effect, Orderly, Ended

-----------------------------------------------------------------------------
(* Types                                                                   *)

Stages == {"start", "work", "refuse", "discard", "write", "commit", "notify",
           "retry", "undo", "over"}

Act(c) ==
  \/ Start(c) \/ StoreWork(c) \/ ReplayWork(c) \/ Leave(c) \/ WriteFile(c)
  \/ Commit(c) \/ Notify(c) \/ Retry(c) \/ Undo(c)

(* A client's program is one of the jobs', its session sees entries.       *)
LEMMA ResultType ==
  ASSUME NEW c \in Clients, NEW p, NEW v \in Entries
  PROVE  U!Result(c, p, v) \in Entries
BY DEF U!Result, Entries

LEMMA RefreshType ==
  ASSUME TypeOK, NEW c \in Clients, Refresh(c)
  PROVE  /\ view' \in [Clients -> Entries]
         /\ seen' \in [Clients -> 0..version]
         /\ changed' \in [Clients -> BOOLEAN]
         /\ view'[c] = head /\ seen'[c] = version /\ ~changed'[c]
BY DEF Refresh, TypeOK

(* TypeOK is preserved by every step. *)
LEMMA TypeStep ==
  ASSUME TypeOK, [Next]_vars
  PROVE  TypeOK'
<1> USE ParametersAssumption
<1>1. CASE UNCHANGED vars
  BY <1>1 DEF TypeOK, vars, stone, session, buffers, Entries
<1>2. ASSUME NEW c \in Clients, Start(c) PROVE TypeOK'
  <2>1. /\ view' \in [Clients -> Entries]
        /\ seen' \in [Clients -> 0..version]
        /\ changed' \in [Clients -> BOOLEAN]
    BY <1>2, RefreshType DEF Start, AbortFails, session, TypeOK
  <2>2. pc' \in [Clients -> Stages] /\ fate' \in [Clients -> {"open", "done", "failed", "exhausted"}]
    BY <1>2 DEF Start, Goto, End, TypeOK, Stages
  <2>3. marred' \in [Clients -> BOOLEAN]
    BY <1>2 DEF Start, AbortFails, TypeOK
  <2>4. born' \in [Clients -> 0..version]
    BY <1>2, <2>1 DEF Start, TypeOK
  <2>5. QED
    BY <1>2, <2>1, <2>2, <2>3, <2>4 DEF Start, TypeOK, Stages, stone, buffers, Entries
<1>3. ASSUME NEW c \in Clients, StoreWork(c) PROVE TypeOK'
  <2>1. pc' \in [Clients -> Stages] /\ fate' = fate
    BY <1>3 DEF StoreWork, Goto, TypeOK, Stages
  <2>2. puts' \in [Clients -> SUBSET Keys] /\ dels' \in [Clients -> SUBSET Keys]
    <3> DEFINE P == {k \in Keys : Buffered(Program(c)[k]).put}
               D == {k \in Keys : Buffered(Program(c)[k]).del}
    <3>1. \/ UNCHANGED buffers
          \/ puts' = [puts EXCEPT ![c] = P] /\ dels' = [dels EXCEPT ![c] = D]
      BY <1>3 DEF StoreWork
    <3>2. P \in SUBSET Keys /\ D \in SUBSET Keys
      OBVIOUS
    <3> HIDE DEF P, D
    <3>3. QED
      BY <3>1, <3>2 DEF buffers, TypeOK
  <2>3. QED
    BY <1>3, <2>1, <2>2 DEF StoreWork, TypeOK, Stages, stone, session, Entries
<1>4. ASSUME NEW c \in Clients, ReplayWork(c) PROVE TypeOK'
  <2>1. pc' \in [Clients -> Stages] /\ fate' = fate
    BY <1>4 DEF ReplayWork, Goto, TypeOK, Stages
  <2>2. changed' \in [Clients -> BOOLEAN] /\ seen' = seen
    BY <1>4 DEF ReplayWork, session, TypeOK
  <2>3. view' \in [Clients -> Entries]
    <3> DEFINE R == U!Result(c, Program(c), view[c])
    <3>1. view' = view \/ view' = [view EXCEPT ![c] = R]
      BY <1>4 DEF ReplayWork, session
    <3>2. R \in Entries
      BY ResultType DEF TypeOK
    <3> HIDE DEF R
    <3>3. QED
      BY <3>1, <3>2 DEF TypeOK
  <2>4. QED
    BY <1>4, <2>1, <2>2, <2>3 DEF ReplayWork, TypeOK, Stages, stone, buffers, Entries
<1>5. ASSUME NEW c \in Clients, Leave(c) PROVE TypeOK'
  <2>1. /\ view' \in [Clients -> Entries]
        /\ seen' \in [Clients -> 0..version]
        /\ changed' \in [Clients -> BOOLEAN]
    BY <1>5, RefreshType DEF Leave, AbortFails, session, TypeOK
  <2>2. pc' \in [Clients -> Stages] /\ fate' \in [Clients -> {"open", "done", "failed", "exhausted"}]
    BY <1>5 DEF Leave, End, TypeOK, Stages
  <2>3. marred' \in [Clients -> BOOLEAN]
    BY <1>5 DEF Leave, AbortFails, TypeOK
  <2>4. QED
    BY <1>5, <2>1, <2>2, <2>3 DEF Leave, TypeOK, Stages, stone, buffers, Entries
<1>6. ASSUME NEW c \in Clients, WriteFile(c) PROVE TypeOK'
  <2>1. pc' \in [Clients -> Stages] /\ fate' \in [Clients -> {"open", "done", "failed", "exhausted"}]
    BY <1>6 DEF WriteFile, Goto, End, TypeOK, Stages
  <2>2. view[c] \in Entries /\ Put(c, view[c]) \in Entries
    BY DEF TypeOK, Entries, Put
  <2>3. Drop(c, Put(c, view[c])) \in Entries
    BY <2>2 DEF Entries, Drop
  <2>4. view' \in [Clients -> Entries]
    <3>1. \E v \in Entries : view' = [view EXCEPT ![c] = v]
      BY <1>6, <2>2, <2>3 DEF WriteFile
    <3>2. Attempts \in Nat /\ attempt[c] \in 1..Attempts
      BY DEF TypeOK
    <3>3. attempt[c] /= Attempts => attempt[c] + 1 \in 1..Attempts
      BY <3>2
    <3>4. QED
      BY <3>1, <3>3 DEF TypeOK
  <2>5. QED
    BY <1>6, <2>1, <2>4 DEF WriteFile, TypeOK, Stages, stone, buffers, Entries
<1>7. ASSUME NEW c \in Clients, Commit(c) PROVE TypeOK'
  <2>1. pc' \in [Clients -> Stages] /\ fate' \in [Clients -> {"open", "done", "failed", "exhausted"}]
    BY <1>7 DEF Commit, Goto, End, TypeOK, Stages
  <2>2. head' \in Entries /\ version' \in Nat /\ version' >= version
    BY <1>7 DEF Commit, stone, TypeOK, Entries
  <2>3. /\ view' \in [Clients -> Entries]
        /\ seen' \in [Clients -> 0..version']
        /\ changed' \in [Clients -> BOOLEAN]
    <3>1. \/ UNCHANGED session
          \/ /\ view' = [view EXCEPT ![c] = head']
             /\ seen' = [seen EXCEPT ![c] = version']
             /\ changed' = [changed EXCEPT ![c] = FALSE]
      BY <1>7 DEF Commit
    <3>2. seen \in [Clients -> 0..version']
      BY <2>2 DEF TypeOK
    <3>3. version' \in 0..version' /\ FALSE \in BOOLEAN
      BY <2>2
    <3>4. view' \in [Clients -> Entries]
      BY <2>2, <3>1 DEF session, TypeOK
    <3>5. seen' \in [Clients -> 0..version']
      BY <3>1, <3>2, <3>3 DEF session
    <3>6. changed' \in [Clients -> BOOLEAN]
      BY <3>1 DEF session, TypeOK
    <3>7. QED
      BY <3>4, <3>5, <3>6
  <2>4. born' \in [Clients -> 0..version']
    BY <1>7, <2>2 DEF Commit, TypeOK
  <2>5. QED
    BY <1>7, <2>1, <2>2, <2>3, <2>4 DEF Commit, TypeOK, Stages, buffers, Entries
<1>8. ASSUME NEW c \in Clients, Notify(c) PROVE TypeOK'
  <2>1. pc' \in [Clients -> Stages] /\ fate' \in [Clients -> {"open", "done", "failed", "exhausted"}]
    BY <1>8 DEF Notify, Goto, End, TypeOK, Stages
  <2>2. QED
    BY <1>8, <2>1 DEF Notify, TypeOK, Stages, stone, session, buffers, Entries
<1>9. ASSUME NEW c \in Clients, Retry(c) PROVE TypeOK'
  <2>1. /\ view' \in [Clients -> Entries]
        /\ seen' \in [Clients -> 0..version]
        /\ changed' \in [Clients -> BOOLEAN]
    BY <1>9, RefreshType DEF Retry, AbortFails, session, TypeOK
  <2>2. pc' \in [Clients -> Stages] /\ fate' \in [Clients -> {"open", "done", "failed", "exhausted"}]
    BY <1>9 DEF Retry, Again, Goto, End, TypeOK, Stages
  <2>3. marred' \in [Clients -> BOOLEAN]
    BY <1>9 DEF Retry, AbortFails, TypeOK
  <2>4. attempt' \in [Clients -> 1..Attempts]
    <3>1. \/ UNCHANGED attempt
          \/ attempt[c] /= Attempts /\ attempt' = [attempt EXCEPT ![c] = @ + 1]
      BY <1>9 DEF Retry, Again
    <3>2. Attempts \in Nat /\ attempt[c] \in 1..Attempts
      BY DEF TypeOK
    <3>3. attempt[c] /= Attempts => attempt[c] + 1 \in 1..Attempts
      BY <3>2
    <3>4. QED
      BY <3>1, <3>3 DEF TypeOK
  <2>5. QED
    BY <1>9, <2>1, <2>2, <2>3, <2>4 DEF Retry, TypeOK, Stages, stone, buffers, Entries
<1>10. ASSUME NEW c \in Clients, Undo(c) PROVE TypeOK'
  <2>1. /\ view' \in [Clients -> Entries]
        /\ seen' \in [Clients -> 0..version]
        /\ changed' \in [Clients -> BOOLEAN]
    BY <1>10, RefreshType DEF Undo, AbortIgnoringErrors, AbortFails, session, TypeOK
  <2>2. pc' \in [Clients -> Stages] /\ fate' \in [Clients -> {"open", "done", "failed", "exhausted"}]
    BY <1>10 DEF Undo, End, TypeOK, Stages
  <2>3. marred' \in [Clients -> BOOLEAN]
    BY <1>10 DEF Undo, AbortIgnoringErrors, AbortFails, TypeOK
  <2>4. QED
    BY <1>10, <2>1, <2>2, <2>3 DEF Undo, TypeOK, Stages, stone, buffers, Entries
<1>11. QED
  BY <1>1, <1>2, <1>3, <1>4, <1>5, <1>6, <1>7, <1>8, <1>9, <1>10 DEF Next

(* Type correctness: no call is ever in an attempt beyond the last, and no *)
(* session's view is newer than the last commit.                           *)
THEOREM TransactionsTypeOK == Spec => []TypeOK
<1>1. Init => TypeOK
  BY ParametersAssumption DEF Init, TypeOK, Entries
<1>2. QED
  BY <1>1, TypeStep, PTL DEF Spec

-----------------------------------------------------------------------------
(* The steps                                                               *)

(* A step of one client leaves the others where they were; only a commit   *)
(* moves the Stone.                                                        *)
LEMMA Others ==
  ASSUME TypeOK, NEW c \in Clients, Act(c), NEW d \in Clients \ {c}
  PROVE  /\ pc'[d] = pc[d] /\ attempt'[d] = attempt[d] /\ view'[d] = view[d]
         /\ seen'[d] = seen[d] /\ changed'[d] = changed[d] /\ puts'[d] = puts[d]
         /\ dels'[d] = dels[d] /\ fate'[d] = fate[d] /\ marred'[d] = marred[d]
         /\ born'[d] = born[d] /\ job' = job
         /\ UNCHANGED stone \/ version' = version + 1
<1>1. CASE Start(c)
  BY <1>1 DEF Start, Refresh, AbortFails, Goto, End, TypeOK, stone, session, buffers
<1>2. CASE StoreWork(c)
  BY <1>2 DEF StoreWork, Goto, TypeOK, stone, session, buffers
<1>3. CASE ReplayWork(c)
  BY <1>3 DEF ReplayWork, Goto, TypeOK, stone, session, buffers
<1>4. CASE Leave(c)
  BY <1>4 DEF Leave, Refresh, AbortFails, End, TypeOK, stone, session, buffers
<1>5. CASE WriteFile(c)
  BY <1>5 DEF WriteFile, Goto, End, TypeOK, stone, buffers
<1>6. CASE Commit(c)
  BY <1>6 DEF Commit, Goto, End, TypeOK, stone, session, buffers
<1>7. CASE Notify(c)
  BY <1>7 DEF Notify, Goto, End, TypeOK, stone, session, buffers
<1>8. CASE Retry(c)
  BY <1>8 DEF Retry, Again, Refresh, AbortFails, Goto, End, TypeOK, stone, session, buffers
<1>9. CASE Undo(c)
  BY <1>9 DEF Undo, AbortIgnoringErrors, Refresh, AbortFails, End, TypeOK, stone, session, buffers
<1>10. QED
  BY <1>1, <1>2, <1>3, <1>4, <1>5, <1>6, <1>7, <1>8, <1>9 DEF Act

(* The others keep theirs: when the Stone moves, their views are stale.    *)
LEMMA OthersKeep ==
  ASSUME TypeOK, TypeOK', NEW c \in Clients, Act(c), NEW d \in Clients \ {c}, Mine(d)
  PROVE  Mine(d)'
<1>1. /\ pc'[d] = pc[d] /\ attempt'[d] = attempt[d] /\ view'[d] = view[d]
      /\ seen'[d] = seen[d] /\ changed'[d] = changed[d] /\ puts'[d] = puts[d]
      /\ dels'[d] = dels[d] /\ fate'[d] = fate[d] /\ marred'[d] = marred[d]
      /\ born'[d] = born[d] /\ job' = job
  BY Others
<1>2. UNCHANGED stone \/ version' = version + 1
  BY Others
<1>3. seen[d] \in 0..version /\ version \in Nat /\ born[d] \in 0..version /\ Attempts \in Nat
  BY ParametersAssumption DEF TypeOK
<1>4. CASE UNCHANGED stone
  BY <1>1, <1>4 DEF Mine, stone, Blind, OnStore, Kind, Program, Writes, Entries
<1>5. CASE version' = version + 1
  <2>1. seen'[d] /= version' /\ (version - born[d] >= Attempts => version' - born'[d] >= Attempts)
    BY <1>1, <1>3, <1>5
  <2>2. QED
    BY <1>1, <2>1 DEF Mine, Blind, OnStore, Kind, Program, Writes
<1>6. QED
  BY <1>2, <1>4, <1>5

(* What is known of a client and of the Stone. *)
Known(c) ==
  /\ head \in Entries /\ version \in Nat /\ Attempts \in Nat \ {0}
  /\ attempt[c] \in 1..Attempts /\ view[c] \in Entries /\ seen[c] \in 0..version
  /\ changed[c] \in BOOLEAN /\ marred[c] \in BOOLEAN /\ born[c] \in 0..version
  /\ puts[c] \subseteq Keys /\ dels[c] \subseteq Keys
  /\ Kind(c) \in Kinds /\ \A k \in Keys : Program(c)[k] \in Ops

LEMMA TypeKnown ==
  ASSUME TypeOK, NEW c \in Clients
  PROVE  Known(c)
BY ParametersAssumption DEF TypeOK, Known, Kind, Program

(* How the vectors change at c, for each way an action changes them.       *)
LEMMA GotoMine ==
  ASSUME TypeOK, NEW c \in Clients, NEW where, Goto(c, where)
  PROVE  pc'[c] = where /\ fate'[c] = fate[c]
BY DEF Goto, TypeOK

LEMMA EndMine ==
  ASSUME TypeOK, NEW c \in Clients, NEW how, End(c, how)
  PROVE  pc'[c] = "over" /\ fate'[c] = how
BY DEF End, TypeOK

LEMMA FailMine ==
  ASSUME TypeOK, NEW c \in Clients, AbortFails(c)
  PROVE  marred'[c] = TRUE /\ view' = view /\ seen' = seen /\ changed' = changed
BY DEF AbortFails, TypeOK, session

LEMMA StartMine ==
  ASSUME TypeOK, NEW c \in Clients, Start(c), Mine(c)
  PROVE  Mine(c)'
<1>1. Known(c)
  BY TypeKnown
<1>2. /\ UNCHANGED <<head, version, job, attempt>>
      /\ born'[c] = IF attempt[c] = 1 THEN seen'[c] ELSE born[c]
  BY DEF Start, stone, TypeOK
<1>3. CASE Refresh(c) /\ UNCHANGED marred /\ (Goto(c, "work") \/ End(c, "failed"))
  <2>1. view'[c] = head /\ seen'[c] = version /\ ~changed'[c]
    BY <1>3, RefreshType
  <2>2. \/ pc'[c] = "work" /\ fate'[c] = fate[c]
        \/ pc'[c] = "over" /\ fate'[c] = "failed"
    BY <1>3, GotoMine, EndMine
  <2>3. fate[c] = "open" /\ pc[c] = "start"
    BY DEF Start, Mine
  <2>4. ~marred'[c] => seen'[c] >= born'[c] + attempt'[c] - 1
    BY <1>1, <1>2, <1>3, <2>1, <2>3 DEF Mine, Known
  <2>5. QED
    BY <1>2, <2>1, <2>2, <2>3, <2>4 DEF Mine
<1>4. CASE UNCHANGED session /\ UNCHANGED marred /\ (Goto(c, "work") \/ End(c, "failed"))
  <2>1. UNCHANGED <<view, seen, changed, marred>>
    BY <1>4 DEF session
  <2>2. \/ pc'[c] = "work" /\ fate'[c] = fate[c]
        \/ pc'[c] = "over" /\ fate'[c] = "failed"
    BY <1>4, GotoMine, EndMine
  <2>3. fate[c] = "open" /\ pc[c] = "start"
    BY DEF Start, Mine
  <2>4. ~marred'[c] => seen'[c] >= born'[c] + attempt'[c] - 1
    BY <1>1, <1>2, <2>1, <2>3 DEF Mine, Known
  <2>5. QED
    BY <1>2, <2>1, <2>2, <2>3, <2>4 DEF Mine
<1>5. CASE AbortFails(c) /\ End(c, "failed")
  <2>1. /\ pc'[c] = "over" /\ fate'[c] = "failed" /\ marred'[c] = TRUE
        /\ view' = view /\ seen' = seen /\ changed' = changed
    BY <1>5, FailMine, EndMine
  <2>2. QED
    BY <1>2, <2>1 DEF Mine
<1>6. QED
  BY <1>3, <1>4, <1>5 DEF Start

LEMMA StoreWorkMine ==
  ASSUME TypeOK, NEW c \in Clients, StoreWork(c), Mine(c)
  PROVE  Mine(c)'
<1>1. Known(c)
  BY TypeKnown
<1>2. /\ UNCHANGED <<head, version, job, attempt, view, seen, changed, marred, born>>
      /\ pc[c] = "work" /\ OnStore(c)
  BY DEF StoreWork, stone, session
<1>3. CASE Goto(c, "refuse") /\ UNCHANGED buffers
  <2>1. pc'[c] = "refuse" /\ fate'[c] = fate[c]
    BY <1>3, GotoMine
  <2>2. QED
    BY <1>2, <2>1 DEF Mine
<1>4. CASE ~(Goto(c, "refuse") /\ UNCHANGED buffers)
  <2> DEFINE P == {k \in Keys : Buffered(Program(c)[k]).put}
             D == {k \in Keys : Buffered(Program(c)[k]).del}
  <2>1. /\ puts' = [puts EXCEPT ![c] = P] /\ dels' = [dels EXCEPT ![c] = D]
        /\ Goto(c, IF puts'[c] \cup dels'[c] = {} THEN "discard" ELSE "write")
        /\ Kind(c) = "reader" => ~Writes(c)
    BY <1>4 DEF StoreWork
  <2>2. puts'[c] = P /\ dels'[c] = D
    BY <2>1 DEF TypeOK
  <2>3. fate'[c] = fate[c] /\ pc'[c] = IF P \cup D = {} THEN "discard" ELSE "write"
    BY <2>1, <2>2, GotoMine
  <2>4. P \cup D = {} => ~Writes(c)
    <3>1. \A op \in Ops : op /= "keep" => Buffered(op).put \/ Buffered(op).del
      BY DEF Ops, Buffered, SetKey, DeleteKey
    <3>2. QED
      BY <1>1, <3>1 DEF Writes, Known
  <2>5. P = {k \in Keys : Buffered(Program(c)[k]).put}' /\ D = {k \in Keys : Buffered(Program(c)[k]).del}'
    BY <1>2 DEF Program
  <2>6. OnStore(c)' /\ (Writes(c)' <=> Writes(c))
    BY <1>2 DEF OnStore, Kind, Writes, Program
  <2> HIDE DEF P, D
  <2>7. QED
    BY <1>2, <2>2, <2>3, <2>4, <2>5, <2>6 DEF Mine
<1>5. QED
  BY <1>3, <1>4

LEMMA ReplayWorkMine ==
  ASSUME TypeOK, NEW c \in Clients, ReplayWork(c), Mine(c)
  PROVE  Mine(c)'
<1>1. Known(c)
  BY TypeKnown
<1>2. /\ UNCHANGED <<head, version, job, attempt, seen, puts, dels, marred, born>>
      /\ pc[c] = "work" /\ ~OnStore(c)
  BY DEF ReplayWork, stone, session, buffers
<1>3. CASE Goto(c, "undo") /\ UNCHANGED session
  <2>1. pc'[c] = "undo" /\ fate'[c] = fate[c] /\ UNCHANGED <<view, changed>>
    BY <1>3, GotoMine DEF session
  <2>2. QED
    BY <1>2, <2>1 DEF Mine
<1>4. CASE ~(Goto(c, "undo") /\ UNCHANGED session)
  <2> DEFINE R == U!Result(c, Program(c), view[c])
  <2>1. /\ ~U!Refuses(Program(c), view[c])
        /\ view' = [view EXCEPT ![c] = R]
        /\ changed' = [changed EXCEPT ![c] = @ \/ Writes(c)]
        /\ Goto(c, "commit")
    BY <1>4 DEF ReplayWork
  <2>2. view'[c] = R /\ (changed'[c] <=> changed[c] \/ Writes(c))
        /\ pc'[c] = "commit" /\ fate'[c] = fate[c]
    BY <2>1, GotoMine DEF TypeOK
  <2>3. OnStore(c)' = OnStore(c) /\ Writes(c)' = Writes(c) /\ Program(c)' = Program(c)
    BY <1>2 DEF OnStore, Kind, Writes, Program
  <2>4. seen[c] = version => ~changed[c] /\ view[c] = head
    BY <1>2 DEF Mine
  <2>5. ~Writes(c) => R = view[c]
    <3>1. SUFFICES ASSUME ~Writes(c) PROVE R = view[c]
      OBVIOUS
    <3>2. \A k \in Keys : Program(c)[k] = "keep"
      BY <3>1 DEF Writes
    <3>3. R = [k \in Keys |-> view[c][k]]
      BY <3>2 DEF U!Result
    <3>4. QED
      BY <1>1, <3>3 DEF Known, Entries
  <2>6. seen'[c] = version' /\ ~changed'[c] => view'[c] = head'
    BY <1>2, <2>2, <2>4, <2>5
  <2>7. /\ ~changed'[c] => ~Writes(c)'
        /\ seen'[c] = version' => ~U!Refuses(Program(c), head)' /\ view'[c] = U!Result(c, Program(c), head)'
    BY <1>2, <2>1, <2>2, <2>3, <2>4 DEF U!Refuses, U!Result
  <2> HIDE DEF R
  <2>8. QED
    BY <1>2, <2>2, <2>3, <2>6, <2>7 DEF Mine
<1>5. QED
  BY <1>3, <1>4

(* A call ends on a session that was refreshed, or marred.                 *)
LEMMA OverMine ==
  ASSUME TypeOK, NEW c \in Clients, UNCHANGED <<head, version, job, attempt, born>>,
         pc'[c] = "over", fate'[c] \in {"done", "failed"},
         \/ Refresh(c)
         \/ UNCHANGED session /\ (seen[c] = version /\ ~changed[c] => view[c] = head)
            /\ (changed[c] => marred'[c])
  PROVE  Mine(c)'
BY RefreshType DEF Mine, session

LEMMA LeaveMine ==
  ASSUME TypeOK, NEW c \in Clients, Leave(c), Mine(c)
  PROVE  Mine(c)'
<1>1. UNCHANGED <<head, version, job, attempt, born>>
  BY DEF Leave, stone
<1>2. pc'[c] = "over" /\ fate'[c] \in {"done", "failed"}
  BY EndMine DEF Leave
<1>3. \/ Refresh(c)
      \/ UNCHANGED session /\ UNCHANGED marred
      \/ AbortFails(c)
  BY DEF Leave
<1>4. UNCHANGED session => (changed[c] => marred'[c])
  BY <1>3, FailMine, RefreshType DEF Mine, Leave, session
<1>5. QED
  BY <1>1, <1>2, <1>3, <1>4, OverMine, FailMine DEF Mine, session

LEMMA UndoMine ==
  ASSUME TypeOK, NEW c \in Clients, Undo(c), Mine(c)
  PROVE  Mine(c)'
<1>1. UNCHANGED <<head, version, job, attempt, born>>
  BY DEF Undo, stone
<1>2. pc'[c] = "over" /\ fate'[c] = "failed"
  BY EndMine DEF Undo
<1>3. Refresh(c) \/ AbortFails(c)
  BY DEF Undo, AbortIgnoringErrors
<1>4. QED
  BY <1>1, <1>2, <1>3, OverMine, FailMine DEF Mine, session, AbortFails

LEMMA NotifyMine ==
  ASSUME TypeOK, NEW c \in Clients, Notify(c), Mine(c)
  PROVE  Mine(c)'
<1>1. UNCHANGED <<head, version, job, attempt, born, view, seen, changed, puts, dels>>
  BY DEF Notify, stone, session, buffers
<1>2. CASE Goto(c, "retry") /\ UNCHANGED marred
  <2>1. pc'[c] = "retry" /\ fate'[c] = fate[c] /\ pc[c] = "notify" /\ job' = job
    BY <1>2, GotoMine DEF Notify
  <2>2. OnStore(c)' = OnStore(c)
    BY <2>1 DEF OnStore, Kind
  <2>3. QED
    BY <1>1, <1>2, <2>1, <2>2 DEF Mine
<1>3. CASE End(c, "failed") /\ marred' = [marred EXCEPT ![c] = TRUE]
  <2>1. marred'[c] = TRUE /\ pc'[c] = "over" /\ fate'[c] = "failed"
    BY <1>3, EndMine DEF TypeOK
  <2>2. QED
    BY <1>1, <2>1 DEF Mine
<1>4. QED
  BY <1>2, <1>3 DEF Notify

(* writeFile sets and deletes, as the buffers of a blind program say, what *)
(* the program does.                                                       *)
LEMMA WrittenAsBuffered ==
  ASSUME NEW c \in Clients, Known(c), Blind(c), OnStore(c),
         puts[c] = {k \in Keys : Buffered(Program(c)[k]).put},
         dels[c] = {k \in Keys : Buffered(Program(c)[k]).del}
  PROVE  /\ Drop(c, Put(c, head)) = U!Result(c, Program(c), head)
         /\ ~U!Refuses(Program(c), head)
<1>1. \A k \in Keys : Program(c)[k] /= "claim" /\ Program(c)[k] \in Ops
  BY DEF Blind, Known
<1>2. ASSUME NEW k \in Keys
      PROVE  Drop(c, Put(c, head))[k] = U!Result(c, Program(c), head)[k]
  BY <1>1, <1>2 DEF Drop, Put, U!Result, Buffered, SetKey, DeleteKey, Ops
<1>3. QED
  BY <1>1, <1>2 DEF Drop, Put, U!Result, U!Refuses

LEMMA WriteFileMine ==
  ASSUME TypeOK, NEW c \in Clients, WriteFile(c), Mine(c)
  PROVE  Mine(c)'
<1>1. Known(c)
  BY TypeKnown
<1>2. /\ UNCHANGED <<head, version, job, attempt, born, seen, puts, dels>>
      /\ changed'[c] = TRUE /\ pc[c] = "write" /\ OnStore(c)
  BY DEF WriteFile, stone, buffers, TypeOK, Mine
<1>3. CASE Goto(c, "commit") /\ UNCHANGED marred /\ view' = [view EXCEPT ![c] = Drop(c, Put(c, @))]
  <2>1. view'[c] = Drop(c, Put(c, view[c])) /\ pc'[c] = "commit" /\ fate'[c] = fate[c]
    BY <1>3, GotoMine DEF TypeOK
  <2>2. seen[c] = version => view[c] = head
    BY <1>2 DEF Mine
  <2>3. /\ puts[c] = {k \in Keys : Buffered(Program(c)[k]).put}
        /\ dels[c] = {k \in Keys : Buffered(Program(c)[k]).del}
    BY <1>2 DEF Mine
  <2>4. seen[c] = version /\ Blind(c) =>
          ~U!Refuses(Program(c), head) /\ view'[c] = U!Result(c, Program(c), head)
    BY <1>1, <1>2, <2>1, <2>2, <2>3, WrittenAsBuffered
  <2>5. seen'[c] = version' /\ Blind(c)' =>
          ~U!Refuses(Program(c), head)' /\ view'[c] = U!Result(c, Program(c), head)'
    BY <1>2, <2>4 DEF Blind, OnStore, Kind, Program, U!Refuses, U!Result
  <2>6. puts'[c] = {k \in Keys : Buffered(Program(c)[k]).put}'
    BY <1>2, <2>3 DEF Program
  <2>7. dels'[c] = {k \in Keys : Buffered(Program(c)[k]).del}'
    BY <1>2, <2>3 DEF Program
  <2>8. QED
    BY <1>2, <1>3, <2>1, <2>5, <2>6, <2>7 DEF Mine
<1>4. CASE End(c, "failed") /\ marred' = [marred EXCEPT ![c] = TRUE]
  <2>1. marred'[c] = TRUE /\ pc'[c] = "over" /\ fate'[c] = "failed"
    BY <1>4, EndMine DEF TypeOK
  <2>2. QED
    BY <1>2, <2>1 DEF Mine
<1>5. QED
  BY <1>3, <1>4 DEF WriteFile

LEMMA CommitMine ==
  ASSUME TypeOK, NEW c \in Clients, Commit(c), Mine(c)
  PROVE  Mine(c)'
<1>1. Known(c)
  BY TypeKnown
<1>2. UNCHANGED <<job, attempt, puts, dels, marred, born>> /\ pc[c] = "commit"
  BY DEF Commit, buffers
<1>3. CASE End(c, "done")
  <2>1. pc'[c] = "over" /\ fate'[c] = "done"
    BY <1>3, EndMine
  <2>2. ~UNCHANGED fate
    BY <1>2, <2>1 DEF Mine
  <2>3. view'[c] = head' /\ changed'[c] = FALSE
    BY <1>3, <2>1, <2>2, GotoMine DEF Commit, Goto, TypeOK
  <2>4. QED
    BY <2>1, <2>3 DEF Mine
<1>4. CASE /\ changed[c] /\ seen[c] /= version
           /\ \E report \in Reports :
                 Goto(c, IF report \notin TakenForConflict(c) THEN "undo"
                         ELSE IF OnStore(c) THEN "retry" ELSE "notify")
           /\ UNCHANGED <<stone, session>>
  <2>1. /\ pc'[c] \in {"undo", "retry", "notify"} /\ fate'[c] = fate[c]
        /\ pc'[c] = "notify" => ~OnStore(c)
    BY <1>4, GotoMine
  <2>2. UNCHANGED <<head, version, view, seen, changed>>
    BY <1>4 DEF stone, session
  <2>3. OnStore(c)' = OnStore(c) /\ Program(c)' = Program(c)
    BY <1>2 DEF OnStore, Kind, Program
  <2>4. QED
    BY <1>2, <1>4, <2>1, <2>2, <2>3 DEF Mine
<1>5. CASE Goto(c, "undo") /\ UNCHANGED <<stone, session>>
  <2>1. pc'[c] = "undo" /\ fate'[c] = fate[c]
    BY <1>5, GotoMine
  <2>2. UNCHANGED <<head, version, view, seen, changed>>
    BY <1>5 DEF stone, session
  <2>3. QED
    BY <1>2, <2>1, <2>2 DEF Mine
<1>6. QED
  BY <1>3, <1>4, <1>5 DEF Commit

LEMMA RetryMine ==
  ASSUME TypeOK, NEW c \in Clients, Retry(c), Mine(c)
  PROVE  Mine(c)'
<1>1. Known(c)
  BY TypeKnown
<1>2. /\ UNCHANGED <<head, version, job, born, puts, dels>>
      /\ pc[c] = "retry" /\ changed[c] /\ seen[c] /= version /\ fate[c] = "open"
      /\ ~marred[c] => version >= born[c] + attempt[c]
  <2>1. /\ UNCHANGED <<head, version, job, born, puts, dels>>
        /\ pc[c] = "retry" /\ changed[c] /\ seen[c] /= version /\ fate[c] = "open"
        /\ ~marred[c] => seen[c] >= born[c] + attempt[c] - 1
    BY DEF Retry, Mine, stone, buffers
  <2>2. QED
    BY <1>1, <2>1 DEF Known
<1>3. CASE AbortFails(c) /\ End(c, "failed")
  <2>1. /\ marred'[c] = TRUE /\ pc'[c] = "over" /\ fate'[c] = "failed"
        /\ UNCHANGED <<view, seen, changed>>
    BY <1>3, EndMine, FailMine
  <2>2. QED
    BY <1>2, <2>1 DEF Mine
<1>4. CASE \/ Refresh(c) /\ Again(c) /\ UNCHANGED marred
           \/ ~OnStore(c) /\ AbortFails(c) /\ Again(c)
  <2>1. \/ /\ view'[c] = head /\ seen'[c] = version /\ ~changed'[c] /\ marred'[c] = marred[c]
        \/ /\ UNCHANGED <<view, seen, changed>> /\ marred'[c] = TRUE /\ ~OnStore(c)
    BY <1>4, RefreshType, FailMine
  <2>2. CASE attempt[c] = Attempts
    <3>1. pc'[c] = "over" /\ fate'[c] = "exhausted" /\ attempt' = attempt
      BY <1>4, <2>2, EndMine DEF Again
    <3>2. ~marred'[c] => version' - born'[c] >= Attempts
      BY <1>1, <1>2, <2>1, <2>2 DEF Known
    <3>3. QED
      BY <1>2, <2>1, <3>1, <3>2 DEF Mine
  <2>3. CASE attempt[c] /= Attempts
    <3>1. pc'[c] \in {"start", "work", "write"} /\ (pc'[c] = "write" => OnStore(c)) /\ fate'[c] = fate[c]
      <4>1. (Goto(c, "write") /\ OnStore(c)) \/ Goto(c, "work") \/ Goto(c, "start")
        BY <1>1, <1>4, <2>3 DEF Again, Known, Kinds, OnStore
      <4>2. QED
        BY <4>1, GotoMine
    <3>2. attempt'[c] = attempt[c] + 1
      BY <1>4, <2>3 DEF Again, TypeOK
    <3>3. ~marred'[c] => seen'[c] >= born'[c] + attempt'[c] - 1
      BY <1>1, <1>2, <2>1, <3>2 DEF Known
    <3>4. QED
      <4>1. /\ OnStore(c)' = OnStore(c)
            /\ puts'[c] = {k \in Keys : Buffered(Program(c)[k]).put} <=>
                 puts[c] = {k \in Keys : Buffered(Program(c)[k]).put}
            /\ Program(c)' = Program(c)
        BY <1>2 DEF OnStore, Kind, Program
      <4>2. QED
        BY <1>2, <2>1, <3>1, <3>3, <4>1 DEF Mine
  <2>4. QED
    BY <2>2, <2>3
<1>5. \/ Refresh(c) /\ Again(c) /\ UNCHANGED marred
      \/ AbortFails(c) /\ End(c, "failed")
      \/ ~OnStore(c) /\ AbortFails(c) /\ Again(c)
  BY DEF Retry
<1>6. QED
  BY <1>3, <1>4, <1>5

-----------------------------------------------------------------------------
(* The theorems                                                            *)

LEMMA InvStep ==
  ASSUME TypeOK, TypeOK', IInv, [Next]_vars
  PROVE  IInv'
<1>1. CASE UNCHANGED vars
  BY <1>1 DEF IInv, Mine, vars, stone, session, buffers, Blind, OnStore, Kind,
              Program, Writes, U!Refuses, U!Result
<1>2. ASSUME NEW c \in Clients, Act(c) PROVE IInv'
  <2>1. \A d \in Clients : Mine(d)
    BY DEF IInv
  <2>2. \A d \in Clients \ {c} : Mine(d)'
    BY <1>2, <2>1, OthersKeep
  <2>3. Mine(c)'
    BY <1>2, <2>1, StartMine, StoreWorkMine, ReplayWorkMine, LeaveMine, WriteFileMine,
       CommitMine, NotifyMine, RetryMine, UndoMine DEF Act
  <2>4. \A d \in Clients : Mine(d)'
    BY <2>2, <2>3
  <2>5. QED
    BY <2>4 DEF IInv
<1>3. QED
  BY <1>1, <1>2 DEF Next, Act

LEMMA InvInit == Init => IInv
<1>1. SUFFICES ASSUME Init, NEW c \in Clients PROVE Mine(c)
  BY DEF IInv
<1>2. /\ pc[c] = "start" /\ fate[c] = "open" /\ ~changed[c] /\ view[c] = head
      /\ seen[c] = 0 /\ born[c] = 0 /\ attempt[c] = 1
  BY <1>1 DEF Init
<1>3. QED
  BY <1>2 DEF Mine

THEOREM TransactionsInv == Spec => [](TypeOK /\ IInv)
<1>1. Init => TypeOK /\ IInv
  BY InvInit, ParametersAssumption DEF Init, TypeOK, Entries
<1>2. TypeOK /\ IInv /\ [Next]_vars => (TypeOK /\ IInv)'
  BY TypeStep, InvStep
<1>3. QED
  BY <1>1, <1>2, PTL DEF Spec

(* Whatever fails, a call that is over left no change in its session,      *)
(* unless an abort, a write or the listener failed it.                     *)
THEOREM TransactionsSessionLeftClean == Spec => []SessionLeftClean
<1>1. IInv => SessionLeftClean
  BY DEF IInv, Mine, SessionLeftClean
<1>2. QED
  BY <1>1, TransactionsInv, PTL

(* A call gives up only after as many commits of others as it has          *)
(* attempts, whatever the number of clients.                               *)
THEOREM TransactionsBeatenByOthers == Spec => []BeatenByOthers
<1>1. IInv => BeatenByOthers
  BY DEF IInv, Mine, BeatenByOthers
<1>2. QED
  BY <1>1, TransactionsInv, PTL

(* What a step shows of the entries and of the call that took it. *)
LEMMA Visible ==
  ASSUME TypeOK, IInv, StoresWriteBlindly, NEW c \in Clients, Act(c)
  PROVE  /\ job' = job /\ fate[c] = "open"
         /\ \/ head' = head /\ fate' = fate
            \/ head' = head /\ \E how \in {"failed", "exhausted"} : fate' = [fate EXCEPT ![c] = how]
            \/ /\ fate' = [fate EXCEPT ![c] = "done"]
               /\ ~U!Refuses(Program(c), head)
               /\ head' = U!Result(c, Program(c), head)
<1>1. Mine(c) /\ Known(c)
  BY TypeKnown DEF IInv
<1>2. job' = job /\ fate[c] = "open"
  BY <1>1 DEF Mine, Act, Start, StoreWork, ReplayWork, Leave, WriteFile, Commit, Notify, Retry, Undo
<1>3. ~Writes(c) => ~U!Refuses(Program(c), head) /\ U!Result(c, Program(c), head) = head
  <2>1. SUFFICES ASSUME ~Writes(c) PROVE ~U!Refuses(Program(c), head) /\ U!Result(c, Program(c), head) = head
    OBVIOUS
  <2>2. \A k \in Keys : Program(c)[k] = "keep"
    BY <2>1 DEF Writes
  <2>3. U!Result(c, Program(c), head) = [k \in Keys |-> head[k]]
    BY <2>2 DEF U!Result
  <2>4. QED
    BY <1>1, <2>2, <2>3 DEF U!Refuses, Known, Entries
<1>4. CASE Start(c) \/ StoreWork(c) \/ ReplayWork(c) \/ WriteFile(c) \/ Notify(c) \/ Undo(c)
  BY <1>2, <1>4 DEF Start, StoreWork, ReplayWork, WriteFile, Notify, Undo, Goto, End, stone
<1>5. CASE Retry(c)
  BY <1>2, <1>5 DEF Retry, Again, Goto, End, stone
<1>6. CASE Leave(c)
  <2>1. /\ head' = head
        /\ \/ fate' = [fate EXCEPT ![c] = "failed"]
           \/ pc[c] = "discard" /\ fate' = [fate EXCEPT ![c] = "done"]
    BY <1>6 DEF Leave, End, stone
  <2>2. pc[c] = "discard" => ~Writes(c)
    BY <1>1 DEF Mine
  <2>3. QED
    BY <1>2, <1>3, <2>1, <2>2
<1>7. CASE Commit(c)
  <2>1. \/ /\ ~changed[c] \/ seen[c] = version
           /\ head' = IF changed[c] THEN view[c] ELSE head
           /\ fate' = [fate EXCEPT ![c] = "done"]
        \/ head' = head /\ fate' = fate
    BY <1>7 DEF Commit, Goto, End, stone
  <2>2. pc[c] = "commit" /\ Blind(c)
    BY <1>7 DEF Commit, StoresWriteBlindly
  <2>3. /\ ~changed[c] => ~Writes(c)
        /\ seen[c] = version /\ changed[c] =>
             /\ ~U!Refuses(Program(c), head)
             /\ view[c] = U!Result(c, Program(c), head)
    BY <1>1, <2>2 DEF Mine
  <2>4. QED
    BY <1>2, <1>3, <2>1, <2>3
<1>8. QED
  BY <1>4, <1>5, <1>6, <1>7 DEF Act

(* With stores that write blindly, transaction calls implement the atomic  *)
(* updates of module Updates: serializability of what they commit, for any *)
(* number of clients, attempts and faults.                                 *)
THEOREM TransactionsSerial == Spec /\ StoresWriteBlindly => UpdatesAreSerial
<1>1. Init => U!Init
  <2>1. SUFFICES ASSUME Init PROVE U!Init
    OBVIOUS
  <2>2. [c \in Clients |-> job[c].program] \in [Clients -> [Keys -> U!Ops]]
    BY <2>1, ParametersAssumption DEF Init, Ops, U!Ops
  <2>3. head \in [Keys -> Clients \cup {None}]
    BY <2>1 DEF Init
  <2>4. [c \in Clients |-> IF fate[c] \in {"open", "done"} THEN fate[c] ELSE "failed"]
          = [c \in Clients |-> "open"]
    BY <2>1 DEF Init
  <2>5. QED
    BY <2>2, <2>3, <2>4 DEF U!Init
<1>2. TypeOK /\ IInv /\ StoresWriteBlindly /\ [Next]_vars => [U!Next]_(U!vars)
  <2>1. SUFFICES ASSUME TypeOK, IInv, StoresWriteBlindly, [Next]_vars PROVE [U!Next]_(U!vars)
    OBVIOUS
  <2>2. CASE UNCHANGED vars
    BY <2>2 DEF vars, stone, U!vars
  <2>3. ASSUME NEW c \in Clients, Act(c) PROVE [U!Next]_(U!vars)
    <3> DEFINE bar(f) == [d \in Clients |-> IF f[d] \in {"open", "done"} THEN f[d] ELSE "failed"]
    <3>1. job' = job /\ fate[c] = "open" /\ fate \in [Clients -> {"open", "done", "failed", "exhausted"}]
      BY <2>1, <2>3, Visible DEF TypeOK
    <3>2. CASE head' = head /\ fate' = fate
      BY <3>1, <3>2 DEF U!vars
    <3>3. ASSUME head' = head, NEW how \in {"failed", "exhausted"}, fate' = [fate EXCEPT ![c] = how]
          PROVE  U!Fail(c)
      <4>1. bar(fate') = [bar(fate) EXCEPT ![c] = "failed"] /\ bar(fate)[c] = "open"
        BY <3>1, <3>3
      <4>2. QED
        BY <3>1, <3>3, <4>1 DEF U!Fail
    <3>4. ASSUME fate' = [fate EXCEPT ![c] = "done"], ~U!Refuses(Program(c), head),
                 head' = U!Result(c, Program(c), head)
          PROVE  U!Update(c)
      <4>1. bar(fate') = [bar(fate) EXCEPT ![c] = "done"] /\ bar(fate)[c] = "open"
        BY <3>1, <3>4
      <4>2. [d \in Clients |-> job[d].program][c] = Program(c)
        BY DEF Program
      <4>3. QED
        BY <3>1, <3>4, <4>1, <4>2 DEF U!Update
    <3>5. QED
      BY <2>1, <2>3, <3>2, <3>3, <3>4, Visible DEF U!Next
  <2>4. QED
    BY <2>1, <2>2, <2>3 DEF Next, Act
<1>3. StoresWriteBlindly /\ [Next]_vars => StoresWriteBlindly'
  <2>1. SUFFICES ASSUME StoresWriteBlindly, [Next]_vars PROVE StoresWriteBlindly'
    OBVIOUS
  <2>2. job' = job
    BY <2>1 DEF Next, Start, StoreWork, ReplayWork, Leave, WriteFile, Commit, Notify,
       Retry, Undo, vars
  <2>3. QED
    BY <2>1, <2>2 DEF StoresWriteBlindly, Blind, OnStore, Kind, Program
<1>4. QED
  BY <1>1, <1>2, <1>3, TransactionsInv, PTL DEF Spec, U!Spec, UpdatesAreSerial
=============================================================================
