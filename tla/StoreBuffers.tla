---------------------------- MODULE StoreBuffers ----------------------------
(***************************************************************************)
(* GStoreTransaction of src/gstore.ts: the entries of a store are read     *)
(* once, and what the callback sets and deletes is kept in two buffers     *)
(* that its own reads look at first.  At the end they are written to the   *)
(* file of the store, all that is set before all that is deleted.          *)
(*                                                                         *)
(* This is one attempt, which no other client disturbs: those that the     *)
(* Stone refuses are in module Transactions.                               *)
(***************************************************************************)

CONSTANTS
  StoreKeys,
  StoreValues,  \* values that are serializable as JSON
  NoEntry

ASSUME StoreAssumption == NoEntry \notin StoreValues

VARIABLES
  file,       \* the entries in the Stone
  data,       \* #data
  dirty,      \* #dirty: NoEntry for the keys it does not have
  deletes,    \* #deletes
  readOnly,
  phase,      \* "open" for the callback, "closed" after it, "over" in the end
  told        \* the answer to the last call

edits     == <<dirty, deletes>>
storeVars == <<file, data, edits, readOnly, phase, told>>

StoreEntries == [StoreKeys -> StoreValues \cup {NoEntry}]

StoreInit ==
  /\ file \in StoreEntries
  /\ data = file
  /\ dirty = [k \in StoreKeys |-> NoEntry]
  /\ deletes = {}
  /\ readOnly \in BOOLEAN
  /\ phase = "open"
  /\ told = [kind |-> "nothing"]

-----------------------------------------------------------------------------
(* The calls of the callback                                               *)

Open     == phase = "open"
Writable == Open /\ ~readOnly

Has(k) == k \notin deletes /\ (dirty[k] # NoEntry \/ data[k] # NoEntry)

Get(k) == IF dirty[k] # NoEntry THEN dirty[k] ELSE IF k \in deletes THEN NoEntry ELSE data[k]

Set(k, v) ==
  /\ Writable
  /\ dirty' = [dirty EXCEPT ![k] = v]
  /\ deletes' = deletes \ {k}
  /\ told' = [kind |-> "nothing"]

(* A delete that leaves the key among those to be set. *)
Delete_KeepsDirty(k) ==
  /\ Writable
  /\ deletes' = deletes \cup {k}
  /\ told' = [kind |-> "removed", key |-> k, existed |-> Has(k)]
  /\ UNCHANGED dirty

Delete(k) ==
  /\ Writable
  /\ dirty' = [dirty EXCEPT ![k] = NoEntry]
  /\ deletes' = deletes \cup {k}
  /\ told' = [kind |-> "removed", key |-> k, existed |-> Has(k)]

Answer(a) == Open /\ told' = a /\ UNCHANGED edits

AskGet(k) == Answer([kind |-> "read", key |-> k, value |-> Get(k)])
AskHas(k) == Answer([kind |-> "has", key |-> k, is |-> Has(k)])
AskKeys   == Answer([kind |-> "keys", are |-> {k \in StoreKeys : dirty[k] # NoEntry \/ data[k] # NoEntry} \ deletes])

(* A transaction that is closed, or to be written to but read-only, and a  *)
(* value that is not serializable: an error, before anything is changed.   *)
RefuseCall == told' = [kind |-> "refused"] /\ UNCHANGED edits

Call ==
  /\ \/ \E k \in StoreKeys : Delete(k) \/ AskGet(k) \/ AskHas(k) \/ \E v \in StoreValues : Set(k, v)
     \/ AskKeys \/ RefuseCall
  /\ UNCHANGED <<file, data, readOnly, phase>>

-----------------------------------------------------------------------------
(* The end of the callback                                                 *)

CallbackThrows ==
  /\ Open /\ phase' = "over"
  /\ told' = [kind |-> "nothing"]
  /\ UNCHANGED <<file, data, readOnly, edits>>

CallbackReturns ==
  /\ Open /\ phase' = "closed"
  /\ UNCHANGED <<file, data, readOnly, edits, told>>

IsDirty == (\E k \in StoreKeys : dirty[k] # NoEntry) \/ deletes # {}

(* setAllValue() and then removeAll(): what is in both buffers is deleted. *)
AfterWrite ==
  [k \in StoreKeys |-> IF k \in deletes THEN NoEntry ELSE IF dirty[k] # NoEntry THEN dirty[k] ELSE file[k]]

WriteStore ==
  /\ phase = "closed" /\ phase' = "over"
  /\ file' = IF readOnly \/ ~IsDirty THEN file ELSE AfterWrite
  /\ UNCHANGED <<data, readOnly, edits, told>>

StoreNext == Call \/ CallbackThrows \/ CallbackReturns \/ WriteStore

StoreSpec == StoreInit /\ [][StoreNext]_storeVars

-----------------------------------------------------------------------------
StoreTypeOK ==
  /\ file \in StoreEntries /\ data \in StoreEntries /\ dirty \in StoreEntries
  /\ deletes \subseteq StoreKeys
  /\ readOnly \in BOOLEAN
  /\ phase \in {"open", "closed", "over"}

(* What the callback sees, and in the end what the store has.              *)
Seen == IF phase = "over" THEN file ELSE [k \in StoreKeys |-> Get(k)]

Promised == INSTANCE StoreContents WITH
              Keys <- StoreKeys, Values <- StoreValues, before <- data, contents <- Seen

(* Each answer the callback gets is that of a dictionary that did what it  *)
(* was told at once, and the store has the entries of that dictionary in   *)
(* the end, or those it had if the callback threw.                         *)
BuffersKeepPromises == Promised!Spec
=============================================================================
