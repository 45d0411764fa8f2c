----------------------------- MODULE ObjectLog -----------------------------
(***************************************************************************)
(* The ObjectLog of a session (src/object-log.ts).  An entry is read with  *)
(* its position in the log, from 0, and removed by that position: between  *)
(* the two, another flow of the session may have changed the log.  Each    *)
(* operation is one piece of Smalltalk, so one step.                       *)
(***************************************************************************)
EXTENDS Integers, Sequences, FiniteSets, SequencesExt

CONSTANTS
  Priorities,     \* the levels that occur
  Limitless,      \* maxEntries is not given
  MaxRead,        \* the values of maxEntries
  MaxLog,         \* bound: entries ever added
  Every,          \* no level is given
  TooMany         \* the read throws

ASSUME LogAssumption == MaxRead \subseteq Nat /\ Limitless \notin Nat

VARIABLES
  log,            \* ObjectLogEntry objectLog
  added,          \* entries added so far: each entry is told by its number
  read,           \* the entries the reader was given, or TooMany
  asked,          \* what it asked for (history)
  asRead          \* the log when it was read (history)

logVars == <<log, added, read, asked, asRead>>

-----------------------------------------------------------------------------
(* Reading                                                                 *)

(* The elements of a sequence that are in a set, in their order.           *)
KeepIf(kept, each, S) == IF each \in S THEN Append(kept, each) ELSE kept
Kept(s, S) == FoldLeft(LAMBDA kept, each : KeepIf(kept, each, S), <<>>, s)

Matches(entry, priority) == priority \in {Every, entry.priority}

Row(i) == [label |-> log[i].label, priority |-> log[i].priority, index |-> i - 1]

(* A read from the oldest asks for one entry more than it may have, to see *)
(* that there are more (detectOverflow).                                   *)
ReadLimit(options) ==
  IF options.maxEntries = Limitless THEN Limitless
  ELSE options.maxEntries + (IF options.order = "oldest" THEN 1 ELSE 0)

(* The loop of objectLogEntriesSource: from either end, until the limit.   *)
Full(rows, options) == ReadLimit(options) # Limitless /\ Len(rows) >= ReadLimit(options)

Visited(rows, i, options) ==
  IF Full(rows, options) \/ ~Matches(log[i], options.priority) THEN rows
  ELSE IF options.order = "newest" THEN <<Row(i)>> \o rows ELSE Append(rows, Row(i))

Walk(options) == [i \in 1..Len(log) |-> IF options.order = "newest" THEN Len(log) + 1 - i ELSE i]

ObjectLogEntries(options) == FoldLeft(LAMBDA rows, i : Visited(rows, i, options), <<>>, Walk(options))

Entries(options) ==
  LET rows == ObjectLogEntries(options)
  IN  IF options.maxEntries # Limitless /\ Len(rows) > options.maxEntries THEN TooMany ELSE rows

ReadOptions == [order : {"oldest", "newest"}, priority : Priorities \cup {Every}, maxEntries : MaxRead \cup {Limitless}]

LogInit ==
  /\ log = <<>> /\ added = 0
  /\ read = <<>> /\ asked = [order |-> "oldest", priority |-> Every, maxEntries |-> Limitless] /\ asRead = <<>>

ReadEntries ==
  \E options \in ReadOptions :
    /\ read' = Entries(options)
    /\ asked' = options
    /\ asRead' = log
    /\ UNCHANGED <<log, added>>

-----------------------------------------------------------------------------
(* Changing                                                                *)

AddEntry ==
  /\ added < MaxLog
  /\ \E p \in Priorities : log' = Append(log, [label |-> added, priority |-> p])
  /\ added' = added + 1
  /\ UNCHANGED <<read, asked, asRead>>

Orderings(I) == [1..Cardinality(I) -> I]

(* normalizeEntryIndexes: each once, the last first.                       *)
EntryIndexes(rows) ==
  CHOOSE s \in Orderings({r.index + 1 : r \in rows}) : \A j, k \in DOMAIN s : j < k => s[j] > s[k]

RemoveIndex(entries, i) == IF i <= Len(entries) THEN RemoveAt(entries, i) ELSE entries
AfterRemoval(rows) == FoldLeft(RemoveIndex, log, EntryIndexes(rows))

(* remove() and removeAll().                                               *)
RemoveRows(rows) ==
  /\ log' = AfterRemoval(rows)
  /\ UNCHANGED <<added, read, asked, asRead>>

RemoveEntries == read # TooMany /\ \E rows \in SUBSET Range(read) : rows # {} /\ RemoveRows(rows)

(* clear() and clearFor().                                                 *)
ClearLog ==
  /\ \E p \in Priorities \cup {Every} : log' = Kept(log, {e \in Range(log) : ~Matches(e, p)})
  /\ UNCHANGED <<added, read, asked, asRead>>

LogNext == ReadEntries \/ AddEntry \/ RemoveEntries \/ ClearLog

LogSpec == LogInit /\ [][LogNext]_logVars

-----------------------------------------------------------------------------
(* Properties                                                              *)

(* A read answers the entries of the level, all of them or the newest      *)
(* maxEntries of them, in the order of the log and each with its position; *)
(* from the oldest it refuses exactly when there are more than maxEntries, *)
(* and never cuts off silently.                                            *)
ReadsWhatWasAsked ==
  LET all  == [i \in DOMAIN asRead |-> [label |-> asRead[i].label, priority |-> asRead[i].priority, index |-> i - 1]]
      rows == Kept(all, {r \in Range(all) : asked.priority \in {Every, r.priority}})
      max  == IF asked.maxEntries = Limitless THEN Len(rows) ELSE asked.maxEntries
  IN  read = IF Len(rows) <= max THEN rows
             ELSE IF asked.order = "oldest" THEN TooMany
             ELSE SubSeq(rows, Len(rows) - max + 1, Len(rows))

(* As long as nobody changed the log since it was read, removing some of   *)
(* the entries removes exactly those that were read: the positions do not  *)
(* shift under the removal.                                                *)
RemovesWhatWasRead ==
  [][\A rows \in SUBSET (IF read = TooMany THEN {} ELSE Range(read)) :
       log = asRead /\ rows # {} /\ RemoveRows(rows) =>
         log' = Kept(log, {e \in Range(log) : e.label \notin {r.label : r \in rows}})]_logVars
=============================================================================
