------------------------------ MODULE ReadBack ------------------------------
(***************************************************************************)
(* arrayOopToValues of src/client.ts: nested arrays of the Stone read back *)
(* as nested JavaScript arrays, one native call for the size of each and   *)
(* one for every item, while another flow of the session may put other     *)
(* items into them.  The arrays may share arrays, or hold themselves.  A   *)
(* call that fails ends the reading, except the one for the class of an    *)
(* item: the item is then no array, and an array is answered as its OOP.   *)
(***************************************************************************)
EXTENDS Integers, Sequences, FiniteSets, SequencesExt

CONSTANTS
  Arrays,         \* OOPs of class Array
  Heaps,          \* what they hold at first: functions from Arrays to sequences
  Scalars,        \* items that are no arrays; marshalOop answers each as itself
  Bounds,         \* [maxDepth, maxItems, maxTotalItems]; not given is Infinity in the code
  MaxPuts,        \* bound: items other flows put
  ReadFaults,     \* which calls may fail: "lookup", of the class of an item, and "call", any other
  Denied          \* the reading throws

ASSUME ReadAssumption ==
  /\ IsFiniteSet(Arrays) /\ Arrays \cap Scalars = {}
  /\ Heaps \subseteq [Arrays -> Seq(Arrays \cup Scalars)]
  /\ Bounds \subseteq [maxDepth : Nat \ {0}, maxItems : Nat, maxTotalItems : Nat]
  /\ ReadFaults \subseteq {"lookup", "call"}

VARIABLES
  heap,
  root,           \* the array to read
  bounds,         \* the options
  frames,         \* the calls of #arrayOopToValues in progress, the innermost last
  seen,           \* context.seen
  totalItems,     \* context.totalItems
  got,            \* in the end: Denied, or what was read
  puts,           \* items put by others meanwhile
  failedCalls     \* history: which calls failed, the lookups of scalars apart

readVars == <<heap, root, bounds, frames, seen, totalItems, got, puts, failedCalls>>

(* What the Stone knows, and what #isArrayOop answers: its catch takes an  *)
(* item whose class cannot be had for something else.                      *)
IsArray(item) == item \in Arrays
IsArrayOop(item, fails) == IsArray(item) /\ ~fails

Unknown == -1

Call(array) == [array |-> array, size |-> Unknown, values |-> <<>>]

(* The throw ends every call; the finally of each takes its array out of   *)
(* seen.                                                                   *)
Throw == got' = Denied /\ frames' = <<>> /\ seen' = {}

(* #arrayOopToValues up to its first await: too deep, or on the way here   *)
(* already, is refused.                                                    *)
Enter(array) ==
  IF Len(frames) + 1 > bounds.maxDepth \/ array \in seen THEN Throw
  ELSE frames' = Append(frames, Call(array)) /\ seen' = seen \cup {array} /\ UNCHANGED got

Top == Last(frames)

ReadInit ==
  /\ heap \in Heaps /\ root \in Arrays /\ bounds \in Bounds
  /\ frames = <<Call(root)>> /\ seen = {root}
  /\ totalItems = 0 /\ got = Denied /\ puts = 0 /\ failedCalls = {}

Reading == frames # <<>>

AskSize ==
  LET size == Len(heap[Top.array])
  IN  /\ Reading /\ Top.size = Unknown
      /\ totalItems' = totalItems + size
      /\ IF size > bounds.maxItems \/ totalItems' > bounds.maxTotalItems THEN Throw
         ELSE frames' = [frames EXCEPT ![Len(frames)].size = size] /\ UNCHANGED <<seen, got>>
      /\ UNCHANGED <<heap, root, bounds, puts, failedCalls>>

(* An item, and whether it is an array, whose class never changes; what is *)
(* taken for none is answered by marshalOop, an array as its OOP.          *)
ReadItem ==
  /\ Reading /\ Top.size # Unknown /\ Len(Top.values) < Top.size
  /\ LET item == heap[Top.array][Len(Top.values) + 1]
     IN  \E fails \in BOOLEAN :
           /\ fails => "lookup" \in ReadFaults
           /\ IF IsArrayOop(item, fails) THEN Enter(item)
              ELSE /\ frames' = [frames EXCEPT ![Len(frames)].values = Append(@, item)]
                   /\ UNCHANGED <<seen, got>>
           /\ failedCalls' = IF fails /\ IsArray(item) THEN failedCalls \cup {"lookup"} ELSE failedCalls
  /\ UNCHANGED <<heap, root, bounds, totalItems, puts>>

(* The call for a size, an item or what a scalar holds fails.              *)
ReadThrows ==
  /\ Reading /\ "call" \in ReadFaults
  /\ Throw
  /\ failedCalls' = failedCalls \cup {"call"}
  /\ UNCHANGED <<heap, root, bounds, totalItems, puts>>

(* The call returns what it read, to its caller or in the end.             *)
Return ==
  IF Len(frames) = 1 THEN got' = Top.values /\ frames' = <<>>
  ELSE frames' = [Front(frames) EXCEPT ![Len(frames) - 1].values = Append(@, Top.values)] /\ UNCHANGED got

(* Mutant: an array stays in seen when it has been read.                   *)
Leave_KeepsSeen ==
  /\ Reading /\ Top.size # Unknown /\ Len(Top.values) = Top.size
  /\ Return
  /\ UNCHANGED <<heap, root, bounds, seen, totalItems, puts, failedCalls>>

(* The array is read; its finally takes it out of seen.                    *)
Leave ==
  /\ Reading /\ Top.size # Unknown /\ Len(Top.values) = Top.size
  /\ Return
  /\ seen' = seen \ {Top.array}
  /\ UNCHANGED <<heap, root, bounds, totalItems, puts, failedCalls>>

(* Another flow: arrayAtPut.                                               *)
ArrayAtPut ==
  /\ Reading /\ puts < MaxPuts
  /\ \E array \in Arrays : \E index \in DOMAIN heap[array], item \in Arrays \cup Scalars :
       heap' = [heap EXCEPT ![array][index] = item]
  /\ puts' = puts + 1
  /\ UNCHANGED <<root, bounds, frames, seen, totalItems, got, failedCalls>>

ReadStep == AskSize \/ ReadItem \/ ReadThrows \/ Leave
ReadNext == ReadStep \/ ArrayAtPut

ReadSpec == ReadInit /\ [][ReadNext]_readVars

-----------------------------------------------------------------------------
(* Properties                                                              *)

(* Where an item is: the way to it from the outermost array, by an array   *)
(* and a position each.  An item of an array that is shared, or holds      *)
(* itself, is at several places.                                           *)
Cells == UNION {{[array |-> a, index |-> i] : i \in DOMAIN heap[a]} : a \in Arrays}
Item(at)  == heap[at.array][at.index]
Places    ==
  {p \in UNION {[1..n -> Cells] : n \in 1..bounds.maxDepth} :
     p[1].array = root /\ \A k \in 1..Len(p) - 1 : Item(p[k]) = p[k + 1].array}

(* The nested values of arrays, this many arrays deep.                     *)
NestedValues[depth \in 0..bounds.maxDepth] ==
  [a \in Arrays |->
     IF depth = 0 THEN <<>>
     ELSE [i \in DOMAIN heap[a] |-> IF IsArray(heap[a][i]) THEN NestedValues[depth - 1][heap[a][i]] ELSE heap[a][i]]]

(* An array that holds itself is deeper than any bound.                    *)
TooMuch ==
  \/ \E p \in Places : Len(p) = bounds.maxDepth /\ IsArray(Item(Last(p)))
  \/ \E p \in Places : Last(p).index > bounds.maxItems
  \/ Cardinality(Places) > bounds.maxTotalItems

(* Nobody else put items meanwhile, and no call failed.                    *)
Unhindered == puts = 0 /\ failedCalls = {}

(* What an item is answered as even when the class of an array could not   *)
(* be had: itself, or, of an array, as many values as it has items.        *)
StandsFor(v, item) ==
  \/ v = item
  \/ IsArray(item) /\ Len(v) = Len(heap[item])

HoldsFor(values, array) ==
  Len(values) <= Len(heap[array]) /\ \A i \in DOMAIN values : StandsFor(values[i], heap[array][i])

(* When nobody else puts items meanwhile and no call fails, an array is    *)
(* read back as what it holds, arrays that several arrays share included,  *)
(* and it is refused exactly when it holds itself or exceeds a bound.  A   *)
(* call that fails refuses it, except that an inner array whose class      *)
(* cannot be had is answered as its OOP: even then each item of each array *)
(* is in its place.  Whatever others put and whatever fails, no array is   *)
(* entered inside itself, so the reading never goes deeper than there are  *)
(* arrays, nor than maxDepth.                                              *)
ReadsBackWhatIsThere ==
  /\ ~Reading /\ Unhindered => got = IF TooMuch THEN Denied ELSE NestedValues[bounds.maxDepth][root]
  /\ ~Reading /\ "call" \in failedCalls => got = Denied
  /\ puts = 0 =>
       /\ \A k \in DOMAIN frames : HoldsFor(frames[k].values, frames[k].array)
       /\ ~Reading /\ got # Denied => Len(got) = Len(heap[root]) /\ HoldsFor(got, root)
  /\ Reading => /\ \A i, j \in DOMAIN frames : i # j => frames[i].array # frames[j].array
                /\ Len(frames) <= bounds.maxDepth
=============================================================================
