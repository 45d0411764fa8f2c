---------------------------- MODULE KeyedAccess ----------------------------
(***************************************************************************)
(* Operations on dictionaries in the Stone: GsDict (src/gsdict.ts), the    *)
(* globals of a Session (src/client.ts), PersistentRoot on a dictionary    *)
(* other than UserGlobals (src/persistent-root.ts), and                    *)
(* RcKeyValueDictionary (src/reduced-conflict.ts).  An operation is a      *)
(* sequence of native calls with an await before each, so the operations   *)
(* of two flows of a session interleave, and one may fail half way.        *)
(***************************************************************************)
EXTENDS Naturals, Sequences, FiniteSets, SequencesExt

CONSTANTS
  Flows,          \* flows of the application, with one operation each
  MayCall,        \* the operations of each flow
  Keys,
  KeyLists,       \* the keys an operation is asked for
  Limits,         \* maxEntries
  KeyedFaults,    \* "call", "root": which native calls may fail
  Absent,         \* no entry
  Nil             \* an entry whose value is nil

(* An operation is given each key once, and one at least.                  *)
ASSUME KeyedAssumption ==
  /\ IsFiniteSet(Keys) /\ Limits \subseteq Nat
  /\ \A ks \in KeyLists : ks \in Seq(Keys) /\ ks # <<>> /\ IsInjective(ks)
  /\ Absent # Nil /\ {Absent, Nil} \cap (Flows \cup {"old"}) = {}

Classes == {"dict", "globals", "root", "rc"}
Old     == "old"   \* the value of the entries there are at first

VARIABLES
  class,          \* what kind of dictionary it is
  entries,        \* its entries in the view of the session
  rootOop,        \* PersistentRoot's #rootOop: unasked, found or failed
  op              \* the operation of each flow

keyedVars == <<class, entries, rootOop, op>>

-----------------------------------------------------------------------------
(* Operations                                                              *)

Bounded == {"keys", "entries", "items", "itemsOop"}   \* take maxEntries

Picks    == {"pick", "pickObject", "hasAll"}
Requires == {"requireAll", "requireAllObject"}
Reads    == Picks \cup Requires
Lists    == Bounded \cup {"size"}
Writes   == {"setAll", "removeAll"}

(* What each class offers; one key is a list of one.  In the reduced-      *)
(* conflict dictionary items() is one call for all entries.                *)
DictCalls    == Reads \cup Lists \cup Writes \cup {"clear", "replaceAll"}
GlobalCalls  == Reads \cup Lists \cup Writes
RootCalls    == Reads \cup Lists \cup Writes
RcCalls      == {"pick", "hasAll", "requireAllObject", "keys", "items", "size"} \cup Writes
Offered      == [dict |-> DictCalls, globals |-> GlobalCalls, root |-> RootCalls, rc |-> RcCalls]

Each(do, ks) == [i \in 1..Len(ks) |-> [do |-> do, key |-> ks[i]]]

(* The native calls of an operation, as far as they are known beforehand.  *)
Program(call, ks) ==
  CASE call \in Reads     -> Each("look", ks)
    [] call = "setAll"    -> Each("put", ks)
    [] call = "removeAll" -> Each("includes", ks)
    [] OTHER              -> Each("list", <<Nil>>)

(* Mutant: the new entries are put before the old ones are removed.        *)
AfterList_PutsFirst(o, ks) ==
  CASE o.call \in {"keys", "size"}               -> <<>>
    [] o.call \in {"entries", "items", "itemsOop"} -> IF class = "rc" THEN <<>> ELSE Each("look", ks)
    [] o.call = "clear"                          -> Each("includes", ks)
    [] o.call = "replaceAll"                     -> Each("put", o.given) \o Each("includes", ks)

(* What an operation does for each key it has listed.                      *)
AfterList(o, ks) ==
  CASE o.call \in {"keys", "size"}               -> <<>>
    [] o.call \in {"entries", "items", "itemsOop"} -> IF class = "rc" THEN <<>> ELSE Each("look", ks)
    [] o.call = "clear"                          -> Each("includes", ks)
    [] o.call = "replaceAll"                     -> Each("includes", ks) \o Each("put", o.given)

(* getOop answers null for an entry that is nil, has() is built on it, and *)
(* the reduced-conflict dictionary asks includesKey: instead.              *)
Shown(call, e) ==
  IF call = "hasAll" THEN e # Absent /\ (class = "rc" \/ e # Nil)
  ELSE IF e = Absent THEN Nil ELSE e

Listed == {k \in Keys : entries[k] # Absent}

NoOp == [call |-> "none", outcome |-> "idle"]
Ops  == {f \in Flows : op[f].outcome = "running"}
Ended == {f \in Flows : op[f].outcome \in {"done", "thrown"}}

KeyedInit ==
  /\ class \in Classes
  /\ entries \in [Keys -> {Absent, Nil, Old}]
  /\ rootOop = IF class = "root" THEN "unasked" ELSE "found"
  /\ op = [f \in Flows |-> NoOp]

(* began, seen, alone, hurt, took and left are history: the entries at the *)
(* beginning, all that was there meanwhile, whether another flow changed   *)
(* any, whether a call failed, what it removed, and the entries at the end.*)
Begin(f) ==
  /\ op[f].outcome = "idle"
  /\ \E call \in MayCall[f] \cap Offered[class], ks \in KeyLists, max \in Limits, v \in {f, Nil} :
       op' = [op EXCEPT ![f] =
         [call |-> call, outcome |-> "running", given |-> ks, limit |-> max, value |-> v,
          todo |-> Program(call, ks), answer |-> <<>>, held |-> {},
          began |-> entries, seen |-> [k \in Keys |-> {entries[k]}],
          alone |-> TRUE, hurt |-> FALSE, took |-> {}, left |-> <<>>]]
  /\ UNCHANGED <<class, entries, rootOop>>

-----------------------------------------------------------------------------
(* Native calls                                                            *)

(* The history of an operation that sees the entries change.               *)
Witness(o) ==
  IF o.outcome = "running" /\ entries' # entries
  THEN [o EXCEPT !.seen = [k \in Keys |-> @[k] \cup {entries'[k]}]] ELSE o

Go(f, o) ==
  op' = [g \in Flows |->
    IF g # f THEN IF entries' = entries \/ op[g].outcome = "idle" THEN op[g] ELSE [Witness(op[g]) EXCEPT !.alone = FALSE]
    ELSE IF o.outcome # "running" \/ o.todo = <<>>
         THEN [Witness(o) EXCEPT !.outcome = IF o.outcome = "thrown" THEN "thrown" ELSE "done",
                                 !.todo = <<>>, !.left = entries']
         ELSE Witness(o)]

(* Mutant: only the error is passed on.                                    *)
Thrown_KeepsHandles(o) == [o EXCEPT !.outcome = "thrown"]

(* An error releases the handles of the answer so far.                     *)
Thrown(o) == [o EXCEPT !.outcome = "thrown", !.held = {}]

Running(f, do) ==
  /\ op[f].outcome = "running"
  /\ Head(op[f].todo).do = do
  /\ do \in {"look", "put", "includes"} => rootOop = "found"

Next1(o) == [o EXCEPT !.todo = Tail(@)]

Answering(o, k, a) == [Next1(o) EXCEPT !.answer = [j \in DOMAIN @ \cup {k} |-> IF j = k THEN a ELSE @[j]]]

(* keys() and list(): one evaluation, cut off after maxEntries + 1 names.  *)
List(f) ==
  LET o == op[f]
  IN  /\ Running(f, "list")
      /\ UNCHANGED <<class, entries, rootOop>>
      /\ IF o.call \in Bounded /\ class # "rc" /\ Cardinality(Listed) > o.limit
         THEN Go(f, Thrown(o))
         ELSE Go(f, [o EXCEPT !.todo = AfterList(o, SetToSeq(Listed)),
                              !.answer = CASE o.call = "keys" -> [k \in Listed |-> TRUE]
                                           [] o.call = "size" -> Cardinality(Listed)
                                           [] o.call = "items" /\ class = "rc" -> [k \in Listed |-> entries[k]]
                                           [] OTHER -> <<>>])

(* getOop and what the operation makes of its answer.                      *)
Look(f) ==
  LET o == op[f]  k == Head(o.todo).key  value == Shown(o.call, entries[k])
  IN  /\ Running(f, "look")
      /\ UNCHANGED <<class, entries, rootOop>>
      /\ CASE o.call \in Requires /\ value = Nil -> Go(f, Thrown(o))
           [] o.call = "itemsOop" /\ value = Nil -> Go(f, Next1(o))
           [] o.call \in {"pickObject", "requireAllObject"} /\ value # Nil ->
                Go(f, [Answering(o, k, value) EXCEPT !.held = @ \cup {k}])
           [] OTHER -> Go(f, Answering(o, k, value))

Put(f) ==
  LET o == op[f]
  IN  /\ Running(f, "put")
      /\ entries' = [entries EXCEPT ![Head(o.todo).key] = o.value]
      /\ Go(f, Next1(o))
      /\ UNCHANGED <<class, rootOop>>

(* remove(): first asks whether the key is there ...                       *)
Includes(f) ==
  LET o == op[f]  k == Head(o.todo).key
  IN  /\ Running(f, "includes")
      /\ UNCHANGED <<class, entries, rootOop>>
      /\ IF entries[k] = Absent THEN Go(f, Answering(o, k, FALSE))
         ELSE Go(f, [o EXCEPT !.todo = Each("removeKey", <<k>>) \o Tail(@)])

(* Mutant: no dictionary objects to the removal of what is not there.      *)
RemoveKey_Quietly(f) ==
  LET o == op[f]  k == Head(o.todo).key
  IN  /\ Running(f, "removeKey")
      /\ entries' = [entries EXCEPT ![k] = Absent]
      /\ IF entries[k] # Absent THEN Go(f, [Answering(o, k, TRUE) EXCEPT !.took = @ \cup {k}])
         ELSE Go(f, Answering(o, k, TRUE))
      /\ UNCHANGED <<class, rootOop>>

(* ... then removes it, which is an error when it has gone meanwhile, but  *)
(* not for the reduced-conflict dictionary (removeKey:ifAbsent:).          *)
RemoveKey(f) ==
  LET o == op[f]  k == Head(o.todo).key
  IN  /\ Running(f, "removeKey")
      /\ entries' = [entries EXCEPT ![k] = Absent]
      /\ IF entries[k] # Absent THEN Go(f, [Answering(o, k, TRUE) EXCEPT !.took = @ \cup {k}])
         ELSE IF class = "rc" THEN Go(f, Answering(o, k, TRUE))
         ELSE Go(f, Thrown(o))
      /\ UNCHANGED <<class, rootOop>>

CallFails(f) ==
  /\ "call" \in KeyedFaults
  /\ op[f].outcome = "running"
  /\ UNCHANGED <<class, entries, rootOop>>
  /\ Go(f, [Thrown(op[f]) EXCEPT !.hurt = TRUE])

(* The first call that needs the root object resolves its name; the        *)
(* promise is kept, whatever comes of it.                                  *)
NeedsRoot(f) ==
  /\ op[f].outcome = "running"
  /\ Head(op[f].todo).do \in {"look", "put", "includes"}

Root(f) ==
  /\ NeedsRoot(f)
  /\ UNCHANGED <<class, entries>>
  /\ \/ rootOop = "unasked" /\ rootOop' = "found" /\ UNCHANGED op
     \/ /\ \/ rootOop = "unasked" /\ "root" \in KeyedFaults
           \/ rootOop = "failed"
        /\ rootOop' = "failed"
        /\ Go(f, [Thrown(op[f]) EXCEPT !.hurt = TRUE])

KeyedStep(f) ==
  \/ Begin(f) \/ List(f) \/ Look(f) \/ Put(f) \/ Includes(f) \/ RemoveKey(f)
  \/ CallFails(f) \/ Root(f)

KeyedNext == \E f \in Flows : KeyedStep(f)

KeyedSpec == KeyedInit /\ [][KeyedNext]_keyedVars

-----------------------------------------------------------------------------
(* Properties                                                              *)

(* What an operation would answer, and leave, if it were one step.         *)
Refuses(o) ==
  \/ /\ o.call \in Requires
     /\ \E k \in Range(o.given) : o.began[k] \in {Absent, Nil}
  \/ /\ o.call \in Bounded /\ class # "rc"
     /\ Cardinality({k \in Keys : o.began[k] # Absent}) > o.limit

AtOnce(o) ==
  LET there == {k \in Keys : o.began[k] # Absent}
  IN  CASE o.call \in Reads -> [k \in Range(o.given) |-> Shown(o.call, o.began[k])]
        [] o.call \in {"entries", "items"} -> [k \in there |-> Shown(o.call, o.began[k])]
        [] o.call = "itemsOop"  -> [k \in {j \in there : o.began[j] # Nil} |-> o.began[k]]
        [] o.call = "keys"      -> [k \in there |-> TRUE]
        [] o.call = "size"      -> Cardinality(there)
        [] o.call = "removeAll" -> [k \in Range(o.given) |-> k \in there]
        [] o.call \in {"clear", "replaceAll"} -> [k \in there |-> TRUE]
        [] OTHER -> <<>>

Effect(o) ==
  [k \in Keys |->
    IF o.call \in {"setAll", "replaceAll"} /\ k \in Range(o.given) THEN o.value
    ELSE IF o.call \in {"clear", "replaceAll"} \/ (o.call = "removeAll" /\ k \in Range(o.given)) THEN Absent
    ELSE o.began[k]]

(* An operation during which nobody else changed the dictionary and no     *)
(* call failed is as good as one step: it answers and leaves what that     *)
(* step would, or refuses and leaves the dictionary alone.                 *)
KeyedAtomic ==
  \A f \in Ended :
    LET o == op[f]
    IN  o.alone /\ ~o.hurt =>
          IF Refuses(o) THEN o.outcome = "thrown" /\ o.left = o.began
          ELSE o.outcome = "done" /\ o.answer = AtOnce(o) /\ o.left = Effect(o)

(* An operation that others overtake answers for each key what was true at *)
(* some moment of it; and it says that it removed an entry only when its   *)
(* own call did, except for the reduced-conflict dictionary.               *)
AnswersWereTrue ==
  \A f \in Flows :
    LET o == op[f]
    IN  o.outcome # "idle" /\ o.call # "size" =>
          \A k \in DOMAIN o.answer :
            CASE o.call \in {"removeAll", "clear", "replaceAll"} ->
                   IF o.answer[k] THEN class = "rc" \/ k \in o.took ELSE Absent \in o.seen[k]
              [] o.call = "keys" -> \E e \in o.seen[k] : e # Absent
              [] OTHER -> \E e \in o.seen[k] : o.answer[k] = Shown(o.call, e)

(* An operation that fails half way leaves no handle behind: those it had  *)
(* made for the first keys are released before it throws, and one that     *)
(* succeeds has handed a handle over for every object it answers.          *)
HandlesComeBack ==
  \A f \in Ended :
    IF op[f].outcome = "thrown" THEN op[f].held = {}
    ELSE op[f].call \in {"pickObject", "requireAllObject"} =>
           op[f].held = {k \in DOMAIN op[f].answer : op[f].answer[k] # Nil}
=============================================================================
