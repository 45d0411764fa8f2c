------------------------- MODULE QueriedCollection -------------------------
(***************************************************************************)
(* GSCollection of src/query.ts: a collection of the Stone that is looked  *)
(* up by its name.  A query is one evaluation; an iteration is one for     *)
(* each chunk, and an operation on many values one call or two for each,   *)
(* so the operations of two flows interleave, and one may fail half way.   *)
(* An ordered collection keeps its order; a set, when an element is added, *)
(* may take any.                                                           *)
(***************************************************************************)
EXTENDS Integers, Sequences, FiniteSets, SequencesExt

CONSTANTS
  Queriers,       \* flows, with one operation each
  Queries,        \* the operations of each flow
  Members,        \* what may be an element
  Collections,    \* the collections there are at first
  ValueLists,     \* the values an operation is given
  Chunks,         \* chunk sizes of iterations
  QueryFaults     \* "call": a native call may fail

ASSUME QueryAssumption ==
  /\ Collections \subseteq Seq(Members) /\ ValueLists \subseteq Seq(Members)
  /\ Chunks \subseteq Nat \ {0}

VARIABLES
  ordered,        \* an OrderedCollection, or a set
  members,        \* the collection as #asArray shows it
  query           \* the operation of each flow

queryVars == <<ordered, members, query>>

Orders(S) == {s \in [1..Cardinality(S) -> S] : IsInjective(s)}
Without(s, v) == IF v \in Range(s) THEN RemoveFirst(s, v) ELSE s
WithoutEach(s, values) == FoldLeft(Without, s, values)

NoQuery == [at |-> "none"]
QueryInit ==
  /\ ordered \in BOOLEAN /\ members \in {s \in Collections : ordered \/ IsInjective(s)}
  /\ query = [q \in Queriers |-> NoQuery]

(* `left' are the values still to be done, `got' the answer so far; the    *)
(* rest is what was there before and after, and whether others changed it. *)
Ask(q, call, values, chunk) ==
  /\ query[q] = NoQuery
  /\ query' = [query EXCEPT ![q] =
       [at |-> IF call = "replaceAll" THEN "clear" ELSE "next", call |-> call, left |-> values, values |-> values,
        chunk |-> chunk, offset |-> 1, got |-> <<>>, outcome |-> "busy",
        old |-> members, after |-> members, grew |-> FALSE, lost |-> FALSE]]
  /\ UNCHANGED <<ordered, members>>

Busy(q) == query[q].at \notin {"none", "end"}

(* The others learn that the collection grew or lost something.            *)
Change(q, next, mine) ==
  /\ members' = next
  /\ query' = [r \in Queriers |->
       IF r = q THEN mine
       ELSE IF ~Busy(r) THEN query[r]
       ELSE [query[r] EXCEPT !.grew = @ \/ Len(next) > Len(members),
                             !.lost = @ \/ Len(next) < Len(members)]]
  /\ UNCHANGED ordered

Same(q, mine) == Change(q, members, mine)
EndQuery(q, outcome) == [query[q] EXCEPT !.at = "end", !.outcome = outcome, !.after = members]

QueryFails(q) == "call" \in QueryFaults /\ Busy(q) /\ Same(q, EndQuery(q, "failed"))

-----------------------------------------------------------------------------
(* Operations on many values                                               *)

NextValue(q)  == [query[q] EXCEPT !.at = "next", !.left = Tail(@)]
Done(q, call) == Busy(q) /\ query[q].at = "next" /\ query[q].call \in call /\ query[q].left = <<>>

AllDone(q) == Done(q, {"addAll", "replaceAll", "removeAll"}) /\ Same(q, EndQuery(q, "ok"))

(* The flow replaces all: what was there goes first.                       *)
ClearAll(q) ==
  /\ Busy(q) /\ query[q].at = "clear"
  /\ Change(q, <<>>, [query[q] EXCEPT !.at = "next"])

Added(v) ==
  CASE ordered -> {Append(members, v)}
    [] ~ordered /\ v \in Range(members) -> {members}
    [] ~ordered /\ v \notin Range(members) -> Orders(Range(members) \cup {v})

AddNext(q) ==
  /\ Busy(q) /\ query[q].call \in {"addAll", "replaceAll"} /\ query[q].at = "next" /\ query[q].left # <<>>
  /\ \E next \in Added(Head(query[q].left)) : Change(q, next, NextValue(q))

(* #removeOop asks whether it is there, and removes it in a second call,   *)
(* which fails when it is gone.  The answer is how many were removed.      *)
RemoveAsks(q) ==
  /\ Busy(q) /\ query[q].call = "removeAll" /\ query[q].at = "next" /\ query[q].left # <<>>
  /\ Same(q, IF Head(query[q].left) \in Range(members) THEN [query[q] EXCEPT !.at = "remove"] ELSE NextValue(q))

RemoveNext(q) ==
  LET v == Head(query[q].left)
  IN  /\ Busy(q) /\ query[q].at = "remove"
      /\ IF v \in Range(members)
           THEN Change(q, Without(members, v), [NextValue(q) EXCEPT !.got = Append(@, v)])
           ELSE Same(q, EndQuery(q, "failed"))

-----------------------------------------------------------------------------
(* Iterations                                                              *)

(* The elements from a position on, at most so many.                       *)
ChunkFrom(s, offset, size) ==
  SubSeq(s, offset, IF offset + size - 1 < Len(s) THEN offset + size - 1 ELSE Len(s))

(* iterOp: a chunk is read at once, and handed out before the next one.    *)
IterNext(q) ==
  LET items == ChunkFrom(members, query[q].offset, query[q].chunk)
  IN  /\ Busy(q) /\ query[q].call = "iter" /\ query[q].at = "next"
      /\ Same(q, IF items = <<>> THEN EndQuery(q, "ok")
                 ELSE [query[q] EXCEPT !.got = @ \o items, !.offset = @ + query[q].chunk])

QueryStep(q) ==
  \/ \E call \in Queries[q] :
       \/ call = "iter" /\ \E n \in Chunks : Ask(q, call, <<>>, n)
       \/ call # "iter" /\ \E values \in ValueLists : Ask(q, call, values, 1)
  \/ QueryFails(q) \/ AllDone(q) \/ ClearAll(q) \/ AddNext(q) \/ RemoveAsks(q) \/ RemoveNext(q) \/ IterNext(q)

QueryNext == \E q \in Queriers : QueryStep(q)

QuerySpec == QueryInit /\ [][QueryNext]_queryVars

-----------------------------------------------------------------------------
(* Queries of one call.  `fit' are the elements for which the predicate of *)
(* a path, operator and value holds.  NilItem is nil as an element, and    *)
(* null as an answer: the code tells them apart nowhere.                   *)

NilItem == "none"

(* What a loop has chosen, and counted, after one element more.            *)
ChooseIf(found, each, fit) == IF each \in fit THEN Append(found, each) ELSE found
CountIf(count, each, fit)  == IF each \in fit THEN count + 1 ELSE count

Search(s, fit) == FoldLeft(LAMBDA found, each : ChooseIf(found, each, fit), <<>>, s)
Count(s, fit)  == FoldLeft(LAMBDA count, each : CountIf(count, each, fit), 0, s)

FirstOf(s, fit) ==
  IF \E i \in DOMAIN s : s[i] \in fit
  THEN s[CHOOSE i \in DOMAIN s : s[i] \in fit /\ \A j \in 1..(i - 1) : s[j] \notin fit] ELSE NilItem

(* exists, any, anyMatch and the negation of none: what is detected is     *)
(* asked whether it is nil.                                                *)
AnyMatch(s, fit) == FirstOf(s, fit) # NilItem

(* Elements are taken while there are fewer than asked for.                *)
TakeIf(found, each, fit, count) == IF Len(found) < count THEN ChooseIf(found, each, fit) ELSE found
Limit(s, fit, count) == FoldLeft(LAMBDA found, each : TakeIf(found, each, fit, count), <<>>, s)

Page(s, start, count) == IF count = 0 \/ Len(s) < start THEN <<>> ELSE ChunkFrom(s, start, count)
ItemAt(s, index)      == IF index > Len(s) THEN NilItem ELSE s[index]
FirstItem(s)          == IF s = <<>> THEN NilItem ELSE s[1]
LastItem(s)           == IF s = <<>> THEN NilItem ELSE s[Len(s)]

(* What is refused before the Stone is asked.                              *)
QueryRefused(call, n) ==
  \/ call \in {"at", "page", "iter"} /\ n < 1
  \/ call = "limit" /\ n < 0

-----------------------------------------------------------------------------
(* What is meant                                                           *)

(* A call that no other changed anything under and that did not fail has   *)
(* the effect and the answer of one step: an iteration hands out all there *)
(* is, values are added in their order, and what is removed was there.     *)
QueriedAtomic ==
  \A q \in Queriers : LET o == query[q] IN
    (o.at = "end" /\ o.outcome = "ok" /\ ~o.grew /\ ~o.lost) =>
      /\ o.call = "iter" => o.got = o.old /\ o.after = o.old
      /\ o.call = "removeAll" => o.after = WithoutEach(o.old, o.values) /\ Len(o.after) + Len(o.got) = Len(o.old)
      /\ o.call \in {"addAll", "replaceAll"} =>
           LET first == IF o.call = "replaceAll" THEN <<>> ELSE o.old
           IN  IF ordered THEN o.after = first \o o.values
               ELSE IsInjective(o.after) /\ Range(o.after) = Range(first) \cup Range(o.values)

(* While an ordered collection only grows, an iteration hands out all that *)
(* was there when it began, once and in order, and then only what came     *)
(* after it.                                                               *)
IterationIsWhole ==
  \A q \in Queriers : LET o == query[q] IN
    (o.at = "end" /\ o.call = "iter" /\ o.outcome = "ok" /\ ordered /\ ~o.lost) =>
      IsPrefix(o.old, o.got) /\ Len(o.got) - Len(o.old) <= Cardinality({i \in DOMAIN o.after : i > Len(o.old)})

(* The pages of a size, one after the other, until there is none.          *)
WithPage(got, s, k, size) == got \o Page(s, (k - 1) * size + 1, size)
Pages(s, size) == FoldLeft(LAMBDA got, k : WithPage(got, s, k, size), <<>>, [k \in 1..(Len(s) + 1) |-> k])

(* The ways to ask for the same agree: what is limited is the beginning of *)
(* what is found, counting tells how much that is, the pages make up the   *)
(* whole, and the ends are its first and last element.  Whether there is   *)
(* one is told as well, unless the first there is is nil: exists() then    *)
(* says no where count() says how many.                                    *)
QueriesAgree(s, fit, n) ==
  LET found == Search(s, fit)
  IN  /\ ~QueryRefused("limit", n) => Limit(s, fit, n) = SubSeq(found, 1, IF n < Len(found) THEN n ELSE Len(found))
      /\ Count(s, fit) = Len(found) /\ (AnyMatch(s, fit) <=> found # <<>> /\ found[1] # NilItem)
      /\ FirstOf(s, fit) = FirstItem(found)
      /\ ~QueryRefused("page", n) => Pages(s, n) = s
      /\ FirstItem(s) = ItemAt(s, 1) /\ (s # <<>> => LastItem(s) = ItemAt(s, Len(s)))

=============================================================================
