--------------------------- MODULE OrderedAccess ---------------------------
(***************************************************************************)
(* Operations on ordered collections in the Stone: OrderedCollection       *)
(* (src/ordered-collection.ts), RcQueue (src/reduced-conflict.ts) and the  *)
(* arrays of a Session (src/client.ts).  Most of them ask for the size     *)
(* first and act on the answer in later calls, with another flow of the    *)
(* session in between.  Indexes count from 0 in an OrderedCollection and   *)
(* from 1 elsewhere, as in the code.                                       *)
(***************************************************************************)
EXTENDS Integers, Sequences, FiniteSets, SequencesExt

CONSTANTS
  Users,          \* flows, with one operation each
  MayUse,         \* the operations of each
  Positions,      \* the indexes an operation is given
  MaxItems,       \* of arrayOopToOops
  Items,
  Starts,         \* the elements there are at first
  Brings,         \* what each flow adds
  OrderedFaults,  \* "call": a native call may fail
  Null            \* null, and nil in the Stone

(* The items are told apart, wherever they come from.                      *)
ASSUME OrderedAssumption ==
  /\ MaxItems \in Nat /\ Positions \subseteq Int /\ Null \notin Items \cup Users
  /\ \A s \in Starts : s \in Seq(Items) /\ IsInjective(s)
  /\ \A u \in Users :
       /\ Brings[u] \in Seq(Items) /\ Brings[u] # <<>> /\ IsInjective(Brings[u])
       /\ \A s \in Starts : Range(Brings[u]) \cap Range(s) = {}
       /\ \A w \in Users : u # w => Range(Brings[u]) \cap Range(Brings[w]) = {}

VARIABLES
  kind,           \* "ordered", "queue" or "array"
  elements,       \* in the view of the session
  work            \* the operation of each flow

orderedVars == <<kind, elements, work>>

-----------------------------------------------------------------------------
(* Operations                                                              *)

OrderedCalls == {"at", "first", "last", "pop", "shift", "remove", "values", "reverse", "append", "extend", "clear"}
QueueCalls   == {"at", "first", "shift", "values", "extend", "clear"}
ArrayCalls   == {"first", "last", "page", "pick", "setAll", "values"}
Usable       == [ordered |-> OrderedCalls, queue |-> QueueCalls, array |-> ArrayCalls]

To(do, at)   == <<[do |-> do, at |-> at]>>
All(do, ats) == [i \in DOMAIN ats |-> [do |-> do, at |-> ats[i]]]

(* The first calls of an operation.  An RcQueue is asked directly, and     *)
(* extended by a call for each value.                                      *)
First(call, at, given) ==
  CASE call \in {"first", "last", "pop", "shift"} ->
         IF kind = "queue" THEN To(IF call = "first" THEN "peek" ELSE "take", call) ELSE To("isEmpty", call)
    [] call = "at"     -> IF kind = "ordered" THEN To("locate", at) ELSE To("at", at)
    [] call = "remove" -> To("includes", at)
    [] call \in {"values", "reverse", "page"} -> To("size", at)
    [] call = "pick"   -> All("at", <<at, 1>>)
    [] call = "setAll" -> All("put", <<at, 1>>)
    [] call = "append" -> To("add", <<given[1]>>)
    [] call = "extend" -> IF kind = "queue" THEN All("add", [i \in DOMAIN given |-> <<given[i]>>])
                          ELSE To("add", given)
    [] call = "clear"  -> To("clear", 0)

Upto(n) == [i \in 1..n |-> i]

(* What is asked for once the size is known: every element; those of the   *)
(* page of two that begins at the index given.  OrderedCollection's        *)
(* iterators ask at() for each, which asks for the size again.             *)
Indexes(o, n) ==
  CASE o.call = "values"  -> Upto(n)
    [] o.call = "reverse" -> Reverse(Upto(n))
    [] o.call = "page"    -> SubSeq(Upto(n), o.at, IF o.at + 1 < n THEN o.at + 1 ELSE n)

AfterSize(o, n) ==
  LET is == Indexes(o, n)
  IN  IF kind = "ordered" THEN All("locate", [i \in DOMAIN is |-> is[i] - 1]) ELSE All("at", is)

(* What is asked for once the collection is known not to be empty.         *)
AfterCheck(o, n) ==
  IF o.call \in {"pop", "shift"} THEN To("take", o.call)
  ELSE IF kind = "array" THEN To("at", IF o.call = "first" THEN 1 ELSE n)
  ELSE To("peek", o.call)

OrderedInit ==
  /\ kind \in DOMAIN Usable
  /\ elements \in Starts
  /\ work = [u \in Users |-> [call |-> "none", outcome |-> "idle"]]

(* began, alone, hurt and left are history: the elements at the beginning, *)
(* whether another flow changed any, whether a call failed, and the        *)
(* elements at the end.                                                    *)
Use(u) ==
  /\ work[u].outcome = "idle"
  /\ \E call \in MayUse[u] \cap Usable[kind] :
     \E at \in IF call \in {"at", "page", "pick", "setAll"} THEN Positions ELSE {1} :
       /\ kind # "ordered" => at >= 1      \* validateArrayIndex, toPositiveSafeInteger
       /\ work' = [work EXCEPT ![u] =
            [call |-> call, outcome |-> "running", at |-> at, given |-> Brings[u],
             todo |-> First(call, at, Brings[u]), answer |-> <<>>,
             began |-> elements, alone |-> TRUE, hurt |-> FALSE, left |-> <<>>]]
  /\ UNCHANGED <<kind, elements>>

-----------------------------------------------------------------------------
(* Native calls                                                            *)

(* The flow goes on with o; others see that the elements changed.          *)
Continue(u, o) ==
  work' = [w \in Users |->
    IF w = u THEN IF o.outcome = "running" /\ o.todo # <<>> THEN o
                  ELSE [o EXCEPT !.outcome = IF @ = "running" THEN "done" ELSE @, !.todo = <<>>, !.left = elements']
    ELSE IF elements' = elements \/ work[w].outcome # "running" THEN work[w]
    ELSE [work[w] EXCEPT !.alone = FALSE]]

At(u, do) == work[u].outcome = "running" /\ Head(work[u].todo).do = do

Then(o, steps)  == [o EXCEPT !.todo = steps \o Tail(@)]
Gives(o, value) == [o EXCEPT !.todo = Tail(@), !.answer = Append(@, value)]
Errs(o)         == [o EXCEPT !.outcome = "thrown"]

Size(u) ==
  /\ At(u, "size")
  /\ UNCHANGED <<kind, elements>>
  /\ IF kind = "array" /\ work[u].call = "values" /\ Len(elements) > MaxItems
     THEN Continue(u, [work[u] EXCEPT !.outcome = "thrown"])
     ELSE Continue(u, Then(work[u], AfterSize(work[u], Len(elements))))

(* isEmpty() is size() = 0; of an empty collection the answer is null.     *)
IsEmpty(u) ==
  /\ At(u, "isEmpty")
  /\ UNCHANGED <<kind, elements>>
  /\ IF elements = <<>> THEN Continue(u, Gives(work[u], Null))
     ELSE Continue(u, Then(work[u], AfterCheck(work[u], Len(elements))))

(* at(): a negative index counts from the end, one outside answers null.   *)
Locate(u) ==
  LET asked == Head(work[u].todo).at
      index == IF asked < 0 THEN Len(elements) + asked ELSE asked
  IN  /\ At(u, "locate")
      /\ UNCHANGED <<kind, elements>>
      /\ Continue(u, IF index \in 0..Len(elements) - 1 THEN Then(work[u], To("at", index + 1))
                     ELSE Gives(work[u], Null))

ReadAt(u) ==
  LET index == Head(work[u].todo).at
  IN  /\ At(u, "at")
      /\ UNCHANGED <<kind, elements>>
      /\ Continue(u, IF index \in DOMAIN elements THEN Gives(work[u], elements[index]) ELSE Errs(work[u]))

(* Only an RcQueue answers nil for an end it does not have.                *)
NoEnd(u) == Continue(u, IF kind = "queue" THEN Gives(work[u], Null) ELSE Errs(work[u]))

EndIndex(call) == IF call \in {"last", "pop"} THEN Len(elements) ELSE 1

Peek(u) ==
  /\ At(u, "peek")
  /\ UNCHANGED <<kind, elements>>
  /\ IF elements = <<>> THEN NoEnd(u) ELSE Continue(u, Gives(work[u], elements[EndIndex(work[u].call)]))

(* removeFirst, removeLast, and remove of an RcQueue.                      *)
Take(u) ==
  LET end == EndIndex(work[u].call)
  IN  /\ At(u, "take")
      /\ elements' = IF elements = <<>> THEN elements ELSE RemoveAt(elements, end)
      /\ IF elements = <<>> THEN NoEnd(u) ELSE Continue(u, Gives(work[u], elements[end]))
      /\ UNCHANGED kind

(* remove(): asks whether the first element of the case is there, ...      *)
Asked(u) == work[u].began[1]

IncludesElement(u) ==
  /\ At(u, "includes")
  /\ UNCHANGED <<kind, elements>>
  /\ IF work[u].began # <<>> /\ Asked(u) \in Range(elements) THEN Continue(u, Then(work[u], To("remove", 0)))
     ELSE Continue(u, Gives(work[u], FALSE))

(* ... then removes it, an error when it has gone meanwhile.               *)
RemoveElement(u) ==
  /\ At(u, "remove")
  /\ \/ \E i \in DOMAIN elements :
          /\ elements[i] = Asked(u) /\ \A j \in 1..i - 1 : elements[j] # Asked(u)
          /\ elements' = RemoveAt(elements, i)
          /\ Continue(u, Gives(work[u], TRUE))
     \/ Asked(u) \notin Range(elements) /\ UNCHANGED elements /\ Continue(u, Errs(work[u]))
  /\ UNCHANGED kind

Add(u) ==
  /\ At(u, "add")
  /\ elements' = elements \o Head(work[u].todo).at
  /\ Continue(u, Then(work[u], <<>>))
  /\ UNCHANGED kind

PutAt(u) ==
  LET index == Head(work[u].todo).at
  IN  /\ At(u, "put")
      /\ elements' = IF index \in DOMAIN elements THEN [elements EXCEPT ![index] = u] ELSE elements
      /\ Continue(u, IF index \in DOMAIN elements THEN Then(work[u], <<>>) ELSE Errs(work[u]))
      /\ UNCHANGED kind

Clear(u) ==
  /\ At(u, "clear")
  /\ elements' = <<>>
  /\ Continue(u, Then(work[u], <<>>))
  /\ UNCHANGED kind

UseFails(u) ==
  /\ "call" \in OrderedFaults
  /\ work[u].outcome = "running"
  /\ UNCHANGED <<kind, elements>>
  /\ Continue(u, [Errs(work[u]) EXCEPT !.hurt = TRUE])

OrderedNext ==
  \E u \in Users :
    \/ Use(u) \/ Size(u) \/ IsEmpty(u) \/ Locate(u) \/ ReadAt(u) \/ Peek(u) \/ Take(u)
    \/ IncludesElement(u) \/ RemoveElement(u) \/ Add(u) \/ PutAt(u) \/ Clear(u) \/ UseFails(u)

OrderedSpec == OrderedInit /\ [][OrderedNext]_orderedVars

-----------------------------------------------------------------------------
(* Properties                                                              *)

(* What an operation would answer, and leave, if it were one step.         *)
Ends(b, call) == IF b = <<>> THEN <<Null>> ELSE <<IF call \in {"last", "pop"} THEN b[Len(b)] ELSE b[1]>>

AnswerAtOnce(o) ==
  LET b == o.began  n == Len(o.began)  at == IF o.at < 0 THEN n + o.at ELSE o.at
  IN  CASE o.call \in {"first", "last", "pop", "shift"} -> Ends(b, o.call)
        [] o.call = "at"      -> IF kind # "ordered" THEN <<b[at]>> ELSE IF at \in 0..n - 1 THEN <<b[at + 1]>> ELSE <<Null>>
        [] o.call = "remove"  -> <<b # <<>> >>
        [] o.call = "values"  -> b
        [] o.call = "reverse" -> Reverse(b)
        [] o.call = "page"    -> [i \in {j \in 1..2 : o.at + j - 1 <= n} |-> b[o.at + i - 1]]
        [] o.call = "pick"    -> <<b[o.at], b[1]>>
        [] OTHER              -> <<>>

EffectAtOnce(u, o) ==
  LET b == o.began
  IN  CASE o.call \in {"pop", "shift", "remove"} /\ b # <<>> ->
             RemoveAt(b, IF o.call = "pop" THEN Len(b) ELSE 1)
        [] o.call = "append" -> Append(b, o.given[1])
        [] o.call = "extend" -> b \o o.given
        [] o.call = "clear"  -> <<>>
        [] o.call = "setAll" -> [i \in DOMAIN b |-> IF i \in {1, o.at} THEN u ELSE b[i]]
        [] OTHER             -> b

(* Arrays with more than maxItems elements, and positions that an array or *)
(* an RcQueue does not have, are errors, which change nothing.             *)
RefusedAtOnce(o) ==
  /\ kind # "ordered"
  /\ \/ o.call \in {"at", "pick", "setAll"} /\ o.at > Len(o.began)
     \/ kind = "array" /\ o.call = "values" /\ Len(o.began) > MaxItems

(* An operation during which nobody else changed the collection and no     *)
(* call failed is as good as one step.                                     *)
OrderedAtomic ==
  \A u \in Users :
    LET o == work[u]
    IN  o.outcome \in {"done", "thrown"} /\ o.alone /\ ~o.hurt =>
          IF RefusedAtOnce(o) THEN o.outcome = "thrown" /\ o.left = o.began
          ELSE o.outcome = "done" /\ o.answer = AnswerAtOnce(o) /\ o.left = EffectAtOnce(u, o)

(* Flows that pop or shift a collection at the same time never get the     *)
(* same element, and none that is still there: the check for emptiness and *)
(* the removal are two calls, but the removal answers what it removed.     *)
TakenOnce ==
  LET took(u) == IF work[u].call \in {"pop", "shift"} /\ work[u].outcome = "done"
                 THEN Range(work[u].answer) \ {Null} ELSE {}
  IN  \A u, w \in Users : took(u) \cap Range(elements) = {} /\ (u # w => took(u) \cap took(w) = {})
=============================================================================
