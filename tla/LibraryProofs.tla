--------------------------- MODULE LibraryProofs ----------------------------
(***************************************************************************)
(* Proofs about module Library, for any flows, keys, positions, items,     *)
(* files and runs: operations on dictionaries and on collections, the      *)
(* baselines of the benchmarks and the bootstrap.  Each part has an        *)
(* inductive invariant of its own; the last section puts them together.    *)
(* The comparison of two reports is a function: its theorem is of any      *)
(* reports and thresholds.                                                 *)
(***************************************************************************)
EXTENDS Library, TLAPS, FiniteSetTheorems, SequenceTheorems

-----------------------------------------------------------------------------
(* Operations on dictionaries: what an operation has still to do           *)

Dos    == {"list", "look", "put", "includes", "removeKey"}
Steps  == [do : Dos, key : Keys \cup {Nil}]
EntryValues == Flows \cup {Nil, Old, Absent}

Listing == Each("list", <<Nil>>)

(* The keys that are still to be looked at, put or removed.                *)
KeysToDo(todo, dos) == {todo[i].key : i \in {j \in DOMAIN todo : todo[j].do \in dos}}
Looks(todo)   == KeysToDo(todo, {"look"})
Puts(todo)    == KeysToDo(todo, {"put"})
Removes(todo) == KeysToDo(todo, {"includes", "removeKey"})

(* The calls an operation may make.                                        *)
May(call) ==
  IF call \in Reads THEN {"look"}
  ELSE IF call \in {"keys", "size"} THEN {"list"}
  ELSE IF call \in {"entries", "items", "itemsOop"} THEN {"list", "look"}
  ELSE IF call = "setAll" THEN {"put"}
  ELSE IF call = "removeAll" THEN {"includes", "removeKey"}
  ELSE IF call = "clear" THEN {"list", "includes", "removeKey"}
  ELSE {"list", "includes", "removeKey", "put"}

(* Each key is put once and removed once, all are removed before one is    *)
(* put, and only the first call removes.                                   *)
Program1(t) ==
  /\ t \in Seq(Steps)
  /\ t # Listing => \A i \in DOMAIN t : t[i].do # "list" /\ t[i].key \in Keys
  /\ \A i, j \in DOMAIN t : i # j /\ (t[i].do = "put" <=> t[j].do = "put") => t[i].key # t[j].key
  /\ \A i, j \in DOMAIN t : i < j /\ t[i].do = "put" => t[j].do = "put"
  /\ \A i \in DOMAIN t : t[i].do = "removeKey" => i = 1
TodoOK(call, t) == Program1(t) /\ \A i \in DOMAIN t : t[i].do \in May(call)

LEMMA EachIs ==
  ASSUME NEW do \in Dos, NEW ks \in Seq(Keys \cup {Nil})
  PROVE  /\ Each(do, ks) \in Seq(Steps) /\ Len(Each(do, ks)) = Len(ks) /\ DOMAIN Each(do, ks) = 1..Len(ks)
         /\ \A i \in 1..Len(ks) : Each(do, ks)[i].do = do /\ Each(do, ks)[i].key = ks[i]
         /\ \A dos : KeysToDo(Each(do, ks), dos) = IF do \in dos THEN Range(ks) ELSE {}
<1>1. Len(ks) \in Nat /\ \A i \in 1..Len(ks) : [do |-> do, key |-> ks[i]] \in Steps
  BY DEF Steps
<1>2. Each(do, ks) \in [1..Len(ks) -> Steps]
  BY <1>1 DEF Each
<1>3. Each(do, ks) \in Seq(Steps) /\ Len(Each(do, ks)) = Len(ks)
  BY <1>1, <1>2
<1>4. \A i \in 1..Len(ks) : Each(do, ks)[i].do = do /\ Each(do, ks)[i].key = ks[i]
  BY DEF Each
<1>5. DOMAIN Each(do, ks) = 1..Len(ks) /\ DOMAIN ks = 1..Len(ks)
  BY DEF Each
<1>6. Range(ks) = {ks[i] : i \in 1..Len(ks)}
  BY <1>5 DEF Range
<1>7. ASSUME NEW dos PROVE KeysToDo(Each(do, ks), dos) = IF do \in dos THEN Range(ks) ELSE {}
  BY <1>4, <1>5, <1>6 DEF KeysToDo
<1>8. QED
  BY <1>3, <1>4, <1>5, <1>7

LEMMA OneIs ==
  ASSUME NEW do \in Dos, NEW k \in Keys \cup {Nil}
  PROVE  /\ Each(do, <<k>>) \in Seq(Steps) /\ Len(Each(do, <<k>>)) = 1 /\ DOMAIN Each(do, <<k>>) = {1}
         /\ Each(do, <<k>>)[1].do = do /\ Each(do, <<k>>)[1].key = k
<1>1. \A ks \in Seq(Keys \cup {Nil}) : Len(ks) = 1 =>
        /\ Each(do, ks) \in Seq(Steps) /\ Len(Each(do, ks)) = 1 /\ DOMAIN Each(do, ks) = {1}
        /\ Each(do, ks)[1].do = do /\ Each(do, ks)[1].key = ks[1]
  BY EachIs
<1>2. <<k>> \in Seq(Keys \cup {Nil}) /\ Len(<<k>>) = 1 /\ <<k>>[1] = k
  OBVIOUS
<1>3. QED
  BY <1>1, <1>2

LEMMA ListingIs ==
  /\ Program1(Listing) /\ Listing # <<>> /\ Len(Listing) = 1 /\ Head(Listing).do = "list"
  /\ Listing[1].do = "list"
  /\ Looks(Listing) = {} /\ Puts(Listing) = {} /\ Removes(Listing) = {}
<1>1. "list" \in Dos
  BY DEF Dos
<1>2. /\ Listing \in Seq(Steps) /\ Len(Listing) = 1 /\ DOMAIN Listing = {1} /\ Listing[1].do = "list"
  BY <1>1, OneIs DEF Listing
<1>3. Listing # <<>> /\ Head(Listing) = Listing[1] 
  BY <1>2
<1>4. Program1(Listing)
  BY <1>2 DEF Program1
<1>5. \A dos : "list" \notin dos => KeysToDo(Listing, dos) = {}
  BY <1>2 DEF KeysToDo
<1>6. QED
  BY <1>2, <1>3, <1>4, <1>5 DEF Looks, Puts, Removes

LEMMA EachOK ==
  ASSUME NEW do \in {"look", "put", "includes"}, NEW ks \in Seq(Keys), IsInjective(ks)
  PROVE  /\ Program1(Each(do, ks)) /\ Each(do, ks) # Listing
         /\ \A i \in DOMAIN Each(do, ks) : Each(do, ks)[i].do = do
         /\ Looks(Each(do, ks)) = (IF do = "look" THEN Range(ks) ELSE {})
         /\ Puts(Each(do, ks)) = (IF do = "put" THEN Range(ks) ELSE {})
         /\ Removes(Each(do, ks)) = (IF do = "includes" THEN Range(ks) ELSE {})
         /\ Range(ks) \subseteq Keys
<1>1. do \in Dos /\ ks \in Seq(Keys \cup {Nil})
  BY DEF Dos
<1>2. \A i, j \in 1..Len(ks) : i # j => ks[i] # ks[j]
  BY DEF IsInjective
<1>3. \A i \in 1..Len(ks) : ks[i] \in Keys
  OBVIOUS
<1> DEFINE t == Each(do, ks)
<1>4. /\ t \in Seq(Steps) /\ Len(t) = Len(ks) /\ DOMAIN t = 1..Len(ks)
      /\ \A i \in 1..Len(ks) : t[i].do = do /\ t[i].key = ks[i]
      /\ \A dos : KeysToDo(t, dos) = IF do \in dos THEN Range(ks) ELSE {}
  BY <1>1, EachIs
<1> HIDE DEF t
<1>5. t # Listing
  BY <1>4, ListingIs
<1>6. Program1(t)
  BY <1>2, <1>3, <1>4 DEF Program1
<1>7. Range(ks) \subseteq Keys
  BY RangeOfSeq DEF Range
<1>8. QED
  BY <1>4, <1>5, <1>6, <1>7 DEF t, Looks, Puts, Removes

(* What is left after the first call.                                      *)
LEMMA TailOK ==
  ASSUME NEW t, Program1(t), t # <<>>, t # Listing
  PROVE  /\ Program1(Tail(t)) /\ Tail(t) # Listing
         /\ \A i \in DOMAIN Tail(t) : i + 1 \in DOMAIN t /\ Tail(t)[i] = t[i + 1]
         /\ Head(t) = t[1] /\ 1 \in DOMAIN t /\ Head(t) \in Steps /\ Head(t).key \in Keys
         /\ Looks(Tail(t)) = (IF Head(t).do = "look" THEN Looks(t) \ {Head(t).key} ELSE Looks(t))
         /\ Puts(Tail(t)) = (IF Head(t).do = "put" THEN Puts(t) \ {Head(t).key} ELSE Puts(t))
         /\ Removes(Tail(t)) = (IF Head(t).do \in {"includes", "removeKey"} THEN Removes(t) \ {Head(t).key} ELSE Removes(t))
<1> DEFINE s == Tail(t)
<1>1. /\ t \in Seq(Steps) /\ s \in Seq(Steps) /\ Len(t) \in Nat \ {0} /\ Len(s) = Len(t) - 1
      /\ DOMAIN t = 1..Len(t) /\ DOMAIN s = 1..Len(s) /\ Head(t) = t[1]
      /\ \A i \in 1..Len(s) : s[i] = t[i + 1]
  BY HeadTailProperties, LenProperties DEF Program1
<1>2. \A i \in DOMAIN s : i + 1 \in DOMAIN t /\ s[i] = t[i + 1]
  BY <1>1
<1>3. \A i \in DOMAIN t : t[i].do # "list" /\ t[i].key \in Keys /\ t[i] \in Steps
  BY <1>1 DEF Program1
<1>4. Head(t) \in Steps /\ Head(t).key \in Keys /\ 1 \in DOMAIN t
  BY <1>1, <1>3
<1> HIDE DEF s
<1>5. s # Listing
  BY <1>1, <1>2, <1>3, ListingIs
<1>6. Program1(s)
  <2>1. \A i \in DOMAIN s : s[i].do # "list" /\ s[i].key \in Keys
    BY <1>2, <1>3
  <2>2. \A i, j \in DOMAIN s : i # j /\ (s[i].do = "put" <=> s[j].do = "put") => s[i].key # s[j].key
    BY <1>1, <1>2 DEF Program1
  <2>3. \A i, j \in DOMAIN s : i < j /\ s[i].do = "put" => s[j].do = "put"
    BY <1>1, <1>2 DEF Program1
  <2>4. \A i \in DOMAIN s : s[i].do = "removeKey" => i = 1
    BY <1>1, <1>2 DEF Program1
  <2>5. QED
    BY <1>1, <2>1, <2>2, <2>3, <2>4 DEF Program1
<1>7. ASSUME NEW dos \in {{"look"}, {"put"}, {"includes", "removeKey"}}
      PROVE  KeysToDo(s, dos) = IF Head(t).do \in dos THEN KeysToDo(t, dos) \ {Head(t).key} ELSE KeysToDo(t, dos)
  <2>1. ASSUME NEW k \in KeysToDo(s, dos)
        PROVE  k \in KeysToDo(t, dos) /\ (Head(t).do \in dos => k # Head(t).key)
    <3>1. PICK i \in DOMAIN s : s[i].do \in dos /\ k = s[i].key
      BY DEF KeysToDo
    <3>2. t[i + 1].do \in dos /\ k = t[i + 1].key /\ i + 1 \in DOMAIN t /\ i + 1 # 1
      BY <1>1, <1>2, <3>1
    <3>3. k \in KeysToDo(t, dos)
      BY <3>2 DEF KeysToDo
    <3>4. t[1].do \in dos => (t[1].do = "put" <=> t[i + 1].do = "put")
      BY <3>2
    <3>5. QED
      BY <1>1, <3>2, <3>3, <3>4 DEF Program1
  <2>2. ASSUME NEW k \in KeysToDo(t, dos), Head(t).do \in dos => k # Head(t).key
        PROVE  k \in KeysToDo(s, dos)
    <3>1. PICK i \in DOMAIN t : t[i].do \in dos /\ k = t[i].key
      BY DEF KeysToDo
    <3>2. i # 1
      BY <1>1, <2>2, <3>1
    <3>3. i - 1 \in DOMAIN s /\ s[i - 1] = t[i]
      BY <1>1, <3>1, <3>2
    <3>4. QED
      BY <3>1, <3>3 DEF KeysToDo
  <2>3. QED
    BY <2>1, <2>2
<1>8. QED
  BY <1>1, <1>2, <1>4, <1>5, <1>6, <1>7 DEF s, Looks, Puts, Removes

LEMMA HeadIs ==
  ASSUME NEW t, Program1(t), t # <<>>, t # Listing
  PROVE  /\ Head(t).do = "look" => Head(t).key \in Looks(t)
         /\ Head(t).do = "put" => Head(t).key \in Puts(t) /\ Removes(t) = {}
         /\ Head(t).do \in {"includes", "removeKey"} => Head(t).key \in Removes(t)
<1>1. 1 \in DOMAIN t /\ Head(t) = t[1] /\ DOMAIN t = 1..Len(t) /\ Len(t) \in Nat
  BY TailOK, LenProperties DEF Program1
<1>2. ASSUME Head(t).do = "put" PROVE \A i \in DOMAIN t : t[i].do = "put"
  BY <1>1, <1>2 DEF Program1
<1>3. QED
  BY <1>1, <1>2 DEF Looks, Puts, Removes, KeysToDo

LEMMA NothingTodo ==
  /\ Program1(<<>>) /\ <<>> # Listing /\ Looks(<<>>) = {} /\ Puts(<<>>) = {} /\ Removes(<<>>) = {}
<1>1. <<>> \in Seq(Steps) /\ DOMAIN <<>> = {}
  OBVIOUS
<1>2. QED
  BY <1>1, ListingIs DEF Program1, Looks, Puts, Removes, KeysToDo

(* remove() puts the removal in the place of the question.                 *)
LEMMA AskedFor ==
  ASSUME NEW t, Program1(t), t # <<>>, t # Listing, Head(t).do = "includes"
  PROVE  LET s == Each("removeKey", <<Head(t).key>>) \o Tail(t)
         IN  /\ Program1(s) /\ s # Listing /\ s # <<>>
             /\ Looks(s) = Looks(t) /\ Puts(s) = Puts(t) /\ Removes(s) = Removes(t)
             /\ \A i \in DOMAIN s : s[i].do = "removeKey" \/ (i \in DOMAIN t /\ s[i].do = t[i].do)
             /\ Head(s).do = "removeKey" /\ Head(s).key = Head(t).key
<1> DEFINE e == Each("removeKey", <<Head(t).key>>)
           s == e \o Tail(t)
<1>1. /\ t \in Seq(Steps) /\ Tail(t) \in Seq(Steps) /\ Len(t) \in Nat \ {0} /\ Len(Tail(t)) = Len(t) - 1
      /\ DOMAIN t = 1..Len(t) /\ Head(t) = t[1] /\ t[1].key \in Keys
      /\ \A i \in 1..Len(Tail(t)) : Tail(t)[i] = t[i + 1]
  BY HeadTailProperties, LenProperties, TailOK DEF Program1
<1>3. e \in Seq(Steps) /\ Len(e) = 1 /\ e[1].do = "removeKey" /\ e[1].key = t[1].key
  BY <1>1, OneIs DEF Dos
<1> HIDE DEF e
<1>4. /\ s \in Seq(Steps) /\ Len(s) = Len(t) /\ DOMAIN s = DOMAIN t
      /\ s[1].do = "removeKey" /\ s[1].key = t[1].key
      /\ \A i \in 2..Len(t) : s[i] = t[i]
  <2>1. /\ s \in Seq(Steps) /\ Len(s) = Len(e) + Len(Tail(t))
        /\ \A i \in 1..(Len(e) + Len(Tail(t))) : s[i] = IF i <= Len(e) THEN e[i] ELSE Tail(t)[i - Len(e)]
    BY <1>1, <1>3, ConcatProperties
  <2> HIDE DEF s
  <2>2. Len(s) = Len(t) /\ DOMAIN s = DOMAIN t
    BY <1>1, <1>3, <2>1, LenProperties
  <2>3. s[1] = e[1]
    BY <1>1, <1>3, <2>1
  <2>4. ASSUME NEW i \in 2..Len(t) PROVE s[i] = t[i]
    BY <1>1, <1>3, <2>1
  <2>5. QED
    BY <1>3, <2>1, <2>2, <2>3, <2>4
<1> HIDE DEF s
<1>5. \A i \in DOMAIN t : s[i].key = t[i].key /\ (s[i].do = t[i].do \/ (i = 1 /\ s[i].do = "removeKey" /\ t[i].do = "includes"))
  BY <1>1, <1>4
<1>6. s # Listing /\ s # <<>> /\ Head(s) = s[1]
  BY <1>1, <1>4, ListingIs
<1>7. \A i \in DOMAIN t : t[i].do = "removeKey" => i = 1
  BY DEF Program1
<1>8. Program1(s)
  BY <1>1, <1>4, <1>5, <1>6, <1>7 DEF Program1
<1>9. Looks(s) = Looks(t) /\ Puts(s) = Puts(t) /\ Removes(s) = Removes(t)
  BY <1>4, <1>5 DEF Looks, Puts, Removes, KeysToDo
<1>10. QED
  BY <1>1, <1>4, <1>5, <1>6, <1>8, <1>9 DEF s, e

-----------------------------------------------------------------------------
(* What an operation has done                                              *)

KeysThere(o)   == {k \in Keys : o.began[k] # Absent}
KeysAsked(o)   == IF o.call \in Reads THEN Range(o.given) ELSE KeysThere(o)
KeysPut(o) == IF o.call \in {"setAll", "replaceAll"} THEN Range(o.given) ELSE {}
Cleared(o) ==
  IF o.call = "removeAll" THEN Range(o.given) ELSE IF o.call \in {"clear", "replaceAll"} THEN KeysThere(o) ELSE {}

(* The fields but the answer and the entries at the end.                   *)
OpStates(answer, left) ==
  [call : DictCalls, outcome : {"running", "done", "thrown"}, given : KeyLists, limit : Limits,
   value : Flows \cup {Nil}, todo : Seq(Steps), answer : {answer}, held : SUBSET Keys,
   began : [Keys -> EntryValues], seen : [Keys -> SUBSET EntryValues],
   alone : BOOLEAN, hurt : BOOLEAN, took : SUBSET Keys, left : {left}]
Typed(o) == o \in OpStates(o.answer, o.left) /\ o.call \in Offered[class]

(* An answer was true at a moment, or tells what the operation has done.   *)
Told(o, k) ==
  IF o.call \in {"removeAll", "clear", "replaceAll"}
  THEN IF o.answer[k] THEN class = "rc" \/ k \in o.took ELSE Absent \in o.seen[k]
  ELSE IF o.call = "keys" THEN \E e \in o.seen[k] : e # Absent
  ELSE \E e \in o.seen[k] : o.answer[k] = Shown(o.call, e)
Truthful(o) == o.call # "size" => \A k \in DOMAIN o.answer : k \in Keys /\ Told(o, k)

(* There is a handle for each object of the answer, and for none besides.  *)
Handles(o) ==
  IF o.outcome = "thrown" THEN o.held = {}
  ELSE o.call \in {"pickObject", "requireAllObject"} =>
         /\ o.held = {k \in DOMAIN o.answer : o.answer[k] # Nil}
         /\ Looks(o.todo) \cap DOMAIN o.answer = {}

(* The answer as far as looks and removals are done.                       *)
AnswerYet(o, looks, removes) ==
  IF o.call \in Reads \cup {"entries", "items"} THEN [k \in KeysAsked(o) \ looks |-> Shown(o.call, o.began[k])]
  ELSE IF o.call = "itemsOop" THEN [k \in {j \in KeysThere(o) \ looks : o.began[j] # Nil} |-> o.began[k]]
  ELSE IF o.call = "keys" THEN [k \in KeysThere(o) |-> TRUE]
  ELSE IF o.call = "size" THEN Cardinality(KeysThere(o))
  ELSE IF o.call \in {"removeAll", "clear", "replaceAll"} THEN [k \in Cleared(o) \ removes |-> k \in KeysThere(o)]
  ELSE <<>>

EffectYet(o, putYet, removes) ==
  [k \in Keys |-> IF k \in KeysPut(o) \ putYet THEN o.value
                  ELSE IF k \in Cleared(o) \ removes THEN Absent ELSE o.began[k]]

(* Where an operation stands that nobody disturbed.                        *)
Progress(o, now) ==
  IF o.todo = Listing THEN now = o.began /\ o.answer = <<>>
  ELSE /\ o.call \in Bounded /\ class # "rc" => Cardinality(KeysThere(o)) <= o.limit
       /\ o.call \in Requires => \A k \in KeysAsked(o) \ Looks(o.todo) : o.began[k] \notin {Absent, Nil}
       /\ Looks(o.todo) \subseteq KeysAsked(o) /\ Puts(o.todo) \subseteq KeysPut(o) /\ Removes(o.todo) \subseteq Cleared(o)
       /\ Removes(o.todo) # {} => Puts(o.todo) = KeysPut(o)
       /\ \A i \in DOMAIN o.todo : o.todo[i].do = "removeKey" => now[o.todo[i].key] # Absent
       /\ o.answer = AnswerYet(o, Looks(o.todo), Removes(o.todo))
       /\ now = EffectYet(o, Puts(o.todo), Removes(o.todo))

AsOneStep(o) ==
  IF Refuses(o) THEN o.outcome = "thrown" /\ o.left = o.began
  ELSE o.outcome = "done" /\ o.answer = AtOnce(o) /\ o.left = Effect(o)

Undisturbed(o) == o.alone /\ ~o.hurt

OpOK(o) ==
  /\ o.outcome \in {"idle", "running", "done", "thrown"}
  /\ o.outcome # "idle" => Typed(o) /\ Truthful(o) /\ Handles(o)
  /\ o.outcome = "running" =>
       /\ TodoOK(o.call, o.todo) /\ o.todo # <<>>
       /\ \A k \in Keys : entries[k] \in o.seen[k]
       /\ Undisturbed(o) => Progress(o, entries)
  /\ o.outcome \in {"done", "thrown"} /\ Undisturbed(o) => AsOneStep(o)

KeyedInv ==
  /\ class \in Classes /\ entries \in [Keys -> EntryValues]
  /\ op = [f \in Flows |-> op[f]]
  /\ \A f \in Flows : OpOK(op[f])

LEMMA KeyedStart == KeyedInit => KeyedInv
<1> SUFFICES ASSUME KeyedInit PROVE KeyedInv
  OBVIOUS
<1>1. \A f \in Flows : op[f] = NoOp /\ NoOp.outcome = "idle"
  BY DEF KeyedInit, NoOp
<1>2. \A f \in Flows : OpOK(op[f])
  BY <1>1 DEF OpOK
<1>3. entries \in [Keys -> EntryValues]
  BY DEF KeyedInit, EntryValues
<1>4. QED
  BY <1>1, <1>2, <1>3 DEF KeyedInit, KeyedInv

(* All is done.                                                            *)
LEMMA Finished ==
  ASSUME KeyedInv, NEW o, Typed(o), NEW now \in [Keys -> EntryValues],
         o.todo = <<>>, Progress(o, now)
  PROVE  ~Refuses(o) /\ o.answer = AtOnce(o) /\ now = Effect(o)
<1>1. o \in OpStates(o.answer, o.left) /\ o.call \in DictCalls
  BY DEF Typed, OpStates
<1>2. /\ o.call \in Bounded /\ class # "rc" => Cardinality(KeysThere(o)) <= o.limit
      /\ o.call \in Requires => \A k \in KeysAsked(o) : o.began[k] \notin {Absent, Nil}
      /\ o.answer = AnswerYet(o, {}, {})
      /\ now = EffectYet(o, {}, {})
  BY NothingTodo DEF Progress
<1>3. ~Refuses(o)
  <2>1. o.limit \in Nat
    BY <1>1, KeyedAssumption DEF OpStates
  <2>2. IsFiniteSet(KeysThere(o)) /\ Cardinality(KeysThere(o)) \in Nat
    BY KeyedAssumption, FS_Subset, FS_CardinalityType DEF KeysThere
  <2>3. o.call \in Requires => o.call \in Reads
    BY DEF Reads
  <2>4. QED
    BY <1>2, <2>1, <2>2, <2>3 DEF Refuses, KeysAsked, KeysThere
<1>4. now = Effect(o)
  <2>1. \A k \in Keys : (k \in Cleared(o) /\ k \notin KeysPut(o)) \/ ~(k \in Cleared(o))
                        \/ k \in KeysPut(o)
    OBVIOUS
  <2>2. ASSUME NEW k \in Keys
        PROVE  (IF k \in KeysPut(o) THEN o.value ELSE IF k \in Cleared(o) THEN Absent ELSE o.began[k]) = Effect(o)[k]
    BY DEF Effect, KeysPut, Cleared, KeysThere
  <2>3. QED
    BY <1>2, <2>2 DEF EffectYet, Effect
<1>5. o.answer = AtOnce(o)
  <2>1. CASE o.call \in Reads
    BY <1>2, <2>1 DEF AnswerYet, AtOnce, KeysAsked, Reads, Picks, Requires
  <2>2. CASE o.call \in {"entries", "items"}
    BY <1>2, <2>2 DEF AnswerYet, AtOnce, KeysAsked, KeysThere, Reads, Picks, Requires
  <2>3. CASE o.call = "itemsOop"
    BY <1>2, <2>3 DEF AnswerYet, AtOnce, KeysThere, Reads, Picks, Requires
  <2>4. CASE o.call \in {"keys", "size"}
    BY <1>2, <2>4 DEF AnswerYet, AtOnce, KeysThere, Reads, Picks, Requires
  <2>5. CASE o.call \in {"removeAll", "clear", "replaceAll"}
    BY <1>2, <2>5 DEF AnswerYet, AtOnce, KeysThere, Cleared, Reads, Picks, Requires
  <2>6. CASE o.call = "setAll"
    BY <1>2, <2>6 DEF AnswerYet, AtOnce, KeysThere, Reads, Picks, Requires
  <2>7. QED
    BY <1>1, <2>1, <2>2, <2>3, <2>4, <2>5, <2>6 DEF DictCalls, Lists, Bounded, Writes
<1>6. QED
  BY <1>3, <1>4, <1>5

(* What an operation makes of a call: `o', with the entries `now'.         *)
Moved(o, now) ==
  /\ o.outcome \in {"running", "thrown"} /\ Typed(o) /\ Truthful(o) /\ Handles(o)
  /\ o.outcome = "running" =>
       /\ TodoOK(o.call, o.todo)
       /\ \A k \in Keys : entries[k] \in o.seen[k]
       /\ Undisturbed(o) => Progress(o, now)
  /\ o.outcome = "thrown" /\ Undisturbed(o) => Refuses(o) /\ now = o.began

(* To see entries change disturbs nothing that was said.                   *)
LEMMA WitnessKeeps ==
  ASSUME NEW o, Typed(o), entries' \in [Keys -> EntryValues], NEW w, w = Witness(o)
  PROVE  /\ Typed(w) /\ w.outcome = o.outcome /\ w.call = o.call /\ w.todo = o.todo /\ w.answer = o.answer
         /\ w.held = o.held /\ w.began = o.began /\ w.alone = o.alone /\ w.hurt = o.hurt /\ w.took = o.took
         /\ w.left = o.left /\ w.given = o.given /\ w.limit = o.limit /\ w.value = o.value
         /\ \A k \in Keys : o.seen[k] \subseteq w.seen[k]
         /\ o.outcome = "running" /\ (\A k \in Keys : entries[k] \in o.seen[k]) => \A k \in Keys : entries'[k] \in w.seen[k]
<1> DEFINE sights == [k \in Keys |-> o.seen[k] \cup {entries'[k]}]
<1>1. o \in OpStates(o.answer, o.left)
  BY DEF Typed
<1>2. CASE o.outcome = "running" /\ entries' # entries
  <2>1. w = [o EXCEPT !.seen = sights]
    BY <1>1, <1>2 DEF Witness, OpStates
  <2>2. sights \in [Keys -> SUBSET EntryValues] /\ \A k \in Keys : sights[k] = o.seen[k] \cup {entries'[k]}
    BY <1>1 DEF OpStates
  <2> HIDE DEF sights
  <2>3. /\ w \in OpStates(o.answer, o.left) /\ w.seen = sights
        /\ w.outcome = o.outcome /\ w.call = o.call /\ w.todo = o.todo /\ w.answer = o.answer
        /\ w.held = o.held /\ w.began = o.began /\ w.alone = o.alone /\ w.hurt = o.hurt /\ w.took = o.took
        /\ w.left = o.left /\ w.given = o.given /\ w.limit = o.limit /\ w.value = o.value
    BY <1>1, <2>1, <2>2 DEF OpStates
  <2>4. QED
    BY <2>2, <2>3 DEF Typed
<1>3. CASE ~(o.outcome = "running" /\ entries' # entries)
  BY <1>3 DEF Witness
<1>4. QED
  BY <1>2, <1>3

(* The parts of the state that an assertion looks at.                      *)
LEMMA Alike ==
  ASSUME NEW o, NEW w, w.call = o.call, w.answer = o.answer, w.took = o.took, w.outcome = o.outcome,
         w.held = o.held, w.todo = o.todo, Truthful(o), Typed(o), Handles(o), class' = class,
         \A k \in Keys : o.seen[k] \subseteq w.seen[k]
  PROVE  Truthful(w)' /\ Handles(w)'
<1>1. \A e : Shown(o.call, e)' = Shown(o.call, e)
  BY DEF Shown
<1>2. ASSUME o.call # "size", NEW k \in DOMAIN o.answer PROVE k \in Keys /\ Told(w, k)'
  <2>1. k \in Keys /\ Told(o, k)
    BY <1>2 DEF Truthful
  <2>2. o.seen[k] \subseteq w.seen[k]
    BY <2>1
  <2>3. QED
    BY <1>1, <2>1, <2>2 DEF Told
<1>3. Truthful(w)'
  BY <1>2 DEF Truthful
<1>4. Handles(w)'
  BY DEF Handles
<1>5. QED
  BY <1>3, <1>4

LEMMA SameProgress ==
  ASSUME NEW o, NEW w, NEW now, class' = class, Progress(o, now),
         w.call = o.call, w.todo = o.todo, w.answer = o.answer, w.began = o.began,
         w.given = o.given, w.limit = o.limit, w.value = o.value
  PROVE  Progress(w, now)'
<1>1. KeysThere(w) = KeysThere(o) /\ KeysAsked(w) = KeysAsked(o) /\ KeysPut(w) = KeysPut(o) /\ Cleared(w) = Cleared(o)
  BY DEF KeysThere, KeysAsked, KeysPut, Cleared
<1>2. \A looks, removes : AnswerYet(w, looks, removes)' = AnswerYet(o, looks, removes)
  BY <1>1 DEF AnswerYet, Shown, KeysThere, KeysAsked, Cleared
<1>3. \A putYet, removes : EffectYet(w, putYet, removes)' = EffectYet(o, putYet, removes)
  BY <1>1 DEF EffectYet
<1>4. QED
  BY <1>1, <1>2, <1>3 DEF Progress

LEMMA Rests ==
  ASSUME NEW b, OpOK(b), class' = class, entries' = entries \/ b.outcome = "idle"
  PROVE  OpOK(b)'
<1>1. CASE b.outcome = "idle"
  BY <1>1 DEF OpOK
<1>2. CASE entries' = entries /\ b.outcome # "idle"
  <2>1. Typed(b)' /\ Truthful(b)' /\ Handles(b)'
    BY <1>2, Alike DEF OpOK, Typed, OpStates
  <2>2. Progress(b, entries) => Progress(b, entries)'
    BY <1>2, SameProgress DEF Progress, AnswerYet, EffectYet, Shown
  <2>3. AsOneStep(b) => AsOneStep(b)'
    BY DEF AsOneStep, Refuses, AtOnce, Effect, Shown
  <2>4. QED
    BY <1>2, <2>1, <2>2, <2>3 DEF OpOK, TodoOK, Undisturbed
<1>3. QED
  BY <1>1, <1>2

LEMMA AllRest == KeyedInv /\ UNCHANGED <<class, entries, op>> => KeyedInv'
<1> SUFFICES ASSUME KeyedInv, class' = class, entries' = entries, op' = op PROVE KeyedInv'
  OBVIOUS
<1>1. ASSUME NEW f \in Flows PROVE OpOK(op[f])'
  <2>1. PICK b : b = op[f]
    OBVIOUS
  <2>2. OpOK(b)'
    BY <2>1, Rests DEF KeyedInv
  <2>3. QED
    BY <2>1, <2>2
<1>2. QED
  BY <1>1 DEF KeyedInv

(* A flow goes on; the others notice at most that entries have changed.    *)
LEMMA GoKeeps ==
  ASSUME KeyedInv, NEW f \in Flows, NEW o, Go(f, o), Moved(o, entries'), op[f].outcome = "running",
         class' = class, entries' \in [Keys -> EntryValues]
  PROVE  KeyedInv'
<1>1. op' = [g \in Flows |-> op'[g]] /\ DOMAIN op' = Flows
  BY DEF Go
<1>2. ASSUME NEW g \in Flows, g # f PROVE OpOK(op[g])'
  <2>1. PICK b : b = op[g]
    OBVIOUS
  <2>2. OpOK(b)
    BY <2>1 DEF KeyedInv
  <2>3. CASE entries' = entries \/ b.outcome = "idle"
    <3>1. op'[g] = b
      BY <1>2, <2>1, <2>3 DEF Go
    <3>2. OpOK(b)'
      BY <2>2, <2>3, Rests
    <3>3. QED
      BY <3>1, <3>2
  <2>4. CASE ~(entries' = entries \/ b.outcome = "idle")
    <3>1. PICK w : w = Witness(b)
      OBVIOUS
    <3>2. Typed(b) /\ Truthful(b) /\ Handles(b)
      BY <2>2, <2>4 DEF OpOK
    <3>3. /\ Typed(w) /\ w.outcome = b.outcome /\ w.call = b.call /\ w.todo = b.todo /\ w.answer = b.answer
          /\ w.held = b.held /\ w.took = b.took
          /\ \A k \in Keys : b.seen[k] \subseteq w.seen[k]
          /\ b.outcome = "running" => \A k \in Keys : entries'[k] \in w.seen[k]
      BY <2>2, <3>1, <3>2, WitnessKeeps DEF OpOK
    <3>4. PICK n : n = [w EXCEPT !.alone = FALSE]
      OBVIOUS
    <3>5. /\ Typed(n) /\ n.outcome = w.outcome /\ n.call = w.call /\ n.todo = w.todo /\ n.answer = w.answer
          /\ n.held = w.held /\ n.took = w.took /\ n.seen = w.seen /\ n.alone = FALSE
      BY <3>3, <3>4 DEF Typed, OpStates
    <3>6. op'[g] = n
      BY <1>2, <2>1, <2>4, <3>1, <3>4 DEF Go
    <3>7. Truthful(n)' /\ Handles(n)' /\ Typed(n)'
      BY <3>2, <3>3, <3>5, Alike DEF Typed
    <3>8. OpOK(n)'
      BY <2>2, <2>4, <3>3, <3>5, <3>7 DEF OpOK, TodoOK, Undisturbed
    <3>9. QED
      BY <3>6, <3>8
  <2>5. QED
    BY <2>3, <2>4
<1>3. OpOK(op[f])'
  <2>1. PICK w : w = Witness(o)
    OBVIOUS
  <2>2. Typed(o) /\ Truthful(o) /\ Handles(o)
    BY DEF Moved
  <2>3. /\ Typed(w) /\ w.outcome = o.outcome /\ w.call = o.call /\ w.todo = o.todo /\ w.answer = o.answer
        /\ w.held = o.held /\ w.began = o.began /\ w.alone = o.alone /\ w.hurt = o.hurt /\ w.took = o.took
        /\ w.left = o.left /\ w.given = o.given /\ w.limit = o.limit /\ w.value = o.value
        /\ \A k \in Keys : o.seen[k] \subseteq w.seen[k]
        /\ o.outcome = "running" => \A k \in Keys : entries'[k] \in w.seen[k]
    BY <2>1, <2>2, WitnessKeeps DEF Moved
  <2>4. Truthful(w)' /\ Handles(w)' /\ Typed(w)'
    BY <2>2, <2>3, Alike DEF Typed
  <2>5. CASE o.outcome = "running" /\ o.todo # <<>>
    <3>1. op'[f] = w
      BY <2>1, <2>5 DEF Go
    <3>2. PICK now : now = entries'
      OBVIOUS
    <3>3. Undisturbed(w) => Progress(w, now)'
      BY <2>3, <2>5, <3>2, SameProgress DEF Moved, Undisturbed
    <3>4. OpOK(w)'
      BY <2>3, <2>4, <2>5, <3>2, <3>3 DEF OpOK, Moved, TodoOK, Undisturbed, Progress
    <3>5. QED
      BY <3>1, <3>4
  <2>6. CASE ~(o.outcome = "running" /\ o.todo # <<>>)
    <3>0. PICK end : end = IF o.outcome = "thrown" THEN "thrown" ELSE "done"
      OBVIOUS
    <3>1. PICK n : n = [w EXCEPT !.outcome = end, !.todo = <<>>, !.left = entries']
      OBVIOUS
    <3>2. op'[f] = n
      BY <2>1, <2>6, <3>0, <3>1 DEF Go
    <3>3. /\ n.outcome = end /\ n.todo = <<>> /\ n.left = entries'
          /\ n.call = w.call /\ n.answer = w.answer /\ n.held = w.held /\ n.began = w.began /\ n.alone = w.alone
          /\ n.hurt = w.hurt /\ n.took = w.took /\ n.given = w.given /\ n.limit = w.limit /\ n.value = w.value
          /\ n.seen = w.seen /\ n \in OpStates(n.answer, n.left)
      <4>1. w \in OpStates(w.answer, w.left) /\ <<>> \in Seq(Steps) /\ end \in {"done", "thrown"}
        BY <2>3, <3>0 DEF Typed
      <4>2. PICK now : now = entries'
        OBVIOUS
      <4>3. n \in OpStates(w.answer, now)
        BY <3>1, <4>1, <4>2 DEF OpStates
      <4>4. /\ n.outcome = end /\ n.todo = <<>> /\ n.left = now
            /\ n.call = w.call /\ n.answer = w.answer /\ n.held = w.held /\ n.began = w.began /\ n.alone = w.alone
            /\ n.hurt = w.hurt /\ n.took = w.took /\ n.given = w.given /\ n.limit = w.limit /\ n.value = w.value
            /\ n.seen = w.seen
        BY <3>1, <4>1, <4>2 DEF OpStates
      <4>5. QED
        BY <4>2, <4>3, <4>4
    <3>4. Typed(n) /\ Typed(n)'
      BY <2>3, <3>3 DEF Typed
    <3>5. Truthful(n)'
      <4>1. Truthful(n) <=> Truthful(w)
        BY <3>3 DEF Truthful, Told
      <4>2. QED
        BY <2>4, <3>3 DEF Truthful, Told
    <3>6. Handles(n)'
      BY <2>3, <2>4, <2>6, <3>0, <3>3, NothingTodo DEF Handles, Moved
    <3>7. ASSUME Undisturbed(n) PROVE AsOneStep(n)'
      <4>1. Refuses(n) = Refuses(o) /\ Refuses(n)' = Refuses(n)
        BY <2>3, <3>3 DEF Refuses
      <4>2. CASE o.outcome = "thrown"
        BY <2>3, <3>0, <3>3, <3>7, <4>1, <4>2 DEF AsOneStep, Moved, Undisturbed
      <4>3. CASE o.outcome = "running" /\ o.todo = <<>>
        <5>1. Progress(o, entries')
          BY <2>3, <3>3, <3>7, <4>3 DEF Moved, Undisturbed
        <5>2. ~Refuses(o) /\ o.answer = AtOnce(o) /\ entries' = Effect(o)
          BY <2>2, <4>3, <5>1, Finished
        <5>3. AtOnce(n)' = AtOnce(o) /\ Effect(n)' = Effect(o)
          BY <2>3, <3>3 DEF AtOnce, Effect, Shown
        <5>4. QED
          BY <2>3, <3>0, <3>3, <4>1, <4>3, <5>2, <5>3 DEF AsOneStep
      <4>4. QED
        BY <2>6, <4>2, <4>3 DEF Moved
    <3>8. OpOK(n)'
      BY <3>0, <3>3, <3>4, <3>5, <3>6, <3>7 DEF OpOK, Undisturbed
    <3>9. QED
      BY <3>2, <3>8
  <2>7. QED
    BY <2>5, <2>6
<1>4. QED
  BY <1>1, <1>2, <1>3 DEF KeyedInv

-----------------------------------------------------------------------------
(* The calls                                                               *)

LEMMA KeyedFails ==
  ASSUME NEW b, Typed(b), Truthful(b), NEW hurt \in BOOLEAN, NEW now,
         NEW o, o = (IF hurt THEN [Thrown(b) EXCEPT !.hurt = TRUE] ELSE Thrown(b)),
         ~hurt /\ Undisturbed(b) => Refuses(b) /\ now = b.began
  PROVE  Moved(o, now)
<1>1. b \in OpStates(b.answer, b.left)
  BY DEF Typed
<1>2. PICK t : t = [b EXCEPT !.outcome = "thrown", !.held = {}]
  OBVIOUS
<1>3. /\ t \in OpStates(b.answer, b.left) /\ t.outcome = "thrown" /\ t.held = {} /\ t.call = b.call
      /\ t.answer = b.answer /\ t.took = b.took /\ t.seen = b.seen /\ t.alone = b.alone /\ t.hurt = b.hurt
      /\ t.began = b.began /\ t.given = b.given /\ t.limit = b.limit /\ t.left = b.left
  BY <1>1, <1>2 DEF OpStates
<1>4. o = (IF hurt THEN [t EXCEPT !.hurt = TRUE] ELSE t)
  BY <1>2 DEF Thrown
<1>5. /\ o \in OpStates(b.answer, b.left) /\ o.outcome = "thrown" /\ o.held = {} /\ o.call = b.call
      /\ o.answer = b.answer /\ o.took = b.took /\ o.seen = b.seen /\ o.alone = b.alone
      /\ o.began = b.began /\ o.given = b.given /\ o.limit = b.limit /\ o.left = b.left
      /\ o.hurt = (hurt \/ b.hurt)
  BY <1>3, <1>4 DEF OpStates
<1>6. Typed(o) /\ Truthful(o) /\ Handles(o)
  BY <1>5 DEF Typed, Truthful, Told, Handles
<1>7. Undisturbed(o) => ~hurt /\ Undisturbed(b)
  BY <1>5 DEF Undisturbed
<1>8. Refuses(b) => Refuses(o)
  BY <1>5 DEF Refuses
<1>9. QED
  BY <1>5, <1>6, <1>7, <1>8 DEF Moved

LEMMA Running1 ==
  ASSUME KeyedInv, NEW f \in Flows, op[f].outcome = "running", NEW b, b = op[f]
  PROVE  /\ Typed(b) /\ b \in OpStates(b.answer, b.left) /\ Truthful(b) /\ Handles(b) /\ b.outcome = "running"
         /\ TodoOK(b.call, b.todo) /\ Program1(b.todo) /\ b.todo # <<>>
         /\ \A k \in Keys : entries[k] \in b.seen[k]
         /\ Undisturbed(b) => Progress(b, entries)
         /\ Head(b.todo).do \in May(b.call)
         /\ b.todo = Listing <=> Head(b.todo).do = "list"
<1>1. /\ Typed(b) /\ b \in OpStates(b.answer, b.left) /\ Truthful(b) /\ Handles(b) /\ b.outcome = "running"
      /\ TodoOK(b.call, b.todo) /\ Program1(b.todo) /\ b.todo # <<>>
      /\ \A k \in Keys : entries[k] \in b.seen[k]
      /\ Undisturbed(b) => Progress(b, entries)
  BY DEF KeyedInv, OpOK, TodoOK, Typed
<1>2. 1 \in DOMAIN b.todo /\ Head(b.todo) = b.todo[1]
  BY <1>1, HeadTailProperties, LenProperties DEF Program1
<1>3. Head(b.todo).do \in May(b.call)
  BY <1>1, <1>2 DEF TodoOK
<1>4. b.todo = Listing <=> Head(b.todo).do = "list"
  BY <1>1, <1>2, ListingIs DEF Program1
<1>5. QED
  BY <1>1, <1>3, <1>4

LEMMA CallFailsKeeps == ASSUME KeyedInv, NEW f \in Flows, CallFails(f) PROVE KeyedInv'
<1>1. PICK b, o, hurt, now : b = op[f] /\ o = [Thrown(b) EXCEPT !.hurt = TRUE] /\ hurt = TRUE /\ now = entries'
  OBVIOUS
<1>2. op[f].outcome = "running" /\ Go(f, o) /\ class' = class /\ entries' = entries
  BY <1>1 DEF CallFails
<1>3. Typed(b) /\ Truthful(b)
  BY <1>1, <1>2, Running1
<1>4. Moved(o, now)
  BY <1>1, <1>3, KeyedFails
<1>5. entries' \in [Keys -> EntryValues]
  BY <1>2 DEF KeyedInv
<1>6. QED
  BY <1>1, <1>2, <1>4, <1>5, GoKeeps

LEMMA RootKeeps == ASSUME KeyedInv, NEW f \in Flows, Root(f) PROVE KeyedInv'
<1>1. class' = class /\ entries' = entries /\ op[f].outcome = "running"
  BY DEF Root, NeedsRoot
<1>2. CASE UNCHANGED op
  BY <1>1, <1>2, AllRest
<1>3. CASE Go(f, [Thrown(op[f]) EXCEPT !.hurt = TRUE])
  <2>1. PICK b, o, hurt, now : b = op[f] /\ o = [Thrown(b) EXCEPT !.hurt = TRUE] /\ hurt = TRUE /\ now = entries'
    OBVIOUS
  <2>2. Typed(b) /\ Truthful(b)
    BY <1>1, <2>1, Running1
  <2>3. Moved(o, now)
    BY <2>1, <2>2, KeyedFails
  <2>4. entries' \in [Keys -> EntryValues]
    BY <1>1 DEF KeyedInv
  <2>5. Go(f, o)
    BY <1>3, <2>1
  <2>6. QED
    BY <1>1, <2>1, <2>3, <2>4, <2>5, GoKeeps
<1>4. QED
  BY <1>2, <1>3 DEF Root

With(answer, k, a) == [j \in DOMAIN answer \cup {k} |-> IF j = k THEN a ELSE answer[j]]

Answered(b, k, a, held, took) == [Answering(b, k, a) EXCEPT !.held = held, !.took = took]

(* An answer for a key, and the rest of what is to do.                     *)
LEMMA AnswersKey ==
  ASSUME NEW b, Typed(b), b.todo # <<>>, NEW k \in Keys, NEW a, NEW held \in SUBSET Keys, NEW took \in SUBSET Keys,
         NEW o, o = Answered(b, k, a, held, took)
  PROVE  /\ Typed(o) /\ o.outcome = b.outcome /\ o.todo = Tail(b.todo) /\ o.held = held /\ o.took = took
         /\ o.call = b.call /\ o.began = b.began /\ o.seen = b.seen /\ o.alone = b.alone /\ o.hurt = b.hurt
         /\ o.given = b.given /\ o.limit = b.limit /\ o.value = b.value /\ o.left = b.left
         /\ o.answer = With(b.answer, k, a)
<1>1. b \in OpStates(b.answer, b.left) /\ Tail(b.todo) \in Seq(Steps)
  BY HeadTailProperties DEF Typed, OpStates
<1>2. PICK t, answer : /\ t = [b EXCEPT !.todo = Tail(b.todo)]
                       /\ answer = With(b.answer, k, a)
  OBVIOUS
<1>3. /\ t \in OpStates(b.answer, b.left) /\ t.outcome = b.outcome /\ t.todo = Tail(b.todo)
      /\ t.call = b.call /\ t.began = b.began /\ t.seen = b.seen /\ t.alone = b.alone /\ t.hurt = b.hurt
      /\ t.given = b.given /\ t.limit = b.limit /\ t.value = b.value /\ t.left = b.left /\ t.answer = b.answer
  BY <1>1, <1>2 DEF OpStates
<1>4. o = [[t EXCEPT !.answer = answer] EXCEPT !.held = held, !.took = took]
  BY <1>2, <1>3 DEF Answered, Answering, Next1, OpStates, With
<1>5. PICK u : u = [t EXCEPT !.answer = answer]
  OBVIOUS
<1>6. /\ u \in OpStates(answer, b.left) /\ u.outcome = b.outcome /\ u.todo = Tail(b.todo)
      /\ u.call = b.call /\ u.began = b.began /\ u.seen = b.seen /\ u.alone = b.alone /\ u.hurt = b.hurt
      /\ u.given = b.given /\ u.limit = b.limit /\ u.value = b.value /\ u.left = b.left /\ u.answer = answer
  BY <1>3, <1>5 DEF OpStates
<1>7. o = [u EXCEPT !.held = held, !.took = took]
  BY <1>4, <1>5
<1>8. /\ o \in OpStates(answer, b.left) /\ o.outcome = b.outcome /\ o.todo = Tail(b.todo)
      /\ o.call = b.call /\ o.began = b.began /\ o.seen = b.seen /\ o.alone = b.alone /\ o.hurt = b.hurt
      /\ o.given = b.given /\ o.limit = b.limit /\ o.value = b.value /\ o.left = b.left /\ o.answer = answer
      /\ o.held = held /\ o.took = took
  BY <1>6, <1>7 DEF OpStates
<1>9. QED
  BY <1>2, <1>8 DEF Typed

(* The answer for a key is as true as those before.                        *)
LEMMA TruthfulKey ==
  ASSUME NEW b, Truthful(b), NEW k \in Keys, NEW o, o.call = b.call, o.seen = b.seen, b.took \subseteq o.took,
         \A j \in DOMAIN o.answer : j = k \/ (j \in DOMAIN b.answer /\ o.answer[j] = b.answer[j]),
         k \in DOMAIN o.answer /\ b.call # "size" => Told(o, k)
  PROVE  Truthful(o)
<1>1. ASSUME b.call # "size", NEW j \in DOMAIN o.answer, j # k PROVE j \in Keys /\ Told(o, j)
  <2>1. j \in DOMAIN b.answer /\ o.answer[j] = b.answer[j]
    BY <1>1
  <2>2. j \in Keys /\ Told(b, j)
    BY <1>1, <2>1 DEF Truthful
  <2>3. QED
    BY <2>1, <2>2 DEF Told
<1>2. QED
  BY <1>1 DEF Truthful

LEMMA LookKeeps == ASSUME KeyedInv, NEW f \in Flows, Look(f) PROVE KeyedInv'
<1> USE KeyedAssumption
<1>1. PICK b, k, val, now : b = op[f] /\ k = Head(b.todo).key /\ val = Shown(b.call, entries[k]) /\ now = entries
  OBVIOUS
<1>2. /\ b.outcome = "running" /\ Head(b.todo).do = "look" /\ class' = class /\ entries' = entries
  BY <1>1 DEF Look, Running
<1>3. /\ Typed(b) /\ b \in OpStates(b.answer, b.left) /\ Truthful(b) /\ Handles(b)
      /\ TodoOK(b.call, b.todo) /\ Program1(b.todo) /\ b.todo # <<>>
      /\ \A j \in Keys : entries[j] \in b.seen[j]
      /\ Undisturbed(b) => Progress(b, entries)
      /\ Head(b.todo).do \in May(b.call) /\ b.todo # Listing
  BY <1>1, <1>2, Running1
<1>4. /\ Program1(Tail(b.todo)) /\ Tail(b.todo) # Listing
      /\ \A i \in DOMAIN Tail(b.todo) : i + 1 \in DOMAIN b.todo /\ Tail(b.todo)[i] = b.todo[i + 1]
      /\ k \in Keys /\ k \in Looks(b.todo) /\ Looks(Tail(b.todo)) = Looks(b.todo) \ {k}
      /\ Puts(Tail(b.todo)) = Puts(b.todo) /\ Removes(Tail(b.todo)) = Removes(b.todo)
  BY <1>1, <1>2, <1>3, TailOK, HeadIs
<1>5. TodoOK(b.call, Tail(b.todo))
  BY <1>3, <1>4 DEF TodoOK
<1>6. b.call \in Reads \cup {"entries", "items", "itemsOop"}
  BY <1>2, <1>3 DEF May
<1>7. entries' \in [Keys -> EntryValues] /\ entries \in [Keys -> EntryValues]
  BY <1>2 DEF KeyedInv
(* What is seen is what there was when the operation began.                *)
<1>8. ASSUME Undisturbed(b)
      PROVE  /\ k \in KeysAsked(b) /\ entries = b.began /\ Looks(b.todo) \subseteq KeysAsked(b)
             /\ b.answer = AnswerYet(b, Looks(b.todo), Removes(b.todo))
             /\ Puts(b.todo) = {} /\ Removes(b.todo) = {} /\ KeysPut(b) = {} /\ Cleared(b) = {}
  <2>1. Progress(b, entries)
    BY <1>3, <1>8
  <2>2. KeysPut(b) = {} /\ Cleared(b) = {}
    BY <1>6 DEF KeysPut, Cleared, Reads, Picks, Requires
  <2>3. /\ Looks(b.todo) \subseteq KeysAsked(b) /\ Puts(b.todo) \subseteq KeysPut(b) /\ Removes(b.todo) \subseteq Cleared(b)
        /\ b.answer = AnswerYet(b, Looks(b.todo), Removes(b.todo))
        /\ entries = EffectYet(b, Puts(b.todo), Removes(b.todo))
    BY <1>3, <2>1 DEF Progress
  <2>4. \A j \in Keys : EffectYet(b, Puts(b.todo), Removes(b.todo))[j] = b.began[j]
    BY <2>2 DEF EffectYet
  <2>5. b.began \in [Keys -> EntryValues]
    BY <1>3 DEF OpStates
  <2>6. entries = b.began
    BY <1>7, <2>3, <2>4, <2>5
  <2>7. QED
    BY <1>4, <2>2, <2>3, <2>6
<1>9. CASE b.call \in Requires /\ val = Nil
  <2>1. PICK o, hurt : o = Thrown(b) /\ hurt = FALSE
    OBVIOUS
  <2>2. Go(f, o)
    BY <1>1, <1>9, <2>1 DEF Look, Requires
  <2>3. Undisturbed(b) => Refuses(b) /\ now = b.began
    <3>1. entries[k] \in {Absent, Nil}
      BY <1>1, <1>9 DEF Shown, Requires
    <3>2. KeysAsked(b) = Range(b.given)
      BY <1>9 DEF KeysAsked, Reads
    <3>3. QED
      BY <1>1, <1>8, <1>9, <3>1, <3>2 DEF Refuses
  <2>4. Moved(o, now)
    BY <1>3, <2>1, <2>3, KeyedFails
  <2>5. QED
    BY <1>1, <1>2, <1>7, <2>2, <2>4, GoKeeps
<1>10. CASE b.call = "itemsOop" /\ val = Nil
  <2>1. PICK o : o = Next1(b)
    OBVIOUS
  <2>2. Go(f, o)
    BY <1>1, <1>10, <2>1 DEF Look, Requires
  <2>3. /\ Typed(o) /\ o.todo = Tail(b.todo) /\ o.outcome = "running" /\ o.call = b.call /\ o.answer = b.answer
        /\ o.held = b.held /\ o.took = b.took /\ o.seen = b.seen /\ o.alone = b.alone /\ o.hurt = b.hurt
        /\ o.began = b.began /\ o.given = b.given /\ o.limit = b.limit /\ o.value = b.value
    BY <1>2, <1>3, <1>4, <2>1 DEF Next1, Typed, OpStates, Program1
  <2>4. Truthful(o) /\ Handles(o)
    BY <1>3, <1>10, <2>3 DEF Truthful, Told, Handles
  <2>5. ASSUME Undisturbed(o) PROVE Progress(o, now)
    <3>1. Undisturbed(b)
      BY <2>3, <2>5 DEF Undisturbed
    <3>2. b.began[k] = Nil /\ KeysThere(o) = KeysThere(b) /\ KeysAsked(o) = KeysAsked(b) /\ KeysPut(o) = {} /\ Cleared(o) = {}
      BY <1>1, <1>8, <1>10, <2>3, <3>1 DEF Shown, KeysAsked, KeysThere, KeysPut, Cleared, Reads, Picks, Requires
    <3>3. AnswerYet(o, Looks(o.todo), Removes(o.todo)) = AnswerYet(b, Looks(b.todo), Removes(b.todo))
      BY <1>4, <1>10, <2>3, <3>2 DEF AnswerYet, Reads, Picks, Requires
    <3>4. EffectYet(o, Puts(o.todo), Removes(o.todo)) = EffectYet(b, Puts(b.todo), Removes(b.todo))
      BY <1>4, <1>8, <2>3, <3>1, <3>2 DEF EffectYet
    <3>5. Progress(b, entries)
      BY <1>3, <3>1
    <3>6. QED
      BY <1>1, <1>3, <1>4, <1>8, <1>10, <2>3, <3>1, <3>2, <3>3, <3>4, <3>5 DEF Progress, Requires, May
  <2>6. Moved(o, now)
    BY <1>3, <1>5, <2>3, <2>4, <2>5 DEF Moved
  <2>7. QED
    BY <1>1, <1>2, <1>7, <2>2, <2>6, GoKeeps
<1>11. CASE ~(b.call \in Requires /\ val = Nil) /\ ~(b.call = "itemsOop" /\ val = Nil)
  <2>1. PICK held : held = IF b.call \in {"pickObject", "requireAllObject"} /\ val # Nil THEN b.held \cup {k} ELSE b.held
    OBVIOUS
  <2>2. held \in SUBSET Keys /\ b.took \in SUBSET Keys
    BY <1>3, <1>4, <2>1 DEF OpStates
  <2>3. PICK o, took : o = Answered(b, k, val, held, took) /\ took = b.took
    OBVIOUS
  <2>4. /\ Typed(o) /\ o.outcome = "running" /\ o.todo = Tail(b.todo) /\ o.held = held /\ o.took = took
        /\ o.call = b.call /\ o.began = b.began /\ o.seen = b.seen /\ o.alone = b.alone /\ o.hurt = b.hurt
        /\ o.given = b.given /\ o.limit = b.limit /\ o.value = b.value /\ o.left = b.left
        /\ o.answer = With(b.answer, k, val)
    <3>1. took \in SUBSET Keys /\ Typed(b) /\ b.todo # <<>> /\ k \in Keys
      BY <1>3, <1>4, <2>2, <2>3
    <3>2. /\ Typed(o) /\ o.outcome = b.outcome /\ o.todo = Tail(b.todo) /\ o.held = held /\ o.took = took
          /\ o.call = b.call /\ o.began = b.began /\ o.seen = b.seen /\ o.alone = b.alone /\ o.hurt = b.hurt
          /\ o.given = b.given /\ o.limit = b.limit /\ o.value = b.value /\ o.left = b.left
          /\ o.answer = With(b.answer, k, val)
      BY <2>2, <2>3, <3>1, AnswersKey
    <3>3. QED
      BY <1>2, <3>2
  <2>12. /\ DOMAIN o.answer = DOMAIN b.answer \cup {k} /\ o.answer[k] = val
         /\ \A j \in DOMAIN b.answer : j # k => o.answer[j] = b.answer[j]
    <3>1. PICK answer : answer = b.answer
      OBVIOUS
    <3>2. /\ DOMAIN With(answer, k, val) = DOMAIN answer \cup {k} /\ With(answer, k, val)[k] = val
          /\ \A j \in DOMAIN answer : j # k => With(answer, k, val)[j] = answer[j]
      BY DEF With
    <3>3. o.answer = With(answer, k, val)
      BY <2>4, <3>1
    <3>4. QED
      BY <3>1, <3>2, <3>3
  <2>5. Go(f, o)
    <3>1. PICK a : a = Answering(b, k, val)
      OBVIOUS
    <3>2. a.held = b.held /\ a.took = b.took /\ [a EXCEPT !.held = b.held, !.took = b.took] = a
      BY <1>3, <3>1 DEF Answering, Next1, OpStates
    <3>3. CASE b.call \in {"pickObject", "requireAllObject"} /\ val # Nil
      <4>1. Go(f, [a EXCEPT !.held = @ \cup {k}])
        BY <1>1, <1>11, <3>1, <3>3 DEF Look
      <4>2. o = [a EXCEPT !.held = @ \cup {k}]
        BY <1>3, <2>1, <2>3, <3>1, <3>2, <3>3 DEF Answered, Answering, Next1, OpStates
      <4>3. QED
        BY <4>1, <4>2
    <3>4. CASE ~(b.call \in {"pickObject", "requireAllObject"} /\ val # Nil)
      <4>1. Go(f, a)
        BY <1>1, <1>11, <3>1, <3>4 DEF Look
      <4>2. QED
        BY <2>1, <2>3, <3>1, <3>2, <3>4, <4>1 DEF Answered
    <3>5. QED
      BY <3>3, <3>4
  <2>6. Told(o, k)
    <3>1. o.answer[k] = Shown(o.call, entries[k]) /\ entries[k] \in o.seen[k]
      <4>1. val = Shown(b.call, entries[k]) /\ entries[k] \in b.seen[k]
        BY <1>1, <1>3, <1>4
      <4>2. With(b.answer, k, val)[k] = val
        BY DEF With
      <4>3. o.answer[k] = val /\ o.call = b.call /\ o.seen = b.seen
        BY <2>4, <4>2
      <4>4. QED
        BY <4>1, <4>3
    <3>2. QED
      BY <1>6, <2>4, <3>1 DEF Told, Reads, Picks, Requires
  <2>7. Truthful(o)
    <3>1. \A j \in DOMAIN o.answer : j = k \/ (j \in DOMAIN b.answer /\ o.answer[j] = b.answer[j])
      BY <2>12
    <3>2. b.took \subseteq o.took
      BY <2>3, <2>4
    <3>3. QED
      BY <1>3, <1>4, <2>4, <2>6, <3>1, <3>2, TruthfulKey
  <2>8. Handles(o)
    <3>1. ASSUME b.call \in {"pickObject", "requireAllObject"}
          PROVE  /\ held = {j \in DOMAIN o.answer : o.answer[j] # Nil}
                 /\ (Looks(b.todo) \ {k}) \cap DOMAIN o.answer = {}
      <4>1. b.held = {j \in DOMAIN b.answer : b.answer[j] # Nil} /\ Looks(b.todo) \cap DOMAIN b.answer = {}
        BY <1>2, <1>3, <3>1 DEF Handles
      <4>2. k \notin DOMAIN b.answer
        BY <1>4, <4>1
      <4>3. QED
        <5>1. /\ DOMAIN o.answer = DOMAIN b.answer \cup {k} /\ o.answer[k] = val
              /\ \A j \in DOMAIN b.answer : o.answer[j] = b.answer[j]
          BY <2>4, <2>12, <4>2
        <5>2. QED
          BY <2>1, <3>1, <4>1, <4>2, <5>1
    <3>2. QED
      BY <1>4, <2>4, <3>1 DEF Handles
  <2>9. ASSUME Undisturbed(o) PROVE Progress(o, now)
    <3>1. Undisturbed(b)
      BY <2>4, <2>9 DEF Undisturbed
    <3>2. KeysThere(o) = KeysThere(b) /\ KeysAsked(o) = KeysAsked(b) /\ KeysPut(o) = {} /\ Cleared(o) = {}
      BY <1>8, <2>4, <3>1 DEF KeysAsked, KeysThere, KeysPut, Cleared
    <3>3. k \in KeysAsked(b) /\ entries[k] = b.began[k]
      BY <1>8, <3>1
    <3>4. o.answer = AnswerYet(o, Looks(o.todo), Removes(o.todo))
      <4>1. CASE b.call \in Reads \cup {"entries", "items"}
        <5>1. b.answer = [j \in KeysAsked(b) \ Looks(b.todo) |-> Shown(b.call, b.began[j])]
          BY <1>8, <3>1, <4>1 DEF AnswerYet
        <5>2. DOMAIN b.answer \cup {k} = KeysAsked(b) \ (Looks(b.todo) \ {k})
          BY <1>4, <3>3, <5>1
        <5>3. AnswerYet(o, Looks(o.todo), Removes(o.todo)) = [j \in KeysAsked(b) \ (Looks(b.todo) \ {k}) |-> Shown(b.call, b.began[j])]
          BY <1>4, <2>4, <3>2, <4>1 DEF AnswerYet
        <5>4. /\ \A j \in DOMAIN b.answer : b.answer[j] = Shown(b.call, b.began[j])
              /\ val = Shown(b.call, b.began[k])
          BY <1>1, <3>3, <5>1
        <5>5. With(b.answer, k, val) = [j \in KeysAsked(b) \ (Looks(b.todo) \ {k}) |-> Shown(b.call, b.began[j])]
          BY <5>2, <5>4 DEF With
        <5>6. QED
          BY <2>4, <5>3, <5>5
      <4>2. CASE b.call = "itemsOop"
        <5>1. b.answer = [j \in {i \in KeysThere(b) \ Looks(b.todo) : b.began[i] # Nil} |-> b.began[j]]
          BY <1>8, <3>1, <4>2 DEF AnswerYet, Reads, Picks, Requires
        <5>2. k \in KeysThere(b) /\ val = b.began[k] /\ val # Nil
          BY <1>1, <1>11, <3>3, <4>2 DEF KeysAsked, KeysThere, Shown, Reads, Picks, Requires
        <5>3. DOMAIN b.answer \cup {k} = {i \in KeysThere(b) \ (Looks(b.todo) \ {k}) : b.began[i] # Nil}
          BY <1>4, <5>1, <5>2
        <5>4. AnswerYet(o, Looks(o.todo), Removes(o.todo))
                = [j \in {i \in KeysThere(b) \ (Looks(b.todo) \ {k}) : b.began[i] # Nil} |-> b.began[j]]
          BY <1>4, <2>4, <3>2, <4>2 DEF AnswerYet, Reads, Picks, Requires
        <5>5. \A j \in DOMAIN b.answer : b.answer[j] = b.began[j]
          BY <5>1
        <5>6. With(b.answer, k, val) = [j \in {i \in KeysThere(b) \ (Looks(b.todo) \ {k}) : b.began[i] # Nil} |-> b.began[j]]
          BY <5>2, <5>3, <5>5 DEF With
        <5>7. QED
          BY <2>4, <5>4, <5>6
      <4>3. QED
        BY <1>6, <4>1, <4>2
    <3>5. EffectYet(o, Puts(o.todo), Removes(o.todo)) = EffectYet(b, Puts(b.todo), Removes(b.todo))
      BY <1>4, <1>8, <2>4, <3>1, <3>2 DEF EffectYet
    <3>6. Progress(b, entries)
      BY <1>3, <3>1
    <3>7. o.call \in Requires => \A j \in KeysAsked(o) \ Looks(o.todo) : o.began[j] \notin {Absent, Nil}
      <4>1. ASSUME b.call \in Requires PROVE b.began[k] \notin {Absent, Nil}
        BY <1>1, <1>11, <3>3, <4>1 DEF Shown, Requires
      <4>2. QED
        BY <1>3, <1>4, <2>4, <3>2, <3>6, <4>1 DEF Progress
    <3>8. \A i \in DOMAIN Tail(b.todo) : Tail(b.todo)[i].do # "removeKey"
      BY <1>5, <1>6 DEF TodoOK, May, Reads, Picks, Requires
    <3>9. Looks(o.todo) \subseteq KeysAsked(o) /\ Puts(o.todo) = {} /\ Removes(o.todo) = {} /\ o.todo # Listing
      BY <1>4, <1>8, <2>4, <3>1, <3>2
    <3>10. o.call \in Bounded /\ class # "rc" => Cardinality(KeysThere(o)) <= o.limit
      BY <1>3, <2>4, <3>2, <3>6 DEF Progress
    <3>11. now = EffectYet(o, Puts(o.todo), Removes(o.todo))
      BY <1>1, <1>3, <3>5, <3>6 DEF Progress
    <3>12. QED
      BY <2>4, <3>2, <3>4, <3>7, <3>8, <3>9, <3>10, <3>11 DEF Progress
  <2>10. Moved(o, now)
    BY <1>3, <1>5, <2>4, <2>7, <2>8, <2>9 DEF Moved
  <2>11. QED
    BY <1>1, <1>2, <1>7, <2>5, <2>10, GoKeeps
<1>12. QED
  BY <1>9, <1>10, <1>11

LEMMA PutKeeps == ASSUME KeyedInv, NEW f \in Flows, Put(f) PROVE KeyedInv'
<1> USE KeyedAssumption
<1>1. PICK b, k, o, now : b = op[f] /\ k = Head(b.todo).key /\ o = Next1(b) /\ now = entries'
  OBVIOUS
<1>2. /\ b.outcome = "running" /\ Head(b.todo).do = "put" /\ class' = class
      /\ entries' = [entries EXCEPT ![k] = b.value] /\ Go(f, o)
  BY <1>1 DEF Put, Running
<1>3. /\ Typed(b) /\ b \in OpStates(b.answer, b.left) /\ Truthful(b) /\ Handles(b)
      /\ TodoOK(b.call, b.todo) /\ Program1(b.todo) /\ b.todo # <<>>
      /\ \A j \in Keys : entries[j] \in b.seen[j]
      /\ Undisturbed(b) => Progress(b, entries)
      /\ Head(b.todo).do \in May(b.call) /\ b.todo # Listing
  BY <1>1, <1>2, Running1
<1>4. /\ Program1(Tail(b.todo)) /\ Tail(b.todo) # Listing
      /\ \A i \in DOMAIN Tail(b.todo) : i + 1 \in DOMAIN b.todo /\ Tail(b.todo)[i] = b.todo[i + 1]
      /\ k \in Keys /\ k \in Puts(b.todo) /\ Looks(Tail(b.todo)) = Looks(b.todo)
      /\ Puts(Tail(b.todo)) = Puts(b.todo) \ {k} /\ Removes(Tail(b.todo)) = {} /\ Removes(b.todo) = {}
  BY <1>1, <1>2, <1>3, TailOK, HeadIs
<1>5. TodoOK(b.call, Tail(b.todo))
  BY <1>3, <1>4 DEF TodoOK
<1>6. b.call \in {"setAll", "replaceAll"}
  BY <1>2, <1>3 DEF May, OpStates, DictCalls, Lists, Bounded, Writes
<1>7. /\ entries' \in [Keys -> EntryValues] /\ entries \in [Keys -> EntryValues] /\ now[k] = b.value
      /\ \A j \in Keys : j # k => now[j] = entries[j]
  <2>1. entries \in [Keys -> EntryValues] /\ b.value \in EntryValues
    BY <1>3 DEF KeyedInv, OpStates, EntryValues
  <2>2. QED
    BY <1>1, <1>2, <1>4, <2>1
<1>8. /\ Typed(o) /\ o.todo = Tail(b.todo) /\ o.outcome = "running" /\ o.call = b.call /\ o.answer = b.answer
      /\ o.held = b.held /\ o.took = b.took /\ o.seen = b.seen /\ o.alone = b.alone /\ o.hurt = b.hurt
      /\ o.began = b.began /\ o.given = b.given /\ o.limit = b.limit /\ o.value = b.value
  BY <1>1, <1>2, <1>3, <1>4 DEF Next1, Typed, OpStates, Program1
<1>9. Truthful(o) /\ Handles(o)
  BY <1>3, <1>6, <1>8 DEF Truthful, Told, Handles
<1>10. ASSUME Undisturbed(o) PROVE Progress(o, now)
  <2>1. Progress(b, entries) /\ o.todo # Listing
    BY <1>3, <1>4, <1>8, <1>10 DEF Undisturbed
  <2>2. KeysThere(o) = KeysThere(b) /\ KeysAsked(o) = KeysAsked(b) /\ KeysPut(o) = KeysPut(b) /\ Cleared(o) = Cleared(b)
    BY <1>8 DEF KeysAsked, KeysThere, KeysPut, Cleared
  <2>3. AnswerYet(o, Looks(o.todo), Removes(o.todo)) = AnswerYet(b, Looks(b.todo), Removes(b.todo))
    BY <1>4, <1>6, <1>8, <2>2 DEF AnswerYet, Reads, Picks, Requires
  <2>4. Puts(b.todo) \subseteq KeysPut(b) /\ entries = EffectYet(b, Puts(b.todo), {})
    BY <1>3, <1>4, <2>1 DEF Progress
  <2>5. EffectYet(o, Puts(b.todo) \ {k}, {}) = now
    <3>1. ASSUME NEW j \in Keys PROVE EffectYet(o, Puts(b.todo) \ {k}, {})[j] = now[j]
      <4>1. CASE j = k
        BY <1>4, <1>7, <1>8, <2>2, <2>4, <4>1 DEF EffectYet
      <4>2. CASE j # k
        BY <1>7, <1>8, <2>2, <2>4, <4>2 DEF EffectYet
      <4>3. QED
        BY <4>1, <4>2
    <3>2. EffectYet(o, Puts(b.todo) \ {k}, {}) = [j \in Keys |-> EffectYet(o, Puts(b.todo) \ {k}, {})[j]]
      BY DEF EffectYet
    <3>3. QED
      BY <1>1, <1>7, <3>1, <3>2
  <2>6. \A i \in DOMAIN o.todo : o.todo[i].do # "removeKey"
    <3>1. \A i \in DOMAIN b.todo : b.todo[i].do # "removeKey"
      <4>1. \A i \in DOMAIN b.todo : b.todo[i].do = "removeKey" => b.todo[i].key \in Removes(b.todo)
        BY DEF Removes, KeysToDo
      <4>2. QED
        BY <1>4, <4>1
    <3>2. QED
      BY <1>4, <1>8, <3>1
  <2>7. Looks(o.todo) \subseteq KeysAsked(o) /\ Puts(o.todo) \subseteq KeysPut(o)
    BY <1>3, <1>4, <1>8, <2>1, <2>2, <2>4 DEF Progress
  <2>8. o.answer = AnswerYet(o, Looks(o.todo), Removes(o.todo))
    BY <1>3, <1>8, <2>1, <2>3 DEF Progress
  <2>9. o.call \notin Bounded /\ o.call \notin Requires
    BY <1>6, <1>8 DEF Bounded, Requires
  <2>10. QED
    BY <1>4, <1>8, <2>1, <2>5, <2>6, <2>7, <2>8, <2>9 DEF Progress
<1>11. Moved(o, now)
  BY <1>3, <1>5, <1>8, <1>9, <1>10 DEF Moved
<1>12. QED
  BY <1>1, <1>2, <1>7, <1>11, GoKeeps

(* How a removal stands before the next key.                               *)
LEMMA Removing ==
  ASSUME NEW b, Progress(b, entries), Program1(b.todo), b.todo # <<>>, b.todo # Listing,
         Head(b.todo).do \in {"includes", "removeKey"}, NEW k, k = Head(b.todo).key
  PROVE  /\ k \in Keys /\ k \in Removes(b.todo) /\ k \in Cleared(b) /\ Puts(b.todo) = KeysPut(b)
         /\ entries[k] = b.began[k] /\ (k \in KeysThere(b) <=> entries[k] # Absent)
         /\ Head(b.todo).do = "removeKey" => entries[k] # Absent
         /\ b.answer = AnswerYet(b, Looks(b.todo), Removes(b.todo))
         /\ entries = EffectYet(b, KeysPut(b), Removes(b.todo))
         /\ Looks(b.todo) \subseteq KeysAsked(b) /\ Removes(b.todo) \subseteq Cleared(b)
<1>1. k \in Keys /\ k \in Removes(b.todo) /\ 1 \in DOMAIN b.todo /\ Head(b.todo) = b.todo[1]
  BY TailOK, HeadIs
<1>2. k \in Cleared(b) /\ Puts(b.todo) = KeysPut(b)
  BY <1>1 DEF Progress
<1>3. entries = EffectYet(b, KeysPut(b), Removes(b.todo))
  BY <1>2 DEF Progress
<1>4. entries[k] = b.began[k]
  BY <1>1, <1>3 DEF EffectYet
<1>5. k \in KeysThere(b) <=> entries[k] # Absent
  BY <1>1, <1>4 DEF KeysThere
<1>6. Head(b.todo).do = "removeKey" => entries[k] # Absent
  BY <1>1 DEF Progress
<1>7. QED
  BY <1>1, <1>2, <1>3, <1>4, <1>5, <1>6 DEF Progress

(* A key is removed or found to be gone, and the answer tells.             *)
LEMMA RemovedKey ==
  ASSUME NEW b, Progress(b, entries), Program1(b.todo), b.todo # <<>>, b.todo # Listing,
         b.call \in {"removeAll", "clear", "replaceAll"},
         Head(b.todo).do \in {"includes", "removeKey"}, NEW k, k = Head(b.todo).key,
         NEW a \in BOOLEAN, a \in {TRUE} <=> entries[k] # Absent,
         NEW o, o.todo = Tail(b.todo), o.call = b.call, o.began = b.began, o.given = b.given, o.limit = b.limit,
         o.value = b.value, o.answer = With(b.answer, k, a),
         NEW now, entries \in [Keys -> EntryValues], now = [entries EXCEPT ![k] = Absent]
  PROVE  Progress(o, now)
<1>1. /\ k \in Keys /\ k \in Removes(b.todo) /\ k \in Cleared(b) /\ Puts(b.todo) = KeysPut(b)
      /\ (k \in KeysThere(b) <=> entries[k] # Absent)
      /\ b.answer = AnswerYet(b, Looks(b.todo), Removes(b.todo))
      /\ entries = EffectYet(b, KeysPut(b), Removes(b.todo))
      /\ Looks(b.todo) \subseteq KeysAsked(b) /\ Removes(b.todo) \subseteq Cleared(b)
  BY Removing
<1>2. /\ Tail(b.todo) # Listing /\ Looks(Tail(b.todo)) = Looks(b.todo) /\ Puts(Tail(b.todo)) = Puts(b.todo)
      /\ Removes(Tail(b.todo)) = Removes(b.todo) \ {k}
      /\ \A i \in DOMAIN Tail(b.todo) : i + 1 \in DOMAIN b.todo /\ Tail(b.todo)[i] = b.todo[i + 1]
  BY TailOK
<1>3. KeysThere(o) = KeysThere(b) /\ KeysAsked(o) = KeysAsked(b) /\ KeysPut(o) = KeysPut(b) /\ Cleared(o) = Cleared(b)
  BY DEF KeysAsked, KeysThere, KeysPut, Cleared
<1>4. b.call \notin Reads \cup Bounded /\ b.call \notin {"keys", "size"} /\ b.call \notin Requires
  BY DEF Reads, Bounded, Picks, Requires
<1>5. b.answer = [j \in Cleared(b) \ Removes(b.todo) |-> j \in KeysThere(b)]
  BY <1>1, <1>4 DEF AnswerYet, Bounded
<1>6. DOMAIN b.answer \cup {k} = Cleared(b) \ (Removes(b.todo) \ {k})
  BY <1>1, <1>5
<1>7. \A j \in DOMAIN b.answer : b.answer[j] = (j \in KeysThere(b))
  BY <1>5
<1>8. With(b.answer, k, a) = [j \in Cleared(b) \ (Removes(b.todo) \ {k}) |-> j \in KeysThere(b)]
  <2>1. a = (k \in KeysThere(b))
    <3>1. CASE a = TRUE
      <4>1. k \in KeysThere(b)
        BY <1>1, <3>1
      <4>2. QED
        BY <3>1, <4>1, Zenon
    <3>2. CASE a = FALSE
      <4>1. k \notin KeysThere(b)
        BY <1>1, <3>2
      <4>2. (k \in KeysThere(b)) = FALSE
        BY <4>1
      <4>3. QED
        BY <3>2, <4>2
    <3>3. QED
      BY <3>1, <3>2
  <2>2. QED
    BY <1>6, <1>7, <2>1 DEF With
<1>9. AnswerYet(o, Looks(o.todo), Removes(o.todo)) = [j \in Cleared(b) \ (Removes(b.todo) \ {k}) |-> j \in KeysThere(b)]
  BY <1>2, <1>3, <1>4 DEF AnswerYet, Bounded
<1>10. now = EffectYet(o, Puts(o.todo), Removes(o.todo))
  <2>1. EffectYet(o, Puts(o.todo), Removes(o.todo)) = [j \in Keys |-> EffectYet(o, Puts(o.todo), Removes(o.todo))[j]]
    BY DEF EffectYet
  <2>2. \A j \in Keys : entries[j] = IF j \in Cleared(b) \ Removes(b.todo) THEN Absent ELSE b.began[j]
    BY <1>1 DEF EffectYet
  <2>3. ASSUME NEW j \in Keys PROVE EffectYet(o, Puts(o.todo), Removes(o.todo))[j]
                                       = IF j \in Cleared(b) \ (Removes(b.todo) \ {k}) THEN Absent ELSE b.began[j]
    BY <1>1, <1>2, <1>3 DEF EffectYet
  <2>4. \A j \in Keys : now[j] = EffectYet(o, Puts(o.todo), Removes(o.todo))[j]
    BY <1>1, <2>2, <2>3
  <2>5. now = [j \in Keys |-> now[j]]
    OBVIOUS
  <2>6. QED
    BY <2>1, <2>4, <2>5
<1>11. \A i \in DOMAIN o.todo : o.todo[i].do # "removeKey"
  <2>1. \A i \in DOMAIN b.todo : b.todo[i].do = "removeKey" => i = 1
    BY DEF Program1
  <2>2. \A i \in DOMAIN Tail(b.todo) : i + 1 # 1
    <3>1. Tail(b.todo) \in Seq(Steps)
      BY TailOK DEF Program1
    <3>2. DOMAIN Tail(b.todo) = 1..Len(Tail(b.todo)) /\ Len(Tail(b.todo)) \in Nat
      BY <3>1, LenProperties
    <3>3. QED
      BY <3>2
  <2>3. QED
    BY <1>2, <2>1, <2>2
<1>12. QED
  BY <1>1, <1>2, <1>3, <1>4, <1>8, <1>9, <1>10, <1>11 DEF Progress

RightlyTold(b, k, a, took) ==
  (a \in {TRUE} /\ (class = "rc" \/ k \in took)) \/ (a \in {FALSE} /\ Absent \in b.seen[k])

LEMMA RemovalTold ==
  ASSUME NEW b, Typed(b), Truthful(b), b.todo # <<>>, NEW k \in Keys, NEW a, NEW took \in SUBSET Keys,
         b.took \subseteq took, b.call \in {"removeAll", "clear", "replaceAll"},
         RightlyTold(b, k, a, took),
         NEW held \in SUBSET Keys, NEW o, o = Answered(b, k, a, held, took)
  PROVE  /\ Typed(o) /\ o.outcome = b.outcome /\ o.todo = Tail(b.todo) /\ o.held = held /\ o.took = took
         /\ o.call = b.call /\ o.began = b.began /\ o.seen = b.seen /\ o.alone = b.alone /\ o.hurt = b.hurt
         /\ o.given = b.given /\ o.limit = b.limit /\ o.value = b.value
         /\ o.answer = With(b.answer, k, a) /\ Truthful(o)
<1>1. /\ Typed(o) /\ o.outcome = b.outcome /\ o.todo = Tail(b.todo) /\ o.held = held /\ o.took = took
      /\ o.call = b.call /\ o.began = b.began /\ o.seen = b.seen /\ o.alone = b.alone /\ o.hurt = b.hurt
      /\ o.given = b.given /\ o.limit = b.limit /\ o.value = b.value
      /\ o.answer = With(b.answer, k, a)
  BY AnswersKey
<1>2. /\ DOMAIN o.answer = DOMAIN b.answer \cup {k} /\ o.answer[k] = a
      /\ \A j \in DOMAIN b.answer : j # k => o.answer[j] = b.answer[j]
  BY <1>1 DEF With
<1>3. Told(o, k)
  BY <1>1, <1>2 DEF Told, RightlyTold
<1>4. \A j \in DOMAIN o.answer : j = k \/ (j \in DOMAIN b.answer /\ o.answer[j] = b.answer[j])
  BY <1>2
<1>5. b.took \subseteq o.took
  BY <1>1
<1>6. Truthful(o)
  BY <1>1, <1>3, <1>4, <1>5, TruthfulKey
<1>7. QED
  BY <1>1, <1>6

(* A removal that finds the key gone, or removes it, answers at once.      *)
Removal(f, b, k, a, took, o) ==
  /\ op[f].outcome = "running" /\ b = op[f] /\ k = Head(b.todo).key
  /\ Head(b.todo).do \in {"includes", "removeKey"}
  /\ entries[k] # Absent => a \in {TRUE} /\ took = b.took \cup {k}
  /\ entries[k] = Absent => took = b.took /\ (a \in {FALSE} \/ (a \in {TRUE} /\ class = "rc" /\ Head(b.todo).do = "removeKey"))
  /\ o = Answered(b, k, a, b.held, took) /\ class' = class
  /\ entries' = [entries EXCEPT ![k] = Absent] /\ Go(f, o)

LEMMA RemovalMoved ==
  ASSUME KeyedInv, NEW f \in Flows, NEW b, NEW k, NEW a, NEW took, NEW o, Removal(f, b, k, a, took, o)
  PROVE  KeyedInv'
<1>0. /\ op[f].outcome = "running" /\ b = op[f] /\ k = Head(b.todo).key /\ class' = class /\ Go(f, o)
      /\ Head(b.todo).do \in {"includes", "removeKey"}
  BY DEF Removal
<1>1. /\ Typed(b) /\ b \in OpStates(b.answer, b.left) /\ Truthful(b) /\ Handles(b) /\ b.outcome = "running"
      /\ TodoOK(b.call, b.todo) /\ Program1(b.todo) /\ b.todo # <<>>
      /\ \A j \in Keys : entries[j] \in b.seen[j]
      /\ Undisturbed(b) => Progress(b, entries)
      /\ Head(b.todo).do \in May(b.call) /\ b.todo # Listing
  BY <1>0, Running1
<1>2. /\ Program1(Tail(b.todo)) /\ k \in Keys
      /\ \A i \in DOMAIN Tail(b.todo) : i + 1 \in DOMAIN b.todo /\ Tail(b.todo)[i] = b.todo[i + 1]
  BY <1>0, <1>1, TailOK
<1>3. TodoOK(b.call, Tail(b.todo))
  BY <1>1, <1>2 DEF TodoOK
<1>4. b.call \in {"removeAll", "clear", "replaceAll"}
  BY <1>0, <1>1 DEF May, OpStates, DictCalls, Lists, Bounded, Writes
<1>5. /\ b.held \in SUBSET Keys /\ b.took \in SUBSET Keys /\ took \in SUBSET Keys /\ b.took \subseteq took
      /\ RightlyTold(b, k, a, took)
      /\ o = Answered(b, k, a, b.held, took)
  <2>1. b.held \in SUBSET Keys /\ b.took \in SUBSET Keys
    BY <1>1 DEF OpStates
  <2>2. entries[k] \in b.seen[k]
    BY <1>1, <1>2
  <2>3. QED
    BY <1>2, <2>1, <2>2 DEF Removal, RightlyTold
<1>6. /\ Typed(o) /\ o.outcome = b.outcome /\ o.todo = Tail(b.todo) /\ o.held = b.held /\ o.took = took
      /\ o.call = b.call /\ o.began = b.began /\ o.seen = b.seen /\ o.alone = b.alone /\ o.hurt = b.hurt
      /\ o.given = b.given /\ o.limit = b.limit /\ o.value = b.value
      /\ o.answer = With(b.answer, k, a) /\ Truthful(o)
  <2>1. PICK held : held = b.held
    OBVIOUS
  <2>2. held \in SUBSET Keys /\ o = Answered(b, k, a, held, took) /\ took \in SUBSET Keys /\ b.took \subseteq took
    BY <1>5, <2>1
  <2>3. RightlyTold(b, k, a, took)
    BY <1>5
  <2>4. /\ Typed(o) /\ o.outcome = b.outcome /\ o.todo = Tail(b.todo) /\ o.held = held /\ o.took = took
        /\ o.call = b.call /\ o.began = b.began /\ o.seen = b.seen /\ o.alone = b.alone /\ o.hurt = b.hurt
        /\ o.given = b.given /\ o.limit = b.limit /\ o.value = b.value
        /\ o.answer = With(b.answer, k, a) /\ Truthful(o)
    <3>1. Typed(b) /\ Truthful(b) /\ b.todo # <<>> /\ k \in Keys
      BY <1>1, <1>2
    <3>2. b.call \in {"removeAll", "clear", "replaceAll"}
      BY <1>4
    <3>3. QED
      BY <2>2, <2>3, <3>1, <3>2, RemovalTold
  <2>5. QED
    BY <2>1, <2>4
<1>10. Handles(o)
  BY <1>1, <1>4, <1>6 DEF Handles
<1>11. entries \in [Keys -> EntryValues] /\ entries' \in [Keys -> EntryValues]
  BY DEF KeyedInv, EntryValues, Removal
<1>12. PICK now : now = entries'
  OBVIOUS
<1>13. ASSUME Undisturbed(o) PROVE Progress(o, now)
  <2>1. Progress(b, entries)
    BY <1>1, <1>6, <1>13 DEF Undisturbed
  <2>2. Head(b.todo).do = "removeKey" => entries[k] # Absent
    BY <1>0, <1>1, <2>1, Removing
  <2>3. a \in BOOLEAN /\ (a \in {TRUE} <=> entries[k] # Absent)
    BY <2>2 DEF Removal
  <2>4. now = [entries EXCEPT ![k] = Absent]
    BY <1>12 DEF Removal
  <2>5. /\ o.todo = Tail(b.todo) /\ o.call = b.call /\ o.began = b.began /\ o.given = b.given
        /\ o.limit = b.limit /\ o.value = b.value /\ o.answer = With(b.answer, k, a)
    BY <1>6
  <2>6. /\ Program1(b.todo) /\ b.todo # <<>> /\ b.todo # Listing /\ k = Head(b.todo).key
        /\ Head(b.todo).do \in {"includes", "removeKey"} /\ entries \in [Keys -> EntryValues]
    BY <1>0, <1>1, <1>11
  <2>7. QED
    BY <1>4, <2>1, <2>3, <2>4, <2>5, <2>6, RemovedKey
<1>14. Moved(o, now)
  BY <1>1, <1>3, <1>6, <1>10, <1>13 DEF Moved
<1>15. QED
  BY <1>0, <1>1, <1>6, <1>11, <1>12, <1>14, GoKeeps

LEMMA AnsweredIs ==
  ASSUME NEW b, Typed(b), NEW k \in Keys, NEW a
  PROVE  /\ Answering(b, k, a) = Answered(b, k, a, b.held, b.took)
         /\ [Answering(b, k, a) EXCEPT !.took = @ \cup {k}] = Answered(b, k, a, b.held, b.took \cup {k})
<1>1. b \in OpStates(b.answer, b.left)
  BY DEF Typed
<1>2. PICK u : u = Answering(b, k, a)
  OBVIOUS
<1>3. u.held = b.held /\ u.took = b.took
  BY <1>1, <1>2 DEF Answering, Next1, OpStates
<1>4. u = [u EXCEPT !.held = b.held, !.took = b.took]
  BY <1>1, <1>2, <1>3 DEF Answering, Next1, OpStates
<1>5. [u EXCEPT !.took = @ \cup {k}] = [u EXCEPT !.held = b.held, !.took = b.took \cup {k}]
  BY <1>1, <1>2, <1>3 DEF Answering, Next1, OpStates
<1>6. QED
  BY <1>2, <1>4, <1>5 DEF Answered

LEMMA RemoveKeyKeeps == ASSUME KeyedInv, NEW f \in Flows, RemoveKey(f) PROVE KeyedInv'
<1> USE KeyedAssumption
<1>1. PICK b, k, now : b = op[f] /\ k = Head(b.todo).key /\ now = entries'
  OBVIOUS
<1>2. /\ b.outcome = "running" /\ Head(b.todo).do = "removeKey" /\ class' = class
      /\ entries' = [entries EXCEPT ![k] = Absent]
  BY <1>1 DEF RemoveKey, Running
<1>3. /\ Typed(b) /\ Truthful(b) /\ Program1(b.todo) /\ b.todo # <<>> /\ b.todo # Listing
      /\ Undisturbed(b) => Progress(b, entries)
  BY <1>1, <1>2, Running1
<1>4. k \in Keys /\ b.took \in SUBSET Keys
  BY <1>1, <1>3, TailOK DEF Typed, OpStates
<1>5. entries \in [Keys -> EntryValues] /\ entries' \in [Keys -> EntryValues]
  BY <1>2 DEF KeyedInv, EntryValues
<1>6. CASE entries[k] # Absent
  <2>1. Go(f, Answered(b, k, TRUE, b.held, b.took \cup {k}))
    <3>1. Go(f, [Answering(b, k, TRUE) EXCEPT !.took = @ \cup {k}])
      BY <1>1, <1>6 DEF RemoveKey
    <3>2. QED
      BY <1>3, <1>4, <3>1, AnsweredIs
  <2>2. PICK a, took, o : a = TRUE /\ took = b.took \cup {k} /\ o = Answered(b, k, a, b.held, took)
    OBVIOUS
  <2>3. QED
    BY <1>1, <1>2, <1>6, <2>1, <2>2, RemovalMoved DEF Removal
<1>7. CASE entries[k] = Absent /\ class = "rc"
  <2>1. Go(f, Answered(b, k, TRUE, b.held, b.took))
    <3>1. Go(f, Answering(b, k, TRUE))
      BY <1>1, <1>7 DEF RemoveKey
    <3>2. QED
      BY <1>3, <1>4, <3>1, AnsweredIs
  <2>2. PICK a, took, o : a = TRUE /\ took = b.took /\ o = Answered(b, k, a, b.held, took)
    OBVIOUS
  <2>3. QED
    BY <1>1, <1>2, <1>7, <2>1, <2>2, RemovalMoved DEF Removal
<1>8. CASE entries[k] = Absent /\ class # "rc"
  <2>1. PICK o, hurt : o = Thrown(b) /\ hurt = FALSE
    OBVIOUS
  <2>2. Go(f, o)
    BY <1>1, <1>8, <2>1 DEF RemoveKey
  <2>3. ~Undisturbed(b)
    BY <1>1, <1>2, <1>3, <1>8, Removing
  <2>4. Moved(o, now)
    BY <1>3, <2>1, <2>3, KeyedFails
  <2>5. QED
    BY <1>1, <1>2, <1>5, <2>2, <2>4, GoKeeps
<1>9. QED
  BY <1>6, <1>7, <1>8

LEMMA IncludesKeeps == ASSUME KeyedInv, NEW f \in Flows, Includes(f) PROVE KeyedInv'
<1> USE KeyedAssumption
<1>1. PICK b, k, now : b = op[f] /\ k = Head(b.todo).key /\ now = entries
  OBVIOUS
<1>2. /\ b.outcome = "running" /\ Head(b.todo).do = "includes" /\ class' = class /\ entries' = entries
  BY <1>1 DEF Includes, Running
<1>3. /\ Typed(b) /\ b \in OpStates(b.answer, b.left) /\ Truthful(b) /\ Handles(b)
      /\ TodoOK(b.call, b.todo) /\ Program1(b.todo) /\ b.todo # <<>>
      /\ \A j \in Keys : entries[j] \in b.seen[j]
      /\ Undisturbed(b) => Progress(b, entries)
      /\ Head(b.todo).do \in May(b.call) /\ b.todo # Listing
  BY <1>1, <1>2, Running1
<1>4. k \in Keys
  BY <1>1, <1>3, TailOK
<1>5. entries \in [Keys -> EntryValues] /\ entries' \in [Keys -> EntryValues]
  BY <1>2 DEF KeyedInv
<1>6. CASE entries[k] = Absent
  <2>1. Go(f, Answered(b, k, FALSE, b.held, b.took))
    <3>1. Go(f, Answering(b, k, FALSE))
      BY <1>1, <1>6 DEF Includes
    <3>2. QED
      BY <1>3, <1>4, <3>1, AnsweredIs
  <2>2. PICK a, took, o : a = FALSE /\ took = b.took /\ o = Answered(b, k, a, b.held, took)
    OBVIOUS
  <2>3. entries' = [entries EXCEPT ![k] = Absent]
    BY <1>2, <1>4, <1>5, <1>6
  <2>4. QED
    BY <1>1, <1>2, <1>6, <2>1, <2>2, <2>3, RemovalMoved DEF Removal
<1>7. CASE entries[k] # Absent
  <2>1. PICK s : s = Each("removeKey", <<k>>) \o Tail(b.todo)
    OBVIOUS
  <2>2. PICK o : o = [b EXCEPT !.todo = s]
    OBVIOUS
  <2>3. Go(f, o)
    BY <1>1, <1>7, <2>1, <2>2 DEF Includes
  <2>4. /\ Program1(s) /\ s # Listing /\ s # <<>>
        /\ Looks(s) = Looks(b.todo) /\ Puts(s) = Puts(b.todo) /\ Removes(s) = Removes(b.todo)
        /\ \A i \in DOMAIN s : s[i].do = "removeKey" \/ (i \in DOMAIN b.todo /\ s[i].do = b.todo[i].do)
        /\ Head(s).do = "removeKey" /\ Head(s).key = k
    <3>1. PICK t : t = b.todo
      OBVIOUS
    <3>2. Program1(t) /\ t # <<>> /\ t # Listing /\ Head(t).do = "includes" /\ s = Each("removeKey", <<Head(t).key>>) \o Tail(t)
      BY <1>1, <1>2, <1>3, <2>1, <3>1
    <3>3. /\ Program1(s) /\ s # Listing /\ s # <<>>
          /\ Looks(s) = Looks(t) /\ Puts(s) = Puts(t) /\ Removes(s) = Removes(t)
          /\ \A i \in DOMAIN s : s[i].do = "removeKey" \/ (i \in DOMAIN t /\ s[i].do = t[i].do)
          /\ Head(s).do = "removeKey" /\ Head(s).key = Head(t).key
      BY <3>2, AskedFor
    <3>4. QED
      BY <1>1, <3>1, <3>3
  <2>5. b.call \in {"removeAll", "clear", "replaceAll"} /\ "removeKey" \in May(b.call)
    BY <1>2, <1>3 DEF May, OpStates, DictCalls, Lists, Bounded, Writes, Reads, Picks, Requires
  <2>6. TodoOK(b.call, s)
    BY <1>3, <2>4, <2>5 DEF TodoOK
  <2>7. /\ Typed(o) /\ o.todo = s /\ o.outcome = "running" /\ o.call = b.call /\ o.answer = b.answer
        /\ o.held = b.held /\ o.took = b.took /\ o.seen = b.seen /\ o.alone = b.alone /\ o.hurt = b.hurt
        /\ o.began = b.began /\ o.given = b.given /\ o.limit = b.limit /\ o.value = b.value
    BY <1>2, <1>3, <2>2, <2>4 DEF Typed, OpStates, Program1
  <2>8. Truthful(o) /\ Handles(o)
    BY <1>3, <2>5, <2>7 DEF Truthful, Told, Handles
  <2>9. ASSUME Undisturbed(o) PROVE Progress(o, now)
    <3>1. Progress(b, entries)
      BY <1>3, <2>7, <2>9 DEF Undisturbed
    <3>2. KeysThere(o) = KeysThere(b) /\ KeysAsked(o) = KeysAsked(b) /\ KeysPut(o) = KeysPut(b) /\ Cleared(o) = Cleared(b)
      BY <2>7 DEF KeysAsked, KeysThere, KeysPut, Cleared
    <3>3. /\ AnswerYet(o, Looks(s), Removes(s)) = AnswerYet(b, Looks(s), Removes(s))
          /\ EffectYet(o, Puts(s), Removes(s)) = EffectYet(b, Puts(s), Removes(s))
      BY <2>7, <3>2 DEF AnswerYet, EffectYet
    <3>4. \A i \in DOMAIN s : s[i].do = "removeKey" => s[i].key = k
      <4>1. Head(s) = s[1]
        BY <2>4, HeadTailProperties DEF Program1
      <4>2. QED
        BY <2>4, <4>1 DEF Program1
    <3>5. QED
      BY <1>1, <1>3, <1>7, <2>4, <2>7, <3>1, <3>2, <3>3, <3>4 DEF Progress
  <2>10. Moved(o, now)
    BY <1>3, <2>6, <2>7, <2>8, <2>9 DEF Moved
  <2>11. QED
    BY <1>1, <1>2, <1>5, <2>3, <2>10, GoKeeps
<1>8. QED
  BY <1>6, <1>7

(* The keys that are there, each of them once.                             *)
LEMMA ListedKeys ==
  ASSUME NEW there \in SUBSET Keys
  PROVE  SetToSeq(there) \in Seq(Keys) /\ IsInjective(SetToSeq(there)) /\ Range(SetToSeq(there)) = there
<1>1. IsFiniteSet(there)
  BY KeyedAssumption, FS_Subset
<1>2. PICK n : n = Cardinality(there)
  OBVIOUS
<1>3. n \in Nat /\ ExistsBijection(1..n, there)
  BY <1>1, <1>2, FS_CardinalityType
<1>4. PICK s : s = SetToSeq(there)
  OBVIOUS
<1>5. s \in [1..n -> there] /\ IsInjective(s)
  <2>1. \E g \in [1..n -> there] : IsInjective(g)
    BY <1>3 DEF ExistsBijection, Bijection, Injection
  <2>2. s = CHOOSE g \in [1..n -> there] : IsInjective(g)
    BY <1>2, <1>4 DEF SetToSeq
  <2>3. QED
    BY <2>1, <2>2
<1>6. s \in Injection(1..n, there)
  BY <1>5 DEF Injection
<1>7. Cardinality(1..n) = n
  BY <1>3, FS_Interval
<1>8. s \in Surjection(1..n, there)
  BY <1>1, <1>2, <1>6, <1>7, FS_Injection
<1>9. Range(s) = there
  BY <1>5, <1>8 DEF Surjection, Range
<1>10. s \in Seq(Keys)
  BY <1>3, <1>5
<1>11. QED
  BY <1>4, <1>5, <1>9, <1>10

(* replaceAll removes the keys that are there, then puts those given.      *)
LEMMA RemovesThenPuts ==
  ASSUME NEW ks \in Seq(Keys), IsInjective(ks), NEW js \in Seq(Keys), IsInjective(js), js # <<>>
  PROVE  LET t == Each("includes", ks) \o Each("put", js)
         IN  /\ Program1(t) /\ t # Listing /\ \A i \in DOMAIN t : t[i].do \in {"includes", "put"}
             /\ Looks(t) = {} /\ Puts(t) = Range(js) /\ Removes(t) = Range(ks)
<1>1. PICK r, p, t : r = Each("includes", ks) /\ p = Each("put", js) /\ t = Each("includes", ks) \o Each("put", js)
  OBVIOUS
<1>2. /\ Program1(r) /\ r # Listing /\ \A i \in DOMAIN r : r[i].do = "includes"
      /\ Removes(r) = Range(ks) /\ r \in Seq(Steps)
  BY <1>1, EachOK DEF Program1
<1>3. /\ Program1(p) /\ p # Listing /\ \A i \in DOMAIN p : p[i].do = "put"
      /\ Puts(p) = Range(js) /\ p \in Seq(Steps)
  BY <1>1, EachOK DEF Program1
<1>4. /\ t \in Seq(Steps) /\ Len(t) = Len(r) + Len(p)
      /\ \A i \in 1..(Len(r) + Len(p)) : t[i] = IF i <= Len(r) THEN r[i] ELSE p[i - Len(r)]
  BY <1>1, <1>2, <1>3, ConcatProperties
<1>5. /\ Len(r) \in Nat /\ Len(p) \in Nat /\ Len(t) \in Nat
      /\ DOMAIN r = 1..Len(r) /\ DOMAIN p = 1..Len(p) /\ DOMAIN t = 1..Len(t)
  BY <1>2, <1>3, <1>4, LenProperties
<1>6. \A i \in DOMAIN t : IF i <= Len(r) THEN i \in DOMAIN r /\ t[i] = r[i]
                          ELSE i - Len(r) \in DOMAIN p /\ t[i] = p[i - Len(r)]
  BY <1>4, <1>5
<1>7. \A i \in DOMAIN t : IF i <= Len(r) THEN t[i].do = "includes" ELSE t[i].do = "put"
  BY <1>2, <1>3, <1>6
<1>8. \A i \in DOMAIN t : t[i].key \in Keys
  BY <1>2, <1>3, <1>6 DEF Program1
<1>9. t # Listing
  BY <1>4, <1>5, <1>7, ListingIs
<1>10. \A i, j \in DOMAIN t : i # j /\ (t[i].do = "put" <=> t[j].do = "put") => t[i].key # t[j].key
  <2>1. SUFFICES ASSUME NEW i \in DOMAIN t, NEW j \in DOMAIN t, i # j, t[i].do = "put" <=> t[j].do = "put"
                 PROVE  t[i].key # t[j].key
    OBVIOUS
  <2>2. CASE i <= Len(r)
    <3>1. j <= Len(r) /\ t[i] = r[i] /\ t[j] = r[j] /\ i \in DOMAIN r /\ j \in DOMAIN r
      BY <1>6, <1>7, <2>1, <2>2
    <3>2. QED
      BY <1>2, <2>1, <3>1 DEF Program1
  <2>3. CASE ~(i <= Len(r))
    <3>1. /\ ~(j <= Len(r)) /\ t[i] = p[i - Len(r)] /\ t[j] = p[j - Len(r)]
          /\ i - Len(r) \in DOMAIN p /\ j - Len(r) \in DOMAIN p
      BY <1>6, <1>7, <2>1, <2>3
    <3>2. i - Len(r) # j - Len(r)
      BY <1>5, <2>1
    <3>3. QED
      BY <1>3, <2>1, <3>1, <3>2 DEF Program1
  <2>4. QED
    BY <2>2, <2>3
<1>11. \A i, j \in DOMAIN t : i < j /\ t[i].do = "put" => t[j].do = "put"
  BY <1>5, <1>7
<1>12. Program1(t)
  BY <1>4, <1>7, <1>8, <1>10, <1>11 DEF Program1
<1>13. Looks(t) = {}
  BY <1>7 DEF Looks, KeysToDo
<1>14. Removes(t) = Range(ks)
  <2>1. ASSUME NEW k \in Removes(t) PROVE k \in Removes(r)
    <3>1. PICK i \in DOMAIN t : t[i].do \in {"includes", "removeKey"} /\ k = t[i].key
      BY DEF Removes, KeysToDo
    <3>2. i \in DOMAIN r /\ t[i] = r[i]
      BY <1>6, <1>7, <3>1
    <3>3. QED
      BY <3>1, <3>2 DEF Removes, KeysToDo
  <2>2. ASSUME NEW k \in Removes(r) PROVE k \in Removes(t)
    <3>1. PICK i \in DOMAIN r : r[i].do \in {"includes", "removeKey"} /\ k = r[i].key
      BY DEF Removes, KeysToDo
    <3>2. i \in DOMAIN t /\ t[i] = r[i]
      BY <1>4, <1>5, <1>6, <3>1
    <3>3. QED
      BY <3>1, <3>2 DEF Removes, KeysToDo
  <2>3. QED
    BY <1>2, <2>1, <2>2
<1>15. Puts(t) = Range(js)
  <2>1. ASSUME NEW k \in Puts(t) PROVE k \in Puts(p)
    <3>1. PICK i \in DOMAIN t : t[i].do = "put" /\ k = t[i].key
      BY DEF Puts, KeysToDo
    <3>2. i - Len(r) \in DOMAIN p /\ t[i] = p[i - Len(r)]
      BY <1>6, <1>7, <3>1
    <3>3. QED
      BY <3>1, <3>2 DEF Puts, KeysToDo
  <2>2. ASSUME NEW k \in Puts(p) PROVE k \in Puts(t)
    <3>1. PICK i \in DOMAIN p : p[i].do = "put" /\ k = p[i].key
      BY DEF Puts, KeysToDo
    <3>2. i + Len(r) \in DOMAIN t /\ ~(i + Len(r) <= Len(r)) /\ i + Len(r) - Len(r) = i
      BY <1>4, <1>5, <3>1
    <3>3. t[i + Len(r)] = p[i]
      BY <1>6, <3>2
    <3>4. QED
      BY <3>1, <3>2, <3>3 DEF Puts, KeysToDo
  <2>3. QED
    BY <1>3, <2>1, <2>2
<1>16. \A i \in DOMAIN t : t[i].do \in {"includes", "put"}
  BY <1>7
<1>17. QED
  BY <1>1, <1>9, <1>12, <1>13, <1>14, <1>15, <1>16

(* Nothing of the answer yet, and all is to be done.                       *)
LEMMA AllToDo ==
  ASSUME NEW o, NEW now, now = o.began, o.began \in [Keys -> EntryValues], o.answer = <<>>, o.todo # Listing,
         o.call \notin {"keys", "size"},
         o.call \in Bounded /\ class # "rc" => Cardinality(KeysThere(o)) <= o.limit,
         o.call \in Reads \cup {"entries", "items", "itemsOop"} => Looks(o.todo) = KeysAsked(o),
         Looks(o.todo) \subseteq KeysAsked(o), Puts(o.todo) = KeysPut(o), Removes(o.todo) = Cleared(o),
         \A i \in DOMAIN o.todo : o.todo[i].do # "removeKey"
  PROVE  Progress(o, now)
<1>1. o.answer = AnswerYet(o, Looks(o.todo), Removes(o.todo))
  <2>1. CASE o.call \in Reads \cup {"entries", "items"}
    <3>1. KeysAsked(o) \ Looks(o.todo) = {}
      BY <2>1
    <3>2. QED
      BY <2>1, <3>1 DEF AnswerYet
  <2>2. CASE o.call = "itemsOop"
    <3>1. {j \in KeysThere(o) \ Looks(o.todo) : o.began[j] # Nil} = {}
      BY <2>2 DEF KeysAsked, Reads, Picks, Requires
    <3>2. QED
      BY <2>2, <3>1 DEF AnswerYet, Reads, Picks, Requires
  <2>3. CASE o.call \in {"removeAll", "clear", "replaceAll"}
    <3>1. Cleared(o) \ Removes(o.todo) = {}
      OBVIOUS
    <3>2. QED
      BY <2>3, <3>1 DEF AnswerYet, Reads, Picks, Requires
  <2>4. CASE o.call \notin Reads \cup {"entries", "items", "itemsOop", "removeAll", "clear", "replaceAll"}
    BY <2>4 DEF AnswerYet
  <2>5. QED
    BY <2>1, <2>2, <2>3, <2>4
<1>2. now = EffectYet(o, Puts(o.todo), Removes(o.todo))
  BY DEF EffectYet
<1>3. o.call \in Requires => KeysAsked(o) \ Looks(o.todo) = {}
  BY DEF Reads
<1>4. QED
  BY <1>1, <1>2, <1>3 DEF Progress

LEMMA ListKeeps == ASSUME KeyedInv, NEW f \in Flows, List(f) PROVE KeyedInv'
<1> USE KeyedAssumption
<1>1. PICK b, ks, now : b = op[f] /\ ks = SetToSeq(Listed) /\ now = entries
  OBVIOUS
<1>2. /\ b.outcome = "running" /\ Head(b.todo).do = "list" /\ class' = class /\ entries' = entries
  BY <1>1 DEF List, Running
<1>3. /\ Typed(b) /\ b \in OpStates(b.answer, b.left) /\ Truthful(b)
      /\ \A j \in Keys : entries[j] \in b.seen[j]
      /\ Undisturbed(b) => Progress(b, entries)
      /\ Head(b.todo).do \in May(b.call) /\ b.todo = Listing
  BY <1>1, <1>2, Running1
<1>4. b.call \in {"keys", "size", "entries", "items", "itemsOop", "clear", "replaceAll"}
  BY <1>2, <1>3 DEF May, OpStates, DictCalls, Lists, Bounded, Writes
<1>5. entries' \in [Keys -> EntryValues] /\ entries \in [Keys -> EntryValues]
  BY <1>2 DEF KeyedInv
<1>6. ks \in Seq(Keys) /\ IsInjective(ks) /\ Range(ks) = Listed /\ Listed \in SUBSET Keys
  <2>1. Listed \in SUBSET Keys
    BY DEF Listed
  <2>2. QED
    BY <1>1, <2>1, ListedKeys
<1>7. Undisturbed(b) => entries = b.began /\ KeysThere(b) = Listed
  BY <1>3 DEF Progress, KeysThere, Listed
<1>8. CASE b.call \in Bounded /\ class # "rc" /\ Cardinality(Listed) > b.limit
  <2>1. PICK o, hurt : o = Thrown(b) /\ hurt = FALSE
    OBVIOUS
  <2>2. Go(f, o)
    BY <1>1, <1>8, <2>1 DEF List
  <2>3. Undisturbed(b) => Refuses(b) /\ now = b.began
    BY <1>1, <1>7, <1>8 DEF Refuses, KeysThere
  <2>4. Moved(o, now)
    BY <1>3, <2>1, <2>3, KeyedFails
  <2>5. QED
    BY <1>1, <1>2, <1>5, <2>2, <2>4, GoKeeps
<1>9. CASE ~(b.call \in Bounded /\ class # "rc" /\ Cardinality(Listed) > b.limit)
  <2>1. PICK todo, answer :
          /\ todo = AfterList(b, ks)
          /\ answer = CASE b.call = "keys" -> [k \in Listed |-> TRUE]
                         [] b.call = "size" -> Cardinality(Listed)
                         [] b.call = "items" /\ class = "rc" -> [k \in Listed |-> entries[k]]
                         [] OTHER -> <<>>
    OBVIOUS
  <2>2. PICK o : o = [b EXCEPT !.todo = todo, !.answer = answer]
    OBVIOUS
  <2>3. Go(f, o)
    BY <1>1, <1>9, <2>1, <2>2 DEF List
  <2>4. b.given \in Seq(Keys) /\ b.given # <<>> /\ IsInjective(b.given)
    BY <1>3 DEF OpStates
  <2>5. /\ TodoOK(b.call, todo) /\ todo # Listing /\ todo \in Seq(Steps)
        /\ \A i \in DOMAIN todo : todo[i].do # "removeKey"
        /\ Looks(todo) = IF b.call \in {"entries", "items", "itemsOop"} /\ class # "rc" THEN Listed ELSE {}
        /\ Puts(todo) = IF b.call = "replaceAll" THEN Range(b.given) ELSE {}
        /\ Removes(todo) = IF b.call \in {"clear", "replaceAll"} THEN Listed ELSE {}
        /\ b.call \in {"entries", "items", "itemsOop"} /\ class = "rc" => todo = <<>>
    <3>1. CASE b.call \in {"keys", "size"} \/ (b.call \in {"entries", "items", "itemsOop"} /\ class = "rc")
      <4>1. todo = <<>>
        BY <2>1, <3>1 DEF AfterList
      <4>2. QED
        BY <3>1, <4>1, NothingTodo DEF TodoOK
    <3>2. CASE b.call \in {"entries", "items", "itemsOop"} /\ class # "rc"
      <4>1. todo = Each("look", ks)
        BY <2>1, <3>2 DEF AfterList
      <4>2. /\ Program1(todo) /\ todo # Listing /\ \A i \in DOMAIN todo : todo[i].do = "look"
            /\ Looks(todo) = Range(ks) /\ Puts(todo) = {} /\ Removes(todo) = {}
        BY <1>6, <4>1, EachOK
      <4>3. "look" \in May(b.call)
        BY <3>2 DEF May
      <4>4. QED
        BY <1>6, <3>2, <4>2, <4>3 DEF TodoOK, Program1
    <3>3. CASE b.call = "clear"
      <4>1. todo = Each("includes", ks)
        BY <2>1, <3>3 DEF AfterList
      <4>2. /\ Program1(todo) /\ todo # Listing /\ \A i \in DOMAIN todo : todo[i].do = "includes"
            /\ Looks(todo) = {} /\ Puts(todo) = {} /\ Removes(todo) = Range(ks)
        BY <1>6, <4>1, EachOK
      <4>3. "includes" \in May(b.call)
        BY <3>3 DEF May, Reads, Picks, Requires
      <4>4. QED
        BY <1>6, <3>3, <4>2, <4>3 DEF TodoOK, Program1
    <3>4. CASE b.call = "replaceAll"
      <4>1. todo = Each("includes", ks) \o Each("put", b.given)
        BY <2>1, <3>4 DEF AfterList
      <4>2. PICK js : js = b.given
        OBVIOUS
      <4>3. /\ Program1(todo) /\ todo # Listing /\ \A i \in DOMAIN todo : todo[i].do \in {"includes", "put"}
            /\ Looks(todo) = {} /\ Puts(todo) = Range(js) /\ Removes(todo) = Range(ks)
        BY <1>6, <2>4, <4>1, <4>2, RemovesThenPuts
      <4>4. "includes" \in May(b.call) /\ "put" \in May(b.call)
        BY <3>4 DEF May, Reads, Picks, Requires
      <4>5. QED
        BY <1>6, <3>4, <4>2, <4>3, <4>4 DEF TodoOK, Program1
    <3>5. QED
      BY <1>4, <3>1, <3>2, <3>3, <3>4
  <2>6. /\ b.call = "keys" => answer = [k \in Listed |-> TRUE]
        /\ b.call = "size" => answer = Cardinality(Listed)
        /\ b.call = "items" /\ class = "rc" => answer = [k \in Listed |-> entries[k]]
        /\ b.call \notin {"keys", "size"} /\ ~(b.call = "items" /\ class = "rc") => answer = <<>>
    BY <2>1
  <2>7. /\ Typed(o) /\ o.todo = todo /\ o.outcome = "running" /\ o.call = b.call /\ o.answer = answer
        /\ o.held = b.held /\ o.took = b.took /\ o.seen = b.seen /\ o.alone = b.alone /\ o.hurt = b.hurt
        /\ o.began = b.began /\ o.given = b.given /\ o.limit = b.limit /\ o.value = b.value
    <3>1. PICK t : t = [b EXCEPT !.answer = answer]
      OBVIOUS
    <3>2. /\ t \in OpStates(answer, b.left) /\ t.outcome = "running" /\ t.call = b.call /\ t.answer = answer
          /\ t.held = b.held /\ t.took = b.took /\ t.seen = b.seen /\ t.alone = b.alone /\ t.hurt = b.hurt
          /\ t.began = b.began /\ t.given = b.given /\ t.limit = b.limit /\ t.value = b.value /\ t.left = b.left
      BY <1>2, <1>3, <3>1 DEF OpStates
    <3>3. o = [t EXCEPT !.todo = todo]
      BY <1>3, <2>2, <3>1 DEF OpStates
    <3>4. /\ o \in OpStates(answer, b.left) /\ o.outcome = "running" /\ o.call = b.call /\ o.answer = answer
          /\ o.held = b.held /\ o.took = b.took /\ o.seen = b.seen /\ o.alone = b.alone /\ o.hurt = b.hurt
          /\ o.began = b.began /\ o.given = b.given /\ o.limit = b.limit /\ o.value = b.value /\ o.left = b.left
          /\ o.todo = todo
      BY <2>5, <3>2, <3>3 DEF OpStates
    <3>5. QED
      BY <1>3, <3>4 DEF Typed
  <2>8. Truthful(o)
    <3>1. \A k \in Listed : k \in Keys /\ entries[k] \in b.seen[k] /\ entries[k] # Absent
      BY <1>3 DEF Listed
    <3>2. CASE b.call = "keys"
      <4>1. o.answer = [k \in Listed |-> TRUE]
        BY <2>6, <2>7, <3>2
      <4>2. DOMAIN o.answer = Listed
        BY <4>1
      <4>3. QED
        BY <2>7, <3>1, <3>2, <4>2 DEF Truthful, Told
    <3>3. CASE b.call = "size"
      BY <2>7, <3>3 DEF Truthful
    <3>4. CASE b.call = "items" /\ class = "rc"
      <4>1. o.answer = [k \in Listed |-> entries[k]]
        BY <2>6, <2>7, <3>4
      <4>2. DOMAIN o.answer = Listed /\ \A k \in Listed : o.answer[k] = entries[k]
        BY <4>1
      <4>3. \A k \in Listed : o.answer[k] = Shown(o.call, entries[k])
        BY <2>7, <3>1, <3>4, <4>2 DEF Shown
      <4>4. QED
        BY <2>7, <3>1, <3>4, <4>2, <4>3 DEF Truthful, Told
    <3>5. CASE b.call \notin {"keys", "size"} /\ ~(b.call = "items" /\ class = "rc")
      <4>1. o.answer = <<>>
        BY <2>6, <2>7, <3>5
      <4>2. DOMAIN o.answer = {}
        BY <4>1
      <4>3. QED
        BY <4>2 DEF Truthful
    <3>6. QED
      BY <3>2, <3>3, <3>4, <3>5
  <2>9. Handles(o)
    BY <1>4, <2>7 DEF Handles
  <2>10. ASSUME Undisturbed(o) PROVE Progress(o, now)
    <3>1. entries = b.began /\ KeysThere(b) = Listed
      BY <1>7, <2>7, <2>10 DEF Undisturbed
    <3>2. KeysThere(o) = Listed /\ KeysAsked(o) = KeysAsked(b) /\ KeysPut(o) = KeysPut(b) /\ Cleared(o) = Cleared(b)
      BY <2>7, <3>1 DEF KeysThere, KeysAsked, KeysPut, Cleared
    <3>3. KeysAsked(b) = Listed /\ Puts(todo) = KeysPut(b) /\ Removes(todo) = Cleared(b)
      BY <1>4, <2>5, <3>1 DEF KeysAsked, KeysPut, Cleared, Reads, Picks, Requires
    <3>4. o.call \in Bounded /\ class # "rc" => Cardinality(KeysThere(o)) <= o.limit
      <4>1. Cardinality(Listed) \in Nat /\ b.limit \in Nat
        BY <1>3, <1>6, FS_Subset, FS_CardinalityType DEF OpStates
      <4>2. QED
        BY <1>9, <2>7, <3>2, <4>1
    <3>5. o.began \in [Keys -> EntryValues] /\ now = o.began
      BY <1>1, <1>5, <2>7, <3>1
    <3>6. CASE b.call \in {"keys", "size"} \/ (b.call = "items" /\ class = "rc")
      <4>1. Looks(todo) = {} /\ Puts(todo) = {} /\ Removes(todo) = {} /\ KeysPut(o) = {} /\ Cleared(o) = {}
        BY <2>5, <3>2, <3>3, <3>6
      <4>2. o.answer = AnswerYet(o, {}, {})
        <5>1. CASE b.call = "keys"
          BY <2>6, <2>7, <3>2, <5>1 DEF AnswerYet, Reads, Picks, Requires
        <5>2. CASE b.call = "size"
          BY <2>6, <2>7, <3>2, <5>2 DEF AnswerYet, Reads, Picks, Requires
        <5>3. CASE b.call = "items" /\ class = "rc"
          <6>1. \A k \in Listed : Shown(o.call, o.began[k]) = entries[k]
            BY <1>1, <2>7, <3>1, <3>5, <5>3 DEF Shown, Listed
          <6>2. AnswerYet(o, {}, {}) = [k \in Listed |-> Shown(o.call, o.began[k])]
            BY <2>7, <3>2, <3>3, <5>3 DEF AnswerYet
          <6>3. QED
            BY <2>6, <2>7, <5>3, <6>1, <6>2
        <5>4. QED
          BY <3>6, <5>1, <5>2, <5>3
      <4>3. now = EffectYet(o, {}, {})
        BY <3>5, <4>1 DEF EffectYet
      <4>4. o.call \notin Requires
        BY <1>4, <2>7 DEF Requires
      <4>5. QED
        BY <2>5, <2>7, <3>4, <4>1, <4>2, <4>3, <4>4 DEF Progress
    <3>7. CASE b.call \notin {"keys", "size"} /\ ~(b.call = "items" /\ class = "rc")
      <4>1. b.call \in {"entries", "items", "itemsOop"} => class # "rc"
        <5>1. b.call \in Offered[class] /\ class \in Classes
          BY <1>3 DEF Typed, KeyedInv
        <5>2. class = "rc" => b.call \notin {"entries", "itemsOop"}
          BY <5>1 DEF Offered, RcCalls, Writes
        <5>3. QED
          BY <3>7, <5>2
      <4>2. o.answer = <<>>
        BY <2>6, <2>7, <3>7
      <4>3. o.call \in Reads \cup {"entries", "items", "itemsOop"} => Looks(o.todo) = KeysAsked(o)
        BY <1>4, <2>5, <2>7, <3>2, <3>3, <4>1 DEF Reads, Picks, Requires
      <4>4. Looks(o.todo) \subseteq KeysAsked(o) /\ Puts(o.todo) = KeysPut(o) /\ Removes(o.todo) = Cleared(o)
        BY <2>5, <2>7, <3>2, <3>3
      <4>5. o.todo # Listing /\ \A i \in DOMAIN o.todo : o.todo[i].do # "removeKey"
        BY <2>5, <2>7
      <4>6. o.call \notin {"keys", "size"}
        BY <2>7, <3>7
      <4>7. QED
        BY <3>4, <3>5, <4>2, <4>3, <4>4, <4>5, <4>6, AllToDo
    <3>8. QED
      BY <3>6, <3>7
  <2>11. Moved(o, now)
    BY <1>3, <2>5, <2>7, <2>8, <2>9, <2>10 DEF Moved
  <2>12. QED
    BY <1>1, <1>2, <1>5, <2>3, <2>11, GoKeeps
<1>10. QED
  BY <1>8, <1>9

(* What an operation is to do when it begins.                              *)
LEMMA ProgramIs ==
  ASSUME NEW call \in DictCalls, NEW ks \in KeyLists, NEW t, t = Program(call, ks)
  PROVE  /\ TodoOK(call, t) /\ t # <<>> /\ t \in Seq(Steps) /\ \A i \in DOMAIN t : t[i].do # "removeKey"
         /\ call \in Reads \cup Writes => t # Listing
         /\ call \notin Reads \cup Writes => t = Listing
         /\ Looks(t) = IF call \in Reads THEN Range(ks) ELSE {}
         /\ Puts(t) = IF call = "setAll" THEN Range(ks) ELSE {}
         /\ Removes(t) = IF call = "removeAll" THEN Range(ks) ELSE {}
<1>1. ks \in Seq(Keys) /\ ks # <<>> /\ IsInjective(ks) /\ ks \in Seq(Keys \cup {Nil})
  BY KeyedAssumption
<1>2. \A do \in Dos : Each(do, ks) # <<>>
  <2>1. Len(ks) \in Nat \ {0}
    BY <1>1, LenProperties
  <2>2. \A do \in Dos : Len(Each(do, ks)) = Len(ks)
    BY <1>1, EachIs
  <2>3. QED
    BY <2>1, <2>2
<1>3. /\ call \in Reads => t = Each("look", ks)
      /\ call = "setAll" => t = Each("put", ks)
      /\ call = "removeAll" => t = Each("includes", ks)
      /\ call \notin Reads \cup Writes => t = Listing
  BY DEF Program, Listing, Reads, Picks, Requires, Writes
<1>4. CASE call \in Reads
  <2>1. /\ Program1(t) /\ t # Listing /\ \A i \in DOMAIN t : t[i].do = "look"
        /\ Looks(t) = Range(ks) /\ Puts(t) = {} /\ Removes(t) = {}
    BY <1>1, <1>3, <1>4, EachOK
  <2>2. "look" \in May(call) /\ call \notin {"setAll", "removeAll"} /\ t # <<>>
    BY <1>2, <1>3, <1>4 DEF May, Reads, Picks, Requires, Dos
  <2>3. QED
    BY <1>4, <2>1, <2>2 DEF TodoOK, Program1
<1>5. CASE call = "setAll"
  <2>1. /\ Program1(t) /\ t # Listing /\ \A i \in DOMAIN t : t[i].do = "put"
        /\ Looks(t) = {} /\ Puts(t) = Range(ks) /\ Removes(t) = {}
    BY <1>1, <1>3, <1>5, EachOK
  <2>2. "put" \in May(call) /\ call \notin Reads /\ call \in Writes /\ t # <<>>
    BY <1>2, <1>3, <1>5 DEF May, Reads, Picks, Requires, Dos, Writes
  <2>3. QED
    BY <1>5, <2>1, <2>2 DEF TodoOK, Program1
<1>6. CASE call = "removeAll"
  <2>1. /\ Program1(t) /\ t # Listing /\ \A i \in DOMAIN t : t[i].do = "includes"
        /\ Looks(t) = {} /\ Puts(t) = {} /\ Removes(t) = Range(ks)
    BY <1>1, <1>3, <1>6, EachOK
  <2>2. "includes" \in May(call) /\ call \notin Reads /\ call \in Writes /\ t # <<>>
    BY <1>2, <1>3, <1>6 DEF May, Reads, Picks, Requires, Dos, Writes
  <2>3. QED
    BY <1>6, <2>1, <2>2 DEF TodoOK, Program1
<1>7. CASE call \notin Reads \cup Writes
  <2>1. "list" \in May(call) /\ t = Listing
    BY <1>3, <1>7 DEF May, Writes
  <2>2. DOMAIN t = {1} /\ t[1].do = "list"
    BY <2>1, ListingIs, LenProperties DEF Program1
  <2>3. QED
    BY <1>7, <2>1, <2>2, ListingIs DEF TodoOK, Program1, Writes
<1>8. QED
  BY <1>4, <1>5, <1>6, <1>7 DEF Writes

LEMMA BeginKeeps == ASSUME KeyedInv, NEW f \in Flows, Begin(f) PROVE KeyedInv'
<1> USE KeyedAssumption
<1>1. PICK call \in MayCall[f] \cap Offered[class], ks \in KeyLists, max \in Limits, v \in {f, Nil} :
        op' = [op EXCEPT ![f] =
         [call |-> call, outcome |-> "running", given |-> ks, limit |-> max, value |-> v,
          todo |-> Program(call, ks), answer |-> <<>>, held |-> {},
          began |-> entries, seen |-> [k \in Keys |-> {entries[k]}],
          alone |-> TRUE, hurt |-> FALSE, took |-> {}, left |-> <<>>]]
  BY DEF Begin
<1>2. class' = class /\ entries' = entries
  BY DEF Begin
<1>3. entries \in [Keys -> EntryValues] /\ entries' \in [Keys -> EntryValues] /\ class \in Classes
  BY <1>2 DEF KeyedInv
<1>4. call \in Offered[class] /\ call \in DictCalls
  BY <1>1, <1>3 DEF Offered, Classes, DictCalls, GlobalCalls, RootCalls, RcCalls, Reads, Picks, Requires, Lists, Bounded
<1>5. PICK t, now, sights : t = Program(call, ks) /\ now = entries /\ sights = [k \in Keys |-> {entries[k]}]
  OBVIOUS
<1>6. PICK o : o = [call |-> call, outcome |-> "running", given |-> ks, limit |-> max, value |-> v,
          todo |-> t, answer |-> <<>>, held |-> {}, began |-> now, seen |-> sights,
          alone |-> TRUE, hurt |-> FALSE, took |-> {}, left |-> <<>>]
  OBVIOUS
<1>7. op' = [op EXCEPT ![f] = o]
  BY <1>1, <1>5, <1>6
<1>8. /\ TodoOK(call, t) /\ t # <<>> /\ t \in Seq(Steps) /\ \A i \in DOMAIN t : t[i].do # "removeKey"
      /\ call \in Reads \cup Writes => t # Listing
      /\ call \notin Reads \cup Writes => t = Listing
      /\ Looks(t) = IF call \in Reads THEN Range(ks) ELSE {}
      /\ Puts(t) = IF call = "setAll" THEN Range(ks) ELSE {}
      /\ Removes(t) = IF call = "removeAll" THEN Range(ks) ELSE {}
  BY <1>1, <1>4, <1>5, ProgramIs
<1>9. sights \in [Keys -> SUBSET EntryValues] /\ \A k \in Keys : entries[k] \in sights[k]
  BY <1>3, <1>5
<1>10. /\ o \in OpStates(o.answer, o.left) /\ o.call = call /\ o.outcome = "running" /\ o.given = ks /\ o.limit = max
       /\ o.todo = t /\ o.answer = <<>> /\ o.held = {} /\ o.began = now /\ o.seen = sights /\ o.value = v
  BY <1>1, <1>3, <1>4, <1>5, <1>6, <1>8, <1>9 DEF OpStates
<1>11. Typed(o) /\ Truthful(o) /\ Handles(o)
  <2>1. DOMAIN o.answer = {}
    BY <1>10
  <2>2. QED
    BY <1>4, <1>10, <2>1 DEF Typed, Truthful, Handles
<1>12. Progress(o, now)
  <2>1. CASE t = Listing
    BY <1>10, <2>1 DEF Progress
  <2>2. CASE t # Listing
    <3>1. call \in Reads \cup Writes
      BY <1>8, <2>2
    <3>2. o.call \notin {"keys", "size"} /\ o.call \notin Bounded
      BY <1>10, <3>1 DEF Reads, Picks, Requires, Writes, Bounded
    <3>3. call \in Reads => KeysAsked(o) = Range(ks) /\ KeysPut(o) = {} /\ Cleared(o) = {}
      BY <1>10 DEF KeysAsked, KeysPut, Cleared, Reads, Picks, Requires
    <3>4. call \in Writes => KeysPut(o) = Puts(t) /\ Cleared(o) = Removes(t) /\ call \notin Reads
      BY <1>8, <1>10 DEF KeysPut, Cleared, Writes, Reads, Picks, Requires
    <3>5. call \in Reads => call \notin Writes
      BY <3>4
    <3>6. Looks(o.todo) \subseteq KeysAsked(o) /\ Puts(o.todo) = KeysPut(o) /\ Removes(o.todo) = Cleared(o)
      BY <1>8, <1>10, <3>1, <3>3, <3>4, <3>5 DEF Writes
    <3>7. o.call \in Reads \cup {"entries", "items", "itemsOop"} => Looks(o.todo) = KeysAsked(o)
      BY <1>8, <1>10, <3>1, <3>2, <3>3 DEF Bounded
    <3>8. QED
      BY <1>3, <1>5, <1>8, <1>10, <2>2, <3>2, <3>6, <3>7, AllToDo
  <2>3. QED
    BY <2>1, <2>2
<1>13. OpOK(o)
  BY <1>5, <1>8, <1>9, <1>10, <1>11, <1>12 DEF OpOK
<1>14. ASSUME NEW g \in Flows PROVE OpOK(op[g])'
  <2>1. PICK b : b = op'[g]
    OBVIOUS
  <2>2. b = IF g = f THEN o ELSE op[g]
    BY <1>7, <2>1 DEF KeyedInv
  <2>3. OpOK(b)
    BY <1>13, <2>2 DEF KeyedInv
  <2>4. OpOK(b)'
    BY <1>2, <2>3, Rests
  <2>5. QED
    BY <2>1, <2>4
<1>15. QED
  <2>1. op' = [g \in Flows |-> op'[g]]
    BY <1>7 DEF KeyedInv
  <2>2. QED
    BY <1>2, <1>3, <1>14, <2>1 DEF KeyedInv

LEMMA KeyedSteps == KeyedInv /\ [KeyedNext]_keyedVars => KeyedInv'
<1> SUFFICES ASSUME KeyedInv, [KeyedNext]_keyedVars PROVE KeyedInv'
  OBVIOUS
<1>1. CASE UNCHANGED keyedVars
  BY <1>1, AllRest DEF keyedVars
<1>2. ASSUME NEW f \in Flows, KeyedStep(f) PROVE KeyedInv'
  BY <1>2, BeginKeeps, ListKeeps, LookKeeps, PutKeeps, IncludesKeeps, RemoveKeyKeeps, CallFailsKeeps, RootKeeps
     DEF KeyedStep
<1>3. QED
  BY <1>1, <1>2 DEF KeyedNext

(* The operations on dictionaries and persistent roots keep their          *)
(* invariant whoever else is at the same dictionary.                       *)
THEOREM KeyedIsKept == KeyedSpec => []KeyedInv
<1>1. QED
  BY KeyedStart, KeyedSteps, PTL DEF KeyedSpec

(* An operation during which nobody else changed the dictionary and no     *)
(* call failed is as good as one step.                                     *)
THEOREM KeyedOperationsAreAtomic == KeyedSpec => []KeyedAtomic
<1>1. KeyedInv => KeyedAtomic
  BY DEF KeyedInv, KeyedAtomic, OpOK, Ended, Undisturbed, AsOneStep
<1>2. QED
  BY <1>1, KeyedIsKept, PTL

(* An operation that others overtake answers for each key what was true at *)
(* a moment of it, and takes no credit for what another has removed.       *)
THEOREM KeyedAnswersWereTrue == KeyedSpec => []AnswersWereTrue
<1>1. ASSUME KeyedInv PROVE AnswersWereTrue
  <2>1. SUFFICES ASSUME NEW f \in Flows, op[f].outcome # "idle", op[f].call # "size", NEW k \in DOMAIN op[f].answer
                 PROVE  CASE op[f].call \in {"removeAll", "clear", "replaceAll"} ->
                               IF op[f].answer[k] THEN class = "rc" \/ k \in op[f].took ELSE Absent \in op[f].seen[k]
                          [] op[f].call = "keys" -> \E e \in op[f].seen[k] : e # Absent
                          [] OTHER -> \E e \in op[f].seen[k] : op[f].answer[k] = Shown(op[f].call, e)
    BY DEF AnswersWereTrue
  <2>2. Told(op[f], k)
    BY <1>1, <2>1 DEF KeyedInv, OpOK, Truthful
  <2>3. QED
    BY <2>2 DEF Told
<1>2. QED
  BY <1>1, KeyedIsKept, PTL

(* An operation that fails half way gives the handles back that it made.   *)
THEOREM KeyedHandlesComeBack == KeyedSpec => []HandlesComeBack
<1>1. KeyedInv => HandlesComeBack
  BY DEF KeyedInv, HandlesComeBack, OpOK, Ended, Handles
<1>2. QED
  BY <1>1, KeyedIsKept, PTL

-----------------------------------------------------------------------------
(* Operations on collections: what an operation has still to do            *)

Stuff == Items \cup Users

(* The fields but the calls to come, the answer and the elements at the    *)
(* end.                                                                    *)
WorkStates(todo, answer, left) ==
  [call : OrderedCalls \cup ArrayCalls, outcome : {"running", "done", "thrown"}, at : Int, given : Seq(Items),
   todo : {todo}, answer : {answer}, began : Seq(Stuff), alone : BOOLEAN, hurt : BOOLEAN, left : {left}]

TypedWork(u, o) ==
  /\ o \in WorkStates(o.todo, o.answer, o.left) /\ o.call \in Usable[kind]
  /\ o.given = Brings[u] /\ (kind # "ordered" => o.at >= 1)

Ending  == {"first", "last", "pop", "shift"}
Taking  == {"pop", "shift"}
ReadCalls == {"values", "reverse", "page", "pick"}
Adding  == {"append", "extend"}

(* What is to be added: parts of what the flow brings, none of them twice. *)
Adds(t, given) ==
  /\ t \in Seq([do : {"add"}, at : Seq(Range(given))])
  /\ \A i \in DOMAIN t : IsInjective(t[i].at)
  /\ \A i, j \in DOMAIN t : i # j => Range(t[i].at) \cap Range(t[j].at) = {}

(* The calls of the other operations.                                      *)
Allowed(call) ==
  IF call \in {"first", "last"} THEN {"isEmpty", "peek", "at"}
  ELSE IF call = "at" THEN {"locate", "at"}
  ELSE IF call = "remove" THEN {"includes", "remove"}
  ELSE IF call = "pick" THEN {"at"}
  ELSE IF call = "setAll" THEN {"put"}
  ELSE IF call = "clear" THEN {"clear"}
  ELSE {"size", "locate", "at"}

Plain(call, t) ==
  /\ \E S : t \in Seq(S)
  /\ \A i \in DOMAIN t : t[i].do \in Allowed(call)

(* Whoever interferes, an operation only does what it is for.              *)
Shape(o) ==
  IF o.call \in Taking THEN o.todo \in {To("isEmpty", o.call), To("take", o.call)} /\ o.answer = <<>>
  ELSE IF o.call \in Adding THEN Adds(o.todo, o.given)
  ELSE Plain(o.call, o.todo)

Target(step) == IF step.do = "locate" THEN step.at + 1 ELSE step.at

(* Elements that are read one after the other: those at `is'.              *)
ReadsOn(o, is) ==
  /\ o.todo \in Seq([do : {"locate", "at"}, at : Int]) /\ o.answer \in Seq(Stuff)
  /\ Len(o.todo) + Len(o.answer) = Len(is)
  /\ \A i \in 1..Len(o.todo) :
       /\ Target(o.todo[i]) = is[Len(o.answer) + i]
       /\ o.todo[i].do = "locate" => is[Len(o.answer) + i] \in DOMAIN o.began
  /\ \A i \in 1..Len(o.answer) : is[i] \in DOMAIN o.began /\ o.answer[i] = o.began[is[i]]

(* Where an operation stands that nobody disturbed.                        *)
EndStands(o) ==
  \/ kind # "queue" /\ o.todo = To("isEmpty", o.call)
  \/ kind = "queue" /\ o.todo = To(IF o.call = "first" THEN "peek" ELSE "take", o.call)
  \/ kind # "queue" /\ o.began # <<>> /\ o.todo = AfterCheck(o, Len(o.began))

AtStands(o) ==
  LET index == IF o.at < 0 THEN Len(o.began) + o.at ELSE o.at
  IN  \/ kind = "ordered" /\ o.todo = To("locate", o.at)
      \/ kind = "ordered" /\ index \in 0..Len(o.began) - 1 /\ o.todo = To("at", index + 1)
      \/ kind # "ordered" /\ o.todo = To("at", o.at)

ReadStands(o) ==
  IF o.call = "pick" THEN ReadsOn(o, <<o.at, 1>>)
  ELSE \/ o.todo = To("size", o.at) /\ o.answer = <<>>
       \/ ReadsOn(o, Indexes(o, Len(o.began))) /\ ~RefusedAtOnce(o)

(* Some of what the flow brings has been added, the rest is to be.         *)
Rest(all, m) == [i \in 1..(Len(all) - m) |-> <<all[m + i]>>]

AddStands(o, now) ==
  LET all == IF o.call = "append" THEN <<o.given[1]>> ELSE o.given
  IN  \E m \in 0..Len(all) :
        /\ now = o.began \o SubSeq(all, 1, m)
        /\ IF o.call = "extend" /\ kind = "queue" THEN o.todo = All("add", Rest(all, m))
           ELSE m = 0 /\ o.todo = To("add", all)

PutStands(u, o, now) ==
  \/ o.todo = All("put", <<o.at, 1>>) /\ now = o.began
  \/ o.todo = To("put", 1) /\ o.at \in DOMAIN o.began /\ now = [o.began EXCEPT ![o.at] = u]

Stands(u, o, now) ==
  /\ o.call \notin Adding \cup {"setAll"} => now = o.began
  /\ o.call \notin ReadCalls => o.answer = <<>>
  /\ o.call \in Ending => EndStands(o)
  /\ o.call = "at" => AtStands(o)
  /\ o.call = "remove" => o.todo = To("includes", o.at) \/ (o.began # <<>> /\ o.todo = To("remove", 0))
  /\ o.call \in ReadCalls => ReadStands(o)
  /\ o.call \in Adding => AddStands(o, now)
  /\ o.call = "setAll" => PutStands(u, o, now)
  /\ o.call = "clear" => o.todo = To("clear", 0)

AsAtOnce(u, o) ==
  IF RefusedAtOnce(o) THEN o.outcome = "thrown" /\ o.left = o.began
  ELSE o.outcome = "done" /\ o.answer = AnswerAtOnce(o) /\ o.left = EffectAtOnce(u, o)

InPeace(o) == o.alone /\ ~o.hurt

WorkOK(u, o) ==
  /\ o.outcome \in {"idle", "running", "done", "thrown"}
  /\ o.outcome # "idle" => TypedWork(u, o)
  /\ o.outcome = "running" => o.todo # <<>> /\ Shape(o) /\ (InPeace(o) => Stands(u, o, elements))
  /\ o.outcome \in {"done", "thrown"} /\ InPeace(o) => AsAtOnce(u, o)

OrderedInv ==
  /\ kind \in DOMAIN Usable /\ elements \in Seq(Stuff)
  /\ work = [u \in Users |-> work[u]]
  /\ \A u \in Users : WorkOK(u, work[u])

(* What an operation makes of a call: `o', with the elements `now'.        *)
WorkMoved(u, o, now) ==
  /\ o.outcome \in {"running", "thrown"} /\ TypedWork(u, o)
  /\ o.outcome = "running" /\ o.todo # <<>> => Shape(o) /\ (InPeace(o) => Stands(u, o, now))
  /\ o.outcome = "running" /\ o.todo = <<>> /\ InPeace(o) =>
       ~RefusedAtOnce(o) /\ o.answer = AnswerAtOnce(o) /\ now = EffectAtOnce(u, o)
  /\ o.outcome = "thrown" /\ InPeace(o) => RefusedAtOnce(o) /\ now = o.began

LEMMA OrderedStart == OrderedInit => OrderedInv
<1> SUFFICES ASSUME OrderedInit PROVE OrderedInv
  OBVIOUS
<1>1. \A u \in Users : work[u].outcome = "idle"
  BY DEF OrderedInit
<1>2. \A u \in Users : WorkOK(u, work[u])
  BY <1>1 DEF WorkOK
<1>3. elements \in Seq(Items)
  BY OrderedAssumption DEF OrderedInit
<1>4. elements \in Seq(Stuff)
  BY <1>3 DEF Stuff
<1>5. QED
  BY <1>2, <1>4 DEF OrderedInit, OrderedInv

LEMMA WorkRests ==
  ASSUME NEW u, NEW o, WorkOK(u, o), kind' = kind, elements' = elements \/ o.outcome # "running"
  PROVE  WorkOK(u, o)'
<1>1. TypedWork(u, o) => TypedWork(u, o)'
  BY DEF TypedWork
<1>2. Shape(o) => Shape(o)'
  BY DEF Shape
<1>3. AsAtOnce(u, o) => AsAtOnce(u, o)'
  BY DEF AsAtOnce, RefusedAtOnce, AnswerAtOnce, EffectAtOnce
<1>4. elements' = elements /\ Stands(u, o, elements) => Stands(u, o, elements)'
  BY DEF Stands, EndStands, AtStands, ReadStands, AddStands, PutStands, AfterCheck, RefusedAtOnce
<1>5. QED
  BY <1>1, <1>2, <1>3, <1>4 DEF WorkOK

LEMMA AllWorkRests == OrderedInv /\ UNCHANGED <<kind, elements, work>> => OrderedInv'
<1> SUFFICES ASSUME OrderedInv, kind' = kind, elements' = elements, work' = work PROVE OrderedInv'
  OBVIOUS
<1>1. ASSUME NEW u \in Users PROVE WorkOK(u, work[u])'
  <2>1. PICK o : o = work[u]
    OBVIOUS
  <2>2. WorkOK(u, o)'
    BY <2>1, WorkRests DEF OrderedInv
  <2>3. QED
    BY <2>1, <2>2
<1>2. QED
  BY <1>1 DEF OrderedInv

(* A flow goes on; the others notice at most that elements have changed.   *)
LEMMA ContinueKeeps ==
  ASSUME OrderedInv, NEW u \in Users, NEW o, Continue(u, o), WorkMoved(u, o, elements'),
         kind' = kind, elements' \in Seq(Stuff)
  PROVE  OrderedInv'
<1>1. work' = [w \in Users |-> work'[w]]
  BY DEF Continue
<1>2. ASSUME NEW w \in Users, w # u PROVE WorkOK(w, work[w])'
  <2>1. PICK b : b = work[w]
    OBVIOUS
  <2>2. WorkOK(w, b)
    BY <2>1 DEF OrderedInv
  <2>3. CASE elements' = elements \/ b.outcome # "running"
    <3>1. work'[w] = b
      BY <1>2, <2>1, <2>3 DEF Continue
    <3>2. WorkOK(w, b)'
      BY <2>2, <2>3, WorkRests
    <3>3. QED
      BY <3>1, <3>2
  <2>4. CASE ~(elements' = elements \/ b.outcome # "running")
    <3>1. TypedWork(w, b) /\ Shape(b) /\ b.todo # <<>>
      BY <2>2, <2>4 DEF WorkOK
    <3>2. PICK n : n = [b EXCEPT !.alone = FALSE]
      OBVIOUS
    <3>3. /\ n \in WorkStates(n.todo, n.answer, n.left) /\ n.call = b.call /\ n.outcome = b.outcome /\ n.at = b.at
          /\ n.given = b.given /\ n.todo = b.todo /\ n.answer = b.answer /\ n.alone = FALSE
      BY <3>1, <3>2 DEF TypedWork, WorkStates
    <3>4. work'[w] = n
      BY <1>2, <2>1, <2>4, <3>2 DEF Continue
    <3>5. TypedWork(w, n)' /\ Shape(n)'
      BY <3>1, <3>3 DEF TypedWork, Shape
    <3>6. WorkOK(w, n)'
      BY <2>4, <3>1, <3>3, <3>5 DEF WorkOK, InPeace
    <3>7. QED
      BY <3>4, <3>6
  <2>5. QED
    BY <2>3, <2>4
<1>3. WorkOK(u, work[u])'
  <2>1. TypedWork(u, o) /\ o.outcome \in {"running", "thrown"}
    BY DEF WorkMoved
  <2>2. CASE o.outcome = "running" /\ o.todo # <<>>
    <3>1. work'[u] = o
      BY <2>2 DEF Continue
    <3>2. PICK now : now = elements'
      OBVIOUS
    <3>3. Shape(o) /\ (InPeace(o) => Stands(u, o, now))
      BY <2>2, <3>2 DEF WorkMoved
    <3>4. TypedWork(u, o)' /\ Shape(o)'
      BY <2>1, <3>3 DEF TypedWork, Shape
    <3>5. Stands(u, o, now) => Stands(u, o, now)'
      BY DEF Stands, EndStands, AtStands, ReadStands, AddStands, PutStands, AfterCheck, RefusedAtOnce
    <3>6. WorkOK(u, o)'
      BY <2>2, <3>2, <3>3, <3>4, <3>5 DEF WorkOK, InPeace
    <3>7. QED
      BY <3>1, <3>6
  <2>3. CASE ~(o.outcome = "running" /\ o.todo # <<>>)
    <3>1. PICK end, now : end = (IF o.outcome = "running" THEN "done" ELSE o.outcome) /\ now = elements'
      OBVIOUS
    <3>2. PICK n : n = [o EXCEPT !.outcome = end, !.todo = <<>>, !.left = now]
      OBVIOUS
    <3>3. work'[u] = n
      BY <2>3, <3>1, <3>2 DEF Continue
    <3>4. end \in {"done", "thrown"} /\ (end = "done" <=> o.outcome = "running")
      BY <2>1, <3>1
    <3>5. /\ n \in WorkStates(<<>>, o.answer, now) /\ n.call = o.call /\ n.outcome = end /\ n.at = o.at
          /\ n.given = o.given /\ n.todo = <<>> /\ n.answer = o.answer /\ n.began = o.began /\ n.alone = o.alone
          /\ n.hurt = o.hurt /\ n.left = now
      BY <2>1, <3>2, <3>4 DEF TypedWork, WorkStates
    <3>6. TypedWork(u, n)'
      BY <2>1, <3>5 DEF TypedWork
    <3>7. ASSUME InPeace(n) PROVE AsAtOnce(u, n)'
      <4>1. /\ RefusedAtOnce(n)' = RefusedAtOnce(o) /\ AnswerAtOnce(n)' = AnswerAtOnce(o)
            /\ EffectAtOnce(u, n)' = EffectAtOnce(u, o)
        BY <3>5 DEF RefusedAtOnce, AnswerAtOnce, EffectAtOnce
      <4>2. InPeace(o)
        BY <3>5, <3>7 DEF InPeace
      <4>3. CASE end = "done"
        BY <2>3, <3>1, <3>4, <3>5, <4>1, <4>2, <4>3 DEF AsAtOnce, WorkMoved
      <4>4. CASE end = "thrown"
        BY <2>3, <3>1, <3>4, <3>5, <4>1, <4>2, <4>4 DEF AsAtOnce, WorkMoved
      <4>5. QED
        BY <3>4, <4>3, <4>4
    <3>8. WorkOK(u, n)'
      BY <3>4, <3>5, <3>6, <3>7 DEF WorkOK, InPeace
    <3>9. QED
      BY <3>3, <3>8
  <2>4. QED
    BY <2>2, <2>3
<1>4. QED
  BY <1>1, <1>2, <1>3 DEF OrderedInv

-----------------------------------------------------------------------------
(* Sequences of calls                                                      *)

LEMMA ToIs ==
  ASSUME NEW do, NEW at
  PROVE  /\ To(do, at) # <<>> /\ Len(To(do, at)) = 1 /\ DOMAIN To(do, at) = {1}
         /\ Head(To(do, at)).do = do /\ Head(To(do, at)).at = at /\ Tail(To(do, at)) = <<>>
         /\ To(do, at)[1].do = do /\ To(do, at)[1].at = at
         /\ To(do, at) \in Seq({[do |-> do, at |-> at]})
  BY DEF To

Calls(t, do, S, ats) ==
  /\ t \in Seq([do : {do}, at : S]) /\ Len(t) = Len(ats) /\ DOMAIN t = 1..Len(ats)
  /\ \A i \in 1..Len(ats) : t[i].do = do /\ t[i].at = ats[i]

LEMMA AllIs ==
  ASSUME NEW do, NEW S, NEW ats \in Seq(S)
  PROVE  Calls(All(do, ats), do, S, ats)
<1>1. Len(ats) \in Nat /\ DOMAIN ats = 1..Len(ats) /\ \A i \in 1..Len(ats) : ats[i] \in S
  BY LenProperties
<1>2. \A i \in 1..Len(ats) : [do |-> do, at |-> ats[i]] \in [do : {do}, at : S]
  BY <1>1
<1>3. All(do, ats) = [i \in 1..Len(ats) |-> [do |-> do, at |-> ats[i]]]
  BY <1>1 DEF All
<1>4. All(do, ats) \in Seq([do : {do}, at : S]) /\ Len(All(do, ats)) = Len(ats)
  BY <1>1, <1>2, <1>3
<1>5. QED
  BY <1>1, <1>3, <1>4 DEF Calls

LEMMA HeadDoes ==
  ASSUME NEW D, NEW S, NEW t \in Seq([do : D, at : S]), t # <<>>
  PROVE  Head(t).do \in D /\ Head(t).at \in S
<1>1. Head(t) \in [do : D, at : S]
  BY HeadTailProperties
<1>2. QED
  BY <1>1

LEMMA ConcatThrice ==
  ASSUME NEW S, NEW s \in Seq(S), NEW t \in Seq(S), NEW r \in Seq(S)
  PROVE  (s \o t) \o r = s \o (t \o r)
  BY ConcatAssociative

LEMMA AddsHead == ASSUME NEW t, NEW given, Adds(t, given), t # <<>> PROVE Head(t).do = "add"
<1>1. t \in Seq([do : {"add"}, at : Seq(Range(given))])
  BY DEF Adds
<1>2. Head(t).do \in {"add"}
  BY <1>1, HeadDoes, Zenon
<1>3. QED
  BY <1>2

LEMMA PlainConcat ==
  ASSUME NEW call, NEW s, NEW t, Plain(call, s), Plain(call, t)
  PROVE  Plain(call, s \o t)
<1>1. PICK S, T : s \in Seq(S) /\ t \in Seq(T)
  BY DEF Plain
<1>2. s \in Seq(S \cup T) /\ t \in Seq(S \cup T)
  BY <1>1, SeqMonotonic
<1>3. /\ s \o t \in Seq(S \cup T) /\ Len(s \o t) = Len(s) + Len(t)
      /\ \A i \in 1..(Len(s) + Len(t)) : (s \o t)[i] = IF i <= Len(s) THEN s[i] ELSE t[i - Len(s)]
  BY <1>2, ConcatProperties
<1>4. /\ Len(s) \in Nat /\ Len(t) \in Nat /\ DOMAIN s = 1..Len(s) /\ DOMAIN t = 1..Len(t)
      /\ DOMAIN (s \o t) = 1..(Len(s) + Len(t))
  BY <1>2, <1>3, LenProperties
<1>5. ASSUME NEW i \in DOMAIN (s \o t) PROVE (s \o t)[i].do \in Allowed(call)
  <2>1. CASE i <= Len(s)
    BY <1>3, <1>4, <2>1 DEF Plain
  <2>2. CASE ~(i <= Len(s))
    <3>1. i - Len(s) \in DOMAIN t /\ (s \o t)[i] = t[i - Len(s)]
      BY <1>3, <1>4, <2>2
    <3>2. QED
      BY <3>1 DEF Plain
  <2>3. QED
    BY <2>1, <2>2
<1>6. QED
  BY <1>3, <1>5 DEF Plain

LEMMA PlainHead ==
  ASSUME NEW call, NEW t, Plain(call, t), t # <<>>
  PROVE  Head(t).do \in Allowed(call) /\ Plain(call, Tail(t)) /\ Head(t) = t[1] /\ 1 \in DOMAIN t
<1>1. PICK S : t \in Seq(S)
  BY DEF Plain
<1>2. /\ Tail(t) \in Seq(S) /\ Len(Tail(t)) = Len(t) - 1 /\ Len(t) \in Nat \ {0} /\ DOMAIN t = 1..Len(t)
      /\ DOMAIN Tail(t) = 1..(Len(t) - 1) /\ Head(t) = t[1]
      /\ \A i \in 1..(Len(t) - 1) : Tail(t)[i] = t[i + 1]
  BY <1>1, HeadTailProperties, LenProperties
<1>3. \A i \in DOMAIN Tail(t) : i + 1 \in DOMAIN t
  BY <1>2
<1>4. QED
  BY <1>2, <1>3 DEF Plain

LEMMA PlainThen ==
  ASSUME NEW call, NEW t, Plain(call, t), t # <<>>, NEW do \in Allowed(call), NEW at
  PROVE  Plain(call, To(do, at) \o Tail(t))
<1>1. Plain(call, Tail(t))
  BY PlainHead
<1>2. Plain(call, To(do, at))
  <2>1. \E S : To(do, at) \in Seq(S)
    <3>1. PICK S : S = {[do |-> do, at |-> at]}
      OBVIOUS
    <3>2. To(do, at) \in Seq(S)
      BY <3>1 DEF To
    <3>3. QED
      BY <3>2
  <2>2. \A i \in DOMAIN To(do, at) : To(do, at)[i].do = do
    BY DEF To
  <2>3. QED
    BY <2>1, <2>2 DEF Plain
<1>3. QED
  BY <1>1, <1>2, PlainConcat

(* Whoever is there, the flow goes on with the rest.                       *)
OnWith(o, t, a) == [o EXCEPT !.todo = t, !.answer = a]

LEMMA OnWithIs ==
  ASSUME NEW u, NEW b, TypedWork(u, b), NEW t, NEW a, NEW o, o = OnWith(b, t, a)
  PROVE  /\ TypedWork(u, o) /\ o.todo = t /\ o.answer = a /\ o.call = b.call /\ o.outcome = b.outcome
         /\ o.at = b.at /\ o.given = b.given /\ o.began = b.began /\ o.alone = b.alone /\ o.hurt = b.hurt
<1>1. b \in WorkStates(b.todo, b.answer, b.left)
  BY DEF TypedWork
<1>2. PICK n : n = [b EXCEPT !.todo = t]
  OBVIOUS
<1>3. /\ n \in WorkStates(t, b.answer, b.left) /\ n.call = b.call /\ n.outcome = b.outcome
      /\ n.at = b.at /\ n.given = b.given /\ n.began = b.began /\ n.alone = b.alone /\ n.hurt = b.hurt
      /\ n.todo = t /\ n.answer = b.answer /\ n.left = b.left
  BY <1>1, <1>2 DEF WorkStates
<1>4. o = [n EXCEPT !.answer = a]
  BY <1>2 DEF OnWith
<1>5. /\ o \in WorkStates(t, a, b.left) /\ o.call = b.call /\ o.outcome = b.outcome
      /\ o.at = b.at /\ o.given = b.given /\ o.began = b.began /\ o.alone = b.alone /\ o.hurt = b.hurt
      /\ o.todo = t /\ o.answer = a /\ o.left = b.left
  BY <1>3, <1>4 DEF WorkStates
<1>6. QED
  BY <1>5 DEF TypedWork

LEMMA ThenIs ==
  ASSUME NEW u, NEW b, TypedWork(u, b), NEW steps
  PROVE  Then(b, steps) = OnWith(b, steps \o Tail(b.todo), b.answer)
<1>1. b \in WorkStates(b.todo, b.answer, b.left)
  BY DEF TypedWork
<1>2. QED
  BY <1>1 DEF Then, OnWith, WorkStates

LEMMA WorkFails ==
  ASSUME NEW u, NEW b, TypedWork(u, b), NEW hurt \in BOOLEAN, NEW now,
         NEW o, o = (IF hurt THEN [Errs(b) EXCEPT !.hurt = TRUE] ELSE Errs(b)),
         ~hurt /\ InPeace(b) => RefusedAtOnce(b) /\ now = b.began
  PROVE  WorkMoved(u, o, now)
<1>1. b \in WorkStates(b.todo, b.answer, b.left)
  BY DEF TypedWork
<1>2. PICK n : n = [b EXCEPT !.outcome = "thrown"]
  OBVIOUS
<1>3. /\ n \in WorkStates(b.todo, b.answer, b.left) /\ n.call = b.call /\ n.outcome = "thrown"
      /\ n.at = b.at /\ n.given = b.given /\ n.began = b.began /\ n.alone = b.alone /\ n.hurt = b.hurt
      /\ n.todo = b.todo /\ n.answer = b.answer /\ n.left = b.left
  BY <1>1, <1>2 DEF WorkStates
<1>4. o = (IF hurt THEN [n EXCEPT !.hurt = TRUE] ELSE n)
  BY <1>2 DEF Errs
<1>5. /\ o \in WorkStates(b.todo, b.answer, b.left) /\ o.call = b.call /\ o.outcome = "thrown"
      /\ o.at = b.at /\ o.given = b.given /\ o.began = b.began /\ o.alone = b.alone /\ o.hurt = (hurt \/ b.hurt)
      /\ o.todo = b.todo /\ o.answer = b.answer /\ o.left = b.left
  BY <1>3, <1>4 DEF WorkStates
<1>6. TypedWork(u, o)
  BY <1>5 DEF TypedWork
<1>7. InPeace(o) => ~hurt /\ InPeace(b)
  BY <1>5 DEF InPeace
<1>8. RefusedAtOnce(b) => RefusedAtOnce(o)
  BY <1>5 DEF RefusedAtOnce
<1>9. QED
  BY <1>5, <1>6, <1>7, <1>8 DEF WorkMoved

LEMMA WorkRuns ==
  ASSUME OrderedInv, NEW u \in Users, work[u].outcome = "running", NEW b, b = work[u]
  PROVE  /\ TypedWork(u, b) /\ b \in WorkStates(b.todo, b.answer, b.left) /\ b.outcome = "running"
         /\ b.todo # <<>> /\ Shape(b) /\ (InPeace(b) => Stands(u, b, elements))
         /\ elements \in Seq(Stuff) /\ kind \in DOMAIN Usable /\ b.began \in Seq(Stuff)
  BY DEF OrderedInv, WorkOK, TypedWork, WorkStates

LEMMA UseFailsKeeps == ASSUME OrderedInv, NEW u \in Users, UseFails(u) PROVE OrderedInv'
<1>1. PICK b, o, hurt, now : b = work[u] /\ o = [Errs(b) EXCEPT !.hurt = TRUE] /\ hurt = TRUE /\ now = elements'
  OBVIOUS
<1>2. work[u].outcome = "running" /\ Continue(u, o) /\ kind' = kind /\ elements' = elements
  BY <1>1 DEF UseFails
<1>3. TypedWork(u, b) /\ elements' \in Seq(Stuff)
  BY <1>1, <1>2, WorkRuns
<1>4. WorkMoved(u, o, now)
  BY <1>1, <1>3, WorkFails
<1>5. QED
  BY <1>1, <1>2, <1>3, <1>4, ContinueKeeps

(* A call that leaves the elements alone, and what comes after it.         *)
LEMMA GoesOn ==
  ASSUME OrderedInv, NEW u \in Users, work[u].outcome = "running", NEW b, b = work[u],
         NEW t, NEW a, NEW o, o = OnWith(b, t, a), Continue(u, o), kind' = kind, elements' \in Seq(Stuff),
         t # <<>> => Shape(o) /\ (InPeace(b) => Stands(u, o, elements')),
         t = <<>> /\ InPeace(b) => ~RefusedAtOnce(o) /\ a = AnswerAtOnce(o) /\ elements' = EffectAtOnce(u, o)
  PROVE  OrderedInv'
<1>1. /\ TypedWork(u, b) /\ b.outcome = "running"
  BY WorkRuns
<1>2. /\ TypedWork(u, o) /\ o.todo = t /\ o.answer = a /\ o.call = b.call /\ o.outcome = b.outcome
      /\ o.alone = b.alone /\ o.hurt = b.hurt
  BY <1>1, OnWithIs
<1>3. InPeace(o) <=> InPeace(b)
  BY <1>2 DEF InPeace
<1>4. WorkMoved(u, o, elements')
  BY <1>1, <1>2, <1>3 DEF WorkMoved
<1>5. QED
  BY <1>4, ContinueKeeps

(* The indexes of the elements that are read.                              *)
Indexed(call, at, n, is) ==
  /\ is \in Seq(Int) /\ Len(is) \in Nat /\ DOMAIN is = 1..Len(is)
  /\ call \in {"values", "reverse"} => Len(is) = n
  /\ call = "values" => \A i \in 1..n : is[i] = i
  /\ call = "reverse" => \A i \in 1..n : is[i] = n - i + 1
  /\ call = "page" =>
       /\ Len(is) = IF at > n THEN 0 ELSE IF at + 1 < n THEN 2 ELSE n - at + 1
       /\ \A i \in 1..Len(is) : is[i] = at + i - 1 /\ is[i] \in 1..n

LEMMA IndexesIs ==
  ASSUME NEW o, o.call \in {"values", "reverse", "page"}, NEW n \in Nat, o.at \in Int,
         o.call = "page" => o.at >= 1
  PROVE  Indexed(o.call, o.at, n, Indexes(o, n))
<1> DEFINE is == Indexes(o, n)
<1> DEFINE all == Upto(n)
<1>1. all \in Seq(Int) /\ Len(all) = n /\ \A i \in 1..n : all[i] = i
  BY DEF Upto
<1> HIDE DEF all
<1>2. CASE o.call = "values"
  <2>1. is = all
    BY <1>2 DEF Indexes, all
  <2>2. QED
    BY <1>1, <1>2, <2>1 DEF Indexed
<1>3. CASE o.call = "reverse"
  <2>1. is = [i \in 1..n |-> all[(n - i) + 1]]
    BY <1>1, <1>3 DEF Indexes, all, Reverse
  <2>2. \A i \in 1..n : n - i + 1 \in 1..n /\ all[(n - i) + 1] = n - i + 1
    BY <1>1
  <2>3. is = [i \in 1..n |-> n - i + 1]
    BY <2>1, <2>2
  <2>4. is \in Seq(Int) /\ Len(is) = n
    BY <2>3
  <2>5. QED
    BY <1>3, <2>3, <2>4 DEF Indexed
<1>4. CASE o.call = "page"
  <2> DEFINE end == IF o.at + 1 < n THEN o.at + 1 ELSE n
  <2>1. is = SubSeq(all, o.at, end) /\ end \in Int
    <3>1. is = SubSeq(all, o.at, end)
      BY <1>4 DEF Indexes, all
    <3>2. end \in Int
      OBVIOUS
    <3>3. QED
      BY <3>1, <3>2
  <2>2. o.at >= 1
    BY <1>4
  <2>3. \A i \in o.at..end : all[i] \in Int
    BY <1>1, <2>1, <2>2
  <2>4. /\ is \in Seq(Int) /\ Len(is) = IF o.at <= end THEN end - o.at + 1 ELSE 0
        /\ \A i \in 1..(end - o.at + 1) : is[i] = all[o.at + i - 1]
    BY <2>1, <2>3, SubSeqProperties
  <2>5. \A i \in 1..Len(is) : is[i] = all[o.at + i - 1] /\ o.at + i - 1 \in 1..n
    BY <2>1, <2>2, <2>4
  <2>6. \A i \in 1..Len(is) : is[i] = o.at + i - 1 /\ is[i] \in 1..n
    BY <1>1, <2>5
  <2>7. QED
    BY <1>4, <2>1, <2>2, <2>4, <2>6 DEF Indexed
<1>5. QED
  BY <1>2, <1>3, <1>4

(* All that was asked for has been read.                                   *)
LEMMA ReadDone ==
  ASSUME NEW u, NEW o, TypedWork(u, o), o.call \in ReadCalls, o.todo = <<>>, ReadsOn(o, <<o.at, 1>>) \/ o.call # "pick",
         o.call # "pick" => ReadsOn(o, Indexes(o, Len(o.began))) /\ ~RefusedAtOnce(o), kind \in DOMAIN Usable
  PROVE  ~RefusedAtOnce(o) /\ o.answer = AnswerAtOnce(o) /\ o.began = EffectAtOnce(u, o)
<1>1. PICK b, n : b = o.began /\ n = Len(b)
  OBVIOUS
<1>2. /\ b \in Seq(Stuff) /\ o.at \in Int /\ n \in Nat /\ DOMAIN b = 1..n
      /\ o.call \in Usable[kind] /\ (kind # "ordered" => o.at >= 1)
  BY <1>1, LenProperties DEF TypedWork, WorkStates
<1>3. o.began = EffectAtOnce(u, o)
  BY DEF EffectAtOnce, ReadCalls
<1>4. CASE o.call = "pick"
  <2>1. PICK is : is = <<o.at, 1>>
    OBVIOUS
  <2>2. Len(is) = 2 /\ is[1] = o.at /\ is[2] = 1
    BY <2>1
  <2>3. /\ o.answer \in Seq(Stuff) /\ Len(o.answer) = 2
        /\ \A i \in 1..2 : is[i] \in DOMAIN b /\ o.answer[i] = b[is[i]]
    BY <1>1, <1>4, <2>1, <2>2 DEF ReadsOn
  <2>4. o.at \in 1..n /\ o.answer[1] = b[o.at] /\ o.answer[2] = b[1]
    BY <1>2, <2>2, <2>3
  <2>5. o.answer = <<b[o.at], b[1]>>
    BY <2>3, <2>4
  <2>6. QED
    BY <1>1, <1>2, <1>3, <1>4, <2>4, <2>5 DEF AnswerAtOnce, RefusedAtOnce
<1>5. CASE o.call \in {"values", "reverse", "page"}
  <2>1. PICK is : is = Indexes(o, n)
    OBVIOUS
  <2>2. o.call = "page" => kind = "array" /\ o.at >= 1
    BY <1>2 DEF Usable, OrderedCalls, QueueCalls
  <2>3. Indexed(o.call, o.at, n, is)
    <3>1. n \in Nat /\ o.at \in Int /\ (o.call = "page" => o.at >= 1) /\ o.call \in {"values", "reverse", "page"}
      BY <1>2, <1>5, <2>2
    <3>2. QED
      BY <2>1, <3>1, IndexesIs
  <2>4. /\ o.answer \in Seq(Stuff) /\ Len(o.answer) = Len(is) /\ ~RefusedAtOnce(o)
        /\ \A i \in 1..Len(is) : o.answer[i] = b[is[i]]
    <3>1. ReadsOn(o, is) /\ ~RefusedAtOnce(o)
      BY <1>1, <1>5, <2>1
    <3>2. o.answer \in Seq(Stuff) /\ Len(o.todo) + Len(o.answer) = Len(is) /\ Len(o.todo) = 0
      BY <3>1 DEF ReadsOn
    <3>3. Len(o.answer) = Len(is)
      BY <2>3, <3>2, LenProperties DEF Indexed
    <3>4. QED
      BY <1>1, <3>1, <3>2, <3>3 DEF ReadsOn
  <2>5. o.answer = [i \in 1..Len(is) |-> b[is[i]]]
    BY <2>4, LenProperties DEF Indexed
  <2>6. CASE o.call = "values"
    <3>1. o.answer = b
      BY <1>2, <2>3, <2>4, <2>6, SeqEqual DEF Indexed
    <3>2. QED
      BY <1>1, <1>3, <2>4, <2>6, <3>1 DEF AnswerAtOnce
  <2>7. CASE o.call = "reverse"
    <3>1. o.answer = Reverse(b)
      BY <1>1, <1>2, <2>3, <2>5, <2>7 DEF Reverse, Indexed
    <3>2. QED
      BY <1>1, <1>3, <2>4, <2>7, <3>1 DEF AnswerAtOnce
  <2>8. CASE o.call = "page"
    <3>1. {j \in 1..2 : o.at + j - 1 <= n} = 1..Len(is)
      <4>1. o.at \in Int /\ o.at >= 1 /\ n \in Nat
        BY <1>2, <2>2, <2>8
      <4>2. Len(is) = IF o.at > n THEN 0 ELSE IF o.at + 1 < n THEN 2 ELSE n - o.at + 1
        BY <2>3, <2>8 DEF Indexed
      <4>3. \A j \in 1..2 : o.at + j - 1 <= n <=> j \in 1..Len(is)
        BY <4>1, <4>2
      <4>4. PICK k : k = Len(is)
        OBVIOUS
      <4>5. k \in Nat /\ k <= 2
        BY <4>1, <4>2, <4>4
      <4>6. \A j \in 1..k : j \in 1..2
        BY <4>5
      <4>7. 1..Len(is) \subseteq 1..2
        BY <4>4, <4>6, Zenon
      <4>8. {j \in 1..2 : o.at + j - 1 <= n} = {j \in 1..2 : j \in 1..Len(is)}
        BY <4>3, Zenon
      <4>9. QED
        BY <4>7, <4>8, Zenon
    <3>2. o.answer = [i \in {j \in 1..2 : o.at + j - 1 <= n} |-> b[o.at + i - 1]]
      BY <2>3, <2>5, <2>8, <3>1 DEF Indexed
    <3>3. QED
      BY <1>1, <1>3, <2>4, <2>8, <3>2 DEF AnswerAtOnce
  <2>9. QED
    BY <1>5, <2>6, <2>7, <2>8
<1>6. QED
  BY <1>4, <1>5 DEF ReadCalls

(* An operation that reads goes on with what it is still to read.          *)
LEMMA ReadGoesOn ==
  ASSUME OrderedInv, NEW u \in Users, work[u].outcome = "running", NEW b, b = work[u], b.call \in ReadCalls,
         NEW t, NEW a, NEW o, o = OnWith(b, t, a), Continue(u, o), kind' = kind, elements' = elements,
         Plain(b.call, t),
         InPeace(b) => IF b.call = "pick" THEN ReadsOn(o, <<o.at, 1>>)
                       ELSE ReadsOn(o, Indexes(o, Len(o.began))) /\ ~RefusedAtOnce(o)
  PROVE  OrderedInv'
<1>1. /\ TypedWork(u, b) /\ elements \in Seq(Stuff) /\ kind \in DOMAIN Usable
      /\ InPeace(b) => Stands(u, b, elements)
  BY WorkRuns
<1>2. /\ TypedWork(u, o) /\ o.todo = t /\ o.answer = a /\ o.call = b.call /\ o.began = b.began /\ o.at = b.at
  BY <1>1, OnWithIs
<1>3. b.call \notin Adding \cup Ending \cup {"at", "remove", "setAll", "clear"}
  BY DEF ReadCalls, Adding, Ending
<1>4. InPeace(b) => elements = o.began
  BY <1>1, <1>2, <1>3 DEF Stands
<1>5. Shape(o)
  BY <1>2, <1>3 DEF Shape, Taking, Adding, ReadCalls, Ending
<1>6. InPeace(b) => Stands(u, o, elements)
  BY <1>2, <1>3, <1>4 DEF Stands, ReadStands
<1>7. t = <<>> /\ InPeace(b) => ~RefusedAtOnce(o) /\ a = AnswerAtOnce(o) /\ elements = EffectAtOnce(u, o)
  BY <1>1, <1>2, <1>4, ReadDone
<1>8. QED
  BY <1>1, <1>5, <1>6, <1>7, GoesOn

(* Nothing has been read yet, of the elements at `is'.                     *)
LEMMA ReadsAll ==
  ASSUME NEW o, NEW is \in Seq(Int), o.answer = <<>>, NEW n \in Nat, n = Len(o.began), DOMAIN o.began = 1..n,
         \/ o.todo = All("at", is)
         \/ o.todo = All("locate", [i \in DOMAIN is |-> is[i] - 1]) /\ \A i \in 1..Len(is) : is[i] \in 1..n
  PROVE  ReadsOn(o, is)
<1>1. Len(is) \in Nat /\ DOMAIN is = 1..Len(is) /\ \A i \in 1..Len(is) : is[i] \in Int
  BY LenProperties
<1>2. o.answer \in Seq(Stuff) /\ Len(o.answer) = 0
  OBVIOUS
<1>3. CASE o.todo = All("at", is)
  <2>1. /\ o.todo \in Seq([do : {"at"}, at : Int]) /\ Len(o.todo) = Len(is)
        /\ \A i \in 1..Len(is) : o.todo[i].do = "at" /\ o.todo[i].at = is[i]
    <3>1. Calls(All("at", is), "at", Int, is)
      BY AllIs, Zenon
    <3>2. QED
      BY <1>3, <3>1 DEF Calls
  <2>2. o.todo \in Seq([do : {"locate", "at"}, at : Int])
    <3>1. [do : {"at"}, at : Int] \subseteq [do : {"locate", "at"}, at : Int]
      OBVIOUS
    <3>2. QED
      BY <2>1, <3>1, SeqMonotonic
  <2>3. QED
    BY <1>1, <1>2, <2>1, <2>2 DEF ReadsOn, Target
<1>4. CASE o.todo = All("locate", [i \in DOMAIN is |-> is[i] - 1]) /\ \A i \in 1..Len(is) : is[i] \in 1..n
  <2>1. PICK ats : ats = [i \in DOMAIN is |-> is[i] - 1]
    OBVIOUS
  <2>2. ats \in Seq(Int) /\ Len(ats) = Len(is) /\ \A i \in 1..Len(is) : ats[i] = is[i] - 1
    BY <1>1, <2>1
  <2>3. /\ o.todo \in Seq([do : {"locate"}, at : Int]) /\ Len(o.todo) = Len(is)
        /\ \A i \in 1..Len(is) : o.todo[i].do = "locate" /\ o.todo[i].at = is[i] - 1
    <3>1. Calls(All("locate", ats), "locate", Int, ats)
      BY <2>2, AllIs, Zenon
    <3>2. QED
      BY <1>4, <2>1, <2>2, <3>1 DEF Calls
  <2>4. o.todo \in Seq([do : {"locate", "at"}, at : Int])
    <3>1. [do : {"locate"}, at : Int] \subseteq [do : {"locate", "at"}, at : Int]
      OBVIOUS
    <3>2. QED
      BY <2>3, <3>1, SeqMonotonic
  <2>5. \A i \in 1..Len(o.todo) : Target(o.todo[i]) = is[i] /\ is[i] \in DOMAIN o.began
    <3>1. TAKE i \in 1..Len(o.todo)
    <3>2. i \in 1..Len(is) /\ is[i] \in Int /\ is[i] \in 1..n
      BY <1>1, <1>4, <2>3
    <3>3. o.todo[i].do = "locate" /\ o.todo[i].at = is[i] - 1
      BY <2>3, <3>2
    <3>4. QED
      BY <3>2, <3>3 DEF Target
  <2>6. QED
    BY <1>1, <1>2, <2>3, <2>4, <2>5 DEF ReadsOn
<1>5. QED
  BY <1>3, <1>4

LEMMA SizeKeeps == ASSUME OrderedInv, NEW u \in Users, Size(u) PROVE OrderedInv'
<1>1. PICK b, n, at : b = work[u] /\ n = Len(elements) /\ at = b.at
  OBVIOUS
<1>2. /\ work[u].outcome = "running" /\ Head(b.todo).do = "size" /\ kind' = kind /\ elements' = elements
  BY <1>1 DEF Size, At
<1>3. /\ TypedWork(u, b) /\ b \in WorkStates(b.todo, b.answer, b.left) /\ b.todo # <<>> /\ Shape(b)
      /\ (InPeace(b) => Stands(u, b, elements)) /\ elements \in Seq(Stuff) /\ kind \in DOMAIN Usable
      /\ b.began \in Seq(Stuff)
  BY <1>1, <1>2, WorkRuns
<1>4. b.call \in {"values", "reverse", "page"} /\ Plain(b.call, b.todo)
  <2>1. b.call \notin Taking
    BY <1>2, <1>3 DEF Taking, Shape, To
  <2>2. b.call \notin Adding
    BY <1>2, <1>3, <2>1, AddsHead DEF Shape
  <2>3. Plain(b.call, b.todo)
    BY <1>3, <2>1, <2>2 DEF Shape
  <2>4. "size" \in Allowed(b.call)
    BY <1>2, <1>3, <2>3, PlainHead
  <2>5. QED
    BY <1>3, <2>1, <2>2, <2>3, <2>4 DEF Allowed, Taking, Adding, WorkStates, OrderedCalls, ArrayCalls
<1>5. n \in Nat /\ DOMAIN elements = 1..n /\ at \in Int /\ (b.call = "page" => at >= 1)
  <2>1. b.at \in Int /\ b.call \in Usable[kind] /\ (kind # "ordered" => b.at >= 1)
    BY <1>3 DEF TypedWork, WorkStates
  <2>2. b.call = "page" => kind # "ordered"
    BY <2>1 DEF Usable, OrderedCalls
  <2>3. QED
    BY <1>1, <1>3, <2>1, <2>2, LenProperties
<1>6. InPeace(b) => elements = b.began /\ b.todo = To("size", at) /\ b.answer = <<>>
  <2>1. SUFFICES ASSUME InPeace(b) PROVE elements = b.began /\ b.todo = To("size", at) /\ b.answer = <<>>
    OBVIOUS
  <2>2. elements = b.began /\ ReadStands(b)
    BY <1>3, <1>4, <2>1 DEF Stands, ReadCalls, Adding
  <2>3. CASE ReadsOn(b, Indexes(b, Len(b.began)))
    <3>1. b.todo \in Seq([do : {"locate", "at"}, at : Int])
      BY <2>3 DEF ReadsOn
    <3>2. Head(b.todo).do \in {"locate", "at"}
      BY <1>3, <3>1, HeadDoes
    <3>3. QED
      BY <1>2, <3>2
  <2>4. QED
    BY <1>1, <1>4, <2>2, <2>3 DEF ReadStands
<1>7. CASE kind = "array" /\ b.call = "values" /\ n > MaxItems
  <2>1. PICK o, hurt, now : o = Errs(b) /\ hurt = FALSE /\ now = elements
    OBVIOUS
  <2>2. Continue(u, o)
    BY <1>1, <1>7, <2>1 DEF Size, Errs
  <2>3. InPeace(b) => RefusedAtOnce(b) /\ now = b.began
    BY <1>1, <1>6, <1>7, <2>1 DEF RefusedAtOnce
  <2>4. WorkMoved(u, o, now)
    BY <1>3, <2>1, <2>3, WorkFails
  <2>5. QED
    BY <1>2, <1>3, <2>1, <2>2, <2>4, ContinueKeeps
<1>8. CASE ~(kind = "array" /\ b.call = "values" /\ n > MaxItems)
  <2>1. PICK is, steps, t, a : is = Indexes(b, n) /\ steps = AfterSize(b, n) /\ t = steps \o Tail(b.todo) /\ a = b.answer
    OBVIOUS
  <2>2. PICK o : o = OnWith(b, t, a)
    OBVIOUS
  <2>3. Continue(u, o)
    BY <1>1, <1>3, <1>8, <2>1, <2>2, ThenIs DEF Size
  <2>4. Indexed(b.call, at, n, is)
    BY <1>1, <1>4, <1>5, <2>1, IndexesIs
  <2>5. steps = All("at", is) \/ (kind = "ordered" /\ steps = All("locate", [i \in DOMAIN is |-> is[i] - 1]))
    BY <2>1 DEF AfterSize
  <2>6. (\E S : steps \in Seq(S)) /\ \A i \in DOMAIN steps : steps[i].do \in {"at", "locate"}
    <3>1. CASE steps = All("at", is)
      <4>1. /\ steps \in Seq([do : {"at"}, at : Int]) /\ DOMAIN steps = 1..Len(is)
            /\ \A i \in 1..Len(is) : steps[i].do = "at"
        <5>1. is \in Seq(Int)
          BY <2>4 DEF Indexed
        <5>2. Calls(All("at", is), "at", Int, is)
          BY <5>1, AllIs, Zenon
        <5>3. QED
          BY <3>1, <5>2 DEF Calls
      <4>2. QED
        BY <4>1
    <3>2. CASE steps = All("locate", [i \in DOMAIN is |-> is[i] - 1])
      <4>1. PICK ats : ats = [i \in DOMAIN is |-> is[i] - 1]
        OBVIOUS
      <4>2. ats \in Seq(Int)
        BY <2>4, <4>1 DEF Indexed
      <4>3. /\ steps \in Seq([do : {"locate"}, at : Int]) /\ DOMAIN steps = 1..Len(ats)
            /\ \A i \in 1..Len(ats) : steps[i].do = "locate"
        <5>1. Calls(All("locate", ats), "locate", Int, ats)
          BY <4>2, AllIs, Zenon
        <5>2. QED
          BY <3>2, <4>1, <5>1 DEF Calls
      <4>4. QED
        BY <4>3
    <3>3. QED
      BY <2>5, <3>1, <3>2
  <2>7. Plain(b.call, t)
    <3>1. Plain(b.call, steps)
      BY <1>4, <2>6 DEF Plain, Allowed
    <3>2. Plain(b.call, Tail(b.todo))
      BY <1>3, <1>4, PlainHead
    <3>3. QED
      BY <2>1, <3>1, <3>2, PlainConcat
  <2>8. InPeace(b) => ReadsOn(o, Indexes(o, Len(o.began))) /\ ~RefusedAtOnce(o)
    <3>1. SUFFICES ASSUME InPeace(b) PROVE ReadsOn(o, Indexes(o, Len(o.began))) /\ ~RefusedAtOnce(o)
      OBVIOUS
    <3>2. /\ o.todo = t /\ o.answer = a /\ o.call = b.call /\ o.began = b.began /\ o.at = b.at
      BY <1>3, <2>2, OnWithIs
    <3>3. PICK T : steps \in Seq(T)
      BY <2>6
    <3>4. t = steps
      <4>1. Tail(b.todo) = <<>>
        <5>1. b.todo = To("size", at)
          BY <1>6, <3>1
        <5>2. Tail(To("size", at)) = <<>>
          BY ToIs, Zenon
        <5>3. QED
          BY <5>1, <5>2
      <4>2. QED
        BY <2>1, <3>3, <4>1, ConcatEmptySeq
    <3>5. Indexes(o, Len(o.began)) = is
      BY <1>1, <1>6, <2>1, <3>1, <3>2 DEF Indexes
    <3>6. is \in Seq(Int) /\ (kind = "ordered" => \A i \in 1..Len(is) : is[i] \in 1..n)
      <4>1. kind = "ordered" => b.call \in {"values", "reverse"}
        BY <1>3, <1>4 DEF TypedWork, Usable, OrderedCalls
      <4>2. CASE b.call = "values"
        BY <1>5, <2>4, <4>2 DEF Indexed
      <4>3. CASE b.call = "reverse"
        BY <1>5, <2>4, <4>3 DEF Indexed
      <4>4. QED
        BY <2>4, <4>1, <4>2, <4>3 DEF Indexed
    <3>7. ReadsOn(o, is)
      <4>1. o.answer = <<>> /\ n = Len(o.began) /\ DOMAIN o.began = 1..n
        BY <1>1, <1>5, <1>6, <2>1, <3>1, <3>2
      <4>2. o.todo = All("at", is) \/ (o.todo = All("locate", [i \in DOMAIN is |-> is[i] - 1]) /\ \A i \in 1..Len(is) : is[i] \in 1..n)
        BY <2>5, <3>2, <3>4, <3>6
      <4>3. QED
        BY <1>5, <3>6, <4>1, <4>2, ReadsAll
    <3>8. ~RefusedAtOnce(o)
      <4>1. MaxItems \in Nat
        BY OrderedAssumption
      <4>2. QED
        BY <1>1, <1>4, <1>5, <1>6, <1>8, <3>1, <3>2, <4>1 DEF RefusedAtOnce
    <3>9. QED
      BY <3>5, <3>7, <3>8
  <2>9. b.call \in ReadCalls /\ b.call # "pick"
    BY <1>4 DEF ReadCalls
  <2>10. QED
    BY <1>1, <1>2, <2>2, <2>3, <2>7, <2>8, <2>9, ReadGoesOn
<1>9. QED
  BY <1>7, <1>8

-----------------------------------------------------------------------------
(* The ends of a collection                                                *)

LEMMA RemoveAtIs ==
  ASSUME NEW S, NEW s \in Seq(S), NEW i \in 1..Len(s)
  PROVE  /\ RemoveAt(s, i) \in Seq(S) /\ Len(RemoveAt(s, i)) = Len(s) - 1
         /\ \A j \in 1..(Len(s) - 1) : RemoveAt(s, i)[j] = IF j < i THEN s[j] ELSE s[j + 1]
<1>1. PICK n : n = Len(s)
  OBVIOUS
<1>2. n \in Nat /\ i \in 1..n /\ \A j \in 1..n : s[j] \in S
  BY <1>1, LenProperties
<1>3. PICK a, c : a = SubSeq(s, 1, i - 1) /\ c = SubSeq(s, i + 1, n)
  OBVIOUS
<1>4. a \in Seq(S) /\ Len(a) = i - 1 /\ \A j \in 1..(i - 1) : a[j] = s[j]
  <2>1. 1 \in Int /\ i - 1 \in Int /\ \A j \in 1..(i - 1) : s[j] \in S
    BY <1>2
  <2>2. /\ a \in Seq(S) /\ Len(a) = IF 1 <= i - 1 THEN (i - 1) - 1 + 1 ELSE 0
        /\ \A j \in 1..((i - 1) - 1 + 1) : a[j] = s[1 + j - 1]
    BY <1>3, <2>1, SubSeqProperties
  <2>3. QED
    BY <1>2, <2>2
<1>5. c \in Seq(S) /\ Len(c) = n - i /\ \A j \in 1..(n - i) : c[j] = s[i + j]
  <2>1. i + 1 \in Int /\ n \in Int /\ \A j \in (i + 1)..n : s[j] \in S
    BY <1>2
  <2>2. /\ c \in Seq(S) /\ Len(c) = IF i + 1 <= n THEN n - (i + 1) + 1 ELSE 0
        /\ \A j \in 1..(n - (i + 1) + 1) : c[j] = s[(i + 1) + j - 1]
    BY <1>3, <2>1, SubSeqProperties
  <2>3. QED
    BY <1>2, <2>2
<1>6. RemoveAt(s, i) = a \o c
  BY <1>1, <1>3 DEF RemoveAt
<1>7. /\ a \o c \in Seq(S) /\ Len(a \o c) = Len(a) + Len(c)
      /\ \A j \in 1..(Len(a) + Len(c)) : (a \o c)[j] = IF j <= Len(a) THEN a[j] ELSE c[j - Len(a)]
  BY <1>4, <1>5, ConcatProperties
<1>8. ASSUME NEW j \in 1..(n - 1) PROVE (a \o c)[j] = IF j < i THEN s[j] ELSE s[j + 1]
  <2>1. CASE j < i
    BY <1>2, <1>4, <1>5, <1>7, <2>1
  <2>2. CASE ~(j < i)
    <3>1. j - (i - 1) \in 1..(n - i)
      BY <1>2, <2>2
    <3>2. (a \o c)[j] = c[j - (i - 1)]
      BY <1>2, <1>4, <1>5, <1>7, <2>2
    <3>3. c[j - (i - 1)] = s[i + (j - (i - 1))]
      BY <1>5, <3>1
    <3>4. i + (j - (i - 1)) = j + 1
      BY <1>2
    <3>5. QED
      BY <2>2, <3>2, <3>3, <3>4
  <2>3. QED
    BY <2>1, <2>2
<1>9. QED
  BY <1>1, <1>2, <1>4, <1>5, <1>6, <1>7, <1>8

(* An operation on an end, that stands undisturbed at a call.              *)
LEMMA EndAt ==
  ASSUME OrderedInv, NEW u \in Users, work[u].outcome = "running", NEW b, b = work[u], b.call \in Ending, InPeace(b)
  PROVE  /\ elements = b.began /\ b.answer = <<>> /\ Tail(b.todo) = <<>>
         /\ Head(b.todo).do = "isEmpty" => kind # "queue"
         /\ Head(b.todo).do # "isEmpty" => kind = "queue" \/ b.began # <<>>
         /\ Head(b.todo).do = "at" =>
              kind = "array" /\ b.call \notin Taking /\ Head(b.todo).at = IF b.call = "first" THEN 1 ELSE Len(b.began)
<1>1. TypedWork(u, b) /\ Stands(u, b, elements)
  BY WorkRuns
<1>2. elements = b.began /\ b.answer = <<>> /\ EndStands(b)
  BY <1>1 DEF Stands, Ending, Adding, ReadCalls
<1>3. b.call \in Usable[kind] /\ (kind = "queue" => b.call \in {"first", "shift"})
  BY <1>1 DEF TypedWork, Usable, QueueCalls, Ending
<1>4. CASE kind # "queue" /\ b.todo = To("isEmpty", b.call)
  BY <1>2, <1>4 DEF To
<1>5. CASE kind = "queue" /\ b.todo = To(IF b.call = "first" THEN "peek" ELSE "take", b.call)
  BY <1>2, <1>3, <1>5 DEF To
<1>6. CASE kind # "queue" /\ b.began # <<>> /\ b.todo = AfterCheck(b, Len(b.began))
  <2>1. CASE b.call \in Taking
    BY <1>2, <1>6, <2>1 DEF To, AfterCheck, Taking
  <2>2. CASE b.call \notin Taking /\ kind = "array"
    BY <1>2, <1>6, <2>2 DEF To, AfterCheck, Taking
  <2>3. CASE b.call \notin Taking /\ kind # "array"
    BY <1>2, <1>6, <2>3 DEF To, AfterCheck, Taking
  <2>4. QED
    BY <2>1, <2>2, <2>3
<1>7. QED
  BY <1>2, <1>4, <1>5, <1>6 DEF EndStands

LEMMA EndGoesOn ==
  ASSUME OrderedInv, NEW u \in Users, work[u].outcome = "running", NEW b, b = work[u], b.call \in Ending,
         NEW t, NEW a, NEW o, o = OnWith(b, t, a), Continue(u, o), kind' = kind, elements' \in Seq(Stuff),
         t # <<>> => IF b.call \in Taking THEN t \in {To("isEmpty", b.call), To("take", b.call)} /\ a = <<>>
                     ELSE Plain(b.call, t),
         t # <<>> /\ InPeace(b) => /\ elements' = b.began /\ a = <<>>
                                   /\ kind # "queue" /\ b.began # <<>> /\ t = AfterCheck(b, Len(b.began)),
         t = <<>> /\ InPeace(b) => /\ a = Ends(b.began, b.call)
                                   /\ elements' = IF b.call \in Taking /\ b.began # <<>>
                                                  THEN RemoveAt(b.began, IF b.call = "pop" THEN Len(b.began) ELSE 1)
                                                  ELSE b.began
  PROVE  OrderedInv'
<1>1. TypedWork(u, b)
  BY WorkRuns
<1>2. /\ TypedWork(u, o) /\ o.todo = t /\ o.answer = a /\ o.call = b.call /\ o.began = b.began /\ o.at = b.at
  BY <1>1, OnWithIs
<1>3. b.call \notin Adding \cup ReadCalls \cup {"at", "remove", "setAll", "clear"}
  BY DEF ReadCalls, Adding, Ending
<1>4. t # <<>> => Shape(o)
  BY <1>2, <1>3 DEF Shape
<1>5. ASSUME t # <<>>, InPeace(b) PROVE Stands(u, o, elements')
  <2>1. AfterCheck(o, Len(o.began)) = AfterCheck(b, Len(b.began))
    BY <1>2 DEF AfterCheck
  <2>2. EndStands(o)
    BY <1>2, <1>5, <2>1 DEF EndStands
  <2>3. QED
    BY <1>2, <1>3, <1>5, <2>2 DEF Stands
<1>6. ASSUME t = <<>>, InPeace(b)
      PROVE  ~RefusedAtOnce(o) /\ a = AnswerAtOnce(o) /\ elements' = EffectAtOnce(u, o)
  <2>1. ~RefusedAtOnce(o)
    BY <1>2 DEF RefusedAtOnce, Ending
  <2>2. AnswerAtOnce(o) = Ends(b.began, b.call)
    BY <1>2 DEF AnswerAtOnce, Ending
  <2>3. EffectAtOnce(u, o) = IF b.call \in Taking /\ b.began # <<>>
                             THEN RemoveAt(b.began, IF b.call = "pop" THEN Len(b.began) ELSE 1)
                             ELSE b.began
    BY <1>2 DEF EffectAtOnce, Ending, Taking
  <2>4. QED
    BY <1>6, <2>1, <2>2, <2>3
<1>7. QED
  BY <1>4, <1>5, <1>6, GoesOn

LEMMA GivesIs ==
  ASSUME NEW u, NEW b, TypedWork(u, b), NEW val
  PROVE  Gives(b, val) = OnWith(b, Tail(b.todo), Append(b.answer, val))
<1>1. b \in WorkStates(b.todo, b.answer, b.left)
  BY DEF TypedWork
<1>2. QED
  BY <1>1 DEF Gives, OnWith, WorkStates

(* What a call is made for.                                                *)
LEMMA DoneFor ==
  ASSUME OrderedInv, NEW u \in Users, work[u].outcome = "running", NEW b, b = work[u],
         NEW do, do = Head(b.todo).do
  PROVE  /\ b.call \in Taking => do \in {"isEmpty", "take"} /\ Tail(b.todo) = <<>> /\ b.answer = <<>>
         /\ b.call \in Adding => do = "add"
         /\ b.call \notin Taking \cup Adding => do \in Allowed(b.call) /\ Plain(b.call, b.todo) /\ Plain(b.call, Tail(b.todo))
<1>1. Shape(b) /\ b.todo # <<>>
  BY WorkRuns
<1>2. CASE b.call \in Taking
  <2>1. b.todo \in {To("isEmpty", b.call), To("take", b.call)} /\ b.answer = <<>>
    BY <1>1, <1>2 DEF Shape
  <2>2. b.call \notin Adding
    BY <1>2 DEF Taking, Adding
  <2>3. Head(b.todo).do \in {"isEmpty", "take"} /\ Tail(b.todo) = <<>>
    <3>1. Head(To("isEmpty", b.call)).do = "isEmpty" /\ Tail(To("isEmpty", b.call)) = <<>>
      BY ToIs, Zenon
    <3>2. Head(To("take", b.call)).do = "take" /\ Tail(To("take", b.call)) = <<>>
      BY ToIs, Zenon
    <3>3. QED
      BY <2>1, <3>1, <3>2
  <2>4. QED
    BY <1>2, <2>1, <2>2, <2>3
<1>3. CASE b.call \in Adding
  <2>1. Adds(b.todo, b.given)
    BY <1>1, <1>3 DEF Shape, Taking, Adding
  <2>2. QED
    BY <1>1, <1>3, <2>1, AddsHead DEF Taking, Adding
<1>4. CASE b.call \notin Taking \cup Adding
  <2>1. Plain(b.call, b.todo)
    BY <1>1, <1>4 DEF Shape
  <2>2. QED
    BY <1>1, <1>4, <2>1, PlainHead
<1>5. QED
  BY <1>2, <1>3, <1>4

LEMMA IsEmptyKeeps == ASSUME OrderedInv, NEW u \in Users, IsEmpty(u) PROVE OrderedInv'
<1>1. PICK b : b = work[u]
  OBVIOUS
<1>2. /\ work[u].outcome = "running" /\ Head(b.todo).do = "isEmpty" /\ kind' = kind /\ elements' = elements
  BY <1>1 DEF IsEmpty, At
<1>3. /\ TypedWork(u, b) /\ elements \in Seq(Stuff) /\ kind \in DOMAIN Usable /\ b.todo # <<>>
      /\ b.call \in OrderedCalls \cup ArrayCalls
  BY <1>1, <1>2, WorkRuns DEF WorkStates
<1>4. /\ b.call \in Ending /\ (b.call \in Taking => Tail(b.todo) = <<>> /\ b.answer = <<>>)
      /\ b.call \notin Taking => b.call \in {"first", "last"} /\ Plain(b.call, b.todo) /\ Plain(b.call, Tail(b.todo))
  <2>1. /\ b.call \notin Adding /\ (b.call \in Taking => Tail(b.todo) = <<>> /\ b.answer = <<>>)
        /\ b.call \notin Taking => "isEmpty" \in Allowed(b.call) /\ Plain(b.call, b.todo) /\ Plain(b.call, Tail(b.todo))
    BY <1>1, <1>2, DoneFor
  <2>2. "isEmpty" \in Allowed(b.call) => b.call \in {"first", "last"}
    BY DEF Allowed
  <2>3. QED
    BY <2>1, <2>2 DEF Ending, Taking
<1>5. InPeace(b) => elements = b.began /\ b.answer = <<>> /\ Tail(b.todo) = <<>> /\ kind # "queue"
  BY <1>1, <1>2, <1>4, EndAt
<1>6. CASE elements = <<>>
  <2>1. PICK t, a : t = Tail(b.todo) /\ a = Append(b.answer, Null)
    OBVIOUS
  <2>2. PICK o : o = OnWith(b, t, a)
    OBVIOUS
  <2>3. Continue(u, o)
    BY <1>1, <1>3, <1>6, <2>1, <2>2, GivesIs DEF IsEmpty
  <2>4. InPeace(b) => t = <<>> /\ a = Ends(b.began, b.call) /\ elements = b.began /\ b.began = <<>>
    BY <1>5, <1>6, <2>1 DEF Ends
  <2>5. b.call \in Taking => t = <<>>
    BY <1>4, <2>1
  <2>6. b.call \notin Taking => Plain(b.call, t)
    BY <1>4, <2>1
  <2>7. QED
    BY <1>1, <1>2, <1>3, <1>4, <2>2, <2>3, <2>4, <2>5, <2>6, EndGoesOn
<1>7. CASE elements # <<>>
  <2>1. PICK steps, t, a : steps = AfterCheck(b, Len(elements)) /\ t = steps \o Tail(b.todo) /\ a = b.answer
    OBVIOUS
  <2>2. PICK o : o = OnWith(b, t, a)
    OBVIOUS
  <2>3. Continue(u, o)
    BY <1>1, <1>3, <1>7, <2>1, <2>2, ThenIs DEF IsEmpty
  <2>4. PICK do, at : steps = To(do, at) /\ do \in {"take", "at", "peek"}
    BY <2>1 DEF AfterCheck
  <2>5. b.call \in Taking => steps = To("take", b.call)
    BY <2>1 DEF AfterCheck, Taking
  <2>6. b.call \notin Taking => do \in Allowed(b.call)
    <3>1. SUFFICES ASSUME b.call \notin Taking PROVE do \in {"at", "peek"}
      BY <1>4 DEF Allowed
    <3>2. steps = To("at", IF b.call = "first" THEN 1 ELSE Len(elements)) \/ steps = To("peek", b.call)
      BY <2>1, <3>1 DEF AfterCheck, Taking
    <3>3. QED
      BY <2>4, <3>2 DEF To
  <2>7. Tail(b.todo) = <<>> => t = steps
    <3>1. PICK S : S = {[do |-> do, at |-> at]}
      OBVIOUS
    <3>2. steps \in Seq(S)
      BY <2>4, <3>1 DEF To
    <3>3. QED
      BY <2>1, <3>2, ConcatEmptySeq
  <2>8. b.call \in Taking => t = To("take", b.call) /\ a = <<>>
    BY <1>4, <2>1, <2>5, <2>7
  <2>9. b.call \notin Taking => Plain(b.call, t)
    BY <1>3, <1>4, <2>1, <2>4, <2>6, PlainThen
  <2>10. InPeace(b) => /\ elements = b.began /\ a = <<>> /\ kind # "queue" /\ b.began # <<>>
                       /\ t = AfterCheck(b, Len(b.began)) /\ t # <<>>
    <3>1. steps # <<>>
      BY <2>4 DEF To
    <3>2. QED
      BY <1>5, <1>7, <2>1, <2>7, <3>1
  <2>11. QED
    BY <1>1, <1>2, <1>3, <1>4, <2>2, <2>3, <2>8, <2>9, <2>10, EndGoesOn
<1>8. QED
  BY <1>6, <1>7

LEMMA PeekKeeps == ASSUME OrderedInv, NEW u \in Users, Peek(u) PROVE OrderedInv'
<1>1. PICK b, now : b = work[u] /\ now = elements
  OBVIOUS
<1>2. /\ work[u].outcome = "running" /\ Head(b.todo).do = "peek" /\ kind' = kind /\ elements' = elements
  BY <1>1 DEF Peek, At
<1>3. /\ TypedWork(u, b) /\ elements \in Seq(Stuff) /\ kind \in DOMAIN Usable /\ b.todo # <<>>
      /\ b.call \in OrderedCalls \cup ArrayCalls
  BY <1>1, <1>2, WorkRuns DEF WorkStates
<1>4. b.call \in {"first", "last"} /\ Plain(b.call, Tail(b.todo))
  <2>1. /\ b.call \notin Taking \cup Adding /\ "peek" \in Allowed(b.call) /\ Plain(b.call, Tail(b.todo))
    BY <1>1, <1>2, DoneFor
  <2>2. "peek" \in Allowed(b.call) => b.call \in {"first", "last"}
    BY DEF Allowed
  <2>3. QED
    BY <2>1, <2>2
<1>5. InPeace(b) => elements = b.began /\ b.answer = <<>> /\ Tail(b.todo) = <<>> /\ (kind = "queue" \/ b.began # <<>>)
  <2>1. b.call \in Ending
    BY <1>4 DEF Ending
  <2>2. QED
    BY <1>1, <1>2, <2>1, EndAt
<1>6. CASE elements = <<>> /\ kind # "queue"
  <2>1. PICK o, hurt : o = Errs(b) /\ hurt = FALSE
    OBVIOUS
  <2>2. Continue(u, o)
    BY <1>1, <1>6, <2>1 DEF Peek, NoEnd
  <2>3. ~InPeace(b)
    BY <1>5, <1>6
  <2>4. WorkMoved(u, o, now)
    BY <1>3, <2>1, <2>3, WorkFails
  <2>5. QED
    BY <1>1, <1>2, <1>3, <2>2, <2>4, ContinueKeeps
<1>7. CASE ~(elements = <<>> /\ kind # "queue")
  <2>1. PICK val, t, a : /\ val = IF elements = <<>> THEN Null ELSE elements[EndIndex(b.call)]
                         /\ t = Tail(b.todo) /\ a = Append(b.answer, val)
    OBVIOUS
  <2>2. PICK o : o = OnWith(b, t, a)
    OBVIOUS
  <2>3. Gives(b, val) = o
    BY <1>3, <2>1, <2>2, GivesIs
  <2>4. Continue(u, o)
    BY <1>1, <1>7, <2>1, <2>3 DEF Peek, NoEnd
  <2>5. InPeace(b) => t = <<>> /\ a = Ends(b.began, b.call) /\ elements = b.began
    BY <1>4, <1>5, <1>7, <2>1 DEF Ends, EndIndex
  <2>6. Plain(b.call, t) /\ b.call \in Ending /\ b.call \notin Taking
    BY <1>4, <2>1 DEF Ending, Taking
  <2>7. QED
    BY <1>1, <1>2, <1>3, <2>2, <2>4, <2>5, <2>6, EndGoesOn
<1>8. QED
  BY <1>6, <1>7

LEMMA TakeKeeps == ASSUME OrderedInv, NEW u \in Users, Take(u) PROVE OrderedInv'
<1>1. PICK b, now, end : b = work[u] /\ now = elements /\ end = EndIndex(b.call)
  OBVIOUS
<1>2. /\ work[u].outcome = "running" /\ Head(b.todo).do = "take" /\ kind' = kind
      /\ elements' = IF now = <<>> THEN now ELSE RemoveAt(now, end)
  BY <1>1 DEF Take, At
<1>3. /\ TypedWork(u, b) /\ elements \in Seq(Stuff) /\ kind \in DOMAIN Usable /\ b.todo # <<>>
      /\ b.call \in OrderedCalls \cup ArrayCalls
  BY <1>1, <1>2, WorkRuns DEF WorkStates
<1>4. b.call \in Taking /\ Tail(b.todo) = <<>> /\ b.answer = <<>>
  <2>1. /\ b.call \notin Adding /\ (b.call \in Taking => Tail(b.todo) = <<>> /\ b.answer = <<>>)
        /\ b.call \notin Taking => "take" \in Allowed(b.call)
    BY <1>1, <1>2, DoneFor
  <2>2. "take" \notin Allowed(b.call)
    BY DEF Allowed
  <2>3. QED
    BY <2>1, <2>2
<1>5. b.call \in Ending
  BY <1>4 DEF Ending, Taking
<1>6. InPeace(b) => now = b.began /\ (kind = "queue" \/ b.began # <<>>)
  BY <1>1, <1>2, <1>5, EndAt
<1>7. end = (IF b.call = "pop" THEN Len(now) ELSE 1)
  BY <1>1, <1>4 DEF EndIndex, Taking
<1>8. elements' \in Seq(Stuff)
  <2>1. now # <<>> => end \in 1..Len(now)
    BY <1>1, <1>3, <1>7, LenProperties, EmptySeq
  <2>2. QED
    BY <1>1, <1>2, <1>3, <2>1, RemoveAtIs
<1>9. CASE now = <<>> /\ kind # "queue"
  <2>1. PICK o, hurt, then : o = Errs(b) /\ hurt = FALSE /\ then = elements'
    OBVIOUS
  <2>2. Continue(u, o)
    BY <1>1, <1>9, <2>1 DEF Take, NoEnd
  <2>3. ~InPeace(b)
    BY <1>6, <1>9
  <2>4. WorkMoved(u, o, then)
    BY <1>3, <2>1, <2>3, WorkFails
  <2>5. QED
    BY <1>1, <1>2, <1>8, <2>1, <2>2, <2>4, ContinueKeeps
<1>10. CASE ~(now = <<>> /\ kind # "queue")
  <2>1. PICK val, t, a : /\ val = (IF now = <<>> THEN Null ELSE now[end])
                         /\ t = Tail(b.todo) /\ a = Append(b.answer, val)
    OBVIOUS
  <2>2. PICK o : o = OnWith(b, t, a)
    OBVIOUS
  <2>3. Gives(b, val) = o
    BY <1>3, <2>1, <2>2, GivesIs
  <2>4. Continue(u, o)
    BY <1>1, <1>10, <2>1, <2>3 DEF Take, NoEnd
  <2>5. t = <<>> /\ a = <<val>>
    BY <1>4, <2>1
  <2>6. InPeace(b) => /\ a = Ends(b.began, b.call)
                      /\ elements' = IF b.call \in Taking /\ b.began # <<>>
                                     THEN RemoveAt(b.began, IF b.call = "pop" THEN Len(b.began) ELSE 1) ELSE b.began
    <3>1. SUFFICES ASSUME InPeace(b)
                   PROVE  /\ a = Ends(b.began, b.call)
                          /\ elements' = IF b.call \in Taking /\ b.began # <<>>
                                     THEN RemoveAt(b.began, IF b.call = "pop" THEN Len(b.began) ELSE 1) ELSE b.began
      OBVIOUS
    <3>2. now = b.began
      BY <1>6, <3>1
    <3>3. b.call \notin {"last"}
      BY <1>4 DEF Taking
    <3>4. QED
      BY <1>2, <1>4, <1>7, <2>1, <2>5, <3>2, <3>3 DEF Ends
  <2>7. QED
    BY <1>1, <1>2, <1>5, <1>8, <2>2, <2>4, <2>5, <2>6, EndGoesOn
<1>11. QED
  BY <1>9, <1>10

-----------------------------------------------------------------------------
(* Reading an element                                                      *)

LEMMA ReadsHead ==
  ASSUME NEW b, NEW is, ReadsOn(b, is), b.todo # <<>>, is \in Seq(Int)
  PROVE  /\ Len(b.answer) + 1 \in 1..Len(is) /\ is[Len(b.answer) + 1] = Target(Head(b.todo))
         /\ Head(b.todo).at \in Int /\ Head(b.todo).do \in {"locate", "at"}
         /\ Head(b.todo).do = "locate" => is[Len(b.answer) + 1] \in DOMAIN b.began
         /\ Head(b.todo) = b.todo[1] /\ Len(b.answer) \in Nat
<1>1. /\ b.todo \in Seq([do : {"locate", "at"}, at : Int]) /\ b.answer \in Seq(Stuff)
      /\ Len(b.todo) + Len(b.answer) = Len(is)
      /\ \A i \in 1..Len(b.todo) :
           /\ Target(b.todo[i]) = is[Len(b.answer) + i]
           /\ b.todo[i].do = "locate" => is[Len(b.answer) + i] \in DOMAIN b.began
  BY DEF ReadsOn
<1>2. Len(b.todo) \in Nat \ {0} /\ Head(b.todo) = b.todo[1]
  BY <1>1, HeadTailProperties, LenProperties
<1>3. Len(b.answer) \in Nat /\ Len(is) \in Nat /\ 1 \in 1..Len(b.todo)
  BY <1>1, <1>2, LenProperties
<1>4. Head(b.todo).do \in {"locate", "at"} /\ Head(b.todo).at \in Int
  BY <1>1, HeadDoes
<1>5. Target(b.todo[1]) = is[Len(b.answer) + 1] /\ (b.todo[1].do = "locate" => is[Len(b.answer) + 1] \in DOMAIN b.began)
  BY <1>1, <1>3
<1>6. Len(b.answer) + 1 \in 1..Len(is)
  <2>1. PICK k, n, m : k = Len(b.answer) /\ n = Len(b.todo) /\ m = Len(is)
    OBVIOUS
  <2>2. k \in Nat /\ n \in Nat /\ n # 0 /\ m \in Nat /\ n + k = m
    BY <1>1, <1>2, <1>3, <2>1
  <2>3. k + 1 \in 1..m
    BY <2>2
  <2>4. QED
    BY <2>1, <2>3
<1>7. QED
  BY <1>2, <1>3, <1>4, <1>5, <1>6

LEMMA ReadsLocated ==
  ASSUME NEW b, NEW is \in Seq(Int), ReadsOn(b, is), b.todo # <<>>, Head(b.todo).do = "locate",
         NEW o, o.todo = To("at", Head(b.todo).at + 1) \o Tail(b.todo), o.answer = b.answer, o.began = b.began
  PROVE  ReadsOn(o, is)
<1>1. PICK k, n, at, rest : k = Len(b.answer) /\ n = Len(b.todo) /\ at = Head(b.todo).at + 1 /\ rest = Tail(b.todo)
  OBVIOUS
<1>2. /\ b.todo \in Seq([do : {"locate", "at"}, at : Int]) /\ b.answer \in Seq(Stuff) /\ n + k = Len(is)
      /\ \A i \in 1..n : Target(b.todo[i]) = is[k + i] /\ (b.todo[i].do = "locate" => is[k + i] \in DOMAIN b.began)
      /\ \A i \in 1..k : is[i] \in DOMAIN b.began /\ b.answer[i] = b.began[is[i]]
  BY <1>1 DEF ReadsOn
<1>3. /\ rest \in Seq([do : {"locate", "at"}, at : Int]) /\ Len(rest) = n - 1 /\ n \in Nat \ {0}
      /\ \A i \in 1..(n - 1) : rest[i] = b.todo[i + 1]
  BY <1>1, <1>2, HeadTailProperties, LenProperties
<1>4. is[k + 1] = at /\ at \in Int /\ k \in Nat
  BY <1>1, ReadsHead DEF Target
<1>5. PICK step : step = [do |-> "at", at |-> at]
  OBVIOUS
<1>6. o.todo = <<step>> \o rest
  BY <1>1, <1>5 DEF To
<1>7. step \in [do : {"locate", "at"}, at : Int] /\ step.do = "at" /\ step.at = at
  BY <1>4, <1>5
<1>8. /\ o.todo \in Seq([do : {"locate", "at"}, at : Int]) /\ Len(o.todo) = n
      /\ o.todo[1] = step /\ \A i \in 2..n : o.todo[i] = b.todo[i]
  <2>1. PICK one, T : one = <<step>> /\ T = [do : {"locate", "at"}, at : Int]
    OBVIOUS
  <2>2. one \in Seq(T) /\ Len(one) = 1 /\ one[1] = step /\ rest \in Seq(T)
    BY <1>3, <1>7, <2>1
  <2>3. /\ one \o rest \in Seq(T) /\ Len(one \o rest) = Len(one) + Len(rest)
        /\ \A i \in 1..(Len(one) + Len(rest)) : (one \o rest)[i] = IF i <= Len(one) THEN one[i] ELSE rest[i - Len(one)]
    BY <2>2, ConcatProperties
  <2>4. o.todo = one \o rest /\ Len(rest) = n - 1 /\ n \in Nat /\ n # 0
    BY <1>3, <1>6, <2>1
  <2>5. Len(one) + Len(rest) = n
    BY <2>2, <2>4
  <2>6. \A i \in 1..n : o.todo[i] = IF i <= 1 THEN one[i] ELSE rest[i - 1]
    BY <2>2, <2>3, <2>4, <2>5
  <2>7. ASSUME NEW i \in 2..n PROVE o.todo[i] = b.todo[i]
    <3>1. i - 1 \in 1..(n - 1) /\ ~(i <= 1) /\ i \in 1..n /\ (i - 1) + 1 = i
      BY <2>4
    <3>2. rest[i - 1] = b.todo[(i - 1) + 1]
      BY <1>3, <3>1
    <3>3. QED
      BY <2>6, <3>1, <3>2
  <2>8. o.todo[1] = step
    <3>1. 1 \in 1..n /\ 1 <= 1
      BY <2>4
    <3>2. o.todo[1] = one[1]
      BY <2>6, <3>1
    <3>3. QED
      BY <2>2, <3>2
  <2>9. QED
    BY <2>1, <2>3, <2>4, <2>5, <2>7, <2>8
<1>9. \A i \in 1..n : Target(o.todo[i]) = is[k + i] /\ (o.todo[i].do = "locate" => is[k + i] \in DOMAIN b.began)
  <2>1. TAKE i \in 1..n
  <2>2. CASE i = 1
    BY <1>4, <1>7, <1>8, <2>2 DEF Target
  <2>3. CASE i # 1
    <3>1. i \in 2..n
      BY <1>3, <2>3
    <3>2. o.todo[i] = b.todo[i]
      BY <1>8, <3>1
    <3>3. QED
      BY <1>2, <3>2
  <2>4. QED
    BY <2>2, <2>3
<1>10. QED
  BY <1>1, <1>2, <1>8, <1>9 DEF ReadsOn

LEMMA ReadsGiven ==
  ASSUME NEW b, NEW is \in Seq(Int), ReadsOn(b, is), b.todo # <<>>, Head(b.todo).do = "at", b.began \in Seq(Stuff),
         NEW val, Head(b.todo).at \in DOMAIN b.began, val = b.began[Head(b.todo).at],
         NEW o, o.todo = Tail(b.todo), o.answer = Append(b.answer, val), o.began = b.began
  PROVE  ReadsOn(o, is)
<1>1. PICK k, n, at, rest : k = Len(b.answer) /\ n = Len(b.todo) /\ at = Head(b.todo).at /\ rest = Tail(b.todo)
  OBVIOUS
<1>2. /\ b.todo \in Seq([do : {"locate", "at"}, at : Int]) /\ b.answer \in Seq(Stuff) /\ n + k = Len(is)
      /\ \A i \in 1..n : Target(b.todo[i]) = is[k + i] /\ (b.todo[i].do = "locate" => is[k + i] \in DOMAIN b.began)
      /\ \A i \in 1..k : is[i] \in DOMAIN b.began /\ b.answer[i] = b.began[is[i]]
  BY <1>1 DEF ReadsOn
<1>3. /\ rest \in Seq([do : {"locate", "at"}, at : Int]) /\ Len(rest) = n - 1 /\ n \in Nat \ {0}
      /\ \A i \in 1..(n - 1) : rest[i] = b.todo[i + 1]
  BY <1>1, <1>2, HeadTailProperties, LenProperties
<1>4. is[k + 1] = at /\ k \in Nat /\ at \in DOMAIN b.began /\ val = b.began[at]
  BY <1>1, ReadsHead DEF Target
<1>5. val \in Stuff
  BY <1>4, LenProperties
<1>6. /\ o.answer \in Seq(Stuff) /\ Len(o.answer) = k + 1 /\ o.answer[k + 1] = val
      /\ \A i \in 1..k : o.answer[i] = b.answer[i]
  BY <1>1, <1>2, <1>5, AppendProperties
<1>7. \A i \in 1..(k + 1) : is[i] \in DOMAIN b.began /\ o.answer[i] = b.began[is[i]]
  <2>1. TAKE i \in 1..(k + 1)
  <2>2. CASE i = k + 1
    BY <1>4, <1>6, <2>2
  <2>3. CASE i # k + 1
    <3>1. i \in 1..k
      BY <1>4, <2>3
    <3>2. QED
      BY <1>2, <1>6, <3>1
  <2>4. QED
    BY <2>2, <2>3
<1>8. \A i \in 1..(n - 1) : /\ Target(rest[i]) = is[(k + 1) + i]
                            /\ rest[i].do = "locate" => is[(k + 1) + i] \in DOMAIN b.began
  <2>1. TAKE i \in 1..(n - 1)
  <2>2. i + 1 \in 1..n /\ k + (i + 1) = (k + 1) + i /\ rest[i] = b.todo[i + 1]
    BY <1>3, <1>4
  <2>3. QED
    BY <1>2, <2>2
<1>9. (n - 1) + (k + 1) = Len(is)
  <2>1. n \in Nat /\ k \in Nat /\ n + k = Len(is)
    BY <1>2, <1>3, <1>4
  <2>2. (n - 1) + (k + 1) = n + k
    BY <2>1
  <2>3. QED
    BY <2>1, <2>2
<1>10. QED
  BY <1>1, <1>3, <1>6, <1>7, <1>8, <1>9 DEF ReadsOn

(* What an operation reads.                                                *)
ToRead(o) == IF o.call = "pick" THEN <<o.at, 1>> ELSE Indexes(o, Len(o.began))

LEMMA ToReadIs ==
  ASSUME NEW u, NEW b, TypedWork(u, b), b.call \in ReadCalls
  PROVE  /\ ToRead(b) \in Seq(Int)
         /\ b.call # "pick" => \A i \in DOMAIN ToRead(b) : ToRead(b)[i] \in DOMAIN b.began
         /\ b.call = "pick" => ToRead(b) = <<b.at, 1>> /\ b.at >= 1 /\ kind # "ordered"
<1>1. PICK n : n = Len(b.began)
  OBVIOUS
<1>2. /\ b.at \in Int /\ b.began \in Seq(Stuff) /\ n \in Nat /\ DOMAIN b.began = 1..n
      /\ b.call \in Usable[kind] /\ (kind # "ordered" => b.at >= 1)
  BY <1>1, LenProperties DEF TypedWork, WorkStates
<1>3. b.call \in {"page", "pick"} => kind # "ordered" /\ b.at >= 1
  BY <1>2 DEF Usable, OrderedCalls
<1>4. CASE b.call = "pick"
  BY <1>2, <1>3, <1>4 DEF ToRead
<1>5. CASE b.call # "pick"
  <2>1. PICK is : is = ToRead(b)
    OBVIOUS
  <2>2. b.call \in {"values", "reverse", "page"}
    BY <1>5 DEF ReadCalls
  <2>3. Indexed(b.call, b.at, n, is)
    BY <1>1, <1>2, <1>3, <1>5, <2>1, <2>2, IndexesIs DEF ToRead
  <2>4. is \in Seq(Int) /\ \A i \in DOMAIN is : is[i] \in 1..n
    <3>1. is \in Seq(Int) /\ DOMAIN is = 1..Len(is)
      BY <2>3 DEF Indexed
    <3>2. CASE b.call = "values"
      BY <1>2, <2>3, <3>1, <3>2 DEF Indexed
    <3>3. CASE b.call = "reverse"
      BY <1>2, <2>3, <3>1, <3>3 DEF Indexed
    <3>4. CASE b.call = "page"
      BY <1>2, <2>3, <3>1, <3>4 DEF Indexed
    <3>5. QED
      BY <2>2, <3>1, <3>2, <3>3, <3>4
  <2>5. QED
    BY <1>2, <1>5, <2>1, <2>4
<1>6. QED
  BY <1>4, <1>5

LEMMA AtAt ==
  ASSUME OrderedInv, NEW u \in Users, work[u].outcome = "running", NEW b, b = work[u], b.call = "at", InPeace(b)
  PROVE  /\ elements = b.began /\ b.answer = <<>> /\ Tail(b.todo) = <<>> /\ b.at \in Int /\ (kind # "ordered" => b.at >= 1)
         /\ Head(b.todo).do = "locate" => kind = "ordered" /\ Head(b.todo).at = b.at
         /\ Head(b.todo).do = "at" =>
              LET index == IF b.at < 0 THEN Len(b.began) + b.at ELSE b.at
              IN  IF kind = "ordered" THEN index \in 0..Len(b.began) - 1 /\ Head(b.todo).at = index + 1
                  ELSE Head(b.todo).at = b.at
<1> DEFINE index == IF b.at < 0 THEN Len(b.began) + b.at ELSE b.at
<1>1. TypedWork(u, b) /\ Stands(u, b, elements)
  BY WorkRuns
<1>2. elements = b.began /\ b.answer = <<>> /\ AtStands(b)
  BY <1>1 DEF Stands, Adding, ReadCalls
<1>3. b.at \in Int /\ (kind # "ordered" => b.at >= 1)
  BY <1>1 DEF TypedWork, WorkStates
<1>4. CASE kind = "ordered" /\ b.todo = To("locate", b.at)
  BY <1>2, <1>3, <1>4 DEF To
<1>5. CASE kind = "ordered" /\ index \in 0..Len(b.began) - 1 /\ b.todo = To("at", index + 1)
  BY <1>2, <1>3, <1>5 DEF To
<1>6. CASE kind # "ordered" /\ b.todo = To("at", b.at)
  BY <1>2, <1>3, <1>6 DEF To
<1>7. QED
  BY <1>2, <1>4, <1>5, <1>6 DEF AtStands

(* at() goes on with one call more, or is done.                            *)
LEMMA AtGoesOn ==
  ASSUME OrderedInv, NEW u \in Users, work[u].outcome = "running", NEW b, b = work[u], b.call = "at",
         NEW t, NEW a, NEW o, o = OnWith(b, t, a), Continue(u, o), kind' = kind, elements' = elements,
         Plain(b.call, t),
         NEW index, index = (IF b.at < 0 THEN Len(b.began) + b.at ELSE b.at),
         InPeace(b) /\ t # <<>> =>
           a = <<>> /\ kind = "ordered" /\ index \in 0..Len(b.began) - 1 /\ t = To("at", index + 1),
         InPeace(b) /\ t = <<>> =>
           IF kind # "ordered" THEN b.at \in DOMAIN b.began /\ a = <<b.began[b.at]>>
           ELSE a = IF index \in 0..Len(b.began) - 1 THEN <<b.began[index + 1]>> ELSE <<Null>>
  PROVE  OrderedInv'
<1>1. /\ TypedWork(u, b) /\ elements \in Seq(Stuff) /\ b.began \in Seq(Stuff)
      /\ InPeace(b) => Stands(u, b, elements)
  BY WorkRuns
<1>2. /\ TypedWork(u, o) /\ o.todo = t /\ o.answer = a /\ o.call = "at" /\ o.began = b.began /\ o.at = b.at
  BY <1>1, OnWithIs
<1>3. InPeace(b) => elements = b.began
  BY <1>1 DEF Stands, Adding, ReadCalls
<1>4. Shape(o)
  BY <1>2 DEF Shape, Taking, Adding
<1>5. ASSUME t # <<>>, InPeace(b) PROVE Stands(u, o, elements)
  <2>1. AtStands(o)
    BY <1>2, <1>5 DEF AtStands
  <2>2. QED
    BY <1>2, <1>3, <1>5, <2>1 DEF Stands, Adding, ReadCalls, Ending
<1>6. ASSUME t = <<>>, InPeace(b)
      PROVE  ~RefusedAtOnce(o) /\ a = AnswerAtOnce(o) /\ elements = EffectAtOnce(u, o)
  <2>1. ~RefusedAtOnce(o)
    <3>1. kind # "ordered" => b.at <= Len(b.began)
      BY <1>1, <1>6, LenProperties
    <3>2. QED
      BY <1>1, <1>2, <3>1, LenProperties DEF RefusedAtOnce, TypedWork, WorkStates
  <2>2. elements = EffectAtOnce(u, o)
    BY <1>2, <1>3, <1>6 DEF EffectAtOnce
  <2>3. b.at \in Int /\ (kind # "ordered" => b.at >= 1)
    BY <1>1 DEF TypedWork, WorkStates
  <2>4. a = AnswerAtOnce(o)
    <3>1. CASE kind = "ordered"
      BY <1>2, <1>6, <3>1 DEF AnswerAtOnce
    <3>2. CASE kind # "ordered"
      BY <1>2, <1>6, <2>3, <3>2 DEF AnswerAtOnce
    <3>3. QED
      BY <3>1, <3>2
  <2>5. QED
    BY <2>1, <2>2, <2>4
<1>7. QED
  BY <1>1, <1>4, <1>5, <1>6, GoesOn

LEMMA ReadAt0 ==
  ASSUME OrderedInv, NEW u \in Users, work[u].outcome = "running", NEW b, b = work[u], b.call \in ReadCalls, InPeace(b),
         Head(b.todo).do # "size"
  PROVE  /\ elements = b.began /\ ReadsOn(b, ToRead(b))
         /\ b.call # "pick" => ~RefusedAtOnce(b)
<1>1. TypedWork(u, b) /\ Stands(u, b, elements)
  BY WorkRuns
<1>2. elements = b.began /\ ReadStands(b)
  BY <1>1 DEF Stands, Adding, ReadCalls
<1>3. b.todo # To("size", b.at)
  BY DEF To
<1>4. QED
  BY <1>2, <1>3 DEF ReadStands, ToRead

LEMMA LocateKeeps == ASSUME OrderedInv, NEW u \in Users, Locate(u) PROVE OrderedInv'
<1>1. PICK b, wanted, n, index : /\ b = work[u] /\ wanted = Head(b.todo).at /\ n = Len(elements)
                                 /\ index = IF wanted < 0 THEN n + wanted ELSE wanted
  OBVIOUS
<1>2. /\ work[u].outcome = "running" /\ Head(b.todo).do = "locate" /\ kind' = kind /\ elements' = elements
      /\ Continue(u, IF index \in 0..n - 1 THEN Then(work[u], To("at", index + 1)) ELSE Gives(work[u], Null))
  BY <1>1 DEF Locate, At
<1>3. /\ TypedWork(u, b) /\ elements \in Seq(Stuff) /\ kind \in DOMAIN Usable /\ b.todo # <<>>
      /\ b.call \in OrderedCalls \cup ArrayCalls /\ b.began \in Seq(Stuff)
  BY <1>1, <1>2, WorkRuns DEF WorkStates
<1>4. /\ b.call \in {"at", "values", "reverse", "page"} /\ Plain(b.call, b.todo) /\ Plain(b.call, Tail(b.todo))
  <2>1. /\ b.call \notin Taking \cup Adding /\ "locate" \in Allowed(b.call)
        /\ Plain(b.call, b.todo) /\ Plain(b.call, Tail(b.todo))
    BY <1>1, <1>2, DoneFor
  <2>2. QED
    BY <1>3, <2>1 DEF Allowed, Taking, Adding, OrderedCalls, ArrayCalls
<1>5. PICK here, steps, t, a : /\ here = (index \in 0..n - 1) /\ steps = To("at", index + 1)
                               /\ t = (IF here THEN steps \o Tail(b.todo) ELSE Tail(b.todo))
                               /\ a = (IF here THEN b.answer ELSE Append(b.answer, Null))
  OBVIOUS
<1>6. PICK o : o = OnWith(b, t, a)
  OBVIOUS
<1>7. Continue(u, o)
  BY <1>1, <1>2, <1>3, <1>5, <1>6, ThenIs, GivesIs
<1>8. Plain(b.call, t)
  <2>1. "at" \in Allowed(b.call)
    BY <1>4 DEF Allowed
  <2>2. Plain(b.call, steps \o Tail(b.todo))
    BY <1>3, <1>4, <1>5, <2>1, PlainThen
  <2>3. QED
    BY <1>4, <1>5, <2>2
<1>9. CASE b.call = "at"
  <2>1. InPeace(b) => /\ elements = b.began /\ b.answer = <<>> /\ Tail(b.todo) = <<>> /\ wanted = b.at
                      /\ kind = "ordered"
    BY <1>1, <1>2, <1>9, AtAt
  <2>2. steps # <<>> /\ steps \o <<>> = steps
    BY <1>5 DEF To
  <2>3. InPeace(b) => /\ index = (IF b.at < 0 THEN Len(b.began) + b.at ELSE b.at) /\ n = Len(b.began)
    BY <1>1, <2>1
  <2>4. InPeace(b) /\ here => t = steps /\ a = <<>>
    BY <1>5, <2>1, <2>2
  <2>5. InPeace(b) /\ ~here => t = <<>> /\ a = <<Null>>
    <3>1. ~here => t = Tail(b.todo) /\ a = Append(b.answer, Null)
      BY <1>5
    <3>2. Append(<<>>, Null) = <<Null>>
      OBVIOUS
    <3>3. QED
      BY <2>1, <3>1, <3>2
  <2>6. PICK ix : ix = IF b.at < 0 THEN Len(b.began) + b.at ELSE b.at
    OBVIOUS
  <2>7. InPeace(b) /\ t # <<>> =>
           a = <<>> /\ kind = "ordered" /\ ix \in 0..Len(b.began) - 1 /\ t = To("at", ix + 1)
    BY <1>5, <2>1, <2>3, <2>4, <2>5, <2>6
  <2>8. InPeace(b) /\ t = <<>> => kind = "ordered" /\ ix \notin 0..Len(b.began) - 1 /\ a = <<Null>>
    BY <1>5, <2>1, <2>2, <2>3, <2>4, <2>5, <2>6
  <2>9. QED
    BY <1>1, <1>2, <1>6, <1>7, <1>8, <1>9, <2>6, <2>7, <2>8, AtGoesOn
<1>10. CASE b.call # "at"
  <2>1. b.call \in ReadCalls /\ b.call # "pick"
    BY <1>4, <1>10 DEF ReadCalls
  <2>2. PICK is : is = ToRead(b)
    OBVIOUS
  <2>3. is \in Seq(Int) /\ \A i \in DOMAIN is : is[i] \in DOMAIN b.began
    BY <1>3, <2>1, <2>2, ToReadIs
  <2>4. ASSUME InPeace(b) PROVE ReadsOn(o, Indexes(o, Len(o.began))) /\ ~RefusedAtOnce(o)
    <3>1. elements = b.began /\ ReadsOn(b, is) /\ ~RefusedAtOnce(b)
      BY <1>1, <1>2, <2>1, <2>2, <2>4, ReadAt0
    <3>2. is[Len(b.answer) + 1] = wanted + 1 /\ wanted \in Int /\ is[Len(b.answer) + 1] \in DOMAIN b.began
      BY <1>1, <1>2, <1>3, <2>3, <3>1, ReadsHead DEF Target
    <3>3. here /\ index = wanted
      <4>1. n \in Nat /\ DOMAIN b.began = 1..n
        BY <1>1, <1>3, <3>1, LenProperties
      <4>2. wanted + 1 \in 1..n
        BY <3>2, <4>1
      <4>3. index = wanted /\ index \in 0..n - 1
        BY <1>1, <3>2, <4>1, <4>2
      <4>4. QED
        BY <1>5, <4>3
    <3>4. /\ o.todo = t /\ o.answer = a /\ o.call = b.call /\ o.began = b.began /\ o.at = b.at
      BY <1>3, <1>6, OnWithIs
    <3>5. o.todo = To("at", Head(b.todo).at + 1) \o Tail(b.todo) /\ o.answer = b.answer
      BY <1>1, <1>5, <3>3, <3>4
    <3>6. ReadsOn(o, is)
      BY <1>2, <1>3, <2>3, <3>1, <3>4, <3>5, ReadsLocated
    <3>7. Indexes(o, Len(o.began)) = is
      <4>1. Indexes(o, Len(o.began)) = Indexes(b, Len(b.began))
        BY <2>1, <3>4 DEF Indexes, ReadCalls
      <4>2. QED
        BY <2>1, <2>2, <4>1 DEF ToRead
    <3>8. ~RefusedAtOnce(o)
      BY <3>1, <3>4 DEF RefusedAtOnce
    <3>9. QED
      BY <3>6, <3>7, <3>8
  <2>5. QED
    BY <1>1, <1>2, <1>6, <1>7, <1>8, <2>1, <2>4, ReadGoesOn
<1>11. QED
  BY <1>9, <1>10

LEMMA ReadAtKeeps == ASSUME OrderedInv, NEW u \in Users, ReadAt(u) PROVE OrderedInv'
<1>1. PICK b, index, now : b = work[u] /\ index = Head(b.todo).at /\ now = elements
  OBVIOUS
<1>2. /\ work[u].outcome = "running" /\ Head(b.todo).do = "at" /\ kind' = kind /\ elements' = elements
      /\ Continue(u, IF index \in DOMAIN now THEN Gives(work[u], now[index]) ELSE Errs(work[u]))
  BY <1>1 DEF ReadAt, At
<1>3. /\ TypedWork(u, b) /\ elements \in Seq(Stuff) /\ kind \in DOMAIN Usable /\ b.todo # <<>>
      /\ b.call \in OrderedCalls \cup ArrayCalls /\ b.began \in Seq(Stuff) /\ b.at \in Int
      /\ (kind # "ordered" => b.at >= 1)
  BY <1>1, <1>2, WorkRuns DEF WorkStates, TypedWork
<1>4. b.call \in {"first", "last", "at"} \cup ReadCalls /\ Plain(b.call, b.todo) /\ Plain(b.call, Tail(b.todo))
  <2>1. /\ b.call \notin Taking \cup Adding /\ "at" \in Allowed(b.call)
        /\ Plain(b.call, b.todo) /\ Plain(b.call, Tail(b.todo))
    BY <1>1, <1>2, DoneFor
  <2>2. QED
    BY <1>3, <2>1 DEF Allowed, Taking, Adding, ReadCalls, OrderedCalls, ArrayCalls
<1>5. b.call \in {"first", "last"} /\ InPeace(b) =>
        /\ now = b.began /\ b.answer = <<>> /\ Tail(b.todo) = <<>> /\ kind = "array" /\ b.began # <<>>
        /\ index = IF b.call = "first" THEN 1 ELSE Len(b.began)
  BY <1>1, <1>2, EndAt DEF Ending
<1>6. PICK ix : ix = IF b.at < 0 THEN Len(b.began) + b.at ELSE b.at
  OBVIOUS
<1>7. b.call = "at" /\ InPeace(b) =>
        /\ now = b.began /\ b.answer = <<>> /\ Tail(b.todo) = <<>>
        /\ IF kind = "ordered" THEN ix \in 0..Len(b.began) - 1 /\ index = ix + 1 ELSE index = b.at
  BY <1>1, <1>2, <1>6, AtAt
<1>8. PICK is : is = ToRead(b)
  OBVIOUS
<1>9. b.call \in ReadCalls /\ InPeace(b) =>
        /\ now = b.began /\ ReadsOn(b, is) /\ (b.call # "pick" => ~RefusedAtOnce(b))
        /\ is \in Seq(Int) /\ is[Len(b.answer) + 1] = index /\ index \in Int
        /\ Len(b.answer) + 1 \in 1..Len(is) /\ Len(b.answer) \in Nat
  <2>1. SUFFICES ASSUME b.call \in ReadCalls, InPeace(b)
                 PROVE  /\ now = b.began /\ ReadsOn(b, is) /\ (b.call # "pick" => ~RefusedAtOnce(b))
                        /\ is \in Seq(Int) /\ is[Len(b.answer) + 1] = index /\ index \in Int
                        /\ Len(b.answer) + 1 \in 1..Len(is) /\ Len(b.answer) \in Nat
    OBVIOUS
  <2>2. now = b.began /\ ReadsOn(b, is) /\ (b.call # "pick" => ~RefusedAtOnce(b))
    BY <1>1, <1>2, <1>8, <2>1, ReadAt0
  <2>3. is \in Seq(Int)
    BY <1>3, <1>8, <2>1, ToReadIs
  <2>4. QED
    BY <1>1, <1>2, <1>3, <2>2, <2>3, ReadsHead DEF Target
<1>10. CASE index \in DOMAIN now
  <2>1. PICK val, t, a : val = now[index] /\ t = Tail(b.todo) /\ a = Append(b.answer, val)
    OBVIOUS
  <2>2. PICK o : o = OnWith(b, t, a)
    OBVIOUS
  <2>3. Gives(b, val) = o
    BY <1>3, <2>1, <2>2, GivesIs
  <2>4. Continue(u, o)
    BY <1>1, <1>2, <1>10, <2>1, <2>3
  <2>5. Plain(b.call, t)
    BY <1>4, <2>1
  <2>6. CASE b.call \in {"first", "last"}
    <3>1. InPeace(b) => t = <<>> /\ a = <<val>> /\ elements = b.began
      <4>1. Append(<<>>, val) = <<val>>
        OBVIOUS
      <4>2. QED
        BY <1>1, <1>5, <2>1, <2>6, <4>1
    <3>2. InPeace(b) => a = Ends(b.began, b.call)
      BY <1>5, <2>1, <2>6, <3>1 DEF Ends
    <3>3. b.call \in Ending /\ b.call \notin Taking
      BY <2>6 DEF Ending, Taking
    <3>4. QED
      BY <1>1, <1>2, <1>3, <2>2, <2>4, <2>5, <3>1, <3>2, <3>3, EndGoesOn
  <2>7. CASE b.call = "at"
    <3>1. InPeace(b) => t = <<>> /\ a = <<val>>
      <4>1. Append(<<>>, val) = <<val>>
        OBVIOUS
      <4>2. QED
        BY <1>7, <2>1, <2>7, <4>1
    <3>2. InPeace(b) /\ kind # "ordered" => b.at \in DOMAIN b.began /\ a = <<b.began[b.at]>>
      BY <1>7, <1>10, <2>1, <2>7, <3>1
    <3>3. InPeace(b) /\ kind = "ordered" => ix \in 0..Len(b.began) - 1 /\ a = <<b.began[ix + 1]>>
      BY <1>7, <2>1, <2>7, <3>1
    <3>4. QED
      BY <1>1, <1>2, <1>6, <2>2, <2>4, <2>5, <2>7, <3>1, <3>2, <3>3, AtGoesOn
  <2>8. CASE b.call \in ReadCalls
    <3>1. /\ o.todo = t /\ o.answer = a /\ o.call = b.call /\ o.began = b.began /\ o.at = b.at
      BY <1>3, <2>2, OnWithIs
    <3>2. ASSUME InPeace(b)
          PROVE  IF b.call = "pick" THEN ReadsOn(o, <<o.at, 1>>)
                 ELSE ReadsOn(o, Indexes(o, Len(o.began))) /\ ~RefusedAtOnce(o)
      <4>1. /\ now = b.began /\ ReadsOn(b, is) /\ (b.call # "pick" => ~RefusedAtOnce(b)) /\ is \in Seq(Int)
        BY <1>9, <2>8, <3>2
      <4>2. o.todo = Tail(b.todo) /\ o.answer = Append(b.answer, val)
        BY <2>1, <3>1
      <4>3. Head(b.todo).at \in DOMAIN b.began /\ val = b.began[Head(b.todo).at]
        BY <1>1, <1>10, <2>1, <4>1
      <4>4. ReadsOn(o, is)
        BY <1>2, <1>3, <3>1, <4>1, <4>2, <4>3, ReadsGiven
      <4>5. b.call = "pick" => is = <<o.at, 1>>
        BY <1>8, <3>1 DEF ToRead
      <4>6. b.call # "pick" => Indexes(o, Len(o.began)) = is
        <5>1. b.call # "pick" => Indexes(o, Len(o.began)) = Indexes(b, Len(b.began))
          BY <2>8, <3>1 DEF Indexes, ReadCalls
        <5>2. QED
          BY <1>8, <5>1 DEF ToRead
      <4>7. RefusedAtOnce(o) => RefusedAtOnce(b)
        BY <3>1 DEF RefusedAtOnce
      <4>8. QED
        BY <4>1, <4>4, <4>5, <4>6, <4>7
    <3>3. QED
      BY <1>1, <1>2, <2>2, <2>4, <2>5, <2>8, <3>2, ReadGoesOn
  <2>9. QED
    BY <1>4, <2>6, <2>7, <2>8
<1>11. CASE index \notin DOMAIN now
  <2>1. PICK o, hurt : o = Errs(b) /\ hurt = FALSE
    OBVIOUS
  <2>2. Continue(u, o)
    BY <1>1, <1>2, <1>11, <2>1
  <2>3. ASSUME InPeace(b) PROVE RefusedAtOnce(b) /\ now = b.began
    <3>1. now = b.began
      BY <1>4, <1>5, <1>7, <1>9, <2>3
    <3>2. PICK n : n = Len(b.began)
      OBVIOUS
    <3>3. n \in Nat /\ DOMAIN b.began = 1..n /\ (b.began # <<>> => n >= 1)
      BY <1>3, <3>2, LenProperties, EmptySeq
    <3>4. CASE b.call \in {"first", "last"}
      <4>1. index \in 1..n
        BY <1>5, <2>3, <3>2, <3>3, <3>4
      <4>2. QED
        BY <1>11, <3>1, <3>3, <4>1
    <3>5. CASE b.call = "at"
      <4>1. kind # "ordered" /\ index = b.at
        BY <1>7, <1>11, <2>3, <3>1, <3>2, <3>3, <3>5
      <4>2. b.at > n
        BY <1>3, <1>11, <3>1, <3>3, <4>1
      <4>3. QED
        BY <3>1, <3>2, <3>5, <4>1, <4>2 DEF RefusedAtOnce
    <3>6. CASE b.call \in ReadCalls /\ b.call # "pick"
      <4>1. is[Len(b.answer) + 1] \in DOMAIN b.began
        <5>1. Len(b.answer) + 1 \in DOMAIN is
          BY <1>9, <2>3, <3>6, LenProperties
        <5>2. QED
          BY <1>3, <1>8, <3>6, <5>1, ToReadIs
      <4>2. QED
        BY <1>9, <1>11, <2>3, <3>1, <3>6, <4>1
    <3>7. CASE b.call = "pick"
      <4>1. is = <<b.at, 1>> /\ b.at >= 1 /\ kind # "ordered"
        BY <1>3, <1>8, <3>7, ToReadIs DEF ReadCalls
      <4>2. /\ ReadsOn(b, is) /\ is[Len(b.answer) + 1] = index /\ Len(b.answer) \in Nat /\ Len(b.answer) + 1 \in 1..2
        BY <1>9, <2>3, <3>7, <4>1 DEF ReadCalls
      <4>3. CASE Len(b.answer) = 0
        <5>1. index = b.at
          BY <4>1, <4>2, <4>3
        <5>2. b.at > n
          BY <1>3, <1>11, <3>1, <3>3, <4>1, <5>1
        <5>3. QED
          BY <3>1, <3>2, <3>7, <4>1, <5>2 DEF RefusedAtOnce
      <4>4. CASE Len(b.answer) = 1
        <5>1. index = 1
          BY <4>1, <4>2, <4>4
        <5>2. is[1] \in DOMAIN b.began
          BY <4>2, <4>4 DEF ReadsOn
        <5>3. QED
          BY <1>11, <3>1, <3>3, <5>1, <5>2
      <4>5. Len(b.answer) \in {0, 1}
        <5>1. \A k \in Nat : k + 1 \in 1..2 => k \in {0, 1}
          OBVIOUS
        <5>2. QED
          BY <4>2, <5>1
      <4>6. QED
        BY <4>3, <4>4, <4>5
    <3>8. QED
      BY <1>4, <3>4, <3>5, <3>6, <3>7
  <2>4. WorkMoved(u, o, now)
    BY <1>3, <2>1, <2>3, WorkFails
  <2>5. QED
    BY <1>1, <1>2, <1>3, <2>2, <2>4, ContinueKeeps
<1>12. QED
  BY <1>10, <1>11

-----------------------------------------------------------------------------
(* remove(), and what is written                                           *)

LEMMA AppendToNothing == ASSUME NEW val PROVE Append(<<>>, val) = <<val>>
  OBVIOUS

LEMMA IncludesElementKeeps == ASSUME OrderedInv, NEW u \in Users, IncludesElement(u) PROVE OrderedInv'
<1>1. PICK b, now : b = work[u] /\ now = elements
  OBVIOUS
<1>2. /\ work[u].outcome = "running" /\ Head(b.todo).do = "includes" /\ kind' = kind /\ elements' = elements
      /\ IF b.began # <<>> /\ b.began[1] \in Range(now) THEN Continue(u, Then(work[u], To("remove", 0)))
         ELSE Continue(u, Gives(work[u], FALSE))
  BY <1>1 DEF IncludesElement, At, Asked
<1>3. /\ TypedWork(u, b) /\ elements \in Seq(Stuff) /\ b.todo # <<>> /\ b.began \in Seq(Stuff)
      /\ b.call \in OrderedCalls \cup ArrayCalls /\ (InPeace(b) => Stands(u, b, now))
  BY <1>1, <1>2, WorkRuns DEF WorkStates
<1>4. b.call = "remove" /\ Plain(b.call, b.todo) /\ Plain(b.call, Tail(b.todo))
  <2>1. /\ b.call \notin Taking \cup Adding /\ "includes" \in Allowed(b.call)
        /\ Plain(b.call, b.todo) /\ Plain(b.call, Tail(b.todo))
    BY <1>1, <1>2, DoneFor
  <2>2. QED
    BY <2>1 DEF Allowed
<1>5. InPeace(b) => now = b.began /\ b.answer = <<>> /\ Tail(b.todo) = <<>>
  <2>1. b.call \notin Adding \cup ReadCalls \cup {"setAll"}
    BY <1>4 DEF Adding, ReadCalls
  <2>2. InPeace(b) => now = b.began /\ b.answer = <<>> /\ b.todo \in {To("includes", b.at), To("remove", 0)}
    <3>1. InPeace(b) => now = b.began /\ b.answer = <<>>
      BY <1>3, <2>1 DEF Stands
    <3>2. InPeace(b) => b.todo = To("includes", b.at) \/ b.todo = To("remove", 0)
      BY <1>3, <1>4, Zenon DEF Stands
    <3>3. QED
      BY <3>1, <3>2
  <2>3. Tail(To("includes", b.at)) = <<>> /\ Tail(To("remove", 0)) = <<>>
    BY DEF To
  <2>4. QED
    BY <2>2, <2>3
<1>6. CASE b.began # <<>> /\ b.began[1] \in Range(now)
  <2>1. PICK steps, t, a : steps = To("remove", 0) /\ t = steps \o Tail(b.todo) /\ a = b.answer
    OBVIOUS
  <2>2. PICK o : o = OnWith(b, t, a)
    OBVIOUS
  <2>3. Continue(u, o)
    BY <1>1, <1>2, <1>3, <1>6, <2>1, <2>2, ThenIs
  <2>4. /\ TypedWork(u, o) /\ o.todo = t /\ o.answer = a /\ o.call = "remove" /\ o.began = b.began /\ o.at = b.at
    BY <1>3, <1>4, <2>2, OnWithIs
  <2>5. Plain("remove", t)
    <3>1. "remove" \in Allowed("remove")
      BY DEF Allowed
    <3>2. QED
      BY <1>3, <1>4, <2>1, <3>1, PlainThen
  <2>6. Shape(o)
    BY <2>4, <2>5 DEF Shape, Taking, Adding
  <2>7. InPeace(b) => t = To("remove", 0)
    <3>1. To("remove", 0) \o <<>> = To("remove", 0)
      BY DEF To
    <3>2. QED
      BY <1>5, <2>1, <3>1
  <2>8. InPeace(b) => Stands(u, o, elements') /\ t # <<>>
    <3>1. To("remove", 0) # <<>>
      BY DEF To
    <3>2. o.call \notin Adding \cup ReadCalls \cup Ending
      BY <2>4 DEF Adding, ReadCalls, Ending
    <3>3. QED
      BY <1>1, <1>2, <1>5, <1>6, <2>1, <2>4, <2>7, <3>1, <3>2 DEF Stands
  <2>9. QED
    BY <1>1, <1>2, <1>3, <2>2, <2>3, <2>6, <2>8, GoesOn
<1>7. CASE ~(b.began # <<>> /\ b.began[1] \in Range(now))
  <2>1. PICK t, a : t = Tail(b.todo) /\ a = Append(b.answer, FALSE)
    OBVIOUS
  <2>2. PICK o : o = OnWith(b, t, a)
    OBVIOUS
  <2>3. Gives(b, FALSE) = o
    BY <1>3, <2>1, <2>2, GivesIs
  <2>4. Continue(u, o)
    BY <1>1, <1>2, <1>7, <2>3
  <2>5. /\ TypedWork(u, o) /\ o.todo = t /\ o.answer = a /\ o.call = "remove" /\ o.began = b.began /\ o.at = b.at
    BY <1>3, <1>4, <2>2, OnWithIs
  <2>6. Shape(o)
    BY <1>4, <2>1, <2>5 DEF Shape, Taking, Adding
  <2>7. InPeace(b) => t = <<>> /\ b.began = <<>> /\ a = <<FALSE>> /\ now = b.began
    <3>1. b.began # <<>> => b.began[1] \in Range(b.began)
      BY <1>3, LenProperties, EmptySeq DEF Range
    <3>2. Append(<<>>, FALSE) = <<FALSE>>
      BY AppendToNothing, Zenon
    <3>3. QED
      BY <1>5, <1>7, <2>1, <3>1, <3>2
  <2>8. InPeace(b) => ~RefusedAtOnce(o) /\ a = AnswerAtOnce(o) /\ elements' = EffectAtOnce(u, o)
    <3>1. ~RefusedAtOnce(o)
      BY <2>5 DEF RefusedAtOnce
    <3>2. AnswerAtOnce(o) = <<b.began # <<>> >>
      BY <2>5 DEF AnswerAtOnce
    <3>3. InPeace(b) => (b.began # <<>>) = FALSE
      BY <2>7
    <3>4. InPeace(b) => AnswerAtOnce(o) = <<FALSE>>
      BY <3>2, <3>3
    <3>5. b.began = <<>> => EffectAtOnce(u, o) = b.began
      BY <2>5 DEF EffectAtOnce
    <3>6. QED
      BY <1>1, <1>2, <2>7, <3>1, <3>4, <3>5
  <2>9. QED
    BY <1>1, <1>2, <1>3, <2>2, <2>4, <2>6, <2>7, <2>8, GoesOn
<1>8. QED
  BY <1>6, <1>7

LEMMA RemoveElementKeeps == ASSUME OrderedInv, NEW u \in Users, RemoveElement(u) PROVE OrderedInv'
<1>1. PICK b, now, first : b = work[u] /\ now = elements /\ first = b.began[1]
  OBVIOUS
<1>2. /\ work[u].outcome = "running" /\ Head(b.todo).do = "remove" /\ kind' = kind
      /\ \/ \E i \in DOMAIN now :
              /\ now[i] = first /\ \A j \in 1..i - 1 : now[j] # first
              /\ elements' = RemoveAt(now, i)
              /\ Continue(u, Gives(work[u], TRUE))
         \/ first \notin Range(now) /\ elements' = now /\ Continue(u, Errs(work[u]))
  BY <1>1 DEF RemoveElement, At, Asked
<1>3. /\ TypedWork(u, b) /\ now \in Seq(Stuff) /\ b.todo # <<>> /\ b.began \in Seq(Stuff)
      /\ b.call \in OrderedCalls \cup ArrayCalls /\ (InPeace(b) => Stands(u, b, now))
  BY <1>1, <1>2, WorkRuns DEF WorkStates
<1>4. b.call = "remove" /\ Plain(b.call, Tail(b.todo))
  <2>1. /\ b.call \notin Taking \cup Adding /\ "remove" \in Allowed(b.call) /\ Plain(b.call, Tail(b.todo))
    BY <1>1, <1>2, DoneFor
  <2>2. QED
    BY <2>1 DEF Allowed
<1>5. InPeace(b) => now = b.began /\ b.answer = <<>> /\ Tail(b.todo) = <<>> /\ b.began # <<>>
  <2>1. b.call \notin Adding \cup ReadCalls \cup {"setAll"}
    BY <1>4 DEF Adding, ReadCalls
  <2>2. InPeace(b) => /\ now = b.began /\ b.answer = <<>>
                      /\ b.todo = To("includes", b.at) \/ (b.began # <<>> /\ b.todo = To("remove", 0))
    <3>1. InPeace(b) => now = b.began /\ b.answer = <<>>
      BY <1>3, <2>1 DEF Stands
    <3>2. InPeace(b) => b.todo = To("includes", b.at) \/ (b.began # <<>> /\ b.todo = To("remove", 0))
      BY <1>3, <1>4, Zenon DEF Stands
    <3>3. QED
      BY <3>1, <3>2
  <2>3. Head(To("includes", b.at)).do = "includes" /\ Tail(To("remove", 0)) = <<>>
    BY DEF To
  <2>4. QED
    BY <1>2, <2>2, <2>3
<1>6. InPeace(b) => 1 \in DOMAIN now /\ now[1] = first
  BY <1>1, <1>3, <1>5, LenProperties, EmptySeq
<1>7. CASE first \notin Range(now) /\ elements' = now /\ Continue(u, Errs(work[u]))
  <2>1. PICK o, hurt : o = Errs(b) /\ hurt = FALSE
    OBVIOUS
  <2>2. Continue(u, o)
    BY <1>1, <1>7, <2>1
  <2>3. ~InPeace(b)
    BY <1>6, <1>7 DEF Range
  <2>4. WorkMoved(u, o, now)
    BY <1>3, <2>1, <2>3, WorkFails
  <2>5. QED
    BY <1>1, <1>2, <1>3, <1>7, <2>2, <2>4, ContinueKeeps
<1>8. ASSUME NEW i \in DOMAIN now, now[i] = first, \A j \in 1..i - 1 : now[j] # first,
             elements' = RemoveAt(now, i), Continue(u, Gives(work[u], TRUE))
      PROVE  OrderedInv'
  <2>1. PICK t, a : t = Tail(b.todo) /\ a = Append(b.answer, TRUE)
    OBVIOUS
  <2>2. PICK o : o = OnWith(b, t, a)
    OBVIOUS
  <2>3. Gives(b, TRUE) = o
    BY <1>3, <2>1, <2>2, GivesIs
  <2>4. Continue(u, o)
    BY <1>1, <1>8, <2>3
  <2>5. /\ TypedWork(u, o) /\ o.todo = t /\ o.answer = a /\ o.call = "remove" /\ o.began = b.began /\ o.at = b.at
    BY <1>3, <1>4, <2>2, OnWithIs
  <2>6. Shape(o)
    BY <1>4, <2>1, <2>5 DEF Shape, Taking, Adding
  <2>7. i \in 1..Len(now) /\ elements' \in Seq(Stuff)
    <3>1. i \in 1..Len(now)
      BY <1>3, LenProperties
    <3>2. RemoveAt(now, i) \in Seq(Stuff)
      BY <1>3, <3>1, RemoveAtIs
    <3>3. QED
      BY <1>8, <3>1, <3>2
  <2>8. InPeace(b) => i = 1 /\ t = <<>> /\ a = <<TRUE>>
    <3>1. InPeace(b) => ~(1 \in 1..i - 1)
      BY <1>6, <1>8
    <3>2. i \in Nat /\ i >= 1
      BY <1>3, <2>7, LenProperties
    <3>3. Append(<<>>, TRUE) = <<TRUE>>
      BY AppendToNothing, Zenon
    <3>4. InPeace(b) => i = 1
      BY <3>1, <3>2
    <3>5. InPeace(b) => t = <<>> /\ a = Append(<<>>, TRUE)
      BY <1>5, <2>1
    <3>6. QED
      BY <3>3, <3>4, <3>5
  <2>9. InPeace(b) => ~RefusedAtOnce(o) /\ a = AnswerAtOnce(o) /\ elements' = EffectAtOnce(u, o)
    <3>1. ~RefusedAtOnce(o)
      BY <2>5 DEF RefusedAtOnce
    <3>2. AnswerAtOnce(o) = <<b.began # <<>> >>
      BY <2>5 DEF AnswerAtOnce
    <3>3. InPeace(b) => (b.began # <<>>) = TRUE
      BY <1>5
    <3>4. InPeace(b) => AnswerAtOnce(o) = <<TRUE>>
      BY <3>2, <3>3
    <3>5. b.began # <<>> => EffectAtOnce(u, o) = RemoveAt(b.began, 1)
      BY <2>5 DEF EffectAtOnce
    <3>6. QED
      BY <1>5, <1>8, <2>8, <3>1, <3>4, <3>5
  <2>10. QED
    BY <1>1, <1>2, <2>2, <2>4, <2>6, <2>7, <2>8, <2>9, GoesOn
<1>9. QED
  BY <1>2, <1>7, <1>8

LEMMA ClearKeeps == ASSUME OrderedInv, NEW u \in Users, Clear(u) PROVE OrderedInv'
<1>1. PICK b : b = work[u]
  OBVIOUS
<1>2. /\ work[u].outcome = "running" /\ Head(b.todo).do = "clear" /\ kind' = kind /\ elements' = <<>>
      /\ Continue(u, Then(work[u], <<>>))
  BY <1>1 DEF Clear, At
<1>3. /\ TypedWork(u, b) /\ b.todo # <<>> /\ (InPeace(b) => Stands(u, b, elements))
  BY <1>1, <1>2, WorkRuns DEF WorkStates
<1>4. b.call = "clear" /\ Plain(b.call, Tail(b.todo))
  <2>1. /\ b.call \notin Taking \cup Adding /\ "clear" \in Allowed(b.call) /\ Plain(b.call, Tail(b.todo))
    BY <1>1, <1>2, DoneFor
  <2>2. QED
    BY <2>1 DEF Allowed
<1>5. InPeace(b) => b.answer = <<>> /\ Tail(b.todo) = <<>>
  <2>1. b.call \notin Adding \cup ReadCalls \cup {"setAll"}
    BY <1>4 DEF Adding, ReadCalls
  <2>2. InPeace(b) => b.answer = <<>> /\ b.todo = To("clear", 0)
    BY <1>3, <1>4, <2>1 DEF Stands
  <2>3. Tail(To("clear", 0)) = <<>>
    BY DEF To
  <2>4. QED
    BY <2>2, <2>3
<1>6. PICK t, a : t = Tail(b.todo) /\ a = b.answer
  OBVIOUS
<1>7. PICK o : o = OnWith(b, t, a)
  OBVIOUS
<1>8. Then(b, <<>>) = o
  <2>1. \E S : Tail(b.todo) \in Seq(S)
    BY <1>4 DEF Plain
  <2>2. <<>> \o Tail(b.todo) = Tail(b.todo)
    BY <2>1, ConcatEmptySeq
  <2>3. Then(b, <<>>) = OnWith(b, <<>> \o Tail(b.todo), b.answer)
    BY <1>3, ThenIs
  <2>4. QED
    BY <1>6, <1>7, <2>2, <2>3
<1>9. /\ TypedWork(u, o) /\ o.todo = t /\ o.answer = a /\ o.call = "clear" /\ o.began = b.began /\ o.at = b.at
  BY <1>3, <1>4, <1>7, OnWithIs
<1>10. Shape(o)
  BY <1>4, <1>6, <1>9 DEF Shape, Taking, Adding
<1>11. InPeace(b) => t = <<>> /\ ~RefusedAtOnce(o) /\ a = AnswerAtOnce(o) /\ elements' = EffectAtOnce(u, o)
  BY <1>2, <1>5, <1>6, <1>9 DEF RefusedAtOnce, AnswerAtOnce, EffectAtOnce
<1>12. elements' \in Seq(Stuff)
  BY <1>2
<1>13. QED
  BY <1>1, <1>2, <1>7, <1>8, <1>10, <1>11, <1>12, GoesOn

LEMMA PutAtKeeps == ASSUME OrderedInv, NEW u \in Users, PutAt(u) PROVE OrderedInv'
<1>1. PICK b, now, index : b = work[u] /\ now = elements /\ index = Head(b.todo).at
  OBVIOUS
<1>2. /\ work[u].outcome = "running" /\ Head(b.todo).do = "put" /\ kind' = kind
      /\ elements' = IF index \in DOMAIN now THEN [now EXCEPT ![index] = u] ELSE now
      /\ Continue(u, IF index \in DOMAIN now THEN Then(work[u], <<>>) ELSE Errs(work[u]))
  BY <1>1 DEF PutAt, At
<1>3. /\ TypedWork(u, b) /\ now \in Seq(Stuff) /\ b.todo # <<>> /\ b.began \in Seq(Stuff) /\ b.at \in Int
      /\ b.call \in Usable[kind] /\ (InPeace(b) => Stands(u, b, now)) /\ (kind # "ordered" => b.at >= 1)
  BY <1>1, <1>2, WorkRuns DEF WorkStates, TypedWork
<1>4. b.call = "setAll" /\ Plain(b.call, b.todo) /\ Plain(b.call, Tail(b.todo))
  <2>1. /\ b.call \notin Taking \cup Adding /\ "put" \in Allowed(b.call)
        /\ Plain(b.call, b.todo) /\ Plain(b.call, Tail(b.todo))
    BY <1>1, <1>2, DoneFor
  <2>2. QED
    BY <2>1 DEF Allowed
<1>5. kind # "ordered" /\ b.at >= 1
  BY <1>3, <1>4 DEF Usable, OrderedCalls
<1>6. InPeace(b) => b.answer = <<>> /\ PutStands(u, b, now)
  BY <1>3, <1>4 DEF Stands, ReadCalls
<1>7. PICK n : n = Len(b.began)
  OBVIOUS
<1>8. n \in Nat /\ DOMAIN b.began = 1..n
  BY <1>3, <1>7, LenProperties
<1>9. InPeace(b) =>
        \/ /\ now = b.began /\ index = b.at /\ Tail(b.todo) = To("put", 1)
        \/ /\ b.at \in DOMAIN b.began /\ now = [b.began EXCEPT ![b.at] = u] /\ index = 1 /\ Tail(b.todo) = <<>>
  <2>1. CASE b.todo = All("put", <<b.at, 1>>) /\ now = b.began
    <3>1. All("put", <<b.at, 1>>) = <<[do |-> "put", at |-> b.at], [do |-> "put", at |-> 1]>>
      BY DEF All
    <3>2. PICK p, q : p = [do |-> "put", at |-> b.at] /\ q = [do |-> "put", at |-> 1]
      OBVIOUS
    <3>3. Head(<<p, q>>) = p /\ Tail(<<p, q>>) = <<q>>
      OBVIOUS
    <3>4. b.todo = <<p, q>>
      BY <2>1, <3>1, <3>2
    <3>5. index = b.at
      BY <1>1, <3>2, <3>3, <3>4
    <3>6. Tail(b.todo) = To("put", 1)
      BY <3>2, <3>3, <3>4 DEF To
    <3>7. QED
      BY <2>1, <3>5, <3>6
  <2>2. CASE b.todo = To("put", 1) /\ b.at \in DOMAIN b.began /\ now = [b.began EXCEPT ![b.at] = u]
    <3>1. Head(To("put", 1)).at = 1 /\ Tail(To("put", 1)) = <<>>
      BY ToIs, Zenon
    <3>2. QED
      BY <1>1, <2>2, <3>1
  <2>3. QED
    BY <1>6, <2>1, <2>2 DEF PutStands
<1>10. CASE index \notin DOMAIN now
  <2>1. PICK o, hurt : o = Errs(b) /\ hurt = FALSE
    OBVIOUS
  <2>2. Continue(u, o)
    BY <1>1, <1>2, <1>10, <2>1
  <2>3. ASSUME InPeace(b) PROVE RefusedAtOnce(b) /\ now = b.began
    <3>1. CASE now = b.began /\ index = b.at
      <4>1. b.at > n
        BY <1>3, <1>5, <1>8, <1>10, <3>1
      <4>2. QED
        BY <1>4, <1>5, <1>7, <3>1, <4>1 DEF RefusedAtOnce
    <3>2. CASE b.at \in DOMAIN b.began /\ now = [b.began EXCEPT ![b.at] = u] /\ index = 1
      <4>1. DOMAIN now = 1..n /\ 1 \in 1..n
        BY <1>5, <1>8, <3>2
      <4>2. QED
        BY <1>10, <3>2, <4>1
    <3>3. QED
      BY <1>9, <2>3, <3>1, <3>2
  <2>4. WorkMoved(u, o, now)
    BY <1>3, <2>1, <2>3, WorkFails
  <2>5. QED
    BY <1>1, <1>2, <1>3, <1>10, <2>2, <2>4, ContinueKeeps
<1>11. CASE index \in DOMAIN now
  <2>1. PICK t, a, then : t = Tail(b.todo) /\ a = b.answer /\ then = [now EXCEPT ![index] = u]
    OBVIOUS
  <2>2. PICK o : o = OnWith(b, t, a)
    OBVIOUS
  <2>3. Then(b, <<>>) = o
    <3>1. PICK S : t \in Seq(S)
      BY <1>4, <2>1 DEF Plain
    <3>2. <<>> \o t = t
      BY <3>1, ConcatEmptySeq
    <3>3. Then(b, <<>>) = OnWith(b, <<>> \o t, a)
      BY <1>3, <2>1, ThenIs
    <3>4. QED
      BY <2>2, <3>2, <3>3
  <2>4. Continue(u, o) /\ elements' = then
    BY <1>1, <1>2, <1>11, <2>1, <2>3
  <2>5. /\ TypedWork(u, o) /\ o.todo = t /\ o.answer = a /\ o.call = "setAll" /\ o.began = b.began /\ o.at = b.at
    BY <1>3, <1>4, <2>2, OnWithIs
  <2>6. Shape(o)
    BY <1>4, <2>1, <2>5 DEF Shape, Taking, Adding
  <2>7. then \in Seq(Stuff)
    <3>1. u \in Stuff
      BY DEF Stuff
    <3>2. now \in [1..Len(now) -> Stuff] /\ Len(now) \in Nat
      BY <1>3, LenProperties
    <3>3. then \in [1..Len(now) -> Stuff]
      BY <2>1, <3>1, <3>2
    <3>4. QED
      BY <3>2, <3>3
  <2>8. ASSUME InPeace(b), t # <<>> PROVE Stands(u, o, then)
    <3>1. b.at \in DOMAIN b.began /\ then = [b.began EXCEPT ![b.at] = u] /\ t = To("put", 1)
      BY <1>9, <1>11, <2>1, <2>8
    <3>2. PutStands(u, o, then)
      BY <2>5, <3>1 DEF PutStands
    <3>3. a = <<>>
      BY <1>6, <2>1, <2>8
    <3>4. QED
      BY <2>5, <3>2, <3>3 DEF Stands, Adding, ReadCalls, Ending
  <2>9. ASSUME InPeace(b), t = <<>>
        PROVE  ~RefusedAtOnce(o) /\ a = AnswerAtOnce(o) /\ then = EffectAtOnce(u, o)
    <3>1. b.at \in DOMAIN b.began /\ now = [b.began EXCEPT ![b.at] = u] /\ index = 1
      <4>1. To("put", 1) # <<>>
        BY DEF To
      <4>2. QED
        BY <1>9, <2>1, <2>9, <4>1
    <3>2. ~RefusedAtOnce(o)
      <4>1. ~(b.at > n)
        BY <1>8, <3>1
      <4>2. QED
        BY <1>7, <2>5, <4>1 DEF RefusedAtOnce
    <3>3. a = AnswerAtOnce(o)
      BY <1>6, <2>1, <2>5, <2>9 DEF AnswerAtOnce
    <3>4. then = [i \in DOMAIN b.began |-> IF i \in {1, b.at} THEN u ELSE b.began[i]]
      <4>1. b.began = [i \in 1..n |-> b.began[i]]
        BY <1>3, <1>8
      <4>2. QED
        BY <1>8, <2>1, <3>1, <4>1
    <3>5. EffectAtOnce(u, o) = [i \in DOMAIN b.began |-> IF i \in {1, b.at} THEN u ELSE b.began[i]]
      BY <2>5 DEF EffectAtOnce
    <3>6. QED
      BY <3>2, <3>3, <3>4, <3>5
  <2>10. QED
    BY <1>1, <1>2, <2>2, <2>4, <2>6, <2>7, <2>8, <2>9, GoesOn
<1>12. QED
  BY <1>10, <1>11

RestCalls(t, S, all, m) ==
  /\ t \in Seq([do : {"add"}, at : Seq(S)]) /\ Len(t) = Len(all) - m /\ DOMAIN t = 1..(Len(all) - m)
  /\ \A i \in 1..(Len(all) - m) : t[i] = [do |-> "add", at |-> <<all[m + i]>>]

LEMMA RestIs ==
  ASSUME NEW S, NEW all \in Seq(S), NEW m \in 0..Len(all)
  PROVE  RestCalls(All("add", Rest(all, m)), S, all, m)
<1>0. PICK t : t = All("add", Rest(all, m))
  OBVIOUS
<1>1. PICK n, k : n = Len(all) /\ k = n - m
  OBVIOUS
<1>2. n \in Nat /\ m \in 0..n /\ k \in Nat /\ \A i \in 1..n : all[i] \in S
  BY <1>1, LenProperties
<1>3. \A i \in 1..k : m + i \in 1..n
  BY <1>1, <1>2
<1>4. ASSUME NEW i \in 1..k PROVE <<all[m + i]>> \in Seq(S)
  <2>1. PICK x : x = all[m + i]
    OBVIOUS
  <2>2. x \in S
    BY <1>2, <1>3, <2>1
  <2>3. <<x>> \in Seq(S)
    BY <2>2
  <2>4. QED
    BY <2>1, <2>3, Zenon
<1>5. PICK ats : ats = Rest(all, m)
  OBVIOUS
<1>6. ats = [i \in 1..k |-> <<all[m + i]>>]
  BY <1>1, <1>5 DEF Rest
<1>7. ats \in Seq(Seq(S)) /\ Len(ats) = k /\ DOMAIN ats = 1..k
  BY <1>2, <1>4, <1>6
<1>8. Calls(All("add", ats), "add", Seq(S), ats)
  BY <1>7, AllIs, Zenon
<1>9. t \in Seq([do : {"add"}, at : Seq(S)]) /\ Len(t) = k
  BY <1>0, <1>5, <1>7, <1>8 DEF Calls
<1>10. t = [i \in 1..k |-> [do |-> "add", at |-> ats[i]]]
  BY <1>0, <1>5, <1>7 DEF All
<1>11. QED
  BY <1>0, <1>1, <1>6, <1>9, <1>10 DEF RestCalls

LEMMA RestGoesOn ==
  ASSUME NEW S, NEW all \in Seq(S), NEW m \in Nat, m < Len(all), NEW t, t = All("add", Rest(all, m))
  PROVE  /\ t # <<>> /\ Head(t).at = <<all[m + 1]>> /\ Tail(t) = All("add", Rest(all, m + 1))
         /\ (Tail(t) = <<>> <=> m + 1 = Len(all))
<1>1. PICK n, k, rest : n = Len(all) /\ k = n - m /\ rest = All("add", Rest(all, m + 1))
  OBVIOUS
<1>2. n \in Nat /\ m \in 0..n /\ k \in Nat /\ k >= 1 /\ m + 1 \in 0..n /\ n - (m + 1) = k - 1
  BY <1>1, LenProperties
<1>3. PICK T : T = [do : {"add"}, at : Seq(S)]
  OBVIOUS
<1>4. t \in Seq(T) /\ Len(t) = k /\ \A i \in 1..k : t[i] = [do |-> "add", at |-> <<all[m + i]>>]
  <2>1. m \in 0..Len(all)
    BY <1>1, <1>2
  <2>2. /\ t \in Seq([do : {"add"}, at : Seq(S)]) /\ Len(t) = Len(all) - m
        /\ \A i \in 1..(Len(all) - m) : t[i] = [do |-> "add", at |-> <<all[m + i]>>]
    <3>1. RestCalls(All("add", Rest(all, m)), S, all, m)
      BY <2>1, RestIs, Zenon
    <3>2. QED
      BY <3>1 DEF RestCalls
  <2>3. QED
    BY <1>1, <1>3, <2>2
<1>5. /\ rest \in Seq(T) /\ Len(rest) = k - 1
      /\ \A i \in 1..(k - 1) : rest[i] = [do |-> "add", at |-> <<all[(m + 1) + i]>>]
  <2>1. PICK next : next = m + 1
    OBVIOUS
  <2>2. next \in 0..Len(all) /\ rest = All("add", Rest(all, next))
    BY <1>1, <1>2, <2>1
  <2>3. /\ rest \in Seq([do : {"add"}, at : Seq(S)]) /\ Len(rest) = Len(all) - next
        /\ \A i \in 1..(Len(all) - next) : rest[i] = [do |-> "add", at |-> <<all[next + i]>>]
    <3>1. RestCalls(All("add", Rest(all, next)), S, all, next)
      BY <2>2, RestIs, Zenon
    <3>2. QED
      BY <2>2, <3>1 DEF RestCalls
  <2>4. Len(all) - next = k - 1
    BY <1>1, <1>2, <2>1
  <2>5. QED
    BY <1>3, <2>1, <2>3, <2>4
<1>6. t # <<>> /\ Head(t) = t[1]
  BY <1>2, <1>4
<1>7. Tail(t) \in Seq(T) /\ Len(Tail(t)) = k - 1 /\ \A i \in 1..(k - 1) : Tail(t)[i] = t[i + 1]
  BY <1>4, <1>6, HeadTailProperties
<1>8. \A i \in 1..(k - 1) : Tail(t)[i] = rest[i]
  <2>1. TAKE i \in 1..(k - 1)
  <2>2. i + 1 \in 1..k /\ m + (i + 1) = (m + 1) + i
    BY <1>2
  <2>3. t[i + 1] = [do |-> "add", at |-> <<all[m + (i + 1)]>>]
    BY <1>4, <2>2
  <2>4. QED
    BY <1>5, <1>7, <2>2, <2>3
<1>9. Tail(t) = rest
  BY <1>5, <1>7, <1>8, SeqEqual
<1>10. Head(t).at = <<all[m + 1]>>
  <2>1. 1 \in 1..k
    BY <1>2
  <2>2. t[1] = [do |-> "add", at |-> <<all[m + 1]>>]
    BY <1>4, <2>1
  <2>3. QED
    BY <1>6, <2>2
<1>11. Tail(t) = <<>> <=> k - 1 = 0
  BY <1>2, <1>7, EmptySeq
<1>12. QED
  BY <1>1, <1>2, <1>6, <1>9, <1>10, <1>11

LEMMA AddsRest ==
  ASSUME NEW t, NEW given, Adds(t, given), t # <<>>
  PROVE  Adds(Tail(t), given) /\ Head(t).at \in Seq(Range(given))
<1>1. PICK T, n, rest : T = [do : {"add"}, at : Seq(Range(given))] /\ n = Len(t) /\ rest = Tail(t)
  OBVIOUS
<1>2. /\ t \in Seq(T) /\ \A i \in DOMAIN t : IsInjective(t[i].at)
      /\ \A i, j \in DOMAIN t : i # j => Range(t[i].at) \cap Range(t[j].at) = {}
  BY <1>1 DEF Adds
<1>3. n \in Nat /\ n # 0 /\ DOMAIN t = 1..n /\ Head(t) \in T
  BY <1>1, <1>2, HeadTailProperties, LenProperties, EmptySeq
<1>4. rest \in Seq(T) /\ DOMAIN rest = 1..(n - 1) /\ \A i \in 1..(n - 1) : rest[i] = t[i + 1]
  BY <1>1, <1>2, <1>3, HeadTailProperties, LenProperties
<1>5. \A i \in 1..(n - 1) : i + 1 \in DOMAIN t
  BY <1>3
<1>6. \A i, j \in 1..(n - 1) : i # j => i + 1 # j + 1
  BY <1>3
<1>7. \A i \in 1..(n - 1) : IsInjective(rest[i].at)
  BY <1>2, <1>4, <1>5
<1>8. \A i, j \in 1..(n - 1) : i # j => Range(rest[i].at) \cap Range(rest[j].at) = {}
  <2>1. TAKE i, j \in 1..(n - 1)
  <2>2. HAVE i # j
  <2>3. Range(t[i + 1].at) \cap Range(t[j + 1].at) = {}
    BY <1>2, <1>5, <1>6, <2>2
  <2>4. QED
    BY <1>4, <2>3
<1>9. Head(t).at \in Seq(Range(given))
  BY <1>1, <1>3
<1>10. QED
  BY <1>1, <1>4, <1>7, <1>8, <1>9 DEF Adds

LEMMA BringsAre ==
  ASSUME NEW u \in Users
  PROVE  /\ Brings[u] \in Seq(Items) /\ Brings[u] # <<>> /\ Len(Brings[u]) \in Nat /\ Len(Brings[u]) >= 1
         /\ DOMAIN Brings[u] = 1..Len(Brings[u]) /\ IsInjective(Brings[u]) /\ Range(Brings[u]) \subseteq Items
<1>1. PICK given : given = Brings[u]
  OBVIOUS
<1>2. given \in Seq(Items) /\ given # <<>> /\ IsInjective(given)
  BY <1>1, OrderedAssumption
<1>3. Len(given) \in Nat /\ Len(given) >= 1 /\ DOMAIN given = 1..Len(given) /\ Range(given) \subseteq Items
  BY <1>2, LenProperties, EmptySeq, RangeOfSeq
<1>4. QED
  BY <1>1, <1>2, <1>3

LEMMA AddKeeps == ASSUME OrderedInv, NEW u \in Users, Add(u) PROVE OrderedInv'
<1>1. PICK b, now, some, given : b = work[u] /\ now = elements /\ some = Head(b.todo).at /\ given = b.given
  OBVIOUS
<1>2. /\ work[u].outcome = "running" /\ Head(b.todo).do = "add" /\ kind' = kind /\ elements' = now \o some
      /\ Continue(u, Then(work[u], <<>>))
  BY <1>1 DEF Add, At
<1>3. /\ TypedWork(u, b) /\ now \in Seq(Stuff) /\ b.todo # <<>> /\ b.began \in Seq(Stuff) /\ given = Brings[u]
      /\ (InPeace(b) => Stands(u, b, now)) /\ Shape(b)
  BY <1>1, <1>2, WorkRuns DEF TypedWork
<1>4. b.call \in Adding
  <2>1. "add" \notin Allowed(b.call)
    BY DEF Allowed
  <2>2. b.call \notin Taking
    BY <1>1, <1>2, DoneFor
  <2>3. QED
    BY <1>1, <1>2, <2>1, <2>2, DoneFor
<1>5. Adds(b.todo, given) /\ b.call \notin Taking
  BY <1>1, <1>3, <1>4 DEF Shape, Adding, Taking
<1>6. /\ given \in Seq(Items) /\ Len(given) \in Nat /\ Len(given) >= 1 /\ given[1] \in Items /\ Range(given) \subseteq Items
  BY <1>3, BringsAre
<1>7. some \in Seq(Stuff) /\ Adds(Tail(b.todo), given)
  <2>1. some \in Seq(Range(given)) /\ Adds(Tail(b.todo), given)
    BY <1>1, <1>3, <1>5, AddsRest
  <2>2. Range(given) \subseteq Stuff
    BY <1>6 DEF Stuff
  <2>3. QED
    BY <2>1, <2>2, SeqMonotonic
<1>8. elements' \in Seq(Stuff)
  BY <1>2, <1>3, <1>7, ConcatProperties
<1>9. PICK t, a, then : t = Tail(b.todo) /\ a = b.answer /\ then = elements'
  OBVIOUS
<1>10. PICK o : o = OnWith(b, t, a)
  OBVIOUS
<1>11. Then(b, <<>>) = o
  <2>1. PICK S : t \in Seq(S)
    BY <1>7, <1>9 DEF Adds
  <2>2. <<>> \o t = t
    BY <2>1, ConcatEmptySeq
  <2>3. Then(b, <<>>) = OnWith(b, <<>> \o t, a)
    BY <1>3, <1>9, ThenIs
  <2>4. QED
    BY <1>10, <2>2, <2>3
<1>12. /\ TypedWork(u, o) /\ o.todo = t /\ o.answer = a /\ o.call = b.call /\ o.began = b.began /\ o.given = given
  <2>1. /\ TypedWork(u, o) /\ o.todo = t /\ o.answer = a /\ o.call = b.call /\ o.began = b.began /\ o.given = b.given
    BY <1>3, <1>10, OnWithIs
  <2>2. QED
    BY <1>1, <2>1
<1>13. Shape(o)
  BY <1>4, <1>5, <1>7, <1>9, <1>12 DEF Shape
<1>14. PICK all : all = IF b.call = "append" THEN <<given[1]>> ELSE given
  OBVIOUS
<1>15. all \in Seq(Stuff) /\ Len(all) \in Nat /\ all # <<>>
  <2>1. given \in Seq(Stuff) /\ given # <<>>
    BY <1>6, SeqMonotonic, EmptySeq DEF Stuff
  <2>2. given[1] \in Stuff
    BY <1>6 DEF Stuff
  <2>3. <<given[1]>> \in Seq(Stuff) /\ <<given[1]>> # <<>>
    BY <2>2
  <2>4. QED
    BY <1>14, <2>1, <2>3, LenProperties
<1>16. ~RefusedAtOnce(o) /\ AnswerAtOnce(o) = <<>> /\ EffectAtOnce(u, o) = b.began \o all
  <2>1. ~RefusedAtOnce(o)
    BY <1>4, <1>12 DEF RefusedAtOnce, Adding
  <2>2. AnswerAtOnce(o) = <<>>
    BY <1>4, <1>12 DEF AnswerAtOnce, Adding
  <2>3. CASE b.call = "append"
    <3>1. EffectAtOnce(u, o) = Append(b.began, given[1])
      BY <1>12, <2>3 DEF EffectAtOnce
    <3>2. Append(b.began, given[1]) = b.began \o <<given[1]>>
      <4>1. PICK first, began : first = given[1] /\ began = b.began
        OBVIOUS
      <4>2. first \in Stuff /\ began \in Seq(Stuff)
        BY <1>3, <1>6, <4>1 DEF Stuff
      <4>3. Append(began, first) = began \o <<first>>
        BY <4>2, AppendIsConcat
      <4>4. QED
        BY <4>1, <4>3
    <3>3. QED
      BY <1>14, <2>1, <2>2, <2>3, <3>1, <3>2
  <2>4. CASE b.call = "extend"
    <3>1. EffectAtOnce(u, o) = b.began \o given
      BY <1>12, <2>4 DEF EffectAtOnce
    <3>2. QED
      BY <1>14, <2>1, <2>2, <2>4, <3>1
  <2>5. QED
    BY <1>4, <2>3, <2>4 DEF Adding
<1>17. ASSUME InPeace(b)
       PROVE  /\ a = <<>>
              /\ t # <<>> => Stands(u, o, then)
              /\ t = <<>> => then = b.began \o all
  <2>1. a = <<>>
    BY <1>3, <1>4, <1>9, <1>17 DEF Stands, ReadCalls, Adding
  <2>2. PICK m \in 0..Len(all) :
          /\ now = b.began \o SubSeq(all, 1, m)
          /\ IF b.call = "extend" /\ kind = "queue" THEN b.todo = All("add", Rest(all, m))
             ELSE m = 0 /\ b.todo = To("add", all)
    BY <1>1, <1>3, <1>4, <1>14, <1>17 DEF Stands, AddStands
  <2>3. CASE b.call = "extend" /\ kind = "queue"
    <3>1. PICK n, k : n = Len(all) /\ k = m + 1
      OBVIOUS
    <3>2. m \in Nat /\ m < Len(all)
      <4>1. m \in Nat /\ m <= Len(all)
        BY <1>15
      <4>2. m # Len(all)
        <5>1. SUFFICES ASSUME m = Len(all) PROVE FALSE
          OBVIOUS
        <5>2. RestCalls(b.todo, Stuff, all, m)
          <6>1. RestCalls(All("add", Rest(all, m)), Stuff, all, m)
            BY <1>15, RestIs, Zenon
          <6>2. QED
            BY <2>2, <2>3, <6>1
        <5>3. b.todo \in Seq([do : {"add"}, at : Seq(Stuff)]) /\ Len(b.todo) = 0
          BY <1>15, <5>1, <5>2 DEF RestCalls
        <5>4. QED
          BY <1>3, <5>3, EmptySeq
      <4>3. QED
        BY <1>15, <4>1, <4>2
    <3>3. some = <<all[k]>> /\ t = All("add", Rest(all, k)) /\ (t = <<>> <=> k = n)
      BY <1>1, <1>9, <1>15, <2>2, <2>3, <3>1, <3>2, RestGoesOn
    <3>4. k \in 1..n /\ n \in Nat /\ k - 1 = m
      BY <1>15, <3>1, <3>2
    <3>5. SubSeq(all, 1, k) = SubSeq(all, 1, m) \o <<all[k]>>
      <4>1. 1 \in 1..Len(all) /\ k \in 1..Len(all)
        BY <3>1, <3>4
      <4>2. SubSeq(all, 1, k) = SubSeq(all, 1, k - 1) \o <<all[k]>>
        BY <1>15, <4>1, SubSeqRecursiveSecond
      <4>3. QED
        BY <3>4, <4>2
    <3>6. then = b.began \o SubSeq(all, 1, k)
      <4>1. PICK part, one : part = SubSeq(all, 1, m) /\ one = <<all[k]>>
        OBVIOUS
      <4>2. part \in Seq(Stuff)
        <5>1. 1 \in Int /\ m \in Int /\ \A i \in 1..m : all[i] \in Stuff
          BY <1>15, <3>2, LenProperties
        <5>2. QED
          BY <4>1, <5>1, SubSeqProperties
      <4>3. one \in Seq(Stuff)
        BY <1>15, <3>1, <3>4, <4>1, LenProperties
      <4>4. (b.began \o part) \o one = b.began \o (part \o one)
        <5>1. PICK began : began = b.began
          OBVIOUS
        <5>2. (began \o part) \o one = began \o (part \o one)
          <6>1. began \in Seq(Stuff)
            BY <1>3, <5>1
          <6>2. QED
            BY <4>2, <4>3, <6>1, ConcatThrice
        <5>3. QED
          BY <5>1, <5>2
      <4>5. QED
        BY <1>2, <1>9, <2>2, <3>3, <3>5, <4>1, <4>4
    <3>7. t = <<>> => then = b.began \o all
      <4>1. SubSeq(all, 1, n) = all
        BY <1>15, <3>1, SubSeqFull
      <4>2. QED
        BY <3>3, <3>6, <4>1
    <3>8. Stands(u, o, then)
      <4>1. AddStands(o, then)
        <5>1. k \in 0..Len(all) /\ o.call = "extend"
          BY <1>12, <2>3, <3>1, <3>4
        <5>2. all = o.given
          BY <1>12, <1>14, <2>3
        <5>3. QED
          BY <1>12, <2>3, <3>3, <3>6, <5>1, <5>2 DEF AddStands
      <4>2. QED
        BY <1>4, <1>12, <2>1, <4>1 DEF Stands, Adding, ReadCalls, Ending
    <3>9. QED
      BY <2>1, <3>7, <3>8
  <2>4. CASE ~(b.call = "extend" /\ kind = "queue")
    <3>1. m = 0 /\ b.todo = To("add", all)
      BY <2>2, <2>4
    <3>2. Head(To("add", all)).at = all /\ Tail(To("add", all)) = <<>>
      BY ToIs, Zenon
    <3>3. some = all /\ t = <<>>
      BY <1>1, <1>9, <3>1, <3>2
    <3>4. SubSeq(all, 1, 0) = <<>>
      BY SubSeqEmpty
    <3>5. now = b.began
      BY <1>3, <2>2, <3>1, <3>4, ConcatEmptySeq
    <3>6. QED
      BY <1>2, <1>9, <2>1, <3>3, <3>5
  <2>5. QED
    BY <2>3, <2>4
<1>18. QED
  BY <1>1, <1>2, <1>8, <1>9, <1>10, <1>11, <1>13, <1>16, <1>17, GoesOn

(* Nothing that is brought is added twice.                                 *)
LEMMA AddsFirst ==
  ASSUME NEW u \in Users, NEW call \in Adding, NEW at, NEW given, given = Brings[u], NEW t, t = First(call, at, given)
  PROVE  /\ Adds(t, given) /\ t # <<>>
         /\ IF call = "extend" /\ kind = "queue" THEN t = All("add", Rest(given, 0))
            ELSE t = To("add", IF call = "append" THEN <<given[1]>> ELSE given)
<1>1. PICK n, R : n = Len(given) /\ R = Range(given)
  OBVIOUS
<1>2. /\ given \in Seq(Items) /\ n \in Nat /\ n >= 1 /\ DOMAIN given = 1..n /\ IsInjective(given)
      /\ given # <<>>
  BY <1>1, BringsAre
<1>3. /\ given \in Seq(R) /\ \A i \in 1..n : given[i] \in R
  BY <1>1, <1>2, SeqOfRange DEF Range
<1>4. CASE call = "append"
  <2>1. t = To("add", <<given[1]>>)
    BY <1>4 DEF First
  <2>2. <<given[1]>> \in Seq(R) /\ IsInjective(<<given[1]>>)
    BY <1>2, <1>3 DEF IsInjective
  <2>3. t = <<[do |-> "add", at |-> <<given[1]>>]>>
    BY <2>1 DEF To
  <2>4. t \in Seq([do : {"add"}, at : Seq(R)]) /\ DOMAIN t = {1} /\ t[1].at = <<given[1]>> /\ t # <<>>
    BY <2>2, <2>3
  <2>5. Adds(t, given)
    BY <1>1, <2>2, <2>4 DEF Adds
  <2>6. QED
    BY <1>4, <2>1, <2>4, <2>5
<1>5. CASE call = "extend" /\ kind # "queue"
  <2>1. t = To("add", given)
    BY <1>5 DEF First
  <2>2. t = <<[do |-> "add", at |-> given]>>
    BY <2>1 DEF To
  <2>3. t \in Seq([do : {"add"}, at : Seq(R)]) /\ DOMAIN t = {1} /\ t[1].at = given /\ t # <<>>
    BY <1>3, <2>2
  <2>4. Adds(t, given)
    BY <1>1, <1>2, <2>3 DEF Adds
  <2>5. QED
    BY <1>5, <2>1, <2>3, <2>4
<1>6. CASE call = "extend" /\ kind = "queue"
  <2>1. t = All("add", [i \in DOMAIN given |-> <<given[i]>>])
    BY <1>6 DEF First
  <2>2. [i \in DOMAIN given |-> <<given[i]>>] = Rest(given, 0)
    <3>1. Len(given) - 0 = n /\ \A i \in 1..n : 0 + i = i
      BY <1>1, <1>2
    <3>2. QED
      BY <1>2, <3>1 DEF Rest
  <2>3. t = All("add", Rest(given, 0))
    BY <2>1, <2>2
  <2>4. PICK zero : zero = 0
    OBVIOUS
  <2>5. given \in Seq(R) /\ zero \in 0..Len(given)
    BY <1>1, <1>2, <1>3, <2>4
  <2>6. RestCalls(All("add", Rest(given, zero)), R, given, zero)
    BY <2>5, RestIs, Zenon
  <2>7. t \in Seq([do : {"add"}, at : Seq(R)]) /\ DOMAIN t = 1..n /\ \A i \in 1..n : t[i].at = <<given[i]>>
    <3>1. Len(given) - zero = n /\ \A i \in 1..n : zero + i = i
      BY <1>1, <1>2, <2>4
    <3>2. /\ t \in Seq([do : {"add"}, at : Seq(R)]) /\ DOMAIN t = 1..n
          /\ \A i \in 1..n : t[i] = [do |-> "add", at |-> <<given[zero + i]>>]
      BY <2>3, <2>4, <2>6, <3>1 DEF RestCalls
    <3>3. ASSUME NEW i \in 1..n PROVE t[i].at = <<given[i]>>
      <4>1. t[i] = [do |-> "add", at |-> <<given[zero + i]>>] /\ zero + i = i
        BY <3>1, <3>2
      <4>2. QED
        BY <4>1
    <3>4. QED
      BY <3>2, <3>3
  <2>8. \A i \in 1..n : IsInjective(<<given[i]>>) /\ Range(<<given[i]>>) = {given[i]}
    BY DEF IsInjective, Range
  <2>9. \A i, j \in 1..n : i # j => given[i] # given[j]
    BY <1>2 DEF IsInjective
  <2>10. \A i, j \in 1..n : i # j => Range(t[i].at) \cap Range(t[j].at) = {}
    <3>1. TAKE i, j \in 1..n
    <3>2. HAVE i # j
    <3>3. Range(t[i].at) = {given[i]} /\ Range(t[j].at) = {given[j]} /\ given[i] # given[j]
      BY <2>7, <2>8, <2>9, <3>2
    <3>4. QED
      BY <3>3
  <2>11. Adds(t, given)
    <3>1. \A i \in 1..n : IsInjective(t[i].at)
      BY <2>7, <2>8
    <3>2. \A i \in DOMAIN t : IsInjective(t[i].at)
      BY <2>7, <3>1
    <3>3. \A i, j \in DOMAIN t : i # j => Range(t[i].at) \cap Range(t[j].at) = {}
      BY <2>7, <2>10
    <3>4. t \in Seq([do : {"add"}, at : Seq(Range(given))])
      BY <1>1, <2>7
    <3>5. QED
      BY <3>2, <3>3, <3>4 DEF Adds
  <2>12. t # <<>>
    BY <1>2, <2>7
  <2>13. QED
    BY <1>6, <2>3, <2>11, <2>12
<1>7. QED
  BY <1>4, <1>5, <1>6 DEF Adding

LEMMA UseKeeps == ASSUME OrderedInv, NEW u \in Users, Use(u) PROVE OrderedInv'
<1>1. PICK call \in MayUse[u] \cap Usable[kind] :
        \E at \in IF call \in {"at", "page", "pick", "setAll"} THEN Positions ELSE {1} :
          /\ kind # "ordered" => at >= 1
          /\ work' = [work EXCEPT ![u] =
               [call |-> call, outcome |-> "running", at |-> at, given |-> Brings[u],
                todo |-> First(call, at, Brings[u]), answer |-> <<>>,
                began |-> elements, alone |-> TRUE, hurt |-> FALSE, left |-> <<>>]]
  BY DEF Use
<1>2. PICK at \in IF call \in {"at", "page", "pick", "setAll"} THEN Positions ELSE {1} :
          /\ kind # "ordered" => at >= 1
          /\ work' = [work EXCEPT ![u] =
               [call |-> call, outcome |-> "running", at |-> at, given |-> Brings[u],
                todo |-> First(call, at, Brings[u]), answer |-> <<>>,
                began |-> elements, alone |-> TRUE, hurt |-> FALSE, left |-> <<>>]]
  BY <1>1
<1>3. PICK t, given, now : t = First(call, at, Brings[u]) /\ given = Brings[u] /\ now = elements
  OBVIOUS
<1>4. PICK o : o = [call |-> call, outcome |-> "running", at |-> at, given |-> given, todo |-> t, answer |-> <<>>,
                    began |-> now, alone |-> TRUE, hurt |-> FALSE, left |-> <<>>]
  OBVIOUS
<1>5. /\ kind' = kind /\ elements' = elements /\ kind \in DOMAIN Usable /\ now \in Seq(Stuff)
      /\ work = [w \in Users |-> work[w]]
  BY <1>3 DEF Use, OrderedInv
<1>6. work' = [w \in Users |-> IF w = u THEN o ELSE work[w]]
  BY <1>2, <1>3, <1>4, <1>5
<1>7. at \in Int /\ call \in Usable[kind] /\ call \in OrderedCalls \cup ArrayCalls
  <2>1. Positions \subseteq Int
    BY OrderedAssumption
  <2>2. Usable[kind] \subseteq OrderedCalls \cup ArrayCalls
    BY <1>5 DEF Usable, QueueCalls, OrderedCalls, ArrayCalls
  <2>3. QED
    BY <1>1, <1>2, <2>1, <2>2
<1>8. /\ o.call = call /\ o.outcome = "running" /\ o.at = at /\ o.given = given /\ o.todo = t /\ o.answer = <<>>
      /\ o.began = now /\ o.alone = TRUE /\ o.hurt = FALSE /\ o.left = <<>>
  BY <1>4
<1>9. TypedWork(u, o)
  <2>1. given \in Seq(Items)
    BY <1>3, BringsAre
  <2>2. o \in WorkStates(o.todo, o.answer, o.left)
    BY <1>4, <1>5, <1>7, <2>1 DEF WorkStates
  <2>3. QED
    BY <1>2, <1>3, <1>7, <1>8, <2>2 DEF TypedWork
<1>10. t # <<>> /\ Shape(o) /\ Stands(u, o, now)
  <2>1. CASE call \in Ending /\ kind = "queue"
    <3>1. call \in {"first", "shift"}
      BY <1>7, <2>1 DEF Usable, QueueCalls, Ending
    <3>2. t = To(IF call = "first" THEN "peek" ELSE "take", call)
      BY <1>3, <2>1 DEF First, Ending
    <3>3. PICK do : do = (IF call = "first" THEN "peek" ELSE "take")
      OBVIOUS
    <3>4. To(do, call) # <<>> /\ DOMAIN To(do, call) = {1} /\ To(do, call)[1].do = do
          /\ To(do, call) \in Seq({[do |-> do, at |-> call]})
      BY ToIs, Zenon
    <3>5. Shape(o)
      <4>1. CASE call = "first"
        <5>1. Plain(call, t)
          BY <3>2, <3>3, <3>4, <4>1 DEF Plain, Allowed
        <5>2. QED
          BY <1>8, <4>1, <5>1 DEF Shape, Taking, Adding
      <4>2. CASE call = "shift"
        BY <1>8, <3>2, <4>2 DEF Shape, Taking
      <4>3. QED
        BY <3>1, <4>1, <4>2
    <3>6. EndStands(o)
      BY <1>8, <2>1, <3>2 DEF EndStands
    <3>7. Stands(u, o, now)
      BY <1>8, <2>1, <3>6 DEF Stands, Ending, ReadCalls, Adding
    <3>8. QED
      BY <3>2, <3>3, <3>4, <3>5, <3>7
  <2>2. CASE call \in Ending /\ kind # "queue"
    <3>1. t = To("isEmpty", call)
      BY <1>3, <2>2 DEF First, Ending
    <3>2. t # <<>> /\ DOMAIN t = {1} /\ t[1].do = "isEmpty" /\ \E S : t \in Seq(S)
      <4>1. PICK do : do = "isEmpty"
        OBVIOUS
      <4>2. To(do, call) # <<>> /\ DOMAIN To(do, call) = {1} /\ To(do, call)[1].do = do
            /\ To(do, call) \in Seq({[do |-> do, at |-> call]})
        BY ToIs, Zenon
      <4>3. QED
        BY <3>1, <4>1, <4>2
    <3>3. Shape(o)
      <4>1. CASE call \in {"first", "last"}
        <5>1. Plain(call, t)
          BY <3>1, <3>2, <4>1 DEF Plain, Allowed
        <5>2. QED
          BY <1>8, <4>1, <5>1 DEF Shape, Taking, Adding
      <4>2. CASE call \in Taking
        BY <1>8, <3>1, <4>2 DEF Shape
      <4>3. QED
        BY <2>2, <4>1, <4>2 DEF Ending, Taking
    <3>4. EndStands(o)
      BY <1>8, <2>2, <3>1 DEF EndStands
    <3>5. Stands(u, o, now)
      BY <1>8, <2>2, <3>4 DEF Stands, Ending, ReadCalls, Adding
    <3>6. QED
      BY <3>1, <3>2, <3>3, <3>5
  <2>3. CASE call \in Adding
    <3>1. /\ Adds(t, given) /\ t # <<>>
          /\ IF call = "extend" /\ kind = "queue" THEN t = All("add", Rest(given, 0))
             ELSE t = To("add", IF call = "append" THEN <<given[1]>> ELSE given)
      BY <1>3, <2>3, AddsFirst
    <3>2. Shape(o)
      BY <1>8, <2>3, <3>1 DEF Shape, Adding, Taking
    <3>3. PICK all, m : all = (IF o.call = "append" THEN <<o.given[1]>> ELSE o.given) /\ m = 0
      OBVIOUS
    <3>4. m \in 0..Len(all)
      <4>1. Len(given) \in Nat /\ Len(<<given[1]>>) = 1
        BY <1>3, BringsAre
      <4>2. QED
        BY <1>8, <3>3, <4>1
    <3>5. now = now \o SubSeq(all, 1, m)
      BY <1>5, <3>3, SubSeqEmpty, ConcatEmptySeq
    <3>6. AddStands(o, now)
      <4>1. IF o.call = "extend" /\ kind = "queue" THEN o.todo = All("add", Rest(all, m))
            ELSE m = 0 /\ o.todo = To("add", all)
        BY <1>8, <3>1, <3>3
      <4>2. QED
        BY <1>8, <3>3, <3>4, <3>5, <4>1 DEF AddStands
    <3>7. Stands(u, o, now)
      BY <1>8, <2>3, <3>6 DEF Stands, Ending, ReadCalls, Adding
    <3>8. QED
      BY <3>1, <3>2, <3>7
  <2>4. CASE call \in {"pick", "setAll"}
    <3>1. PICK do, ats : do = (IF call = "pick" THEN "at" ELSE "put") /\ ats = <<at, 1>>
      OBVIOUS
    <3>2. t = All(do, ats)
      BY <1>3, <2>4, <3>1 DEF First
    <3>3. ats \in Seq(Int) /\ Len(ats) = 2
      BY <1>7, <3>1
    <3>4. Calls(All(do, ats), do, Int, ats)
      BY <3>3, AllIs, Zenon
    <3>5. t \in Seq([do : {do}, at : Int]) /\ DOMAIN t = 1..2 /\ (\A i \in 1..2 : t[i].do = do) /\ Len(t) = 2
      BY <3>2, <3>3, <3>4 DEF Calls
    <3>6. t # <<>>
      BY <3>5
    <3>7. Plain(call, t)
      BY <2>4, <3>1, <3>5 DEF Plain, Allowed
    <3>8. Shape(o)
      BY <1>8, <2>4, <3>7 DEF Shape, Taking, Adding
    <3>9. CASE call = "pick"
      <4>1. PICK n : n = Len(now)
        OBVIOUS
      <4>2. n \in Nat /\ DOMAIN now = 1..n
        BY <1>5, <4>1, LenProperties
      <4>3. ReadsOn(o, ats)
        BY <1>8, <3>1, <3>2, <3>3, <3>9, <4>1, <4>2, ReadsAll
      <4>4. ReadStands(o)
        BY <1>8, <3>1, <3>9, <4>3 DEF ReadStands
      <4>5. QED
        BY <1>8, <3>6, <3>8, <3>9, <4>4 DEF Stands, Ending, ReadCalls, Adding
    <3>10. CASE call = "setAll"
      <4>1. PutStands(u, o, now)
        BY <1>8, <3>1, <3>2, <3>10 DEF PutStands
      <4>2. QED
        BY <1>8, <3>6, <3>8, <3>10, <4>1 DEF Stands, Ending, ReadCalls, Adding
    <3>11. QED
      BY <2>4, <3>9, <3>10
  <2>5. CASE call \in {"at", "remove", "values", "reverse", "page", "clear"}
    <3>1. PICK do, where : /\ t = To(do, where)
                           /\ call = "at" => do = (IF kind = "ordered" THEN "locate" ELSE "at") /\ where = at
                           /\ call = "remove" => do = "includes" /\ where = at
                           /\ call \in {"values", "reverse", "page"} => do = "size" /\ where = at
                           /\ call = "clear" => do = "clear" /\ where = 0
      BY <1>3, <2>5 DEF First
    <3>2. To(do, where) # <<>> /\ DOMAIN To(do, where) = {1} /\ To(do, where)[1].do = do
          /\ To(do, where) \in Seq({[do |-> do, at |-> where]})
      BY ToIs, Zenon
    <3>3. do \in Allowed(call)
      BY <2>5, <3>1 DEF Allowed
    <3>4. Plain(call, t)
      BY <3>1, <3>2, <3>3 DEF Plain
    <3>5. Shape(o)
      BY <1>8, <2>5, <3>4 DEF Shape, Taking, Adding
    <3>6. CASE call = "at"
      <4>1. AtStands(o)
        BY <1>8, <3>1, <3>6 DEF AtStands
      <4>2. QED
        BY <1>8, <3>1, <3>2, <3>5, <3>6, <4>1 DEF Stands, Ending, ReadCalls, Adding
    <3>7. CASE call = "remove"
      BY <1>8, <3>1, <3>2, <3>5, <3>7 DEF Stands, Ending, ReadCalls, Adding
    <3>8. CASE call \in {"values", "reverse", "page"}
      <4>1. ReadStands(o)
        BY <1>8, <3>1, <3>8 DEF ReadStands
      <4>2. QED
        BY <1>8, <3>1, <3>2, <3>5, <3>8, <4>1 DEF Stands, Ending, ReadCalls, Adding
    <3>9. CASE call = "clear"
      BY <1>8, <3>1, <3>2, <3>5, <3>9 DEF Stands, Ending, ReadCalls, Adding
    <3>10. QED
      BY <2>5, <3>6, <3>7, <3>8, <3>9
  <2>6. QED
    BY <1>7, <2>1, <2>2, <2>3, <2>4, <2>5 DEF Ending, Adding, OrderedCalls, ArrayCalls
<1>11. WorkOK(u, o)
  BY <1>3, <1>8, <1>9, <1>10 DEF WorkOK
<1>12. WorkOK(u, o)'
  BY <1>5, <1>11, WorkRests
<1>13. ASSUME NEW w \in Users PROVE WorkOK(w, work[w])'
  <2>1. CASE w = u
    BY <1>6, <1>12, <2>1
  <2>2. CASE w # u
    <3>1. PICK b : b = work[w]
      OBVIOUS
    <3>2. WorkOK(w, b)
      BY <3>1 DEF OrderedInv
    <3>3. WorkOK(w, b)'
      BY <1>5, <3>2, WorkRests
    <3>4. QED
      BY <1>6, <2>2, <3>1, <3>3
  <2>3. QED
    BY <2>1, <2>2
<1>14. QED
  BY <1>3, <1>5, <1>6, <1>13 DEF OrderedInv

LEMMA OrderedStep == OrderedInv /\ [OrderedNext]_orderedVars => OrderedInv'
<1>1. SUFFICES ASSUME OrderedInv, [OrderedNext]_orderedVars PROVE OrderedInv'
  OBVIOUS
<1>2. CASE UNCHANGED orderedVars
  BY <1>1, <1>2, AllWorkRests DEF orderedVars
<1>3. ASSUME NEW u \in Users,
             \/ Use(u) \/ Size(u) \/ IsEmpty(u) \/ Locate(u) \/ ReadAt(u) \/ Peek(u) \/ Take(u)
             \/ IncludesElement(u) \/ RemoveElement(u) \/ Add(u) \/ PutAt(u) \/ Clear(u) \/ UseFails(u)
      PROVE  OrderedInv'
  BY <1>1, <1>3, UseKeeps, SizeKeeps, IsEmptyKeeps, LocateKeeps, ReadAtKeeps, PeekKeeps, TakeKeeps,
     IncludesElementKeeps, RemoveElementKeeps, AddKeeps, PutAtKeeps, ClearKeeps, UseFailsKeeps
<1>4. QED
  BY <1>1, <1>2, <1>3 DEF OrderedNext

(* An operation on a collection during which nobody else changed it and no *)
(* call failed answers, and leaves, what it would as one step.             *)
THEOREM OrderedOperationsAreAtomic == OrderedSpec => []OrderedAtomic
<1>1. OrderedInv => OrderedAtomic
  <2>1. SUFFICES ASSUME OrderedInv, NEW u \in Users, work[u].outcome \in {"done", "thrown"},
                        work[u].alone, ~work[u].hurt
                 PROVE  AsAtOnce(u, work[u])
    BY DEF OrderedAtomic, AsAtOnce
  <2>2. QED
    BY <2>1 DEF OrderedInv, WorkOK, InPeace
<1>2. QED
  BY <1>1, OrderedStart, OrderedStep, PTL DEF OrderedSpec

-----------------------------------------------------------------------------
(* Elements that are taken                                                 *)

StillToAdd(t)    == UNION {Range(t[i].at) : i \in DOMAIN t}
TookOf(o)     == IF o.call \in Taking /\ o.outcome = "done" THEN Range(o.answer) \ {Null} ELSE {}
ToAddOf(u, o) == IF o.outcome = "idle" THEN Range(Brings[u])
                 ELSE IF o.outcome = "running" /\ o.call \in Adding THEN StillToAdd(o.todo) ELSE {}

(* What has been taken, what is there and what is still to be added are    *)
(* all different; an array, whose elements can be replaced, cannot be      *)
(* taken from.                                                             *)
NoneTwice ==
  kind # "array" =>
    /\ IsInjective(elements)
    /\ \A u \in Users : (TookOf(work[u]) \cup ToAddOf(u, work[u])) \cap Range(elements) = {}
    /\ \A u, w \in Users : u # w => TookOf(work[u]) \cap (TookOf(work[w]) \cup ToAddOf(w, work[w])) = {}

LEMMA PendingOfGiven ==
  ASSUME NEW t, NEW given, Adds(t, given) PROVE StillToAdd(t) \subseteq Range(given)
<1>1. PICK T : T = [do : {"add"}, at : Seq(Range(given))]
  OBVIOUS
<1>2. t \in Seq(T)
  BY <1>1 DEF Adds
<1>3. ASSUME NEW i \in DOMAIN t PROVE Range(t[i].at) \subseteq Range(given)
  <2>1. t[i] \in T
    BY <1>2, LenProperties
  <2>2. t[i].at \in Seq(Range(given))
    BY <1>1, <2>1
  <2>3. QED
    BY <2>2, RangeOfSeq
<1>4. QED
  BY <1>3 DEF StillToAdd

LEMMA ToAddIsBrought ==
  ASSUME OrderedInv, NEW u \in Users PROVE ToAddOf(u, work[u]) \subseteq Range(Brings[u])
<1>1. PICK b : b = work[u]
  OBVIOUS
<1>2. CASE b.outcome = "running" /\ b.call \in Adding
  <2>1. TypedWork(u, b) /\ Shape(b)
    BY <1>1, <1>2, WorkRuns
  <2>2. Adds(b.todo, b.given) /\ b.given = Brings[u]
    BY <1>2, <2>1 DEF Shape, Adding, Taking, TypedWork
  <2>3. StillToAdd(b.todo) \subseteq Range(Brings[u])
    BY <2>2, PendingOfGiven
  <2>4. QED
    BY <1>1, <1>2, <2>3 DEF ToAddOf
<1>3. CASE ~(b.outcome = "running" /\ b.call \in Adding)
  BY <1>1, <1>3 DEF ToAddOf
<1>4. QED
  BY <1>2, <1>3

LEMMA OthersKeepTheirs ==
  ASSUME OrderedInv, NEW u \in Users, NEW o, Continue(u, o), NEW w \in Users, w # u
  PROVE  TookOf(work'[w]) = TookOf(work[w]) /\ ToAddOf(w, work'[w]) = ToAddOf(w, work[w])
<1>1. PICK b : b = work[w]
  OBVIOUS
<1>2. CASE work'[w] = b
  BY <1>1, <1>2
<1>3. CASE work'[w] # b
  <2>1. PICK n : n = [b EXCEPT !.alone = FALSE]
    OBVIOUS
  <2>2. work'[w] = n /\ b.outcome = "running"
    BY <1>1, <1>3, <2>1 DEF Continue
  <2>3. TypedWork(w, b)
    BY <1>1, <2>2, WorkRuns
  <2>4. n.call = b.call /\ n.outcome = b.outcome /\ n.todo = b.todo /\ n.answer = b.answer
    BY <2>1, <2>3 DEF TypedWork, WorkStates
  <2>5. QED
    BY <1>1, <2>2, <2>4 DEF TookOf, ToAddOf
<1>4. QED
  BY <1>2, <1>3

LEMMA OwnGoes ==
  ASSUME NEW u \in Users, NEW o, TypedWork(u, o), o.outcome \in {"running", "thrown"}, Continue(u, o)
  PROVE  /\ TookOf(work'[u]) \subseteq
              IF o.call \in Taking /\ o.outcome = "running" /\ o.todo = <<>> THEN Range(o.answer) \ {Null} ELSE {}
         /\ ToAddOf(u, work'[u]) \subseteq
              IF o.outcome = "running" /\ o.call \in Adding THEN StillToAdd(o.todo) ELSE {}
<1>1. o \in WorkStates(o.todo, o.answer, o.left)
  BY DEF TypedWork
<1>2. CASE o.outcome = "running" /\ o.todo # <<>>
  <2>1. work'[u] = o
    BY <1>2 DEF Continue
  <2>2. QED
    BY <1>2, <2>1 DEF TookOf, ToAddOf
<1>3. CASE ~(o.outcome = "running" /\ o.todo # <<>>)
  <2>1. PICK end, now : end = (IF o.outcome = "running" THEN "done" ELSE o.outcome) /\ now = elements'
    OBVIOUS
  <2>2. PICK n : n = [o EXCEPT !.outcome = end, !.todo = <<>>, !.left = now]
    OBVIOUS
  <2>3. work'[u] = n
    BY <1>3, <2>1, <2>2 DEF Continue
  <2>4. end \in {"done", "thrown"} /\ (end = "done" <=> o.outcome = "running")
    BY <2>1
  <2>5. n.call = o.call /\ n.outcome = end /\ n.answer = o.answer
    BY <1>1, <2>2, <2>4 DEF WorkStates
  <2>6. TookOf(n) \subseteq
          IF o.call \in Taking /\ o.outcome = "running" /\ o.todo = <<>> THEN Range(o.answer) \ {Null} ELSE {}
    BY <1>3, <2>4, <2>5 DEF TookOf
  <2>7. ToAddOf(u, n) = {}
    BY <2>4, <2>5 DEF ToAddOf
  <2>8. QED
    BY <2>3, <2>6, <2>7
<1>4. QED
  BY <1>2, <1>3

(* The call of one flow: it may take X, or add Y of what it brings.        *)
LEMMA NoneTwiceMoves ==
  ASSUME OrderedInv, NoneTwice, NEW u \in Users, work[u].outcome = "running", NEW o, TypedWork(u, o),
         o.outcome \in {"running", "thrown"}, Continue(u, o), kind' = kind,
         NEW X, NEW Y,
         kind # "array" =>
           /\ X \subseteq Range(elements) /\ X \cap Range(elements') = {} /\ IsInjective(elements')
           /\ Y \subseteq ToAddOf(u, work[u]) /\ Range(elements') \subseteq Range(elements) \cup Y,
         o.call \in Taking /\ o.outcome = "running" /\ o.todo = <<>> => Range(o.answer) \subseteq X \cup {Null},
         o.call \in Adding /\ o.outcome = "running" => StillToAdd(o.todo) \subseteq ToAddOf(u, work[u]) \ Y
  PROVE  NoneTwice'
<1>1. SUFFICES ASSUME kind # "array" PROVE NoneTwice'
  BY DEF NoneTwice
<1>2. /\ TookOf(work'[u]) \subseteq X /\ ToAddOf(u, work'[u]) \subseteq ToAddOf(u, work[u]) \ Y
  BY OwnGoes
<1>3. \A w \in Users : w # u => /\ TookOf(work'[w]) = TookOf(work[w])
                                /\ ToAddOf(w, work'[w]) = ToAddOf(w, work[w])
  BY OthersKeepTheirs
<1>4. \A w \in Users : ToAddOf(w, work[w]) \subseteq Range(Brings[w])
  BY ToAddIsBrought
<1>5. \A w \in Users : w # u => Range(Brings[u]) \cap Range(Brings[w]) = {}
  BY OrderedAssumption
<1>6. \A w \in Users : w # u => ToAddOf(u, work[u]) \cap ToAddOf(w, work[w]) = {}
  BY <1>4, <1>5
<1>7. /\ \A w \in Users : (TookOf(work[w]) \cup ToAddOf(w, work[w])) \cap Range(elements) = {}
      /\ \A v, w \in Users : v # w => TookOf(work[v]) \cap (TookOf(work[w]) \cup ToAddOf(w, work[w])) = {}
  BY <1>1 DEF NoneTwice
<1>8. /\ X \subseteq Range(elements) /\ X \cap Range(elements') = {} /\ IsInjective(elements')
      /\ Y \subseteq ToAddOf(u, work[u]) /\ Range(elements') \subseteq Range(elements) \cup Y
  BY <1>1
<1>9. ASSUME NEW w \in Users PROVE (TookOf(work'[w]) \cup ToAddOf(w, work'[w])) \cap Range(elements') = {}
  <2>1. CASE w = u
    BY <1>2, <1>7, <1>8, <2>1
  <2>2. CASE w # u
    <3>1. TookOf(work[w]) \cap Y = {}
      BY <1>7, <1>8, <2>2
    <3>2. ToAddOf(w, work[w]) \cap Y = {}
      BY <1>6, <1>8, <2>2
    <3>3. QED
      BY <1>3, <1>7, <1>8, <2>2, <3>1, <3>2
  <2>3. QED
    BY <2>1, <2>2
<1>10. ASSUME NEW v \in Users, NEW w \in Users, v # w
       PROVE  TookOf(work'[v]) \cap (TookOf(work'[w]) \cup ToAddOf(w, work'[w])) = {}
  <2>1. CASE v = u
    <3>1. (TookOf(work[w]) \cup ToAddOf(w, work[w])) \cap X = {}
      BY <1>7, <1>8
    <3>2. QED
      BY <1>2, <1>3, <1>10, <2>1, <3>1
  <2>2. CASE w = u
    <3>1. TookOf(work[v]) \cap X = {}
      BY <1>7, <1>8
    <3>2. TookOf(work[v]) \cap ToAddOf(u, work[u]) = {}
      BY <1>7, <1>10, <2>2
    <3>3. QED
      BY <1>2, <1>3, <1>10, <2>2, <3>1, <3>2
  <2>3. CASE v # u /\ w # u
    BY <1>3, <1>7, <1>10, <2>3
  <2>4. QED
    BY <2>1, <2>2, <2>3
<1>11. QED
  BY <1>8, <1>9, <1>10 DEF NoneTwice

(* No element more, and none taken.                                        *)
OnlyFewer == kind # "array" => IsInjective(elements') /\ Range(elements') \subseteq Range(elements)

LEMMA OnceOn ==
  ASSUME OrderedInv, NoneTwice, NEW u \in Users, work[u].outcome = "running", NEW o, TypedWork(u, o),
         Continue(u, o), kind' = kind, OnlyFewer,
         o.outcome = "thrown" \/
           (o.outcome = "running" /\ o.call \notin Adding /\ (o.call \in Taking => Range(o.answer) \subseteq {Null}))
  PROVE  NoneTwice'
<1>1. PICK X, Y : X = {} /\ Y = {}
  OBVIOUS
<1>2. kind # "array" =>
           /\ X \subseteq Range(elements) /\ X \cap Range(elements') = {} /\ IsInjective(elements')
           /\ Y \subseteq ToAddOf(u, work[u]) /\ Range(elements') \subseteq Range(elements) \cup Y
  BY <1>1 DEF OnlyFewer
<1>3. o.call \in Taking /\ o.outcome = "running" /\ o.todo = <<>> => Range(o.answer) \subseteq X \cup {Null}
  BY <1>1
<1>4. ~(o.call \in Adding /\ o.outcome = "running")
  OBVIOUS
<1>5. o.outcome \in {"running", "thrown"}
  OBVIOUS
<1>6. QED
  BY <1>2, <1>3, <1>4, <1>5, NoneTwiceMoves

LEMMA SameIsFewer == NoneTwice /\ elements' = elements => OnlyFewer
  BY DEF NoneTwice, OnlyFewer

LEMMA OnceFails ==
  ASSUME OrderedInv, NoneTwice, NEW u \in Users, work[u].outcome = "running", NEW o,
         o = Errs(work[u]) \/ o = [Errs(work[u]) EXCEPT !.hurt = TRUE],
         Continue(u, o), kind' = kind, elements' = elements
  PROVE  NoneTwice'
<1>1. PICK b : b = work[u]
  OBVIOUS
<1>2. TypedWork(u, b)
  BY <1>1, WorkRuns
<1>3. PICK now : now = b.began
  OBVIOUS
<1>4. b \in WorkStates(b.todo, b.answer, b.left)
  BY <1>2 DEF TypedWork
<1>5. PICK n : n = [b EXCEPT !.outcome = "thrown"]
  OBVIOUS
<1>6. /\ n \in WorkStates(b.todo, b.answer, b.left) /\ n.call = b.call /\ n.outcome = "thrown" /\ n.at = b.at
      /\ n.given = b.given /\ n.todo = b.todo /\ n.answer = b.answer /\ n.left = b.left
  BY <1>4, <1>5 DEF WorkStates
<1>7. CASE o = Errs(work[u])
  <2>1. o = n
    BY <1>1, <1>5, <1>7 DEF Errs
  <2>2. TypedWork(u, o) /\ o.outcome = "thrown"
    BY <1>2, <1>6, <2>1 DEF TypedWork
  <2>3. QED
    BY <2>2, OnceOn, SameIsFewer
<1>8. CASE o = [Errs(work[u]) EXCEPT !.hurt = TRUE]
  <2>1. o = [n EXCEPT !.hurt = TRUE]
    BY <1>1, <1>5, <1>8 DEF Errs
  <2>2. /\ o \in WorkStates(b.todo, b.answer, b.left) /\ o.call = b.call /\ o.outcome = "thrown" /\ o.at = b.at
        /\ o.given = b.given /\ o.todo = b.todo /\ o.answer = b.answer /\ o.left = b.left
    BY <1>6, <2>1 DEF WorkStates
  <2>3. TypedWork(u, o)
    BY <1>2, <2>2 DEF TypedWork
  <2>4. QED
    BY <2>2, <2>3, OnceOn, SameIsFewer
<1>9. QED
  BY <1>7, <1>8

LEMMA OnceThen ==
  ASSUME OrderedInv, NoneTwice, NEW u \in Users, work[u].outcome = "running", Head(work[u].todo).do # "add",
         NEW steps, Continue(u, Then(work[u], steps)), kind' = kind, OnlyFewer
  PROVE  NoneTwice'
<1>1. PICK b, do : b = work[u] /\ do = Head(b.todo).do
  OBVIOUS
<1>2. TypedWork(u, b) /\ b.outcome = "running"
  BY <1>1, WorkRuns
<1>3. PICK t, a : t = steps \o Tail(b.todo) /\ a = b.answer
  OBVIOUS
<1>4. PICK o : o = OnWith(b, t, a)
  OBVIOUS
<1>5. Continue(u, o)
  BY <1>1, <1>2, <1>3, <1>4, ThenIs
<1>6. /\ TypedWork(u, o) /\ o.answer = a /\ o.call = b.call /\ o.outcome = b.outcome
  BY <1>2, <1>4, OnWithIs
<1>7. b.call \notin Adding /\ (b.call \in Taking => b.answer = <<>>)
  BY <1>1, DoneFor
<1>8. Range(<<>>) = {}
  BY DEF Range
<1>9. o.outcome = "running" /\ o.call \notin Adding /\ (o.call \in Taking => Range(o.answer) \subseteq {Null})
  BY <1>2, <1>3, <1>6, <1>7, <1>8
<1>10. QED
  BY <1>5, <1>6, <1>9, OnceOn

LEMMA OnceGives ==
  ASSUME OrderedInv, NoneTwice, NEW u \in Users, work[u].outcome = "running", Head(work[u].todo).do # "add",
         NEW val, Continue(u, Gives(work[u], val)), kind' = kind, OnlyFewer,
         work[u].call \notin Taking \/ val = Null
  PROVE  NoneTwice'
<1>1. PICK b, do : b = work[u] /\ do = Head(b.todo).do
  OBVIOUS
<1>2. TypedWork(u, b) /\ b.outcome = "running"
  BY <1>1, WorkRuns
<1>3. PICK t, a : t = Tail(b.todo) /\ a = Append(b.answer, val)
  OBVIOUS
<1>4. PICK o : o = OnWith(b, t, a)
  OBVIOUS
<1>5. Continue(u, o)
  <2>1. Gives(b, val) = o
    BY <1>2, <1>3, <1>4, GivesIs
  <2>2. QED
    BY <1>1, <2>1
<1>6. /\ TypedWork(u, o) /\ o.answer = a /\ o.call = b.call /\ o.outcome = b.outcome
  BY <1>2, <1>4, OnWithIs
<1>7. b.call \notin Adding /\ (b.call \in Taking => b.answer = <<>>)
  BY <1>1, DoneFor
<1>8. Append(<<>>, Null) = <<Null>> /\ Range(<<Null>>) = {Null}
  BY DEF Range
<1>9. o.outcome = "running" /\ o.call \notin Adding /\ (o.call \in Taking => Range(o.answer) \subseteq {Null})
  BY <1>1, <1>2, <1>3, <1>6, <1>7, <1>8
<1>10. QED
  BY <1>5, <1>6, <1>9, OnceOn

(* The calls that read.                                                    *)
LEMMA ReadsTakeNothing ==
  ASSUME OrderedInv, NoneTwice, NEW u \in Users,
         \/ Size(u) \/ IsEmpty(u) \/ Locate(u) \/ ReadAt(u) \/ Peek(u) \/ IncludesElement(u) \/ UseFails(u)
  PROVE  NoneTwice'
<1>1. work[u].outcome = "running" /\ kind' = kind /\ elements' = elements /\ OnlyFewer
  <2>1. work[u].outcome = "running" /\ kind' = kind /\ elements' = elements
    BY DEF Size, IsEmpty, Locate, ReadAt, Peek, IncludesElement, UseFails, At
  <2>2. QED
    BY <2>1, SameIsFewer
<1>2. PICK b, do : b = work[u] /\ do = Head(b.todo).do
  OBVIOUS
<1>3. do \notin {"isEmpty", "take"} => b.call \notin Taking
  BY <1>1, <1>2, DoneFor
<1>4. CASE Size(u)
  <2>1. \/ Continue(u, Errs(work[u]))
        \/ \E steps : Continue(u, Then(work[u], steps))
    BY <1>4 DEF Size, Errs
  <2>2. Head(work[u].todo).do # "add"
    BY <1>4 DEF Size, At
  <2>3. ASSUME Continue(u, Errs(work[u])) PROVE NoneTwice'
    BY <1>1, <2>3, OnceFails
  <2>4. ASSUME NEW steps, Continue(u, Then(work[u], steps)) PROVE NoneTwice'
    BY <1>1, <2>2, <2>4, OnceThen
  <2>5. QED
    BY <2>1, <2>3, <2>4
<1>5. CASE IsEmpty(u)
  <2>1. Head(work[u].todo).do # "add"
    BY <1>5 DEF IsEmpty, At
  <2>2. \/ Continue(u, Gives(work[u], Null))
        \/ \E steps : Continue(u, Then(work[u], steps))
    BY <1>5 DEF IsEmpty
  <2>3. ASSUME Continue(u, Gives(work[u], Null)) PROVE NoneTwice'
    BY <1>1, <2>1, <2>3, OnceGives
  <2>4. ASSUME NEW steps, Continue(u, Then(work[u], steps)) PROVE NoneTwice'
    BY <1>1, <2>1, <2>4, OnceThen
  <2>5. QED
    BY <2>2, <2>3, <2>4
<1>6. CASE Locate(u)
  <2>1. do = "locate"
    BY <1>2, <1>6 DEF Locate, At
  <2>2. \/ Continue(u, Gives(work[u], Null))
        \/ \E steps : Continue(u, Then(work[u], steps))
    BY <1>6 DEF Locate
  <2>3. ASSUME Continue(u, Gives(work[u], Null)) PROVE NoneTwice'
    BY <1>1, <1>2, <2>1, <2>3, OnceGives
  <2>4. ASSUME NEW steps, Continue(u, Then(work[u], steps)) PROVE NoneTwice'
    BY <1>1, <1>2, <2>1, <2>4, OnceThen
  <2>5. QED
    BY <2>2, <2>3, <2>4
<1>7. CASE ReadAt(u)
  <2>1. do = "at"
    BY <1>2, <1>7 DEF ReadAt, At
  <2>2. \/ Continue(u, Errs(work[u]))
        \/ \E val : Continue(u, Gives(work[u], val))
    BY <1>7 DEF ReadAt
  <2>3. ASSUME Continue(u, Errs(work[u])) PROVE NoneTwice'
    BY <1>1, <2>3, OnceFails
  <2>4. ASSUME NEW val, Continue(u, Gives(work[u], val)) PROVE NoneTwice'
    BY <1>1, <1>2, <1>3, <2>1, <2>4, OnceGives
  <2>5. QED
    BY <2>2, <2>3, <2>4
<1>8. CASE Peek(u)
  <2>1. do = "peek"
    BY <1>2, <1>8 DEF Peek, At
  <2>2. \/ Continue(u, Errs(work[u]))
        \/ \E val : Continue(u, Gives(work[u], val))
    BY <1>8 DEF Peek, NoEnd
  <2>3. ASSUME Continue(u, Errs(work[u])) PROVE NoneTwice'
    BY <1>1, <2>3, OnceFails
  <2>4. ASSUME NEW val, Continue(u, Gives(work[u], val)) PROVE NoneTwice'
    BY <1>1, <1>2, <1>3, <2>1, <2>4, OnceGives
  <2>5. QED
    BY <2>2, <2>3, <2>4
<1>9. CASE IncludesElement(u)
  <2>1. do = "includes"
    BY <1>2, <1>9 DEF IncludesElement, At
  <2>2. \/ Continue(u, Gives(work[u], FALSE))
        \/ \E steps : Continue(u, Then(work[u], steps))
    BY <1>9 DEF IncludesElement
  <2>3. ASSUME Continue(u, Gives(work[u], FALSE)) PROVE NoneTwice'
    BY <1>1, <1>2, <1>3, <2>1, <2>3, OnceGives
  <2>4. ASSUME NEW steps, Continue(u, Then(work[u], steps)) PROVE NoneTwice'
    BY <1>1, <1>2, <2>1, <2>4, OnceThen
  <2>5. QED
    BY <2>2, <2>3, <2>4
<1>10. CASE UseFails(u)
  <2>1. Continue(u, [Errs(work[u]) EXCEPT !.hurt = TRUE])
    BY <1>10 DEF UseFails
  <2>2. QED
    BY <1>1, <2>1, OnceFails
<1>11. QED
  BY <1>4, <1>5, <1>6, <1>7, <1>8, <1>9, <1>10

LEMMA RemovedFrom ==
  ASSUME NEW S, NEW s \in Seq(S), NEW i \in 1..Len(s), IsInjective(s)
  PROVE  /\ IsInjective(RemoveAt(s, i)) /\ Range(RemoveAt(s, i)) \subseteq Range(s) \ {s[i]}
         /\ s[i] \in Range(s)
<1>1. PICK n, r : n = Len(s) /\ r = RemoveAt(s, i)
  OBVIOUS
<1>2. r \in Seq(S) /\ Len(r) = n - 1 /\ \A j \in 1..(n - 1) : r[j] = IF j < i THEN s[j] ELSE s[j + 1]
  BY <1>1, RemoveAtIs
<1>3. n \in Nat /\ DOMAIN s = 1..n /\ DOMAIN r = 1..(n - 1) /\ i \in 1..n
  BY <1>1, <1>2, LenProperties
<1>4. ASSUME NEW j \in 1..(n - 1)
      PROVE  \E k \in 1..n : r[j] = s[k] /\ k # i /\ k = IF j < i THEN j ELSE j + 1
  <2>1. CASE j < i
    BY <1>2, <1>3, <2>1
  <2>2. CASE ~(j < i)
    <3>1. j + 1 \in 1..n /\ j + 1 # i
      BY <1>3, <2>2
    <3>2. r[j] = s[j + 1]
      BY <1>2, <2>2
    <3>3. QED
      BY <2>2, <3>1, <3>2
  <2>3. QED
    BY <2>1, <2>2
<1>5. IsInjective(r)
  <2>1. SUFFICES ASSUME NEW j \in 1..(n - 1), NEW k \in 1..(n - 1), r[j] = r[k] PROVE j = k
    BY <1>3 DEF IsInjective
  <2>2. PICK p \in 1..n : r[j] = s[p] /\ p = IF j < i THEN j ELSE j + 1
    BY <1>4
  <2>3. PICK q \in 1..n : r[k] = s[q] /\ q = IF k < i THEN k ELSE k + 1
    BY <1>4
  <2>4. p = q
    BY <1>3, <2>1, <2>2, <2>3 DEF IsInjective
  <2>5. QED
    BY <1>3, <2>2, <2>3, <2>4
<1>6. ASSUME NEW j \in 1..(n - 1) PROVE r[j] \in Range(s) \ {s[i]}
  <2>1. PICK k \in 1..n : r[j] = s[k] /\ k # i
    BY <1>4
  <2>2. s[k] # s[i]
    BY <1>3, <2>1 DEF IsInjective
  <2>3. QED
    BY <1>3, <2>1, <2>2 DEF Range
<1>7. Range(r) \subseteq Range(s) \ {s[i]}
  BY <1>3, <1>6 DEF Range
<1>8. QED
  BY <1>1, <1>3, <1>5, <1>7 DEF Range

LEMMA TakesOnce == ASSUME OrderedInv, NoneTwice, NEW u \in Users, Take(u) PROVE NoneTwice'
<1>1. PICK b, now, end : b = work[u] /\ now = elements /\ end = EndIndex(b.call)
  OBVIOUS
<1>2. /\ work[u].outcome = "running" /\ Head(b.todo).do = "take" /\ kind' = kind
      /\ elements' = IF now = <<>> THEN now ELSE RemoveAt(now, end)
  BY <1>1 DEF Take, At
<1>3. /\ TypedWork(u, b) /\ now \in Seq(Stuff) /\ b.outcome = "running"
  BY <1>1, <1>2, WorkRuns
<1>4. b.call \in Taking /\ b.answer = <<>> /\ b.call \notin Adding
  <2>1. "take" \notin Allowed(b.call)
    BY DEF Allowed
  <2>2. QED
    BY <1>1, <1>2, <2>1, DoneFor
<1>5. CASE now = <<>>
  <2>1. OnlyFewer
    BY <1>1, <1>2, <1>5, SameIsFewer
  <2>2. Continue(u, Gives(work[u], Null)) \/ Continue(u, Errs(work[u]))
    BY <1>1, <1>5 DEF Take, NoEnd
  <2>3. ASSUME Continue(u, Gives(work[u], Null)) PROVE NoneTwice'
    BY <1>1, <1>2, <2>1, <2>3, OnceGives
  <2>4. ASSUME Continue(u, Errs(work[u])) PROVE NoneTwice'
    BY <1>1, <1>2, <1>5, <2>4, OnceFails
  <2>5. QED
    BY <2>2, <2>3, <2>4
<1>6. CASE now # <<>>
  <2>1. PICK val, t, a : val = now[end] /\ t = Tail(b.todo) /\ a = Append(b.answer, val)
    OBVIOUS
  <2>2. PICK o : o = OnWith(b, t, a)
    OBVIOUS
  <2>3. Gives(b, val) = o
    BY <1>3, <2>1, <2>2, GivesIs
  <2>4. Continue(u, o)
    BY <1>1, <1>6, <2>1, <2>3 DEF Take
  <2>5. /\ TypedWork(u, o) /\ o.answer = a /\ o.call = b.call /\ o.outcome = b.outcome
    BY <1>3, <2>2, OnWithIs
  <2>6. PICK X, Y : X = {val} /\ Y = {}
    OBVIOUS
  <2>7. end \in 1..Len(now)
    <3>1. Len(now) \in Nat /\ Len(now) # 0
      BY <1>3, <1>6, LenProperties, EmptySeq
    <3>2. end \in {1, Len(now)}
      BY <1>1 DEF EndIndex
    <3>3. QED
      BY <3>1, <3>2
  <2>8. kind # "array" =>
           /\ X \subseteq Range(elements) /\ X \cap Range(elements') = {} /\ IsInjective(elements')
           /\ Y \subseteq ToAddOf(u, work[u]) /\ Range(elements') \subseteq Range(elements) \cup Y
    <3>1. SUFFICES ASSUME kind # "array"
                   PROVE  /\ X \subseteq Range(elements) /\ X \cap Range(elements') = {} /\ IsInjective(elements')
                          /\ Y \subseteq ToAddOf(u, work[u]) /\ Range(elements') \subseteq Range(elements) \cup Y
      OBVIOUS
    <3>2. IsInjective(now)
      BY <1>1, <3>1 DEF NoneTwice
    <3>3. /\ IsInjective(RemoveAt(now, end)) /\ Range(RemoveAt(now, end)) \subseteq Range(now) \ {now[end]}
          /\ now[end] \in Range(now)
      BY <1>3, <2>7, <3>2, RemovedFrom
    <3>4. QED
      BY <1>1, <1>2, <1>6, <2>1, <2>6, <3>3
  <2>9. Range(o.answer) \subseteq X \cup {Null}
    <3>1. Append(<<>>, val) = <<val>> /\ Range(<<val>>) = {val}
      BY DEF Range
    <3>2. QED
      BY <1>4, <2>1, <2>5, <2>6, <3>1
  <2>10. QED
    BY <1>2, <1>3, <1>4, <2>4, <2>5, <2>8, <2>9, NoneTwiceMoves
<1>7. QED
  BY <1>5, <1>6

LEMMA RemovesOnce == ASSUME OrderedInv, NoneTwice, NEW u \in Users, RemoveElement(u) PROVE NoneTwice'
<1>1. PICK b, now, first : b = work[u] /\ now = elements /\ first = Asked(u)
  OBVIOUS
<1>2. /\ work[u].outcome = "running" /\ Head(b.todo).do = "remove" /\ kind' = kind
      /\ \/ \E i \in DOMAIN now : elements' = RemoveAt(now, i) /\ Continue(u, Gives(work[u], TRUE))
         \/ elements' = now /\ Continue(u, Errs(work[u]))
  BY <1>1 DEF RemoveElement, At
<1>3. now \in Seq(Stuff)
  BY <1>1, <1>2, WorkRuns
<1>4. b.call \notin Taking
  BY <1>1, <1>2, DoneFor
<1>5. ASSUME elements' = now, Continue(u, Errs(work[u])) PROVE NoneTwice'
  BY <1>1, <1>2, <1>5, OnceFails
<1>6. ASSUME NEW i \in DOMAIN now, elements' = RemoveAt(now, i), Continue(u, Gives(work[u], TRUE)) PROVE NoneTwice'
  <2>1. i \in 1..Len(now)
    BY <1>3, LenProperties
  <2>2. OnlyFewer
    <3>1. SUFFICES ASSUME kind # "array" PROVE IsInjective(elements') /\ Range(elements') \subseteq Range(elements)
      BY DEF OnlyFewer
    <3>2. IsInjective(now)
      BY <1>1, <3>1 DEF NoneTwice
    <3>3. IsInjective(RemoveAt(now, i)) /\ Range(RemoveAt(now, i)) \subseteq Range(now)
      BY <1>3, <2>1, <3>2, RemovedFrom
    <3>4. QED
      BY <1>1, <1>6, <3>3
  <2>3. QED
    BY <1>1, <1>2, <1>4, <1>6, <2>2, OnceGives
<1>7. QED
  BY <1>2, <1>5, <1>6

LEMMA AddedOnce ==
  ASSUME NEW S, NEW s \in Seq(S), NEW t \in Seq(S), IsInjective(s), IsInjective(t), Range(s) \cap Range(t) = {}
  PROVE  IsInjective(s \o t) /\ Range(s \o t) = Range(s) \cup Range(t)
<1>1. PICK n, m, c : n = Len(s) /\ m = Len(t) /\ c = s \o t
  OBVIOUS
<1>2. /\ n \in Nat /\ m \in Nat /\ DOMAIN s = 1..n /\ DOMAIN t = 1..m /\ DOMAIN c = 1..(n + m)
      /\ \A i \in 1..(n + m) : c[i] = IF i <= n THEN s[i] ELSE t[i - n]
  BY <1>1, LenProperties, ConcatProperties
<1>3. ASSUME NEW i \in 1..(n + m)
      PROVE  IF i <= n THEN c[i] = s[i] /\ i \in 1..n /\ c[i] \in Range(s)
             ELSE c[i] = t[i - n] /\ i - n \in 1..m /\ c[i] \in Range(t)
  BY <1>2 DEF Range
<1>4. ASSUME NEW i \in 1..(n + m), NEW j \in 1..(n + m), c[i] = c[j] PROVE i = j
  <2>1. CASE i <= n /\ j <= n
    <3>1. c[i] = s[i] /\ i \in 1..n /\ c[j] = s[j] /\ j \in 1..n
      BY <1>3, <2>1
    <3>2. QED
      BY <1>2, <1>4, <3>1 DEF IsInjective
  <2>2. CASE ~(i <= n) /\ ~(j <= n)
    <3>1. c[i] = t[i - n] /\ i - n \in 1..m /\ c[j] = t[j - n] /\ j - n \in 1..m
      BY <1>3, <2>2
    <3>2. i - n = j - n
      BY <1>2, <1>4, <3>1 DEF IsInjective
    <3>3. QED
      BY <1>2, <3>2
  <2>3. CASE i <= n /\ ~(j <= n)
    <3>1. c[i] \in Range(s) /\ c[j] \in Range(t)
      BY <1>3, <2>3
    <3>2. QED
      BY <1>4, <3>1
  <2>4. CASE ~(i <= n) /\ j <= n
    <3>1. c[i] \in Range(t) /\ c[j] \in Range(s)
      BY <1>3, <2>4
    <3>2. QED
      BY <1>4, <3>1
  <2>5. QED
    BY <2>1, <2>2, <2>3, <2>4
<1>5. IsInjective(c)
  BY <1>2, <1>4 DEF IsInjective
<1>6. QED
  BY <1>1, <1>5, RangeConcatenation

LEMMA AddsOnce == ASSUME OrderedInv, NoneTwice, NEW u \in Users, Add(u) PROVE NoneTwice'
<1>1. PICK b, now, some, given : b = work[u] /\ now = elements /\ some = Head(b.todo).at /\ given = b.given
  OBVIOUS
<1>2. /\ work[u].outcome = "running" /\ Head(b.todo).do = "add" /\ kind' = kind /\ elements' = now \o some
      /\ Continue(u, Then(work[u], <<>>))
  BY <1>1 DEF Add, At
<1>3. /\ TypedWork(u, b) /\ now \in Seq(Stuff) /\ b.todo # <<>> /\ given = Brings[u] /\ Shape(b) /\ b.outcome = "running"
  BY <1>1, <1>2, WorkRuns DEF TypedWork
<1>4. b.call \in Adding /\ b.call \notin Taking
  <2>1. "add" \notin Allowed(b.call)
    BY DEF Allowed
  <2>2. b.call \notin Taking
    BY <1>1, <1>2, DoneFor
  <2>3. QED
    BY <1>1, <1>2, <2>1, <2>2, DoneFor
<1>5. PICK t, a, T : t = Tail(b.todo) /\ a = b.answer /\ T = [do : {"add"}, at : Seq(Range(given))]
  OBVIOUS
<1>6. Adds(b.todo, given) /\ Adds(t, given) /\ some \in Seq(Range(given))
  BY <1>1, <1>3, <1>4, <1>5, AddsRest DEF Shape
<1>7. PICK o : o = OnWith(b, t, a)
  OBVIOUS
<1>8. Continue(u, o)
  <2>1. PICK S : t \in Seq(S)
    BY <1>6 DEF Adds
  <2>2. <<>> \o t = t
    BY <2>1, ConcatEmptySeq
  <2>3. Then(b, <<>>) = OnWith(b, <<>> \o t, a)
    BY <1>3, <1>5, ThenIs
  <2>4. QED
    BY <1>1, <1>2, <1>7, <2>2, <2>3
<1>9. /\ TypedWork(u, o) /\ o.todo = t /\ o.call = b.call /\ o.outcome = b.outcome
  BY <1>3, <1>7, OnWithIs
<1>10. /\ StillToAdd(t) \subseteq StillToAdd(b.todo) \ Range(some) /\ Range(some) \subseteq StillToAdd(b.todo)
       /\ IsInjective(some)
  <2>1. PICK n : n = Len(b.todo)
    OBVIOUS
  <2>2. b.todo \in Seq(T) /\ n \in Nat /\ n # 0 /\ DOMAIN b.todo = 1..n /\ Head(b.todo) = b.todo[1]
    BY <1>3, <1>5, <1>6, <2>1, LenProperties, HeadTailProperties, EmptySeq DEF Adds
  <2>3. DOMAIN t = 1..(n - 1) /\ \A i \in 1..(n - 1) : t[i] = b.todo[i + 1]
    BY <1>3, <1>5, <2>1, <2>2, HeadTailProperties, LenProperties
  <2>4. 1 \in DOMAIN b.todo /\ some = b.todo[1].at
    BY <1>1, <2>2
  <2>5. ASSUME NEW i \in DOMAIN t
        PROVE  /\ i + 1 \in DOMAIN b.todo /\ t[i] = b.todo[i + 1]
               /\ Range(b.todo[i + 1].at) \cap Range(b.todo[1].at) = {}
    <3>1. i + 1 \in DOMAIN b.todo /\ i + 1 # 1 /\ t[i] = b.todo[i + 1]
      BY <2>2, <2>3
    <3>2. QED
      BY <1>6, <2>4, <3>1 DEF Adds
  <2>6. Range(some) \subseteq StillToAdd(b.todo) /\ IsInjective(some)
    BY <1>6, <2>4 DEF Adds, StillToAdd
  <2>7. StillToAdd(t) \subseteq StillToAdd(b.todo) \ Range(some)
    BY <2>4, <2>5 DEF StillToAdd
  <2>8. QED
    BY <2>6, <2>7
<1>11. PICK X, Y : X = {} /\ Y = Range(some)
  OBVIOUS
<1>12. ToAddOf(u, work[u]) = StillToAdd(b.todo)
  BY <1>1, <1>3, <1>4 DEF ToAddOf
<1>13. kind # "array" =>
           /\ X \subseteq Range(elements) /\ X \cap Range(elements') = {} /\ IsInjective(elements')
           /\ Y \subseteq ToAddOf(u, work[u]) /\ Range(elements') \subseteq Range(elements) \cup Y
  <2>1. SUFFICES ASSUME kind # "array"
                 PROVE  /\ IsInjective(elements') /\ Range(elements') \subseteq Range(elements) \cup Y
    BY <1>10, <1>11, <1>12
  <2>2. IsInjective(now) /\ StillToAdd(b.todo) \cap Range(now) = {}
    BY <1>1, <1>12, <2>1 DEF NoneTwice
  <2>3. some \in Seq(Stuff)
    <3>1. Range(given) \subseteq Stuff
      BY <1>3, BringsAre DEF Stuff
    <3>2. QED
      BY <1>6, <3>1, SeqMonotonic
  <2>4. Range(now) \cap Range(some) = {}
    BY <1>10, <2>2
  <2>5. IsInjective(now \o some) /\ Range(now \o some) = Range(now) \cup Range(some)
    BY <1>3, <1>10, <2>2, <2>3, <2>4, AddedOnce
  <2>6. QED
    BY <1>1, <1>2, <1>11, <2>5
<1>14. StillToAdd(o.todo) \subseteq ToAddOf(u, work[u]) \ Y
  BY <1>9, <1>10, <1>11, <1>12
<1>15. QED
  BY <1>2, <1>3, <1>4, <1>8, <1>9, <1>13, <1>14, NoneTwiceMoves

LEMMA WritesTakeNothing == ASSUME OrderedInv, NoneTwice, NEW u \in Users, PutAt(u) \/ Clear(u) PROVE NoneTwice'
<1>1. PICK b : b = work[u]
  OBVIOUS
<1>2. CASE PutAt(u)
  <2>1. /\ work[u].outcome = "running" /\ Head(b.todo).do = "put" /\ kind' = kind
        /\ Continue(u, Then(work[u], <<>>)) \/ (elements' = elements /\ Continue(u, Errs(work[u])))
    BY <1>1, <1>2 DEF PutAt, At
  <2>2. b.call = "setAll"
    <3>1. b.call \notin Taking \cup Adding /\ "put" \in Allowed(b.call)
      BY <1>1, <2>1, DoneFor
    <3>2. QED
      BY <3>1 DEF Allowed
  <2>3. kind = "array"
    <3>1. b.call \in Usable[kind] /\ kind \in DOMAIN Usable
      BY <1>1, <2>1, WorkRuns DEF TypedWork
    <3>2. QED
      BY <2>2, <3>1 DEF Usable, OrderedCalls, QueueCalls
  <2>4. OnlyFewer
    BY <2>3 DEF OnlyFewer
  <2>5. ASSUME Continue(u, Then(work[u], <<>>)) PROVE NoneTwice'
    BY <1>1, <2>1, <2>4, <2>5, OnceThen
  <2>6. ASSUME elements' = elements, Continue(u, Errs(work[u])) PROVE NoneTwice'
    BY <1>1, <2>1, <2>6, OnceFails
  <2>7. QED
    BY <2>1, <2>5, <2>6
<1>3. CASE Clear(u)
  <2>1. /\ work[u].outcome = "running" /\ Head(work[u].todo).do = "clear" /\ kind' = kind /\ elements' = <<>>
        /\ Continue(u, Then(work[u], <<>>))
    BY <1>3 DEF Clear, At
  <2>2. OnlyFewer
    <3>1. IsInjective(<<>>) /\ Range(<<>>) = {}
      BY DEF IsInjective, Range
    <3>2. QED
      BY <2>1, <3>1 DEF OnlyFewer
  <2>3. QED
    BY <2>1, <2>2, OnceThen
<1>4. QED
  BY <1>2, <1>3

LEMMA UseTakesNothing == ASSUME OrderedInv, NoneTwice, NEW u \in Users, Use(u) PROVE NoneTwice'
<1>1. PICK call \in MayUse[u] \cap Usable[kind] :
        \E at : work' = [work EXCEPT ![u] =
               [call |-> call, outcome |-> "running", at |-> at, given |-> Brings[u],
                todo |-> First(call, at, Brings[u]), answer |-> <<>>,
                began |-> elements, alone |-> TRUE, hurt |-> FALSE, left |-> <<>>]]
  BY DEF Use
<1>2. PICK at : work' = [work EXCEPT ![u] =
               [call |-> call, outcome |-> "running", at |-> at, given |-> Brings[u],
                todo |-> First(call, at, Brings[u]), answer |-> <<>>,
                began |-> elements, alone |-> TRUE, hurt |-> FALSE, left |-> <<>>]]
  BY <1>1
<1>3. PICK t, given, now : t = First(call, at, Brings[u]) /\ given = Brings[u] /\ now = elements
  OBVIOUS
<1>4. PICK o : o = [call |-> call, outcome |-> "running", at |-> at, given |-> given, todo |-> t, answer |-> <<>>,
                    began |-> now, alone |-> TRUE, hurt |-> FALSE, left |-> <<>>]
  OBVIOUS
<1>5. kind' = kind /\ elements' = elements /\ work[u].outcome = "idle" /\ work = [w \in Users |-> work[w]]
  BY DEF Use, OrderedInv
<1>6. work' = [w \in Users |-> IF w = u THEN o ELSE work[w]]
  BY <1>2, <1>3, <1>4, <1>5
<1>7. o.call = call /\ o.outcome = "running" /\ o.todo = t
  BY <1>4
<1>8. TookOf(o) = {} /\ ToAddOf(u, o) \subseteq ToAddOf(u, work[u])
  <2>1. TookOf(o) = {}
    BY <1>7 DEF TookOf
  <2>2. ToAddOf(u, work[u]) = Range(Brings[u])
    BY <1>5 DEF ToAddOf
  <2>3. CASE call \in Adding
    <3>1. Adds(t, given)
      BY <1>3, <2>3, AddsFirst
    <3>2. StillToAdd(t) \subseteq Range(Brings[u])
      BY <1>3, <3>1, PendingOfGiven
    <3>3. QED
      BY <1>7, <2>1, <2>2, <2>3, <3>2 DEF ToAddOf
  <2>4. CASE call \notin Adding
    BY <1>7, <2>1, <2>4 DEF ToAddOf
  <2>5. QED
    BY <2>3, <2>4
<1>9. SUFFICES ASSUME kind # "array" PROVE NoneTwice'
  BY <1>5 DEF NoneTwice
<1>10. /\ IsInjective(elements)
       /\ \A w \in Users : (TookOf(work[w]) \cup ToAddOf(w, work[w])) \cap Range(elements) = {}
       /\ \A v, w \in Users : v # w => TookOf(work[v]) \cap (TookOf(work[w]) \cup ToAddOf(w, work[w])) = {}
  BY <1>9 DEF NoneTwice
<1>11. \A w \in Users : /\ TookOf(work'[w]) \subseteq TookOf(work[w])
                        /\ ToAddOf(w, work'[w]) \subseteq ToAddOf(w, work[w])
  <2>1. TAKE w \in Users
  <2>2. CASE w = u
    BY <1>6, <1>8, <2>2
  <2>3. CASE w # u
    BY <1>6, <2>3
  <2>4. QED
    BY <2>2, <2>3
<1>12. \A w \in Users : (TookOf(work'[w]) \cup ToAddOf(w, work'[w])) \cap Range(elements) = {}
  BY <1>10, <1>11
<1>13. ASSUME NEW v \in Users, NEW w \in Users, v # w
       PROVE  TookOf(work'[v]) \cap (TookOf(work'[w]) \cup ToAddOf(w, work'[w])) = {}
  <2>1. TookOf(work[v]) \cap (TookOf(work[w]) \cup ToAddOf(w, work[w])) = {}
    BY <1>10, <1>13
  <2>2. QED
    BY <1>11, <2>1
<1>14. QED
  BY <1>5, <1>10, <1>12, <1>13 DEF NoneTwice

LEMMA OnceStart == OrderedInit => NoneTwice
<1> SUFFICES ASSUME OrderedInit, kind # "array"
             PROVE  /\ IsInjective(elements)
                    /\ \A u \in Users : (TookOf(work[u]) \cup ToAddOf(u, work[u])) \cap Range(elements) = {}
                    /\ \A u, w \in Users : u # w => TookOf(work[u]) \cap (TookOf(work[w]) \cup ToAddOf(w, work[w])) = {}
  BY DEF NoneTwice
<1>1. \A u \in Users : work[u].outcome = "idle"
  BY DEF OrderedInit
<1>2. \A u \in Users : TookOf(work[u]) = {} /\ ToAddOf(u, work[u]) = Range(Brings[u])
  BY <1>1 DEF TookOf, ToAddOf
<1>3. elements \in Starts
  BY DEF OrderedInit
<1>4. IsInjective(elements) /\ \A u \in Users : Range(Brings[u]) \cap Range(elements) = {}
  BY <1>3, OrderedAssumption
<1>5. QED
  BY <1>2, <1>4

LEMMA OnceStep == OrderedInv /\ NoneTwice /\ [OrderedNext]_orderedVars => NoneTwice'
<1>1. SUFFICES ASSUME OrderedInv, NoneTwice, [OrderedNext]_orderedVars PROVE NoneTwice'
  OBVIOUS
<1>2. CASE UNCHANGED orderedVars
  BY <1>1, <1>2 DEF orderedVars, NoneTwice
<1>3. ASSUME NEW u \in Users,
             \/ Use(u) \/ Size(u) \/ IsEmpty(u) \/ Locate(u) \/ ReadAt(u) \/ Peek(u) \/ Take(u)
             \/ IncludesElement(u) \/ RemoveElement(u) \/ Add(u) \/ PutAt(u) \/ Clear(u) \/ UseFails(u)
      PROVE  NoneTwice'
  BY <1>1, <1>3, UseTakesNothing, ReadsTakeNothing, TakesOnce, RemovesOnce, AddsOnce, WritesTakeNothing
<1>4. QED
  BY <1>1, <1>2, <1>3 DEF OrderedNext

(* Of flows that pop or shift a collection at the same time each gets      *)
(* elements of its own, none of which is still there.                      *)
THEOREM OrderedTakenOnce == OrderedSpec => []TakenOnce
<1>1. OrderedInv /\ NoneTwice => TakenOnce
  <2>1. SUFFICES ASSUME OrderedInv, NoneTwice, NEW u \in Users, NEW w \in Users
                 PROVE  TookOf(work[u]) \cap Range(elements) = {} /\ (u # w => TookOf(work[u]) \cap TookOf(work[w]) = {})
    BY DEF TakenOnce, TookOf, Taking
  <2>2. CASE kind # "array"
    BY <2>1, <2>2 DEF NoneTwice
  <2>3. CASE kind = "array"
    <3>1. ASSUME NEW v \in Users PROVE TookOf(work[v]) = {}
      <4>1. SUFFICES ASSUME work[v].outcome = "done" PROVE work[v].call \notin Taking
        BY DEF TookOf
      <4>2. TypedWork(v, work[v])
        BY <2>1, <4>1 DEF OrderedInv, WorkOK
      <4>3. QED
        BY <2>3, <4>2 DEF TypedWork, Usable, ArrayCalls, Taking
    <3>2. QED
      BY <3>1
  <2>4. QED
    BY <2>2, <2>3
<1>2. QED
  BY <1>1, OrderedStart, OrderedStep, OnceStart, OnceStep, PTL DEF OrderedSpec

-----------------------------------------------------------------------------
(* Baselines                                                               *)

(* Reports of a manifest that load are of different metadata. *)
Distinct(named, files) ==
  \A p, q \in named : p # q /\ files[p] \in Metas => files[p] # files[q]

Targeted ==
  [at : {"copy", "write"}, o : Options, target : Paths, payload : SUBSET Paths, changes : BOOLEAN]

(* What a command is going to write names the target of the report and     *)
(* leaves out, if it is to replace, only what has the metadata of that     *)
(* report; the report is at the target before the manifest is written.     *)
WillWrite(cli, meta) ==
  /\ cli \in Targeted
  /\ cli.target \in cli.payload /\ cli.payload \subseteq manifest \cup {cli.target}
  /\ \A p \in manifest \ cli.payload : cli.o.replace /\ reports[p] = meta
  /\ \A p \in cli.payload \ {cli.target} : reports[p] # meta
  /\ ~cli.changes <=> cli.payload = manifest

CliOK(cli) ==
  /\ cli.at \in {"idle", "register", "copy", "write", "prune"}
  /\ cli.at = "register" => cli.o \in Options /\ cli.o.report \in Paths
  /\ cli.at = "copy" => /\ cli.o.report \in Paths /\ reports[cli.o.report] \in Metas
                        /\ WillWrite(cli, reports[cli.o.report])
  /\ cli.at = "write" => \/ /\ cli.target = NoPath /\ cli.payload \subseteq manifest
                            /\ (~cli.changes <=> cli.payload = manifest)
                            /\ \A p \in manifest \ cli.payload : p \in cli.o.drop \/ reports[p] = NoFile
                         \/ /\ cli.target \in Paths /\ reports[cli.target] \in Metas
                            /\ WillWrite(cli, reports[cli.target])
                            /\ Distinct(cli.payload, reports)

(* While nothing has happened that the commands do not guard against, one  *)
(* of them is at work at most, and the manifest is as it must be but while *)
(* a report was copied that goes before another.                           *)
BaselinesInv ==
  /\ DOMAIN reports = Paths /\ clis = [c \in Clis |-> clis[c]] /\ strayed \in BOOLEAN
  /\ ~strayed =>
       /\ manifest \subseteq Paths
       /\ \A c, d \in Clis : clis[c].at # "idle" /\ clis[d].at # "idle" => c = d
       /\ \A c \in Clis : CliOK(clis[c])
       /\ Distinct(manifest, reports) \/ \E c \in Clis : clis[c].at = "write" /\ clis[c].target # NoPath

LEMMA BaselinesStart == BaselinesInit => BaselinesInv
<1> SUFFICES ASSUME BaselinesInit PROVE BaselinesInv
  OBVIOUS
<1>1. \A c \in Clis : clis[c] = Resting /\ Resting.at = "idle"
  BY DEF BaselinesInit, Resting
<1>2. QED
  BY <1>1 DEF BaselinesInit, BaselinesInv, CliOK, Distinct

(* A command moves, and those beside it rest.                              *)
LEMMA CliMoves ==
  ASSUME BaselinesInv, NEW c \in Clis, NEW next, Become(c, next),
         clis[c].at # "idle" \/ AtWork = {}, strayed' = FALSE, ~strayed,
         manifest' \subseteq Paths, DOMAIN reports' = Paths,
         CliOK(next)',
         Distinct(manifest', reports') \/ (next.at = "write" /\ next.target # NoPath)
  PROVE  BaselinesInv'
<1>1. /\ clis' = [d \in Clis |-> IF d = c THEN next ELSE clis[d]]
      /\ \A d \in Clis : clis'[d] = IF d = c THEN next ELSE clis[d]
  BY DEF Become, BaselinesInv
<1>2. \A d \in Clis : d # c => clis[d].at = "idle"
  BY DEF BaselinesInv, AtWork
<1>3. \A d \in Clis : d # c => CliOK(clis[d])'
  BY <1>1, <1>2 DEF CliOK
<1>4. \A d \in Clis : CliOK(clis[d])'
  BY <1>1, <1>3
<1>5. \A d, e \in Clis : clis'[d].at # "idle" /\ clis'[e].at # "idle" => d = e
  BY <1>1, <1>2
<1>6. Distinct(manifest', reports') \/ \E d \in Clis : clis'[d].at = "write" /\ clis'[d].target # NoPath
  BY <1>1
<1>7. clis' = [d \in Clis |-> clis'[d]]
  BY <1>1
<1>8. QED
  BY <1>4, <1>5, <1>6, <1>7 DEF BaselinesInv

(* What strays is not looked at any more.                                  *)
LEMMA Strays ==
  ASSUME BaselinesInv, strayed' = TRUE, DOMAIN reports' = Paths,
         NEW c \in Clis, NEW next, Become(c, next)
  PROVE  BaselinesInv'
BY DEF BaselinesInv, Become

LEMMA StartKeeps ==
  ASSUME BaselinesInv, NEW c \in Clis, NEW o \in Options, StartRegister(c, o) PROVE BaselinesInv'
<1> DEFINE next == [at |-> IF o.report = NoPath THEN "prune" ELSE "register", o |-> o]
<1>1. strayed' \in BOOLEAN /\ (~strayed' => ~strayed /\ AtWork = {} /\ strayed' = FALSE)
  BY DEF StartRegister, BaselinesInv
<1>2. next.at \in {"prune", "register"} /\ next.o = o
  OBVIOUS
<1>3. next.at = "register" => o.report \in Paths
  BY DEF Options
<1>4. Become(c, next) /\ manifest' = manifest /\ reports' = reports
  BY DEF StartRegister
<1>5. DOMAIN reports' = Paths /\ (~strayed => manifest' \subseteq Paths)
  BY <1>4 DEF BaselinesInv
<1>6. CASE strayed'
  BY <1>1, <1>4, <1>5, <1>6, Strays
<1>7. CASE ~strayed'
  <2>1. CliOK(next)'
    BY <1>2, <1>3 DEF CliOK
  <2>2. Distinct(manifest', reports')
    BY <1>1, <1>4, <1>7 DEF BaselinesInv, AtWork
  <2>3. QED
    BY <1>1, <1>4, <1>5, <1>7, <2>1, <2>2, CliMoves
<1>8. QED
  BY <1>6, <1>7

(* What a command leaves that is done, or fails before it has written.     *)
LEMMA CliRests ==
  ASSUME BaselinesInv, NEW c \in Clis, NEW next, Become(c, next), next.at \in {"idle", "prune"},
         clis[c].at # "idle", reports' = reports, strayed' \in BOOLEAN, strayed => strayed',
         ~strayed' => manifest' \subseteq Paths /\ Distinct(manifest', reports)
  PROVE  BaselinesInv'
<1>1. DOMAIN reports' = Paths
  BY DEF BaselinesInv
<1>2. CASE strayed'
  BY <1>1, <1>2, Strays
<1>3. CASE ~strayed'
  <2>1. CliOK(next)'
    BY DEF CliOK
  <2>2. QED
    BY <1>1, <1>3, <2>1, CliMoves
<1>4. QED
  BY <1>2, <1>3

LEMMA BeforeWriting ==
  ASSUME BaselinesInv, NEW c \in Clis, ~strayed, clis[c].at # "idle",
         clis[c].at = "write" => clis[c].target = NoPath
  PROVE  Distinct(manifest, reports)
BY DEF BaselinesInv

LEMMA RegisterKeeps ==
  ASSUME BaselinesInv, NEW c \in Clis, Register(c) PROVE BaselinesInv'
<1> USE BaselinesAssumption
<1> DEFINE o      == clis[c].o
           target == BaselineTarget(o)
           twins  == DuplicateMetadata(manifest, o.report, target)
           next   == (IF o.replace THEN manifest \ twins ELSE manifest) \cup {target}
           to     == [at |-> "copy", o |-> o, target |-> target, payload |-> next, changes |-> next # manifest]
<1>1. clis[c].at = "register" /\ manifest' = manifest /\ reports' = reports
  BY DEF Register
<1>2. CASE Become(c, Resting) /\ strayed' = strayed
  <2>1. strayed' \in BOOLEAN /\ (~strayed => manifest' \subseteq Paths /\ Distinct(manifest', reports))
    BY <1>1, <1>2, BeforeWriting DEF BaselinesInv
  <2>2. QED
    BY <1>1, <1>2, <2>1, CliRests DEF Resting
<1>3. CASE /\ Loads(o.report) /\ (twins # {} => o.allow \/ o.replace)
           /\ Become(c, to) /\ strayed' = (strayed \/ (o.allow /\ twins # {}))
  <2>0. strayed' \in BOOLEAN /\ DOMAIN reports' = Paths /\ (~strayed => manifest' \subseteq Paths)
    BY <1>1, <1>3 DEF BaselinesInv
  <2>1. CASE strayed'
    BY <1>3, <2>0, <2>1, Strays
  <2>2. CASE ~strayed'
    <3>1. ~strayed /\ strayed' = FALSE /\ (o.allow => twins = {})
      BY <1>3, <2>0, <2>2 DEF BaselinesInv
    <3>2. o \in Options /\ o.report \in Paths
      BY <1>1, <3>1 DEF BaselinesInv, CliOK
    <3>3. target \in Paths
      BY <3>2 DEF BaselineTarget, Options
    <3>4. o.replace \/ twins = {}
      BY <1>3, <3>1
    <3>5. \A p : p \in twins <=> p \in manifest /\ p # target /\ reports[p] = reports[o.report]
      BY DEF DuplicateMetadata
    <3>6. next \subseteq manifest \cup {target} /\ target \in next
      OBVIOUS
    <3>7. \A p \in manifest \ next : o.replace /\ reports[p] = reports[o.report]
      BY <3>5
    <3>8. \A p \in next \ {target} : reports[p] # reports[o.report]
      BY <3>4, <3>5
    <3>9. next \in SUBSET Paths
      BY <1>1, <2>0, <3>1, <3>3, <3>6
    <3> DEFINE prunes == next # manifest
    <3>10. prunes \in BOOLEAN /\ (~prunes <=> next = manifest)
      OBVIOUS
    <3> HIDE DEF next, target, o, prunes
    <3>11. /\ to.at = "copy" /\ to.o = o /\ to.target = target /\ to.payload = next
           /\ (~to.changes <=> next = manifest)
      BY <3>10 DEF prunes
    <3>12. to \in Targeted
      BY <3>2, <3>3, <3>9, <3>10 DEF Targeted, prunes
    <3> HIDE DEF to
    <3>13. WillWrite(to, reports[o.report])
      BY <3>6, <3>7, <3>8, <3>11, <3>12 DEF WillWrite
    <3>14. PICK next1 : next1 = to
      OBVIOUS
    <3>15. CliOK(next1)
      BY <1>3, <3>2, <3>11, <3>13, <3>14 DEF CliOK, Loads
    <3>16. CliOK(next1)'
      BY <1>1, <3>15 DEF CliOK, WillWrite
    <3>17. Distinct(manifest', reports')
      BY <1>1, <3>1, BeforeWriting
    <3>18. Become(c, next1)
      BY <1>3, <3>14
    <3>19. QED
      BY <1>1, <2>0, <3>1, <3>16, <3>17, <3>18, CliMoves
  <2>3. QED
    BY <2>1, <2>2
<1>4. QED
  BY <1>2, <1>3 DEF Register

LEMMA CopyKeeps ==
  ASSUME BaselinesInv, NEW c \in Clis, CopyReport(c) PROVE BaselinesInv'
<1> USE BaselinesAssumption
<1> DEFINE source == clis[c].o.report
           target == clis[c].target
           to     == [clis[c] EXCEPT !.at = "write"]
<1>1. clis[c].at = "copy" /\ manifest' = manifest /\ strayed' = strayed
  BY DEF CopyReport
<1>2. CASE Become(c, Resting) /\ reports' = reports
  <2>1. strayed' \in BOOLEAN /\ (~strayed => manifest' \subseteq Paths /\ Distinct(manifest', reports))
    BY <1>1, <1>2, BeforeWriting DEF BaselinesInv
  <2>2. QED
    BY <1>1, <1>2, <2>1, CliRests DEF Resting
<1>3. CASE reports' = [reports EXCEPT ![target] = reports[source]] /\ Become(c, to)
  <2>0. strayed' \in BOOLEAN /\ DOMAIN reports' = Paths /\ (~strayed => manifest' \subseteq Paths)
    BY <1>1, <1>3 DEF BaselinesInv
  <2>1. CASE strayed
    BY <1>1, <1>3, <2>0, <2>1, Strays
  <2>2. CASE ~strayed
    <3>1. reports[source] \in Metas /\ WillWrite(clis[c], reports[source])
      BY <1>1, <2>2 DEF BaselinesInv, CliOK
    <3>2. clis[c] \in Targeted /\ target \in Paths
      BY <3>1 DEF WillWrite, Targeted
    <3>3. /\ to \in Targeted /\ to.at = "write" /\ to.target = target /\ to.payload = clis[c].payload
          /\ to.changes = clis[c].changes /\ to.o = clis[c].o
      BY <3>2 DEF Targeted
    <3>4. \A p \in Paths : reports'[p] = IF p = target THEN reports[source] ELSE reports[p]
      BY <1>3, <2>0
    <3>5. Distinct(manifest, reports)
      BY <1>1, <2>2, BeforeWriting
    <3>6. clis[c].payload \subseteq Paths /\ manifest \subseteq Paths
      BY <2>2, <3>2 DEF Targeted, BaselinesInv
    <3>7. PICK next, meta : next = to /\ meta = reports[source]
      OBVIOUS
    <3>8. /\ next \in Targeted /\ next.at = "write" /\ next.target = target
          /\ next.payload = clis[c].payload /\ next.changes = clis[c].changes /\ next.o = clis[c].o
      BY <3>3, <3>7
    <3>9. next.target \in Paths /\ next.payload \subseteq Paths /\ reports'[next.target] = meta
      BY <3>2, <3>4, <3>6, <3>7, <3>8
    <3>10. WillWrite(next, meta)
      BY <3>1, <3>7, <3>8 DEF WillWrite
    <3>11. \A p \in Paths : p # next.target => reports'[p] = reports[p]
      BY <3>4, <3>8
    <3>12. WillWrite(next, meta)'
      BY <1>1, <3>6, <3>10, <3>11 DEF WillWrite
    <3>13. Distinct(next.payload, reports')
      BY <3>5, <3>6, <3>9, <3>10, <3>11 DEF WillWrite, Distinct
    <3>14. CliOK(next)'
      BY <3>1, <3>7, <3>8, <3>9, <3>12, <3>13 DEF CliOK
    <3>15. next.target # NoPath /\ Become(c, next)
      BY <1>3, <3>7, <3>9
    <3>16. QED
      BY <1>1, <2>0, <2>2, <3>8, <3>14, <3>15, CliMoves
  <2>3. QED
    BY <2>1, <2>2
<1>4. QED
  BY <1>2, <1>3 DEF CopyReport

(* What a write takes away is named to be dropped, or has the metadata of  *)
(* the target and is to be replaced.                                       *)
LEMMA ManifestWritten ==
  ASSUME BaselinesInv, NEW c \in Clis, WriteManifest(c), ~strayed
  PROVE  /\ manifest' \subseteq Paths /\ Distinct(manifest', reports)
         /\ \A p \in manifest \ manifest' : Loads(p) =>
               \/ clis[c].target = NoPath /\ p \in clis[c].o.drop
               \/ clis[c].o.replace /\ clis[c].target \in manifest' /\ reports[clis[c].target] = reports[p]
<1> USE BaselinesAssumption
<1>1. clis[c].at = "write" /\ CliOK(clis[c])
  BY DEF WriteManifest, BaselinesInv
<1>2. CASE clis[c].target = NoPath
  <2>1. manifest' = clis[c].payload /\ manifest' \subseteq manifest
    BY <1>1, <1>2 DEF CliOK, WriteManifest
  <2>2. Distinct(manifest, reports)
    BY <1>1, <1>2, BeforeWriting
  <2>3. \A p \in manifest \ manifest' : p \in clis[c].o.drop \/ ~Loads(p)
    BY <1>1, <1>2, <2>1 DEF CliOK, Loads
  <2>4. QED
    BY <1>2, <2>1, <2>2, <2>3 DEF Distinct, BaselinesInv
<1>3. CASE clis[c].target # NoPath
  <2>1. WillWrite(clis[c], reports[clis[c].target]) /\ Distinct(clis[c].payload, reports)
    BY <1>1, <1>3 DEF CliOK
  <2>2. manifest' = clis[c].payload
    BY <2>1 DEF WillWrite, WriteManifest
  <2>3. QED
    BY <2>1, <2>2 DEF WillWrite, Targeted
<1>4. QED
  BY <1>2, <1>3

LEMMA WriteKeeps ==
  ASSUME BaselinesInv, NEW c \in Clis, WriteManifest(c) PROVE BaselinesInv'
<1>1. PICK next : Become(c, next) /\ next.at \in {"idle", "prune"}
  BY DEF WriteManifest, Resting
<1>2. clis[c].at = "write" /\ reports' = reports /\ strayed' = strayed /\ strayed \in BOOLEAN
  BY DEF WriteManifest, BaselinesInv
<1>3. CASE ~strayed
  BY <1>1, <1>2, <1>3, ManifestWritten, CliRests
<1>4. CASE strayed
  <2>1. DOMAIN reports' = Paths
    BY <1>2 DEF BaselinesInv
  <2>2. QED
    BY <1>1, <1>2, <1>4, <2>1, Strays
<1>5. QED
  BY <1>3, <1>4

LEMMA PruneKeeps ==
  ASSUME BaselinesInv, NEW c \in Clis, Prune(c) PROVE BaselinesInv'
<1> DEFINE o    == clis[c].o
           kept == {p \in manifest \ o.drop : o.pruneMissing => Exists(p)}
           to   == [at |-> "write", o |-> o, target |-> NoPath, payload |-> kept, changes |-> kept # manifest]
<1>1. /\ clis[c].at = "prune" /\ Become(c, to)
      /\ manifest' = manifest /\ reports' = reports /\ strayed' = strayed
  BY DEF Prune
<1>2. PICK next : next = to
  OBVIOUS
<1>3. next.at = "write" /\ next.target = NoPath /\ next.payload \subseteq manifest
  BY <1>2
<1>4. ~next.changes <=> next.payload = manifest
  BY <1>2
<1>5. CliOK(next)'
  <2>1. \A p \in manifest \ next.payload : p \in next.o.drop \/ reports[p] = NoFile
    BY <1>2 DEF Exists
  <2>2. QED
    BY <1>1, <1>3, <1>4, <2>1 DEF CliOK
<1>6. DOMAIN reports' = Paths /\ strayed \in BOOLEAN /\ (~strayed => manifest' \subseteq Paths)
  BY <1>1 DEF BaselinesInv
<1>7. ~strayed => Distinct(manifest', reports')
  BY <1>1, BeforeWriting
<1>8. Become(c, next)
  BY <1>1, <1>2
<1>9. CASE strayed
  BY <1>1, <1>6, <1>8, <1>9, Strays
<1>10. CASE ~strayed
  BY <1>1, <1>5, <1>6, <1>7, <1>8, <1>10, CliMoves
<1>11. QED
  BY <1>9, <1>10

LEMMA KillKeeps ==
  ASSUME BaselinesInv, NEW c \in Clis, KilledCli(c) PROVE BaselinesInv'
<1>1. /\ clis[c].at # "idle" /\ Become(c, Resting) /\ manifest' = manifest /\ reports' = reports
      /\ strayed' = (strayed \/ clis[c].at = "write")
  BY DEF KilledCli
<1>2. strayed' \in BOOLEAN /\ Resting.at = "idle"
  BY <1>1 DEF BaselinesInv, Resting
<1>3. ~strayed' => manifest' \subseteq Paths /\ Distinct(manifest', reports)
  BY <1>1, BeforeWriting DEF BaselinesInv
<1>4. QED
  BY <1>1, <1>2, <1>3, CliRests

LEMMA ReportKeeps ==
  ASSUME BaselinesInv, NEW p \in Paths, NEW to, ReportChanges(p, to) PROVE BaselinesInv'
<1>1. /\ \A q \in Paths : reports'[q] = IF q = p THEN to ELSE reports[q]
      /\ DOMAIN reports' = Paths /\ strayed' \in BOOLEAN
      /\ clis' = clis /\ manifest' = manifest
  BY DEF ReportChanges, BaselinesInv
<1>2. ASSUME ~strayed' PROVE ~strayed /\ AtWork = {} /\ (p \in manifest => to \notin Metas)
  BY <1>2 DEF ReportChanges
<1>3. ASSUME ~strayed' PROVE \A c \in Clis : clis[c].at = "idle"
  BY <1>2, <1>3 DEF AtWork
<1>4. ASSUME ~strayed' PROVE \A c \in Clis : CliOK(clis[c])'
  BY <1>1, <1>3, <1>4 DEF CliOK
<1>5. ASSUME ~strayed' PROVE manifest \subseteq Paths /\ Distinct(manifest, reports)
  BY <1>2, <1>3, <1>5 DEF BaselinesInv
<1>6. ASSUME ~strayed' PROVE Distinct(manifest', reports')
  BY <1>1, <1>2, <1>5, <1>6 DEF Distinct
<1>7. clis' = [c \in Clis |-> clis'[c]]
  BY <1>1 DEF BaselinesInv
<1>8. ~strayed' => /\ \A c, d \in Clis : clis'[c].at # "idle" /\ clis'[d].at # "idle" => c = d
                   /\ \A c \in Clis : CliOK(clis[c])'
                   /\ Distinct(manifest', reports') /\ manifest' \subseteq Paths
  BY <1>1, <1>3, <1>4, <1>5, <1>6
<1>9. QED
  BY <1>1, <1>7, <1>8 DEF BaselinesInv

LEMMA BaselinesStep == BaselinesInv /\ [BaselinesNext]_baselineVars => BaselinesInv'
<1> SUFFICES ASSUME BaselinesInv, [BaselinesNext]_baselineVars PROVE BaselinesInv'
  OBVIOUS
<1>1. CASE UNCHANGED baselineVars
  BY <1>1 DEF baselineVars, BaselinesInv, CliOK, WillWrite, Distinct
<1>2. CASE BaselinesNext
  BY <1>2, StartKeeps, RegisterKeeps, CopyKeeps, WriteKeeps, PruneKeeps, KillKeeps, ReportKeeps DEF BaselinesNext
<1>3. QED
  BY <1>1, <1>2

LEMMA OneEach == BaselinesInv => OneBaselineEach
<1> USE BaselinesAssumption
<1> SUFFICES ASSUME BaselinesInv, ~strayed, AtWork = {}
             PROVE  /\ \A p \in Paths : Select(p) # "several"
                    /\ (\A p \in manifest : Loads(p)) => Validates({}, TRUE, FALSE)
  BY DEF OneBaselineEach
<1>1. \A c \in Clis : clis[c].at = "idle"
  BY DEF AtWork
<1>2. manifest \subseteq Paths /\ Distinct(manifest, reports)
  BY <1>1 DEF BaselinesInv
<1>3. ASSUME NEW p \in Paths, Select(p) = "several" PROVE FALSE
  <2> DEFINE matches == {q \in manifest : reports[q] = reports[p]}
  <2>1. CASE ~Loads(p) \/ (\E q \in manifest : ~Loads(q))
    BY <1>3, <2>1 DEF Select
  <2>2. CASE Loads(p) /\ \A q \in manifest : Loads(q)
    <3>1. ~ \E q, r \in matches : q # r
      BY <1>2, <2>2 DEF Distinct, Loads
    <3>2. CASE matches = {}
      BY <1>3, <2>2, <3>2 DEF Select
    <3>3. CASE matches # {}
      <4>1. Select(p) = CHOOSE q \in matches : TRUE
        BY <2>2, <3>1, <3>3 DEF Select
      <4>2. (CHOOSE q \in matches : TRUE) \in Paths
        BY <1>2, <3>3
      <4>3. QED
        BY <1>3, <4>1, <4>2
    <3>4. QED
      BY <3>2, <3>3
  <2>3. QED
    BY <2>1, <2>2
<1>4. ASSUME \A p \in manifest : Loads(p) PROVE Validates({}, TRUE, FALSE)
  <2>1. \A p \in manifest : Exists(p)
    BY <1>4 DEF Loads, Exists
  <2>2. QED
    BY <1>2, <1>4, <2>1 DEF Validates, Loads, Distinct
<1>5. QED
  BY <1>3, <1>4

(* As long as nothing happens that the commands do not guard against, a    *)
(* manifest has one baseline of each metadata, so that                     *)
(* selection is never ambiguous and the manifest is valid.                 *)
THEOREM BaselinesAreOneEach == BaselinesSpec => []OneBaselineEach
<1>1. BaselinesSpec => []BaselinesInv
  BY BaselinesStart, BaselinesStep, PTL DEF BaselinesSpec
<1>2. QED
  BY <1>1, OneEach, PTL

LEMMA StepKeepsBaselines == BaselinesInv /\ [BaselinesNext]_baselineVars => BaselinesAreKept(manifest')
<1> SUFFICES ASSUME BaselinesInv, [BaselinesNext]_baselineVars, ~strayed, NEW p \in manifest \ manifest',
                    Loads(p)
             PROVE  \E c \in Clis :
                       /\ clis[c].at = "write"
                       /\ \/ clis[c].target = NoPath /\ p \in clis[c].o.drop
                          \/ clis[c].o.replace /\ clis[c].target \in manifest' /\ reports[clis[c].target] = reports[p]
  BY DEF BaselinesAreKept
<1>1. PICK c \in Clis : WriteManifest(c)
  BY DEF BaselinesNext, baselineVars, StartRegister, Register, CopyReport, Prune, KilledCli, ReportChanges
<1>2. QED
  BY <1>1, ManifestWritten DEF WriteManifest

(* A baseline that loads leaves the manifest only by a prune that names    *)
(* it, or when a command that is told to replace puts a report of the same *)
(* metadata in its place.                                                  *)
THEOREM BaselinesKept == BaselinesSpec => [][BaselinesAreKept(manifest')]_baselineVars
<1>1. BaselinesSpec => []BaselinesInv
  BY BaselinesStart, BaselinesStep, PTL DEF BaselinesSpec
<1>2. QED
  BY <1>1, StepKeepsBaselines, PTL DEF BaselinesSpec

-----------------------------------------------------------------------------
(* Comparing two reports                                                   *)

(* What it takes for an operation of both reports, or of one, to be worse. *)
LEMMA WorseMeans ==
  ASSUME NEW b, NEW c, NEW t, NEW which
  PROVE  which \in Exceeded(b, c, t) <=>
           /\ which \in DOMAIN b \cup DOMAIN c
           /\ \E pct \in Range(Threshold(t, which)) :
                \/ which \notin DOMAIN c
                \/ /\ which \in DOMAIN b /\ which \in DOMAIN c /\ c[which] - b[which] < 0
                   /\ b[which] # 0 /\ -(c[which] - b[which]) * 100 >= pct * b[which]
<1>1. which \in DOMAIN c /\ which \notin DOMAIN b => Delta(b, c, which) = 0
  BY DEF Delta
<1>2. which \in DOMAIN c /\ which \in DOMAIN b => Delta(b, c, which) = c[which] - b[which]
  BY DEF Delta
<1>3. ~(0 < 0)
  OBVIOUS
<1>. QED BY <1>1, <1>2, <1>3 DEF Exceeded

(* A report tells how often an operation was done in a second, and a       *)
(* threshold is a percentage, of an operation, a suite or of all.          *)
Speeds(r) == \A which \in DOMAIN r : r[which] \in Nat
LimitsOf(t) ==
  /\ \E A, B, C : t \in [operations : A, suites : B, global : C]
  /\ \A which \in DOMAIN t.operations : t.operations[which] \in Int
  /\ \A suite \in DOMAIN t.suites : t.suites[suite] \in Int
  /\ t.global \in Seq(Int)

(* Whichever threshold counts for an operation, it is a number.            *)
LEMMA LimitsAreNumbers ==
  ASSUME NEW t, LimitsOf(t), NEW which
  PROVE  Range(Threshold(t, which)) \subseteq Int
<1>1. ASSUME NEW s, s \in Seq(Int)
      PROVE  Range(s) \subseteq Int
  BY <1>1 DEF Range
<1>2. Threshold(t, which) \in Seq(Int)
  BY DEF Threshold, LimitsOf
<1>. QED BY <1>1, <1>2

(* A larger percentage allows for a larger loss.                           *)
LEMMA MoreRoom ==
  ASSUME NEW lost \in Int, NEW pct \in Int, NEW speed \in Nat, lost >= (pct + 25) * speed
  PROVE  lost >= pct * speed
<1>1. (pct + 25) * speed = pct * speed + 25 * speed
  OBVIOUS
<1>2. pct * speed \in Int /\ 25 * speed >= 0 /\ 25 * speed \in Int
  OBVIOUS
<1>. QED BY <1>1, <1>2

(* compareBenchmarkReports, for any two reports and any thresholds: a      *)
(* report does not get worse than itself, of two reports none is worse     *)
(* than the other one in the same operation, a faster operation exceeds    *)
(* nothing that it did not exceed before, and a wider limit, or one of     *)
(* others, makes no operation exceed its own.                              *)
THEOREM ComparisonIsMeant ==
  ASSUME NEW b, NEW c, NEW t, Speeds(b), Speeds(c), LimitsOf(t)
  PROVE  CompareIsMeant(b, c, t)
<1>1. CompareExit(b, b, t, TRUE) = 0
  <2>1. ASSUME NEW which, which \in Exceeded(b, b, t)
        PROVE  FALSE
    <3>1. which \in DOMAIN b /\ b[which] - b[which] < 0
      BY <2>1, WorseMeans
    <3>. QED BY <3>1 DEF Speeds
  <2>. QED BY <2>1 DEF CompareExit
<1>2. Exceeded(b, c, t) \cap Exceeded(c, b, t) = {}
  <2>1. ASSUME NEW which, which \in Exceeded(b, c, t), which \in Exceeded(c, b, t)
        PROVE  FALSE
    <3>1. which \in DOMAIN b /\ which \in DOMAIN c
      BY <2>1, WorseMeans
    <3>2. c[which] - b[which] < 0 /\ b[which] - c[which] < 0
      BY <2>1, <3>1, WorseMeans
    <3>. QED BY <3>1, <3>2 DEF Speeds
  <2>. QED BY <2>1
<1>3. ASSUME NEW which \in DOMAIN c
      PROVE  Exceeded(b, [c EXCEPT ![which] = @ + 1], t) \subseteq Exceeded(b, c, t)
  <2>. DEFINE faster == [c EXCEPT ![which] = @ + 1]
  <2>1. DOMAIN faster = DOMAIN c
    OBVIOUS
  <2>2. \A each \in DOMAIN c : faster[each] \in Nat /\ c[each] \in Nat /\ faster[each] >= c[each]
    <3>. TAKE each \in DOMAIN c
    <3>1. c[each] \in Nat
      BY DEF Speeds
    <3>2. faster[each] = IF each = which THEN c[each] + 1 ELSE c[each]
      OBVIOUS
    <3>. QED BY <3>1, <3>2
  <2>3. ASSUME NEW each, each \in Exceeded(b, faster, t)
        PROVE  each \in Exceeded(b, c, t)
    <3>1. each \in DOMAIN b \cup DOMAIN c
      BY <2>3, <2>1, WorseMeans
    <3>2. PICK pct \in Range(Threshold(t, each)) :
            \/ each \notin DOMAIN c
            \/ /\ each \in DOMAIN b /\ each \in DOMAIN c /\ faster[each] - b[each] < 0
               /\ b[each] # 0 /\ -(faster[each] - b[each]) * 100 >= pct * b[each]
      BY <2>3, <2>1, WorseMeans
    <3>3. CASE each \notin DOMAIN c
      BY <3>1, <3>3, WorseMeans
    <3>4. CASE each \in DOMAIN c
      <4>1. pct * b[each] \in Int /\ b[each] \in Nat
        BY <3>2, <3>4, LimitsAreNumbers DEF Speeds
      <4>2. /\ each \in DOMAIN b /\ faster[each] - b[each] < 0 /\ b[each] # 0
            /\ -(faster[each] - b[each]) * 100 >= pct * b[each]
        BY <3>2, <3>4
      <4>3. faster[each] \in Nat /\ c[each] \in Nat /\ faster[each] >= c[each]
        BY <2>2, <3>4
      <4>4. c[each] - b[each] < 0
        BY <4>1, <4>2, <4>3
      <4>5. -(c[each] - b[each]) * 100 >= pct * b[each]
        <5>. DEFINE least == pct * b[each]
        <5>1. least \in Int /\ -(faster[each] - b[each]) * 100 >= least
          BY <4>1, <4>2
        <5>. HIDE DEF least, faster
        <5>2. -(c[each] - b[each]) * 100 >= least
          BY <5>1, <4>1, <4>3
        <5>. QED BY <5>2 DEF least
      <4>. QED BY <3>1, <3>4, <4>2, <4>4, <4>5, WorseMeans
    <3>. QED BY <3>3, <3>4
  <2>. QED BY <2>3
<1>4. ASSUME NEW which \in DOMAIN t.operations
      PROVE  /\ which \in Exceeded(b, c, [t EXCEPT !.operations[which] = @ + 25]) => which \in Exceeded(b, c, t)
             /\ which \in Exceeded(b, c, t) <=> which \in Exceeded(b, c, [t EXCEPT !.suites = <<>>, !.global = <<0>>])
  <2>. DEFINE wide == [t EXCEPT !.operations[which] = @ + 25]
              own  == [t EXCEPT !.suites = <<>>, !.global = <<0>>]
              pct  == t.operations[which]
  <2>1. pct \in Int
    BY DEF LimitsOf
  <2>2. \A x : Range(<<x>>) = {x}
    BY DEF Range
  <2>3. Range(Threshold(t, which)) = {pct}
    BY <2>2 DEF Threshold
  <2>4. Range(Threshold(wide, which)) = {pct + 25}
    <3>1. wide.operations = [t.operations EXCEPT ![which] = @ + 25]
      BY DEF LimitsOf
    <3>2. which \in DOMAIN wide.operations /\ wide.operations[which] = pct + 25
      BY <3>1
    <3>. QED BY <3>2, <2>2 DEF Threshold
  <2>5. Range(Threshold(own, which)) = {pct}
    <3>1. own.operations = t.operations
      BY DEF LimitsOf
    <3>. QED BY <3>1, <2>2 DEF Threshold
  <2>6. ASSUME which \in Exceeded(b, c, wide)
        PROVE  which \in Exceeded(b, c, t)
    <3>1. which \in DOMAIN b \cup DOMAIN c
      BY <2>6, WorseMeans
    <3>2. CASE which \notin DOMAIN c
      BY <3>1, <3>2, <2>3, WorseMeans
    <3>3. CASE which \in DOMAIN c
      <4>1. /\ which \in DOMAIN b /\ c[which] - b[which] < 0 /\ b[which] # 0
            /\ -(c[which] - b[which]) * 100 >= (pct + 25) * b[which]
        BY <2>6, <2>4, <3>3, WorseMeans
      <4>2. -(c[which] - b[which]) * 100 \in Int /\ b[which] \in Nat
        BY <4>1, <3>3 DEF Speeds
      <4>3. -(c[which] - b[which]) * 100 >= pct * b[which]
        BY <4>1, <4>2, <2>1, MoreRoom
      <4>. QED BY <3>1, <3>3, <4>1, <4>3, <2>3, WorseMeans
    <3>. QED BY <3>2, <3>3
  <2>7. which \in Exceeded(b, c, t) <=> which \in Exceeded(b, c, own)
    BY <2>3, <2>5, WorseMeans
  <2>. QED BY <2>6, <2>7
<1>. QED BY <1>1, <1>2, <1>3, <1>4 DEF CompareIsMeant

-----------------------------------------------------------------------------
(* The bootstrap                                                           *)

RootTables == UNION {[K -> Runs \cup {Others}] : K \in SUBSET BootKeys}

BootStates ==
  [at : {"start", "connect", "audit", "make", "commit", "tell", "abort", "logout", "done"},
   action : BootActions \cup {"none"}, view : RootTables, since : Nat, open : {"no", "yes", "stuck"},
   before : SUBSET BootKeys, created : SUBSET BootKeys, late : BOOLEAN, exit : {NotYet, 0, 1, 2}]

BootTypes == userGlobals \in RootTables /\ changes \in Nat /\ boots \in [Runs -> BootStates]

(* How far a run has come, and what it will exit with.                     *)
InPlace(b) ==
  /\ b.at \in {"start", "connect", "audit", "make", "commit", "tell"} => b.exit = NotYet /\ ~b.late
  /\ b.at = "start" => b.action = "none"
  /\ b.at \notin {"start", "done"} => b.action \in {"apply", "status"}
  /\ b.at \in {"make", "commit", "tell"} \/ b.late => b.action = "apply"
  /\ b.late => b.exit = 1
  /\ b.at = "abort" /\ b.action = "apply" => b.exit = 1
  /\ b.at \in {"logout", "done"} => b.exit # NotYet
  /\ b.at \in {"start", "connect", "done"} => b.open # "yes"

HasCommitted(b) == b.at = "tell" \/ b.late \/ (b.action = "apply" /\ b.exit = 0)

(* What a run sees, and will store: what is there, as long as nobody has   *)
(* changed it, and roots of its own for those that were missing.           *)
Sees(b, r, globals, n) ==
  /\ b.since <= n
  /\ b.at \in {"audit", "make"} /\ b.since = n => b.view = globals
  /\ b.at = "make" => b.before = DOMAIN b.view
  /\ b.at \in {"audit", "make"} => \A k \in DOMAIN b.view : b.view[k] # r
  /\ b.at = "commit" =>
       /\ DOMAIN b.view = BootKeys /\ b.view[MarkerKey] = r
       /\ \A k \in Roots : b.view[k] = r <=> k \notin b.before
       /\ b.since = n =>
            b.before = DOMAIN globals /\ \A k \in Roots \cap DOMAIN globals : b.view[k] = globals[k]

(* Who has not committed has stored nothing; who has, all that was missing. *)
Stores(b, r, globals) ==
  /\ ~HasCommitted(b) => \A k \in DOMAIN globals : globals[k] # r
  /\ HasCommitted(b) =>
       /\ DOMAIN globals = BootKeys
       /\ \A k \in Roots : globals[k] = r <=> k \notin b.before
  /\ b.at = "tell" => DOMAIN b.view = BootKeys
  /\ b.action = "apply" /\ b.exit = 0 => b.created = BootKeys \ b.before

BootInv ==
  /\ BootTypes
  /\ \A r \in Runs : InPlace(boots[r]) /\ Sees(boots[r], r, userGlobals, changes)
                       /\ Stores(boots[r], r, userGlobals)

LEMMA Nothing == \A S : <<>> \in [{} -> S]
OBVIOUS

LEMMA KeyNames == Roots \subseteq BootKeys /\ MarkerKey \in BootKeys /\ MarkerKey \notin Roots
                  /\ BootKeys = Roots \cup {MarkerKey} /\ "GStoreRoot" \in Roots
BY DEF Roots, BootKeys, MarkerKey

LEMMA RestState == AtRest \in BootStates /\ InPlace(AtRest) /\ ~HasCommitted(AtRest)
                   /\ AtRest.since = 0 /\ AtRest.at = "start" /\ AtRest.exit = NotYet
<1>1. <<>> \in RootTables
  BY Nothing DEF RootTables
<1>2. QED
  BY <1>1 DEF AtRest, BootStates, InPlace, HasCommitted, BootActions, NotYet

LEMMA BootInitInv == BootInit => BootInv
<1> SUFFICES ASSUME BootInit PROVE BootInv
  OBVIOUS
<1>1. PICK K \in {{}, {"GStoreRoot"}, BootKeys} : userGlobals \in [K -> {Others}]
  BY DEF BootInit
<1>2. K \in SUBSET BootKeys
  BY <1>1, KeyNames
<1>3. userGlobals \in [K -> Runs \cup {Others}]
  BY <1>1
<1>4. BootTypes
  BY <1>2, <1>3, RestState DEF BootTypes, RootTables, BootInit
<1>5. ASSUME NEW r \in Runs
      PROVE  InPlace(boots[r]) /\ Sees(boots[r], r, userGlobals, changes) /\ Stores(boots[r], r, userGlobals)
  <2>1. boots[r] = AtRest /\ changes = 0
    BY DEF BootInit
  <2>2. \A k \in DOMAIN userGlobals : userGlobals[k] # r
    BY <1>1, BootAssumption
  <2>3. Sees(AtRest, r, userGlobals, 0)
    BY RestState DEF Sees
  <2>4. Stores(AtRest, r, userGlobals)
    BY <2>2, RestState DEF Stores, HasCommitted
  <2>5. QED
    BY <2>1, <2>3, <2>4, RestState
<1>6. QED
  BY <1>4, <1>5 DEF BootInv

(* Most steps are of one run, and change nothing that is stored.           *)
LEMMA OneRunMoves ==
  ASSUME BootInv, NEW r \in Runs, NEW b \in BootStates, boots' = [boots EXCEPT ![r] = b],
         UNCHANGED <<userGlobals, changes>>,
         InPlace(b), Sees(b, r, userGlobals, changes), Stores(b, r, userGlobals)
  PROVE  BootInv'
<1>1. boots \in [Runs -> BootStates]
  BY DEF BootInv, BootTypes
<1>2. \A s \in Runs : boots'[s] = IF s = r THEN b ELSE boots[s]
  BY <1>1
<1>3. BootTypes'
  BY <1>1 DEF BootInv, BootTypes
<1>4. QED
  BY <1>2, <1>3 DEF BootInv

(* What another one has stored stays in place under what is stored now.    *)
LEMMA OthersStored ==
  ASSUME NEW s \in Runs, NEW b \in BootStates, NEW old \in RootTables, NEW new \in RootTables, NEW n \in Nat,
         InPlace(b), Sees(b, s, old, n), Stores(b, s, old),
         \A k \in Roots \cap DOMAIN old : k \in DOMAIN new /\ new[k] = old[k],
         \A k \in DOMAIN new : new[k] = s => k \in DOMAIN old /\ old[k] = s,
         DOMAIN old = BootKeys => DOMAIN new = BootKeys
  PROVE  Sees(b, s, new, n + 1) /\ Stores(b, s, new)
<1>1. b.since \in Nat /\ b.since <= n + 1 /\ b.since # n + 1
  BY DEF BootStates, Sees
<1>2. Sees(b, s, new, n + 1)
  BY <1>1 DEF Sees
<1>3. Stores(b, s, new)
  BY KeyNames DEF Stores
<1>4. QED
  BY <1>2, <1>3

(* A run that starts, or fails, has not committed.                         *)
LEMMA Started ==
  ASSUME NEW action \in BootActions, NEW exit \in {0, 2}, NEW b,
         \/ action \in {"apply", "status"} /\ b = [AtRest EXCEPT !.at = "connect", !.action = action]
         \/ action \notin {"apply", "status"} /\ b = [AtRest EXCEPT !.at = "done", !.action = action, !.exit = exit]
  PROVE  b \in BootStates /\ InPlace(b) /\ ~HasCommitted(b) /\ b.since = 0 /\ b.at \in {"connect", "done"}
         /\ ~(b.action = "apply" /\ b.exit = 0)
<1>1. AtRest \in BootStates /\ AtRest.since = 0 /\ AtRest.open = "no" /\ AtRest.late = FALSE /\ AtRest.exit = NotYet
  BY RestState DEF AtRest
<1>2. /\ b \in BootStates /\ b.since = 0 /\ b.open = "no" /\ b.late = FALSE /\ b.action = action
      /\ \/ action \in {"apply", "status"} /\ b.at = "connect" /\ b.exit = NotYet
         \/ action \notin {"apply", "status"} /\ b.at = "done" /\ b.exit = exit
  BY <1>1 DEF BootStates
<1>3. InPlace(b)
  BY <1>2 DEF InPlace, NotYet
<1>4. ~(b.action = "apply" /\ b.exit = 0)
  BY <1>2 DEF NotYet
<1>5. QED
  BY <1>2, <1>3, <1>4 DEF HasCommitted

LEMMA Failed ==
  ASSUME NEW r \in Runs, NEW a \in BootStates, a.at \in {"audit", "make", "commit"},
         NEW n, NEW globals, InPlace(a), Sees(a, r, globals, n), Stores(a, r, globals),
         NEW b, b = [a EXCEPT !.at = "abort", !.exit = 1]
  PROVE  b \in BootStates /\ InPlace(b) /\ Sees(b, r, globals, n) /\ Stores(b, r, globals)
<1>1. /\ b \in BootStates /\ b.at = "abort" /\ b.exit = 1 /\ b.action = a.action /\ b.late = a.late
      /\ b.since = a.since
  BY DEF BootStates
<1>2. a.exit = NotYet /\ ~a.late /\ a.action \in {"apply", "status"} /\ ~HasCommitted(a)
  BY DEF InPlace, HasCommitted, NotYet
<1>3. InPlace(b) /\ ~HasCommitted(b)
  BY <1>1, <1>2 DEF InPlace, HasCommitted, NotYet
<1>4. Sees(b, r, globals, n) /\ Stores(b, r, globals)
  BY <1>1, <1>2, <1>3 DEF Sees, Stores
<1>5. QED
  BY <1>1, <1>3, <1>4

LEMMA FailKeeps ==
  ASSUME BootInv, NEW r \in Runs, boots[r].at \in {"audit", "make", "commit"}, Fail(r),
         UNCHANGED <<userGlobals, changes>>
  PROVE  BootInv'
<1> DEFINE b == [boots[r] EXCEPT !.at = "abort", !.exit = 1]
<1>1. boots' = [boots EXCEPT ![r] = b]
  BY DEF Fail
<1>2. /\ boots[r] \in BootStates /\ InPlace(boots[r]) /\ Sees(boots[r], r, userGlobals, changes)
      /\ Stores(boots[r], r, userGlobals)
  BY DEF BootInv, BootTypes
<1>3. b \in BootStates /\ InPlace(b) /\ Sees(b, r, userGlobals, changes) /\ Stores(b, r, userGlobals)
  BY <1>2, Failed
<1> HIDE DEF b
<1>4. QED
  BY <1>1, <1>3, OneRunMoves

LEMMA BootStep == BootInv /\ [BootNext]_bootVars => BootInv'
<1> SUFFICES ASSUME BootInv, [BootNext]_bootVars PROVE BootInv'
  OBVIOUS
<1>0. /\ userGlobals \in RootTables /\ changes \in Nat /\ boots \in [Runs -> BootStates]
      /\ \A r \in Runs : InPlace(boots[r]) /\ Sees(boots[r], r, userGlobals, changes)
                           /\ Stores(boots[r], r, userGlobals)
  BY DEF BootInv, BootTypes
<1>1. ASSUME NEW r \in Runs, NEW action \in BootActions, StartBoot(r, action) PROVE BootInv'
  <2> DEFINE b == IF action \in {"apply", "status"} THEN [AtRest EXCEPT !.at = "connect", !.action = action]
                  ELSE [AtRest EXCEPT !.at = "done", !.action = action, !.exit = IF action = "usage" THEN 2 ELSE 0]
  <2>1. (IF action = "usage" THEN 2 ELSE 0) \in {0, 2}
    OBVIOUS
  <2>2. b \in BootStates /\ InPlace(b) /\ ~HasCommitted(b) /\ b.since = 0 /\ b.at \in {"connect", "done"}
        /\ ~(b.action = "apply" /\ b.exit = 0)
    <3>1. PICK exit \in {0, 2} : exit = IF action = "usage" THEN 2 ELSE 0
      BY <2>1
    <3>2. \/ action \in {"apply", "status"} /\ b = [AtRest EXCEPT !.at = "connect", !.action = action]
          \/ action \notin {"apply", "status"} /\ b = [AtRest EXCEPT !.at = "done", !.action = action, !.exit = exit]
      BY <3>1
    <3> HIDE DEF b
    <3>3. QED
      BY <3>2, Started
  <2>3. \A k \in DOMAIN userGlobals : userGlobals[k] # r
    <3>1. boots[r].at = "start" /\ boots[r] \in BootStates
      BY <1>0, <1>1 DEF StartBoot
    <3>2. InPlace(boots[r]) /\ Stores(boots[r], r, userGlobals)
      BY <1>0
    <3>3. QED
      BY <3>1, <3>2 DEF Stores, HasCommitted, InPlace, NotYet
  <2> HIDE DEF b
  <2>4. Sees(b, r, userGlobals, changes) /\ Stores(b, r, userGlobals)
    BY <1>0, <2>2, <2>3 DEF Sees, Stores, HasCommitted
  <2>5. UNCHANGED <<userGlobals, changes>>
    BY <1>1 DEF StartBoot
  <2>6. boots' = [boots EXCEPT ![r] = b]
    BY <1>1 DEF StartBoot, b
  <2>7. QED
    BY <2>2, <2>4, <2>5, <2>6, OneRunMoves
<1>2. ASSUME NEW r \in Runs, Connect(r) PROVE BootInv'
  <2>0. /\ boots[r] \in BootStates /\ boots[r].at = "connect" /\ UNCHANGED <<userGlobals, changes>>
        /\ InPlace(boots[r]) /\ Sees(boots[r], r, userGlobals, changes) /\ Stores(boots[r], r, userGlobals)
    BY <1>0, <1>2 DEF Connect
  <2>1. ~HasCommitted(boots[r]) /\ boots[r].exit = NotYet /\ ~boots[r].late
    BY <2>0 DEF HasCommitted, InPlace, NotYet
  <2>2. \A k \in DOMAIN userGlobals : userGlobals[k] # r
    BY <2>0, <2>1 DEF Stores
  <2>3. ASSUME NEW b, boots' = [boots EXCEPT ![r] = b],
               b = [boots[r] EXCEPT !.at = "audit", !.open = "yes", !.view = userGlobals, !.since = changes]
        PROVE  BootInv'
    <3>1. /\ b \in BootStates /\ b.at = "audit" /\ b.view = userGlobals /\ b.since = changes
          /\ b.action = boots[r].action /\ b.exit = NotYet /\ ~b.late
      BY <1>0, <2>0, <2>1, <2>3 DEF BootStates
    <3>2. InPlace(b) /\ ~HasCommitted(b)
      BY <2>0, <3>1 DEF InPlace, HasCommitted, NotYet
    <3>3. Sees(b, r, userGlobals, changes) /\ Stores(b, r, userGlobals)
      BY <1>0, <2>2, <3>1, <3>2 DEF Sees, Stores, NotYet
    <3>4. QED
      BY <2>0, <2>3, <3>1, <3>2, <3>3, OneRunMoves
  <2>4. ASSUME NEW b, boots' = [boots EXCEPT ![r] = b], b = [boots[r] EXCEPT !.at = "done", !.exit = 1]
        PROVE  BootInv'
    <3>1. /\ b \in BootStates /\ b.at = "done" /\ b.since = boots[r].since /\ b.open = boots[r].open
          /\ b.action = boots[r].action /\ b.exit = 1 /\ ~b.late
      BY <2>0, <2>1, <2>4 DEF BootStates
    <3>2. InPlace(b) /\ ~HasCommitted(b)
      BY <2>0, <3>1 DEF InPlace, HasCommitted, NotYet
    <3>3. Sees(b, r, userGlobals, changes) /\ Stores(b, r, userGlobals)
      BY <2>0, <2>2, <3>1, <3>2 DEF Sees, Stores
    <3>4. QED
      BY <2>0, <2>4, <3>1, <3>2, <3>3, OneRunMoves
  <2>5. \/ boots' = [boots EXCEPT ![r] = [boots[r] EXCEPT !.at = "audit", !.open = "yes", !.view = userGlobals,
                                                        !.since = changes]]
        \/ boots' = [boots EXCEPT ![r] = [boots[r] EXCEPT !.at = "done", !.exit = 1]]
    <3>1. CASE boots' = [boots EXCEPT ![r].at = "audit", ![r].open = "yes", ![r].view = userGlobals, ![r].since = changes]
      BY <1>0, <3>1
    <3>2. CASE boots' = [boots EXCEPT ![r].at = "done", ![r].exit = 1]
      BY <1>0, <3>2
    <3>3. QED
      BY <1>2, <3>1, <3>2 DEF Connect
  <2>6. QED
    BY <2>3, <2>4, <2>5
<1>3. ASSUME NEW r \in Runs, Audit(r) PROVE BootInv'
  <2>0. /\ boots[r] \in BootStates /\ boots[r].at = "audit" /\ UNCHANGED <<userGlobals, changes>>
        /\ InPlace(boots[r]) /\ Sees(boots[r], r, userGlobals, changes) /\ Stores(boots[r], r, userGlobals)
    BY <1>0, <1>3 DEF Audit
  <2>1. CASE Fail(r)
    BY <2>0, <2>1, FailKeeps
  <2>2. ASSUME NEW b, boots' = [boots EXCEPT ![r] = b],
               b = [boots[r] EXCEPT !.before = DOMAIN boots[r].view,
                                    !.at = IF boots[r].action = "status" THEN "abort" ELSE "make"]
        PROVE  BootInv'
    <3>1. DOMAIN boots[r].view \in SUBSET BootKeys
      BY <2>0 DEF BootStates, RootTables
    <3>2. /\ b \in BootStates /\ b.view = boots[r].view /\ b.before = DOMAIN b.view /\ b.since = boots[r].since
          /\ b.at = IF b.action = "status" THEN "abort" ELSE "make"
          /\ b.action = boots[r].action /\ b.exit = boots[r].exit /\ b.late = boots[r].late
      BY <2>0, <2>2, <3>1 DEF BootStates
    <3>3. InPlace(b) /\ ~HasCommitted(b) /\ ~HasCommitted(boots[r]) /\ b.exit = NotYet
      BY <2>0, <3>2 DEF InPlace, HasCommitted, NotYet
    <3>4. Sees(b, r, userGlobals, changes) /\ Stores(b, r, userGlobals)
      BY <2>0, <3>2, <3>3 DEF Sees, Stores, NotYet
    <3>5. QED
      BY <2>0, <2>2, <3>2, <3>3, <3>4, OneRunMoves
  <2>3. QED
    BY <1>3, <2>1, <2>2 DEF Audit
<1>4. ASSUME NEW r \in Runs, Make(r) PROVE BootInv'
  <2>0. /\ boots[r] \in BootStates /\ boots[r].at = "make" /\ UNCHANGED <<userGlobals, changes>>
        /\ InPlace(boots[r]) /\ Sees(boots[r], r, userGlobals, changes) /\ Stores(boots[r], r, userGlobals)
    BY <1>0, <1>4 DEF Make
  <2>1. CASE Fail(r)
    BY <2>0, <2>1, FailKeeps
  <2>2. ASSUME NEW b, boots' = [boots EXCEPT ![r] = b], b = [boots[r] EXCEPT !.view = Made(r), !.at = "commit"]
        PROVE  BootInv'
    <3>1. /\ Made(r) \in RootTables /\ DOMAIN Made(r) = BootKeys /\ Made(r)[MarkerKey] = r
          /\ \A k \in Roots : Made(r)[k] = IF k \in DOMAIN boots[r].view THEN boots[r].view[k] ELSE r
      <4>1. PICK K \in SUBSET BootKeys : boots[r].view \in [K -> Runs \cup {Others}]
        BY <2>0 DEF BootStates, RootTables
      <4>2. Made(r) \in [BootKeys -> Runs \cup {Others}]
        BY <4>1 DEF Made
      <4>3. QED
        BY <4>1, <4>2, KeyNames DEF Made, RootTables
    <3>2. /\ b \in BootStates /\ b.view = Made(r) /\ b.before = boots[r].before /\ b.since = boots[r].since
          /\ b.at = "commit" /\ b.action = boots[r].action /\ b.exit = boots[r].exit /\ b.late = boots[r].late
      BY <2>0, <2>2, <3>1 DEF BootStates
    <3>3. InPlace(b) /\ ~HasCommitted(b) /\ ~HasCommitted(boots[r]) /\ b.exit = NotYet
      BY <2>0, <3>2 DEF InPlace, HasCommitted, NotYet
    <3>4. Sees(b, r, userGlobals, changes)
      <4>1. \A k \in Roots : b.view[k] = IF k \in b.before THEN boots[r].view[k] ELSE r
        BY <2>0, <3>1, <3>2 DEF Sees
      <4>2. \A k \in b.before : boots[r].view[k] # r
        BY <2>0, <3>2 DEF Sees
      <4>3. QED
        BY <2>0, <3>1, <3>2, <4>1, <4>2 DEF Sees
    <3>5. Stores(b, r, userGlobals)
      BY <2>0, <3>2, <3>3 DEF Stores, NotYet
    <3>6. QED
      BY <2>0, <2>2, <3>2, <3>3, <3>4, <3>5, OneRunMoves
  <2>3. QED
    BY <1>4, <2>1, <2>2 DEF Make
<1>5. ASSUME NEW r \in Runs, CommitBoot(r) PROVE BootInv'
  <2>0. /\ boots[r] \in BootStates /\ boots[r].at = "commit"
        /\ InPlace(boots[r]) /\ Sees(boots[r], r, userGlobals, changes) /\ Stores(boots[r], r, userGlobals)
    BY <1>0, <1>5 DEF CommitBoot
  <2>1. CASE Fail(r) /\ UNCHANGED <<userGlobals, changes>>
    BY <2>0, <2>1, FailKeeps
  <2>2. CASE /\ Commits(r) /\ userGlobals' = boots[r].view /\ changes' = changes + 1
             /\ boots' = [boots EXCEPT ![r].since = changes + 1, ![r].at = "tell"]
    <3> DEFINE b == [boots[r] EXCEPT !.since = changes + 1, !.at = "tell"]
    <3>1. boots' = [boots EXCEPT ![r] = b]
      BY <2>2
    <3>2. /\ b \in BootStates /\ b.view = boots[r].view /\ b.before = boots[r].before /\ b.since = changes + 1
          /\ b.at = "tell" /\ b.action = boots[r].action /\ b.exit = boots[r].exit /\ b.late = boots[r].late
      <4>1. changes + 1 \in Nat
        BY <1>0
      <4>2. QED
        BY <2>0, <4>1 DEF BootStates
    <3> HIDE DEF b
    <3>3. /\ DOMAIN boots[r].view = BootKeys /\ boots[r].view[MarkerKey] = r
          /\ \A k \in Roots : boots[r].view[k] = r <=> k \notin boots[r].before
          /\ \A k \in Roots \cap DOMAIN userGlobals : boots[r].view[k] = userGlobals[k]
          /\ boots[r].before = DOMAIN userGlobals /\ boots[r].view \in RootTables
      BY <2>0, <2>2 DEF Sees, Commits, BootStates
    <3>4. InPlace(b) /\ HasCommitted(b) /\ b.exit = NotYet
      BY <2>0, <3>2 DEF InPlace, HasCommitted, NotYet
    <3>5. Sees(b, r, userGlobals', changes') /\ Stores(b, r, userGlobals')
      BY <1>0, <2>2, <3>2, <3>3, <3>4 DEF Sees, Stores, NotYet
    <3>6. ASSUME NEW s \in Runs, s # r
          PROVE  Sees(boots[s], s, userGlobals', changes') /\ Stores(boots[s], s, userGlobals')
      <4>1. \A k \in BootKeys : boots[r].view[k] = s => k \in DOMAIN userGlobals /\ userGlobals[k] = s
        BY <3>3, <3>6, KeyNames
      <4>2. \A k \in Roots \cap DOMAIN userGlobals : k \in DOMAIN boots[r].view /\ boots[r].view[k] = userGlobals[k]
        BY <3>3, KeyNames
      <4>3. boots[s] \in BootStates /\ InPlace(boots[s])
            /\ Sees(boots[s], s, userGlobals, changes) /\ Stores(boots[s], s, userGlobals)
        BY <1>0
      <4>4. Sees(boots[s], s, boots[r].view, changes + 1) /\ Stores(boots[s], s, boots[r].view)
        BY <1>0, <3>3, <4>1, <4>2, <4>3, OthersStored
      <4>5. QED
        BY <2>2, <4>4
    <3>7. BootTypes'
      <4>1. boots' \in [Runs -> BootStates]
        BY <1>0, <3>1, <3>2
      <4>2. userGlobals' \in RootTables /\ changes' \in Nat
        BY <1>0, <2>2, <3>3
      <4>3. QED
        BY <4>1, <4>2 DEF BootTypes
    <3>8. \A s \in Runs : boots'[s] = IF s = r THEN b ELSE boots[s]
      BY <1>0, <3>1
    <3>9. QED
      BY <1>0, <3>4, <3>5, <3>6, <3>7, <3>8 DEF BootInv
  <2>3. QED
    BY <1>5, <2>1, <2>2 DEF CommitBoot
<1>6. ASSUME NEW r \in Runs, Tell(r) PROVE BootInv'
  <2>0. /\ boots[r] \in BootStates /\ boots[r].at = "tell" /\ UNCHANGED <<userGlobals, changes>>
        /\ InPlace(boots[r]) /\ Sees(boots[r], r, userGlobals, changes) /\ Stores(boots[r], r, userGlobals)
    BY <1>0, <1>6 DEF Tell
  <2>1. /\ DOMAIN boots[r].view = BootKeys /\ DOMAIN userGlobals = BootKeys
        /\ \A k \in Roots : userGlobals[k] = r <=> k \notin boots[r].before
    BY <2>0 DEF Stores, HasCommitted
  <2>2. boots[r].action = "apply" /\ boots[r].exit = NotYet /\ ~boots[r].late
    BY <2>0 DEF InPlace
  <2>3. ASSUME NEW b, boots' = [boots EXCEPT ![r] = b],
               b = [boots[r] EXCEPT !.created = DOMAIN boots[r].view \ boots[r].before, !.exit = 0, !.at = "logout"]
        PROVE  BootInv'
    <3>1. /\ b \in BootStates /\ b.before = boots[r].before /\ b.since = boots[r].since /\ b.at = "logout"
          /\ b.action = "apply" /\ b.exit = 0 /\ ~b.late /\ b.created = BootKeys \ b.before
      BY <2>0, <2>1, <2>2, <2>3 DEF BootStates
    <3>2. InPlace(b) /\ HasCommitted(b)
      BY <3>1 DEF InPlace, HasCommitted, NotYet
    <3>3. Sees(b, r, userGlobals, changes) /\ Stores(b, r, userGlobals)
      BY <2>0, <2>1, <3>1, <3>2 DEF Sees, Stores
    <3>4. QED
      BY <2>0, <2>3, <3>1, <3>2, <3>3, OneRunMoves
  <2>4. ASSUME NEW b, boots' = [boots EXCEPT ![r] = b],
               b = [boots[r] EXCEPT !.at = "abort", !.exit = 1, !.late = TRUE]
        PROVE  BootInv'
    <3>1. /\ b \in BootStates /\ b.before = boots[r].before /\ b.since = boots[r].since /\ b.at = "abort"
          /\ b.action = "apply" /\ b.exit = 1 /\ b.late
      BY <2>0, <2>2, <2>4 DEF BootStates
    <3>2. InPlace(b) /\ HasCommitted(b)
      BY <3>1 DEF InPlace, HasCommitted, NotYet
    <3>3. Sees(b, r, userGlobals, changes) /\ Stores(b, r, userGlobals)
      BY <2>0, <2>1, <3>1, <3>2 DEF Sees, Stores
    <3>4. QED
      BY <2>0, <2>4, <3>1, <3>2, <3>3, OneRunMoves
  <2>5. QED
    BY <1>6, <2>3, <2>4 DEF Tell
<1>7. ASSUME NEW r \in Runs, AbortBoot(r) PROVE BootInv'
  <2>0. /\ boots[r] \in BootStates /\ boots[r].at = "abort" /\ UNCHANGED <<userGlobals, changes>>
        /\ InPlace(boots[r]) /\ Sees(boots[r], r, userGlobals, changes) /\ Stores(boots[r], r, userGlobals)
    BY <1>0, <1>7 DEF AbortBoot
  <2>1. PICK b : /\ b \in {[boots[r] EXCEPT !.at = "logout", !.exit = IF boots[r].exit = NotYet THEN 0 ELSE boots[r].exit],
                           [boots[r] EXCEPT !.at = IF boots[r].exit = NotYet THEN "abort" ELSE "logout", !.exit = 1]}
                 /\ boots' = [boots EXCEPT ![r] = b]
    BY <1>7 DEF AbortBoot
  <2>2. /\ b \in BootStates /\ b.before = boots[r].before /\ b.since = boots[r].since
        /\ b.action = boots[r].action /\ b.late = boots[r].late /\ b.created = boots[r].created
        /\ b.at = "logout" \/ (b.at = "abort" /\ b.exit = 1)
        /\ b.exit = 1 \/ (b.exit = 0 /\ boots[r].exit = NotYet) \/ (b.exit = boots[r].exit /\ b.exit # NotYet)
    BY <2>0, <2>1 DEF BootStates, NotYet
  <2>3. boots[r].action = "apply" => boots[r].exit = 1
    BY <2>0 DEF InPlace
  <2>4. /\ boots[r].action \in {"apply", "status"} /\ (boots[r].late => boots[r].action = "apply")
    BY <2>0 DEF InPlace
  <2>5. b.action = "apply" => b.exit = 1
    BY <2>2, <2>3 DEF NotYet
  <2>6. InPlace(b) /\ (HasCommitted(b) <=> HasCommitted(boots[r]))
    BY <2>0, <2>2, <2>3, <2>4, <2>5 DEF InPlace, HasCommitted, NotYet
  <2>7. Sees(b, r, userGlobals, changes) /\ Stores(b, r, userGlobals)
    BY <2>0, <2>2, <2>5, <2>6 DEF Sees, Stores
  <2>8. QED
    BY <2>0, <2>1, <2>2, <2>6, <2>7, OneRunMoves
<1>8. ASSUME NEW r \in Runs, LogOutBoot(r) PROVE BootInv'
  <2>0. /\ boots[r] \in BootStates /\ boots[r].at = "logout" /\ UNCHANGED <<userGlobals, changes>>
        /\ InPlace(boots[r]) /\ Sees(boots[r], r, userGlobals, changes) /\ Stores(boots[r], r, userGlobals)
    BY <1>0, <1>8 DEF LogOutBoot
  <2>1. PICK left \in {"no", "stuck"} : boots' = [boots EXCEPT ![r] = [boots[r] EXCEPT !.at = "done", !.open = left]]
    BY <1>8 DEF LogOutBoot
  <2> DEFINE b == [boots[r] EXCEPT !.at = "done", !.open = left]
  <2>2. /\ b \in BootStates /\ b.before = boots[r].before /\ b.since = boots[r].since
        /\ b.action = boots[r].action /\ b.late = boots[r].late /\ b.created = boots[r].created
        /\ b.at = "done" /\ b.exit = boots[r].exit /\ b.open = left
    BY <2>0 DEF BootStates
  <2> HIDE DEF b
  <2>3. InPlace(b) /\ (HasCommitted(b) <=> HasCommitted(boots[r]))
    BY <2>0, <2>2 DEF InPlace, HasCommitted
  <2>4. Sees(b, r, userGlobals, changes) /\ Stores(b, r, userGlobals)
    BY <2>0, <2>2, <2>3 DEF Sees, Stores
  <2>5. boots' = [boots EXCEPT ![r] = b]
    BY <2>1 DEF b
  <2>6. QED
    BY <2>0, <2>2, <2>3, <2>4, <2>5, OneRunMoves
<1>9. ASSUME OthersMake PROVE BootInv'
  <2>1. /\ userGlobals' \in RootTables /\ DOMAIN userGlobals' = DOMAIN userGlobals \cup {"GStoreRoot"}
        /\ userGlobals'["GStoreRoot"] = Others /\ \A k \in DOMAIN userGlobals : userGlobals'[k] = userGlobals[k]
    <3>1. PICK K \in SUBSET BootKeys : userGlobals \in [K -> Runs \cup {Others}]
      BY <1>0 DEF RootTables
    <3>2. userGlobals' \in [K \cup {"GStoreRoot"} -> Runs \cup {Others}]
      BY <1>9, <3>1 DEF OthersMake
    <3>3. QED
      BY <1>9, <3>1, <3>2, KeyNames DEF OthersMake, RootTables
  <2>2. ASSUME NEW s \in Runs
        PROVE  Sees(boots[s], s, userGlobals', changes + 1) /\ Stores(boots[s], s, userGlobals')
    BY <1>0, <1>9, <2>1, KeyNames, OthersStored, BootAssumption DEF OthersMake
  <2>3. boots' = boots /\ changes' = changes + 1
    BY <1>9 DEF OthersMake
  <2>4. QED
    BY <1>0, <2>1, <2>2, <2>3 DEF BootInv, BootTypes
<1>10. ASSUME UNCHANGED bootVars PROVE BootInv'
  BY <1>10 DEF bootVars, BootInv, BootTypes
<1>11. QED
  BY <1>1, <1>2, <1>3, <1>4, <1>5, <1>6, <1>7, <1>8, <1>9, <1>10 DEF BootNext

(* A run that is done.                                                     *)
LEMMA BootDone ==
  ASSUME BootInv, NEW r \in Runs, boots[r].at = "done"
  PROVE  /\ boots[r].open # "yes"
         /\ boots[r].exit = 0 /\ boots[r].action = "apply" =>
              /\ DOMAIN userGlobals = BootKeys
              /\ {k \in Roots \cap DOMAIN userGlobals : userGlobals[k] = r} = boots[r].created \cap Roots
         /\ boots[r].action # "apply" \/ (boots[r].exit = 1 /\ ~boots[r].late) =>
              r \notin {userGlobals[k] : k \in DOMAIN userGlobals}
<1>1. /\ boots[r] \in BootStates /\ InPlace(boots[r]) /\ Stores(boots[r], r, userGlobals)
  BY DEF BootInv, BootTypes
<1>2. boots[r].open # "yes"
  BY <1>1 DEF InPlace
<1>3. ASSUME boots[r].exit = 0, boots[r].action = "apply"
      PROVE  /\ DOMAIN userGlobals = BootKeys
             /\ {k \in Roots \cap DOMAIN userGlobals : userGlobals[k] = r} = boots[r].created \cap Roots
  <2>1. /\ DOMAIN userGlobals = BootKeys /\ boots[r].created = BootKeys \ boots[r].before
        /\ \A k \in Roots : userGlobals[k] = r <=> k \notin boots[r].before
    BY <1>1, <1>3 DEF Stores, HasCommitted
  <2>2. QED
    BY <2>1, KeyNames
<1>4. ASSUME boots[r].action # "apply" \/ (boots[r].exit = 1 /\ ~boots[r].late)
      PROVE  r \notin {userGlobals[k] : k \in DOMAIN userGlobals}
  <2>1. ~HasCommitted(boots[r])
    BY <1>1, <1>4 DEF InPlace, HasCommitted
  <2>2. QED
    BY <1>1, <2>1 DEF Stores
<1>5. QED
  BY <1>2, <1>3, <1>4

LEMMA BootRoots ==
  ASSUME BootInv, [BootNext]_bootVars
  PROVE  RootsStay(userGlobals')
<1>1. CASE OthersMake
  BY <1>1 DEF OthersMake, RootsStay
<1>2. ASSUME NEW r \in Runs, Commits(r), boots[r].at = "commit", userGlobals' = boots[r].view
      PROVE  RootsStay(userGlobals')
  <2>1. Sees(boots[r], r, userGlobals, changes)
    BY DEF BootInv
  <2>2. QED
    BY <1>2, <2>1, KeyNames DEF Sees, Commits, RootsStay
<1>3. CASE UNCHANGED userGlobals
  BY <1>3 DEF RootsStay
<1>4. QED
  BY <1>1, <1>2, <1>3
  DEF BootNext, StartBoot, Connect, Audit, Make, CommitBoot, Tell, AbortBoot, LogOutBoot, bootVars

(* A run of the bootstrap that exits with 0 has told of exactly the roots  *)
(* that it made, whatever other runs and programs do meanwhile; one that   *)
(* only asks, or fails before its commit, has made none.                   *)
THEOREM BootTellsTheTruth == BootSpec => []BootToldTruth
<1>1. BootInv => BootToldTruth
  BY BootDone DEF BootToldTruth
<1>2. QED
  BY <1>1, BootInitInv, BootStep, PTL DEF BootSpec

(* bootstrap logs out the session it opened, whether it succeeds or fails. *)
THEOREM BootLogsOut == BootSpec => []BootSessionsEnd
<1>1. BootInv => BootSessionsEnd
  BY BootDone DEF BootSessionsEnd
<1>2. QED
  BY <1>1, BootInitInv, BootStep, PTL DEF BootSpec

(* bootstrap never takes a root of UserGlobals away nor replaces one that  *)
(* is there.                                                               *)
THEOREM BootKeepsRoots == BootSpec => [][RootsStay(userGlobals')]_bootVars
<1>1. BootInv /\ [BootNext]_bootVars => [RootsStay(userGlobals')]_bootVars
  BY BootRoots
<1>2. QED
  BY <1>1, BootInitInv, BootStep, PTL DEF BootSpec

-----------------------------------------------------------------------------
(* Together                                                                *)

(* Whatever the flows of a session do with dictionaries, collections,      *)
(* queues and arrays: an operation that was alone and did not fail left,   *)
(* and answered, what it would as one step.                                *)
THEOREM OperationsAloneAreAtomic == KeyedSpec /\ OrderedSpec => []AloneIsAtomic
<1>1. QED
  BY KeyedOperationsAreAtomic, OrderedOperationsAreAtomic, PTL DEF AloneIsAtomic

(* And when others interfere, what an operation answered was true at a     *)
(* moment of it, and no element was taken twice; what the bootstrap told   *)
(* it had made, it had, and it left no session behind.                     *)
THEOREM AnswersStayTrue == KeyedSpec /\ OrderedSpec /\ BootSpec => []AnswersAreTrue
<1>1. QED
  BY KeyedAnswersWereTrue, OrderedTakenOnce, BootTellsTheTruth, BootLogsOut, PTL DEF AnswersAreTrue

(* Each handle is given to the caller or back, and no baseline is doubled. *)
THEOREM NothingGetsLost == KeyedSpec /\ BaselinesSpec => []NothingIsLost
<1>1. QED
  BY KeyedHandlesComeBack, BaselinesAreOneEach, PTL DEF NothingIsLost

(* No baseline that loads goes but one that is named or replaced, and no   *)
(* root of the library is put in the place of another one.                 *)
THEOREM NothingElseGoes == BaselinesSpec /\ BootSpec => OnlyTheNamedGoes
<1>1. QED
  BY BaselinesKept, BootKeepsRoots, PTL DEF OnlyTheNamedGoes
=============================================================================
