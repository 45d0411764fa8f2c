------------------------ MODULE SessionObjectsProofs ------------------------
(***************************************************************************)
(* Proofs about what a session of one process makes of its objects: the    *)
(* handles and the calls of module SerializedRuntime, for any sessions,    *)
(* handles, objects and faults (types hold whether a native library is     *)
(* shared or not; the rest when it is not, which TLC shows to be needed);  *)
(* and the writes, promises and reads of module TransparentObject, for any *)
(* flows, properties and faults and any number of writes.                  *)
(***************************************************************************)
EXTENDS SerializedRuntime, TransparentObject, FiniteSetTheorems, TLAPS

SessionStages == {"new", "net", "in", "open", "closing", "closed", "refused"}
HandleStates == {"none", "retaining", "held", "broken", "done"}

-----------------------------------------------------------------------------
(* Types                                                                   *)

LEMMA LibraryType == \A s \in Sessions : Library(s) \in Sessions
BY DEF Library

LEMMA JobType ==
  /\ \A kind \in {"add", "remove", "use"}, h \in Handles : [kind |-> kind, of |-> h] \in Jobs
  /\ [kind |-> "logout", of |-> None] \in Jobs
BY DEF Jobs

LEMMA JobFields ==
  ASSUME NEW j \in Jobs
  PROVE  /\ j.kind \in {"add", "remove", "use", "logout"}
         /\ j.kind /= "logout" => j.of \in Handles
BY DEF Jobs

LEMMA Appended ==
  ASSUME NEW q \in Seq(Jobs), NEW j \in Jobs
  PROVE  Append(q, j) \in Seq(Jobs) /\ Append(q, j) /= <<>> /\ Len(Append(q, j)) = Len(q) + 1
<1>1. Append(q, j) \in Seq(Jobs) /\ Len(Append(q, j)) = Len(q) + 1
  OBVIOUS
<1>2. Len(q) \in Nat /\ Len(<<>>) = 0
  OBVIOUS
<1>3. QED
  BY <1>1, <1>2

LEMMA Enqueued ==
  ASSUME TypeOK, NEW s \in Sessions, NEW kind, NEW h, Enqueue(s, kind, h),
         [kind |-> kind, of |-> h] \in Jobs
  PROVE  /\ chain' \in [Sessions -> Seq(Jobs)] /\ chain'[s] /= <<>>
         /\ chain'[s] = Append(chain[s], [kind |-> kind, of |-> h])
         /\ \A t \in Sessions \ {s} : chain'[t] = chain[t]
<1> DEFINE j == [kind |-> kind, of |-> h]
<1>1. chain[s] \in Seq(Jobs) /\ chain \in [Sessions -> Seq(Jobs)]
  BY DEF TypeOK
<1>2. chain' = [chain EXCEPT ![s] = Append(chain[s], j)]
  BY DEF Enqueue
<1> HIDE DEF j
<1>3. Append(chain[s], j) \in Seq(Jobs) /\ Append(chain[s], j) /= <<>>
  BY <1>1, Appended DEF j
<1>4. QED
  BY <1>1, <1>2, <1>3 DEF j

(* A call that has been activated is there.                                *)
Waiting == \A s \in Sessions : activated[s] => chain[s] /= <<>>

LEMMA Dequeued ==
  ASSUME TypeOK, Waiting, NEW s \in Sessions, NEW kind, First(s, kind)
  PROVE  /\ chain' \in [Sessions -> Seq(Jobs)] /\ chain[s] /= <<>>
         /\ chain'[s] = Tail(chain[s])
         /\ \A t \in Sessions \ {s} : chain'[t] = chain[t] /\ activated'[t] = activated[t]
         /\ activated' \in [Sessions -> BOOLEAN] /\ ~activated'[s]
         /\ Head(chain[s]) \in Jobs /\ Head(chain[s]).kind = kind
<1>1. chain[s] /= <<>> /\ chain[s] \in Seq(Jobs)
  BY DEF First, Waiting, TypeOK
<1>2. Tail(chain[s]) \in Seq(Jobs) /\ Head(chain[s]) \in Jobs
  BY <1>1
<1>3. QED
  BY <1>1, <1>2 DEF First, TypeOK

LEMMA FirstHandle ==
  ASSUME TypeOK, Waiting, NEW s \in Sessions, NEW kind \in {"add", "remove", "use"}, First(s, kind)
  PROVE  Head(chain[s]).of \in Handles /\ OopOf[Head(chain[s]).of] \in Oops
<1>1. Head(chain[s]) \in Jobs /\ Head(chain[s]).kind = kind
  BY Dequeued
<1>2. Head(chain[s]).of \in Handles
  BY <1>1, JobFields
<1>3. QED
  BY <1>2, ParametersAssumption

LEMMA ActiveType == TypeOK => \A s \in Sessions : active[Library(s)] \in Sessions \cup {None}
BY LibraryType DEF TypeOK

LEMMA LetGoType ==
  ASSUME TypeOK, NEW h \in Handles, LetGo(h)
  PROVE  TypeOK'
<1> DEFINE s == SessionOf[h]
           o == OopOf[h]
<1>1. s \in Sessions /\ o \in Oops /\ counts[s] \in [Oops -> Nat] /\ counts[s][o] \in Nat
  BY ParametersAssumption DEF TypeOK
<1>2. chain' \in [Sessions -> Seq(Jobs)]
  BY <1>1, Enqueued, JobType DEF LetGo, TypeOK
<1>3. counts' \in [Sessions -> [Oops -> Nat]]
  <2>1. \E n \in Nat : counts' = [counts EXCEPT ![s][o] = n]
    <3>1. CASE counts' = [counts EXCEPT ![s][o] = 0]
      BY <3>1
    <3>2. CASE counts[s][o] > 1 /\ counts' = [counts EXCEPT ![s][o] = counts[s][o] - 1]
      <4>1. counts[s][o] - 1 \in Nat
        BY <1>1, <3>2
      <4>2. QED
        BY <3>2, <4>1
    <3>3. QED
      BY <3>1, <3>2 DEF LetGo
  <2>2. QED
    BY <1>1, <2>1 DEF TypeOK
<1>4. state' \in [Handles -> HandleStates]
  BY DEF LetGo, TypeOK, HandleStates
<1>5. QED
  BY <1>2, <1>3, <1>4 DEF LetGo, TypeOK, native, HandleStates

LEMMA WaitingStep == ASSUME TypeOK, Waiting, [Next]_vars PROVE Waiting'
<1>1. CASE UNCHANGED vars
  BY <1>1 DEF vars, runtimes, Waiting
<1>2. ASSUME NEW s \in Sessions,
             \/ SetNet(s) \/ LogIn(s) \/ Bind(s)
             \/ Activate(s) \/ Add(s) \/ Remove(s) \/ Use(s) \/ LogOut(s)
      PROVE  Waiting'
  <2>1. CASE SetNet(s) \/ LogIn(s) \/ Bind(s)
    BY <2>1 DEF SetNet, LogIn, Bind, runtimes, Waiting
  <2>2. CASE Activate(s)
    BY <2>2 DEF Activate, TypeOK, Waiting
  <2>3. CASE \E kind : First(s, kind)
    BY <2>3, Dequeued DEF Waiting
  <2>4. QED
    BY <1>2, <2>1, <2>2, <2>3 DEF Add, Remove, Use, LogOut
<1>3. ASSUME NEW t \in Sessions, NEW kind, NEW h, [kind |-> kind, of |-> h] \in Jobs,
             Enqueue(t, kind, h), activated' = activated
      PROVE  Waiting'
  BY <1>3, Enqueued DEF Waiting
<1>4. ASSUME NEW s \in Sessions, AskLogOut(s) PROVE Waiting'
  BY <1>3, <1>4, JobType DEF AskLogOut
<1>5. ASSUME NEW h \in Handles, Retain(h) \/ Send(h) \/ Release(h) \/ Released(h) \/ Collected(h)
      PROVE  Waiting'
  <2>1. SessionOf[h] \in Sessions
    BY ParametersAssumption
  <2>2. /\ activated' = activated
        /\ \/ UNCHANGED chain
           \/ \E kind \in {"add", "remove", "use"} : Enqueue(SessionOf[h], kind, h)
    BY <1>5 DEF Retain, Send, Release, Released, Collected, LetGo, runtimes
  <2>3. QED
    BY <1>3, <2>1, <2>2, JobType DEF Waiting
<1>6. QED
  BY <1>1, <1>2, <1>4, <1>5 DEF Next

LEMMA TypeStep == ASSUME TypeOK, Waiting, [Next]_vars PROVE TypeOK'
<1>1. CASE UNCHANGED vars
  BY <1>1 DEF vars, native, runtimes, handles, TypeOK
<1>2. ASSUME NEW s \in Sessions, SetNet(s) \/ LogIn(s) \/ Bind(s) \/ Activate(s) PROVE TypeOK'
  <2>1. CASE SetNet(s)
    BY <2>1, LibraryType DEF SetNet, TypeOK, runtimes, handles
  <2>2. CASE LogIn(s)
    <3>1. stage' \in [Sessions -> SessionStages] /\ alive' \subseteq Sessions
      BY <2>2 DEF LogIn, TypeOK, SessionStages
    <3>2. stone' \in [Sessions -> Sessions \cup {None}]
      <4>1. net[Library(s)] \in Sessions \cup {None}
        BY LibraryType DEF TypeOK
      <4>2. QED
        BY <2>2, <4>1 DEF LogIn, TypeOK
    <3>3. active' \in [Sessions -> Sessions \cup {None}]
      <4>1. \A n \in Sessions : [active EXCEPT ![n] = s] \in [Sessions -> Sessions \cup {None}]
        BY DEF TypeOK
      <4>2. active' = active \/ active' = [active EXCEPT ![Library(s)] = s]
        BY <2>2 DEF LogIn
      <4>3. active \in [Sessions -> Sessions \cup {None}]
        BY DEF TypeOK
      <4>4. QED
        BY <4>1, <4>2, <4>3, LibraryType
    <3>4. QED
      BY <2>2, <3>1, <3>2, <3>3 DEF LogIn, TypeOK, runtimes, handles, SessionStages
  <2>3. CASE Bind(s)
    BY <2>3, LibraryType DEF Bind, TypeOK, native, handles
  <2>4. CASE Activate(s)
    BY <2>4, LibraryType DEF Activate, TypeOK, handles
  <2>5. QED
    BY <1>2, <2>1, <2>2, <2>3, <2>4
<1>3. ASSUME NEW s \in Sessions, Add(s) PROVE TypeOK'
  <2>1. Head(chain[s]).of \in Handles /\ OopOf[Head(chain[s]).of] \in Oops
    BY <1>3, FirstHandle DEF Add
  <2>2. chain' \in [Sessions -> Seq(Jobs)] /\ activated' \in [Sessions -> BOOLEAN]
    BY <1>3, Dequeued DEF Add
  <2>3. state' \in [Handles -> HandleStates]
    BY <1>3, <2>1 DEF Add, TypeOK, HandleStates
  <2>4. exports' \in [Sessions -> SUBSET Oops]
    <3>1. CASE UNCHANGED exports
      BY <3>1 DEF TypeOK
    <3>2. ASSUME NEW n \in alive, exports' = [exports EXCEPT ![n] = @ \cup {OopOf[Head(chain[s]).of]}]
          PROVE  exports' \in [Sessions -> SUBSET Oops]
      BY <2>1, <3>2 DEF TypeOK
    <3>3. QED
      BY <1>3, <3>1, <3>2 DEF Add, Works
  <2>5. failed' \subseteq {"add", "remove"} \X Handles
    BY <1>3, <2>1 DEF Add, TypeOK
  <2>6. QED
    BY <1>3, <2>2, <2>3, <2>4, <2>5 DEF Add, First, TypeOK, HandleStates
<1>4. ASSUME NEW s \in Sessions, Remove(s) PROVE TypeOK'
  <2>1. Head(chain[s]).of \in Handles /\ OopOf[Head(chain[s]).of] \in Oops
    BY <1>4, FirstHandle DEF Remove
  <2>2. chain' \in [Sessions -> Seq(Jobs)] /\ activated' \in [Sessions -> BOOLEAN]
    BY <1>4, Dequeued DEF Remove
  <2>3. exports' \in [Sessions -> SUBSET Oops]
    <3>1. CASE UNCHANGED exports
      BY <3>1 DEF TypeOK
    <3>2. ASSUME NEW n \in alive, exports' = [exports EXCEPT ![n] = @ \ {OopOf[Head(chain[s]).of]}]
          PROVE  exports' \in [Sessions -> SUBSET Oops]
      BY <2>1, <3>2 DEF TypeOK
    <3>3. QED
      BY <1>4, <3>1, <3>2 DEF Remove, Works
  <2>4. failed' \subseteq {"add", "remove"} \X Handles
    BY <1>4, <2>1 DEF Remove, TypeOK
  <2>5. QED
    BY <1>4, <2>2, <2>3, <2>4 DEF Remove, First, TypeOK
<1>5. ASSUME NEW s \in Sessions, Use(s) PROVE TypeOK'
  BY <1>5, Dequeued DEF Use, First, TypeOK
<1>6. ASSUME NEW s \in Sessions, LogOut(s) PROVE TypeOK'
  <2>1. chain' \in [Sessions -> Seq(Jobs)] /\ activated' \in [Sessions -> BOOLEAN]
    BY <1>6, Dequeued DEF LogOut
  <2>2. counts' \in [Sessions -> [Oops -> Nat]]
    <3>1. [o \in Oops |-> 0] \in [Oops -> Nat]
      OBVIOUS
    <3>2. QED
      BY <1>6, <3>1 DEF LogOut, TypeOK
  <2>3. exports' \in [Sessions -> SUBSET Oops] /\ alive' \subseteq Sessions
    BY <1>6 DEF LogOut, TypeOK
  <2>4. QED
    BY <1>6, <2>1, <2>2, <2>3 DEF LogOut, First, TypeOK
<1>7. ASSUME NEW s \in Sessions, AskLogOut(s) PROVE TypeOK'
  <2>1. chain' \in [Sessions -> Seq(Jobs)]
    BY <1>7, Enqueued, JobType DEF AskLogOut
  <2>2. QED
    BY <1>7, <2>1 DEF AskLogOut, TypeOK, native, handles
<1>8. ASSUME NEW h \in Handles, Retain(h) PROVE TypeOK'
  <2>1. SessionOf[h] \in Sessions /\ OopOf[h] \in Oops
    BY ParametersAssumption
  <2>2. chain' \in [Sessions -> Seq(Jobs)]
    BY <1>8, <2>1, Enqueued, JobType DEF Retain, TypeOK
  <2>3. counts' \in [Sessions -> [Oops -> Nat]]
    <3>1. counts[SessionOf[h]][OopOf[h]] + 1 \in Nat
      BY <2>1 DEF TypeOK
    <3>2. QED
      BY <1>8, <2>1, <3>1 DEF Retain, TypeOK
  <2>4. state' \in [Handles -> HandleStates]
    BY <1>8 DEF Retain, TypeOK, HandleStates
  <2>5. QED
    BY <1>8, <2>2, <2>3, <2>4 DEF Retain, TypeOK, native, HandleStates
<1>9. ASSUME NEW h \in Handles, Send(h) PROVE TypeOK'
  <2>1. chain' \in [Sessions -> Seq(Jobs)]
    BY <1>9, Enqueued, JobType, ParametersAssumption DEF Send
  <2>2. QED
    BY <1>9, <2>1 DEF Send, TypeOK, native, handles
<1>10. ASSUME NEW h \in Handles, Release(h) \/ Released(h) \/ Collected(h) PROVE TypeOK'
  <2>1. CASE Release(h)
    BY <2>1 DEF Release, TypeOK, native, runtimes
  <2>2. QED
    BY <1>10, <2>1, LetGoType DEF Released, Collected
<1>11. QED
  BY <1>1, <1>2, <1>3, <1>4, <1>5, <1>6, <1>7, <1>8, <1>9, <1>10 DEF Next

LEMMA TypeInit == Init => TypeOK /\ Waiting
BY DEF Init, TypeOK, Waiting

(* Type correctness, whether sessions share a native library or not.       *)
THEOREM SerializedTypeOK == Spec => []TypeOK
<1>1. TypeOK /\ Waiting /\ [Next]_vars => (TypeOK /\ Waiting)'
  BY TypeStep, WaitingStep
<1>2. QED
  BY <1>1, TypeInit, PTL DEF Spec

-----------------------------------------------------------------------------
(* A library for each session                                              *)

Late == {"open", "closing", "closed"}

(* What a session and its library have to do with each other, once neither *)
(* has to do with another session.                                         *)
Own(s) ==
  /\ net[s] \in {None, s} /\ active[s] \in {None, s}
  /\ stone[s] \in {None, s} /\ bound[s] \in {None, s}
  /\ stage[s] /= "new" => net[s] = s
  /\ stage[s] \in Late \cup {"in"} => active[s] = s
  /\ stage[s] \in Late => bound[s] = s
  /\ chain[s] /= <<>> => stage[s] \in Late

Owned ==
  /\ \A s \in Sessions : Own(s)
  /\ \A h \in Handles : state[h] /= "none" => stage[SessionOf[h]] \in Late

LEMMA OwnLibrary == ASSUME ~Shared PROVE \A s \in Sessions : Library(s) = s
BY DEF Library

LEMMA OwnedInit == Init => Owned
BY ParametersAssumption DEF Init, Owned, Own, Late

(* Calls change no connection.                                             *)
LEMMA OwnedCall ==
  ASSUME TypeOK, Waiting, Owned, NEW s \in Sessions, Add(s) \/ Remove(s) \/ Use(s) \/ LogOut(s)
  PROVE  Owned'
<1>1. /\ UNCHANGED <<net, active, stone, bound>>
      /\ \A t \in Sessions : chain'[t] /= <<>> => chain[t] /= <<>>
      /\ chain[s] /= <<>>
  <2>1. PICK kind : First(s, kind)
    BY DEF Add, Remove, Use, LogOut
  <2>2. chain[s] /= <<>> /\ \A t \in Sessions \ {s} : chain'[t] = chain[t]
    BY <2>1, Dequeued
  <2>3. UNCHANGED <<net, active, stone, bound>>
    BY <2>1 DEF First
  <2>4. QED
    BY <2>2, <2>3
<1>2. stage[s] \in Late
  BY <1>1 DEF Owned, Own
<1>3. \A t \in Sessions : stage'[t] = stage[t] \/ (stage[t] \in Late /\ stage'[t] \in Late)
  BY <1>2 DEF Add, Remove, Use, LogOut, TypeOK, Late
<1>4. \A h \in Handles : state'[h] /= "none" => state[h] /= "none"
  BY DEF Add, Remove, Use, LogOut, TypeOK
<1>5. \A t \in Sessions : Own(t)'
  BY <1>1, <1>3 DEF Owned, Own, Late
<1>6. QED
  BY <1>3, <1>4, <1>5, ParametersAssumption DEF Owned, Late

(* Neither does the application.                                           *)
LEMMA OwnedStep == ASSUME ~Shared, TypeOK, Waiting, Owned, [Next]_vars PROVE Owned'
<1>0. \A s \in Sessions : Own(s) /\ Library(s) = s
  BY OwnLibrary DEF Owned
<1>1. CASE UNCHANGED vars
  BY <1>1 DEF vars, native, runtimes, handles, Owned, Own
<1>2. ASSUME NEW s \in Sessions, SetNet(s) PROVE Owned'
  BY <1>0, <1>2 DEF SetNet, TypeOK, Owned, Own, Late, runtimes, handles
<1>3. ASSUME NEW s \in Sessions, LogIn(s) PROVE Owned'
  <2>1. chain[s] = <<>> /\ net[s] = s /\ Library(s) = s
    BY <1>0, <1>3 DEF LogIn, Own, Late
  <2>2. Own(s)'
    BY <1>0, <1>3, <2>1 DEF LogIn, TypeOK, Own, Late, runtimes
  <2>3. \A t \in Sessions \ {s} : Own(t)'
    <3>1. /\ UNCHANGED <<net, bound, chain>>
          /\ active' = active \/ active' = [active EXCEPT ![s] = s]
          /\ stone' = stone \/ stone' = [stone EXCEPT ![s] = s]
          /\ \A t \in Sessions \ {s} : stage'[t] = stage[t]
      BY <1>3, <2>1 DEF LogIn, TypeOK, runtimes
    <3>2. \A t \in Sessions \ {s} : active'[t] = active[t] /\ stone'[t] = stone[t]
      BY <3>1 DEF TypeOK
    <3>3. QED
      BY <1>0, <3>1, <3>2 DEF Own
  <2>4. \A h \in Handles : state[h] /= "none" => SessionOf[h] /= s
    BY <1>3 DEF LogIn, Owned, Late
  <2>5. \A h \in Handles : state'[h] /= "none" => stage'[SessionOf[h]] \in Late
    BY <1>3, <2>4, ParametersAssumption DEF LogIn, TypeOK, Owned, handles
  <2>6. QED
    BY <2>2, <2>3, <2>5 DEF Owned
<1>4. ASSUME NEW s \in Sessions, Bind(s) PROVE Owned'
  <2>1. active[Library(s)] = s
    BY <1>0, <1>4 DEF Bind, Own
  <2>2. QED
    BY <1>0, <1>4, <2>1 DEF Bind, TypeOK, Owned, Own, Late, native, handles
<1>5. ASSUME NEW s \in Sessions, Activate(s) PROVE Owned'
  BY <1>0, <1>5 DEF Activate, TypeOK, Owned, Own, Late, handles
<1>6. ASSUME NEW s \in Sessions, stage[s] \in Late,
             \A t \in Sessions \ {s} : chain'[t] = chain[t],
             \A t \in Sessions : stage'[t] = stage[t] \/ (stage[t] \in Late /\ stage'[t] \in Late),
             UNCHANGED <<net, active, stone, bound>>,
             \A h \in Handles : (state'[h] /= "none") => (state[h] /= "none" \/ SessionOf[h] = s)
      PROVE  Owned'
  <2>1. \A t \in Sessions : Own(t)'
    BY <1>0, <1>6 DEF Own, Late
  <2>2. QED
    BY <1>6, <2>1, ParametersAssumption DEF Owned, Late
<1>7. ASSUME NEW s \in Sessions, AskLogOut(s) PROVE Owned'
  <2>1. \A t \in Sessions \ {s} : chain'[t] = chain[t]
    BY <1>7 DEF AskLogOut, Enqueue, TypeOK
  <2>2. QED
    BY <1>6, <1>7, <2>1 DEF AskLogOut, TypeOK, Late, native, handles
<1>8. ASSUME NEW h \in Handles, Retain(h) \/ Send(h) \/ Release(h) \/ Released(h) \/ Collected(h)
      PROVE  Owned'
  <2>1. SessionOf[h] \in Sessions
    BY ParametersAssumption
  <2>2. stage[SessionOf[h]] \in Late
    BY <1>8 DEF Retain, Send, Release, Released, Collected, Owned, Late
  <2>3. /\ \A t \in Sessions \ {SessionOf[h]} : chain'[t] = chain[t]
        /\ UNCHANGED <<stage, net, active, stone, bound>>
        /\ \A g \in Handles \ {h} : state'[g] = state[g]
    BY <1>8 DEF Retain, Send, Release, Released, Collected, LetGo, Enqueue, TypeOK,
                native, runtimes, handles
  <2>4. QED
    BY <1>6, <2>1, <2>2, <2>3
<1>9. QED
  BY <1>1, <1>2, <1>3, <1>4, <1>5, <1>7, <1>8, OwnedCall DEF Next

(* With a library for each session, calls are made in their session.       *)
THEOREM SerializedRightSession == ASSUME ~Shared PROVE Spec => []RightSession
<1>1. TypeOK /\ Waiting /\ Owned /\ [Next]_vars => (TypeOK /\ Waiting /\ Owned)'
  BY TypeStep, WaitingStep, OwnedStep
<1>2. Waiting /\ Owned => RightSession
  BY OwnLibrary DEF Waiting, Owned, Own, RightSession
<1>3. QED
  BY <1>1, <1>2, TypeInit, OwnedInit, PTL DEF Spec

(* And a session is bound to the native session that it logged in, with    *)
(* its own parameters.                                                     *)
THEOREM SerializedLoginsAreOwn == ASSUME ~Shared PROVE Spec => []LoginsAreOwn
<1>1. TypeOK /\ Waiting /\ Owned /\ [Next]_vars => (TypeOK /\ Waiting /\ Owned)'
  BY TypeStep, WaitingStep, OwnedStep
<1>2. Owned => LoginsAreOwn
  BY DEF Owned, Own, LoginsAreOwn
<1>3. QED
  BY <1>1, <1>2, TypeInit, OwnedInit, PTL DEF Spec

-----------------------------------------------------------------------------
(* What a chain does to an object of the export set                        *)

Does(j, kind, o) == j.kind = kind /\ OopOf[j.of] = o
Adds(j, o)       == Does(j, "add", o)
Removes(j, o)    == Does(j, "remove", o)

(* Object o is in a set when call k of chain q is made, if the set is now  *)
(* what is given and no call fails, where calls of one kind put it in and  *)
(* calls of another take it out.                                           *)
Stays(q, k, o, now, puts, takes) ==
  \/ o \in now /\ \A i \in 1 .. k - 1 : ~Does(q[i], takes, o)
  \/ \E i \in 1 .. k - 1 : Does(q[i], puts, o) /\ \A m \in i + 1 .. k - 1 : ~Does(q[m], takes, o)

CallsKept(q, k, o, exported) == Stays(q, k, o, exported, "add", "remove")
Gone(q, k, o, exported) == Stays(q, k, o, Oops \ exported, "remove", "add")

LEMMA Positions ==
  ASSUME NEW q \in Seq(Jobs), NEW j \in Jobs
  PROVE  /\ \A i \in 1 .. Len(q) : Append(q, j)[i] = q[i] /\ q[i] \in Jobs
         /\ Append(q, j)[Len(q) + 1] = j
         /\ Len(q) \in Nat /\ Len(Append(q, j)) = Len(q) + 1
OBVIOUS

LEMMA TailPositions ==
  ASSUME NEW q \in Seq(Jobs), q /= <<>>
  PROVE  /\ \A i \in 1 .. Len(q) - 1 : Tail(q)[i] = q[i + 1]
         /\ Len(q) \in Nat \ {0} /\ Len(Tail(q)) = Len(q) - 1 /\ Head(q) = q[1]
OBVIOUS

(* A later call changes nothing.                                           *)
LEMMA StaysBefore ==
  ASSUME NEW q \in Seq(Jobs), NEW j \in Jobs, NEW k \in 1 .. Len(q) + 1, NEW o, NEW now, NEW puts, NEW takes,
         Stays(q, k, o, now, puts, takes)
  PROVE  Stays(Append(q, j), k, o, now, puts, takes)
<1>1. Len(q) \in Nat /\ \A i \in 1 .. k - 1 : Append(q, j)[i] = q[i]
  BY Positions
<1>2. \A i \in 1 .. k - 1 : \A m \in i + 1 .. k - 1 : m \in 1 .. k - 1
  BY <1>1
<1>3. QED
  BY <1>1, <1>2 DEF Stays

LEMMA StaysAfter ==
  ASSUME NEW q \in Seq(Jobs), NEW j \in Jobs, NEW o, NEW now, NEW puts, NEW takes,
         Does(j, puts, o) \/ (Stays(q, Len(q) + 1, o, now, puts, takes) /\ ~Does(j, takes, o))
  PROVE  Stays(Append(q, j), Len(q) + 2, o, now, puts, takes)
<1> DEFINE n == Len(q)
           r == Append(q, j)
<1>1. n \in Nat /\ r[n + 1] = j /\ \A i \in 1 .. n : r[i] = q[i]
  BY Positions
<1> HIDE DEF n, r
<1>2. 1 .. (n + 2) - 1 = (1 .. n) \cup {n + 1} /\ 1 .. (n + 1) - 1 = 1 .. n
  BY <1>1
<1>3. CASE Does(j, puts, o)
  <2>1. \A m \in (n + 1) + 1 .. (n + 2) - 1 : FALSE
    BY <1>1
  <2>2. QED
    BY <1>1, <1>2, <1>3, <2>1 DEF Stays, n, r
<1>4. CASE Stays(q, n + 1, o, now, puts, takes) /\ ~Does(j, takes, o)
  <2>1. CASE o \in now /\ \A i \in 1 .. n : ~Does(q[i], takes, o)
    BY <1>1, <1>2, <1>4, <2>1 DEF Stays, n, r
  <2>2. CASE \E i \in 1 .. n : Does(q[i], puts, o) /\ \A m \in i + 1 .. n : ~Does(q[m], takes, o)
    <3>1. PICK i \in 1 .. n : Does(q[i], puts, o) /\ \A m \in i + 1 .. n : ~Does(q[m], takes, o)
      BY <2>2
    <3>2. \A m \in i + 1 .. (n + 2) - 1 : m = n + 1 \/ (m \in 1 .. n /\ m \in i + 1 .. n)
      BY <1>1
    <3>3. \A m \in i + 1 .. (n + 2) - 1 : ~Does(r[m], takes, o)
      BY <1>1, <1>4, <3>1, <3>2
    <3>4. Does(r[i], puts, o) /\ i \in 1 .. (n + 2) - 1
      BY <1>1, <1>2, <3>1
    <3>5. QED
      BY <3>3, <3>4 DEF Stays, n, r
  <2>3. QED
    BY <1>2, <1>4, <2>1, <2>2 DEF Stays
<1>5. QED
  BY <1>3, <1>4 DEF n

(* When the first call has been made, the rest see what it leaves.         *)
LEMMA StaysLater ==
  ASSUME NEW q \in Seq(Jobs), q /= <<>>, NEW k \in 2 .. Len(q) + 1, NEW o, NEW before, NEW after,
         NEW puts, NEW takes,
         Stays(q, k, o, before, puts, takes),
         (o \in before /\ ~Does(Head(q), takes, o)) => o \in after,
         Does(Head(q), puts, o) => o \in after
  PROVE  Stays(Tail(q), k - 1, o, after, puts, takes)
<1> DEFINE n == Len(q)
           r == Tail(q)
<1>1. n \in Nat /\ k \in Int /\ k >= 2 /\ k <= n + 1 /\ Head(q) = q[1]
  BY TailPositions
<1>2. \A i \in 1 .. (k - 1) - 1 : r[i] = q[i + 1]
  <2>1. \A i \in 1 .. (k - 1) - 1 : i \in 1 .. n - 1
    BY <1>1
  <2>2. QED
    BY <2>1, TailPositions
<1> HIDE DEF n, r
<1>3. \A i \in 1 .. (k - 1) - 1 : i + 1 \in 2 .. k - 1 /\ i + 1 \in 1 .. k - 1
  BY <1>1
<1>4. CASE o \in before /\ \A i \in 1 .. k - 1 : ~Does(q[i], takes, o)
  <2>1. 1 \in 1 .. k - 1
    BY <1>1
  <2>2. o \in after
    BY <1>1, <1>4, <2>1
  <2>3. \A i \in 1 .. (k - 1) - 1 : ~Does(r[i], takes, o)
    BY <1>2, <1>3, <1>4
  <2>4. QED
    BY <2>2, <2>3 DEF Stays, r
<1>5. ASSUME NEW i \in 1 .. k - 1, Does(q[i], puts, o), \A m \in i + 1 .. k - 1 : ~Does(q[m], takes, o)
      PROVE  Stays(r, k - 1, o, after, puts, takes)
  <2>1. CASE i = 1
    <3>1. o \in after
      BY <1>1, <1>5, <2>1
    <3>2. \A m \in 1 .. (k - 1) - 1 : m + 1 \in i + 1 .. k - 1
      BY <1>1, <2>1
    <3>3. \A m \in 1 .. (k - 1) - 1 : ~Does(r[m], takes, o)
      BY <1>2, <1>5, <3>2
    <3>4. QED
      BY <3>1, <3>3 DEF Stays
  <2>2. CASE i /= 1
    <3>1. i - 1 \in 1 .. (k - 1) - 1 /\ (i - 1) + 1 = i
      BY <1>1, <2>2
    <3>2. Does(r[i - 1], puts, o)
      BY <1>2, <1>5, <3>1
    <3>3. \A m \in (i - 1) + 1 .. (k - 1) - 1 : m + 1 \in i + 1 .. k - 1 /\ m \in 1 .. (k - 1) - 1
      BY <1>1
    <3>4. \A m \in (i - 1) + 1 .. (k - 1) - 1 : ~Does(r[m], takes, o)
      BY <1>2, <1>5, <3>3
    <3>5. QED
      BY <3>1, <3>2, <3>4 DEF Stays
  <2>3. QED
    BY <2>1, <2>2
<1>6. QED
  BY <1>4, <1>5 DEF Stays, r

-----------------------------------------------------------------------------
(* Objects of messages are exported                                        *)

Good(s, k, o) == AddFailed(s, o) \/ CallsKept(chain[s], k, o, exports[s])

(* Each waiting message finds its object exported.                         *)
UsesGood(s) ==
  \A k \in 1 .. Len(chain[s]), o \in Oops :
    chain[s][k].kind = "use" /\ OopOf[chain[s][k].of] = o => Good(s, k, o)

(* So does a message that would be sent now to an object that is counted.  *)
CountedGood(s) ==
  \A k \in Nat, o \in Oops :
    stage[s] = "open" /\ k = Len(chain[s]) + 1 /\ counts[s][o] > 0 => Good(s, k, o)

(* No message waits behind a logout.                                       *)
LogOutLast(s) ==
  \A k \in 1 .. Len(chain[s]) :
    chain[s][k].kind = "logout" =>
      /\ stage[s] /= "open"
      /\ \A m \in k + 1 .. Len(chain[s]) : chain[s][m].kind /= "use"

(* The calls of a session are about its own handles.                       *)
OwnCalls(s) ==
  \A k \in 1 .. Len(chain[s]) : chain[s][k].kind /= "logout" => SessionOf[chain[s][k].of] = s

Safe(s) == UsesGood(s) /\ CountedGood(s) /\ LogOutLast(s) /\ OwnCalls(s)

LEMMA GoodGrows ==
  ASSUME NEW s \in Sessions, failed \subseteq failed', chain'[s] = chain[s], exports'[s] = exports[s],
         NEW k, NEW o, Good(s, k, o)
  PROVE  Good(s, k, o)'
BY DEF Good, AddFailed

LEMMA SafeElsewhere ==
  ASSUME NEW s \in Sessions, Safe(s), failed \subseteq failed', chain'[s] = chain[s],
         exports'[s] = exports[s], stage'[s] = stage[s], counts'[s] = counts[s]
  PROVE  Safe(s)'
<1>1. UsesGood(s)'
  BY GoodGrows DEF Safe, UsesGood
<1>2. CountedGood(s)'
  BY GoodGrows DEF Safe, CountedGood
<1>3. QED
  BY <1>1, <1>2 DEF Safe, LogOutLast, OwnCalls

(* A new call keeps the others safe; the conditions on it are those of the *)
(* operations that make one.                                               *)
LEMMA SafeAfterEnqueue ==
  ASSUME TypeOK, NEW s \in Sessions, Safe(s), NEW kind, NEW h, [kind |-> kind, of |-> h] \in Jobs,
         Enqueue(s, kind, h), exports' = exports, failed' = failed,
         kind = "use" => stage[s] = "open" /\ counts[s][OopOf[h]] > 0 /\ OopOf[h] \in Oops,
         kind = "logout" => stage'[s] /= "open",
         stage[s] /= "open" => stage'[s] /= "open",
         kind /= "logout" => SessionOf[h] = s,
         \A o \in Oops :
           counts'[s][o] > 0 => \/ kind = "add" /\ OopOf[h] = o
                                \/ counts[s][o] > 0 /\ ~(kind = "remove" /\ OopOf[h] = o)
  PROVE  Safe(s)'
<1> DEFINE j == [kind |-> kind, of |-> h]
           q == chain[s]
<1>0. PICK n \in Nat : n = Len(q)
  BY DEF TypeOK
<1>1. j \in Jobs /\ j.kind = kind /\ j.of = h /\ q \in Seq(Jobs) /\ chain'[s] = Append(q, j)
  BY Enqueued DEF TypeOK
<1> HIDE DEF j
<1>2. /\ n \in Nat /\ Len(chain'[s]) = n + 1 /\ chain'[s][n + 1] = j
      /\ \A i \in 1 .. n : chain'[s][i] = q[i]
      /\ 1 .. n + 1 = (1 .. n) \cup {n + 1}
  <2>1. n \in Nat /\ Len(chain'[s]) = n + 1 /\ chain'[s][n + 1] = j
        /\ \A i \in 1 .. n : chain'[s][i] = q[i]
    BY <1>0, <1>1, Positions
  <2>2. 1 .. n + 1 = (1 .. n) \cup {n + 1}
    BY <2>1
  <2>3. QED
    BY <2>1, <2>2
<1>3. \A k \in 1 .. n + 1 : \A o : Good(s, k, o) => Good(s, k, o)'
  BY <1>0, <1>1, StaysBefore DEF Good, CallsKept, AddFailed
<1>4. UsesGood(s)'
  <2>1. ASSUME NEW k \in 1 .. n, NEW o \in Oops, chain'[s][k].kind = "use", OopOf[chain'[s][k].of] = o
        PROVE  Good(s, k, o)'
    BY <1>0, <1>2, <1>3, <2>1 DEF Safe, UsesGood
  <2>2. ASSUME NEW o \in Oops, kind = "use", OopOf[h] = o
        PROVE  Good(s, n + 1, o)'
    BY <1>0, <1>2, <1>3, <2>2 DEF Safe, CountedGood
  <2>3. QED
    BY <1>1, <1>2, <2>1, <2>2 DEF UsesGood
<1>5. CountedGood(s)'
  <2>1. SUFFICES ASSUME stage'[s] = "open", NEW o \in Oops, counts'[s][o] > 0
                 PROVE  Good(s, n + 2, o)'
    <3>1. \A k : k = Len(chain'[s]) + 1 => k = n + 2
      BY <1>2
    <3>2. QED
      BY <3>1 DEF CountedGood
  <2>2. Adds(j, o) \/ (counts[s][o] > 0 /\ ~Removes(j, o))
    BY <1>1, <2>1 DEF Adds, Removes, Does
  <2>3. counts[s][o] > 0 => Good(s, n + 1, o)
    BY <1>0, <2>1 DEF Safe, CountedGood
  <2>4. \/ AddFailed(s, o)
        \/ Adds(j, o) \/ (CallsKept(q, Len(q) + 1, o, exports[s]) /\ ~Removes(j, o))
    BY <1>0, <2>2, <2>3 DEF Good
  <2>5. AddFailed(s, o) => AddFailed(s, o)'
    BY DEF AddFailed
  <2>6. CASE AddFailed(s, o)
    BY <2>5, <2>6 DEF Good
  <2>7. CASE Adds(j, o) \/ (CallsKept(q, Len(q) + 1, o, exports[s]) /\ ~Removes(j, o))
    <3>1. CallsKept(Append(q, j), n + 2, o, exports[s])
      BY <1>0, <1>1, <2>7, StaysAfter DEF CallsKept, Adds, Removes
    <3>2. QED
      BY <1>1, <3>1 DEF Good
  <2>8. QED
    BY <2>4, <2>6, <2>7
<1>6. LogOutLast(s)'
  <2>1. ASSUME NEW k \in 1 .. n + 1, chain'[s][k].kind = "logout"
        PROVE  stage'[s] /= "open" /\ \A m \in k + 1 .. n + 1 : chain'[s][m].kind /= "use"
    <3>1. CASE k = n + 1
      <4>1. \A m \in k + 1 .. n + 1 : FALSE
        BY <1>2, <3>1
      <4>2. QED
        BY <1>1, <1>2, <2>1, <3>1, <4>1
    <3>2. CASE k \in 1 .. n
      <4>1. stage[s] /= "open" /\ \A m \in k + 1 .. n : q[m].kind /= "use"
        BY <1>0, <1>2, <2>1, <3>2 DEF Safe, LogOutLast
      <4>2. \A m \in k + 1 .. n + 1 : (m \in 1 .. n /\ m \in k + 1 .. n) \/ m = n + 1
        BY <1>2, <3>2
      <4>3. QED
        BY <1>1, <1>2, <4>1, <4>2
    <3>3. QED
      BY <1>2, <2>1, <3>1, <3>2
  <2>2. QED
    BY <1>2, <2>1 DEF LogOutLast
<1>7. OwnCalls(s)'
  <2>1. \A k \in 1 .. n : chain'[s][k].kind /= "logout" => SessionOf[chain'[s][k].of] = s
    BY <1>0, <1>2 DEF Safe, OwnCalls
  <2>2. QED
    BY <1>1, <1>2, <2>1 DEF OwnCalls
<1>8. QED
  BY <1>4, <1>5, <1>6, <1>7 DEF Safe

(* So does a call that is made, where what it leaves is what CallsKept expects. *)
LEMMA SafeAfterFirst ==
  ASSUME TypeOK, Waiting, NEW s \in Sessions, Safe(s), NEW kind, First(s, kind),
         failed \subseteq failed', counts' = counts, stage'[s] = stage[s],
         \A o \in Oops :
           \/ AddFailed(s, o)'
           \/ /\ (o \in exports[s] /\ ~Removes(Head(chain[s]), o)) => o \in exports'[s]
              /\ Adds(Head(chain[s]), o) => o \in exports'[s]
  PROVE  Safe(s)'
<1> DEFINE q == chain[s]
<1>0. PICK n \in Nat : n = Len(q)
  BY DEF TypeOK
<1>1. q \in Seq(Jobs) /\ q /= <<>> /\ chain'[s] = Tail(q)
  BY Dequeued DEF TypeOK
<1>2. /\ n \in Nat \ {0} /\ Len(chain'[s]) = n - 1
      /\ \A i \in 1 .. n - 1 : chain'[s][i] = q[i + 1] /\ i + 1 \in 2 .. n + 1 /\ i + 1 \in 1 .. n
  <2>1. n \in Nat \ {0} /\ Len(chain'[s]) = n - 1 /\ \A i \in 1 .. n - 1 : chain'[s][i] = q[i + 1]
    BY <1>0, <1>1, TailPositions
  <2>2. \A i \in 1 .. n - 1 : i + 1 \in 2 .. n + 1 /\ i + 1 \in 1 .. n
    BY <2>1
  <2>3. QED
    BY <2>1, <2>2
<1>3. \A k \in 2 .. n + 1, o \in Oops : Good(s, k, o) => Good(s, k - 1, o)'
  <2>1. SUFFICES ASSUME NEW k \in 2 .. n + 1, NEW o \in Oops, Good(s, k, o)
                 PROVE  Good(s, k - 1, o)'
    OBVIOUS
  <2>2. AddFailed(s, o) => AddFailed(s, o)'
    BY DEF AddFailed
  <2>3. CASE AddFailed(s, o)'
    BY <2>3 DEF Good
  <2>4. CASE ~AddFailed(s, o)'
    <3>1. CallsKept(q, k, o, exports[s])
      BY <2>1, <2>2, <2>4 DEF Good
    <3>2. CallsKept(Tail(q), k - 1, o, exports'[s])
      BY <1>0, <1>1, <2>4, <3>1, StaysLater DEF CallsKept, Adds, Removes
    <3>3. QED
      BY <1>1, <3>2 DEF Good
  <2>5. QED
    BY <2>3, <2>4
<1>4. UsesGood(s)'
  <2>1. ASSUME NEW i \in 1 .. n - 1, NEW o \in Oops, chain'[s][i].kind = "use",
               OopOf[chain'[s][i].of] = o
        PROVE  Good(s, i, o)'
    <3>1. Good(s, i + 1, o)
      BY <1>0, <1>2, <2>1 DEF Safe, UsesGood
    <3>2. (i + 1) - 1 = i
      BY <1>2
    <3>3. Good(s, (i + 1) - 1, o)'
      BY <1>2, <1>3, <2>1, <3>1
    <3>4. QED
      BY <3>2, <3>3
  <2>2. QED
    BY <1>2, <2>1 DEF UsesGood
<1>5. CountedGood(s)'
  <2>1. SUFFICES ASSUME stage'[s] = "open", NEW o \in Oops, counts'[s][o] > 0
                 PROVE  Good(s, n, o)'
    <3>1. \A k : k = Len(chain'[s]) + 1 => k = n
      BY <1>2
    <3>2. QED
      BY <3>1 DEF CountedGood
  <2>2. (n + 1) - 1 = n /\ n + 1 \in 2 .. n + 1 /\ n + 1 \in Nat
    BY <1>2
  <2>3. Good(s, n + 1, o)
    BY <1>0, <2>1, <2>2 DEF Safe, CountedGood
  <2>4. Good(s, (n + 1) - 1, o)'
    BY <1>3, <2>2, <2>3
  <2>5. QED
    BY <2>2, <2>4
<1>6. LogOutLast(s)'
  <2>1. ASSUME NEW k \in 1 .. n - 1, chain'[s][k].kind = "logout"
        PROVE  stage'[s] /= "open" /\ \A m \in k + 1 .. n - 1 : chain'[s][m].kind /= "use"
    <3>1. stage[s] /= "open" /\ \A m \in (k + 1) + 1 .. n : q[m].kind /= "use"
      BY <1>0, <1>2, <2>1 DEF Safe, LogOutLast
    <3>2. \A m \in k + 1 .. n - 1 : m \in 1 .. n - 1 /\ m + 1 \in (k + 1) + 1 .. n
      BY <1>2
    <3>3. QED
      BY <1>2, <3>1, <3>2
  <2>2. QED
    BY <1>2, <2>1 DEF LogOutLast
<1>7. OwnCalls(s)'
  BY <1>0, <1>2 DEF Safe, OwnCalls
<1>8. QED
  BY <1>4, <1>5, <1>6, <1>7 DEF Safe

-----------------------------------------------------------------------------
(* The counts are those of the live handles                                *)

Live(s, o) ==
  {h \in Handles : SessionOf[h] = s /\ OopOf[h] = o /\ state[h] \in {"retaining", "held", "broken"}}

Counted(s) == \A o \in Oops : stage[s] /= "closed" => counts[s][o] = Cardinality(Live(s, o))

LEMMA LiveFinite ==
  \A s \in Sessions, o \in Oops : IsFiniteSet(Live(s, o)) /\ Cardinality(Live(s, o)) \in Nat
<1>1. SUFFICES ASSUME NEW s \in Sessions, NEW o \in Oops
               PROVE  IsFiniteSet(Live(s, o)) /\ Cardinality(Live(s, o)) \in Nat
  OBVIOUS
<1>2. Live(s, o) \subseteq Handles
  BY DEF Live
<1>3. QED
  BY <1>2, FS_Subset, FS_CardinalityType, ParametersAssumption

LEMMA CountedSame ==
  ASSUME NEW s \in Sessions, Counted(s), counts'[s] = counts[s],
         stage'[s] /= "closed" => stage[s] /= "closed",
         \A h \in Handles : (state'[h] \in {"retaining", "held", "broken"}) <=>
                            (state[h] \in {"retaining", "held", "broken"})
  PROVE  Counted(s)'
<1>1. \A o \in Oops : Live(s, o)' = Live(s, o)
  BY DEF Live
<1>2. QED
  BY <1>1 DEF Counted

(* Of another session nothing changes.                                     *)
LEMMA CountedElsewhere ==
  ASSUME NEW s \in Sessions, NEW g \in Handles, SessionOf[g] /= s, Counted(s),
         counts'[s] = counts[s], stage'[s] = stage[s],
         \A h \in Handles \ {g} : state'[h] = state[h]
  PROVE  Counted(s)'
<1>1. \A o \in Oops : Live(s, o)' = Live(s, o)
  BY DEF Live
<1>2. QED
  BY <1>1 DEF Counted

LEMMA CountedRetain ==
  ASSUME TypeOK, NEW h \in Handles, Counted(SessionOf[h]), Retain(h)
  PROVE  Counted(SessionOf[h])'
<1> DEFINE s == SessionOf[h]
<1>1. s \in Sessions /\ OopOf[h] \in Oops
  BY ParametersAssumption
<1>2. /\ state[h] = "none" /\ stage[s] = "open" /\ stage' = stage
      /\ counts' = [counts EXCEPT ![s][OopOf[h]] = counts[s][OopOf[h]] + 1]
      /\ state'[h] \in {"retaining", "held"} /\ \A g \in Handles \ {h} : state'[g] = state[g]
  BY DEF Retain, TypeOK
<1> HIDE DEF s
<1>3. ASSUME NEW o \in Oops PROVE counts'[s][o] = Cardinality(Live(s, o)')
  <2>1. IsFiniteSet(Live(s, o)) /\ counts[s][o] = Cardinality(Live(s, o))
    BY <1>1, <1>2, LiveFinite DEF Counted, s
  <2>2. CASE o = OopOf[h]
    <3>1. Live(s, o)' = Live(s, o) \cup {h} /\ h \notin Live(s, o)
      BY <1>2, <2>2 DEF Live, s
    <3>2. counts'[s][o] = counts[s][o] + 1
      BY <1>1, <1>2, <2>2 DEF TypeOK
    <3>3. QED
      BY <2>1, <3>1, <3>2, FS_AddElement
  <2>3. CASE o /= OopOf[h]
    <3>1. Live(s, o)' = Live(s, o)
      BY <1>2, <2>3 DEF Live
    <3>2. counts'[s][o] = counts[s][o]
      BY <1>1, <1>2, <2>3 DEF TypeOK
    <3>3. QED
      BY <2>1, <3>1, <3>2
  <2>4. QED
    BY <2>2, <2>3
<1>4. Counted(s)'
  BY <1>3 DEF Counted
<1>5. QED
  BY <1>4 DEF s

LEMMA CountedLetGo ==
  ASSUME TypeOK, NEW h \in Handles, Counted(SessionOf[h]), LetGo(h),
         state[h] \in {"retaining", "held", "broken"}
  PROVE  Counted(SessionOf[h])'
<1> DEFINE s == SessionOf[h]
<1>1. s \in Sessions /\ OopOf[h] \in Oops
  BY ParametersAssumption
<1>2. /\ stage' = stage /\ state'[h] = "done" /\ \A g \in Handles \ {h} : state'[g] = state[g]
      /\ \/ counts[s][OopOf[h]] <= 1 /\ counts' = [counts EXCEPT ![s][OopOf[h]] = 0]
         \/ counts[s][OopOf[h]] > 1 /\ counts' = [counts EXCEPT ![s][OopOf[h]] = counts[s][OopOf[h]] - 1]
  BY DEF LetGo, TypeOK
<1> HIDE DEF s
<1>3. ASSUME NEW o \in Oops, stage[s] /= "closed" PROVE counts'[s][o] = Cardinality(Live(s, o)')
  <2>1. /\ IsFiniteSet(Live(s, o)) /\ counts[s][o] = Cardinality(Live(s, o))
        /\ Cardinality(Live(s, o)) \in Nat
    BY <1>1, <1>3, LiveFinite DEF Counted, s
  <2>2. CASE o = OopOf[h]
    <3>1. Live(s, o)' = Live(s, o) \ {h} /\ h \in Live(s, o)
      BY <1>2, <2>2 DEF Live, s
    <3>2. Cardinality(Live(s, o)') = counts[s][o] - 1 /\ Cardinality(Live(s, o)') \in Nat
      <4>1. Cardinality(Live(s, o) \ {h}) = Cardinality(Live(s, o)) - 1
        BY <2>1, <3>1, FS_RemoveElement
      <4>2. Cardinality(Live(s, o) \ {h}) \in Nat
        BY <2>1, FS_RemoveElement, FS_CardinalityType
      <4>3. QED
        BY <2>1, <3>1, <4>1, <4>2
    <3>3. CASE counts[s][o] <= 1
      <4>1. counts'[s][o] = 0
        BY <1>1, <1>2, <2>2, <3>3 DEF TypeOK
      <4>2. QED
        BY <2>1, <3>2, <3>3, <4>1
    <3>4. CASE counts[s][o] > 1
      <4>1. counts'[s][o] = counts[s][o] - 1
        BY <1>1, <1>2, <2>1, <2>2, <3>4 DEF TypeOK
      <4>2. QED
        BY <3>2, <4>1
    <3>5. QED
      BY <2>1, <3>3, <3>4
  <2>3. CASE o /= OopOf[h]
    <3>1. Live(s, o)' = Live(s, o)
      BY <1>2, <2>3 DEF Live
    <3>2. counts'[s][o] = counts[s][o]
      BY <1>1, <1>2, <2>3 DEF TypeOK
    <3>3. QED
      BY <2>1, <3>1, <3>2
  <2>4. QED
    BY <2>2, <2>3
<1>4. Counted(s)'
  BY <1>2, <1>3 DEF Counted
<1>5. QED
  BY <1>4 DEF s

-----------------------------------------------------------------------------
(* Protected                                                               *)

Guarded == \A s \in Sessions : Safe(s) /\ Counted(s)

OwnInv == TypeOK /\ Waiting /\ Owned /\ Guarded

LEMMA GuardedInit == Init => Guarded
<1>1. ASSUME Init, NEW s \in Sessions PROVE Safe(s)
  <2>1. chain[s] = <<>> /\ Len(chain[s]) = 0 /\ stage[s] = "new"
    BY <1>1 DEF Init
  <2>2. \A k \in 1 .. Len(chain[s]) : FALSE
    BY <2>1
  <2>3. QED
    BY <2>1, <2>2 DEF Safe, UsesGood, CountedGood, LogOutLast, OwnCalls
<1>2. ASSUME Init, NEW s \in Sessions PROVE Counted(s)
  <2>1. \A o \in Oops : Live(s, o) = {}
    BY <1>2 DEF Init, Live
  <2>2. QED
    BY <1>2, <2>1, FS_EmptySet DEF Init, Counted
<1>3. QED
  BY <1>1, <1>2 DEF Guarded

(* What the first call of a session does to its export set.                *)
LEMMA GuardedAdd ==
  ASSUME ~Shared, OwnInv, NEW s \in Sessions, Add(s)
  PROVE  Guarded'
<1> DEFINE j == Head(chain[s])
<1>1. /\ First(s, "add") /\ j.kind = "add" /\ j.of \in Handles
      /\ counts' = counts /\ stage' = stage /\ failed \subseteq failed'
      /\ \A t \in Sessions \ {s} : chain'[t] = chain[t]
  <2>1. First(s, "add") /\ counts' = counts /\ stage' = stage /\ failed \subseteq failed'
    BY DEF Add
  <2>2. QED
    BY <2>1, Dequeued, FirstHandle DEF OwnInv
<1>2. active[Library(s)] = s
  <2>1. chain[s] /= <<>>
    BY <1>1, Dequeued DEF OwnInv
  <2>2. QED
    BY <2>1, OwnLibrary DEF OwnInv, Owned, Own
<1>3. SessionOf[j.of] = s
  <2>1. chain[s] \in Seq(Jobs) /\ chain[s] /= <<>>
    BY <1>1, Dequeued DEF OwnInv, TypeOK
  <2>2. 1 \in 1 .. Len(chain[s]) /\ j = chain[s][1]
    BY <2>1, TailPositions
  <2>3. QED
    BY <1>1, <2>2 DEF OwnInv, Guarded, Safe, OwnCalls
<1>4. \/ exports' = [exports EXCEPT ![s] = @ \cup {OopOf[j.of]}]
      \/ exports' = exports /\ <<"add", j.of>> \in failed'
  BY <1>2 DEF Add
<1>5. /\ \A o \in Oops :
           \/ AddFailed(s, o)'
           \/ (o \in exports[s] => o \in exports'[s]) /\ (Adds(j, o) => o \in exports'[s])
      /\ \A t \in Sessions \ {s} : exports'[t] = exports[t]
  <2>1. CASE exports' = [exports EXCEPT ![s] = @ \cup {OopOf[j.of]}]
    BY <2>1 DEF OwnInv, TypeOK, Adds, Does
  <2>2. CASE exports' = exports /\ <<"add", j.of>> \in failed'
    <3>1. ASSUME NEW o \in Oops, Adds(j, o) PROVE AddFailed(s, o)'
      <4>1. PICK h \in Handles : h = j.of
        BY <1>1
      <4>2. <<"add", h>> \in failed' /\ SessionOf[h] = s /\ OopOf[h] = o
        BY <1>3, <2>2, <3>1, <4>1 DEF Adds, Does
      <4>3. QED
        BY <4>2 DEF AddFailed
    <3>2. QED
      BY <2>2, <3>1
  <2>3. QED
    BY <1>4, <2>1, <2>2
<1>6. Safe(s)'
  BY <1>1, <1>5, SafeAfterFirst DEF OwnInv, Guarded
<1>7. \A t \in Sessions \ {s} : Safe(t)'
  BY <1>1, <1>5, SafeElsewhere DEF OwnInv, Guarded
<1>8. \A t \in Sessions : Counted(t)'
  <2>1. \A h \in Handles : (state'[h] \in {"retaining", "held", "broken"}) <=>
                           (state[h] \in {"retaining", "held", "broken"})
    BY DEF Add, OwnInv, TypeOK
  <2>2. QED
    BY <1>1, <2>1, CountedSame DEF OwnInv, Guarded
<1>9. QED
  BY <1>6, <1>7, <1>8 DEF Guarded

LEMMA GuardedRemove ==
  ASSUME ~Shared, OwnInv, NEW s \in Sessions, Remove(s)
  PROVE  Guarded'
<1> DEFINE j == Head(chain[s])
<1>1. /\ First(s, "remove") /\ j.kind = "remove"
      /\ counts' = counts /\ stage' = stage /\ failed \subseteq failed' /\ state' = state
      /\ \A t \in Sessions \ {s} : chain'[t] = chain[t]
      /\ chain[s] /= <<>>
  <2>1. First(s, "remove") /\ counts' = counts /\ stage' = stage /\ failed \subseteq failed' /\ state' = state
    BY DEF Remove
  <2>2. QED
    BY <2>1, Dequeued DEF OwnInv
<1>2. active[Library(s)] = s
  BY <1>1, OwnLibrary DEF OwnInv, Owned, Own
<1>3. \/ exports' = [exports EXCEPT ![s] = @ \ {OopOf[j.of]}]
      \/ exports' = exports
  BY <1>2 DEF Remove
<1>4. /\ \A o \in Oops :
           /\ (o \in exports[s] /\ ~Removes(j, o)) => o \in exports'[s]
           /\ ~Adds(j, o)
      /\ \A t \in Sessions \ {s} : exports'[t] = exports[t]
  BY <1>1, <1>3 DEF OwnInv, TypeOK, Adds, Removes, Does
<1>5. Safe(s)'
  BY <1>1, <1>4, SafeAfterFirst DEF OwnInv, Guarded
<1>6. \A t \in Sessions \ {s} : Safe(t)'
  BY <1>1, <1>4, SafeElsewhere DEF OwnInv, Guarded
<1>7. \A t \in Sessions : Counted(t)'
  BY <1>1, CountedSame DEF OwnInv, Guarded
<1>8. QED
  BY <1>5, <1>6, <1>7 DEF Guarded

LEMMA GuardedUse ==
  ASSUME OwnInv, NEW s \in Sessions, Use(s)
  PROVE  Guarded'
<1> DEFINE j == Head(chain[s])
<1>1. /\ First(s, "use") /\ j.kind = "use"
      /\ UNCHANGED <<counts, stage, failed, state, exports>>
      /\ \A t \in Sessions \ {s} : chain'[t] = chain[t]
  <2>1. First(s, "use") /\ UNCHANGED <<counts, stage, failed, state, exports>>
    BY DEF Use
  <2>2. QED
    BY <2>1, Dequeued DEF OwnInv
<1>2. \A o \in Oops : ~Adds(j, o)
  BY <1>1 DEF Adds, Does
<1>3. Safe(s)'
  BY <1>1, <1>2, SafeAfterFirst DEF OwnInv, Guarded
<1>4. \A t \in Sessions \ {s} : Safe(t)'
  BY <1>1, SafeElsewhere DEF OwnInv, Guarded
<1>5. \A t \in Sessions : Counted(t)'
  BY <1>1, CountedSame DEF OwnInv, Guarded
<1>6. QED
  BY <1>3, <1>4, <1>5 DEF Guarded

(* After a logout no message is left.                                      *)
LEMMA GuardedLogOut ==
  ASSUME ~Shared, OwnInv, NEW s \in Sessions, LogOut(s)
  PROVE  Guarded'
<1>1. /\ First(s, "logout") /\ Head(chain[s]).kind = "logout"
      /\ failed' = failed /\ state' = state
      /\ chain'[s] = Tail(chain[s]) /\ chain[s] /= <<>> /\ chain[s] \in Seq(Jobs)
      /\ \A t \in Sessions \ {s} : chain'[t] = chain[t]
  <2>1. First(s, "logout") /\ failed' = failed /\ state' = state
    BY DEF LogOut
  <2>2. QED
    BY <2>1, Dequeued DEF OwnInv, TypeOK
<1>2. active[Library(s)] = s
  BY <1>1, OwnLibrary DEF OwnInv, Owned, Own
<1>3. /\ \A t \in Sessions \ {s} :
           exports'[t] = exports[t] /\ counts'[t] = counts[t] /\ stage'[t] = stage[t]
      /\ stage'[s] = "closed"
  BY <1>2 DEF LogOut, OwnInv, TypeOK
<1>4. Safe(s)'
  <2>1. PICK n \in Nat \ {0} : n = Len(chain[s])
    BY <1>1, TailPositions
  <2>2. /\ Len(chain'[s]) = n - 1 /\ 1 \in 1 .. n /\ Head(chain[s]) = chain[s][1]
        /\ \A i \in 1 .. n - 1 : chain'[s][i] = chain[s][i + 1] /\ i + 1 \in 2 .. n /\ i + 1 \in 1 .. n
    <3>1. \A i \in 1 .. n - 1 : i + 1 \in 2 .. n /\ i + 1 \in 1 .. n
      BY <2>1
    <3>2. QED
      BY <1>1, <2>1, <3>1, TailPositions
  <2>3. \A i \in 1 .. n - 1 : chain'[s][i].kind /= "use"
    <3>1. \A m \in 1 + 1 .. n : chain[s][m].kind /= "use"
      BY <1>1, <2>1, <2>2 DEF OwnInv, Guarded, Safe, LogOutLast
    <3>2. QED
      BY <2>2, <3>1
  <2>4. UsesGood(s)' /\ LogOutLast(s)'
    <3>1. UsesGood(s)'
      BY <2>2, <2>3 DEF UsesGood
    <3>2. \A k \in 1 .. n - 1 : \A m \in k + 1 .. n - 1 : m \in 1 .. n - 1
      BY <2>1
    <3>3. LogOutLast(s)'
      BY <1>3, <2>2, <2>3, <3>2 DEF LogOutLast
    <3>4. QED
      BY <3>1, <3>3
  <2>5. OwnCalls(s)'
    BY <2>1, <2>2 DEF OwnCalls, OwnInv, Guarded, Safe
  <2>6. CountedGood(s)'
    BY <1>3 DEF CountedGood
  <2>7. QED
    BY <2>4, <2>5, <2>6 DEF Safe
<1>5. \A t \in Sessions \ {s} : Safe(t)'
  BY <1>1, <1>3, SafeElsewhere DEF OwnInv, Guarded
<1>6. \A t \in Sessions \ {s} : Counted(t)'
  BY <1>1, <1>3, CountedSame DEF OwnInv, Guarded
<1>7. Counted(s)'
  BY <1>3 DEF Counted
<1>8. QED
  BY <1>4, <1>5, <1>6, <1>7 DEF Guarded

LEMMA GuardedRetain ==
  ASSUME OwnInv, NEW h \in Handles, Retain(h)
  PROVE  Guarded'
<1> DEFINE s == SessionOf[h]
           c == counts[s][OopOf[h]]
<1>1. s \in Sessions /\ OopOf[h] \in Oops
  BY ParametersAssumption
<1>2. c \in Nat
  BY <1>1 DEF OwnInv, TypeOK
<1>3. /\ stage[s] = "open" /\ UNCHANGED <<stage, exports, failed>>
      /\ counts' = [counts EXCEPT ![s][OopOf[h]] = c + 1]
      /\ \A g \in Handles \ {h} : state'[g] = state[g]
      /\ \A t \in Sessions \ {s} : counts'[t] = counts[t] /\ chain'[t] = chain[t]
      /\ \A o \in Oops \ {OopOf[h]} : counts'[s][o] = counts[s][o]
  BY <1>1 DEF Retain, Enqueue, OwnInv, TypeOK, native
<1>4. Safe(s)'
  <2>1. CASE c = 0 /\ Enqueue(s, "add", h)
    <3>1. \A o \in Oops : counts'[s][o] > 0 => OopOf[h] = o \/ counts[s][o] > 0
      BY <1>3
    <3>2. Safe(s)
      BY <1>1 DEF OwnInv, Guarded
    <3>3. \A o \in Oops :
            counts'[s][o] > 0 => \/ "add" = "add" /\ OopOf[h] = o
                                 \/ counts[s][o] > 0 /\ ~("add" = "remove" /\ OopOf[h] = o)
      BY <3>1
    <3>4. [kind |-> "add", of |-> h] \in Jobs
      BY JobType
    <3>5. "add" /= "use" /\ "add" /= "logout"
      OBVIOUS
    <3>6. TypeOK /\ stage' = stage /\ exports' = exports /\ failed' = failed
      BY <1>3 DEF OwnInv
    <3>7. QED
      BY <1>1, <1>3, <2>1, <3>2, <3>3, <3>4, <3>5, <3>6, SafeAfterEnqueue
  <2>2. CASE c > 0 /\ UNCHANGED chain
    <3>1. \A o \in Oops : counts'[s][o] > 0 => counts[s][o] > 0
      BY <1>3, <2>2
    <3>2. UsesGood(s)'
      BY <1>1, <1>3, <2>2, GoodGrows DEF UsesGood, OwnInv, Guarded, Safe
    <3>3. CountedGood(s)'
      BY <1>1, <1>3, <2>2, <3>1, GoodGrows DEF CountedGood, OwnInv, Guarded, Safe
    <3>4. LogOutLast(s)' /\ OwnCalls(s)'
      BY <1>1, <1>3, <2>2 DEF LogOutLast, OwnCalls, OwnInv, Guarded, Safe
    <3>5. QED
      BY <3>2, <3>3, <3>4 DEF Safe
  <2>3. QED
    BY <2>1, <2>2 DEF Retain
<1>5. \A t \in Sessions \ {s} : Safe(t)'
  BY <1>3, SafeElsewhere DEF OwnInv, Guarded
<1>6. Counted(s)'
  BY <1>1, CountedRetain DEF OwnInv, Guarded
<1>7. \A t \in Sessions \ {s} : Counted(t)'
  BY <1>3, CountedElsewhere DEF OwnInv, Guarded
<1>8. QED
  BY <1>4, <1>5, <1>6, <1>7 DEF Guarded

LEMMA GuardedSend ==
  ASSUME OwnInv, NEW h \in Handles, Send(h)
  PROVE  Guarded'
<1> DEFINE s == SessionOf[h]
           o == OopOf[h]
<1>1. s \in Sessions /\ o \in Oops /\ Safe(s) /\ Counted(s)
  BY ParametersAssumption DEF OwnInv, Guarded
<1>2. /\ stage[s] = "open" /\ state[h] = "held" /\ Enqueue(s, "use", h)
      /\ UNCHANGED <<stage, exports, counts, state, failed>>
      /\ \A t \in Sessions \ {s} : chain'[t] = chain[t]
  BY DEF Send, Enqueue, OwnInv, TypeOK, native, handles
<1>3. counts[s][o] > 0
  <2>1. h \in Live(s, o)
    BY <1>2 DEF Live
  <2>2. Cardinality(Live(s, o)) \in Nat /\ Cardinality(Live(s, o)) /= 0
    BY <1>1, <2>1, LiveFinite, FS_EmptySet
  <2>3. counts[s][o] = Cardinality(Live(s, o))
    BY <1>1, <1>2 DEF Counted
  <2>4. QED
    BY <2>2, <2>3
<1>4. Safe(s)'
  <2>1. \A p \in Oops :
          counts'[s][p] > 0 => \/ "use" = "add" /\ OopOf[h] = p
                               \/ counts[s][p] > 0 /\ ~("use" = "remove" /\ OopOf[h] = p)
    BY <1>2
  <2>2. [kind |-> "use", of |-> h] \in Jobs
    BY JobType
  <2>3. "use" /= "logout"
    OBVIOUS
  <2>4. TypeOK /\ stage' = stage /\ exports' = exports /\ failed' = failed
    BY <1>2 DEF OwnInv
  <2>5. QED
    BY <1>1, <1>2, <1>3, <2>1, <2>2, <2>3, <2>4, SafeAfterEnqueue
<1>5. \A t \in Sessions \ {s} : Safe(t)'
  BY <1>2, SafeElsewhere DEF OwnInv, Guarded
<1>6. \A t \in Sessions : Counted(t)'
  BY <1>2, CountedSame DEF OwnInv, Guarded
<1>7. QED
  BY <1>4, <1>5, <1>6 DEF Guarded

LEMMA GuardedLetGo ==
  ASSUME OwnInv, NEW h \in Handles, LetGo(h), state[h] \in {"retaining", "held", "broken"}
  PROVE  Guarded'
<1> DEFINE s == SessionOf[h]
           c == counts[s][OopOf[h]]
<1>1. s \in Sessions /\ OopOf[h] \in Oops
  BY ParametersAssumption
<1>2. c \in Nat
  BY <1>1 DEF OwnInv, TypeOK
<1>3. /\ UNCHANGED <<stage, exports, failed>>
      /\ \A g \in Handles \ {h} : state'[g] = state[g]
      /\ \A t \in Sessions \ {s} : counts'[t] = counts[t] /\ chain'[t] = chain[t]
      /\ \A o \in Oops \ {OopOf[h]} : counts'[s][o] = counts[s][o]
  BY <1>1 DEF LetGo, Enqueue, OwnInv, TypeOK, native
<1>4. Safe(s)'
  <2>1. CASE Enqueue(s, "remove", h) /\ counts' = [counts EXCEPT ![s][OopOf[h]] = 0]
    <3>1. counts'[s][OopOf[h]] = 0
      BY <1>1, <2>1 DEF OwnInv, TypeOK
    <3>2. \A o \in Oops : counts'[s][o] > 0 => counts[s][o] > 0 /\ OopOf[h] /= o
      BY <1>3, <3>1
    <3>3. Safe(s)
      BY <1>1 DEF OwnInv, Guarded
    <3>4. QED
      BY <1>1, <1>3, <2>1, <3>2, <3>3, JobType, SafeAfterEnqueue DEF OwnInv
  <2>2. CASE c > 1 /\ UNCHANGED chain
    <3>1. \A o \in Oops : counts'[s][o] > 0 => counts[s][o] > 0
      BY <1>2, <1>3, <2>2
    <3>2. UsesGood(s)'
      BY <1>1, <1>3, <2>2, GoodGrows DEF UsesGood, OwnInv, Guarded, Safe
    <3>3. CountedGood(s)'
      BY <1>1, <1>3, <2>2, <3>1, GoodGrows DEF CountedGood, OwnInv, Guarded, Safe
    <3>4. LogOutLast(s)' /\ OwnCalls(s)'
      BY <1>1, <1>3, <2>2 DEF LogOutLast, OwnCalls, OwnInv, Guarded, Safe
    <3>5. QED
      BY <3>2, <3>3, <3>4 DEF Safe
  <2>3. QED
    BY <2>1, <2>2 DEF LetGo
<1>5. \A t \in Sessions \ {s} : Safe(t)'
  BY <1>3, SafeElsewhere DEF OwnInv, Guarded
<1>6. Counted(s)'
  BY <1>1, CountedLetGo DEF OwnInv, Guarded
<1>7. \A t \in Sessions \ {s} : Counted(t)'
  BY <1>3, CountedElsewhere DEF OwnInv, Guarded
<1>8. QED
  BY <1>4, <1>5, <1>6, <1>7 DEF Guarded

LEMMA GuardedAskLogOut ==
  ASSUME OwnInv, NEW s \in Sessions, AskLogOut(s)
  PROVE  Guarded'
<1>1. /\ stage[s] = "open" /\ stage'[s] = "closing" /\ Enqueue(s, "logout", None)
      /\ UNCHANGED <<exports, counts, state, failed>>
      /\ \A t \in Sessions \ {s} : stage'[t] = stage[t] /\ chain'[t] = chain[t]
  BY DEF AskLogOut, Enqueue, OwnInv, TypeOK, native, handles
<1>2. Safe(s)'
  <2>1. Safe(s)
    BY DEF OwnInv, Guarded
  <2>2. QED
    BY <1>1, <2>1, JobType, SafeAfterEnqueue DEF OwnInv
<1>3. \A t \in Sessions \ {s} : Safe(t)'
  BY <1>1, SafeElsewhere DEF OwnInv, Guarded
<1>4. \A t \in Sessions : Counted(t)'
  BY <1>1, CountedSame DEF OwnInv, Guarded
<1>5. QED
  BY <1>2, <1>3, <1>4 DEF Guarded

(* Connecting touches neither a chain nor a handle.                        *)
LEMMA GuardedConnect ==
  ASSUME OwnInv, NEW s \in Sessions, SetNet(s) \/ LogIn(s) \/ Bind(s) \/ Activate(s)
  PROVE  Guarded'
<1>1. /\ UNCHANGED <<chain, exports, counts, state, failed>>
      /\ \A t \in Sessions \ {s} : stage'[t] = stage[t]
  BY DEF SetNet, LogIn, Bind, Activate, OwnInv, TypeOK, native, runtimes, handles
<1>2. CASE stage'[s] = stage[s]
  BY <1>1, <1>2, SafeElsewhere, CountedSame DEF OwnInv, Guarded
<1>3. CASE stage'[s] /= stage[s]
  <2>1. stage[s] \in {"new", "net", "in"} /\ stage'[s] /= "closed"
    BY <1>3 DEF SetNet, LogIn, Bind, Activate, OwnInv, TypeOK
  <2>2. chain[s] = <<>>
    BY <2>1 DEF OwnInv, Owned, Own, Late
  <2>3. \A o \in Oops : counts[s][o] = 0
    <3>1. \A o \in Oops : Live(s, o) = {}
      BY <2>1 DEF Live, OwnInv, Owned, Late
    <3>2. QED
      BY <2>1, <3>1, FS_EmptySet DEF OwnInv, Guarded, Counted
  <2>4. \A k \in 1 .. Len(chain'[s]) : FALSE
    <3>1. chain'[s] = <<>> /\ Len(<<>>) = 0
      BY <1>1, <2>2
    <3>2. QED
      BY <3>1
  <2>5. CountedGood(s)'
    BY <1>1, <2>3 DEF CountedGood
  <2>6. Safe(s)'
    BY <2>4, <2>5 DEF Safe, UsesGood, LogOutLast, OwnCalls
  <2>7. \A t \in Sessions \ {s} : Safe(t)'
    BY <1>1, SafeElsewhere DEF OwnInv, Guarded
  <2>8. \A t \in Sessions : Counted(t)'
    BY <1>1, <2>1, CountedSame DEF OwnInv, Guarded
  <2>9. QED
    BY <2>6, <2>7, <2>8 DEF Guarded
<1>4. QED
  BY <1>2, <1>3

LEMMA GuardedStep == ASSUME ~Shared, OwnInv, [Next]_vars PROVE Guarded'
<1>1. CASE UNCHANGED vars
  BY <1>1, SafeElsewhere, CountedSame DEF vars, native, runtimes, handles, OwnInv, Guarded
<1>2. ASSUME NEW h \in Handles, Release(h) PROVE Guarded'
  BY <1>2, SafeElsewhere, CountedSame DEF Release, native, runtimes, OwnInv, Guarded
<1>3. ASSUME NEW h \in Handles, Released(h) \/ Collected(h) PROVE Guarded'
  BY <1>3, GuardedLetGo DEF Released, Collected
<1>4. QED
  BY <1>1, <1>2, <1>3, GuardedConnect, GuardedAdd, GuardedRemove, GuardedUse, GuardedLogOut,
     GuardedAskLogOut, GuardedRetain, GuardedSend DEF Next

LEMMA GuardedProtects == ASSUME ~Shared, OwnInv PROVE Protected
<1>1. SUFFICES ASSUME NEW s \in Sessions, activated[s], Head(chain[s]).kind = "use"
               PROVE  OopOf[Head(chain[s]).of] \in exports[s] \/ AddFailed(s, OopOf[Head(chain[s]).of])
  BY DEF Protected
<1>2. chain[s] \in Seq(Jobs) /\ chain[s] /= <<>>
  BY <1>1 DEF OwnInv, Waiting, TypeOK
<1>3. 1 \in 1 .. Len(chain[s]) /\ Head(chain[s]) = chain[s][1] /\ Head(chain[s]) \in Jobs
  BY <1>2, TailPositions
<1>4. PICK o \in Oops : o = OopOf[Head(chain[s]).of]
  BY <1>1, <1>3, JobFields, ParametersAssumption
<1>5. Good(s, 1, o)
  BY <1>1, <1>3, <1>4 DEF OwnInv, Guarded, Safe, UsesGood
<1>6. \A i \in 1 .. 1 - 1 : FALSE
  OBVIOUS
<1>7. QED
  BY <1>4, <1>5, <1>6 DEF Good, CallsKept, Stays

LEMMA AlwaysGuarded == ASSUME ~Shared PROVE Spec => []OwnInv
<1>1. Init => OwnInv
  BY TypeInit, OwnedInit, GuardedInit DEF OwnInv
<1>2. OwnInv /\ [Next]_vars => OwnInv'
  <2>1. SUFFICES ASSUME OwnInv, [Next]_vars PROVE OwnInv'
    OBVIOUS
  <2>2. TypeOK' /\ Waiting' /\ Owned'
    BY <2>1, TypeStep, WaitingStep, OwnedStep DEF OwnInv
  <2>3. Guarded'
    BY <2>1, GuardedStep
  <2>4. QED
    BY <2>2, <2>3 DEF OwnInv
<1>3. QED
  BY <1>1, <1>2, PTL DEF Spec

(* With a library for each session, a message finds its object in the      *)
(* export set, unless an addition of it failed: the order of the chain     *)
(* makes up for the counts being changed before the calls they stand for.  *)
THEOREM SerializedProtected == ASSUME ~Shared PROVE Spec => []Protected
BY AlwaysGuarded, GuardedProtects, PTL
-----------------------------------------------------------------------------
(* Nothing leaks                                                           *)

RemoveFailed(s, o) ==
  \E h \in Handles : <<"remove", h>> \in failed /\ SessionOf[h] = s /\ OopOf[h] = o

Absent(s, k, o) == Gone(chain[s], k, o, exports[s])

(* The handles of waiting calls have been retained.                        *)
Known(s) ==
  \A k \in 1 .. Len(chain[s]) : chain[s][k].kind /= "logout" => state[chain[s][k].of] /= "none"

(* Of a handle that is being retained the addition waits, and nothing that *)
(* waits behind it adds or removes its object.                             *)
Asked(s) ==
  \A h \in Handles :
    SessionOf[h] = s /\ state[h] = "retaining" =>
      \E k \in 1 .. Len(chain[s]) : chain[s][k].kind = "add" /\ chain[s][k].of = h

Latest(s) ==
  \A k \in 1 .. Len(chain[s]), h \in Handles :
    chain[s][k].kind = "add" /\ chain[s][k].of = h /\ state[h] = "retaining" =>
      \A m \in k + 1 .. Len(chain[s]) :
        ~Adds(chain[s][m], OopOf[h]) /\ ~Removes(chain[s][m], OopOf[h])

(* An object is added when it is not there, and when all calls have been   *)
(* made it is not there, or for a live handle.                             *)
AddsAbsent(s, o) == \A k \in 1 .. Len(chain[s]) : Adds(chain[s][k], o) => Absent(s, k, o)

EndsHeld(s, o) ==
  \A k \in Nat : k = Len(chain[s]) + 1 =>
    \/ Absent(s, k, o)
    \/ Live(s, o) /= {} /\ \A h \in Live(s, o) : state[h] /= "broken"

Clean(s, o) == RemoveFailed(s, o) \/ (AddsAbsent(s, o) /\ EndsHeld(s, o))

Tidy(s) ==
  /\ stage[s] = "open" => Known(s) /\ Asked(s) /\ Latest(s) /\ \A o \in Oops : Clean(s, o)
  /\ stage[s] \notin Late => exports[s] = {}

Tidied == \A s \in Sessions : Tidy(s)

LEMMA CleanSame ==
  ASSUME NEW s \in Sessions, NEW o, Clean(s, o), chain'[s] = chain[s], exports'[s] = exports[s],
         failed \subseteq failed',
         Live(s, o)' = Live(s, o), \A h \in Live(s, o) : state'[h] = state[h]
  PROVE  Clean(s, o)'
<1>1. RemoveFailed(s, o) => RemoveFailed(s, o)'
  BY DEF RemoveFailed
<1>2. \A k : Absent(s, k, o) => Absent(s, k, o)'
  BY DEF Absent
<1>3. AddsAbsent(s, o) => AddsAbsent(s, o)'
  BY <1>2 DEF AddsAbsent
<1>4. EndsHeld(s, o) => EndsHeld(s, o)'
  BY <1>2 DEF EndsHeld
<1>5. QED
  BY <1>1, <1>3, <1>4 DEF Clean

(* A step of another session, or one that makes no call and changes no     *)
(* handle.                                                                 *)
LEMMA TidyElsewhere ==
  ASSUME NEW s \in Sessions, Tidy(s), OwnCalls(s), TypeOK,
         chain'[s] = chain[s], exports'[s] = exports[s],
         failed \subseteq failed', stage'[s] = stage[s],
         \A h \in Handles : SessionOf[h] = s => state'[h] = state[h]
  PROVE  Tidy(s)'
<1>1. \A o \in Oops : Live(s, o)' = Live(s, o) /\ \A h \in Live(s, o) : state'[h] = state[h]
  BY DEF Live
<1>2. \A o \in Oops : Clean(s, o) => Clean(s, o)'
  BY <1>1, CleanSame
<1>3. Asked(s) => Asked(s)'
  BY DEF Asked
<1>4. \A k \in 1 .. Len(chain[s]) : chain[s][k] \in Jobs
  BY DEF TypeOK
<1>5. Known(s) => Known(s)'
  BY <1>4, JobFields DEF Known, OwnCalls
<1>6. Latest(s) => Latest(s)'
  BY <1>4, JobFields DEF Latest, OwnCalls
<1>7. QED
  BY <1>2, <1>3, <1>5, <1>6 DEF Tidy

(* A handle that gets or gives up a reference which is not the only one.   *)
LEMMA TidyWithOthers ==
  ASSUME TypeOK, NEW h \in Handles, NEW s \in Sessions, SessionOf[h] = s, Tidy(s), stage[s] = "open",
         chain'[s] = chain[s], exports'[s] = exports[s], failed' = failed, stage'[s] = stage[s],
         state'[h] \in {"held", "done"}, \A g \in Handles \ {h} : state'[g] = state[g],
         Live(s, OopOf[h])' /= {}
  PROVE  Tidy(s)'
<1>1. Known(s)' /\ Asked(s)' /\ Latest(s)'
  <2>1. \A k \in 1 .. Len(chain[s]) : chain[s][k] \in Jobs
    BY DEF TypeOK
  <2>2. Known(s)'
    BY <2>1, JobFields DEF Tidy, Known
  <2>3. \A g \in Handles : state'[g] = "retaining" => state[g] = "retaining"
    OBVIOUS
  <2>4. Asked(s)' /\ Latest(s)'
    BY <2>3 DEF Tidy, Asked, Latest
  <2>5. QED
    BY <2>2, <2>4
<1>2. ASSUME NEW o \in Oops PROVE Clean(s, o)'
  <2>1. CASE o /= OopOf[h]
    <3>1. Live(s, o)' = Live(s, o) /\ \A g \in Live(s, o) : state'[g] = state[g]
      BY <2>1 DEF Live
    <3>2. QED
      BY <3>1, CleanSame DEF Tidy
  <2>2. CASE o = OopOf[h]
    <3>1. \A k : Absent(s, k, o) => Absent(s, k, o)'
      BY DEF Absent
    <3>2. \A g \in Live(s, o)' : g = h \/ (g \in Live(s, o) /\ g \in Handles \ {h})
      BY DEF Live
    <3>3. EndsHeld(s, o) => EndsHeld(s, o)'
      BY <2>2, <3>1, <3>2 DEF EndsHeld
    <3>4. AddsAbsent(s, o) => AddsAbsent(s, o)'
      BY <3>1 DEF AddsAbsent
    <3>5. RemoveFailed(s, o) => RemoveFailed(s, o)'
      BY DEF RemoveFailed
    <3>6. QED
      BY <3>3, <3>4, <3>5 DEF Tidy, Clean
  <2>3. QED
    BY <2>1, <2>2
<1>3. QED
  BY <1>1, <1>2 DEF Tidy, Late

(* The first call is made.                                                 *)
LEMMA TidyAfterFirst ==
  ASSUME TypeOK, Waiting, NEW s \in Sessions, Tidy(s), OwnCalls(s), stage[s] = "open",
         NEW kind \in {"add", "remove", "use"}, First(s, kind),
         failed \subseteq failed', stage'[s] = stage[s],
         NEW h \in Handles, h = Head(chain[s]).of, \A g \in Handles \ {h} : state'[g] = state[g],
         \/ state'[h] = state[h] /\ (kind = "add" => state[h] /= "retaining")
         \/ kind = "add" /\ state[h] = "retaining" /\ state'[h] = "held"
         \/ kind = "add" /\ state[h] = "retaining" /\ state'[h] = "broken" /\ exports'[s] = exports[s],
         \A o \in Oops :
           \/ RemoveFailed(s, o)'
           \/ /\ o \notin exports[s] /\ ~Adds(Head(chain[s]), o) => o \notin exports'[s]
              /\ Removes(Head(chain[s]), o) => o \notin exports'[s]
  PROVE  Tidy(s)'
<1> DEFINE q == chain[s]
<1>0. PICK n \in Nat : n = Len(q)
  BY DEF TypeOK
<1>1. q \in Seq(Jobs) /\ q /= <<>> /\ chain'[s] = Tail(q)
  BY Dequeued DEF TypeOK
<1>2. /\ n \in Nat \ {0} /\ Len(chain'[s]) = n - 1 /\ Head(q) = q[1] /\ 1 \in 1 .. n
      /\ \A i \in 1 .. n - 1 : chain'[s][i] = q[i + 1] /\ i + 1 \in 2 .. n + 1 /\ i + 1 \in 1 .. n
  <2>1. /\ n \in Nat \ {0} /\ Len(chain'[s]) = n - 1 /\ Head(q) = q[1]
        /\ \A i \in 1 .. n - 1 : chain'[s][i] = q[i + 1]
    BY <1>0, <1>1, TailPositions
  <2>2. 1 \in 1 .. n /\ \A i \in 1 .. n - 1 : i + 1 \in 2 .. n + 1 /\ i + 1 \in 1 .. n
    BY <2>1
  <2>3. QED
    BY <2>1, <2>2
<1>3. /\ q[1].kind = kind /\ q[1].of = h /\ SessionOf[h] = s
      /\ \A k \in 1 .. n : q[k] \in Jobs
  <2>1. Head(q).kind = kind
    BY Dequeued
  <2>2. \A k \in 1 .. n : q[k] \in Jobs
    BY <1>0, <1>1
  <2>3. QED
    BY <1>0, <1>2, <2>1, <2>2 DEF OwnCalls
<1>4. Known(s)'
  BY <1>0, <1>2, <1>3, JobFields DEF Tidy, Known
<1>5. Asked(s)'
  <2>1. SUFFICES ASSUME NEW g \in Handles, SessionOf[g] = s, state'[g] = "retaining"
                 PROVE  \E k \in 1 .. n - 1 : chain'[s][k].kind = "add" /\ chain'[s][k].of = g
    BY <1>2 DEF Asked
  <2>2. state[g] = "retaining" /\ ~(g = h /\ kind = "add")
    BY <2>1
  <2>3. PICK k \in 1 .. n : q[k].kind = "add" /\ q[k].of = g
    BY <1>0, <2>1, <2>2 DEF Tidy, Asked
  <2>4. k /= 1
    BY <1>3, <2>2, <2>3
  <2>5. k - 1 \in 1 .. n - 1 /\ (k - 1) + 1 = k
    BY <2>4
  <2>6. QED
    BY <1>2, <2>3, <2>5
<1>6. Latest(s)'
  <2>1. SUFFICES ASSUME NEW i \in 1 .. n - 1, NEW g \in Handles, chain'[s][i].kind = "add",
                        chain'[s][i].of = g, state'[g] = "retaining", NEW m \in i + 1 .. n - 1
                 PROVE  ~Adds(chain'[s][m], OopOf[g]) /\ ~Removes(chain'[s][m], OopOf[g])
    <3>1. \A i \in 1 .. Len(chain'[s]), m \in Int : m \in i + 1 .. Len(chain'[s]) => m \in i + 1 .. n - 1
      BY <1>2
    <3>2. QED
      BY <1>2, <3>1 DEF Latest
  <2>2. state[g] = "retaining"
    BY <2>1
  <2>3. m \in 1 .. n - 1 /\ m + 1 \in (i + 1) + 1 .. n
    BY <1>2
  <2>4. QED
    BY <1>0, <1>2, <2>1, <2>2, <2>3 DEF Tidy, Latest
<1>7. ASSUME NEW o \in Oops, ~RemoveFailed(s, o)' PROVE AddsAbsent(s, o)' /\ EndsHeld(s, o)'
  <2>1. AddsAbsent(s, o) /\ EndsHeld(s, o)
    BY <1>7 DEF Tidy, Clean, RemoveFailed
  <2>2. \A k \in 2 .. n + 1 : Absent(s, k, o) => Absent(s, k - 1, o)'
    <3>1. /\ (o \in Oops \ exports[s] /\ ~Does(Head(q), "add", o)) => o \in Oops \ exports'[s]
          /\ Does(Head(q), "remove", o) => o \in Oops \ exports'[s]
      BY <1>7 DEF Adds, Removes
    <3>2. \A k \in 2 .. n + 1 : Gone(q, k, o, exports[s]) => Gone(Tail(q), k - 1, o, exports'[s])
      BY <1>0, <1>1, <3>1, StaysLater DEF Gone
    <3>3. QED
      BY <1>1, <3>2 DEF Absent
  <2>3. AddsAbsent(s, o)'
    <3>1. SUFFICES ASSUME NEW i \in 1 .. n - 1, Adds(chain'[s][i], o) PROVE Absent(s, i, o)'
      BY <1>2 DEF AddsAbsent, Adds, Does
    <3>2. Absent(s, i + 1, o) /\ (i + 1) - 1 = i
      BY <1>0, <1>2, <2>1, <3>1 DEF AddsAbsent
    <3>3. Absent(s, (i + 1) - 1, o)'
      BY <1>2, <2>2, <3>2
    <3>4. QED
      BY <3>2, <3>3
  <2>4. EndsHeld(s, o)'
    <3>1. SUFFICES \/ Absent(s, n, o)'
                   \/ Live(s, o)' /= {} /\ \A g \in Live(s, o)' : state'[g] /= "broken"
      <4>1. \A k \in Nat : k = Len(chain'[s]) + 1 => k = n
        BY <1>2
      <4>2. QED
        BY <4>1 DEF EndsHeld
    <3>2. n + 1 \in Nat /\ n + 1 \in 2 .. n + 1 /\ (n + 1) - 1 = n
      BY <1>2
    <3>3. CASE Absent(s, n + 1, o)
      <4>1. Absent(s, (n + 1) - 1, o)'
        BY <2>2, <3>2, <3>3
      <4>2. QED
        BY <3>2, <4>1
    <3>4. CASE Live(s, o) /= {} /\ \A g \in Live(s, o) : state[g] /= "broken"
      <4>1. Live(s, o)' = Live(s, o)
        BY DEF Live
      <4>2. CASE ~(h \in Live(s, o) /\ state'[h] = "broken")
        BY <3>4, <4>1, <4>2 DEF Live
      <4>3. CASE h \in Live(s, o) /\ state'[h] = "broken"
        <5>1. kind = "add" /\ state[h] = "retaining" /\ exports'[s] = exports[s] /\ OopOf[h] = o
          BY <3>4, <4>3 DEF Live
        <5>2. Adds(q[1], o) /\ \A m \in 1 + 1 .. n : ~Adds(q[m], o)
          BY <1>0, <1>2, <1>3, <5>1 DEF Tidy, Latest, Adds, Does
        <5>3. Absent(s, 1, o)
          BY <1>0, <1>2, <2>1, <5>2 DEF AddsAbsent
        <5>4. o \notin exports[s]
          <6>1. \A i \in 1 .. 1 - 1 : FALSE
            OBVIOUS
          <6>2. QED
            BY <5>3, <6>1 DEF Absent, Gone, Stays
        <5>5. \A i \in 1 .. n - 1 : ~Does(chain'[s][i], "add", o)
          <6>1. \A i \in 1 .. n - 1 : i + 1 \in 1 + 1 .. n
            BY <1>2
          <6>2. QED
            BY <1>2, <5>2, <6>1 DEF Adds
        <5>6. QED
          BY <5>1, <5>4, <5>5 DEF Absent, Gone, Stays
      <4>4. QED
        BY <4>2, <4>3
    <3>5. QED
      BY <1>0, <2>1, <3>2, <3>3, <3>4 DEF EndsHeld
  <2>5. QED
    BY <2>3, <2>4
<1>8. QED
  BY <1>4, <1>5, <1>6, <1>7 DEF Tidy, Clean, Late

(* A call is made: a message, an addition for the first reference to an    *)
(* object, or a removal after the last one.                                *)
LEMMA TidyAfterEnqueue ==
  ASSUME TypeOK, NEW h \in Handles, NEW s \in Sessions, SessionOf[h] = s, Tidy(s), OwnCalls(s),
         stage[s] = "open", NEW kind \in {"add", "remove", "use"}, Enqueue(s, kind, h),
         exports'[s] = exports[s], failed' = failed, stage'[s] = stage[s],
         \A g \in Handles \ {h} : state'[g] = state[g],
         kind /= "use" => Live(s, OopOf[h]) \subseteq {h},
         kind = "add" => state[h] = "none" /\ state'[h] = "retaining",
         kind = "remove" => state'[h] = "done",
         kind = "use" => state'[h] = state[h] /\ state[h] /= "none"
  PROVE  Tidy(s)'
<1> DEFINE j == [kind |-> kind, of |-> h]
           q == chain[s]
<1>0. PICK n \in Nat : n = Len(q)
  BY DEF TypeOK
<1>1. j \in Jobs /\ j.kind = kind /\ j.of = h /\ q \in Seq(Jobs) /\ chain'[s] = Append(q, j)
  BY Enqueued, JobType DEF TypeOK
<1> HIDE DEF j
<1>2. /\ n \in Nat /\ Len(chain'[s]) = n + 1 /\ chain'[s][n + 1] = j
      /\ \A i \in 1 .. n : chain'[s][i] = q[i] /\ q[i] \in Jobs
      /\ 1 .. n + 1 = (1 .. n) \cup {n + 1} /\ 1 .. n \subseteq 1 .. n + 1 /\ n + 1 \in 1 .. n + 1
  <2>1. n \in Nat /\ Len(chain'[s]) = n + 1 /\ chain'[s][n + 1] = j
        /\ \A i \in 1 .. n : chain'[s][i] = q[i] /\ q[i] \in Jobs
    BY <1>0, <1>1, Positions
  <2>2. 1 .. n + 1 = (1 .. n) \cup {n + 1} /\ 1 .. n \subseteq 1 .. n + 1 /\ n + 1 \in 1 .. n + 1
    BY <2>1
  <2>3. QED
    BY <2>1, <2>2
<1>3. /\ \A i \in 1 .. n : q[i].kind /= "logout" => SessionOf[q[i].of] = s /\ q[i].of \in Handles
                                                   /\ state[q[i].of] /= "none"
  BY <1>0, <1>2, JobFields DEF OwnCalls, Tidy, Known
<1>4. Known(s)'
  <2>1. \A i \in 1 .. n : q[i].kind /= "logout" => state'[q[i].of] /= "none"
    BY <1>3
  <2>2. state'[h] /= "none"
    OBVIOUS
  <2>3. QED
    BY <1>1, <1>2, <2>1, <2>2 DEF Known
<1>5. Asked(s)'
  <2>1. SUFFICES ASSUME NEW g \in Handles, SessionOf[g] = s, state'[g] = "retaining"
                 PROVE  \E k \in 1 .. n + 1 : chain'[s][k].kind = "add" /\ chain'[s][k].of = g
    BY <1>2 DEF Asked
  <2>2. CASE g = h /\ kind = "add"
    BY <1>1, <1>2, <2>2
  <2>3. CASE state[g] = "retaining"
    <3>1. PICK k \in 1 .. n : q[k].kind = "add" /\ q[k].of = g
      BY <1>0, <2>1, <2>3 DEF Tidy, Asked
    <3>2. QED
      BY <1>2, <3>1
  <2>4. QED
    BY <2>1, <2>2, <2>3
<1>6. Latest(s)'
  <2>1. SUFFICES ASSUME NEW i \in 1 .. n + 1, NEW g \in Handles, chain'[s][i].kind = "add",
                        chain'[s][i].of = g, state'[g] = "retaining", NEW m \in i + 1 .. n + 1
                 PROVE  ~Adds(chain'[s][m], OopOf[g]) /\ ~Removes(chain'[s][m], OopOf[g])
    <3>1. \A k \in 1 .. Len(chain'[s]), m \in Int :
            m \in k + 1 .. Len(chain'[s]) => m \in k + 1 .. n + 1
      BY <1>2
    <3>2. QED
      BY <1>2, <3>1 DEF Latest
  <2>2. i \in 1 .. n /\ (m \in i + 1 .. n \/ m = n + 1)
    BY <1>2
  <2>3. q[i].kind = "add" /\ q[i].of = g /\ SessionOf[g] = s /\ state[g] /= "none"
    BY <1>2, <1>3, <2>1, <2>2
  <2>4. state[g] = "retaining" /\ (kind = "use" \/ g /= h)
    BY <2>1, <2>3
  <2>5. CASE m \in i + 1 .. n
    <3>1. m \in 1 .. n
      BY <2>2, <2>5
    <3>2. QED
      BY <1>0, <1>2, <2>2, <2>3, <2>4, <2>5, <3>1 DEF Tidy, Latest
  <2>6. CASE m = n + 1
    <3>1. kind /= "use" => OopOf[g] /= OopOf[h]
      BY <2>3, <2>4 DEF Live
    <3>2. QED
      BY <1>1, <1>2, <2>6, <3>1 DEF Adds, Removes, Does
  <2>7. QED
    BY <2>2, <2>5, <2>6
<1>7. ASSUME NEW o \in Oops, ~RemoveFailed(s, o)' PROVE AddsAbsent(s, o)' /\ EndsHeld(s, o)'
  <2>1. AddsAbsent(s, o) /\ EndsHeld(s, o)
    BY <1>7 DEF Tidy, Clean, RemoveFailed
  <2>2. \A k \in 1 .. n + 1 : Absent(s, k, o) => Absent(s, k, o)'
    BY <1>0, <1>1, StaysBefore DEF Absent, Gone
  <2>3. Absent(s, n + 1, o) \/ (Live(s, o) /= {} /\ \A g \in Live(s, o) : state[g] /= "broken")
    BY <1>0, <2>1 DEF EndsHeld
  <2>4. AddsAbsent(s, o)'
    <3>1. ASSUME Adds(j, o) PROVE Absent(s, n + 1, o)
      <4>1. kind = "add" /\ OopOf[h] = o
        BY <1>1, <3>1 DEF Adds, Does
      <4>2. Live(s, o) = {}
        BY <4>1 DEF Live
      <4>3. QED
        BY <2>3, <4>2
    <3>2. \A i \in 1 .. n : Adds(q[i], o) => Absent(s, i, o)
      BY <1>0, <2>1 DEF AddsAbsent
    <3>3. QED
      BY <1>2, <2>2, <3>1, <3>2 DEF AddsAbsent
  <2>5. EndsHeld(s, o)'
    <3>1. SUFFICES \/ Absent(s, n + 2, o)'
                   \/ Live(s, o)' /= {} /\ \A g \in Live(s, o)' : state'[g] /= "broken"
      <4>1. \A k \in Nat : k = Len(chain'[s]) + 1 => k = n + 2
        BY <1>2
      <4>2. QED
        BY <4>1 DEF EndsHeld
    <3>2. Removes(j, o) \/ (Absent(s, n + 1, o) /\ ~Adds(j, o)) => Absent(s, n + 2, o)'
      <4>1. Does(j, "remove", o)
               \/ (Stays(q, Len(q) + 1, o, Oops \ exports[s], "remove", "add") /\ ~Does(j, "add", o))
            => Stays(Append(q, j), Len(q) + 2, o, Oops \ exports[s], "remove", "add")
        BY <1>1, StaysAfter
      <4>2. QED
        BY <1>0, <1>1, <4>1 DEF Absent, Gone, Adds, Removes
    <3>3. CASE kind = "add" /\ OopOf[h] = o
      BY <3>3 DEF Live
    <3>4. CASE kind = "remove" /\ OopOf[h] = o
      BY <1>1, <3>2, <3>4 DEF Removes, Does
    <3>5. CASE kind = "use" \/ OopOf[h] /= o
      <4>1. ~Adds(j, o)
        BY <1>1, <3>5 DEF Adds, Does
      <4>2. Live(s, o)' = Live(s, o) /\ \A g \in Live(s, o) : state'[g] = state[g]
        BY <3>5 DEF Live
      <4>3. QED
        BY <2>3, <3>2, <4>1, <4>2
    <3>6. QED
      BY <3>3, <3>4, <3>5
  <2>6. QED
    BY <2>4, <2>5
<1>8. QED
  BY <1>4, <1>5, <1>6, <1>7 DEF Tidy, Clean, Late

(* A session that opens has nothing to tidy up.                            *)
LEMMA TidyOpens ==
  ASSUME OwnInv, NEW s \in Sessions, Bind(s), Tidy(s)
  PROVE  Tidy(s)'
<1>1. /\ stage[s] = "in" /\ exports'[s] = {} /\ state' = state
      /\ chain'[s] = <<>> /\ Len(chain'[s]) = 0
  BY DEF Bind, Tidy, Late, OwnInv, Owned, Own, native, handles
<1>2. \A k \in 1 .. Len(chain'[s]) : FALSE
  BY <1>1
<1>3. \A h \in Handles : SessionOf[h] = s => state[h] = "none"
  BY <1>1 DEF OwnInv, Owned, Late
<1>4. ASSUME NEW o \in Oops PROVE EndsHeld(s, o)'
  <2>1. \A i \in 1 .. 1 - 1 : FALSE
    OBVIOUS
  <2>2. Absent(s, 1, o)'
    BY <1>1, <2>1 DEF Absent, Gone, Stays
  <2>3. \A k \in Nat : k = Len(chain'[s]) + 1 => k = 1
    BY <1>1
  <2>4. QED
    BY <2>2, <2>3 DEF EndsHeld
<1>5. \A o \in Oops : Clean(s, o)'
  BY <1>2, <1>4 DEF Clean, AddsAbsent
<1>6. QED
  BY <1>1, <1>2, <1>3, <1>5 DEF Tidy, Known, Asked, Latest

(* A live handle counts.                                                   *)
LEMMA LiveCounts ==
  ASSUME OwnInv, NEW h \in Handles, NEW s \in Sessions, SessionOf[h] = s, stage[s] /= "closed"
  PROVE  /\ counts[s][OopOf[h]] = 0 => Live(s, OopOf[h]) = {}
         /\ counts[s][OopOf[h]] <= 1 /\ h \in Live(s, OopOf[h]) => Live(s, OopOf[h]) = {h}
<1> DEFINE L == Live(s, OopOf[h])
<1>1. IsFiniteSet(L) /\ Cardinality(L) \in Nat /\ counts[s][OopOf[h]] = Cardinality(L)
  BY LiveFinite, ParametersAssumption DEF OwnInv, Guarded, Counted
<1> HIDE DEF L
<1>2. Cardinality(L) = 0 => L = {}
  BY <1>1, FS_EmptySet
<1>3. ASSUME h \in L, Cardinality(L) <= 1 PROVE L = {h}
  <2>1. IsFiniteSet(L \ {h}) /\ Cardinality(L \ {h}) = Cardinality(L) - 1
    BY <1>1, <1>3, FS_RemoveElement
  <2>2. Cardinality(L \ {h}) \in Nat
    BY <2>1, FS_CardinalityType
  <2>3. Cardinality(L \ {h}) = 0
    BY <1>1, <1>3, <2>1, <2>2
  <2>4. L \ {h} = {}
    BY <2>1, <2>3, FS_EmptySet
  <2>5. QED
    BY <1>3, <2>4
<1>4. QED
  BY <1>1, <1>2, <1>3 DEF L

LEMMA TidyRetain ==
  ASSUME OwnInv, NEW h \in Handles, Retain(h), NEW s \in Sessions, s = SessionOf[h], Tidy(s)
  PROVE  Tidy(s)'
<1>1. /\ OwnCalls(s) /\ TypeOK /\ OopOf[h] \in Oops /\ stage[s] = "open" /\ state[h] = "none"
      /\ exports' = exports /\ failed' = failed /\ stage' = stage
      /\ \A g \in Handles \ {h} : state'[g] = state[g]
  BY ParametersAssumption DEF OwnInv, Guarded, Safe, Retain, native, TypeOK
<1>2. CASE counts[s][OopOf[h]] = 0 /\ Enqueue(s, "add", h) /\ state' = [state EXCEPT ![h] = "retaining"]
  <2>1. Live(s, OopOf[h]) = {}
    BY <1>1, <1>2, LiveCounts
  <2>2. state'[h] = "retaining"
    BY <1>1, <1>2 DEF TypeOK
  <2>3. QED
    BY <1>1, <1>2, <2>1, <2>2, TidyAfterEnqueue
<1>3. CASE chain' = chain /\ state' = [state EXCEPT ![h] = "held"]
  <2>1. state'[h] = "held"
    BY <1>1, <1>3 DEF TypeOK
  <2>2. h \in Live(s, OopOf[h])'
    BY <2>1 DEF Live
  <2>3. QED
    BY <1>1, <1>3, <2>1, <2>2, TidyWithOthers
<1>4. QED
  BY <1>2, <1>3 DEF Retain

LEMMA TidyLetGo ==
  ASSUME OwnInv, NEW h \in Handles, LetGo(h), state[h] \in {"retaining", "held", "broken"},
         NEW s \in Sessions, s = SessionOf[h], Tidy(s), Counted(s)'
  PROVE  Tidy(s)'
<1>1. /\ OwnCalls(s) /\ TypeOK /\ OopOf[h] \in Oops /\ h \in Live(s, OopOf[h])
      /\ exports' = exports /\ failed' = failed /\ stage' = stage
      /\ state'[h] = "done" /\ \A g \in Handles \ {h} : state'[g] = state[g]
  BY ParametersAssumption DEF OwnInv, Guarded, Safe, LetGo, native, TypeOK, Live
<1>2. CASE stage[s] /= "open"
  <2>1. stage[s] \in Late
    BY <1>1 DEF OwnInv, Owned
  <2>2. QED
    BY <1>1, <1>2, <2>1 DEF Tidy
<1>3. CASE stage[s] = "open" /\ counts[s][OopOf[h]] <= 1 /\ Enqueue(s, "remove", h)
  <2>1. Live(s, OopOf[h]) \subseteq {h}
    BY <1>1, <1>3, LiveCounts
  <2>2. QED
    BY <1>1, <1>3, <2>1, TidyAfterEnqueue
<1>4. CASE /\ stage[s] = "open" /\ chain' = chain /\ counts[s][OopOf[h]] > 1
           /\ counts' = [counts EXCEPT ![s][OopOf[h]] = counts[s][OopOf[h]] - 1]
  <2>1. counts'[s][OopOf[h]] /= 0
    BY <1>1, <1>4 DEF TypeOK
  <2>2. Cardinality(Live(s, OopOf[h])') /= 0
    BY <1>1, <1>4, <2>1 DEF Counted
  <2>3. Live(s, OopOf[h])' /= {}
    BY <2>2, FS_EmptySet
  <2>4. QED
    BY <1>1, <1>4, <2>3, TidyWithOthers
<1>5. QED
  BY <1>2, <1>3, <1>4 DEF LetGo

LEMMA TidyCall ==
  ASSUME ~Shared, OwnInv, NEW s \in Sessions, Add(s) \/ Remove(s) \/ Use(s), Tidy(s)
  PROVE  Tidy(s)'
<1>0. /\ TypeOK /\ Waiting /\ OwnCalls(s)
  BY DEF OwnInv, Guarded, Safe
<1>1. PICK kind \in {"add", "remove", "use"} :
        First(s, kind) /\ (kind = "add" => Add(s)) /\ (kind = "remove" => Remove(s)) /\ (kind = "use" => Use(s))
  BY DEF Add, Remove, Use
<1>2. PICK h \in Handles : h = Head(chain[s]).of
  BY <1>0, <1>1, FirstHandle
<1>3. /\ failed \subseteq failed' /\ stage' = stage
      /\ chain[s] /= <<>> /\ Head(chain[s]).kind = kind
      /\ stage[s] \in Late /\ active[Library(s)] = s
  <2>1. chain[s] /= <<>> /\ Head(chain[s]).kind = kind
    BY <1>0, <1>1, Dequeued
  <2>2. QED
    BY <1>1, <2>1, OwnLibrary DEF Add, Remove, Use, OwnInv, Owned, Own
<1>4. SUFFICES ASSUME stage[s] = "open" PROVE Tidy(s)'
  BY <1>3 DEF Tidy
<1>5. SessionOf[h] = s
  <2>1. 1 \in 1 .. Len(chain[s]) /\ Head(chain[s]) = chain[s][1]
    BY <1>0, <1>3, TailPositions DEF TypeOK
  <2>2. kind /= "logout"
    OBVIOUS
  <2>3. QED
    BY <1>0, <1>2, <1>3, <2>1, <2>2 DEF OwnCalls
<1>6. /\ \A g \in Handles \ {h} : state'[g] = state[g]
      /\ \/ state'[h] = state[h] /\ (kind = "add" => state[h] /= "retaining")
         \/ kind = "add" /\ state[h] = "retaining" /\ state'[h] = "held"
         \/ kind = "add" /\ state[h] = "retaining" /\ state'[h] = "broken" /\ exports'[s] = exports[s]
  BY <1>0, <1>1, <1>2 DEF Add, Remove, Use, TypeOK
<1>7. \A o \in Oops :
        \/ RemoveFailed(s, o)'
        \/ /\ o \notin exports[s] /\ ~Adds(Head(chain[s]), o) => o \notin exports'[s]
           /\ Removes(Head(chain[s]), o) => o \notin exports'[s]
  <2>1. CASE kind = "add"
    <3>1. exports' = exports \/ exports' = [exports EXCEPT ![s] = @ \cup {OopOf[h]}]
      BY <1>1, <1>2, <1>3, <2>1 DEF Add
    <3>2. \A o \in Oops : o \in exports'[s] => o \in exports[s] \/ o = OopOf[h]
      BY <1>0, <3>1 DEF TypeOK
    <3>3. QED
      BY <1>2, <1>3, <2>1, <3>2 DEF Adds, Removes, Does
  <2>2. CASE kind = "remove"
    <3>1. CASE exports' = exports /\ <<"remove", h>> \in failed'
      BY <1>2, <1>3, <1>5, <2>2, <3>1 DEF RemoveFailed, Removes, Does
    <3>2. CASE exports' = [exports EXCEPT ![s] = @ \ {OopOf[h]}]
      <4>1. exports'[s] = exports[s] \ {OopOf[h]}
        BY <1>0, <3>2 DEF TypeOK
      <4>2. QED
        BY <1>2, <1>3, <2>2, <4>1 DEF Removes, Does
    <3>3. QED
      BY <1>1, <1>2, <1>3, <2>2, <3>1, <3>2 DEF Remove
  <2>3. CASE kind = "use"
    BY <1>1, <1>3, <2>3 DEF Use, Removes, Does
  <2>4. QED
    BY <2>1, <2>2, <2>3
<1>8. QED
  BY <1>0, <1>1, <1>2, <1>3, <1>4, <1>6, <1>7, TidyAfterFirst

(* What a step of session s leaves alone.                                  *)
LEMMA TidyOthers ==
  ASSUME OwnInv, Tidied, NEW s \in Sessions, NEW t \in Sessions \ {s},
         chain'[t] = chain[t], exports'[t] = exports[t], failed \subseteq failed', stage'[t] = stage[t],
         \A h \in Handles : SessionOf[h] /= s => state'[h] = state[h]
  PROVE  Tidy(t)'
BY TidyElsewhere DEF OwnInv, Guarded, Safe, Tidied

LEMMA TidiedStep ==
  ASSUME ~Shared, OwnInv, Guarded', Tidied, [Next]_vars
  PROVE  Tidied'
<1>0. TypeOK /\ \A s \in Sessions : Tidy(s) /\ OwnCalls(s) /\ Library(s) = s /\ Own(s)
  BY OwnLibrary DEF OwnInv, Guarded, Safe, Tidied, Owned
<1>1. ASSUME \/ UNCHANGED vars
             \/ \E s \in Sessions : Activate(s)
             \/ \E h \in Handles : Release(h)
      PROVE  Tidied'
  <2>1. UNCHANGED <<chain, exports, failed, stage, state>>
    BY <1>1 DEF vars, native, runtimes, handles, Activate, Release
  <2>2. QED
    BY <1>0, <2>1, TidyElsewhere DEF Tidied
<1>2. ASSUME NEW s \in Sessions, SetNet(s) \/ LogIn(s) \/ Bind(s) \/ AskLogOut(s)
      PROVE  Tidied'
  <2>1. /\ UNCHANGED <<exports, failed, state>>
        /\ \A t \in Sessions \ {s} : chain'[t] = chain[t] /\ stage'[t] = stage[t]
    BY <1>0, <1>2
    DEF SetNet, LogIn, Bind, AskLogOut, Enqueue, TypeOK, native, runtimes, handles
  <2>2. \A t \in Sessions \ {s} : Tidy(t)'
    BY <2>1, TidyOthers
  <2>3. CASE SetNet(s) \/ LogIn(s)
    <3>1. stage[s] \in {"new", "net"} /\ stage'[s] \in {"net", "in", "refused"}
      BY <1>0, <2>3 DEF SetNet, LogIn, TypeOK
    <3>2. QED
      BY <1>0, <2>1, <2>2, <3>1 DEF Tidied, Tidy, Late
  <2>4. CASE Bind(s)
    BY <1>0, <2>2, <2>4, TidyOpens DEF Tidied
  <2>5. CASE AskLogOut(s)
    <3>1. stage'[s] = "closing"
      BY <1>0, <2>5 DEF AskLogOut, TypeOK
    <3>2. QED
      BY <2>2, <3>1 DEF Tidied, Tidy, Late
  <2>6. QED
    BY <1>2, <2>2, <2>3, <2>4, <2>5 DEF Tidied
<1>3. ASSUME NEW s \in Sessions, Add(s) \/ Remove(s) \/ Use(s) \/ LogOut(s) PROVE Tidied'
  <2>1. /\ failed \subseteq failed'
        /\ \A t \in Sessions \ {s} : chain'[t] = chain[t] /\ exports'[t] = exports[t] /\ stage'[t] = stage[t]
        /\ chain[s] /= <<>>
    <3>1. PICK kind \in {"add", "remove", "use", "logout"} : First(s, kind)
      BY <1>3 DEF Add, Remove, Use, LogOut
    <3>2. chain[s] /= <<>> /\ \A t \in Sessions \ {s} : chain'[t] = chain[t]
      BY <3>1, Dequeued DEF OwnInv
    <3>3. active[Library(s)] = s
      BY <1>0, <3>2 DEF Own
    <3>4. QED
      BY <1>0, <1>3, <3>2, <3>3 DEF Add, Remove, Use, LogOut, TypeOK
  <2>2. \A h \in Handles : SessionOf[h] /= s => state'[h] = state[h]
    <3>1. CASE Add(s)
      <4>1. First(s, "add") /\ chain[s] /= <<>>
        BY <2>1, <3>1 DEF Add
      <4>2. 1 \in 1 .. Len(chain[s]) /\ Head(chain[s]) = chain[s][1] /\ Head(chain[s]).kind = "add"
        BY <1>0, <4>1, TailPositions DEF TypeOK, First
      <4>3. SessionOf[Head(chain[s]).of] = s
        BY <1>0, <4>2 DEF OwnCalls
      <4>4. QED
        BY <1>0, <3>1, <4>3 DEF Add, TypeOK
    <3>2. CASE Remove(s) \/ Use(s) \/ LogOut(s)
      BY <3>2 DEF Remove, Use, LogOut
    <3>3. QED
      BY <1>3, <3>1, <3>2
  <2>3. \A t \in Sessions \ {s} : Tidy(t)'
    BY <2>1, <2>2, TidyOthers
  <2>4. CASE LogOut(s)
    <3>1. stage'[s] = "closed"
      BY <1>0, <2>4 DEF LogOut, TypeOK
    <3>2. QED
      BY <2>3, <3>1 DEF Tidied, Tidy, Late
  <2>5. CASE Add(s) \/ Remove(s) \/ Use(s)
    BY <1>0, <2>3, <2>5, TidyCall DEF Tidied
  <2>6. QED
    BY <1>3, <2>4, <2>5
<1>4. ASSUME NEW h \in Handles,
             Retain(h) \/ Send(h) \/ (LetGo(h) /\ state[h] \in {"retaining", "held", "broken"})
      PROVE  Tidied'
  <2>1. PICK s \in Sessions : s = SessionOf[h]
    BY ParametersAssumption
  <2>2. /\ UNCHANGED <<exports, failed, stage>>
        /\ \A t \in Sessions \ {s} : chain'[t] = chain[t]
        /\ \A g \in Handles \ {h} : state'[g] = state[g]
    BY <1>0, <1>4, <2>1 DEF Retain, Send, LetGo, Enqueue, TypeOK, native, handles
  <2>3. \A t \in Sessions \ {s} : Tidy(t)'
    BY <2>1, <2>2, TidyOthers
  <2>4. CASE Retain(h)
    BY <1>0, <2>1, <2>3, <2>4, TidyRetain DEF Tidied
  <2>5. CASE LetGo(h) /\ state[h] \in {"retaining", "held", "broken"}
    BY <1>0, <2>1, <2>3, <2>5, TidyLetGo DEF Tidied, Guarded
  <2>6. CASE Send(h)
    <3>1. /\ stage[s] = "open" /\ state[h] = "held" /\ state' = state /\ Enqueue(s, "use", h)
      BY <2>1, <2>6 DEF Send, handles
    <3>2. Tidy(s)'
      BY <1>0, <2>1, <2>2, <3>1, TidyAfterEnqueue
    <3>3. QED
      BY <2>3, <3>2 DEF Tidied
  <2>7. QED
    BY <1>4, <2>4, <2>5, <2>6
<1>5. QED
  BY <1>1, <1>2, <1>3, <1>4 DEF Next, Released, Collected

LEMMA TidyMeansNothingLeaks == ASSUME OwnInv, Tidied PROVE NothingLeaks
<1>1. SUFFICES ASSUME NEW s \in Sessions, NEW o \in Oops, stage[s] = "open", chain[s] = <<>>,
                      o \in exports[s], ~RemoveFailed(s, o)
               PROVE  \E h \in Handles : SessionOf[h] = s /\ OopOf[h] = o /\ state[h] = "held"
  BY DEF NothingLeaks, RemoveFailed
<1>2. Len(chain[s]) = 0
  BY <1>1
<1>3. ~Absent(s, 1, o)
  <2>1. \A i \in 1 .. 1 - 1 : FALSE
    OBVIOUS
  <2>2. QED
    BY <1>1, <2>1 DEF Absent, Gone, Stays
<1>4. Live(s, o) /= {} /\ \A h \in Live(s, o) : state[h] /= "broken"
  BY <1>1, <1>2, <1>3 DEF Tidied, Tidy, Clean, EndsHeld
<1>5. \A h \in Handles : SessionOf[h] = s => state[h] /= "retaining"
  <2>1. \A k \in 1 .. Len(chain[s]) : FALSE
    BY <1>2
  <2>2. QED
    BY <1>1, <2>1 DEF Tidied, Tidy, Asked
<1>6. QED
  BY <1>4, <1>5 DEF Live

(* With a library for each session, an object that is in the export set    *)
(* while no call is under way is there for a handle that holds it, unless  *)
(* it could not be removed: whatever fails, and whichever handles are let  *)
(* go while their additions wait, the last reference takes the object out. *)
THEOREM SerializedNothingLeaks == ASSUME ~Shared PROVE Spec => []NothingLeaks
<1>1. Init => Tidied
  BY DEF Init, Tidied, Tidy, Late
<1>2. OwnInv /\ OwnInv' /\ Tidied /\ [Next]_vars => Tidied'
  BY TidiedStep DEF OwnInv
<1>3. OwnInv /\ Tidied => NothingLeaks
  BY TidyMeansNothingLeaks
<1>4. QED
  BY <1>1, <1>2, <1>3, AlwaysGuarded, PTL DEF Spec

-----------------------------------------------------------------------------
(* The object that is read and assigned to like one of the program. *)
WritesOK == writes \in Seq(Writes)

(* The writes of the queue are sent one at a time, in the order in which   *)
(* the application made them.                                              *)
WritesInOrder ==
  \A i, j \in Queued : i < j /\ writes[j].state # "waiting" => Settled(i)

(* pendingWriteError is set for as long as a failure has not been thrown.  *)
Told == error = 0 => unreported = {}

QueueInv == WritesOK /\ Told /\ WritesInOrder

MappingInv == DOMAIN pc = Flows /\ QueueInv
-----------------------------------------------------------------------------
(* What becomes of writes                                                  *)

(* A write that is added waits, unless it has not been queued.             *)
LEMMA Added ==
  ASSUME WritesOK, WritesInOrder, NEW p \in Properties, NEW queued \in BOOLEAN,
         NEW how \in States, AddWrite(p, queued, how), queued => how = "waiting"
  PROVE  WritesOK' /\ WritesInOrder'
<1> DEFINE n == Len(writes) + 1
           w == [prop |-> p, queued |-> queued, state |-> how]
<1>1. w \in Writes
  BY DEF Writes
<1>2. writes' = Append(writes, w)
  BY DEF AddWrite
<1>3. WritesOK'
  BY <1>1, <1>2 DEF WritesOK
<1>4. /\ DOMAIN writes = 1..Len(writes) /\ Len(writes) \in Nat
      /\ DOMAIN writes' = 1..n
      /\ \A i \in DOMAIN writes : writes'[i] = writes[i]
      /\ writes'[n] = w
  BY <1>2 DEF WritesOK
<1>5. ASSUME NEW i \in Queued', NEW j \in Queued', i < j, writes'[j].state # "waiting"
      PROVE  writes'[i].state \in {"ok", "failed"}
  <2>1. j # n
    BY <1>4, <1>5 DEF Queued
  <2>2. i \in Queued /\ j \in Queued /\ writes'[i] = writes[i] /\ writes'[j] = writes[j]
    BY <1>4, <1>5, <2>1 DEF Queued
  <2>3. QED
    BY <1>5, <2>2 DEF WritesInOrder, Settled, Queued
<1>6. QED
  BY <1>3, <1>5 DEF WritesInOrder, Settled

(* A write that moves on keeps its property and its place.                 *)
LEMMA Moved ==
  ASSUME WritesOK, NEW i \in DOMAIN writes, NEW how \in States, Move(i, how)
  PROVE  /\ WritesOK' /\ DOMAIN writes' = DOMAIN writes /\ Queued' = Queued
         /\ \A j \in DOMAIN writes :
              writes'[j].state = IF j = i THEN how ELSE writes[j].state
<1>1. writes \in Seq(Writes) /\ Len(writes) \in Nat /\ DOMAIN writes = 1..Len(writes)
  BY DEF WritesOK
<1>2. writes' = [writes EXCEPT ![i].state = how]
  BY DEF Move
<1>3. \A j \in DOMAIN writes : writes[j] \in Writes
  BY <1>1
<1>4. \A j \in DOMAIN writes :
        writes'[j] = IF j = i THEN [writes[i] EXCEPT !.state = how] ELSE writes[j]
  BY <1>2
<1>5. \A j \in DOMAIN writes :
        /\ writes'[j] \in Writes
        /\ writes'[j].queued = writes[j].queued
        /\ writes'[j].state = IF j = i THEN how ELSE writes[j].state
  BY <1>3, <1>4 DEF Writes
<1>6. DOMAIN writes' = 1..Len(writes)
  BY <1>1, <1>2
<1>7. WritesOK'
  BY <1>1, <1>2, <1>5, <1>6 DEF WritesOK
<1>8. Queued' = Queued
  BY <1>1, <1>5, <1>6 DEF Queued
<1>9. QED
  BY <1>1, <1>5, <1>6, <1>7, <1>8

(* The queue stays in order if a write that has not ended moves on in its  *)
(* turn, or ends.                                                          *)
LEMMA MovedInOrder ==
  ASSUME WritesOK, WritesInOrder, NEW i \in DOMAIN writes, NEW how \in States,
         Move(i, how), ~Settled(i),
         i \in Queued => \A j \in Queued : j < i => Settled(j)
  PROVE  WritesOK' /\ WritesInOrder'
<1>1. /\ WritesOK' /\ DOMAIN writes' = DOMAIN writes /\ Queued' = Queued
      /\ \A j \in DOMAIN writes :
           writes'[j].state = IF j = i THEN how ELSE writes[j].state
  BY Moved
<1>2. ASSUME NEW k \in Queued, NEW j \in Queued, k < j, writes'[j].state # "waiting"
      PROVE  writes'[k].state \in {"ok", "failed"}
  <2>1. k \in DOMAIN writes /\ j \in DOMAIN writes /\ k \in Int /\ j \in Int
    BY DEF Queued, WritesOK
  <2>2. CASE j = i
    <3>1. Settled(k) /\ k # i
      BY <1>2, <2>1, <2>2
    <3>2. QED
      BY <1>1, <2>1, <3>1 DEF Settled
  <2>3. CASE j # i
    <3>1. Settled(k)
      BY <1>1, <1>2, <2>1, <2>3 DEF WritesInOrder
    <3>2. QED
      BY <1>1, <2>1, <3>1 DEF Settled
  <2>4. QED
    BY <2>2, <2>3
<1>3. QED
  BY <1>1, <1>2 DEF WritesInOrder, Settled

(* A step moves one flow at most.                                          *)
LEMMA OneMoves ==
  ASSUME [MappingNext]_mappingVars
  PROVE  pc' = pc \/ \E g \in Flows, far \in Stages :
                      /\ pc' = [pc EXCEPT ![g] = far]
                      /\ Call(g) \/ GoOn(g) \/ Message(g)
<1>1. ASSUME NEW g \in Flows, Call(g) \/ GoOn(g) \/ Message(g)
      PROVE  pc' = pc \/ \E far \in Stages : pc' = [pc EXCEPT ![g] = far]
  <2>1. CASE Call(g)
    BY <2>1 DEF Call, Flush, RefreshAll, ClearCache, Assign, Set, SendDirect, ReadKept,
                Read, Refresh, AwaitWrites, flow, Stages
  <2>2. CASE GoOn(g)
    BY <2>2 DEF GoOn, FlushDone, WritesDone, KeptDone, SendDone, Throw, Return, Stages
  <2>3. CASE Message(g)
    BY <2>3 DEF Message, ReadPerform, ReadDone, ReadFails, ReadEnds, Return, Stages
  <2>4. QED
    BY <1>1, <2>1, <2>2, <2>3
<1>2. ASSUME NEW i \in DOMAIN writes, Progress(i) PROVE pc' = pc
  BY <1>2 DEF Progress, Perform, WriteArrives, WriteFails, DirectEnds, flow
<1>3. ASSUME NEW p \in Properties, External(p) PROVE pc' = pc
  BY <1>3 DEF External, flow
<1>4. CASE UNCHANGED mappingVars
  BY <1>4 DEF mappingVars, flow
<1>5. QED
  BY <1>1, <1>2, <1>3, <1>4 DEF MappingNext

-----------------------------------------------------------------------------
LEMMA InvInit == MappingInit => MappingInv
BY DEF MappingInit, MappingInv, QueueInv, WritesOK, Told, WritesInOrder, Queued

(* Steps that leave the writes and what is known of their failures alone.  *)
LEMMA Same ==
  ASSUME QueueInv, UNCHANGED <<writes, error, unreported>>
  PROVE  QueueInv'
BY DEF QueueInv, WritesOK, Told, WritesInOrder, Queued, Settled

LEMMA CallStep ==
  ASSUME QueueInv, NEW f \in Flows, Call(f)
  PROVE  QueueInv'
<1>1. ASSUME NEW p \in Properties, Assign(f, p) \/ Set(f, p) PROVE QueueInv'
  <2>1. AddWrite(p, TRUE, "waiting") /\ UNCHANGED <<error, unreported>>
    BY <1>1 DEF Assign, Set, QueueWrite, ghost
  <2>2. QED
    BY <2>1, Added DEF QueueInv, Told, States
<1>2. ASSUME NEW p \in Properties, SendDirect(f, p) PROVE QueueInv'
  <2>1. AddWrite(p, FALSE, "waiting") /\ UNCHANGED <<error, unreported>>
    BY <1>2 DEF SendDirect, ghost
  <2>2. QED
    BY <2>1, Added DEF QueueInv, Told, States
<1>3. CASE Flush(f) \/ RefreshAll(f)
  BY <1>3, Same DEF Flush, RefreshAll, ghost
<1>4. ASSUME NEW ps, ClearCache(f, ps) PROVE QueueInv'
  BY <1>4, Same DEF ClearCache, ghost
<1>5. ASSUME NEW p \in Properties, ReadKept(f, p) \/ Read(f, p) \/ Refresh(f, p) PROVE QueueInv'
  BY <1>5, Same DEF ReadKept, Read, Refresh
<1>6. QED
  BY <1>1, <1>2, <1>3, <1>4, <1>5 DEF Call

(* Only an error that is thrown is forgotten.                              *)
LEMMA GoOnStep ==
  ASSUME QueueInv, NEW f \in Flows, GoOn(f) \/ Message(f)
  PROVE  QueueInv'
<1>1. CASE Throw(f)
  <2>1. UNCHANGED writes /\ unreported' = {}
    BY <1>1 DEF Throw
  <2>2. QED
    BY <2>1 DEF QueueInv, WritesOK, Told, WritesInOrder, Queued, Settled
<1>2. CASE FlushDone(f) \/ WritesDone(f)
  BY <1>1, <1>2, Same DEF FlushDone, WritesDone, ghost
<1>3. CASE KeptDone(f) \/ SendDone(f)
  BY <1>3, Same DEF KeptDone, SendDone
<1>4. CASE Message(f)
  BY <1>4, Same DEF Message, ReadPerform, ReadDone, ReadFails, ReadEnds, ghost
<1>5. QED
  BY <1>2, <1>3, <1>4 DEF GoOn

LEMMA ProgressStep ==
  ASSUME QueueInv, NEW i \in DOMAIN writes, Progress(i)
  PROVE  QueueInv'
<1>1. i # 0
  BY DEF QueueInv, WritesOK
<1>2. CASE Perform(i)
  <2>1. Move(i, "performed") /\ ~Settled(i) /\ UNCHANGED <<error, unreported>>
    BY <1>2 DEF Perform, Settled
  <2>2. i \in Queued => \A j \in Queued : j < i => Settled(j)
    BY <1>2 DEF Perform, Turn, Queued
  <2>3. QED
    BY <2>1, <2>2, MovedInOrder DEF QueueInv, Told, States
<1>3. CASE WriteArrives(i)
  <2>1. /\ Move(i, "ok") /\ ~Settled(i) /\ writes[i].state = "performed"
        /\ UNCHANGED <<error, unreported>>
    BY <1>3 DEF WriteArrives, Settled, ghost
  <2>2. i \in Queued => \A j \in Queued : j < i => Settled(j)
    BY <2>1 DEF QueueInv, WritesInOrder
  <2>3. QED
    BY <2>1, <2>2, MovedInOrder DEF QueueInv, Told, States
<1>4. CASE WriteFails(i)
  <2>1. /\ Move(i, "failed") /\ ~Settled(i)
        /\ error' = IF error = 0 THEN i ELSE error
    BY <1>4 DEF WriteFails, Settled
  <2>2. i \in Queued => \A j \in Queued : j < i => Settled(j)
    BY <1>4 DEF WriteFails, Turn, Queued
  <2>3. error' # 0
    BY <1>1, <2>1
  <2>4. QED
    BY <2>1, <2>2, <2>3, MovedInOrder DEF QueueInv, Told, States
<1>5. CASE DirectEnds(i)
  <2>1. /\ Move(i, "ok") \/ Move(i, "failed")
        /\ ~Settled(i) /\ i \notin Queued /\ UNCHANGED <<error, unreported>>
    BY <1>5 DEF DirectEnds, Settled, Queued, ghost
  <2>2. QED
    BY <2>1, MovedInOrder DEF QueueInv, Told, States
<1>6. QED
  BY <1>2, <1>3, <1>4, <1>5 DEF Progress

LEMMA InvStep == MappingInv /\ [MappingNext]_mappingVars => MappingInv'
<1> SUFFICES ASSUME MappingInv, [MappingNext]_mappingVars PROVE MappingInv'
  OBVIOUS
<1>1. QueueInv
  BY DEF MappingInv
<1>2. ASSUME NEW p \in Properties, External(p) PROVE QueueInv'
  <2>1. AddWrite(p, FALSE, "ok") /\ UNCHANGED <<error, unreported>>
    BY <1>2 DEF External
  <2>2. QED
    BY <1>1, <2>1, Added DEF QueueInv, Told, States
<1>3. ASSUME UNCHANGED mappingVars PROVE QueueInv'
  BY <1>1, <1>3, Same DEF mappingVars, ghost
<1>4. QueueInv'
  BY <1>1, <1>2, <1>3, CallStep, GoOnStep, ProgressStep DEF MappingNext
<1>5. DOMAIN pc' = Flows
  BY OneMoves DEF MappingInv
<1>6. QED
  BY <1>4, <1>5 DEF MappingInv

-----------------------------------------------------------------------------
(* What flushWrites waits for only goes on without an error when every     *)
(* failure so far has been thrown to some flow.                            *)
LEMMA Tells ==
  ASSUME MappingInv, [MappingNext]_mappingVars, NEW f \in Flows,
         pc[f] \in {"flushing", "preparing"}, pc'[f] # pc[f], unreported' = unreported
  PROVE  unreported = {}
<1>1. PICK g \in Flows, far \in Stages :
        pc' = [pc EXCEPT ![g] = far] /\ (Call(g) \/ GoOn(g) \/ Message(g))
  BY OneMoves
<1>2. g = f
  BY <1>1 DEF MappingInv
<1>3. ~Call(f) /\ ~Message(f) /\ ~KeptDone(f) /\ ~SendDone(f)
  BY DEF Call, Flush, RefreshAll, ClearCache, Assign, Set, SendDirect, ReadKept, Read,
         Refresh, Idle, KeptDone, SendDone, Message, ReadPerform, ReadDone, ReadFails
<1>4. FlushDone(f) \/ WritesDone(f)
  BY <1>1, <1>2, <1>3 DEF GoOn
<1>5. QED
  BY <1>4 DEF MappingInv, QueueInv, Told, FlushDone, WritesDone, Throw

(* A failed write is told of: no flush or read that waited for it goes on  *)
(* as if nothing had happened.                                             *)
THEOREM MappingFailuresAreTold == MappingSpec => FailuresAreTold
<1>1. MappingInv /\ [MappingNext]_mappingVars =>
        [\A f \in Flows :
           /\ pc[f] \in {"flushing", "preparing"} /\ pc'[f] # pc[f]
           /\ unreported' = unreported
           => unreported \cap 1..until[f] = {}]_mappingVars
  BY Tells
<1>2. QED
  BY <1>1, InvInit, InvStep, PTL DEF MappingSpec, FailuresAreTold

-----------------------------------------------------------------------------
(* Promises                                                                *)

LEMMA Kinds ==
  /\ Nothing.kind = "nothing" /\ Rejected.kind = "rejected"
  /\ \A v : Value(v).kind = "value" /\ Value(v).by = v
  /\ \A i : OfWrite(i).kind = "write" /\ OfWrite(i).by = i
  /\ \A f : OfRead(f).kind = "read" /\ OfRead(f).by = f
BY DEF Nothing, Rejected, Value, OfWrite, OfRead

LEMMA SettleDef ==
  ASSUME NEW holders, NEW p, NEW q
  PROVE  /\ DOMAIN Settle(holders, p, q) = DOMAIN holders
         /\ \A h \in DOMAIN holders :
              Settle(holders, p, q)[h] = IF holders[h] = p THEN q ELSE holders[h]
BY DEF Settle

LEMMA SettleType ==
  ASSUME NEW S, NEW T, NEW holders \in [S -> T], NEW p, NEW q \in T
  PROVE  Settle(holders, p, q) \in [S -> T]
BY DEF Settle

LEMMA PromiseTypes ==
  /\ Nothing \in Assignable /\ Nothing \in Cacheable /\ Rejected \in Cacheable
  /\ \A v \in Values : Value(v) \in Assignable /\ Value(v) \in Cacheable /\ OfWrite(v) \in Assignable
  /\ \A f \in Flows : OfRead(f) \in Cacheable
  /\ Assignable \subseteq Awaitable /\ Cacheable \subseteq Awaitable
BY DEF Assignable, Cacheable, Awaitable, Kept

LEMMA ValuesAreNumbers == MaxWrites \in Nat /\ Values = 0..MaxWrites /\ 0 \in Values
BY MappingAssumption DEF Values

-----------------------------------------------------------------------------
(* Types                                                                   *)

LEMMA WriteAppended ==
  ASSUME WritesOK, NEW p \in Properties, NEW queued \in BOOLEAN, NEW how \in States,
         AddWrite(p, queued, how)
  PROVE  /\ WritesOK' /\ Len(writes') = Len(writes) + 1 /\ Len(writes) < MaxWrites
         /\ DOMAIN writes' = DOMAIN writes \cup {Len(writes) + 1}
         /\ Len(writes) + 1 \in Values
         /\ \A i \in DOMAIN writes : i \in Nat /\ i < Len(writes) + 1 /\ writes'[i] = writes[i]
         /\ writes'[Len(writes) + 1].prop = p /\ writes'[Len(writes) + 1].state = how
         /\ queued => writes'[Len(writes) + 1].queued
<1> DEFINE n == Len(writes) + 1
           w == [prop |-> p, queued |-> queued, state |-> how]
<1>1. w \in Writes /\ w.prop = p /\ w.state = how /\ (queued => w.queued)
  BY DEF Writes
<1>2. writes' = Append(writes, w) /\ Len(writes) < MaxWrites
  BY DEF AddWrite
<1> HIDE DEF w
<1>3. WritesOK'
  BY <1>1, <1>2 DEF WritesOK
<1>4. /\ DOMAIN writes = 1..Len(writes) /\ Len(writes) \in Nat
      /\ DOMAIN writes' = 1..n /\ Len(writes') = n
      /\ \A i \in DOMAIN writes : writes'[i] = writes[i]
      /\ writes'[n] = w
  BY <1>1, <1>2 DEF WritesOK
<1>5. 1..n = (1..Len(writes)) \cup {n} /\ \A i \in 1..Len(writes) : i \in Nat /\ i < n
  BY <1>4
<1>6. n \in Values
  BY <1>2, <1>4, ValuesAreNumbers
<1> HIDE DEF n
<1>7. /\ DOMAIN writes' = DOMAIN writes \cup {n} /\ Len(writes') = n
      /\ \A i \in DOMAIN writes : i \in Nat /\ i < n /\ writes'[i] = writes[i]
      /\ writes'[n].prop = p /\ writes'[n].state = how /\ (queued => writes'[n].queued)
  BY <1>1, <1>4, <1>5
<1>8. QED
  BY <1>2, <1>3, <1>6, <1>7 DEF n

LEMMA WriteNumbers ==
  ASSUME WritesOK, Len(writes) <= MaxWrites
  PROVE  \A i \in DOMAIN writes : i \in Values /\ i \in Nat /\ i # 0 /\ writes[i] \in Writes
BY ValuesAreNumbers DEF WritesOK

(* What Return, AwaitWrites and Begin do to the flows. *)
FlowTypes ==
  /\ pc \in [Flows -> Stages] /\ target \in [Flows -> Properties \cup {NoProperty}]
  /\ until \in [Flows -> Values] /\ on \in [Flows -> Awaitable]
  /\ seen \in [Flows -> SUBSET Values] /\ prior \in [Flows -> SUBSET Values]

LEMMA ReturnTypes ==
  ASSUME FlowTypes, NEW f \in Flows, NEW promises \in [Flows -> Awaitable], Return(f, promises)
  PROVE  FlowTypes'
BY PromiseTypes, ValuesAreNumbers DEF FlowTypes, Return, Stages

LEMMA AwaitTypes ==
  ASSUME FlowTypes, NEW f, NEW i \in Values, NEW far \in Stages, AwaitWrites(f, i, far)
  PROVE  pc' \in [Flows -> Stages] /\ until' \in [Flows -> Values]
BY DEF FlowTypes, AwaitWrites

LEMMA BeginTypes ==
  ASSUME Types, NEW f, NEW p \in Properties, Begin(f, p)
  PROVE  /\ target' \in [Flows -> Properties \cup {NoProperty}]
         /\ seen' \in [Flows -> SUBSET Values] /\ prior' \in [Flows -> SUBSET Values]
<1>1. Queued \subseteq Values /\ stored[p] \in Values
  BY WriteNumbers DEF Types, WritesOK, Queued
<1>2. QED
  BY <1>1 DEF Begin, Types

LEMMA ForgetTypes ==
  ASSUME Types, NEW ps, Forget(ps)
  PROVE  assigned' \in [Properties -> Assignable] /\ cached' \in [Properties -> Cacheable]
BY PromiseTypes DEF Types, Forget

LEMMA ApplyTypes ==
  ASSUME Types, NEW i \in Values, NEW p \in Properties, Apply(i, p)
  PROVE  stored' \in [Properties -> Values] /\ seen' \in [Flows -> SUBSET Values]
BY DEF Types, Apply

LEMMA TypesSplit ==
  Types <=> /\ setup \in Setups /\ stored \in [Properties -> Values]
            /\ WritesOK /\ Len(writes) <= MaxWrites /\ tail \in Values /\ error \in Values
            /\ assigned \in [Properties -> Assignable] /\ cached \in [Properties -> Cacheable]
            /\ FlowTypes /\ unreported \subseteq Values
BY DEF Types, WritesOK, FlowTypes

LEMMA TypesCall ==
  ASSUME Types, NEW f \in Flows, Call(f)
  PROVE  Types'
<1>0. /\ WritesOK /\ FlowTypes /\ tail \in Values /\ Len(writes) <= MaxWrites
      /\ {"flushing", "preparing", "sending", "awaiting"} \subseteq Stages /\ Len(writes) \in Nat
  BY TypesSplit DEF Stages, WritesOK
<1>1. ASSUME NEW p \in Properties, QueueWrite(p)
      PROVE  /\ WritesOK' /\ Len(writes') <= MaxWrites /\ tail' \in Values
             /\ assigned' \in [Properties -> Assignable] /\ Len(writes) + 1 \in Values
  <2>1. AddWrite(p, TRUE, "waiting") /\ "waiting" \in States
    BY <1>1 DEF QueueWrite, States
  <2>2. WritesOK' /\ Len(writes') = Len(writes) + 1 /\ Len(writes) < MaxWrites /\ Len(writes) + 1 \in Values
    BY <1>0, <2>1, WriteAppended
  <2>3. OfWrite(Len(writes) + 1) \in Assignable
    BY <2>2, PromiseTypes
  <2>4. QED
    BY <1>0, <1>1, <2>2, <2>3, ValuesAreNumbers DEF QueueWrite, Types
<1>2. ASSUME NEW p \in Properties, Assign(f, p) PROVE Types'
  BY <1>1, <1>2 DEF Assign, Types, WritesOK, flow, ghost
<1>3. ASSUME NEW p \in Properties, Set(f, p) PROVE Types'
  BY <1>0, <1>1, <1>3, AwaitTypes DEF Set, Types, WritesOK, ghost
<1>4. ASSUME NEW p \in Properties, SendDirect(f, p) PROVE Types'
  <2>1. AddWrite(p, FALSE, "waiting") /\ "waiting" \in States
    BY <1>4 DEF SendDirect, States
  <2>2. WritesOK' /\ Len(writes') = Len(writes) + 1 /\ Len(writes) < MaxWrites /\ Len(writes) + 1 \in Values
    BY <1>0, <2>1, WriteAppended
  <2>3. Len(writes') <= MaxWrites
    BY <1>0, <2>2, ValuesAreNumbers
  <2>4. QED
    BY <1>0, <1>4, <2>2, <2>3, AwaitTypes DEF SendDirect, Types, WritesOK, ghost, kept
<1>5. CASE Flush(f)
  BY <1>0, <1>5, AwaitTypes DEF Flush, Types, ghost, kept
<1>6. CASE RefreshAll(f)
  BY <1>0, <1>6, AwaitTypes, ForgetTypes DEF RefreshAll, Types, ghost
<1>7. ASSUME NEW ps, ClearCache(f, ps) PROVE Types'
  BY <1>7, ForgetTypes DEF ClearCache, Types, flow, ghost
<1>8. ASSUME NEW p \in Properties, ReadKept(f, p) PROVE Types'
  <2>1. Found(p) \in Awaitable
    BY PromiseTypes DEF Found, Types
  <2>2. QED
    BY <1>0, <1>8, <2>1, BeginTypes DEF ReadKept, Types, kept
<1>9. ASSUME NEW p \in Properties, Read(f, p) PROVE Types'
  BY <1>0, <1>9, AwaitTypes, BeginTypes DEF Read, Types, kept
<1>10. ASSUME NEW p \in Properties, Refresh(f, p) PROVE Types'
  BY <1>0, <1>10, AwaitTypes, BeginTypes, ForgetTypes DEF Refresh, Types
<1>11. QED
  BY <1>2, <1>3, <1>4, <1>5, <1>6, <1>7, <1>8, <1>9, <1>10 DEF Call

(* The promises that are kept, and those that are awaited.                 *)
KeptPromised ==
  /\ \A p \in Properties, i \in Values :
       assigned[p] = OfWrite(i) => i \in Queued /\ writes[i].prop = p /\ ~Settled(i)
  /\ \A p \in Properties, f \in Flows :
       cached[p] = OfRead(f) => pc[f] \in {"reading", "marshalling"} /\ target[f] = p

AwaitedPromised ==
  /\ \A f \in Flows, i \in Values : on[f] = OfWrite(i) => i \in Queued /\ ~Settled(i)
  /\ \A f, g \in Flows : on[f] = OfRead(g) => pc[g] \in {"reading", "marshalling"}

(* A read under way has seen what the object has now, and what its send    *)
(* has read.                                                               *)
Reading(f) == pc[f] \in {"preparing", "reading", "marshalling", "awaiting"}

SeenOK ==
  \A f \in Flows :
    /\ Reading(f) => target[f] \in Properties /\ stored[target[f]] \in seen[f]
    /\ pc[f] = "marshalling" => \E v \in seen[f] : on[f] = Value(v)

LEMMA FlowSame ==
  ASSUME FlowTypes, UNCHANGED <<flow, seen, prior>>
  PROVE  FlowTypes'
BY DEF FlowTypes, flow

LEMMA TypesGoOn ==
  ASSUME Types, SeenOK, NEW f \in Flows, GoOn(f) \/ Message(f)
  PROVE  Types'
<1>0. FlowTypes /\ on \in [Flows -> Awaitable] /\ 0 \in Values
  BY TypesSplit, ValuesAreNumbers DEF FlowTypes
<1> DEFINE Rest == /\ setup \in Setups /\ stored \in [Properties -> Values]
                   /\ writes \in Seq(Writes) /\ Len(writes) <= MaxWrites /\ tail \in Values
                   /\ error \in Values /\ unreported \subseteq Values
                   /\ assigned \in [Properties -> Assignable]
                   /\ cached \in [Properties -> Cacheable]
<1>a. Rest /\ FlowTypes <=> Types
  BY DEF Types, FlowTypes
<1>b. (Rest /\ FlowTypes <=> Types)'
  BY DEF Types, FlowTypes
<1>1. CASE Throw(f)
  <2>1. Return(f, on) /\ Rest'
    BY <1>0, <1>1, <1>a DEF Throw, kept
  <2>2. FlowTypes'
    BY <1>0, <2>1, ReturnTypes
  <2>3. QED
    BY <1>b, <2>1, <2>2
<1>2. CASE FlushDone(f) \/ KeptDone(f) \/ SendDone(f)
  <2>1. CASE ~Throw(f)
    <3>1. Return(f, on) /\ Rest'
      BY <1>2, <1>a, <2>1 DEF FlushDone, KeptDone, SendDone, kept
    <3>2. FlowTypes'
      BY <1>0, <3>1, ReturnTypes
    <3>3. QED
      BY <1>b, <3>1, <3>2
  <2>2. QED
    BY <1>1, <2>1
<1>3. CASE WritesDone(f)
  <2>1. OfRead(f) \in Cacheable /\ "reading" \in Stages
    BY PromiseTypes DEF Stages
  <2>2. QED
    BY <1>1, <1>3, <2>1 DEF WritesDone, Types, ghost
<1>4. CASE ReadPerform(f)
  <2>1. target[f] \in Properties
    BY <1>4 DEF ReadPerform, SeenOK, Reading
  <2>2. Value(stored[target[f]]) \in Awaitable
    BY <2>1, PromiseTypes DEF Types
  <2>3. QED
    BY <1>4, <2>2 DEF ReadPerform, Types, ghost, kept, Stages
<1>5. ASSUME NEW answer \in Cacheable, ReadEnds(f, answer) PROVE Types'
  <2>1. cached' \in [Properties -> Cacheable] /\ Settle(on, OfRead(f), answer) \in [Flows -> Awaitable]
    BY <1>0, <1>5, SettleType, PromiseTypes DEF ReadEnds, Types
  <2>2. FlowTypes'
    BY <1>0, <1>5, <2>1, ReturnTypes DEF ReadEnds
  <2>3. Rest'
    BY <1>5, <1>a, <2>1 DEF ReadEnds
  <2>4. QED
    BY <1>b, <2>2, <2>3
<1>6. CASE ReadFails(f)
  BY <1>5, <1>6, PromiseTypes DEF ReadFails
<1>7. CASE ReadDone(f)
  <2>1. PICK v \in seen[f] : on[f] = Value(v)
    BY <1>7 DEF ReadDone, SeenOK
  <2>2. on[f] \in Cacheable
    BY <2>1, PromiseTypes DEF Types
  <2>3. QED
    BY <1>5, <1>7, <2>2 DEF ReadDone
<1>8. QED
  BY <1>2, <1>3, <1>4, <1>6, <1>7 DEF GoOn, Message

(* A write that moves keeps its property as well. *)
LEMMA MovedWrite ==
  ASSUME WritesOK, NEW i \in DOMAIN writes, NEW how \in States, Move(i, how)
  PROVE  /\ WritesOK' /\ Len(writes') = Len(writes)
         /\ DOMAIN writes' = DOMAIN writes /\ Queued' = Queued
         /\ \A j \in DOMAIN writes :
              /\ writes'[j].prop = writes[j].prop
              /\ writes'[j].state = IF j = i THEN how ELSE writes[j].state
<1>1. writes \in Seq(Writes) /\ Len(writes) \in Nat /\ DOMAIN writes = 1..Len(writes)
  BY DEF WritesOK
<1>2. WritesOK' /\ DOMAIN writes' = DOMAIN writes /\ Queued' = Queued
  BY Moved
<1>3. \A j \in DOMAIN writes : writes[j] \in Writes
  BY <1>1
<1>4. \A j \in DOMAIN writes :
        writes'[j] = IF j = i THEN [writes[i] EXCEPT !.state = how] ELSE writes[j]
  BY DEF Move
<1>5. \A j \in DOMAIN writes : writes'[j].prop = writes[j].prop
  BY <1>3, <1>4 DEF Writes
<1>6. Len(writes') = Len(writes)
  BY <1>1, <1>2 DEF WritesOK
<1>7. QED
  BY <1>2, <1>5, <1>6, Moved

LEMMA TypesProgress ==
  ASSUME Types, NEW i \in DOMAIN writes, Progress(i)
  PROVE  Types'
<1>0. /\ WritesOK /\ FlowTypes /\ Len(writes) <= MaxWrites /\ i \in Values
      /\ writes[i].prop \in Properties
  BY TypesSplit, WriteNumbers DEF Writes
<1>1. ASSUME NEW how \in States, Move(i, how)
      PROVE  writes' \in Seq(Writes) /\ Len(writes') <= MaxWrites
  BY <1>0, <1>1, MovedWrite DEF WritesOK
<1>2. /\ {"performed", "ok", "failed"} \subseteq States
      /\ Value(i) \in Assignable \cap Cacheable /\ Value(i) \in Awaitable
      /\ Rejected \in Awaitable /\ Nothing \in Assignable \cap Cacheable
  BY <1>0, PromiseTypes DEF States
<1>3. CASE Perform(i)
  <2>1. stored' \in [Properties -> Values] /\ seen' \in [Flows -> SUBSET Values]
    BY <1>0, <1>3, ApplyTypes DEF Perform
  <2>2. writes' \in Seq(Writes) /\ Len(writes') <= MaxWrites
    BY <1>1, <1>2, <1>3 DEF Perform
  <2>3. QED
    BY <1>3, <2>1, <2>2 DEF Perform, Types, kept, flow
<1>4. CASE WriteArrives(i)
  <2>1. writes' \in Seq(Writes) /\ Len(writes') <= MaxWrites
    BY <1>1, <1>2, <1>4 DEF WriteArrives
  <2>2. on' \in [Flows -> Awaitable]
    BY <1>2, <1>4, SettleType DEF WriteArrives, Types
  <2>3. assigned' \in [Properties -> Assignable] /\ cached' \in [Properties -> Cacheable]
    <3>1. Settle(assigned, OfWrite(i), Value(i)) \in [Properties -> Assignable]
      BY <1>2, SettleType DEF Types
    <3>2. QED
      BY <1>0, <1>2, <1>4, <3>1 DEF WriteArrives, Types
  <2>4. QED
    BY <1>4, <2>1, <2>2, <2>3 DEF WriteArrives, Types, ghost
<1>5. CASE WriteFails(i)
  <2>1. writes' \in Seq(Writes) /\ Len(writes') <= MaxWrites
    BY <1>1, <1>2, <1>5 DEF WriteFails
  <2>2. on' \in [Flows -> Awaitable]
    BY <1>2, <1>5, SettleType DEF WriteFails, Types
  <2>3. assigned' \in [Properties -> Assignable] /\ cached' \in [Properties -> Cacheable]
    BY <1>0, <1>2, <1>5 DEF WriteFails, Types
  <2>4. error' \in Values /\ unreported' \subseteq Values
    BY <1>0, <1>5 DEF WriteFails, Types
  <2>5. QED
    BY <1>5, <2>1, <2>2, <2>3, <2>4 DEF WriteFails, Types
<1>6. CASE DirectEnds(i)
  <2>1. writes' \in Seq(Writes) /\ Len(writes') <= MaxWrites
    BY <1>1, <1>2, <1>6 DEF DirectEnds
  <2>2. QED
    BY <1>6, <2>1 DEF DirectEnds, Types, kept, flow, ghost
<1>7. QED
  BY <1>3, <1>4, <1>5, <1>6 DEF Progress

LEMMA TypesStep ==
  ASSUME Types, SeenOK, [MappingNext]_mappingVars
  PROVE  Types'
<1>1. ASSUME NEW p \in Properties, External(p) PROVE Types'
  <2>0. WritesOK /\ "ok" \in States /\ AddWrite(p, FALSE, "ok") /\ Apply(Len(writes) + 1, p)
    BY <1>1, TypesSplit DEF External, States
  <2>1. WritesOK' /\ Len(writes') = Len(writes) + 1 /\ Len(writes) < MaxWrites /\ Len(writes) + 1 \in Values
    BY <2>0, WriteAppended
  <2>2. stored' \in [Properties -> Values] /\ seen' \in [Flows -> SUBSET Values]
    BY <2>0, <2>1, ApplyTypes
  <2>3. writes' \in Seq(Writes) /\ Len(writes') <= MaxWrites
    BY <2>0, <2>1, ValuesAreNumbers DEF WritesOK
  <2>4. QED
    BY <1>1, <2>2, <2>3 DEF External, Types, kept, flow
<1>2. CASE UNCHANGED mappingVars
  BY <1>2 DEF mappingVars, kept, flow, ghost, Types
<1>3. QED
  BY <1>1, <1>2, TypesCall, TypesGoOn, TypesProgress DEF MappingNext

-----------------------------------------------------------------------------
(* What the flows that read have seen                                      *)

(* What becomes of the others when the call of f returns or goes on.       *)
LEMMA OthersStay ==
  ASSUME FlowTypes, NEW f \in Flows, NEW promises, NEW g \in Flows, g # f, Return(f, promises),
         DOMAIN promises = Flows
  PROVE  /\ pc'[g] = pc[g] /\ target'[g] = target[g] /\ until'[g] = until[g]
         /\ on'[g] = promises[g] /\ seen'[g] = seen[g] /\ prior'[g] = prior[g]
BY DEF FlowTypes, Return

LEMMA ReturnsIdle ==
  ASSUME FlowTypes, NEW f \in Flows, NEW promises, Return(f, promises), DOMAIN promises = Flows
  PROVE  pc'[f] = "idle" /\ on'[f] = Nothing
BY DEF FlowTypes, Return

LEMMA Begun ==
  ASSUME FlowTypes, NEW f \in Flows, NEW p \in Properties, Begin(f, p)
  PROVE  /\ target'[f] = p /\ seen'[f] = {stored[p]}
         /\ prior'[f] = {i \in Queued : writes[i].prop = p /\ writes[i].state # "failed"}
         /\ \A g \in Flows : g # f =>
              target'[g] = target[g] /\ seen'[g] = seen[g] /\ prior'[g] = prior[g]
BY DEF FlowTypes, Begin

LEMMA Awaited ==
  ASSUME FlowTypes, NEW f \in Flows, NEW i, NEW far, AwaitWrites(f, i, far)
  PROVE  /\ pc'[f] = far /\ until'[f] = i
         /\ \A g \in Flows : g # f => pc'[g] = pc[g] /\ until'[g] = until[g]
BY DEF FlowTypes, AwaitWrites

SeenAt(f) ==
  /\ Reading(f) => target[f] \in Properties /\ stored[target[f]] \in seen[f]
  /\ pc[f] = "marshalling" => \E v \in seen[f] : on[f] = Value(v)

LEMMA SeenSame ==
  ASSUME NEW f, SeenAt(f), pc'[f] = pc[f], target'[f] = target[f], on'[f] = on[f],
         seen'[f] = seen[f], stored' = stored
  PROVE  SeenAt(f)'
BY DEF SeenAt, Reading

LEMMA NotReading ==
  ASSUME NEW f, pc'[f] \in {"idle", "flushing", "sending"}
  PROVE  SeenAt(f)'
BY DEF SeenAt, Reading

LEMMA SeenCall ==
  ASSUME Types, SeenOK, NEW f \in Flows, Call(f)
  PROVE  SeenOK'
<1>0. FlowTypes /\ pc[f] = "idle"
  BY TypesSplit DEF Call, Flush, RefreshAll, ClearCache, Assign, Set, SendDirect, ReadKept, Read, Refresh, Idle
<1>1. \A g \in Flows : SeenAt(g)
  BY DEF SeenOK, SeenAt
<1>2. SUFFICES ASSUME NEW g \in Flows PROVE SeenAt(g)'
  BY DEF SeenOK, SeenAt
<1>3. ASSUME UNCHANGED <<flow, ghost, stored>> PROVE SeenAt(g)'
  BY <1>1, <1>3, SeenSame DEF flow, ghost
<1>4. ASSUME NEW i, NEW far \in {"flushing", "sending"}, AwaitWrites(f, i, far),
             UNCHANGED <<target, on, ghost, stored>>
      PROVE  SeenAt(g)'
  <2>1. CASE g = f
    BY <1>0, <1>4, <2>1, Awaited, NotReading
  <2>2. CASE g # f
    BY <1>0, <1>1, <1>4, <2>2, Awaited, SeenSame DEF ghost
  <2>3. QED
    BY <2>1, <2>2
<1>5. ASSUME NEW p \in Properties, Begin(f, p), UNCHANGED stored,
             \/ AwaitWrites(f, tail, "preparing") /\ UNCHANGED on
             \/ pc' = [pc EXCEPT ![f] = "awaiting"] /\ on' = [on EXCEPT ![f] = Found(p)]
      PROVE  SeenAt(g)'
  <2>1. pc'[f] \in {"preparing", "awaiting"} /\ (g # f => pc'[g] = pc[g] /\ on'[g] = on[g])
    BY <1>0, <1>5, Awaited DEF FlowTypes
  <2>2. CASE g = f
    BY <1>0, <1>5, <2>1, <2>2, Begun DEF SeenAt, Reading
  <2>3. CASE g # f
    BY <1>0, <1>1, <1>5, <2>1, <2>3, Begun, SeenSame
  <2>4. QED
    BY <2>2, <2>3
<1>6. CASE Flush(f) \/ RefreshAll(f) \/ \E p \in Properties : Set(f, p) \/ SendDirect(f, p)
  BY <1>4, <1>6 DEF Flush, RefreshAll, Set, SendDirect
<1>7. CASE ClearCache(f, Properties) \/ \E p \in Properties : Assign(f, p) \/ ClearCache(f, {p})
  BY <1>3, <1>7 DEF ClearCache, Assign
<1>8. CASE \E p \in Properties : ReadKept(f, p) \/ Read(f, p) \/ Refresh(f, p)
  BY <1>5, <1>8 DEF ReadKept, Read, Refresh
<1>9. QED
  BY <1>6, <1>7, <1>8 DEF Call

LEMMA SeenGoOn ==
  ASSUME Types, SeenOK, NEW f \in Flows, GoOn(f) \/ Message(f)
  PROVE  SeenOK'
<1>0. FlowTypes /\ DOMAIN on = Flows /\ DOMAIN pc = Flows
  BY TypesSplit DEF FlowTypes
<1>1. \A g \in Flows : SeenAt(g)
  BY DEF SeenOK, SeenAt
<1>2. SUFFICES ASSUME NEW g \in Flows PROVE SeenAt(g)'
  BY DEF SeenOK, SeenAt
<1>3. ASSUME Return(f, on), UNCHANGED stored PROVE SeenAt(g)'
  <2>1. CASE g = f
    BY <1>0, <1>3, <2>1, ReturnsIdle, NotReading
  <2>2. CASE g # f
    BY <1>0, <1>1, <1>3, <2>2, OthersStay, SeenSame
  <2>3. QED
    BY <2>1, <2>2
<1>4. ASSUME NEW answer, ReadEnds(f, answer) PROVE SeenAt(g)'
  <2>0. DOMAIN Settle(on, OfRead(f), answer) = Flows /\ UNCHANGED stored
    BY <1>0, <1>4, SettleDef DEF ReadEnds
  <2>1. CASE g = f
    BY <1>0, <1>4, <2>0, <2>1, ReturnsIdle, NotReading DEF ReadEnds
  <2>2. CASE g # f
    <3>1. /\ pc'[g] = pc[g] /\ target'[g] = target[g] /\ seen'[g] = seen[g]
          /\ on'[g] = Settle(on, OfRead(f), answer)[g]
      BY <1>0, <1>4, <2>0, <2>2, OthersStay DEF ReadEnds
    <3>2. on[g] # OfRead(f) => on'[g] = on[g]
      BY <1>0, <3>1, SettleDef
    <3>3. pc[g] = "marshalling" => on[g] # OfRead(f)
      BY <1>1, Kinds DEF SeenAt
    <3>4. QED
      BY <1>1, <2>0, <3>1, <3>2, <3>3 DEF SeenAt, Reading
  <2>3. QED
    BY <2>1, <2>2
<1>5. CASE FlushDone(f) \/ KeptDone(f) \/ SendDone(f)
  BY <1>3, <1>5 DEF FlushDone, KeptDone, SendDone, Throw
<1>6. CASE WritesDone(f)
  <2>1. CASE Throw(f)
    BY <1>3, <2>1 DEF Throw
  <2>2. CASE ~Throw(f)
    <3>1. /\ pc[f] = "preparing" /\ pc' = [pc EXCEPT ![f] = "reading"]
          /\ UNCHANGED <<target, on, seen, stored>>
      BY <1>6, <2>2 DEF WritesDone, ghost
    <3>2. pc'[g] = IF g = f THEN "reading" ELSE pc[g]
      BY <1>0, <3>1
    <3>3. QED
      BY <1>1, <3>1, <3>2 DEF SeenAt, Reading
  <2>3. QED
    BY <2>1, <2>2
<1>7. CASE ReadPerform(f)
  <2>1. /\ pc[f] = "reading" /\ UNCHANGED <<target, seen, stored>>
        /\ pc' = [pc EXCEPT ![f] = "marshalling"]
        /\ on' = [on EXCEPT ![f] = Value(stored[target[f]])]
    BY <1>7 DEF ReadPerform, ghost
  <2>2. stored[target[f]] \in seen[f] /\ target[f] \in Properties
    BY <1>1, <2>1 DEF SeenAt, Reading
  <2>3. CASE g = f
    <3>1. on'[f] = Value(stored[target[f]]) /\ pc'[f] = "marshalling"
      BY <1>0, <2>1
    <3>2. QED
      BY <2>1, <2>2, <2>3, <3>1 DEF SeenAt, Reading
  <2>4. CASE g # f
    BY <1>0, <1>1, <2>1, <2>4, SeenSame
  <2>5. QED
    BY <2>3, <2>4
<1>8. CASE ReadDone(f) \/ ReadFails(f)
  BY <1>4, <1>8 DEF ReadDone, ReadFails
<1>9. QED
  BY <1>5, <1>6, <1>7, <1>8 DEF GoOn, Message

(* What a write or the commit of another session puts into the object is   *)
(* seen by the flows that read it.                                         *)
LEMMA SeenApplied ==
  ASSUME Types, NEW g \in Flows, SeenAt(g), NEW i, NEW p, Apply(i, p), UNCHANGED flow
  PROVE  SeenAt(g)'
<1>1. /\ \A q \in Properties : stored'[q] = IF q = p THEN i ELSE stored[q]
      /\ seen'[g] = IF target[g] = p THEN seen[g] \cup {i} ELSE seen[g]
  BY DEF Types, Apply
<1>2. pc' = pc /\ target' = target /\ on' = on
  BY DEF flow
<1>3. QED
  BY <1>1, <1>2 DEF SeenAt, Reading

LEMMA SeenStep ==
  ASSUME Types, SeenOK, [MappingNext]_mappingVars
  PROVE  SeenOK'
<1>0. DOMAIN on = Flows
  BY DEF Types
<1>1. \A g \in Flows : SeenAt(g)
  BY DEF SeenOK, SeenAt
<1>2. ASSUME NEW i \in DOMAIN writes, Progress(i) PROVE SeenOK'
  <2>1. SUFFICES ASSUME NEW g \in Flows PROVE SeenAt(g)'
    BY DEF SeenOK, SeenAt
  <2>2. CASE Perform(i)
    BY <1>1, <2>2, SeenApplied DEF Perform
  <2>3. CASE WriteArrives(i) \/ WriteFails(i)
    <3>1. PICK answer : on' = Settle(on, OfWrite(i), answer)
      BY <2>3 DEF WriteArrives, WriteFails
    <3>2. on[g] # OfWrite(i) => on'[g] = on[g]
      BY <1>0, <3>1, SettleDef
    <3>3. pc[g] = "marshalling" => on[g] # OfWrite(i)
      BY <1>1, Kinds DEF SeenAt
    <3>4. UNCHANGED <<pc, target, seen, stored>>
      BY <2>3 DEF WriteArrives, WriteFails, ghost
    <3>5. QED
      BY <1>1, <3>2, <3>3, <3>4 DEF SeenAt, Reading
  <2>4. CASE DirectEnds(i)
    BY <1>1, <2>4, SeenSame DEF DirectEnds, flow, ghost
  <2>5. QED
    BY <1>2, <2>2, <2>3, <2>4 DEF Progress
<1>3. ASSUME NEW p \in Properties, External(p) PROVE SeenOK'
  BY <1>1, <1>3, SeenApplied DEF External, SeenOK, SeenAt
<1>4. CASE UNCHANGED mappingVars
  BY <1>1, <1>4, SeenSame DEF mappingVars, flow, ghost, SeenOK, SeenAt
<1>5. QED
  BY <1>2, <1>3, <1>4, SeenCall, SeenGoOn DEF MappingNext

-----------------------------------------------------------------------------
(* Every promise is of something that will end                             *)

UnderWay(f) == pc[f] \in {"reading", "marshalling"}

(* A promise of a write is assigned, one of a read is cached. *)
LEMMA KeptKinds ==
  ASSUME Types, NEW p \in Properties
  PROVE  assigned[p].kind \notin {"read", "rejected"} /\ cached[p].kind # "write"
<1>1. assigned[p] \in Assignable /\ cached[p] \in Cacheable
  BY DEF Types
<1>2. QED
  BY <1>1, Kinds DEF Assignable, Cacheable, Kept

LEMMA PromisedSplit == Promised <=> KeptPromised /\ AwaitedPromised
BY DEF Promised, KeptPromised, AwaitedPromised

LEMMA ReadsUnderWay ==
  ASSUME Promised, NEW g \in Flows
  PROVE  /\ \A p \in Properties : cached[p] = OfRead(g) => UnderWay(g)
         /\ \A f \in Flows : on[f] = OfRead(g) => UnderWay(g)
BY DEF Promised, UnderWay

(* Steps that settle nothing: what is kept, and what is awaited, was there *)
(* before or is of a write in the queue or of a read under way.            *)
LEMMA NothingSettled ==
  ASSUME Types, Promised,
         \A i \in Queued : ~Settled(i) =>
           i \in Queued' /\ writes'[i].prop = writes[i].prop /\ ~Settled(i)',
         \A f \in Flows : UnderWay(f) => UnderWay(f)' /\ target'[f] = target[f],
         \A p \in Properties :
           \/ assigned'[p] = assigned[p]
           \/ assigned'[p] = Nothing
           \/ \E i \in Queued' : assigned'[p] = OfWrite(i) /\ writes'[i].prop = p /\ ~Settled(i)',
         \A p \in Properties :
           \/ cached'[p] = cached[p]
           \/ cached'[p] = Nothing
           \/ \E f \in Flows : cached'[p] = OfRead(f) /\ UnderWay(f)' /\ target'[f] = p,
         \A f \in Flows :
           \/ on'[f] = on[f]
           \/ on'[f].kind \notin {"write", "read"}
           \/ \E p \in Properties : on'[f] \in {assigned[p], cached[p]}
  PROVE  Promised'
<1>0. KeptPromised /\ AwaitedPromised
  BY PromisedSplit
<1>1. ASSUME NEW p \in Properties, NEW i \in Values, assigned'[p] = OfWrite(i)
      PROVE  i \in Queued' /\ writes'[i].prop = p /\ ~Settled(i)'
  <2>1. assigned'[p] # Nothing /\ \A j : assigned'[p] = OfWrite(j) => j = i
    BY <1>1, Kinds
  <2>2. CASE assigned'[p] = assigned[p]
    BY <1>0, <1>1, <2>2 DEF KeptPromised
  <2>3. QED
    BY <1>1, <2>1, <2>2
<1>2. ASSUME NEW p \in Properties, NEW f \in Flows, cached'[p] = OfRead(f)
      PROVE  UnderWay(f)' /\ target'[f] = p
  <2>1. cached'[p] # Nothing /\ \A g : cached'[p] = OfRead(g) => g = f
    BY <1>2, Kinds
  <2>2. CASE cached'[p] = cached[p]
    BY <1>0, <1>2, <2>2 DEF KeptPromised, UnderWay
  <2>3. QED
    BY <1>2, <2>1, <2>2
<1>3. ASSUME NEW f \in Flows, NEW i \in Values, on'[f] = OfWrite(i)
      PROVE  i \in Queued' /\ ~Settled(i)'
  <2>1. on'[f].kind = "write"
    BY <1>3, Kinds
  <2>2. CASE on'[f] = on[f]
    BY <1>0, <1>3, <2>2 DEF AwaitedPromised
  <2>3. ASSUME NEW p \in Properties, on'[f] = assigned[p] PROVE i \in Queued' /\ ~Settled(i)'
    BY <1>0, <1>3, <2>3 DEF KeptPromised
  <2>4. ASSUME NEW p \in Properties, on'[f] = cached[p] PROVE i \in Queued' /\ ~Settled(i)'
    BY <2>1, <2>4, KeptKinds
  <2>5. QED
    BY <2>1, <2>2, <2>3, <2>4
<1>4. ASSUME NEW f \in Flows, NEW g \in Flows, on'[f] = OfRead(g)
      PROVE  UnderWay(g)'
  <2>1. on'[f].kind = "read"
    BY <1>4, Kinds
  <2>2. CASE on'[f] = on[f]
    <3>1. UnderWay(g)
      BY <1>4, <2>2, ReadsUnderWay
    <3>2. QED
      BY <3>1
  <2>3. ASSUME NEW p \in Properties, on'[f] = assigned[p] PROVE UnderWay(g)'
    BY <2>1, <2>3, KeptKinds
  <2>4. ASSUME NEW p \in Properties, on'[f] = cached[p] PROVE UnderWay(g)'
    <3>1. UnderWay(g)
      BY <1>4, <2>4, ReadsUnderWay
    <3>2. QED
      BY <3>1
  <2>5. QED
    BY <2>1, <2>2, <2>3, <2>4
<1>5. QED
  BY <1>1, <1>2, <1>3, <1>4 DEF Promised, UnderWay

LEMMA WritesGrow ==
  ASSUME Types, NEW p \in Properties, NEW queued \in BOOLEAN, NEW how \in States,
         AddWrite(p, queued, how)
  PROVE  /\ \A i \in Queued : i \in Queued' /\ writes'[i] = writes[i] /\ Settled(i)' = Settled(i)
         /\ queued => Len(writes) + 1 \in Queued'
         /\ Queued' \subseteq Queued \cup {Len(writes) + 1}
<1>1. WritesOK
  BY TypesSplit
<1>2. /\ DOMAIN writes' = DOMAIN writes \cup {Len(writes) + 1}
      /\ \A i \in DOMAIN writes : writes'[i] = writes[i]
      /\ queued => writes'[Len(writes) + 1].queued
  BY <1>1, WriteAppended
<1>3. \A i \in Queued : i \in Queued' /\ writes'[i] = writes[i] /\ Settled(i)' = Settled(i)
  BY <1>2 DEF Queued, Settled
<1>4. queued => Len(writes) + 1 \in Queued'
  BY <1>2 DEF Queued
<1>5. Queued' \subseteq Queued \cup {Len(writes) + 1}
  BY <1>2 DEF Queued
<1>6. QED
  BY <1>3, <1>4, <1>5

LEMMA PromisedCall ==
  ASSUME Types, Promised, NEW f \in Flows, Call(f)
  PROVE  Promised'
<1>0. /\ FlowTypes /\ pc[f] = "idle" /\ WritesOK
      /\ DOMAIN assigned = Properties /\ DOMAIN cached = Properties
      /\ DOMAIN on = Flows /\ DOMAIN pc = Flows
  BY TypesSplit DEF FlowTypes, Call, Flush, RefreshAll, ClearCache, Assign, Set, SendDirect,
                    ReadKept, Read, Refresh, Idle
<1>1. ASSUME UNCHANGED writes
      PROVE  \A i \in Queued : ~Settled(i) =>
               i \in Queued' /\ writes'[i].prop = writes[i].prop /\ ~Settled(i)'
  BY <1>1 DEF Queued, Settled
<1>2. ASSUME NEW p \in Properties, QueueWrite(p)
      PROVE  /\ \A i \in Queued : ~Settled(i) =>
                   i \in Queued' /\ writes'[i].prop = writes[i].prop /\ ~Settled(i)'
             /\ \A q \in Properties :
                  \/ assigned'[q] = assigned[q]
                  \/ \E i \in Queued' : assigned'[q] = OfWrite(i) /\ writes'[i].prop = q /\ ~Settled(i)'
  <2>1. AddWrite(p, TRUE, "waiting") /\ "waiting" \in States
    BY <1>2 DEF QueueWrite, States
  <2>2. /\ \A i \in Queued : i \in Queued' /\ writes'[i] = writes[i] /\ Settled(i)' = Settled(i)
        /\ Len(writes) + 1 \in Queued'
    BY <2>1, WritesGrow
  <2>3. writes'[Len(writes) + 1].prop = p /\ writes'[Len(writes) + 1].state = "waiting"
    BY <1>0, <2>1, WriteAppended
  <2>4. \A n : n = Len(writes) + 1 => n \in Queued' /\ writes'[n].prop = p /\ ~Settled(n)'
    BY <2>2, <2>3 DEF Settled, Queued
  <2>5. \A q \in Properties :
          assigned'[q] = IF q = p THEN OfWrite(Len(writes) + 1) ELSE assigned[q]
    BY <1>0, <1>2 DEF QueueWrite
  <2>6. QED
    BY <2>2, <2>4, <2>5
<1>3. ASSUME NEW ps, Forget(ps)
      PROVE  \A p \in Properties : /\ assigned'[p] \in {assigned[p], Nothing}
                                   /\ cached'[p] \in {cached[p], Nothing}
  BY <1>3 DEF Forget
<1>4. ASSUME UNCHANGED pc, UNCHANGED target
      PROVE  \A g \in Flows : UnderWay(g) => UnderWay(g)' /\ target'[g] = target[g]
  BY <1>4 DEF UnderWay
<1>5. ASSUME NEW i, NEW far, AwaitWrites(f, i, far),
             UNCHANGED target \/ \E p \in Properties : Begin(f, p)
      PROVE  \A g \in Flows : UnderWay(g) => UnderWay(g)' /\ target'[g] = target[g]
  BY <1>0, <1>5, Awaited, Begun DEF UnderWay
<1>6. CASE Flush(f)
  BY <1>1, <1>5, <1>6, NothingSettled DEF Flush, kept
<1>7. CASE RefreshAll(f)
  BY <1>1, <1>3, <1>5, <1>7, NothingSettled DEF RefreshAll
<1>8. ASSUME NEW ps, ClearCache(f, ps) PROVE Promised'
  BY <1>1, <1>3, <1>4, <1>8, NothingSettled DEF ClearCache, flow
<1>9. ASSUME NEW p \in Properties, Assign(f, p) PROVE Promised'
  BY <1>2, <1>4, <1>9, NothingSettled DEF Assign, flow
<1>10. ASSUME NEW p \in Properties, Set(f, p) PROVE Promised'
  BY <1>2, <1>5, <1>10, NothingSettled DEF Set
<1>11. ASSUME NEW p \in Properties, SendDirect(f, p) PROVE Promised'
  <2>1. AddWrite(p, FALSE, "waiting") /\ "waiting" \in States
    BY <1>11 DEF SendDirect, States
  <2>2. \A i \in Queued : i \in Queued' /\ writes'[i] = writes[i] /\ Settled(i)' = Settled(i)
    BY <2>1, WritesGrow
  <2>3. QED
    BY <1>5, <1>11, <2>2, NothingSettled DEF SendDirect, kept
<1>12. ASSUME NEW p \in Properties, ReadKept(f, p) PROVE Promised'
  <2>1. \A g \in Flows : UnderWay(g) => UnderWay(g)' /\ target'[g] = target[g]
    BY <1>0, <1>12, Begun DEF ReadKept, UnderWay
  <2>2. \A g \in Flows : on'[g] = on[g] \/ on'[g] \in {assigned[p], cached[p]}
    BY <1>0, <1>12 DEF ReadKept, Found
  <2>3. UNCHANGED <<writes, kept>>
    BY <1>12 DEF ReadKept
  <2>4. QED
    BY <1>1, <2>1, <2>2, <2>3, NothingSettled DEF kept
<1>13. ASSUME NEW p \in Properties, Read(f, p) PROVE Promised'
  BY <1>1, <1>5, <1>13, NothingSettled DEF Read, kept
<1>14. ASSUME NEW p \in Properties, Refresh(f, p) PROVE Promised'
  BY <1>1, <1>3, <1>5, <1>14, NothingSettled DEF Refresh
<1>15. QED
  BY <1>6, <1>7, <1>8, <1>9, <1>10, <1>11, <1>12, <1>13, <1>14 DEF Call

LEMMA PromisedGoOn ==
  ASSUME Types, Promised, SeenOK, NEW f \in Flows, GoOn(f) \/ Message(f)
  PROVE  Promised'
<1>0. FlowTypes /\ DOMAIN on = Flows /\ DOMAIN pc = Flows /\ DOMAIN cached = Properties
  BY TypesSplit DEF FlowTypes, Types
<1>1. ASSUME UNCHANGED writes
      PROVE  \A i \in Queued : ~Settled(i) =>
               i \in Queued' /\ writes'[i].prop = writes[i].prop /\ ~Settled(i)'
  BY <1>1 DEF Queued, Settled
<1>2. ASSUME Return(f, on), ~UnderWay(f), UNCHANGED <<writes, kept>> PROVE Promised'
  <2>1. \A g \in Flows : UnderWay(g) => UnderWay(g)' /\ target'[g] = target[g]
    BY <1>0, <1>2, OthersStay DEF UnderWay
  <2>2. \A g \in Flows : on'[g] = on[g] \/ on'[g].kind \notin {"write", "read"}
    BY <1>0, <1>2, OthersStay, ReturnsIdle, Kinds
  <2>3. QED
    BY <1>1, <1>2, <2>1, <2>2, NothingSettled DEF kept
<1>3. CASE FlushDone(f) \/ KeptDone(f) \/ SendDone(f)
  BY <1>2, <1>3 DEF FlushDone, KeptDone, SendDone, Throw, UnderWay
<1>4. CASE WritesDone(f)
  <2>1. CASE Throw(f)
    BY <1>2, <1>4, <2>1 DEF WritesDone, Throw, UnderWay
  <2>2. CASE ~Throw(f)
    <3>1. /\ pc[f] = "preparing" /\ pc' = [pc EXCEPT ![f] = "reading"]
          /\ cached' = IF setup.cache THEN [cached EXCEPT ![target[f]] = OfRead(f)] ELSE cached
          /\ UNCHANGED <<writes, assigned, target, on>>
      BY <1>4, <2>2 DEF WritesDone
    <3>2. \A g \in Flows : UnderWay(g) => UnderWay(g)' /\ target'[g] = target[g]
      BY <1>0, <3>1 DEF UnderWay
    <3>3. UnderWay(f)' /\ target'[f] = target[f]
      BY <1>0, <3>1 DEF UnderWay
    <3>4. \A p \in Properties :
            cached'[p] = cached[p] \/ (cached'[p] = OfRead(f) /\ target'[f] = p)
      BY <1>0, <3>1
    <3>5. QED
      BY <1>1, <3>1, <3>2, <3>3, <3>4, NothingSettled
  <2>3. QED
    BY <2>1, <2>2
<1>5. CASE ReadPerform(f)
  <2>1. /\ pc[f] = "reading" /\ pc' = [pc EXCEPT ![f] = "marshalling"]
        /\ on' = [on EXCEPT ![f] = Value(stored[target[f]])]
        /\ UNCHANGED <<writes, assigned, cached, target>>
    BY <1>5 DEF ReadPerform, kept
  <2>2. \A g \in Flows : UnderWay(g) => UnderWay(g)' /\ target'[g] = target[g]
    BY <1>0, <2>1 DEF UnderWay
  <2>3. \A g \in Flows : on'[g] = on[g] \/ on'[g].kind \notin {"write", "read"}
    BY <1>0, <2>1, Kinds
  <2>4. QED
    BY <1>1, <2>1, <2>2, <2>3, NothingSettled
<1>6. ASSUME NEW answer, answer.kind \notin {"write", "read"}, UnderWay(f), ReadEnds(f, answer)
      PROVE  Promised'
  <2>0. KeptPromised /\ AwaitedPromised
    BY PromisedSplit
  <2>1. /\ Return(f, Settle(on, OfRead(f), answer)) /\ DOMAIN Settle(on, OfRead(f), answer) = Flows
        /\ UNCHANGED <<writes, assigned>> /\ cached' = Settle(cached, OfRead(f), answer)
    BY <1>0, <1>6, SettleDef DEF ReadEnds
  <2>2. \A g \in Flows : g # f => /\ pc'[g] = pc[g] /\ target'[g] = target[g]
                                  /\ on'[g] = IF on[g] = OfRead(f) THEN answer ELSE on[g]
    BY <1>0, <2>1, OthersStay, SettleDef
  <2>3. pc'[f] = "idle" /\ on'[f] = Nothing
    BY <1>0, <2>1, ReturnsIdle
  <2>4. \A p \in Properties : cached'[p] = IF cached[p] = OfRead(f) THEN answer ELSE cached[p]
    BY <1>0, <2>1, SettleDef
  <2>5. KeptPromised'
    <3>1. ASSUME NEW p \in Properties, NEW g \in Flows, cached'[p] = OfRead(g)
          PROVE  pc'[g] \in {"reading", "marshalling"} /\ target'[g] = p
      <4>1. cached[p] = OfRead(g) /\ g # f
        BY <1>6, <2>4, <3>1, Kinds
      <4>2. QED
        BY <2>0, <2>2, <4>1 DEF KeptPromised
    <3>2. QED
      BY <2>0, <2>1, <3>1 DEF KeptPromised, Queued, Settled
  <2>6. AwaitedPromised'
    <3>1. ASSUME NEW g \in Flows, NEW h \in Flows, on'[g] = OfRead(h)
          PROVE  pc'[h] \in {"reading", "marshalling"}
      <4>1. on[g] = OfRead(h) /\ h # f
        BY <1>6, <2>2, <2>3, <3>1, Kinds
      <4>2. QED
        BY <2>0, <2>2, <4>1 DEF AwaitedPromised
    <3>2. ASSUME NEW g \in Flows, NEW i \in Values, on'[g] = OfWrite(i)
          PROVE  i \in Queued' /\ ~Settled(i)'
      <4>1. on[g] = OfWrite(i)
        BY <1>6, <2>2, <2>3, <3>2, Kinds
      <4>2. QED
        BY <2>0, <2>1, <4>1 DEF AwaitedPromised, Queued, Settled
    <3>3. QED
      BY <3>1, <3>2 DEF AwaitedPromised
  <2>7. QED
    BY <2>5, <2>6 DEF Promised, KeptPromised, AwaitedPromised
<1>7. CASE ReadDone(f)
  BY <1>6, <1>7, Kinds DEF ReadDone, SeenOK, UnderWay
<1>8. CASE ReadFails(f)
  BY <1>6, <1>8, Kinds DEF ReadFails, UnderWay
<1>9. QED
  BY <1>3, <1>4, <1>5, <1>7, <1>8 DEF GoOn, Message

LEMMA PromisedProgress ==
  ASSUME Types, Promised, NEW i \in DOMAIN writes, Progress(i)
  PROVE  Promised'
<1>0. /\ WritesOK /\ writes[i].prop \in Properties /\ DOMAIN on = Flows
      /\ DOMAIN assigned = Properties /\ DOMAIN cached = Properties
      /\ i \in Values /\ KeptPromised /\ AwaitedPromised
  BY TypesSplit, WriteNumbers, PromisedSplit DEF Writes, Types
<1>1. ASSUME NEW how \in States, Move(i, how)
      PROVE  /\ Queued' = Queued
             /\ \A j \in Queued : writes'[j].prop = writes[j].prop
             /\ \A j \in Queued : j # i => Settled(j)' = Settled(j)
             /\ how \in {"waiting", "performed"} /\ i \in Queued => ~Settled(i)'
  <2>1. /\ Queued' = Queued /\ DOMAIN writes' = DOMAIN writes
        /\ \A j \in DOMAIN writes :
             /\ writes'[j].prop = writes[j].prop
             /\ writes'[j].state = IF j = i THEN how ELSE writes[j].state
    BY <1>0, <1>1, MovedWrite
  <2>2. Queued \subseteq DOMAIN writes
    BY DEF Queued
  <2>3. \A j \in Queued : j # i => Settled(j)' = Settled(j)
    BY <2>1, <2>2 DEF Settled
  <2>4. how \in {"waiting", "performed"} /\ i \in Queued => ~Settled(i)'
    BY <2>1, <2>2 DEF Settled
  <2>5. QED
    BY <2>1, <2>2, <2>3, <2>4
<1>2. {"performed", "ok", "failed"} \subseteq States
  BY DEF States
<1>3. ASSUME UNCHANGED <<pc, target>>
      PROVE  \A g \in Flows : UnderWay(g) => UnderWay(g)' /\ target'[g] = target[g]
  BY <1>3 DEF UnderWay
<1>4. CASE Perform(i)
  <2>1. \A j \in Queued : ~Settled(j) =>
          j \in Queued' /\ writes'[j].prop = writes[j].prop /\ ~Settled(j)'
    BY <1>1, <1>2, <1>4 DEF Perform
  <2>2. UNCHANGED <<pc, target, assigned, cached, on>>
    BY <1>4 DEF Perform, kept, flow
  <2>3. QED
    BY <1>3, <2>1, <2>2, NothingSettled
<1>5. CASE DirectEnds(i)
  <2>1. i \notin Queued /\ (Move(i, "ok") \/ Move(i, "failed"))
    BY <1>5 DEF DirectEnds, Queued
  <2>2. \A j \in Queued : ~Settled(j) =>
          j \in Queued' /\ writes'[j].prop = writes[j].prop /\ ~Settled(j)'
    BY <1>1, <1>2, <2>1
  <2>3. UNCHANGED <<pc, target, assigned, cached, on>>
    BY <1>5 DEF DirectEnds, kept, flow
  <2>4. QED
    BY <1>3, <2>2, <2>3, NothingSettled
<1>6. ASSUME NEW how \in States, Move(i, how), UNCHANGED <<pc, target>>,
             NEW answer, answer.kind \notin {"write", "read"}, on' = Settle(on, OfWrite(i), answer),
             \A p \in Properties :
               /\ assigned'[p] = OfWrite(i) => writes[i].prop # p
               /\ assigned'[p] = assigned[p] \/ assigned'[p].kind # "write"
               /\ cached'[p] = cached[p] \/ cached'[p].kind # "read"
      PROVE  Promised'
  <2>0. \A j \in Queued : j # i =>
          j \in Queued' /\ writes'[j].prop = writes[j].prop /\ Settled(j)' = Settled(j)
    BY <1>1, <1>6
  <2>1. ASSUME NEW p \in Properties, NEW j \in Values, assigned'[p] = OfWrite(j)
        PROVE  j \in Queued' /\ writes'[j].prop = p /\ ~Settled(j)'
    <3>1. assigned[p] = OfWrite(j)
      BY <1>6, <2>1, Kinds
    <3>2. j \in Queued /\ writes[j].prop = p /\ ~Settled(j)
      BY <1>0, <3>1 DEF KeptPromised
    <3>3. j # i
      BY <1>6, <2>1, <3>2
    <3>4. QED
      BY <2>0, <3>2, <3>3
  <2>2. ASSUME NEW p \in Properties, NEW f \in Flows, cached'[p] = OfRead(f)
        PROVE  pc'[f] \in {"reading", "marshalling"} /\ target'[f] = p
    <3>1. cached[p] = OfRead(f)
      BY <1>6, <2>2, Kinds
    <3>2. QED
      BY <1>0, <1>6, <3>1 DEF KeptPromised
  <2>3. \A f \in Flows : on'[f] = IF on[f] = OfWrite(i) THEN answer ELSE on[f]
    BY <1>0, <1>6, SettleDef
  <2>4. ASSUME NEW f \in Flows, NEW j \in Values, on'[f] = OfWrite(j)
        PROVE  j \in Queued' /\ ~Settled(j)'
    <3>1. on[f] = OfWrite(j) /\ j # i
      BY <1>6, <2>3, <2>4, Kinds
    <3>2. j \in Queued /\ ~Settled(j)
      BY <1>0, <3>1 DEF AwaitedPromised
    <3>3. QED
      BY <2>0, <3>1, <3>2
  <2>5. ASSUME NEW f \in Flows, NEW g \in Flows, on'[f] = OfRead(g)
        PROVE  pc'[g] \in {"reading", "marshalling"}
    <3>1. on[f] = OfRead(g)
      BY <1>6, <2>3, <2>5, Kinds
    <3>2. QED
      BY <1>0, <1>6, <3>1 DEF AwaitedPromised
  <2>6. QED
    BY <2>1, <2>2, <2>4, <2>5 DEF Promised
<1>7. CASE WriteArrives(i)
  <2>1. /\ Move(i, "ok") /\ UNCHANGED <<pc, target>> /\ on' = Settle(on, OfWrite(i), Value(i))
        /\ Value(i).kind \notin {"write", "read"}
    BY <1>7, Kinds DEF WriteArrives
  <2>2. ASSUME NEW p \in Properties
        PROVE  /\ assigned'[p] = OfWrite(i) => writes[i].prop # p
               /\ assigned'[p] = assigned[p] \/ assigned'[p].kind # "write"
               /\ cached'[p] = cached[p] \/ cached'[p].kind # "read"
    <3>1. CASE setup.cache
      <4>1. assigned'[p] = IF assigned[p] = OfWrite(i) THEN Value(i) ELSE assigned[p]
        BY <1>0, <1>7, <3>1, SettleDef DEF WriteArrives
      <4>2. cached'[p] \in {cached[p], Value(i)}
        BY <1>0, <1>7, <3>1 DEF WriteArrives
      <4>3. QED
        BY <4>1, <4>2, Kinds
    <3>2. CASE ~setup.cache
      <4>1. /\ assigned'[p] = IF p = writes[i].prop THEN Nothing ELSE assigned[p]
            /\ cached'[p] = cached[p]
        BY <1>0, <1>7, <3>2 DEF WriteArrives
      <4>2. QED
        BY <4>1, Kinds
    <3>3. QED
      BY <3>1, <3>2
  <2>3. QED
    BY <1>2, <1>6, <2>1, <2>2
<1>8. CASE WriteFails(i)
  <2>1. /\ Move(i, "failed") /\ UNCHANGED <<pc, target>> /\ on' = Settle(on, OfWrite(i), Rejected)
        /\ Rejected.kind \notin {"write", "read"}
    BY <1>8, Kinds DEF WriteFails
  <2>2. ASSUME NEW p \in Properties
        PROVE  /\ assigned'[p] = OfWrite(i) => writes[i].prop # p
               /\ assigned'[p] = assigned[p] \/ assigned'[p].kind # "write"
               /\ cached'[p] = cached[p] \/ cached'[p].kind # "read"
    <3>1. /\ assigned'[p] = IF p = writes[i].prop THEN Nothing ELSE assigned[p]
          /\ cached'[p] \in {cached[p], Nothing}
      BY <1>0, <1>8 DEF WriteFails
    <3>2. QED
      BY <3>1, Kinds
  <2>3. QED
    BY <1>2, <1>6, <2>1, <2>2
<1>9. QED
  BY <1>4, <1>5, <1>7, <1>8 DEF Progress

LEMMA PromisedStep ==
  ASSUME Types, Promised, SeenOK, [MappingNext]_mappingVars
  PROVE  Promised'
<1>1. ASSUME NEW p \in Properties, External(p) PROVE Promised'
  <2>1. AddWrite(p, FALSE, "ok") /\ "ok" \in States /\ UNCHANGED <<pc, target, on, assigned, cached>>
    BY <1>1 DEF External, States, kept, flow
  <2>2. \A i \in Queued : i \in Queued' /\ writes'[i] = writes[i] /\ Settled(i)' = Settled(i)
    BY <2>1, WritesGrow
  <2>3. QED
    BY <2>1, <2>2, NothingSettled DEF UnderWay
<1>2. CASE UNCHANGED mappingVars
  BY <1>2 DEF mappingVars, kept, flow, Promised, Queued, Settled
<1>3. QED
  BY <1>1, <1>2, PromisedCall, PromisedGoOn, PromisedProgress DEF MappingNext

(* Types; the promises that are kept or awaited; what reads have seen.     *)
FlowInv == Types /\ Promised /\ SeenOK

LEMMA FlowInit == MappingInit => FlowInv
<1> SUFFICES ASSUME MappingInit PROVE FlowInv
  OBVIOUS
<1>1. Types
  BY PromiseTypes, ValuesAreNumbers DEF MappingInit, Types, Stages
<1>2. Promised /\ SeenOK
  BY Kinds DEF MappingInit, Promised, SeenOK, Reading
<1>3. QED
  BY <1>1, <1>2 DEF FlowInv

LEMMA FlowStep == FlowInv /\ [MappingNext]_mappingVars => FlowInv'
BY TypesStep, PromisedStep, SeenStep DEF FlowInv

(* No promise that is kept or awaited is one that nobody will settle: each *)
(* is of a write of the queue that has not ended, or of a read under way.  *)
THEOREM MappingTypes == MappingSpec => []MappingTypeOK
<1>1. FlowInv => MappingTypeOK
  BY DEF FlowInv, MappingTypeOK
<1>2. QED
  BY <1>1, FlowInit, FlowStep, PTL DEF MappingSpec

-----------------------------------------------------------------------------
(* What reads are answered with                                            *)

(* Nothing bypasses the queue of the proxy.                                *)
Plain == setup.extras \subseteq {"clear"}

Of(p)        == {i \in Queued : writes[i].prop = p}
NoneFails(p) == setup.extras = {} /\ \A i \in Of(p) : writes[i].state # "failed"
Current(p)   == setup.cache => NoneFails(p)

TailOK == Queued = DOMAIN writes /\ tail = Len(writes)

(* The object has the newest value that a write of the queue has put there.*)
StoredAt(p) ==
  /\ stored[p] = 0 \/ (stored[p] \in Of(p) /\ writes[stored[p]].state # "waiting")
  /\ \A i \in Of(p) : writes[i].state \in {"performed", "ok"} => i <= stored[p]

(* What is assigned is the newest write, under way or (with a cache)       *)
(* arrived; what is cached answers a read only if nothing has been written.*)
AssignedAt(p) ==
  assigned[p] = Nothing \/ \E i \in Of(p) :
    /\ \A j \in Of(p) : j <= i
    /\ \/ assigned[p] = OfWrite(i) /\ ~Settled(i)
       \/ assigned[p] = Value(i) /\ writes[i].state = "ok" /\ setup.cache
CachedAt(p) ==
  /\ ~setup.cache => cached[p] = Nothing
  /\ setup.cache /\ NoneFails(p) /\ assigned[p] = Nothing => Of(p) = {}
  /\ Of(p) = {} => \A v \in Values : cached[p] = Value(v) => v = 0
KeptAt(p) == AssignedAt(p) /\ CachedAt(p)

(* v is not older than what was written before the read of f, or that      *)
(* write has failed.                                                       *)
UpTo(f, v) == \A i \in prior[f] : i <= v \/ writes[i].state = "failed"

(* A read that asks the object has awaited the writes before it.           *)
AskedAt(f) ==
  /\ Reading(f) => prior[f] \subseteq Of(target[f])
  /\ pc[f] = "preparing" => until[f] \in Queued \cup {0} /\ \A i \in prior[f] : i <= until[f]
  /\ UnderWay(f) => \A i \in prior[f] : Settled(i)
  /\ pc[f] = "marshalling" =>
       \A v \in Values : on[f] = Value(v) => UpTo(f, v) /\ (Of(target[f]) = {} => v = 0)

(* A read that awaits what is kept will be answered with a value that the  *)
(* object has had since, or still gets, and that is not too old.           *)
AwaitedAt(f) ==
  pc[f] = "awaiting" /\ Current(target[f]) =>
    /\ \A i \in Values : on[f] = OfWrite(i) =>
         /\ i \in Of(target[f]) /\ UpTo(f, i)
         /\ writes[i].state = "performed" => i \in seen[f]
    /\ \A v \in Values : on[f] = Value(v) => v \in seen[f] /\ UpTo(f, v)
    /\ \A g \in Flows : on[f] = OfRead(g) =>
         /\ target[g] = target[f] /\ prior[f] = {}
         /\ \A v \in Values : pc[g] = "marshalling" /\ on[g] = Value(v) => v \in seen[f]

PropertiesOK == \A p \in Properties : StoredAt(p) /\ KeptAt(p)
ReadersOK    == \A f \in Flows : AskedAt(f) /\ AwaitedAt(f)

PlainInv == TailOK /\ PropertiesOK /\ ReadersOK

ReadInv == FlowInv /\ WritesInOrder /\ (Plain => PlainInv)

LEMMA OfNumbers ==
  ASSUME Types
  PROVE  \A p : \A i \in Of(p) : i \in Queued /\ i \in DOMAIN writes /\ i \in Values /\ i \in Nat /\ i # 0
BY TypesSplit, WriteNumbers DEF Of, Queued

LEMMA Numbers ==
  ASSUME Types
  PROVE  \A f \in Flows : /\ \A i \in prior[f] : i \in Values /\ i \in Int
                          /\ \A v \in seen[f] : v \in Values /\ v \in Int
BY ValuesAreNumbers DEF Types

LEMMA StoredSame ==
  ASSUME NEW p, StoredAt(p), UNCHANGED <<writes, stored>>
  PROVE  StoredAt(p)'
BY DEF StoredAt, Of, Queued

LEMMA KeptSame ==
  ASSUME NEW p, KeptAt(p), UNCHANGED <<writes, setup>>,
         assigned'[p] = assigned[p], cached'[p] = cached[p]
  PROVE  KeptAt(p)'
<1>1. AssignedAt(p)'
  BY DEF KeptAt, AssignedAt, Of, Queued, Settled
<1>2. CachedAt(p)'
  BY DEF KeptAt, CachedAt, Of, Queued, NoneFails
<1>3. QED
  BY <1>1, <1>2 DEF KeptAt

(* What is dropped is not current any more. *)
LEMMA KeptDropped ==
  ASSUME NEW p, assigned'[p] = Nothing, cached'[p] = Nothing, ~(NoneFails(p)')
  PROVE  KeptAt(p)'
BY Kinds DEF KeptAt, AssignedAt, CachedAt

LEMMA AskedSame ==
  ASSUME NEW f, AskedAt(f), UNCHANGED writes, pc'[f] = pc[f], target'[f] = target[f],
         until'[f] = until[f], prior'[f] = prior[f], pc[f] = "marshalling" => on'[f] = on[f]
  PROVE  AskedAt(f)'
BY DEF AskedAt, Reading, UnderWay, UpTo, Of, Queued, Settled

LEMMA AwaitedSame ==
  ASSUME Promised, NEW f \in Flows, AwaitedAt(f), UNCHANGED <<writes, setup>>, pc'[f] = pc[f],
         target'[f] = target[f], on'[f] = on[f], prior'[f] = prior[f], seen'[f] = seen[f],
         \A g \in Flows : UnderWay(g) => pc'[g] = pc[g] /\ target'[g] = target[g] /\ on'[g] = on[g]
  PROVE  AwaitedAt(f)'
<1>1. SUFFICES ASSUME (pc[f] = "awaiting" /\ Current(target[f]))' PROVE AwaitedAt(f)'
  BY DEF AwaitedAt
<1>2. pc[f] = "awaiting" /\ Current(target[f])
  BY <1>1 DEF Current, NoneFails, Of, Queued
<1>3. \A g \in Flows : on[f] = OfRead(g) => UnderWay(g)
  BY ReadsUnderWay
<1>4. QED
  BY <1>1, <1>2, <1>3 DEF AwaitedAt, UpTo, Of, Queued

LEMMA NoReader ==
  ASSUME NEW f, pc'[f] \in {"idle", "flushing", "sending"}
  PROVE  AskedAt(f)' /\ AwaitedAt(f)'
BY DEF AskedAt, AwaitedAt, Reading, UnderWay

(* A write that is assigned is behind all others of the queue, and kept.   *)
LEMMA PlainQueueWrite ==
  ASSUME Types, TailOK, PropertiesOK, NEW p \in Properties, QueueWrite(p),
         UNCHANGED <<setup, stored, cached>>
  PROVE  /\ TailOK' /\ PropertiesOK'
         /\ \A i \in Queued : i \in Queued' /\ writes'[i] = writes[i] /\ Settled(i)' = Settled(i)
         /\ \A q : Of(q) \subseteq Of(q)'
         /\ \A q : NoneFails(q)' => NoneFails(q)
<1>0. /\ WritesOK /\ AddWrite(p, TRUE, "waiting") /\ "waiting" \in States
      /\ tail' = Len(writes) + 1 /\ DOMAIN assigned = Properties
      /\ assigned' = [assigned EXCEPT ![p] = OfWrite(Len(writes) + 1)]
  BY TypesSplit DEF QueueWrite, States, Types
<1>1. /\ DOMAIN writes' = DOMAIN writes \cup {Len(writes) + 1} /\ Len(writes') = Len(writes) + 1
      /\ \A i \in DOMAIN writes : i \in Nat /\ i < Len(writes) + 1 /\ writes'[i] = writes[i]
      /\ writes'[Len(writes) + 1].prop = p /\ writes'[Len(writes) + 1].state = "waiting"
      /\ Len(writes) + 1 \in Values
  BY <1>0, WriteAppended
<1>2. PICK n : n = Len(writes) + 1
  OBVIOUS
<1>3. /\ \A i \in Queued : i \in Queued' /\ writes'[i] = writes[i] /\ Settled(i)' = Settled(i)
      /\ n \in Queued' /\ Queued' \subseteq Queued \cup {n}
  BY <1>0, <1>2, WritesGrow
<1>4. writes'[n].prop = p /\ writes'[n].state = "waiting" /\ n \notin Queued
  BY <1>1, <1>2 DEF Queued
<1>5. \A q : Of(q)' = IF q = p THEN Of(q) \cup {n} ELSE Of(q)
  BY <1>3, <1>4 DEF Of
<1>6. n \in Nat /\ \A i \in Queued : i \in Nat /\ i < n
  BY <1>1, <1>2, ValuesAreNumbers DEF Queued
<1>7. TailOK'
  BY <1>0, <1>1, <1>2, <1>3 DEF TailOK
<1>8. \A q : Of(q) \subseteq Queued
  BY DEF Of
<1>9. \A q : NoneFails(q)' => NoneFails(q)
  BY <1>3, <1>5, <1>8 DEF NoneFails
<1>10. ASSUME NEW q \in Properties PROVE StoredAt(q)'
  <2>1. StoredAt(q)
    BY DEF PropertiesOK
  <2>2. QED
    BY <1>3, <1>4, <1>5, <1>8, <2>1 DEF StoredAt
<1>11. ASSUME NEW q \in Properties PROVE KeptAt(q)'
  <2>1. KeptAt(q)
    BY DEF PropertiesOK
  <2>2. CASE q = p
    <3>1. assigned'[q] = OfWrite(n)
      BY <1>0, <1>2, <2>2
    <3>2. n \in Of(q)' /\ ~Settled(n)' /\ \A j \in Of(q)' : j <= n
      <4>1. n \in Of(q)' /\ \A j \in Of(q)' : j <= n
        BY <1>5, <1>6, <1>8, <2>2
      <4>2. n \in DOMAIN writes'
        BY <1>3 DEF Queued
      <4>3. QED
        BY <1>4, <4>1, <4>2 DEF Settled
    <3>3. AssignedAt(q)'
      BY <3>1, <3>2 DEF AssignedAt
    <3>4. assigned'[q] # Nothing
      BY <3>1, Kinds
    <3>5. QED
      BY <2>1, <3>2, <3>3, <3>4 DEF KeptAt, CachedAt
  <2>3. CASE q # p
    <3>1. assigned'[q] = assigned[q] /\ Of(q)' = Of(q)
      BY <1>0, <1>5, <2>3
    <3>2. AssignedAt(q)'
      BY <1>3, <1>8, <2>1, <3>1 DEF KeptAt, AssignedAt
    <3>3. CachedAt(q)'
      BY <1>9, <2>1, <3>1 DEF KeptAt, CachedAt
    <3>4. QED
      BY <3>2, <3>3 DEF KeptAt
  <2>4. QED
    BY <2>2, <2>3
<1>12. \A q : Of(q) \subseteq Of(q)'
  BY <1>5
<1>13. QED
  BY <1>3, <1>7, <1>9, <1>10, <1>11, <1>12 DEF PropertiesOK

(* ... and reads do not wait for it. *)
LEMMA QueuedLater ==
  ASSUME Types, Promised, NEW f \in Flows, AskedAt(f), AwaitedAt(f), UNCHANGED setup,
         \A i \in Queued : i \in Queued' /\ writes'[i] = writes[i] /\ Settled(i)' = Settled(i),
         \A q : Of(q) \subseteq Of(q)', \A q : NoneFails(q)' => NoneFails(q),
         pc'[f] = pc[f], UNCHANGED <<target, on, seen, prior>>, until'[f] = until[f],
         \A g \in Flows : UnderWay(g) => pc'[g] = pc[g]
  PROVE  AskedAt(f)' /\ AwaitedAt(f)'
<1>1. Reading(f) => prior[f] \subseteq Queued
  BY DEF AskedAt, Of
<1>2. Reading(f) => \A v : UpTo(f, v) => UpTo(f, v)'
  BY <1>1 DEF UpTo
<1>3. Reading(f)' = Reading(f) /\ UnderWay(f)' = UnderWay(f)
  BY DEF Reading, UnderWay
<1>4. AskedAt(f)'
  <2>1. (Reading(f) => prior[f] \subseteq Of(target[f]))'
    BY <1>3 DEF AskedAt
  <2>2. pc[f] = "preparing" => until'[f] \in Queued' \cup {0} /\ \A i \in prior[f] : i <= until[f]
    BY DEF AskedAt
  <2>3. UnderWay(f) => \A i \in prior[f] : Settled(i)'
    BY <1>1 DEF AskedAt, UnderWay, Reading
  <2>4. pc[f] = "marshalling" =>
          \A v \in Values : on[f] = Value(v) => UpTo(f, v)' /\ (Of(target[f])' = {} => v = 0)
    BY <1>2 DEF AskedAt, Reading
  <2>5. QED
    BY <1>3, <2>1, <2>2, <2>3, <2>4 DEF AskedAt
<1>5. AwaitedAt(f)'
  <2>1. SUFFICES ASSUME (pc[f] = "awaiting" /\ Current(target[f]))' PROVE AwaitedAt(f)'
    BY DEF AwaitedAt
  <2>2. pc[f] = "awaiting" /\ Current(target[f]) /\ Reading(f)
    BY <2>1 DEF Current, Reading
  <2>3. \A g \in Flows : on[f] = OfRead(g) => pc'[g] = pc[g]
    BY ReadsUnderWay
  <2>4. \A i \in Of(target[f]) : i \in Of(target[f])' /\ writes'[i] = writes[i]
    BY DEF Of
  <2>5. \A i \in Values : on[f] = OfWrite(i) =>
          /\ i \in Of(target[f])' /\ UpTo(f, i)'
          /\ writes'[i].state = "performed" => i \in seen[f]
    BY <1>2, <2>2, <2>4 DEF AwaitedAt
  <2>6. \A v \in Values : on[f] = Value(v) => v \in seen[f] /\ UpTo(f, v)'
    BY <1>2, <2>2 DEF AwaitedAt
  <2>7. \A g \in Flows : on[f] = OfRead(g) =>
          /\ target[g] = target[f] /\ prior[f] = {}
          /\ \A v \in Values : pc'[g] = "marshalling" /\ on[g] = Value(v) => v \in seen[f]
    BY <2>2, <2>3 DEF AwaitedAt
  <2>8. QED
    BY <2>5, <2>6, <2>7 DEF AwaitedAt
<1>6. QED
  BY <1>4, <1>5

LEMMA PropertiesSame ==
  ASSUME PropertiesOK, UNCHANGED <<writes, setup, stored, kept>>
  PROVE  PropertiesOK'
BY StoredSame, KeptSame DEF PropertiesOK, kept

LEMMA ReadersSame ==
  ASSUME Promised, ReadersOK, UNCHANGED <<writes, setup, flow, seen, prior>>
  PROVE  ReadersOK'
BY AskedSame, AwaitedSame DEF ReadersOK, flow

(* The flows that read are as they were when another one moves that does   *)
(* not read.                                                               *)
LEMMA OthersRead ==
  ASSUME Types, Promised, ReadersOK, NEW f \in Flows, UNCHANGED <<writes, setup>>,
         \A g \in Flows : g # f => /\ pc'[g] = pc[g] /\ target'[g] = target[g]
                                 /\ until'[g] = until[g] /\ on'[g] = on[g]
                                 /\ seen'[g] = seen[g] /\ prior'[g] = prior[g],
         ~UnderWay(f), AskedAt(f)' /\ AwaitedAt(f)'
  PROVE  ReadersOK'
<1>1. ASSUME NEW g \in Flows, g # f PROVE AskedAt(g)' /\ AwaitedAt(g)'
  <2>1. AskedAt(g) /\ AwaitedAt(g)
    BY DEF ReadersOK
  <2>2. AskedAt(g)'
    BY <1>1, <2>1, AskedSame
  <2>3. \A h \in Flows : UnderWay(h) => pc'[h] = pc[h] /\ target'[h] = target[h] /\ on'[h] = on[h]
    OBVIOUS
  <2>4. AwaitedAt(g)'
    BY <1>1, <2>1, <2>3, AwaitedSame
  <2>5. QED
    BY <2>2, <2>4
<1>2. QED
  BY <1>1 DEF ReadersOK

(* What is kept answers a read that begins now.                            *)
LEMMA FoundAnswers ==
  ASSUME Types, Promised, PlainInv, NEW p \in Properties,
         Found(p) # Nothing, NEW reader \in Flows, pc[reader] = "idle",
         UNCHANGED <<writes, setup>>, target'[reader] = p, seen'[reader] = {stored[p]},
         prior'[reader] = {i \in Queued : writes[i].prop = p /\ writes[i].state # "failed"},
         pc'[reader] = "awaiting", on'[reader] = Found(p),
         \A g \in Flows : g # reader => pc'[g] = pc[g] /\ target'[g] = target[g] /\ on'[g] = on[g]
  PROVE  AskedAt(reader)' /\ AwaitedAt(reader)'
<1>0. /\ StoredAt(p) /\ KeptAt(p) /\ prior'[reader] \subseteq Of(p) /\ UnderWay(reader)' = FALSE
      /\ Of(p)' = Of(p)
      /\ \A i \in Of(p) : i \in Nat /\ i # 0
      /\ stored[p] \in Int
  BY OfNumbers, ValuesAreNumbers DEF PlainInv, PropertiesOK, Of, Queued, UnderWay, Types
<1>1. AskedAt(reader)'
  BY <1>0 DEF AskedAt
<1>a. Current(p)' <=> Current(p)
  BY <1>0 DEF Current, NoneFails
<1>b. Current(target[reader])' => Current(p)
  BY <1>a DEF Current, NoneFails, Of
<1>c. ~Current(target[reader])' => AwaitedAt(reader)'
  BY DEF AwaitedAt
<1>2. SUFFICES ASSUME Current(p) PROVE AwaitedAt(reader)'
  BY <1>1, <1>b, <1>c
<1>3. CASE assigned[p] # Nothing
  <2>1. PICK n \in Of(p) :
          /\ \A j \in Of(p) : j <= n
          /\ \/ assigned[p] = OfWrite(n) /\ ~Settled(n)
             \/ assigned[p] = Value(n) /\ writes[n].state = "ok" /\ setup.cache
    BY <1>0, <1>3 DEF KeptAt, AssignedAt
  <2>2. on'[reader] = assigned[p] /\ \A i \in prior'[reader] : i <= n
    BY <1>0, <1>3, <2>1 DEF Found
  <2>3. writes[n].state \in {"performed", "ok"} => n = stored[p]
    BY <1>0, <2>1 DEF StoredAt
  <2>4. CASE assigned[p] = OfWrite(n)
    BY <1>0, <2>1, <2>2, <2>3, <2>4, Kinds DEF AwaitedAt, UpTo
  <2>5. CASE assigned[p] = Value(n) /\ writes[n].state = "ok"
    BY <1>0, <2>1, <2>2, <2>3, <2>5, Kinds DEF AwaitedAt, UpTo
  <2>6. QED
    BY <2>1, <2>4, <2>5
<1>4. CASE assigned[p] = Nothing
  <2>1. on'[reader] = cached[p] /\ cached[p] # Nothing
    BY <1>4 DEF Found
  <2>2. Of(p) = {} /\ prior'[reader] = {} /\ stored[p] = 0
    BY <1>0, <1>2, <1>4, <2>1 DEF KeptAt, CachedAt, Current, StoredAt
  <2>3. \A v \in Values : cached[p] = Value(v) => v = 0
    BY <1>0, <2>2 DEF KeptAt, CachedAt
  <2>4. cached[p].kind # "write"
    BY KeptKinds
  <2>5. ASSUME NEW g \in Flows, cached[p] = OfRead(g)
        PROVE  /\ target'[g] = p
               /\ \A v \in Values : pc'[g] = "marshalling" /\ on'[g] = Value(v) => v = 0
    <3>1. UnderWay(g) /\ target[g] = p /\ g # reader /\ AskedAt(g)
      BY <2>5 DEF Promised, UnderWay, PlainInv, ReadersOK
    <3>2. QED
      BY <2>2, <3>1 DEF AskedAt
  <2>6. QED
    BY <2>1, <2>2, <2>3, <2>4, <2>5, Kinds DEF AwaitedAt, UpTo
<1>5. QED
  BY <1>1, <1>3, <1>4

LEMMA PlainCall ==
  ASSUME Types, Promised, PlainInv, Plain, NEW f \in Flows, Call(f)
  PROVE  PlainInv'
<1>0. /\ FlowTypes /\ pc[f] = "idle" /\ ~UnderWay(f) /\ TailOK /\ PropertiesOK /\ ReadersOK
      /\ DOMAIN on = Flows /\ DOMAIN pc = Flows
  BY TypesSplit DEF FlowTypes, Call, Flush, RefreshAll, ClearCache, Assign, Set, SendDirect,
                    ReadKept, Read, Refresh, Idle, UnderWay, PlainInv
<1>1. UNCHANGED <<writes, tail>> => TailOK'
  BY <1>0 DEF TailOK, Queued
<1>2. ASSUME NEW i, NEW far \in {"flushing", "sending"}, AwaitWrites(f, i, far),
             UNCHANGED <<writes, setup, target, on, seen, prior>>
      PROVE  ReadersOK'
  BY <1>0, <1>2, Awaited, NoReader, OthersRead
<1>3. ASSUME NEW p \in Properties, Begin(f, p), AwaitWrites(f, tail, "preparing"),
             UNCHANGED <<writes, setup, on>>
      PROVE  ReadersOK'
  <2>1. /\ target'[f] = p /\ pc'[f] = "preparing" /\ until'[f] = tail /\ prior'[f] \subseteq Of(p)
        /\ Of(p)' = Of(p) /\ Queued' = Queued
    BY <1>0, <1>3, Begun, Awaited DEF Of, Queued
  <2>2. tail \in Queued \cup {0} /\ \A i \in Of(p) : i <= tail
    BY <1>0, WriteNumbers, TypesSplit DEF TailOK, Of, WritesOK
  <2>3. AskedAt(f)'
    BY <2>1, <2>2 DEF AskedAt, Reading, UnderWay
  <2>4. AwaitedAt(f)'
    BY <2>1 DEF AwaitedAt
  <2>5. QED
    BY <1>0, <1>3, <2>3, <2>4, Begun, Awaited, OthersRead
<1>4. ASSUME NEW ps \in SUBSET Properties, Forget(ps), "clear" \in setup.extras,
             UNCHANGED <<writes, setup, stored>>
      PROVE  PropertiesOK'
  <2>1. ASSUME NEW p \in Properties PROVE StoredAt(p)' /\ KeptAt(p)'
    <3>1. StoredAt(p)'
      BY <1>0, <1>4, StoredSame DEF PropertiesOK
    <3>2. CASE p \in ps
      <4>1. assigned'[p] = Nothing /\ cached'[p] = Nothing
        BY <1>4, <3>2 DEF Forget
      <4>2. ~(NoneFails(p)')
        BY <1>4 DEF NoneFails
      <4>3. QED
        BY <3>1, <4>1, <4>2, KeptDropped
    <3>3. CASE p \notin ps
      <4>1. assigned'[p] = assigned[p] /\ cached'[p] = cached[p]
        BY <1>4, <3>3 DEF Forget
      <4>2. KeptAt(p)
        BY <1>0 DEF PropertiesOK
      <4>3. QED
        BY <1>4, <3>1, <4>1, <4>2, KeptSame
    <3>4. QED
      BY <3>1, <3>2, <3>3
  <2>2. QED
    BY <2>1 DEF PropertiesOK
<1>5. CASE Flush(f)
  BY <1>0, <1>1, <1>2, <1>5, PropertiesSame DEF Flush, PlainInv, ghost
<1>6. CASE RefreshAll(f)
  BY <1>1, <1>2, <1>4, <1>6 DEF RefreshAll, PlainInv, ghost
<1>7. ASSUME NEW ps \in SUBSET Properties, ClearCache(f, ps) PROVE PlainInv'
  BY <1>0, <1>1, <1>4, <1>7, ReadersSame DEF ClearCache, PlainInv, ghost
<1>8. ASSUME NEW p \in Properties, Assign(f, p) \/ Set(f, p) PROVE PlainInv'
  <2>1. /\ QueueWrite(p) /\ UNCHANGED <<setup, stored, cached, target, on, seen, prior>>
        /\ (UNCHANGED <<pc, until>> \/ AwaitWrites(f, Len(writes) + 1, "flushing"))
    BY <1>8 DEF Assign, Set, flow, ghost
  <2>2. /\ TailOK' /\ PropertiesOK'
        /\ \A i \in Queued : i \in Queued' /\ writes'[i] = writes[i] /\ Settled(i)' = Settled(i)
        /\ \A q : Of(q) \subseteq Of(q)'
        /\ \A q : NoneFails(q)' => NoneFails(q)
    BY <1>0, <2>1, PlainQueueWrite
  <2>3. \A g \in Flows : g # f => pc'[g] = pc[g] /\ until'[g] = until[g]
    BY <1>0, <2>1, Awaited
  <2>4. pc'[f] = "flushing" \/ (pc'[f] = pc[f] /\ until'[f] = until[f])
    BY <1>0, <2>1, Awaited
  <2>5. \A g \in Flows : UnderWay(g) => pc'[g] = pc[g]
    BY <1>0, <2>3
  <2>6. ASSUME NEW g \in Flows PROVE AskedAt(g)' /\ AwaitedAt(g)'
    <3>1. AskedAt(g) /\ AwaitedAt(g)
      BY <1>0 DEF ReadersOK
    <3>2. CASE pc'[g] = "flushing"
      BY <3>2, NoReader
    <3>3. CASE pc'[g] = pc[g] /\ until'[g] = until[g]
      BY <2>1, <2>2, <2>5, <3>1, <3>3, QueuedLater
    <3>4. QED
      BY <2>3, <2>4, <3>2, <3>3
  <2>7. QED
    BY <2>2, <2>6 DEF PlainInv, ReadersOK
<1>9. ASSUME NEW p \in Properties PROVE ~SendDirect(f, p)
  BY DEF SendDirect, Plain
<1>10. ASSUME NEW p \in Properties, ReadKept(f, p) PROVE PlainInv'
  <2>1. /\ Begin(f, p) /\ Found(p) # Nothing /\ pc' = [pc EXCEPT ![f] = "awaiting"]
        /\ on' = [on EXCEPT ![f] = Found(p)]
        /\ UNCHANGED <<setup, stored, writes, tail, kept, until>>
    BY <1>10 DEF ReadKept
  <2>2. /\ target'[f] = p /\ seen'[f] = {stored[p]} /\ pc'[f] = "awaiting" /\ on'[f] = Found(p)
        /\ prior'[f] = {i \in Queued : writes[i].prop = p /\ writes[i].state # "failed"}
        /\ \A g \in Flows : g # f => /\ pc'[g] = pc[g] /\ target'[g] = target[g]
                                   /\ until'[g] = until[g] /\ on'[g] = on[g]
                                   /\ seen'[g] = seen[g] /\ prior'[g] = prior[g]
    BY <1>0, <2>1, Begun
  <2>3. AskedAt(f)' /\ AwaitedAt(f)'
    BY <1>0, <2>1, <2>2, FoundAnswers
  <2>4. ReadersOK'
    BY <1>0, <2>1, <2>2, <2>3, OthersRead
  <2>5. QED
    BY <1>0, <1>1, <2>1, <2>4, PropertiesSame DEF PlainInv
<1>11. ASSUME NEW p \in Properties, Read(f, p) PROVE PlainInv'
  BY <1>0, <1>1, <1>3, <1>11, PropertiesSame DEF Read, PlainInv
<1>12. ASSUME NEW p \in Properties, Refresh(f, p) PROVE PlainInv'
  BY <1>1, <1>3, <1>4, <1>12 DEF Refresh, PlainInv
<1>13. QED
  BY <1>5, <1>6, <1>7, <1>8, <1>9, <1>10, <1>11, <1>12 DEF Call

(* What the send of a read has read answers those who await it as well.    *)
LEMMA PlainReadPerform ==
  ASSUME Types, Promised, SeenOK, PlainInv, NEW f \in Flows, ReadPerform(f)
  PROVE  PlainInv'
<1>0. /\ FlowTypes /\ TailOK /\ PropertiesOK /\ ReadersOK
      /\ DOMAIN on = Flows /\ DOMAIN pc = Flows
  BY TypesSplit DEF FlowTypes, PlainInv
<1>1. /\ pc[f] = "reading" /\ pc' = [pc EXCEPT ![f] = "marshalling"]
      /\ on' = [on EXCEPT ![f] = Value(stored[target[f]])]
      /\ UNCHANGED <<setup, stored, writes, tail, kept, target, until, seen, prior>>
  BY DEF ReadPerform, ghost
<1>2. /\ pc'[f] = "marshalling" /\ on'[f] = Value(stored[target[f]])
      /\ \A g \in Flows : g # f => pc'[g] = pc[g] /\ on'[g] = on[g]
      /\ UnderWay(f) /\ target[f] \in Properties /\ AskedAt(f) /\ StoredAt(target[f])
  BY <1>0, <1>1 DEF UnderWay, SeenOK, Reading, ReadersOK, PropertiesOK
<1>3. \A q : Of(q)' = Of(q)
  BY <1>1 DEF Of, Queued
<1>4. AskedAt(f)'
  <2>1. prior[f] \subseteq Of(target[f]) /\ \A i \in prior[f] : Settled(i)
    BY <1>1, <1>2 DEF AskedAt, Reading
  <2>2. \A i \in prior[f] : i <= stored[target[f]] \/ writes[i].state = "failed"
    BY <1>2, <2>1 DEF StoredAt, Settled, Of, Queued
  <2>3. Of(target[f]) = {} => stored[target[f]] = 0
    BY <1>2 DEF StoredAt
  <2>4. prior'[f] \subseteq Of(target[f])' /\ \A i \in prior'[f] : Settled(i)'
    BY <1>1, <1>3, <2>1 DEF Settled
  <2>5. \A v \in Values : on'[f] = Value(v) => UpTo(f, v)' /\ (Of(target[f])' = {} => v = 0)
    <3>1. SUFFICES ASSUME NEW v \in Values, on'[f] = Value(v)
                   PROVE  UpTo(f, v)' /\ (Of(target[f])' = {} => v = 0)
      OBVIOUS
    <3>2. v = stored[target[f]]
      <4>1. Value(v) = Value(stored[target[f]])
        BY <1>2, <3>1
      <4>2. Value(v).by = v /\ Value(stored[target[f]]).by = stored[target[f]]
        BY Kinds
      <4>3. QED
        BY <4>1, <4>2
    <3>3. QED
      BY <1>1, <1>3, <2>2, <2>3, <3>2 DEF UpTo
  <2>6. QED
    BY <1>1, <1>2, <2>4, <2>5 DEF AskedAt
<1>5. ASSUME NEW g \in Flows PROVE AskedAt(g)' /\ AwaitedAt(g)'
  <2>1. AskedAt(g) /\ AwaitedAt(g)
    BY <1>0 DEF ReadersOK
  <2>2. CASE g = f
    BY <1>2, <1>4, <2>2 DEF AwaitedAt
  <2>3. CASE g # f
    <3>1. AskedAt(g)'
      BY <1>1, <1>2, <2>1, <2>3, AskedSame
    <3>2. SUFFICES ASSUME (pc[g] = "awaiting" /\ Current(target[g]))' PROVE AwaitedAt(g)'
      BY <3>1 DEF AwaitedAt
    <3>3. pc[g] = "awaiting" /\ Current(target[g]) /\ on'[g] = on[g]
      BY <1>1, <1>2, <1>3, <2>3, <3>2 DEF Current, NoneFails
    <3>4. stored[target[g]] \in seen[g]
      BY <3>3 DEF SeenOK, Reading
    <3>5. ASSUME NEW h \in Flows, on[g] = OfRead(h)
          PROVE  /\ target[h] = target[g] /\ prior[g] = {}
                 /\ \A v \in Values : pc'[h] = "marshalling" /\ on'[h] = Value(v) => v \in seen[g]
      <4>1. /\ target[h] = target[g] /\ prior[g] = {}
            /\ \A v \in Values : pc[h] = "marshalling" /\ on[h] = Value(v) => v \in seen[g]
        BY <2>1, <3>3, <3>5 DEF AwaitedAt
      <4>2. CASE h = f
        BY <1>2, <3>4, <4>1, <4>2, Kinds
      <4>3. CASE h # f
        BY <1>2, <4>1, <4>3
      <4>4. QED
        BY <4>1, <4>2, <4>3
    <3>6. /\ \A i \in Values : on[g] = OfWrite(i) =>
               /\ i \in Of(target[g])' /\ UpTo(g, i)'
               /\ writes[i].state = "performed" => i \in seen[g]
          /\ \A v \in Values : on[g] = Value(v) => v \in seen[g] /\ UpTo(g, v)'
      BY <1>1, <1>3, <2>1, <3>3 DEF AwaitedAt, UpTo
    <3>7. QED
      BY <1>1, <3>3, <3>5, <3>6 DEF AwaitedAt
  <2>4. QED
    BY <2>2, <2>3
<1>6. PropertiesOK'
  BY <1>0, <1>1, PropertiesSame
<1>7. QED
  BY <1>0, <1>1, <1>5, <1>6 DEF PlainInv, ReadersOK, TailOK, Queued

(* The promise of a read is settled with what it has read, or rejected.    *)
LEMMA PlainReadEnds ==
  ASSUME Types, Promised, SeenOK, PlainInv, NEW f \in Flows, ReadDone(f) \/ ReadFails(f)
  PROVE  PlainInv'
<1>0. /\ FlowTypes /\ TailOK /\ PropertiesOK /\ ReadersOK /\ AskedAt(f) /\ UnderWay(f)
      /\ DOMAIN on = Flows /\ DOMAIN pc = Flows /\ DOMAIN cached = Properties
  BY TypesSplit DEF FlowTypes, PlainInv, ReadersOK, Types, ReadDone, ReadFails, UnderWay
<1>1. PICK answer :
        /\ ReadEnds(f, answer)
        /\ \/ answer = Rejected
           \/ \E v \in Values : answer = Value(v) /\ on[f] = Value(v) /\ pc[f] = "marshalling"
  <2>1. ReadDone(f) => \E v \in Values : on[f] = Value(v)
    BY Numbers DEF ReadDone, SeenOK
  <2>2. QED
    BY <2>1 DEF ReadDone, ReadFails
<1>2. /\ Return(f, Settle(on, OfRead(f), answer)) /\ DOMAIN Settle(on, OfRead(f), answer) = Flows
      /\ UNCHANGED <<setup, stored, writes, tail, assigned>>
      /\ cached' = Settle(cached, OfRead(f), answer)
  BY <1>0, <1>1, SettleDef DEF ReadEnds
<1>3. \A g \in Flows : g # f =>
        /\ pc'[g] = pc[g] /\ target'[g] = target[g] /\ until'[g] = until[g]
        /\ seen'[g] = seen[g] /\ prior'[g] = prior[g]
        /\ on'[g] = IF on[g] = OfRead(f) THEN answer ELSE on[g]
  BY <1>0, <1>2, OthersStay, SettleDef
<1>4. pc'[f] = "idle" /\ on'[f] = Nothing
  BY <1>0, <1>2, ReturnsIdle
<1>5. \A p \in Properties : cached'[p] = IF cached[p] = OfRead(f) THEN answer ELSE cached[p]
  BY <1>0, <1>2, SettleDef
<1>6. \A q : Of(q)' = Of(q)
  BY <1>2 DEF Of, Queued
<1>7. ASSUME NEW p \in Properties PROVE StoredAt(p)' /\ KeptAt(p)'
  <2>1. StoredAt(p) /\ KeptAt(p)
    BY <1>0 DEF PropertiesOK
  <2>2. AssignedAt(p)'
    BY <1>2, <2>1 DEF KeptAt, AssignedAt, Of, Queued, Settled
  <2>3. NoneFails(p)' <=> NoneFails(p)
    BY <1>2, <1>6 DEF NoneFails
  <2>4. ASSUME ~setup.cache PROVE cached'[p] = Nothing
    BY <1>5, <2>1, <2>4, Kinds DEF KeptAt, CachedAt
  <2>5. ASSUME Of(p) = {}, NEW v \in Values, cached'[p] = Value(v) PROVE v = 0
    <3>1. CASE cached[p] = OfRead(f)
      <4>1. target[f] = p /\ answer = Value(v)
        BY <1>5, <2>5, <3>1 DEF Promised
      <4>2. on[f] = Value(v) /\ pc[f] = "marshalling"
        BY <1>1, <4>1, Kinds
      <4>3. QED
        BY <1>0, <2>5, <4>1, <4>2 DEF AskedAt
    <3>2. CASE cached[p] # OfRead(f)
      BY <1>5, <2>1, <2>5, <3>2 DEF KeptAt, CachedAt
    <3>3. QED
      BY <3>1, <3>2
  <2>6. CachedAt(p)'
    BY <1>2, <1>6, <2>1, <2>3, <2>4, <2>5 DEF KeptAt, CachedAt
  <2>7. QED
    BY <1>2, <2>1, <2>2, <2>6, StoredSame DEF KeptAt
<1>8. ASSUME NEW g \in Flows PROVE AskedAt(g)' /\ AwaitedAt(g)'
  <2>1. AskedAt(g) /\ AwaitedAt(g)
    BY <1>0 DEF ReadersOK
  <2>2. CASE g = f
    BY <1>4, <2>2, NoReader
  <2>3. CASE g # f
    <3>0. pc[g] = "marshalling" => on'[g] = on[g]
      BY <1>3, <2>3, Kinds DEF SeenOK
    <3>1. AskedAt(g)'
      BY <1>2, <1>3, <2>1, <2>3, <3>0, AskedSame
    <3>2. SUFFICES ASSUME (pc[g] = "awaiting" /\ Current(target[g]))' PROVE AwaitedAt(g)'
      BY <3>1 DEF AwaitedAt
    <3>3. /\ pc[g] = "awaiting" /\ Current(target[g]) /\ target'[g] = target[g]
          /\ seen'[g] = seen[g] /\ prior'[g] = prior[g]
      BY <1>2, <1>3, <1>6, <2>3, <3>2 DEF Current, NoneFails
    <3>4. CASE on[g] = OfRead(f)
      <4>1. /\ prior[g] = {}
            /\ \A v \in Values : pc[f] = "marshalling" /\ on[f] = Value(v) => v \in seen[g]
        BY <2>1, <3>3, <3>4 DEF AwaitedAt
      <4>2. on'[g] = answer
        BY <1>3, <2>3, <3>4
      <4>3. CASE answer = Rejected
        BY <4>2, <4>3, Kinds DEF AwaitedAt
      <4>4. ASSUME NEW v \in Values, answer = Value(v), v \in seen[g] PROVE AwaitedAt(g)'
        BY <3>3, <4>1, <4>2, <4>4, Kinds DEF AwaitedAt, UpTo
      <4>5. QED
        BY <1>1, <4>1, <4>3, <4>4
    <3>5. CASE on[g] # OfRead(f)
      <4>1. on'[g] = on[g]
        BY <1>3, <2>3, <3>5
      <4>2. ASSUME NEW h \in Flows, on[g] = OfRead(h)
            PROVE  /\ target'[h] = target[g] /\ prior[g] = {}
                   /\ \A v \in Values : pc'[h] = "marshalling" /\ on'[h] = Value(v) => v \in seen[g]
        <5>1. h # f
          BY <3>5, <4>2
        <5>2. /\ target[h] = target[g] /\ prior[g] = {}
              /\ \A v \in Values : pc[h] = "marshalling" /\ on[h] = Value(v) => v \in seen[g]
          BY <2>1, <3>3, <4>2 DEF AwaitedAt
        <5>3. pc[h] = "marshalling" => on'[h] = on[h]
          BY <1>3, <5>1, Kinds DEF SeenOK
        <5>4. QED
          BY <1>3, <5>1, <5>2, <5>3
      <4>3. /\ \A i \in Values : on[g] = OfWrite(i) =>
                 /\ i \in Of(target[g])' /\ UpTo(g, i)'
                 /\ writes'[i].state = "performed" => i \in seen[g]
            /\ \A v \in Values : on[g] = Value(v) => v \in seen[g] /\ UpTo(g, v)'
        <5>1. \A v : UpTo(g, v)' <=> UpTo(g, v)
          BY <1>2, <3>3 DEF UpTo
        <5>2. Of(target[g])' = Of(target[g])
          BY <1>6, <3>3 DEF Of
        <5>3. QED
          BY <1>2, <2>1, <3>3, <5>1, <5>2 DEF AwaitedAt
      <4>4. Of(target[g])' = Of(target[g])
        BY <1>6, <3>3 DEF Of
      <4>5. QED
        BY <3>3, <4>1, <4>2, <4>3 DEF AwaitedAt
    <3>6. QED
      BY <3>4, <3>5
  <2>4. QED
    BY <2>2, <2>3
<1>9. TailOK'
  BY <1>0, <1>2 DEF TailOK, Queued
<1>10. QED
  BY <1>7, <1>8, <1>9 DEF PlainInv, ReadersOK, PropertiesOK

LEMMA PlainGoOn ==
  ASSUME Types, Promised, SeenOK, WritesInOrder, PlainInv, NEW f \in Flows, GoOn(f) \/ Message(f)
  PROVE  PlainInv'
<1>0. /\ FlowTypes /\ TailOK /\ PropertiesOK /\ ReadersOK /\ AskedAt(f)
      /\ DOMAIN on = Flows /\ DOMAIN pc = Flows /\ DOMAIN cached = Properties
  BY TypesSplit DEF FlowTypes, PlainInv, ReadersOK, Types
<1>1. UNCHANGED <<writes, tail>> => TailOK'
  BY <1>0 DEF TailOK, Queued
<1>2. ASSUME Return(f, on), ~UnderWay(f), UNCHANGED <<setup, stored, writes, tail, kept>>
      PROVE  PlainInv'
  <2>1. AskedAt(f)' /\ AwaitedAt(f)'
    BY <1>0, <1>2, ReturnsIdle, NoReader
  <2>2. ReadersOK'
    BY <1>0, <1>2, <2>1, OthersStay, OthersRead
  <2>3. QED
    BY <1>0, <1>1, <1>2, <2>2, PropertiesSame DEF PlainInv
<1>3. CASE FlushDone(f) \/ KeptDone(f) \/ SendDone(f)
  BY <1>2, <1>3 DEF FlushDone, KeptDone, SendDone, Throw, UnderWay
<1>4. CASE WritesDone(f)
  <2>1. CASE Throw(f)
    BY <1>2, <1>4, <2>1 DEF WritesDone, Throw, UnderWay
  <2>2. CASE ~Throw(f)
    <3>1. /\ pc[f] = "preparing" /\ Settled(until[f]) /\ pc' = [pc EXCEPT ![f] = "reading"]
          /\ cached' = IF setup.cache THEN [cached EXCEPT ![target[f]] = OfRead(f)] ELSE cached
          /\ UNCHANGED <<setup, stored, writes, tail, assigned, target, until, on, seen, prior>>
      BY <1>4, <2>2 DEF WritesDone, ghost
    <3>2. /\ \A g \in Flows : pc'[g] = IF g = f THEN "reading" ELSE pc[g]
          /\ \A q : Of(q)' = Of(q) /\ ~UnderWay(f)
      BY <1>0, <3>1 DEF Of, Queued, UnderWay
    <3>3. \A i \in prior[f] : Settled(i)
      <4>1. prior[f] \subseteq Queued /\ until[f] \in Queued \cup {0} /\ \A i \in prior[f] : i <= until[f]
        BY <1>0, <3>1 DEF AskedAt, Reading, Of
      <4>2. \A i \in Queued : i \in Nat /\ i # 0 /\ i \in DOMAIN writes
        BY <1>0, WriteNumbers, TypesSplit DEF Queued
      <4>3. until[f] \in Queued => writes[until[f]].state # "waiting"
        BY <3>1, <4>2 DEF Settled
      <4>4. \A i \in prior[f] : i = until[f] \/ (i < until[f] /\ until[f] \in Queued)
        BY <4>1, <4>2
      <4>5. QED
        BY <3>1, <4>1, <4>3, <4>4 DEF WritesInOrder
    <3>4. AskedAt(f)'
      <4>1. /\ pc'[f] = "reading" /\ Reading(f) /\ prior'[f] = prior[f] /\ target'[f] = target[f]
            /\ \A i \in prior[f] : Settled(i)'
        BY <3>1, <3>2, <3>3 DEF Reading, Settled
      <4>2. prior[f] \subseteq Of(target[f])
        BY <1>0, <4>1 DEF AskedAt
      <4>3. (prior[f] \subseteq Of(target[f]))'
        BY <3>2, <4>1, <4>2 DEF Of
      <4>4. QED
        BY <4>1, <4>3 DEF AskedAt
    <3>5. AwaitedAt(f)'
      BY <3>2 DEF AwaitedAt
    <3>6. ReadersOK'
      BY <1>0, <3>1, <3>2, <3>4, <3>5, OthersRead
    <3>7. ASSUME NEW p \in Properties PROVE StoredAt(p)' /\ KeptAt(p)'
      <4>1. StoredAt(p) /\ KeptAt(p)
        BY <1>0 DEF PropertiesOK
      <4>2. AssignedAt(p)'
        BY <3>1, <4>1 DEF KeptAt, AssignedAt, Of, Queued, Settled
      <4>3. cached'[p] = cached[p] \/ (setup.cache /\ cached'[p] = OfRead(f))
        BY <1>0, <3>1
      <4>4. NoneFails(p)' <=> NoneFails(p)
        BY <3>1, <3>2 DEF NoneFails
      <4>5. CachedAt(p)'
        BY <3>1, <3>2, <4>1, <4>3, <4>4, Kinds DEF KeptAt, CachedAt
      <4>6. QED
        BY <3>1, <4>1, <4>2, <4>5, StoredSame DEF KeptAt
    <3>8. QED
      BY <1>1, <3>1, <3>6, <3>7 DEF PlainInv, PropertiesOK
  <2>3. QED
    BY <2>1, <2>2
<1>5. QED
  BY <1>3, <1>4, PlainReadPerform, PlainReadEnds DEF GoOn, Message

(* What a move of write i leaves as it was. *)
LEMMA OneWriteMoves ==
  ASSUME Types, NEW i \in DOMAIN writes, NEW how \in States, Move(i, how)
  PROVE  /\ Queued' = Queued /\ \A q : Of(q)' = Of(q)
         /\ DOMAIN writes' = DOMAIN writes /\ Len(writes') = Len(writes)
         /\ writes'[i].state = how
         /\ \A j \in DOMAIN writes : j # i => writes'[j].state = writes[j].state /\ Settled(j)' = Settled(j)
<1>1. WritesOK
  BY TypesSplit
<1>2. /\ Len(writes') = Len(writes)
      /\ DOMAIN writes' = DOMAIN writes /\ Queued' = Queued
      /\ \A j \in DOMAIN writes :
           /\ writes'[j].prop = writes[j].prop
           /\ writes'[j].state = IF j = i THEN how ELSE writes[j].state
  BY <1>1, MovedWrite
<1>3. Queued \subseteq DOMAIN writes
  BY DEF Queued
<1>4. \A q : Of(q)' = Of(q)
  BY <1>2, <1>3 DEF Of
<1>5. \A j \in DOMAIN writes : j # i => writes'[j].state = writes[j].state /\ Settled(j)' = Settled(j)
  BY <1>2 DEF Settled
<1>6. QED
  BY <1>2, <1>4, <1>5

(* A write in its turn becomes what the object has.                        *)
LEMMA PlainPerform ==
  ASSUME Types, Promised, SeenOK, WritesInOrder, PlainInv, NEW i \in DOMAIN writes, Perform(i)
  PROVE  PlainInv'
<1>0. /\ TailOK /\ PropertiesOK /\ ReadersOK /\ i \in Queued /\ i \in Values
      /\ writes[i].state = "waiting" /\ "performed" \in States
      /\ Move(i, "performed") /\ Apply(i, writes[i].prop)
      /\ UNCHANGED <<setup, tail, assigned, cached, pc, target, until, on, prior>>
      /\ writes[i].prop \in Properties
  BY WriteNumbers, TypesSplit DEF PlainInv, TailOK, Perform, kept, flow, States, Writes
<1>1. /\ Queued' = Queued /\ \A q : Of(q)' = Of(q)
      /\ DOMAIN writes' = DOMAIN writes /\ Len(writes') = Len(writes)
      /\ writes'[i].state = "performed"
      /\ \A j \in DOMAIN writes : j # i => writes'[j].state = writes[j].state /\ Settled(j)' = Settled(j)
  BY <1>0, OneWriteMoves
<1>2. \A j \in DOMAIN writes :
        /\ Settled(j)' = Settled(j)
        /\ writes'[j].state \in {"ok", "failed"} => writes'[j].state = writes[j].state
        /\ writes'[j].state = "failed" <=> writes[j].state = "failed"
        /\ writes[j].state = "ok" => writes'[j].state = "ok"
  BY <1>0, <1>1 DEF Settled
<1>3. /\ \A q \in Properties : stored'[q] = IF q = writes[i].prop THEN i ELSE stored[q]
      /\ \A f \in Flows : /\ seen[f] \subseteq seen'[f]
                          /\ target[f] = writes[i].prop => i \in seen'[f]
  BY <1>0 DEF Apply, Types
<1>4. \A q : \A j \in Of(q) : j \in Queued /\ j \in DOMAIN writes /\ j \in Nat /\ writes[j].prop = q
  BY OfNumbers DEF Of
<1>5. \A j \in Queued : j > i => writes[j].state = "waiting"
  BY <1>0, WriteNumbers, TypesSplit DEF WritesInOrder, Settled, Queued
<1>6. ASSUME NEW q \in Properties PROVE StoredAt(q)'
  <2>1. StoredAt(q)
    BY <1>0 DEF PropertiesOK
  <2>2. CASE q = writes[i].prop
    <3>1. stored'[q] = i /\ i \in Of(q) /\ i \in Nat
      BY <1>0, <1>3, <1>4, <2>2 DEF Of
    <3>2. ASSUME NEW j \in Of(q), writes'[j].state \in {"performed", "ok"} PROVE j <= i
      <4>1. j \in Queued /\ j \in DOMAIN writes /\ j \in Nat
        BY <1>4
      <4>2. j > i => j # i
        BY <4>1, <3>1
      <4>3. ~(j > i)
        BY <1>1, <1>5, <3>2, <4>1, <4>2
      <4>4. QED
        BY <3>1, <4>1, <4>3
    <3>3. QED
      BY <1>1, <3>1, <3>2 DEF StoredAt
  <2>3. CASE q # writes[i].prop
    <3>1. stored'[q] = stored[q] /\ i \notin Of(q)
      BY <1>3, <1>4, <2>3
    <3>2. \A j \in Of(q) : writes'[j].state = writes[j].state
      BY <1>1, <1>4, <3>1
    <3>3. QED
      BY <1>1, <2>1, <3>1, <3>2 DEF StoredAt
  <2>4. QED
    BY <2>2, <2>3
<1>7. \A q : NoneFails(q)' <=> NoneFails(q)
  BY <1>0, <1>1, <1>2, <1>4 DEF NoneFails
<1>8. ASSUME NEW q \in Properties PROVE KeptAt(q)'
  <2>1. AssignedAt(q) /\ CachedAt(q)
    BY <1>0 DEF PropertiesOK, KeptAt
  <2>2. AssignedAt(q)'
    BY <1>0, <1>1, <1>2, <1>4, <2>1 DEF AssignedAt
  <2>3. CachedAt(q)'
    BY <1>0, <1>1, <1>7, <2>1 DEF CachedAt
  <2>4. QED
    BY <2>2, <2>3 DEF KeptAt
<1>9. ASSUME NEW f \in Flows PROVE AskedAt(f)' /\ AwaitedAt(f)'
  <2>1. AskedAt(f) /\ AwaitedAt(f)
    BY <1>0 DEF ReadersOK
  <2>2. Reading(f) => prior[f] \subseteq Of(target[f])
    BY <2>1 DEF AskedAt
  <2>3. Reading(f) => \A v : UpTo(f, v) <=> UpTo(f, v)'
    BY <1>0, <1>2, <1>4, <2>2 DEF UpTo
  <2>4. AskedAt(f)'
    <3>1. UnderWay(f) => \A j \in prior[f] : Settled(j)'
      BY <1>2, <1>4, <2>1, <2>2 DEF AskedAt, Reading, UnderWay
    <3>2. Reading(f)' = Reading(f) /\ UnderWay(f)' = UnderWay(f) /\ Of(target[f])' = Of(target[f])
      BY <1>0, <1>1 DEF Reading, UnderWay, Of
    <3>3. pc[f] = "marshalling" => Reading(f)
      BY DEF Reading
    <3>4. QED
      BY <1>0, <1>1, <2>1, <2>3, <3>1, <3>2, <3>3 DEF AskedAt
  <2>5. AwaitedAt(f)'
    <3>1. SUFFICES ASSUME (pc[f] = "awaiting" /\ Current(target[f]))' PROVE AwaitedAt(f)'
      BY DEF AwaitedAt
    <3>2. pc[f] = "awaiting" /\ Current(target[f]) /\ Reading(f) /\ Of(target[f])' = Of(target[f])
      BY <1>0, <1>1, <1>7, <3>1 DEF Current, Reading, Of
    <3>3. ASSUME NEW j \in Values, on[f] = OfWrite(j)
          PROVE  /\ j \in Of(target[f]) /\ UpTo(f, j)'
                 /\ writes'[j].state = "performed" => j \in seen'[f]
      <4>1. j \in Of(target[f]) /\ UpTo(f, j) /\ (writes[j].state = "performed" => j \in seen[f])
        BY <2>1, <3>2, <3>3 DEF AwaitedAt
      <4>2. j = i => target[f] = writes[i].prop
        BY <1>4, <4>1
      <4>3. QED
        BY <1>1, <1>3, <1>4, <2>3, <3>2, <4>1, <4>2
    <3>4. \A v \in Values : on[f] = Value(v) => v \in seen'[f] /\ UpTo(f, v)'
      BY <1>3, <2>1, <2>3, <3>2 DEF AwaitedAt
    <3>5. \A g \in Flows : on[f] = OfRead(g) =>
            /\ target[g] = target[f] /\ prior[f] = {}
            /\ \A v \in Values : pc[g] = "marshalling" /\ on[g] = Value(v) => v \in seen'[f]
      BY <1>3, <2>1, <3>2 DEF AwaitedAt
    <3>6. QED
      BY <1>0, <3>2, <3>3, <3>4, <3>5 DEF AwaitedAt
  <2>6. QED
    BY <2>4, <2>5
<1>10. TailOK'
  BY <1>0, <1>1 DEF TailOK
<1>11. QED
  BY <1>6, <1>8, <1>9, <1>10 DEF PlainInv, PropertiesOK, ReadersOK

(* How a write ends is what those who await it are told.                   *)
LEMMA ReadersTold ==
  ASSUME Types, SeenOK, ReadersOK, NEW i \in DOMAIN writes, ~Settled(i),
         NEW how \in States, Move(i, how), NEW answer, on' = Settle(on, OfWrite(i), answer),
         \/ how = "ok" /\ answer = Value(i) /\ writes[i].state = "performed"
         \/ how = "failed" /\ answer = Rejected,
         UNCHANGED <<setup, pc, target, until, seen, prior>>
  PROVE  ReadersOK'
<1>0. DOMAIN on = Flows /\ i \in Values
  BY WriteNumbers, TypesSplit DEF Types
<1>1. /\ Queued' = Queued /\ \A q : Of(q)' = Of(q)
      /\ writes'[i].state = how /\ writes[i].state # "failed"
      /\ \A j \in DOMAIN writes : j # i => writes'[j].state = writes[j].state /\ Settled(j)' = Settled(j)
  BY OneWriteMoves DEF Settled
<1>2. Settled(i)'
  BY <1>1 DEF Settled
<1>3. \A j \in DOMAIN writes : /\ writes[j].state = "failed" => writes'[j].state = "failed"
                               /\ Settled(j) => Settled(j)'
                               /\ writes'[j].state = "performed" => writes[j].state = "performed"
  BY <1>1, <1>2
<1>4. \A q : \A j \in Of(q) : j \in DOMAIN writes
  BY OfNumbers
<1>5. \A q : NoneFails(q)' => NoneFails(q)
  BY <1>1, <1>3, <1>4 DEF NoneFails
<1>6. \A f \in Flows : on'[f] = IF on[f] = OfWrite(i) THEN answer ELSE on[f]
  BY <1>0, SettleDef
<1>7. \A f \in Flows : pc[f] = "marshalling" => on'[f] = on[f]
  BY <1>6, Kinds DEF SeenOK
<1>8. ASSUME NEW f \in Flows PROVE AskedAt(f)' /\ AwaitedAt(f)'
  <2>1. AskedAt(f) /\ AwaitedAt(f)
    BY DEF ReadersOK
  <2>2. Reading(f) => prior[f] \subseteq Of(target[f])
    BY <2>1 DEF AskedAt
  <2>a. Reading(f) => \A j \in prior[f] : /\ writes[j].state = "failed" => writes'[j].state = "failed"
                                          /\ Settled(j) => Settled(j)'
    BY <1>3, <1>4, <2>2
  <2>3. Reading(f) => \A v : UpTo(f, v) => UpTo(f, v)'
    BY <2>a DEF UpTo
  <2>4. /\ Reading(f)' = Reading(f) /\ UnderWay(f)' = UnderWay(f) /\ Of(target[f])' = Of(target[f])
    BY <1>1 DEF Reading, UnderWay, Of
  <2>5. AskedAt(f)'
    <3>1. UnderWay(f) => \A j \in prior[f] : Settled(j)'
      <4>1. UnderWay(f) => Reading(f) /\ \A j \in prior[f] : Settled(j)
        BY <2>1 DEF AskedAt, Reading, UnderWay
      <4>2. QED
        BY <2>a, <4>1
    <3>2. pc[f] = "marshalling" => Reading(f)
      BY DEF Reading
    <3>3. QED
      BY <1>1, <1>7, <2>1, <2>3, <2>4, <3>1, <3>2 DEF AskedAt
  <2>6. AwaitedAt(f)'
    <3>1. SUFFICES ASSUME (pc[f] = "awaiting" /\ Current(target[f]))' PROVE AwaitedAt(f)'
      BY DEF AwaitedAt
    <3>2. pc[f] = "awaiting" /\ Current(target[f]) /\ Reading(f)
      BY <1>5, <3>1 DEF Current, Reading
    <3>3. ASSUME NEW j \in Values, on'[f] = OfWrite(j)
          PROVE  /\ j \in Of(target[f]) /\ UpTo(f, j)'
                 /\ writes'[j].state = "performed" => j \in seen[f]
      <4>1. on[f] = OfWrite(j)
        BY <1>6, <3>3, Kinds
      <4>2. j \in Of(target[f]) /\ UpTo(f, j) /\ (writes[j].state = "performed" => j \in seen[f])
        BY <2>1, <3>2, <4>1 DEF AwaitedAt
      <4>3. writes'[j].state = "performed" => writes[j].state = "performed"
        BY <1>3, <1>4, <4>2
      <4>4. QED
        BY <2>3, <3>2, <4>2, <4>3
    <3>4. ASSUME NEW v \in Values, on'[f] = Value(v)
          PROVE  v \in seen[f] /\ UpTo(f, v)'
      <4>1. CASE on[f] = OfWrite(i)
        <5>1. v = i /\ writes[i].state = "performed"
          BY <1>6, <3>4, <4>1, Kinds
        <5>2. QED
          BY <1>0, <2>1, <2>3, <3>2, <4>1, <5>1 DEF AwaitedAt
      <4>2. CASE on[f] # OfWrite(i)
        BY <1>6, <2>1, <2>3, <3>2, <3>4, <4>2 DEF AwaitedAt
      <4>3. QED
        BY <4>1, <4>2
    <3>5. ASSUME NEW g \in Flows, on'[f] = OfRead(g)
          PROVE  /\ target[g] = target[f] /\ prior[f] = {}
                 /\ \A v \in Values : pc[g] = "marshalling" /\ on'[g] = Value(v) => v \in seen[f]
      <4>1. on[f] = OfRead(g)
        BY <1>6, <3>5, Kinds
      <4>2. QED
        BY <1>7, <2>1, <3>2, <4>1 DEF AwaitedAt
    <3>6. QED
      BY <2>4, <3>2, <3>3, <3>4, <3>5 DEF AwaitedAt
  <2>7. QED
    BY <2>5, <2>6
<1>9. QED
  BY <1>8 DEF ReadersOK

(* A write of the queue arrives, and what is kept of it is settled.        *)
LEMMA PlainWriteArrives ==
  ASSUME Types, Promised, SeenOK, PlainInv, NEW i \in DOMAIN writes, WriteArrives(i)
  PROVE  PlainInv'
<1>0. /\ TailOK /\ PropertiesOK /\ ReadersOK /\ i \in Queued
      /\ writes[i].state = "performed" /\ "ok" \in States /\ ~Settled(i)
      /\ Move(i, "ok") /\ on' = Settle(on, OfWrite(i), Value(i))
      /\ UNCHANGED <<setup, tail, stored, pc, target, until, seen, prior>>
      /\ writes[i].prop \in Properties
      /\ DOMAIN assigned = Properties /\ DOMAIN cached = Properties
  BY WriteNumbers, TypesSplit DEF PlainInv, TailOK, WriteArrives, ghost, States, Writes, Settled, Types
<1>1. /\ Queued' = Queued /\ \A q : Of(q)' = Of(q)
      /\ DOMAIN writes' = DOMAIN writes /\ Len(writes') = Len(writes)
      /\ writes'[i].state = "ok"
      /\ \A j \in DOMAIN writes : j # i => writes'[j].state = writes[j].state /\ Settled(j)' = Settled(j)
  BY <1>0, OneWriteMoves
<1>2. ReadersOK'
  BY <1>0, ReadersTold
<1>3. \A q : \A j \in Of(q) : j \in Queued /\ j \in DOMAIN writes /\ j \in Nat /\ writes[j].prop = q
  BY OfNumbers DEF Of
<1>4. \A q : NoneFails(q)' => NoneFails(q)
  BY <1>0, <1>1, <1>3 DEF NoneFails
<1>5. ASSUME NEW q \in Properties PROVE StoredAt(q)' /\ KeptAt(q)'
  <2>1. StoredAt(q) /\ AssignedAt(q) /\ CachedAt(q)
    BY <1>0 DEF PropertiesOK, KeptAt
  <2>2. StoredAt(q)'
    BY <1>0, <1>1, <1>3, <2>1 DEF StoredAt
  <2>3. CASE setup.cache
    <3>1. /\ assigned'[q] = IF assigned[q] = OfWrite(i) THEN Value(i) ELSE assigned[q]
          /\ cached'[q] = IF q = writes[i].prop THEN Value(i) ELSE cached[q]
      BY <1>0, <2>3, SettleDef DEF WriteArrives
    <3>2. AssignedAt(q)'
      <4>1. CASE assigned[q] = Nothing
        BY <3>1, <4>1, Kinds DEF AssignedAt
      <4>2. ASSUME NEW n \in Of(q), \A j \in Of(q) : j <= n, assigned[q] = OfWrite(n), ~Settled(n)
            PROVE  AssignedAt(q)'
        <5>1. CASE n = i
          BY <1>0, <1>1, <2>3, <3>1, <4>2, <5>1 DEF AssignedAt
        <5>2. CASE n # i
          <6>1. assigned'[q] = OfWrite(n) /\ ~Settled(n)'
            BY <1>1, <1>3, <3>1, <4>2, <5>2, Kinds
          <6>2. QED
            BY <1>1, <4>2, <6>1 DEF AssignedAt
        <5>3. QED
          BY <5>1, <5>2
      <4>3. ASSUME NEW n \in Of(q), \A j \in Of(q) : j <= n, assigned[q] = Value(n), writes[n].state = "ok"
            PROVE  AssignedAt(q)'
        <5>1. assigned'[q] = Value(n) /\ writes'[n].state = "ok"
          BY <1>0, <1>1, <1>3, <3>1, <4>3, Kinds
        <5>2. QED
          BY <1>0, <1>1, <2>3, <4>3, <5>1 DEF AssignedAt
      <4>4. QED
        BY <2>1, <4>1, <4>2, <4>3 DEF AssignedAt
    <3>3. assigned'[q] = Nothing => assigned[q] = Nothing
      BY <3>1, Kinds
    <3>4. Of(q) = {} => q # writes[i].prop
      BY <1>0 DEF Of
    <3>5. CachedAt(q)'
      BY <1>0, <1>1, <1>4, <2>1, <2>3, <3>1, <3>3, <3>4 DEF CachedAt
    <3>6. QED
      BY <2>2, <3>2, <3>5 DEF KeptAt
  <2>4. CASE ~setup.cache
    <3>1. /\ assigned'[q] = IF q = writes[i].prop THEN Nothing ELSE assigned[q]
          /\ cached'[q] = cached[q]
      BY <1>0, <2>4 DEF WriteArrives
    <3>2. AssignedAt(q)'
      <4>1. CASE q = writes[i].prop \/ assigned[q] = Nothing
        BY <3>1, <4>1 DEF AssignedAt
      <4>2. CASE q # writes[i].prop /\ assigned[q] # Nothing
        <5>1. PICK n \in Of(q) : (\A j \in Of(q) : j <= n) /\ assigned[q] = OfWrite(n) /\ ~Settled(n)
          BY <2>1, <2>4, <4>2 DEF AssignedAt
        <5>2. n # i
          BY <1>3, <4>2
        <5>3. QED
          BY <1>1, <1>3, <3>1, <4>2, <5>1, <5>2 DEF AssignedAt
      <4>3. QED
        BY <4>1, <4>2
    <3>3. CachedAt(q)'
      BY <1>0, <1>1, <2>1, <2>4, <3>1, Kinds DEF CachedAt
    <3>4. QED
      BY <2>2, <3>2, <3>3 DEF KeptAt
  <2>5. QED
    BY <2>3, <2>4
<1>6. TailOK'
  BY <1>0, <1>1 DEF TailOK
<1>7. QED
  BY <1>2, <1>5, <1>6 DEF PlainInv, PropertiesOK

(* A write of the queue fails, and what is kept of its property is dropped. *)
LEMMA PlainWriteFails ==
  ASSUME Types, Promised, SeenOK, PlainInv, NEW i \in DOMAIN writes, WriteFails(i)
  PROVE  PlainInv'
<1>0. /\ TailOK /\ PropertiesOK /\ ReadersOK /\ i \in Queued
      /\ "failed" \in States /\ ~Settled(i)
      /\ Move(i, "failed") /\ on' = Settle(on, OfWrite(i), Rejected)
      /\ UNCHANGED <<setup, tail, stored, pc, target, until, seen, prior>>
      /\ writes[i].prop \in Properties
      /\ DOMAIN assigned = Properties /\ DOMAIN cached = Properties
  BY WriteNumbers, TypesSplit DEF PlainInv, TailOK, WriteFails, States, Writes, Settled, Types
<1>1. /\ Queued' = Queued /\ \A q : Of(q)' = Of(q)
      /\ DOMAIN writes' = DOMAIN writes /\ Len(writes') = Len(writes)
      /\ writes'[i].state = "failed"
      /\ \A j \in DOMAIN writes : j # i => writes'[j].state = writes[j].state /\ Settled(j)' = Settled(j)
  BY <1>0, OneWriteMoves
<1>2. ReadersOK'
  BY <1>0, ReadersTold
<1>3. \A q : \A j \in Of(q) : j \in Queued /\ j \in DOMAIN writes /\ j \in Nat /\ writes[j].prop = q
  BY OfNumbers DEF Of
<1>4. ASSUME NEW q \in Properties PROVE StoredAt(q)' /\ KeptAt(q)'
  <2>1. StoredAt(q) /\ AssignedAt(q) /\ CachedAt(q)
    BY <1>0 DEF PropertiesOK, KeptAt
  <2>2. StoredAt(q)'
    BY <1>0, <1>1, <1>3, <2>1 DEF StoredAt
  <2>3. CASE q = writes[i].prop
    <3>1. assigned'[q] = Nothing /\ cached'[q] = Nothing
      BY <1>0, <2>3 DEF WriteFails
    <3>2. i \in Of(q)
      BY <1>0, <2>3 DEF Of
    <3>3. ~(NoneFails(q)')
      BY <1>1, <3>2 DEF NoneFails
    <3>4. QED
      BY <2>2, <3>1, <3>3, KeptDropped
  <2>4. CASE q # writes[i].prop
    <3>1. assigned'[q] = assigned[q] /\ cached'[q] = cached[q]
      BY <1>0, <2>4 DEF WriteFails
    <3>2. \A j \in Of(q) : writes'[j].state = writes[j].state /\ Settled(j)' = Settled(j)
      BY <1>1, <1>3, <2>4
    <3>3. AssignedAt(q)'
      BY <1>0, <1>1, <2>1, <3>1, <3>2 DEF AssignedAt
    <3>4. CachedAt(q)'
      BY <1>0, <1>1, <2>1, <3>1, <3>2 DEF CachedAt, NoneFails
    <3>5. QED
      BY <2>2, <3>3, <3>4 DEF KeptAt
  <2>5. QED
    BY <2>3, <2>4
<1>5. TailOK'
  BY <1>0, <1>1 DEF TailOK
<1>6. QED
  BY <1>2, <1>4, <1>5 DEF PlainInv, PropertiesOK

LEMMA ReadInit == MappingInit => ReadInv
<1> SUFFICES ASSUME MappingInit PROVE ReadInv
  OBVIOUS
<1>1. writes = <<>> /\ DOMAIN writes = {} /\ Queued = {} /\ Len(writes) = 0
  BY DEF MappingInit, Queued
<1>2. \A q : Of(q) = {}
  BY <1>1 DEF Of
<1>3. PropertiesOK
  BY <1>2, Kinds DEF MappingInit, PropertiesOK, StoredAt, KeptAt, AssignedAt, CachedAt
<1>4. ReadersOK
  BY DEF MappingInit, ReadersOK, AskedAt, AwaitedAt, Reading, UnderWay
<1>5. QED
  BY <1>1, <1>3, <1>4, FlowInit DEF ReadInv, PlainInv, TailOK, MappingInit, WritesInOrder

LEMMA SetupStays ==
  ASSUME [MappingNext]_mappingVars
  PROVE  setup' = setup
<1>1. ASSUME NEW f \in Flows, Call(f) PROVE setup' = setup
  BY <1>1 DEF Call, Flush, RefreshAll, ClearCache, Assign, Set, SendDirect, ReadKept, Read, Refresh
<1>2. ASSUME NEW f \in Flows, GoOn(f) \/ Message(f) PROVE setup' = setup
  BY <1>2 DEF GoOn, FlushDone, WritesDone, KeptDone, SendDone, Throw, Message, ReadPerform,
              ReadDone, ReadFails, ReadEnds
<1>3. ASSUME NEW i, Progress(i) PROVE setup' = setup
  BY <1>3 DEF Progress, Perform, WriteArrives, WriteFails, DirectEnds
<1>4. QED
  BY <1>1, <1>2, <1>3 DEF MappingNext, External, mappingVars

LEMMA PlainStep ==
  ASSUME FlowInv, WritesInOrder, PlainInv, Plain, [MappingNext]_mappingVars
  PROVE  PlainInv'
<1>0. Types /\ Promised /\ SeenOK
  BY DEF FlowInv
<1>1. ASSUME NEW i \in DOMAIN writes PROVE ~DirectEnds(i)
  BY DEF DirectEnds, PlainInv, TailOK, Queued
<1>2. ASSUME NEW p \in Properties PROVE ~External(p)
  BY DEF External, Plain
<1>3. CASE UNCHANGED mappingVars
  <2>1. TailOK /\ PropertiesOK /\ ReadersOK
    BY DEF PlainInv
  <2>2. UNCHANGED <<setup, stored, writes, tail, kept, flow, seen, prior>>
    BY <1>3 DEF mappingVars, ghost
  <2>3. TailOK'
    BY <2>1, <2>2 DEF TailOK, Queued
  <2>4. QED
    BY <1>0, <2>1, <2>2, <2>3, PropertiesSame, ReadersSame DEF PlainInv
<1>4. QED
  BY <1>0, <1>1, <1>2, <1>3, PlainCall, PlainGoOn, PlainPerform, PlainWriteArrives,
     PlainWriteFails DEF MappingNext, Progress

LEMMA ReadStep == MappingInv /\ ReadInv /\ [MappingNext]_mappingVars => ReadInv'
<1> SUFFICES ASSUME MappingInv, ReadInv, [MappingNext]_mappingVars PROVE ReadInv'
  OBVIOUS
<1>1. FlowInv /\ WritesInOrder /\ (Plain => PlainInv)
  BY DEF ReadInv
<1>2. WritesInOrder'
  BY InvStep DEF MappingInv, QueueInv
<1>3. Plain' => Plain
  BY SetupStays DEF Plain
<1>4. QED
  BY <1>1, <1>2, <1>3, FlowStep, PlainStep DEF ReadInv

-----------------------------------------------------------------------------
LEMMA ReadersInvariant == MappingSpec => []ReadInv
<1>1. MappingInv /\ ReadInv /\ [MappingNext]_mappingVars => (MappingInv /\ ReadInv)'
  BY InvStep, ReadStep
<1>2. QED
  BY <1>1, InvInit, ReadInit, PTL DEF MappingSpec

(* Whatever the cache and the writes still queued have made of it, a read  *)
(* returns a value that the object had between its call and its return.    *)
THEOREM MappingReadsAreRegular == MappingSpec => ReadsAreRegular
<1>1. ASSUME ReadInv, NEW f \in Flows, NEW v \in Values, Answers(f, v),
             pc[f] = "awaiting" => KeptIsCurrent(target[f])
      PROVE  v \in seen[f]
  <2>1. CASE pc[f] = "marshalling"
    BY <1>1, <2>1, Kinds DEF Answers, ReadInv, FlowInv, SeenOK
  <2>2. CASE pc[f] = "awaiting"
    <3>1. Plain /\ Current(target[f])
      BY <1>1, <2>2 DEF KeptIsCurrent, Plain, Current, NoneFails, Of
    <3>2. AwaitedAt(f)
      BY <1>1, <3>1 DEF ReadInv, PlainInv, ReadersOK
    <3>3. QED
      BY <1>1, <2>2, <3>1, <3>2 DEF AwaitedAt, Answers
  <2>3. QED
    BY <1>1, <2>1, <2>2 DEF Answers
<1>2. ReadInv /\ [MappingNext]_mappingVars =>
        [\A f \in Flows, v \in Values :
           Answers(f, v) /\ (pc[f] = "awaiting" => KeptIsCurrent(target[f]))
             => v \in seen[f]]_mappingVars
  BY <1>1
<1>3. QED
  BY <1>2, ReadersInvariant, PTL DEF MappingSpec, ReadsAreRegular

(* A flow reads its own writes: a read never returns a value older than    *)
(* what was assigned before it began, unless that write failed.            *)
THEOREM MappingOwnWritesAreRead == MappingSpec => OwnWritesAreRead
<1>1. ASSUME ReadInv, NEW f \in Flows, NEW v \in Values, Answers(f, v), KeptIsCurrent(target[f])
      PROVE  \A i \in prior[f] : i <= v \/ writes[i].state = "failed"
  <2>1. Plain /\ Current(target[f])
    BY <1>1 DEF KeptIsCurrent, Plain, Current, NoneFails, Of
  <2>2. AskedAt(f) /\ AwaitedAt(f)
    BY <1>1, <2>1 DEF ReadInv, PlainInv, ReadersOK
  <2>3. UpTo(f, v)
    BY <1>1, <2>1, <2>2 DEF AskedAt, AwaitedAt, Answers
  <2>4. QED
    BY <2>3 DEF UpTo
<1>2. ReadInv /\ [MappingNext]_mappingVars =>
        [\A f \in Flows, v \in Values :
           Answers(f, v) /\ KeptIsCurrent(target[f])
             => \A i \in prior[f] : i <= v \/ writes[i].state = "failed"]_mappingVars
  BY <1>1
<1>3. QED
  BY <1>2, ReadersInvariant, PTL DEF MappingSpec, OwnWritesAreRead

-----------------------------------------------------------------------------
(* What is kept when the queue is empty                                    *)

(* Unless a write of p is between its effect and its end, what is cached   *)
(* of p, or will be by a read under way, is what the object has.           *)
NoneUnderWay(p) == \A i \in Of(p) : writes[i].state # "performed"

FreshAt(p) ==
  NoneUnderWay(p) =>
    /\ \A v \in Values : cached[p] = Value(v) => v = stored[p]
    /\ \A f \in Flows, v \in Values :
         cached[p] = OfRead(f) /\ pc[f] = "marshalling" /\ on[f] = Value(v) => v = stored[p]

Fresh == \A p \in Properties : FreshAt(p)

LEMMA FreshSame ==
  ASSUME NEW p, FreshAt(p), NoneUnderWay(p)' => NoneUnderWay(p),
         stored'[p] = stored[p], cached'[p] \in {cached[p], Nothing},
         \A f \in Flows : cached[p] = OfRead(f) /\ pc'[f] = "marshalling" =>
                            pc[f] = "marshalling" /\ on'[f] = on[f]
  PROVE  FreshAt(p)'
BY Kinds DEF FreshAt

LEMMA WritesStay ==
  ASSUME NEW p, writes' = writes
  PROVE  NoneUnderWay(p)' <=> NoneUnderWay(p)
BY DEF NoneUnderWay, Of, Queued

LEMMA FreshCall ==
  ASSUME Types, Promised, Fresh, NEW f \in Flows, Call(f)
  PROVE  Fresh'
<1>0. FlowTypes /\ DOMAIN cached = Properties
  BY TypesSplit DEF Types
<1>1. pc[f] = "idle" /\ stored' = stored
  BY DEF Call, Flush, RefreshAll, ClearCache, Assign, Set, SendDirect, ReadKept, Read, Refresh,
         Idle
<1>2. \A p \in Properties : cached'[p] \in {cached[p], Nothing}
  BY DEF Call, Flush, RefreshAll, ClearCache, Assign, Set, SendDirect, ReadKept, Read, Refresh,
         Forget, kept
<1>3. \A g \in Flows : g # f => pc'[g] = pc[g] /\ on'[g] = on[g]
  BY <1>0 DEF Call, Flush, RefreshAll, ClearCache, Assign, Set, SendDirect, ReadKept, Read,
              Refresh, AwaitWrites, flow, FlowTypes
<1>4. \A p \in Properties : cached[p] # OfRead(f)
  BY <1>1, ReadsUnderWay DEF UnderWay
<1>5. ASSUME NEW p \in Properties PROVE NoneUnderWay(p)' => NoneUnderWay(p)
  <2>1. ASSUME NEW q \in Properties, NEW queued \in BOOLEAN, AddWrite(q, queued, "waiting")
        PROVE  NoneUnderWay(p)' => NoneUnderWay(p)
    <3>1. \A i \in Queued : i \in Queued' /\ writes'[i] = writes[i]
      BY <2>1, WritesGrow DEF States
    <3>2. QED
      BY <3>1 DEF NoneUnderWay, Of
  <2>2. \/ writes' = writes
        \/ \E q \in Properties, queued \in BOOLEAN : AddWrite(q, queued, "waiting")
    BY DEF Call, Flush, RefreshAll, ClearCache, Assign, Set, SendDirect, ReadKept, Read,
           Refresh, QueueWrite
  <2>3. QED
    BY <2>1, <2>2, WritesStay
<1>6. QED
  BY <1>1, <1>2, <1>3, <1>4, <1>5, FreshSame DEF Fresh

(* A read fills the cache with what it has just read.                      *)
LEMMA FreshGoOn ==
  ASSUME Types, Promised, SeenOK, Fresh, NEW f \in Flows, GoOn(f) \/ Message(f)
  PROVE  Fresh'
<1>0. /\ FlowTypes /\ DOMAIN on = Flows /\ DOMAIN pc = Flows /\ DOMAIN cached = Properties
  BY TypesSplit DEF FlowTypes, Types
<1>1. writes' = writes /\ stored' = stored
  BY DEF GoOn, FlushDone, WritesDone, KeptDone, SendDone, Throw, Message, ReadPerform, ReadDone,
         ReadFails, ReadEnds
<1>2. ASSUME NEW p \in Properties PROVE FreshAt(p) /\ (NoneUnderWay(p)' <=> NoneUnderWay(p))
  BY <1>1, WritesStay DEF Fresh
<1>3. ASSUME Return(f, on), UNCHANGED kept PROVE Fresh'
  <2>1. pc'[f] = "idle" /\ \A g \in Flows : g # f => pc'[g] = pc[g] /\ on'[g] = on[g]
    BY <1>0, <1>3, ReturnsIdle, OthersStay
  <2>2. QED
    BY <1>1, <1>2, <1>3, <2>1, FreshSame DEF Fresh, kept
<1>4. CASE FlushDone(f) \/ KeptDone(f) \/ SendDone(f) \/ Throw(f)
  BY <1>3, <1>4 DEF FlushDone, KeptDone, SendDone, Throw
<1>5. CASE WritesDone(f) /\ ~Throw(f)
  <2>1. /\ pc' = [pc EXCEPT ![f] = "reading"] /\ on' = on
        /\ cached' = IF setup.cache THEN [cached EXCEPT ![target[f]] = OfRead(f)] ELSE cached
    BY <1>5 DEF WritesDone
  <2>2. pc'[f] = "reading" /\ \A g \in Flows : g # f => pc'[g] = pc[g]
    BY <1>0, <2>1
  <2>3. ASSUME NEW p \in Properties PROVE FreshAt(p)'
    <3>1. CASE cached'[p] = cached[p]
      BY <1>1, <1>2, <2>1, <2>2, <3>1, FreshSame
    <3>2. CASE cached'[p] = OfRead(f)
      BY <2>2, <3>2, Kinds DEF FreshAt
    <3>3. QED
      BY <1>0, <2>1, <3>1, <3>2
  <2>4. QED
    BY <2>3 DEF Fresh
<1>6. CASE ReadPerform(f)
  <2>1. /\ on'[f] = Value(stored[target[f]]) /\ cached' = cached
        /\ \A g \in Flows : g # f => pc'[g] = pc[g] /\ on'[g] = on[g]
    BY <1>0, <1>6 DEF ReadPerform, kept
  <2>2. ASSUME NEW p \in Properties PROVE FreshAt(p)'
    <3>1. cached[p] = OfRead(f) => target[f] = p
      BY DEF Promised
    <3>2. ASSUME NEW v, on'[f] = Value(v) PROVE v = stored[target[f]]
      <4>1. Value(v).by = Value(stored[target[f]]).by
        BY <2>1, <3>2
      <4>2. QED
        BY <4>1, Kinds
    <3>3. QED
      BY <1>1, <1>2, <2>1, <3>1, <3>2 DEF FreshAt
  <2>3. QED
    BY <2>2 DEF Fresh
<1>7. ASSUME NEW how, ReadEnds(f, how), how = Rejected \/ (how = on[f] /\ pc[f] = "marshalling")
      PROVE  Fresh'
  <2>1. /\ \A p \in Properties :
             cached'[p] = IF cached[p] = OfRead(f) THEN how ELSE cached[p]
        /\ Return(f, Settle(on, OfRead(f), how))
        /\ DOMAIN Settle(on, OfRead(f), how) = Flows
    BY <1>0, <1>7, SettleDef DEF ReadEnds
  <2>2. pc'[f] = "idle" /\ \A g \in Flows : g # f => pc'[g] = pc[g]
    BY <1>0, <2>1, ReturnsIdle, OthersStay
  <2>3. \A g \in Flows : g # f /\ pc[g] = "marshalling" => on'[g] = on[g]
    <3>1. \A g \in Flows : pc[g] = "marshalling" => on[g] # OfRead(f)
      BY Kinds DEF SeenOK
    <3>2. QED
      BY <1>0, <2>1, <3>1, OthersStay, SettleDef
  <2>4. ASSUME NEW p \in Properties PROVE FreshAt(p)'
    <3>1. CASE cached[p] # OfRead(f)
      BY <1>1, <1>2, <2>1, <2>2, <2>3, <3>1, FreshSame
    <3>2. CASE cached[p] = OfRead(f)
      <4>1. cached'[p] = how
        BY <2>1, <3>2
      <4>2. \A g : how # OfRead(g)
        BY <1>7, Kinds DEF SeenOK
      <4>3. \A v \in Values : how = Value(v) => pc[f] = "marshalling" /\ on[f] = Value(v)
        BY <1>7, Kinds
      <4>4. QED
        BY <1>1, <1>2, <3>2, <4>1, <4>2, <4>3 DEF FreshAt
    <3>3. QED
      BY <3>1, <3>2
  <2>5. QED
    BY <2>4 DEF Fresh
<1>8. CASE ReadDone(f) \/ ReadFails(f)
  BY <1>7, <1>8 DEF ReadDone, ReadFails
<1>9. CASE WritesDone(f)
  BY <1>4, <1>5, <1>9
<1>10. QED
  BY <1>4, <1>6, <1>8, <1>9 DEF GoOn, Message

(* The newest write under way is what the object has, because writes are   *)
(* sent one at a time; whatever its end, it replaces or drops what was     *)
(* cached.                                                                 *)
LEMMA FreshProgress ==
  ASSUME Types, Promised, SeenOK, WritesInOrder, PlainInv, Fresh,
         NEW i \in DOMAIN writes, Perform(i) \/ WriteArrives(i) \/ WriteFails(i)
  PROVE  Fresh'
<1>a. /\ DOMAIN on = Flows /\ DOMAIN cached = Properties /\ stored \in [Properties -> Values]
      /\ i \in Queued /\ i \in Nat /\ writes[i].prop \in Properties
  BY WriteNumbers, TypesSplit DEF PlainInv, TailOK, Types, Writes
<1>b. PICK q \in Properties : q = writes[i].prop
  BY <1>a
<1>0. /\ DOMAIN on = Flows /\ DOMAIN cached = Properties /\ stored \in [Properties -> Values]
      /\ i \in Queued /\ i \in Of(q) /\ q = writes[i].prop /\ i \in Nat
  BY <1>a, <1>b DEF Of
<1>1. PICK how \in {"performed", "ok", "failed"} : Move(i, how)
  BY DEF Perform, WriteArrives, WriteFails
<1>2. /\ \A p : Of(p)' = Of(p)
      /\ writes'[i].state = how
      /\ \A j \in DOMAIN writes : j # i => writes'[j].state = writes[j].state
  BY <1>1, OneWriteMoves DEF States
<1>3. /\ pc' = pc
      /\ \A p \in Properties : p # q => stored'[p] = stored[p] /\ cached'[p] = cached[p]
  BY <1>0 DEF Perform, WriteArrives, WriteFails, Apply, kept, flow
<1>4. \A f \in Flows : pc[f] = "marshalling" => on'[f] = on[f]
  <2>1. \A f \in Flows : pc[f] = "marshalling" => on[f] # OfWrite(i)
    BY Kinds DEF SeenOK
  <2>2. on' = on \/ \E answer : on' = Settle(on, OfWrite(i), answer)
    BY DEF Perform, WriteArrives, WriteFails, flow
  <2>3. QED
    BY <1>0, <2>1, <2>2, SettleDef
<1>5. ASSUME NEW p \in Properties, p # q PROVE FreshAt(p)'
  <2>1. \A j \in Of(p) : j # i /\ j \in DOMAIN writes
    BY <1>0, <1>5, OfNumbers DEF Of
  <2>2. NoneUnderWay(p)' => NoneUnderWay(p)
    BY <1>2, <2>1 DEF NoneUnderWay
  <2>3. QED
    BY <1>3, <1>4, <1>5, <2>2, FreshSame DEF Fresh
<1>6. FreshAt(q)'
  <2>1. CASE Perform(i)
    <3>1. i \in Of(q)' /\ writes'[i].state = "performed"
      <4>1. Move(i, "performed")
        BY <2>1 DEF Perform
      <4>2. writes'[i].state = "performed"
        BY <4>1, OneWriteMoves DEF States
      <4>3. QED
        BY <1>0, <1>2, <4>2
    <3>2. ~NoneUnderWay(q)'
      BY <3>1 DEF NoneUnderWay
    <3>3. QED
      BY <3>2 DEF FreshAt
  <2>2. CASE WriteArrives(i)
    <3>1. writes[i].state = "performed" /\ stored' = stored
      BY <2>2 DEF WriteArrives
    <3>2. StoredAt(q) /\ CachedAt(q)
      BY <1>0 DEF PlainInv, PropertiesOK, KeptAt
    <3>3. stored[q] = i
      <4>1. i <= stored[q] /\ stored[q] \in Nat
        BY <1>0, <3>1, <3>2, ValuesAreNumbers DEF StoredAt
      <4>2. i # 0
        BY <1>0, OfNumbers
      <4>3. stored[q] \in Queued /\ writes[stored[q]].state # "waiting"
        BY <1>0, <3>2, <4>1, <4>2 DEF StoredAt, Of
      <4>4. i < stored[q] => Settled(i)
        BY <1>0, <4>3 DEF WritesInOrder
      <4>5. QED
        BY <1>0, <3>1, <4>1, <4>4 DEF Settled
    <3>4. cached'[q] = IF setup.cache THEN Value(i) ELSE Nothing
      BY <1>0, <2>2, <3>2 DEF WriteArrives, CachedAt
    <3>5. QED
      BY <3>1, <3>3, <3>4, Kinds DEF FreshAt
  <2>3. CASE WriteFails(i)
    <3>1. cached'[q] = Nothing
      BY <1>0, <2>3 DEF WriteFails
    <3>2. QED
      BY <3>1, Kinds DEF FreshAt
  <2>4. QED
    BY <2>1, <2>2, <2>3
<1>7. QED
  BY <1>5, <1>6 DEF Fresh

LEMMA FreshStep ==
  ASSUME FlowInv, WritesInOrder, PlainInv, Plain, Fresh, [MappingNext]_mappingVars
  PROVE  Fresh'
<1>0. Types /\ Promised /\ SeenOK
  BY DEF FlowInv
<1>1. ASSUME NEW i \in DOMAIN writes PROVE ~DirectEnds(i)
  BY DEF DirectEnds, PlainInv, TailOK, Queued
<1>2. ASSUME NEW p \in Properties PROVE ~External(p)
  BY DEF External, Plain
<1>3. CASE UNCHANGED mappingVars
  <2>1. UNCHANGED <<writes, stored, cached, pc, on>>
    BY <1>3 DEF mappingVars, kept, flow
  <2>2. QED
    BY <2>1, WritesStay, FreshSame DEF Fresh
<1>4. QED
  BY <1>0, <1>1, <1>2, <1>3, FreshCall, FreshGoOn, FreshProgress DEF MappingNext, Progress

LEMMA FreshMeansConverged ==
  ASSUME FlowInv, PlainInv, Fresh
  PROVE  WritesConverge
<1>0. Types /\ stored \in [Properties -> Values] /\ cached \in [Properties -> Cacheable]
  BY TypesSplit DEF FlowInv, Types
<1>1. ASSUME NEW p \in Properties, \A i \in Of(p) : Settled(i)
      PROVE  /\ \A i \in Of(p) : writes[i].state = "ok" => i <= stored[p]
             /\ assigned[p] \in {Nothing, Value(stored[p])}
             /\ cached[p].kind = "value" => cached[p] = Value(stored[p])
             /\ \A f \in Flows :
                  cached[p] = OfRead(f) /\ pc[f] = "marshalling" => on[f] = Value(stored[p])
  <2>1. StoredAt(p) /\ AssignedAt(p) /\ FreshAt(p)
    BY DEF PlainInv, PropertiesOK, KeptAt, Fresh
  <2>2. NoneUnderWay(p)
    BY <1>0, <1>1, OfNumbers DEF NoneUnderWay, Settled
  <2>3. assigned[p] \in {Nothing, Value(stored[p])}
    <3>1. SUFFICES ASSUME NEW i \in Of(p), \A j \in Of(p) : j <= i, writes[i].state = "ok"
                   PROVE  i = stored[p]
      BY <1>1, <2>1 DEF AssignedAt
    <3>2. i <= stored[p] /\ i \in Nat /\ i # 0 /\ stored[p] \in Nat
      BY <1>0, <2>1, <3>1, OfNumbers, ValuesAreNumbers DEF StoredAt
    <3>3. stored[p] <= i
      BY <2>1, <3>1, <3>2 DEF StoredAt
    <3>4. QED
      BY <3>2, <3>3
  <2>4. cached[p].kind = "value" => cached[p] = Value(stored[p])
    <3>1. SUFFICES ASSUME cached[p].kind = "value" PROVE cached[p] = Value(stored[p])
      OBVIOUS
    <3>2. PICK v \in Values : cached[p] = Value(v)
      BY <1>0, <3>1, Kinds DEF Cacheable, Kept
    <3>3. QED
      BY <2>1, <2>2, <3>2 DEF FreshAt
  <2>5. ASSUME NEW f \in Flows, cached[p] = OfRead(f), pc[f] = "marshalling"
        PROVE  on[f] = Value(stored[p])
    <3>1. PICK v \in seen[f] : on[f] = Value(v)
      BY <2>5 DEF FlowInv, SeenOK
    <3>2. v \in Values
      BY <1>0 DEF Types
    <3>3. QED
      BY <2>1, <2>2, <2>5, <3>1, <3>2 DEF FreshAt
  <2>6. QED
    BY <2>1, <2>3, <2>4, <2>5 DEF StoredAt
<1>2. QED
  BY <1>1 DEF WritesConverge, Of

(* In whatever order writes, failures, reads, and clears of the cache have *)
(* come, when the queue has nothing more to do for a property the object   *)
(* has the newest value that arrived, or that of a newer write that failed *)
(* after its effect, and nothing older is kept of it.                      *)
THEOREM MappingWritesConverge == MappingSpec => []WritesConverge
<1>1. MappingInit => (Plain => Fresh)
  BY Kinds DEF MappingInit, Fresh, FreshAt
<1>2. ReadInv /\ (Plain => Fresh) /\ [MappingNext]_mappingVars => (Plain => Fresh)'
  BY FreshStep, SetupStays DEF ReadInv, Plain
<1>3. ReadInv /\ (Plain => Fresh) => WritesConverge
  BY FreshMeansConverged DEF ReadInv, Plain, WritesConverge
<1>4. QED
  BY <1>1, <1>2, <1>3, ReadersInvariant, PTL DEF MappingSpec
=============================================================================
