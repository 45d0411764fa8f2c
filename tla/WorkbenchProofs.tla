-------------------------- MODULE WorkbenchProofs --------------------------
(***************************************************************************)
(* Proofs about the extension, its debug adapters and the server that it   *)
(* manages, for any numbers of commands, processes, requests and adapters. *)
(***************************************************************************)
EXTENDS DebugAdapter, Workbench, TLAPS

-----------------------------------------------------------------------------
(* The start of the server.                                                *)
(*                                                                         *)
(* `starting' is the command that starts, and nobody joins a start but     *)
(* while there is one.  The password of the store does not get older: what *)
(* a start reads is what was stored when it began, or newer.               *)

TheStart(c) ==
  /\ AtStart(c) <=> starting = c
  /\ at[c] = "join" => starting # NoOne

Ages(c) ==
  /\ since[c] <= stored
  /\ at[c] = "spawn" => since[c] <= got[c]

StartInv ==
  /\ WorkbenchTypeOK
  /\ \A c \in Commands : TheStart(c) /\ Ages(c)
  /\ SpawnsWithStoredPassword

LEMMA StartInvInit == WorkbenchInit => StartInv
BY WorkbenchAssumption DEF WorkbenchInit, WorkbenchBegins, StartInv, WorkbenchTypeOK, CommandKinds, CommandSteps, TheStart, Ages, AtStart,
       SpawnsWithStoredPassword

LEMMA KillTypes ==
  WorkbenchTypeOK /\ (Kill \/ UNCHANGED <<told, handle>>)
    => told' \in [Processes -> BOOLEAN] /\ handle' \in Processes \cup {NoOne}
BY DEF WorkbenchTypeOK, Kill

LEMMA StartInvStep == StartInv /\ [WorkbenchNext]_workbenchVars => StartInv'
<1> SUFFICES ASSUME StartInv, [WorkbenchNext]_workbenchVars PROVE StartInv'
  OBVIOUS
<1> USE WorkbenchAssumption
<1> USE DEF StartInv, WorkbenchTypeOK, TheStart, Ages, AtStart, SpawnsWithStoredPassword, CommandSteps, Move
<1>1. CASE UNCHANGED workbenchVars
  BY <1>1 DEF workbenchVars
<1>2. ASSUME NEW c \in Commands, NEW k \in MayRun[c], Begin(c, k) PROVE StartInv'
  <2>1. k \in CommandKinds
    BY <1>2
  <2>2. told' \in [Processes -> BOOLEAN] /\ handle' \in Processes \cup {NoOne}
    BY <1>2, KillTypes DEF Begin
  <2>3. UNCHANGED <<process, built, reported, starting, storeVars, got, since, found>>
    BY <1>2 DEF Begin
  <2>4. \E step \in {"done", "update", "store", "load", "probe"} : at' = [at EXCEPT ![c] = step]
    BY <1>2 DEF Begin
  <2>5. at[c] = "idle" /\ kind' = [kind EXCEPT ![c] = k]
    BY <1>2 DEF Begin
  <2> QED
    BY <2>1, <2>2, <2>3, <2>4, <2>5 DEF storeVars
<1>3. ASSUME NEW c \in Commands, Step(c) PROVE StartInv'
  <2>1. CASE UpdateSettings(c)
    <3>1. told' \in [Processes -> BOOLEAN] /\ handle' \in Processes \cup {NoOne}
      BY <2>1, KillTypes DEF UpdateSettings
    <3> QED
      BY <2>1, <3>1 DEF UpdateSettings
  <2>2. CASE StorePassword(c)
    BY <2>2 DEF StorePassword, processVars
  <2>3. CASE KeepPassword(c)
    <3>1. told' \in [Processes -> BOOLEAN] /\ handle' \in Processes \cup {NoOne}
      BY <2>3, KillTypes DEF KeepPassword
    <3> QED
      BY <2>3, <3>1 DEF KeepPassword
  <2>4. CASE ReadPassword(c)
    BY <2>4 DEF ReadPassword, processVars, storeVars
  <2>5. CASE LoadPassword(c)
    BY <2>5 DEF LoadPassword, processVars
  <2>6. CASE Probe(c)
    BY <2>6 DEF Probe, Listener, processVars, storeVars
  <2>7. CASE Spawn(c)
    BY <2>7 DEF Spawn
  <2>8. ASSUME NEW p \in Processes \cup {NoOne}, AtStart(c), EndStart(c, p) PROVE StartInv'
    BY <2>8 DEF EndStart, Waiting, processVars, storeVars
  <2> QED
    BY <1>3, <2>1, <2>2, <2>3, <2>4, <2>5, <2>6, <2>7, <2>8 DEF Step, Started, StartFails, Listener
<1>4. ASSUME NEW p \in Processes, Boot(p) \/ Die(p) \/ ExitEvent(p) PROVE StartInv'
  <2>1. UNCHANGED <<storeVars, commandVars, starting, built>>
    BY <1>4 DEF Boot, Die, ExitEvent
  <2>2. WorkbenchTypeOK'
    BY <1>4, <2>1 DEF Boot, Die, ExitEvent, storeVars, commandVars
  <2> QED
    BY <2>1, <2>2 DEF storeVars, commandVars
<1> QED
  BY <1>1, <1>2, <1>3, <1>4 DEF WorkbenchNext

(* Types: the state of the extension and its processes.                    *)
THEOREM WorkbenchTypesOK == WorkbenchSpec => []WorkbenchTypeOK
<1>1. StartInv => WorkbenchTypeOK
  BY DEF StartInv
<1> QED
  BY <1>1, StartInvInit, StartInvStep, PTL DEF WorkbenchSpec

(* ensureStarted() and start(): however many commands need the server at   *)
(* once, one starts it for all, and with a password not older than that.   *)
THEOREM WorkbenchStartsAreRight == WorkbenchSpec => []StartsAreRight
<1>1. StartInv => StartsAreRight
  BY WorkbenchAssumption DEF StartInv, WorkbenchTypeOK, StartsAreRight, OneStart, TheStart
<1> QED
  BY <1>1, StartInvInit, StartInvStep, PTL DEF WorkbenchSpec

-----------------------------------------------------------------------------
(* The sessions of the explorer and the answers of its requests.           *)

(* Where a handler has its own session, and where it has none yet. *)
Inside  == {"execute", "finish", "logout", "run", "halted"}
Outside == {"idle", "connect", "close all", "closing", "act", "wait", "problem"}

Untouched(s) == logouts[s] = 0 /\ ~IsDebug(s) /\ \A a \in Actors : closing[a] # s

(* A session is its handler's, kept for debugging, or being closed by one  *)
(* handler, in this order, and then logged out.                            *)
Place(s) ==
  /\ pc[s] \in Inside => session[s] = "in" /\ Untouched(s)
  /\ pc[s] \in Outside => session[s] = "none" /\ Untouched(s)
  /\ IsDebug(s) => /\ session[s] = IF server = "exited" THEN "lost" ELSE "in"
                   /\ pc[s] = "answered" /\ logouts[s] = 0 /\ \A a \in Actors : closing[a] # s
  /\ \A a \in Actors : closing[a] = s => pc[s] = "answered" /\ session[s] = "in" /\ logouts[s] = 0
  /\ pc[s] = "answered" /\ session[s] = "in" => IsDebug(s) \/ \E a \in Actors : closing[a] = s
  /\ logouts[s] <= 1

(* What a handler is about to answer tells of the commit from the moment   *)
(* there is one.                                                           *)
Told(s) ==
  /\ pc[s] \in {"logout", "answered"} => (reply[s].committed <=> work[s] = "committed")
  /\ pc[s] \notin {"logout", "answered"} => ~reply[s].committed /\ work[s] # "committed"
  /\ work[s] = "committed" => req[s].commit

(* No two handlers close the same session, and none is at work in a server *)
(* that has ended.                                                         *)
Closers ==
  /\ \A a \in Actors : pc[a] = "closing" <=> closing[a] # None
  /\ \A a, b \in Actors : closing[a] = closing[b] /\ closing[a] # None => a = b
  /\ server = "exited" => \A a \in Actors : ~InProgress(a)
  /\ pc[Shutdown] \in {"idle", "close all", "closing", "answered"}

SessionInv == Closers /\ \A s \in Requests : Place(s)
ServerInv  == ServerTypeOK /\ SessionInv /\ \A s \in Requests : Told(s)

QueryType == [kind : Kinds, commit : BOOLEAN, verb : Verbs, target : Requests \cup {None}]
ReplyType == [told : {"nothing", "error", "problem", "done", "live"}, committed : BOOLEAN,
              id : Requests \cup {None}]

(* The adapters send requests of their own, so a request may be any query. *)
ServerStep ==
  \/ \E r \in Requests : \E q \in QueryType : Arrive(r, q)
  \/ \E r \in Requests : Handle(r)
  \/ \E a \in Actors : CloseNext(a) \/ CloseEnds(a)
  \/ Signal \/ CloseServer \/ Exit

LEMMA Replies ==
  /\ Unknown \in ReplyType /\ Failed \in ReplyType /\ NotLive \in ReplyType
  /\ \A c \in BOOLEAN : Done(c) \in ReplyType /\ Done(c).committed = c
  /\ \A s \in Requests \cup {None} : Ended(s) \in ReplyType /\ Live(s) \in ReplyType
  /\ ~Unknown.committed /\ ~Failed.committed /\ ~NotLive.committed
  /\ \A s : ~Ended(s).committed /\ ~Live(s).committed
BY DEF ReplyType, Unknown, Failed, NotLive, Done, Ended, Live

LEMMA ServerInvInit == ServerInit => ServerInv
<1> SUFFICES ASSUME ServerInit PROVE ServerInv
  OBVIOUS
<1> USE ServerAssumption DEF ServerInit
<1>1. ServerTypeOK
  BY Replies DEF ServerTypeOK, ReplyType, NoRequest, Kinds, Verbs, Steps
<1>2. SessionInv
  BY DEF SessionInv, Closers, Place, Untouched, Inside, Outside, InProgress, IsDebug, Actors
<1>3. ASSUME NEW s \in Requests PROVE Told(s)
  BY <1>3, Replies DEF Told, Actors
<1> QED
  BY <1>1, <1>2, <1>3 DEF ServerInv

-----------------------------------------------------------------------------
(* Types                                                                   *)

LEMMA CloseTypes ==
  ASSUME ServerTypeOK, NEW a \in Actors, NEW s \in Requests \cup {None}, NEW after \in Steps,
         CloseBegins(a, s, after)
  PROVE  /\ debugs' \subseteq Requests /\ closing' \in [Actors -> Requests \cup {None}]
         /\ pc' \in [Actors -> Steps]
BY DEF ServerTypeOK, CloseBegins, Go, Steps, IsDebug

LEMMA LogsOutTypes ==
  ASSUME ServerTypeOK, NEW s, LogsOut(s)
  PROVE  /\ session' \in [Requests -> {"none", "in", "out", "lost"}]
         /\ work' \in [Requests -> {"none", "changed", "committed", "gone"}]
         /\ logouts' \in [Requests -> Nat]
<1>1. session' \in [Requests -> {"none", "in", "out", "lost"}]
  BY DEF ServerTypeOK, LogsOut
<1>2. work' \in [Requests -> {"none", "changed", "committed", "gone"}]
  BY DEF ServerTypeOK, LogsOut
<1>3. logouts' \in [Requests -> Nat]
  <2>1. logouts' = [logouts EXCEPT ![s] = logouts[s] + 1] /\ logouts \in [Requests -> Nat]
    BY DEF ServerTypeOK, LogsOut
  <2>2. CASE s \in Requests
    BY <2>1, <2>2
  <2>3. CASE s \notin Requests
    BY <2>1, <2>3
  <2> QED
    BY <2>2, <2>3
<1> QED
  BY <1>1, <1>2, <1>3

LEMMA ServerTypesStep == ServerTypeOK /\ [ServerStep]_serverVars => ServerTypeOK'
<1> SUFFICES ASSUME ServerTypeOK, [ServerStep]_serverVars PROVE ServerTypeOK'
  OBVIOUS
<1> DEFINE Sessions == /\ session' \in [Requests -> {"none", "in", "out", "lost"}]
                       /\ work' \in [Requests -> {"none", "changed", "committed", "gone"}]
                       /\ logouts' \in [Requests -> Nat]
<1> DEFINE Books == /\ debugs' \subseteq Requests /\ todo' \in [Actors -> SUBSET Requests]
                    /\ closing' \in [Actors -> Requests \cup {None}]
                    /\ server' \in {"listening", "closed", "exited"}
<1> DEFINE Talk == /\ req' \in [Requests -> QueryType] /\ reply' \in [Requests -> ReplyType]
                   /\ pc' \in [Actors -> Steps]
<1>1. Sessions /\ Books /\ Talk => ServerTypeOK'
  BY DEF ServerTypeOK, QueryType, ReplyType
<1>2. /\ req \in [Requests -> QueryType] /\ reply \in [Requests -> ReplyType]
      /\ pc \in [Actors -> Steps]
  BY DEF ServerTypeOK, QueryType, ReplyType
<1>3. CASE UNCHANGED serverVars
  BY <1>3 DEF serverVars, ServerTypeOK
<1>4. ASSUME NEW r \in Requests, NEW q \in QueryType, Arrive(r, q) PROVE ServerTypeOK'
  <2>1. Sessions /\ Books
    BY <1>4 DEF Arrive, ServerTypeOK
  <2>2. req' \in [Requests -> QueryType]
    BY <1>2, <1>4 DEF Arrive
  <2>3. reply' \in [Requests -> ReplyType]
    BY <1>2, <1>4, Replies DEF Arrive, Answer, Tell
  <2>4. pc' \in [Actors -> Steps]
    BY <1>2, <1>4 DEF Arrive, Answer, Go, Steps, Actors
  <2> QED
    BY <1>1, <2>1, <2>2, <2>3, <2>4
<1>5. ASSUME NEW r \in Requests, Handle(r) PROVE ServerTypeOK'
  <2> USE <1>2, Replies DEF Go, Tell, Answer, Actors
  <2>1. CASE Connect(r)
    BY <1>1, <2>1 DEF Connect, ServerTypeOK, Steps
  <2>2. CASE Read(r)
    <3>1. Sessions /\ Books
      BY <2>2 DEF Read, ServerTypeOK
    <3>2. reply' \in [Requests -> ReplyType]
      BY <2>2 DEF Read
    <3>3. req' \in [Requests -> QueryType] /\ pc' \in [Actors -> Steps]
      BY <2>2 DEF Read, Steps
    <3> QED
      BY <1>1, <3>1, <3>2, <3>3
  <2>3. CASE ChangeMethod(r)
    <3>1. Sessions /\ Books
      BY <2>3 DEF ChangeMethod, ServerTypeOK
    <3>2. reply' \in [Requests -> ReplyType]
      BY <2>3 DEF ChangeMethod
    <3>3. req' \in [Requests -> QueryType] /\ pc' \in [Actors -> Steps]
      BY <2>3 DEF ChangeMethod, Steps
    <3> QED
      BY <1>1, <3>1, <3>2, <3>3
  <2>4. CASE Evaluate(r)
    <3>1. Sessions /\ Books
      BY <2>4 DEF Evaluate, ServerTypeOK
    <3>2. reply' \in [Requests -> ReplyType]
      BY <2>4 DEF Evaluate
    <3>3. req' \in [Requests -> QueryType] /\ pc' \in [Actors -> Steps]
      BY <2>4 DEF Evaluate, Steps
    <3> QED
      BY <1>1, <3>1, <3>2, <3>3
  <2>5. CASE Finish(r)
    BY <1>1, <2>5 DEF Finish, Aborts, ServerTypeOK, Steps
  <2>6. CASE Logout(r)
    BY <1>1, <2>6, LogsOutTypes DEF Logout, ServerTypeOK, Steps
  <2>7. CASE Run(r)
    <3>1. Sessions /\ Books
      BY <2>7 DEF Run, ServerTypeOK
    <3>2. reply' \in [Requests -> ReplyType]
      BY <2>7 DEF Run
    <3>3. req' \in [Requests -> QueryType] /\ pc' \in [Actors -> Steps]
      BY <2>7 DEF Run, Steps
    <3> QED
      BY <1>1, <3>1, <3>2, <3>3
  <2>8. CASE Retain(r)
    BY <1>1, <2>8 DEF Retain, ServerTypeOK, Steps
  <2>9. req[r].target \in Requests \cup {None} /\ {"answered", "connect"} \subseteq Steps
    BY DEF QueryType, Steps
  <2>10. CASE Act(r)
    BY <1>1, <2>9, <2>10, CloseTypes DEF Act, ServerTypeOK, Steps
  <2>11. CASE Wait(r)
    BY <1>1, <2>9, <2>11, CloseTypes DEF Wait, ServerTypeOK, Steps
  <2>12. CASE Problem(r)
    BY <1>1, <2>9, <2>12, CloseTypes DEF Problem, ServerTypeOK, Steps
  <2>13. CASE AllClosed(r)
    BY <1>1, <2>13 DEF AllClosed, ServerTypeOK, Steps
  <2> QED
    BY <1>5, <2>1, <2>2, <2>3, <2>4, <2>5, <2>6, <2>7, <2>8, <2>10, <2>11, <2>12, <2>13 DEF Handle
<1>6. ASSUME NEW a \in Actors, CloseNext(a) PROVE ServerTypeOK'
  <2>1. PICK s \in todo[a] : todo' = [todo EXCEPT ![a] = @ \ {s}] /\ CloseBegins(a, s, "close all")
    BY <1>6 DEF CloseNext
  <2>2. s \in Requests /\ "close all" \in Steps
    BY DEF ServerTypeOK, Steps
  <2>3. /\ debugs' \subseteq Requests /\ closing' \in [Actors -> Requests \cup {None}]
        /\ pc' \in [Actors -> Steps]
    BY <2>1, <2>2, CloseTypes
  <2>4. todo' \in [Actors -> SUBSET Requests]
    BY <2>1 DEF ServerTypeOK
  <2> QED
    BY <1>1, <1>2, <1>6, <2>3, <2>4 DEF CloseNext, ServerTypeOK
<1>7. ASSUME NEW a \in Actors, CloseEnds(a) PROVE ServerTypeOK'
  <2>1. Sessions
    BY <1>7, LogsOutTypes DEF CloseEnds
  <2>2. Books /\ Talk
    BY <1>2, <1>7 DEF CloseEnds, ServerTypeOK, Go, AfterClose, Steps
  <2> QED
    BY <1>1, <2>1, <2>2
<1>8. CASE Signal \/ CloseServer \/ Exit
  <2>1. Sessions
    BY <1>8 DEF Signal, CloseServer, Exit, ServerTypeOK
  <2>2. Books /\ Talk
    BY <1>2, <1>8 DEF Signal, CloseServer, Exit, ServerTypeOK, Go, Actors, Steps
  <2> QED
    BY <1>1, <2>1, <2>2
<1> QED
  BY <1>3, <1>4, <1>5, <1>6, <1>7, <1>8 DEF ServerStep

-----------------------------------------------------------------------------
(* Sessions                                                                *)

(* A handler that goes on, and neither opens nor closes a session.         *)
LEMMA Moves ==
  ASSUME ServerTypeOK, SessionInv, NEW a \in Actors, NEW step \in Steps \ {"closing"},
         pc' = [pc EXCEPT ![a] = step], pc[a] # "closing",
         server # "exited" /\ server' # "exited",
         UNCHANGED <<session, debugs, closing, logouts>>,
         a = Shutdown => step \in {"close all", "answered"},
         a \in Requests => \/ pc[a] \in Inside /\ step \in Inside
                           \/ pc[a] \in Outside /\ step \in Outside \cup {"answered"}
  PROVE  SessionInv'
<1> USE ServerAssumption DEF SessionInv, Actors
<1>1. Closers'
  BY DEF Closers, ServerTypeOK
<1>2. ASSUME NEW s \in Requests PROVE Place(s)'
  <2>1. Place(s) /\ pc \in [Actors -> Steps]
    BY DEF ServerTypeOK
  <2>2. CASE s # a
    <3>1. pc'[s] = pc[s]
      BY <2>1, <2>2
    <3> QED
      BY <2>1, <3>1 DEF Place, Untouched, IsDebug
  <2>3. CASE s = a
    <3>1. pc'[s] = step /\ ~IsDebug(s)
      BY <2>1, <2>3 DEF Place, Untouched, Inside, Outside
    <3> QED
      BY <2>1, <2>3, <3>1 DEF Place, Untouched, IsDebug, Inside, Outside
  <2> QED
    BY <2>2, <2>3
<1> QED
  BY <1>1, <1>2

(* A handler that begins to close a session that is kept, or goes on when  *)
(* another one was faster.                                                 *)
LEMMA Closes ==
  ASSUME ServerTypeOK, SessionInv, NEW a \in Actors, NEW s,
         NEW after \in {"close all", "connect", "answered"}, CloseBegins(a, s, after),
         pc[a] \in Outside \ {"idle", "closing"}, a = Shutdown => after = "close all",
         UNCHANGED <<server, session, logouts>>
  PROVE  SessionInv'
<1> USE ServerAssumption DEF SessionInv, Actors
<1>0. server # "exited"
  BY DEF Closers, InProgress, Outside
<1>1. CASE ~IsDebug(s)
  BY <1>0, <1>1, Moves DEF CloseBegins, Go, Steps, Outside
<1>2. CASE IsDebug(s)
  <2>0. s \in Requests
    BY <1>2 DEF ServerTypeOK, IsDebug
  <2>1. /\ debugs' = debugs \ {s} /\ closing' = [closing EXCEPT ![a] = s]
        /\ pc' = [pc EXCEPT ![a] = "closing"] /\ s \in Requests /\ s # None /\ s # a
    BY <1>2, <2>0 DEF CloseBegins, Go, Place, Outside
  <2>2. Place(s) /\ closing[a] = None /\ pc \in [Actors -> Steps] /\ closing \in [Actors -> Requests \cup {None}]
    BY <2>1 DEF ServerTypeOK, Closers
  <2>3. Closers'
    BY <1>0, <1>2, <2>1, <2>2 DEF Closers, Place
  <2>4. ASSUME NEW t \in Requests PROVE Place(t)'
    <3>1. Place(t)
      OBVIOUS
    <3>2. CASE t = s
      BY <1>0, <1>2, <2>1, <2>2, <3>2 DEF Place, Untouched, IsDebug, Inside, Outside
    <3>3. CASE t = a
      BY <2>1, <2>2, <3>1, <3>3 DEF Place, Untouched, IsDebug, Inside, Outside
    <3>4. CASE t # s /\ t # a
      <4>1. pc'[t] = pc[t] /\ (IsDebug(t)' <=> IsDebug(t))
        BY <2>1, <2>2, <3>4 DEF IsDebug
      <4>2. \A b \in Actors : closing'[b] = t <=> closing[b] = t
        BY <2>1, <2>2, <3>4
      <4> QED
        BY <3>1, <4>1, <4>2 DEF Place, Untouched
    <3> QED
      BY <3>2, <3>3, <3>4
  <2> QED
    BY <2>3, <2>4
<1> QED
  BY <1>1, <1>2

(* A request that opens its session, keeps it or ends with it.             *)
LEMMA Opens ==
  ASSUME ServerTypeOK, SessionInv, NEW r \in Requests, Connect(r)
  PROVE  SessionInv'
<1> USE ServerAssumption DEF SessionInv, Actors
<1>0. server # "exited" /\ pc \in [Actors -> Steps] /\ pc[r] = "connect" /\ Place(r)
  BY DEF Closers, InProgress, ServerTypeOK, Connect
<1>1. UNCHANGED <<server, debugs, closing, logouts>>
  BY DEF Connect
<1>2. CASE Answer(r, Failed) /\ UNCHANGED session
  BY <1>0, <1>1, <1>2, Moves DEF Answer, Go, Steps, Outside
<1>3. ASSUME NEW step \in {"run", "execute"}, pc' = [pc EXCEPT ![r] = step],
             session' = [session EXCEPT ![r] = "in"]
      PROVE  SessionInv'
  <2>1. Closers'
    BY <1>0, <1>1, <1>3 DEF Closers
  <2>2. ASSUME NEW s \in Requests PROVE Place(s)'
    <3>1. Place(s) /\ session \in [Requests -> {"none", "in", "out", "lost"}]
      BY DEF ServerTypeOK
    <3>2. CASE s = r
      BY <1>0, <1>1, <1>3, <3>1, <3>2 DEF Place, Untouched, IsDebug, Inside, Outside
    <3>3. CASE s # r
      <4>1. pc'[s] = pc[s] /\ session'[s] = session[s]
        BY <1>0, <1>3, <3>1, <3>3
      <4> QED
        BY <1>1, <3>1, <4>1 DEF Place, Untouched, IsDebug
    <3> QED
      BY <3>2, <3>3
  <2> QED
    BY <2>1, <2>2
<1> QED
  BY <1>2, <1>3 DEF Connect, Go

LEMMA Keeps ==
  ASSUME ServerTypeOK, SessionInv, NEW r \in Requests, Retain(r)
  PROVE  SessionInv'
<1> USE ServerAssumption DEF SessionInv, Actors
<1>0. server # "exited" /\ pc \in [Actors -> Steps] /\ pc[r] = "halted" /\ Place(r)
  BY DEF Closers, InProgress, ServerTypeOK, Retain
<1>1. /\ UNCHANGED <<server, session, closing, logouts>>
      /\ pc' = [pc EXCEPT ![r] = "answered"] /\ debugs' = debugs \cup {r}
  BY DEF Retain, Answer, Go
<1>2. Closers'
  BY <1>0, <1>1 DEF Closers
<1>3. ASSUME NEW s \in Requests PROVE Place(s)'
  <2>1. Place(s)
    OBVIOUS
  <2>2. CASE s = r
    BY <1>0, <1>1, <2>2 DEF Place, Untouched, IsDebug, Inside, Outside
  <2>3. CASE s # r
    <3>1. pc'[s] = pc[s] /\ (IsDebug(s)' <=> IsDebug(s))
      BY <1>0, <1>1, <2>3 DEF IsDebug
    <3> QED
      BY <1>1, <2>1, <3>1 DEF Place, Untouched
  <2> QED
    BY <2>2, <2>3
<1> QED
  BY <1>2, <1>3

LEMMA EndedPlace ==
  ASSUME NEW s, session'[s] = "out", logouts'[s] = 1, pc'[s] = "answered", ~IsDebug(s)',
         \A a \in Actors : closing'[a] # s
  PROVE  Place(s)'
<1>1. 1 <= 1
  OBVIOUS
<1> QED
  BY <1>1 DEF Place, Inside, Outside, Actors

LEMMA LoggedOut ==
  ASSUME ServerTypeOK, NEW s \in Requests, session[s] = "in", logouts[s] = 0, LogsOut(s)
  PROVE  session'[s] = "out" /\ logouts'[s] = 1
<1>1. session'[s] = "out"
  BY DEF ServerTypeOK, LogsOut
<1>2. logouts' = [logouts EXCEPT ![s] = logouts[s] + 1] /\ logouts \in [Requests -> Nat]
  BY DEF ServerTypeOK, LogsOut
<1> QED
  BY <1>1, <1>2

LEMMA EndsOwn ==
  ASSUME ServerTypeOK, SessionInv, NEW r \in Requests, Logout(r)
  PROVE  SessionInv'
<1> USE ServerAssumption DEF SessionInv, Actors
<1>0. pc \in [Actors -> Steps] /\ pc[r] = "logout" /\ Place(r)
  BY DEF ServerTypeOK, Logout
<1>1. /\ UNCHANGED <<server, debugs, closing>> /\ pc' = [pc EXCEPT ![r] = "answered"]
      /\ session' = [session EXCEPT ![r] = IF @ = "in" THEN "out" ELSE @]
      /\ logouts' = [logouts EXCEPT ![r] = @ + 1]
  BY DEF Logout, LogsOut, Go
<1>2. Closers'
  BY <1>0, <1>1 DEF Closers, InProgress
<1>3. ASSUME NEW s \in Requests PROVE Place(s)'
  <2>1. Place(s) /\ session \in [Requests -> {"none", "in", "out", "lost"}] /\ logouts \in [Requests -> Nat]
    BY DEF ServerTypeOK
  <2>2. CASE s = r
    <3>1. session'[s] = "out" /\ logouts'[s] = 1 /\ pc'[s] = "answered"
      BY <1>0, <1>1, <2>2, LoggedOut DEF Logout, Place, Untouched, Inside
    <3>2. ~IsDebug(s)' /\ \A a \in Actors : closing'[a] # s
      BY <1>0, <1>1, <2>2 DEF Place, Untouched, IsDebug, Inside
    <3> QED
      BY <3>1, <3>2, EndedPlace
  <2>3. CASE s # r
    <3>1. pc'[s] = pc[s] /\ session'[s] = session[s] /\ logouts'[s] = logouts[s]
      BY <1>0, <1>1, <2>1, <2>3
    <3> QED
      BY <1>1, <2>1, <3>1 DEF Place, Untouched, IsDebug
  <2> QED
    BY <2>2, <2>3
<1> QED
  BY <1>2, <1>3

(* A handler has closed the session of another one.                        *)
LEMMA EndsKept ==
  ASSUME ServerTypeOK, SessionInv, NEW a \in Actors, CloseEnds(a)
  PROVE  SessionInv'
<1> USE ServerAssumption DEF SessionInv, Actors
<1> DEFINE t == closing[a]
<1>0. pc \in [Actors -> Steps] /\ pc[a] = "closing" /\ t \in Requests
      /\ closing \in [Actors -> Requests \cup {None}]
  BY DEF ServerTypeOK, CloseEnds, Closers
<1>1. server # "exited" /\ Place(t) /\ t # a
  BY <1>0 DEF Closers, InProgress, Place
<1>2. PICK step \in {"close all", "connect", "answered"} :
        pc' = [pc EXCEPT ![a] = step] /\ (a = Shutdown => step = "close all")
  BY DEF CloseEnds, Go, AfterClose
<1>3. /\ UNCHANGED <<server, debugs>> /\ closing' = [closing EXCEPT ![a] = None]
      /\ session' = [session EXCEPT ![t] = IF @ = "in" THEN "out" ELSE @]
      /\ logouts' = [logouts EXCEPT ![t] = @ + 1]
  BY DEF CloseEnds, LogsOut
<1>4. Closers'
  BY <1>0, <1>1, <1>2, <1>3 DEF Closers
<1>5. ASSUME NEW s \in Requests PROVE Place(s)'
  <2>1. Place(s) /\ session \in [Requests -> {"none", "in", "out", "lost"}] /\ logouts \in [Requests -> Nat]
    BY DEF ServerTypeOK
  <2>2. \A b \in Actors : closing'[b] = s <=> closing[b] = s /\ b # a
    BY <1>0, <1>3
  <2>3. CASE s = t
    <3>1. pc[s] = "answered" /\ session[s] = "in" /\ logouts[s] = 0 /\ ~IsDebug(s)
      BY <1>0, <1>1, <2>3 DEF Place
    <3>2. session'[s] = "out" /\ logouts'[s] = 1
      BY <2>3, <3>1, LoggedOut DEF CloseEnds
    <3>3. pc'[s] = "answered" /\ ~IsDebug(s)'
      BY <1>0, <1>1, <1>2, <1>3, <2>3, <3>1 DEF IsDebug
    <3>4. \A b \in Actors : closing'[b] # s
      BY <1>0, <2>2, <2>3 DEF Closers
    <3> QED
      BY <3>2, <3>3, <3>4, EndedPlace
  <2>4. CASE s # t
    <3>1. session'[s] = session[s] /\ logouts'[s] = logouts[s] /\ (IsDebug(s)' <=> IsDebug(s))
      BY <1>3, <2>1, <2>4 DEF IsDebug
    <3>2. \A b \in Actors : closing'[b] = s <=> closing[b] = s
      BY <1>0, <2>2, <2>4
    <3>3. CASE s = a
      BY <1>0, <1>2, <1>3, <2>1, <3>1, <3>2, <3>3 DEF Place, Untouched, Inside, Outside
    <3>4. CASE s # a
      <4>1. pc'[s] = pc[s]
        BY <1>0, <1>2, <3>4
      <4> QED
        BY <1>3, <2>1, <3>1, <3>2, <4>1 DEF Place, Untouched
    <3> QED
      BY <3>3, <3>4
  <2> QED
    BY <2>3, <2>4
<1> QED
  BY <1>4, <1>5

(* The end of the process, and of the sessions it has.                     *)
LEMMA EndsAll ==
  ASSUME ServerTypeOK, SessionInv, Exit
  PROVE  SessionInv'
<1> USE ServerAssumption DEF SessionInv, Actors
<1>0. /\ \A a \in Actors : ~InProgress(a) /\ closing[a] = None
      /\ server' = "exited" /\ UNCHANGED <<pc, debugs, closing, logouts>>
      /\ session' = [r \in Requests |-> IF session[r] = "in" THEN "lost" ELSE session[r]]
      /\ server = "closed"
  BY DEF Exit, Closers, InProgress
<1>1. Closers'
  BY <1>0 DEF Closers, InProgress
<1>2. ASSUME NEW s \in Requests PROVE Place(s)'
  <2>1. Place(s) /\ pc[s] \in {"idle", "answered"} /\ session'[s] = IF session[s] = "in" THEN "lost" ELSE session[s]
    BY <1>0 DEF InProgress
  <2>2. IsDebug(s)' <=> IsDebug(s)
    BY <1>0 DEF IsDebug
  <2>3. session[s] = "in" => IsDebug(s) /\ pc[s] = "answered"
    BY <1>0, <2>1 DEF Place, Outside
  <2>4. session'[s] # "in"
    BY <2>1
  <2>5. pc[s] = "idle" => session'[s] = "none" /\ Untouched(s)
    BY <2>1 DEF Place, Outside
  <2>6. IsDebug(s) => session'[s] = "lost" /\ logouts[s] = 0 /\ pc[s] = "answered"
    BY <1>0, <2>1 DEF Place
  <2>7. logouts[s] <= 1 /\ \A a \in Actors : closing[a] # s
    BY <1>0, <2>1 DEF Place
  <2> QED
    BY <1>0, <2>1, <2>2, <2>4, <2>5, <2>6, <2>7 DEF Place, Untouched, Inside, Outside
<1> QED
  BY <1>1, <1>2

LEMMA SessionInvStep ==
  ASSUME ServerTypeOK, SessionInv, [ServerStep]_serverVars
  PROVE  SessionInv'
<1> USE ServerAssumption
<1>1. CASE UNCHANGED serverVars
  <2>1. Closers'
    BY <1>1 DEF serverVars, SessionInv, Closers, InProgress
  <2>2. ASSUME NEW s \in Requests PROVE Place(s)'
    BY <1>1, <2>2 DEF serverVars, SessionInv, Place, Untouched, IsDebug
  <2> QED
    BY <2>1, <2>2 DEF SessionInv
<1>2. \A a \in Actors : pc[a] \notin {"idle", "answered"} => server # "exited"
  BY DEF SessionInv, Closers, InProgress
<1>3. ASSUME NEW r \in Requests, NEW q \in QueryType, Arrive(r, q) PROVE SessionInv'
  <2>1. PICK step \in {"answered", "connect", "close all", "act"} : pc' = [pc EXCEPT ![r] = step]
    BY <1>3 DEF Arrive, Go, Answer, QueryType, Kinds
  <2>2. server = "listening" /\ pc[r] = "idle" /\ UNCHANGED <<server, session, debugs, closing, logouts>>
    BY <1>3 DEF Arrive
  <2> QED
    BY <2>1, <2>2, Moves DEF Actors, Steps, Outside
<1>4. ASSUME NEW r \in Requests, Handle(r) PROVE SessionInv'
  <2> USE DEF Actors
  <2>1. CASE Read(r) \/ ChangeMethod(r) \/ Evaluate(r) \/ Finish(r) \/ Run(r)
    <3>1. PICK step \in {"finish", "logout", "halted"} : pc' = [pc EXCEPT ![r] = step]
      BY <2>1 DEF Read, ChangeMethod, Evaluate, Finish, Run, Go
    <3>2. pc[r] \in {"execute", "finish", "run"} /\ UNCHANGED <<server, session, debugs, closing, logouts>>
      BY <2>1 DEF Read, ChangeMethod, Evaluate, Finish, Run
    <3> QED
      BY <1>2, <3>1, <3>2, Moves DEF Steps, Inside
  <2>2. CASE Connect(r) \/ Retain(r) \/ Logout(r)
    BY <2>2, Opens, Keeps, EndsOwn
  <2>3. CASE Act(r) \/ Wait(r) \/ Problem(r)
    <3>1. pc[r] \in {"act", "wait", "problem"} /\ UNCHANGED <<server, session, logouts>>
      BY <2>3 DEF Act, Wait, Problem
    <3>2. ASSUME NEW step \in {"answered", "wait", "problem"}, pc' = [pc EXCEPT ![r] = step],
                 UNCHANGED <<debugs, closing>>
          PROVE  SessionInv'
      BY <1>2, <3>1, <3>2, Moves DEF Steps, Outside
    <3>3. ASSUME NEW after \in {"connect", "answered"}, CloseBegins(r, req[r].target, after)
          PROVE  SessionInv'
      BY <3>1, <3>3, Closes DEF Outside
    <3> QED
      BY <2>3, <3>2, <3>3 DEF Act, Wait, Problem, Answer, Go
  <2>4. CASE AllClosed(r)
    BY <1>2, <2>4, Moves DEF AllClosed, Go, Steps, Outside
  <2> QED
    BY <1>4, <2>1, <2>2, <2>3, <2>4 DEF Handle
<1>5. ASSUME NEW a \in Actors, CloseNext(a) PROVE SessionInv'
  BY <1>5, Closes DEF CloseNext, Outside
<1>6. ASSUME NEW a \in Actors, CloseEnds(a) PROVE SessionInv'
  BY <1>6, EndsKept
<1>7. CASE Signal \/ CloseServer
  <2>1. ASSUME Signal PROVE SessionInv'
    BY <2>1, Moves DEF Signal, Go, Actors, Steps
  <2>2. ASSUME CloseServer PROVE SessionInv'
    BY <1>2, <2>2, Moves DEF CloseServer, Go, Actors, Steps
  <2> QED
    BY <1>7, <2>1, <2>2
<1>8. CASE Exit
  BY <1>8, EndsAll
<1> QED
  BY <1>1, <1>3, <1>4, <1>5, <1>6, <1>7, <1>8 DEF ServerStep

-----------------------------------------------------------------------------
(* Answers                                                                 *)

(* A request that neither answers nor changes what it has to tell of.      *)
LEMMA Silent ==
  ASSUME NEW s \in Requests, Told(s), reply'[s] = reply[s], work'[s] = work[s], req'[s] = req[s],
         pc'[s] \in {"logout", "answered"} <=> pc[s] \in {"logout", "answered"}
  PROVE  Told(s)'
BY DEF Told

LEMMA ToldStep ==
  ASSUME ServerInv, [ServerStep]_serverVars, NEW s \in Requests
  PROVE  Told(s)'
<1> USE ServerAssumption, Replies DEF Actors
<1>1. /\ ServerTypeOK /\ Told(s) /\ pc \in [Actors -> Steps] /\ req \in [Requests -> QueryType]
      /\ work \in [Requests -> {"none", "changed", "committed", "gone"}]
      /\ reply \in [Requests -> ReplyType]
  BY DEF ServerInv, ServerTypeOK, QueryType, ReplyType
<1> DEFINE Others(r) == s # r => /\ reply'[s] = reply[s] /\ work'[s] = work[s] /\ req'[s] = req[s]
                                 /\ pc'[s] = pc[s]
<1>2. CASE UNCHANGED serverVars
  BY <1>1, <1>2, Silent DEF serverVars
<1>3. ASSUME NEW r \in Requests, NEW q \in QueryType, Arrive(r, q) PROVE Told(s)'
  <2>1. Others(r)
    BY <1>1, <1>3 DEF Arrive, Answer, Tell, Go
  <2>2. CASE s = r
    <3>1. pc[r] = "idle" /\ ~reply[r].committed /\ work'[r] = work[r] /\ work[r] # "committed"
      BY <1>1, <1>3, <2>2 DEF Arrive, Told
    <3>2. ~reply'[r].committed
      BY <1>1, <1>3, <3>1 DEF Arrive, Answer, Tell
    <3> QED
      BY <2>2, <3>1, <3>2 DEF Told
  <2> QED
    BY <1>1, <2>1, <2>2, Silent
<1>4. ASSUME NEW r \in Requests, Handle(r) PROVE Told(s)'
  <2> USE DEF Go, Tell, Answer
  <2>1. Others(r)
    BY <1>1, <1>4 DEF Handle, Connect, Read, ChangeMethod, Evaluate, Finish, Aborts, Logout, LogsOut,
       Run, Retain, Act, Wait, Problem, CloseBegins, AllClosed
  <2>2. ASSUME s = r, r \in Requests PROVE Told(r)'
    <3>0. Told(r)
      BY <1>1, <2>2
    <3>1. CASE Connect(r) \/ Read(r) \/ AllClosed(r)
      BY <1>1, <3>0, <3>1 DEF Connect, Read, AllClosed, Told
    <3>2. CASE ChangeMethod(r)
      BY <1>1, <3>0, <3>2 DEF ChangeMethod, Told
    <3>3. CASE Evaluate(r)
      BY <1>1, <3>0, <3>3 DEF Evaluate, Told
    <3>4. CASE Finish(r)
      BY <1>1, <3>0, <3>4 DEF Finish, Aborts, Told
    <3>5. CASE Logout(r)
      BY <1>1, <3>0, <3>5 DEF Logout, LogsOut, Told
    <3>6. CASE Run(r) \/ Retain(r)
      <4>1. ~reply[r].committed /\ work[r] # "committed" /\ work'[r] # "committed" /\ req'[r] = req[r]
        BY <1>1, <3>0, <3>6 DEF Run, Retain, Told
      <4>2. ~reply'[r].committed
        <5>1. \E answer \in {Done(FALSE), NotLive, Live(r), reply[r]} : reply'[r] = answer
          BY <1>1, <3>6 DEF Run, Retain
        <5>2. FALSE \in BOOLEAN /\ ~Done(FALSE).committed
          OBVIOUS
        <5> QED
          BY <4>1, <5>1, <5>2
      <4> QED
        BY <4>1, <4>2 DEF Told
    <3>7. CASE Act(r) \/ Wait(r) \/ Problem(r)
      BY <1>1, <3>0, <3>7 DEF Act, Wait, Problem, CloseBegins, Told, QueryType
    <3> QED
      BY <1>4, <3>1, <3>2, <3>3, <3>4, <3>5, <3>6, <3>7 DEF Handle
  <2> QED
    BY <1>1, <2>1, <2>2, Silent
<1>5. ASSUME NEW a \in Actors, CloseNext(a) PROVE Told(s)'
  <2>1. UNCHANGED <<reply, work, req>>
    BY <1>5 DEF CloseNext
  <2>2. pc'[s] \in {"logout", "answered"} <=> pc[s] \in {"logout", "answered"}
    BY <1>1, <1>5 DEF CloseNext, CloseBegins, Go
  <2> QED
    BY <1>1, <2>1, <2>2, Silent
<1>6. ASSUME NEW a \in Actors, CloseEnds(a) PROVE Told(s)'
  <2>1. UNCHANGED <<reply, req>> /\ (work'[s] = work[s] \/ (work[s] = "changed" /\ work'[s] = "gone"))
    BY <1>1, <1>6 DEF CloseEnds, LogsOut
  <2>2. pc'[s] # pc[s] => s = a /\ pc[s] = "closing" /\ pc'[s] \in {"close all", "connect", "answered"}
    BY <1>1, <1>6 DEF CloseEnds, Go, AfterClose
  <2> QED
    BY <1>1, <2>1, <2>2 DEF Told
<1>7. CASE Signal \/ CloseServer \/ Exit
  <2>1. UNCHANGED <<reply, work, req>> /\ pc'[s] = pc[s]
    BY <1>1, <1>7 DEF Signal, CloseServer, Exit, Go
  <2> QED
    BY <1>1, <2>1, Silent
<1> QED
  BY <1>2, <1>3, <1>4, <1>5, <1>6, <1>7 DEF ServerStep

-----------------------------------------------------------------------------
(* What holds of the server, alone and under its adapters                  *)

LEMMA ServerInvStep == ServerInv /\ [ServerStep]_serverVars => ServerInv'
BY ServerTypesStep, SessionInvStep, ToldStep DEF ServerInv

LEMMA ServerInvImplies == ServerInv => SessionsAreClosedOnce /\ AnswersTellWhatWasCommitted
<1> SUFFICES ASSUME ServerInv PROVE SessionsAreClosedOnce /\ AnswersTellWhatWasCommitted
  OBVIOUS
<1>1. AnswersTellWhatWasCommitted
  BY DEF ServerInv, Told, AnswersTellWhatWasCommitted
<1>2. ASSUME NEW s \in Requests
      PROVE  /\ session[s] = "in" => \/ IsDebug(s) \/ InProgress(s)
                                     \/ \E a \in Actors : closing[a] = s
             /\ IsDebug(s) => session[s] \in {"in", "lost"}
             /\ logouts[s] <= 1
  <2>1. Place(s) /\ pc[s] \in Steps
    BY DEF ServerInv, SessionInv, ServerTypeOK, Actors
  <2> QED
    BY <2>1 DEF Place, InProgress, Steps, Outside
<1> QED
  BY <1>1, <1>2 DEF SessionsAreClosedOnce

LEMMA Queries ==
  ASSUME ServerTypeOK, NEW k \in Kinds, NEW q \in RequestsOf(k)
  PROVE  q \in QueryType
BY DEF RequestsOf, QueryType

LEMMA ServerNextSteps == ServerTypeOK /\ [ServerNext]_serverVars => [ServerStep]_serverVars
BY ServerAssumption, Queries DEF ServerNext, ServerStep

(* Types: the state of the server.                                         *)
THEOREM ExplorerTypesOK == ServerSpec => []ServerTypeOK
<1>1. ServerInv /\ [ServerNext]_serverVars => ServerInv'
  BY ServerNextSteps, ServerInvStep DEF ServerInv
<1>2. ServerInv => ServerTypeOK
  BY DEF ServerInv
<1> QED
  BY <1>1, <1>2, ServerInvInit, PTL DEF ServerSpec

(* activeDebugSessions and withSession(): every session of the Stone that  *)
(* the explorer opens is closed, and once, however its handlers interleave.*)
THEOREM ExplorerClosesSessionsOnce == ServerSpec => []SessionsAreClosedOnce
<1>1. ServerInv /\ [ServerNext]_serverVars => ServerInv'
  BY ServerNextSteps, ServerInvStep DEF ServerInv
<1> QED
  BY <1>1, ServerInvInit, ServerInvImplies, PTL DEF ServerSpec

(* evalEndpoint() and the endpoints that change methods: an answer says    *)
(* that it was committed exactly when it was.                              *)
THEOREM ExplorerAnswersTellWhatWasCommitted == ServerSpec => []AnswersTellWhatWasCommitted
<1>1. ServerInv /\ [ServerNext]_serverVars => ServerInv'
  BY ServerNextSteps, ServerInvStep DEF ServerInv
<1> QED
  BY <1>1, ServerInvInit, ServerInvImplies, PTL DEF ServerSpec

-----------------------------------------------------------------------------
(* The requests of debug adapters                                          *)

(* A session that is kept no more, and never will be again. *)
Gone(t)   == t \in Requests /\ ~IsDebug(t) /\ pc[t] = "answered"
Target(r) == req[r].target

(* What a debugger action has done to the session it is about.             *)
ActsOn(r) ==
  /\ pc[r] \notin {"idle", "execute", "finish", "close all"}
  /\ pc[r] \in {"act", "wait", "problem"} =>
       Target(r) \in Requests /\ pc[Target(r)] = "answered" /\ reply[r] = Unknown
  /\ pc[r] \in {"closing", "connect", "run", "halted", "logout"} => Gone(Target(r))
  /\ pc[r] = "answered" => reply[r] = Failed \/ reply[r].id = Target(r) \/ Gone(Target(r))
  /\ req[r].verb = "terminate" => /\ pc[r] \in {"act", "closing", "answered"}
                                  /\ pc[r] = "closing" => reply[r] # Unknown

(* An identifier is told only of a session that was kept.                  *)
Pursues(r) ==
  /\ IsDebug(r) => reply[r] = Live(r)
  /\ reply[r].id # None => pc[reply[r].id] = "answered"
  /\ pc[r] = "idle" => reply[r] = Unknown
  /\ pc[r] \in {"act", "wait", "problem"} => req[r].kind = "action"
  /\ req[r].kind = "action" => ActsOn(r)

(* What every step of the server leaves alone.                             *)
Settled ==
  /\ \A t \in Requests : pc[t] = "answered" =>
       pc'[t] = "answered" /\ reply'[t] = reply[t] /\ (IsDebug(t)' => IsDebug(t))
  /\ \A t \in Requests : pc[t] # "idle" => req'[t] = req[t] /\ pc'[t] # "idle"
  /\ \A t \in Requests : IsDebug(t)' /\ ~IsDebug(t) => pc[t] = "halted"

LEMMA Fields ==
  /\ Unknown.id = None /\ Failed.id = None /\ NotLive.id = None
  /\ \A c : Done(c).id = None /\ Done(c).told = "done"
  /\ \A s : Ended(s).id = s /\ Live(s).id = s /\ Live(s).told = "live" /\ Ended(s).told = "done"
  /\ Unknown.told = "nothing" /\ Failed.told = "error" /\ NotLive.told = "problem"
BY DEF Unknown, Failed, NotLive, Done, Ended, Live

(* What a handler of a request leaves alone of the others.                 *)
LEMMA HandlesOwn ==
  ASSUME ServerTypeOK, NEW r \in Requests, Handle(r), NEW t \in Requests \ {r}
  PROVE  pc'[t] = pc[t] /\ reply'[t] = reply[t] /\ req'[t] = req[t] /\ (IsDebug(t)' => IsDebug(t))
<1> USE ServerAssumption DEF Actors, Go, Tell, Answer, IsDebug
<1>1. pc \in [Actors -> Steps] /\ reply \in [Requests -> ReplyType]
  BY DEF ServerTypeOK, ReplyType
<1>2. \/ reply' = reply
      \/ \E answer : reply' = [reply EXCEPT ![r] = answer]
  BY DEF Handle, Connect, Read, ChangeMethod, Evaluate, Finish, Logout, Run, Retain, Act, Wait,
     Problem, AllClosed
<1>3. \E step : pc' = [pc EXCEPT ![r] = step]
  BY DEF Handle, Connect, Read, ChangeMethod, Evaluate, Finish, Logout, Run, Retain, Act, Wait,
     Problem, CloseBegins, AllClosed
<1>4. req' = req /\ debugs' \subseteq debugs \cup {r}
  BY DEF Handle, Connect, Read, ChangeMethod, Evaluate, Finish, Logout, Run, Retain, Act, Wait,
     Problem, CloseBegins, AllClosed
<1> QED
  BY <1>1, <1>2, <1>3, <1>4

LEMMA SettledStep ==
  ASSUME ServerInv, [ServerStep]_serverVars
  PROVE  Settled
<1> USE ServerAssumption DEF Actors
<1>1. pc \in [Actors -> Steps] /\ ServerTypeOK /\ \A s \in Requests : Place(s)
  BY DEF ServerInv, ServerTypeOK, SessionInv
<1> DEFINE Calm(t) == /\ pc[t] = "answered" => pc'[t] = "answered" /\ reply'[t] = reply[t]
                      /\ pc[t] # "idle" => req'[t] = req[t] /\ pc'[t] # "idle"
                      /\ IsDebug(t)' /\ ~IsDebug(t) => pc[t] = "halted"
<1>2. ASSUME NEW t \in Requests PROVE Calm(t)
  <2> USE DEF Go, Tell, Answer, IsDebug
  <2>1. CASE UNCHANGED serverVars
    BY <2>1 DEF serverVars
  <2>2. ASSUME NEW r \in Requests, NEW q \in QueryType, Arrive(r, q) PROVE Calm(t)
    <3>1. pc[r] = "idle" /\ debugs' = debugs
      BY <2>2 DEF Arrive
    <3>2. t # r => pc'[t] = pc[t] /\ reply'[t] = reply[t] /\ req'[t] = req[t]
      BY <1>1, <2>2 DEF Arrive, ServerTypeOK
    <3> QED
      BY <3>1, <3>2
  <2>3. ASSUME NEW r \in Requests, Handle(r) PROVE Calm(t)
    <3>1. pc[r] \notin {"idle", "answered"} /\ req' = req /\ pc'[r] # "idle"
      <4>1. pc[r] \notin {"idle", "answered"} /\ req' = req
        BY <2>3 DEF Handle, Connect, Read, ChangeMethod, Evaluate, Finish, Logout,
           Run, Retain, Act, Wait, Problem, AllClosed
      <4>2. \E step \in Steps \ {"idle"} : pc' = [pc EXCEPT ![r] = step]
        <5>1. CASE Act(r) \/ Wait(r) \/ Problem(r)
          BY <5>1 DEF Act, Wait, Problem, CloseBegins, Steps
        <5>2. CASE ~(Act(r) \/ Wait(r) \/ Problem(r))
          BY <2>3, <5>2 DEF Handle, Connect, Read, ChangeMethod, Evaluate, Finish, Logout,
             Run, Retain, AllClosed, Steps
        <5> QED
          BY <5>1, <5>2
      <4> QED
        BY <1>1, <4>1, <4>2
    <3>2. t # r => pc'[t] = pc[t] /\ reply'[t] = reply[t]
      BY <1>1, <2>3, HandlesOwn
    <3>3. IsDebug(t)' /\ ~IsDebug(t) => t = r /\ pc[r] = "halted"
      BY <1>1, <2>3 DEF Handle, Connect, Read, ChangeMethod, Evaluate, Finish, Logout,
         Run, Retain, Act, Wait, Problem, CloseBegins, AllClosed
    <3> QED
      BY <3>1, <3>2, <3>3
  <2>4. ASSUME NEW a \in Actors, CloseNext(a) \/ CloseEnds(a) PROVE Calm(t)
    BY <1>1, <2>4 DEF CloseNext, CloseEnds, CloseBegins, AfterClose
  <2>5. CASE Signal \/ CloseServer \/ Exit
    BY <1>1, <2>5 DEF Signal, CloseServer, Exit
  <2> QED
    BY <2>1, <2>2, <2>3, <2>4, <2>5 DEF ServerStep
<1> QED
  BY <1>2 DEF Settled, IsDebug

LEMMA GoneStays ==
  ASSUME Settled, NEW t, Gone(t)
  PROVE  Gone(t)'
BY DEF Settled, Gone

LEMMA PursuesStays ==
  ASSUME ServerInv, Settled, NEW s \in Requests, Pursues(s),
         reply'[s] = reply[s], req'[s] = req[s], pc'[s] = pc[s], IsDebug(s)' => IsDebug(s)
  PROVE  Pursues(s)'
<1>1. Live(s)' = Live(s)
  BY DEF Live, Unknown
<1>2. reply[s].id \in Requests \cup {None}
  BY DEF ServerInv, ServerTypeOK
<1>3. /\ Target(s)' = Target(s) /\ (Gone(Target(s)) => Gone(Target(s))')
      /\ Target(s) \in Requests /\ pc[Target(s)] = "answered" => pc'[Target(s)] = "answered"
  BY GoneStays DEF Target, Settled
<1>4. ActsOn(s) => ActsOn(s)'
  BY <1>3 DEF ActsOn
<1>5. reply[s].id # None => pc'[reply[s].id] = "answered"
  BY <1>2 DEF Settled, Pursues
<1> QED
  BY <1>1, <1>4, <1>5 DEF Pursues

LEMMA PursuesInit == ServerInit => \A r \in Requests : Pursues(r)
BY ServerAssumption, Fields DEF ServerInit, Pursues, IsDebug, NoRequest, Actors

(* A debugger action and the launch of a debug run go on.                  *)
LEMMA PursuesOn ==
  ASSUME ServerInv, Settled, NEW r \in Requests, Pursues(r), Handle(r)
  PROVE  Pursues(r)'
<1> USE ServerAssumption DEF Actors, Go, Tell, Answer
<1>1. /\ pc \in [Actors -> Steps] /\ reply \in [Requests -> ReplyType] /\ req' = req
      /\ pc[r] \notin {"idle", "answered"} /\ Place(r) /\ Target(r)' = Target(r)
  <2>1. req' = req /\ pc[r] \notin {"idle", "answered"}
    BY DEF Handle, Connect, Read, ChangeMethod, Evaluate, Finish, Logout, Run, Retain, Act, Wait, Problem, AllClosed
  <2> QED
    BY <2>1 DEF ServerInv, SessionInv, ServerTypeOK, ReplyType, Target
<1>2. pc'[r] # "idle" /\ ~IsDebug(r)
  BY <1>1 DEF Settled, Place
<1>3. CASE Read(r) \/ ChangeMethod(r) \/ Evaluate(r) \/ Finish(r)
  <2>1. req[r].kind # "action" /\ debugs' = debugs
    BY <1>1, <1>3 DEF Read, ChangeMethod, Evaluate, Finish, Pursues, ActsOn
  <2>2. reply'[r] = reply[r] \/ reply'[r].id = None
    <3>1. PICK answer \in {reply[r], Failed, Done(FALSE), Done(work[r] = "changed")} :
            reply' = [reply EXCEPT ![r] = answer]
      BY <1>1, <1>3 DEF Read, ChangeMethod, Evaluate, Finish
    <3>2. Done(work[r] = "changed").id = None /\ Done(FALSE).id = None
      BY DEF Done, Unknown
    <3> QED
      BY <1>1, <3>1, <3>2, Fields
  <2>3. reply[r].id # None => pc'[reply[r].id] = "answered"
    BY <1>1 DEF Pursues, Settled, ReplyType
  <2>4. pc'[r] \in {"finish", "logout"}
    BY <1>1, <1>3 DEF Read, ChangeMethod, Evaluate, Finish
  <2> QED
    BY <1>1, <1>2, <2>1, <2>2, <2>3, <2>4 DEF Pursues, IsDebug
<1>4. Gone(Target(r)) => Gone(Target(r))'
  BY <1>1, GoneStays DEF Gone, Settled
<1>5. reply'[r] = reply[r] => (reply'[r].id # None => pc'[reply'[r].id] = "answered")
  BY <1>1 DEF Pursues, Settled, ReplyType
<1>6. ASSUME req[r].kind = "action" PROVE ActsOn(r) /\ req'[r] = req[r]
  BY <1>1, <1>6 DEF Pursues
<1>7. CASE Connect(r) \/ Run(r) \/ Logout(r) \/ AllClosed(r)
  <2>1. debugs' = debugs /\ pc[r] \in {"connect", "run", "logout", "close all"}
    BY <1>7 DEF Connect, Run, Logout, AllClosed
  <2>2. reply'[r] = reply[r] \/ reply'[r].id = None
    <3>1. PICK answer \in {reply[r], Failed, Done(FALSE), NotLive} :
            reply' = [reply EXCEPT ![r] = answer]
      BY <1>1, <1>7 DEF Connect, Run, Logout, AllClosed
    <3>2. answer = reply[r] \/ answer.id = None
      BY Fields
    <3> QED
      BY <1>1, <3>1, <3>2
  <2>3. ASSUME req[r].kind = "action" PROVE ActsOn(r)'
    <3>1. Gone(Target(r))' /\ req[r].verb # "terminate" /\ pc[r] # "close all"
      BY <1>4, <1>6, <2>1, <2>3 DEF ActsOn
    <3>2. pc'[r] \in {"run", "logout", "halted", "answered"}
      BY <1>1, <1>7, <2>3, <3>1 DEF Connect, Run, Logout, AllClosed
    <3> QED
      BY <1>1, <1>6, <2>3, <3>1, <3>2 DEF ActsOn
  <2>4. pc'[r] \in {"run", "execute", "logout", "halted", "connect", "answered"}
    BY <1>1, <1>7 DEF Connect, Run, Logout, AllClosed
  <2> QED
    BY <1>1, <1>2, <1>5, <2>1, <2>2, <2>3, <2>4 DEF Pursues, IsDebug
<1>8. CASE Retain(r)
  <2>1. /\ pc[r] = "halted" /\ pc'[r] = "answered" /\ reply'[r] = Live(r)
    BY <1>1, <1>8 DEF Retain
  <2>2. Live(r)' = Live(r)
    BY DEF Live, Unknown
  <2>3. ASSUME req[r].kind = "action" PROVE ActsOn(r)'
    BY <1>1, <1>4, <1>6, <2>1, <2>3 DEF ActsOn
  <2> QED
    BY <1>1, <2>1, <2>2, <2>3, Fields DEF Pursues
<1>9. CASE Act(r) \/ Wait(r) \/ Problem(r)
  <2>1. pc[r] \in {"act", "wait", "problem"} /\ debugs' \subseteq debugs
    BY <1>9 DEF Act, Wait, Problem, CloseBegins
  <2>2. ~IsDebug(r)' /\ pc'[r] # "idle"
    BY <1>2, <2>1 DEF IsDebug
  <2>3. PICK answer \in {reply[r], Failed, Ended(Target(r)), Live(Target(r))} : reply'[r] = answer
    BY <1>1, <1>9 DEF Act, Wait, Problem, Target
  <2>4. /\ ActsOn(r) /\ req[r].kind = "action" /\ Target(r) \in Requests
        /\ pc[Target(r)] = "answered" /\ reply[r] = Unknown
    BY <1>1, <1>6, <2>1 DEF Pursues, ActsOn
  <2>5. pc'[Target(r)] = "answered"
    BY <2>4 DEF Settled
  <2>6. reply'[r].id # None => pc'[reply'[r].id] = "answered"
    BY <2>3, <2>4, <2>5, Fields
  <2>7. ASSUME NEW after \in {"connect", "answered"}, CloseBegins(r, Target(r), after)
        PROVE  Gone(Target(r))' /\ pc'[r] \in {"closing", after}
    BY <1>1, <2>4, <2>5, <2>7 DEF CloseBegins, Gone, IsDebug
  <2>8. \/ reply' = reply /\ pc'[r] \in {"wait", "problem"} /\ req[r].verb # "terminate"
        \/ reply'[r] \in {Failed, Live(Target(r))} /\ pc'[r] = "answered" /\ req[r].verb # "terminate"
        \/ reply'[r] = Ended(Target(r)) /\ CloseBegins(r, Target(r), "answered")
        \/ req[r].verb = "step" /\ reply' = reply /\ CloseBegins(r, Target(r), "connect")
    BY <1>1, <1>9, <2>4 DEF Act, Wait, Problem, ActsOn, Target
  <2>9. Ended(Target(r)) # Unknown /\ Live(Target(r)).id = Target(r) /\ Ended(Target(r)).id = Target(r)
    BY Fields
  <2>10. ActsOn(r)'
    BY <1>1, <2>4, <2>5, <2>7, <2>8, <2>9 DEF ActsOn
  <2> QED
    BY <1>1, <2>2, <2>4, <2>6, <2>10 DEF Pursues
<1> QED
  BY <1>3, <1>7, <1>8, <1>9 DEF Handle

LEMMA PursuesStep ==
  ASSUME ServerInv, [ServerStep]_serverVars, \A s \in Requests : Pursues(s), NEW r \in Requests
  PROVE  Pursues(r)'
<1> USE ServerAssumption DEF Actors, Go, Tell, Answer
<1>1. /\ Settled /\ pc \in [Actors -> Steps] /\ reply \in [Requests -> ReplyType]
      /\ req \in [Requests -> QueryType] /\ Pursues(r) /\ Place(r)
  BY SettledStep DEF ServerInv, SessionInv, ServerTypeOK, ReplyType, QueryType
<1>2. ASSUME reply'[r] = reply[r], req'[r] = req[r], pc'[r] = pc[r], IsDebug(r)' => IsDebug(r)
      PROVE  Pursues(r)'
  BY <1>1, <1>2, PursuesStays
<1>3. CASE UNCHANGED serverVars
  BY <1>2, <1>3 DEF serverVars, IsDebug
<1>4. ASSUME NEW s \in Requests, NEW q \in QueryType, Arrive(s, q) PROVE Pursues(r)'
  <2>1. pc[s] = "idle" /\ debugs' = debugs
    BY <1>4 DEF Arrive
  <2>2. CASE s # r
    BY <1>1, <1>2, <1>4, <2>1, <2>2 DEF Arrive, IsDebug
  <2>3. CASE s = r
    <3>1. ~IsDebug(r) /\ reply[r] = Unknown /\ req'[r] = q /\ Target(r)' = q.target
      BY <1>1, <1>4, <2>1, <2>3 DEF Place, Outside, Untouched, Pursues, Arrive, Target
    <3>2. reply'[r] \in {Unknown, Failed, Done(FALSE)}
      BY <1>1, <1>4, <2>3, <3>1 DEF Arrive
    <3>3. q.kind = "action" => \/ pc'[r] = "answered" /\ reply'[r] = Failed
                               \/ pc'[r] = "act" /\ reply'[r] = Unknown /\ IsDebug(q.target)
      BY <1>1, <1>4, <2>3, <3>1 DEF Arrive
    <3>4. pc'[r] # "idle" /\ (pc'[r] \in {"act", "wait", "problem"} => q.kind = "action")
      BY <1>1, <1>4, <2>3 DEF Arrive, QueryType, Kinds
    <3>5. IsDebug(q.target) => q.target \in Requests /\ pc'[q.target] = "answered"
      BY <1>1 DEF ServerInv, SessionInv, ServerTypeOK, IsDebug, Place, Settled
    <3>6. q.kind = "action" => ActsOn(r)'
      BY <3>1, <3>3, <3>5 DEF ActsOn
    <3>7. reply'[r].id = None /\ ~IsDebug(r)'
      <4>1. Done(FALSE).id = None
        BY DEF Done, Unknown
      <4> QED
        BY <2>1, <3>1, <3>2, <4>1, Fields DEF IsDebug
    <3> QED
      BY <3>1, <3>4, <3>6, <3>7 DEF Pursues
  <2> QED
    BY <2>2, <2>3
<1>5. ASSUME NEW s \in Requests, Handle(s) PROVE Pursues(r)'
  <2>1. CASE s = r
    BY <1>1, <1>5, <2>1, PursuesOn
  <2>2. CASE s # r
    <3>1. pc'[r] = pc[r] /\ reply'[r] = reply[r] /\ req'[r] = req[r]
      BY <1>1, <1>5, <2>2, HandlesOwn DEF ServerInv
    <3>2. IsDebug(r)' => IsDebug(r)
      BY <1>1, <1>5, <2>2, HandlesOwn DEF ServerInv
    <3> QED
      BY <1>2, <3>1, <3>2
  <2> QED
    BY <2>1, <2>2
<1>6. ASSUME NEW a \in Actors, CloseNext(a) PROVE Pursues(r)'
  <2>1. debugs' \subseteq debugs /\ UNCHANGED <<reply, req>>
    BY <1>6 DEF CloseNext, CloseBegins
  <2>2. pc'[r] = pc[r] \/ (pc[r] = "close all" /\ pc'[r] \in {"closing", "close all"})
    BY <1>1, <1>6 DEF CloseNext, CloseBegins
  <2>3. CASE pc'[r] = pc[r]
    BY <1>2, <2>1, <2>3 DEF IsDebug
  <2>4. CASE pc'[r] # pc[r]
    <3>1. ~IsDebug(r)' /\ req[r].kind # "action"
      BY <1>1, <2>1, <2>2, <2>4 DEF Place, Outside, Untouched, IsDebug, Pursues, ActsOn
    <3>2. reply[r].id # None => pc'[reply[r].id] = "answered"
      BY <1>1 DEF Pursues, Settled, ReplyType
    <3> QED
      BY <2>1, <2>2, <2>4, <3>1, <3>2 DEF Pursues
  <2> QED
    BY <2>3, <2>4
<1>7. ASSUME NEW a \in Actors, CloseEnds(a) PROVE Pursues(r)'
  <2>1. UNCHANGED <<debugs, reply, req>>
    BY <1>7 DEF CloseEnds
  <2>2. CASE pc'[r] = pc[r]
    BY <1>2, <2>1, <2>2 DEF IsDebug
  <2>3. CASE pc'[r] # pc[r]
    <3>1. /\ pc[r] = "closing"
          /\ pc'[r] = IF req[r].kind = "debug" THEN "close all"
                      ELSE IF reply[r] = Unknown THEN "connect" ELSE "answered"
      BY <1>1, <1>7, <2>3 DEF CloseEnds, AfterClose
    <3>2. ~IsDebug(r)'
      BY <1>1, <2>1, <3>1 DEF Place, Outside, Untouched, IsDebug
    <3>3. reply[r].id # None => pc'[reply[r].id] = "answered"
      BY <1>1 DEF Pursues, Settled, ReplyType
    <3>4. req[r].kind = "action" => ActsOn(r)'
      BY <1>1, <2>1, <3>1, GoneStays DEF Pursues, ActsOn, Target
    <3> QED
      BY <2>1, <3>1, <3>2, <3>3, <3>4 DEF Pursues
  <2> QED
    BY <2>2, <2>3
<1>8. CASE Signal \/ CloseServer \/ Exit
  BY <1>1, <1>2, <1>8 DEF Signal, CloseServer, Exit, IsDebug
<1> QED
  BY <1>3, <1>4, <1>5, <1>6, <1>7, <1>8 DEF ServerStep

-----------------------------------------------------------------------------
(* The adapters                                                            *)

Purposes == {"launch", "action", "disconnect", "dispose"}

AdapterTypeOK ==
  /\ owner \in [Requests -> Adapters \cup {None}]
  /\ purpose \in [Requests -> Purposes \cup {"none"}]
  /\ arrived \in [Requests -> BOOLEAN]
  /\ holds \in [Adapters -> Requests \cup {None}]
  /\ stage \in [Adapters -> {"new", "launched", "disposed"}]
  /\ alone \in [Adapters -> BOOLEAN]

Ends(r) == purpose[r] \in {"disconnect", "dispose"}

(* A request that an adapter sent: an action is about a session that was   *)
(* kept, and one that ends it has done so when it is answered.             *)
Sent(r) ==
  /\ arrived[r] => pc[r] = "answered"
  /\ owner[r] # None =>
       /\ pc[r] # "idle" /\ purpose[r] \in Purposes
       /\ purpose[r] # "launch" =>
            /\ req[r].kind = "action" /\ Target(r) \in Requests /\ pc[Target(r)] = "answered"
            /\ req[r].verb = "terminate" <=> Ends(r)
            /\ Ends(r) /\ pc[r] # "act" => Gone(Target(r))

(* A session that the adapter does not hold yet, or no longer, but that an *)
(* unanswered request gives to it, or closes.                              *)
Covers(r, s) == (r = s /\ ~Ends(r)) \/ (purpose[r] = "dispose" /\ Target(r) = s)

(* An adapter all whose commands were given alone: it has one request in   *)
(* flight, and knows of every session that is kept for it.                 *)
InOrder(a) ==
  /\ \A r, s \in InFlight(a) : r = s
  /\ \A r \in InFlight(a) :
       holds[a] = IF purpose[r] \in {"launch", "dispose"} THEN None ELSE Target(r)
  /\ stage[a] = "disposed" => holds[a] = None /\ \A r \in InFlight(a) : purpose[r] = "dispose"
  /\ \A s \in Requests : IsDebug(s) /\ owner[s] = a =>
       holds[a] = s \/ \E r \in InFlight(a) : Covers(r, s)

Follows(a) ==
  /\ holds[a] # None => pc[holds[a]] = "answered"
  /\ stage[a] = "new" => holds[a] = None /\ \A r \in Requests : owner[r] # a
  /\ alone[a] => InOrder(a)

DebugInv ==
  /\ ServerInv /\ AdapterTypeOK
  /\ \A r \in Requests : Pursues(r) /\ Sent(r)
  /\ \A a \in Adapters : Follows(a)

LEMMA DebugInvInit == DebugInit => DebugInv
<1> SUFFICES ASSUME DebugInit PROVE DebugInv
  OBVIOUS
<1> USE ServerAssumption, AdapterAssumption DEF DebugInit, AdapterInit
<1>1. ServerInv /\ \A r \in Requests : Pursues(r)
  BY ServerInvInit, PursuesInit
<1>2. AdapterTypeOK /\ \A r \in Requests : Sent(r)
  BY DEF AdapterTypeOK, Sent
<1>3. ASSUME NEW a \in Adapters PROVE Follows(a)
  BY <1>3 DEF Follows, InOrder, InFlight, ServerInit, IsDebug
<1> QED
  BY <1>1, <1>2, <1>3 DEF DebugInv

LEMMA DebugInvImplies == DebugInv => EndsWithItsSession
BY ServerAssumption DEF DebugInv, Follows, InOrder, EndsWithItsSession

(* An action that terminates leaves nothing to close.                      *)
LEMMA TerminateEnds ==
  ASSUME ServerInv, [ServerStep]_serverVars, Settled, NEW r \in Requests, req[r].verb = "terminate",
         pc[r] = "act", pc'[r] # "act", Target(r) \in Requests, pc[Target(r)] = "answered"
  PROVE  Gone(Target(r))'
<1> USE ServerAssumption DEF Actors
<1>1. pc \in [Actors -> Steps]
  BY DEF ServerInv, ServerTypeOK
<1>2. ~UNCHANGED serverVars
  BY DEF serverVars
<1>3. ASSUME NEW s \in Requests, NEW q \in QueryType, Arrive(s, q) PROVE FALSE
  BY <1>1, <1>3 DEF Arrive, Answer, Go
<1>4. ASSUME NEW s \in Requests, Handle(s) PROVE s = r /\ Act(r)
  <2>1. s = r
    BY <1>4, HandlesOwn DEF ServerInv
  <2> QED
    BY <1>4, <2>1 DEF Handle, Connect, Read, ChangeMethod, Evaluate, Finish, Logout, Run, Retain,
       Wait, Problem, AllClosed
<1>5. ASSUME NEW a \in Actors, CloseNext(a) \/ CloseEnds(a) PROVE FALSE
  BY <1>1, <1>5 DEF CloseNext, CloseBegins, CloseEnds, Go
<1>6. ~(Signal \/ CloseServer \/ Exit)
  BY <1>1 DEF Signal, CloseServer, Exit, Go
<1>7. Act(r)
  BY <1>2, <1>3, <1>4, <1>5, <1>6 DEF ServerStep
<1>8. ~IsDebug(Target(r))'
  BY <1>7 DEF Act, CloseBegins, IsDebug, Target
<1>9. Target(r)' = Target(r) /\ pc'[Target(r)] = "answered"
  BY <1>7 DEF Act, Target, Settled
<1> QED
  BY <1>8, <1>9 DEF Gone, IsDebug

(* What a step of the server does to the requests of an adapter.           *)
LEMMA SentStays ==
  ASSUME DebugInv, [ServerStep]_serverVars, Settled, NEW r \in Requests, Pursues(r)',
         owner'[r] = owner[r], purpose'[r] = purpose[r], arrived'[r] = arrived[r]
  PROVE  Sent(r)'
<1>1. Sent(r) /\ Pursues(r) /\ (pc[r] = "answered" => pc'[r] = "answered")
  BY DEF DebugInv, Settled
<1>2. CASE owner[r] = None
  BY <1>1, <1>2 DEF Sent
<1>3. CASE owner[r] # None
  <2>1. pc[r] # "idle" /\ pc'[r] # "idle" /\ req'[r] = req[r] /\ purpose[r] \in Purposes
    BY <1>1, <1>3 DEF Sent, Settled
  <2>2. CASE purpose[r] = "launch"
    BY <1>1, <2>1, <2>2 DEF Sent
  <2>3. CASE purpose[r] # "launch"
    <3>1. /\ req[r].kind = "action" /\ Target(r) \in Requests /\ pc'[Target(r)] = "answered"
          /\ (req[r].verb = "terminate" <=> Ends(r)) /\ Target(r)' = Target(r) /\ (Ends(r)' <=> Ends(r))
      BY <1>1, <1>3, <2>1, <2>3 DEF Sent, Settled, Target, Ends
    <3>2. ASSUME Ends(r), pc'[r] # "act" PROVE Gone(Target(r))'
      <4>1. CASE pc[r] # "act"
        BY <1>1, <1>3, <2>3, <3>1, <3>2, <4>1, GoneStays DEF Sent, Target
      <4>2. CASE pc[r] = "act"
        <5>1. ServerInv /\ req[r].verb = "terminate" /\ pc[Target(r)] = "answered"
          BY <1>1, <1>3, <2>3, <3>1, <3>2 DEF DebugInv, Sent, Ends
        <5> QED
          BY <3>1, <3>2, <4>2, <5>1, TerminateEnds
      <4> QED
        BY <4>1, <4>2
    <3> QED
      BY <1>1, <2>1, <3>1, <3>2 DEF Sent
  <2> QED
    BY <2>2, <2>3
<1> QED
  BY <1>2, <1>3

(* What a step leaves of an adapter that takes no part in it.              *)
LEMMA FollowsStays ==
  ASSUME DebugInv, [ServerStep]_serverVars, Settled, NEW a \in Adapters,
         holds'[a] = holds[a], stage'[a] = stage[a], alone'[a] = alone[a],
         \A r \in Requests : /\ owner'[r] = a <=> owner[r] = a
                             /\ owner[r] = a => purpose'[r] = purpose[r] /\ arrived'[r] = arrived[r]
  PROVE  Follows(a)'
<1>1. Follows(a) /\ holds[a] \in Requests \cup {None} /\ \A r \in Requests : Sent(r) /\ Pursues(r)
  BY DEF DebugInv, AdapterTypeOK
<1>2. holds'[a] # None => pc'[holds'[a]] = "answered"
  BY <1>1 DEF Follows, Settled
<1>3. stage'[a] = "new" => holds'[a] = None /\ \A r \in Requests : owner'[r] # a
  BY <1>1 DEF Follows
<1>4. InFlight(a)' = InFlight(a)
  BY DEF InFlight
<1>5. ASSUME NEW r \in InFlight(a)
      PROVE  r \in Requests /\ purpose'[r] = purpose[r] /\ Target(r)' = Target(r)
  BY <1>1, AdapterAssumption DEF InFlight, Sent, Settled, Target
<1>6. ASSUME alone[a] PROVE InOrder(a)'
  <2>1. InOrder(a)
    BY <1>1, <1>6 DEF Follows
  <2>2. ASSUME NEW s \in Requests, IsDebug(s)', owner'[s] = a
        PROVE  holds'[a] = s \/ \E r \in InFlight(a)' : Covers(r, s)'
    <3>1. CASE IsDebug(s)
      <4>1. CASE holds[a] = s
        BY <4>1
      <4>2. ASSUME NEW r \in InFlight(a), Covers(r, s) PROVE Covers(r, s)'
        BY <1>5, <4>2 DEF Covers, Ends
      <4> QED
        BY <1>4, <2>1, <2>2, <3>1, <4>1, <4>2 DEF InOrder
    <3>2. CASE ~IsDebug(s)
      <4>1. pc[s] = "halted" /\ owner[s] = a /\ a # None
        BY <2>2, <3>2, AdapterAssumption DEF Settled
      <4>2. s \in InFlight(a)
        BY <1>1, <4>1 DEF InFlight, Sent, AdapterTypeOK
      <4>3. ~Ends(s)
        BY <1>1, <4>1 DEF Sent, Pursues, ActsOn, Ends
      <4>4. Covers(s, s)'
        BY <1>5, <4>2, <4>3 DEF Covers, Ends
      <4> QED
        BY <1>4, <4>2, <4>4
    <3> QED
      BY <3>1, <3>2
  <2>3. \A r, s \in InFlight(a)' : r = s
    BY <1>4, <2>1 DEF InOrder
  <2>4. \A r \in InFlight(a)' :
          holds'[a] = IF purpose'[r] \in {"launch", "dispose"} THEN None ELSE Target(r)'
    BY <1>4, <1>5, <2>1 DEF InOrder
  <2>5. stage'[a] = "disposed" =>
          holds'[a] = None /\ \A r \in InFlight(a)' : purpose'[r] = "dispose"
    BY <1>4, <1>5, <2>1 DEF InOrder
  <2> QED
    BY <2>2, <2>3, <2>4, <2>5 DEF InOrder
<1> QED
  BY <1>2, <1>3, <1>6 DEF Follows

(* The request that is sent for a command.                                 *)
LEMMA PostSent ==
  ASSUME DebugInv, NEW a \in Adapters, NEW r \in Requests, NEW command \in Purposes,
         NEW q \in QueryType, Post(a, r, command, q),
         IF command = "launch" THEN q.kind = "debug"
           ELSE /\ q.kind = "action" /\ q.target = holds[a] /\ holds[a] # None /\ q.verb # "unknown"
                /\ q.verb = "terminate" <=> command \in {"disconnect", "dispose"}
  PROVE  /\ [ServerStep]_serverVars
         /\ pc[r] = "idle" /\ ~IsDebug(r) /\ debugs' = debugs /\ Target(r)' = q.target
         /\ owner' = [owner EXCEPT ![r] = a] /\ purpose' = [purpose EXCEPT ![r] = command]
         /\ owner[r] = None /\ (arrived' = arrived => Sent(r)')
<1> USE ServerAssumption DEF Actors
<1>1. /\ Arrive(r, q) /\ owner' = [owner EXCEPT ![r] = a] /\ purpose' = [purpose EXCEPT ![r] = command]
      /\ owner \in [Requests -> Adapters \cup {None}] /\ purpose \in [Requests -> Purposes \cup {"none"}]
      /\ pc \in [Actors -> Steps] /\ Sent(r) /\ Place(r) /\ req \in [Requests -> QueryType]
      /\ holds[a] \in Requests \cup {None} /\ Follows(a)
  BY DEF Post, DebugInv, AdapterTypeOK, ServerInv, SessionInv, ServerTypeOK, QueryType
<1>2. [ServerStep]_serverVars
  BY <1>1 DEF ServerStep
<1>3. pc[r] = "idle" /\ debugs' = debugs /\ req'[r] = q
  BY <1>1 DEF Arrive
<1>4. ~IsDebug(r) /\ owner[r] = None /\ ~arrived[r]
  BY <1>1, <1>3 DEF Place, Outside, Untouched, Sent
<1>5. owner'[r] = a /\ purpose'[r] = command /\ Target(r)' = q.target
  BY <1>1, <1>3 DEF Target
<1>6. pc'[r] # "idle"
  BY <1>1 DEF Arrive, Go, Answer, QueryType, Kinds
<1>7. ASSUME command # "launch"
      PROVE  /\ q.target \in Requests /\ pc'[q.target] = "answered"
             /\ pc'[r] # "act" => ~IsDebug(q.target)'
  <2>1. q.target \in Requests /\ pc[q.target] = "answered"
    BY <1>1, <1>7 DEF Follows
  <2>2. pc'[q.target] = "answered"
    BY <1>1, <1>3, <2>1 DEF Arrive, Go, Answer
  <2>3. pc'[r] # "act" => ~IsDebug(q.target)
    BY <1>1, <1>7 DEF Arrive, Go, Answer
  <2> QED
    BY <1>3, <2>1, <2>2, <2>3 DEF IsDebug
<1>8. arrived' = arrived => Sent(r)'
  BY <1>3, <1>4, <1>5, <1>6, <1>7 DEF Sent, Ends, Gone, IsDebug
<1> QED
  BY <1>1, <1>2, <1>3, <1>4, <1>5, <1>8

(* Commands that send a request.                                           *)
Posts(a, r) ==
  \E command \in Purposes, q \in QueryType :
    /\ Post(a, r, command, q) /\ Command(a)
    /\ IF command = "launch" THEN q.kind = "debug"
         ELSE /\ q.kind = "action" /\ q.target = holds[a] /\ holds[a] # None /\ q.verb # "unknown"
              /\ q.verb = "terminate" <=> command \in {"disconnect", "dispose"}
    /\ stage[a] = IF command = "launch" THEN "new" ELSE "launched"
    /\ stage' = [stage EXCEPT ![a] = IF command = "dispose" THEN "disposed" ELSE "launched"]
    /\ holds' = [holds EXCEPT ![a] = IF command = "dispose" THEN None ELSE holds[a]]
    /\ UNCHANGED <<arrived, shows>>

LEMMA CommandsPost ==
  ASSUME DebugInv, NEW a \in Adapters, NEW r \in Requests,
         Launch(a, r) \/ Resume(a, r) \/ Disconnect(a, r) \/ (Dispose(a, r) /\ holds[a] # None)
  PROVE  Posts(a, r)
<1>1. /\ stage \in [Adapters -> {"new", "launched", "disposed"}]
      /\ holds \in [Adapters -> Requests \cup {None}]
  BY DEF DebugInv, AdapterTypeOK
<1> DEFINE Action(verb) == [NoRequest EXCEPT !.kind = "action", !.verb = verb, !.target = holds[a]]
<1>2. /\ [NoRequest EXCEPT !.kind = "debug"] \in QueryType /\ [NoRequest EXCEPT !.kind = "debug"].kind = "debug"
      /\ \A verb \in Verbs : /\ Action(verb) \in QueryType /\ Action(verb).kind = "action"
                             /\ Action(verb).verb = verb /\ Action(verb).target = holds[a]
  BY <1>1 DEF NoRequest, QueryType, Kinds, Verbs
<1> HIDE DEF Action
<1>3. CASE Launch(a, r)
  BY <1>1, <1>2, <1>3 DEF Launch, Posts, Purposes
<1>4. CASE Resume(a, r)
  <2>1. PICK verb \in Verbs \ {"terminate", "unknown"} : Post(a, r, "action", Action(verb))
    BY <1>4 DEF Resume, PostAction, Action
  <2> QED
    BY <1>1, <1>2, <1>4, <2>1 DEF Resume, Posts, Purposes
<1>5. CASE Disconnect(a, r)
  <2>1. Post(a, r, "disconnect", Action("terminate"))
    BY <1>5 DEF Disconnect, PostAction, Action
  <2> QED
    BY <1>1, <1>2, <1>5, <2>1 DEF Disconnect, Posts, Purposes, Verbs
<1>6. CASE Dispose(a, r) /\ holds[a] # None
  <2>1. Post(a, r, "dispose", Action("terminate"))
    BY <1>6 DEF Dispose, PostAction, Action
  <2> QED
    BY <1>1, <1>2, <1>6, <2>1 DEF Dispose, Posts, Purposes, Verbs
<1> QED
  BY <1>3, <1>4, <1>5, <1>6

LEMMA PostsInOrder ==
  ASSUME DebugInv, NEW a \in Adapters, NEW r \in Requests, Posts(a, r)
  PROVE  DebugInv'
<1> USE ServerAssumption, AdapterAssumption
<1>1. PICK command \in Purposes, q \in QueryType :
        /\ Post(a, r, command, q) /\ Command(a)
        /\ IF command = "launch" THEN q.kind = "debug"
             ELSE /\ q.kind = "action" /\ q.target = holds[a] /\ holds[a] # None /\ q.verb # "unknown"
                  /\ q.verb = "terminate" <=> command \in {"disconnect", "dispose"}
        /\ stage[a] = IF command = "launch" THEN "new" ELSE "launched"
        /\ stage' = [stage EXCEPT ![a] = IF command = "dispose" THEN "disposed" ELSE "launched"]
        /\ holds' = [holds EXCEPT ![a] = IF command = "dispose" THEN None ELSE holds[a]]
        /\ UNCHANGED <<arrived, shows>>
  BY DEF Posts
<1>2. /\ [ServerStep]_serverVars
      /\ pc[r] = "idle" /\ ~IsDebug(r) /\ debugs' = debugs /\ Target(r)' = q.target
      /\ owner' = [owner EXCEPT ![r] = a] /\ purpose' = [purpose EXCEPT ![r] = command]
      /\ owner[r] = None /\ Sent(r)'
  BY <1>1, PostSent
<1>3. ServerInv' /\ Settled /\ \A s \in Requests : Pursues(s)'
  BY <1>2, ServerInvStep, SettledStep, PursuesStep DEF DebugInv
<1>4. AdapterTypeOK
  BY DEF DebugInv
<1>5. AdapterTypeOK'
  BY <1>1, <1>2, <1>4 DEF AdapterTypeOK, Command
<1>6. ASSUME NEW s \in Requests PROVE Sent(s)'
  BY <1>1, <1>2, <1>3, <1>4, SentStays DEF AdapterTypeOK
<1>7. ASSUME NEW b \in Adapters PROVE Follows(b)'
  <2>1. CASE b # a
    <3>1. holds'[b] = holds[b] /\ stage'[b] = stage[b] /\ alone'[b] = alone[b]
      BY <1>1, <1>4, <2>1 DEF AdapterTypeOK, Command
    <3>2. ASSUME NEW s \in Requests
          PROVE  /\ owner'[s] = b <=> owner[s] = b
                 /\ owner[s] = b => purpose'[s] = purpose[s] /\ arrived'[s] = arrived[s]
      BY <1>1, <1>2, <1>4, <2>1 DEF AdapterTypeOK
    <3> QED
      BY <1>2, <1>3, <3>1, <3>2, FollowsStays
  <2>2. CASE b = a
    <3>1. /\ Follows(a) /\ \A s \in Requests : Sent(s)
          /\ stage'[a] = IF command = "dispose" THEN "disposed" ELSE "launched"
          /\ holds'[a] = IF command = "dispose" THEN None ELSE holds[a]
          /\ holds[a] \in Requests \cup {None}
          /\ alone'[a] => alone[a] /\ InFlight(a) = {}
      BY <1>1, <1>4 DEF AdapterTypeOK, DebugInv, Command
    <3>2. holds'[a] # None => pc'[holds'[a]] = "answered"
      BY <1>3, <3>1 DEF Follows, Settled
    <3>3. ASSUME alone'[a] PROVE InOrder(a)'
      <4>1. InOrder(a) /\ InFlight(a) = {}
        BY <3>1, <3>3 DEF Follows
      <4>2. ~arrived'[r] /\ owner'[r] = a /\ purpose'[r] = command
        BY <1>1, <1>2, <1>4, <3>1 DEF Sent, AdapterTypeOK
      <4>3. InFlight(a)' = {r}
        BY <1>1, <1>2, <1>4, <4>1, <4>2 DEF InFlight, AdapterTypeOK
      <4>4. ASSUME NEW s \in Requests, IsDebug(s)', owner'[s] = a
            PROVE  holds[a] = s /\ command # "launch"
        <5>1. IsDebug(s) /\ s # r /\ owner[s] = a
          BY <1>2, <1>4, <4>4 DEF IsDebug, AdapterTypeOK
        <5> QED
          BY <1>1, <3>1, <4>1, <5>1 DEF InOrder, Follows
      <4>5. ASSUME NEW s \in Requests, IsDebug(s)', owner'[s] = a
            PROVE  holds'[a] = s \/ \E t \in InFlight(a)' : Covers(t, s)'
        BY <1>1, <1>2, <3>1, <4>2, <4>3, <4>4, <4>5 DEF Covers
      <4>6. holds'[a] = IF command \in {"launch", "dispose"} THEN None ELSE Target(r)'
        BY <1>1, <1>2, <3>1 DEF Follows
      <4> QED
        BY <3>1, <4>2, <4>3, <4>5, <4>6 DEF InOrder
    <3> QED
      BY <2>2, <3>1, <3>2, <3>3 DEF Follows
  <2> QED
    BY <2>1, <2>2
<1> QED
  BY <1>3, <1>5, <1>6, <1>7 DEF DebugInv

(* Commands that send nothing, and answers.                                *)
LEMMA QuietInOrder ==
  ASSUME DebugInv, NEW a \in Adapters, UNCHANGED <<serverVars, owner, purpose>>,
         \A b \in Adapters \ {a} : holds'[b] = holds[b] /\ stage'[b] = stage[b] /\ alone'[b] = alone[b],
         \A r \in Requests : /\ owner[r] # a => arrived'[r] = arrived[r]
                             /\ arrived'[r] # arrived[r] => pc[r] = "answered",
         AdapterTypeOK', Follows(a)'
  PROVE  DebugInv'
<1>1. [ServerStep]_serverVars
  OBVIOUS
<1>2. ServerInv' /\ Settled /\ \A s \in Requests : Pursues(s)'
  BY <1>1, ServerInvStep, SettledStep, PursuesStep DEF DebugInv
<1>3. ASSUME NEW s \in Requests PROVE Sent(s)'
  <2>1. Sent(s)
    BY DEF DebugInv
  <2>2. arrived'[s] => pc[s] = "answered"
    BY <2>1 DEF Sent
  <2> QED
    BY <2>1, <2>2 DEF Sent, Ends, Target, Gone, IsDebug, serverVars
<1>4. ASSUME NEW b \in Adapters PROVE Follows(b)'
  <2>1. CASE b = a
    BY <2>1
  <2>2. CASE b # a
    BY <1>1, <1>2, <2>2, FollowsStays
  <2> QED
    BY <2>1, <2>2
<1> QED
  BY <1>2, <1>3, <1>4 DEF DebugInv

LEMMA ReceiveInOrder ==
  ASSUME DebugInv, NEW a \in Adapters, NEW r \in Requests, Receive(a, r)
  PROVE  DebugInv'
<1> USE ServerAssumption, AdapterAssumption
<1>1. /\ r \in InFlight(a) /\ pc[r] = "answered" /\ arrived' = [arrived EXCEPT ![r] = TRUE]
      /\ UNCHANGED <<serverVars, owner, purpose, stage, alone>>
      /\ AdapterTypeOK /\ ServerTypeOK /\ Follows(a)
  BY DEF Receive, DebugInv, ServerInv
<1>2. /\ owner[r] = a /\ ~arrived[r] /\ Sent(r) /\ Pursues(r) /\ pc[r] # "act" /\ purpose[r] \in Purposes
      /\ reply[r].id \in Requests \cup {None}
  BY <1>1 DEF InFlight, DebugInv, Sent, ServerTypeOK
<1>3. AdapterTypeOK'
  BY <1>1, <1>2 DEF Receive, AdapterTypeOK
<1>4. \/ purpose[r] \in {"launch", "action"} /\ reply[r].told # "error" /\ holds'[a] = reply[r].id
      \/ purpose[r] = "disconnect" /\ holds'[a] = None
      \/ purpose[r] # "disconnect" /\ (purpose[r] = "dispose" \/ reply[r].told = "error") /\ holds'[a] = holds[a]
  BY <1>1 DEF Receive, AdapterTypeOK
<1>5. /\ UNCHANGED <<pc, req, reply, debugs>>
      /\ \A s \in Requests : Target(s)' = Target(s) /\ (IsDebug(s)' <=> IsDebug(s))
  BY <1>1 DEF serverVars, Target, IsDebug
<1>6. holds'[a] # None => pc'[holds'[a]] = "answered"
  BY <1>1, <1>2, <1>4, <1>5 DEF Follows, Pursues
<1>7. stage'[a] # "new"
  BY <1>1, <1>2 DEF Follows
<1>8. InFlight(a)' = InFlight(a) \ {r}
  BY <1>1 DEF InFlight, AdapterTypeOK
<1>9. ASSUME alone[a] PROVE InOrder(a)'
  <2>1. InOrder(a) /\ InFlight(a) = {r} /\ InFlight(a)' = {}
    BY <1>1, <1>8, <1>9 DEF Follows, InOrder
  <2>2. ASSUME NEW s \in Requests, IsDebug(s), owner[s] = a PROVE holds'[a] = s
    <3>1. s = holds[a] \/ Covers(r, s)
      BY <2>1, <2>2 DEF InOrder
    <3>2. Ends(r) => Gone(Target(r))
      BY <1>2, <1>1 DEF Sent, Ends
    <3>3. CASE s = r /\ ~Ends(r)
      <4>1. reply[r] = Live(s) /\ Live(s).id = s /\ Live(s).told = "live" /\ purpose[r] \in {"launch", "action"}
        BY <1>2, <2>2, <3>3, Fields DEF Pursues, Ends, Purposes
      <4> QED
        BY <1>4, <4>1
    <3>4. CASE s = holds[a] /\ s # r
      <4>1. purpose[r] \in {"action", "disconnect"} /\ Target(r) = s
        <5>1. s = IF purpose[r] \in {"launch", "dispose"} THEN None ELSE Target(r)
          BY <2>1, <3>4 DEF InOrder
        <5> QED
          BY <1>2, <5>1 DEF Purposes
      <4>2. purpose[r] = "action" /\ ~Gone(s)
        BY <2>2, <3>2, <4>1 DEF Ends, Gone
      <4>3. reply[r] = Failed \/ reply[r].id = s
        BY <1>1, <1>2, <4>1, <4>2 DEF Sent, Pursues, ActsOn
      <4> QED
        BY <1>4, <3>4, <4>2, <4>3, Fields
    <3>5. CASE purpose[r] = "dispose" /\ Target(r) = s
      BY <2>2, <3>2, <3>5 DEF Ends, Gone
    <3>6. CASE s = holds[a] /\ s = r /\ Ends(r)
      <4>1. s = IF purpose[r] \in {"launch", "dispose"} THEN None ELSE Target(r)
        BY <2>1, <3>6 DEF InOrder
      <4> QED
        BY <2>2, <3>2, <3>6, <4>1 DEF Ends, Gone
    <3> QED
      BY <3>1, <3>3, <3>4, <3>5, <3>6 DEF Covers
  <2>3. stage[a] = "disposed" => holds'[a] = None
    BY <1>4, <2>1 DEF InOrder
  <2> QED
    BY <1>1, <1>5, <2>1, <2>2, <2>3 DEF InOrder
<1>10. Follows(a)'
  BY <1>1, <1>6, <1>7, <1>9 DEF Follows
<1>11. ASSUME NEW b \in Adapters \ {a}
       PROVE  holds'[b] = holds[b] /\ stage'[b] = stage[b] /\ alone'[b] = alone[b]
  BY <1>1, <1>11 DEF Receive, AdapterTypeOK
<1>12. ASSUME NEW s \in Requests
       PROVE  (owner[s] # a => arrived'[s] = arrived[s]) /\ (arrived'[s] # arrived[s] => pc[s] = "answered")
  BY <1>1, <1>2 DEF AdapterTypeOK
<1> QED
  BY <1>1, <1>3, <1>10, <1>11, <1>12, QuietInOrder

(* disconnect(), action() and dispose() of an adapter without a session.   *)
LEMMA WithoutSession ==
  ASSUME DebugInv, NEW a \in Adapters,
         EndWithoutSession(a) \/ (holds[a] = None /\ \E r \in Requests : Dispose(a, r))
  PROVE  DebugInv'
<1> USE ServerAssumption, AdapterAssumption
<1>1. /\ UNCHANGED <<serverVars, owner, purpose, arrived>> /\ Command(a)
      /\ AdapterTypeOK /\ Follows(a) /\ holds[a] = None /\ stage[a] # "new"
  BY DEF EndWithoutSession, Dispose, DebugInv
<1>2. holds' = holds /\ AdapterTypeOK' /\ stage'[a] # "new"
      /\ \A b \in Adapters \ {a} : stage'[b] = stage[b] /\ alone'[b] = alone[b]
  BY <1>1 DEF EndWithoutSession, Dispose, AdapterTypeOK, Command
<1>3. InFlight(a)' = InFlight(a) /\ \A s \in Requests : IsDebug(s)' <=> IsDebug(s)
  BY <1>1 DEF InFlight, IsDebug, serverVars
<1>4. alone'[a] => alone[a] /\ InFlight(a) = {}
  BY <1>1 DEF Command, AdapterTypeOK
<1>5. alone'[a] => InOrder(a)'
  BY <1>1, <1>2, <1>3, <1>4 DEF Follows, InOrder
<1>6. Follows(a)'
  BY <1>1, <1>2, <1>5 DEF Follows
<1> QED
  BY <1>1, <1>2, <1>6, QuietInOrder

LEMMA DebugInvStep == DebugInv /\ [DebugNext]_debugVars => DebugInv'
<1> SUFFICES ASSUME DebugInv, [DebugNext]_debugVars PROVE DebugInv'
  OBVIOUS
<1>1. ASSUME NEW a \in Adapters, NEW r \in Requests,
             Launch(a, r) \/ Resume(a, r) \/ Disconnect(a, r) \/ Dispose(a, r) \/ Receive(a, r)
      PROVE  DebugInv'
  BY <1>1, CommandsPost, PostsInOrder, ReceiveInOrder, WithoutSession
<1>2. ASSUME NEW a \in Adapters, EndWithoutSession(a) PROVE DebugInv'
  BY <1>2, WithoutSession
<1>3. CASE [ServerNext]_serverVars /\ UNCHANGED adapterVars
  <2>1. [ServerStep]_serverVars
    BY <1>3, ServerNextSteps DEF DebugInv, ServerInv
  <2>2. ServerInv' /\ Settled /\ \A s \in Requests : Pursues(s)'
    BY <2>1, ServerInvStep, SettledStep, PursuesStep DEF DebugInv
  <2>3. AdapterTypeOK'
    BY <1>3 DEF DebugInv, AdapterTypeOK, adapterVars
  <2>4. \A s \in Requests : Sent(s)'
    BY <1>3, <2>1, <2>2, SentStays DEF adapterVars
  <2>5. \A a \in Adapters : Follows(a)'
    BY <1>3, <2>1, <2>2, FollowsStays DEF adapterVars
  <2> QED
    BY <2>2, <2>3, <2>4, <2>5 DEF DebugInv
<1> QED
  BY <1>1, <1>2, <1>3 DEF DebugNext, debugVars

(* The debug adapter: a debug session of VS Code that ends leaves no       *)
(* session of the Stone behind in the explorer, unless one of its commands *)
(* was given while another one was unanswered.                             *)
THEOREM DebugSessionsEnd == DebugSpec => []EndsWithItsSession
BY DebugInvInit, DebugInvStep, DebugInvImplies, PTL DEF DebugSpec

(* What holds of the sessions of the explorer holds under its adapters.    *)
THEOREM AdaptersKeepTheSessions == DebugSpec => [](SessionsAreClosedOnce /\ AnswersTellWhatWasCommitted)
<1>1. DebugInv => SessionsAreClosedOnce /\ AnswersTellWhatWasCommitted
  BY ServerInvImplies DEF DebugInv
<1> QED
  BY <1>1, DebugInvInit, DebugInvStep, PTL DEF DebugSpec
=============================================================================
