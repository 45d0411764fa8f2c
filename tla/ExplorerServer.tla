--------------------------- MODULE ExplorerServer ---------------------------
(***************************************************************************)
(* The server of examples/explorer.ts.  Each request that needs the Stone  *)
(* opens a session of its own and closes it before it is answered; a debug *)
(* run that halts keeps its session open in activeDebugSessions, for the   *)
(* debugger actions of later requests, until some request or the shutdown  *)
(* closes it.  The handlers interleave at their awaits.                    *)
(*                                                                         *)
(* A request opens at most one session, so a session, and the identifier   *)
(* of a debug session, is the request that opened it.  When all of them    *)
(* are closed, the code goes by their age; here any order is followed.     *)
(***************************************************************************)
EXTENDS Integers, FiniteSets

CONSTANTS
  Requests,
  MayAsk,     \* of which kinds each of them may be
  None,       \* no session
  Shutdown    \* the handler of SIGINT and SIGTERM

Kinds == {"plain", "read", "change", "eval", "debug", "action"}
Verbs == {"step", "proceed", "terminate", "unknown"}

ASSUME ServerAssumption ==
  /\ MayAsk \in [Requests -> SUBSET Kinds]
  /\ None \notin Requests /\ Shutdown \notin Requests \cup {None}

VARIABLES
  server,     \* "listening", "closed" once server.close() is called, "exited"
  req,        \* what each request asks for
  pc,         \* the await at which each handler stands
  session,    \* the session each request opened: "none", "in", "out" or "lost"
  work,       \* what the session has changed: "none", "changed", "committed", "gone"
  debugs,     \* the keys of activeDebugSessions
  todo,       \* what is left of the keys that closeAllActiveDebugSessions() took
  closing,    \* the session each handler is closing
  reply,      \* the answer to each request, as far as it is known
  logouts     \* how often each session was logged out

serverVars == <<server, req, pc, session, work, debugs, todo, closing, reply, logouts>>

Actors == Requests \cup {Shutdown}

NoRequest == [kind |-> "plain", commit |-> FALSE, verb |-> "unknown", target |-> None]
Unknown   == [told |-> "nothing", committed |-> FALSE, id |-> None]
Failed    == [Unknown EXCEPT !.told = "error"]
Done(c)   == [Unknown EXCEPT !.told = "done", !.committed = c]
Ended(s)  == [Unknown EXCEPT !.told = "done", !.id = s]
Live(s)   == [Unknown EXCEPT !.told = "live", !.id = s]
NotLive   == [Unknown EXCEPT !.told = "problem"]

ServerInit ==
  /\ server = "listening"
  /\ req = [r \in Requests |-> NoRequest]
  /\ pc = [a \in Actors |-> "idle"]
  /\ session = [r \in Requests |-> "none"]
  /\ work = [r \in Requests |-> "none"]
  /\ debugs = {}
  /\ todo = [a \in Actors |-> {}]
  /\ closing = [a \in Actors |-> None]
  /\ reply = [r \in Requests |-> Unknown]
  /\ logouts = [r \in Requests |-> 0]

-----------------------------------------------------------------------------
(* Helpers                                                                 *)

Go(a, step) == pc' = [pc EXCEPT ![a] = step]

Tell(r, answer) == reply' = [reply EXCEPT ![r] = answer]

(* The answer is written and the handler has ended. *)
Answer(r, answer) == Tell(r, answer) /\ Go(r, "answered")

IsDebug(s) == s \in debugs

(* A call on a session that is logged in succeeds or throws; on one that   *)
(* has been logged out it throws.                                          *)
CallOutcomes(s) == IF session[s] = "in" THEN {"ok", "error"} ELSE {"error"}

(* An abort.  One that fails is swallowed, and what it left is dropped by  *)
(* the logout that follows.                                                *)
Aborts(s) == work' = [work EXCEPT ![s] = IF @ = "changed" THEN "gone" ELSE @]

(* The end of a session, which drops what it has not committed. *)
LogsOut(s) ==
  /\ session' = [session EXCEPT ![s] = IF @ = "in" THEN "out" ELSE @]
  /\ work' = [work EXCEPT ![s] = IF @ = "changed" THEN "gone" ELSE @]
  /\ logouts' = [logouts EXCEPT ![s] = @ + 1]

-----------------------------------------------------------------------------
(* Requests                                                                *)

(* The request and its body have been read.  A body that is no object, or  *)
(* a field that is missing or out of range, is answered with the error.    *)
Arrive(r, q) ==
  /\ server = "listening" /\ pc[r] = "idle"
  /\ req' = [req EXCEPT ![r] = q]
  /\ \/ /\ q.kind = "plain"
        /\ \E answer \in {Failed, Done(FALSE)} : Answer(r, answer)
        /\ UNCHANGED todo
     \/ /\ q.kind \in {"read", "change", "eval"} /\ Go(r, "connect")
        /\ UNCHANGED <<reply, todo>>
     \/ /\ q.kind = "debug" /\ Go(r, "close all")
        /\ todo' = [todo EXCEPT ![r] = debugs]
        /\ UNCHANGED reply
     \/ /\ q.kind = "action"
        /\ IF IsDebug(q.target) /\ q.verb # "unknown"
             THEN Go(r, "act") /\ UNCHANGED reply
             ELSE Answer(r, Failed)
        /\ UNCHANGED todo
  /\ UNCHANGED <<server, session, work, debugs, closing, logouts>>

Connect(r) ==
  /\ pc[r] = "connect"
  /\ \/ /\ session' = [session EXCEPT ![r] = "in"]
        /\ Go(r, IF req[r].kind \in {"debug", "action"} THEN "run" ELSE "execute")
        /\ UNCHANGED reply
     \/ Answer(r, Failed) /\ UNCHANGED session
  /\ UNCHANGED <<server, req, work, debugs, todo, closing, logouts>>

(* Reading endpoints evaluate one query or a few. *)
Read(r) ==
  /\ pc[r] = "execute" /\ req[r].kind = "read"
  /\ \E answer \in {Failed, Done(FALSE)} : Tell(r, answer)
  /\ Go(r, "logout")
  /\ UNCHANGED <<server, req, session, work, debugs, todo, closing, logouts>>

(* Compiling or removing a method: a refusal of the Stone comes back as    *)
(* the text of an answer, and is followed by the commit all the same.      *)
ChangeMethod(r) ==
  /\ pc[r] = "execute" /\ req[r].kind = "change"
  /\ \/ \E w \in {"none", "changed"} : work' = [work EXCEPT ![r] = w]
        /\ Go(r, "finish") /\ UNCHANGED reply
     \/ Tell(r, Failed) /\ Go(r, "logout") /\ UNCHANGED work
  /\ UNCHANGED <<server, req, session, debugs, todo, closing, logouts>>

(* An evaluation that fails, or whose error is pending, may have changed   *)
(* something before it failed.                                             *)
Evaluate(r) ==
  /\ pc[r] = "execute" /\ req[r].kind = "eval"
  /\ \/ /\ work' = [work EXCEPT ![r] = "changed"]
        /\ Go(r, "finish") /\ UNCHANGED reply
     \/ /\ \E w \in {"none", "changed"} : work' = [work EXCEPT ![r] = w]
        /\ Tell(r, Failed) /\ Go(r, "logout")
  /\ UNCHANGED <<server, req, session, debugs, todo, closing, logouts>>

Finish_SwallowsFailedCommit(r) ==
  /\ pc[r] = "finish" /\ Go(r, "logout")
  /\ Tell(r, Done(req[r].commit /\ work[r] = "changed"))
  /\ IF req[r].commit
       THEN \E w \in {work[r], IF work[r] = "changed" THEN "committed" ELSE "none"} :
              work' = [work EXCEPT ![r] = w]
       ELSE Aborts(r)
  /\ UNCHANGED <<server, req, session, debugs, todo, closing, logouts>>

(* The commit that was asked for, or an abort.  The answer of a refused    *)
(* compilation says that nothing was committed.                            *)
Finish(r) ==
  /\ pc[r] = "finish" /\ Go(r, "logout")
  /\ \/ /\ req[r].commit
        /\ work' = [work EXCEPT ![r] = IF @ = "changed" THEN "committed" ELSE @]
        /\ Tell(r, Done(work[r] = "changed"))
     \/ /\ req[r].commit
        /\ Tell(r, Failed) /\ UNCHANGED work
     \/ /\ ~req[r].commit
        /\ Aborts(r) /\ Tell(r, Done(FALSE))
  /\ UNCHANGED <<server, req, session, debugs, todo, closing, logouts>>

(* The end of withSession() and of startDebugRun(): an abort, whose error  *)
(* is swallowed, and the logout, which drops what it may have left.        *)
Logout(r) ==
  /\ pc[r] = "logout" /\ Go(r, "answered")
  /\ LogsOut(r)
  /\ UNCHANGED <<server, req, debugs, todo, closing, reply>>

-----------------------------------------------------------------------------
(* Closing debug sessions                                                  *)

CloseBegins_Unchecked(a, s, after) ==
  /\ debugs' = debugs \ {s}
  /\ closing' = [closing EXCEPT ![a] = s]
  /\ Go(a, "closing")

(* closeActiveDebugSession() forgets the session before its first await,   *)
(* and does nothing when another handler has forgotten it.                 *)
CloseBegins(a, s, after) ==
  IF IsDebug(s)
    THEN /\ debugs' = debugs \ {s}
         /\ closing' = [closing EXCEPT ![a] = s]
         /\ Go(a, "closing")
    ELSE Go(a, after) /\ UNCHANGED <<debugs, closing>>

(* Where a handler goes on when a session is closed. *)
AfterClose(a) ==
  IF a = Shutdown \/ req[a].kind = "debug" THEN "close all"
  ELSE IF reply[a] = Unknown THEN "connect" ELSE "answered"

(* The process is terminated, the session aborted and logged out, and the  *)
(* errors of all three are swallowed.                                      *)
CloseEnds(a) ==
  /\ pc[a] = "closing"
  /\ LogsOut(closing[a])
  /\ closing' = [closing EXCEPT ![a] = None]
  /\ Go(a, AfterClose(a))
  /\ UNCHANGED <<server, req, debugs, todo, reply>>

CloseNext(a) ==
  /\ pc[a] = "close all"
  /\ \E s \in todo[a] :
       todo' = [todo EXCEPT ![a] = @ \ {s}] /\ CloseBegins(a, s, "close all")
  /\ UNCHANGED <<server, req, session, work, reply, logouts>>

AllClosed(r) ==
  /\ r \in Requests
  /\ pc[r] = "close all" /\ todo[r] = {} /\ Go(r, "connect")
  /\ UNCHANGED <<server, req, session, work, debugs, todo, closing, reply, logouts>>

-----------------------------------------------------------------------------
(* Debug runs                                                              *)

(* The source is executed, and its result inspected or marshalled.  An     *)
(* error is turned into a problem, whose inspections swallow their errors. *)
Run(r) ==
  /\ pc[r] = "run"
  /\ \/ /\ \E answer \in {Done(FALSE), NotLive} : Tell(r, answer)
        /\ work' = [work EXCEPT ![r] = "changed"]
        /\ Go(r, "logout")
     \/ /\ work' = [work EXCEPT ![r] = "changed"]
        /\ Go(r, "halted") /\ UNCHANGED reply
  /\ UNCHANGED <<server, req, session, debugs, todo, closing, logouts>>

(* The error has a context: the session is kept under a new identifier. *)
Retain(r) ==
  /\ pc[r] = "halted"
  /\ debugs' = debugs \cup {r}
  /\ Answer(r, Live(r))
  /\ UNCHANGED <<server, req, session, work, todo, closing, logouts>>

-----------------------------------------------------------------------------
(* Debugger actions                                                        *)

(* The scripts of the action, each tried when the one before it is not     *)
(* supported.  Whether the process of the session can be terminated makes  *)
(* no difference.                                                          *)
Act(r) ==
  LET s == req[r].target IN
  /\ pc[r] = "act"
  /\ \/ /\ req[r].verb = "terminate"
        /\ Tell(r, Ended(s)) /\ CloseBegins(r, s, "answered")
     \/ /\ req[r].verb # "terminate"
        /\ \E o \in CallOutcomes(s) :
             IF o = "ok" THEN Go(r, "wait") /\ UNCHANGED reply ELSE Answer(r, Failed)
        /\ UNCHANGED <<debugs, closing>>
  /\ UNCHANGED <<server, req, session, work, todo, logouts>>

(* The process is asked for its status until it stops or a second is over; *)
(* a status that cannot be read counts as terminated.                      *)
Wait(r) ==
  /\ pc[r] = "wait"
  /\ \/ /\ Tell(r, Ended(req[r].target))
        /\ CloseBegins(r, req[r].target, "answered")
     \/ /\ "ok" \in CallOutcomes(req[r].target) /\ Go(r, "problem")
        /\ UNCHANGED <<reply, debugs, closing>>
  /\ UNCHANGED <<server, req, session, work, todo, logouts>>

(* A step that did not move closes the session and runs the source anew;   *)
(* that it did not move is only seen when the frames can be read.          *)
Problem(r) ==
  LET s == req[r].target IN
  /\ pc[r] = "problem"
  /\ \/ Answer(r, Live(s)) /\ UNCHANGED <<debugs, closing>>
     \/ /\ req[r].verb = "step" /\ "ok" \in CallOutcomes(s)
        /\ CloseBegins(r, s, "connect") /\ UNCHANGED reply
  /\ UNCHANGED <<server, req, session, work, todo, logouts>>

-----------------------------------------------------------------------------
(* The end of the server                                                   *)

Signal ==
  /\ pc[Shutdown] = "idle" /\ server = "listening"
  /\ Go(Shutdown, "close all")
  /\ todo' = [todo EXCEPT ![Shutdown] = debugs]
  /\ UNCHANGED <<server, req, session, work, debugs, closing, reply, logouts>>

CloseServer_WaitsForNone ==
  /\ pc[Shutdown] = "close all" /\ todo[Shutdown] = {} /\ debugs = {}
  /\ server' = "closed" /\ Go(Shutdown, "answered")
  /\ UNCHANGED <<req, session, work, debugs, todo, closing, reply, logouts>>

CloseServer ==
  /\ pc[Shutdown] = "close all" /\ todo[Shutdown] = {}
  /\ server' = "closed" /\ Go(Shutdown, "answered")
  /\ UNCHANGED <<req, session, work, debugs, todo, closing, reply, logouts>>

InProgress(a) == pc[a] \notin {"idle", "answered"}

(* The process ends when nothing is left to wait for.  Its sessions end    *)
(* with it.                                                                *)
Exit ==
  /\ server = "closed" /\ \A a \in Actors : ~InProgress(a)
  /\ server' = "exited"
  /\ session' = [r \in Requests |-> IF session[r] = "in" THEN "lost" ELSE session[r]]
  /\ UNCHANGED <<req, pc, work, debugs, todo, closing, reply, logouts>>

-----------------------------------------------------------------------------
(* Specification                                                           *)

(* The requests there are: an action may name a session that is gone. *)
RequestsOf(kind) ==
  {q \in [kind : {kind}, commit : BOOLEAN, verb : Verbs,
          target : {None} \cup {s \in Requests : session[s] # "none"}] :
     /\ q.commit => kind \in {"change", "eval"}
     /\ IF kind = "action" THEN q.target # None ELSE q.target = None /\ q.verb = "unknown"}

Handle(r) ==
  \/ Connect(r) \/ Read(r) \/ ChangeMethod(r) \/ Evaluate(r) \/ Finish(r) \/ Logout(r)
  \/ Run(r) \/ Retain(r)
  \/ Act(r) \/ Wait(r) \/ Problem(r)
  \/ AllClosed(r)

ServerNext ==
  \/ \E r \in Requests : \E kind \in MayAsk[r] : \E q \in RequestsOf(kind) : Arrive(r, q)
  \/ \E r \in Requests : Handle(r)
  \/ \E a \in Actors : CloseNext(a) \/ CloseEnds(a)
  \/ Signal \/ CloseServer \/ Exit

(* The Stone answers every call, so a handler that has begun goes on. *)
ServerFairness ==
  /\ \A r \in Requests : WF_serverVars(Handle(r))
  /\ \A a \in Actors : WF_serverVars(CloseNext(a) \/ CloseEnds(a))
  /\ WF_serverVars(CloseServer \/ Exit)

ServerSpec == ServerInit /\ [][ServerNext]_serverVars /\ ServerFairness

-----------------------------------------------------------------------------
(* Properties                                                              *)

Steps == {"idle", "connect", "execute", "finish", "logout", "run",
          "halted", "close all", "closing", "act", "wait", "problem", "answered"}

ServerTypeOK ==
  /\ server \in {"listening", "closed", "exited"}
  /\ req \in [Requests -> [kind : Kinds, commit : BOOLEAN,
                          verb : Verbs, target : Requests \cup {None}]]
  /\ pc \in [Actors -> Steps]
  /\ session \in [Requests -> {"none", "in", "out", "lost"}]
  /\ work \in [Requests -> {"none", "changed", "committed", "gone"}]
  /\ debugs \subseteq Requests
  /\ todo \in [Actors -> SUBSET Requests]
  /\ closing \in [Actors -> Requests \cup {None}]
  /\ reply \in [Requests -> [told : {"nothing", "error", "problem", "done", "live"},
                            committed : BOOLEAN, id : Requests \cup {None}]]
  /\ logouts \in [Requests -> Nat]

(* No session is left logged in with nobody to close it: it is kept for    *)
(* debugging, or the handler that opened it is still at work, or another   *)
(* one is closing it.  And whoever closes a debug session, and however     *)
(* many try to: a session that is kept is logged in, and none is logged    *)
(* out twice.                                                              *)
SessionsAreClosedOnce ==
  /\ \A s \in Requests :
       session[s] = "in" => \/ IsDebug(s)
                            \/ InProgress(s)
                            \/ \E a \in Actors : closing[a] = s
  /\ \A s \in Requests : IsDebug(s) => session[s] \in {"in", "lost"}
  /\ \A s \in Requests : logouts[s] <= 1

(* The answer to a change or an evaluation says that it was committed      *)
(* exactly when it was, and nothing is committed that was not asked for.   *)
AnswersTellWhatWasCommitted ==
  \A r \in Requests :
    /\ pc[r] = "answered" => (reply[r].committed <=> work[r] = "committed")
    /\ work[r] = "committed" => req[r].commit

(* A server that is told to stop does so, once the Stone has answered the  *)
(* calls of the requests it had begun.                                     *)
ShutdownEnds == (pc[Shutdown] # "idle") ~> (server = "exited")

=============================================================================
