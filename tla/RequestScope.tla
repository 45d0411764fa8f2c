---------------------------- MODULE RequestScope ----------------------------
(***************************************************************************)
(* The request scope of src/scope.ts as its users drive it: the web        *)
(* framework adapters of src/adapters, withSessionScope, and applications  *)
(* that hold a scope themselves ("direct").  An application has one kind   *)
(* of them; its requests share one pool, of which only the contract of     *)
(* module Leases is used.  Every await (of the pool, the handler, commit,  *)
(* abort, release) is a point at which other requests run, and in Express  *)
(* also this request's own handler.                                        *)
(***************************************************************************)
EXTENDS Integers, FiniteSets

CONSTANTS
  Requests,
  Sessions,   \* identities of sessions: of the pool, or connected for one scope
  MaxSize,    \* sessions of the pool
  Adapters,   \* who drives the scopes, among Drivers
  Policies,   \* transactionPolicy, among "commitOnSuccess", "abortOnExit", "manual"
  Providers,  \* where sessions come from: "pool", or "own" (sessionFactory, sessionConfig)
  Faults,     \* which of "acquire", "commit", "abort", "logout" may fail
  None

Drivers == {"express", "fastify", "fetch", "hono", "withSessionScope", "direct"}

ASSUME ParametersAssumption ==
  /\ MaxSize \in Nat \ {0}
  /\ Adapters \subseteq Drivers
  /\ Policies \subseteq {"commitOnSuccess", "abortOnExit", "manual"}
  /\ Providers \subseteq {"pool", "own"}
  /\ Faults \subseteq {"acquire", "commit", "abort", "logout"}
  /\ None \notin Sessions

VARIABLES
  setup,     \* the adapter, policy and provider of the application
  pc,        \* how far each request's scope is
  asking,    \* calls of scope.session() that await a session
  session,   \* #session of each scope (and #lease, of a pool)
  fin,       \* the session finalize() has begun to finalize
  verdict,   \* what finalize() was told, "none" until #finalized
  outcome,   \* how the session is to be released, and whether finalize() throws
  answer,    \* what the client of the request is told
  conn,      \* the client's connection, seen by Express only
  using,     \* the sessions a running handler uses, {} when none runs
  out,       \* the sessions each request has from the pool or from connect
  changes,   \* whose uncommitted changes each session's transaction has
  changed,   \* requests that have changed objects
  saved      \* requests whose changes have been committed

scopeVars == <<pc, asking, session, fin, verdict, outcome>>
appVars   == <<answer, conn, using>>
stoneVars == <<out, changes, changed, saved>>
vars      == <<setup, scopeVars, appVars, stoneVars>>

Setups == {u \in [adapter : Adapters, policy : Policies, provider : Providers] :
             u.adapter \notin {"withSessionScope", "direct"} => u.provider = "pool"}

Results  == {"none", "good", "bad"}
Answers  == Results \cup {"early"}   \* success told before finalize() ends
Outcomes == [clean : BOOLEAN, discard : BOOLEAN, throws : BOOLEAN]
Unset    == [clean |-> FALSE, discard |-> FALSE, throws |-> FALSE]

(* Bound: concurrent session() calls on one scope. *)
MaxAsking == 2

TypeOK ==
  /\ setup \in Setups
  /\ pc \in [Requests -> {"new", "open", "committing", "undoing", "aborting",
                          "releasing", "over"}]
  /\ asking \in [Requests -> 0..2]
  /\ session \in [Requests -> Sessions \cup {None}]
  /\ fin \in [Requests -> Sessions \cup {None}]
  /\ verdict \in [Requests -> Results]
  /\ outcome \in [Requests -> Outcomes]
  /\ answer \in [Requests -> Answers]
  /\ conn \in [Requests -> {"open", "finished", "closed"}]
  /\ using \in [Requests -> SUBSET Sessions]
  /\ out \in [Requests -> SUBSET Sessions]
  /\ changes \in [Sessions -> SUBSET Requests]
  /\ changed \subseteq Requests
  /\ saved \subseteq Requests
  /\ \A r \in Requests :
        pc[r] \in {"committing", "undoing", "aborting", "releasing"} =>
          {fin[r], session[r]} \subseteq Sessions

Init ==
  /\ setup \in Setups
  /\ pc = [r \in Requests |-> "new"]
  /\ asking = [r \in Requests |-> 0]
  /\ session = [r \in Requests |-> None]
  /\ fin = [r \in Requests |-> None]
  /\ verdict = [r \in Requests |-> "none"]
  /\ outcome = [r \in Requests |-> Unset]
  /\ answer = [r \in Requests |-> "none"]
  /\ conn = [r \in Requests |-> "open"]
  /\ using = [r \in Requests |-> {}]
  /\ out = [r \in Requests |-> {}]
  /\ changes = [s \in Sessions |-> {}]
  /\ changed = {} /\ saved = {}

-----------------------------------------------------------------------------
(* session()                                                               *)

(* A request arrives: the adapter makes a scope and asks for its session.  *)
Arrive(r) ==
  /\ pc[r] = "new"
  /\ pc' = [pc EXCEPT ![r] = "open"]
  /\ asking' = [asking EXCEPT ![r] = 1]
  /\ UNCHANGED <<setup, session, fin, verdict, outcome, appVars, stoneVars>>

(* Another flow of the application asks the same scope. *)
AskAgain(r) ==
  /\ setup.adapter = "direct" /\ pc[r] = "open"
  /\ session[r] = None /\ asking[r] < MaxAsking
  /\ asking' = [asking EXCEPT ![r] = @ + 1]
  /\ UNCHANGED <<setup, pc, session, fin, verdict, outcome, appVars, stoneVars>>

Taken == UNION {out[r] : r \in Requests}

(* A session is leased, or connected for this scope alone.  It is kept as  *)
(* the scope's even when the scope was finalized, or given one, meanwhile. *)
SessionReady(r) ==
  /\ asking[r] > 0
  /\ setup.provider = "pool" => Cardinality(Taken) < MaxSize
  /\ \E s \in Sessions \ Taken :
        /\ setup.provider = "own" => changes[s] = {}
        /\ session' = [session EXCEPT ![r] = s]
        /\ using' = [using EXCEPT ![r] = @ \cup {s}]
        /\ out' = [out EXCEPT ![r] = @ \cup {s}]
  /\ asking' = [asking EXCEPT ![r] = @ - 1]
  /\ UNCHANGED <<setup, pc, fin, verdict, outcome, answer, conn, changes, changed, saved>>

(* acquire() or connect() rejects: the adapter gives the request up.       *)
SessionFails(r) ==
  /\ asking[r] > 0 /\ "acquire" \in Faults
  /\ asking' = [asking EXCEPT ![r] = @ - 1]
  /\ IF setup.adapter = "direct"
       THEN UNCHANGED <<pc, answer>>
       ELSE /\ pc' = [pc EXCEPT ![r] = "over"]
            /\ answer' = [answer EXCEPT ![r] = "bad"]
  /\ UNCHANGED <<setup, session, fin, verdict, outcome, conn, using, stoneVars>>

-----------------------------------------------------------------------------
(* The handler                                                             *)

Work(r) ==
  /\ \E s \in using[r] : changes' = [changes EXCEPT ![s] = @ \cup {r}]
  /\ changed' = changed \cup {r}
  /\ UNCHANGED <<setup, scopeVars, appVars, out, saved>>

(* Under the manual policy the handler commits or aborts its own work. *)
HandlerSettles(r) ==
  /\ setup.policy = "manual"
  /\ \E s \in using[r] :
        /\ saved' \in {saved, saved \cup changes[s]}
        /\ changes' = [changes EXCEPT ![s] = {}]
  /\ UNCHANGED <<setup, scopeVars, appVars, out, changed>>

-----------------------------------------------------------------------------
(* finalize()                                                              *)

(* Mutant: a failed request is treated like any other. *)
Finalize_IgnoresFailure(r, told) ==
  /\ verdict' = [verdict EXCEPT ![r] = told]
  /\ fin' = [fin EXCEPT ![r] = session[r]]
  /\ pc' = [pc EXCEPT ![r] =
       IF session[r] = None THEN "over"
       ELSE CASE setup.policy = "commitOnSuccess" -> "committing"
              [] setup.policy = "abortOnExit" -> "aborting"
              [] setup.policy = "manual" -> "releasing"]

(* RequestScope.finalize up to the first await of TransactionScope, which  *)
(* keeps the session the scope has now.  told is what requestFailed makes  *)
(* of the error and the response's status.                                 *)
Finalize(r, told) ==
  /\ verdict' = [verdict EXCEPT ![r] = told]
  /\ fin' = [fin EXCEPT ![r] = session[r]]
  /\ pc' = [pc EXCEPT ![r] =
       IF session[r] = None THEN "over"
       ELSE CASE told = "bad" -> "aborting"
              [] told = "good" /\ setup.policy = "commitOnSuccess" -> "committing"
              [] told = "good" /\ setup.policy = "abortOnExit" -> "aborting"
              [] told = "good" /\ setup.policy = "manual" -> "releasing"]

(* What the client is told before finalize() ends, if anything: an error   *)
(* is passed on whatever finalize() does, and so is a Response that a      *)
(* fetch handler throws; Express and Fastify finalize after the response.  *)
Early(r, told) ==
  IF told = "bad" THEN {"bad"}
  ELSE IF setup.adapter \in {"express", "fastify"} THEN {"early"}
  ELSE IF setup.adapter = "fetch" THEN {"early", answer[r]}
  ELSE {answer[r]}

(* The handler is done: by a response or a result, by throwing a Response  *)
(* or an error.                                                            *)
Respond(r) ==
  /\ pc[r] = "open" /\ conn[r] = "open"
  /\ setup.adapter # "direct" => using[r] # {}
  /\ \E told \in {"good", "bad"} :
        /\ Finalize(r, told)
        /\ \E a \in Early(r, told) : answer' = [answer EXCEPT ![r] = a]
  /\ using' = [using EXCEPT ![r] = {}]
  /\ conn' = [conn EXCEPT ![r] = "finished"]
  /\ UNCHANGED <<setup, asking, session, outcome, stoneVars>>

(* Express: the client goes away. The listener that finalizes the scope is *)
(* there once the session is; the handler goes on.                         *)
Disconnect(r) ==
  /\ setup.adapter = "express" /\ conn[r] = "open" /\ pc[r] = "open"
  /\ conn' = [conn EXCEPT ![r] = "closed"]
  /\ IF session[r] = None THEN UNCHANGED <<pc, fin, verdict>> ELSE Finalize(r, "bad")
  /\ UNCHANGED <<setup, asking, session, outcome, answer, using, stoneVars>>

(* ... and ends without a response anybody receives. *)
HandlerEnds(r) ==
  /\ conn[r] = "closed" /\ using[r] # {}
  /\ using' = [using EXCEPT ![r] = {}]
  /\ UNCHANGED <<setup, scopeVars, answer, conn, stoneVars>>

-----------------------------------------------------------------------------
(* TransactionScope                                                        *)

Releasing(r, clean, discard, throws) ==
  /\ pc' = [pc EXCEPT ![r] = "releasing"]
  /\ outcome' = [outcome EXCEPT ![r] =
       [clean |-> clean, discard |-> discard, throws |-> throws]]

(* Mutant: a failed commit is released as it is. *)
CommitDone_NoAbort(r) ==
  /\ pc[r] = "committing"
  /\ \/ /\ saved' = saved \cup changes[fin[r]]
        /\ changes' = [changes EXCEPT ![fin[r]] = {}]
        /\ Releasing(r, TRUE, FALSE, FALSE)
     \/ /\ "commit" \in Faults
        /\ Releasing(r, TRUE, FALSE, TRUE)
        /\ UNCHANGED <<changes, saved>>
  /\ UNCHANGED <<setup, asking, session, fin, verdict, appVars, out, changed>>

CommitDone(r) ==
  /\ pc[r] = "committing"
  /\ \/ /\ saved' = saved \cup changes[fin[r]]
        /\ changes' = [changes EXCEPT ![fin[r]] = {}]
        /\ Releasing(r, TRUE, FALSE, FALSE)
     \/ /\ "commit" \in Faults
        /\ pc' = [pc EXCEPT ![r] = "undoing"]
        /\ UNCHANGED <<outcome, changes, saved>>
  /\ UNCHANGED <<setup, asking, session, fin, verdict, appVars, out, changed>>

(* Mutants: the session is not released when finalize() throws; the        *)
(* failure is not passed on.                                               *)
UndoDone_NoFinally(r) ==
  /\ pc[r] = "undoing"
  /\ pc' = [pc EXCEPT ![r] = "over"]
  /\ answer' = [answer EXCEPT ![r] = "bad"]
  /\ UNCHANGED <<setup, asking, session, fin, verdict, outcome, conn, using, stoneVars>>

UndoDone_Quiet(r) ==
  /\ pc[r] = "undoing"
  /\ \/ /\ changes' = [changes EXCEPT ![fin[r]] = {}]
        /\ Releasing(r, TRUE, FALSE, FALSE)
     \/ /\ "abort" \in Faults
        /\ Releasing(r, FALSE, TRUE, FALSE)
        /\ UNCHANGED changes
  /\ UNCHANGED <<setup, asking, session, fin, verdict, appVars, out, changed, saved>>

(* The abort after a failed commit: finalize() will throw either way. *)
UndoDone(r) ==
  /\ pc[r] = "undoing"
  /\ \/ /\ changes' = [changes EXCEPT ![fin[r]] = {}]
        /\ Releasing(r, TRUE, FALSE, TRUE)
     \/ /\ "abort" \in Faults
        /\ Releasing(r, FALSE, TRUE, TRUE)
        /\ UNCHANGED changes
  /\ UNCHANGED <<setup, asking, session, fin, verdict, appVars, out, changed, saved>>

(* Mutant: the abort's failure is ignored. *)
AbortDone_AlwaysClean(r) ==
  /\ pc[r] = "aborting"
  /\ \/ changes' = [changes EXCEPT ![fin[r]] = {}]
     \/ "abort" \in Faults /\ UNCHANGED changes
  /\ Releasing(r, TRUE, FALSE, FALSE)
  /\ UNCHANGED <<setup, asking, session, fin, verdict, appVars, out, changed, saved>>

(* The abort of a failed request, or of abortOnExit, which throws. *)
AbortDone(r) ==
  /\ pc[r] = "aborting"
  /\ \/ /\ changes' = [changes EXCEPT ![fin[r]] = {}]
        /\ Releasing(r, TRUE, FALSE, FALSE)
     \/ /\ "abort" \in Faults
        /\ Releasing(r, FALSE, TRUE, verdict[r] # "bad")
        /\ UNCHANGED changes
  /\ UNCHANGED <<setup, asking, session, fin, verdict, appVars, out, changed, saved>>

-----------------------------------------------------------------------------
(* #release(): back to the pool, or a logout                               *)

LoggedOut(r) == setup.provider = "own" \/ outcome[r].discard

(* A clean session goes back as it is; the pool aborts any other, and logs *)
(* out one to discard.  After a logout a handler that still runs can do    *)
(* nothing with the session.                                               *)
ReleaseDone(r) ==
  /\ pc[r] = "releasing"
  /\ pc' = [pc EXCEPT ![r] = "over"]
  /\ out' = [out EXCEPT ![r] = @ \ {session[r]}]
  /\ changes' = IF outcome[r].clean /\ ~LoggedOut(r)
                  THEN changes ELSE [changes EXCEPT ![session[r]] = {}]
  /\ using' = IF LoggedOut(r)
                THEN [q \in Requests |-> using[q] \ {session[r]}] ELSE using
  /\ session' = [session EXCEPT ![r] = None]
  /\ answer' = IF answer[r] # "none" THEN answer
               ELSE [answer EXCEPT ![r] = IF outcome[r].throws THEN "bad" ELSE verdict[r]]
  /\ UNCHANGED <<setup, asking, fin, verdict, outcome, conn, changed, saved>>

(* The logout of a session of its own fails: finalize() throws. *)
LogoutFails(r) ==
  /\ pc[r] = "releasing" /\ setup.provider = "own" /\ "logout" \in Faults
  /\ pc' = [pc EXCEPT ![r] = "over"]
  /\ answer' = IF answer[r] # "none" THEN answer ELSE [answer EXCEPT ![r] = "bad"]
  /\ UNCHANGED <<setup, asking, session, fin, verdict, outcome, conn, using, stoneVars>>

-----------------------------------------------------------------------------
RequestStep(r) ==
  \/ Arrive(r) \/ AskAgain(r) \/ SessionReady(r) \/ SessionFails(r)
  \/ Work(r) \/ HandlerSettles(r) \/ Respond(r) \/ Disconnect(r) \/ HandlerEnds(r)
  \/ CommitDone(r) \/ UndoDone(r) \/ AbortDone(r) \/ ReleaseDone(r) \/ LogoutFails(r)

Next == \E r \in Requests : RequestStep(r)

Spec == Init /\ [][Next]_vars

(* The pool and the Stone answer, and handlers end. *)
Fairness ==
  \A r \in Requests :
    /\ WF_vars(CommitDone(r) \/ UndoDone(r) \/ AbortDone(r) \/ ReleaseDone(r) \/ LogoutFails(r))
    /\ WF_vars(Respond(r)) /\ WF_vars(HandlerEnds(r))

FairSpec == Spec /\ Fairness

-----------------------------------------------------------------------------
(* Properties                                                              *)

(* Where changes can be: no two requests have a session in common; a       *)
(* request has the session its scope keeps, and its handler works there    *)
(* until the scope is finalized; only its own changes are there, and none  *)
(* once the session is released as clean.                                  *)
Apart == \A q, r \in Requests : q # r => out[q] \cap out[r] = {}

Orderly(r) ==
  /\ out[r] = {session[r]} \ {None}
  /\ using[r] \subseteq out[r]
  /\ using[r] # {} => pc[r] = "open"
  /\ asking[r] > 0 => pc[r] = "open" /\ asking[r] = 1 /\ session[r] = None
  /\ pc[r] \in {"committing", "undoing", "aborting", "releasing"} => fin[r] = session[r]
  /\ pc[r] \in {"new", "open"} => verdict[r] = "none"
  /\ pc[r] = "new" => asking[r] = 0 /\ session[r] = None
  /\ pc[r] = "committing" => verdict[r] = "good"
  /\ pc[r] \notin {"releasing", "over"} => outcome[r] = Unset

OwnChanges ==
  \A s \in Sessions : \A r \in changes[s] :
    s \in out[r] /\ ~(pc[r] = "releasing" /\ outcome[r].clean)

Confined == Apart /\ (\A r \in Requests : Orderly(r)) /\ OwnChanges

(* Adapters whose handler ends before its scope is finalized, and which    *)
(* ask for the session once.                                               *)
Awaiting == setup.adapter \notin {"express", "direct"}

ConfinedIfAwaited == Awaiting => Confined

(* docs/framework-adapters.md: "failed responses abort".  What a failed    *)
(* request changed is never committed: not by its own scope, and not by    *)
(* another request that is given its session afterwards.                   *)
FailedResponsesAbort ==
  \A r \in saved : setup.policy # "manual" => verdict[r] = "good"

(* ... which the adapters that await their handlers ensure.                *)
FailedStaysOut == Awaiting => FailedResponsesAbort

(* Nor is anything committed before the request that changed it is done:   *)
(* with these adapters a request's changes are committed by its own scope. *)
CommittedByItsOwn ==
  [][\A r \in saved' \ saved :
        Awaiting /\ setup.policy # "manual" => pc[r] = "committing" /\ pc'[r] = "releasing"]_vars

(* "successful responses commit": a client told that its request succeeded *)
(* finds its changes committed; where it is told before the commit, they   *)
(* are, or finalize() throws.                                              *)
SuccessMeansCommitted ==
  \A r \in changed :
    pc[r] = "over" /\ setup.policy = "commitOnSuccess" /\ setup.adapter # "direct" =>
      /\ answer[r] = "good" => r \in saved
      /\ answer[r] = "early" => r \in saved \/ outcome[r].throws

(* README.md, of the scope layer: "lazy session acquisition, ... clean     *)
(* pool release, and owned-session logout".  Every session a scope takes   *)
(* is given back, provided that handlers end and logouts do not fail.      *)
SessionReturned ==
  \A r \in Requests :
    Awaiting /\ out[r] # {} ~> out[r] = {} \/ (setup.provider = "own" /\ pc[r] = "over")

(* Requests of such adapters use the pool as module Leases lets its        *)
(* callers use it, so that what SessionPool promises holds for requests.   *)
Pooled == Awaiting /\ setup.provider = "pool"

Promise == INSTANCE Leases WITH
  Callers <- Requests,
  lease <- [r \in Requests |->
              IF Pooled /\ out[r] # {} THEN CHOOSE s \in out[r] : TRUE ELSE None],
  dirty <- {s \in Sessions : Pooled /\ changes[s] # {}}

LeasesUsedAsPromised == Promise!Spec
=============================================================================
