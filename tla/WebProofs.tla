---------------------------- MODULE WebProofs ----------------------------
(***************************************************************************)
(* Theorems about the two ends of a web application's work with GemStone.  *)
(*                                                                         *)
(* The scope a request runs in (RequestScope), for any number of requests  *)
(* and sessions and every policy, provider and failure: TypeOK is proved   *)
(* for all adapters; that a success means a commit, for all that are       *)
(* adapters, not direct use; that failed requests are never committed, and *)
(* requests only by their own scopes, for adapters whose handlers end      *)
(* before the scope is finalized (Express and direct use are refuted by    *)
(* TLC).                                                                   *)
(*                                                                         *)
(* The page of the explorer (ExplorerPage, PageWindows), for any users,    *)
(* dictionaries, classes, stacks and windows, and any number of loads,     *)
(* selections and runs.                                                    *)
(***************************************************************************)
EXTENDS RequestScope, ExplorerPage, PageWindows, FiniteSetTheorems, SequenceTheorems, TLAPS

Stages == {"new", "open", "committing", "undoing", "aborting", "releasing", "over"}

(* Finalize goes to a stage that exists, and with a session if it goes on. *)
LEMMA FinalizeType ==
  ASSUME TypeOK, NEW r \in Requests, NEW told \in {"good", "bad"}, Finalize(r, told)
  PROVE  /\ pc' \in [Requests -> Stages]
         /\ verdict' \in [Requests -> Results]
         /\ fin' \in [Requests -> Sessions \cup {None}]
         /\ \A q \in Requests \ {r} : pc'[q] = pc[q] /\ fin'[q] = fin[q] /\ verdict'[q] = verdict[q]
         /\ fin'[r] = session[r] /\ verdict'[r] = told
         /\ pc'[r] # "new" /\ pc'[r] # "open"
         /\ pc'[r] = "committing" => told = "good"
         /\ pc'[r] \in {"committing", "undoing", "aborting", "releasing"} =>
              session[r] \in Sessions
<1>1. setup.policy \in {"commitOnSuccess", "abortOnExit", "manual"}
  BY ParametersAssumption DEF TypeOK, Setups
<1> DEFINE next == IF session[r] = None THEN "over"
       ELSE CASE told = "bad" -> "aborting"
              [] told = "good" /\ setup.policy = "commitOnSuccess" -> "committing"
              [] told = "good" /\ setup.policy = "abortOnExit" -> "aborting"
              [] told = "good" /\ setup.policy = "manual" -> "releasing"
<1>2. /\ next \in {"over", "aborting", "committing", "releasing"}
      /\ next = "committing" => told = "good"
      /\ next # "over" => session[r] # None
  BY <1>1
<1>3. pc' = [pc EXCEPT ![r] = next]
  BY DEF Finalize
<1> HIDE DEF next
<1>4. pc'[r] = next /\ pc' \in [Requests -> Stages]
  BY <1>2, <1>3 DEF TypeOK, Stages
<1>5. session[r] \in Sessions \cup {None}
  BY DEF TypeOK
<1>6. /\ verdict' \in [Requests -> Results] /\ verdict'[r] = told
      /\ fin' \in [Requests -> Sessions \cup {None}] /\ fin'[r] = session[r]
  BY <1>5 DEF Finalize, TypeOK, Results
<1>7. \A q \in Requests \ {r} : pc'[q] = pc[q] /\ fin'[q] = fin[q] /\ verdict'[q] = verdict[q]
  BY <1>3 DEF Finalize, TypeOK
<1>8. QED
  BY <1>2, <1>4, <1>5, <1>6, <1>7

(* A scope goes to its release with an outcome. *)
LEMMA ReleasingType ==
  ASSUME TypeOK, NEW r \in Requests, {fin[r], session[r]} \subseteq Sessions,
         NEW clean \in BOOLEAN, NEW discard \in BOOLEAN, NEW throws \in BOOLEAN,
         Releasing(r, clean, discard, throws)
  PROVE  /\ pc' \in [Requests -> Stages]
         /\ outcome' \in [Requests -> Outcomes]
         /\ pc'[r] = "releasing" /\ outcome'[r].clean = clean
         /\ \A q \in Requests \ {r} : pc'[q] = pc[q] /\ outcome'[q] = outcome[q]
<1> DEFINE o == [clean |-> clean, discard |-> discard, throws |-> throws]
<1>1. o \in Outcomes /\ o.clean = clean
  BY DEF Outcomes
<1>2. outcome' = [outcome EXCEPT ![r] = o] /\ pc' = [pc EXCEPT ![r] = "releasing"]
  BY DEF Releasing
<1> HIDE DEF o
<1>3. outcome' \in [Requests -> Outcomes] /\ outcome'[r] = o
  BY <1>1, <1>2 DEF TypeOK
<1>4. pc' \in [Requests -> Stages] /\ pc'[r] = "releasing"
  BY <1>2 DEF TypeOK, Stages
<1>5. QED
  BY <1>1, <1>2, <1>3, <1>4 DEF TypeOK

(* The rest of the step of TransactionScope: what its call did to changes. *)
LEMMA ScopeStepType ==
  ASSUME TypeOK, NEW r \in Requests,
         pc' \in [Requests -> Stages], outcome' \in [Requests -> Outcomes],
         {fin[r], session[r]} \subseteq Sessions,
         \A q \in Requests \ {r} : pc'[q] = pc[q],
         changes' \in {changes, [changes EXCEPT ![fin[r]] = {}]},
         saved' \in {saved, saved \cup changes[fin[r]]},
         UNCHANGED <<setup, asking, session, fin, verdict, appVars, out, changed>>
  PROVE  TypeOK'
<1>1. changes' \in [Sessions -> SUBSET Requests] /\ saved' \subseteq Requests
  BY DEF TypeOK
<1>2. QED
  BY <1>1 DEF TypeOK, Stages, appVars

LEMMA TypeStep == TypeOK /\ [Next]_vars => TypeOK'
<1> SUFFICES ASSUME TypeOK, [Next]_vars PROVE TypeOK'
  OBVIOUS
<1> USE DEF Results, Answers
<1>1. CASE UNCHANGED vars
  BY <1>1 DEF TypeOK, vars, scopeVars, appVars, stoneVars
<1>2. ASSUME NEW r \in Requests, RequestStep(r) PROVE TypeOK'
  <2>1. CASE Arrive(r)
    BY <2>1 DEF Arrive, TypeOK, appVars, stoneVars
  <2>2. CASE AskAgain(r)
    <3>1. asking[r] \in 0..1
      BY <2>2 DEF AskAgain, MaxAsking, TypeOK
    <3>2. QED
      BY <2>2, <3>1 DEF AskAgain, TypeOK, appVars, stoneVars
  <2>3. CASE SessionReady(r)
    <3>1. PICK s \in Sessions : /\ session' = [session EXCEPT ![r] = s]
                               /\ using' = [using EXCEPT ![r] = @ \cup {s}]
                               /\ out' = [out EXCEPT ![r] = @ \cup {s}]
      BY <2>3 DEF SessionReady
    <3>2. asking' \in [Requests -> 0..2]
      BY <2>3 DEF SessionReady, TypeOK
    <3>3. /\ session' \in [Requests -> Sessions \cup {None}]
          /\ using' \in [Requests -> SUBSET Sessions]
          /\ out' \in [Requests -> SUBSET Sessions]
          /\ \A q \in Requests : session[q] \in Sessions => session'[q] \in Sessions
      BY <3>1 DEF TypeOK
    <3>4. QED
      BY <2>3, <3>2, <3>3 DEF SessionReady, TypeOK
  <2>4. CASE SessionFails(r)
    <3>1. asking' \in [Requests -> 0..2]
      BY <2>4 DEF SessionFails, TypeOK
    <3>2. QED
      BY <2>4, <3>1 DEF SessionFails, TypeOK, stoneVars
  <2>5. CASE Work(r)
    BY <2>5 DEF Work, TypeOK, scopeVars, appVars
  <2>6. CASE HandlerSettles(r)
    <3>1. PICK s \in using[r] : /\ saved' \in {saved, saved \cup changes[s]}
                                /\ changes' = [changes EXCEPT ![s] = {}]
      BY <2>6 DEF HandlerSettles
    <3>2. s \in Sessions
      BY <3>1 DEF TypeOK
    <3>3. QED
      BY <2>6, <3>1, <3>2 DEF HandlerSettles, TypeOK, scopeVars, appVars
  <2>7. CASE Respond(r)
    <3>1. PICK told \in {"good", "bad"} :
             /\ Finalize(r, told)
             /\ \E a \in Early(r, told) : answer' = [answer EXCEPT ![r] = a]
      BY <2>7 DEF Respond
    <3>2. answer' \in [Requests -> Answers]
      <4>1. Early(r, told) \subseteq Answers
        BY DEF Early, TypeOK, Answers
      <4>2. QED
        BY <3>1, <4>1 DEF TypeOK
    <3>3. using' \in [Requests -> SUBSET Sessions] /\ conn' \in [Requests -> {"open", "finished", "closed"}]
      BY <2>7 DEF Respond, TypeOK
    <3>4. UNCHANGED <<setup, asking, session, outcome, out, changes, changed, saved>>
      BY <2>7 DEF Respond, stoneVars
    <3>5. QED
      BY <3>1, <3>2, <3>3, <3>4, FinalizeType DEF TypeOK, Stages
  <2>8. CASE Disconnect(r)
    <3>1. UNCHANGED <<setup, asking, session, outcome, answer, using, out, changes, changed, saved>>
      BY <2>8 DEF Disconnect, stoneVars
    <3>2. conn' \in [Requests -> {"open", "finished", "closed"}]
      BY <2>8 DEF Disconnect, TypeOK
    <3>3. CASE UNCHANGED <<pc, fin, verdict>>
      BY <3>1, <3>2, <3>3 DEF TypeOK
    <3>4. CASE Finalize(r, "bad")
      BY <3>1, <3>2, <3>4, FinalizeType DEF TypeOK, Stages
    <3>5. QED
      BY <2>8, <3>3, <3>4 DEF Disconnect
  <2>9. CASE HandlerEnds(r)
    BY <2>9 DEF HandlerEnds, TypeOK, scopeVars, stoneVars
  <2>10. CASE CommitDone(r)
    <3>1. fin[r] \in Sessions /\ session[r] \in Sessions
      BY <2>10 DEF CommitDone, TypeOK
    <3>2. CASE /\ saved' = saved \cup changes[fin[r]]
               /\ changes' = [changes EXCEPT ![fin[r]] = {}]
               /\ Releasing(r, TRUE, FALSE, FALSE)
      BY <2>10, <3>1, <3>2, ReleasingType, ScopeStepType DEF CommitDone
    <3>3. CASE /\ pc' = [pc EXCEPT ![r] = "undoing"]
               /\ UNCHANGED <<outcome, changes, saved>>
      <4>1. /\ pc' \in [Requests -> Stages] /\ outcome' \in [Requests -> Outcomes]
            /\ \A q \in Requests \ {r} : pc'[q] = pc[q]
        BY <3>3 DEF TypeOK, Stages
      <4>2. QED
        BY <2>10, <3>1, <3>3, <4>1, ScopeStepType DEF CommitDone
    <3>4. QED
      BY <2>10, <3>2, <3>3 DEF CommitDone
  <2>11. CASE UndoDone(r)
    <3>1. fin[r] \in Sessions /\ session[r] \in Sessions
      BY <2>11 DEF UndoDone, TypeOK
    <3>2. Releasing(r, TRUE, FALSE, TRUE) \/ Releasing(r, FALSE, TRUE, TRUE)
      BY <2>11 DEF UndoDone
    <3>3. /\ pc' \in [Requests -> Stages] /\ outcome' \in [Requests -> Outcomes]
          /\ \A q \in Requests \ {r} : pc'[q] = pc[q]
      BY <3>1, <3>2, ReleasingType
    <3>4. QED
      BY <2>11, <3>1, <3>3, ScopeStepType DEF UndoDone
  <2>12. CASE AbortDone(r)
    <3>1. fin[r] \in Sessions /\ session[r] \in Sessions
      BY <2>12 DEF AbortDone, TypeOK
    <3>2. \/ Releasing(r, TRUE, FALSE, FALSE)
          \/ Releasing(r, FALSE, TRUE, verdict[r] # "bad")
      BY <2>12 DEF AbortDone
    <3>3. /\ pc' \in [Requests -> Stages] /\ outcome' \in [Requests -> Outcomes]
          /\ \A q \in Requests \ {r} : pc'[q] = pc[q]
      <4>1. (verdict[r] # "bad") \in BOOLEAN
        OBVIOUS
      <4>2. QED
        BY <3>1, <3>2, <4>1, ReleasingType
    <3>4. QED
      BY <2>12, <3>1, <3>3, ScopeStepType DEF AbortDone
  <2>13. CASE ReleaseDone(r)
    <3>1. fin[r] \in Sessions /\ session[r] \in Sessions
      BY <2>13 DEF ReleaseDone, TypeOK
    <3>2. using' \in [Requests -> SUBSET Sessions]
      BY <2>13 DEF ReleaseDone, TypeOK
    <3>3. answer' \in [Requests -> Answers]
      BY <2>13 DEF ReleaseDone, TypeOK
    <3>4. changes' \in [Sessions -> SUBSET Requests]
      BY <2>13 DEF ReleaseDone, TypeOK
    <3>5. /\ out' \in [Requests -> SUBSET Sessions]
          /\ session' \in [Requests -> Sessions \cup {None}]
          /\ pc' = [pc EXCEPT ![r] = "over"]
          /\ \A q \in Requests : q # r => session'[q] = session[q]
      BY <2>13 DEF ReleaseDone, TypeOK
    <3>6. QED
      BY <2>13, <3>2, <3>3, <3>4, <3>5 DEF ReleaseDone, TypeOK
  <2>14. CASE LogoutFails(r)
    <3>1. answer' \in [Requests -> Answers]
      BY <2>14 DEF LogoutFails, TypeOK
    <3>2. QED
      BY <2>14, <3>1 DEF LogoutFails, TypeOK, stoneVars
  <2>15. QED
    BY <1>2, <2>1, <2>2, <2>3, <2>4, <2>5, <2>6, <2>7, <2>8, <2>9, <2>10, <2>11, <2>12,
       <2>13, <2>14 DEF RequestStep
<1>3. QED
  BY <1>1, <1>2 DEF Next

(* Every variable has its type, and a scope being finalized has the        *)
(* session it is to finalize (src/scope.ts, RequestScope.finalize).        *)
THEOREM ScopeTypeOK == Spec => []TypeOK
<1>1. Init => TypeOK
  BY DEF Init, TypeOK, Results, Answers, Outcomes, Unset
<1>2. QED
  BY <1>1, TypeStep, PTL DEF Spec

-----------------------------------------------------------------------------
(* Changes stay with the request that made them                            *)

LEMMA ConfinedStep ==
  ASSUME Awaiting, TypeOK, Confined, [Next]_vars
  PROVE  Confined'
<1>0. None \notin Sessions
  BY ParametersAssumption
<1>1. CASE UNCHANGED vars
  BY <1>1 DEF Confined, Apart, Orderly, OwnChanges, vars, scopeVars, appVars, stoneVars
<1>2. ASSUME NEW r \in Requests, RequestStep(r) PROVE Confined'
  <2> setup.adapter \notin {"express", "direct"}
    BY DEF Awaiting
  <2> Orderly(r) /\ Apart /\ OwnChanges /\ (\A q \in Requests : Orderly(q))
    BY DEF Confined
  <2>1. CASE Arrive(r)
    <3>1. Orderly(r)'
      BY <2>1 DEF Arrive, Orderly, TypeOK, appVars, stoneVars
    <3>2. \A q \in Requests \ {r} : Orderly(q)'
      BY <2>1 DEF Arrive, Orderly, TypeOK, appVars, stoneVars
    <3>3. Apart' /\ OwnChanges'
      BY <2>1 DEF Arrive, Apart, OwnChanges, TypeOK, stoneVars
    <3>4. QED
      BY <3>1, <3>2, <3>3 DEF Confined
  <2>2. CASE AskAgain(r)
    BY <2>2 DEF AskAgain
  <2>3. CASE SessionReady(r)
    <3>1. PICK s \in Sessions \ Taken : /\ session' = [session EXCEPT ![r] = s]
                                        /\ using' = [using EXCEPT ![r] = @ \cup {s}]
                                        /\ out' = [out EXCEPT ![r] = @ \cup {s}]
      BY <2>3 DEF SessionReady
    <3>2. \A q \in Requests : s \notin out[q]
      BY DEF Taken
    <3>3. /\ asking[r] = 1 /\ session[r] = None /\ pc[r] = "open" /\ out[r] = {} /\ using[r] = {}
          /\ asking' = [asking EXCEPT ![r] = @ - 1]
          /\ UNCHANGED <<pc, fin, verdict, outcome, changes>>
      BY <2>3 DEF SessionReady, Orderly
    <3>4. Orderly(r)'
      BY <1>0, <3>1, <3>3 DEF Orderly, TypeOK
    <3>5. \A q \in Requests \ {r} : Orderly(q)'
      BY <3>1, <3>3 DEF Orderly, TypeOK
    <3>6. Apart'
      BY <3>1, <3>2 DEF Apart, TypeOK
    <3>7. OwnChanges'
      BY <3>1, <3>3 DEF OwnChanges, TypeOK
    <3>8. QED
      BY <3>4, <3>5, <3>6, <3>7 DEF Confined
  <2>4. CASE SessionFails(r)
    <3>1. /\ asking' = [asking EXCEPT ![r] = @ - 1] /\ asking[r] > 0
          /\ pc' = [pc EXCEPT ![r] = "over"]
          /\ UNCHANGED <<session, fin, verdict, outcome, using, out, changes>>
      BY <2>4 DEF SessionFails, stoneVars
    <3>2. Orderly(r)'
      BY <3>1 DEF Orderly, TypeOK
    <3>3. \A q \in Requests \ {r} : Orderly(q)'
      BY <3>1 DEF Orderly, TypeOK
    <3>4. Apart' /\ OwnChanges'
      BY <3>1 DEF Apart, OwnChanges, TypeOK
    <3>5. QED
      BY <3>2, <3>3, <3>4 DEF Confined
  <2>5. CASE Work(r)
    <3>1. PICK s \in using[r] : changes' = [changes EXCEPT ![s] = @ \cup {r}]
      BY <2>5 DEF Work
    <3>2. UNCHANGED <<pc, asking, session, fin, verdict, outcome, using, out>>
      BY <2>5 DEF Work, scopeVars, appVars
    <3>3. s \in out[r] /\ pc[r] = "open" /\ s \in Sessions
      BY DEF Orderly, TypeOK
    <3>4. OwnChanges'
      BY <3>1, <3>2, <3>3 DEF OwnChanges, TypeOK
    <3>5. QED
      BY <3>2, <3>4 DEF Confined, Apart, Orderly
  <2>6. CASE HandlerSettles(r)
    <3>1. UNCHANGED <<pc, asking, session, fin, verdict, outcome, using, out>>
      BY <2>6 DEF HandlerSettles, scopeVars, appVars
    <3>2. \A s \in Sessions : changes'[s] \subseteq changes[s]
      BY <2>6 DEF HandlerSettles, TypeOK
    <3>3. OwnChanges'
      BY <3>1, <3>2 DEF OwnChanges, TypeOK
    <3>4. QED
      BY <3>1, <3>3 DEF Confined, Apart, Orderly
  <2>7. CASE Respond(r)
    <3>1. PICK told \in {"good", "bad"} : Finalize(r, told)
      BY <2>7 DEF Respond
    <3>2. /\ pc[r] = "open" /\ using[r] # {}
          /\ using' = [using EXCEPT ![r] = {}]
          /\ UNCHANGED <<asking, session, outcome, out, changes>>
      BY <2>7 DEF Respond, stoneVars
    <3>3. asking[r] = 0 /\ session[r] # None
      BY <3>2 DEF Orderly, TypeOK
    <3>4. Orderly(r)'
      BY <3>1, <3>2, <3>3, FinalizeType DEF Orderly, TypeOK
    <3>5. \A q \in Requests \ {r} : Orderly(q)'
      BY <3>1, <3>2, FinalizeType DEF Orderly, TypeOK
    <3>6. OwnChanges'
      <4>1. ~outcome[r].clean
        BY <3>2 DEF Orderly, Unset
      <4>2. QED
        BY <3>1, <3>2, <4>1, FinalizeType DEF OwnChanges, TypeOK
    <3>7. QED
      BY <3>2, <3>4, <3>5, <3>6 DEF Confined, Apart
  <2>8. CASE Disconnect(r)
    BY <2>8 DEF Disconnect
  <2>9. CASE HandlerEnds(r)
    BY <2>9 DEF HandlerEnds, Confined, Apart, Orderly, OwnChanges, TypeOK, scopeVars, stoneVars
  <2>10. ASSUME CommitDone(r) \/ UndoDone(r) \/ AbortDone(r) PROVE Confined'
    <3>1. /\ pc[r] \in {"committing", "undoing", "aborting"}
          /\ {fin[r], session[r]} \subseteq Sessions
          /\ UNCHANGED <<asking, session, fin, verdict, using, out>>
      BY <2>10 DEF CommitDone, UndoDone, AbortDone, TypeOK, appVars
    <3>2. /\ fin[r] = session[r] /\ out[r] = {fin[r]} /\ using[r] = {} /\ asking[r] = 0
          /\ outcome[r] = Unset /\ ~Unset.clean
      BY <1>0, <3>1 DEF Orderly, TypeOK, Unset
    <3>3. \/ /\ pc' = [pc EXCEPT ![r] = "undoing"]
             /\ UNCHANGED <<outcome, changes>>
          \/ \E throws \in BOOLEAN : /\ changes' = [changes EXCEPT ![fin[r]] = {}]
                                     /\ Releasing(r, TRUE, FALSE, throws)
          \/ \E throws \in BOOLEAN : /\ changes' = changes
                                     /\ Releasing(r, FALSE, TRUE, throws)
      <4>1. (verdict[r] # "bad") \in BOOLEAN
        OBVIOUS
      <4>2. CASE CommitDone(r)
        BY <4>2 DEF CommitDone
      <4>3. CASE UndoDone(r)
        BY <4>3 DEF UndoDone
      <4>4. CASE AbortDone(r)
        BY <4>1, <4>4 DEF AbortDone
      <4>5. QED
        BY <2>10, <4>2, <4>3, <4>4
    <3>4. /\ pc'[r] \in {"undoing", "releasing"}
          /\ pc'[r] = "undoing" => outcome'[r] = Unset
          /\ pc'[r] = "releasing" /\ outcome'[r].clean => changes' = [changes EXCEPT ![fin[r]] = {}]
          /\ \A q \in Requests \ {r} : pc'[q] = pc[q] /\ outcome'[q] = outcome[q]
          /\ changes' \in {changes, [changes EXCEPT ![fin[r]] = {}]}
      <4>1. CASE /\ pc' = [pc EXCEPT ![r] = "undoing"]
                 /\ UNCHANGED <<outcome, changes>>
        BY <3>2, <4>1 DEF TypeOK
      <4>2. ASSUME NEW throws \in BOOLEAN, changes' = [changes EXCEPT ![fin[r]] = {}],
                   Releasing(r, TRUE, FALSE, throws)
            PROVE  <3>4!:
        BY <3>1, <4>2, ReleasingType
      <4>3. ASSUME NEW throws \in BOOLEAN, changes' = changes,
                   Releasing(r, FALSE, TRUE, throws)
            PROVE  <3>4!:
        BY <3>1, <4>3, ReleasingType
      <4>4. QED
        BY <3>3, <4>1, <4>2, <4>3
    <3>5. Orderly(r)'
      BY <3>1, <3>2, <3>4 DEF Orderly
    <3>6. \A q \in Requests \ {r} : Orderly(q)'
      BY <3>1, <3>4 DEF Orderly
    <3>7. OwnChanges'
      <4>1. SUFFICES ASSUME NEW s \in Sessions, NEW q \in changes'[s]
                     PROVE  s \in out[q] /\ ~(pc'[q] = "releasing" /\ outcome'[q].clean)
        BY <3>1 DEF OwnChanges
      <4>2. q \in changes[s] /\ q \in Requests
        BY <3>1, <3>4 DEF TypeOK
      <4>3. s \in out[q] /\ ~(pc[q] = "releasing" /\ outcome[q].clean)
        BY <4>2 DEF OwnChanges
      <4>4. CASE q # r
        BY <3>4, <4>2, <4>3, <4>4
      <4>5. CASE q = r
        <5>1. s = fin[r]
          BY <3>2, <4>3, <4>5
        <5>2. changes' # [changes EXCEPT ![fin[r]] = {}]
          BY <5>1, <4>1 DEF TypeOK
        <5>3. QED
          BY <3>4, <4>3, <4>5, <5>2
      <4>6. QED
        BY <4>4, <4>5
    <3>8. QED
      BY <3>1, <3>5, <3>6, <3>7 DEF Confined, Apart
  <2>11. CASE ReleaseDone(r)
    <3>1. /\ pc[r] = "releasing" /\ {fin[r], session[r]} \subseteq Sessions
          /\ pc' = [pc EXCEPT ![r] = "over"]
          /\ out' = [out EXCEPT ![r] = @ \ {session[r]}]
          /\ session' = [session EXCEPT ![r] = None]
          /\ UNCHANGED <<asking, fin, verdict, outcome>>
      BY <2>11 DEF ReleaseDone, TypeOK
    <3>2. out[r] = {session[r]} /\ using[r] = {} /\ asking[r] = 0
      BY <1>0, <3>1 DEF Orderly, TypeOK
    <3>3. \A q \in Requests : using'[q] \subseteq using[q]
      BY <2>11 DEF ReleaseDone, TypeOK
    <3>4. Orderly(r)'
      BY <3>1, <3>2, <3>3 DEF Orderly, TypeOK
    <3>5. \A q \in Requests \ {r} : Orderly(q)'
      BY <3>1, <3>3 DEF Orderly, TypeOK
    <3>6. Apart'
      BY <3>1 DEF Apart, TypeOK
    <3>7. OwnChanges'
      <4>1. SUFFICES ASSUME NEW s \in Sessions, NEW q \in changes'[s]
                     PROVE  s \in out'[q] /\ ~(pc'[q] = "releasing" /\ outcome'[q].clean)
        BY DEF OwnChanges
      <4>2. \/ changes' = changes /\ outcome[r].clean
            \/ changes' = [changes EXCEPT ![session[r]] = {}]
        BY <2>11 DEF ReleaseDone
      <4>3. q \in changes[s] /\ q \in Requests
        BY <4>1, <4>2, <3>1 DEF TypeOK
      <4>4. s \in out[q] /\ ~(pc[q] = "releasing" /\ outcome[q].clean)
        BY <4>3 DEF OwnChanges
      <4>5. q # r
        <5>1. SUFFICES ASSUME q = r PROVE FALSE
          OBVIOUS
        <5>2. s = session[r] /\ ~outcome[r].clean
          BY <3>1, <3>2, <4>4, <5>1
        <5>3. QED
          BY <4>1, <4>2, <5>2 DEF TypeOK
      <4>6. QED
        BY <3>1, <4>3, <4>4, <4>5 DEF TypeOK
    <3>8. QED
      BY <3>4, <3>5, <3>6, <3>7 DEF Confined
  <2>12. CASE LogoutFails(r)
    <3>1. /\ pc[r] = "releasing" /\ pc' = [pc EXCEPT ![r] = "over"]
          /\ UNCHANGED <<asking, session, fin, verdict, outcome, using, out, changes>>
      BY <2>12 DEF LogoutFails, stoneVars
    <3>2. \A q \in Requests : Orderly(q)'
      BY <3>1 DEF Orderly, TypeOK
    <3>3. Apart' /\ OwnChanges'
      BY <3>1 DEF Apart, OwnChanges, TypeOK
    <3>4. QED
      BY <3>2, <3>3 DEF Confined
  <2>15. QED
    BY <1>2, <2>1, <2>2, <2>3, <2>4, <2>5, <2>6, <2>7, <2>8, <2>9, <2>10, <2>11, <2>12
       DEF RequestStep
<1>3. QED
  BY <1>1, <1>2 DEF Next

(* What a step commits: under an automatic policy, only the changes of the *)
(* request whose commit it is.                                             *)
LEMMA CommitStep ==
  ASSUME Awaiting, TypeOK, Confined, [Next]_vars,
         NEW r \in saved', r \notin saved, setup.policy # "manual"
  PROVE  r \in Requests /\ pc[r] = "committing" /\ pc'[r] = "releasing"
<1>1. CASE UNCHANGED vars
  BY <1>1 DEF vars, stoneVars
<1>2. ASSUME NEW q \in Requests, RequestStep(q)
      PROVE  r \in Requests /\ pc[r] = "committing" /\ pc'[r] = "releasing"
  <2>1. CASE HandlerSettles(q)
    <3>1. PICK s \in using[q] : r \in changes[s]
      BY <2>1 DEF HandlerSettles
    <3>2. s \in Sessions /\ s \in out[q] /\ r \in Requests
      BY <3>1 DEF TypeOK, Confined, Orderly
    <3>3. s \in out[r]
      BY <3>1, <3>2 DEF Confined, OwnChanges
    <3>4. r = q
      BY <3>2, <3>3 DEF Confined, Apart
    <3>5. QED
      BY <2>1, <3>4 DEF HandlerSettles
  <2>2. CASE CommitDone(q)
    <3>1. r \in changes[fin[q]] /\ pc[q] = "committing" /\ Releasing(q, TRUE, FALSE, FALSE)
      BY <2>2 DEF CommitDone
    <3>2. fin[q] \in Sessions /\ session[q] \in Sessions /\ r \in Requests
      BY <3>1 DEF TypeOK
    <3>3. fin[q] \in out[q] /\ fin[q] \in out[r]
      BY <3>1, <3>2, ParametersAssumption DEF Confined, OwnChanges, Orderly
    <3>4. r = q
      BY <3>2, <3>3 DEF Confined, Apart
    <3>5. QED
      BY <3>1, <3>2, <3>4 DEF Releasing, TypeOK
  <2>3. CASE ~HandlerSettles(q) /\ ~CommitDone(q)
    <3>1. saved' = saved
      BY <1>2, <2>3 DEF RequestStep, stoneVars, Arrive, AskAgain, SessionReady, SessionFails,
         Work, Respond, Disconnect, HandlerEnds, UndoDone, AbortDone, ReleaseDone, LogoutFails
    <3>2. QED
      BY <3>1
  <2>4. QED
    BY <2>1, <2>2, <2>3
<1>3. QED
  BY <1>1, <1>2 DEF Next

(* A request that has been told its verdict keeps it. *)
LEMMA VerdictKept ==
  ASSUME Awaiting, TypeOK, Confined, [Next]_vars, NEW r \in Requests, verdict[r] # "none"
  PROVE  verdict'[r] = verdict[r]
<1>1. CASE UNCHANGED vars
  BY <1>1 DEF vars, scopeVars
<1>2. ASSUME NEW q \in Requests, RequestStep(q) PROVE verdict'[r] = verdict[r]
  <2>1. setup.adapter \notin {"express", "direct"}
    BY DEF Awaiting
  <2>2. CASE Respond(q)
    <3>1. PICK told \in {"good", "bad"} : Finalize(q, told)
      BY <2>2 DEF Respond
    <3>2. pc[q] = "open" /\ q # r
      BY <2>2 DEF Respond, Confined, Orderly
    <3>3. QED
      BY <3>1, <3>2, FinalizeType
  <2>3. CASE ~Respond(q)
    BY <1>2, <2>1, <2>3 DEF RequestStep, scopeVars, Arrive, AskAgain, SessionReady,
       SessionFails, Work, HandlerSettles, Disconnect, HandlerEnds, CommitDone, UndoDone,
       AbortDone, ReleaseDone, LogoutFails
  <2>4. QED
    BY <2>2, <2>3
<1>3. QED
  BY <1>1, <1>2 DEF Next

LEMMA SetupKept == ASSUME [Next]_vars PROVE setup' = setup
BY DEF Next, RequestStep, vars, Arrive, AskAgain, SessionReady, SessionFails, Work,
   HandlerSettles, Respond, Disconnect, HandlerEnds, CommitDone, UndoDone, AbortDone,
   ReleaseDone, LogoutFails

LEMMA AwaitingKept == ASSUME [Next]_vars PROVE Awaiting' <=> Awaiting
BY SetupKept DEF Awaiting

(* Where changes can be, in applications whose adapter awaits its handler. *)
THEOREM ScopeConfined == Spec => []ConfinedIfAwaited
<1>1. Init => ConfinedIfAwaited
  BY DEF Init, ConfinedIfAwaited, Confined, Apart, Orderly, OwnChanges, Unset
<1>2. TypeOK /\ ConfinedIfAwaited /\ [Next]_vars => ConfinedIfAwaited'
  BY ConfinedStep, AwaitingKept DEF ConfinedIfAwaited
<1>3. QED
  BY <1>1, <1>2, ScopeTypeOK, PTL DEF Spec

LEMMA FailedStep ==
  ASSUME Awaiting, TypeOK, Confined, FailedResponsesAbort, [Next]_vars
  PROVE  FailedResponsesAbort'
<1>1. ASSUME NEW r \in saved', setup'.policy # "manual" PROVE verdict'[r] = "good"
  <2>1. setup' = setup
    BY SetupKept
  <2>2. CASE r \in saved
    <3>1. verdict[r] = "good" /\ r \in Requests
      BY <1>1, <2>1, <2>2 DEF FailedResponsesAbort, TypeOK
    <3>2. QED
      BY <3>1, VerdictKept
  <2>3. CASE r \notin saved
    <3>1. r \in Requests /\ pc[r] = "committing"
      BY <1>1, <2>1, <2>3, CommitStep
    <3>2. verdict[r] = "good"
      BY <3>1 DEF Confined, Orderly
    <3>3. QED
      BY <3>1, <3>2, VerdictKept
  <2>4. QED
    BY <2>2, <2>3
<1>2. QED
  BY <1>1 DEF FailedResponsesAbort

(* docs/framework-adapters.md: "failed responses abort".  With adapters    *)
(* that await their handlers, what a failed request changed is never       *)
(* committed, by its own scope or by a later user of its session.          *)
THEOREM ScopeFailedStaysOut == Spec => []FailedStaysOut
<1>1. Init => FailedStaysOut
  BY DEF Init, FailedStaysOut, FailedResponsesAbort
<1>2. TypeOK /\ ConfinedIfAwaited /\ FailedStaysOut /\ [Next]_vars => FailedStaysOut'
  BY FailedStep, AwaitingKept DEF ConfinedIfAwaited, FailedStaysOut
<1>3. QED
  BY <1>1, <1>2, ScopeConfined, ScopeTypeOK, PTL DEF Spec

(* With these adapters and an automatic policy a request's changes are     *)
(* committed by its own scope's commit and by nothing else.                *)
THEOREM ScopeCommittedByItsOwn == Spec => CommittedByItsOwn
<1>1. TypeOK /\ ConfinedIfAwaited /\ [Next]_vars =>
        [\A r \in saved' \ saved :
           Awaiting /\ setup.policy # "manual" =>
             pc[r] = "committing" /\ pc'[r] = "releasing"]_vars
  BY CommitStep DEF ConfinedIfAwaited
<1>2. QED
  BY <1>1, ScopeConfined, ScopeTypeOK, PTL DEF Spec, CommittedByItsOwn

-----------------------------------------------------------------------------
(* A success is told of what is committed                                  *)

Committing == setup.adapter # "direct" /\ setup.policy = "commitOnSuccess"

(* The session of a request, and its handler's while its client is there.  *)
Attached(r) ==
  /\ out[r] = {session[r]} \ {None}
  /\ asking[r] > 0 => pc[r] = "open" /\ asking[r] = 1 /\ session[r] = None
  /\ pc[r] = "new" =>
       asking[r] = 0 /\ session[r] = None /\ conn[r] = "open" /\ r \notin changed
  /\ pc[r] \in {"committing", "undoing", "aborting", "releasing"} => fin[r] = session[r]
  /\ conn[r] # "closed" => using[r] \subseteq out[r]
  /\ conn[r] # "closed" /\ using[r] # {} => pc[r] = "open"
  /\ conn[r] # "closed" /\ pc[r] = "open" /\ r \in changed => session[r] # None

(* Where the changes of a request are until they are saved, and what the   *)
(* client may have been told by then.                                      *)
Remembered(r) ==
  /\ pc[r] \in {"new", "open"} => answer[r] = "none" /\ verdict[r] = "none"
  /\ pc[r] \in {"committing", "undoing"} => verdict[r] = "good"
  /\ pc[r] = "aborting" => verdict[r] = "bad"
  /\ answer[r] \in {"good", "early"} => verdict[r] = "good"
  /\ answer[r] = "good" => pc[r] = "over" /\ ~outcome[r].throws
  /\ conn[r] = "closed" => verdict[r] # "good"
  /\ conn[r] # "closed" /\ pc[r] = "open" /\ r \in changed =>
       r \in saved \cup changes[session[r]]
  /\ verdict[r] = "good" /\ r \in changed \ saved =>
       \/ pc[r] = "committing" /\ r \in changes[session[r]]
       \/ pc[r] = "undoing"
       \/ pc[r] \in {"releasing", "over"} /\ outcome[r].throws

Kept == Committing => Apart /\ \A r \in Requests : Attached(r) /\ Remembered(r)

(* A step of another request, which has other sessions. *)
LEMMA OtherKept ==
  ASSUME TypeOK, NEW r \in Requests, Attached(r), Remembered(r),
         UNCHANGED <<pc[r], asking[r], session[r], fin[r], verdict[r], outcome[r], answer[r],
                     conn[r], out[r]>>,
         using'[r] \subseteq using[r],
         r \in changed' <=> r \in changed, r \in saved => r \in saved',
         \A s \in out[r] : r \in changes[s] => r \in changes'[s]
  PROVE  Attached(r)' /\ Remembered(r)'
<1>1. Attached(r)'
  BY DEF Attached
<1>2. session[r] # None /\ r \in changes[session[r]] => r \in changes'[session[r]]
  BY DEF Attached
<1>3. pc[r] = "committing" => session[r] # None
  BY ParametersAssumption DEF TypeOK
<1>4. conn[r] # "closed" /\ pc[r] = "open" /\ r \in changed => session[r] # None
  BY DEF Attached
<1>5. Remembered(r)'
  BY <1>2, <1>3, <1>4 DEF Remembered
<1>6. QED
  BY <1>1, <1>5

(* Sessions that a request's step may clear are its own. *)
LEMMA OthersChanges ==
  ASSUME TypeOK, Apart, NEW q \in Requests, NEW s \in out[q],
         changes' \in {changes, [changes EXCEPT ![s] = {}]},
         NEW r \in Requests \ {q}
  PROVE  \A t \in out[r] : r \in changes[t] => r \in changes'[t]
BY DEF Apart, TypeOK

LEMMA KeptStep ==
  ASSUME Committing, TypeOK, TypeOK', Apart,
         \A r \in Requests : Attached(r) /\ Remembered(r), [Next]_vars
  PROVE  Apart' /\ \A r \in Requests : Attached(r)' /\ Remembered(r)'
<1> DEFINE Goal == Apart' /\ \A r \in Requests : Attached(r)' /\ Remembered(r)'
<1>0. None \notin Sessions /\ setup.adapter # "direct" /\ setup.policy = "commitOnSuccess"
  BY ParametersAssumption DEF Committing
<1>1. CASE UNCHANGED vars
  BY <1>1 DEF Apart, Attached, Remembered, vars, scopeVars, appVars, stoneVars
<1>2. ASSUME NEW q \in Requests, RequestStep(q) PROVE Goal
  <2>0. Attached(q) /\ Remembered(q)
    OBVIOUS
  <2> DEFINE Other(r) ==
        /\ UNCHANGED <<pc[r], asking[r], session[r], fin[r], verdict[r], outcome[r],
                       answer[r], conn[r], out[r]>>
        /\ using'[r] \subseteq using[r]
        /\ r \in changed' <=> r \in changed
        /\ r \in saved => r \in saved'
        /\ \A s \in out[r] : r \in changes[s] => r \in changes'[s]
  <2>a. SUFFICES Apart' /\ (\A r \in Requests \ {q} : Other(r)) /\ Attached(q)' /\ Remembered(q)'
    <3>1. ASSUME NEW r \in Requests \ {q}, Other(r) PROVE Attached(r)' /\ Remembered(r)'
      BY <3>1, OtherKept
    <3>2. QED
      BY <3>1
  <2> HIDE DEF Goal
  <2>1. CASE Arrive(q)
    <3>1. /\ pc[q] = "new" /\ pc' = [pc EXCEPT ![q] = "open"]
          /\ asking' = [asking EXCEPT ![q] = 1]
          /\ UNCHANGED <<session, fin, verdict, outcome, answer, conn, using, out, changes,
                         changed, saved>>
      BY <2>1 DEF Arrive, appVars, stoneVars
    <3>2. Apart' /\ \A r \in Requests \ {q} : Other(r)
      BY <3>1 DEF Apart, TypeOK
    <3>3. pc'[q] = "open" /\ asking'[q] = 1
      BY <3>1 DEF TypeOK
    <3>4. QED
      BY <2>0, <3>1, <3>2, <3>3 DEF Attached, Remembered
  <2>2. CASE AskAgain(q)
    BY <1>0, <2>2 DEF AskAgain
  <2>3. CASE SessionReady(q)
    <3>1. PICK s \in Sessions \ Taken : /\ session' = [session EXCEPT ![q] = s]
                                        /\ using' = [using EXCEPT ![q] = @ \cup {s}]
                                        /\ out' = [out EXCEPT ![q] = @ \cup {s}]
      BY <2>3 DEF SessionReady
    <3>2. \A r \in Requests : s \notin out[r]
      BY DEF Taken
    <3>3. /\ asking[q] = 1 /\ session[q] = None /\ pc[q] = "open" /\ out[q] = {}
          /\ asking' = [asking EXCEPT ![q] = @ - 1]
          /\ UNCHANGED <<pc, fin, verdict, outcome, answer, conn, changes, changed, saved>>
      BY <2>0, <2>3 DEF SessionReady, Attached
    <3>4. Apart'
      BY <3>1, <3>2 DEF Apart, TypeOK
    <3>5. \A r \in Requests \ {q} : Other(r)
      BY <3>1, <3>3 DEF TypeOK
    <3>6. /\ asking'[q] = 0 /\ session'[q] = s /\ out'[q] = {s} /\ s # None
          /\ using'[q] = using[q] \cup {s}
      BY <1>0, <3>1, <3>3 DEF TypeOK
    <3>7. Attached(q)'
      BY <2>0, <3>3, <3>6 DEF Attached
    <3>8. ~(conn[q] # "closed" /\ pc[q] = "open" /\ q \in changed)
      BY <2>0, <3>3 DEF Attached
    <3>9. Remembered(q)'
      BY <2>0, <3>3, <3>8 DEF Remembered
    <3>10. QED
      BY <3>4, <3>5, <3>7, <3>9
  <2>4. CASE SessionFails(q)
    <3>1. /\ asking' = [asking EXCEPT ![q] = @ - 1] /\ asking[q] > 0
          /\ pc' = [pc EXCEPT ![q] = "over"]
          /\ answer' = [answer EXCEPT ![q] = "bad"]
          /\ UNCHANGED <<session, fin, verdict, outcome, conn, using, out, changes, changed,
                         saved>>
      BY <1>0, <2>4 DEF SessionFails, stoneVars
    <3>2. /\ pc[q] = "open" /\ asking[q] = 1 /\ session[q] = None /\ out[q] = {}
          /\ pc'[q] = "over" /\ asking'[q] = 0 /\ answer'[q] = "bad"
      BY <2>0, <3>1 DEF Attached, TypeOK
    <3>3. Apart' /\ \A r \in Requests \ {q} : Other(r)
      BY <3>1 DEF Apart, TypeOK
    <3>4. QED
      BY <2>0, <3>1, <3>2, <3>3 DEF Attached, Remembered
  <2>5. CASE Work(q)
    <3>1. PICK s \in using[q] : changes' = [changes EXCEPT ![s] = @ \cup {q}]
      BY <2>5 DEF Work
    <3>2. /\ UNCHANGED <<pc, asking, session, fin, verdict, outcome, answer, conn, using, out,
                         saved>>
          /\ changed' = changed \cup {q} /\ s \in Sessions
      BY <2>5 DEF Work, scopeVars, appVars, TypeOK
    <3>3. Apart' /\ \A r \in Requests \ {q} : Other(r)
      BY <3>1, <3>2 DEF Apart, TypeOK
    <3>4. conn[q] # "closed" => s = session[q] /\ session[q] # None /\ pc[q] = "open"
      BY <2>0 DEF Attached
    <3>5. q \in changes'[s]
      BY <3>1, <3>2 DEF TypeOK
    <3>6. pc[q] # "new"
      BY <2>0 DEF Attached
    <3>7. Attached(q)'
      BY <2>0, <3>2, <3>4, <3>6 DEF Attached
    <3>8. Remembered(q)'
      BY <2>0, <3>2, <3>4, <3>5 DEF Remembered
    <3>9. QED
      BY <3>3, <3>7, <3>8
  <2>6. CASE HandlerSettles(q)
    BY <1>0, <2>6 DEF HandlerSettles
  <2>7. CASE Respond(q)
    <3>1. PICK told \in {"good", "bad"} :
             /\ Finalize(q, told)
             /\ \E a \in Early(q, told) : answer' = [answer EXCEPT ![q] = a]
      BY <2>7 DEF Respond
    <3>2. /\ pc[q] = "open" /\ conn[q] = "open" /\ using[q] # {}
          /\ using' = [using EXCEPT ![q] = {}]
          /\ conn' = [conn EXCEPT ![q] = "finished"]
          /\ UNCHANGED <<asking, session, outcome, out, changes, changed, saved>>
      BY <1>0, <2>7 DEF Respond, stoneVars
    <3>3. asking[q] = 0 /\ session[q] # None
      BY <2>0, <3>2 DEF Attached, TypeOK
    <3>4. /\ pc'[q] = IF told = "bad" THEN "aborting" ELSE "committing"
          /\ fin'[q] = session[q] /\ verdict'[q] = told
      <4>1. pc' = [pc EXCEPT ![q] = IF told = "bad" THEN "aborting" ELSE "committing"]
        BY <1>0, <3>1, <3>3 DEF Finalize
      <4>2. QED
        BY <3>1, <4>1, FinalizeType DEF TypeOK
    <3>5. \A r \in Requests \ {q} : Other(r)
      <4>1. \A r \in Requests \ {q} : pc'[r] = pc[r] /\ fin'[r] = fin[r] /\ verdict'[r] = verdict[r]
        BY <3>1, FinalizeType
      <4>2. \A r \in Requests \ {q} : answer'[r] = answer[r]
        BY <3>1
      <4>3. QED
        BY <3>2, <4>1, <4>2
    <3>6. Apart'
      BY <3>2 DEF Apart
    <3>7. using'[q] = {} /\ conn'[q] = "finished"
      BY <3>2 DEF TypeOK
    <3>8. Attached(q)'
      BY <2>0, <3>2, <3>3, <3>4, <3>7 DEF Attached
    <3>9. answer'[q] \in {"none", "bad", "early"} /\ (told = "bad" => answer'[q] = "bad")
      <4>1. answer[q] = "none"
        BY <2>0, <3>2 DEF Remembered
      <4>2. PICK a \in Early(q, told) : answer' = [answer EXCEPT ![q] = a]
        BY <3>1
      <4>3. a \in {"none", "bad", "early"} /\ (told = "bad" => a = "bad")
        BY <4>1, <4>2 DEF Early
      <4>4. QED
        BY <4>2, <4>3 DEF TypeOK
    <3>10. Remembered(q)'
      BY <2>0, <3>2, <3>3, <3>4, <3>7, <3>9 DEF Remembered
    <3>11. QED
      BY <3>5, <3>6, <3>8, <3>10
  <2>8. CASE Disconnect(q)
    <3>1. /\ conn[q] = "open" /\ pc[q] = "open"
          /\ conn' = [conn EXCEPT ![q] = "closed"]
          /\ UNCHANGED <<asking, session, outcome, answer, using, out, changes, changed, saved>>
      BY <2>8 DEF Disconnect, stoneVars
    <3>2. Apart' /\ conn'[q] = "closed"
      BY <3>1 DEF Apart, TypeOK
    <3>3. CASE session[q] = None
      <4>1. UNCHANGED <<pc, fin, verdict>>
        BY <2>8, <3>3 DEF Disconnect
      <4>2. \A r \in Requests \ {q} : Other(r)
        BY <3>1, <4>1
      <4>3. QED
        BY <2>0, <3>1, <3>2, <4>1, <4>2 DEF Attached, Remembered
    <3>4. CASE session[q] # None
      <4>1. Finalize(q, "bad")
        BY <2>8, <3>4 DEF Disconnect
      <4>2. pc' = [pc EXCEPT ![q] = "aborting"]
        BY <3>4, <4>1 DEF Finalize
      <4>3. /\ pc'[q] = "aborting" /\ fin'[q] = session[q] /\ verdict'[q] = "bad"
            /\ \A r \in Requests \ {q} : pc'[r] = pc[r] /\ fin'[r] = fin[r] /\ verdict'[r] = verdict[r]
        BY <4>1, <4>2, FinalizeType DEF TypeOK
      <4>4. \A r \in Requests \ {q} : Other(r)
        BY <3>1, <4>3
      <4>5. asking[q] = 0
        BY <2>0, <3>4 DEF Attached, TypeOK
      <4>6. QED
        BY <2>0, <3>1, <3>2, <4>3, <4>4, <4>5 DEF Attached, Remembered
    <3>5. QED
      BY <3>3, <3>4
  <2>9. CASE HandlerEnds(q)
    <3>1. /\ conn[q] = "closed" /\ using' = [using EXCEPT ![q] = {}]
          /\ UNCHANGED <<pc, asking, session, fin, verdict, outcome, answer, conn, out, changes,
                         changed, saved>>
      BY <2>9 DEF HandlerEnds, scopeVars, stoneVars
    <3>2. Apart' /\ \A r \in Requests \ {q} : Other(r)
      BY <3>1 DEF Apart
    <3>3. QED
      BY <2>0, <3>1, <3>2 DEF Attached, Remembered
  <2>10. ASSUME CommitDone(q) \/ UndoDone(q) \/ AbortDone(q)
         PROVE  Apart' /\ (\A r \in Requests \ {q} : Other(r)) /\ Attached(q)' /\ Remembered(q)'
    <3>1. /\ pc[q] \in {"committing", "undoing", "aborting"}
          /\ fin[q] \in Sessions
          /\ UNCHANGED <<asking, session, fin, verdict, answer, conn, using, out, changed>>
          /\ changes' \in {changes, [changes EXCEPT ![fin[q]] = {}]}
          /\ saved' \in {saved, saved \cup changes[fin[q]]}
      BY <2>10 DEF CommitDone, UndoDone, AbortDone, TypeOK, appVars
    <3>2. fin[q] = session[q] /\ fin[q] \in out[q]
      BY <1>0, <2>0, <3>1 DEF Attached
    <3>3. \/ /\ pc[q] = "committing" /\ pc' = [pc EXCEPT ![q] = "undoing"] /\ outcome' = outcome
          \/ /\ pc[q] = "committing" /\ Releasing(q, TRUE, FALSE, FALSE)
             /\ saved' = saved \cup changes[fin[q]]
          \/ /\ pc[q] = "undoing"
             /\ Releasing(q, TRUE, FALSE, TRUE) \/ Releasing(q, FALSE, TRUE, TRUE)
          \/ /\ pc[q] = "aborting"
             /\ Releasing(q, TRUE, FALSE, FALSE) \/ Releasing(q, FALSE, TRUE, verdict[q] # "bad")
      BY <2>10 DEF CommitDone, UndoDone, AbortDone
    <3>4. \A r \in Requests \ {q} : pc'[r] = pc[r] /\ outcome'[r] = outcome[r]
      BY <3>3 DEF Releasing, TypeOK
    <3>5. Apart' /\ \A r \in Requests \ {q} : Other(r)
      BY <3>1, <3>2, <3>4, OthersChanges DEF Apart
    <3>6. \/ pc[q] = "committing" /\ pc'[q] = "undoing"
          \/ pc[q] = "committing" /\ pc'[q] = "releasing" /\ saved' = saved \cup changes[fin[q]]
          \/ pc[q] = "undoing" /\ pc'[q] = "releasing" /\ outcome'[q].throws
          \/ pc[q] = "aborting" /\ pc'[q] = "releasing"
      BY <3>3 DEF Releasing, TypeOK
    <3>7. Attached(q)'
      BY <2>0, <3>1, <3>6 DEF Attached
    <3>8. Remembered(q)'
      <4>1. answer[q] # "good" /\ saved \subseteq saved'
        BY <2>0, <3>1 DEF Remembered
      <4>2. QED
        BY <2>0, <3>1, <3>2, <3>6, <4>1 DEF Remembered
    <3>9. QED
      BY <3>5, <3>7, <3>8
  <2>11. CASE ReleaseDone(q)
    <3>1. /\ pc[q] = "releasing" /\ session[q] \in Sessions
          /\ pc' = [pc EXCEPT ![q] = "over"]
          /\ out' = [out EXCEPT ![q] = @ \ {session[q]}]
          /\ session' = [session EXCEPT ![q] = None]
          /\ changes' \in {changes, [changes EXCEPT ![session[q]] = {}]}
          /\ answer' = IF answer[q] # "none" THEN answer
                       ELSE [answer EXCEPT ![q] = IF outcome[q].throws THEN "bad" ELSE verdict[q]]
          /\ UNCHANGED <<asking, fin, verdict, outcome, conn, changed, saved>>
      BY <2>11 DEF ReleaseDone, TypeOK
    <3>2. out[q] = {session[q]}
      BY <1>0, <2>0, <3>1 DEF Attached
    <3>3. \A r \in Requests : using'[r] \subseteq using[r]
      BY <2>11 DEF ReleaseDone, TypeOK
    <3>4. \A r \in Requests \ {q} : Other(r)
      <4>1. \A r \in Requests \ {q} : \A s \in out[r] : r \in changes[s] => r \in changes'[s]
        BY <3>1, <3>2, OthersChanges
      <4>2. QED
        BY <3>1, <3>3, <4>1
    <3>5. Apart'
      BY <3>1 DEF Apart, TypeOK
    <3>6. /\ pc'[q] = "over" /\ out'[q] = {} /\ session'[q] = None
          /\ answer'[q] = IF answer[q] # "none" THEN answer[q]
                          ELSE IF outcome[q].throws THEN "bad" ELSE verdict[q]
      BY <3>1, <3>2 DEF TypeOK
    <3>7. Attached(q)'
      BY <2>0, <3>1, <3>3, <3>6 DEF Attached
    <3>8. Remembered(q)'
      <4>1. verdict[q] \in {"none", "good", "bad"}
        BY DEF TypeOK, Results
      <4>2. QED
        BY <2>0, <3>1, <3>6, <4>1 DEF Remembered
    <3>9. QED
      BY <3>4, <3>5, <3>7, <3>8
  <2>12. CASE LogoutFails(q)
    <3>1. /\ pc[q] = "releasing" /\ pc' = [pc EXCEPT ![q] = "over"]
          /\ answer' = IF answer[q] # "none" THEN answer ELSE [answer EXCEPT ![q] = "bad"]
          /\ UNCHANGED <<asking, session, fin, verdict, outcome, conn, using, out, changes,
                         changed, saved>>
      BY <2>12 DEF LogoutFails, stoneVars
    <3>2. /\ pc'[q] = "over"
          /\ answer'[q] = IF answer[q] # "none" THEN answer[q] ELSE "bad"
      BY <3>1 DEF TypeOK
    <3>3. Apart' /\ \A r \in Requests \ {q} : Other(r)
      BY <3>1 DEF Apart
    <3>4. QED
      BY <2>0, <3>1, <3>2, <3>3 DEF Attached, Remembered
  <2>15. QED
    BY <1>2, <2>1, <2>2, <2>3, <2>4, <2>5, <2>6, <2>7, <2>8, <2>9, <2>10, <2>11, <2>12
       DEF RequestStep
<1>3. QED
  BY <1>1, <1>2 DEF Next

(* "successful responses commit": with any adapter, Express included, a    *)
(* client that has been told of a success and whose changes are not on the *)
(* Stone was told before the commit, and finalize() has thrown.            *)
THEOREM ScopeSuccessMeansCommitted == Spec => []SuccessMeansCommitted
<1>1. Init => Kept
  BY DEF Init, Kept, Apart, Attached, Remembered
<1>2. TypeOK /\ TypeOK' /\ Kept /\ [Next]_vars => Kept'
  <2>1. [Next]_vars => (Committing' <=> Committing)
    BY SetupKept DEF Committing
  <2>2. QED
    BY <2>1, KeptStep DEF Kept
<1>3. TypeOK /\ Kept => SuccessMeansCommitted
  <2>1. SUFFICES ASSUME TypeOK, Kept, NEW r \in changed, pc[r] = "over",
                        setup.policy = "commitOnSuccess", setup.adapter # "direct"
                 PROVE  /\ answer[r] = "good" => r \in saved
                        /\ answer[r] = "early" => r \in saved \/ outcome[r].throws
    BY DEF SuccessMeansCommitted
  <2>2. Remembered(r)
    BY <2>1 DEF Kept, Committing, TypeOK
  <2>3. QED
    BY <2>1, <2>2 DEF Remembered
<1>4. QED
  BY <1>1, <1>2, <1>3, ScopeTypeOK, PTL DEF Spec
-----------------------------------------------------------------------------
(* Scopes use the pool as it promises                                      *)

(* The lease of a request and the sessions with changes of some request,   *)
(* as LeasesUsedAsPromised reads them off the scopes.                      *)
LeaseOf == [r \in Requests |->
              IF Pooled /\ out[r] # {} THEN CHOOSE s \in out[r] : TRUE ELSE None]

Dirty == {s \in Sessions : Pooled /\ changes[s] # {}}

(* Leases counts with its own copy of the operator. *)
LEMMA SameCardinality == \A S : Promise!Cardinality(S) = Cardinality(S)
BY DEF Promise!Cardinality, Cardinality

LEMMA PooledKept == ASSUME [Next]_vars PROVE Pooled' <=> Pooled
BY SetupKept DEF Pooled, Awaiting

(* A request's lease is of the session its scope keeps. *)
LEMMA LeaseIsSession ==
  ASSUME Pooled, TypeOK, Confined
  PROVE  LeaseOf = session /\ Dirty = {s \in Sessions : changes[s] # {}}
<1>1. \A r \in Requests : out[r] = {session[r]} \ {None}
  BY DEF Confined, Orderly
<1>2. ASSUME NEW r \in Requests PROVE LeaseOf[r] = session[r]
  <2>1. CASE session[r] = None
    BY <1>1, <2>1 DEF LeaseOf
  <2>2. CASE session[r] # None
    <3>1. out[r] = {session[r]}
      BY <1>1, <2>2
    <3>2. (CHOOSE s \in out[r] : TRUE) = session[r]
      BY <3>1
    <3>3. QED
      BY <3>1, <3>2 DEF LeaseOf
  <2>3. QED
    BY <2>1, <2>2
<1>3. session = [r \in Requests |-> session[r]] /\ LeaseOf = [r \in Requests |-> LeaseOf[r]]
  BY DEF TypeOK, LeaseOf
<1>4. LeaseOf = session
  BY <1>2, <1>3
<1>5. QED
  BY <1>4 DEF Dirty

LEMMA LeaseIsSessionAfter ==
  (Pooled /\ TypeOK /\ Confined)' =>
    LeaseOf' = session' /\ Dirty' = {s \in Sessions : changes'[s] # {}}
<1>1. Pooled /\ TypeOK /\ Confined =>
        LeaseOf = session /\ Dirty = {s \in Sessions : changes[s] # {}}
  BY LeaseIsSession
<1>2. (Pooled /\ TypeOK /\ Confined =>
        LeaseOf = session /\ Dirty = {s \in Sessions : changes[s] # {}})'
  BY <1>1, PTL
<1>3. QED
  BY <1>2

(* The actions of Leases, said of the scopes' own variables. *)
LEMMA LeaseActions ==
  ASSUME NEW r \in Requests
  PROVE  /\ LeaseOf[r] = None /\ Cardinality({LeaseOf[q] : q \in Requests} \ {None}) < MaxSize
              /\ (\E s \in Sessions \ (({LeaseOf[q] : q \in Requests} \ {None}) \cup Dirty) :
                    LeaseOf' = [LeaseOf EXCEPT ![r] = s])
              /\ Dirty' = Dirty => Promise!Grant(r)
         /\ LeaseOf[r] # None /\ LeaseOf' = LeaseOf /\ Dirty' = Dirty \cup {LeaseOf[r]}
              => Promise!Change(r)
         /\ LeaseOf[r] # None /\ LeaseOf' = LeaseOf /\ Dirty' = Dirty \ {LeaseOf[r]}
              => Promise!Settle(r)
         /\ LeaseOf[r] # None /\ LeaseOf' = [LeaseOf EXCEPT ![r] = None]
              /\ Dirty' \in {Dirty, Dirty \ {LeaseOf[r]}} => Promise!GiveBack(r)
         /\ LeaseOf' = LeaseOf /\ Dirty' = Dirty => UNCHANGED Promise!vars
<1>1. ASSUME LeaseOf[r] = None, Cardinality({LeaseOf[q] : q \in Requests} \ {None}) < MaxSize,
             \E s \in Sessions \ (({LeaseOf[q] : q \in Requests} \ {None}) \cup Dirty) :
               LeaseOf' = [LeaseOf EXCEPT ![r] = s],
             Dirty' = Dirty
      PROVE  Promise!Grant(r)
  BY <1>1, SameCardinality, Zenon DEF Promise!Grant, Promise!Leased, LeaseOf, Dirty
<1>2. LeaseOf[r] # None /\ LeaseOf' = LeaseOf /\ Dirty' = Dirty \cup {LeaseOf[r]} => Promise!Change(r)
  BY Zenon DEF Promise!Change, LeaseOf, Dirty
<1>3. LeaseOf[r] # None /\ LeaseOf' = LeaseOf /\ Dirty' = Dirty \ {LeaseOf[r]} => Promise!Settle(r)
  BY Zenon DEF Promise!Settle, LeaseOf, Dirty
<1>4. LeaseOf[r] # None /\ LeaseOf' = [LeaseOf EXCEPT ![r] = None]
        /\ Dirty' \in {Dirty, Dirty \ {LeaseOf[r]}} => Promise!GiveBack(r)
  BY Zenon DEF Promise!GiveBack, LeaseOf, Dirty
<1>5. LeaseOf' = LeaseOf /\ Dirty' = Dirty => UNCHANGED Promise!vars
  BY Zenon DEF Promise!vars, LeaseOf, Dirty
<1>6. QED
  BY <1>1, <1>2, <1>3, <1>4, <1>5

(* The session of an operation that ends changes, whether it succeeds or   *)
(* not.                                                                    *)
LEMMA Settles ==
  ASSUME Pooled, TypeOK, Confined, NEW r \in Requests, session[r] \in Sessions,
         Pooled', TypeOK', Confined', session' = session,
         changes' \in {changes, [changes EXCEPT ![session[r]] = {}]}
  PROVE  [Promise!Next]_(Promise!vars)
<1>1. LeaseOf = session /\ LeaseOf' = session'
  BY LeaseIsSession, LeaseIsSessionAfter
<1>2. /\ Dirty = {s \in Sessions : changes[s] # {}}
      /\ Dirty' = {s \in Sessions : changes'[s] # {}}
  BY LeaseIsSession, LeaseIsSessionAfter
<1>3. LeaseOf' = LeaseOf /\ LeaseOf[r] # None /\ changes \in [Sessions -> SUBSET Requests]
  BY <1>1, ParametersAssumption DEF TypeOK
<1>4. CASE changes' = changes
  BY <1>2, <1>3, <1>4, LeaseActions
<1>5. CASE changes' = [changes EXCEPT ![session[r]] = {}]
  <2>1. \A s \in Sessions : changes'[s] # {} <=> changes[s] # {} /\ s # session[r]
    BY <1>3, <1>5
  <2>2. Dirty' = Dirty \ {LeaseOf[r]}
    BY <1>1, <1>2, <2>1
  <2>3. QED
    BY <1>3, <2>2, LeaseActions DEF Promise!Next
<1>6. QED
  BY <1>4, <1>5

LEMMA LeaseStep ==
  ASSUME Pooled, TypeOK, Confined, TypeOK', Confined', [Next]_vars
  PROVE  [Promise!Next]_(Promise!vars)
<1>0. /\ Pooled' /\ None \notin Sessions
      /\ setup.provider = "pool" /\ setup.adapter \notin {"express", "direct"}
      /\ changes \in [Sessions -> SUBSET Requests] /\ session \in [Requests -> Sessions \cup {None}]
      /\ out \in [Requests -> SUBSET Sessions]
      /\ \A r \in Requests : Orderly(r)
  BY PooledKept, ParametersAssumption DEF Pooled, Awaiting, TypeOK, Confined
<1>1. /\ LeaseOf = session /\ LeaseOf' = session'
      /\ Dirty = {s \in Sessions : changes[s] # {}}
      /\ Dirty' = {s \in Sessions : changes'[s] # {}}
  BY <1>0, LeaseIsSession, LeaseIsSessionAfter
<1>2. ASSUME session' = session, changes' = changes PROVE [Promise!Next]_(Promise!vars)
  <2>1. LeaseOf' = LeaseOf /\ Dirty' = Dirty
    BY <1>1, <1>2
  <2>2. QED
    BY <2>1, Zenon DEF Promise!vars, LeaseOf, Dirty
<1>3. CASE UNCHANGED vars
  BY <1>2, <1>3 DEF vars, scopeVars, stoneVars
<1>4. ASSUME NEW r \in Requests, RequestStep(r) PROVE [Promise!Next]_(Promise!vars)
  <2>1. CASE Arrive(r)
    BY <1>2, <2>1 DEF Arrive, stoneVars
  <2>2. CASE AskAgain(r)
    BY <1>0, <2>2 DEF AskAgain
  <2>3. CASE SessionReady(r)
    <3>1. PICK s \in Sessions \ Taken : session' = [session EXCEPT ![r] = s]
      BY <2>3 DEF SessionReady
    <3>2. session[r] = None /\ Cardinality(Taken) < MaxSize /\ changes' = changes
      BY <1>0, <2>3 DEF SessionReady, Orderly
    <3>3. {LeaseOf[q] : q \in Requests} \ {None} = Taken
      BY <1>0, <1>1 DEF Taken, Orderly
    <3>4. changes[s] = {}
      BY <1>0, <3>1 DEF Confined, OwnChanges, Taken
    <3>5. s \in Sessions \ (Taken \cup Dirty)
      BY <1>1, <3>1, <3>4
    <3>6. LeaseOf' = [LeaseOf EXCEPT ![r] = s] /\ LeaseOf[r] = None /\ Dirty' = Dirty
      BY <1>1, <3>1, <3>2
    <3>7. Promise!Grant(r)
      <4>1. \E t \in Sessions \ (({LeaseOf[q] : q \in Requests} \ {None}) \cup Dirty) :
              LeaseOf' = [LeaseOf EXCEPT ![r] = t]
        BY <3>3, <3>5, <3>6
      <4>2. Cardinality({LeaseOf[q] : q \in Requests} \ {None}) < MaxSize
        BY <3>2, <3>3
      <4>3. QED
        BY <3>6, <4>1, <4>2, LeaseActions
    <3>8. QED
      BY <3>7 DEF Promise!Next
  <2>4. CASE SessionFails(r)
    BY <1>2, <2>4 DEF SessionFails, stoneVars
  <2>5. CASE Work(r)
    <3>1. PICK s \in using[r] : changes' = [changes EXCEPT ![s] = @ \cup {r}]
      BY <2>5 DEF Work
    <3>2. s = session[r] /\ s \in Sessions /\ session' = session
      BY <1>0, <2>5, <3>1 DEF Orderly, Work, scopeVars
    <3>3. \A t \in Sessions : changes'[t] # {} <=> changes[t] # {} \/ t = s
      BY <1>0, <3>1
    <3>4. LeaseOf' = LeaseOf /\ LeaseOf[r] # None /\ Dirty' = Dirty \cup {LeaseOf[r]}
      BY <1>0, <1>1, <3>2, <3>3
    <3>5. QED
      BY <3>4, LeaseActions DEF Promise!Next
  <2>6. CASE HandlerSettles(r)
    <3>1. PICK s \in using[r] : changes' = [changes EXCEPT ![s] = {}]
      BY <2>6 DEF HandlerSettles
    <3>2. s = session[r] /\ s \in Sessions /\ session' = session
      BY <1>0, <2>6, <3>1 DEF Orderly, HandlerSettles, scopeVars
    <3>3. QED
      BY <1>0, <3>1, <3>2, Settles
  <2>7. CASE Respond(r)
    BY <1>2, <2>7 DEF Respond, stoneVars
  <2>8. CASE Disconnect(r)
    BY <1>0, <2>8 DEF Disconnect
  <2>9. CASE HandlerEnds(r)
    BY <1>2, <2>9 DEF HandlerEnds, scopeVars, stoneVars
  <2>10. CASE CommitDone(r) \/ UndoDone(r) \/ AbortDone(r)
    <3>1. fin[r] = session[r] /\ session[r] \in Sessions
      BY <1>0, <2>10 DEF CommitDone, UndoDone, AbortDone, Orderly, TypeOK
    <3>2. session' = session
      BY <2>10 DEF CommitDone, UndoDone, AbortDone
    <3>3. changes' \in {changes, [changes EXCEPT ![session[r]] = {}]}
      BY <2>10, <3>1 DEF CommitDone, UndoDone, AbortDone
    <3>4. QED
      BY <1>0, <3>1, <3>2, <3>3, Settles
  <2>11. CASE ReleaseDone(r)
    <3>1. session[r] \in Sessions /\ session' = [session EXCEPT ![r] = None]
      BY <2>11 DEF ReleaseDone, TypeOK
    <3>2. changes' \in {changes, [changes EXCEPT ![session[r]] = {}]}
      BY <2>11 DEF ReleaseDone
    <3>3. Dirty' \in {Dirty, Dirty \ {LeaseOf[r]}}
      <4>1. CASE changes' = changes
        BY <1>1, <4>1
      <4>2. CASE changes' = [changes EXCEPT ![session[r]] = {}]
        <5>1. \A s \in Sessions : changes'[s] # {} <=> changes[s] # {} /\ s # session[r]
          BY <1>0, <4>2
        <5>2. QED
          BY <1>1, <5>1
      <4>3. QED
        BY <3>2, <4>1, <4>2
    <3>4. LeaseOf[r] # None /\ LeaseOf' = [LeaseOf EXCEPT ![r] = None]
      BY <1>0, <1>1, <3>1
    <3>5. QED
      BY <3>3, <3>4, LeaseActions DEF Promise!Next
  <2>12. CASE LogoutFails(r)
    BY <1>0, <2>12 DEF LogoutFails
  <2>13. QED
    BY <1>4, <2>1, <2>2, <2>3, <2>4, <2>5, <2>6, <2>7, <2>8, <2>9, <2>10, <2>11, <2>12
    DEF RequestStep
<1>5. QED
  BY <1>3, <1>4 DEF Next

(* Outside the pool, or with an adapter that does not await its handler,   *)
(* no lease is promised.                                                   *)
LEMMA NoLease ==
  ASSUME ~Pooled, [Next]_vars
  PROVE  [Promise!Next]_(Promise!vars)
<1>1. ~Pooled'
  BY PooledKept
<1>2. LeaseOf' = LeaseOf /\ Dirty' = Dirty
  BY <1>1 DEF LeaseOf, Dirty
<1>3. QED
  BY <1>2, Zenon DEF Promise!vars, LeaseOf, Dirty

(* Requests whose adapter awaits its handler use the pool as Leases lets   *)
(* callers: they ask when they have no session and one is left, change     *)
(* objects only in a session they have, and give every session back, so    *)
(* that a request is never given one with the changes of another.          *)
THEOREM ScopeLeasesUsedAsPromised == Spec => LeasesUsedAsPromised
<1>1. Init => Promise!Init
  BY DEF Init, Promise!Init
<1>2. TypeOK /\ ConfinedIfAwaited /\ TypeOK' /\ ConfinedIfAwaited' /\ [Next]_vars =>
        [Promise!Next]_(Promise!vars)
  <2>1. SUFFICES ASSUME TypeOK, ConfinedIfAwaited, TypeOK', ConfinedIfAwaited', [Next]_vars
                 PROVE  [Promise!Next]_(Promise!vars)
    OBVIOUS
  <2>2. CASE Pooled
    <3>1. Confined /\ Confined'
      BY <2>1, <2>2, PooledKept DEF Pooled, ConfinedIfAwaited
    <3>2. QED
      BY <2>1, <2>2, <3>1, LeaseStep
  <2>3. CASE ~Pooled
    BY <2>1, <2>3, NoLease
  <2>4. QED
    BY <2>2, <2>3
<1>3. QED
  BY <1>1, <1>2, ScopeConfined, ScopeTypeOK, PTL DEF Spec, LeasesUsedAsPromised, Promise!Spec

-----------------------------------------------------------------------------
(* The panes                                                               *)

(* No load has a later number than its pane has given. *)
PageTypeOK ==
  /\ loads \in [Panes -> Nat]
  /\ \A c \in calls : c.pane \in Panes /\ c.token \in Nat /\ c.token <= loads[c.pane]
  /\ timer \in [Filtered -> BOOLEAN]
  /\ filter \in [Filtered -> Filters]
  /\ DOMAIN shown = Panes

Newest(c, p) == c \in calls /\ c.pane = p /\ IsCurrentLoadToken(c)

(* The newest load of a pane asked for what its filter says, and for the   *)
(* user and the dictionary that are selected, unless a timer is going to   *)
(* ask again; and what is shown came from such a load.                     *)
GlobalsNewest ==
  timer["globals"] \/
    /\ \A c : Newest(c, "globals") => c.filter = filter["globals"]
    /\ shown["globals"] \in {Loading, GlobalsOf(filter["globals"])}

DictionariesNewest == \A c : Newest(c, "dictionaries") => c.user = user

EntriesNewest ==
  dictionary # Nobody =>
    /\ \A c : Newest(c, "entries") =>
         /\ c.user = user /\ c.dictionary = dictionary
         /\ timer["entries"] \/ c.filter = filter["entries"]
    /\ \/ timer["entries"] \/ DictionariesOf[user] = <<>>
       \/ shown["entries"] \in {Loading, EntriesOf(user, dictionary, filter["entries"])}

PageInv == PageTypeOK /\ GlobalsNewest /\ DictionariesNewest /\ EntriesNewest

(* A new load is the newest of its pane, and the others are what they were *)
(* in theirs.                                                              *)
LEMMA CallNewest ==
  ASSUME PageTypeOK, NEW pending \in SUBSET calls, NEW p \in Panes, NEW u, NEW d, NEW f,
         Call(pending, p, u, d, f)
  PROVE  /\ loads' \in [Panes -> Nat]
         /\ \A c \in calls' : c.pane \in Panes /\ c.token \in Nat /\ c.token <= loads'[c.pane]
         /\ \A c : Newest(c, p)' => c.user = u /\ c.dictionary = d /\ c.filter = f
         /\ \A c : \A q \in Panes \ {p} : Newest(c, q)' => Newest(c, q)
<1> DEFINE new == [pane |-> p, token |-> loads[p] + 1, user |-> u, dictionary |-> d, filter |-> f]
<1>1. /\ loads' = [loads EXCEPT ![p] = @ + 1] /\ calls' = pending \cup {new}
      /\ loads \in [Panes -> Nat] /\ loads[p] \in Nat
  BY DEF Call, PageTypeOK
<1>2. /\ new.pane = p /\ new.token = loads[p] + 1
      /\ new.user = u /\ new.dictionary = d /\ new.filter = f
  OBVIOUS
<1> HIDE DEF new
<1>3. /\ loads' \in [Panes -> Nat] /\ loads'[p] = loads[p] + 1
      /\ \A q \in Panes \ {p} : loads'[q] = loads[q]
  BY <1>1
<1>4. ASSUME NEW c \in calls' PROVE c = new \/ (c \in calls /\ (c.pane = p => c.token # loads'[p]))
  BY <1>1, <1>3 DEF PageTypeOK
<1>5. ASSUME NEW c \in calls'
      PROVE  c.pane \in Panes /\ c.token \in Nat /\ c.token <= loads'[c.pane]
  <2>1. CASE c = new
    BY <1>1, <1>2, <1>3, <2>1
  <2>2. CASE c \in calls
    <3>1. c.pane \in Panes /\ c.token \in Nat /\ c.token <= loads[c.pane]
      BY <2>2 DEF PageTypeOK
    <3>2. loads[c.pane] \in Nat /\ loads'[c.pane] \in Nat /\ loads[c.pane] <= loads'[c.pane]
      BY <1>1, <1>3, <3>1
    <3>3. QED
      BY <3>1, <3>2
  <2>3. QED
    BY <1>4, <2>1, <2>2
<1>6. ASSUME NEW c, Newest(c, p)' PROVE c = new
  BY <1>4, <1>6 DEF Newest, IsCurrentLoadToken
<1>7. ASSUME NEW c, NEW q \in Panes \ {p}, Newest(c, q)' PROVE Newest(c, q)
  <2>1. c \in calls' /\ c.pane = q /\ c.token = loads'[q]
    BY <1>7 DEF Newest, IsCurrentLoadToken
  <2>2. c \in calls
    BY <1>2, <1>4, <2>1
  <2>3. QED
    BY <1>3, <2>1, <2>2 DEF Newest, IsCurrentLoadToken
<1>8. QED
  BY <1>2, <1>3, <1>5, <1>6, <1>7

(* An answer leaves fewer calls. *)
LEMMA FewerCalls ==
  ASSUME PageTypeOK, loads' = loads, calls' \subseteq calls
  PROVE  /\ loads' \in [Panes -> Nat]
         /\ \A c \in calls' : c.pane \in Panes /\ c.token \in Nat /\ c.token <= loads'[c.pane]
         /\ \A c, q : Newest(c, q)' => Newest(c, q)
BY DEF PageTypeOK, Newest, IsCurrentLoadToken

LEMMA PaneNames ==
  /\ Panes = {"globals", "users", "dictionaries", "entries"}
  /\ Filtered = {"globals", "entries"}
BY DEF Panes, Filtered

(* The loads, one by one. *)
LEMMA LoadGlobalsInv ==
  ASSUME PageInv, LoadGlobals, filter' = filter, timer' \in [Filtered -> BOOLEAN],
         timer'["entries"] = timer["entries"]
  PROVE  PageInv'
<1> USE PaneNames
<1> DEFINE f == filter["globals"]
<1> HIDE DEF f
<1>1. /\ Call(calls, "globals", Nobody, Nobody, f)
      /\ shown' = [shown EXCEPT !["globals"] = Loading]
      /\ UNCHANGED <<user, dictionary, listed>>
  BY DEF LoadGlobals, Show, f
<1>2. PageTypeOK /\ calls \in SUBSET calls /\ "globals" \in Panes
  BY DEF PageInv
<1>3. /\ loads' \in [Panes -> Nat]
      /\ \A c \in calls' : c.pane \in Panes /\ c.token \in Nat /\ c.token <= loads'[c.pane]
      /\ \A c : Newest(c, "globals")' => c.user = Nobody /\ c.dictionary = Nobody /\ c.filter = f
      /\ \A c : \A q \in Panes \ {"globals"} : Newest(c, q)' => Newest(c, q)
  BY <1>1, <1>2, CallNewest
<1>4. shown'["globals"] = Loading /\ shown'["entries"] = shown["entries"] /\ DOMAIN shown' = Panes
  BY <1>1, <1>2 DEF PageTypeOK
<1>5. PageTypeOK'
  BY <1>2, <1>3, <1>4 DEF PageTypeOK
<1>6. GlobalsNewest'
  BY <1>3, <1>4 DEF GlobalsNewest, f
<1>7. DictionariesNewest' /\ EntriesNewest'
  BY <1>1, <1>3, <1>4 DEF PageInv, DictionariesNewest, EntriesNewest
<1>8. QED
  BY <1>5, <1>6, <1>7 DEF PageInv

LEMMA LoadUsersInv ==
  ASSUME PageInv, LoadSymbolUsers, UNCHANGED <<timer, filter>>
  PROVE  PageInv'
<1> USE PaneNames
<1>1. /\ Call(calls, "users", Nobody, Nobody, Nobody)
      /\ shown' = [p \in Panes |-> IF p = "globals" THEN shown[p] ELSE Loading]
      /\ UNCHANGED <<user, dictionary, listed>>
  BY DEF LoadSymbolUsers
<1>2. PageTypeOK /\ calls \in SUBSET calls
  BY DEF PageInv
<1>3. /\ loads' \in [Panes -> Nat]
      /\ \A c \in calls' : c.pane \in Panes /\ c.token \in Nat /\ c.token <= loads'[c.pane]
      /\ \A c : \A q \in Panes \ {"users"} : Newest(c, q)' => Newest(c, q)
  BY <1>1, <1>2, CallNewest
<1>4. shown'["globals"] = shown["globals"] /\ shown'["entries"] = Loading /\ DOMAIN shown' = Panes
  BY <1>1
<1>5. PageTypeOK'
  BY <1>2, <1>3, <1>4 DEF PageTypeOK
<1>6. GlobalsNewest' /\ DictionariesNewest' /\ EntriesNewest'
  BY <1>1, <1>3, <1>4 DEF PageInv, GlobalsNewest, DictionariesNewest, EntriesNewest
<1>7. QED
  BY <1>5, <1>6 DEF PageInv

(* Loading the names of a user: no dictionary is selected then. *)
LEMMA LoadDictionariesInv ==
  ASSUME PageInv, NEW pending \in SUBSET calls, NEW u, LoadSymbolDictionaries(pending, u),
         UNCHANGED <<timer, filter>>, DOMAIN shown' = Panes, shown'["globals"] = shown["globals"]
  PROVE  PageInv'
<1> USE PaneNames
<1>1. Call(pending, "dictionaries", u, Nobody, Nobody) /\ user' = u /\ dictionary' = Nobody
  BY DEF LoadSymbolDictionaries
<1>2. PageTypeOK
  BY DEF PageInv
<1>3. /\ loads' \in [Panes -> Nat]
      /\ \A c \in calls' : c.pane \in Panes /\ c.token \in Nat /\ c.token <= loads'[c.pane]
      /\ \A c : Newest(c, "dictionaries")' => c.user = u
      /\ \A c : \A q \in Panes \ {"dictionaries"} : Newest(c, q)' => Newest(c, q)
  BY <1>1, <1>2, CallNewest
<1>4. PageTypeOK'
  BY <1>2, <1>3 DEF PageTypeOK
<1>5. GlobalsNewest' /\ DictionariesNewest' /\ EntriesNewest'
  BY <1>1, <1>3 DEF PageInv, GlobalsNewest, DictionariesNewest, EntriesNewest
<1>6. QED
  BY <1>4, <1>5 DEF PageInv

(* Loading entries: for the user and the dictionary that are selected now. *)
LEMMA LoadEntriesInv ==
  ASSUME PageInv, NEW pending \in SUBSET calls, NEW d, LoadSymbolEntries(pending, d),
         filter' = filter, timer' \in [Filtered -> BOOLEAN], timer'["globals"] = timer["globals"],
         DOMAIN shown' = Panes, shown'["globals"] = shown["globals"], shown'["entries"] = Loading
  PROVE  PageInv'
<1> USE PaneNames
<1>1. Call(pending, "entries", user, d, filter["entries"]) /\ user' = user /\ dictionary' = d
  BY DEF LoadSymbolEntries
<1>2. PageTypeOK
  BY DEF PageInv
<1>3. /\ loads' \in [Panes -> Nat]
      /\ \A c \in calls' : c.pane \in Panes /\ c.token \in Nat /\ c.token <= loads'[c.pane]
      /\ \A c : Newest(c, "entries")' => c.user = user /\ c.dictionary = d /\ c.filter = filter["entries"]
      /\ \A c : \A q \in Panes \ {"entries"} : Newest(c, q)' => Newest(c, q)
  BY <1>1, <1>2, CallNewest
<1>4. PageTypeOK'
  BY <1>2, <1>3 DEF PageTypeOK
<1>5. GlobalsNewest' /\ DictionariesNewest' /\ EntriesNewest'
  BY <1>1, <1>3 DEF PageInv, GlobalsNewest, DictionariesNewest, EntriesNewest
<1>6. QED
  BY <1>4, <1>5 DEF PageInv

LEMMA ArrivesInv ==
  ASSUME PageInv, NEW c \in calls, Arrives(c)
  PROVE  PageInv'
<1> USE PaneNames
<1>0. /\ PageTypeOK /\ DOMAIN shown = Panes /\ IsCurrentLoadToken(c) /\ UNCHANGED <<timer, filter>>
      /\ calls \ {c} \in SUBSET calls /\ Newest(c, c.pane)
  BY DEF PageInv, PageTypeOK, Arrives, Newest
<1>1. CASE Globals(c)
  <2>1. /\ c.pane = "globals" /\ calls' \subseteq calls
        /\ shown' = [shown EXCEPT !["globals"] = GlobalsOf(c.filter)]
        /\ UNCHANGED <<loads, user, dictionary, listed>>
    BY <1>1 DEF Globals, Show
  <2>2. /\ loads' \in [Panes -> Nat]
        /\ \A e \in calls' : e.pane \in Panes /\ e.token \in Nat /\ e.token <= loads'[e.pane]
        /\ \A e, q : Newest(e, q)' => Newest(e, q)
    BY <1>0, <2>1, FewerCalls
  <2>3. shown'["globals"] = GlobalsOf(c.filter) /\ shown'["entries"] = shown["entries"]
        /\ DOMAIN shown' = Panes
    BY <1>0, <2>1
  <2>4. PageTypeOK'
    BY <1>0, <2>2, <2>3 DEF PageTypeOK
  <2>5. GlobalsNewest'
    BY <1>0, <2>1, <2>2, <2>3 DEF PageInv, GlobalsNewest
  <2>6. DictionariesNewest' /\ EntriesNewest'
    BY <1>0, <2>1, <2>2, <2>3 DEF PageInv, DictionariesNewest, EntriesNewest
  <2>7. QED
    BY <2>4, <2>5, <2>6 DEF PageInv
<1>2. CASE SymbolUsers(c)
  <2>1. PICK u \in Users : LoadSymbolDictionaries(calls \ {c}, u)
    BY <1>2 DEF SymbolUsers
  <2>2. DOMAIN shown' = Panes /\ shown'["globals"] = shown["globals"]
    BY <1>0, <1>2 DEF SymbolUsers
  <2>3. QED
    BY <1>0, <2>1, <2>2, LoadDictionariesInv
<1>3. CASE SymbolDictionaries(c)
  <2>1. DOMAIN shown' = Panes /\ shown'["globals"] = shown["globals"]
    BY <1>0, <1>3 DEF SymbolDictionaries
  <2>2. CASE DictionariesOf[c.user] = <<>>
    <3>1. calls' \subseteq calls /\ UNCHANGED <<loads, user, dictionary>> /\ c.pane = "dictionaries"
      BY <1>3, <2>2 DEF SymbolDictionaries
    <3>2. c.user = user
      BY <1>0, <3>1 DEF PageInv, DictionariesNewest
    <3>3. /\ loads' \in [Panes -> Nat]
          /\ \A e \in calls' : e.pane \in Panes /\ e.token \in Nat /\ e.token <= loads'[e.pane]
          /\ \A e, q : Newest(e, q)' => Newest(e, q)
      BY <1>0, <3>1, FewerCalls
    <3>4. PageTypeOK'
      BY <1>0, <2>1, <3>3 DEF PageTypeOK
    <3>5. GlobalsNewest' /\ DictionariesNewest'
      BY <1>0, <2>1, <3>1, <3>3 DEF PageInv, GlobalsNewest, DictionariesNewest
    <3>6. EntriesNewest'
      BY <1>0, <2>2, <3>1, <3>2, <3>3 DEF PageInv, EntriesNewest
    <3>7. QED
      BY <3>4, <3>5, <3>6 DEF PageInv
  <2>3. CASE DictionariesOf[c.user] # <<>>
    <3>1. LoadSymbolEntries(calls \ {c}, Head(DictionariesOf[c.user]))
      BY <1>3, <2>3 DEF SymbolDictionaries
    <3>2. shown'["entries"] = Loading
      BY <1>0, <1>3, <2>3 DEF SymbolDictionaries
    <3>3. timer' \in [Filtered -> BOOLEAN] /\ timer'["globals"] = timer["globals"] /\ filter' = filter
      BY <1>0 DEF PageTypeOK
    <3>4. QED
      BY <1>0, <2>1, <3>1, <3>2, <3>3, LoadEntriesInv
  <2>4. QED
    BY <2>2, <2>3
<1>4. CASE SymbolEntries(c)
  <2>1. /\ c.pane = "entries" /\ calls' \subseteq calls
        /\ UNCHANGED <<loads, user, dictionary, listed>>
    BY <1>4 DEF SymbolEntries
  <2>2. shown'["globals"] = shown["globals"] /\ DOMAIN shown' = Panes
        /\ shown'["entries"] = EntriesOf(c.user, c.dictionary, c.filter)
    BY <1>0, <1>4 DEF SymbolEntries
  <2>3. /\ loads' \in [Panes -> Nat]
        /\ \A e \in calls' : e.pane \in Panes /\ e.token \in Nat /\ e.token <= loads'[e.pane]
        /\ \A e, q : Newest(e, q)' => Newest(e, q)
    BY <1>0, <2>1, FewerCalls
  <2>4. PageTypeOK'
    BY <1>0, <2>2, <2>3 DEF PageTypeOK
  <2>5. GlobalsNewest' /\ DictionariesNewest'
    BY <1>0, <2>1, <2>2, <2>3 DEF PageInv, GlobalsNewest, DictionariesNewest
  <2>6. EntriesNewest'
    BY <1>0, <2>1, <2>2, <2>3 DEF PageInv, EntriesNewest
  <2>7. QED
    BY <2>4, <2>5, <2>6 DEF PageInv
<1>5. QED
  BY <1>1, <1>2, <1>3, <1>4 DEF Arrives

LEMMA PageInvStep == PageInv /\ [PageNext]_pageVars => PageInv'
<1> USE PaneNames
<1> SUFFICES ASSUME PageInv, [PageNext]_pageVars PROVE PageInv'
  OBVIOUS
<1>0. /\ PageTypeOK /\ DOMAIN shown = Panes /\ timer \in [Filtered -> BOOLEAN]
      /\ calls \in SUBSET calls
  BY DEF PageInv, PageTypeOK
<1>1. CASE Open
  BY <1>0, <1>1, LoadGlobalsInv, LoadUsersInv DEF Open
<1>2. CASE Select
  <2>1. UNCHANGED <<timer, filter>>
    BY <1>2 DEF Select
  <2>2. ASSUME NEW u \in Users, LoadSymbolDictionaries(calls, u),
               shown' = [shown EXCEPT !["dictionaries"] = Loading, !["entries"] = Loading]
        PROVE  PageInv'
    <3>1. DOMAIN shown' = Panes /\ shown'["globals"] = shown["globals"]
      BY <1>0, <2>2
    <3>2. QED
      BY <1>0, <2>1, <2>2, <3>1, LoadDictionariesInv
  <2>3. ASSUME NEW d, LoadSymbolEntries(calls, d), Show("entries", Loading)
        PROVE  PageInv'
    <3>1. DOMAIN shown' = Panes /\ shown'["globals"] = shown["globals"] /\ shown'["entries"] = Loading
      BY <1>0, <2>3 DEF Show
    <3>2. QED
      BY <1>0, <2>1, <2>3, <3>1, LoadEntriesInv
  <2>4. QED
    BY <1>2, <2>2, <2>3 DEF Select
<1>3. ASSUME NEW p \in Filtered, NEW f \in Filters, Type(p, f) PROVE PageInv'
  <2>1. /\ filter' = [filter EXCEPT ![p] = f] /\ timer' = [timer EXCEPT ![p] = TRUE]
        /\ UNCHANGED <<loads, calls, shown, user, dictionary, listed>>
    BY <1>3 DEF Type
  <2>2. PageTypeOK'
    BY <1>0, <2>1 DEF PageTypeOK
  <2>3. \A c, q : Newest(c, q)' => Newest(c, q)
    BY <2>1 DEF Newest, IsCurrentLoadToken
  <2>4. \A q \in Filtered : timer'[q] \/ (timer'[q] = timer[q] /\ filter'[q] = filter[q])
    BY <1>0, <2>1 DEF PageTypeOK
  <2>5. GlobalsNewest' /\ DictionariesNewest' /\ EntriesNewest'
    BY <2>1, <2>3, <2>4 DEF PageInv, GlobalsNewest, DictionariesNewest, EntriesNewest
  <2>6. QED
    BY <2>2, <2>5 DEF PageInv
<1>4. ASSUME NEW p \in Filtered, Fire(p) PROVE PageInv'
  <2>1. /\ timer' = [timer EXCEPT ![p] = FALSE] /\ filter' = filter
        /\ timer' \in [Filtered -> BOOLEAN]
    BY <1>0, <1>4 DEF Fire
  <2>2. CASE p = "globals" /\ LoadGlobals
    BY <1>0, <2>1, <2>2, LoadGlobalsInv
  <2>3. CASE p = "entries" /\ LoadSymbolEntries(calls, dictionary) /\ Show("entries", Loading)
    <3>1. DOMAIN shown' = Panes /\ shown'["globals"] = shown["globals"] /\ shown'["entries"] = Loading
      BY <1>0, <2>3 DEF Show
    <3>2. timer'["globals"] = timer["globals"]
      BY <1>0, <2>1, <2>3
    <3>3. QED
      BY <1>0, <2>1, <2>3, <3>1, <3>2, LoadEntriesInv
  <2>4. CASE /\ p = "entries" /\ dictionary = Nobody
             /\ UNCHANGED <<loads, calls, shown, user, dictionary, listed>>
    <3>1. timer'["globals"] = timer["globals"]
      BY <1>0, <2>1, <2>4
    <3>2. \A c, q : Newest(c, q)' => Newest(c, q)
      BY <2>4 DEF Newest, IsCurrentLoadToken
    <3>3. PageTypeOK'
      BY <1>0, <2>1, <2>4 DEF PageTypeOK
    <3>4. GlobalsNewest' /\ DictionariesNewest' /\ EntriesNewest'
      BY <2>1, <2>4, <3>1, <3>2 DEF PageInv, GlobalsNewest, DictionariesNewest, EntriesNewest
    <3>5. QED
      BY <3>3, <3>4 DEF PageInv
  <2>5. QED
    BY <1>4, <2>2, <2>3, <2>4 DEF Fire
<1>5. ASSUME NEW c \in calls, Ignored(c) PROVE PageInv'
  <2>1. calls' \subseteq calls /\ UNCHANGED <<loads, timer, filter, shown, user, dictionary, listed>>
    BY <1>5 DEF Ignored
  <2>2. PageTypeOK' /\ \A e, q : Newest(e, q)' => Newest(e, q)
    BY <1>0, <2>1, FewerCalls DEF PageTypeOK
  <2>3. GlobalsNewest' /\ DictionariesNewest' /\ EntriesNewest'
    BY <2>1, <2>2 DEF PageInv, GlobalsNewest, DictionariesNewest, EntriesNewest
  <2>4. QED
    BY <2>2, <2>3 DEF PageInv
<1>6. CASE UNCHANGED pageVars
  BY <1>6 DEF pageVars, PageInv, PageTypeOK, GlobalsNewest, DictionariesNewest, EntriesNewest,
              Newest, IsCurrentLoadToken
<1>7. QED
  BY <1>1, <1>2, <1>3, <1>4, <1>5, <1>6, ArrivesInv DEF PageNext

LEMMA PageInvImplies == PageInv => PanesShowNewest
BY PaneNames DEF PageInv, GlobalsNewest, EntriesNewest, PanesShowNewest, Quiet

(* Whatever the order of the answers, of any number of loads, and whichever *)
(* fail: once they are in, the table of globals shows what its filter says, *)
(* and the entries are of the selected user, dictionary and filter.         *)
THEOREM PageShowsNewest == PageSpec => []PanesShowNewest
<1>1. PageInit => PageInv
  <2>1. PageInit => PageTypeOK
    <3>1. ASSUME PageInit
          PROVE  /\ loads = [p \in Panes |-> 0] /\ calls = {}
                 /\ timer = [p \in Filtered |-> FALSE] /\ filter = [p \in Filtered |-> ""]
                 /\ shown = [p \in Panes |-> Loading]
      BY <3>1 DEF PageInit, PageBegins
    <3>2. "" \in Filters
      BY PageAssumption
    <3>3. ASSUME PageInit PROVE loads \in [Panes -> Nat] /\ calls = {}
      <4>1. [p \in Panes |-> 0] \in [Panes -> Nat]
        OBVIOUS
      <4>2. QED
        BY <3>1, <3>3, <4>1
    <3>4. ASSUME PageInit PROVE timer \in [Filtered -> BOOLEAN] /\ filter \in [Filtered -> Filters]
      BY <3>1, <3>2, <3>4
    <3>5. ASSUME PageInit PROVE DOMAIN shown = Panes
      BY <3>1, <3>5
    <3>6. QED
      BY <3>3, <3>4, <3>5 DEF PageTypeOK
  <2>2. PageInit => GlobalsNewest /\ DictionariesNewest /\ EntriesNewest
    BY PaneNames
    DEF PageInit, PageBegins, GlobalsNewest, DictionariesNewest, EntriesNewest, Newest
  <2>3. QED
    BY <2>1, <2>2 DEF PageInv
<1>2. QED
  BY <1>1, PageInvStep, PageInvImplies, PTL DEF PageSpec

-----------------------------------------------------------------------------
(* The debugger window                                                     *)

DebuggerInv ==
  /\ DOMAIN debugFrames \subseteq Nat /\ \A i \in DOMAIN debugFrames : debugFrames[i] \in Nat
  /\ selectedFrame \in Nat \cup {NoFrame} /\ selectedVariable \in Nat \cup {NoFrame}
  /\ SelectionIsOnShow

LEMMA VariablesType ==
  ASSUME NEW frames, \A i \in DOMAIN frames : frames[i] \in Nat
  PROVE  \A f : VariablesOf(frames, f) \in Nat
BY DEF VariablesOf

(* What is selected in the details of a frame is one of its variables. *)
LEMMA DetailsSelect ==
  ASSUME NEW frames, \A i \in DOMAIN frames : frames[i] \in Nat, NEW f, NEW v,
         v = FrameDetails(frames, f, NoFrame)
  PROVE  /\ v \in Nat \cup {NoFrame}
         /\ v = NoFrame <=> VariablesOf(frames, f) = 0
         /\ v # NoFrame => v < VariablesOf(frames, f)
<1>1. VariablesOf(frames, f) \in Nat
  BY VariablesType
<1>2. NoFrame \notin 0..(VariablesOf(frames, f) - 1) /\ NoFrame # 0
  BY <1>1, DebuggerAssumption
<1>3. QED
  BY <1>1, <1>2 DEF FrameDetails

LEMMA StackParsed ==
  ASSUME NEW stack \in Stacks
  PROVE  LET frames == ParseContextStack(stack)
         IN  DOMAIN frames \subseteq Nat /\ \A i \in DOMAIN frames : frames[i] \in Nat
<1>1. /\ stack.lines \in Nat /\ DOMAIN stack.frames \subseteq Nat
      /\ \A i \in DOMAIN stack.frames : stack.frames[i] \in Nat
  BY DebuggerAssumption
<1>2. CASE stack.lines = 0
  BY <1>1, <1>2 DEF ParseContextStack
<1>3. CASE stack.lines # 0
  <2>1. ParseContextStack(stack) =
          [i \in 0..(stack.lines - 1) |-> IF i \in DOMAIN stack.frames THEN stack.frames[i] ELSE 0]
    BY <1>3 DEF ParseContextStack
  <2>2. 0..(stack.lines - 1) \subseteq Nat
    BY <1>1
  <2>3. QED
    BY <1>1, <2>1, <2>2
<1>4. QED
  BY <1>2, <1>3

LEMMA ReportSelects ==
  ASSUME NEW report, NEW stack, RenderDebugReport(report, stack),
         report.ok \in BOOLEAN, ~report.ok => stack \in Stacks
  PROVE  DebuggerInv'
<1>1. /\ DOMAIN debugFrames' \subseteq Nat
      /\ \A i \in DOMAIN debugFrames' : debugFrames'[i] \in Nat
  BY StackParsed DEF RenderDebugReport, NoFrames
<1>2. selectedVariable' = FrameDetails(debugFrames', selectedFrame', NoFrame)
  BY DEF RenderDebugReport
<1>3. /\ selectedVariable' \in Nat \cup {NoFrame}
      /\ selectedVariable' = NoFrame <=> VariablesOf(debugFrames', selectedFrame') = 0
      /\ selectedVariable' # NoFrame => selectedVariable' < VariablesOf(debugFrames', selectedFrame')
  BY <1>1, <1>2, DetailsSelect
<1>4. CASE debugFrames' = NoFrames
  <2>1. selectedFrame' = NoFrame
    BY <1>4 DEF RenderDebugReport
  <2>2. QED
    BY <1>1, <1>3, <1>4, <2>1 DEF DebuggerInv, SelectionIsOnShow
<1>5. CASE debugFrames' # NoFrames
  <2>1. selectedFrame' \in DOMAIN debugFrames'
    BY <1>5 DEF RenderDebugReport
  <2>2. selectedFrame' \in Nat /\ selectedFrame' # NoFrame
    BY <1>1, <2>1, DebuggerAssumption
  <2>3. QED
    BY <1>1, <1>3, <1>5, <2>1, <2>2 DEF DebuggerInv, SelectionIsOnShow
<1>6. QED
  BY <1>4, <1>5

LEMMA DebuggerInvStep == DebuggerInv /\ [DebuggerNext]_debuggerVars => DebuggerInv'
<1> SUFFICES ASSUME DebuggerInv, [DebuggerNext]_debuggerVars PROVE DebuggerInv'
  OBVIOUS
<1>0. /\ DOMAIN debugFrames \subseteq Nat /\ \A i \in DOMAIN debugFrames : debugFrames[i] \in Nat
      /\ selectedFrame \in Nat \cup {NoFrame} /\ selectedVariable \in Nat \cup {NoFrame}
      /\ NoFrame \notin Nat
  BY DebuggerAssumption DEF DebuggerInv
<1>1. ASSUME NEW f, SelectDebugFrame(f) PROVE DebuggerInv'
  <2>1. f \in DOMAIN debugFrames /\ selectedFrame' = f /\ debugFrames' = debugFrames
        /\ selectedVariable' = FrameDetails(debugFrames, f, NoFrame)
    BY <1>1 DEF SelectDebugFrame
  <2>2. /\ selectedVariable' \in Nat \cup {NoFrame}
        /\ selectedVariable' = NoFrame <=> VariablesOf(debugFrames, f) = 0
        /\ selectedVariable' # NoFrame => selectedVariable' < VariablesOf(debugFrames, f)
    BY <1>0, <2>1, DetailsSelect
  <2>3. debugFrames # NoFrames /\ f \in Nat /\ f # NoFrame
    BY <1>0, <2>1 DEF NoFrames
  <2>4. QED
    BY <1>0, <2>1, <2>2, <2>3 DEF DebuggerInv, SelectionIsOnShow
<1>2. ASSUME NEW v \in 0..(VariablesOf(debugFrames, selectedFrame) - 1), selectedVariable' = v,
             UNCHANGED <<debugFrames, selectedFrame>>
      PROVE  DebuggerInv'
  <2>1. VariablesOf(debugFrames, selectedFrame) \in Nat
    BY <1>0, VariablesType
  <2>2. v \in Nat /\ v # NoFrame /\ v < VariablesOf(debugFrames, selectedFrame)
        /\ VariablesOf(debugFrames, selectedFrame) # 0
    BY <1>0, <2>1
  <2>3. QED
    BY <1>0, <1>2, <2>2 DEF DebuggerInv, SelectionIsOnShow
<1>3. CASE PressArrow
  <2>1. ASSUME NEW down \in BOOLEAN, selectedVariable # NoFrame,
               selectedVariable' =
                 NextRow(0..(VariablesOf(debugFrames, selectedFrame) - 1), selectedVariable, down),
               UNCHANGED <<debugFrames, selectedFrame>>
        PROVE  DebuggerInv'
    <3> DEFINE n == VariablesOf(debugFrames, selectedFrame)
               i == selectedVariable
               beyond == {j \in 0..n - 1 : IF down THEN j > i ELSE j < i}
    <3>1. n \in Nat /\ i \in 0..n - 1
      <4>1. n \in Nat
        BY <1>0, VariablesType
      <4>2. i \in Nat /\ i < n
        BY <1>0, <2>1 DEF DebuggerInv, SelectionIsOnShow
      <4>3. QED
        BY <4>1, <4>2
    <3>2. CASE beyond = {}
      <4>1. selectedVariable' = i
        BY <2>1, <3>2 DEF NextRow
      <4>2. QED
        BY <1>2, <2>1, <3>1, <4>1
    <3>3. CASE beyond # {}
      <4>1. selectedVariable' = CHOOSE j \in beyond : \A k \in beyond : IF down THEN j <= k ELSE j >= k
        BY <2>1, <3>3 DEF NextRow
      <4>2. \E j \in beyond : \A k \in beyond : IF down THEN j <= k ELSE j >= k
        <5> HIDE DEF n, i
        <5>1. CASE down
          <6>1. i + 1 \in beyond /\ \A k \in beyond : i + 1 <= k
            BY <3>1, <3>3, <5>1
          <6>2. QED
            BY <5>1, <6>1
        <5>2. CASE ~down
          <6>1. i - 1 \in beyond /\ \A k \in beyond : i - 1 >= k
            BY <3>1, <3>3, <5>2
          <6>2. QED
            BY <5>2, <6>1
        <5>3. QED
          BY <5>1, <5>2
      <4>3. selectedVariable' \in beyond
        <5> HIDE DEF beyond
        <5>1. QED
          BY <4>1, <4>2
      <4>4. QED
        BY <1>2, <2>1, <4>3
    <3>4. QED
      BY <3>2, <3>3
  <2>2. QED
    BY <1>1, <1>3, <2>1 DEF PressArrow
<1>4. ASSUME NEW v \in 0..(VariablesOf(debugFrames, selectedFrame) - 1), SelectDebugVariable(v)
      PROVE  DebuggerInv'
  BY <1>2, <1>4 DEF SelectDebugVariable
<1>5. ASSUME NEW a \in asks, Answered(a) PROVE DebuggerInv'
  <2>1. CASE RenderDebugReport([ok |-> TRUE, session |-> 0], [lines |-> 0, frames |-> NoFrames])
    <3> DEFINE r == [ok |-> TRUE, session |-> 0]
               none == [lines |-> 0, frames |-> NoFrames]
    <3>1. r.ok = TRUE /\ RenderDebugReport(r, none)
      BY <2>1
    <3> HIDE DEF r, none
    <3>2. QED
      BY <3>1, ReportSelects
  <2>2. ASSUME NEW stack \in Stacks, NEW s, RenderDebugReport([ok |-> FALSE, session |-> s], stack)
        PROVE  DebuggerInv'
    BY <2>2, ReportSelects
  <2>3. QED
    BY <1>5, <2>1, <2>2 DEF Answered
<1>6. CASE \/ RunDebug \/ RunDebugAction \/ (\E a \in asks : AskFails(a)) \/ UNCHANGED debuggerVars
  <2>1. UNCHANGED <<debugFrames, selectedFrame, selectedVariable>>
    BY <1>6 DEF RunDebug, RunDebugAction, AskFails, debuggerVars
  <2>2. QED
    BY <2>1 DEF DebuggerInv, SelectionIsOnShow
<1>7. QED
  BY <1>1, <1>3, <1>4, <1>5, <1>6 DEF DebuggerNext

(* In whatever order runs and actions are answered, the selected frame is  *)
(* one of the stack on show and the selected variable one of that frame.   *)
THEOREM DebuggerSelectsWhatIsOnShow == DebuggerSpec => []SelectionIsOnShow
<1>1. DebuggerBegins => DebuggerInv
  BY DEF DebuggerBegins, DebuggerInv, SelectionIsOnShow, NoFrames, VariablesOf
<1>2. DebuggerInv => SelectionIsOnShow
  BY DEF DebuggerInv
<1>3. QED
  BY <1>1, <1>2, DebuggerInvStep, PTL DEF DebuggerSpec

-----------------------------------------------------------------------------
(* The windows                                                             *)

(* Windows as they are on show, or in a layout that was stored: at most    *)
(* one is active, and that one open, and those that were ever focused have *)
(* heights of their own, up to z.                                          *)
WindowStates == [open : BOOLEAN, active : BOOLEAN, z : Nat]

Layered(ws, z) ==
  /\ ws \in [Windows -> WindowStates] /\ z \in Nat
  /\ \A v, w \in Windows : ws[v].active /\ ws[w].active => v = w
  /\ \A w \in Windows : ws[w].active => ws[w].open
  /\ \A v, w \in Windows : ws[v].z <= z /\ (v # w /\ ws[v].z = ws[w].z => ws[v].z = 0)

Same(ws) == \A w \in Windows \ Hidden : ws[w].open = win[w].open /\ ws[w].z = win[w].z

WindowsInv ==
  /\ Layered(win, nextWindowZ)
  /\ layout.next # 0 => Layered(layout.windows, layout.next)
  /\ ~unsaved => Same(layout.windows)

LEMMA StateFields ==
  ASSUME NEW s \in WindowStates
  PROVE  /\ s.open \in BOOLEAN /\ s.active \in BOOLEAN /\ s.z \in Nat
BY DEF WindowStates

LEMMA Activated ==
  ASSUME NEW s \in WindowStates, NEW t, t = [s EXCEPT !.active = TRUE]
  PROVE  t \in WindowStates /\ t.open = s.open /\ t.active = TRUE /\ t.z = s.z
BY DEF WindowStates

LEMMA Deactivated ==
  ASSUME NEW s \in WindowStates, NEW t, t = [s EXCEPT !.active = FALSE]
  PROVE  t \in WindowStates /\ t.open = s.open /\ t.active = FALSE /\ t.z = s.z
BY DEF WindowStates

LEMMA Shut ==
  ASSUME NEW s \in WindowStates, NEW t, t = [s EXCEPT !.open = FALSE]
  PROVE  t \in WindowStates /\ t.open = FALSE /\ t.active = s.active /\ t.z = s.z
BY DEF WindowStates

LEMMA FocusLayered ==
  ASSUME NEW ws, NEW z, Layered(ws, z), NEW w \in Windows
  PROVE  Layered(Focused(ws, w, z + 1), z + 1)
<1> DEFINE fs == Focused(ws, w, z + 1)
<1>1. ws \in [Windows -> WindowStates] /\ z \in Nat /\ z + 1 \in Nat
  BY DEF Layered
<1>2. \A v \in Windows : ws[v].z \in Nat /\ ws[v].z <= z /\ ws[v].z # z + 1
  BY <1>1, StateFields DEF Layered
<1>3. fs[w] \in WindowStates /\ fs[w].open = TRUE /\ fs[w].active = TRUE /\ fs[w].z = z + 1
  <2> DEFINE t == fs[w]
  <2>1. t = [open |-> TRUE, active |-> TRUE, z |-> z + 1]
    BY DEF Focused
  <2> HIDE DEF t
  <2>2. t \in WindowStates /\ t.open = TRUE /\ t.active = TRUE /\ t.z = z + 1
    BY <1>1, <2>1 DEF WindowStates
  <2>3. QED
    BY <2>2 DEF t
<1>4. ASSUME NEW v \in Windows, v # w
      PROVE  fs[v] \in WindowStates
             /\ fs[v].open = ws[v].open /\ fs[v].active = FALSE /\ fs[v].z = ws[v].z
  <2> DEFINE t == fs[v]
  <2>1. t = [ws[v] EXCEPT !.active = FALSE] /\ ws[v] \in WindowStates
    BY <1>1, <1>4 DEF Focused
  <2> HIDE DEF t
  <2>2. t \in WindowStates /\ t.open = ws[v].open /\ t.active = FALSE /\ t.z = ws[v].z
    BY <2>1, Deactivated
  <2>3. QED
    BY <2>2 DEF t
<1>5. fs = [v \in Windows |-> fs[v]]
  BY DEF Focused
<1> HIDE DEF fs
<1>6. fs \in [Windows -> WindowStates]
  BY <1>3, <1>4, <1>5
<1>7. Layered(fs, z + 1)
  <2>1. /\ \A v \in Windows : fs[v].active => v = w
        /\ fs[w].open
    BY <1>3, <1>4
  <2>2. \A v \in Windows : fs[v].z = IF v = w THEN z + 1 ELSE ws[v].z
    BY <1>3, <1>4
  <2>3. \A v \in Windows : fs[v].z <= z + 1
    BY <1>1, <1>2, <2>2
  <2>4. \A u, v \in Windows : u # v /\ fs[u].z = fs[v].z => fs[u].z = 0
    <3>1. \A u, v \in Windows : u # v /\ ws[u].z = ws[v].z => ws[u].z = 0
      BY DEF Layered
    <3>2. QED
      BY <1>2, <2>2, <3>1
  <2>5. QED
    BY <1>1, <1>6, <2>1, <2>3, <2>4 DEF Layered
<1>8. QED
  BY <1>7 DEF fs

LEMMA DefaultLayered == Layered(Default, 21)
<1> DEFINE ws == [w \in Windows |-> [open |-> w \in DefaultVisible, active |-> FALSE, z |-> 0]]
<1>1. Layered(ws, 20)
  <2>1. \A w \in Windows : ws[w] \in WindowStates /\ ws[w].z = 0 /\ ws[w].active = FALSE
    BY DEF WindowStates
  <2>2. ws \in [Windows -> WindowStates]
    BY <2>1
  <2> HIDE DEF ws
  <2>3. QED
    BY <2>1, <2>2 DEF Layered
<1>2. Foremost \in Windows /\ 20 + 1 = 21
  BY WindowsAssumption
<1>3. Default = Focused(ws, Foremost, 21)
  BY DEF Default
<1> HIDE DEF ws
<1>4. Layered(Focused(ws, Foremost, 20 + 1), 20 + 1)
  BY <1>1, <1>2, FocusLayered, Zenon
<1>5. QED
  BY <1>2, <1>3, <1>4

(* What is saved is what is on show. *)
LEMMA SaveKeeps ==
  ASSUME WindowsInv, Layered(win', nextWindowZ'), Save
  PROVE  WindowsInv'
BY DEF WindowsInv, Save, Same

LEMMA WindowsInvStep == WindowsInv /\ [WindowsNext]_windowVars => WindowsInv'
<1> SUFFICES ASSUME WindowsInv, [WindowsNext]_windowVars PROVE WindowsInv'
  OBVIOUS
<1>1. ASSUME NEW w \in Windows, FocusWindow(w) PROVE WindowsInv'
  BY <1>1, FocusLayered, SaveKeeps DEF FocusWindow, WindowsInv
<1>2. ASSUME NEW w \in Windows, CloseWindow(w) PROVE WindowsInv'
  <2> DEFINE s == [win[w] EXCEPT !.open = FALSE]
  <2>0. win \in [Windows -> WindowStates]
    BY DEF WindowsInv, Layered
  <2>1. /\ win' = [win EXCEPT ![w] = [s EXCEPT !.active = FALSE]]
        /\ [s EXCEPT !.active = FALSE] \in WindowStates
        /\ [s EXCEPT !.active = FALSE].open = FALSE /\ [s EXCEPT !.active = FALSE].active = FALSE
        /\ [s EXCEPT !.active = FALSE].z = win[w].z
    <3>1. win' = [win EXCEPT ![w] = [s EXCEPT !.active = FALSE]]
      BY <1>2, <2>0 DEF CloseWindow
    <3>2. win[w] \in WindowStates
      BY <2>0
    <3>3. s \in WindowStates /\ s.open = FALSE /\ s.z = win[w].z
      BY <3>2, Shut
    <3> HIDE DEF s
    <3>4. QED
      BY <3>1, <3>3, Deactivated
  <2> HIDE DEF s
  <2>2. win' \in [Windows -> WindowStates]
    BY <2>0, <2>1
  <2>3. Layered(win', nextWindowZ')
    <3>1. \A v \in Windows : v # w => win'[v] = win[v]
      BY <2>0, <2>1
    <3>2. win'[w].open = FALSE /\ win'[w].active = FALSE /\ win'[w].z = win[w].z
      BY <2>0, <2>1
    <3>3. nextWindowZ' = nextWindowZ
      BY <1>2 DEF CloseWindow
    <3>4. \A v \in Windows : win'[v].z = win[v].z /\ (win'[v].active => v # w /\ win[v].active)
      BY <3>1, <3>2
    <3>5. QED
      BY <2>2, <3>1, <3>3, <3>4 DEF WindowsInv, Layered
  <2>4. QED
    BY <1>2, <2>3, SaveKeeps DEF CloseWindow
<1>3. CASE ResetWindows
  <2>1. Layered(win', nextWindowZ')
    BY <1>3, DefaultLayered DEF ResetWindows
  <2>2. CASE Save
    BY <2>1, <2>2, SaveKeeps
  <2>3. CASE layout' = NoLayout /\ unsaved' = TRUE
    BY <2>1, <2>3 DEF WindowsInv, NoLayout
  <2>4. QED
    BY <1>3, <2>2, <2>3 DEF ResetWindows
<1>4. CASE Reopen /\ layout.next # 0
  <2>1. win' \in Restored /\ nextWindowZ' = RestoredZ /\ UNCHANGED <<layout, unsaved>>
    BY <1>4 DEF Reopen
  <2> DEFINE ls == layout.windows
             shows(w) == ls[w].open /\ w \notin Hidden
             ws == [w \in Windows |-> [open |-> shows(w), active |-> shows(w) /\ ls[w].active,
                                       z |-> ls[w].z]]
             open == {w \in Windows : ws[w].open}
             zs == {20, layout.next} \cup {ls[w].z : w \in Windows}
  <2>2. Layered(ls, layout.next)
    BY <1>4 DEF WindowsInv
  <2>3. \A w \in Windows : ls[w] \in WindowStates /\ ls[w].z <= layout.next
    BY <2>2 DEF Layered
  <2>4. RestoredZ \in Nat /\ \A w \in Windows : ls[w].z <= RestoredZ
    <3>1. layout.next \in Nat /\ \A y \in zs : y \in Nat
      BY <2>2, <2>3 DEF Layered, WindowStates
    <3>2. \E z \in zs : \A y \in zs : y <= z
      <4>1. CASE 20 <= layout.next
        BY <2>3, <3>1, <4>1
      <4>2. CASE ~(20 <= layout.next)
        BY <2>3, <3>1, <4>2
      <4>3. QED
        BY <4>1, <4>2
    <3>3. RestoredZ = CHOOSE z \in zs : \A y \in zs : y <= z
      BY DEF RestoredZ
    <3>4. RestoredZ \in zs /\ \A y \in zs : y <= RestoredZ
      <4> HIDE DEF zs
      <4>1. QED
        BY <3>2, <3>3
    <3>5. QED
      BY <3>1, <3>4
  <2>5. \A w \in Windows : ws[w].open \in BOOLEAN /\ ws[w].active \in BOOLEAN /\ ws[w].z = ls[w].z
                           /\ (ws[w].active => ws[w].open /\ ls[w].active)
    BY <2>3 DEF WindowStates
  <2>6. win' = ws \/ (Active(ws) = {} /\ \E w \in open : win' = [ws EXCEPT ![w].active = TRUE])
    <3>1. Restored = IF Active(ws) # {} \/ open = {} THEN {ws}
                     ELSE {[ws EXCEPT ![w].active = TRUE] : w \in open}
      BY DEF Restored
    <3>2. QED
      BY <2>1, <3>1
  <2>7. ASSUME NEW w \in Windows
        PROVE  win'[w].open = ws[w].open /\ win'[w].z = ls[w].z /\ win'[w] \in WindowStates
               /\ (win'[w].active => win'[w].open)
    <3>1. ws[w] \in WindowStates
      BY <2>3, StateFields DEF WindowStates
    <3>2. win'[w] = ws[w] \/ (w \in open /\ win'[w] = [ws[w] EXCEPT !.active = TRUE])
      BY <2>6
    <3>3. w \in open => ws[w].open
      OBVIOUS
    <3> HIDE DEF ws, open
    <3>4. CASE win'[w] = ws[w]
      BY <2>5, <3>1, <3>4
    <3>5. CASE w \in open /\ win'[w] = [ws[w] EXCEPT !.active = TRUE]
      <4>1. win'[w] \in WindowStates /\ win'[w].open = ws[w].open /\ win'[w].z = ws[w].z
        BY <3>1, <3>5, Activated
      <4>2. QED
        BY <2>5, <3>3, <3>5, <4>1
    <3>6. QED
      BY <3>2, <3>4, <3>5
  <2>8. win' \in [Windows -> WindowStates]
    <3>1. DOMAIN win' = Windows /\ win' = [w \in Windows |-> win'[w]]
      BY <2>6
    <3>2. QED
      BY <2>7, <3>1
  <2>9. \A v, w \in Windows : win'[v].active /\ win'[w].active => v = w
    <3>1. CASE win' = ws
      BY <2>2, <2>5, <3>1 DEF Layered
    <3>2. ASSUME Active(ws) = {}, NEW u \in open, win' = [ws EXCEPT ![u].active = TRUE]
          PROVE  \A w \in Windows : win'[w].active => w = u
      BY <2>5, <3>2 DEF Active
    <3>3. QED
      BY <2>6, <3>1, <3>2
  <2>10. Layered(win', nextWindowZ')
    BY <2>1, <2>2, <2>4, <2>7, <2>8, <2>9 DEF Layered
  <2>11. \A w \in Windows \ Hidden : ws[w].open = ls[w].open
    BY <2>3, StateFields
  <2>12. Same(layout.windows)'
    <3> HIDE DEF ws
    <3>1. \A w \in Windows \ Hidden : win'[w].open = ls[w].open /\ win'[w].z = ls[w].z
      BY <2>7, <2>11
    <3>2. QED
      BY <2>1, <3>1 DEF Same
  <2>13. QED
    BY <2>1, <2>10, <2>12 DEF WindowsInv
<1>5. CASE Reopen /\ layout.next = 0
  BY <1>3, <1>5 DEF Reopen
<1>6. CASE UNCHANGED windowVars
  BY <1>6 DEF windowVars, WindowsInv, Same
<1>7. QED
  BY <1>1, <1>2, <1>3, <1>4, <1>5, <1>6 DEF WindowsNext

LEMMA WindowsInvImplies == WindowsInv => LayoutIsKept
<1> SUFFICES ASSUME WindowsInv PROVE LayoutIsKept
  OBVIOUS
<1>1. Cardinality(Active(win)) <= 1
  <2>1. CASE Active(win) = {}
    BY <2>1, FS_EmptySet
  <2>2. ASSUME NEW w \in Active(win) PROVE Cardinality(Active(win)) <= 1
    <3>1. Active(win) = {w}
      BY <2>2 DEF WindowsInv, Layered, Active
    <3>2. Cardinality({w}) = 1
      BY FS_Singleton
    <3>3. QED
      BY <3>1, <3>2
  <2>3. QED
    BY <2>1, <2>2
<1>2. QED
  BY <1>1 DEF WindowsInv, Layered, Active, Same, LayoutIsKept

(* However windows are focused, closed, reset and restored: one at most is *)
(* active and it is open, each stands at a height of its own below the     *)
(* next, and what is stored is what is on show unless the storage refused. *)
THEOREM WindowsKeepTheirLayout == WindowsSpec => []LayoutIsKept
<1>1. WindowsBegin => WindowsInv
  BY DefaultLayered DEF WindowsBegin, WindowsInv, Same
<1>2. QED
  BY <1>1, WindowsInvStep, WindowsInvImplies, PTL DEF WindowsSpec

-----------------------------------------------------------------------------
(* The class browser                                                       *)

Browsers ==
  [dictionary : Dictionaries \cup {Nothing}, class : Classes \cup {Nothing},
   category : Categories \cup {Nothing}, method : Selectors \cup {Nothing},
   meta : BOOLEAN, mode : {"classDefinition", "method"}, dirty : BOOLEAN]

(* What is in the editor is of the class and side of b, and of its method. *)
Matches(b, t) ==
  b.mode = "method" /\ b.class # Nothing /\ t # Message
    => \E s \in Selectors \cup {Nothing} : t.of = Of(b, s) /\ b.method \in {Nothing, s}

(* A selection whose loads end with another text, or an error in its place. *)
Replaces(step, steps, onError) ==
  /\ onError \in {"shown", "side"}
  /\ \/ step = "categories" /\ steps = <<"source">>
     \/ step = "methods" /\ steps # <<>> /\ Head(steps) = "source"

Leads(b, t, f) ==
  /\ f.step \in {"source", "compile"} =>
       \E s \in Selectors \cup {Nothing} :
         f.asked = Of(b, s) /\ (s = Nothing \/ b.method \in {Nothing, s})
  /\ f.step = "source" => t = Message
  /\ Matches(b, t) \/ Replaces(f.step, f.then, f.onError)

Consistent(b, t, fs) ==
  \/ fs = {} /\ Matches(b, t)
  \/ \E f \in fs : fs = {f} /\ Leads(b, t, f)

(* Nothing the user sees replaced is there without having agreed. *)
Agreed(f) == agreed \/ (f.step = "methods" /\ f.then = <<>> /\ f.onError = "ignored")

EditIsDirty ==
  text.is = "edit" =>
    /\ browser.dirty /\ text.was.is # "edit"
    /\ text.was # Message => text.was.of = text.of

BrowserInv ==
  /\ browser \in Browsers
  /\ excused \subseteq {"reselected"} => Consistent(browser, text, flows)
  /\ EditIsDirty
  /\ excused = {} /\ text.is = "edit" => \A f \in flows : Agreed(f)

-----------------------------------------------------------------------------
(* Fields of a browser. *)
LEMMA ModeSet ==
  ASSUME NEW b \in Browsers, NEW m \in {"classDefinition", "method"},
         NEW n, n = [b EXCEPT !.mode = m, !.dirty = FALSE]
  PROVE  /\ n \in Browsers /\ n.dictionary = b.dictionary /\ n.class = b.class /\ n.meta = b.meta
         /\ n.method = b.method /\ n.mode = m
BY DEF Browsers

LEMMA MethodSet ==
  ASSUME NEW b \in Browsers, NEW s \in Selectors \cup {Nothing}, NEW n, n = [b EXCEPT !.method = s]
  PROVE  /\ n \in Browsers /\ n.dictionary = b.dictionary /\ n.class = b.class /\ n.meta = b.meta
         /\ n.method = s /\ n.mode = b.mode /\ n.dirty = b.dirty
BY DEF Browsers

LEMMA CategorySet ==
  ASSUME NEW b \in Browsers, NEW g \in Categories \cup {Nothing}, NEW n, n = CategorySelected(b, g)
  PROVE  /\ n \in Browsers /\ n.dictionary = b.dictionary /\ n.class = b.class /\ n.meta = b.meta
         /\ n.method = Nothing /\ n.mode = b.mode /\ n.dirty = b.dirty
BY DEF Browsers, CategorySelected

LEMMA ClassSet ==
  ASSUME NEW b \in Browsers, NEW c \in Classes \cup {Nothing}, NEW n, n = ClassSelected(b, c)
  PROVE  /\ n \in Browsers /\ n.dictionary = b.dictionary /\ n.class = c /\ n.meta = b.meta
         /\ n.method = Nothing /\ n.mode = b.mode /\ n.dirty = b.dirty
BY DEF Browsers, ClassSelected

LEMMA DictionarySet ==
  ASSUME NEW b \in Browsers, NEW d \in Dictionaries \cup {Nothing},
         NEW n, n = [ClassSelected(b, Nothing) EXCEPT !.dictionary = d]
  PROVE  n \in Browsers /\ n.class = Nothing
BY DEF Browsers, ClassSelected

LEMMA SideSet ==
  ASSUME NEW b \in Browsers, NEW n, n = [b EXCEPT !.meta = ~@, !.method = Nothing]
  PROVE  n \in Browsers /\ n.class = b.class /\ n.method = Nothing /\ n.mode = b.mode /\ n.dirty = b.dirty
BY DEF Browsers

LEMMA DirtySet ==
  ASSUME NEW b \in Browsers, NEW v \in BOOLEAN, NEW n, n = [b EXCEPT !.dirty = v]
  PROVE  /\ n \in Browsers /\ n.dictionary = b.dictionary /\ n.class = b.class /\ n.meta = b.meta
         /\ n.method = b.method /\ n.mode = b.mode /\ n.dirty = v
BY DEF Browsers

LEMMA OfSame ==
  ASSUME NEW b, NEW n, n.dictionary = b.dictionary, n.class = b.class, n.meta = b.meta, NEW s
  PROVE  Of(n, s) = Of(b, s)
BY DEF Of

LEMMA OfMethod ==
  ASSUME NEW b, NEW r, NEW s
  PROVE  /\ Of(b, r)[4] = r
         /\ [Of(b, r) EXCEPT ![4] = s] = Of(b, s)
BY DEF Of

LEMMA TextFields ==
  /\ Message.is = "message"
  /\ \A of : Source(of).is = "source" /\ Source(of).of = of /\ Source(of) # Message
BY DEF Message, Source

LEMMA LoadNames ==
  \A s \in {"categories", "methods", "source", "compile", "remove"} : s \notin Selectors
BY BrowserAssumption

(* What awaiting the next load leaves: nothing more to load, an empty      *)
(* editor and a source on its way, or a list on its way and no change.     *)
Over(others, b, t)  == browser' = b /\ text' = t /\ flows' = others

Asks(others, b) ==
  /\ browser'.class = b.class /\ text' = Message
  /\ \E f : /\ flows' = others \cup {f} /\ f.step = "source"
            /\ f.asked = Of(browser', browser'.method)

Lists(others, b, t, steps, onError) ==
  /\ browser' = b /\ text' = t
  /\ \E f : /\ flows' = others \cup {f} /\ f.step = Head(steps) /\ f.then = Tail(steps)
            /\ f.onError = onError /\ f.asked = Of(b, b.method)

LEMMA AwaitCases ==
  ASSUME NEW others, NEW b \in Browsers, NEW t, NEW steps, NEW onError,
         Await(others, b, t, steps, onError)
  PROVE  /\ browser' \in Browsers
         /\ \/ (steps = <<>> \/ b.class = Nothing) /\ Over(others, b, t)
            \/ /\ steps # <<>> /\ b.class # Nothing
               /\ Head(steps) \in Selectors \cup {"source"}
               /\ Asks(others, b)
            \/ /\ steps # <<>> /\ b.class # Nothing
               /\ Head(steps) \notin Selectors \cup {"source"}
               /\ Lists(others, b, t, steps, onError)
<1>1. CASE steps = <<>> \/ b.class = Nothing
  BY <1>1 DEF Await, Over
<1>2. CASE steps # <<>> /\ b.class # Nothing /\ Head(steps) \in Selectors \cup {"source"}
  <2> DEFINE at == IF Head(steps) \in Selectors THEN [b EXCEPT !.method = Head(steps)] ELSE b
             f  == [step |-> "source", asked |-> Of(at, at.method), then |-> Tail(steps), onError |-> onError]
             m  == IF at.method = Nothing THEN "classDefinition" ELSE "method"
  <2>1. flows' = others \cup {f} /\ browser' = [at EXCEPT !.mode = m, !.dirty = FALSE] /\ text' = Message
    BY <1>2, LoadNames DEF Await, SetClassSource
  <2>2. at \in Browsers /\ at.class = b.class
    BY <1>2, MethodSet
  <2>3. m \in {"classDefinition", "method"}
    OBVIOUS
  <2>4. f.step = "source" /\ f.asked = Of(at, at.method)
    OBVIOUS
  <2> HIDE DEF at, f, m
  <2>5. /\ browser' \in Browsers /\ browser'.dictionary = at.dictionary /\ browser'.class = at.class
        /\ browser'.meta = at.meta /\ browser'.method = at.method
    BY <2>1, <2>2, <2>3, ModeSet
  <2>6. f.asked = Of(browser', browser'.method)
    BY <2>4, <2>5, OfSame
  <2>7. QED
    BY <1>2, <2>1, <2>2, <2>4, <2>5, <2>6 DEF Asks
<1>3. CASE steps # <<>> /\ b.class # Nothing /\ Head(steps) \notin Selectors \cup {"source"}
  <2> DEFINE f == [step |-> Head(steps), asked |-> Of(b, b.method), then |-> Tail(steps), onError |-> onError]
  <2>1. flows' = others \cup {f} /\ browser' = b /\ text' = t
    BY <1>3 DEF Await
  <2>2. /\ f.step = Head(steps) /\ f.then = Tail(steps) /\ f.onError = onError
        /\ f.asked = Of(b, b.method)
    OBVIOUS
  <2> HIDE DEF f
  <2>3. QED
    BY <1>3, <2>1, <2>2 DEF Lists
<1>4. QED
  BY <1>1, <1>2, <1>3

LEMMA MethodIsName == \A b \in Browsers : b.method \in Selectors \cup {Nothing}
BY DEF Browsers

(* After a handler, or an answer that is followed by another load, what is *)
(* in the editor matches, or is going to be replaced.                      *)
LEMMA AwaitConsistent ==
  ASSUME NEW b \in Browsers, NEW t, NEW steps, NEW onError, Await({}, b, t, steps, onError),
         \/ Matches(b, t)
         \/ /\ steps # <<>> /\ onError \in {"shown", "side"}
            /\ \/ Head(steps) = "source" \/ Replaces(Head(steps), Tail(steps), onError)
  PROVE  browser' \in Browsers /\ Consistent(browser', text', flows')
<1>1. CASE (steps = <<>> \/ b.class = Nothing) /\ Over({}, b, t)
  BY <1>1 DEF Over, Consistent, Matches
<1>2. CASE Asks({}, b)
  <2>1. PICK f : flows' = {} \cup {f} /\ f.step = "source" /\ f.asked = Of(browser', browser'.method)
    BY <1>2 DEF Asks
  <2>2. Leads(browser', text', f)
    BY <1>2, <2>1, AwaitCases, MethodIsName DEF Leads, Matches, Asks
  <2>3. QED
    BY <2>1, <2>2, AwaitCases DEF Consistent
<1>3. CASE /\ steps # <<>> /\ Head(steps) \notin Selectors \cup {"source"}
           /\ Lists({}, b, t, steps, onError)
  <2>1. PICK f : /\ flows' = {} \cup {f} /\ f.step = Head(steps) /\ f.then = Tail(steps)
                 /\ f.onError = onError /\ f.asked = Of(b, b.method)
    BY <1>3 DEF Lists
  <2>2. browser' = b /\ text' = t /\ b.method \in Selectors \cup {Nothing}
    BY <1>3, MethodIsName DEF Lists
  <2>3. Matches(b, t) \/ Replaces(f.step, f.then, f.onError)
    BY <1>3, <2>1
  <2>4. Leads(browser', text', f)
    BY <1>3, <2>1, <2>2, <2>3 DEF Leads
  <2>5. QED
    BY <2>1, <2>2, <2>4 DEF Consistent
<1>4. QED
  BY <1>1, <1>2, <1>3, AwaitCases

(* An edit stays only with the selection it was made in. *)
LEMMA AwaitKeeps ==
  ASSUME NEW others, NEW b \in Browsers, NEW t, NEW steps, NEW onError,
         Await(others, b, t, steps, onError)
  PROVE  /\ text' \in {t, Message}
         /\ text'.is = "edit" => text' = t /\ browser' = b
<1>1. CASE Over(others, b, t) \/ Lists(others, b, t, steps, onError)
  BY <1>1 DEF Over, Lists
<1>2. CASE Asks(others, b)
  BY <1>2, TextFields DEF Asks
<1>3. QED
  BY <1>1, <1>2, AwaitCases

KeptWindow == text.is = "edit" /\ text' # text /\ excused' = {} => agreed'

(* A user who does not overlap selections finds no load under way. *)
LEMMA NobodyWaits ==
  ASSUME BrowserInv, NEW ways, Goes(ways), excused' \subseteq {"reselected"}
  PROVE  /\ flows = {} /\ Matches(browser, text)
         /\ excused' = {} => excused = {}
BY DEF BrowserInv, Goes, AndOthers, Consistent

(* What a handler of the user's leaves. *)
LEMMA Handled ==
  ASSUME BrowserInv, NEW ways, Goes(ways), NEW b \in Browsers, NEW steps, NEW onError,
         Handle(b, steps, onError), b.dirty = browser.dirty,
         Matches(browser, text) =>
           \/ Matches(b, text)
           \/ /\ steps # <<>> /\ onError \in {"shown", "side"}
              /\ \/ Head(steps) = "source" \/ Replaces(Head(steps), Tail(steps), onError),
         excused' = {} /\ text.is = "edit" =>
           agreed' \/ (steps = <<"methods">> /\ onError = "ignored")
  PROVE  BrowserInv' /\ KeptWindow
<1>1. Await(flows, b, text, steps, onError)
  BY DEF Handle
<1>2. browser' \in Browsers
  BY <1>1, AwaitCases
<1>3. ASSUME excused' \subseteq {"reselected"} PROVE Consistent(browser', text', flows')
  <2>1. flows = {} /\ Matches(browser, text)
    BY <1>3, NobodyWaits
  <2>2. QED
    BY <1>1, <2>1, AwaitConsistent
<1>4. text' \in {text, Message} /\ (text'.is = "edit" => text' = text /\ browser' = b)
  BY <1>1, AwaitKeeps
<1>5. EditIsDirty'
  BY <1>4 DEF BrowserInv, EditIsDirty
<1>6. ASSUME steps = <<"methods">>, onError = "ignored", excused' = {}
      PROVE  text' = text /\ \A f \in flows' : Agreed(f)'
  <2>1. flows = {}
    BY <1>6, NobodyWaits
  <2>2. Head(steps) = "methods" /\ Tail(steps) = <<>> /\ "methods" \notin Selectors
    BY <1>6, LoadNames
  <2>3. CASE Over({}, b, text)
    BY <2>3 DEF Over
  <2>4. CASE Lists({}, b, text, steps, onError)
    BY <1>6, <2>2, <2>4 DEF Lists, Agreed
  <2>5. QED
    BY <1>1, <1>6, <2>1, <2>2, <2>3, <2>4, AwaitCases
<1>7. ASSUME excused' = {}, text'.is = "edit" PROVE \A f \in flows' : Agreed(f)'
  BY <1>4, <1>6, <1>7 DEF Agreed
<1>8. KeptWindow
  BY <1>6 DEF KeptWindow
<1>9. QED
  BY <1>2, <1>3, <1>5, <1>7, <1>8 DEF BrowserInv

(* What an answer leaves that is followed by another load, if any. *)
LEMMA AnswerHandled ==
  ASSUME BrowserInv, NEW f \in flows, agreed' = agreed, excused \subseteq excused',
         NEW b \in Browsers, NEW t, NEW steps, NEW onError,
         Await(flows \ {f}, b, t, steps, onError),
         t.is = "edit" => t = text /\ b.dirty = browser.dirty,
         Leads(browser, text, f) =>
           \/ Matches(b, t)
           \/ /\ steps # <<>> /\ onError \in {"shown", "side"}
              /\ \/ Head(steps) = "source" \/ Replaces(Head(steps), Tail(steps), onError),
         Agreed(f) => agreed \/ (steps = <<>> /\ t = text)
  PROVE  BrowserInv' /\ KeptWindow
<1>1. browser' \in Browsers
  BY AwaitCases
<1>2. ASSUME excused' \subseteq {"reselected"}
      PROVE  flows \ {f} = {} /\ Leads(browser, text, f)
  BY <1>2 DEF BrowserInv, Consistent
<1>3. ASSUME excused' \subseteq {"reselected"} PROVE Consistent(browser', text', flows')
  BY <1>2, <1>3, AwaitConsistent
<1>4. text' \in {t, Message} /\ (text'.is = "edit" => text' = t /\ browser' = b)
  BY AwaitKeeps
<1>5. EditIsDirty'
  BY <1>4 DEF BrowserInv, EditIsDirty
<1>6. ASSUME excused' = {}, text.is = "edit", ~agreed PROVE text' = text /\ flows' = {}
  <2>1. steps = <<>> /\ t = text
    BY <1>6 DEF BrowserInv
  <2>2. Over(flows \ {f}, b, t)
    BY <2>1, AwaitCases
  <2>3. QED
    BY <1>2, <1>6, <2>1, <2>2 DEF Over
<1>7. ASSUME excused' = {}, text'.is = "edit" PROVE \A g \in flows' : Agreed(g)'
  <2>1. text.is = "edit"
    BY <1>4, <1>7
  <2>2. QED
    BY <1>6, <1>7, <2>1 DEF Agreed
<1>8. KeptWindow
  BY <1>6 DEF KeptWindow
<1>9. QED
  BY <1>1, <1>3, <1>5, <1>7, <1>8 DEF BrowserInv

(* The handlers of the user's. *)
LEMMA SelectsDictionary ==
  ASSUME BrowserInv, NEW d \in Dictionaries, SelectClassBrowserDictionary(d)
  PROVE  BrowserInv' /\ KeptWindow
<1> DEFINE b == [ClassSelected(browser, Nothing) EXCEPT !.dictionary = d]
           f == [step |-> "classes", asked |-> <<d>>, then |-> <<>>, onError |-> "shown"]
<1>1. /\ browser' = [b EXCEPT !.mode = "classDefinition", !.dirty = FALSE] /\ text' = Message
      /\ flows' = flows \cup {f} /\ agreed' = (agreed \/ browser.dirty) /\ Goes({})
  BY DEF SelectClassBrowserDictionary, SetClassSource, Confirmed
<1>2. b \in Browsers /\ f.step = "classes"
  BY DictionarySet DEF BrowserInv
<1> HIDE DEF b, f
<1>3. browser' \in Browsers /\ browser'.mode = "classDefinition"
  BY <1>1, <1>2, ModeSet
<1>4. ASSUME excused' \subseteq {"reselected"} PROVE Consistent(browser', text', flows')
  BY <1>1, <1>2, <1>3, <1>4, NobodyWaits DEF Consistent, Leads, Matches
<1>5. text.is = "edit" => agreed'
  BY <1>1 DEF BrowserInv, EditIsDirty
<1>6. QED
  BY <1>1, <1>3, <1>4, <1>5, TextFields DEF BrowserInv, EditIsDirty, KeptWindow

LEMMA DefinitionSteps ==
  /\ Definition # <<>> /\ Head(Definition) = "categories" /\ Tail(Definition) = <<"source">>
  /\ \A onError \in {"shown", "side"} : Replaces(Head(Definition), Tail(Definition), onError)
BY DEF Definition, Replaces

LEMMA SelectsClass ==
  ASSUME BrowserInv, NEW c \in Classes, SelectClassBrowserClass(c)
  PROVE  BrowserInv' /\ KeptWindow
<1> DEFINE b == ClassSelected(browser, c)
<1>1. PICK ways : /\ Goes(ways) /\ Handle(b, Definition, "shown")
                  /\ \/ agreed' = (agreed \/ browser.dirty)
                     \/ ways = IF browser.dirty THEN {"reselected"} ELSE {}
  BY DEF SelectClassBrowserClass, Confirmed
<1>2. b \in Browsers /\ b.dirty = browser.dirty
  BY ClassSet DEF BrowserInv
<1>3. excused' = {} /\ text.is = "edit" => agreed'
  BY <1>1 DEF BrowserInv, EditIsDirty, Goes, AndOthers
<1> HIDE DEF b
<1>4. QED
  BY <1>1, <1>2, <1>3, DefinitionSteps, Handled

LEMMA SelectsCategory ==
  ASSUME BrowserInv, NEW g \in Categories, SelectClassBrowserCategory(g)
  PROVE  BrowserInv' /\ KeptWindow
<1> DEFINE b == CategorySelected(browser, g)
<1>1. PICK steps : /\ Goes({}) /\ Handle(b, steps, "ignored")
                   /\ steps = <<"methods">> \/ agreed' = (agreed \/ browser.dirty)
  BY DEF SelectClassBrowserCategory, Confirmed
<1>2. /\ b \in Browsers /\ b.dirty = browser.dirty /\ b.method = Nothing /\ b.mode = browser.mode
      /\ b.dictionary = browser.dictionary /\ b.class = browser.class /\ b.meta = browser.meta
  BY CategorySet DEF BrowserInv
<1>3. Matches(browser, text) => Matches(b, text)
  BY <1>2, OfSame DEF Matches
<1>4. text.is = "edit" => agreed' \/ steps = <<"methods">>
  BY <1>1 DEF BrowserInv, EditIsDirty
<1> HIDE DEF b
<1>5. QED
  BY <1>1, <1>2, <1>3, <1>4, Handled

LEMMA SelectsMethod ==
  ASSUME BrowserInv, NEW s \in Selectors, SelectClassBrowserMethod(s)
  PROVE  BrowserInv' /\ KeptWindow
<1> DEFINE b == [browser EXCEPT !.method = s]
<1>1. PICK ways : /\ Goes(ways) /\ Handle(b, <<"source">>, "shown")
                  /\ \/ agreed' = (agreed \/ browser.dirty)
                     \/ ways = IF browser.dirty THEN {"reselected"} ELSE {}
  BY DEF SelectClassBrowserMethod, Confirmed
<1>2. b \in Browsers /\ b.dirty = browser.dirty
  BY MethodSet DEF BrowserInv
<1>3. excused' = {} /\ text.is = "edit" => agreed'
  BY <1>1 DEF BrowserInv, EditIsDirty, Goes, AndOthers
<1>4. <<"source">> # <<>> /\ Head(<<"source">>) = "source"
  OBVIOUS
<1> HIDE DEF b
<1>5. QED
  BY <1>1, <1>2, <1>3, <1>4, Handled

LEMMA ChangesSide ==
  ASSUME BrowserInv, ChangeMeta
  PROVE  BrowserInv' /\ KeptWindow
<1> DEFINE b == [browser EXCEPT !.meta = ~@, !.method = Nothing]
<1>1. Goes({}) /\ Handle(b, Definition, "side") /\ agreed' = (agreed \/ browser.dirty)
  BY DEF ChangeMeta, Confirmed
<1>2. b \in Browsers /\ b.dirty = browser.dirty
  BY SideSet DEF BrowserInv
<1>3. text.is = "edit" => agreed'
  BY <1>1 DEF BrowserInv, EditIsDirty
<1> HIDE DEF b
<1>4. QED
  BY <1>1, <1>2, <1>3, DefinitionSteps, Handled

LEMMA BrowsesClass ==
  ASSUME BrowserInv, BrowseClass
  PROVE  BrowserInv' /\ KeptWindow
<1> DEFINE b == [browser EXCEPT !.method = Nothing]
<1>1. Goes({}) /\ Handle(b, <<"source">>, "shown") /\ agreed' = (agreed \/ browser.dirty)
  BY DEF BrowseClass, Confirmed
<1>2. b \in Browsers /\ b.dirty = browser.dirty
  BY MethodSet DEF BrowserInv
<1>3. text.is = "edit" => agreed'
  BY <1>1 DEF BrowserInv, EditIsDirty
<1>4. <<"source">> # <<>> /\ Head(<<"source">>) = "source"
  OBVIOUS
<1> HIDE DEF b
<1>5. QED
  BY <1>1, <1>2, <1>3, <1>4, Handled

LEMMA Refreshes ==
  ASSUME BrowserInv, RefreshClassSource
  PROVE  BrowserInv' /\ KeptWindow
<1> DEFINE s == IF browser.mode = "method" THEN browser.method ELSE Nothing
           m == IF s = Nothing THEN "classDefinition" ELSE "method"
           f == [step |-> "source", asked |-> Of(browser, s), then |-> <<>>, onError |-> "shown"]
<1>1. /\ browser' = [browser EXCEPT !.mode = m, !.dirty = FALSE] /\ text' = Message
      /\ flows' = flows \cup {f} /\ agreed' = (agreed \/ browser.dirty) /\ Goes({})
  BY DEF RefreshClassSource, SetClassSource, Confirmed
<1>2. /\ s \in Selectors \cup {Nothing} /\ (s = Nothing \/ browser.method = s)
      /\ m \in {"classDefinition", "method"} /\ f.step = "source" /\ f.asked = Of(browser, s)
  BY MethodIsName DEF BrowserInv
<1> HIDE DEF s, m, f
<1>3. /\ browser' \in Browsers /\ browser'.dictionary = browser.dictionary
      /\ browser'.class = browser.class /\ browser'.meta = browser.meta /\ browser'.method = browser.method
  BY <1>1, <1>2, ModeSet DEF BrowserInv
<1>4. f.asked = Of(browser', s)
  BY <1>2, <1>3, OfSame
<1>5. Leads(browser', text', f)
  BY <1>1, <1>2, <1>3, <1>4 DEF Leads, Matches
<1>6. ASSUME excused' \subseteq {"reselected"} PROVE Consistent(browser', text', flows')
  BY <1>1, <1>5, <1>6, NobodyWaits DEF Consistent
<1>7. text.is = "edit" => agreed'
  BY <1>1 DEF BrowserInv, EditIsDirty
<1>8. QED
  BY <1>1, <1>3, <1>6, <1>7, TextFields DEF BrowserInv, EditIsDirty, KeptWindow

LEMMA NewMethod ==
  ASSUME BrowserInv, NewClassBrowserMethod
  PROVE  BrowserInv' /\ KeptWindow
<1> DEFINE b == [browser EXCEPT !.method = Nothing]
<1>1. /\ browser' = [b EXCEPT !.mode = "method", !.dirty = FALSE]
      /\ text' = Source(Of(browser, Nothing))
      /\ flows' = flows /\ agreed' = (agreed \/ browser.dirty) /\ Goes({})
  BY DEF NewClassBrowserMethod, SetClassSource, Confirmed
<1>2. /\ b \in Browsers /\ b.dictionary = browser.dictionary /\ b.class = browser.class
      /\ b.meta = browser.meta /\ b.method = Nothing
  BY MethodSet DEF BrowserInv
<1> HIDE DEF b
<1>3. /\ browser' \in Browsers /\ browser'.dictionary = browser.dictionary
      /\ browser'.class = browser.class /\ browser'.meta = browser.meta /\ browser'.method = Nothing
  BY <1>1, <1>2, ModeSet
<1>4. Matches(browser', text')
  <2>1. Of(browser', Nothing) = Of(browser, Nothing)
    BY <1>3, OfSame
  <2>2. text'.of = Of(browser, Nothing)
    BY <1>1, TextFields
  <2>3. QED
    BY <1>3, <2>1, <2>2 DEF Matches
<1>5. ASSUME excused' \subseteq {"reselected"} PROVE Consistent(browser', text', flows')
  BY <1>1, <1>4, <1>5, NobodyWaits DEF Consistent
<1>6. text.is = "edit" => agreed'
  BY <1>1 DEF BrowserInv, EditIsDirty
<1>7. QED
  BY <1>1, <1>3, <1>5, <1>6, TextFields DEF BrowserInv, EditIsDirty, KeptWindow

LEMMA Types ==
  ASSUME BrowserInv, MarkClassSourceDirty
  PROVE  BrowserInv' /\ KeptWindow
<1> DEFINE of == IF text = Message THEN Of(browser, browser.method) ELSE text.of
           t  == [is |-> "edit", of |-> of, was |-> text]
<1>1. /\ text.is # "edit" /\ text' = t /\ browser' = [browser EXCEPT !.dirty = TRUE]
      /\ flows' = flows /\ Goes({})
  BY DEF MarkClassSourceDirty
<1>2. t.is = "edit" /\ t.of = of /\ t.was = text
  OBVIOUS
<1>3. /\ text = Message => of = Of(browser, browser.method)
      /\ text # Message => of = text.of
  OBVIOUS
<1> HIDE DEF of, t
<1>4. /\ browser' \in Browsers /\ browser'.dictionary = browser.dictionary
      /\ browser'.class = browser.class /\ browser'.meta = browser.meta
      /\ browser'.method = browser.method /\ browser'.mode = browser.mode /\ browser'.dirty = TRUE
  BY <1>1, DirtySet DEF BrowserInv
<1>5. ASSUME excused' \subseteq {"reselected"} PROVE Consistent(browser', text', flows')
  <2>1. flows = {} /\ Matches(browser, text)
    BY <1>1, <1>5, NobodyWaits
  <2>2. \A s : Of(browser', s) = Of(browser, s)
    BY <1>4, OfSame
  <2>0. /\ browser'.class = browser.class /\ browser'.method = browser.method
        /\ browser'.mode = browser.mode
    BY <1>4
  <2>3. ASSUME text = Message PROVE Matches(browser', text')
    <3>1. browser.method \in Selectors \cup {Nothing}
      BY MethodIsName DEF BrowserInv
    <3>2. text'.of = Of(browser', browser.method)
      BY <1>1, <1>2, <1>3, <2>2, <2>3
    <3>3. QED
      BY <2>0, <3>1, <3>2 DEF Matches
  <2>4. ASSUME text # Message PROVE Matches(browser', text')
    <3>1. text'.of = text.of
      BY <1>1, <1>2, <1>3, <2>4
    <3>2. QED
      BY <2>0, <2>1, <2>2, <2>4, <3>1 DEF Matches
  <2>5. QED
    BY <1>1, <2>1, <2>3, <2>4 DEF Consistent
<1>6. ASSUME excused' = {} PROVE flows' = {}
  BY <1>1, <1>6, NobodyWaits
<1>7. EditIsDirty'
  BY <1>1, <1>2, <1>3, <1>4 DEF EditIsDirty
<1>8. QED
  BY <1>1, <1>4, <1>5, <1>6, <1>7 DEF BrowserInv, KeptWindow

LEMMA Reverts ==
  ASSUME BrowserInv, RevertClassSource
  PROVE  BrowserInv' /\ KeptWindow
<1>1. /\ text.is = "edit" /\ text' = text.was /\ browser' = [browser EXCEPT !.dirty = FALSE]
      /\ flows' = flows /\ agreed' = TRUE /\ Goes({})
  BY DEF RevertClassSource
<1>2. /\ browser' \in Browsers /\ browser'.dictionary = browser.dictionary
      /\ browser'.class = browser.class /\ browser'.meta = browser.meta
      /\ browser'.method = browser.method /\ browser'.mode = browser.mode
  BY <1>1, DirtySet DEF BrowserInv
<1>3. text'.is # "edit" /\ (text' # Message => text'.of = text.of) /\ text # Message
  BY <1>1, TextFields DEF BrowserInv, EditIsDirty
<1>4. ASSUME excused' \subseteq {"reselected"} PROVE Consistent(browser', text', flows')
  <2>1. flows = {} /\ Matches(browser, text)
    BY <1>1, <1>4, NobodyWaits
  <2>2. \A s : Of(browser', s) = Of(browser, s)
    BY <1>2, OfSame
  <2>3. Matches(browser', text')
    BY <1>2, <1>3, <2>1, <2>2 DEF Matches
  <2>4. QED
    BY <1>1, <2>1, <2>3 DEF Consistent
<1>5. QED
  BY <1>1, <1>2, <1>3, <1>4 DEF BrowserInv, EditIsDirty, KeptWindow

LEMMA Sends ==
  ASSUME BrowserInv, SubmitClassBrowserSource \/ RemoveClassBrowserMethod
  PROVE  BrowserInv' /\ KeptWindow
<1>1. PICK steps : Goes({}) /\ Handle(browser, steps, "told") /\ agreed' = TRUE
  BY DEF SubmitClassBrowserSource, RemoveClassBrowserMethod
<1>2. QED
  BY <1>1, Handled DEF BrowserInv

LEMMA Describes ==
  ASSUME BrowserInv, DescribeClass
  PROVE  BrowserInv' /\ KeptWindow
<1>1. "described" \in excused' /\ browser' = browser
  BY DEF DescribeClass, Goes, AndOthers
<1>2. text'.is # "edit"
  BY TextFields DEF DescribeClass
<1>3. QED
  BY <1>1, <1>2 DEF BrowserInv, EditIsDirty, KeptWindow

-----------------------------------------------------------------------------
(* What follows the first of a sequence of steps. *)
LEMMA One ==
  ASSUME NEW S, NEW x \in S
  PROVE  /\ <<x>> \in Seq(S) /\ Len(<<x>>) = 1 /\ <<x>>[1] = x
         /\ <<x>> # <<>> /\ Head(<<x>>) = x
OBVIOUS

LEMMA Follows ==
  ASSUME NEW S, NEW x \in S, NEW rest \in Seq(S)
  PROVE  /\ <<x>> \o rest # <<>> /\ Head(<<x>> \o rest) = x /\ Tail(<<x>> \o rest) = rest
<1>1. <<x>> \in Seq(S) /\ Len(<<x>>) = 1 /\ <<x>>[1] = x
  BY One
<1> DEFINE s == <<x>> \o rest
<1>2. /\ s \in Seq(S) /\ Len(s) = 1 + Len(rest)
      /\ \A i \in 1..(1 + Len(rest)) : s[i] = IF i <= 1 THEN <<x>>[i] ELSE rest[i - 1]
  BY <1>1, ConcatProperties
<1> HIDE DEF s
<1>3. Len(rest) \in Nat
  BY LenProperties
<1>4. s # <<>> /\ s[1] = x
  BY <1>1, <1>2, <1>3
<1>5. Head(s) = x
  BY <1>2, <1>4, HeadTailProperties
<1>6. /\ Tail(s) \in Seq(S) /\ Len(Tail(s)) = Len(s) - 1
      /\ \A i \in 1..Len(Tail(s)) : Tail(s)[i] = s[i + 1]
  BY <1>2, <1>4, HeadTailProperties
<1>7. Len(Tail(s)) = Len(rest)
  BY <1>2, <1>3, <1>6
<1>8. ASSUME NEW i \in 1..Len(rest) PROVE Tail(s)[i] = rest[i]
  <2>1. i + 1 \in 1..(1 + Len(rest)) /\ ~(i + 1 <= 1) /\ (i + 1) - 1 = i
    BY <1>3
  <2>2. Tail(s)[i] = s[i + 1]
    BY <1>6, <1>7
  <2>3. QED
    BY <1>2, <2>1, <2>2
<1>9. Tail(s) = rest
  BY <1>6, <1>7, <1>8, SeqEqual
<1>10. QED
  BY <1>4, <1>5, <1>9 DEF s

LEMMA Steps ==
  \A s \in {(<<"methods">> \o <<>>) \o <<"source">>, (<<"methods">> \o <<"source">>) \o <<"source">>} :
    s # <<>> /\ Head(s) = "methods" /\ Tail(s) # <<>> /\ Head(Tail(s)) = "source"
<1>1. /\ <<"methods">> \in Seq({"methods", "source"}) /\ <<"source">> \in Seq({"methods", "source"}) /\ <<"source">> # <<>>
      /\ Head(<<"source">>) = "source" /\ <<>> \in Seq({"methods", "source"})
  BY One, EmptySeq
<1>2. <<"methods">> \o <<>> = <<"methods">>
  BY <1>1, ConcatEmptySeq
<1>3. (<<"methods">> \o <<"source">>) \o <<"source">> = <<"methods">> \o (<<"source">> \o <<"source">>)
  BY <1>1, ConcatAssociative
<1>4. /\ <<"source">> \o <<"source">> \in Seq({"methods", "source"}) /\ <<"source">> \o <<"source">> # <<>>
      /\ Head(<<"source">> \o <<"source">>) = "source"
  BY <1>1, Follows, ConcatProperties
<1>5. ASSUME NEW rest \in Seq({"methods", "source"})
      PROVE  /\ <<"methods">> \o rest # <<>> /\ Head(<<"methods">> \o rest) = "methods"
             /\ Tail(<<"methods">> \o rest) = rest
  BY Follows
<1>6. QED
  BY <1>1, <1>2, <1>3, <1>4, <1>5, Zenon

(* The answers. *)
LEMMA ClassesAnswer ==
  ASSUME BrowserInv, NEW f \in flows, f.step = "classes", UNCHANGED <<agreed, excused>>,
         ClassesArrive(f, flows \ {f})
  PROVE  BrowserInv' /\ KeptWindow
<1>1. CASE browser' = browser /\ text' = text /\ flows' = flows \ {f}
  <2>1. ASSUME excused' \subseteq {"reselected"} PROVE flows' = {} /\ Matches(browser, text)
    BY <1>1, <2>1 DEF BrowserInv, Consistent, Leads, Replaces
  <2>2. excused' = {} => flows' = {}
    BY <2>1
  <2>3. QED
    BY <1>1, <2>1, <2>2 DEF BrowserInv, Consistent, EditIsDirty, KeptWindow
<1>2. ASSUME NEW c \in Classes, Await(flows \ {f}, ClassSelected(browser, c), text, Definition, "shown")
      PROVE  BrowserInv' /\ KeptWindow
  <2> DEFINE b == ClassSelected(browser, c)
  <2>1. b \in Browsers /\ b.dirty = browser.dirty
    BY ClassSet DEF BrowserInv
  <2>2. Agreed(f) => agreed
    BY DEF Agreed
  <2>3. Await(flows \ {f}, b, text, Definition, "shown")
    BY <1>2
  <2> HIDE DEF b
  <2>4. QED
    BY <2>1, <2>2, <2>3, DefinitionSteps, AnswerHandled
<1>3. QED
  BY <1>1, <1>2 DEF ClassesArrive

LEMMA CategoriesAnswer ==
  ASSUME BrowserInv, NEW f \in flows, f.step = "categories", UNCHANGED <<agreed, excused>>,
         CategoriesArrive(f, flows \ {f})
  PROVE  BrowserInv' /\ KeptWindow
<1>1. PICK g \in {browser.category, Nothing} :
        Await(flows \ {f}, CategorySelected(browser, g), text,
              <<"methods">> \o (IF g = browser.category THEN <<>> ELSE <<"source">>) \o f.then, f.onError)
  BY DEF CategoriesArrive
<1> DEFINE b == CategorySelected(browser, g)
           steps == <<"methods">> \o (IF g = browser.category THEN <<>> ELSE <<"source">>) \o f.then
<1>2. g \in Categories \cup {Nothing}
  BY DEF BrowserInv, Browsers
<1>3. /\ b \in Browsers /\ b.dirty = browser.dirty /\ b.method = Nothing /\ b.mode = browser.mode
      /\ b.dictionary = browser.dictionary /\ b.class = browser.class /\ b.meta = browser.meta
  BY <1>2, CategorySet DEF BrowserInv
<1>4. Agreed(f) => agreed
  BY DEF Agreed
<1>5. ASSUME f.then = <<"source">>
      PROVE  steps # <<>> /\ Head(steps) = "methods" /\ Tail(steps) # <<>> /\ Head(Tail(steps)) = "source"
  <2>1. CASE g = browser.category
    <3>1. steps = (<<"methods">> \o <<>>) \o <<"source">>
      BY <1>5, <2>1, Zenon
    <3>2. QED
      BY <3>1, Steps, Zenon
  <2>2. CASE g # browser.category
    <3>1. steps = (<<"methods">> \o <<"source">>) \o <<"source">>
      BY <1>5, <2>2, Zenon
    <3>2. QED
      BY <3>1, Steps, Zenon
  <2>3. QED
    BY <2>1, <2>2
<1>6. Await(flows \ {f}, b, text, steps, f.onError)
  BY <1>1
<1> HIDE DEF b, steps
<1>7. Leads(browser, text, f) =>
        \/ Matches(b, text)
        \/ steps # <<>> /\ f.onError \in {"shown", "side"} /\ Replaces(Head(steps), Tail(steps), f.onError)
  <2>1. CASE Matches(browser, text)
    BY <1>3, <2>1, OfSame DEF Matches
  <2>2. CASE Replaces(f.step, f.then, f.onError)
    BY <1>5, <2>2 DEF Replaces
  <2>3. QED
    BY <2>1, <2>2 DEF Leads
<1>8. QED
  BY <1>3, <1>4, <1>6, <1>7, AnswerHandled

LEMMA MethodsAnswer ==
  ASSUME BrowserInv, NEW f \in flows, f.step = "methods", UNCHANGED <<agreed, excused>>,
         Await(flows \ {f}, browser, text, f.then, f.onError)
  PROVE  BrowserInv' /\ KeptWindow
BY AnswerHandled DEF BrowserInv, Leads, Replaces, Agreed

(* A source, or an error in its place. *)
LEMMA SourceAnswers ==
  ASSUME BrowserInv, NEW f \in flows, f.step = "source", agreed' = agreed, excused \subseteq excused',
         NEW t \in {Message, Source(f.asked)}, SourceArrives(f, flows \ {f}, t)
  PROVE  BrowserInv' /\ KeptWindow
<1>1. ASSUME NEW m \in {"classDefinition", "method"}, m = "method" => f.asked[4] # Nothing,
             NEW b, b = [browser EXCEPT !.mode = m, !.dirty = FALSE],
             Await(flows \ {f}, b, t, f.then, f.onError)
      PROVE  BrowserInv' /\ KeptWindow
  <2>1. /\ b \in Browsers /\ b.method = browser.method /\ b.mode = m
        /\ b.dictionary = browser.dictionary /\ b.class = browser.class /\ b.meta = browser.meta
    BY <1>1, ModeSet DEF BrowserInv
  <2>2. b.method = browser.method /\ b.mode = m
    BY <2>1
  <2>3. ASSUME NEW s \in Selectors \cup {Nothing}, f.asked = Of(browser, s),
               s = Nothing \/ browser.method \in {Nothing, s}
        PROVE  Matches(b, t)
    <3>1. f.asked = Of(b, s) /\ f.asked[4] = s
      BY <2>1, <2>3, OfSame, OfMethod
    <3>2. t # Message => t.of = f.asked
      BY TextFields
    <3>3. QED
      BY <1>1, <2>2, <2>3, <3>1, <3>2 DEF Matches
  <2>4. Leads(browser, text, f) => Matches(b, t)
    BY <2>3 DEF Leads
  <2>5. (Agreed(f) => agreed) /\ t.is # "edit"
    BY TextFields DEF Agreed
  <2>6. QED
    BY <1>1, <2>1, <2>4, <2>5, AnswerHandled
<1> DEFINE m == IF f.asked[4] = Nothing THEN "classDefinition" ELSE "method"
<1>2. m \in {"classDefinition", "method"} /\ (m = "method" => f.asked[4] # Nothing)
  OBVIOUS
<1>3. Await(flows \ {f}, [browser EXCEPT !.mode = m, !.dirty = FALSE], t, f.then, f.onError)
  BY DEF SourceArrives
<1> HIDE DEF m
<1>4. QED
  BY <1>1, <1>2, <1>3

LEMMA CompileAnswers ==
  ASSUME BrowserInv, NEW f \in flows, f.step = "compile", UNCHANGED <<agreed, excused>>,
         CompileArrives(f, flows \ {f})
  PROVE  BrowserInv' /\ KeptWindow
<1>0. ASSUME excused' \subseteq {"reselected"}
      PROVE  /\ flows \ {f} = {} /\ Matches(browser, text)
             /\ \E r : f.asked = Of(browser, r)
  BY <1>0 DEF BrowserInv, Consistent, Leads, Replaces
<1>1. CASE UNCHANGED <<browser, text>> /\ flows' = flows \ {f}
  <2>1. excused' = {} => flows' = {}
    BY <1>0, <1>1
  <2>2. QED
    BY <1>0, <1>1, <2>1 DEF BrowserInv, Consistent, EditIsDirty, KeptWindow
<1>2. ASSUME NEW s \in Selectors, NEW g \in Categories, NEW next, next.step = "categories",
             SetClassSource([browser EXCEPT !.category = g, !.method = s],
                            Source([f.asked EXCEPT ![4] = s]), "method"),
             flows' = (flows \ {f}) \cup {next}
      PROVE  BrowserInv' /\ KeptWindow
  <2> DEFINE b == [browser EXCEPT !.category = g, !.method = s]
             of == [f.asked EXCEPT ![4] = s]
  <2>1. browser' = [b EXCEPT !.mode = "method", !.dirty = FALSE] /\ text' = Source(of)
    BY <1>2 DEF SetClassSource
  <2>2. /\ b \in Browsers /\ b.method = s
        /\ b.dictionary = browser.dictionary /\ b.class = browser.class /\ b.meta = browser.meta
    BY DEF BrowserInv, Browsers
  <2> HIDE DEF b
  <2>3. /\ browser' \in Browsers /\ browser'.method = s
        /\ browser'.dictionary = browser.dictionary
        /\ browser'.class = browser.class /\ browser'.meta = browser.meta
    BY <2>1, <2>2, ModeSet
  <2>4. ASSUME excused' \subseteq {"reselected"} PROVE Consistent(browser', text', flows')
    <3>1. PICK r : f.asked = Of(browser, r)
      BY <1>0, <2>4
    <3>2. of = Of(browser', s)
      BY <2>3, <3>1, OfMethod, OfSame
    <3> HIDE DEF of
    <3>3. Matches(browser', text')
      BY <2>1, <2>3, <3>2, TextFields DEF Matches
    <3>4. flows' = {next} /\ Leads(browser', text', next)
      BY <1>0, <1>2, <2>4, <3>3 DEF Leads
    <3>5. QED
      BY <3>4 DEF Consistent
  <2>5. text'.is # "edit"
    BY <2>1, TextFields
  <2>6. excused' = {} /\ text.is = "edit" => agreed
    BY DEF BrowserInv, Agreed
  <2>7. QED
    BY <2>3, <2>4, <2>5, <2>6 DEF BrowserInv, EditIsDirty, KeptWindow
<1>3. ASSUME NEW s \in Selectors, NEW g \in Categories,
             SetClassSource([browser EXCEPT !.category = g, !.method = s],
                            Source([f.asked EXCEPT ![4] = s]), "method"),
             flows' = (flows \ {f}) \cup
               {[step |-> "categories", asked |-> Of(browser, s), then |-> <<s>>, onError |-> "told"]}
      PROVE  BrowserInv' /\ KeptWindow
  <2> DEFINE next == [step |-> "categories", asked |-> Of(browser, s), then |-> <<s>>, onError |-> "told"]
  <2>1. next.step = "categories" /\ flows' = (flows \ {f}) \cup {next}
    BY <1>3
  <2> HIDE DEF next
  <2>2. QED
    BY <1>2, <1>3, <2>1
<1>4. QED
  BY <1>1, <1>3 DEF CompileArrives

LEMMA RemoveAnswers ==
  ASSUME BrowserInv, NEW f \in flows, f.step = "remove", UNCHANGED <<agreed, excused>>,
         RemoveArrives(f, flows \ {f})
  PROVE  BrowserInv' /\ KeptWindow
<1>0. ASSUME excused' \subseteq {"reselected"} PROVE flows \ {f} = {}
  BY <1>0 DEF BrowserInv, Consistent
<1>1. Leads(browser, text, f) => Matches(browser, text)
  BY DEF Leads, Replaces
<1>2. CASE UNCHANGED <<browser, text>> /\ flows' = flows \ {f}
  <2>1. ASSUME excused' \subseteq {"reselected"} PROVE Matches(browser, text)
    BY <1>1, <2>1 DEF BrowserInv, Consistent
  <2>2. excused' = {} => flows' = {}
    BY <1>0, <1>2
  <2>3. QED
    BY <1>0, <1>2, <2>1, <2>2 DEF BrowserInv, Consistent, EditIsDirty, KeptWindow
<1>3. CASE Await(flows \ {f}, [browser EXCEPT !.method = Nothing], text, Definition, "told")
  <2> DEFINE b == [browser EXCEPT !.method = Nothing]
  <2>1. /\ b \in Browsers /\ b.method = Nothing /\ b.mode = browser.mode /\ b.dirty = browser.dirty
        /\ b.dictionary = browser.dictionary /\ b.class = browser.class /\ b.meta = browser.meta
    BY MethodSet DEF BrowserInv
  <2>2. Await(flows \ {f}, b, text, Definition, "told")
    BY <1>3
  <2> HIDE DEF b
  <2>3. Matches(browser, text) => Matches(b, text)
    BY <2>1, OfSame DEF Matches
  <2>4. Agreed(f) => agreed
    BY DEF Agreed
  <2>5. QED
    BY <1>1, <2>1, <2>2, <2>3, <2>4, AnswerHandled
<1>4. QED
  BY <1>2, <1>3 DEF RemoveArrives

LEMMA Fails ==
  ASSUME BrowserInv, NEW f \in flows, LoadFails(f)
  PROVE  BrowserInv' /\ KeptWindow
<1>0. agreed' = agreed /\ excused \subseteq excused'
  BY DEF LoadFails
<1>1. CASE f.step = "source"
  BY <1>0, <1>1, SourceAnswers DEF LoadFails
<1>2. CASE f.step # "source"
  <2>1. /\ flows' = flows \ {f} /\ browser' = browser
        /\ text' = IF f.onError = "shown" THEN Message ELSE text
        /\ f.onError = "side" => "side" \in excused'
    BY <1>2 DEF LoadFails
  <2>2. ASSUME excused' \subseteq {"reselected"} PROVE flows' = {} /\ Leads(browser, text, f)
    BY <1>0, <2>1, <2>2 DEF BrowserInv, Consistent
  <2>3. ASSUME excused' \subseteq {"reselected"} PROVE Matches(browser, text')
    BY <2>1, <2>2, <2>3 DEF Leads, Matches, Replaces
  <2>4. EditIsDirty'
    BY <2>1, TextFields DEF BrowserInv, EditIsDirty
  <2>5. ASSUME excused' = {}, text.is = "edit" PROVE agreed \/ text' = text
    BY <1>0, <2>1, <2>5 DEF BrowserInv, Agreed
  <2>6. excused' = {} => flows' = {}
    BY <2>2
  <2>7. QED
    BY <1>0, <2>1, <2>2, <2>3, <2>4, <2>5, <2>6 DEF BrowserInv, Consistent, KeptWindow
<1>3. QED
  BY <1>1, <1>2

LEMMA BrowserStep == BrowserInv /\ [BrowserNext]_browserVars => BrowserInv' /\ KeptWindow
<1> SUFFICES ASSUME BrowserInv, [BrowserNext]_browserVars PROVE BrowserInv' /\ KeptWindow
  OBVIOUS
<1>1. ASSUME NEW f \in flows, LoadArrives(f) PROVE BrowserInv' /\ KeptWindow
  BY <1>1, ClassesAnswer, CategoriesAnswer, MethodsAnswer, SourceAnswers, CompileAnswers, RemoveAnswers
  DEF LoadArrives
<1>2. CASE UNCHANGED browserVars
  BY <1>2 DEF browserVars, BrowserInv, EditIsDirty, Agreed, KeptWindow
<1>3. QED
  BY <1>1, <1>2, SelectsDictionary, SelectsClass, SelectsCategory, SelectsMethod, ChangesSide,
     BrowsesClass, Refreshes, NewMethod, Types, Reverts, Sends, Describes, Fails DEF BrowserNext

LEMMA BrowserInit == BrowserBegins => BrowserInv
<1> SUFFICES ASSUME BrowserBegins PROVE BrowserInv
  OBVIOUS
<1>1. browser \in Browsers /\ browser.class = Nothing
  BY DEF BrowserBegins, Browsers
<1>2. QED
  BY <1>1, TextFields DEF BrowserBegins, BrowserInv, Consistent, Matches, EditIsDirty

(* Whatever the user selects, edits, sends and removes, however many times, *)
(* and whichever loads fail: what can be sent is a source of the class, the *)
(* side and the method that are selected.                                   *)
THEOREM BrowserShowsSelection == BrowserSpec => []EditorMatchesSelection
<1>1. BrowserInv => EditorMatchesSelection
  BY DEF BrowserInv, Consistent, Matches, EditorMatchesSelection, Editable
<1>2. QED
  BY <1>1, BrowserInit, BrowserStep, PTL DEF BrowserSpec

(* No edit is gone that the user did not give up, take back or send. *)
THEOREM BrowserKeepsEdits == BrowserSpec => EditsAreNotLost
<1>1. BrowserInv /\ [BrowserNext]_browserVars
        => [text.is = "edit" /\ text' # text /\ excused' = {} => agreed']_browserVars
  BY BrowserStep DEF KeptWindow
<1>2. QED
  BY <1>1, BrowserInit, BrowserStep, PTL DEF BrowserSpec, EditsAreNotLost

(* Source and selection, frame and stack, layout and storage belong         *)
(* together whatever is done in each of the three windows.                  *)
THEOREM PageBelongsTogether ==
  BrowserSpec /\ DebuggerSpec /\ WindowsSpec => []WindowsBelongTogether
<1>1. EditorMatchesSelection /\ SelectionIsOnShow /\ LayoutIsKept => WindowsBelongTogether
  BY DEF WindowsBelongTogether
<1>2. QED
  BY <1>1, BrowserShowsSelection, DebuggerSelectsWhatIsOnShow, WindowsKeepTheirLayout, PTL
=============================================================================
