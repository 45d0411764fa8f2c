---------------------------- MODULE DebugScripts ----------------------------
(***************************************************************************)
(* The debugger actions of the Explorer (debugActionEndpoint of            *)
(* src/examples/explorer.ts): each is one or several Smalltalk scripts     *)
(* that try the messages a process may understand, for GemStone versions   *)
(* differ in them.                                                         *)
(*                                                                         *)
(* A process is what it understands, which of these messages fail, how     *)
(* many contexts it tells, whether it reports its stack, and its state.  A *)
(* script is answered `true' or not, or it raises an error, and `sent' is  *)
(* what the process was sent.                                              *)
(***************************************************************************)
EXTENDS Integers, Sequences, SequencesExt, FiniteSets

Script(answer, sent) == [raised |-> FALSE, answer |-> answer, sent |-> sent]

(* In [proc step: n. true] on: Error do: [...] the message is sent, and    *)
(* true is the answer if it does not fail.  In [[proc step: n]. true] the  *)
(* inner block is only made, and true is the answer whatever it would do.  *)
Sending == TRUE
Nested  == FALSE

Works(p, message, sending) == sending => message \notin p.fails

(* The messages are tried in turn until one works.                         *)
Try(p, messages, sending) ==
  LET known == SelectSeq(messages, LAMBDA m : m \in p.answers)
      works == {i \in DOMAIN known : Works(p, known[i], sending)}
      tried == IF works = {} THEN known ELSE SubSeq(known, 1, Min(works))
  IN Script(works # {}, IF sending THEN tried ELSE <<>>)

-----------------------------------------------------------------------------
(* The scripts                                                             *)

(* The process of a halted run: the object itself, or the first one it     *)
(* leads to that can report on its contexts, otherwise the last one.       *)
DebugProcessResolver(object) ==
  FoldLeft(LAMBDA proc, way : IF proc.reports \/ way \notin DOMAIN object.leads THEN proc ELSE object.leads[way],
           object, <<"serverProcess", "process", "topContext">>)

IntoMessages == <<"stepIntoFromLevel:", "_stepIntoInFrame:", "gciStepIntoFromLevel:">>
OverMessages == <<"stepOverFromLevel:", "_stepOverInFrame:", "gciStepOverFromLevel:">>

DebugStepScript(p, messages) == Try(p, messages, Nested)

(* stackReport respondsTo: #size and: [...] is one message, respondsTo:and:, *)
(* which no report understands: a report ends the script, and without one  *)
(* the step point is not known.                                            *)
AskStepPoint(p, script) == IF p.reports THEN [script EXCEPT !.raised = TRUE] ELSE script

DebugAdvanceCurrentStepPointScript(p) == AskStepPoint(p, Script(FALSE, <<>>))

DebugBreakpointStepScript(p) ==
  LET break == "setStepThroughBreaksAtLevel:breakpointLevel:"
      then  == SelectSeq(<<"ignoreNextBreakpoint", "resume">>, LAMBDA m : m \in p.answers)
  IN IF break \notin p.answers THEN Script(FALSE, <<>>)
     ELSE IF break \in p.fails THEN Script(FALSE, <<break>>)
     ELSE Script("resume" \in p.answers \ p.fails, <<break>> \o then)

DebugProceedScript(p) == Try(p, <<"resume">>, Nested)

(* trimTo: takes the context of the level, if there is one.                *)
TrimMessages(p, level) ==
  <<"trimStackToLevel:", "_trimStackToLevel:">> \o IF level <= p.depth THEN <<"trimTo:">> ELSE <<>>

DebugTrimScript(p, level) == Try(p, TrimMessages(p, level), Nested)

(* After trimming, the step point is set back to the first, if it is known. *)
DebugRestartScript(p, level) ==
  LET trimmed == Try(p, TrimMessages(p, level), Sending)
  IN IF trimmed.answer \/ level = 1 THEN AskStepPoint(p, [trimmed EXCEPT !.answer = TRUE]) ELSE trimmed

DebugTerminateScript(p) ==
  LET known == SelectSeq(<<"terminate", "terminateProcess">>, LAMBDA m : m \in p.answers)
  IN Script(known # <<>>, known)

-----------------------------------------------------------------------------
(* The actions                                                             *)

(* The next script of an action is run when the one before it is not       *)
(* supported by the process.                                               *)
Scripts(p, action, level) ==
  CASE action = "restart"    -> <<DebugRestartScript(p, level)>>
    [] action = "step"       -> <<DebugAdvanceCurrentStepPointScript(p), DebugBreakpointStepScript(p),
                                  DebugStepScript(p, <<"step:">> \o IntoMessages)>>
    [] action = "stepInto"   -> <<DebugBreakpointStepScript(p), DebugStepScript(p, IntoMessages \o <<"step:">>)>>
    [] action = "stepOver"   -> <<DebugStepScript(p, OverMessages), DebugStepScript(p, <<"step:">> \o IntoMessages)>>
    [] action = "stepReturn" -> <<DebugStepScript(p, OverMessages)>>
    [] action = "proceed"    -> <<DebugProceedScript(p)>>
    [] action = "trim"       -> <<DebugTrimScript(p, level)>>
    [] action = "terminate"  -> <<DebugTerminateScript(p)>>

Actions == {"restart", "step", "stepInto", "stepOver", "stepReturn", "proceed", "trim", "terminate"}

(* What the endpoint makes of the scripts: an action that no script        *)
(* supports is an error, and so is one whose script raises, except for a   *)
(* termination, which is the end of the session in any case.               *)
DebugAction(p, action, level) ==
  LET scripts == Scripts(p, action, level)
      ends    == {i \in DOMAIN scripts : scripts[i].raised \/ scripts[i].answer}
      run     == IF ends = {} THEN scripts ELSE SubSeq(scripts, 1, Min(ends))
  IN [outcome |-> IF action = "terminate" THEN "terminated"
                  ELSE IF Last(run).raised THEN "failed"
                  ELSE IF Last(run).answer THEN "done" ELSE "not supported",
      sent    |-> FlattenSeq([i \in DOMAIN run |-> run[i].sent])]

(* Of a process that is neither terminated nor suspended it is asked       *)
(* whether it can be reported on, in a nested block: that it is running is *)
(* never told.                                                             *)
DebugProcessStatus(p) ==
  IF p.state = "terminated" /\ "isTerminated" \in p.answers THEN "terminated" ELSE "suspended"

-----------------------------------------------------------------------------
(* What an action has had an effect with.                                  *)
Effects(p, a) == SelectSeq(a.sent, LAMBDA m : m \notin p.fails)

(* Setting breakpoints, or ignoring one, does not move it.                 *)
Moves(p, a) ==
  SelectSeq(Effects(p, a), LAMBDA m : m \notin {"setStepThroughBreaksAtLevel:breakpointLevel:", "ignoreNextBreakpoint"})

(* No action moves the process twice, in whatever order its messages fail; *)
(* one that is not supported has not moved it, a restart in a frame that   *)
(* is done has trimmed the stack, a termination has tried every way there  *)
(* is, and a process that has stopped is told as it is.                    *)
DebuggingIsMeant(p) ==
  /\ \A action \in Actions \ {"terminate"}, level \in 1..2 :
       LET a == DebugAction(p, action, level) IN
       /\ Len(Moves(p, a)) <= 1
       /\ a.outcome = "not supported" => Moves(p, a) = <<>>
       /\ action = "restart" /\ level > 1 /\ a.outcome = "done" => Moves(p, a) # <<>>
  /\ ToSet(Effects(p, DebugAction(p, "terminate", 1))) = (p.answers \ p.fails) \cap {"terminate", "terminateProcess"}
  /\ "isTerminated" \in p.answers /\ p.state # "running" => DebugProcessStatus(p) = p.state

(* The object with the process is found when it is one step away.          *)
ProcessIsFound(object) ==
  (object.reports \/ \E way \in DOMAIN object.leads : object.leads[way].reports)
    => DebugProcessResolver(object).reports

(* Continuing and stepping, when they are told to be done, have moved the  *)
(* process: these are the actions the workbench's README says it supports. *)
ActionsAct(p) ==
  \A action \in {"proceed", "stepOver", "stepInto", "stepReturn"} :
    LET a == DebugAction(p, action, 1) IN a.outcome = "done" => Moves(p, a) # <<>>
=============================================================================
