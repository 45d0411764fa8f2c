---------------------------- MODULE MCWorkbench -----------------------------
(* The user's side of the workbench for TLC: the commands of the extension, *)
(* and the windows of the page.  As `part' says, one of them is at work     *)
(* while the others rest.                                                   *)
EXTENDS Workbench, ExplorerPage, PageWindows, TLC

CONSTANTS c1, c2, c3, u1, u2

MCMayRun ==
  (c1 :> {"start"}) @@ (c2 :> {"restart", "doctor", "configure"})
    @@ (c3 :> {"configure", "password", "stop"})

MCDictionariesOf == (u1 :> <<"a", "b">>) @@ (u2 :> <<"c">>)

(* No details; details without lines, in any order; and lines of which     *)
(* some have details.                                                      *)
MCStacks ==
  {[lines |-> 0, frames |-> <<>>], [lines |-> 0, frames |-> (1 :> 1) @@ (3 :> 0)],
   [lines |-> 2, frames |-> (0 :> 2)], [lines |-> 3, frames |-> (2 :> 1)]}

VARIABLE part

Exhausted(panes) == [p \in Panes |-> IF p \in panes THEN MaxLoads ELSE 0]

MCInit ==
  /\ part \in {"commands", "globals", "symbols", "classes", "debugger", "windows"}
  /\ IF part = "commands" THEN WorkbenchInit ELSE WorkbenchBegins("done")
  /\ PageBegins(Exhausted(CASE part = "globals" -> Panes \ {"globals"}
                            [] part = "symbols" -> {"globals"}
                            [] OTHER -> Panes))
  /\ BrowserBegins /\ DebuggerBegins /\ WindowsBegin

MCNext ==
  /\ \/ /\ part = "commands" /\ WorkbenchNext
        /\ UNCHANGED <<pageVars, browserVars, debuggerVars, windowVars>>
     \/ /\ part \in {"globals", "symbols"} /\ PageNext
        /\ UNCHANGED <<workbenchVars, browserVars, debuggerVars, windowVars>>
     \/ /\ part = "classes" /\ BrowserNext
        /\ UNCHANGED <<workbenchVars, pageVars, debuggerVars, windowVars>>
     \/ /\ part = "debugger" /\ DebuggerNext
        /\ UNCHANGED <<workbenchVars, pageVars, browserVars, windowVars>>
     \/ /\ part = "windows" /\ WindowsNext
        /\ UNCHANGED <<workbenchVars, pageVars, browserVars, debuggerVars>>
  /\ UNCHANGED part

MCSpec ==
  /\ MCInit
  /\ [][MCNext]_<<workbenchVars, pageVars, browserVars, debuggerVars, windowVars, part>>
  /\ WorkbenchFairness
=============================================================================
