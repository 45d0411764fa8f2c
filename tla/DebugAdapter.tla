---------------------------- MODULE DebugAdapter ----------------------------
(***************************************************************************)
(* The GemStoneDebugAdapter class of the workbench extension, above the    *)
(* server of ExplorerServer: each adapter is one debug session of VS Code, *)
(* and holds the identifier of the session that the explorer keeps for it. *)
(* VS Code sends its commands as the user gives them, so one may be sent   *)
(* before the one ahead of it is answered.                                 *)
(***************************************************************************)
EXTENDS ExplorerServer

CONSTANT Adapters

ASSUME AdapterAssumption == None \notin Adapters

VARIABLES
  owner,      \* the adapter that sent each request
  purpose,    \* the command it was sent for
  arrived,    \* its answer has reached the adapter
  holds,      \* this.debugSessionId of each adapter
  shows,      \* what each one last told VS Code: "nothing", "stopped" or "terminated"
  stage,      \* "new", "launched", "disposed"
  alone       \* each command was given when none was unanswered

adapterVars == <<owner, purpose, arrived, holds, shows, stage, alone>>
debugVars   == <<serverVars, adapterVars>>

AdapterInit ==
  /\ owner = [r \in Requests |-> None]
  /\ purpose = [r \in Requests |-> "none"]
  /\ arrived = [r \in Requests |-> FALSE]
  /\ holds = [a \in Adapters |-> None]
  /\ shows = [a \in Adapters |-> "nothing"]
  /\ stage = [a \in Adapters |-> "new"]
  /\ alone = [a \in Adapters |-> TRUE]

-----------------------------------------------------------------------------
(* Commands                                                                *)

InFlight(a) == {r \in Requests : owner[r] = a /\ ~arrived[r]}

(* Every command notes whether another one is still unanswered. *)
Command(a) == alone' = [alone EXCEPT ![a] = @ /\ InFlight(a) = {}]

Post(a, r, command, q) ==
  /\ q.kind \in MayAsk[r] /\ Arrive(r, q)
  /\ owner' = [owner EXCEPT ![r] = a]
  /\ purpose' = [purpose EXCEPT ![r] = command]

PostAction(a, r, command, verb) ==
  Post(a, r, command,
       [NoRequest EXCEPT !.kind = "action", !.verb = verb, !.target = holds[a]])

Launch(a, r) ==
  /\ stage[a] = "new" /\ stage' = [stage EXCEPT ![a] = "launched"]
  /\ Command(a) /\ Post(a, r, "launch", [NoRequest EXCEPT !.kind = "debug"])
  /\ UNCHANGED <<arrived, holds, shows>>

(* continue, next, stepIn, stepOut, restart and restartFrame. *)
Resume(a, r) ==
  /\ stage[a] = "launched" /\ holds[a] # None /\ Command(a)
  /\ \E verb \in Verbs \ {"terminate", "unknown"} : PostAction(a, r, "action", verb)
  /\ UNCHANGED <<arrived, holds, shows, stage>>

Disconnect(a, r) ==
  /\ stage[a] = "launched" /\ holds[a] # None /\ Command(a)
  /\ PostAction(a, r, "disconnect", "terminate")
  /\ UNCHANGED <<arrived, holds, shows, stage>>

(* Either of them without a session to act on. *)
EndWithoutSession(a) ==
  /\ stage[a] = "launched" /\ holds[a] = None /\ Command(a)
  /\ shows' = [shows EXCEPT ![a] = "terminated"]
  /\ UNCHANGED <<serverVars, owner, purpose, arrived, holds, stage>>

Dispose_KeepsSession(a, r) ==
  /\ stage[a] = "launched" /\ stage' = [stage EXCEPT ![a] = "disposed"]
  /\ Command(a) /\ holds' = [holds EXCEPT ![a] = None]
  /\ UNCHANGED <<serverVars, owner, purpose, arrived, shows>>

Dispose(a, r) ==
  /\ stage[a] = "launched" /\ stage' = [stage EXCEPT ![a] = "disposed"]
  /\ Command(a) /\ holds' = [holds EXCEPT ![a] = None]
  /\ IF holds[a] # None
       THEN PostAction(a, r, "dispose", "terminate")
       ELSE UNCHANGED <<serverVars, owner, purpose>>
  /\ UNCHANGED <<arrived, shows>>

(* launch() and action() take over the identifier that the answer carries, *)
(* or none; disconnect() forgets it, also when the answer is an error;     *)
(* nobody waits for the answer to dispose().                               *)
Receive(a, r) ==
  /\ r \in InFlight(a) /\ pc[r] = "answered"
  /\ arrived' = [arrived EXCEPT ![r] = TRUE]
  /\ \/ /\ purpose[r] \in {"launch", "action"} /\ reply[r].told # "error"
        /\ holds' = [holds EXCEPT ![a] = reply[r].id]
        /\ shows' = [shows EXCEPT ![a] =
                       IF reply[r].told = "done" THEN "terminated" ELSE "stopped"]
     \/ /\ purpose[r] = "disconnect"
        /\ holds' = [holds EXCEPT ![a] = None]
        /\ shows' = [shows EXCEPT ![a] = "terminated"]
     \/ /\ purpose[r] = "dispose" \/ (purpose[r] # "disconnect" /\ reply[r].told = "error")
        /\ UNCHANGED <<holds, shows>>
  /\ UNCHANGED <<serverVars, owner, purpose, stage, alone>>

-----------------------------------------------------------------------------
(* Specification                                                           *)

DebugInit == ServerInit /\ AdapterInit

(* The requests of adapters, and of the page and the other commands, which *)
(* are sent as ServerNext does.                                            *)
DebugNext ==
  \/ \E a \in Adapters, r \in Requests :
       Launch(a, r) \/ Resume(a, r) \/ Disconnect(a, r) \/ Dispose(a, r) \/ Receive(a, r)
  \/ \E a \in Adapters : EndWithoutSession(a)
  \/ ServerNext /\ UNCHANGED adapterVars

DebugSpec == DebugInit /\ [][DebugNext]_debugVars /\ ServerFairness

-----------------------------------------------------------------------------
(* Properties                                                              *)

(* A debug session of VS Code that ends does not leave a session of the    *)
(* Stone behind in the explorer, if no command of it was given while       *)
(* another one was unanswered: whether its steps were replayed in a new    *)
(* session, failed, or raced with the debug runs of others.                *)
EndsWithItsSession ==
  \A a \in Adapters :
    stage[a] = "disposed" /\ alone[a] /\ InFlight(a) = {} /\ server = "listening"
      => \A s \in Requests : owner[s] = a => ~IsDebug(s)

=============================================================================
