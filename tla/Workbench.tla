----------------------------- MODULE Workbench -----------------------------
(***************************************************************************)
(* The ExplorerServer class of vscode-gemstone-js-workbench/extension.js:  *)
(* the extension starts examples/explorer.ts as a child process when a     *)
(* command needs it, and stops or restarts it when the user or a change of *)
(* the settings asks for it.  Commands interleave at their awaits; a       *)
(* process that is told to end does so in its own time.                    *)
(*                                                                         *)
(* Settings and passwords are versions: only their age matters.            *)
(***************************************************************************)
EXTENDS Integers, FiniteSets

CONSTANTS
  Commands,     \* the commands the user runs, each once
  MayRun,       \* which kinds each of them may be
  Processes,    \* the processes that can be spawned
  NoOne

CommandKinds == {"start", "stop", "restart", "configure", "password", "doctor"}

ASSUME WorkbenchAssumption ==
  /\ MayRun \in [Commands -> SUBSET CommandKinds]
  /\ NoOne \notin Commands \cup Processes

VARIABLES
  process,    \* of each process: "unused", "booting", "listening" or "gone"
  told,       \* it was sent a signal to end
  built,      \* the settings and the password it was spawned with
  reported,   \* its exit event has been delivered
  handle,     \* this.process
  starting,   \* the command whose start() is in this.starting
  settings,   \* the version of the settings
  stored,     \* the version of the password in SecretStorage
  secret,     \* this.secretPassword
  kind,       \* what each command is
  at,         \* the await at which it stands
  got,        \* the password it has read or is storing
  since,      \* the password that was stored when its start() began
  found       \* the process that answered it

workbenchVars == <<process, told, built, reported, handle, starting, settings, stored,
                   secret, kind, at, got, since, found>>

processVars == <<process, told, built, reported, handle>>
commandVars == <<kind, at, got, since, found>>
storeVars   == <<settings, stored, secret>>

(* The commands are about to be run, or all done. *)
WorkbenchBegins(step) ==
  /\ process = [p \in Processes |-> "unused"]
  /\ told = [p \in Processes |-> FALSE]
  /\ built = [p \in Processes |-> [settings |-> 0, password |-> 0, floor |-> 0]]
  /\ reported = [p \in Processes |-> FALSE]
  /\ handle = NoOne /\ starting = NoOne
  /\ settings = 0 /\ stored = 0 /\ secret = 0
  /\ kind = [c \in Commands |-> "start"]
  /\ at = [c \in Commands |-> step]
  /\ got = [c \in Commands |-> 0]
  /\ since = [c \in Commands |-> 0]
  /\ found = [c \in Commands |-> NoOne]

WorkbenchInit == WorkbenchBegins("idle")

-----------------------------------------------------------------------------
(* Processes                                                               *)

Alive(p) == process[p] \in {"booting", "listening"}

Listener == {p \in Processes : process[p] = "listening"}

(* One process can listen on the port: another one fails and ends. *)
Boot(p) ==
  /\ process[p] = "booting"
  /\ process' = [process EXCEPT ![p] = IF Listener = {} THEN "listening" ELSE "gone"]
  /\ UNCHANGED <<told, built, reported, handle, starting, storeVars, commandVars>>

(* A process ends because it was told to, or fails. *)
Die(p) ==
  /\ Alive(p)
  /\ process' = [process EXCEPT ![p] = "gone"]
  /\ UNCHANGED <<told, built, reported, handle, starting, storeVars, commandVars>>

(* The exit event forgets the process, whichever it is by then. *)
ExitEvent(p) ==
  /\ process[p] = "gone" /\ ~reported[p]
  /\ reported' = [reported EXCEPT ![p] = TRUE]
  /\ handle' = NoOne
  /\ UNCHANGED <<process, told, built, starting, storeVars, commandVars>>

(* stop(): a signal to the process that is known, which is then forgotten. *)
Kill ==
  /\ told' = [p \in Processes |-> told[p] \/ p = handle]
  /\ handle' = NoOne

-----------------------------------------------------------------------------
(* Commands                                                                *)

Move(c, step) == at' = [at EXCEPT ![c] = step]

(* What a command does before its first await. *)
Begin(c, k) ==
  /\ at[c] = "idle" /\ kind' = [kind EXCEPT ![c] = k]
  /\ IF k \in {"stop", "restart"} THEN Kill ELSE UNCHANGED <<told, handle>>
  /\ Move(c, CASE k = "stop" -> "done"
               [] k = "configure" -> "update"
               [] k = "password" -> "store"
               [] k = "doctor" -> "load"
               [] OTHER -> "probe")
  /\ UNCHANGED <<process, built, reported, starting, storeVars, got, since, found>>

(* The configuration commands write the settings and, when one is given,   *)
(* the password; then they stop the server, so that the next start uses    *)
(* them, and load the password.                                            *)
UpdateSettings(c) ==
  /\ at[c] = "update"
  /\ settings' = settings + 1
  /\ \/ Kill /\ Move(c, "load")
     \/ Move(c, "store") /\ UNCHANGED <<told, handle>>
  /\ UNCHANGED <<process, built, reported, starting, stored, secret, kind, got, since, found>>

(* setPassword(): the password is stored, then kept. *)
StorePassword(c) ==
  /\ at[c] = "store"
  /\ stored' = stored + 1
  /\ got' = [got EXCEPT ![c] = stored + 1]
  /\ Move(c, "keep")
  /\ UNCHANGED <<processVars, starting, settings, secret, kind, since, found>>

KeepPassword(c) ==
  /\ at[c] = "keep" /\ secret' = got[c]
  /\ IF kind[c] = "configure"
       THEN Kill /\ Move(c, "load")
       ELSE Move(c, "done") /\ UNCHANGED <<told, handle>>
  /\ UNCHANGED <<process, built, reported, starting, settings, stored, kind, got, since, found>>

(* loadSecretPassword(), outside a start and at the beginning of one: what *)
(* SecretStorage answers is kept when the answer arrives.                  *)
ReadPassword(c) ==
  /\ at[c] \in {"load", "start"}
  /\ got' = [got EXCEPT ![c] = stored]
  /\ Move(c, IF at[c] = "load" THEN "loaded" ELSE "spawn")
  /\ UNCHANGED <<processVars, starting, storeVars, kind, since, found>>

LoadPassword(c) ==
  /\ at[c] = "loaded" /\ secret' = got[c]
  /\ Move(c, IF kind[c] = "doctor" THEN "probe" ELSE "done")
  /\ UNCHANGED <<processVars, starting, settings, stored, kind, got, since, found>>

Probe_StartsAnyway(c) ==
  /\ at[c] = "probe" /\ Listener = {}
  /\ Move(c, "start") /\ starting' = c
  /\ since' = [since EXCEPT ![c] = stored]
  /\ UNCHANGED <<processVars, storeVars, kind, got, found>>

(* ensureStarted(): nothing to do when the server answers, which one that  *)
(* was told to end may still do; one start at a time, for all who wait.    *)
Probe(c) ==
  /\ at[c] = "probe"
  /\ \/ \E p \in Listener :
          /\ found' = [found EXCEPT ![c] = p] /\ Move(c, "done")
          /\ UNCHANGED <<starting, since>>
     \/ /\ \A p \in Listener : told[p]
        /\ IF starting = NoOne
             THEN /\ Move(c, "start") /\ starting' = c
                  /\ since' = [since EXCEPT ![c] = stored]
             ELSE Move(c, "join") /\ UNCHANGED <<starting, since>>
        /\ UNCHANGED found
  /\ UNCHANGED <<processVars, storeVars, kind, got>>

Spawn(c) ==
  \E p \in Processes :
    /\ at[c] = "spawn" /\ process[p] = "unused"
    /\ secret' = got[c]
    /\ process' = [process EXCEPT ![p] = "booting"]
    /\ built' = [built EXCEPT ![p] = [settings |-> settings, password |-> got[c],
                                      floor |-> since[c]]]
    /\ handle' = p /\ Move(c, "wait")
    /\ UNCHANGED <<told, reported, starting, settings, stored, kind, got, since, found>>

Waiting_Alone(c) == {c}

Waiting(c) == {c} \cup {d \in Commands : at[d] = "join"}

(* start() ends, and with it all who joined it, with the process that      *)
(* answers, or with an error when none did in time or there is no script.  *)
EndStart(c, p) ==
  /\ starting = c /\ starting' = NoOne
  /\ found' = [d \in Commands |-> IF d \in Waiting(c) THEN p ELSE found[d]]
  /\ at' = [d \in Commands |-> IF d \in Waiting(c) THEN "done" ELSE at[d]]
  /\ UNCHANGED <<processVars, storeVars, kind, got, since>>

Started(c) == at[c] = "wait" /\ \E p \in Listener : EndStart(c, p)

StartFails(c) == at[c] \in {"spawn", "wait"} /\ EndStart(c, NoOne)

-----------------------------------------------------------------------------
(* Specification                                                           *)

Step(c) ==
  \/ UpdateSettings(c) \/ StorePassword(c) \/ KeepPassword(c)
  \/ ReadPassword(c) \/ LoadPassword(c)
  \/ Probe(c) \/ Spawn(c) \/ Started(c) \/ StartFails(c)

WorkbenchNext ==
  \/ \E c \in Commands : \E k \in MayRun[c] : Begin(c, k)
  \/ \E c \in Commands : Step(c)
  \/ \E p \in Processes : Boot(p) \/ Die(p) \/ ExitEvent(p)

(* The extension host and SecretStorage answer, and waitUntilRunning() has *)
(* a timeout.  Nothing is assumed of the processes.                        *)
WorkbenchFairness == \A c \in Commands : WF_workbenchVars(Step(c))

WorkbenchSpec == WorkbenchInit /\ [][WorkbenchNext]_workbenchVars /\ WorkbenchFairness

-----------------------------------------------------------------------------
(* Properties                                                              *)

CommandSteps == {"idle", "update", "store", "keep", "load", "loaded", "probe", "join",
                 "start", "spawn", "wait", "done"}

WorkbenchTypeOK ==
  /\ process \in [Processes -> {"unused", "booting", "listening", "gone"}]
  /\ told \in [Processes -> BOOLEAN] /\ reported \in [Processes -> BOOLEAN]
  /\ built \in [Processes -> [settings : Nat, password : Nat, floor : Nat]]
  /\ handle \in Processes \cup {NoOne} /\ starting \in Commands \cup {NoOne}
  /\ settings \in Nat /\ stored \in Nat /\ secret \in Nat
  /\ kind \in [Commands -> CommandKinds] /\ at \in [Commands -> CommandSteps]
  /\ got \in [Commands -> Nat] /\ since \in [Commands -> Nat]
  /\ found \in [Commands -> Processes \cup {NoOne}]

(* Commands that need the server at the same time share one start: at no   *)
(* time do two of them spawn processes that would fight for the port, and  *)
(* who has joined a start waits for one that is still under way.           *)
AtStart(c) == at[c] \in {"start", "spawn", "wait"}

OneStart ==
  /\ \A c, d \in Commands : AtStart(c) /\ AtStart(d) => c = d
  /\ \A c \in Commands : at[c] = "join" => \E d \in Commands : AtStart(d)

(* However the loads and changes of the password interleave, a process is  *)
(* spawned with one that was stored when its start began, or a later one.  *)
SpawnsWithStoredPassword ==
  \A p \in Processes : built[p].password >= built[p].floor

(* Whatever commands run at once, the server is started once for all of    *)
(* them, with a password that is not older than the start.                 *)
StartsAreRight == OneStart /\ SpawnsWithStoredPassword

(* Every command ends, with the server or with an error, whatever happens  *)
(* to the processes.                                                       *)
CommandsEnd == \A c \in Commands : (at[c] # "idle") ~> (at[c] = "done")

(* A restart that succeeds has found a process that is not about to end.   *)
RestartRestarts ==
  [][\A c \in Commands :
       kind[c] = "restart" /\ at[c] # "done" /\ at'[c] = "done" /\ found'[c] # NoOne
         => ~told[found'[c]]]_workbenchVars

=============================================================================
