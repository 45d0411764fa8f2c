-------------------------- MODULE SerializedRuntime --------------------------
(***************************************************************************)
(* The sessions of one process above the native library: Session.connect   *)
(* and the chain of calls that SerializedGciRuntime keeps for a session,   *)
(* and the managed handles of client.ts, which count the references to a   *)
(* GemStone object and keep it in the session's export set.                *)
(*                                                                         *)
(* The native library is external: it has an active session, in which a    *)
(* call is made.  Native sessions are known by the Session that logged     *)
(* them in.                                                                *)
(***************************************************************************)
EXTENDS Integers, Sequences, FiniteSets

CONSTANTS
  Sessions,
  Handles,
  Oops,
  SessionOf,   \* the session and the object of a handle
  OopOf,
  Shared,      \* the sessions call one native library, as in Bun and Deno
  Faults,      \* which of "login", "add", "remove", "use", "logout" may fail
  QueueBound,  \* no call is made when this many are waiting
  None

ASSUME ParametersAssumption ==
  /\ IsFiniteSet(Handles)
  /\ SessionOf \in [Handles -> Sessions]
  /\ OopOf \in [Handles -> Oops]
  /\ Shared \in BOOLEAN
  /\ Faults \subseteq {"login", "add", "remove", "use", "logout"}
  /\ QueueBound \in Nat
  /\ None \notin Sessions \cup Handles

VARIABLES
  stage,      \* how far each session is: connect, logout
  net,        \* whose network parameters a library has
  active,     \* its active session
  stone,      \* with whose parameters a session is logged in
  bound,      \* the session id of a SerializedGciRuntime
  chain,      \* its calls that have not ended
  activated,  \* whether the first one has activated its session
  alive,      \* the native sessions
  exports,    \* their export sets
  counts,     \* #managedOopCounts
  state,      \* the handles
  leaving,    \* those on which release() was called
  failed      \* what failed, of which handle

native   == <<net, active, alive, exports>>
runtimes == <<bound, chain, activated>>
handles  == <<counts, state, leaving, failed>>
vars     == <<stage, stone, native, runtimes, handles>>

(* Mutant: every session calls the same library. *)
Library_One(s) == CHOOSE t \in Sessions : TRUE

(* In Node each session has a native target of its own. *)
Library(s) == IF Shared THEN CHOOSE t \in Sessions : TRUE ELSE s

Jobs == [kind : {"add", "remove", "use"}, of : Handles] \cup [kind : {"logout"}, of : {None}]

TypeOK ==
  /\ stage \in [Sessions -> {"new", "net", "in", "open", "closing", "closed", "refused"}]
  /\ net \in [Sessions -> Sessions \cup {None}]
  /\ active \in [Sessions -> Sessions \cup {None}]
  /\ stone \in [Sessions -> Sessions \cup {None}]
  /\ bound \in [Sessions -> Sessions \cup {None}]
  /\ chain \in [Sessions -> Seq(Jobs)]
  /\ activated \in [Sessions -> BOOLEAN]
  /\ alive \subseteq Sessions
  /\ exports \in [Sessions -> SUBSET Oops]
  /\ counts \in [Sessions -> [Oops -> Nat]]
  /\ state \in [Handles -> {"none", "retaining", "held", "broken", "done"}]
  /\ leaving \subseteq Handles
  /\ failed \subseteq {"add", "remove"} \X Handles

Init ==
  /\ stage = [s \in Sessions |-> "new"]
  /\ net = [s \in Sessions |-> None] /\ active = [s \in Sessions |-> None]
  /\ stone = [s \in Sessions |-> None] /\ bound = [s \in Sessions |-> None]
  /\ chain = [s \in Sessions |-> <<>>]
  /\ activated = [s \in Sessions |-> FALSE]
  /\ alive = {}
  /\ exports = [s \in Sessions |-> {}]
  /\ counts = [s \in Sessions |-> [o \in Oops |-> 0]]
  /\ state = [h \in Handles |-> "none"]
  /\ leaving = {} /\ failed = {}

-----------------------------------------------------------------------------
(* Session.connect, whose calls activate no session                        *)

SetNet(s) ==
  /\ stage[s] = "new"
  /\ stage' = [stage EXCEPT ![s] = "net"]
  /\ net' = [net EXCEPT ![Library(s)] = s]
  /\ UNCHANGED <<active, alive, exports, stone, runtimes, handles>>

(* A session that is logged in becomes the active one. *)
LogIn(s) ==
  /\ stage[s] = "net"
  /\ \/ /\ stage' = [stage EXCEPT ![s] = "in"]
        /\ stone' = [stone EXCEPT ![s] = net[Library(s)]]
        /\ active' = [active EXCEPT ![Library(s)] = s]
        /\ alive' = alive \cup {s}
     \/ /\ "login" \in Faults
        /\ stage' = [stage EXCEPT ![s] = "refused"]
        /\ UNCHANGED <<stone, active, alive>>
  /\ UNCHANGED <<net, exports, runtimes, handles>>

(* getSessionId, or the login's result when it fails. *)
Bind(s) ==
  /\ stage[s] = "in"
  /\ \E id \in {active[Library(s)], s} : bound' = [bound EXCEPT ![s] = id]
  /\ stage' = [stage EXCEPT ![s] = "open"]
  /\ UNCHANGED <<stone, native, chain, activated, handles>>

-----------------------------------------------------------------------------
(* The chain                                                               *)

(* Mutant: a new call goes before those that wait. *)
Enqueue_Before(s, kind, h) ==
  chain' = [chain EXCEPT ![s] = IF activated[s]
                                THEN <<Head(@), [kind |-> kind, of |-> h]>> \o Tail(@)
                                ELSE <<[kind |-> kind, of |-> h]>> \o @]

Enqueue(s, kind, h) ==
  chain' = [chain EXCEPT ![s] = Append(@, [kind |-> kind, of |-> h])]

Room(s) == Len(chain[s]) < QueueBound

(* The first call activates its session; its own turn comes after an await. *)
Activate(s) ==
  /\ chain[s] /= <<>> /\ ~activated[s]
  /\ active' = [active EXCEPT ![Library(s)] = bound[s]]
  /\ activated' = [activated EXCEPT ![s] = TRUE]
  /\ UNCHANGED <<stage, stone, net, alive, exports, bound, chain, handles>>

First(s, kind) ==
  /\ activated[s] /\ Head(chain[s]).kind = kind
  /\ chain' = [chain EXCEPT ![s] = Tail(@)]
  /\ activated' = [activated EXCEPT ![s] = FALSE]
  /\ UNCHANGED <<net, active, stone, bound, leaving>>

Works(s) == active[Library(s)] \in alive
Breaks(s, kind) == ~Works(s) \/ kind \in Faults

(* addOopToExportSet, for the first handle on an object. *)
Add(s) ==
  LET h == Head(chain[s]).of
      n == active[Library(s)]
  IN  /\ First(s, "add")
      /\ \/ /\ Works(s)
            /\ exports' = [exports EXCEPT ![n] = @ \cup {OopOf[h]}]
            /\ state' = [state EXCEPT ![h] = IF @ = "retaining" THEN "held" ELSE @]
            /\ UNCHANGED failed
         \/ /\ Breaks(s, "add")
            /\ state' = [state EXCEPT ![h] = IF @ = "retaining" THEN "broken" ELSE @]
            /\ failed' = failed \cup {<<"add", h>>}
            /\ UNCHANGED exports
      /\ UNCHANGED <<stage, alive, counts>>

Remove(s) ==
  LET h == Head(chain[s]).of
      n == active[Library(s)]
  IN  /\ First(s, "remove")
      /\ \/ /\ Works(s)
            /\ exports' = [exports EXCEPT ![n] = @ \ {OopOf[h]}]
            /\ UNCHANGED failed
         \/ /\ Breaks(s, "remove")
            /\ failed' = failed \cup {<<"remove", h>>}
            /\ UNCHANGED exports
      /\ UNCHANGED <<stage, alive, counts, state>>

(* A message to the object of a handle: it works or not. *)
Use(s) ==
  /\ First(s, "use")
  /\ UNCHANGED <<stage, alive, exports, counts, state, failed>>

(* The session is over for its client even if the native logout fails. *)
LogOut(s) ==
  LET n == active[Library(s)]
  IN  /\ First(s, "logout")
      /\ \/ /\ Works(s)
            /\ alive' = alive \ {n}
            /\ exports' = [exports EXCEPT ![n] = {}]
         \/ Breaks(s, "logout") /\ UNCHANGED <<alive, exports>>
      /\ stage' = [stage EXCEPT ![s] = "closed"]
      /\ counts' = [counts EXCEPT ![s] = [o \in Oops |-> 0]]
      /\ UNCHANGED <<state, failed>>

-----------------------------------------------------------------------------
(* The application                                                         *)

(* new ManagedOop *)
Retain(h) ==
  LET s == SessionOf[h]  count == counts[s][OopOf[h]]
  IN  /\ stage[s] = "open" /\ state[h] = "none" /\ Room(s)
      /\ counts' = [counts EXCEPT ![s][OopOf[h]] = count + 1]
      /\ \/ count = 0 /\ Enqueue(s, "add", h) /\ state' = [state EXCEPT ![h] = "retaining"]
         \/ count > 0 /\ state' = [state EXCEPT ![h] = "held"] /\ UNCHANGED chain
      /\ UNCHANGED <<stage, stone, native, bound, activated, leaving, failed>>

(* send(), of a message without arguments *)
Send(h) ==
  LET s == SessionOf[h]
  IN  /\ stage[s] = "open" /\ state[h] = "held" /\ h \notin leaving /\ Room(s)
      /\ Enqueue(s, "use", h)
      /\ UNCHANGED <<stage, stone, native, bound, activated, handles>>

(* release(), which waits for the handle to be held *)
Release(h) ==
  /\ state[h] \in {"retaining", "held"} /\ h \notin leaving
  /\ leaving' = leaving \cup {h}
  /\ UNCHANGED <<stage, stone, native, runtimes, counts, state, failed>>

(* Mutant: the object is not removed. *)
LetGo_Unsent(h) ==
  LET s == SessionOf[h]  count == counts[s][OopOf[h]]
  IN  /\ counts' = [counts EXCEPT ![s][OopOf[h]] = IF count <= 1 THEN 0 ELSE count - 1]
      /\ UNCHANGED chain
      /\ state' = [state EXCEPT ![h] = "done"]
      /\ UNCHANGED <<stage, stone, native, bound, activated, leaving, failed>>

(* releaseManagedOop *)
LetGo(h) ==
  LET s == SessionOf[h]  count == counts[s][OopOf[h]]
  IN  /\ \/ count <= 1 /\ Enqueue(s, "remove", h) /\ counts' = [counts EXCEPT ![s][OopOf[h]] = 0]
         \/ count > 1 /\ counts' = [counts EXCEPT ![s][OopOf[h]] = count - 1] /\ UNCHANGED chain
      /\ state' = [state EXCEPT ![h] = "done"]
      /\ UNCHANGED <<stage, stone, native, bound, activated, leaving, failed>>

Released(h)  == state[h] = "held" /\ h \in leaving /\ LetGo(h)
Collected(h) == state[h] \in {"retaining", "held", "broken"} /\ h \notin leaving /\ LetGo(h)

AskLogOut(s) ==
  /\ stage[s] = "open"
  /\ stage' = [stage EXCEPT ![s] = "closing"]
  /\ Enqueue(s, "logout", None)
  /\ UNCHANGED <<stone, native, bound, activated, handles>>

Next ==
  \/ \E s \in Sessions :
       \/ SetNet(s) \/ LogIn(s) \/ Bind(s) \/ AskLogOut(s)
       \/ Activate(s) \/ Add(s) \/ Remove(s) \/ Use(s) \/ LogOut(s)
  \/ \E h \in Handles : Retain(h) \/ Send(h) \/ Release(h) \/ Released(h) \/ Collected(h)

Spec == Init /\ [][Next]_vars

-----------------------------------------------------------------------------
(* Properties                                                              *)

(* A call is made in the session it belongs to: docs/architecture.md:229   *)
(* says that the session id is reactivated before dispatching into GCI.    *)
RightSession == \A s \in Sessions : activated[s] => active[Library(s)] = bound[s]

(* A session is bound to the native session it logged in, with its own     *)
(* network parameters.                                                     *)
LoginsAreOwn ==
  \A s \in Sessions : bound[s] \in {None, s} /\ stone[s] \in {None, s}

(* Where adding the object did not fail, a message reaches an object that  *)
(* is in the export set, whatever other handles on it do meanwhile.        *)
AddFailed(s, o) == \E h \in Handles : <<"add", h>> \in failed /\ SessionOf[h] = s /\ OopOf[h] = o

Protected ==
  \A s \in Sessions :
    activated[s] /\ Head(chain[s]).kind = "use" =>
      LET o == OopOf[Head(chain[s]).of]
      IN  o \in exports[s] \/ AddFailed(s, o)

(* What is in the export set when no call is under way is there for a      *)
(* handle that holds it, or because it could not be removed.               *)
NothingLeaks ==
  \A s \in Sessions, o \in Oops :
    stage[s] = "open" /\ chain[s] = <<>> /\ o \in exports[s] =>
      \E h \in Handles :
        /\ SessionOf[h] = s /\ OopOf[h] = o
        /\ state[h] = "held" \/ <<"remove", h>> \in failed
=============================================================================
