----------------------------- MODULE Bootstrap -----------------------------
(***************************************************************************)
(* gemstone-js-bootstrap, src/bootstrap.ts: several runs at once make the  *)
(* roots of the library in UserGlobals, audit them before and after, and   *)
(* commit.  A session sees what was committed when it logged in.  What is  *)
(* stored under a key is the run that made it.  The Stone refuses to       *)
(* commit a change of UserGlobals when another one was committed since.    *)
(***************************************************************************)
EXTENDS Integers, Sequences, FiniteSets

CONSTANTS Runs,        \* the runs of the command
          BootFaults   \* the calls that may fail: connect, eval, commit, abort, logout

MarkerKey == "GemstoneJsBootstrapVersion"
Roots     == {"GStoreRoot", "GSQueryRoot"}
BootKeys  == Roots \cup {MarkerKey}
Others    == "others"   \* made by none of the runs
NotYet    == -1         \* the exit code of a run that goes on

ASSUME BootAssumption == Others \notin Runs

BootActions == {"apply", "status", "dry run", "print source", "help", "usage"}

VARIABLES userGlobals,  \* what is committed: key -> the run that made it
          changes,      \* how often UserGlobals was changed
          boots         \* run -> what it is at

bootVars == <<userGlobals, changes, boots>>

AtRest == [at |-> "start", action |-> "none", view |-> <<>>, since |-> 0, open |-> "no",
           before |-> {}, created |-> {}, late |-> FALSE, exit |-> NotYet]

BootTypeOK ==
  /\ DOMAIN userGlobals \subseteq BootKeys /\ changes \in Nat
  /\ \A r \in Runs : boots[r].at \in {"start", "connect", "audit", "make", "commit", "tell", "abort", "logout", "done"}

BootInit ==
  /\ userGlobals \in UNION {[K -> {Others}] : K \in {{}, {"GStoreRoot"}, BootKeys}}
  /\ changes = 0
  /\ boots = [r \in Runs |-> AtRest]

-----------------------------------------------------------------------------

Fails(call) == call \in BootFaults
Goes(r, to) == boots' = [boots EXCEPT ![r].at = to]
Fail(r)     == boots' = [boots EXCEPT ![r].at = "abort", ![r].exit = 1]

(* What needs no session is answered at once.                              *)
StartBoot(r, action) ==
  /\ boots[r].at = "start"
  /\ boots' = [boots EXCEPT ![r] = IF action \in {"apply", "status"} THEN [AtRest EXCEPT !.at = "connect", !.action = action]
                                   ELSE [AtRest EXCEPT !.at = "done", !.action = action,
                                                       !.exit = IF action = "usage" THEN 2 ELSE 0]]
  /\ UNCHANGED <<userGlobals, changes>>

Connect(r) ==
  /\ boots[r].at = "connect"
  /\ \/ boots' = [boots EXCEPT ![r].at = "audit", ![r].open = "yes", ![r].view = userGlobals, ![r].since = changes]
     \/ Fails("connect") /\ boots' = [boots EXCEPT ![r].at = "done", ![r].exit = 1]
  /\ UNCHANGED <<userGlobals, changes>>

(* The audit asks for one key after the other, all of one view.            *)
Audit(r) ==
  /\ boots[r].at = "audit"
  /\ \/ boots' = [boots EXCEPT ![r].before = DOMAIN boots[r].view,
                               ![r].at = IF boots[r].action = "status" THEN "abort" ELSE "make"]
     \/ Fails("eval") /\ Fail(r)
  /\ UNCHANGED <<userGlobals, changes>>

(* The roots that are missing are made, and the marker is put.             *)
Made(r) ==
  LET view == boots[r].view IN [k \in BootKeys |-> IF k \in Roots \cap DOMAIN view THEN view[k] ELSE r]

Make(r) ==
  /\ boots[r].at = "make"
  /\ \/ boots' = [boots EXCEPT ![r].view = Made(r), ![r].at = "commit"]
     \/ Fails("eval") /\ Fail(r)
  /\ UNCHANGED <<userGlobals, changes>>

Commits(r) == boots[r].since = changes

CommitBoot(r) ==
  /\ boots[r].at = "commit"
  /\ \/ /\ Commits(r)
        /\ userGlobals' = boots[r].view /\ changes' = changes + 1
        /\ boots' = [boots EXCEPT ![r].since = changes + 1, ![r].at = "tell"]
     \/ /\ ~Commits(r) \/ Fails("commit")
        /\ Fail(r) /\ UNCHANGED <<userGlobals, changes>>

(* The second audit: what is there now and was not before, was created.    *)
Tell(r) ==
  /\ boots[r].at = "tell"
  /\ \/ boots' = [boots EXCEPT ![r].created = DOMAIN boots[r].view \ boots[r].before, ![r].exit = 0, ![r].at = "logout"]
     \/ Fails("eval") /\ boots' = [boots EXCEPT ![r].at = "abort", ![r].exit = 1, ![r].late = TRUE]
  /\ UNCHANGED <<userGlobals, changes>>

(* A status aborts, and fails when that does; after a failure it does not  *)
(* matter.  A session is logged out in any case.                           *)
AbortBoot(r) ==
  /\ boots[r].at = "abort"
  /\ \/ boots' = [boots EXCEPT ![r].at = "logout", ![r].exit = IF @ = NotYet THEN 0 ELSE @]
     \/ Fails("abort") /\ boots' = [boots EXCEPT ![r].at = IF boots[r].exit = NotYet THEN "abort" ELSE "logout", ![r].exit = 1]
  /\ UNCHANGED <<userGlobals, changes>>

LogOutBoot(r) ==
  /\ boots[r].at = "logout"
  /\ \E left \in {"no"} \cup (IF Fails("logout") THEN {"stuck"} ELSE {}) :
       boots' = [boots EXCEPT ![r].at = "done", ![r].open = left]
  /\ UNCHANGED <<userGlobals, changes>>

(* Another program, a GStore for one, makes a root that it misses.         *)
OthersMake ==
  /\ "GStoreRoot" \notin DOMAIN userGlobals
  /\ userGlobals' = [k \in DOMAIN userGlobals \cup {"GStoreRoot"} |-> IF k = "GStoreRoot" THEN Others ELSE userGlobals[k]]
  /\ changes' = changes + 1 /\ UNCHANGED boots

BootNext == \/ OthersMake
            \/ \E r \in Runs :
                 \/ \E action \in BootActions : StartBoot(r, action)
                 \/ Connect(r) \/ Audit(r) \/ Make(r) \/ CommitBoot(r) \/ Tell(r) \/ AbortBoot(r) \/ LogOutBoot(r)

BootSpec == BootInit /\ [][BootNext]_bootVars

-----------------------------------------------------------------------------

(* A run that exits with 0 has told of exactly the roots that it made, and *)
(* all of them are there; and one that only asks, or fails, has made none, *)
(* unless what failed is the audit after its commit.                       *)
BootToldTruth ==
  \A r \in Runs :
    /\ boots[r].at = "done" /\ boots[r].exit = 0 /\ boots[r].action = "apply" =>
         /\ DOMAIN userGlobals = BootKeys
         /\ {k \in Roots \cap DOMAIN userGlobals : userGlobals[k] = r} = boots[r].created \cap Roots
    /\ boots[r].at = "done" /\ (boots[r].action # "apply" \/ (boots[r].exit = 1 /\ ~boots[r].late)) =>
         r \notin {userGlobals[k] : k \in DOMAIN userGlobals}

(* A root that is there stays: another run never puts an empty one in its  *)
(* place.                                                                  *)
RootsStay(stored) == \A k \in Roots \cap DOMAIN userGlobals : k \in DOMAIN stored /\ stored[k] = userGlobals[k]

(* A run ends only after it has tried to log its session out.              *)
BootSessionsEnd == \A r \in Runs : boots[r].at = "done" => boots[r].open # "yes"
=============================================================================
