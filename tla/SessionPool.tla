---------------------------- MODULE SessionPool ----------------------------
(***************************************************************************)
(* The session pool of src/pool.ts.  JavaScript runs one piece of code at  *)
(* a time, so whatever lies between two awaits is one step; every await    *)
(* (a login, a logout, an abort, a health check) is a point at which any   *)
(* other caller may run.  A caller is one flow of the application that     *)
(* uses the pool (a request handler): it has at most one operation of the  *)
(* pool in progress, and pc says where that operation waits.               *)
(***************************************************************************)
EXTENDS Integers, FiniteSets, SequencesExt

CONSTANTS
  Callers,    \* flows of the application that use the pool
  Sessions,   \* identities of the sessions Session.connect returns
  MaxSize,    \* config.maxSize
  MinSize,    \* config.minSize: the sweeper stops there
  MaxUses,    \* config.maxSessionUses, 0 when it is not configured
  WarmCount,  \* the argument of warm()
  Timers,     \* which of acquireTimeoutMs, idleTimeoutMs, maxSessionAgeMs are set
  Options,    \* the release options callers pass
  Faults,     \* which native operations may fail
  MaxOrphans, \* bound: how many logouts fail
  None,       \* no session, no waiter
  Expired     \* a waiter whose timer fired while it was being served

ASSUME SizesAssumption ==
  /\ MaxSize \in Nat \ {0} /\ MinSize \in 0..MaxSize /\ MaxUses \in Nat /\ WarmCount \in Nat
  /\ MaxOrphans \in Nat

ASSUME ChoicesAssumption ==
  /\ Timers \subseteq {"acquire", "idle", "age"}
  /\ Options \subseteq {"discard", "clean", "reset"}
  /\ Faults \subseteq {"connect", "reset", "validate", "logout"}

ASSUME IdentitiesAssumption ==
  None \notin Sessions \cup Callers /\ Expired \notin Callers \cup {None}

(* A sweep deletes the use count of a session that a caller may hold by    *)
(* then; use counts are followed only in pools that do not sweep.          *)
ASSUME UsesAssumption == "idle" \in Timers => MaxUses = 0

VARIABLES
  idle,       \* #idle: the sessions at rest; acquire takes the last one
  created,    \* #created: the capacity in use
  closed,     \* #closed
  waiters,    \* #waiters: the callers queued for a session, oldest first
  live,       \* sessions whose client is logged in
  uses,       \* metadata.useCount of each session
  dirty,      \* sessions with changes neither committed nor aborted
  closing,    \* sessions close() is logging out
  orphans,    \* history: sessions the Stone still has, for their logout failed
  abandoned,  \* history: sessions resolved to a waiter that had timed out
  pc,         \* where each caller's operation waits
  held,       \* the session each caller's operation works on
  serving,    \* the waiter that serveWaiters() is creating a session for
  sweepAt,    \* position in #idle of the session sweepIdle() logs out; 0: no sweep
  keep,       \* the entries the sweep has decided to keep
  victim      \* the session the sweep logs out

poolVars    == <<idle, created, closed, waiters>>
lostVars    == <<orphans, abandoned>>
sessionVars == <<live, uses, dirty, closing, lostVars>>
callVars    == <<pc, held, serving>>
sweepVars   == <<sweepAt, keep, victim>>
vars        == <<poolVars, sessionVars, callVars, sweepVars>>

Stages == {"out",         \* no operation, no lease
           "evicting",    \* acquire: logging out a session past its age or uses, or invalid
           "validating",  \* acquire: validating the session taken from idle
           "connecting",  \* acquire: logging in
           "queued",      \* acquire: waiting for another caller's session
           "leased",      \* the caller has the lease
           "resetting",   \* release: aborting
           "checking",    \* release: validating
           "discarding",  \* release: logging out the session
           "serving",     \* release: logging in for a waiter
           "warming"}     \* warm: logging in

Types ==
  /\ idle \in Seq(Sessions)
  /\ created \in Int
  /\ closed \in BOOLEAN
  /\ waiters \in Seq(Callers)
  /\ live \subseteq Sessions
  /\ uses \in [Sessions -> Nat]
  /\ dirty \subseteq Sessions
  /\ closing \subseteq Sessions
  /\ orphans \subseteq Sessions /\ abandoned \subseteq Sessions
  /\ pc \in [Callers -> Stages]
  /\ held \in [Callers -> Sessions \cup {None}]
  /\ serving \in [Callers -> Callers \cup {None, Expired}]
  /\ sweepAt \in Nat
  /\ keep \in Seq(Sessions)
  /\ victim \in Sessions \cup {None}

(* The stages of an operation that works on a session: it has one. *)
Holding     == {"evicting", "validating", "leased", "resetting", "checking", "discarding"}
HoldersHold == \A c \in Callers : pc[c] \in Holding => held[c] \in Sessions

TypeOK == Types /\ HoldersHold

Init ==
  /\ idle = <<>> /\ created = 0 /\ closed = FALSE /\ waiters = <<>>
  /\ live = {} /\ uses = [s \in Sessions |-> 0] /\ dirty = {} /\ closing = {}
  /\ orphans = {} /\ abandoned = {}
  /\ pc = [c \in Callers |-> "out"]
  /\ held = [c \in Callers |-> None]
  /\ serving = [c \in Callers |-> None]
  /\ sweepAt = 0 /\ keep = <<>> /\ victim = None

-----------------------------------------------------------------------------
(* Sessions                                                                *)

(* Session.connect returns a session nothing refers to yet. *)
Fresh == {s \in Sessions : /\ s \notin live \cup closing \cup orphans
                           /\ s \notin ToSet(idle) \cup ToSet(keep)
                           /\ s # victim
                           /\ \A c \in Callers : held[c] # s}

(* Math.max(this.#created - n, 0) *)
Less(n) == IF n <= created THEN created - n ELSE 0

(* A new session has no changes; n is its use count. *)
LogIn(s, n) ==
  /\ live' = live \cup {s}
  /\ dirty' = dirty \ {s}
  /\ uses' = [uses EXCEPT ![s] = IF MaxUses = 0 THEN 0 ELSE n]

LogOut_Forgotten(S) == UNCHANGED <<live, dirty, orphans>>   \* mutant: no logout

(* The end of a logout.  The client counts as logged out whatever the      *)
(* Stone answers (finally), and the pool swallows the failure (#discard):  *)
(* the Stone may still have the session then.                              *)
LogOut(S) ==
  /\ live' = live \ S /\ dirty' = dirty \ S
  /\ \/ orphans' = orphans \ S
     \/ /\ "logout" \in Faults
        /\ orphans' = orphans \cup (S \cap live)
        /\ Cardinality(orphans') <= MaxOrphans

(* A native call for s succeeds: calls are served in the order they were   *)
(* made, so one made after the sweep has asked for the logout of s fails.  *)
Usable(s) == s \in live \ {victim}

(* markCheckedOut; uncounted when no limit is configured. *)
CheckOut(s) == uses' = [uses EXCEPT ![s] = IF MaxUses = 0 THEN 0 ELSE @ + 1]

(* recycleReason: an age may or may not have passed, a use count is exact. *)
UsedUp_OneMore(s) == MaxUses # 0 /\ uses[s] > MaxUses   \* mutant

UsedUp(s)     == MaxUses # 0 /\ uses[s] >= MaxUses
Recyclable(s) == "age" \in Timers \/ UsedUp(s)

-----------------------------------------------------------------------------
(* acquire()                                                               *)

(* ensureOpen throws. *)
Refused(c) ==
  /\ closed
  /\ pc' = [pc EXCEPT ![c] = "out"]
  /\ held' = [held EXCEPT ![c] = None]
  /\ UNCHANGED <<idle, created, waiters>>

(* The session used last is taken, to be validated or logged out. *)
TakeIdle(c) ==
  /\ ~closed /\ idle # <<>>
  /\ idle' = Front(idle)
  /\ held' = [held EXCEPT ![c] = Last(idle)]
  /\ \/ /\ Recyclable(Last(idle))
        /\ created' = Less(1)
        /\ pc' = [pc EXCEPT ![c] = "evicting"]
     \/ /\ ~UsedUp(Last(idle))
        /\ created' = created
        /\ pc' = [pc EXCEPT ![c] = "validating"]
  /\ UNCHANGED waiters

(* Mutant: one session more than maxSize. *)
Connect_OneMore(c) ==
  /\ ~closed /\ idle = <<>> /\ created <= MaxSize
  /\ created' = created + 1
  /\ pc' = [pc EXCEPT ![c] = "connecting"]
  /\ held' = [held EXCEPT ![c] = None]
  /\ UNCHANGED <<idle, waiters>>

Connect(c) ==
  /\ ~closed /\ idle = <<>> /\ created < MaxSize
  /\ created' = created + 1
  /\ pc' = [pc EXCEPT ![c] = "connecting"]
  /\ held' = [held EXCEPT ![c] = None]
  /\ UNCHANGED <<idle, waiters>>

Enqueue(c) ==
  /\ ~closed /\ idle = <<>> /\ created >= MaxSize
  /\ waiters' = Append(waiters, c)
  /\ pc' = [pc EXCEPT ![c] = "queued"]
  /\ held' = [held EXCEPT ![c] = None]
  /\ UNCHANGED <<idle, created>>

(* The body of acquire from ensureOpen to its first await. *)
AcquireBody(c) ==
  /\ Refused(c) \/ TakeIdle(c) \/ Connect(c) \/ Enqueue(c)
  /\ UNCHANGED <<closed, uses, closing, abandoned, serving, sweepVars>>

Acquire(c) ==
  /\ pc[c] = "out"
  /\ UNCHANGED <<live, dirty, orphans>>
  /\ AcquireBody(c)

(* The logout of an unusable session ends and acquire starts again. *)
EvictDone(c) ==
  /\ pc[c] = "evicting"
  /\ LogOut({held[c]})
  /\ AcquireBody(c)

(* validateIfNeeded returns: lease the session or log it out. *)
ValidateDone(c) ==
  /\ pc[c] = "validating"
  /\ \/ /\ pc' = [pc EXCEPT ![c] = "leased"]
        /\ CheckOut(held[c])
        /\ UNCHANGED created
     \/ /\ "validate" \in Faults
        /\ pc' = [pc EXCEPT ![c] = "evicting"]
        /\ created' = Less(1)
        /\ UNCHANGED uses
  /\ UNCHANGED <<idle, closed, waiters, live, dirty, closing, lostVars, held, serving, sweepVars>>

(* createSession returns to acquire. *)
ConnectDone(c) ==
  /\ pc[c] = "connecting"
  /\ \E s \in Fresh :
        /\ LogIn(s, 1)
        /\ held' = [held EXCEPT ![c] = s]
  /\ pc' = [pc EXCEPT ![c] = "leased"]
  /\ UNCHANGED <<poolVars, closing, lostVars, serving, sweepVars>>

(* createSession fails: acquire or warm rejects, no waiter is served. *)
ConnectFail(c) ==
  /\ pc[c] \in {"connecting", "warming"} /\ "connect" \in Faults
  /\ created' = created - 1
  /\ pc' = [pc EXCEPT ![c] = "out"]
  /\ UNCHANGED <<idle, closed, waiters, sessionVars, held, serving, sweepVars>>

(* Mutant: the timer rejects but does not leave the queue. *)
Timeout_StaysQueued(c) ==
  /\ pc[c] = "queued" /\ "acquire" \in Timers
  /\ serving' = [d \in Callers |-> IF serving[d] = c THEN Expired ELSE serving[d]]
  /\ pc' = [pc EXCEPT ![c] = "out"]
  /\ UNCHANGED <<idle, created, closed, waiters, sessionVars, held, sweepVars>>

(* The timer of a queued acquire fires. It is still armed while            *)
(* serveWaiters logs in for the waiter it has shifted.                     *)
Timeout(c) ==
  /\ pc[c] = "queued" /\ "acquire" \in Timers
  /\ \/ c \notin ToSet(waiters) /\ UNCHANGED waiters
     \/ \E i \in DOMAIN waiters : waiters[i] = c /\ waiters' = RemoveAt(waiters, i)
  /\ serving' = [d \in Callers |-> IF serving[d] = c THEN Expired ELSE serving[d]]
  /\ pc' = [pc EXCEPT ![c] = "out"]
  /\ UNCHANGED <<idle, created, closed, sessionVars, held, sweepVars>>

-----------------------------------------------------------------------------
(* The holder of a lease                                                   *)

Work(c) ==
  /\ pc[c] = "leased" /\ Usable(held[c])
  /\ dirty' = dirty \cup {held[c]}
  /\ UNCHANGED <<poolVars, live, uses, closing, lostVars, callVars, sweepVars>>

(* session.commit() or session.abort() *)
Settle(c) ==
  /\ pc[c] = "leased" /\ Usable(held[c])
  /\ dirty' = dirty \ {held[c]}
  /\ UNCHANGED <<poolVars, live, uses, closing, lostVars, callVars, sweepVars>>

-----------------------------------------------------------------------------
(* release()                                                               *)

(* discard() up to the await of the logout. *)
StartDiscard(c) ==
  /\ created' = Less(1)
  /\ pc' = [pc EXCEPT ![c] = "discarding"]

ReleaseDiscard(c) ==
  /\ pc[c] = "leased" /\ ("discard" \in Options \/ closed)
  /\ StartDiscard(c)
  /\ UNCHANGED <<idle, closed, waiters, sessionVars, held, serving, sweepVars>>

(* A caller passes clean only after a commit or an abort of its own. *)
ReleaseClean(c) ==
  /\ pc[c] = "leased" /\ "clean" \in Options /\ ~closed /\ held[c] \notin dirty
  /\ pc' = [pc EXCEPT ![c] = "checking"]
  /\ UNCHANGED <<poolVars, sessionVars, held, serving, sweepVars>>

ReleaseReset(c) ==
  /\ pc[c] = "leased" /\ "reset" \in Options /\ ~closed
  /\ pc' = [pc EXCEPT ![c] = "resetting"]
  /\ UNCHANGED <<poolVars, sessionVars, held, serving, sweepVars>>

(* resetSession returns. *)
ResetDone(c) ==
  /\ pc[c] = "resetting"
  /\ \/ /\ Usable(held[c])
        /\ dirty' = dirty \ {held[c]}
        /\ pc' = [pc EXCEPT ![c] = "checking"]
        /\ UNCHANGED created
     \/ /\ "reset" \in Faults \/ ~Usable(held[c])
        /\ StartDiscard(c)
        /\ UNCHANGED dirty
  /\ UNCHANGED <<idle, closed, waiters, live, uses, closing, lostVars, held, serving, sweepVars>>

(* validateIfNeeded returns to release and the session is not kept. *)
CheckFailed(c) ==
  /\ pc[c] = "checking"
  /\ "validate" \in Faults \/ Recyclable(held[c])
  /\ StartDiscard(c)
  /\ UNCHANGED <<idle, closed, waiters, sessionVars, held, serving, sweepVars>>

HandOver_Newest(c) ==
  /\ pc[c] = "checking" /\ ~UsedUp(held[c]) /\ waiters # <<>>
  /\ waiters' = Front(waiters)
  /\ pc' = [pc EXCEPT ![c] = "out", ![Last(waiters)] = "leased"]
  /\ held' = [held EXCEPT ![c] = None, ![Last(waiters)] = held[c]]
  /\ CheckOut(held[c])
  /\ UNCHANGED <<idle, created, closed, live, dirty, closing, lostVars, serving, sweepVars>>

(* ... or it goes to the oldest waiter, without another look at closed ... *)
HandOver(c) ==
  /\ pc[c] = "checking" /\ ~UsedUp(held[c]) /\ waiters # <<>>
  /\ waiters' = Tail(waiters)
  /\ pc' = [pc EXCEPT ![c] = "out", ![Head(waiters)] = "leased"]
  /\ held' = [held EXCEPT ![c] = None, ![Head(waiters)] = held[c]]
  /\ CheckOut(held[c])
  /\ UNCHANGED <<idle, created, closed, live, dirty, closing, lostVars, serving, sweepVars>>

(* ... or to rest in idle. *)
Shelve(c) ==
  /\ pc[c] = "checking" /\ ~UsedUp(held[c]) /\ waiters = <<>>
  /\ idle' = Append(idle, held[c])
  /\ pc' = [pc EXCEPT ![c] = "out"]
  /\ held' = [held EXCEPT ![c] = None]
  /\ UNCHANGED <<created, closed, waiters, sessionVars, serving, sweepVars>>

(* serveWaiters(): one turn of its loop, from the test to the await.       *)
(* n is the capacity in use and stage the callers' stages before the turn. *)
ServeTurn(c, n, stage) ==
  \/ /\ ~closed /\ waiters # <<>> /\ n < MaxSize
     /\ waiters' = Tail(waiters)
     /\ serving' = [serving EXCEPT ![c] = Head(waiters)]
     /\ created' = n + 1
     /\ pc' = [stage EXCEPT ![c] = "serving"]
  \/ /\ closed \/ waiters = <<>> \/ n >= MaxSize
     /\ serving' = [serving EXCEPT ![c] = None]
     /\ created' = n
     /\ pc' = [stage EXCEPT ![c] = "out"]
     /\ UNCHANGED waiters

(* Mutant: release returns without serveWaiters(). *)
DiscardDone_ServesNobody(c) ==
  /\ pc[c] = "discarding"
  /\ LogOut({held[c]})
  /\ held' = [held EXCEPT ![c] = None]
  /\ pc' = [pc EXCEPT ![c] = "out"]
  /\ UNCHANGED <<poolVars, uses, closing, abandoned, serving, sweepVars>>

DiscardDone(c) ==
  /\ pc[c] = "discarding"
  /\ LogOut({held[c]})
  /\ held' = [held EXCEPT ![c] = None]
  /\ ServeTurn(c, created, pc)
  /\ UNCHANGED <<idle, closed, uses, closing, abandoned, sweepVars>>

(* The session is for a waiter that still waits ... *)
ServeDone(c) ==
  /\ pc[c] = "serving" /\ serving[c] # Expired
  /\ \E s \in Fresh :
        /\ LogIn(s, 1)
        /\ held' = [held EXCEPT ![serving[c]] = s]
  /\ ServeTurn(c, created, [pc EXCEPT ![serving[c]] = "leased"])
  /\ UNCHANGED <<idle, closed, closing, lostVars, sweepVars>>

(* ... or for one that has timed out: resolve() is ignored, the lease lost. *)
ServeExpired(c) ==
  /\ pc[c] = "serving" /\ serving[c] = Expired
  /\ \E s \in Fresh : LogIn(s, 1) /\ abandoned' = abandoned \cup {s}
  /\ ServeTurn(c, created, pc)
  /\ UNCHANGED <<idle, closed, closing, orphans, held, sweepVars>>

(* createSession fails: the waiter is rejected. *)
ServeFail(c) ==
  /\ pc[c] = "serving" /\ "connect" \in Faults
  /\ ServeTurn(c, created - 1,
               [d \in Callers |-> IF d = serving[c] THEN "out" ELSE pc[d]])
  /\ UNCHANGED <<idle, closed, sessionVars, held, sweepVars>>

-----------------------------------------------------------------------------
(* warm()                                                                  *)

(* normalizeWarmTarget *)
WarmTarget == IF WarmCount <= MaxSize THEN WarmCount ELSE MaxSize

(* One turn of the loop; closed is not looked at again. *)
WarmTurn(c) ==
  \/ /\ created < WarmTarget
     /\ created' = created + 1
     /\ pc' = [pc EXCEPT ![c] = "warming"]
  \/ /\ created >= WarmTarget
     /\ created' = created
     /\ pc' = [pc EXCEPT ![c] = "out"]

Warm(c) ==
  /\ pc[c] = "out" /\ ~closed
  /\ WarmTurn(c)
  /\ UNCHANGED <<idle, closed, waiters, sessionVars, held, serving, sweepVars>>

WarmDone(c) ==
  /\ pc[c] = "warming"
  /\ \E s \in Fresh :
        /\ LogIn(s, 0)
        /\ idle' = Append(idle, s)
  /\ WarmTurn(c)
  /\ UNCHANGED <<closed, waiters, closing, lostVars, held, serving, sweepVars>>

-----------------------------------------------------------------------------
(* close()                                                                 *)

Close ==
  /\ ~closed
  /\ closed' = TRUE
  /\ waiters' = <<>>
  /\ pc' = [c \in Callers |-> IF c \in ToSet(waiters) THEN "out" ELSE pc[c]]
  /\ idle' = <<>>
  /\ created' = Less(Len(idle))
  /\ closing' = closing \cup ToSet(idle)
  /\ UNCHANGED <<live, uses, dirty, lostVars, held, serving, sweepVars>>

CloseLogout(s) ==
  /\ s \in closing
  /\ LogOut({s})
  /\ closing' = closing \ {s}
  /\ UNCHANGED <<poolVars, uses, abandoned, callVars, sweepVars>>

-----------------------------------------------------------------------------
(* sweepIdle(): a for-of loop over the array that acquire pops and release *)
(* pushes meanwhile, and the replacement of the array at its end.  At most *)
(* one sweep runs at a time (the interval is at least a second).           *)

(* Bound: once a race has made #idle longer than maxSize it is not swept.  *)
SweepBound == Len(idle) <= MaxSize

(* From entry i: keep entries up to the next expired one, or to the end.   *)
SweepFrom(i) ==
  \/ \E j \in i..Len(idle) :
        /\ created > MinSize
        /\ keep' = keep \o SubSeq(idle, i, j - 1)
        /\ victim' = idle[j]
        /\ sweepAt' = j
        /\ created' = Less(1)
        /\ UNCHANGED idle
  \/ /\ idle' = keep \o SubSeq(idle, i, Len(idle))
     /\ keep' = <<>> /\ victim' = None /\ sweepAt' = 0
     /\ UNCHANGED created

SweepStart ==
  /\ "idle" \in Timers /\ sweepAt = 0 /\ SweepBound
  /\ SweepFrom(1)
  /\ UNCHANGED <<closed, waiters, sessionVars, callVars>>

SweepNext ==
  /\ sweepAt # 0
  /\ LogOut({victim})
  /\ SweepFrom(sweepAt + 1)
  /\ UNCHANGED <<closed, waiters, uses, closing, abandoned, callVars>>

-----------------------------------------------------------------------------
Release(c) == ReleaseDiscard(c) \/ ReleaseClean(c) \/ ReleaseReset(c)

CallerStep(c) ==
  \/ Acquire(c) \/ EvictDone(c) \/ ValidateDone(c) \/ ConnectDone(c) \/ ConnectFail(c)
  \/ Timeout(c) \/ Work(c) \/ Settle(c)
  \/ Release(c) \/ ResetDone(c) \/ CheckFailed(c) \/ HandOver(c) \/ Shelve(c)
  \/ DiscardDone(c) \/ ServeDone(c) \/ ServeExpired(c) \/ ServeFail(c)
  \/ Warm(c) \/ WarmDone(c)

Next ==
  \/ \E c \in Callers : CallerStep(c)
  \/ Close
  \/ \E s \in Sessions : CloseLogout(s)
  \/ SweepStart \/ SweepNext

Spec == Init /\ [][Next]_vars

-----------------------------------------------------------------------------
(* Safety                                                                  *)

(* A session is in one place: with one caller, or at rest once, or with    *)
(* close(); acquire, release, serveWaiters and close move it between them  *)
(* around awaits at which the others run.                                  *)
Exclusive ==
  /\ \A c, d \in Callers : held[c] = held[d] /\ held[c] # None => c = d
  /\ \A c \in Callers : held[c] \notin ToSet(idle) \cup closing
  /\ IsInjective(idle)
  /\ ToSet(idle) \cap closing = {}

(* What the grants below rest on: a session at rest, or past the abort of  *)
(* release(), is logged in and clean; one being validated for a caller has *)
(* a use left; a logout under way never takes a session in use.            *)
Ready ==
  /\ ToSet(idle) \subseteq live \ dirty
  /\ closing \cup dirty \subseteq live
  /\ \A c \in Callers :
        /\ pc[c] \in Holding => held[c] \in live
        /\ pc[c] \in {"validating", "checking"} => held[c] \notin dirty
        /\ pc[c] = "validating" => ~UsedUp(held[c])

(* The promise of acquire(), on each of the three ways a lease is granted  *)
(* (a session at rest, a login, another caller's release or its            *)
(* serveWaiters): the session is logged in, has no changes of an earlier   *)
(* holder, is within its uses, and is at no other caller and not at rest.  *)
GrantsAreFit ==
  [][\A c \in Callers :
        pc[c] # "leased" /\ pc'[c] = "leased" =>
          /\ held'[c] \in live' \ (dirty' \cup closing' \cup ToSet(idle'))
          /\ \A d \in Callers \ {c} : held'[d] # held'[c]
          /\ MaxUses # 0 => uses'[held'[c]] <= MaxUses]_vars

Creating == {c \in Callers : pc[c] \in {"connecting", "warming", "serving"}}
Leaving  == closing \cup {held[c] : c \in {d \in Callers : pc[d] \in {"evicting", "discarding"}}}

(* #created, which every decision to log in is based on, is the number of  *)
(* logins in progress and of clients logged in that are not being logged   *)
(* out; it never exceeds maxSize.                                          *)
Accounting ==
  /\ created = Cardinality(Creating) + Cardinality(live \ Leaving)
  /\ created <= MaxSize

Places == ToSet(idle) \cup closing \cup ({held[c] : c \in Callers} \ {None})

(* Every client logged in is at rest, with a caller or being closed, or    *)
(* was resolved to a waiter that had timed out; these three have no        *)
(* session in common with the last, nor with those whose logout failed.    *)
NoSessionLost ==
  /\ live = Places \cup abandoned
  /\ abandoned \cap Places = {}
  /\ orphans \cap live = {}

(* The two ways in which the code loses a session are the only ones.       *)
(* Every session the Stone has is in one place of the pool, and counted;   *)
(* or it went to a waiter whose timer had fired: it counts, with nobody to *)
(* give it back; or its logout failed: it does not count, so the Stone     *)
(* may have more sessions than maxSize, and no caller ever has it again.   *)
EverySessionCounted == Accounting /\ NoSessionLost

(* A queued acquire is in waiters, or some release is logging in for it,   *)
(* once: its promise is not forgotten, and it is settled once.             *)
EveryWaiterTracked ==
  \A c \in Callers :
    LET places == {i \in DOMAIN waiters : waiters[i] = c}
        servers == {d \in Callers : serving[d] = c}
    IN  Cardinality(places) + Cardinality(servers) = IF pc[c] = "queued" THEN 1 ELSE 0

(* Queued acquires have somebody at work who will look at the queue, and   *)
(* nothing they could have is at rest.                                     *)
Attended ==
  waiters # <<>> => idle = <<>> /\ \E c \in Callers : pc[c] \notin {"out", "queued"}

(* Whatever is released, discarded, evicted or given up while others       *)
(* queue, they are left unattended only by a login that fails, by warm(),  *)
(* and once every session the pool may have is lost to waiters that had    *)
(* timed out.                                                              *)
NoStrandedWaiter ==
  [][Attended /\ ~Attended' =>
       \/ \E c \in Callers : ConnectFail(c) \/ ServeFail(c) \/ WarmDone(c)
       \/ Cardinality(abandoned') = MaxSize]_vars

(* The queue is first in, first out, but for the timers: no release grants *)
(* a session, or starts one, for a caller while an older one is queued.    *)
NoOvertaking ==
  [][\A i, j \in DOMAIN waiters :
        i < j /\ waiters[i] \in ToSet(waiters') /\ waiters[j] \notin ToSet(waiters')
          => pc'[waiters[j]] = "out"]_vars

(* The pool implements the leases it promises: a caller has a lease while  *)
(* its stage is leased, whatever the pool does about it before and after.  *)
Promise == INSTANCE Leases WITH
  lease <- [c \in Callers |-> IF pc[c] = "leased" THEN held[c] ELSE None]

LeasesAsPromised == Promise!Spec

(* README.md: "dirty sessions are aborted before reuse".                   *)
AbortedBeforeReuse ==
  [][\A c \in Callers : pc[c] # "leased" /\ pc'[c] = "leased" => held'[c] \notin dirty']_vars

-----------------------------------------------------------------------------
(* For TLC: no definition tells callers, or sessions, apart.               *)
Symmetry == Permutations(Callers) \cup Permutations(Sessions)
=============================================================================
