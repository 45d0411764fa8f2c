---------------------------- MODULE Transactions ----------------------------
(***************************************************************************)
(* The two ways gemstone-js runs a transaction and retries it when the     *)
(* Stone refuses the commit: GStore.transaction (src/gstore.ts), which     *)
(* buffers what its callback sets and deletes and writes the buffers again *)
(* at each attempt, and runTransactionWithRetry (src/transactions.ts),     *)
(* which runs its callback again at each attempt, on a session of the      *)
(* caller ("existing") or on one of its own ("owned").                     *)
(*                                                                         *)
(* The clients share one GemStone Stone, which is external: a session sees *)
(* the entries as they were when its view was last refreshed, by login,    *)
(* abort or commit, with its own changes on top; a commit that has changes *)
(* is refused when another commit came after that view.                    *)
(***************************************************************************)
EXTENDS Integers

CONSTANTS
  Clients,
  Keys,      \* keys of one store, whose file is one object of the Stone
  Jobs,      \* what a client may be asked: a kind and a program
  Attempts,  \* attempts, maxRetries
  Faults,    \* which of "work", "abort", "stale", "read", "connect", "write",
             \* "commit", "listener" may fail
  Reports,   \* how commit() words a conflict
  None

Ops   == {"keep", "put", "drop", "claim", "putDrop", "dropPut"}
Kinds == {"gstore", "reader", "existing", "owned"}

ASSUME ParametersAssumption ==
  /\ Attempts \in Nat \ {0}
  /\ Jobs \subseteq [kind : Kinds, program : [Keys -> Ops]]
  /\ Faults \subseteq {"work", "abort", "stale", "read", "connect", "write",
                      "commit", "listener"}
  /\ Reports \subseteq {"numbered", "unnumbered", "plain"}
  /\ None \notin Clients

VARIABLES
  head,      \* the committed entries: the client that set each key, or None
  version,   \* how many commits changed them
  job,       \* what each client was asked
  pc,        \* where each call is
  attempt,   \* the attempt it is in
  view,      \* the entries its session sees
  seen,      \* the version its view was refreshed at
  changed,   \* whether its session has uncommitted changes
  puts,      \* keys of #dirty, whose value is the client's
  dels,      \* #deletes
  fate,      \* how the call ended: "open" until it has
  marred,    \* an abort, a write or a listener failed it
  born       \* the version its session saw at its first attempt

stone   == <<head, version>>
session == <<view, seen, changed>>
buffers == <<puts, dels>>
vars    == <<stone, job, pc, attempt, session, buffers, fate, marred, born>>

U == INSTANCE Updates WITH
       program <- [c \in Clients |-> job[c].program],
       value   <- head,
       fate    <- [c \in Clients |-> IF fate[c] \in {"open", "done"} THEN fate[c]
                                     ELSE "failed"]

Kind(c)    == job[c].kind
Program(c) == job[c].program
OnStore(c) == Kind(c) \in {"gstore", "reader"}
Writes(c)  == \E k \in Keys : Program(c)[k] /= "keep"

Entries == [Keys -> Clients \cup {None}]

TypeOK ==
  /\ head \in Entries
  /\ version \in Nat
  /\ job \in [Clients -> Jobs]
  /\ pc \in [Clients -> {"start", "work", "refuse", "discard", "write", "commit",
                         "notify", "retry", "undo", "over"}]
  /\ attempt \in [Clients -> 1..Attempts]
  /\ view \in [Clients -> Entries]
  /\ seen \in [Clients -> 0..version]
  /\ changed \in [Clients -> BOOLEAN]
  /\ puts \in [Clients -> SUBSET Keys]
  /\ dels \in [Clients -> SUBSET Keys]
  /\ fate \in [Clients -> {"open", "done", "failed", "exhausted"}]
  /\ marred \in [Clients -> BOOLEAN]
  /\ born \in [Clients -> 0..version]

(* The existing sessions and those of stores are logged in and clean; the  *)
(* store's file exists.                                                    *)
Init ==
  /\ head \in [Keys -> {None}]
  /\ version = 0
  /\ job \in [Clients -> Jobs]
  /\ pc = [c \in Clients |-> "start"]
  /\ attempt = [c \in Clients |-> 1]
  /\ view = [c \in Clients |-> head]
  /\ seen = [c \in Clients |-> 0]
  /\ changed = [c \in Clients |-> FALSE]
  /\ puts = [c \in Clients |-> {}] /\ dels = [c \in Clients |-> {}]
  /\ fate = [c \in Clients |-> "open"]
  /\ marred = [c \in Clients |-> FALSE]
  /\ born = [c \in Clients |-> 0]

-----------------------------------------------------------------------------
(* The session                                                             *)

(* c's session drops its changes and sees what is committed. *)
Refresh(c) ==
  /\ view' = [view EXCEPT ![c] = head]
  /\ seen' = [seen EXCEPT ![c] = version]
  /\ changed' = [changed EXCEPT ![c] = FALSE]

(* session.abort() fails: the session keeps its changes and its view. *)
AbortFails(c) ==
  /\ "abort" \in Faults
  /\ UNCHANGED session
  /\ marred' = [marred EXCEPT ![c] = TRUE]

AbortIgnoringErrors(c) ==
  \/ Refresh(c) /\ UNCHANGED marred
  \/ AbortFails(c)

Goto(c, where) == pc' = [pc EXCEPT ![c] = where] /\ UNCHANGED fate

End(c, how) ==
  /\ pc' = [pc EXCEPT ![c] = "over"]
  /\ fate' = [fate EXCEPT ![c] = how]

-----------------------------------------------------------------------------
(* An attempt                                                              *)

(* transaction() of a store aborts and reads its snapshot; an error that   *)
(* says a key of the old view is gone ("stale") is passed over.  Then, or  *)
(* in the other kinds first of all, the callback is to run.                *)
Start(c) ==
  /\ pc[c] = "start"
  /\ \/ OnStore(c) /\ Refresh(c) /\ Goto(c, "work") /\ UNCHANGED marred
     \/ OnStore(c) /\ "stale" \in Faults /\ Goto(c, "work")
        /\ UNCHANGED <<session, marred>>
     \/ OnStore(c) /\ "read" \in Faults /\ Refresh(c) /\ End(c, "failed")
        /\ UNCHANGED marred
     \/ OnStore(c) /\ AbortFails(c) /\ End(c, "failed")
     \/ Kind(c) = "existing" /\ Goto(c, "work") /\ UNCHANGED <<session, marred>>
     \/ Kind(c) = "owned" /\ Refresh(c) /\ Goto(c, "work") /\ UNCHANGED marred
     \/ Kind(c) = "owned" /\ "connect" \in Faults /\ End(c, "failed")
        /\ UNCHANGED <<session, marred>>
  /\ born' = IF attempt[c] = 1 THEN [born EXCEPT ![c] = seen'[c]] ELSE born
  /\ UNCHANGED <<stone, job, attempt, buffers>>

(* Mutant: set() leaves the key among the deletes. *)
SetKey_KeepsDelete(b) == [put |-> TRUE, del |-> b.del]

(* set() and delete() of GStoreTransaction, for one key of its buffers. *)
SetKey(b)    == [put |-> TRUE, del |-> FALSE]
DeleteKey(b) == [put |-> FALSE, del |-> TRUE]

(* The buffers of a key once the callback has done its part. *)
Buffered(op) ==
  LET empty == [put |-> FALSE, del |-> FALSE]
  IN  CASE op \in {"put", "claim"} -> SetKey(empty)
        [] op = "drop" -> DeleteKey(empty)
        [] op = "putDrop" -> DeleteKey(SetKey(empty))
        [] op = "dropPut" -> SetKey(DeleteKey(empty))
        [] OTHER -> empty

(* The callback of a store's transaction, on its snapshot. *)
StoreWork(c) ==
  /\ pc[c] = "work" /\ OnStore(c)
  /\ \/ /\ \/ "work" \in Faults
           \/ U!Refuses(Program(c), view[c])
           \/ Kind(c) = "reader" /\ Writes(c)
        /\ Goto(c, "refuse")
        /\ UNCHANGED buffers
     \/ /\ ~U!Refuses(Program(c), view[c])
        /\ Kind(c) = "reader" => ~Writes(c)
        /\ puts' = [puts EXCEPT ![c] = {k \in Keys : Buffered(Program(c)[k]).put}]
        /\ dels' = [dels EXCEPT ![c] = {k \in Keys : Buffered(Program(c)[k]).del}]
        /\ Goto(c, IF puts'[c] \cup dels'[c] = {} THEN "discard" ELSE "write")
  /\ UNCHANGED <<stone, job, attempt, session, marred, born>>

(* The abort of a transaction that threw or has nothing to commit. *)
Leave(c) ==
  /\ pc[c] \in {"refuse", "discard"}
  /\ \/ /\ Refresh(c) /\ UNCHANGED marred
        /\ End(c, IF pc[c] = "refuse" THEN "failed" ELSE "done")
     \/ "stale" \in Faults /\ UNCHANGED <<session, marred>>
        /\ End(c, IF pc[c] = "refuse" THEN "failed" ELSE "done")
     \/ AbortFails(c) /\ End(c, "failed")
  /\ UNCHANGED <<stone, job, attempt, buffers, born>>

(* The callback given to runTransactionWithRetry, on its session. *)
ReplayWork(c) ==
  /\ pc[c] = "work" /\ ~OnStore(c)
  /\ \/ /\ "work" \in Faults \/ U!Refuses(Program(c), view[c])
        /\ Goto(c, "undo")
        /\ UNCHANGED session
     \/ /\ ~U!Refuses(Program(c), view[c])
        /\ view' = [view EXCEPT ![c] = U!Result(c, Program(c), @)]
        /\ changed' = [changed EXCEPT ![c] = @ \/ Writes(c)]
        /\ Goto(c, "commit")
        /\ UNCHANGED seen
  /\ UNCHANGED <<stone, job, attempt, buffers, marred, born>>

(* writeFile: first all that is set, then all that is deleted. *)
Put(c, v)  == [k \in Keys |-> IF k \in puts[c] THEN c ELSE v[k]]
Drop(c, v) == [k \in Keys |-> IF k \in dels[c] THEN None ELSE v[k]]

WriteFile(c) ==
  /\ pc[c] = "write"
  /\ changed' = [changed EXCEPT ![c] = TRUE]
  /\ \/ /\ view' = [view EXCEPT ![c] = Drop(c, Put(c, @))]
        /\ Goto(c, "commit")
        /\ UNCHANGED marred
     \/ /\ "write" \in Faults
        /\ \E v \in {view[c], Put(c, view[c])} : view' = [view EXCEPT ![c] = v]
        /\ marred' = [marred EXCEPT ![c] = TRUE]
        /\ End(c, "failed")
  /\ UNCHANGED <<stone, job, attempt, seen, buffers, born>>

-----------------------------------------------------------------------------
(* Commit and retry                                                        *)

(* The errors each kind takes for a conflict: isLikelyCommitConflict of    *)
(* GStore looks for "conflict" in the message, isCommitConflictLike of the *)
(* helper also knows "commit failed", but only in errors with no number.   *)
TakenForConflict(c) ==
  IF OnStore(c) THEN {"numbered", "unnumbered"} ELSE {"unnumbered", "plain"}

Commit(c) ==
  /\ pc[c] = "commit"
  /\ \/ /\ ~changed[c] \/ seen[c] = version
        /\ head' = IF changed[c] THEN view[c] ELSE head
        /\ version' = IF changed[c] THEN version + 1 ELSE version
        /\ view' = [view EXCEPT ![c] = head']
        /\ seen' = [seen EXCEPT ![c] = version']
        /\ changed' = [changed EXCEPT ![c] = FALSE]
        /\ End(c, "done")
     \/ /\ changed[c] /\ seen[c] /= version
        /\ \E report \in Reports :
              Goto(c, IF report \notin TakenForConflict(c) THEN "undo"
                      ELSE IF OnStore(c) THEN "retry" ELSE "notify")
        /\ UNCHANGED <<stone, session>>
     \/ /\ "commit" \in Faults
        /\ Goto(c, "undo")
        /\ UNCHANGED <<stone, session>>
  /\ UNCHANGED <<job, attempt, buffers, marred, born>>

(* onConflict: when it throws, its error ends the call, and nothing aborts *)
(* the transaction.                                                        *)
Notify(c) ==
  /\ pc[c] = "notify"
  /\ \/ Goto(c, "retry") /\ UNCHANGED marred
     \/ /\ "listener" \in Faults
        /\ End(c, "failed")
        /\ marred' = [marred EXCEPT ![c] = TRUE]
  /\ UNCHANGED <<stone, job, attempt, session, buffers, born>>

(* After a conflict: GStore writes its buffers again, the helper runs its  *)
(* callback again, on a new session if it owns it.                         *)
Again(c) ==
  IF attempt[c] = Attempts
  THEN End(c, "exhausted") /\ UNCHANGED attempt
  ELSE /\ attempt' = [attempt EXCEPT ![c] = @ + 1]
       /\ Goto(c, CASE Kind(c) = "gstore" -> "write"
                    [] Kind(c) = "existing" -> "work"
                    [] OTHER -> "start")

(* Mutant: the last attempt throws before it aborts. *)
Retry_LastUnaborted(c) ==
  /\ pc[c] = "retry"
  /\ IF attempt[c] = Attempts
     THEN UNCHANGED <<session, attempt, marred>> /\ End(c, "exhausted")
     ELSE Refresh(c) /\ Again(c) /\ UNCHANGED marred
  /\ UNCHANGED <<stone, job, buffers, born>>

(* Mutant: the helper runs its callback again without an abort. *)
Retry_Unaborted(c) ==
  /\ pc[c] = "retry"
  /\ IF OnStore(c) THEN Refresh(c) ELSE UNCHANGED session
  /\ Again(c)
  /\ UNCHANGED <<stone, job, buffers, marred, born>>

Retry(c) ==
  /\ pc[c] = "retry"
  /\ \/ Refresh(c) /\ Again(c) /\ UNCHANGED marred
     \/ OnStore(c) /\ AbortFails(c) /\ End(c, "failed") /\ UNCHANGED attempt
     \/ ~OnStore(c) /\ AbortFails(c) /\ Again(c)
  /\ UNCHANGED <<stone, job, buffers, born>>

(* Any other error: abort, ignoring that it fails, and throw. *)
Undo(c) ==
  /\ pc[c] = "undo"
  /\ AbortIgnoringErrors(c)
  /\ End(c, "failed")
  /\ UNCHANGED <<stone, job, attempt, buffers, born>>

Next == \E c \in Clients :
  \/ Start(c) \/ StoreWork(c) \/ ReplayWork(c) \/ Leave(c) \/ WriteFile(c)
  \/ Commit(c) \/ Notify(c) \/ Retry(c) \/ Undo(c)

Spec == Init /\ [][Next]_vars

-----------------------------------------------------------------------------
(* Properties                                                              *)

(* No callback of a store reads before it writes.  What such a callback    *)
(* concludes from its snapshot may be wrong at a later attempt.            *)
Blind(c) == OnStore(c) => \A k \in Keys : Program(c)[k] /= "claim"

StoresWriteBlindly == \A c \in Clients : Blind(c)

(* Whatever conflicts, faults and retries there are, each call that ends   *)
(* well has taken effect once, whole, on the entries committed then, and a *)
(* call that ends badly not at all, as module Updates says.                *)
UpdatesAreSerial == U!Spec

(* A call that is over has left no change in its session for the next      *)
(* commit on it to commit, unless an abort failed, a write of GStore       *)
(* failed or the listener threw (src/gstore.ts:249 and                     *)
(* src/transactions.ts:238 let those leave the session as it is).          *)
SessionLeftClean ==
  \A c \in Clients : fate[c] /= "open" /\ changed[c] => marred[c]

(* A call that gives up after its last attempt was beaten by as many       *)
(* commits of others: no attempt is wasted on a view known to be stale.    *)
BeatenByOthers ==
  \A c \in Clients :
    fate[c] = "exhausted" /\ ~marred[c] => version - born[c] >= Attempts
=============================================================================
