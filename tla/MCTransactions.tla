--------------------------- MODULE MCTransactions ---------------------------
(* Jobs for TLC: programs over two keys of a store.  Beside them, one call *)
(* of a store's transaction with its buffers: one part works, as `part'    *)
(* says, and the other rests.                                              *)
EXTENDS Transactions, StoreBuffers, TLC

CONSTANTS k1, k2

Job(kind, a, b) == [kind |-> kind, program |-> (k1 :> a @@ k2 :> b)]

(* Stores that write blindly, and callbacks that read. *)
MixedJobs ==
  {Job("gstore", "put", "drop"), Job("gstore", "dropPut", "putDrop"),
   Job("reader", "keep", "keep"), Job("reader", "put", "keep"),
   Job("existing", "claim", "keep"), Job("existing", "put", "drop"),
   Job("owned", "claim", "dropPut"), Job("owned", "keep", "keep")}

Symmetry == Permutations(Clients)

-----------------------------------------------------------------------------
VARIABLE part

ClientsRest == job = [c \in Clients |-> Job("reader", "keep", "keep")]
StoreRests  == file = [k \in StoreKeys |-> NoEntry] /\ ~readOnly

MCInit ==
  /\ Init /\ StoreInit
  /\ \/ part = "clients" /\ StoreRests
     \/ part = "buffers" /\ ClientsRest

MCNext ==
  /\ \/ part = "clients" /\ Next /\ UNCHANGED storeVars
     \/ part = "buffers" /\ StoreNext /\ UNCHANGED vars
  /\ UNCHANGED part

MCSpec == MCInit /\ [][MCNext]_<<vars, storeVars, part>>
=============================================================================
