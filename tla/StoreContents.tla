---------------------------- MODULE StoreContents ----------------------------
(***************************************************************************)
(* What the callback of a GStore transaction may rely on: a dictionary     *)
(* that does what it is told at once, and forgets all of it when the       *)
(* callback throws.                                                        *)
(***************************************************************************)
CONSTANTS
  Keys,
  Values,
  NoEntry    \* nothing under a key

VARIABLES
  before,    \* the entries when the transaction began
  contents,  \* the entries now
  told       \* the answer to the last call

vars == <<before, contents, told>>

Nothing == [kind |-> "nothing"]
Refused == [kind |-> "refused"]

Init ==
  /\ before \in [Keys -> Values \cup {NoEntry}]
  /\ contents = before
  /\ told = Nothing

Put(k, v) == contents' = [contents EXCEPT ![k] = v] /\ told' = Nothing

Remove(k) ==
  /\ contents' = [contents EXCEPT ![k] = NoEntry]
  /\ told' = [kind |-> "removed", key |-> k, existed |-> contents[k] # NoEntry]

Read(k) == UNCHANGED contents /\ told' = [kind |-> "read", key |-> k, value |-> contents[k]]

Has(k) == UNCHANGED contents /\ told' = [kind |-> "has", key |-> k, is |-> contents[k] # NoEntry]

List == UNCHANGED contents /\ told' = [kind |-> "keys", are |-> {k \in Keys : contents[k] # NoEntry}]

Refuse == UNCHANGED contents /\ told' = Refused

Throw == contents' = before /\ told' = Nothing

Next ==
  /\ \/ \E k \in Keys : Remove(k) \/ Read(k) \/ Has(k) \/ \E v \in Values : Put(k, v)
     \/ List \/ Refuse \/ Throw
  /\ UNCHANGED before

Spec == Init /\ [][Next]_vars
=============================================================================
