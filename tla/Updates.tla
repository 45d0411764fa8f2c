------------------------------ MODULE Updates -------------------------------
(***************************************************************************)
(* What a transaction call promises: a client's program either takes       *)
(* effect once, whole, on the value then committed, or has no effect.      *)
(* The programs are those of module Transactions: to every key, one thing  *)
(* that is done to it.                                                     *)
(***************************************************************************)
CONSTANTS
  Clients,
  Keys,
  None       \* no entry under a key

VARIABLES
  program,   \* what each client does to each key
  value,     \* the committed entries
  fate       \* "open", "done" or "failed", for each client

vars == <<program, value, fate>>

(* "putDrop" sets the key and then deletes it, "dropPut" the reverse;      *)
(* "claim" throws when the key has an entry and sets it otherwise.         *)
Ops == {"keep", "put", "drop", "claim", "putDrop", "dropPut"}

(* What program p of client c makes of the entries v. *)
Result(c, p, v) ==
  [k \in Keys |-> CASE p[k] \in {"put", "claim", "dropPut"} -> c
                    [] p[k] \in {"drop", "putDrop"} -> None
                    [] OTHER -> v[k]]

(* Program p throws when it is run on the entries v. *)
Refuses(p, v) == \E k \in Keys : p[k] = "claim" /\ v[k] /= None

Init ==
  /\ program \in [Clients -> [Keys -> Ops]]
  /\ value \in [Keys -> Clients \cup {None}]
  /\ fate = [c \in Clients |-> "open"]

Update(c) ==
  /\ fate[c] = "open" /\ ~Refuses(program[c], value)
  /\ value' = Result(c, program[c], value)
  /\ fate' = [fate EXCEPT ![c] = "done"]
  /\ UNCHANGED program

Fail(c) ==
  /\ fate[c] = "open"
  /\ fate' = [fate EXCEPT ![c] = "failed"]
  /\ UNCHANGED <<program, value>>

Next == \E c \in Clients : Update(c) \/ Fail(c)

Spec == Init /\ [][Next]_vars
=============================================================================
