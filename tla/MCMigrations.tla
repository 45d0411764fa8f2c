---------------------------- MODULE MCMigrations ----------------------------
(* Instances of Migrations for TLC: every later step depends on the first. *)
EXTENDS Migrations, TLC

AfterTheFirst == [s \in 1..LastStep |-> IF s = 1 THEN {} ELSE {1}]

Symmetry == Permutations(Runners) \cup Permutations(Owners)
=============================================================================
