------------------------------ MODULE Library -------------------------------
(***************************************************************************)
(* What a session does with what is stored for it, by several calls each   *)
(* operation, and the two commands beside it that change what others use:  *)
(* the parts are independent of each other, and what they promise together *)
(* is said here.                                                           *)
(***************************************************************************)
EXTENDS KeyedAccess, OrderedAccess, ObjectLog, ReadBack, Values, QueriedCollection,
        BenchmarkBaselines, Bootstrap

(* An operation on a dictionary or a collection during which nobody else   *)
(* changed it and no call failed is as good as one step.                   *)
AloneIsAtomic == KeyedAtomic /\ OrderedAtomic

(* What an operation answered was true at a moment while it was at work,   *)
(* what two flows took from a collection was never the same, and what the  *)
(* bootstrap told it had made, it had; its sessions end.                   *)
AnswersAreTrue == AnswersWereTrue /\ TakenOnce /\ BootToldTruth /\ BootSessionsEnd

(* What is read is what was asked for and what is there, within the bounds *)
(* that were given, and what was written comes back as it was, or, when    *)
(* the Stone does not tell what an object is, as its OOP; a query of a     *)
(* collection is as good as one step when nobody else changed it, and an   *)
(* iteration over one that only grows misses nothing that was there.       *)
ReadsAreAsMeant == ReadsWhatWasAsked /\ ReadsBackWhatIsThere /\ SurvivesTheStone /\ QueriedAtomic /\ IterationIsWhole

(* The handles an operation does not give to its caller are released, and  *)
(* a manifest has one baseline of each metadata: nothing is held that      *)
(* nobody can find again.                                                  *)
NothingIsLost == HandlesComeBack /\ OneBaselineEach

(* A baseline that loads goes only when it is named, or a command told to  *)
(* replace puts another one of the same metadata in its place; and a root  *)
(* that is there never goes.                                               *)
OnlyTheNamedGoes ==
  /\ [][BaselinesAreKept(manifest')]_baselineVars
  /\ [][RootsStay(userGlobals')]_bootVars

(* What is removed from a log is what was read of it, of baselines that    *)
(* load only what is named or replaced, and of roots nothing.              *)
OnlyTheMeantGoes == RemovesWhatWasRead /\ OnlyTheNamedGoes
=============================================================================
