-------------------------- MODULE MCSessionObjects --------------------------
(* The objects a session holds, for TLC: the handles of two sessions with  *)
(* their calls, or a proxy that two flows share.  As `part' says, one of   *)
(* them is at work while the other rests.                                  *)
EXTENDS SerializedRuntime, TransparentObject, TLC

CONSTANTS s1, s2, h1, h2, h3, o1

(* Two of the three handles are on one object, by different sessions.      *)
TwoOnOne == [h \in {h1, h2, h3} |-> IF h = h3 THEN s2 ELSE s1]
OneObject == [h \in {h1, h2, h3} |-> o1]

AllSetups ==
  [cache : {TRUE}, extras : {{}, {"clear"}}]
    \cup [cache : {FALSE}, extras : {{"clear"}, {"direct"}, {"external"}}]

Symmetry == Permutations(Flows) \cup Permutations(Properties)

VARIABLE part

MCInit ==
  /\ part \in {"handles", "proxy"}
  /\ Init
  /\ MappingInit
  /\ part = "handles" => setup = [cache |-> TRUE, extras |-> {}]

MCNext ==
  /\ \/ part = "handles" /\ Next /\ UNCHANGED mappingVars
     \/ part = "proxy" /\ MappingNext /\ UNCHANGED vars
  /\ UNCHANGED part

MCSpec == MCInit /\ [][MCNext]_<<vars, mappingVars, part>>
=============================================================================
