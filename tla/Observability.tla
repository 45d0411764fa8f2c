--------------------------- MODULE Observability ---------------------------
(***************************************************************************)
(* observe() of src/observability.ts: what the tracer and the metrics are  *)
(* told of one operation, in order, and what its caller is told.  A sink   *)
(* may be absent, and what it is told may make it throw.                   *)
(***************************************************************************)
EXTENDS Naturals, Sequences, SequencesExt

Told(sink, what, status) == [sink |-> sink, what |-> what, status |-> status]

(* What is told when the operation has ended with `status'.                *)
Reports(status) ==
  <<Told("span", "duration", status), Told("span", "status", status)>>
    \o (IF status = "error" THEN <<Told("span", "exception", status)>> ELSE <<>>)
    \o <<Told("span", "end", status), Told("metrics", "count", status), Told("metrics", "duration", status)>>

ForSinks(sinks, reports) == SelectSeq(reports, LAMBDA one : one.sink \in sinks)

(* What is told is told up to the first thing that makes its sink throw.   *)
UpToThrow(reports, throwing) ==
  LET bad == {i \in DOMAIN reports : [sink |-> reports[i].sink, what |-> reports[i].what] \in throwing}
  IN  IF bad = {} THEN [told |-> reports, threw |-> FALSE]
      ELSE [told |-> SubSeq(reports, 1, CHOOSE i \in bad : \A j \in bad : i <= j), threw |-> TRUE]

(* What throws while a success is told is told as an error, and then the   *)
(* caller is told that the operation failed.                               *)
Observe(sinks, outcome, throwing) ==
  LET first  == UpToThrow(ForSinks(sinks, Reports(outcome)), throwing)
      second == IF outcome = "ok" /\ first.threw THEN UpToThrow(ForSinks(sinks, Reports("error")), throwing).told ELSE <<>>
  IN  IF sinks = {} THEN [told |-> <<>>, outcome |-> outcome]
      ELSE [told |-> first.told \o second, outcome |-> IF first.threw THEN "error" ELSE outcome]

-----------------------------------------------------------------------------

Times(told, sink, what) == Len(SelectSeq(told, LAMBDA one : one.sink = sink /\ one.what = what))

(* Observing changes nothing as long as no sink throws: the caller is told *)
(* what happened, and each sink that is there the same, once.  If one      *)
(* throws the caller is told of an error, even though the operation was    *)
(* done; a failed operation is never told to have succeeded.               *)
ObserveIsMeant(sinks, outcome, throwing) ==
  LET o == Observe(sinks, outcome, throwing) IN
  /\ throwing = {} =>
       /\ o.outcome = outcome
       /\ \A i \in DOMAIN o.told : o.told[i].status = outcome /\ o.told[i].sink \in sinks
       /\ \A sink \in sinks : Times(o.told, sink, IF sink = "span" THEN "end" ELSE "count") = 1
  /\ outcome = "error" => o.outcome = "error" /\ \A i \in DOMAIN o.told : o.told[i].status = "error"
  /\ o.outcome = "ok" => \A i \in DOMAIN o.told : o.told[i].status = "ok"
=============================================================================
