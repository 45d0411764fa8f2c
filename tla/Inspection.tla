---------------------------- MODULE Inspection ----------------------------
(***************************************************************************)
(* Session.inspect, dump, describeClass and the bulk performs of src/      *)
(* client.ts.  The Stone writes a payload of lines, which the client takes *)
(* apart again.  A print string is a sequence of lines, so it may hold     *)
(* what looks like a line of the payload.  A line is a record: its kind    *)
(* with what it tells, or, of kind "text", nothing the client looks for.   *)
(* An object is [class, prints, slots, indexed], slots and indexed being   *)
(* sequences of [name, oop]; a heap maps OOPs to objects.                  *)
(***************************************************************************)
EXTENDS Integers, Sequences, FiniteSets, SequencesExt

Marker     == [kind |-> "marker"]
Text(t)    == [kind |-> "text", text |-> t]
SlotLine(n, oop, class, first) == [kind |-> "slot", name |-> n, oop |-> oop, class |-> class, first |-> first]
ItemLine(n, oop, class, first) == [kind |-> "indexed", name |-> n, oop |-> oop, class |-> class, first |-> first]
MetaLine(key, n) == [kind |-> key, value |-> n]

-----------------------------------------------------------------------------
(* What the Stone writes                                                   *)

(* The first line of what a slot holds ends the slot's own line.           *)
Referenced(heap, line(_, _, _, _), field) ==
  LET o == heap[field.oop]
  IN  <<line(field.name, field.oop, o.class, Head(o.prints))>> \o Tail(o.prints)

InspectLines(heap, oop) ==
  LET o == heap[oop]
  IN  <<Text(oop), Text(o.class)>> \o o.prints \o <<Marker>>
        \o <<MetaLine("classOop", o.class), MetaLine("size", Len(o.indexed)), MetaLine("byteSize", Len(o.indexed))>>
        \o FlattenSeq([i \in DOMAIN o.slots |-> Referenced(heap, SlotLine, o.slots[i])])
        \o FlattenSeq([i \in DOMAIN o.indexed |-> Referenced(heap, ItemLine, o.indexed[i])])

-----------------------------------------------------------------------------
(* What the client reads                                                   *)

Reference(line) == [name |-> line.name, oop |-> line.oop, class |-> line.class, first |-> line.first]
OfKind(lines, kind) == SelectSeq(lines, LAMBDA line : line.kind = kind)
Value(lines, key) ==
  LET found == OfKind(lines, key) IN IF found = <<>> THEN "none" ELSE Last(found).value

MarkerAt(lines) == CHOOSE i \in DOMAIN lines : lines[i] = Marker /\ \A j \in 1..(i - 1) : lines[j] # Marker

(* All up to the first marker is the print string; the rest is told apart  *)
(* line by line, and of what is told twice the last counts.                *)
ParseInspection(lines) ==
  LET rest       == SubSeq(lines, MarkerAt(lines) + 1, Len(lines))
      told(kind) == LET found == OfKind(rest, kind) IN [i \in DOMAIN found |-> Reference(found[i])]
  IN  [oop |-> lines[1].text, class |-> lines[2].text, prints |-> SubSeq(lines, 3, MarkerAt(lines) - 1),
       size |-> Value(rest, "size"), slots |-> told("slot"), indexed |-> told("indexed")]

Inspect(heap, oop) == ParseInspection(InspectLines(heap, oop))

-----------------------------------------------------------------------------
(* Dumps: [oop, shown, below].  `shown' tells whether it is inspected, a   *)
(* reference only, or was seen before; `seen' grows and is never undone.   *)

RECURSIVE DumpOop(_, _, _, _, _)

DumpReference(heap, oop, depth, indexed, seen) ==
  IF depth <= 1 THEN [dump |-> [oop |-> oop, shown |-> "reference", below |-> <<>>], seen |-> seen]
  ELSE DumpOop(heap, oop, depth - 1, indexed, seen)

DumpOop(heap, oop, depth, indexed, seen) ==
  LET read   == Inspect(heap, oop)
      fields == IF depth <= 0 THEN <<>> ELSE read.slots \o (IF indexed THEN read.indexed ELSE <<>>)
      below  == FoldLeft(LAMBDA sofar, field :
                           LET one == DumpReference(heap, field.oop, depth, indexed, sofar.seen)
                           IN  [dumps |-> Append(sofar.dumps, one.dump), seen |-> one.seen],
                         [dumps |-> <<>>, seen |-> seen \cup {oop}], fields)
  IN  IF oop \in seen THEN [dump |-> [oop |-> oop, shown |-> "cycle", below |-> <<>>], seen |-> seen]
      ELSE [dump |-> [oop |-> oop, shown |-> "inspected", below |-> below.dumps], seen |-> below.seen]

Dump(heap, oop, depth, indexed) == DumpOop(heap, oop, depth, indexed, {}).dump

-----------------------------------------------------------------------------
(* describeClass: a class is [name, instances, supers, instVars,           *)
(* classInstVars, upTo].  Its instances are counted in a sequence, which   *)
(* is empty when the Stone cannot count them, and of a list it tells no    *)
(* more than the first `upTo' names: what fails then is not told.          *)

NamesTold(key, names, upTo) ==
  [i \in {j \in DOMAIN names : j <= upTo} |-> MetaLine(key, names[i])]

DescribeLines(c) ==
  <<MetaLine("name", c.name), MetaLine("oop", c.name), MetaLine("instanceCount", c.instances)>>
    \o NamesTold("superclass", c.supers, c.upTo)
    \o NamesTold("instVar", c.instVars, c.upTo)
    \o NamesTold("classInstVar", c.classInstVars, c.upTo)

ParseClass(lines, fallback) ==
  LET told(key) == LET found == OfKind(lines, key) IN [i \in DOMAIN found |-> found[i].value]
      name      == Value(lines, "name")
  IN  [name |-> IF name = "none" THEN fallback ELSE name, oop |-> Value(lines, "oop"),
       instanceCount |-> Value(lines, "instanceCount"),
       supers |-> told("superclass"), instVars |-> told("instVar"), classInstVars |-> told("classInstVar")]

-----------------------------------------------------------------------------
(* Bulk performs.  A call is [receiver, converts, does]: whether its       *)
(* arguments can be turned into OOPs, whether the Stone performs it, and   *)
(* whether its result can be marshalled.  An answer also tells what was    *)
(* performed.  All calls are one evaluation.                               *)

Calls(ok, calls) == \A i \in DOMAIN calls : calls[i][ok]
FirstBad(ok, calls) == CHOOSE i \in DOMAIN calls : ~calls[i][ok] /\ \A j \in 1..(i - 1) : calls[j][ok]
Receivers(calls) == [i \in DOMAIN calls |-> calls[i].receiver]

BulkPerform(calls, marshals) ==
  IF ~Calls("converts", calls) THEN [outcome |-> "failed", performed |-> <<>>, results |-> <<>>]
  ELSE IF ~Calls("performs", calls) THEN
         [outcome |-> "failed", performed |-> Receivers(SubSeq(calls, 1, FirstBad("performs", calls) - 1)), results |-> <<>>]
  ELSE IF marshals /\ ~Calls("marshals", calls) THEN
         [outcome |-> "failed", performed |-> Receivers(calls), results |-> <<>>]
  ELSE [outcome |-> "ok", performed |-> Receivers(calls), results |-> Receivers(calls)]

-----------------------------------------------------------------------------
(* gemstone-js-inspect, src/inspection-cli.ts: its arguments, read from    *)
(* left to right until one asks for help or cannot be, and what it calls.  *)

NoInspectArgs == [help |-> FALSE, wrong |-> FALSE, target |-> "none", dump |-> FALSE]

InspectArg(o, arg) ==
  IF o.help \/ o.wrong THEN o
  ELSE IF arg = "help" THEN [o EXCEPT !.help = TRUE]
  ELSE IF arg \in {"oop", "class"} THEN
         IF o.target = "none" THEN [o EXCEPT !.target = arg] ELSE [o EXCEPT !.wrong = TRUE]
  ELSE IF arg = "dump" THEN [o EXCEPT !.dump = TRUE]
  ELSE IF arg \in {"json", "depth", "indexed"} THEN o
  ELSE [o EXCEPT !.wrong = TRUE]

ParseInspectArgs(args) ==
  LET o == FoldLeft(InspectArg, NoInspectArgs, args)
  IN  IF ~o.help /\ (o.target = "none" \/ (o.target = "class" /\ o.dump)) THEN [o EXCEPT !.wrong = TRUE] ELSE o

RunInspect(args, failing) ==
  LET o == ParseInspectArgs(args)
      asks == IF o.target = "class" THEN "describe" ELSE IF o.dump THEN "dump" ELSE "inspect"
  IN  IF o.wrong THEN [exit |-> 2, calls |-> <<>>]
      ELSE IF o.help THEN [exit |-> 0, calls |-> <<>>]
      ELSE IF "connect" \in failing THEN [exit |-> 1, calls |-> <<"connect">>]
      ELSE [exit |-> IF asks \in failing THEN 1 ELSE 0, calls |-> <<"connect", asks, "logout">>]

-----------------------------------------------------------------------------
(* What is meant                                                           *)

OneLine(heap, oop) == Len(heap[oop].prints) = 1
Fields(heap, oop)  == heap[oop].slots \o heap[oop].indexed
As(heap, field)    == [name |-> field.name, oop |-> field.oop, class |-> heap[field.oop].class,
                       first |-> Head(heap[field.oop].prints)]

(* An inspection tells the object, its class and what it holds, whatever   *)
(* lines it prints as long as none of them is the marker and what it holds *)
(* prints in one line; and what it tells of slots is all there, in order,  *)
(* even if what it holds prints several.                                   *)
InspectIsMeant(heap, oop) ==
  LET told  == Inspect(heap, oop)
      truth == heap[oop]
      slots == [i \in DOMAIN truth.slots |-> As(heap, truth.slots[i])]
  IN  Marker \notin Range(truth.prints) =>
        /\ told.oop = oop /\ told.class = truth.class /\ told.prints = truth.prints
        /\ Range(slots) \subseteq Range(told.slots)
        /\ (\A i \in DOMAIN Fields(heap, oop) : OneLine(heap, Fields(heap, oop)[i].oop)) =>
             /\ told.slots = slots
             /\ told.indexed = [i \in DOMAIN truth.indexed |-> As(heap, truth.indexed[i])]
             /\ told.size = Len(truth.indexed)

RECURSIVE Nodes(_)
Nodes(dump) == <<dump>> \o FlattenSeq([i \in DOMAIN dump.below |-> Nodes(dump.below[i])])

RECURSIVE Nearby(_, _, _)
Nearby(heap, oops, n) ==
  IF n = 0 THEN oops
  ELSE Nearby(heap, oops \cup UNION {{Fields(heap, o)[i].oop : i \in DOMAIN Fields(heap, o)} : o \in oops}, n - 1)

Shared(heap, oop, depth) ==
  \E o, p \in Nearby(heap, {oop}, depth) : \E i \in DOMAIN Fields(heap, o), j \in DOMAIN Fields(heap, p) :
     /\ <<o, i>> # <<p, j>> \/ Fields(heap, o)[i].oop = oop
     /\ Fields(heap, o)[i].oop = Fields(heap, p)[j].oop

(* A dump inspects no object twice and nothing that is further away than   *)
(* its depth; what is left out as seen before is shown elsewhere in it;    *)
(* and of a tree it shows all there is down to its depth.                  *)
DumpIsMeant(heap, oop, depth) ==
  LET nodes     == Nodes(Dump(heap, oop, depth, TRUE))
      shown(as) == {i \in DOMAIN nodes : nodes[i].shown = as}
      oops(as)  == {nodes[i].oop : i \in shown(as)}
      near      == IF depth = 0 THEN {oop} ELSE Nearby(heap, {oop}, depth - 1)
  IN  /\ Cardinality(oops("inspected")) = Cardinality(shown("inspected"))
      /\ oops("inspected") \subseteq near
      /\ oops("cycle") \subseteq oops("inspected")
      /\ ~Shared(heap, oop, depth) =>
           /\ oops("inspected") = near /\ shown("cycle") = {}
           /\ oops("inspected") \cup oops("reference") = Nearby(heap, {oop}, depth)

(* A description tells the class as it is.  A list that broke off begins   *)
(* as the class's own does, and no name of one list is told in another.    *)
DescribeIsMeant(c) ==
  LET told == ParseClass(DescribeLines(c), c.name)
      IsTold(names, all) == IsPrefix(names, all) /\ (c.upTo >= Len(all) => names = all)
  IN  /\ told.name = c.name /\ told.oop = c.name /\ told.instanceCount = c.instances
      /\ IsTold(told.supers, c.supers) /\ IsTold(told.instVars, c.instVars)
      /\ IsTold(told.classInstVars, c.classInstVars)

(* A bulk perform does what performing the calls one after the other does, *)
(* up to the first that fails; but none before all arguments converted.    *)
BulkIsMeant(calls, marshals) ==
  LET done == BulkPerform(calls, marshals)
  IN  /\ IsPrefix(done.performed, Receivers(calls))
      /\ done.outcome = "ok" => done.performed = Receivers(calls) /\ Len(done.results) = Len(calls)
      /\ \A i \in DOMAIN calls : i <= Len(done.performed) => calls[i].performs
      /\ done.performed # Receivers(calls) => done.outcome = "failed"

(* The command never connects for arguments it refuses or that ask for     *)
(* help, asks for one thing, which is what its arguments name, and logs    *)
(* out of whatever session it got; it exits with 0 only with an answer.    *)
InspectCliIsMeant(args, failing) ==
  LET ran    == RunInspect(args, failing)
      called == Range(ran.calls)
      told   == Range(args)
  IN  /\ called # {} => ran.exit \in {0, 1} /\ "help" \notin told /\ told \cap {"oop", "class"} # {}
      /\ "logout" \in called <=> called # {} /\ "connect" \notin failing
      /\ ran.exit = 0 => called \cap failing \subseteq {"logout"} /\ (called # {} \/ "help" \in told)
      /\ "dump" \in called <=> "logout" \in called /\ "dump" \in told
      /\ "describe" \in called <=> "logout" \in called /\ "class" \in told

=============================================================================
