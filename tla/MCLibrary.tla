----------------------------- MODULE MCLibrary -----------------------------
(* What a session reads and writes, and the tools beside it, for TLC: one  *)
(* of the parts is at work, as `part' says, and the others rest.  A part   *)
(* that only computes is given its input and takes no step.                *)
EXTENDS Library, MigrationPlans, Inspection, ExplorerQueries, Codegen, Doctor, Observability,
        DebugScripts, TLC

CONSTANTS f1, f2, f3, a1, a2, a3

MCMayCall == (f1 :> DictCalls) @@ (f2 :> {"setAll", "removeAll", "replaceAll", "pickObject"})
MCKeyLists == {<<"k1">>, <<"k2", "k1">>}

MCMayUse == (f1 :> OrderedCalls \cup ArrayCalls)
              @@ (f2 :> {"pop", "shift", "remove", "append", "extend", "setAll", "values"}) @@ (f3 :> {"shift"})
MCStarts == { <<>>, <<"a">>, <<"a", "b">>, <<"a", "b", "c">> }
MCBrings == (f1 :> <<"d", "e">>) @@ (f2 :> <<"f", "g">>) @@ (f3 :> <<"h">>)
MCPositions == {-1, 0, 1, 2}

(* An array of two items, any other of up to two, and one of one item; one *)
(* of them is also written to while it is read.                            *)
MCHeaps == {h \in [{a1, a2, a3} -> UNION {[1..n -> {a1, a2, a3, "s"}] : n \in 0..2}] : Len(h[a1]) = 2 /\ Len(h[a3]) = 1}

(* Wide bounds, and those with one that is narrower.                       *)
MCBounds ==
  LET wide == [maxDepth |-> 4, maxItems |-> 2, maxTotalItems |-> 6]
  IN  {wide, [wide EXCEPT !.maxDepth = 2], [wide EXCEPT !.maxItems = 1], [wide EXCEPT !.maxTotalItems = 3]}

MCWritten ==
  [type : {"null", "notFinite"}, is : {0}] \cup [type : {"boolean"}, is : BOOLEAN] \cup [type : {"string"}, is : {0, 3}]
    \cup [type : {"number"}, is : -70..70] \cup [type : {"bigint"}, is : -600..600] \cup [type : {"handle"}, is : {1025}]

MCQueries == (f1 :> {"iter", "removeAll"}) @@ (f2 :> {"addAll", "removeAll", "replaceAll"})
MCValueLists == SeqOf({"a", "b"}, 2)
MCCollections == MCValueLists \cup {<<"a", "b", "a">>, <<"a", "b", "c">>}

MCInsideOf == [p \in {"a", "b", "out/a"} |-> IF p = "out/a" THEN "a" ELSE p]
MCDrops == {{}, {"a"}}

-----------------------------------------------------------------------------
(* What the parts that only compute are given                              *)

Ids == {"a", "b", "c"}
IdRank(id) == CASE id = "a" -> 1 [] id = "b" -> 2 [] OTHER -> 3
IdBefore == {<<x, y>> \in Ids \X Ids : IdRank(x) < IdRank(y)}
MCManifests ==
  SeqOf([id : Ids, needs : {SetToSeq(n) : n \in SUBSET Ids}, checksum : {""}, reversible : {TRUE}], 3)
    \cup SeqOf([id : Ids, needs : {<<>>, <<"a">>}, checksum : {"", "1", "2"}, reversible : BOOLEAN], 2)
MCTables == UNION {[D -> [checksum : {"", "1"}, at : {1}]] : D \in SUBSET Ids}
MCCliOptions == [command : {"none", "current", "status", "plan", "upgrade", "downgrade"}, help : BOOLEAN,
                 manifest : BOOLEAN, dryRun : BOOLEAN, record : BOOLEAN]
MCCliFaults == SUBSET {"manifest", "connect", "read", "abort", "migrate", "logout"}
MCLocks == [kind : {"nothing", "object", "other"}, owner : {"o"}, at : {-1, 1, 2}]

MCPrints == {<<Text("p")>>, <<Text("p"), Marker>>, <<Text("p"), SlotLine("x", "o1", "C", Text("p"))>>}
MCSlots(oops) == [name : {"x"}, oop : oops]
MCOdd == [{"o1", "o2"} -> [class : {"C"}, prints : MCPrints, slots : SeqOf(MCSlots({"o1", "o2"}), 2),
                           indexed : SeqOf([name : {"1"}, oop : {"o1"}], 1)]]
MCGraphs == [{"o1", "o2", "o3"} -> [class : {"C"}, prints : {<<Text("p")>>}, indexed : {<<>>},
                                    slots : SeqOf(MCSlots({"o1", "o2", "o3"}), 2)]]
MCDescribed == [name : {"C"}, instances : {<<>>, <<0>>, <<2>>}, supers : SeqOf({"A", "B"}, 2), instVars : SeqOf({"A", "x"}, 2),
                classInstVars : SeqOf({"x"}, 2), upTo : 0..2]
MCBulk == SeqOf([receiver : {"r"}, converts : BOOLEAN, performs : BOOLEAN, marshals : BOOLEAN], 3)

MCNames == {<<"a">>, <<"b">>, <<"">>, <<"a", "b">>}
MCDictionaries == SeqOf([key : MCNames, value : {"class"}], 3)
MCUsers == SeqOf([isUser : BOOLEAN, id : {<<"u">>, <<"v">>}, symbolList : {<< <<"D">> >>, << <<"">>, <<"D">> >>}], 2)
MCBehaviors == UNION {[S -> [category : {"x", "y"}, source : {"", "src"}]] : S \in {{}, {"s"}, {"s", "t"}}}
MCClasses == {<<>>} \cup [{"A"} -> [instance : MCBehaviors, class : {<<>>, "s" :> [category |-> "x", source |-> "src"]}]]
MCDictLists == SeqOf([name : {<<"D">>, <<"">>}, classes : MCClasses], 2)

Imported(from, name) == [from |-> from, name |-> name, form |-> "named"]
MCImports ==
  {<<>>, "Oop" :> Imported("gemstone-js", "Oop"), ("GSOop" :> Imported("gemstone-js", "Oop")) @@ ("B" :> Imported("./b", "B")),
   "Handle" :> Imported("gemstone-js", "TypedOop"), "B" :> Imported("./c", "B"),
   "B" :> [from |-> "./b", name |-> "B", form |-> "default"]}
MCTypes == {NoType, <<"Oop">>, <<"GSOop">>, <<"Handle", "B">>, <<"B">>, <<"TypedOop", "B">>}
MCParams == {<<>>, <<[name |-> "a", type |-> <<"B">>]>>, <<[name |-> "a", type |-> NoType], [name |-> "b", type |-> <<"B">>]>>}
MCSources(selectors) ==
  [imports : MCImports, methods : {<<m>> : m \in [name : {"m", "n"}, class : {"C"}, body : {TRUE}, returns : MCTypes,
                                                   selector : selectors, params : MCParams]}]

MCOperations == { <<"s", "x">>, <<"s", "y">> }
MCSpeeds == UNION {[S -> {0, 2, 3}] : S \in SUBSET MCOperations}
MCThresholds == [operations : {<<>>} \cup [{ <<"s", "x">> } -> {0, 50}], suites : {<<>>} \cup [{"s"} -> {0, 34}],
                 global : {<<>>, <<100>>}]

MCLibraries == SUBSET {[library |-> TRUE, rank |-> 1], [library |-> TRUE, rank |-> 2], [library |-> FALSE, rank |-> 3]}
MCDir == [library |-> FALSE, rank |-> 4]
MCPath == [library |-> TRUE, rank |-> 5]
MCDirs == {(<<MCDir>> :> d) @@ (<<MCDir, LibFolder>> :> e) : d \in MCLibraries, e \in MCLibraries}
MCEnvironments ==
  {a @@ b @@ c : a \in {[n \in N |-> n] : N \in SUBSET {"GS_USERNAME", "GS_USER", "GS_PASS"}},
                 b \in {<<>>, "GS_NATIVE_SESSION_WORKER" :> "on", "GS_NATIVE_SESSION_WORKER" :> "off"},
                 c \in UNION {[N -> { <<MCDir>> }] : N \in SUBSET {"GS_LIB", "GEMSTONE"}} \cup {"GS_LIB_PATH" :> <<MCPath>>,
                        "GS_LIB" :> <<MCDir, MCPath>>}}
MCAsked == [usage : {FALSE}, help : {FALSE}, live : BOOLEAN, native : BOOLEAN, json : BOOLEAN]
             \cup [usage : BOOLEAN, help : {TRUE}, live : {TRUE}, native : {TRUE}, json : {FALSE}]
MCHosts == [runtime : {"node", "unknown"}, dirs : {<<>>}, failing : SUBSET {"connect", "eval"},
            native : [importable : BOOLEAN, worker : BOOLEAN, complete : BOOLEAN]]
MCThrowing == SUBSET [sink : {"span", "metrics"}, what : {"duration", "end", "count"}]

(* Processes that know one or two of the messages of each script, of which *)
(* some fail.                                                              *)
MCMayFail == {"setStepThroughBreaksAtLevel:breakpointLevel:", "resume", "trimStackToLevel:", "_trimStackToLevel:",
              "terminate"}
MCNeverFail == {"step:", "_stepOverInFrame:", "trimTo:", "terminateProcess", "isTerminated"}
MCProcesses ==
  UNION {[answers : {a \cup b : b \in SUBSET MCNeverFail}, fails : SUBSET a,
          depth : 1..2, reports : BOOLEAN, state : {"running", "terminated"}] : a \in SUBSET MCMayFail}
MCHalted ==
  LET Detail == [reports : BOOLEAN] IN
  [reports : BOOLEAN, leads : UNION {[W -> Detail] : W \in SUBSET {"serverProcess", "process", "topContext"}}]

MCGiven ==
  [
    plans   |-> MCManifests,
    command |-> MCCliOptions,
    locks   |-> MCLocks,
    inspect |-> MCOdd,
    class   |-> MCDescribed,
    dump    |-> MCGraphs \X (0..3),
    bulk    |-> MCBulk \X BOOLEAN,
    lists   |-> MCDictionaries \X (0..3),
    users   |-> MCUsers \X MCUsers,
    browser |-> MCDictLists,
    codegen |-> {s \in MCSources({NoSelector, [form |-> "keyword", parts |-> 2]}) : s.methods[1].name = "m"}
                  \X MCSources({NoSelector}),
    compare |-> MCSpeeds \X MCSpeeds,
    doctor  |-> MCEnvironments,
    asked   |-> SeqOf({"help", "oop", "class", "dump", "json", "wrong"}, 3),
    observe |-> (SUBSET {"span", "metrics"}) \X {"ok", "error"},
    scripts |-> MCProcesses,
    halted  |-> MCHalted,
    queries |-> SeqOf({"x", "y", NilItem}, 4)
  ]

VARIABLES part, given

(* Each way to compute does what is meant of it, as its module says.       *)
ComputesAsMeant ==
  CASE part = "plans"   -> /\ OrderIsMeant(given) /\ \A applied \in SUBSET Ids : PlansAreMeant(given, applied)
                           /\ Len(given) <= 2 => \A table \in MCTables : TablesAreMeant(given, table, IdBefore)
    [] part = "command" -> \A failing \in MCCliFaults : CliIsMeant(given, failing)
    [] part = "locks"   -> \A now \in 1..4, staleAfter \in {-1, 0, 1} : LocksAreMeant(given, now, staleAfter)
    [] part = "inspect" -> InspectIsMeant(given, "o1")
    [] part = "class"   -> DescribeIsMeant(given)
    [] part = "dump"    -> DumpIsMeant(given[1], "o1", given[2])
    [] part = "bulk"    -> BulkIsMeant(given[1], given[2])
    [] part = "lists"   -> \A found \in SUBSET MCNames : ListsAreMeant(given[1], given[2], {e \in Range(given[1]) : e.key \in found})
    [] part = "users"   -> UsersAreMeant(given)
    [] part = "browser" -> BrowserIsMeant(given)
    [] part = "codegen" -> GeneratesWhatIsMeant(given)
    [] part = "compare" -> \A t \in MCThresholds : CompareIsMeant(given[1], given[2], t)
    [] part = "doctor"  -> /\ \A dirs \in MCDirs : EnvironmentIsTold(given, dirs)
                           /\ \A o \in MCAsked, host \in MCHosts : DoctorIsMeant(given, o, host)
    [] part = "asked"   -> \A failing \in SUBSET {"connect", "inspect", "dump", "describe", "logout"} : InspectCliIsMeant(given, failing)
    [] part = "observe" -> \A throwing \in MCThrowing : ObserveIsMeant(given[1], given[2], throwing)
    [] part = "scripts" -> DebuggingIsMeant(given)
    [] part = "halted"  -> ProcessIsFound(given)
    [] part = "queries" -> \A fit \in SUBSET {"x", "y", NilItem}, n \in -1..4 : QueriesAgree(given, fit, n)
    [] OTHER -> TRUE

-----------------------------------------------------------------------------

KeyedRests   == /\ class = "rc" /\ entries = [k \in Keys |-> Absent] /\ rootOop = "found"
                /\ op = [f \in Flows |-> NoOp]
OrderedRests == kind = "array" /\ elements = <<>> /\ work = [u \in Users |-> [call |-> "none", outcome |-> "idle"]]
ReadRests    == /\ heap = [a \in Arrays |-> <<>>] /\ root = a1 /\ bounds = CHOOSE b \in Bounds : TRUE
                /\ frames = <<>> /\ seen = {} /\ totalItems = 0 /\ got = Denied /\ puts = MaxPuts /\ failedCalls = {}
ValuesRest   == value = [type |-> "null", is |-> 0] /\ oop = Unset /\ readBack = Unread /\ objects = <<>>
                /\ stringClass = "unasked" /\ unanswered = {}
QueryRests   == ordered = TRUE /\ members = <<>> /\ query = [q \in Queriers |-> NoQuery]
BaselinesRest == /\ reports = [p \in Paths |-> NoFile] /\ manifest = {} /\ clis = [c \in Clis |-> Resting]
                 /\ commands = 0 /\ strayed = FALSE
BootRests == userGlobals = <<>> /\ changes = 0 /\ boots = [r \in Runs |-> AtRest]
GivenNothing == given = <<>>

MCInit ==
  /\ \/ part \in {"keyed", "ordered", "log", "arrays", "values", "collection", "baselines", "bootstrap"} /\ GivenNothing
     \/ part \in DOMAIN MCGiven /\ given \in MCGiven[part]
  /\ IF part = "keyed" THEN KeyedInit ELSE KeyedRests
  /\ IF part = "ordered" THEN OrderedInit ELSE OrderedRests
  /\ LogInit
  /\ IF part = "arrays" THEN ReadInit ELSE ReadRests
  /\ IF part = "values" THEN ValuesInit ELSE ValuesRest
  /\ IF part = "collection" THEN QueryInit ELSE QueryRests
  /\ IF part = "baselines" THEN BaselinesInit ELSE BaselinesRest
  /\ IF part = "bootstrap" THEN BootInit ELSE BootRests

libraryVars == <<keyedVars, orderedVars, logVars, readVars, valueVars, queryVars, baselineVars, bootVars>>

(* The baselines are followed until something happens that the manifest is *)
(* not made for.                                                           *)
MCNext ==
  /\ \/ /\ part = "keyed" /\ KeyedNext
        /\ UNCHANGED <<orderedVars, logVars, readVars, valueVars, queryVars, baselineVars, bootVars>>
     \/ /\ part = "ordered" /\ OrderedNext
        /\ UNCHANGED <<keyedVars, logVars, readVars, valueVars, queryVars, baselineVars, bootVars>>
     \/ /\ part = "log" /\ LogNext
        /\ UNCHANGED <<keyedVars, orderedVars, readVars, valueVars, queryVars, baselineVars, bootVars>>
     \/ /\ part = "arrays" /\ ReadNext
        /\ UNCHANGED <<keyedVars, orderedVars, logVars, valueVars, queryVars, baselineVars, bootVars>>
     \/ /\ part = "values" /\ ValuesNext
        /\ UNCHANGED <<keyedVars, orderedVars, logVars, readVars, queryVars, baselineVars, bootVars>>
     \/ /\ part = "collection" /\ QueryNext
        /\ UNCHANGED <<keyedVars, orderedVars, logVars, readVars, valueVars, baselineVars, bootVars>>
     \/ /\ part = "baselines" /\ ~strayed /\ BaselinesNext
        /\ UNCHANGED <<keyedVars, orderedVars, logVars, readVars, valueVars, queryVars, bootVars>>
     \/ /\ part = "bootstrap" /\ BootNext
        /\ UNCHANGED <<keyedVars, orderedVars, logVars, readVars, valueVars, queryVars, baselineVars>>
  /\ UNCHANGED <<part, given>>

MCSpec == MCInit /\ [][MCNext]_<<libraryVars, part, given>>

-----------------------------------------------------------------------------

(* What the debugger tells to be done has been done, for each process the  *)
(* scripts may meet.                                                       *)
DebuggerActs == part = "scripts" => ActionsAct(given)
=============================================================================
