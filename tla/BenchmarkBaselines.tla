------------------------ MODULE BenchmarkBaselines ------------------------
(***************************************************************************)
(* The benchmark reports that are kept as baselines, src/                  *)
(* benchmark-baselines.ts: a manifest names report files, and the command  *)
(* lines register, prune, select, validate and compare them.  A report is  *)
(* its metadata, `Broken' when it cannot be loaded; a manifest is one that *)
(* registerBenchmarkBaseline() wrote, which names no path twice, and each  *)
(* in one way: a set, as nothing depends on the order of its entries.      *)
(* Each read of a file and each write of one is a step of a command.       *)
(***************************************************************************)
EXTENDS Integers, Sequences, FiniteSets, SequencesExt

CONSTANTS
  Clis,         \* commands that may be at work at once
  Paths,        \* where a report may be
  InsideOf,     \* the path, in the manifest's directory, of each path's file name
  Metas,        \* the metadata reports may have
  NoFile, Broken, NoPath,
  Drops,        \* what --drop-path may name
  MaxCommands

ASSUME BaselinesAssumption ==
  /\ NoFile # Broken /\ {NoFile, Broken} \cap Metas = {}
  /\ NoPath \notin Paths /\ InsideOf \in [Paths -> Paths]
  /\ {"failed", "several", "none"} \cap Paths = {}
  /\ MaxCommands \in Nat

VARIABLES
  reports,      \* the files
  manifest,     \* the paths of the manifest
  clis,         \* the commands at work
  commands,     \* how many there were
  strayed       \* something happened that the commands do not guard against

baselineVars == <<reports, manifest, clis, commands, strayed>>

Resting == [at |-> "idle"]

BaselinesInit ==
  /\ reports \in [Paths -> Metas \cup {NoFile}] /\ manifest = {}
  /\ clis = [c \in Clis |-> Resting] /\ commands = 0 /\ strayed = FALSE

Exists(p) == reports[p] # NoFile
Loads(p)  == reports[p] \in Metas
Inside(p) == InsideOf[p] = p
AtWork    == {c \in Clis : clis[c].at # "idle"}

-----------------------------------------------------------------------------
(* Register and prune                                                      *)

Options == [report : Paths \cup {NoPath}, copyTo : Paths \cup {NoPath}, allow : BOOLEAN, replace : BOOLEAN,
            drop : Drops, pruneMissing : BOOLEAN]

RegisterUsageError(o) ==
  \/ o.allow /\ o.replace
  \/ o.report = NoPath /\ ~o.pruneMissing /\ o.drop = {}

BaselineTarget(o) ==
  CASE o.copyTo # NoPath -> o.copyTo
    [] OTHER -> InsideOf[o.report]

(* The entries other than the target that have the source's metadata.      *)
DuplicateMetadata(entries, source, target) ==
  {p \in entries : p # target /\ reports[p] = reports[source]}

MatchesFail(entries, target) == \E p \in entries : p # target /\ reports[p] = Broken

Prunes(o) == o.pruneMissing \/ o.drop # {}
Become(c, state) == clis' = [clis EXCEPT ![c] = state]

(* A command that is given no report prunes at once; one that fails ends.  *)
StartRegister(c, o) ==
  /\ clis[c].at = "idle" /\ commands < MaxCommands /\ ~RegisterUsageError(o)
  /\ commands' = commands + 1
  /\ strayed' = (strayed \/ AtWork # {})
  /\ Become(c, [at |-> IF o.report = NoPath THEN "prune" ELSE "register", o |-> o])
  /\ UNCHANGED <<reports, manifest>>

(* All is read, and whatever is to fail fails, before a file is written.   *)
Register(c) ==
  LET o      == clis[c].o
      target == BaselineTarget(o)
      twins  == DuplicateMetadata(manifest, o.report, target)
      next   == (IF o.replace THEN manifest \ twins ELSE manifest) \cup {target}
  IN  /\ clis[c].at = "register"
      /\ IF ~Loads(o.report) \/ MatchesFail(manifest, target) \/ (twins # {} /\ ~o.allow /\ ~o.replace)
           THEN Become(c, Resting) /\ UNCHANGED strayed
           ELSE /\ Become(c, [at |-> "copy", o |-> o, target |-> target,
                              payload |-> next, changes |-> next # manifest])
                /\ strayed' = (strayed \/ (o.allow /\ twins # {}))
      /\ UNCHANGED <<reports, manifest, commands>>

CopyReport(c) ==
  LET source == clis[c].o.report
  IN  /\ clis[c].at = "copy"
      /\ IF source # clis[c].target /\ ~Exists(source)
           THEN Become(c, Resting) /\ UNCHANGED reports
           ELSE /\ reports' = [reports EXCEPT ![clis[c].target] = reports[source]]
                /\ Become(c, [clis[c] EXCEPT !.at = "write"])
      /\ UNCHANGED <<manifest, commands, strayed>>

(* A command that has registered prunes, if it is told to.                 *)
WriteManifest(c) ==
  LET o == clis[c].o
  IN  /\ clis[c].at = "write"
      /\ manifest' = IF clis[c].changes THEN clis[c].payload ELSE manifest
      /\ Become(c, IF clis[c].target # NoPath /\ Prunes(o) THEN [at |-> "prune", o |-> o] ELSE Resting)
      /\ UNCHANGED <<reports, commands, strayed>>

(* Mutant: the paths to drop are compared by their file names.             *)
Prune_ByFileName(c) ==
  LET o    == clis[c].o
      kept == {p \in manifest : InsideOf[p] \notin {InsideOf[q] : q \in o.drop} /\ (o.pruneMissing => Exists(p))}
  IN  /\ clis[c].at = "prune"
      /\ Become(c, [at |-> "write", o |-> o, target |-> NoPath, payload |-> kept, changes |-> kept # manifest])
      /\ UNCHANGED <<reports, manifest, commands, strayed>>

(* Entries that are dropped or missing are removed.                        *)
Prune(c) ==
  LET o    == clis[c].o
      kept == {p \in manifest \ o.drop : o.pruneMissing => Exists(p)}
  IN  /\ clis[c].at = "prune"
      /\ Become(c, [at |-> "write", o |-> o, target |-> NoPath, payload |-> kept, changes |-> kept # manifest])
      /\ UNCHANGED <<reports, manifest, commands, strayed>>

(* A command is killed.  Before anything is written it is as if it had not *)
(* been given; between the report and the manifest they may disagree.      *)
KilledCli(c) ==
  /\ clis[c].at # "idle"
  /\ Become(c, Resting)
  /\ strayed' = (strayed \/ clis[c].at = "write")
  /\ UNCHANGED <<reports, manifest, commands>>

(* A benchmark writes a report, or somebody removes or spoils one.         *)
ReportChanges(p, to) ==
  /\ to # reports[p] /\ commands < MaxCommands
  /\ reports' = [reports EXCEPT ![p] = to]
  /\ strayed' = (strayed \/ AtWork # {} \/ (p \in manifest /\ to \in Metas))
  /\ UNCHANGED <<manifest, clis, commands>>

BaselinesNext ==
  \/ \E c \in Clis : \/ \E o \in Options : StartRegister(c, o)
                     \/ Register(c) \/ CopyReport(c) \/ WriteManifest(c) \/ Prune(c) \/ KilledCli(c)
  \/ \E p \in Paths, to \in Metas \cup {NoFile, Broken} : ReportChanges(p, to)

BaselinesSpec == BaselinesInit /\ [][BaselinesNext]_baselineVars

-----------------------------------------------------------------------------
(* Select and validate                                                     *)

(* The manifest cannot be read when a file of it is missing.               *)
Select(candidate) ==
  LET matches == {p \in manifest : reports[p] = reports[candidate]}
  IN  IF ~Loads(candidate) \/ (\E p \in manifest : ~Loads(p)) THEN "failed"
      ELSE IF \E p, q \in matches : p # q THEN "several"
      ELSE IF matches = {} THEN "none"
      ELSE CHOOSE p \in matches : TRUE

Validates(reportPaths, manifestReports, allow) ==
  /\ \A p \in manifest : Exists(p)
  /\ \A p \in reportPaths \cup (IF manifestReports THEN manifest ELSE {}) : Loads(p)
  /\ manifestReports /\ ~allow => \A p, q \in manifest : p # q => reports[p] # reports[q]

-----------------------------------------------------------------------------
(* Compare: a report is also its operations, with their speed.  `t' has    *)
(* the thresholds of operations and suites, and the one for all in a       *)
(* sequence, empty if there is none; an operation is its suite and name.   *)

Delta(b, c, op) == IF op \in DOMAIN b /\ op \in DOMAIN c THEN c[op] - b[op] ELSE 0

Threshold(t, op) ==
  IF op \in DOMAIN t.operations THEN <<t.operations[op]>>
  ELSE IF op[1] \in DOMAIN t.suites THEN <<t.suites[op[1]]>>
  ELSE t.global

(* A speed of 0 in the baseline has no percentage to lose.                 *)
Exceeded(b, c, t) ==
  {op \in DOMAIN b \cup DOMAIN c : \E pct \in Range(Threshold(t, op)) :
     \/ op \notin DOMAIN c
     \/ Delta(b, c, op) < 0 /\ b[op] # 0 /\ -Delta(b, c, op) * 100 >= pct * b[op]}

CompareExit(b, c, t, comparable) == IF comparable /\ Exceeded(b, c, t) # {} THEN 2 ELSE 0

-----------------------------------------------------------------------------
(* What is meant                                                           *)

(* As long as one command is at work at a time, none is killed between     *)
(* writing a report and the manifest, none is told to allow duplicates,    *)
(* and registered reports are not written over, a candidate never has two  *)
(* baselines: selection is never ambiguous, and a manifest whose reports   *)
(* are all there is valid.                                                 *)
OneBaselineEach ==
  (~strayed /\ AtWork = {}) =>
     /\ \A p \in Paths : Select(p) # "several"
     /\ (\A p \in manifest : Loads(p)) => Validates({}, TRUE, FALSE)

(* No step takes a baseline away that still loads, except the write of a   *)
(* prune that was given its name, or that of a registration that was told  *)
(* to replace and puts a report of the same metadata in its place.         *)
BaselinesAreKept(next) ==
  \A p \in manifest \ next :
     ~strayed /\ Loads(p) =>
        \E c \in Clis :
           /\ clis[c].at = "write"
           /\ \/ clis[c].target = NoPath /\ p \in clis[c].o.drop
              \/ clis[c].o.replace /\ clis[c].target \in next /\ reports[clis[c].target] = reports[p]

(* A report is as good as itself; not both of two reports are worse than   *)
(* the other; being faster or being given more room never makes worse; and *)
(* an operation with a threshold of its own looks at no other.             *)
CompareIsMeant(b, c, t) ==
  /\ CompareExit(b, b, t, TRUE) = 0
  /\ Exceeded(b, c, t) \cap Exceeded(c, b, t) = {}
  /\ \A op \in DOMAIN c : Exceeded(b, [c EXCEPT ![op] = @ + 1], t) \subseteq Exceeded(b, c, t)
  /\ \A op \in DOMAIN t.operations :
       /\ op \in Exceeded(b, c, [t EXCEPT !.operations[op] = @ + 25]) => op \in Exceeded(b, c, t)
       /\ op \in Exceeded(b, c, t) <=> op \in Exceeded(b, c, [t EXCEPT !.suites = <<>>, !.global = <<0>>])

=============================================================================
