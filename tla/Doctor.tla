------------------------------- MODULE Doctor -------------------------------
(***************************************************************************)
(* gemstone-js-doctor, src/doctor.ts, with src/session-env.ts and src/     *)
(* runtime/library-discovery.ts: what is told of an environment, and what  *)
(* is done to find out.  An environment maps the variables that are set to *)
(* their values; one that is empty counts as not set.  A path is a         *)
(* sequence of names, and a name is [library, rank]: whether it is that of *)
(* a libgcirpc, and its place in the order of strings.  A native package   *)
(* is [importable, worker, complete].                                      *)
(***************************************************************************)
EXTENDS Integers, Sequences, FiniteSets, SequencesExt

NoValue == ""
NoLibrary == <<>>

-----------------------------------------------------------------------------
(* The configuration of a session                                          *)

Aliases ==
  [stone |-> <<"GS_STONE", "GS_STONE_NAME">>, netldi |-> <<"GS_NETLDI", "GS_NETLDI_NAME_OR_PORT">>,
   host |-> <<"GS_HOST", "GS_NETLDI_HOST">>, username |-> <<"GS_USERNAME", "GS_USER">>,
   password |-> <<"GS_PASSWORD", "GS_PASS">>, gemService |-> <<"GS_GEM_SERVICE", "GS_SERVICE">>]
Default(field) == CASE field = "stone" -> "gs64stone" [] field = "netldi" -> "netldi" [] field = "host" -> "localhost"
                    [] field = "gemService" -> "gemnetobject" [] OTHER -> NoValue

EnvValue(env, names, otherwise) ==
  LET isSet == {i \in DOMAIN names : names[i] \in DOMAIN env}
  IN  IF isSet = {} THEN otherwise ELSE env[names[Min(isSet)]]
EnvFlag(env, name) == name \in DOMAIN env /\ env[name] \in {"1", "true", "yes", "on"}
ConfigFrom(env) == [f \in DOMAIN Aliases |-> EnvValue(env, Aliases[f], Default(f))]

(* An alias counts for nothing when the canonical name is set as well.     *)
Conflicts(env) ==
  {f \in DOMAIN Aliases : Range(Aliases[f]) \subseteq DOMAIN env /\ env[Aliases[f][1]] # env[Aliases[f][2]]}

-----------------------------------------------------------------------------
(* The library.  `dirs' maps the directories that can be read to the names *)
(* in them.                                                                *)

LastInOrder(names) == CHOOSE n \in names : \A m \in names : m.rank <= n.rank
LibrariesIn(dirs, dir) == IF dir \in DOMAIN dirs THEN {n \in dirs[dir] : n.library} ELSE {}
FoundIn(dirs, dir) ==
  LET found == LibrariesIn(dirs, dir) IN IF found = {} THEN NoLibrary ELSE Append(dir, LastInOrder(found))

LibFolder == [library |-> FALSE, rank |-> 0]
ResolveLibrary(env, dirs) ==
  LET gsLib  == IF "GS_LIB" \notin DOMAIN env THEN NoLibrary
                ELSE IF Last(env.GS_LIB).library THEN env.GS_LIB ELSE FoundIn(dirs, env.GS_LIB)
      shipped == IF "GEMSTONE" \notin DOMAIN env THEN NoLibrary ELSE FoundIn(dirs, Append(env.GEMSTONE, LibFolder))
  IN  IF "GS_LIB_PATH" \in DOMAIN env THEN env.GS_LIB_PATH
      ELSE IF gsLib # NoLibrary THEN gsLib
      ELSE shipped

-----------------------------------------------------------------------------
(* The checks                                                              *)

Check(name, status) == [name |-> name, status |-> status]
Missing(config) == {f \in {"username", "password"} : config[f] = NoValue}

CredentialsCheck(config, live) ==
  Check("credentials", IF Missing(config) = {} THEN "ok" ELSE IF live THEN "error" ELSE "warning")
NativeCheck(native, wanted) ==
  Check("native-package", IF ~native.importable THEN "warning"
                          ELSE IF wanted /\ ~(native.worker /\ native.complete) THEN "error"
                          ELSE "ok")

(* What the live check calls: without credentials nothing, and whatever    *)
(* was opened is logged out, whether or not that works.                    *)
LiveCalls(config, failing) ==
  IF Missing(config) # {} THEN <<>>
  ELSE IF "connect" \in failing THEN <<"connect">>
  ELSE <<"connect", "eval", "logout">>
LiveCheck(config, failing) ==
  Check("live-login", IF Missing(config) = {} /\ {"connect", "eval"} \cap failing = {} THEN "ok" ELSE "error")

Worst(checks) ==
  LET told == {checks[i].status : i \in DOMAIN checks}
  IN  IF "error" \in told THEN "error" ELSE IF "warning" \in told THEN "warning" ELSE "ok"

(* A host is [runtime, dirs, native, failing].                             *)
Report(env, o, host) ==
  LET config == ConfigFrom(env)
      checks == <<Check("runtime", IF host.runtime = "unknown" THEN "error" ELSE "ok"), CredentialsCheck(config, o.live)>>
                  \o (IF Conflicts(env) = {} THEN <<>> ELSE <<Check("environment-aliases", "warning")>>)
                  \o <<Check("gci-library", IF ResolveLibrary(env, host.dirs) = NoLibrary THEN "warning" ELSE "ok")>>
                  \o (IF o.native THEN <<NativeCheck(host.native, EnvFlag(env, "GS_NATIVE_SESSION_WORKER"))>> ELSE <<>>)
                  \o (IF o.live THEN <<LiveCheck(config, host.failing)>> ELSE <<>>)
  IN  [checks |-> checks, status |-> Worst(checks), calls |-> IF o.live THEN LiveCalls(config, host.failing) ELSE <<>>]

(* The command: [exit, told, calls].  A report that holds the answer of    *)
(* the Stone, a bigint, cannot be written as JSON.                         *)
Unwritable(report, o) == o.json /\ Check("live-login", "ok") \in Range(report.checks)
RunDoctor(env, o, host) ==
  LET report == Report(env, o, host)
  IN  IF o.usage THEN [exit |-> 2, told |-> "usage", calls |-> <<>>]
      ELSE IF o.help THEN [exit |-> 0, told |-> "usage", calls |-> <<>>]
      ELSE IF Unwritable(report, o) THEN [exit |-> 1, told |-> "nothing", calls |-> report.calls]
      ELSE [exit |-> IF report.status = "error" THEN 1 ELSE 0, told |-> report.status, calls |-> report.calls]

-----------------------------------------------------------------------------
(* What is meant                                                           *)

(* A session would be opened with what is told: of two names of a field    *)
(* the canonical one counts, and the other one is told of if it is ignored *)
(* and says something else; a library is found when there is one where an  *)
(* environment points at, and is the one named first.                      *)
EnvironmentIsTold(env, dirs) ==
  LET found == ResolveLibrary(env, dirs) IN
  /\ \A f \in DOMAIN Aliases :
       LET said == {env[n] : n \in Range(Aliases[f]) \cap DOMAIN env} IN
         /\ ConfigFrom(env)[f] \in said \/ (said = {} /\ ConfigFrom(env)[f] = Default(f))
         /\ f \in Conflicts(env) <=> Cardinality(said) = 2
         /\ f \in Conflicts(env) => ConfigFrom(env)[f] = env[Aliases[f][1]]
  /\ found # NoLibrary /\ "GS_LIB_PATH" \notin DOMAIN env => Last(found).library
  /\ found = NoLibrary =>
       \A dir \in DOMAIN dirs : dir \in {env[n] : n \in {"GS_LIB"} \cap DOMAIN env} => \A n \in dirs[dir] : ~n.library

(* The doctor opens a session only when it is asked to and may log in, and *)
(* leaves none open; it exits with 0 only if a session would work as far   *)
(* as it looked, and with 1 without a failed check only if the report      *)
(* cannot be written.                                                      *)
DoctorIsMeant(env, o, host) ==
  LET ran    == RunDoctor(env, o, host)
      called == Range(ran.calls)
      asks   == o.live /\ ~o.help /\ ~o.usage
      logsIn == Missing(ConfigFrom(env)) = {} /\ host.failing \cap {"connect", "eval"} = {}
  IN  /\ EnvironmentIsTold(env, host.dirs)
      /\ called # {} => asks /\ Missing(ConfigFrom(env)) = {}
      /\ "logout" \in called <=> called # {} /\ "connect" \notin host.failing
      /\ asks /\ ran.exit = 0 => logsIn /\ Last(ran.calls) = "logout"
      /\ ran.exit = 1 =>
           \/ host.runtime = "unknown" \/ (asks /\ ~logsIn)
           \/ o.native /\ host.native.importable /\ ~(host.native.worker /\ host.native.complete)
           \/ asks /\ o.json
=============================================================================
