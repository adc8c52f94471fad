------------------------- MODULE ChainSpecSelection -------------------------
(***************************************************************************)
(* How the node of src/node/service/src/command.rs turns a --chain id into *)
(* a chain spec (load_spec), picks the native runtime for it              *)
(* (native_runtime_version), and how the benchmark and try-runtime        *)
(* subcommands, gated by ensure_dev, pick the runtime they execute.       *)
(*                                                                         *)
(* A chain id is abstracted to its chain prefix, the part after it and     *)
(* whether it ends in ".json": "gold-dev" is [base "gold", rest "-dev"],   *)
(* "gold-x.json" is [base "gold", rest "-x", json TRUE].  "-staging" takes *)
(* the same arms as "-local" and is left out.  A chain spec is its chain   *)
(* (what IdentifyVariant reads from its id), its chain type and the Rust   *)
(* type it was decoded as.  The cargo features compiled in, the --force-*  *)
(* flags, the executable's name and the contents of the file a path names  *)
(* are inputs of the probe.                                                *)
(***************************************************************************)
EXTENDS FiniteSets

VARIABLE probe

Chains == {"diamond", "gold", "westend", "rococo", "wococo"}
Features == {"diamond-native", "gold-native", "westend-native", "rococo-native"}

Name(base, rest) == [base |-> base, rest |-> rest, json |-> FALSE]
EmptyId == Name("", "")
DevId == Name("", "dev")
Ids == [base : Chains \cup {"custom"}, rest : {"", "-dev", "-local", "-x"},
        json : BOOLEAN] \cup {EmptyId, DevId}

(* The path names no file. *)
NoFile == [chain |-> "none", type |-> "none"]

(* The Rust type of each chain's built-in spec. *)
SpecTypeOf(chain) ==
    CASE chain = "gold" -> "Gold"
      [] chain = "westend" -> "Westend"
      [] chain \in {"rococo", "wococo"} -> "Rococo"
      [] OTHER -> "Diamond"

(* The named arms of load_spec's match: the id, the chain and chain type  *)
(* of the spec it builds, and the feature its #[cfg] requires.            *)
Arm(id, chain, type, gate) == [id |-> id, chain |-> chain, type |-> type, gate |-> gate]
BuiltinArms ==
    { Arm(Name(c, ""), c, "Live", "none") : c \in Chains }
    \cup { Arm(Name(c, "-dev"), c, "Development", g) :
             <<c, g>> \in {<<"gold", "gold-native">>, <<"diamond", "diamond-native">>,
                           <<"rococo", "rococo-native">>, <<"westend", "westend-native">>,
                           <<"wococo", "rococo-native">>} }
    \cup { Arm(Name(c, "-local"), c, "Local", g) :
             <<c, g>> \in {<<"gold", "gold-native">>, <<"diamond", "diamond-native">>,
                           <<"rococo", "rococo-native">>, <<"westend", "westend-native">>,
                           <<"wococo", "rococo-native">>} }
    \cup { Arm(DevId, "diamond", "Development", "diamond-native") }

(* The arms "name if name.starts_with(prefix) [&& !name.ends_with(".json")]" *)
(* compiled when the feature is not: they reject the id.                     *)
FeatureGuards ==
    { [prefix |-> "gold",    feature |-> "gold-native",    json_exempt |-> TRUE],
      [prefix |-> "rococo",  feature |-> "rococo-native",  json_exempt |-> TRUE],
      [prefix |-> "westend", feature |-> "westend-native", json_exempt |-> TRUE],
      [prefix |-> "wococo",  feature |-> "rococo-native",  json_exempt |-> FALSE] }

(* The id load_spec matches on: an empty id becomes the first of the four *)
(* chains the executable's name starts with, or "diamond".                *)
ResolvedId(id, exe) ==
    IF id # EmptyId THEN id
    ELSE IF exe \in {"diamond", "gold", "westend", "rococo"} THEN Name(exe, "")
    ELSE Name("diamond", "")

(* The final arm: the id is a path.  The file's spec is re-read as the type *)
(* of the first of rococo/wococo, gold, westend that is forced or that the *)
(* file's id names.                                                         *)
FileSpec(file, force) ==
    [chain |-> file.chain, type |-> file.type,
     spec_type |-> IF "rococo" \in force \/ file.chain \in {"rococo", "wococo"}
                     THEN "Rococo"
                   ELSE IF "gold" \in force \/ file.chain = "gold" THEN "Gold"
                   ELSE IF "westend" \in force \/ file.chain = "westend" THEN "Westend"
                   ELSE "Diamond"]

(* SubstrateCli::load_spec for Cli. *)
LoadSpec(id0, exe, features, force, file) ==
    LET id == ResolvedId(id0, exe)
        arms == { a \in BuiltinArms : a.id = id /\ a.gate \in features \cup {"none"} }
    IN IF arms # {}
       THEN LET a == CHOOSE a \in arms : TRUE IN
            [ok |-> TRUE, spec |-> [chain |-> a.chain, type |-> a.type,
                                    spec_type |-> SpecTypeOf(a.chain)]]
       ELSE IF \E g \in FeatureGuards :
                  /\ g.feature \notin features
                  /\ id.base = g.prefix /\ id.rest \notin {"", "dev"}
                  /\ g.json_exempt => ~id.json
            THEN [ok |-> FALSE, error |-> "feature not enabled"]
       ELSE IF file = NoFile THEN [ok |-> FALSE, error |-> "no such file"]
       ELSE [ok |-> TRUE, spec |-> FileSpec(file, force)]

(* Mutant: rococo-native does not cover wococo. *)
NativeRuntimeVersionNoWococo(spec, features) ==
    IF "gold-native" \in features /\ spec.chain = "gold" THEN "gold"
    ELSE IF "westend-native" \in features /\ spec.chain = "westend" THEN "westend"
    ELSE IF "rococo-native" \in features /\ spec.chain = "rococo" THEN "rococo"
    ELSE IF "diamond-native" \in features THEN "diamond"
    ELSE "panic"

(* native_runtime_version: the first compiled runtime the spec's chain    *)
(* names, else diamond's, else a panic.                                   *)
NativeRuntimeVersion(spec, features) ==
    IF "gold-native" \in features /\ spec.chain = "gold" THEN "gold"
    ELSE IF "westend-native" \in features /\ spec.chain = "westend" THEN "westend"
    ELSE IF "rococo-native" \in features /\ spec.chain \in {"rococo", "wococo"}
         THEN "rococo"
    ELSE IF "diamond-native" \in features THEN "diamond"
    ELSE "panic"

(* DEV_ONLY_ERROR_PATTERN: the chains ensure_dev's error offers. *)
DevOnlyChains == {"diamond", "gold", "westend", "rococo", "wococo"}

(* ensure_dev: only a Development chain spec is accepted. *)
EnsureDev(spec) == spec.type = "Development"

(* Subcommand::Benchmark after ensure_dev: gold, westend, "else we assume *)
(* it is diamond".                                                        *)
BenchmarkRuntime(spec, features) ==
    IF "gold-native" \in features /\ spec.chain = "gold" THEN "gold"
    ELSE IF "westend-native" \in features /\ spec.chain = "westend" THEN "westend"
    ELSE IF "diamond-native" \in features THEN "diamond"
    ELSE "panic"

(* Subcommand::TryRuntime after ensure_dev, the same three cases. *)
TryRuntimeRuntime(spec, features) ==
    IF "gold-native" \in features /\ spec.chain = "gold" THEN "gold"
    ELSE IF "westend-native" \in features /\ spec.chain = "westend" THEN "westend"
    ELSE IF "diamond-native" \in features THEN "diamond"
    ELSE "panic"

(* set_default_ss58_version: the address format of the spec's chain. *)
SetDefaultSs58Version(spec) ==
    IF spec.chain = "gold" THEN "goldAccount"
    ELSE IF spec.chain = "westend" THEN "SubstrateAccount"
    ELSE "diamond"

Subcommands == {"none", "build-spec", "check-block", "export-blocks", "export-state",
                "import-blocks", "purge-chain", "revert", "pvf-prepare-worker",
                "pvf-execute-worker", "benchmark", "key", "try-runtime"}

(* The subcommands that never create a runner, so never load a spec. *)
RunnerlessSubcommands == {"pvf-prepare-worker", "pvf-execute-worker", "key"}

(* The runner subcommands that neither set the SS58 format nor execute a  *)
(* runtime: build-spec writes the spec, purge-chain removes the database. *)
NoSs58Subcommands == {"build-spec", "purge-chain"}

Outcome(ok, ss58, runtime) == [ok |-> ok, ss58 |-> ss58, runtime |-> runtime]

(* run (with the try-runtime feature, not on android): create_runner     *)
(* loads the spec, most runner subcommands set the SS58 format, benchmark *)
(* and try-runtime then require ensure_dev and pick their runtime; the    *)
(* node and the chain-data subcommands (new_chain_ops) leave the runtime  *)
(* to the service.                                                        *)
Run(sub, loaded, features) ==
    IF sub \in RunnerlessSubcommands THEN Outcome(TRUE, "unset", "none")
    ELSE IF ~loaded.ok THEN Outcome(FALSE, "unset", "none")
    ELSE LET ss58 == IF sub \in NoSs58Subcommands THEN "unset"
                     ELSE SetDefaultSs58Version(loaded.spec)
         IN IF sub \in {"benchmark", "try-runtime"} /\ ~EnsureDev(loaded.spec)
            THEN Outcome(FALSE, ss58, "none")
            ELSE Outcome(TRUE, ss58,
                         CASE sub = "benchmark" -> BenchmarkRuntime(loaded.spec, features)
                           [] sub = "try-runtime" -> TryRuntimeRuntime(loaded.spec, features)
                           [] sub \in NoSs58Subcommands -> "none"
                           [] OTHER -> "service")

(* ---------------------------------------------------------------------- *)
(* The probes: an invocation of the node.                                 *)

Files == {NoFile} \cup [chain : Chains, type : {"Development", "Live"}]

Probes == [id : Ids, exe : Chains \cup {"other"}, features : SUBSET Features,
           force : SUBSET {"rococo", "gold", "westend"}, file : Files]

Init == probe \in Probes

(* Each invocation is examined once; the specification then stays put. *)
Examine == UNCHANGED probe

Spec == Init /\ [][Examine]_probe

Loaded == LoadSpec(probe.id, probe.exe, probe.features, probe.force, probe.file)

(* ---------------------------------------------------------------------- *)
(* Properties.                                                             *)

(* Every chain that ensure_dev's error message offers as "<chain>-dev" is *)
(* loaded, when its runtime is compiled, as a spec that ensure_dev accepts *)
(* and that runs that chain's native runtime (rococo's for wococo).        *)
DevChainsOfErrorMessageLoad ==
    \A c \in DevOnlyChains :
        LET feature == CHOOSE a \in BuiltinArms : a.id = Name(c, "-dev")
            r == LoadSpec(Name(c, "-dev"), probe.exe, probe.features,
                          probe.force, probe.file)
        IN feature.gate \in probe.features =>
             /\ r.ok /\ EnsureDev(r.spec)
             /\ NativeRuntimeVersion(r.spec, probe.features)
                  = IF c = "wococo" THEN "rococo" ELSE c

(* A --chain value naming a .json file is read from that file: the arms  *)
(* that reject gold-, rococo- and westend- names without their runtime   *)
(* feature all exempt names ending in ".json".                           *)
JsonPathLoadedFromFile ==
    (probe.id.json /\ probe.file # NoFile) => Loaded.ok

(* A benchmark or try-runtime run, admitted by ensure_dev, executes the   *)
(* runtime the node would run the chain spec with.                        *)
DevSubcommandRunsChainRuntime ==
    \A sub \in {"benchmark", "try-runtime"} :
        LET r == Run(sub, Loaded, probe.features) IN
        r.ok => r.runtime = NativeRuntimeVersion(Loaded.spec, probe.features)
=============================================================================
