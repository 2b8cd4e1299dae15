----------------------------- MODULE Workspace -----------------------------
(***************************************************************************)
(* A contract's life in a project: its source is edited, compiled, its      *)
(* deployer regenerated (by hand or by the Hardhat hook) or not, and a      *)
(* deploy script imports a generated deployer and calls it.  Three          *)
(* snapshots of the contract meet in that call: the abi the script          *)
(* imported, the artifact on disk, and the record of the last deployment.   *)
(*                                                                          *)
(* The lock, the store and the transaction of a call are GetOrDeploy's and  *)
(* DeployLock's; here a call is one step that reads the compiler's output,  *)
(* decides, and records.  built, live and last are history variables: the   *)
(* last compilation and where it went, what the record really stands for,   *)
(* and what the last step's call did.                                       *)
(***************************************************************************)
EXTENDS Toolchain, SequencesExt

CONSTANTS
    Setups,         \* the projects considered, [project, tree, old]: project.trees are the trees an
                    \* edit can leave, project.configs the toolchain configurations it can be given,
                    \* project.requests what its script passes, [args, libraries, bound]
    Trees,          \* every source tree: a set of file versions
    Directories,    \* the output directories
    Strategies,     \* its redeploymentStrategy, or NoValue
    ArgValues,      \* the values scripts pass to constructors
    Contract,       \* the name of the contract the script deploys
    MaxEdits, MaxConfigs, MaxCompiles, MaxCalls     \* bounds

VARIABLES project, tree, disk, built, files, gen, session, record, live, last, steps

vars == <<project, tree, disk, built, files, gen, session, record, live, last, steps>>

Idle == [due |-> FALSE, todo |-> <<>>]
NoCall == [did |-> "none", strategy |-> NoValue, warned |-> {}, drift |-> {}]

-----------------------------------------------------------------------------
(* What a deployment leaves.  A deployment is [version, args, libraries,    *)
(* by]: what was compiled and what it was deployed with.                    *)

\* Library names with their addresses.
IsLibraries(libraries) == libraries = [name \in DOMAIN libraries |-> libraries[name]]

\* What a record tells of a deployment, whichever version of deployoor wrote it: the hashes may be
\* missing, and a number may be written in another way.
RecordOfDeployment(r, deployed) ==
    LET creation == Compiled[deployed.version].creation
    IN  /\ deployed.version \in {v \in DOMAIN Compiled : IsDeployable(v)}
        /\ deployed.args \in Seq(ArgValues)
        /\ IsLibraries(deployed.libraries)
        /\ r.creation = creation /\ r.libraries = deployed.libraries
        /\ DOMAIN r.args = DOMAIN deployed.args
        /\ \A i \in DOMAIN r.args :
              /\ r.args[i].type = deployed.args[i].type /\ r.args[i].is = deployed.args[i].is
              /\ r.args[i] # NoValue /\ r.args[i].as # "mixed"
        /\ r.codeHash \in {NoValue, CodeHash(creation.run)}
        /\ r.identityHash \in {NoValue, <<StripMetadata(creation.run),
                                          [i \in DOMAIN deployed.args |-> deployed.args[i].is],
                                          deployed.libraries>>}

\* Its abi is the code's, and so are the sources it pinned, if any.
DescribesCode(r, deployed) ==
    /\ r.abi = Compiled[deployed.version].abi
    /\ \/ r.sources.sources = NoValue
       \/ deployed.by = "hardhat" /\ deployed.version \in r.sources.sources
       \/ deployed.by = "foundry" /\ Compiled[deployed.version].path \in Paths(r.sources.sources)

-----------------------------------------------------------------------------
(* The instances considered.                                                *)

\* A value has one type, so that what it means tells values of different types apart.
ASSUME ArgValuesAssumption ==
    /\ \A v \in ArgValues : /\ v \in [type : {v.type}, is : {v.is}, as : {v.as}]
                            /\ v # NoValue /\ v.type # NoValue
                            /\ [v EXCEPT !.as = "string"] # NoValue
    /\ \A v, w \in ArgValues : v.is = w.is => v.type = w.type

ProjectFields == {"markers", "framework", "artifactsPath", "config", "plugin", "include",
                  "strategies", "trees", "configs", "requests"}

\* A deployment by an earlier version left the record that version would have.
ASSUME SetupsAssumption ==
    /\ \A tree0 \in Trees : tree0 \subseteq DOMAIN Compiled /\ IsFiniteSet(tree0)
    /\ MaxEdits \in Nat /\ MaxConfigs \in Nat /\ MaxCompiles \in Nat /\ MaxCalls \in Nat
    /\ \A setup \in Setups :
          /\ setup.tree \in Trees /\ setup.project.trees \subseteq Trees
          /\ ProjectFields \subseteq DOMAIN setup.project
          /\ \A request \in setup.project.requests :
                /\ request.args \in Seq(ArgValues)
                /\ IsLibraries(request.libraries)
          /\ setup.old # NoValue =>
                /\ setup.old.record # NoValue /\ setup.old.live # NoValue
                /\ RecordOfDeployment(setup.old.record, setup.old.live)
                /\ DescribesCode(setup.old.record, setup.old.live)

\* Every directory a configuration names is one of Directories.
IsConfig(config) ==
    LET named == Directories \cup {NoValue}
    IN  /\ config.hardhat.takes \in named /\ config.hardhat.reads \in named
        /\ \A profile \in DOMAIN config.toml :
              config.toml[profile].takes \in named /\ config.toml[profile].reads \in named
        /\ config.shell.out \in named /\ config.script.out \in named

ASSUME DirectoriesAssumption ==
    /\ NoValue \notin Directories
    /\ \A framework \in FRAMEWORKS : DEFAULT_OUTPUT_DIR[framework] \in Directories
    /\ \A setup \in Setups :
          /\ setup.project.artifactsPath \in Directories \cup {NoValue}
          /\ \A config \in setup.project.configs \cup {setup.project.config} : IsConfig(config)

\* What can be computed is not NoValue.
ASSUME NoValueAssumption ==
    \A setup \in Setups, version \in {v \in DOMAIN Compiled : IsDeployable(v)},
       build \in Trees \cup {NoValue} : \A request \in setup.project.requests :
          LET artifact == ToArtifact(version, build)
              args == request.args
              libraries == request.libraries
          IN  /\ RecordOf(artifact, args, libraries) # NoValue
              /\ EncodeConstructorArgs(artifact.inputs, args) # NoValue =>
                    ComputeIdentity(artifact, args, libraries) # NoValue
              /\ \A by \in FRAMEWORKS :
                    [version |-> version, args |-> args, libraries |-> libraries, by |-> by] # NoValue

-----------------------------------------------------------------------------
(* What the record no longer matches: the differences between what was      *)
(* deployed and what a call asks for, whoever notices.                      *)

\* What ends a code without being metadata is code.
Executed(code) ==
    <<code.body, code.holes,
      IF code.tail # NoValue /\ ~ code.tail.cbor THEN code.tail ELSE NoValue>>

Drift(deployed, artifact, args, libraries) ==
    LET was == Compiled[deployed.version].creation
        now == artifact.creation
        meaning(list) == [i \in DOMAIN list |-> <<list[i].type, list[i].is>>]
    IN  {what \in {"code", "constructor", "child", "metadata", "args", "form", "libraries"} :
           \/ what = "code"        /\ Executed(was.run) # Executed(now.run)
           \/ what = "constructor" /\ was.ctor # now.ctor
           \/ what = "child"       /\ was.run.inner # now.run.inner
           \/ what = "metadata"    /\ was.run.tail # now.run.tail
           \/ what = "args"        /\ meaning(deployed.args) # meaning(args)
           \/ what = "form"        /\ deployed.args # args
           \/ what = "libraries"   /\ deployed.libraries # libraries}

\* What a compiled contract runs as, and for whom: the part a redeployment is for.
Semantic == {"code", "args", "libraries"}

-----------------------------------------------------------------------------
(* The project changes. *)

\* Nothing is compiled or generated yet; old is a deployment by an earlier version of deployoor.
Init ==
    /\ disk = [d \in Directories |-> NoValue]
    /\ built = NoValue
    /\ files = [types |-> <<>>, deployers |-> {}, index |-> NoValue]
    /\ gen = Idle
    /\ session = NoValue
    /\ \E setup \in Setups :
          /\ project = setup.project
          /\ tree = setup.tree
          /\ live = IF setup.old = NoValue THEN NoValue ELSE setup.old.live
          /\ record = IF setup.old = NoValue THEN NoValue ELSE setup.old.record
    /\ last = NoCall
    /\ steps = [edits |-> 0, configs |-> 0, compiles |-> 0, calls |-> 0]

Edit ==
    /\ steps.edits < MaxEdits
    /\ tree' \in project.trees \ {tree}
    /\ steps' = [steps EXCEPT !.edits = @ + 1]
    /\ last' = NoCall
    /\ UNCHANGED <<project, disk, built, files, gen, session, record, live>>

\* A toolchain's config, or the environment of one of the two processes, is changed.
Reconfigure ==
    /\ steps.configs < MaxConfigs
    /\ \E config \in project.configs \ {project.config} :
          project' = [project EXCEPT !.config = config]
    /\ steps' = [steps EXCEPT !.configs = @ + 1]
    /\ last' = NoCall
    /\ UNCHANGED <<tree, disk, built, files, gen, session, record, live>>

\* The toolchain writes every artifact; Foundry may leave earlier build-infos beside the new one.
\* There may be none that deployoor can read: build_info = false, a version that writes another
\* form, a build-info that was removed.
Compile(framework) ==
    LET dir == OutputDir(project, framework)
        old == IF disk[dir] = NoValue THEN {} ELSE disk[dir].builds
    IN  /\ steps.compiles < MaxCompiles
        /\ framework \in project.markers
        /\ gen = Idle
        /\ \E builds \in IF framework = "hardhat" THEN {{}, {tree}} ELSE {{}, {tree}, old \cup {tree}} :
              disk' = [disk EXCEPT ![dir] = [tree |-> tree, builds |-> builds, by |-> framework]]
        /\ built' = [tree |-> tree, by |-> framework, at |-> dir]
        /\ gen' = IF framework = "hardhat" /\ project.plugin THEN [Idle EXCEPT !.due = TRUE] ELSE Idle
        /\ steps' = [steps EXCEPT !.compiles = @ + 1]
        /\ last' = NoCall
        /\ UNCHANGED <<project, tree, files, session, record, live>>

-----------------------------------------------------------------------------
(* deployoor generate, and the hook the Hardhat plugin runs after a         *)
(* compilation (which swallows every failure).                              *)

Matches(name) == project.include = NoValue \/ name \in project.include

\* What a contract's files are made from; which build-info it has is not in them.
Modules(artifacts) ==
    {[name |-> a.name, fullyQualifiedName |-> a.fullyQualifiedName, abi |-> a.abi] : a \in artifacts}

\* Each contract's module, then its deployer.
Pairs(each) ==
    [i \in 1..2 * Len(each) |-> [file |-> IF i % 2 = 1 THEN "types" ELSE "deployer",
                                 module |-> each[(i + 1) \div 2]]]

IndexOf(each) == [file |-> "index", names |-> {each[i].name : i \in DOMAIN each}]

\* Mutant: the index is written first.
GenerateIndexFirst(each) == <<IndexOf(each)>> \o Pairs(each)

\* The files of one run, in the order they are written.
Generate(each) == Append(Pairs(each), IndexOf(each))

\* The artifacts come in the order of the directory, whichever that is.
RunGenerate ==
    LET read == ReadArtifacts(project, disk)
        kept == {a \in read.artifacts : Matches(a.name)}
    IN  /\ gen.todo = <<>>
        /\ IF Failed(read) \/ kept = {} THEN gen' = Idle
           ELSE \E each \in SetToSeqs(Modules(kept)) :
                   gen' = [due |-> FALSE, todo |-> Generate(each)]
        /\ gen # gen'
        /\ last' = NoCall
        /\ UNCHANGED <<project, tree, disk, built, files, session, record, live, steps>>

\* Mutant: the module is named by the contract alone.
ArtifactModuleByName(module) == [fullyQualifiedName |-> <<module.name>>, abi |-> module.abi]

ArtifactModule(module) == [fullyQualifiedName |-> module.fullyQualifiedName, abi |-> module.abi]

Save(types, module) ==
    [name \in DOMAIN types \cup {module.name} |->
        IF name = module.name THEN ArtifactModule(module) ELSE types[name]]

Emit ==
    LET write == Head(gen.todo)
    IN  /\ gen.todo # <<>>
        /\ files' =
              CASE write.file = "types" ->
                      [files EXCEPT !.types = Save(@, write.module)]
                [] write.file = "deployer" -> [files EXCEPT !.deployers = @ \cup {write.module.name}]
                [] OTHER -> [files EXCEPT !.index = write.names]
        /\ gen' = [gen EXCEPT !.todo = Tail(@)]
        /\ last' = NoCall
        /\ UNCHANGED <<project, tree, disk, built, session, record, live, steps>>

\* The generator dies, or cannot write, between two files.
Die ==
    /\ gen # Idle
    /\ gen' = Idle
    /\ last' = NoCall
    /\ UNCHANGED <<project, tree, disk, built, files, session, record, live, steps>>

-----------------------------------------------------------------------------
(* A deploy script. *)

Loads(name) == name \in DOMAIN files.types /\ name \in files.deployers

\* The script imports the index: every module it exports from has to load.
Import ==
    /\ files.index # NoValue
    /\ Contract \in files.index
    /\ \A name \in files.index : Loads(name)
    /\ session' = files.types[Contract]
    /\ session # session'
    /\ last' = NoCall
    /\ UNCHANGED <<project, tree, disk, built, files, gen, record, live, steps>>

Answer(did, strategy, warned, drift) ==
    last' = [did |-> did, strategy |-> strategy, warned |-> warned, drift |-> drift]

\* The pipeline, with an artifact in hand.
GetOrDeploy(artifact, args, libraries, strategy) ==
    LET drift == (IF live = NoValue THEN {} ELSE Drift(live, artifact, args, libraries))
                 \cup (IF artifact.version \in built.tree THEN {} ELSE {"outdated"})
        reuse == record # NoValue
                 /\ \/ strategy = "never"
                    \/ strategy = "on-change" /\ ~ IdentityChanged(record, artifact, args, libraries)
    IN  \/ /\ reuse
           /\ Answer("reused", strategy,
                     IF strategy = "never" THEN WarnIfStale(record, artifact, args) ELSE {}, drift)
           /\ UNCHANGED <<record, live>>
        \/ /\ ~ reuse
           /\ MissingLibraries(artifact, libraries) # {}
           /\ Answer("unlinked", strategy, {}, drift)
           /\ UNCHANGED <<record, live>>
        \/ /\ ~ reuse
           /\ MissingLibraries(artifact, libraries) = {}
           /\ IF EncodeConstructorArgs(artifact.inputs, args) = NoValue
              THEN /\ Answer("failed", strategy, {}, drift)
                   /\ UNCHANGED <<record, live>>
              ELSE /\ Answer(IF record = NoValue THEN "deployed" ELSE "redeployed", strategy, {}, drift)
                   /\ record' = RecordOf(artifact, args, libraries)
                   /\ live' = [version |-> artifact.version, args |-> args, libraries |-> libraries,
                               by |-> ConfiguredFramework(project)]

\* The clients layer is built when the program runs, after the artifact was resolved: it needs a
\* wallet with a chain and an account.
ClientsLayer(request) == IF request.bound THEN [ok |-> TRUE] ELSE Fails("NoChainOnClient")

\* getOrDeploy<Contract>(...) of the module the script imported: the artifact is read afresh.
Call(request, strategy) ==
    LET resolved == ResolveArtifact(session, project, disk)
        clients  == ClientsLayer(request)
        resolvedStrategy ==
            ResolveStrategy(strategy, project.strategies.chain, project.strategies.global)
    IN  /\ session # NoValue
        /\ steps.calls < MaxCalls
        /\ steps' = [steps EXCEPT !.calls = @ + 1]
        /\ IF Failed(resolved)
           THEN Answer(resolved.error, strategy, {}, {}) /\ UNCHANGED <<record, live>>
           ELSE IF Failed(clients)
           THEN Answer(clients.error, strategy, {}, {}) /\ UNCHANGED <<record, live>>
           ELSE \E artifact \in resolved.artifacts :
                   GetOrDeploy(artifact, request.args, request.libraries, resolvedStrategy)
        /\ UNCHANGED <<project, tree, disk, built, files, gen, session>>

Next ==
    \/ Edit
    \/ Reconfigure
    \/ \E framework \in FRAMEWORKS : Compile(framework)
    \/ RunGenerate
    \/ Emit
    \/ Die
    \/ Import
    \/ \E request \in project.requests, strategy \in Strategies :
          Call(request, strategy)

Spec == Init /\ [][Next]_vars

-----------------------------------------------------------------------------
(* Properties. *)

Artifacts == {ToArtifact(version, {}) : version \in {v \in DOMAIN Compiled : IsDeployable(v)}}
Abis == {a.abi : a \in Artifacts}
FileModules == [fullyQualifiedName : {a.fullyQualifiedName : a \in Artifacts}, abi : Abis]
Names == {a.name : a \in Artifacts}

Builds == [tree : Trees, by : FRAMEWORKS, at : Directories]
Outputs == [tree : Trees, builds : SUBSET Trees, by : FRAMEWORKS]
Writes ==
    [file : {"types", "deployer"},
     module : [name : Names, fullyQualifiedName : {a.fullyQualifiedName : a \in Artifacts}, abi : Abis]]
    \cup [file : {"index"}, names : SUBSET Names]

\* What each variable holds.
TypeOK ==
    /\ tree \in Trees
    /\ disk \in [Directories -> {NoValue} \cup Outputs]
    /\ built \in {NoValue} \cup Builds
    /\ \A name \in DOMAIN files.types : name \in Names /\ files.types[name] \in FileModules
    /\ files.deployers \subseteq Names
    /\ files.index = NoValue \/ files.index \subseteq Names
    /\ gen \in [due : BOOLEAN, todo : Seq(Writes)]
    /\ session = NoValue \/ session \in FileModules
    /\ record = NoValue <=> live = NoValue
    /\ steps \in [edits : 0..MaxEdits, configs : 0..MaxConfigs, compiles : 0..MaxCompiles, calls : 0..MaxCalls]

\* A record describes the code at its address: its abi is that code's interface, however old the
\* module the script imported (resolve.ts refuses a drifted one).  Its pinned sources are none, where
\* no build-info could be read (hardhat.ts and foundry.ts then take empty ones), or compile to that
\* code, unless Foundry's build-infos, which name no artifact, held another build of the file
\* (foundry.ts takes the first).
RecordDescribesItsCode == record # NoValue => DescribesCode(record, live)

\* on-change redeploys exactly what changed (pipeline.ts, identity.ts).  It reuses only a
\* deployment whose code, argument values and libraries are the ones asked for; it replaces one
\* only when one of those moved, or the metadata of a child contract embedded in the code did
\* (only trailing metadata is stripped), or, against a record without hashes, the constructor.
RedeploysWhatChanged ==
    [][last'.strategy = "on-change" =>
          /\ last'.did = "reused" => last'.drift \cap Semantic = {}
          /\ last'.did = "redeployed" =>
                \/ last'.drift \cap (Semantic \cup {"child"}) # {}
                \/ record.identityHash = NoValue /\ "constructor" \in last'.drift]_vars

\* Under never a deployment that no longer matches is reused with a warning, so that drift does not
\* pass silently (pipeline.ts warnIfStale), except a changed library address, which neither the
\* unlinked bytecode nor the arguments show.
NeverSilent ==
    last.did = "reused" /\ last.strategy = "never" /\ last.warned = {} =>
        last.drift \subseteq {"libraries", "form", "outdated"}

\* Whenever the generator stops, killed between two files or not, every deployer the index exports
\* is on disk with its artifact module: the index is written last and nothing is deleted.
IndexLoads == files.index # NoValue => \A name \in files.index : Loads(name)

\* What deployoor reads of a toolchain's configuration is what the toolchain takes from it.
ReadsAsTaken(config, framework) ==
    LET telling == {config.shell.profile, "default"} \cap DOMAIN config.toml
    IN  IF framework = "hardhat" THEN config.hardhat.reads = config.hardhat.takes
        ELSE /\ config.script = config.shell
             /\ \/ config.shell.out # NoValue
                \/ /\ config.readable
                   /\ \A profile \in telling : config.toml[profile].reads = config.toml[profile].takes

\* A call works from the last compilation, wherever the toolchain was told to write: an older output
\* is picked up only when another toolchain compiled last, deployoor.config names a directory the
\* toolchain does not write to, the toolchain was reconfigured since it compiled, or its
\* configuration is not what deployoor reads of it (a Hardhat config that cannot be evaluated or
\* evaluates to something else outside Hardhat; a FOUNDRY_OUT or FOUNDRY_PROFILE only one of the
\* two processes has; a foundry.toml that cannot be read, or sets out in an unrecognised form).
ReadsLastBuild ==
    last.did \in {"reused", "deployed", "redeployed"} /\ "outdated" \in last.drift =>
        \/ built.by # ConfiguredFramework(project)
        \/ project.artifactsPath \notin {NoValue, OutputDir(project, built.by)}
        \/ OutputDir(project, built.by) # built.at
        \/ ~ ReadsAsTaken(project.config, built.by)
=============================================================================
