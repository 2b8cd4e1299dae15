----------------------------- MODULE Toolchain -----------------------------
(***************************************************************************)
(* What deployoor reads of the toolchain's output: which toolchain          *)
(* (artifacts/detect.ts, index.ts), which directory (framework-config.ts),  *)
(* which artifacts and which build-info (hardhat.ts, foundry.ts, parse.ts), *)
(* and how a generated artifact is matched against them (resolve.ts,        *)
(* abi-identity.ts).                                                        *)
(*                                                                          *)
(* A project is [markers, framework, artifactsPath, config]: the toolchains *)
(* whose config file is at the root, the two options of deployoor.config,   *)
(* and what the toolchains' own configuration says of the output directory: *)
(*   hardhat, and toml of each profile: [takes, reads], the directory that  *)
(*     the toolchain takes from it and the one deployoor reads in it, each  *)
(*     NoValue where there is none (a Hardhat config may fail to evaluate,  *)
(*     or depend on the process; TOML has forms that are not recognised);   *)
(*   readable: whether foundry.toml can be read when deployoor reads it;    *)
(*   shell, script: the FOUNDRY_OUT and FOUNDRY_PROFILE of the process that *)
(*     runs forge and of the one that runs deployoor.                       *)
(* A directory holds [tree, builds, by]: the version of every source file   *)
(* compiled into it, the readable build-infos there (each the tree it       *)
(* compiled), and its writer.  Compiled maps a version of a file to what    *)
(* the compiler makes of it.                                                *)
(***************************************************************************)
EXTENDS Identity

CONSTANT Compiled

FRAMEWORKS == {"hardhat", "foundry"}
DEFAULT_OUTPUT_DIR == [hardhat |-> "artifacts", foundry |-> "out"]

Fails(error) == [error |-> error]
Failed(result) == "error" \in DOMAIN result

-----------------------------------------------------------------------------
(* Which toolchain, which directory. *)

DetectFramework(project) ==
    IF "foundry" \in project.markers THEN "foundry"
    ELSE IF "hardhat" \in project.markers THEN "hardhat" ELSE NoValue

ConfiguredFramework(project) ==
    IF project.framework = NoValue THEN DetectFramework(project) ELSE project.framework

\* Mutant: the toolchain's own configuration is not read.
ReadNoArtifactsPath(project) == NoValue

\* The Hardhat config is a program: what it exports when it is imported outside Hardhat, if it can be.
ReadHardhatArtifactsPath(project) ==
    IF "hardhat" \in project.markers THEN project.config.hardhat.reads ELSE NoValue

\* FOUNDRY_OUT, the active profile and the default profile: the first that names a directory.
FoundryOut(env, outs) ==
    LET named(profile) == IF profile \in DOMAIN outs THEN outs[profile] ELSE NoValue
    IN  CASE env.out # NoValue                                    -> env.out
          [] env.out = NoValue /\ named(env.profile) # NoValue -> named(env.profile)
          [] OTHER                                               -> named("default")

\* A file that is missing or cannot be read sets nothing.
ReadFoundryOutPath(project) ==
    FoundryOut(project.config.script,
               IF project.config.readable
               THEN [profile \in DOMAIN project.config.toml |-> project.config.toml[profile].reads]
               ELSE <<>>)

FromFramework(project, framework) ==
    IF framework = "hardhat" THEN ReadHardhatArtifactsPath(project) ELSE ReadFoundryOutPath(project)

ArtifactsDirFor(project, framework) ==
    CASE project.artifactsPath # NoValue            -> project.artifactsPath
      [] project.artifactsPath = NoValue
         /\ FromFramework(project, framework) # NoValue -> FromFramework(project, framework)
      [] OTHER                                      -> DEFAULT_OUTPUT_DIR[framework]

\* Where the toolchain itself writes.
OutputDir(project, framework) ==
    LET config == project.config
        named  == IF framework = "hardhat" THEN config.hardhat.takes
                  ELSE FoundryOut(config.shell, [profile \in DOMAIN config.toml |-> config.toml[profile].takes])
    IN  IF named = NoValue THEN DEFAULT_OUTPUT_DIR[framework] ELSE named

-----------------------------------------------------------------------------
(* What is read there. *)

\* An interface or an abstract contract has no creation code.
IsDeployable(version) == Compiled[version].creation # NoValue

\* Code is what Identity takes it for.
ASSUME CompiledAssumption ==
    \A version \in {v \in DOMAIN Compiled : IsDeployable(v)} :
       LET creation == Compiled[version].creation
           code == creation.run
       IN  /\ creation \in [ctor : {creation.ctor}, run : {code}]
           /\ code \in [body : {code.body}, holes : {code.holes}, inner : {code.inner},
                        tail : {code.tail}]

Paths(tree) == {Compiled[version].path : version \in tree}

\* A Foundry artifact does not name its build-info: the first one listed, in no particular order,
\* that holds the path is taken.
BuildInfoInputFor(dir, version) ==
    LET holding == {build \in dir.builds : Compiled[version].path \in Paths(build)}
    IN  IF holding = {} THEN {NoValue} ELSE holding

\* version is which artifact it is, for the properties.
ToArtifact(version, build) ==
    [version |-> version, name |-> Compiled[version].name,
     fullyQualifiedName |-> <<Compiled[version].path, Compiled[version].name>>,
     abi |-> Compiled[version].abi, inputs |-> Compiled[version].inputs,
     creation |-> Compiled[version].creation, sources |-> build]

Deployable(dir) == {version \in dir.tree : IsDeployable(version)}

\* A Hardhat artifact names its build-info, which is the one of the compilation it is from.  When
\* that, or the .dbg.json naming it, is missing or has another form, there are no sources.
ReadBuildInfo(dir) == IF dir.tree \in dir.builds THEN dir.tree ELSE NoValue

ReadHardhatArtifacts(dir) == {ToArtifact(version, ReadBuildInfo(dir)) : version \in Deployable(dir)}

\* One artifact for each choice of a build-info.
ReadFoundryArtifacts(dir) ==
    UNION {{ToArtifact(version, build) : build \in BuildInfoInputFor(dir, version)} :
              version \in Deployable(dir)}

ReadDir(dir, framework) ==
    IF framework = "hardhat" THEN ReadHardhatArtifacts(dir) ELSE ReadFoundryArtifacts(dir)

\* Everything a read can return, or how it fails.
ReadArtifacts(project, disk) ==
    LET framework == ConfiguredFramework(project)
        dir       == disk[ArtifactsDirFor(project, framework)]
    IN  IF framework = NoValue THEN Fails("NoToolchain")
        ELSE IF framework \notin FRAMEWORKS THEN Fails("UnsupportedFramework")
        ELSE IF dir = NoValue THEN Fails("ArtifactsNotFound")
        ELSE [artifacts |-> ReadDir(dir, framework)]

-----------------------------------------------------------------------------
(* A generated artifact [fullyQualifiedName, abi] against what is compiled. *)

\* An abi is a set of canonical entries: neither order nor internalType is in one.
DiffAbi(previous, next) == [added |-> next \ previous, removed |-> previous \ next]

\* Mutant: only what the new interface lacks is a difference.
AbiCovers(previous, next) == DiffAbi(previous, next).removed = {}

AbiMatches(previous, next) ==
    DiffAbi(previous, next).added = {} /\ DiffAbi(previous, next).removed = {}

\* The artifacts a call can get for the generated one, each with the generated abi.
ResolveArtifact(generated, project, disk) ==
    LET read  == ReadArtifacts(project, disk)
        found == {a \in read.artifacts : a.fullyQualifiedName = generated.fullyQualifiedName}
    IN  IF Failed(read) THEN read
        ELSE IF found = {} THEN Fails("ContractArtifactNotFound")
        ELSE IF \E a \in found : ~ AbiMatches(generated.abi, a.abi) THEN Fails("GeneratedArtifactStale")
        ELSE [artifacts |-> {[a EXCEPT !.abi = generated.abi] : a \in found}]
=============================================================================
