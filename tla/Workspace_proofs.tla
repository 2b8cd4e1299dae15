--------------------------- MODULE Workspace_proofs ---------------------------
(***************************************************************************)
(* Proofs about Workspace: for any projects, versions, trees, requests and  *)
(* bounds, a deployment's record describes its code, what on-change and     *)
(* never decide is what they promise, and the index loads.                  *)
(***************************************************************************)
EXTENDS Workspace, Identity_proofs, FiniteSetTheorems, SequenceTheorems

-----------------------------------------------------------------------------
(* The invariant.                                                           *)

\* A project is one of those considered, possibly reconfigured.
ProjectInv ==
    \E setup \in Setups :
        \/ project = setup.project
        \/ \E config \in setup.project.configs :
              project = [setup.project EXCEPT !.config = config]

\* What is where the last compilation went is its output.
BuildInv ==
    \A dir \in Directories : disk[dir] # NoValue =>
        /\ built \in Builds /\ built.by \in project.markers
        /\ disk[built.at] # NoValue => disk[built.at].tree = built.tree

\* What an index that is still to be written exports is on disk or is written before it.
Ahead(i, file, name) ==
    \E k \in 1..(i - 1) : gen.todo[k].file = file /\ gen.todo[k].module.name = name

IndexInv ==
    \A i \in DOMAIN gen.todo : gen.todo[i].file = "index" =>
        \A name \in gen.todo[i].names :
            /\ name \in DOMAIN files.types \/ Ahead(i, "types", name)
            /\ name \in files.deployers \/ Ahead(i, "deployer", name)

FilesInv == files = [types |-> files.types, deployers |-> files.deployers, index |-> files.index]

\* The record tells of the deployment that is live.
RecordInv ==
    record # NoValue => RecordOfDeployment(record, live) /\ DescribesCode(record, live)

WInv == TypeOK /\ ProjectInv /\ BuildInv /\ IndexInv /\ FilesInv /\ IndexLoads /\ RecordInv

-----------------------------------------------------------------------------
(* The project.                                                             *)

LEMMA ProjectFacts ==
    ASSUME ProjectInv
    PROVE  /\ ProjectFields \subseteq DOMAIN project
           /\ project.trees \subseteq Trees
           /\ \A request \in project.requests :
                 /\ request.args \in Seq(ArgValues) /\ IsLibraries(request.libraries)
                 /\ \E setup \in Setups : request \in setup.project.requests
           /\ project.artifactsPath \in Directories \cup {NoValue}
           /\ IsConfig(project.config)
<1>1. PICK setup \in Setups :
         \/ project = setup.project
         \/ \E config \in setup.project.configs : project = [setup.project EXCEPT !.config = config]
  BY DEF ProjectInv
<1>2. /\ ProjectFields \subseteq DOMAIN setup.project
      /\ setup.project.trees \subseteq Trees
      /\ setup.project.artifactsPath \in Directories \cup {NoValue}
      /\ \A request \in setup.project.requests :
            request.args \in Seq(ArgValues) /\ IsLibraries(request.libraries)
      /\ \A config \in setup.project.configs \cup {setup.project.config} : IsConfig(config)
  BY SetupsAssumption, DirectoriesAssumption
<1>3. CASE project = setup.project
  BY <1>2, <1>3
<1>4. ASSUME NEW config \in setup.project.configs, project = [setup.project EXCEPT !.config = config]
      PROVE  /\ DOMAIN project = DOMAIN setup.project
             /\ project.trees = setup.project.trees /\ project.requests = setup.project.requests
             /\ project.artifactsPath = setup.project.artifactsPath /\ project.config = config
  BY <1>2, <1>4 DEF ProjectFields
<1>5. QED
  BY <1>1, <1>2, <1>3, <1>4

\* Whatever a configuration says, a directory that is found in it is one of Directories.
LEMMA ConfiguredDirectories ==
    ASSUME ProjectInv, NEW framework \in FRAMEWORKS
    PROVE  /\ OutputDir(project, framework) \in Directories
           /\ FromFramework(project, framework) \in Directories \cup {NoValue}
           /\ ArtifactsDirFor(project, framework) \in Directories
<1> DEFINE config == project.config
           named == Directories \cup {NoValue}
<1>1. IsConfig(config) /\ project.artifactsPath \in named
  BY ProjectFacts
<1>2. NoValue \notin Directories /\ DEFAULT_OUTPUT_DIR[framework] \in Directories
  BY DirectoriesAssumption
<1>3. ASSUME NEW env, env.out \in named, NEW outs, \A profile \in DOMAIN outs : outs[profile] \in named
      PROVE  FoundryOut(env, outs) \in named
  BY <1>3 DEF FoundryOut
<1>4. FoundryOut(config.shell, [profile \in DOMAIN config.toml |-> config.toml[profile].takes]) \in named
  BY <1>1, <1>3 DEF IsConfig
<1>5. ReadFoundryOutPath(project) \in named
  <2>1. config.script.out \in named
    BY <1>1 DEF IsConfig
  <2>2. CASE config.readable
    BY <1>1, <1>3, <2>1, <2>2 DEF ReadFoundryOutPath, IsConfig
  <2>3. CASE ~ config.readable
    BY <1>3, <2>1, <2>3 DEF ReadFoundryOutPath
  <2>4. QED
    BY <2>2, <2>3
<1>6. ReadHardhatArtifactsPath(project) \in named
  BY <1>1 DEF ReadHardhatArtifactsPath, IsConfig
<1>7. OutputDir(project, framework) \in Directories
  BY <1>1, <1>2, <1>4 DEF OutputDir, IsConfig
<1>8. FromFramework(project, framework) \in named
  BY <1>5, <1>6 DEF FromFramework
<1>9. ArtifactsDirFor(project, framework) \in Directories
  BY <1>1, <1>2, <1>8 DEF ArtifactsDirFor
<1>10. QED
  BY <1>7, <1>8, <1>9

\* Where deployoor reads a configuration as the toolchain takes it, it looks where the toolchain writes.
LEMMA LooksWhereItIsWritten ==
    ASSUME NEW framework \in FRAMEWORKS \cap project.markers, ReadsAsTaken(project.config, framework),
           project.artifactsPath \in {NoValue, OutputDir(project, framework)}
    PROVE  ArtifactsDirFor(project, framework) = OutputDir(project, framework)
<1> DEFINE config == project.config
           taken == [profile \in DOMAIN config.toml |-> config.toml[profile].takes]
           told == IF config.readable
                   THEN [profile \in DOMAIN config.toml |-> config.toml[profile].reads] ELSE <<>>
<1>1. CASE framework = "hardhat"
  BY <1>1 DEF ReadsAsTaken, ArtifactsDirFor, FromFramework, ReadHardhatArtifactsPath, OutputDir
<1>2. CASE framework = "foundry"
  <2>1. config.script = config.shell
    BY <1>2 DEF ReadsAsTaken
  <2>2. FoundryOut(config.script, told) = FoundryOut(config.shell, taken)
    <3>1. CASE config.shell.out # NoValue
      BY <2>1, <3>1 DEF FoundryOut
    <3>2. CASE config.shell.out = NoValue
      <4>1. /\ config.readable
            /\ \A profile \in {config.shell.profile, "default"} \cap DOMAIN config.toml :
                  config.toml[profile].reads = config.toml[profile].takes
        BY <1>2, <3>2 DEF ReadsAsTaken
      <4>2. /\ DOMAIN told = DOMAIN taken
            /\ \A profile \in {config.shell.profile, "default"} \cap DOMAIN taken :
                  told[profile] = taken[profile]
        BY <4>1
      <4> HIDE DEF told, taken
      <4>3. QED
        BY <2>1, <4>2 DEF FoundryOut
    <3>3. QED
      BY <3>1, <3>2
  <2>3. QED
    BY <1>2, <2>2 DEF ArtifactsDirFor, FromFramework, ReadFoundryOutPath, OutputDir
<1>3. QED
  BY <1>1, <1>2 DEF FRAMEWORKS

-----------------------------------------------------------------------------
(* What is read of the toolchain's output.                                  *)

\* Every artifact that can be read is the compiler's, with no sources or sources that hold its file.
LEMMA ArtifactsRead ==
    ASSUME TypeOK, ProjectInv,
           ~ Failed(ReadArtifacts(project, disk)),
           NEW artifact \in ReadArtifacts(project, disk).artifacts
    PROVE  LET framework == ConfiguredFramework(project)
               dir == disk[ArtifactsDirFor(project, framework)]
           IN  /\ framework \in FRAMEWORKS /\ dir # NoValue
               /\ ArtifactsDirFor(project, framework) \in Directories
               /\ dir \in Outputs
               /\ \E version \in Deployable(dir), build \in Trees \cup {NoValue} :
                     /\ version \in dir.tree /\ version \in DOMAIN Compiled /\ IsDeployable(version)
                     /\ artifact = ToArtifact(version, build)
                     /\ \/ build = NoValue
                        \/ framework = "hardhat" /\ version \in build
                        \/ framework = "foundry" /\ Compiled[version].path \in Paths(build)
<1> DEFINE framework == ConfiguredFramework(project)
           at == ArtifactsDirFor(project, framework)
           dir == disk[at]
<1>1. /\ framework \in FRAMEWORKS /\ dir # NoValue
      /\ ReadArtifacts(project, disk).artifacts = ReadDir(dir, framework)
  BY DEF ReadArtifacts, Failed, Fails
<1>2. at \in Directories
  BY <1>1, ConfiguredDirectories
<1>3. dir \in Outputs
  BY <1>1, <1>2 DEF TypeOK
<1>4. /\ dir.tree \in Trees /\ dir.builds \subseteq Trees
      /\ \A version \in Deployable(dir) :
            version \in dir.tree /\ version \in DOMAIN Compiled /\ IsDeployable(version)
  BY <1>3, SetupsAssumption DEF Outputs, Deployable
<1>5. CASE framework = "hardhat"
  <2>1. PICK version \in Deployable(dir) : artifact = ToArtifact(version, ReadBuildInfo(dir))
    BY <1>1, <1>5 DEF ReadDir, ReadHardhatArtifacts
  <2>2. ReadBuildInfo(dir) \in {NoValue, dir.tree}
    BY DEF ReadBuildInfo
  <2>3. QED
    BY <1>1, <1>2, <1>3, <1>4, <1>5, <2>1, <2>2
<1>6. CASE framework = "foundry"
  <2>1. PICK version \in Deployable(dir) : \E build \in BuildInfoInputFor(dir, version) :
           artifact = ToArtifact(version, build)
    BY <1>1, <1>6 DEF ReadDir, ReadFoundryArtifacts
  <2> PICK build \in BuildInfoInputFor(dir, version) : artifact = ToArtifact(version, build)
    BY <2>1
  <2>2. /\ build \in Trees \cup {NoValue}
        /\ (build = NoValue \/ Compiled[version].path \in Paths(build))
    BY <1>4, <2>1 DEF BuildInfoInputFor
  <2>3. QED
    BY <1>1, <1>2, <1>3, <1>4, <1>6, <2>1, <2>2
<1>7. QED
  BY <1>1, <1>5, <1>6 DEF FRAMEWORKS

\* What a call gets is what is compiled: the generated abi is the artifact's own.
LEMMA ArtifactsResolved ==
    ASSUME TypeOK, ProjectInv, NEW generated,
           ~ Failed(ResolveArtifact(generated, project, disk)),
           NEW artifact \in ResolveArtifact(generated, project, disk).artifacts
    PROVE  /\ ~ Failed(ReadArtifacts(project, disk))
           /\ artifact \in ReadArtifacts(project, disk).artifacts
<1> DEFINE read == ReadArtifacts(project, disk)
           found == {a \in read.artifacts : a.fullyQualifiedName = generated.fullyQualifiedName}
<1>1. /\ ~ Failed(read)
      /\ \A a \in found : AbiMatches(generated.abi, a.abi)
      /\ ResolveArtifact(generated, project, disk).artifacts = {[a EXCEPT !.abi = generated.abi] : a \in found}
  BY DEF ResolveArtifact, Failed, Fails
<1>2. PICK a \in found : artifact = [a EXCEPT !.abi = generated.abi]
  BY <1>1
<1>3. generated.abi = a.abi
  BY <1>1 DEF AbiMatches, DiffAbi
<1>4. PICK version \in DOMAIN Compiled : \E build \in Trees \cup {NoValue} : a = ToArtifact(version, build)
  BY <1>1, ArtifactsRead
<1>5. [a EXCEPT !.abi = a.abi] = a
  BY <1>4 DEF ToArtifact
<1>6. QED
  BY <1>1, <1>2, <1>3, <1>5

-----------------------------------------------------------------------------
(* What a deployment leaves.                                                *)

\* What a record keeps of the arguments.
Kept(args) == [i \in DOMAIN args |-> IF args[i].as = "bigint" THEN [args[i] EXCEPT !.as = "string"] ELSE args[i]]

LEMMA KeptMeansTheSame ==
    ASSUME NEW args \in Seq(ArgValues), NEW inputs, EncodeConstructorArgs(inputs, args) # NoValue
    PROVE  /\ EncodeConstructorArgs(inputs, args) = [i \in DOMAIN args |-> args[i].is]
           /\ DOMAIN Kept(args) = DOMAIN args
           /\ \A i \in DOMAIN args : Encodes(args[i], inputs[i])
           /\ \A i \in DOMAIN args :
                 /\ Kept(args)[i].type = args[i].type /\ Kept(args)[i].is = args[i].is
                 /\ Kept(args)[i] # NoValue /\ Kept(args)[i].as # "mixed"
<1>1. Acceptable(inputs, args)
  BY DEF EncodeConstructorArgs, Acceptable
<1>2. EncodeConstructorArgs(inputs, args) = [i \in DOMAIN args |-> args[i].is]
  BY <1>1, EncodesToMeanings
<1>3. \A i \in DOMAIN args : Encodes(args[i], inputs[i])
  BY <1>1 DEF Acceptable
<1>4. ASSUME NEW i \in DOMAIN args
      PROVE  /\ Kept(args)[i].type = args[i].type /\ Kept(args)[i].is = args[i].is
             /\ Kept(args)[i] # NoValue /\ Kept(args)[i].as # "mixed"
  <2>1. /\ args[i] \in [type : {args[i].type}, is : {args[i].is}, as : {args[i].as}]
        /\ args[i] # NoValue /\ [args[i] EXCEPT !.as = "string"] # NoValue
    BY ArgValuesAssumption
  <2>2. args[i].as # "mixed"
    BY <1>3 DEF Encodes
  <2>3. Kept(args)[i] = IF args[i].as = "bigint" THEN [args[i] EXCEPT !.as = "string"] ELSE args[i]
    BY DEF Kept
  <2>4. CASE args[i].as = "bigint"
    BY <2>1, <2>3, <2>4
  <2>5. CASE args[i].as # "bigint"
    BY <2>1, <2>2, <2>3, <2>5
  <2>6. QED
    BY <2>4, <2>5
<1>5. QED
  BY <1>2, <1>3, <1>4 DEF Kept

LEMMA RecordTellsDeployment ==
    ASSUME NEW version \in {v \in DOMAIN Compiled : IsDeployable(v)}, NEW build, NEW by,
           \/ build = NoValue
           \/ by = "hardhat" /\ version \in build
           \/ by = "foundry" /\ Compiled[version].path \in Paths(build),
           NEW args \in Seq(ArgValues), NEW libraries, IsLibraries(libraries),
           EncodeConstructorArgs(Compiled[version].inputs, args) # NoValue
    PROVE  LET r == RecordOf(ToArtifact(version, build), args, libraries)
               deployed == [version |-> version, args |-> args, libraries |-> libraries, by |-> by]
           IN  RecordOfDeployment(r, deployed) /\ DescribesCode(r, deployed)
<1> DEFINE artifact == ToArtifact(version, build)
           r == RecordOf(artifact, args, libraries)
           run == Compiled[version].creation.run
           means == [i \in DOMAIN args |-> args[i].is]
<1>1. /\ artifact.creation = Compiled[version].creation /\ artifact.inputs = Compiled[version].inputs
      /\ artifact.abi = Compiled[version].abi /\ artifact.sources = build
  BY DEF ToArtifact
<1>2. ComputeIdentity(artifact, args, libraries) =
         [codeHash |-> CodeHash(run), identityHash |-> <<StripMetadata(run), means, libraries>>]
  BY <1>1, KeptMeansTheSame DEF ComputeIdentity
<1>3. /\ r.abi = artifact.abi /\ r.creation = artifact.creation /\ r.libraries = libraries
      /\ r.args = Kept(args) /\ r.sources.sources = build
  BY <1>1 DEF RecordOf, PinSources, Kept
<1>4. /\ r.codeHash \in {NoValue, CodeHash(run)}
      /\ r.identityHash \in {NoValue, <<StripMetadata(run), means, libraries>>}
  BY <1>2 DEF RecordOf
<1> HIDE DEF artifact, r
<1>5. RecordOfDeployment(r, [version |-> version, args |-> args, libraries |-> libraries, by |-> by])
  BY <1>1, <1>3, <1>4, KeptMeansTheSame DEF RecordOfDeployment
<1>6. DescribesCode(r, [version |-> version, args |-> args, libraries |-> libraries, by |-> by])
  BY <1>1, <1>3 DEF DescribesCode
<1>7. QED
  BY <1>5, <1>6 DEF r, artifact

-----------------------------------------------------------------------------
(* What has changed.                                                        *)

IsCode(code) == code \in [body : {code.body}, holes : {code.holes}, inner : {code.inner}, tail : {code.tail}]

IsCreation(creation) == creation \in [ctor : {creation.ctor}, run : {creation.run}] /\ IsCode(creation.run)

\* Without its metadata a code is what is executed and the metadata in the middle of it.
LEMMA StrippedTells ==
    ASSUME NEW c, IsCode(c), NEW d, IsCode(d)
    PROVE  StripMetadata(c) = StripMetadata(d) <=> Executed(c) = Executed(d) /\ c.inner = d.inner
<1> DEFINE ending(e) == IF e.tail # NoValue /\ ~ e.tail.cbor THEN e.tail ELSE NoValue
           stripped(e) == [body |-> e.body, holes |-> e.holes, inner |-> e.inner, tail |-> ending(e)]
<1>1. ASSUME NEW e, IsCode(e) PROVE StripMetadata(e) = stripped(e)
  <2>1. e = [body |-> e.body, holes |-> e.holes, inner |-> e.inner, tail |-> e.tail]
    BY <1>1 DEF IsCode
  <2>2. CASE e.tail # NoValue /\ e.tail.cbor
    BY <2>1, <2>2 DEF StripMetadata
  <2>3. CASE ~ (e.tail # NoValue /\ e.tail.cbor)
    BY <2>1, <2>3 DEF StripMetadata
  <2>4. QED
    BY <2>2, <2>3
<1>2. StripMetadata(c) = StripMetadata(d) <=> stripped(c) = stripped(d)
  BY <1>1
<1>3. stripped(c) = stripped(d) <=>
         c.body = d.body /\ c.holes = d.holes /\ c.inner = d.inner /\ ending(c) = ending(d)
  OBVIOUS
<1>4. QED
  BY <1>2, <1>3 DEF Executed

LEMMA CreationTells ==
    ASSUME NEW x, IsCreation(x), NEW y, IsCreation(y)
    PROVE  StripCreation(x) = StripCreation(y) <=>
              x.ctor = y.ctor /\ StripMetadata(x.run) = StripMetadata(y.run)
<1>1. ASSUME NEW z, IsCreation(z) PROVE StripCreation(z) = [ctor |-> z.ctor, run |-> StripMetadata(z.run)]
  <2>1. z = [ctor |-> z.ctor, run |-> z.run]
    BY <1>1 DEF IsCreation
  <2>2. QED
    BY <2>1 DEF StripCreation
<1>2. QED
  BY <1>1

\* Code that is compared is told apart by what is executed, by the metadata in the middle of it or,
\* where there is no hash, by the constructor.
LEMMA CodeTells ==
    ASSUME NEW r, NEW artifact, IsCreation(r.creation), IsCreation(artifact.creation),
           r.codeHash \in {NoValue, CodeHash(r.creation.run)}
    PROVE  LET was == r.creation
               now == artifact.creation
           IN  /\ ~ CodeChanged(r, artifact) =>
                     StripMetadata(was.run) = StripMetadata(now.run)
               /\ CodeChanged(r, artifact) =>
                     \/ StripMetadata(was.run) # StripMetadata(now.run)
                     \/ was.ctor # now.ctor
<1> DEFINE was == r.creation
           now == artifact.creation
           hash == CodeHash(now.run)
<1>1. CASE r.codeHash # NoValue /\ hash # NoValue
  <2>1. r.codeHash = StripMetadata(was.run) /\ hash = StripMetadata(now.run)
    BY <1>1 DEF CodeHash
  <2>2. CodeChanged(r, artifact) <=> r.codeHash # hash
    BY <1>1 DEF CodeChanged
  <2>3. QED
    BY <2>1, <2>2
<1>2. CASE ~ (r.codeHash # NoValue /\ hash # NoValue)
  <2>1. CodeChanged(r, artifact) <=> StripCreation(was) # StripCreation(now)
    BY <1>2 DEF CodeChanged
  <2>2. QED
    BY <2>1, CreationTells
<1>3. QED
  BY <1>1, <1>2

Meaning(list) == [i \in DOMAIN list |-> <<list[i].type, list[i].is>>]

\* What arguments encode to tells what they mean.
LEMMA EncodingTells ==
    ASSUME NEW from \in Seq(ArgValues), NEW to \in Seq(ArgValues)
    PROVE  [i \in DOMAIN from |-> from[i].is] = [i \in DOMAIN to |-> to[i].is]
              <=> Meaning(from) = Meaning(to)
<1>1. \A i \in DOMAIN from, j \in DOMAIN to : from[i].is = to[j].is => from[i].type = to[j].type
  BY ArgValuesAssumption
<1>2. /\ DOMAIN [i \in DOMAIN from |-> from[i].is] = DOMAIN from
      /\ DOMAIN [i \in DOMAIN to |-> to[i].is] = DOMAIN to
      /\ DOMAIN Meaning(from) = DOMAIN from /\ DOMAIN Meaning(to) = DOMAIN to
  BY DEF Meaning
<1>3. CASE DOMAIN from = DOMAIN to
  <2>1. [i \in DOMAIN from |-> from[i].is] = [i \in DOMAIN to |-> to[i].is]
           <=> \A i \in DOMAIN from : from[i].is = to[i].is
    BY <1>3
  <2>2. Meaning(from) = Meaning(to) <=>
           \A i \in DOMAIN from : from[i].type = to[i].type /\ from[i].is = to[i].is
    BY <1>3 DEF Meaning
  <2>3. QED
    BY <1>1, <1>3, <2>1, <2>2
<1>4. CASE DOMAIN from # DOMAIN to
  BY <1>2, <1>4
<1>5. QED
  BY <1>3, <1>4

\* Arguments as the diff compares them: what was recorded means what was passed.
LEMMA DiffTells ==
    ASSUME NEW was \in Seq(ArgValues), NEW to \in Seq(ArgValues), NEW from, NEW inputs,
           DOMAIN from = DOMAIN was,
           \A i \in DOMAIN was : /\ from[i].type = was[i].type /\ from[i].is = was[i].is
                                 /\ from[i] # NoValue /\ from[i].as # "mixed"
    PROVE  /\ ChangedIndices(inputs, from, to) = {} => Meaning(was) = Meaning(to)
           /\ EncodeConstructorArgs(inputs, to) # NoValue /\ Meaning(was) = Meaning(to) =>
                 ChangedIndices(inputs, from, to) = {}
<1>1. ASSUME ChangedIndices(inputs, from, to) = {} PROVE Meaning(was) = Meaning(to)
  <2>1. \A i \in DOMAIN from \cup DOMAIN to : ArgsMatch(At(from, i), At(to, i), At(inputs, i))
    BY <1>1 DEF ChangedIndices
  <2>2. \A i \in DOMAIN to : to[i] # NoValue
    BY ArgValuesAssumption
  <2>3. ASSUME NEW i \in DOMAIN from \cup DOMAIN to
        PROVE  i \in DOMAIN from /\ i \in DOMAIN to /\ from[i].is = to[i].is
    <3>1. CASE BothEncode(At(from, i), At(to, i), At(inputs, i))
      <4>1. At(from, i) # NoValue /\ At(to, i) # NoValue /\ At(from, i).is = At(to, i).is
        BY <2>1, <3>1 DEF BothEncode, Encodes, ArgsMatch
      <4>2. QED
        BY <4>1 DEF At
    <3>2. CASE ~ BothEncode(At(from, i), At(to, i), At(inputs, i))
      <4>1. JsonKey(At(from, i)) = JsonKey(At(to, i))
        BY <2>1, <3>2 DEF ArgsMatch
      <4>2. JsonKey(NoValue) = <<NoValue>>
        BY DEF JsonKey
      <4>3. ASSUME NEW v, v # NoValue
            PROVE  \E form : JsonKey(v) = <<v.is, form>>
        BY <4>3 DEF JsonKey, TextKey
      <4>4. At(from, i) # NoValue /\ At(to, i) # NoValue
        <5>1. At(from, i) # NoValue <=> i \in DOMAIN from
          BY DEF At
        <5>2. At(to, i) # NoValue <=> i \in DOMAIN to
          BY <2>2 DEF At
        <5>3. ASSUME NEW v, v # NoValue PROVE JsonKey(v) # <<NoValue>>
          <6>1. PICK form : JsonKey(v) = <<v.is, form>>
            BY <4>3, <5>3
          <6>2. Len(<<v.is, form>>) = 2 /\ Len(<<NoValue>>) = 1
            OBVIOUS
          <6>3. QED
            BY <6>1, <6>2
        <5>4. QED
          BY <4>1, <4>2, <5>1, <5>2, <5>3
      <4>5. At(from, i).is = At(to, i).is
        BY <4>1, <4>3, <4>4
      <4>6. QED
        BY <4>4, <4>5 DEF At
    <3>3. QED
      BY <3>1, <3>2
  <2>4. DOMAIN was = DOMAIN to /\ \A i \in DOMAIN was : was[i].is = to[i].is
    BY <2>3
  <2>5. [i \in DOMAIN was |-> was[i].is] = [i \in DOMAIN to |-> to[i].is]
    BY <2>4
  <2>6. QED
    BY <2>5, EncodingTells
<1>2. ASSUME EncodeConstructorArgs(inputs, to) # NoValue, Meaning(was) = Meaning(to)
      PROVE  ChangedIndices(inputs, from, to) = {}
  <2>1. /\ DOMAIN was = DOMAIN to
        /\ \A i \in DOMAIN was : was[i].type = to[i].type /\ was[i].is = to[i].is
    BY <1>2 DEF Meaning
  <2>2. Acceptable(inputs, to)
    BY <1>2 DEF EncodeConstructorArgs, Acceptable
  <2>3. ASSUME NEW i \in DOMAIN to PROVE ArgsMatch(At(from, i), At(to, i), At(inputs, i))
    <3>1. Encodes(to[i], inputs[i])
      BY <2>2, <2>3 DEF Acceptable
    <3>2. to[i].type # NoValue
      BY ArgValuesAssumption
    <3>3. At(from, i) = from[i] /\ At(to, i) = to[i] /\ At(inputs, i) \in {NoValue, inputs[i]}
      BY <2>1 DEF At
    <3>4. from[i].is = to[i].is /\ Encodes(from[i], inputs[i])
      BY <2>1, <3>1 DEF Encodes
    <3>5. At(inputs, i) = inputs[i] /\ inputs[i] # NoValue
      BY <2>2, <3>1, <3>2 DEF At, Encodes, Acceptable
    <3>6. QED
      BY <3>1, <3>3, <3>4, <3>5 DEF ArgsMatch, BothEncode
  <2>4. QED
    BY <2>1, <2>3 DEF ChangedIndices
<1>3. QED
  BY <1>1, <1>2

-----------------------------------------------------------------------------
(* What a call decides.                                                     *)

\* A version that can be deployed has code of the shape Identity takes it for.
LEMMA CompiledIsCode ==
    ASSUME NEW version \in {v \in DOMAIN Compiled : IsDeployable(v)}
    PROVE  IsCreation(Compiled[version].creation)
BY CompiledAssumption DEF IsCreation, IsCode

\* The parts of a record that decide, for an artifact of the compiler's.
LEMMA RecordFacts ==
    ASSUME NEW r, NEW deployed, RecordOfDeployment(r, deployed)
    PROVE  /\ r.creation = Compiled[deployed.version].creation /\ IsCreation(r.creation)
           /\ IsCode(r.creation.run)
           /\ r.codeHash \in {NoValue, CodeHash(r.creation.run)}
           /\ r.identityHash # NoValue =>
                 r.identityHash = <<StripMetadata(r.creation.run),
                                    [i \in DOMAIN deployed.args |-> deployed.args[i].is],
                                    deployed.libraries>>
           /\ r.libraries = deployed.libraries /\ IsLibraries(deployed.libraries)
           /\ deployed.args \in Seq(ArgValues)
           /\ DOMAIN r.args = DOMAIN deployed.args
           /\ \A i \in DOMAIN deployed.args :
                 /\ r.args[i].type = deployed.args[i].type /\ r.args[i].is = deployed.args[i].is
                 /\ r.args[i] # NoValue /\ r.args[i].as # "mixed"
<1>1. r.creation = Compiled[deployed.version].creation
  BY DEF RecordOfDeployment
<1>2. IsCreation(r.creation)
  BY <1>1, CompiledIsCode DEF RecordOfDeployment
<1>3. QED
  BY <1>1, <1>2 DEF RecordOfDeployment, IsCreation

\* The differences there are between a deployment and what is asked for.
LEMMA DriftTells ==
    ASSUME NEW r, NEW deployed, RecordOfDeployment(r, deployed),
           NEW artifact, NEW args, NEW libraries
    PROVE  LET drift == Drift(deployed, artifact, args, libraries)
           IN  /\ "code" \in drift <=> Executed(r.creation.run) # Executed(artifact.creation.run)
               /\ "child" \in drift <=> r.creation.run.inner # artifact.creation.run.inner
               /\ "constructor" \in drift <=> r.creation.ctor # artifact.creation.ctor
               /\ "args" \in drift <=> Meaning(deployed.args) # Meaning(args)
               /\ "libraries" \in drift <=> r.libraries # libraries
BY RecordFacts DEF Drift, Meaning

\* Under on-change, what is reused is what is asked for.
LEMMA ReuseTells ==
    ASSUME NEW r, NEW deployed, RecordOfDeployment(r, deployed),
           NEW artifact, IsCreation(artifact.creation),
           NEW args \in Seq(ArgValues), NEW libraries, IsLibraries(libraries),
           ~ IdentityChanged(r, artifact, args, libraries)
    PROVE  Drift(deployed, artifact, args, libraries) \cap Semantic = {}
<1>1. IsCode(artifact.creation.run)
  BY DEF IsCreation
<1>2. /\ StripMetadata(r.creation.run) = StripMetadata(artifact.creation.run)
      /\ Meaning(deployed.args) = Meaning(args)
      /\ r.libraries = libraries
  <2>1. CASE r.identityHash # NoValue /\ ComputeIdentity(artifact, args, libraries) # NoValue
    <3>1. ComputeIdentity(artifact, args, libraries).identityHash = r.identityHash
      BY <2>1 DEF IdentityChanged
    <3>2. /\ EncodeConstructorArgs(artifact.inputs, args) # NoValue
          /\ ComputeIdentity(artifact, args, libraries).identityHash =
                <<StripMetadata(artifact.creation.run), EncodeConstructorArgs(artifact.inputs, args),
                  libraries>>
      BY <2>1 DEF ComputeIdentity
    <3>3. EncodeConstructorArgs(artifact.inputs, args) = [i \in DOMAIN args |-> args[i].is]
      BY <3>2, KeptMeansTheSame
    <3>4. /\ StripMetadata(r.creation.run) = StripMetadata(artifact.creation.run)
          /\ [i \in DOMAIN deployed.args |-> deployed.args[i].is] = [i \in DOMAIN args |-> args[i].is]
          /\ r.libraries = libraries
      <4>1. /\ r.identityHash = <<StripMetadata(r.creation.run),
                                 [i \in DOMAIN deployed.args |-> deployed.args[i].is],
                                 deployed.libraries>>
            /\ r.libraries = deployed.libraries
        BY <2>1, RecordFacts
      <4> DEFINE means == [i \in DOMAIN deployed.args |-> deployed.args[i].is]
                 encoded == EncodeConstructorArgs(artifact.inputs, args)
      <4>2. <<StripMetadata(r.creation.run), means, r.libraries>>
               = <<StripMetadata(artifact.creation.run), encoded, libraries>>
        BY <3>1, <3>2, <4>1
      <4> HIDE DEF means, encoded
      <4>3. /\ StripMetadata(r.creation.run) = StripMetadata(artifact.creation.run)
            /\ means = encoded /\ r.libraries = libraries
        BY <4>2
      <4>4. QED
        BY <3>3, <4>3 DEF means, encoded
    <3>5. QED
      BY <3>4, RecordFacts, EncodingTells
  <2>2. CASE ~ (r.identityHash # NoValue /\ ComputeIdentity(artifact, args, libraries) # NoValue)
    <3>1. IsEmptyDiff(DiffIdentity(r, artifact, args, libraries))
      BY <2>2 DEF IdentityChanged
    <3>2. /\ ~ CodeChanged(r, artifact)
          /\ LibraryChanges(r.libraries, libraries) = {}
          /\ ChangedIndices(artifact.inputs, r.args, args) = {}
      BY <3>1 DEF IsEmptyDiff, DiffIdentity
    <3>3. StripMetadata(r.creation.run) = StripMetadata(artifact.creation.run)
      BY <3>2, CodeTells, RecordFacts
    <3>4. r.libraries = libraries
      BY <3>2, LibrariesAgree, RecordFacts DEF IsLibraries
    <3>5. Meaning(deployed.args) = Meaning(args)
      <4>1. /\ deployed.args \in Seq(ArgValues) /\ DOMAIN r.args = DOMAIN deployed.args
            /\ \A i \in DOMAIN deployed.args :
                  /\ r.args[i].type = deployed.args[i].type /\ r.args[i].is = deployed.args[i].is
                  /\ r.args[i] # NoValue /\ r.args[i].as # "mixed"
        BY RecordFacts
      <4>2. QED
        BY <3>2, <4>1, DiffTells
    <3>6. QED
      BY <3>3, <3>4, <3>5
  <2>3. QED
    BY <2>1, <2>2
<1>3. Executed(r.creation.run) = Executed(artifact.creation.run)
  BY <1>1, <1>2, RecordFacts, StrippedTells
<1>4. QED
  BY <1>2, <1>3, DriftTells DEF Semantic

\* Under on-change, what is replaced has changed.
LEMMA ReplaceTells ==
    ASSUME NEW r, NEW deployed, RecordOfDeployment(r, deployed),
           NEW artifact, IsCreation(artifact.creation),
           NEW args \in Seq(ArgValues), NEW libraries, IsLibraries(libraries),
           EncodeConstructorArgs(artifact.inputs, args) # NoValue,
           ComputeIdentity(artifact, args, libraries) # NoValue,
           IdentityChanged(r, artifact, args, libraries),
           NEW drift, drift = Drift(deployed, artifact, args, libraries)
    PROVE  \/ drift \cap (Semantic \cup {"child"}) # {}
           \/ r.identityHash = NoValue /\ "constructor" \in drift
<1>1. IsCode(artifact.creation.run)
  BY DEF IsCreation
<1>2. /\ r.libraries # libraries => "libraries" \in drift
      /\ Meaning(deployed.args) # Meaning(args) => "args" \in drift
      /\ r.creation.ctor # artifact.creation.ctor => "constructor" \in drift
  BY DriftTells
<1>3. StripMetadata(r.creation.run) # StripMetadata(artifact.creation.run) =>
         "code" \in drift \/ "child" \in drift
  <2>1. IsCode(r.creation.run)
    BY RecordFacts
  <2>2. /\ "code" \in drift <=> Executed(r.creation.run) # Executed(artifact.creation.run)
        /\ "child" \in drift <=> r.creation.run.inner # artifact.creation.run.inner
    BY DriftTells
  <2>3. QED
    BY <1>1, <2>1, <2>2, StrippedTells
<1>4. CASE r.identityHash # NoValue
  <2>1. ComputeIdentity(artifact, args, libraries).identityHash # r.identityHash
    BY <1>4 DEF IdentityChanged
  <2>2. ComputeIdentity(artifact, args, libraries).identityHash =
           <<StripMetadata(artifact.creation.run), [i \in DOMAIN args |-> args[i].is], libraries>>
    BY KeptMeansTheSame DEF ComputeIdentity
  <2>3. \/ StripMetadata(r.creation.run) # StripMetadata(artifact.creation.run)
        \/ [i \in DOMAIN deployed.args |-> deployed.args[i].is] # [i \in DOMAIN args |-> args[i].is]
        \/ r.libraries # libraries
    BY <1>4, <2>1, <2>2, RecordFacts
  <2>4. \/ StripMetadata(r.creation.run) # StripMetadata(artifact.creation.run)
        \/ Meaning(deployed.args) # Meaning(args)
        \/ r.libraries # libraries
    BY <2>3, RecordFacts, EncodingTells
  <2>5. QED
    BY <1>2, <1>3, <2>4 DEF Semantic
<1>5. CASE r.identityHash = NoValue
  <2>1. ~ IsEmptyDiff(DiffIdentity(r, artifact, args, libraries))
    BY <1>5 DEF IdentityChanged
  <2>2. \/ CodeChanged(r, artifact)
        \/ LibraryChanges(r.libraries, libraries) # {}
        \/ ChangedIndices(artifact.inputs, r.args, args) # {}
    BY <2>1 DEF IsEmptyDiff, DiffIdentity
  <2>3. CASE CodeChanged(r, artifact)
    <3>1. \/ StripMetadata(r.creation.run) # StripMetadata(artifact.creation.run)
          \/ r.creation.ctor # artifact.creation.ctor
      BY <2>3, CodeTells, RecordFacts
    <3>2. QED
      BY <1>2, <1>3, <1>5, <3>1 DEF Semantic
  <2>4. CASE LibraryChanges(r.libraries, libraries) # {}
    <3>1. r.libraries # libraries
      BY <2>4, LibrariesAgree, RecordFacts DEF IsLibraries
    <3>2. QED
      BY <1>2, <3>1 DEF Semantic
  <2>5. CASE ChangedIndices(artifact.inputs, r.args, args) # {}
    <3>1. Meaning(deployed.args) # Meaning(args)
      <4>1. /\ deployed.args \in Seq(ArgValues) /\ DOMAIN r.args = DOMAIN deployed.args
            /\ \A i \in DOMAIN deployed.args :
                  /\ r.args[i].type = deployed.args[i].type /\ r.args[i].is = deployed.args[i].is
                  /\ r.args[i] # NoValue /\ r.args[i].as # "mixed"
        BY RecordFacts
      <4>2. QED
        BY <2>5, <4>1, DiffTells
    <3>2. QED
      BY <1>2, <3>1 DEF Semantic
  <2>6. QED
    BY <2>2, <2>3, <2>4, <2>5
<1>6. QED
  BY <1>4, <1>5

\* Under never, what is reused without a warning differs at most in its libraries and in how its
\* arguments are written.
LEMMA WarningTells ==
    ASSUME NEW r, NEW deployed, RecordOfDeployment(r, deployed),
           NEW artifact, NEW args \in Seq(ArgValues), NEW libraries,
           WarnIfStale(r, artifact, args) = {}
    PROVE  Drift(deployed, artifact, args, libraries) \subseteq {"libraries", "form"}
<1>1. /\ r.creation = artifact.creation
      /\ [i \in DOMAIN r.args |-> TextKey(r.args[i])] = [i \in DOMAIN args |-> TextKey(args[i])]
  BY DEF WarnIfStale
<1>2. DOMAIN r.args = DOMAIN args /\ \A i \in DOMAIN args : TextKey(r.args[i]) = TextKey(args[i])
  BY <1>1
<1>3. DOMAIN r.args = DOMAIN args /\ \A i \in DOMAIN args : r.args[i].is = args[i].is
  BY <1>2 DEF TextKey
<1>4. DOMAIN deployed.args = DOMAIN args /\ \A i \in DOMAIN args : deployed.args[i].is = args[i].is
  <2>1. /\ DOMAIN r.args = DOMAIN deployed.args
        /\ \A i \in DOMAIN deployed.args :
              /\ r.args[i].type = deployed.args[i].type /\ r.args[i].is = deployed.args[i].is
              /\ r.args[i] # NoValue /\ r.args[i].as # "mixed"
    BY RecordFacts
  <2>2. QED
    BY <1>3, <2>1
<1>5. [i \in DOMAIN deployed.args |-> deployed.args[i].is] = [i \in DOMAIN args |-> args[i].is]
  BY <1>4
<1>6. Meaning(deployed.args) = Meaning(args)
  BY <1>5, RecordFacts, EncodingTells
<1>7. r.creation = Compiled[deployed.version].creation
  BY RecordFacts
<1>8. QED
  BY <1>1, <1>6, <1>7 DEF Drift, Meaning

-----------------------------------------------------------------------------
(* The invariant holds.                                                     *)

LEMMA WInvInit == Init => WInv
<1> SUFFICES ASSUME Init PROVE WInv
  OBVIOUS
<1>1. PICK setup \in Setups :
         /\ project = setup.project /\ tree = setup.tree
         /\ live = IF setup.old = NoValue THEN NoValue ELSE setup.old.live
         /\ record = IF setup.old = NoValue THEN NoValue ELSE setup.old.record
  BY DEF Init
<1>2. /\ setup.tree \in Trees
      /\ MaxEdits \in Nat /\ MaxConfigs \in Nat /\ MaxCompiles \in Nat /\ MaxCalls \in Nat
      /\ setup.old # NoValue =>
            /\ setup.old.record # NoValue /\ setup.old.live # NoValue
            /\ RecordOfDeployment(setup.old.record, setup.old.live)
            /\ DescribesCode(setup.old.record, setup.old.live)
  BY SetupsAssumption
<1>3. TypeOK
  BY <1>1, <1>2, EmptySeq DEF Init, TypeOK, Idle
<1>4. ProjectInv
  BY <1>1 DEF ProjectInv
<1>5. BuildInv /\ IndexInv /\ FilesInv /\ IndexLoads
  BY DEF Init, BuildInv, IndexInv, FilesInv, IndexLoads, Idle
<1>6. RecordInv
  BY <1>1, <1>2 DEF RecordInv
<1>7. QED
  BY <1>3, <1>4, <1>5, <1>6 DEF WInv

LEMMA StutterKeepsWInv == WInv /\ UNCHANGED vars => WInv'
<1> SUFFICES ASSUME WInv, UNCHANGED vars PROVE WInv'
  OBVIOUS
<1> USE DEF vars
<1>1. TypeOK'
  BY DEF WInv, TypeOK
<1>2. ProjectInv'
  BY DEF WInv, ProjectInv
<1>3. BuildInv'
  BY DEF WInv, BuildInv
<1>4. IndexInv'
  BY DEF WInv, IndexInv, Ahead
<1>5. FilesInv' /\ IndexLoads'
  BY DEF WInv, FilesInv, IndexLoads, Loads
<1>6. RecordInv'
  BY DEF WInv, RecordInv
<1>7. QED
  BY <1>1, <1>2, <1>3, <1>4, <1>5, <1>6 DEF WInv

LEMMA EditKeepsWInv == WInv /\ Edit => WInv'
<1> SUFFICES ASSUME WInv, Edit PROVE WInv'
  OBVIOUS
<1>1. tree' \in Trees
  BY ProjectFacts DEF Edit, WInv
<1>2. TypeOK'
  <2>1. steps'.edits \in 0..MaxEdits /\ steps' \in [edits : 0..MaxEdits, configs : 0..MaxConfigs, compiles : 0..MaxCompiles,
                    calls : 0..MaxCalls]
    BY SetupsAssumption DEF Edit, WInv, TypeOK
  <2>2. QED
    BY <1>1, <2>1 DEF Edit, WInv, TypeOK
<1>3. ProjectInv' /\ BuildInv'
  BY DEF Edit, WInv, ProjectInv, BuildInv
<1>4. IndexInv' /\ FilesInv' /\ IndexLoads'
  BY DEF Edit, WInv, IndexInv, Ahead, FilesInv, IndexLoads, Loads
<1>5. RecordInv'
  BY DEF Edit, WInv, RecordInv
<1>6. QED
  BY <1>2, <1>3, <1>4, <1>5 DEF WInv

LEMMA ReconfigureKeepsWInv == WInv /\ Reconfigure => WInv'
<1> SUFFICES ASSUME WInv, Reconfigure PROVE WInv'
  OBVIOUS
<1>1. TypeOK'
  <2>1. steps' \in [edits : 0..MaxEdits, configs : 0..MaxConfigs, compiles : 0..MaxCompiles,
                    calls : 0..MaxCalls]
    BY SetupsAssumption DEF Reconfigure, WInv, TypeOK
  <2>2. QED
    BY <2>1 DEF Reconfigure, WInv, TypeOK
<1>2. PICK config \in project.configs : project' = [project EXCEPT !.config = config]
  BY DEF Reconfigure
<1>3. ProjectFields \subseteq DOMAIN project
  BY ProjectFacts DEF WInv
<1>4. ProjectInv'
  <2>1. PICK setup \in Setups :
           \/ project = setup.project
           \/ \E old \in setup.project.configs : project = [setup.project EXCEPT !.config = old]
    BY DEF WInv, ProjectInv
  <2>2. ProjectFields \subseteq DOMAIN setup.project
    BY SetupsAssumption
  <2>3. project.configs = setup.project.configs
    BY <2>1, <2>2 DEF ProjectFields
  <2>4. project' = [setup.project EXCEPT !.config = config]
    BY <1>2, <2>1
  <2>5. QED
    BY <2>3, <2>4 DEF ProjectInv
<1>5. BuildInv'
  <2>1. project'.markers = project.markers
    BY <1>2, <1>3 DEF ProjectFields
  <2>2. QED
    BY <2>1 DEF Reconfigure, WInv, BuildInv
<1>6. IndexInv' /\ FilesInv' /\ IndexLoads'
  BY DEF Reconfigure, WInv, IndexInv, Ahead, FilesInv, IndexLoads, Loads
<1>7. RecordInv'
  BY DEF Reconfigure, WInv, RecordInv
<1>8. QED
  BY <1>1, <1>4, <1>5, <1>6, <1>7 DEF WInv

LEMMA CompileKeepsWInv ==
    ASSUME WInv, NEW framework \in FRAMEWORKS, Compile(framework)
    PROVE  WInv'
<1> DEFINE dir == OutputDir(project, framework)
           old == IF disk[dir] = NoValue THEN {} ELSE disk[dir].builds
<1>1. PICK builds \in IF framework = "hardhat" THEN {{}, {tree}} ELSE {{}, {tree}, old \cup {tree}} :
         disk' = [disk EXCEPT ![dir] = [tree |-> tree, builds |-> builds, by |-> framework]]
  BY DEF Compile
<1>2. dir \in Directories
  BY ConfiguredDirectories DEF WInv
<1>3. old \subseteq Trees
  BY <1>2 DEF WInv, TypeOK, Outputs
<1>4. [tree |-> tree, builds |-> builds, by |-> framework] \in Outputs
  BY <1>1, <1>3 DEF WInv, TypeOK, Outputs
<1>5. built' = [tree |-> tree, by |-> framework, at |-> dir] /\ built' \in Builds
  BY <1>2 DEF Compile, WInv, TypeOK, Builds
<1>6. gen' \in [due : BOOLEAN, todo : Seq(Writes)] /\ gen'.todo = <<>>
  BY EmptySeq DEF Compile, Idle
<1>7. TypeOK'
  <2>1. steps' \in [edits : 0..MaxEdits, configs : 0..MaxConfigs, compiles : 0..MaxCompiles,
                    calls : 0..MaxCalls]
    BY SetupsAssumption DEF Compile, WInv, TypeOK
  <2>2. disk' \in [Directories -> {NoValue} \cup Outputs]
    BY <1>1, <1>2, <1>4 DEF WInv, TypeOK
  <2>3. QED
    BY <1>5, <1>6, <2>1, <2>2 DEF Compile, WInv, TypeOK
<1>8. ProjectInv'
  BY DEF Compile, WInv, ProjectInv
<1>9. BuildInv'
  <2>1. project' = project /\ framework \in project.markers
    BY DEF Compile
  <2>2. disk'[dir] = [tree |-> tree, builds |-> builds, by |-> framework]
    BY <1>1, <1>2 DEF WInv, TypeOK
  <2>3. built'.tree = tree /\ built'.by = framework /\ built'.at = dir
    BY <1>5
  <2>4. disk'[built'.at].tree = built'.tree
    BY <2>2, <2>3
  <2>5. QED
    BY <1>5, <2>1, <2>3, <2>4 DEF BuildInv
<1>10. IndexInv'
  BY <1>6 DEF IndexInv
<1>11. FilesInv' /\ IndexLoads'
  BY DEF Compile, WInv, FilesInv, IndexLoads, Loads
<1>12. RecordInv'
  BY DEF Compile, WInv, RecordInv
<1>13. QED
  BY <1>7, <1>8, <1>9, <1>10, <1>11, <1>12 DEF WInv

\* There are as many modules as contracts compiled, at most.
LEMMA ModulesAreMany ==
    ASSUME TypeOK, ProjectInv, ~ Failed(ReadArtifacts(project, disk)),
           NEW kept \in SUBSET ReadArtifacts(project, disk).artifacts
    PROVE  /\ Cardinality(Modules(kept)) \in Nat
           /\ \A module \in Modules(kept) :
                 module \in [name : Names, fullyQualifiedName : {a.fullyQualifiedName : a \in Artifacts},
                             abi : Abis]
<1> DEFINE framework == ConfiguredFramework(project)
           dir == disk[ArtifactsDirFor(project, framework)]
           of(version) == [name |-> Compiled[version].name,
                           fullyQualifiedName |-> <<Compiled[version].path, Compiled[version].name>>,
                           abi |-> Compiled[version].abi]
           f == [version \in dir.tree |-> of(version)]
           all == {of(version) : version \in dir.tree}
<1>1. ASSUME NEW a \in kept
      PROVE  \E version \in dir.tree :
                /\ version \in DOMAIN Compiled /\ IsDeployable(version)
                /\ [name |-> a.name, fullyQualifiedName |-> a.fullyQualifiedName, abi |-> a.abi] = of(version)
                /\ dir \in Outputs
  <2>1. PICK version \in Deployable(dir) : \E build \in Trees \cup {NoValue} :
           /\ version \in dir.tree /\ version \in DOMAIN Compiled /\ IsDeployable(version)
           /\ a = ToArtifact(version, build) /\ dir \in Outputs
    BY <1>1, ArtifactsRead
  <2>2. [name |-> a.name, fullyQualifiedName |-> a.fullyQualifiedName, abi |-> a.abi] = of(version)
    BY <2>1 DEF ToArtifact
  <2>3. QED
    BY <2>1, <2>2
<1>2. ASSUME NEW module \in Modules(kept)
      PROVE  module \in all /\ dir \in Outputs
             /\ \E version \in {v \in DOMAIN Compiled : IsDeployable(v)} : module = of(version)
  <2>1. PICK a \in kept :
           module = [name |-> a.name, fullyQualifiedName |-> a.fullyQualifiedName, abi |-> a.abi]
    BY <1>2 DEF Modules
  <2>2. PICK version \in dir.tree :
           /\ version \in DOMAIN Compiled /\ IsDeployable(version)
           /\ [name |-> a.name, fullyQualifiedName |-> a.fullyQualifiedName, abi |-> a.abi] = of(version)
           /\ dir \in Outputs
    BY <1>1
  <2> HIDE DEF of, dir
  <2>3. QED
    BY <2>1, <2>2
<1>3. ASSUME NEW version \in {v \in DOMAIN Compiled : IsDeployable(v)}
      PROVE  of(version) \in [name : Names, abi : Abis,
                              fullyQualifiedName : {a.fullyQualifiedName : a \in Artifacts}]
  <2> DEFINE a == ToArtifact(version, {})
  <2>1. a \in Artifacts /\ a.name = Compiled[version].name /\ a.abi = Compiled[version].abi
        /\ a.fullyQualifiedName = <<Compiled[version].path, Compiled[version].name>>
    BY <1>3 DEF Artifacts, ToArtifact
  <2>2. Compiled[version].name \in Names /\ Compiled[version].abi \in Abis
        /\ <<Compiled[version].path, Compiled[version].name>> \in {b.fullyQualifiedName : b \in Artifacts}
    BY <2>1 DEF Names, Abis
  <2>3. QED
    BY <2>2
<1>4. CASE Modules(kept) = {}
  BY <1>4, FS_EmptySet
<1>5. CASE Modules(kept) # {}
  <2>1. dir \in Outputs /\ Modules(kept) \subseteq all
    BY <1>2, <1>5
  <2>2. IsFiniteSet(dir.tree)
    BY <2>1, SetupsAssumption DEF Outputs
  <2>3. f \in Surjection(dir.tree, all)
    <3>1. f \in [dir.tree -> all] /\ \A module \in all : \E version \in dir.tree : f[version] = module
      OBVIOUS
    <3>2. QED
      BY <3>1 DEF Surjection
  <2>4. IsFiniteSet(all)
    BY <2>2, <2>3, FS_Surjection
  <2>5. IsFiniteSet(Modules(kept))
    BY <2>1, <2>4, FS_Subset
  <2>6. QED
    BY <1>2, <1>3, <2>5, FS_CardinalityType
<1>6. QED
  BY <1>4, <1>5

LEMMA FunctionIsSequence ==
    ASSUME NEW T, NEW m \in Nat, NEW s \in [1..m -> T]
    PROVE  s \in Seq(T) /\ Len(s) = m
OBVIOUS

\* The index comes last, after the two files of every contract it exports.
IndexLast(todo, each, n) ==
    /\ DOMAIN todo = 1..(2 * n + 1)
    /\ \A k \in 1..(2 * n) : todo[k].file \in {"types", "deployer"}
    /\ todo[2 * n + 1] = IndexOf(each)
    /\ \A j \in 1..n : /\ todo[2 * j - 1] = [file |-> "types", module |-> each[j]]
                       /\ todo[2 * j] = [file |-> "deployer", module |-> each[j]]

LEMMA GenerateInOrder ==
    ASSUME NEW S, NEW n \in Nat, NEW each \in [1..n -> S]
    PROVE  /\ each \in Seq(S) /\ Len(each) = n
           /\ Len(Pairs(each)) = 2 * n
           /\ \A k \in 1..(2 * n) : Pairs(each)[k] \in [file : {"types", "deployer"}, module : S]
           /\ IndexLast(Generate(each), each, n)
<1>1. each \in Seq(S) /\ Len(each) = n
  OBVIOUS
<1>2. \A k \in 1..(2 * n) : (k + 1) \div 2 \in 1..n
  OBVIOUS
<1>3. ASSUME NEW k \in 1..(2 * n)
      PROVE  Pairs(each)[k] = [file |-> IF k % 2 = 1 THEN "types" ELSE "deployer",
                               module |-> each[(k + 1) \div 2]]
             /\ each[(k + 1) \div 2] \in S
  BY <1>1, <1>2 DEF Pairs
<1>4. ASSUME NEW k \in 1..(2 * n)
      PROVE  Pairs(each)[k] \in [file : {"types", "deployer"}, module : S]
  <2> DEFINE file == IF k % 2 = 1 THEN "types" ELSE "deployer"
             module == each[(k + 1) \div 2]
  <2>1. /\ Pairs(each)[k] = [file |-> file, module |-> module]
        /\ file \in {"types", "deployer"} /\ module \in S
    BY <1>3
  <2> HIDE DEF file, module
  <2>2. QED
    BY <2>1
<1>5. /\ Pairs(each) \in Seq([file : {"types", "deployer"}, module : S])
      /\ Len(Pairs(each)) = 2 * n
  <2>1. DOMAIN Pairs(each) = 1..(2 * n)
    BY <1>1 DEF Pairs
  <2>2. Pairs(each) = [k \in 1..(2 * n) |-> Pairs(each)[k]]
    BY <1>1 DEF Pairs
  <2> DEFINE T == [file : {"types", "deployer"}, module : S]
             m == 2 * n
  <2>3. Pairs(each) \in [1..m -> T]
    BY <1>4, <2>2
  <2>4. m \in Nat
    OBVIOUS
  <2> HIDE DEF T, m
  <2>5. Pairs(each) \in Seq(T) /\ Len(Pairs(each)) = m
    BY <2>3, <2>4, FunctionIsSequence
  <2>6. QED
    BY <2>5 DEF T, m
<1>6. /\ Generate(each) = Append(Pairs(each), IndexOf(each))
      /\ DOMAIN Generate(each) = 1..(2 * n + 1)
      /\ Generate(each)[2 * n + 1] = IndexOf(each)
      /\ \A k \in 1..(2 * n) : Generate(each)[k] = Pairs(each)[k]
  BY <1>5 DEF Generate
<1>7. ASSUME NEW j \in 1..n
      PROVE  /\ Pairs(each)[2 * j - 1] = [file |-> "types", module |-> each[j]]
             /\ Pairs(each)[2 * j] = [file |-> "deployer", module |-> each[j]]
             /\ 2 * j - 1 \in 1..(2 * n) /\ 2 * j \in 1..(2 * n)
  <2>1. /\ 2 * j - 1 \in 1..(2 * n) /\ 2 * j \in 1..(2 * n)
        /\ (2 * j - 1) % 2 = 1 /\ (2 * j) % 2 = 0
        /\ (2 * j - 1 + 1) \div 2 = j /\ (2 * j + 1) \div 2 = j
    OBVIOUS
  <2>2. /\ Pairs(each)[2 * j - 1] = [file |-> "types", module |-> each[(2 * j - 1 + 1) \div 2]]
        /\ Pairs(each)[2 * j] = [file |-> "deployer", module |-> each[(2 * j + 1) \div 2]]
    BY <2>1 DEF Pairs
  <2>3. QED
    BY <2>1, <2>2
<1>8. IndexLast(Generate(each), each, n)
  BY <1>4, <1>6, <1>7 DEF IndexLast
<1>9. QED
  BY <1>1, <1>4, <1>5, <1>8

LEMMA RunGenerateKeepsWInv == WInv /\ RunGenerate => WInv'
<1> SUFFICES ASSUME WInv, RunGenerate PROVE WInv'
  OBVIOUS
<1> DEFINE read == ReadArtifacts(project, disk)
           kept == {a \in read.artifacts : Matches(a.name)}
<1>1. /\ gen' \in [due : BOOLEAN, todo : Seq(Writes)]
      /\ IndexInv'
  <2>1. CASE Failed(read) \/ kept = {}
    <3>1. gen' = Idle
      BY <2>1 DEF RunGenerate
    <3>2. QED
      BY <3>1, EmptySeq DEF Idle, IndexInv
  <2>2. CASE ~ (Failed(read) \/ kept = {})
    <3> DEFINE S == Modules(kept)
               n == Cardinality(S)
    <3>1. PICK each \in SetToSeqs(S) : gen' = [due |-> FALSE, todo |-> Generate(each)]
      BY <2>2 DEF RunGenerate
    <3>2. /\ n \in Nat
          /\ \A module \in S :
                module \in [name : Names, abi : Abis,
                            fullyQualifiedName : {a.fullyQualifiedName : a \in Artifacts}]
      BY <2>2, ModulesAreMany DEF WInv
    <3>3. each \in [1..n -> S]
      BY <3>1 DEF SetToSeqs
    <3> HIDE DEF S, n
    <3>4. gen'.todo = Generate(each) /\ gen'.due = FALSE
      BY <3>1
    <3> DEFINE todo == Generate(each)
    <3>5. IndexLast(todo, each, n)
      BY <3>2, <3>3, GenerateInOrder
    <3> HIDE DEF todo
    <3>6. gen'.todo = todo
      BY <3>4 DEF todo
    <3>7. Pairs(each) \in Seq(Writes) /\ IndexOf(each) \in Writes
      <4>1. /\ \A k \in 1..(2 * n) : Pairs(each)[k] \in [file : {"types", "deployer"}, module : S]
            /\ Len(Pairs(each)) = 2 * n
        BY <3>2, <3>3, GenerateInOrder
      <4>2. \A k \in 1..(2 * n) : Pairs(each)[k] \in Writes
        BY <3>2, <4>1 DEF Writes
      <4>3. \A j \in DOMAIN each : each[j].name \in Names
        BY <3>2, <3>3
      <4>4. IndexOf(each) \in Writes
        BY <4>3 DEF Writes, IndexOf
      <4>5. Pairs(each) \in [1..(2 * n) -> Writes]
        <5>1. DOMAIN Pairs(each) = 1..(2 * n) /\ Pairs(each) = [k \in 1..(2 * n) |-> Pairs(each)[k]]
          BY <3>2, <3>3, GenerateInOrder DEF Pairs
        <5>2. QED
          BY <4>2, <5>1
      <4>6. 2 * n \in Nat
        BY <3>2
      <4>7. QED
        BY <4>4, <4>5, <4>6, FunctionIsSequence
    <3>8. Generate(each) \in Seq(Writes)
      BY <3>7 DEF Generate
    <3>9. gen' \in [due : BOOLEAN, todo : Seq(Writes)]
      BY <3>1, <3>8
    <3>10. IndexInv'
      <4> SUFFICES ASSUME NEW i \in DOMAIN gen'.todo, gen'.todo[i].file = "index",
                          NEW name \in gen'.todo[i].names
                   PROVE  Ahead(i, "types", name)' /\ Ahead(i, "deployer", name)'
        BY DEF IndexInv
      <4>1. i = 2 * n + 1 /\ gen'.todo[i] = IndexOf(each)
        <5>1. i \in 1..(2 * n + 1)
          BY <3>5, <3>6 DEF IndexLast
        <5>2. i \notin 1..(2 * n)
          BY <3>5, <3>6 DEF IndexLast
        <5>3. i = 2 * n + 1
          BY <3>2, <5>1, <5>2
        <5>4. QED
          BY <3>2, <3>5, <3>6, <5>3 DEF IndexLast
      <4>2. PICK j \in 1..n : name = each[j].name
        BY <3>3, <4>1 DEF IndexOf
      <4>3. /\ gen'.todo[2 * j - 1] = [file |-> "types", module |-> each[j]]
            /\ gen'.todo[2 * j] = [file |-> "deployer", module |-> each[j]]
        BY <3>2, <3>5, <3>6 DEF IndexLast
      <4>4. 2 * j - 1 \in 1..(i - 1) /\ 2 * j \in 1..(i - 1)
        BY <3>2, <4>1
      <4>5. QED
        BY <4>2, <4>3, <4>4 DEF Ahead
    <3>11. QED
      BY <3>9, <3>10
  <2>3. QED
    BY <2>1, <2>2
<1>2. TypeOK'
  BY <1>1 DEF RunGenerate, WInv, TypeOK
<1>3. ProjectInv' /\ BuildInv'
  BY DEF RunGenerate, WInv, ProjectInv, BuildInv
<1>4. FilesInv' /\ IndexLoads'
  BY DEF RunGenerate, WInv, FilesInv, IndexLoads, Loads
<1>5. RecordInv'
  BY DEF RunGenerate, WInv, RecordInv
<1>6. QED
  BY <1>1, <1>2, <1>3, <1>4, <1>5 DEF WInv

LEMMA DieKeepsWInv == WInv /\ Die => WInv'
<1> SUFFICES ASSUME WInv, Die PROVE WInv'
  OBVIOUS
<1>1. TypeOK' /\ IndexInv'
  BY EmptySeq DEF Die, Idle, WInv, TypeOK, IndexInv
<1>2. ProjectInv' /\ BuildInv'
  BY DEF Die, WInv, ProjectInv, BuildInv
<1>3. FilesInv' /\ IndexLoads'
  BY DEF Die, WInv, FilesInv, IndexLoads, Loads
<1>4. RecordInv'
  BY DEF Die, WInv, RecordInv
<1>5. QED
  BY <1>1, <1>2, <1>3, <1>4 DEF WInv

LEMMA ImportKeepsWInv == WInv /\ Import => WInv'
<1> SUFFICES ASSUME WInv, Import PROVE WInv'
  OBVIOUS
<1>1. session' \in FileModules
  BY DEF Import, Loads, WInv, TypeOK
<1>2. TypeOK'
  BY <1>1 DEF Import, WInv, TypeOK
<1>3. ProjectInv' /\ BuildInv'
  BY DEF Import, WInv, ProjectInv, BuildInv
<1>4. IndexInv' /\ FilesInv' /\ IndexLoads'
  BY DEF Import, WInv, IndexInv, Ahead, FilesInv, IndexLoads, Loads
<1>5. RecordInv'
  BY DEF Import, WInv, RecordInv
<1>6. QED
  BY <1>2, <1>3, <1>4, <1>5 DEF WInv

\* Nothing that was written is taken away, and what is written is on disk.
LEMMA FilesGrow ==
    ASSUME TypeOK, FilesInv, Emit
    PROVE  LET write == Head(gen.todo)
           IN  /\ write \in Writes /\ FilesInv'
               /\ DOMAIN files.types \subseteq DOMAIN files'.types
               /\ files.deployers \subseteq files'.deployers
               /\ write.file = "types" =>
                     /\ files'.types = Save(files.types, write.module)
                     /\ write.module.name \in DOMAIN files'.types
               /\ write.file # "types" => files'.types = files.types
               /\ write.file = "deployer" =>
                     files'.deployers = files.deployers \cup {write.module.name}
               /\ write.file # "deployer" => files'.deployers = files.deployers
               /\ files'.index = IF write.file = "index" THEN write.names ELSE files.index
<1> DEFINE write == Head(gen.todo)
<1>1. gen.todo \in Seq(Writes) /\ gen.todo # <<>>
  BY DEF TypeOK, Emit
<1>2. write \in Writes
  BY <1>1, HeadTailProperties
<1>3. write.file \in {"types", "deployer", "index"}
  BY <1>2 DEF Writes
<1>4. files' = CASE write.file = "types" -> [files EXCEPT !.types = Save(@, write.module)]
                 [] write.file = "deployer" -> [files EXCEPT !.deployers = @ \cup {write.module.name}]
                 [] OTHER -> [files EXCEPT !.index = write.names]
  BY DEF Emit
<1> HIDE DEF write
<1>5. CASE write.file = "types"
  <2>1. files' = [files EXCEPT !.types = Save(@, write.module)]
    BY <1>4, <1>5
  <2>2. /\ files'.types = Save(files.types, write.module)
        /\ files'.deployers = files.deployers /\ files'.index = files.index /\ FilesInv'
    BY <2>1 DEF FilesInv
  <2>3. DOMAIN Save(files.types, write.module) = DOMAIN files.types \cup {write.module.name}
    BY DEF Save
  <2>4. QED
    BY <1>2, <1>5, <2>2, <2>3 DEF write
<1>6. CASE write.file = "deployer"
  <2>1. files' = [files EXCEPT !.deployers = @ \cup {write.module.name}]
    BY <1>4, <1>6
  <2>2. /\ files'.types = files.types /\ files'.index = files.index /\ FilesInv'
        /\ files'.deployers = files.deployers \cup {write.module.name}
    BY <2>1 DEF FilesInv
  <2>3. QED
    BY <1>2, <1>6, <2>2 DEF write
<1>7. CASE write.file = "index"
  <2>1. files' = [files EXCEPT !.index = write.names]
    BY <1>4, <1>7
  <2>2. /\ files'.types = files.types /\ files'.index = write.names /\ FilesInv'
        /\ files'.deployers = files.deployers
    BY <2>1 DEF FilesInv
  <2>3. QED
    BY <1>2, <1>7, <2>2 DEF write
<1>8. QED
  BY <1>3, <1>5, <1>6, <1>7

LEMMA EmitKeepsWInv == WInv /\ Emit => WInv'
<1> SUFFICES ASSUME WInv, Emit PROVE WInv'
  OBVIOUS
<1> DEFINE write == Head(gen.todo)
           rest == Tail(gen.todo)
<1>1. gen.todo \in Seq(Writes) /\ gen.todo # <<>> /\ gen \in [due : BOOLEAN, todo : Seq(Writes)]
  BY DEF WInv, TypeOK, Emit
<1>2. /\ rest \in Seq(Writes) /\ Len(rest) = Len(gen.todo) - 1
      /\ \A i \in 1..Len(rest) : rest[i] = gen.todo[i + 1]
      /\ write = gen.todo[1]
  BY <1>1, HeadTailProperties
<1>3. gen' = [gen EXCEPT !.todo = rest] /\ gen'.todo = rest
  BY <1>1 DEF Emit
<1>4. /\ write \in Writes /\ FilesInv'
      /\ DOMAIN files.types \subseteq DOMAIN files'.types
      /\ files.deployers \subseteq files'.deployers
      /\ write.file = "types" =>
            /\ files'.types = Save(files.types, write.module)
            /\ write.module.name \in DOMAIN files'.types
      /\ write.file # "types" => files'.types = files.types
      /\ write.file = "deployer" => files'.deployers = files.deployers \cup {write.module.name}
      /\ write.file # "deployer" => files'.deployers = files.deployers
      /\ files'.index = IF write.file = "index" THEN write.names ELSE files.index
  BY FilesGrow DEF WInv
<1> HIDE DEF write, rest
<1>5. TypeOK'
  <2>1. ASSUME NEW name \in DOMAIN files'.types
        PROVE  name \in Names /\ files'.types[name] \in FileModules
    <3>1. CASE write.file = "types"
      <4>1. /\ write.module.name \in Names /\ ArtifactModule(write.module) \in FileModules
        BY <1>4, <3>1 DEF Writes, ArtifactModule, FileModules
      <4>2. /\ DOMAIN files'.types = DOMAIN files.types \cup {write.module.name}
            /\ files'.types[name] = IF name = write.module.name THEN ArtifactModule(write.module)
                                    ELSE files.types[name]
        BY <1>4, <2>1, <3>1 DEF Save
      <4>3. QED
        BY <2>1, <4>1, <4>2 DEF WInv, TypeOK
    <3>2. CASE write.file # "types"
      BY <1>4, <2>1, <3>2 DEF WInv, TypeOK
    <3>3. QED
      BY <3>1, <3>2
  <2>2. files'.deployers \subseteq Names
    <3>1. write.file = "deployer" => write.module.name \in Names
      BY <1>4 DEF Writes
    <3>2. QED
      BY <1>4, <3>1 DEF WInv, TypeOK
  <2>3. files'.index = NoValue \/ files'.index \subseteq Names
    <3>1. write.file = "index" => write.names \subseteq Names
      BY <1>4 DEF Writes
    <3>2. QED
      BY <1>4, <3>1 DEF WInv, TypeOK
  <2>4. gen' \in [due : BOOLEAN, todo : Seq(Writes)]
    BY <1>1, <1>2, <1>3
  <2>5. QED
    BY <2>1, <2>2, <2>3, <2>4 DEF Emit, WInv, TypeOK
<1>6. IndexInv'
  <2> SUFFICES ASSUME NEW i \in DOMAIN rest, rest[i].file = "index", NEW name \in rest[i].names
               PROVE  /\ name \in DOMAIN files'.types \/ Ahead(i, "types", name)'
                      /\ name \in files'.deployers \/ Ahead(i, "deployer", name)'
    BY <1>3 DEF IndexInv
  <2>1. i \in 1..Len(rest) /\ i + 1 \in DOMAIN gen.todo /\ rest[i] = gen.todo[i + 1] /\ i \in Nat
    BY <1>1, <1>2
  <2>2. /\ name \in DOMAIN files.types \/ Ahead(i + 1, "types", name)
        /\ name \in files.deployers \/ Ahead(i + 1, "deployer", name)
    BY <2>1 DEF WInv, IndexInv
  <2>3. ASSUME NEW file, Ahead(i + 1, file, name)
        PROVE  (write.file = file /\ write.module.name = name) \/ Ahead(i, file, name)'
    <3>1. PICK k \in 1..i : gen.todo[k].file = file /\ gen.todo[k].module.name = name
      BY <2>1, <2>3 DEF Ahead
    <3>2. CASE k = 1
      BY <1>2, <3>1, <3>2
    <3>3. CASE k # 1
      <4>1. k - 1 \in 1..(i - 1) /\ rest[k - 1] = gen.todo[k]
        <5>1. k - 1 \in 1..(i - 1) /\ k - 1 \in 1..Len(rest) /\ k - 1 + 1 = k
          BY <1>1, <1>2, <2>1, <3>3
        <5>2. QED
          BY <1>2, <5>1
      <4>2. QED
        BY <1>3, <3>1, <4>1 DEF Ahead
    <3>4. QED
      BY <3>2, <3>3
  <2>4. QED
    BY <1>4, <2>2, <2>3
<1>7. IndexLoads'
  <2> SUFFICES ASSUME files'.index # NoValue, NEW name \in files'.index
               PROVE  name \in DOMAIN files'.types /\ name \in files'.deployers
    BY DEF IndexLoads, Loads
  <2>1. CASE write.file = "index"
    <3>1. name \in gen.todo[1].names /\ gen.todo[1].file = "index" /\ 1 \in DOMAIN gen.todo
      BY <1>1, <1>2, <1>4, <2>1
    <3>2. ~ Ahead(1, "types", name) /\ ~ Ahead(1, "deployer", name)
      BY DEF Ahead
    <3>3. QED
      BY <1>4, <3>1, <3>2 DEF WInv, IndexInv
  <2>2. CASE write.file # "index"
    BY <1>4, <2>2 DEF WInv, IndexLoads, Loads
  <2>3. QED
    BY <2>1, <2>2
<1>8. ProjectInv' /\ BuildInv'
  BY DEF Emit, WInv, ProjectInv, BuildInv
<1>9. RecordInv'
  BY DEF Emit, WInv, RecordInv
<1>10. QED
  BY <1>4, <1>5, <1>6, <1>7, <1>8, <1>9 DEF WInv

-----------------------------------------------------------------------------
(* A call.                                                                  *)

\* What a call answers when it decides nothing.
Refusals == {"NoToolchain", "UnsupportedFramework", "ArtifactsNotFound", "ContractArtifactNotFound",
             "GeneratedArtifactStale", "NoChainOnClient", "unlinked", "failed"}

\* A call with an artifact of the compiler's in hand: version is what it is of, build its sources.
Decides(artifact, version, build, request, strategy) ==
    LET framework == ConfiguredFramework(project)
        at == ArtifactsDirFor(project, framework)
    IN  /\ framework \in FRAMEWORKS /\ at \in Directories /\ disk[at] # NoValue
        /\ version \in disk[at].tree /\ version \in {v \in DOMAIN Compiled : IsDeployable(v)}
        /\ build \in Trees \cup {NoValue}
        /\ \/ build = NoValue
           \/ framework = "hardhat" /\ version \in build
           \/ framework = "foundry" /\ Compiled[version].path \in Paths(build)
        /\ artifact = ToArtifact(version, build)
        /\ GetOrDeploy(artifact, request.args, request.libraries, strategy)

LEMMA CallDecides ==
    ASSUME TypeOK, ProjectInv, NEW request, NEW strategy, Call(request, strategy)
    PROVE  \/ last'.did \in Refusals /\ record' = record /\ live' = live
           \/ \E artifact, version, build, resolvedStrategy :
                 Decides(artifact, version, build, request, resolvedStrategy)
<1> DEFINE resolved == ResolveArtifact(session, project, disk)
           clients == ClientsLayer(request)
           read == ReadArtifacts(project, disk)
           resolvedStrategy ==
               ResolveStrategy(strategy, project.strategies.chain, project.strategies.global)
<1>1. CASE Failed(resolved)
  <2>1. last'.did = resolved.error /\ record' = record /\ live' = live
    BY <1>1 DEF Call, Answer
  <2>2. Failed(read) => read.error \in Refusals
    BY DEF ReadArtifacts, Failed, Fails, Refusals
  <2>3. resolved.error \in Refusals
    BY <1>1, <2>2 DEF ResolveArtifact, Failed, Fails, Refusals
  <2>4. QED
    BY <2>1, <2>3
<1>2. CASE ~ Failed(resolved) /\ Failed(clients)
  <2>1. last'.did = clients.error /\ record' = record /\ live' = live
    BY <1>2 DEF Call, Answer
  <2>2. clients.error = "NoChainOnClient"
    BY <1>2 DEF ClientsLayer, Failed, Fails
  <2>3. QED
    BY <2>1, <2>2 DEF Refusals
<1>3. CASE ~ Failed(resolved) /\ ~ Failed(clients)
  <2>1. PICK artifact \in resolved.artifacts :
           GetOrDeploy(artifact, request.args, request.libraries, resolvedStrategy)
    BY <1>3 DEF Call
  <2>2. ~ Failed(read) /\ artifact \in read.artifacts
    BY <1>3, ArtifactsResolved
  <2>3. PICK version, build :
           /\ build \in Trees \cup {NoValue}
           /\ ConfiguredFramework(project) \in FRAMEWORKS
           /\ disk[ArtifactsDirFor(project, ConfiguredFramework(project))] # NoValue
           /\ ArtifactsDirFor(project, ConfiguredFramework(project)) \in Directories
           /\ version \in disk[ArtifactsDirFor(project, ConfiguredFramework(project))].tree
           /\ version \in DOMAIN Compiled /\ IsDeployable(version)
           /\ artifact = ToArtifact(version, build)
           /\ \/ build = NoValue
              \/ ConfiguredFramework(project) = "hardhat" /\ version \in build
              \/ ConfiguredFramework(project) = "foundry" /\ Compiled[version].path \in Paths(build)
    BY <2>2, ArtifactsRead
  <2>4. Decides(artifact, version, build, request, resolvedStrategy)
    BY <2>1, <2>3 DEF Decides
  <2>5. QED
    BY <2>4
<1>4. QED
  BY <1>1, <1>2, <1>3

\* What a decision does, with what it compared.
LEMMA DecisionCases ==
    ASSUME TypeOK, NEW artifact, NEW version, NEW build, NEW request, NEW strategy,
           Decides(artifact, version, build, request, strategy)
    PROVE  LET drift ==
                   (IF live = NoValue THEN {} ELSE Drift(live, artifact, request.args, request.libraries))
                   \cup (IF version \in built.tree THEN {} ELSE {"outdated"})
           IN  /\ last'.drift = drift /\ last'.strategy = strategy
               /\ \/ /\ last'.did = "reused" /\ record # NoValue /\ live # NoValue
                     /\ \/ strategy = "never" /\ last'.warned = WarnIfStale(record, artifact, request.args)
                        \/ /\ strategy = "on-change"
                           /\ ~ IdentityChanged(record, artifact, request.args, request.libraries)
                     /\ record' = record /\ live' = live
                  \/ last'.did \in Refusals /\ record' = record /\ live' = live
                  \/ /\ EncodeConstructorArgs(artifact.inputs, request.args) # NoValue
                     /\ record' = RecordOf(artifact, request.args, request.libraries)
                     /\ live' = [version |-> version, args |-> request.args,
                                 libraries |-> request.libraries, by |-> ConfiguredFramework(project)]
                     /\ \/ last'.did = "deployed"
                        \/ /\ last'.did = "redeployed" /\ record # NoValue /\ live # NoValue
                           /\ strategy = "on-change" =>
                                 IdentityChanged(record, artifact, request.args, request.libraries)
<1> DEFINE drift == (IF live = NoValue THEN {} ELSE Drift(live, artifact, request.args, request.libraries))
                    \cup (IF version \in built.tree THEN {} ELSE {"outdated"})
           reuse == record # NoValue
                    /\ \/ strategy = "never"
                       \/ /\ strategy = "on-change"
                          /\ ~ IdentityChanged(record, artifact, request.args, request.libraries)
<1>1. artifact.version = version
  BY DEF Decides, ToArtifact
<1>2. record # NoValue => live # NoValue
  BY DEF TypeOK
<1>3. \/ /\ reuse
         /\ Answer("reused", strategy,
                   IF strategy = "never" THEN WarnIfStale(record, artifact, request.args) ELSE {}, drift)
         /\ record' = record /\ live' = live
      \/ /\ \E did \in Refusals : Answer(did, strategy, {}, drift)
         /\ record' = record /\ live' = live
      \/ /\ ~ reuse
         /\ EncodeConstructorArgs(artifact.inputs, request.args) # NoValue
         /\ Answer(IF record = NoValue THEN "deployed" ELSE "redeployed", strategy, {}, drift)
         /\ record' = RecordOf(artifact, request.args, request.libraries)
         /\ live' = [version |-> version, args |-> request.args, libraries |-> request.libraries,
                     by |-> ConfiguredFramework(project)]
  BY <1>1 DEF Decides, GetOrDeploy, Refusals
<1> HIDE DEF drift
<1>4. CASE /\ reuse
           /\ Answer("reused", strategy,
                     IF strategy = "never" THEN WarnIfStale(record, artifact, request.args) ELSE {}, drift)
           /\ record' = record /\ live' = live
  <2>1. /\ last'.drift = drift /\ last'.strategy = strategy /\ last'.did = "reused"
        /\ strategy = "never" => last'.warned = WarnIfStale(record, artifact, request.args)
    BY <1>4 DEF Answer
  <2>2. record # NoValue /\ live # NoValue
    BY <1>2, <1>4
  <2>3. \/ strategy = "never"
        \/ /\ strategy = "on-change"
           /\ ~ IdentityChanged(record, artifact, request.args, request.libraries)
    BY <1>4
  <2>4. record' = record /\ live' = live
    BY <1>4
  <2>5. QED
    BY <2>1, <2>2, <2>3, <2>4 DEF drift
<1>5. CASE /\ \E did \in Refusals : Answer(did, strategy, {}, drift)
           /\ record' = record /\ live' = live
  <2>1. last'.drift = drift /\ last'.strategy = strategy /\ last'.did \in Refusals
    BY <1>5 DEF Answer
  <2>2. QED
    BY <1>5, <2>1 DEF drift
<1>6. CASE /\ ~ reuse
           /\ EncodeConstructorArgs(artifact.inputs, request.args) # NoValue
           /\ Answer(IF record = NoValue THEN "deployed" ELSE "redeployed", strategy, {}, drift)
           /\ record' = RecordOf(artifact, request.args, request.libraries)
           /\ live' = [version |-> version, args |-> request.args, libraries |-> request.libraries,
                       by |-> ConfiguredFramework(project)]
  <2>1. /\ last'.drift = drift /\ last'.strategy = strategy
        /\ last'.did = IF record = NoValue THEN "deployed" ELSE "redeployed"
    BY <1>6 DEF Answer
  <2>2. QED
    BY <1>2, <1>6, <2>1 DEF drift
<1>7. QED
  BY <1>3, <1>4, <1>5, <1>6 DEF drift

\* What a decided call writes tells what it deployed.
LEMMA DeploymentRecorded ==
    ASSUME TypeOK, ProjectInv, NEW request \in project.requests,
           NEW artifact, NEW version, NEW build, NEW strategy,
           Decides(artifact, version, build, request, strategy),
           EncodeConstructorArgs(artifact.inputs, request.args) # NoValue
    PROVE  LET r == RecordOf(artifact, request.args, request.libraries)
               deployed == [version |-> version, args |-> request.args,
                            libraries |-> request.libraries, by |-> ConfiguredFramework(project)]
           IN  /\ r # NoValue /\ deployed # NoValue
               /\ ComputeIdentity(artifact, request.args, request.libraries) # NoValue
               /\ RecordOfDeployment(r, deployed) /\ DescribesCode(r, deployed)
<1>1. /\ request.args \in Seq(ArgValues) /\ IsLibraries(request.libraries)
      /\ \E setup \in Setups : request \in setup.project.requests
  BY ProjectFacts
<1>2. /\ version \in {v \in DOMAIN Compiled : IsDeployable(v)} /\ build \in Trees \cup {NoValue}
      /\ artifact = ToArtifact(version, build)
      /\ ConfiguredFramework(project) \in FRAMEWORKS
      /\ \/ build = NoValue
         \/ ConfiguredFramework(project) = "hardhat" /\ version \in build
         \/ ConfiguredFramework(project) = "foundry" /\ Compiled[version].path \in Paths(build)
  BY DEF Decides
<1>3. artifact.inputs = Compiled[version].inputs
  BY <1>2 DEF ToArtifact
<1>4. /\ RecordOf(ToArtifact(version, build), request.args, request.libraries) # NoValue
      /\ EncodeConstructorArgs(ToArtifact(version, build).inputs, request.args) # NoValue =>
            ComputeIdentity(ToArtifact(version, build), request.args, request.libraries) # NoValue
      /\ [version |-> version, args |-> request.args, libraries |-> request.libraries,
          by |-> ConfiguredFramework(project)] # NoValue
  BY <1>1, <1>2, NoValueAssumption
<1>5. LET r == RecordOf(ToArtifact(version, build), request.args, request.libraries)
          deployed == [version |-> version, args |-> request.args,
                       libraries |-> request.libraries, by |-> ConfiguredFramework(project)]
      IN  RecordOfDeployment(r, deployed) /\ DescribesCode(r, deployed)
  BY <1>1, <1>2, <1>3, RecordTellsDeployment
<1>6. QED
  BY <1>2, <1>4, <1>5

LEMMA CallKeepsWInv ==
    ASSUME WInv, NEW request \in project.requests, NEW strategy, Call(request, strategy)
    PROVE  WInv'
<1>1. (record = NoValue <=> live = NoValue)' /\ RecordInv'
  <2>1. CASE record' = record /\ live' = live
    BY <2>1 DEF WInv, TypeOK, RecordInv
  <2>2. CASE \E artifact, version, build, resolvedStrategy :
                Decides(artifact, version, build, request, resolvedStrategy)
    <3>1. PICK artifact, version, build, resolvedStrategy :
             Decides(artifact, version, build, request, resolvedStrategy)
      BY <2>2
    <3>2. \/ record' = record /\ live' = live
          \/ /\ EncodeConstructorArgs(artifact.inputs, request.args) # NoValue
             /\ record' = RecordOf(artifact, request.args, request.libraries)
             /\ live' = [version |-> version, args |-> request.args,
                         libraries |-> request.libraries, by |-> ConfiguredFramework(project)]
      BY <3>1, DecisionCases DEF WInv
    <3>3. CASE /\ EncodeConstructorArgs(artifact.inputs, request.args) # NoValue
               /\ record' = RecordOf(artifact, request.args, request.libraries)
               /\ live' = [version |-> version, args |-> request.args,
                           libraries |-> request.libraries, by |-> ConfiguredFramework(project)]
      <4>1. record' # NoValue /\ live' # NoValue
            /\ RecordOfDeployment(record', live') /\ DescribesCode(record', live')
        BY <3>1, <3>3, DeploymentRecorded DEF WInv
      <4>2. QED
        BY <4>1 DEF RecordInv
    <3>4. QED
      BY <2>1, <3>2, <3>3
  <2>3. QED
    BY <2>1, <2>2, CallDecides DEF WInv
<1>2. TypeOK'
  <2>1. steps' \in [edits : 0..MaxEdits, configs : 0..MaxConfigs, compiles : 0..MaxCompiles,
                    calls : 0..MaxCalls]
    BY SetupsAssumption DEF Call, WInv, TypeOK
  <2>2. QED
    BY <1>1, <2>1 DEF Call, WInv, TypeOK
<1>3. ProjectInv' /\ BuildInv'
  BY DEF Call, WInv, ProjectInv, BuildInv
<1>4. IndexInv' /\ FilesInv' /\ IndexLoads'
  BY DEF Call, WInv, IndexInv, Ahead, FilesInv, IndexLoads, Loads
<1>5. QED
  BY <1>1, <1>2, <1>3, <1>4 DEF WInv

LEMMA WInvStep == WInv /\ [Next]_vars => WInv'
BY StutterKeepsWInv, EditKeepsWInv, ReconfigureKeepsWInv, CompileKeepsWInv, RunGenerateKeepsWInv,
   EmitKeepsWInv, DieKeepsWInv, ImportKeepsWInv, CallKeepsWInv DEF Next

THEOREM WInvHolds == Spec => []WInv
BY WInvInit, WInvStep, PTL DEF Spec

\* What each variable holds.
THEOREM WorkspaceTypeCorrect == Spec => []TypeOK
<1>1. WInv => TypeOK
  BY DEF WInv
<1>2. QED
  BY <1>1, WInvHolds, PTL

\* The record always describes the code at its address: the interface is that code's, and the
\* sources it pinned hold its file (pipeline.ts, foundry.ts).
THEOREM RecordsDescribe == Spec => []RecordDescribesItsCode
<1>1. WInv => RecordDescribesItsCode
  BY DEF WInv, RecordInv, RecordDescribesItsCode
<1>2. QED
  BY <1>1, WInvHolds, PTL

\* Wherever the generator stops, every deployer the index exports loads (generate.ts).
THEOREM IndexAlwaysLoads == Spec => []IndexLoads
<1>1. WInv => IndexLoads
  BY DEF WInv
<1>2. QED
  BY <1>1, WInvHolds, PTL

-----------------------------------------------------------------------------
(* What calls answer.                                                       *)

\* A call that is refused or that decides, and what it decides.
LEMMA CallAnswers ==
    ASSUME WInv, NEW request \in project.requests, NEW strategy, Call(request, strategy),
           last'.did \in {"reused", "deployed", "redeployed"}
    PROVE  \E artifact, version, build, resolvedStrategy :
              Decides(artifact, version, build, request, resolvedStrategy)
BY CallDecides DEF WInv, Refusals

\* on-change redeploys exactly what changed.
LEMMA CallRedeploysWhatChanged ==
    ASSUME WInv, NEW request \in project.requests, NEW strategy, Call(request, strategy),
           last'.strategy = "on-change"
    PROVE  /\ last'.did = "reused" => last'.drift \cap Semantic = {}
           /\ last'.did = "redeployed" =>
                 \/ last'.drift \cap (Semantic \cup {"child"}) # {}
                 \/ record.identityHash = NoValue /\ "constructor" \in last'.drift
<1> SUFFICES ASSUME last'.did \in {"reused", "redeployed"}
             PROVE  /\ last'.did = "reused" => last'.drift \cap Semantic = {}
                    /\ last'.did = "redeployed" =>
                          \/ last'.drift \cap (Semantic \cup {"child"}) # {}
                          \/ record.identityHash = NoValue /\ "constructor" \in last'.drift
  OBVIOUS
<1>1. PICK artifact, version, build, resolvedStrategy :
         Decides(artifact, version, build, request, resolvedStrategy)
  BY CallAnswers
<1> DEFINE drift == Drift(live, artifact, request.args, request.libraries)
<1>2. /\ resolvedStrategy = "on-change" /\ record # NoValue /\ live # NoValue
      /\ last'.drift = drift \cup (IF version \in built.tree THEN {} ELSE {"outdated"})
      /\ last'.did = "reused" => ~ IdentityChanged(record, artifact, request.args, request.libraries)
      /\ last'.did = "redeployed" =>
            /\ EncodeConstructorArgs(artifact.inputs, request.args) # NoValue
            /\ IdentityChanged(record, artifact, request.args, request.libraries)
  BY <1>1, DecisionCases DEF WInv, Refusals
<1>3. RecordOfDeployment(record, live)
  BY <1>2 DEF WInv, RecordInv
<1>4. request.args \in Seq(ArgValues) /\ IsLibraries(request.libraries)
  BY ProjectFacts DEF WInv
<1>5. IsCreation(artifact.creation)
  <2>1. version \in {v \in DOMAIN Compiled : IsDeployable(v)} /\ artifact = ToArtifact(version, build)
    BY <1>1 DEF Decides
  <2>2. QED
    BY <2>1, CompiledIsCode DEF ToArtifact
<1>6. CASE last'.did = "reused"
  <2>1. drift \cap Semantic = {}
    BY <1>2, <1>3, <1>4, <1>5, <1>6, ReuseTells
  <2>2. QED
    BY <1>2, <1>6, <2>1 DEF Semantic
<1>7. CASE last'.did = "redeployed"
  <2>1. ComputeIdentity(artifact, request.args, request.libraries) # NoValue
    BY <1>1, <1>2, <1>7, DeploymentRecorded DEF WInv
  <2>2. \/ drift \cap (Semantic \cup {"child"}) # {}
        \/ record.identityHash = NoValue /\ "constructor" \in drift
    BY <1>2, <1>3, <1>4, <1>5, <1>7, <2>1, ReplaceTells
  <2>3. QED
    BY <1>2, <1>7, <2>2
<1>8. QED
  BY <1>6, <1>7

LEMMA CallIsNeverSilent ==
    ASSUME WInv, NEW request \in project.requests, NEW strategy, Call(request, strategy)
    PROVE  NeverSilent'
<1> SUFFICES ASSUME last'.did = "reused", last'.strategy = "never", last'.warned = {}
             PROVE  last'.drift \subseteq {"libraries", "form", "outdated"}
  BY DEF NeverSilent
<1>1. PICK artifact, version, build, resolvedStrategy :
         Decides(artifact, version, build, request, resolvedStrategy)
  BY CallAnswers
<1> DEFINE drift == Drift(live, artifact, request.args, request.libraries)
<1>2. /\ record # NoValue /\ live # NoValue
      /\ last'.drift = drift \cup (IF version \in built.tree THEN {} ELSE {"outdated"})
      /\ WarnIfStale(record, artifact, request.args) = {}
  BY <1>1, DecisionCases DEF WInv, Refusals
<1>3. RecordOfDeployment(record, live) /\ request.args \in Seq(ArgValues)
  BY <1>2, ProjectFacts DEF WInv, RecordInv
<1>4. drift \subseteq {"libraries", "form"}
  BY <1>2, <1>3, WarningTells
<1>5. QED
  BY <1>2, <1>4

LEMMA CallReadsLastBuild ==
    ASSUME WInv, NEW request \in project.requests, NEW strategy, Call(request, strategy)
    PROVE  ReadsLastBuild'
<1> SUFFICES ASSUME last'.did \in {"reused", "deployed", "redeployed"}, "outdated" \in last'.drift,
                    built.by = ConfiguredFramework(project),
                    project.artifactsPath \in {NoValue, OutputDir(project, built.by)},
                    OutputDir(project, built.by) = built.at,
                    ReadsAsTaken(project.config, built.by)
             PROVE  FALSE
  BY DEF ReadsLastBuild, Call
<1>1. PICK artifact, version, build, resolvedStrategy :
         Decides(artifact, version, build, request, resolvedStrategy)
  BY CallAnswers
<1> DEFINE framework == ConfiguredFramework(project)
           at == ArtifactsDirFor(project, framework)
<1>2. /\ framework \in FRAMEWORKS /\ at \in Directories /\ disk[at] # NoValue
      /\ version \in disk[at].tree
  BY <1>1 DEF Decides
<1>3. version \notin built.tree
  <2>1. last'.drift =
           (IF live = NoValue THEN {} ELSE Drift(live, artifact, request.args, request.libraries))
           \cup (IF version \in built.tree THEN {} ELSE {"outdated"})
    BY <1>1, DecisionCases DEF WInv
  <2>2. "outdated" \notin Drift(live, artifact, request.args, request.libraries)
    BY DEF Drift
  <2>3. QED
    BY <2>1, <2>2
<1>4. framework \in project.markers /\ (disk[built.at] # NoValue => disk[built.at].tree = built.tree)
  BY <1>2 DEF WInv, BuildInv
<1>5. at = built.at
  BY <1>2, <1>4, LooksWhereItIsWritten
<1>6. QED
  BY <1>2, <1>3, <1>4, <1>5

\* on-change redeploys exactly what changed (pipeline.ts, identity.ts), for any versions, requests
\* and records.
THEOREM RedeploysExactly == Spec => RedeploysWhatChanged
<1>1. WInv /\ [Next]_vars =>
         [last'.strategy = "on-change" =>
             /\ last'.did = "reused" => last'.drift \cap Semantic = {}
             /\ last'.did = "redeployed" =>
                   \/ last'.drift \cap (Semantic \cup {"child"}) # {}
                   \/ record.identityHash = NoValue /\ "constructor" \in last'.drift]_vars
  <2> SUFFICES ASSUME WInv, Next, last'.strategy = "on-change", vars' # vars
               PROVE  /\ last'.did = "reused" => last'.drift \cap Semantic = {}
                      /\ last'.did = "redeployed" =>
                            \/ last'.drift \cap (Semantic \cup {"child"}) # {}
                            \/ record.identityHash = NoValue /\ "constructor" \in last'.drift
    BY DEF vars
  <2>1. CASE \E request \in project.requests, strategy \in Strategies : Call(request, strategy)
    BY <2>1, CallRedeploysWhatChanged
  <2>2. CASE ~ \E request \in project.requests, strategy \in Strategies : Call(request, strategy)
    BY <2>2 DEF Next, Edit, Reconfigure, Compile, RunGenerate, Emit, Die, Import, NoCall
  <2>3. QED
    BY <2>1, <2>2
<1>2. QED
  BY <1>1, WInvHolds, PTL DEF Spec, RedeploysWhatChanged

\* What a call answers stays true until the next step.
LEMMA AnswersHold ==
    /\ Init => NeverSilent /\ ReadsLastBuild
    /\ WInv /\ NeverSilent /\ ReadsLastBuild /\ [Next]_vars => NeverSilent' /\ ReadsLastBuild'
<1>1. Init => NeverSilent /\ ReadsLastBuild
  BY DEF Init, NoCall, NeverSilent, ReadsLastBuild
<1>2. ASSUME WInv, NeverSilent, ReadsLastBuild, [Next]_vars
      PROVE  NeverSilent' /\ ReadsLastBuild'
  <2>1. CASE \E request \in project.requests, strategy \in Strategies : Call(request, strategy)
    BY <1>2, <2>1, CallIsNeverSilent, CallReadsLastBuild
  <2>2. CASE last' = NoCall
    BY <2>2 DEF NoCall, NeverSilent, ReadsLastBuild
  <2>3. CASE UNCHANGED vars
    BY <1>2, <2>3 DEF vars, NeverSilent, ReadsLastBuild
  <2>4. QED
    BY <1>2, <2>1, <2>2, <2>3 DEF Next, Edit, Reconfigure, Compile, RunGenerate, Emit, Die, Import
<1>3. QED
  BY <1>1, <1>2

\* Under never no drift is silent but a library address (pipeline.ts warnIfStale).
THEOREM DriftIsWarnedOf == Spec => []NeverSilent
BY AnswersHold, WInvHolds, PTL DEF Spec

\* A call works from the last compilation, unless another toolchain compiled last, deployoor.config
\* names another directory, the toolchain was reconfigured since it compiled, or deployoor does not
\* read its configuration as the toolchain takes it (framework-config.ts, artifacts/index.ts).
THEOREM CallsReadLastBuild == Spec => []ReadsLastBuild
BY AnswersHold, WInvHolds, PTL DEF Spec
=============================================================================
