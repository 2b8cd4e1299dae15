# Verification of deployoor

deployoor is a TypeScript library and command line that deploys smart contracts
and remembers what it deployed: `getOrDeploy` reuses the recorded deployment of a
(network, name) pair or deploys the contract and records it, keeping a history,
the sources for a later verification, and a lock against concurrent scripts.
Plugins verify the contract on block explorers right after a deployment, and
`deployoor verify` does so later from the records.

This directory holds TLA+ models of the parts of deployoor in which processes,
files, a chain and third-party services meet, the TLC configurations that check
them on small instances, and TLAPS proofs for every instance. `PROJECT.json` maps
every definition that models code to its lines, lists the runs, for each property
a mutant of the model that the property rejects, the hazards the properties are
aimed at, the disagreements between the code and its documentation, and the
theorems. Paths below are relative to `src/packages/`; `engine/`, `services/`,
`cli/`, `store.ts`, `schemas.ts` are in `deployoor/src/`.

## 1. The system

### Components

| component | state | operations | talks to |
|---|---|---|---|
| deploy pipeline, `engine/pipeline.ts` | locals of a call: existing record, hash and receipt, pinned sources hash | `getOrDeploy`, `register` | store, chain clients, plugins |
| entry points, `engine/deployer.ts`, `services/clients.ts`, `engine/strategy.ts` | none | `createDeployer`, `defineRegister`, `defineReset` | pipeline, store |
| record store, `store.ts`, `services/store.ts` | record files, source blobs shared by all records, lock files | `read` `write` `list` `listAll` `remove` `readSources` `writeSources` `pruneSources` `lock`; `memoryStore` has all but `lock` | file system |
| records and history, `schemas.ts` | the record: kind, chain, address, identity, sources hash, history | parse, migrate schema 1 | everything that reads a store |
| identity and reasons, `engine/identity.ts`, `engine/reasons.ts`, `engine/sources.ts` | none | `computeIdentity`, `diffIdentity`, `pinSources` | pipeline |
| plugin host, `engine/plugins.ts` | none | `runOnContractDeployed`, `runOnDeployFailed` | plugins |
| verifiers, `deployoor-{etherscan,blockscout,routescan,sourcify}` | attempt counters of one `verifyDeployment` call | submit, resubmit, poll | an explorer, which indexes, queues and judges |
| verify command, `cli/verify.ts` | outcomes so far | `runVerify` | store, verifiers |
| notifiers and consumers, `deployoor-slack`, `deployoor-wagmi` | none | one request; one mapping | webhook |
| testing, `deployoor-testing`, `deployoor-evm` | snapshot ids of a fixture | `createFixture`, `readDeploymentRecords`, `snapshot`, `revert` | an EVM in process |
| artifacts and codegen, `artifacts/`, `codegen/` | the generated files | `readArtifacts`, `resolveArtifact`, `generate` | the toolchain's output, the scripts that import the files |
| Hardhat plugin, `deployoor-hardhat` | none | `generate` after a compilation | codegen |
| command line, `cli.ts`, `generate.ts`, `cli/` | ignore files, config file, dependencies | `init`, `generate`, `verify` | file system, git, package manager, prompts |

A script is an operating-system process.  Scripts share the deployments directory
and the chain and nothing else, and the code between two `await`s of one script
runs to its end.  Every store call, every JSON-RPC call and every plugin hook is
such an `await`, so other scripts, and another call of the same script, act
between them.  `fsStore.lock` is the only synchronisation, and only `getOrDeploy`
takes it.  The explorers are shared by every process that verifies.

### What is hard, and what must be true

* **The lock file.**  A file created with `wx`; whoever loses looks at its age and
  removes it when it is older than five minutes.  Open, stat and remove are three
  system calls under a name, so each may meet another file than the one before.
  The holder may die, or live longer than five minutes.  Correct: one holder at a
  time, every waiter answered, an abandoned lock recovered.
* **read, deploy, write.**  The decision is made on a record read long before the
  new one is written; the transaction may be lost, mined after the call gave up,
  or reverted; every await may fail and the process may die.  Correct: the record
  a call replaces is the one it decided on, no created contract is forgotten except
  by its own call's failure, what is recorded exists, the history explains every
  address, a registered address and a deployed one do not overwrite each other.
* **Shared sources.**  Blobs are written before the record that names them, and
  collected by `reset` when no record names them.  Correct: no record names a
  blob that is gone.
* **The explorers' answers.**  Texts, not codes, tell "not indexed yet", "queued",
  "verified", "already verified", "failed"; a text that contains one may contain
  another, an answer may be lost after the request got through, and the explorer
  changes state between any two requests.  Correct: done means verified, failed
  means that job failed, every call ends, verifying again is safe.
* **A run over many records.**  One failing plugin or record must neither end the
  run nor hide another's outcome.  Correct: one outcome per record, in order, and
  an `ok` report only if everything selected is verified.
* **Stale snapshots.**  A script imports a module generated from one build, the
  call reads the artifact of another, its sources come from the build-info of a
  third, and the record is older than all.  Directories and toolchains change in
  between, and the generator may die between two files.  Correct: a record describes
  the code at its address, `on-change` redeploys what changed and nothing else,
  a call works from the last build, an index never names a missing module.
* **Two notions of change.**  A hash where a record has one, a component diff where
  it has not, and a third comparison to explain the decision.  Correct: they agree.
* **Files that people edit.**  `init`, `generate` and an editor meet in a config and
  an ignore file, with a prompt in between.  Correct: nobody's config is replaced,
  and no line goes that nobody agreed to.
* **Snapshots of an EVM.**  A revert consumes its snapshot and every later one, be it a
  fixture's or a test's own; other tests act between two RPCs; the store is not part of
  the EVM.  Correct: a fixture restores what it captured or throws, it throws only if
  its snapshot was consumed, and stale records have a cause.

## 2. The modules

| module | models | composed with |
|---|---|---|
| `DeployMutex` | what `StoreAdapter.lock` promises | |
| `DeployLock` | `fsStore.lock`, one action per system call | implements `DeployMutex` |
| `DeploymentLog` | what a store promises its readers: a log per slot | |
| `GetOrDeploy` | `getOrDeploy`, `register`, `reset` over one store and one chain | uses the mutex and the atomic store; implements `DeploymentLog` |
| `RecordStore` | what `StoreAdapter` promises of `read`, `write`, `remove` | |
| `FsStore` | `fsStore` without its lock, one action per system call | implements `RecordStore` |
| `Verifier` | the four `verifyDeployment`s and their explorers | |
| `VerifyRun` | `runVerify` and the other processes that verify | extends `Verifier` |
| `Identity` | identity hash, component diff, warnings, linking, strategy, pinned sources: operators | |
| `Toolchain` | detection, output directories, artifacts, build-infos, the abi check: operators | extends `Identity` |
| `Workspace` | edit, compile, generate, import, call | extends `Toolchain` |
| `CommandLine` | `init` and `generate` beside an editor | |
| `TestFixtures` | `createFixture` over shared EVMs and their stores | |
| `MCDeployLock`, `MCGetOrDeploy`, `MCFsStore`, `MCVerifyRun`, `MCWorkspace`, `MCCommandLine`, `MCTestFixtures` | instances for TLC | |
| `DeployLock_proofs`, `GetOrDeploy_proofs`, `FsStore_proofs`, `VerifyRun_proofs`, `Identity_proofs`, `Workspace_proofs`, `CommandLine_proofs`, `TestFixtures_proofs` | theorems | |

A definition whose comment begins with "Mutant:" is a wrong version of the
definition that follows it.  No specification uses it; it documents, for one
property, a mistake in the code that the property would notice.

### DeployLock (`store.ts:171-197`)

`pc[p]` is where a process is in `tryAcquire`: about to `openSync`, to `statSync`,
to `rmSync`, to sleep, holding, or rejected.  `Create`/`Exists`/`OpenError` are the
outcomes of the open, `StatGone`/`StatYoung`/`StatStale` those of the stat;
`Reclaim` removes the file and reopens without using up an attempt; `Backoff` and
`TimeOut` are the sleep and the last attempt.  `lock` says who created the file
that now has the name, which the code cannot know, and `Orphan` once that process
died.  Age is one bit, since the code asks only whether it is over five minutes.
`excuses` is a history variable: `overlap` when a second waiter judges the file
stale while another is about to remove it, `outlived` when a live holder's file
grows old.  Until one of them happens the lock is a mutex, and this is the exact
promise: each of the two alone breaks it.

### GetOrDeploy (`engine/pipeline.ts`, `engine/deployer.ts`, `services/store.ts`)

One step per await, with each outcome the code distinguishes.  `Read` is the store
read and the whole decision on its result (chain mismatch, reuse, deploy), which
no await interrupts.  `Broadcast`, `BroadcastLost`, `BroadcastRejected`: the
request and its answer; in the second the node took the transaction.  `Mine` is
the chain.  `Receipt`/`ReceiptFails`: the code tests `contractAddress` and never
the status; `RevertedHasAddress` says which of the two kinds of node is meant.
`Pin` may fail, and then the record has no sources hash; without `HasSources` it
"succeeds" without storing.  `Write`, `WriteFails`, `Hooks`, `Release` follow;
every path that took the lock passes through `Release`.  `register` is
`RegRead`/`DeploymentExists`/`RegWrite`, `reset` is
`ResetList`/`ResetRemove`/`ResetScan`/`ResetPrune`: the references are collected
in one step and the blobs removed in another, of which any part may be removed
before a removal throws.  `Crash` ends a call anywhere.

Identities and source hashes are model values; transaction `n` creates address
`n`.  A slot may start with a record of another chain or of schema 1, which has no
history.  `Alone` names the operations that are only run while nothing else is:
the code does not protect `register` and `reset`, so some properties need it and
the violation runs show what happens without.  `writtenOff` is a history variable
with the addresses a failed call, a crash or a reset gave up.

### FsStore (`store.ts:127-251`)

The methods are synchronous, so within one process a call runs to its end; other
processes act between its system calls, and it may die between any two.  `pc[p]`
is the next system call: `Exists`, `Open`, `Rm`, `WriteTemp` (with its `mkdir`) and
`Rename`; of a listing or a prune `Root` (the directories there are), `ReadDir` for
each, `Load` for each file found, and for a prune then `FindUnreferenced` and
`Unlink`.  `flatMap` reads all directories before the first file, which is why
`Load` waits for `dirs` to be empty.  The order within a directory is the file
system's, so it is left open.

A file holds a record, is `Damaged` (it does not parse: somebody edited it, as the
code never writes one), or is absent.  Pinned sources are there or not: their names
are their hashes.  A temporary file is not a state of its own, since its name is
unique and no method looks at it.  `window` is a history variable: for every call
under way, what each file has held since it began.  The properties compare a
call's result with it, because no listing is a snapshot.

### Verifier (`deployoor-*/src/index.ts`)

The four plugins are one algorithm with four vocabularies.  `Etherscan`,
`Blockscout`, `Routescan` and `Sourcify` say which answers each takes for "not
indexed yet", "passed", "already verified" and "failed"; an answer is one of
`Texts`, each standing for the replies a pattern distinguishes ("not verified" is
there because it contains "verified").  One step is a request with its answer.
`SubmitLost` and `PollLost` are rejected fetches and answers that do not parse;
a lost submission may have been queued.  `limit` is `maxPolls`, with `NaN` for the
number an unset variable becomes; three plugins refuse it and sourcify does not.
The explorers are external: `SaysUnindexed`, `SaysOfJob`, `Refusals` and
`MayVerifyAtOnce` say how they answer, as far as the plugins' patterns and
comments tell; `Index`, `Judge` and `Import` are their own steps and happen at any
time or never.  An etherscan plugin whose `apiUrl` points at an instance that
verifies synchronously is not modelled.

### VerifyRun (`cli/verify.ts`)

`SelectPlugins`/`RequestRefused` (`selectPlugins`), `ReadRecords`/`ReadRecordsThrows`
(`readRecords` and the name filter), then per record `External`, `Unverifiable` or
`ResolveMetadata`, and per plugin `RunHook`, Verifier's steps, and `HookSettles`.
`Conclude` is the end of `verifyRecord`.  A pinned blob may be gone or damaged at
any read.  The other callers are deploy scripts and other verify commands.

### Identity and Toolchain (`engine/identity.ts`, `engine/reasons.ts`, `artifacts/`)

Operators, named as the functions are.  A hash is its preimage.  Bytecode is its
instructions, its unlinked libraries, the metadata of an embedded child and its own
trailing metadata, since that is what stripping, hashing and linking tell apart; a
constructor argument is a meaning and a way to write it, because the store's JSON
keeps the writing (and turns a bigint into a string) while the hash encodes the
meaning.  `ComputeIdentity`, `DiffIdentity`, `IdentityChanged` and `WarnIfStale` are
four different comparisons of a record with a call, as in the code.

A project is its config markers, the two options of `deployoor.config`, and its
toolchains' configuration.  What the toolchain makes of that and what deployoor reads
in it are two things, and the model keeps them apart: the Hardhat config, and each
profile of `foundry.toml`, is a pair [`takes`, `reads`], and the process that runs forge
and the one that runs deployoor have each their own `FOUNDRY_OUT` and `FOUNDRY_PROFILE`
(`shell`, `script`).  `reads` is `NoValue` where a Hardhat config does not evaluate or the
TOML sets `out` in a form `framework-config.ts` does not recognise, and a `foundry.toml`
that is missing or unreadable sets nothing; then the default directory is read.
`OutputDir` goes by the one, `ArtifactsDirFor` by the other.

An output directory is the tree compiled into it, its readable build-infos and its
writer.  `BuildInfoInputFor` (Foundry) may pick any build-info that has the file, since
`readdirSync` orders them by hash; `ReadBuildInfo` (Hardhat) finds the compilation's own
or, when that or a `.dbg.json` is missing or damaged, none, and the artifact has empty
sources.

### Workspace (`codegen/`, `cli/generate.ts`, `deployoor-hardhat`, `engine/deployer.ts`)

`Edit`, `Reconfigure` and `Compile` are the user and the toolchain: `Reconfigure` gives
the project any other of its configurations, `Compile` may leave its build-info behind
or not.  `RunGenerate` reads
the artifacts and decides what to write, `Emit` writes one file, `Die` ends the
generator between two; `Import` loads the index a script uses and `Call` is the
generated function: `resolveArtifact`, the clients, the strategy, and the pipeline
as one step, whose interleavings are `GetOrDeploy`'s.  `live` is what the contract at
the recorded address really is, `built` the last compilation; the properties compare
the record and the decision with these.

### CommandLine (`cli.ts`, `cli/`)

One action per await, or per pair of reading and writing a file: `Main` (parsing and
dispatch), `OfferInstall`, `GenerateDeployers`; `Detect` and `Scaffold`, between which
the config may appear; `Load`, `Check` (git's answer), `Confirm`, `ReadRules` and
`WriteRules`.  `SaveConfig` and `SaveIgnore` are an editor.  Git is external:
the last rule that covers a path decides, the clone's own exclude file after the
project's.  A path is one of the two outputs, and a rule says which it covers and
which it names.

### TestFixtures (`deployoor-testing`, `deployoor-evm`)

`Enter`, `Setup`, `TakeSnapshot` and `Captured` are the first call of a fixture;
`Enter`, `Revert`, `TakeSnapshot` and `Renewed` a later one.  In between a test calls
`getOrDeploy` or does anything else to its EVM (`Test`), and uses the `snapshot()` and
`revert()` of the cheatcodes on its own account (`TestSnapshot`, `TestRevert`), which
consumes a fixture's snapshot if it restores an older one; the tests of one EVM may pass
such an id on (`taken`).  A `getOrDeploy`, of a test or of a setup, is three steps: the
record is read and the call is `pending`, `Send` has the creation mined, `Write` records
it; `Fail` is a rejection at any point, of the deployment or of what a setup does after
it, and leaves the call without a snapshot.  The store has no lock, so two calls
for one name may both deploy.

The state of an EVM is what was done to it, so that a restore takes addresses back as
well.  A node may be a fork with records seeded from committed deployments.  History
variables say what a fixture captured, who consumed a snapshot, and whether another test
acted between the steps of a call (`disturbed`).

## 3. The runs

| run | question | states | result |
|---|---|---|---|
| `lock` | is the file a mutex up to the two excuses, is every waiter answered, is an abandoned file reclaimed? | 188,272 | pass |
| `lock_reclaim` | is it a mutex without excuses? | | violated |
| `lock_vanish` | is a waiter refused only after all of its attempts? | | violated |
| `pipeline` | with the lock, and register and reset alone, is the store a faithful log of the deployments? | 390,178 | pass |
| `register_clobbers` | ... if register runs beside a deploy? | | violated |
| `reset_dangles` | ... if reset does? | | violated |
| `reverted_recorded` | ... if a reverted creation's receipt has an address? | | violated |
| `files` | system call by system call, are single calls atomic, listings current, damage contained, and named sources spared? | 356,549 | pass |
| `verify` | are verdicts the explorers', are records accounted for, is `ok` earned, and does every verification settle if explorers never do anything? | 172,217 | pass |
| `workspace` | do record, artifact, build-info and generated module stay in step through edits, reconfigurations, compilations and half-finished generations? | 191,160 | pass |
| `command_line` | do a user's config and ignore rules survive two commands and an editor? | 403,104 | pass |
| `fixtures` | on one EVM or on two: does a fixture restore what it captured, when does it throw, and what is stale afterwards? | 4,479,308 | pass |

What the properties say is stated above each of them in the modules.

**Bounds.**  `lock`: three processes, because the reclaim race needs a dead holder
and two waiters; two attempts in place of 600, because the code tells only "some
left" from "none left"; two crashes or overstays, so that both excuses, and a
crash of the process that reclaims, can happen.  `pipeline`: two processes make
three calls on two names of one network, with two transactions and one crash:
enough for a call to act between any two steps of another, for a third to find
what the two left, for two records to share a blob, and for a redeploy over an
inherited record to be redeployed.  The jobs pair every strategy with equal and
with different identities.  `verify`: one contract under three records (deployed,
registered, and without pinned sources), a configuration of two verifiers and a
notifier or of the other two verifiers, one more process that verifies once, two
queued jobs, `maxPolls` 0, 1 or 2, and NaN for a plugin that refuses it: the second
process and `Import` are whatever can happen to a contract between two requests of
the first.  The store has no `listAll`, so a lookup that needs it fails and one by
network key does not.  `files`: two
processes make three calls on two networks with one name each, over files that
hold a record, a damaged one or none: enough for a call to meet another between
any two of its system calls and a third to come after, and for two networks to
name the same sources.  `workspace`: nine projects, chosen so that each reader
and each branch of detection is met (two of them are reconfigured in every way a
directory can be missed, another is Foundry's without change), one edit (to a comment, code, interface,
constructor, child contract or library, or to an ending that is not metadata), one
reconfiguration, two compilations and two calls over no record, a record of this version or one of schema 1: a record deviates from what a
call asks for after one edit, and a third build adds no new kind of staleness.
`command_line`: two commands, so that one acts between any two steps of the other,
and one save; three ignore files, with rules that name one output, cover both, take
one back, or have a comment of deployoor's above them.  `fixtures`: two tests and two
fixtures, histories of two and four fixture calls.  Where the tests share an EVM they
also take one snapshot of their own: enough for a fixture to be called for the third
time, for one whose snapshot another fixture or a test has consumed, and for two
deployments of one name to overlap.  Where each has a fresh EVM of its own, a constraint
leaves their own snapshots out, which concern one EVM only: what is kept per EVM and per
store is not mixed up.  Tests, EVMs and fixtures are interchangeable in it and taken as
symmetric sets; it checks no liveness.  The calls are bounded, so every run but `lock` may come to a stop and is checked
without deadlock checking.

**Fairness.**  `lock`: a process inside `acquireLock` keeps executing, as its loop
only sleeps and makes system calls that return, and time passes over an abandoned
file; no holder has to release and no caller to come back.  `pipeline`: every
await of a call settles (store calls return, viem's receipt wait has a timeout,
hooks end); the chain need not mine, no script has to start, and `Lock` may be
refused.  `verify`: requests and store calls are answered or fail; no
explorer has to index, judge or import anything.  The other runs assume none.

**Abstract specifications.**  `ImplementsMutex`: the processes inside the lock, as
long as there is no excuse, behave as `DeployMutex`.  `ImplementsLog`: what the
records' histories say, with the origin of an unlogged record as first entry, only
grows at its end by entries that name what they supersede, or is forgotten as a
whole.  `ImplementsRecordStore`: for `read`, `write` and `remove` the files are a
store whose calls take effect at one moment, or throw and have none; a read does
when it finds no file or opens the one it found, a write when it renames.  This is
the store `GetOrDeploy` takes for granted.

## 4. What the violations show

1. `lock_reclaim` (`store.ts:188`): two waiters see the abandoned file, the first
   removes it and locks, the second removes the first one's lock.  Both deploy.
2. `lock_vanish` (`store.ts:186`): the holder releases between a waiter's open and
   its stat; the stat throws `ENOENT` out of `acquireLock` on the first attempt.
3. `register_clobbers` (`engine/pipeline.ts:318`): register checks and writes
   without the lock; a deployment recorded in between is overwritten.
4. `reset_dangles` (`store.ts:240`): references are read before blobs are removed;
   sources pinned in between are lost although their record stays.
5. `reverted_recorded` (`engine/pipeline.ts:191`): the receipt's status is not
   read; on a node that fills in the address of a reverted creation, the failed
   deployment is recorded.

Each names the document, comment or test it contradicts in `PROJECT.json`.

Other places where the code and its words differ, or where a property had to make an
exception, were met while modelling and have no run of their own:

* A store without `writeSources` reports success (`services/store.ts:59`), and the
  record names sources nobody stored; `SourcesPinned` assumes `HasSources`.
* `attempt >= NaN` is never true: sourcify with an unset `maxPolls` polls a job that
  stays incomplete for ever (`deployoor-sourcify/src/index.ts:91`); the other three
  refuse such a number.
* `guides/verify.mdx` and the command-line page differ on whether a record without
  sources fails the run; the code lets it fail, and `OkIsEarned` follows it.
* `strategy: "never"` warns of a changed bytecode, which is the unlinked one, and of
  changed arguments: another library address is reused silently, and an argument that
  is merely written differently is warned of.  `NeverSilent` excepts the first.
* Stripping removes the trailing metadata only, so a comment in a contract that is
  embedded in the deployed one (a factory's child) makes `on-change` redeploy
  (`engine/identity.ts:44`).
* A record of schema 1 is compared by creation code, one of schema 2 by runtime code:
  an edit to the constructor alone redeploys the former and reuses the latter.
  `RedeploysWhatChanged` names both exceptions; wherever a record has a hash, hash and
  diff agree on everything else (`HashAgreesWithDiff`).
* Foundry's build-infos name no artifact, so with several in the directory the
  pinned sources may be of an earlier compilation of the file
  (`artifacts/foundry.ts:46`); `RecordDescribesItsCode` can promise only that the file
  is among them.
* The pinned blob contains the fully qualified name, so two contracts of one
  compilation never share one, though `engine/sources.ts:11` says so.
* A fixture restores the EVM and not the store: after a restore a record may name an
  address that is empty or will be another contract's, and `getOrDeploy` reuses it.
  `StaleRecordsExplained` says which.
* `init` creates `deployoor.config.ts` beside an existing `deployoor.config.js`, which
  it then shadows; `ConfigStaysTheUsers` says that nothing else replaces a config.
* A line saved to an ignore file between the second reading and the writing of
  `removeIgnoreRules` is lost; `OnlyApprovedLinesGo` excepts it.

## 5. What is proved

The theorems hold for every number of processes, names, identities, transactions,
calls, callers, contracts and jobs, with only the named `ASSUME`s of the modules,
which the runs evaluate, and the hypotheses a theorem states.

* **`DeployLock_proofs`**: `TypeCorrect`; `Exclusive`; `LockImplementsMutex`.
  `ExclusiveUnlessExcused` is not inductive: after a `Reclaim` it holds only because
  the file removed is the one that was judged stale.  `Undisturbed` adds that
  whoever is about to remove the file is alone and the file is still the orphan,
  and that only an orphan is stale.  The refinement follows since then a step
  changes the holder set by one process at most.
* **`GetOrDeploy_proofs`**: `TypeCorrect`, from types and `Busy` (a process not idle
  has a job).  `CallInv` adds `Labels` (a location belongs to one operation) and
  `Solitude` (an operation in `Alone` runs alone).  On it rest:
  `ReadDeployWriteAtomic`, with `HoldInv`: who is between `Lock` and `Release` holds
  its slot, so no other writes the record (hypotheses: `HasLock`, register and
  reset alone); `SourcesNeverDangle`, with `PinInv` and `KeepInv`: what a call
  pinned is stored, and what a reset keeps covers all records (`HasSources`, resets
  alone; no lock needed); `RecordedDeploymentsExist`, with `TxInv`: from the receipt
  to the write the transaction is created and the call's own
  (`~RevertedHasAddress`; no lock needed); `RegisterNeverClobbers`, with `RegInv`
  (register alone); `DeployNeverReplacesExternal`, with `DeployInv` and
  `CallSeesCurrentRecord`; `HistoriesExplain`, with `HistoryInv`: the record a call
  decided on is one the store may hold (`Sound`) and its decision stands, so that
  what it appends explains the new address whoever holds the lock by then (no
  hypothesis, not even the lock); `CreationsAccounted`, with `OwnTx` (from the
  broadcast to the write a call knows its own transaction) and `AccountedInv` (every
  transaction is written off, in the hands of its call, or in its slot's history):
  what a write replaces is what the call read, by `ReadDeployWriteAtomic`, so no
  history loses an entry (the lock, register and reset alone); and
  `StoreImplementsLog`, which says of each step which action of `DeploymentLog` it
  is, on the invariants just named and under the same hypotheses.
  `InheritedAssumption` says what a store holds at first: records whose addresses are
  from before and whose histories, if any, explain them.
* **`FsStore_proofs`**: `FilesTypeCorrect`, which needs `MadeFirst` (a record is
  renamed into a directory its own call has made, and none is removed);
  `ListingsAreCurrent`, `PruningSparesNamed`, `ThrowingIsJustified`, from `WatchInv`,
  which relates what a call has found out to `window`: each slot of the networks
  asked for is in a directory still to be read, a file still to be loaded, loaded,
  or was once absent or damaged during the call (`Covers`), and what is loaded was
  there (`Sees`).  The window only grows, so a process's part is not disturbed by
  another's step (`Undisturbed`).  `FilesImplementStore`: every step is a step of
  `RecordStore` or a stutter.
* **`VerifyRun_proofs`**, on the verifiers: `VerifierTypeCorrect`, `SuccessIsEarned`,
  `FailureIsFounded`, `PollsAreReal`, `RerunIsSafe`.  `Dialects` and `Submissions`
  state that each plugin's texts tell the answers apart.  The invariant `VInv` adds to
  the types that what an explorer holds is consistent (`ExplorerInv`: verified
  contracts are indexed, a passed job's contract is verified) and that what a call
  learnt stays true (`CallInv`): the guid is its own job's, and a re-run's job cannot
  have failed.  The last is why a re-run is safe: a job queued for a contract that is
  already verified ends as passed or as a duplicate.  On the command:
  `RunImplementsVerifier`: every behaviour of the run and its neighbours is one of
  `Verifier`, and with it (`RunKeepsVerdicts`) the four properties above hold for the
  run; `RunTypeCorrect`, `RecordsAccounted` and `OkMeansVerified`, from `VRInv`, which
  adds `HooksInv` (the plugins still to run are the last of the selected ones, and
  those before them verified the record unless a failure is noted), `OutcomesInv`
  (what an outcome says was done is still so: explorers do not forget) and
  `StagesInv`.

* **`Identity_proofs`**: `HashAgreesWithDiff`.  A record keeps arguments as JSON does
  and a call passes them as it likes, so the argument that the hash moves exactly when
  the diff finds a difference goes over what an encoding means (`EncodesToMeanings`,
  `ArgumentsAgree`), what stripping keeps (`StrippedIsCode`) and libraries
  (`LibrariesAgree`).  Its hypotheses are that both arguments encode, that the record
  has a hash, and that the constructor's inputs are the recorded ones.
* **`Workspace_proofs`**: `WorkspaceTypeCorrect`, `RecordsDescribe`, `IndexAlwaysLoads`,
  `RedeploysExactly`, `DriftIsWarnedOf`, `CallsReadLastBuild`.  The invariant `WInv`
  has a part for each of the things that meet in a call.  `IndexInv`: whatever an
  index still to be written exports is on disk or ahead of it in the queue
  (`Ahead`); `IndexLoads` alone does not say why the next index will load.
  `ProjectInv`: a project is one of those considered, under one of its
  configurations.  `BuildInv`: what an output directory holds was put there by a
  toolchain of the project, and where the last compilation went there is its tree or
  nothing; `CallsReadLastBuild` follows, since without the exceptions deployoor reads
  that very directory.  `RecordInv`: the record tells of the deployment that is live
  (`RecordOfDeployment`): its code, the meaning of its arguments, its libraries, and
  hashes that are theirs or absent.  What an on-change
  call decides is then traced to what was compared: equal hashes or an empty diff
  mean the same code, meanings and libraries (`ReuseTells`, by `CodeTells`,
  `DiffTells`, `EncodingTells`), and different ones mean a difference among those
  `RedeploysWhatChanged` names (`ReplaceTells`).  `ArtifactsResolved` and
  `ArtifactsRead` say that a call only ever holds an artifact of the compiler's, with
  sources that have its file or are none.  The assumptions: an old record is one that an earlier
  version would have left (`SetupsAssumption`); a value has one type, so that its
  meaning tells values of two types apart (`ArgValuesAssumption`); every directory a
  configuration names is among those considered (`DirectoriesAssumption`); code has its
  four parts (`CompiledAssumption`); a record or hash that is there is not the absent one
  (`NoValueAssumption`).
* **`TestFixtures_proofs`**: `TypeCorrect`; `StaleRecordsAccounted`, with `StaleInv`:
  below the shortest history an EVM was restored to, every live snapshot agrees with
  the EVM as it is, so that no later restore can move a record that lies there, nor
  what a deployment already sent is about to record (`AwaitedAccounted`);
  `ThrowsExplained` and `Restores`, with `AwaitsInTurn` and `FixtureInv`: a test awaits a
  deployment in its own body or in a setup, so that a call sends none once it restores;
  of the calls that overlap on an EVM at most one is undisturbed (`FirstUndisturbed`);
  a cached snapshot is live and holds what was captured, or was consumed by another
  fixture or by a test itself, unless its own fixture is renewing it at this moment
  (`CacheHolds`); and while an undisturbed call is about to restore, nobody else of its
  fixture is past that point (`CallsHold`).
* **`CommandLine_proofs`**: `UsersConfigStays`: a config of the first name decides,
  and no step but a save replaces it.  `ApprovedLinesOnly`, with `LinesInv`: only who
  asks at a terminal comes to edit an ignore file, which is a list of lines; a
  rewrite leaves out no position but the dropped ones (`EnumerationIsComplete`).

Only model-checked are the liveness properties (`EveryWaiterAnswered`,
`AbandonedLockRecovered`, `LockComesFree`, `EveryVerificationSettles`,
`RunEndsInReport`), as fairness and `ENABLED` are beyond the prover.  Every other
property of a passing run is a theorem.  For that, what the code filters, sorts or
lists in directory order is given in the models by what it is and not by recursion:
`Filtered` and `RemoveIgnoreRules` as the increasing enumeration of the positions that
stay, `RunGenerate` over every order of the contracts, `Pairs` as a function of the
position.

## 6. Not modelled

Text and wire formats (JSON, RPC encoding, reports, the generated TypeScript and its
import extension), the flags of `verify`, what an EVM computes, the Slack message
and the wagmi mapping (one request and one pure function), rendering of
the documentation, the examples.  Two contracts of one name: the generator writes one
file per name, and the last of them wins.  A file in the output directory that is no
JSON at all makes a read throw; the model has the missing directory for that.  The Hardhat hook's generation reads the configuration as
a deploy script does, although it runs inside Hardhat.  A `setup` deploys one contract;
if it throws, its call ends and leaves what it did on the EVM (`Fail`).  The step of the
plugins in `GetOrDeploy` is opaque: a hook that calls `getOrDeploy` itself is not there.
A store write that lands and rejects all the same has no step in `GetOrDeploy`: it leaves
what `Write` and `Hooks` leave, and `RegWrite` in register.
`GetOrDeploy` takes a store call as atomic, which `FilesImplementStore` justifies
for single records, and lets the lock be the mutex that `DeployLock` is until an
excuse happens; its reset keeps the two reads of `pruneSources`, records first and
blobs afterwards, apart.  In `FsStore` the disk does not fail: a call throws only
over a damaged or vanished file.  A contract whose name ends in ".sources" would be
skipped by listings (`store.ts:159`); such names are left out.  Concurrent
resets that race for the same file throw in `FsStore`, and appear in `GetOrDeploy`
as store calls that throw.

## 7. Plan

Done, in this order: the lock and its mutex; the pipeline with register and reset
and the log; verifiers and the verify command; the files and the atomic store; the
identity and the toolchain's files; a contract's life in a workspace; the command
line; fixtures; the proofs of section 5.

Next:

1. The theorems about `GetOrDeploy` assume the mutex and those about `DeployLock` give
   it until an excuse: state the composition, so that `CallSeesCurrentRecord` follows up
   to the first excuse.
2. A plugin that calls `getOrDeploy` from its hook: the pipeline re-entered under its
   own lock.
3. `memoryStore` in `pipeline`: two calls of one process for one name.
