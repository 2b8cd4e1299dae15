---------------------------- MODULE TestFixtures ----------------------------
(***************************************************************************)
(* @deployoor/testing over @deployoor/evm: tests share in-process EVMs, each *)
(* with the in-memory store createTestClients gives it, and call fixtures    *)
(* (createFixture), which snapshot the EVM the first time and restore it     *)
(* later.  Tests take and restore snapshots of their own as well.  What      *)
(* reads or changes an EVM or a store is a step of its own: other tests of    *)
(* the process run in between.                                               *)
(*                                                                           *)
(* The state of an EVM is the sequence of what was done to it, a contract's  *)
(* address being its place in it: a restore takes nonces back as well, and   *)
(* the next contract gets the address of one that is gone.                   *)
(***************************************************************************)
EXTENDS Naturals, Sequences, FiniteSets, Functions

CONSTANTS
    Tests, Nodes, Fixtures,
    Contract,       \* the contract each fixture's setup deploys
    Names,          \* contracts
    Suites,         \* how tests are arranged, [at, boot]: the node each runs on, and how each node
                    \* is created, [forked, deployments, network]
    Poke,           \* anything else done to an EVM: a call, a cheatcode, a mined block
    Nothing,        \* no record, no cache entry
    MaxDone, MaxCalls, MaxTaken     \* bounds: length of an EVM's history, fixture calls, the
                                    \* snapshots tests take of an EVM themselves

ASSUME FixturesAssumption ==
    /\ Poke \notin Names /\ Nothing \notin Nat \cup Fixtures
    /\ Contract \in [Fixtures -> Names]
    /\ \A suite \in Suites : /\ suite.at \in [Tests -> Nodes]
                              /\ \A n \in Nodes : suite.boot[n].forked \in Seq(Names \cup {Poke})
    /\ MaxDone \in Nat /\ MaxCalls \in Nat /\ MaxTaken \in Nat

VARIABLES
    evm,            \* what was done to each EVM
    snaps,          \* its live snapshots: id -> history
    nextId,
    store,          \* the in-memory store of each node: where the record of a name says it is
    pending,        \* the getOrDeploy a test awaits: [name, address], the address once it was sent
    taken,          \* the snapshot ids tests of an EVM hold themselves
    cache,          \* createFixture's WeakMap: the snapshot id per fixture and node
    pc, at, fixture, id,    \* a test: where it is, on which node, in which fixture, with which id
    disturbed,      \* history: whether another test got between the steps of this one's call
    base, tainted,  \* history: what a fixture captured, and whether the cached snapshot was disturbed
    consumer,       \* history: the fixture that consumed an id, Nothing for a test itself
    lowest,         \* history: the shortest history an EVM was restored to
    seeded, calls   \* history: the store createTestClients made; fixture calls so far

node == <<evm, snaps, nextId>>
ghosts == <<base, tainted, consumer, lowest, seeded>>
vars == <<node, store, pending, taken, cache, pc, at, fixture, id, ghosts, disturbed, calls>>

InCall == {"setup", "snapshot", "set", "revert", "resnap", "reset"}

Goto(t, label) == pc' = [pc EXCEPT ![t] = label]

\* Test t has changed EVM n: every other test in a call on it has been disturbed.
Disturb(t, n) ==
    disturbed' = [u \in Tests |-> disturbed[u] \/ (u # t /\ pc[u] \in InCall /\ at[u] = n)]

-----------------------------------------------------------------------------
(* The node and its store. *)

\* readDeploymentRecords: the records of the network asked for, or all of them, projected onto the
\* test chain; of two networks' records of one name the later in the directory stays.
Seeds(boot) ==
    LET matching == {r \in boot.deployments : boot.network = Nothing \/ r.network = boot.network}
    IN  {s \in [Names -> {Nothing} \cup {r.address : r \in matching}] :
            \A name \in Names :
               IF \E r \in matching : r.name = name
               THEN \E r \in matching : r.name = name /\ s[name] = r.address
               ELSE s[name] = Nothing}

\* createTestClients: a fresh chain, or the fork of one, and a store of its own.
Init ==
    /\ \E suite \in Suites :
          /\ at = suite.at
          /\ evm = [n \in Nodes |-> suite.boot[n].forked]
          /\ store \in {s \in [Nodes -> UNION {Seeds(suite.boot[n]) : n \in Nodes}] :
                           \A n \in Nodes : s[n] \in Seeds(suite.boot[n])}
    /\ snaps = [n \in Nodes |-> <<>>]
    /\ nextId = [n \in Nodes |-> 1]
    /\ pending = [t \in Tests |-> Nothing]
    /\ taken = [n \in Nodes |-> {}]
    /\ cache = [f \in Fixtures |-> [n \in Nodes |-> Nothing]]
    /\ pc = [t \in Tests |-> "test"]
    /\ fixture = [t \in Tests |-> Nothing]
    /\ id = [t \in Tests |-> 0]
    /\ base = [f \in Fixtures |-> [n \in Nodes |-> <<>>]]
    /\ tainted = [f \in Fixtures |-> [n \in Nodes |-> FALSE]]
    /\ disturbed = [t \in Tests |-> FALSE]
    /\ consumer = [n \in Nodes |-> <<>>]
    /\ lowest = [n \in Nodes |-> MaxDone + 1]
    /\ seeded = store
    /\ calls = 0

\* evm_snapshot: a fresh id.
Snapshot(n) ==
    /\ snaps' = [snaps EXCEPT ![n] = [i \in DOMAIN @ \cup {nextId[n]} |->
                                         IF i = nextId[n] THEN evm[n] ELSE @[i]]]
    /\ nextId' = [nextId EXCEPT ![n] = @ + 1]

\* evm_revert of a live id consumes it and every later one.
Restore(n, i, by) ==
    LET gone == {j \in DOMAIN snaps[n] : j >= i}
    IN  /\ evm' = [evm EXCEPT ![n] = snaps[n][i]]
        /\ snaps' = [snaps EXCEPT ![n] = Restrict(@, DOMAIN @ \ gone)]
        /\ consumer' = [consumer EXCEPT ![n] = [j \in DOMAIN @ \cup gone |->
                           IF j \in gone THEN by ELSE @[j]]]
        /\ lowest' = [lowest EXCEPT ![n] = IF Len(snaps[n][i]) < @ THEN Len(snaps[n][i]) ELSE @]

-----------------------------------------------------------------------------
(* getOrDeploy with the node's store, which has no lock. *)

\* The record is read: reuse it, or go on to deploy.
GetOrDeploy(t, name) ==
    pending' = [pending EXCEPT ![t] =
                   IF store[at[t]][name] = Nothing THEN [name |-> name, address |-> Nothing] ELSE @]

\* The creation is mined as it is sent.
Send(t) ==
    LET n == at[t]
    IN  /\ pending[t] # Nothing /\ pending[t].address = Nothing
        /\ Len(evm[n]) < MaxDone
        /\ evm' = [evm EXCEPT ![n] = Append(@, pending[t].name)]
        /\ pending' = [pending EXCEPT ![t].address = Len(evm[n]) + 1]
        /\ Disturb(t, n)
        /\ UNCHANGED <<snaps, nextId, store, taken, cache, pc, at, fixture, id, ghosts, calls>>

\* Mutant: the address is taken from the chain after the awaits, not from the transaction.
WriteLatest(n, name, address) == [store EXCEPT ![n][name] = Len(evm[n])]

WriteRecord(n, name, address) == [store EXCEPT ![n][name] = address]

Write(t) ==
    /\ pending[t] # Nothing /\ pending[t].address # Nothing
    /\ store' = WriteRecord(at[t], pending[t].name, pending[t].address)
    /\ pending' = [pending EXCEPT ![t] = Nothing]
    /\ UNCHANGED <<node, taken, cache, pc, at, fixture, id, ghosts, disturbed, calls>>

-----------------------------------------------------------------------------
(* A test. *)

\* It deploys, or changes the EVM in any other way.
Test(t) ==
    /\ pc[t] = "test" /\ pending[t] = Nothing
    /\ \/ /\ \E name \in Names : GetOrDeploy(t, name)
          /\ UNCHANGED <<evm, disturbed>>
       \/ /\ Len(evm[at[t]]) < MaxDone
          /\ evm' = [evm EXCEPT ![at[t]] = Append(@, Poke)]
          /\ Disturb(t, at[t])
          /\ UNCHANGED pending
    /\ UNCHANGED <<snaps, nextId, store, taken, cache, pc, at, fixture, id, ghosts, calls>>

\* cheatcodes.snapshot: the tests of an EVM may share the id.
TestSnapshot(t) ==
    LET n == at[t]
    IN  /\ pc[t] = "test" /\ pending[t] = Nothing
        /\ Cardinality(taken[n]) < MaxTaken
        /\ Snapshot(n)
        /\ taken' = [taken EXCEPT ![n] = @ \cup {nextId[n]}]
        /\ UNCHANGED <<evm, store, pending, cache, pc, at, fixture, id, ghosts, disturbed, calls>>

\* cheatcodes.revert: of an id that is gone it answers false, and nothing changes.
TestRevert(t) ==
    LET n == at[t]
    IN  /\ pc[t] = "test" /\ pending[t] = Nothing
        /\ \E i \in taken[n] \cap DOMAIN snaps[n] : Restore(n, i, Nothing)
        /\ Disturb(t, n)
        /\ UNCHANGED <<nextId, store, pending, taken, cache, pc, at, fixture, id, base, tainted, seeded,
                       calls>>

-----------------------------------------------------------------------------
(* createFixture. *)

Enter(t) ==
    /\ pc[t] \in {"test", "threw"} /\ pending[t] = Nothing
    /\ calls < MaxCalls /\ calls' = calls + 1
    /\ \E f \in Fixtures :
          LET cached == cache[f][at[t]]
          IN  /\ fixture' = [fixture EXCEPT ![t] = f]
              /\ id' = [id EXCEPT ![t] = IF cached = Nothing THEN 0 ELSE cached]
              /\ Goto(t, IF cached = Nothing THEN "setup" ELSE "revert")
    /\ disturbed' = [disturbed EXCEPT ![t] =
                        \E u \in Tests \ {t} : pc[u] \in InCall /\ at[u] = at[t]]
    /\ UNCHANGED <<node, store, pending, taken, cache, at, ghosts>>

Setup(t) ==
    /\ pc[t] = "setup"
    /\ GetOrDeploy(t, Contract[fixture[t]])
    /\ Goto(t, "snapshot")
    /\ UNCHANGED <<node, store, taken, cache, at, fixture, id, ghosts, disturbed, calls>>

\* The first snapshot, once setup is done, and the one that renews it.
TakeSnapshot(t) ==
    /\ pc[t] \in {"snapshot", "resnap"} /\ pending[t] = Nothing
    /\ Snapshot(at[t])
    /\ id' = [id EXCEPT ![t] = nextId[at[t]]]
    /\ Goto(t, IF pc[t] = "snapshot" THEN "set" ELSE "reset")
    /\ UNCHANGED <<evm, store, pending, taken, cache, at, fixture, ghosts, disturbed, calls>>

\* Mutant: one slot for every node.
SetOnlyCache(t) == cache' = [cache EXCEPT ![fixture[t]] = [n \in Nodes |-> id[t]]]

SetCache(t) == cache' = [cache EXCEPT ![fixture[t]][at[t]] = id[t]]

\* The value is returned: the test begins, the call's locals are gone.
Return(t) ==
    /\ Goto(t, "test")
    /\ fixture' = [fixture EXCEPT ![t] = Nothing]
    /\ id' = [id EXCEPT ![t] = 0]
    /\ disturbed' = [disturbed EXCEPT ![t] = FALSE]

\* A deployment rejects, or setup does: nothing is cached, and the next call sets up again.
Fail(t) ==
    /\ pending[t] # Nothing \/ pc[t] = "snapshot"
    /\ pending' = [pending EXCEPT ![t] = Nothing]
    /\ IF pc[t] = "snapshot" THEN Return(t) ELSE UNCHANGED <<pc, fixture, id, disturbed>>
    /\ UNCHANGED <<node, store, taken, cache, at, ghosts, calls>>

Captured(t) ==
    LET f == fixture[t]  n == at[t]
    IN  /\ pc[t] = "set"
        /\ SetCache(t)
        /\ base' = [base EXCEPT ![f][n] = evm[n]]
        /\ tainted' = [tainted EXCEPT ![f][n] = disturbed[t]]
        /\ Return(t)
        /\ UNCHANGED <<node, store, pending, taken, at, consumer, lowest, seeded, calls>>

Throw(t) == Goto(t, "threw")

Revert(t) ==
    /\ pc[t] = "revert"
    /\ IF id[t] \notin DOMAIN snaps[at[t]]
       THEN Throw(t) /\ UNCHANGED <<node, consumer, lowest, disturbed>>
       ELSE /\ Restore(at[t], id[t], fixture[t])
            /\ Disturb(t, at[t])
            /\ Goto(t, "resnap")
            /\ UNCHANGED nextId
    /\ UNCHANGED <<store, pending, taken, cache, at, fixture, id, base, tainted, seeded, calls>>

\* Mutant: the consumed id is kept.
SetCacheOnce(t) == UNCHANGED cache

RenewCache(t) == SetCache(t)

Renewed(t) ==
    /\ pc[t] = "reset"
    /\ RenewCache(t)
    /\ tainted' = IF disturbed[t] THEN [tainted EXCEPT ![fixture[t]][at[t]] = TRUE] ELSE tainted
    /\ Return(t)
    /\ UNCHANGED <<node, store, pending, taken, at, base, consumer, lowest, seeded, calls>>

Next ==
    \E t \in Tests :
        \/ Test(t) \/ TestSnapshot(t) \/ TestRevert(t) \/ Send(t) \/ Write(t)
        \/ Enter(t) \/ Setup(t) \/ TakeSnapshot(t) \/ Fail(t)
        \/ Captured(t) \/ Revert(t) \/ Renewed(t)

Spec == Init /\ [][Next]_vars

-----------------------------------------------------------------------------
(* Properties. *)

Histories == Seq(Names \cup {Poke})
Pending == [name : Names, address : Nat \cup {Nothing}]

\* What each variable holds: an id is never given out twice, and a test in a call is in a fixture.
TypeOK ==
    /\ evm \in [Nodes -> Histories]
    /\ nextId \in [Nodes -> Nat \ {0}]
    /\ snaps = [n \in Nodes |-> [i \in DOMAIN snaps[n] |-> snaps[n][i]]]
    /\ \A n \in Nodes : \A i \in DOMAIN snaps[n] : i \in 1 .. nextId[n] - 1 /\ snaps[n][i] \in Histories
    /\ store = [n \in Nodes |-> [name \in Names |-> store[n][name]]]
    /\ pending \in [Tests -> {Nothing} \cup Pending]
    /\ taken \in [Nodes -> SUBSET Nat]
    /\ cache \in [Fixtures -> [Nodes -> Nat \cup {Nothing}]]
    /\ pc \in [Tests -> InCall \cup {"test", "threw"}]
    /\ at \in [Tests -> Nodes]
    /\ fixture \in [Tests -> Fixtures \cup {Nothing}]
    /\ \A t \in Tests : pc[t] \in InCall => fixture[t] \in Fixtures
    /\ id \in [Tests -> Nat]
    /\ lowest \in [Nodes -> Nat]

\* A fixture called again gives its test the EVM its setup left (createFixture), however often it was
\* called and whatever tests did in between, unless another test got between the steps of this
\* call or of the one that renewed the snapshot.
RestoresWhatWasCaptured ==
    [][\A t \in Tests : pc[t] = "reset" /\ pc'[t] = "test" =>
          \/ disturbed[t] \/ tainted[fixture[t]][at[t]]
          \/ evm[at[t]] = base[fixture[t]][at[t]]]_vars

\* A call throws only when it cannot restore: another fixture, or a test itself, restored an older
\* snapshot of the same EVM and so consumed this one, or calls overlapped.
ThrowsOnlyWhenConsumed ==
    \A t \in Tests : pc[t] = "threw" =>
        \/ disturbed[t] \/ tainted[fixture[t]][at[t]]
        \/ id[t] \in DOMAIN consumer[at[t]] /\ consumer[at[t]][id[t]] # fixture[t]

\* A record whose address does not hold its contract (the store is not part of the EVM, and a restore
\* leaves it alone) was written after the snapshot of some restore, or was projected onto the
\* test chain by createTestClients: getOrDeploy reuses only such records wrongly.
StaleRecordsExplained ==
    \A n \in Nodes, name \in Names :
        LET address == store[n][name]
        IN  address # Nothing /\ ~ (address \in DOMAIN evm[n] /\ evm[n][address] = name) =>
                address > lowest[n] \/ seeded[n][name] = address
=============================================================================
