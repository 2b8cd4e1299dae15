------------------------- MODULE TestFixtures_proofs -------------------------
(***************************************************************************)
(* Proofs about TestFixtures, for any tests, nodes, fixtures and contracts: *)
(* type correctness, where a store's stale records come from, why a call    *)
(* throws, and that an undisturbed call restores what was captured.         *)
(***************************************************************************)
EXTENDS TestFixtures, TLAPS

LEMMA InitTypeOK == Init => TypeOK
<1> SUFFICES ASSUME Init PROVE TypeOK
  OBVIOUS
<1>1. PICK suite \in Suites :
         /\ at = suite.at
         /\ evm = [n \in Nodes |-> suite.boot[n].forked]
         /\ store \in {s \in [Nodes -> UNION {Seeds(suite.boot[n]) : n \in Nodes}] :
                          \A n \in Nodes : s[n] \in Seeds(suite.boot[n])}
  BY DEF Init
<1>2. evm \in [Nodes -> Histories]
  BY <1>1, FixturesAssumption DEF Histories
<1>3. store = [n \in Nodes |-> [name \in Names |-> store[n][name]]]
  <2>1. \A n \in Nodes : store[n] = [name \in Names |-> store[n][name]]
    BY <1>1 DEF Seeds
  <2>2. store = [n \in Nodes |-> store[n]]
    BY <1>1
  <2>3. QED
    BY <2>1, <2>2
<1>4. snaps = [n \in Nodes |-> [i \in DOMAIN snaps[n] |-> snaps[n][i]]]
      /\ \A n \in Nodes : DOMAIN snaps[n] = {}
  BY DEF Init
<1>5. /\ cache \in [Fixtures -> [Nodes -> Nat \cup {Nothing}]]
      /\ fixture \in [Tests -> Fixtures \cup {Nothing}]
      /\ nextId \in [Nodes -> Nat \ {0}] /\ lowest \in [Nodes -> Nat]
      /\ pc \in [Tests -> InCall \cup {"test", "threw"}] /\ \A t \in Tests : pc[t] \notin InCall
      /\ pending \in [Tests -> {Nothing} \cup Pending] /\ taken \in [Nodes -> SUBSET Nat]
      /\ at \in [Tests -> Nodes] /\ id \in [Tests -> Nat]
  BY <1>1, FixturesAssumption DEF Init, InCall
<1>6. QED
  BY <1>2, <1>3, <1>4, <1>5 DEF TypeOK

\* What a deployment that is awaited, and the ids tests hold, can be.
LEMMA AwaitedTypes ==
    TypeOK /\ [Next]_vars =>
        pending' \in [Tests -> {Nothing} \cup Pending] /\ taken' \in [Nodes -> SUBSET Nat]
<1> SUFFICES ASSUME TypeOK, [Next]_vars
             PROVE  pending' \in [Tests -> {Nothing} \cup Pending] /\ taken' \in [Nodes -> SUBSET Nat]
  OBVIOUS
<1>1. ASSUME UNCHANGED pending PROVE pending' \in [Tests -> {Nothing} \cup Pending]
  BY <1>1 DEF TypeOK
<1>2. ASSUME UNCHANGED taken PROVE taken' \in [Nodes -> SUBSET Nat]
  BY <1>2 DEF TypeOK
<1>3. ASSUME NEW t \in Tests, NEW name \in Names, GetOrDeploy(t, name)
      PROVE  pending' \in [Tests -> {Nothing} \cup Pending]
  BY <1>3 DEF GetOrDeploy, TypeOK, Pending
<1>4. ASSUME NEW t \in Tests, Test(t)
      PROVE  pending' \in [Tests -> {Nothing} \cup Pending] /\ taken' \in [Nodes -> SUBSET Nat]
  BY <1>1, <1>2, <1>3, <1>4 DEF Test
<1>5. ASSUME NEW t \in Tests, TestSnapshot(t)
      PROVE  pending' \in [Tests -> {Nothing} \cup Pending] /\ taken' \in [Nodes -> SUBSET Nat]
  <2>1. taken' = [taken EXCEPT ![at[t]] = @ \cup {nextId[at[t]]}] /\ nextId[at[t]] \in Nat
    BY <1>5 DEF TestSnapshot, TypeOK
  <2>2. QED
    BY <1>1, <1>5, <2>1 DEF TestSnapshot, TypeOK
<1>6. ASSUME NEW t \in Tests, Send(t)
      PROVE  pending' \in [Tests -> {Nothing} \cup Pending] /\ taken' \in [Nodes -> SUBSET Nat]
  <2>1. /\ pending[t] \in Pending /\ Len(evm[at[t]]) + 1 \in Nat
        /\ pending' = [pending EXCEPT ![t] = [@ EXCEPT !.address = Len(evm[at[t]]) + 1]]
    BY <1>6 DEF Send, TypeOK, Histories
  <2>2. [pending[t] EXCEPT !.address = Len(evm[at[t]]) + 1] \in Pending
    BY <2>1 DEF Pending
  <2>3. QED
    BY <1>2, <1>6, <2>1, <2>2 DEF Send, TypeOK
<1>7. ASSUME NEW t \in Tests, Write(t) \/ Fail(t)
      PROVE  pending' \in [Tests -> {Nothing} \cup Pending] /\ taken' \in [Nodes -> SUBSET Nat]
  <2>1. pending' = [pending EXCEPT ![t] = Nothing] /\ UNCHANGED taken
    BY <1>7 DEF Write, Fail
  <2>2. QED
    BY <1>2, <2>1 DEF TypeOK
<1>8. ASSUME NEW t \in Tests, Setup(t)
      PROVE  pending' \in [Tests -> {Nothing} \cup Pending] /\ taken' \in [Nodes -> SUBSET Nat]
  <2>1. Contract[fixture[t]] \in Names
    BY <1>8, FixturesAssumption DEF Setup, TypeOK, InCall
  <2>2. QED
    BY <1>2, <1>3, <1>8, <2>1 DEF Setup
<1>9. ASSUME NEW t \in Tests,
             TestRevert(t) \/ Enter(t) \/ TakeSnapshot(t) \/ Captured(t) \/ Revert(t) \/ Renewed(t)
      PROVE  pending' \in [Tests -> {Nothing} \cup Pending] /\ taken' \in [Nodes -> SUBSET Nat]
  BY <1>1, <1>2, <1>9 DEF TestRevert, Enter, TakeSnapshot, Captured, Revert, Renewed
<1>10. CASE UNCHANGED vars
  BY <1>1, <1>2, <1>10 DEF vars
<1>11. QED
  BY <1>4, <1>5, <1>6, <1>7, <1>8, <1>9, <1>10 DEF Next

\* A snapshot is given a new id and holds the EVM as it is; the others stay.
LEMMA SnapshotTaken ==
    ASSUME TypeOK, NEW n \in Nodes, Snapshot(n)
    PROVE  /\ snaps' = [m \in Nodes |-> [i \in DOMAIN snaps'[m] |-> snaps'[m][i]]]
           /\ \A m \in Nodes : \A i \in DOMAIN snaps'[m] :
                 \/ i \in DOMAIN snaps[m] /\ snaps'[m][i] = snaps[m][i]
                 \/ m = n /\ i = nextId[n] /\ snaps'[m][i] = evm[n]
           /\ nextId' \in [Nodes -> Nat \ {0}]
           /\ \A m \in Nodes : nextId'[m] = IF m = n THEN nextId[m] + 1 ELSE nextId[m]
<1>1. snaps' = [m \in Nodes |-> IF m = n THEN [i \in DOMAIN snaps[n] \cup {nextId[n]} |->
                                                  IF i = nextId[n] THEN evm[n] ELSE snaps[n][i]]
                                ELSE snaps[m]]
  BY DEF Snapshot, TypeOK
<1>2. \A m \in Nodes : snaps[m] = [i \in DOMAIN snaps[m] |-> snaps[m][i]]
  BY DEF TypeOK
<1>3. snaps' = [m \in Nodes |-> [i \in DOMAIN snaps'[m] |-> snaps'[m][i]]]
  <2>1. \A m \in Nodes : snaps'[m] = [i \in DOMAIN snaps'[m] |-> snaps'[m][i]]
    BY <1>1, <1>2
  <2>2. snaps' = [m \in Nodes |-> snaps'[m]]
    BY <1>1
  <2>3. QED
    BY <2>1, <2>2
<1>4. \A m \in Nodes : \A i \in DOMAIN snaps'[m] :
         \/ i \in DOMAIN snaps[m] /\ snaps'[m][i] = snaps[m][i]
         \/ m = n /\ i = nextId[n] /\ snaps'[m][i] = evm[n]
  BY <1>1
<1>5. /\ nextId' \in [Nodes -> Nat \ {0}]
      /\ \A m \in Nodes : nextId'[m] = IF m = n THEN nextId[m] + 1 ELSE nextId[m]
  BY DEF Snapshot, TypeOK
<1>6. QED
  BY <1>3, <1>4, <1>5

\* A restore puts a live snapshot back and drops it with every later one.
LEMMA Restored ==
    ASSUME TypeOK, NEW n \in Nodes, NEW i \in DOMAIN snaps[n], NEW by, Restore(n, i, by)
    PROVE  /\ evm' = [evm EXCEPT ![n] = snaps[n][i]]
           /\ evm' \in [Nodes -> Histories]
           /\ snaps' = [m \in Nodes |-> [j \in DOMAIN snaps'[m] |-> snaps'[m][j]]]
           /\ \A m \in Nodes : \A j \in DOMAIN snaps'[m] :
                 j \in DOMAIN snaps[m] /\ snaps'[m][j] = snaps[m][j]
           /\ lowest' = [lowest EXCEPT ![n] = IF Len(snaps[n][i]) < @ THEN Len(snaps[n][i]) ELSE @]
           /\ lowest' \in [Nodes -> Nat]
<1> DEFINE gone == {j \in DOMAIN snaps[n] : j >= i}
<1>1. /\ evm' = [evm EXCEPT ![n] = snaps[n][i]]
      /\ snaps' = [snaps EXCEPT ![n] = Restrict(@, DOMAIN @ \ gone)]
      /\ lowest' = [lowest EXCEPT ![n] = IF Len(snaps[n][i]) < @ THEN Len(snaps[n][i]) ELSE @]
  BY DEF Restore
<1>2. snaps[n][i] \in Histories /\ evm' \in [Nodes -> Histories]
  BY <1>1 DEF TypeOK
<1>3. snaps' = [m \in Nodes |-> IF m = n THEN [j \in DOMAIN snaps[n] \ gone |-> snaps[n][j]]
                                ELSE snaps[m]]
  BY <1>1, <1>2 DEF TypeOK, Restrict
<1>4. \A m \in Nodes : snaps'[m] = [j \in DOMAIN snaps'[m] |-> snaps'[m][j]]
  BY <1>3 DEF TypeOK
<1>5. snaps' = [m \in Nodes |-> snaps'[m]]
  BY <1>3
<1>6. snaps' = [m \in Nodes |-> [j \in DOMAIN snaps'[m] |-> snaps'[m][j]]]
  BY <1>4, <1>5
<1>7. \A m \in Nodes : \A j \in DOMAIN snaps'[m] :
         j \in DOMAIN snaps[m] /\ snaps'[m][j] = snaps[m][j]
  BY <1>3
<1>8. lowest' \in [Nodes -> Nat]
  BY <1>1, <1>2 DEF TypeOK, Histories
<1>9. QED
  BY <1>1, <1>2, <1>6, <1>7, <1>8

LEMMA GotoTypes ==
    ASSUME TypeOK, NEW t \in Tests, NEW label \in InCall \cup {"test", "threw"}, Goto(t, label)
    PROVE  /\ pc' \in [Tests -> InCall \cup {"test", "threw"}]
           /\ pc'[t] = label
           /\ \A u \in Tests \ {t} : pc'[u] = pc[u]
BY DEF Goto, TypeOK

\* Snapshots stay below the next id, whether one is taken or some are dropped.
LEMMA SnapsKeepTypes ==
    ASSUME TypeOK,
           \A m \in Nodes : \A i \in DOMAIN snaps'[m] :
              \/ i \in DOMAIN snaps[m] /\ snaps'[m][i] = snaps[m][i]
              \/ i = nextId[m] /\ i < nextId'[m] /\ snaps'[m][i] = evm[m],
           \A m \in Nodes : nextId'[m] \in Nat /\ nextId'[m] >= nextId[m]
    PROVE  \A m \in Nodes : \A i \in DOMAIN snaps'[m] :
              i \in 1 .. nextId'[m] - 1 /\ snaps'[m][i] \in Histories
<1> SUFFICES ASSUME NEW m \in Nodes, NEW i \in DOMAIN snaps'[m]
             PROVE  i \in 1 .. nextId'[m] - 1 /\ snaps'[m][i] \in Histories
  OBVIOUS
<1>1. nextId[m] \in Nat \ {0} /\ nextId'[m] \in Nat /\ nextId'[m] >= nextId[m] /\ evm[m] \in Histories
  BY DEF TypeOK
<1>2. CASE i \in DOMAIN snaps[m] /\ snaps'[m][i] = snaps[m][i]
  BY <1>1, <1>2 DEF TypeOK
<1>3. CASE i = nextId[m] /\ i < nextId'[m] /\ snaps'[m][i] = evm[m]
  BY <1>1, <1>3
<1>4. QED
  BY <1>2, <1>3

LEMMA NextTypeOK == TypeOK /\ [Next]_vars => TypeOK'
<1> SUFFICES ASSUME TypeOK, [Next]_vars PROVE TypeOK'
  OBVIOUS
<1>0. pending' \in [Tests -> {Nothing} \cup Pending] /\ taken' \in [Nodes -> SUBSET Nat]
  BY AwaitedTypes
<1>1. ASSUME NEW t \in Tests, Test(t) \/ Send(t) \/ Write(t) PROVE TypeOK'
  <2>1. UNCHANGED <<snaps, nextId, cache, pc, at, fixture, id, lowest>> /\ at[t] \in Nodes
    BY <1>1 DEF Test, Send, Write, node, ghosts, TypeOK
  <2>2. evm' \in [Nodes -> Histories]
    <3>1. ASSUME NEW done \in Names \cup {Poke}, evm' = [evm EXCEPT ![at[t]] = Append(@, done)]
          PROVE  evm' \in [Nodes -> Histories]
      BY <2>1, <3>1 DEF TypeOK, Histories
    <3>2. CASE UNCHANGED evm
      BY <3>2 DEF TypeOK
    <3>3. CASE Test(t)
      BY <3>1, <3>2, <3>3 DEF Test
    <3>4. CASE Send(t)
      <4>1. pending[t].name \in Names /\ evm' = [evm EXCEPT ![at[t]] = Append(@, pending[t].name)]
        BY <3>4 DEF Send, TypeOK, Pending
      <4>2. QED
        BY <3>1, <4>1
    <3>5. QED
      BY <1>1, <3>2, <3>3, <3>4 DEF Write, node
  <2>3. store' = [m \in Nodes |-> [other \in Names |-> store'[m][other]]]
    <3>1. CASE UNCHANGED store
      BY <3>1 DEF TypeOK
    <3>2. CASE Write(t)
      <4>1. store' = [store EXCEPT ![at[t]] = [@ EXCEPT ![pending[t].name] = pending[t].address]]
        BY <3>2 DEF Write, WriteRecord
      <4>2. QED
        BY <2>1, <4>1 DEF TypeOK
    <3>3. QED
      BY <1>1, <3>1, <3>2 DEF Test, Send
  <2>4. QED
    BY <1>0, <2>1, <2>2, <2>3 DEF TypeOK
<1>2. ASSUME NEW t \in Tests, Enter(t) PROVE TypeOK'
  <2>1. UNCHANGED <<evm, snaps, nextId, store, cache, at, lowest>>
    BY <1>2 DEF Enter, node, ghosts
  <2>2. PICK f \in Fixtures :
           /\ fixture' = [fixture EXCEPT ![t] = f]
           /\ id' = [id EXCEPT ![t] = IF cache[f][at[t]] = Nothing THEN 0 ELSE cache[f][at[t]]]
           /\ Goto(t, IF cache[f][at[t]] = Nothing THEN "setup" ELSE "revert")
    BY <1>2 DEF Enter
  <2>3. cache[f][at[t]] \in Nat \cup {Nothing}
    BY DEF TypeOK
  <2>4. /\ pc' \in [Tests -> InCall \cup {"test", "threw"}]
        /\ \A u \in Tests \ {t} : pc'[u] = pc[u]
    BY <2>2, GotoTypes DEF InCall
  <2>5. /\ fixture' \in [Tests -> Fixtures \cup {Nothing}]
        /\ \A u \in Tests : pc'[u] \in InCall => fixture'[u] \in Fixtures
    BY <2>2, <2>4 DEF TypeOK
  <2>6. id' \in [Tests -> Nat]
    BY <2>2, <2>3 DEF TypeOK
  <2>7. QED
    BY <1>0, <2>1, <2>4, <2>5, <2>6 DEF TypeOK
<1>3. ASSUME NEW t \in Tests, Setup(t) PROVE TypeOK'
  <2>1. UNCHANGED <<evm, snaps, nextId, store, cache, at, fixture, id, lowest>>
    BY <1>3 DEF Setup, node, ghosts
  <2>2. fixture[t] \in Fixtures
    BY <1>3 DEF Setup, TypeOK, InCall
  <2>3. /\ pc' \in [Tests -> InCall \cup {"test", "threw"}]
        /\ \A u \in Tests \ {t} : pc'[u] = pc[u]
    BY <1>3, GotoTypes DEF Setup, InCall
  <2>4. \A u \in Tests : pc'[u] \in InCall => fixture'[u] \in Fixtures
    BY <2>1, <2>2, <2>3 DEF TypeOK
  <2>5. QED
    BY <1>0, <2>1, <2>3, <2>4 DEF TypeOK
<1>4. ASSUME NEW n \in Nodes, Snapshot(n)
       PROVE  /\ snaps' = [m \in Nodes |-> [i \in DOMAIN snaps'[m] |-> snaps'[m][i]]]
              /\ \A m \in Nodes : \A i \in DOMAIN snaps'[m] :
                    i \in 1 .. nextId'[m] - 1 /\ snaps'[m][i] \in Histories
              /\ nextId' \in [Nodes -> Nat \ {0}]
  <2>1. /\ snaps' = [m \in Nodes |-> [i \in DOMAIN snaps'[m] |-> snaps'[m][i]]]
        /\ \A m \in Nodes : \A i \in DOMAIN snaps'[m] :
              \/ i \in DOMAIN snaps[m] /\ snaps'[m][i] = snaps[m][i]
              \/ m = n /\ i = nextId[n] /\ snaps'[m][i] = evm[n]
        /\ nextId' \in [Nodes -> Nat \ {0}]
        /\ \A m \in Nodes : nextId'[m] = IF m = n THEN nextId[m] + 1 ELSE nextId[m]
    BY <1>4, SnapshotTaken
  <2>2. \A m \in Nodes : nextId[m] \in Nat
    BY DEF TypeOK
  <2>3. \A m \in Nodes : \A i \in DOMAIN snaps'[m] :
           i \in 1 .. nextId'[m] - 1 /\ snaps'[m][i] \in Histories
    BY <2>1, <2>2, SnapsKeepTypes
  <2>4. QED
    BY <2>1, <2>3
<1>5. ASSUME NEW n \in Nodes, NEW i \in DOMAIN snaps[n], NEW by, Restore(n, i, by), UNCHANGED nextId
       PROVE  /\ evm' \in [Nodes -> Histories] /\ lowest' \in [Nodes -> Nat]
              /\ snaps' = [m \in Nodes |-> [j \in DOMAIN snaps'[m] |-> snaps'[m][j]]]
              /\ \A m \in Nodes : \A j \in DOMAIN snaps'[m] :
                    j \in 1 .. nextId'[m] - 1 /\ snaps'[m][j] \in Histories
              /\ nextId' \in [Nodes -> Nat \ {0}]
  <2>1. /\ evm' \in [Nodes -> Histories] /\ lowest' \in [Nodes -> Nat]
        /\ snaps' = [m \in Nodes |-> [j \in DOMAIN snaps'[m] |-> snaps'[m][j]]]
        /\ \A m \in Nodes : \A j \in DOMAIN snaps'[m] :
              j \in DOMAIN snaps[m] /\ snaps'[m][j] = snaps[m][j]
    BY <1>5, Restored
  <2>2. nextId' \in [Nodes -> Nat \ {0}] /\ \A m \in Nodes : nextId'[m] \in Nat /\ nextId'[m] >= nextId[m]
    BY <1>5 DEF TypeOK
  <2>3. \A m \in Nodes : \A j \in DOMAIN snaps'[m] :
           j \in 1 .. nextId'[m] - 1 /\ snaps'[m][j] \in Histories
    BY <2>1, <2>2, SnapsKeepTypes
  <2>4. QED
    BY <2>1, <2>2, <2>3
<1>6. ASSUME NEW t \in Tests, TestSnapshot(t) PROVE TypeOK'
  <2>1. /\ UNCHANGED <<evm, store, cache, pc, at, fixture, id, lowest>>
        /\ Snapshot(at[t]) /\ at[t] \in Nodes
    BY <1>6 DEF TestSnapshot, TypeOK, ghosts
  <2>2. QED
    BY <1>0, <1>4, <2>1 DEF TypeOK
<1>7. ASSUME NEW t \in Tests, TestRevert(t) PROVE TypeOK'
  <2>1. UNCHANGED <<nextId, store, cache, pc, at, fixture, id>> /\ at[t] \in Nodes
    BY <1>7 DEF TestRevert, TypeOK
  <2>2. PICK i \in DOMAIN snaps[at[t]] : Restore(at[t], i, Nothing)
    BY <1>7 DEF TestRevert
  <2>3. QED
    BY <1>0, <1>5, <2>1, <2>2 DEF TypeOK
<1>8. ASSUME NEW t \in Tests, TakeSnapshot(t) PROVE TypeOK'
  <2>1. UNCHANGED <<evm, store, cache, at, fixture, lowest>> /\ Snapshot(at[t]) /\ at[t] \in Nodes
    BY <1>8 DEF TakeSnapshot, TypeOK, ghosts
  <2>2. fixture[t] \in Fixtures
    BY <1>8 DEF TakeSnapshot, TypeOK, InCall
  <2>3. /\ pc' \in [Tests -> InCall \cup {"test", "threw"}]
        /\ \A u \in Tests \ {t} : pc'[u] = pc[u]
    BY <1>8, GotoTypes DEF TakeSnapshot, InCall
  <2>4. id' \in [Tests -> Nat]
    BY <1>8, <2>1 DEF TakeSnapshot, TypeOK
  <2>5. \A u \in Tests : pc'[u] \in InCall => fixture'[u] \in Fixtures
    BY <2>1, <2>2, <2>3 DEF TypeOK
  <2>6. QED
    BY <1>0, <1>4, <2>1, <2>3, <2>4, <2>5 DEF TypeOK
<1>9. ASSUME NEW t \in Tests, pc[t] \in InCall, Return(t), SetCache(t) \/ UNCHANGED cache,
             UNCHANGED <<node, store, at, lowest>>
      PROVE  TypeOK'
  <2>1. /\ pc' \in [Tests -> InCall \cup {"test", "threw"}]
        /\ pc'[t] = "test" /\ \A u \in Tests \ {t} : pc'[u] = pc[u]
    BY <1>9, GotoTypes DEF Return
  <2>2. /\ fixture' \in [Tests -> Fixtures \cup {Nothing}] /\ id' \in [Tests -> Nat]
        /\ \A u \in Tests : pc'[u] \in InCall => fixture'[u] \in Fixtures
    BY <1>9, <2>1 DEF Return, TypeOK, InCall
  <2>3. cache' \in [Fixtures -> [Nodes -> Nat \cup {Nothing}]]
    <3>1. CASE UNCHANGED cache
      BY <3>1 DEF TypeOK
    <3>2. CASE SetCache(t)
      <4>1. fixture[t] \in Fixtures /\ at[t] \in Nodes /\ id[t] \in Nat
        BY <1>9 DEF TypeOK
      <4>2. cache' = [cache EXCEPT ![fixture[t]] = [@ EXCEPT ![at[t]] = id[t]]]
        BY <3>2 DEF SetCache
      <4>3. QED
        BY <4>1, <4>2 DEF TypeOK
    <3>3. QED
      BY <1>9, <3>1, <3>2
  <2>4. UNCHANGED <<evm, snaps, nextId, store, at, lowest>>
    BY <1>9 DEF node
  <2>5. QED
    BY <1>0, <2>1, <2>2, <2>3, <2>4 DEF TypeOK
<1>10. ASSUME NEW t \in Tests, Captured(t) \/ Fail(t) PROVE TypeOK'
  <2>1. CASE Captured(t)
    BY <1>9, <2>1 DEF Captured, InCall
  <2>2. CASE Fail(t) /\ pc[t] = "snapshot"
    <3>1. pc[t] \in InCall /\ Return(t) /\ UNCHANGED <<cache, node, store, at, lowest>>
      BY <2>2 DEF Fail, InCall, ghosts
    <3>2. QED
      BY <1>9, <3>1
  <2>3. CASE Fail(t) /\ pc[t] # "snapshot"
    <3>1. UNCHANGED <<evm, snaps, nextId, store, cache, pc, at, fixture, id, lowest>>
      BY <2>3 DEF Fail, node, ghosts
    <3>2. QED
      BY <1>0, <3>1 DEF TypeOK
  <2>4. QED
    BY <1>10, <2>1, <2>2, <2>3
<1>11. ASSUME NEW t \in Tests, Revert(t) PROVE TypeOK'
  <2>1. UNCHANGED <<store, cache, at, fixture, id>> /\ pc[t] = "revert"
    BY <1>11 DEF Revert
  <2>2. fixture[t] \in Fixtures
    BY <2>1 DEF TypeOK, InCall
  <2>3. CASE id[t] \notin DOMAIN snaps[at[t]]
    <3>1. Goto(t, "threw") /\ UNCHANGED <<evm, snaps, nextId, lowest>>
      BY <1>11, <2>3 DEF Revert, Throw, node
    <3>2. /\ pc' \in [Tests -> InCall \cup {"test", "threw"}]
          /\ \A u \in Tests \ {t} : pc'[u] = pc[u]
      BY <3>1, GotoTypes
    <3>3. QED
      BY <1>0, <2>1, <2>2, <3>1, <3>2 DEF TypeOK
  <2>4. CASE id[t] \in DOMAIN snaps[at[t]]
    <3>1. Goto(t, "resnap")
      BY <1>11, <2>4 DEF Revert
    <3>2. /\ pc' \in [Tests -> InCall \cup {"test", "threw"}]
          /\ \A u \in Tests \ {t} : pc'[u] = pc[u]
      BY <3>1, GotoTypes DEF InCall
    <3>3. at[t] \in Nodes /\ Restore(at[t], id[t], fixture[t]) /\ UNCHANGED nextId
      BY <1>11, <2>4 DEF Revert, TypeOK
    <3>4. \A u \in Tests : pc'[u] \in InCall => fixture'[u] \in Fixtures
      BY <2>1, <2>2, <3>2 DEF TypeOK
    <3>5. QED
      BY <1>0, <1>5, <2>1, <2>4, <3>2, <3>3, <3>4 DEF TypeOK
  <2>5. QED
    BY <2>3, <2>4
<1>12. ASSUME NEW t \in Tests, Renewed(t) PROVE TypeOK'
  BY <1>9, <1>12 DEF Renewed, RenewCache, InCall
<1>13. CASE UNCHANGED vars
  <2>1. UNCHANGED <<evm, snaps, nextId, store, cache, pc, at, fixture, id, lowest>>
    BY <1>13 DEF vars, node, ghosts
  <2>2. QED
    BY <1>0, <2>1 DEF TypeOK
<1>14. QED
  BY <1>1, <1>2, <1>3, <1>6, <1>7, <1>8, <1>10, <1>11, <1>12, <1>13 DEF Next

\* The state is what it should be whoever runs tests where: in particular an id is never handed
\* out twice, and a test that is between the awaits of a fixture is in one.
THEOREM TypeCorrect == Spec => []TypeOK
BY InitTypeOK, NextTypeOK, PTL DEF Spec

-----------------------------------------------------------------------------
(* Where stale records come from.  Below the shortest history an EVM was restored to, every *)
(* snapshot agrees with the EVM as it is now, so no restore can move what lies there.       *)

SnapshotsAgree ==
    \A n \in Nodes : \A i \in DOMAIN snaps[n] : \A a \in 1 .. Len(snaps[n][i]) :
        a <= lowest[n] => a <= Len(evm[n]) /\ evm[n][a] = snaps[n][i][a]

\* What is recorded of a contract holds of its EVM, or lies above every restore.
Stands(n, name, address) ==
    address \in Nat \ {0} /\ (address <= lowest[n] => address <= Len(evm[n]) /\ evm[n][address] = name)

Accounted(n, name) ==
    store[n][name] \in {Nothing, seeded[n][name]} \/ Stands(n, name, store[n][name])

\* The same of a deployment that was sent and is not recorded yet.
AwaitedAccounted ==
    \A t \in Tests : pending[t] # Nothing /\ pending[t].address # Nothing =>
        Stands(at[t], pending[t].name, pending[t].address)

StaleInv ==
    /\ SnapshotsAgree
    /\ \A n \in Nodes, name \in Names : Accounted(n, name)
    /\ AwaitedAccounted

LEMMA InitStale == Init => StaleInv
BY DEF Init, StaleInv, SnapshotsAgree, Accounted, AwaitedAccounted

\* If what stood before stands, and the deployments awaited stand too, so does what is recorded.
LEMMA StandingKeepsAccounts ==
    ASSUME TypeOK, StaleInv, UNCHANGED <<store, seeded, at>>,
           \A n \in Nodes, name \in Names :
              \A address : Stands(n, name, address) => Stands(n, name, address)',
           \A t \in Tests : \/ pending'[t] \in {Nothing, pending[t]}
                            \/ pending'[t].address = Nothing
                            \/ Stands(at[t], pending[t].name, pending[t].address)'
    PROVE  (\A n \in Nodes, name \in Names : Accounted(n, name)') /\ AwaitedAccounted'
<1>1. ASSUME NEW n \in Nodes, NEW name \in Names PROVE Accounted(n, name)'
  BY DEF StaleInv, Accounted
<1>2. ASSUME NEW t \in Tests, pending'[t] # Nothing, pending'[t].address # Nothing
      PROVE  Stands(at[t], pending[t].name, pending[t].address)'
  <2>1. CASE pending'[t] = pending[t]
    <3>1. at[t] \in Nodes /\ pending[t].name \in Names
      BY <1>2, <2>1 DEF TypeOK, Pending
    <3>2. Stands(at[t], pending[t].name, pending[t].address)
      BY <1>2, <2>1 DEF StaleInv, AwaitedAccounted
    <3>3. QED
      BY <2>1, <3>1, <3>2 DEF Stands
  <2>2. QED
    BY <1>2, <2>1
<1>3. QED
  BY <1>1, <1>2 DEF AwaitedAccounted

\* An EVM that only grows keeps StaleInv; so does the deployment that makes it grow.
LEMMA GrowthKeepsStaleInv ==
    ASSUME TypeOK, StaleInv, NEW t \in Tests, NEW done \in Names \cup {Poke},
           evm' = [evm EXCEPT ![at[t]] = Append(@, done)],
           UNCHANGED <<snaps, store, lowest, seeded, at>>,
           \A u \in Tests :
              \/ pending'[u] = pending[u]
              \/ u = t /\ pending'[u].name = done /\ pending'[u].address = Len(evm[at[t]]) + 1
    PROVE  StaleInv'
<1> DEFINE n == at[t]
<1>1. /\ \A m \in Nodes : evm[m] \in Histories /\ evm'[m] \in Histories /\ lowest[m] \in Nat
      /\ \A m \in Nodes \ {n} : evm'[m] = evm[m]
      /\ evm'[n] = Append(evm[n], done) /\ n \in Nodes
  BY DEF TypeOK, Histories
<1>2. /\ \A m \in Nodes : \A a \in 1 .. Len(evm[m]) : a <= Len(evm'[m]) /\ evm'[m][a] = evm[m][a]
      /\ Len(evm'[n]) = Len(evm[n]) + 1 /\ evm'[n][Len(evm[n]) + 1] = done
  BY <1>1 DEF Histories
<1>3. SnapshotsAgree'
  <2> SUFFICES ASSUME NEW m \in Nodes, NEW i \in DOMAIN snaps[m],
                      NEW a \in 1 .. Len(snaps[m][i]), a <= lowest[m]
               PROVE  a <= Len(evm'[m]) /\ evm'[m][a] = snaps[m][i][a]
    BY DEF SnapshotsAgree
  <2>1. a <= Len(evm[m]) /\ evm[m][a] = snaps[m][i][a]
    BY DEF StaleInv, SnapshotsAgree
  <2>2. a \in 1 .. Len(evm[m])
    BY <1>1, <2>1 DEF Histories
  <2>3. QED
    BY <1>2, <2>1, <2>2
<1>4. \A m \in Nodes, name \in Names : \A address : Stands(m, name, address) => Stands(m, name, address)'
  BY <1>1, <1>2 DEF Stands, Histories
<1>5. \A u \in Tests : \/ pending'[u] \in {Nothing, pending[u]}
                       \/ pending'[u].address = Nothing
                       \/ Stands(at[u], pending[u].name, pending[u].address)'
  <2>1. ASSUME NEW address, address = Len(evm[n]) + 1 PROVE Stands(n, done, address)'
    BY <1>1, <1>2, <2>1 DEF Stands, Histories
  <2>2. QED
    BY <2>1 DEF Stands
<1>6. QED
  BY <1>3, <1>4, <1>5, StandingKeepsAccounts DEF StaleInv

\* A restore brings back what every snapshot agrees on below the lowest restore, and lowers that.
LEMMA RestoreKeepsStaleInv ==
    ASSUME TypeOK, StaleInv, NEW n \in Nodes, NEW k \in DOMAIN snaps[n], NEW by, Restore(n, k, by),
           UNCHANGED <<store, seeded, at, pending>>
    PROVE  StaleInv'
<1> DEFINE back == snaps[n][k]
<1>1. /\ evm' = [evm EXCEPT ![n] = back] /\ back \in Histories
      /\ lowest' = [lowest EXCEPT ![n] = IF Len(back) < @ THEN Len(back) ELSE @]
      /\ \A m \in Nodes : \A i \in DOMAIN snaps'[m] :
            i \in DOMAIN snaps[m] /\ snaps'[m][i] = snaps[m][i]
  BY Restored DEF TypeOK
<1>2. /\ evm'[n] = back /\ lowest'[n] <= Len(back) /\ lowest'[n] <= lowest[n]
      /\ \A m \in Nodes \ {n} : evm'[m] = evm[m] /\ lowest'[m] = lowest[m]
      /\ \A m \in Nodes : lowest[m] \in Nat /\ lowest'[m] \in Nat /\ lowest'[m] <= lowest[m]
  BY <1>1 DEF TypeOK, Histories
<1>3. \A a \in 1 .. Len(back) : a <= lowest[n] => a <= Len(evm[n]) /\ evm[n][a] = back[a]
  BY DEF StaleInv, SnapshotsAgree
<1> HIDE DEF back
<1>4. SnapshotsAgree'
  <2> SUFFICES ASSUME NEW m \in Nodes, NEW i \in DOMAIN snaps'[m],
                      NEW a \in 1 .. Len(snaps'[m][i]), a <= lowest'[m]
               PROVE  a <= Len(evm'[m]) /\ evm'[m][a] = snaps'[m][i][a]
    BY DEF SnapshotsAgree
  <2>1. i \in DOMAIN snaps[m] /\ snaps'[m][i] = snaps[m][i]
    BY <1>1
  <2>2. snaps[m][i] \in Histories
    BY <2>1 DEF TypeOK
  <2>3. Len(snaps[m][i]) \in Nat
    BY <2>2 DEF Histories
  <2>4. a <= lowest[m] /\ i \in DOMAIN snaps[m] /\ snaps'[m][i] = snaps[m][i] /\ Len(snaps[m][i]) \in Nat
    BY <1>2, <2>1, <2>3
  <2>5. a <= Len(evm[m]) /\ evm[m][a] = snaps'[m][i][a]
    BY <2>4 DEF StaleInv, SnapshotsAgree
  <2>6. CASE m # n
    BY <1>2, <2>5, <2>6
  <2>7. CASE m = n
    <3>1. a \in 1 .. Len(back)
      BY <1>1, <1>2, <2>4, <2>7 DEF Histories
    <3>2. QED
      BY <1>2, <1>3, <2>4, <2>5, <2>7, <3>1
  <2>8. QED
    BY <2>6, <2>7
<1>5. ASSUME NEW m \in Nodes, NEW name \in Names, NEW address, Stands(m, name, address)
      PROVE  Stands(m, name, address)'
  <2>1. CASE m # n
    BY <1>2, <1>5, <2>1 DEF Stands
  <2>2. CASE m = n /\ address <= lowest'[n]
    <3>1. address \in 1 .. Len(back) /\ address <= lowest[n]
      BY <1>1, <1>2, <1>5, <2>2 DEF Histories, Stands
    <3>2. address <= Len(evm'[m]) /\ evm'[m][address] = name
      BY <1>2, <1>3, <1>5, <2>2, <3>1 DEF Stands
    <3>3. QED
      BY <1>5, <3>2 DEF Stands
  <2>3. CASE m = n /\ ~ (address <= lowest'[n])
    BY <1>5, <2>3 DEF Stands
  <2>4. QED
    BY <2>1, <2>2, <2>3
<1>6. QED
  BY <1>4, <1>5, StandingKeepsAccounts DEF StaleInv

LEMMA NextStaleInv == TypeOK /\ StaleInv /\ [Next]_vars => StaleInv'
<1> SUFFICES ASSUME TypeOK, StaleInv, [Next]_vars PROVE StaleInv'
  OBVIOUS
<1>1. ASSUME UNCHANGED <<evm, snaps, store, lowest, seeded, at>>,
             \A t \in Tests : pending'[t] \in {Nothing, pending[t]} \/ pending'[t].address = Nothing
      PROVE  StaleInv'
  <2>1. SnapshotsAgree'
    BY <1>1 DEF StaleInv, SnapshotsAgree
  <2>2. \A n \in Nodes, name \in Names : \A address : Stands(n, name, address) => Stands(n, name, address)'
    BY <1>1 DEF Stands
  <2>3. QED
    BY <1>1, <2>1, <2>2, StandingKeepsAccounts DEF StaleInv
<1>2. ASSUME NEW t \in Tests, NEW name, GetOrDeploy(t, name)
      PROVE  \A u \in Tests : pending'[u] = pending[u] \/ pending'[u].address = Nothing
  BY <1>2 DEF GetOrDeploy, TypeOK
<1>3. ASSUME NEW t \in Tests, Test(t) PROVE StaleInv'
  <2>1. UNCHANGED <<snaps, store, lowest, seeded, at>>
    BY <1>3 DEF Test, ghosts
  <2>2. CASE evm' = [evm EXCEPT ![at[t]] = Append(@, Poke)] /\ UNCHANGED pending
    BY <2>1, <2>2, GrowthKeepsStaleInv
  <2>3. CASE \E name \in Names : GetOrDeploy(t, name) /\ UNCHANGED evm
    BY <1>1, <1>2, <2>1, <2>3
  <2>4. QED
    BY <1>3, <2>2, <2>3 DEF Test
<1>4. ASSUME NEW t \in Tests, Send(t) PROVE StaleInv'
  <2> DEFINE address == Len(evm[at[t]]) + 1
  <2>1. /\ UNCHANGED <<snaps, store, lowest, seeded, at>>
        /\ pending[t] \in Pending /\ pending[t].name \in Names
        /\ evm' = [evm EXCEPT ![at[t]] = Append(@, pending[t].name)]
        /\ pending' = [pending EXCEPT ![t] = [@ EXCEPT !.address = address]]
    BY <1>4 DEF Send, TypeOK, Pending, ghosts
  <2>2. \A u \in Tests :
           \/ pending'[u] = pending[u]
           \/ u = t /\ pending'[u].name = pending[t].name /\ pending'[u].address = address
    BY <2>1 DEF TypeOK, Pending
  <2>3. QED
    BY <2>1, <2>2, GrowthKeepsStaleInv
<1>5. ASSUME NEW t \in Tests, Write(t) PROVE StaleInv'
  <2> DEFINE n == at[t]
             address == pending[t].address
  <2>1. /\ UNCHANGED <<evm, snaps, lowest, seeded, at>> /\ n \in Nodes
        /\ store' = [store EXCEPT ![n] = [@ EXCEPT ![pending[t].name] = address]]
        /\ pending' = [pending EXCEPT ![t] = Nothing]
        /\ pending[t] # Nothing /\ address # Nothing
    BY <1>5 DEF Write, WriteRecord, TypeOK, node, ghosts
  <2>2. Stands(n, pending[t].name, address)
    BY <2>1 DEF StaleInv, AwaitedAccounted
  <2>3. \A m \in Nodes, name \in Names :
           \/ store'[m][name] = store[m][name]
           \/ m = n /\ name = pending[t].name /\ store'[m][name] = address
    BY <2>1 DEF TypeOK
  <2>4. \A m \in Nodes, name \in Names : Accounted(m, name)'
    <3> SUFFICES ASSUME NEW m \in Nodes, NEW name \in Names PROVE Accounted(m, name)'
      OBVIOUS
    <3>1. CASE store'[m][name] = store[m][name]
      BY <2>1, <3>1 DEF StaleInv, Accounted, Stands
    <3>2. CASE m = n /\ name = pending[t].name /\ store'[m][name] = address
      BY <2>1, <2>2, <3>2 DEF Accounted, Stands
    <3>3. QED
      BY <2>3, <3>1, <3>2
  <2>5. AwaitedAccounted'
    BY <2>1 DEF StaleInv, AwaitedAccounted, Stands, TypeOK
  <2>6. SnapshotsAgree'
    BY <2>1 DEF StaleInv, SnapshotsAgree
  <2>7. QED
    BY <2>4, <2>5, <2>6 DEF StaleInv
<1>6. ASSUME NEW t \in Tests, TestSnapshot(t) \/ TakeSnapshot(t) PROVE StaleInv'
  <2>1. UNCHANGED <<evm, store, lowest, seeded, at, pending>> /\ Snapshot(at[t]) /\ at[t] \in Nodes
    BY <1>6 DEF TestSnapshot, TakeSnapshot, TypeOK, ghosts
  <2>2. \A m \in Nodes : \A i \in DOMAIN snaps'[m] :
           \/ i \in DOMAIN snaps[m] /\ snaps'[m][i] = snaps[m][i]
           \/ snaps'[m][i] = evm[m]
    BY <2>1, SnapshotTaken
  <2>3. SnapshotsAgree'
    <3> SUFFICES ASSUME NEW m \in Nodes, NEW i \in DOMAIN snaps'[m],
                        NEW a \in 1 .. Len(snaps'[m][i]), a <= lowest[m]
                 PROVE  a <= Len(evm[m]) /\ evm[m][a] = snaps'[m][i][a]
      BY <2>1 DEF SnapshotsAgree
    <3>1. CASE i \in DOMAIN snaps[m] /\ snaps'[m][i] = snaps[m][i]
      BY <3>1 DEF StaleInv, SnapshotsAgree
    <3>2. CASE snaps'[m][i] = evm[m]
      BY <3>2 DEF TypeOK, Histories
    <3>3. QED
      BY <2>2, <3>1, <3>2
  <2>4. QED
    BY <2>1, <2>3, StandingKeepsAccounts DEF StaleInv, Stands
<1>7. ASSUME NEW t \in Tests, TestRevert(t) PROVE StaleInv'
  <2>1. UNCHANGED <<store, seeded, at, pending>> /\ at[t] \in Nodes
    BY <1>7 DEF TestRevert, TypeOK
  <2>2. PICK i \in DOMAIN snaps[at[t]] : Restore(at[t], i, Nothing)
    BY <1>7 DEF TestRevert
  <2>3. QED
    BY <2>1, <2>2, RestoreKeepsStaleInv
<1>8. ASSUME NEW t \in Tests, Revert(t) PROVE StaleInv'
  <2>1. UNCHANGED <<store, seeded, at, pending>> /\ at[t] \in Nodes
    BY <1>8 DEF Revert, TypeOK
  <2>2. CASE id[t] \in DOMAIN snaps[at[t]]
    <3>1. Restore(at[t], id[t], fixture[t])
      BY <1>8, <2>2 DEF Revert
    <3>2. QED
      BY <2>1, <2>2, <3>1, RestoreKeepsStaleInv
  <2>3. CASE id[t] \notin DOMAIN snaps[at[t]]
    BY <1>1, <1>8, <2>1, <2>3 DEF Revert, node
  <2>4. QED
    BY <2>2, <2>3
<1>9. ASSUME NEW t \in Tests, Setup(t) PROVE StaleInv'
  <2>1. UNCHANGED <<evm, snaps, store, lowest, seeded, at>> /\ GetOrDeploy(t, Contract[fixture[t]])
    BY <1>9 DEF Setup, node, ghosts
  <2>2. QED
    BY <1>1, <1>2, <2>1
<1>10. ASSUME NEW t \in Tests, Fail(t) PROVE StaleInv'
  <2>1. UNCHANGED <<evm, snaps, store, lowest, seeded, at>> /\ pending' = [pending EXCEPT ![t] = Nothing]
    BY <1>10 DEF Fail, node, ghosts
  <2>2. \A u \in Tests : pending'[u] \in {Nothing, pending[u]}
    BY <2>1 DEF TypeOK
  <2>3. QED
    BY <1>1, <2>1, <2>2
<1>11. ASSUME NEW t \in Tests, Enter(t) \/ Captured(t) \/ Renewed(t) PROVE StaleInv'
  BY <1>1, <1>11 DEF Enter, Captured, Renewed, node, ghosts
<1>12. CASE UNCHANGED vars
  BY <1>1, <1>12 DEF vars, node, ghosts
<1>13. QED
  BY <1>3, <1>4, <1>5, <1>6, <1>7, <1>8, <1>9, <1>10, <1>11, <1>12 DEF Next

LEMMA StaleInvImplies == TypeOK /\ StaleInv => StaleRecordsExplained
<1> SUFFICES ASSUME TypeOK, StaleInv, NEW n \in Nodes, NEW name \in Names,
                    store[n][name] # Nothing, store[n][name] # seeded[n][name],
                    ~ (store[n][name] \in DOMAIN evm[n] /\ evm[n][store[n][name]] = name)
             PROVE  store[n][name] > lowest[n]
  BY DEF StaleRecordsExplained
<1>1. /\ store[n][name] \in Nat \ {0}
      /\ store[n][name] <= lowest[n] => store[n][name] <= Len(evm[n]) /\ evm[n][store[n][name]] = name
  BY DEF StaleInv, Accounted, Stands
<1>2. evm[n] \in Histories /\ lowest[n] \in Nat
  BY DEF TypeOK
<1>3. DOMAIN evm[n] = 1 .. Len(evm[n]) /\ Len(evm[n]) \in Nat
  BY <1>2 DEF Histories
<1>4. QED
  BY <1>1, <1>2, <1>3

\* Whatever the tests, fixtures and nodes, and however their calls overlap: a record whose address
\* no longer holds its contract was seeded, or was written after the snapshot of some restore.
THEOREM StaleRecordsAccounted == Spec => []StaleRecordsExplained
<1>1. Init => TypeOK /\ StaleInv
  BY InitTypeOK, InitStale
<1>2. TypeOK /\ StaleInv /\ [Next]_vars => TypeOK' /\ StaleInv'
  BY NextTypeOK, NextStaleInv
<1>3. QED
  BY <1>1, <1>2, StaleInvImplies, PTL DEF Spec

-----------------------------------------------------------------------------
(* What a call can count on.  Of the calls that overlap on an EVM only the first can be undisturbed; *)
(* an undisturbed call holds the snapshot in the cache, and nobody else of its fixture is past       *)
(* restoring it.                                                                                     *)

GhostTypes ==
    /\ disturbed \in [Tests -> BOOLEAN]
    /\ tainted \in [Fixtures -> [Nodes -> BOOLEAN]]
    /\ base = [f \in Fixtures |-> [n \in Nodes |-> base[f][n]]]
    /\ consumer = [n \in Nodes |-> consumer[n]]

FirstUndisturbed ==
    \A t \in Tests : \A u \in Tests \ {t} :
        pc[t] \in InCall /\ pc[u] \in InCall /\ at[t] = at[u] => disturbed[t] \/ disturbed[u]

ConsumedOnce ==
    \A n \in Nodes : \A i \in DOMAIN consumer[n] : i \in 1 .. nextId[n] - 1 /\ i \notin DOMAIN snaps[n]

Known(n, i) == i \in DOMAIN snaps[n] \cup DOMAIN consumer[n]

IdsKnown ==
    /\ \A f \in Fixtures, n \in Nodes : cache[f][n] # Nothing => Known(n, cache[f][n])
    /\ \A t \in Tests : pc[t] \in {"set", "reset", "revert", "threw"} => Known(at[t], id[t])

CacheSet ==
    \A t \in Tests : pc[t] \in {"revert", "resnap", "reset", "threw"} =>
        fixture[t] \in Fixtures /\ cache[fixture[t]][at[t]] # Nothing

Renewing(t, f, n) == pc[t] \in {"resnap", "reset"} /\ fixture[t] = f /\ at[t] = n

CacheHolds ==
    \A f \in Fixtures, n \in Nodes : cache[f][n] # Nothing /\ ~ tainted[f][n] =>
        /\ cache[f][n] \in DOMAIN snaps[n] => snaps[n][cache[f][n]] = base[f][n]
        /\ cache[f][n] \in DOMAIN consumer[n] /\ consumer[n][cache[f][n]] = f =>
              \E t \in Tests : Renewing(t, f, n)

CallHolds(t, f, n) ==
    /\ pc[t] \in {"set", "reset"} => id[t] \in DOMAIN snaps[n] /\ snaps[n][id[t]] = evm[n]
    /\ pc[t] \in {"resnap", "reset"} => tainted[f][n] \/ evm[n] = base[f][n]
    /\ pc[t] = "revert" => id[t] = cache[f][n]
    /\ pc[t] = "threw" => tainted[f][n] \/ (id[t] \in DOMAIN consumer[n] /\ consumer[n][id[t]] # f)
    /\ \A u \in Tests \ {t} : at[u] = n /\ fixture[u] = f =>
          /\ pc[t] \in {"revert", "threw"} => pc[u] \notin {"setup", "snapshot", "set"}
          /\ pc[t] = "revert" => pc[u] \notin {"resnap", "reset"}

CallsHold == \A t \in Tests : disturbed[t] \/ CallHolds(t, fixture[t], at[t])

FixtureInv ==
    /\ GhostTypes /\ FirstUndisturbed /\ ConsumedOnce /\ IdsKnown /\ CacheSet /\ CacheHolds /\ CallsHold

\* A test awaits a deployment in its own body, or in the setup of a fixture.
AwaitsInTurn == \A t \in Tests : pending[t] # Nothing => pc[t] \in {"test", "snapshot"}

LEMMA NextAwaitsInTurn == TypeOK /\ AwaitsInTurn /\ [Next]_vars => AwaitsInTurn'
<1> SUFFICES ASSUME TypeOK, AwaitsInTurn, [Next]_vars PROVE AwaitsInTurn'
  OBVIOUS
<1>1. ASSUME NEW t \in Tests, \A u \in Tests \ {t} : pending'[u] = pending[u] /\ pc'[u] = pc[u],
             pending'[t] = Nothing \/ pc'[t] \in {"test", "snapshot"}
      PROVE  AwaitsInTurn'
  BY <1>1 DEF AwaitsInTurn
<1>2. ASSUME NEW t \in Tests, NEW name, GetOrDeploy(t, name)
      PROVE  \A u \in Tests \ {t} : pending'[u] = pending[u]
  BY <1>2 DEF GetOrDeploy, TypeOK
<1>3. ASSUME NEW t \in Tests, NEW label, Goto(t, label)
      PROVE  pc'[t] = label /\ \A u \in Tests \ {t} : pc'[u] = pc[u]
  BY <1>3 DEF Goto, TypeOK
<1>4. ASSUME NEW t \in Tests, Test(t) \/ TestSnapshot(t) \/ TestRevert(t) PROVE AwaitsInTurn'
  <2>1. UNCHANGED pc /\ pc[t] = "test"
    BY <1>4 DEF Test, TestSnapshot, TestRevert
  <2>2. \A u \in Tests \ {t} : pending'[u] = pending[u]
    BY <1>2, <1>4 DEF Test, TestSnapshot, TestRevert
  <2>3. QED
    BY <1>1, <2>1, <2>2
<1>5. ASSUME NEW t \in Tests, Send(t) \/ Write(t) PROVE AwaitsInTurn'
  <2>1. UNCHANGED pc /\ pending[t] # Nothing /\ \A u \in Tests \ {t} : pending'[u] = pending[u]
    BY <1>5 DEF Send, Write, TypeOK
  <2>2. QED
    BY <1>1, <2>1 DEF AwaitsInTurn
<1>6. ASSUME NEW t \in Tests, Setup(t) PROVE AwaitsInTurn'
  <2>1. GetOrDeploy(t, Contract[fixture[t]]) /\ Goto(t, "snapshot")
    BY <1>6 DEF Setup
  <2>2. QED
    BY <1>1, <1>2, <1>3, <2>1
<1>7. ASSUME NEW t \in Tests, Fail(t) PROVE AwaitsInTurn'
  <2>1. pending'[t] = Nothing /\ \A u \in Tests \ {t} : pending'[u] = pending[u]
    BY <1>7 DEF Fail, TypeOK
  <2>2. \A u \in Tests \ {t} : pc'[u] = pc[u]
    BY <1>3, <1>7 DEF Fail, Return
  <2>3. QED
    BY <1>1, <2>1, <2>2
<1>8. ASSUME NEW t \in Tests, UNCHANGED pending, pending[t] = Nothing,
             \A u \in Tests \ {t} : pc'[u] = pc[u]
      PROVE  AwaitsInTurn'
  BY <1>1, <1>8
<1>9. ASSUME NEW t \in Tests, Enter(t) \/ TakeSnapshot(t) \/ Captured(t) \/ Revert(t) \/ Renewed(t)
      PROVE  AwaitsInTurn'
  <2>1. UNCHANGED pending /\ pending[t] = Nothing
    BY <1>9 DEF Enter, TakeSnapshot, Captured, Revert, Renewed, AwaitsInTurn
  <2>2. \E label : Goto(t, label)
    BY <1>9 DEF Enter, TakeSnapshot, Captured, Revert, Renewed, Return, Throw
  <2>3. QED
    BY <1>3, <1>8, <2>1, <2>2
<1>10. CASE UNCHANGED vars
  BY <1>10 DEF vars, AwaitsInTurn
<1>11. QED
  BY <1>4, <1>5, <1>6, <1>7, <1>9, <1>10 DEF Next

LEMMA InitFixtureInv == Init => FixtureInv
<1> SUFFICES ASSUME Init PROVE FixtureInv
  OBVIOUS
<1>1. GhostTypes
  BY DEF Init, GhostTypes
<1>2. \A t \in Tests : pc[t] = "test"
  BY DEF Init
<1>3. FirstUndisturbed /\ CacheSet /\ CallsHold
  BY <1>2 DEF FirstUndisturbed, CacheSet, CallsHold, CallHolds, InCall
<1>4. /\ \A n \in Nodes : consumer[n] = <<>> /\ DOMAIN consumer[n] = {}
      /\ \A f \in Fixtures, n \in Nodes : cache[f][n] = Nothing
  BY DEF Init
<1>5. ConsumedOnce /\ IdsKnown /\ CacheHolds
  BY <1>2, <1>4 DEF ConsumedOnce, IdsKnown, CacheHolds
<1>6. QED
  BY <1>1, <1>3, <1>5 DEF FixtureInv

LEMMA FixtureInvImplies ==
    FixtureInv => ThrowsOnlyWhenConsumed
                  /\ \A t \in Tests : pc[t] = "reset" =>
                        disturbed[t] \/ tainted[fixture[t]][at[t]] \/ evm[at[t]] = base[fixture[t]][at[t]]
BY DEF FixtureInv, CallsHold, CallHolds, ThrowsOnlyWhenConsumed

LEMMA DisturbTypes ==
    ASSUME GhostTypes, NEW t \in Tests, NEW n \in Nodes, Disturb(t, n)
    PROVE  /\ disturbed' \in [Tests -> BOOLEAN]
           /\ \A u \in Tests : disturbed[u] => disturbed'[u]
           /\ \A u \in Tests \ {t} : pc[u] \in InCall /\ at[u] = n => disturbed'[u]
<1>1. \A u \in Tests : disturbed'[u] <=> disturbed[u] \/ (u # t /\ pc[u] \in InCall /\ at[u] = n)
  BY DEF Disturb
<1>2. disturbed' = [u \in Tests |-> disturbed[u] \/ (u # t /\ pc[u] \in InCall /\ at[u] = n)]
  BY DEF Disturb
<1>3. disturbed' \in [Tests -> BOOLEAN]
  BY <1>2
<1>4. QED
  BY <1>1, <1>3

\* An EVM grows under a test or the setup of a fixture, which disturbs every other call on it; a
\* setup that has begun its deployment leaves the EVM alone.
LEMMA GrowthKeepsFixtureInv ==
    ASSUME TypeOK, FixtureInv, NEW t \in Tests,
           \/ UNCHANGED <<evm, disturbed>>
           \/ (\A m \in Nodes \ {at[t]} : evm'[m] = evm[m]) /\ Disturb(t, at[t]),
           UNCHANGED <<snaps, nextId, cache, at, fixture, id, base, tainted, consumer>>,
           \A u \in Tests \ {t} : pc'[u] = pc[u],
           pc'[t] = pc[t] \/ (pc[t] = "setup" /\ pc'[t] = "snapshot"),
           pc[t] \in {"test", "setup", "snapshot"}
    PROVE  FixtureInv'
<1>1. /\ disturbed' \in [Tests -> BOOLEAN]
      /\ \A u \in Tests : disturbed[u] => disturbed'[u]
      /\ \A u \in Tests \ {t} : pc[u] \in InCall /\ at[u] = at[t] /\ ~ disturbed'[u] => UNCHANGED evm
  BY DisturbTypes DEF FixtureInv, GhostTypes, TypeOK
<1>2. \A u \in Tests : /\ pc'[u] \in InCall <=> pc[u] \in InCall
                       /\ \A label \in {"set", "revert", "resnap", "reset", "threw"} :
                             pc'[u] = label <=> pc[u] = label
                       /\ pc'[u] \in {"setup", "snapshot", "set"} <=> pc[u] \in {"setup", "snapshot", "set"}
  BY DEF InCall
<1>3. GhostTypes'
  BY <1>1 DEF FixtureInv, GhostTypes
<1>4. FirstUndisturbed'
  BY <1>1, <1>2 DEF FixtureInv, FirstUndisturbed
<1>5. ConsumedOnce'
  BY DEF FixtureInv, ConsumedOnce
<1>6. IdsKnown' /\ CacheSet'
  BY <1>2 DEF FixtureInv, IdsKnown, CacheSet, Known
<1>7. CacheHolds'
  <2>1. \A u \in Tests, f \in Fixtures, n \in Nodes : Renewing(u, f, n) => Renewing(u, f, n)'
    BY <1>2 DEF Renewing
  <2>2. QED
    BY <2>1 DEF FixtureInv, CacheHolds
<1>8. CallsHold'
  <2> SUFFICES ASSUME NEW u \in Tests, ~ disturbed'[u] PROVE CallHolds(u, fixture[u], at[u])'
    BY DEF CallsHold
  <2> DEFINE f == fixture[u]
             n == at[u]
  <2>1. CallHolds(u, f, n)
    BY <1>1 DEF FixtureInv, CallsHold
  <2>2. pc[u] \in InCall /\ u # t => evm'[n] = evm[n]
    BY <1>1 DEF TypeOK
  <2>3. /\ pc'[u] \in {"set", "reset"} => id[u] \in DOMAIN snaps[n] /\ snaps[n][id[u]] = evm'[n]
        /\ pc'[u] \in {"resnap", "reset"} => tainted[f][n] \/ evm'[n] = base[f][n]
    BY <1>2, <2>1, <2>2 DEF CallHolds, InCall
  <2>4. QED
    BY <1>2, <2>1, <2>3 DEF CallHolds
<1>9. QED
  BY <1>3, <1>4, <1>5, <1>6, <1>7, <1>8 DEF FixtureInv

LEMMA EnterKeepsFixtureInv ==
    ASSUME TypeOK, FixtureInv, NEW t \in Tests, Enter(t) PROVE FixtureInv'
<1>1. PICK f \in Fixtures :
         /\ fixture' = [fixture EXCEPT ![t] = f]
         /\ id' = [id EXCEPT ![t] = IF cache[f][at[t]] = Nothing THEN 0 ELSE cache[f][at[t]]]
         /\ Goto(t, IF cache[f][at[t]] = Nothing THEN "setup" ELSE "revert")
  BY DEF Enter
<1>2. /\ pc[t] \in {"test", "threw"}
      /\ UNCHANGED <<evm, snaps, nextId, cache, at, base, tainted, consumer>>
      /\ disturbed' = [disturbed EXCEPT ![t] = \E u \in Tests \ {t} : pc[u] \in InCall /\ at[u] = at[t]]
  BY DEF Enter, node, ghosts
<1>3. /\ fixture'[t] = f /\ \A u \in Tests \ {t} : fixture'[u] = fixture[u] /\ id'[u] = id[u] /\ pc'[u] = pc[u]
      /\ cache[f][at[t]] = Nothing => pc'[t] = "setup"
      /\ cache[f][at[t]] # Nothing => pc'[t] = "revert" /\ id'[t] = cache[f][at[t]]
  BY <1>1 DEF TypeOK, Goto
<1>4. /\ disturbed' \in [Tests -> BOOLEAN] /\ \A u \in Tests \ {t} : disturbed'[u] = disturbed[u]
      /\ disturbed'[t] <=> \E u \in Tests \ {t} : pc[u] \in InCall /\ at[u] = at[t]
  <2>1. (\E u \in Tests \ {t} : pc[u] \in InCall /\ at[u] = at[t]) \in BOOLEAN
    OBVIOUS
  <2>2. disturbed \in [Tests -> BOOLEAN]
    BY DEF FixtureInv, GhostTypes
  <2>3. QED
    BY <1>2, <2>1, <2>2
<1>5. GhostTypes'
  BY <1>2, <1>4 DEF FixtureInv, GhostTypes
<1>6. FirstUndisturbed'
  BY <1>2, <1>3, <1>4 DEF FixtureInv, FirstUndisturbed
<1>7. ConsumedOnce'
  BY <1>2 DEF FixtureInv, ConsumedOnce
<1>8. IdsKnown'
  <2>1. at[t] \in Nodes
    BY DEF TypeOK
  <2>2. QED
    BY <1>2, <1>3, <2>1 DEF FixtureInv, IdsKnown, Known
<1>9. CacheSet'
  BY <1>2, <1>3 DEF FixtureInv, CacheSet
<1>10. CacheHolds'
  <2>1. \A u \in Tests, g \in Fixtures, n \in Nodes : Renewing(u, g, n) => Renewing(u, g, n)'
    BY <1>2, <1>3 DEF Renewing
  <2>2. QED
    BY <1>2, <2>1 DEF FixtureInv, CacheHolds
<1>11. CallsHold'
  <2>1. ASSUME ~ disturbed'[t] PROVE CallHolds(t, f, at[t])'
    <3>1. \A u \in Tests \ {t} : at[u] = at[t] => pc'[u] \notin InCall
      BY <1>3, <1>4, <2>1
    <3>2. QED
      BY <1>2, <1>3, <3>1 DEF CallHolds, InCall
  <2>2. ASSUME NEW u \in Tests \ {t}, ~ disturbed'[u] PROVE CallHolds(u, fixture[u], at[u])'
    <3>1. CallHolds(u, fixture[u], at[u])
      BY <1>4, <2>2 DEF FixtureInv, CallsHold
    <3>2. pc[u] \in {"revert", "threw"} /\ at[t] = at[u] /\ fixture'[t] = fixture[u] => pc'[t] = "revert"
      BY <1>3 DEF FixtureInv, CacheSet
    <3>3. fixture'[u] = fixture[u] /\ pc'[u] = pc[u] /\ id'[u] = id[u]
      BY <1>3
    <3>4. \A w \in Tests \ {u} : at[w] = at[u] /\ fixture'[w] = fixture[u] =>
             /\ pc[u] \in {"revert", "threw"} => pc'[w] \notin {"setup", "snapshot", "set"}
             /\ pc[u] = "revert" => pc'[w] \notin {"resnap", "reset"}
      BY <1>3, <3>1, <3>2 DEF CallHolds
    <3>5. QED
      BY <1>2, <3>1, <3>3, <3>4 DEF CallHolds
  <2>3. QED
    BY <1>2, <1>3, <2>1, <2>2 DEF CallsHold
<1>12. QED
  BY <1>5, <1>6, <1>7, <1>8, <1>9, <1>10, <1>11 DEF FixtureInv

LEMMA SnapshotKeepsFixtureInv ==
    ASSUME TypeOK, FixtureInv, NEW t \in Tests, TestSnapshot(t) \/ TakeSnapshot(t) PROVE FixtureInv'
<1>1. /\ UNCHANGED <<evm, cache, at, fixture, disturbed, base, tainted, consumer>>
      /\ Snapshot(at[t]) /\ at[t] \in Nodes
      /\ \/ pc[t] = "snapshot" /\ pc'[t] = "set" /\ id'[t] = nextId[at[t]]
         \/ pc[t] = "resnap" /\ pc'[t] = "reset" /\ id'[t] = nextId[at[t]]
         \/ pc[t] = "test" /\ pc'[t] = "test"
      /\ \A u \in Tests \ {t} : pc'[u] = pc[u] /\ id'[u] = id[u]
  <2>1. /\ UNCHANGED <<evm, cache, at, fixture, disturbed, base, tainted, consumer>>
        /\ Snapshot(at[t]) /\ at[t] \in Nodes
    BY DEF TestSnapshot, TakeSnapshot, TypeOK, ghosts
  <2>2. CASE TestSnapshot(t)
    BY <2>1, <2>2 DEF TestSnapshot
  <2>3. CASE TakeSnapshot(t)
    <3>1. /\ pc[t] \in {"snapshot", "resnap"} /\ Goto(t, IF pc[t] = "snapshot" THEN "set" ELSE "reset")
          /\ id'[t] = nextId[at[t]] /\ \A u \in Tests \ {t} : id'[u] = id[u]
      BY <2>3 DEF TakeSnapshot, TypeOK
    <3>2. /\ pc[t] = "snapshot" => pc'[t] = "set"
          /\ pc[t] = "resnap" => pc'[t] = "reset"
          /\ \A u \in Tests \ {t} : pc'[u] = pc[u]
      BY <3>1 DEF Goto, TypeOK
    <3>3. QED
      BY <2>1, <3>1, <3>2
  <2>4. QED
    BY <2>2, <2>3
<1>2. /\ nextId[at[t]] \in Nat /\ nextId'[at[t]] = nextId[at[t]] + 1
      /\ \A m \in Nodes \ {at[t]} : snaps'[m] = snaps[m] /\ nextId'[m] = nextId[m]
      /\ snaps'[at[t]] = [i \in DOMAIN snaps[at[t]] \cup {nextId[at[t]]} |->
                             IF i = nextId[at[t]] THEN evm[at[t]] ELSE snaps[at[t]][i]]
  BY <1>1 DEF Snapshot, TypeOK
<1>3. ASSUME NEW m \in Nodes
      PROVE  /\ \A i \in DOMAIN snaps[m] : i \in DOMAIN snaps'[m] /\ snaps'[m][i] = snaps[m][i]
             /\ \A i \in DOMAIN snaps'[m] : i \in DOMAIN snaps[m] \/ i = nextId[m]
             /\ \A i \in DOMAIN consumer[m] : i < nextId[m] /\ i \in 1 .. nextId'[m] - 1
  <2>1. \A i \in DOMAIN consumer[m] : i \in 1 .. nextId[m] - 1
    BY DEF FixtureInv, ConsumedOnce
  <2>2. nextId[m] \in Nat
    BY DEF TypeOK
  <2>3. \A i \in DOMAIN snaps[m] : i # nextId[m]
    BY <2>2 DEF TypeOK
  <2>4. CASE m = at[t]
    BY <1>2, <2>1, <2>2, <2>3, <2>4
  <2>5. CASE m # at[t]
    BY <1>2, <2>1, <2>2, <2>5
  <2>6. QED
    BY <2>4, <2>5
<1>5. \A u \in Tests : /\ pc'[u] \in InCall <=> pc[u] \in InCall
                       /\ \A label \in {"setup", "revert", "threw"} : pc'[u] = label <=> pc[u] = label
                       /\ pc'[u] \in {"setup", "snapshot", "set"} <=> pc[u] \in {"setup", "snapshot", "set"}
                       /\ pc'[u] \in {"resnap", "reset"} <=> pc[u] \in {"resnap", "reset"}
  BY <1>1 DEF InCall
<1>6. GhostTypes' /\ FirstUndisturbed'
  BY <1>1, <1>5 DEF FixtureInv, GhostTypes, FirstUndisturbed
<1>7. ConsumedOnce'
  BY <1>1, <1>3 DEF FixtureInv, ConsumedOnce
<1>8. IdsKnown'
  <2>1. ASSUME NEW f \in Fixtures, NEW n \in Nodes, cache[f][n] # Nothing
        PROVE  cache[f][n] \in DOMAIN snaps'[n] \cup DOMAIN consumer[n]
    BY <1>3, <2>1 DEF FixtureInv, IdsKnown, Known
  <2>2. ASSUME NEW u \in Tests, pc'[u] \in {"set", "reset", "revert", "threw"}
        PROVE  id'[u] \in DOMAIN snaps'[at[u]] \cup DOMAIN consumer[at[u]]
    <3>1. CASE u = t
      BY <1>1, <1>2, <2>2, <3>1
    <3>2. CASE u # t
      <4>1. at[u] \in Nodes /\ id'[u] = id[u] /\ pc[u] \in {"set", "reset", "revert", "threw"}
        BY <1>1, <1>2, <2>2, <3>2 DEF TypeOK
      <4>2. QED
        BY <1>3, <4>1 DEF FixtureInv, IdsKnown, Known
    <3>3. QED
      BY <3>1, <3>2
  <2>3. QED
    BY <1>1, <2>1, <2>2 DEF IdsKnown, Known
<1>9. CacheSet'
  BY <1>1, <1>5 DEF FixtureInv, CacheSet
<1>10. CacheHolds'
  <2> SUFFICES ASSUME NEW f \in Fixtures, NEW n \in Nodes, cache[f][n] # Nothing, ~ tainted[f][n]
               PROVE  /\ cache[f][n] \in DOMAIN snaps'[n] => snaps'[n][cache[f][n]] = base[f][n]
                      /\ cache[f][n] \in DOMAIN consumer[n] /\ consumer[n][cache[f][n]] = f =>
                            \E u \in Tests : Renewing(u, f, n)'
    BY <1>1 DEF CacheHolds
  <2>1. \A u \in Tests : Renewing(u, f, n) => Renewing(u, f, n)'
    BY <1>1, <1>5 DEF Renewing
  <2>2. Known(n, cache[f][n])
    BY DEF FixtureInv, IdsKnown
  <2>3. cache[f][n] < nextId[n]
    BY <2>2, <1>3 DEF Known, TypeOK
  <2>4. cache[f][n] \in DOMAIN snaps'[n] => cache[f][n] \in DOMAIN snaps[n]
    <3>1. nextId[n] \in Nat
      BY DEF TypeOK
    <3>2. QED
      BY <1>3, <2>3, <3>1
  <2>5. QED
    BY <1>3, <2>1, <2>4 DEF FixtureInv, CacheHolds
<1>11. CallsHold'
  <2> SUFFICES ASSUME NEW u \in Tests, ~ disturbed[u] PROVE CallHolds(u, fixture[u], at[u])'
    BY <1>1 DEF CallsHold
  <2> DEFINE f == fixture[u]
             n == at[u]
  <2>1. CallHolds(u, f, n) /\ n \in Nodes
    BY DEF FixtureInv, CallsHold, TypeOK
  <2>2. pc'[u] \in {"set", "reset"} => id'[u] \in DOMAIN snaps'[n] /\ snaps'[n][id'[u]] = evm[n]
    <3>1. CASE u = t
      BY <1>1, <1>2, <2>1, <3>1
    <3>2. CASE u # t
      BY <1>1, <1>2, <1>3, <2>1, <3>2 DEF CallHolds
    <3>3. QED
      BY <3>1, <3>2
  <2>3. pc'[u] \in {"revert", "threw"} => id'[u] = id[u]
    BY <1>1, <1>2
  <2>4. QED
    BY <1>1, <1>5, <2>1, <2>2, <2>3 DEF CallHolds
<1>12. QED
  BY <1>6, <1>7, <1>8, <1>9, <1>10, <1>11 DEF FixtureInv

\* A call that ends puts its snapshot in the cache.  If it was disturbed, what the fixture captured is
\* tainted; if it was not, the snapshot holds what was captured, now or the first time.
LEMMA ReturnKeepsFixtureInv ==
    ASSUME TypeOK, FixtureInv, NEW t \in Tests, NEW f \in Fixtures, NEW n \in Nodes,
           pc[t] \in {"set", "reset"}, fixture[t] = f, at[t] = n,
           SetCache(t), Return(t), UNCHANGED <<evm, snaps, nextId, at, consumer>>,
           tainted' \in [Fixtures -> [Nodes -> BOOLEAN]],
           base' = [g \in Fixtures |-> [m \in Nodes |-> base'[g][m]]],
           \A g \in Fixtures, m \in Nodes :
              g # f \/ m # n => base'[g][m] = base[g][m] /\ tainted'[g][m] = tainted[g][m],
           pc[t] = "set" => base'[f][n] = evm[n],
           pc[t] = "reset" => base'[f][n] = base[f][n] /\ (tainted[f][n] => tainted'[f][n]),
           disturbed[t] => tainted'[f][n]
    PROVE  FixtureInv'
<1>1. /\ pc'[t] = "test" /\ \A u \in Tests \ {t} : /\ pc'[u] = pc[u] /\ fixture'[u] = fixture[u]
                                                   /\ id'[u] = id[u]
      /\ disturbed' = [disturbed EXCEPT ![t] = FALSE]
      /\ fixture' \in [Tests -> Fixtures \cup {Nothing}] /\ fixture'[t] = Nothing
  BY DEF Return, Goto, TypeOK
<1>2. disturbed' \in [Tests -> BOOLEAN] /\ \A u \in Tests \ {t} : disturbed'[u] = disturbed[u]
  BY <1>1 DEF FixtureInv, GhostTypes
<1>3. /\ cache'[f][n] = id[t] /\ id[t] \in Nat /\ id[t] # Nothing
      /\ \A g \in Fixtures, m \in Nodes : g # f \/ m # n => cache'[g][m] = cache[g][m]
  BY FixturesAssumption DEF SetCache, TypeOK
<1>4. GhostTypes' /\ FirstUndisturbed' /\ ConsumedOnce'
  <2>1. GhostTypes'
    BY <1>2 DEF FixtureInv, GhostTypes
  <2>2. FirstUndisturbed'
    BY <1>1, <1>2 DEF FixtureInv, FirstUndisturbed, InCall
  <2>3. ConsumedOnce'
    BY DEF FixtureInv, ConsumedOnce
  <2>4. QED
    BY <2>1, <2>2, <2>3
<1>5. IdsKnown'
  <2>1. id[t] \in DOMAIN snaps[n] \cup DOMAIN consumer[n]
    BY DEF FixtureInv, IdsKnown, Known
  <2>2. \A g \in Fixtures, m \in Nodes :
           cache'[g][m] # Nothing => cache'[g][m] \in DOMAIN snaps[m] \cup DOMAIN consumer[m]
    BY <1>3, <2>1 DEF FixtureInv, IdsKnown, Known
  <2>3. \A u \in Tests : pc'[u] \in {"set", "reset", "revert", "threw"} =>
           id'[u] \in DOMAIN snaps[at[u]] \cup DOMAIN consumer[at[u]]
    BY <1>1 DEF FixtureInv, IdsKnown, Known
  <2>4. QED
    BY <2>2, <2>3 DEF IdsKnown, Known
<1>6. CacheSet'
  <2> SUFFICES ASSUME NEW u \in Tests, pc'[u] \in {"revert", "resnap", "reset", "threw"}
               PROVE  fixture'[u] \in Fixtures /\ cache'[fixture'[u]][at[u]] # Nothing
    BY DEF CacheSet
  <2>1. u # t /\ pc[u] = pc'[u] /\ fixture'[u] = fixture[u] /\ at[u] \in Nodes
    BY <1>1 DEF TypeOK
  <2>2. fixture[u] \in Fixtures /\ cache[fixture[u]][at[u]] # Nothing
    BY <2>1 DEF FixtureInv, CacheSet
  <2>3. QED
    BY <1>3, <2>1, <2>2
<1>7. CacheHolds'
  <2> SUFFICES ASSUME NEW g \in Fixtures, NEW m \in Nodes, cache'[g][m] # Nothing, ~ tainted'[g][m]
               PROVE  /\ cache'[g][m] \in DOMAIN snaps[m] => snaps[m][cache'[g][m]] = base'[g][m]
                      /\ cache'[g][m] \in DOMAIN consumer[m] /\ consumer[m][cache'[g][m]] = g =>
                            \E u \in Tests : Renewing(u, g, m)'
    BY DEF CacheHolds
  <2>1. CASE g = f /\ m = n
    <3>1. ~ disturbed[t] /\ CallHolds(t, f, n)
      BY <2>1 DEF FixtureInv, CallsHold
    <3>2. id[t] \in DOMAIN snaps[n] /\ snaps[n][id[t]] = evm[n] /\ id[t] \notin DOMAIN consumer[n]
      BY <3>1 DEF CallHolds, FixtureInv, ConsumedOnce
    <3>3. evm[n] = base'[f][n]
      BY <2>1, <3>1 DEF CallHolds
    <3>4. QED
      BY <1>3, <2>1, <3>2, <3>3
  <2>2. CASE g # f \/ m # n
    <3>1. \A u \in Tests : Renewing(u, g, m) => Renewing(u, g, m)'
      BY <1>1, <2>2 DEF Renewing
    <3>2. QED
      BY <1>3, <2>2, <3>1 DEF FixtureInv, CacheHolds
  <2>3. QED
    BY <2>1, <2>2
<1>8. CallsHold'
  <2> SUFFICES ASSUME NEW u \in Tests, ~ disturbed'[u] PROVE CallHolds(u, fixture[u], at[u])'
    BY DEF CallsHold
  <2>1. CASE u = t
    <3>1. pc'[u] = "test"
      BY <1>1, <2>1
    <3>2. QED
      BY <3>1 DEF CallHolds
  <2>2. CASE u # t
    <3> DEFINE g == fixture[u]
               m == at[u]
    <3>1. CallHolds(u, g, m) /\ m \in Nodes /\ pc'[u] = pc[u] /\ id'[u] = id[u] /\ fixture'[u] = g
      BY <1>1, <1>2, <2>2 DEF FixtureInv, CallsHold, TypeOK
    <3>2. pc[u] \in InCall \cup {"threw"} => g \in Fixtures
      BY DEF TypeOK, FixtureInv, CacheSet
    <3>3. pc[u] \in InCall /\ m = n => disturbed[t]
      BY <1>2, <2>2 DEF FixtureInv, FirstUndisturbed, InCall
    <3>4. pc[u] \in {"resnap", "reset"} => tainted'[g][m] \/ evm[m] = base'[g][m]
      <4>1. CASE g = f /\ m = n
        BY <3>3, <4>1 DEF InCall
      <4>2. CASE g # f \/ m # n
        BY <3>1, <3>2, <4>2 DEF CallHolds, InCall
      <4>3. QED
        BY <4>1, <4>2
    <3>5. pc[u] = "revert" => id[u] = cache'[g][m]
      <4>1. CASE g = f /\ m = n
        BY <2>2, <3>1, <4>1 DEF CallHolds
      <4>2. CASE g # f \/ m # n
        BY <1>3, <3>1, <3>2, <4>2 DEF CallHolds, InCall
      <4>3. QED
        BY <4>1, <4>2
    <3>6. pc[u] = "threw" => tainted'[g][m] \/ (id[u] \in DOMAIN consumer[m] /\ consumer[m][id[u]] # g)
      <4>1. CASE g = f /\ m = n
        BY <2>2, <3>1, <4>1 DEF CallHolds
      <4>2. CASE g # f \/ m # n
        BY <3>1, <3>2, <4>2 DEF CallHolds
      <4>3. QED
        BY <4>1, <4>2
    <3>7. \A w \in Tests \ {u} : at[w] = m /\ fixture'[w] = g =>
             /\ pc[u] \in {"revert", "threw"} => pc'[w] \notin {"setup", "snapshot", "set"}
             /\ pc[u] = "revert" => pc'[w] \notin {"resnap", "reset"}
      BY <1>1, <3>1 DEF CallHolds
    <3>8. pc[u] \in {"set", "reset"} => id[u] \in DOMAIN snaps[m] /\ snaps[m][id[u]] = evm[m]
      BY <3>1 DEF CallHolds
    <3>9. QED
      BY <3>1, <3>4, <3>5, <3>6, <3>7, <3>8 DEF CallHolds
  <2>3. QED
    BY <2>1, <2>2
<1>9. QED
  BY <1>4, <1>5, <1>6, <1>7, <1>8 DEF FixtureInv

LEMMA CapturedKeepsFixtureInv ==
    ASSUME TypeOK, FixtureInv, NEW t \in Tests, Captured(t) PROVE FixtureInv'
<1> DEFINE f == fixture[t]
           n == at[t]
<1>1. /\ pc[t] = "set" /\ f \in Fixtures /\ n \in Nodes
      /\ SetCache(t) /\ Return(t) /\ UNCHANGED <<evm, snaps, nextId, at, consumer>>
  BY DEF Captured, TypeOK, InCall, node
<1>2. base' = [base EXCEPT ![f] = [@ EXCEPT ![n] = evm[n]]]
  BY DEF Captured
<1>3. tainted' = [tainted EXCEPT ![f] = [@ EXCEPT ![n] = disturbed[t]]]
  BY DEF Captured
<1>4. /\ base = [g \in Fixtures |-> [m \in Nodes |-> base[g][m]]]
      /\ tainted \in [Fixtures -> [Nodes -> BOOLEAN]] /\ disturbed[t] \in BOOLEAN
  BY DEF FixtureInv, GhostTypes
<1>5. /\ base' = [g \in Fixtures |-> [m \in Nodes |-> base'[g][m]]]
      /\ base'[f][n] = evm[n]
      /\ \A g \in Fixtures, m \in Nodes : g # f \/ m # n => base'[g][m] = base[g][m]
  BY <1>1, <1>2, <1>4
<1>6. /\ tainted' \in [Fixtures -> [Nodes -> BOOLEAN]]
      /\ tainted'[f][n] = disturbed[t]
      /\ \A g \in Fixtures, m \in Nodes : g # f \/ m # n => tainted'[g][m] = tainted[g][m]
  BY <1>1, <1>3, <1>4
<1>7. QED
  BY <1>1, <1>5, <1>6, ReturnKeepsFixtureInv

LEMMA RenewedKeepsFixtureInv ==
    ASSUME TypeOK, FixtureInv, NEW t \in Tests, Renewed(t) PROVE FixtureInv'
<1> DEFINE f == fixture[t]
           n == at[t]
<1>1. /\ pc[t] = "reset" /\ f \in Fixtures /\ n \in Nodes
      /\ SetCache(t) /\ Return(t) /\ UNCHANGED <<evm, snaps, nextId, at, consumer, base>>
  BY DEF Renewed, RenewCache, TypeOK, InCall, node
<1>2. tainted' = IF disturbed[t] THEN [tainted EXCEPT ![f] = [@ EXCEPT ![n] = TRUE]] ELSE tainted
  BY DEF Renewed
<1>3. /\ base = [g \in Fixtures |-> [m \in Nodes |-> base[g][m]]]
      /\ tainted \in [Fixtures -> [Nodes -> BOOLEAN]]
  BY DEF FixtureInv, GhostTypes
<1>4. /\ tainted' \in [Fixtures -> [Nodes -> BOOLEAN]]
      /\ disturbed[t] => tainted'[f][n]
      /\ tainted[f][n] => tainted'[f][n]
      /\ \A g \in Fixtures, m \in Nodes : g # f \/ m # n => tainted'[g][m] = tainted[g][m]
  <2>1. CASE disturbed[t]
    <3>1. tainted' = [tainted EXCEPT ![f] = [@ EXCEPT ![n] = TRUE]]
      BY <1>2, <2>1
    <3>2. QED
      BY <1>1, <1>3, <3>1
  <2>2. CASE ~ disturbed[t]
    BY <1>2, <1>3, <2>2
  <2>3. QED
    BY <2>1, <2>2
<1>5. base' = [g \in Fixtures |-> [m \in Nodes |-> base'[g][m]]] /\ base'[f][n] = base[f][n]
      /\ \A g \in Fixtures, m \in Nodes : base'[g][m] = base[g][m]
  BY <1>1, <1>3
<1>6. QED
  BY <1>1, <1>4, <1>5, ReturnKeepsFixtureInv

\* A setup that fails has put nothing in the cache, and its test is out of the call.
LEMMA FailKeepsFixtureInv ==
    ASSUME TypeOK, FixtureInv, NEW t \in Tests, Fail(t), pc[t] = "snapshot" PROVE FixtureInv'
<1>1. /\ UNCHANGED <<evm, snaps, nextId, cache, at, base, tainted, consumer>>
      /\ pc'[t] = "test" /\ disturbed' = [disturbed EXCEPT ![t] = FALSE]
      /\ \A u \in Tests \ {t} : pc'[u] = pc[u] /\ fixture'[u] = fixture[u] /\ id'[u] = id[u]
  BY DEF Fail, Return, Goto, TypeOK, node, ghosts
<1>2. disturbed' \in [Tests -> BOOLEAN] /\ \A u \in Tests \ {t} : disturbed'[u] = disturbed[u]
  BY <1>1 DEF FixtureInv, GhostTypes
<1>3. GhostTypes' /\ FirstUndisturbed' /\ ConsumedOnce'
  BY <1>1, <1>2 DEF FixtureInv, GhostTypes, FirstUndisturbed, ConsumedOnce, InCall
<1>4. IdsKnown' /\ CacheSet'
  BY <1>1 DEF FixtureInv, IdsKnown, Known, CacheSet
<1>5. CacheHolds'
  <2>1. \A u \in Tests, f \in Fixtures, n \in Nodes : Renewing(u, f, n) => Renewing(u, f, n)'
    BY <1>1 DEF Renewing
  <2>2. QED
    BY <1>1, <2>1 DEF FixtureInv, CacheHolds
<1>6. CallsHold'
  <2> SUFFICES ASSUME NEW u \in Tests, ~ disturbed'[u] PROVE CallHolds(u, fixture[u], at[u])'
    BY DEF CallsHold
  <2>1. CASE u = t
    BY <1>1, <2>1 DEF CallHolds
  <2>2. CASE u # t
    <3>1. CallHolds(u, fixture[u], at[u])
      BY <1>2, <2>2 DEF FixtureInv, CallsHold
    <3>2. QED
      BY <1>1, <2>2, <3>1 DEF CallHolds
  <2>3. QED
    BY <2>1, <2>2
<1>7. QED
  BY <1>3, <1>4, <1>5, <1>6 DEF FixtureInv

\* The snapshot is gone: another fixture or a test itself consumed it, or the call was disturbed.
LEMMA ThrowKeepsFixtureInv ==
    ASSUME TypeOK, FixtureInv, NEW t \in Tests, Revert(t), id[t] \notin DOMAIN snaps[at[t]] PROVE FixtureInv'
<1>1. /\ pc[t] = "revert" /\ Goto(t, "threw")
      /\ UNCHANGED <<evm, snaps, nextId, cache, at, fixture, id, disturbed, base, tainted, consumer>>
  BY DEF Revert, Throw, node
<1>2. pc'[t] = "threw" /\ \A u \in Tests \ {t} : pc'[u] = pc[u]
  BY <1>1, GotoTypes
<1>3. GhostTypes' /\ FirstUndisturbed' /\ ConsumedOnce'
  <2>1. \A u \in Tests : pc'[u] \in InCall => pc[u] \in InCall
    BY <1>1, <1>2 DEF InCall
  <2>2. FirstUndisturbed'
    BY <1>1, <2>1 DEF FixtureInv, FirstUndisturbed
  <2>3. GhostTypes' /\ ConsumedOnce'
    BY <1>1 DEF FixtureInv, GhostTypes, ConsumedOnce
  <2>4. QED
    BY <2>2, <2>3
<1>4. IdsKnown' /\ CacheSet'
  BY <1>1, <1>2 DEF FixtureInv, IdsKnown, Known, CacheSet
<1>5. CacheHolds'
  <2>1. \A u \in Tests, f \in Fixtures, n \in Nodes : Renewing(u, f, n) => Renewing(u, f, n)'
    BY <1>1, <1>2 DEF Renewing
  <2>2. QED
    BY <1>1, <2>1 DEF FixtureInv, CacheHolds
<1>6. CallsHold'
  <2> SUFFICES ASSUME NEW u \in Tests, ~ disturbed[u] PROVE CallHolds(u, fixture[u], at[u])'
    BY <1>1 DEF CallsHold
  <2> DEFINE f == fixture[u]
             n == at[u]
  <2>1. CallHolds(u, f, n)
    BY DEF FixtureInv, CallsHold
  <2>2. CASE u # t
    BY <1>1, <1>2, <2>1, <2>2 DEF CallHolds
  <2>3. CASE u = t
    <3>1. f \in Fixtures /\ n \in Nodes /\ cache[f][n] # Nothing /\ id[t] = cache[f][n]
      BY <1>1, <2>1, <2>3 DEF FixtureInv, CacheSet, CallHolds, TypeOK
    <3>2. id[t] \in DOMAIN consumer[n]
      BY <2>3, <3>1 DEF FixtureInv, IdsKnown, Known
    <3>3. \A w \in Tests : ~ Renewing(w, f, n)
      BY <1>1, <2>1, <2>3 DEF CallHolds, Renewing
    <3>4. tainted[f][n] \/ consumer[n][id[t]] # f
      BY <3>1, <3>2, <3>3 DEF FixtureInv, CacheHolds
    <3>5. QED
      BY <1>1, <1>2, <2>1, <2>3, <3>2, <3>4 DEF CallHolds
  <2>4. QED
    BY <2>2, <2>3
<1>7. QED
  BY <1>3, <1>4, <1>5, <1>6 DEF FixtureInv

\* A snapshot is put back, by a call or by a test itself.
LEMMA RestoreKeepsFixtureInv ==
    ASSUME TypeOK, FixtureInv, NEW t \in Tests, NEW k, NEW by, k \in DOMAIN snaps[at[t]],
           Restore(at[t], k, by), Disturb(t, at[t]),
           UNCHANGED <<nextId, cache, at, fixture, id, base, tainted>>,
           \A u \in Tests \ {t} : pc'[u] = pc[u],
           \/ pc[t] = "revert" /\ pc'[t] = "resnap" /\ k = id[t] /\ by = fixture[t]
           \/ pc[t] = "test" /\ pc'[t] = "test" /\ by = Nothing
    PROVE  FixtureInv'
<1> DEFINE n == at[t]
           gone == {i \in DOMAIN snaps[n] : i >= k}
<1>1. /\ n \in Nodes /\ k \in DOMAIN snaps[n] /\ k \in Nat
      /\ evm' = [evm EXCEPT ![n] = snaps[n][k]]
      /\ snaps' = [snaps EXCEPT ![n] = Restrict(@, DOMAIN @ \ gone)]
      /\ consumer' = [consumer EXCEPT ![n] = [i \in DOMAIN @ \cup gone |-> IF i \in gone THEN by ELSE @[i]]]
      /\ UNCHANGED <<nextId, cache, at, fixture, id, base, tainted>>
  BY DEF Restore, TypeOK
<1>2. /\ \A u \in Tests \ {t} : pc'[u] = pc[u]
      /\ \/ pc[t] = "revert" /\ pc'[t] = "resnap" /\ k = id[t] /\ by = fixture[t]
         \/ pc[t] = "test" /\ pc'[t] = "test" /\ by = Nothing
  OBVIOUS
<1>3. /\ evm'[n] = snaps[n][k] /\ \A m \in Nodes \ {n} : evm'[m] = evm[m]
      /\ snaps'[n] = [i \in DOMAIN snaps[n] \ gone |-> snaps[n][i]]
      /\ \A m \in Nodes \ {n} : snaps'[m] = snaps[m]
  BY <1>1 DEF TypeOK, Restrict
<1>4. /\ consumer'[n] = [i \in DOMAIN consumer[n] \cup gone |-> IF i \in gone THEN by ELSE consumer[n][i]]
      /\ \A m \in Nodes \ {n} : consumer'[m] = consumer[m]
      /\ consumer' = [m \in Nodes |-> consumer'[m]]
  BY <1>1 DEF FixtureInv, GhostTypes
<1>5. /\ disturbed' \in [Tests -> BOOLEAN]
      /\ \A u \in Tests : disturbed[u] => disturbed'[u]
      /\ \A u \in Tests \ {t} : pc[u] \in InCall /\ at[u] = n => disturbed'[u]
  BY <1>1, DisturbTypes DEF FixtureInv
<1>6. ASSUME NEW m \in Nodes
      PROVE  /\ \A i \in DOMAIN snaps'[m] : i \in DOMAIN snaps[m] /\ snaps'[m][i] = snaps[m][i]
             /\ \A i \in DOMAIN snaps[m] : i \in DOMAIN snaps'[m] \/ (m = n /\ i \in gone)
             /\ \A i \in DOMAIN consumer[m] : i \in DOMAIN consumer'[m] /\ consumer'[m][i] = consumer[m][i]
             /\ \A i \in DOMAIN consumer'[m] :
                   \/ i \in DOMAIN consumer[m] /\ consumer'[m][i] = consumer[m][i]
                   \/ m = n /\ i \in gone /\ consumer'[m][i] = by
             /\ m = n => \A i \in gone : i \in DOMAIN consumer'[m] /\ i \notin DOMAIN snaps'[m]
  <2>1. CASE m # n
    BY <1>3, <1>4, <2>1
  <2>2. CASE m = n
    <3>1. \A i \in DOMAIN consumer[n] : i \notin gone
      BY <1>1 DEF FixtureInv, ConsumedOnce
    <3>2. QED
      BY <1>3, <1>4, <2>2, <3>1
  <2>3. QED
    BY <2>1, <2>2
<1>7. \A u \in Tests : pc'[u] \in InCall <=> pc[u] \in InCall
  BY <1>1, <1>2 DEF InCall
<1>8. GhostTypes' /\ FirstUndisturbed'
  BY <1>1, <1>4, <1>5, <1>7 DEF FixtureInv, GhostTypes, FirstUndisturbed
<1>9. ConsumedOnce'
  <2> SUFFICES ASSUME NEW m \in Nodes, NEW i \in DOMAIN consumer'[m]
               PROVE  i \in 1 .. nextId[m] - 1 /\ i \notin DOMAIN snaps'[m]
    BY <1>1 DEF ConsumedOnce
  <2>1. CASE i \in DOMAIN consumer[m]
    BY <1>6, <2>1 DEF FixtureInv, ConsumedOnce
  <2>2. CASE m = n /\ i \in gone
    BY <1>6, <2>2 DEF TypeOK
  <2>3. QED
    BY <1>6, <2>1, <2>2
<1> HIDE DEF gone
<1>10. \A m \in Nodes : \A i \in DOMAIN snaps[m] \cup DOMAIN consumer[m] :
          i \in DOMAIN snaps'[m] \cup DOMAIN consumer'[m]
  BY <1>6
<1>11. IdsKnown' /\ CacheSet'
  <2>1. \A g \in Fixtures, m \in Nodes :
           cache[g][m] # Nothing => cache[g][m] \in DOMAIN snaps'[m] \cup DOMAIN consumer'[m]
    BY <1>10 DEF FixtureInv, IdsKnown, Known
  <2>2. \A u \in Tests : at[u] \in Nodes
    BY DEF TypeOK
  <2>3. \A u \in Tests : pc'[u] \in {"set", "reset", "revert", "threw"} =>
           id[u] \in DOMAIN snaps'[at[u]] \cup DOMAIN consumer'[at[u]]
    BY <1>2, <1>10, <2>2 DEF FixtureInv, IdsKnown, Known
  <2>4. IdsKnown'
    BY <1>1, <2>1, <2>3 DEF IdsKnown, Known
  <2>5. CacheSet'
    BY <1>1, <1>2 DEF FixtureInv, CacheSet
  <2>6. QED
    BY <2>4, <2>5
<1>12. CacheHolds'
  <2> SUFFICES ASSUME NEW g \in Fixtures, NEW m \in Nodes, cache[g][m] # Nothing, ~ tainted[g][m]
               PROVE  /\ cache[g][m] \in DOMAIN snaps'[m] => snaps'[m][cache[g][m]] = base[g][m]
                      /\ cache[g][m] \in DOMAIN consumer'[m] /\ consumer'[m][cache[g][m]] = g =>
                            \E u \in Tests : Renewing(u, g, m)'
    <3>1. UNCHANGED <<cache, tainted, base>>
      BY <1>1
    <3>2. QED
      BY <3>1 DEF CacheHolds
  <2>1. /\ cache[g][m] \in DOMAIN snaps[m] => snaps[m][cache[g][m]] = base[g][m]
        /\ cache[g][m] \in DOMAIN consumer[m] /\ consumer[m][cache[g][m]] = g =>
              \E u \in Tests : Renewing(u, g, m)
    BY DEF FixtureInv, CacheHolds
  <2>2. \A u \in Tests : Renewing(u, g, m) => Renewing(u, g, m)'
    BY <1>1, <1>2 DEF Renewing
  <2>3. m = n /\ by = g => Renewing(t, g, m)'
    BY <1>1, <1>2, FixturesAssumption DEF Renewing
  <2>4. QED
    BY <1>6, <2>1, <2>2, <2>3
<1>13. CallsHold'
  <2> SUFFICES ASSUME NEW u \in Tests, ~ disturbed'[u] PROVE CallHolds(u, fixture[u], at[u])'
    BY DEF CallsHold
  <2>1. ~ disturbed[u] /\ CallHolds(u, fixture[u], at[u]) /\ at[u] \in Nodes
    BY <1>5 DEF FixtureInv, CallsHold, TypeOK
  <2>2. CASE u = t
    <3> SUFFICES ASSUME pc[t] = "revert" PROVE CallHolds(u, fixture[u], at[u])'
      BY <1>1, <1>2, <2>2 DEF CallHolds
    <3> DEFINE f == fixture[t]
    <3>1. f \in Fixtures /\ cache[f][n] # Nothing /\ id[t] = cache[f][n]
      BY <1>1, <2>1, <2>2 DEF FixtureInv, CacheSet, CallHolds
    <3>2. tainted[f][n] \/ snaps[n][id[t]] = base[f][n]
      BY <1>1, <3>1 DEF FixtureInv, CacheHolds
    <3>3. QED
      BY <1>1, <1>2, <1>3, <2>2, <3>2 DEF CallHolds
  <2>3. CASE u # t
    <3>1. pc[u] \in InCall => at[u] # n
      BY <1>5, <2>3
    <3>2. pc[u] \in InCall => evm'[at[u]] = evm[at[u]] /\ snaps'[at[u]] = snaps[at[u]]
      BY <1>3, <2>1, <3>1
    <3>3. /\ pc[u] \in {"set", "reset"} => id[u] \in DOMAIN snaps'[at[u]] /\ snaps'[at[u]][id[u]] = evm'[at[u]]
          /\ pc[u] \in {"resnap", "reset"} => tainted[fixture[u]][at[u]] \/ evm'[at[u]] = base[fixture[u]][at[u]]
      BY <2>1, <3>2 DEF CallHolds, InCall
    <3>4. pc[u] = "threw" =>
             \/ tainted[fixture[u]][at[u]]
             \/ id[u] \in DOMAIN consumer'[at[u]] /\ consumer'[at[u]][id[u]] # fixture[u]
      BY <1>6, <2>1 DEF CallHolds
    <3>5. \A w \in Tests \ {u} : at[w] = at[u] /\ fixture[w] = fixture[u] =>
             /\ pc[u] \in {"revert", "threw"} => pc'[w] \notin {"setup", "snapshot", "set"}
             /\ pc[u] = "revert" => pc'[w] \notin {"resnap", "reset"}
      <4>1. pc[u] = "revert" => at[u] # n
        BY <3>1 DEF InCall
      <4>2. QED
        BY <1>2, <2>1, <4>1 DEF CallHolds
    <3>6. QED
      BY <1>1, <1>2, <2>1, <2>3, <3>3, <3>4, <3>5 DEF CallHolds
  <2>4. QED
    BY <2>2, <2>3
<1>14. QED
  BY <1>8, <1>9, <1>11, <1>12, <1>13 DEF FixtureInv

LEMMA NextFixtureInv == TypeOK /\ AwaitsInTurn /\ FixtureInv /\ [Next]_vars => FixtureInv'
<1> SUFFICES ASSUME TypeOK, AwaitsInTurn, FixtureInv, [Next]_vars PROVE FixtureInv'
  OBVIOUS
<1>1. ASSUME NEW t \in Tests, Test(t) PROVE FixtureInv'
  <2>1. /\ UNCHANGED <<snaps, nextId, cache, pc, at, fixture, id, base, tainted, consumer>>
        /\ pc[t] = "test" /\ pc'[t] = pc[t]
    BY <1>1 DEF Test, ghosts
  <2>2. \/ UNCHANGED <<evm, disturbed>>
        \/ (\A m \in Nodes \ {at[t]} : evm'[m] = evm[m]) /\ Disturb(t, at[t])
    BY <1>1 DEF Test, TypeOK
  <2>3. QED
    BY <2>1, <2>2, GrowthKeepsFixtureInv
<1>2. ASSUME NEW t \in Tests, Send(t) PROVE FixtureInv'
  <2>1. /\ UNCHANGED <<snaps, nextId, cache, pc, at, fixture, id, base, tainted, consumer>>
        /\ pc[t] \in {"test", "snapshot"} /\ pc'[t] = pc[t]
    BY <1>2 DEF Send, AwaitsInTurn, ghosts
  <2>2. (\A m \in Nodes \ {at[t]} : evm'[m] = evm[m]) /\ Disturb(t, at[t])
    BY <1>2 DEF Send, TypeOK
  <2>3. QED
    BY <2>1, <2>2, GrowthKeepsFixtureInv
<1>3. ASSUME NEW t \in Tests, Setup(t) PROVE FixtureInv'
  <2>1. /\ UNCHANGED <<evm, disturbed, snaps, nextId, cache, at, fixture, id, base, tainted, consumer>>
        /\ pc[t] = "setup" /\ Goto(t, "snapshot")
    BY <1>3 DEF Setup, node, ghosts
  <2>2. pc'[t] = "snapshot" /\ \A u \in Tests \ {t} : pc'[u] = pc[u]
    BY <2>1 DEF Goto, TypeOK
  <2>3. QED
    BY <2>1, <2>2, GrowthKeepsFixtureInv
<1>4. ASSUME NEW t \in Tests, TestRevert(t) PROVE FixtureInv'
  <2>1. /\ UNCHANGED <<nextId, cache, pc, at, fixture, id, base, tainted>>
        /\ pc[t] = "test" /\ Disturb(t, at[t])
    BY <1>4 DEF TestRevert
  <2>2. PICK i \in DOMAIN snaps[at[t]] : Restore(at[t], i, Nothing)
    BY <1>4 DEF TestRevert
  <2>3. QED
    BY <2>1, <2>2, RestoreKeepsFixtureInv
<1>5. ASSUME NEW t \in Tests, Revert(t) PROVE FixtureInv'
  <2>1. CASE id[t] \notin DOMAIN snaps[at[t]]
    BY <1>5, <2>1, ThrowKeepsFixtureInv
  <2>2. CASE id[t] \in DOMAIN snaps[at[t]]
    <3>1. /\ UNCHANGED <<nextId, cache, at, fixture, id, base, tainted>> /\ pc[t] = "revert"
          /\ Restore(at[t], id[t], fixture[t]) /\ Disturb(t, at[t]) /\ Goto(t, "resnap")
      BY <1>5, <2>2 DEF Revert
    <3>2. pc'[t] = "resnap" /\ \A u \in Tests \ {t} : pc'[u] = pc[u]
      BY <3>1 DEF Goto, TypeOK
    <3>3. QED
      BY <2>2, <3>1, <3>2, RestoreKeepsFixtureInv
  <2>3. QED
    BY <2>1, <2>2
<1>6. ASSUME UNCHANGED <<evm, snaps, nextId, cache, pc, at, fixture, id, disturbed, base, tainted, consumer>>
      PROVE  FixtureInv'
  <2>1. GhostTypes' /\ FirstUndisturbed' /\ ConsumedOnce' /\ IdsKnown' /\ CacheSet'
    BY <1>6 DEF FixtureInv, GhostTypes, FirstUndisturbed, ConsumedOnce, IdsKnown, Known, CacheSet
  <2>2. CacheHolds' /\ CallsHold'
    BY <1>6 DEF FixtureInv, CacheHolds, Renewing, CallsHold, CallHolds
  <2>3. QED
    BY <2>1, <2>2 DEF FixtureInv
<1>7. ASSUME NEW t \in Tests, Fail(t) PROVE FixtureInv'
  <2>1. CASE pc[t] = "snapshot"
    BY <1>7, <2>1, FailKeepsFixtureInv
  <2>2. CASE pc[t] # "snapshot"
    BY <1>6, <1>7, <2>2 DEF Fail, node, ghosts
  <2>3. QED
    BY <2>1, <2>2
<1>8. ASSUME NEW t \in Tests, Write(t) PROVE FixtureInv'
  BY <1>6, <1>8 DEF Write, node, ghosts
<1>9. CASE UNCHANGED vars
  BY <1>6, <1>9 DEF vars, node, ghosts
<1>10. QED
  BY <1>1, <1>2, <1>3, <1>4, <1>5, <1>7, <1>8, <1>9, EnterKeepsFixtureInv, SnapshotKeepsFixtureInv,
     CapturedKeepsFixtureInv, RenewedKeepsFixtureInv DEF Next

\* A fixture call throws only because another fixture, or a test itself, took its snapshot by restoring
\* an older one, or because calls overlapped: without those, renewing the snapshot is enough for a
\* fixture to be called again for ever.
THEOREM ThrowsExplained == Spec => []ThrowsOnlyWhenConsumed
<1>1. Init => TypeOK /\ AwaitsInTurn /\ FixtureInv
  BY InitTypeOK, InitFixtureInv DEF Init, AwaitsInTurn
<1>2. TypeOK /\ AwaitsInTurn /\ FixtureInv /\ [Next]_vars => TypeOK' /\ AwaitsInTurn' /\ FixtureInv'
  BY NextTypeOK, NextAwaitsInTurn, NextFixtureInv
<1>3. FixtureInv => ThrowsOnlyWhenConsumed
  BY FixtureInvImplies
<1>4. QED
  BY <1>1, <1>2, <1>3, PTL DEF Spec

\* An undisturbed call gives its test the EVM the setup left, however many calls came before it.
THEOREM Restores == Spec => RestoresWhatWasCaptured
<1>1. Init => TypeOK /\ AwaitsInTurn /\ FixtureInv
  BY InitTypeOK, InitFixtureInv DEF Init, AwaitsInTurn
<1>2. TypeOK /\ AwaitsInTurn /\ FixtureInv /\ [Next]_vars => TypeOK' /\ AwaitsInTurn' /\ FixtureInv'
  BY NextTypeOK, NextAwaitsInTurn, NextFixtureInv
<1>3. FixtureInv /\ [Next]_vars =>
         [\A t \in Tests : pc[t] = "reset" /\ pc'[t] = "test" =>
             \/ disturbed[t] \/ tainted[fixture[t]][at[t]]
             \/ evm[at[t]] = base[fixture[t]][at[t]]]_vars
  BY FixtureInvImplies
<1>4. QED
  BY <1>1, <1>2, <1>3, PTL DEF Spec, RestoresWhatWasCaptured
=============================================================================
