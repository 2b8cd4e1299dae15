--------------------------- MODULE MCTestFixtures ---------------------------
(* Two fixtures of one contract each; tests together on an EVM that is fresh, or a fork with the    *)
(* records of two networks, or each on a fresh EVM of its own.                                      *)
EXTENDS TestFixtures, TLC

CONSTANTS fixtureA, fixtureB, ContractA, ContractB

Setups == (fixtureA :> ContractA) @@ (fixtureB :> ContractB)

Record(name, network, address) == [name |-> name, network |-> network, address |-> address]
Fork(name, network) ==
    [forked |-> <<name>>, deployments |-> {Record(name, "1", 1), Record(name, "5", 2)}, network |-> network]
Fresh == [forked |-> <<>>, deployments |-> {}, network |-> Nothing]

Boots == {Fresh} \cup {Fork(name, network) : name \in {ContractA, ContractB}, network \in {"1", Nothing}}

Used(suite) == Range(suite.at)

\* An EVM no test runs on is fresh.
Together ==
    {suite \in [at : [Tests -> Nodes], boot : [Nodes -> Boots]] :
        Cardinality(Used(suite)) = 1 /\ \A n \in Nodes \ Used(suite) : suite.boot[n] = Fresh}
Apart == {suite \in [at : [Tests -> Nodes], boot : [Nodes -> {Fresh}]] : IsInjective(suite.at)}

TogetherOrApart == Together \cup Apart

\* Bound: snapshots of their own are for tests that share an EVM.
TakenWhereShared == IsInjective(at) => \A n \in Nodes : taken[n] = {}

\* A fixture is told from the other only with its contract.
Swap ==
    (fixtureA :> fixtureB) @@ (fixtureB :> fixtureA) @@ (ContractA :> ContractB) @@ (ContractB :> ContractA)
Interchangeable == Permutations(Tests) \cup Permutations(Nodes) \cup {Swap}
=============================================================================
