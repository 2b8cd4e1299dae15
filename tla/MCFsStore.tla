----------------------------- MODULE MCFsStore -----------------------------
(* An instance of FsStore: the same contract on two networks, records that  *)
(* share their sources or not, and files somebody has edited by hand.       *)
EXTENDS FsStore, TLC

CONSTANTS n1, n2, A, r1, r2, h1, h2

Sources == [r \in Recs |-> IF r = r1 THEN h1 ELSE h2]

On(n) == [network |-> n, name |-> A]
SomeCalls == { [op |-> "read", slot |-> On(n1)], [op |-> "remove", slot |-> On(n1)],
               [op |-> "write", slot |-> On(n1), rec |-> r1],
               [op |-> "write", slot |-> On(n1), rec |-> r2],
               [op |-> "write", slot |-> On(n2), rec |-> r1],
               [op |-> "list", nets |-> {n1}], [op |-> "listAll", nets |-> Networks],
               [op |-> "prune", nets |-> Networks],
               [op |-> "writeSources", hash |-> h1], [op |-> "readSources", hash |-> h1] }

Symmetry == Permutations(Procs)
=============================================================================
