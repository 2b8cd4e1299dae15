---------------------------- MODULE DeploymentLog ----------------------------
(***************************************************************************)
(* What a deployment store promises its readers (deployment-records.mdx,    *)
(* "history"): under every (network, name) there is a log of what was put   *)
(* there, each entry naming the address it superseded.  A log only grows at *)
(* its end, until a reset forgets it as a whole.                            *)
(***************************************************************************)
EXTENDS Naturals, Sequences

CONSTANTS Slots,   \* the (network, name) pairs
          Addrs,   \* what an entry may say was deployed or registered
          NoAddr

Entries == [addr : Addrs, superseded : Addrs \union {NoAddr}]

VARIABLE log

Newest(s) == IF log[s] = <<>> THEN NoAddr ELSE log[s][Len(log[s])].addr

\* Each entry names its predecessor.
Linked(l) == \A i \in DOMAIN l : l[i].superseded = IF i = 1 THEN NoAddr ELSE l[i - 1].addr

Init == /\ log \in [Slots -> Seq(Entries)]
        /\ \A s \in Slots : Linked(log[s])

Add(s) == \E a \in Addrs :
             log' = [log EXCEPT ![s] = Append(@, [addr |-> a, superseded |-> Newest(s)])]

Forget(s) == log' = [log EXCEPT ![s] = <<>>]

Next == \E s \in Slots : log'[s] # log[s] /\ (Add(s) \/ Forget(s))

Spec == Init /\ [][Next]_log
=============================================================================
