----------------------------- MODULE MCVerifyRun -----------------------------
(* Instances of VerifyRun: a contract that was deployed, an alias registered *)
(* for it or a record of it from before sources were pinned, two verifiers,  *)
(* a notifier that verifies nothing, and one other process that verifies.    *)
EXTENDS VerifyRun, TLC

CONSTANTS k1, A, B, C

Rec(n, kind, pinned) == [name |-> n, contract |-> k1, kind |-> kind, pinned |-> pinned]
Listings == { <<>>, <<Rec(B, "external", FALSE), Rec(C, "standard", FALSE),
                      Rec(A, "standard", TRUE)>> }

Pairs == { <<"blockscout", "slack", "sourcify">>, <<"etherscan", "routescan">>, <<"slack">> }

\* --plugin with two names, with none, with a notifier; one record or all of them.
Req(plugins, wanted, lookup) == [plugins |-> plugins, wanted |-> wanted, lookup |-> lookup]
CommandLines == { Req(Everything, {A, B}, "key"), Req({"blockscout"}, Names, "key"),
                  Req({}, Names, "key"), Req({"etherscan", "slack"}, {A}, "other") }

\* One poll more than none; zero, and an unset variable.
SomeLimits == [p \in Plugins |-> CASE p = "blockscout" -> {NaN, 2}
                                   [] p = "sourcify" -> {0, 1}
                                   [] p = "etherscan" -> {1}
                                   [] p = "routescan" -> {0}]
=============================================================================
