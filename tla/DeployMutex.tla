---------------------------- MODULE DeployMutex ----------------------------
(***************************************************************************)
(* What `StoreAdapter.lock` promises to getOrDeploy (store.ts:42-46): one   *)
(* caller at a time between acquire and release.  The lock fsStore builds   *)
(* keeps that promise only until its staleness rule misfires; `broken` is   *)
(* the point from which nothing is promised any more.                       *)
(***************************************************************************)
CONSTANT Procs

VARIABLES holders,  \* the callers inside read -> deploy -> write
          broken    \* TRUE once the promise has been given up

vars == <<holders, broken>>

Init == holders = {} /\ broken = FALSE

Enter(p) == /\ ~broken
            /\ holders = {}
            /\ holders' = {p}
            /\ UNCHANGED broken

\* A release, or the death of the holder.
Leave(p) == /\ ~broken
            /\ holders = {p}
            /\ holders' = {}
            /\ UNCHANGED broken

GiveUp == /\ ~broken
          /\ broken' = TRUE
          /\ holders' = {}

Next == \/ \E p \in Procs : Enter(p) \/ Leave(p)
        \/ GiveUp

Spec == Init /\ [][Next]_vars
=============================================================================
