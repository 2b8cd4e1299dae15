----------------------------- MODULE DeployLock -----------------------------
(***************************************************************************)
(* The lock file of fsStore (store.ts:171-197).  Every system call is a     *)
(* step of its own: callers are OS processes that share one directory, so   *)
(* another process can act between the exclusive open, the stat of the      *)
(* file it lost to and the removal of a file judged stale.                  *)
(*                                                                          *)
(* The file holds nothing, so the code cannot tell whose it is; `lock`      *)
(* records its creator for the properties' sake, and Orphan once that       *)
(* process has died.  Age is one bit, `stale`: older than five minutes.     *)
(***************************************************************************)
EXTENDS Integers

CONSTANTS Procs,        \* processes that call getOrDeploy for one (network, name)
          MaxAttempts,  \* `attempts`, 600 in the code
          MaxFaults,    \* how many crashes and overstays a behaviour may hold
          SlowHolders,  \* may a live holder keep the lock past five minutes?
          NoFile, Orphan

ASSUME LockAssumption ==
    /\ MaxAttempts \in Nat
    /\ MaxFaults \in Nat
    /\ SlowHolders \in BOOLEAN
    /\ NoFile \notin Procs
    /\ Orphan \notin Procs
    /\ NoFile # Orphan

VARIABLES pc,         \* where each process is in tryAcquire
          remaining,  \* its `remaining` argument
          lock,       \* the lock file: NoFile, Orphan or the process that made it
          stale,      \* the file's mtime is more than five minutes ago
          faults,     \* crashes and overstays so far
          excuses     \* history: what has happened that voids the exclusion

vars == <<pc, remaining, lock, stale, faults, excuses>>

PC == {"idle",      \* not in a getOrDeploy call
       "open",      \* about to openSync(lock, "wx")
       "stat",      \* the open failed with EEXIST: about to statSync
       "reclaim",   \* the stat said stale: about to rmSync
       "backoff",   \* about to test `remaining` and sleep
       "hold",      \* the lock was returned: inside runLocked
       "timedOut",  \* threw "Timed out waiting for deployment lock"
       "noEntry"}   \* statSync threw ENOENT

Init == /\ pc = [p \in Procs |-> "idle"]
        /\ remaining = [p \in Procs |-> MaxAttempts]
        /\ lock = NoFile
        /\ stale = FALSE
        /\ faults = 0
        /\ excuses = {}

Goto(p, l) == pc' = [pc EXCEPT ![p] = l]

-----------------------------------------------------------------------------
Call(p) == /\ pc[p] = "idle"
           /\ Goto(p, "open")
           /\ remaining' = [remaining EXCEPT ![p] = MaxAttempts]
           /\ UNCHANGED <<lock, stale, faults, excuses>>

\* Mutant: open without the exclusive flag.
CreateAnyway(p) == /\ pc[p] = "open"
                   /\ lock' = p
                   /\ stale' = FALSE
                   /\ Goto(p, "hold")
                   /\ UNCHANGED <<remaining, faults, excuses>>

\* openSync(lock, "wx") creates the file or fails because it is there.
Create(p) == /\ pc[p] = "open"
             /\ lock = NoFile
             /\ lock' = p
             /\ stale' = FALSE
             /\ Goto(p, "hold")
             /\ UNCHANGED <<remaining, faults, excuses>>

Exists(p) == /\ pc[p] = "open"
             /\ lock # NoFile
             /\ Goto(p, "stat")
             /\ UNCHANGED <<remaining, lock, stale, faults, excuses>>

\* An open that fails for another reason (EACCES, EMFILE) is retried unstatted.
OpenError(p) == /\ pc[p] = "open"
                /\ Goto(p, "backoff")
                /\ UNCHANGED <<remaining, lock, stale, faults, excuses>>

\* statSync runs inside the catch block, so a file that has gone since the open
\* throws out of acquireLock instead of being retried.
StatGone(p) == /\ pc[p] = "stat"
               /\ lock = NoFile
               /\ Goto(p, "noEntry")
               /\ UNCHANGED <<remaining, lock, stale, faults, excuses>>

StatYoung(p) == /\ pc[p] = "stat"
                /\ lock # NoFile
                /\ ~stale
                /\ Goto(p, "backoff")
                /\ UNCHANGED <<remaining, lock, stale, faults, excuses>>

\* Mutant: a stale file is waited for like any other.
StatNeverStale(p) == /\ pc[p] = "stat"
                     /\ stale
                     /\ Goto(p, "backoff")
                     /\ UNCHANGED <<remaining, lock, stale, faults, excuses>>

\* Mutant: any file that exists is reclaimed, whatever its age.
StatAlwaysStale(p) == /\ pc[p] = "stat"
                      /\ lock # NoFile
                      /\ Goto(p, "reclaim")
                      /\ UNCHANGED <<remaining, lock, stale, faults, excuses>>

StatStale(p) == /\ pc[p] = "stat"
                /\ stale
                /\ Goto(p, "reclaim")
                /\ excuses' = IF \E q \in Procs \ {p} : pc[q] = "reclaim"
                              THEN excuses \union {"overlap"} ELSE excuses
                /\ UNCHANGED <<remaining, lock, stale, faults>>

\* rmSync(lock, { force: true }) removes whatever file has that name by now,
\* and the retry does not use up an attempt.
Reclaim(p) == /\ pc[p] = "reclaim"
              /\ lock' = NoFile
              /\ stale' = FALSE
              /\ Goto(p, "open")
              /\ UNCHANGED <<remaining, faults, excuses>>

\* Mutant: the test for the last attempt is off by one.
BackoffPastZero(p) == /\ pc[p] = "backoff"
                      /\ remaining[p] >= 0
                      /\ remaining' = [remaining EXCEPT ![p] = @ - 1]
                      /\ Goto(p, "open")
                      /\ UNCHANGED <<lock, stale, faults, excuses>>

\* Mutant: the retry keeps its attempt.
BackoffForFree(p) == /\ pc[p] = "backoff"
                     /\ remaining[p] > 0
                     /\ Goto(p, "open")
                     /\ UNCHANGED <<remaining, lock, stale, faults, excuses>>

Backoff(p) == /\ pc[p] = "backoff"
              /\ remaining[p] > 0
              /\ remaining' = [remaining EXCEPT ![p] = @ - 1]
              /\ Goto(p, "open")
              /\ UNCHANGED <<lock, stale, faults, excuses>>

TimeOut(p) == /\ pc[p] = "backoff"
              /\ remaining[p] <= 0
              /\ Goto(p, "timedOut")
              /\ UNCHANGED <<remaining, lock, stale, faults, excuses>>

\* The release function: rmSync with force, again by name and not by creator.
Release(p) == /\ pc[p] = "hold"
              /\ lock' = NoFile
              /\ stale' = FALSE
              /\ Goto(p, "idle")
              /\ UNCHANGED <<remaining, faults, excuses>>

Rejected(p) == /\ pc[p] \in {"timedOut", "noEntry"}
               /\ Goto(p, "idle")
               /\ UNCHANGED <<remaining, lock, stale, faults, excuses>>

\* The process dies; the next call under this name is a new process.
Crash(p) == /\ pc[p] # "idle"
            /\ faults < MaxFaults
            /\ faults' = faults + 1
            /\ Goto(p, "idle")
            /\ lock' = IF lock = p THEN Orphan ELSE lock
            /\ UNCHANGED <<remaining, stale, excuses>>

\* Five minutes pass over a file whose creator is dead ...
AbandonedAges == /\ lock = Orphan
                 /\ ~stale
                 /\ stale' = TRUE
                 /\ UNCHANGED <<pc, remaining, lock, faults, excuses>>

\* ... or over one whose creator still waits for its receipt or its plugins.
HeldAges == /\ SlowHolders
            /\ lock \in Procs
            /\ ~stale
            /\ faults < MaxFaults
            /\ faults' = faults + 1
            /\ stale' = TRUE
            /\ excuses' = excuses \union {"outlived"}
            /\ UNCHANGED <<pc, remaining, lock>>

-----------------------------------------------------------------------------
Acquiring(p) == \/ Create(p) \/ Exists(p)
                \/ StatGone(p) \/ StatYoung(p) \/ StatStale(p)
                \/ Reclaim(p) \/ Backoff(p) \/ TimeOut(p)

Next == \/ \E p \in Procs : \/ Call(p) \/ Acquiring(p) \/ OpenError(p)
                            \/ Release(p) \/ Rejected(p) \/ Crash(p)
        \/ AbandonedAges
        \/ HeldAges

Spec == Init /\ [][Next]_vars

\* A process that is inside acquireLock keeps executing, and time passes over an
\* abandoned file.  Nothing makes a holder release or a caller come back.
FairSpec == /\ Spec
            /\ \A p \in Procs : WF_vars(Acquiring(p))
            /\ WF_vars(AbandonedAges)

-----------------------------------------------------------------------------
TypeOK == /\ pc \in [Procs -> PC]
          /\ remaining \in [Procs -> 0..MaxAttempts]
          /\ lock \in Procs \union {NoFile, Orphan}
          /\ stale \in BOOLEAN
          /\ faults \in 0..MaxFaults
          /\ excuses \subseteq {"overlap", "outlived"}

\* Two processes never run read -> deploy -> write for one name at once: the
\* window deployment-stores.mdx:82-86 says `lock` closes.
MutualExclusion ==
    \A p, q \in Procs : pc[p] = "hold" /\ pc[q] = "hold" => p = q

\* ... and the code keeps it as long as no live holder outlives five minutes and
\* no two waiters reclaim the same abandoned file at once (store.ts:182-190).
\* The file on disk is then exactly the holder's.
ExclusiveUnlessExcused ==
    excuses = {} => /\ MutualExclusion
                    /\ \A p \in Procs : pc[p] = "hold" <=> lock = p

\* "A waiter retries for about thirty seconds" (deployment-stores.mdx:88): a call
\* is refused the lock only after all of its attempts.
RefusedOnlyAfterAllAttempts ==
    \A p \in Procs : pc[p] \in {"timedOut", "noEntry"} => remaining[p] = 0

\* Every waiter is answered, by the lock or by an error, even if no holder ever
\* releases (store.ts:191-193).
Waiting(p) == pc[p] \in {"open", "stat", "reclaim", "backoff"}
EveryWaiterAnswered == \A p \in Procs : Waiting(p) ~> ~Waiting(p)

\* "a crashed job does not block the next one forever" (deployment-stores.mdx:88):
\* while somebody keeps finding the file, an abandoned file goes.
AbandonedLockRecovered ==
    (\E p \in Procs : []<>(pc[p] = "stat")) => (lock = Orphan ~> lock # Orphan)

\* The lock does what StoreAdapter.lock promises until an excuse has happened.
Mutex == INSTANCE DeployMutex WITH
           holders <- IF excuses = {} THEN {p \in Procs : pc[p] = "hold"} ELSE {},
           broken <- excuses # {}
ImplementsMutex == Mutex!Spec
=============================================================================
