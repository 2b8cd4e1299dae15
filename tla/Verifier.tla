------------------------------ MODULE Verifier ------------------------------
(***************************************************************************)
(* The explorer verifiers: submit the sources, resubmit while the explorer  *)
(* has not indexed the contract, poll the job to a conclusion.  The four    *)
(* plugins share this shape and differ in the texts they recognise, which   *)
(* their records below list.  One step is one request with its answer; the  *)
(* explorers index, judge and import on their own.                          *)
(***************************************************************************)
EXTENDS Integers, Sequences

CONSTANTS Callers,    \* processes that verify: deploy scripts, verify commands
          Contracts,
          Plugins,    \* the verifiers in use, each with an explorer of its own
          Limits,     \* plugin -> the values its option maxPolls may have
          MaxJobs,    \* bound: jobs the explorers queue
          NaN, NoTarget

Texts == {"unable to locate contractcode", "not found", "does not exist",
          "pending in queue", "not verified", "verified", "pass - verified",
          "already verified", "fail", "other", "incomplete job", "match",
          "exact_match", "already_verified", "job error", "no match"}

-----------------------------------------------------------------------------
(* What each plugin makes of a text.  A text that is in no set is waited for *)
(* when it answers a poll, and is an error when it answers a submission.     *)
Etherscan == [notIndexed |-> {"unable to locate contractcode"},
              passed |-> {"pass - verified"},
              already |-> {"already verified"},
              failed |-> {"fail"},
              verdictOnSubmit |-> FALSE, validated |-> TRUE]

\* Mutant: the pattern of a settled reply is not anchored.
BlockscoutUnanchored ==
    [notIndexed |-> {"unable to locate contractcode", "not found", "pending in queue"},
     passed |-> {"pass - verified", "verified", "not verified"},
     already |-> {"already verified"},
     failed |-> {"fail"},
     verdictOnSubmit |-> TRUE, validated |-> TRUE]

\* Mutant: a job that is still queued has failed.
BlockscoutImpatient ==
    [notIndexed |-> {"unable to locate contractcode", "not found", "pending in queue"},
     passed |-> {"pass - verified", "verified"},
     already |-> {"already verified"},
     failed |-> {"fail", "pending in queue"},
     verdictOnSubmit |-> TRUE, validated |-> TRUE]

\* Mutant: a verdict in answer to the submission is taken for a job.
BlockscoutNoGuard ==
    [notIndexed |-> {"unable to locate contractcode", "not found", "pending in queue"},
     passed |-> {"pass - verified", "verified"},
     already |-> {"already verified"},
     failed |-> {"fail"},
     verdictOnSubmit |-> FALSE, validated |-> TRUE]

Blockscout ==
    [notIndexed |-> {"unable to locate contractcode", "not found", "pending in queue"},
     passed |-> {"pass - verified", "verified"},
     already |-> {"already verified"},
     failed |-> {"fail"},
     verdictOnSubmit |-> TRUE, validated |-> TRUE]

Routescan ==
    [notIndexed |-> {"unable to locate contractcode", "not found", "does not exist"},
     passed |-> {"pass - verified", "verified"},
     already |-> {"already verified"},
     failed |-> {"fail"},
     verdictOnSubmit |-> TRUE, validated |-> TRUE]

\* Mutant: a completed job with an error has failed, whatever the error.
SourcifyAnyErrorFails ==
    [notIndexed |-> {}, passed |-> {"match", "exact_match"},
     already |-> {"already verified"},
     failed |-> {"job error", "no match", "already_verified"},
     verdictOnSubmit |-> FALSE, validated |-> FALSE]

\* "already verified" stands for the status 409, the others for a job's fields.
Sourcify == [notIndexed |-> {},
             passed |-> {"match", "exact_match"},
             already |-> {"already verified", "already_verified"},
             failed |-> {"job error", "no match"},
             verdictOnSubmit |-> FALSE, validated |-> FALSE]

Verifiers == [etherscan |-> Etherscan, blockscout |-> Blockscout,
              routescan |-> Routescan, sourcify |-> Sourcify]

\* Comparisons with NaN are false.
Below(n, limit) == limit # NaN /\ n < limit
Reached(n, limit) == limit # NaN /\ n >= limit

ValidMaxPolls(limit) == limit # NaN /\ limit >= 1

ASSUME VerifierAssumption ==
    /\ Plugins \subseteq DOMAIN Verifiers
    /\ NaN \notin Int
    /\ \A p \in Plugins : Limits[p] \subseteq Int \union {NaN}
    /\ MaxJobs \in Nat
    /\ NoTarget \notin Plugins \X Contracts

-----------------------------------------------------------------------------
(* The explorers, as far as the plugins tell how they answer.               *)
SaysUnindexed == [etherscan |-> {"unable to locate contractcode"},
                  blockscout |-> {"unable to locate contractcode", "not found"},
                  routescan |-> {"not found", "does not exist"},
                  sourcify |-> {}]

SaysOfJob(status, plugin) ==
    IF plugin = "sourcify"
    THEN CASE status = "queued" -> {"incomplete job"}
           [] status = "passed" -> {"match", "exact_match"}
           [] status = "duplicate" -> {"already_verified"}
           [] status = "failed" -> {"job error", "no match"}
    ELSE CASE status = "queued" -> {"pending in queue", "not verified"}
           [] status = "passed" -> {"pass - verified"} \union
                (IF plugin = "etherscan" THEN {} ELSE {"verified"})
           [] status = "duplicate" -> {"already verified"}
           [] status = "failed" -> {"fail", "other"}

MayVerifyAtOnce == {"blockscout", "routescan"}

VARIABLES indexed,   \* explorer: the <<plugin, contract>> pairs it has indexed
          verified,  \* explorer: the pairs it shows as verified
          jobs,      \* explorer: the submissions it accepted; the index is the guid
          pc, target, limit, attempt, guid,  \* each caller's verifyDeployment
          rerun      \* history: was the target verified when the call began?

explorer == <<indexed, verified, jobs>>
call == <<pc, target, limit, attempt, guid>>
verifierVars == <<explorer, call, rerun>>

Targets == Plugins \X Contracts
V(c) == Verifiers[target[c][1]]

Settled == {"ok",        \* returned
            "invalid",   \* maxPolls was refused before the first request
            "unserved",  \* a request failed, or its answer was about something else
            "refused",   \* the submission was refused for the contract's state
            "failed",    \* the job was
            "timedOut"}
PC == {"idle", "submit", "poll"} \union Settled

VerifierInit == /\ indexed = {}
                /\ verified = {}
                /\ jobs = <<>>
                /\ pc = [c \in Callers |-> "idle"]
                /\ target = [c \in Callers |-> NoTarget]
                /\ limit = [c \in Callers |-> 0]
                /\ attempt = [c \in Callers |-> 0]
                /\ guid = [c \in Callers |-> 0]
                /\ rerun = [c \in Callers |-> FALSE]

Goto(c, l) == pc' = [pc EXCEPT ![c] = l]

\* The promise settles; of the call's locals only what the properties ask for is kept.
Settle(c, outcome) == /\ Goto(c, outcome)
                      /\ attempt' = [attempt EXCEPT ![c] = 0]
                      /\ limit' = [limit EXCEPT ![c] = 0]

-----------------------------------------------------------------------------
\* Not sourcify: its maxPolls is taken as it comes.
Begin(c, t) ==
    /\ pc[c] = "idle"
    /\ target' = [target EXCEPT ![c] = t]
    /\ \E m \in Limits[t[1]] :
          IF Verifiers[t[1]].validated /\ ~ValidMaxPolls(m)
          THEN Settle(c, "invalid")
          ELSE /\ Goto(c, "submit")
               /\ limit' = [limit EXCEPT ![c] = m]
               /\ attempt' = [attempt EXCEPT ![c] = 0]
    /\ rerun' = [rerun EXCEPT ![c] = t \in verified]
    /\ UNCHANGED <<explorer, guid>>

Accept(c) == /\ Len(jobs) < MaxJobs
             /\ target[c] \in indexed
             /\ jobs' = Append(jobs, [target |-> target[c], status |-> "queued"])

\* Status "1" or 202 with a job to poll.
SubmitAccepted(c) == /\ pc[c] = "submit"
                     /\ Accept(c)
                     /\ guid' = [guid EXCEPT ![c] = Len(jobs')]
                     /\ attempt' = [attempt EXCEPT ![c] = 0]
                     /\ Goto(c, "poll")
                     /\ UNCHANGED <<indexed, verified, target, limit, rerun>>

\* Status "1" with the verdict in place of a guid.
SubmitSettled(c) == /\ pc[c] = "submit"
                    /\ target[c] \in indexed
                    /\ target[c][1] \in MayVerifyAtOnce
                    /\ verified' = verified \union {target[c]}
                    /\ IF V(c).verdictOnSubmit THEN Settle(c, "ok")
                       ELSE /\ Goto(c, "poll")
                            /\ attempt' = [attempt EXCEPT ![c] = 0]
                            /\ UNCHANGED limit
                    /\ UNCHANGED <<indexed, jobs, target, guid, rerun>>

\* What a submission that is not accepted may be answered.
Refusals(t) == {"other"}
    \union (IF t \notin indexed THEN SaysUnindexed[t[1]] ELSE {})
    \union (IF t \in verified THEN {"already verified"}
            ELSE IF \E n \in DOMAIN jobs : jobs[n].target = t /\ t[1] # "sourcify"
            THEN {"pending in queue"} ELSE {})

SubmitAlreadyVerified(c) == /\ pc[c] = "submit"
                            /\ Refusals(target[c]) \cap V(c).already # {}
                            /\ Settle(c, "ok")
                            /\ UNCHANGED <<explorer, target, guid, rerun>>

SubmitNotIndexedYet(c) == /\ pc[c] = "submit"
                          /\ Refusals(target[c]) \cap V(c).notIndexed # {}
                          /\ Below(attempt[c] + 1, limit[c])
                          /\ attempt' = [attempt EXCEPT ![c] = @ + 1]
                          /\ UNCHANGED <<explorer, pc, target, limit, guid, rerun>>

SubmitThrows(c) ==
    /\ pc[c] = "submit"
    /\ \E text \in Refusals(target[c]) \ V(c).already :
          /\ ~(text \in V(c).notIndexed /\ Below(attempt[c] + 1, limit[c]))
          /\ Settle(c, IF text = "other" THEN "unserved" ELSE "refused")
    /\ UNCHANGED <<explorer, target, guid, rerun>>

\* fetch rejects or the answer does not parse; the submission may have got through.
SubmitLost(c) == /\ pc[c] = "submit"
                 /\ Accept(c) \/ UNCHANGED jobs
                 /\ Settle(c, "unserved")
                 /\ UNCHANGED <<indexed, verified, target, guid, rerun>>

\* Mutant: at the limit the count starts over.
PollExhaustedStartsOver(c) == /\ pc[c] = "poll"
                              /\ Reached(attempt[c], limit[c])
                              /\ attempt' = [attempt EXCEPT ![c] = 0]
                              /\ UNCHANGED <<explorer, pc, target, limit, guid, rerun>>

PollExhausted(c) == /\ pc[c] = "poll"
                    /\ Reached(attempt[c], limit[c])
                    /\ Settle(c, "timedOut")
                    /\ UNCHANGED <<explorer, target, guid, rerun>>

PollLost(c) == /\ pc[c] = "poll"
               /\ ~Reached(attempt[c], limit[c])
               /\ Settle(c, "unserved")
               /\ UNCHANGED <<explorer, target, guid, rerun>>

\* The explorer answers for the job the guid names, if there is one.
Status(c) == IF guid[c] = 0 THEN {"other"}
             ELSE SaysOfJob(jobs[guid[c]].status, target[c][1])

PollSucceeds(c) == /\ pc[c] = "poll"
                   /\ ~Reached(attempt[c], limit[c])
                   /\ Status(c) \cap (V(c).passed \union V(c).already) # {}
                   /\ Settle(c, "ok")
                   /\ UNCHANGED <<explorer, target, guid, rerun>>

PollFails(c) == /\ pc[c] = "poll"
                /\ ~Reached(attempt[c], limit[c])
                /\ Status(c) \cap V(c).failed # {}
                /\ Settle(c, "failed")
                /\ UNCHANGED <<explorer, target, guid, rerun>>

Conclusive(c) == V(c).passed \union V(c).already \union V(c).failed

\* Mutant: one poll more than maxPolls.
PollAgainPastLimit(c) == /\ pc[c] = "poll"
                         /\ attempt[c] <= limit[c]
                         /\ Status(c) \ Conclusive(c) # {}
                         /\ attempt' = [attempt EXCEPT ![c] = @ + 1]
                         /\ UNCHANGED <<explorer, pc, target, limit, guid, rerun>>

PollAgain(c) == /\ pc[c] = "poll"
                /\ ~Reached(attempt[c], limit[c])
                /\ Status(c) \ Conclusive(c) # {}
                \* a count that is only compared with NaN: its parity
                /\ attempt' = [attempt EXCEPT ![c] = IF limit[c] = NaN THEN 1 - @ ELSE @ + 1]
                /\ UNCHANGED <<explorer, pc, target, limit, guid, rerun>>

\* The caller takes the result.
Return(c) == /\ pc[c] \in Settled
             /\ Goto(c, "idle")
             /\ target' = [target EXCEPT ![c] = NoTarget]
             /\ guid' = [guid EXCEPT ![c] = 0]
             /\ rerun' = [rerun EXCEPT ![c] = FALSE]
             /\ UNCHANGED <<explorer, limit, attempt>>

-----------------------------------------------------------------------------
Index(t) == /\ t \notin indexed
            /\ indexed' = indexed \union {t}
            /\ UNCHANGED <<verified, jobs, call, rerun>>

\* A job for a contract that is verified by now is a duplicate, or passes too.
Judge(n) == /\ jobs[n].status = "queued"
            /\ \E s \in IF jobs[n].target \in verified THEN {"passed", "duplicate"}
                        ELSE {"passed", "failed"} :
                  /\ jobs' = [jobs EXCEPT ![n].status = s]
                  /\ verified' = IF s = "passed" THEN verified \union {jobs[n].target}
                                 ELSE verified
            /\ UNCHANGED <<indexed, call, rerun>>

\* Somebody else's submission, or a verification imported from another explorer.
Import(t) == /\ t \in indexed \ verified
             /\ verified' = verified \union {t}
             /\ UNCHANGED <<indexed, jobs, call, rerun>>

Request(c) == \/ SubmitAccepted(c) \/ SubmitSettled(c) \/ SubmitAlreadyVerified(c)
              \/ SubmitNotIndexedYet(c) \/ SubmitThrows(c) \/ SubmitLost(c)
              \/ PollExhausted(c) \/ PollLost(c) \/ PollSucceeds(c) \/ PollFails(c)
              \/ PollAgain(c)

Explorer(ts) == \/ \E t \in ts : Index(t) \/ Import(t)
                \/ \E n \in DOMAIN jobs : Judge(n)

VerifierNext == \/ \E c \in Callers : \/ \E t \in Targets : Begin(c, t)
                                      \/ Request(c) \/ Return(c)
                \/ Explorer(Targets)

VerifierSpec == VerifierInit /\ [][VerifierNext]_verifierVars

\* Every request is answered or fails.  No explorer has to index or to judge.
VerifierFairSpec == VerifierSpec /\ \A c \in Callers : WF_verifierVars(Request(c))

-----------------------------------------------------------------------------
Job == [target : Targets, status : {"queued", "passed", "duplicate", "failed"}]

VerifierTypeOK ==
    /\ indexed \subseteq Targets
    /\ verified \subseteq Targets
    /\ jobs \in Seq(Job)
    /\ pc \in [Callers -> PC]
    /\ target \in [Callers -> Targets \union {NoTarget}]
    /\ limit \in [Callers -> Int \union {NaN}]
    /\ attempt \in [Callers -> Nat]
    /\ \A c \in Callers :
          /\ pc[c] = "idle" <=> target[c] = NoTarget
          /\ ValidMaxPolls(limit[c]) => attempt[c] <= limit[c]
          /\ limit[c] = NaN => attempt[c] <= 1
    /\ guid \in [Callers -> 0..MaxJobs]
    /\ rerun \in [Callers -> BOOLEAN]

\* A verification is reported as done only if the explorer shows the contract
\* verified: a text that merely contains the word is no verdict
\* (blockscout/src/index.ts:57-65).
SuccessMeansVerified ==
    \A c \in Callers : pc[c] = "ok" => target[c] \in verified

\* A verification is reported as failed only if the explorer failed this very
\* job: not one that is still queued, and not one that passed or was a duplicate
\* (blockscout/src/index.ts:233-241).
FailureIsTheExplorers ==
    \A c \in Callers :
        pc[c] = "failed" => jobs[guid[c]] = [target |-> target[c], status |-> "failed"]

\* What is polled is a job the explorer queued for this contract, so a time-out
\* never hides a submission that was answered with its verdict
\* (blockscout/src/index.ts:211-219, routescan/src/index.ts:206-217).
PollsOnlyRealJobs ==
    \A c \in Callers : pc[c] \in {"poll", "timedOut"} =>
        guid[c] \in DOMAIN jobs /\ jobs[guid[c]].target = target[c]

\* Verifying a verified contract again is safe (guides/verify.mdx:135): as long as
\* its requests are served, such a call is neither refused nor failed.
RerunNeverRejected ==
    \A c \in Callers : rerun[c] => pc[c] \notin {"refused", "failed"}

\* maxPolls bounds both recursions (blockscout/src/index.ts:106-120), so a call
\* settles however long the explorer takes to index or to judge.
EveryVerificationSettles ==
    \A c \in Callers : pc[c] \in {"submit", "poll"} ~> pc[c] \notin {"submit", "poll"}
=============================================================================
