--------------------------- MODULE VerifyRun_proofs ---------------------------
(***************************************************************************)
(* Proofs about Verifier and VerifyRun.  First the verifiers, for any number *)
(* of callers, contracts and jobs, any of the four of them and any values of *)
(* maxPolls.  The run and the other processes only call the plugins, so what *)
(* Verifier promises holds for them; then the run's own bookkeeping, for any *)
(* configuration, records and requests.                                      *)
(***************************************************************************)
EXTENDS VerifyRun, SequenceTheorems, FiniteSetTheorems, TLAPS

\* What an explorer says of a job is taken for what it is: the texts of a verdict
\* are told apart from each other and from the rest (isSettledOk and its like).
LEMMA Dialects ==
    ASSUME NEW p \in DOMAIN Verifiers, NEW s \in {"queued", "passed", "duplicate", "failed"}
    PROVE  /\ SaysOfJob(s, p) \cap (Verifiers[p].passed \union Verifiers[p].already) # {}
              => s \in {"passed", "duplicate"}
           /\ SaysOfJob(s, p) \cap Verifiers[p].failed # {} => s = "failed"
<1>1. p \in {"etherscan", "blockscout", "routescan", "sourcify"}
  BY DEF Verifiers
<1>2. CASE p = "etherscan"
  BY <1>2 DEF Verifiers, Etherscan, SaysOfJob
<1>3. CASE p = "blockscout"
  BY <1>3 DEF Verifiers, Blockscout, SaysOfJob
<1>4. CASE p = "routescan"
  BY <1>4 DEF Verifiers, Routescan, SaysOfJob
<1>5. CASE p = "sourcify"
  BY <1>5 DEF Verifiers, Sourcify, SaysOfJob
<1>6. QED
  BY <1>1, <1>2, <1>3, <1>4, <1>5

\* The texts of a refusal, and the plugins whose explorer may answer a submission
\* with the verdict.
LEMMA Submissions ==
    ASSUME NEW p \in DOMAIN Verifiers
    PROVE  /\ "already verified" \in Verifiers[p].already
           /\ "other" \notin Verifiers[p].already
           /\ "pending in queue" \notin Verifiers[p].already
           /\ SaysUnindexed[p] \cap Verifiers[p].already = {}
           /\ p \in MayVerifyAtOnce => Verifiers[p].verdictOnSubmit
<1>1. p \in {"etherscan", "blockscout", "routescan", "sourcify"}
  BY DEF Verifiers
<1>2. CASE p = "etherscan"
  BY <1>2 DEF Verifiers, Etherscan, SaysUnindexed, MayVerifyAtOnce
<1>3. CASE p = "blockscout"
  BY <1>3 DEF Verifiers, Blockscout, SaysUnindexed, MayVerifyAtOnce
<1>4. CASE p = "routescan"
  BY <1>4 DEF Verifiers, Routescan, SaysUnindexed, MayVerifyAtOnce
<1>5. CASE p = "sourcify"
  BY <1>5 DEF Verifiers, Sourcify, SaysUnindexed, MayVerifyAtOnce
<1>6. QED
  BY <1>1, <1>2, <1>3, <1>4, <1>5

-----------------------------------------------------------------------------
(* The invariant.  What an explorer knows is consistent by itself, and each  *)
(* call knows of the explorer only what is still true when it uses it.       *)
ExplorerInv ==
    /\ verified \subseteq indexed
    /\ \A n \in DOMAIN jobs :
          /\ jobs[n].target \in indexed
          /\ jobs[n].status \in {"passed", "duplicate"} => jobs[n].target \in verified

CallInv(c) ==
    /\ pc[c] \in {"poll", "timedOut", "failed"} =>
          guid[c] \in DOMAIN jobs /\ jobs[guid[c]].target = target[c]
    /\ pc[c] = "ok" => target[c] \in verified
    /\ pc[c] = "failed" => jobs[guid[c]].status = "failed"
    /\ rerun[c] =>
          /\ target[c] \in verified
          /\ pc[c] \notin {"refused", "failed"}
          /\ pc[c] = "poll" => jobs[guid[c]].status # "failed"

VInv == VerifierTypeOK /\ ExplorerInv /\ \A c \in Callers : CallInv(c)

\* Each call is for one of the plugins the records above describe.
LEMMA KnownPlugin ==
    ASSUME VerifierTypeOK, NEW c \in Callers, pc[c] # "idle"
    PROVE  target[c] \in Targets /\ target[c][1] \in DOMAIN Verifiers
BY VerifierAssumption DEF VerifierTypeOK, Targets

LEMMA VInvInit == VerifierInit => VInv
<1> SUFFICES ASSUME VerifierInit PROVE VInv
  OBVIOUS
<1>1. VerifierTypeOK
  BY VerifierAssumption DEF VerifierInit, VerifierTypeOK, PC, ValidMaxPolls
<1>2. QED
  BY <1>1 DEF VerifierInit, VInv, ExplorerInv, CallInv

\* A call that has learnt what its outcome claims may settle with it.
LEMMA SettleKeeps ==
    ASSUME VInv, NEW c \in Callers, NEW outcome \in Settled,
           pc[c] \in {"submit", "poll"},
           Settle(c, outcome),
           UNCHANGED <<explorer, target, guid, rerun>>,
           outcome = "ok" => target[c] \in verified,
           outcome \in {"timedOut", "failed"} => pc[c] = "poll",
           outcome = "failed" => jobs[guid[c]].status = "failed",
           outcome = "refused" => ~rerun[c]
    PROVE  VInv'
<1>1. VerifierTypeOK'
  BY VerifierAssumption DEF VInv, VerifierTypeOK, Settle, Goto, Settled, PC, ValidMaxPolls,
     explorer
<1>2. ExplorerInv'
  BY DEF VInv, ExplorerInv, explorer
<1>3. ASSUME NEW d \in Callers PROVE CallInv(d)'
  BY <1>3 DEF VInv, VerifierTypeOK, CallInv, Settle, Goto, Settled, explorer
<1>4. QED
  BY <1>1, <1>2, <1>3 DEF VInv

-----------------------------------------------------------------------------
(* The steps of a call.                                                     *)
LEMMA BeginKeeps ==
    ASSUME VInv, NEW c \in Callers, NEW t \in Targets, Begin(c, t)
    PROVE  VInv'
<1>1. PICK l \in {"invalid", "submit"}, m \in Int \union {NaN} :
          /\ pc' = [pc EXCEPT ![c] = l]
          /\ limit' = [limit EXCEPT ![c] = m]
          /\ attempt' = [attempt EXCEPT ![c] = 0]
          /\ l = "invalid" => m = 0
  <2>1. PICK k \in Limits[t[1]] :
            IF Verifiers[t[1]].validated /\ ~ValidMaxPolls(k)
            THEN Settle(c, "invalid")
            ELSE /\ Goto(c, "submit")
                 /\ limit' = [limit EXCEPT ![c] = k]
                 /\ attempt' = [attempt EXCEPT ![c] = 0]
    BY DEF Begin
  <2>2. k \in Int \union {NaN}
    BY VerifierAssumption DEF Targets
  <2>3. CASE Settle(c, "invalid")
    <3>1. /\ 0 \in Int \union {NaN}
          /\ pc' = [pc EXCEPT ![c] = "invalid"]
          /\ limit' = [limit EXCEPT ![c] = 0]
          /\ attempt' = [attempt EXCEPT ![c] = 0]
      BY <2>3 DEF Settle, Goto
    <3>2. QED
      BY <3>1
  <2>4. CASE /\ Goto(c, "submit")
             /\ limit' = [limit EXCEPT ![c] = k]
             /\ attempt' = [attempt EXCEPT ![c] = 0]
    BY <2>2, <2>4 DEF Goto
  <2>5. QED
    BY <2>1, <2>3, <2>4
<1>2. t # NoTarget
  BY VerifierAssumption DEF Targets
<1>3. VerifierTypeOK'
  BY <1>1, <1>2, VerifierAssumption
  DEF VInv, VerifierTypeOK, Begin, Settled, PC, ValidMaxPolls, explorer
<1>4. ExplorerInv'
  BY DEF VInv, ExplorerInv, Begin, explorer
<1>5. ASSUME NEW d \in Callers PROVE CallInv(d)'
  BY <1>1, <1>5 DEF VInv, VerifierTypeOK, CallInv, Begin, explorer
<1>6. QED
  BY <1>3, <1>4, <1>5 DEF VInv

\* What an accepted submission leaves: one more queued job, for this target.
LEMMA Accepted ==
    ASSUME VInv, NEW c \in Callers, pc[c] = "submit", Accept(c)
    PROVE  /\ jobs' \in Seq(Job)
           /\ Len(jobs') = Len(jobs) + 1 /\ Len(jobs') \in 1..MaxJobs
           /\ jobs'[Len(jobs')] = [target |-> target[c], status |-> "queued"]
           /\ \A n \in DOMAIN jobs : n \in DOMAIN jobs' /\ jobs'[n] = jobs[n]
           /\ \A n \in DOMAIN jobs' : n = Len(jobs') \/ n \in DOMAIN jobs
           /\ Len(jobs') \in DOMAIN jobs'
<1>1. [target |-> target[c], status |-> "queued"] \in Job
  BY KnownPlugin DEF VInv, Job
<1>2. jobs \in Seq(Job) /\ MaxJobs \in Nat
  BY VerifierAssumption DEF VInv, VerifierTypeOK
<1>3. jobs' = Append(jobs, [target |-> target[c], status |-> "queued"]) /\ Len(jobs) < MaxJobs
  BY DEF Accept
<1>4. QED
  BY <1>1, <1>2, <1>3

LEMMA SubmitAcceptedKeeps ==
    ASSUME VInv, NEW c \in Callers, SubmitAccepted(c)
    PROVE  VInv'
<1>1. /\ jobs' \in Seq(Job)
      /\ Len(jobs') \in 1..MaxJobs
      /\ jobs'[Len(jobs')] = [target |-> target[c], status |-> "queued"]
      /\ \A n \in DOMAIN jobs : n \in DOMAIN jobs' /\ jobs'[n] = jobs[n]
      /\ \A n \in DOMAIN jobs' : n = Len(jobs') \/ n \in DOMAIN jobs
      /\ Len(jobs') \in DOMAIN jobs'
  BY Accepted DEF SubmitAccepted
<1>2. VerifierTypeOK'
  BY <1>1, VerifierAssumption
  DEF VInv, VerifierTypeOK, SubmitAccepted, Goto, PC, Settled, ValidMaxPolls
<1>3. ExplorerInv'
  BY <1>1 DEF VInv, ExplorerInv, SubmitAccepted, Accept
<1>4. ASSUME NEW d \in Callers PROVE CallInv(d)'
  BY <1>1, <1>4 DEF VInv, VerifierTypeOK, CallInv, SubmitAccepted, Goto
<1>5. QED
  BY <1>2, <1>3, <1>4 DEF VInv

LEMMA SubmitSettledKeeps ==
    ASSUME VInv, NEW c \in Callers, SubmitSettled(c)
    PROVE  VInv'
<1>1. V(c).verdictOnSubmit /\ target[c] \in Targets
  BY KnownPlugin, Submissions DEF SubmitSettled, V, VInv
<1>2. Settle(c, "ok")
  BY <1>1 DEF SubmitSettled
<1>3. VerifierTypeOK'
  BY <1>1, <1>2, VerifierAssumption
  DEF VInv, VerifierTypeOK, SubmitSettled, Settle, Goto, PC, Settled, ValidMaxPolls
<1>4. ExplorerInv'
  BY DEF VInv, ExplorerInv, SubmitSettled
<1>5. ASSUME NEW d \in Callers PROVE CallInv(d)'
  BY <1>2, <1>5 DEF VInv, VerifierTypeOK, CallInv, SubmitSettled, Settle, Goto
<1>6. QED
  BY <1>3, <1>4, <1>5 DEF VInv

LEMMA SubmitAlreadyVerifiedKeeps ==
    ASSUME VInv, NEW c \in Callers, SubmitAlreadyVerified(c)
    PROVE  VInv'
<1>1. target[c] \in verified
  BY KnownPlugin, Submissions DEF SubmitAlreadyVerified, VInv, Refusals, V
<1>2. QED
  BY <1>1, SettleKeeps DEF SubmitAlreadyVerified, Settled

LEMMA SubmitThrowsKeeps ==
    ASSUME VInv, NEW c \in Callers, SubmitThrows(c)
    PROVE  VInv'
<1>1. PICK text \in Refusals(target[c]) \ V(c).already :
          Settle(c, IF text = "other" THEN "unserved" ELSE "refused")
  BY DEF SubmitThrows
<1>2. CASE text = "other"
  BY <1>1, <1>2, SettleKeeps DEF SubmitThrows, Settled
<1>3. CASE text # "other"
  <2>1. target[c] \notin verified
    BY <1>1, <1>3, KnownPlugin, Submissions
    DEF SubmitThrows, VInv, ExplorerInv, Refusals, V
  <2>2. ~rerun[c]
    BY <2>1 DEF VInv, VerifierTypeOK, CallInv
  <2>3. QED
    BY <1>1, <1>3, <2>2, SettleKeeps DEF SubmitThrows, Settled
<1>4. QED
  BY <1>2, <1>3

LEMMA SubmitLostKeeps ==
    ASSUME VInv, NEW c \in Callers, SubmitLost(c)
    PROVE  VInv'
<1>1. CASE UNCHANGED jobs
  BY <1>1, SettleKeeps DEF SubmitLost, Settled, explorer
<1>2. CASE Accept(c)
  <2>1. /\ jobs' \in Seq(Job)
        /\ jobs'[Len(jobs')] = [target |-> target[c], status |-> "queued"]
        /\ \A n \in DOMAIN jobs : n \in DOMAIN jobs' /\ jobs'[n] = jobs[n]
        /\ \A n \in DOMAIN jobs' : n = Len(jobs') \/ n \in DOMAIN jobs
    BY <1>2, Accepted DEF SubmitLost
  <2>2. VerifierTypeOK'
    BY <2>1, VerifierAssumption
    DEF VInv, VerifierTypeOK, SubmitLost, Settle, Goto, PC, Settled, ValidMaxPolls
  <2>3. ExplorerInv'
    BY <1>2, <2>1 DEF VInv, ExplorerInv, SubmitLost, Accept
  <2>4. ASSUME NEW d \in Callers PROVE CallInv(d)'
    BY <2>1, <2>4 DEF VInv, VerifierTypeOK, CallInv, SubmitLost, Settle, Goto
  <2>5. QED
    BY <2>2, <2>3, <2>4 DEF VInv
<1>3. QED
  BY <1>1, <1>2 DEF SubmitLost

LEMMA SubmitNotIndexedYetKeeps ==
    ASSUME VInv, NEW c \in Callers, SubmitNotIndexedYet(c)
    PROVE  VInv'
<1>1. VerifierTypeOK'
  BY VerifierAssumption
  DEF VInv, VerifierTypeOK, SubmitNotIndexedYet, Below, ValidMaxPolls, explorer
<1>2. QED
  BY <1>1 DEF VInv, ExplorerInv, CallInv, SubmitNotIndexedYet, explorer

LEMMA PollExhaustedKeeps ==
    ASSUME VInv, NEW c \in Callers, PollExhausted(c)
    PROVE  VInv'
BY SettleKeeps DEF PollExhausted, Settled

LEMMA PollLostKeeps ==
    ASSUME VInv, NEW c \in Callers, PollLost(c)
    PROVE  VInv'
BY SettleKeeps DEF PollLost, Settled

\* A poll is answered for a job of this call's target.
LEMMA Polled ==
    ASSUME VInv, NEW c \in Callers, pc[c] = "poll"
    PROVE  /\ guid[c] \in DOMAIN jobs /\ guid[c] # 0
           /\ jobs[guid[c]].target = target[c]
           /\ jobs[guid[c]].status \in {"queued", "passed", "duplicate", "failed"}
           /\ jobs[guid[c]].status \in {"passed", "duplicate"} => target[c] \in verified
           /\ Status(c) = SaysOfJob(jobs[guid[c]].status, target[c][1])
<1>1. guid[c] \in DOMAIN jobs /\ jobs[guid[c]].target = target[c]
  BY DEF VInv, CallInv
<1>2. guid[c] # 0 /\ jobs[guid[c]] \in Job
  BY <1>1 DEF VInv, VerifierTypeOK
<1>3. QED
  BY <1>1, <1>2 DEF VInv, ExplorerInv, Job, Status

LEMMA PollSucceedsKeeps ==
    ASSUME VInv, NEW c \in Callers, PollSucceeds(c)
    PROVE  VInv'
<1>1. target[c] \in verified
  BY Polled, Dialects, KnownPlugin DEF PollSucceeds, VInv, V
<1>2. QED
  BY <1>1, SettleKeeps DEF PollSucceeds, Settled

LEMMA PollFailsKeeps ==
    ASSUME VInv, NEW c \in Callers, PollFails(c)
    PROVE  VInv'
<1>1. jobs[guid[c]].status = "failed"
  BY Polled, Dialects, KnownPlugin DEF PollFails, VInv, V
<1>2. QED
  BY <1>1, SettleKeeps DEF PollFails, Settled

LEMMA PollAgainKeeps ==
    ASSUME VInv, NEW c \in Callers, PollAgain(c)
    PROVE  VInv'
<1>1. VerifierTypeOK'
  BY VerifierAssumption
  DEF VInv, VerifierTypeOK, PollAgain, Reached, ValidMaxPolls, explorer
<1>2. QED
  BY <1>1 DEF VInv, ExplorerInv, CallInv, PollAgain, explorer

LEMMA ReturnKeeps ==
    ASSUME VInv, NEW c \in Callers, Return(c)
    PROVE  VInv'
<1>1. VerifierTypeOK'
  BY VerifierAssumption
  DEF VInv, VerifierTypeOK, Return, Goto, PC, Settled, explorer
<1>2. ASSUME NEW d \in Callers PROVE CallInv(d)'
  BY <1>2 DEF VInv, VerifierTypeOK, CallInv, Return, Goto, explorer
<1>3. QED
  BY <1>1, <1>2 DEF VInv, ExplorerInv, Return, explorer

-----------------------------------------------------------------------------
(* The steps of the explorers: what a call has learnt of them stays true.   *)
LEMMA IndexKeeps ==
    ASSUME VInv, NEW t \in Targets, Index(t)
    PROVE  VInv'
BY DEF VInv, VerifierTypeOK, ExplorerInv, CallInv, Index, call

LEMMA ImportKeeps ==
    ASSUME VInv, NEW t \in Targets, Import(t)
    PROVE  VInv'
BY DEF VInv, VerifierTypeOK, ExplorerInv, CallInv, Import, call

LEMMA JudgeKeeps ==
    ASSUME VInv, NEW n \in DOMAIN jobs, Judge(n)
    PROVE  VInv'
<1>1. PICK s \in {"passed", "duplicate", "failed"} :
          /\ jobs' = [jobs EXCEPT ![n].status = s]
          /\ s = "duplicate" => jobs[n].target \in verified
          /\ s = "failed" => jobs[n].target \notin verified
          /\ verified' = IF s = "passed" THEN verified \union {jobs[n].target} ELSE verified
  BY DEF Judge
<1>2. /\ jobs' \in Seq(Job) /\ DOMAIN jobs' = DOMAIN jobs
      /\ jobs'[n].status = s /\ jobs'[n].target = jobs[n].target
      /\ \A m \in DOMAIN jobs : m # n => jobs'[m] = jobs[m]
  <2>1. jobs \in Seq(Job)
    BY DEF VInv, VerifierTypeOK
  <2>2. PICK j \in Job : j = [jobs[n] EXCEPT !.status = s]
    <3>1. jobs[n] \in Job
      BY <2>1
    <3>2. [jobs[n] EXCEPT !.status = s] \in Job
      BY <3>1 DEF Job
    <3>3. QED
      BY <3>2
  <2>3. j.status = s /\ j.target = jobs[n].target
    BY <2>1, <2>2 DEF Job
  <2>4. jobs' = [jobs EXCEPT ![n] = j]
    BY <1>1, <2>2
  <2>5. QED
    BY <2>1, <2>3, <2>4
<1>3. jobs[n].target \in Targets
  <2>1. jobs[n] \in Job
    BY DEF VInv, VerifierTypeOK
  <2>2. QED
    BY <2>1 DEF Job
<1>4. VerifierTypeOK'
  BY <1>1, <1>2, <1>3 DEF VInv, VerifierTypeOK, Judge, call
<1>5. ExplorerInv'
  BY <1>1, <1>2 DEF VInv, ExplorerInv, Judge
<1>6. ASSUME NEW d \in Callers PROVE CallInv(d)'
  <2>1. /\ CallInv(d) /\ jobs[n].status = "queued"
        /\ UNCHANGED <<pc, target, guid, rerun>>
        /\ verified \subseteq verified'
    BY <1>1, <1>6 DEF VInv, Judge, call
  <2>2. QED
    BY <1>1, <1>2, <2>1 DEF CallInv
<1>7. QED
  BY <1>4, <1>5, <1>6 DEF VInv

-----------------------------------------------------------------------------
LEMMA VInvStep == VInv /\ [VerifierNext]_verifierVars => VInv'
<1> SUFFICES ASSUME VInv, [VerifierNext]_verifierVars PROVE VInv'
  OBVIOUS
<1>1. CASE \E c \in Callers, t \in Targets : Begin(c, t)
  BY <1>1, BeginKeeps
<1>2. CASE \E c \in Callers : Request(c)
  BY <1>2, SubmitAcceptedKeeps, SubmitSettledKeeps, SubmitAlreadyVerifiedKeeps,
     SubmitNotIndexedYetKeeps, SubmitThrowsKeeps, SubmitLostKeeps, PollExhaustedKeeps,
     PollLostKeeps, PollSucceedsKeeps, PollFailsKeeps, PollAgainKeeps DEF Request
<1>3. CASE \E c \in Callers : Return(c)
  BY <1>3, ReturnKeeps
<1>4. CASE Explorer(Targets)
  BY <1>4, IndexKeeps, ImportKeeps, JudgeKeeps DEF Explorer
<1>5. CASE UNCHANGED verifierVars
  BY <1>5 DEF VInv, VerifierTypeOK, ExplorerInv, CallInv, verifierVars, explorer, call
<1>6. QED
  BY <1>1, <1>2, <1>3, <1>4, <1>5 DEF VerifierNext

THEOREM VInvHolds == VerifierSpec => []VInv
<1>1. QED
  BY VInvInit, VInvStep, PTL DEF VerifierSpec

\* The types, and the bound on the attempts: a call never waits for an explorer
\* more often than maxPolls says.
THEOREM VerifierTypeCorrect == VerifierSpec => []VerifierTypeOK
<1>1. VInv => VerifierTypeOK
  BY DEF VInv
<1>2. QED
  BY <1>1, VInvHolds, PTL

\* A call that returns has its contract verified, whichever text ended it.
THEOREM SuccessIsEarned == VerifierSpec => []SuccessMeansVerified
<1>1. VInv => SuccessMeansVerified
  BY DEF VInv, CallInv, SuccessMeansVerified
<1>2. QED
  BY <1>1, VInvHolds, PTL

\* A call that throws a verification failure has its own job failed.
THEOREM FailureIsFounded == VerifierSpec => []FailureIsTheExplorers
<1>1. VInv => FailureIsTheExplorers
  <2> SUFFICES ASSUME VInv, NEW c \in Callers, pc[c] = "failed"
               PROVE  jobs[guid[c]] = [target |-> target[c], status |-> "failed"]
    BY DEF FailureIsTheExplorers
  <2>1. /\ guid[c] \in DOMAIN jobs
        /\ jobs[guid[c]].target = target[c] /\ jobs[guid[c]].status = "failed"
    BY DEF VInv, CallInv
  <2>2. jobs[guid[c]] \in Job
    BY <2>1 DEF VInv, VerifierTypeOK
  <2>3. QED
    BY <2>1, <2>2 DEF Job
<1>2. QED
  BY <1>1, VInvHolds, PTL

\* What is polled is a queued submission of this contract.
THEOREM PollsAreReal == VerifierSpec => []PollsOnlyRealJobs
<1>1. VInv => PollsOnlyRealJobs
  BY DEF VInv, CallInv, PollsOnlyRealJobs
<1>2. QED
  BY <1>1, VInvHolds, PTL

\* Verifying a verified contract again is safe.
THEOREM RerunIsSafe == VerifierSpec => []RerunNeverRejected
<1>1. VInv => RerunNeverRejected
  BY DEF VInv, CallInv, RerunNeverRejected
<1>2. QED
  BY <1>1, VInvHolds, PTL

-----------------------------------------------------------------------------
(* The run and its neighbours.                                               *)
\* Every step of the run, of the others and of the explorers is one of Verifier's,
\* or leaves it alone.
LEMMA StepsOfVerifier == [Next]_vars => [VerifierNext]_verifierVars
<1> SUFFICES ASSUME [Next]_vars PROVE [VerifierNext]_verifierVars
  OBVIOUS
<1>1. TargetsInUse \subseteq Targets
  BY DEF TargetsInUse
<1>2. CASE RunStep
  <2>1. CASE SelectPlugins \/ RequestRefused \/ ReadRecords \/ ReadRecordsThrows
             \/ External \/ Unverifiable \/ ResolveMetadata
    BY <2>1 DEF SelectPlugins, RequestRefused, ReadRecords, ReadRecordsThrows, External,
       Unverifiable, ResolveMetadata
  <2>2. CASE RunHook
    BY <1>1, <2>2, RunAssumption DEF RunHook, VerifierNext
  <2>3. CASE HookSettles
    BY <2>3, RunAssumption DEF HookSettles, VerifierNext
  <2>4. QED
    BY <1>2, <2>1, <2>2, <2>3 DEF RunStep
<1>3. CASE \E c \in Callers : Answered(c) \/ OtherReturns(c)
  BY <1>3 DEF Answered, OtherReturns, VerifierNext
<1>4. CASE \E c \in Callers, t \in TargetsInUse : OtherBegins(c, t)
  BY <1>1, <1>4 DEF OtherBegins, VerifierNext
<1>5. CASE Explorer(TargetsInUse)
  BY <1>1, <1>5 DEF Explorer, VerifierNext
<1>6. CASE UNCHANGED vars
  BY <1>6 DEF vars
<1>7. QED
  BY <1>2, <1>3, <1>4, <1>5, <1>6 DEF Next

\* The verify command and its neighbours use the plugins as Verifier describes.
THEOREM RunImplementsVerifier == Spec => VerifierSpec
<1>1. Init => VerifierInit
  BY DEF Init
<1>2. QED
  BY <1>1, StepsOfVerifier, PTL DEF Spec, VerifierSpec

\* In a run as well, done means verified, failed means this job failed, a poll is
\* for a queued submission of this contract, and verifying again is safe.
THEOREM RunKeepsVerdicts ==
    Spec => [](/\ SuccessMeansVerified /\ FailureIsTheExplorers
               /\ PollsOnlyRealJobs /\ RerunNeverRejected)
<1>1. QED
  BY RunImplementsVerifier, SuccessIsEarned, FailureIsFounded, PollsAreReal, RerunIsSafe, PTL

-----------------------------------------------------------------------------
(* The run's own bookkeeping.  A record is verified when every plugin that   *)
(* was selected has been through it without a failure, so the invariant      *)
(* follows the plugins that are through with the record at hand.             *)

\* The plugins still to run are the last of the selected ones; those before them
\* verified the record, or are among the failures; a hook under way is for the first.
HooksInv ==
    stage = "hooks" =>
        /\ Len(pending) <= Len(selected)
        /\ \A k \in DOMAIN pending : pending[k] = selected[(Len(selected) - Len(pending)) + k]
        /\ failures = {} =>
              \A j \in 1..(Len(selected) - Len(pending)) :
                  <<selected[j], todo[1].contract>> \in verified
        /\ pc[Run] # "idle" => target[Run] = <<pending[1], todo[1].contract>>

\* An outcome says what was done, and the explorers have not forgotten it since.
OutcomesInv ==
    \A i \in DOMAIN results :
        /\ results[i].status = "verified" =>
              \A j \in DOMAIN selected : <<selected[j], asked[i].contract>> \in verified
        /\ results[i].status = "skipped" => asked[i].kind = "external"

StagesInv ==
    /\ stage \in {"start", "list", "refused"} => results = <<>>
    /\ stage # "hooks" => failures = {}
    /\ stage \notin {"start", "refused"} => selected # <<>>

VRInv == TypeOK /\ VInv /\ EveryRecordAccounted /\ HooksInv /\ OutcomesInv /\ StagesInv

-----------------------------------------------------------------------------
\* What a filter keeps are elements of the sequence, and it keeps some if any position
\* passes.
LEMMA FilteredKeeps ==
    ASSUME NEW S, NEW s \in Seq(S), NEW I \in SUBSET (DOMAIN s), NEW T,
           \A i \in I : s[i] \in T,
           NEW kept \in Filtered(s, I)
    PROVE  kept \in Seq(T) /\ (I # {} => kept # <<>>)
<1>1. IsFiniteSet(I)
  <2>1. IsFiniteSet(1..Len(s))
    BY FS_Interval
  <2>2. QED
    BY <2>1, FS_Subset
<1>2. Cardinality(I) \in Nat /\ (I # {} => Cardinality(I) # 0)
  BY <1>1, FS_CardinalityType, FS_EmptySet
<1>3. PICK f \in [1..Cardinality(I) -> I] : kept = [k \in DOMAIN f |-> s[f[k]]]
  BY DEF Filtered
<1>4. kept \in [1..Cardinality(I) -> T]
  BY <1>3
<1>5. kept \in Seq(T) /\ Len(kept) = Cardinality(I)
  BY <1>2, <1>4
<1>6. QED
  BY <1>2, <1>5

\* An explorer never takes a verification back.
LEMMA VerifiedGrows == VInv /\ [VerifierNext]_verifierVars => verified \subseteq verified'
<1> SUFFICES ASSUME VInv, [VerifierNext]_verifierVars PROVE verified \subseteq verified'
  OBVIOUS
<1>1. CASE \E c \in Callers, t \in Targets : Begin(c, t)
  BY <1>1 DEF Begin, explorer
<1>2. ASSUME NEW c \in Callers, Request(c) PROVE verified \subseteq verified'
  BY <1>2 DEF Request, SubmitAccepted, SubmitSettled, SubmitAlreadyVerified, SubmitNotIndexedYet,
     SubmitThrows, SubmitLost, PollExhausted, PollLost, PollSucceeds, PollFails, PollAgain, explorer
<1>3. CASE \E c \in Callers : Return(c)
  BY <1>3 DEF Return, explorer
<1>4. CASE Explorer(Targets)
  BY <1>4 DEF Explorer, Index, Import, Judge
<1>5. CASE UNCHANGED verifierVars
  BY <1>5 DEF verifierVars, explorer
<1>6. QED
  BY <1>1, <1>2, <1>3, <1>4, <1>5 DEF VerifierNext

\* A request does not change what a call is for, and settling is not returning.
LEMMA RequestKeepsTarget ==
    ASSUME VInv, NEW c \in Callers, Request(c)
    PROVE  /\ target' = target
           /\ \A d \in Callers : pc'[d] = "idle" <=> pc[d] = "idle"
<1>1. target' = target
  BY DEF Request, SubmitAccepted, SubmitSettled, SubmitAlreadyVerified, SubmitNotIndexedYet,
     SubmitThrows, SubmitLost, PollExhausted, PollLost, PollSucceeds, PollFails, PollAgain, explorer
<1>2. VInv'
  BY VInvStep DEF VerifierNext
<1>3. QED
  BY <1>1, <1>2 DEF VInv, VerifierTypeOK

LEMMA VRInvInit == Init => VRInv
<1> SUFFICES ASSUME Init PROVE VRInv
  OBVIOUS
<1>1. VInv
  BY VInvInit DEF Init
<1>2. VerifierTypeOK
  BY <1>1 DEF VInv
<1>3. TypeOK
  BY <1>2, RunAssumption DEF Init, TypeOK, VerifierInit
<1>4. QED
  BY <1>1, <1>3 DEF Init, VRInv, EveryRecordAccounted, HooksInv, OutcomesInv, StagesInv

-----------------------------------------------------------------------------
(* The steps of the others, which leave the run where it was.               *)
LEMMA NeighbourKeeps ==
    ASSUME VRInv, VInv', UNCHANGED <<config, runVars>>, others' \in 0..MaxOthers,
           verified \subseteq verified',
           target'[Run] = target[Run],
           pc'[Run] = "idle" <=> pc[Run] = "idle"
    PROVE  VRInv'
<1>1. /\ config' = config /\ stage' = stage /\ request' = request /\ selected' = selected
      /\ asked' = asked /\ todo' = todo /\ pending' = pending /\ failures' = failures
      /\ results' = results
  BY DEF runVars
<1>2. TypeOK'
  BY <1>1 DEF VRInv, TypeOK, VInv
<1>3. EveryRecordAccounted'
  BY <1>1 DEF VRInv, EveryRecordAccounted
<1>4. HooksInv'
  BY <1>1 DEF VRInv, HooksInv
<1>5. OutcomesInv'
  BY <1>1 DEF VRInv, OutcomesInv
<1>6. StagesInv'
  BY <1>1 DEF VRInv, StagesInv
<1>7. QED
  BY <1>2, <1>3, <1>4, <1>5, <1>6 DEF VRInv

LEMMA NeighboursKeep ==
    ASSUME VRInv, VInv', verified \subseteq verified',
           \/ \E c \in Callers : Answered(c) \/ OtherReturns(c)
           \/ \E c \in Callers, t \in TargetsInUse : OtherBegins(c, t)
           \/ Explorer(TargetsInUse) /\ UNCHANGED <<config, runVars, others>>
           \/ UNCHANGED vars
    PROVE  VRInv'
<1> USE RunAssumption
<1>0. others \in 0..MaxOthers /\ pc \in [Callers -> PC]
      /\ target \in [Callers -> Targets \union {NoTarget}]
  BY DEF VRInv, TypeOK, VerifierTypeOK
<1>1. ASSUME NEW c \in Callers, Answered(c) PROVE VRInv'
  <2>1. target' = target /\ (pc'[Run] = "idle" <=> pc[Run] = "idle")
    BY <1>1, RequestKeepsTarget DEF Answered, VRInv
  <2>2. QED
    BY <1>0, <1>1, <2>1, NeighbourKeeps DEF Answered
<1>2. ASSUME NEW c \in Callers, OtherReturns(c) PROVE VRInv'
  <2>1. target'[Run] = target[Run] /\ pc'[Run] = pc[Run]
    BY <1>0, <1>2 DEF OtherReturns, Return, Goto
  <2>2. QED
    BY <1>0, <1>2, <2>1, NeighbourKeeps DEF OtherReturns
<1>3. ASSUME NEW c \in Callers, NEW t \in TargetsInUse, OtherBegins(c, t) PROVE VRInv'
  <2>1. target'[Run] = target[Run] /\ pc'[Run] = pc[Run]
    BY <1>0, <1>3 DEF OtherBegins, Begin, Settle, Goto
  <2>2. others' \in 0..MaxOthers
    BY <1>0, <1>3 DEF OtherBegins
  <2>3. QED
    BY <1>3, <2>1, <2>2, NeighbourKeeps DEF OtherBegins
<1>4. ASSUME Explorer(TargetsInUse), UNCHANGED <<config, runVars, others>> PROVE VRInv'
  <2>1. target' = target /\ pc' = pc
    BY <1>4 DEF Explorer, Index, Import, Judge, call
  <2>2. QED
    BY <1>0, <1>4, <2>1, NeighbourKeeps
<1>5. ASSUME UNCHANGED vars PROVE VRInv'
  <2>1. target' = target /\ pc' = pc
    BY <1>5 DEF vars, verifierVars, call
  <2>2. QED
    BY <1>0, <1>5, <2>1, NeighbourKeeps DEF vars
<1>6. QED
  BY <1>1, <1>2, <1>3, <1>4, <1>5

-----------------------------------------------------------------------------
(* The steps of the run.                                                    *)
LEMMA SelectPluginsKeeps == ASSUME VRInv, SelectPlugins PROVE VRInv'
<1>1. PICK r \in Requests : /\ ~NothingSelected(r)
                            /\ request' = r
                            /\ selected' \in Filtered(config, Selection(r))
  BY DEF SelectPlugins
<1>2. config \in Seq(STRING)
  BY RunAssumption DEF VRInv, TypeOK
<1>3. Selection(r) # {}
  BY <1>1 DEF NothingSelected, InVerifying, Selection
<1>4. selected' \in Seq(Plugins) /\ selected' # <<>>
  <2>1. Selection(r) \in SUBSET (DOMAIN config) /\ \A i \in Selection(r) : config[i] \in Plugins
    BY DEF Selection
  <2>2. QED
    BY <1>1, <1>2, <1>3, <2>1, FilteredKeeps
<1>5. /\ stage = "start" /\ stage' = "list" /\ verifierVars' = verifierVars
      /\ UNCHANGED <<config, asked, todo, pending, failures, results, others>>
  BY DEF SelectPlugins
<1>6. VInv'
  BY <1>5, VInvStep DEF VRInv
<1>7. pc' = pc /\ verified' = verified
  BY <1>5 DEF verifierVars, explorer, call
<1>8. TypeOK'
  BY <1>1, <1>4, <1>5, <1>6, <1>7 DEF VRInv, TypeOK, VInv
<1>9. QED
  BY <1>4, <1>5, <1>6, <1>8
  DEF VRInv, EveryRecordAccounted, HooksInv, OutcomesInv, StagesInv

LEMMA RefusedKeeps ==
    ASSUME VRInv, RequestRefused \/ ReadRecordsThrows
    PROVE  VRInv'
<1>1. /\ stage \in {"start", "list"} /\ stage' = "refused" /\ verifierVars' = verifierVars
      /\ request' \in Requests \union {NoRequest}
      /\ UNCHANGED <<config, selected, asked, todo, pending, failures, results, others>>
  BY DEF RequestRefused, ReadRecordsThrows, VRInv, TypeOK
<1>2. VInv'
  BY <1>1, VInvStep DEF VRInv
<1>3. pc' = pc /\ verified' = verified
  BY <1>1 DEF verifierVars, explorer, call
<1>4. TypeOK'
  BY <1>1, <1>2, <1>3 DEF VRInv, TypeOK, VInv
<1>5. QED
  BY <1>1, <1>2, <1>4
  DEF VRInv, EveryRecordAccounted, HooksInv, OutcomesInv, StagesInv

LEMMA ReadRecordsKeeps == ASSUME VRInv, ReadRecords PROVE VRInv'
<1>1. PICK store \in Stores : /\ Wanted(request, store) # {}
                              /\ asked' \in Filtered(store, Wanted(request, store))
  BY DEF ReadRecords
<1>2. asked' \in Seq(Stored) /\ asked' # <<>>
  <2>1. store \in Seq(Stored)
    BY RunAssumption
  <2>2. /\ Wanted(request, store) \in SUBSET (DOMAIN store)
        /\ \A i \in Wanted(request, store) : store[i] \in Stored
    BY <2>1 DEF Wanted
  <2>3. QED
    BY <1>1, <2>1, <2>2, FilteredKeeps
<1>3. /\ stage = "list" /\ stage' = "record" /\ verifierVars' = verifierVars /\ todo' = asked'
      /\ UNCHANGED <<config, request, selected, pending, failures, results, others>>
  BY DEF ReadRecords
<1>4. VInv'
  BY <1>3, VInvStep DEF VRInv
<1>5. pc' = pc /\ verified' = verified
  BY <1>3 DEF verifierVars, explorer, call
<1>6. TypeOK'
  BY <1>2, <1>3, <1>4, <1>5 DEF VRInv, TypeOK, VInv
<1>7. results' = <<>>
  BY <1>3 DEF VRInv, StagesInv
<1>8. EveryRecordAccounted'
  BY <1>2, <1>3, <1>7 DEF EveryRecordAccounted
<1>9. QED
  BY <1>3, <1>4, <1>6, <1>7, <1>8 DEF VRInv, HooksInv, OutcomesInv, StagesInv

\* The record at hand is the one of the listing that comes after those with an outcome.
LEMMA AtHand ==
    ASSUME VRInv, stage \in {"record", "hooks"}
    PROVE  /\ todo # <<>> /\ Head(todo) = todo[1] /\ todo[1] \in Stored
           /\ todo[1] = asked[Len(results) + 1]
           /\ Len(results) \in Nat /\ Len(results) + 1 \in DOMAIN asked
<1>1. todo # <<>> /\ todo \in Seq(Stored) /\ asked \in Seq(Stored) /\ results \in Seq(Result)
  BY DEF VRInv, TypeOK
<1>2. Len(results) + Len(todo) = Len(asked) /\ \A i \in DOMAIN todo : todo[i] = asked[Len(results) + i]
  BY DEF VRInv, EveryRecordAccounted
<1>3. Len(todo) \in Nat \ {0} /\ 1 \in DOMAIN todo
  BY <1>1
<1>4. QED
  BY <1>1, <1>2, <1>3

\* A record gets an outcome that says what was done.
LEMMA ConcludeKeeps ==
    ASSUME VRInv, VInv', stage \in {"record", "hooks"}, verified \subseteq verified',
           pc'[Run] = "idle",
           NEW status \in {"verified", "failed", "unverifiable", "skipped"},
           NEW threw \in SUBSET Plugins,
           Conclude(status, threw),
           status = "verified" =>
              \A j \in DOMAIN selected : <<selected[j], todo[1].contract>> \in verified,
           status = "skipped" => todo[1].kind = "external"
    PROVE  VRInv'
<1> DEFINE result == [name |-> todo[1].name, status |-> status, failures |-> threw]
<1>1. /\ Head(todo) = todo[1] /\ todo # <<>> /\ todo[1] \in Stored
      /\ todo[1] = asked[Len(results) + 1] /\ Len(results) \in Nat
  BY AtHand
<1>2. /\ todo \in Seq(Stored) /\ asked \in Seq(Stored) /\ results \in Seq(Result)
      /\ pending' = <<>> /\ failures' = {} /\ todo' = Tail(todo)
      /\ results' = Append(results, result)
      /\ stage' = IF todo' = <<>> THEN "reported" ELSE "record"
      /\ UNCHANGED <<config, request, selected, asked, others>>
  BY <1>1 DEF VRInv, TypeOK, Conclude
<1>3. /\ result \in Result
      /\ result.name = todo[1].name /\ result.status = status
  BY <1>1 DEF Result, Stored
<1>4. /\ results' \in Seq(Result) /\ Len(results') = Len(results) + 1
      /\ results'[Len(results) + 1] = result
      /\ \A i \in DOMAIN results : results'[i] = results[i]
      /\ DOMAIN results' = DOMAIN results \union {Len(results) + 1}
  <2> HIDE DEF result
  <2>1. QED
    BY <1>2, <1>3, AppendProperties
<1>5. /\ todo' \in Seq(Stored) /\ Len(todo') = Len(todo) - 1
      /\ \A i \in DOMAIN todo' : todo'[i] = todo[i + 1] /\ i + 1 \in DOMAIN todo
  BY <1>1, <1>2
<1> HIDE DEF result
<1>6. TypeOK'
  BY <1>2, <1>4, <1>5 DEF VRInv, TypeOK, VInv
<1>7. EveryRecordAccounted'
  <2>1. /\ Len(results) + Len(todo) = Len(asked)
        /\ \A i \in DOMAIN results : results[i].name = asked[i].name
        /\ \A i \in DOMAIN todo : todo[i] = asked[Len(results) + i]
    BY DEF VRInv, EveryRecordAccounted
  <2>2. Len(results') + Len(todo') = Len(asked')
    BY <1>2, <1>4, <1>5, <2>1
  <2>3. \A i \in DOMAIN results' : results'[i].name = asked'[i].name
    BY <1>1, <1>2, <1>3, <1>4, <2>1
  <2>4. ASSUME NEW i \in DOMAIN todo' PROVE todo'[i] = asked'[Len(results') + i]
    <3>1. i \in Int /\ todo'[i] = asked[Len(results) + (i + 1)]
      BY <1>5, <2>1
    <3>2. Len(results) + (i + 1) = Len(results') + i
      BY <1>1, <1>4, <3>1
    <3>3. QED
      BY <1>2, <3>1, <3>2
  <2>5. QED
    BY <2>2, <2>3, <2>4 DEF EveryRecordAccounted
<1>8. OutcomesInv'
  <2>1. ASSUME NEW i \in DOMAIN results
        PROVE  /\ results'[i].status = "verified" =>
                     \A j \in DOMAIN selected' : <<selected'[j], asked'[i].contract>> \in verified'
               /\ results'[i].status = "skipped" => asked'[i].kind = "external"
    BY <1>2, <1>4, <2>1 DEF VRInv, OutcomesInv
  <2>2. /\ results'[Len(results) + 1].status = "verified" =>
              \A j \in DOMAIN selected' :
                  <<selected'[j], asked'[Len(results) + 1].contract>> \in verified'
        /\ results'[Len(results) + 1].status = "skipped" =>
              asked'[Len(results) + 1].kind = "external"
    BY <1>1, <1>2, <1>3, <1>4
  <2>3. QED
    BY <1>4, <2>1, <2>2 DEF OutcomesInv
<1>9. HooksInv' /\ StagesInv'
  BY <1>2 DEF VRInv, HooksInv, StagesInv
<1>10. QED
  BY <1>6, <1>7, <1>8, <1>9 DEF VRInv

LEMMA WithoutHooksKeeps ==
    ASSUME VRInv, External \/ Unverifiable
    PROVE  VRInv'
<1>1. /\ stage = "record" /\ verifierVars' = verifierVars
      /\ \/ Conclude("skipped", {}) /\ Head(todo).kind = "external"
         \/ Conclude("unverifiable", {})
  BY DEF External, Unverifiable
<1>2. VInv' /\ verified' = verified /\ pc'[Run] = "idle"
  <2>1. pc' = pc /\ verified' = verified
    BY <1>1 DEF verifierVars, explorer, call
  <2>2. QED
    BY <1>1, <2>1, VInvStep DEF VRInv, TypeOK
<1>3. QED
  BY <1>1, <1>2, AtHand, ConcludeKeeps

LEMMA ResolveMetadataKeeps == ASSUME VRInv, ResolveMetadata PROVE VRInv'
<1>1. /\ stage = "record" /\ stage' = "hooks" /\ pending' = selected
      /\ verifierVars' = verifierVars
      /\ UNCHANGED <<config, request, selected, asked, todo, failures, results, others>>
  BY DEF ResolveMetadata
<1>2. VInv' /\ pc' = pc /\ verified' = verified
  BY <1>1, VInvStep DEF VRInv, verifierVars, explorer, call
<1>3. selected \in Seq(Plugins) /\ selected # <<>> /\ pc[Run] = "idle"
  BY <1>1 DEF VRInv, TypeOK, StagesInv
<1>4. TypeOK'
  BY <1>1, <1>2, <1>3 DEF VRInv, TypeOK, VInv
<1>5. HooksInv'
  BY <1>1, <1>2, <1>3 DEF HooksInv
<1>6. EveryRecordAccounted' /\ OutcomesInv' /\ StagesInv'
  BY <1>1, <1>2 DEF VRInv, EveryRecordAccounted, OutcomesInv, StagesInv
<1>7. QED
  BY <1>2, <1>4, <1>5, <1>6 DEF VRInv, VInv

LEMMA RunHookKeeps == ASSUME VRInv, RunHook PROVE VRInv'
<1>1. PICK t \in TargetsInUse : t = <<Head(pending), Head(todo).contract>> /\ Begin(Run, t)
  BY DEF RunHook
<1>2. stage = "hooks" /\ UNCHANGED <<config, runVars, others>>
  BY DEF RunHook
<1>3. VInv' /\ verified' = verified
  <2>1. t \in Targets /\ Run \in Callers
    BY RunAssumption DEF TargetsInUse
  <2>2. QED
    BY <1>1, <2>1, VInvStep DEF VRInv, VerifierNext, Begin, explorer
<1>4. target'[Run] = <<pending[1], todo[1].contract>>
  <2>1. pending \in Seq(Plugins) /\ pending # <<>>
    BY <1>2 DEF VRInv, TypeOK
  <2>2. Head(pending) = pending[1] /\ Head(todo) = todo[1]
    BY <1>2, <2>1, AtHand
  <2>3. target \in [Callers -> Targets \union {NoTarget}] /\ Run \in Callers
    BY RunAssumption DEF VRInv, TypeOK, VerifierTypeOK
  <2>4. QED
    BY <1>1, <2>2, <2>3 DEF Begin
<1>5. /\ config' = config /\ stage' = stage /\ request' = request /\ selected' = selected
      /\ asked' = asked /\ todo' = todo /\ pending' = pending /\ failures' = failures
      /\ results' = results /\ others' = others
  BY <1>2 DEF runVars
<1>6. TypeOK'
  BY <1>2, <1>3, <1>5 DEF VRInv, TypeOK, VInv
<1>7. HooksInv'
  BY <1>3, <1>4, <1>5 DEF VRInv, HooksInv
<1>8. EveryRecordAccounted' /\ OutcomesInv' /\ StagesInv'
  BY <1>3, <1>5 DEF VRInv, EveryRecordAccounted, OutcomesInv, StagesInv
<1>9. QED
  BY <1>3, <1>6, <1>7, <1>8 DEF VRInv

\* When the last plugin returns without a failure, every selected one has verified the
\* record: those before it by the invariant, this one because success is earned.
LEMMA HookSettlesKeeps == ASSUME VRInv, HookSettles PROVE VRInv'
<1> DEFINE threw == failures \union (IF pc[Run] = "ok" THEN {} ELSE {Head(pending)})
           done == Len(selected) - Len(pending)
<1>1. /\ stage = "hooks" /\ Return(Run) /\ Run \in Callers
      /\ IF Tail(pending) = <<>>
         THEN Conclude(IF threw = {} THEN "verified" ELSE "failed", threw)
         ELSE /\ pending' = Tail(pending)
              /\ failures' = threw
              /\ UNCHANGED <<config, stage, request, selected, asked, todo, results, others>>
  BY RunAssumption DEF HookSettles
<1>2. /\ selected \in Seq(Plugins) /\ pending \in Seq(Plugins) /\ pending # <<>>
      /\ failures \subseteq Plugins /\ pc \in [Callers -> PC]
  BY <1>1 DEF VRInv, TypeOK, VerifierTypeOK
<1>3. /\ Len(pending) \in Nat \ {0} /\ Len(selected) \in Nat /\ done \in Nat
      /\ Head(pending) = pending[1] /\ pending[1] = selected[done + 1]
      /\ pending[1] \in Plugins
  <2>1. /\ Len(pending) <= Len(selected)
        /\ \A k \in DOMAIN pending : pending[k] = selected[done + k]
    BY <1>1 DEF VRInv, HooksInv
  <2>2. QED
    BY <1>2, <2>1
<1>4. threw \in SUBSET Plugins
  BY <1>2, <1>3
<1>5. VInv' /\ verified' = verified /\ pc'[Run] = "idle"
  BY <1>1, <1>2, VInvStep DEF VRInv, VerifierNext, Return, Goto, explorer
<1>6. threw = {} => \A j \in 1..(done + 1) : <<selected[j], todo[1].contract>> \in verified
  <2> SUFFICES ASSUME threw = {} PROVE \A j \in 1..(done + 1) : <<selected[j], todo[1].contract>> \in verified
    OBVIOUS
  <2>1. failures = {} /\ pc[Run] = "ok"
    OBVIOUS
  <2>2. target[Run] = <<pending[1], todo[1].contract>> /\ target[Run] \in verified
    BY <1>1, <2>1 DEF VRInv, HooksInv, VInv, CallInv
  <2>3. \A j \in 1..done : <<selected[j], todo[1].contract>> \in verified
    BY <1>1, <2>1 DEF VRInv, HooksInv
  <2>4. QED
    BY <1>3, <2>2, <2>3
<1>7. CASE Tail(pending) = <<>>
  <2>1. done + 1 = Len(selected) /\ DOMAIN selected = 1..Len(selected)
    <3>1. Len(<<>>) = Len(pending) - 1
      BY <1>2, <1>7, HeadTailProperties
    <3>2. Len(pending) = 1
      BY <1>3, <3>1
    <3>3. QED
      BY <1>2, <1>3, <3>2
  <2>2. threw = {} => \A j \in DOMAIN selected : <<selected[j], todo[1].contract>> \in verified
    BY <1>6, <2>1
  <2> HIDE DEF threw, done
  <2>3. CASE threw = {}
    BY <1>1, <1>4, <1>5, <1>7, <2>2, <2>3, ConcludeKeeps
  <2>4. CASE threw # {}
    BY <1>1, <1>4, <1>5, <1>7, <2>4, ConcludeKeeps
  <2>5. QED
    BY <2>3, <2>4
<1>8. CASE Tail(pending) # <<>>
  <2>1. /\ pending' = Tail(pending) /\ failures' = threw
        /\ UNCHANGED <<config, stage, request, selected, asked, todo, results, others>>
    BY <1>1, <1>8
  <2>2. /\ pending' \in Seq(Plugins) /\ pending' # <<>> /\ Len(pending') = Len(pending) - 1
        /\ \A k \in DOMAIN pending' : k + 1 \in DOMAIN pending /\ pending'[k] = pending[k + 1]
    BY <1>2, <1>8, <2>1
  <2>3. TypeOK'
    BY <1>1, <1>4, <1>5, <2>1, <2>2 DEF VRInv, TypeOK, VInv
  <2>4. HooksInv'
    <3>1. Len(pending') <= Len(selected')
      BY <1>3, <2>1, <2>2
    <3>2. ASSUME NEW k \in DOMAIN pending'
          PROVE  pending'[k] = selected'[(Len(selected') - Len(pending')) + k]
      <4>1. k \in Int /\ pending'[k] = selected[done + (k + 1)]
        BY <1>1, <2>2 DEF VRInv, HooksInv
      <4>2. done + (k + 1) = (Len(selected) - Len(pending')) + k
        BY <1>3, <2>2, <4>1
      <4>3. QED
        BY <2>1, <4>1, <4>2
    <3>3. Len(selected') - Len(pending') = done + 1
      BY <1>3, <2>1, <2>2
    <3>4. QED
      BY <1>5, <1>6, <2>1, <3>1, <3>2, <3>3 DEF HooksInv
  <2>5. EveryRecordAccounted' /\ OutcomesInv' /\ StagesInv'
    BY <1>1, <1>5, <2>1 DEF VRInv, EveryRecordAccounted, OutcomesInv, StagesInv
  <2>6. QED
    BY <1>5, <2>3, <2>4, <2>5 DEF VRInv
<1>9. QED
  BY <1>7, <1>8

-----------------------------------------------------------------------------
LEMMA VRInvStep == VRInv /\ [Next]_vars => VRInv'
<1> SUFFICES ASSUME VRInv, [Next]_vars PROVE VRInv'
  OBVIOUS
<1>1. CASE RunStep
  BY <1>1, SelectPluginsKeeps, RefusedKeeps, ReadRecordsKeeps, WithoutHooksKeeps,
     ResolveMetadataKeeps, RunHookKeeps, HookSettlesKeeps DEF RunStep
<1>2. CASE ~RunStep
  <2>1. VInv' /\ verified \subseteq verified'
    BY StepsOfVerifier, VInvStep, VerifiedGrows DEF VRInv
  <2>2. QED
    BY <1>2, <2>1, NeighboursKeep DEF Next
<1>3. QED
  BY <1>1, <1>2

THEOREM VRInvHolds == Spec => []VRInv
<1>1. QED
  BY VRInvInit, VRInvStep, PTL DEF Spec

\* The types, and what the stage says of the lists: there is a record at hand until the
\* report, a plugin to run during the hooks, and no verification under way outside them.
THEOREM RunTypeCorrect == Spec => []TypeOK
<1>1. VRInv => TypeOK
  BY DEF VRInv
<1>2. QED
  BY <1>1, VRInvHolds, PTL

\* Records get their outcomes in order, one each, whatever the plugins do.
THEOREM RecordsAccounted == Spec => []EveryRecordAccounted
<1>1. VRInv => EveryRecordAccounted
  BY DEF VRInv
<1>2. QED
  BY <1>1, VRInvHolds, PTL

\* A run that exits zero has every record of it verified on every explorer selected.
THEOREM OkMeansVerified == Spec => []OkIsEarned
<1>1. VRInv => OkIsEarned
  <2> SUFFICES ASSUME VRInv, stage = "reported", Ok,
                      NEW i \in DOMAIN asked, asked[i].kind = "standard",
                      NEW j \in DOMAIN selected
               PROVE  <<selected[j], asked[i].contract>> \in verified
    BY DEF OkIsEarned
  <2>1. i \in DOMAIN results
    <3>1. /\ todo = <<>> /\ asked \in Seq(Stored) /\ results \in Seq(Result)
      BY DEF VRInv, TypeOK
    <3>2. Len(results) + Len(todo) = Len(asked)
      BY DEF VRInv, EveryRecordAccounted
    <3>3. QED
      BY <3>1, <3>2
  <2>2. results[i].status = "verified"
    BY <2>1 DEF Ok, VRInv, OutcomesInv
  <2>3. QED
    BY <2>1, <2>2 DEF VRInv, OutcomesInv
<1>2. QED
  BY <1>1, VRInvHolds, PTL
=============================================================================
