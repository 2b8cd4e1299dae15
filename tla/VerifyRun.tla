------------------------------ MODULE VerifyRun ------------------------------
(***************************************************************************)
(* `deployoor verify` (cli/verify.ts): one run over the records a request   *)
(* selects, each submitted through the selected verifiers one after the     *)
(* other, while other processes verify through the same plugins.            *)
(***************************************************************************)
EXTENDS Verifier, FiniteSets

CONSTANTS Run,         \* the caller that is the verify command
          Configs,     \* what config.plugins may name, in order
          Names,       \* deployment names
          Stores,      \* the record sequences the store may list
          Requests,    \* the command lines the run may be given
          CanListAll,  \* does the store implement listAll?
          MaxOthers,   \* bound: verifications other processes start
          Everything,  \* the plugins filter was not given
          NoRequest

Stored == [name : Names, contract : Contracts, kind : {"standard", "external"},
           pinned : BOOLEAN]

ASSUME RunAssumption ==
    /\ Run \in Callers
    /\ Configs \subseteq Seq(STRING)
    /\ Stores \subseteq Seq(Stored)
    /\ CanListAll \in BOOLEAN
    /\ MaxOthers \in Nat
    /\ NoRequest \notin Requests

VARIABLES config,    \* the names in config.plugins
          stage,     \* where runVerify is
          request, selected,  \* its options, and the plugins they select
          asked,     \* the records the request selected
          todo,      \* those without a result
          pending,   \* the plugins the first of them has still to go through
          failures,  \* and those that threw for it
          results,
          others     \* bound

runVars == <<stage, request, selected, asked, todo, pending, failures, results>>
vars == <<verifierVars, config, runVars, others>>

Init == /\ VerifierInit
        /\ config \in Configs
        /\ stage = "start"
        /\ request = NoRequest
        /\ selected = <<>> /\ asked = <<>> /\ todo = <<>> /\ pending = <<>>
        /\ failures = {}
        /\ results = <<>>
        /\ others = 0

-----------------------------------------------------------------------------
\* What a filter keeps of a sequence: the positions in I, in their order.
Filtered(s, I) ==
    {[k \in DOMAIN f |-> s[f[k]]] : f \in {g \in [1..Cardinality(I) -> I] :
                                              \A j, k \in DOMAIN g : j < k => g[j] < g[k]}}

\* Does a configured plugin of that name implement onVerify?
InVerifying(n) == n \in Plugins /\ \E i \in DOMAIN config : config[i] = n

TargetsInUse == {t \in Targets : InVerifying(t[1])}

\* no-plugins, unknown-plugin
NothingSelected(r) == \/ \A n \in Plugins : ~InVerifying(n)
                      \/ r.plugins = {}
                      \/ r.plugins # Everything /\ \E n \in r.plugins : ~InVerifying(n)

Selection(r) == {i \in DOMAIN config : /\ config[i] \in Plugins
                                       /\ r.plugins = Everything \/ config[i] \in r.plugins}

SelectPlugins == /\ stage = "start"
                 /\ \E r \in Requests :
                       /\ ~NothingSelected(r)
                       /\ request' = r
                       /\ selected' \in Filtered(config, Selection(r))
                 /\ stage' = "list"
                 /\ UNCHANGED <<verifierVars, config, asked, todo, pending, failures, results,
                                others>>

RequestRefused == /\ stage = "start"
                  /\ \E r \in Requests : NothingSelected(r) /\ request' = r
                  /\ stage' = "refused"
                  /\ UNCHANGED <<verifierVars, config, selected, asked, todo, pending, failures,
                                 results, others>>

\* A store that cannot list all can be asked for one exact network key.
CanList(r) == CanListAll \/ r.lookup = "key"

\* matchesNetwork and matchesContract: the filters of a request select names.
Matches(rec, r) == rec.name \in r.wanted

Wanted(r, store) == {i \in DOMAIN store : Matches(store[i], r)}

ReadRecords == /\ stage = "list"
               /\ CanList(request)
               /\ \E store \in Stores :
                     /\ Wanted(request, store) # {}
                     /\ asked' \in Filtered(store, Wanted(request, store))
               /\ todo' = asked'
               /\ stage' = "record"
               /\ UNCHANGED <<verifierVars, config, request, selected, pending, failures,
                              results, others>>

\* store-cannot-list, no-records, or the store throws on a record it cannot read.
ReadRecordsThrows == /\ stage = "list"
                     /\ stage' = "refused"
                     /\ UNCHANGED <<verifierVars, config, request, selected, asked, todo, pending,
                                    failures, results, others>>

\* Mutant: a skipped record gets no outcome.
ConcludeUnlessSkipped(status, threw) ==
    /\ results' = IF status = "skipped" THEN results
                  ELSE Append(results, [name |-> Head(todo).name, status |-> status,
                                        failures |-> threw])
    /\ todo' = Tail(todo)
    /\ stage' = IF Tail(todo) = <<>> THEN "reported" ELSE "record"
    /\ pending' = <<>>
    /\ failures' = {}
    /\ UNCHANGED <<config, request, selected, asked, others>>

\* verifyRecord returns; after the last record runVerify does.
Conclude(status, threw) ==
    /\ results' = Append(results, [name |-> Head(todo).name, status |-> status,
                                   failures |-> threw])
    /\ todo' = Tail(todo)
    /\ stage' = IF Tail(todo) = <<>> THEN "reported" ELSE "record"
    /\ pending' = <<>>
    /\ failures' = {}
    /\ UNCHANGED <<config, request, selected, asked, others>>

External == /\ stage = "record"
            /\ Head(todo).kind = "external"
            /\ Conclude("skipped", {})
            /\ UNCHANGED verifierVars

\* No sourcesHash; or a blob that a reset has collected, or that does not parse.
Unverifiable == /\ stage = "record"
                /\ Head(todo).kind # "external"
                /\ Conclude("unverifiable", {})
                /\ UNCHANGED verifierVars

ResolveMetadata == /\ stage = "record"
                   /\ Head(todo).kind # "external"
                   /\ Head(todo).pinned
                   /\ pending' = selected
                   /\ stage' = "hooks"
                   /\ UNCHANGED <<verifierVars, config, request, selected, asked, todo, failures,
                                  results, others>>

\* A plugin without an onVerify would be passed over; selectPlugins left them out.
RunHook == /\ stage = "hooks"
           /\ \E t \in TargetsInUse :
                 /\ t = <<Head(pending), Head(todo).contract>>
                 /\ Begin(Run, t)
           /\ UNCHANGED <<config, runVars, others>>

\* Mutant: only the last plugin's outcome counts.
HookSettlesForgetting ==
    /\ stage = "hooks"
    /\ Return(Run)
    /\ LET threw == IF pc[Run] = "ok" THEN {} ELSE {Head(pending)}
       IN IF Tail(pending) = <<>>
          THEN Conclude(IF threw = {} THEN "verified" ELSE "failed", threw)
          ELSE /\ pending' = Tail(pending)
               /\ failures' = threw
               /\ UNCHANGED <<config, stage, request, selected, asked, todo, results, others>>

\* Mutant: the first plugin that throws ends the run.
HookSettlesThrowing ==
    /\ stage = "hooks"
    /\ Return(Run)
    /\ IF pc[Run] # "ok"
       THEN /\ stage' = "refused"
            /\ UNCHANGED <<config, request, selected, asked, todo, pending, failures, results,
                           others>>
       ELSE IF Tail(pending) = <<>> THEN Conclude("verified", {})
       ELSE /\ pending' = Tail(pending)
            /\ UNCHANGED <<config, stage, request, selected, asked, todo, failures, results,
                           others>>

\* A hook's failure is noted and the next plugin runs.
HookSettles ==
    /\ stage = "hooks"
    /\ Return(Run)
    /\ LET threw == failures \union (IF pc[Run] = "ok" THEN {} ELSE {Head(pending)})
       IN IF Tail(pending) = <<>>
          THEN Conclude(IF threw = {} THEN "verified" ELSE "failed", threw)
          ELSE /\ pending' = Tail(pending)
               /\ failures' = threw
               /\ UNCHANGED <<config, stage, request, selected, asked, todo, results, others>>

\* The report's `ok`, which the exit code is.
Ok == \A i \in DOMAIN results : results[i].status \in {"verified", "skipped"}

-----------------------------------------------------------------------------
(* Everybody else.                                                          *)
OtherBegins(c, t) == /\ c # Run
                     /\ others < MaxOthers
                     /\ others' = others + 1
                     /\ Begin(c, t)
                     /\ UNCHANGED <<config, runVars>>

OtherReturns(c) == c # Run /\ Return(c) /\ UNCHANGED <<config, runVars, others>>

RunStep == \/ SelectPlugins \/ RequestRefused \/ ReadRecords \/ ReadRecordsThrows
           \/ External \/ Unverifiable \/ ResolveMetadata \/ RunHook \/ HookSettles

Answered(c) == Request(c) /\ UNCHANGED <<config, runVars, others>>

Next == \/ RunStep
        \/ \E c \in Callers : \/ Answered(c) \/ OtherReturns(c)
                              \/ \E t \in TargetsInUse : OtherBegins(c, t)
        \/ Explorer(TargetsInUse) /\ UNCHANGED <<config, runVars, others>>

Spec == Init /\ [][Next]_vars

\* Every request and every store call is answered or fails.  No explorer has to
\* index or to judge, and no other process has to start.
FairSpec == /\ Spec
            /\ \A c \in Callers : WF_vars(Answered(c))
            /\ WF_vars(RunStep)

-----------------------------------------------------------------------------
Result == [name : Names, failures : SUBSET Plugins,
           status : {"verified", "failed", "unverifiable", "skipped"}]

TypeOK == /\ VerifierTypeOK
          /\ config \in Configs
          /\ stage \in {"start", "list", "record", "hooks", "reported", "refused"}
          /\ request \in Requests \union {NoRequest}
          /\ selected \in Seq(Plugins) /\ pending \in Seq(Plugins)
          /\ asked \in Seq(Stored) /\ todo \in Seq(Stored)
          /\ failures \subseteq Plugins
          /\ results \in Seq(Result)
          /\ others \in 0..MaxOthers
          /\ stage \in {"record", "hooks"} <=> todo # <<>>
          /\ stage = "hooks" <=> pending # <<>>
          /\ stage = "hooks" \/ pc[Run] = "idle"

\* A run that exits zero has left every record it selected verified on every
\* explorer it selected, the external ones apart (verify.ts:482-507).
OkIsEarned ==
    stage = "reported" /\ Ok =>
        \A i \in DOMAIN asked : asked[i].kind = "standard" =>
            \A j \in DOMAIN selected : <<selected[j], asked[i].contract>> \in verified

\* Records get their outcomes in the order they were listed, one each: a failing
\* plugin or a missing blob neither drops nor repeats one (verify.ts:395-459).
EveryRecordAccounted ==
    stage \in {"record", "hooks", "reported"} =>
        /\ Len(results) + Len(todo) = Len(asked)
        /\ \A i \in DOMAIN results : results[i].name = asked[i].name
        /\ \A i \in DOMAIN todo : todo[i] = asked[Len(results) + i]

\* "one gap never ends the run" (verify.ts:478-480): once records are selected the
\* run ends in a report, whatever the explorers, the store and the others do.
RunEndsInReport == stage = "record" ~> stage = "reported"
=============================================================================
