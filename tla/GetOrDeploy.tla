----------------------------- MODULE GetOrDeploy -----------------------------
(***************************************************************************)
(* The deploy pipeline (engine/pipeline.ts) with register and reset, over   *)
(* one store and one chain.  A step ends where the code awaits: a store     *)
(* call, a client call or the plugins.  The lock is the mutex DeployLock    *)
(* implements; register and reset do not take it.                           *)
(***************************************************************************)
EXTENDS Integers, Sequences

CONSTANTS
    Procs,               \* processes running deploy scripts against one store
    Networks, Names,     \* network keys and deployment names
    Ids,                 \* deploy identities (engine/identity.ts)
    Sources,             \* hashes of standard-json inputs
    ExternalAddrs,       \* addresses a user registers
    OldAddrs,            \* addresses in records from before
    Jobs,                \* the calls a script may make, a subset of Job
    Alone,               \* the operations that are only run while nothing else is
    Inherited,           \* slot -> the records its file may hold at the start
    HasLock, HasSources, \* which optional methods does the store implement?
    RevertedHasAddress,  \* does a reverted creation's receipt carry an address?
    MaxTxs, MaxCalls, MaxFaults,
    NoRecord, NoAddr, NoId, NoSrc, NoJob, Free, Orphan

Strategies == {"never", "on-change", "always"}
Ops == {"getOrDeploy", "register", "reset", "resetAll"}
Slots == [network : Networks, name : Names]  \* the keys of the store
Job == [op : Ops, slot : Slots, id : Ids, src : Sources, strategy : Strategies,
        addr : ExternalAddrs]

Address == Nat \union ExternalAddrs \union OldAddrs \union {NoAddr}
Entry == [addr : Address, id : Ids \union {NoId}, superseded : Address,
          reason : {"fresh", "forced", "changed", "registered"}]
Record == [kind : {"standard", "external"}, chain : {"here", "elsewhere"},
           addr : Address, id : Ids \union {NoId}, src : Sources \union {NoSrc},
           history : Seq(Entry)]

\* A store may come with records: an earlier version's (schema 1: no history), or
\* files copied in from another chain.  None of them pins its sources.
ASSUME PipelineAssumption ==
    /\ Inherited \in [Slots -> SUBSET {r \in Record : r.src = NoSrc}]
    /\ NoRecord \notin Record
    /\ Jobs \subseteq Job /\ NoJob \notin Job
    /\ Alone \subseteq Ops
    /\ HasLock \in BOOLEAN /\ HasSources \in BOOLEAN /\ RevertedHasAddress \in BOOLEAN
    /\ MaxTxs \in Nat /\ MaxCalls \in Nat /\ MaxFaults \in Nat
    /\ NoSrc \notin Sources /\ NoId \notin Ids
    /\ Free \notin Procs /\ Orphan \notin Procs /\ Free # Orphan
    /\ (ExternalAddrs \union OldAddrs \union {NoAddr}) \cap Nat = {}
    /\ NoAddr \notin ExternalAddrs \union OldAddrs

\* What a record says of its first address: superseded it, or was it unlogged.
Origin(r) == IF r.history = <<>> THEN r.addr ELSE r.history[1].superseded

\* The history of a record of s that has one leads to its address.
Explains(s, r) ==
    LET h == r.history
    IN /\ h # <<>>
       /\ h[Len(h)].addr = r.addr /\ h[Len(h)].id = r.id
       /\ h[1].superseded \in {NoAddr} \union {Origin(old) : old \in Inherited[s]}
       /\ h[1].reason = "fresh" => h[1].superseded = NoAddr
       /\ \A i \in DOMAIN h \ {1} :
             /\ h[i].superseded = h[i - 1].addr
             /\ h[i].reason # "fresh"
             /\ h[i].reason = "changed" => h[i].id # h[i - 1].id

\* The records from before were written by deployoor: by a version that kept no
\* history, or over addresses that no transaction of this chain will create.
BeforeAddrs == OldAddrs \union ExternalAddrs
ASSUME InheritedAssumption ==
    \A s \in Slots : \A r \in Inherited[s] :
        /\ r.addr \in BeforeAddrs
        /\ r.kind = "external" => r.id = NoId
        /\ r.history # <<>> => /\ Explains(s, r)
                              /\ Origin(r) \in BeforeAddrs \union {NoAddr}
                              /\ \A i \in DOMAIN r.history : r.history[i].addr \in BeforeAddrs

VARIABLES
    records,    \* the store: slot -> record or NoRecord
    blobs,      \* the store: pinned sources, shared by all slots
    holder,     \* slot -> who has its lock: Free, Orphan (the holder died) or a process
    chain,      \* the creation transactions the node accepted; its index is the address
    pc, job, existing, tx, pin, todo, keep,  \* the locals of each process's call
    calls, faults,                     \* bounds
    writtenOff  \* history: addresses given up by a crash, an error or a reset

store == <<records, blobs>>
locals == <<job, existing, tx, pin, todo, keep>>
vars == <<store, holder, chain, pc, locals, calls, faults, writtenOff>>

PC == {"idle", "lock", "read", "deploy", "receipt", "pin", "write", "notify",
       "failHooks", "release", "regRead", "regWrite", "resetList", "resetRemove",
       "resetPrune"}

Init == /\ records \in [Slots -> {NoRecord} \union UNION {Inherited[s] : s \in Slots}]
        /\ \A s \in Slots : records[s] \in {NoRecord} \union Inherited[s]
        /\ blobs = {}
        /\ holder = [s \in Slots |-> Free]
        /\ chain = <<>>
        /\ pc = [p \in Procs |-> "idle"]
        /\ job = [p \in Procs |-> NoJob]
        /\ existing = [p \in Procs |-> NoRecord]
        /\ tx = [p \in Procs |-> 0]
        /\ pin = [p \in Procs |-> NoSrc]
        /\ todo = [p \in Procs |-> {}]
        /\ keep = [p \in Procs |-> {}]
        /\ calls = 0 /\ faults = 0
        /\ writtenOff = {}

Goto(p, l) == pc' = [pc EXCEPT ![p] = l]

\* The promise settles and the call's locals are gone.
Settle(p) == /\ Goto(p, "idle")
             /\ job' = [job EXCEPT ![p] = NoJob]
             /\ existing' = [existing EXCEPT ![p] = NoRecord]
             /\ tx' = [tx EXCEPT ![p] = 0]
             /\ pin' = [pin EXCEPT ![p] = NoSrc]
             /\ todo' = [todo EXCEPT ![p] = {}]
             /\ keep' = [keep EXCEPT ![p] = {}]

History(r) == IF r = NoRecord THEN <<>> ELSE r.history
Kind(r) == IF r = NoRecord THEN "none" ELSE r.kind

-----------------------------------------------------------------------------
(* A script calls getOrDeploy, register or reset.                           *)
MayBegin(op) ==
    \A q \in Procs : pc[q] # "idle" => op \notin Alone /\ job[q].op \notin Alone

Begin(p, j) == /\ pc[p] = "idle"
               /\ calls < MaxCalls
               /\ MayBegin(j.op)
               /\ calls' = calls + 1
               /\ job' = [job EXCEPT ![p] = j]
               /\ Goto(p, CASE j.op = "getOrDeploy" -> "lock"
                            [] j.op = "register" -> "regRead"
                            [] j.op = "resetAll" -> "resetList"
                            [] j.op = "reset" -> "resetRemove")
               /\ todo' = [todo EXCEPT ![p] = IF j.op = "reset" THEN {j.slot} ELSE {}]
               /\ UNCHANGED <<store, holder, chain, existing, tx, pin, keep, faults,
                              writtenOff>>

-----------------------------------------------------------------------------
(* getOrDeploy                                                              *)

\* Mutant: proceed without the lock.
LockNoWait(p) == /\ pc[p] = "lock"
                 /\ holder' = [holder EXCEPT ![job[p].slot] = p]
                 /\ Goto(p, "read")
                 /\ UNCHANGED <<store, chain, locals, calls, faults, writtenOff>>

Lock(p) == /\ pc[p] = "lock"
           /\ HasLock => holder[job[p].slot] = Free
           /\ holder' = IF HasLock THEN [holder EXCEPT ![job[p].slot] = p] ELSE holder
           /\ Goto(p, "read")
           /\ UNCHANGED <<store, chain, locals, calls, faults, writtenOff>>

\* acquireLock threw: InvalidDeploymentRecord, before anything is read.
LockRefused(p) == /\ pc[p] = "lock"
                  /\ Settle(p)
                  /\ UNCHANGED <<store, holder, chain, calls, faults, writtenOff>>

Mismatch(j, r) == /\ r # NoRecord
                  /\ r.kind # "external"
                  /\ j.strategy # "always"
                  /\ r.chain # "here"

\* Mutant: an external record gets no special treatment.
ReuseByStrategyOnly(j, r) == /\ r # NoRecord
                             /\ \/ j.strategy = "never"
                                \/ j.strategy = "on-change" /\ r.id = j.id

\* Mutant: on-change redeploys whether or not the identity moved.
ReuseIgnoringIdentity(j, r) == /\ r # NoRecord
                               /\ \/ r.kind = "external"
                                  \/ j.strategy = "never"

Reuse(j, r) == /\ r # NoRecord
               /\ \/ r.kind = "external"
                  \/ j.strategy = "never"
                  \/ j.strategy = "on-change" /\ r.id = j.id

\* store.read and the decision on what it returned, with no await in between.
Read(p) == /\ pc[p] = "read"
           /\ LET r == records[job[p].slot]
              IN /\ existing' = [existing EXCEPT ![p] = r]
                 /\ Goto(p, IF Mismatch(job[p], r) THEN "release"
                            ELSE IF Reuse(job[p], r) THEN "notify"
                            ELSE "deploy")
           /\ UNCHANGED <<store, holder, chain, job, tx, pin, todo, keep, calls, faults,
                          writtenOff>>

\* The store could not read the record, or a library is not linked: the call fails
\* with no transaction sent and no plugin told.
Abort(p) == /\ pc[p] \in {"read", "deploy"}
            /\ Goto(p, "release")
            /\ UNCHANGED <<store, holder, chain, locals, calls, faults, writtenOff>>

Accept(p) == /\ Len(chain) < MaxTxs
             /\ chain' = Append(chain, [slot |-> job[p].slot, id |-> job[p].id,
                                        status |-> "pending"])

Broadcast(p) == /\ pc[p] = "deploy"
                /\ Accept(p)
                /\ tx' = [tx EXCEPT ![p] = Len(chain')]
                /\ Goto(p, "receipt")
                /\ UNCHANGED <<store, holder, job, existing, pin, todo, keep, calls, faults,
                               writtenOff>>

\* clients.deploy rejects although the node took the transaction, or because it did not.
BroadcastLost(p) == /\ pc[p] = "deploy"
                    /\ Accept(p)
                    /\ writtenOff' = writtenOff \union {Len(chain')}
                    /\ Goto(p, "failHooks")
                    /\ UNCHANGED <<store, holder, locals, calls, faults>>

BroadcastRejected(p) == /\ pc[p] = "deploy"
                        /\ Goto(p, "failHooks")
                        /\ UNCHANGED <<store, holder, chain, locals, calls, faults,
                                       writtenOff>>

\* Mutant: a receipt is a success.
HasReceipt(n) == chain[n].status # "pending"

HasAddress(n) == \/ chain[n].status = "created"
                 \/ chain[n].status = "reverted" /\ RevertedHasAddress

\* The receipt names a contract; its status is not looked at.
Receipt(p) == /\ pc[p] = "receipt"
              /\ HasAddress(tx[p])
              /\ Goto(p, "pin")
              /\ UNCHANGED <<store, holder, chain, locals, calls, faults, writtenOff>>

\* waitForReceipt rejects (an RPC error, viem's timeout), or the receipt has no
\* contractAddress: DeploymentFailed, whatever became of the transaction.
ReceiptFails(p) == /\ pc[p] = "receipt"
                   /\ writtenOff' = writtenOff \union {tx[p]}
                   /\ Goto(p, "failHooks")
                   /\ UNCHANGED <<store, holder, chain, locals, calls, faults>>

\* pinSources and store.writeSources, which may fail: then no sourcesHash.  A store
\* without the method succeeds at storing nothing (services/store.ts:59).
Pin(p) == /\ pc[p] = "pin"
          /\ \/ /\ blobs' = IF HasSources THEN blobs \union {job[p].src} ELSE blobs
                /\ pin' = [pin EXCEPT ![p] = job[p].src]
             \/ UNCHANGED <<blobs, pin>>
          /\ Goto(p, "write")
          /\ UNCHANGED <<records, holder, chain, job, existing, tx, todo, keep, calls, faults,
                         writtenOff>>

\* Mutant: the strategy is logged in place of the reason.
ReasonIsStrategy(j, r) == IF r = NoRecord THEN "fresh" ELSE j.strategy

Reason(j, r) == CASE r = NoRecord -> "fresh"
                  [] r # NoRecord /\ j.strategy = "always" -> "forced"
                  [] OTHER -> "changed"

\* Mutant: the new record starts a history of its own.
NewRecordNoHistory(j, r, n, src) ==
    [kind |-> "standard", chain |-> "here", addr |-> n, id |-> j.id, src |-> src,
     history |-> <<[addr |-> n, id |-> j.id, reason |-> Reason(j, r),
                    superseded |-> NoAddr]>>]

NewRecord(j, r, n, src) ==
    [kind |-> "standard", chain |-> "here", addr |-> n, id |-> j.id, src |-> src,
     history |-> Append(History(r),
         [addr |-> n, id |-> j.id, reason |-> Reason(j, r),
          superseded |-> IF r = NoRecord THEN NoAddr ELSE r.addr])]

Write(p) ==
    /\ pc[p] = "write"
    /\ LET r == NewRecord(job[p], existing[p], tx[p], pin[p])
       IN /\ records' = [records EXCEPT ![job[p].slot] = r]
          /\ existing' = [existing EXCEPT ![p] = r]  \* the deployment the plugins get
    /\ Goto(p, "notify")
    /\ UNCHANGED <<blobs, holder, chain, job, tx, pin, todo, keep, calls, faults, writtenOff>>

\* store.write rejects: InvalidDeploymentRecord, so not even onDeployFailed runs.  A write that lands
\* and rejects all the same leaves what Write and Hooks leave, and needs no step of its own; nor does
\* it in register, after RegWrite.
WriteFails(p) == /\ pc[p] = "write"
                 /\ writtenOff' = writtenOff \union {tx[p]}
                 /\ Goto(p, "release")
                 /\ UNCHANGED <<store, holder, chain, locals, calls, faults>>

\* onContractDeployed or onDeployFailed of every plugin; PluginFailed or not, the
\* call is over.
Hooks(p) == /\ pc[p] \in {"notify", "failHooks"}
            /\ Goto(p, "release")
            /\ UNCHANGED <<store, holder, chain, locals, calls, faults, writtenOff>>

\* Mutant: a call that found the wrong chain returns without releasing.
ReleaseUnlessMismatch(p) ==
    /\ pc[p] = "release"
    /\ holder' = IF Mismatch(job[p], existing[p]) THEN holder
                 ELSE [holder EXCEPT ![job[p].slot] = Free]
    /\ Settle(p)
    /\ UNCHANGED <<store, chain, calls, faults, writtenOff>>

\* Effect.ensuring(release()).
Release(p) == /\ pc[p] = "release"
              /\ holder' = [holder EXCEPT ![job[p].slot] = Free]
              /\ Settle(p)
              /\ UNCHANGED <<store, chain, calls, faults, writtenOff>>

-----------------------------------------------------------------------------
(* register: read, check, write, with no lock.                              *)

\* Mutant: the DeploymentExists check is missing.
RegReadUnchecked(p) ==
    /\ pc[p] = "regRead"
    /\ existing' = [existing EXCEPT ![p] = records[job[p].slot]]
    /\ Goto(p, "regWrite")
    /\ UNCHANGED <<store, holder, chain, job, tx, pin, todo, keep, calls, faults, writtenOff>>

RegRead(p) ==
    /\ pc[p] = "regRead"
    /\ Kind(records[job[p].slot]) # "standard"
    /\ existing' = [existing EXCEPT ![p] = records[job[p].slot]]
    /\ Goto(p, "regWrite")
    /\ UNCHANGED <<store, holder, chain, job, tx, pin, todo, keep, calls, faults, writtenOff>>

DeploymentExists(p) ==
    /\ pc[p] = "regRead"
    /\ Kind(records[job[p].slot]) = "standard"
    /\ Settle(p)
    /\ UNCHANGED <<store, holder, chain, calls, faults, writtenOff>>

\* Mutant: every registration is logged, and names what it replaced.
RegisteredEveryTime(j, r) ==
    [kind |-> "external", chain |-> "here", addr |-> j.addr, id |-> NoId, src |-> NoSrc,
     history |-> Append(History(r),
         [addr |-> j.addr, id |-> NoId, reason |-> "registered",
          superseded |-> IF r = NoRecord \/ r.addr = j.addr THEN NoAddr ELSE r.addr])]

Registered(j, r) ==
    LET h == History(r)
        entry == [addr |-> j.addr, id |-> NoId, reason |-> "registered",
                  superseded |-> IF r = NoRecord \/ r.addr = j.addr THEN NoAddr
                                 ELSE r.addr]
        alreadyLogged == h # <<>> /\ h[Len(h)].addr = j.addr
    IN [kind |-> "external", chain |-> "here", addr |-> j.addr, id |-> NoId,
        src |-> NoSrc, history |-> IF alreadyLogged THEN h ELSE Append(h, entry)]

RegWrite(p) ==
    /\ pc[p] = "regWrite"
    /\ records' = [records EXCEPT ![job[p].slot] = Registered(job[p], existing[p])]
    /\ Settle(p)
    /\ UNCHANGED <<blobs, holder, chain, calls, faults, writtenOff>>

-----------------------------------------------------------------------------
(* reset: remove one record, or every record the network lists, then        *)
(* collect the blobs nothing references: the references are read first and  *)
(* the directory afterwards.                                                *)
Recorded(s) == LET h == History(records[s]) IN {h[i].addr : i \in DOMAIN h}

ResetList(p) ==
    /\ pc[p] = "resetList"
    /\ todo' = [todo EXCEPT ![p] = {s \in Slots : /\ s.network = job[p].slot.network
                                                 /\ records[s] # NoRecord}]
    /\ Goto(p, "resetRemove")
    /\ UNCHANGED <<store, holder, chain, job, existing, tx, pin, keep, calls, faults,
                   writtenOff>>

ResetRemove(p) ==
    /\ pc[p] = "resetRemove"
    /\ \E s \in todo[p] :
          /\ todo' = [todo EXCEPT ![p] = @ \ {s}]
          /\ records' = [records EXCEPT ![s] = NoRecord]
          /\ writtenOff' = writtenOff \union {n \in DOMAIN chain : n \in Recorded(s)}
    /\ UNCHANGED <<blobs, holder, chain, pc, job, existing, tx, pin, keep, calls, faults>>

\* Mutant: the surviving records are not looked at.
ReferencedByNone(p) == {}

Referenced(p) == {records[s].src : s \in {s \in Slots : records[s] # NoRecord}}

ResetScan(p) == /\ pc[p] = "resetRemove"
                /\ todo[p] = {}
                /\ keep' = [keep EXCEPT ![p] = Referenced(p)]
                /\ Goto(p, "resetPrune")
                /\ UNCHANGED <<store, holder, chain, job, existing, tx, pin, todo, calls,
                               faults, writtenOff>>

\* The files are removed one by one and any removal may throw.
ResetPrune(p) == /\ pc[p] = "resetPrune"
                 /\ \E gone \in SUBSET (blobs \ keep[p]) : blobs' = blobs \ gone
                 /\ Settle(p)
                 /\ UNCHANGED <<records, holder, chain, calls, faults, writtenOff>>

\* A store call of register or reset throws: what was done stays done.
StoreFails(p) == /\ pc[p] \in {"regRead", "regWrite", "resetList", "resetRemove"}
                 /\ Settle(p)
                 /\ UNCHANGED <<store, holder, chain, calls, faults, writtenOff>>

-----------------------------------------------------------------------------
(* The environment: the chain mines, processes die, an orphaned lock is     *)
(* reclaimed (DeployLock).                                                  *)
Mine(n) == /\ n \in DOMAIN chain
           /\ chain[n].status = "pending"
           /\ \E st \in {"created", "reverted"} :
                 chain' = [chain EXCEPT ![n].status = st]
           /\ UNCHANGED <<store, holder, pc, locals, calls, faults, writtenOff>>

Crash(p) == /\ pc[p] # "idle"
            /\ faults < MaxFaults
            /\ faults' = faults + 1
            /\ holder' = [s \in Slots |-> IF holder[s] = p THEN Orphan ELSE holder[s]]
            /\ writtenOff' = IF pc[p] \in {"receipt", "pin", "write"}
                             THEN writtenOff \union {tx[p]} ELSE writtenOff
            /\ Settle(p)
            /\ UNCHANGED <<store, chain, calls>>

ReclaimLock(s) == /\ holder[s] = Orphan
                  /\ holder' = [holder EXCEPT ![s] = Free]
                  /\ UNCHANGED <<store, chain, pc, locals, calls, faults, writtenOff>>

-----------------------------------------------------------------------------
Step(p) == \/ Lock(p) \/ LockRefused(p) \/ Read(p) \/ Abort(p)
           \/ Broadcast(p) \/ BroadcastLost(p) \/ BroadcastRejected(p)
           \/ Receipt(p) \/ ReceiptFails(p) \/ Pin(p) \/ Write(p) \/ WriteFails(p)
           \/ Hooks(p) \/ Release(p)
           \/ RegRead(p) \/ DeploymentExists(p) \/ RegWrite(p)
           \/ ResetList(p) \/ ResetRemove(p) \/ ResetScan(p) \/ ResetPrune(p)
           \/ StoreFails(p)

Next == \/ \E p \in Procs : Step(p) \/ Crash(p)
        \/ \E p \in Procs, j \in Jobs : Begin(p, j)
        \/ \E n \in DOMAIN chain : Mine(n)
        \/ \E s \in Slots : ReclaimLock(s)

Spec == Init /\ [][Next]_vars

\* Every await of a call settles: store calls and hooks return, and viem's receipt
\* wait has a timeout.  Nothing makes a script start, the chain mine or a process die.
FairSpec == Spec /\ \A p \in Procs : WF_vars(Step(p))

-----------------------------------------------------------------------------
Tx == [slot : Slots, id : Ids, status : {"pending", "created", "reverted"}]

TypeOK == /\ records \in [Slots -> Record \union {NoRecord}]
          /\ blobs \subseteq Sources
          /\ holder \in [Slots -> Procs \union {Free, Orphan}]
          /\ chain \in Seq(Tx)
          /\ pc \in [Procs -> PC]
          /\ job \in [Procs -> Jobs \union {NoJob}]
          /\ existing \in [Procs -> Record \union {NoRecord}]
          /\ tx \in [Procs -> Nat]
          /\ pin \in [Procs -> Sources \union {NoSrc}]
          /\ todo \in [Procs -> SUBSET Slots]
          /\ keep \in [Procs -> SUBSET (Sources \union {NoSrc})]
          /\ calls \in Nat /\ faults \in Nat
          /\ writtenOff \subseteq Nat

\* read -> deploy -> write is one transaction on the record: what a call read, or
\* wrote, is still what the store holds when it acts on it (pipeline.ts:109-271).
Deciding(p) == pc[p] \in {"deploy", "receipt", "pin", "write", "notify"}
CallSeesCurrentRecord ==
    \A p \in Procs : Deciding(p) => records[job[p].slot] = existing[p]

\* Every record's history tells how its address came about: linked by
\* supersededAddress from the first logged entry on, "fresh" only where nothing was
\* superseded, and a redeploy of an unmoved identity only by force
\* (pipeline.ts:143-181, 224-259).  Only a record from before may have no log, and
\* only its origin may be superseded without an entry of its own.
HistoryExplains ==
    \A s \in Slots :
        records[s] \notin Inherited[s] \union {NoRecord} => Explains(s, records[s])

\* A record's sourcesHash never points at a blob that does not exist
\* (pipeline.ts:206-207), whatever crashes and whatever reset collects.
SourcesPinned ==
    \A s \in Slots : records[s] # NoRecord => records[s].src \in blobs \union {NoSrc}

\* A deployment is recorded only if its contract exists: a deploy that reverts on
\* chain is a DeploymentFailed (errors.ts:39, pipeline.ts:187-196).
RecordedIsCreated ==
    \A s \in Slots :
        Kind(records[s]) = "standard" /\ records[s] \notin Inherited[s]
        => LET n == records[s].addr
           IN n \in DOMAIN chain /\ chain[n] = [slot |-> s, id |-> records[s].id,
                                                status |-> "created"]

\* No created contract is forgotten: it is in its record's history or on its way
\* there, unless its own call failed or died, or a reset dropped the record.  In
\* particular no concurrent call and no failing plugin loses it (pipeline.ts:183-271).
EveryCreationAccounted ==
    \A n \in DOMAIN chain : chain[n].status = "created" =>
        \/ n \in writtenOff
        \/ \E p \in Procs : tx[p] = n /\ pc[p] \in {"receipt", "pin", "write"}
        \/ n \in Recorded(chain[n].slot)

\* register "won't clobber a deployed record" (pipeline.ts:306-308) ...
DeployedNeverClobbered ==
    [][\A s \in Slots : ~(Kind(records[s]) = "standard" /\ Kind(records'[s]) = "external")]_vars

\* ... and getOrDeploy never deploys over a registered one (pipeline.ts:143-148).
ExternalNeverReplaced ==
    [][\A s \in Slots : ~(Kind(records[s]) = "external" /\ Kind(records'[s]) = "standard")]_vars

\* Every exit of a call frees the lock, whichever error it leaves by
\* (pipeline.ts:292): no lock is held for ever.
LockComesFree == \A s \in Slots : []<>(holder[s] \notin Procs)

\* The store is the log of deployments DeploymentLog promises.  What a record from
\* before held without logging it is the log's first entry.
Logged(r) ==
    LET h == History(r)
        origin == IF r = NoRecord THEN NoAddr ELSE Origin(r)
        first == IF origin = NoAddr THEN <<>> ELSE <<[addr |-> origin, superseded |-> NoAddr]>>
    IN first \o [i \in DOMAIN h |-> [addr |-> h[i].addr, superseded |-> h[i].superseded]]
Log == INSTANCE DeploymentLog WITH
         log <- [s \in Slots |-> Logged(records[s])],
         Addrs <- (1..MaxTxs) \union ExternalAddrs \union OldAddrs
ImplementsLog == Log!Spec
=============================================================================
