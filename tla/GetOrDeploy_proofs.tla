------------------------- MODULE GetOrDeploy_proofs -------------------------
(***************************************************************************)
(* Proofs about GetOrDeploy for any number of processes, calls, networks,   *)
(* names and transactions, any inherited records and any crashes.           *)
(***************************************************************************)
EXTENDS GetOrDeploy, SequenceTheorems, TLAPS

\* What the fields of a job and of a record are.
LEMMA JobFields ==
    ASSUME NEW j \in Jobs
    PROVE  /\ j \in Job
           /\ j.op \in Ops /\ j.slot \in Slots /\ j.id \in Ids /\ j.src \in Sources
           /\ j.strategy \in Strategies /\ j.addr \in ExternalAddrs
BY PipelineAssumption DEF Job

LEMMA RecordFields ==
    ASSUME NEW r \in Record
    PROVE  /\ r.addr \in Address /\ r.kind \in {"standard", "external"}
           /\ r.src \in Sources \union {NoSrc} /\ r.history \in Seq(Entry)
BY DEF Record

LEMMA HistoryTyped ==
    ASSUME NEW r \in Record \union {NoRecord}
    PROVE  History(r) \in Seq(Entry)
<1>1. CASE r = NoRecord
  BY <1>1 DEF History
<1>2. CASE r # NoRecord
  BY <1>2, RecordFields DEF History
<1>3. QED
  BY <1>1, <1>2

\* The record getOrDeploy writes is a record ...
LEMMA NewRecordTyped ==
    ASSUME NEW j \in Jobs, NEW r \in Record \union {NoRecord}, NEW n \in Nat,
           NEW src \in Sources \union {NoSrc}
    PROVE  /\ NewRecord(j, r, n, src) \in Record
           /\ NewRecord(j, r, n, src).kind = "standard"
           /\ NewRecord(j, r, n, src).addr = n
           /\ NewRecord(j, r, n, src).id = j.id
           /\ NewRecord(j, r, n, src).src = src
<1> DEFINE e == [addr |-> n, id |-> j.id, reason |-> Reason(j, r),
                 superseded |-> IF r = NoRecord THEN NoAddr ELSE r.addr]
<1>1. (IF r = NoRecord THEN NoAddr ELSE r.addr) \in Address
  BY RecordFields DEF Address
<1>2. Reason(j, r) \in {"fresh", "forced", "changed", "registered"}
  BY DEF Reason
<1>3. n \in Address /\ j.id \in Ids \union {NoId}
  BY JobFields DEF Address
<1>4. e \in Entry
  BY <1>1, <1>2, <1>3 DEF Entry
<1>5. Append(History(r), e) \in Seq(Entry)
  BY <1>4, HistoryTyped
<1>6. NewRecord(j, r, n, src) =
        [kind |-> "standard", chain |-> "here", addr |-> n, id |-> j.id, src |-> src,
         history |-> Append(History(r), e)]
  BY DEF NewRecord
<1>7. QED
  BY <1>3, <1>5, <1>6 DEF Record

\* ... and so is the one register writes, an external one.
LEMMA RegisteredTyped ==
    ASSUME NEW j \in Jobs, NEW r \in Record \union {NoRecord}
    PROVE  /\ Registered(j, r) \in Record
           /\ Registered(j, r).kind = "external"
           /\ Registered(j, r).src = NoSrc
<1> DEFINE h == History(r)
           e == [addr |-> j.addr, id |-> NoId, reason |-> "registered",
                 superseded |-> IF r = NoRecord \/ r.addr = j.addr THEN NoAddr
                                ELSE r.addr]
           alreadyLogged == h # <<>> /\ h[Len(h)].addr = j.addr
<1>1. (IF r = NoRecord \/ r.addr = j.addr THEN NoAddr ELSE r.addr) \in Address
  BY RecordFields DEF Address
<1>2. j.addr \in Address
  BY JobFields DEF Address
<1>3. e \in Entry
  BY <1>1, <1>2 DEF Entry
<1>4. (IF alreadyLogged THEN h ELSE Append(h, e)) \in Seq(Entry)
  BY <1>3, HistoryTyped
<1>5. Registered(j, r) =
        [kind |-> "external", chain |-> "here", addr |-> j.addr, id |-> NoId,
         src |-> NoSrc, history |-> IF alreadyLogged THEN h ELSE Append(h, e)]
  BY DEF Registered
<1>6. QED
  BY <1>2, <1>4, <1>5 DEF Record

-----------------------------------------------------------------------------
(* Type correctness.  A process is busy with a job of the script, or idle.  *)
Busy == \A p \in Procs : pc[p] # "idle" => job[p] \in Jobs
TypeInv == TypeOK /\ Busy

LEMMA TypeInit == Init => TypeInv
<1> SUFFICES ASSUME Init
             PROVE  TypeInv
  OBVIOUS
<1>1. records \in [Slots -> Record \union {NoRecord}]
  BY PipelineAssumption DEF Init
<1>2. /\ blobs \subseteq Sources
      /\ holder \in [Slots -> Procs \union {Free, Orphan}]
      /\ chain \in Seq(Tx)
      /\ pc \in [Procs -> PC]
  BY DEF Init, PC
<1>3. /\ job \in [Procs -> Jobs \union {NoJob}]
      /\ existing \in [Procs -> Record \union {NoRecord}]
      /\ tx \in [Procs -> Nat]
      /\ pin \in [Procs -> Sources \union {NoSrc}]
  BY DEF Init
<1>4. /\ todo \in [Procs -> SUBSET Slots]
      /\ keep \in [Procs -> SUBSET (Sources \union {NoSrc})]
      /\ calls \in Nat /\ faults \in Nat /\ writtenOff \subseteq Nat
  BY DEF Init
<1>5. Busy
  BY DEF Init, Busy
<1>6. QED
  BY <1>1, <1>2, <1>3, <1>4, <1>5 DEF TypeInv, TypeOK

\* Settling a call leaves every local with a value of its type.
LEMMA SettleTyped ==
    ASSUME TypeInv, NEW p \in Procs, Settle(p)
    PROVE  /\ pc' \in [Procs -> PC] /\ job' \in [Procs -> Jobs \union {NoJob}]
           /\ existing' \in [Procs -> Record \union {NoRecord}]
           /\ tx' \in [Procs -> Nat] /\ pin' \in [Procs -> Sources \union {NoSrc}]
           /\ todo' \in [Procs -> SUBSET Slots]
           /\ keep' \in [Procs -> SUBSET (Sources \union {NoSrc})]
           /\ Busy'
BY DEF TypeInv, TypeOK, Busy, Settle, Goto, PC

LEMMA TypeStep == TypeInv /\ [Next]_vars => TypeInv'
<1> SUFFICES ASSUME TypeInv, [Next]_vars
             PROVE  TypeInv'
  OBVIOUS
<1> USE DEF TypeInv, TypeOK, Busy, Goto, PC, store, locals
<1>1. ASSUME NEW p \in Procs, NEW j \in Jobs, Begin(p, j)
      PROVE  TypeInv'
  <2>1. /\ job' \in [Procs -> Jobs \union {NoJob}]
        /\ todo' \in [Procs -> SUBSET Slots]
    BY <1>1, JobFields DEF Begin
  <2>2. pc' \in [Procs -> PC]
    BY <1>1, JobFields DEF Begin, Ops
  <2>3. Busy'
    BY <1>1, <2>1, <2>2 DEF Begin
  <2>4. calls' \in Nat
    BY <1>1 DEF Begin
  <2>5. QED
    BY <1>1, <2>1, <2>2, <2>3, <2>4 DEF Begin
<1>2. ASSUME NEW p \in Procs, Lock(p)
      PROVE  TypeInv'
  BY <1>2 DEF Lock
<1>3. ASSUME NEW p \in Procs, Read(p)
      PROVE  TypeInv'
  <2>1. records[job[p].slot] \in Record \union {NoRecord}
    BY <1>3, JobFields DEF Read
  <2>2. existing' \in [Procs -> Record \union {NoRecord}]
    BY <1>3, <2>1 DEF Read
  <2>3. pc' \in [Procs -> PC] /\ Busy'
    BY <1>3 DEF Read
  <2>4. QED
    BY <1>3, <2>2, <2>3 DEF Read
<1>4. ASSUME NEW p \in Procs,
             \/ LockRefused(p) \/ Release(p) \/ DeploymentExists(p) \/ StoreFails(p)
      PROVE  TypeInv'
  <2>1. Settle(p)
    BY <1>4 DEF LockRefused, Release, DeploymentExists, StoreFails
  <2>2. holder' \in [Slots -> Procs \union {Free, Orphan}]
    BY <1>4 DEF LockRefused, Release, DeploymentExists, StoreFails
  <2>3. UNCHANGED <<records, blobs, chain, calls, faults, writtenOff>>
    BY <1>4 DEF LockRefused, Release, DeploymentExists, StoreFails
  <2>4. QED
    BY <2>1, <2>2, <2>3, SettleTyped
<1>5. ASSUME NEW p \in Procs, Abort(p) \/ BroadcastRejected(p) \/ Receipt(p) \/ Hooks(p)
      PROVE  TypeInv'
  BY <1>5 DEF Abort, BroadcastRejected, Receipt, Hooks
<1>6. ASSUME NEW p \in Procs, Broadcast(p) \/ BroadcastLost(p)
      PROVE  TypeInv'
  <2>1. job[p] \in Jobs
    BY <1>6 DEF Broadcast, BroadcastLost
  <2>2. [slot |-> job[p].slot, id |-> job[p].id, status |-> "pending"] \in Tx
    BY <2>1, JobFields DEF Tx
  <2>a. chain' = Append(chain, [slot |-> job[p].slot, id |-> job[p].id,
                                status |-> "pending"])
    BY <1>6 DEF Broadcast, BroadcastLost, Accept
  <2>3. chain' \in Seq(Tx) /\ Len(chain') \in Nat
    BY <2>2, <2>a
  <2>4. tx' \in [Procs -> Nat] /\ writtenOff' \subseteq Nat
    BY <1>6, <2>3 DEF Broadcast, BroadcastLost
  <2>5. pc' \in [Procs -> PC] /\ Busy'
    BY <1>6 DEF Broadcast, BroadcastLost
  <2>6. QED
    BY <1>6, <2>3, <2>4, <2>5 DEF Broadcast, BroadcastLost
<1>7. ASSUME NEW p \in Procs, ReceiptFails(p) \/ WriteFails(p)
      PROVE  TypeInv'
  <2>1. tx[p] \in Nat
    OBVIOUS
  <2>2. writtenOff' \subseteq Nat
    BY <1>7, <2>1 DEF ReceiptFails, WriteFails
  <2>3. pc' \in [Procs -> PC] /\ Busy'
    BY <1>7 DEF ReceiptFails, WriteFails
  <2>4. QED
    BY <1>7, <2>2, <2>3 DEF ReceiptFails, WriteFails
<1>8. ASSUME NEW p \in Procs, Pin(p)
      PROVE  TypeInv'
  <2>1. job[p].src \in Sources
    BY <1>8, JobFields DEF Pin
  <2>2. pin' \in [Procs -> Sources \union {NoSrc}] /\ blobs' \subseteq Sources
    BY <1>8, <2>1 DEF Pin
  <2>3. pc' \in [Procs -> PC] /\ Busy'
    BY <1>8 DEF Pin
  <2>4. QED
    BY <1>8, <2>2, <2>3 DEF Pin
<1>9. ASSUME NEW p \in Procs, Write(p)
      PROVE  TypeInv'
  <2> DEFINE r == NewRecord(job[p], existing[p], tx[p], pin[p])
  <2>1. r \in Record
    BY <1>9, NewRecordTyped DEF Write
  <2> HIDE DEF r
  <2>2. /\ records' = [records EXCEPT ![job[p].slot] = r]
        /\ existing' = [existing EXCEPT ![p] = r]
    BY <1>9 DEF Write, r
  <2>3. /\ records' \in [Slots -> Record \union {NoRecord}]
        /\ existing' \in [Procs -> Record \union {NoRecord}]
    BY <2>1, <2>2
  <2>4. pc' \in [Procs -> PC] /\ Busy'
    BY <1>9 DEF Write
  <2>5. QED
    BY <1>9, <2>3, <2>4 DEF Write
<1>10. ASSUME NEW p \in Procs, RegRead(p)
       PROVE  TypeInv'
  <2>1. records[job[p].slot] \in Record \union {NoRecord}
    BY <1>10, JobFields DEF RegRead
  <2>2. QED
    BY <1>10, <2>1 DEF RegRead
<1>11. ASSUME NEW p \in Procs, RegWrite(p)
       PROVE  TypeInv'
  <2>1. Registered(job[p], existing[p]) \in Record
    BY <1>11, RegisteredTyped DEF RegWrite
  <2>2. records' \in [Slots -> Record \union {NoRecord}]
    BY <1>11, <2>1 DEF RegWrite
  <2>3. Settle(p) /\ UNCHANGED <<blobs, holder, chain, calls, faults, writtenOff>>
    BY <1>11 DEF RegWrite
  <2>4. QED
    BY <2>2, <2>3, SettleTyped
<1>12. ASSUME NEW p \in Procs, ResetList(p)
       PROVE  TypeInv'
  BY <1>12 DEF ResetList
<1>13. ASSUME NEW p \in Procs, ResetRemove(p)
       PROVE  TypeInv'
  <2>1. \A n \in DOMAIN chain : n \in Nat
    OBVIOUS
  <2>2. PICK s \in todo[p] :
           /\ todo' = [todo EXCEPT ![p] = @ \ {s}]
           /\ records' = [records EXCEPT ![s] = NoRecord]
           /\ writtenOff' = writtenOff \union {n \in DOMAIN chain : n \in Recorded(s)}
    BY <1>13 DEF ResetRemove
  <2>3. /\ records' \in [Slots -> Record \union {NoRecord}]
        /\ todo' \in [Procs -> SUBSET Slots]
    BY <2>2
  <2>4. writtenOff' \subseteq Nat
    BY <2>1, <2>2
  <2>5. QED
    BY <1>13, <2>3, <2>4 DEF ResetRemove
<1>14. ASSUME NEW p \in Procs, ResetScan(p)
       PROVE  TypeInv'
  <2>1. Referenced(p) \subseteq Sources \union {NoSrc}
    BY RecordFields DEF Referenced
  <2>2. QED
    BY <1>14, <2>1 DEF ResetScan
<1>15. ASSUME NEW p \in Procs, ResetPrune(p)
       PROVE  TypeInv'
  <2>1. Settle(p) /\ UNCHANGED <<records, holder, chain, calls, faults, writtenOff>>
    BY <1>15 DEF ResetPrune
  <2>2. blobs' \subseteq Sources
    BY <1>15 DEF ResetPrune
  <2>3. QED
    BY <2>1, <2>2, SettleTyped
<1>16. ASSUME NEW p \in Procs, Crash(p)
       PROVE  TypeInv'
  <2>1. Settle(p) /\ UNCHANGED <<records, blobs, chain, calls>>
    BY <1>16 DEF Crash
  <2>2. holder' \in [Slots -> Procs \union {Free, Orphan}] /\ faults' \in Nat
    BY <1>16 DEF Crash
  <2>3. tx[p] \in Nat
    OBVIOUS
  <2>4. writtenOff' \subseteq Nat
    BY <1>16, <2>3 DEF Crash
  <2>5. QED
    BY <2>1, <2>2, <2>4, SettleTyped
<1>17. ASSUME NEW n \in DOMAIN chain, Mine(n)
       PROVE  TypeInv'
  <2>1. PICK st \in {"created", "reverted"} : chain' = [chain EXCEPT ![n].status = st]
    BY <1>17 DEF Mine
  <2>2. n \in 1..Len(chain) /\ chain[n] \in Tx
    BY <1>17
  <2>3. [chain[n] EXCEPT !.status = st] \in Tx
    BY <2>2 DEF Tx
  <2>4. chain' \in Seq(Tx)
    BY <2>1, <2>2, <2>3, ExceptSeq
  <2>5. QED
    BY <1>17, <2>4 DEF Mine
<1>18. ASSUME NEW s \in Slots, ReclaimLock(s)
       PROVE  TypeInv'
  BY <1>18 DEF ReclaimLock
<1>19. CASE UNCHANGED vars
  BY <1>19 DEF vars
<1>20. QED
  BY <1>1, <1>2, <1>3, <1>4, <1>5, <1>6, <1>7, <1>8, <1>9, <1>10, <1>11, <1>12, <1>13,
     <1>14, <1>15, <1>16, <1>17, <1>18, <1>19
  DEF Next, Step

LEMMA TypeInvariant == Spec => []TypeInv
<1>1. Init => TypeInv
  BY TypeInit
<1>2. TypeInv /\ [Next]_vars => TypeInv'
  BY TypeStep
<1>3. QED
  BY <1>1, <1>2, PTL DEF Spec

\* Every variable keeps its type: in particular every record getOrDeploy or register
\* writes, over whatever record it found, is one the schema accepts (schemas.ts:178-240).
THEOREM TypeCorrect == Spec => []TypeOK
<1>1. TypeInv => TypeOK
  BY DEF TypeInv
<1>2. QED
  BY <1>1, TypeInvariant, PTL

-----------------------------------------------------------------------------
(* A call stays within the labels of its own operation, and an operation of *)
(* Alone is never under way together with another call.                     *)
InLock == {"read", "deploy", "receipt", "pin", "write", "notify", "failHooks", "release"}
DeployPC == InLock \union {"lock"}
RegPC == {"regRead", "regWrite"}
ResetPC == {"resetList", "resetRemove", "resetPrune"}

Labels == \A p \in Procs : /\ pc[p] \in DeployPC => job[p].op = "getOrDeploy"
                           /\ pc[p] \in RegPC => job[p].op = "register"
                           /\ pc[p] \in ResetPC => job[p].op \in {"reset", "resetAll"}
Solitude == \A p, q \in Procs :
                p # q /\ pc[p] # "idle" /\ pc[q] # "idle" => job[p].op \notin Alone
CallInv == TypeInv /\ Labels /\ Solitude

\* What a step of one process leaves alone.
LEMMA StepFrame ==
    ASSUME TypeInv, NEW p \in Procs, Step(p) \/ Crash(p)
    PROVE  /\ pc[p] # "idle"
           /\ \A q \in Procs \ {p} :
                 /\ pc'[q] = pc[q] /\ job'[q] = job[q] /\ existing'[q] = existing[q]
                 /\ tx'[q] = tx[q] /\ pin'[q] = pin[q] /\ keep'[q] = keep[q]
<1> USE DEF TypeInv, TypeOK, Goto, locals
<1>1. CASE Lock(p) \/ Read(p) \/ Abort(p) \/ Broadcast(p) \/ BroadcastLost(p)
           \/ BroadcastRejected(p)
  BY <1>1 DEF Lock, Read, Abort, Broadcast, BroadcastLost, BroadcastRejected
<1>2. CASE Receipt(p) \/ ReceiptFails(p) \/ Pin(p) \/ Write(p) \/ WriteFails(p) \/ Hooks(p)
  BY <1>2 DEF Receipt, ReceiptFails, Pin, Write, WriteFails, Hooks
<1>3. CASE RegRead(p) \/ ResetList(p) \/ ResetRemove(p) \/ ResetScan(p)
  BY <1>3 DEF RegRead, ResetList, ResetRemove, ResetScan
<1>4. CASE LockRefused(p) \/ Release(p) \/ DeploymentExists(p) \/ RegWrite(p)
           \/ ResetPrune(p) \/ StoreFails(p) \/ Crash(p)
  BY <1>4 DEF LockRefused, Release, DeploymentExists, RegWrite, ResetPrune, StoreFails,
              Crash, Settle
<1>5. QED
  BY <1>1, <1>2, <1>3, <1>4 DEF Step

\* A call keeps its job and its kind of label until it settles.
LEMMA StepLabels ==
    ASSUME TypeInv, NEW p \in Procs, Step(p) \/ Crash(p)
    PROVE  \/ pc'[p] = "idle"
           \/ /\ job'[p] = job[p]
              /\ \/ pc[p] \in DeployPC /\ pc'[p] \in InLock
                 \/ pc[p] \in RegPC /\ pc'[p] \in RegPC
                 \/ pc[p] \in ResetPC /\ pc'[p] \in ResetPC
<1> USE DEF TypeInv, TypeOK, Goto, locals, InLock, DeployPC, RegPC, ResetPC
<1>1. CASE Lock(p) \/ Read(p) \/ Abort(p) \/ Broadcast(p) \/ BroadcastLost(p)
           \/ BroadcastRejected(p)
  BY <1>1 DEF Lock, Read, Abort, Broadcast, BroadcastLost, BroadcastRejected
<1>2. CASE Receipt(p) \/ ReceiptFails(p) \/ Pin(p) \/ Write(p) \/ WriteFails(p) \/ Hooks(p)
  BY <1>2 DEF Receipt, ReceiptFails, Pin, Write, WriteFails, Hooks
<1>3. CASE RegRead(p) \/ ResetList(p) \/ ResetRemove(p) \/ ResetScan(p)
  BY <1>3 DEF RegRead, ResetList, ResetRemove, ResetScan
<1>4. CASE LockRefused(p) \/ Release(p) \/ DeploymentExists(p) \/ RegWrite(p)
           \/ ResetPrune(p) \/ StoreFails(p) \/ Crash(p)
  BY <1>4 DEF LockRefused, Release, DeploymentExists, RegWrite, ResetPrune, StoreFails,
              Crash, Settle
<1>5. QED
  BY <1>1, <1>2, <1>3, <1>4 DEF Step

\* Only three steps write a record, and only two touch the pinned sources.
LEMMA StoreFrame ==
    ASSUME NEW p \in Procs, Step(p) \/ Crash(p)
    PROVE  /\ records' = records \/ Write(p) \/ RegWrite(p) \/ ResetRemove(p)
           /\ blobs' = blobs \/ Pin(p) \/ ResetPrune(p)
BY DEF Step, Crash, Lock, LockRefused, Read, Abort, Broadcast, BroadcastLost,
       BroadcastRejected, Receipt, ReceiptFails, Pin, Write, WriteFails, Hooks, Release,
       RegRead, DeploymentExists, RegWrite, ResetList, ResetRemove, ResetScan, ResetPrune,
       StoreFails, store

LEMMA CallInit == Init => CallInv
BY TypeInit DEF Init, CallInv, Labels, Solitude, DeployPC, InLock, RegPC, ResetPC

LEMMA CallStep == CallInv /\ [Next]_vars => CallInv'
<1> SUFFICES ASSUME CallInv, [Next]_vars
             PROVE  Labels' /\ Solitude'
  BY TypeStep DEF CallInv
<1>1. ASSUME NEW p \in Procs, NEW j \in Jobs, Begin(p, j)
      PROVE  Labels' /\ Solitude'
  <2>1. /\ pc[p] = "idle" /\ job'[p] = j
        /\ \/ j.op = "getOrDeploy" /\ pc'[p] = "lock"
           \/ j.op = "register" /\ pc'[p] = "regRead"
           \/ j.op = "reset" /\ pc'[p] = "resetRemove"
           \/ j.op = "resetAll" /\ pc'[p] = "resetList"
    BY <1>1, JobFields DEF Begin, Goto, Ops, CallInv, TypeInv, TypeOK
  <2>2. \A q \in Procs \ {p} : pc'[q] = pc[q] /\ job'[q] = job[q]
    BY <1>1 DEF Begin, Goto, CallInv, TypeInv, TypeOK
  <2>3. Labels'
    BY <2>1, <2>2 DEF CallInv, Labels, DeployPC, InLock, RegPC, ResetPC
  <2>4. \A q \in Procs : pc[q] # "idle" => j.op \notin Alone /\ job[q].op \notin Alone
    BY <1>1 DEF Begin, MayBegin
  <2>5. Solitude'
    BY <2>1, <2>2, <2>4 DEF CallInv, Solitude
  <2>6. QED
    BY <2>3, <2>5
<1>2. ASSUME NEW p \in Procs, Step(p) \/ Crash(p)
      PROVE  Labels' /\ Solitude'
  <2>1. /\ pc[p] # "idle"
        /\ \A q \in Procs \ {p} : pc'[q] = pc[q] /\ job'[q] = job[q]
    BY <1>2, StepFrame DEF CallInv
  <2>2. \/ pc'[p] = "idle"
        \/ /\ job'[p] = job[p]
           /\ \/ pc[p] \in DeployPC /\ pc'[p] \in InLock
              \/ pc[p] \in RegPC /\ pc'[p] \in RegPC
              \/ pc[p] \in ResetPC /\ pc'[p] \in ResetPC
    BY <1>2, StepLabels DEF CallInv
  <2>3. Labels'
    BY <2>1, <2>2 DEF CallInv, Labels, DeployPC, InLock, RegPC, ResetPC
  <2>4. Solitude'
    BY <2>1, <2>2 DEF CallInv, Solitude
  <2>5. QED
    BY <2>3, <2>4
<1>3. CASE UNCHANGED <<pc, job>>
  BY <1>3 DEF CallInv, Labels, Solitude
<1>4. QED
  BY <1>1, <1>2, <1>3 DEF Next, vars, locals, Mine, ReclaimLock

LEMMA CallInvariant == Spec => []CallInv
BY CallInit, CallStep, PTL DEF Spec

-----------------------------------------------------------------------------
(* The lock.  A process between Lock and Release is the recorded holder of  *)
(* its slot, so two of them are never on the same slot.                     *)
HoldInv == \A p \in Procs : pc[p] \in InLock => holder[job[p].slot] = p

LEMMA HoldStep ==
    ASSUME HasLock, CallInv, HoldInv, [Next]_vars
    PROVE  HoldInv'
<1> USE DEF HoldInv, InLock
<1>1. ASSUME NEW p \in Procs, NEW j \in Jobs, Begin(p, j)
      PROVE  HoldInv'
  <2>1. holder' = holder /\ pc'[p] \notin InLock
    BY <1>1, JobFields DEF Begin, Goto, Ops, CallInv, TypeInv, TypeOK
  <2>2. \A q \in Procs \ {p} : pc'[q] = pc[q] /\ job'[q] = job[q]
    BY <1>1 DEF Begin, Goto, CallInv, TypeInv, TypeOK
  <2>3. QED
    BY <2>1, <2>2
<1>2. ASSUME NEW p \in Procs, Step(p) \/ Crash(p)
      PROVE  HoldInv'
  <2>1. \A q \in Procs \ {p} : pc'[q] = pc[q] /\ job'[q] = job[q]
    BY <1>2, StepFrame DEF CallInv
  <2>2. CASE Lock(p)
    <3>1. /\ holder[job[p].slot] = Free
          /\ holder' = [holder EXCEPT ![job[p].slot] = p]
          /\ job' = job
      BY <2>2 DEF Lock, locals
    <3>2. job[p].slot \in Slots
      BY <2>2, JobFields DEF Lock, CallInv, TypeInv, Busy
    <3>3. holder'[job[p].slot] = p
      BY <3>1, <3>2 DEF CallInv, TypeInv, TypeOK
    <3>4. ASSUME NEW q \in Procs \ {p}, pc[q] \in InLock
          PROVE  holder'[job[q].slot] = q
      <4>1. holder[job[q].slot] = q /\ q # Free
        BY <3>4, PipelineAssumption
      <4>2. job[q].slot # job[p].slot
        BY <3>1, <4>1
      <4>3. QED
        BY <3>1, <4>1, <4>2 DEF CallInv, TypeInv, TypeOK
    <3>5. QED
      BY <2>1, <3>1, <3>3, <3>4
  <2>3. CASE Release(p)
    <3>1. /\ holder' = [holder EXCEPT ![job[p].slot] = Free]
          /\ pc[p] \in InLock /\ pc'[p] = "idle"
      BY <2>3 DEF Release, Settle, Goto, CallInv, TypeInv, TypeOK
    <3>2. ASSUME NEW q \in Procs \ {p}, pc[q] \in InLock
          PROVE  holder'[job[q].slot] = q
      <4>1. holder[job[q].slot] = q /\ holder[job[p].slot] = p
        BY <3>1, <3>2
      <4>2. job[q].slot # job[p].slot
        BY <4>1
      <4>3. QED
        BY <3>1, <4>1, <4>2 DEF CallInv, TypeInv, TypeOK
    <3>3. QED
      BY <2>1, <3>1, <3>2
  <2>4. CASE Crash(p)
    <3>1. /\ holder' = [s \in Slots |-> IF holder[s] = p THEN Orphan ELSE holder[s]]
          /\ pc'[p] = "idle"
      BY <2>4 DEF Crash, Settle, Goto, CallInv, TypeInv, TypeOK
    <3>2. ASSUME NEW q \in Procs \ {p}, pc[q] \in InLock
          PROVE  holder'[job[q].slot] = q
      <4>1. holder[job[q].slot] = q /\ job[q].slot \in Slots
        BY <3>2, JobFields DEF CallInv, TypeInv, Busy
      <4>2. QED
        BY <3>1, <4>1
    <3>3. QED
      BY <2>1, <3>1, <3>2
  <2>5. CASE ~(Lock(p) \/ Release(p) \/ Crash(p))
    <3>1. holder' = holder
      BY <1>2, <2>5 DEF Step, LockRefused, Read, Abort, Broadcast, BroadcastLost,
         BroadcastRejected, Receipt, ReceiptFails, Pin, Write, WriteFails, Hooks,
         RegRead, DeploymentExists, RegWrite, ResetList, ResetRemove, ResetScan,
         ResetPrune, StoreFails
    <3>2. pc'[p] \in InLock => pc[p] \in InLock /\ job'[p] = job[p]
      <4>1. pc[p] = "lock" => pc'[p] \notin InLock
        BY <1>2, <2>5 DEF Step, LockRefused, Read, Abort, Broadcast, BroadcastLost,
           BroadcastRejected, Receipt, ReceiptFails, Pin, Write, WriteFails, Hooks,
           Release, RegRead, DeploymentExists, RegWrite, ResetList, ResetRemove,
           ResetScan, ResetPrune, StoreFails, Settle, Goto, CallInv, TypeInv, TypeOK
      <4>2. QED
        BY <1>2, <4>1, StepLabels DEF CallInv, DeployPC, RegPC, ResetPC
    <3>3. QED
      BY <2>1, <3>1, <3>2
  <2>6. QED
    BY <1>2, <2>2, <2>3, <2>4, <2>5
<1>3. ASSUME NEW s \in Slots, ReclaimLock(s)
      PROVE  HoldInv'
  <2>1. /\ holder[s] = Orphan /\ holder' = [holder EXCEPT ![s] = Free]
        /\ pc' = pc /\ job' = job
    BY <1>3 DEF ReclaimLock, locals
  <2>2. ASSUME NEW q \in Procs, pc[q] \in InLock
        PROVE  holder'[job[q].slot] = q
    <3>1. holder[job[q].slot] = q /\ q # Orphan
      BY <2>2, PipelineAssumption
    <3>2. QED
      BY <2>1, <3>1 DEF CallInv, TypeInv, TypeOK
  <2>3. QED
    BY <2>1, <2>2
<1>4. CASE UNCHANGED <<holder, pc, job>>
  BY <1>4
<1>5. QED
  BY <1>1, <1>2, <1>3, <1>4 DEF Next, vars, locals, Mine

LEMMA OneInLock ==
    ASSUME HoldInv, NEW p \in Procs, NEW q \in Procs,
           pc[p] \in InLock, pc[q] \in InLock, job[p].slot = job[q].slot
    PROVE  p = q
BY DEF HoldInv

-----------------------------------------------------------------------------
(* read -> deploy -> write is one transaction.                              *)
NothingBeside == {"register", "reset", "resetAll"} \subseteq Alone

LEMMA CurrentStep ==
    ASSUME HasLock, NothingBeside, CallInv, HoldInv, CallSeesCurrentRecord, [Next]_vars
    PROVE  CallSeesCurrentRecord'
<1> USE DEF CallSeesCurrentRecord, Deciding
<1>1. ASSUME NEW p \in Procs, NEW j \in Jobs, Begin(p, j)
      PROVE  CallSeesCurrentRecord'
  <2>1. UNCHANGED <<records, existing>> /\ ~Deciding(p)'
    BY <1>1, JobFields DEF Begin, Goto, store, Ops, CallInv, TypeInv, TypeOK
  <2>2. \A q \in Procs \ {p} : pc'[q] = pc[q] /\ job'[q] = job[q]
    BY <1>1 DEF Begin, Goto, CallInv, TypeInv, TypeOK
  <2>3. QED
    BY <2>1, <2>2
<1>2. ASSUME NEW p \in Procs, Step(p) \/ Crash(p)
      PROVE  CallSeesCurrentRecord'
  <2>1. ASSUME NEW q \in Procs \ {p}, Deciding(q)
        PROVE  records'[job[q].slot] = records[job[q].slot]
    <3>1. CASE Write(p)
      <4>1. pc[p] \in InLock /\ pc[q] \in InLock
        BY <2>1, <3>1 DEF Write, InLock
      <4>2. job[p].slot # job[q].slot
        BY <4>1, OneInLock
      <4>3. QED
        BY <3>1, <4>2 DEF Write, CallInv, TypeInv, TypeOK
    <3>2. CASE RegWrite(p) \/ ResetRemove(p)
      <4>1. pc[p] \in RegPC \union ResetPC /\ pc[p] # "idle" /\ pc[q] # "idle"
        BY <2>1, <3>2 DEF RegWrite, ResetRemove, RegPC, ResetPC
      <4>2. job[p].op \in Alone
        BY <4>1 DEF NothingBeside, CallInv, Labels
      <4>3. QED
        BY <4>1, <4>2 DEF CallInv, Solitude
    <3>3. QED
      BY <1>2, <3>1, <3>2, StoreFrame
  <2>2. ASSUME NEW q \in Procs \ {p}, Deciding(q)'
        PROVE  records'[job'[q].slot] = existing'[q]
    BY <1>2, <2>1, <2>2, StepFrame DEF CallInv
  <2>3. ASSUME Deciding(p)'
        PROVE  records'[job'[p].slot] = existing'[p]
    <3>1. CASE Read(p)
      BY <3>1 DEF Read, store, CallInv, TypeInv, TypeOK
    <3>2. CASE Write(p)
      <4>1. job[p].slot \in Slots /\ job' = job
        BY <3>2, JobFields DEF Write, CallInv, TypeInv, Busy
      <4>2. QED
        BY <3>2, <4>1 DEF Write, CallInv, TypeInv, TypeOK
    <3>3. CASE Broadcast(p) \/ Receipt(p) \/ Pin(p)
      BY <3>3 DEF Broadcast, Receipt, Pin, store, locals
    <3>4. CASE Lock(p) \/ Abort(p) \/ BroadcastLost(p) \/ BroadcastRejected(p)
               \/ ReceiptFails(p) \/ WriteFails(p) \/ Hooks(p)
      BY <2>3, <3>4 DEF Lock, Abort, BroadcastLost, BroadcastRejected, ReceiptFails,
         WriteFails, Hooks, Goto, CallInv, TypeInv, TypeOK
    <3>5. CASE RegRead(p) \/ ResetList(p) \/ ResetRemove(p) \/ ResetScan(p)
      BY <2>3, <3>5 DEF RegRead, ResetList, ResetRemove, ResetScan, Goto, CallInv,
         TypeInv, TypeOK
    <3>6. CASE LockRefused(p) \/ Release(p) \/ DeploymentExists(p) \/ RegWrite(p)
               \/ ResetPrune(p) \/ StoreFails(p) \/ Crash(p)
      BY <2>3, <3>6 DEF LockRefused, Release, DeploymentExists, RegWrite, ResetPrune,
         StoreFails, Crash, Settle, Goto, CallInv, TypeInv, TypeOK
    <3>7. QED
      BY <1>2, <3>1, <3>2, <3>3, <3>4, <3>5, <3>6 DEF Step
  <2>4. QED
    BY <2>2, <2>3
<1>3. CASE UNCHANGED <<records, pc, job, existing>>
  BY <1>3
<1>4. QED
  BY <1>1, <1>2, <1>3 DEF Next, vars, store, locals, Mine, ReclaimLock

\* With a store that has `lock`, and register and reset kept apart from everything
\* else, what a getOrDeploy call read (or wrote) is what the store holds at every
\* later step of the call, for any number of concurrent calls (pipeline.ts:109-292).
THEOREM ReadDeployWriteAtomic ==
    ASSUME HasLock, NothingBeside
    PROVE  Spec => []CallSeesCurrentRecord
<1>1. Init => HoldInv /\ CallSeesCurrentRecord
  BY DEF Init, HoldInv, InLock, CallSeesCurrentRecord, Deciding
<1>2. CallInv /\ HoldInv /\ CallSeesCurrentRecord /\ [Next]_vars
        => HoldInv' /\ CallSeesCurrentRecord'
  BY HoldStep, CurrentStep
<1>3. QED
  BY <1>1, <1>2, CallInvariant, PTL DEF Spec

-----------------------------------------------------------------------------
(* The pinned sources.  A blob in use is referenced by a record or by a call *)
(* about to write one; reset prunes while no such call is under way.         *)
ResetsAlone == {"reset", "resetAll"} \subseteq Alone

PinInv == \A p \in Procs : /\ pin[p] \in blobs \union {NoSrc}
                           /\ pc[p] \notin InLock => pin[p] = NoSrc
KeepInv == \A p \in Procs : pc[p] = "resetPrune" =>
              \A s \in Slots : records[s] # NoRecord => records[s].src \in keep[p]

\* A call that settles, or one that does not pin, leaves no pin behind it.
LEMMA PinFrame ==
    ASSUME TypeInv, NEW p \in Procs, Step(p) \/ Crash(p), ~Pin(p)
    PROVE  \/ pin'[p] = pin[p] /\ pc'[p] # "idle"
           \/ pin'[p] = NoSrc /\ pc'[p] = "idle"
<1> USE DEF TypeInv, TypeOK, Goto, locals
<1>1. CASE Lock(p) \/ Read(p) \/ Abort(p) \/ Broadcast(p) \/ BroadcastLost(p)
           \/ BroadcastRejected(p)
  BY <1>1 DEF Lock, Read, Abort, Broadcast, BroadcastLost, BroadcastRejected
<1>2. CASE Receipt(p) \/ ReceiptFails(p) \/ Write(p) \/ WriteFails(p) \/ Hooks(p)
  BY <1>2 DEF Receipt, ReceiptFails, Write, WriteFails, Hooks
<1>3. CASE RegRead(p) \/ ResetList(p) \/ ResetRemove(p) \/ ResetScan(p)
  BY <1>3 DEF RegRead, ResetList, ResetRemove, ResetScan
<1>4. CASE LockRefused(p) \/ Release(p) \/ DeploymentExists(p) \/ RegWrite(p)
           \/ ResetPrune(p) \/ StoreFails(p) \/ Crash(p)
  BY <1>4 DEF LockRefused, Release, DeploymentExists, RegWrite, ResetPrune, StoreFails,
              Crash, Settle
<1>5. QED
  BY <1>1, <1>2, <1>3, <1>4 DEF Step

\* While a reset is under way every other process is idle.
LEMMA ResetAlone ==
    ASSUME ResetsAlone, CallInv, NEW p \in Procs, pc[p] \in ResetPC,
           NEW q \in Procs \ {p}
    PROVE  pc[q] = "idle"
<1>1. job[p].op \in Alone /\ pc[p] # "idle"
  BY DEF ResetsAlone, CallInv, Labels, ResetPC
<1>2. QED
  BY <1>1 DEF CallInv, Solitude

LEMMA PinStep ==
    ASSUME HasSources, ResetsAlone, CallInv, PinInv, [Next]_vars
    PROVE  PinInv'
<1> USE DEF PinInv
<1>1. ASSUME NEW p \in Procs, NEW j \in Jobs, Begin(p, j)
      PROVE  PinInv'
  <2>1. UNCHANGED <<blobs, pin>> /\ pc[p] = "idle"
    BY <1>1 DEF Begin, store
  <2>2. \A q \in Procs \ {p} : pc'[q] = pc[q]
    BY <1>1 DEF Begin, Goto, CallInv, TypeInv, TypeOK
  <2>3. QED
    BY <2>1, <2>2 DEF InLock
<1>2. ASSUME NEW p \in Procs, Step(p) \/ Crash(p)
      PROVE  PinInv'
  <2>1. \A q \in Procs \ {p} : pc'[q] = pc[q] /\ pin'[q] = pin[q]
    BY <1>2, StepFrame DEF CallInv
  <2>2. CASE Pin(p)
    <3>1. /\ blobs \subseteq blobs'
          /\ pin'[p] \in blobs' \union {NoSrc}
          /\ pc'[p] \in InLock
      BY <2>2 DEF Pin, Goto, InLock, CallInv, TypeInv, TypeOK
    <3>2. QED
      BY <2>1, <3>1
  <2>3. CASE ResetPrune(p)
    <3>1. \A q \in Procs \ {p} : pin[q] = NoSrc
      BY <2>3, ResetAlone DEF ResetPrune, ResetPC, InLock
    <3>2. pin'[p] = NoSrc
      BY <2>3 DEF ResetPrune, Settle, CallInv, TypeInv, TypeOK
    <3>3. QED
      BY <2>1, <3>1, <3>2
  <2>4. CASE ~(Pin(p) \/ ResetPrune(p))
    <3>1. blobs' = blobs
      BY <1>2, <2>4, StoreFrame
    <3>2. \/ pin'[p] = pin[p] /\ pc'[p] # "idle"
          \/ pin'[p] = NoSrc /\ pc'[p] = "idle"
      BY <1>2, <2>4, PinFrame DEF CallInv
    <3>3. pc'[p] = "idle" \/ (pc[p] \in InLock => pc'[p] \in InLock)
      BY <1>2, StepLabels DEF CallInv, DeployPC, InLock, RegPC, ResetPC
    <3>4. QED
      BY <2>1, <3>1, <3>2, <3>3
  <2>5. QED
    BY <2>2, <2>3, <2>4
<1>3. CASE UNCHANGED <<blobs, pc, pin>>
  BY <1>3
<1>4. QED
  BY <1>1, <1>2, <1>3 DEF Next, vars, store, locals, Mine, ReclaimLock

LEMMA KeepStep ==
    ASSUME ResetsAlone, CallInv, KeepInv, [Next]_vars
    PROVE  KeepInv'
<1> USE DEF KeepInv
<1>1. ASSUME NEW p \in Procs, NEW j \in Jobs, Begin(p, j)
      PROVE  KeepInv'
  <2>1. UNCHANGED <<records, keep>> /\ pc'[p] # "resetPrune"
    BY <1>1, JobFields DEF Begin, store, Goto, Ops, CallInv, TypeInv, TypeOK
  <2>2. \A q \in Procs \ {p} : pc'[q] = pc[q]
    BY <1>1 DEF Begin, Goto, CallInv, TypeInv, TypeOK
  <2>3. QED
    BY <2>1, <2>2
<1>2. ASSUME NEW p \in Procs, Step(p) \/ Crash(p)
      PROVE  KeepInv'
  <2>1. ASSUME NEW q \in Procs \ {p}
        PROVE  pc'[q] # "resetPrune"
    BY <1>2, <2>1, StepFrame, ResetAlone DEF CallInv, ResetPC
  <2>2. CASE ResetScan(p)
    <3>1. records' = records /\ keep'[p] = Referenced(p)
      BY <2>2 DEF ResetScan, store, CallInv, TypeInv, TypeOK
    <3>2. QED
      BY <2>1, <3>1 DEF Referenced
  <2>3. CASE ~ResetScan(p)
    <3>1. pc'[p] # "resetPrune"
      BY <1>2, <2>3 DEF Step, Lock, LockRefused, Read, Abort, Broadcast, BroadcastLost,
         BroadcastRejected, Receipt, ReceiptFails, Pin, Write, WriteFails, Hooks, Release,
         RegRead, DeploymentExists, RegWrite, ResetList, ResetRemove, ResetPrune,
         StoreFails, Crash, Settle, Goto, CallInv, TypeInv, TypeOK
    <3>2. QED
      BY <2>1, <3>1
  <2>4. QED
    BY <2>2, <2>3
<1>3. CASE UNCHANGED <<records, pc, keep>>
  BY <1>3
<1>4. QED
  BY <1>1, <1>2, <1>3 DEF Next, vars, store, locals, Mine, ReclaimLock

LEMMA SourcesStep ==
    ASSUME HasSources, ResetsAlone, CallInv, PinInv, KeepInv, SourcesPinned, [Next]_vars
    PROVE  SourcesPinned'
<1> USE DEF SourcesPinned
<1>1. ASSUME NEW p \in Procs, Write(p)
      PROVE  SourcesPinned'
  <2> DEFINE r == NewRecord(job[p], existing[p], tx[p], pin[p])
  <2>a. /\ job[p] \in Jobs /\ existing[p] \in Record \union {NoRecord}
        /\ tx[p] \in Nat /\ pin[p] \in Sources \union {NoSrc}
    BY <1>1 DEF Write, CallInv, TypeInv, TypeOK, Busy
  <2>1. r.src = pin[p]
    BY <2>a, NewRecordTyped
  <2> HIDE DEF r
  <2>2. records' = [records EXCEPT ![job[p].slot] = r] /\ blobs' = blobs
    BY <1>1 DEF Write, r
  <2>3. r.src \in blobs \union {NoSrc}
    BY <2>1 DEF PinInv
  <2>4. records \in [Slots -> Record \union {NoRecord}]
    BY DEF CallInv, TypeInv, TypeOK
  <2>5. QED
    BY <2>2, <2>3, <2>4
<1>2. ASSUME NEW p \in Procs, RegWrite(p)
      PROVE  SourcesPinned'
  <2>1. Registered(job[p], existing[p]).src = NoSrc
    BY <1>2, RegisteredTyped DEF RegWrite, CallInv, TypeInv, TypeOK, Busy
  <2>2. QED
    BY <1>2, <2>1 DEF RegWrite, CallInv, TypeInv, TypeOK
<1>3. ASSUME NEW p \in Procs, ResetRemove(p)
      PROVE  SourcesPinned'
  BY <1>3 DEF ResetRemove, CallInv, TypeInv, TypeOK
<1>4. ASSUME NEW p \in Procs, Pin(p)
      PROVE  SourcesPinned'
  BY <1>4 DEF Pin
<1>5. ASSUME NEW p \in Procs, ResetPrune(p)
      PROVE  SourcesPinned'
  <2>1. \A s \in Slots : records[s] # NoRecord => records[s].src \in keep[p]
    BY <1>5 DEF KeepInv, ResetPrune
  <2>2. records' = records /\ blobs \intersect keep[p] \subseteq blobs'
    BY <1>5 DEF ResetPrune
  <2>3. QED
    BY <2>1, <2>2
<1>6. CASE UNCHANGED <<records, blobs>>
  BY <1>6
<1>7. QED
  <2>1. CASE \E p \in Procs : Step(p) \/ Crash(p)
    BY <2>1, <1>1, <1>2, <1>3, <1>4, <1>5, <1>6, StoreFrame
  <2>2. CASE ~\E p \in Procs : Step(p) \/ Crash(p)
    BY <2>2, <1>6 DEF Next, vars, store, Begin, Mine, ReclaimLock
  <2>3. QED
    BY <2>1, <2>2

\* With a store that stores sources, and resets kept apart from everything else, no
\* record ever names sources that are not there; neither the lock nor the absence of
\* crashes is needed (pipeline.ts:206-222, store.ts:240-248).
THEOREM SourcesNeverDangle ==
    ASSUME HasSources, ResetsAlone
    PROVE  Spec => []SourcesPinned
<1>1. Init => PinInv /\ KeepInv
  BY DEF Init, PinInv, KeepInv
<1>2. Init => SourcesPinned
  <2>1. \A s \in Slots : \A r \in Inherited[s] : r.src = NoSrc
    BY PipelineAssumption
  <2>2. QED
    BY <2>1 DEF Init, SourcesPinned
<1>3. CallInv /\ PinInv /\ KeepInv /\ SourcesPinned /\ [Next]_vars
        => PinInv' /\ KeepInv' /\ SourcesPinned'
  BY PinStep, KeepStep, SourcesStep
<1>4. QED
  BY <1>1, <1>2, <1>3, CallInvariant, PTL DEF Spec

-----------------------------------------------------------------------------
(* Recorded deployments exist.  What a call knows of its own transaction is *)
(* true of the chain, and the chain only forgets that one is pending.       *)
Minted(p, status) == /\ tx[p] \in DOMAIN chain
                     /\ chain[tx[p]].slot = job[p].slot /\ chain[tx[p]].id = job[p].id
                     /\ status => chain[tx[p]].status = "created"
TxInv == \A p \in Procs : /\ pc[p] = "receipt" => Minted(p, FALSE)
                          /\ pc[p] \in {"pin", "write"} => Minted(p, TRUE)

\* What getOrDeploy writes, and where.
LEMMA WriteTyped ==
    ASSUME TypeInv, NEW p \in Procs, Write(p)
    PROVE  /\ job[p].slot \in Slots
           /\ records' = [records EXCEPT ![job[p].slot] = records'[job[p].slot]]
           /\ records'[job[p].slot] \in Record
           /\ records'[job[p].slot].kind = "standard"
           /\ records'[job[p].slot].addr = tx[p]
           /\ records'[job[p].slot].id = job[p].id
<1> DEFINE r == NewRecord(job[p], existing[p], tx[p], pin[p])
<1>1. /\ job[p] \in Jobs /\ existing[p] \in Record \union {NoRecord}
      /\ tx[p] \in Nat /\ pin[p] \in Sources \union {NoSrc}
  BY DEF Write, TypeInv, TypeOK, Busy
<1>2. r \in Record /\ r.kind = "standard" /\ r.addr = tx[p] /\ r.id = job[p].id
  BY <1>1, NewRecordTyped
<1>3. job[p].slot \in Slots
  BY <1>1, JobFields
<1> HIDE DEF r
<1>4. records' = [records EXCEPT ![job[p].slot] = r]
  BY DEF Write, r
<1>5. records \in [Slots -> Record \union {NoRecord}]
  BY DEF TypeInv, TypeOK
<1>6. records'[job[p].slot] = r
  BY <1>3, <1>4, <1>5
<1>7. QED
  BY <1>2, <1>3, <1>4, <1>6

LEMMA RegWriteTyped ==
    ASSUME TypeInv, NEW p \in Procs, RegWrite(p)
    PROVE  /\ job[p].slot \in Slots
           /\ records' = [records EXCEPT ![job[p].slot] = records'[job[p].slot]]
           /\ records'[job[p].slot] # NoRecord
           /\ records'[job[p].slot].kind = "external"
<1> DEFINE r == Registered(job[p], existing[p])
<1>1. job[p] \in Jobs /\ existing[p] \in Record \union {NoRecord}
  BY DEF RegWrite, TypeInv, TypeOK, Busy
<1>2. r # NoRecord /\ r.kind = "external"
  BY <1>1, RegisteredTyped, PipelineAssumption
<1>3. job[p].slot \in Slots
  BY <1>1, JobFields
<1> HIDE DEF r
<1>4. records' = [records EXCEPT ![job[p].slot] = r]
  BY DEF RegWrite, r
<1>5. records \in [Slots -> Record \union {NoRecord}]
  BY DEF TypeInv, TypeOK
<1>6. records'[job[p].slot] = r
  BY <1>3, <1>4, <1>5
<1>7. QED
  BY <1>2, <1>3, <1>4, <1>6

\* A transaction keeps its slot and its identity, and once created stays created.
LEMMA ChainGrows ==
    ASSUME CallInv, [Next]_vars, NEW n \in DOMAIN chain
    PROVE  /\ n \in DOMAIN chain'
           /\ chain'[n].slot = chain[n].slot /\ chain'[n].id = chain[n].id
           /\ chain[n].status = "created" => chain'[n].status = "created"
<1>1. chain \in Seq(Tx)
  BY DEF CallInv, TypeInv, TypeOK
<1>2. CASE chain' = chain
  BY <1>2
<1>3. ASSUME NEW p \in Procs, Broadcast(p) \/ BroadcastLost(p)
      PROVE  /\ n \in DOMAIN chain'
             /\ chain'[n] = chain[n]
  BY <1>1, <1>3 DEF Broadcast, BroadcastLost, Accept
<1>4. ASSUME NEW m \in DOMAIN chain, Mine(m)
      PROVE  /\ n \in DOMAIN chain'
             /\ chain'[n].slot = chain[n].slot /\ chain'[n].id = chain[n].id
             /\ chain[n].status = "created" => chain'[n].status = "created"
  <2>1. chain[m] \in Tx /\ chain[m].status = "pending"
    BY <1>1, <1>4 DEF Mine
  <2>2. PICK st \in {"created", "reverted"} : chain' = [chain EXCEPT ![m].status = st]
    BY <1>4 DEF Mine
  <2>3. QED
    BY <1>1, <2>1, <2>2 DEF Tx
<1>5. (\E p \in Procs : Broadcast(p) \/ BroadcastLost(p)) \/ (\E m \in DOMAIN chain : Mine(m))
        \/ chain' = chain
  BY DEF Next, vars, Step, Crash, Begin, ReclaimLock, Lock, LockRefused, Read, Abort,
     BroadcastRejected, Receipt, ReceiptFails, Pin, Write, WriteFails, Hooks, Release,
     RegRead, DeploymentExists, RegWrite, ResetList, ResetRemove, ResetScan, ResetPrune,
     StoreFails
<1>6. QED
  BY <1>2, <1>3, <1>4, <1>5

LEMMA TxStep ==
    ASSUME ~RevertedHasAddress, CallInv, TxInv, [Next]_vars
    PROVE  TxInv'
<1> DEFINE Watching(p) == pc[p] \in {"receipt", "pin", "write"}
<1>1. ASSUME NEW q \in Procs, Watching(q), pc'[q] = pc[q], UNCHANGED <<job[q], tx[q]>>
      PROVE  /\ pc'[q] = "receipt" => Minted(q, FALSE)'
             /\ pc'[q] \in {"pin", "write"} => Minted(q, TRUE)'
  <2>1. tx[q] \in DOMAIN chain
    BY <1>1 DEF TxInv, Minted
  <2>2. QED
    BY <1>1, <2>1, ChainGrows DEF TxInv, Minted
<1>2. ASSUME NEW p \in Procs, NEW j \in Jobs, Begin(p, j)
      PROVE  TxInv'
  <2>1. ~Watching(p)' /\ tx' = tx
    BY <1>2, JobFields DEF Begin, Goto, Ops, CallInv, TypeInv, TypeOK
  <2>2. \A q \in Procs \ {p} : pc'[q] = pc[q] /\ job'[q] = job[q]
    BY <1>2 DEF Begin, Goto, CallInv, TypeInv, TypeOK
  <2>3. QED
    BY <1>1, <2>1, <2>2 DEF TxInv
<1>3. ASSUME NEW p \in Procs, Step(p) \/ Crash(p)
      PROVE  TxInv'
  <2>1. \A q \in Procs \ {p} : pc'[q] = pc[q] /\ job'[q] = job[q] /\ tx'[q] = tx[q]
    BY <1>3, StepFrame DEF CallInv
  <2>2. SUFFICES /\ pc'[p] = "receipt" => Minted(p, FALSE)'
                 /\ pc'[p] \in {"pin", "write"} => Minted(p, TRUE)'
    BY <1>1, <2>1 DEF TxInv
  <2>3. CASE Broadcast(p)
    <3>1. /\ tx'[p] = Len(chain') /\ job' = job /\ pc'[p] = "receipt"
          /\ chain' = Append(chain, [slot |-> job[p].slot, id |-> job[p].id,
                                     status |-> "pending"])
      BY <2>3 DEF Broadcast, Accept, Goto, CallInv, TypeInv, TypeOK
    <3>2. chain \in Seq(Tx)
      BY DEF CallInv, TypeInv, TypeOK
    <3>3. Minted(p, FALSE)'
      BY <3>1, <3>2 DEF Minted
    <3>4. QED
      BY <3>1, <3>3
  <2>4. CASE Receipt(p) \/ Pin(p)
    <3>1. /\ pc'[p] \in {"pin", "write"} /\ job' = job /\ tx' = tx /\ chain' = chain
          /\ pc[p] \in {"receipt", "pin"}
      BY <2>4 DEF Receipt, Pin, Goto, locals, CallInv, TypeInv, TypeOK
    <3>2. Minted(p, TRUE)
      BY <2>4 DEF Receipt, Pin, HasAddress, TxInv, Minted
    <3>3. QED
      BY <3>1, <3>2 DEF Minted
  <2>5. CASE ~(Broadcast(p) \/ Receipt(p) \/ Pin(p))
    <3>1. ~Watching(p)'
      BY <1>3, <2>5 DEF Step, Lock, LockRefused, Read, Abort, BroadcastLost,
         BroadcastRejected, ReceiptFails, Write, WriteFails, Hooks, Release, RegRead,
         DeploymentExists, RegWrite, ResetList, ResetRemove, ResetScan, ResetPrune,
         StoreFails, Crash, Settle, Goto, CallInv, TypeInv, TypeOK
    <3>2. QED
      BY <3>1
  <2>6. QED
    BY <2>3, <2>4, <2>5
<1>4. CASE UNCHANGED <<pc, job, tx>>
  BY <1>1, <1>4 DEF TxInv
<1>5. QED
  BY <1>2, <1>3, <1>4 DEF Next, vars, locals, Mine, ReclaimLock

\* The record of a slot, as it is written, with its creation on the chain.
Created(s) == LET n == records[s].addr
              IN n \in DOMAIN chain /\ chain[n] = [slot |-> s, id |-> records[s].id,
                                                   status |-> "created"]

LEMMA CreatedStep ==
    ASSUME CallInv, TxInv, RecordedIsCreated, [Next]_vars
    PROVE  RecordedIsCreated'
<1>a. \A n \in DOMAIN chain : chain[n] \in Tx
  BY DEF CallInv, TypeInv, TypeOK
<1>b. \A n \in DOMAIN chain' : chain'[n] \in Tx
  <2>1. chain' \in Seq(Tx)
    BY TypeStep DEF CallInv, TypeInv, TypeOK
  <2>2. QED
    BY <2>1
<1>1. ASSUME NEW s \in Slots, records'[s] = records[s],
             Kind(records'[s]) = "standard", records'[s] \notin Inherited[s]
      PROVE  Created(s)'
  <2>1. Created(s)
    BY <1>1 DEF RecordedIsCreated, Created
  <2>2. /\ records'[s].addr \in DOMAIN chain
        /\ chain[records'[s].addr] = [slot |-> s, id |-> records'[s].id,
                                      status |-> "created"]
    BY <1>1, <2>1 DEF Created
  <2>3. QED
    BY <1>b, <2>2, ChainGrows DEF Created, Tx
<1>2. ASSUME NEW p \in Procs, Write(p)
      PROVE  RecordedIsCreated'
  <2>0. PICK s \in Slots : s = job[p].slot
    BY <1>2, WriteTyped DEF CallInv
  <2>1. Minted(p, TRUE) /\ chain' = chain
    BY <1>2 DEF Write, TxInv
  <2>2. /\ records' = [records EXCEPT ![s] = records'[s]]
        /\ records'[s].addr = tx[p] /\ records'[s].id = job[p].id
    BY <1>2, <2>0, WriteTyped DEF CallInv
  <2>a. /\ tx[p] \in DOMAIN chain /\ chain[tx[p]].slot = s
        /\ chain[tx[p]].id = job[p].id /\ chain[tx[p]].status = "created"
    BY <2>0, <2>1 DEF Minted
  <2>b. chain[tx[p]] = [slot |-> s, id |-> job[p].id, status |-> "created"]
    BY <1>a, <2>a DEF Tx
  <2>3. Created(s)'
    BY <2>1, <2>2, <2>a, <2>b DEF Created
  <2>4. \A t \in Slots \ {s} : records'[t] = records[t]
    <3>1. records \in [Slots -> Record \union {NoRecord}]
      BY DEF CallInv, TypeInv, TypeOK
    <3>2. QED
      BY <2>2, <3>1
  <2>5. QED
    BY <1>1, <2>3, <2>4 DEF RecordedIsCreated, Created
<1>3. ASSUME NEW p \in Procs, RegWrite(p)
      PROVE  RecordedIsCreated'
  <2>1. /\ records' = [records EXCEPT ![job[p].slot] = records'[job[p].slot]]
        /\ Kind(records'[job[p].slot]) # "standard"
    BY <1>3, RegWriteTyped DEF CallInv, Kind
  <2>2. \A t \in Slots \ {job[p].slot} : records'[t] = records[t]
    BY <2>1 DEF CallInv, TypeInv, TypeOK
  <2>3. QED
    BY <1>1, <2>1, <2>2 DEF RecordedIsCreated, Created
<1>4. ASSUME NEW p \in Procs, ResetRemove(p)
      PROVE  RecordedIsCreated'
  <2>1. PICK t \in todo[p] : records' = [records EXCEPT ![t] = NoRecord]
    BY <1>4 DEF ResetRemove
  <2>2. \A s \in Slots : records'[s] = records[s] \/ Kind(records'[s]) # "standard"
    BY <2>1 DEF Kind, CallInv, TypeInv, TypeOK
  <2>3. QED
    BY <1>1, <2>2 DEF RecordedIsCreated, Created
<1>5. CASE records' = records
  BY <1>1, <1>5 DEF RecordedIsCreated, Created
<1>6. QED
  <2>1. CASE \E p \in Procs : Step(p) \/ Crash(p)
    BY <2>1, <1>2, <1>3, <1>4, <1>5, StoreFrame
  <2>2. CASE ~\E p \in Procs : Step(p) \/ Crash(p)
    BY <2>2, <1>5 DEF Next, vars, store, Begin, Mine, ReclaimLock
  <2>3. QED
    BY <2>1, <2>2

\* On a chain whose reverted creations carry no address, every deployment in the store
\* is a contract that was created for that very slot and identity.  This needs neither
\* the lock nor any restraint of register and reset (pipeline.ts:187-196, 262).
THEOREM RecordedDeploymentsExist ==
    ASSUME ~RevertedHasAddress
    PROVE  Spec => []RecordedIsCreated
<1>1. Init => TxInv
  BY DEF Init, TxInv
<1>2. Init => RecordedIsCreated
  BY DEF Init, RecordedIsCreated, Kind
<1>3. CallInv /\ TxInv /\ RecordedIsCreated /\ [Next]_vars
        => TxInv' /\ RecordedIsCreated'
  BY TxStep, CreatedStep
<1>4. QED
  BY <1>1, <1>2, <1>3, CallInvariant, PTL DEF Spec

-----------------------------------------------------------------------------
(* register and getOrDeploy keep off each other's records.                  *)

\* What a register call is about to overwrite is still what it checked.
RegInv == \A p \in Procs :
    pc[p] = "regWrite" => /\ records[job[p].slot] = existing[p]
                          /\ Kind(existing[p]) # "standard"

\* A getOrDeploy call that goes on to deploy has not read an external record.
DeployInv == \A p \in Procs :
    pc[p] \in {"deploy", "receipt", "pin", "write"} => Kind(existing[p]) # "external"

LEMMA RegStep ==
    ASSUME "register" \in Alone, CallInv, RegInv, [Next]_vars
    PROVE  RegInv'
<1> USE DEF RegInv
<1>1. ASSUME NEW p \in Procs, NEW j \in Jobs, Begin(p, j)
      PROVE  RegInv'
  <2>1. UNCHANGED <<records, existing>> /\ pc'[p] # "regWrite"
    BY <1>1, JobFields DEF Begin, Goto, store, Ops, CallInv, TypeInv, TypeOK
  <2>2. \A q \in Procs \ {p} : pc'[q] = pc[q] /\ job'[q] = job[q]
    BY <1>1 DEF Begin, Goto, CallInv, TypeInv, TypeOK
  <2>3. QED
    BY <2>1, <2>2
<1>2. ASSUME NEW p \in Procs, Step(p) \/ Crash(p)
      PROVE  RegInv'
  <2>1. ASSUME NEW q \in Procs \ {p}
        PROVE  pc'[q] # "regWrite"
    <3>1. pc[p] # "idle" /\ pc'[q] = pc[q]
      BY <1>2, StepFrame DEF CallInv
    <3>2. pc[q] = "regWrite" => job[q].op \in Alone
      BY DEF CallInv, Labels, RegPC
    <3>3. QED
      BY <3>1, <3>2 DEF CallInv, Solitude
  <2>2. CASE RegRead(p)
    <3>1. /\ Kind(records[job[p].slot]) # "standard"
          /\ existing'[p] = records[job[p].slot]
          /\ UNCHANGED <<records, job>>
      BY <2>2 DEF RegRead, store, CallInv, TypeInv, TypeOK
    <3>2. QED
      BY <2>1, <3>1 DEF Kind
  <2>3. CASE ~RegRead(p)
    <3>1. pc'[p] # "regWrite"
      BY <1>2, <2>3 DEF Step, Lock, LockRefused, Read, Abort, Broadcast, BroadcastLost,
         BroadcastRejected, Receipt, ReceiptFails, Pin, Write, WriteFails, Hooks, Release,
         DeploymentExists, RegWrite, ResetList, ResetRemove, ResetScan, ResetPrune,
         StoreFails, Crash, Settle, Goto, CallInv, TypeInv, TypeOK
    <3>2. QED
      BY <2>1, <3>1
  <2>4. QED
    BY <2>2, <2>3
<1>3. CASE UNCHANGED <<records, pc, job, existing>>
  BY <1>3
<1>4. QED
  BY <1>1, <1>2, <1>3 DEF Next, vars, store, locals, Mine, ReclaimLock

LEMMA DeployStep ==
    ASSUME CallInv, DeployInv, [Next]_vars
    PROVE  DeployInv'
<1> USE DEF DeployInv
<1>1. ASSUME NEW p \in Procs, NEW j \in Jobs, Begin(p, j)
      PROVE  DeployInv'
  <2>1. existing' = existing /\ pc'[p] \notin {"deploy", "receipt", "pin", "write"}
    BY <1>1, JobFields DEF Begin, Goto, Ops, CallInv, TypeInv, TypeOK
  <2>2. \A q \in Procs \ {p} : pc'[q] = pc[q]
    BY <1>1 DEF Begin, Goto, CallInv, TypeInv, TypeOK
  <2>3. QED
    BY <2>1, <2>2 DEF Kind
<1>2. ASSUME NEW p \in Procs, Step(p) \/ Crash(p)
      PROVE  DeployInv'
  <2>1. \A q \in Procs \ {p} : pc'[q] = pc[q] /\ existing'[q] = existing[q]
    BY <1>2, StepFrame DEF CallInv
  <2>2. SUFFICES pc'[p] \in {"deploy", "receipt", "pin", "write"}
                   => Kind(existing'[p]) # "external"
    BY <2>1 DEF Kind
  <2>3. CASE Read(p)
    <3>1. existing'[p] = records[job[p].slot]
      BY <2>3 DEF Read, CallInv, TypeInv, TypeOK
    <3>2. Kind(records[job[p].slot]) = "external" => Reuse(job[p], records[job[p].slot])
      BY DEF Kind, Reuse
    <3>3. pc'[p] = "deploy" => ~Reuse(job[p], records[job[p].slot])
      BY <2>3 DEF Read, Goto, CallInv, TypeInv, TypeOK
    <3>4. pc'[p] \notin {"receipt", "pin", "write"}
      BY <2>3 DEF Read, Goto, CallInv, TypeInv, TypeOK
    <3>5. QED
      BY <3>1, <3>2, <3>3, <3>4
  <2>4. CASE Broadcast(p) \/ Receipt(p) \/ Pin(p)
    <3>1. existing' = existing /\ pc[p] \in {"deploy", "receipt", "pin"}
      BY <2>4 DEF Broadcast, Receipt, Pin, locals
    <3>2. QED
      BY <3>1
  <2>5. CASE ~(Read(p) \/ Broadcast(p) \/ Receipt(p) \/ Pin(p))
    <3>1. pc'[p] \notin {"deploy", "receipt", "pin", "write"}
      BY <1>2, <2>5 DEF Step, Lock, LockRefused, Abort, BroadcastLost,
         BroadcastRejected, ReceiptFails, Write, WriteFails, Hooks, Release, RegRead,
         DeploymentExists, RegWrite, ResetList, ResetRemove, ResetScan, ResetPrune,
         StoreFails, Crash, Settle, Goto, CallInv, TypeInv, TypeOK
    <3>2. QED
      BY <3>1
  <2>6. QED
    BY <2>3, <2>4, <2>5
<1>3. CASE UNCHANGED <<pc, existing>>
  BY <1>3 DEF Kind
<1>4. QED
  BY <1>1, <1>2, <1>3 DEF Next, vars, locals, Mine, ReclaimLock

\* Where a slot's record changes kind, and how.
LEMMA KindChange ==
    ASSUME CallInv, [Next]_vars, NEW s \in Slots, records'[s] # records[s]
    PROVE  \/ \E p \in Procs : Write(p) /\ s = job[p].slot /\ Kind(records'[s]) = "standard"
           \/ \E p \in Procs : RegWrite(p) /\ s = job[p].slot /\ Kind(records'[s]) = "external"
           \/ Kind(records'[s]) = "none"
<1>a. records \in [Slots -> Record \union {NoRecord}]
  BY DEF CallInv, TypeInv, TypeOK
<1>1. ASSUME NEW p \in Procs, Write(p)
      PROVE  s = job[p].slot /\ Kind(records'[s]) = "standard"
  <2>1. /\ records' = [records EXCEPT ![job[p].slot] = records'[job[p].slot]]
        /\ records'[job[p].slot] \in Record
        /\ records'[job[p].slot].kind = "standard"
    BY <1>1, WriteTyped DEF CallInv
  <2>2. s = job[p].slot
    BY <1>a, <2>1
  <2>3. QED
    BY <2>1, <2>2, PipelineAssumption DEF Kind
<1>2. ASSUME NEW p \in Procs, RegWrite(p)
      PROVE  s = job[p].slot /\ Kind(records'[s]) = "external"
  <2>1. /\ records' = [records EXCEPT ![job[p].slot] = records'[job[p].slot]]
        /\ records'[job[p].slot] # NoRecord
        /\ records'[job[p].slot].kind = "external"
    BY <1>2, RegWriteTyped DEF CallInv
  <2>2. s = job[p].slot
    BY <1>a, <2>1
  <2>3. QED
    BY <2>1, <2>2 DEF Kind
<1>3. ASSUME NEW p \in Procs, ResetRemove(p)
      PROVE  Kind(records'[s]) = "none"
  <2>1. PICK t \in todo[p] : records' = [records EXCEPT ![t] = NoRecord]
    BY <1>3 DEF ResetRemove
  <2>2. QED
    BY <1>a, <2>1 DEF Kind
<1>4. (\E p \in Procs : Write(p) \/ RegWrite(p) \/ ResetRemove(p)) \/ records' = records
  <2>1. CASE \E p \in Procs : Step(p) \/ Crash(p)
    BY <2>1, StoreFrame
  <2>2. CASE ~\E p \in Procs : Step(p) \/ Crash(p)
    BY <2>2 DEF Next, vars, store, Begin, Mine, ReclaimLock
  <2>3. QED
    BY <2>1, <2>2
<1>5. QED
  BY <1>1, <1>2, <1>3, <1>4

\* If register runs alone, it never replaces a deployment, with or without a lock
\* (pipeline.ts:306-321).
THEOREM RegisterNeverClobbers ==
    ASSUME "register" \in Alone
    PROVE  Spec => DeployedNeverClobbered
<1>1. Init => RegInv
  BY DEF Init, RegInv
<1>2. CallInv /\ RegInv /\ [Next]_vars => RegInv'
  BY RegStep
<1>3. CallInv /\ RegInv /\ [Next]_vars
        => [\A s \in Slots : ~(Kind(records[s]) = "standard"
                               /\ Kind(records'[s]) = "external")]_vars
  <2> SUFFICES ASSUME CallInv, RegInv, [Next]_vars, NEW s \in Slots,
                      Kind(records[s]) = "standard", Kind(records'[s]) = "external"
               PROVE  FALSE
    OBVIOUS
  <2>1. records'[s] # records[s]
    BY DEF Kind
  <2>2. PICK p \in Procs : RegWrite(p) /\ s = job[p].slot
    BY <2>1, KindChange
  <2>3. Kind(records[s]) # "standard"
    BY <2>2 DEF RegWrite, RegInv, Kind
  <2>4. QED
    BY <2>3
<1>4. QED
  BY <1>1, <1>2, <1>3, CallInvariant, PTL DEF Spec, DeployedNeverClobbered

\* With the lock, and register and reset run alone, getOrDeploy never deploys over a
\* registered address (pipeline.ts:143-148).
THEOREM DeployNeverReplacesExternal ==
    ASSUME HasLock, NothingBeside
    PROVE  Spec => ExternalNeverReplaced
<1>1. Init => DeployInv
  BY DEF Init, DeployInv
<1>2. CallInv /\ DeployInv /\ [Next]_vars => DeployInv'
  BY DeployStep
<1>3. CallInv /\ DeployInv /\ CallSeesCurrentRecord /\ [Next]_vars
        => [\A s \in Slots : ~(Kind(records[s]) = "external"
                               /\ Kind(records'[s]) = "standard")]_vars
  <2> SUFFICES ASSUME CallInv, DeployInv, CallSeesCurrentRecord, [Next]_vars,
                      NEW s \in Slots,
                      Kind(records[s]) = "external", Kind(records'[s]) = "standard"
               PROVE  FALSE
    OBVIOUS
  <2>1. records'[s] # records[s]
    BY DEF Kind
  <2>2. PICK p \in Procs : Write(p) /\ s = job[p].slot
    BY <2>1, KindChange
  <2>3. records[s] = existing[p]
    BY <2>2 DEF Write, CallSeesCurrentRecord, Deciding
  <2>4. Kind(records[s]) # "external"
    BY <2>2, <2>3 DEF Write, DeployInv, Kind
  <2>5. QED
    BY <2>4
<1>4. Spec => []CallSeesCurrentRecord
  BY ReadDeployWriteAtomic
<1>5. QED
  BY <1>1, <1>2, <1>3, <1>4, CallInvariant, PTL DEF Spec, ExternalNeverReplaced

-----------------------------------------------------------------------------
(* Histories.  What a call will write is built on what it read, so the      *)
(* history of a record explains its address if the one it was built on did; *)
(* who holds the lock does not matter for that.                             *)
Deploying == {"deploy", "receipt", "pin", "write"}
Origins(s) == {Origin(old) : old \in Inherited[s]}

\* A record of s as the store may hold it.
Sound(s, r) == /\ r \in Inherited[s] \union {NoRecord} \/ Explains(s, r)
               /\ r # NoRecord /\ r.kind = "external" => r.id = NoId

HistoryInv ==
    /\ \A s \in Slots : Sound(s, records[s])
    /\ \A p \in Procs : pc[p] \in Deploying \union {"regWrite"}
                          => Sound(job[p].slot, existing[p])
    /\ \A p \in Procs : pc[p] \in Deploying => ~Reuse(job[p], existing[p])
    /\ \A p \in Procs : pc[p] = "regWrite" => Kind(existing[p]) # "standard"

\* Whether inherited or not, a record with a history is explained by it.
LEMMA LoggedExplains ==
    ASSUME NEW s \in Slots, NEW r, Sound(s, r), r # NoRecord, r.history # <<>>
    PROVE  Explains(s, r)
BY InheritedAssumption DEF Sound

\* One without is inherited, and its address is an origin.
LEMMA UnloggedInherited ==
    ASSUME NEW s \in Slots, NEW r, Sound(s, r), r # NoRecord, r.history = <<>>
    PROVE  r \in Inherited[s] /\ r.addr \in Origins(s)
BY DEF Sound, Explains, Origins, Origin

\* A history that names its predecessor in its new entry, and gives a reason that fits,
\* is explained again.
LEMMA ExplainsAppend ==
    ASSUME NEW s \in Slots, NEW h \in Seq(Entry), NEW e \in Entry, NEW new,
           new.history = Append(h, e), new.addr = e.addr, new.id = e.id,
           h = <<>> => /\ e.superseded \in {NoAddr} \union Origins(s)
                       /\ e.reason = "fresh" => e.superseded = NoAddr,
           h # <<>> => /\ \E r : r.history = h /\ Explains(s, r)
                       /\ e.superseded = h[Len(h)].addr /\ e.reason # "fresh"
                       /\ e.reason = "changed" => e.id # h[Len(h)].id
    PROVE  Explains(s, new)
<1> DEFINE g == Append(h, e)
<1>1. /\ g \in Seq(Entry) /\ g # <<>> /\ Len(g) = Len(h) + 1 /\ Len(h) \in Nat
      /\ DOMAIN g = 1..(Len(h) + 1) /\ DOMAIN h = 1..Len(h)
      /\ g[Len(g)] = e /\ \A i \in 1..Len(h) : g[i] = h[i]
  OBVIOUS
<1> HIDE DEF g
<1>2. CASE h = <<>>
  <2>1. Len(h) = 0 /\ g[1] = e /\ DOMAIN g = {1}
    BY <1>1, <1>2
  <2>2. QED
    BY <1>1, <1>2, <2>1 DEF Explains, Origins, g
<1>3. CASE h # <<>>
  <2>1. Len(h) >= 1
    BY <1>3, <1>1
  <2>2. PICK r : r.history = h /\ Explains(s, r)
    BY <1>3
  <2>3. /\ g[1] = h[1]
        /\ h[1].superseded \in {NoAddr} \union Origins(s)
        /\ h[1].reason = "fresh" => h[1].superseded = NoAddr
    BY <1>1, <2>1, <2>2 DEF Explains, Origins
  <2>4. ASSUME NEW i \in DOMAIN g \ {1}
        PROVE  /\ g[i].superseded = g[i - 1].addr
               /\ g[i].reason # "fresh"
               /\ g[i].reason = "changed" => g[i].id # g[i - 1].id
    <3>1. CASE i \in 1..Len(h)
      <4>1. g[i] = h[i] /\ g[i - 1] = h[i - 1] /\ i \in DOMAIN h \ {1}
        BY <1>1, <3>1, <2>4
      <4>2. QED
        BY <4>1, <2>2 DEF Explains
    <3>2. CASE i = Len(h) + 1
      <4>1. g[i] = e /\ g[i - 1] = h[Len(h)]
        BY <1>1, <3>2, <2>1
      <4>2. QED
        BY <4>1, <1>3
    <3>3. QED
      BY <1>1, <2>4, <3>1, <3>2
  <2>5. QED
    BY <1>1, <2>3, <2>4 DEF Explains, Origins, g
<1>4. QED
  BY <1>2, <1>3

\* The record a deployment writes is as sound as the one it was decided on.
LEMMA NewRecordSound ==
    ASSUME NEW s \in Slots, NEW j \in Jobs, NEW r \in Record \union {NoRecord},
           NEW n \in Nat, NEW src \in Sources \union {NoSrc}, Sound(s, r), ~Reuse(j, r)
    PROVE  Explains(s, NewRecord(j, r, n, src))
<1> DEFINE e == [addr |-> n, id |-> j.id, reason |-> Reason(j, r),
                 superseded |-> IF r = NoRecord THEN NoAddr ELSE r.addr]
           new == NewRecord(j, r, n, src)
           h == History(r)
<1>1. /\ new.history = Append(h, e) /\ new.addr = n /\ new.id = j.id
      /\ e.addr = n /\ e.id = j.id
  BY DEF NewRecord
<1>2. e \in Entry
  <2>1. (IF r = NoRecord THEN NoAddr ELSE r.addr) \in Address
    BY RecordFields DEF Address
  <2>2. Reason(j, r) \in {"fresh", "forced", "changed", "registered"}
    BY DEF Reason
  <2>3. n \in Address /\ j.id \in Ids \union {NoId}
    BY JobFields DEF Address
  <2>4. QED
    BY <2>1, <2>2, <2>3 DEF Entry
<1>3. h \in Seq(Entry)
  BY HistoryTyped
<1>4. h = <<>> => /\ e.superseded \in {NoAddr} \union Origins(s)
                  /\ e.reason = "fresh" => e.superseded = NoAddr
  <2>1. CASE r = NoRecord
    BY <2>1
  <2>2. CASE r # NoRecord /\ h = <<>>
    BY <2>2, UnloggedInherited DEF History, Reason
  <2>3. QED
    BY <2>1, <2>2
<1>5. h # <<>> => /\ \E old : old.history = h /\ Explains(s, old)
                  /\ e.superseded = h[Len(h)].addr /\ e.reason # "fresh"
                  /\ e.reason = "changed" => e.id # h[Len(h)].id
  <2> SUFFICES ASSUME h # <<>>
               PROVE  /\ \E old : old.history = h /\ Explains(s, old)
                      /\ e.superseded = h[Len(h)].addr /\ e.reason # "fresh"
                      /\ e.reason = "changed" => e.id # h[Len(h)].id
    OBVIOUS
  <2>1. r # NoRecord /\ h = r.history
    BY DEF History
  <2>2. Explains(s, r) /\ h[Len(h)].addr = r.addr /\ h[Len(h)].id = r.id
    BY <2>1, LoggedExplains DEF Explains
  <2>3. e.reason # "fresh" /\ (e.reason = "changed" => j.strategy # "always")
    BY <2>1 DEF Reason
  <2>4. j.strategy # "always" => r.id # j.id
    BY <2>1, JobFields DEF Reuse, Strategies
  <2>5. QED
    BY <1>1, <2>1, <2>2, <2>3, <2>4
<1> HIDE DEF e, new, h
<1>6. QED
  BY <1>1, <1>2, <1>3, <1>4, <1>5, ExplainsAppend DEF new

\* So is the record a registration writes over one that is not a deployment's.
LEMMA RegisteredSound ==
    ASSUME NEW s \in Slots, NEW j \in Jobs, NEW r \in Record \union {NoRecord},
           Sound(s, r), Kind(r) # "standard"
    PROVE  Explains(s, Registered(j, r)) /\ Registered(j, r).id = NoId
<1> DEFINE h == History(r)
           e == [addr |-> j.addr, id |-> NoId, reason |-> "registered",
                 superseded |-> IF r = NoRecord \/ r.addr = j.addr THEN NoAddr
                                ELSE r.addr]
           alreadyLogged == h # <<>> /\ h[Len(h)].addr = j.addr
           new == Registered(j, r)
<1>1. /\ new.addr = j.addr /\ new.id = NoId
      /\ new.history = IF alreadyLogged THEN h ELSE Append(h, e)
      /\ e.addr = j.addr /\ e.id = NoId /\ e.reason = "registered"
  BY DEF Registered
<1>2. e \in Entry
  <2>1. (IF r = NoRecord \/ r.addr = j.addr THEN NoAddr ELSE r.addr) \in Address
    BY RecordFields DEF Address
  <2>2. j.addr \in Address
    BY JobFields DEF Address
  <2>3. QED
    BY <2>1, <2>2 DEF Entry
<1>3. h \in Seq(Entry)
  BY HistoryTyped
<1>4. h # <<>> => /\ r # NoRecord /\ h = r.history /\ Explains(s, r)
                  /\ h[Len(h)].addr = r.addr /\ h[Len(h)].id = NoId
  <2> SUFFICES ASSUME h # <<>>
               PROVE  /\ r # NoRecord /\ h = r.history /\ Explains(s, r)
                      /\ h[Len(h)].addr = r.addr /\ h[Len(h)].id = NoId
    OBVIOUS
  <2>1. r # NoRecord /\ h = r.history
    BY DEF History
  <2>2. Explains(s, r) /\ h[Len(h)].addr = r.addr /\ h[Len(h)].id = r.id
    BY <2>1, LoggedExplains DEF Explains
  <2>3. r.id = NoId
    BY <2>1, RecordFields DEF Sound, Kind
  <2>4. QED
    BY <2>1, <2>2, <2>3
<1>5. CASE alreadyLogged
  <2>1. new.history = h
    BY <1>1, <1>5
  <2>2. QED
    BY <1>1, <1>4, <1>5, <2>1 DEF Explains
<1>6. CASE ~alreadyLogged
  <2>1. new.history = Append(h, e)
    BY <1>1, <1>6
  <2>2. h = <<>> => e.superseded \in {NoAddr} \union Origins(s)
    BY UnloggedInherited DEF History
  <2>3. h # <<>> => e.superseded = h[Len(h)].addr
    BY <1>4, <1>6
  <2> HIDE DEF e, new, h
  <2>4. h # <<>> => \E old : old.history = h /\ Explains(s, old)
    BY <1>4
  <2>5. Explains(s, new)
    BY <1>1, <1>2, <1>3, <2>1, <2>2, <2>3, <2>4, ExplainsAppend
  <2>6. QED
    BY <1>1, <2>5 DEF new
<1>7. QED
  BY <1>5, <1>6

LEMMA HistoryStep ==
    ASSUME CallInv, HistoryInv, [Next]_vars
    PROVE  HistoryInv'
<1> DEFINE Reading(p) == pc[p] \in Deploying \union {"regWrite"}
<1>a. /\ records \in [Slots -> Record \union {NoRecord}]
      /\ \A p \in Procs : pc[p] # "idle" => job[p] \in Jobs /\ job[p].slot \in Slots
  BY JobFields DEF CallInv, TypeInv, TypeOK, Busy
<1>1. ASSUME NEW s \in Slots
      PROVE  Sound(s, records'[s])
  <2>1. ASSUME NEW p \in Procs, Write(p)
        PROVE  Sound(s, records'[s])
    <3> DEFINE new == NewRecord(job[p], existing[p], tx[p], pin[p])
    <3>1. /\ job[p] \in Jobs /\ existing[p] \in Record \union {NoRecord}
          /\ tx[p] \in Nat /\ pin[p] \in Sources \union {NoSrc}
          /\ Sound(job[p].slot, existing[p]) /\ ~Reuse(job[p], existing[p])
      BY <2>1 DEF Write, HistoryInv, Deploying, CallInv, TypeInv, TypeOK, Busy
    <3>2. Explains(job[p].slot, new) /\ new.kind = "standard"
      BY <3>1, NewRecordSound, NewRecordTyped, JobFields
    <3> HIDE DEF new
    <3>3. records' = [records EXCEPT ![job[p].slot] = new]
      BY <2>1 DEF Write, new
    <3>4. CASE s = job[p].slot
      BY <1>a, <3>2, <3>3, <3>4 DEF Sound
    <3>5. CASE s # job[p].slot
      BY <1>a, <3>3, <3>5 DEF HistoryInv
    <3>6. QED
      BY <3>4, <3>5
  <2>2. ASSUME NEW p \in Procs, RegWrite(p)
        PROVE  Sound(s, records'[s])
    <3> DEFINE new == Registered(job[p], existing[p])
    <3>1. /\ job[p] \in Jobs /\ existing[p] \in Record \union {NoRecord}
          /\ Sound(job[p].slot, existing[p]) /\ Kind(existing[p]) # "standard"
      BY <2>2 DEF RegWrite, HistoryInv, CallInv, TypeInv, TypeOK, Busy
    <3>2. Explains(job[p].slot, new) /\ new.id = NoId
      BY <3>1, RegisteredSound, JobFields
    <3> HIDE DEF new
    <3>3. records' = [records EXCEPT ![job[p].slot] = new]
      BY <2>2 DEF RegWrite, new
    <3>4. CASE s = job[p].slot
      BY <1>a, <3>2, <3>3, <3>4 DEF Sound
    <3>5. CASE s # job[p].slot
      BY <1>a, <3>3, <3>5 DEF HistoryInv
    <3>6. QED
      BY <3>4, <3>5
  <2>3. ASSUME NEW p \in Procs, ResetRemove(p)
        PROVE  Sound(s, records'[s])
    <3>1. PICK t \in todo[p] : records' = [records EXCEPT ![t] = NoRecord]
      BY <2>3 DEF ResetRemove
    <3>2. records'[s] = records[s] \/ records'[s] = NoRecord
      BY <1>a, <3>1
    <3>3. QED
      BY <3>2 DEF HistoryInv, Sound
  <2>4. CASE records' = records
    BY <2>4 DEF HistoryInv
  <2>5. CASE \E p \in Procs : Step(p) \/ Crash(p)
    BY <2>1, <2>2, <2>3, <2>4, <2>5, StoreFrame
  <2>6. CASE ~\E p \in Procs : Step(p) \/ Crash(p)
    BY <2>4, <2>6 DEF Next, vars, store, Begin, Mine, ReclaimLock
  <2>7. QED
    BY <2>5, <2>6
<1>2. ASSUME NEW p \in Procs
      PROVE  /\ Reading(p)' => Sound(job'[p].slot, existing'[p])
             /\ pc'[p] \in Deploying => ~Reuse(job'[p], existing'[p])
             /\ pc'[p] = "regWrite" => Kind(existing'[p]) # "standard"
  <2>1. CASE UNCHANGED <<pc[p], job[p], existing[p]>>
    BY <2>1 DEF HistoryInv
  <2>2. CASE Read(p)
    <3>1. /\ existing'[p] = records[job[p].slot] /\ job' = job
          /\ pc'[p] \in Deploying => ~Reuse(job[p], records[job[p].slot])
          /\ pc'[p] # "regWrite" /\ job[p].slot \in Slots
      BY <1>a, <2>2 DEF Read, Goto, Deploying, CallInv, TypeInv, TypeOK
    <3>2. QED
      BY <3>1 DEF HistoryInv
  <2>3. CASE RegRead(p)
    <3>1. /\ existing'[p] = records[job[p].slot] /\ job' = job
          /\ pc'[p] \notin Deploying /\ Kind(records[job[p].slot]) # "standard"
          /\ job[p].slot \in Slots
      BY <1>a, <2>3 DEF RegRead, Goto, Deploying, CallInv, TypeInv, TypeOK
    <3>2. QED
      BY <3>1 DEF HistoryInv
  <2>4. CASE Broadcast(p) \/ Receipt(p) \/ Pin(p)
    <3>1. /\ pc[p] \in Deploying /\ pc'[p] # "regWrite" /\ job' = job
          /\ existing' = existing
      BY <2>4 DEF Broadcast, Receipt, Pin, Goto, locals, Deploying, CallInv, TypeInv, TypeOK
    <3>2. QED
      BY <3>1 DEF HistoryInv
  <2>5. CASE (Step(p) \/ Crash(p)) /\ ~(Read(p) \/ RegRead(p) \/ Broadcast(p)
                                        \/ Receipt(p) \/ Pin(p))
    <3>1. ~Reading(p)'
      BY <2>5 DEF Step, Lock, LockRefused, Abort, BroadcastLost, BroadcastRejected,
         ReceiptFails, Write, WriteFails, Hooks, Release, DeploymentExists, RegWrite,
         ResetList, ResetRemove, ResetScan, ResetPrune, StoreFails, Crash, Settle, Goto,
         Deploying, CallInv, TypeInv, TypeOK
    <3>2. QED
      BY <3>1
  <2>6. ASSUME NEW j \in Jobs, Begin(p, j)
        PROVE  ~Reading(p)'
    BY <2>6, JobFields DEF Begin, Goto, Ops, Deploying, CallInv, TypeInv, TypeOK
  <2>7. ASSUME NEW q \in Procs \ {p}, Step(q) \/ Crash(q) \/ \E j \in Jobs : Begin(q, j)
        PROVE  UNCHANGED <<pc[p], job[p], existing[p]>>
    BY <2>7, StepFrame DEF Begin, Goto, CallInv, TypeInv, TypeOK
  <2>8. CASE UNCHANGED <<pc, job, existing>>
    BY <2>1, <2>8
  <2>9. QED
    BY <2>1, <2>2, <2>3, <2>4, <2>5, <2>6, <2>7, <2>8
    DEF Next, vars, locals, Mine, ReclaimLock
<1>3. QED
  BY <1>1, <1>2 DEF HistoryInv

\* Every record a call ever writes carries a history that leads to its address: without
\* a lock, whatever interleaves and whatever fails, provided that the records from
\* before are deployoor's own (pipeline.ts:143-181, 224-259).
THEOREM HistoriesExplain == Spec => []HistoryExplains
<1>1. Init => HistoryInv
  <2> SUFFICES ASSUME Init PROVE HistoryInv
    OBVIOUS
  <2>1. \A s \in Slots : Sound(s, records[s])
    BY InheritedAssumption DEF Init, Sound
  <2>2. QED
    BY <2>1 DEF Init, HistoryInv, Deploying
<1>2. CallInv /\ HistoryInv /\ [Next]_vars => HistoryInv'
  BY HistoryStep
<1>3. HistoryInv => HistoryExplains
  BY DEF HistoryInv, HistoryExplains, Sound
<1>4. QED
  BY <1>1, <1>2, <1>3, CallInvariant, PTL DEF Spec

-----------------------------------------------------------------------------
(* No creation is forgotten.  Every transaction, created or not, is written *)
(* off, or its call is on the way to its record, or its slot's history has  *)
(* it; and what a call writes extends the history its slot has now.         *)
Settling == {"receipt", "pin", "write"}

\* A call on its way to the record knows its own transaction (TxInv without the status,
\* and therefore for every kind of node).
OwnTx == \A p \in Procs : pc[p] \in Settling => Minted(p, FALSE)

AccountedInv ==
    \A n \in DOMAIN chain :
        \/ n \in writtenOff
        \/ \E p \in Procs : tx[p] = n /\ pc[p] \in Settling
        \/ n \in Recorded(chain[n].slot)

LEMMA OwnTxStep ==
    ASSUME CallInv, OwnTx, [Next]_vars
    PROVE  OwnTx'
<1> DEFINE Watching(p) == pc[p] \in Settling
<1>1. ASSUME NEW q \in Procs, Watching(q), UNCHANGED <<job[q], tx[q]>>
      PROVE  Minted(q, FALSE)'
  <2>1. tx[q] \in DOMAIN chain
    BY <1>1 DEF OwnTx, Minted
  <2>2. QED
    BY <1>1, <2>1, ChainGrows DEF OwnTx, Minted
<1>2. ASSUME NEW p \in Procs, NEW j \in Jobs, Begin(p, j)
      PROVE  OwnTx'
  <2>1. ~Watching(p)' /\ tx' = tx
    BY <1>2, JobFields DEF Begin, Goto, Ops, Settling, CallInv, TypeInv, TypeOK
  <2>2. \A q \in Procs \ {p} : pc'[q] = pc[q] /\ job'[q] = job[q]
    BY <1>2 DEF Begin, Goto, CallInv, TypeInv, TypeOK
  <2>3. QED
    BY <1>1, <2>1, <2>2 DEF OwnTx
<1>3. ASSUME NEW p \in Procs, Step(p) \/ Crash(p)
      PROVE  OwnTx'
  <2>1. \A q \in Procs \ {p} : pc'[q] = pc[q] /\ job'[q] = job[q] /\ tx'[q] = tx[q]
    BY <1>3, StepFrame DEF CallInv
  <2>2. SUFFICES Watching(p)' => Minted(p, FALSE)'
    BY <1>1, <2>1 DEF OwnTx
  <2>3. CASE Broadcast(p)
    <3>1. /\ tx'[p] = Len(chain') /\ job' = job
          /\ chain' = Append(chain, [slot |-> job[p].slot, id |-> job[p].id,
                                     status |-> "pending"])
      BY <2>3 DEF Broadcast, Accept, CallInv, TypeInv, TypeOK
    <3>2. chain \in Seq(Tx)
      BY DEF CallInv, TypeInv, TypeOK
    <3>3. QED
      BY <3>1, <3>2 DEF Minted
  <2>4. CASE Receipt(p) \/ Pin(p)
    <3>1. UNCHANGED <<job, tx>> /\ Watching(p)
      BY <2>4 DEF Receipt, Pin, locals, Settling
    <3>2. QED
      BY <1>1, <3>1
  <2>5. CASE ~(Broadcast(p) \/ Receipt(p) \/ Pin(p))
    <3>1. ~Watching(p)'
      BY <1>3, <2>5 DEF Step, Lock, LockRefused, Read, Abort, BroadcastLost,
         BroadcastRejected, ReceiptFails, Write, WriteFails, Hooks, Release, RegRead,
         DeploymentExists, RegWrite, ResetList, ResetRemove, ResetScan, ResetPrune,
         StoreFails, Crash, Settle, Goto, Settling, CallInv, TypeInv, TypeOK
    <3>2. QED
      BY <3>1
  <2>6. QED
    BY <2>3, <2>4, <2>5
<1>4. CASE UNCHANGED <<pc, job, tx>>
  BY <1>1, <1>4 DEF OwnTx
<1>5. QED
  BY <1>2, <1>3, <1>4 DEF Next, vars, locals, Mine, ReclaimLock

\* What the two writes leave of the histories: Write adds the new address to its slot's,
\* RegWrite forgets nothing.
LEMMA WriteRecords ==
    ASSUME CallInv, OwnTx, CallSeesCurrentRecord, NEW p \in Procs, Write(p)
    PROVE  /\ tx[p] \in Recorded(job[p].slot)'
           /\ \A s \in Slots : Recorded(s) \subseteq Recorded(s)'
<1> DEFINE h == History(existing[p])
           e == [addr |-> tx[p], id |-> job[p].id,
                 reason |-> Reason(job[p], existing[p]),
                 superseded |-> IF existing[p] = NoRecord THEN NoAddr
                                ELSE existing[p].addr]
           new == NewRecord(job[p], existing[p], tx[p], pin[p])
<1>1. /\ job[p] \in Jobs /\ existing[p] \in Record \union {NoRecord}
      /\ tx[p] \in Nat /\ pin[p] \in Sources \union {NoSrc}
      /\ job[p].slot \in Slots /\ records \in [Slots -> Record \union {NoRecord}]
  BY JobFields DEF Write, CallInv, TypeInv, TypeOK, Busy
<1>a. new \in Record
  BY <1>1, NewRecordTyped
<1>2. h \in Seq(Entry) /\ new # NoRecord
  BY <1>1, <1>a, HistoryTyped, PipelineAssumption
<1>3. records[job[p].slot] = existing[p]
  BY DEF Write, CallSeesCurrentRecord, Deciding
<1>4. new.history = Append(h, e) /\ e.addr = tx[p]
  BY DEF NewRecord
<1>5. records' = [records EXCEPT ![job[p].slot] = new] /\ job' = job
  BY DEF Write
<1> HIDE DEF h, e, new
<1>6. History(records'[job[p].slot]) = Append(h, e) /\ History(records[job[p].slot]) = h
  BY <1>1, <1>2, <1>3, <1>4, <1>5 DEF History, h
<1>7. /\ \A i \in DOMAIN h : i \in DOMAIN Append(h, e) /\ Append(h, e)[i] = h[i]
      /\ Len(h) + 1 \in DOMAIN Append(h, e) /\ Append(h, e)[Len(h) + 1] = e
  BY <1>2, AppendProperties
<1>8. tx[p] \in Recorded(job[p].slot)'
  BY <1>4, <1>5, <1>6, <1>7 DEF Recorded
<1>9. ASSUME NEW s \in Slots
      PROVE  Recorded(s) \subseteq Recorded(s)'
  <2>1. CASE s = job[p].slot
    BY <1>6, <1>7, <2>1 DEF Recorded
  <2>2. CASE s # job[p].slot
    BY <1>1, <1>5, <2>2 DEF Recorded
  <2>3. QED
    BY <2>1, <2>2
<1>10. QED
  BY <1>8, <1>9

LEMMA RegWriteRecords ==
    ASSUME CallInv, RegInv, NEW p \in Procs, RegWrite(p), NEW s \in Slots
    PROVE  Recorded(s) \subseteq Recorded(s)'
<1> DEFINE h == History(existing[p])
           new == Registered(job[p], existing[p])
<1>1. /\ job[p] \in Jobs /\ existing[p] \in Record \union {NoRecord}
      /\ job[p].slot \in Slots /\ records \in [Slots -> Record \union {NoRecord}]
  BY JobFields DEF RegWrite, CallInv, TypeInv, TypeOK, Busy
<1>2. h \in Seq(Entry) /\ new # NoRecord
  BY <1>1, HistoryTyped, RegisteredTyped, PipelineAssumption
<1>3. records[job[p].slot] = existing[p]
  BY DEF RegWrite, RegInv
<1>4. new.history = h \/ \E e : new.history = Append(h, e)
  BY DEF Registered
<1>5. records' = [records EXCEPT ![job[p].slot] = new]
  BY DEF RegWrite
<1> HIDE DEF h, new
<1>6. /\ History(records'[job[p].slot]) = new.history
      /\ History(records[job[p].slot]) = h
  BY <1>1, <1>2, <1>3, <1>5 DEF History, h
<1>7. \A i \in DOMAIN h : i \in DOMAIN new.history /\ new.history[i] = h[i]
  BY <1>2, <1>4
<1>8. CASE s = job[p].slot
  BY <1>6, <1>7, <1>8 DEF Recorded
<1>9. CASE s # job[p].slot
  BY <1>1, <1>5, <1>9 DEF Recorded
<1>10. QED
  BY <1>8, <1>9

LEMMA AccountedStep ==
    ASSUME CallInv, OwnTx, RegInv, CallSeesCurrentRecord, AccountedInv, [Next]_vars
    PROVE  AccountedInv'
<1> DEFINE Has(p, n) == tx[p] = n /\ pc[p] \in Settling
<1>a. /\ chain \in Seq(Tx) /\ records \in [Slots -> Record \union {NoRecord}]
      /\ \A n \in DOMAIN chain : n \in Nat /\ chain[n].slot \in Slots
  <2>1. chain \in Seq(Tx) /\ records \in [Slots -> Record \union {NoRecord}]
    BY DEF CallInv, TypeInv, TypeOK
  <2>2. \A n \in DOMAIN chain : n \in 1..Len(chain) /\ chain[n] \in Tx
    BY <2>1
  <2>3. QED
    BY <2>1, <2>2 DEF Tx
\* Where the histories only grow, it is enough that no call lets go of its transaction.
<1>b. ASSUME DOMAIN chain' = DOMAIN chain,
             \A n \in DOMAIN chain : chain'[n].slot = chain[n].slot,
             \A s \in Slots : Recorded(s) \subseteq Recorded(s)',
             writtenOff \subseteq writtenOff',
             NEW p \in Procs,
             \A q \in Procs \ {p} : pc'[q] = pc[q] /\ tx'[q] = tx[q],
             Has(p, tx[p]) => \/ tx'[p] = tx[p] /\ pc'[p] \in Settling
                              \/ tx[p] \in writtenOff'
                              \/ \E s : /\ s = chain[tx[p]].slot
                                        /\ tx[p] \in Recorded(s)'
      PROVE  AccountedInv'
  <2> SUFFICES ASSUME NEW n \in DOMAIN chain
               PROVE  \/ n \in writtenOff'
                      \/ \E q \in Procs : Has(q, n)'
                      \/ n \in Recorded(chain[n].slot)'
    BY <1>b DEF AccountedInv
  <2>1. CASE n \in writtenOff
    BY <1>b, <2>1
  <2>2. CASE \E q \in Procs \ {p} : Has(q, n)
    BY <1>b, <2>2
  <2>3. CASE Has(p, n)
    BY <1>b, <2>3
  <2>4. CASE n \in Recorded(chain[n].slot)
    BY <1>a, <1>b, <2>4
  <2>5. QED
    BY <2>1, <2>2, <2>3, <2>4 DEF AccountedInv
<1> HIDE DEF Has
<1>1. ASSUME NEW p \in Procs, Broadcast(p) \/ BroadcastLost(p)
      PROVE  AccountedInv'
  <2> DEFINE t == [slot |-> job[p].slot, id |-> job[p].id, status |-> "pending"]
  <2>1. /\ chain' = Append(chain, t) /\ records' = records
        /\ \A q \in Procs \ {p} : pc'[q] = pc[q] /\ tx'[q] = tx[q]
        /\ pc[p] = "deploy" /\ writtenOff \subseteq writtenOff'
    BY <1>1, StepFrame DEF Broadcast, BroadcastLost, Accept, store, CallInv, Step
  <2> HIDE DEF t
  <2>2. /\ DOMAIN chain' = DOMAIN chain \union {Len(chain')}
        /\ \A n \in DOMAIN chain : chain'[n] = chain[n]
    BY <1>a, <2>1
  <2>3. \/ Len(chain') \in writtenOff'
        \/ tx'[p] = Len(chain') /\ pc'[p] \in Settling
    BY <1>1, <1>a DEF Broadcast, BroadcastLost, Goto, Has, Settling, CallInv, TypeInv, TypeOK
  <2>4. ASSUME NEW n \in DOMAIN chain
        PROVE  \/ n \in writtenOff' \/ \E q \in Procs : Has(q, n)'
               \/ n \in Recorded(chain[n].slot)'
    <3>1. ~Has(p, n)
      BY <2>1 DEF Has, Settling
    <3>2. n \in Recorded(chain[n].slot) => n \in Recorded(chain[n].slot)'
      BY <2>1, <2>2 DEF Recorded
    <3>3. \A q \in Procs : Has(q, n) => Has(q, n)'
      BY <2>1, <3>1 DEF Has
    <3>4. QED
      BY <2>1, <3>2, <3>3 DEF AccountedInv, Has
  <2>5. QED
    BY <2>2, <2>3, <2>4 DEF AccountedInv, Has
<1>2. ASSUME NEW n \in DOMAIN chain, Mine(n)
      PROVE  AccountedInv'
  <2>1. /\ DOMAIN chain' = DOMAIN chain
        /\ \A m \in DOMAIN chain : chain'[m].slot = chain[m].slot
        /\ UNCHANGED <<records, pc, tx, writtenOff>>
    BY <1>2, <1>a DEF Mine, store, locals, Tx
  <2>2. \A s : Recorded(s)' = Recorded(s)
    BY <2>1 DEF Recorded
  <2>3. QED
    BY <2>1, <2>2 DEF AccountedInv
<1>3. ASSUME NEW p \in Procs, Write(p)
      PROVE  AccountedInv'
  <2>1. /\ UNCHANGED <<chain, writtenOff, job>>
        /\ job[p].slot = chain[tx[p]].slot
    BY <1>3 DEF Write, OwnTx, Minted, Settling
  <2>2. \A q \in Procs \ {p} : pc'[q] = pc[q] /\ tx'[q] = tx[q]
    BY <1>3, StepFrame DEF CallInv, Step
  <2>3. /\ tx[p] \in Recorded(job[p].slot)'
        /\ \A s \in Slots : Recorded(s) \subseteq Recorded(s)'
    BY <1>3, WriteRecords
  <2>4. QED
    BY <1>b, <2>1, <2>2, <2>3
<1>4. ASSUME NEW p \in Procs, RegWrite(p)
      PROVE  AccountedInv'
  <2>1. UNCHANGED <<chain, writtenOff>> /\ ~Has(p, tx[p])
    BY <1>4 DEF RegWrite, Has, Settling
  <2>2. \A q \in Procs \ {p} : pc'[q] = pc[q] /\ tx'[q] = tx[q]
    BY <1>4, StepFrame DEF CallInv, Step
  <2>3. \A s \in Slots : Recorded(s) \subseteq Recorded(s)'
    BY <1>4, RegWriteRecords
  <2>4. QED
    BY <1>b, <2>1, <2>2, <2>3
<1>5. ASSUME NEW p \in Procs, ResetRemove(p)
      PROVE  AccountedInv'
  <2>1. PICK s \in todo[p] :
           /\ records' = [records EXCEPT ![s] = NoRecord]
           /\ writtenOff' = writtenOff \union {n \in DOMAIN chain : n \in Recorded(s)}
           /\ UNCHANGED <<chain, pc, tx>>
    BY <1>5 DEF ResetRemove
  <2>2. \A r \in Slots : r # s => Recorded(r)' = Recorded(r)
    BY <1>a, <2>1 DEF Recorded
  <2>3. ASSUME NEW n \in DOMAIN chain
        PROVE  \/ n \in writtenOff' \/ \E q \in Procs : tx'[q] = n /\ pc'[q] \in Settling
               \/ n \in Recorded(chain[n].slot)'
    BY <1>a, <2>1, <2>2 DEF AccountedInv
  <2>4. QED
    BY <2>1, <2>3 DEF AccountedInv
\* Every other step of a call, and its death.
<1>6. ASSUME NEW p \in Procs, Step(p) \/ Crash(p),
             ~(Broadcast(p) \/ BroadcastLost(p) \/ Write(p) \/ RegWrite(p)
               \/ ResetRemove(p))
      PROVE  AccountedInv'
  <2>1. records' = records
    BY <1>6, StoreFrame
  <2>2. \A q \in Procs \ {p} : pc'[q] = pc[q] /\ tx'[q] = tx[q]
    BY <1>6, StepFrame DEF CallInv
  <2>3. /\ chain' = chain /\ writtenOff \subseteq writtenOff'
        /\ Has(p, tx[p]) => \/ tx'[p] = tx[p] /\ pc'[p] \in Settling
                            \/ tx[p] \in writtenOff'
    BY <1>6 DEF Step, Lock, LockRefused, Read, Abort, BroadcastRejected, Receipt,
       ReceiptFails, Pin, WriteFails, Hooks, Release, RegRead, DeploymentExists,
       ResetList, ResetScan, ResetPrune, StoreFails, Crash, Settle, Goto, locals, Has,
       Settling, CallInv, TypeInv, TypeOK
  <2>4. \A s : Recorded(s)' = Recorded(s)
    BY <2>1 DEF Recorded
  <2>5. QED
    BY <1>b, <2>2, <2>3, <2>4
<1>7. ASSUME NEW p \in Procs, NEW j \in Jobs, Begin(p, j)
      PROVE  AccountedInv'
  <2>1. /\ UNCHANGED <<records, chain, tx, writtenOff>> /\ ~Has(p, tx[p])
        /\ \A q \in Procs \ {p} : pc'[q] = pc[q]
    BY <1>7 DEF Begin, Goto, store, Has, Settling, CallInv, TypeInv, TypeOK
  <2>2. \A s : Recorded(s)' = Recorded(s)
    BY <2>1 DEF Recorded
  <2>3. QED
    BY <1>b, <2>1, <2>2
<1>8. CASE UNCHANGED <<records, chain, pc, tx, writtenOff>>
  <2>1. \A s : Recorded(s)' = Recorded(s)
    BY <1>8 DEF Recorded
  <2>2. QED
    BY <1>8, <2>1 DEF AccountedInv
<1>9. QED
  BY <1>1, <1>2, <1>3, <1>4, <1>5, <1>6, <1>7, <1>8
  DEF Next, vars, store, locals, ReclaimLock

\* With the lock, and register and reset kept apart from everything else, no contract a
\* call created is forgotten, unless that call itself failed or died or a reset dropped
\* the record: another call never drops an address from a history (pipeline.ts:183-271).
THEOREM CreationsAccounted ==
    ASSUME HasLock, NothingBeside
    PROVE  Spec => []EveryCreationAccounted
<1>1. Init => OwnTx /\ RegInv /\ AccountedInv
  BY DEF Init, OwnTx, RegInv, AccountedInv, Settling
<1>2. CallInv /\ CallSeesCurrentRecord /\ OwnTx /\ RegInv /\ AccountedInv /\ [Next]_vars
        => OwnTx' /\ RegInv' /\ AccountedInv'
  BY OwnTxStep, RegStep, AccountedStep DEF NothingBeside
<1>3. AccountedInv => EveryCreationAccounted
  BY DEF AccountedInv, EveryCreationAccounted, Settling
<1>4. QED
  BY <1>1, <1>2, <1>3, CallInvariant, ReadDeployWriteAtomic, PTL DEF Spec

-----------------------------------------------------------------------------
(* The refinement of DeploymentLog.  A slot's log is its record's history   *)
(* after the address the history starts from, if there is one; a write      *)
(* either appends to it an entry that names the newest one or, a repeated   *)
(* registration, leaves it as it is.                                        *)
LogAddress == (1..MaxTxs) \union ExternalAddrs \union OldAddrs
LogEntry == [addr : Address, superseded : Address]
First(o) == IF o = NoAddr THEN <<>> ELSE <<[addr |-> o, superseded |-> NoAddr]>>
Lift(h) == [i \in DOMAIN h |-> [addr |-> h[i].addr, superseded |-> h[i].superseded]]
Start(r) == IF r = NoRecord THEN NoAddr ELSE Origin(r)

LEMMA LoggedIs == \A r : Logged(r) = First(Start(r)) \o Lift(History(r))
BY DEF Logged, First, Lift, Start

LEMMA FirstLift ==
    /\ \A o \in Address : First(o) \in Seq(LogEntry)
    /\ \A h \in Seq(Entry) : Lift(h) \in Seq(LogEntry) /\ Len(Lift(h)) = Len(h)
<1>1. NoAddr \in Address
  BY DEF Address
<1>2. ASSUME NEW o \in Address
      PROVE  First(o) \in Seq(LogEntry)
  <2>1. [addr |-> o, superseded |-> NoAddr] \in LogEntry
    BY <1>1, <1>2 DEF LogEntry
  <2> DEFINE l == [addr |-> o, superseded |-> NoAddr]
  <2> HIDE DEF l
  <2>2. l \in LogEntry => <<>> \in Seq(LogEntry) /\ <<l>> \in Seq(LogEntry)
    OBVIOUS
  <2>3. QED
    BY <2>1, <2>2 DEF First, l
<1>3. ASSUME NEW h \in Seq(Entry)
      PROVE  Lift(h) \in Seq(LogEntry) /\ Len(Lift(h)) = Len(h)
  <2>1. /\ DOMAIN Lift(h) = 1..Len(h) /\ Len(h) \in Nat
        /\ \A i \in 1..Len(h) : h[i] \in Entry
    BY DEF Lift
  <2>2. \A i \in 1..Len(h) : Lift(h)[i] \in LogEntry
    BY <2>1 DEF Lift, Entry, LogEntry
  <2>3. Lift(h) \in [1..Len(h) -> LogEntry]
    BY <2>1, <2>2 DEF Lift
  <2>4. QED
    BY <2>1, <2>3
<1>4. QED
  BY <1>2, <1>3

LEMMA StartTyped ==
    ASSUME NEW r \in Record \union {NoRecord}
    PROVE  Start(r) \in Address
<1>1. CASE r = NoRecord
  BY <1>1 DEF Start, Address
<1>2. CASE r # NoRecord /\ r.history = <<>>
  BY <1>2, RecordFields DEF Start, Origin
<1>3. CASE r # NoRecord /\ r.history # <<>>
  <2>1. r.history \in Seq(Entry) /\ 1 \in DOMAIN r.history
    BY <1>3, RecordFields
  <2>2. r.history[1] \in Entry
    BY <2>1
  <2>3. QED
    BY <1>3, <2>2 DEF Start, Origin, Entry
<1>4. QED
  BY <1>1, <1>2, <1>3

LEMMA LiftAppend ==
    ASSUME NEW o \in Address, NEW h \in Seq(Entry), NEW e \in Entry
    PROVE  First(o) \o Lift(Append(h, e))
             = Append(First(o) \o Lift(h), [addr |-> e.addr, superseded |-> e.superseded])
<1> DEFINE l == [addr |-> e.addr, superseded |-> e.superseded]
           f == First(o)
<1>1. /\ f \in Seq(LogEntry) /\ Lift(h) \in Seq(LogEntry) /\ l \in LogEntry
  BY FirstLift DEF Entry, LogEntry
<1>2. Lift(Append(h, e)) = Append(Lift(h), l)
  <2>1. /\ Len(h) \in Nat /\ DOMAIN h = 1..Len(h)
        /\ DOMAIN Append(h, e) = 1..(Len(h) + 1) /\ Append(h, e)[Len(h) + 1] = e
        /\ \A i \in 1..Len(h) : Append(h, e)[i] = h[i]
    OBVIOUS
  <2>2. DOMAIN Lift(Append(h, e)) = 1..(Len(h) + 1)
    BY <2>1 DEF Lift
  <2>3. /\ DOMAIN Append(Lift(h), l) = 1..(Len(h) + 1)
        /\ Append(Lift(h), l)[Len(h) + 1] = l
        /\ \A i \in 1..Len(h) : Append(Lift(h), l)[i] = Lift(h)[i]
    BY <1>1, <2>1, FirstLift
  <2>4. ASSUME NEW i \in 1..(Len(h) + 1)
        PROVE  Lift(Append(h, e))[i] = Append(Lift(h), l)[i]
    <3>1. CASE i = Len(h) + 1
      BY <2>1, <2>3, <3>1 DEF Lift
    <3>2. CASE i \in 1..Len(h)
      BY <2>1, <2>3, <3>2 DEF Lift
    <3>3. i = Len(h) + 1 \/ i \in 1..Len(h)
      BY <2>1
    <3>4. QED
      BY <3>1, <3>2, <3>3
  <2>5. Append(h, e) \in Seq(Entry) /\ Len(Append(h, e)) = Len(h) + 1
    OBVIOUS
  <2>6. /\ Lift(Append(h, e)) \in Seq(LogEntry) /\ Append(Lift(h), l) \in Seq(LogEntry)
        /\ Len(Lift(Append(h, e))) = Len(h) + 1 /\ Len(Append(Lift(h), l)) = Len(h) + 1
    <3>1. /\ Append(Lift(h), l) \in Seq(LogEntry)
          /\ Len(Append(Lift(h), l)) = Len(Lift(h)) + 1
      BY <1>1, AppendProperties
    <3>2. QED
      BY <2>5, <3>1, FirstLift
  <2> HIDE DEF l
  <2>7. QED
    BY <2>4, <2>6, SeqEqual
<1> HIDE DEF l, f
<1>3. f \o Append(Lift(h), l) = Append(f \o Lift(h), l)
  <2>1. Append(Lift(h), l) = Lift(h) \o <<l>>
    BY <1>1, AppendIsConcat
  <2>2. f \o Lift(h) \in Seq(LogEntry) /\ <<l>> \in Seq(LogEntry)
    BY <1>1
  <2>3. Append(f \o Lift(h), l) = (f \o Lift(h)) \o <<l>>
    BY <1>1, <2>2, AppendIsConcat
  <2>4. QED
    BY <1>1, <2>1, <2>2, <2>3, ConcatAssociative
<1>4. QED
  BY <1>2, <1>3 DEF f, l

\* The newest entry of a slot's log is for the address of its record.
LEMMA NewestIsRecorded ==
    ASSUME NEW s \in Slots, NEW r \in Record \union {NoRecord}, Sound(s, r)
    PROVE  /\ Logged(r) \in Seq(LogEntry)
           /\ r = NoRecord => Logged(r) = <<>>
           /\ r # NoRecord => /\ Logged(r) # <<>>
                              /\ Logged(r)[Len(Logged(r))].addr = r.addr
<1> DEFINE h == History(r)
           f == First(Start(r))
           k == Lift(h)
<1>1. /\ h \in Seq(Entry) /\ f \in Seq(LogEntry) /\ k \in Seq(LogEntry)
      /\ Len(k) = Len(h) /\ Logged(r) = f \o k
  BY HistoryTyped, StartTyped, FirstLift, LoggedIs
<1>2. Logged(r) \in Seq(LogEntry)
  BY <1>1
<1>3. CASE r = NoRecord
  <2>1. f = <<>> /\ h = <<>>
    BY <1>3 DEF Start, First, History
  <2>2. k = <<>>
    BY <1>1, <2>1
  <2>3. QED
    BY <1>1, <1>2, <1>3, <2>1, <2>2
<1>4. CASE r # NoRecord /\ h = <<>>
  <2>1. r.history = <<>> /\ Start(r) = r.addr
    BY <1>4 DEF History, Start, Origin
  <2>2. r.addr # NoAddr
    BY <1>4, <2>1, UnloggedInherited, InheritedAssumption, PipelineAssumption
    DEF BeforeAddrs
  <2>3. f = <<[addr |-> r.addr, superseded |-> NoAddr]>>
    BY <2>1, <2>2 DEF First
  <2>4. k = <<>>
    BY <1>1, <1>4
  <2>5. Logged(r) = f
    BY <1>1, <2>4, ConcatEmptySeq
  <2>6. QED
    BY <1>2, <1>4, <2>3, <2>5
<1>5. CASE r # NoRecord /\ h # <<>>
  <2>1. h[Len(h)].addr = r.addr
    BY <1>5, LoggedExplains DEF History, Explains
  <2>2. Len(h) \in Nat /\ Len(h) >= 1 /\ DOMAIN h = 1..Len(h)
    BY <1>1, <1>5
  <2>3. k[Len(h)].addr = r.addr
    BY <2>1, <2>2 DEF Lift
  <2> HIDE DEF h, f, k
  <2>4. /\ Len(f \o k) = Len(f) + Len(h)
        /\ (f \o k)[Len(f) + Len(h)] = k[Len(h)]
    <3>1. /\ Len(f \o k) = Len(f) + Len(k)
          /\ \A i \in 1..(Len(f) + Len(k)) :
                (f \o k)[i] = IF i <= Len(f) THEN f[i] ELSE k[i - Len(f)]
      BY <1>1, ConcatProperties
    <3>2. /\ Len(f) \in Nat /\ Len(f) + Len(h) \in 1..(Len(f) + Len(k))
          /\ ~(Len(f) + Len(h) <= Len(f)) /\ Len(f) + Len(h) - Len(f) = Len(h)
      BY <1>1, <2>2
    <3>3. QED
      BY <1>1, <3>1, <3>2
  <2>5. QED
    BY <1>1, <1>2, <1>5, <2>2, <2>3, <2>4
<1>6. QED
  BY <1>3, <1>4, <1>5

\* An entry that names the address of the record it is written over is appended to
\* the log, and names the newest entry there.
LEMMA LoggedAppends ==
    ASSUME NEW s \in Slots, NEW r \in Record \union {NoRecord}, Sound(s, r),
           NEW new \in Record, NEW e \in Entry, new # NoRecord,
           new.history = Append(History(r), e),
           e.superseded = IF r = NoRecord THEN NoAddr ELSE r.addr
    PROVE  Logged(new) = Append(Logged(r), [addr |-> e.addr, superseded |-> e.superseded])
<1> DEFINE h == History(r)
<1>1. h \in Seq(Entry) /\ Start(r) \in Address /\ History(new) = Append(h, e)
  BY HistoryTyped, StartTyped DEF History
<1>2. Start(new) = Start(r)
  <2>1. Start(new) = Append(h, e)[1].superseded
    BY <1>1 DEF Start, Origin
  <2>2. CASE h = <<>>
    <3>1. Append(h, e)[1] = e
      BY <2>2
    <3>2. QED
      BY <2>1, <2>2, <3>1 DEF Start, Origin, History
  <2>3. CASE h # <<>>
    <3>1. Append(h, e)[1] = h[1] /\ r # NoRecord /\ h = r.history
      BY <1>1, <2>3 DEF History
    <3>2. QED
      BY <2>1, <2>3, <3>1 DEF Start, Origin
  <2>4. QED
    BY <2>2, <2>3
<1> HIDE DEF h
<1>3. Logged(new) = First(Start(r)) \o Lift(Append(h, e)) /\ Logged(r) = First(Start(r)) \o Lift(h)
  BY <1>1, <1>2, LoggedIs DEF h
<1>4. QED
  BY <1>1, <1>3, LiftAppend

\* A record replaced by one whose log has one entry more, which names the newest one.
LEMMA RecordAdds ==
    ASSUME records \in [Slots -> Record \union {NoRecord}],
           NEW s \in Slots, NEW new, records' = [records EXCEPT ![s] = new],
           Sound(s, records[s]), NEW a \in LogAddress,
           Logged(new) = Append(Logged(records[s]),
                                [addr |-> a,
                                 superseded |-> IF records[s] = NoRecord THEN NoAddr
                                                ELSE records[s].addr])
    PROVE  Log!Next
<1> DEFINE log == [t \in Slots |-> Logged(records[t])]
           next == [t \in Slots |-> Logged(records'[t])]
           l == [addr |-> a, superseded |-> IF records[s] = NoRecord THEN NoAddr
                                            ELSE records[s].addr]
<1>1. /\ Logged(records[s]) \in Seq(LogEntry)
      /\ records[s] = NoRecord => Logged(records[s]) = <<>>
      /\ records[s] # NoRecord =>
            /\ Logged(records[s]) # <<>>
            /\ Logged(records[s])[Len(Logged(records[s]))].addr = records[s].addr
  BY NewestIsRecorded
<1>2. Log!Newest(s) = IF records[s] = NoRecord THEN NoAddr ELSE records[s].addr
  BY <1>1 DEF Log!Newest
<1>3. \A t \in Slots : records'[t] = IF t = s THEN new ELSE records[t]
  OBVIOUS
<1>4. next = [log EXCEPT ![s] = Append(@, [addr |-> a, superseded |-> Log!Newest(s)])]
  BY <1>2, <1>3
<1>5. next[s] # log[s]
  <2>1. next[s] = Append(Logged(records[s]), l) /\ log[s] = Logged(records[s])
    BY <1>3
  <2>2. Len(Append(Logged(records[s]), l)) = Len(Logged(records[s])) + 1
    BY <1>1
  <2>3. Len(Logged(records[s])) \in Nat
    BY <1>1
  <2>4. QED
    BY <2>1, <2>2, <2>3
<1>6. Log!Add(s)
  BY <1>4 DEF Log!Add, LogAddress
<1>7. QED
  BY <1>5, <1>6 DEF Log!Next

LEMMA WriteLogs ==
    ASSUME CallInv, OwnTx, HistoryInv, CallSeesCurrentRecord, Len(chain) <= MaxTxs,
           NEW p \in Procs, Write(p)
    PROVE  Log!Next
<1> DEFINE r == existing[p]
           n == tx[p]
           e == [addr |-> n, id |-> job[p].id, reason |-> Reason(job[p], r),
                 superseded |-> IF r = NoRecord THEN NoAddr ELSE r.addr]
           new == NewRecord(job[p], r, n, pin[p])
<1>1. /\ job[p] \in Jobs /\ r \in Record \union {NoRecord} /\ n \in Nat
      /\ pin[p] \in Sources \union {NoSrc} /\ job[p].slot \in Slots
      /\ records \in [Slots -> Record \union {NoRecord}] /\ chain \in Seq(Tx)
  BY JobFields DEF Write, CallInv, TypeInv, TypeOK, Busy
<1>2. r = records[job[p].slot] /\ Sound(job[p].slot, r)
  BY DEF Write, CallSeesCurrentRecord, Deciding, HistoryInv, Deploying
<1>3. n \in 1..MaxTxs
  BY <1>1, PipelineAssumption DEF Write, OwnTx, Settling, Minted
<1>4. e \in Entry
  <2>1. (IF r = NoRecord THEN NoAddr ELSE r.addr) \in Address /\ n \in Address
    BY <1>1, RecordFields DEF Address
  <2>2. job[p].id \in Ids \union {NoId}
    BY <1>1, JobFields
  <2>3. Reason(job[p], r) \in {"fresh", "forced", "changed", "registered"}
    BY DEF Reason
  <2>4. QED
    BY <2>1, <2>2, <2>3 DEF Entry
<1>5. new \in Record
  BY <1>1, NewRecordTyped
<1>6. new # NoRecord
  BY <1>5, PipelineAssumption
<1>7. new.history = Append(History(r), e)
  BY DEF NewRecord
<1>8. records' = [records EXCEPT ![job[p].slot] = new]
  BY DEF Write
<1>9. e.addr = n /\ e.superseded = IF r = NoRecord THEN NoAddr ELSE r.addr
  OBVIOUS
<1> HIDE DEF e, new
<1>10. Logged(new) = Append(Logged(r), [addr |-> e.addr, superseded |-> e.superseded])
  BY <1>1, <1>2, <1>4, <1>5, <1>6, <1>7, <1>9, LoggedAppends
<1>11. QED
  BY <1>1, <1>2, <1>3, <1>8, <1>9, <1>10, RecordAdds DEF LogAddress

LEMMA RegWriteLogs ==
    ASSUME CallInv, RegInv, HistoryInv, NEW p \in Procs, RegWrite(p)
    PROVE  Log!Next \/ \A s \in Slots : Logged(records'[s]) = Logged(records[s])
<1> DEFINE r == existing[p]
           h == History(r)
           a == job[p].addr
           e == [addr |-> a, id |-> NoId, reason |-> "registered",
                 superseded |-> IF r = NoRecord \/ r.addr = a THEN NoAddr ELSE r.addr]
           alreadyLogged == h # <<>> /\ h[Len(h)].addr = a
           new == Registered(job[p], r)
<1>1. /\ job[p] \in Jobs /\ r \in Record \union {NoRecord}
      /\ job[p].slot \in Slots /\ a \in ExternalAddrs
      /\ records \in [Slots -> Record \union {NoRecord}]
  BY JobFields DEF RegWrite, CallInv, TypeInv, TypeOK, Busy
<1>2. r = records[job[p].slot] /\ Sound(job[p].slot, r)
  BY DEF RegWrite, RegInv, HistoryInv
<1>3. records' = [records EXCEPT ![job[p].slot] = new]
  BY DEF RegWrite
<1>4. e \in Entry
  <2>1. (IF r = NoRecord \/ r.addr = a THEN NoAddr ELSE r.addr) \in Address /\ a \in Address
    BY <1>1, RecordFields DEF Address
  <2>2. QED
    BY <2>1 DEF Entry
<1>5. new \in Record
  BY <1>1, RegisteredTyped
<1>6. new # NoRecord
  BY <1>5, PipelineAssumption
<1>7. new.history = IF alreadyLogged THEN h ELSE Append(h, e)
  BY DEF Registered
<1>8. h \in Seq(Entry)
  BY <1>1, HistoryTyped
<1>9. CASE alreadyLogged
  <2>1. r # NoRecord /\ new.history = r.history /\ new.history # <<>>
    BY <1>7, <1>9 DEF History
  <2>2. Start(new) = Start(r) /\ History(new) = History(r)
    BY <1>6, <2>1 DEF Start, Origin, History
  <2>3. Logged(new) = Logged(r)
    BY <2>2, LoggedIs
  <2>4. QED
    BY <1>1, <1>2, <1>3, <2>3
<1>10. CASE ~alreadyLogged /\ (r = NoRecord \/ r.addr # a)
  <2>1. /\ new.history = Append(h, e) /\ e.addr = a
        /\ e.superseded = IF r = NoRecord THEN NoAddr ELSE r.addr
    BY <1>7, <1>10
  <2> HIDE DEF e, new, alreadyLogged
  <2>2. Logged(new) = Append(Logged(r), [addr |-> e.addr, superseded |-> e.superseded])
    BY <1>1, <1>2, <1>4, <1>5, <1>6, <2>1, LoggedAppends
  <2>3. QED
    BY <1>1, <1>2, <1>3, <2>1, <2>2, RecordAdds DEF LogAddress
\* A record from before that has no history, registered again at its address: the new
\* entry is what its log began with.
<1>11. CASE ~alreadyLogged /\ r # NoRecord /\ r.addr = a
  <2>1. h = <<>>
    <3>1. h # <<>> => h = r.history /\ Explains(job[p].slot, r)
      BY <1>1, <1>2, <1>11, LoggedExplains DEF History
    <3>2. h # <<>> => h[Len(h)].addr = a
      BY <1>11, <3>1 DEF Explains
    <3>3. QED
      BY <1>11, <3>2
  <2>2. /\ r.history = <<>> /\ Start(r) = a /\ a # NoAddr
    BY <1>1, <1>11, <2>1, PipelineAssumption DEF History, Start, Origin
  <2>3. /\ new.history = Append(h, e) /\ e.addr = a /\ e.superseded = NoAddr
    BY <1>7, <1>11
  <2>a. NoAddr \in Address
    BY DEF Address
  <2> HIDE DEF e, new, h
  <2>4. Append(h, e) = <<e>> /\ Append(h, e)[1] = e /\ Append(h, e) # <<>>
    BY <2>1
  <2>5. Start(new) = NoAddr /\ History(new) = Append(h, e)
    BY <1>6, <2>3, <2>4 DEF Start, Origin, History
  <2>6. Logged(new) = Append(First(NoAddr) \o Lift(h), [addr |-> a, superseded |-> NoAddr])
    BY <1>4, <1>8, <2>a, <2>3, <2>5, LoggedIs, LiftAppend
  <2>7. Lift(h) = <<>> /\ First(NoAddr) = <<>>
    <3>1. Lift(h) \in Seq(LogEntry) /\ Len(Lift(h)) = 0
      BY <1>8, <2>1, FirstLift
    <3>2. QED
      BY <3>1 DEF First
  <2>8. Logged(new) = <<[addr |-> a, superseded |-> NoAddr]>>
    BY <2>6, <2>7
  <2>9. Logged(r) = <<[addr |-> a, superseded |-> NoAddr]>>
    <3>1. First(a) = <<[addr |-> a, superseded |-> NoAddr]>> /\ First(a) \in Seq(LogEntry)
      BY <1>1, <2>2, FirstLift DEF First, Address
    <3>2. Logged(r) = First(a) \o <<>>
      BY <2>2, <2>7, LoggedIs DEF h
    <3>3. QED
      BY <3>1, <3>2, ConcatEmptySeq
  <2>10. QED
    BY <1>1, <1>2, <1>3, <2>8, <2>9
<1>12. QED
  BY <1>9, <1>10, <1>11

\* A record from before gives its slot a log that is linked.
LEMMA InheritedLinked ==
    ASSUME NEW s \in Slots, NEW r \in Inherited[s]
    PROVE  Logged(r) \in Seq(Log!Entries) /\ Log!Linked(Logged(r))
<1> DEFINE h == r.history
           f == First(Start(r))
           k == Lift(h)
           g == f \o k
<1>1. r \in Record /\ r # NoRecord /\ r.addr \in BeforeAddrs
  BY PipelineAssumption, InheritedAssumption
<1>2. /\ h \in Seq(Entry) /\ f \in Seq(LogEntry) /\ k \in Seq(LogEntry)
      /\ Len(k) = Len(h) /\ Logged(r) = g
  BY <1>1, RecordFields, StartTyped, FirstLift, LoggedIs DEF History
<1>3. Start(r) \in BeforeAddrs \union {NoAddr}
  BY <1>1, InheritedAssumption DEF Start, Origin
<1>4. /\ Len(f) = IF Start(r) = NoAddr THEN 0 ELSE 1
      /\ Start(r) # NoAddr => f[1] = [addr |-> Start(r), superseded |-> NoAddr]
  BY DEF First
<1>5. /\ Len(g) = Len(f) + Len(h) /\ g \in Seq(LogEntry)
      /\ \A i \in 1..(Len(f) + Len(h)) :
            g[i] = IF i <= Len(f) THEN f[i] ELSE k[i - Len(f)]
  BY <1>2, ConcatProperties
<1>6. \A i \in 1..Len(h) : /\ k[i].addr = h[i].addr /\ k[i].superseded = h[i].superseded
                           /\ h[i].addr \in BeforeAddrs
                           /\ h[i].superseded = IF i = 1 THEN Start(r) ELSE h[i - 1].addr
  <2>1. CASE h = <<>>
    BY <2>1
  <2>2. CASE h # <<>>
    <3>1. Explains(s, r) /\ \A i \in DOMAIN h : h[i].addr \in BeforeAddrs
      BY <2>2, InheritedAssumption
    <3>2. Start(r) = h[1].superseded
      BY <1>1, <2>2 DEF Start, Origin
    <3>3. DOMAIN h = 1..Len(h)
      BY <1>2
    <3>4. \A i \in 1..Len(h) : k[i].addr = h[i].addr /\ k[i].superseded = h[i].superseded
      BY <3>3 DEF Lift
    <3>5. \A i \in DOMAIN h \ {1} : h[i].superseded = h[i - 1].addr
      BY <3>1 DEF Explains
    <3>6. QED
      BY <3>1, <3>2, <3>3, <3>4, <3>5
  <2>3. QED
    BY <2>1, <2>2
<1> HIDE DEF h, f, k, g
\* Entry by entry: the origin, the first of the history, and the rest of it.
<1>7. ASSUME NEW i \in 1..Len(g)
      PROVE  /\ g[i].addr \in BeforeAddrs
             /\ g[i].superseded = IF i = 1 THEN NoAddr ELSE g[i - 1].addr
  <2>0. Len(f) \in {0, 1} /\ Len(h) \in Nat /\ i \in 1..(Len(f) + Len(h))
    BY <1>2, <1>4, <1>5
  <2>1. CASE i <= Len(f)
    <3>1. i = 1 /\ Start(r) # NoAddr /\ g[i] = [addr |-> Start(r), superseded |-> NoAddr]
      BY <1>4, <1>5, <2>0, <2>1
    <3>2. QED
      BY <1>3, <3>1
  <2>2. CASE ~(i <= Len(f)) /\ i - Len(f) = 1
    <3>1. g[i] = k[1] /\ 1 \in 1..Len(h)
      BY <1>5, <2>0, <2>2
    <3>2. g[i].addr \in BeforeAddrs /\ g[i].superseded = Start(r)
      BY <1>6, <3>1
    <3>3. i # 1 => Start(r) # NoAddr /\ g[i - 1] = [addr |-> Start(r), superseded |-> NoAddr]
      BY <1>4, <1>5, <2>0, <2>2
    <3>4. i = 1 => Start(r) = NoAddr
      BY <1>4, <2>0, <2>2
    <3>5. QED
      BY <3>2, <3>3, <3>4
  <2>3. CASE ~(i <= Len(f)) /\ i - Len(f) # 1
    <3>1. PICK m \in 1..Len(h) : m = i - Len(f) /\ m # 1
      BY <2>0, <2>3
    <3>2. /\ m - 1 \in 1..Len(h) /\ i # 1 /\ i - 1 \in 1..(Len(f) + Len(h))
          /\ ~(i - 1 <= Len(f)) /\ (i - 1) - Len(f) = m - 1
      BY <2>0, <2>3, <3>1
    <3>3. g[i] = k[m]
      BY <1>5, <2>0, <2>3, <3>1
    <3>4. g[i - 1] = k[m - 1]
      BY <1>5, <3>2
    <3>5. /\ k[m].addr \in BeforeAddrs /\ k[m].superseded = h[m - 1].addr
          /\ k[m - 1].addr = h[m - 1].addr
      BY <1>6, <3>1, <3>2
    <3>6. QED
      BY <3>2, <3>3, <3>4, <3>5
  <2>4. QED
    BY <2>1, <2>2, <2>3
<1>8. /\ Len(g) \in Nat /\ DOMAIN g = 1..Len(g)
      /\ \A i \in 1..Len(g) : g[i] \in LogEntry
  BY <1>5
<1>9. Log!Linked(g)
  BY <1>7, <1>8 DEF Log!Linked
<1>10. \A i \in 1..Len(g) : g[i] \in Log!Entries
  <2>1. ASSUME NEW i \in 1..Len(g)
        PROVE  g[i].superseded \in BeforeAddrs \union {NoAddr}
    <3>1. i # 1 => i - 1 \in 1..Len(g)
      BY <1>8
    <3>2. QED
      BY <1>7, <3>1
  <2>2. QED
    BY <1>7, <1>8, <2>1 DEF Log!Entries, LogEntry, BeforeAddrs
<1>11. g \in Seq(Log!Entries)
  <2>1. g \in [1..Len(g) -> Log!Entries]
    BY <1>5, <1>8, <1>10
  <2>2. QED
    BY <1>8, <2>1
<1>12. QED
  BY <1>2, <1>9, <1>11

LEMMA ChainBounded == CallInv /\ Len(chain) <= MaxTxs /\ [Next]_vars => Len(chain') <= MaxTxs
<1> SUFFICES ASSUME CallInv, Len(chain) <= MaxTxs, [Next]_vars
             PROVE  Len(chain') <= MaxTxs
  OBVIOUS
<1>1. chain \in Seq(Tx) /\ MaxTxs \in Nat
  BY PipelineAssumption DEF CallInv, TypeInv, TypeOK
<1>2. ASSUME NEW p \in Procs, Broadcast(p) \/ BroadcastLost(p)
      PROVE  Len(chain') <= MaxTxs
  BY <1>1, <1>2 DEF Broadcast, BroadcastLost, Accept
<1>3. ASSUME NEW n \in DOMAIN chain, Mine(n)
      PROVE  Len(chain') <= MaxTxs
  <2>1. PICK st : chain' = [chain EXCEPT ![n].status = st]
    BY <1>3 DEF Mine
  <2>2. DOMAIN chain' = DOMAIN chain /\ chain' \in Seq(Tx)
    BY <2>1, TypeStep DEF CallInv, TypeInv, TypeOK
  <2>3. Len(chain') = Len(chain)
    BY <1>1, <2>2
  <2>4. QED
    BY <2>3
<1>4. CASE chain' = chain
  BY <1>4
<1>5. QED
  BY <1>2, <1>3, <1>4 DEF Next, vars, Step, Crash, Begin, ReclaimLock, Lock, LockRefused,
     Read, Abort, BroadcastRejected, Receipt, ReceiptFails, Pin, Write, WriteFails, Hooks,
     Release, RegRead, DeploymentExists, RegWrite, ResetList, ResetRemove, ResetScan,
     ResetPrune, StoreFails

\* The store is the log of deployments it is documented as, with register and reset kept
\* apart from everything else: every step adds one entry that names the newest, or
\* forgets a slot's log, or changes none (deployment-records.mdx, pipeline.ts:224-259).
THEOREM StoreImplementsLog ==
    ASSUME HasLock, NothingBeside
    PROVE  Spec => ImplementsLog
<1> DEFINE LogInv == OwnTx /\ RegInv /\ HistoryInv /\ Len(chain) <= MaxTxs
           same == \A s \in Slots : Logged(records'[s]) = Logged(records[s])
<1>1. Init => Log!Init
  <2> SUFFICES ASSUME Init, NEW s \in Slots
               PROVE  Logged(records[s]) \in Seq(Log!Entries) /\ Log!Linked(Logged(records[s]))
    BY DEF Log!Init
  <2>1. CASE records[s] = NoRecord
    <3>1. Sound(s, NoRecord)
      BY DEF Sound
    <3>2. Logged(NoRecord) = <<>>
      BY <3>1, NewestIsRecorded
    <3>3. QED
      BY <2>1, <3>2 DEF Log!Linked
  <2>2. CASE records[s] \in Inherited[s]
    BY <2>2, InheritedLinked
  <2>3. QED
    BY <2>1, <2>2 DEF Init
<1>2. Init => LogInv
  <2> SUFFICES ASSUME Init PROVE LogInv
    OBVIOUS
  <2>1. \A s \in Slots : Sound(s, records[s])
    BY InheritedAssumption DEF Init, Sound
  <2>2. Len(chain) <= MaxTxs
    BY PipelineAssumption DEF Init
  <2>3. QED
    BY <2>1, <2>2 DEF Init, OwnTx, RegInv, HistoryInv, Deploying, Settling
<1>3. CallInv /\ LogInv /\ [Next]_vars => LogInv'
  BY OwnTxStep, RegStep, HistoryStep, ChainBounded DEF NothingBeside
<1>4. CallInv /\ LogInv /\ CallSeesCurrentRecord /\ [Next]_vars => Log!Next \/ same
  <2> SUFFICES ASSUME CallInv, LogInv, CallSeesCurrentRecord, [Next]_vars
               PROVE  Log!Next \/ same
    OBVIOUS
  <2>1. ASSUME NEW p \in Procs, Write(p)
        PROVE  Log!Next
    BY <2>1, WriteLogs
  <2>2. ASSUME NEW p \in Procs, RegWrite(p)
        PROVE  Log!Next \/ same
    BY <2>2, RegWriteLogs
  <2>3. ASSUME NEW p \in Procs, ResetRemove(p)
        PROVE  Log!Next \/ same
    <3>0. records \in [Slots -> Record \union {NoRecord}] /\ todo[p] \subseteq Slots
      BY DEF CallInv, TypeInv, TypeOK
    <3>1. PICK t \in todo[p] : records' = [records EXCEPT ![t] = NoRecord]
      BY <2>3 DEF ResetRemove
    <3>2. Logged(NoRecord) = <<>>
      <4>1. Sound(t, NoRecord)
        BY DEF Sound
      <4>2. QED
        BY <3>0, <4>1, NewestIsRecorded
    <3>3. [s \in Slots |-> Logged(records'[s])]
            = [[s \in Slots |-> Logged(records[s])] EXCEPT ![t] = <<>>]
      BY <3>0, <3>1, <3>2
    <3>4. CASE Logged(records[t]) = <<>>
      BY <3>0, <3>1, <3>2, <3>4
    <3>5. CASE Logged(records[t]) # <<>>
      <4>1. Log!Forget(t)
        BY <3>3 DEF Log!Forget
      <4>2. QED
        BY <3>0, <3>1, <3>2, <3>5, <4>1 DEF Log!Next
    <3>6. QED
      BY <3>4, <3>5
  <2>4. CASE records' = records
    BY <2>4
  <2>5. CASE \E p \in Procs : Step(p) \/ Crash(p)
    BY <2>1, <2>2, <2>3, <2>4, <2>5, StoreFrame
  <2>6. CASE ~\E p \in Procs : Step(p) \/ Crash(p)
    BY <2>4, <2>6 DEF Next, vars, store, Begin, Mine, ReclaimLock
  <2>7. QED
    BY <2>5, <2>6
<1>5. Log!Next \/ same => [Log!Next]_([s \in Slots |-> Logged(records[s])])
  OBVIOUS
<1> HIDE DEF LogInv, same
<1>6. QED
  BY <1>1, <1>2, <1>3, <1>4, <1>5, CallInvariant, ReadDeployWriteAtomic, PTL
  DEF Spec, ImplementsLog, Log!Spec
=============================================================================
