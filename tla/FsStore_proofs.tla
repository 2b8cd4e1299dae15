--------------------------- MODULE FsStore_proofs ---------------------------
(***************************************************************************)
(* Proofs about FsStore for any number of processes, networks, names,       *)
(* hashes and records, and any calls.                                       *)
(***************************************************************************)
EXTENDS FsStore, TLAPS

\* A call has the fields its operation needs.
LEMMA CallFields ==
    ASSUME NEW c \in Asked
    PROVE  /\ c # NoCall
           /\ c.op \in {"read", "remove", "write", "list", "listAll", "prune",
                        "writeSources", "readSources"}
           /\ c.op \in {"read", "remove", "write"} => c.slot \in Slots
           /\ c.op = "write" => c.rec \in Recs
           /\ c.op \in {"list", "listAll", "prune"} => c.nets \subseteq Networks
           /\ c.op = "prune" => c.nets = Networks
           /\ c.op \in {"writeSources", "readSources"} => c.hash \in Hashes
<1>1. c \in Calls /\ c # NoCall
  BY FilesAssumption
<1>2. QED
  BY <1>1 DEF Calls

LEMMA SlotFields == \A s \in Slots : s.network \in Networks
BY DEF Slots

-----------------------------------------------------------------------------
(* Types, and where a call of each operation can be.                        *)
Stations == [read |-> {"exists", "open", "done", "threw"},
             remove |-> {"exists", "rm", "done", "threw"},
             write |-> {"temp", "rename", "done"},
             list |-> {"root", "readdir", "done"},
             listAll |-> {"root", "readdir", "done"},
             prune |-> {"root", "readdir", "unlink", "done", "threw"},
             writeSources |-> {"exists", "temp", "rename", "done"},
             readSources |-> {"exists", "open", "done", "threw"}]

Located == \A p \in Procs : pc[p] # "idle" =>
               call[p] \in Asked /\ pc[p] \in Stations[call[p].op]

\* A record is renamed into a directory that its call has made: none is ever removed.
MadeFirst == \A p \in Procs : pc[p] = "rename" /\ call[p].op = "write" =>
                 call[p].slot.network \in made
FilesInv == TypeOK /\ Located /\ MadeFirst

LEMMA NothingLoaded == NoSlots \in Loaded
<1>1. NoSlots \in [{} -> Recs]
  BY DEF NoSlots
<1>2. QED
  BY <1>1 DEF Loaded

\* One more file is loaded.
LEMMA LoadOne ==
    ASSUME NEW g \in Loaded, NEW s \in Slots, NEW r \in Recs
    PROVE  [t \in DOMAIN g \union {s} |-> IF t = s THEN r ELSE g[t]] \in Loaded
<1>1. PICK S \in SUBSET Slots : g \in [S -> Recs]
  BY DEF Loaded
<1>2. [t \in DOMAIN g \union {s} |-> IF t = s THEN r ELSE g[t]] \in [S \union {s} -> Recs]
  BY <1>1
<1>3. S \union {s} \in SUBSET Slots
  OBVIOUS
<1>4. QED
  BY <1>2, <1>3 DEF Loaded

LEMMA LoadFirst ==
    ASSUME NEW s \in Slots, NEW r \in Recs
    PROVE  [t \in {s} |-> r] \in Loaded
<1>1. [t \in {s} |-> r] \in [{s} -> Recs] /\ {s} \in SUBSET Slots
  OBVIOUS
<1>2. QED
  BY <1>1 DEF Loaded

LEMMA LoadedFields ==
    ASSUME NEW g \in Loaded
    PROVE  /\ DOMAIN g \subseteq Slots
           /\ \A s \in DOMAIN g : g[s] \in Recs
BY DEF Loaded

LEMMA FilesInit == Init => FilesInv
<1> SUFFICES ASSUME Init PROVE FilesInv
  OBVIOUS
<1>1. file \in [Slots -> Content]
  BY FilesAssumption DEF Init, Content
<1>2. got \in [Procs -> Loaded]
  BY NothingLoaded DEF Init
<1>3. QED
  BY <1>1, <1>2, FilesAssumption DEF Init, FilesInv, TypeOK, Located, MadeFirst, PC

\* What every system call has in common.
LEMMA ObserveTyped ==
    ASSUME FilesInv, pc' \in [Procs -> PC], file' \in [Slots -> Content], Observe
    PROVE  window' \in [Procs -> [Slots -> SUBSET Content]]
BY DEF FilesInv, TypeOK, Observe

LEMMA StartTyped ==
    ASSUME FilesInv, NEW p \in Procs, NEW c \in Asked, Start(p, c)
    PROVE  FilesInv'
<1>1. FirstStep(c.op) \in Stations[c.op] /\ FirstStep(c.op) \in PC \ {"idle"}
  BY CallFields DEF FirstStep, Stations, PC
<1>2. pc' \in [Procs -> PC]
  BY <1>1 DEF Start, Goto, FilesInv, TypeOK
<1>3. window' \in [Procs -> [Slots -> SUBSET Content]]
  BY <1>2, ObserveTyped DEF Start, disk, FilesInv, TypeOK
<1>4. calls' \in 0..MaxCalls
  BY FilesAssumption DEF Start, FilesInv, TypeOK
<1>5. QED
  <2>1. TypeOK' /\ Located'
    BY <1>1, <1>2, <1>3, <1>4, CallFields
    DEF Start, Goto, FilesInv, TypeOK, Located, disk, scan
  <2>2. FirstStep(c.op) # "rename"
    BY CallFields DEF FirstStep
  <2>3. MadeFirst'
    BY <2>2 DEF Start, Goto, FilesInv, TypeOK, MadeFirst, disk
  <2>4. QED
    BY <2>1, <2>3 DEF FilesInv

LEMMA ForgetTyped ==
    ASSUME FilesInv, NEW p \in Procs, Forget(p)
    PROVE  FilesInv'
<1>1. pc' \in [Procs -> PC]
  BY DEF Forget, Goto, FilesInv, TypeOK, PC
<1>2. window' \in [Procs -> [Slots -> SUBSET Content]]
  BY <1>1, ObserveTyped DEF Forget, disk, FilesInv, TypeOK
<1>3. QED
  BY <1>1, <1>2, NothingLoaded DEF Forget, Goto, FilesInv, TypeOK, Located, MadeFirst, disk

\* A system call of a call under way: what has to be shown of it.
LEMMA MoveTyped ==
    ASSUME FilesInv, NEW p \in Procs, pc[p] # "idle",
           NEW l \in Stations[call[p].op], Goto(p, l), Observe,
           UNCHANGED <<call, calls>>,
           l = "rename" /\ call[p].op = "write" => call[p].slot.network \in made',
           file' \in [Slots -> Content], made \subseteq made', made' \subseteq Networks,
           blobs' \subseteq Hashes,
           \A s \in Slots : file'[s] # NoFile => s.network \in made',
           dirs' \in [Procs -> SUBSET Networks], found' \in [Procs -> SUBSET Slots],
           doomed' \in [Procs -> SUBSET Hashes],
           got' \in [Procs -> Loaded]
    PROVE  FilesInv'
<1>1. call[p] \in Asked
  BY DEF FilesInv, Located
<1>2. l \in PC \ {"idle"}
  BY <1>1, CallFields DEF Stations, PC
<1>3. pc' \in [Procs -> PC]
  BY <1>2 DEF Goto, FilesInv, TypeOK
<1>4. window' \in [Procs -> [Slots -> SUBSET Content]]
  BY <1>3, ObserveTyped
<1>5. TypeOK'
  BY <1>2, <1>3, <1>4 DEF Goto, FilesInv, TypeOK
<1>6. Located'
  BY <1>1, <1>2 DEF Goto, FilesInv, TypeOK, Located
<1>7. MadeFirst'
  BY <1>2 DEF Goto, FilesInv, TypeOK, MadeFirst
<1>8. QED
  BY <1>5, <1>6, <1>7 DEF FilesInv

\* Where a call is tells which operation it can be of.
LEMMA Ops ==
    ASSUME FilesInv, NEW p \in Procs, pc[p] # "idle"
    PROVE  /\ call[p] \in Asked /\ pc[p] \in Stations[call[p].op]
           /\ pc[p] = "exists" => call[p].op \in {"read", "remove", "writeSources", "readSources"}
           /\ pc[p] = "open" => call[p].op \in {"read", "readSources"}
           /\ pc[p] = "rm" => call[p].op = "remove"
           /\ pc[p] \in {"temp", "rename"} => call[p].op \in {"write", "writeSources"}
           /\ pc[p] \in {"root", "readdir"} => call[p].op \in {"list", "listAll", "prune"}
           /\ pc[p] = "unlink" => call[p].op = "prune"
           /\ pc[p] = "threw" => call[p].op \in {"read", "remove", "readSources", "prune"}
BY CallFields DEF FilesInv, Located, Stations

Quiet(p) == \/ Exists(p) \/ OpenSources(p) \/ NoSourcesDir(p) \/ Listed(p) \/ Pruned(p)

\* A step that changes only where the call is.
LEMMA QuietTyped ==
    ASSUME FilesInv, NEW p \in Procs, Quiet(p)
    PROVE  FilesInv'
<1>1. /\ pc[p] # "idle" /\ Observe /\ UNCHANGED <<disk, call, scan, calls>>
      /\ \E l \in Stations[call[p].op] \ {"rename"} : Goto(p, l)
  <2>1. CASE Exists(p)
    BY <2>1, Ops DEF Exists, Stations
  <2>2. CASE OpenSources(p)
    BY <2>2, Ops DEF OpenSources, Stations
  <2>3. CASE NoSourcesDir(p) \/ Pruned(p)
    BY <2>3, Ops DEF NoSourcesDir, Pruned, Stations
  <2>4. CASE Listed(p)
    BY <2>4, Ops DEF Listed, Scanned, Stations
  <2>5. QED
    BY <2>1, <2>2, <2>3, <2>4 DEF Quiet
<1>2. QED
  BY <1>1, MoveTyped DEF disk, scan, FilesInv, TypeOK

LEMMA OpenTyped ==
    ASSUME FilesInv, NEW p \in Procs, Open(p)
    PROVE  FilesInv'
<1>1. pc[p] = "open" /\ call[p].op = "read" /\ call[p].slot \in Slots
  BY Ops, CallFields DEF Open
<1>2. \E l \in Stations[call[p].op] \ {"rename"} : Goto(p, l)
  BY <1>1 DEF Open, Stations
<1>3. got' \in [Procs -> Loaded]
  <2>1. CASE file[call[p].slot] \in Recs
    <3>1. got' = [got EXCEPT ![p] = [s \in {call[p].slot} |-> file[call[p].slot]]]
      BY <2>1 DEF Open
    <3>2. QED
      BY <1>1, <2>1, <3>1, LoadFirst DEF FilesInv, TypeOK
  <2>2. CASE file[call[p].slot] \notin Recs
    BY <2>2 DEF Open, FilesInv, TypeOK
  <2>3. QED
    BY <2>1, <2>2
<1>4. QED
  BY <1>1, <1>2, <1>3, MoveTyped DEF Open, disk, FilesInv, TypeOK

LEMMA RmTyped ==
    ASSUME FilesInv, NEW p \in Procs, Rm(p)
    PROVE  FilesInv'
<1>1. pc[p] = "rm" /\ call[p].op = "remove"
  BY Ops DEF Rm
<1>2. \E l \in Stations[call[p].op] \ {"rename"} : Goto(p, l)
  BY <1>1 DEF Rm, Stations
<1>3. file' \in [Slots -> Content]
  BY DEF Rm, FilesInv, TypeOK, Content
<1>4. \A s \in Slots : file'[s] # NoFile => s.network \in made'
  BY DEF Rm, FilesInv, TypeOK
<1>5. QED
  BY <1>1, <1>2, <1>3, <1>4, MoveTyped DEF Rm, scan, FilesInv, TypeOK

LEMMA WriteTempTyped ==
    ASSUME FilesInv, NEW p \in Procs, WriteTemp(p)
    PROVE  FilesInv'
<1>1. pc[p] = "temp" /\ "rename" \in Stations[call[p].op] /\ Goto(p, "rename")
  BY Ops DEF WriteTemp, Stations
<1>2. /\ made \subseteq made' /\ made' \subseteq Networks
      /\ call[p].op = "write" => call[p].slot.network \in made'
  BY <1>1, Ops, CallFields, SlotFields DEF WriteTemp, FilesInv, TypeOK
<1>3. QED
  BY <1>1, <1>2, MoveTyped DEF WriteTemp, scan, FilesInv, TypeOK

LEMMA RenameTyped ==
    ASSUME FilesInv, NEW p \in Procs, Rename(p)
    PROVE  FilesInv'
<1>1. pc[p] = "rename" /\ "done" \in Stations[call[p].op] /\ Goto(p, "done")
  BY Ops DEF Rename, Stations
<1>2. call[p] \in Asked /\ call[p].op \in {"write", "writeSources"}
  BY <1>1, Ops
<1>3. /\ file' \in [Slots -> Content] /\ blobs' \subseteq Hashes
      /\ \A s \in Slots : file'[s] # NoFile => s.network \in made'
  <2>1. CASE call[p].op = "write"
    <3>1. call[p].slot \in Slots /\ call[p].rec \in Content
      BY <1>2, <2>1, CallFields DEF Content
    <3>2. call[p].slot.network \in made
      BY <1>1, <1>2, <2>1 DEF FilesInv, MadeFirst
    <3>3. QED
      BY <2>1, <3>1, <3>2 DEF Rename, FilesInv, TypeOK
  <2>2. CASE call[p].op = "writeSources"
    BY <1>2, <2>2, CallFields DEF Rename, FilesInv, TypeOK
  <2>3. QED
    BY <1>2, <2>1, <2>2
<1>4. QED
  BY <1>1, <1>3, MoveTyped DEF Rename, scan, FilesInv, TypeOK

LEMMA RootTyped ==
    ASSUME FilesInv, NEW p \in Procs, Root(p)
    PROVE  FilesInv'
<1>1. /\ pc[p] = "root" /\ call[p] \in Asked
      /\ call[p].op \in {"list", "listAll", "prune"}
  BY Ops DEF Root
<1>2. "readdir" \in Stations[call[p].op] /\ call[p].nets \subseteq Networks
  BY <1>1, CallFields DEF Stations
<1>3. dirs' \in [Procs -> SUBSET Networks]
  BY <1>2 DEF Root, FilesInv, TypeOK
<1>4. QED
  BY <1>1, <1>2, <1>3, MoveTyped DEF Root, disk, FilesInv, TypeOK

\* A directory or a file more is read, and the listing goes on.
LEMMA ScanTyped ==
    ASSUME FilesInv, NEW p \in Procs, ReadDir(p) \/ Load(p)
    PROVE  FilesInv'
<1>1. /\ pc[p] = "readdir" /\ pc[p] \in Stations[call[p].op]
      /\ Observe /\ UNCHANGED <<disk, call, doomed, calls>>
  BY Ops DEF ReadDir, Load
<1>2. Goto(p, pc[p])
  BY DEF ReadDir, Load, Goto, FilesInv, TypeOK
<1>3. /\ dirs' \in [Procs -> SUBSET Networks]
      /\ found' \in [Procs -> SUBSET Slots]
      /\ got' \in [Procs -> Loaded]
  <2>1. CASE ReadDir(p)
    BY <2>1 DEF ReadDir, FilesInv, TypeOK
  <2>2. CASE Load(p)
    <3>1. /\ dirs' \in [Procs -> SUBSET Networks]
          /\ found' \in [Procs -> SUBSET Slots]
      BY <2>2 DEF Load, FilesInv, TypeOK
    <3>2. PICK s \in found[p] : got' = IF file[s] \in Recs
                 THEN [got EXCEPT ![p] = [t \in DOMAIN @ \union {s} |->
                                            IF t = s THEN file[s] ELSE @[t]]]
                 ELSE got
      BY <2>2 DEF Load
    <3>3. got[p] \in Loaded /\ s \in Slots
      BY DEF FilesInv, TypeOK
    <3>4. CASE file[s] \in Recs
      <4>1. [t \in DOMAIN got[p] \union {s} |-> IF t = s THEN file[s] ELSE got[p][t]] \in Loaded
        BY <3>3, <3>4, LoadOne
      <4>2. QED
        BY <3>1, <3>2, <3>4, <4>1 DEF FilesInv, TypeOK
    <3>5. CASE file[s] \notin Recs
      BY <3>1, <3>2, <3>5 DEF FilesInv, TypeOK
    <3>6. QED
      BY <3>4, <3>5
  <2>3. QED
    BY <2>1, <2>2
<1>4. QED
  BY <1>1, <1>2, <1>3, MoveTyped DEF disk, FilesInv, TypeOK

LEMMA FindUnreferencedTyped ==
    ASSUME FilesInv, NEW p \in Procs, FindUnreferenced(p)
    PROVE  FilesInv'
<1>1. pc[p] = "readdir" /\ call[p].op = "prune" /\ "unlink" \in Stations[call[p].op]
  BY DEF FindUnreferenced, Scanned, Stations
<1>2. doomed' \in [Procs -> SUBSET Hashes]
  BY DEF FindUnreferenced, FilesInv, TypeOK
<1>3. QED
  BY <1>1, <1>2, MoveTyped DEF FindUnreferenced, disk, FilesInv, TypeOK

LEMMA UnlinkTyped ==
    ASSUME FilesInv, NEW p \in Procs, Unlink(p)
    PROVE  FilesInv'
<1>1. pc[p] = "unlink" /\ call[p].op = "prune"
  BY Ops DEF Unlink
<1>2. \E l \in {"unlink", "threw"} : Goto(p, l)
  <2>1. pc' = pc => Goto(p, "unlink")
    BY <1>1 DEF Goto, FilesInv, TypeOK
  <2>2. QED
    BY <2>1 DEF Unlink
<1>3. {"unlink", "threw"} \subseteq Stations[call[p].op]
  BY <1>1 DEF Stations
<1>4. blobs' \subseteq Hashes /\ doomed' \in [Procs -> SUBSET Hashes]
  BY DEF Unlink, FilesInv, TypeOK
<1>5. Observe /\ UNCHANGED <<file, made, call, dirs, found, got, calls>>
  BY DEF Unlink
<1>6. QED
  BY <1>1, <1>2, <1>3, <1>4, <1>5, MoveTyped DEF FilesInv, TypeOK

LEMMA FilesStep == FilesInv /\ [Next]_vars => FilesInv'
<1> SUFFICES ASSUME FilesInv, [Next]_vars PROVE FilesInv'
  OBVIOUS
<1>1. CASE UNCHANGED vars
  BY <1>1 DEF vars, disk, scan, FilesInv, TypeOK, Located, MadeFirst
<1>2. ASSUME NEW p \in Procs, NEW c \in Asked, Start(p, c) PROVE FilesInv'
  BY <1>2, StartTyped
<1>3. ASSUME NEW p \in Procs, Quiet(p) PROVE FilesInv'
  BY <1>3, QuietTyped
<1>4. ASSUME NEW p \in Procs, Open(p) \/ Rm(p) \/ WriteTemp(p) \/ Rename(p) PROVE FilesInv'
  BY <1>4, OpenTyped, RmTyped, WriteTempTyped, RenameTyped
<1>5. ASSUME NEW p \in Procs,
             Root(p) \/ ReadDir(p) \/ Load(p) \/ FindUnreferenced(p) \/ Unlink(p)
      PROVE  FilesInv'
  BY <1>5, RootTyped, ScanTyped, FindUnreferencedTyped, UnlinkTyped
<1>6. ASSUME NEW p \in Procs, Return(p) \/ Crash(p) PROVE FilesInv'
  BY <1>6, ForgetTyped DEF Return, Crash
<1>7. QED
  BY <1>1, <1>2, <1>3, <1>4, <1>5, <1>6 DEF Next, Quiet

\* The disk and the calls keep their types, and a record file is never without its
\* network's directory.
THEOREM FilesTypeCorrect == Spec => []TypeOK
<1>1. Spec => []FilesInv
  BY FilesInit, FilesStep, PTL DEF Spec
<1>2. FilesInv => TypeOK
  BY DEF FilesInv
<1>3. QED
  BY <1>1, <1>2, PTL

-----------------------------------------------------------------------------
(* What a call under way knows, against what the files held meanwhile.  The *)
(* window only grows, so what one process knows no other process disturbs.  *)

Listing == {"list", "listAll", "prune"}

\* The file's content now, and all that was loaded, was there during the call.
Sees(p) == pc[p] # "idle" =>
    \A s \in Slots : /\ file[s] \in window[p][s]
                     /\ s \in DOMAIN got[p] => got[p][s] \in window[p][s]

Fresh(p) == pc[p] \in {"idle", "root"} =>
                dirs[p] = {} /\ found[p] = {} /\ got[p] = NoSlots

Within(p) == pc[p] # "idle" /\ call[p].op \in Listing =>
    /\ dirs[p] \subseteq call[p].nets
    /\ \A s \in found[p] \union DOMAIN got[p] : s.network \in call[p].nets

\* A slot is still to be read, still to be loaded, loaded, or was once unreadable.
Covers(p) == \A s \in Slots : s.network \in call[p].nets =>
    \/ s.network \in dirs[p] \/ s \in found[p] \/ s \in DOMAIN got[p]
    \/ window[p][s] \intersect {NoFile, Damaged} # {}

Covered(p) == /\ pc[p] = "readdir" => Covers(p)
              /\ pc[p] = "done" /\ call[p].op \in {"list", "listAll"} =>
                    Covers(p) /\ dirs[p] = {} /\ found[p] = {}

\* What made the call go on to open or remove its file.
Founded(p) == pc[p] \in {"open", "rm"} /\ call[p].op \in {"read", "remove"} =>
    \E c \in window[p][call[p].slot] : c # NoFile

Spared(p) == pc[p] = "unlink" =>
    \A h \in doomed[p], s \in Slots : \E c \in window[p][s] : c \notin Recs \/ SrcOf[c] # h

Justified(p) == pc[p] = "threw" =>
    CASE call[p].op \in {"read", "remove"} ->
           \/ Damaged \in window[p][call[p].slot] /\ call[p].op = "read"
           \/ \E c, d \in window[p][call[p].slot] : c # d
      [] OTHER -> call[p].op \in {"readSources", "prune"}

Watched(p) == /\ Sees(p) /\ Fresh(p) /\ Within(p) /\ Covered(p)
              /\ Founded(p) /\ Spared(p) /\ Justified(p)

WatchInv == FilesInv /\ \A p \in Procs : Watched(p)

LEMMA WatchInit == Init => WatchInv
<1> SUFFICES ASSUME Init PROVE \A p \in Procs : Watched(p)
  BY FilesInit DEF WatchInv
<1>1. QED
  BY DEF Init, Watched, Sees, Fresh, Within, Covered, Founded, Spared, Justified

LEMMA Observed ==
    ASSUME FilesInv, Observe, NEW q \in Procs, pc'[q] # "idle", NEW s \in Slots
    PROVE  window'[q][s] = window[q][s] \union {file'[s]}
BY DEF Observe

\* A process that is not concerned, and what it has found out, stay as they are.
LEMMA Undisturbed ==
    ASSUME FilesInv, NEW q \in Procs, Watched(q), Observe,
           pc'[q] = pc[q], call'[q] = call[q], dirs'[q] = dirs[q], found'[q] = found[q],
           got'[q] = got[q], doomed'[q] = doomed[q]
    PROVE  Watched(q)'
<1>1. CASE pc[q] = "idle"
  BY <1>1 DEF Watched, Sees, Fresh, Within, Covered, Founded, Spared, Justified
<1>2. CASE pc[q] # "idle"
  <2>1. \A s \in Slots : window[q][s] \subseteq window'[q][s] /\ file'[s] \in window'[q][s]
    BY <1>2, Observed
  <2>2. Sees(q)' /\ Fresh(q)' /\ Within(q)'
    BY <1>2, <2>1 DEF Watched, Sees, Fresh, Within
  <2>3. Covered(q)'
    BY <2>1 DEF Watched, Covered, Covers
  <2>4. call[q].op \in {"read", "remove"} => call[q].slot \in Slots
    BY <1>2, Ops, CallFields
  <2>5. Founded(q)' /\ Spared(q)' /\ Justified(q)'
    BY <2>1, <2>4 DEF Watched, Founded, Spared, Justified
  <2>6. QED
    BY <2>2, <2>3, <2>5 DEF Watched
<1>3. QED
  BY <1>1, <1>2

\* A step to somewhere else that reads nothing into the call's lists.
LEMMA MovedOn ==
    ASSUME FilesInv, NEW p \in Procs, Watched(p), Observe, pc[p] # "idle",
           pc'[p] \notin {"idle", "root"},
           UNCHANGED <<call, dirs, found, got>>
    PROVE  /\ Sees(p)' /\ Fresh(p)' /\ Within(p)'
           /\ Covers(p) => Covers(p)'
           /\ \A s \in Slots : window[p][s] \subseteq window'[p][s]
           /\ \A s \in Slots : file[s] \in window'[p][s] /\ file'[s] \in window'[p][s]
<1>1. \A s \in Slots : window'[p][s] = window[p][s] \union {file'[s]}
  BY Observed
<1>2. Sees(p)' /\ Fresh(p)' /\ Within(p)'
  BY <1>1 DEF Watched, Sees, Fresh, Within
<1>3. Covers(p) => Covers(p)'
  BY <1>1 DEF Covers
<1>4. \A s \in Slots : file[s] \in window[p][s]
  BY DEF Watched, Sees
<1>5. QED
  BY <1>1, <1>2, <1>3, <1>4

LEMMA StartWatched ==
    ASSUME FilesInv, NEW p \in Procs, NEW c \in Asked, Start(p, c), Watched(p)
    PROVE  Watched(p)'
<1>1. /\ pc'[p] = FirstStep(c.op) /\ call'[p] = c /\ dirs'[p] = {} /\ found'[p] = {}
      /\ got'[p] = NoSlots
  BY DEF Start, Goto, FilesInv, TypeOK, Watched, Fresh, scan
<1>2. FirstStep(c.op) \in {"exists", "temp", "root"}
  BY CallFields DEF FirstStep
<1>3. \A s \in Slots : file'[s] \in window'[p][s]
  BY <1>1, <1>2, Observed DEF Start
<1>4. DOMAIN NoSlots = {}
  BY DEF NoSlots
<1>5. QED
  BY <1>1, <1>2, <1>3, <1>4
  DEF Watched, Sees, Fresh, Within, Covered, Founded, Spared, Justified

LEMMA ForgetWatched ==
    ASSUME FilesInv, NEW p \in Procs, Forget(p)
    PROVE  Watched(p)'
<1>1. pc'[p] = "idle" /\ dirs'[p] = {} /\ found'[p] = {} /\ got'[p] = NoSlots
  BY DEF Forget, Goto, FilesInv, TypeOK
<1>2. QED
  BY <1>1 DEF Watched, Sees, Fresh, Within, Covered, Founded, Spared, Justified

LEMMA ExistsWatched ==
    ASSUME FilesInv, NEW p \in Procs, Exists(p), Watched(p)
    PROVE  Watched(p)'
<1>1. /\ pc[p] = "exists" /\ Observe /\ UNCHANGED <<disk, call, scan, calls>>
      /\ call[p] \in Asked
      /\ call[p].op \in {"read", "remove", "writeSources", "readSources"}
  BY Ops DEF Exists
<1>2. pc'[p] \in {"open", "rm", "temp", "done"}
  BY <1>1 DEF Exists, Goto, FilesInv, TypeOK
<1>3. /\ Sees(p)' /\ Fresh(p)' /\ Within(p)'
      /\ \A s \in Slots : file[s] \in window'[p][s]
  BY <1>1, <1>2, MovedOn DEF scan
<1>4. Covered(p)' /\ Spared(p)' /\ Justified(p)'
  BY <1>1, <1>2 DEF Covered, Spared, Justified
<1>5. Founded(p)'
  <2>1. CASE call[p].op \in {"read", "remove"} /\ There(call[p])
    <3>1. call[p].slot \in Slots /\ file[call[p].slot] # NoFile
      BY <1>1, <2>1, CallFields DEF There
    <3>2. QED
      BY <1>1, <1>3, <3>1 DEF Founded
  <2>2. CASE call[p].op \in {"read", "remove"} /\ ~There(call[p])
    <3>1. pc'[p] = "done"
      BY <1>1, <2>2 DEF Exists, Goto, FilesInv, TypeOK
    <3>2. QED
      BY <3>1 DEF Founded
  <2>3. CASE call[p].op \notin {"read", "remove"}
    BY <1>1, <2>3 DEF Founded
  <2>4. QED
    BY <2>1, <2>2, <2>3
<1>6. QED
  BY <1>3, <1>4, <1>5 DEF Watched

LEMMA OpenWatched ==
    ASSUME FilesInv, NEW p \in Procs, Open(p), Watched(p)
    PROVE  Watched(p)'
<1>1. /\ pc[p] = "open" /\ Observe /\ UNCHANGED <<disk, call, dirs, found, doomed, calls>>
      /\ call[p].op = "read" /\ call[p].slot \in Slots
  BY Ops, CallFields DEF Open
<1> DEFINE s == call[p].slot
<1>2. CASE file[s] \in Recs
  <2>1. pc'[p] = "done" /\ got'[p] = [t \in {s} |-> file[s]]
    BY <1>2 DEF Open, Goto, FilesInv, TypeOK
  <2>2. \A t \in Slots : window'[p][t] = window[p][t] \union {file[t]}
    BY <1>1, <2>1, Observed DEF disk
  <2>3. QED
    BY <1>1, <2>1, <2>2
    DEF Watched, Sees, Fresh, Within, Covered, Founded, Spared, Justified, Listing, disk
<1>3. CASE file[s] \notin Recs
  <2>1. pc'[p] = "threw" /\ got' = got
    BY <1>3 DEF Open, Goto, FilesInv, TypeOK
  <2>2. /\ Sees(p)' /\ Fresh(p)' /\ Within(p)'
        /\ \A t \in Slots : window[p][t] \subseteq window'[p][t] /\ file[t] \in window'[p][t]
    BY <1>1, <2>1, MovedOn
  <2>3. file[s] \in {NoFile, Damaged}
    BY <1>1, <1>3 DEF FilesInv, TypeOK, Content
  <2>4. \E c \in window[p][s] : c # NoFile
    BY <1>1 DEF Watched, Founded
  <2>5. Justified(p)'
    <3>1. CASE file[s] = Damaged
      BY <1>1, <2>2, <3>1 DEF Justified
    <3>2. CASE file[s] = NoFile
      <4>1. \E c, d \in window'[p][s] : c # d
        BY <1>1, <2>2, <2>4, <3>2
      <4>2. QED
        BY <1>1, <4>1 DEF Justified
    <3>3. QED
      BY <2>3, <3>1, <3>2
  <2>6. QED
    BY <2>1, <2>2, <2>5 DEF Watched, Covered, Founded, Spared
<1>4. QED
  BY <1>2, <1>3

LEMMA RmWatched ==
    ASSUME FilesInv, NEW p \in Procs, Rm(p), Watched(p)
    PROVE  Watched(p)'
<1>1. /\ pc[p] = "rm" /\ Observe /\ UNCHANGED <<made, blobs, call, scan, calls>>
      /\ call[p].op = "remove" /\ call[p].slot \in Slots
  BY Ops, CallFields DEF Rm
<1>2. /\ pc'[p] \in {"done", "threw"}
      /\ pc'[p] = "threw" => file[call[p].slot] = NoFile
  BY <1>1 DEF Rm, Goto, There, FilesInv, TypeOK
<1>3. /\ Sees(p)' /\ Fresh(p)' /\ Within(p)'
      /\ \A t \in Slots : window[p][t] \subseteq window'[p][t] /\ file[t] \in window'[p][t]
  BY <1>1, <1>2, MovedOn DEF scan
<1>4. \E c \in window[p][call[p].slot] : c # NoFile
  BY <1>1 DEF Watched, Founded
<1>5. Justified(p)'
  <2>1. CASE pc'[p] = "threw"
    <3>1. \E c, d \in window'[p][call[p].slot] : c # d
      BY <1>1, <1>2, <1>3, <1>4, <2>1
    <3>2. QED
      BY <1>1, <3>1 DEF Justified
  <2>2. CASE pc'[p] = "done"
    BY <2>2 DEF Justified
  <2>3. QED
    BY <1>2, <2>1, <2>2
<1>6. QED
  BY <1>1, <1>2, <1>3, <1>5 DEF Watched, Covered, Founded, Spared

\* Calls that write, and reads of sources.
LEMMA PlainWatched ==
    ASSUME FilesInv, NEW p \in Procs, Watched(p),
           OpenSources(p) \/ WriteTemp(p) \/ Rename(p)
    PROVE  Watched(p)'
<1>1. /\ pc[p] \in {"open", "temp", "rename"} /\ Observe /\ UNCHANGED <<call, scan>>
      /\ call[p].op \in {"readSources", "write", "writeSources"}
  BY Ops DEF OpenSources, WriteTemp, Rename
<1>2. /\ pc'[p] \in {"done", "threw", "rename"}
      /\ pc'[p] = "threw" => call[p].op = "readSources"
  BY DEF OpenSources, WriteTemp, Rename, Goto, FilesInv, TypeOK
<1>3. Sees(p)' /\ Fresh(p)' /\ Within(p)'
  BY <1>1, <1>2, MovedOn DEF scan
<1>4. QED
  BY <1>1, <1>2, <1>3 DEF Watched, Covered, Founded, Spared, Justified

LEMMA RootWatched ==
    ASSUME FilesInv, NEW p \in Procs, Root(p), Watched(p)
    PROVE  Watched(p)'
<1>1. /\ pc[p] = "root" /\ Observe /\ UNCHANGED <<disk, call, found, got, doomed, calls>>
      /\ call[p].op \in Listing
  BY Ops DEF Root, Listing
<1>2. /\ pc'[p] = "readdir" /\ dirs'[p] = call[p].nets \intersect made
      /\ found[p] = {} /\ DOMAIN got[p] = {}
  BY <1>1 DEF Root, Goto, FilesInv, TypeOK, Watched, Fresh, NoSlots
<1>3. \A s \in Slots : window'[p][s] = window[p][s] \union {file[s]}
  BY <1>1, <1>2, Observed DEF disk
<1>4. Covers(p)'
  <2> SUFFICES ASSUME NEW s \in Slots, s.network \in call[p].nets, s.network \notin made
               PROVE  NoFile \in window'[p][s]
    BY <1>1, <1>2 DEF Covers
  <2>1. file[s] = NoFile
    BY DEF FilesInv, TypeOK
  <2>2. QED
    BY <1>3, <2>1
<1>5. Sees(p)' /\ Within(p)'
  BY <1>1, <1>2, <1>3 DEF Sees, Within, disk
<1>6. QED
  BY <1>1, <1>2, <1>4, <1>5 DEF Watched, Fresh, Covered, Founded, Spared, Justified

LEMMA ReadDirWatched ==
    ASSUME FilesInv, NEW p \in Procs, ReadDir(p), Watched(p)
    PROVE  Watched(p)'
<1>1. /\ pc[p] = "readdir" /\ Observe /\ UNCHANGED <<disk, pc, call, got, doomed, calls>>
      /\ call[p].op \in Listing
  BY Ops DEF ReadDir, Listing
<1>2. PICK n \in dirs[p] :
         /\ dirs' = [dirs EXCEPT ![p] = @ \ {n}]
         /\ found' = [found EXCEPT ![p] = @ \union
                          {s \in Slots : s.network = n /\ file[s] # NoFile}]
  BY DEF ReadDir
<1>3. /\ dirs'[p] = dirs[p] \ {n}
      /\ found'[p] = found[p] \union {s \in Slots : s.network = n /\ file[s] # NoFile}
  BY <1>2 DEF FilesInv, TypeOK
<1>4. \A s \in Slots : window'[p][s] = window[p][s] \union {file[s]}
  BY <1>1, Observed DEF disk
<1>5. Covers(p)'
  <2> SUFFICES ASSUME NEW s \in Slots, s.network \in call[p].nets
               PROVE  \/ s.network \in dirs'[p] \/ s \in found'[p] \/ s \in DOMAIN got[p]
                      \/ window'[p][s] \intersect {NoFile, Damaged} # {}
    BY <1>1 DEF Covers
  <2>1. \/ s.network \in dirs[p] \/ s \in found[p] \/ s \in DOMAIN got[p]
        \/ window[p][s] \intersect {NoFile, Damaged} # {}
    BY <1>1 DEF Watched, Covered, Covers
  <2>2. CASE s.network = n
    BY <1>3, <1>4, <2>2
  <2>3. CASE s.network # n
    BY <1>3, <1>4, <2>1, <2>3
  <2>4. QED
    BY <2>2, <2>3
<1>6. Sees(p)' /\ Within(p)'
  BY <1>1, <1>3, <1>4 DEF Watched, Sees, Within, disk
<1>7. QED
  BY <1>1, <1>5, <1>6 DEF Watched, Fresh, Covered, Founded, Spared, Justified

LEMMA LoadWatched ==
    ASSUME FilesInv, NEW p \in Procs, Load(p), Watched(p)
    PROVE  Watched(p)'
<1>1. /\ pc[p] = "readdir" /\ Observe /\ UNCHANGED <<disk, pc, call, dirs, doomed, calls>>
      /\ call[p].op \in Listing
  BY Ops DEF Load, Listing
<1>2. PICK s \in found[p] :
         /\ found' = [found EXCEPT ![p] = @ \ {s}]
         /\ got' = IF file[s] \in Recs
                   THEN [got EXCEPT ![p] = [t \in DOMAIN @ \union {s} |->
                                              IF t = s THEN file[s] ELSE @[t]]]
                   ELSE got
  BY DEF Load
<1>3. found'[p] = found[p] \ {s} /\ s \in Slots /\ s.network \in call[p].nets
  BY <1>1, <1>2 DEF FilesInv, TypeOK, Watched, Within
<1>4. \A t \in Slots : window'[p][t] = window[p][t] \union {file[t]}
  BY <1>1, Observed DEF disk
<1>5. \A t \in Slots : t.network \in call[p].nets =>
         \/ t.network \in dirs[p] \/ t \in found[p] \/ t \in DOMAIN got[p]
         \/ window[p][t] \intersect {NoFile, Damaged} # {}
  BY <1>1 DEF Watched, Covered, Covers
<1>6. CASE file[s] \in Recs
  <2>1. got'[p] = [t \in DOMAIN got[p] \union {s} |-> IF t = s THEN file[s] ELSE got[p][t]]
    BY <1>2, <1>6 DEF FilesInv, TypeOK
  <2>2. Covers(p)'
    BY <1>1, <1>3, <1>4, <1>5, <2>1 DEF Covers
  <2>3. Sees(p)' /\ Within(p)'
    BY <1>1, <1>3, <1>4, <2>1 DEF Watched, Sees, Within, disk
  <2>4. QED
    BY <1>1, <2>2, <2>3 DEF Watched, Fresh, Covered, Founded, Spared, Justified
<1>7. CASE file[s] \notin Recs
  <2>1. got' = got /\ file[s] \in {NoFile, Damaged}
    BY <1>2, <1>3, <1>7 DEF FilesInv, TypeOK, Content
  <2>2. Covers(p)'
    BY <1>1, <1>3, <1>4, <1>5, <2>1 DEF Covers
  <2>3. Sees(p)' /\ Within(p)'
    BY <1>1, <1>3, <1>4, <2>1 DEF Watched, Sees, Within, disk
  <2>4. QED
    BY <1>1, <2>2, <2>3 DEF Watched, Fresh, Covered, Founded, Spared, Justified
<1>8. QED
  BY <1>6, <1>7

LEMMA EndedWatched ==
    ASSUME FilesInv, NEW p \in Procs, Watched(p),
           NoSourcesDir(p) \/ Listed(p) \/ Pruned(p)
    PROVE  Watched(p)'
<1>1. /\ pc[p] # "idle" /\ pc'[p] = "done" /\ Observe /\ UNCHANGED <<call, scan>>
  BY DEF NoSourcesDir, Listed, Pruned, Scanned, Goto, FilesInv, TypeOK
<1>2. Sees(p)' /\ Fresh(p)' /\ Within(p)' /\ (Covers(p) => Covers(p)')
  BY <1>1, MovedOn DEF scan
<1>3. Covered(p)'
  <2>1. CASE call[p].op = "prune"
    BY <1>1, <2>1 DEF Covered
  <2>2. CASE call[p].op # "prune"
    <3>1. Scanned(p)
      BY <2>2, Ops DEF NoSourcesDir, Listed, Pruned
    <3>2. QED
      BY <1>1, <1>2, <3>1 DEF Scanned, Watched, Covered, scan
  <2>3. QED
    BY <2>1, <2>2
<1>4. QED
  BY <1>1, <1>2, <1>3 DEF Watched, Founded, Spared, Justified

\* A prune dooms what no loaded record names: a readable record that named it all
\* along would have been loaded.
LEMMA FindUnreferencedWatched ==
    ASSUME FilesInv, NEW p \in Procs, FindUnreferenced(p), Watched(p)
    PROVE  Watched(p)'
<1>1. /\ pc[p] = "readdir" /\ dirs[p] = {} /\ found[p] = {} /\ pc'[p] = "unlink" /\ Observe
      /\ call[p] \in Asked /\ call[p].op = "prune"
      /\ doomed'[p] = blobs \ Referenced(p)
      /\ UNCHANGED <<disk, call, dirs, found, got, calls>>
  BY Ops DEF FindUnreferenced, Scanned, Goto, FilesInv, TypeOK
<1>2. /\ Sees(p)' /\ Fresh(p)' /\ Within(p)'
      /\ \A s \in Slots : window[p][s] \subseteq window'[p][s]
  BY <1>1, MovedOn
<1>3. Spared(p)'
  <2> SUFFICES ASSUME NEW h \in doomed'[p], NEW s \in Slots
               PROVE  \E c \in window[p][s] : c \notin Recs \/ SrcOf[c] # h
    BY <1>2 DEF Spared
  <2>1. s.network \in call[p].nets
    BY <1>1, CallFields, SlotFields
  <2>2. CASE s \in DOMAIN got[p]
    BY <1>1, <2>2 DEF Watched, Sees, Referenced
  <2>3. CASE s \notin DOMAIN got[p]
    <3>1. window[p][s] \intersect {NoFile, Damaged} # {}
      BY <1>1, <2>1, <2>3 DEF Watched, Covered, Covers
    <3>2. QED
      BY <3>1, FilesAssumption
  <2>4. QED
    BY <2>2, <2>3
<1>4. QED
  BY <1>1, <1>2, <1>3 DEF Watched, Covered, Founded, Justified

LEMMA UnlinkWatched ==
    ASSUME FilesInv, NEW p \in Procs, Unlink(p), Watched(p)
    PROVE  Watched(p)'
<1>1. /\ pc[p] = "unlink" /\ pc'[p] \in {"unlink", "threw"} /\ Observe
      /\ call[p].op = "prune" /\ doomed'[p] \subseteq doomed[p]
      /\ UNCHANGED <<file, made, call, dirs, found, got, calls>>
  BY Ops DEF Unlink, Goto, FilesInv, TypeOK
<1>2. /\ Sees(p)' /\ Fresh(p)' /\ Within(p)'
      /\ \A s \in Slots : window[p][s] \subseteq window'[p][s]
  BY <1>1, MovedOn
<1>3. Spared(p)'
  BY <1>1, <1>2 DEF Watched, Spared
<1>4. QED
  BY <1>1, <1>2, <1>3 DEF Watched, Covered, Founded, Justified

-----------------------------------------------------------------------------
\* The steps of one call.
Moves(p) == \/ \E c \in Asked : Start(p, c)
            \/ Exists(p) \/ Open(p) \/ OpenSources(p) \/ Rm(p)
            \/ WriteTemp(p) \/ Rename(p)
            \/ Root(p) \/ NoSourcesDir(p) \/ ReadDir(p) \/ Load(p) \/ Listed(p)
            \/ FindUnreferenced(p) \/ Unlink(p) \/ Pruned(p)
            \/ Return(p) \/ Crash(p)

LEMMA MoverWatched ==
    ASSUME FilesInv, NEW p \in Procs, Moves(p), Watched(p)
    PROVE  Watched(p)'
<1>1. ASSUME NEW c \in Asked, Start(p, c) PROVE Watched(p)'
  BY <1>1, StartWatched
<1>2. CASE Exists(p) \/ Open(p) \/ Rm(p)
  BY <1>2, ExistsWatched, OpenWatched, RmWatched
<1>3. CASE OpenSources(p) \/ WriteTemp(p) \/ Rename(p)
  BY <1>3, PlainWatched
<1>4. CASE Root(p) \/ ReadDir(p) \/ Load(p)
  BY <1>4, RootWatched, ReadDirWatched, LoadWatched
<1>5. CASE NoSourcesDir(p) \/ Listed(p) \/ Pruned(p)
  BY <1>5, EndedWatched
<1>6. CASE FindUnreferenced(p) \/ Unlink(p)
  BY <1>6, FindUnreferencedWatched, UnlinkWatched
<1>7. CASE Return(p) \/ Crash(p)
  BY <1>7, ForgetWatched DEF Return, Crash
<1>8. QED
  BY <1>1, <1>2, <1>3, <1>4, <1>5, <1>6, <1>7 DEF Moves

\* One process's step leaves what the others know as it was.
LEMMA OthersKeep ==
    ASSUME FilesInv, NEW p \in Procs, Moves(p), NEW q \in Procs, q # p
    PROVE  /\ Observe
           /\ pc'[q] = pc[q] /\ call'[q] = call[q] /\ dirs'[q] = dirs[q]
           /\ found'[q] = found[q] /\ got'[q] = got[q] /\ doomed'[q] = doomed[q]
<1> USE DEF Goto, scan, FilesInv, TypeOK
<1>1. ASSUME NEW c \in Asked, Start(p, c)
      PROVE  /\ Observe
             /\ pc'[q] = pc[q] /\ call'[q] = call[q] /\ UNCHANGED scan
  BY <1>1 DEF Start
<1>2. CASE Exists(p) \/ OpenSources(p) \/ Rm(p) \/ WriteTemp(p) \/ Rename(p) \/ NoSourcesDir(p)
           \/ Listed(p) \/ Pruned(p)
  BY <1>2 DEF Exists, OpenSources, Rm, WriteTemp, Rename, NoSourcesDir, Listed, Pruned
<1>3. CASE Open(p) \/ Root(p) \/ FindUnreferenced(p) \/ Unlink(p)
  BY <1>3 DEF Open, Root, FindUnreferenced, Unlink
<1>4. CASE ReadDir(p)
  BY <1>4 DEF ReadDir
<1>5. CASE Load(p)
  BY <1>5 DEF Load
<1>6. CASE Return(p) \/ Crash(p)
  BY <1>6 DEF Return, Crash, Forget
<1>7. QED
  BY <1>1, <1>2, <1>3, <1>4, <1>5, <1>6 DEF Moves

LEMMA WatchStep == WatchInv /\ [Next]_vars => WatchInv'
<1> SUFFICES ASSUME WatchInv, [Next]_vars PROVE WatchInv'
  OBVIOUS
<1>1. FilesInv /\ FilesInv'
  BY FilesStep DEF WatchInv
<1>2. CASE UNCHANGED vars
  BY <1>1, <1>2 DEF vars, disk, scan, WatchInv, Watched, Sees, Fresh, Within, Covered, Covers,
                    Founded, Spared, Justified
<1>3. ASSUME NEW p \in Procs, Moves(p) PROVE WatchInv'
  <2> SUFFICES ASSUME NEW q \in Procs PROVE Watched(q)'
    BY <1>1 DEF WatchInv
  <2>1. Watched(p) /\ Watched(q)
    BY DEF WatchInv
  <2>2. CASE q = p
    BY <1>1, <1>3, <2>1, <2>2, MoverWatched
  <2>3. CASE q # p
    BY <1>1, <1>3, <2>1, <2>3, OthersKeep, Undisturbed
  <2>4. QED
    BY <2>2, <2>3
<1>4. QED
  BY <1>2, <1>3 DEF Next, Moves

LEMMA Watching == Spec => []WatchInv
BY WatchInit, WatchStep, PTL DEF Spec

\* What a listing says of each record was so during the call, whatever else goes on.
THEOREM ListingsAreCurrent == Spec => []ListsAreCurrent
<1>1. WatchInv => ListsAreCurrent
  <2> SUFFICES ASSUME WatchInv, NEW p \in Procs, pc[p] = "done",
                      call[p].op \in {"list", "listAll"}, NEW s \in Slots
               PROVE  IF s \in DOMAIN got[p]
                      THEN s.network \in call[p].nets /\ got[p][s] \in window[p][s]
                      ELSE s.network \in call[p].nets =>
                             window[p][s] \intersect {NoFile, Damaged} # {}
    BY DEF ListsAreCurrent
  <2>1. Sees(p) /\ Within(p) /\ Covered(p)
    BY DEF WatchInv, Watched
  <2>2. QED
    BY <2>1 DEF Sees, Within, Covered, Covers, Listing
<1>2. QED
  BY <1>1, Watching, PTL

\* Pruning removes no sources that a readable record names all through it.
THEOREM PruningSparesNamed == Spec => []PruneSparesNamed
<1>1. WatchInv => PruneSparesNamed
  BY DEF WatchInv, Watched, Spared, PruneSparesNamed
<1>2. QED
  BY <1>1, Watching, PTL

\* Listings never throw, a read only for a file that was damaged or changed meanwhile.
THEOREM ThrowingIsJustified == Spec => []ThrowsOnlyForItsFile
<1>1. WatchInv => ThrowsOnlyForItsFile
  BY DEF WatchInv, Watched, Justified, ThrowsOnlyForItsFile
<1>2. QED
  BY <1>1, Watching, PTL

-----------------------------------------------------------------------------
(* Read, write and remove implement the atomic store.  A read takes effect   *)
(* when it finds no file or opens the one it found, a write when it renames, *)
(* a remove when it finds no file or removes the one it found.               *)

\* Nothing is loaded before a file is opened.
Blank(p) == pc[p] \notin {"readdir", "unlink", "done", "threw"} => got[p] = NoSlots

LEMMA BlankStep ==
    ASSUME FilesInv, NEW p \in Procs, Moves(p), Blank(p)
    PROVE  Blank(p)'
<1> USE DEF Goto, scan, FilesInv, TypeOK, Blank
<1>1. ASSUME NEW c \in Asked, Start(p, c) PROVE Blank(p)'
  BY <1>1 DEF Start
<1>2. CASE Exists(p) \/ OpenSources(p) \/ Rm(p) \/ WriteTemp(p) \/ Rename(p) \/ NoSourcesDir(p)
           \/ Root(p)
  BY <1>2 DEF Exists, OpenSources, Rm, WriteTemp, Rename, NoSourcesDir, Root
<1>3. CASE Open(p) \/ ReadDir(p) \/ Load(p) \/ Listed(p) \/ FindUnreferenced(p) \/ Unlink(p)
           \/ Pruned(p)
  BY <1>3 DEF Open, ReadDir, Load, Listed, Scanned, FindUnreferenced, Unlink, Pruned
<1>4. CASE Return(p) \/ Crash(p)
  BY <1>4 DEF Return, Crash, Forget
<1>5. QED
  BY <1>1, <1>2, <1>3, <1>4 DEF Moves

StoreInv == FilesInv /\ \A p \in Procs : Blank(p)

LEMMA StoreInvInit == Init => StoreInv
BY FilesInit DEF Init, StoreInv, Blank

LEMMA StoreInvStep == StoreInv /\ [Next]_vars => StoreInv'
<1> SUFFICES ASSUME StoreInv, [Next]_vars PROVE StoreInv'
  OBVIOUS
<1>1. FilesInv'
  BY FilesStep DEF StoreInv
<1>2. CASE UNCHANGED vars
  BY <1>1, <1>2 DEF vars, scan, StoreInv, Blank
<1>3. ASSUME NEW p \in Procs, Moves(p), NEW q \in Procs PROVE Blank(q)'
  BY <1>3, BlankStep, OthersKeep DEF StoreInv, Blank
<1>4. QED
  BY <1>1, <1>2, <1>3 DEF Next, Moves, StoreInv

Reply == [p \in Procs |-> Answer(p)]

LEMMA StoreStarts == Init => Store!Init
<1> SUFFICES ASSUME Init PROVE Store!Init
  OBVIOUS
<1>1. Records \in [Slots -> Recs \union {NoFile}]
  BY DEF Records
<1>2. Asking = [p \in Procs |-> NoCall]
  BY DEF Init, Asking, OneRecord
<1>3. [p \in Procs |-> Answer(p)] = [p \in Procs |-> Store!Pending]
  BY DEF Init, Answer, OneRecord, Store!Pending
<1>4. QED
  BY <1>1, <1>2, <1>3 DEF Store!Init

\* What a process has asked for and been answered changes with its own steps only.
LEMMA OthersReplies ==
    ASSUME FilesInv, NEW p \in Procs, Moves(p)
    PROVE  /\ Asking' = [Asking EXCEPT ![p] = Asking'[p]]
           /\ Reply' = [Reply EXCEPT ![p] = Answer(p)']
<1>1. \A q \in Procs : q # p => Asking'[q] = Asking[q] /\ Reply'[q] = Reply[q]
  BY OthersKeep DEF Asking, Reply, Answer
<1>2. QED
  BY <1>1 DEF Asking, Reply

StoreVars == <<Records, Asking, Reply>>

\* The step by which a call takes effect.
LEMMA Effect ==
    ASSUME FilesInv, NEW p \in Procs, Moves(p), call' = call, OneRecord(call[p]),
           pc[p] \notin {"done", "threw"}, NEW a, Answer(p)' = a
    PROVE  Store!Answers(p, a) /\ Asking[p] = call[p] /\ Asking[p] # NoCall
<1>1. Asking' = Asking /\ Asking[p] = call[p] /\ Asking[p] # NoCall
  BY DEF Asking, OneRecord
<1>2. Reply[p] = Store!Pending /\ Reply' = [Reply EXCEPT ![p] = a]
  BY OthersReplies DEF Reply, Answer, Store!Pending
<1>3. QED
  BY <1>1, <1>2 DEF Store!Answers, Reply

LEMMA StartAsks ==
    ASSUME FilesInv, NEW p \in Procs, NEW c \in Asked, Start(p, c)
    PROVE  Store!Next \/ UNCHANGED StoreVars
<1>1. Moves(p) /\ pc[p] = "idle" /\ call[p] = NoCall /\ call'[p] = c /\ file' = file
  BY DEF Moves, Start, FilesInv, TypeOK, disk
<1>2. pc'[p] \notin {"done", "threw"}
  BY CallFields DEF Start, Goto, FirstStep, FilesInv, TypeOK
<1>3. Records' = Records /\ Reply' = Reply
  <2>1. Answer(p)' = Reply[p]
    BY <1>1, <1>2 DEF Answer, OneRecord, Reply
  <2>2. QED
    BY <1>1, <2>1, OthersReplies DEF Records, Reply
<1>4. CASE OneRecord(c)
  <2>1. Asking[p] = NoCall /\ Asking' = [Asking EXCEPT ![p] = c]
    BY <1>1, <1>4, OthersReplies DEF Asking, OneRecord
  <2>2. c \in Store!Call
    BY <1>4, FilesAssumption DEF OneRecord, Calls, Store!Call
  <2>3. Store!Ask(p, c)
    BY <1>3, <2>1 DEF Store!Ask, Reply
  <2>4. QED
    BY <2>2, <2>3 DEF Store!Next
<1>5. CASE ~OneRecord(c)
  <2>1. Asking'[p] = Asking[p]
    BY <1>1, <1>5 DEF Asking, OneRecord
  <2>2. Asking' = Asking
    BY <1>1, <2>1, OthersReplies DEF Asking
  <2>3. QED
    BY <1>3, <2>2 DEF StoreVars
<1>6. QED
  BY <1>4, <1>5

LEMMA ForgetLeaves ==
    ASSUME FilesInv, NEW p \in Procs, Return(p) \/ Crash(p)
    PROVE  Store!Next \/ UNCHANGED StoreVars
<1>1. /\ Moves(p) /\ pc[p] # "idle" /\ call[p] # NoCall
      /\ call'[p] = NoCall /\ file' = file
  BY CallFields, Ops DEF Moves, Return, Crash, Forget, FilesInv, TypeOK, disk
<1>2. Records' = Records
  BY <1>1 DEF Records
<1>3. Asking' = [Asking EXCEPT ![p] = NoCall] /\ Reply' = [Reply EXCEPT ![p] = Store!Pending]
  <2>1. Asking'[p] = NoCall /\ Answer(p)' = Store!Pending
    BY <1>1 DEF Asking, Answer, OneRecord, Store!Pending
  <2>2. QED
    BY <1>1, <2>1, OthersReplies
<1>4. CASE OneRecord(call[p])
  <2>1. Asking[p] # NoCall
    BY <1>4 DEF Asking, OneRecord
  <2>2. Store!Leave(p)
    BY <1>2, <1>3, <2>1 DEF Store!Leave, Reply
  <2>3. QED
    BY <2>2 DEF Store!Next
<1>5. CASE ~OneRecord(call[p])
  <2>1. Asking[p] = NoCall /\ Reply[p] = Store!Pending
    BY <1>5 DEF Asking, Reply, Answer, Store!Pending
  <2>2. Asking' = Asking /\ Reply' = Reply
    BY <1>3, <2>1 DEF Asking, Reply
  <2>3. QED
    BY <1>2, <2>2 DEF StoreVars
<1>6. QED
  BY <1>4, <1>5

\* A step on the way, and every step of the other methods.
LEMMA StepStutters ==
    ASSUME FilesInv, NEW p \in Procs, Moves(p), call' = call, Records' = Records,
           ~OneRecord(call[p]) \/ (pc[p] \notin {"done", "threw"}
                                   /\ pc'[p] \notin {"done", "threw"})
    PROVE  UNCHANGED StoreVars
<1>1. Asking' = Asking /\ Answer(p)' = Reply[p]
  BY DEF Asking, Answer, Reply
<1>2. Reply' = Reply
  BY <1>1, OthersReplies DEF Reply
<1>3. QED
  BY <1>1, <1>2 DEF StoreVars

\* No file: a read has its answer, and there is nothing to remove.
LEMMA ExistsAnswers ==
    ASSUME FilesInv, NEW p \in Procs, Exists(p), Blank(p)
    PROVE  Store!Next \/ UNCHANGED StoreVars
<1>1. /\ Moves(p) /\ pc[p] = "exists" /\ call' = call /\ Records' = Records
      /\ call[p] \in Asked /\ got'[p] = NoSlots /\ NoCall # call[p]
      /\ call[p].op \in {"read", "remove", "writeSources", "readSources"}
  BY Ops, CallFields DEF Moves, Exists, Blank, scan, disk, Records
<1>2. CASE OneRecord(call[p]) /\ ~There(call[p])
  <2>1. /\ call[p].op \in {"read", "remove"} /\ call[p].slot \in Slots
        /\ file[call[p].slot] = NoFile
    BY <1>1, <1>2, CallFields DEF OneRecord, There
  <2>2. pc'[p] = "done"
    BY <1>1, <1>2, <2>1 DEF Exists, Goto, FilesInv, TypeOK
  <2>3. Answer(p)' = Store!Done(NoFile)
    BY <1>1, <1>2, <2>2 DEF Answer, OneRecord, Store!Done
  <2>4. /\ Store!Answers(p, Store!Done(NoFile))
        /\ Asking[p] = call[p] /\ Asking[p] # NoCall
    BY <1>1, <1>2, <2>3, Effect
  <2>5. Records[call[p].slot] = NoFile
    BY <2>1 DEF Records
  <2>6. CASE call[p].op = "read"
    <3>1. Store!Read(p)
      BY <1>1, <2>4, <2>5, <2>6 DEF Store!Read
    <3>2. QED
      BY <2>4, <3>1 DEF Store!Next
  <2>7. CASE call[p].op = "remove"
    <3>1. Records' = [Records EXCEPT ![call[p].slot] = NoFile]
      BY <1>1, <2>5 DEF Records
    <3>2. Store!Remove(p)
      BY <2>4, <2>7, <3>1 DEF Store!Remove
    <3>3. QED
      BY <2>4, <3>2 DEF Store!Next
  <2>8. QED
    BY <2>1, <2>6, <2>7
<1>3. CASE ~OneRecord(call[p]) \/ There(call[p])
  <2>1. OneRecord(call[p]) => pc'[p] \notin {"done", "threw"}
    BY <1>1, <1>3 DEF Exists, Goto, FilesInv, TypeOK, OneRecord
  <2>2. QED
    BY <1>1, <2>1, StepStutters
<1>4. QED
  BY <1>2, <1>3

LEMMA OpenAnswers ==
    ASSUME FilesInv, NEW p \in Procs, Open(p), Blank(p)
    PROVE  Store!Next \/ UNCHANGED StoreVars
<1>1. /\ Moves(p) /\ pc[p] = "open" /\ call' = call /\ Records' = Records
      /\ call[p].op = "read" /\ call[p].slot \in Slots /\ OneRecord(call[p])
  BY Ops, CallFields DEF Moves, Open, disk, Records, OneRecord
<1> DEFINE c == file[call[p].slot]
<1>2. CASE c \in Recs
  <2>1. pc'[p] = "done" /\ got'[p] = [s \in {call[p].slot} |-> c]
    BY <1>2 DEF Open, Goto, FilesInv, TypeOK
  <2>2. got'[p] # NoSlots /\ got'[p][call[p].slot] = c
    BY <2>1 DEF NoSlots
  <2>3. Answer(p)' = Store!Done(c)
    BY <1>1, <2>1, <2>2 DEF Answer, Store!Done
  <2>4. Store!Answers(p, Store!Done(c)) /\ Asking[p] = call[p] /\ Asking[p] # NoCall
    BY <1>1, <2>3, Effect
  <2>5. Records[call[p].slot] = c
    BY <1>1, <1>2 DEF Records
  <2>6. Store!Read(p)
    BY <1>1, <2>4, <2>5 DEF Store!Read
  <2>7. QED
    BY <2>4, <2>6 DEF Store!Next
<1>3. CASE c \notin Recs
  <2>1. Answer(p)' = Store!Threw
    BY <1>1, <1>3 DEF Open, Goto, FilesInv, TypeOK, Answer, OneRecord, Store!Threw
  <2>2. Store!Throw(p)
    BY <1>1, <2>1, Effect DEF Store!Throw
  <2>3. QED
    BY <2>2 DEF Store!Next
<1>4. QED
  BY <1>2, <1>3

LEMMA RmAnswers ==
    ASSUME FilesInv, NEW p \in Procs, Rm(p), Blank(p)
    PROVE  Store!Next \/ UNCHANGED StoreVars
<1>1. /\ Moves(p) /\ pc[p] = "rm" /\ call' = call /\ got'[p] = NoSlots
      /\ call[p].op = "remove" /\ call[p].slot \in Slots /\ OneRecord(call[p])
  BY Ops, CallFields DEF Moves, Rm, Blank, scan, OneRecord
<1>2. Records' = [Records EXCEPT ![call[p].slot] = NoFile]
  BY <1>1 DEF Rm, Records, FilesInv, TypeOK
<1>3. CASE There(call[p])
  <2>1. Answer(p)' = Store!Done(NoFile)
    BY <1>1, <1>3 DEF Rm, Goto, FilesInv, TypeOK, Answer, OneRecord, Store!Done
  <2>2. /\ Store!Answers(p, Store!Done(NoFile))
        /\ Asking[p] = call[p] /\ Asking[p] # NoCall
    BY <1>1, <2>1, Effect
  <2>3. Store!Remove(p)
    BY <1>1, <1>2, <2>2 DEF Store!Remove
  <2>4. QED
    BY <2>2, <2>3 DEF Store!Next
<1>4. CASE ~There(call[p])
  <2>1. Answer(p)' = Store!Threw
    BY <1>1, <1>4 DEF Rm, Goto, FilesInv, TypeOK, Answer, OneRecord, Store!Threw
  <2>2. Records' = Records
    BY <1>1, <1>2, <1>4 DEF There, Records
  <2>3. Store!Throw(p)
    BY <1>1, <2>1, <2>2, Effect DEF Store!Throw
  <2>4. QED
    BY <2>3 DEF Store!Next
<1>5. QED
  BY <1>3, <1>4

LEMMA RenameAnswers ==
    ASSUME FilesInv, NEW p \in Procs, Rename(p), Blank(p)
    PROVE  Store!Next \/ UNCHANGED StoreVars
<1>1. /\ Moves(p) /\ pc[p] = "rename" /\ pc'[p] = "done" /\ call' = call
      /\ got'[p] = NoSlots
      /\ call[p] \in Asked /\ call[p].op \in {"write", "writeSources"}
  BY Ops DEF Moves, Rename, Blank, scan, Goto, FilesInv, TypeOK
<1>2. CASE call[p].op = "write"
  <2>1. OneRecord(call[p]) /\ call[p].slot \in Slots /\ call[p].rec \in Recs
    BY <1>1, <1>2, CallFields DEF OneRecord
  <2>2. Records' = [Records EXCEPT ![call[p].slot] = call[p].rec]
    BY <1>2, <2>1 DEF Rename, Records, FilesInv, TypeOK
  <2>3. Answer(p)' = Store!Done(NoFile)
    BY <1>1, <2>1 DEF Answer, Store!Done
  <2>4. /\ Store!Answers(p, Store!Done(NoFile))
        /\ Asking[p] = call[p] /\ Asking[p] # NoCall
    BY <1>1, <2>1, <2>3, Effect
  <2>5. Store!Write(p)
    BY <1>2, <2>2, <2>4 DEF Store!Write
  <2>6. QED
    BY <2>4, <2>5 DEF Store!Next
<1>3. CASE call[p].op = "writeSources"
  <2>1. ~OneRecord(call[p])
    BY <1>3 DEF OneRecord
  <2>2. Records' = Records
    BY <1>3 DEF Rename, Records
  <2>3. QED
    BY <1>1, <2>1, <2>2, StepStutters
<1>4. QED
  BY <1>1, <1>2, <1>3

\* The methods on sources, the listings and the prunes touch no record.
LEMMA OtherStepsStutter ==
    ASSUME FilesInv, NEW p \in Procs,
           \/ OpenSources(p) \/ WriteTemp(p) \/ Root(p) \/ NoSourcesDir(p) \/ ReadDir(p)
           \/ Load(p) \/ Listed(p) \/ FindUnreferenced(p) \/ Unlink(p) \/ Pruned(p)
    PROVE  UNCHANGED StoreVars
<1>1. Moves(p) /\ call' = call /\ file' = file
  BY DEF Moves, OpenSources, WriteTemp, Root, NoSourcesDir, ReadDir, Load, Listed,
         FindUnreferenced, Unlink, Pruned, disk
<1>2. Records' = Records
  BY <1>1 DEF Records
<1>3. ~OneRecord(call[p]) \/ (pc[p] = "temp" /\ pc'[p] = "rename")
  <2>1. CASE WriteTemp(p)
    BY <2>1 DEF WriteTemp, Goto, FilesInv, TypeOK
  <2>2. CASE OpenSources(p)
    BY <2>2 DEF OpenSources, OneRecord
  <2>3. CASE ~WriteTemp(p) /\ ~OpenSources(p)
    <3>1. pc[p] \in {"root", "readdir", "unlink"}
      BY <2>3 DEF Root, NoSourcesDir, ReadDir, Load, Listed, Scanned, FindUnreferenced, Unlink,
                  Pruned
    <3>2. QED
      BY <3>1, Ops DEF OneRecord
  <2>4. QED
    BY <2>1, <2>2, <2>3
<1>4. QED
  BY <1>1, <1>2, <1>3, StepStutters

LEMMA StoreSteps == StoreInv /\ [Next]_vars => Store!Next \/ UNCHANGED StoreVars
<1> SUFFICES ASSUME StoreInv, [Next]_vars PROVE Store!Next \/ UNCHANGED StoreVars
  OBVIOUS
<1>1. CASE UNCHANGED vars
  BY <1>1 DEF vars, disk, scan, StoreVars, Records, Asking, Reply, Answer
<1>2. ASSUME NEW p \in Procs, Moves(p) PROVE Store!Next \/ UNCHANGED StoreVars
  <2>1. FilesInv /\ Blank(p)
    BY DEF StoreInv
  <2>2. ASSUME NEW c \in Asked, Start(p, c) PROVE Store!Next \/ UNCHANGED StoreVars
    BY <2>1, <2>2, StartAsks
  <2>3. CASE Exists(p) \/ Open(p) \/ Rm(p) \/ Rename(p)
    BY <2>1, <2>3, ExistsAnswers, OpenAnswers, RmAnswers, RenameAnswers
  <2>4. CASE Return(p) \/ Crash(p)
    BY <2>1, <2>4, ForgetLeaves
  <2>5. CASE \/ OpenSources(p) \/ WriteTemp(p) \/ Root(p) \/ NoSourcesDir(p) \/ ReadDir(p)
             \/ Load(p) \/ Listed(p) \/ FindUnreferenced(p) \/ Unlink(p) \/ Pruned(p)
    BY <2>1, <2>5, OtherStepsStutter
  <2>6. QED
    BY <1>2, <2>2, <2>3, <2>4, <2>5 DEF Moves
<1>3. QED
  BY <1>1, <1>2 DEF Next, Moves

\* The files are a store whose reads, writes and removes take effect at once, in any
\* interleaving of system calls and with crashes between any two of them.
THEOREM FilesImplementStore == Spec => ImplementsRecordStore
<1>1. Spec => []StoreInv
  BY StoreInvInit, StoreInvStep, PTL DEF Spec
<1>2. StoreInv /\ [Next]_vars => [Store!Next]_StoreVars
  BY StoreSteps
<1>3. QED
  BY <1>1, <1>2, StoreStarts, PTL DEF Spec, ImplementsRecordStore, Store!Spec, StoreVars, Reply
=============================================================================
