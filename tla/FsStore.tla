------------------------------ MODULE FsStore ------------------------------
(***************************************************************************)
(* The files of fsStore (store.ts:127-251) under operating-system processes *)
(* that call its methods at any time and may die between two system calls.  *)
(* A call is synchronous, so one process has one call under way.            *)
(***************************************************************************)
EXTENDS Naturals

CONSTANTS Procs, Networks, Names,
          Hashes,    \* of pinned sources
          Recs,      \* the records that are written
          SrcOf,     \* record -> its sourcesHash or NoSrc
          Inherited, \* what a file may hold at the start
          Asked,     \* the calls that are made, a subset of Calls
          MaxCalls,
          NoFile, Damaged, NoSrc, NoCall

Slots == [network : Networks, name : Names]
Content == Recs \union {NoFile, Damaged}

Calls == [op : {"read", "remove"}, slot : Slots]
         \union [op : {"write"}, slot : Slots, rec : Recs]
         \union [op : {"list"}, nets : {{n} : n \in Networks}]
         \union [op : {"listAll", "prune"}, nets : {Networks}]
         \union [op : {"writeSources", "readSources"}, hash : Hashes]

ASSUME FilesAssumption ==
    /\ SrcOf \in [Recs -> Hashes \union {NoSrc}]
    /\ Inherited \subseteq Content
    /\ Asked \subseteq Calls /\ NoCall \notin Calls
    /\ MaxCalls \in Nat
    /\ NoFile \notin Recs /\ Damaged \notin Recs /\ NoFile # Damaged
    /\ NoSrc \notin Hashes

VARIABLES file,   \* slot -> <network>/<name>.json
          made,   \* the network directories that exist
          blobs,  \* sources/<hash>.json
          pc, call,
          dirs,   \* directories a listing has still to read
          found,  \* files it has still to load
          got,    \* records it has loaded, by slot; for a read, the one it returns
          doomed, \* blobs a prune has still to remove
          window, \* history: what each file held since the call began
          calls   \* bound

disk == <<file, made, blobs>>
scan == <<dirs, found, got, doomed>>
vars == <<disk, pc, call, scan, window, calls>>

NoSlots == [s \in {} |-> NoFile]

PC == {"idle", "exists", "open", "rm", "temp", "rename", "root", "readdir", "unlink",
       "done", "threw"}

Init == /\ file \in [Slots -> Inherited \union {NoFile}]
        /\ made \in SUBSET Networks
        /\ \A s \in Slots : file[s] # NoFile => s.network \in made
        /\ blobs \in SUBSET Hashes
        /\ \A s \in Slots : file[s] \in Recs => SrcOf[file[s]] \in blobs \union {NoSrc}
        /\ pc = [p \in Procs |-> "idle"]
        /\ call = [p \in Procs |-> NoCall]
        /\ dirs = [p \in Procs |-> {}]
        /\ found = [p \in Procs |-> {}]
        /\ got = [p \in Procs |-> NoSlots]
        /\ doomed = [p \in Procs |-> {}]
        /\ window = [p \in Procs |-> [s \in Slots |-> {}]]
        /\ calls = 0

Goto(p, l) == pc' = [pc EXCEPT ![p] = l]

\* Every call under way sees what the files hold now.
Observe == window' = [p \in Procs |-> [s \in Slots |->
               IF pc'[p] = "idle" THEN {} ELSE window[p][s] \union {file'[s]}]]

\* The process takes the result, or dies: only the disk remains.
Forget(p) == /\ Goto(p, "idle")
             /\ call' = [call EXCEPT ![p] = NoCall]
             /\ dirs' = [dirs EXCEPT ![p] = {}]
             /\ found' = [found EXCEPT ![p] = {}]
             /\ got' = [got EXCEPT ![p] = NoSlots]
             /\ doomed' = [doomed EXCEPT ![p] = {}]
             /\ UNCHANGED <<disk, calls>>
             /\ Observe

-----------------------------------------------------------------------------
FirstStep(op) == CASE op \in {"read", "remove", "writeSources", "readSources"} -> "exists"
                   [] op = "write" -> "temp"
                   [] op \in {"list", "listAll", "prune"} -> "root"

Start(p, c) == /\ pc[p] = "idle"
               /\ calls < MaxCalls
               /\ calls' = calls + 1
               /\ call' = [call EXCEPT ![p] = c]
               /\ Goto(p, FirstStep(c.op))
               /\ UNCHANGED <<disk, scan>>
               /\ Observe

\* existsSync, and where its answer leads.
There(c) == IF c.op \in {"read", "remove"} THEN file[c.slot] # NoFile ELSE c.hash \in blobs

Exists(p) == /\ pc[p] = "exists"
             /\ LET c == call[p]
                IN Goto(p, CASE c.op \in {"read", "readSources"} /\ There(c) -> "open"
                             [] c.op = "remove" /\ There(c) -> "rm"
                             [] c.op = "writeSources" /\ ~There(c) -> "temp"
                             [] OTHER -> "done")
             /\ UNCHANGED <<disk, call, scan, calls>>
             /\ Observe

\* readFileSync and the parse; either throws.
Open(p) ==
    /\ pc[p] = "open" /\ call[p].op = "read"
    /\ LET c == file[call[p].slot]
       IN IF c \in Recs
          THEN /\ Goto(p, "done")
               /\ got' = [got EXCEPT ![p] = [s \in {call[p].slot} |-> c]]
          ELSE Goto(p, "threw") /\ UNCHANGED got
    /\ UNCHANGED <<disk, call, dirs, found, doomed, calls>>
    /\ Observe

OpenSources(p) == /\ pc[p] = "open" /\ call[p].op = "readSources"
                  /\ Goto(p, IF There(call[p]) THEN "done" ELSE "threw")
                  /\ UNCHANGED <<disk, call, scan, calls>>
                  /\ Observe

\* rmSync without force.
Rm(p) == /\ pc[p] = "rm"
         /\ file' = [file EXCEPT ![call[p].slot] = NoFile]
         /\ Goto(p, IF There(call[p]) THEN "done" ELSE "threw")
         /\ UNCHANGED <<made, blobs, call, scan, calls>>
         /\ Observe

-----------------------------------------------------------------------------
\* Mutant: the record is written to its own file.
WriteInPlace(p) ==
    /\ pc[p] = "temp"
    /\ IF call[p].op = "write"
       THEN /\ file' = [file EXCEPT ![call[p].slot] = Damaged]
            /\ made' = made \union {call[p].slot.network}
       ELSE UNCHANGED <<file, made>>
    /\ Goto(p, "rename")
    /\ UNCHANGED <<blobs, call, scan, calls>>
    /\ Observe

\* Mutant: the network's directory is taken to exist.
WriteTempNoMkdir(p) == /\ pc[p] = "temp"
                       /\ Goto(p, "rename")
                       /\ UNCHANGED <<disk, call, scan, calls>>
                       /\ Observe

\* mkdirSync and writeFileSync of a .tmp file under a name of its own, which no
\* listing looks at; a crash leaves it there.
WriteTemp(p) == /\ pc[p] = "temp"
                /\ made' = IF call[p].op = "write" THEN made \union {call[p].slot.network}
                           ELSE made
                /\ Goto(p, "rename")
                /\ UNCHANGED <<file, blobs, call, scan, calls>>
                /\ Observe

Rename(p) == /\ pc[p] = "rename"
             /\ IF call[p].op = "write"
                THEN /\ file' = [file EXCEPT ![call[p].slot] = call[p].rec]
                     /\ UNCHANGED blobs
                ELSE /\ blobs' = blobs \union {call[p].hash}
                     /\ UNCHANGED file
             /\ Goto(p, "done")
             /\ UNCHANGED <<made, call, scan, calls>>
             /\ Observe

-----------------------------------------------------------------------------
(* list, listAll and pruneSources: the directories are all read before the   *)
(* first file is loaded.                                                     *)

\* Mutant: a prune looks at one network only.
RootOneNetwork(p) ==
    /\ pc[p] = "root"
    /\ \E n \in call[p].nets :
          dirs' = [dirs EXCEPT ![p] = {n} \intersect made]
    /\ Goto(p, "readdir")
    /\ UNCHANGED <<disk, call, found, got, doomed, calls>>
    /\ Observe

Root(p) == /\ pc[p] = "root"
           /\ dirs' = [dirs EXCEPT ![p] = call[p].nets \intersect made]
           /\ Goto(p, "readdir")
           /\ UNCHANGED <<disk, call, found, got, doomed, calls>>
           /\ Observe

\* There is no sources directory: nothing to prune.
NoSourcesDir(p) == /\ pc[p] = "root" /\ call[p].op = "prune" /\ blobs = {}
                   /\ Goto(p, "done")
                   /\ UNCHANGED <<disk, call, scan, calls>>
                   /\ Observe

\* Mutant: the files of the last directory replace those of the others.
ReadDirForgetting(p) == /\ pc[p] = "readdir"
                        /\ \E n \in dirs[p] :
                              /\ dirs' = [dirs EXCEPT ![p] = @ \ {n}]
                              /\ found' = [found EXCEPT ![p] =
                                     {s \in Slots : s.network = n /\ file[s] # NoFile}]
                        /\ UNCHANGED <<disk, pc, call, got, doomed, calls>>
                        /\ Observe

ReadDir(p) == /\ pc[p] = "readdir"
              /\ \E n \in dirs[p] :
                    /\ dirs' = [dirs EXCEPT ![p] = @ \ {n}]
                    /\ found' = [found EXCEPT ![p] = @ \union
                           {s \in Slots : s.network = n /\ file[s] # NoFile}]
              /\ UNCHANGED <<disk, pc, call, got, doomed, calls>>
              /\ Observe

\* Mutant: a file that has gone or does not parse is fatal.
LoadOrThrow(p) ==
    /\ pc[p] = "readdir" /\ dirs[p] = {}
    /\ \E s \in found[p] :
          IF file[s] \in Recs
          THEN /\ found' = [found EXCEPT ![p] = @ \ {s}]
               /\ got' = [got EXCEPT ![p] = [t \in DOMAIN @ \union {s} |->
                                                IF t = s THEN file[s] ELSE @[t]]]
               /\ UNCHANGED pc
          ELSE Goto(p, "threw") /\ UNCHANGED <<found, got>>
    /\ UNCHANGED <<disk, call, dirs, doomed, calls>>
    /\ Observe

\* readFileSafe: a file that has gone or does not parse is left out.
Load(p) == /\ pc[p] = "readdir" /\ dirs[p] = {}
           /\ \E s \in found[p] :
                 /\ found' = [found EXCEPT ![p] = @ \ {s}]
                 /\ got' = IF file[s] \in Recs
                           THEN [got EXCEPT ![p] = [t \in DOMAIN @ \union {s} |->
                                                      IF t = s THEN file[s] ELSE @[t]]]
                           ELSE got
           /\ UNCHANGED <<disk, pc, call, dirs, doomed, calls>>
           /\ Observe

Scanned(p) == pc[p] = "readdir" /\ dirs[p] = {} /\ found[p] = {}

Listed(p) == /\ Scanned(p) /\ call[p].op # "prune"
             /\ Goto(p, "done")
             /\ UNCHANGED <<disk, call, scan, calls>>
             /\ Observe

Referenced(p) == {SrcOf[got[p][s]] : s \in DOMAIN got[p]}

\* Only now the sources directory is read.
FindUnreferenced(p) == /\ Scanned(p) /\ call[p].op = "prune"
                       /\ doomed' = [doomed EXCEPT ![p] = blobs \ Referenced(p)]
                       /\ Goto(p, "unlink")
                       /\ UNCHANGED <<disk, call, dirs, found, got, calls>>
                       /\ Observe

Unlink(p) == /\ pc[p] = "unlink"
             /\ \E h \in doomed[p] :
                   /\ doomed' = [doomed EXCEPT ![p] = @ \ {h}]
                   /\ blobs' = blobs \ {h}
                   /\ IF h \in blobs THEN UNCHANGED pc ELSE Goto(p, "threw")
             /\ UNCHANGED <<file, made, call, dirs, found, got, calls>>
             /\ Observe

Pruned(p) == /\ pc[p] = "unlink" /\ doomed[p] = {}
             /\ Goto(p, "done")
             /\ UNCHANGED <<disk, call, scan, calls>>
             /\ Observe

-----------------------------------------------------------------------------
Return(p) == pc[p] \in {"done", "threw"} /\ Forget(p)

Crash(p) == pc[p] \notin {"idle", "done", "threw"} /\ Forget(p)

Next == \E p \in Procs :
            \/ \E c \in Asked : Start(p, c)
            \/ Exists(p) \/ Open(p) \/ OpenSources(p) \/ Rm(p)
            \/ WriteTemp(p) \/ Rename(p)
            \/ Root(p) \/ NoSourcesDir(p) \/ ReadDir(p) \/ Load(p) \/ Listed(p)
            \/ FindUnreferenced(p) \/ Unlink(p) \/ Pruned(p)
            \/ Return(p) \/ Crash(p)

Spec == Init /\ [][Next]_vars

-----------------------------------------------------------------------------
Loaded == UNION {[S -> Recs] : S \in SUBSET Slots}

TypeOK == /\ file \in [Slots -> Content]
          /\ made \subseteq Networks
          /\ \A s \in Slots : file[s] # NoFile => s.network \in made
          /\ blobs \subseteq Hashes
          /\ pc \in [Procs -> PC]
          /\ call \in [Procs -> Asked \union {NoCall}]
          /\ \A p \in Procs : pc[p] = "idle" <=> call[p] = NoCall
          /\ dirs \in [Procs -> SUBSET Networks]
          /\ found \in [Procs -> SUBSET Slots]
          /\ got \in [Procs -> Loaded]
          /\ doomed \in [Procs -> SUBSET Hashes]
          /\ window \in [Procs -> [Slots -> SUBSET Content]]
          /\ calls \in 0..MaxCalls

\* A listing is no snapshot, but what it says of each record was true during the
\* call: one that was there, and could be read, all the time is listed, and what is
\* listed was in its file at some moment (store.ts:155-170, 213-221).
ListsAreCurrent ==
    \A p \in Procs : pc[p] = "done" /\ call[p].op \in {"list", "listAll"} =>
        \A s \in Slots :
            IF s \in DOMAIN got[p] THEN s.network \in call[p].nets /\ got[p][s] \in window[p][s]
            ELSE s.network \in call[p].nets => window[p][s] \intersect {NoFile, Damaged} # {}

\* "a blob another network still points at has to survive resetting this one"
\* (deployer.ts:292-293): sources that a readable record names all through a prune are
\* spared, whatever other processes write, remove or prune meanwhile.
PruneSparesNamed ==
    \A p \in Procs : pc[p] = "unlink" =>
        \A h \in doomed[p], s \in Slots :
            \E c \in window[p][s] : c \notin Recs \/ SrcOf[c] # h

\* "A damaged file is skipped, not fatal" (deployment-stores.mdx:96), nor is one that
\* is removed meanwhile; a single read or remove throws only for such a file.
ThrowsOnlyForItsFile ==
    \A p \in Procs : pc[p] = "threw" =>
        CASE call[p].op \in {"read", "remove"} ->
               \/ Damaged \in window[p][call[p].slot] /\ call[p].op = "read"
               \/ \E c, d \in window[p][call[p].slot] : c # d
          [] OTHER -> call[p].op \in {"readSources", "prune"}

OneRecord(c) == c # NoCall /\ c.op \in {"read", "write", "remove"}

\* A damaged file is a record that is not there and whose reads throw.
Records == [s \in Slots |-> IF file[s] \in Recs THEN file[s] ELSE NoFile]
Asking == [p \in Procs |-> IF OneRecord(call[p]) THEN call[p] ELSE NoCall]
Answer(p) ==
    IF ~OneRecord(call[p]) \/ pc[p] \notin {"done", "threw"} THEN [is |-> "pending"]
    ELSE IF pc[p] = "threw" THEN [is |-> "threw"]
    ELSE [is |-> "done", value |-> IF got[p] = NoSlots THEN NoFile
                                   ELSE got[p][call[p].slot]]

Store == INSTANCE RecordStore WITH NoRecord <- NoFile, records <- Records, call <- Asking,
                                   answer <- [p \in Procs |-> Answer(p)]

\* For read, write and remove the files are as good as a store whose calls take
\* effect at once: "a reader never sees a half-written file and a crash mid-write
\* cannot corrupt an existing record" (deployment-stores.mdx:94).
ImplementsRecordStore == Store!Spec
=============================================================================
