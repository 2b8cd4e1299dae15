---------------------------- MODULE RecordStore ----------------------------
(***************************************************************************)
(* What StoreAdapter promises of read, write and remove (store.ts:36-40):   *)
(* each call takes effect at one moment between its start and its end, or   *)
(* throws and has had no effect.  This is how GetOrDeploy uses a store.     *)
(***************************************************************************)
CONSTANTS Procs, Slots, Recs, NoRecord, NoCall

VARIABLES records,  \* slot -> its record or NoRecord
          call,     \* what each process has asked for
          answer    \* its answer, once the call has taken effect or thrown

Call == [op : {"read", "remove"}, slot : Slots]
        \union [op : {"write"}, slot : Slots, rec : Recs]
Pending == [is |-> "pending"]
Threw == [is |-> "threw"]
Done(r) == [is |-> "done", value |-> r]

Init == /\ records \in [Slots -> Recs \union {NoRecord}]
        /\ call = [p \in Procs |-> NoCall]
        /\ answer = [p \in Procs |-> Pending]

Ask(p, c) == /\ call[p] = NoCall
             /\ call' = [call EXCEPT ![p] = c]
             /\ UNCHANGED <<records, answer>>

Answers(p, a) == /\ call[p] # NoCall /\ answer[p] = Pending
                 /\ answer' = [answer EXCEPT ![p] = a]
                 /\ UNCHANGED call

Read(p) == /\ call[p].op = "read"
           /\ Answers(p, Done(records[call[p].slot]))
           /\ UNCHANGED records

Write(p) == /\ call[p].op = "write"
            /\ Answers(p, Done(NoRecord))
            /\ records' = [records EXCEPT ![call[p].slot] = call[p].rec]

Remove(p) == /\ call[p].op = "remove"
             /\ Answers(p, Done(NoRecord))
             /\ records' = [records EXCEPT ![call[p].slot] = NoRecord]

Throw(p) == Answers(p, Threw) /\ UNCHANGED records

\* The process takes the answer, or dies with or without one.
Leave(p) == /\ call[p] # NoCall
            /\ call' = [call EXCEPT ![p] = NoCall]
            /\ answer' = [answer EXCEPT ![p] = Pending]
            /\ UNCHANGED records

Next == \E p \in Procs : \/ \E c \in Call : Ask(p, c)
                         \/ call[p] # NoCall /\ (Read(p) \/ Write(p) \/ Remove(p))
                         \/ Throw(p) \/ Leave(p)

Spec == Init /\ [][Next]_<<records, call, answer>>
=============================================================================
