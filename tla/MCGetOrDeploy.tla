--------------------------- MODULE MCGetOrDeploy ---------------------------
(* An instance of GetOrDeploy: the jobs are chosen so that two calls for one *)
(* slot can agree or differ in identity, in sources and in strategy, so that *)
(* two slots share a blob, and so that an external address can move.         *)
EXTENDS GetOrDeploy, TLC

CONSTANTS n1, A, B, a, b, x, y, e1, e2, o1, o2

s1 == [network |-> n1, name |-> A]
s2 == [network |-> n1, name |-> B]

Deploy(s, id, src, strategy) ==
    [op |-> "getOrDeploy", slot |-> s, id |-> id, src |-> src, strategy |-> strategy,
     addr |-> e1]
Register(s, addr) ==
    [op |-> "register", slot |-> s, id |-> a, src |-> x, strategy |-> "never",
     addr |-> addr]
Reset(op, s) ==
    [op |-> op, slot |-> s, id |-> a, src |-> x, strategy |-> "never", addr |-> e1]

AllJobs == { Deploy(s1, a, x, "on-change"), Deploy(s1, a, x, "always"),
             Deploy(s1, b, y, "never"), Deploy(s2, a, x, "on-change"),
             Register(s1, e1), Register(s1, e2), Reset("reset", s1),
             Reset("resetAll", s1) }

Old(chn, addr, id, history) ==
    [kind |-> "standard", chain |-> chn, addr |-> addr, id |-> id, src |-> NoSrc,
     history |-> history]

\* The first slot may hold a record copied from another chain, or one of schema 1.
Copied == Old("elsewhere", o1, a, <<[addr |-> o1, id |-> a, superseded |-> NoAddr,
                                     reason |-> "fresh"]>>)
Version1 == Old("here", o2, a, <<>>)
OldRecords == [s \in Slots |-> IF s = s1 THEN {Copied, Version1} ELSE {}]
NoOldRecords == [s \in Slots |-> {}]

\* The jobs of the violation runs: one of each kind, on one slot.
FewJobs == { Deploy(s1, a, x, "on-change"), Register(s1, e1),
             Reset("reset", s1) }
=============================================================================
