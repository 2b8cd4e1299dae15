-------------------------- MODULE CommandLine_proofs --------------------------
(***************************************************************************)
(* Proofs about CommandLine, for any command lines, rules, ignore files and *)
(* packages: the config in force stays the user's, and from an ignore file  *)
(* go only the lines somebody agreed to.                                    *)
(***************************************************************************)
EXTENDS CommandLine, FiniteSetTheorems, SequenceTheorems, TLAPS

TS == "deployoor.config.ts"

LEMMA FirstIsLeast ==
    ASSUME NEW paths \in SUBSET (1 .. 3), 1 \in paths
    PROVE  First(paths) = 1
<1>1. \A j \in paths : 1 <= j
  OBVIOUS
<1>2. \A i \in paths : (\A j \in paths : i <= j) => i = 1
  OBVIOUS
<1>3. QED
  BY <1>1, <1>2 DEF First

\* The first name there is a file for is deployoor.config.ts, if there is one.
LEMMA FirstConfig ==
    ASSUME configs[TS] # NoConfig
    PROVE  LoadConfig = configs[TS]
<1>1. DOMAIN CONFIG_NAMES = 1 .. 3 /\ CONFIG_NAMES[1] = TS
  BY DEF CONFIG_NAMES, TS
<1>2. ConfigPaths \subseteq 1 .. 3 /\ 1 \in ConfigPaths
  BY <1>1 DEF ConfigPaths
<1>3. First(ConfigPaths) = 1
  BY <1>2, FirstIsLeast
<1>4. QED
  BY <1>1, <1>2, <1>3 DEF LoadConfig

ConfigsHold == configs = [name \in ToSet(CONFIG_NAMES) |-> configs[name]]

\* Only a scaffold where there is no file, and a save of the user's, write a config.
LEMMA ConfigSteps ==
    ASSUME ConfigsHold, [Next]_vars
    PROVE  /\ ConfigsHold'
           /\ configs[TS] # NoConfig =>
                 UNCHANGED configs \/ \E cfg \in UserConfigs : configs'[TS] \in {configs[TS], Written(cfg)}
<1>1. ASSUME NEW p \in Processes, Scaffold(p)
      PROVE  /\ ConfigsHold'
             /\ configs[TS] # NoConfig => UNCHANGED configs
  BY <1>1 DEF Scaffold, ConfigsHold, TS
<1>2. ASSUME SaveConfig
      PROVE  /\ ConfigsHold'
             /\ \E cfg \in UserConfigs : configs'[TS] \in {configs[TS], Written(cfg)}
  <2>1. PICK cfg \in UserConfigs : configs' = [configs EXCEPT ![cfg.name] = Written(cfg)]
    BY <1>2 DEF SaveConfig
  <2>2. TS \in ToSet(CONFIG_NAMES)
    <3>1. 1 \in DOMAIN CONFIG_NAMES /\ CONFIG_NAMES[1] = TS
      BY DEF CONFIG_NAMES, TS
    <3>2. QED
      BY <3>1 DEF ToSet
  <2>3. configs'[TS] = configs[TS] \/ configs'[TS] = Written(cfg)
    BY <2>1, <2>2 DEF ConfigsHold
  <2>4. ConfigsHold'
    BY <2>1 DEF ConfigsHold
  <2>5. QED
    BY <2>3, <2>4
<1>3. ASSUME UNCHANGED configs PROVE ConfigsHold'
  BY <1>3 DEF ConfigsHold
<1>4. ASSUME NEW p \in Processes, Step(p), ~ Scaffold(p) PROVE UNCHANGED configs
  BY <1>4 DEF Step, Main, OfferInstall, GenerateDeployers, Detect, Load, Check, Confirm, ReadRules,
              WriteRules, project
<1>5. SaveIgnore \/ UNCHANGED vars => UNCHANGED configs
  BY DEF SaveIgnore, vars
<1>6. QED
  BY <1>1, <1>2, <1>3, <1>4, <1>5 DEF Next

\* Whatever commands race with whatever editing, a project whose config is the user's comes to be
\* governed by init's scaffold only if its config has one of the lower-ranked names.
THEOREM UsersConfigStays == Spec => ConfigStaysTheUsers
<1>1. Init => ConfigsHold
  BY DEF Init, ConfigsHold
<1>2. ConfigsHold /\ [Next]_vars => ConfigsHold'
  BY ConfigSteps
<1>3. ConfigsHold /\ [Next]_vars =>
         (LoadConfig.by = "user" /\ LoadConfig'.by = "init" => configs["deployoor.config.ts"] = NoConfig)
  <2> SUFFICES ASSUME ConfigsHold, [Next]_vars, LoadConfig.by = "user", configs[TS] # NoConfig
               PROVE  LoadConfig'.by # "init"
    BY DEF TS
  <2>1. LoadConfig = configs[TS]
    BY FirstConfig
  <2>2. CASE UNCHANGED configs
    BY <2>2 DEF LoadConfig, ConfigPaths
  <2>3. ASSUME NEW cfg \in UserConfigs, configs'[TS] \in {configs[TS], Written(cfg)}
        PROVE  LoadConfig'.by # "init"
    <3>1. configs'[TS] # NoConfig /\ configs'[TS].by = "user"
      BY <2>1, <2>3, CommandLineAssumption DEF Written
    <3>2. LoadConfig' = configs'[TS]
      <4>1. DOMAIN CONFIG_NAMES = 1 .. 3 /\ CONFIG_NAMES[1] = TS
        BY DEF CONFIG_NAMES, TS
      <4>2. ConfigPaths' \subseteq 1 .. 3 /\ 1 \in ConfigPaths'
        BY <3>1, <4>1 DEF ConfigPaths
      <4>3. First(ConfigPaths') = 1
        BY <4>2, FirstIsLeast
      <4>4. QED
        BY <4>1, <4>2, <4>3 DEF LoadConfig, First
    <3>3. QED
      BY <3>1, <3>2
  <2>4. QED
    BY <2>2, <2>3, ConfigSteps
<1>4. QED
  BY <1>1, <1>2, <1>3, PTL DEF Spec, ConfigStaysTheUsers

-----------------------------------------------------------------------------
(* What goes from an ignore file.                                           *)

Lines == (UNION {ToSet(lines) : lines \in IgnoreFiles}) \cup DOMAIN Rules \cup Own

\* Ignore files are lists of lines, and only who asks at a terminal comes to edit one.
LinesInv ==
    /\ ignore \in Seq(Lines)
    /\ base = [p \in Processes |-> base[p]] /\ \A p \in Processes : base[p] \in Seq(Lines)
    /\ pc = [p \in Processes |-> pc[p]] /\ job = [p \in Processes |-> job[p]]
    /\ \A p \in Processes : pc[p] \in {"read", "write"} => Asks(p)

\* A strictly increasing enumeration of a finite set of positions leaves none out.
LEMMA EnumerationIsComplete ==
    ASSUME NEW keep \in SUBSET Nat, IsFiniteSet(keep),
           NEW f \in [1..Cardinality(keep) -> keep],
           \A j, k \in DOMAIN f : j < k => f[j] < f[k],
           NEW i \in keep
    PROVE  \E k \in DOMAIN f : f[k] = i
<1> DEFINE n == Cardinality(keep)
<1>1. n \in Nat
  BY FS_CardinalityType
<1>2. f \in Injection(1..n, keep)
  <2>1. ASSUME NEW j \in 1..n, NEW k \in 1..n, f[j] = f[k] PROVE j = k
    <3>1. f[j] \in Nat /\ f[k] = f[j]
      BY <2>1
    <3>2. ~ j < k /\ ~ k < j
      <4>1. j < k => f[j] < f[k]
        OBVIOUS
      <4>2. k < j => f[k] < f[j]
        OBVIOUS
      <4>3. QED
        BY <3>1, <4>1, <4>2
    <3>3. QED
      BY <1>1, <3>2
  <2>2. QED
    BY <2>1 DEF Injection, IsInjective
<1>3. Cardinality(1..n) = n
  BY <1>1, FS_Interval
<1>4. f \in Surjection(1..n, keep)
  BY <1>2, <1>3, FS_Injection
<1>5. QED
  BY <1>4 DEF Surjection

\* A rewrite takes only reported patterns and comments that mention deployoor.
LEMMA RewriteKeeps ==
    ASSUME NEW lines \in Seq(Lines), NEW rules, NEW left \in RemoveIgnoreRules(lines, rules)
    PROVE  /\ left \in Seq(Lines)
           /\ \A line \in ToSet(lines) \ ToSet(left) : line \in Own \cup {rule.pattern : rule \in rules}
<1> DEFINE there == StillThere(lines, rules)
           drop  == {rule.line : rule \in there}
                    \cup UNION {OwnComments(lines, rule.line) : rule \in there}
           keep  == DOMAIN lines \ drop
<1>1. PICK f \in [1..Cardinality(keep) -> keep] :
         /\ \A j, k \in DOMAIN f : j < k => f[j] < f[k]
         /\ left = [k \in DOMAIN f |-> lines[f[k]]]
  BY DEF RemoveIgnoreRules
<1>2. DOMAIN lines = 1..Len(lines) /\ Len(lines) \in Nat /\ \A i \in DOMAIN lines : lines[i] \in Lines
  OBVIOUS
<1>3. keep \in SUBSET Nat /\ keep \in SUBSET (DOMAIN lines) /\ IsFiniteSet(keep)
  <2>1. IsFiniteSet(1..Len(lines))
    BY <1>2, FS_Interval
  <2>2. keep \in SUBSET (1..Len(lines))
    BY <1>2
  <2>3. QED
    BY <1>2, <2>1, <2>2, FS_Subset
<1>4. ASSUME NEW i \in DOMAIN lines, i \in drop
      PROVE  lines[i] \in Own \cup {rule.pattern : rule \in rules}
  <2>1. CASE \E rule \in there : i = rule.line
    BY <2>1 DEF StillThere
  <2>2. CASE \E rule \in there : i \in OwnComments(lines, rule.line)
    <3>1. PICK rule \in there : i \in OwnComments(lines, rule.line)
      BY <2>2
    <3>2. rule.line \in DOMAIN lines
      BY <3>1 DEF StillThere
    <3>3. i \in i..(rule.line - 1)
      BY <1>2, <3>1, <3>2 DEF OwnComments
    <3>4. QED
      BY <3>1, <3>3 DEF OwnComments
  <2>3. QED
    BY <1>4, <2>1, <2>2
<1> HIDE DEF keep
<1>5. left \in Seq(Lines)
  <2>1. Cardinality(keep) \in Nat
    BY <1>3, FS_CardinalityType
  <2>2. left \in [1..Cardinality(keep) -> Lines]
    BY <1>1, <1>2, <1>3
  <2>3. QED
    BY <2>1, <2>2
<1>6. ASSUME NEW i \in keep PROVE lines[i] \in ToSet(left)
  <2>1. PICK k \in DOMAIN f : f[k] = i
    BY <1>1, <1>3, <1>6, EnumerationIsComplete
  <2>2. left[k] = lines[i] /\ k \in DOMAIN left
    BY <1>1, <2>1
  <2>3. QED
    BY <2>2 DEF ToSet
<1>7. ASSUME NEW line \in ToSet(lines), line \notin ToSet(left)
      PROVE  line \in Own \cup {rule.pattern : rule \in rules}
  <2>1. PICK i \in DOMAIN lines : line = lines[i]
    BY <1>7 DEF ToSet
  <2>2. i \in drop
    BY <1>6, <1>7, <2>1 DEF keep
  <2>3. QED
    BY <1>4, <2>1, <2>2
<1>8. QED
  BY <1>5, <1>7

LEMMA LinesInit == Init => LinesInv
<1> SUFFICES ASSUME Init PROVE LinesInv
  OBVIOUS
<1>1. ignore \in Seq(ToSet(ignore)) /\ ToSet(ignore) \subseteq Lines
  BY CommandLineAssumption DEF Init, Lines
<1>2. ignore \in Seq(Lines)
  BY <1>1
<1>3. QED
  BY <1>2, EmptySeq DEF Init, LinesInv

\* An editor's save leaves a list of lines.
LEMMA SaveLeavesLines == LinesInv /\ SaveIgnore => ignore' \in Seq(Lines)
<1> SUFFICES ASSUME LinesInv, SaveIgnore PROVE ignore' \in Seq(Lines)
  OBVIOUS
<1>1. /\ ignore \in Seq(Lines) /\ Len(ignore) \in Nat /\ DOMAIN ignore = 1..Len(ignore)
      /\ \A i \in 1..Len(ignore) : ignore[i] \in Lines
  BY DEF LinesInv
<1>2. ASSUME NEW m \in Int, NEW n \in Int, 1 <= m, n <= Len(ignore)
      PROVE  SubSeq(ignore, m, n) \in Seq(Lines)
  <2>1. \A i \in m..n : ignore[i] \in Lines
    BY <1>1, <1>2
  <2>2. QED
    BY <2>1, SubSeqProperties
<1>3. ASSUME NEW line \in DOMAIN Rules \cup Own, NEW at \in 1..Len(ignore) + 1,
             ignore' = InsertAt(ignore, at, line)
      PROVE  ignore' \in Seq(Lines)
  <2>1. SubSeq(ignore, 1, at - 1) \in Seq(Lines) /\ SubSeq(ignore, at, Len(ignore)) \in Seq(Lines)
    BY <1>1, <1>2
  <2>2. <<line>> \in Seq(Lines)
    <3>1. line \in Lines
      BY DEF Lines
    <3>2. QED
      BY <3>1
  <2>3. QED
    BY <1>3, <2>1, <2>2, ConcatProperties DEF InsertAt
<1>4. ASSUME NEW at \in DOMAIN ignore, ignore' = RemoveAt(ignore, at)
      PROVE  ignore' \in Seq(Lines)
  <2>1. SubSeq(ignore, 1, at - 1) \in Seq(Lines) /\ SubSeq(ignore, at + 1, Len(ignore)) \in Seq(Lines)
    BY <1>1, <1>2
  <2>2. QED
    BY <1>4, <2>1, ConcatProperties DEF RemoveAt
<1>5. QED
  BY <1>3, <1>4 DEF SaveIgnore

LEMMA LinesStep == LinesInv /\ [Next]_vars => LinesInv'
<1> SUFFICES ASSUME LinesInv, [Next]_vars PROVE LinesInv'
  OBVIOUS
<1>1. ASSUME NEW p \in Processes, Main(p) PROVE LinesInv'
  <2>1. /\ pc[p] = "start" /\ ignore' = ignore /\ base' = base
        /\ \E j \in Jobs : job' = [job EXCEPT ![p] = j]
        /\ \E label : pc' = [pc EXCEPT ![p] = label] /\ label \notin {"read", "write"}
    <3>1. PICK j \in Jobs :
             /\ job' = [job EXCEPT ![p] = j]
             /\ Goto(p, CASE j.command = "init"                             -> "detect"
                          [] j.command # "init" /\ Switch("help") \in j.argv -> "done"
                          [] j.command # "init" /\ Switch("help") \notin j.argv ->
                                IF BadUsage(j.argv) THEN "failed" ELSE EnsureDependencies)
      BY <1>1 DEF Main
    <3>2. EnsureDependencies \notin {"read", "write"}
      BY DEF EnsureDependencies
    <3>3. PICK label : Goto(p, label) /\ label \notin {"read", "write"}
      <4> DEFINE label ==
              CASE j.command = "init"                              -> "detect"
                [] j.command # "init" /\ Switch("help") \in j.argv -> "done"
                [] j.command # "init" /\ Switch("help") \notin j.argv ->
                      IF BadUsage(j.argv) THEN "failed" ELSE EnsureDependencies
      <4>1. label \notin {"read", "write"}
        BY <3>2
      <4>2. Goto(p, label)
        BY <3>1
      <4> HIDE DEF label
      <4>3. QED
        BY <4>1, <4>2
    <3>4. QED
      BY <1>1, <3>1, <3>3 DEF Main, Goto, project
  <2>2. \A q \in Processes : /\ pc'[q] \in {"read", "write"} => q # p /\ pc[q] = pc'[q]
                             /\ q # p => job'[q] = job[q]
    BY <2>1 DEF LinesInv
  <2>3. QED
    BY <2>1, <2>2 DEF LinesInv, Asks
<1>2. ASSUME NEW p \in Processes, Confirm(p) PROVE LinesInv'
  <2>1. /\ job' = job /\ ignore' = ignore /\ base' = base
        /\ \/ Asks(p) /\ pc' = [pc EXCEPT ![p] = "read"]
           \/ pc' = [pc EXCEPT ![p] = "done"]
    BY <1>2 DEF Confirm, Goto, project
  <2>2. QED
    BY <2>1 DEF LinesInv, Asks
<1>3. ASSUME NEW p \in Processes, ReadRules(p) PROVE LinesInv'
  <2>1. /\ job' = job /\ ignore' = ignore /\ base' = [base EXCEPT ![p] = ignore] /\ pc[p] = "read"
        /\ \E label : pc' = [pc EXCEPT ![p] = label]
    BY <1>3 DEF ReadRules, Goto, project
  <2>2. QED
    BY <2>1 DEF LinesInv, Asks
<1>4. ASSUME NEW p \in Processes, WriteRules(p) PROVE LinesInv'
  <2>1. /\ job' = job /\ base' = base /\ pc' = [pc EXCEPT ![p] = "done"]
        /\ ignore' \in RemoveIgnoreRules(base[p], report[p])
    BY <1>4 DEF WriteRules, Goto
  <2>2. ignore' \in Seq(Lines)
    BY <2>1, RewriteKeeps DEF LinesInv
  <2>3. QED
    BY <2>1, <2>2 DEF LinesInv, Asks
<1>5. ASSUME NEW p \in Processes,
             OfferInstall(p) \/ GenerateDeployers(p) \/ Detect(p) \/ Scaffold(p) \/ Load(p) \/ Check(p)
      PROVE  LinesInv'
  <2>1. /\ job' = job /\ ignore' = ignore /\ base' = base
        /\ \E label : pc' = [pc EXCEPT ![p] = label] /\ label \notin {"read", "write"}
    BY <1>5 DEF OfferInstall, GenerateDeployers, Detect, Scaffold, Load, Check, Goto, project
  <2>2. QED
    BY <2>1 DEF LinesInv, Asks
<1>6. ASSUME SaveIgnore PROVE LinesInv'
  <2>1. UNCHANGED <<job, pc, base>>
    BY <1>6 DEF SaveIgnore
  <2>2. QED
    BY <1>6, <2>1, SaveLeavesLines DEF LinesInv, Asks
<1>7. ASSUME SaveConfig \/ UNCHANGED vars PROVE LinesInv'
  BY <1>7 DEF SaveConfig, vars, LinesInv, Asks
<1>8. QED
  BY <1>1, <1>2, <1>3, <1>4, <1>5, <1>6, <1>7 DEF Next, Step

\* Whatever is edited while a command asks, it takes only lines it reported and comments that
\* mention deployoor, with somebody's leave; another line goes only if it was saved between the
\* second reading and the writing (gitignore.ts).
THEOREM ApprovedLinesOnly == Spec => OnlyApprovedLinesGo
<1>1. LinesInv /\ [Next]_vars =>
         \A p \in Processes : Step(p) =>
            \A line \in ToSet(ignore) \ ToSet(ignore') :
               \/ Asks(p) /\ line \in Own \cup {rule.pattern : rule \in report[p]}
               \/ line \notin ToSet(base[p])
  <2> SUFFICES ASSUME LinesInv, NEW p \in Processes, Step(p),
                      NEW line \in ToSet(ignore) \ ToSet(ignore'), line \in ToSet(base[p])
               PROVE  Asks(p) /\ line \in Own \cup {rule.pattern : rule \in report[p]}
    OBVIOUS
  <2>1. CASE WriteRules(p)
    <3>1. pc[p] = "write" /\ ignore' \in RemoveIgnoreRules(base[p], report[p])
      BY <2>1 DEF WriteRules
    <3>2. Asks(p) /\ base[p] \in Seq(Lines)
      BY <3>1 DEF LinesInv
    <3>3. QED
      BY <3>1, <3>2, RewriteKeeps
  <2>2. CASE ~ WriteRules(p)
    <3>1. ignore' = ignore
      BY <2>2 DEF Step, Main, OfferInstall, GenerateDeployers, Detect, Scaffold, Load, Check, Confirm,
                  ReadRules, project
    <3>2. QED
      BY <3>1
  <2>3. QED
    BY <2>1, <2>2
<1>2. QED
  BY <1>1, LinesInit, LinesStep, PTL DEF Spec, OnlyApprovedLinesGo
=============================================================================
