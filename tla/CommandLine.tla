---------------------------- MODULE CommandLine ----------------------------
(***************************************************************************)
(* deployoor init and deployoor generate (cli.ts and cli/): several command *)
(* lines and the user's editor at work on one project.  A command checks    *)
(* the dependencies, writes its files, and reviews what git ignores: it     *)
(* asks git which rule ignores an output, asks the user, reads the ignore   *)
(* file again and writes it back.  Every await, and every pair of reading   *)
(* and writing a file another process may save, is two steps.               *)
(*                                                                          *)
(* A line of an ignore file is a string; Rules says which of them are       *)
(* rules, what each covers and names, and Own which comments mention        *)
(* deployoor.  base[p] is what the file held when p read it.                *)
(***************************************************************************)
EXTENDS Naturals, SequencesExt

CONSTANTS
    Processes,      \* command lines
    Jobs,           \* [command, argv, tty]: how they are started
    Rules,          \* [line -> [negated, covers, targets]], outputs being directories
    Own,            \* the comments that mention deployoor
    IgnoreFiles,    \* what the ignore file of the project may hold at first
    Excluded,       \* the lines of .git/info/exclude
    UserConfigs,    \* [name, inside]: the configs a user writes, and the outputs they leave inside
    Manifests,      \* [declared, near]: the packages a project declares, and finds installed
    NoConfig, NoJob,
    MaxSaves        \* bound: how often the user saves a file

CONFIG_NAMES == <<"deployoor.config.ts", "deployoor.config.js", "deployoor.config.mjs">>
REQUIRED_DEPENDENCIES == {"deployoor", "viem"}
OUTPUTS == {"deployers", "deployments"}
Template == [by |-> "init", inside |-> OUTPUTS]
Written(cfg) == [by |-> "user", inside |-> cfg.inside]

ASSUME CommandLineAssumption ==
    /\ NoConfig # Template /\ \A cfg \in UserConfigs : NoConfig # Written(cfg)
    /\ \A lines \in IgnoreFiles : lines \in Seq(ToSet(lines))

VARIABLES
    configs,        \* the config file of each name
    ignore,         \* .gitignore
    packages,       \* what the project declares, and what is installed in or above it
    pc, job, config, report, base,
    saves

vars == <<configs, ignore, packages, pc, job, config, report, base, saves>>
project == <<configs, ignore, packages, saves>>

Goto(p, label) == pc' = [pc EXCEPT ![p] = label]

-----------------------------------------------------------------------------
(* What a command finds. *)

\* loadConfig takes the first name there is; no file is a config of defaults.
ConfigPaths == {i \in DOMAIN CONFIG_NAMES : configs[CONFIG_NAMES[i]] # NoConfig}

First(paths) == CHOOSE i \in paths : \A j \in paths : i <= j

LoadConfig == IF ConfigPaths = {} THEN [by |-> "default", inside |-> OUTPUTS]
              ELSE configs[CONFIG_NAMES[First(ConfigPaths)]]

\* git: the last rule of a file that covers the path decides, the project's file before the clone's.
Covering(lines, output) ==
    {i \in DOMAIN lines : lines[i] \in DOMAIN Rules /\ output \in Rules[lines[i]].covers}

Deciding(lines, output) == CHOOSE i \in Covering(lines, output) :
                               \A j \in Covering(lines, output) : j <= i

\* check-ignore -v prints the rule that decides, a negation as well, which targets nothing.
CheckIgnore(output) ==
    LET source == IF Covering(ignore, output) # {} THEN ignore ELSE Excluded
        line   == Deciding(source, output)
    IN  IF Covering(source, output) = {} THEN {}
        ELSE {[output |-> output, line |-> line, pattern |-> source[line],
               editable |-> Covering(ignore, output) # {},
               targeted |-> ~ Rules[source[line]].negated /\ output \in Rules[source[line]].targets]}

\* An output outside the project is not asked about.
FindIgnoredOutput(cfg) == UNION {CheckIgnore(output) : output \in cfg.inside}

Removable(found) == {rule \in found : rule.editable /\ rule.targeted}

\* The comments mentioning deployoor directly above a line.
OwnComments(lines, index) ==
    {i \in 1 .. index - 1 : \A j \in i .. index - 1 : lines[j] \in Own}

\* Mutant: the reported line numbers are trusted.
StillThereUnchecked(lines, rules) == {rule \in rules : rule.line \in DOMAIN lines}

\* A rule is left alone when its line no longer holds its pattern.
StillThere(lines, rules) ==
    {rule \in rules : rule.line \in DOMAIN lines /\ lines[rule.line] = rule.pattern}

\* All of a file's rules go in one rewrite, their line numbers being those of one reading; what is
\* left stays in its order (one list of lines, given as a set).
RemoveIgnoreRules(lines, rules) ==
    LET there == StillThere(lines, rules)
        drop  == {rule.line : rule \in there}
                 \cup UNION {OwnComments(lines, rule.line) : rule \in there}
        keep  == DOMAIN lines \ drop
        order == {f \in [1..Cardinality(keep) -> keep] : \A j, k \in DOMAIN f : j < k => f[j] < f[k]}
    IN  {[k \in DOMAIN f |-> lines[f[k]]] : f \in order}

-----------------------------------------------------------------------------
(* A command. *)

Init ==
    /\ configs = [name \in ToSet(CONFIG_NAMES) |-> NoConfig]
    /\ ignore \in IgnoreFiles
    /\ packages \in Manifests
    /\ pc = [p \in Processes |-> "start"]
    /\ job = [p \in Processes |-> NoJob]
    /\ config = [p \in Processes |-> NoConfig]
    /\ report = [p \in Processes |-> {}]
    /\ base = [p \in Processes |-> <<>>]
    /\ saves = 0

\* Declared in any of the four dependency fields, or installed where the import would find it.
IsAvailable(name) == name \in packages.declared \cup packages.near

MissingDependencies == {name \in REQUIRED_DEPENDENCIES : ~ IsAvailable(name)}

\* A word of the command line is [flag, name, valued]: --name, --name=value or a positional word.
Switch(name) == [flag |-> TRUE, name |-> name, valued |-> FALSE]

\* What parseGenerateArgs throws at: an unknown flag, --json with a value, a positional word.
BadUsage(argv) ==
    \E token \in argv : \/ token.flag /\ token.name \notin {"json", ""}
                        \/ token.flag /\ token.name = "json" /\ token.valued
                        \/ ~ token.flag

\* confirm: with no terminal, or for --json, nobody is asked and the answer is no.
Asks(p) == job[p].tty /\ ~ (job[p].command = "generate" /\ Switch("json") \in job[p].argv)

EnsureDependencies == IF MissingDependencies = {} THEN "generate" ELSE "offer"

\* A command line that does not parse ends before anything is read or written.
Main(p) ==
    /\ pc[p] = "start"
    /\ \E j \in Jobs :
          /\ job' = [job EXCEPT ![p] = j]
          /\ Goto(p, CASE j.command = "init"                             -> "detect"
                       [] j.command # "init" /\ Switch("help") \in j.argv -> "done"
                       [] j.command # "init" /\ Switch("help") \notin j.argv ->
                             IF BadUsage(j.argv) THEN "failed" ELSE EnsureDependencies)
    /\ UNCHANGED <<project, config, report, base>>

\* offerInstall: the install runs, and may fail.
OfferInstall(p) ==
    /\ pc[p] = "offer"
    /\ \/ Goto(p, "failed") /\ UNCHANGED packages
       \/ /\ Asks(p) /\ Goto(p, "generate")
          /\ packages' = [declared |-> packages.declared \cup MissingDependencies,
                          near     |-> packages.near \cup MissingDependencies]
    /\ UNCHANGED <<configs, ignore, saves, job, config, report, base>>

\* generateDeployers: checks deployoor again, and fails with the config, the artifacts or the files.
GenerateDeployers(p) ==
    /\ pc[p] = "generate"
    /\ \/ Goto(p, "failed")
       \/ IsAvailable("deployoor") /\ Goto(p, "load")
    /\ UNCHANGED <<project, job, config, report, base>>

\* runInit: the toolchain is detected first, which is asynchronous.
Detect(p) ==
    /\ pc[p] = "detect"
    /\ Goto(p, "scaffold")
    /\ UNCHANGED <<project, job, config, report, base>>

\* Mutant: the file is written whether or not there is one.
ScaffoldAnyway(p) ==
    /\ pc[p] = "scaffold"
    /\ configs' = [configs EXCEPT !["deployoor.config.ts"] = Template]
    /\ Goto(p, "load")
    /\ UNCHANGED <<ignore, packages, saves, job, config, report, base>>

\* The scaffold is created exclusively: an existing file is left as it is.
Scaffold(p) ==
    /\ pc[p] = "scaffold"
    /\ configs' = IF configs["deployoor.config.ts"] = NoConfig
                  THEN [configs EXCEPT !["deployoor.config.ts"] = Template] ELSE configs
    /\ Goto(p, "load")
    /\ UNCHANGED <<ignore, packages, saves, job, config, report, base>>

\* Both commands load the config they review the ignore rules for, generate for the second time; it
\* may not evaluate, and the command ends.
Load(p) ==
    /\ pc[p] = "load"
    /\ \/ /\ config' = [config EXCEPT ![p] = LoadConfig]
          /\ Goto(p, "check")
       \/ /\ ConfigPaths # {}
          /\ Goto(p, "failed")
          /\ UNCHANGED config
    /\ UNCHANGED <<project, job, report, base>>

\* findIgnoredOutput; git may be unable to answer, which is silence.
Check(p) ==
    /\ pc[p] = "check"
    /\ \E found \in {{}, FindIgnoredOutput(config[p])} :
          /\ report' = [report EXCEPT ![p] = Removable(found)]
          /\ Goto(p, IF Removable(found) = {} THEN "done" ELSE "ask")
    /\ UNCHANGED <<project, job, config, base>>

Confirm(p) ==
    /\ pc[p] = "ask"
    /\ \/ Asks(p) /\ Goto(p, "read")
       \/ Goto(p, "done")
    /\ UNCHANGED <<project, job, config, report, base>>

\* removeIgnoreRules reads the file as it is by now ...
ReadRules(p) ==
    /\ pc[p] = "read"
    /\ base' = [base EXCEPT ![p] = ignore]
    /\ Goto(p, IF StillThere(ignore, report[p]) = {} THEN "done" ELSE "write")
    /\ UNCHANGED <<project, job, config, report>>

\* ... and writes it back without the lines.
WriteRules(p) ==
    /\ pc[p] = "write"
    /\ ignore' \in RemoveIgnoreRules(base[p], report[p])
    /\ Goto(p, "done")
    /\ UNCHANGED <<configs, packages, saves, job, config, report, base>>

-----------------------------------------------------------------------------
(* The user's editor. *)

SaveConfig ==
    /\ saves < MaxSaves
    /\ \E cfg \in UserConfigs :
          configs' = [configs EXCEPT ![cfg.name] = Written(cfg)]
    /\ saves' = saves + 1
    /\ UNCHANGED <<ignore, packages, pc, job, config, report, base>>

\* A line is added, or one is deleted.
SaveIgnore ==
    /\ saves < MaxSaves
    /\ \/ \E line \in DOMAIN Rules \cup Own, at \in 1 .. Len(ignore) + 1 :
             ignore' = InsertAt(ignore, at, line)
       \/ \E at \in DOMAIN ignore : ignore' = RemoveAt(ignore, at)
    /\ saves' = saves + 1
    /\ UNCHANGED <<configs, packages, pc, job, config, report, base>>

Step(p) ==
    \/ Main(p) \/ OfferInstall(p) \/ GenerateDeployers(p)
    \/ Detect(p) \/ Scaffold(p) \/ Load(p)
    \/ Check(p) \/ Confirm(p) \/ ReadRules(p) \/ WriteRules(p)

Next == (\E p \in Processes : Step(p)) \/ SaveConfig \/ SaveIgnore

Spec == Init /\ [][Next]_vars

-----------------------------------------------------------------------------
(* Properties. *)

\* However inits, generates and an editor race, the config in force stays the user's once it is:
\* init only ever creates deployoor.config.ts (init.ts).  It comes to shadow the user's config
\* exactly when that one has another of the names, which loadConfig ranks lower.
ConfigStaysTheUsers ==
    [][LoadConfig.by = "user" /\ LoadConfig'.by = "init" => configs["deployoor.config.ts"] = NoConfig]_vars

\* A command takes from the ignore file only lines it reported and was told, by someone at a terminal,
\* to remove, and comments that mention deployoor, whatever was edited while it asked
\* (gitignore.ts); any other line is lost only if it was saved between the second reading and
\* the writing.
OnlyApprovedLinesGo ==
    [][\A p \in Processes : Step(p) =>
          \A line \in ToSet(ignore) \ ToSet(ignore') :
             \/ Asks(p) /\ line \in Own \cup {rule.pattern : rule \in report[p]}
             \/ line \notin ToSet(base[p])]_vars
=============================================================================
