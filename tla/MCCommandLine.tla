--------------------------- MODULE MCCommandLine ---------------------------
(* Two command lines in one project: rules that name one output, cover both, or take one back. *)
EXTENDS CommandLine

Both == {"deployers", "deployments"}
SomeRules ==
    [line \in {"deployers", "deployments", "*", "!deployers"} |->
       CASE line = "deployers"   -> [negated |-> FALSE, covers |-> {"deployers"}, targets |-> {"deployers"}]
         [] line = "deployments" -> [negated |-> FALSE, covers |-> {"deployments"}, targets |-> {"deployments"}]
         [] line = "*"           -> [negated |-> FALSE, covers |-> Both, targets |-> {}]
         [] OTHER                -> [negated |-> TRUE, covers |-> {"deployers"}, targets |-> {}]]

Clone == <<"deployments">>
Comment == "# written by deployoor"

Files == {<<Comment, "deployers", "deployments">>, <<"*", "deployers">>, <<"deployments", "deployers", "!deployers">>}

Start(command, argv, tty) == [command |-> command, argv |-> argv, tty |-> tty]
Starts == {Start("init", {}, TRUE), Start("init", {}, FALSE),
           Start("generate", {}, TRUE), Start("generate", {Switch("json")}, TRUE)}
          \cup {Start("generate", {token}, FALSE) :
                  token \in {Switch("help"), [Switch("json") EXCEPT !.valued = TRUE]}}

\* viem comes from the workspace above, is declared, or is missing.
Projects == {[declared |-> {"deployoor"}, near |-> near] : near \in SUBSET {"viem"}}

UserWrites == {[name |-> "deployoor.config.ts", inside |-> Both],
            [name |-> "deployoor.config.js", inside |-> {"deployments"}]}
=============================================================================
