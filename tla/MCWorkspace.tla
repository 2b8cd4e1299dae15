---------------------------- MODULE MCWorkspace ----------------------------
(* One contract Token beside a contract Other, in the projects that tell the readers apart. *)
EXTENDS Workspace

Run(body, holes, inner, note) ==
    [body |-> body, holes |-> holes, inner |-> inner, tail |-> [cbor |-> TRUE, of |-> note]]

Token(abi, ctor, run) ==
    [path |-> "Token.sol", name |-> "Token", abi |-> abi, inputs |-> <<"uint", "address">>,
     creation |-> [ctor |-> ctor, run |-> run]]

\* The versions of Token.sol: a comment, the code, the interface, the constructor, a comment of a
\* contract it creates, an ending that is no metadata, and a library; then Other.sol and an interface file.
Versions ==
    [t1 |-> Token({"f"}, 1, Run(1, {}, 1, 1)),
     note |-> Token({"f"}, 1, Run(1, {}, 1, 2)),
     body |-> Token({"f"}, 1, Run(2, {}, 1, 3)),
     face |-> Token({"f", "g"}, 1, Run(3, {}, 1, 4)),
     ctor |-> Token({"f"}, 2, Run(1, {}, 1, 5)),
     child |-> Token({"f"}, 1, Run(1, {}, 2, 6)),
     raw |-> Token({"f"}, 1, [Run(1, {}, 1, 8) EXCEPT !.tail.cbor = FALSE]),
     lib  |-> Token({"f"}, 1, Run(4, {"L"}, 1, 7)),
     other |-> [path |-> "Other.sol", name |-> "Other", abi |-> {"h"}, inputs |-> <<>>,
                creation |-> [ctor |-> 1, run |-> Run(9, {}, 1, 9)]],
     iface |-> [path |-> "IToken.sol", name |-> "IToken", abi |-> {"f"}, inputs |-> <<>>,
                creation |-> NoValue]]

AllTrees == {{v} : v \in {"t1", "note", "body", "face", "ctor", "child", "raw", "lib"}}
            \cup {{"t1", "other"}, {"iface"}}

Value(type, is, as) == [type |-> type, is |-> is, as |-> as]
Address == Value("address", 8, "lower")
Pass(args, libraries) == [args |-> args, libraries |-> libraries, bound |-> TRUE]
Numbers == {Value("uint", 1, as) : as \in {"number", "string", "bigint"}}
PassedValues == Numbers \cup {Value("uint", 2, "number"), Address}
                \cup {Value("address", 8, as) : as \in {"checksum", "mixed"}}
One == <<Value("uint", 1, "number"), Address>>
Written == <<Value("uint", 1, "bigint"), Value("address", 8, "checksum")>>
Two == <<Value("uint", 2, "number"), Address>>
Mixed == <<Value("uint", 1, "number"), Value("address", 8, "mixed")>>
Arguments == {Pass(args, <<>>) : args \in {One, Written, Two, Mixed}}
Links == {Pass(One, libraries) : libraries \in {<<>>, [L |-> 1], [L |-> 2]}}
Plain == {Pass(One, <<>>), [Pass(One, <<>>) EXCEPT !.bound = FALSE]}

Env(out, profile) == [out |-> out, profile |-> profile]
Taken(dir) == [takes |-> dir, reads |-> dir]
Unread(dir) == [takes |-> dir, reads |-> NoValue]

\* Nothing is configured; then what a project can be given instead.
Vanilla == [hardhat |-> Taken(NoValue), toml |-> <<>>, readable |-> TRUE,
            shell |-> Env(NoValue, "default"), script |-> Env(NoValue, "default")]
HardhatMoved == {Vanilla, [Vanilla EXCEPT !.hardhat = Taken("moved")]}
HardhatUnread == {Vanilla, [Vanilla EXCEPT !.hardhat = Unread("moved")],
                  [Vanilla EXCEPT !.hardhat = [takes |-> "moved", reads |-> "out"]]}
Profiles == [Vanilla EXCEPT !.toml = [default |-> Taken("out"), ci |-> Taken("moved")]]
FoundryMoved ==
    {Vanilla, Profiles,
     [Profiles EXCEPT !.shell.profile = "ci", !.script.profile = "ci"],
     [Profiles EXCEPT !.shell.profile = "ci"],
     [Vanilla EXCEPT !.shell.out = "moved", !.script.out = "moved"],
     [Vanilla EXCEPT !.shell.out = "moved"],
     [Vanilla EXCEPT !.toml = [default |-> Unread("moved")]],
     [Vanilla EXCEPT !.toml = [default |-> Taken("moved")], !.readable = FALSE]}

Base == [markers |-> {"hardhat"}, framework |-> NoValue, artifactsPath |-> NoValue,
         config |-> Vanilla, configs |-> HardhatMoved, plugin |-> TRUE,
         include |-> NoValue, strategies |-> [chain |-> NoValue, global |-> NoValue]]

\* A record without hashes, as schema version 1 wrote it.
Version1 ==
    LET args == <<Value("uint", 1, "string"), Address>>
    IN  [live |-> [version |-> "t1", args |-> args, libraries |-> <<>>, by |-> "hardhat"],
         record |-> [RecordOf(ToArtifact("t1", {"t1"}), args, <<>>)
                       EXCEPT !.codeHash = NoValue, !.identityHash = NoValue]]

Setup(p, t, trees, requests, o) ==
    [project |-> p @@ [trees |-> {{v} : v \in trees} \cup {t}, requests |-> requests],
     tree |-> t, old |-> o]
Hybrid == [Base EXCEPT !.markers = {"foundry", "hardhat"}, !.plugin = FALSE]

\* An old record; a new one; Foundry, as it is and reconfigured; both toolchains, undecided and
\* decided; a config that does not evaluate; a pinned directory; an unsupported toolchain.
SomeSetups ==
    {Setup(Base, {"t1"}, {"note", "body", "ctor", "lib"}, Arguments \cup Links, Version1),
     Setup(Base, {"t1"}, {"note", "face", "ctor", "child", "raw"}, Arguments, NoValue),
     Setup([Base EXCEPT !.markers = {"foundry"}, !.plugin = FALSE, !.configs = {}],
           {"t1"}, {"body", "face"}, Arguments, NoValue),
     Setup([Base EXCEPT !.markers = {"foundry"}, !.plugin = FALSE, !.configs = FoundryMoved],
           {"t1"}, {"body"}, Plain, NoValue),
     Setup(Hybrid, {"t1"}, {"body"}, Plain, NoValue),
     Setup([Hybrid EXCEPT !.framework = "hardhat",
                          !.strategies = [chain |-> "on-change", global |-> "never"]],
           {"lib"}, {"body"}, Links, NoValue),
     Setup([Base EXCEPT !.configs = HardhatUnread, !.include = {"Token"}],
           {"t1"}, {"body", "iface"}, Plain, NoValue),
     Setup([Base EXCEPT !.artifactsPath = "artifacts", !.strategies.global = "always"],
           {"t1", "other"}, {"iface"}, Arguments, NoValue),
     Setup([Base EXCEPT !.framework = "truffle"], {"t1"}, {}, Plain, NoValue)}
=============================================================================
