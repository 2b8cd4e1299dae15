------------------------------ MODULE Identity ------------------------------
(***************************************************************************)
(* When is a recorded deployment still the one a call asks for?  The pure   *)
(* part of the pipeline: the deploy identity (engine/identity.ts), the      *)
(* component diff (engine/reasons.ts), the drift warnings (pipeline.ts),    *)
(* linking, the strategy, and the pinned sources.                           *)
(*                                                                          *)
(* A hash is its preimage: keccak never collides here, and the              *)
(* concatenation under it is a tuple.  Bytecode is a record                 *)
(*   body   the instructions      inner  metadata of a child contract the   *)
(*   holes  libraries not linked         code embeds (a factory), mid-code  *)
(*   tail   the trailing metadata [cbor, of], or NoValue when there is none *)
(* and creation code is [ctor, run]: the constructor before the runtime,    *)
(* whose trailing metadata is its own.  A library address is a value        *)
(* compared whatever its case (getAddress, isAddressEqual).                 *)
(***************************************************************************)
EXTENDS Naturals, Sequences, FiniteSets

CONSTANT NoValue        \* undefined: an absent field, a value that cannot be computed

-----------------------------------------------------------------------------
(* Code. *)

\* Mutant: the metadata counts as code.
StripNothing(code) == code

\* Only a trailing CBOR map is metadata; anything else at the end stays.
StripMetadata(code) ==
    IF code.tail # NoValue /\ code.tail.cbor THEN [code EXCEPT !.tail = NoValue] ELSE code

\* Absent while the code has a hole: it is not hex yet.
CodeHash(code) == IF code.holes = {} THEN StripMetadata(code) ELSE NoValue

StripCreation(creation) == [creation EXCEPT !.run = StripMetadata(@)]

-----------------------------------------------------------------------------
(* Constructor arguments: a value is [type, is, as], what it means and how  *)
(* it is written.  A record keeps the way it was written, except that the   *)
(* store's JSON turns a bigint into a string.                               *)

AddressForms == {"checksum", "lower", "mixed"}

\* viem takes a number in any writing and an address unless its case is a wrong checksum.
Encodes(value, type) == value # NoValue /\ value.type = type /\ value.as # "mixed"

\* encodeDeployData: no arguments encode to nothing whatever the constructor takes.
EncodeConstructorArgs(inputs, args) ==
    IF args = <<>> THEN <<>>
    ELSE IF Len(args) = Len(inputs) /\ \A i \in DOMAIN args : Encodes(args[i], inputs[i])
         THEN [i \in DOMAIN args |-> args[i].is]
         ELSE NoValue

\* JSON with a bigint as its digits: the key of warnIfStale.
TextKey(value) == <<value.is, IF value.as = "bigint" THEN "string" ELSE value.as>>

\* reasons.ts folds the case of addresses as well.
JsonKey(value) ==
    IF value = NoValue THEN <<NoValue>>
    ELSE IF value.as \in AddressForms THEN <<value.is, "address">> ELSE TextKey(value)

At(seq, i) == IF i \in DOMAIN seq THEN seq[i] ELSE NoValue

BothEncode(from, to, input) == input # NoValue /\ Encodes(from, input) /\ Encodes(to, input)

\* By what they mean where the abi can tell, else by how they are written.
ArgsMatch(from, to, input) ==
    IF BothEncode(from, to, input) THEN from.is = to.is ELSE JsonKey(from) = JsonKey(to)

-----------------------------------------------------------------------------
(* The identity of an artifact [abi, inputs, creation, ...] with args and   *)
(* libraries (a function from names to addresses), and the two comparisons. *)

ComputeIdentity(artifact, args, libraries) ==
    LET encoded == EncodeConstructorArgs(artifact.inputs, args)
    IN  IF encoded = NoValue THEN NoValue
        ELSE [codeHash     |-> CodeHash(artifact.creation.run),
              identityHash |-> <<StripMetadata(artifact.creation.run), encoded, libraries>>]

CodeChanged(existing, artifact) ==
    LET hash == CodeHash(artifact.creation.run)
    IN  IF existing.codeHash # NoValue /\ hash # NoValue
        THEN existing.codeHash # hash
        ELSE StripCreation(existing.creation) # StripCreation(artifact.creation)

LibraryChanges(from, to) ==
    {name \in DOMAIN from \cup DOMAIN to :
        ~ (name \in DOMAIN from /\ name \in DOMAIN to /\ from[name] = to[name])}

ChangedIndices(inputs, from, to) ==
    {i \in DOMAIN from \cup DOMAIN to : ~ ArgsMatch(At(from, i), At(to, i), At(inputs, i))}

DiffIdentity(existing, artifact, args, libraries) ==
    [code      |-> CodeChanged(existing, artifact),
     libraries |-> LibraryChanges(existing.libraries, libraries),
     args      |-> ChangedIndices(artifact.inputs, existing.args, args)]

IsEmptyDiff(diff) == ~ diff.code /\ diff.libraries = {} /\ diff.args = {}

\* The hash when both sides have one, else the diff.
IdentityChanged(existing, artifact, args, libraries) ==
    LET current == ComputeIdentity(artifact, args, libraries)
    IN  IF existing.identityHash # NoValue /\ current # NoValue
        THEN current.identityHash # existing.identityHash
        ELSE ~ IsEmptyDiff(DiffIdentity(existing, artifact, args, libraries))

\* What the history entry says: which kinds of change, none being possible.
RenderSummary(reason) ==
    CASE reason.kind = "fresh"      -> {"first deployment"}
      [] reason.kind = "forced"     -> {"forced redeploy"}
      [] reason.kind = "registered" -> {"registered external contract"}
      [] OTHER ->
            IF IsEmptyDiff(reason.changes) THEN {"deploy identity changed"}
            ELSE {change \in {"code", "library", "args"} :
                    \/ change = "code" /\ reason.changes.code
                    \/ change = "library" /\ reason.changes.libraries # {}
                    \/ change = "args" /\ reason.changes.args # {}}

-----------------------------------------------------------------------------
(* The rest of a call's decision. *)

ResolveStrategy(call, chain, global) ==
    IF call # NoValue THEN call
    ELSE IF chain # NoValue THEN chain
    ELSE IF global # NoValue THEN global ELSE "on-change"

\* Mutant: the arguments are not compared.
WarnIfCodeStale(existing, artifact, args) ==
    IF existing.creation # artifact.creation THEN {"bytecode"} ELSE {}

\* Compares the unlinked bytecode as text, and the arguments as text: no library.
WarnIfStale(existing, artifact, args) ==
    (IF existing.creation # artifact.creation THEN {"bytecode"} ELSE {})
    \cup (IF [i \in DOMAIN existing.args |-> TextKey(existing.args[i])]
             # [i \in DOMAIN args |-> TextKey(args[i])] THEN {"args"} ELSE {})

\* The libraries a link lacks; linking fails unless there is none.
MissingLibraries(artifact, libraries) == artifact.creation.run.holes \ DOMAIN libraries

\* The sidecar is named by its content.
PinSources(artifact) ==
    [fullyQualifiedName |-> artifact.fullyQualifiedName, sources |-> artifact.sources]

\* The record a deployment writes, as a later call reads it back.
RecordOf(artifact, args, libraries) ==
    LET identity == ComputeIdentity(artifact, args, libraries)
    IN  [abi |-> artifact.abi, creation |-> artifact.creation, libraries |-> libraries,
         args |-> [i \in DOMAIN args |->
                     IF args[i].as = "bigint" THEN [args[i] EXCEPT !.as = "string"] ELSE args[i]],
         codeHash     |-> IF identity = NoValue THEN NoValue ELSE identity.codeHash,
         identityHash |-> IF identity = NoValue THEN NoValue ELSE identity.identityHash,
         sources      |-> PinSources(artifact)]
=============================================================================
