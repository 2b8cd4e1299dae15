--------------------------- MODULE Identity_proofs ---------------------------
(***************************************************************************)
(* The two notions of change agree: a record written by this version is     *)
(* compared by its identity hash, one without by the component diff, and    *)
(* history entries are told by the diff whatever decided.  Proved for every *)
(* code, argument list and set of libraries, where both can be computed.    *)
(***************************************************************************)
EXTENDS Identity, TLAPS

Codes(Bodies, Inners, Tails) ==
    [body : Bodies, inner : Inners, holes : {{}}, tail : Tails]

Values(Types, Meanings, Forms) == [type : Types, is : Meanings, as : Forms]

\* Libraries are compared name by name or as one function: the same.
LEMMA LibrariesAgree ==
    ASSUME NEW from, from = [name \in DOMAIN from |-> from[name]],
           NEW to, to = [name \in DOMAIN to |-> to[name]]
    PROVE  LibraryChanges(from, to) = {} <=> from = to
<1>1. ASSUME LibraryChanges(from, to) = {} PROVE from = to
  <2>1. \A name \in DOMAIN from \cup DOMAIN to :
         name \in DOMAIN from /\ name \in DOMAIN to /\ from[name] = to[name]
    BY <1>1 DEF LibraryChanges
  <2>2. DOMAIN from = DOMAIN to
    BY <2>1
  <2>3. QED
    BY <2>1, <2>2
<1>2. ASSUME from = to PROVE LibraryChanges(from, to) = {}
  BY <1>2 DEF LibraryChanges
<1>3. QED
  BY <1>1, <1>2

\* A record keeps what an argument means and its type, though not how it was written.
LEMMA RecordKeepsArguments ==
    ASSUME NEW T, NEW S, NEW F, "string" \in F,
           NEW artifact, NEW libraries, NEW args \in Seq(Values(T, S, F))
    PROVE  LET kept == RecordOf(artifact, args, libraries).args
           IN  /\ kept \in Seq(Values(T, S, F))
               /\ Len(kept) = Len(args)
               /\ \A i \in 1 .. Len(args) :
                     /\ kept[i].type = args[i].type /\ kept[i].is = args[i].is
                     /\ kept[i].as = "mixed" <=> args[i].as = "mixed"
<1> DEFINE kept == RecordOf(artifact, args, libraries).args
<1>1. kept = [i \in 1 .. Len(args) |->
                IF args[i].as = "bigint" THEN [args[i] EXCEPT !.as = "string"] ELSE args[i]]
  BY DEF RecordOf
<1>2. \A i \in 1 .. Len(args) : args[i] \in Values(T, S, F)
  OBVIOUS
<1>3. \A i \in 1 .. Len(args) :
         /\ kept[i] \in Values(T, S, F)
         /\ kept[i].type = args[i].type /\ kept[i].is = args[i].is
         /\ kept[i].as = "mixed" <=> args[i].as = "mixed"
  BY <1>1, <1>2 DEF Values
<1>4. kept \in Seq(Values(T, S, F)) /\ Len(kept) = Len(args)
  BY <1>1, <1>3
<1>5. QED
  BY <1>3, <1>4

\* Encoding succeeds: nothing is passed, or one value of each input's type.
Acceptable(inputs, args) ==
    \/ args = <<>>
    \/ Len(args) = Len(inputs) /\ \A i \in DOMAIN args : Encodes(args[i], inputs[i])

\* What an encoding holds.
LEMMA EncodesToMeanings ==
    ASSUME NEW inputs, NEW args, Acceptable(inputs, args)
    PROVE  EncodeConstructorArgs(inputs, args) = [i \in DOMAIN args |-> args[i].is]
<1>1. CASE args = <<>>
  BY <1>1 DEF EncodeConstructorArgs
<1>2. CASE args # <<>>
  BY <1>2 DEF EncodeConstructorArgs, Acceptable
<1>3. QED
  BY <1>1, <1>2

\* Two argument lists that both encode: the diff is empty exactly when the encodings are equal.
LEMMA ArgumentsAgree ==
    ASSUME NEW T, NEW S, NEW F, NoValue \notin Values(T, S, F), NEW inputs \in Seq(T), NoValue \notin T,
           NEW from \in Seq(Values(T, S, F)), NEW to \in Seq(Values(T, S, F)),
           Acceptable(inputs, from), Acceptable(inputs, to)
    PROVE  ChangedIndices(inputs, from, to) = {} <=>
              EncodeConstructorArgs(inputs, from) = EncodeConstructorArgs(inputs, to)
<1> DEFINE means(list) == [i \in DOMAIN list |-> list[i].is]
<1>1. /\ EncodeConstructorArgs(inputs, from) = means(from)
      /\ EncodeConstructorArgs(inputs, to) = means(to)
  BY EncodesToMeanings
<1>2. CASE Len(from) = Len(to)
  <2>1. \A i \in 1 .. Len(from) : ArgsMatch(from[i], to[i], inputs[i]) <=> from[i].is = to[i].is
    <3> TAKE i \in 1 .. Len(from)
    <3>1. Encodes(from[i], inputs[i]) /\ Encodes(to[i], inputs[i]) /\ inputs[i] # NoValue
      BY <1>2 DEF Acceptable
    <3> QED
      BY <3>1 DEF ArgsMatch, BothEncode
  <2>2. from # <<>> => Len(inputs) = Len(from)
    BY DEF Acceptable
  <2>3. ChangedIndices(inputs, from, to) = {i \in 1 .. Len(from) : from[i].is # to[i].is}
    BY <1>2, <2>1, <2>2 DEF ChangedIndices, At
  <2>4. QED
    BY <1>1, <1>2, <2>3
<1>3. CASE Len(from) # Len(to)
  <2>1. means(from) # means(to)
    BY <1>3
  <2>2. PICK i \in 1 .. Len(inputs) :
           \/ i \in DOMAIN from /\ i \notin DOMAIN to
           \/ i \in DOMAIN to /\ i \notin DOMAIN from
    <3>1. \/ from = <<>> /\ Len(to) = Len(inputs) /\ 1 \in DOMAIN to
          \/ to = <<>> /\ Len(from) = Len(inputs) /\ 1 \in DOMAIN from
      BY <1>3 DEF Acceptable
    <3>2. QED
      BY <3>1
  <2>3. ~ BothEncode(At(from, i), At(to, i), At(inputs, i))
    BY <2>2 DEF BothEncode, Encodes, At
  <2>4. JsonKey(At(from, i)) # JsonKey(At(to, i))
    <3>1. \A value \in Values(T, S, F) : JsonKey(value) # <<NoValue>>
      BY DEF JsonKey, TextKey
    <3>2. JsonKey(NoValue) = <<NoValue>>
      BY DEF JsonKey
    <3>3. QED
      BY <2>2, <3>1, <3>2 DEF At
  <2>5. i \in ChangedIndices(inputs, from, to)
    BY <2>2, <2>3, <2>4 DEF ChangedIndices, ArgsMatch
  <2>6. QED
    BY <1>1, <2>1, <2>5
<1>4. QED
  BY <1>1, <1>2, <1>3

\* Stripping the metadata leaves a code, so that its hash is never missing.
LEMMA StrippedIsCode ==
    ASSUME NEW B, NEW I, NEW M, NoValue \in M, NEW code \in Codes(B, I, M)
    PROVE  StripMetadata(code) \in Codes(B, I, M) /\ CodeHash(code) = StripMetadata(code)
<1>1. code.holes = {}
  BY DEF Codes
<1>2. StripMetadata(code) \in Codes(B, I, M)
  BY DEF StripMetadata, Codes
<1>3. QED
  BY <1>1, <1>2 DEF CodeHash

\* A contract is deployed and recorded; later the same contract, with the same constructor
\* parameters, is asked for with its code, arguments and libraries as they are then.  The hash that
\* on-change decides by (pipeline.ts) differs exactly when the diff a record without one would be
\* judged by (reasons.ts) finds something, for any code without holes and any arguments that
\* encode, however addresses and numbers are written and whatever the constructor's own code.
THEOREM HashAgreesWithDiff ==
    ASSUME NEW B, NEW I, NEW M, NoValue \in M, NoValue \notin Codes(B, I, M),
           NEW T, NEW S, NEW F, "string" \in F, NoValue \notin T, NoValue \notin Values(T, S, F),
           NEW A, NEW D, NEW E, NEW libs0 \in [D -> A], NEW libs \in [E -> A],
           NEW deployed, NEW artifact,
           deployed.creation.run \in Codes(B, I, M), artifact.creation.run \in Codes(B, I, M),
           artifact.inputs \in Seq(T), deployed.inputs = artifact.inputs,
           NEW args0 \in Seq(Values(T, S, F)), NEW args \in Seq(Values(T, S, F)),
           EncodeConstructorArgs(artifact.inputs, args0) # NoValue,
           EncodeConstructorArgs(artifact.inputs, args) # NoValue,
           ComputeIdentity(deployed, args0, libs0) # NoValue
    PROVE  LET record  == RecordOf(deployed, args0, libs0)
               current == ComputeIdentity(artifact, args, libs)
           IN  record.identityHash # current.identityHash
                  <=> ~ IsEmptyDiff(DiffIdentity(record, artifact, args, libs))
<1> DEFINE record  == RecordOf(deployed, args0, libs0)
           current == ComputeIdentity(artifact, args, libs)
           inputs  == artifact.inputs
           was     == StripMetadata(deployed.creation.run)
           now     == StripMetadata(artifact.creation.run)
<1>0. Acceptable(inputs, args0) /\ Acceptable(inputs, args)
  BY DEF Acceptable, EncodeConstructorArgs
<1>1. /\ record.identityHash = <<was, EncodeConstructorArgs(inputs, args0), libs0>>
      /\ record.codeHash = CodeHash(deployed.creation.run)
      /\ record.libraries = libs0
      /\ record.args = RecordOf(deployed, args0, libs0).args
  BY DEF RecordOf, ComputeIdentity
<1>2. current.identityHash = <<now, EncodeConstructorArgs(inputs, args), libs>>
  BY DEF ComputeIdentity
<1>3. record.identityHash = current.identityHash
         <=> /\ was = now
             /\ EncodeConstructorArgs(inputs, args0) = EncodeConstructorArgs(inputs, args)
             /\ libs0 = libs
  BY <1>1, <1>2
<1>4. CodeChanged(record, artifact) <=> was # now
  BY <1>1, StrippedIsCode DEF CodeChanged
<1>5. LibraryChanges(record.libraries, libs) = {} <=> libs0 = libs
  <2>1. LibraryChanges(libs0, libs) = {} <=> libs0 = libs
    <3>1. /\ libs0 = [name \in DOMAIN libs0 |-> libs0[name]]
          /\ libs = [name \in DOMAIN libs |-> libs[name]]
      OBVIOUS
    <3>2. QED
      BY <3>1, LibrariesAgree
  <2>2. QED
    BY <1>1, <2>1
<1>6. ChangedIndices(inputs, record.args, args) = {}
         <=> EncodeConstructorArgs(inputs, args0) = EncodeConstructorArgs(inputs, args)
  <2> DEFINE kept == record.args
  <2>1. /\ kept \in Seq(Values(T, S, F)) /\ Len(kept) = Len(args0)
        /\ \A i \in 1 .. Len(args0) :
              /\ kept[i].type = args0[i].type /\ kept[i].is = args0[i].is
              /\ kept[i].as = "mixed" <=> args0[i].as = "mixed"
    BY RecordKeepsArguments
  <2>2. Acceptable(inputs, kept)
    <3>1. CASE args0 = <<>>
      BY <2>1, <3>1 DEF Acceptable
    <3>2. CASE args0 # <<>>
      <4>1. Len(args0) = Len(inputs) /\ \A i \in 1 .. Len(args0) : Encodes(args0[i], inputs[i])
        BY <1>0, <3>2 DEF Acceptable
      <4>2. \A i \in 1 .. Len(kept) : kept[i] # NoValue
        BY <2>1
      <4>3. \A i \in 1 .. Len(kept) : Encodes(kept[i], inputs[i])
        BY <2>1, <4>1, <4>2 DEF Encodes
      <4>4. QED
        BY <2>1, <4>1, <4>3 DEF Acceptable
    <3>3. QED
      BY <3>1, <3>2
  <2>3. EncodeConstructorArgs(inputs, kept) = EncodeConstructorArgs(inputs, args0)
    <3>1. EncodeConstructorArgs(inputs, kept) = [i \in DOMAIN kept |-> kept[i].is]
      BY <2>2, EncodesToMeanings
    <3>2. EncodeConstructorArgs(inputs, args0) = [i \in DOMAIN args0 |-> args0[i].is]
      BY <1>0, EncodesToMeanings
    <3>3. DOMAIN kept = 1 .. Len(args0) /\ DOMAIN args0 = 1 .. Len(args0)
      BY <2>1
    <3>4. [i \in DOMAIN kept |-> kept[i].is] = [i \in DOMAIN args0 |-> args0[i].is]
      BY <2>1, <3>3
    <3>5. QED
      BY <3>1, <3>2, <3>4
  <2>4. ChangedIndices(inputs, kept, args) = {}
           <=> EncodeConstructorArgs(inputs, kept) = EncodeConstructorArgs(inputs, args)
    BY <1>0, <2>1, <2>2, ArgumentsAgree
  <2>5. QED
    BY <2>3, <2>4
<1>7. IsEmptyDiff(DiffIdentity(record, artifact, args, libs))
         <=> /\ ~ CodeChanged(record, artifact)
             /\ LibraryChanges(record.libraries, libs) = {}
             /\ ChangedIndices(inputs, record.args, args) = {}
  BY DEF IsEmptyDiff, DiffIdentity
<1>8. QED
  BY <1>3, <1>4, <1>5, <1>6, <1>7
=============================================================================
