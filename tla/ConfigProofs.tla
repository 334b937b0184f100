---------------------------- MODULE ConfigProofs ----------------------------
(***************************************************************************)
(* Proofs about Config, for every file, environment and set of keys: what  *)
(* a start comes to is a function of the file and of the environment that  *)
(* it was started in, and from that follow the types and the two promises  *)
(* about a process that listens and about the certificate of Manta.        *)
(***************************************************************************)
EXTENDS Config, TLAPS

MantaOf(f) == IF f.hasManta THEN f.manta ELSE DefaultManta

\* The inductive invariant: what each stage of a start adds to the one before.
\* A restart has left nothing of an earlier start behind, so that what was
\* checked is what is used.
StartInv ==
    /\ file \in File /\ env \in Env
    /\ stage \in {"starting", "loaded", "validated", "created", "listening", "failed"}
    /\ stage = "starting" => options = Nothing /\ manta = NoManta
    /\ stage # "starting" =>
         /\ options = [n \in Option |-> LoadOption(file.plain, n, env)]
         /\ manta = InterpolateEnvVars(MantaOf(file), env)
    /\ stage \in {"validated", "created", "listening"} => ValidOptions(options)
    /\ stage \in {"created", "listening"} => client # {}
    /\ client # {} => /\ stage # "starting"
                      /\ Creatable(manta)
                      /\ client = {Params(manta)}

----------------------------------------------------------------------------
(* The values. *)

LEMMA TextParts == ASSUME NEW s PROVE Text(s).kind = "text" /\ Text(s).of = s
  BY DEF Text, Value

LEMMA NumberParts == ASSUME NEW s PROVE Number(s).kind = "number"
  BY DEF Number, Value

LEMMA BooleanParts == ASSUME NEW s PROVE Boolean(s).kind = "boolean"
  BY DEF Boolean, Value

LEMMA MissingParts == Missing.kind = "missing"
  BY DEF Missing, Value

LEMMA ValuesAre ==
    /\ \A s : IsValue(Text(s)) /\ IsValue(Number(s)) /\ IsValue(Boolean(s)) /\ IsValue(Var(s))
    /\ IsValue(Missing)
  BY DEF IsValue, Kinds, Value, Text, Number, Boolean, Var, Missing

LEMMA TextsDiffer == ASSUME NEW s, NEW t, Text(s) = Text(t) PROVE s = t
<1>1. Text(s).of = s
  BY TextParts
<1>2. Text(t).of = t
  BY TextParts
<1> QED
  BY <1>1, <1>2

LEMMA OtherKindsAreNoText == ASSUME NEW v, NEW s, v.kind # "text" PROVE v # Text(s)
  BY TextParts

LEMMA DefaultTypes ==
    /\ \A n \in Option : IsValue(Default[n]) /\ Default[n].kind # "var"
    /\ DOMAIN DefaultManta = MantaKey
    /\ \A k \in MantaKey : IsValue(DefaultManta[k])
<1>1. \A n \in Option : IsValue(Default[n])
  BY ValuesAre DEF Default, Option, IntegerOption, BooleanOption, TextOption
<1>2. \A n \in Option : Default[n].kind # "var"
  BY TextParts, NumberParts, BooleanParts, MissingParts
     DEF Default, Option, IntegerOption, BooleanOption, TextOption
<1>3. DOMAIN DefaultManta = MantaKey /\ \A k \in MantaKey : IsValue(DefaultManta[k])
  BY ValuesAre DEF DefaultManta, MantaKey
<1> QED
  BY <1>1, <1>2, <1>3

LEMMA PathTextsHaveDefaults ==
    \A n \in {"bucketPath", "baseSubdomain", "s3Version"} : Default[n] # Text("")
<1>1. /\ Default["bucketPath"] = Text("~~/stor/s3_buckets")
      /\ Default["baseSubdomain"] = Text("s3")
      /\ Default["s3Version"] = Text("2006-03-01")
  BY DEF Default
<1>2. /\ Text("~~/stor/s3_buckets") # Text("")
      /\ Text("s3") # Text("")
      /\ Text("2006-03-01") # Text("")
  BY TextsDiffer
<1> QED
  BY <1>1, <1>2

\* Nothing that is loaded names a variable any more, and a text that paths are
\* built from is not empty: one that resolves to nothing has a default.
LEMMA Loaded ==
    ASSUME NEW f \in File, NEW e, NEW n \in Option
    PROVE  /\ LoadOption(f.plain, n, e).kind \in Kinds \ {"var"}
           /\ n \in {"bucketPath", "baseSubdomain", "s3Version"} =>
                 LoadOption(f.plain, n, e) # Text("")
<1> DEFINE raw == IF f.plain[n] = Missing THEN Default[n] ELSE f.plain[n]
           loaded == LoadOption(f.plain, n, e)
<1>1. IsValue(raw)
  BY DefaultTypes, ConfigAssumption
<1>2. loaded = IF IsString(raw) THEN Process(n, Resolve(raw, e)) ELSE raw
  BY DEF LoadOption
<1> HIDE DEF raw, loaded
<1>3. CASE ~IsString(raw)
  <2>1. loaded = raw /\ raw.kind \in Kinds \ {"text", "var"}
    BY <1>1, <1>2, <1>3 DEF IsString, IsValue
  <2> QED
    BY <2>1, OtherKindsAreNoText DEF loaded
<1>4. CASE IsString(raw)
  <2>1. PICK s : loaded = Process(n, s)
    BY <1>2, <1>4
  <2>2. CASE n \in IntegerOption
    <3>1. loaded = Number(ToInteger(s))
      BY <2>1, <2>2 DEF Process
    <3> QED
      BY <2>2, <3>1, NumberParts, OtherKindsAreNoText DEF loaded, Kinds
  <2>3. CASE n \in BooleanOption
    <3>1. loaded = Boolean(IF s \in {"1", "true", "t"} THEN "true" ELSE "false")
      BY <2>1, <2>3 DEF Process, BooleanOption, IntegerOption
    <3> QED
      BY <2>3, <3>1, BooleanParts, OtherKindsAreNoText DEF loaded, Kinds
  <2>4. CASE n \in TextOption
    <3>1. loaded = IF s = "" THEN Default[n] ELSE Text(s)
      BY <2>1, <2>4 DEF Process, BooleanOption, IntegerOption, TextOption
    <3>2. CASE s = ""
      BY <3>1, <3>2, DefaultTypes, PathTextsHaveDefaults DEF loaded, IsValue
    <3>3. CASE s # ""
      <4>1. Text(s) # Text("")
        BY <3>3, TextsDiffer
      <4> QED
        BY <3>1, <3>3, <4>1, TextParts DEF loaded, Kinds
    <3> QED
      BY <3>2, <3>3
  <2> QED
    BY <2>2, <2>3, <2>4 DEF Option
<1> QED
  BY <1>3, <1>4

LEMMA MantaTypes ==
    ASSUME NEW f \in File
    PROVE  DOMAIN MantaOf(f) = MantaKey /\ \A k \in MantaKey : IsValue(MantaOf(f)[k])
  BY DefaultTypes, ConfigAssumption DEF MantaOf

\* The same of the parameters of Manta; and only a "1" becomes a "1".
LEMMA Interpolated ==
    ASSUME NEW f \in File, NEW e, NEW k \in MantaKey
    PROVE  LET raw == MantaOf(f)[k]
               v   == InterpolateEnvVars(MantaOf(f), e)[k]
           IN  /\ v.kind \in Kinds \ {"var"}
               /\ v = Text("1") => raw = Text("1") \/ (raw.kind = "var" /\ e[raw.of] = "1")
<1> DEFINE raw == MantaOf(f)[k]
           v   == InterpolateEnvVars(MantaOf(f), e)[k]
<1>1. IsValue(raw) /\ k \in DOMAIN MantaOf(f)
  BY MantaTypes
<1>2. v = IF IsString(raw) THEN Text(Trim(Resolve(raw, e))) ELSE raw
  BY <1>1 DEF InterpolateEnvVars
<1> HIDE DEF raw, v
<1>3. CASE ~IsString(raw)
  <2>1. v = raw /\ raw.kind \in Kinds \ {"text", "var"}
    BY <1>1, <1>2, <1>3 DEF IsString, IsValue
  <2> QED
    BY <2>1, OtherKindsAreNoText DEF raw, v
<1>4. CASE IsString(raw)
  <2>1. v = Text(Trim(Resolve(raw, e)))
    BY <1>2, <1>4
  <2>2. ASSUME v = Text("1")
        PROVE  raw = Text("1") \/ (raw.kind = "var" /\ e[raw.of] = "1")
    <3>1. Trim(Resolve(raw, e)) = "1"
      BY <2>1, <2>2, TextsDiffer
    <3>2. Resolve(raw, e) = "1"
      BY <3>1 DEF Trim
    <3>3. CASE raw.kind = "var"
      BY <3>2, <3>3 DEF Resolve
    <3>4. CASE raw.kind = "text"
      <4>1. raw.of = "1"
        BY <3>2, <3>4 DEF Resolve, Trim
      <4> QED
        BY <1>1, <3>4, <4>1 DEF IsValue, Text
    <3> QED
      BY <1>4, <3>3, <3>4 DEF IsString
  <2>3. v.kind = "text"
    BY <2>1, TextParts
  <2> QED
    BY <2>2, <2>3 DEF raw, v, Kinds
<1> QED
  BY <1>3, <1>4

----------------------------------------------------------------------------
(* The invariant. *)

LEMMA StartInit == ConfigInit => StartInv
  BY DEF ConfigInit, StartInv

LEMMA StartNext == StartInv /\ [ConfigNext]_configVars => StartInv'
<1> SUFFICES ASSUME StartInv, [ConfigNext]_configVars PROVE StartInv'
  OBVIOUS
<1>1. CASE LoadOptions
  BY <1>1 DEF StartInv, LoadOptions, MantaOf
<1>2. CASE ValidateOptions
  BY <1>2 DEF StartInv, ValidateOptions
<1>3. CASE CreateClient
  BY <1>3 DEF StartInv, CreateClient
<1>4. CASE Listen
  BY <1>4 DEF StartInv, Listen
<1>5. CASE Restart
  BY <1>5 DEF StartInv, Restart
<1>6. CASE UNCHANGED configVars
  BY <1>6 DEF StartInv, configVars
<1> QED
  BY <1>1, <1>2, <1>3, <1>4, <1>5, <1>6 DEF ConfigNext, Start

\* StartInv holds through every start and restart, whatever the file and the
\* environment: what is resolved, validated and made a client of stays so.
THEOREM StartInductive == ConfigSpec => []StartInv
  BY StartInit, StartNext, PTL DEF ConfigSpec

\* Whatever the file and the environment, options and manta name no variable
\* and the process has a client from its creation on (lib/options.js).
THEOREM ConfigTypes == ConfigSpec => []ConfigTypeOK
<1>1. ASSUME StartInv PROVE ConfigTypeOK
  <2>1. env \in [Variable -> STRING]
    BY <1>1, ConfigAssumption DEF StartInv
  <2>2. \A n \in Option : options[n].kind \in Kinds \ {"var"}
    <3>1. CASE stage = "starting"
      BY <1>1, <3>1, MissingParts DEF StartInv, Nothing, Kinds
    <3>2. CASE stage # "starting"
      BY <1>1, <3>2, Loaded DEF StartInv
    <3> QED
      BY <3>1, <3>2
  <2>3. \A k \in MantaKey : manta[k].kind \in Kinds \ {"var"}
    <3>1. CASE stage = "starting"
      BY <1>1, <3>1, MissingParts DEF StartInv, NoManta, Kinds
    <3>2. CASE stage # "starting"
      BY <1>1, <3>2, Interpolated DEF StartInv
    <3> QED
      BY <3>1, <3>2
  <2> QED
    BY <1>1, <2>1, <2>2, <2>3 DEF StartInv, ConfigTypeOK
<1> QED
  BY <1>1, StartInductive, PTL

\* A process that listens has both keys of the signers, no empty text to build
\* paths from, and a client with a user and a key: an option that the file or
\* a variable leaves empty ends the start or gets its default.
THEOREM ListenersAreConfigured == ConfigSpec => []ListeningIsConfigured
<1>1. ASSUME StartInv, ConfigTypeOK PROVE ListeningIsConfigured
  <2> SUFFICES ASSUME stage = "listening" PROVE ListeningIsConfigured
    BY DEF ListeningIsConfigured
  <2>1. \A n \in {"accessKey", "secretKey"} : options[n].kind = "text" /\ options[n].of # ""
    <3>1. ValidOptions(options)
      BY <1>1 DEF StartInv
    <3> QED
      BY <1>1, <3>1
         DEF ValidOptions, IsEmpty, IsString, ConfigTypeOK, Option, TextOption
  <2>2. \A n \in {"bucketPath", "baseSubdomain", "s3Version"} : options[n] # Text("")
    BY <1>1, Loaded DEF StartInv, Option, TextOption
  <2>3. \A c \in client : c.user # Text("") /\ c.signer.key # ""
    <3>1. Creatable(manta) /\ client = {Params(manta)}
      BY <1>1 DEF StartInv
    <3>2. KeyFile[KeyPath(manta)] # ""
      BY <3>1 DEF Creatable, KeyIsReadable
    <3>3. manta["user"] # Text("")
      BY <3>1 DEF Creatable, Falsy
    <3>4. Params(manta).user = manta["user"] /\ Params(manta).signer.key = KeyFile[KeyPath(manta)]
      BY DEF Params
    <3> QED
      BY <3>1, <3>2, <3>3, <3>4
  <2> QED
    BY <2>1, <2>2, <2>3 DEF ListeningIsConfigured
<1> QED
  BY <1>1, StartInductive, ConfigTypes, PTL

\* The certificate of Manta goes unchecked only where the file or the variable
\* that it names says "1" (lib/manta_client.js).
THEOREM UncheckedOnlyIfTold == ConfigSpec => []CheckedUnlessToldOtherwise
<1>1. ASSUME StartInv PROVE CheckedUnlessToldOtherwise
  <2> SUFFICES ASSUME NEW c \in client, ~c.rejectUnauthorized
               PROVE  LET raw == MantaOf(file)["insecure"]
                      IN  raw = Text("1") \/ (raw.kind = "var" /\ env[raw.of] = "1")
    BY DEF CheckedUnlessToldOtherwise, MantaOf
  <2>1. c = Params(manta) /\ manta = InterpolateEnvVars(MantaOf(file), env)
    BY <1>1 DEF StartInv
  <2>2. manta["insecure"] = Text("1")
    BY <2>1 DEF Params, IsRejectUnauthorizedEnabled
  <2> QED
    BY <1>1, <2>1, <2>2, Interpolated DEF StartInv, MantaKey
<1> QED
  BY <1>1, StartInductive, PTL
=============================================================================
