------------------------------- MODULE Config -------------------------------
(***************************************************************************)
(* The start of a process: main and run of app.js, the options that        *)
(* lib/options.js loads from etc/config.json and the environment, their    *)
(* validation in lib/bridge_server.js, and the Manta client that           *)
(* lib/manta_client.js creates from them.                                  *)
(*                                                                         *)
(* A value of the file or of an option is a record of its kind and of its  *)
(* text; "var" is the kind of a string that names an environment variable. *)
(* A variable that is not set resolves to the empty text.  The two maps of *)
(* storage classes are left out: nothing in them is looked at on the way.  *)
(***************************************************************************)
EXTENDS Naturals, Sequences

CONSTANTS File,      \* the contents etc/config.json may have
          Variable,  \* the environment variables it names
          Env,       \* the environments a process may be started in
          KeyFile,   \* the private keys, by their paths
          DefaultKeyPath,  \* $HOME/.ssh/id_rsa
          Portless   \* the https URLs without a port

Kinds == {"text", "var", "number", "boolean", "null", "missing"}

Value(kind, of) == [kind |-> kind, of |-> of]
IsValue(v) == v = Value(v.kind, v.of) /\ v.kind \in Kinds

Text(s)    == Value("text", s)
Number(s)  == Value("number", s)
Boolean(s) == Value("boolean", s)
Var(v)     == Value("var", v)
Null       == Value("null", "")
Missing    == Value("missing", "")     \* undefined

Blank == " "     \* a text of nothing but blanks

Trim(s) == IF s = Blank THEN "" ELSE s

IntegerOption == {"serverPort", "maxRequestBodySize", "maxAllowedSkewMilliseconds",
                  "defaultDurability", "maxFilenameLength"}
BooleanOption == {"authEnabled", "stripBucketPathFromAuth", "prettyPrint"}
TextOption    == {"baseHostname", "bucketPath", "baseSubdomain", "s3Version",
                  "accessKey", "secretKey"}
Option        == IntegerOption \cup BooleanOption \cup TextOption

MantaKey == {"user", "subuser", "role", "insecure", "keyId", "url", "privateKeyPath",
             "connectTimeout"}

ASSUME ConfigAssumption ==
    /\ Env \subseteq [Variable -> STRING]
    /\ \A f \in File : /\ DOMAIN f.plain = Option
                       /\ DOMAIN f.manta = MantaKey
                       /\ \A n \in Option : IsValue(f.plain[n])
                       /\ \A k \in MantaKey : IsValue(f.manta[k])
                       /\ f.hasManta \in BOOLEAN
    /\ DefaultKeyPath \in DOMAIN KeyFile

VARIABLES file,     \* etc/config.json
          env,      \* process.env
          options,  \* the Options of the process, without manta
          manta,    \* options.manta
          client,   \* the parameters of the Manta client
          stage     \* how far the start has come

configVars == <<file, env, options, manta, client, stage>>

----------------------------------------------------------------------------
(* lib/options.js and interpolateEnvVars of lib/utils.js *)

Default ==
    [authEnabled                |-> Boolean("true"),
     stripBucketPathFromAuth    |-> Boolean("false"),
     prettyPrint                |-> Boolean("false"),
     serverPort                 |-> Number("8080"),
     maxRequestBodySize         |-> Number("1073741824"),
     maxAllowedSkewMilliseconds |-> Number("900000"),
     defaultDurability          |-> Number("2"),
     maxFilenameLength          |-> Number("1024"),
     bucketPath                 |-> Text("~~/stor/s3_buckets"),
     baseSubdomain              |-> Text("s3"),
     s3Version                  |-> Text("2006-03-01"),
     baseHostname               |-> Missing,
     accessKey                  |-> Missing,
     secretKey                  |-> Missing]

DefaultManta ==
    [user           |-> Var("MANTA_USER"),
     subuser        |-> Var("MANTA_SUBUSER"),
     role           |-> Var("MANTA_ROLE"),
     insecure       |-> Var("MANTA_TLS_INSECURE"),
     keyId          |-> Var("MANTA_KEY_ID"),
     url            |-> Var("MANTA_URL"),
     privateKeyPath |-> Var("MANTA_KEY_PATH"),
     connectTimeout |-> Number("4000")]

IsString(v) == v.kind \in {"text", "var"}

\* What is found in a variable is not trimmed again.
Resolve(v, e) == IF v.kind = "var" THEN e[v.of] ELSE Trim(v.of)

\* toInteger: what is no number is 0.
ToInteger(s) == IF s \in {"8080", "900000", "1"} THEN s ELSE "0"

\* A mistake to be caught: the default is for a missing key only.
ProcessNoDefault(n, s) ==
    CASE n \in IntegerOption -> Number(ToInteger(s))
      [] n \in BooleanOption -> Boolean(IF s \in {"1", "true", "t"} THEN "true" ELSE "false")
      [] n \in TextOption    -> Text(s)

\* Of the strings that resolve to nothing only a text is replaced by the
\* default: a number is 0 and a boolean false.
Process(n, s) ==
    IF n \in IntegerOption THEN Number(ToInteger(s))
    ELSE IF n \in BooleanOption
    THEN Boolean(IF s \in {"1", "true", "t"} THEN "true" ELSE "false")
    ELSE IF s = "" THEN Default[n] ELSE Text(s)

LoadOption(plain, n, e) ==
    LET raw == IF plain[n] = Missing THEN Default[n] ELSE plain[n]
    IN  IF IsString(raw) THEN Process(n, Resolve(raw, e)) ELSE raw

\* A mistake to be caught: only what stands outside of an object is resolved.
InterpolateNothing(object, e) == object

InterpolateEnvVars(object, e) ==
    [k \in DOMAIN object |->
        IF IsString(object[k]) THEN Text(Trim(Resolve(object[k], e))) ELSE object[k]]

----------------------------------------------------------------------------
(* lib/bridge_server.js: validateOptions, and lib/manta_client.js *)

\* lodash: numbers and booleans are empty, too.
IsEmpty(v) == ~(IsString(v) /\ v.of # "")

Falsy(v) == v \in {Text(""), Number("0"), Boolean("false"), Null, Missing}

ValidOptions(o) == ~IsEmpty(o["accessKey"]) /\ ~IsEmpty(o["secretKey"])


KeyPath(m) == IF IsEmpty(m["privateKeyPath"]) THEN DefaultKeyPath ELSE m["privateKeyPath"].of

\* readFileSync throws where there is no file, and an empty key is refused.
KeyIsReadable(m) == KeyPath(m) \in DOMAIN KeyFile /\ KeyFile[KeyPath(m)] # ""

FindMantaUrl(m) ==
    CASE IsEmpty(m["url"])                               -> "https://us-east.manta.joyent.com:443"
      [] ~IsEmpty(m["url"]) /\ m["url"].of \in Portless    -> m["url"].of \o ":443"
      [] ~IsEmpty(m["url"]) /\ m["url"].of \notin Portless -> m["url"].of

\* A mistake to be caught: whatever is set disables the check.
RejectUnlessSet(m) == IsEmpty(m["insecure"])

\* A number or a boolean is empty, so that only a string is ever compared.
IsRejectUnauthorizedEnabled(m) == IsEmpty(m["insecure"]) \/ m["insecure"] # Text("1")

OrNone(v) == IF IsEmpty(v) THEN Missing ELSE v

Params(m) ==
    [user               |-> m["user"],
     signer             |-> [key |-> KeyFile[KeyPath(m)], keyId |-> m["keyId"],
                             user |-> m["user"], subuser |-> OrNone(m["subuser"])],
     url                |-> FindMantaUrl(m),
     rejectUnauthorized |-> IsRejectUnauthorizedEnabled(m),
     subuser            |-> OrNone(m["subuser"]),
     role               |-> OrNone(m["role"]),
     connectTimeout     |-> OrNone(m["connectTimeout"])]

Creatable(m) == ~Falsy(m["user"]) /\ ~Falsy(m["keyId"]) /\ KeyIsReadable(m)

----------------------------------------------------------------------------
(* app.js: main and run *)

Nothing == [n \in Option |-> Missing]
NoManta == [k \in MantaKey |-> Missing]

LoadOptions ==
    /\ stage = "starting"
    /\ options' = [n \in Option |-> LoadOption(file.plain, n, env)]
    /\ manta' = InterpolateEnvVars(IF file.hasManta THEN file.manta ELSE DefaultManta, env)
    /\ stage' = "loaded"
    /\ UNCHANGED <<file, env, client>>

\* A mistake to be caught: one key is enough.
ValidateEither ==
    /\ stage = "loaded"
    /\ stage' = IF IsEmpty(options["accessKey"]) /\ IsEmpty(options["secretKey"])
                THEN "failed" ELSE "validated"
    /\ UNCHANGED <<file, env, options, manta, client>>

ValidateOptions ==
    /\ stage = "loaded"
    /\ stage' = IF ValidOptions(options) THEN "validated" ELSE "failed"
    /\ UNCHANGED <<file, env, options, manta, client>>

CreateClient ==
    /\ stage = "validated"
    /\ IF Creatable(manta)
       THEN stage' = "created" /\ client' = {Params(manta)}
       ELSE stage' = "failed" /\ UNCHANGED client
    /\ UNCHANGED <<file, env, options, manta>>

\* Only null has no toString.
Listen ==
    /\ stage = "created"
    /\ stage' = IF options["serverPort"] = Null THEN "failed" ELSE "listening"
    /\ UNCHANGED <<file, env, options, manta, client>>

\* pm2 starts a process again that has failed, or an operator does, with what
\* was missing in the environment.
Restart ==
    /\ stage = "failed"
    /\ env' \in Env
    /\ stage' = "starting"
    /\ options' = Nothing /\ manta' = NoManta /\ client' = {}
    /\ UNCHANGED file

ConfigInit ==
    /\ file \in File
    /\ env \in Env
    /\ options = Nothing /\ manta = NoManta
    /\ client = {}
    /\ stage = "starting"

Start == LoadOptions \/ ValidateOptions \/ CreateClient \/ Listen

ConfigNext == Start \/ Restart

ConfigSpec == ConfigInit /\ [][ConfigNext]_configVars

\* The start is synchronous code, which node runs to its end.
FairConfigSpec == ConfigSpec /\ WF_configVars(Start)

----------------------------------------------------------------------------
(* Properties. *)

\* The types: what was loaded names no variable any more, and there is a
\* client from its creation on.
ConfigTypeOK ==
    /\ env \in [Variable -> STRING]
    /\ stage \in {"starting", "loaded", "validated", "created", "listening", "failed"}
    /\ \A n \in Option : options[n].kind \in Kinds \ {"var"}
    /\ \A k \in MantaKey : manta[k].kind \in Kinds \ {"var"}
    /\ stage \in {"created", "listening"} => client # {}

\* What the other parts of the bridge take for granted when a request comes in:
\* both keys of the signers are texts and not empty, no text option the handlers
\* build paths from is the empty text, and the client has a user and a key.
ListeningIsConfigured ==
    stage = "listening" =>
        /\ \A n \in {"accessKey", "secretKey"} : options[n].kind = "text" /\ options[n].of # ""
        /\ \A n \in {"bucketPath", "baseSubdomain", "s3Version"} : options[n] # Text("")
        /\ \A c \in client : c.user # Text("") /\ c.signer.key # ""

\* The certificate of Manta goes unchecked only if the file or the variable
\* that it names says "1", whatever else it may say.
CheckedUnlessToldOtherwise ==
    \A c \in client :
        ~c.rejectUnauthorized =>
            LET raw == IF file.hasManta THEN file.manta["insecure"] ELSE DefaultManta["insecure"]
            IN  raw = Text("1") \/ (raw.kind = "var" /\ env[raw.of] = "1")

\* The variables that docs/docker.md asks for.
Documented == {"AWS_ACCESS_KEY_ID", "AWS_SECRET_ACCESS_KEY", "MANTA_USER", "MANTA_KEY_ID"}

\* etc/config.json as it is delivered.
Delivered(f) ==
    /\ f.plain["accessKey"] = Var("AWS_ACCESS_KEY_ID")
    /\ f.plain["secretKey"] = Var("AWS_SECRET_ACCESS_KEY")
    /\ f.plain["serverPort"] = Number("8080")
    /\ f.hasManta => f.manta = DefaultManta

=============================================================================
