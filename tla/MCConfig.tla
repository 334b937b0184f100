------------------------------ MODULE MCConfig ------------------------------
(***************************************************************************)
(* Instances of Config: the delivered file and every file that differs     *)
(* from it, or from one without a manta section, in one value; the         *)
(* environment of docs/docker.md and every one that differs in one         *)
(* variable.                                                               *)
(***************************************************************************)
EXTENDS Config, TLC

MCVariable == {"AWS_ACCESS_KEY_ID", "AWS_SECRET_ACCESS_KEY", "MANTA_USER", "MANTA_KEY_ID",
               "MANTA_SUBUSER", "MANTA_ROLE", "MANTA_TLS_INSECURE", "MANTA_URL",
               "MANTA_KEY_PATH", "OTHER"}

MCDefaultKeyPath == "home"
MCKeyFile  == "home" :> "key" @@ "mine" :> "key" @@ "blank" :> ""
MCPortless == {"https://manta"}

DockerEnv ==
    [v \in MCVariable |->
        IF v \in {"AWS_ACCESS_KEY_ID", "AWS_SECRET_ACCESS_KEY", "MANTA_USER", "MANTA_KEY_ID"}
        THEN "set" ELSE ""]

Settings(v) ==
    {"", Blank, "1", "set"} \cup
    CASE v = "MANTA_URL"      -> {"https://manta", "https://manta:443", "http://manta"}
      [] v = "MANTA_KEY_PATH" -> {"mine", "blank", "lost"}
      [] OTHER                -> {}

MCEnv == UNION {{[DockerEnv EXCEPT ![v] = s] : s \in Settings(v)} : v \in MCVariable}

DeliveredFile ==
    [plain |-> [n \in Option |->
                  CASE n = "accessKey" -> Var("AWS_ACCESS_KEY_ID")
                    [] n = "secretKey" -> Var("AWS_SECRET_ACCESS_KEY")
                    [] n = "maxAllowedSkewMilliseconds" -> Text("900000")
                    [] OTHER -> Default[n]],
     manta |-> DefaultManta, hasManta |-> TRUE]

Raw == {Text(""), Text(Blank), Text("set"), Text("1"), Text("true"), Var("OTHER"), Number("0"),
        Number("1"), Boolean("true"), Boolean("false"), Null, Missing}

\* The client library takes the user and the id of the key as texts.
RawFor(k) == IF k \in {"user", "keyId"}
             THEN {v \in Raw : IsString(v) \/ v \in {Null, Missing}} ELSE Raw

MCFile ==
    {DeliveredFile, [DeliveredFile EXCEPT !.hasManta = FALSE]}
    \cup UNION {{[DeliveredFile EXCEPT !.plain[n] = v] : v \in Raw} : n \in Option}
    \cup UNION {{[DeliveredFile EXCEPT !.manta[k] = v] : v \in RawFor(k)} : k \in MantaKey}
=============================================================================
