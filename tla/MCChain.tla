------------------------------ MODULE MCChain ------------------------------
(***************************************************************************)
(* Instances of Chain.  Every request of MCRouting arrives once, signed in *)
(* the fourth scheme and in time, at a server that strips buckets and at   *)
(* one that does not; a few requests arrive in every scheme, with each key *)
(* and with dates before, at and after the clock of the server, to one     *)
(* that authenticates and to one that does not.                            *)
(***************************************************************************)
EXTENDS Chain, MCRouting

MCMaxNow == 3

Setting(enabled, strip) == [authEnabled |-> enabled, stripBucketPathFromAuth |-> strip]

Plain(method, domain, path, params) ==
    [method |-> method, domain |-> domain, path |-> path, params |-> params, copy |-> FALSE]

Bucket == <<"bk", "joyent", "com">>
Base   == <<"s3", "joyent", "com">>

Few == {Plain("HEAD", Bucket, <<"">>, {}), Plain("GET", Base, <<"">>, {}),
        Plain("GET", Base, <<"bk", "obj">>, {"acl"}), Plain("DELETE", Bucket, <<"obj">>, {}),
        Plain("PUT", Base, <<"bk", "">>, {})}

Dates == 0..(MCMaxNow + 1) \cup {Unreadable}

Dated ==
    {"x-amz-date" :> d : d \in Dates}
    \cup {"date" :> d : d \in Dates}
    \cup {("date" :> d) @@ ("x-amz-date" :> e) : d \in {1, Unreadable}, e \in {1, 3}}
    \cup {"x-amz-acl" :> "private",
          ("x-amz-acl" :> "private") @@ ("date" :> 1) @@ ("content-type" :> "text")}

MCArrival ==
    [http : MCRequest, scheme : {V4}, key : {SecretKey}, blanks : {FALSE},
     headers : {"x-amz-date" :> MCMaxNow}, options : {Setting(TRUE, FALSE), Setting(TRUE, TRUE)},
     now : {MCMaxNow}]
    \cup
    [http : Few, scheme : {"none", "other", V2, V4}, key : {SecretKey, Absent},
     blanks : BOOLEAN, headers : Dated,
     options : {Setting(TRUE, FALSE), Setting(TRUE, TRUE), Setting(FALSE, FALSE)}, now : {0}]
=============================================================================
