------------------------------- MODULE Chain -------------------------------
(***************************************************************************)
(* The chain of a request in the order in which lib/bridge_server.js sets  *)
(* it up: the authenticator, then requestPreprocess and the router, which  *)
(* are Routing's.  The client signs a request and sends it; on its way     *)
(* time passes and a proxy adds a header (docker/etc/nginx); a client that *)
(* has waited long enough sends the same request, with the same signature, *)
(* again.                                                                  *)
(***************************************************************************)
EXTENDS Signers

CONSTANTS Arrival,   \* the requests, as their clients send them
          MaxNow     \* the bound of the clock

\* A client names its scheme and key; how it signs depends on the server that
\* it was set up for: options says whether that one strips the bucket.
ASSUME ArrivalAssumption ==
    /\ MaxNow \in Nat
    /\ \A a \in Arrival :
        /\ a.http \in Request
        /\ a.scheme \in {"none", "other", V2, V4}
        /\ a.key \in {SecretKey, Absent}
        /\ a.blanks \in BOOLEAN
        /\ a.options \in [authEnabled : BOOLEAN, stripBucketPathFromAuth : BOOLEAN]
        /\ a.now \in 0..MaxNow
        /\ "host" \notin DOMAIN a.headers
        /\ ExtractRequestDate(a.headers) \in Int \cup {Absent, Unreadable}

VARIABLES client,    \* the member of Arrival that is under way
          headers,   \* its headers
          auth,      \* the authorization header
          now        \* the clock of the server

chainVars == <<vars, client, headers, auth, now>>

options == client.options

----------------------------------------------------------------------------
(* The client, as far as the signers know it: external. *)

\* Whether a client addresses the bucket by the path, and what comes below it.
InPath(q) == AtBase(ParseSubdomain(q.domain)) /\ Len(q.path) > 1

PathSigned(q, strip) == IF strip /\ InPath(q) THEN Tail(q.path) ELSE q.path

SignedHeaders(h) == DOMAIN h \ {"date"}

\* Headers with one more, unless it is there.
With(h, name, value) ==
    [n \in DOMAIN h \cup {name} |-> IF n \in DOMAIN h THEN h[n] ELSE value]

\* A client signs x-amz-date, or date if it has sent no other.
SignedDate(h) == IF "x-amz-date" \in DOMAIN h THEN h["x-amz-date"] ELSE Header(h, "date")

Scope == [date |-> "day", region |-> "region", service |-> "s3"]

Authorization(a, h) ==
    LET path == PathSigned(a.http, a.options.stripBucketPathFromAuth)
        text == BuildStringToSign4(SignedDate(h),
                    BuildCanonicalRequest(a.http, path, h, SignedHeaders(h)), Scope)
    IN  CASE a.scheme = V2 ->
                [scheme |-> V2, accessKey |-> AccessKey,
                 signature |-> Sign(a.key, BuildStringToSign2(a.http, h))]
          [] a.scheme = V4 ->
                [scheme |-> V4, accessKey |-> AccessKey, scope |-> Scope,
                 signedHeaders |-> SignedHeaders(h), blanks |-> a.blanks,
                 signature |-> Sign(a.key, text)]
          [] OTHER -> [scheme |-> a.scheme]

Fresh ==
    /\ bucket' = NoName
    /\ sanitizedPath' = Root
    /\ isBaseEndpoint' = FALSE
    /\ target' = [op |-> "none", path |-> <<>>]

Tick ==
    /\ stage = "sent"
    /\ now < MaxNow
    /\ now' = now + 1
    /\ UNCHANGED <<vars, client, headers, auth>>

\* nginx adds headers that the client has not signed.
Forward ==
    /\ stage = "sent"
    /\ "x-forwarded-for" \notin DOMAIN headers
    /\ headers' = With(headers, "x-forwarded-for", "client")
    /\ UNCHANGED <<vars, client, auth, now>>

\* The answer was lost, or did not please.
Retry ==
    /\ stage \in {"refused", "done"}
    /\ now < MaxNow
    /\ stage' = "sent"
    /\ Fresh
    /\ UNCHANGED <<http, client, headers, auth, now>>

----------------------------------------------------------------------------
(* lib/authenticator.js *)

\* A mistake to be caught: what is asked of the root needs no signature.
ExemptAtRoot(q) == q.path = <<"">>

Exempt(q) == q.method = "HEAD" /\ q.path = <<"">>

\* A header of the fourth scheme begins like one of the second, too.
StartsWith(a, prefix) == a.scheme = prefix \/ (a.scheme = V4 /\ prefix = V2)

Verdicts == {"AccessDenied", "RequestTimeTooSkewed", "SignatureDoesNotMatch", "InvalidArgument"}

Verdict ==
    IF auth.scheme = "none" THEN "AccessDenied"
    ELSE IF StartsWith(auth, V4)
    THEN VerdictOn(headers, now,
                   Matches4(http, headers, auth, options.stripBucketPathFromAuth))
    ELSE IF StartsWith(auth, V2)
    THEN VerdictOn(headers, now, Matches2(http, headers, auth))
    ELSE "InvalidArgument"

\* Authentication is left out of the chain, or calls next().
Admit ==
    /\ stage = "sent"
    /\ options.authEnabled => Exempt(http) \/ Verdict = "ok"
    /\ stage' = "received"
    /\ UNCHANGED <<http, bucket, sanitizedPath, isBaseEndpoint, target,
                   client, headers, auth, now>>

\* next(err) ends the chain.
Refuse ==
    /\ stage = "sent"
    /\ options.authEnabled /\ ~Exempt(http) /\ Verdict # "ok"
    /\ stage' = "refused"
    /\ target' = [op |-> Verdict, path |-> <<>>]
    /\ UNCHANGED <<http, bucket, sanitizedPath, isBaseEndpoint,
                   client, headers, auth, now>>

----------------------------------------------------------------------------
ChainInit ==
    /\ client \in Arrival
    /\ http = client.http
    /\ headers = With(client.headers, "host", http.domain)
    /\ auth = Authorization(client, headers)
    /\ now = client.now
    /\ stage = "sent"
    /\ bucket = NoName
    /\ sanitizedPath = Root
    /\ isBaseEndpoint = FALSE
    /\ target = [op |-> "none", path |-> <<>>]

ChainNext ==
    \/ Tick
    \/ Forward
    \/ Retry
    \/ Admit
    \/ Refuse
    \/ Next /\ UNCHANGED <<client, headers, auth, now>>

ChainSpec == ChainInit /\ [][ChainNext]_chainVars

----------------------------------------------------------------------------
(* Properties. *)

\* The types of the chain and of Routing: a sanitized path is made of proper
\* names, and the root has a slash; before it has passed the authenticator, a
\* request has none of the attributes that requestPreprocess gives it.
ChainTypeOK ==
    /\ client \in Arrival
    /\ http = client.http
    /\ now \in client.now..MaxNow
    /\ stage \in {"sent", "refused", "received", "preprocessed", "done"}
    /\ bucket \in Proper \cup {NoName}
    /\ sanitizedPath \in [names : Seq(Proper), slash : BOOLEAN]
    /\ stage \in {"sent", "refused", "received"} => sanitizedPath = Root /\ bucket = NoName
    /\ IsRoot(sanitizedPath) => sanitizedPath.slash
    /\ isBaseEndpoint \in BOOLEAN
    /\ target \in [op : BucketOps \cup KeyOps \cup Answers \cup Verdicts, path : Seq(Proper)]

\* A request as an S3 client makes it: signed with the right key, dated in the
\* header its scheme signs, with a path that has no dots and no empty names,
\* and, if the server strips buckets, with the slash that ends a bucket's name.
WellMade ==
    LET q == http
        n == Len(q.path)
    IN  /\ client.key = SecretKey
        /\ client.scheme \in {V2, V4}
        /\ client.scheme = V4 => "x-amz-date" \in DOMAIN client.headers
        /\ \A i \in 1..n : q.path[i] \notin {".", ".."}
        /\ \A i \in 1..(n - 1) : q.path[i] # ""

\* What a well made request is told by the authenticator depends on nothing but
\* its age on arrival, whatever the scheme, the style of address, the option
\* that strips buckets, and what a proxy has added; and so it does for a retry.
WellMadeIsJudgedByItsAge ==
    LET date == ExtractRequestDate(client.headers)
    IN  options.authEnabled /\ WellMade /\ date \notin {Absent, Unreadable} /\ stage # "sent"
        => IF now - date \in (-MaxSkew)..MaxSkew
           THEN stage # "refused"
           ELSE Exempt(http) \/ (stage = "refused" /\ target.op = "RequestTimeTooSkewed")

\* Where authentication is enabled, a request that no holder of the key has
\* signed reaches no handler, but the one that tells whether a bucket exists.
UnsignedReachesNoHandler ==
    options.authEnabled /\ (client.key # SecretKey \/ client.scheme \in {"none", "other"})
    => target.op \notin (BucketOps \cup KeyOps \cup {"listBuckets"}) \ {"bucketExists"}
=============================================================================
