------------------------------ MODULE Signers ------------------------------
(***************************************************************************)
(* The two signature schemes: lib/signer_v2.js and lib/signer_v4.js.  A    *)
(* signer takes a request as it has arrived, computes the authorization    *)
(* header its client should have sent, and compares it with the one that   *)
(* was sent.                                                               *)
(*                                                                         *)
(* A hash stands for what is hashed and a signature is the record of the   *)
(* key and of the text that is signed, so that two of them are equal when  *)
(* all of that is.  Canonical orders and separators are left out: what is  *)
(* sorted and joined is a set or a function.  Headers are a function from  *)
(* the names that were sent, in lower case, to their values.               *)
(***************************************************************************)
EXTENDS Routing, Integers

CONSTANTS AccessKey,   \* options.accessKey
          SecretKey,   \* options.secretKey
          MaxSkew,     \* options.maxAllowedSkewMilliseconds
          Absent,      \* the value of a header or parameter that was not sent
          Unreadable   \* a date that is none

\* A client names at most one subresource.
ASSUME SubresourceAssumption == \A q \in Request : Cardinality(q.params) <= 1

ASSUME SkewAssumption == MaxSkew \in Nat

V2 == "AWS"
V4 == "AWS4-HMAC-SHA256"

Header(headers, name) == IF name \in DOMAIN headers THEN headers[name] ELSE Absent

Sign(key, text) == [key |-> key, text |-> text]

\* Date comes before x-amz-date in both schemes.
ExtractRequestDate(headers) ==
    IF "date" \in DOMAIN headers THEN headers["date"] ELSE Header(headers, "x-amz-date")

\* A mistake to be caught: the clock of the client may only be behind.
TooSkewedPast(date, now) == date # Unreadable /\ now - date > MaxSkew

\* Any comparison with the difference to an unreadable date is false.
TooSkewed(date, now) == date # Unreadable /\ (now - date > MaxSkew \/ date - now > MaxSkew)

\* What both schemes answer: no date, a wrong date, a wrong signature, or none.
VerdictOn(headers, now, matches) ==
    LET date == ExtractRequestDate(headers)
    IN  IF date = Absent THEN "AccessDenied"
        ELSE IF TooSkewed(date, now) THEN "RequestTimeTooSkewed"
        ELSE IF matches THEN "ok" ELSE "SignatureDoesNotMatch"

----------------------------------------------------------------------------
(* lib/signer_v2.js *)

Subresources == {"acl", "location", "logging", "torrent", "uploads"}

AmzHeaders == {"x-amz-date", "x-amz-acl"}    \* the names that start with x-amz

ExtractPathAndParams(q) ==
    [path        |-> q.path,
     subresource |-> q.params \cap Subresources]

\* A mistake to be caught: every header is signed, those of proxies too.
BuildStringToSignAll(q, headers) ==
    [method   |-> q.method,
     plain    |-> [n \in {"content-md5", "content-type", "date"} |-> Header(headers, n)],
     amz      |-> headers,
     resource |-> ExtractPathAndParams(q)]

BuildStringToSign2(q, headers) ==
    [method   |-> q.method,
     plain    |-> [n \in {"content-md5", "content-type", "date"} |-> Header(headers, n)],
     amz      |-> Restrict(headers, DOMAIN headers \cap AmzHeaders),
     resource |-> ExtractPathAndParams(q)]

BuildAuthorization2(text) ==
    [scheme |-> V2, accessKey |-> AccessKey, signature |-> Sign(SecretKey, text)]

Matches2(q, headers, auth) == auth = BuildAuthorization2(BuildStringToSign2(q, headers))

----------------------------------------------------------------------------
(* lib/signer_v4.js *)

\* The path without the slashes it begins with, but for one.
OneSlash(path) ==
    LET named == {i \in DOMAIN path : path[i] # ""}
    IN  IF named = {} THEN <<"">> ELSE SubSeq(path, Min(named), Len(path))

\* What the replacement of ^[/]+bucket[/]+ by a slash makes of a path.
StripBucket(path, b) ==
    LET p == OneSlash(path)
    IN  CASE b = NoName                                 -> p
          [] b # NoName /\ p[1] = b /\ Len(p) > 1       -> OneSlash(Tail(p))
          [] b # NoName /\ ~(p[1] = b /\ Len(p) > 1)    -> path

\* A mistake to be caught: the bucket is taken off wherever the path begins with it.
DetermineSignedPathAnywhere(q, strip) ==
    IF strip
    THEN StripBucket(q.path, SplitFirstDirectory(SanitizeS3Filepath(q.path)).first)
    ELSE q.path

\* The bucket is looked for in the path as it was sent, and only at the base.
DetermineSignedPath(q, strip) ==
    LET subdomain == ParseSubdomain(q.domain)
    IN  IF strip /\ AtBase(subdomain)
        THEN StripBucket(q.path, FindBucketName(SanitizeS3Filepath(q.path), subdomain))
        ELSE q.path

\* The blanks around the commas are taken out.
NormalizeAuthorizationHeader(auth) == [auth EXCEPT !.blanks = FALSE]

BuildCanonicalHeaders(headers, names) == Restrict(headers, DOMAIN headers \cap names)

BuildCanonicalRequest(q, path, headers, names) ==
    [method  |-> q.method,
     path    |-> path,
     query   |-> q.params,
     headers |-> BuildCanonicalHeaders(headers, names),
     names   |-> names,
     payload |-> Header(headers, "x-amz-content-sha256")]

BuildStringToSign4(date, canonical, scope) ==
    [date |-> date, scope |-> scope, request |-> canonical]

\* The parts of the client's header that go into the server's own.
ParseAuthorization(auth) ==
    [accessKey |-> auth.accessKey, scope |-> auth.scope, signedHeaders |-> auth.signedHeaders]

\* The credential block and the names of the signed headers are the client's;
\* the date that is signed is x-amz-date, whatever date was checked.
BuildAuthorization4(q, path, headers, auth) ==
    LET parts     == ParseAuthorization(auth)
        canonical == BuildCanonicalRequest(q, path, headers, parts.signedHeaders)
        text      == BuildStringToSign4(Header(headers, "x-amz-date"), canonical, parts.scope)
    IN  [scheme |-> V4, accessKey |-> parts.accessKey, scope |-> parts.scope,
         signedHeaders |-> parts.signedHeaders, blanks |-> FALSE,
         signature |-> Sign(SecretKey, text)]

Matches4(q, headers, auth, strip) ==
    NormalizeAuthorizationHeader(auth)
        = BuildAuthorization4(q, DetermineSignedPath(q, strip), headers, auth)
=============================================================================
