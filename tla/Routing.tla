------------------------------ MODULE Routing ------------------------------
(***************************************************************************)
(* From the request line to the handler: requestPreprocess of              *)
(* lib/bridge_server.js, the helpers of lib/utils.js it calls, and the     *)
(* router of lib/routes.js.  The bridge is addressed in two ways, by a     *)
(* bucket's subdomain (virtual host) or by the base subdomain with the     *)
(* bucket as the first directory of the path; the two are brought to one   *)
(* form here before a handler of Buckets or Objects is entered.            *)
(*                                                                         *)
(* A raw path is the sequence of what stands between its slashes: "/" is   *)
(* <<"">>, "/a" is <<"a">> and "/a/" is <<"a", "">>.  A domain is the      *)
(* sequence of its labels.  Names stand for themselves: percent-decoding,  *)
(* blanks and control characters are left out.                             *)
(***************************************************************************)
EXTENDS Naturals, Sequences, SequencesExt

CONSTANTS Request,        \* the HTTP requests that may arrive
          BaseSubdomain,  \* options.baseSubdomain
          Short,          \* the labels of a single letter
          MaxLength       \* the longest path that is accepted, in segments

Segment == STRING

ASSUME RequestAssumption ==
    /\ Request \subseteq [method : {"HEAD", "GET", "PUT", "POST", "DELETE"},
                          domain : Seq(Segment), path : Seq(Segment) \ {<<>>},
                          params : SUBSET {"acl", "uploads"}, copy : BOOLEAN]
    /\ \A q \in Request : /\ q.domain # <<>>
                          /\ \A i \in DOMAIN q.domain : q.domain[i] \notin {".", ".."}
    /\ BaseSubdomain \notin Short

VARIABLES http,           \* the request
          stage,          \* how far it has come
          bucket,         \* req.bucket
          sanitizedPath,  \* req.sanitizedPath
          isBaseEndpoint, \* req.isBaseEndpoint
          target          \* the handler that was entered, or the direct answer

vars == <<http, stage, bucket, sanitizedPath, isBaseEndpoint, target>>

Localhost == "localhost"
NoName    == ""              \* null or the empty string

\* A path after normalisation: its names, and whether a slash ends it.
Root        == [names |-> <<>>, slash |-> TRUE]
IsRoot(p)   == p.names = <<>>

----------------------------------------------------------------------------
(* lib/utils.js *)

ParseSubdomain(domain) ==
    IF \/ domain[1] = ""
       \/ Len(domain) = 1
       \/ Len(domain) = 2 /\ domain[2] # Localhost
    THEN NoName ELSE domain[1]

\* A mistake to be caught: at the root a double dot is kept.
SanitizeKeepsDots(raw) ==
    LET Step(names, segment) ==
            IF segment \in {"", "."} THEN names
            ELSE IF segment = ".." /\ names # <<>> THEN Front(names)
            ELSE Append(names, segment)
        names == FoldLeft(Step, <<>>, raw)
    IN  [names |-> names, slash |-> names = <<>> \/ Last(raw) = ""]

\* Empty and single-dot segments vanish, a double dot takes back the name
\* before it, and at the root there is nothing to take back.
Normalize(names, segment) ==
    IF segment \in {"", "."} THEN names
    ELSE IF segment # ".." THEN Append(names, segment)
    ELSE IF names = <<>> THEN names ELSE Front(names)

SanitizeS3Filepath(raw) ==
    LET names[i \in 0..Len(raw)] ==
            IF i = 0 THEN <<>> ELSE Normalize(names[i - 1], raw[i])
    IN  [names |-> names[Len(raw)],
         slash |-> names[Len(raw)] = <<>> \/ Last(raw) = ""]

\* The first directory ends at the second slash; where there is none,
\* substring(0, -1) is empty and substring(0) the whole path.
SplitFirstDirectory(p) ==
    IF ~IsRoot(p) /\ Len(p.names) = 1 /\ ~p.slash
    THEN [first |-> NoName, remaining |-> p]
    ELSE [first     |-> IF IsRoot(p) THEN NoName ELSE Head(p.names),
          remaining |-> IF Len(p.names) < 2 THEN Root
                        ELSE [names |-> Tail(p.names), slash |-> p.slash]]

\* A mistake to be caught: the base subdomain is taken for a bucket.
SubdomainIsBucketAtBase(subdomain) == subdomain # NoName /\ subdomain \notin Short

SubdomainIsBucket(subdomain) ==
    subdomain # NoName /\ subdomain \notin Short /\ subdomain # BaseSubdomain

FindBucketName(p, subdomain) ==
    IF SubdomainIsBucket(subdomain) THEN subdomain ELSE SplitFirstDirectory(p).first

----------------------------------------------------------------------------
(* lib/bridge_server.js: requestPreprocess *)

AtBase(subdomain) == subdomain = NoName \/ subdomain = BaseSubdomain

\* What is left of the path when the bucket has been taken off it.
BelowBucket(p, subdomain) ==
    IF AtBase(subdomain) THEN SplitFirstDirectory(p).remaining ELSE p

TooLong(q) == Len(q.path) > MaxLength

RequestPreprocess ==
    LET p         == SanitizeS3Filepath(http.path)
        subdomain == ParseSubdomain(http.domain)
    IN  /\ stage = "received"
        /\ ~TooLong(http)
        /\ bucket' = FindBucketName(p, subdomain)
        /\ isBaseEndpoint' = AtBase(subdomain)
        /\ sanitizedPath' = BelowBucket(p, subdomain)
        /\ stage' = "preprocessed"
        /\ UNCHANGED <<http, target>>

\* sanitizeS3Filepath throws: the request is answered 500.
RejectLongPath ==
    /\ stage = "received"
    /\ TooLong(http)
    /\ stage' = "done"
    /\ target' = [op |-> "InternalError", path |-> <<>>]
    /\ UNCHANGED <<http, bucket, sanitizedPath, isBaseEndpoint>>

----------------------------------------------------------------------------
(* lib/routes.js: the handler each verb leads to.  base is isBaseEndpoint, *)
(* b the bucket and p the sanitized path.                                  *)

HeadOp(base, b) ==
    CASE base               -> "MethodNotAllowed"
      [] ~base /\ b = NoName -> "InvalidBucketName"
      [] OTHER              -> "bucketExists"

GetOp(b, p, params) ==
    CASE b = NoName                                          -> "listBuckets"
      [] b # NoName /\ IsRoot(p) /\ "uploads" \in params     -> "listMultipartUploads"
      [] b # NoName /\ IsRoot(p) /\ "uploads" \notin params  -> "listObjects"
      [] b # NoName /\ ~IsRoot(p) /\ "acl" \in params        -> "getAcl"
      [] OTHER                                               -> "getObject"

PutOp(b, p, params, copy) ==
    CASE b = NoName                                     -> "InvalidBucketName"
      [] b # NoName /\ IsRoot(p)                        -> "addBucket"
      [] b # NoName /\ ~IsRoot(p) /\ "acl" \in params   -> "putAcl"
      [] b # NoName /\ ~IsRoot(p) /\ "acl" \notin params ->
            IF p.slash THEN "createDirectory" ELSE IF copy THEN "copyObject" ELSE "addObject"

PostOp(b) == IF b = NoName THEN "InvalidBucketName" ELSE "NotImplemented"

\* A mistake to be caught: the root is not told from the objects below it.
DeleteOpRootless(b, p) == IF b = NoName THEN "InvalidBucketName" ELSE "deleteObject"

DeleteOp(b, p) ==
    CASE b = NoName                -> "InvalidBucketName"
      [] b # NoName /\ IsRoot(p)   -> "removeBucket"
      [] b # NoName /\ ~IsRoot(p)  -> "deleteObject"

BucketOps == {"bucketExists", "addBucket", "removeBucket", "listObjects",
              "listMultipartUploads"}
KeyOps    == {"addObject", "createDirectory", "getObject", "deleteObject",
              "getAcl", "putAcl", "copyObject"}

Answers   == {"none", "listBuckets", "MethodNotAllowed", "InvalidBucketName",
              "NotImplemented", "InternalError"}

\* The path below options.bucketPath that the handler works on.
MantaPath(op, b, p) ==
    CASE op \in BucketOps -> <<b>>
      [] op \in KeyOps    -> <<b>> \o p.names
      [] OTHER            -> <<>>

OpOf(q, base, b, p) ==
    CASE q.method = "HEAD"   -> HeadOp(base, b)
      [] q.method = "GET"    -> GetOp(b, p, q.params)
      [] q.method = "PUT"    -> PutOp(b, p, q.params, q.copy)
      [] q.method = "POST"   -> PostOp(b)
      [] q.method = "DELETE" -> DeleteOp(b, p)

Dispatch(q, base, b, p) ==
    LET op == OpOf(q, base, b, p)
    IN  [op |-> op, path |-> MantaPath(op, b, p)]

Route ==
    /\ stage = "preprocessed"
    /\ stage' = "done"
    /\ target' = Dispatch(http, isBaseEndpoint, bucket, sanitizedPath)
    /\ UNCHANGED <<http, bucket, sanitizedPath, isBaseEndpoint>>

----------------------------------------------------------------------------
Init ==
    /\ http \in Request
    /\ stage = "received"
    /\ bucket = NoName
    /\ sanitizedPath = Root
    /\ isBaseEndpoint = FALSE
    /\ target = [op |-> "none", path |-> <<>>]

Next == RequestPreprocess \/ RejectLongPath \/ Route

Spec == Init /\ [][Next]_vars

----------------------------------------------------------------------------
(* Properties. *)

Done == stage = "done"

\* What a segment of a sanitized path can be.
Proper == Segment \ {"", ".", ".."}

\* What Bridge assumes of the requests it serves: a handler of buckets gets
\* the directory of a named bucket, a handler of objects a path strictly below
\* one, so that no handler is ever let loose on the directory of all buckets.
HandlersGetTheirPaths ==
    /\ target.op \in BucketOps => Len(target.path) = 1
    /\ target.op \in KeyOps => Len(target.path) > 1
    /\ target.op \in BucketOps \cup KeyOps => target.path[1] # NoName

\* The request for the same thing with the bucket moved from the subdomain
\* to the front of the path.
PathStyle(q) == [q EXCEPT !.domain = <<BaseSubdomain>> \o Tail(q.domain),
                          !.path = <<q.domain[1]>> \o q.path]

HandlerOf(q) ==
    LET p         == SanitizeS3Filepath(q.path)
        subdomain == ParseSubdomain(q.domain)
    IN  Dispatch(q, AtBase(subdomain), FindBucketName(p, subdomain), BelowBucket(p, subdomain))

\* Both ways to address a bucket lead to the same handler and the same Manta
\* path, whatever is asked of it; HEAD, which the base does not support, and
\* paths with dots in them are left out.
AddressingStylesAgree ==
    /\ Done
    /\ SubdomainIsBucket(ParseSubdomain(http.domain))
    /\ http.method # "HEAD"
    /\ \A i \in DOMAIN http.path : http.path[i] \notin {".", ".."}
    /\ ~TooLong(http)
    => target = HandlerOf(PathStyle(http))

(* What the documentation says and the code does not do. *)

\* docs/api-mappings.md:6: GET /$bucket at the base lists the bucket.
BucketIsListedByItsName ==
    Done /\ http.method = "GET" /\ ParseSubdomain(http.domain) = BaseSubdomain
    /\ http.params = {} /\ Len(http.path) = 1 /\ http.path[1] \notin {"", ".", ".."}
    => target = [op |-> "listObjects", path |-> http.path]
============================================================================
