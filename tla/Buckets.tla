------------------------------ MODULE Buckets ------------------------------
(***************************************************************************)
(* The handlers of lib/buckets.js.  A handler is entered once, by the      *)
(* router; each of its callbacks is an action of its own, named as in the  *)
(* source, that consumes the result p of a call to Manta.                  *)
(***************************************************************************)
EXTENDS Restify

----------------------------------------------------------------------------
(* listBuckets: next is called before the listing has arrived. *)

ListBuckets(r) ==
    /\ Enter({Call(r, "mlsBuckets", "ls", Base, None)})
    /\ NextOk(r)

\* No base directory means no buckets; any other error fails an assertion.
MlsBuckets(p) ==
    \/ /\ p.res = "notfound"
       /\ Callback(p, "mlsBuckets", {})
       /\ SendNext(p.req, "OK")
    \/ /\ p.res = "fail"
       /\ Callback(p, "mlsBuckets", {})
       /\ Throw(p.req)
    \/ /\ p.res = "ok"
       /\ Callback(p, "mlsBuckets",
                   {Call(p.req, "mlsBucketsStream", "listing", Base, None)})
       /\ Quiet

\* An error on the stream, unless it says that there is no directory, is logged.
MlsBucketsErr(p) ==
    /\ Callback(p, "mlsBucketsStream", {})
    /\ \/ p.res = "notfound" /\ SendNext(p.req, "OK")
       \/ p.res = "fail" /\ Quiet

MlsBucketsEnd(p) ==
    /\ p.res = "end"
    /\ Callback(p, "mlsBucketsStream", {})
    /\ Send(p.req, "OK")

----------------------------------------------------------------------------
(* bucketExists: any error of info counts as a missing bucket. *)

BucketExists(r, q) ==
    /\ Enter({Call(r, "headBucket", "info", q.path, None)})
    /\ Quiet

HeadBucket(p) ==
    /\ Callback(p, "headBucket", {})
    /\ SendNext(p.req, IF p.res = "ok" THEN "OK" ELSE "NoSuchBucket")

----------------------------------------------------------------------------
(* addBucket: mkdirp follows on any error of info. *)

AddBucket(r, q) ==
    /\ Enter({Call(r, "infoBucketAdd", "info", q.path, None)})
    /\ Quiet

\* A mistake to be caught: the existing bucket is not refused.
InfoBucketAddUnchecked(p) ==
    /\ Callback(p, "infoBucketAdd",
                {Call(p.req, "mkdirBuckets", "mkdirp", request[p.req].path, None)})
    /\ Quiet

InfoBucketAdd(p) ==
    \/ /\ p.res = "ok"
       /\ Callback(p, "infoBucketAdd", {})
       /\ NextErr(p.req, "BucketAlreadyExists")
    \/ /\ p.res # "ok"
       /\ Callback(p, "infoBucketAdd",
                   {Call(p.req, "mkdirBuckets", "mkdirp", request[p.req].path, None)})
       /\ Quiet

\* next.ifError throws to the domain, which passes the error to next.
MkdirBuckets(p) ==
    /\ Callback(p, "mkdirBuckets", {})
    /\ \/ p.res = "ok" /\ SendNext(p.req, "OK")
       \/ p.res # "ok" /\ NextErr(p.req, "InternalError")

----------------------------------------------------------------------------
(* removeBucket looks the bucket up twice, at once: the first answer only *)
(* reports a missing bucket, the second one goes on with the removal.     *)

RemoveBucket(r, q) ==
    /\ Enter({Call(r, "infoBucketFirst", "info", q.path, None),
              Call(r, "infoBucketSecond", "info", q.path, None)})
    /\ Quiet

InfoBucketFirst(p) ==
    /\ Callback(p, "infoBucketFirst", {})
    /\ \/ p.res = "ok" /\ Quiet
       \/ p.res # "ok" /\ NextErr(p.req, "NoSuchBucket")

InfoBucketSecond(p) ==
    \/ /\ p.res = "ok"
       /\ Callback(p, "infoBucketSecond",
                   {Call(p.req, "checkForEmptyDir", "ls", request[p.req].path, None)})
       /\ Quiet
    \/ /\ p.res # "ok"
       /\ Callback(p, "infoBucketSecond", {})
       /\ NextErr(p.req, "NoSuchBucket")

\* On an error isEmpty answers, and the use of the missing stream then throws.
CheckForEmptyDir(p) ==
    \/ /\ p.res = "ok"
       /\ Callback(p, "checkForEmptyDir",
                   {Call(p.req, "isEmpty", "events", request[p.req].path, None)})
       /\ Quiet
    \/ /\ p.res # "ok"
       /\ Callback(p, "checkForEmptyDir", {})
       /\ NextErr(p.req, "InternalError")

ErrorOnListing(p) ==
    /\ p.res \in {"notfound", "fail"}
    /\ Callback(p, "isEmpty", {})
    /\ NextErr(p.req, "InternalError")

\* objFound and dirFound emit the end of the stream themselves.
ObjFound(p) ==
    /\ p.res = "object"
    /\ Callback(p, "isEmpty", {})
    /\ NextErr(p.req, "BucketNotEmpty")

\* A mistake to be caught: a directory does not count as an entry.
DirFoundIgnored(p) ==
    /\ p.res = "directory"
    /\ Callback(p, "isEmpty",
                {Call(p.req, "rmdirBuckets", "rmr", request[p.req].path, None)})
    /\ Quiet

DirFound(p) ==
    /\ p.res = "directory"
    /\ Callback(p, "isEmpty", {})
    /\ NextErr(p.req, "BucketNotEmpty")

\* A mistake to be caught: found is passed on where its negation is meant.
FinishedDeadListInverted(p) ==
    /\ p.res = "end"
    /\ Callback(p, "isEmpty", {})
    /\ NextErr(p.req, "BucketNotEmpty")

\* The stream ended and nothing was found: the bucket directory is removed.
FinishedDeadList(p) ==
    /\ p.res = "end"
    /\ Callback(p, "isEmpty",
                {Call(p.req, "rmdirBuckets", "rmr", request[p.req].path, None)})
    /\ Quiet

RmdirBuckets(p) ==
    /\ Callback(p, "rmdirBuckets", {})
    /\ \/ p.res = "ok" /\ SendNext(p.req, "NoContent")
       \/ p.res # "ok" /\ NextErr(p.req, "InternalError")

----------------------------------------------------------------------------
BucketsEnter(r, q) ==
    \/ q.op = "listBuckets" /\ ListBuckets(r)
    \/ q.op = "bucketExists" /\ BucketExists(r, q)
    \/ q.op = "addBucket" /\ AddBucket(r, q)
    \/ q.op = "removeBucket" /\ RemoveBucket(r, q)

BucketsCallback(p) ==
    /\ \/ MlsBuckets(p)
       \/ MlsBucketsErr(p)
       \/ MlsBucketsEnd(p)
       \/ HeadBucket(p)
       \/ InfoBucketAdd(p)
       \/ MkdirBuckets(p)
       \/ InfoBucketFirst(p)
       \/ InfoBucketSecond(p)
       \/ CheckForEmptyDir(p)
       \/ ErrorOnListing(p)
       \/ ObjFound(p)
       \/ DirFound(p)
       \/ FinishedDeadList(p)
       \/ RmdirBuckets(p)
    /\ UNCHANGED etag
============================================================================
