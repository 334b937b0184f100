------------------------------ MODULE Objects ------------------------------
(***************************************************************************)
(* The handlers of lib/objects.js.  As in Buckets, a handler is entered    *)
(* once and each of its callbacks is an action that consumes a result p.   *)
(***************************************************************************)
EXTENDS Restify

----------------------------------------------------------------------------
(* addObject: the directory of the object is made when info fails, for     *)
(* whatever reason it failed.                                              *)

AddObject(r, q) ==
    /\ Enter({Call(r, "headPutDir", "info", Dirname[q.path], None)})
    /\ Quiet

UploadObject(r) == Call(r, "objectPut", "put", request[r].path, None)

\* A mistake to be caught: the upload does not wait for its directory.
HeadPutDirNoWait(p) ==
    /\ Callback(p, "headPutDir",
                {UploadObject(p.req)}
                \cup IF p.res = "ok" THEN {}
                     ELSE {Call(p.req, "mkObjDir", "mkdirp",
                                Dirname[request[p.req].path], None)})
    /\ Quiet
    /\ UNCHANGED etag

HeadPutDir(p) ==
    /\ Callback(p, "headPutDir",
                {IF p.res = "ok" THEN UploadObject(p.req)
                 ELSE Call(p.req, "mkObjDir", "mkdirp",
                           Dirname[request[p.req].path], None)})
    /\ Quiet
    /\ UNCHANGED etag

\* A mistake to be caught: the error of mkdirp is not passed to next.
MkObjDirNoNext(p) ==
    /\ Callback(p, "mkObjDir", IF p.res = "ok" THEN {UploadObject(p.req)} ELSE {})
    /\ Quiet
    /\ UNCHANGED etag

MkObjDir(p) ==
    /\ \/ /\ p.res = "ok"
          /\ Callback(p, "mkObjDir", {UploadObject(p.req)})
          /\ Quiet
       \/ /\ p.res # "ok"
          /\ Callback(p, "mkObjDir", {})
          /\ NextErr(p.req, "InternalError")
    /\ UNCHANGED etag

ObjectPut(p) ==
    /\ Callback(p, "objectPut", {})
    /\ \/ /\ p.res = "ok"
          /\ etag' = [etag EXCEPT ![p.req] = p.val]
          /\ SendNext(p.req, "OK")
       \/ /\ p.res # "ok"
          /\ NextErr(p.req, "InternalError")
          /\ UNCHANGED etag

----------------------------------------------------------------------------
(* createDirectory *)

CreateDirectory(r, q) ==
    /\ Enter({Call(r, "mmkdirp", "mkdirp", q.path, None)})
    /\ Quiet

\* A mistake to be caught: only the success of mkdirp is answered.
MmkdirpOkOnly(p) ==
    /\ Callback(p, "mmkdirp", {})
    /\ \/ p.res = "ok" /\ SendNext(p.req, "OK")
       \/ p.res # "ok" /\ Quiet
    /\ UNCHANGED etag

Mmkdirp(p) ==
    /\ Callback(p, "mmkdirp", {})
    /\ \/ p.res = "ok" /\ SendNext(p.req, "OK")
       \/ p.res # "ok" /\ NextErr(p.req, "InternalError")
    /\ UNCHANGED etag

----------------------------------------------------------------------------
(* getObject: the bucket is looked up first, to tell a missing bucket from *)
(* a missing object; the answer is complete when the body has been piped.  *)

GetObject(r, q) ==
    /\ Enter({Call(r, "headGetDir", "info", BucketOf(q.path), None)})
    /\ Quiet

HeadGetDir(p) ==
    /\ \/ /\ p.res = "ok"
          /\ Callback(p, "headGetDir",
                      {Call(p.req, "getObj", "get", request[p.req].path, None)})
          /\ Quiet
       \/ /\ p.res # "ok"
          /\ Callback(p, "headGetDir", {})
          /\ NextErr(p.req, IF p.res = "notfound" THEN "NoSuchBucket" ELSE "InternalError")
    /\ UNCHANGED etag

\* A mistake to be caught: no return after a directory was answered 404.
GetObjFallsThrough(p) ==
    \/ /\ p.res = "notfound"
       /\ Callback(p, "getObj", {})
       /\ SendNext(p.req, "NotFound")
       /\ UNCHANGED etag
    \/ /\ p.res = "ok"
       /\ Callback(p, "getObj",
                   {Call(p.req, "finishedPipingObject", "body", request[p.req].path, None)})
       /\ etag' = [etag EXCEPT ![p.req] = p.val]
       /\ IF p.val = Dir THEN Send(p.req, "NotFound") ELSE Quiet

\* A directory is answered as a missing object.
GetObj(p) ==
    \/ /\ p.res = "notfound" \/ p.val = Dir
       /\ Callback(p, "getObj", {})
       /\ SendNext(p.req, "NotFound")
       /\ UNCHANGED etag
    \/ /\ p.res = "fail"
       /\ Callback(p, "getObj", {})
       /\ NextErr(p.req, "InternalError")
       /\ UNCHANGED etag
    \/ /\ p.res = "ok" /\ p.val # Dir
       /\ Callback(p, "getObj",
                   {Call(p.req, "finishedPipingObject", "body", request[p.req].path, None)})
       /\ etag' = [etag EXCEPT ![p.req] = p.val]
       /\ Quiet

FinishedPipingObject(p) ==
    /\ Callback(p, "finishedPipingObject", {})
    /\ SendNext(p.req, "OK")
    /\ UNCHANGED etag

----------------------------------------------------------------------------
(* deleteObject: the successful path answers without calling next. *)

DeleteObject(r, q) ==
    /\ Enter({Call(r, "rmObj", "unlink", q.path, None)})
    /\ Quiet

\* A mistake to be caught: errors other than 404 are taken for success.
RmObjIgnoresErrors(p) ==
    /\ Callback(p, "rmObj", {})
    /\ \/ p.res # "notfound" /\ Send(p.req, "NoContent")
       \/ p.res = "notfound" /\ NextErr(p.req, "NotFound")
    /\ UNCHANGED etag

RmObj(p) ==
    /\ Callback(p, "rmObj", {})
    /\ \/ p.res = "ok" /\ Send(p.req, "NoContent")
       \/ p.res = "notfound" /\ NextErr(p.req, "NotFound")
       \/ p.res = "fail" /\ NextErr(p.req, "InternalError")
    /\ UNCHANGED etag

----------------------------------------------------------------------------
(* listObjects: next is called before the listing has arrived.  A prefix  *)
(* with two slashes, one of the values of the parameter, names nothing    *)
(* Manta could store and is answered at once.                             *)

ListObjects(r, q) ==
    \/ /\ Enter({})
       /\ SendNext(r, "OK")
    \/ /\ Enter({Call(r, "findAllInBucket", "ls", q.path, None)})
       /\ NextOk(r)

\* After an error it goes on, answers again and trips over the missing list.
FindAllInBucket(p) ==
    /\ \/ /\ p.res = "ok"
          /\ Callback(p, "findAllInBucket",
                      {Call(p.req, "mantaLs", "listing", request[p.req].path, None)})
          /\ Quiet
       \/ /\ p.res = "notfound"
          /\ Callback(p, "findAllInBucket", {})
          /\ sent' = [sent EXCEPT ![p.req] = @ \o <<"AllAccessDisabled", "InternalError">>]
          /\ UNCHANGED passed
       \/ /\ p.res = "fail"
          /\ Callback(p, "findAllInBucket", {})
          /\ Send(p.req, "InternalError")
    /\ UNCHANGED etag

MantaLsError(p) ==
    /\ p.res \in {"notfound", "fail"}
    /\ Callback(p, "mantaLs", {})
    /\ Send(p.req, "InternalError")
    /\ UNCHANGED etag

MantaLsEnd(p) ==
    /\ p.res = "end"
    /\ Callback(p, "mantaLs", {})
    /\ Send(p.req, "OK")
    /\ UNCHANGED etag

----------------------------------------------------------------------------
(* The handlers that need nothing from Manta. *)

ListMultipartUploads(r) == Enter({}) /\ SendNext(r, "OK")

GetAcl(r) == Enter({}) /\ SendNext(r, "OK")

\* The router passes three arguments to a method of four: req is the response,
\* res is next, and the call of req.path, which a response has not, throws.
PutAcl(r) == Enter({}) /\ Throw(r)

----------------------------------------------------------------------------
(* copyObject: next is called as soon as the source has been looked up,    *)
(* and ln is sent without waiting for the directory of the destination.    *)

CopyObject(r, q) ==
    /\ Enter({Call(r, "linkedObjectInfo", "info", q.src, None)})
    /\ Quiet

LinkedObjectInfo(p) ==
    /\ \/ /\ p.res = "ok"
          /\ Callback(p, "linkedObjectInfo",
                      {Call(p.req, "headLnDir", "info",
                            Dirname[request[p.req].path], p.val)})
          /\ NextOk(p.req)
       \/ /\ p.res # "ok"
          /\ Callback(p, "linkedObjectInfo", {})
          /\ SendNext(p.req, "NotFound")
    /\ UNCHANGED etag

\* p.arg is the info of the source, which has no checksum for a directory.
HeadLnDir(p) ==
    LET q     == request[p.req]
        mkdir == IF p.res = "ok" THEN {}
                 ELSE {Call(p.req, "mkLnObjDir", "mkdirp", Dirname[q.path], None)}
    IN  \/ /\ p.arg = Dir
           /\ Callback(p, "headLnDir", mkdir)
           /\ Throw(p.req)
           /\ UNCHANGED etag
        \/ /\ p.arg # Dir
           /\ Callback(p, "headLnDir",
                       mkdir \cup {Call(p.req, "objectLinked", "ln", q.path, q.src)})
           /\ etag' = [etag EXCEPT ![p.req] = p.arg]
           /\ Quiet

MkLnObjDir(p) ==
    /\ Callback(p, "mkLnObjDir", {})
    /\ \/ p.res = "ok" /\ Quiet
       \/ p.res # "ok" /\ NextErr(p.req, "InternalError")
    /\ UNCHANGED etag

ObjectLinked(p) ==
    /\ Callback(p, "objectLinked", {})
    /\ \/ p.res = "ok" /\ Send(p.req, "OK")
       \/ p.res # "ok" /\ NextErr(p.req, "InternalError")
    /\ UNCHANGED etag

----------------------------------------------------------------------------
ObjectsEnter(r, q) ==
    \/ q.op = "addObject" /\ AddObject(r, q)
    \/ q.op = "createDirectory" /\ CreateDirectory(r, q)
    \/ q.op = "getObject" /\ GetObject(r, q)
    \/ q.op = "deleteObject" /\ DeleteObject(r, q)
    \/ q.op = "listObjects" /\ ListObjects(r, q)
    \/ q.op = "listMultipartUploads" /\ ListMultipartUploads(r)
    \/ q.op = "getAcl" /\ GetAcl(r)
    \/ q.op = "putAcl" /\ PutAcl(r)
    \/ q.op = "copyObject" /\ CopyObject(r, q)

ObjectsCallback(p) ==
    \/ HeadPutDir(p)
    \/ MkObjDir(p)
    \/ ObjectPut(p)
    \/ Mmkdirp(p)
    \/ HeadGetDir(p)
    \/ GetObj(p)
    \/ FinishedPipingObject(p)
    \/ RmObj(p)
    \/ FindAllInBucket(p)
    \/ MantaLsError(p)
    \/ MantaLsEnd(p)
    \/ LinkedObjectInfo(p)
    \/ HeadLnDir(p)
    \/ MkLnObjDir(p)
    \/ ObjectLinked(p)
============================================================================
