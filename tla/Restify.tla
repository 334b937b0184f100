------------------------------ MODULE Restify ------------------------------
(***************************************************************************)
(* The request chain of the restify server, as far as the handlers of      *)
(* lib/buckets.js and lib/objects.js and the router depend on it.  restify *)
(* is a dependency, not part of the repository: external, modelled from    *)
(* how the handlers call res.send and next, and from the once-only next    *)
(* and the per-request domain of the version package.json names.           *)
(*                                                                         *)
(* A client gets the first answer that is sent.  next is called at most    *)
(* once per handler: a second call, with or without an error, does         *)
(* nothing.  An exception thrown by a handler or by one of its callbacks   *)
(* is caught by the domain and answered 500 unless an answer was sent.     *)
(***************************************************************************)
EXTENDS Manta, Sequences

VARIABLES request,  \* the request each client has made, or NoRequest
          sent,     \* the status codes given to res.send, in order
          passed,   \* the requests whose handler has called next
          etag,     \* the object content the response speaks of (header etag)
          dead      \* the requests whose process has exited

httpVars == <<request, sent, passed, etag, dead>>

NoRequest == [op |-> "none", path |-> Base, src |-> Base]

\* The handlers the router dispatches to.
Op == {"listBuckets", "bucketExists", "addBucket", "removeBucket",
       "addObject", "createDirectory", "getObject", "deleteObject",
       "listObjects", "listMultipartUploads", "getAcl", "putAcl", "copyObject"}

Request == [op : Op \cup {"none"}, path : Path, src : Path]

Code == {"OK", "NoContent", "NoSuchBucket", "NotFound", "BucketAlreadyExists",
         "BucketNotEmpty", "AllAccessDisabled", "InternalError"}

Asked(r)    == request[r] # NoRequest
Answered(r) == sent[r] # <<>>
Reply(r)    == sent[r][1]     \* what the client gets

Said(r, code) == Answered(r) /\ Reply(r) = code

(***************************************************************************)
(* How a callback ends.                                                    *)
(***************************************************************************)
\* res.send(code)
Send(r, code) ==
    /\ sent' = [sent EXCEPT ![r] = Append(@, code)]
    /\ UNCHANGED passed

\* return next()
NextOk(r) ==
    /\ passed' = passed \cup {r}
    /\ UNCHANGED sent

\* res.send(code); return next()
SendNext(r, code) ==
    /\ sent' = [sent EXCEPT ![r] = Append(@, code)]
    /\ passed' = passed \cup {r}

\* return next(err)
NextErr(r, code) ==
    /\ sent' = IF r \in passed THEN sent ELSE [sent EXCEPT ![r] = Append(@, code)]
    /\ passed' = passed \cup {r}

\* throw, caught by the domain of the request
Throw(r) ==
    /\ sent' = IF Answered(r) THEN sent
               ELSE [sent EXCEPT ![r] = Append(@, "InternalError")]
    /\ UNCHANGED passed

\* neither an answer nor next
Quiet == UNCHANGED <<sent, passed>>

(***************************************************************************)
(* What starts and what ends a step of a handler.                          *)
(***************************************************************************)
\* The result p is for callback cb and is consumed; the callback issues calls.
Callback(p, cb, issued) ==
    /\ p \in replies
    /\ p.cb = cb
    /\ replies' = replies \ {p}
    /\ calls' = calls \cup issued
    /\ UNCHANGED <<tree, request, dead>>

\* A handler is entered and issues calls.
Enter(issued) ==
    /\ calls' = calls \cup issued
    /\ UNCHANGED <<tree, replies, etag, dead>>
============================================================================
