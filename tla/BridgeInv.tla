----------------------------- MODULE BridgeInv -----------------------------
(***************************************************************************)
(* The inductive invariant of Bridge: why its safety properties hold.      *)
(*                                                                         *)
(* A handler is a chain of callbacks.  Each link consumes the result of    *)
(* one call and issues the next call or answers, so that a request has at  *)
(* most one call or result that can go on with it: it is its turn.  Two    *)
(* callbacks stand beside the chain of their handler, the first look-up of *)
(* removeBucket and the mkdirp of copyObject that nothing waits for.       *)
(***************************************************************************)
EXTENDS Bridge

Beside == {"infoBucketFirst", "mkLnObjDir"}

InTurn(x) == x.cb \notin Beside \cup {Nobody}

\* No request has two calls, two results, or a call and a result, in turn.
OneTurn ==
    /\ \A x, y \in calls :
          x.req = y.req /\ InTurn(x) /\ InTurn(y) => x = y
    /\ \A x, y \in replies :
          x.req = y.req /\ InTurn(x) /\ InTurn(y) => x = y
    /\ \A x \in calls, y \in replies :
          x.req = y.req /\ InTurn(x) => ~InTurn(y)

\* Whose handler a pending call or result belongs to.
OfHandler(x) ==
    /\ Asked(x.req)
    /\ x.cb \in RemovalCallbacks => request[x.req].op = "removeBucket"
    /\ x.cb \in UploadCallbacks => request[x.req].op = "addObject"
    /\ x.cb \in CopyCallbacks => request[x.req].op = "copyObject"
    /\ x.cb \in ListCallbacks => request[x.req].op = "listObjects"

HandlersOfItems ==
    /\ \A x \in calls : OfHandler(x)
    /\ \A x \in replies : OfHandler(x)

\* While it is the turn of a request it has no answer, but for removeBucket.
UnansweredInTurn ==
    /\ \A x \in calls :
          InTurn(x) /\ Answered(x.req) => request[x.req].op = "removeBucket"
    /\ \A x \in replies :
          InTurn(x) /\ Answered(x.req) => request[x.req].op = "removeBucket"
    /\ \A r \in Req : Answered(r) => Asked(r)

\* What a call says of the callback that awaits it, and a result of its call.
OfCall ==
    /\ \A c \in calls :
          /\ c.fn \in {"put", "ln"} => c.path \in Keys
          /\ c.fn = "events" <=> c.cb = "isEmpty"
          /\ c.fn = "rmr" => c.cb \in {"rmdirBuckets", Nobody}
          /\ c.cb = "objectPut" => c.fn = "put"
          /\ c.cb = "headLnDir" => c.arg \in Entry
          /\ c.cb \in {"headLnDir", "mkLnObjDir"} => c.req \in passed
    /\ \A p \in replies :
          /\ p.cb = "objectPut" => p.val \in Content \cup {None}
          /\ p.cb = "headLnDir" => p.arg \in Entry
          /\ p.cb \in {"headLnDir", "mkLnObjDir"} => p.req \in passed

\* rmr is called on a bucket whose listing was empty, and the listing is not
\* read again while the call is pending, orphaned or not.
RmrAfterEmptyListing ==
    /\ \A p \in replies :
          p.cb = "isEmpty" /\ p.res = "end" => seen[p.req] = {}
    /\ \A c \in calls :
          c.fn = "rmr" =>
             /\ seen[c.req] = {}
             /\ \A x \in calls : x.req = c.req /\ InTurn(x) => x.cb = "rmdirBuckets"
             /\ \A x \in replies : x.req = c.req /\ InTurn(x) => x.cb = "rmdirBuckets"

IInv ==
    /\ TypeOK
    /\ Consistent
    /\ BucketsAreDirectories
    /\ OneTurn
    /\ HandlersOfItems
    /\ UnansweredInTurn
    /\ OfCall
    /\ RmrAfterEmptyListing
    /\ AnsweredOnce
============================================================================
