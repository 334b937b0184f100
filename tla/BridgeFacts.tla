---------------------------- MODULE BridgeFacts ----------------------------
(***************************************************************************)
(* What the pending calls and results of Bridge stand for: a second layer  *)
(* of its inductive invariant, above IInv.  A call is the one its handler  *)
(* makes for the request, a result tells what the request has found or     *)
(* done, and a request has one effect.  From this it follows that every    *)
(* answer is true of the flat store, and that none is forgotten.           *)
(***************************************************************************)
EXTENDS BridgeInv

OpOf(x)   == request[x.req].op
PathOf(x) == request[x.req].path

Effects == {"put", "unlink", "ln"}

\* The callbacks of the handlers that have their effect still before them.
Preparing == {"headPutDir", "mkObjDir", "linkedObjectInfo", "headLnDir"}

(***************************************************************************)
(* Calls are made by their handlers, for the path of their request.        *)
(***************************************************************************)
\* The operation a callback serves, where OfHandler does not tell.
OfOperation(x) ==
    /\ x.cb \in {"mlsBuckets", "mlsBucketsStream"} => OpOf(x) = "listBuckets"
    /\ x.cb = "headBucket" => OpOf(x) = "bucketExists"
    /\ x.cb \in {"infoBucketAdd", "mkdirBuckets"} => OpOf(x) = "addBucket"
    /\ x.cb = "mmkdirp" => OpOf(x) = "createDirectory"
    /\ x.cb \in {"headGetDir", "getObj", "finishedPipingObject"}
       => OpOf(x) = "getObject"
    /\ x.cb = "rmObj" => OpOf(x) = "deleteObject"

\* The calls that change the tree, whether somebody waits for them or not.
Intended(c) ==
    /\ c.fn = "put" => OpOf(c) = "addObject" /\ c.path = PathOf(c)
    /\ c.fn = "unlink" => OpOf(c) = "deleteObject" /\ c.path = PathOf(c)
    /\ c.fn = "ln" => /\ OpOf(c) = "copyObject"
                      /\ c.path = PathOf(c) /\ c.arg = request[c.req].src
    /\ c.fn = "mkdirp" =>
          \/ OpOf(c) \in {"addBucket", "createDirectory"} /\ c.path = PathOf(c)
          \/ OpOf(c) \in {"addObject", "copyObject"} /\ c.path = Dirname[PathOf(c)]
    /\ c.fn = "rmr" => OpOf(c) = "removeBucket" /\ c.path = PathOf(c)
    /\ c.fn \in Effects => c.cb \in {"objectPut", "rmObj", "objectLinked", Nobody}

\* The call whose result a callback awaits.
Awaited(c) ==
    /\ c.cb \in {"headBucket", "infoBucketAdd", "infoBucketFirst", "infoBucketSecond"}
       => c.fn = "info" /\ c.path = PathOf(c)
    /\ c.cb = "linkedObjectInfo" => c.fn = "info" /\ c.path = request[c.req].src
    /\ c.cb = "headGetDir" => c.fn = "info" /\ c.path = BucketOf(PathOf(c))
    /\ c.cb = "getObj" => c.fn = "get" /\ c.path = PathOf(c)
    /\ c.cb = "isEmpty" => c.path = PathOf(c)
    /\ c.cb = "mlsBucketsStream" => c.fn = "listing"
    /\ c.cb = "mkdirBuckets" => c.fn = "mkdirp"
    /\ c.cb = "rmdirBuckets" => c.fn = "rmr"
    /\ c.cb = "rmObj" => c.fn = "unlink"
    /\ c.cb = "objectLinked" => c.fn = "ln"
    /\ c.fn = "body" => c.cb = "finishedPipingObject"

CallsAsMade ==
    /\ \A c \in calls : OfOperation(c) /\ Intended(c) /\ Awaited(c)
    /\ \A p \in replies : OfOperation(p)

(***************************************************************************)
(* What a closure carries, and what a result tells: of what was found at   *)
(* the path of the request (saw), of the listing of its bucket (seen), and *)
(* of its effect (done).                                                   *)
(***************************************************************************)
Missing(r) == Faults \/ None \in saw[r]

\* The content the response speaks of was found.
EtagFound(r) == etag[r] \in saw[r] /\ etag[r] \in Content

Carries(x) ==
    /\ x.cb = "mkdirBuckets" => Missing(x.req)
    /\ x.cb = "rmdirBuckets" => seen[x.req] = {}
    /\ x.cb = "headLnDir" => x.arg # None /\ (x.arg \in Content => x.arg \in saw[x.req])
    /\ x.cb \in {"finishedPipingObject", "objectLinked"} => EtagFound(x.req)

\* A result of info where the request asks.
TellsInfo(p) ==
    /\ p.cb \in {"headBucket", "infoBucketAdd"} /\ p.res = "ok" => Dir \in saw[p.req]
    /\ p.cb \in {"headBucket", "infoBucketAdd", "infoBucketFirst",
                 "infoBucketSecond", "linkedObjectInfo"} /\ p.res # "ok"
       => Missing(p.req)
    /\ p.cb = "headGetDir" /\ p.res = "notfound" => None \in saw[p.req]

TellsContent(p) ==
    /\ p.cb \in {"linkedObjectInfo", "getObj"} =>
          /\ p.res = "ok" => p.val # None
          /\ p.val \in Content => p.val \in saw[p.req]
    /\ p.cb = "getObj" /\ (p.res = "notfound" \/ p.val = Dir) => None \in saw[p.req]

TellsBucket(p) ==
    /\ p.cb = "mkdirBuckets" /\ p.res = "ok" => Dir \in saw[p.req]
    /\ p.cb = "isEmpty" /\ p.res \in {"object", "directory"}
       => Dir \in saw[p.req] /\ seen[p.req] # {}
    /\ p.cb = "rmdirBuckets" /\ p.res = "ok" => None \in saw[p.req]
    /\ p.cb = "mlsBucketsStream" /\ p.res = "fail" => Faults

TellsEffect(p) ==
    /\ p.cb = "objectPut" /\ p.res = "ok" => p.req \in done /\ p.val = p.req
    /\ p.cb = "rmObj" /\ p.res = "ok" => p.req \in done
    /\ p.cb = "rmObj" /\ p.res = "notfound" => None \in saw[p.req]
    /\ p.cb = "objectLinked" /\ p.res = "ok" => p.req \in done
    /\ p.cb = "objectLinked" /\ p.res # "ok" => Faults \/ p.req \notin done

Tells(p) == TellsInfo(p) /\ TellsContent(p) /\ TellsBucket(p) /\ TellsEffect(p)

ResultsTell ==
    /\ \A c \in calls : Carries(c)
    /\ \A p \in replies : Carries(p) /\ Tells(p)

(***************************************************************************)
(* A request has one effect, which without failures precedes its answer.   *)
(***************************************************************************)
\* The effect of x's request is neither done nor under way.
Ahead(x) == /\ x.req \notin done
            /\ \A c \in calls : c.fn \in Effects => c.req # x.req

OneEffect ==
    /\ \A c, d \in calls :
          c.fn \in Effects /\ d.fn \in Effects /\ c.req = d.req => c = d
    /\ \A c \in calls :
          c.fn \in Effects => c.req \notin done /\ (Faults \/ ~Answered(c.req))
    /\ \A c \in calls : c.cb \in Preparing => Ahead(c)
    /\ \A p \in replies : p.cb \in Preparing => Ahead(p)
    /\ \A p \in Path : tree[p] \in Req => tree[p] \in done

\* Nothing is known of a request that has not arrived.
UnknownBefore ==
    \A r \in Req : ~Asked(r) => /\ r \notin done /\ r \notin dead /\ r \notin passed
                                /\ etag[r] = None /\ saw[r] = {}

\* Of a process that has exited nothing is left but calls nobody waits for;
\* without failures there are no other such calls.
DeadAreSilent ==
    /\ \A p \in replies : p.req \notin dead
    /\ \A c \in calls : c.req \in dead => c.cb = Nobody
    /\ ~Faults => \A c \in calls : c.cb = Nobody => c.req \in dead

(***************************************************************************)
(* What removeBucket answers, and that no request is forgotten.            *)
(***************************************************************************)
AtRest(r) == /\ \A x \in calls : x.req = r => ~InTurn(x)
             /\ \A x \in replies : x.req = r => ~InTurn(x)

RemovalSettled ==
    \A r \in Req :
        /\ Said(r, "BucketNotEmpty") => seen[r] # {} /\ AtRest(r)
        /\ Said(r, "NoContent") /\ request[r].op = "removeBucket"
           => seen[r] = {} /\ AtRest(r)

\* The requests the code leaves without an answer, see Due.
Excused(r) ==
    \/ request[r].op = "copyObject" /\ (Faults \/ r \notin done)
    \/ Faults /\ request[r].op \in {"listBuckets", "getObject"}

NextBeforeAnswer == {"listBuckets", "listObjects", "copyObject"}

TurnOrAnswer ==
    /\ \A r \in Req :
          Asked(r) /\ r \notin dead /\ AtRest(r) => Answered(r) \/ Excused(r)
    /\ \A r \in passed : Answered(r) \/ request[r].op \in NextBeforeAnswer

FInv ==
    /\ CallsAsMade
    /\ ResultsTell
    /\ OneEffect
    /\ UnknownBefore
    /\ DeadAreSilent
    /\ RemovalSettled
    /\ TurnOrAnswer
============================================================================
