------------------------------- MODULE Bridge -------------------------------
(***************************************************************************)
(* The bridge at work: requests arrive in any order and are served at the  *)
(* same time, by one node process or by several of the pm2 cluster, which  *)
(* share nothing but Manta.  The module composes the handlers of Buckets   *)
(* and Objects with Manta and with the exits of processes, and states what *)
(* the composition promises.                                               *)
(***************************************************************************)
EXTENDS Buckets, Objects

CONSTANTS Menu,    \* the requests clients may make
          Exits    \* whether processes may exit with requests under way

Keys == Path \ (Buckets \cup {Base})

BucketOps == {"bucketExists", "addBucket", "removeBucket"}
KeyOps    == {"addObject", "createDirectory", "getObject", "deleteObject",
              "getAcl", "putAcl", "copyObject"}

ASSUME ExitsAssumption == Exits \in BOOLEAN

ASSUME MenuAssumption ==
    /\ Menu \subseteq Request \ {NoRequest}
    /\ \A q \in Menu :
          /\ q.op \in BucketOps => q.path \in Buckets
          /\ q.op \in KeyOps => q.path \in Keys
          /\ q.op \in Op

(***************************************************************************)
(* History variables, which no step reads: the requests whose put, unlink  *)
(* or ln has taken effect; the entries that were at the path a request     *)
(* asks of (its source, for a copy) when one of its calls was executed;    *)
(* and, for a removeBucket, what the bucket held when the listing that     *)
(* looked for entries was read.                                            *)
(***************************************************************************)
VARIABLES done, saw, seen

history == <<done, saw, seen>>

vars == <<mantaVars, httpVars, history>>

\* What clients can tell of a path: its object, or that it is a bucket.
Visible(t, p) == IF p \in Buckets \/ t[p] \in Content THEN t[p] ELSE None

\* What the answer to q speaks of: for a copy, the object that is copied.
Subject(q) == IF q.op = "copyObject" THEN q.src ELSE q.path

Record(c) ==
    /\ done' = IF \/ c.fn = "put" /\ tree'[c.path] = c.req
                  \/ c.fn = "unlink" /\ tree'[c.path] = None
                  \/ c.fn = "ln" /\ Writable(c.path) /\ tree[c.arg] \in Content
               THEN done \cup {c.req} ELSE done
    /\ saw' = [saw EXCEPT ![c.req] = @ \cup {Visible(tree', Subject(request[c.req]))}]
    /\ seen' = IF c.fn = "events"
               THEN [seen EXCEPT ![c.req] = Stored(c.path) \ {c.path}] ELSE seen

----------------------------------------------------------------------------
\* A tree a Manta file system can hold ...
Consistent ==
    \A p \in Path : \A d \in Above[p] \ {p} : tree[p] # None => tree[d] = Dir

\* ... in which the buckets, and the base, are directories.
BucketsAreDirectories == \A b \in Buckets \cup {Base} : tree[b] \in {None, Dir}

Init ==
    /\ tree \in [Path -> {None, Dir, Old}]
    /\ Consistent
    /\ BucketsAreDirectories
    /\ calls = {}
    /\ replies = {}
    /\ request = [r \in Req |-> NoRequest]
    /\ sent = [r \in Req |-> <<>>]
    /\ passed = {}
    /\ etag = [r \in Req |-> None]
    /\ dead = {}
    /\ done = {}
    /\ saw = [r \in Req |-> {}]
    /\ seen = [r \in Req |-> {}]

\* A request reaches the router, which enters its handler.
Arrive(r, q) ==
    /\ ~Asked(r)
    /\ request' = [request EXCEPT ![r] = q]
    /\ BucketsEnter(r, q) \/ ObjectsEnter(r, q)
    /\ UNCHANGED history

\* Manta deals with one of the calls made for r.
Serve(r) ==
    \E c \in calls :
        /\ c.req = r
        /\ \/ Execute(c) /\ Record(c)
           \/ Refuse(c) /\ UNCHANGED history
           \/ MkdirpPartial(c) /\ UNCHANGED history
        /\ UNCHANGED httpVars

\* The event loop runs one of the callbacks of r.
RunCallback(r) ==
    \E p \in replies :
        /\ p.req = r
        /\ BucketsCallback(p) \/ ObjectsCallback(p)
        /\ UNCHANGED history

LoseConnection(r) ==
    \E c \in calls :
        /\ c.req = r
        /\ HangUp(c) \/ BreakOff(c)
        /\ UNCHANGED <<httpVars, history>>

\* Some step of r is still to come.
Busy(r) == \E x \in calls \cup replies : x.req = r /\ x.cb # Nobody

\* A process exits, with R the requests it has not finished.
ProcessExits(R) ==
    /\ Exits
    /\ R # {} /\ \A r \in R : Busy(r)
    /\ Orphan(R)
    /\ dead' = dead \cup R
    /\ UNCHANGED <<request, sent, passed, etag, history>>

\* With nothing left to do the servers wait for requests.
Idle ==
    /\ calls = {} /\ replies = {}
    /\ \A r \in Req : Asked(r)
    /\ UNCHANGED vars

Next ==
    \/ \E r \in Req :
          \/ \E q \in Menu : Arrive(r, q)
          \/ Serve(r)
          \/ RunCallback(r)
          \/ LoseConnection(r)
    \/ \E R \in SUBSET Req : ProcessExits(R)
    \/ Idle

Spec == Init /\ [][Next]_vars

\* Manta deals with every call and the event loop runs every callback; nothing
\* makes clients send requests, connections break or processes exit.
Fairness == \A r \in Req : WF_vars(Serve(r)) /\ WF_vars(RunCallback(r))

FairSpec == Spec /\ Fairness

(***************************************************************************)
(* The bridge implements the flat object store it promises.                *)
(***************************************************************************)
InBucket == [k \in Keys |-> BucketOf(k)]

Store == INSTANCE ObjectStore WITH
            Key      <- Keys,
            Bucket   <- Buckets,
            objects  <- [k \in Keys |-> Visible(tree, k)],
            buckets  <- {b \in Buckets : tree[b] = Dir},
            asked    <- request,
            said     <- [r \in Req |-> [code |-> IF Answered(r) THEN Reply(r) ELSE "none",
                                        etag |-> IF Answered(r) THEN etag[r] ELSE None]]

\* Whatever the bridge does to its tree and tells its clients, a flat store of
\* objects could have done and told: every effect on an object takes place at
\* most once and at one instant, and every answer is true of such an instant.
ImplementsStore == Store!Spec

(***************************************************************************)
(* Types.  The callbacks of each handler, by the names the actions use.    *)
(***************************************************************************)
RemovalCallbacks == {"infoBucketFirst", "infoBucketSecond", "checkForEmptyDir",
                     "isEmpty", "rmdirBuckets"}
UploadCallbacks  == {"headPutDir", "mkObjDir", "objectPut"}
CopyCallbacks    == {"linkedObjectInfo", "headLnDir", "mkLnObjDir", "objectLinked"}
ListCallbacks    == {"findAllInBucket", "mantaLs"}
OtherCallbacks   == {"mlsBuckets", "mlsBucketsStream", "headBucket", "infoBucketAdd",
                     "mkdirBuckets", "mmkdirp", "headGetDir", "getObj",
                     "finishedPipingObject", "rmObj"}

Callbacks == RemovalCallbacks \cup UploadCallbacks \cup CopyCallbacks
             \cup ListCallbacks \cup OtherCallbacks

CallType  == [req : Req, cb : Callbacks \cup {Nobody}, fn : Changing \cup Reading,
              path : Path, arg : Path \cup Entry]
ReplyType == [req : Req, cb : Callbacks, res : Result, val : Entry,
              arg : Path \cup Entry]

\* The type of every variable; an ETag always speaks of an object's content.
TypeOK ==
    /\ tree \in [Path -> Entry]
    /\ calls \subseteq CallType
    /\ replies \subseteq ReplyType
    /\ request \in [Req -> Menu \cup {NoRequest}]
    /\ sent \in [Req -> Seq(Code)]
    /\ passed \subseteq Req
    /\ etag \in [Req -> Content \cup {None}]
    /\ dead \subseteq Req
    /\ done \subseteq Req
    /\ saw \in [Req -> SUBSET Entry]
    /\ seen \in [Req -> SUBSET Path]

(***************************************************************************)
(* Safety.                                                                 *)
(***************************************************************************)
\* rmr, which takes everything below a bucket, takes nothing that the listing
\* of checkForEmptyDir could have shown: entries go by their own deleteObject
\* or because they came after the bucket had been found empty.
ListedEntriesSurvive ==
    [][\A p \in Path :
          tree[p] # None /\ tree'[p] = None =>
             \E c \in calls : \/ c.fn = "unlink" /\ c.path = p
                              \/ /\ c.fn = "rmr" /\ p \in Below(c.path)
                                 /\ p \notin seen[c.req]]_vars

\* removeBucket refuses only a bucket in which its listing has shown an entry,
\* and reports the removal only of one in which it has shown none.
RemovalFollowsListing ==
    \A r \in Req :
        /\ Said(r, "BucketNotEmpty") => seen[r] # {}
        /\ Said(r, "NoContent") /\ request[r].op = "removeBucket" => seen[r] = {}

\* A request is answered once.  The two look-ups of removeBucket and the fall
\* through of findAllInBucket are the places where the code answers again.
AnsweredOnce ==
    \A r \in Req :
        request[r].op \notin {"removeBucket", "listObjects"} => Len(sent[r]) <= 1

\* Once a request is answered nothing it awaited may still change the tree.
\* The exceptions are a removeBucket whose first look-up failed and the
\* directory that copyObject makes without waiting for it.
AnswerIsFinal ==
    \A c \in calls :
        c.fn \in Changing /\ c.cb # Nobody /\ Answered(c.req)
        => request[c.req].op \in {"removeBucket", "copyObject"}

\* The requests that are owed an answer: not a copy that linked nothing, and,
\* when calls fail, not the copy whose link has failed, the listing of buckets
\* whose stream had an error, nor the download whose body broke off.
Due(r) ==
    /\ Asked(r)
    /\ r \notin dead
    /\ request[r].op = "copyObject" => r \in done
    /\ Faults => request[r].op \notin {"copyObject", "listBuckets", "getObject"}

\* No path through the callbacks forgets the answer that is due.
NoneForgotten == \A r \in Req : Due(r) => Answered(r) \/ Busy(r)

(***************************************************************************)
(* Liveness, under FairSpec.                                               *)
(***************************************************************************)
\* A request that is owed an answer gets it, or its process exits.
EventuallyAnswered == \A r \in Req : Due(r) ~> (Answered(r) \/ r \in dead)

(***************************************************************************)
(* What comments and tests of the repository say and the code does not do. *)
(***************************************************************************)
\* buckets.js:234: deleting a bucket that is not empty fails, so an object
\* whose upload was acknowledged is never lost to the removal of its bucket.
AcknowledgedObjectsSurviveRemoval ==
    [][\A r \in Req, p \in Path :
          tree[p] = r /\ Said(r, "OK") /\ tree'[p] = None =>
             ~\E c \in calls : c.fn = "rmr" /\ p \in Below(c.path)]_vars

\* buckets.js:187: of two requests to add a bucket one is told that it is there.
AddedOnce ==
    \A r, s \in Req :
        /\ r # s
        /\ request[r].op = "addBucket" /\ request[s] = request[r]
        => ~(Said(r, "OK") /\ Said(s, "OK"))

============================================================================
