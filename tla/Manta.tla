------------------------------- MODULE Manta -------------------------------
(***************************************************************************)
(* The Manta object store as the bridge's handlers use it.  The store and  *)
(* its client library are not part of the repository: this module is an    *)
(* external environment, modelled from the calls made in lib/buckets.js    *)
(* and lib/objects.js and from the results those callers tell apart.       *)
(*                                                                         *)
(* A call is asynchronous.  A handler puts it in calls; Manta executes it  *)
(* in one atomic step (several steps for rmr) which may change the tree    *)
(* and puts its result in replies; the handler's callback consumes the     *)
(* result in a later step.  Any other step may come in between, which is   *)
(* where the interleavings of two requests come from.                      *)
(***************************************************************************)
EXTENDS Naturals

CONSTANTS Req,      \* the S3 requests; a request also names the body it uploads
          Path,     \* the Manta paths at or below the bucket directory
          Base,     \* options.bucketPath, the directory that holds the buckets
          Dirname,  \* path.dirname; the Base is its own dirname here
          Above,    \* the path, its dirname, its dirname's dirname ... the Base
          Old,      \* the content of an object stored before the run
          Faults    \* whether calls may fail although Manta could do them

None == "none"      \* nothing is stored at this path
Dir  == "dir"       \* a Manta directory

Content == Req \cup {Old}
Entry   == Content \cup {None, Dir}

ASSUME HierarchyAssumption ==
    /\ Base \in Path
    /\ Dirname \in [Path -> Path]
    /\ Above \in [Path -> SUBSET Path]
    /\ Above[Base] = {Base}
    /\ Dirname[Base] = Base
    /\ \A p \in Path \ {Base} :
          /\ Above[p] = {p} \cup Above[Dirname[p]]
          /\ p \notin Above[Dirname[p]]
          /\ Base \in Above[p]
    /\ \A p \in Path : \A d, e \in Above[p] : d \in Above[e] \/ e \in Above[d]
    /\ \A p \in Path : \A d \in Above[p] :
          /\ Above[d] \subseteq Above[p]
          /\ d # p => \E q \in Above[p] : q # Base /\ Dirname[q] = d

ASSUME ContentAssumption ==
    /\ None \notin Content
    /\ Dir \notin Content
    /\ Old \notin Req
    /\ Faults \in BOOLEAN

Buckets == {b \in Path \ {Base} : Dirname[b] = Base}

\* The bucket directory of a path below the Base.
BucketOf(p) == CHOOSE b \in Above[p] : b \in Buckets

VARIABLES tree,     \* what is stored at each path
          calls,    \* the calls Manta has not executed yet
          replies   \* the results whose callback has not run yet

mantaVars == <<tree, calls, replies>>

Children(d) == {p \in Path \ {Base} : Dirname[p] = d /\ tree[p] # None}
Below(d)    == {p \in Path : d \in Above[p]}
Stored(d)   == {p \in Below(d) : tree[p] # None}

(***************************************************************************)
(* Calls and their results.  cb names the callback that waits for the      *)
(* result, or is Nobody: the connection was lost or the process is gone,   *)
(* and Manta may still execute what it was sent.  arg is what the callback *)
(* or the call needs besides its path: the source path of ln, and what a   *)
(* closure keeps from an earlier result.                                   *)
(***************************************************************************)
Nobody == "nobody"

Changing == {"mkdirp", "put", "unlink", "ln", "rmr"}
Reading  == {"info", "get", "body", "ls", "events", "listing"}
Result   == {"ok", "notfound", "fail", "object", "directory", "end"}

Call(r, cb, fn, path, arg) ==
    [req |-> r, cb |-> cb, fn |-> fn, path |-> path, arg |-> arg]

\* The call with nobody to take its result.
Orphaned(c) == Call(c.req, Nobody, c.fn, c.path, c.arg)

Answer(c, res, val) ==
    /\ calls' = calls \ {c}
    /\ replies' = IF c.cb = Nobody THEN replies
                  ELSE replies \cup {[req |-> c.req, cb |-> c.cb, res |-> res,
                                      val |-> val, arg |-> c.arg]}

(***************************************************************************)
(* What each function of the client does.                                  *)
(***************************************************************************)
Info(c) ==
    /\ c.fn = "info"
    /\ IF tree[c.path] = None THEN Answer(c, "notfound", None)
                              ELSE Answer(c, "ok", tree[c.path])
    /\ UNCHANGED tree

\* A directory can be fetched too; its body then has the directory type.
Get(c) ==
    /\ c.fn = "get"
    /\ IF tree[c.path] = None THEN Answer(c, "notfound", None)
                              ELSE Answer(c, "ok", tree[c.path])
    /\ UNCHANGED tree

\* The stream of a fetched object reaches its end.
Body(c) ==
    /\ c.fn = "body"
    /\ Answer(c, "end", None)
    /\ UNCHANGED tree

Ls(c) ==
    /\ c.fn = "ls"
    /\ \/ tree[c.path] \in {None, Dir} /\ Answer(c, "ok", None)
       \/ tree[c.path] = None /\ Answer(c, "notfound", None)
       \/ tree[c.path] \in Content /\ Answer(c, "fail", None)
    /\ UNCHANGED tree

\* The first event of a listing stream that is only asked for any entry: one
\* of the entries, or the end.  A missing directory is an error event, for a
\* client that opened the stream before it had read the status of the answer.
Events(c) ==
    /\ c.fn = "events"
    /\ \/ \E p \in Children(c.path) :
             Answer(c, IF tree[p] = Dir THEN "directory" ELSE "object", None)
       \/ Children(c.path) = {} /\ tree[c.path] # None /\ Answer(c, "end", None)
       \/ tree[c.path] = None /\ Answer(c, "notfound", None)
    /\ UNCHANGED tree

\* A listing stream read for all its entries, which are not kept here.
Listing(c) ==
    /\ c.fn = "listing"
    /\ Answer(c, IF tree[c.path] = None THEN "notfound" ELSE "end", None)
    /\ UNCHANGED tree

\* Every missing directory down to the path; an object in the way is an error.
Mkdirp(c) ==
    /\ c.fn = "mkdirp"
    /\ IF \E p \in Above[c.path] : tree[p] \in Content
       THEN Answer(c, "fail", None) /\ UNCHANGED tree
       ELSE /\ tree' = [p \in Path |-> IF p \in Above[c.path] THEN Dir ELSE tree[p]]
            /\ Answer(c, "ok", None)

\* An object can be written or linked where its parent is a directory.
Writable(p) == p # Base /\ tree[Dirname[p]] = Dir /\ tree[p] # Dir

Put(c) ==
    /\ c.fn = "put"
    /\ IF Writable(c.path)
       THEN tree' = [tree EXCEPT ![c.path] = c.req] /\ Answer(c, "ok", c.req)
       ELSE Answer(c, "fail", None) /\ UNCHANGED tree

Ln(c) ==
    /\ c.fn = "ln"
    /\ IF Writable(c.path) /\ tree[c.arg] \in Content
       THEN /\ tree' = [tree EXCEPT ![c.path] = tree[c.arg]]
            /\ Answer(c, "ok", tree[c.arg])
       ELSE Answer(c, "fail", None) /\ UNCHANGED tree

\* Removal of one entry, which may not be a directory with entries of its own.
RemoveEntry(c) ==
    \/ /\ tree[c.path] = None
       /\ Answer(c, "notfound", None) /\ UNCHANGED tree
    \/ /\ Children(c.path) # {}
       /\ Answer(c, "fail", None) /\ UNCHANGED tree
    \/ /\ tree[c.path] # None /\ Children(c.path) = {}
       /\ Answer(c, "ok", None) /\ tree' = [tree EXCEPT ![c.path] = None]

Unlink(c) == c.fn = "unlink" /\ RemoveEntry(c)

(***************************************************************************)
(* rmr walks the tree and removes one entry at a time, contents before     *)
(* their directory.  An entry written behind the walk makes the removal of *)
(* its directory fail.                                                     *)
(***************************************************************************)
RmrLeaf(c) ==
    /\ c.fn = "rmr"
    /\ \E p \in Stored(c.path) \ {c.path} :
          /\ Children(p) = {}
          /\ tree' = [tree EXCEPT ![p] = None]
    /\ UNCHANGED <<calls, replies>>

RmrTop(c) == c.fn = "rmr" /\ RemoveEntry(c)

Execute(c) ==
    \/ Info(c)
    \/ Get(c)
    \/ Body(c)
    \/ Ls(c)
    \/ Events(c)
    \/ Listing(c)
    \/ Mkdirp(c)
    \/ Put(c)
    \/ Ln(c)
    \/ Unlink(c)
    \/ RmrLeaf(c)
    \/ RmrTop(c)

(***************************************************************************)
(* What goes wrong between the bridge and Manta.  Manta may refuse a call  *)
(* it could have executed.  mkdirp, which makes one directory after the    *)
(* other, may stop on the way.  The connection of a call that changes the  *)
(* tree may be lost: the callback gets an error, yet Manta may execute the *)
(* call, then or later.  The body of an object may break off, which the    *)
(* stream tells by no event the handler listens to.                        *)
(***************************************************************************)
Refuse(c) ==
    /\ Faults
    /\ c.fn # "body"
    /\ Answer(c, "fail", None)
    /\ UNCHANGED tree

MkdirpPartial(c) ==
    /\ Faults
    /\ c.fn = "mkdirp"
    /\ \A p \in Above[c.path] : tree[p] \notin Content
    /\ \E last \in Above[c.path] \ {c.path} :
          tree' = [p \in Path |-> IF p \in Above[last] THEN Dir ELSE tree[p]]
    /\ Answer(c, "fail", None)

HangUp(c) ==
    /\ Faults
    /\ c.fn \in Changing
    /\ c.cb # Nobody
    /\ calls' = (calls \ {c}) \cup {Orphaned(c)}
    /\ replies' = replies \cup {[req |-> c.req, cb |-> c.cb, res |-> "fail",
                                 val |-> None, arg |-> c.arg]}
    /\ UNCHANGED tree

BreakOff(c) ==
    /\ Faults
    /\ c.fn = "body"
    /\ calls' = calls \ {c}
    /\ UNCHANGED <<tree, replies>>

\* The process that serves R exits: nobody waits for its calls any more.
Orphan(R) ==
    /\ calls' = {c \in calls : c.req \notin R}
                \cup {Orphaned(c) : c \in {d \in calls : d.req \in R /\ d.fn \in Changing}}
    /\ replies' = {p \in replies : p.req \notin R}
    /\ UNCHANGED tree
============================================================================
