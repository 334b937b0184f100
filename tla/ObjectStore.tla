---------------------------- MODULE ObjectStore ----------------------------
(***************************************************************************)
(* What the bridge promises its clients, with no Manta, no directories and *)
(* no callbacks: a flat store of objects in buckets.  A request is asked,  *)
(* has at most one effect on the object it names, at one instant, and is   *)
(* answered; an answer speaks of an instant between the request and the    *)
(* answer.  Bridge is checked to implement this specification.             *)
(*                                                                         *)
(* The promise is what the handlers of lib/buckets.js and lib/objects.js   *)
(* keep, which is less than S3's: a removal of a bucket takes the objects  *)
(* that came after its look at the bucket, and with failures (Faults) an   *)
(* answered request may still take effect and a bucket that cannot be      *)
(* looked up is reported missing.                                          *)
(***************************************************************************)
CONSTANTS Req, Key, Bucket, InBucket, Old, None, Dir, Menu,
          NoRequest, Code, Faults

VARIABLES objects,   \* the content of each key, or None
          buckets,   \* the buckets that exist
          asked,     \* the request of each client, or NoRequest
          done,      \* the requests that have had their effect on an object
          saw,       \* what was found where each request asks
          said       \* the answer: a code and the content it speaks of

storeVars == <<objects, buckets, asked, done, saw, said>>

NoAnswer == [code |-> "none", etag |-> None]

At(p) == IF p \in Key THEN objects[p] ELSE IF p \in buckets THEN Dir ELSE None

Target(r) == IF asked[r].path \in Key THEN InBucket[asked[r].path] ELSE asked[r].path

Init ==
    /\ objects \in [Key -> {None, Old}]
    /\ buckets \in SUBSET Bucket
    /\ \A k \in Key : objects[k] # None => InBucket[k] \in buckets
    /\ asked = [r \in Req |-> NoRequest]
    /\ done = {}
    /\ saw = [r \in Req |-> {}]
    /\ said = [r \in Req |-> NoAnswer]

\* Which answers to q are true, after what request r has found and done.
Truthful(r, q, code, content, found) ==
    CASE code = "OK" ->
            /\ q.op \in {"addObject", "copyObject"} => r \in done
            /\ q.op = "addObject" => content = r
            /\ q.op \in {"getObject", "copyObject"} => content \in found \ {None}
            /\ q.op \in {"bucketExists", "addBucket"} => Dir \in found
            /\ q.op = "addBucket" => Faults \/ None \in found
      [] code = "NoContent" ->
            /\ q.op = "deleteObject" => r \in done
            /\ q.op = "removeBucket" => None \in found
      [] code = "NotFound" ->
            /\ q.op \in {"getObject", "deleteObject"} => None \in found
            /\ q.op = "copyObject" => Faults \/ None \in found
      [] code = "NoSuchBucket" ->
            None \in found \/ (Faults /\ q.op # "getObject")
      [] code \in {"BucketAlreadyExists", "BucketNotEmpty"} -> Dir \in found
      [] OTHER -> TRUE

\* Some handlers answer at once.
Ask(r) ==
    /\ asked[r] = NoRequest
    /\ \E q \in Menu :
          /\ asked' = [asked EXCEPT ![r] = q]
          /\ \/ UNCHANGED said
             \/ \E code \in {"OK", "InternalError"} :
                   /\ Truthful(r, q, code, None, {})
                   /\ said' = [said EXCEPT ![r] = [code |-> code, etag |-> None]]
    /\ UNCHANGED <<objects, buckets, done, saw>>

Say(r) ==
    /\ asked[r] # NoRequest
    /\ said[r] = NoAnswer
    /\ \E code \in Code, content \in Req \cup {Old, None} :
          /\ said' = [said EXCEPT ![r] = [code |-> code, etag |-> content]]
          /\ Truthful(r, asked[r], code, content, saw[r])
    /\ UNCHANGED <<objects, buckets, asked, done, saw>>

----------------------------------------------------------------------------
(* Effects.  Each of them also shows the request what is at its path. *)

Op(r, ops) == asked[r].op \in ops

\* What an answer to q speaks of: for a copy, the object that is copied.
Subject(q) == IF q.op = "copyObject" THEN q.src ELSE q.path

Find(r) == saw' = [saw EXCEPT ![r] = @ \cup {At(Subject(asked[r]))'}]

\* The one effect of r on its object; without failures it precedes the answer.
Once(r) ==
    /\ r \notin done
    /\ done' = done \cup {r}
    /\ Faults \/ said[r] = NoAnswer
    /\ UNCHANGED <<buckets, asked, said>>

Write(r) ==
    /\ Op(r, {"addObject"})
    /\ Target(r) \in buckets
    /\ objects' = [objects EXCEPT ![asked[r].path] = r]
    /\ Once(r) /\ Find(r)

Copy(r) ==
    /\ Op(r, {"copyObject"})
    /\ Target(r) \in buckets
    /\ objects[asked[r].src] # None
    /\ objects' = [objects EXCEPT ![asked[r].path] = objects[asked[r].src]]
    /\ Once(r) /\ Find(r)

Erase(r) ==
    /\ Op(r, {"deleteObject"})
    /\ objects' = [objects EXCEPT ![asked[r].path] = None]
    /\ Once(r) /\ Find(r)

Look(r) ==
    /\ asked[r] # NoRequest
    /\ UNCHANGED <<objects, buckets, asked, done, said>>
    /\ Find(r)

\* A bucket appears because it was added or because something was put into it.
Open(r) ==
    /\ Op(r, {"addBucket", "addObject", "createDirectory", "copyObject"})
    /\ buckets' = buckets \cup {Target(r)}
    /\ UNCHANGED <<objects, asked, done, said>>
    /\ Find(r) \/ UNCHANGED saw

\* A bucket is removed: what was put into it meanwhile, then the bucket.
Clear(r) ==
    /\ Op(r, {"removeBucket"})
    /\ \E k \in Key :
          /\ InBucket[k] = Target(r)
          /\ objects' = [objects EXCEPT ![k] = None]
    /\ UNCHANGED <<buckets, asked, done, said>>
    /\ Find(r)

Drop(r) ==
    /\ Op(r, {"removeBucket"})
    /\ \A k \in Key : InBucket[k] = Target(r) => objects[k] = None
    /\ buckets' = buckets \ {Target(r)}
    /\ UNCHANGED <<objects, asked, done, said>>
    /\ Find(r)

Next == \E r \in Req :
           \/ Ask(r) \/ Say(r)
           \/ Write(r) \/ Copy(r) \/ Erase(r) \/ Look(r)
           \/ Open(r) \/ Clear(r) \/ Drop(r)

Spec == Init /\ [][Next]_storeVars
============================================================================
