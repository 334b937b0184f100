---------------------------- MODULE StoreProofs ----------------------------
(***************************************************************************)
(* Proof that Bridge implements ObjectStore: a step of the bridge is a     *)
(* step of the flat store of objects, or changes nothing of it.            *)
(***************************************************************************)
EXTENDS FactsProofs

----------------------------------------------------------------------------
(* The store as Bridge shows it. *)

ObjectsShown == [k \in Keys |-> Visible(tree, k)]
BucketsShown == {b \in Buckets : tree[b] = Dir}
Told == [r \in Req |-> [code |-> IF Answered(r) THEN Reply(r) ELSE "none",
                        etag |-> IF Answered(r) THEN etag[r] ELSE None]]

LEMMA KeyPaths == Keys \subseteq Path \ {Base} /\ Keys \cap Buckets = {}
                  /\ Base \notin Buckets /\ Buckets \subseteq Path
                  /\ Path = Keys \cup Buckets \cup {Base}
BY HierarchyAssumption DEF Keys, Buckets

\* What a request finds at its path is what the store holds there.
LEMMA AtPath ==
  ASSUME BucketsAreDirectories, NEW p \in Path
  PROVE  Store!At(p) = Visible(tree, p)
BY KeyPaths, Names DEF Store!At, Visible, BucketsAreDirectories

\* One key changes and no bucket does.
LEMMA KeyChanges ==
  ASSUME tree \in [Path -> Entry], NEW k \in Keys, NEW v \in Content \cup {None},
         tree' = [tree EXCEPT ![k] = v]
  PROVE  /\ ObjectsShown' = [ObjectsShown EXCEPT ![k] = v]
         /\ BucketsShown' = BucketsShown
<1>1. /\ \A j \in Keys : tree'[j] = IF j = k THEN v ELSE tree[j]
      /\ \A b \in Buckets : tree'[b] = tree[b]
  BY KeyPaths
<1> QED
  BY <1>1, KeyPaths, Names DEF ObjectsShown, BucketsShown, Visible

\* The bucket of a key that can be written is there.
LEMMA WritableBucket ==
  ASSUME IInv, NEW k \in Keys, Writable(k)
  PROVE  tree[BucketOf(k)] = Dir
<1>1. k \in Path \ {Base} /\ Dirname[k] \in Path /\ tree[Dirname[k]] = Dir
  BY KeyPaths, HierarchyAssumption DEF Writable
<1>2. BucketOf(k) \in Above[Dirname[k]]
  BY <1>1, BucketAbove, HierarchyAssumption
<1> QED
  BY <1>1, <1>2, Names DEF IInv, Consistent

----------------------------------------------------------------------------
(* Steps that show nothing of the store, and those that only look at it. *)

LEMMA SameStore ==
  ASSUME UNCHANGED <<tree, request, sent, etag, history>>
  PROVE  UNCHANGED Store!storeVars
BY DEF Store!storeVars, history, Visible, Answered, Reply

\* What a call is recorded to have found is what the store's request finds.
LEMMA RecordFinds ==
  ASSUME IInv, FInv, IInv', NEW c \in calls, Record(c), UNCHANGED httpVars
  PROVE  Store!Find(c.req)
<1>1. request[c.req].path \in Path /\ request[c.req].src \in Path
  BY CallFacts DEF PathOf
<1>2. request' = request /\ Subject(request[c.req]) \in Path
  BY <1>1 DEF httpVars, Subject
<1>3. Store!At(Subject(request[c.req]))' = Visible(tree', Subject(request[c.req]))
  BY <1>2, KeyPaths, Names DEF Store!At, Visible, IInv, BucketsAreDirectories
<1> QED
  BY <1>2, <1>3 DEF Store!Find, Record, Store!Subject, Subject, Store!At

\* A call that leaves the tree alone only looks.
LEMMA OnlyLooks ==
  ASSUME IInv, FInv, IInv', NEW c \in calls, Record(c), UNCHANGED <<httpVars, tree>>,
         c.fn = "unlink" => tree[c.path] # None,
         c.fn = "ln" => ~(Writable(c.path) /\ tree[c.arg] \in Content)
  PROVE  Store!Look(c.req)
<1>1. Asked(c.req) /\ c.req \in Req /\ c.path \in Path
      /\ (c.fn \in Effects => c.req \notin done)
  BY CallFacts DEF FInv, OneEffect
<1>2. c.fn = "put" => tree[c.path] # c.req
  BY <1>1 DEF FInv, OneEffect, Effects
<1>3. done' = done
  BY <1>2 DEF Record
<1>4. Store!Find(c.req)
  BY RecordFinds
<1> QED
  BY <1>1, <1>3, <1>4 DEF Store!Look, httpVars, Visible, Answered, Reply, Asked

----------------------------------------------------------------------------
(* The effects on objects. *)

\* The effect is the first of its request, and without failures comes before
\* its answer.
LEMMA OnceOnly ==
  ASSUME IInv, FInv, NEW c \in calls, c.fn \in Effects, done' = done \cup {c.req},
         UNCHANGED httpVars, BucketsShown' = BucketsShown
  PROVE  Store!Once(c.req)
<1>1. c.req \in Req /\ c.req \notin done /\ (Faults \/ ~Answered(c.req))
  BY CallFacts DEF FInv, OneEffect
<1>2. UNCHANGED <<sent, etag, request>>
  BY DEF httpVars
<1> QED
  BY <1>1, <1>2 DEF Store!Once, Store!NoAnswer, BucketsShown, Answered, Reply

LEMMA PutWrites ==
  ASSUME IInv, FInv, IInv', NEW c \in calls, Put(c), Writable(c.path), Record(c), UNCHANGED httpVars
  PROVE  Store!Write(c.req)
<1> DEFINE k == c.path
<1>1. /\ c.fn = "put" /\ OpOf(c) = "addObject" /\ k = PathOf(c) /\ k \in Keys
      /\ c.req \in Req /\ k \in Path /\ tree \in [Path -> Entry]
  BY CallFacts DEF Put, Intended, KeyOps, IInv, TypeOK
<1>2. tree' = [tree EXCEPT ![k] = c.req]
  BY DEF Put
<1>3. /\ ObjectsShown' = [ObjectsShown EXCEPT ![k] = c.req]
      /\ BucketsShown' = BucketsShown
  BY <1>1, <1>2, KeyChanges DEF Content
<1>4. done' = done \cup {c.req}
  BY <1>1, <1>2 DEF Record
<1>5. Store!Once(c.req) /\ Store!Find(c.req)
  BY <1>1, <1>3, <1>4, OnceOnly, RecordFinds DEF Effects
<1>6. Store!Target(c.req) = BucketOf(k)
  BY <1>1 DEF Store!Target, InBucket, PathOf
<1>7. BucketOf(k) \in BucketsShown
  BY <1>1, WritableBucket, BucketAbove DEF BucketsShown
<1>8. ObjectsShown' = [ObjectsShown EXCEPT ![request[c.req].path] = c.req]
  BY <1>1, <1>3 DEF PathOf
<1> QED
  BY <1>1, <1>5, <1>6, <1>7, <1>8
     DEF Store!Write, Store!Op, OpOf, ObjectsShown, BucketsShown

LEMMA LnCopies ==
  ASSUME IInv, FInv, IInv', NEW c \in calls, Ln(c), Writable(c.path), tree[c.arg] \in Content,
         Record(c), UNCHANGED httpVars
  PROVE  Store!Copy(c.req)
<1> DEFINE k == c.path
<1>1. /\ c.fn = "ln" /\ OpOf(c) = "copyObject" /\ k = PathOf(c) /\ k \in Keys
      /\ c.arg = request[c.req].src /\ c.arg \in Path
      /\ c.req \in Req /\ k \in Path /\ tree \in [Path -> Entry]
  BY CallFacts DEF Ln, Intended, KeyOps, IInv, TypeOK
<1>2. tree' = [tree EXCEPT ![k] = tree[c.arg]]
  BY DEF Ln
<1>3. /\ ObjectsShown' = [ObjectsShown EXCEPT ![k] = tree[c.arg]]
      /\ BucketsShown' = BucketsShown
  BY <1>1, <1>2, KeyChanges
<1>4. done' = done \cup {c.req}
  BY <1>1 DEF Record
<1>5. Store!Once(c.req) /\ Store!Find(c.req)
  BY <1>1, <1>3, <1>4, OnceOnly, RecordFinds DEF Effects
<1>6. Store!Target(c.req) = BucketOf(k)
  BY <1>1 DEF Store!Target, InBucket, PathOf
<1>7. BucketOf(k) \in BucketsShown
  BY <1>1, WritableBucket, BucketAbove DEF BucketsShown
<1>8. c.arg \in Keys
  BY <1>1, KeyPaths, Names DEF IInv, BucketsAreDirectories
<1>9. ObjectsShown[c.arg] = tree[c.arg] /\ tree[c.arg] # None
  BY <1>8, Names DEF ObjectsShown, Visible
<1>10. ObjectsShown' = [ObjectsShown EXCEPT ![request[c.req].path]
                                              = ObjectsShown[request[c.req].src]]
       /\ ObjectsShown[request[c.req].src] # None
  BY <1>1, <1>3, <1>9 DEF PathOf
<1> QED
  BY <1>1, <1>5, <1>6, <1>7, <1>10
     DEF Store!Copy, Store!Op, OpOf, ObjectsShown, BucketsShown

\* An unlink erases the object, if only a directory or nothing was there.
LEMMA UnlinkErases ==
  ASSUME IInv, FInv, IInv', NEW c \in calls, c.fn = "unlink", Record(c), UNCHANGED httpVars,
         tree' = [tree EXCEPT ![c.path] = None]
  PROVE  Store!Erase(c.req)
<1> DEFINE k == c.path
<1>1. /\ OpOf(c) = "deleteObject" /\ k = PathOf(c) /\ k \in Keys
      /\ c.req \in Req /\ k \in Path /\ tree \in [Path -> Entry]
  BY CallFacts DEF Intended, KeyOps, IInv, TypeOK
<1>2. /\ ObjectsShown' = [ObjectsShown EXCEPT ![k] = None]
      /\ BucketsShown' = BucketsShown
  BY <1>1, KeyChanges
<1>3. done' = done \cup {c.req}
  BY <1>1 DEF Record
<1>4. Store!Once(c.req) /\ Store!Find(c.req)
  BY <1>1, <1>2, <1>3, OnceOnly, RecordFinds DEF Effects
<1>5. ObjectsShown' = [ObjectsShown EXCEPT ![request[c.req].path] = None]
  BY <1>1, <1>2 DEF PathOf
<1> QED
  BY <1>1, <1>4, <1>5 DEF Store!Erase, Store!Op, OpOf, ObjectsShown

----------------------------------------------------------------------------
(* The effects on buckets. *)

\* The directories a mkdirp makes have one bucket among them, its target.
LEMMA MkdirpTarget ==
  ASSUME IInv, FInv, NEW c \in calls, c.fn = "mkdirp"
  PROVE  /\ OpOf(c) \in {"addBucket", "addObject", "createDirectory", "copyObject"}
         /\ Above[c.path] \cap Buckets = {Store!Target(c.req)}
<1>1. \/ OpOf(c) \in {"addBucket", "createDirectory"} /\ c.path = PathOf(c)
      \/ OpOf(c) \in {"addObject", "copyObject"} /\ c.path = Dirname[PathOf(c)]
  BY CallFacts DEF Intended
<1>2. CASE OpOf(c) = "addBucket"
  <2>1. c.path \in Buckets /\ c.path = PathOf(c)
    BY <1>1, <1>2, CallFacts DEF BucketOps
  <2>2. Above[c.path] \cap Buckets = {c.path}
    BY <2>1, AboveBucket, KeyPaths
  <2>3. Store!Target(c.req) = c.path
    BY <2>1, KeyPaths DEF Store!Target, PathOf
  <2> QED
    BY <1>2, <2>2, <2>3
<1>3. CASE OpOf(c) \in {"addObject", "createDirectory", "copyObject"}
  <2> DEFINE k == PathOf(c)
  <2>1. k \in Keys /\ k \in Path \ {Base}
    BY <1>3, CallFacts, KeyPaths DEF KeyOps
  <2>2. Store!Target(c.req) = BucketOf(k)
    BY <2>1 DEF Store!Target, InBucket, PathOf
  <2>3. Above[k] \cap Buckets = {BucketOf(k)}
    BY <2>1, BucketAbove
  <2>4. Above[Dirname[k]] \cap Buckets = {BucketOf(k)}
    BY <2>1, <2>3, BucketAbove, HierarchyAssumption
  <2> QED
    BY <1>1, <1>3, <2>2, <2>3, <2>4
<1> QED
  BY <1>1, <1>2, <1>3

\* Directories made down to some path, where no object is in the way.
LEMMA DirectoriesShown ==
  ASSUME IInv, NEW last \in Path, \A p \in Above[last] : tree[p] \notin Content,
         tree' = [p \in Path |-> IF p \in Above[last] THEN Dir ELSE tree[p]]
  PROVE  /\ ObjectsShown' = ObjectsShown
         /\ BucketsShown' = BucketsShown \cup (Above[last] \cap Buckets)
<1>1. \A k \in Keys : Visible(tree, k)' = Visible(tree, k)
  BY KeyPaths, Names DEF Visible
<1>2. \A b \in Buckets : tree'[b] = Dir <=> tree[b] = Dir \/ b \in Above[last]
  BY KeyPaths
<1> QED
  BY <1>1, <1>2 DEF ObjectsShown, BucketsShown

LEMMA MkdirpOpens ==
  ASSUME IInv, FInv, IInv', NEW c \in calls, Mkdirp(c), Record(c), UNCHANGED httpVars
  PROVE  Store!Open(c.req) \/ Store!Look(c.req)
<1>1. c.fn = "mkdirp" /\ c.path \in Path
  BY CallFacts DEF Mkdirp
<1>2. CASE UNCHANGED tree
  BY <1>1, <1>2, OnlyLooks
<1>3. CASE /\ \A p \in Above[c.path] : tree[p] \notin Content
           /\ tree' = [p \in Path |-> IF p \in Above[c.path] THEN Dir ELSE tree[p]]
  <2>1. ObjectsShown' = ObjectsShown
        /\ BucketsShown' = BucketsShown \cup {Store!Target(c.req)}
    BY <1>1, <1>3, DirectoriesShown, MkdirpTarget
  <2>2. done' = done
    BY <1>1 DEF Record
  <2>3. Store!Find(c.req)
    BY RecordFinds
  <2>4. UNCHANGED <<request, sent, etag>>
    BY DEF httpVars
  <2>5. Told' = Told
    BY <2>4 DEF Told, Answered, Reply
  <2> QED
    BY <1>1, <2>1, <2>2, <2>3, <2>4, <2>5, MkdirpTarget
       DEF Store!Open, Store!Op, OpOf, ObjectsShown, BucketsShown, Told
<1> QED
  BY <1>2, <1>3 DEF Mkdirp

\* A mkdirp that stops on the way opens its bucket, or has only made the base.
LEMMA PartialOpens ==
  ASSUME IInv, FInv, NEW c \in calls, MkdirpPartial(c), UNCHANGED <<httpVars, history>>
  PROVE  Store!Open(c.req) \/ UNCHANGED Store!storeVars
<1>1. c.fn = "mkdirp" /\ c.path \in Path
  BY CallFacts DEF MkdirpPartial
<1>2. PICK last \in Above[c.path] :
         tree' = [p \in Path |-> IF p \in Above[last] THEN Dir ELSE tree[p]]
  BY DEF MkdirpPartial
<1>3. last \in Path /\ Above[last] \subseteq Above[c.path]
  BY <1>1, AboveType, HierarchyAssumption
<1>4. \A p \in Above[last] : tree[p] \notin Content
  BY <1>3 DEF MkdirpPartial
<1>5. ObjectsShown' = ObjectsShown
      /\ BucketsShown' = BucketsShown \cup (Above[last] \cap Buckets)
  BY <1>2, <1>3, <1>4, DirectoriesShown
<1>6. UNCHANGED <<request, sent, etag, done, saw>> /\ Told' = Told
  BY DEF httpVars, history, Told, Answered, Reply
<1>7. CASE Above[last] \cap Buckets = {}
  BY <1>5, <1>6, <1>7 DEF Store!storeVars, ObjectsShown, BucketsShown, Told
<1>8. CASE Above[last] \cap Buckets # {}
  <2>1. Above[last] \cap Buckets = {Store!Target(c.req)}
    BY <1>1, <1>3, <1>8, MkdirpTarget
  <2>2. BucketsShown' = BucketsShown \cup {Store!Target(c.req)}
    BY <1>5, <2>1
  <2> QED
    BY <1>1, <1>5, <1>6, <2>2, MkdirpTarget
       DEF Store!Open, Store!Op, OpOf, ObjectsShown, BucketsShown, Told
<1> QED
  BY <1>7, <1>8

\* rmr takes entries of its bucket, one at a time.
LEMMA LeafClears ==
  ASSUME IInv, FInv, IInv', NEW c \in calls, RmrLeaf(c), Record(c), UNCHANGED httpVars
  PROVE  Store!Clear(c.req)
<1>1. /\ c.fn = "rmr" /\ OpOf(c) = "removeBucket" /\ c.path = PathOf(c)
      /\ c.path \in Buckets /\ tree \in [Path -> Entry]
  BY CallFacts DEF RmrLeaf, Intended, BucketOps, IInv, TypeOK
<1>2. PICK k \in Path : /\ c.path \in Above[k] /\ k # c.path
                        /\ tree' = [tree EXCEPT ![k] = None]
  BY DEF RmrLeaf, Stored, Below
<1>3. k \in Keys
  BY <1>1, <1>2, KeyPaths, AboveBucket, HierarchyAssumption
<1>4. Store!Target(c.req) = c.path /\ InBucket[k] = c.path
  BY <1>1, <1>2, <1>3, KeyPaths, BucketAbove DEF Store!Target, InBucket, PathOf
<1>5. ObjectsShown' = [ObjectsShown EXCEPT ![k] = None] /\ BucketsShown' = BucketsShown
  BY <1>1, <1>2, <1>3, KeyChanges
<1>6. done' = done /\ Store!Find(c.req) /\ request' = request
  BY <1>1, RecordFinds DEF Record, httpVars
<1>7. Told' = Told
  BY DEF Told, Answered, Reply, httpVars
<1> QED
  BY <1>1, <1>3, <1>4, <1>5, <1>6, <1>7
     DEF Store!Clear, Store!Op, OpOf, ObjectsShown, BucketsShown, Told

\* The bucket's own directory goes when nothing is left below it.
LEMMA TopDrops ==
  ASSUME IInv, FInv, IInv', NEW c \in calls, c.fn = "rmr", Children(c.path) = {}, Record(c),
         UNCHANGED httpVars, tree' = [tree EXCEPT ![c.path] = None]
  PROVE  Store!Drop(c.req)
<1> DEFINE b == c.path
<1>1. /\ OpOf(c) = "removeBucket" /\ b = PathOf(c) /\ b \in Buckets /\ b \in Path
      /\ tree \in [Path -> Entry]
  BY CallFacts, KeyPaths DEF Intended, BucketOps, IInv, TypeOK
<1>2. Store!Target(c.req) = b
  BY <1>1, KeyPaths DEF Store!Target, PathOf
<1>3. \A k \in Keys : InBucket[k] = b => tree[k] = None
  <2> SUFFICES ASSUME NEW k \in Keys, BucketOf(k) = b PROVE tree[k] = None
    BY DEF InBucket
  <2>1. k \in Path /\ b \in Above[k] /\ k # b
    BY KeyPaths, BucketAbove
  <2> QED
    BY <1>1, <2>1, EmptyBelow DEF IInv
<1>4. \A k \in Keys : InBucket[k] = b => ObjectsShown[k] = None
  BY <1>3, Names DEF ObjectsShown, Visible
<1>5. ObjectsShown' = ObjectsShown /\ BucketsShown' = BucketsShown \ {b}
  <2>1. /\ \A k \in Keys : tree'[k] = tree[k]
        /\ \A e \in Buckets : tree'[e] = IF e = b THEN None ELSE tree[e]
    BY <1>1, KeyPaths
  <2> QED
    BY <2>1, KeyPaths, Names DEF ObjectsShown, BucketsShown, Visible
<1>6. done' = done /\ Store!Find(c.req) /\ request' = request
  BY <1>1, RecordFinds DEF Record, httpVars
<1>7. Told' = Told
  BY DEF Told, Answered, Reply, httpVars
<1> QED
  BY <1>1, <1>2, <1>4, <1>5, <1>6, <1>7
     DEF Store!Drop, Store!Op, OpOf, ObjectsShown, BucketsShown, Told

\* Whatever Manta does with a call is an effect, a look, or nothing.
StoreStep == Store!Next \/ UNCHANGED Store!storeVars

LEMMA StepOf ==
  ASSUME NEW r \in Req,
         \/ Store!Ask(r) \/ Store!Say(r) \/ Store!Write(r) \/ Store!Copy(r) \/ Store!Erase(r)
         \/ Store!Look(r) \/ Store!Open(r) \/ Store!Clear(r) \/ Store!Drop(r)
  PROVE  StoreStep
BY DEF StoreStep, Store!Next

LEMMA ExecuteMaps ==
  ASSUME IInv, FInv, IInv', NEW c \in calls, Execute(c), Record(c), UNCHANGED httpVars
  PROVE  StoreStep
<1>1. c.req \in Req /\ tree \in [Path -> Entry] /\ c.path \in Path
  BY CallFacts DEF IInv, TypeOK
<1>2. CASE Info(c) \/ Get(c) \/ Body(c) \/ Ls(c) \/ Events(c) \/ Listing(c)
  <2>1. UNCHANGED tree /\ c.fn \notin {"unlink", "ln"}
    BY <1>2 DEF Info, Get, Body, Ls, Events, Listing
  <2> QED
    BY <1>1, <2>1, OnlyLooks, StepOf
<1>3. CASE Mkdirp(c)
  BY <1>1, <1>3, MkdirpOpens, StepOf
<1>4. CASE Put(c)
  <2>1. CASE Writable(c.path)
    BY <1>1, <1>4, <2>1, PutWrites, StepOf
  <2>2. CASE ~Writable(c.path)
    <3>1. UNCHANGED tree /\ c.fn = "put"
      BY <1>4, <2>2 DEF Put
    <3> QED
      BY <1>1, <3>1, OnlyLooks, StepOf
  <2> QED
    BY <2>1, <2>2
<1>5. CASE Ln(c)
  <2>1. CASE Writable(c.path) /\ tree[c.arg] \in Content
    BY <1>1, <1>5, <2>1, LnCopies, StepOf
  <2>2. CASE ~(Writable(c.path) /\ tree[c.arg] \in Content)
    <3>1. UNCHANGED tree /\ c.fn = "ln"
      BY <1>5, <2>2 DEF Ln
    <3> QED
      BY <1>1, <2>2, <3>1, OnlyLooks, StepOf
  <2> QED
    BY <2>1, <2>2
<1>6. Children(c.path) # {} => tree[c.path] # None
  <2> SUFFICES ASSUME NEW q \in Path \ {Base}, Dirname[q] = c.path, tree[q] # None
               PROVE  tree[c.path] # None
    BY DEF Children
  <2>1. c.path \in Above[q] /\ c.path # q
    BY AboveType, HierarchyAssumption
  <2> QED
    BY <2>1, Names DEF IInv, Consistent
<1>7. CASE Unlink(c)
  <2>1. c.fn = "unlink"
    BY <1>7 DEF Unlink
  <2>2. CASE tree[c.path] = None /\ UNCHANGED tree
    <3>1. tree' = [tree EXCEPT ![c.path] = None]
      BY <1>1, <2>2
    <3> QED
      BY <1>1, <2>1, <3>1, UnlinkErases, StepOf
  <2>3. CASE Children(c.path) # {} /\ UNCHANGED tree
    BY <1>1, <1>6, <2>1, <2>3, OnlyLooks, StepOf
  <2>4. CASE tree' = [tree EXCEPT ![c.path] = None]
    BY <1>1, <2>1, <2>4, UnlinkErases, StepOf
  <2> QED
    BY <1>7, <2>2, <2>3, <2>4 DEF Unlink, RemoveEntry
<1>8. CASE RmrLeaf(c)
  BY <1>1, <1>8, LeafClears, StepOf
<1>9. CASE RmrTop(c)
  <2>1. c.fn = "rmr"
    BY <1>9 DEF RmrTop
  <2>2. CASE UNCHANGED tree
    BY <1>1, <2>1, <2>2, OnlyLooks, StepOf
  <2>3. CASE Children(c.path) = {} /\ tree' = [tree EXCEPT ![c.path] = None]
    BY <1>1, <2>1, <2>3, TopDrops, StepOf
  <2> QED
    BY <1>9, <2>2, <2>3 DEF RmrTop, RemoveEntry
<1> QED
  BY <1>2, <1>3, <1>4, <1>5, <1>7, <1>8, <1>9 DEF Execute

LEMMA ServeMaps ==
  ASSUME IInv, FInv, IInv', NEW r \in Req, Serve(r)
  PROVE  StoreStep
<1>1. PICK c \in calls : /\ c.req = r
                         /\ \/ Execute(c) /\ Record(c)
                            \/ Refuse(c) /\ UNCHANGED history
                            \/ MkdirpPartial(c) /\ UNCHANGED history
                         /\ UNCHANGED httpVars
  BY DEF Serve
<1>2. CASE Execute(c) /\ Record(c)
  BY <1>1, <1>2, ExecuteMaps
<1>3. CASE Refuse(c) /\ UNCHANGED history
  BY <1>1, <1>3, SameStore DEF Refuse, httpVars, StoreStep
<1>4. CASE MkdirpPartial(c) /\ UNCHANGED history
  BY <1>1, <1>4, PartialOpens, StepOf DEF StoreStep
<1> QED
  BY <1>1, <1>2, <1>3, <1>4

----------------------------------------------------------------------------
(* The steps of the handlers: the first answer of a request is what the    *)
(* store says, later ones nobody hears.                                    *)

\* Of the first answer.
LEMMA FirstAnswer ==
  ASSUME IInv, FInv, IInv', NEW r \in Req, NEW gone, NEW issued, Moves(r, gone, issued),
         ~Answered(r), Answered(r)'
  PROVE  /\ Told[r] = Store!NoAnswer
         /\ Told' = [Told EXCEPT ![r] = [code |-> Reply(r)', etag |-> etag'[r]]]
         /\ Reply(r)' \in Code /\ etag'[r] \in Req \cup {Old, None}
         /\ Store!Truthful(r, request'[r], Reply(r)', etag'[r], saw[r])
<1>1. /\ \A s \in Req \ {r} : sent'[s] = sent[s] /\ etag'[s] = etag[s]
      /\ AnswersTruly(r)' /\ UNCHANGED <<done, saw>>
  BY DEF Moves, AnswersOf, history
<1>2. sent'[r] \in Seq(Code) /\ sent'[r] # <<>> /\ etag'[r] \in Content \cup {None}
  BY DEF IInv, TypeOK, Answered
<1>3. Reply(r)' \in Code
  BY <1>2 DEF Reply
<1>4. Told' = [Told EXCEPT ![r] = [code |-> Reply(r)', etag |-> etag'[r]]]
  <2>1. \A s \in Req \ {r} : Told'[s] = Told[s]
    BY <1>1 DEF Told, Answered, Reply
  <2>2. Told'[r] = [code |-> Reply(r)', etag |-> etag'[r]]
    BY DEF Told
  <2> QED
    BY <2>1, <2>2 DEF Told
<1>5. Told[r] = Store!NoAnswer
  BY DEF Told, Store!NoAnswer
<1>6. Store!Truthful(r, request'[r], Reply(r)', etag'[r], saw[r])
  BY <1>1 DEF AnswersTruly, Store!Truthful
<1> QED
  BY <1>2, <1>3, <1>4, <1>5, <1>6 DEF Content

LEMMA NoFirstAnswer ==
  ASSUME NEW r \in Req, NEW gone, NEW issued, Moves(r, gone, issued),
         Answered(r) \/ ~Answered(r)'
  PROVE  Told' = Told
<1>1. \A s \in Req \ {r} : sent'[s] = sent[s] /\ etag'[s] = etag[s]
  BY DEF Moves, AnswersOf
<1>2. Answered(r) <=> Answered(r)'
  BY DEF Moves, AnswersOf
<1>3. Answered(r) => Reply(r)' = Reply(r) /\ etag'[r] = etag[r]
  BY DEF Moves, AnswersOf
<1>4. \A s \in Req : Told'[s] = Told[s]
  BY <1>1, <1>2, <1>3 DEF Told, Answered, Reply
<1> QED
  BY <1>4 DEF Told

LEMMA CallbackMaps ==
  ASSUME IInv, FInv, IInv', NEW p \in replies, Moved(p)
  PROVE  StoreStep
<1>1. PICK issued : Moves(p.req, {p}, issued)
  BY DEF Moved
<1> DEFINE r == p.req
<1>2. r \in Req /\ Asked(r)
  BY ResultFacts
<1>3. request' = request
  BY <1>1, <1>2 DEF Moves, IInv, TypeOK
<1>4. UNCHANGED <<tree, done, saw>>
  BY <1>1 DEF Moves, history
<1>5. CASE Answered(r) \/ ~Answered(r)'
  <2>1. Told' = Told
    BY <1>1, <1>2, <1>5, NoFirstAnswer
  <2> QED
    BY <1>3, <1>4, <2>1 DEF StoreStep, Store!storeVars, Told, Visible
<1>6. CASE ~Answered(r) /\ Answered(r)'
  <2>1. /\ Told[r] = Store!NoAnswer
        /\ Told' = [Told EXCEPT ![r] = [code |-> Reply(r)', etag |-> etag'[r]]]
        /\ Reply(r)' \in Code /\ etag'[r] \in Req \cup {Old, None}
        /\ Store!Truthful(r, request[r], Reply(r)', etag'[r], saw[r])
    BY <1>1, <1>2, <1>3, <1>6, FirstAnswer
  <2>2. \E code \in Code, content \in Req \cup {Old, None} :
           /\ Told' = [Told EXCEPT ![r] = [code |-> code, etag |-> content]]
           /\ Store!Truthful(r, request[r], code, content, saw[r])
    BY <2>1
  <2>3. Store!Say(r)
    BY <1>2, <1>3, <1>4, <2>1, <2>2 DEF Store!Say, Asked, Told, Visible
  <2> QED
    BY <1>2, <2>3, StepOf
<1> QED
  BY <1>5, <1>6

\* A handler that answers at its entry reports success or an internal error.
LEMMA EntryAnswers ==
  ASSUME IInv, NEW r \in Req, NEW q \in Menu, Arrive(r, q), Answered(r)'
  PROVE  Reply(r)' \in {"OK", "InternalError"} /\ etag' = etag
<1>1. etag' = etag /\ (Quiet \/ NextOk(r) \/ SendNext(r, "OK") \/ Throw(r))
  BY DEF Arrive, BucketsEnter, ObjectsEnter, ListBuckets, BucketExists, AddBucket, RemoveBucket,
         AddObject, CreateDirectory, GetObject, DeleteObject, ListObjects, ListMultipartUploads,
         GetAcl, PutAcl, CopyObject, Enter
<1>2. ~Answered(r) /\ sent[r] = <<>> /\ sent \in [Req -> Seq(Code)]
  BY DEF Arrive, IInv, TypeOK, UnansweredInTurn, Answered
<1>3. \A code : Append(sent[r], code)[1] = code
  BY <1>2
<1> QED
  BY <1>1, <1>2, <1>3 DEF Quiet, NextOk, SendNext, Throw, Answered, Reply

LEMMA ArriveMaps ==
  ASSUME IInv, FInv, IInv', NEW r \in Req, NEW q \in Menu, Arrive(r, q)
  PROVE  StoreStep
<1>1. PICK issued : Moves(r, {}, issued)
  BY ArriveMoves
<1>2. /\ ~Asked(r) /\ request' = [request EXCEPT ![r] = q] /\ request'[r] = q
      /\ etag[r] = None /\ saw[r] = {}
  BY DEF Arrive, IInv, TypeOK, FInv, UnknownBefore
<1>3. UNCHANGED <<tree, done, saw>>
  BY <1>1 DEF Moves, history
<1>4. CASE Answered(r) \/ ~Answered(r)'
  <2>1. Told' = Told
    BY <1>1, <1>4, NoFirstAnswer
  <2>2. Store!Ask(r)
    BY <1>2, <1>3, <2>1 DEF Store!Ask, Asked, Told, Visible
  <2> QED
    BY <2>2, StepOf
<1>5. CASE ~Answered(r) /\ Answered(r)'
  <2>1. /\ Told' = [Told EXCEPT ![r] = [code |-> Reply(r)', etag |-> None]]
        /\ Store!Truthful(r, q, Reply(r)', None, {})
        /\ Reply(r)' \in {"OK", "InternalError"}
    BY <1>1, <1>2, <1>5, FirstAnswer, EntryAnswers
  <2>2. \E code \in {"OK", "InternalError"} :
           /\ Store!Truthful(r, q, code, None, {})
           /\ Told' = [Told EXCEPT ![r] = [code |-> code, etag |-> None]]
    BY <2>1
  <2>3. Store!Ask(r)
    BY <1>2, <1>3, <2>2 DEF Store!Ask, Asked, Told, Visible
  <2> QED
    BY <2>3, StepOf
<1> QED
  BY <1>4, <1>5

----------------------------------------------------------------------------
(* The refinement. *)

LEMMA InitMaps == Init => Store!Init
<1> SUFFICES ASSUME Init PROVE Store!Init
  OBVIOUS
<1>1. \A k \in Keys : Visible(tree, k) \in {None, Old}
  BY KeyPaths, Names DEF Init, Visible
<1>2. ASSUME NEW k \in Keys, Visible(tree, k) # None PROVE InBucket[k] \in BucketsShown
  <2>1. tree[k] # None
    BY <1>2, KeyPaths, Names DEF Visible
  <2>2. tree[BucketOf(k)] = Dir
    BY <2>1, KeyPaths, BucketAbove DEF Init, Consistent
  <2> QED
    BY <2>2, BucketAbove DEF InBucket, BucketsShown
<1>3. Told = [r \in Req |-> Store!NoAnswer]
  BY DEF Init, Told, Store!NoAnswer, Answered
<1> QED
  BY <1>1, <1>2, <1>3 DEF Init, Store!Init, BucketsShown, Told

LEMMA NextMaps == IInv /\ IInv' /\ FInv /\ [Next]_vars => [Store!Next]_(Store!storeVars)
<1> SUFFICES ASSUME IInv, IInv', FInv, [Next]_vars PROVE StoreStep
  BY DEF StoreStep
<1>1. ASSUME NEW r \in Req, NEW q \in Menu, Arrive(r, q) PROVE StoreStep
  BY <1>1, ArriveMaps
<1>2. ASSUME NEW r \in Req, Serve(r) PROVE StoreStep
  BY <1>2, ServeMaps
<1>3. ASSUME NEW r \in Req, RunCallback(r) PROVE StoreStep
  <2>1. PICK p \in replies : (BucketsCallback(p) \/ ObjectsCallback(p)) /\ UNCHANGED history
    BY <1>3 DEF RunCallback
  <2>2. Moved(p)
    BY <2>1, BucketsMove, ObjectsMove
  <2> QED
    BY <2>1, <2>2, CallbackMaps
<1>4. ASSUME NEW r \in Req, LoseConnection(r) PROVE StoreStep
  BY <1>4, SameStore DEF LoseConnection, HangUp, BreakOff, httpVars, StoreStep
<1>5. ASSUME NEW R \in SUBSET Req, ProcessExits(R) PROVE StoreStep
  BY <1>5, SameStore DEF ProcessExits, Orphan, StoreStep
<1>6. ASSUME Idle \/ UNCHANGED vars PROVE StoreStep
  BY <1>6, SameStore DEF Idle, vars, mantaVars, httpVars, StoreStep
<1> QED
  BY <1>1, <1>2, <1>3, <1>4, <1>5, <1>6 DEF Next

\* Whatever the bridge makes of Manta's directories, calls and callbacks, with
\* any requests at the same time, lost connections and exiting processes, is
\* what the flat store of objects could have done: every effect on an object
\* takes place at one instant, at most once, and every answer is true of what
\* was there at an instant between the request and the answer.
THEOREM BridgeImplementsStore == Spec => ImplementsStore
<1>1. Init => Store!Init
  BY InitMaps
<1>2. IInv /\ IInv' /\ FInv /\ [Next]_vars => [Store!Next]_(Store!storeVars)
  BY NextMaps
<1> QED
  BY <1>1, <1>2, Inductive, FactsInductive, PTL DEF Spec, ImplementsStore, Store!Spec
============================================================================
