---------------------------- MODULE FactsProofs ----------------------------
(***************************************************************************)
(* Proofs that the second layer FInv of the invariant of Bridge, on top of *)
(* IInv, is kept by every step, and of the properties that follow from it. *)
(***************************************************************************)
EXTENDS BridgeFacts, BridgeProofs

LEMMA CallFacts ==
  ASSUME IInv, FInv, NEW c \in calls
  PROVE  /\ c \in CallType /\ c.req \in Req /\ c.path \in Path /\ Asked(c.req)
         /\ tree[c.path] \in Entry
         /\ OfHandler(c) /\ OfOperation(c) /\ Intended(c) /\ Awaited(c) /\ Carries(c)
         /\ c.fn = "events" <=> c.cb = "isEmpty"
         /\ c.cb = "objectPut" => c.fn = "put"
         /\ request[c.req] \in Menu
         /\ PathOf(c) \in Path /\ request[c.req].src \in Path
         /\ OpOf(c) \in BucketOps => PathOf(c) \in Buckets
         /\ OpOf(c) \in KeyOps => PathOf(c) \in Keys
<1>1. c \in CallType /\ OfHandler(c) /\ tree \in [Path -> Entry]
  BY DEF IInv, TypeOK, HandlersOfItems
<1>2. c.req \in Req /\ c.path \in Path /\ Asked(c.req)
  BY <1>1 DEF CallType, OfHandler
<1>3. request[c.req] \in Menu
  BY <1>2 DEF IInv, TypeOK, Asked
<1>4. OfOperation(c) /\ Intended(c) /\ Awaited(c) /\ Carries(c)
  BY DEF FInv, CallsAsMade, ResultsTell
<1>5. /\ c.fn = "events" <=> c.cb = "isEmpty"
      /\ c.cb = "objectPut" => c.fn = "put"
  BY DEF IInv, OfCall
<1> QED
  BY <1>1, <1>2, <1>3, <1>4, <1>5, MenuType, MenuAssumption DEF OpOf, PathOf

\* The bucket above a key, which is unique, holds the key.
LEMMA BucketAbove ==
  ASSUME NEW k \in Keys
  PROVE  /\ BucketOf(k) \in Buckets /\ BucketOf(k) \in Path
         /\ BucketOf(k) \in Above[k] \ {k}
         /\ \A b \in Buckets : b \in Above[k] => b = BucketOf(k)
<1>1. k \in Path /\ k # Base /\ k \notin Buckets
  BY DEF Keys
<1>2. Base \in Above[k]
  BY <1>1, HierarchyAssumption
<1>3. PICK b \in Above[k] : b # Base /\ Dirname[b] = Base
  BY <1>1, <1>2, HierarchyAssumption
<1>4. b \in Buckets
  BY <1>1, <1>3, AboveType DEF Buckets
<1>5. BucketOf(k) \in Above[k] /\ BucketOf(k) \in Buckets
  BY <1>3, <1>4 DEF BucketOf
<1>6. \A e \in Buckets : Above[e] = {e, Base}
  BY HierarchyAssumption DEF Buckets
<1>7. ASSUME NEW e \in Buckets, e \in Above[k] PROVE e = BucketOf(k)
  <2>1. e \in Above[BucketOf(k)] \/ BucketOf(k) \in Above[e]
    BY <1>1, <1>5, <1>7, HierarchyAssumption
  <2>2. e # Base /\ BucketOf(k) # Base
    BY <1>5 DEF Buckets
  <2> QED
    BY <1>5, <1>6, <2>1, <2>2
<1> QED
  BY <1>1, <1>5, <1>7 DEF Buckets

LEMMA AboveBucket == \A b \in Buckets : b \in Path \ {Base} /\ Above[b] = {b, Base}
BY HierarchyAssumption DEF Buckets

----------------------------------------------------------------------------
(* What Manta's answer makes of the pending calls and results. *)

\* What the execution of a call notes only grows, and for its request alone.
LEMMA RecordGrows ==
  ASSUME TypeOK, NEW c \in calls, UNCHANGED history \/ Record(c)
  PROVE  /\ \A r \in Req : saw[r] \subseteq saw'[r]
         /\ \A r \in Req \ {c.req} : saw'[r] = saw[r] /\ seen'[r] = seen[r]
         /\ done \subseteq done'
         /\ \A r \in done' \ done : r = c.req /\ c.fn \in Effects
         /\ c.fn # "events" => seen' = seen
BY DEF TypeOK, CallType, history, Record, Effects

\* Call c is answered, or its connection is lost, with result p.
Answering(c, p) ==
    /\ c \in calls
    /\ p = [req |-> c.req, cb |-> c.cb, res |-> p.res, val |-> p.val, arg |-> c.arg]
    /\ \/ calls' = calls \ {c}
       \/ /\ c.cb # Nobody /\ Faults /\ c.fn \in Changing
          /\ calls' = (calls \ {c}) \cup {Orphaned(c)} /\ UNCHANGED history
    /\ IF c.cb = Nobody THEN replies' = replies
       ELSE replies' = replies \cup {p} /\ Tells(p)'
    /\ UNCHANGED history \/ Record(c)
    /\ UNCHANGED httpVars
    /\ \A q \in Path : tree'[q] \in Req => tree'[q] \in done'

\* Of the history a pending result or closure speaks of nothing is lost.
LEMMA AnsweringKeepsHistory ==
  ASSUME IInv, FInv, NEW c, NEW p, Answering(c, p)
  PROVE  /\ \A r \in Req : saw[r] \subseteq saw'[r]
         /\ done \subseteq done'
         /\ \A r \in done' \ done : r = c.req /\ c.fn \in Effects /\ calls' = calls \ {c}
         /\ \A r \in Req : seen'[r] # seen[r] => r = c.req /\ InTurn(c) /\ c.cb = "isEmpty"
         /\ UNCHANGED <<request, sent, passed, etag, dead>>
<1>1. TypeOK /\ c \in calls /\ (UNCHANGED history \/ Record(c))
  BY DEF IInv, Answering
<1>2. c.fn = "events" <=> c.cb = "isEmpty"
  BY <1>1, CallFacts
<1>3. c.cb = "isEmpty" => InTurn(c)
  BY DEF InTurn, Beside, Nobody
<1> QED
  BY <1>1, <1>2, <1>3, RecordGrows DEF Answering, history, httpVars

LEMMA AnsweringItems ==
  ASSUME IInv, FInv, NEW c, NEW p, Answering(c, p)
  PROVE  /\ c \in calls
         /\ \A d \in calls' :
               \/ d \in calls /\ d # c
               \/ /\ d = Orphaned(c) /\ d.cb = Nobody /\ d.req = c.req /\ d.fn = c.fn
                  /\ d.path = c.path /\ d.arg = c.arg /\ d.fn # "body"
                  /\ c.cb # Nobody /\ Faults /\ UNCHANGED history
         /\ \A x \in replies' : \/ x \in replies
                                \/ x = p /\ c.cb # Nobody /\ Tells(p)'
         /\ p.req = c.req /\ p.cb = c.cb /\ p.arg = c.arg
         /\ c.cb # Nobody => p \in replies'
         /\ replies \subseteq replies'
         /\ \A d \in calls : d # c => d \in calls'
<1>1. c \in CallType /\ c \in calls
  BY CallFacts DEF Answering
<1>2. LET d == Orphaned(c) IN /\ d.cb = Nobody /\ d.req = c.req /\ d.fn = c.fn
                              /\ d.path = c.path /\ d.arg = c.arg
  BY DEF Orphaned, Call
<1>3. "body" \notin Changing
  BY DEF Changing
<1>4. /\ p.req = c.req /\ p.cb = c.cb /\ p.arg = c.arg
      /\ \/ calls' = calls \ {c}
         \/ /\ c.cb # Nobody /\ Faults /\ c.fn \in Changing /\ UNCHANGED history
            /\ calls' = (calls \ {c}) \cup {Orphaned(c)}
      /\ \/ c.cb = Nobody /\ replies' = replies
         \/ c.cb # Nobody /\ replies' = replies \cup {p} /\ Tells(p)'
  BY DEF Answering
<1> QED
  BY <1>1, <1>2, <1>3, <1>4

LEMMA AnsweringKeepsCalls ==
  ASSUME IInv, FInv, NEW c, NEW p, Answering(c, p)
  PROVE  CallsAsMade'
<1>1. UNCHANGED request
  BY AnsweringKeepsHistory
<1>2. /\ \A d \in calls : (OfOperation(d) /\ Intended(d) /\ Awaited(d))'
      /\ \A x \in replies : OfOperation(x)'
  BY <1>1 DEF FInv, CallsAsMade, OfOperation, Intended, Awaited, OpOf, PathOf
<1>3. c \in calls /\ p.req = c.req /\ p.cb = c.cb
  BY AnsweringItems
<1>4. OfOperation(p)'
  BY <1>2, <1>3 DEF OfOperation, OpOf
<1>5. ASSUME NEW d, d.cb = Nobody, d.req = c.req, d.fn = c.fn, d.path = c.path,
             d.arg = c.arg, d.fn # "body"
      PROVE  (OfOperation(d) /\ Intended(d) /\ Awaited(d))'
  BY <1>2, <1>3, <1>5 DEF OfOperation, Intended, Awaited, OpOf, PathOf, Nobody
<1> QED
  BY <1>2, <1>4, <1>5, AnsweringItems DEF CallsAsMade

\* A closure and an earlier result keep what they say.
LEMMA StillTells ==
  ASSUME IInv, FInv, NEW c, NEW p, Answering(c, p), NEW x \in replies
  PROVE  Carries(x)' /\ Tells(x)'
<1>1. x.req \in Req /\ Carries(x) /\ Tells(x)
  BY DEF IInv, TypeOK, ReplyType, FInv, ResultsTell
<1>2. /\ saw[x.req] \subseteq saw'[x.req] /\ etag' = etag
      /\ x.req \in done => x.req \in done'
  BY <1>1, AnsweringKeepsHistory
<1>3. x.cb \in {"rmdirBuckets", "isEmpty", "objectLinked"} => InTurn(x)
  BY DEF InTurn, Beside, Nobody
<1>4. x.cb \in {"rmdirBuckets", "isEmpty"} => seen'[x.req] = seen[x.req]
  <2>1. InTurn(x) /\ InTurn(c) => c.req # x.req
    BY AnsweringItems DEF IInv, OneTurn
  <2> QED
    BY <1>1, <1>3, <2>1, AnsweringKeepsHistory
<1>5. x.cb = "objectLinked" /\ ~Faults /\ x.req \notin done => x.req \notin done'
  <2>1. SUFFICES ASSUME x.cb = "objectLinked", ~Faults, x.req \in done' \ done PROVE FALSE
    OBVIOUS
  <2>2. c.req = x.req /\ c.fn \in Effects /\ c \in calls
    BY <2>1, AnsweringKeepsHistory, AnsweringItems
  <2>3. ~InTurn(c)
    BY <1>3, <2>1, <2>2 DEF IInv, OneTurn
  <2>4. c.cb = Nobody
    BY <2>2, <2>3, CallFacts DEF Intended, InTurn, Beside, Nobody
  <2> QED
    BY <2>1, <2>2, <2>4 DEF FInv, DeadAreSilent
<1>6. Carries(x)'
  BY <1>1, <1>2, <1>4 DEF Carries, Missing, EtagFound
<1>7. TellsInfo(x)' /\ TellsContent(x)' /\ TellsBucket(x)'
  BY <1>1, <1>2, <1>4 DEF Tells, TellsInfo, TellsContent, TellsBucket, Missing
<1>8. TellsEffect(x)'
  BY <1>1, <1>2, <1>5 DEF Tells, TellsEffect
<1> QED
  BY <1>6, <1>7, <1>8 DEF Tells

LEMMA StillCarries ==
  ASSUME IInv, FInv, IInv', NEW c, NEW p, Answering(c, p), NEW d \in calls
  PROVE  d # c \/ c.cb # Nobody => Carries(d)'
<1>1. /\ d.req \in Req /\ Carries(d)
      /\ d.cb = "rmdirBuckets" => d.fn = "rmr"
  BY CallFacts DEF Awaited
<1>2. saw[d.req] \subseteq saw'[d.req] /\ etag' = etag
  BY <1>1, AnsweringKeepsHistory
<1>3. d.cb = "rmdirBuckets" => seen'[d.req] = seen[d.req]
  <2>1. InTurn(d) /\ InTurn(c) /\ c.req = d.req => c = d
    BY AnsweringItems DEF IInv, OneTurn
  <2>2. d.cb = "rmdirBuckets" => InTurn(d)
    BY DEF InTurn, Beside, Nobody
  <2> QED
    BY <1>1, <2>1, <2>2, AnsweringKeepsHistory
<1> QED
  BY <1>1, <1>2, <1>3 DEF Carries, Missing, EtagFound

LEMMA AnsweringKeepsResults ==
  ASSUME IInv, FInv, IInv', NEW c, NEW p, Answering(c, p)
  PROVE  ResultsTell'
<1>1. \A d \in calls' : Carries(d)'
  <2>1. ASSUME NEW d, d.cb = Nobody PROVE Carries(d)'
    BY <2>1 DEF Carries, Nobody
  <2> QED
    BY <2>1, StillCarries, AnsweringItems
<1>2. ASSUME c.cb # Nobody PROVE Carries(p)'
  <2>1. Carries(c)' /\ p.req = c.req /\ p.cb = c.cb /\ p.arg = c.arg
    BY <1>2, StillCarries, AnsweringItems
  <2> QED
    BY <2>1 DEF Carries, Missing, EtagFound
<1> QED
  BY <1>1, <1>2, StillTells, AnsweringItems DEF ResultsTell

LEMMA AnsweringKeepsEffects ==
  ASSUME IInv, FInv, NEW c, NEW p, Answering(c, p)
  PROVE  OneEffect'
<1> USE DEF FInv, OneEffect
<1>1. c \in calls /\ p.req = c.req /\ p.cb = c.cb
  BY AnsweringItems
<1>2. \A d \in calls' : \E e \in calls : /\ d.fn = e.fn /\ d.req = e.req
                                         /\ d.cb \in {e.cb, Nobody}
                                         /\ d = e \/ e = c
                                         /\ e = c => d = Orphaned(c) /\ UNCHANGED history
  BY <1>1, AnsweringItems
<1>3. \A d, e \in calls' : d.fn \in Effects /\ e.fn \in Effects /\ d.req = e.req => d = e
  BY <1>2
<1>4. ASSUME NEW d \in calls', d.fn \in Effects
      PROVE  d.req \notin done' /\ (Faults \/ ~Answered(d.req)')
  <2>1. PICK e \in calls : /\ d.fn = e.fn /\ d.req = e.req
                           /\ e = c => UNCHANGED history
    BY <1>2
  <2>2. e.req \notin done /\ (Faults \/ ~Answered(e.req))
    BY <1>4, <2>1
  <2>3. d.req \in done' => e = c /\ UNCHANGED history
    BY <1>1, <1>4, <2>1, <2>2, AnsweringKeepsHistory
  <2> QED
    BY <2>1, <2>2, <2>3, AnsweringKeepsHistory DEF Answered, history
<1>5. ASSUME NEW x, Ahead(x) PROVE Ahead(x)'
  <2>1. x.req \notin done'
    BY <1>1, <1>5, AnsweringKeepsHistory DEF Ahead
  <2>2. \A d \in calls' : d.fn \in Effects => d.req # x.req
    BY <1>2, <1>5 DEF Ahead
  <2> QED
    BY <2>1, <2>2 DEF Ahead
<1>6. \A d \in calls' : d.cb \in Preparing => Ahead(d)'
  BY <1>5, AnsweringItems DEF Preparing, Nobody
<1>7. \A x \in replies' : x.cb \in Preparing => Ahead(x)'
  <2>1. c.cb \in Preparing => Ahead(p)
    BY <1>1 DEF Ahead
  <2> QED
    BY <1>1, <1>5, <2>1, AnsweringItems
<1>8. \A q \in Path : tree'[q] \in Req => tree'[q] \in done'
  BY DEF Answering
<1> QED
  BY <1>3, <1>4, <1>6, <1>7, <1>8

LEMMA AnsweringKeepsRest ==
  ASSUME IInv, FInv, NEW c, NEW p, Answering(c, p)
  PROVE  UnknownBefore' /\ DeadAreSilent' /\ RemovalSettled' /\ TurnOrAnswer'
<1> USE DEF FInv
<1>1. c \in calls /\ c.req \in Req /\ Asked(c.req) /\ p.req = c.req /\ p.cb = c.cb
  BY AnsweringItems, CallFacts
<1>2. UNCHANGED <<request, sent, passed, etag, dead>>
  BY AnsweringKeepsHistory
<1>3. UnknownBefore'
  <2>1. \A r \in Req : ~Asked(r) => saw'[r] = saw[r] /\ (r \in done' => r \in done)
    BY <1>1, RecordGrows DEF Answering, IInv, history
  <2> QED
    BY <1>2, <2>1 DEF UnknownBefore, Asked
<1>4. DeadAreSilent'
  BY <1>1, <1>2, AnsweringItems DEF DeadAreSilent
<1>5. \A r \in Req : AtRest(r)' => AtRest(r) /\ (r = c.req => ~InTurn(c))
  <2>1. InTurn(c) => c.cb # Nobody /\ InTurn(p)
    BY <1>1 DEF InTurn
  <2>2. \A r \in Req : AtRest(r)' => /\ \A x \in calls' : x.req = r => ~InTurn(x)
                                     /\ \A x \in replies' : x.req = r => ~InTurn(x)
    BY DEF AtRest, InTurn
  <2>3. \A x \in calls : x \in calls' \/ x = c
    BY AnsweringItems
  <2>4. \A x \in replies : x \in replies'
    BY AnsweringItems
  <2> QED
    BY <1>1, <2>1, <2>2, <2>3, <2>4, AnsweringItems DEF AtRest
<1>6. \A r \in Req : AtRest(r) => AtRest(r)'
  <2> SUFFICES ASSUME NEW r \in Req, AtRest(r) PROVE AtRest(r)'
    OBVIOUS
  <2>1. \A x \in calls' : x.req = r => ~InTurn(x)
    BY AnsweringItems DEF AtRest, InTurn
  <2>2. \A x \in replies' : x.req = r => ~InTurn(x)
    BY <1>1, AnsweringItems DEF AtRest, InTurn
  <2> QED
    BY <2>1, <2>2 DEF AtRest, InTurn
<1>7. RemovalSettled'
  <2>1. \A r \in Req : AtRest(r) => seen'[r] = seen[r]
    BY <1>1, AnsweringKeepsHistory DEF AtRest
  <2> QED
    BY <1>2, <1>6, <2>1 DEF RemovalSettled, Said, Answered, Reply
<1>8. TurnOrAnswer'
  <2>1. \A r \in Req : AtRest(r)' /\ r \notin dead /\ Excused(r) => Excused(r)'
    <3> SUFFICES ASSUME NEW r \in Req, AtRest(r)', r \notin dead, ~Faults, r \in done' \ done
                 PROVE  FALSE
      BY <1>2 DEF Excused
    <3>1. c.req = r /\ c.fn \in Effects /\ ~InTurn(c)
      BY <1>5, AnsweringKeepsHistory
    <3>2. c.cb = Nobody
      BY <1>1, <3>1, CallFacts DEF Intended, InTurn, Beside, Nobody
    <3> QED
      BY <1>1, <3>1, <3>2 DEF DeadAreSilent
  <2> QED
    BY <1>2, <1>5, <2>1 DEF TurnOrAnswer, Asked, Answered
<1> QED
  BY <1>3, <1>4, <1>7, <1>8

LEMMA AnsweringKeeps ==
  ASSUME IInv, FInv, IInv', NEW c, NEW p, Answering(c, p)
  PROVE  FInv'
BY AnsweringKeepsCalls, AnsweringKeepsResults, AnsweringKeepsEffects, AnsweringKeepsRest
   DEF FInv

----------------------------------------------------------------------------
(* What each call of Manta tells: its result is true of what was noted.    *)

\* The bucket or the key a request asks of is seen as the tree has it.
LEMMA Sees ==
  ASSUME IInv, FInv, NEW c \in calls, Record(c), UNCHANGED request, tree' \in [Path -> Entry]
  PROVE  /\ Visible(tree', Subject(request[c.req])) \in saw'[c.req]
         /\ saw[c.req] \subseteq saw'[c.req]
         /\ OpOf(c) # "copyObject" => Subject(request[c.req]) = PathOf(c)
         /\ OpOf(c) = "copyObject" => Subject(request[c.req]) = request[c.req].src
BY CallFacts DEF Record, Subject, OpOf, PathOf, IInv, TypeOK

\* What is seen of a path of which the tree is known.
LEMMA Looks ==
  ASSUME NEW t \in [Path -> Entry], NEW q \in Path
  PROVE  /\ t[q] \in Content => Visible(t, q) = t[q]
         /\ t[q] = None => Visible(t, q) = None
         /\ q \in Keys /\ t[q] = Dir => Visible(t, q) = None
         /\ q \in Buckets => Visible(t, q) = t[q]
         /\ Visible(t, q) \in Entry
BY Names DEF Visible, Keys, Entry

\* A bucket that is missing has no objects, and is not itself one.
LEMMA MissingBucket ==
  ASSUME IInv, NEW k \in Keys, tree[BucketOf(k)] = None
  PROVE  tree[k] = None
BY BucketAbove, Names DEF IInv, Consistent, Keys

LEMMA FailTells ==
  ASSUME Faults, NEW p, p.res = "fail", p.val = None
  PROVE  Tells(p)'
BY Names DEF Tells, TellsInfo, TellsContent, TellsBucket, TellsEffect, Missing

\* Which callbacks await which call, read from the call.
LEMMA AwaitedBy ==
  ASSUME IInv, FInv, NEW c \in calls
  PROVE  /\ c.cb \in {"headBucket", "infoBucketAdd", "infoBucketFirst", "infoBucketSecond",
                      "linkedObjectInfo", "headGetDir"} => c.fn = "info"
         /\ c.cb = "getObj" => c.fn = "get"
         /\ c.cb = "mkdirBuckets" => c.fn = "mkdirp"
         /\ c.cb = "isEmpty" => c.fn = "events"
         /\ c.cb = "rmdirBuckets" => c.fn = "rmr"
         /\ c.cb = "mlsBucketsStream" => c.fn = "listing"
         /\ c.cb = "objectPut" => c.fn = "put"
         /\ c.cb = "rmObj" => c.fn = "unlink"
         /\ c.cb = "objectLinked" => c.fn = "ln"
BY CallFacts DEF Awaited

LEMMA InfoTells ==
  ASSUME IInv, FInv, NEW c \in calls, c.fn = "info", Record(c), UNCHANGED <<tree, request>>,
         NEW p, p.req = c.req, p.cb = c.cb,
         \/ tree[c.path] = None /\ p.res = "notfound" /\ p.val = None
         \/ tree[c.path] # None /\ p.res = "ok" /\ p.val = tree[c.path]
  PROVE  Tells(p)'
<1>0. tree \in [Path -> Entry] /\ tree' = tree
  BY DEF IInv, TypeOK
<1> DEFINE v == Visible(tree, Subject(request[c.req]))
<1>1. v \in saw'[p.req]
  BY <1>0, Sees
<1>2. /\ p.cb \in {"headBucket", "infoBucketAdd", "infoBucketFirst", "infoBucketSecond"}
         => tree[c.path] \in {None, Dir} /\ v = tree[c.path]
      /\ p.cb = "linkedObjectInfo" => v = Visible(tree, c.path)
      /\ p.cb = "headGetDir" => (tree[c.path] = None => v = None)
  <2>1. CASE p.cb \in {"headBucket", "infoBucketAdd", "infoBucketFirst", "infoBucketSecond"}
    <3>1. OpOf(c) \in BucketOps /\ c.path = PathOf(c)
      BY <2>1, CallFacts DEF OfOperation, OfHandler, RemovalCallbacks, BucketOps, OpOf, Awaited
    <3>2. c.path \in Buckets /\ c.path \in Path /\ Subject(request[c.req]) = c.path
      BY <3>1, CallFacts DEF Subject, OpOf, PathOf, BucketOps
    <3> QED
      BY <1>0, <2>1, <3>2, Looks DEF IInv, BucketsAreDirectories
  <2>2. CASE p.cb = "linkedObjectInfo"
    <3>1. OpOf(c) = "copyObject" /\ c.path = request[c.req].src
      BY <2>2, CallFacts DEF OfHandler, CopyCallbacks, OpOf, Awaited
    <3> QED
      BY <2>2, <3>1 DEF Subject, OpOf
  <2>3. CASE p.cb = "headGetDir"
    <3>1. OpOf(c) = "getObject" /\ c.path = BucketOf(PathOf(c))
      BY <2>3, CallFacts DEF OfOperation, Awaited
    <3>2. PathOf(c) \in Keys /\ Subject(request[c.req]) = PathOf(c)
      BY <3>1, CallFacts DEF Subject, OpOf, PathOf, KeyOps
    <3> QED
      BY <1>0, <2>3, <3>1, <3>2, MissingBucket, Looks DEF Keys
  <2> QED
    BY <2>1, <2>2, <2>3
<1>3. TellsInfo(p)'
  <2>1. p.cb = "linkedObjectInfo" /\ p.res # "ok" => v = None
    BY <1>0, <1>2, CallFacts, Looks
  <2> QED
    BY <1>1, <1>2, <2>1 DEF TellsInfo, Missing
<1>4. TellsContent(p)'
  <2>1. p.cb # "getObj"
    BY AwaitedBy
  <2>2. p.cb = "linkedObjectInfo" /\ p.val \in Content => v = p.val
    BY <1>0, <1>2, CallFacts, Looks, Names
  <2> QED
    BY <1>1, <2>1, <2>2 DEF TellsContent
<1>5. TellsBucket(p)' /\ TellsEffect(p)'
  BY AwaitedBy DEF TellsBucket, TellsEffect
<1> QED
  BY <1>3, <1>4, <1>5 DEF Tells

LEMMA GetTells ==
  ASSUME IInv, FInv, NEW c \in calls, c.fn = "get", Record(c), UNCHANGED <<tree, request>>,
         NEW p, p.req = c.req, p.cb = c.cb,
         \/ tree[c.path] = None /\ p.res = "notfound" /\ p.val = None
         \/ tree[c.path] # None /\ p.res = "ok" /\ p.val = tree[c.path]
  PROVE  Tells(p)'
<1>0. tree \in [Path -> Entry] /\ tree' = tree
  BY DEF IInv, TypeOK
<1>1. Visible(tree, Subject(request[c.req])) \in saw'[p.req]
  BY <1>0, Sees
<1>2. p.cb = "getObj" => Subject(request[c.req]) = c.path /\ c.path \in Keys /\ c.path \in Path
  <2>1. SUFFICES ASSUME p.cb = "getObj"
                 PROVE  Subject(request[c.req]) = c.path /\ c.path \in Keys /\ c.path \in Path
    OBVIOUS
  <2>2. OpOf(c) = "getObject" /\ c.path = PathOf(c)
    BY <2>1, CallFacts DEF OfOperation, Awaited
  <2> QED
    BY <2>2, CallFacts DEF Subject, OpOf, PathOf, KeyOps
<1>3. TellsContent(p)'
  <2>1. p.cb # "linkedObjectInfo"
    BY AwaitedBy
  <2>2. p.cb = "getObj" /\ p.val \in Content => p.val \in saw'[p.req]
    BY <1>0, <1>1, <1>2, Looks, Names
  <2>3. p.cb = "getObj" /\ (p.res = "notfound" \/ p.val = Dir) => None \in saw'[p.req]
    BY <1>0, <1>1, <1>2, Looks, Names
  <2> QED
    BY <2>1, <2>2, <2>3 DEF TellsContent
<1>4. TellsInfo(p)' /\ TellsBucket(p)' /\ TellsEffect(p)'
  BY AwaitedBy DEF TellsInfo, TellsBucket, TellsEffect
<1> QED
  BY <1>3, <1>4 DEF Tells

LEMMA EventsTell ==
  ASSUME IInv, FInv, NEW c \in calls, c.fn = "events", Record(c), UNCHANGED <<tree, request>>,
         NEW p, p.req = c.req, p.cb = c.cb,
         p.res \in {"object", "directory"} => Children(c.path) # {}
  PROVE  Tells(p)'
<1>0. tree \in [Path -> Entry] /\ tree' = tree
  BY DEF IInv, TypeOK
<1>1. Visible(tree, Subject(request[c.req])) \in saw'[p.req]
  BY <1>0, Sees
<1>2. c.cb = "isEmpty" /\ OpOf(c) = "removeBucket" /\ c.path = PathOf(c)
  BY CallFacts DEF OfHandler, RemovalCallbacks, OpOf, Awaited
<1>3. c.path \in Buckets /\ c.path \in Path /\ Subject(request[c.req]) = c.path
  BY <1>2, CallFacts DEF Subject, OpOf, PathOf, BucketOps
<1>4. ASSUME p.res \in {"object", "directory"}
      PROVE  Dir \in saw'[p.req] /\ seen'[p.req] # {}
  <2>1. PICK e \in Path \ {Base} : Dirname[e] = c.path /\ tree[e] # None
    BY <1>4 DEF Children
  <2>2. c.path \in Above[e] /\ e # c.path
    <3>1. c.path \in Above[Dirname[e]]
      BY <1>3, <2>1, AboveType
    <3> QED
      BY <2>1, <3>1, HierarchyAssumption
  <2>3. tree[c.path] = Dir
    BY <2>1, <2>2 DEF IInv, Consistent
  <2>4. Visible(tree, Subject(request[c.req])) = Dir
    BY <1>0, <1>3, <2>3, Looks
  <2>5. e \in Stored(c.path) \ {c.path}
    BY <2>1, <2>2 DEF Stored, Below
  <2>6. seen'[p.req] = Stored(c.path) \ {c.path}
    BY CallFacts DEF Record, IInv, TypeOK
  <2> QED
    BY <1>1, <2>4, <2>5, <2>6
<1>5. TellsBucket(p)'
  BY <1>2, <1>4 DEF TellsBucket
<1> QED
  BY <1>2, <1>5 DEF Tells, TellsInfo, TellsContent, TellsEffect

\* Making the directories down to a bucket makes it be seen.
LEMMA MkdirpTells ==
  ASSUME IInv, IInv', FInv, NEW c \in calls, c.fn = "mkdirp", Record(c), UNCHANGED request,
         NEW p, p.req = c.req, p.cb = c.cb,
         p.res = "ok" => tree'[c.path] = Dir
  PROVE  Tells(p)'
<1>0. tree' \in [Path -> Entry]
  BY DEF IInv, TypeOK
<1>1. Visible(tree', Subject(request[c.req])) \in saw'[p.req]
  BY <1>0, Sees
<1>2. p.cb = "mkdirBuckets" /\ p.res = "ok" => Dir \in saw'[p.req]
  <2> SUFFICES ASSUME p.cb = "mkdirBuckets", tree'[c.path] = Dir PROVE Dir \in saw'[p.req]
    OBVIOUS
  <2>1. OpOf(c) = "addBucket" /\ c.path = PathOf(c)
    BY CallFacts DEF OfOperation, Intended
  <2>2. c.path \in Buckets /\ c.path \in Path /\ Subject(request[c.req]) = c.path
    BY <2>1, CallFacts DEF Subject, OpOf, PathOf, BucketOps
  <2> QED
    BY <1>0, <1>1, <2>2, Looks
<1>3. TellsBucket(p)'
  BY <1>2, AwaitedBy DEF TellsBucket
<1> QED
  BY <1>3, AwaitedBy DEF Tells, TellsInfo, TellsContent, TellsEffect

LEMMA PutTells ==
  ASSUME IInv, IInv', FInv, NEW c \in calls, c.fn = "put", Record(c),
         NEW p, p.req = c.req, p.cb = c.cb,
         p.res = "ok" => tree'[c.path] = c.req /\ p.val = c.req
  PROVE  Tells(p)'
<1>1. p.res = "ok" => c.req \in done'
  BY DEF Record
<1>2. TellsEffect(p)'
  BY <1>1, AwaitedBy DEF TellsEffect
<1> QED
  BY <1>2, AwaitedBy DEF Tells, TellsInfo, TellsContent, TellsBucket

LEMMA LnTells ==
  ASSUME IInv, FInv, NEW c \in calls, c.fn = "ln", Record(c),
         NEW p, p.req = c.req, p.cb = c.cb,
         p.res = "ok" <=> Writable(c.path) /\ tree[c.arg] \in Content
  PROVE  Tells(p)'
<1>1. p.res = "ok" => c.req \in done'
  BY DEF Record
<1>2. p.res # "ok" => c.req \notin done'
  <2>1. c.req \notin done
    BY DEF FInv, OneEffect, Effects
  <2> QED
    BY <2>1 DEF Record
<1>3. TellsEffect(p)'
  BY <1>1, <1>2, AwaitedBy DEF TellsEffect
<1> QED
  BY <1>3, AwaitedBy DEF Tells, TellsInfo, TellsContent, TellsBucket

LEMMA UnlinkTells ==
  ASSUME IInv, IInv', FInv, NEW c \in calls, c.fn = "unlink", Record(c), UNCHANGED request,
         NEW p, p.req = c.req, p.cb = c.cb,
         p.res \in {"ok", "notfound"} => tree'[c.path] = None
  PROVE  Tells(p)'
<1>0. tree' \in [Path -> Entry]
  BY DEF IInv, TypeOK
<1>1. Visible(tree', Subject(request[c.req])) \in saw'[p.req]
  BY <1>0, Sees
<1>2. p.res \in {"ok", "notfound"} => c.req \in done'
  BY DEF Record
<1>3. p.res = "notfound" => None \in saw'[p.req]
  <2>1. OpOf(c) = "deleteObject" /\ c.path = PathOf(c)
    BY CallFacts DEF Intended
  <2>2. c.path \in Path /\ Subject(request[c.req]) = c.path
    BY <2>1, CallFacts DEF Subject, OpOf, PathOf
  <2> QED
    BY <1>0, <1>1, <2>2, Looks
<1>4. TellsEffect(p)'
  BY <1>2, <1>3, AwaitedBy DEF TellsEffect
<1> QED
  BY <1>4, AwaitedBy DEF Tells, TellsInfo, TellsContent, TellsBucket

LEMMA RmrTells ==
  ASSUME IInv, IInv', FInv, NEW c \in calls, c.fn = "rmr", Record(c), UNCHANGED request,
         NEW p, p.req = c.req, p.cb = c.cb,
         p.res = "ok" => tree'[c.path] = None
  PROVE  Tells(p)'
<1>0. tree' \in [Path -> Entry]
  BY DEF IInv, TypeOK
<1>1. Visible(tree', Subject(request[c.req])) \in saw'[p.req]
  BY <1>0, Sees
<1>2. p.res = "ok" => None \in saw'[p.req]
  <2>1. OpOf(c) = "removeBucket" /\ c.path = PathOf(c)
    BY CallFacts DEF Intended
  <2>2. c.path \in Path /\ Subject(request[c.req]) = c.path
    BY <2>1, CallFacts DEF Subject, OpOf, PathOf
  <2> QED
    BY <1>0, <1>1, <2>2, Looks
<1>3. TellsBucket(p)'
  BY <1>2, AwaitedBy DEF TellsBucket
<1> QED
  BY <1>3, AwaitedBy DEF Tells, TellsInfo, TellsContent, TellsEffect

\* The results that tell nothing of the store.
LEMMA NothingTold ==
  ASSUME IInv, FInv, NEW c \in calls, c.fn \in {"body", "ls", "listing"},
         NEW p, p.cb = c.cb, c.fn = "listing" => p.res # "fail"
  PROVE  Tells(p)'
BY AwaitedBy DEF Tells, TellsInfo, TellsContent, TellsBucket, TellsEffect

----------------------------------------------------------------------------
(* The steps of Manta, of the connections and of exiting processes. *)

ResultOf(c, res, val) ==
    [req |-> c.req, cb |-> c.cb, res |-> res, val |-> val, arg |-> c.arg]

LEMMA ResultFields ==
  ASSUME NEW c, NEW res, NEW val
  PROVE  LET p == ResultOf(c, res, val)
         IN  p.req = c.req /\ p.cb = c.cb /\ p.res = res /\ p.val = val /\ p.arg = c.arg
BY DEF ResultOf

\* Nothing is uploaded by the step.
LEMMA NothingUploaded ==
  ASSUME IInv, FInv, NEW c \in calls, UNCHANGED history \/ Record(c),
         \A q \in Path : tree'[q] \in {tree[q], None, Dir}
  PROVE  \A q \in Path : tree'[q] \in Req => tree'[q] \in done'
<1>1. done \subseteq done'
  BY RecordGrows DEF IInv
<1>2. None \notin Req /\ Dir \notin Req
  BY Names DEF Content
<1> QED
  BY <1>1, <1>2 DEF FInv, OneEffect

LEMMA AnswerKeepsFacts ==
  ASSUME IInv, FInv, IInv', NEW c \in calls, NEW res, NEW val, Answer(c, res, val),
         UNCHANGED httpVars, UNCHANGED history \/ Record(c),
         \A q \in Path : tree'[q] \in Req => tree'[q] \in done',
         c.cb # Nobody => Tells(ResultOf(c, res, val))'
  PROVE  FInv'
<1> DEFINE p == ResultOf(c, res, val)
<1>1. p = [req |-> c.req, cb |-> c.cb, res |-> p.res, val |-> p.val, arg |-> c.arg]
  BY DEF ResultOf
<1>2. /\ calls' = calls \ {c}
      /\ replies' = IF c.cb = Nobody THEN replies ELSE replies \cup {p}
  BY DEF Answer, ResultOf
<1> HIDE DEF p
<1>3. Answering(c, p)
  <2>1. c.cb # Nobody => Tells(p)'
    BY DEF p
  <2> QED
    BY <1>1, <1>2, <2>1 DEF Answering
<1> QED
  BY <1>3, AnsweringKeeps

\* The leaf that rmr removes: the call goes on.
LEMMA LeafKeepsFacts ==
  ASSUME IInv, FInv, NEW c \in calls, RmrLeaf(c), Record(c), UNCHANGED httpVars
  PROVE  FInv'
<1> USE DEF FInv
<1>1. c.fn = "rmr" /\ UNCHANGED <<calls, replies, request, sent, passed, etag, dead>>
  BY DEF RmrLeaf, httpVars
<1>2. UNCHANGED <<done, seen>> /\ (\A r \in Req : saw[r] \subseteq saw'[r])
      /\ (\A r \in Req : ~Asked(r) => saw'[r] = saw[r])
  BY <1>1, CallFacts, RecordGrows DEF Record, IInv
<1>3. CallsAsMade'
  BY <1>1 DEF CallsAsMade, OfOperation, Intended, Awaited, OpOf, PathOf
<1>4. ResultsTell'
  <2>1. ASSUME NEW x, Carries(x), x.req \in Req PROVE Carries(x)'
    BY <1>1, <1>2, <2>1 DEF Carries, Missing, EtagFound
  <2>2. ASSUME NEW x, Tells(x), x.req \in Req PROVE Tells(x)'
    BY <1>1, <1>2, <2>2 DEF Tells, TellsInfo, TellsContent, TellsBucket, TellsEffect, Missing
  <2>3. (\A x \in calls : x.req \in Req) /\ (\A x \in replies : x.req \in Req)
    BY DEF IInv, TypeOK, CallType, ReplyType
  <2> QED
    BY <1>1, <2>1, <2>2, <2>3 DEF ResultsTell
<1>5. OneEffect'
  <2>1. \A q \in Path : tree'[q] \in {tree[q], None, Dir}
    BY DEF RmrLeaf, IInv, TypeOK
  <2>2. \A q \in Path : tree'[q] \in Req => tree'[q] \in done'
    BY <2>1, NothingUploaded
  <2> QED
    BY <1>1, <1>2, <2>2 DEF OneEffect, Ahead, Answered
<1>6. UnknownBefore' /\ DeadAreSilent'
  BY <1>1, <1>2 DEF UnknownBefore, DeadAreSilent, Asked
<1>7. RemovalSettled' /\ TurnOrAnswer'
  BY <1>1, <1>2 DEF RemovalSettled, TurnOrAnswer, AtRest, InTurn, Said, Answered, Reply,
                    Excused, Asked
<1> QED
  BY <1>3, <1>4, <1>5, <1>6, <1>7

LEMMA ExecuteKeepsFacts ==
  ASSUME IInv, FInv, IInv', NEW c \in calls, Execute(c), Record(c), UNCHANGED httpVars
  PROVE  FInv'
<1>0. /\ tree \in [Path -> Entry] /\ tree' \in [Path -> Entry]
      /\ c.path \in Path /\ UNCHANGED request
      /\ UNCHANGED tree => \A q \in Path : tree'[q] \in {tree[q], None, Dir}
  BY CallFacts DEF IInv, TypeOK, httpVars
<1>1. CASE Info(c)
  <2>1. PICK res, val : /\ Answer(c, res, val)
                        /\ \/ tree[c.path] = None /\ res = "notfound" /\ val = None
                           \/ tree[c.path] # None /\ res = "ok" /\ val = tree[c.path]
    BY <1>1 DEF Info
  <2>2. c.fn = "info" /\ UNCHANGED tree
    BY <1>1 DEF Info
  <2>3. Tells(ResultOf(c, res, val))'
    BY <1>0, <2>1, <2>2, InfoTells, ResultFields
  <2> QED
    BY <1>0, <2>1, <2>2, <2>3, NothingUploaded, AnswerKeepsFacts
<1>2. CASE Get(c)
  <2>1. PICK res, val : /\ Answer(c, res, val)
                        /\ \/ tree[c.path] = None /\ res = "notfound" /\ val = None
                           \/ tree[c.path] # None /\ res = "ok" /\ val = tree[c.path]
    BY <1>2 DEF Get
  <2>2. c.fn = "get" /\ UNCHANGED tree
    BY <1>2 DEF Get
  <2>3. Tells(ResultOf(c, res, val))'
    BY <1>0, <2>1, <2>2, GetTells, ResultFields
  <2> QED
    BY <1>0, <2>1, <2>2, <2>3, NothingUploaded, AnswerKeepsFacts
<1>3. CASE Body(c) \/ Ls(c) \/ Listing(c)
  <2>1. PICK res : Answer(c, res, None) /\ (c.fn = "listing" => res # "fail")
    BY <1>3 DEF Body, Ls, Listing
  <2>2. c.fn \in {"body", "ls", "listing"} /\ UNCHANGED tree
    BY <1>3 DEF Body, Ls, Listing
  <2>3. Tells(ResultOf(c, res, None))'
    BY <2>1, <2>2, NothingTold, ResultFields
  <2> QED
    BY <1>0, <2>1, <2>2, <2>3, NothingUploaded, AnswerKeepsFacts
<1>4. CASE Events(c)
  <2>1. PICK res : /\ Answer(c, res, None)
                   /\ res \in {"object", "directory"} => Children(c.path) # {}
    BY <1>4 DEF Events
  <2>2. c.fn = "events" /\ UNCHANGED tree
    BY <1>4 DEF Events
  <2>3. Tells(ResultOf(c, res, None))'
    BY <1>0, <2>1, <2>2, EventsTell, ResultFields
  <2> QED
    BY <1>0, <2>1, <2>2, <2>3, NothingUploaded, AnswerKeepsFacts
<1>5. CASE Mkdirp(c)
  <2>1. PICK res : /\ Answer(c, res, None)
                   /\ \/ res = "fail" /\ UNCHANGED tree
                      \/ /\ res = "ok"
                         /\ tree' = [p \in Path |-> IF p \in Above[c.path] THEN Dir ELSE tree[p]]
    BY <1>5 DEF Mkdirp
  <2>2. c.fn = "mkdirp" /\ (res = "ok" => tree'[c.path] = Dir)
    BY <1>0, <1>5, <2>1, AboveType DEF Mkdirp
  <2>3. Tells(ResultOf(c, res, None))'
    BY <1>0, <2>1, <2>2, MkdirpTells, ResultFields
  <2>4. \A q \in Path : tree'[q] \in {tree[q], None, Dir}
    BY <1>0, <2>1
  <2> QED
    BY <2>1, <2>3, <2>4, NothingUploaded, AnswerKeepsFacts
<1>6. CASE Put(c)
  <2>1. c.fn = "put"
    BY <1>6 DEF Put
  <2>2. PICK res, val : /\ Answer(c, res, val)
                        /\ \/ res = "fail" /\ UNCHANGED tree
                           \/ /\ res = "ok" /\ val = c.req
                              /\ tree' = [tree EXCEPT ![c.path] = c.req]
    BY <1>6 DEF Put
  <2>3. Tells(ResultOf(c, res, val))'
    BY <1>0, <2>1, <2>2, PutTells, ResultFields
  <2>4. \A q \in Path : tree'[q] \in Req => tree'[q] \in done'
    <3>1. CASE UNCHANGED tree
      BY <1>0, <3>1, NothingUploaded
    <3>2. CASE tree' = [tree EXCEPT ![c.path] = c.req]
      <4>1. c.req \in done' /\ done \subseteq done'
        BY <1>0, <2>1, <3>2 DEF Record
      <4> QED
        BY <1>0, <3>2, <4>1 DEF FInv, OneEffect
    <3> QED
      BY <2>2, <3>1, <3>2
  <2> QED
    BY <2>2, <2>3, <2>4, AnswerKeepsFacts
<1>7. CASE Ln(c)
  <2>1. c.fn = "ln" /\ c.arg \in Path \cup Entry
    BY <1>7, CallFacts DEF Ln, CallType
  <2>2. PICK res, val : /\ Answer(c, res, val)
                        /\ res = "ok" <=> Writable(c.path) /\ tree[c.arg] \in Content
                        /\ UNCHANGED tree \/ tree' = [tree EXCEPT ![c.path] = tree[c.arg]]
    <3>1. CASE Writable(c.path) /\ tree[c.arg] \in Content
      BY <1>7, <3>1 DEF Ln
    <3>2. CASE ~(Writable(c.path) /\ tree[c.arg] \in Content)
      BY <1>7, <3>2 DEF Ln
    <3> QED
      BY <3>1, <3>2
  <2>3. Tells(ResultOf(c, res, val))'
    BY <2>1, <2>2, LnTells, ResultFields
  <2>4. \A q \in Path : tree'[q] \in Req => tree'[q] \in done'
    <3>1. CASE UNCHANGED tree
      BY <1>0, <3>1, NothingUploaded
    <3>2. CASE tree' = [tree EXCEPT ![c.path] = tree[c.arg]]
      <4>1. done \subseteq done' /\ c.arg \in Path
        BY <2>1, RecordGrows, CallFacts DEF IInv, Intended
      <4> QED
        BY <1>0, <3>2, <4>1 DEF FInv, OneEffect
    <3> QED
      BY <2>2, <3>1, <3>2
  <2> QED
    BY <2>2, <2>3, <2>4, AnswerKeepsFacts
<1>8. CASE Unlink(c) \/ RmrTop(c)
  <2>1. c.fn \in {"unlink", "rmr"} /\ RemoveEntry(c)
    BY <1>8 DEF Unlink, RmrTop
  <2>2. PICK res : /\ Answer(c, res, None)
                   /\ \/ res = "notfound" /\ tree[c.path] = None /\ UNCHANGED tree
                      \/ res = "fail" /\ UNCHANGED tree
                      \/ res = "ok" /\ tree' = [tree EXCEPT ![c.path] = None]
    BY <2>1 DEF RemoveEntry
  <2>3. res \in {"ok", "notfound"} => tree'[c.path] = None
    BY <1>0, <2>2
  <2>4. Tells(ResultOf(c, res, None))'
    BY <1>0, <2>1, <2>3, UnlinkTells, RmrTells, ResultFields
  <2>5. \A q \in Path : tree'[q] \in {tree[q], None, Dir}
    BY <1>0, <2>2
  <2> QED
    BY <2>2, <2>4, <2>5, NothingUploaded, AnswerKeepsFacts
<1>9. CASE RmrLeaf(c)
  BY <1>9, LeafKeepsFacts
<1> QED
  BY <1>1, <1>2, <1>3, <1>4, <1>5, <1>6, <1>7, <1>8, <1>9 DEF Execute

LEMMA ServeKeepsFacts ==
  ASSUME IInv, FInv, IInv', NEW r \in Req, Serve(r)
  PROVE  FInv'
<1>1. PICK c \in calls : /\ \/ Execute(c) /\ Record(c)
                            \/ Refuse(c) /\ UNCHANGED history
                            \/ MkdirpPartial(c) /\ UNCHANGED history
                         /\ UNCHANGED httpVars
  BY DEF Serve
<1>2. CASE Execute(c) /\ Record(c)
  BY <1>1, <1>2, ExecuteKeepsFacts
<1>3. CASE (Refuse(c) \/ MkdirpPartial(c)) /\ UNCHANGED history
  <2>1. Faults /\ Answer(c, "fail", None)
    BY <1>3 DEF Refuse, MkdirpPartial
  <2>2. Tells(ResultOf(c, "fail", None))'
    BY <2>1, FailTells, ResultFields
  <2>3. \A q \in Path : tree'[q] \in {tree[q], None, Dir}
    BY <1>3 DEF Refuse, MkdirpPartial
  <2> QED
    BY <1>1, <1>3, <2>1, <2>2, <2>3, NothingUploaded, AnswerKeepsFacts
<1> QED
  BY <1>1, <1>2, <1>3

LEMMA LoseConnectionKeepsFacts ==
  ASSUME IInv, FInv, IInv', NEW r \in Req, LoseConnection(r)
  PROVE  FInv'
<1>1. PICK c \in calls : (HangUp(c) \/ BreakOff(c)) /\ UNCHANGED <<httpVars, history>>
  BY DEF LoseConnection
<1>2. CASE HangUp(c)
  <2> DEFINE p == ResultOf(c, "fail", None)
  <2>1. p = [req |-> c.req, cb |-> c.cb, res |-> p.res, val |-> p.val, arg |-> c.arg]
    BY DEF ResultOf
  <2>2. Tells(p)'
    BY <1>2, FailTells, ResultFields DEF HangUp
  <2>3. /\ Faults /\ c.fn \in Changing /\ c.cb # Nobody
        /\ calls' = (calls \ {c}) \cup {Orphaned(c)}
        /\ replies' = replies \cup {p}
        /\ UNCHANGED tree
    BY <1>2 DEF HangUp, ResultOf
  <2>4. \A q \in Path : tree'[q] \in Req => tree'[q] \in done'
    BY <1>1, <2>3, NothingUploaded
  <2> HIDE DEF p
  <2>5. Answering(c, p)
    BY <1>1, <2>1, <2>2, <2>3, <2>4 DEF Answering
  <2> QED
    BY <2>5, AnsweringKeeps
<1>3. CASE BreakOff(c)
  <2> USE DEF FInv
  <2>1. Faults /\ c.fn = "body" /\ calls' = calls \ {c} /\ UNCHANGED <<tree, replies>>
    BY <1>3 DEF BreakOff
  <2>2. UNCHANGED <<request, sent, passed, etag, dead, done, saw, seen>>
    BY <1>1 DEF httpVars, history
  <2>3. OpOf(c) = "getObject"
    BY <2>1, CallFacts DEF Awaited, OfOperation
  <2>4. CallsAsMade'
    BY <2>1, <2>2 DEF CallsAsMade, OfOperation, Intended, Awaited, OpOf, PathOf
  <2>5. ResultsTell'
    BY <2>1, <2>2 DEF ResultsTell, Carries, Missing, EtagFound, Tells, TellsInfo, TellsContent,
                      TellsBucket, TellsEffect
  <2>6. OneEffect' /\ UnknownBefore' /\ DeadAreSilent'
    BY <2>1, <2>2 DEF OneEffect, Ahead, Answered, UnknownBefore, Asked, DeadAreSilent
  <2>7. RemovalSettled'
    BY <2>1, <2>2 DEF RemovalSettled, Said, Answered, Reply, AtRest, InTurn
  <2>8. TurnOrAnswer'
    <3>1. \A s \in Req : AtRest(s)' => AtRest(s) \/ s = c.req
      BY <2>1 DEF AtRest, InTurn
    <3>2. Excused(c.req)'
      BY <2>1, <2>2, <2>3 DEF Excused, OpOf
    <3> QED
      BY <2>1, <2>2, <3>1, <3>2 DEF TurnOrAnswer, Asked, Answered, Excused
  <2> QED
    BY <2>4, <2>5, <2>6, <2>7, <2>8
<1> QED
  BY <1>1, <1>2, <1>3

LEMMA ProcessExitsKeepsFacts ==
  ASSUME IInv, FInv, NEW R \in SUBSET Req, ProcessExits(R)
  PROVE  FInv'
<1> USE DEF FInv
<1>1. /\ calls' = {c \in calls : c.req \notin R}
                  \cup {Orphaned(c) : c \in {d \in calls : d.req \in R /\ d.fn \in Changing}}
      /\ replies' = {p \in replies : p.req \notin R}
      /\ dead' = dead \cup R
      /\ UNCHANGED <<tree, request, sent, passed, etag, done, saw, seen>>
  BY DEF ProcessExits, Orphan, history
<1>2. \A d \in calls' : \E c \in calls :
         /\ d.req = c.req /\ d.fn = c.fn /\ d.path = c.path /\ d.arg = c.arg
         /\ \/ d = c /\ c.req \notin R
            \/ d = Orphaned(c) /\ d.cb = Nobody /\ c.req \in R /\ c.fn \in Changing
  BY <1>1 DEF Orphaned, Call
<1>3. \A r \in R : Asked(r)
  BY DEF ProcessExits, Busy, IInv, HandlersOfItems, OfHandler
<1>4. CallsAsMade'
  <2>1. \A x \in calls \cup replies : OfOperation(x)'
    BY <1>1 DEF CallsAsMade, OfOperation, OpOf
  <2>2. \A c \in calls : Intended(c)' /\ Awaited(c)'
    BY <1>1 DEF CallsAsMade, Intended, Awaited, OpOf, PathOf
  <2>3. ASSUME NEW d, NEW c \in calls, d.req = c.req, d.fn = c.fn, d.path = c.path,
               d.arg = c.arg, d.cb = Nobody, c.fn \in Changing
        PROVE  OfOperation(d)' /\ Intended(d)' /\ Awaited(d)'
    BY <2>2, <2>3 DEF OfOperation, Intended, Awaited, OpOf, PathOf, Nobody, Changing
  <2> QED
    BY <1>1, <1>2, <2>1, <2>2, <2>3 DEF CallsAsMade
<1>5. ResultsTell'
  <2>1. \A x \in replies : Carries(x)' /\ Tells(x)'
    BY <1>1 DEF ResultsTell, Carries, Missing, EtagFound, Tells, TellsInfo, TellsContent,
                TellsBucket, TellsEffect
  <2>2. \A x \in calls : Carries(x)'
    BY <1>1 DEF ResultsTell, Carries, Missing, EtagFound
  <2>3. ASSUME NEW d, d.cb = Nobody PROVE Carries(d)'
    BY <2>3 DEF Carries, Nobody
  <2> QED
    BY <1>1, <1>2, <2>1, <2>2, <2>3 DEF ResultsTell
<1>6. OneEffect'
  <2>1. \A d, e \in calls' : d.fn \in Effects /\ e.fn \in Effects /\ d.req = e.req => d = e
    BY <1>2 DEF OneEffect
  <2>2. \A d \in calls' : d.fn \in Effects
                          => d.req \notin done' /\ (Faults \/ ~Answered(d.req)')
    BY <1>1, <1>2 DEF OneEffect, Answered
  <2>3. ASSUME NEW x, Ahead(x) PROVE Ahead(x)'
    BY <1>1, <1>2, <2>3 DEF Ahead
  <2>4. \A d \in calls' : d.cb \in Preparing => Ahead(d)'
    BY <1>2, <2>3 DEF OneEffect, Preparing, Nobody
  <2>5. \A x \in replies' : x.cb \in Preparing => Ahead(x)'
    BY <1>1, <2>3 DEF OneEffect
  <2>6. \A q \in Path : tree'[q] \in Req => tree'[q] \in done'
    BY <1>1 DEF OneEffect
  <2> QED
    BY <2>1, <2>2, <2>4, <2>5, <2>6 DEF OneEffect
<1>7. UnknownBefore'
  BY <1>1, <1>3 DEF UnknownBefore, Asked
<1>8. DeadAreSilent'
  BY <1>1, <1>2 DEF DeadAreSilent
<1>9. RemovalSettled'
  <2>1. \A r \in Req : AtRest(r) => AtRest(r)'
    BY <1>1, <1>2 DEF AtRest, InTurn
  <2> QED
    BY <1>1, <2>1 DEF RemovalSettled, Said, Answered, Reply
<1>10. TurnOrAnswer'
  <2>1. \A r \in Req \ R : AtRest(r)' => AtRest(r)
    BY <1>1 DEF AtRest, InTurn
  <2> QED
    BY <1>1, <2>1 DEF TurnOrAnswer, Asked, Answered, Excused
<1> QED
  BY <1>4, <1>5, <1>6, <1>7, <1>8, <1>9, <1>10

----------------------------------------------------------------------------
(* The steps of the handlers.  Moves is what a step of the handler of r    *)
(* does for FInv, as HandlerDoes is what it does for IInv: it uses up the  *)
(* results in gone, issues calls, and answers or not.                      *)

\* A first answer is true of what r has found and done.
AnswersTruly(r) ==
    /\ Store!Truthful(r, request[r], Reply(r), etag[r], saw[r])
    /\ Reply(r) = "BucketNotEmpty" => seen[r] # {} /\ AtRest(r)
    /\ Reply(r) = "NoContent" /\ request[r].op = "removeBucket" => seen[r] = {} /\ AtRest(r)

\* What r has sent, and the content the response speaks of.
AnswersOf(r) ==
    /\ \A s \in Req \ {r} : sent'[s] = sent[s] /\ etag'[s] = etag[s]
    /\ Answered(r) => Answered(r)' /\ Reply(r)' = Reply(r) /\ etag'[r] = etag[r]
    /\ ~Answered(r) /\ Answered(r)' => AnswersTruly(r)'

\* The calls a step of r issues are the calls of its handler.
Issues(r, issued) ==
    /\ calls' = calls \cup issued
    /\ \A c \in issued :
          /\ c.req = r /\ c.cb # Nobody
          /\ OfOperation(c)' /\ Intended(c)' /\ Awaited(c)' /\ Carries(c)'
          /\ c.fn \in Effects \/ c.cb \in Preparing => Ahead(c)

Moves(r, gone, issued) ==
    /\ gone \subseteq replies /\ replies' = replies \ gone
    /\ \A x \in gone : x.req = r
    /\ r \notin dead
    /\ UNCHANGED <<tree, dead, history>>
    /\ \A s \in Req \ {r} : request'[s] = request[s]
    /\ Asked(r)' /\ (Asked(r) => request'[r] = request[r])
    /\ Issues(r, issued)
    /\ AnswersOf(r)
    /\ etag'[r] # etag[r] => \A x \in calls \cup (replies \ gone) : x.req = r => ~InTurn(x)
    /\ (\E c \in issued : InTurn(c)) => ~AtRest(r) \/ ~Asked(r)
    /\ AtRest(r)' => (AtRest(r) /\ Asked(r)) \/ Answered(r)' \/ Excused(r)'
    /\ \A s \in passed' : s \in passed
                          \/ (s = r /\ (Answered(r)' \/ request'[r].op \in NextBeforeAnswer))

LEMMA MovesKeeps ==
  ASSUME IInv, FInv, IInv', NEW r \in Req, NEW gone, NEW issued, Moves(r, gone, issued)
  PROVE  FInv'
<1> USE DEF FInv
<1>1. /\ gone \subseteq replies /\ replies' = replies \ gone /\ calls' = calls \cup issued
      /\ \A x \in gone : x.req = r
      /\ r \notin dead
      /\ UNCHANGED <<tree, dead, done, saw, seen>>
      /\ \A s \in Req \ {r} : request'[s] = request[s] /\ sent'[s] = sent[s] /\ etag'[s] = etag[s]
      /\ Asked(r)' /\ (Asked(r) => request'[r] = request[r])
  BY DEF Moves, Issues, AnswersOf, history
<1>2. \A c \in issued : /\ c.req = r /\ c.cb # Nobody
                        /\ OfOperation(c)' /\ Intended(c)' /\ Awaited(c)' /\ Carries(c)'
                        /\ c.fn \in Effects \/ c.cb \in Preparing => Ahead(c)
  BY DEF Moves, Issues
<1>3. /\ \A x \in calls : x.req \in Req /\ Asked(x.req)
      /\ \A x \in replies : x.req \in Req /\ Asked(x.req)
  BY DEF IInv, TypeOK, CallType, ReplyType, HandlersOfItems, OfHandler
<1>4. /\ \A x \in calls : request'[x.req] = request[x.req]
      /\ \A x \in replies : request'[x.req] = request[x.req]
  BY <1>1, <1>3
<1>5. CallsAsMade'
  <2>1. \A c \in calls : OfOperation(c)' /\ Intended(c)' /\ Awaited(c)'
    BY <1>4 DEF CallsAsMade, OfOperation, Intended, Awaited, OpOf, PathOf
  <2>2. \A x \in replies : OfOperation(x)'
    BY <1>4 DEF CallsAsMade, OfOperation, OpOf
  <2> QED
    BY <1>1, <1>2, <2>1, <2>2 DEF CallsAsMade
<1>6. ResultsTell'
  <2>1. ASSUME NEW x \in calls \cup (replies \ gone) PROVE Carries(x)'
    <3>1. x.req \in Req /\ Carries(x)
      BY <1>3, <2>1 DEF ResultsTell
    <3>2. x.cb \in {"finishedPipingObject", "objectLinked"} => InTurn(x)
      BY DEF InTurn, Beside, Nobody
    <3>3. x.cb \in {"finishedPipingObject", "objectLinked"} => etag'[x.req] = etag[x.req]
      BY <1>1, <3>1, <3>2, <2>1 DEF Moves
    <3> QED
      BY <1>1, <3>1, <3>3 DEF Carries, Missing, EtagFound
  <2>2. \A x \in replies : Tells(x)'
    BY <1>1 DEF ResultsTell, Tells, TellsInfo, TellsContent, TellsBucket, TellsEffect, Missing
  <2> QED
    BY <1>1, <1>2, <2>1, <2>2 DEF ResultsTell
<1>7. /\ \A c \in calls' : c.fn \in Effects /\ c.cb # Nobody => InTurn(c)
      /\ \A c \in calls' : c.cb \in Preparing => InTurn(c)
      /\ \A x \in replies' : x.cb \in Preparing => InTurn(x)
  <2>1. \A c \in calls' : c.fn \in Effects => c.cb \in {"objectPut", "rmObj", "objectLinked", Nobody}
    BY <1>5 DEF CallsAsMade, Intended
  <2> QED
    BY <2>1 DEF InTurn, Beside, Nobody, Preparing
<1>8. OneEffect'
  <2>1. \A c, d \in calls' : InTurn(c) /\ InTurn(d) /\ c.req = d.req => c = d
    BY DEF IInv, OneTurn, InTurn
  <2>2. \A c, d \in calls' : c.fn \in Effects /\ d.fn \in Effects /\ c.req = d.req => c = d
    BY <1>1, <1>2, <1>7, <2>1 DEF OneEffect, Ahead
  <2>3. ASSUME NEW c \in calls', c.fn \in Effects PROVE c.req \notin done'
    BY <1>1, <1>2, <2>3 DEF OneEffect, Ahead
  <2>4. ASSUME NEW c \in calls', c.fn \in Effects PROVE Faults \/ ~Answered(c.req)'
    <3>1. CASE c.cb # Nobody
      <4>1. OpOf(c)' # "removeBucket"
        BY <1>5, <2>4 DEF CallsAsMade, Intended, Effects
      <4>2. InTurn(c)
        BY <1>7, <2>4, <3>1
      <4> QED
        BY <2>4, <4>1, <4>2 DEF IInv, UnansweredInTurn, OpOf, InTurn
    <3>2. CASE c.cb = Nobody /\ ~Faults
      <4>1. c \in calls
        BY <1>1, <1>2, <2>4, <3>2
      <4>2. c.req \in dead
        BY <3>2, <4>1 DEF DeadAreSilent
      <4>3. c.req \in Req \ {r}
        BY <1>1, <1>3, <4>1, <4>2
      <4> QED
        BY <1>1, <2>4, <4>1, <4>3, <3>2 DEF OneEffect, Answered
    <3> QED
      BY <3>1, <3>2
  <2>5. ASSUME NEW x, Ahead(x), x.req # r PROVE Ahead(x)'
    BY <1>1, <1>2, <2>5 DEF Ahead
  <2>6. ASSUME NEW x, Ahead(x), \A c \in issued : c.fn \notin Effects PROVE Ahead(x)'
    BY <1>1, <2>6 DEF Ahead
  <2>7. ASSUME NEW c \in calls', c.cb \in Preparing PROVE Ahead(c)'
    <3>1. Ahead(c)
      BY <1>1, <1>2, <2>7 DEF OneEffect
    <3>2. CASE c.req = r
      <4>1. ASSUME NEW d \in issued, d.fn \in Effects PROVE FALSE
        <5>1. d \in calls' /\ d.req = r /\ d.cb # Nobody
          BY <1>1, <1>2, <4>1
        <5>2. d = c
          BY <1>7, <2>1, <2>7, <3>2, <4>1, <5>1
        <5>3. d.cb \in {"objectPut", "rmObj", "objectLinked"}
          BY <1>5, <4>1, <5>1 DEF CallsAsMade, Intended
        <5> QED
          BY <2>7, <5>2, <5>3 DEF Preparing
      <4> QED
        BY <2>6, <3>1, <4>1
    <3> QED
      BY <2>5, <3>1, <3>2
  <2>8. ASSUME NEW x \in replies', x.cb \in Preparing PROVE Ahead(x)'
    <3>1. Ahead(x)
      BY <1>1, <2>8 DEF OneEffect
    <3>2. CASE x.req = r
      <4>1. ASSUME NEW d \in issued, d.fn \in Effects PROVE FALSE
        <5>1. d \in calls' /\ d.req = r /\ d.cb # Nobody
          BY <1>1, <1>2, <4>1
        <5> QED
          BY <1>7, <2>8, <3>2, <4>1, <5>1 DEF IInv, OneTurn, InTurn
      <4> QED
        BY <2>6, <3>1, <4>1
    <3> QED
      BY <2>5, <3>1, <3>2
  <2>9. \A q \in Path : tree'[q] \in Req => tree'[q] \in done'
    BY <1>1 DEF OneEffect
  <2> QED
    BY <2>2, <2>3, <2>4, <2>7, <2>8, <2>9 DEF OneEffect
<1>9. \A s \in passed' : s \in passed
                         \/ (s = r /\ (Answered(r)' \/ request'[r].op \in NextBeforeAnswer))
  BY DEF Moves
<1>10. UnknownBefore'
  BY <1>1, <1>9 DEF UnknownBefore, Asked
<1>11. DeadAreSilent'
  BY <1>1, <1>2 DEF DeadAreSilent
<1>12. \A s \in Req \ {r} : AtRest(s)' <=> AtRest(s)
  BY <1>1, <1>2 DEF AtRest, InTurn
<1>13. AtRest(r) /\ Asked(r) => AtRest(r)'
  <2>1. AtRest(r) /\ Asked(r) => \A c \in issued : ~InTurn(c)
    BY DEF Moves
  <2> QED
    BY <1>1, <2>1 DEF AtRest, InTurn
<1>14. RemovalSettled'
  <2>1. ASSUME NEW s \in Req \ {r} PROVE Said(s, "BucketNotEmpty")' => seen'[s] # {} /\ AtRest(s)'
    BY <1>1, <1>12 DEF RemovalSettled, Said, Answered, Reply
  <2>2. ASSUME NEW s \in Req \ {r}
        PROVE  Said(s, "NoContent")' /\ request'[s].op = "removeBucket"
               => seen'[s] = {} /\ AtRest(s)'
    BY <1>1, <1>12 DEF RemovalSettled, Said, Answered, Reply
  <2>3. CASE Answered(r)
    <3>1. Reply(r)' = Reply(r) /\ Asked(r)
      BY <2>3 DEF Moves, AnswersOf, IInv, UnansweredInTurn
    <3> QED
      BY <1>1, <1>13, <2>1, <2>2, <2>3, <3>1 DEF RemovalSettled, Said
  <2>4. CASE ~Answered(r)
    <3>1. Answered(r)' => AnswersTruly(r)'
      BY <2>4 DEF Moves, AnswersOf
    <3>2. Said(r, "BucketNotEmpty")' => seen'[r] # {} /\ AtRest(r)'
      BY <3>1 DEF AnswersTruly, Said
    <3>3. Said(r, "NoContent")' /\ request'[r].op = "removeBucket"
               => seen'[r] = {} /\ AtRest(r)'
      BY <3>1 DEF AnswersTruly, Said
    <3> QED
      BY <2>1, <2>2, <3>2, <3>3 DEF RemovalSettled
  <2> QED
    BY <2>3, <2>4
<1>15. TurnOrAnswer'
  <2>1. AtRest(r)' => Answered(r)' \/ Excused(r)'
    <3>1. CASE AtRest(r) /\ Asked(r)
      <4>1. Answered(r) \/ Excused(r)
        BY <1>1, <3>1 DEF TurnOrAnswer
      <4>2. Answered(r) => Answered(r)'
        BY DEF Moves, AnswersOf
      <4>3. Excused(r) => Excused(r)'
        BY <1>1, <3>1 DEF Excused
      <4> QED
        BY <4>1, <4>2, <4>3
    <3> QED
      BY <3>1 DEF Moves
  <2>2. \A s \in Req \ {r} : Asked(s)' /\ s \notin dead' /\ AtRest(s)'
                             => Answered(s)' \/ Excused(s)'
    BY <1>1, <1>12 DEF TurnOrAnswer, Asked, Answered, Excused
  <2>3. \A s \in passed' : Answered(s)' \/ request'[s].op \in NextBeforeAnswer
    <3>1. ASSUME NEW s \in passed, s # r
          PROVE  Answered(s)' \/ request'[s].op \in NextBeforeAnswer
      <4>1. s \in Req
        BY DEF IInv, TypeOK
      <4> QED
        BY <1>1, <3>1, <4>1 DEF TurnOrAnswer, Answered
    <3>2. r \in passed => Answered(r)' \/ request'[r].op \in NextBeforeAnswer
      <4>1. r \in passed => Asked(r)
        BY DEF UnknownBefore
      <4>2. Answered(r) => Answered(r)'
        BY DEF Moves, AnswersOf
      <4> QED
        BY <1>1, <4>1, <4>2 DEF TurnOrAnswer
    <3> QED
      BY <1>9, <3>1, <3>2
  <2> QED
    BY <2>1, <2>2, <2>3 DEF TurnOrAnswer
<1> QED
  BY <1>5, <1>6, <1>8, <1>10, <1>11, <1>14, <1>15

----------------------------------------------------------------------------
(* The callbacks. *)

LEMMA ResultFacts ==
  ASSUME IInv, FInv, NEW p \in replies
  PROVE  /\ p.req \in Req /\ p.cb # Nobody /\ p.val \in Entry
         /\ Asked(p.req) /\ p.req \notin dead /\ request[p.req] \in Menu
         /\ OfHandler(p) /\ OfOperation(p) /\ Carries(p) /\ Tells(p)
         /\ InTurn(p) => /\ ~AtRest(p.req)
                         /\ \A x \in calls : x.req = p.req => ~InTurn(x)
                         /\ \A x \in replies \ {p} : x.req = p.req => ~InTurn(x)
                         /\ Answered(p.req) => OpOf(p) = "removeBucket"
         /\ p.cb \in Preparing => Ahead(p)
         /\ p.req \in passed => Answered(p.req) \/ OpOf(p) \in NextBeforeAnswer
<1>1. /\ p.req \in Req /\ p.cb \in Callbacks /\ p.val \in Entry /\ Asked(p.req)
      /\ OfHandler(p) /\ request[p.req] \in Menu
  BY ReplyFacts
<1>2. p.cb # Nobody
  BY <1>1, NobodyNoCallback
<1>3. OfOperation(p) /\ Carries(p) /\ Tells(p) /\ p.req \notin dead
      /\ (p.cb \in Preparing => Ahead(p))
      /\ (p.req \in passed => Answered(p.req) \/ OpOf(p) \in NextBeforeAnswer)
  BY <1>1 DEF FInv, CallsAsMade, ResultsTell, DeadAreSilent, OneEffect, TurnOrAnswer, OpOf
<1>4. InTurn(p) => /\ ~AtRest(p.req)
                   /\ \A x \in calls : x.req = p.req => ~InTurn(x)
                   /\ \A x \in replies \ {p} : x.req = p.req => ~InTurn(x)
                   /\ Answered(p.req) => OpOf(p) = "removeBucket"
  BY TurnPasses DEF AtRest, OpOf
<1> QED
  BY <1>1, <1>2, <1>3, <1>4

\* A call the callback of p may issue.
Follows(p, c) ==
    /\ c.req = p.req /\ c.cb # Nobody
    /\ OfOperation(c) /\ Intended(c) /\ Awaited(c) /\ Carries(c)'
    /\ c.fn \in Effects \/ c.cb \in Preparing => p.cb \in Preparing

LEMMA FollowsIssues ==
  ASSUME IInv, FInv, NEW p, NEW cb, NEW issued, Callback(p, cb, issued),
         \A c \in issued : Follows(p, c)
  PROVE  Issues(p.req, issued)
<1>1. UNCHANGED request /\ calls' = calls \cup issued /\ p \in replies
  BY DEF Callback
<1>2. ASSUME NEW c, Follows(p, c) PROVE OfOperation(c)' /\ Intended(c)' /\ Awaited(c)'
  BY <1>1, <1>2 DEF Follows, OfOperation, Intended, Awaited, OpOf, PathOf
<1>3. ASSUME NEW c, Follows(p, c), c.fn \in Effects \/ c.cb \in Preparing PROVE Ahead(c)
  BY <1>1, <1>3, ResultFacts DEF Follows, Ahead
<1> QED
  BY <1>1, <1>2, <1>3 DEF Issues, Follows

\* The etag of a request is set while the request is unanswered, in its turn.
EtagSet(p) == \/ etag' = etag
              \/ /\ InTurn(p) /\ OpOf(p) # "removeBucket"
                 /\ \A s \in Req \ {p.req} : etag'[s] = etag[s]

\* The callback goes on, without an answer.
LEMMA GoesOn ==
  ASSUME IInv, FInv, NEW p, NEW cb, NEW issued, Callback(p, cb, issued),
         UNCHANGED <<sent, history>>, EtagSet(p), InTurn(p),
         \A c \in issued : Follows(p, c),
         \E c \in issued : InTurn(c),
         passed' = passed \/ (passed' = passed \cup {p.req} /\ OpOf(p) \in NextBeforeAnswer)
  PROVE  Moves(p.req, {p}, issued)
<1>1. /\ p \in replies /\ replies' = replies \ {p} /\ calls' = calls \cup issued
      /\ UNCHANGED <<tree, request, dead>>
  BY DEF Callback
<1>2. Issues(p.req, issued)
  BY FollowsIssues
<1>3. AnswersOf(p.req)
  BY <1>1, ResultFacts DEF AnswersOf, EtagSet, Answered, Reply
<1>4. ~AtRest(p.req)'
  BY <1>1 DEF AtRest, InTurn, Follows
<1>5. etag'[p.req] # etag[p.req]
      => \A x \in calls \cup (replies \ {p}) : x.req = p.req => ~InTurn(x)
  BY <1>1, ResultFacts
<1> QED
  BY <1>1, <1>2, <1>3, <1>4, <1>5, ResultFacts DEF Moves, Asked, OpOf

\* The callback ends: it has been answered, answers, or leaves the request.
Truth(p, code) ==
    /\ Store!Truthful(p.req, request[p.req], code, etag'[p.req], saw[p.req])
    /\ code = "BucketNotEmpty" => InTurn(p) /\ seen[p.req] # {}
    /\ code = "NoContent" /\ OpOf(p) = "removeBucket" => InTurn(p) /\ seen[p.req] = {}

LEMMA TurnEnds ==
  ASSUME IInv, FInv, NEW p, NEW cb, NEW issued, Callback(p, cb, issued),
         UNCHANGED history, EtagSet(p),
         \A c \in issued : Follows(p, c) /\ ~InTurn(c),
         NEW s, sent' = [sent EXCEPT ![p.req] = s],
         \/ s = sent[p.req] /\ (Answered(p.req) \/ Excused(p.req) \/ ~InTurn(p))
         \/ s # <<>> /\ (IF Answered(p.req) THEN s[1] = Reply(p.req) ELSE Truth(p, s[1])),
         \A r \in passed' : \/ r \in passed
                            \/ r = p.req /\ s # <<>>
                            \/ r = p.req /\ OpOf(p) \in NextBeforeAnswer
  PROVE  Moves(p.req, {p}, issued)
<1>1. /\ p \in replies /\ replies' = replies \ {p} /\ calls' = calls \cup issued
      /\ UNCHANGED <<tree, request, dead, done, saw, seen>>
  BY DEF Callback, history
<1>2. Issues(p.req, issued)
  BY FollowsIssues
<1>3. /\ sent \in [Req -> Seq(Code)] /\ p.req \in Req
      /\ sent'[p.req] = s /\ (\A r \in Req \ {p.req} : sent'[r] = sent[r])
  BY <1>1, ResultFacts DEF IInv, TypeOK
<1>4. InTurn(p) => AtRest(p.req)'
  <2>1. InTurn(p) => /\ \A x \in calls : x.req = p.req => ~InTurn(x)
                     /\ \A x \in replies \ {p} : x.req = p.req => ~InTurn(x)
    BY <1>1, ResultFacts
  <2> QED
    BY <1>1, <2>1 DEF AtRest, InTurn
<1>5. ~InTurn(p) /\ AtRest(p.req)' => AtRest(p.req)
  BY <1>1 DEF AtRest, InTurn
<1>6. AnswersOf(p.req)
  <2>1. \A r \in Req \ {p.req} : sent'[r] = sent[r] /\ etag'[r] = etag[r]
    BY <1>3 DEF EtagSet
  <2>2. Answered(p.req) => /\ Answered(p.req)' /\ Reply(p.req)' = Reply(p.req)
                           /\ etag'[p.req] = etag[p.req]
    <3>1. Answered(p.req) => etag'[p.req] = etag[p.req]
      BY <1>1, ResultFacts DEF EtagSet
    <3> QED
      BY <1>3, <3>1 DEF Answered, Reply
  <2>3. ASSUME ~Answered(p.req), Answered(p.req)' PROVE AnswersTruly(p.req)'
    <3>1. Truth(p, s[1]) /\ sent'[p.req][1] = s[1]
      BY <1>3, <2>3 DEF Answered
    <3>2. Store!Truthful(p.req, request[p.req], s[1], etag'[p.req], saw[p.req])
          /\ (s[1] = "BucketNotEmpty" => seen[p.req] # {} /\ AtRest(p.req)')
          /\ (s[1] = "NoContent" /\ request[p.req].op = "removeBucket"
              => seen[p.req] = {} /\ AtRest(p.req)')
      BY <1>4, <3>1 DEF Truth, OpOf
    <3>3. Store!Truthful(p.req, request[p.req], Reply(p.req), etag[p.req], saw[p.req])'
      BY <1>1, <3>1, <3>2 DEF Store!Truthful, Reply
    <3> QED
      BY <1>1, <3>1, <3>2, <3>3 DEF AnswersTruly, Reply
  <2> QED
    BY <2>1, <2>2, <2>3 DEF AnswersOf
<1>7. AtRest(p.req)' => AtRest(p.req) \/ Answered(p.req)' \/ Excused(p.req)'
  BY <1>1, <1>3, <1>5 DEF Answered, Excused
<1>8. etag'[p.req] # etag[p.req]
      => \A x \in calls \cup (replies \ {p}) : x.req = p.req => ~InTurn(x)
  BY <1>1, ResultFacts DEF EtagSet
<1>9. \A r \in passed' : \/ r \in passed
                         \/ (r = p.req /\ (Answered(p.req)' \/ request'[p.req].op \in NextBeforeAnswer))
  BY <1>1, <1>3 DEF Answered, OpOf
<1> QED
  BY <1>1, <1>2, <1>3, <1>6, <1>7, <1>8, <1>9, ResultFacts DEF Moves, Asked

\* The callback ends by one of restify's ways to answer.
LEMMA AnswersBy ==
  ASSUME IInv, FInv, NEW p, NEW cb, NEW issued, Callback(p, cb, issued),
         UNCHANGED history, EtagSet(p),
         \A c \in issued : Follows(p, c) /\ ~InTurn(c),
         NEW code \in Code, ~Answered(p.req) => Truth(p, code),
         \/ Send(p.req, code)
         \/ SendNext(p.req, code)
         \/ Throw(p.req) /\ code = "InternalError"
         \/ /\ NextErr(p.req, code)
            /\ OpOf(p) \notin NextBeforeAnswer \/ Excused(p.req) \/ ~InTurn(p)
  PROVE  Moves(p.req, {p}, issued)
<1>1. p \in replies /\ p.req \in Req /\ sent \in [Req -> Seq(Code)]
  BY ResultFacts DEF Callback, IInv, TypeOK
<1>2. sent = [sent EXCEPT ![p.req] = sent[p.req]]
  BY <1>1
<1>3. \A any \in Code : Append(sent[p.req], any) # sent[p.req]
  <2> SUFFICES ASSUME NEW any \in Code PROVE Append(sent[p.req], any) # sent[p.req]
    OBVIOUS
  <2>1. Len(Append(sent[p.req], any)) = Len(sent[p.req]) + 1 /\ Len(sent[p.req]) \in Nat
    BY <1>1
  <2> QED
    BY <2>1
<1>4. CASE UNCHANGED sent
  <2>1. ASSUME NEW any \in Code PROVE sent' # [sent EXCEPT ![p.req] = Append(@, any)]
    BY <1>1, <1>3, <1>4, <2>1
  <2>2. "InternalError" \in Code
    BY DEF Code
  <2>3. \/ Throw(p.req) /\ Answered(p.req)
        \/ /\ NextErr(p.req, code) /\ p.req \in passed
           /\ OpOf(p) \notin NextBeforeAnswer \/ Excused(p.req) \/ ~InTurn(p)
    BY <2>1, <2>2 DEF Send, SendNext, NextErr, Throw
  <2>4. passed' = passed /\ (Answered(p.req) \/ Excused(p.req) \/ ~InTurn(p))
    BY <1>1, <2>3, ResultFacts DEF Throw, NextErr
  <2> DEFINE s == sent[p.req]
  <2>5. s = sent[p.req] /\ sent' = [sent EXCEPT ![p.req] = s]
    BY <1>2, <1>4
  <2> HIDE DEF s
  <2> QED
    BY <2>4, <2>5, TurnEnds
<1>5. CASE sent' # sent
  <2>0. "InternalError" \in Code
    BY DEF Code
  <2>1. PICK any \in Code : /\ sent' = [sent EXCEPT ![p.req] = Append(sent[p.req], any)]
                            /\ any = code
    BY <1>5, <2>0 DEF Send, SendNext, NextErr, Throw
  <2> DEFINE s == Append(sent[p.req], any)
  <2>2. s # <<>> /\ (Answered(p.req) => s[1] = Reply(p.req)) /\ (~Answered(p.req) => s[1] = any)
    <3>1. sent[p.req] \in Seq(Code) /\ any \in Code
      BY <1>1, <2>1, <2>0
    <3> QED
      BY <3>1 DEF Answered, Reply
  <2>3. IF Answered(p.req) THEN s[1] = Reply(p.req) ELSE Truth(p, s[1])
    BY <2>1, <2>2
  <2>4. sent' = [sent EXCEPT ![p.req] = s]
    BY <2>1
  <2>5. \A r \in passed' : r \in passed \/ r = p.req
    BY DEF Send, SendNext, NextErr, Throw
  <2> HIDE DEF s
  <2> QED
    BY <2>2, <2>3, <2>4, <2>5, TurnEnds
<1> QED
  BY <1>4, <1>5

\* The callback of p is a step of its handler.
Moved(p) == \E issued : Moves(p.req, {p}, issued)

\* The callback issues one call.
LEMMA Continues ==
  ASSUME IInv, FInv, NEW p, NEW cb, NEW c, Callback(p, cb, {c}), UNCHANGED <<sent, history>>,
         EtagSet(p), cb \notin Beside, Follows(p, c), InTurn(c),
         passed' = passed \/ (passed' = passed \cup {p.req} /\ OpOf(p) \in NextBeforeAnswer)
  PROVE  Moved(p)
<1>1. InTurn(p)
  BY ResultFacts DEF Callback, InTurn
<1> QED
  BY <1>1, GoesOn DEF Moved

\* The callback issues no call and answers.
LEMMA EndsWith ==
  ASSUME IInv, FInv, NEW p, NEW cb, Callback(p, cb, {}), UNCHANGED history, EtagSet(p),
         NEW code \in Code, ~Answered(p.req) => Truth(p, code),
         \/ Send(p.req, code)
         \/ SendNext(p.req, code)
         \/ Throw(p.req) /\ code = "InternalError"
         \/ /\ NextErr(p.req, code)
            /\ OpOf(p) \notin NextBeforeAnswer \/ Excused(p.req) \/ ~InTurn(p)
  PROVE  Moved(p)
<1>1. \A c \in {} : Follows(p, c) /\ ~InTurn(c)
  OBVIOUS
<1> HIDE DEF Moved
<1>2. Moves(p.req, {p}, {})
  BY <1>1, AnswersBy
<1> QED
  BY <1>2 DEF Moved

\* Neither a call nor an answer: nothing is due.
LEMMA EndsQuietly ==
  ASSUME IInv, FInv, NEW p, NEW cb, Callback(p, cb, {}), UNCHANGED <<sent, passed, history>>,
         UNCHANGED etag, Excused(p.req) \/ ~InTurn(p)
  PROVE  Moved(p)
<1> DEFINE s == sent[p.req]
<1>1. s = sent[p.req] /\ sent' = [sent EXCEPT ![p.req] = s]
  BY DEF IInv, TypeOK
<1> HIDE DEF s
<1>2. Moves(p.req, {p}, {})
  BY <1>1, TurnEnds DEF EtagSet
<1> QED
  BY <1>2 DEF Moved

\* An answer that reports an internal error makes no promise.
LEMMA ErrorIsTrue ==
  ASSUME NEW p
  PROVE  Truth(p, "InternalError")
BY DEF Truth, Store!Truthful

LEMMA Codes == Code = {"OK", "NoContent", "NoSuchBucket", "NotFound", "BucketAlreadyExists",
                       "BucketNotEmpty", "AllAccessDisabled", "InternalError"}
BY DEF Code

LEMMA BucketsMove ==
  ASSUME IInv, FInv, NEW p, BucketsCallback(p), UNCHANGED history
  PROVE  Moved(p)
<1>1. p \in replies
  BY DEF BucketsCallback, MlsBuckets, MlsBucketsErr, MlsBucketsEnd, HeadBucket, InfoBucketAdd,
         MkdirBuckets, InfoBucketFirst, InfoBucketSecond, CheckForEmptyDir, ErrorOnListing,
         ObjFound, DirFound, FinishedDeadList, RmdirBuckets, Callback
<1>2. /\ OfHandler(p) /\ OfOperation(p) /\ Carries(p) /\ Tells(p)
      /\ EtagSet(p)
  BY <1>1, ResultFacts DEF BucketsCallback, EtagSet
<1> DEFINE Next1(cb, fn, path) == Call(p.req, cb, fn, path, None)
<1>3. MlsBuckets(p) => Moved(p)
  <2>1. p.cb = "mlsBuckets" => OpOf(p) = "listBuckets"
    BY <1>2 DEF OfOperation
  <2>2. ASSUME Callback(p, "mlsBuckets", {}), SendNext(p.req, "OK") PROVE Moved(p)
    <3>1. Truth(p, "OK")
      BY <2>1, <2>2 DEF Truth, Store!Truthful, Callback, OpOf
    <3> QED
      BY <1>2, <2>2, <3>1, EndsWith, Codes
  <2>3. ASSUME Callback(p, "mlsBuckets", {}), Throw(p.req) PROVE Moved(p)
    BY <1>2, <2>3, ErrorIsTrue, EndsWith, Codes
  <2>4. ASSUME NEW c, c = Next1("mlsBucketsStream", "listing", Base),
               Callback(p, "mlsBuckets", {c}), Quiet
        PROVE  Moved(p)
    <3>1. Follows(p, c) /\ InTurn(c) /\ "mlsBuckets" \notin Beside
      BY <2>1, <2>4 DEF Callback, Follows, Call, OfOperation, Intended, Awaited, Carries,
         OpOf, Effects, Preparing, Nobody, InTurn, Beside
    <3> QED
      BY <1>2, <2>4, <3>1, Continues DEF Quiet
  <2> QED
    BY <2>2, <2>3, <2>4 DEF MlsBuckets
<1>4. MlsBucketsErr(p) \/ MlsBucketsEnd(p) => Moved(p)
  <2>1. p.cb = "mlsBucketsStream" => OpOf(p) = "listBuckets"
    BY <1>2 DEF OfOperation
  <2>2. ASSUME Callback(p, "mlsBucketsStream", {}), SendNext(p.req, "OK") \/ Send(p.req, "OK")
        PROVE  Moved(p)
    <3>1. Truth(p, "OK")
      BY <2>1, <2>2 DEF Truth, Store!Truthful, Callback, OpOf
    <3> QED
      BY <1>2, <2>2, <3>1, EndsWith, Codes
  <2>3. ASSUME Callback(p, "mlsBucketsStream", {}), p.res = "fail", Quiet, UNCHANGED etag
        PROVE  Moved(p)
    <3>1. Excused(p.req)
      BY <1>2, <2>1, <2>3 DEF Callback, Tells, TellsBucket, Excused, OpOf
    <3> QED
      BY <2>3, <3>1, EndsQuietly DEF Quiet
  <2> QED
    BY <2>2, <2>3 DEF MlsBucketsErr, MlsBucketsEnd, BucketsCallback
<1>5. HeadBucket(p) => Moved(p)
  <2> SUFFICES ASSUME HeadBucket(p) PROVE Moved(p)
    OBVIOUS
  <2>1. p.cb = "headBucket" /\ OpOf(p) = "bucketExists"
    BY <1>2 DEF HeadBucket, Callback, OfOperation
  <2>2. Truth(p, IF p.res = "ok" THEN "OK" ELSE "NoSuchBucket")
    BY <1>2, <2>1 DEF Truth, Store!Truthful, OpOf, Tells, TellsInfo, Missing
  <2> QED
    BY <1>2, <2>2, EndsWith, Codes DEF HeadBucket
<1>6. InfoBucketAdd(p) => Moved(p)
  <2> SUFFICES ASSUME InfoBucketAdd(p) PROVE Moved(p)
    OBVIOUS
  <2>1. p.cb = "infoBucketAdd" /\ OpOf(p) = "addBucket"
    BY <1>2 DEF InfoBucketAdd, Callback, OfOperation
  <2>2. ASSUME p.res = "ok", Callback(p, "infoBucketAdd", {}),
               NextErr(p.req, "BucketAlreadyExists")
        PROVE  Moved(p)
    <3>1. Truth(p, "BucketAlreadyExists")
      BY <1>2, <2>1, <2>2 DEF Truth, Store!Truthful, OpOf, Tells, TellsInfo
    <3> QED
      BY <1>2, <2>1, <2>2, <3>1, EndsWith, Codes DEF NextBeforeAnswer
  <2>3. ASSUME p.res # "ok", NEW c, c = Next1("mkdirBuckets", "mkdirp", request[p.req].path),
               Callback(p, "infoBucketAdd", {c}), Quiet
        PROVE  Moved(p)
    <3>1. Missing(p.req)'
      BY <1>2, <2>1, <2>3 DEF Tells, TellsInfo, Missing, history
    <3>2. Follows(p, c) /\ InTurn(c) /\ "infoBucketAdd" \notin Beside
      BY <2>1, <2>3, <3>1 DEF Follows, Call, OfOperation, Intended, Awaited, Carries,
         OpOf, PathOf, Effects, Preparing, Nobody, InTurn, Beside
    <3> QED
      BY <1>2, <2>3, <3>2, Continues DEF Quiet
  <2> QED
    BY <2>2, <2>3 DEF InfoBucketAdd
<1>7. MkdirBuckets(p) => Moved(p)
  <2> SUFFICES ASSUME MkdirBuckets(p) PROVE Moved(p)
    OBVIOUS
  <2>1. p.cb = "mkdirBuckets" /\ OpOf(p) = "addBucket" /\ Callback(p, "mkdirBuckets", {})
    BY <1>2 DEF MkdirBuckets, Callback, OfOperation
  <2>2. p.res = "ok" => Truth(p, "OK")
    BY <1>2, <2>1 DEF Truth, Store!Truthful, OpOf, Tells, TellsBucket, Carries, Missing
  <2> QED
    BY <1>2, <2>1, <2>2, ErrorIsTrue, EndsWith, Codes DEF MkdirBuckets, NextBeforeAnswer
<1>8. InfoBucketFirst(p) => Moved(p)
  <2> SUFFICES ASSUME InfoBucketFirst(p) PROVE Moved(p)
    OBVIOUS
  <2>1. /\ p.cb = "infoBucketFirst" /\ Callback(p, "infoBucketFirst", {})
        /\ OpOf(p) = "removeBucket" /\ ~InTurn(p) /\ UNCHANGED etag
    BY <1>2 DEF InfoBucketFirst, Callback, OfHandler, RemovalCallbacks, OpOf, InTurn, Beside,
                BucketsCallback
  <2>2. p.res # "ok" => Truth(p, "NoSuchBucket")
    BY <1>2, <2>1 DEF Truth, Store!Truthful, OpOf, Tells, TellsInfo, Missing
  <2>3. CASE Quiet
    BY <2>1, <2>3, EndsQuietly DEF Quiet
  <2>4. CASE p.res # "ok" /\ NextErr(p.req, "NoSuchBucket")
    BY <1>2, <2>1, <2>2, <2>4, EndsWith, Codes
  <2> QED
    BY <2>3, <2>4 DEF InfoBucketFirst
<1>9. InfoBucketSecond(p) => Moved(p)
  <2> SUFFICES ASSUME InfoBucketSecond(p) PROVE Moved(p)
    OBVIOUS
  <2>1. p.cb = "infoBucketSecond" /\ OpOf(p) = "removeBucket"
    BY <1>2 DEF InfoBucketSecond, Callback, OfHandler, RemovalCallbacks, OpOf
  <2>2. ASSUME p.res # "ok", Callback(p, "infoBucketSecond", {}),
               NextErr(p.req, "NoSuchBucket")
        PROVE  Moved(p)
    <3>1. Truth(p, "NoSuchBucket")
      BY <1>2, <2>1, <2>2 DEF Truth, Store!Truthful, OpOf, Tells, TellsInfo, Missing
    <3> QED
      BY <1>2, <2>1, <2>2, <3>1, EndsWith, Codes DEF NextBeforeAnswer
  <2>3. ASSUME NEW c, c = Next1("checkForEmptyDir", "ls", request[p.req].path),
               Callback(p, "infoBucketSecond", {c}), Quiet
        PROVE  Moved(p)
    <3>1. Follows(p, c) /\ InTurn(c) /\ "infoBucketSecond" \notin Beside
      BY <2>1, <2>3 DEF Follows, Call, OfOperation, Intended, Awaited, Carries,
         OpOf, PathOf, Effects, Preparing, Nobody, InTurn, Beside
    <3> QED
      BY <1>2, <2>3, <3>1, Continues DEF Quiet
  <2> QED
    BY <2>2, <2>3 DEF InfoBucketSecond
<1>10. CheckForEmptyDir(p) => Moved(p)
  <2> SUFFICES ASSUME CheckForEmptyDir(p) PROVE Moved(p)
    OBVIOUS
  <2>1. p.cb = "checkForEmptyDir" /\ OpOf(p) = "removeBucket"
    BY <1>2 DEF CheckForEmptyDir, Callback, OfHandler, RemovalCallbacks, OpOf
  <2>2. ASSUME Callback(p, "checkForEmptyDir", {}), NextErr(p.req, "InternalError")
        PROVE  Moved(p)
    BY <1>2, <2>1, <2>2, ErrorIsTrue, EndsWith, Codes DEF NextBeforeAnswer
  <2>3. ASSUME NEW c, c = Next1("isEmpty", "events", request[p.req].path),
               Callback(p, "checkForEmptyDir", {c}), Quiet
        PROVE  Moved(p)
    <3>1. Follows(p, c) /\ InTurn(c) /\ "checkForEmptyDir" \notin Beside
      BY <2>1, <2>3 DEF Follows, Call, OfOperation, Intended, Awaited, Carries,
         OpOf, PathOf, Effects, Preparing, Nobody, InTurn, Beside
    <3> QED
      BY <1>2, <2>3, <3>1, Continues DEF Quiet
  <2> QED
    BY <2>2, <2>3 DEF CheckForEmptyDir
<1>11. ErrorOnListing(p) \/ ObjFound(p) \/ DirFound(p) => Moved(p)
  <2> SUFFICES ASSUME ErrorOnListing(p) \/ ObjFound(p) \/ DirFound(p) PROVE Moved(p)
    OBVIOUS
  <2>1. p.cb = "isEmpty" /\ OpOf(p) = "removeBucket" /\ Callback(p, "isEmpty", {}) /\ InTurn(p)
    BY <1>2 DEF ErrorOnListing, ObjFound, DirFound, Callback, OfHandler, RemovalCallbacks, OpOf,
                InTurn, Beside, Nobody
  <2>2. p.res \in {"object", "directory"} => Truth(p, "BucketNotEmpty")
    BY <1>2, <2>1 DEF Truth, Store!Truthful, OpOf, Tells, TellsBucket
  <2> QED
    BY <1>2, <2>1, <2>2, ErrorIsTrue, EndsWith, Codes
       DEF ErrorOnListing, ObjFound, DirFound, NextBeforeAnswer
<1>12. FinishedDeadList(p) => Moved(p)
  <2> SUFFICES ASSUME NEW c, c = Next1("rmdirBuckets", "rmr", request[p.req].path),
                      p.res = "end", Callback(p, "isEmpty", {c}), Quiet
               PROVE  Moved(p)
    BY DEF FinishedDeadList
  <2>1. p.cb = "isEmpty" /\ OpOf(p) = "removeBucket"
    BY <1>2 DEF Callback, OfHandler, RemovalCallbacks, OpOf
  <2>2. seen'[p.req] = {}
    BY <1>1, <2>1 DEF IInv, RmrAfterEmptyListing, history
  <2>3. Follows(p, c) /\ InTurn(c) /\ "isEmpty" \notin Beside
    BY <2>1, <2>2 DEF Follows, Call, OfOperation, Intended, Awaited, Carries,
       OpOf, PathOf, Effects, Preparing, Nobody, InTurn, Beside
  <2> QED
    BY <1>2, <2>3, Continues DEF Quiet
<1>13. RmdirBuckets(p) => Moved(p)
  <2> SUFFICES ASSUME RmdirBuckets(p) PROVE Moved(p)
    OBVIOUS
  <2>1. /\ p.cb = "rmdirBuckets" /\ OpOf(p) = "removeBucket" /\ InTurn(p)
        /\ Callback(p, "rmdirBuckets", {})
    BY <1>2 DEF RmdirBuckets, Callback, OfHandler, RemovalCallbacks, OpOf, InTurn, Beside, Nobody
  <2>2. p.res = "ok" => Truth(p, "NoContent")
    BY <1>2, <2>1 DEF Truth, Store!Truthful, OpOf, Tells, TellsBucket, Carries
  <2> QED
    BY <1>2, <2>1, <2>2, ErrorIsTrue, EndsWith, Codes DEF RmdirBuckets, NextBeforeAnswer
<1> QED
  BY <1>3, <1>4, <1>5, <1>6, <1>7, <1>8, <1>9, <1>10, <1>11, <1>12, <1>13 DEF BucketsCallback

LEMMA ObjectsMove ==
  ASSUME IInv, FInv, NEW p, ObjectsCallback(p), UNCHANGED history
  PROVE  Moved(p)
<1>1. p \in replies
  BY DEF ObjectsCallback, HeadPutDir, MkObjDir, ObjectPut, Mmkdirp, HeadGetDir, GetObj,
         FinishedPipingObject, RmObj, FindAllInBucket, MantaLsError, MantaLsEnd,
         LinkedObjectInfo, HeadLnDir, MkLnObjDir, ObjectLinked, Callback
<1>2. /\ OfHandler(p) /\ OfOperation(p) /\ Carries(p) /\ Tells(p)
      /\ p.req \in Req /\ p.val \in Entry
      /\ etag' = etag => EtagSet(p)
  BY <1>1, ResultFacts DEF EtagSet
<1>3. /\ etag \in [Req -> Content \cup {None}]
      /\ sent \in [Req -> Seq(Code)]
      /\ p.cb = "headLnDir" => p.arg \in Entry
      /\ p.cb = "mkLnObjDir" => p.req \in passed
  BY <1>1 DEF IInv, TypeOK, OfCall
<1>4. /\ p.cb \in UploadCallbacks => OpOf(p) = "addObject"
      /\ p.cb \in CopyCallbacks => OpOf(p) = "copyObject"
      /\ p.cb \in ListCallbacks => OpOf(p) = "listObjects"
      /\ p.cb = "mmkdirp" => OpOf(p) = "createDirectory"
      /\ p.cb \in {"headGetDir", "getObj", "finishedPipingObject"} => OpOf(p) = "getObject"
      /\ p.cb = "rmObj" => OpOf(p) = "deleteObject"
  BY <1>2 DEF OfHandler, OfOperation, OpOf
\* addObject
<1>5. ASSUME NEW cb \in {"headPutDir", "mkObjDir"}, Callback(p, cb, {UploadObject(p.req)}),
             Quiet, UNCHANGED etag
      PROVE  Moved(p)
  <2> DEFINE c == UploadObject(p.req)
  <2>1. Follows(p, c) /\ InTurn(c) /\ cb \notin Beside
    BY <1>4, <1>5 DEF Callback, UploadCallbacks, UploadObject, Follows, Call, OfOperation,
       Intended, Awaited, Carries, OpOf, PathOf, Effects, Preparing, Nobody, InTurn, Beside
  <2> HIDE DEF c
  <2> QED
    BY <1>2, <1>5, <2>1, Continues DEF Quiet, c
<1>6. HeadPutDir(p) => Moved(p)
  <2> SUFFICES ASSUME NEW c, c = Call(p.req, "mkObjDir", "mkdirp", Dirname[request[p.req].path],
                                      None),
                      Callback(p, "headPutDir", {c}), Quiet, UNCHANGED etag
               PROVE  Moved(p)
    BY <1>5 DEF HeadPutDir
  <2>1. Follows(p, c) /\ InTurn(c) /\ "headPutDir" \notin Beside
    BY <1>4 DEF Callback, UploadCallbacks, Follows, Call, OfOperation,
       Intended, Awaited, Carries, OpOf, PathOf, Effects, Preparing, Nobody, InTurn, Beside
  <2> QED
    BY <1>2, <2>1, Continues DEF Quiet
<1>7. MkObjDir(p) => Moved(p)
  <2>1. ASSUME Callback(p, "mkObjDir", {}), NextErr(p.req, "InternalError"), UNCHANGED etag
        PROVE  Moved(p)
    <3>1. OpOf(p) \notin NextBeforeAnswer
      BY <1>4, <2>1 DEF Callback, UploadCallbacks, NextBeforeAnswer
    <3> QED
      BY <1>2, <2>1, <3>1, ErrorIsTrue, EndsWith, Codes
  <2> QED
    BY <1>5, <2>1 DEF MkObjDir
<1>8. ObjectPut(p) => Moved(p)
  <2> SUFFICES ASSUME ObjectPut(p) PROVE Moved(p)
    OBVIOUS
  <2>1. p.cb = "objectPut" /\ OpOf(p) = "addObject" /\ Callback(p, "objectPut", {}) /\ InTurn(p)
    BY <1>4 DEF ObjectPut, Callback, UploadCallbacks, InTurn, Beside, Nobody
  <2>2. CASE p.res = "ok" /\ etag' = [etag EXCEPT ![p.req] = p.val] /\ SendNext(p.req, "OK")
    <3>1. EtagSet(p) /\ etag'[p.req] = p.val
      BY <1>2, <1>3, <2>1, <2>2 DEF EtagSet
    <3>2. Truth(p, "OK")
      BY <1>2, <2>1, <2>2, <3>1 DEF Truth, Store!Truthful, OpOf, Tells, TellsEffect
    <3> QED
      BY <2>1, <2>2, <3>1, <3>2, EndsWith, Codes
  <2>3. CASE NextErr(p.req, "InternalError") /\ UNCHANGED etag
    BY <1>2, <2>1, <2>3, ErrorIsTrue, EndsWith, Codes DEF NextBeforeAnswer
  <2> QED
    BY <2>2, <2>3 DEF ObjectPut
\* createDirectory
<1>9. Mmkdirp(p) => Moved(p)
  <2> SUFFICES ASSUME Mmkdirp(p) PROVE Moved(p)
    OBVIOUS
  <2>1. OpOf(p) = "createDirectory" /\ Callback(p, "mmkdirp", {}) /\ etag' = etag
    BY <1>4 DEF Mmkdirp, Callback
  <2>2. Truth(p, "OK")
    BY <2>1 DEF Truth, Store!Truthful, OpOf
  <2> QED
    BY <1>2, <2>1, <2>2, ErrorIsTrue, EndsWith, Codes DEF Mmkdirp, NextBeforeAnswer
\* getObject
<1>10. HeadGetDir(p) => Moved(p)
  <2> SUFFICES ASSUME HeadGetDir(p) PROVE Moved(p)
    OBVIOUS
  <2>1. p.cb = "headGetDir" /\ OpOf(p) = "getObject" /\ etag' = etag
    BY <1>4 DEF HeadGetDir, Callback
  <2>2. ASSUME NEW c, c = Call(p.req, "getObj", "get", request[p.req].path, None),
               Callback(p, "headGetDir", {c}), Quiet
        PROVE  Moved(p)
    <3>1. Follows(p, c) /\ InTurn(c) /\ "headGetDir" \notin Beside
      BY <2>1, <2>2 DEF Follows, Call, OfOperation,
         Intended, Awaited, Carries, OpOf, PathOf, Effects, Preparing, Nobody, InTurn, Beside
    <3> QED
      BY <1>2, <2>1, <2>2, <3>1, Continues DEF Quiet
  <2>3. ASSUME p.res = "notfound", Callback(p, "headGetDir", {}), NextErr(p.req, "NoSuchBucket")
        PROVE  Moved(p)
    <3>1. Truth(p, "NoSuchBucket")
      BY <1>2, <2>1, <2>3 DEF Truth, Store!Truthful, OpOf, Tells, TellsInfo
    <3> QED
      BY <1>2, <2>1, <2>3, <3>1, EndsWith, Codes DEF NextBeforeAnswer
  <2>4. ASSUME Callback(p, "headGetDir", {}), NextErr(p.req, "InternalError")
        PROVE  Moved(p)
    BY <1>2, <2>1, <2>4, ErrorIsTrue, EndsWith, Codes DEF NextBeforeAnswer
  <2> QED
    BY <2>2, <2>3, <2>4 DEF HeadGetDir
<1>11. GetObj(p) => Moved(p)
  <2> SUFFICES ASSUME GetObj(p) PROVE Moved(p)
    OBVIOUS
  <2>1. p.cb = "getObj" /\ OpOf(p) = "getObject" /\ InTurn(p)
    BY <1>4 DEF GetObj, Callback, InTurn, Beside, Nobody
  <2>2. ASSUME p.res = "notfound" \/ p.val = Dir, Callback(p, "getObj", {}),
               SendNext(p.req, "NotFound"), UNCHANGED etag
        PROVE  Moved(p)
    <3>1. Truth(p, "NotFound")
      BY <1>2, <2>1, <2>2 DEF Truth, Store!Truthful, OpOf, Tells, TellsContent
    <3> QED
      BY <1>2, <2>1, <2>2, <3>1, EndsWith, Codes
  <2>3. ASSUME Callback(p, "getObj", {}), NextErr(p.req, "InternalError"), UNCHANGED etag
        PROVE  Moved(p)
    BY <1>2, <2>1, <2>3, ErrorIsTrue, EndsWith, Codes DEF NextBeforeAnswer
  <2>4. ASSUME p.res = "ok", p.val # Dir,
               NEW c, c = Call(p.req, "finishedPipingObject", "body", request[p.req].path, None),
               Callback(p, "getObj", {c}), etag' = [etag EXCEPT ![p.req] = p.val], Quiet
        PROVE  Moved(p)
    <3>1. EtagSet(p) /\ etag'[p.req] = p.val
      BY <1>2, <1>3, <2>1, <2>4 DEF EtagSet
    <3>2. p.val \in Content /\ p.val \in saw[p.req]
      BY <1>2, <2>1, <2>4 DEF Entry, Tells, TellsContent
    <3>3. EtagFound(p.req)'
      BY <3>1, <3>2 DEF EtagFound, history
    <3>4. Follows(p, c) /\ InTurn(c) /\ "getObj" \notin Beside
      BY <2>1, <2>4, <3>3 DEF Follows, Call, OfOperation,
         Intended, Awaited, Carries, OpOf, PathOf, Effects, Preparing, Nobody, InTurn, Beside
    <3> QED
      BY <2>1, <2>4, <3>1, <3>4, Continues DEF Quiet
  <2> QED
    BY <2>2, <2>3, <2>4 DEF GetObj
<1>12. FinishedPipingObject(p) => Moved(p)
  <2> SUFFICES ASSUME FinishedPipingObject(p) PROVE Moved(p)
    OBVIOUS
  <2>1. /\ p.cb = "finishedPipingObject" /\ OpOf(p) = "getObject" /\ etag' = etag
        /\ Callback(p, "finishedPipingObject", {}) /\ SendNext(p.req, "OK")
    BY <1>4 DEF FinishedPipingObject, Callback
  <2>2. Truth(p, "OK")
    BY <1>2, <2>1, Names DEF Truth, Store!Truthful, OpOf, Carries, EtagFound
  <2> QED
    BY <1>2, <2>1, <2>2, EndsWith, Codes
\* deleteObject
<1>13. RmObj(p) => Moved(p)
  <2> SUFFICES ASSUME RmObj(p) PROVE Moved(p)
    OBVIOUS
  <2>1. /\ p.cb = "rmObj" /\ OpOf(p) = "deleteObject" /\ etag' = etag
        /\ Callback(p, "rmObj", {})
    BY <1>4 DEF RmObj, Callback
  <2>2. CASE p.res = "ok" /\ Send(p.req, "NoContent")
    <3>1. Truth(p, "NoContent")
      BY <1>2, <2>1, <2>2 DEF Truth, Store!Truthful, OpOf, Tells, TellsEffect
    <3> QED
      BY <1>2, <2>1, <2>2, <3>1, EndsWith, Codes
  <2>3. CASE p.res = "notfound" /\ NextErr(p.req, "NotFound")
    <3>1. Truth(p, "NotFound")
      BY <1>2, <2>1, <2>3 DEF Truth, Store!Truthful, OpOf, Tells, TellsEffect
    <3> QED
      BY <1>2, <2>1, <2>3, <3>1, EndsWith, Codes DEF NextBeforeAnswer
  <2>4. CASE NextErr(p.req, "InternalError")
    BY <1>2, <2>1, <2>4, ErrorIsTrue, EndsWith, Codes DEF NextBeforeAnswer
  <2> QED
    BY <2>2, <2>3, <2>4 DEF RmObj
\* listObjects
<1>14. FindAllInBucket(p) => Moved(p)
  <2> SUFFICES ASSUME FindAllInBucket(p) PROVE Moved(p)
    OBVIOUS
  <2>1. p.cb = "findAllInBucket" /\ OpOf(p) = "listObjects" /\ etag' = etag
    BY <1>4 DEF FindAllInBucket, Callback, ListCallbacks
  <2>2. ASSUME NEW c, c = Call(p.req, "mantaLs", "listing", request[p.req].path, None),
               Callback(p, "findAllInBucket", {c}), Quiet
        PROVE  Moved(p)
    <3>1. Follows(p, c) /\ InTurn(c) /\ "findAllInBucket" \notin Beside
      BY <2>1, <2>2 DEF Follows, Call, OfOperation,
         Intended, Awaited, Carries, OpOf, PathOf, Effects, Preparing, Nobody, InTurn, Beside
    <3> QED
      BY <1>2, <2>1, <2>2, <3>1, Continues DEF Quiet
  <2>3. ASSUME Callback(p, "findAllInBucket", {}), UNCHANGED passed,
               sent' = [sent EXCEPT ![p.req] = @ \o <<"AllAccessDisabled", "InternalError">>]
        PROVE  Moved(p)
    <3> DEFINE s == sent[p.req] \o <<"AllAccessDisabled", "InternalError">>
    <3>1. sent[p.req] \in Seq(Code)
      BY <1>2, <1>3
    <3>2. s # <<>> /\ (Answered(p.req) => s[1] = Reply(p.req))
          /\ (~Answered(p.req) => s[1] = "AllAccessDisabled")
      BY <3>1, Codes DEF Answered, Reply
    <3>3. Truth(p, "AllAccessDisabled")
      BY DEF Truth, Store!Truthful
    <3>4. sent' = [sent EXCEPT ![p.req] = s]
      BY <2>3
    <3> HIDE DEF s
    <3>5. s # <<>> /\ (IF Answered(p.req) THEN s[1] = Reply(p.req) ELSE Truth(p, s[1]))
      BY <3>2, <3>3
    <3>6. (\A c \in {} : Follows(p, c) /\ ~InTurn(c)) /\ EtagSet(p)
      BY <1>2, <2>1
    <3>7. Moves(p.req, {p}, {})
      BY <2>3, <3>4, <3>5, <3>6, TurnEnds
    <3> QED
      BY <3>7 DEF Moved
  <2>4. ASSUME Callback(p, "findAllInBucket", {}), Send(p.req, "InternalError")
        PROVE  Moved(p)
    BY <1>2, <2>1, <2>4, ErrorIsTrue, EndsWith, Codes
  <2> QED
    BY <2>2, <2>3, <2>4 DEF FindAllInBucket
<1>15. MantaLsError(p) \/ MantaLsEnd(p) => Moved(p)
  <2> SUFFICES ASSUME MantaLsError(p) \/ MantaLsEnd(p) PROVE Moved(p)
    OBVIOUS
  <2>1. /\ p.cb = "mantaLs" /\ OpOf(p) = "listObjects" /\ etag' = etag
        /\ Callback(p, "mantaLs", {}) /\ (Send(p.req, "InternalError") \/ Send(p.req, "OK"))
    BY <1>4 DEF MantaLsError, MantaLsEnd, Callback, ListCallbacks
  <2>2. Truth(p, "OK")
    BY <2>1 DEF Truth, Store!Truthful, OpOf
  <2> QED
    BY <1>2, <2>1, <2>2, ErrorIsTrue, EndsWith, Codes
\* copyObject
<1>16. LinkedObjectInfo(p) => Moved(p)
  <2> SUFFICES ASSUME LinkedObjectInfo(p) PROVE Moved(p)
    OBVIOUS
  <2>1. p.cb = "linkedObjectInfo" /\ OpOf(p) = "copyObject" /\ etag' = etag
    BY <1>4 DEF LinkedObjectInfo, Callback, CopyCallbacks
  <2>2. ASSUME p.res = "ok", NEW c,
               c = Call(p.req, "headLnDir", "info", Dirname[request[p.req].path], p.val),
               Callback(p, "linkedObjectInfo", {c}), NextOk(p.req)
        PROVE  Moved(p)
    <3>1. p.val # None /\ (p.val \in Content => p.val \in saw'[p.req])
      BY <1>2, <2>1, <2>2 DEF Tells, TellsContent, history
    <3>2. Follows(p, c) /\ InTurn(c) /\ "linkedObjectInfo" \notin Beside
      BY <2>1, <2>2, <3>1 DEF Follows, Call, OfOperation,
         Intended, Awaited, Carries, OpOf, PathOf, Effects, Preparing, Nobody, InTurn, Beside
    <3>3. passed' = passed \cup {p.req} /\ OpOf(p) \in NextBeforeAnswer /\ sent' = sent
      BY <2>1, <2>2 DEF NextOk, NextBeforeAnswer
    <3> QED
      BY <1>2, <2>1, <2>2, <3>2, <3>3, Continues
  <2>3. ASSUME p.res # "ok", Callback(p, "linkedObjectInfo", {}), SendNext(p.req, "NotFound")
        PROVE  Moved(p)
    <3>1. Truth(p, "NotFound")
      BY <1>2, <2>1, <2>3 DEF Truth, Store!Truthful, OpOf, Tells, TellsInfo, Missing
    <3> QED
      BY <1>2, <2>1, <2>3, <3>1, EndsWith, Codes
  <2> QED
    BY <2>2, <2>3 DEF LinkedObjectInfo
<1>17. HeadLnDir(p) => Moved(p)
  <2> SUFFICES ASSUME HeadLnDir(p) PROVE Moved(p)
    OBVIOUS
  <2> DEFINE mkdir == Call(p.req, "mkLnObjDir", "mkdirp", Dirname[request[p.req].path], None)
             link  == Call(p.req, "objectLinked", "ln", request[p.req].path, request[p.req].src)
  <2>1. p.cb = "headLnDir" /\ OpOf(p) = "copyObject" /\ InTurn(p)
    BY <1>4 DEF HeadLnDir, Callback, CopyCallbacks, InTurn, Beside, Nobody
  <2>2. PICK issued \in {{}, {mkdir}} :
           \/ /\ p.arg = Dir /\ Callback(p, "headLnDir", issued)
              /\ Throw(p.req) /\ UNCHANGED etag
           \/ /\ p.arg # Dir /\ Callback(p, "headLnDir", issued \cup {link})
              /\ etag' = [etag EXCEPT ![p.req] = p.arg] /\ Quiet
    BY DEF HeadLnDir
  <2>3. Follows(p, mkdir) /\ ~InTurn(mkdir)
    BY <2>1 DEF Follows, Call, OfOperation,
       Intended, Awaited, Carries, OpOf, PathOf, Effects, Preparing, Nobody, InTurn, Beside
  <2>4. CASE p.arg = Dir /\ Callback(p, "headLnDir", issued) /\ Throw(p.req) /\ UNCHANGED etag
    <3>1. \A c \in issued : Follows(p, c) /\ ~InTurn(c)
      BY <2>2, <2>3
    <3>2. Moves(p.req, {p}, issued)
      BY <1>2, <2>4, <3>1, ErrorIsTrue, AnswersBy, Codes
    <3> QED
      BY <3>2 DEF Moved
  <2>5. CASE /\ p.arg # Dir /\ Callback(p, "headLnDir", issued \cup {link})
             /\ etag' = [etag EXCEPT ![p.req] = p.arg] /\ Quiet
    <3>1. p.arg \in Content /\ p.arg \in saw[p.req]
      BY <1>2, <1>3, <2>1, <2>5 DEF Entry, Carries
    <3>2. EtagSet(p) /\ etag'[p.req] = p.arg
      BY <1>2, <1>3, <2>1, <2>5 DEF EtagSet
    <3>3. EtagFound(p.req)'
      BY <3>1, <3>2 DEF EtagFound, history
    <3>4. Follows(p, link) /\ InTurn(link)
      BY <2>1, <3>3 DEF Follows, Call, OfOperation,
         Intended, Awaited, Carries, OpOf, PathOf, Effects, Preparing, Nobody, InTurn, Beside
    <3> DEFINE both == issued \cup {link}
    <3>5. (\A c \in both : Follows(p, c)) /\ (\E c \in both : InTurn(c))
      BY <2>2, <2>3, <3>4
    <3>6. Callback(p, "headLnDir", both)
      BY <2>5
    <3> HIDE DEF both
    <3>7. Moves(p.req, {p}, both)
      BY <2>1, <2>5, <3>2, <3>5, <3>6, GoesOn DEF Quiet
    <3> QED
      BY <3>7 DEF Moved
  <2> QED
    BY <2>2, <2>4, <2>5
<1>18. MkLnObjDir(p) => Moved(p)
  <2> SUFFICES ASSUME MkLnObjDir(p) PROVE Moved(p)
    OBVIOUS
  <2>1. ~InTurn(p) /\ Callback(p, "mkLnObjDir", {}) /\ etag' = etag
    BY DEF MkLnObjDir, Callback, InTurn, Beside
  <2>2. CASE Quiet
    BY <2>1, <2>2, EndsQuietly DEF Quiet
  <2>3. CASE NextErr(p.req, "InternalError")
    BY <1>2, <2>1, <2>3, ErrorIsTrue, EndsWith, Codes
  <2> QED
    BY <2>2, <2>3 DEF MkLnObjDir
<1>19. ObjectLinked(p) => Moved(p)
  <2> SUFFICES ASSUME ObjectLinked(p) PROVE Moved(p)
    OBVIOUS
  <2>1. /\ p.cb = "objectLinked" /\ OpOf(p) = "copyObject" /\ etag' = etag
        /\ Callback(p, "objectLinked", {})
    BY <1>4 DEF ObjectLinked, Callback, CopyCallbacks
  <2>2. CASE p.res = "ok" /\ Send(p.req, "OK")
    <3>1. Truth(p, "OK")
      BY <1>2, <2>1, <2>2, Names
         DEF Truth, Store!Truthful, OpOf, Carries, EtagFound, Tells, TellsEffect
    <3> QED
      BY <1>2, <2>1, <2>2, <3>1, EndsWith, Codes
  <2>3. CASE p.res # "ok" /\ NextErr(p.req, "InternalError")
    <3>1. Excused(p.req)
      BY <1>2, <2>1, <2>3 DEF Excused, OpOf, Tells, TellsEffect
    <3> QED
      BY <1>2, <2>1, <2>3, <3>1, ErrorIsTrue, EndsWith, Codes
  <2> QED
    BY <2>2, <2>3 DEF ObjectLinked
<1> QED
  BY <1>6, <1>7, <1>8, <1>9, <1>10, <1>11, <1>12, <1>13, <1>14, <1>15, <1>16, <1>17, <1>18, <1>19
     DEF ObjectsCallback

----------------------------------------------------------------------------
(* The entry of a handler. *)

\* The first calls of the handler of r.
Begins(r, issued) ==
    \A c \in issued : /\ c.req = r /\ c.cb # Nobody
                      /\ (OfOperation(c) /\ Intended(c) /\ Awaited(c) /\ Carries(c))'

\* The handler is entered and issues calls, or answers at once.
LEMMA Enters ==
  ASSUME IInv, FInv, NEW r \in Req, NEW q \in Menu, ~Asked(r),
         request' = [request EXCEPT ![r] = q], NEW issued, Enter(issued), UNCHANGED history,
         Begins(r, issued),
         \/ (\E c \in issued : InTurn(c)) /\ Quiet
         \/ (\E c \in issued : InTurn(c)) /\ NextOk(r) /\ q.op \in NextBeforeAnswer
         \/ q.op \in {"listObjects", "listMultipartUploads", "getAcl"} /\ SendNext(r, "OK")
         \/ Throw(r)
  PROVE  Moves(r, {}, issued)
<1>1. /\ UNCHANGED <<tree, replies, etag, dead, done, saw, seen>> /\ calls' = calls \cup issued
      /\ request'[r] = q /\ (\A s \in Req \ {r} : request'[s] = request[s])
  BY DEF Enter, history, IInv, TypeOK
<1>2. /\ \A c \in calls : c.req # r
      /\ sent[r] = <<>> /\ ~Answered(r)
      /\ r \notin done /\ r \notin dead /\ etag[r] = None /\ saw[r] = {}
  BY DEF IInv, HandlersOfItems, OfHandler, UnansweredInTurn, Answered, FInv, UnknownBefore
<1>3. Asked(r)'
  BY <1>1, MenuAssumption DEF Asked
<1>4. Issues(r, issued)
  BY <1>1, <1>2 DEF Issues, Begins, Ahead
<1>5. \/ sent' = sent /\ (\E c \in issued : InTurn(c))
      \/ \E code \in {"OK", "InternalError"} :
            /\ code = "OK" => q.op \in {"listObjects", "listMultipartUploads", "getAcl"}
            /\ sent' = [sent EXCEPT ![r] = <<code>>]
  <2>1. \A code \in {"OK", "InternalError"} : Append(sent[r], code) = <<code>>
    BY <1>2
  <2> QED
    BY <1>2, <2>1 DEF Quiet, NextOk, SendNext, Throw
<1>6. sent \in [Req -> Seq(Code)]
  BY DEF IInv, TypeOK
<1>7. AnswersOf(r) /\ (AtRest(r)' => Answered(r)')
  <2>1. CASE sent' = sent /\ (\E c \in issued : InTurn(c))
    <3>1. ~AtRest(r)'
      BY <1>1, <2>1 DEF AtRest, Begins, InTurn
    <3> QED
      BY <1>1, <1>2, <2>1, <3>1 DEF AnswersOf, Answered
  <2>2. ASSUME NEW code \in {"OK", "InternalError"}, sent' = [sent EXCEPT ![r] = <<code>>],
               code = "OK" => q.op \in {"listObjects", "listMultipartUploads", "getAcl"}
        PROVE  AnswersOf(r) /\ Answered(r)'
    <3>1. sent'[r] = <<code>> /\ (\A s \in Req \ {r} : sent'[s] = sent[s])
      BY <1>6, <2>2
    <3>2. Answered(r)' /\ Reply(r)' = code
      <4>1. <<code>> # <<>> /\ <<code>>[1] = code
        OBVIOUS
      <4> QED
        BY <3>1, <4>1 DEF Answered, Reply
    <3>3. Store!Truthful(r, request[r], Reply(r), etag[r], saw[r])'
      BY <1>1, <2>2, <3>2 DEF Store!Truthful
    <3>4. AnswersTruly(r)'
      BY <3>2, <3>3 DEF AnswersTruly
    <3> QED
      BY <1>1, <1>2, <3>1, <3>2, <3>4 DEF AnswersOf
  <2> QED
    BY <1>5, <2>1, <2>2
<1>8. \A s \in passed' : s \in passed
                         \/ (s = r /\ (Answered(r)' \/ request'[r].op \in NextBeforeAnswer))
  <2>1. SendNext(r, "OK") => Answered(r)'
    <3>1. Append(sent[r], "OK") # <<>>
      BY <1>2
    <3> QED
      BY <1>6, <3>1 DEF SendNext, Answered
  <2> QED
    BY <1>1, <2>1 DEF Quiet, NextOk, SendNext, Throw
<1> QED
  BY <1>1, <1>2, <1>3, <1>4, <1>7, <1>8 DEF Moves, history

LEMMA ArriveMoves ==
  ASSUME IInv, FInv, NEW r \in Req, NEW q \in Menu, Arrive(r, q)
  PROVE  \E issued : Moves(r, {}, issued)
<1>1. /\ ~Asked(r) /\ request' = [request EXCEPT ![r] = q] /\ UNCHANGED history
      /\ BucketsEnter(r, q) \/ ObjectsEnter(r, q)
      /\ request'[r] = q
  BY DEF Arrive, IInv, TypeOK
<1> DEFINE Goal == \E issued : Moves(r, {}, issued)
<1>2. ASSUME Enter({}), \/ Throw(r)
                        \/ /\ q.op \in {"listObjects", "listMultipartUploads", "getAcl"}
                           /\ SendNext(r, "OK")
      PROVE  Goal
  <2>1. Begins(r, {})
    BY DEF Begins
  <2>2. Moves(r, {}, {})
    BY <1>1, <1>2, <2>1, Enters
  <2> QED
    BY <2>2
<1>3. ASSUME NEW c, Begins(r, {c}), InTurn(c), Enter({c}),
             Quiet \/ (NextOk(r) /\ q.op \in NextBeforeAnswer)
      PROVE  Goal
  <2>1. Moves(r, {}, {c})
    BY <1>1, <1>3, Enters
  <2> QED
    BY <2>1
<1> SUFFICES Goal
  OBVIOUS
<1> HIDE DEF Goal
<1>4. CASE q.op = "listBuckets" /\ ListBuckets(r)
  <2> DEFINE c == Call(r, "mlsBuckets", "ls", Base, None)
  <2>1. Begins(r, {c}) /\ InTurn(c)
    BY <1>1, <1>4 DEF Begins, Call, OfOperation, Intended, Awaited, Carries, OpOf, PathOf, Effects,
       Preparing, Nobody, InTurn, Beside
  <2> QED
    BY <1>3, <1>4, <2>1 DEF ListBuckets, NextBeforeAnswer
<1>5. CASE q.op = "bucketExists" /\ BucketExists(r, q)
  <2> DEFINE c == Call(r, "headBucket", "info", q.path, None)
  <2>1. Begins(r, {c}) /\ InTurn(c)
    BY <1>1, <1>5 DEF Begins, Call, OfOperation, Intended, Awaited, Carries, OpOf, PathOf, Effects,
       Preparing, Nobody, InTurn, Beside
  <2> QED
    BY <1>3, <1>5, <2>1 DEF BucketExists
<1>6. CASE q.op = "addBucket" /\ AddBucket(r, q)
  <2> DEFINE c == Call(r, "infoBucketAdd", "info", q.path, None)
  <2>1. Begins(r, {c}) /\ InTurn(c)
    BY <1>1, <1>6 DEF Begins, Call, OfOperation, Intended, Awaited, Carries, OpOf, PathOf, Effects,
       Preparing, Nobody, InTurn, Beside
  <2> QED
    BY <1>3, <1>6, <2>1 DEF AddBucket
<1>7. CASE q.op = "removeBucket" /\ RemoveBucket(r, q)
  <2> DEFINE first  == Call(r, "infoBucketFirst", "info", q.path, None)
             second == Call(r, "infoBucketSecond", "info", q.path, None)
  <2>1. Begins(r, {first, second}) /\ InTurn(second)
    BY <1>1, <1>7 DEF Begins, Call, OfOperation, Intended, Awaited, Carries, OpOf, PathOf, Effects,
       Preparing, Nobody, InTurn, Beside
  <2>2. Enter({first, second}) /\ Quiet
    BY <1>7 DEF RemoveBucket
  <2> HIDE DEF first, second
  <2>3. Moves(r, {}, {first, second})
    BY <1>1, <2>1, <2>2, Enters
  <2> QED
    BY <2>3 DEF Goal
<1>8. CASE q.op = "addObject" /\ AddObject(r, q)
  <2> DEFINE c == Call(r, "headPutDir", "info", Dirname[q.path], None)
  <2>1. Begins(r, {c}) /\ InTurn(c)
    BY <1>1, <1>8 DEF Begins, Call, OfOperation, Intended, Awaited, Carries, OpOf, PathOf, Effects,
       Preparing, Nobody, InTurn, Beside
  <2> QED
    BY <1>3, <1>8, <2>1 DEF AddObject
<1>9. CASE q.op = "createDirectory" /\ CreateDirectory(r, q)
  <2> DEFINE c == Call(r, "mmkdirp", "mkdirp", q.path, None)
  <2>1. Begins(r, {c}) /\ InTurn(c)
    BY <1>1, <1>9 DEF Begins, Call, OfOperation, Intended, Awaited, Carries, OpOf, PathOf, Effects,
       Preparing, Nobody, InTurn, Beside
  <2> QED
    BY <1>3, <1>9, <2>1 DEF CreateDirectory
<1>10. CASE q.op = "getObject" /\ GetObject(r, q)
  <2> DEFINE c == Call(r, "headGetDir", "info", BucketOf(q.path), None)
  <2>1. Begins(r, {c}) /\ InTurn(c)
    BY <1>1, <1>10 DEF Begins, Call, OfOperation, Intended, Awaited, Carries, OpOf, PathOf, Effects,
       Preparing, Nobody, InTurn, Beside
  <2> QED
    BY <1>3, <1>10, <2>1 DEF GetObject
<1>11. CASE q.op = "deleteObject" /\ DeleteObject(r, q)
  <2> DEFINE c == Call(r, "rmObj", "unlink", q.path, None)
  <2>1. Begins(r, {c}) /\ InTurn(c)
    BY <1>1, <1>11 DEF Begins, Call, OfOperation, Intended, Awaited, Carries, OpOf, PathOf, Effects,
       Preparing, Nobody, InTurn, Beside
  <2> QED
    BY <1>3, <1>11, <2>1 DEF DeleteObject
<1>12. CASE q.op = "listObjects" /\ ListObjects(r, q)
  <2> DEFINE c == Call(r, "findAllInBucket", "ls", q.path, None)
  <2>1. Begins(r, {c}) /\ InTurn(c)
    BY <1>1, <1>12 DEF Begins, Call, OfOperation, Intended, Awaited, Carries, OpOf, PathOf, Effects,
       Preparing, Nobody, InTurn, Beside
  <2> QED
    BY <1>2, <1>3, <1>12, <2>1 DEF ListObjects, NextBeforeAnswer
<1>13. CASE q.op = "copyObject" /\ CopyObject(r, q)
  <2> DEFINE c == Call(r, "linkedObjectInfo", "info", q.src, None)
  <2>1. Begins(r, {c}) /\ InTurn(c)
    BY <1>1, <1>13 DEF Begins, Call, OfOperation, Intended, Awaited, Carries, OpOf, PathOf, Effects,
       Preparing, Nobody, InTurn, Beside
  <2> QED
    BY <1>3, <1>13, <2>1 DEF CopyObject
<1>14. CASE \/ q.op = "listMultipartUploads" /\ ListMultipartUploads(r)
            \/ q.op = "getAcl" /\ GetAcl(r)
            \/ q.op = "putAcl" /\ PutAcl(r)
  BY <1>2, <1>14 DEF ListMultipartUploads, GetAcl, PutAcl
<1> QED
  BY <1>1, <1>4, <1>5, <1>6, <1>7, <1>8, <1>9, <1>10, <1>11, <1>12, <1>13, <1>14
     DEF BucketsEnter, ObjectsEnter

----------------------------------------------------------------------------
(* The second layer of the invariant, and the theorems that rest on it. *)

LEMMA InitFacts == Init => FInv
<1> SUFFICES ASSUME Init PROVE FInv
  OBVIOUS
<1>1. \A r \in Req : ~Asked(r) /\ ~Answered(r)
  BY DEF Init, Asked, Answered
<1>2. None \notin Req /\ Dir \notin Req /\ Old \notin Req
  BY ContentAssumption DEF Content
<1>3. \A p \in Path : tree[p] \notin Req
  BY <1>2 DEF Init
<1> QED
  BY <1>1, <1>3 DEF Init, FInv, CallsAsMade, ResultsTell, OneEffect, UnknownBefore, DeadAreSilent,
     RemovalSettled, Said, TurnOrAnswer

LEMMA StutterKeepsFacts ==
  ASSUME FInv, UNCHANGED vars
  PROVE  FInv'
<1> USE DEF FInv, vars, mantaVars, httpVars, history
<1>1. CallsAsMade'
  BY DEF CallsAsMade, OfOperation, Intended, Awaited, OpOf, PathOf
<1>2. ResultsTell'
  BY DEF ResultsTell, Carries, Missing, EtagFound, Tells, TellsInfo, TellsContent, TellsBucket,
         TellsEffect
<1>3. OneEffect' /\ UnknownBefore' /\ DeadAreSilent'
  BY DEF OneEffect, Ahead, Answered, UnknownBefore, Asked, DeadAreSilent
<1>4. RemovalSettled' /\ TurnOrAnswer'
  BY DEF RemovalSettled, TurnOrAnswer, Said, Reply, Answered, Asked, AtRest, Excused
<1> QED
  BY <1>1, <1>2, <1>3, <1>4

LEMMA NextKeepsFacts == IInv /\ IInv' /\ FInv /\ [Next]_vars => FInv'
<1> SUFFICES ASSUME IInv, IInv', FInv, [Next]_vars PROVE FInv'
  OBVIOUS
<1>1. ASSUME NEW r \in Req, NEW q \in Menu, Arrive(r, q) PROVE FInv'
  BY <1>1, ArriveMoves, MovesKeeps
<1>2. ASSUME NEW r \in Req, Serve(r) PROVE FInv'
  BY <1>2, ServeKeepsFacts
<1>3. ASSUME NEW r \in Req, RunCallback(r) PROVE FInv'
  <2>1. PICK p \in replies : /\ p.req = r
                             /\ BucketsCallback(p) \/ ObjectsCallback(p)
                             /\ UNCHANGED history
    BY <1>3 DEF RunCallback
  <2>2. Moved(p)
    BY <2>1, BucketsMove, ObjectsMove
  <2> QED
    BY <2>1, <2>2, MovesKeeps DEF Moved
<1>4. ASSUME NEW r \in Req, LoseConnection(r) PROVE FInv'
  BY <1>4, LoseConnectionKeepsFacts
<1>5. ASSUME NEW R \in SUBSET Req, ProcessExits(R) PROVE FInv'
  BY <1>5, ProcessExitsKeepsFacts
<1>6. ASSUME Idle \/ UNCHANGED vars PROVE FInv'
  BY <1>6, StutterKeepsFacts DEF Idle
<1> QED
  BY <1>1, <1>2, <1>3, <1>4, <1>5, <1>6 DEF Next

\* In every state of every run of the bridge the calls under way are those
\* their handlers make, the results tell what Manta found or did, a request
\* has its effect at most once and, without failures, before its answer, and
\* each request is in its turn, answered, or one the code leaves alone.
THEOREM FactsInductive == Spec => []FInv
<1>1. Init => FInv
  BY InitFacts
<1>2. IInv /\ IInv' /\ FInv /\ [Next]_vars => FInv'
  BY NextKeepsFacts
<1> QED
  BY <1>1, <1>2, Inductive, PTL DEF Spec

\* removeBucket refuses a bucket only after its own listing has shown an entry,
\* and reports the removal only after its listing has shown none.
THEOREM RemovalsFollowListings == Spec => []RemovalFollowsListing
<1>1. FInv => RemovalFollowsListing
  BY DEF FInv, RemovalSettled, RemovalFollowsListing
<1> QED
  BY <1>1, FactsInductive, PTL

LEMMA NoneForgottenWhenInvariant == FInv => NoneForgotten
<1> SUFFICES ASSUME FInv, NEW r \in Req, Due(r), ~Busy(r) PROVE Answered(r)
  BY DEF NoneForgotten
<1>1. Asked(r) /\ r \notin dead /\ ~Excused(r)
  BY DEF Due, Excused
<1>2. AtRest(r)
  BY DEF Busy, AtRest, InTurn
<1> QED
  BY <1>1, <1>2 DEF FInv, TurnOrAnswer

\* No callback of buckets.js or objects.js returns without the next call or
\* an answer, where an answer is due: what is not answered is still under way.
THEOREM NoneIsForgotten == Spec => []NoneForgotten
BY NoneForgottenWhenInvariant, FactsInductive, PTL
=============================================================================
