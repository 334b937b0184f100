---------------------------- MODULE BridgeProofs ----------------------------
(***************************************************************************)
(* Proofs, for every set of requests, hierarchy of paths and menu, that    *)
(* the invariant IInv of BridgeInv is inductive and that the safety        *)
(* properties of Bridge follow from it.                                    *)
(***************************************************************************)
EXTENDS BridgeInv, TLAPS

LEMMA Names == None \notin Content /\ Dir \notin Content /\ None # Dir
BY ContentAssumption DEF None, Dir

LEMMA MenuType == \A q \in Menu \cup {NoRequest} :
                     q.op \in Op \cup {"none"} /\ q.path \in Path /\ q.src \in Path
<1>1. NoRequest \in Request
  BY HierarchyAssumption DEF NoRequest, Request
<1> QED
  BY <1>1, MenuAssumption DEF Request

\* The path of an addObject or a copyObject is below a bucket.
LEMMA MenuKeys == \A q \in Menu \cup {NoRequest} :
                     q.op \in {"addObject", "copyObject", "getObject"} => q.path \in Keys
BY MenuAssumption DEF NoRequest, KeyOps

----------------------------------------------------------------------------
(* The tree. *)

LEMMA AboveType == \A p \in Path : Above[p] \subseteq Path /\ p \in Above[p]
<1> TAKE p \in Path
<1>1. CASE p = Base
  BY <1>1, HierarchyAssumption
<1>2. CASE p # Base
  BY <1>2, HierarchyAssumption
<1> QED
  BY <1>1, <1>2

\* A directory without children has nothing stored anywhere below it.
LEMMA EmptyBelow ==
  ASSUME Consistent, NEW d \in Path, Children(d) = {}, NEW p \in Path,
         d \in Above[p], p # d
  PROVE  tree[p] = None
<1> SUFFICES ASSUME tree[p] # None PROVE FALSE
  OBVIOUS
<1>1. PICK q \in Above[p] : q # Base /\ Dirname[q] = d
  BY HierarchyAssumption
<1>2. q \in Path
  BY AboveType
<1>3. tree[q] # None
  BY <1>2, Names DEF Consistent
<1> QED
  BY <1>1, <1>2, <1>3 DEF Children

\* Making every directory down to a path, where no object is in the way.
LEMMA MakeDirectories ==
  ASSUME TypeOK, Consistent, BucketsAreDirectories, NEW last \in Path,
         tree' = [p \in Path |-> IF p \in Above[last] THEN Dir ELSE tree[p]]
  PROVE  tree' \in [Path -> Entry] /\ Consistent' /\ BucketsAreDirectories'
<1>1. tree' \in [Path -> Entry]
  BY DEF TypeOK, Entry
<1>2. Consistent'
  <2> SUFFICES ASSUME NEW p \in Path, NEW d \in Above[p] \ {p}, tree'[p] # None
               PROVE  tree'[d] = Dir
    BY DEF Consistent
  <2>1. d \in Path
    BY AboveType
  <2>2. CASE p \in Above[last]
    BY <2>1, <2>2, HierarchyAssumption
  <2>3. CASE p \notin Above[last]
    BY <2>1, <2>3 DEF Consistent
  <2> QED
    BY <2>2, <2>3
<1>3. BucketsAreDirectories'
  BY HierarchyAssumption DEF BucketsAreDirectories, Buckets
<1> QED
  BY <1>1, <1>2, <1>3

\* Writing an object where its parent is a directory and it is not one.
LEMMA StoreObject ==
  ASSUME TypeOK, Consistent, BucketsAreDirectories, NEW k \in Keys, Writable(k),
         NEW content \in Content, tree' = [tree EXCEPT ![k] = content]
  PROVE  tree' \in [Path -> Entry] /\ Consistent' /\ BucketsAreDirectories'
<1> k \in Path /\ k # Base /\ k \notin Buckets
  BY DEF Keys
<1>1. tree' \in [Path -> Entry]
  BY DEF TypeOK, Entry
<1>2. Consistent'
  <2> SUFFICES ASSUME NEW p \in Path, NEW d \in Above[p] \ {p}, tree'[p] # None
               PROVE  tree'[d] = Dir
    BY DEF Consistent
  <2>1. d \in Path
    BY AboveType
  <2>2. CASE p = k
    <3>1. d \in Above[Dirname[k]]
      BY <2>2, HierarchyAssumption
    <3>2. tree[Dirname[k]] = Dir /\ Dirname[k] \in Path
      BY HierarchyAssumption DEF Writable
    <3>3. tree[d] = Dir
      BY <3>1, <3>2, Names DEF Consistent
    <3> QED
      BY <2>1, <2>2, <3>3 DEF TypeOK
  <2>3. CASE p # k
    <3>1. tree[d] = Dir
      BY <2>3 DEF Consistent, TypeOK
    <3>2. d # k
      BY <3>1 DEF Writable
    <3> QED
      BY <2>1, <3>1, <3>2 DEF TypeOK
  <2> QED
    BY <2>2, <2>3
<1>3. BucketsAreDirectories'
  BY HierarchyAssumption DEF BucketsAreDirectories, Buckets, TypeOK
<1> QED
  BY <1>1, <1>2, <1>3

\* Removing an entry that has no children.
LEMMA RemoveLeaf ==
  ASSUME TypeOK, Consistent, BucketsAreDirectories, NEW e \in Path, Children(e) = {},
         tree' = [tree EXCEPT ![e] = None]
  PROVE  tree' \in [Path -> Entry] /\ Consistent' /\ BucketsAreDirectories'
<1>1. tree' \in [Path -> Entry]
  BY DEF TypeOK, Entry
<1>2. Consistent'
  <2> SUFFICES ASSUME NEW p \in Path, NEW d \in Above[p] \ {p}, tree'[p] # None
               PROVE  tree'[d] = Dir
    BY DEF Consistent
  <2>1. d \in Path
    BY AboveType
  <2>2. p # e /\ tree[p] # None
    BY DEF TypeOK
  <2>3. d # e
    BY <2>2, EmptyBelow
  <2> QED
    BY <2>1, <2>2, <2>3 DEF Consistent, TypeOK
<1>3. BucketsAreDirectories'
  BY HierarchyAssumption DEF BucketsAreDirectories, Buckets, TypeOK
<1> QED
  BY <1>1, <1>2, <1>3

----------------------------------------------------------------------------
(* The calls and results.  Turns is the part of IInv that speaks of them.  *)

Turns == OneTurn /\ HandlersOfItems /\ UnansweredInTurn /\ OfCall

\* Manta answers a call: its result takes its place.
LEMMA AnswerTurns ==
  ASSUME TypeOK, Turns, NEW c \in calls, NEW res \in Result, NEW val \in Entry,
         Answer(c, res, val), UNCHANGED httpVars,
         c.cb = "objectPut" => val \in Content \cup {None}
  PROVE  calls' \subseteq CallType /\ replies' \subseteq ReplyType /\ Turns'
<1> DEFINE p == [req |-> c.req, cb |-> c.cb, res |-> res, val |-> val, arg |-> c.arg]
<1> USE DEF httpVars
<1>0. c \in CallType
  BY DEF TypeOK
<1>1. calls' = calls \ {c} /\ (replies' = replies \/ (c.cb # Nobody /\ replies' = replies \cup {p}))
  BY DEF Answer
<1>2. calls' \subseteq CallType
  BY <1>1 DEF TypeOK
<1>3. replies' \subseteq ReplyType
  <2>1. c.cb # Nobody => p \in ReplyType
    BY <1>0 DEF ReplyType, CallType
  <2> QED
    BY <1>1, <2>1 DEF TypeOK
<1>4. OneTurn'
  <2>1. \A x, y \in calls' : x.req = y.req /\ InTurn(x) /\ InTurn(y) => x = y
    BY <1>1 DEF Turns, OneTurn
  <2>2. \A x, y \in replies' : x.req = y.req /\ InTurn(x) /\ InTurn(y) => x = y
    BY <1>1 DEF Turns, OneTurn, InTurn
  <2>3. \A x \in calls', y \in replies' : x.req = y.req /\ InTurn(x) => ~InTurn(y)
    BY <1>1 DEF Turns, OneTurn, InTurn
  <2> QED
    BY <2>1, <2>2, <2>3 DEF OneTurn, InTurn
<1>5. HandlersOfItems'
  BY <1>1 DEF Turns, HandlersOfItems, OfHandler, Asked
<1>6. UnansweredInTurn'
  BY <1>1 DEF Turns, UnansweredInTurn, InTurn, Answered, Asked
<1>7. OfCall'
  BY <1>1, <1>0 DEF Turns, OfCall
<1> QED
  BY <1>2, <1>3, <1>4, <1>5, <1>6, <1>7 DEF Turns

LEMMA NobodyNoCallback == Nobody \notin Callbacks
BY DEF Nobody, Callbacks, RemovalCallbacks, UploadCallbacks, CopyCallbacks,
       ListCallbacks, OtherCallbacks

LEMMA OrphanedType ==
  ASSUME NEW c \in CallType
  PROVE  /\ Orphaned(c) \in CallType
         /\ Orphaned(c).cb = Nobody
         /\ Orphaned(c).req = c.req
         /\ Orphaned(c).fn = c.fn
         /\ Orphaned(c).path = c.path
BY DEF CallType, Orphaned, Call

\* Calls and results go, or lose the callback that waits for them.
LEMMA FewerTurns ==
  ASSUME TypeOK, Turns, UNCHANGED <<request, sent, passed>>, replies' \subseteq replies,
         \A c \in calls' : \/ c \in calls
                           \/ \E d \in calls : d.fn \in Changing /\ c = Orphaned(d)
  PROVE  calls' \subseteq CallType /\ replies' \subseteq ReplyType /\ Turns'
<1>1. \A c \in calls' : c \notin calls =>
         \E d \in calls : /\ d.fn \in Changing
                          /\ c \in CallType
                          /\ c.cb = Nobody
                          /\ c.req = d.req /\ c.fn = d.fn /\ c.path = d.path
  BY OrphanedType DEF TypeOK
<1>2. calls' \subseteq CallType /\ replies' \subseteq ReplyType
  BY <1>1 DEF TypeOK
<1>3. OneTurn'
  BY <1>1 DEF Turns, OneTurn, InTurn
<1>4. HandlersOfItems'
  BY <1>1, NobodyNoCallback DEF Turns, HandlersOfItems, OfHandler, Asked, Callbacks
<1>5. UnansweredInTurn'
  BY <1>1 DEF Turns, UnansweredInTurn, InTurn, Answered, Asked
<1>6. OfCall'
  <2>1. "events" \notin Changing /\ Nobody \notin {"isEmpty", "objectPut", "headLnDir", "mkLnObjDir"}
    BY DEF Changing, Nobody
  <2> QED
    BY <1>1, <2>1 DEF Turns, OfCall
<1> QED
  BY <1>2, <1>3, <1>4, <1>5, <1>6 DEF Turns

\* The connection of a call is lost: its callback gets an error.
LEMMA HangUpTurns ==
  ASSUME TypeOK, Turns, NEW c \in calls, HangUp(c), UNCHANGED httpVars
  PROVE  calls' \subseteq CallType /\ replies' \subseteq ReplyType /\ Turns'
<1> DEFINE d == Orphaned(c)
           p == [req |-> c.req, cb |-> c.cb, res |-> "fail", val |-> None, arg |-> c.arg]
<1> USE DEF httpVars
<1>0. c \in CallType
  BY DEF TypeOK
<1>1. calls' = (calls \ {c}) \cup {d} /\ replies' = replies \cup {p} /\ c.cb # Nobody
  BY DEF HangUp
<1>2. d \in CallType /\ d.cb = Nobody /\ d.req = c.req /\ d.fn = c.fn /\ d.path = c.path
  BY <1>0, OrphanedType
<1>3. p \in ReplyType /\ p.req = c.req /\ p.cb = c.cb /\ p.val = None /\ p.arg = c.arg
  BY <1>0, <1>1 DEF CallType, ReplyType, Result, Entry
<1> HIDE DEF d, p
<1>4. OneTurn'
  <2>1. \A x, y \in calls' : x.req = y.req /\ InTurn(x) /\ InTurn(y) => x = y
    BY <1>1, <1>2 DEF Turns, OneTurn, InTurn
  <2>2. \A x, y \in replies' : x.req = y.req /\ InTurn(x) /\ InTurn(y) => x = y
    BY <1>1, <1>3 DEF Turns, OneTurn, InTurn
  <2>3. \A x \in calls', y \in replies' : x.req = y.req /\ InTurn(x) => ~InTurn(y)
    BY <1>1, <1>2, <1>3 DEF Turns, OneTurn, InTurn
  <2> QED
    BY <2>1, <2>2, <2>3 DEF OneTurn, InTurn
<1>5. HandlersOfItems'
  BY <1>1, <1>2, <1>3, NobodyNoCallback
     DEF Turns, HandlersOfItems, OfHandler, Asked, Callbacks
<1>6. UnansweredInTurn'
  BY <1>1, <1>2, <1>3 DEF Turns, UnansweredInTurn, InTurn, Answered, Asked
<1>7. OfCall'
  <2>1. c.fn # "events"
    BY DEF HangUp, Changing
  <2>2. Nobody \notin {"isEmpty", "objectPut", "headLnDir", "mkLnObjDir"}
    BY DEF Nobody
  <2> QED
    BY <1>1, <1>2, <1>3, <2>1, <2>2 DEF Turns, OfCall
<1> QED
  BY <1>1, <1>2, <1>3, <1>4, <1>5, <1>6, <1>7 DEF Turns, TypeOK

----------------------------------------------------------------------------
(* What Manta does. *)

LEMMA RecordType ==
  ASSUME TypeOK, NEW c \in calls, Record(c), tree' \in [Path -> Entry]
  PROVE  done' \subseteq Req /\ saw' \in [Req -> SUBSET Entry] /\ seen' \in [Req -> SUBSET Path]
<1>1. c.req \in Req /\ c.path \in Path
  BY DEF TypeOK, CallType
<1>2. Subject(request[c.req]) \in Path
  BY <1>1, MenuType DEF TypeOK, Subject
<1>3. Visible(tree', Subject(request[c.req])) \in Entry
  BY <1>2 DEF Visible, Entry
<1>4. Stored(c.path) \subseteq Path
  BY DEF Stored, Below
<1> QED
  BY <1>1, <1>3, <1>4 DEF Record, TypeOK

\* The listing of an empty bucket shows that nothing is stored below it.
LEMMA EmptyListing ==
  ASSUME Consistent, NEW d \in Path, Children(d) = {}
  PROVE  Stored(d) \ {d} = {}
BY EmptyBelow DEF Stored, Below

LEMMA AnswerKeepsListing ==
  ASSUME TypeOK, Consistent, Turns, RmrAfterEmptyListing,
         NEW c \in calls, NEW res \in Result, NEW val \in Entry, Answer(c, res, val),
         \/ UNCHANGED seen /\ (c.fn = "events" => res # "end")
         \/ Record(c) /\ (c.fn = "events" /\ res = "end" => Children(c.path) = {})
  PROVE  RmrAfterEmptyListing'
<1> DEFINE p == [req |-> c.req, cb |-> c.cb, res |-> res, val |-> val, arg |-> c.arg]
<1>0. c.req \in Req /\ c.path \in Path
  BY DEF TypeOK, CallType
<1>1. calls' = calls \ {c} /\ (replies' = replies \/ (c.cb # Nobody /\ replies' = replies \cup {p}))
  BY DEF Answer
<1>2. p.req = c.req /\ p.cb = c.cb /\ p.res = res
  OBVIOUS
<1> HIDE DEF p
<1>3. c.fn = "events" <=> c.cb = "isEmpty"
  BY DEF Turns, OfCall
<1>4. ASSUME NEW d \in calls', d.fn = "rmr"
      PROVE  /\ \A x \in calls' : x.req = d.req /\ InTurn(x) => x.cb = "rmdirBuckets"
             /\ \A x \in replies' : x.req = d.req /\ InTurn(x) => x.cb = "rmdirBuckets"
  BY <1>1, <1>2, <1>4 DEF RmrAfterEmptyListing, InTurn
<1>5. CASE UNCHANGED seen /\ (c.fn = "events" => res # "end")
  BY <1>1, <1>2, <1>3, <1>4, <1>5 DEF RmrAfterEmptyListing, InTurn
<1>6. CASE Record(c) /\ c.fn # "events"
  BY <1>1, <1>2, <1>3, <1>4, <1>6 DEF RmrAfterEmptyListing, InTurn, Record
<1>7. CASE /\ Record(c) /\ c.fn = "events"
           /\ res = "end" => Children(c.path) = {}
  <2>1. seen' = [seen EXCEPT ![c.req] = Stored(c.path) \ {c.path}]
    BY <1>7 DEF Record
  <2>2. InTurn(c) /\ c.cb # "rmdirBuckets"
    BY <1>3, <1>7 DEF InTurn, Beside, Nobody
  <2>3. \A d \in calls : d.fn = "rmr" => d.req # c.req
    BY <2>2 DEF RmrAfterEmptyListing
  <2>4. \A x \in replies : x.cb = "isEmpty" => x.req # c.req
    BY <2>2 DEF Turns, OneTurn, InTurn, Beside, Nobody
  <2>5. res = "end" => seen'[c.req] = {}
    BY <1>0, <1>7, <2>1, EmptyListing DEF TypeOK
  <2>6. \A x \in replies' : x.cb = "isEmpty" /\ x.res = "end" => seen'[x.req] = {}
    BY <1>1, <1>2, <2>1, <2>4, <2>5 DEF RmrAfterEmptyListing, TypeOK, ReplyType
  <2>7. \A d \in calls' : d.fn = "rmr" => seen'[d.req] = {}
    BY <1>1, <2>1, <2>3 DEF RmrAfterEmptyListing, TypeOK, CallType
  <2> QED
    BY <2>6, <2>7, <1>4 DEF RmrAfterEmptyListing, InTurn
<1> QED
  BY <1>5, <1>6, <1>7

\* A call that is answered, executed or not.
LEMMA AnswerKeeps ==
  ASSUME IInv, NEW c \in calls, NEW res \in Result, NEW val \in Entry, Answer(c, res, val),
         c.cb = "objectPut" => val \in Content \cup {None},
         tree' \in [Path -> Entry], Consistent', BucketsAreDirectories',
         \/ UNCHANGED history /\ (c.fn = "events" => res # "end")
         \/ Record(c) /\ (c.fn = "events" /\ res = "end" => Children(c.path) = {}),
         UNCHANGED httpVars
  PROVE  IInv'
<1>1. Turns
  BY DEF IInv, Turns
<1>2. calls' \subseteq CallType /\ replies' \subseteq ReplyType /\ Turns'
  BY <1>1, AnswerTurns DEF IInv
<1>3. RmrAfterEmptyListing'
  BY <1>1, AnswerKeepsListing DEF IInv, history
<1>4. done' \subseteq Req /\ saw' \in [Req -> SUBSET Entry] /\ seen' \in [Req -> SUBSET Path]
  BY RecordType DEF IInv, history, TypeOK
<1>5. TypeOK'
  BY <1>2, <1>4 DEF IInv, TypeOK, httpVars
<1>6. AnsweredOnce'
  BY DEF IInv, AnsweredOnce, httpVars
<1> QED
  BY <1>2, <1>3, <1>5, <1>6 DEF IInv, Turns

\* The directory tree is not touched.
LEMMA SameTree ==
  ASSUME IInv, UNCHANGED tree
  PROVE  tree' \in [Path -> Entry] /\ Consistent' /\ BucketsAreDirectories'
BY DEF IInv, TypeOK, Consistent, BucketsAreDirectories

LEMMA Values == /\ Dir \in Entry /\ None \in Entry /\ None \in Content \cup {None}
                /\ {"ok", "notfound", "fail", "object", "directory", "end"} \subseteq Result
BY DEF Entry, Result

LEMMA ExecuteKeeps ==
  ASSUME IInv, NEW c \in calls, Execute(c), Record(c), UNCHANGED httpVars
  PROVE  IInv'
<1>0. /\ c.req \in Req /\ c.path \in Path /\ tree[c.path] \in Entry
      /\ c.cb = "objectPut" => c.fn = "put"
      /\ c.fn \in {"put", "ln"} => c.path \in Keys
  BY DEF IInv, TypeOK, CallType, OfCall
<1>1. CASE Info(c)
  <2>1. PICK res \in Result, val \in Entry : Answer(c, res, val)
    BY <1>0, <1>1, Values DEF Info
  <2>2. c.fn = "info" /\ UNCHANGED tree
    BY <1>1 DEF Info
  <2> QED
    BY <1>0, <2>1, <2>2, SameTree, AnswerKeeps
<1>2. CASE Get(c)
  <2>1. PICK res \in Result, val \in Entry : Answer(c, res, val)
    BY <1>0, <1>2, Values DEF Get
  <2>2. c.fn = "get" /\ UNCHANGED tree
    BY <1>2 DEF Get
  <2> QED
    BY <1>0, <2>1, <2>2, SameTree, AnswerKeeps
<1>3. CASE Body(c)
  <2>1. c.fn = "body" /\ UNCHANGED tree /\ Answer(c, "end", None)
    BY <1>3 DEF Body
  <2> QED
    BY <1>0, <2>1, SameTree, AnswerKeeps, Values
<1>4. CASE Ls(c)
  <2>1. PICK res \in Result : Answer(c, res, None)
    BY <1>4, Values DEF Ls
  <2>2. c.fn = "ls" /\ UNCHANGED tree
    BY <1>4 DEF Ls
  <2> QED
    BY <1>0, <2>1, <2>2, SameTree, AnswerKeeps, Values
<1>5. CASE Events(c)
  <2>1. PICK res \in Result : /\ Answer(c, res, None)
                              /\ res = "end" => Children(c.path) = {}
    BY <1>5, Values DEF Events
  <2>2. c.fn = "events" /\ UNCHANGED tree
    BY <1>5 DEF Events
  <2> QED
    BY <1>0, <2>1, <2>2, SameTree, AnswerKeeps, Values
<1>6. CASE Listing(c)
  <2>1. PICK res \in Result : Answer(c, res, None)
    BY <1>6, Values DEF Listing
  <2>2. c.fn = "listing" /\ UNCHANGED tree
    BY <1>6 DEF Listing
  <2> QED
    BY <1>0, <2>1, <2>2, SameTree, AnswerKeeps, Values
<1>7. CASE Mkdirp(c)
  <2>1. c.fn = "mkdirp"
    BY <1>7 DEF Mkdirp
  <2>2. CASE Answer(c, "fail", None) /\ UNCHANGED tree
    BY <1>0, <2>1, <2>2, SameTree, AnswerKeeps, Values
  <2>3. CASE /\ Answer(c, "ok", None)
             /\ tree' = [p \in Path |-> IF p \in Above[c.path] THEN Dir ELSE tree[p]]
    <3>1. tree' \in [Path -> Entry] /\ Consistent' /\ BucketsAreDirectories'
      BY <1>0, <2>3, MakeDirectories DEF IInv
    <3> QED
      BY <1>0, <2>1, <2>3, <3>1, AnswerKeeps, Values
  <2> QED
    BY <1>7, <2>2, <2>3 DEF Mkdirp
<1>8. CASE Put(c)
  <2>1. c.fn = "put"
    BY <1>8 DEF Put
  <2>2. CASE Answer(c, "fail", None) /\ UNCHANGED tree
    BY <1>0, <2>1, <2>2, SameTree, AnswerKeeps, Values
  <2>3. CASE /\ Answer(c, "ok", c.req) /\ Writable(c.path)
             /\ tree' = [tree EXCEPT ![c.path] = c.req]
    <3>1. c.req \in Content
      BY <1>0 DEF Content
    <3>2. tree' \in [Path -> Entry] /\ Consistent' /\ BucketsAreDirectories'
      BY <1>0, <2>1, <2>3, <3>1, StoreObject DEF IInv
    <3> QED
      BY <2>1, <2>3, <3>1, <3>2, AnswerKeeps, Values DEF Entry
  <2> QED
    BY <1>8, <2>2, <2>3 DEF Put
<1>9. CASE Ln(c)
  <2>1. c.fn = "ln"
    BY <1>9 DEF Ln
  <2>2. CASE Answer(c, "fail", None) /\ UNCHANGED tree
    BY <1>0, <2>1, <2>2, SameTree, AnswerKeeps, Values
  <2>3. CASE /\ Writable(c.path) /\ tree[c.arg] \in Content
             /\ Answer(c, "ok", tree[c.arg])
             /\ tree' = [tree EXCEPT ![c.path] = tree[c.arg]]
    <3>1. tree' \in [Path -> Entry] /\ Consistent' /\ BucketsAreDirectories'
      BY <1>0, <2>1, <2>3, StoreObject DEF IInv
    <3> QED
      BY <1>0, <2>1, <2>3, <3>1, AnswerKeeps, Values DEF Entry
  <2> QED
    BY <1>9, <2>2, <2>3 DEF Ln
<1>10. CASE Unlink(c) \/ RmrTop(c)
  <2>1. c.fn \in {"unlink", "rmr"} /\ RemoveEntry(c)
    BY <1>10 DEF Unlink, RmrTop
  <2>2. CASE UNCHANGED tree
    <3>1. PICK res \in Result : Answer(c, res, None)
      BY <2>1, Values DEF RemoveEntry
    <3> QED
      BY <1>0, <2>1, <2>2, <3>1, SameTree, AnswerKeeps, Values
  <2>3. CASE /\ Children(c.path) = {} /\ Answer(c, "ok", None)
             /\ tree' = [tree EXCEPT ![c.path] = None]
    <3>1. tree' \in [Path -> Entry] /\ Consistent' /\ BucketsAreDirectories'
      BY <1>0, <2>3, RemoveLeaf DEF IInv
    <3> QED
      BY <1>0, <2>1, <2>3, <3>1, AnswerKeeps, Values
  <2> QED
    BY <2>1, <2>2, <2>3 DEF RemoveEntry
<1>11. CASE RmrLeaf(c)
  <2>1. PICK p \in Path : /\ Children(p) = {}
                          /\ tree' = [tree EXCEPT ![p] = None]
    BY <1>11 DEF RmrLeaf, Stored, Below
  <2>2. tree' \in [Path -> Entry] /\ Consistent' /\ BucketsAreDirectories'
    BY <2>1, RemoveLeaf DEF IInv
  <2>3. done' \subseteq Req /\ saw' \in [Req -> SUBSET Entry] /\ seen' \in [Req -> SUBSET Path]
    BY <2>2, RecordType DEF IInv
  <2>4. UNCHANGED <<calls, replies, seen>>
    BY <1>11 DEF RmrLeaf, Record
  <2>5. TypeOK'
    BY <2>2, <2>3, <2>4 DEF IInv, TypeOK, httpVars
  <2>6. OneTurn' /\ HandlersOfItems' /\ UnansweredInTurn' /\ OfCall'
    BY <2>4 DEF IInv, OneTurn, HandlersOfItems, OfHandler, UnansweredInTurn, OfCall,
                InTurn, Asked, Answered, httpVars
  <2>7. RmrAfterEmptyListing' /\ AnsweredOnce'
    BY <2>4 DEF IInv, RmrAfterEmptyListing, AnsweredOnce, InTurn, httpVars
  <2> QED
    BY <2>2, <2>5, <2>6, <2>7 DEF IInv
<1> QED
  BY <1>1, <1>2, <1>3, <1>4, <1>5, <1>6, <1>7, <1>8, <1>9, <1>10, <1>11 DEF Execute

LEMMA ServeKeeps ==
  ASSUME IInv, NEW r \in Req, Serve(r)
  PROVE  IInv'
<1>1. PICK c \in calls : /\ \/ Execute(c) /\ Record(c)
                            \/ Refuse(c) /\ UNCHANGED history
                            \/ MkdirpPartial(c) /\ UNCHANGED history
                         /\ UNCHANGED httpVars
  BY DEF Serve
<1>2. CASE Execute(c) /\ Record(c)
  BY <1>1, <1>2, ExecuteKeeps
<1>3. CASE Refuse(c) /\ UNCHANGED history
  BY <1>1, <1>3, SameTree, AnswerKeeps, Values DEF Refuse
<1>4. CASE MkdirpPartial(c) /\ UNCHANGED history
  <2>1. c.path \in Path
    BY DEF IInv, TypeOK, CallType
  <2>2. PICK last \in Path :
           tree' = [p \in Path |-> IF p \in Above[last] THEN Dir ELSE tree[p]]
    BY <1>4, <2>1, AboveType DEF MkdirpPartial
  <2>3. tree' \in [Path -> Entry] /\ Consistent' /\ BucketsAreDirectories'
    BY <2>2, MakeDirectories DEF IInv
  <2> QED
    BY <1>1, <1>4, <2>3, AnswerKeeps, Values DEF MkdirpPartial
<1> QED
  BY <1>1, <1>2, <1>3, <1>4

\* Calls go, or nobody waits for them any more; results go.
LEMMA FewerKeeps ==
  ASSUME IInv, UNCHANGED <<tree, request, sent, passed, etag, history>>,
         dead' \subseteq Req, replies' \subseteq replies,
         \A c \in calls' : \/ c \in calls
                           \/ \E d \in calls : d.fn \in Changing /\ c = Orphaned(d)
  PROVE  IInv'
<1>1. Turns
  BY DEF IInv, Turns
<1>2. calls' \subseteq CallType /\ replies' \subseteq ReplyType /\ Turns'
  BY <1>1, FewerTurns DEF IInv
<1>3. \A c \in calls' : c \notin calls =>
         \E d \in calls : /\ c.cb = Nobody
                          /\ c.req = d.req /\ c.fn = d.fn
  BY OrphanedType DEF IInv, TypeOK
<1>4. RmrAfterEmptyListing'
  BY <1>3 DEF IInv, RmrAfterEmptyListing, InTurn, history
<1>5. TypeOK' /\ AnsweredOnce' /\ Consistent' /\ BucketsAreDirectories'
  BY <1>2, SameTree DEF IInv, TypeOK, AnsweredOnce, history
<1> QED
  BY <1>2, <1>4, <1>5 DEF IInv, Turns

LEMMA LoseConnectionKeeps ==
  ASSUME IInv, NEW r \in Req, LoseConnection(r)
  PROVE  IInv'
<1>1. PICK c \in calls : (HangUp(c) \/ BreakOff(c)) /\ UNCHANGED <<httpVars, history>>
  BY DEF LoseConnection
<1>2. CASE HangUp(c)
  <2>1. Turns
    BY DEF IInv, Turns
  <2>2. calls' \subseteq CallType /\ replies' \subseteq ReplyType /\ Turns'
    BY <1>1, <1>2, <2>1, HangUpTurns DEF IInv
  <2>3. c \in CallType
    BY DEF IInv, TypeOK
  <2>4. \A d \in calls' : d \in calls \/ (d.cb = Nobody /\ d.req = c.req /\ d.fn = c.fn)
    BY <1>2, <2>3, OrphanedType DEF HangUp
  <2>5. \A p \in replies' : p \in replies \/ (p.cb = c.cb /\ p.req = c.req /\ p.res = "fail")
    BY <1>2 DEF HangUp
  <2>6. RmrAfterEmptyListing'
    BY <1>1, <2>4, <2>5 DEF IInv, RmrAfterEmptyListing, InTurn, history
  <2>7. TypeOK' /\ AnsweredOnce' /\ Consistent' /\ BucketsAreDirectories'
    BY <1>1, <1>2, <2>2, SameTree DEF IInv, TypeOK, AnsweredOnce, history, httpVars, HangUp
  <2> QED
    BY <2>2, <2>6, <2>7 DEF IInv, Turns
<1>3. CASE BreakOff(c)
  BY <1>1, <1>3, FewerKeeps DEF BreakOff, httpVars, IInv, TypeOK
<1> QED
  BY <1>1, <1>2, <1>3

LEMMA ProcessExitsKeeps ==
  ASSUME IInv, NEW R \in SUBSET Req, ProcessExits(R)
  PROVE  IInv'
<1>1. /\ replies' \subseteq replies /\ dead' \subseteq Req
      /\ UNCHANGED <<tree, request, sent, passed, etag, history>>
  BY DEF ProcessExits, Orphan, IInv, TypeOK
<1>2. \A c \in calls' : \/ c \in calls
                        \/ \E d \in calls : d.fn \in Changing /\ c = Orphaned(d)
  BY DEF ProcessExits, Orphan
<1> QED
  BY <1>1, <1>2, FewerKeeps

----------------------------------------------------------------------------
(* What the handlers do.  A step of a handler of request r, when it is     *)
(* entered or when one of its callbacks runs, uses up results (gone) and   *)
(* issues calls.                                                           *)

\* A call that a handler of request q may issue for r.
Fitting(r, q, c) ==
    /\ c \in CallType /\ c.req = r /\ c.cb # Nobody
    /\ c.cb \in RemovalCallbacks => q.op = "removeBucket"
    /\ c.cb \in UploadCallbacks => q.op = "addObject"
    /\ c.cb \in CopyCallbacks => q.op = "copyObject"
    /\ c.cb \in ListCallbacks => q.op = "listObjects"
    /\ c.fn \in {"put", "ln"} => c.path \in Keys
    /\ c.fn = "events" <=> c.cb = "isEmpty"
    /\ c.fn = "rmr" => c.cb = "rmdirBuckets" /\ seen[r] = {}
    /\ c.cb = "objectPut" => c.fn = "put"
    /\ c.cb = "headLnDir" => c.arg \in Entry

\* Nothing else can go on with r, and nothing removes its bucket.
FreeTurn(r, gone) ==
    /\ \A x \in calls : x.req = r => ~InTurn(x) /\ x.fn # "rmr"
    /\ \A x \in replies \ gone : x.req = r => ~InTurn(x)

\* The step: what it uses up, issues, answers and notes.
HandlerDoes(r, gone, issued) ==
    /\ gone \subseteq replies
    /\ replies' = replies \ gone
    /\ calls' = calls \cup issued
    /\ UNCHANGED <<tree, dead, history>>
    /\ \/ UNCHANGED request /\ Asked(r)
       \/ ~Asked(r) /\ \E q \in Menu : request' = [request EXCEPT ![r] = q]
    /\ etag' \in [Req -> Content \cup {None}]
    /\ passed' \in {passed, passed \cup {r}}
    /\ \A c \in issued :
          /\ Fitting(r, request'[r], c)
          /\ c.cb \in {"headLnDir", "mkLnObjDir"} => r \in passed'
    /\ \A c, d \in issued : InTurn(c) /\ InTurn(d) => c = d
    /\ (\E c \in issued : InTurn(c)) =>
          /\ FreeTurn(r, gone)
          /\ Answered(r) => request'[r].op = "removeBucket"
    /\ \/ sent' = sent
       \/ /\ \E s \in Seq(Code) :
                /\ sent' = [sent EXCEPT ![r] = s]
                /\ request'[r].op \notin {"removeBucket", "listObjects"} => Len(s) <= 1
          /\ \A c \in issued : ~InTurn(c)
          /\ FreeTurn(r, gone) \/ request'[r].op = "removeBucket"

LEMMA HandlerStep ==
  ASSUME IInv, NEW r \in Req, NEW gone, NEW issued, HandlerDoes(r, gone, issued)
  PROVE  IInv'
<1> USE DEF history, HandlerDoes
<1>0. calls \subseteq CallType /\ replies \subseteq ReplyType
  BY DEF IInv, TypeOK
<1>1. /\ request' \in [Req -> Menu \cup {NoRequest}]
      /\ \A s \in Req : s # r => request'[s] = request[s]
      /\ request'[r] # NoRequest
  <2>1. request \in [Req -> Menu \cup {NoRequest}] /\ NoRequest \notin Menu
    BY MenuAssumption DEF IInv, TypeOK
  <2>2. CASE UNCHANGED request /\ Asked(r)
    BY <2>1, <2>2 DEF Asked
  <2>3. CASE \E q \in Menu : request' = [request EXCEPT ![r] = q]
    BY <2>1, <2>3
  <2> QED
    BY <2>2, <2>3
<1>2. \A x \in calls \cup replies : request'[x.req] = request[x.req]
  <2> SUFFICES ASSUME NEW x \in calls \cup replies PROVE request'[x.req] = request[x.req]
    OBVIOUS
  <2>1. Asked(x.req) /\ x.req \in Req
    BY <1>0 DEF IInv, HandlersOfItems, OfHandler, CallType, ReplyType
  <2> QED
    BY <1>1, <2>1
<1>3. /\ sent' \in [Req -> Seq(Code)]
      /\ \A s \in Req : s # r => sent'[s] = sent[s]
  BY DEF IInv, TypeOK
<1>4. TypeOK'
  <2>1. calls' \subseteq CallType /\ replies' \subseteq ReplyType
    BY <1>0 DEF Fitting
  <2> QED
    BY <1>1, <1>3, <2>1 DEF IInv, TypeOK
<1>5. Consistent' /\ BucketsAreDirectories'
  BY SameTree
<1>6. OneTurn'
  <2>1. \A x, y \in calls' : x.req = y.req /\ InTurn(x) /\ InTurn(y) => x = y
    BY DEF IInv, OneTurn, Fitting, FreeTurn
  <2>2. \A x, y \in replies' : x.req = y.req /\ InTurn(x) /\ InTurn(y) => x = y
    BY DEF IInv, OneTurn
  <2>3. \A x \in calls', y \in replies' : x.req = y.req /\ InTurn(x) => ~InTurn(y)
    BY DEF IInv, OneTurn, Fitting, FreeTurn
  <2> QED
    BY <2>1, <2>2, <2>3 DEF OneTurn, InTurn
<1>7. HandlersOfItems'
  <2>1. \A x \in calls \cup replies : OfHandler(x)'
    BY <1>2 DEF IInv, HandlersOfItems, OfHandler, Asked
  <2>2. \A x \in issued : OfHandler(x)'
    BY <1>1 DEF OfHandler, Asked, Fitting
  <2> QED
    BY <2>1, <2>2 DEF HandlersOfItems
<1>8. UnansweredInTurn'
  <2>1. ASSUME NEW x \in calls' \cup replies', InTurn(x), Answered(x.req)'
        PROVE  request'[x.req].op = "removeBucket"
    <3>1. CASE sent' = sent
      <4>1. CASE x \in calls \cup replies
        BY <1>2, <2>1, <3>1, <4>1 DEF IInv, UnansweredInTurn, Answered
      <4>2. CASE x \in issued
        BY <2>1, <3>1, <4>2 DEF Fitting, Answered
      <4> QED
        BY <2>1, <4>1, <4>2
    <3>2. CASE sent' # sent
      <4>1. /\ \A c \in issued : ~InTurn(c)
            /\ FreeTurn(r, gone) \/ request'[r].op = "removeBucket"
        BY <3>2
      <4>2. x \in calls \/ x \in replies \ gone
        BY <2>1, <4>1
      <4>3. CASE x.req = r
        BY <2>1, <4>1, <4>2, <4>3 DEF FreeTurn
      <4>4. CASE x.req # r
        BY <1>0, <1>2, <1>3, <2>1, <4>2, <4>4
           DEF IInv, UnansweredInTurn, Answered, CallType, ReplyType
      <4> QED
        BY <4>3, <4>4
    <3> QED
      BY <3>1, <3>2
  <2>2. \A s \in Req : Answered(s)' => Asked(s)'
    BY <1>1, <1>3 DEF IInv, UnansweredInTurn, Answered, Asked
  <2> QED
    BY <2>1, <2>2 DEF UnansweredInTurn, InTurn
<1>9. OfCall'
  BY DEF IInv, OfCall, Fitting
<1>10. RmrAfterEmptyListing'
  BY DEF IInv, RmrAfterEmptyListing, Fitting, FreeTurn, InTurn, Beside, Nobody
<1>11. AnsweredOnce'
  <2>1. \A s \in Req : s # r => request'[s] = request[s] /\ sent'[s] = sent[s]
    BY <1>1, <1>3
  <2>2. request'[r].op \notin {"removeBucket", "listObjects"} => Len(sent'[r]) <= 1
    <3>1. CASE \E s \in Seq(Code) :
                  /\ sent' = [sent EXCEPT ![r] = s]
                  /\ request'[r].op \notin {"removeBucket", "listObjects"} => Len(s) <= 1
      BY <3>1 DEF IInv, TypeOK
    <3>2. CASE sent' = sent /\ UNCHANGED request
      BY <3>2 DEF IInv, AnsweredOnce
    <3>3. CASE sent' = sent /\ ~Asked(r)
      BY <3>3 DEF IInv, UnansweredInTurn, Answered
    <3> QED
      BY <3>1, <3>2, <3>3
  <2> QED
    BY <2>1, <2>2 DEF IInv, AnsweredOnce
<1> QED
  BY <1>4, <1>5, <1>6, <1>7, <1>8, <1>9, <1>10, <1>11 DEF IInv

----------------------------------------------------------------------------
(* The callbacks: each of them ends its chain or issues the next call. *)

LEMMA ReplyFacts ==
  ASSUME IInv, NEW p \in replies
  PROVE  /\ p.req \in Req /\ p.cb \in Callbacks /\ p.val \in Entry /\ Asked(p.req)
         /\ OfHandler(p)
         /\ request[p.req] \in Menu
         /\ request[p.req].path \in Path /\ request[p.req].src \in Path
         /\ Dirname[request[p.req].path] \in Path
         /\ request[p.req].op \in {"addObject", "copyObject"} => request[p.req].path \in Keys
<1>1. p \in ReplyType /\ OfHandler(p)
  BY DEF IInv, TypeOK, HandlersOfItems
<1>2. p.req \in Req /\ p.cb \in Callbacks /\ p.val \in Entry /\ Asked(p.req)
  BY <1>1 DEF ReplyType, OfHandler
<1>3. request[p.req] \in Menu
  BY <1>2 DEF IInv, TypeOK, Asked
<1> QED
  BY <1>1, <1>2, <1>3, MenuType, MenuKeys, HierarchyAssumption

\* The turn passes from the result that is used up.
LEMMA TurnPasses ==
  ASSUME IInv, NEW p \in replies, InTurn(p)
  PROVE  /\ p.cb # "rmdirBuckets" => FreeTurn(p.req, {p})
         /\ \A x \in calls : x.req = p.req => ~InTurn(x)
         /\ \A x \in replies \ {p} : x.req = p.req => ~InTurn(x)
         /\ Answered(p.req) => request[p.req].op = "removeBucket"
BY DEF IInv, OneTurn, UnansweredInTurn, RmrAfterEmptyListing, FreeTurn

\* The callback issues one call and does not answer.
LEMMA ContinuingCallback ==
  ASSUME IInv, NEW p, NEW cb, NEW c, Callback(p, cb, {c}), UNCHANGED <<sent, history>>,
         passed' \in {passed, passed \cup {p.req}},
         etag' \in [Req -> Content \cup {None}],
         cb \notin Beside \cup {"rmdirBuckets"},
         Fitting(p.req, request[p.req], c),
         c.cb \in {"headLnDir", "mkLnObjDir"} => p.req \in passed'
  PROVE  IInv'
<1>1. p \in replies /\ p.cb = cb /\ p.cb # Nobody
  BY NobodyNoCallback, ReplyFacts DEF Callback
<1>2. InTurn(p) /\ p.cb # "rmdirBuckets"
  BY <1>1 DEF InTurn
<1>3. p.req \in Req /\ Asked(p.req)
  BY <1>1, ReplyFacts
<1>4. /\ FreeTurn(p.req, {p})
      /\ Answered(p.req) => request[p.req].op = "removeBucket"
  BY <1>1, <1>2, TurnPasses
<1>5. /\ replies' = replies \ {p} /\ calls' = calls \cup {c}
      /\ UNCHANGED <<tree, request, dead>>
  BY DEF Callback
<1>6. HandlerDoes(p.req, {p}, {c})
  BY <1>1, <1>3, <1>4, <1>5 DEF HandlerDoes
<1> QED
  BY <1>3, <1>6, HandlerStep

\* The callback issues no call and neither answers.
LEMMA QuietCallback ==
  ASSUME IInv, NEW p, NEW cb, Callback(p, cb, {}), UNCHANGED <<sent, history>>,
         passed' \in {passed, passed \cup {p.req}},
         etag' \in [Req -> Content \cup {None}]
  PROVE  IInv'
<1>1. p \in replies /\ p.req \in Req /\ Asked(p.req)
  BY ReplyFacts DEF Callback
<1>2. /\ replies' = replies \ {p} /\ calls' = calls \cup {}
      /\ UNCHANGED <<tree, request, dead>>
  BY DEF Callback
<1>3. HandlerDoes(p.req, {p}, {})
  BY <1>1, <1>2 DEF HandlerDoes
<1> QED
  BY <1>1, <1>3, HandlerStep

\* The callback answers, in turn or for a removeBucket, and issues no call that
\* would be in turn.
LEMMA AnsweringCallback ==
  ASSUME IInv, NEW p, NEW cb, NEW issued, Callback(p, cb, issued), UNCHANGED history,
         etag' \in [Req -> Content \cup {None}],
         \A c \in issued : /\ Fitting(p.req, request[p.req], c)
                           /\ ~InTurn(c)
                           /\ c.cb \in {"headLnDir", "mkLnObjDir"} => p.req \in passed',
         \A c, d \in issued : c = d,
         cb \in Beside => request[p.req].op = "removeBucket",
         NEW code \in Code,
         \/ Send(p.req, code) \/ SendNext(p.req, code)
         \/ NextErr(p.req, code) \/ Throw(p.req)
  PROVE  IInv'
<1>1. p \in replies /\ p.req \in Req /\ Asked(p.req) /\ p.cb # Nobody /\ p.cb = cb
  BY NobodyNoCallback, ReplyFacts DEF Callback
<1>2. /\ replies' = replies \ {p} /\ calls' = calls \cup issued
      /\ UNCHANGED <<tree, request, dead>>
  BY DEF Callback
<1>3. sent[p.req] \in Seq(Code) /\ sent \in [Req -> Seq(Code)]
  BY <1>1 DEF IInv, TypeOK
<1>4. CASE UNCHANGED sent
  <2>1. passed' \in {passed, passed \cup {p.req}}
    BY DEF Send, SendNext, NextErr, Throw
  <2>2. HandlerDoes(p.req, {p}, issued)
    BY <1>1, <1>2, <1>4, <2>1 DEF HandlerDoes
  <2> QED
    BY <1>1, <2>2, HandlerStep
<1>5. CASE sent' # sent
  <2>1. PICK any \in Code : sent' = [sent EXCEPT ![p.req] = Append(@, any)]
    BY <1>5 DEF Send, SendNext, NextErr, Throw, Code
  <2>2. passed' \in {passed, passed \cup {p.req}}
    BY DEF Send, SendNext, NextErr, Throw
  <2>3. request[p.req].op # "removeBucket" => sent[p.req] = <<>> /\ InTurn(p)
    BY <1>1, TurnPasses DEF InTurn, Answered
  <2>4. request[p.req].op # "removeBucket" => FreeTurn(p.req, {p})
    <3>1. p.cb = "rmdirBuckets" => request[p.req].op = "removeBucket"
      BY <1>1, ReplyFacts DEF OfHandler, RemovalCallbacks
    <3> QED
      BY <1>1, <2>3, <3>1, TurnPasses
  <2>5. /\ Append(sent[p.req], any) \in Seq(Code)
        /\ request[p.req].op # "removeBucket" => Len(Append(sent[p.req], any)) <= 1
    BY <1>3, <2>3
  <2>6. HandlerDoes(p.req, {p}, issued)
    BY <1>1, <1>2, <2>1, <2>2, <2>4, <2>5 DEF HandlerDoes
  <2> QED
    BY <1>1, <2>6, HandlerStep
<1> QED
  BY <1>4, <1>5

\* The callback answers and its chain ends.
LEMMA EndingCallback ==
  ASSUME IInv, NEW p, NEW cb, Callback(p, cb, {}), UNCHANGED history,
         etag' \in [Req -> Content \cup {None}],
         cb \in Beside => request[p.req].op = "removeBucket",
         NEW code \in Code,
         \/ Send(p.req, code) \/ SendNext(p.req, code)
         \/ NextErr(p.req, code) \/ Throw(p.req)
  PROVE  IInv'
BY AnsweringCallback

LEMMA BucketsCallbackKeeps ==
  ASSUME IInv, NEW p, BucketsCallback(p), UNCHANGED history
  PROVE  IInv'
<1>1. p \in replies /\ etag' \in [Req -> Content \cup {None}]
  BY DEF BucketsCallback, MlsBuckets, MlsBucketsErr, MlsBucketsEnd, HeadBucket, InfoBucketAdd,
         MkdirBuckets, InfoBucketFirst, InfoBucketSecond, CheckForEmptyDir, ErrorOnListing,
         ObjFound, DirFound, FinishedDeadList, RmdirBuckets, Callback, IInv, TypeOK
<1>2. MlsBuckets(p) => IInv'
  <2>1. ASSUME Callback(p, "mlsBuckets", {}),
               SendNext(p.req, "OK") \/ Throw(p.req)
        PROVE  IInv'
    BY <1>1, <2>1, EndingCallback DEF Beside, Code
  <2>2. ASSUME NEW c, c = Call(p.req, "mlsBucketsStream", "listing", Base, None),
               Callback(p, "mlsBuckets", {c}), Quiet
        PROVE  IInv'
    <3>1. p.req \in Req
      BY <1>1, ReplyFacts
    <3>2. Fitting(p.req, request[p.req], c) /\ c.cb = "mlsBucketsStream"
      BY <2>2, <3>1, HierarchyAssumption
         DEF Fitting, CallType, Call, Callbacks, RemovalCallbacks, UploadCallbacks,
             CopyCallbacks, ListCallbacks, OtherCallbacks, Reading, Entry, Nobody
    <3>3. UNCHANGED <<sent, passed, history>> /\ "mlsBuckets" \notin Beside \cup {"rmdirBuckets"}
      BY <2>2 DEF Quiet, Beside
    <3> QED
      BY <1>1, <2>2, <3>2, <3>3, ContinuingCallback
  <2> QED
    BY <2>1, <2>2 DEF MlsBuckets
<1>3. MlsBucketsErr(p) => IInv'
  BY <1>1, EndingCallback, QuietCallback DEF MlsBucketsErr, Beside, Code, Quiet
<1>4. MlsBucketsEnd(p) => IInv'
  BY <1>1, EndingCallback DEF MlsBucketsEnd, Beside, Code
<1>5. HeadBucket(p) => IInv'
  BY <1>1, EndingCallback DEF HeadBucket, Beside, Code
<1>6. InfoBucketAdd(p) => IInv'
  <2>1. ASSUME Callback(p, "infoBucketAdd", {}), NextErr(p.req, "BucketAlreadyExists")
        PROVE  IInv'
    BY <1>1, <2>1, EndingCallback DEF Beside, Code
  <2>2. ASSUME NEW c, c = Call(p.req, "mkdirBuckets", "mkdirp", request[p.req].path, None),
               Callback(p, "infoBucketAdd", {c}), Quiet
        PROVE  IInv'
    <3>1. /\ p.req \in Req /\ request[p.req].path \in Path
          /\ p.cb = "infoBucketAdd" /\ OfHandler(p)
      BY <1>1, <2>2, ReplyFacts DEF Callback
    <3>2. Fitting(p.req, request[p.req], c) /\ c.cb = "mkdirBuckets"
      BY <1>1, <2>2, <3>1
         DEF OfHandler, Fitting, CallType, Call, Callbacks, RemovalCallbacks, UploadCallbacks,
             CopyCallbacks, ListCallbacks, OtherCallbacks, Reading, Changing, Entry, Nobody
    <3>3. UNCHANGED <<sent, passed, history>> /\ "infoBucketAdd" \notin Beside \cup {"rmdirBuckets"}
      BY <2>2 DEF Quiet, Beside
    <3> QED
      BY <1>1, <2>2, <3>2, <3>3, ContinuingCallback
  <2> QED
    BY <2>1, <2>2 DEF InfoBucketAdd
<1>7. MkdirBuckets(p) => IInv'
  BY <1>1, EndingCallback DEF MkdirBuckets, Beside, Code
<1>8. InfoBucketFirst(p) => IInv'
  <2>1. CASE Callback(p, "infoBucketFirst", {}) /\ Quiet
    BY <1>1, <2>1, QuietCallback DEF Quiet
  <2>2. CASE Callback(p, "infoBucketFirst", {}) /\ NextErr(p.req, "NoSuchBucket")
    <3>1. request[p.req].op = "removeBucket"
      BY <1>1, <2>2, ReplyFacts DEF Callback, OfHandler, RemovalCallbacks
    <3> QED
      BY <1>1, <2>2, <3>1, EndingCallback DEF Code
  <2> QED
    BY <2>1, <2>2 DEF InfoBucketFirst
<1>9. InfoBucketSecond(p) => IInv'
  <2>1. ASSUME Callback(p, "infoBucketSecond", {}), NextErr(p.req, "NoSuchBucket")
        PROVE  IInv'
    BY <1>1, <2>1, EndingCallback DEF Beside, Code
  <2>2. ASSUME NEW c, c = Call(p.req, "checkForEmptyDir", "ls", request[p.req].path, None),
               Callback(p, "infoBucketSecond", {c}), Quiet
        PROVE  IInv'
    <3>1. /\ p.req \in Req /\ request[p.req].path \in Path
          /\ p.cb = "infoBucketSecond" /\ OfHandler(p)
      BY <1>1, <2>2, ReplyFacts DEF Callback
    <3>2. Fitting(p.req, request[p.req], c) /\ c.cb = "checkForEmptyDir"
      BY <1>1, <2>2, <3>1
         DEF OfHandler, Fitting, CallType, Call, Callbacks, RemovalCallbacks, UploadCallbacks,
             CopyCallbacks, ListCallbacks, OtherCallbacks, Reading, Changing, Entry, Nobody
    <3>3. UNCHANGED <<sent, passed, history>> /\ "infoBucketSecond" \notin Beside \cup {"rmdirBuckets"}
      BY <2>2 DEF Quiet, Beside
    <3> QED
      BY <1>1, <2>2, <3>2, <3>3, ContinuingCallback
  <2> QED
    BY <2>1, <2>2 DEF InfoBucketSecond
<1>10. CheckForEmptyDir(p) => IInv'
  <2>1. ASSUME Callback(p, "checkForEmptyDir", {}), NextErr(p.req, "InternalError")
        PROVE  IInv'
    BY <1>1, <2>1, EndingCallback DEF Beside, Code
  <2>2. ASSUME NEW c, c = Call(p.req, "isEmpty", "events", request[p.req].path, None),
               Callback(p, "checkForEmptyDir", {c}), Quiet
        PROVE  IInv'
    <3>1. /\ p.req \in Req /\ request[p.req].path \in Path
          /\ p.cb = "checkForEmptyDir" /\ OfHandler(p)
      BY <1>1, <2>2, ReplyFacts DEF Callback
    <3>2. Fitting(p.req, request[p.req], c) /\ c.cb = "isEmpty"
      BY <1>1, <2>2, <3>1
         DEF OfHandler, Fitting, CallType, Call, Callbacks, RemovalCallbacks, UploadCallbacks,
             CopyCallbacks, ListCallbacks, OtherCallbacks, Reading, Changing, Entry, Nobody
    <3>3. UNCHANGED <<sent, passed, history>> /\ "checkForEmptyDir" \notin Beside \cup {"rmdirBuckets"}
      BY <2>2 DEF Quiet, Beside
    <3> QED
      BY <1>1, <2>2, <3>2, <3>3, ContinuingCallback
  <2> QED
    BY <2>1, <2>2 DEF CheckForEmptyDir
<1>11. ErrorOnListing(p) => IInv'
  BY <1>1, EndingCallback DEF ErrorOnListing, Beside, Code
<1>12. ObjFound(p) => IInv'
  BY <1>1, EndingCallback DEF ObjFound, Beside, Code
<1>13. DirFound(p) => IInv'
  BY <1>1, EndingCallback DEF DirFound, Beside, Code
<1>14. FinishedDeadList(p) => IInv'
  <2>1. ASSUME NEW c, c = Call(p.req, "rmdirBuckets", "rmr", request[p.req].path, None),
               p.res = "end",
               Callback(p, "isEmpty", {c}), Quiet
        PROVE  IInv'
    <3>1. /\ p.req \in Req /\ request[p.req].path \in Path
          /\ p.cb = "isEmpty" /\ OfHandler(p)
      BY <1>1, <2>1, ReplyFacts DEF Callback
    <3>2. seen[p.req] = {}
      BY <1>1, <2>1, <3>1 DEF IInv, RmrAfterEmptyListing
    <3>3. Fitting(p.req, request[p.req], c) /\ c.cb = "rmdirBuckets"
      BY <1>1, <2>1, <3>1, <3>2
         DEF OfHandler, Fitting, CallType, Call, Callbacks, RemovalCallbacks, UploadCallbacks,
             CopyCallbacks, ListCallbacks, OtherCallbacks, Reading, Changing, Entry, Nobody
    <3>4. UNCHANGED <<sent, passed, history>> /\ "isEmpty" \notin Beside \cup {"rmdirBuckets"}
      BY <2>1 DEF Quiet, Beside
    <3> QED
      BY <1>1, <2>1, <3>3, <3>4, ContinuingCallback
  <2> QED
    BY <2>1 DEF FinishedDeadList
<1>15. RmdirBuckets(p) => IInv'
  BY <1>1, EndingCallback DEF RmdirBuckets, Beside, Code
<1> QED
  BY <1>2, <1>3, <1>4, <1>5, <1>6, <1>7, <1>9, <1>10, <1>11, <1>12, <1>13, <1>14, <1>15, <1>8
     DEF BucketsCallback

LEMMA ObjectsCallbackKeeps ==
  ASSUME IInv, NEW p, ObjectsCallback(p), UNCHANGED history
  PROVE  IInv'
<1>1. p \in replies
  BY DEF ObjectsCallback, HeadPutDir, MkObjDir, ObjectPut, Mmkdirp, HeadGetDir, GetObj,
         FinishedPipingObject, RmObj, FindAllInBucket, MantaLsError, MantaLsEnd,
         LinkedObjectInfo, HeadLnDir, MkLnObjDir, ObjectLinked, Callback
<1>2. etag \in [Req -> Content \cup {None}]
  BY DEF IInv, TypeOK
<1>3. HeadPutDir(p) => IInv'
  <2>1. ASSUME NEW c, c = UploadObject(p.req),
               Callback(p, "headPutDir", {c}), Quiet, UNCHANGED etag
        PROVE  IInv'
    <3>1. /\ p.req \in Req /\ request[p.req].path \in Path
          /\ Dirname[request[p.req].path] \in Path
          /\ request[p.req].op = "addObject" => request[p.req].path \in Keys
          /\ p.cb = "headPutDir" /\ OfHandler(p) /\ p.val \in Entry
      BY <1>1, <2>1, ReplyFacts DEF Callback
    <3>2. Fitting(p.req, request[p.req], c) /\ c.cb = "objectPut"
      BY <1>1, <2>1, <3>1
         DEF OfHandler, Fitting, CallType, Call, Callbacks, RemovalCallbacks, UploadCallbacks,
             CopyCallbacks, ListCallbacks, OtherCallbacks, Reading, Changing, Entry, Nobody, UploadObject
    <3>3. UNCHANGED <<sent, history>> /\ "headPutDir" \notin Beside \cup {"rmdirBuckets"}
      BY <2>1 DEF Quiet, Beside
    <3>4. passed' \in {passed, passed \cup {p.req}} /\ (c.cb = "headLnDir" => p.req \in passed')
      BY <2>1, <3>2 DEF Quiet
    <3>5. etag' \in [Req -> Content \cup {None}]
      BY <1>2, <2>1
    <3> QED
      BY <1>1, <2>1, <3>2, <3>3, <3>4, <3>5, ContinuingCallback
  <2>2. ASSUME NEW c, c = Call(p.req, "mkObjDir", "mkdirp", Dirname[request[p.req].path], None),
               Callback(p, "headPutDir", {c}), Quiet, UNCHANGED etag
        PROVE  IInv'
    <3>1. /\ p.req \in Req /\ request[p.req].path \in Path
          /\ Dirname[request[p.req].path] \in Path
          /\ request[p.req].op = "addObject" => request[p.req].path \in Keys
          /\ p.cb = "headPutDir" /\ OfHandler(p) /\ p.val \in Entry
      BY <1>1, <2>2, ReplyFacts DEF Callback
    <3>2. Fitting(p.req, request[p.req], c) /\ c.cb = "mkObjDir"
      BY <1>1, <2>2, <3>1
         DEF OfHandler, Fitting, CallType, Call, Callbacks, RemovalCallbacks, UploadCallbacks,
             CopyCallbacks, ListCallbacks, OtherCallbacks, Reading, Changing, Entry, Nobody
    <3>3. UNCHANGED <<sent, history>> /\ "headPutDir" \notin Beside \cup {"rmdirBuckets"}
      BY <2>2 DEF Quiet, Beside
    <3>4. passed' \in {passed, passed \cup {p.req}} /\ (c.cb = "headLnDir" => p.req \in passed')
      BY <2>2, <3>2 DEF Quiet
    <3>5. etag' \in [Req -> Content \cup {None}]
      BY <1>2, <2>2
    <3> QED
      BY <1>1, <2>2, <3>2, <3>3, <3>4, <3>5, ContinuingCallback
  <2> QED
    BY <2>1, <2>2 DEF HeadPutDir
<1>4. MkObjDir(p) => IInv'
  <2>1. ASSUME Callback(p, "mkObjDir", {}), NextErr(p.req, "InternalError"), UNCHANGED etag
        PROVE  IInv'
    BY <1>1, <1>2, <2>1, EndingCallback DEF Beside, Code
  <2>2. ASSUME NEW c, c = UploadObject(p.req),
               Callback(p, "mkObjDir", {c}), Quiet, UNCHANGED etag
        PROVE  IInv'
    <3>1. /\ p.req \in Req /\ request[p.req].path \in Path
          /\ Dirname[request[p.req].path] \in Path
          /\ request[p.req].op = "addObject" => request[p.req].path \in Keys
          /\ p.cb = "mkObjDir" /\ OfHandler(p) /\ p.val \in Entry
      BY <1>1, <2>2, ReplyFacts DEF Callback
    <3>2. Fitting(p.req, request[p.req], c) /\ c.cb = "objectPut"
      BY <1>1, <2>2, <3>1
         DEF OfHandler, Fitting, CallType, Call, Callbacks, RemovalCallbacks, UploadCallbacks,
             CopyCallbacks, ListCallbacks, OtherCallbacks, Reading, Changing, Entry, Nobody, UploadObject
    <3>3. UNCHANGED <<sent, history>> /\ "mkObjDir" \notin Beside \cup {"rmdirBuckets"}
      BY <2>2 DEF Quiet, Beside
    <3>4. passed' \in {passed, passed \cup {p.req}} /\ (c.cb = "headLnDir" => p.req \in passed')
      BY <2>2, <3>2 DEF Quiet
    <3>5. etag' \in [Req -> Content \cup {None}]
      BY <1>2, <2>2
    <3> QED
      BY <1>1, <2>2, <3>2, <3>3, <3>4, <3>5, ContinuingCallback
  <2> QED
    BY <2>1, <2>2 DEF MkObjDir
<1>5. ObjectPut(p) => IInv'
  <2>1. ASSUME Callback(p, "objectPut", {}), NEW e \in {etag[p.req], p.val},
               etag' = [etag EXCEPT ![p.req] = e],
               SendNext(p.req, "OK")
        PROVE  IInv'
    <3>1. p.val \in Content \cup {None}
      BY <1>1, <2>1 DEF IInv, OfCall, Callback
    <3>2. etag' \in [Req -> Content \cup {None}]
      BY <1>1, <1>2, <2>1, <3>1, ReplyFacts
    <3> QED
      BY <1>1, <2>1, <3>2, EndingCallback DEF Beside, Code
  <2>2. ASSUME Callback(p, "objectPut", {}), NextErr(p.req, "InternalError"), UNCHANGED etag
        PROVE  IInv'
    BY <1>1, <1>2, <2>2, EndingCallback DEF Beside, Code
  <2> QED
    BY <2>1, <2>2 DEF ObjectPut
<1>6. Mmkdirp(p) => IInv'
  BY <1>1, <1>2, EndingCallback DEF Mmkdirp, Beside, Code
<1>7. HeadGetDir(p) => IInv'
  <2>1. ASSUME NEW code \in {"NoSuchBucket", "InternalError"}, Callback(p, "headGetDir", {}),
               NextErr(p.req, code), UNCHANGED etag
        PROVE  IInv'
    BY <1>1, <1>2, <2>1, EndingCallback DEF Beside, Code
  <2>2. ASSUME NEW c, c = Call(p.req, "getObj", "get", request[p.req].path, None),
               Callback(p, "headGetDir", {c}), Quiet, UNCHANGED etag
        PROVE  IInv'
    <3>1. /\ p.req \in Req /\ request[p.req].path \in Path
          /\ Dirname[request[p.req].path] \in Path
          /\ request[p.req].op = "addObject" => request[p.req].path \in Keys
          /\ p.cb = "headGetDir" /\ OfHandler(p) /\ p.val \in Entry
      BY <1>1, <2>2, ReplyFacts DEF Callback
    <3>2. Fitting(p.req, request[p.req], c) /\ c.cb = "getObj"
      BY <1>1, <2>2, <3>1
         DEF OfHandler, Fitting, CallType, Call, Callbacks, RemovalCallbacks, UploadCallbacks,
             CopyCallbacks, ListCallbacks, OtherCallbacks, Reading, Changing, Entry, Nobody
    <3>3. UNCHANGED <<sent, history>> /\ "headGetDir" \notin Beside \cup {"rmdirBuckets"}
      BY <2>2 DEF Quiet, Beside
    <3>4. passed' \in {passed, passed \cup {p.req}} /\ (c.cb = "headLnDir" => p.req \in passed')
      BY <2>2, <3>2 DEF Quiet
    <3>5. etag' \in [Req -> Content \cup {None}]
      BY <1>2, <2>2
    <3> QED
      BY <1>1, <2>2, <3>2, <3>3, <3>4, <3>5, ContinuingCallback
  <2> QED
    BY <2>1, <2>2 DEF HeadGetDir
<1>8. GetObj(p) => IInv'
  <2>1. ASSUME Callback(p, "getObj", {}), UNCHANGED etag,
               SendNext(p.req, "NotFound") \/ NextErr(p.req, "InternalError")
        PROVE  IInv'
    BY <1>1, <1>2, <2>1, EndingCallback DEF Beside, Code
  <2>2. ASSUME NEW c, c = Call(p.req, "finishedPipingObject", "body", request[p.req].path, None),
               Callback(p, "getObj", {c}), Quiet, p.val # Dir,
               etag' = [etag EXCEPT ![p.req] = p.val]
        PROVE  IInv'
    <3>1. /\ p.req \in Req /\ request[p.req].path \in Path
          /\ Dirname[request[p.req].path] \in Path
          /\ request[p.req].op = "addObject" => request[p.req].path \in Keys
          /\ p.cb = "getObj" /\ OfHandler(p) /\ p.val \in Entry
      BY <1>1, <2>2, ReplyFacts DEF Callback
    <3>2. Fitting(p.req, request[p.req], c) /\ c.cb = "finishedPipingObject"
      BY <1>1, <2>2, <3>1
         DEF OfHandler, Fitting, CallType, Call, Callbacks, RemovalCallbacks, UploadCallbacks,
             CopyCallbacks, ListCallbacks, OtherCallbacks, Reading, Changing, Entry, Nobody
    <3>3. UNCHANGED <<sent, history>> /\ "getObj" \notin Beside \cup {"rmdirBuckets"}
      BY <2>2 DEF Quiet, Beside
    <3>4. passed' \in {passed, passed \cup {p.req}} /\ (c.cb = "headLnDir" => p.req \in passed')
      BY <2>2, <3>2 DEF Quiet
    <3>5. etag' \in [Req -> Content \cup {None}]
      BY <1>2, <2>2, <3>1 DEF Entry
    <3> QED
      BY <1>1, <2>2, <3>2, <3>3, <3>4, <3>5, ContinuingCallback
  <2> QED
    BY <2>1, <2>2 DEF GetObj
<1>9. FinishedPipingObject(p) => IInv'
  BY <1>1, <1>2, EndingCallback DEF FinishedPipingObject, Beside, Code
<1>10. RmObj(p) => IInv'
  BY <1>1, <1>2, EndingCallback DEF RmObj, Beside, Code
<1>11. FindAllInBucket(p) => IInv'
  <2>1. ASSUME Callback(p, "findAllInBucket", {}), Send(p.req, "InternalError"), UNCHANGED etag
        PROVE  IInv'
    BY <1>1, <1>2, <2>1, EndingCallback DEF Beside, Code
  <2>2. ASSUME NEW c, c = Call(p.req, "mantaLs", "listing", request[p.req].path, None),
               Callback(p, "findAllInBucket", {c}), Quiet, UNCHANGED etag
        PROVE  IInv'
    <3>1. /\ p.req \in Req /\ request[p.req].path \in Path
          /\ Dirname[request[p.req].path] \in Path
          /\ request[p.req].op = "addObject" => request[p.req].path \in Keys
          /\ p.cb = "findAllInBucket" /\ OfHandler(p) /\ p.val \in Entry
      BY <1>1, <2>2, ReplyFacts DEF Callback
    <3>2. Fitting(p.req, request[p.req], c) /\ c.cb = "mantaLs"
      BY <1>1, <2>2, <3>1
         DEF OfHandler, Fitting, CallType, Call, Callbacks, RemovalCallbacks, UploadCallbacks,
             CopyCallbacks, ListCallbacks, OtherCallbacks, Reading, Changing, Entry, Nobody
    <3>3. UNCHANGED <<sent, history>> /\ "findAllInBucket" \notin Beside \cup {"rmdirBuckets"}
      BY <2>2 DEF Quiet, Beside
    <3>4. passed' \in {passed, passed \cup {p.req}} /\ (c.cb = "headLnDir" => p.req \in passed')
      BY <2>2, <3>2 DEF Quiet
    <3>5. etag' \in [Req -> Content \cup {None}]
      BY <1>2, <2>2
    <3> QED
      BY <1>1, <2>2, <3>2, <3>3, <3>4, <3>5, ContinuingCallback
  <2>3. ASSUME Callback(p, "findAllInBucket", {}), UNCHANGED <<passed, etag>>,
               sent' = [sent EXCEPT ![p.req] = @ \o <<"AllAccessDisabled", "InternalError">>]
        PROVE  IInv'
    <3>1. /\ p.req \in Req /\ Asked(p.req) /\ p.cb = "findAllInBucket"
          /\ request[p.req].op = "listObjects" /\ InTurn(p)
      BY <1>1, <2>3, ReplyFacts DEF Callback, OfHandler, ListCallbacks, InTurn, Beside, Nobody
    <3>2. FreeTurn(p.req, {p})
      BY <1>1, <3>1, TurnPasses
    <3>3. <<"AllAccessDisabled", "InternalError">> \in Seq(Code) /\ sent[p.req] \in Seq(Code)
      BY <3>1 DEF IInv, TypeOK, Code
    <3>4. sent[p.req] \o <<"AllAccessDisabled", "InternalError">> \in Seq(Code)
      BY <3>3
    <3>5. \E s \in Seq(Code) : /\ sent' = [sent EXCEPT ![p.req] = s]
                              /\ request'[p.req].op = "listObjects"
      BY <2>3, <3>1, <3>4 DEF Callback
    <3>6. HandlerDoes(p.req, {p}, {})
      BY <1>1, <1>2, <2>3, <3>1, <3>2, <3>5 DEF HandlerDoes, Callback
    <3> QED
      BY <3>1, <3>6, HandlerStep
  <2> QED
    BY <2>1, <2>2, <2>3 DEF FindAllInBucket
<1>12. MantaLsError(p) => IInv'
  BY <1>1, <1>2, EndingCallback DEF MantaLsError, Beside, Code
<1>13. MantaLsEnd(p) => IInv'
  BY <1>1, <1>2, EndingCallback DEF MantaLsEnd, Beside, Code
<1>14. LinkedObjectInfo(p) => IInv'
  <2>1. ASSUME Callback(p, "linkedObjectInfo", {}), SendNext(p.req, "NotFound"), UNCHANGED etag
        PROVE  IInv'
    BY <1>1, <1>2, <2>1, EndingCallback DEF Beside, Code
  <2>2. ASSUME NEW c, c = Call(p.req, "headLnDir", "info", Dirname[request[p.req].path], p.val),
               Callback(p, "linkedObjectInfo", {c}), NextOk(p.req), UNCHANGED etag
        PROVE  IInv'
    <3>1. /\ p.req \in Req /\ request[p.req].path \in Path
          /\ Dirname[request[p.req].path] \in Path
          /\ request[p.req].op = "addObject" => request[p.req].path \in Keys
          /\ p.cb = "linkedObjectInfo" /\ OfHandler(p) /\ p.val \in Entry
      BY <1>1, <2>2, ReplyFacts DEF Callback
    <3>2. Fitting(p.req, request[p.req], c) /\ c.cb = "headLnDir"
      BY <1>1, <2>2, <3>1
         DEF OfHandler, Fitting, CallType, Call, Callbacks, RemovalCallbacks, UploadCallbacks,
             CopyCallbacks, ListCallbacks, OtherCallbacks, Reading, Changing, Entry, Nobody
    <3>3. UNCHANGED <<sent, history>> /\ "linkedObjectInfo" \notin Beside \cup {"rmdirBuckets"}
      BY <2>2 DEF NextOk, Beside
    <3>4. passed' \in {passed, passed \cup {p.req}} /\ (c.cb = "headLnDir" => p.req \in passed')
      BY <2>2, <3>2 DEF NextOk
    <3>5. etag' \in [Req -> Content \cup {None}]
      BY <1>2, <2>2
    <3> QED
      BY <1>1, <2>2, <3>2, <3>3, <3>4, <3>5, ContinuingCallback
  <2> QED
    BY <2>1, <2>2 DEF LinkedObjectInfo
<1>15. HeadLnDir(p) => IInv'
  <2> DEFINE mkdir == Call(p.req, "mkLnObjDir", "mkdirp", Dirname[request[p.req].path], None)
             link  == Call(p.req, "objectLinked", "ln", request[p.req].path, request[p.req].src)
  <2>1. ASSUME NEW issued \in {{}, {mkdir}, {link}, {mkdir, link}},
               Callback(p, "headLnDir", issued),
               \/ link \notin issued /\ Throw(p.req) /\ UNCHANGED etag
               \/ p.arg # Dir /\ etag' = [etag EXCEPT ![p.req] = p.arg] /\ Quiet
        PROVE  IInv'
    <3>1. /\ p.req \in Req /\ Asked(p.req) /\ p.cb = "headLnDir" /\ InTurn(p)
          /\ request[p.req].op = "copyObject" /\ request[p.req].src \in Path
          /\ request[p.req].path \in Keys /\ request[p.req].path \in Path
          /\ Dirname[request[p.req].path] \in Path
      BY <1>1, <2>1, ReplyFacts DEF Callback, OfHandler, CopyCallbacks, InTurn, Beside, Nobody
    <3>2. p.req \in passed /\ p.arg \in Entry
      BY <1>1, <3>1 DEF IInv, OfCall
    <3>3. Fitting(p.req, request[p.req], mkdir) /\ ~InTurn(mkdir) /\ mkdir # link
      BY <1>1, <3>1
         DEF Fitting, CallType, Call, Callbacks, RemovalCallbacks, UploadCallbacks,
             CopyCallbacks, ListCallbacks, OtherCallbacks, Reading, Changing, Entry, Nobody,
             InTurn, Beside
    <3>4. Fitting(p.req, request[p.req], link) /\ link.cb = "objectLinked"
      BY <1>1, <3>1
         DEF Fitting, CallType, Call, Callbacks, RemovalCallbacks, UploadCallbacks,
             CopyCallbacks, ListCallbacks, OtherCallbacks, Reading, Changing, Nobody
    <3> HIDE DEF mkdir, link
    <3>5. CASE Throw(p.req) /\ UNCHANGED etag /\ link \notin issued
      <4>1. \A c \in issued : c = mkdir
        BY <2>1, <3>5
      <4>2. p.req \in passed'
        BY <3>2, <3>5 DEF Throw
      <4>3. "headLnDir" \notin Beside
        BY DEF Beside
      <4> QED
        BY <1>1, <1>2, <2>1, <3>3, <3>5, <4>1, <4>2, <4>3, AnsweringCallback DEF Code
    <3>6. CASE p.arg # Dir /\ etag' = [etag EXCEPT ![p.req] = p.arg] /\ Quiet
      <4>1. etag' \in [Req -> Content \cup {None}]
        BY <1>2, <3>1, <3>2, <3>6 DEF Entry
      <4>2. FreeTurn(p.req, {p}) /\ ~Answered(p.req)
        BY <1>1, <3>1, TurnPasses
      <4>3. \A c \in issued : c = mkdir \/ c = link
        BY <2>1
      <4>4. /\ replies' = replies \ {p} /\ calls' = calls \cup issued
            /\ UNCHANGED <<tree, request, dead>>
        BY <2>1 DEF Callback
      <4>5. HandlerDoes(p.req, {p}, issued)
        BY <1>1, <3>1, <3>2, <3>3, <3>4, <3>6, <4>1, <4>2, <4>3, <4>4 DEF HandlerDoes, Quiet
      <4> QED
        BY <3>1, <4>5, HandlerStep
    <3> QED
      BY <2>1, <3>5, <3>6
  <2>2. mkdir # link
    BY DEF Call
  <2> QED
    BY <2>1, <2>2 DEF HeadLnDir
<1>16. MkLnObjDir(p) => IInv'
  <2>1. ASSUME MkLnObjDir(p) PROVE p.req \in passed
    BY <1>1, <2>1 DEF MkLnObjDir, Callback, IInv, OfCall
  <2>2. ASSUME MkLnObjDir(p)
        PROVE  /\ Callback(p, "mkLnObjDir", {}) /\ UNCHANGED <<sent, etag>>
               /\ passed' \in {passed, passed \cup {p.req}}
    BY <2>1, <2>2 DEF MkLnObjDir, Quiet, NextErr
  <2> QED
    BY <1>1, <1>2, <2>2, QuietCallback
<1>17. ObjectLinked(p) => IInv'
  BY <1>1, <1>2, EndingCallback DEF ObjectLinked, Beside, Code
<1> QED
  BY <1>3, <1>4, <1>5, <1>6, <1>7, <1>8, <1>9, <1>10, <1>11, <1>12, <1>13, <1>14, <1>15, <1>16, <1>17
     DEF ObjectsCallback

----------------------------------------------------------------------------
(* The entry of a handler: nothing of its request is there yet. *)

LEMMA EnteringHandler ==
  ASSUME IInv, NEW r \in Req, NEW q \in Menu, ~Asked(r),
         request' = [request EXCEPT ![r] = q], NEW issued, Enter(issued), UNCHANGED history,
         \A c \in issued : Fitting(r, q, c) /\ c.cb \notin {"headLnDir", "mkLnObjDir"},
         \A c, d \in issued : InTurn(c) /\ InTurn(d) => c = d,
         \/ Quiet \/ NextOk(r)
         \/ issued = {} /\ (SendNext(r, "OK") \/ Throw(r))
  PROVE  IInv'
<1>1. FreeTurn(r, {}) /\ ~Answered(r)
  BY DEF IInv, HandlersOfItems, OfHandler, UnansweredInTurn, FreeTurn
<1>2. /\ replies' = replies \ {} /\ calls' = calls \cup issued
      /\ UNCHANGED <<tree, etag, dead>>
  BY DEF Enter
<1>3. /\ etag \in [Req -> Content \cup {None}]
      /\ request'[r] = q
  BY DEF IInv, TypeOK
<1>4. passed' \in {passed, passed \cup {r}}
  BY DEF Quiet, NextOk, SendNext, Throw
<1>5. \/ sent' = sent
      \/ issued = {} /\ \E code \in Code : sent' = [sent EXCEPT ![r] = <<code>>]
  <2>1. CASE Quiet \/ NextOk(r)
    BY <2>1 DEF Quiet, NextOk
  <2>2. CASE issued = {} /\ (SendNext(r, "OK") \/ Throw(r))
    <3>1. sent[r] = <<>>
      BY <1>1 DEF Answered
    <3>2. \A any \in Code : Append(sent[r], any) = <<any>>
      BY <3>1
    <3> QED
      BY <1>1, <2>2, <3>2 DEF SendNext, Throw, Code
  <2> QED
    BY <2>1, <2>2
<1>6. \A code \in Code : <<code>> \in Seq(Code) /\ Len(<<code>>) <= 1
  OBVIOUS
<1>7. HandlerDoes(r, {}, issued)
  BY <1>1, <1>2, <1>3, <1>4, <1>5, <1>6 DEF HandlerDoes
<1> QED
  BY <1>7, HandlerStep

\* The bucket of a key is one of the paths.
LEMMA BucketOfType == \A k \in Keys : BucketOf(k) \in Path
<1> TAKE k \in Keys
<1>1. k \in Path /\ k # Base
  BY DEF Keys
<1>2. Base \in Above[k]
  BY <1>1, HierarchyAssumption
<1>3. PICK b \in Above[k] : b # Base /\ Dirname[b] = Base
  BY <1>1, <1>2, HierarchyAssumption
<1>4. b \in Buckets
  BY <1>1, <1>3, AboveType DEF Buckets
<1>5. BucketOf(k) \in Above[k]
  BY <1>3, <1>4 DEF BucketOf
<1> QED
  BY <1>1, <1>5, AboveType

LEMMA ArriveKeeps ==
  ASSUME IInv, NEW r \in Req, NEW q \in Menu, Arrive(r, q)
  PROVE  IInv'
<1>1. /\ ~Asked(r) /\ request' = [request EXCEPT ![r] = q] /\ UNCHANGED history
      /\ q.path \in Path /\ q.src \in Path /\ Dirname[q.path] \in Path
      /\ q.op = "getObject" => BucketOf(q.path) \in Path
      /\ BucketsEnter(r, q) \/ ObjectsEnter(r, q)
  BY MenuType, MenuKeys, BucketOfType, HierarchyAssumption DEF Arrive
<1> DEFINE Plain(c) == Fitting(r, q, c) /\ c.cb \notin {"headLnDir", "mkLnObjDir"}
<1>2. ASSUME Enter({}), SendNext(r, "OK") \/ Throw(r)
      PROVE  IInv'
  BY <1>1, <1>2, EnteringHandler
<1>3. ASSUME NEW c, Plain(c), Enter({c}), Quiet \/ NextOk(r)
      PROVE  IInv'
  BY <1>1, <1>3, EnteringHandler
<1>4. CASE q.op = "listBuckets" /\ ListBuckets(r)
  <2>1. Plain(Call(r, "mlsBuckets", "ls", Base, None))
    BY <1>1, <1>4, HierarchyAssumption
         DEF Fitting, CallType, Call, Callbacks, RemovalCallbacks, UploadCallbacks,
             CopyCallbacks, ListCallbacks, OtherCallbacks, Reading, Changing, Entry, Nobody
  <2> QED
    BY <1>2, <1>3, <1>4, <2>1 DEF ListBuckets
<1>5. CASE q.op = "bucketExists" /\ BucketExists(r, q)
  <2>1. Plain(Call(r, "headBucket", "info", q.path, None))
    BY <1>1, <1>5, HierarchyAssumption
         DEF Fitting, CallType, Call, Callbacks, RemovalCallbacks, UploadCallbacks,
             CopyCallbacks, ListCallbacks, OtherCallbacks, Reading, Changing, Entry, Nobody
  <2> QED
    BY <1>2, <1>3, <1>5, <2>1 DEF BucketExists
<1>6. CASE q.op = "addBucket" /\ AddBucket(r, q)
  <2>1. Plain(Call(r, "infoBucketAdd", "info", q.path, None))
    BY <1>1, <1>6, HierarchyAssumption
         DEF Fitting, CallType, Call, Callbacks, RemovalCallbacks, UploadCallbacks,
             CopyCallbacks, ListCallbacks, OtherCallbacks, Reading, Changing, Entry, Nobody
  <2> QED
    BY <1>2, <1>3, <1>6, <2>1 DEF AddBucket
<1>7. CASE q.op = "removeBucket" /\ RemoveBucket(r, q)
  <2> DEFINE first  == Call(r, "infoBucketFirst", "info", q.path, None)
             second == Call(r, "infoBucketSecond", "info", q.path, None)
  <2>1. /\ Plain(first) /\ Plain(second)
        /\ ~InTurn(first)
    BY <1>1, <1>7
         DEF Fitting, CallType, Call, Callbacks, RemovalCallbacks, UploadCallbacks,
             CopyCallbacks, ListCallbacks, OtherCallbacks, Reading, Changing, Entry, Nobody, InTurn, Beside
  <2>2. Enter({first, second}) /\ Quiet
    BY <1>7 DEF RemoveBucket
  <2> HIDE DEF first, second
  <2>3. \A c \in {first, second} : Fitting(r, q, c) /\ c.cb \notin {"headLnDir", "mkLnObjDir"}
    BY <2>1
  <2>4. \A c, d \in {first, second} : InTurn(c) /\ InTurn(d) => c = d
    BY <2>1
  <2> QED
    BY <1>1, <2>2, <2>3, <2>4, EnteringHandler
<1>8. CASE q.op = "addObject" /\ AddObject(r, q)
  <2>1. Plain(Call(r, "headPutDir", "info", Dirname[q.path], None))
    BY <1>1, <1>8, HierarchyAssumption
         DEF Fitting, CallType, Call, Callbacks, RemovalCallbacks, UploadCallbacks,
             CopyCallbacks, ListCallbacks, OtherCallbacks, Reading, Changing, Entry, Nobody
  <2> QED
    BY <1>2, <1>3, <1>8, <2>1 DEF AddObject
<1>9. CASE q.op = "createDirectory" /\ CreateDirectory(r, q)
  <2>1. Plain(Call(r, "mmkdirp", "mkdirp", q.path, None))
    BY <1>1, <1>9, HierarchyAssumption
         DEF Fitting, CallType, Call, Callbacks, RemovalCallbacks, UploadCallbacks,
             CopyCallbacks, ListCallbacks, OtherCallbacks, Reading, Changing, Entry, Nobody
  <2> QED
    BY <1>2, <1>3, <1>9, <2>1 DEF CreateDirectory
<1>10. CASE q.op = "getObject" /\ GetObject(r, q)
  <2>1. Plain(Call(r, "headGetDir", "info", BucketOf(q.path), None))
    BY <1>1, <1>10, HierarchyAssumption
         DEF Fitting, CallType, Call, Callbacks, RemovalCallbacks, UploadCallbacks,
             CopyCallbacks, ListCallbacks, OtherCallbacks, Reading, Changing, Entry, Nobody
  <2> QED
    BY <1>2, <1>3, <1>10, <2>1 DEF GetObject
<1>11. CASE q.op = "deleteObject" /\ DeleteObject(r, q)
  <2>1. Plain(Call(r, "rmObj", "unlink", q.path, None))
    BY <1>1, <1>11, HierarchyAssumption
         DEF Fitting, CallType, Call, Callbacks, RemovalCallbacks, UploadCallbacks,
             CopyCallbacks, ListCallbacks, OtherCallbacks, Reading, Changing, Entry, Nobody
  <2> QED
    BY <1>2, <1>3, <1>11, <2>1 DEF DeleteObject
<1>12. CASE q.op = "listObjects" /\ ListObjects(r, q)
  <2>1. Plain(Call(r, "findAllInBucket", "ls", q.path, None))
    BY <1>1, <1>12, HierarchyAssumption
         DEF Fitting, CallType, Call, Callbacks, RemovalCallbacks, UploadCallbacks,
             CopyCallbacks, ListCallbacks, OtherCallbacks, Reading, Changing, Entry, Nobody
  <2> QED
    BY <1>2, <1>3, <1>12, <2>1 DEF ListObjects
<1>13. CASE q.op = "copyObject" /\ CopyObject(r, q)
  <2>1. Plain(Call(r, "linkedObjectInfo", "info", q.src, None))
    BY <1>1, <1>13, HierarchyAssumption
         DEF Fitting, CallType, Call, Callbacks, RemovalCallbacks, UploadCallbacks,
             CopyCallbacks, ListCallbacks, OtherCallbacks, Reading, Changing, Entry, Nobody
  <2> QED
    BY <1>2, <1>3, <1>13, <2>1 DEF CopyObject
<1>14. CASE ListMultipartUploads(r) \/ GetAcl(r) \/ PutAcl(r)
  BY <1>2, <1>14 DEF ListMultipartUploads, GetAcl, PutAcl
<1> QED
  BY <1>1, <1>4, <1>5, <1>6, <1>7, <1>8, <1>9, <1>10, <1>11, <1>12, <1>13, <1>14 DEF BucketsEnter, ObjectsEnter

----------------------------------------------------------------------------
(* The invariant. *)

LEMMA InitKeeps == Init => IInv
<1> SUFFICES ASSUME Init PROVE IInv
  OBVIOUS
<1>1. tree \in [Path -> Entry]
  BY DEF Init, Entry, Content
<1>2. <<>> \in Seq(Code) /\ Len(<<>>) = 0
  OBVIOUS
<1>3. TypeOK
  BY <1>1, <1>2 DEF Init, TypeOK
<1> QED
  BY <1>2, <1>3 DEF Init, IInv, OneTurn, HandlersOfItems, UnansweredInTurn, OfCall,
     RmrAfterEmptyListing, AnsweredOnce, Answered

LEMMA StutterKeeps == IInv /\ UNCHANGED vars => IInv'
BY DEF IInv, vars, mantaVars, httpVars, history, TypeOK, Consistent, BucketsAreDirectories,
       OneTurn, InTurn, HandlersOfItems, OfHandler, Asked, Answered, UnansweredInTurn, OfCall,
       RmrAfterEmptyListing, AnsweredOnce

LEMMA NextKeeps == IInv /\ [Next]_vars => IInv'
<1> SUFFICES ASSUME IInv, [Next]_vars PROVE IInv'
  OBVIOUS
<1>1. ASSUME NEW r \in Req, NEW q \in Menu, Arrive(r, q) PROVE IInv'
  BY <1>1, ArriveKeeps
<1>2. ASSUME NEW r \in Req, Serve(r) PROVE IInv'
  BY <1>2, ServeKeeps
<1>3. ASSUME NEW r \in Req, RunCallback(r) PROVE IInv'
  BY <1>3, BucketsCallbackKeeps, ObjectsCallbackKeeps DEF RunCallback
<1>4. ASSUME NEW r \in Req, LoseConnection(r) PROVE IInv'
  BY <1>4, LoseConnectionKeeps
<1>5. ASSUME NEW R \in SUBSET Req, ProcessExits(R) PROVE IInv'
  BY <1>5, ProcessExitsKeeps
<1>6. ASSUME Idle \/ UNCHANGED vars PROVE IInv'
  BY <1>6, StutterKeeps DEF Idle
<1> QED
  BY <1>1, <1>2, <1>3, <1>4, <1>5, <1>6 DEF Next

\* IInv holds in every state of every run of the bridge, faults or none.
THEOREM Inductive == Spec => []IInv
<1>1. Init => IInv
  BY InitKeeps
<1>2. IInv /\ [Next]_vars => IInv'
  BY NextKeeps
<1> QED
  BY <1>1, <1>2, PTL DEF Spec

----------------------------------------------------------------------------
(* The theorems. *)

\* Every variable keeps its type; in particular no ETag ever speaks of a
\* directory, whatever getObject and copyObject find at their paths.
THEOREM TypeCorrect == Spec => []TypeOK
<1>1. IInv => TypeOK
  BY DEF IInv
<1> QED
  BY <1>1, Inductive, PTL

\* Whatever the handlers do at the same time, the tree stays a tree: nothing
\* is stored below a missing directory, and no object takes a bucket's place.
THEOREM TreeConsistent == Spec => [](Consistent /\ BucketsAreDirectories)
<1>1. IInv => Consistent /\ BucketsAreDirectories
  BY DEF IInv
<1> QED
  BY <1>1, Inductive, PTL

\* A request has at most one call or result that can go on with its handler:
\* the chains of callbacks of buckets.js and objects.js never fork, but for
\* the two callbacks of Beside.
THEOREM ChainsDoNotFork == Spec => []OneTurn
<1>1. IInv => OneTurn
  BY DEF IInv
<1> QED
  BY <1>1, Inductive, PTL

\* No handler but removeBucket and listObjects calls res.send, by itself or
\* through next(err) or an exception, a second time.
THEOREM AnswersOnce == Spec => []AnsweredOnce
<1>1. IInv => AnsweredOnce
  BY DEF IInv
<1> QED
  BY <1>1, Inductive, PTL

LEMMA FinalWhenInvariant == IInv => AnswerIsFinal
<1> SUFFICES ASSUME IInv, NEW c \in calls, c.cb # Nobody, Answered(c.req)
             PROVE  request[c.req].op \in {"removeBucket", "copyObject"}
  BY DEF AnswerIsFinal
<1>1. CASE InTurn(c)
  BY <1>1 DEF IInv, UnansweredInTurn
<1>2. CASE ~InTurn(c)
  BY <1>2 DEF IInv, HandlersOfItems, OfHandler, InTurn, Beside, RemovalCallbacks, CopyCallbacks
<1> QED
  BY <1>1, <1>2

\* When a client has its answer, no call its handler awaits may still change
\* the tree, but for removeBucket and the mkdirp of copyObject.
THEOREM AnswersAreFinal == Spec => []AnswerIsFinal
BY FinalWhenInvariant, Inductive, PTL

\* A step that is not Manta's leaves the tree alone.
LEMMA CallbackTree ==
  ASSUME NEW p, BucketsCallback(p) \/ ObjectsCallback(p)
  PROVE  UNCHANGED tree
<1>1. CASE BucketsCallback(p)
  BY <1>1 DEF BucketsCallback, MlsBuckets, MlsBucketsErr, MlsBucketsEnd, HeadBucket,
     InfoBucketAdd, MkdirBuckets, InfoBucketFirst, InfoBucketSecond, CheckForEmptyDir,
     ErrorOnListing, ObjFound, DirFound, FinishedDeadList, RmdirBuckets, Callback
<1>2. CASE ObjectsCallback(p)
  BY <1>2 DEF ObjectsCallback, HeadPutDir, MkObjDir, ObjectPut, Mmkdirp, HeadGetDir, GetObj,
     FinishedPipingObject, RmObj, FindAllInBucket, MantaLsError, MantaLsEnd,
     LinkedObjectInfo, HeadLnDir, MkLnObjDir, ObjectLinked, Callback
<1> QED
  BY <1>1, <1>2

LEMMA EnterTree ==
  ASSUME NEW r, NEW q, Arrive(r, q)
  PROVE  UNCHANGED tree
BY DEF Arrive, BucketsEnter, ObjectsEnter, ListBuckets, BucketExists, AddBucket, RemoveBucket,
       AddObject, CreateDirectory, GetObject, DeleteObject, ListObjects, ListMultipartUploads,
       GetAcl, PutAcl, CopyObject, Enter

\* An entry goes only by its own deleteObject, or by the removal of a bucket
\* whose listing had not shown it: the rmr of removeBucket, which would take a
\* whole tree, never takes an entry that checkForEmptyDir could have seen.
THEOREM ListedSurvive == Spec => ListedEntriesSurvive
<1> DEFINE Goes(p) == tree[p] # None /\ tree'[p] = None
           Cause(p) == \E c \in calls : \/ c.fn = "unlink" /\ c.path = p
                                        \/ /\ c.fn = "rmr" /\ p \in Below(c.path)
                                           /\ p \notin seen[c.req]
<1>1. ASSUME IInv, [Next]_vars, NEW p \in Path, Goes(p) PROVE Cause(p)
  <2>1. PICK c \in calls : Execute(c) \/ MkdirpPartial(c)
    <3>1. ASSUME UNCHANGED tree PROVE FALSE
      BY <1>1, <3>1
    <3> QED
      BY <1>1, <3>1, CallbackTree, EnterTree
         DEF Next, Serve, Refuse, RunCallback, LoseConnection, HangUp, BreakOff, ProcessExits,
             Orphan, Idle, vars, mantaVars
  <2>2. c.req \in Req /\ c.path \in Path /\ tree \in [Path -> Entry]
    BY <1>1 DEF IInv, TypeOK, CallType
  <2>3. c.fn = "rmr" => seen[c.req] = {}
    BY <1>1 DEF IInv, RmrAfterEmptyListing
  <2>4. CASE Info(c) \/ Get(c) \/ Body(c) \/ Ls(c) \/ Events(c) \/ Listing(c)
    BY <1>1, <2>4 DEF Info, Get, Body, Ls, Events, Listing
  <2>5. CASE Mkdirp(c) \/ MkdirpPartial(c)
    BY <1>1, <2>5, Names DEF Mkdirp, MkdirpPartial
  <2>6. CASE Put(c) \/ Ln(c)
    BY <1>1, <2>2, <2>6, Names DEF Put, Ln, Writable, Content
  <2>7. CASE Unlink(c)
    BY <1>1, <2>2, <2>7 DEF Unlink, RemoveEntry
  <2>8. CASE RmrLeaf(c) \/ RmrTop(c)
    <3>1. p \in Below(c.path)
      BY <1>1, <2>2, <2>8, AboveType DEF RmrLeaf, RmrTop, RemoveEntry, Stored, Below
    <3> QED
      BY <2>3, <2>8, <3>1 DEF RmrLeaf, RmrTop
  <2> QED
    BY <2>1, <2>4, <2>5, <2>6, <2>7, <2>8 DEF Execute
<1>2. IInv /\ [Next]_vars => [\A p \in Path : Goes(p) => Cause(p)]_vars
  BY <1>1
<1> QED
  BY <1>2, Inductive, PTL DEF Spec, ListedEntriesSurvive
=============================================================================
