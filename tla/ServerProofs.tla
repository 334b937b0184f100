---------------------------- MODULE ServerProofs ----------------------------
(***************************************************************************)
(* Proofs about Server, for every set of processes: it implements Bridge,  *)
(* so that all that is proved of Bridge holds of it, and a graceful        *)
(* shutdown cuts no change short that somebody waits for.                  *)
(***************************************************************************)
EXTENDS Server, StoreProofs

LEMMA AbandonSteps == \A p \in Proc : Abandon(p) => [Next]_vars
<1> SUFFICES ASSUME NEW p \in Proc, Abandon(p) PROVE [Next]_vars
  OBVIOUS
<1>1. CASE Unfinished(p) = {}
  BY <1>1 DEF Abandon
<1>2. CASE Unfinished(p) # {}
  <2>1. Unfinished(p) \in SUBSET Req
    BY DEF Unfinished, ServedBy
  <2> QED
    BY <1>2, <2>1 DEF Abandon, Next
<1> QED
  BY <1>1, <1>2

LEMMA StepsAreBridge == [ServerNext]_serverVars => [Next]_vars
<1> SUFFICES ASSUME [ServerNext]_serverVars PROVE [Next]_vars
  OBVIOUS
<1>1. CASE UNCHANGED serverVars
  BY <1>1 DEF serverVars
<1>2. ASSUME NEW p \in Proc, Launch(p) \/ Shutdown(p) PROVE UNCHANGED vars
  BY <1>2 DEF Launch, Shutdown
<1>3. ASSUME NEW p \in Proc, Exit(p) \/ Kill(p) PROVE [Next]_vars
  BY <1>3, AbandonSteps DEF Exit, Kill
<1>4. ASSUME NEW p \in Proc, NEW r \in Req, NEW q \in Menu, Connect(r, q, p) PROVE Next
  BY <1>4 DEF Connect, Next
<1>5. ASSUME NEW r \in Req, NEW q \in Menu, NEW s \in Req, Reuse(r, q, s) PROVE Next
  BY <1>5 DEF Reuse, Next
<1>6. ASSUME NEW r \in Req, Disconnect(r) PROVE UNCHANGED vars
  BY <1>6 DEF Disconnect
<1>7. ASSUME NEW r \in Req, Work(r) PROVE Next
  BY <1>7 DEF Work, Next
<1>8. CASE Rest
  BY <1>8 DEF Rest, serverVars
<1> QED
  BY <1>1, <1>2, <1>3, <1>4, <1>5, <1>6, <1>7, <1>8 DEF ServerNext

\* Processes that start, stop, crash and take over from each other do nothing
\* to the requests and the tree that Bridge does not allow.
THEOREM ServerImplementsBridge == ServerSpec => Spec
<1>1. ServerInit => Init
  BY DEF ServerInit
<1> QED
  BY <1>1, StepsAreBridge, PTL DEF ServerSpec, Spec

----------------------------------------------------------------------------
(* An answer that was sent stays sent. *)

Stays == \A s \in Req : Answered(s) => Answered(s)'

\* The ways a step of r can end.
Ends(r, code) ==
    \/ Send(r, code) \/ NextOk(r) \/ SendNext(r, code) \/ NextErr(r, code)
    \/ Throw(r) \/ Quiet

LEMMA EndingStays ==
  ASSUME TypeOK, NEW r \in Req, NEW code \in Code, Ends(r, code)
  PROVE  Stays
<1>1. sent \in [Req -> Seq(Code)]
  BY DEF TypeOK
<1>2. Append(sent[r], code) # <<>> /\ Append(sent[r], "InternalError") # <<>>
  BY <1>1 DEF Code
<1> QED
  BY <1>1, <1>2 DEF Stays, Answered, Ends, Send, NextOk, SendNext, NextErr, Throw, Quiet

LEMMA BucketsEnd ==
  ASSUME NEW p, BucketsCallback(p)
  PROVE  \E code \in Code : Ends(p.req, code)
<1> USE DEF Code, Ends
<1>1. CASE MlsBuckets(p) \/ MlsBucketsErr(p) \/ MlsBucketsEnd(p) \/ HeadBucket(p)
  BY <1>1 DEF MlsBuckets, MlsBucketsErr, MlsBucketsEnd, HeadBucket
<1>2. CASE InfoBucketAdd(p) \/ MkdirBuckets(p) \/ InfoBucketFirst(p) \/ InfoBucketSecond(p)
  BY <1>2 DEF InfoBucketAdd, MkdirBuckets, InfoBucketFirst, InfoBucketSecond
<1>3. CASE CheckForEmptyDir(p) \/ ErrorOnListing(p) \/ ObjFound(p) \/ DirFound(p)
  BY <1>3 DEF CheckForEmptyDir, ErrorOnListing, ObjFound, DirFound
<1>4. CASE FinishedDeadList(p) \/ RmdirBuckets(p)
  BY <1>4 DEF FinishedDeadList, RmdirBuckets
<1> QED
  BY <1>1, <1>2, <1>3, <1>4 DEF BucketsCallback

LEMMA ObjectsEnd ==
  ASSUME NEW p, ObjectsCallback(p), ~FindAllInBucket(p)
  PROVE  \E code \in Code : Ends(p.req, code)
<1> USE DEF Code, Ends
<1>1. CASE HeadPutDir(p) \/ MkObjDir(p) \/ ObjectPut(p) \/ Mmkdirp(p)
  BY <1>1 DEF HeadPutDir, MkObjDir, ObjectPut, Mmkdirp
<1>2. CASE HeadGetDir(p) \/ GetObj(p) \/ FinishedPipingObject(p) \/ RmObj(p)
  BY <1>2 DEF HeadGetDir, GetObj, FinishedPipingObject, RmObj
<1>3. CASE MantaLsError(p) \/ MantaLsEnd(p) \/ LinkedObjectInfo(p)
  BY <1>3 DEF MantaLsError, MantaLsEnd, LinkedObjectInfo
<1>4. CASE HeadLnDir(p) \/ MkLnObjDir(p) \/ ObjectLinked(p)
  BY <1>4 DEF HeadLnDir, MkLnObjDir, ObjectLinked
<1> QED
  BY <1>1, <1>2, <1>3, <1>4 DEF ObjectsCallback

LEMMA EnteringEnds ==
  ASSUME NEW r, NEW q, BucketsEnter(r, q) \/ ObjectsEnter(r, q)
  PROVE  \E code \in Code : Ends(r, code)
<1> USE DEF Code, Ends
<1>1. CASE BucketsEnter(r, q)
  BY <1>1 DEF BucketsEnter, ListBuckets, BucketExists, AddBucket, RemoveBucket
<1>2. CASE ObjectsEnter(r, q)
  BY <1>2 DEF ObjectsEnter, AddObject, CreateDirectory, GetObject, DeleteObject, ListObjects,
     ListMultipartUploads, GetAcl, PutAcl, CopyObject, UploadObject
<1> QED
  BY <1>1, <1>2

\* findAllInBucket answers at least once, whatever the look-up gave.
LEMMA FindAllStays ==
  ASSUME TypeOK, NEW p \in replies, FindAllInBucket(p)
  PROVE  Stays
<1>1. p.req \in Req /\ sent \in [Req -> Seq(Code)]
  BY DEF TypeOK, ReplyType
<1>2. CASE \E code \in Code : Ends(p.req, code)
  BY <1>1, <1>2, EndingStays
<1>3. CASE sent' = [sent EXCEPT ![p.req] = @ \o <<"AllAccessDisabled", "InternalError">>]
  <2>1. sent[p.req] \o <<"AllAccessDisabled", "InternalError">> # <<>>
    BY <1>1 DEF Code
  <2> QED
    BY <1>1, <1>3, <2>1 DEF Stays, Answered
<1> QED
  BY <1>2, <1>3 DEF FindAllInBucket, Ends, Code

\* Whatever happens in the bridge, an answered request stays answered.
LEMMA AnswersStay == TypeOK /\ [Next]_vars => Stays
<1> SUFFICES ASSUME TypeOK, [Next]_vars PROVE Stays
  OBVIOUS
<1>1. ASSUME NEW r \in Req, NEW q \in Menu, Arrive(r, q) PROVE Stays
  BY <1>1, EnteringEnds, EndingStays DEF Arrive
<1>2. ASSUME NEW r \in Req, RunCallback(r) PROVE Stays
  <2>1. PICK p \in replies : p.req = r /\ (BucketsCallback(p) \/ ObjectsCallback(p))
    BY <1>2 DEF RunCallback
  <2> QED
    BY <2>1, BucketsEnd, ObjectsEnd, EndingStays, FindAllStays
<1>3. ASSUME UNCHANGED sent PROVE Stays
  BY <1>3 DEF Stays, Answered
<1> QED
  BY <1>1, <1>2, <1>3 DEF Next, Serve, LoseConnection, ProcessExits, Idle, vars, httpVars
----------------------------------------------------------------------------
(* Processes and their connections. *)

LEMMA ServerInitKeeps == ServerInit => ServerInv
BY DEF ServerInit, ServerInv, ServerTypeOK, NobodyIsHungUpOn, Running

LEMMA ServerNextKeeps == TypeOK /\ ServerInv /\ [ServerNext]_serverVars => ServerInv'
<1> SUFFICES ASSUME TypeOK, ServerInv, [ServerNext]_serverVars PROVE ServerInv'
  OBVIOUS
<1> USE ProcAssumption DEF ServerInv, ServerTypeOK, NobodyIsHungUpOn, Running
<1>0. Stays
  BY StepsAreBridge, AnswersStay
<1>1. CASE UNCHANGED processes
  BY <1>0, <1>1 DEF processes, Stays
<1>2. ASSUME NEW p \in Proc, Launch(p) \/ Shutdown(p) PROVE ServerInv'
  BY <1>0, <1>2 DEF Launch, Shutdown, Stays
<1>3. ASSUME NEW p \in Proc, Exit(p) PROVE ServerInv'
  BY <1>0, <1>3 DEF Exit, Stays
<1>4. ASSUME NEW p \in Proc, Kill(p) PROVE ServerInv'
  BY <1>0, <1>4 DEF Kill, ServedBy, Stays
<1>5. ASSUME NEW p \in Proc, NEW r \in Req, NEW q \in Menu, Connect(r, q, p) PROVE ServerInv'
  BY <1>0, <1>5 DEF Connect, Stays
<1>6. ASSUME NEW r \in Req, NEW q \in Menu, NEW s \in Req, Reuse(r, q, s) PROVE ServerInv'
  BY <1>0, <1>6 DEF Reuse, Stays
<1>7. ASSUME NEW r \in Req, Disconnect(r) PROVE ServerInv'
  BY <1>0, <1>7 DEF Disconnect, Stays
<1> QED
  BY <1>1, <1>2, <1>3, <1>4, <1>5, <1>6, <1>7
     DEF ServerNext, Work, Rest, serverVars, processes

\* A request that a running process has accepted keeps its connection until it
\* is answered or given up, through keep-alive, signals, exits and restarts.
THEOREM ConnectionsAreKept == ServerSpec => []ServerInv
<1>1. ServerInit => ServerInv
  BY ServerInitKeeps
<1>2. TypeOK /\ ServerInv /\ [ServerNext]_serverVars => ServerInv'
  BY ServerNextKeeps
<1> QED
  BY <1>1, <1>2, ServerImplementsBridge, TypeCorrect, PTL DEF ServerSpec

\* The exit at the end of shutdown (app.js) cuts no change to the tree short
\* that a client waits for or was told of, but for the two of AnswerIsFinal.
THEOREM ShutdownCutsNothing == ServerSpec => ExitCutsNothing
<1>1. ASSUME IInv, ServerInv, [ServerNext]_serverVars, NEW p \in Proc, NEW c \in calls,
             proc[p] = "closing", proc'[p] = "exited",
             at[c.req] = p, c.fn \in Changing, c.cb # Nobody
      PROVE  c.req \in left \/ request[c.req].op \in {"removeBucket", "copyObject"}
  <2>1. c.req \in Req
    BY <1>1 DEF IInv, TypeOK, CallType
  <2>2. Exit(p)
    BY <1>1 DEF ServerNext, Launch, Shutdown, Exit, Kill, Connect, Reuse, Disconnect, Work,
       Rest, serverVars, processes, ServerInv, ServerTypeOK
  <2>3. c.req \in left \/ Answered(c.req)
    BY <1>1, <2>1, <2>2, ProcAssumption
       DEF Exit, ServedBy, ServerInv, NobodyIsHungUpOn, Running
  <2> QED
    BY <1>1, <2>3, FinalWhenInvariant DEF AnswerIsFinal
<1>2. IInv /\ ServerInv /\ [ServerNext]_serverVars =>
         [\A p \in Proc, c \in calls :
            /\ proc[p] = "closing" /\ proc'[p] = "exited"
            /\ at[c.req] = p /\ c.fn \in Changing /\ c.cb # Nobody
            => c.req \in left \/ request[c.req].op \in {"removeBucket", "copyObject"}]_serverVars
  BY <1>1
<1> QED
  BY <1>2, ServerImplementsBridge, Inductive, ConnectionsAreKept, PTL
     DEF ServerSpec, ExitCutsNothing

\* What the clients of a cluster see is an object store, too: sharing the
\* processes and their exits changes nothing that ObjectStore tells apart.
THEOREM ServerImplementsStore == ServerSpec => ImplementsStore
  BY ServerImplementsBridge, BridgeImplementsStore, PTL

\* No cluster of processes forgets a request that an answer is due for, and a
\* removal of a bucket says there, too, what its own listing has shown.
THEOREM ServerForgetsNone == ServerSpec => [](NoneForgotten /\ RemovalFollowsListing)
  BY ServerImplementsBridge, NoneIsForgotten, RemovalsFollowListings, PTL
=============================================================================
