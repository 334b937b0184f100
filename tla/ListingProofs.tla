--------------------------- MODULE ListingProofs ---------------------------
(***************************************************************************)
(* Proofs about Listing, for directories, prefixes and limits of any size: *)
(* that what is counted is what is listed, that a listing without limits   *)
(* is complete, and that one with a limit falls short of it only where     *)
(* there is no more to list.                                               *)
(***************************************************************************)
EXTENDS Listing, FiniteSetTheorems, SequenceTheorems, TLAPS

----------------------------------------------------------------------------
(* Keys. *)

\* The key an entry of a name is listed under, as a function of the name.
KeyOf == [n \in Name |-> BuildRelativePathForObject(n)]

\* The names of the objects that the prefix does not leave out.
Hit == {n \in Name : HasPrefix => Matches(BuildRelativePathForObject(n))}

\* The names that are listed of a set of entries.
ObjectNames(E) == {n \in Hit : [type |-> "object", name |-> n] \in E}
DirectoryNames(E) == {n \in Name : [type |-> "directory", name |-> n] \in E}

KeysFor(names) == {KeyOf[n] : n \in names}

\* What may be part of a key.
Part == Segment \cup Name

LEMMA SubdirType == ASSUME prefix \in Prefix PROVE Subdir \in Seq(Part)
<1>1. prefix \in Seq(Segment) /\ prefix # <<>>
  BY ListingAssumption
<1> DEFINE d == Front(prefix)
           n == Len(prefix)
<1>2. d \in Seq(Segment)
  <2>1. n \in Nat /\ \A i \in 1..n : prefix[i] \in Segment
    BY <1>1, LenProperties, ElementOfSeq
  <2>2. \A i \in 1..(n - 1) : prefix[i] \in Segment
    BY <2>1
  <2>3. 1 \in Int /\ n - 1 \in Int
    BY <2>1
  <2>4. SubSeq(prefix, 1, n - 1) \in Seq(Segment)
    BY <2>2, <2>3, SubSeqProperties
  <2> QED
    BY <2>4 DEF Front
<1>3. d \in Seq(Part)
  <2>1. Segment \subseteq Part
    BY DEF Part
  <2> QED
    BY <1>2, <2>1, SeqMonotonic
<1> HIDE DEF d
<1>4. d # <<>> => Tail(d) \in Seq(Part)
  BY <1>3, HeadTailProperties
<1>5. Subdir = IF d # <<>> /\ d[1] = "" THEN Tail(d) ELSE d
  BY DEF Subdir, ParseSubdirAndSearchPrefix, d
<1> QED
  BY <1>3, <1>4, <1>5

\* Different entries of a directory are listed under different keys.
LEMMA KeysDiffer ==
    ASSUME prefix \in Prefix, NEW n \in Name, NEW m \in Name, KeyOf[n] = KeyOf[m]
    PROVE  n = m
<1> DEFINE d == Subdir
<1>1. d \in Seq(Part) /\ n \in Part /\ m \in Part
  BY SubdirType DEF Part
<1>2. Append(d, n) = Append(d, m)
  BY DEF KeyOf, BuildRelativePathForObject
<1> HIDE DEF d
<1>3. Len(d) \in Nat
  BY <1>1, LenProperties
<1>4. Append(d, n)[Len(d) + 1] = n /\ Append(d, m)[Len(d) + 1] = m
  BY <1>1, AppendProperties
<1> QED
  BY <1>2, <1>4

\* A name that is not among those listed has a key that is not.
LEMMA NewKey ==
    ASSUME prefix \in Prefix, NEW names, names \subseteq Name, NEW n \in Name, n \notin names
    PROVE  KeyOf[n] \notin KeysFor(names)
  BY KeysDiffer DEF KeysFor

----------------------------------------------------------------------------
(* The invariant. *)

Seen == entries \ todo

\* The inductive invariant: up to the first entry over the limit, what is listed
\* is what there was to list among the entries seen so far.
LInv ==
    /\ prefix \in Prefix /\ maxKeys \in MaxKeys \cup {Unlimited}
    /\ entries \subseteq Entry /\ Directory(entries) /\ todo \subseteq entries
    /\ DoubleSlash(prefix) => todo = {}
    /\ listening \in BOOLEAN
    /\ contents \subseteq KeysFor(ObjectNames(Seen)) /\ IsFiniteSet(contents)
    /\ commonPrefixes \subseteq KeysFor(DirectoryNames(Seen)) /\ IsFiniteSet(commonPrefixes)
    /\ objectCount = Cardinality(contents) + Cardinality(commonPrefixes)
    /\ listening /\ ~DoubleSlash(prefix) =>
         /\ contents = KeysFor(ObjectNames(Seen))
         /\ commonPrefixes = KeysFor(DirectoryNames(Seen))
         /\ ~HasPrefix => objectCount = Cardinality(Seen)
    /\ ~listening => MaxKeysSpecified /\ objectCount > maxKeys
    /\ MaxKeysSpecified => objectCount <= IF maxKeys < 0 THEN 0 ELSE maxKeys + 1
    /\ answer \in [sent : BOOLEAN, maxKeys : Int, truncated : BOOLEAN]
    /\ answer.sent /\ ~DoubleSlash(prefix) =>
         /\ todo = {}
         /\ ~MaxKeysSpecified => objectCount <= answer.maxKeys
         /\ ~MaxKeysSpecified /\ ~HasPrefix => ~answer.truncated

LEMMA CountType == ASSUME LInv PROVE objectCount \in Nat /\ Cardinality(Seen) \in Nat
<1>1. IsFiniteSet(Seen) /\ IsFiniteSet(contents) /\ IsFiniteSet(commonPrefixes)
  <2>1. IsFiniteSet(entries) /\ Seen \in SUBSET entries
    BY DEF LInv, Directory, Seen
  <2> QED
    BY <2>1, FS_Subset DEF LInv
<1>2. /\ Cardinality(Seen) \in Nat /\ Cardinality(contents) \in Nat
      /\ Cardinality(commonPrefixes) \in Nat
  BY <1>1, FS_CardinalityType
<1> QED
  BY <1>2 DEF LInv

LEMMA MaxKeysType == ASSUME LInv PROVE MaxKeysSpecified => maxKeys \in Int
  BY ListingAssumption DEF LInv, MaxKeysSpecified

LEMMA InitLInv == Init => LInv
<1> SUFFICES ASSUME Init PROVE LInv
  OBVIOUS
<1>1. /\ prefix \in Prefix /\ maxKeys \in MaxKeys \cup {Unlimited}
      /\ entries \subseteq Entry /\ Directory(entries) /\ todo \subseteq entries
      /\ DoubleSlash(prefix) => todo = {}
      /\ ~DoubleSlash(prefix) => Seen = {}
      /\ listening = TRUE /\ contents = {} /\ commonPrefixes = {} /\ objectCount = 0
      /\ answer = NoAnswer
  BY DEF Init, Seen
<1>2. IsFiniteSet({}) /\ Cardinality({}) = 0
  BY FS_EmptySet
<1>3. ~DoubleSlash(prefix) =>
         KeysFor(ObjectNames(Seen)) = {} /\ KeysFor(DirectoryNames(Seen)) = {}
  BY <1>1 DEF KeysFor, ObjectNames, DirectoryNames
<1>4. MaxKeysSpecified => objectCount <= IF maxKeys < 0 THEN 0 ELSE maxKeys + 1
  <2>1. MaxKeysSpecified => maxKeys \in Int
    BY <1>1, ListingAssumption DEF MaxKeysSpecified
  <2>2. objectCount = 0
    BY <1>1
  <2> QED
    BY ONLY <2>1, <2>2
<1>5. answer \in [sent : BOOLEAN, maxKeys : Int, truncated : BOOLEAN] /\ ~answer.sent
  BY <1>1 DEF NoAnswer
<1>6. objectCount = Cardinality(contents) + Cardinality(commonPrefixes)
  BY <1>1, <1>2
<1>7. ~DoubleSlash(prefix) => objectCount = Cardinality(Seen)
  BY <1>1, <1>2
<1> QED
  BY <1>1, <1>2, <1>3, <1>4, <1>5, <1>6, <1>7 DEF LInv

----------------------------------------------------------------------------
(* An event of the stream. *)

LEMMA EntrySeen ==
    ASSUME LInv, NEW e \in todo, todo' = todo \ {e}, UNCHANGED <<prefix, maxKeys, entries>>
    PROVE  /\ ~DoubleSlash(prefix) /\ todo' \subseteq entries
           /\ Seen' = Seen \cup {e} /\ Cardinality(Seen') = Cardinality(Seen) + 1
           /\ e.name \in Name
           /\ e.name \notin ObjectNames(Seen) /\ e.name \notin DirectoryNames(Seen)
           /\ KeyOf' = KeyOf /\ HasPrefix' = HasPrefix /\ MaxKeysSpecified' = MaxKeysSpecified
           /\ e.type = "object" =>
                /\ ObjectNames(Seen)' = ObjectNames(Seen) \cup (Hit \cap {e.name})
                /\ DirectoryNames(Seen)' = DirectoryNames(Seen)
           /\ e.type = "directory" =>
                /\ ObjectNames(Seen)' = ObjectNames(Seen)
                /\ DirectoryNames(Seen)' = DirectoryNames(Seen) \cup {e.name}
<1>1. ~DoubleSlash(prefix) /\ todo' \subseteq entries /\ e \in entries /\ e \in Entry
  BY DEF LInv
<1>2. e \notin Seen /\ Seen' = Seen \cup {e}
  BY <1>1 DEF Seen
<1>3. Cardinality(Seen') = Cardinality(Seen) + 1
  <2>1. IsFiniteSet(entries) /\ Seen \in SUBSET entries
    BY DEF LInv, Directory, Seen
  <2>2. IsFiniteSet(Seen)
    BY <2>1, FS_Subset
  <2> QED
    BY <1>2, <2>2, FS_AddElement
<1>4. e = [type |-> e.type, name |-> e.name] /\ e.name \in Name
  BY <1>1 DEF Entry
<1>5. \A x \in Seen : x.name # e.name
  BY <1>1, <1>2 DEF LInv, Directory, Seen
<1>6. e.name \notin ObjectNames(Seen) /\ e.name \notin DirectoryNames(Seen)
  BY <1>5 DEF ObjectNames, DirectoryNames
<1>7. KeyOf' = KeyOf /\ Hit' = Hit /\ HasPrefix' = HasPrefix /\ MaxKeysSpecified' = MaxKeysSpecified
  BY DEF KeyOf, Hit, HasPrefix, MaxKeysSpecified, BuildRelativePathForObject, Subdir, Matches
<1>8. ASSUME NEW n
      PROVE  /\ [type |-> "object", name |-> n] = e <=> e.type = "object" /\ n = e.name
             /\ [type |-> "directory", name |-> n] = e <=> e.type = "directory" /\ n = e.name
  BY <1>4
<1>9. /\ ObjectNames(Seen)' = {n \in Hit : [type |-> "object", name |-> n] \in Seen \cup {e}}
      /\ DirectoryNames(Seen)' = {n \in Name : [type |-> "directory", name |-> n] \in Seen \cup {e}}
  BY <1>2, <1>7 DEF ObjectNames, DirectoryNames
<1>10. CASE e.type = "object"
  <2>1. ObjectNames(Seen)' = ObjectNames(Seen) \cup (Hit \cap {e.name})
    BY <1>8, <1>9, <1>10 DEF ObjectNames
  <2>2. DirectoryNames(Seen)' = DirectoryNames(Seen)
    BY <1>8, <1>9, <1>10 DEF DirectoryNames
  <2> QED
    BY <1>1, <1>2, <1>3, <1>4, <1>6, <1>7, <1>10, <2>1, <2>2
<1>11. CASE e.type = "directory"
  <2>1. ObjectNames(Seen)' = ObjectNames(Seen)
    BY <1>8, <1>9, <1>11 DEF ObjectNames
  <2>2. DirectoryNames(Seen)' = DirectoryNames(Seen) \cup {e.name}
    BY <1>4, <1>8, <1>9, <1>11 DEF DirectoryNames
  <2> QED
    BY <1>1, <1>2, <1>3, <1>4, <1>6, <1>7, <1>11, <2>1, <2>2
<1>12. e.type \in {"object", "directory"}
  BY <1>1 DEF Entry
<1> QED
  BY <1>10, <1>11, <1>12

\* An entry that is not listed: left out by the prefix, or over the limit.
LEMMA NotListed ==
    ASSUME LInv, NEW e \in todo, todo' = todo \ {e}, UNCHANGED <<prefix, maxKeys, entries, answer>>,
           UNCHANGED <<objectCount, contents, commonPrefixes>>,
           \/ UNCHANGED listening /\ (~listening \/ (e.type = "object" /\ e.name \notin Hit))
           \/ listening' = FALSE /\ LimitReached
    PROVE  LInv'
<1>1. /\ ~DoubleSlash(prefix) /\ todo' \subseteq entries
      /\ KeyOf' = KeyOf /\ HasPrefix' = HasPrefix /\ MaxKeysSpecified' = MaxKeysSpecified
      /\ ObjectNames(Seen) \subseteq ObjectNames(Seen)'
      /\ DirectoryNames(Seen) \subseteq DirectoryNames(Seen)'
  <2>1. e.type \in {"object", "directory"}
    BY DEF LInv, Entry
  <2> QED
    BY <2>1, EntrySeen
<1>2. KeysFor(ObjectNames(Seen)) \subseteq KeysFor(ObjectNames(Seen))'
  BY <1>1 DEF KeysFor
<1>3. KeysFor(DirectoryNames(Seen)) \subseteq KeysFor(DirectoryNames(Seen))'
  BY <1>1 DEF KeysFor
<1>4. ~answer.sent
  BY <1>1 DEF LInv
<1>5. listening' =>
        /\ contents' = KeysFor(ObjectNames(Seen))' /\ commonPrefixes' = KeysFor(DirectoryNames(Seen))'
        /\ HasPrefix'
  <2> SUFFICES ASSUME listening'
               PROVE  /\ contents' = KeysFor(ObjectNames(Seen))'
                      /\ commonPrefixes' = KeysFor(DirectoryNames(Seen))'
                      /\ HasPrefix'
    OBVIOUS
  <2>1. listening /\ e.type = "object" /\ e.name \notin Hit
    OBVIOUS
  <2>2. ObjectNames(Seen)' = ObjectNames(Seen) /\ DirectoryNames(Seen)' = DirectoryNames(Seen)
    BY <2>1, EntrySeen
  <2>3. HasPrefix
    BY <2>1, EntrySeen DEF Hit
  <2>4. /\ KeysFor(ObjectNames(Seen))' = KeysFor(ObjectNames(Seen))
        /\ KeysFor(DirectoryNames(Seen))' = KeysFor(DirectoryNames(Seen))
    BY <1>1, <2>2 DEF KeysFor
  <2> QED
    BY <1>1, <2>1, <2>3, <2>4 DEF LInv
<1>6. ~listening' => MaxKeysSpecified' /\ objectCount' > maxKeys'
  BY <1>1 DEF LInv, LimitReached
<1>7. listening' \in BOOLEAN
  BY DEF LInv
<1>8. DoubleSlash(prefix)' = DoubleSlash(prefix)
  OBVIOUS
<1> QED
  BY <1>1, <1>2, <1>3, <1>4, <1>5, <1>6, <1>7, <1>8 DEF LInv

\* The count after one more entry is listed.
LEMMA CountOneMore ==
    ASSUME LInv, listening, ~LimitReached
    PROVE  /\ objectCount + 1 \in Nat
           /\ MaxKeysSpecified => objectCount + 1 <= IF maxKeys < 0 THEN 0 ELSE maxKeys + 1
<1>1. objectCount \in Nat /\ (MaxKeysSpecified => maxKeys \in Int)
  BY CountType, MaxKeysType
<1>2. MaxKeysSpecified => ~(objectCount > maxKeys)
  BY DEF LimitReached
<1> QED
  BY ONLY <1>1, <1>2

\* An object that is listed.
LEMMA ObjectListed ==
    ASSUME LInv, NEW e \in todo, e.type = "object", todo' = todo \ {e},
           UNCHANGED <<prefix, maxKeys, entries, answer, listening, commonPrefixes>>,
           listening, ~LimitReached, e.name \in Hit,
           contents' = contents \cup {KeyOf[e.name]}, objectCount' = objectCount + 1
    PROVE  LInv'
<1> DEFINE names == ObjectNames(Seen)
           more == ObjectNames(Seen)'
           key == KeyOf[e.name]
<1>1. /\ ~DoubleSlash(prefix) /\ todo' \subseteq entries
      /\ Cardinality(Seen') = Cardinality(Seen) + 1
      /\ KeyOf' = KeyOf /\ HasPrefix' = HasPrefix /\ MaxKeysSpecified' = MaxKeysSpecified
      /\ e.name \in Name /\ e.name \notin names /\ more = names \cup {e.name}
      /\ DirectoryNames(Seen)' = DirectoryNames(Seen)
  BY EntrySeen
<1>2. /\ contents = KeysFor(names) /\ commonPrefixes = KeysFor(DirectoryNames(Seen))
      /\ ~HasPrefix => objectCount = Cardinality(Seen)
  BY <1>1 DEF LInv
<1>3. key \notin contents
  <2>1. names \subseteq Name
    BY DEF ObjectNames, Hit
  <2> QED
    BY <1>1, <1>2, <2>1, NewKey DEF LInv
<1>4. KeysFor(ObjectNames(Seen))' = KeysFor(more)
  BY <1>1 DEF KeysFor
<1>5. KeysFor(DirectoryNames(Seen))' = commonPrefixes
  BY <1>1, <1>2 DEF KeysFor
<1> HIDE DEF names, more
<1>6. KeysFor(more) = contents'
  <2>1. KeysFor({e.name}) = {key}
    BY DEF KeysFor
  <2>2. KeysFor(names \cup {e.name}) = KeysFor(names) \cup KeysFor({e.name})
    BY DEF KeysFor
  <2> QED
    BY <1>1, <1>2, <2>1, <2>2
<1>7. /\ IsFiniteSet(contents') /\ Cardinality(contents') = Cardinality(contents) + 1
      /\ Cardinality(contents) \in Nat /\ Cardinality(commonPrefixes) \in Nat
  <2>1. IsFiniteSet(contents) /\ IsFiniteSet(commonPrefixes)
    BY DEF LInv
  <2> QED
    BY <1>3, <2>1, FS_AddElement, FS_CardinalityType
<1>8. objectCount' = Cardinality(contents') + Cardinality(commonPrefixes')
  BY <1>7 DEF LInv
<1>9. MaxKeysSpecified' => objectCount' <= IF maxKeys' < 0 THEN 0 ELSE maxKeys' + 1
  BY <1>1, CountOneMore
<1>10. ~answer.sent
  BY <1>1 DEF LInv
<1>11. DoubleSlash(prefix)' = DoubleSlash(prefix)
  OBVIOUS
<1>12. ~HasPrefix' => objectCount' = Cardinality(Seen)'
  BY <1>1, <1>2
<1> QED
  BY <1>1, <1>4, <1>5, <1>6, <1>7, <1>8, <1>9, <1>10, <1>11, <1>12 DEF LInv

\* A directory that is listed.
LEMMA DirectoryListed ==
    ASSUME LInv, NEW e \in todo, e.type = "directory", todo' = todo \ {e},
           UNCHANGED <<prefix, maxKeys, entries, answer, listening, contents>>,
           listening, ~LimitReached,
           commonPrefixes' = commonPrefixes \cup {KeyOf[e.name]}, objectCount' = objectCount + 1
    PROVE  LInv'
<1> DEFINE names == DirectoryNames(Seen)
           more == DirectoryNames(Seen)'
           key == KeyOf[e.name]
<1>1. /\ ~DoubleSlash(prefix) /\ todo' \subseteq entries
      /\ Cardinality(Seen') = Cardinality(Seen) + 1
      /\ KeyOf' = KeyOf /\ HasPrefix' = HasPrefix /\ MaxKeysSpecified' = MaxKeysSpecified
      /\ e.name \in Name /\ e.name \notin names /\ more = names \cup {e.name}
      /\ ObjectNames(Seen)' = ObjectNames(Seen)
  BY EntrySeen
<1>2. /\ commonPrefixes = KeysFor(names) /\ contents = KeysFor(ObjectNames(Seen))
      /\ ~HasPrefix => objectCount = Cardinality(Seen)
  BY <1>1 DEF LInv
<1>3. key \notin commonPrefixes
  <2>1. names \subseteq Name
    BY DEF DirectoryNames
  <2> QED
    BY <1>1, <1>2, <2>1, NewKey DEF LInv
<1>4. KeysFor(DirectoryNames(Seen))' = KeysFor(more)
  BY <1>1 DEF KeysFor
<1>5. KeysFor(ObjectNames(Seen))' = contents
  BY <1>1, <1>2 DEF KeysFor
<1> HIDE DEF names, more
<1>6. KeysFor(more) = commonPrefixes'
  <2>1. KeysFor({e.name}) = {key}
    BY DEF KeysFor
  <2>2. KeysFor(names \cup {e.name}) = KeysFor(names) \cup KeysFor({e.name})
    BY DEF KeysFor
  <2> QED
    BY <1>1, <1>2, <2>1, <2>2
<1>7. /\ IsFiniteSet(commonPrefixes') /\ Cardinality(commonPrefixes') = Cardinality(commonPrefixes) + 1
      /\ Cardinality(contents) \in Nat /\ Cardinality(commonPrefixes) \in Nat
  <2>1. IsFiniteSet(contents) /\ IsFiniteSet(commonPrefixes)
    BY DEF LInv
  <2> QED
    BY <1>3, <2>1, FS_AddElement, FS_CardinalityType
<1>8. objectCount' = Cardinality(contents') + Cardinality(commonPrefixes')
  BY <1>7 DEF LInv
<1>9. MaxKeysSpecified' => objectCount' <= IF maxKeys' < 0 THEN 0 ELSE maxKeys' + 1
  BY <1>1, CountOneMore
<1>10. ~answer.sent
  BY <1>1 DEF LInv
<1>11. DoubleSlash(prefix)' = DoubleSlash(prefix)
  OBVIOUS
<1>12. ~HasPrefix' => objectCount' = Cardinality(Seen)'
  BY <1>1, <1>2
<1> QED
  BY <1>1, <1>4, <1>5, <1>6, <1>7, <1>8, <1>9, <1>10, <1>11, <1>12 DEF LInv

LEMMA NextLInv == LInv /\ [Next]_vars => LInv'
<1> SUFFICES ASSUME LInv, [Next]_vars PROVE LInv'
  OBVIOUS
<1>1. CASE StreamEntry
  <2>1. PICK e \in todo : /\ \/ e.type = "object" /\ OnObject(e.name)
                             \/ e.type = "directory" /\ OnDirectory(e.name)
                          /\ todo' = todo \ {e}
                          /\ UNCHANGED <<prefix, maxKeys, entries, answer>>
    BY <1>1 DEF StreamEntry
  <2>2. e.name \in Name
    BY DEF LInv, Entry
  <2>3. KeyOf[e.name] = BuildRelativePathForObject(e.name)
    BY <2>2 DEF KeyOf
  <2>4. e.name \in Hit <=> (HasPrefix => Matches(BuildRelativePathForObject(e.name)))
    BY <2>2 DEF Hit
  <2>5. CASE e.type = "object" /\ OnObject(e.name)
    <3>1. CASE (~listening \/ e.name \notin Hit) /\ Skip
      BY <2>1, <2>5, <3>1, NotListed DEF Skip
    <3>2. CASE LimitReached /\ StopListening
      BY <2>1, <3>2, NotListed DEF StopListening
    <3>3. CASE /\ listening /\ e.name \in Hit /\ ~LimitReached
               /\ contents' = contents \cup {KeyOf[e.name]}
               /\ objectCount' = objectCount + 1
               /\ UNCHANGED <<listening, commonPrefixes>>
      BY <2>1, <2>5, <3>3, ObjectListed
    <3> QED
      BY <2>3, <2>4, <2>5, <3>1, <3>2, <3>3 DEF OnObject
  <2>6. CASE e.type = "directory" /\ OnDirectory(e.name)
    <3>1. CASE ~listening /\ Skip
      BY <2>1, <3>1, NotListed DEF Skip
    <3>2. CASE LimitReached /\ StopListening
      BY <2>1, <3>2, NotListed DEF StopListening
    <3>3. CASE /\ listening /\ ~LimitReached
               /\ commonPrefixes' = commonPrefixes \cup {KeyOf[e.name]}
               /\ objectCount' = objectCount + 1
               /\ UNCHANGED <<listening, contents>>
      BY <2>1, <2>6, <3>3, DirectoryListed
    <3> QED
      BY <2>3, <2>6, <3>1, <3>2, <3>3 DEF OnDirectory
  <2> QED
    BY <2>1, <2>5, <2>6
<1>2. ASSUME UNCHANGED <<prefix, maxKeys, entries, todo, listening, objectCount,
                         contents, commonPrefixes>>
      PROVE  /\ Seen' = Seen /\ HasPrefix' = HasPrefix /\ MaxKeysSpecified' = MaxKeysSpecified
             /\ KeysFor(ObjectNames(Seen))' = KeysFor(ObjectNames(Seen))
             /\ KeysFor(DirectoryNames(Seen))' = KeysFor(DirectoryNames(Seen))
  <2>1. KeyOf' = KeyOf /\ Hit' = Hit /\ HasPrefix' = HasPrefix /\ MaxKeysSpecified' = MaxKeysSpecified
    BY <1>2 DEF KeyOf, Hit, HasPrefix, MaxKeysSpecified, BuildRelativePathForObject, Subdir, Matches
  <2>2. Seen' = Seen
    BY <1>2 DEF Seen
  <2> QED
    BY <2>1, <2>2 DEF KeysFor, ObjectNames, DirectoryNames
<1>3. CASE AnswerDoubleSlash
  <2>1. /\ DoubleSlash(prefix)
        /\ UNCHANGED <<prefix, maxKeys, entries, todo, listening, objectCount,
                       contents, commonPrefixes>>
    BY <1>3 DEF AnswerDoubleSlash
  <2>2. answer' \in [sent : BOOLEAN, maxKeys : Int, truncated : BOOLEAN]
    <3>1. (IF MaxKeysSpecified THEN maxKeys ELSE Default) \in Int
      <4>1. (MaxKeysSpecified => maxKeys \in Int) /\ Default \in Nat
        BY MaxKeysType, ListingAssumption
      <4> QED
        BY ONLY <4>1
    <3> QED
      BY <1>3, <3>1 DEF AnswerDoubleSlash
  <2> QED
    BY <1>2, <2>1, <2>2 DEF LInv
<1>4. CASE MantaLsEnd
  <2> DEFINE named == IF MaxKeysSpecified THEN maxKeys
                      ELSE IF objectCount > Default THEN objectCount ELSE Default
             over(resultSetSize) == /\ ~MaxKeysSpecified /\ ~HasPrefix
                                    /\ resultSetSize > 0 /\ resultSetSize > objectCount
  <2>1. /\ ~DoubleSlash(prefix) /\ todo = {}
        /\ UNCHANGED <<prefix, maxKeys, entries, todo, listening, objectCount,
                       contents, commonPrefixes>>
    BY <1>4 DEF MantaLsEnd
  <2>2. PICK size \in {-1, 0, Cardinality(entries)} :
           answer' = [sent |-> TRUE, maxKeys |-> named, truncated |-> over(size)]
    BY <1>4 DEF MantaLsEnd
  <2>3. objectCount \in Nat /\ Default \in Nat /\ (MaxKeysSpecified => maxKeys \in Int)
    BY CountType, MaxKeysType, ListingAssumption
  <2>4. named \in Int /\ (~MaxKeysSpecified => objectCount <= named)
    BY <2>3
  <2>5. ~MaxKeysSpecified /\ ~HasPrefix => ~over(size)
    <3> SUFFICES ASSUME ~MaxKeysSpecified, ~HasPrefix PROVE ~over(size)
      OBVIOUS
    <3>1. Seen = entries
      BY <2>1 DEF Seen
    <3>2. listening
      BY DEF LInv
    <3>3. objectCount = Cardinality(entries)
      BY <2>1, <3>1, <3>2 DEF LInv
    <3>4. ~(size > 0 /\ size > objectCount)
      BY <2>3, <3>3
    <3> QED
      BY <3>4
  <2> DEFINE truncated == over(size)
  <2>6. truncated \in BOOLEAN
    OBVIOUS
  <2> HIDE DEF named, truncated, over
  <2>7. answer' = [sent |-> TRUE, maxKeys |-> named, truncated |-> truncated]
    BY <2>2 DEF truncated
  <2>8. /\ answer' \in [sent : BOOLEAN, maxKeys : Int, truncated : BOOLEAN]
        /\ answer'.maxKeys = named /\ answer'.truncated = truncated
    BY <2>4, <2>6, <2>7
  <2>9. ~MaxKeysSpecified /\ ~HasPrefix => ~answer'.truncated
    BY <2>5, <2>8 DEF truncated
  <2>10. ~MaxKeysSpecified => objectCount <= answer'.maxKeys
    BY <2>4, <2>8
  <2> QED
    BY <1>2, <2>1, <2>8, <2>9, <2>10 DEF LInv
<1>5. CASE UNCHANGED vars
  BY <1>2, <1>5 DEF LInv, vars
<1> QED
  BY <1>1, <1>3, <1>4, <1>5 DEF Next

\* The invariant holds of every listing, whatever the directory, the prefix and
\* the limit.
THEOREM ListingInductive == Spec => []LInv
  BY InitLInv, NextLInv, PTL DEF Spec

----------------------------------------------------------------------------
(* What follows of the answer. *)

LEMMA KeysOfNames ==
    ASSUME LInv
    PROVE  /\ KeysOf("object") = {KeyOf[n] : n \in {m \in Name : [type |-> "object", name |-> m] \in entries}}
           /\ KeysOf("directory") = KeysFor(DirectoryNames(entries))
<1>1. \A e \in entries : e = [type |-> e.type, name |-> e.name] /\ e.name \in Name
  BY DEF LInv, Entry
<1>2. \A n \in Name : KeyOf[n] = BuildRelativePathForObject(n)
  BY DEF KeyOf
<1>3. ASSUME NEW type
      PROVE  KeysOf(type) = {KeyOf[n] : n \in {m \in Name : [type |-> type, name |-> m] \in entries}}
  <2>1. ASSUME NEW k \in KeysOf(type)
        PROVE  k \in {KeyOf[n] : n \in {m \in Name : [type |-> type, name |-> m] \in entries}}
    <3>1. PICK e \in entries : e.type = type /\ k = BuildRelativePathForObject(e.name)
      BY DEF KeysOf
    <3>2. e = [type |-> type, name |-> e.name] /\ e.name \in Name /\ k = KeyOf[e.name]
      BY <1>1, <1>2, <3>1
    <3> QED
      BY <3>2
  <2>2. ASSUME NEW n \in Name, [type |-> type, name |-> n] \in entries
        PROVE  KeyOf[n] \in KeysOf(type)
    <3> DEFINE e == [type |-> type, name |-> n]
    <3>1. e.type = type /\ e.name = n /\ e \in entries
      BY <2>2
    <3> HIDE DEF e
    <3> QED
      BY <1>2, <3>1 DEF KeysOf
  <2> QED
    BY <2>1, <2>2
<1> QED
  BY <1>3 DEF KeysFor, DirectoryNames

\* What has been seen is part of what there is.
LEMMA SeenKeys ==
    ASSUME LInv
    PROVE  /\ KeysFor(ObjectNames(Seen)) \subseteq KeysOf("object")
           /\ KeysFor(DirectoryNames(Seen)) \subseteq KeysOf("directory")
           /\ KeysFor(ObjectNames(entries)) = {k \in KeysOf("object") : HasPrefix => Matches(k)}
<1>1. Seen \subseteq entries
  BY DEF Seen
<1>2. /\ ObjectNames(Seen) \subseteq {m \in Name : [type |-> "object", name |-> m] \in entries}
      /\ DirectoryNames(Seen) \subseteq DirectoryNames(entries)
  BY <1>1 DEF ObjectNames, DirectoryNames, Hit
<1>3. KeysFor(ObjectNames(entries)) = {k \in KeysOf("object") : HasPrefix => Matches(k)}
  <2>1. \A n \in Name : n \in Hit <=> (HasPrefix => Matches(KeyOf[n]))
    BY DEF Hit, KeyOf
  <2>2. \A n : n \in ObjectNames(entries) <=>
               n \in Name /\ n \in Hit /\ [type |-> "object", name |-> n] \in entries
    BY DEF ObjectNames, Hit
  <2> QED
    BY <2>1, <2>2, KeysOfNames DEF KeysFor
<1> QED
  BY <1>2, <1>3, KeysOfNames DEF KeysFor

\* What is listed is counted once.
LEMMA ListedCount ==
    ASSUME LInv
    PROVE  IsFiniteSet(Listed) /\ Cardinality(Listed) = objectCount
<1>1. contents \cap commonPrefixes = {}
  <2> SUFFICES ASSUME NEW k \in contents, k \in commonPrefixes PROVE FALSE
    OBVIOUS
  <2>1. PICK n \in ObjectNames(Seen) : k = KeyOf[n]
    BY DEF LInv, KeysFor
  <2>2. PICK m \in DirectoryNames(Seen) : k = KeyOf[m]
    BY DEF LInv, KeysFor
  <2>3. /\ n \in Name /\ [type |-> "object", name |-> n] \in entries
        /\ m \in Name /\ [type |-> "directory", name |-> m] \in entries
    BY DEF ObjectNames, DirectoryNames, Hit, Seen
  <2>4. n = m
    BY <2>1, <2>2, <2>3, KeysDiffer DEF LInv
  <2> DEFINE x == [type |-> "object", name |-> n]
             y == [type |-> "directory", name |-> n]
  <2>5. x.name = n /\ y.name = n /\ x.type = "object" /\ y.type = "directory"
    OBVIOUS
  <2>6. x \in entries /\ y \in entries
    BY <2>3, <2>4
  <2> HIDE DEF x, y
  <2>7. x = y
    BY <2>5, <2>6 DEF LInv, Directory
  <2> QED
    BY <2>5, <2>7
<1>2. IsFiniteSet(contents) /\ IsFiniteSet(commonPrefixes)
  BY DEF LInv
<1>3. /\ IsFiniteSet(Listed)
      /\ Cardinality(Listed) = Cardinality(contents) + Cardinality(commonPrefixes)
                                 - Cardinality(contents \cap commonPrefixes)
  BY <1>2, FS_Union DEF Listed
<1>4. Cardinality(contents \cap commonPrefixes) = 0
  BY <1>1, FS_EmptySet
<1>5. Cardinality(contents) \in Nat /\ Cardinality(commonPrefixes) \in Nat
  BY <1>2, FS_CardinalityType
<1> QED
  BY <1>3, <1>4, <1>5 DEF LInv

\* The types: nothing is listed but what the directory holds, and the counter is
\* the number of what is listed.
THEOREM ListingTyped == Spec => []TypeOK
<1>1. LInv => TypeOK
  BY SeenKeys DEF LInv, TypeOK
<1> QED
  BY <1>1, ListingInductive, PTL

\* At the end of the stream everything has been seen.
LEMMA AllSeen ==
    ASSUME LInv, answer.sent, ~DoubleSlash(prefix)
    PROVE  Seen = entries
  BY DEF LInv, Seen

\* Without max-keys and a prefix to search for, the answer has every entry, says
\* that none is missing, and names a MaxKeys that is no less than their number.
THEOREM ListsAreComplete == Spec => []CompleteWithoutLimits
<1>1. LInv => CompleteWithoutLimits
  <2> SUFFICES ASSUME LInv, answer.sent, ~MaxKeysSpecified, ~HasPrefix, ~DoubleSlash(prefix)
               PROVE  /\ contents = KeysOf("object") /\ commonPrefixes = KeysOf("directory")
                      /\ ~answer.truncated
                      /\ Cardinality(Listed) <= answer.maxKeys
    BY DEF CompleteWithoutLimits
  <2>1. listening
    BY DEF LInv
  <2>2. /\ contents = KeysFor(ObjectNames(entries))
        /\ commonPrefixes = KeysFor(DirectoryNames(entries))
    BY <2>1, AllSeen DEF LInv
  <2>3. ~answer.truncated /\ Cardinality(Listed) <= answer.maxKeys
    BY ListedCount DEF LInv
  <2>4. KeysFor(ObjectNames(entries)) = KeysOf("object")
    BY SeenKeys
  <2> QED
    BY <2>2, <2>3, <2>4, KeysOfNames
<1> QED
  BY <1>1, ListingInductive, PTL

\* With max-keys the answer has everything there is to list, or one entry over
\* the limit.
THEOREM LimitsAreMet == Spec => []LimitIsMet
<1>1. LInv => LimitIsMet
  <2> DEFINE objects == {k \in KeysOf("object") : HasPrefix => Matches(k)}
             all == objects \cup KeysOf("directory")
  <2> SUFFICES ASSUME LInv, answer.sent, MaxKeysSpecified, ~DoubleSlash(prefix)
               PROVE  \/ Listed = all
                      \/ /\ Listed \subseteq all
                         /\ Cardinality(Listed) = IF maxKeys < 0 THEN 0 ELSE maxKeys + 1
    BY DEF LimitIsMet
  <2>1. KeysFor(ObjectNames(Seen)) = objects /\ KeysFor(DirectoryNames(Seen)) = KeysOf("directory")
    BY AllSeen, SeenKeys, KeysOfNames
  <2> HIDE DEF objects
  <2>2. Listed \subseteq all
    BY <2>1 DEF LInv, Listed
  <2>3. CASE listening
    BY <2>1, <2>3 DEF LInv, Listed
  <2>4. CASE ~listening
    <3>1. objectCount > maxKeys /\ objectCount <= IF maxKeys < 0 THEN 0 ELSE maxKeys + 1
      BY <2>4 DEF LInv
    <3>2. objectCount \in Nat /\ maxKeys \in Int
      BY CountType, MaxKeysType
    <3>3. objectCount = IF maxKeys < 0 THEN 0 ELSE maxKeys + 1
      BY ONLY <3>1, <3>2
    <3> QED
      BY <2>2, <3>3, ListedCount
  <2> QED
    BY <2>3, <2>4
<1> QED
  BY <1>1, ListingInductive, PTL
=============================================================================
