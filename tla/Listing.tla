------------------------------ MODULE Listing ------------------------------
(***************************************************************************)
(* What listObjects of lib/objects.js puts into its answer.  Objects       *)
(* models when it answers; this module models the parameters prefix and    *)
(* max-keys, the events of the listing stream, one for each entry of the   *)
(* directory that is listed, and the answer that is put together.          *)
(*                                                                         *)
(* A key is the sequence of its names below the bucket.  A prefix is the   *)
(* sequence of what stands between its slashes: "" is <<"">>, "d" is       *)
(* <<"d">>, "d/" is <<"d", "">> and "d/n" is <<"d", "n">>.                 *)
(***************************************************************************)
EXTENDS Integers, FiniteSets, Sequences, SequencesExt

CONSTANTS Name,             \* the names of objects and directories
          Begins,           \* <<s, n>>: the name n begins with s
          Prefix,           \* the prefixes clients ask for
          MaxKeys,          \* the values of max-keys clients ask for
          Unlimited,        \* max-keys is not among the parameters
          Default           \* DEFAULT_MAX_KEYS

Segment == STRING

ASSUME ListingAssumption ==
    /\ \A n \in Name : n # "" /\ <<"", n>> \in Begins /\ <<n, n>> \in Begins
    /\ Prefix \subseteq Seq(Segment) \ {<<>>}
    /\ MaxKeys \subseteq Int /\ Unlimited \notin MaxKeys
    /\ Default \in Nat

Entry == [type : {"object", "directory"}, name : Name]

VARIABLES prefix, maxKeys,  \* the parameters
          entries,          \* what the listed directory holds
          todo,             \* the entries whose event is still to come
          listening,        \* whether the listeners for entries are there
          objectCount,
          contents,         \* the keys listed as objects
          commonPrefixes,   \* the keys listed as directories
          answer

vars == <<prefix, maxKeys, entries, todo, listening, objectCount, contents,
          commonPrefixes, answer>>

\* A directory is finite and has one entry of a name.
Directory(e) == IsFiniteSet(e) /\ \A x, y \in e : x.name = y.name => x = y

NoAnswer == [sent |-> FALSE, maxKeys |-> 0, truncated |-> FALSE]

----------------------------------------------------------------------------
\* Two slashes in a row.
DoubleSlash(p) == \E i \in 2..(Len(p) - 1) : p[i] = ""

\* _parseSubdirAndSearchPrefix: at the last slash.
ParseSubdirAndSearchPrefix(p) == [subdir |-> Front(p), searchPrefix |-> Last(p)]

\* The names of the directory that is listed: where there are no two slashes in
\* a row, only the first can be empty.
Subdir ==
    LET names == ParseSubdirAndSearchPrefix(prefix).subdir
    IN  IF names # <<>> /\ names[1] = "" THEN Tail(names) ELSE names

HasPrefix == ParseSubdirAndSearchPrefix(prefix).searchPrefix # ""

\* _buildRelativePathForObject: the key of an entry of the listed directory.
BuildRelativePathForObject(name) == Append(Subdir, name)

\* startsWith(relPath, searchPrefix); there is no slash in a search prefix.
Matches(key) == <<ParseSubdirAndSearchPrefix(prefix).searchPrefix, key[1]>> \in Begins

MaxKeysSpecified == maxKeys # Unlimited

LimitReached == MaxKeysSpecified /\ objectCount > maxKeys

----------------------------------------------------------------------------
Init ==
    /\ prefix \in Prefix
    /\ maxKeys \in MaxKeys \cup {Unlimited}
    /\ entries \in {e \in SUBSET Entry : Directory(e)}
    /\ todo = IF DoubleSlash(prefix) THEN {} ELSE entries
    /\ listening = TRUE
    /\ objectCount = 0
    /\ contents = {}
    /\ commonPrefixes = {}
    /\ answer = NoAnswer

\* The listeners are removed at the first entry over the limit.
StopListening ==
    /\ listening' = FALSE
    /\ UNCHANGED <<objectCount, contents, commonPrefixes>>

\* An entry that nothing is done with.
Skip == UNCHANGED <<listening, objectCount, contents, commonPrefixes>>

\* A mistake to be caught: an object is listed and not counted.
OnObjectUncounted(name) ==
    LET key == BuildRelativePathForObject(name)
    IN  \/ /\ ~listening \/ (HasPrefix /\ ~Matches(key))
           /\ Skip
        \/ /\ listening /\ (HasPrefix => Matches(key)) /\ LimitReached
           /\ StopListening
        \/ /\ listening /\ (HasPrefix => Matches(key)) /\ ~LimitReached
           /\ contents' = contents \cup {key}
           /\ UNCHANGED <<listening, objectCount, commonPrefixes>>

\* A mistake to be caught: an object that the prefix leaves out is counted.
OnObjectCountedFirst(name) ==
    LET key == BuildRelativePathForObject(name)
    IN  \/ ~listening /\ Skip
        \/ listening /\ LimitReached /\ StopListening
        \/ /\ listening /\ ~LimitReached
           /\ contents' = IF HasPrefix /\ ~Matches(key) THEN contents
                          ELSE contents \cup {key}
           /\ objectCount' = objectCount + 1
           /\ UNCHANGED <<listening, commonPrefixes>>

OnObject(name) ==
    LET key == BuildRelativePathForObject(name)
    IN  \/ /\ ~listening \/ (HasPrefix /\ ~Matches(key))
           /\ Skip
        \/ /\ listening /\ (HasPrefix => Matches(key)) /\ LimitReached
           /\ StopListening
        \/ /\ listening /\ (HasPrefix => Matches(key)) /\ ~LimitReached
           /\ contents' = contents \cup {key}
           /\ objectCount' = objectCount + 1
           /\ UNCHANGED <<listening, commonPrefixes>>

\* A mistake to be caught: the limit is looked at whether it was asked for or not.
OnDirectoryLimited(name) ==
    \/ /\ ~listening /\ Skip
    \/ /\ listening /\ objectCount > Default /\ StopListening
    \/ /\ listening /\ objectCount <= Default
       /\ commonPrefixes' = commonPrefixes \cup {BuildRelativePathForObject(name)}
       /\ objectCount' = objectCount + 1
       /\ UNCHANGED <<listening, contents>>

\* A directory is listed whatever the prefix.
OnDirectory(name) ==
    \/ /\ ~listening /\ Skip
    \/ /\ listening /\ LimitReached /\ StopListening
    \/ /\ listening /\ ~LimitReached
       /\ commonPrefixes' = commonPrefixes \cup {BuildRelativePathForObject(name)}
       /\ objectCount' = objectCount + 1
       /\ UNCHANGED <<listening, contents>>

\* The stream emits an event for one of the entries.
StreamEntry ==
    \E e \in todo :
        /\ \/ e.type = "object" /\ OnObject(e.name)
           \/ e.type = "directory" /\ OnDirectory(e.name)
        /\ todo' = todo \ {e}
        /\ UNCHANGED <<prefix, maxKeys, entries, answer>>

\* A prefix with two slashes in a row is answered before anything is listed.
AnswerDoubleSlash ==
    /\ DoubleSlash(prefix) /\ ~answer.sent
    /\ answer' = [sent      |-> TRUE,
                  maxKeys   |-> IF MaxKeysSpecified THEN maxKeys ELSE Default,
                  truncated |-> FALSE]
    /\ UNCHANGED <<prefix, maxKeys, entries, todo, listening, objectCount,
                   contents, commonPrefixes>>

\* At the end of the stream its header tells how many entries there were, or
\* there is no header to tell it.
MantaLsEnd ==
    /\ ~DoubleSlash(prefix) /\ ~answer.sent
    /\ todo = {}
    /\ \E resultSetSize \in {-1, 0, Cardinality(entries)} :
          answer' = [sent      |-> TRUE,
                     maxKeys   |-> IF MaxKeysSpecified THEN maxKeys
                                   ELSE IF objectCount > Default THEN objectCount
                                   ELSE Default,
                     truncated |-> /\ ~MaxKeysSpecified /\ ~HasPrefix
                                   /\ resultSetSize > 0
                                   /\ resultSetSize > objectCount]
    /\ UNCHANGED <<prefix, maxKeys, entries, todo, listening, objectCount,
                   contents, commonPrefixes>>

Next == StreamEntry \/ AnswerDoubleSlash \/ MantaLsEnd

Spec == Init /\ [][Next]_vars

----------------------------------------------------------------------------
(* Properties. *)

KeysOf(type) == {BuildRelativePathForObject(e.name) : e \in {x \in entries : x.type = type}}

\* The types; only what the directory holds is listed, and the count that the
\* limit and the answer rest on is always the number of the entries listed.
TypeOK ==
    /\ prefix \in Prefix /\ maxKeys \in MaxKeys \cup {Unlimited}
    /\ todo \subseteq entries /\ entries \subseteq Entry
    /\ listening \in BOOLEAN
    /\ contents \subseteq KeysOf("object") /\ commonPrefixes \subseteq KeysOf("directory")
    /\ objectCount = Cardinality(contents) + Cardinality(commonPrefixes)
    /\ answer \in [sent : BOOLEAN, maxKeys : Int, truncated : BOOLEAN]

Listed == contents \cup commonPrefixes

\* Without a prefix to search for and without max-keys the answer has every
\* entry of the directory, says that nothing is missing, and never names a
\* MaxKeys below the number of entries it has.
CompleteWithoutLimits ==
    answer.sent /\ ~MaxKeysSpecified /\ ~HasPrefix /\ ~DoubleSlash(prefix) =>
        /\ contents = KeysOf("object") /\ commonPrefixes = KeysOf("directory")
        /\ ~answer.truncated
        /\ Cardinality(Listed) <= answer.maxKeys

\* With max-keys the answer has everything there is to list or, since the limit
\* is looked at before an entry is counted, one entry over the limit: it never
\* falls short of the limit while something is left out.
LimitIsMet ==
    answer.sent /\ MaxKeysSpecified /\ ~DoubleSlash(prefix) =>
        LET all == {k \in KeysOf("object") : HasPrefix => Matches(k)} \cup KeysOf("directory")
        IN  \/ Listed = all
            \/ /\ Listed \subseteq all
               /\ Cardinality(Listed) = IF maxKeys < 0 THEN 0 ELSE maxKeys + 1
============================================================================
