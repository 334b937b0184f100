---------------------------- MODULE ChainProofs ----------------------------
(***************************************************************************)
(* Proofs about Chain, Signers and Routing, for every set of requests:     *)
(* what normalisation makes of a path, by induction over its segments;     *)
(* that both styles of address lead to the same handler and that a handler *)
(* gets a path it may work on; that a request without a good signature     *)
(* reaches no handler, and that nothing but its age speaks against a well  *)
(* made one.                                                               *)
(***************************************************************************)
EXTENDS Chain, Induction

----------------------------------------------------------------------------
(* The names of a raw path: sanitizeS3Filepath of lib/utils.js.            *)

\* The names after each of the segments of a path.
IsNames(f, raw, n) ==
    f = [i \in 0..n |-> IF i = 0 THEN <<>> ELSE Normalize(f[i - 1], raw[i])]

LEMMA NamesExist == ASSUME NEW raw, NEW n \in Nat PROVE \E f : IsNames(f, raw, n)
<1> DEFINE G == {k \in 0..n : \E f : IsNames(f, raw, k)}
<1>1. 0 \in G
  <2> DEFINE g == [i \in 0..0 |-> <<>>]
  <2>1. g = [i \in 0..0 |-> IF i = 0 THEN <<>> ELSE Normalize(g[i - 1], raw[i])]
    OBVIOUS
  <2>2. IsNames(g, raw, 0)
    BY <2>1 DEF IsNames
  <2>3. \E f : IsNames(f, raw, 0)
    BY <2>2
  <2> QED
    BY <2>3
<1>2. ASSUME NEW k \in 0..(n - 1), k \in G PROVE k + 1 \in G
  <2>1. PICK f : IsNames(f, raw, k)
    BY <1>2
  <2> DEFINE g == [i \in 0..(k + 1) |-> IF i = k + 1 THEN Normalize(f[k], raw[k + 1]) ELSE f[i]]
  <2>2. ASSUME NEW i \in 0..(k + 1)
        PROVE  g[i] = IF i = 0 THEN <<>> ELSE Normalize(g[i - 1], raw[i])
    BY <2>1 DEF IsNames
  <2>3. IsNames(g, raw, k + 1)
    BY <2>2 DEF IsNames
  <2>4. \E h : IsNames(h, raw, k + 1)
    BY <2>3
  <2>5. k + 1 \in 0..n
    OBVIOUS
  <2> QED
    BY <2>4, <2>5
<1> HIDE DEF G
<1>3. 0..n \subseteq G
  BY <1>1, <1>2, UpTo
<1> QED
  BY <1>3 DEF G

LEMMA NamesSteps ==
    ASSUME NEW f, NEW raw, NEW n \in Nat, IsNames(f, raw, n)
    PROVE  /\ f[0] = <<>>
           /\ \A i \in 0..(n - 1) : f[i + 1] = Normalize(f[i], raw[i + 1])
<1>1. \A i \in 0..n : f[i] = IF i = 0 THEN <<>> ELSE Normalize(f[i - 1], raw[i])
  BY DEF IsNames
<1>2. ASSUME NEW i \in 0..(n - 1) PROVE f[i + 1] = Normalize(f[i], raw[i + 1])
  <2>1. i + 1 \in 0..n /\ i + 1 # 0 /\ (i + 1) - 1 = i
    OBVIOUS
  <2> QED
    BY <1>1, <2>1
<1> QED
  BY <1>1, <1>2

\* The recursion of SanitizeS3Filepath defines what it says.
LEMMA SanitizedBy ==
    ASSUME NEW S, NEW raw \in Seq(S)
    PROVE  \E f : /\ IsNames(f, raw, Len(raw))
                  /\ SanitizeS3Filepath(raw) =
                        [names |-> f[Len(raw)],
                         slash |-> f[Len(raw)] = <<>> \/ Last(raw) = ""]
<1> DEFINE F == CHOOSE f : f = [i \in 0..Len(raw) |->
                                  IF i = 0 THEN <<>> ELSE Normalize(f[i - 1], raw[i])]
<1>1. \E f : f = [i \in 0..Len(raw) |-> IF i = 0 THEN <<>> ELSE Normalize(f[i - 1], raw[i])]
  BY NamesExist DEF IsNames
<1>2. IsNames(F, raw, Len(raw))
  BY <1>1 DEF IsNames
<1>3. SanitizeS3Filepath(raw) = [names |-> F[Len(raw)],
                                 slash |-> F[Len(raw)] = <<>> \/ Last(raw) = ""]
  BY DEF SanitizeS3Filepath
<1> HIDE DEF F
<1> QED
  BY <1>2, <1>3

LEMMA NamesOf ==
    ASSUME NEW S, NEW raw \in Seq(S)
    PROVE  /\ \E f : /\ IsNames(f, raw, Len(raw))
                     /\ SanitizeS3Filepath(raw).names = f[Len(raw)]
           /\ SanitizeS3Filepath(raw).slash
                 <=> SanitizeS3Filepath(raw).names = <<>> \/ Last(raw) = ""
<1>1. PICK f : /\ IsNames(f, raw, Len(raw))
               /\ SanitizeS3Filepath(raw) =
                     [names |-> f[Len(raw)],
                      slash |-> f[Len(raw)] = <<>> \/ Last(raw) = ""]
  BY SanitizedBy
<1> DEFINE names == f[Len(raw)]
           slash == names = <<>> \/ Last(raw) = ""
<1>2. SanitizeS3Filepath(raw) = [names |-> names, slash |-> slash]
  BY <1>1
<1>3. slash <=> names = <<>> \/ Last(raw) = ""
  OBVIOUS
<1> HIDE DEF names, slash
<1>4. SanitizeS3Filepath(raw).names = names /\ SanitizeS3Filepath(raw).slash = slash
  BY <1>2
<1> QED
  BY <1>1, <1>3, <1>4 DEF names

\* One segment leaves the names proper.
LEMMA NormalizeProper ==
    ASSUME NEW names \in Seq(Proper), NEW segment \in Segment
    PROVE  Normalize(names, segment) \in Seq(Proper)
<1>1. CASE segment \in {"", "."} \/ (segment = ".." /\ names = <<>>)
  BY <1>1 DEF Normalize
<1>2. CASE segment \notin {"", ".", ".."}
  <2>1. segment \in Proper
    BY <1>2 DEF Proper
  <2>2. Normalize(names, segment) = Append(names, segment)
    BY <1>2 DEF Normalize
  <2>3. Append(names, segment) \in Seq(Proper)
    BY <2>1, AppendProperties
  <2> QED
    BY <2>2, <2>3
<1>3. CASE segment = ".." /\ names # <<>>
  <2>1. Normalize(names, segment) = SubSeq(names, 1, Len(names) - 1)
    BY <1>3 DEF Normalize, Front
  <2>2. Len(names) \in Nat /\ \A i \in 1..Len(names) : names[i] \in Proper
    BY LenProperties, ElementOfSeq
  <2>3. \A i \in 1..(Len(names) - 1) : names[i] \in Proper
    BY <2>2
  <2>4. 1 \in Int /\ Len(names) - 1 \in Int
    BY <2>2
  <2> QED
    BY <2>1, <2>3, <2>4, SubSeqProperties
<1> QED
  BY <1>1, <1>2, <1>3

LEMMA ProperNames == ASSUME NEW names \in Seq(Proper) PROVE names \in Seq(Segment)
<1>1. Proper \subseteq Segment
  BY DEF Proper
<1> QED
  BY <1>1, SeqMonotonic

LEMMA NamesProper ==
    ASSUME NEW raw \in Seq(Segment), NEW f, IsNames(f, raw, Len(raw))
    PROVE  \A k \in 0..Len(raw) : f[k] \in Seq(Proper)
<1> DEFINE n == Len(raw)
           G == {k \in 0..n : f[k] \in Seq(Proper)}
<1>1. n \in Nat /\ \A i \in 1..n : raw[i] \in Segment
  BY LenProperties, ElementOfSeq
<1>2. f[0] = <<>> /\ \A i \in 0..(n - 1) : f[i + 1] = Normalize(f[i], raw[i + 1])
  BY <1>1, NamesSteps
<1>3. 0 \in G
  <2>1. <<>> \in Seq(Proper)
    BY EmptySeq
  <2>2. f[0] \in Seq(Proper)
    BY <1>2, <2>1
  <2>3. 0 \in 0..n
    BY <1>1
  <2> QED
    BY <2>2, <2>3
<1>4. ASSUME NEW i \in 0..(n - 1), i \in G PROVE i + 1 \in G
  <2>1. i + 1 \in 1..n /\ i + 1 \in 0..n
    BY <1>1
  <2>2. raw[i + 1] \in Segment
    BY <1>1, <2>1
  <2> QED
    BY <1>2, <1>4, <2>1, <2>2, NormalizeProper
<1> HIDE DEF n, G
<1>5. 0..n \subseteq G
  BY <1>1, <1>3, <1>4, UpTo
<1> QED
  BY <1>5 DEF n, G

\* Whatever is sent, a sanitized path has no empty and no dotted names, so that
\* nothing leads out of the directory it is put below; and the root has a slash.
LEMMA SanitizedIsProper ==
    ASSUME NEW raw \in Seq(Segment)
    PROVE  LET p == SanitizeS3Filepath(raw)
           IN  /\ p \in [names : Seq(Proper), slash : BOOLEAN]
               /\ IsRoot(p) => p.slash
<1>1. PICK f : /\ IsNames(f, raw, Len(raw))
               /\ SanitizeS3Filepath(raw) =
                     [names |-> f[Len(raw)],
                      slash |-> f[Len(raw)] = <<>> \/ Last(raw) = ""]
  BY SanitizedBy
<1> DEFINE names == f[Len(raw)]
           slash == names = <<>> \/ Last(raw) = ""
<1>2. SanitizeS3Filepath(raw) = [names |-> names, slash |-> slash]
  BY <1>1
<1>3. names \in Seq(Proper) /\ slash \in BOOLEAN /\ (names = <<>> => slash)
  <2>1. Len(raw) \in 0..Len(raw)
    BY LenProperties
  <2> QED
    BY <1>1, <2>1, NamesProper
<1> HIDE DEF names, slash
<1> QED
  BY <1>2, <1>3 DEF IsRoot

\* A name put before a path.
LEMMA PutBefore ==
    ASSUME NEW b \in Segment, NEW raw \in Seq(Segment)
    PROVE  /\ <<b>> \o raw \in Seq(Segment)
           /\ Len(<<b>> \o raw) = Len(raw) + 1
           /\ (<<b>> \o raw)[1] = b
           /\ \A i \in 1..Len(raw) : (<<b>> \o raw)[i + 1] = raw[i]
<1> DEFINE one == <<b>>
           n == Len(raw)
           long == one \o raw
<1>1. one \in Seq(Segment) /\ Len(one) = 1 /\ one[1] = b
  OBVIOUS
<1>2. n \in Nat
  BY LenProperties
<1> HIDE DEF one
<1>3. /\ long \in Seq(Segment) /\ Len(long) = Len(one) + n
      /\ \A i \in 1..(Len(one) + n) : long[i] = IF i <= Len(one) THEN one[i] ELSE raw[i - Len(one)]
  BY <1>1, ConcatProperties
<1> HIDE DEF n, long
<1>4. ASSUME NEW i \in 1..n PROVE long[i + 1] = raw[i]
  <2>1. i + 1 \in 1..(1 + n) /\ ~(i + 1 <= 1) /\ (i + 1) - 1 = i
    BY <1>2
  <2> QED
    BY <1>1, <1>3, <2>1
<1>5. long[1] = b
  <2>1. 1 \in 1..(1 + n) /\ 1 <= 1
    BY <1>2
  <2> QED
    BY <1>1, <1>3, <2>1
<1>6. Len(long) = n + 1
  BY <1>1, <1>2, <1>3
<1> QED
  BY <1>3, <1>4, <1>5, <1>6 DEF n, long, one

LEMMA NormalizeText ==
    ASSUME NEW names \in Seq(Segment), NEW s \in Segment, s # ".."
    PROVE  Normalize(names, s) \in Seq(Segment)
<1>1. Append(names, s) \in Seq(Segment)
  BY AppendProperties
<1> QED
  BY <1>1 DEF Normalize

LEMMA NormalizeBelow ==
    ASSUME NEW b \in Segment, NEW names \in Seq(Segment), NEW s \in Segment, s # ".."
    PROVE  Normalize(<<b>> \o names, s) = <<b>> \o Normalize(names, s)
<1>1. CASE s \in {"", "."}
  BY <1>1 DEF Normalize
<1>2. CASE s \notin {"", "."}
  <2> DEFINE one == <<b>>
             last == <<s>>
  <2>1. /\ Normalize(names, s) = Append(names, s)
        /\ Normalize(one \o names, s) = Append(one \o names, s)
    BY <1>2 DEF Normalize
  <2>2. one \in Seq(Segment) /\ last \in Seq(Segment)
    OBVIOUS
  <2>3. Append(names, s) = names \o last
    BY AppendIsConcat
  <2> HIDE DEF one
  <2>4. one \o names \in Seq(Segment)
    BY <2>2, ConcatProperties
  <2>5. Append(one \o names, s) = (one \o names) \o last
    BY <2>4, AppendIsConcat
  <2> HIDE DEF last
  <2>6. (one \o names) \o last = one \o (names \o last)
    BY <2>2, ConcatAssociative
  <2> QED
    BY <2>1, <2>3, <2>5, <2>6 DEF one
<1> QED
  BY <1>1, <1>2

\* The names below a name.
Below(b, names) == <<b>> \o names

\* The path long has a name before the path raw, which goes nowhere up.
Precedes(b, long, raw, n) ==
    /\ long[1] = b
    /\ \A i \in 1..n : long[i + 1] = raw[i] /\ raw[i] \in Segment /\ raw[i] # ".."

\* The induction for NameBefore: f has the names of a path without dots, g those
\* of the same path with a name before it.
LEMMA NamesBelow ==
    ASSUME NEW b \in Proper, NEW raw, NEW long, NEW n \in Nat, NEW m, NEW f, NEW g,
           IsNames(f, raw, n), IsNames(g, long, m), m = n + 1, Precedes(b, long, raw, n)
    PROVE  g[m] = Below(b, f[n])
<1> DEFINE G == {k \in 0..n : f[k] \in Seq(Segment) /\ g[k + 1] = <<b>> \o f[k]}
<1>1. f[0] = <<>> /\ \A i \in 0..(n - 1) : f[i + 1] = Normalize(f[i], raw[i + 1])
  BY NamesSteps
<1>2. g[0] = <<>> /\ \A i \in 0..n : g[i + 1] = Normalize(g[i], long[i + 1])
  <2>1. n + 1 \in Nat /\ (n + 1) - 1 = n
    OBVIOUS
  <2>2. g[0] = <<>> /\ \A i \in 0..((n + 1) - 1) : g[i + 1] = Normalize(g[i], long[i + 1])
    BY <2>1, NamesSteps
  <2> QED
    BY <2>1, <2>2
<1>3. 0 \in G
  <2>1. g[1] = Normalize(<<>>, b)
    <3>1. 0 \in 0..n /\ 0 + 1 = 1
      OBVIOUS
    <3> QED
      BY <1>2, <3>1 DEF Precedes
  <2>2. Normalize(<<>>, b) = <<b>>
    <3>1. b \notin {"", ".", ".."}
      BY DEF Proper
    <3>2. Normalize(<<>>, b) = Append(<<>>, b)
      BY <3>1 DEF Normalize
    <3>3. Append(<<>>, b) = <<b>>
      OBVIOUS
    <3> QED
      BY <3>2, <3>3
  <2>3. <<b>> \o <<>> = <<b>> /\ <<>> \in Seq(Segment)
    <3>1. b \in Segment
      BY DEF Proper
    <3>2. <<b>> \in Seq(Segment)
      BY <3>1
    <3> QED
      BY <3>2, ConcatEmptySeq, EmptySeq
  <2>4. 0 \in 0..n /\ 0 + 1 = 1
    OBVIOUS
  <2>5. g[1] = <<b>> \o f[0] /\ f[0] \in Seq(Segment)
    BY <1>1, <2>1, <2>2, <2>3
  <2> QED
    BY <2>4, <2>5
<1>4. ASSUME NEW i \in 0..(n - 1), i \in G PROVE i + 1 \in G
  <2>1. i + 1 \in 1..n /\ i + 1 \in 0..n /\ i \in 0..n
    OBVIOUS
  <2>2. f[i] \in Seq(Segment) /\ g[i + 1] = <<b>> \o f[i]
    BY <1>4
  <2>3. raw[i + 1] \in Segment /\ raw[i + 1] # ".." /\ long[(i + 1) + 1] = raw[i + 1]
    BY <2>1 DEF Precedes
  <2>4. f[i + 1] = Normalize(f[i], raw[i + 1])
    BY <1>1
  <2>5. g[(i + 1) + 1] = Normalize(g[i + 1], long[(i + 1) + 1])
    BY <1>2, <2>1
  <2>6. Normalize(<<b>> \o f[i], raw[i + 1]) = <<b>> \o Normalize(f[i], raw[i + 1])
    BY <2>2, <2>3, NormalizeBelow DEF Proper
  <2>7. f[i + 1] \in Seq(Segment)
    BY <2>2, <2>3, <2>4, NormalizeText
  <2>8. g[(i + 1) + 1] = <<b>> \o f[i + 1]
    BY <2>2, <2>3, <2>4, <2>5, <2>6
  <2> QED
    BY <2>1, <2>7, <2>8
<1> HIDE DEF G
<1>5. 0..n \subseteq G
  BY <1>3, <1>4, UpTo
<1>6. n \in G
  BY <1>5
<1> QED
  BY <1>6 DEF G, Below

\* Where there are no dots, a name put before a path comes before its names.
LEMMA NameBefore ==
    ASSUME NEW b \in Proper, NEW raw \in Seq(Segment),
           \A i \in 1..Len(raw) : raw[i] # ".."
    PROVE  SanitizeS3Filepath(<<b>> \o raw).names = <<b>> \o SanitizeS3Filepath(raw).names
<1> DEFINE n == Len(raw)
           long == <<b>> \o raw
<1>1. PICK f : IsNames(f, raw, n) /\ SanitizeS3Filepath(raw).names = f[n]
  BY NamesOf
<1>2. /\ long \in Seq(Segment) /\ Len(long) = n + 1 /\ long[1] = b
      /\ \A i \in 1..n : long[i + 1] = raw[i]
  BY PutBefore DEF Proper
<1>3. n \in Nat /\ \A i \in 1..n : raw[i] \in Segment /\ raw[i] # ".."
  BY LenProperties, ElementOfSeq
<1> HIDE DEF n, long
<1>4. PICK g : IsNames(g, long, n + 1) /\ SanitizeS3Filepath(long).names = g[n + 1]
  <2>1. PICK g : IsNames(g, long, Len(long)) /\ SanitizeS3Filepath(long).names = g[Len(long)]
    BY <1>2, NamesOf
  <2> QED
    BY <1>2, <2>1
<1> DEFINE m == n + 1
<1>5. g[m] = Below(b, f[n])
  <2> HIDE DEF m
  <2>1. Precedes(b, long, raw, n)
    BY <1>2, <1>3 DEF Precedes
  <2>2. m = n + 1 /\ IsNames(g, long, m)
    BY <1>4 DEF m
  <2>3. n \in Nat /\ b \in Proper /\ IsNames(f, raw, n)
    BY <1>1, <1>3
  <2> QED
    BY <2>1, <2>2, <2>3, NamesBelow
<1> QED
  BY <1>1, <1>4, <1>5 DEF long, Below

----------------------------------------------------------------------------
(* The two styles of address: requestPreprocess and the router.            *)

\* A subdomain is the first label of its domain, and that has no dot in it.
LEMMA SubdomainIsALabel ==
    ASSUME NEW q \in Request
    PROVE  /\ ParseSubdomain(q.domain) \in Proper \cup {NoName}
           /\ ParseSubdomain(q.domain) # NoName => ParseSubdomain(q.domain) = q.domain[1]
<1>1. q.domain \in Seq(Segment) /\ q.domain # <<>>
  BY RequestAssumption
<1>2. 1 \in DOMAIN q.domain /\ q.domain[1] \in Segment
  BY <1>1, EmptySeq, LenProperties, ElementOfSeq
<1>3. q.domain[1] \notin {".", ".."}
  BY <1>2, RequestAssumption
<1>4. q.domain[1] # "" => q.domain[1] \in Proper
  BY <1>2, <1>3 DEF Proper
<1> QED
  BY <1>4 DEF ParseSubdomain, NoName

\* The bucket is the first directory of the path it was put before.
LEMMA SplitBelow ==
    ASSUME NEW b \in Proper, NEW names \in Seq(Segment), NEW slash \in BOOLEAN,
           NEW p, p.names = Below(b, names), p.slash = slash, names = <<>> => slash
    PROVE  SplitFirstDirectory(p) =
              [first |-> b, remaining |-> [names |-> names, slash |-> slash]]
<1>1. /\ p.names # <<>> /\ Len(p.names) = Len(names) + 1 /\ Head(p.names) = b
      /\ Tail(p.names) = names
  <2>1. b \in Segment
    BY DEF Proper
  <2>2. <<b>> \in Seq(Segment) /\ Len(<<b>>) = 1
    BY <2>1
  <2> QED
    BY <2>1, <2>2 DEF Below
<1>2. ~IsRoot(p)
  BY <1>1 DEF IsRoot
<1>3. CASE names = <<>>
  <2>1. Len(p.names) = 1 /\ Len(p.names) < 2 /\ slash
    BY <1>1, <1>3, EmptySeq
  <2>2. SplitFirstDirectory(p) = [first |-> b, remaining |-> Root]
    BY <1>1, <1>2, <2>1 DEF SplitFirstDirectory
  <2>3. Root = [names |-> names, slash |-> slash]
    BY <1>3, <2>1 DEF Root
  <2> QED
    BY <2>2, <2>3
<1>4. CASE names # <<>>
  <2>1. Len(names) \in Nat \ {0}
    BY <1>4, EmptySeq
  <2>2. Len(p.names) # 1 /\ ~(Len(p.names) < 2)
    BY <1>1, <2>1
  <2> QED
    BY <1>1, <1>2, <2>2 DEF SplitFirstDirectory
<1> QED
  BY <1>3, <1>4

\* The last segment of a path without dots is a name or empty: a path without
\* names ends with a slash.
LEMMA NamelessEndsInSlash ==
    ASSUME NEW raw \in Seq(Segment), raw # <<>>,
           \A i \in DOMAIN raw : raw[i] \notin {".", ".."},
           SanitizeS3Filepath(raw).names = <<>>
    PROVE  Last(raw) = ""
<1> DEFINE n == Len(raw)
<1>1. PICK f : IsNames(f, raw, n) /\ SanitizeS3Filepath(raw).names = f[n]
  BY NamesOf
<1>2. n \in Nat /\ n # 0 /\ n \in DOMAIN raw
  BY EmptySeq, LenProperties
<1>3. f[n] = Normalize(f[n - 1], raw[n])
  <2> HIDE DEF n
  <2>1. n - 1 \in 0..(n - 1) /\ (n - 1) + 1 = n
    BY <1>2
  <2> QED
    BY <1>1, <1>2, <2>1, NamesSteps
<1>4. f[n - 1] \in Seq(Proper) /\ raw[n] \in Segment
  <2>1. n - 1 \in 0..n
    BY <1>2
  <2> QED
    BY <1>1, <1>2, <2>1, NamesProper, ElementOfSeq, LenProperties
<1>5. CASE raw[n] = ""
  BY <1>5 DEF Last
<1>6. CASE raw[n] # ""
  <2>1. raw[n] \in Proper
    BY <1>2, <1>4, <1>6 DEF Proper
  <2>2. Normalize(f[n - 1], raw[n]) = Append(f[n - 1], raw[n])
    BY <2>1 DEF Normalize, Proper
  <2>3. Append(f[n - 1], raw[n]) # <<>>
    BY <1>4, <2>1, AppendProperties
  <2> QED
    BY <1>1, <1>3, <2>2, <2>3
<1> QED
  BY <1>5, <1>6

\* The path that was sent in the style of hosts and in the style of paths.
LEMMA SameBucketAndPath ==
    ASSUME NEW q \in Request, SubdomainIsBucket(ParseSubdomain(q.domain)),
           \A i \in DOMAIN q.path : q.path[i] \notin {".", ".."}
    PROVE  LET b == ParseSubdomain(q.domain)
           IN  SplitFirstDirectory(SanitizeS3Filepath(<<b>> \o q.path)) =
                  [first |-> b, remaining |-> SanitizeS3Filepath(q.path)]
<1> DEFINE b == ParseSubdomain(q.domain)
           raw == q.path
           long == <<b>> \o raw
           p == SanitizeS3Filepath(raw)
           pl == SanitizeS3Filepath(long)
<1>1. raw \in Seq(Segment) /\ raw # <<>>
  BY RequestAssumption
<1>2. b \in Proper
  BY SubdomainIsALabel DEF SubdomainIsBucket
<1>3. b \in Segment
  BY <1>2 DEF Proper
<1>4. \A i \in DOMAIN raw : raw[i] \notin {".", ".."}
  OBVIOUS
<1> HIDE DEF b, raw
<1>5. DOMAIN raw = 1..Len(raw) /\ Len(raw) \in Nat /\ Len(raw) # 0
  BY <1>1, EmptySeq, LenProperties
<1>6. pl.names = Below(b, p.names)
  <2>1. \A i \in 1..Len(raw) : raw[i] # ".."
    BY <1>4, <1>5
  <2> QED
    BY <1>1, <1>2, <2>1, NameBefore DEF Below
<1>7. long \in Seq(Segment) /\ Last(long) = Last(raw)
  <2>1. /\ long \in Seq(Segment) /\ Len(long) = Len(raw) + 1
        /\ \A i \in 1..Len(raw) : long[i + 1] = raw[i]
    BY <1>1, <1>3, PutBefore
  <2>2. Len(raw) \in 1..Len(raw)
    BY <1>5
  <2> QED
    BY <2>1, <2>2 DEF Last
<1> HIDE DEF long
<1>8. /\ p \in [names : Seq(Proper), slash : BOOLEAN]
      /\ pl \in [names : Seq(Proper), slash : BOOLEAN]
      /\ IsRoot(p) => p.slash
  BY <1>1, <1>7, SanitizedIsProper
<1>9. p.slash <=> pl.slash
  <2>1. p.slash <=> p.names = <<>> \/ Last(raw) = ""
    BY <1>1, NamesOf
  <2>2. pl.slash <=> pl.names = <<>> \/ Last(long) = ""
    BY <1>7, NamesOf
  <2>3. p.names = <<>> => Last(raw) = ""
    BY <1>1, <1>4, NamelessEndsInSlash
  <2>4. pl.names # <<>>
    <3>1. <<b>> \in Seq(Segment) /\ <<b>> # <<>>
      BY <1>3
    <3>2. p.names \in Seq(Segment)
      BY <1>8, ProperNames
    <3> QED
      BY <1>6, <3>1, <3>2, ConcatEqualIffEmpty DEF Below
  <2> QED
    BY <1>7, <2>1, <2>2, <2>3, <2>4
<1>10. p = [names |-> p.names, slash |-> p.slash] /\ p.names \in Seq(Segment)
  BY <1>8, ProperNames
<1>11. pl.slash = p.slash /\ p.slash \in BOOLEAN /\ (p.names = <<>> => p.slash)
  BY <1>8, <1>9 DEF IsRoot
<1> HIDE DEF p, pl
<1>12. SplitFirstDirectory(pl) = [first |-> b, remaining |-> p]
  BY <1>2, <1>6, <1>10, <1>11, SplitBelow
<1> QED
  BY <1>12 DEF b, raw, long, p, pl

\* Whether a request came in at the base matters to HEAD only.
LEMMA StylesLeadToTheSameHandler ==
    ASSUME NEW q \in Request, SubdomainIsBucket(ParseSubdomain(q.domain)),
           q.method # "HEAD",
           \A i \in DOMAIN q.path : q.path[i] \notin {".", ".."}
    PROVE  HandlerOf(q) = HandlerOf(PathStyle(q))
<1> DEFINE b == ParseSubdomain(q.domain)
           p == SanitizeS3Filepath(q.path)
           r == PathStyle(q)
           pr == SanitizeS3Filepath(r.path)
           br == ParseSubdomain(r.domain)
<1>1. /\ r.method = q.method /\ r.params = q.params /\ r.copy = q.copy
      /\ r.path = <<q.domain[1]>> \o q.path
      /\ r.domain = <<BaseSubdomain>> \o Tail(q.domain)
  BY RequestAssumption DEF PathStyle
<1>2. b # NoName /\ b = q.domain[1]
  BY SubdomainIsALabel DEF SubdomainIsBucket
<1>3. SplitFirstDirectory(pr) = [first |-> b, remaining |-> p]
  BY <1>1, <1>2, SameBucketAndPath
<1>4. br \in {NoName, BaseSubdomain}
  <2>1. Tail(q.domain) \in Seq(Segment)
    BY RequestAssumption, HeadTailProperties
  <2>2. r.domain[1] = BaseSubdomain
    BY <1>1, <2>1
  <2> QED
    BY <2>2 DEF ParseSubdomain
<1>5. q.method \in {"GET", "PUT", "POST", "DELETE"}
  BY RequestAssumption
<1>6. HandlerOf(q) = Dispatch(q, FALSE, b, p)
  <2>1. ~AtBase(b) /\ FindBucketName(p, b) = b /\ BelowBucket(p, b) = p
    BY <1>2 DEF AtBase, SubdomainIsBucket, FindBucketName, BelowBucket
  <2>2. AtBase(b) = FALSE
    BY <2>1 DEF AtBase
  <2>3. HandlerOf(q) = Dispatch(q, AtBase(b), FindBucketName(p, b), BelowBucket(p, b))
    BY DEF HandlerOf
  <2> QED
    BY <2>1, <2>2, <2>3
<1>7. HandlerOf(r) = Dispatch(r, TRUE, b, p)
  <2>1. AtBase(br) /\ ~SubdomainIsBucket(br)
    BY <1>4 DEF AtBase, SubdomainIsBucket
  <2>2. FindBucketName(pr, br) = b /\ BelowBucket(pr, br) = p
    BY <1>3, <2>1 DEF FindBucketName, BelowBucket
  <2>3. AtBase(br) = TRUE
    BY <2>1 DEF AtBase
  <2>4. HandlerOf(r) = Dispatch(r, AtBase(br), FindBucketName(pr, br), BelowBucket(pr, br))
    BY DEF HandlerOf
  <2> QED
    BY <2>2, <2>3, <2>4
<1> HIDE DEF b, p, r
<1>8. Dispatch(q, FALSE, b, p) = Dispatch(r, TRUE, b, p)
  <2>1. r.method = q.method /\ r.params = q.params /\ r.copy = q.copy
    BY <1>1
  <2> HIDE DEF pr, br
  <2>2. CASE q.method = "GET"
    BY <2>1, <2>2 DEF Dispatch, OpOf
  <2>3. CASE q.method = "PUT"
    BY <2>1, <2>3 DEF Dispatch, OpOf
  <2>4. CASE q.method = "POST"
    BY <2>1, <2>4 DEF Dispatch, OpOf
  <2>5. CASE q.method = "DELETE"
    BY <2>1, <2>5 DEF Dispatch, OpOf
  <2> QED
    BY <1>5, <2>2, <2>3, <2>4, <2>5
<1> QED
  BY <1>6, <1>7, <1>8 DEF r

----------------------------------------------------------------------------
(* What a handler is given. *)

\* Which handlers there are, and that none but listBuckets is without a bucket.
LEMMA OpsOf ==
    ASSUME NEW q \in Request, NEW base \in BOOLEAN, NEW b, NEW p
    PROVE  LET op == OpOf(q, base, b, p)
           IN  /\ op \in BucketOps \cup KeyOps \cup Answers
               /\ op \in BucketOps \cup KeyOps => b # NoName
               /\ op \in KeyOps => ~IsRoot(p)
               /\ q.method = "HEAD" => op \in {"MethodNotAllowed", "InvalidBucketName", "bucketExists"}
<1> DEFINE op == OpOf(q, base, b, p)
<1>0. q.method \in {"HEAD", "GET", "PUT", "POST", "DELETE"} /\ q.copy \in BOOLEAN
  BY RequestAssumption
<1>1. CASE q.method = "HEAD"
  <2>1. op = HeadOp(base, b)
    BY <1>1 DEF OpOf
  <2> QED
    BY <1>1, <2>1 DEF HeadOp, BucketOps, KeyOps, Answers
<1>2. CASE q.method = "GET"
  <2>1. op = GetOp(b, p, q.params)
    BY <1>2 DEF OpOf
  <2> QED
    BY <1>2, <2>1 DEF GetOp, BucketOps, KeyOps, Answers
<1>3. CASE q.method = "PUT"
  <2>1. op = PutOp(b, p, q.params, q.copy)
    BY <1>3 DEF OpOf
  <2> QED
    BY <1>3, <2>1 DEF PutOp, BucketOps, KeyOps, Answers
<1>4. CASE q.method = "POST"
  <2>1. op = PostOp(b)
    BY <1>4 DEF OpOf
  <2> QED
    BY <1>4, <2>1 DEF PostOp, BucketOps, KeyOps, Answers
<1>5. CASE q.method = "DELETE"
  <2>1. op = DeleteOp(b, p)
    BY <1>5 DEF OpOf
  <2> QED
    BY <1>5, <2>1 DEF DeleteOp, BucketOps, KeyOps, Answers
<1> QED
  BY <1>0, <1>1, <1>2, <1>3, <1>4, <1>5

LEMMA BucketAndPathTypes ==
    ASSUME NEW p \in [names : Seq(Proper), slash : BOOLEAN], NEW s \in Proper \cup {NoName},
           IsRoot(p) => p.slash
    PROVE  /\ FindBucketName(p, s) \in Proper \cup {NoName}
           /\ BelowBucket(p, s) \in [names : Seq(Proper), slash : BOOLEAN]
           /\ IsRoot(BelowBucket(p, s)) => BelowBucket(p, s).slash
<1> DEFINE split == SplitFirstDirectory(p)
           Path == [names : Seq(Proper), slash : BOOLEAN]
<1>1. Root \in Path /\ Root.slash /\ IsRoot(Root)
  BY EmptySeq DEF Root, IsRoot
<1>2. split.first \in Proper \cup {NoName}
  BY HeadTailProperties DEF SplitFirstDirectory, IsRoot
<1>3. split.remaining \in Path /\ (IsRoot(split.remaining) => split.remaining.slash)
  <2>1. CASE Len(p.names) < 2
    BY <1>1, <2>1 DEF SplitFirstDirectory, IsRoot
  <2>2. CASE ~(Len(p.names) < 2)
    <3>1. p.names # <<>> /\ Len(p.names) # 1 /\ Len(p.names) \in Nat
      <4>1. Len(p.names) \in Nat
        BY LenProperties
      <4>2. p.names = <<>> => Len(p.names) = 0
        BY EmptySeq
      <4> QED
        BY <2>2, <4>1, <4>2
    <3>2. split.remaining = [names |-> Tail(p.names), slash |-> p.slash]
      BY <2>2, <3>1 DEF SplitFirstDirectory, IsRoot
    <3>3. Tail(p.names) \in Seq(Proper) /\ Len(Tail(p.names)) = Len(p.names) - 1
      BY <3>1, HeadTailProperties
    <3>4. Tail(p.names) # <<>>
      <4>1. Tail(p.names) = <<>> => Len(Tail(p.names)) = 0
        BY EmptySeq
      <4> QED
        BY <2>2, <3>1, <3>3, <4>1
    <3> QED
      BY <3>2, <3>3, <3>4 DEF IsRoot
  <2> QED
    BY <2>1, <2>2
<1> QED
  BY <1>2, <1>3 DEF FindBucketName, BelowBucket

\* A handler of buckets gets the directory of a bucket, a handler of keys a path
\* below one, and no name in it is empty or dotted.
LEMMA PathsOf ==
    ASSUME NEW q \in Request
    PROVE  LET h == HandlerOf(q)
           IN  /\ h \in [op : BucketOps \cup KeyOps \cup Answers, path : Seq(Proper)]
               /\ h.op \in BucketOps => Len(h.path) = 1
               /\ h.op \in KeyOps => Len(h.path) > 1
               /\ h.op \in BucketOps \cup KeyOps => h.path[1] # NoName
               /\ q.method = "HEAD" =>
                     h.op \in {"MethodNotAllowed", "InvalidBucketName", "bucketExists"}
<1> DEFINE s == ParseSubdomain(q.domain)
           p == SanitizeS3Filepath(q.path)
           b == FindBucketName(p, s)
           below == BelowBucket(p, s)
           op == OpOf(q, AtBase(s), b, below)
           path == MantaPath(op, b, below)
<1>1. HandlerOf(q) = [op |-> op, path |-> path]
  BY DEF HandlerOf, Dispatch
<1>2. p \in [names : Seq(Proper), slash : BOOLEAN] /\ (IsRoot(p) => p.slash)
  BY SanitizedIsProper, RequestAssumption
<1>3. s \in Proper \cup {NoName}
  BY SubdomainIsALabel
<1> HIDE DEF s, p
<1>4. b \in Proper \cup {NoName} /\ below.names \in Seq(Proper)
  BY <1>2, <1>3, BucketAndPathTypes
<1>5. /\ op \in BucketOps \cup KeyOps \cup Answers
      /\ op \in BucketOps \cup KeyOps => b # NoName
      /\ op \in KeyOps => ~IsRoot(below)
      /\ q.method = "HEAD" => op \in {"MethodNotAllowed", "InvalidBucketName", "bucketExists"}
  BY OpsOf DEF AtBase
<1> HIDE DEF b, below, op
<1>6. path = IF op \in BucketOps THEN <<b>>
             ELSE IF op \in KeyOps THEN Below(b, below.names) ELSE <<>>
  <2>1. op \in BucketOps => op \notin KeyOps
    BY DEF BucketOps, KeyOps
  <2> QED
    BY <2>1 DEF MantaPath, Below
<1> HIDE DEF path
<1>7. CASE op \in BucketOps
  <2>1. b \in Proper /\ path = <<b>> /\ op \notin KeyOps
    BY <1>4, <1>5, <1>6, <1>7 DEF BucketOps, KeyOps
  <2>2. path \in Seq(Proper) /\ Len(path) = 1 /\ path[1] = b
    BY <2>1
  <2>3. b # NoName
    BY <1>5, <1>7
  <2> QED
    BY <1>1, <1>5, <2>1, <2>2, <2>3
<1>8. CASE op \in KeyOps
  <2>1. b \in Proper /\ path = Below(b, below.names) /\ op \notin BucketOps
    BY <1>4, <1>5, <1>6, <1>8 DEF BucketOps, KeyOps
  <2>2. below.names # <<>>
    BY <1>5, <1>8 DEF IsRoot
  <2>3. <<b>> \in Seq(Proper) /\ Len(<<b>>) = 1 /\ <<b>>[1] = b
    BY <2>1
  <2>4. Len(below.names) \in Nat \ {0}
    BY <1>4, <2>2, EmptySeq
  <2>5. path \in Seq(Proper) /\ Len(path) = 1 + Len(below.names) /\ path[1] = b
    BY <1>4, <2>1, <2>3 DEF Below
  <2>6. Len(path) > 1
    BY <2>4, <2>5
  <2>7. b # NoName
    BY <1>5, <1>8
  <2> QED
    BY <1>1, <1>5, <2>1, <2>5, <2>6, <2>7
<1>9. CASE op \notin BucketOps \cup KeyOps
  <2>1. path = <<>> /\ path \in Seq(Proper)
    BY <1>6, <1>9, EmptySeq
  <2> QED
    BY <1>1, <1>5, <1>9, <2>1
<1> QED
  BY <1>7, <1>8, <1>9

----------------------------------------------------------------------------
(* The invariant of the chain. *)

\* The headers as the server gets them if no proxy adds to them.
Arrived == With(client.headers, "host", client.http.domain)

Proxied == With(Arrived, "x-forwarded-for", "client")

Untouched == bucket = NoName /\ sanitizedPath = Root /\ isBaseEndpoint = FALSE

Preprocessed ==
    LET p         == SanitizeS3Filepath(http.path)
        subdomain == ParseSubdomain(http.domain)
    IN  /\ bucket = FindBucketName(p, subdomain)
        /\ isBaseEndpoint = AtBase(subdomain)
        /\ sanitizedPath = BelowBucket(p, subdomain)

Admitted == options.authEnabled => Exempt(http) \/ Verdict = "ok"

\* The inductive invariant.  Nothing that the verdict was reached on changes
\* before the handler is entered, so that whatever comes behind the
\* authenticator has been admitted by it, as it stands.
ChainInv ==
    /\ client \in Arrival /\ http = client.http
    /\ now \in client.now..MaxNow
    /\ headers = Arrived \/ ("x-forwarded-for" \notin DOMAIN Arrived /\ headers = Proxied)
    /\ auth = Authorization(client, Arrived)
    /\ stage \in {"sent", "refused", "received", "preprocessed", "done"}
    /\ stage \in {"sent", "refused", "received"} => Untouched
    /\ stage \in {"sent", "received", "preprocessed"} => target = [op |-> "none", path |-> <<>>]
    /\ stage = "refused" => /\ options.authEnabled /\ ~Exempt(http) /\ Verdict # "ok"
                            /\ target = [op |-> Verdict, path |-> <<>>]
    /\ stage \in {"received", "preprocessed", "done"} => Admitted
    /\ stage = "preprocessed" => Preprocessed
    /\ stage = "done" =>
         \/ Untouched /\ TooLong(http) /\ target = [op |-> "InternalError", path |-> <<>>]
         \/ Preprocessed /\ target = HandlerOf(http)

LEMMA VerdictKept ==
    ASSUME UNCHANGED <<client, http, headers, auth, now>>
    PROVE  Verdict' = Verdict /\ Admitted' = Admitted /\ Arrived' = Arrived /\ Proxied' = Proxied
<1>1. Verdict' = Verdict
  BY DEF Verdict, options
<1>2. Arrived' = Arrived
  BY DEF Arrived
<1> QED
  BY <1>1, <1>2 DEF Admitted, options, Proxied

LEMMA ChainInitInv == ChainInit => ChainInv
<1> SUFFICES ASSUME ChainInit PROVE ChainInv
  OBVIOUS
<1>1. headers = Arrived /\ auth = Authorization(client, Arrived)
  BY DEF ChainInit, Arrived
<1>2. now \in client.now..MaxNow
  BY ArrivalAssumption DEF ChainInit
<1> QED
  BY <1>1, <1>2 DEF ChainInit, ChainInv, Untouched

LEMMA ChainNextInv == ChainInv /\ [ChainNext]_chainVars => ChainInv'
<1> SUFFICES ASSUME ChainInv, [ChainNext]_chainVars PROVE ChainInv'
  OBVIOUS
<1>1. CASE Tick
  <2>1. Arrived' = Arrived /\ Proxied' = Proxied
    BY <1>1 DEF Tick, Arrived, Proxied
  <2>2. now' \in client'.now..MaxNow
    BY <1>1, ArrivalAssumption DEF Tick, ChainInv
  <2>3. /\ stage' = "sent" /\ UNCHANGED <<client, http, headers, auth, target>>
        /\ Untouched' = Untouched
    BY <1>1 DEF Tick, vars, Untouched
  <2> QED
    BY <2>1, <2>2, <2>3, <1>1 DEF ChainInv, Tick
<1>2. CASE Forward
  <2>1. Arrived' = Arrived /\ Proxied' = Proxied
    BY <1>2 DEF Forward, Arrived, Proxied
  <2>2. headers' = Proxied /\ "x-forwarded-for" \notin DOMAIN Arrived
    <3>1. CASE headers = Arrived
      BY <1>2, <3>1 DEF Forward, Proxied
    <3>2. CASE headers = Proxied
      <4>1. "x-forwarded-for" \in DOMAIN Proxied
        BY DEF Proxied, With
      <4> QED
        BY <1>2, <3>2, <4>1 DEF Forward
    <3> QED
      BY <3>1, <3>2 DEF ChainInv
  <2>3. /\ stage' = "sent" /\ UNCHANGED <<client, http, now, auth, target>>
        /\ Untouched' = Untouched
    BY <1>2 DEF Forward, vars, Untouched
  <2> QED
    BY <2>1, <2>2, <2>3, <1>2 DEF ChainInv, Forward
<1>3. CASE Retry
  <2>1. Arrived' = Arrived /\ Proxied' = Proxied
    BY <1>3 DEF Retry, Arrived, Proxied
  <2> QED
    BY <1>3, <2>1 DEF ChainInv, Retry, Fresh, Untouched
<1>4. CASE Admit
  <2>1. /\ UNCHANGED <<client, http, headers, auth, now, target>>
        /\ stage = "sent" /\ stage' = "received" /\ Untouched' = Untouched
    BY <1>4 DEF Admit, Untouched
  <2>2. Verdict' = Verdict /\ Admitted' = Admitted /\ Arrived' = Arrived /\ Proxied' = Proxied
    BY <2>1, VerdictKept
  <2>3. Admitted
    BY <1>4 DEF Admit, Admitted
  <2> QED
    BY <2>1, <2>2, <2>3 DEF ChainInv
<1>5. CASE Refuse
  <2>1. /\ UNCHANGED <<client, http, headers, auth, now>>
        /\ stage = "sent" /\ stage' = "refused" /\ Untouched' = Untouched
        /\ target' = [op |-> Verdict, path |-> <<>>]
        /\ options.authEnabled /\ ~Exempt(http) /\ Verdict # "ok"
    BY <1>5 DEF Refuse, Untouched
  <2>2. Verdict' = Verdict /\ Arrived' = Arrived /\ Proxied' = Proxied /\ options' = options
    BY <2>1, VerdictKept DEF options
  <2> QED
    BY <2>1, <2>2 DEF ChainInv
<1>6. CASE Next /\ UNCHANGED <<client, headers, auth, now>>
  <2>1. UNCHANGED <<client, http, headers, auth, now>>
    BY <1>6 DEF Next, RequestPreprocess, RejectLongPath, Route
  <2>2. Verdict' = Verdict /\ Admitted' = Admitted /\ Arrived' = Arrived /\ Proxied' = Proxied
    BY <2>1, VerdictKept
  <2>3. CASE RequestPreprocess
    <3>1. Preprocessed' /\ stage = "received" /\ stage' = "preprocessed" /\ target' = target
      BY <2>1, <2>3 DEF RequestPreprocess, Preprocessed
    <3> QED
      BY <2>1, <2>2, <3>1 DEF ChainInv
  <2>4. CASE RejectLongPath
    <3>1. /\ Untouched' = Untouched /\ stage = "received" /\ stage' = "done"
          /\ target' = [op |-> "InternalError", path |-> <<>>] /\ TooLong(http)
      BY <2>4 DEF RejectLongPath, Untouched
    <3> QED
      BY <2>1, <2>2, <3>1 DEF ChainInv
  <2>5. CASE Route
    <3>1. /\ Preprocessed /\ Preprocessed' = Preprocessed
          /\ stage = "preprocessed" /\ stage' = "done"
          /\ target' = Dispatch(http, isBaseEndpoint, bucket, sanitizedPath)
      BY <2>5 DEF Route, Preprocessed, ChainInv
    <3>2. target' = HandlerOf(http)
      BY <3>1 DEF Preprocessed, HandlerOf
    <3> QED
      BY <2>1, <2>2, <3>1, <3>2 DEF ChainInv
  <2> QED
    BY <1>6, <2>3, <2>4, <2>5 DEF Next
<1>7. CASE UNCHANGED chainVars
  <2>1. /\ UNCHANGED <<client, http, headers, auth, now, stage, target>>
        /\ Untouched' = Untouched /\ Preprocessed' = Preprocessed /\ options' = options
    BY <1>7 DEF chainVars, vars, Untouched, Preprocessed, options
  <2>2. Verdict' = Verdict /\ Admitted' = Admitted /\ Arrived' = Arrived /\ Proxied' = Proxied
    BY <2>1, VerdictKept
  <2> QED
    BY <2>1, <2>2 DEF ChainInv
<1> QED
  BY <1>1, <1>2, <1>3, <1>4, <1>5, <1>6, <1>7 DEF ChainNext

\* The invariant holds of the chain for any set of requests.
THEOREM ChainInductive == ChainSpec => []ChainInv
  BY ChainInitInv, ChainNextInv, PTL DEF ChainSpec

----------------------------------------------------------------------------
(* What follows of the types, the handlers and the styles of address. *)

LEMMA VerdictType == Verdict \in Verdicts \cup {"ok"}
<1>1. \A h, t, m : VerdictOn(h, t, m) \in Verdicts \cup {"ok"}
  BY DEF VerdictOn, Verdicts
<1> QED
  BY <1>1 DEF Verdict, Verdicts

\* Once it has been taken apart, a request has the types of its parts.
LEMMA PreprocessedTypes ==
    ASSUME ChainInv, Preprocessed
    PROVE  /\ bucket \in Proper \cup {NoName}
           /\ sanitizedPath \in [names : Seq(Proper), slash : BOOLEAN]
           /\ IsRoot(sanitizedPath) => sanitizedPath.slash
           /\ isBaseEndpoint \in BOOLEAN
<1> DEFINE p == SanitizeS3Filepath(http.path)
           s == ParseSubdomain(http.domain)
<1>1. http \in Request
  BY ArrivalAssumption DEF ChainInv
<1>2. p \in [names : Seq(Proper), slash : BOOLEAN] /\ (IsRoot(p) => p.slash)
  BY <1>1, SanitizedIsProper, RequestAssumption
<1>3. s \in Proper \cup {NoName}
  BY <1>1, SubdomainIsALabel
<1>4. bucket = FindBucketName(p, s) /\ isBaseEndpoint = AtBase(s) /\ sanitizedPath = BelowBucket(p, s)
  BY DEF Preprocessed
<1> HIDE DEF p, s
<1>5. isBaseEndpoint \in BOOLEAN
  BY <1>4 DEF AtBase
<1> QED
  BY <1>2, <1>3, <1>4, <1>5, BucketAndPathTypes

LEMMA UntouchedTypes ==
    ASSUME Untouched
    PROVE  /\ bucket \in Proper \cup {NoName}
           /\ sanitizedPath \in [names : Seq(Proper), slash : BOOLEAN]
           /\ IsRoot(sanitizedPath) => sanitizedPath.slash
           /\ isBaseEndpoint \in BOOLEAN
  BY EmptySeq DEF Untouched, Root

LEMMA ChainTypes == ChainInv => ChainTypeOK
<1> SUFFICES ASSUME ChainInv PROVE ChainTypeOK
  OBVIOUS
<1>1. Untouched \/ Preprocessed
  BY DEF ChainInv
<1>2. /\ bucket \in Proper \cup {NoName}
      /\ sanitizedPath \in [names : Seq(Proper), slash : BOOLEAN]
      /\ IsRoot(sanitizedPath) => sanitizedPath.slash
      /\ isBaseEndpoint \in BOOLEAN
  BY <1>1, PreprocessedTypes, UntouchedTypes
<1>3. target \in [op : BucketOps \cup KeyOps \cup Answers \cup Verdicts, path : Seq(Proper)]
  <2> DEFINE Ops == BucketOps \cup KeyOps \cup Answers \cup Verdicts
             Bare(op) == [op |-> op, path |-> <<>>]
  <2>1. "none" \in Ops /\ "InternalError" \in Ops /\ Verdicts \subseteq Ops
    BY DEF Answers
  <2>2. BucketOps \cup KeyOps \cup Answers \subseteq Ops
    OBVIOUS
  <2>3. \/ target = Bare("none") \/ target = Bare("InternalError")
        \/ stage = "refused" /\ Verdict # "ok" /\ target = Bare(Verdict)
        \/ target = HandlerOf(http)
    BY DEF ChainInv
  <2> HIDE DEF Ops
  <2>4. ASSUME NEW op \in Ops PROVE Bare(op) \in [op : Ops, path : Seq(Proper)]
    <3>1. <<>> \in Seq(Proper)
      BY EmptySeq
    <3> HIDE DEF Bare
    <3>2. Bare(op) = [op |-> op, path |-> <<>>]
      BY DEF Bare
    <3> QED
      BY <3>1, <3>2
  <2> SUFFICES target \in [op : Ops, path : Seq(Proper)]
    BY DEF Ops
  <2>5. CASE target = HandlerOf(http)
    <3>1. http \in Request
      BY ArrivalAssumption DEF ChainInv
    <3>2. target \in [op : BucketOps \cup KeyOps \cup Answers, path : Seq(Proper)]
      BY <2>5, <3>1, PathsOf
    <3> QED
      BY <2>2, <3>2
  <2> HIDE DEF Bare
  <2>6. CASE target = Bare("none") \/ target = Bare("InternalError")
    BY <2>1, <2>4, <2>6
  <2>7. CASE Verdict # "ok" /\ target = Bare(Verdict)
    <3>1. Verdict \in Ops
      BY <2>1, <2>7, VerdictType
    <3> QED
      BY <2>4, <2>7, <3>1
  <2> QED
    BY <2>3, <2>5, <2>6, <2>7
<1>4. stage \in {"sent", "refused", "received"} => sanitizedPath = Root /\ bucket = NoName
  BY DEF ChainInv, Untouched
<1> QED
  BY <1>2, <1>3, <1>4 DEF ChainInv, ChainTypeOK

\* The types of the chain, for any set of requests and paths of any length: no
\* empty and no dotted name reaches a handler.
THEOREM ChainTyped == ChainSpec => []ChainTypeOK
  BY ChainInductive, ChainTypes, PTL

LEMMA TargetIs ==
    ASSUME ChainInv
    PROVE  \/ target.op \in Answers \cup Verdicts /\ target.op # "listBuckets"
           \/ stage = "done" /\ target = HandlerOf(http)
<1>1. CASE target = [op |-> "none", path |-> <<>>] \/ target = [op |-> "InternalError", path |-> <<>>]
  BY <1>1 DEF Answers
<1>2. CASE stage = "refused"
  BY <1>2, VerdictType DEF ChainInv, Verdicts
<1> QED
  BY <1>1, <1>2 DEF ChainInv

\* Every handler gets a path it may work on: none is let loose on the directory
\* of all buckets, whatever path and whatever domain were sent.
THEOREM HandlersAreGivenTheirPaths == ChainSpec => []HandlersGetTheirPaths
<1>1. ChainInv => HandlersGetTheirPaths
  <2> SUFFICES ASSUME ChainInv PROVE HandlersGetTheirPaths
    OBVIOUS
  <2>1. CASE target.op \in Answers \cup Verdicts
    BY <2>1 DEF HandlersGetTheirPaths, Answers, Verdicts, BucketOps, KeyOps
  <2>2. CASE target = HandlerOf(http)
    <3>1. http \in Request
      BY ArrivalAssumption DEF ChainInv
    <3> QED
      BY <2>2, <3>1, PathsOf DEF HandlersGetTheirPaths
  <2> QED
    BY <2>1, <2>2, TargetIs
<1> QED
  BY <1>1, ChainInductive, PTL

\* The two styles of address agree, for paths of any length without dots.
THEOREM StylesAgree == ChainSpec => []AddressingStylesAgree
<1>1. ChainInv => AddressingStylesAgree
  <2> SUFFICES ASSUME ChainInv, Done, SubdomainIsBucket(ParseSubdomain(http.domain)),
                      http.method # "HEAD", ~TooLong(http),
                      \A i \in DOMAIN http.path : http.path[i] \notin {".", ".."}
               PROVE  target = HandlerOf(PathStyle(http))
    BY DEF AddressingStylesAgree
  <2>1. http \in Request
    BY ArrivalAssumption DEF ChainInv
  <2>2. target = HandlerOf(http)
    BY DEF ChainInv, Done
  <2> QED
    BY <2>1, <2>2, StylesLeadToTheSameHandler
<1> QED
  BY <1>1, ChainInductive, PTL

----------------------------------------------------------------------------
(* What the authenticator makes of an authorization header. *)

LEMMA AuthorizationOf ==
    ASSUME NEW a, NEW h
    PROVE  LET path == PathSigned(a.http, a.options.stripBucketPathFromAuth)
               text == BuildStringToSign4(SignedDate(h),
                          BuildCanonicalRequest(a.http, path, h, SignedHeaders(h)), Scope)
           IN  /\ a.scheme = V2 => Authorization(a, h) =
                      [scheme |-> V2, accessKey |-> AccessKey,
                       signature |-> Sign(a.key, BuildStringToSign2(a.http, h))]
               /\ a.scheme = V4 => Authorization(a, h) =
                      [scheme |-> V4, accessKey |-> AccessKey, scope |-> Scope,
                       signedHeaders |-> SignedHeaders(h), blanks |-> a.blanks,
                       signature |-> Sign(a.key, text)]
               /\ a.scheme \notin {V2, V4} => Authorization(a, h) = [scheme |-> a.scheme]
<1>1. V2 # V4
  BY DEF V2, V4
<1>2. CASE a.scheme = V2
  BY <1>1, <1>2 DEF Authorization
<1>3. CASE a.scheme = V4
  BY <1>1, <1>3 DEF Authorization
<1>4. CASE a.scheme \notin {V2, V4}
  BY <1>4 DEF Authorization
<1> QED
  BY <1>1, <1>2, <1>3, <1>4

\* No verdict on what does not match is good.
LEMMA NoMatchNoEntry ==
    ASSUME NEW h, NEW t PROVE VerdictOn(h, t, FALSE) # "ok"
  BY DEF VerdictOn

\* The verdict is never good where the client has not the key.
LEMMA UnsignedIsRefused ==
    ASSUME ChainInv, client.key # SecretKey \/ client.scheme \in {"none", "other"}
    PROVE  Verdict # "ok"
<1> DEFINE strip == options.stripBucketPathFromAuth
<1>1. client.scheme \in {"none", "other", V2, V4} /\ auth = Authorization(client, Arrived)
  BY ArrivalAssumption DEF ChainInv
<1>2. V2 # V4 /\ "none" \notin {V2, V4} /\ "other" \notin {V2, V4} /\ "other" # "none"
  BY DEF V2, V4
<1>3. CASE client.scheme \in {"none", "other"}
  <2>1. auth.scheme = client.scheme
    BY <1>1, <1>2, <1>3, AuthorizationOf
  <2> QED
    BY <1>2, <1>3, <2>1 DEF Verdict, StartsWith
<1>4. CASE client.scheme = V2 /\ client.key # SecretKey
  <2>1. auth.scheme = V2 /\ auth.signature.key = client.key
    BY <1>1, <1>4, AuthorizationOf DEF Sign
  <2>2. Matches2(http, headers, auth) = FALSE
    <3>1. auth # BuildAuthorization2(BuildStringToSign2(http, headers))
      BY <1>4, <2>1 DEF BuildAuthorization2, Sign
    <3> QED
      BY <3>1 DEF Matches2
  <2>3. Verdict = VerdictOn(headers, now, Matches2(http, headers, auth))
    BY <1>2, <2>1 DEF Verdict, StartsWith
  <2> QED
    BY <2>2, <2>3, NoMatchNoEntry
<1>5. CASE client.scheme = V4 /\ client.key # SecretKey
  <2>1. auth.scheme = V4 /\ NormalizeAuthorizationHeader(auth).signature.key = client.key
    BY <1>1, <1>5, AuthorizationOf DEF Sign, NormalizeAuthorizationHeader
  <2>2. Matches4(http, headers, auth, strip) = FALSE
    <3>1. BuildAuthorization4(http, DetermineSignedPath(http, strip), headers, auth).signature.key
             = SecretKey
      BY DEF BuildAuthorization4, Sign
    <3> QED
      BY <1>5, <2>1, <3>1 DEF Matches4
  <2>3. Verdict = VerdictOn(headers, now, Matches4(http, headers, auth, strip))
    BY <1>2, <2>1 DEF Verdict, StartsWith
  <2> QED
    BY <2>2, <2>3, NoMatchNoEntry
<1> QED
  BY <1>1, <1>3, <1>4, <1>5

\* Where authentication is enabled, no sequence of retries, delays and added
\* headers brings a request that was not signed with the key to a handler, but
\* for the one that tells whether a bucket exists.
THEOREM UnsignedIsKeptOut == ChainSpec => []UnsignedReachesNoHandler
<1>1. ChainInv => UnsignedReachesNoHandler
  <2> SUFFICES ASSUME ChainInv, options.authEnabled,
                      client.key # SecretKey \/ client.scheme \in {"none", "other"}
               PROVE  target.op \notin (BucketOps \cup KeyOps \cup {"listBuckets"}) \ {"bucketExists"}
    BY DEF UnsignedReachesNoHandler
  <2>1. CASE target.op \in Answers \cup Verdicts /\ target.op # "listBuckets"
    BY <2>1 DEF Answers, Verdicts, BucketOps, KeyOps
  <2>2. CASE stage = "done" /\ target = HandlerOf(http)
    <3>1. http \in Request
      BY ArrivalAssumption DEF ChainInv
    <3>2. http.method = "HEAD"
      BY <2>2, UnsignedIsRefused DEF ChainInv, Admitted, Exempt
    <3>3. target.op \in {"MethodNotAllowed", "InvalidBucketName", "bucketExists"}
      BY <2>2, <3>1, <3>2, PathsOf
    <3> QED
      BY <3>3 DEF BucketOps, KeyOps
  <2> QED
    BY <2>1, <2>2, TargetIs
<1> QED
  BY <1>1, ChainInductive, PTL

----------------------------------------------------------------------------
(* What a well made request is signed with: determineSignedPath. *)

\* A sequence that is not empty, taken apart.
LEMMA HeadAndTail ==
    ASSUME NEW S, NEW s \in Seq(S), s # <<>>
    PROVE  /\ DOMAIN s = 1..Len(s) /\ Len(s) \in Nat /\ Len(s) # 0 /\ 1 \in 1..Len(s)
           /\ Tail(s) \in Seq(S) /\ Len(Tail(s)) = Len(s) - 1
           /\ \A i \in 1..Len(Tail(s)) : Tail(s)[i] = s[i + 1] /\ i + 1 \in 1..Len(s)
           /\ s = <<s[1]>> \o Tail(s)
           /\ Len(s) = 1 => s = <<s[1]>>
           /\ Len(s) # 1 => Len(s) > 1 /\ Tail(s) # <<>> /\ 1 \in 1..(Len(s) - 1)
<1> DEFINE n == Len(s)
           t == Tail(s)
           one == <<s[1]>>
<1>1. n \in Nat /\ DOMAIN s = 1..n /\ n # 0
  BY EmptySeq, LenProperties
<1>2. 1 \in 1..n
  BY <1>1
<1>3. s[1] \in S
  BY <1>1, <1>2, ElementOfSeq
<1>4. t \in Seq(S) /\ Len(t) = n - 1 /\ \A i \in 1..Len(t) : t[i] = s[i + 1]
  BY HeadTailProperties
<1>5. one \in Seq(S) /\ Len(one) = 1 /\ one[1] = s[1]
  BY <1>3
<1> HIDE DEF n, t, one
<1>6. \A i \in 1..Len(t) : i + 1 \in 1..n
  BY <1>1, <1>4
<1>7. s = one \o t
  <2> DEFINE r == one \o t
  <2>1. /\ r \in Seq(S) /\ Len(r) = 1 + Len(t)
        /\ \A i \in 1..(1 + Len(t)) : r[i] = IF i <= 1 THEN one[i] ELSE t[i - 1]
    <3>1. /\ r \in Seq(S) /\ Len(r) = Len(one) + Len(t)
          /\ \A i \in 1..(Len(one) + Len(t)) :
                r[i] = IF i <= Len(one) THEN one[i] ELSE t[i - Len(one)]
      <4>1. one \in Seq(S) /\ t \in Seq(S)
        BY <1>4, <1>5
      <4> QED
        BY ONLY <4>1, ConcatProperties
    <3> QED
      BY <1>5, <3>1
  <2> HIDE DEF r
  <2>2. Len(s) = Len(r)
    BY <1>1, <1>4, <2>1 DEF n
  <2>3. ASSUME NEW i \in 1..Len(s) PROVE s[i] = r[i]
    <3>1. i \in 1..(1 + Len(t))
      BY <2>1, <2>2
    <3>2. CASE i <= 1
      BY <1>5, <2>1, <3>1, <3>2
    <3>3. CASE ~(i <= 1)
      <4>1. i - 1 \in 1..Len(t) /\ (i - 1) + 1 = i
        BY <1>1, <1>4, <3>1, <3>3
      <4>2. t[i - 1] = s[i]
        BY <1>4, <4>1
      <4> QED
        BY <2>1, <3>1, <3>3, <4>2
    <3> QED
      BY <3>2, <3>3
  <2>4. s = r
    BY <2>1, <2>2, <2>3, SeqEqual
  <2> QED
    BY <2>4 DEF r
<1>8. n = 1 => s = one
  <2> SUFFICES ASSUME n = 1 PROVE s = one
    OBVIOUS
  <2>1. Len(s) = Len(one) /\ \A i \in 1..Len(s) : s[i] = one[i]
    BY <1>5 DEF n
  <2> QED
    BY <1>5, <2>1, SeqEqual
<1>9. n # 1 => n > 1 /\ t # <<>> /\ 1 \in 1..(n - 1)
  <2>1. t = <<>> => Len(t) = 0
    BY EmptySeq
  <2> QED
    BY <1>1, <1>4, <2>1
<1> QED
  BY <1>1, <1>2, <1>4, <1>6, <1>7, <1>8, <1>9 DEF n, t, one

\* A path that begins with a name has one slash before it.
LEMMA NoSlashesToDrop ==
    ASSUME NEW path \in Seq(Segment), path # <<>>, path[1] # ""
    PROVE  OneSlash(path) = path
<1> DEFINE named == {i \in DOMAIN path : path[i] # ""}
           n == Len(path)
<1>0. DOMAIN path = 1..n /\ n \in Nat /\ n # 0
  BY EmptySeq, LenProperties
<1> HIDE DEF n
<1>1. n \in Int /\ 1 <= n /\ n - 1 + 1 = n /\ 1 \in 1..n
  <2>1. n \in Nat /\ n # 0
    BY <1>0
  <2> QED
    BY ONLY <2>1
<1>2. 1 \in named /\ \A i \in named : i \in 1..n
  BY <1>0, <1>1
<1>3. OneSlash(path) = SubSeq(path, Min(named), n)
  <2>1. named # {}
    BY <1>2
  <2> QED
    BY <2>1 DEF OneSlash, n
<1> HIDE DEF named
<1> DEFINE least == Min(named)
<1>4. least = 1
  <2>1. \A i \in 1..n : 1 <= i
    BY ONLY <1>1
  <2>2. \E x \in named : \A y \in named : x =< y
    BY <1>2, <2>1
  <2>3. least \in named /\ \A y \in named : least =< y
    BY <2>2 DEF Min
  <2> HIDE DEF least
  <2>4. least \in 1..n /\ least <= 1
    BY <1>2, <2>3
  <2> QED
    BY ONLY <1>1, <2>4
<1>5. SubSeq(path, 1, n) = path
  <2> DEFINE sub == SubSeq(path, 1, n)
  <2>1. \A i \in 1..n : path[i] \in Segment
    BY ElementOfSeq DEF n
  <2>2. /\ sub \in Seq(Segment) /\ Len(sub) = IF 1 <= n THEN n - 1 + 1 ELSE 0
        /\ \A i \in 1..(n - 1 + 1) : sub[i] = path[1 + i - 1]
    BY ONLY <1>1, <2>1, SubSeqProperties
  <2> HIDE DEF sub
  <2>3. Len(sub) = Len(path)
    BY <1>1, <2>2 DEF n
  <2>4. ASSUME NEW i \in 1..Len(sub) PROVE sub[i] = path[i]
    <3>1. i \in 1..(n - 1 + 1) /\ 1 + i - 1 = i
      <4>1. i \in 1..n
        BY <2>3 DEF n
      <4> QED
        BY ONLY <1>1, <4>1
    <3> QED
      BY <2>2, <3>1
  <2>5. sub = path
    BY <2>2, <2>3, <2>4, SeqEqual
  <2> QED
    BY <2>5 DEF sub
<1> QED
  BY <1>3, <1>4, <1>5 DEF least

\* The path that is a slash.
LEMMA OnlySlash ==
    ASSUME NEW path \in Seq(Segment), Len(path) = 1, path[1] = ""
    PROVE  OneSlash(path) = path
<1>1. path \in Seq(Segment) /\ Len(path) = 1
  OBVIOUS
<1>2. path # <<>>
  BY ONLY <1>1, EmptySeq
<1>3. DOMAIN path = 1..1 /\ path = <<path[1]>>
  BY ONLY <1>1, <1>2, HeadAndTail
<1>4. \A i \in 1..1 : i = 1
  BY ONLY 1 = 1
<1>5. {i \in DOMAIN path : path[i] # ""} = {}
  BY <1>3, <1>4
<1> QED
  BY <1>3, <1>5 DEF OneSlash

\* A path of a single segment names no bucket.
LEMMA SingleNamesNoBucket ==
    ASSUME NEW path \in Seq(Segment), Len(path) = 1, path[1] \notin {".", ".."}
    PROVE  SplitFirstDirectory(SanitizeS3Filepath(path)).first = NoName
<1> DEFINE p == SanitizeS3Filepath(path)
<1>1. PICK f : IsNames(f, path, 1) /\ p.names = f[1]
  BY NamesOf
<1>2. f[0] = <<>> /\ f[1] = Normalize(f[0], path[1])
  <2>1. 1 \in Nat /\ 0 \in 0..(1 - 1) /\ 0 + 1 = 1
    OBVIOUS
  <2> QED
    BY <1>1, <2>1, NamesSteps
<1>3. p.slash <=> p.names = <<>> \/ path[1] = ""
  <2>1. Last(path) = path[1]
    BY DEF Last
  <2> QED
    BY <2>1, NamesOf
<1> HIDE DEF p
<1>4. CASE path[1] = ""
  <2>1. IsRoot(p)
    BY <1>1, <1>2, <1>4 DEF Normalize, IsRoot
  <2> QED
    BY <2>1 DEF SplitFirstDirectory, p
<1>5. CASE path[1] # ""
  <2>1. p.names = Append(<<>>, path[1])
    BY <1>1, <1>2, <1>5 DEF Normalize
  <2>2. Append(<<>>, path[1]) # <<>> /\ Len(Append(<<>>, path[1])) = 1
    OBVIOUS
  <2>3. ~IsRoot(p) /\ Len(p.names) = 1 /\ ~p.slash
    BY <1>3, <1>5, <2>1, <2>2 DEF IsRoot
  <2> QED
    BY <2>3 DEF SplitFirstDirectory, p
<1> QED
  BY <1>4, <1>5

\* A path of several segments names the bucket first.
LEMMA FirstOfSeveral ==
    ASSUME NEW path \in Seq(Segment), path # <<>>, Len(path) # 1, path[1] # "",
           \A i \in DOMAIN path : path[i] \notin {".", ".."}
    PROVE  SplitFirstDirectory(SanitizeS3Filepath(path)).first = path[1]
<1> DEFINE b == path[1]
           raw == Tail(path)
           n == Len(raw)
           p == SanitizeS3Filepath(path)
           pr == SanitizeS3Filepath(raw)
<1>1. path \in Seq(Segment) /\ path # <<>> /\ Len(path) # 1
  OBVIOUS
<1>2. /\ DOMAIN path = 1..Len(path) /\ Len(path) \in Nat /\ 1 \in 1..Len(path)
      /\ raw \in Seq(Segment) /\ n = Len(path) - 1
      /\ \A i \in 1..n : raw[i] = path[i + 1] /\ i + 1 \in 1..Len(path)
      /\ path = <<b>> \o raw
      /\ raw # <<>>
  BY ONLY <1>1, HeadAndTail
<1>3. raw \in Seq(Segment) /\ raw # <<>>
  BY <1>2
<1>4. b \in Proper
  BY <1>2, ElementOfSeq DEF Proper
<1> HIDE DEF b, raw
<1>5. n \in Nat /\ n # 0 /\ DOMAIN raw = 1..n /\ n \in 1..n /\ n + 1 = Len(path)
  <2>1. DOMAIN raw = 1..n /\ n \in Nat /\ n # 0
    BY ONLY <1>3, HeadAndTail
  <2> QED
    BY ONLY <1>2, <2>1
<1> HIDE DEF n
<1>6. path = <<b>> \o raw /\ b \in Proper /\ raw \in Seq(Segment)
  BY <1>2, <1>4
<1>7. \A i \in DOMAIN raw : raw[i] \notin {".", ".."}
  BY <1>2, <1>5
<1>8. p.names = Below(b, pr.names)
  <2>1. \A i \in 1..Len(raw) : raw[i] # ".."
    BY <1>5, <1>7 DEF n
  <2> QED
    BY <1>6, <2>1, NameBefore DEF Below
<1>9. Last(path) = Last(raw)
  <2>1. raw[n] = path[Len(path)]
    BY <1>2, <1>5
  <2> QED
    BY <2>1 DEF Last, n
<1>10. p.slash <=> p.names = <<>> \/ Last(path) = ""
  BY NamesOf
<1>11. pr.names = <<>> => Last(raw) = ""
  BY <1>3, <1>7, NamelessEndsInSlash
<1>12. p \in [names : Seq(Proper), slash : BOOLEAN] /\ pr \in [names : Seq(Proper), slash : BOOLEAN]
  BY <1>3, SanitizedIsProper
<1>13. pr.names \in Seq(Segment) /\ p.slash \in BOOLEAN /\ (pr.names = <<>> => p.slash)
  BY <1>9, <1>10, <1>11, <1>12, ProperNames
<1> HIDE DEF p, pr
<1>14. SplitFirstDirectory(p) =
         [first |-> b, remaining |-> [names |-> pr.names, slash |-> p.slash]]
  <2> DEFINE names == pr.names
             slash == p.slash
  <2>1. names \in Seq(Segment) /\ slash \in BOOLEAN /\ (names = <<>> => slash)
    BY <1>13
  <2>2. p.names = Below(b, names) /\ p.slash = slash
    BY <1>8
  <2> HIDE DEF names, slash
  <2>3. SplitFirstDirectory(p) = [first |-> b, remaining |-> [names |-> names, slash |-> slash]]
    BY ONLY <1>4, <2>1, <2>2, SplitBelow
  <2> QED
    BY <2>3 DEF names, slash
<1>15. SplitFirstDirectory(p).first = b
  BY ONLY <1>14
<1> QED
  BY <1>15 DEF b, p

\* Of a well made path the server signs what its client has signed: the bucket is
\* taken off where the client takes it off, and nothing else is.
LEMMA SignedPathsAgree ==
    ASSUME NEW q \in Request, NEW strip \in BOOLEAN,
           \A i \in 1..Len(q.path) : q.path[i] \notin {".", ".."},
           \A i \in 1..(Len(q.path) - 1) : q.path[i] # ""
    PROVE  DetermineSignedPath(q, strip) = PathSigned(q, strip)
<1> DEFINE path == q.path
           n == Len(path)
           s == ParseSubdomain(q.domain)
           b == SplitFirstDirectory(SanitizeS3Filepath(path)).first
           t == Tail(path)
<1>1. path \in Seq(Segment) /\ path # <<>>
  BY RequestAssumption
<1>2. /\ DOMAIN path = 1..n /\ n \in Nat /\ n # 0 /\ 1 \in 1..n
      /\ t \in Seq(Segment) /\ Len(t) = n - 1
      /\ \A i \in 1..Len(t) : t[i] = path[i + 1] /\ i + 1 \in 1..n
      /\ n = 1 => path = <<path[1]>>
      /\ n # 1 => n > 1 /\ t # <<>> /\ 1 \in 1..(n - 1)
  BY ONLY <1>1, HeadAndTail
<1>3. /\ \A i \in 1..n : path[i] \notin {".", ".."}
      /\ \A i \in 1..(n - 1) : path[i] # ""
  OBVIOUS
<1>4. CASE ~(strip /\ AtBase(s))
  BY <1>4 DEF DetermineSignedPath, PathSigned, InPath
<1>5. CASE strip /\ AtBase(s)
  <2>1. FindBucketName(SanitizeS3Filepath(path), s) = b
    BY <1>5 DEF AtBase, FindBucketName, SubdomainIsBucket
  <2>2. DetermineSignedPath(q, strip) = StripBucket(path, b)
    BY <1>5, <2>1 DEF DetermineSignedPath
  <2>3. PathSigned(q, strip) = IF n > 1 THEN t ELSE path
    BY <1>5 DEF PathSigned, InPath
  <2> HIDE DEF path, n, s, t
  <2>4. CASE n = 1
    <3>1. b = NoName
      BY <1>1, <1>2, <1>3, <2>4, SingleNamesNoBucket DEF n
    <3>2. StripBucket(path, b) = OneSlash(path)
      BY <3>1 DEF StripBucket
    <3>3. OneSlash(path) = path
      <4>1. CASE path[1] = ""
        BY <1>1, <2>4, <4>1, OnlySlash DEF n
      <4>2. CASE path[1] # ""
        BY <1>1, <4>2, NoSlashesToDrop
      <4> QED
        BY <4>1, <4>2
    <3>4. ~(n > 1)
      BY ONLY <2>4
    <3> QED
      BY <2>2, <2>3, <3>2, <3>3, <3>4
  <2>5. CASE n # 1
    <3>1. n > 1 /\ t # <<>> /\ path[1] # ""
      BY <1>2, <1>3, <2>5
    <3>2. b = path[1]
      BY <1>1, <1>2, <1>3, <2>5, <3>1, FirstOfSeveral DEF n
    <3>3. OneSlash(path) = path
      BY <1>1, <3>1, NoSlashesToDrop
    <3>4. StripBucket(path, b) = OneSlash(t)
      BY <3>1, <3>2, <3>3 DEF StripBucket, n, t, NoName
    <3>5. OneSlash(t) = t
      <4>1. CASE t[1] = ""
        <5>1. 1 \in 1..Len(t)
          BY ONLY <1>2, <2>5
        <5>2. t[1] = path[1 + 1] /\ 1 + 1 \in 1..n
          BY <1>2, <5>1
        <5>3. 1 + 1 \notin 1..(n - 1)
          BY <1>3, <4>1, <5>2
        <5>4. Len(t) = 1
          BY ONLY <1>2, <2>5, <5>2, <5>3
        <5> QED
          BY <1>2, <3>1, <4>1, <5>4, OnlySlash
      <4>2. CASE t[1] # ""
        BY <1>2, <3>1, <4>2, NoSlashesToDrop
      <4> QED
        BY <4>1, <4>2
    <3> QED
      BY <2>2, <2>3, <3>1, <3>4, <3>5
  <2> QED
    BY <2>4, <2>5
<1> QED
  BY <1>4, <1>5

----------------------------------------------------------------------------
(* A well made request and its age. *)

\* What a proxy adds is seen by neither scheme.
LEMMA ProxyChangesNothing ==
    ASSUME ChainInv
    PROVE  /\ ExtractRequestDate(headers) = ExtractRequestDate(client.headers)
           /\ Header(headers, "x-amz-date") = Header(client.headers, "x-amz-date")
           /\ BuildStringToSign2(http, headers) = BuildStringToSign2(http, Arrived)
           /\ BuildCanonicalHeaders(headers, SignedHeaders(Arrived))
                 = BuildCanonicalHeaders(Arrived, SignedHeaders(Arrived))
           /\ Header(headers, "x-amz-content-sha256") = Header(Arrived, "x-amz-content-sha256")
<1>1. headers = Arrived \/ ("x-forwarded-for" \notin DOMAIN Arrived /\ headers = Proxied)
  BY DEF ChainInv
<1>2. ASSUME NEW name, name # "x-forwarded-for"
      PROVE  /\ name \in DOMAIN headers <=> name \in DOMAIN Arrived
             /\ name \in DOMAIN Arrived => headers[name] = Arrived[name]
  BY <1>1, <1>2 DEF Proxied, With
<1>3. ASSUME NEW name, name # "host"
      PROVE  /\ name \in DOMAIN Arrived <=> name \in DOMAIN client.headers
             /\ name \in DOMAIN client.headers => Arrived[name] = client.headers[name]
  BY <1>3 DEF Arrived, With
<1>4. ASSUME NEW name, name # "x-forwarded-for"
      PROVE  Header(headers, name) = Header(Arrived, name)
  BY <1>2, <1>4 DEF Header
<1>5. ASSUME NEW name, name # "host"
      PROVE  Header(Arrived, name) = Header(client.headers, name)
  BY <1>3, <1>5 DEF Header
<1>6. ExtractRequestDate(headers) = ExtractRequestDate(client.headers)
  <2>1. "date" # "x-forwarded-for" /\ "date" # "host"
    OBVIOUS
  <2>2. /\ "date" \in DOMAIN headers <=> "date" \in DOMAIN client.headers
        /\ "date" \in DOMAIN client.headers => headers["date"] = client.headers["date"]
    BY <1>2, <1>3, <2>1
  <2>3. Header(headers, "x-amz-date") = Header(client.headers, "x-amz-date")
    BY <1>4, <1>5
  <2> QED
    BY <2>2, <2>3 DEF ExtractRequestDate
<1>7. Header(headers, "x-amz-date") = Header(client.headers, "x-amz-date")
  BY <1>4, <1>5
<1>8. BuildStringToSign2(http, headers) = BuildStringToSign2(http, Arrived)
  <2>1. [n \in {"content-md5", "content-type", "date"} |-> Header(headers, n)]
           = [n \in {"content-md5", "content-type", "date"} |-> Header(Arrived, n)]
    <3>1. \A n \in {"content-md5", "content-type", "date"} : Header(headers, n) = Header(Arrived, n)
      BY <1>4
    <3> QED
      BY <3>1
  <2>2. Restrict(headers, DOMAIN headers \cap AmzHeaders)
           = Restrict(Arrived, DOMAIN Arrived \cap AmzHeaders)
    <3>1. \A n \in AmzHeaders : n # "x-forwarded-for"
      BY DEF AmzHeaders
    <3>2. DOMAIN headers \cap AmzHeaders = DOMAIN Arrived \cap AmzHeaders
      BY <1>2, <3>1
    <3>3. \A n \in DOMAIN Arrived \cap AmzHeaders : headers[n] = Arrived[n]
      BY <1>2, <3>1
    <3> QED
      BY <3>2, <3>3 DEF Restrict
  <2> QED
    BY <2>1, <2>2 DEF BuildStringToSign2
<1>9. BuildCanonicalHeaders(headers, SignedHeaders(Arrived))
         = BuildCanonicalHeaders(Arrived, SignedHeaders(Arrived))
  <2>1. CASE headers = Arrived
    BY <2>1
  <2>2. CASE "x-forwarded-for" \notin DOMAIN Arrived
    <3> DEFINE names == SignedHeaders(Arrived)
    <3>1. \A n \in names : n \in DOMAIN Arrived /\ n # "x-forwarded-for"
      BY <2>2 DEF SignedHeaders
    <3>2. DOMAIN headers \cap names = DOMAIN Arrived \cap names
      BY <1>2, <3>1
    <3>3. \A n \in DOMAIN Arrived \cap names : headers[n] = Arrived[n]
      BY <1>2, <3>1
    <3> HIDE DEF names
    <3>4. BuildCanonicalHeaders(headers, names) = BuildCanonicalHeaders(Arrived, names)
      BY <3>2, <3>3 DEF BuildCanonicalHeaders, Restrict
    <3> QED
      BY <3>4 DEF names
  <2> QED
    BY <1>1, <2>1, <2>2
<1>10. Header(headers, "x-amz-content-sha256") = Header(Arrived, "x-amz-content-sha256")
  BY <1>4
<1> QED
  BY <1>6, <1>7, <1>8, <1>9, <1>10

LEMMA BlanksTakenOut ==
    ASSUME NEW names, NEW signature, NEW blanks
    PROVE  NormalizeAuthorizationHeader(
              [scheme |-> V4, accessKey |-> AccessKey, scope |-> Scope, signedHeaders |-> names,
               blanks |-> blanks, signature |-> signature])
           = [scheme |-> V4, accessKey |-> AccessKey, scope |-> Scope, signedHeaders |-> names,
              blanks |-> FALSE, signature |-> signature]
<1> DEFINE no == FALSE
           Signed4(b) == [scheme |-> V4, accessKey |-> AccessKey, scope |-> Scope,
                        signedHeaders |-> names, blanks |-> b, signature |-> signature]
<1>1. NormalizeAuthorizationHeader(Signed4(blanks)) = [Signed4(blanks) EXCEPT !.blanks = no]
  BY DEF NormalizeAuthorizationHeader
<1>2. Signed4(no) = Signed4(FALSE)
  OBVIOUS
<1> HIDE DEF no
<1>3. [Signed4(blanks) EXCEPT !.blanks = no] = Signed4(no)
  OBVIOUS
<1> HIDE DEF Signed4
<1>4. NormalizeAuthorizationHeader(Signed4(blanks)) = Signed4(FALSE)
  BY <1>1, <1>2, <1>3
<1> QED
  BY <1>4 DEF Signed4

\* A well made request is given the verdict that a matching signature is given.
LEMMA WellMadeMatches ==
    ASSUME ChainInv, WellMade
    PROVE  Verdict = VerdictOn(headers, now, TRUE)
<1> DEFINE strip == options.stripBucketPathFromAuth
<1>1. client \in Arrival /\ http = client.http /\ auth = Authorization(client, Arrived)
  BY DEF ChainInv
<1>2. http \in Request /\ strip \in BOOLEAN
  BY <1>1, ArrivalAssumption DEF options
<1>3. V2 # V4
  BY DEF V2, V4
<1>4. CASE client.scheme = V2
  <2>1. auth = [scheme |-> V2, accessKey |-> AccessKey,
                signature |-> Sign(SecretKey, BuildStringToSign2(http, Arrived))]
    BY <1>1, <1>4, AuthorizationOf DEF WellMade
  <2>2. auth = BuildAuthorization2(BuildStringToSign2(http, headers))
    BY <2>1, ProxyChangesNothing DEF BuildAuthorization2
  <2>3. Matches2(http, headers, auth) = TRUE
    BY <2>2 DEF Matches2
  <2>4. auth.scheme = V2
    BY <2>1
  <2>5. Verdict = VerdictOn(headers, now, Matches2(http, headers, auth))
    BY <1>3, <2>4 DEF Verdict, StartsWith, V2, V4
  <2> QED
    BY <2>3, <2>5
<1>5. CASE client.scheme = V4
  <2> DEFINE path == PathSigned(http, strip)
             names == SignedHeaders(Arrived)
             canonical == BuildCanonicalRequest(http, path, Arrived, names)
             date == Header(headers, "x-amz-date")
             text == BuildStringToSign4(date, canonical, Scope)
             own(blanks) == [scheme |-> V4, accessKey |-> AccessKey, scope |-> Scope,
                             signedHeaders |-> names, blanks |-> blanks,
                             signature |-> Sign(SecretKey, text)]
  <2>1. SignedDate(Arrived) = date
    <3>1. "x-amz-date" \in DOMAIN client.headers
      BY <1>3, <1>5 DEF WellMade
    <3>2. "x-amz-date" \in DOMAIN Arrived /\ Arrived["x-amz-date"] = client.headers["x-amz-date"]
      BY <3>1 DEF Arrived, With
    <3> QED
      BY <3>1, <3>2, ProxyChangesNothing DEF SignedDate, Header
  <2>2. auth = own(client.blanks)
    <3>1. client.key = SecretKey /\ strip = client.options.stripBucketPathFromAuth
      BY DEF WellMade, options
    <3> QED
      BY <1>1, <1>5, <2>1, <3>1, AuthorizationOf
  <2>3. DetermineSignedPath(http, strip) = path
    <3>1. /\ \A i \in 1..Len(http.path) : http.path[i] \notin {".", ".."}
          /\ \A i \in 1..(Len(http.path) - 1) : http.path[i] # ""
      BY DEF WellMade
    <3> QED
      BY <1>2, <3>1, SignedPathsAgree
  <2>4. BuildCanonicalRequest(http, path, headers, names) = canonical
    BY ProxyChangesNothing DEF BuildCanonicalRequest
  <2>5. BuildAuthorization4(http, path, headers, auth) = own(FALSE)
    <3>1. auth.accessKey = AccessKey /\ auth.scope = Scope /\ auth.signedHeaders = names
      BY <2>2
    <3> HIDE DEF path, names, canonical, date
    <3> QED
      BY <2>4, <3>1 DEF BuildAuthorization4, ParseAuthorization, date
  <2>6. NormalizeAuthorizationHeader(auth) = own(FALSE)
    <3> DEFINE signature == Sign(SecretKey, text)
    <3> HIDE DEF names, signature
    <3> QED
      BY <2>2, BlanksTakenOut
  <2>7. Matches4(http, headers, auth, strip) = TRUE
    BY <2>3, <2>5, <2>6 DEF Matches4
  <2>8. auth.scheme = V4
    BY <2>2
  <2>9. Verdict = VerdictOn(headers, now, Matches4(http, headers, auth, strip))
    BY <2>8 DEF Verdict, StartsWith, V4
  <2> QED
    BY <2>7, <2>9
<1> QED
  BY <1>4, <1>5 DEF WellMade

\* Nothing but its age on arrival speaks against a well made request: neither
\* the scheme nor the style of address, neither what a proxy adds nor the blanks
\* in its header, for paths and headers of any length.
THEOREM WellMadeAreJudgedByTheirAge == ChainSpec => []WellMadeIsJudgedByItsAge
<1>1. ChainInv => WellMadeIsJudgedByItsAge
  <2> DEFINE date == ExtractRequestDate(client.headers)
             age == now - date
  <2> SUFFICES ASSUME ChainInv, options.authEnabled, WellMade,
                      date \notin {Absent, Unreadable}, stage # "sent"
               PROVE  IF age \in (-MaxSkew)..MaxSkew
                      THEN stage # "refused"
                      ELSE Exempt(http) \/ (stage = "refused" /\ target.op = "RequestTimeTooSkewed")
    BY DEF WellMadeIsJudgedByItsAge
  <2>1. date \in Int /\ now \in Int /\ MaxSkew \in Nat
    <3>1. client.now \in Int /\ MaxNow \in Int /\ now \in client.now..MaxNow
      BY ArrivalAssumption DEF ChainInv
    <3> QED
      BY <3>1, ArrivalAssumption, SkewAssumption DEF ChainInv
  <2>2. ExtractRequestDate(headers) = date
    BY ProxyChangesNothing
  <2>3. TooSkewed(date, now) <=> age \notin (-MaxSkew)..MaxSkew
    <3> HIDE DEF date
    <3>1. TooSkewed(date, now) <=> now - date > MaxSkew \/ date - now > MaxSkew
      BY DEF TooSkewed
    <3> QED
      BY <2>1, <3>1
  <2>4. Verdict = IF TooSkewed(date, now) THEN "RequestTimeTooSkewed" ELSE "ok"
    BY <2>2, WellMadeMatches DEF VerdictOn
  <2> HIDE DEF date, age
  <2>5. CASE stage = "refused"
    BY <2>3, <2>4, <2>5 DEF ChainInv
  <2>6. CASE stage # "refused"
    BY <2>3, <2>4, <2>6 DEF ChainInv, Admitted
  <2> QED
    BY <2>5, <2>6
<1> QED
  BY <1>1, ChainInductive, PTL
=============================================================================
