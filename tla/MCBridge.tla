------------------------------ MODULE MCBridge ------------------------------
(***************************************************************************)
(* Instances of Bridge for TLC: one bucket b under the Base, holding an    *)
(* object path k and a directory path d with a path x below it.            *)
(***************************************************************************)
EXTENDS BridgeFacts, TLC

MCBase == "base"
MCPath == {"base", "b", "k", "d", "x"}
MCDirname == [p \in MCPath |->
                 CASE p \in {"base", "b"} -> "base"
                   [] p \in {"k", "d"} -> "b"
                   [] p = "x" -> "d"]
MCAbove == [p \in MCPath |->
                 CASE p = "base" -> {"base"}
                   [] p = "b" -> {"base", "b"}
                   [] p \in {"k", "d"} -> {"base", "b", p}
                   [] p = "x" -> {"base", "b", "d", "x"}]

Ask(op, path) == [op |-> op, path |-> path, src |-> MCBase]
Copy(src, path) == [op |-> "copyObject", path |-> path, src |-> src]

BucketMenu == {Ask("listBuckets", "base")} \cup {Ask(op, "b") : op \in BucketOps}

ObjectMenu ==
    {Ask(op, "k") : op \in {"addObject", "getObject", "deleteObject", "getAcl", "putAcl"}}
    \cup {Ask(op, "d") : op \in {"createDirectory", "getObject", "deleteObject"}}
    \cup {Ask("addObject", "x"), Ask("listObjects", "b"), Ask("listObjects", "d"),
          Ask("listMultipartUploads", "b"), Copy("k", "x"), Copy("d", "k")}

AllMenu == BucketMenu \cup ObjectMenu

\* Readers and writers of one object and its bucket.
StoreMenu == {Ask("addBucket", "b"), Ask("removeBucket", "b"),
              Ask("addObject", "x"), Ask("getObject", "x"), Ask("deleteObject", "x")}

RaceMenu == {Ask("removeBucket", "b"), Ask("addObject", "k")}
AddMenu  == {Ask("addBucket", "b")}
CopyMenu == {Copy("k", "x")}

Symmetry == Permutations(Req)
=============================================================================
