------------------------------ MODULE MCServer ------------------------------
(***************************************************************************)
(* Instances of Server: one bucket b with room for one object k, which is  *)
(* written, deleted, copied onto itself or removed with its bucket.        *)
(***************************************************************************)
EXTENDS Server

MCBase == "base"
MCPath == {"base", "b", "k"}
MCDirname == [p \in MCPath |-> IF p = "k" THEN "b" ELSE "base"]
MCAbove == [p \in MCPath |-> CASE p = "base" -> {"base"}
                               [] p = "b" -> {"base", "b"}
                               [] p = "k" -> {"base", "b", "k"}]

Ask(op, path, src) == [op |-> op, path |-> path, src |-> src]

ServerMenu == {Ask("addObject", "k", MCBase), Ask("deleteObject", "k", MCBase),
               Ask("removeBucket", "b", MCBase),
               Ask("copyObject", "k", "k")}
=============================================================================
