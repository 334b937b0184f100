------------------------------ MODULE MCRouting ------------------------------
(***************************************************************************)
(* Instances of Routing: the hosts parseSubdomain tells apart and all raw  *)
(* paths of at most three segments over two names and a double dot, one    *)
(* segment more than the longest that is accepted.                         *)
(***************************************************************************)
EXTENDS Routing

MCDomain == {<<"s3", "joyent", "com">>, <<"bk", "joyent", "com">>,
             <<"joyent", "com">>, <<"a", "joyent", "com">>, <<"bk", "localhost">>,
             <<"localhost">>, <<"", "com">>}

MCShort == {"a"}

MCPaths(n) == UNION {[1..k -> {"", ".", "..", "bk", "obj"}] : k \in 1..n}

MCRequest ==
    [method : {"HEAD", "GET", "PUT", "POST", "DELETE"}, domain : MCDomain,
     path : MCPaths(3), params : {{}, {"acl"}, {"uploads"}}, copy : {FALSE}]
    \cup
    [method : {"PUT"}, domain : MCDomain, path : MCPaths(3), params : {{}}, copy : {TRUE}]
=============================================================================
