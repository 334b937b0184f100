------------------------------ MODULE MCListing ------------------------------
(***************************************************************************)
(* Instances of Listing: up to four entries in the directory; prefixes of  *)
(* no, one and two names, with and without a last slash, and one with two  *)
(* slashes in a row; a default for max-keys the directory can exceed.      *)
(***************************************************************************)
EXTENDS Listing

MCName == {"alpha", "beta", "gamma", "a"}

MCBegins == {<<"", n>> : n \in MCName} \cup {<<n, n>> : n \in MCName} \cup {<<"a", "alpha">>}

MCPrefix == {<<"">>, <<"a">>, <<"beta">>, <<"a", "">>, <<"beta", "a">>, <<"", "a">>,
             <<"beta", "", "a">>}

MCMaxKeys == -1..3
=============================================================================
