------------------------------ MODULE MCContent ------------------------------
(***************************************************************************)
(* A site of two posts and three addresses: enough for a renamed post, two *)
(* posts that swap their slugs and a slug taken over by another post.      *)
(***************************************************************************)
EXTENDS SiteContent, TLC

CONSTANTS u1, u2, u3

MCRedirect == [u \in Urls |-> IF u = u3 THEN u1 ELSE u]
MCOutbound == {{}, {u2, u3}}
MCTracked == {<<1, 2>>}
Symmetry == Permutations(Callers) \cup Permutations(Posts)
==============================================================================
