------------------------------- MODULE MCUrl -------------------------------
(* Url on all queries and paths of a few characters.                          *)
EXTENDS Url

UpTo(n, S) == UNION {[1 .. m -> S] : m \in 0 .. n}

MCQueryTexts == UpTo(4, {"x", "&", "=", "%26", "%3d"})
MCPathTexts == {<<"/">>, <<"/", "x">>, <<"/", "%2f", "=">>, <<"/", "%26">>}
MCQueries ==
  UNION {[keys -> UpTo(1, {"x", "&", "="})] :
           keys \in {K \in SUBSET UpTo(1, {"x", "&", "="}) : Cardinality(K) <= 2}}
MCPaths == {<<>>, <<"/", "x">>, <<"/", "&", "/">>}
=============================================================================
