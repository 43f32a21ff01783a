--------------------------- MODULE MCCacheManager ---------------------------
(* Keys of up to two blocks: one that extends another, and a sibling.      *)
EXTENDS CacheManager
CONSTANTS a, b
MCBlock == {a, b}
MCKey == {<<>>, <<a>>, <<a, a>>, <<a, b>>}
MCSymmetry == Permutations(Req)
=============================================================================
