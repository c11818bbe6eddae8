--------------------------- MODULE MCCacheableDao ---------------------------
(* Model checking of CacheableDao: requests are interchangeable.           *)
EXTENDS CacheableDao, TLC

Symmetry == Permutations(Request)
=============================================================================
