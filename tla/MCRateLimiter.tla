--------------------------- MODULE MCRateLimiter ---------------------------
(***************************************************************************)
(* A small instance of RateLimiter for TLC.  TTL is as short as the        *)
(* assumption allows: a bucket is full again just when it may be dropped.  *)
(***************************************************************************)
EXTENDS RateLimiter, TLC

Symmetry == Permutations(Clients) \cup Permutations(Handlers) \cup Permutations(Buckets)
=============================================================================
