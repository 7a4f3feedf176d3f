--------------------------- MODULE MCRedisFallback ---------------------------
(* Instances of RedisFallback for TLC. *)
EXTENDS RedisFallback

Symmetry == Permutations(Payloads \ Malformed) \cup Permutations(Workers)

=============================================================================
