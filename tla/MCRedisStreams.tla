--------------------------- MODULE MCRedisStreams ---------------------------
(* Instances of RedisStreams for TLC. *)
EXTENDS RedisStreams, TLC

\* Decodable payloads are interchangeable, and so are background tasks.
Symmetry == Permutations(Payloads \ Undecodable) \cup Permutations(Workers)

=============================================================================
