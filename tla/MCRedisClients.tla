--------------------------- MODULE MCRedisClients ---------------------------
(* An instance of RedisClients for TLC. *)
EXTENDS RedisClients, TLC

MCBytes == {"#", "|", "1"}

\* A payload that looks like the end of a key's own part.
MCPayloads == {<<"#", "1", "|">>}

\* Left by a version without counts: one of them has a '#'.
MCOldPayloads == {<<"|">>, <<"#">>}

\* Processes differ only in what they have built.
ProcessSymmetry == Permutations(Processes)

=============================================================================
