------------------------------ MODULE MCJsonSessions ------------------------------
(* Two accounts that log in over a limit of two sessions, two requests in flight. *)
EXTENDS JsonSessions, TLC
CONSTANTS u1, u2, s1, s2, s3, t1, t2, t3, t4, r1, r2
ModelUsers == {u1, u2}
ModelIds == {s1, s2, s3}
ModelTokens == {t1, t2, t3, t4}
ModelRequests == {r1, r2}
Symmetric == Permutations(ModelUsers) \union Permutations(ModelIds)
               \union Permutations(ModelTokens) \union Permutations(ModelRequests)
===============================================================================
