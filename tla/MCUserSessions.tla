--------------------------- MODULE MCUserSessions ---------------------------
(* Instances of UserSessions for TLC.                                      *)
EXTENDS UserSessions, TLC

\* Threads, mobile numbers, hashes and tokens are interchangeable.
Symmetry == Permutations(Procs) \cup Permutations(Mobiles) \cup Permutations(Hashes)
            \cup Permutations(Tokens)
=============================================================================
