-------------------------- MODULE MCConnectionPool --------------------------
(* Instances of ConnectionPool for TLC.                                    *)
EXTENDS ConnectionPool, TLC

\* The threads are interchangeable (safety runs only).
ThreadSymmetry == Permutations(Threads)
=============================================================================
