------------------------------ MODULE MCService ------------------------------
(* Instances of Service for TLC. *)
EXTENDS Service, TLC

\* Jobs and workers are interchangeable: safety runs only.
Interchangeable == Permutations(Jobs) \cup Permutations(Workers)

\* The process dies, the store refuses writes, a shutdown runs out of time.
CrashRefuseAndHurry == {"crash", "store", "hurry"}

\* The process dies or is stopped, and git keeps checkouts it should remove.
CrashStopAndKeep == {"crash", "shutdown", "cleanup"}

CrashAndStore == {"crash", "store"}
CrashOnly     == {"crash"}
StopOnly      == {"shutdown"}
=============================================================================
