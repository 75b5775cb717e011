---------------------------- MODULE MCRateLimiter ----------------------------
(* Instances of RateLimiter for TLC. *)
EXTENDS RateLimiter, TLC

\* Clients differ in their names only.
ClientsAreAlike == Permutations(Clients)
=============================================================================
