---------------------------- MODULE MCCallerLookup ----------------------------
(* Caller-session lookups with constants for TLC.                           *)
EXTENDS CallerLookup, TLC

Symmetry == Permutations(Requests) \cup Permutations(Sessions)
================================================================================
