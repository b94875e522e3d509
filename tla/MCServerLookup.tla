---------------------------- MODULE MCServerLookup ----------------------------
(* Server-session lookups with constants for TLC.  The run checks a liveness *)
(* property, so it takes no symmetry.                                       *)
EXTENDS ServerLookup
================================================================================
