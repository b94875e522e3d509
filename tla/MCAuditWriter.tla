---------------------------- MODULE MCAuditWriter ----------------------------
(* The audit writer with constants for TLC.                                 *)
EXTENDS AuditWriter
================================================================================
