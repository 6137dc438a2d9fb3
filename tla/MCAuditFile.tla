---------------------------- MODULE MCAuditFile -----------------------------
(* Small instances of AuditFile for TLC.                                   *)
EXTENDS AuditFile
=============================================================================
