--------------------------- MODULE MCSshFailures ---------------------------
(* Small instances of SshFailures for TLC. *)
EXTENDS SshFailures
============================================================================
