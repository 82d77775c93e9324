----------------------------- MODULE MCFileLock -----------------------------
(* Three callers, two LockFile calls each, on a LOCK file that may or may  *)
(* not exist yet.                                                          *)
EXTENDS FileLock

CONSTANTS c1, c2, c3
=============================================================================
