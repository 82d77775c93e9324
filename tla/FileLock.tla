------------------------------ MODULE FileLock ------------------------------
(***************************************************************************)
(* PosixEnv::LockFile and UnlockFile (part_000:998-1035) over a boost      *)
(* interprocess file_lock, which on Windows is LockFileEx on a handle of   *)
(* its own.  Callers are the holders of distinct FileLock objects: DB      *)
(* instances of this or another process opening the same directory.       *)
(*                                                                         *)
(* LockFile creates the file if it is absent, opens a file_lock on it,     *)
(* moves it into a new BoostFileLock and calls fl_.lock(), which blocks    *)
(* until the OS lock is free.  UnlockFile calls fl_.unlock() and deletes   *)
(* the object, closing the handle.                                         *)
(***************************************************************************)
EXTENDS Naturals

CONSTANTS
    Callers,
    NoOwner,
    MaxCalls    \* bound on the LockFile calls of each caller

VARIABLES
    lockExists, \* the LOCK file exists
    owner,      \* the caller whose handle holds the OS lock, or NoOwner
    pc,         \* "idle", "lock" (blocked in fl_.lock()) or "holding"
    calls,      \* LockFile calls made by each caller
    leaked      \* BoostFileLock objects left behind by a throwing lock()

vars == <<lockExists, owner, pc, calls, leaked>>

Init ==
    /\ lockExists \in BOOLEAN
    /\ owner = NoOwner
    /\ pc = [c \in Callers |-> "idle"]
    /\ calls = [c \in Callers |-> 0]
    /\ leaked = 0

(* LockFile up to fl_.lock(): *lock = NULL; create the file with an        *)
(* ofstream if it does not exist (two callers may both create it, which    *)
(* truncates an empty file); construct the file_lock and the BoostFileLock.*)
LockFileOpen(c) ==
    /\ pc[c] = "idle"
    /\ calls[c] < MaxCalls
    /\ lockExists' = TRUE
    /\ pc' = [pc EXCEPT ![c] = "lock"]
    /\ calls' = [calls EXCEPT ![c] = @ + 1]
    /\ UNCHANGED <<owner, leaked>>

(* fl_.lock() returns once no other handle holds the lock; *lock =        *)
(* my_lock and LockFile returns OK.                                        *)
LockFileAcquire(c) ==
    /\ pc[c] = "lock"
    /\ owner = NoOwner
    /\ owner' = c
    /\ pc' = [pc EXCEPT ![c] = "holding"]
    /\ UNCHANGED <<lockExists, calls, leaked>>

(* fl_.lock() throws (LockFileEx fails): the catch returns IOError with    *)
(* *lock still NULL; my_lock, allocated before lock(), is never deleted.   *)
LockFileThrow(c) ==
    /\ pc[c] = "lock"
    /\ pc' = [pc EXCEPT ![c] = "idle"]
    /\ leaked' = leaked + 1
    /\ UNCHANGED <<lockExists, owner, calls>>

(* UnlockFile: fl_.unlock(), then delete my_lock.                          *)
UnlockFile(c) ==
    /\ pc[c] = "holding"
    /\ owner' = NoOwner
    /\ pc' = [pc EXCEPT ![c] = "idle"]
    /\ UNCHANGED <<lockExists, calls, leaked>>

\* Every caller has made its calls and released its lock.
Finished ==
    /\ \A c \in Callers : pc[c] = "idle" /\ calls[c] = MaxCalls
    /\ UNCHANGED vars

Next ==
    \/ \E c \in Callers : LockFileOpen(c) \/ LockFileAcquire(c) \/ LockFileThrow(c)
                          \/ UnlockFile(c)
    \/ Finished

(* Callers decide when to lock and unlock; only the return from a lock()   *)
(* that can proceed is owed to them by the OS.                             *)
Spec == Init /\ [][Next]_vars /\ \A c \in Callers : WF_vars(LockFileAcquire(c))

Abs == INSTANCE FileLockSpec WITH
    holder <- owner,
    st <- [c \in Callers |-> IF pc[c] = "lock" THEN "calling" ELSE pc[c]]

(* LockFile always returns (spec 4.4: it fails if another holder has the  *)
(* lock); fl_.lock() instead blocks for as long as the holder keeps it.    *)
FileLockContract == Abs!Spec
=============================================================================
