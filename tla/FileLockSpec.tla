---------------------------- MODULE FileLockSpec ----------------------------
(***************************************************************************)
(* What file locking promises (spec 4.4): an exclusive lock keyed by a     *)
(* path.  LockFile succeeds when nobody holds the lock and fails when      *)
(* another holder does; UnlockFile releases a lock LockFile returned.  A   *)
(* LockFile call always returns, one way or the other.                     *)
(***************************************************************************)
CONSTANTS Callers, NoOwner

VARIABLES
    holder,     \* who holds the lock, or NoOwner
    st          \* st[c]: "idle", "calling" (inside LockFile) or "holding"

avars == <<holder, st>>

Init ==
    /\ holder = NoOwner
    /\ st = [c \in Callers |-> "idle"]

Call(c) ==
    /\ st[c] = "idle"
    /\ st' = [st EXCEPT ![c] = "calling"]
    /\ UNCHANGED holder

LockOk(c) ==
    /\ st[c] = "calling"
    /\ holder = NoOwner
    /\ holder' = c
    /\ st' = [st EXCEPT ![c] = "holding"]

LockFail(c) ==
    /\ st[c] = "calling"
    /\ holder # NoOwner
    /\ st' = [st EXCEPT ![c] = "idle"]
    /\ UNCHANGED holder

\* A failing lock system call is surfaced as an I/O error (spec 7); the
\* lock is left as it was.
LockIoError(c) ==
    /\ st[c] = "calling"
    /\ st' = [st EXCEPT ![c] = "idle"]
    /\ UNCHANGED holder

Unlock(c) ==
    /\ st[c] = "holding"
    /\ holder' = NoOwner
    /\ st' = [st EXCEPT ![c] = "idle"]

Next == \E c \in Callers : Call(c) \/ LockOk(c) \/ LockFail(c) \/ LockIoError(c) \/ Unlock(c)

SafeSpec == Init /\ [][Next]_avars

\* LockFile returns: whenever a caller is inside it, it eventually leaves
\* with the lock or with an error.
Spec == SafeSpec /\ \A c \in Callers : WF_avars(LockOk(c) \/ LockFail(c))
=============================================================================
