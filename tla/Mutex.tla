------------------------------- MODULE Mutex -------------------------------
(***************************************************************************)
(* CCMutex, a heap-allocated default pthread mutex: the operations that    *)
(* posix_mutex_bkend.c implements and mutex.c forwards to.  The module has *)
(* no specification of its own; clients compose its operations.            *)
(***************************************************************************)
CONSTANT Nobody

VARIABLE holder    \* the thread that locked the mutex, Nobody, or Freed

Freed == "freed"

MutexInit == holder = Nobody

LockMutexBusy(t) == holder' = t

\* pthread_mutex_lock blocks while the mutex is locked, by the caller as well:
\* a default mutex is not recursive.
LockMutex(t) == holder = Nobody /\ holder' = t

UnlockMutexForgotten == holder' = holder

\* pthread_mutex_unlock opens the mutex whoever locked it: a default mutex
\* does not check its owner.
UnlockMutex == holder' = Nobody

\* `== EBUSY' for `!= EBUSY'.
TryLockMutexInverted(t, acquired) ==
    /\ acquired = (holder # Nobody)
    /\ holder' = IF holder = Nobody THEN t ELSE holder

\* pthread_mutex_trylock: EBUSY when locked; `acquired' is `!= EBUSY', what
\* CCCoreBasicMutexIMPL_trylockMutex returns.
TryLockMutex(t, acquired) ==
    /\ acquired = (holder = Nobody)
    /\ holder' = IF acquired THEN t ELSE holder

\* pthread_mutex_destroy wants an open mutex; then both structs are freed.
FreeMutex == holder = Nobody /\ holder' = Freed
=============================================================================
