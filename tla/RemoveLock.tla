------------------------------ MODULE RemoveLock ------------------------------
(***************************************************************************)
(* The kernel's IO_REMOVE_LOCK, as the drivers use it: a count of those    *)
(* who hold it, the driver itself included, and a mark that the driver is  *)
(* removing the device.  Nobody here looks at what Acquire returns.        *)
(***************************************************************************)
EXTENDS Naturals

VARIABLES count, removed

\* IoInitializeRemoveLock.
Initialize == count' = 1 /\ removed' = FALSE

\* IoAcquireRemoveLock.  On a removed lock it fails and counts nothing.
Acquire ==
    /\ count' = IF removed THEN count ELSE count + 1
    /\ UNCHANGED removed

\* IoReleaseRemoveLock.
Release == count' = count - 1 /\ UNCHANGED removed

\* IoReleaseRemoveLockAndWait gives back the count it was handed and the one
\* the lock was initialised with,
BeginRemoval == removed' = TRUE /\ count' = count - 2

\* and waits until nobody holds the lock.
Drained == count = 0
=============================================================================
