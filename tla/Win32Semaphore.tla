---------------------------- MODULE Win32Semaphore ---------------------------
(***************************************************************************)
(* struct Semaphore as built on Windows (src/src/shared_memory/            *)
(* semaphore.hpp): a named kernel object of count at most 1, which lives   *)
(* as long as a process has a handle of it.                                *)
(***************************************************************************)
EXTENDS Naturals

CONSTANT Users  \* processes

VARIABLES
  count,  \* of the kernel object
  place   \* where each process is

win32SemVars == <<count, place>>

Handles == {p \in Users : place[p] # "absent"}
Inside == {p \in Users : place[p] = "inside"}
Move(p, to) == place' = [place EXCEPT ![p] = to]

Win32SemInit == count = 0 /\ place = [p \in Users |-> "absent"]

\* Faulty variant: the count is set, as it is on Linux.
CreateAndSet(p) ==
  /\ place[p] = "absent"
  /\ count' = 1
  /\ Move(p, "idle")

\* CreateSemaphore: the count is that of the object when there is one.
CreateSemaphore(p) ==
  /\ place[p] = "absent"
  /\ count' = IF Handles = {} THEN 1 ELSE count
  /\ Move(p, "idle")

\* WaitForSingleObject: WAIT_OBJECT_0.
LockSucceeds(p) ==
  /\ place[p] \in {"idle", "waiting"} /\ count > 0
  /\ count' = count - 1
  /\ Move(p, "inside")

\* lock(true); lock(false) changes nothing and says -1.
LockWaits(p) ==
  /\ place[p] = "idle" /\ count = 0
  /\ Move(p, "waiting") /\ UNCHANGED count

\* ReleaseSemaphore fails above the maximum.
Unlock(p) ==
  /\ place[p] = "inside"
  /\ count' = IF count < 1 THEN count + 1 ELSE count
  /\ Move(p, "idle")

\* ~Semaphore, or the end of the process: the handle is closed and nothing given back.
CloseHandle(p) ==
  /\ place[p] # "absent"
  /\ Move(p, "absent")
  /\ UNCHANGED count

Win32SemNext ==
  \E p \in Users :
    CreateSemaphore(p) \/ LockSucceeds(p) \/ LockWaits(p) \/ Unlock(p) \/ CloseHandle(p)

\* lock and unlock give the critical region to one process at a time, whoever starts,
\* ends or dies, with no exception (semaphore.hpp:23-71).
Region == INSTANCE CriticalRegion WITH inside <- Inside, spoiled <- FALSE, Procs <- Users
Win32ImplementsRegion == Region!RegionSpec
=============================================================================
