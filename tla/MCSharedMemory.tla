--------------------------- MODULE MCSharedMemory ----------------------------
(* Instance of SharedMemory for TLC.                                       *)
EXTENDS SharedMemory

CONSTANTS p1, p2

\* Messages of different lengths, of which the longer does not begin with the
\* shorter.
Texts == {<<1>>, <<2, 2>>}

\* Up to the first thing that spoils the critical region: nothing is promised
\* behind it.
UntilSpoiled == spoiled = {}

\* The fairness of Semaphore, for processes that write in the critical region.
RunSpec ==
  /\ MemInit /\ [][MemNext /\ UntilSpoiled]_allVars
  /\ \A p \in Procs :
       /\ SF_allVars(pc[p] = "waiting" /\ Acquire(p) /\ UNCHANGED memVars)
       /\ WF_allVars(LockFails(p) /\ UNCHANGED memVars)
       /\ SF_allVars(Quiet(p) /\ Unlock(p) /\ UNCHANGED memVars)
       /\ WF_allVars(WriteFlag(p) \/ WriteBytes(p))
=============================================================================
