--------------------------- MODULE CriticalRegion ----------------------------
(* What lock and unlock of struct Semaphore promise together (src/src/      *)
(* shared_memory/semaphore.hpp, the comment over lock): a process that is   *)
(* told 0 has the critical region to itself until it leaves.                *)
CONSTANT Procs
VARIABLES
  inside,   \* processes in the critical region
  spoiled   \* nothing is promised any more

RegionInit == inside = {} /\ ~spoiled
Enter(p) == inside = {} /\ inside' = {p} /\ UNCHANGED spoiled
LeaveRegion(p) == p \in inside /\ inside' = inside \ {p} /\ UNCHANGED spoiled

RegionNext == \E p \in Procs : Enter(p) \/ LeaveRegion(p)
RegionSpec == RegionInit /\ [][RegionNext \/ spoiled']_<<inside, spoiled>>
=============================================================================
