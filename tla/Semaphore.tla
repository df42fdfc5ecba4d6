------------------------------ MODULE Semaphore ------------------------------
(***************************************************************************)
(* struct Semaphore as built on Linux (src/src/shared_memory/              *)
(* semaphore.hpp): any number of processes share the System V semaphore    *)
(* set of one key.  Each process that starts sets the value to 1 and each  *)
(* that ends removes the set, whoever is using it; a process may die       *)
(* anywhere, and the kernel then undoes what it did with SEM_UNDO.         *)
(*                                                                         *)
(* spoiled is history: the ways in which the critical region stopped being *)
(* one process's.                                                          *)
(***************************************************************************)
EXTENDS Integers

CONSTANTS
  Procs,    \* processes
  MaxSets,  \* bound: sets created over time
  MaxValue  \* bound: value of a semaphore, and undo entries

ASSUME SemaphoreAssumption == MaxSets \in Nat \ {0} /\ MaxValue \in Nat \ {0}

VARIABLES
  current,  \* kernel: the set that has the key now, or 0
  created,  \* kernel: sets created so far; they are numbered
  value,    \* kernel: value of the current set
  undo,     \* kernel: what the death of a process adds to it
  ready,    \* the current set has been given a value
  pc,       \* where each process is
  id,       \* the set each process has opened, or 0
  holding,  \* who took the current set's unit and has not given it back
  spoiled

kernelVars == <<current, created, value, undo, ready>>
semVars == <<kernelVars, pc, id, holding, spoiled>>

Places == {"absent",    \* not running
          "opened",    \* in the constructor, between semget and semctl
          "idle",      \* constructed, not in the critical region
          "waiting",   \* in a blocking semop
          "inside"}    \* lock said 0
Ways == {"reset", "removed", "invalid", "undone"}

Valid(p) == id[p] # 0 /\ id[p] = current
GoTo(p, place) == pc' = [pc EXCEPT ![p] = place]
Spoil(way, bad) == spoiled' = IF bad THEN spoiled \cup {way} ELSE spoiled

-----------------------------------------------------------------------------
(* Constructor.                                                            *)

\* semget with IPC_CREAT: the set of the key, or a new one, whose value is 0.
SemGet(p) ==
  /\ pc[p] = "absent"
  /\ IF current # 0
     THEN id' = [id EXCEPT ![p] = current] /\ UNCHANGED kernelVars
     ELSE /\ created < MaxSets
          /\ created' = created + 1 /\ current' = created + 1
          /\ id' = [id EXCEPT ![p] = created + 1]
          /\ value' = 0 /\ undo' = [q \in Procs |-> 0] /\ ready' = FALSE
  /\ GoTo(p, "opened")
  /\ UNCHANGED <<holding, spoiled>>

\* semget fails: the constructor returns.
SemGetFails(p) ==
  /\ pc[p] = "absent"
  /\ id' = [id EXCEPT ![p] = 0]
  /\ GoTo(p, "idle")
  /\ UNCHANGED <<kernelVars, holding, spoiled>>

\* SETVAL clears what is to be undone, of every process, and wakes them.
SetValue(p) ==
  /\ value' = 1 /\ undo' = [q \in Procs |-> 0] /\ ready' = TRUE
  /\ Spoil("reset", holding # {})
  /\ UNCHANGED <<current, created>>

\* The set may have been removed in between.
SemCtl(p) ==
  /\ pc[p] = "opened"
  /\ IF Valid(p) THEN SetValue(p) ELSE UNCHANGED <<kernelVars, spoiled>>
  /\ GoTo(p, "idle")
  /\ UNCHANGED <<id, holding>>

-----------------------------------------------------------------------------
(* lock and unlock.                                                        *)

\* Faulty variant: a semop that does not wait, taken for a success.
AcquireAnyway(p) ==
  /\ pc[p] \in {"idle", "waiting"}
  /\ Valid(p) /\ undo[p] < MaxValue
  /\ value' = value - 1
  /\ undo' = [undo EXCEPT ![p] = @ + 1]
  /\ holding' = holding \cup {p}
  /\ GoTo(p, "inside")
  /\ UNCHANGED <<current, created, ready, id, spoiled>>

\* Faulty variant: without SEM_UNDO.
AcquireForGood(p) ==
  /\ pc[p] \in {"idle", "waiting"}
  /\ Valid(p) /\ value > 0
  /\ value' = value - 1
  /\ holding' = holding \cup {p}
  /\ \E place \in {"inside", "idle"} : GoTo(p, place)
  /\ UNCHANGED <<current, created, undo, ready, id, spoiled>>

\* lock does not return a value when semop has succeeded: the caller finds 0,
\* or whatever else is there, and then stays outside with the semaphore.
Acquire(p) ==
  /\ pc[p] \in {"idle", "waiting"}
  /\ Valid(p) /\ value > 0 /\ undo[p] < MaxValue
  /\ value' = value - 1
  /\ undo' = [undo EXCEPT ![p] = @ + 1]
  /\ holding' = holding \cup {p}
  /\ \E place \in {"inside", "idle"} : GoTo(p, place)
  /\ UNCHANGED <<current, created, ready, id, spoiled>>

\* lock(true) on a locked semaphore.  lock(false) changes nothing and says -1.
Block(p) ==
  /\ pc[p] = "idle" /\ Valid(p) /\ value = 0
  /\ GoTo(p, "waiting")
  /\ UNCHANGED <<kernelVars, id, holding, spoiled>>

\* EINVAL, or EIDRM when the set is removed while the process waits: -1.
LockFails(p) ==
  /\ pc[p] = "waiting" /\ ~Valid(p)
  /\ GoTo(p, "idle")
  /\ UNCHANGED <<kernelVars, id, holding, spoiled>>

\* lock(false) on a set that does not exist says 0.
LockInvalid(p) ==
  /\ pc[p] = "idle" /\ ~Valid(p)
  /\ GoTo(p, "inside")
  /\ Spoil("invalid", TRUE)
  /\ UNCHANGED <<kernelVars, id, holding>>

\* Faulty variant: leaves the region and gives nothing back.
UnlockNothing(p) ==
  /\ pc[p] = "inside"
  /\ GoTo(p, "idle")
  /\ holding' = holding \ {p}
  /\ UNCHANGED <<kernelVars, id, spoiled>>

\* sem_flg is not initialized: SEM_UNDO is in it or not.
Unlock(p) ==
  /\ pc[p] = "inside"
  /\ IF Valid(p)
     THEN /\ value < MaxValue
          /\ value' = value + 1
          /\ undo[p] > -MaxValue
          /\ undo' \in {undo, [undo EXCEPT ![p] = @ - 1]}
          /\ holding' = holding \ {p}
          /\ UNCHANGED <<current, created, ready>>
     ELSE UNCHANGED <<kernelVars, holding>>
  /\ GoTo(p, "idle")
  /\ UNCHANGED <<id, spoiled>>

-----------------------------------------------------------------------------
(* The end of a process.                                                   *)

\* The destructor removes the set and all that it holds, whoever holds it.
Destroy(p) ==
  /\ pc[p] \in {"idle", "inside"}
  /\ IF Valid(p)
     THEN /\ current' = 0 /\ value' = 0 /\ undo' = [q \in Procs |-> 0] /\ ready' = FALSE
          /\ holding' = {}
          /\ Spoil("removed", \E q \in Procs \ {p} : pc[q] = "inside")
          /\ UNCHANGED created
     ELSE UNCHANGED <<kernelVars, holding, spoiled>>
  /\ GoTo(p, "absent")
  /\ id' = [id EXCEPT ![p] = 0]

\* A signal: no destructor.  Without SEM_UNDO in unlock, what lock did is undone
\* although unlock has given it back.
Die(p) ==
  /\ pc[p] # "absent"
  /\ IF current # 0 /\ undo[p] # 0
     THEN /\ value + undo[p] <= MaxValue
          /\ value' = IF value + undo[p] < 0 THEN 0 ELSE value + undo[p]
          /\ undo' = [undo EXCEPT ![p] = 0]
          /\ Spoil("undone", undo[p] > IF p \in holding THEN 1 ELSE 0)
          /\ UNCHANGED <<current, created, ready>>
     ELSE UNCHANGED <<kernelVars, spoiled>>
  /\ holding' = holding \ {p}
  /\ GoTo(p, "absent")
  /\ id' = [id EXCEPT ![p] = 0]

-----------------------------------------------------------------------------
Semaphores(p) ==
  \/ SemGet(p) \/ SemGetFails(p) \/ SemCtl(p)
  \/ Acquire(p) \/ Block(p) \/ LockFails(p) \/ LockInvalid(p) \/ Unlock(p)
  \/ Destroy(p) \/ Die(p)

SemNext == \E p \in Procs : Semaphores(p)

SemInit ==
  /\ current = 0 /\ created = 0 /\ value = 0 /\ ready = FALSE
  /\ undo = [p \in Procs |-> 0]
  /\ pc = [p \in Procs |-> "absent"] /\ id = [p \in Procs |-> 0]
  /\ holding = {} /\ spoiled = {}

SemSpec == SemInit /\ [][SemNext]_semVars

\* The kernel serves the processes that wait for a semaphore in their order, and
\* who is in the critical region leaves it.
SemFairness ==
  \A p \in Procs :
    /\ SF_semVars(pc[p] = "waiting" /\ Acquire(p)) /\ WF_semVars(LockFails(p))
    /\ WF_semVars(SemCtl(p)) /\ WF_semVars(Unlock(p))
-----------------------------------------------------------------------------
(* Properties.                                                             *)

SemTypeOK ==
  /\ created \in 0 .. MaxSets /\ current \in 0 .. created
  /\ value \in 0 .. MaxValue /\ ready \in BOOLEAN
  /\ undo \in [Procs -> -MaxValue .. MaxValue]
  /\ pc \in [Procs -> Places]
  /\ id \in [Procs -> 0 .. created]
  /\ holding \subseteq Procs
  /\ spoiled \subseteq Ways

\* At most one process is in the critical region, through every order of
\* starts, locks, unlocks, ends and deaths, until one of four things happens:
\* a process starts while the semaphore is held, or ends while another is
\* inside, a set that is gone is locked without blocking, or a process dies
\* after an unlock that left its lock to be undone (semaphore.hpp:99, 121, 133,
\* 143).
Exclusive ==
  spoiled = {} => \A p, q \in Procs : pc[p] = "inside" /\ pc[q] = "inside" => p = q

\* The unit of the semaphore is never lost and never doubled: it is in the set
\* or with one process that took it, also after a death.
UnitAccounted ==
  spoiled = {} /\ current # 0 /\ ready =>
    /\ value \in {0, 1} /\ (value = 0 <=> holding # {})
    /\ \A p, q \in holding : p = q

\* Why: what is undone at a death is at least what the process holds, and who is
\* inside holds it of the set that has the key.
SemInv ==
  /\ current = 0 => holding = {}
  /\ spoiled = {} /\ current # 0 =>
       /\ \A p \in Procs : undo[p] >= (IF p \in holding THEN 1 ELSE 0)
       /\ ~ready => value = 0 /\ holding = {} /\ \A p \in Procs : undo[p] = 0
  /\ spoiled = {} => \A p \in Procs : pc[p] = "inside" => Valid(p) /\ p \in holding
  /\ UnitAccounted

\* Who waits gets the semaphore, or is told that it is gone, unless it is kept
\* by a process that was not told it has it (semaphore.hpp:119-126).
Kept == \E q \in holding : pc[q] # "inside"
WaiterServed ==
  \A p \in Procs :
    pc[p] = "waiting" ~> \/ pc[p] # "waiting" \/ Kept \/ spoiled # {}
                         \/ undo[p] = MaxValue   \* a bound of the model

\* lock and unlock give the critical region to one process at a time.
Region == INSTANCE CriticalRegion WITH
  inside <- {p \in Procs : pc[p] = "inside"}, spoiled <- spoiled # {}
ImplementsCriticalRegion == Region!RegionSpec
=============================================================================
