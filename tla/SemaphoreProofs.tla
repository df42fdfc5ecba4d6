-------------------------- MODULE SemaphoreProofs ---------------------------
(* Theorems of Semaphore, and of SharedMemory, which uses it as it is, for *)
(* any processes, any messages and any bounds.                             *)
EXTENDS SharedMemory, SequenceTheorems, TLAPS

\* ready is a Boolean, whatever sets it.
LEMMA ReadyStep == ready \in BOOLEAN /\ [SemNext]_semVars => ready' \in BOOLEAN
<1> SUFFICES ASSUME ready \in BOOLEAN, [SemNext]_semVars PROVE ready' \in BOOLEAN
  OBVIOUS
<1>1. ready' = ready \/ ready' = TRUE \/ ready' = FALSE
  BY DEF SemNext, Semaphores, semVars, kernelVars, SemGet, SemGetFails, SemCtl, SetValue, Acquire,
         Block, LockFails, LockInvalid, Unlock, Destroy, Die
<1> QED BY <1>1, Zenon

\* A step adds at most one of the ways.
LEMMA SpoilTypes ==
  ASSUME spoiled \subseteq Ways, [SemNext]_semVars PROVE spoiled' \subseteq Ways
<1>1. spoiled' = spoiled \/ \E way \in Ways : spoiled' = spoiled \cup {way}
  BY DEF SemNext, Semaphores, semVars, kernelVars, SemGet, SemGetFails, SemCtl, SetValue, Acquire,
         Block, LockFails, LockInvalid, Unlock, Destroy, Die, Spoil, Ways
<1> QED BY <1>1

\* No step leaves the types.
LEMMA TypeStep == SemTypeOK /\ [SemNext]_semVars => SemTypeOK'
<1> SUFFICES ASSUME SemTypeOK, [SemNext]_semVars PROVE SemTypeOK'
  OBVIOUS
<1>0. ready' \in BOOLEAN /\ spoiled' \subseteq Ways
  BY ReadyStep, SpoilTypes DEF SemTypeOK
<1> USE SemaphoreAssumption DEF SemTypeOK, Places
<1>1. CASE UNCHANGED semVars
  BY <1>1 DEF semVars, kernelVars
<1>2. ASSUME NEW p \in Procs, Semaphores(p) PROVE SemTypeOK'
  <2>1. CASE SemGet(p)
    BY <1>0, <2>1 DEF SemGet, GoTo, kernelVars
  <2>2. CASE SemGetFails(p)
    BY <2>2 DEF SemGetFails, GoTo, kernelVars
  <2>3. CASE SemCtl(p)
    BY <1>0, <2>3 DEF SemCtl, SetValue, GoTo, kernelVars
  <2>4. CASE Acquire(p)
    <3>1. value' \in 0 .. MaxValue /\ undo'[p] \in -MaxValue .. MaxValue
      BY <2>4 DEF Acquire
    <3>2. undo' \in [Procs -> -MaxValue .. MaxValue]
      BY <2>4, <3>1 DEF Acquire
    <3>3. pc' \in [Procs -> Places]
      BY <2>4 DEF Acquire, GoTo
    <3> QED BY <2>4, <3>1, <3>2, <3>3 DEF Acquire
  <2>5. CASE Block(p)
    BY <2>5 DEF Block, GoTo, kernelVars
  <2>6. CASE LockFails(p)
    BY <2>6 DEF LockFails, GoTo, kernelVars
  <2>7. CASE LockInvalid(p)
    BY <1>0, <2>7 DEF LockInvalid, GoTo, kernelVars
  <2>8. CASE Unlock(p)
    <3>1. CASE Valid(p)
      <4>1. value' \in 0 .. MaxValue
        BY <2>8, <3>1 DEF Unlock
      <4>2. undo' \in [Procs -> -MaxValue .. MaxValue]
        BY <2>8, <3>1 DEF Unlock
      <4> QED BY <2>8, <3>1, <4>1, <4>2 DEF Unlock, GoTo
    <3>2. CASE ~Valid(p)
      BY <2>8, <3>2 DEF Unlock, GoTo, kernelVars
    <3> QED BY <3>1, <3>2
  <2>9. CASE Destroy(p)
    <3>1. id' \in [Procs -> 0 .. created] /\ pc' \in [Procs -> Places]
      BY <2>9 DEF Destroy, GoTo
    <3>2. CASE Valid(p)
      BY <1>0, <2>9, <3>1, <3>2 DEF Destroy
    <3>3. CASE ~Valid(p)
      BY <1>0, <2>9, <3>1, <3>3 DEF Destroy, kernelVars
    <3> QED BY <3>2, <3>3
  <2>10. CASE Die(p)
    <3>1. CASE current # 0 /\ undo[p] # 0
      <4>1. value' \in 0 .. MaxValue
        BY <2>10, <3>1 DEF Die
      <4>2. undo' \in [Procs -> -MaxValue .. MaxValue]
        BY <2>10, <3>1 DEF Die
      <4> QED BY <1>0, <2>10, <3>1, <4>1, <4>2 DEF Die, GoTo
    <3>2. CASE ~(current # 0 /\ undo[p] # 0)
      BY <1>0, <2>10, <3>2 DEF Die, GoTo, kernelVars
    <3> QED BY <3>1, <3>2
  <2> QED BY <1>2, <2>1, <2>2, <2>3, <2>4, <2>5, <2>6, <2>7, <2>8, <2>9, <2>10 DEF Semaphores
<1> QED BY <1>1, <1>2 DEF SemNext

\* The variables are well typed (struct Semaphore, semaphore.hpp:89-145).
THEOREM SemTypeCorrect == SemSpec => []SemTypeOK
<1>1. SemInit => SemTypeOK
  <2> SUFFICES ASSUME SemInit PROVE SemTypeOK
    OBVIOUS
  <2>1. ready \in BOOLEAN
    BY Zenon DEF SemInit
  <2> QED BY <2>1, SemaphoreAssumption DEF SemInit, SemTypeOK, Places, Ways
<1> QED BY <1>1, TypeStep, PTL DEF SemSpec

-----------------------------------------------------------------------------
\* Who is in the critical region holds the only unit, so nobody else is there.
LEMMA InsideHolds ==
  ASSUME SemTypeOK, SemInv, spoiled = {}, NEW p \in Procs, pc[p] = "inside"
  PROVE Valid(p) /\ current # 0 /\ ready /\ value = 0 /\ holding = {p}
<1>1. Valid(p) /\ p \in holding /\ current # 0
  BY DEF SemInv, Valid
<1>2. ready
  BY <1>1 DEF SemInv, SemTypeOK
<1>3. value = 0 /\ \A q \in holding : p = q
  BY <1>1, <1>2 DEF SemInv, UnitAccounted
<1> QED BY <1>1, <1>2, <1>3

\* The history only grows.
LEMMA SpoiledStays == [SemNext]_semVars => spoiled \subseteq spoiled'
BY DEF SemNext, Semaphores, semVars, kernelVars, SemGet, SemGetFails, SemCtl, SetValue, Acquire,
       Block, LockFails, LockInvalid, Unlock, Destroy, Die, Spoil

\* The inductive invariant.
LEMMA SemInvStep == SemTypeOK /\ SemInv /\ [SemNext]_semVars => SemInv'
<1> SUFFICES ASSUME SemTypeOK, SemInv, [SemNext]_semVars PROVE SemInv'
  OBVIOUS
<1> USE SemaphoreAssumption
<1>0. SemTypeOK'
  BY TypeStep
<1>1. CASE UNCHANGED semVars
  BY <1>1 DEF semVars, kernelVars, SemInv, UnitAccounted, Valid
<1>2. ASSUME NEW p \in Procs, Semaphores(p) PROVE SemInv'
  <2>1. CASE SemGet(p)
    <3>1. CASE current # 0
      BY <2>1, <3>1 DEF SemGet, GoTo, kernelVars, SemInv, UnitAccounted, Valid, SemTypeOK, Places
    <3>2. CASE current = 0
      <4>1. holding' = {} /\ current' # 0 /\ value' = 0 /\ ~ready' /\ spoiled' = spoiled
        BY <2>1, <3>2 DEF SemGet, SemInv, SemTypeOK
      <4>2. \A q \in Procs : undo'[q] = 0
        BY <2>1, <3>2 DEF SemGet
      <4>3. ASSUME spoiled = {}, NEW q \in Procs PROVE pc'[q] # "inside"
        <5>1. pc[q] # "inside"
          BY <3>2, <4>3 DEF SemInv, Valid
        <5> QED BY <2>1, <5>1 DEF SemGet, GoTo, SemTypeOK
      <4> QED BY <4>1, <4>2, <4>3 DEF SemInv, UnitAccounted
    <3> QED BY <3>1, <3>2
  <2>2. CASE SemGetFails(p)
    BY <2>2 DEF SemGetFails, GoTo, kernelVars, SemInv, UnitAccounted, Valid, SemTypeOK
  <2>3. CASE SemCtl(p)
    <3>1. CASE ~Valid(p)
      BY <2>3, <3>1 DEF SemCtl, GoTo, kernelVars, SemInv, UnitAccounted, Valid, SemTypeOK
    <3>2. CASE Valid(p)
      <4>1. /\ value' = 1 /\ current' = current /\ holding' = holding /\ ready'
            /\ \A q \in Procs : undo'[q] = 0
            /\ spoiled' = {} => spoiled = {} /\ holding = {}
        BY <2>3, <3>2 DEF SemCtl, SetValue, Spoil
      <4>2. ASSUME spoiled' = {}, NEW q \in Procs PROVE pc'[q] # "inside"
        <5>1. pc[q] # "inside"
          BY <4>1, <4>2 DEF SemInv
        <5> QED BY <2>3, <5>1 DEF SemCtl, GoTo, SemTypeOK
      <4> QED BY <4>1, <4>2 DEF SemInv, UnitAccounted
    <3> QED BY <3>1, <3>2
  <2>4. CASE Acquire(p)
    <3>1. /\ Valid(p) /\ current' = current /\ current # 0 /\ ready' = ready /\ spoiled' = spoiled
          /\ id' = id /\ value' = value - 1 /\ value > 0 /\ holding' = holding \cup {p}
      BY <2>4 DEF Acquire, Valid
    <3>2. ASSUME spoiled = {} PROVE ready /\ value = 1 /\ holding = {}
      BY <3>1, <3>2 DEF SemInv, UnitAccounted, SemTypeOK
    <3>3. ASSUME spoiled = {}, NEW q \in Procs PROVE undo'[q] >= (IF q \in holding' THEN 1 ELSE 0)
      <4>1. undo[q] >= (IF q \in holding THEN 1 ELSE 0) /\ undo[q] \in Int
        BY <3>1, <3>3 DEF SemInv, SemTypeOK
      <4>2. undo'[q] = IF q = p THEN undo[q] + 1 ELSE undo[q]
        BY <2>4 DEF Acquire, SemTypeOK
      <4> QED BY <3>1, <3>2, <3>3, <4>1, <4>2
    <3>4. ASSUME spoiled = {}, NEW q \in Procs, pc'[q] = "inside" PROVE Valid(q)' /\ q \in holding'
      <4>1. CASE q = p
        BY <3>1, <4>1 DEF Valid
      <4>2. CASE q # p
        BY <2>4, <3>1, <3>4, <4>2 DEF Acquire, GoTo, Valid, SemInv, SemTypeOK
      <4> QED BY <4>1, <4>2
    <3> QED BY <3>1, <3>2, <3>3, <3>4 DEF SemInv, UnitAccounted
  <2>5. CASE Block(p)
    BY <2>5 DEF Block, GoTo, kernelVars, SemInv, UnitAccounted, Valid, SemTypeOK
  <2>6. CASE LockFails(p)
    BY <2>6 DEF LockFails, GoTo, kernelVars, SemInv, UnitAccounted, Valid, SemTypeOK
  <2>7. CASE LockInvalid(p)
    BY <2>7 DEF LockInvalid, Spoil, GoTo, kernelVars, SemInv, UnitAccounted, Valid, SemTypeOK
  <2>8. CASE Unlock(p)
    <3>1. spoiled' = spoiled /\ current' = current /\ ready' = ready /\ id' = id
      BY <2>8 DEF Unlock, kernelVars
    <3>2. CASE spoiled # {}
      BY <2>8, <3>1, <3>2 DEF Unlock, SemInv, UnitAccounted, kernelVars
    <3>3. CASE spoiled = {}
      <4>1. Valid(p) /\ current # 0 /\ ready /\ value = 0 /\ holding = {p}
        BY <2>8, <3>3, InsideHolds DEF Unlock
      <4>2. value' = 1 /\ holding' = {}
        BY <2>8, <4>1 DEF Unlock
      <4>3. ASSUME NEW q \in Procs PROVE undo'[q] >= 0
        <5>1. undo[q] >= (IF q \in holding THEN 1 ELSE 0) /\ undo[q] \in Int
          BY <3>3, <4>1 DEF SemInv, SemTypeOK
        <5>2. undo'[q] = undo[q] \/ (q = p /\ undo'[q] = undo[q] - 1)
          BY <2>8, <4>1 DEF Unlock, SemTypeOK
        <5> QED BY <4>1, <5>1, <5>2
      <4>4. ASSUME NEW q \in Procs PROVE pc'[q] # "inside"
        <5>1. CASE q = p
          BY <2>8, <5>1 DEF Unlock, GoTo, SemTypeOK
        <5>2. CASE q # p
          BY <2>8, <3>3, <4>1, <5>2 DEF Unlock, GoTo, SemInv, SemTypeOK
        <5> QED BY <5>1, <5>2
      <4> QED BY <3>1, <4>1, <4>2, <4>3, <4>4 DEF SemInv, UnitAccounted
    <3> QED BY <3>2, <3>3
  <2>9. CASE Destroy(p)
    <3>1. CASE ~Valid(p)
      BY <2>9, <3>1 DEF Destroy, GoTo, kernelVars, SemInv, UnitAccounted, Valid, SemTypeOK
    <3>2. CASE Valid(p)
      <4>1. current' = 0 /\ holding' = {}
        BY <2>9, <3>2 DEF Destroy
      <4>2. ASSUME spoiled' = {}, NEW q \in Procs PROVE pc'[q] # "inside"
        BY <2>9, <3>2, <4>2 DEF Destroy, Spoil, GoTo, SemTypeOK
      <4> QED BY <4>1, <4>2 DEF SemInv, UnitAccounted
    <3> QED BY <3>1, <3>2
  <2>10. CASE Die(p)
    <3>1. /\ current' = current /\ ready' = ready /\ holding' = holding \ {p}
          /\ pc' = [pc EXCEPT ![p] = "absent"] /\ id' = [id EXCEPT ![p] = 0]
      BY <2>10 DEF Die, GoTo, kernelVars
    <3>2. spoiled' = {} => spoiled = {}
      BY SpoiledStays
    <3>3. ASSUME spoiled = {}, NEW q \in Procs, pc'[q] = "inside" PROVE Valid(q)' /\ q \in holding'
      BY <3>1, <3>3 DEF SemInv, Valid, SemTypeOK
    <3>4. CASE current = 0
      BY <3>1, <3>2, <3>3, <3>4 DEF SemInv, UnitAccounted
    <3>5. CASE spoiled # {}
      BY <3>1, <3>2, <3>5 DEF SemInv, UnitAccounted
    <3>6. CASE current # 0 /\ spoiled = {}
      <4>0. \A q \in Procs : undo[q] \in Int /\ undo[q] >= (IF q \in holding THEN 1 ELSE 0)
        BY <3>6 DEF SemInv, SemTypeOK
      <4>1. CASE undo[p] = 0
        <5>1. p \notin holding /\ value' = value /\ undo' = undo /\ spoiled' = spoiled /\ holding' = holding
          BY <2>10, <3>1, <4>0, <4>1 DEF Die, kernelVars
        <5> QED BY <3>1, <3>3, <3>6, <5>1 DEF SemInv, UnitAccounted
      <4>2. CASE undo[p] # 0
        <5>1. /\ value' = (IF value + undo[p] < 0 THEN 0 ELSE value + undo[p])
              /\ \A q \in Procs : undo'[q] = IF q = p THEN 0 ELSE undo[q]
              /\ spoiled' = {} => undo[p] <= (IF p \in holding THEN 1 ELSE 0)
          BY <2>10, <3>6, <4>0, <4>2 DEF Die, Spoil, SemTypeOK
        <5>2. ASSUME spoiled' = {} PROVE SemInv'
          <6>1. undo[p] = 1 /\ p \in holding
            BY <4>0, <4>2, <5>1, <5>2
          <6>2. ready
            BY <3>6, <6>1 DEF SemInv
          <6>3. value = 0 /\ holding = {p}
            BY <3>6, <6>1, <6>2 DEF SemInv, UnitAccounted
          <6>4. value' = 1 /\ holding' = {}
            BY <3>1, <5>1, <6>1, <6>3
          <6>5. \A q \in Procs : undo'[q] >= 0
            BY <4>0, <5>1, <6>3
          <6> QED BY <3>1, <3>2, <3>3, <5>2, <6>2, <6>4, <6>5 DEF SemInv, UnitAccounted
        <5>3. ASSUME spoiled' # {} PROVE SemInv'
          BY <3>1, <3>6, <5>3 DEF SemInv, UnitAccounted
        <5> QED BY <5>2, <5>3
      <4> QED BY <4>1, <4>2
    <3> QED BY <3>4, <3>5, <3>6
  <2> QED BY <1>2, <2>1, <2>2, <2>3, <2>4, <2>5, <2>6, <2>7, <2>8, <2>9, <2>10 DEF Semaphores
<1> QED BY <1>1, <1>2 DEF SemNext

LEMMA SemInvInit == SemInit => SemInv
BY SemaphoreAssumption DEF SemInit, SemInv, UnitAccounted, Valid

\* What is undone at a death is at least what the process holds, and who is
\* inside holds the set's unit (semaphore.hpp:114-140).
THEOREM UnitsFollowHolders == SemSpec => []SemInv
<1> QED BY SemInvInit, SemTypeCorrect, SemInvStep, PTL DEF SemSpec

\* The unit is never lost or doubled, deaths included (semaphore.hpp:121, 133).
THEOREM UnitNeverLost == SemSpec => []UnitAccounted
<1>1. SemInv => UnitAccounted
  BY DEF SemInv
<1> QED BY <1>1, UnitsFollowHolders, PTL

\* At most one process is in the critical region until one of the four named
\* things happens (semaphore.hpp:99, 121, 133, 143).
THEOREM RegionIsExclusive == SemSpec => []Exclusive
<1>1. SemTypeOK /\ SemInv => Exclusive
  BY InsideHolds DEF Exclusive
<1> QED BY <1>1, SemTypeCorrect, UnitsFollowHolders, PTL

-----------------------------------------------------------------------------
InRegion == {p \in Procs : pc[p] = "inside"}

\* Who leaves the region leaves it for good.
LEMMA LeavingStep ==
  ASSUME SemTypeOK, NEW p \in Procs, NEW place \in Places \ {"inside"},
         pc' = [pc EXCEPT ![p] = place]
  PROVE InRegion' = InRegion \ {p}
BY DEF InRegion, SemTypeOK

\* lock and unlock are the abstract critical region (semaphore.hpp:114-140):
\* every step is a step of it, or a stutter, until the region is spoiled.
THEOREM SemaphoreIsRegion == SemSpec => ImplementsCriticalRegion
<1>1. SemInit => Region!RegionInit
  BY DEF SemInit, Region!RegionInit
<1>2. SemTypeOK /\ SemInv /\ [SemNext]_semVars =>
        [Region!RegionNext \/ (spoiled # {})']_<<InRegion, spoiled # {}>>
  <2> SUFFICES ASSUME SemTypeOK, SemInv, [SemNext]_semVars, spoiled' = {}
               PROVE Region!RegionNext \/ UNCHANGED <<InRegion, spoiled # {}>>
    OBVIOUS
  <2>0. spoiled = {} /\ UNCHANGED (spoiled # {})
    BY SpoiledStays
  <2>1. CASE UNCHANGED semVars
    BY <2>1 DEF semVars, InRegion
  <2>2. ASSUME NEW p \in Procs, Semaphores(p)
        PROVE Region!RegionNext \/ UNCHANGED <<InRegion, spoiled # {}>>
    <3>1. CASE Acquire(p)
      <4>1. holding = {}
        BY <2>0, <3>1 DEF Acquire, Valid, SemInv, UnitAccounted, SemTypeOK
      <4>2. InRegion = {}
        BY <2>0, <4>1 DEF InRegion, SemInv
      <4>3. InRegion' = {} \/ InRegion' = {p}
        BY <3>1, <4>2 DEF Acquire, GoTo, InRegion, SemTypeOK
      <4>4. CASE InRegion' = {}
        BY <2>0, <4>2, <4>4
      <4>5. CASE InRegion' = {p}
        BY <2>0, <4>2, <4>5 DEF Region!RegionNext, Region!Enter, InRegion
      <4> QED BY <4>3, <4>4, <4>5
    <3>2. CASE ~Acquire(p)
      <4>1. ~LockInvalid(p)
        BY DEF LockInvalid, Spoil
      <4>2. \E place \in Places \ {"inside"} : pc' = [pc EXCEPT ![p] = place]
        BY <2>2, <3>2, <4>1 DEF Semaphores, SemGet, SemGetFails, SemCtl, Block, LockFails,
             Unlock, Destroy, Die, GoTo, Places
      <4>3. InRegion' = InRegion \ {p}
        BY <4>2, LeavingStep
      <4>4. CASE p \in InRegion
        BY <2>0, <4>3, <4>4 DEF Region!RegionNext, Region!LeaveRegion, InRegion
      <4>5. CASE p \notin InRegion
        BY <2>0, <4>3, <4>5
      <4> QED BY <4>4, <4>5
    <3> QED BY <3>1, <3>2
  <2> QED BY <2>1, <2>2 DEF SemNext
<1> QED BY <1>1, <1>2, SemTypeCorrect, UnitsFollowHolders, PTL
      DEF SemSpec, ImplementsCriticalRegion, Region!RegionSpec, InRegion

-----------------------------------------------------------------------------
LEMMA MemoryStep == [MemNext]_allVars => [SemNext]_semVars
<1> SUFFICES ASSUME NEW p \in Procs,
               \/ Attach(p) \/ UseSemaphore(p) \/ EndProcess(p) \/ Detach(p) \/ Killed(p)
               \/ Writer(p)
               \/ Reader(p)
             PROVE [SemNext]_semVars
  BY DEF MemNext, allVars
<1>1. CASE Attach(p) \/ Detach(p)
  BY <1>1 DEF Attach, Detach
<1>2. CASE UseSemaphore(p)
  BY <1>2 DEF UseSemaphore, SemNext, Semaphores
<1>3. CASE EndProcess(p)
  BY <1>3 DEF EndProcess, SemNext, Semaphores
<1>4. CASE Killed(p)
  BY <1>4 DEF Killed, SemNext, Semaphores
<1>5. CASE Writer(p)
  BY <1>5 DEF Writer, Publish, WriteCount, WriteFlag, WriteBytes
<1>6. CASE Reader(p)
  BY <1>6 DEF Reader, ReadCount, ReadFlag, Take, AbortReading, SemNext, Semaphores
<1> QED BY <1>1, <1>2, <1>3, <1>4, <1>5, <1>6

\* Attaching, writing, reading and dying take the semaphore's own steps or leave
\* it alone (ThreadInformation, shm.cpp, read_sharedmemory.hpp), so all of the
\* above holds in it.
LEMMA MemoryStepsSemaphore == MemSpec => SemSpec
<1>1. MemInit => SemInit
  BY DEF MemInit
<1> QED BY <1>1, MemoryStep, PTL DEF MemSpec, SemSpec

-----------------------------------------------------------------------------
(* What is in the segments.                                                *)

\* New bytes over old ones: the first are the new ones.
LEMMA OverBytes ==
  ASSUME NEW new \in Seq(Nat), NEW old \in Seq(Nat)
  PROVE  /\ Over(new, old) \in Seq(Nat)
         /\ Len(new) <= Len(Over(new, old))
         /\ \A i \in 1 .. Len(new) : Over(new, old)[i] = new[i]
<1> DEFINE rest == SubSeq(old, Len(new) + 1, Len(old))
<1>1. rest \in Seq(Nat)
  <2>1. CASE Len(new) <= Len(old)
    BY <2>1, SubSeqProperties
  <2>2. CASE ~(Len(new) <= Len(old))
    <3>1. rest = <<>>
      BY <2>2
    <3> QED
      BY <3>1
  <2> QED
    BY <2>1, <2>2
<1> HIDE DEF rest
<1>2. Len(new) \in Nat /\ Len(rest) \in Nat
  BY <1>1
<1>3. /\ new \o rest \in Seq(Nat) /\ Len(new \o rest) = Len(new) + Len(rest)
      /\ \A i \in 1 .. Len(new) + Len(rest) :
           (new \o rest)[i] = IF i <= Len(new) THEN new[i] ELSE rest[i - Len(new)]
  BY <1>1, ConcatProperties, Zenon
<1>4. \A i \in 1 .. Len(new) : i \in 1 .. Len(new) + Len(rest) /\ i <= Len(new)
  BY <1>2
<1>5. Len(new) <= Len(new) + Len(rest)
  BY <1>2
<1>6. \A i \in 1 .. Len(new) : (new \o rest)[i] = new[i]
  BY <1>3, <1>4, Zenon
<1>7. Len(new) <= Len(new \o rest)
  BY <1>3, <1>5
<1> QED
  BY <1>3, <1>6, <1>7, Zenon DEF Over, rest

\* A segment that count and bytes have been written to holds what was written.
LEMMA WrittenIsNew ==
  ASSUME NEW s \in Segs, NEW new \in Seq(Nat), NEW old \in Seq(Nat),
         memory'[s].bytes = Over(new, old), memory'[s].count = Len(new)
  PROVE  Written(s)' = new
<1>1. Written(s)' = [i \in 1 .. Len(new) |->
                       IF i <= Len(Over(new, old)) THEN Over(new, old)[i] ELSE 0]
  BY DEF Written, Content
<1>2. \A i \in 1 .. Len(new) : i <= Len(Over(new, old)) /\ Over(new, old)[i] = new[i]
  BY OverBytes
<1>3. Written(s)' = [i \in 1 .. Len(new) |-> new[i]]
  BY <1>1, <1>2
<1> QED
  BY <1>3

\* What a writer is given is a sequence of bytes, and so is what it writes.
LEMMA WhatIsWritten ==
  ASSUME NEW m \in Messages, NEW isString \in BOOLEAN
  PROVE  LET n == IF isString THEN StringCount(m) ELSE Len(m)
         IN  /\ m \in Seq(Nat) /\ Len(m) \in Nat \ {0}
             /\ n \in Nat
             /\ SubSeq(m, 1, n) \in Seq(Nat)
             /\ Len(SubSeq(m, 1, n)) = n
             /\ SubSeq(m, 1, n) \in {m, SubSeq(m, 1, Len(m) - 1)}
<1>1. m \in Seq(Nat) /\ Len(m) \in Nat \ {0}
  BY SharedMemoryAssumption
<1>2. SubSeq(m, 1, Len(m)) = m
  BY <1>1
<1>3. \A n \in 0 .. Len(m) : SubSeq(m, 1, n) \in Seq(Nat) /\ Len(SubSeq(m, 1, n)) = n
  BY <1>1
<1>4. Len(m) - 1 \in 0 .. Len(m) /\ Len(m) \in 0 .. Len(m)
  BY <1>1
<1> DEFINE n == IF isString THEN StringCount(m) ELSE Len(m)
<1>5. n \in {Len(m) - 1, Len(m)}
  BY DEF StringCount
<1>6. n \in 0 .. Len(m) /\ n \in Nat
  BY <1>1, <1>4, <1>5
<1> HIDE DEF n
<1>7. SubSeq(m, 1, n) \in {m, SubSeq(m, 1, Len(m) - 1)}
  BY <1>2, <1>5
<1> QED
  BY <1>1, <1>3, <1>6, <1>7 DEF n

-----------------------------------------------------------------------------
(* Where the processes are, and types.                                     *)

LEMMA PlacesStep ==
  ASSUME SemTypeOK, MemTypeOK, PlacesInv, [MemNext]_allVars
  PROVE  PlacesInv'
<1> USE DEF Running, Quiet, NoJob
<1>1. CASE UNCHANGED allVars
  BY <1>1 DEF allVars, semVars, memVars, PlacesInv
<1>2. ASSUME NEW p \in Procs, Attach(p)
      PROVE  PlacesInv'
  BY <1>2, SharedMemoryAssumption DEF Attach, semVars, PlacesInv, MemTypeOK
<1>3. ASSUME NEW p \in Procs, UseSemaphore(p)
      PROVE  PlacesInv'
  <2>1. /\ pc' \in [Procs -> Places] /\ \A q \in Procs \ {p} : pc'[q] = pc[q]
        /\ pc[p] \in {"idle", "waiting", "inside"} => pc'[p] \in {"idle", "waiting", "inside"}
    BY <1>3 DEF UseSemaphore, SemGet, SemGetFails, SemCtl, Acquire, Block, LockFails, LockInvalid,
       Unlock, GoTo, SemTypeOK, Places
  <2>2. UNCHANGED memVars /\ attached[p] # 0 /\ job[p] = <<>>
    BY <1>3 DEF UseSemaphore
  <2> QED
    BY <2>1, <2>2 DEF memVars, PlacesInv, Places
<1>4. ASSUME NEW p \in Procs, EndProcess(p)
      PROVE  PlacesInv'
  BY <1>4 DEF EndProcess, Destroy, GoTo, ReadAgain, PlacesInv, SemTypeOK, MemTypeOK
<1>5. ASSUME NEW p \in Procs, Detach(p)
      PROVE  PlacesInv'
  BY <1>5 DEF Detach, semVars, PlacesInv, MemTypeOK
<1>6. ASSUME NEW p \in Procs, Vanish(p), pc' = [pc EXCEPT ![p] = "absent"]
      PROVE  PlacesInv'
  BY <1>6 DEF Vanish, ReadAgain, PlacesInv, SemTypeOK, MemTypeOK
<1>7. ASSUME NEW p \in Procs, Killed(p) \/ AbortReading(p)
      PROVE  PlacesInv'
  <2>1. Vanish(p) /\ pc' = [pc EXCEPT ![p] = "absent"]
    BY <1>7 DEF Killed, AbortReading, Die, GoTo, semVars, SemTypeOK
  <2> QED
    BY <1>6, <2>1
<1>8. ASSUME NEW p \in Procs, Writer(p)
      PROVE  PlacesInv'
  <2>1. /\ UNCHANGED <<pc, attached, rpc>> /\ pc[p] = "inside"
        /\ \A q \in Procs \ {p} : job'[q] = job[q]
    BY <1>8 DEF Writer, Publish, WriteCount, WriteFlag, WriteBytes, semVars, PlacesInv, MemTypeOK
  <2> QED
    BY <2>1 DEF PlacesInv
<1>9. ASSUME NEW p \in Readers, p \in Procs, ReadCount(p) \/ ReadFlag(p) \/ Take(p)
      PROVE  PlacesInv'
  BY <1>9 DEF ReadCount, ReadFlag, Take, ReadAgain, semVars, PlacesInv, MemTypeOK
<1> QED
  BY <1>1, <1>2, <1>3, <1>4, <1>5, <1>7, <1>8, <1>9 DEF MemNext, Reader

\* The segment a running process has attached is one of those that exist.
LEMMA AttachedType ==
  ASSUME MemTypeOK, PlacesInv, NEW p \in Procs, pc[p] # "absent"
  PROVE  attached[p] \in Segs
<1>1. attached[p] \in 0 .. MaxSegs /\ MaxSegs \in Nat
  BY SharedMemoryAssumption DEF MemTypeOK
<1>2. attached[p] # 0
  BY DEF PlacesInv
<1> QED
  BY <1>1, <1>2 DEF Segs

LEMMA StageSet ==
  ASSUME NEW j \in {"flag", "copy"} \X Seq(Nat)
  PROVE  [j EXCEPT ![1] = "copy"] = <<"copy", j[2]>>
<1> DEFINE k == [j EXCEPT ![1] = "copy"]
<1>1. PICK a \in {"flag", "copy"}, b \in Seq(Nat) : j = <<a, b>>
  OBVIOUS
<1>2. DOMAIN k = {1, 2} /\ k[1] = "copy" /\ k[2] = b
  BY <1>1
<1>3. k = [i \in {1, 2} |-> k[i]]
  BY <1>2
<1>4. DOMAIN <<"copy", b>> = {1, 2} /\ <<"copy", b>>[1] = "copy" /\ <<"copy", b>>[2] = b
  OBVIOUS
<1>5. <<"copy", b>> = [i \in {1, 2} |-> <<"copy", b>>[i]]
  BY <1>4
<1> QED
  BY <1>1, <1>2, <1>3, <1>4, <1>5

LEMMA WriterKeepsType ==
  ASSUME MemTypeOK, PlacesInv, NEW p \in Procs, Writer(p)
  PROVE  MemTypeOK'
<1> USE DEF MemTypeOK, Quiet
<1>1. pc[p] = "inside" /\ attached[p] \in Segs
  BY AttachedType DEF Writer, Publish, WriteCount, WriteFlag, WriteBytes, PlacesInv
<1>2. stirred' \subseteq Readers
  BY DEF Writer, Publish, WriteCount, WriteFlag, WriteBytes, Stir
<1>3. memory[attached[p]] \in [count : Nat, flag : {"", "0", "1"}, bytes : Seq(Nat)]
  BY <1>1
<1>4. ASSUME NEW m \in Messages, Publish(p, m)
      PROVE  MemTypeOK'
  <2>1. m \in Seq(Nat) /\ Len(m) \in Nat
    BY WhatIsWritten
  <2>2. Over(m, memory[attached[p]].bytes) \in Seq(Nat)
    BY <1>3, <2>1, OverBytes
  <2>3. memory' \in [Segs -> [count : Nat, flag : {"", "0", "1"}, bytes : Seq(Nat)]]
    BY <1>4, <2>1, <2>2 DEF Publish
  <2> QED
    BY <1>2, <1>4, <2>3 DEF Publish
<1>5. ASSUME NEW m \in Messages, NEW isString \in BOOLEAN, WriteCount(p, m, isString)
      PROVE  MemTypeOK'
  <2> DEFINE n == IF isString THEN StringCount(m) ELSE Len(m)
  <2>1. n \in Nat /\ SubSeq(m, 1, n) \in Seq(Nat)
    BY WhatIsWritten
  <2>2. /\ memory' = [memory EXCEPT ![attached[p]].count = n]
        /\ job' = [job EXCEPT ![p] = <<"flag", SubSeq(m, 1, n)>>]
    BY <1>5 DEF WriteCount
  <2> HIDE DEF n
  <2>3. memory' \in [Segs -> [count : Nat, flag : {"", "0", "1"}, bytes : Seq(Nat)]]
    BY <1>1, <1>3, <2>1, <2>2
  <2>4. job' \in [Procs -> {NoJob} \cup ({"flag", "copy"} \X Seq(Nat))]
    BY <2>1, <2>2
  <2> QED
    BY <1>1, <1>2, <1>5, <2>3, <2>4 DEF WriteCount
<1>6. CASE WriteFlag(p)
  <2>1. job[p] \in {"flag", "copy"} \X Seq(Nat)
    BY <1>6 DEF WriteFlag
  <2>2. job' = [job EXCEPT ![p] = <<"copy", job[p][2]>>]
    <3>1. [job[p] EXCEPT ![1] = "copy"] = <<"copy", job[p][2]>>
      BY <2>1, StageSet
    <3>2. job' = [job EXCEPT ![p] = [job[p] EXCEPT ![1] = "copy"]]
      BY <1>6 DEF WriteFlag
    <3> QED
      BY <3>1, <3>2, Zenon
  <2>3. job' \in [Procs -> {NoJob} \cup ({"flag", "copy"} \X Seq(Nat))]
    BY <2>1, <2>2
  <2>4. memory' \in [Segs -> [count : Nat, flag : {"", "0", "1"}, bytes : Seq(Nat)]]
    BY <1>3, <1>6 DEF WriteFlag
  <2> QED
    BY <1>2, <1>6, <2>3, <2>4 DEF WriteFlag
<1>7. CASE WriteBytes(p)
  <2>1. job[p][2] \in Seq(Nat)
    BY <1>7 DEF WriteBytes
  <2>2. Over(job[p][2], memory[attached[p]].bytes) \in Seq(Nat)
    BY <1>3, <2>1, OverBytes
  <2>3. memory' \in [Segs -> [count : Nat, flag : {"", "0", "1"}, bytes : Seq(Nat)]]
    BY <1>3, <1>7, <2>2 DEF WriteBytes
  <2>4. job' \in [Procs -> {NoJob} \cup ({"flag", "copy"} \X Seq(Nat))]
    BY <1>7 DEF WriteBytes
  <2> QED
    BY <1>2, <1>7, <2>3, <2>4 DEF WriteBytes
<1> QED
  BY <1>4, <1>5, <1>6, <1>7 DEF Writer

LEMMA MemTypeStep ==
  ASSUME MemTypeOK, PlacesInv, [MemNext]_allVars
  PROVE  MemTypeOK'
<1>1. CASE UNCHANGED allVars
  BY <1>1 DEF allVars, memVars, MemTypeOK
<1>0. /\ MaxSegs \in Nat /\ segment \in 0 .. MaxSegs /\ segments \in 0 .. MaxSegs
      /\ attached \in [Procs -> 0 .. MaxSegs]
  BY SharedMemoryAssumption DEF MemTypeOK
<1>2. ASSUME NEW p \in Procs, Attach(p) \/ Detach(p)
      PROVE  MemTypeOK'
  <2>1. /\ segment' \in 0 .. MaxSegs /\ segments' \in 0 .. MaxSegs
        /\ attached' \in [Procs -> 0 .. MaxSegs]
    BY <1>0, <1>2 DEF Attach, Detach
  <2> QED
    BY <1>2, <2>1 DEF Attach, Detach, MemTypeOK
<1>3. ASSUME NEW p \in Procs, UseSemaphore(p)
      PROVE  MemTypeOK'
  BY <1>3 DEF UseSemaphore, memVars, MemTypeOK
<1>4. ASSUME NEW p \in Procs, EndProcess(p)
      PROVE  MemTypeOK'
  BY <1>4 DEF EndProcess, ReadAgain, MemTypeOK
<1>5. ASSUME NEW p \in Procs, Vanish(p)
      PROVE  MemTypeOK'
  <2>1. ~Quiet(p) => attached[p] \in Segs
    BY AttachedType DEF PlacesInv
  <2>2. cut' \subseteq Segs
    BY <1>5, <2>1 DEF Vanish, MemTypeOK
  <2>3. attached' \in [Procs -> 0 .. MaxSegs]
    BY <1>0, <1>5 DEF Vanish
  <2>4. job' \in [Procs -> {NoJob} \cup ({"flag", "copy"} \X Seq(Nat))]
    BY <1>5 DEF Vanish, MemTypeOK
  <2> QED
    BY <1>5, <2>2, <2>3, <2>4 DEF Vanish, ReadAgain, MemTypeOK
<1>6. ASSUME NEW p \in Procs, Writer(p)
      PROVE  MemTypeOK'
  BY <1>6, WriterKeepsType
<1>7. ASSUME NEW p \in Procs, p \in Readers, ReadCount(p) \/ ReadFlag(p) \/ Take(p)
      PROVE  MemTypeOK'
  <2>1. ReadCount(p) => Mem(p).count \in Nat
    BY AttachedType DEF ReadCount, Running, Mem, MemTypeOK
  <2>2. rcount' \in [Procs -> Nat]
    <3>1. rcount \in [Procs -> Nat]
      BY DEF MemTypeOK
    <3>2. \/ rcount' = [rcount EXCEPT ![p] = 0] \/ rcount' = rcount
          \/ ReadCount(p) /\ rcount' = [rcount EXCEPT ![p] = Mem(p).count]
      BY <1>7 DEF ReadCount, ReadFlag, Take, ReadAgain
    <3> QED
      BY <2>1, <3>1, <3>2
  <2>3. rpc' \in [Procs -> {"count", "flag", "copy"}] /\ stirred' \subseteq Readers
    BY <1>7 DEF ReadCount, ReadFlag, Take, ReadAgain, MemTypeOK
  <2>4. UNCHANGED <<segment, segments, memory, attached, job, dirty, cut>>
    BY <1>7 DEF ReadCount, ReadFlag, Take
  <2> QED
    BY <2>2, <2>3, <2>4 DEF MemTypeOK
<1> QED
  BY <1>1, <1>2, <1>3, <1>4, <1>5, <1>6, <1>7 DEF MemNext, Killed, Reader, AbortReading

-----------------------------------------------------------------------------
(* One writer at a time.                                                   *)

LEMMA OneWriter ==
  ASSUME SemTypeOK, SemInv, PlacesInv, spoiled = {}, NEW p \in Procs, pc[p] = "inside",
         NEW q \in Procs, ~Quiet(q)
  PROVE  q = p
<1>1. pc[q] = "inside"
  BY DEF PlacesInv
<1>2. holding = {p} /\ holding = {q}
  BY <1>1, InsideHolds
<1> QED
  BY <1>2

\* A step of the writer in its segment: it goes on, or leaves a message behind.
LEMMA WriterStep ==
  ASSUME SemTypeOK, SemInv, MemTypeOK, PlacesInv, SegmentsInv, spoiled = {},
         NEW p \in Procs, pc[p] = "inside",
         UNCHANGED <<attached, rpc, rcount>>, Stir(p),
         \A q \in Procs \ {p} : job'[q] = job[q],
         \A t \in Segs \ {attached[p]} : memory'[t] = memory[t],
         dirty' \subseteq Segs,
         \A t \in Segs \ {attached[p]} : (t \in dirty' <=> t \in dirty) /\ (t \in cut' <=> t \in cut),
         \/ /\ attached[p] \in dirty' /\ ~Quiet(p)'
            /\ Mem(p)'.count = Len(job'[p][2])
            /\ \E m \in Messages : job'[p][2] \in {m, SubSeq(m, 1, Len(m) - 1)}
            /\ job'[p][1] = "copy" => Mem(p)'.flag = "0"
         \/ /\ attached[p] \notin dirty' /\ Quiet(p)'
            /\ \/ memory'[attached[p]].count = 0
               \/ \E m \in Messages : Written(attached[p])' \in {m, SubSeq(m, 1, Len(m) - 1)}
            /\ memory'[attached[p]].flag = "1" => Written(attached[p])' \in Messages
  PROVE  SegmentsInv'
<1> DEFINE s == attached[p]
<1>1. s \in Segs /\ attached'[p] = s
  BY AttachedType
<1>2. ASSUME NEW q \in Procs, ~Quiet(q)'
      PROVE  q = p /\ s \in dirty'
  <2>1. q # p => ~Quiet(q)
    BY <1>2 DEF Quiet
  <2> QED
    BY <1>2, <2>1, OneWriter
<1>3. WritingInv'
  BY <1>2 DEF WritingInv, Mem
<1>4. DirtyInv'
  <2>1. ASSUME NEW t \in dirty'
        PROVE  t \in cut' \/ \E q \in Procs : ~Quiet(q)' /\ attached'[q] = t
    <3>1. CASE t = s
      BY <1>1, <2>1, <3>1
    <3>2. CASE t # s
      <4>1. t \in Segs /\ t \in dirty
        BY <3>2
      <4>2. t \in cut \/ \E q \in Procs : ~Quiet(q) /\ attached[q] = t
        BY <4>1 DEF SegmentsInv, DirtyInv, BeingWritten
      <4>3. ~ \E q \in Procs : ~Quiet(q) /\ attached[q] = t
        BY <3>2, OneWriter
      <4> QED
        BY <3>2, <4>1, <4>2, <4>3
    <3> QED
      BY <3>1, <3>2
  <2> QED
    BY <2>1 DEF DirtyInv, BeingWritten
<1>5. CleanInv'
  <2>1. ASSUME NEW t \in Segs \ dirty', t # s
        PROVE  /\ t \in Segs \ dirty /\ memory'[t] = memory[t] /\ Written(t)' = Written(t)
    BY <2>1 DEF Written, Content
  <2>2. ASSUME NEW t \in Segs \ dirty'
        PROVE  /\ \/ memory'[t].count = 0
                  \/ \E m \in Messages : Written(t)' \in {m, SubSeq(m, 1, Len(m) - 1)}
               /\ memory'[t].flag = "1" => Written(t)' \in Messages
    <3>1. CASE t = s
      BY <2>2, <3>1
    <3>2. CASE t # s
      BY <2>1, <3>2 DEF SegmentsInv, CleanInv
    <3> QED
      BY <3>1, <3>2
  <2> QED
    BY <2>2 DEF CleanInv
<1>6. UnstirredInv'
  <2>1. ASSUME NEW q \in Procs \ stirred', rpc'[q] # "count"
        PROVE  /\ attached'[q] \in dirty' => attached'[q] \in cut'
               /\ rcount'[q] = Mem(q)'.count
               /\ rpc'[q] = "copy" => Mem(q)'.flag = "1"
    <3>1. q \in Readers /\ Running(q) /\ rpc[q] # "count"
      BY <2>1 DEF PlacesInv
    <3>2. q \notin stirred /\ attached[q] # s
      BY <2>1, <3>1 DEF Stir
    <3>3. attached[q] \in Segs /\ memory'[attached[q]] = memory[attached[q]]
      BY <3>1, <3>2, AttachedType DEF Running
    <3> QED
      BY <3>1, <3>2, <3>3 DEF SegmentsInv, UnstirredInv, Mem
  <2> QED
    BY <2>1 DEF UnstirredInv
<1> QED
  BY <1>3, <1>4, <1>5, <1>6 DEF SegmentsInv

LEMMA WriterKeepsSegments ==
  ASSUME SemTypeOK, SemInv, MemTypeOK, PlacesInv, SegmentsInv, spoiled = {},
         NEW p \in Procs, Writer(p)
  PROVE  SegmentsInv'
<1>0. pc[p] = "inside"
  BY DEF Writer, Publish, WriteCount, WriteFlag, WriteBytes, PlacesInv, Quiet
<1>a. attached[p] \in Segs
  BY <1>0, AttachedType
<1>1. PICK s \in Segs : s = attached[p]
  BY <1>a
<1>2. /\ UNCHANGED <<attached, rpc, rcount>> /\ Stir(p)
      /\ \A q \in Procs \ {p} : job'[q] = job[q]
      /\ \A t \in Segs \ {s} : memory'[t] = memory[t]
      /\ dirty' \subseteq Segs
      /\ \A t \in Segs \ {s} : (t \in dirty' <=> t \in dirty) /\ (t \in cut' <=> t \in cut)
  <2>1. /\ UNCHANGED <<attached, rpc, rcount>> /\ Stir(p)
        /\ dirty' \in {dirty, dirty \cup {s}, dirty \ {s}}
        /\ cut' \in {cut, cut \ {s}}
    BY <1>1 DEF Writer, Publish, WriteCount, WriteFlag, WriteBytes
  <2>2. \A q \in Procs \ {p} : job'[q] = job[q]
    BY DEF Writer, Publish, WriteCount, WriteFlag, WriteBytes, MemTypeOK
  <2>3. \A t \in Segs \ {s} : memory'[t] = memory[t]
    BY <1>1 DEF Writer, Publish, WriteCount, WriteFlag, WriteBytes, MemTypeOK
  <2>4. dirty \subseteq Segs
    BY DEF MemTypeOK
  <2> QED
    BY <1>1, <2>1, <2>2, <2>3, <2>4
<1>3. memory \in [Segs -> [count : Nat, flag : {"", "0", "1"}, bytes : Seq(Nat)]]
  BY DEF MemTypeOK
<1>4. memory[s].bytes \in Seq(Nat)
  BY <1>1, <1>3
<1> DEFINE Ended ==
             /\ s \notin dirty' /\ Quiet(p)'
             /\ \/ memory'[s].count = 0
                \/ \E m \in Messages : Written(s)' \in {m, SubSeq(m, 1, Len(m) - 1)}
             /\ memory'[s].flag = "1" => Written(s)' \in Messages
           GoingOn ==
             /\ s \in dirty' /\ ~Quiet(p)'
             /\ Mem(p)'.count = Len(job'[p][2])
             /\ \E m \in Messages : job'[p][2] \in {m, SubSeq(m, 1, Len(m) - 1)}
             /\ job'[p][1] = "copy" => Mem(p)'.flag = "0"
<1>5. ASSUME NEW m \in Messages, Publish(p, m)
      PROVE  Ended
  <2>1. m \in Seq(Nat)
    BY WhatIsWritten
  <2>2. memory'[s].count = Len(m) /\ memory'[s].bytes = Over(m, memory[s].bytes)
    BY <1>1, <1>3, <1>5 DEF Publish
  <2>3. Written(s)' = m
    BY <1>1, <1>4, <2>1, <2>2, WrittenIsNew
  <2> QED
    BY <1>1, <1>2, <1>5, <2>3 DEF Publish, Quiet
<1>6. ASSUME NEW m \in Messages, NEW isString \in BOOLEAN, WriteCount(p, m, isString)
      PROVE  GoingOn
  <2> DEFINE n == IF isString THEN StringCount(m) ELSE Len(m)
             new == SubSeq(m, 1, n)
  <2>1. Len(new) = n /\ new \in {m, SubSeq(m, 1, Len(m) - 1)}
    BY WhatIsWritten
  <2>2. /\ memory' = [memory EXCEPT ![s].count = n] /\ job' = [job EXCEPT ![p] = <<"flag", new>>]
        /\ dirty' = dirty \cup {s}
    BY <1>1, <1>6 DEF WriteCount
  <2> HIDE DEF n, new
  <2>3. job'[p] = <<"flag", new>>
    BY <2>2 DEF MemTypeOK
  <2>4. memory'[s].count = n
    BY <1>1, <1>3, <2>2
  <2>5. ~Quiet(p)' /\ job'[p][1] = "flag" /\ job'[p][2] = new
    BY <2>3 DEF Quiet, NoJob
  <2> QED
    BY <1>1, <1>2, <2>1, <2>2, <2>4, <2>5 DEF Mem
<1>7. CASE WriteFlag(p)
  <2>1. /\ s \in dirty /\ memory[s].count = Len(job[p][2])
        /\ \E m \in Messages : job[p][2] \in {m, SubSeq(m, 1, Len(m) - 1)}
    BY <1>1, <1>7 DEF WriteFlag, Quiet, SegmentsInv, WritingInv, Mem
  <2>2. job'[p] = <<"copy", job[p][2]>>
    <3>1. job[p] \in {"flag", "copy"} \X Seq(Nat)
      BY <1>7 DEF WriteFlag, MemTypeOK
    <3>2. job'[p] = [job[p] EXCEPT ![1] = "copy"]
      BY <1>7 DEF WriteFlag, MemTypeOK
    <3> QED
      BY <3>1, <3>2, StageSet
  <2>3. memory'[s].count = memory[s].count /\ memory'[s].flag = "0"
    BY <1>1, <1>3, <1>7 DEF WriteFlag
  <2>4. dirty' = dirty
    BY <1>7 DEF WriteFlag
  <2>5. ~Quiet(p)' /\ job'[p][1] = "copy" /\ job'[p][2] = job[p][2]
    BY <2>2 DEF Quiet, NoJob
  <2>6. GoingOn
    BY <1>1, <1>2, <2>1, <2>3, <2>4, <2>5 DEF Mem
  <2> QED
    BY <1>0, <1>1, <1>2, <2>6, WriterStep
<1>8. CASE WriteBytes(p)
  <2>1. /\ memory[s].count = Len(job[p][2]) /\ memory[s].flag = "0"
        /\ \E m \in Messages : job[p][2] \in {m, SubSeq(m, 1, Len(m) - 1)}
    BY <1>1, <1>8 DEF WriteBytes, Quiet, SegmentsInv, WritingInv, Mem
  <2>2. job[p][2] \in Seq(Nat)
    BY <1>8 DEF WriteBytes, MemTypeOK
  <2>3. /\ memory'[s].count = memory[s].count /\ memory'[s].flag = memory[s].flag
        /\ memory'[s].bytes = Over(job[p][2], memory[s].bytes)
    BY <1>1, <1>3, <1>8 DEF WriteBytes
  <2>4. Written(s)' = job[p][2]
    BY <1>1, <1>4, <2>1, <2>2, <2>3, WrittenIsNew
  <2>5. s \notin dirty' /\ Quiet(p)'
    BY <1>1, <1>8 DEF WriteBytes, Quiet, MemTypeOK
  <2>6. Ended
    BY <2>1, <2>3, <2>4, <2>5
  <2> QED
    BY <1>0, <1>1, <1>2, <2>6, WriterStep
<1>9. CASE \E m \in Messages : Publish(p, m)
  <2>1. Ended
    BY <1>5, <1>9
  <2> QED
    BY <1>0, <1>1, <1>2, <2>1, WriterStep
<1>10. CASE \E m \in Messages, isString \in BOOLEAN : WriteCount(p, m, isString)
  <2>1. GoingOn
    BY <1>6, <1>10
  <2> QED
    BY <1>0, <1>1, <1>2, <2>1, WriterStep
<1> QED
  BY <1>7, <1>8, <1>9, <1>10 DEF Writer

\* The reader of one process takes a step, or ends with it.
LEMMA ReaderStep ==
  ASSUME SegmentsInv, NEW p \in Procs,
         UNCHANGED <<memory, attached, job, dirty, cut>>,
         \A q \in Procs \ {p} : (q \in stirred' <=> q \in stirred) /\ rpc'[q] = rpc[q] /\ rcount'[q] = rcount[q],
         p \notin stirred' /\ rpc'[p] # "count" =>
           /\ attached[p] \in dirty => attached[p] \in cut
           /\ rcount'[p] = Mem(p).count
           /\ rpc'[p] = "copy" => Mem(p).flag = "1"
  PROVE  SegmentsInv'
<1>1. WritingInv' /\ DirtyInv'
  BY DEF SegmentsInv, WritingInv, DirtyInv, BeingWritten, Mem, Quiet
<1>3. CleanInv'
  BY DEF SegmentsInv, CleanInv, Written, Content
<1>2. UnstirredInv'
  <2>1. ASSUME NEW q \in Procs \ stirred', rpc'[q] # "count"
        PROVE  /\ attached'[q] \in dirty' => attached'[q] \in cut'
               /\ rcount'[q] = Mem(q)'.count
               /\ rpc'[q] = "copy" => Mem(q)'.flag = "1"
    BY <2>1 DEF SegmentsInv, UnstirredInv, Mem
  <2> QED
    BY <2>1 DEF UnstirredInv
<1> QED
  BY <1>1, <1>2, <1>3 DEF SegmentsInv

\* A process ends, or is killed: the write it was in is left where it was.
LEMMA VanishKeepsSegments ==
  ASSUME SemTypeOK, SemInv, MemTypeOK, PlacesInv, SegmentsInv, spoiled = {},
         NEW p \in Procs, Vanish(p)
  PROVE  SegmentsInv'
<1>1. /\ UNCHANGED <<memory, dirty>>
      /\ rpc'[p] = "count" /\ Quiet(p)'
      /\ \A q \in Procs \ {p} : /\ attached'[q] = attached[q] /\ job'[q] = job[q]
                                /\ rpc'[q] = rpc[q] /\ rcount'[q] = rcount[q]
                                /\ q \in stirred' <=> q \in stirred
      /\ cut \subseteq cut' /\ (~Quiet(p) => attached[p] \in cut')
  BY DEF Vanish, ReadAgain, Quiet, MemTypeOK
<1>2. WritingInv'
  <2>1. ASSUME NEW q \in Procs, ~Quiet(q)'
        PROVE  q # p /\ ~Quiet(q)
    BY <1>1, <2>1 DEF Quiet
  <2> QED
    BY <1>1, <2>1 DEF SegmentsInv, WritingInv, Mem
<1>3. DirtyInv'
  <2>1. ASSUME NEW t \in dirty
        PROVE  t \in cut' \/ \E q \in Procs : ~Quiet(q)' /\ attached'[q] = t
    <3>1. CASE t \in cut
      BY <1>1, <3>1
    <3>2. CASE t \notin cut
      <4>1. PICK q \in Procs : ~Quiet(q) /\ attached[q] = t
        BY <2>1, <3>2 DEF SegmentsInv, DirtyInv, BeingWritten
      <4> QED
        BY <1>1, <4>1 DEF Quiet
    <3> QED
      BY <3>1, <3>2
  <2> QED
    BY <1>1, <2>1 DEF DirtyInv, BeingWritten
<1>4. CleanInv'
  BY <1>1 DEF SegmentsInv, CleanInv, Written, Content
<1>5. UnstirredInv'
  <2>1. ASSUME NEW q \in Procs \ stirred', rpc'[q] # "count"
        PROVE  /\ attached'[q] \in dirty' => attached'[q] \in cut'
               /\ rcount'[q] = Mem(q)'.count
               /\ rpc'[q] = "copy" => Mem(q)'.flag = "1"
    BY <1>1, <2>1 DEF SegmentsInv, UnstirredInv, Mem
  <2> QED
    BY <2>1 DEF UnstirredInv
<1> QED
  BY <1>2, <1>3, <1>4, <1>5 DEF SegmentsInv

\* A process that is not writing and not reading comes or goes.
LEMMA AttachKeepsSegments ==
  ASSUME MemTypeOK, PlacesInv, SegmentsInv, NEW p \in Procs, Attach(p) \/ Detach(p)
  PROVE  SegmentsInv'
<1>1. /\ UNCHANGED <<memory, job, rpc, rcount, dirty, cut, stirred>>
      /\ \A q \in Procs \ {p} : attached'[q] = attached[q]
  BY DEF Attach, Detach, MemTypeOK
<1>2. Quiet(p) /\ rpc[p] = "count"
  BY DEF Attach, Detach, PlacesInv, Running
<1>3. \A q \in Procs : Quiet(q)' <=> Quiet(q)
  BY <1>1 DEF Quiet
<1>4. WritingInv' /\ DirtyInv'
  BY <1>1, <1>2, <1>3 DEF SegmentsInv, WritingInv, DirtyInv, BeingWritten, Mem
<1>5. CleanInv' /\ UnstirredInv'
  BY <1>1, <1>2 DEF SegmentsInv, CleanInv, UnstirredInv, Mem, Written, Content
<1> QED
  BY <1>4, <1>5 DEF SegmentsInv

LEMMA SegmentsUnchanged ==
  ASSUME SegmentsInv, UNCHANGED memVars
  PROVE  SegmentsInv'
BY DEF memVars, SegmentsInv, WritingInv, DirtyInv, BeingWritten, CleanInv, UnstirredInv, Mem, Quiet,
   Written, Content

LEMMA ReaderKeepsSegments ==
  ASSUME MemTypeOK, SegmentsInv, NEW p \in Procs,
         ReadCount(p) \/ ReadFlag(p) \/ Take(p)
  PROVE  SegmentsInv'
<1> USE DEF MemTypeOK
<1>1. /\ UNCHANGED <<memory, attached, job, dirty, cut>>
      /\ \A q \in Procs \ {p} : /\ q \in stirred' <=> q \in stirred
                                /\ rpc'[q] = rpc[q] /\ rcount'[q] = rcount[q]
  BY DEF ReadCount, ReadFlag, Take, ReadAgain
<1>2. ASSUME p \notin stirred', rpc'[p] # "count"
      PROVE  /\ attached[p] \in dirty => attached[p] \in cut
             /\ rcount'[p] = Mem(p).count
             /\ rpc'[p] = "copy" => Mem(p).flag = "1"
  <2>1. CASE ReadCount(p)
    BY <1>2, <2>1 DEF ReadCount, SegmentsInv, DirtyInv, BeingWritten
  <2>2. CASE ReadFlag(p)
    <3>1. /\ Mem(p).flag = "1" /\ UNCHANGED <<rcount, stirred>>
          /\ rpc[p] = "flag"
      BY <1>2, <2>2 DEF ReadFlag, ReadAgain
    <3> QED
      BY <1>2, <3>1 DEF SegmentsInv, UnstirredInv
  <2>3. CASE Take(p)
    BY <1>2, <2>3 DEF Take, ReadAgain
  <2> QED
    BY <2>1, <2>2, <2>3
<1> QED
  BY <1>1, <1>2, ReaderStep

LEMMA MemInvStep ==
  ASSUME SemTypeOK, SemInv, MemTypeOK, MemInv, [MemNext]_allVars
  PROVE  MemInv'
<1>1. PlacesInv'
  BY PlacesStep DEF MemInv
<1>2. spoiled' = {} => spoiled = {}
  <2>1. [SemNext]_semVars
    BY MemoryStep
  <2> QED
    BY <2>1, SpoiledStays
<1>3. ASSUME spoiled = {}
      PROVE  SegmentsInv'
  <2> USE <1>3 DEF MemInv
  <2>1. CASE UNCHANGED allVars
    BY <2>1, SegmentsUnchanged DEF allVars
  <2>2. ASSUME NEW p \in Procs, Attach(p) \/ Detach(p)
        PROVE  SegmentsInv'
    BY <2>2, AttachKeepsSegments
  <2>3. ASSUME NEW p \in Procs, UseSemaphore(p)
        PROVE  SegmentsInv'
    BY <2>3, SegmentsUnchanged DEF UseSemaphore
  <2>4. ASSUME NEW p \in Procs, EndProcess(p)
        PROVE  SegmentsInv'
    <3>1. /\ UNCHANGED <<memory, attached, job, dirty, cut>>
          /\ rpc'[p] = "count"
          /\ \A q \in Procs \ {p} : /\ q \in stirred' <=> q \in stirred
                                    /\ rpc'[q] = rpc[q] /\ rcount'[q] = rcount[q]
      BY <2>4 DEF EndProcess, ReadAgain, MemTypeOK
    <3> QED
      BY <3>1, ReaderStep
  <2>5. ASSUME NEW p \in Procs, Killed(p) \/ AbortReading(p)
        PROVE  SegmentsInv'
    BY <2>5, VanishKeepsSegments DEF Killed, AbortReading
  <2>6. ASSUME NEW p \in Procs, Writer(p)
        PROVE  SegmentsInv'
    BY <2>6, WriterKeepsSegments
  <2>7. ASSUME NEW p \in Procs, ReadCount(p) \/ ReadFlag(p) \/ Take(p)
        PROVE  SegmentsInv'
    BY <2>7, ReaderKeepsSegments
  <2> QED
    BY <2>1, <2>2, <2>3, <2>4, <2>5, <2>6, <2>7 DEF MemNext, Reader
<1> QED
  BY <1>1, <1>2, <1>3 DEF MemInv

LEMMA MemInitially ==
  ASSUME MemInit
  PROVE  MemTypeOK /\ MemInv
<1>1. MaxSegs \in Nat
  BY SharedMemoryAssumption
<1>2. MemTypeOK
  <2>1. <<>> \in Seq(Nat) /\ 0 \in 0 .. MaxSegs
    BY <1>1
  <2> QED
    BY <2>1 DEF MemInit, MemTypeOK, NoJob
<1>3. \A p \in Procs : Quiet(p) /\ pc[p] = "absent" /\ rpc[p] = "count"
  BY DEF MemInit, SemInit, Quiet
<1>4. PlacesInv
  BY <1>3 DEF PlacesInv
<1>5. WritingInv /\ DirtyInv /\ UnstirredInv
  BY <1>3 DEF MemInit, WritingInv, DirtyInv, BeingWritten, UnstirredInv
<1>6. CleanInv
  BY DEF MemInit, CleanInv
<1> QED
  BY <1>2, <1>4, <1>5, <1>6 DEF MemInv, SegmentsInv

LEMMA MemSafe == MemSpec => [](SemTypeOK /\ SemInv /\ MemTypeOK /\ MemInv)
<1>1. MemSpec => [](SemTypeOK /\ SemInv)
  BY MemoryStepsSemaphore, SemTypeCorrect, UnitsFollowHolders, PTL
<1>2. MemInit => MemTypeOK /\ MemInv
  BY MemInitially
<1>3. SemTypeOK /\ SemInv /\ MemTypeOK /\ MemInv /\ [MemNext]_allVars => MemTypeOK' /\ MemInv'
  BY MemTypeStep, MemInvStep DEF MemInv
<1> QED
  BY <1>1, <1>2, <1>3, PTL DEF MemSpec

\* Every variable of the segments, their writers and readers keeps its type,
\* for any processes, messages and bounds.
THEOREM MemTypeCorrect == MemSpec => []MemTypeOK
<1> QED
  BY MemSafe, PTL

\* A segment nobody writes in, and in which no writer died, holds one whole
\* message or a string without its last character: the three writes of
\* write_data are one, thanks to the semaphore (shm.cpp:8-16,
\* semaphore.hpp:114-140).
THEOREM SegmentsAreWhole == MemSpec => []WholeWhenFree
<1>1. SemTypeOK /\ SemInv /\ MemTypeOK /\ MemInv => WholeWhenFree
  <2> SUFFICES ASSUME MemInv, spoiled = {}, ~(\E p \in Procs : pc[p] = "inside"),
                      NEW s \in Segs \ cut
               PROVE  \/ memory[s].count = 0
                      \/ \E m \in Messages : Written(s) \in {m, SubSeq(m, 1, Len(m) - 1)}
    BY DEF WholeWhenFree
  <2>1. s \notin dirty
    BY DEF MemInv, PlacesInv, SegmentsInv, DirtyInv, BeingWritten
  <2> QED
    BY <2>1 DEF MemInv, SegmentsInv, CleanInv
<1> QED
  BY <1>1, MemSafe, PTL

\* The reader, who takes no part in the critical region, is only ever torn by a write
\* of a running process that goes on between its look at the count and its copy of
\* the bytes, or in a segment whose last writer died in its write
\* (read_sharedmemory.hpp:50-61).
THEOREM ReaderTornByWriteOnly == MemSpec => []TornOnlyUnderWrite
<1>1. SemTypeOK /\ SemInv /\ MemTypeOK /\ MemInv => TornOnlyUnderWrite
  <2> SUFFICES ASSUME MemTypeOK, MemInv, spoiled = {}, NEW p \in Procs, rpc[p] = "copy",
                      p \notin stirred, attached[p] \notin cut
               PROVE  ReadBytes(p) \in Messages
    BY DEF TornOnlyUnderWrite
  <2>1. /\ attached[p] \notin dirty /\ rcount[p] = Mem(p).count /\ Mem(p).flag = "1"
    BY DEF MemInv, SegmentsInv, UnstirredInv
  <2>2. attached[p] \in Segs
    BY AttachedType DEF MemInv, PlacesInv, Running
  <2>3. Written(attached[p]) \in Messages
    BY <2>1, <2>2 DEF MemInv, SegmentsInv, CleanInv, Mem
  <2> QED
    BY <2>1, <2>3 DEF ReadBytes, Written, Mem
<1> QED
  BY <1>1, MemSafe, PTL
=============================================================================
