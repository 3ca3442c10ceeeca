--------------------------- MODULE IoMutexProofs ---------------------------
(***************************************************************************)
(* Proofs about the recursive lock of bounce.h, for any number of threads  *)
(* and any nesting depth.                                                  *)
(***************************************************************************)
EXTENDS IoMutex, TLAPS

(* The steps at which a thread holds the pthread mutex.                    *)
Holding(t) == Inside(t) \/ pc[t] \in {"own", "count", "disown", "release"}

(* Why the unlocked test is safe: `thread' names t only while t holds the  *)
(* mutex, and only t itself changes that.                                  *)
HolderInv ==
  /\ \A t \in Thread : Holding(t) <=> mutex = t
  /\ \A t \in Thread : mutex = t => locked = depth[t]
  /\ mutex = NoThread => locked = 0
  /\ \A t \in Thread : thread = t <=> mutex = t /\ pc[t] \notin {"own", "release"}
  /\ \A t \in Thread : pc[t] = "test" => Inside(t)
  /\ \A t \in Thread : pc[t] \in {"acquire", "own", "disown", "release"} => ~Inside(t)
  /\ \A t \in Thread : pc[t] = "count" \/ pc[t] = "test" => depth[t] < MaxDepth

IInv == TypeOK /\ HolderInv

LEMMA InitIInv == Init => IInv
  BY NoThreadAssumption, MaxDepthAssumption
  DEF Init, IInv, TypeOK, HolderInv, Holding, Inside, Label

LEMMA TypePreserved == IInv /\ [Next]_vars => TypeOK'
<1> SUFFICES ASSUME IInv, [Next]_vars PROVE TypeOK'
  OBVIOUS
<1> USE NoThreadAssumption, MaxDepthAssumption DEF IInv, TypeOK, Label
<1>1. CASE UNCHANGED vars
  BY <1>1 DEF vars
<1>2. ASSUME NEW t \in Thread, Step(t) PROVE TypeOK'
  <2>1. CASE LockReadThread(t)
    BY <2>1 DEF LockReadThread, Goto
  <2>2. CASE LockReadLocked(t)
    BY <2>2 DEF LockReadLocked, Goto
  <2>3. CASE LockAcquire(t)
    BY <2>3 DEF LockAcquire, Goto
  <2>4. CASE LockOwn(t)
    BY <2>4 DEF LockOwn, Goto
  <2>5. CASE LockCount(t)
    BY <2>5 DEF LockCount, Goto, HolderInv
  <2>6. CASE UnlockCount(t)
    BY <2>6 DEF UnlockCount, Goto, HolderInv, Holding, Inside
  <2>7. CASE UnlockDisown(t)
    BY <2>7 DEF UnlockDisown, Goto
  <2>8. CASE UnlockRelease(t)
    BY <2>8 DEF UnlockRelease, Goto
  <2> QED
    BY <1>2, <2>1, <2>2, <2>3, <2>4, <2>5, <2>6, <2>7, <2>8 DEF Step
<1> QED
  BY <1>1, <1>2 DEF Next

LEMMA HolderPreserved == IInv /\ [Next]_vars => HolderInv'
<1> SUFFICES ASSUME IInv, [Next]_vars PROVE HolderInv'
  OBVIOUS
<1> USE NoThreadAssumption, MaxDepthAssumption
    DEF IInv, TypeOK, Label, HolderInv, Holding, Inside, Goto
<1>1. CASE UNCHANGED vars
  BY <1>1 DEF vars
<1>2. ASSUME NEW t \in Thread, Step(t) PROVE HolderInv'
  <2>1. CASE LockReadThread(t)
    BY <2>1 DEF LockReadThread
  <2>2. CASE LockReadLocked(t)
    BY <2>2 DEF LockReadLocked
  <2>3. CASE LockAcquire(t)
    BY <2>3 DEF LockAcquire
  <2>4. CASE LockOwn(t)
    BY <2>4 DEF LockOwn
  <2>5. CASE LockCount(t)
    BY <2>5 DEF LockCount
  <2>6. CASE UnlockCount(t)
    BY <2>6 DEF UnlockCount
  <2>7. CASE UnlockDisown(t)
    BY <2>7 DEF UnlockDisown
  <2>8. CASE UnlockRelease(t)
    BY <2>8 DEF UnlockRelease
  <2> QED
    BY <1>2, <2>1, <2>2, <2>3, <2>4, <2>5, <2>6, <2>7, <2>8 DEF Step
<1> QED
  BY <1>1, <1>2 DEF Next

(* The strengthened invariant holds in every state.                        *)
LEMMA Invariance == Spec => []IInv
<1>1. IInv /\ [Next]_vars => IInv'
  BY TypePreserved, HolderPreserved DEF IInv
<1> QED
  BY InitIInv, <1>1, PTL DEF Spec

(* The members keep their ranges; in particular `locked' never wraps below *)
(* zero, so that Unlock() is never one call ahead of Lock().               *)
THEOREM TypeCorrect == Spec => []TypeOK
<1>1. IInv => TypeOK
  BY DEF IInv
<1> QED
  BY Invariance, <1>1, PTL

(* cIoMutex excludes: two threads are never inside it together.            *)
THEOREM Exclusion == Spec => []MutualExclusion
<1>1. IInv => MutualExclusion
  BY DEF IInv, HolderInv, Holding, MutualExclusion
<1> QED
  BY Invariance, <1>1, PTL

(* A thread that holds the pthread mutex never waits for it: the unlocked  *)
(* test never sends a nested Lock() to pthread_mutex_lock.                 *)
THEOREM NestedLockPasses == Spec => []NoSelfDeadlock
<1>1. IInv => NoSelfDeadlock
  BY DEF IInv, HolderInv, Holding, NoSelfDeadlock
<1> QED
  BY Invariance, <1>1, PTL

(* `locked' is the nesting depth of the thread inside: the mutex is given  *)
(* back exactly by its last Unlock().                                      *)
THEOREM CountIsDepth == Spec => []LockedIsDepth
<1>1. IInv => LockedIsDepth
  BY NoThreadAssumption DEF IInv, TypeOK, HolderInv, Holding, Inside, LockedIsDepth
<1> QED
  BY Invariance, <1>1, PTL
=============================================================================
