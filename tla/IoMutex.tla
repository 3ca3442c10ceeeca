------------------------------ MODULE IoMutex ------------------------------
(***************************************************************************)
(* The recursive lock of bounce.h (class cIoMutex).  Lock() decides        *)
(* without holding anything whether the calling thread is inside already:  *)
(* it reads `thread' and then `locked' while other threads write them.     *)
(* Every read and write of these members is an action of its own.          *)
(***************************************************************************)
EXTENDS Integers

CONSTANTS Thread,    \* the threads that share the lock
          NoThread,  \* thread = 0, and the pthread mutex is not held
          MaxDepth   \* bound: how deep a thread nests its calls of Lock()

ASSUME NoThreadAssumption == NoThread \notin Thread
ASSUME MaxDepthAssumption == MaxDepth \in Nat \ {0}

VARIABLES locked, thread, mutex,  \* the members of cIoMutex
          pc,                     \* where each thread is in Lock() or Unlock()
          depth                   \* history: the calls of Lock() it is inside of

vars == <<locked, thread, mutex, pc, depth>>

Label == {"out", "test", "acquire", "own", "count", "disown", "release"}

TypeOK ==
  /\ locked \in Nat
  /\ thread \in Thread \cup {NoThread}
  /\ mutex \in Thread \cup {NoThread}
  /\ pc \in [Thread -> Label]
  /\ depth \in [Thread -> 0..MaxDepth]

Init ==
  /\ locked = 0 /\ thread = NoThread /\ mutex = NoThread
  /\ pc = [t \in Thread |-> "out"]
  /\ depth = [t \in Thread |-> 0]

Goto(t, from, to) == pc[t] = from /\ pc' = [pc EXCEPT ![t] = to]

(* Mutant: Lock() trusts locked alone.                                     *)
LockReadNothing(t) ==
  /\ depth[t] < MaxDepth
  /\ Goto(t, "out", "test")
  /\ UNCHANGED <<locked, thread, mutex, depth>>

(* Lock(): if (thread != pthread_self() || !locked)                        *)
LockReadThread(t) ==
  /\ depth[t] < MaxDepth
  /\ Goto(t, "out", IF thread = t THEN "test" ELSE "acquire")
  /\ UNCHANGED <<locked, thread, mutex, depth>>

(* Mutant: Lock() is not recursive.                                        *)
LockAlways(t) ==
  /\ Goto(t, "test", "acquire")
  /\ UNCHANGED <<locked, thread, mutex, depth>>

LockReadLocked(t) ==
  /\ Goto(t, "test", IF locked = 0 THEN "acquire" ELSE "count")
  /\ UNCHANGED <<locked, thread, mutex, depth>>

LockAcquire(t) ==
  /\ mutex = NoThread
  /\ Goto(t, "acquire", "own")
  /\ mutex' = t
  /\ UNCHANGED <<locked, thread, depth>>

LockOwn(t) ==
  /\ Goto(t, "own", "count")
  /\ thread' = t
  /\ UNCHANGED <<locked, mutex, depth>>

(* Mutant: locked is set and not counted.                                  *)
LockSetsOne(t) ==
  /\ Goto(t, "count", "out")
  /\ locked' = 1
  /\ depth' = [depth EXCEPT ![t] = @ + 1]
  /\ UNCHANGED <<thread, mutex>>

LockCount(t) ==
  /\ Goto(t, "count", "out")
  /\ locked' = locked + 1
  /\ depth' = [depth EXCEPT ![t] = @ + 1]
  /\ UNCHANGED <<thread, mutex>>

(* Mutant: the last Unlock() keeps the lock.                               *)
UnlockKeepsLast(t) ==
  /\ depth[t] > 0
  /\ Goto(t, "out", "out")
  /\ locked' = IF locked > 1 THEN locked - 1 ELSE 1
  /\ depth' = [depth EXCEPT ![t] = @ - 1]
  /\ UNCHANGED <<thread, mutex>>

(* Unlock(): if (!--locked)                                                *)
UnlockCount(t) ==
  /\ depth[t] > 0
  /\ Goto(t, "out", IF locked = 1 THEN "disown" ELSE "out")
  /\ locked' = locked - 1
  /\ depth' = [depth EXCEPT ![t] = @ - 1]
  /\ UNCHANGED <<thread, mutex>>

UnlockDisown(t) ==
  /\ Goto(t, "disown", "release")
  /\ thread' = NoThread
  /\ UNCHANGED <<locked, mutex, depth>>

UnlockRelease(t) ==
  /\ Goto(t, "release", "out")
  /\ mutex' = NoThread
  /\ UNCHANGED <<locked, thread, depth>>

Step(t) ==
  \/ LockReadThread(t) \/ LockReadLocked(t) \/ LockAcquire(t)
  \/ LockOwn(t) \/ LockCount(t)
  \/ UnlockCount(t) \/ UnlockDisown(t) \/ UnlockRelease(t)

Next == \E t \in Thread : Step(t)

Spec == Init /\ [][Next]_vars

(* Every critical section of bounce.h is finite, so that a thread does not *)
(* nest calls for ever, and a thread blocked in pthread_mutex_lock gets    *)
(* the mutex when it is released again and again.                          *)
FairSpec ==
  /\ Spec
  /\ \A t \in Thread :
       /\ WF_vars(LockReadLocked(t)) /\ SF_vars(LockAcquire(t))
       /\ WF_vars(LockOwn(t)) /\ WF_vars(LockCount(t))
       /\ \A d \in 1..MaxDepth : SF_vars(UnlockCount(t) /\ locked = d)
       /\ WF_vars(UnlockDisown(t)) /\ WF_vars(UnlockRelease(t))

-----------------------------------------------------------------------------
Inside(t) == depth[t] > 0

(* Two threads are never inside the lock together, whatever the unlocked   *)
(* test of Lock() read.                                                    *)
MutualExclusion == \A s, t \in Thread : Inside(s) /\ Inside(t) => s = t

(* A thread that holds the pthread mutex, which is not recursive, never    *)
(* waits for it.                                                           *)
NoSelfDeadlock == \A t \in Thread : pc[t] = "acquire" => mutex # t

(* `locked' counts the calls of the thread that is inside, so that the     *)
(* mutex is given back by the last Unlock() and by no earlier one.         *)
LockedIsDepth ==
  /\ \A t \in Thread : Inside(t) => locked = depth[t] /\ mutex = t
  /\ locked # 0 => \E t \in Thread : Inside(t)

(* A call of Lock() returns.                                               *)
LockReturns == \A t \in Thread : pc[t] = "acquire" ~> pc[t] = "out"
=============================================================================
