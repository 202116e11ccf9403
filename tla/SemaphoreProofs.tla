--------------------------- MODULE SemaphoreProofs ---------------------------
(***************************************************************************)
(* Theorems about Semaphore, for any number of threads and permits.        *)
(***************************************************************************)
EXTENDS Semaphore, FiniteSetTheorems, TLAPS

(* No permit is lost or made: those not taken and those taken are all. *)
PermitsConserved == remaining + Cardinality(ThreadsAt("inside")) = Permits

(* NeverTooMany and NoLostWakeup follow from counting what a step moves. *)
IInv == SemaphoreTypeOK /\ PermitsConserved /\ NoLostWakeup

(* The threads at one place are finitely many, and so they can be counted. *)
LEMMA Counts ==
    ASSUME NEW p
    PROVE  /\ IsFiniteSet(ThreadsAt(p)) /\ IsFiniteSet(ThreadsAt(p)')
           /\ Cardinality(ThreadsAt(p)) \in Nat /\ Cardinality(ThreadsAt(p)') \in Nat
<1>1. IsFiniteSet(ThreadsAt(p)) /\ IsFiniteSet(ThreadsAt(p)')
  BY SemaphoreAssumption, FS_Subset DEF ThreadsAt
<1> QED
  BY <1>1, FS_CardinalityType

(* One thread more or less at a place is one more or less in its count. *)
LEMMA Arrives ==
    ASSUME NEW p, NEW t, t \notin ThreadsAt(p), ThreadsAt(p)' = ThreadsAt(p) \cup {t}
    PROVE  Cardinality(ThreadsAt(p)') = Cardinality(ThreadsAt(p)) + 1
BY Counts, FS_AddElement

(* When one task leaves a place, one task fewer is counted there. *)
LEMMA Leaves ==
    ASSUME NEW p, NEW t, t \in ThreadsAt(p), ThreadsAt(p)' = ThreadsAt(p) \ {t}
    PROVE  Cardinality(ThreadsAt(p)') = Cardinality(ThreadsAt(p)) - 1
BY Counts, FS_RemoveElement

(* At first all the permits are there and nobody waits. *)
LEMMA InitIInv == SemaphoreInit => IInv
<1> SUFFICES ASSUME SemaphoreInit PROVE IInv
  OBVIOUS
<1>1. SemaphoreTypeOK
  BY SemaphoreAssumption DEF SemaphoreInit, SemaphoreTypeOK
<1>2. ThreadsAt("inside") = {} /\ ThreadsAt("waiting") = {}
  BY DEF SemaphoreInit, ThreadsAt
<1>3. PermitsConserved
  BY <1>2, FS_EmptySet, SemaphoreAssumption DEF SemaphoreInit, PermitsConserved
<1> QED
  BY <1>1, <1>2, <1>3 DEF IInv, NoLostWakeup

(* A thread that takes a permit may be one that was woken for it: there is
   one permit and at most one woken thread less.                            *)
LEMMA EnterIInv == ASSUME IInv, NEW t \in Threads, Enter(t) PROVE IInv'
<1>1. SemaphoreTypeOK' /\ remaining > 0 /\ remaining \in Nat /\ remaining' = remaining - 1
  BY DEF IInv, SemaphoreTypeOK, Enter
<1>2. t \notin ThreadsAt("inside") /\ ThreadsAt("inside")' = ThreadsAt("inside") \cup {t}
  BY DEF IInv, SemaphoreTypeOK, Enter, ThreadsAt
<1>3. ThreadsAt("waiting")' = ThreadsAt("waiting")
  BY DEF IInv, SemaphoreTypeOK, Enter, ThreadsAt
<1>4. Cardinality(ThreadsAt("woken")') >= Cardinality(ThreadsAt("woken")) - 1
  <2>1. CASE pc[t] = "woken"
    <3>1. t \in ThreadsAt("woken") /\ ThreadsAt("woken")' = ThreadsAt("woken") \ {t}
      BY <2>1 DEF IInv, SemaphoreTypeOK, Enter, ThreadsAt
    <3> QED
      BY <3>1, Leaves, Counts
  <2>2. CASE pc[t] # "woken"
    <3>1. ThreadsAt("woken")' = ThreadsAt("woken")
      BY <2>2 DEF IInv, SemaphoreTypeOK, Enter, ThreadsAt
    <3> QED
      BY <3>1, Counts
  <2> QED
    BY <2>1, <2>2
<1>5. PermitsConserved'
  BY <1>1, <1>2, Arrives, Counts DEF IInv, PermitsConserved
<1>6. NoLostWakeup'
  BY <1>1, <1>3, <1>4, Counts DEF IInv, NoLostWakeup
<1> QED
  BY <1>1, <1>5, <1>6 DEF IInv

(* A thread waits only when there is no permit to be had. *)
LEMMA WaitIInv == ASSUME IInv, NEW t \in Threads, Wait(t) PROVE IInv'
<1>1. SemaphoreTypeOK' /\ remaining = 0 /\ remaining' = remaining
  BY DEF IInv, SemaphoreTypeOK, Wait
<1>2. ThreadsAt("inside")' = ThreadsAt("inside")
  BY DEF IInv, SemaphoreTypeOK, Wait, ThreadsAt
<1>3. PermitsConserved'
  BY <1>1, <1>2 DEF IInv, PermitsConserved
<1>4. NoLostWakeup'
  BY <1>1, Counts DEF NoLostWakeup
<1> QED
  BY <1>1, <1>3, <1>4 DEF IInv

(* A permit that is given back wakes a thread, if there is one to be woken. *)
LEMMA ReleaseIInv == ASSUME IInv, NEW t \in Threads, Release(t) PROVE IInv'
<1>1. remaining \in Nat /\ remaining' = remaining + 1
  BY DEF IInv, SemaphoreTypeOK, Release
<1>2. t \in ThreadsAt("inside") /\ ThreadsAt("inside")' = ThreadsAt("inside") \ {t}
  BY DEF IInv, SemaphoreTypeOK, Release, ThreadsAt
<1>3. SemaphoreTypeOK'
  BY DEF IInv, SemaphoreTypeOK, Release, ThreadsAt
<1>4. PermitsConserved'
  BY <1>1, <1>2, Leaves, Counts DEF IInv, PermitsConserved
<1>5. NoLostWakeup'
  <2>1. CASE ThreadsAt("waiting") = {}
    <3>1. ThreadsAt("waiting")' = {}
      BY <2>1 DEF IInv, SemaphoreTypeOK, Release, ThreadsAt
    <3> QED
      BY <3>1 DEF NoLostWakeup
  <2>2. CASE ThreadsAt("waiting") # {}
    <3>1. PICK w \in ThreadsAt("waiting") : pc' = [pc EXCEPT ![t] = "done", ![w] = "woken"]
      BY <2>2 DEF Release
    <3>2. w \notin ThreadsAt("woken") /\ ThreadsAt("woken")' = ThreadsAt("woken") \cup {w}
      BY <3>1 DEF IInv, SemaphoreTypeOK, Release, ThreadsAt
    <3> QED
      BY <1>1, <2>2, <3>2, Arrives, Counts DEF IInv, NoLostWakeup
  <2> QED
    BY <2>1, <2>2
<1> QED
  BY <1>3, <1>4, <1>5 DEF IInv

(* A thread that wakes by itself only adds to those that look again. *)
LEMMA WakeIInv == ASSUME IInv, NEW t \in Threads, WakeSpuriously(t) PROVE IInv'
<1>1. SemaphoreTypeOK' /\ remaining \in Nat /\ remaining' = remaining /\ t \in ThreadsAt("waiting")
  BY DEF IInv, SemaphoreTypeOK, WakeSpuriously, ThreadsAt
<1>2. ThreadsAt("inside")' = ThreadsAt("inside")
  BY DEF IInv, SemaphoreTypeOK, WakeSpuriously, ThreadsAt
<1>3. t \notin ThreadsAt("woken") /\ ThreadsAt("woken")' = ThreadsAt("woken") \cup {t}
  BY DEF IInv, SemaphoreTypeOK, WakeSpuriously, ThreadsAt
<1>4. PermitsConserved'
  BY <1>1, <1>2 DEF IInv, PermitsConserved
<1>5. NoLostWakeup'
  BY <1>1, <1>3, Arrives, Counts DEF IInv, NoLostWakeup
<1> QED
  BY <1>1, <1>4, <1>5 DEF IInv

(* Every step keeps the invariant. *)
LEMMA NextIInv == IInv /\ [SemaphoreNext]_semaphoreVars => IInv'
<1> SUFFICES ASSUME IInv, [SemaphoreNext]_semaphoreVars PROVE IInv'
  OBVIOUS
<1>1. ASSUME NEW t \in Threads, ThreadStep(t) PROVE IInv'
  BY <1>1, EnterIInv, WaitIInv, ReleaseIInv DEF ThreadStep
<1>2. ASSUME NEW t \in Threads, WakeSpuriously(t) PROVE IInv'
  BY <1>2, WakeIInv
<1>3. CASE UNCHANGED semaphoreVars
  BY <1>3 DEF IInv, SemaphoreTypeOK, PermitsConserved, NoLostWakeup, ThreadsAt, semaphoreVars
<1> QED
  BY <1>1, <1>2, <1>3 DEF SemaphoreNext

(* The invariant of every behavior, on which the theorems rest. *)
LEMMA AlwaysIInv == SemaphoreSpec => []IInv
BY InitIInv, NextIInv, PTL DEF SemaphoreSpec

(* The permit count never falls below zero (a usize), and a thread is at
   one of the five places.                                                  *)
THEOREM SemaphoreTypeCorrect == SemaphoreSpec => []SemaphoreTypeOK
<1>1. IInv => SemaphoreTypeOK
  BY DEF IInv
<1> QED
  BY <1>1, AlwaysIInv, PTL

(* Between acquire and release there are never more threads than permits. *)
THEOREM SemaphoreBounds == SemaphoreSpec => []NeverTooMany
<1>1. IInv => NeverTooMany
  BY Counts, SemaphoreAssumption DEF IInv, SemaphoreTypeOK, PermitsConserved, NeverTooMany
<1> QED
  BY <1>1, AlwaysIInv, PTL

(* No notification is lost: for every free permit a waiting thread is on its
   way, unless nobody waits.                                                *)
THEOREM SemaphoreWakes == SemaphoreSpec => []NoLostWakeup
<1>1. IInv => NoLostWakeup
  BY DEF IInv
<1> QED
  BY <1>1, AlwaysIInv, PTL
=============================================================================
