------------------------------ MODULE Semaphore ------------------------------
(***************************************************************************)
(* The counting semaphore of src/src/semaphore.rs: a Mutex<usize> and a    *)
(* Condvar.  What is done under the mutex is one step.  A thread that finds *)
(* no permit waits on the condition variable; once it is woken it takes    *)
(* the mutex again and looks again, possibly after a thread that came      *)
(* later.  A thread works once and ends, as in the test of semaphore.rs    *)
(* and as command_update_all of src/src/main.rs means to.                  *)
(***************************************************************************)
EXTENDS Naturals, FiniteSets

CONSTANTS
    Threads,    \* the threads that use the semaphore
    Permits     \* Semaphore::new(count)

ASSUME SemaphoreAssumption == IsFiniteSet(Threads) /\ Permits \in Nat

VARIABLES
    remaining,  \* the value under the mutex
    pc          \* where each thread is

semaphoreVars == <<remaining, pc>>

SemaphoreTypeOK ==
    /\ remaining \in Nat
    /\ pc \in [Threads -> {"out", "waiting", "woken", "inside", "done"}]

SemaphoreInit ==
    /\ remaining = Permits
    /\ pc = [t \in Threads |-> "out"]

ThreadsAt(where) == {t \in Threads : pc[t] = where}

(* Mutant: a thread that was woken does not look again (if for while). *)
EnterWhenWoken(t) ==
    /\ pc[t] \in {"out", "woken"}
    /\ pc[t] = "out" => remaining > 0
    /\ remaining' = remaining - 1
    /\ pc' = [pc EXCEPT ![t] = "inside"]

(* acquire: there is a permit ... *)
Enter(t) ==
    /\ pc[t] \in {"out", "woken"}
    /\ remaining > 0
    /\ remaining' = remaining - 1
    /\ pc' = [pc EXCEPT ![t] = "inside"]

(* ... or there is none. *)
Wait(t) ==
    /\ pc[t] \in {"out", "woken"}
    /\ remaining = 0
    /\ pc' = [pc EXCEPT ![t] = "waiting"]
    /\ UNCHANGED remaining

(* Mutant: nobody is woken when there already was a permit. *)
ReleaseAndNotifyTheFirst(t) ==
    /\ pc[t] = "inside"
    /\ remaining' = remaining + 1
    /\ IF ThreadsAt("waiting") = {} \/ remaining > 0
       THEN pc' = [pc EXCEPT ![t] = "done"]
       ELSE \E w \in ThreadsAt("waiting") : pc' = [pc EXCEPT ![t] = "done", ![w] = "woken"]

(* release: notify_one wakes one of those that wait, if any does. *)
Release(t) ==
    /\ pc[t] = "inside"
    /\ remaining' = remaining + 1
    /\ IF ThreadsAt("waiting") = {}
       THEN pc' = [pc EXCEPT ![t] = "done"]
       ELSE \E w \in ThreadsAt("waiting") : pc' = [pc EXCEPT ![t] = "done", ![w] = "woken"]

(* Condvar::wait may return although nobody has notified. *)
WakeSpuriously(t) ==
    /\ pc[t] = "waiting"
    /\ pc' = [pc EXCEPT ![t] = "woken"]
    /\ UNCHANGED remaining

ThreadStep(t) == Enter(t) \/ Wait(t) \/ Release(t)

SemaphoreNext == \E t \in Threads : ThreadStep(t) \/ WakeSpuriously(t)

SemaphoreSpec == SemaphoreInit /\ [][SemaphoreNext]_semaphoreVars

(* Every thread gets to run, the mutex is free in the end, and the work
   between acquire and release ends.  Nothing is assumed of spurious wakeups. *)
SemaphoreFairSpec == SemaphoreSpec /\ \A t \in Threads : WF_semaphoreVars(ThreadStep(t))

----------------------------------------------------------------------------
(* What the semaphore is for: no more threads inside than there are permits. *)
NeverTooMany == Cardinality(ThreadsAt("inside")) <= Permits

(* No wakeup is lost: while anyone waits, at least as many threads are on
   their way to look again as there are permits to be had.                  *)
NoLostWakeup ==
    ThreadsAt("waiting") # {} => Cardinality(ThreadsAt("woken")) >= remaining

(* Every thread gets its permit and ends, although a thread that comes later
   may take the permit another one was woken for.                           *)
AllServed == \A t \in Threads : <>(pc[t] = "done")
=============================================================================
