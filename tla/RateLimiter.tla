----------------------------- MODULE RateLimiter -----------------------------
(***************************************************************************)
(* ratelimiter.rs: seven leaky buckets behind one mutex.  A wait_for_...   *)
(* call locks the mutex, asks its bucket, and sleeps if it has to.  The    *)
(* guard is a temporary of the matched expression and lives to the end of  *)
(* the match, so that the thread sleeps with the mutex locked, whichever   *)
(* bucket the others wait for.                                             *)
(*                                                                         *)
(* Time passes in ticks; a bucket loses one unit of its level in a tick.   *)
(* The buckets are the crate's ratelimit_meter.  A weight larger than the  *)
(* capacity panics; no caller passes one.                                  *)
(***************************************************************************)
EXTENDS Integers, Sequences

CONSTANTS
    Callers,
    Limits,
    Interval,   \* the units a request of weight one adds to the bucket
    Full,       \* the units a bucket holds: the time the limit is meant for
    Plans       \* what the callers may be about to call: <<limit, weight>> in turn

ASSUME LimiterAssumption ==
    /\ Interval \in [Limits -> Nat \ {0}] /\ Full \in [Limits -> Nat]
    /\ Plans \subseteq [Callers -> Seq(Limits \X Nat)]
    /\ \A plan \in Plans, c \in Callers : \A i \in DOMAIN plan[c] :
        plan[c][i][2] * Interval[plan[c][i][1]] <= Full[plan[c][i][1]]

NoCaller == "none"

VARIABLES
    level,      \* of each bucket, as it is now
    guard,      \* who holds the mutex
    asleep,     \* ticks its sleep still takes
    todo,       \* the calls of each caller that have not returned
    granted     \* for each limit, and each age, the weight let through in the last so many ticks

limiterVars == <<level, guard, asleep, todo, granted>>

LimiterInit ==
    /\ level = [l \in Limits |-> 0]
    /\ guard = NoCaller /\ asleep = 0
    /\ todo \in Plans
    /\ granted = [l \in Limits |-> [age \in 0 .. Full[l] |-> 0]]

Call(c) == Head(todo[c])
Units(call) == call[2] * Interval[call[1]]

(* Mutant: the bucket is asked before it counts the request. *)
ConformsBefore(call) == level[call[1]] <= Full[call[1]]

(* The bucket takes the request: the library's test of conformance. *)
Conforms(call) == level[call[1]] + Units(call) <= Full[call[1]]

Return(c) == todo' = [todo EXCEPT ![c] = Tail(@)]

(* Weight 0 does not even lock. *)
Skip(c) ==
    /\ todo[c] # <<>> /\ Call(c)[2] = 0
    /\ Return(c)
    /\ UNCHANGED <<level, guard, asleep, granted>>

(* Lock, ask and unlock; asked again after a sleep. *)
Grant(c) ==
    /\ todo[c] # <<>> /\ Call(c)[2] > 0
    /\ guard = NoCaller
    /\ Conforms(Call(c))
    /\ level' = [level EXCEPT ![Call(c)[1]] = @ + Units(Call(c))]
    /\ granted' = [granted EXCEPT ![Call(c)[1]] = [age \in DOMAIN @ |-> @[age] + Call(c)[2]]]
    /\ Return(c)
    /\ UNCHANGED <<guard, asleep>>

(* Lock, ask, and sleep as long as the bucket says, still locked. *)
Sleep(c) ==
    /\ todo[c] # <<>> /\ Call(c)[2] > 0
    /\ guard = NoCaller
    /\ ~Conforms(Call(c))
    /\ guard' = c
    /\ asleep' = level[Call(c)[1]] + Units(Call(c)) - Full[Call(c)[1]]
    /\ UNCHANGED <<level, todo, granted>>

(* Mutant: the next round of the loop asks with the guard still alive. *)
WakeUpLocked(c) ==
    /\ guard = c /\ asleep = 0
    /\ UNCHANGED <<level, guard, asleep, todo, granted>>

(* The match ends, and the loop begins anew. *)
WakeUp(c) ==
    /\ guard = c /\ asleep = 0
    /\ guard' = NoCaller
    /\ UNCHANGED <<level, asleep, todo, granted>>

LimiterTick ==
    /\ level' = [l \in Limits |-> IF level[l] = 0 THEN 0 ELSE level[l] - 1]
    /\ asleep' = IF asleep = 0 THEN 0 ELSE asleep - 1
    /\ granted' = [l \in Limits |->
                    [age \in 0 .. Full[l] |-> IF age = 0 THEN 0 ELSE granted[l][age - 1]]]
    /\ UNCHANGED <<guard, todo>>

CallerStep(c) == Skip(c) \/ Grant(c) \/ Sleep(c) \/ WakeUp(c)

LimiterNext == LimiterTick \/ \E c \in Callers : CallerStep(c)

(* Time passes, and the scheduler lets a thread that can go on do so.  No
   fairness is asked of the mutex: whom it passes over sleeps again only
   because of a request of somebody else.                                  *)
LimiterFairness ==
    WF_limiterVars(LimiterTick) /\ \A c \in Callers : WF_limiterVars(CallerStep(c))

LimiterSpec == LimiterInit /\ [][LimiterNext]_limiterVars /\ LimiterFairness

-----------------------------------------------------------------------------
(* What a limit lets through in any stretch of time is its capacity and what
   drips out meanwhile: never more than twice the capacity in the time the
   limit is meant for.                                                     *)
GrantsBounded ==
    \A l \in Limits : \A age \in 0 .. Full[l] : granted[l][age] * Interval[l] <= Full[l] + age

(* However long the others sleep with the mutex locked, each call returns. *)
AllGranted == \A c \in Callers : <>(todo[c] = <<>>)
=============================================================================
