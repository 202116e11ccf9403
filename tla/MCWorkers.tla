------------------------------ MODULE MCWorkers ------------------------------
(***************************************************************************)
(* What threads wait for: the worker of the simulated exchange, the rate   *)
(* limits, and the permits of the semaphore, side by side.  A behaviour    *)
(* moves the one in focus, as in MCParts.                                  *)
(***************************************************************************)
EXTENDS Simulator, RateLimiter, Semaphore

CONSTANT Focuses    \* the parts that move

VARIABLE focus

(* The three callers of the real program: the download of candles, the
   command that updates everything, and the start of the coins.  Then two
   that want the same bucket more than once.                               *)
NoCalls == [c \in Callers |-> <<>>]

CallPlans ==
    {NoCalls,
     [NoCalls EXCEPT !["candles"] = <<<<"request", 2>>, <<"raw", 1>>, <<"request", 2>>, <<"raw", 1>>>>,
                     !["updates"] = <<<<"request", 2>>, <<"raw", 1>>, <<"raw", 0>>>>,
                     !["coins"] = <<<<"websocket", 1>>, <<"websocket", 1>>>>]}

LimitIntervals == [l \in Limits |-> IF l = "websocket" THEN 2 ELSE 1]
LimitFull == [l \in Limits |-> CASE l = "request" -> 4 [] l = "websocket" -> 2 [] l = "raw" -> 3]

(* Where the semaphore is not in focus its threads are done. *)
WorkersInit ==
    /\ focus \in Focuses
    /\ Init /\ LimiterInit
    /\ IF focus = "semaphore" THEN SemaphoreInit
       ELSE remaining = Permits /\ pc = [t \in Threads |-> "done"]
    /\ focus # "limiter" => todo = NoCalls

WorkersNext ==
    /\ UNCHANGED focus
    /\ \/ focus = "simulator" /\ Next /\ UNCHANGED <<limiterVars, semaphoreVars>>
       \/ focus = "limiter" /\ LimiterNext /\ UNCHANGED <<vars, semaphoreVars>>
       \/ focus = "semaphore" /\ SemaphoreNext /\ UNCHANGED <<vars, limiterVars>>

(* The fairness of each part; the simulator computes where it is in focus. *)
WorkersFairness ==
    /\ WF_vars(focus = "simulator" /\ Compute)
    /\ LimiterFairness
    /\ \A t \in Threads : WF_semaphoreVars(ThreadStep(t))

WorkersSpec ==
    WorkersInit /\ [][WorkersNext]_<<focus, vars, limiterVars, semaphoreVars>> /\ WorkersFairness

=============================================================================
