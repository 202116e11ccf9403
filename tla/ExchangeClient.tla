---------------------------- MODULE ExchangeClient ----------------------------
(***************************************************************************)
(* exchange_client.rs and exchange_client_worker.rs: the client of the     *)
(* real exchange, on a thread of its own.  The trader sends instructions   *)
(* through a channel; the worker puts each on a heap ordered by priority   *)
(* and takes one off again, sends the request and answers the trader.      *)
(* After 100 microseconds without a message it takes one more.             *)
(*                                                                         *)
(* The kinds are those the client tells apart: "create" stands for the     *)
(* nine ways to place an order, "cancel" for CancelOrder, "other" for all  *)
(* the rest.  NormalizedUserTradeEvent is left out, nobody sends it, and   *)
(* so are the rate limits, which only wait_for_ratelimiter would apply and *)
(* which compute does not call.                                            *)
(***************************************************************************)
EXTENDS Integers, FiniteSets, Sequences

CONSTANTS
    MaxInstructions,    \* bound on the instructions sent
    Priorities,
    Credentials         \* whether the client has a key and a secret

ASSUME ClientAssumption ==
    MaxInstructions \in Nat /\ Priorities \subseteq Int /\ Credentials \in BOOLEAN

Kinds == {"create", "cancel", "other"}

Jobs == [id : Nat, kind : Kinds, priority : Priorities]

(* What becomes of an instruction: the trader marks it Running as it sends
   it, and a result makes it Executed or Failed.  "lost" is a job taken off
   the heap and dropped, "refused" one whose result the trader does not take. *)
Outcomes == {"running", "executed", "failed", "lost", "refused"}

VARIABLES
    inbox,      \* the channel
    jobs,       \* the heap: equal priorities come out in any order
    served,     \* the ids taken off the heap, in order
    outcome,    \* of each instruction sent
    working     \* FALSE once the worker's thread has panicked

clientVars == <<inbox, jobs, served, outcome, working>>

ClientTypeOK ==
    /\ inbox \in Seq(Jobs)
    /\ jobs \in SUBSET Jobs
    /\ served \in Seq(Nat)
    /\ outcome \in Seq(Outcomes)
    /\ working \in BOOLEAN

ClientInit ==
    /\ inbox = <<>> /\ jobs = {} /\ served = <<>> /\ outcome = <<>>
    /\ working = TRUE

(* Trader::compute: the instruction is Running once it is in the channel. *)
Instruct(kind, priority) ==
    /\ Len(outcome) < MaxInstructions
    /\ inbox' = Append(inbox, [id |-> Len(outcome) + 1, kind |-> kind, priority |-> priority])
    /\ outcome' = Append(outcome, "running")
    /\ UNCHANGED <<jobs, served, working>>

(* BinaryHeap::pop, by the order of the priorities alone. *)
MostUrgent(queue) == {job \in queue : \A other \in queue : other.priority <= job.priority}

(* What a job can come to.  Without credentials it is dropped with an error.
   An unsupported instruction is answered for UNKNOWN_SYMBOL, and for that
   symbol the trader has no context.  A cancellation names the order as
   new_client_order_id, the name for the cancellation itself, so that the
   exchange finds nothing to cancel.                                       *)
ComesTo(job) ==
    IF job.kind = "other" THEN {"refused"}
    ELSE IF ~Credentials THEN {"lost"}
    ELSE IF job.kind = "cancel" THEN {"failed"}
    ELSE {"executed", "failed"}

(* compute: at most one job of the queue; compute is an error when there is
   no one to tell the outcome, and if that ends the worker depends on who
   called it.                                                              *)
ComputeJobs(queue, survives) ==
    IF queue = {} THEN UNCHANGED <<jobs, served, outcome, working>>
    ELSE \E job \in MostUrgent(queue) : \E o \in ComesTo(job) :
            /\ jobs' = queue \ {job}
            /\ served' = Append(served, job.id)
            /\ outcome' = [outcome EXCEPT ![job.id] = o]
            /\ working' = (survives \/ o \in {"executed", "failed"})

(* Mutant: push_instruction leaves the job on the heap. *)
PushWithoutCompute ==
    /\ working /\ inbox # <<>>
    /\ inbox' = Tail(inbox)
    /\ jobs' = jobs \cup {Head(inbox)}
    /\ UNCHANGED <<served, outcome, working>>

(* push_instruction; the worker only logs its error. *)
PushInstruction ==
    /\ working /\ inbox # <<>>
    /\ inbox' = Tail(inbox)
    /\ ComputeJobs(jobs \cup {Head(inbox)}, TRUE)

(* 100 microseconds without a message: an error panics the worker. *)
ComputeWhenIdle ==
    /\ working
    /\ ComputeJobs(jobs, FALSE)
    /\ UNCHANGED inbox

ClientNext ==
    \/ \E kind \in Kinds, priority \in Priorities : Instruct(kind, priority)
    \/ PushInstruction
    \/ ComputeWhenIdle

ClientSpec == ClientInit /\ [][ClientNext]_clientVars

-----------------------------------------------------------------------------
(* For all that the jobs have priorities, they are served in the order the
   trader sent them: a stoploss never overtakes an entry sent before it.  And
   an answer is about an instruction that was served.                      *)
ExecutedInOrder ==
    /\ \A i \in DOMAIN served : served[i] = i
    /\ \A id \in DOMAIN outcome : outcome[id] # "running" => id <= Len(served)

(* No error of compute reaches the call that would end the worker. *)
WorkerSurvives == working
=============================================================================
