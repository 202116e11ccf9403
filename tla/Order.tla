------------------------------- MODULE Order -------------------------------
(***************************************************************************)
(* One order as the trader sees it: src/src/order.rs, `struct Order` and   *)
(* its methods, written as operators on a record.  A method that returns   *)
(* `Result` becomes an operator that returns [o |-> order, ok |-> BOOLEAN];*)
(* when ok is FALSE the order keeps whatever the method had already        *)
(* changed before the `?` that failed, as it does in the code.             *)
(*                                                                         *)
(* `compute`, `set_state` and the `handle_*` methods call one another.     *)
(* The calls always move forward through the state machine and stop at a   *)
(* state without a handler (a resting state), so the recursion is unrolled *)
(* here: Rest is `compute` at a resting state, HandleX is the handler of   *)
(* state X with the nested calls it makes, Compute is `compute` itself.    *)
(*                                                                         *)
(* Prices are counted in trailing steps: one unit is                       *)
(* reference_price * trailing_step_ratio.  `price` is the atomic market    *)
(* price, read once for a whole call.  The retry cooldown of an order is   *)
(* never used up by the code (nothing calls use_cooldown on it), so the    *)
(* is_off_cooldown check always passes and is left out.                    *)
(***************************************************************************)
EXTENDS Integers

CONSTANTS
    MaxRetries,   \* initial value of the retry countdown
    MaxSeq,       \* largest sequence number of a SmartId (255 in id.rs)
    IdPeriod,     \* instruction ids are drawn cyclically from 0..IdPeriod-1
    Trailing      \* StoplossMetadata::is_trailing_enabled

ASSUME RetriesAssumption  == MaxRetries \in Nat
ASSUME SeqAssumption      == MaxSeq \in Nat
ASSUME IdAssumption       == IdPeriod \in Nat /\ IdPeriod >= 2
ASSUME TrailingAssumption == Trailing \in BOOLEAN

OrderState ==
    {"Idle", "PendingOpen", "OpenFailed", "Opened", "PartiallyFilled", "Filled",
     "Closed", "PendingCancel", "Cancelled", "CancelledAndPendingReplace",
     "CancelFailed", "ReplaceFailed", "Replaced", "Rejected", "Expired", "Finished"}

OrderMode == {"Normal", "Paused"}

InstructionKind  == {"CreateOrder", "CancelOrder", "CancelReplaceOrder"}
InstructionState == {"New", "Running", "Executed", "Failed"}

(* The pending instruction slot: `stop` is the price it asks for, `qty` the
   quantity, `seq` the sequence number of the order id it carries.         *)
NoInstr == [kind |-> "None", st |-> "None", id |-> 0, stop |-> 0, qty |-> 0, seq |-> 0]

Instruction ==
    [kind : InstructionKind, st : InstructionState, id : 0..(IdPeriod - 1),
     stop : Int, qty : Int, seq : 0..MaxSeq]

OrderRec ==
    [type        : {"limit", "stop"},
     side        : {"Buy", "Sell"},
     state       : OrderState,
     mode        : OrderMode,
     pendingMode : OrderMode \cup {"None"},
     instr       : Instruction \cup {NoInstr},
     lastId      : 0..(IdPeriod - 1),
     armed       : BOOLEAN,   \* the activator says yes (a latched trigger)
     term        : BOOLEAN,   \* termination_flag
     toIdle      : BOOLEAN,   \* cancel_and_idle_flag
     toReplace   : BOOLEAN,   \* cancel_and_replace_flag
     created     : BOOLEAN,   \* is_created_on_exchange
     byCancel    : BOOLEAN,   \* is_finished_by_cancel
     retries     : 0..MaxRetries,
     qty         : Int,       \* initial_quantity
     filled      : Nat,       \* accumulated_filled_quantity
     seq         : 0..MaxSeq, \* sequence number of local_order_id
     stop        : Int]       \* price (of a stoploss: the stop price)

(* A fresh order, as Trader::order_template and stoploss_template build it. *)
NewOrder(type, side, armed, qty, stop) ==
    [type |-> type, side |-> side, state |-> "Idle", mode |-> "Normal",
     pendingMode |-> "None", instr |-> NoInstr, lastId |-> 0, armed |-> armed,
     term |-> FALSE, toIdle |-> FALSE, toReplace |-> FALSE, created |-> FALSE,
     byCancel |-> FALSE, retries |-> MaxRetries, qty |-> qty, filled |-> 0,
     seq |-> 0, stop |-> stop]

Ok(o)  == [o |-> o, ok |-> TRUE]
Err(o) == [o |-> o, ok |-> FALSE]

----------------------------------------------------------------------------
(* Predicates on an order. *)

HasInstr(o) == o.instr.kind # "None"

IsActive(o) ==
    o.state \in {"PendingOpen", "Opened", "PartiallyFilled", "PendingCancel", "Cancelled",
                 "CancelledAndPendingReplace", "Rejected", "Expired", "ReplaceFailed",
                 "Replaced", "CancelFailed"}

IsFailed(o)   == o.state \in {"OpenFailed", "ReplaceFailed", "CancelFailed"}
IsFinished(o) == o.state = "Finished"

----------------------------------------------------------------------------
(* The instruction slot. *)

(* Priority: opening an order is Normal (High for a stoploss), cancelling or
   replacing it is Immediate.                                              *)
Outranks(new, old) == old = "CreateOrder" /\ new # "CreateOrder"

(* Mutant: a running instruction is overridden. *)
MayOverrideRunning(o, kind) ==
    ~HasInstr(o) \/ kind = o.instr.kind \/ Outranks(kind, o.instr.kind)

MayOverride(o, kind) ==
    \/ ~HasInstr(o)
    \/ /\ o.instr.st = "New"
       /\ kind = o.instr.kind \/ Outranks(kind, o.instr.kind)

NextId(o) == (o.lastId + 1) % IdPeriod

(* A replacement gets the next sequence number, and what is still untraded. *)
NewInstruction(o, kind, stop) ==
    LET replaces == kind = "CancelReplaceOrder"
    IN  [kind |-> kind, st |-> "New", id |-> NextId(o), stop |-> stop,
         qty |-> IF replaces THEN o.qty - o.filled ELSE o.qty,
         seq |-> IF replaces THEN o.seq + 1 ELSE o.seq]

SetPendingInstruction(o, kind, stop) ==
    IF MayOverride(o, kind)
    THEN [o EXCEPT !.instr = NewInstruction(o, kind, stop), !.lastId = NextId(o)]
    ELSE o

ClearPendingInstruction(o) == [o EXCEPT !.instr = NoInstr]

(* ManagedInstruction::set_state: what the transition table accepts. *)
InstructionMoves ==
    {<<"New", "Running">>, <<"New", "Failed">>, <<"Running", "Failed">>,
     <<"Running", "Executed">>}

InstructionMayMove(i, to) == i.st = to \/ <<i.st, to>> \in InstructionMoves

----------------------------------------------------------------------------
(* `compute` at a resting state: the activator gate, then the clearing of an
   instruction that was executed or has failed.                            *)

Gate(o) == o.created \/ o.armed

ClearDone(o) ==
    IF o.instr.st \in {"Executed", "Failed"} THEN ClearPendingInstruction(o) ELSE o

Rest(o) == IF Gate(o) THEN ClearDone(o) ELSE o

(* set_state to a resting state, with the `compute` it ends in. *)
Enter(o, state) == Rest([o EXCEPT !.state = state])

----------------------------------------------------------------------------
(* Handlers.  A handler returns the order, the instruction it asks for
   ("None" for Ok(None)) and whether it succeeded.                         *)

Nothing(o)         == [o |-> o, ask |-> "None", stop |-> 0, ok |-> TRUE]
Ask(o, kind, stop) == [o |-> o, ask |-> kind, stop |-> stop, ok |-> TRUE]
Failure(o)         == [o |-> o, ask |-> "None", stop |-> 0, ok |-> FALSE]

(* `pending_mode.take()`: an equal mode is consumed and the handler leaves. *)
TakeMode(o) ==
    IF o.pendingMode = "None" THEN o
    ELSE [o EXCEPT !.mode = o.pendingMode, !.pendingMode = "None"]

(* Mutant: an idle order does not look at the flags. *)
HandleIdleUnflagged(o) ==
    LET m == TakeMode(o)
    IN  IF o.pendingMode = o.mode \/ m.mode = "Paused"
        THEN Nothing(m)
        ELSE Ask(Enter(m, "PendingOpen"), "CreateOrder", m.stop)

HandleIdle(o) ==
    LET m == TakeMode(o)
    IN  IF \/ o.pendingMode = o.mode
           \/ m.mode = "Paused"
           \/ m.term \/ m.toReplace \/ m.toIdle
        THEN Nothing(m)
        ELSE Ask(Enter(m, "PendingOpen"), "CreateOrder", m.stop)

(* The countdown's checkin() is TRUE while retries are left, and the order
   is terminated exactly then.                                             *)
HandleOpenFailed(o) ==
    IF o.term THEN Nothing(o)
    ELSE IF o.retries > 0
         THEN Nothing(Rest([o EXCEPT !.retries = o.retries - 1, !.term = TRUE]))
         ELSE Ask(Enter(o, "PendingOpen"), "CreateOrder", o.stop)

(* compute_stoploss: the distance to the next stop, in trailing steps. *)
TrailDelta(o, price) == price - o.stop - 1

(* Mutant: the directions of a buy and a sell stop are swapped. *)
NewStopSwapped(o, price) ==
    LET steps == TrailDelta(o, price)
    IN  IF o.side = "Sell" THEN o.stop - steps ELSE o.stop + steps

NewStop(o, price) ==
    LET delta == TrailDelta(o, price)
        steps == IF delta <= 1 THEN 1 ELSE delta
    IN  IF o.side = "Sell" THEN o.stop + steps ELSE o.stop - steps

ShouldTrail(o, price) ==
    /\ o.mode # "Paused"
    /\ o.type = "stop"
    /\ o.armed
    /\ ~HasInstr(o)
    /\ Trailing
    /\ TrailDelta(o, price) >= 1

(* Mutant: the sequence number is incremented without a check. *)
ComputeStoplossUnbounded(o, price) ==
    IF ~ShouldTrail(o, price) THEN Nothing(o)
    ELSE Ask(Enter([o EXCEPT !.toReplace = TRUE], "PendingCancel"),
             "CancelReplaceOrder", NewStop(o, price))

ComputeStoploss(o, price) ==
    IF ~ShouldTrail(o, price) THEN Nothing(o)
    ELSE LET p == Enter([o EXCEPT !.toReplace = TRUE], "PendingCancel")
         IN  IF o.seq = MaxSeq
             THEN Failure(p)      \* new_incremented_id: SequenceNumberOverflow
             ELSE Ask(p, "CancelReplaceOrder", NewStop(o, price))

HandleOpened(o, price) ==
    IF price = 0 THEN Nothing(o)
    ELSE IF o.term \/ o.toIdle
         THEN Ask(Enter(o, "PendingCancel"), "CancelOrder", o.stop)
         ELSE ComputeStoploss(o, price)

HandleCancelled(o) == Nothing([Enter(o, "Finished") EXCEPT !.byCancel = TRUE])

HandleClosed(o) == Nothing(Enter([o EXCEPT !.created = FALSE], "Finished"))

(* set_state(Closed) computes, which already carries the order to Finished;
   when the gate holds that back the explicit compute_next_instruction does. *)
HandleFilled(o) == HandleClosed([o EXCEPT !.state = "Closed"])

----------------------------------------------------------------------------
(* `compute` *)

Install(r) ==
    IF ~r.ok THEN Err(r.o)
    ELSE IF r.ask = "None" THEN Ok(r.o)
    ELSE Ok(SetPendingInstruction(r.o, r.ask, r.stop))

(* set_state(Opened) from a state that has an empty slot. *)
Reopen(o, price) ==
    LET p == [o EXCEPT !.state = "Opened"]
    IN  IF Gate(p) THEN Install(HandleOpened(ClearDone(p), price)) ELSE Ok(p)

(* handle_replaced reopens the order, computes, and asks once more. *)
AskAgain(r, price) ==
    IF r.ok /\ r.o.state = "Opened" THEN HandleOpened(r.o, price)
    ELSE IF r.ok THEN Nothing(r.o) ELSE Failure(r.o)

HandleReplaced(o, price) == AskAgain(Reopen(o, price), price)

NextInstruction(o, price) ==
    CASE o.state = "Idle"                          -> HandleIdle(o)
      [] o.state = "OpenFailed"                    -> HandleOpenFailed(o)
      [] o.state \in {"Opened", "PartiallyFilled"} -> HandleOpened(o, price)
      [] o.state = "Cancelled"                     -> HandleCancelled(o)
      [] o.state = "Expired"                       -> Failure(o)  \* cannot finish
      [] o.state = "Replaced"                      -> HandleReplaced(o, price)
      [] o.state = "Filled"                        -> HandleFilled(o)
      [] o.state = "Closed"                        -> HandleClosed(o)
      [] OTHER                                     -> Nothing(o)

(* compute, when no instruction is there to be pre-empted. *)
Advance(o, price) ==
    IF Gate(o) THEN Install(NextInstruction(ClearDone(o), price)) ELSE Ok(o)

(* cancel_pending_instruction.  Reverting to Idle or to Opened computes at
   once, and the method computes again when it is done.                    *)
Reverted(o, price) ==
    CASE o.state = "PendingOpen"   -> Advance([o EXCEPT !.state = "Idle"], price)
      [] o.state = "PendingCancel" -> Advance([o EXCEPT !.state = "Opened"], price)
      [] OTHER                     -> Ok(o)

(* The flag the cancellation `o` was asked for is reset, in what became of it. *)
Unflagged(o, reverted) ==
    CASE o.state = "PendingCancel" /\ o.toReplace -> [reverted EXCEPT !.toReplace = FALSE]
      [] o.state = "PendingCancel" /\ ~o.toReplace /\ o.toIdle
                                                  -> [reverted EXCEPT !.toIdle = FALSE]
      [] OTHER                                    -> reverted

Withdrawn(o, r, price) == IF r.ok THEN Advance(Unflagged(o, r.o), price) ELSE r

CancelPendingInstruction(o, price) ==
    IF o.term \/ ~HasInstr(o) THEN Ok(o)
    ELSE IF o.instr.st # "New" THEN Err(o)
    ELSE Withdrawn(o, Reverted(ClearPendingInstruction(o), price), price)

(* A new instruction of higher priority withdraws one not yet started. *)
Preempts(r) ==
    /\ r.ok /\ r.ask # "None"
    /\ HasInstr(r.o) /\ r.o.instr.st = "New"
    /\ Outranks(r.ask, r.o.instr.kind)

InstallAfter(c, r) ==
    IF c.ok THEN Ok(SetPendingInstruction(c.o, r.ask, r.stop)) ELSE c

Resolve(r, price) ==
    IF Preempts(r) THEN InstallAfter(CancelPendingInstruction(r.o, price), r) ELSE Install(r)

Compute(o, price) ==
    IF Gate(o) THEN Resolve(NextInstruction(ClearDone(o), price), price) ELSE Ok(o)

----------------------------------------------------------------------------
(* set_state *)

Moves ==
    {<<"Idle", "PendingOpen">>, <<"Idle", "Cancelled">>,
     <<"PendingCancel", "Idle">>,
     <<"PendingOpen", "OpenFailed">>, <<"OpenFailed", "PendingOpen">>,
     <<"OpenFailed", "Cancelled">>,
     <<"PendingOpen", "Opened">>, <<"PendingOpen", "Idle">>, <<"PendingOpen", "Cancelled">>,
     <<"Opened", "PartiallyFilled">>, <<"Opened", "Filled">>,
     <<"Opened", "PendingCancel">>, <<"Opened", "Cancelled">>,
     <<"PendingCancel", "Cancelled">>, <<"PendingCancel", "Opened">>,
     <<"Cancelled", "Idle">>, <<"Cancelled", "Finished">>,
     <<"PendingCancel", "CancelledAndPendingReplace">>,
     <<"Cancelled", "CancelledAndPendingReplace">>,
     <<"CancelledAndPendingReplace", "Replaced">>,
     <<"Cancelled", "ReplaceFailed">>, <<"Cancelled", "Replaced">>,
     <<"Replaced", "Filled">>, <<"ReplaceFailed", "Opened">>, <<"Replaced", "Opened">>,
     <<"PartiallyFilled", "PendingCancel">>, <<"PartiallyFilled", "Cancelled">>,
     <<"PartiallyFilled", "Filled">>,
     <<"Filled", "Closed">>, <<"Closed", "Idle">>, <<"Closed", "Finished">>}

(* Cancelling an order that failed to open sends it back to PendingOpen. *)
Target(from, to) == IF from = "OpenFailed" /\ to = "Cancelled" THEN "PendingOpen" ELSE to

ThenCompute(r, price) == IF r.ok THEN Compute(r.o, price) ELSE r

SetState(o, to, price) ==
    IF o.state = to THEN Ok(o)
    ELSE IF <<o.state, to>> \in Moves
         THEN Compute([o EXCEPT !.state = Target(o.state, to)], price)
         ELSE Err(o)

----------------------------------------------------------------------------
(* Public methods *)

Terminate(o, price) == Compute([o EXCEPT !.term = TRUE], price)

CancelAndIdle(o, price) ==
    IF o.toIdle THEN Ok(o) ELSE Compute([o EXCEPT !.toIdle = TRUE], price)

SetPendingMode(o, mode, price) == Compute([o EXCEPT !.pendingMode = mode], price)

Pause(o, price)  == SetPendingMode(o, "Paused", price)
Resume(o, price) == SetPendingMode(o, "Normal", price)

(* Mutant: the order asks again once its instruction was executed. *)
ConfirmExecutionAndRetry(o, id, success, price) ==
    IF ~HasInstr(o) \/ o.instr.id # id THEN Err(o)
    ELSE Compute([ClearPendingInstruction(o) EXCEPT
                    !.state = IF o.state = "PendingOpen" THEN "Idle" ELSE o.state], price)

(* Mutant: an executed instruction leaves the order open. *)
ConfirmExecutionOpens(o, id, success, price) ==
    IF ~HasInstr(o) \/ o.instr.id # id THEN Err(o)
    ELSE IF success THEN Compute([ClearPendingInstruction(o) EXCEPT !.state = "Opened"], price)
    ELSE Compute([o EXCEPT !.instr.st = "Failed", !.term = TRUE], price)

ConfirmInstructionExecution(o, id, success, price) ==
    IF ~HasInstr(o) \/ o.instr.id # id THEN Err(o)
    ELSE IF ~InstructionMayMove(o.instr, IF success THEN "Executed" ELSE "Failed") THEN Err(o)
    ELSE IF success THEN Compute(ClearPendingInstruction(o), price)
    ELSE Compute([o EXCEPT !.instr.st = "Failed", !.term = TRUE], price)

Created(r) == IF r.ok THEN Ok([r.o EXCEPT !.created = TRUE]) ELSE r

ConfirmOpened(o, price) ==
    IF o.state = "Opened" THEN Ok(o)
    ELSE ThenCompute(Created(SetState(o, "Opened", price)), price)

ConfirmOpenFailed(o, price) ==
    IF o.state = "OpenFailed" THEN Ok(o)
    ELSE ThenCompute(SetState(o, "OpenFailed", price), price)

ConfirmReplaceFailed(o, price) ==
    IF o.state = "ReplaceFailed" THEN Ok(o)
    ELSE ThenCompute(SetState(o, "ReplaceFailed", price), price)

(* The quantities are taken over before the transition is tried. *)
ConfirmFilled(o, filled, full, price) ==
    IF o.state = "Filled" THEN Ok(o)
    ELSE ThenCompute(SetState([o EXCEPT !.filled = filled],
                              IF full THEN "Filled" ELSE "PartiallyFilled", price), price)

(* Mutant: a cancelled order still counts as created on the exchange. *)
StillCreated(r) == r

NotCreated(r) == IF r.ok THEN Ok([r.o EXCEPT !.created = FALSE]) ELSE r

ConfirmCancelled(o, price) ==
    IF o.state \in {"Cancelled", "CancelledAndPendingReplace"} THEN Ok(o)
    ELSE IF o.toReplace
    THEN NotCreated(SetState([o EXCEPT !.toReplace = FALSE],
                             "CancelledAndPendingReplace", price))
    ELSE IF o.toIdle
    THEN LET r == Pause([o EXCEPT !.toIdle = FALSE], price)
         IN  IF r.ok THEN NotCreated(SetState(r.o, "Idle", price)) ELSE r
    ELSE NotCreated(SetState(o, "Cancelled", price))

ConfirmCancelFailed(o, price) == SetState(o, "CancelFailed", price)
ConfirmRejected(o, price)     == SetState(o, "Rejected", price)
ConfirmExpired(o, price)      == SetState(o, "Expired", price)

(* e: the event of the new order, with its id, price and quantities. *)
ConfirmReplaced(o, e, price) ==
    IF o.state = "Replaced" THEN Ok(o)
    ELSE IF o.state # "CancelledAndPendingReplace" THEN Err(o)
    ELSE SetState([o EXCEPT !.created = TRUE, !.seq = e.seq, !.stop = e.stop,
                            !.qty = e.qty, !.filled = e.filled], "Replaced", price)
=============================================================================
