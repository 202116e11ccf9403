------------------------------- MODULE Trade -------------------------------
(***************************************************************************)
(* A trade: an entry order, and an exit and a stoploss order of which only *)
(* one may stand on the book (src/src/trade.rs, `struct Trade`), written   *)
(* as operators on a record in the manner of Order.  `pending` names the   *)
(* order whose instruction the trader is to send                           *)
(* (pending_instruction_order_id).                                         *)
(*                                                                         *)
(* The special instruction of a trade is left out: nothing in the code     *)
(* ever sets it.  Prices, profits and timestamps are left out as well.     *)
(***************************************************************************)
EXTENDS Order

Kinds == {"entry", "exit", "stop"}

TradeState ==
    {"New", "Entering", "EntryFailed", "Exiting", "ExitFailed", "Failed", "Closed"}

TradeStatus == {"Idle", "Entry", "Exit", "Stoploss"}

TradeRec ==
    [state   : TradeState,
     status  : TradeStatus,
     pending : Kinds \cup {"none"},
     reason  : {"None", "Normal", "Cancelled"},   \* close_reason
     tracked : BOOLEAN,                           \* still in the trader's list
     orders  : [Kinds -> OrderRec]]

NewTrade(entry, exit, stop) ==
    [state |-> "New", status |-> "Idle", pending |-> "none", reason |-> "None",
     tracked |-> TRUE,
     orders |-> [k \in Kinds |-> CASE k = "entry" -> entry
                                   [] k = "exit"  -> exit
                                   [] k = "stop"  -> stop]]

TOk(t)  == [t |-> t, ok |-> TRUE]
TErr(t) == [t |-> t, ok |-> FALSE]

(* The trade after its order k went through a method that returned r. *)
With(t, k, o)    == [t EXCEPT !.orders[k] = o]
OnOrder(t, k, r) == [t |-> With(t, k, r.o), ok |-> r.ok]

----------------------------------------------------------------------------
(* set_state.  `Cancelled` is no variant of TradeState: in the patterns
   (Entering, Cancelled) and (Exiting, Cancelled) it binds any new state.  *)

TradeMoves ==
    {<<"New", "Entering">>, <<"EntryFailed", "Exiting">>, <<"ExitFailed", "Failed">>}

SetTradeState(t, to) ==
    IF \/ t.state \in {"Entering", "Exiting"}
       \/ t.state = to
       \/ <<t.state, to>> \in TradeMoves
    THEN TOk([t EXCEPT !.state = to])
    ELSE TErr(t)

----------------------------------------------------------------------------
(* compute_lifecycle *)

(* Mutant: the first fill ends the entering. *)
EntryDoneEarly(t) ==
    IF t.state = "Entering" /\ t.orders["entry"].created
    THEN [t EXCEPT !.status = "Idle", !.state = "Exiting"]
    ELSE t

EntryDone(t) ==
    IF t.state = "Entering" /\ IsFinished(t.orders["entry"])
    THEN [t EXCEPT !.status = "Idle", !.state = "Exiting"]
    ELSE t

ExitDone(t) ==
    IF t.state = "Exiting" /\ (IsFinished(t.orders["exit"]) \/ IsFinished(t.orders["stop"]))
    THEN [t EXCEPT !.reason = "Normal", !.state = "Closed", !.status = "Idle"]
    ELSE t

(* The entry was cancelled: it is terminated and the trade closes. *)
EntryCancelled(t, price) ==
    LET r == Terminate(t.orders["entry"], price)
        c == OnOrder(t, "entry", r)
    IN  IF r.ok THEN SetTradeState([c.t EXCEPT !.reason = "Cancelled"], "Closed") ELSE c

(* Mutant: the trade closes when the entry is to be terminated. *)
LifecycleOnTermination(t, price) ==
    IF t.orders["entry"].term THEN EntryCancelled(t, price) ELSE TOk(ExitDone(EntryDone(t)))

Lifecycle(t, price) ==
    LET f == IF IsFailed(t.orders["entry"]) THEN SetTradeState(t, "EntryFailed") ELSE TOk(t)
    IN  IF ~f.ok THEN f
        ELSE IF f.t.orders["entry"].byCancel /\ f.t.orders["entry"].state # "PartiallyFilled"
        THEN EntryCancelled(f.t, price)
        ELSE TOk(ExitDone(EntryDone(f.t)))

----------------------------------------------------------------------------
(* compute *)

(* Before the entry is filled: its instruction is handed over only while the
   status is Idle, that is while no entry order is on the book.            *)
HandOver(c) ==
    IF ~c.ok \/ c.t.pending # "none" \/ c.t.status # "Idle" THEN c
    ELSE TOk([c.t EXCEPT !.state = "Entering",
                         !.pending = IF HasInstr(c.t.orders["entry"]) THEN "entry" ELSE "none"])

ComputeEntry(t, price) == HandOver(OnOrder(t, "entry", Compute(t.orders["entry"], price)))

(* maintenance *)
Maintained(t) ==
    IF t.state = "Exiting" /\ t.pending = "entry" THEN [t EXCEPT !.pending = "none"] ELSE t

(* Mutant: the exit does not wait for the stoploss to leave the book. *)
YieldAtOnce(t, price) ==
    IF t.orders["exit"].state # "PendingOpen" /\ IsActive(t.orders["exit"]) THEN TOk(t)
    ELSE TOk([t EXCEPT !.pending = "exit"])

(* The exit wants to speak: the stoploss is withdrawn from the book first. *)
YieldToExit(t, price) ==
    LET exit == t.orders["exit"]
        stop == t.orders["stop"]
        w    == CancelPendingInstruction(stop, price)
    IN  IF \/ exit.state # "PendingOpen" /\ IsActive(exit)
           \/ stop.state = "PendingCancel"
           \/ ~stop.toReplace /\ stop.toIdle
           \/ ~stop.toReplace /\ ~IsActive(stop) /\ exit.state # "PendingOpen"
                 /\ stop.state # "Idle"
        THEN TOk(t)
        ELSE IF stop.toReplace \/ ~w.ok THEN OnOrder(t, "stop", w)
        ELSE IF IsActive(stop) THEN OnOrder(t, "stop", CancelAndIdle(w.o, price))
        ELSE TOk([With(t, "stop", w.o) EXCEPT !.pending = "exit"])

(* Which of the two exit orders may have its instruction sent.  A stoploss
   being cancelled goes first, then the exit, then an active stoploss.     *)
Arbitrate(t, price) ==
    LET exit == t.orders["exit"]
        stop == t.orders["stop"]
    IN  IF HasInstr(stop) /\ (stop.instr.kind = "CancelOrder" \/ stop.state = "PendingCancel")
        THEN TOk([t EXCEPT !.pending = "stop"])
        ELSE IF HasInstr(exit) THEN YieldToExit(t, price)
        ELSE IF HasInstr(stop) /\ ~IsActive(exit) /\ IsActive(stop)
        THEN TOk([t EXCEPT !.pending = "stop"])
        ELSE TOk(t)

ThenStop(c, price) ==
    IF c.ok THEN OnOrder(c.t, "stop", Compute(c.t.orders["stop"], price)) ELSE c

ThenArbitrate(c, price) ==
    IF c.ok /\ c.t.pending = "none" THEN Arbitrate(c.t, price) ELSE c

ComputeExit(t, price) ==
    ThenArbitrate(ThenStop(OnOrder(t, "exit", Compute(t.orders["exit"], price)), price), price)

(* l: what compute_lifecycle made of the trade. *)
AfterLifecycle(l, price) ==
    IF ~l.ok \/ l.t.state = "Closed" THEN l
    ELSE IF l.t.state \in {"New", "Entering"} THEN ComputeEntry(l.t, price)
    ELSE ComputeExit(Maintained(l.t), price)

ComputeTrade(t, price) == AfterLifecycle(Lifecycle(t, price), price)

----------------------------------------------------------------------------
(* Strategy calls: on the first order that is active. *)

ActiveOrder(t) ==
    CASE IsActive(t.orders["entry"]) -> "entry"
      [] ~IsActive(t.orders["entry"]) /\ IsActive(t.orders["exit"]) -> "exit"
      [] ~IsActive(t.orders["entry"]) /\ ~IsActive(t.orders["exit"])
            /\ IsActive(t.orders["stop"]) -> "stop"
      [] OTHER -> "none"

CancelActiveOrderAndIdle(t, price) ==
    LET k == ActiveOrder(t)
    IN  IF k = "none" THEN TOk(t) ELSE OnOrder(t, k, CancelAndIdle(t.orders[k], price))

CancelActiveOrderAndTerminate(t, price) ==
    LET k == ActiveOrder(t)
    IN  IF k = "none" THEN TOk(t) ELSE OnOrder(t, k, Terminate(t.orders[k], price))

----------------------------------------------------------------------------
(* Confirmations.  An error of the order's own method goes back at once. *)

StatusOf(k) == CASE k = "entry" -> "Entry" [] k = "exit" -> "Exit" [] k = "stop" -> "Stoploss"

(* The error of compute_lifecycle is dropped here; compute repeats it. *)
ConfirmExecution(t, k, id, success, price) ==
    LET c == OnOrder(t, k, ConfirmInstructionExecution(t.orders[k], id, success, price))
    IN  IF ~c.ok THEN c
        ELSE ComputeTrade(Lifecycle([c.t EXCEPT !.pending = "none"], price).t, price)

(* c: the trade after the order's method; the status is set, the trade computed. *)
ThenComputeTrade(c, price) == IF c.ok THEN ComputeTrade(c.t, price) ELSE c

StatusThenCompute(c, status, price) ==
    IF c.ok THEN ComputeTrade([c.t EXCEPT !.status = status], price) ELSE c

TradeConfirmOpened(t, k, price) ==
    StatusThenCompute(OnOrder(t, k, ConfirmOpened(t.orders[k], price)), StatusOf(k), price)

TradeConfirmReplaced(t, k, e, price) ==
    StatusThenCompute(OnOrder(t, k, ConfirmReplaced(t.orders[k], e, price)), StatusOf(k), price)

TradeConfirmCancelled(t, k, price) ==
    StatusThenCompute(OnOrder(t, k, ConfirmCancelled(t.orders[k], price)), "Idle", price)

TradeConfirmRejected(t, k, price) ==
    StatusThenCompute(OnOrder(t, k, ConfirmRejected(t.orders[k], price)), "Idle", price)

TradeConfirmExpired(t, k, price) ==
    StatusThenCompute(OnOrder(t, k, ConfirmExpired(t.orders[k], price)), t.status, price)

(* What the entry has bought is what the exit and the stoploss are to sell. *)
Offered(c, k) ==
    IF c.ok /\ k = "entry"
    THEN TOk([c.t EXCEPT !.orders["exit"].qty = c.t.orders["entry"].filled,
                         !.orders["stop"].qty = c.t.orders["entry"].filled])
    ELSE c

TradeConfirmFilled(t, k, filled, full, price) ==
    ThenComputeTrade(
        Offered(OnOrder(t, k, ConfirmFilled(t.orders[k], filled, full, price)), k), price)

FailTrade(c, from) ==
    IF c.ok THEN SetTradeState([c.t EXCEPT !.status = "Idle"],
                               IF from = "Entering" THEN "EntryFailed" ELSE "ExitFailed")
    ELSE c

TradeConfirmOpenFailed(t, k, price) ==
    ThenComputeTrade(FailTrade(OnOrder(t, k, ConfirmOpenFailed(t.orders[k], price)), t.state),
                     price)
=============================================================================
