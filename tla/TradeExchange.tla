--------------------------- MODULE TradeExchange ---------------------------
(***************************************************************************)
(* One long trade under its trader, talking to an exchange.                *)
(*                                                                         *)
(*   trader    Trader::compute computes the trade and sends the pending    *)
(*             instruction, if it is new, to the exchange client, marking  *)
(*             it Running (src/src/trader.rs);                             *)
(*   client    the exchange client performs the request and reports an     *)
(*             InstructionExecutionResult (src/src/playground_context.rs,  *)
(*             src/src/exchange_client.rs);                                *)
(*   exchange  the simulator (src/src/simulator.rs) or a real one: keeps   *)
(*             the orders and emits order events;                          *)
(*   worker    the coin worker applies events and results, which arrive on *)
(*             two independent channels, so in either order.               *)
(*                                                                         *)
(* A handler that returns an error ends the playground's coin worker: the  *)
(* error of an event exits the process, that of a result panics the thread,*)
(* which is also the one that computes the trader.  The exchange goes on.  *)
(* With ExitOnError = FALSE the error is only logged, as in                *)
(* src/src/context.rs.                                                     *)
(***************************************************************************)
EXTENDS Trade, Sequences

CONSTANTS
    Qty,            \* quantity of the entry order
    PartialFills,   \* the orders the exchange may fill in part
    MaxPrice,       \* market prices are 1..MaxPrice
    InitialStop,    \* stop price of the stoploss order
    ExitIsInstant,  \* the exit's activator says yes from the start
    Routers,        \* who applies events: subset of {"trader", "client"}
    Faults,         \* what the exchange may do: subset of {"reject", "cancel", "expire"}
    Calls,          \* strategy calls made: subset of {"terminate", "idle", "resume"}
    ExitOnError

ASSUME EnvAssumption ==
    /\ PartialFills \subseteq Kinds
    /\ Qty \in Nat \ {0} /\ MaxPrice \in Nat \ {0} /\ InitialStop \in Nat
    /\ ExitIsInstant \in BOOLEAN
    /\ Routers \subseteq {"trader", "client"}
    /\ Faults \subseteq {"reject", "cancel", "expire"}
    /\ Calls \subseteq {"terminate", "idle", "resume"}
    /\ ExitOnError \in BOOLEAN

VARIABLES
    trade,      \* the trader's record of the trade
    price,      \* the atomic market price
    requests,   \* instructions handed to the exchange client
    results,    \* execution results on their way back
    ex,         \* the orders on the exchange, one per kind
    events,     \* order events on their way back, in order
    held,       \* what the exchange has bought less what it has sold for us
    up          \* the coin worker has not ended on an error

vars == <<trade, price, requests, results, ex, events, held, up>>

Request ==
    [order : Kinds, kind : InstructionKind, id : 0..(IdPeriod - 1), stop : Int,
     qty : Int, seq : 0..MaxSeq]

Result == [order : Kinds, id : 0..(IdPeriod - 1), success : BOOLEAN]

ExchangeOrder ==
    [status : {"none", "open", "gone"}, seq : 0..MaxSeq, qty : Int, filled : Nat, stop : Int]

EventKind == {"New", "Fill", "Cancelled", "Expired", "Rejected"}

Event ==
    [order : Kinds, kind : EventKind, seq : 0..MaxSeq, qty : Int, filled : Nat,
     full : BOOLEAN, stop : Int]

TypeOK ==
    /\ trade \in TradeRec
    /\ price \in 1..MaxPrice
    /\ requests \subseteq Request
    /\ results \subseteq Result
    /\ ex \in [Kinds -> ExchangeOrder]
    /\ events \in Seq(Event)
    /\ held \in Int
    /\ up \in BOOLEAN

NoExchangeOrder == [status |-> "none", seq |-> 0, qty |-> 0, filled |-> 0, stop |-> 0]

(* The stoploss is armed from the start (TriggerMetadata::instant()). *)
Init ==
    /\ trade \in {NewTrade(NewOrder("limit", "Buy", armed, Qty, 0),
                           NewOrder("limit", "Sell", ExitIsInstant, Qty, 0),
                           NewOrder("stop", "Sell", TRUE, Qty, InitialStop)) : armed \in BOOLEAN}
    /\ price = 1
    /\ requests = {}
    /\ results = {}
    /\ ex = [k \in Kinds |-> NoExchangeOrder]
    /\ events = <<>>
    /\ held = 0
    /\ up = TRUE

----------------------------------------------------------------------------
(* Trader::compute.  A closed trade leaves the list; of any other one the
   pending order's instruction is sent if it is New, even when computing the
   trade failed, which is only logged.                                     *)

Untracked(t) == t.state = "Closed" \/ ~t.tracked

Drive(t) ==
    IF Untracked(t) THEN [t EXCEPT !.tracked = FALSE] ELSE ComputeTrade(t, price).t

Sends(t, k) == t.tracked /\ t.pending = k /\ t.orders[k].instr.st = "New"

MarkRunning(t) ==
    [t EXCEPT !.orders = [k \in Kinds |-> IF Sends(t, k)
                                          THEN [t.orders[k] EXCEPT !.instr.st = "Running"]
                                          ELSE t.orders[k]]]

RequestOf(k, i) ==
    [order |-> k, kind |-> i.kind, id |-> i.id, stop |-> i.stop, qty |-> i.qty, seq |-> i.seq]

Sent(t) == {RequestOf(k, t.orders[k].instr) : k \in {x \in Kinds : Sends(t, x)}}

Pass(t) == MarkRunning(Drive(t))

(* What is left of a handler after the trade's own method returned r: an
   error ends the worker (or is logged), otherwise the trader computes.    *)
Settle(r) ==
    IF r.ok
    THEN /\ trade' = Pass(r.t)
         /\ requests' = requests \cup Sent(Drive(r.t))
         /\ up' = up
    ELSE /\ trade' = r.t
         /\ requests' = requests
         /\ up' = ~ExitOnError

(* handle_order_event computes after the confirm_order_* it called has. *)
SettleTwice(r) ==
    IF r.ok
    THEN /\ trade' = Pass(Pass(r.t))
         /\ requests' = requests \cup Sent(Drive(r.t)) \cup Sent(Drive(Pass(r.t)))
         /\ up' = up
    ELSE Settle(r)

TraderCompute ==
    /\ up
    /\ Settle(TOk(trade))
    /\ UNCHANGED <<price, results, ex, events, held>>

PriceMoves(p) ==
    /\ up
    /\ p # price
    /\ price' = p
    /\ UNCHANGED <<trade, requests, results, ex, events, held, up>>

(* A latched activator (proximity, distance) starts to say yes. *)
Activate(k) ==
    /\ up
    /\ trade.tracked
    /\ ~trade.orders[k].armed
    /\ trade' = [trade EXCEPT !.orders[k].armed = TRUE]
    /\ UNCHANGED <<price, requests, results, ex, events, held, up>>

----------------------------------------------------------------------------
(* Calls of a strategy.  An error goes back to the caller. *)

Call(name, r) ==
    /\ up
    /\ name \in Calls
    /\ trade.tracked
    /\ trade' = r.t
    /\ UNCHANGED <<price, requests, results, ex, events, held, up>>

CallTerminate == Call("terminate", CancelActiveOrderAndTerminate(trade, price))

CallCancelAndIdle == Call("idle", CancelActiveOrderAndIdle(trade, price))

(* Order::resume, on an order reached through Trader::get_order_mut. *)
CallResume(k) == Call("resume", OnOrder(trade, k, Resume(trade.orders[k], price)))

StrategyCall ==
    \/ CallTerminate
    \/ CallCancelAndIdle
    \/ \E k \in Kinds : CallResume(k)

----------------------------------------------------------------------------
(* The exchange and its client, which live on when the worker has ended.
   The client reports each request's outcome.                              *)

EventOf(k, kind, e) ==
    [order |-> k, kind |-> kind, seq |-> e.seq, qty |-> e.qty, filled |-> e.filled,
     full |-> e.filled = e.qty, stop |-> e.stop]

Opened(req) ==
    [status |-> "open", seq |-> req.seq, qty |-> req.qty, filled |-> 0, stop |-> req.stop]

(* Mutant: a failure is not reported. *)
ReportsSuccess(req, success) ==
    /\ requests' = requests \ {req}
    /\ results' = IF success
                  THEN results \cup {[order |-> req.order, id |-> req.id, success |-> TRUE]}
                  ELSE results
    /\ UNCHANGED <<trade, price, held, up>>

Reports(req, success) ==
    /\ requests' = requests \ {req}
    /\ results' = results \cup {[order |-> req.order, id |-> req.id, success |-> success]}
    /\ UNCHANGED <<trade, price, held, up>>

ExchangeCreate(req) ==
    /\ req.kind = "CreateOrder"
    /\ ex' = [ex EXCEPT ![req.order] = Opened(req)]
    /\ events' = Append(events, EventOf(req.order, "New", Opened(req)))
    /\ Reports(req, TRUE)

(* The simulator refuses a request without an event; a real exchange may
   announce the rejection as well.                                         *)
ExchangeReject(req) ==
    /\ "reject" \in Faults
    /\ req.kind = "CreateOrder"
    /\ \/ events' = events
       \/ events' = Append(events, EventOf(req.order, "Rejected", Opened(req)))
    /\ UNCHANGED ex
    /\ Reports(req, FALSE)

ExchangeCancel(req) ==
    /\ req.kind = "CancelOrder"
    /\ ex[req.order].status = "open"
    /\ ex' = [ex EXCEPT ![req.order].status = "gone"]
    /\ events' = Append(events, EventOf(req.order, "Cancelled", ex[req.order]))
    /\ Reports(req, TRUE)

(* cancel_replace_order embeds the replacement in the order it cancels; the
   simulator refuses when a part is filled already, a real exchange may not. *)
ExchangeCancelReplace(req) ==
    /\ req.kind = "CancelReplaceOrder"
    /\ ex[req.order].status = "open"
    /\ ex' = [ex EXCEPT ![req.order] = Opened(req)]
    /\ events' = events \o <<EventOf(req.order, "Cancelled", ex[req.order]),
                             EventOf(req.order, "New", Opened(req))>>
    /\ Reports(req, TRUE)

(* OrderNotFound, OrderIsNotOpen *)
ExchangeCannotCancel(req) ==
    /\ \/ req.kind \in {"CancelOrder", "CancelReplaceOrder"} /\ ex[req.order].status # "open"
       \/ req.kind = "CancelReplaceOrder" /\ ex[req.order].filled > 0
    /\ UNCHANGED <<ex, events>>
    /\ Reports(req, FALSE)

PerformRequest(req) ==
    \/ ExchangeCreate(req)
    \/ ExchangeReject(req)
    \/ ExchangeCancel(req)
    \/ ExchangeCancelReplace(req)
    \/ ExchangeCannotCancel(req)

Perform == \E req \in requests : PerformRequest(req)

(* A fill: of the whole order in the simulator, of any part on a real one. *)
ExchangeFill(k, filled) ==
    /\ ex[k].status = "open"
    /\ filled > ex[k].filled /\ filled <= ex[k].qty
    /\ filled = ex[k].qty \/ k \in PartialFills
    /\ ex' = [ex EXCEPT ![k].filled = filled,
                        ![k].status = IF filled = ex[k].qty THEN "gone" ELSE "open"]
    /\ events' = Append(events, EventOf(k, "Fill", ex'[k]))
    /\ held' = IF k = "entry" THEN held + filled - ex[k].filled ELSE held - filled + ex[k].filled
    /\ UNCHANGED <<trade, price, requests, results, up>>

(* The order ends without a request of ours: cancelled by hand or expired. *)
ExchangeEnds(k, fault, kind) ==
    /\ fault \in Faults
    /\ ex[k].status = "open"
    /\ ex' = [ex EXCEPT ![k].status = "gone"]
    /\ events' = Append(events, EventOf(k, kind, ex[k]))
    /\ UNCHANGED <<trade, price, requests, results, held, up>>

ExternalCancel(k) == ExchangeEnds(k, "cancel", "Cancelled")
ExternalExpire(k) == ExchangeEnds(k, "expire", "Expired")

ExchangeActs(k) ==
    \/ \E filled \in 1..Qty : ExchangeFill(k, filled)
    \/ ExternalCancel(k)
    \/ ExternalExpire(k)
----------------------------------------------------------------------------
(* The coin worker: Trader::handle_order_event, or the exchange client's own
   mapping of the same events (src/src/exchange_client_worker.rs).         *)

IsReplacement(router, e) == router = "trader" /\ e.kind = "New" /\ e.seq > 0

(* get_local_order_mut compares whole ids, the sequence number included; a
   replacement is looked up under the id it replaces.                      *)
IsKnown(router, e) ==
    /\ trade.tracked
    /\ trade.orders[e.order].seq = IF IsReplacement(router, e) THEN e.seq - 1 ELSE e.seq

(* Trader::confirm_order_open_failed confirms the failure twice. *)
ConfirmOpenFailedTwice(t, k) ==
    LET r == TradeConfirmOpenFailed(t, k, price)
    IN  IF r.ok THEN TradeConfirmOpenFailed(r.t, k, price) ELSE r

ConfirmNew(router, e) ==
    IF IsReplacement(router, e)
    THEN TradeConfirmReplaced(trade, e.order, e, price)
    ELSE TradeConfirmOpened(trade, e.order, price)

(* The exchange client takes an expiry for a cancellation. *)
ConfirmEnd(router, e) ==
    IF e.kind = "Expired" /\ router = "trader"
    THEN TradeConfirmExpired(trade, e.order, price)
    ELSE TradeConfirmCancelled(trade, e.order, price)

ConfirmRejection(router, e) ==
    IF router = "trader" THEN TradeConfirmRejected(trade, e.order, price)
    ELSE ConfirmOpenFailedTwice(trade, e.order)

ConfirmEvent(router, e) ==
    IF ~IsKnown(router, e) THEN TErr(trade)
    ELSE CASE e.kind = "New"                     -> ConfirmNew(router, e)
           [] e.kind = "Fill"                    -> TradeConfirmFilled(trade, e.order, e.filled,
                                                                       e.full, price)
           [] e.kind \in {"Cancelled", "Expired"} -> ConfirmEnd(router, e)
           [] e.kind = "Rejected"                -> ConfirmRejection(router, e)

HandleEvent(router) ==
    /\ up
    /\ events # <<>>
    /\ events' = Tail(events)
    /\ \E r \in {ConfirmEvent(router, Head(events))} :
          IF router = "trader" THEN SettleTwice(r) ELSE Settle(r)
    /\ UNCHANGED <<price, results, ex, held>>

(* The result of an instruction of a trade no longer tracked: TradeNotFound. *)
ConfirmResult(res) ==
    IF trade.tracked THEN ConfirmExecution(trade, res.order, res.id, res.success, price)
    ELSE TErr(trade)

HandleResult ==
    /\ up
    /\ \E res \in results :
          /\ results' = results \ {res}
          /\ Settle(ConfirmResult(res))
    /\ UNCHANGED <<price, ex, events, held>>

----------------------------------------------------------------------------
Next ==
    \/ TraderCompute
    \/ \E p \in 1..MaxPrice : PriceMoves(p)
    \/ \E k \in Kinds : Activate(k)
    \/ StrategyCall
    \/ Perform
    \/ \E k \in Kinds : ExchangeActs(k)
    \/ \E router \in Routers : HandleEvent(router)
    \/ HandleResult

Spec == Init /\ [][Next]_vars

(* The trader is computed with every candle, the client and worker threads
   loop over their channels and wait on none of them for ever; the market
   owes no fill and the strategy no call.
   Each obligation names what only that thread does: the trader's pass over
   the trade, a request taken, an event taken, a result taken.             *)
TakesTrade   == up /\ trade' = Pass(trade)
TakesRequest == \E req \in requests : requests' = requests \ {req}
TakesEvent   == up /\ events # <<>> /\ events' = Tail(events)
TakesResult  == up /\ \E res \in results : results' = results \ {res}

Fairness ==
    /\ []<>(up => Pass(trade) = trade) \/ []<><<TakesTrade>>_trade
    /\ WF_requests(TakesRequest)
    /\ WF_events(TakesEvent)
    /\ WF_results(TakesResult)

FairSpec == Spec /\ Fairness

----------------------------------------------------------------------------
(* Properties *)

OutOf(k, S) == {x \in S : x.order = k}

(* While the trade is tracked, a Running instruction of an order is exactly
   what is under way for it at the client: one request or one result, with
   its id; and nothing is under way for an order whose instruction is not Running.  So no instruction is
   sent twice, none is forgotten while it runs, and every result finds the
   instruction it belongs to, whatever the trade does with `pending`.       *)
InFlightMatchesSlot ==
    trade.tracked => \A k \in Kinds :
        LET i == trade.orders[k].instr
            Q == OutOf(k, requests)
            R == OutOf(k, results)
        IN  IF i.st = "Running"
            THEN \/ Q = {RequestOf(k, i)} /\ R = {}
                 \/ /\ Q = {}
                    /\ \E b \in BOOLEAN : R = {[order |-> k, id |-> i.id, success |-> b]}
            ELSE Q = {} /\ R = {}

(* Once every event has been applied the trader and the exchange agree on
   which orders are on the book, and under which id and with which stop.    *)
BookAgreement ==
    up /\ trade.tracked /\ events = <<>> =>
        \A k \in Kinds :
            /\ trade.orders[k].created <=> ex[k].status = "open"
            /\ ex[k].status = "open" =>
                  trade.orders[k].seq = ex[k].seq /\ trade.orders[k].stop = ex[k].stop

(* No order is requested while a previous one of its kind is, or may still
   be, on the book: neither on the exchange nor in an event not yet applied. *)
NoDoubleCreate ==
    \A req \in requests :
        req.kind = "CreateOrder" =>
            /\ ex[req.order].status # "open"
            /\ \A n \in 1..Len(events) : events[n].order = req.order => events[n].kind = "Rejected"

(* The exit and the stoploss never stand on the book together. *)
OneWayOut == ~(ex["exit"].status = "open" /\ ex["stop"].status = "open")

(* The trade never sells what it does not hold. *)
NeverOversold == held >= 0

(* What the exit or the stoploss offers for sale is held. *)
OffersWhatItHolds ==
    \A k \in {"exit", "stop"} : ex[k].status = "open" => ex[k].qty - ex[k].filled <= held

(* A trade leaves the trader's list only when nothing of it is on the book. *)
ClosedIsQuiet == ~trade.tracked => \A k \in Kinds : ex[k].status # "open"

(* A trailing stop only rises on the book, whatever the market does between
   the request and its execution.                                           *)
StopNeverRetreats ==
    [][ex["stop"].status = "open" /\ ex'["stop"].status = "open"
        => ex'["stop"].stop >= ex["stop"].stop]_vars

(* A finished order stays finished: no event, result or call revives it. *)
FinishedIsFinal ==
    [][\A k \in Kinds : trade.orders[k].state = "Finished"
                            => trade'.orders[k].state = "Finished"]_vars

(* A terminated order (by a strategy, by a failed instruction, or by running
   out of retries) asks for no new order, through whichever handler it goes. *)
TerminatedOpensNothing ==
    [][\A k \in Kinds :
          trade.orders[k].term /\ trade'.orders[k].instr.kind = "CreateOrder"
            => trade.orders[k].instr.kind = "CreateOrder"]_vars

(* Every instruction sent is answered, or the coin worker ends. *)
RunningIsAnswered ==
    \A k \in Kinds :
        trade.orders[k].instr.st = "Running" ~> (trade.orders[k].instr.st # "Running" \/ ~up)

----------------------------------------------------------------------------
(* What the source says of itself, and does not do. *)

(* src/src/order.rs on a withdrawn instruction: "If the instruction was to
   open the order, we revert to the Idle state".  A stoploss that is to make
   way for the exit before it was sent does not wait to be opened for ever.  *)
StopMakesWay ==
    LET stop == trade.orders["stop"]
    IN  stop.state = "PendingOpen" /\ stop.toIdle /\ stop.instr.st = "New"
            ~> stop.state # "PendingOpen" \/ stop.instr.st # "New" \/ ~up
=============================================================================
