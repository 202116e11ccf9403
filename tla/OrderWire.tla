------------------------------- MODULE OrderWire -------------------------------
(***************************************************************************)
(* One order on its way to an exchange and back, through every form it     *)
(* takes: the trader's order, its instruction (order.rs), the request the  *)
(* playground's client makes of the simulator (playground_context.rs) or   *)
(* the one the real client posts (exchange_client.rs), what stands at the  *)
(* exchange, the event that tells of it and the order the trader finds by  *)
(* the event's id (context.rs, trader.rs).                                 *)
(*                                                                         *)
(* When an order sends what is in Order, and what a trade makes of it in   *)
(* Trade: here an order sends what it may, and `known` is what it has been *)
(* told.  Amounts are those of Appraiser; 0 is a price that is not given.  *)
(***************************************************************************)
EXTENDS SmartId, Appraiser, Sequences

CONSTANTS
    Drafts,     \* what orders are asked for
    Filters,    \* the symbols' filters
    NewStops,   \* the prices a stop trails to
    Routes      \* "simulated", "real"

ASSUME WireAssumption ==
    /\ Routes \subseteq {"simulated", "real"}
    /\ \A f \in Filters : f \subseteq FilterRules /\ HasRules(f)

VARIABLES
    route,      \* the exchange this order goes to
    appraiser,
    order,      \* the trader's order
    sent,       \* the instruction in the client's channel
    standing,   \* the order as the exchange has it
    news        \* what the exchange has said of it and was not heard yet

wireVars == <<route, appraiser, order, sent, standing, news>>

None == [kind |-> "none"]

-----------------------------------------------------------------------------
(* types.rs: what goes over the wire is text. *)

TypeName ==
    [Limit |-> "LIMIT", LimitMaker |-> "LIMIT_MAKER", Market |-> "MARKET",
     StopLoss |-> "STOP_LOSS", StopLossLimit |-> "STOP_LOSS_LIMIT"]

SideName == [Buy |-> "BUY", Sell |-> "SELL"]

ExecutionName ==
    [New |-> "NEW", Cancelled |-> "CANCELED", Replaced |-> "REPLACED", Rejected |-> "REJECTED",
     Trade |-> "TRADE", Expired |-> "EXPIRED"]

StatusName ==
    [New |-> "NEW", PartiallyFilled |-> "PARTIALLY_FILLED", Filled |-> "FILLED",
     Cancelled |-> "CANCELED", Expired |-> "EXPIRED", Rejected |-> "REJECTED"]

Parsed(names, text) == CHOOSE x \in DOMAIN names : names[x] = text

(* The names of order types that serde reads back. *)
TypesRead ==
    [Limit |-> "LIMIT", LimitMaker |-> "LIMIT_MAKER", Market |-> "MARKET",
     StopLoss |-> "STOP_LOSS", StopLossLimit |-> "STOP_LOSS_LIMIT"]

-----------------------------------------------------------------------------
(* The order. *)

IsStopType(type) == type \in {"StopLoss", "StopLossLimit"}

Undrafted == [known |-> "none"]

(* Order::validate, which the templates of the trader end with and the
   builder of the plot does not.  A sell's stop lies below the reference
   and its limit below the stop, a buy's above.                            *)
Validates(d) ==
    /\ d.price # 0 \/ d.type = "Market"
    /\ d.quantity # 0
    /\ IsStopType(d.type) =>
         /\ d.reference > 0
         /\ IF d.side = "Buy" THEN d.price > d.reference ELSE d.price < d.reference
         /\ d.limit # 0 => IF d.side = "Buy" THEN d.limit > d.price ELSE d.limit < d.price

(* A stop of the template is a Sell whatever the side it is asked for. *)
TemplateSide(d) == IF IsStopType(d.type) /\ d.by = "template" THEN "Sell" ELSE d.side

(* A trade is given a new handle, and an order without one has 0. *)
HandleOf(d, now, counter) == IF d.standalone THEN 0 ELSE NewHandleId(now, counter)

HandleKind(d) == IF d.standalone THEN "StandaloneOrder" ELSE d.purpose

Draft ==
    /\ order = Undrafted
    /\ \E d \in Drafts, now \in {0, HandleSpan + 1}, counter \in 0 .. 1 :
         LET side == TemplateSide(d)
             handle == HandleOf(d, now, counter)
         IN  /\ d.standalone \/ handle # 0     \* Trade::validate
             /\ d.by = "template" => Validates([d EXCEPT !.side = side])
             /\ order' = [known |-> "Idle", id |-> NewOrderId(handle, HandleKind(d), now, counter),
                          side |-> side, type |-> d.type, price |-> d.price, limit |-> d.limit,
                          quantity |-> d.quantity, filled |-> 0, replacing |-> FALSE]
    /\ UNCHANGED <<route, appraiser, sent, standing, news>>

-----------------------------------------------------------------------------
(* Its instructions.  LimitBuy and LimitSell are one kind here, as are
   MarketBuy and MarketSell.                                               *)

Instruction(kind, id, side, type, quantity, price, stop) ==
    [kind |-> kind, id |-> id, original |-> id, side |-> side, type |-> type,
     quantity |-> quantity, price |-> price, stop |-> stop,
     postOnly |-> kind = "Limit" /\ type = "LimitMaker"]

(* Mutant: the price of the stop and its limit are swapped. *)
StoplossSwapped(o) ==
    Instruction("CreateStop", o.id, o.side, o.type, RoundNormalizedBase(appraiser, o.quantity),
                RoundNormalizedQuote(appraiser, o.price), RoundQuote(appraiser, o.limit))

(* instruction_stoploss: the limit price is rounded, and is not put on a tick. *)
InstructionStoploss(o) ==
    Instruction("CreateStop", o.id, o.side, o.type, RoundNormalizedBase(appraiser, o.quantity),
                RoundQuote(appraiser, o.limit), RoundNormalizedQuote(appraiser, o.price))

InstructionOpen(o) ==
    IF IsStopType(o.type) THEN InstructionStoploss(o)
    ELSE LET quantity == RoundNormalizedBase(appraiser, o.quantity)
             price == RoundNormalizedQuote(appraiser, o.price)
         IN  IF o.type = "Market"
             THEN Instruction("Market", o.id, o.side, "Market", quantity, 0, 0)
             ELSE Instruction("Limit", o.id, o.side, o.type, quantity, price, 0)

InstructionReplace(o, stop, limit) ==
    [Instruction("CancelReplaceOrder", NewIncrementedId(o.id), o.side, o.type, o.quantity - o.filled,
                 RoundNormalizedQuote(appraiser, limit), RoundNormalizedQuote(appraiser, stop))
        EXCEPT !.original = o.id]

InstructionCancel(o) == Instruction("CancelOrder", o.id, o.side, o.type, 0, 0, 0)

Open ==
    /\ order.known = "Idle" /\ sent = None
    /\ order' = [order EXCEPT !.known = "Asked"]
    /\ sent' = InstructionOpen(order)
    /\ UNCHANGED <<route, appraiser, standing, news>>

(* compute_stoploss trails the stop: the order waits for its cancellation
   before it has the id of the replacement, and without one it waits on.   *)
Trail(stop) ==
    /\ order.known = "Opened" /\ IsStopType(order.type) /\ sent = None
    /\ order' = [order EXCEPT !.known = "Leaving", !.replacing = TRUE]
    /\ LET limit == IF order.type = "StopLossLimit" THEN stop - stop \div 10 ELSE 0
       IN  sent' = IF NewIncrementedId(order.id) = Overflow THEN None
                   ELSE InstructionReplace(order, stop, limit)
    /\ UNCHANGED <<route, appraiser, standing, news>>

Cancel ==
    /\ order.known \in {"Opened", "PartiallyFilled"} /\ sent = None
    /\ order' = [order EXCEPT !.known = "Leaving"]
    /\ sent' = InstructionCancel(order)
    /\ UNCHANGED <<route, appraiser, standing, news>>

-----------------------------------------------------------------------------
(* instruction.rs: Instruction::to_generic, one form for all that place an
   order but a stop; nothing in the program calls it.                      *)
ToGeneric(i) ==
    CASE i.kind \in {"Limit", "Market"} -> [i EXCEPT !.kind = "CreateOrder", !.postOnly = FALSE]
      [] i.kind \in {"CreateOrder", "CancelReplaceOrder"} -> i
      [] OTHER -> None

-----------------------------------------------------------------------------
(* The order as an exchange keeps it: `price` is where a stop triggers and
   the limit of any other order, `limit` the limit of a stop.              *)
Placed(id, side, type, quantity, price, limit) ==
    [kind |-> "order", id |-> id, side |-> side, type |-> type, quantity |-> quantity,
     price |-> price, limit |-> limit, filled |-> 0]

(* The playground's client names a stop's price `price` and its price
   `limit_price`.                                                          *)
SimulatedOrder(i) ==
    CASE i.kind = "Limit" ->
            Placed(i.id, i.side, IF i.postOnly THEN "LimitMaker" ELSE "Limit", i.quantity, i.price, 0)
      [] i.kind = "Market" -> Placed(i.id, i.side, "Market", i.quantity, 0, 0)
      [] i.kind = "CreateStop" -> Placed(i.id, i.side, i.type, i.quantity, i.stop, i.price)

(* SimulatorOrder::validate: a market order is valid at the market price,
   and the client sends 0.                                                 *)
SimulatorValidates(p) ==
    /\ p.type \in {"Limit", "StopLoss", "StopLossLimit"} => p.price > 0
    /\ p.type = "StopLossLimit" => p.limit > 0
    /\ p.quantity > 0
    /\ p.type # "Market"

(* compute of the real client: what it posts, as text and numbers. *)
RealRequest(i) ==
    [id |-> i.id, side |-> SideName[i.side],
     type |-> IF i.postOnly THEN "LIMIT_MAKER" ELSE TypeName[i.type],
     quantity |-> i.quantity, price |-> i.price, stop |-> i.stop]

(* External: an exchange that does what it is asked. *)
RealOrder(r) ==
    LET type == Parsed(TypesRead, r.type)
    IN  Placed(r.id, Parsed(SideName, r.side), type, r.quantity,
               IF IsStopType(type) THEN r.stop ELSE r.price, IF IsStopType(type) THEN r.price ELSE 0)

RealTakes(r) ==
    /\ \E type \in DOMAIN TypesRead : TypesRead[type] = r.type
    /\ IsValidQuantity(appraiser, r.quantity)
    /\ \A price \in {r.price, r.stop} \ {0} : IsValidPrice(appraiser, price)

-----------------------------------------------------------------------------
(* The events.  The simulator generates what the trader takes; the real
   exchange sends text, with the client's id and the one it had before.    *)

NoFill == [status |-> "none"]

Event(id, p, execution, status, fill) ==
    [kind |-> "event", id |-> id, type |-> p.type, execution |-> execution, status |-> status,
     price |-> p.price, quantity |-> p.quantity, fill |-> fill]

(* generate_event *)
SimulatedEvent(p, execution, status) ==
    IF p.filled = 0 THEN Event(p.id, p, execution, status, NoFill)
    ELSE Event(p.id, p, "Trade", status,
               [status |-> IF p.filled >= p.quantity THEN "Filled" ELSE "PartiallyFilled",
                accumulated |-> p.filled])

NotANumber == 0 - 1

(* External: OrderUpdateEvent as the user stream carries it. *)
OrderUpdate(client, original, p, execution, status) ==
    [kind |-> "update", c |-> client, C |-> original, o |-> TypeName[p.type],
     x |-> ExecutionName[execution], X |-> StatusName[status], q |-> p.quantity,
     p |-> p.price, z |-> p.filled]

(* process_order_update: the id is the client's if that is one, else the one
   before, else that of an order nobody here has asked for.                *)
LocalId(e) ==
    IF e.c # NotANumber THEN e.c
    ELSE IF e.C # NotANumber THEN e.C
    ELSE NewOrderIdWithUniqueId(0, "UnexpectedOrder", 1)

Normalized(e) ==
    LET status == Parsed(StatusName, e.X)
    IN  [kind |-> "event", id |-> LocalId(e), type |-> Parsed(TypesRead, e.o),
         execution |-> Parsed(ExecutionName, e.x), status |-> status,
         price |-> e.p, quantity |-> e.q,
         fill |-> IF status \in {"PartiallyFilled", "Filled"}
                  THEN [status |-> status, accumulated |-> e.z] ELSE NoFill]

Says(p, execution, status) ==
    IF route = "simulated" THEN SimulatedEvent(p, execution, status)
    ELSE OrderUpdate(p.id, NotANumber, p, execution, status)

-----------------------------------------------------------------------------
(* The exchange. *)

Unanswered == UNCHANGED <<standing, news>>

Stands(p) ==
    /\ standing' = p
    /\ news' = Append(news, Says(p, "New", "New"))

(* create_order turns away a LimitMaker that would match. *)
PlaceSimulated ==
    /\ route = "simulated"
    /\ sent.kind \in {"Limit", "CreateStop"} \/ (sent.kind = "Market" /\ sent.side = "Buy")
    /\ LET p == SimulatedOrder(sent)
       IN  \/ SimulatorValidates(p) /\ Stands(p)
           \/ (~SimulatorValidates(p) \/ p.type = "LimitMaker") /\ Unanswered
    /\ sent' = None
    /\ UNCHANGED <<route, appraiser, order>>

(* A replacement is new to the exchange, with what its original had left. *)
ReplaceSimulated ==
    /\ route = "simulated" /\ sent.kind = "CancelReplaceOrder"
    /\ IF standing # None /\ standing.id = sent.original
       THEN LET p == Placed(sent.id, standing.side, sent.type, standing.quantity - standing.filled,
                            sent.stop, sent.price)
            IN  /\ standing' = p
                /\ news' = news \o <<SimulatedEvent(standing, "Cancelled", "Cancelled"),
                                     SimulatedEvent(p, "New", "New")>>
       ELSE Unanswered
    /\ sent' = None
    /\ UNCHANGED <<route, appraiser, order>>

CancelSimulated ==
    /\ route = "simulated" /\ sent.kind = "CancelOrder"
    /\ IF standing # None /\ standing.id = sent.id
       THEN /\ standing' = None
            /\ news' = Append(news, SimulatedEvent(standing, "Cancelled", "Cancelled"))
       ELSE Unanswered
    /\ sent' = None
    /\ UNCHANGED <<route, appraiser, order>>

(* The real client knows no replacement, and cancels by the wrong name. *)
PlaceReal ==
    /\ route = "real" /\ sent # None
    /\ \/ /\ sent.kind \in {"Limit", "Market", "CreateStop"} /\ RealTakes(RealRequest(sent))
          /\ Stands(RealOrder(RealRequest(sent)))
       \/ Unanswered
    /\ sent' = None
    /\ UNCHANGED <<route, appraiser, order>>

(* The simulator fills whole, the real exchange in parts. *)
Fill(amount) ==
    /\ standing.kind = "order" /\ Len(news) < 2
    /\ standing.filled + amount <= standing.quantity
    /\ route = "simulated" => amount = standing.quantity
    /\ LET p == [standing EXCEPT !.filled = @ + amount]
           status == IF p.filled = p.quantity THEN "Filled" ELSE "PartiallyFilled"
       IN  /\ standing' = IF status = "Filled" THEN None ELSE p
           /\ news' = Append(news, Says(p, "Trade", status))
    /\ UNCHANGED <<route, appraiser, order, sent>>

(* External: the owner of the account cancels the order elsewhere, or it
   expires.                                                                *)
TakenAway(end) ==
    /\ route = "real" /\ standing.kind = "order" /\ Len(news) < 2
    /\ standing' = IF end = "Expired" THEN [standing EXCEPT !.kind = "expired"] ELSE None
    /\ news' = Append(news, OrderUpdate(IF end = "Cancelled" THEN NotANumber ELSE standing.id,
                                        standing.id, standing, end, end))
    /\ UNCHANGED <<route, appraiser, order, sent>>

(* External: an order placed elsewhere. *)
Elsewhere ==
    /\ route = "real" /\ standing.kind = "order" /\ Len(news) < 2
    /\ news' = Append(news, OrderUpdate(NotANumber, NotANumber, standing, "New", "New"))
    /\ UNCHANGED <<route, appraiser, order, sent, standing>>

-----------------------------------------------------------------------------
(* handle_order_event: the case the event falls in, and what the order with
   its id comes to know.  Any other event is an error that is logged, and
   so is an expiry: set_state knows no step to Expired.                    *)

Opened(o, e) == IF o.id = e.id /\ o.known = "Asked" THEN [o EXCEPT !.known = "Opened"] ELSE o

(* confirm_replaced: the new limit price is not kept. *)
Replaced(o, e) ==
    IF o.id = DecrementedId(e.id) /\ o.known = "Replacing"
    THEN [o EXCEPT !.known = "Opened", !.id = e.id, !.type = e.type, !.price = e.price,
                   !.limit = 0, !.quantity = e.quantity, !.filled = 0]
    ELSE o

(* The amount is kept even when set_state refuses the step: an order on its
   way to be cancelled is not filled.                                      *)
Filled(o, e) ==
    IF o.id # e.id THEN o
    ELSE [o EXCEPT !.filled = e.fill.accumulated,
                   !.known = IF @ \in {"Opened", "PartiallyFilled"} THEN e.fill.status ELSE @]

Ended(o, e) ==
    IF o.id # e.id THEN o
    ELSE [o EXCEPT !.replacing = FALSE, !.known = IF o.replacing THEN "Replacing" ELSE "Cancelled"]

Heard(o, e) ==
    LET about == Decode(e.id)
        case == <<e.execution, e.status>>
    IN  CASE about.kind = "UnexpectedOrder" -> o
          [] about.kind # "UnexpectedOrder" /\ case = <<"New", "New">> ->
                IF about.sequence = 0 THEN Opened(o, e) ELSE Replaced(o, e)
          [] about.kind # "UnexpectedOrder" /\ e.execution = "Trade" -> Filled(o, e)
          [] /\ about.kind # "UnexpectedOrder"
             /\ case \in {<<"Cancelled", "Cancelled">>, <<"Cancelled", "PartiallyFilled">>} -> Ended(o, e)
          [] OTHER -> o

Hear ==
    /\ news # <<>>
    /\ LET e == IF route = "real" THEN Normalized(Head(news)) ELSE Head(news)
       IN  order' = Heard(order, e)
    /\ news' = Tail(news)
    /\ UNCHANGED <<route, appraiser, sent, standing>>

-----------------------------------------------------------------------------
WireInit ==
    /\ route \in Routes
    /\ \E f \in Filters : appraiser = NewAppraiser(f)
    /\ order = Undrafted /\ sent = None /\ standing = None /\ news = <<>>

WireNext ==
    \/ Draft \/ Open \/ Cancel \/ Hear
    \/ \E stop \in NewStops : Trail(stop)
    \/ PlaceSimulated \/ ReplaceSimulated \/ CancelSimulated \/ PlaceReal
    \/ \E p \in {standing} \ {None} :
         \E amount \in {p.quantity - p.filled, appraiser.rules.lot.step} : Fill(amount)
    \/ \E end \in {"Cancelled", "Expired"} : TakenAway(end)
    \/ Elsewhere

WireSpec == WireInit /\ [][WireNext]_wireVars

-----------------------------------------------------------------------------
Quiet == sent = None /\ news = <<>>

(* On a tick, and a stop's limit not beyond its price by more than the one
   tick that rounding the two apart can make.                              *)
OnTheGrid(p) ==
    /\ p.quantity % appraiser.rules.lot.step = 0
    /\ p.price = 0 \/ IsValidPrice(appraiser, p.price)
    /\ (p.limit # 0 /\ p.side = "Sell") => p.limit <= p.price + appraiser.rules.price.step

(* The order and what stands of it are one: the same id, side, type and
   amounts, each in its role, and as much of it filled.  A limit that a
   replacement brought is not compared: the order forgets it.              *)
Agree(o, p) ==
    /\ o.id = p.id /\ o.side = p.side /\ o.type = p.type
    /\ p.quantity = RoundNormalizedBase(appraiser, o.quantity) /\ p.filled = o.filled
    /\ p.price = IF o.type = "Market" THEN 0 ELSE RoundNormalizedQuote(appraiser, o.price)
    /\ o.limit # 0 => p.limit = RoundQuote(appraiser, o.limit)

(* Once nothing is on its way, the trader's order and the exchange's are in
   agreement, whichever exchange it is and however often the order was
   filled, replaced or taken away; only the real client, which knows no
   replacement, can leave an order waiting for one, and only an expiry
   leaves it as if it stood.  An order that was filled before it could be
   cancelled has the whole of it.  On the way, an instruction and its
   generic form ask the exchange for the same.                             *)
ArrivesAsMeant ==
    /\ (Quiet /\ standing # None) =>      \* it stands, or has expired
         /\ Agree(order, standing) /\ OnTheGrid(standing)
         /\ order.known \in {"Opened", "PartiallyFilled", "Leaving"}
    /\ (Quiet /\ standing = None) =>
         \/ order.known \in {"none", "Idle", "Asked", "Filled", "Cancelled"}
         \/ order.known = "Leaving" /\ order.filled = RoundNormalizedBase(appraiser, order.quantity)
         \/ order.known = "Replacing" /\ route = "real"
    /\ \A form \in {sent, ToGeneric(sent)} \ {None} :
         form.kind \in {"Limit", "Market", "CreateOrder"} => RealRequest(form) = RealRequest(sent)
=============================================================================
