------------------------ MODULE TradeExchangeProofs ------------------------
(***************************************************************************)
(* Theorems about TradeExchange: its type, that a Running instruction is   *)
(* exactly what is under way for its order, that a finished order stays    *)
(* finished, and that a terminated one opens nothing more; for every       *)
(* quantity, price range, retry countdown, id space, sequence limit,       *)
(* faults, calls and event routers.                                        *)
(***************************************************************************)
EXTENDS TradeExchange, TradeProofs

(* InFlightMatchesSlot for one order o of kind k, requests Q and results R. *)
OrderInFlight(o, k, Q, R) ==
    IF o.instr.st = "Running"
    THEN \/ OutOf(k, Q) = {RequestOf(k, o.instr)} /\ OutOf(k, R) = {}
         \/ /\ OutOf(k, Q) = {}
            /\ \E b \in BOOLEAN :
                  OutOf(k, R) = {[order |-> k, id |-> o.instr.id, success |-> b]}
    ELSE OutOf(k, Q) = {} /\ OutOf(k, R) = {}

InFlight(t, Q, R) ==
    t.tracked => \A k \in Kinds : OrderInFlight(t.orders[k], k, Q, R)

(* A method that keeps an order keeps its agreement with what is under way. *)
LEMMA KeepsInFlight ==
    ASSUME NEW o, NEW p, Keeps(o, p), NEW k, NEW Q, NEW R, OrderInFlight(o, k, Q, R)
    PROVE  OrderInFlight(p, k, Q, R)
BY DEF Keeps, OrderInFlight

(* What is in flight for a trade is in flight for what the trade evolves into. *)
LEMMA EvolvesInFlight ==
    ASSUME NEW t, NEW u, TradeEvolves(t, u), NEW Q, NEW R, InFlight(t, Q, R)
    PROVE  InFlight(u, Q, R)
BY KeepsInFlight DEF TradeEvolves, Evolves, InFlight

(* Being finished, and being terminated, from one trade record to the next. *)
Finishes(t, u) ==
    \A k \in Kinds : /\ t.orders[k].state = "Finished" => u.orders[k].state = "Finished"
                     /\ OpensNothing(t.orders[k], u.orders[k])

(* Orders stay finished, and terminated, over two steps. *)
LEMMA FinishesTrans ==
    ASSUME NEW t, NEW u, NEW v, Finishes(t, u), Finishes(u, v)
    PROVE  Finishes(t, v)
BY DEF Finishes, OpensNothing
----------------------------------------------------------------------------
(* A pass of the trader *)

(* Before it sends anything, the pass of the trader evolves the trade or untracks it. *)
LEMMA DriveTracked ==
    ASSUME NEW t \in TradeRec, price \in Int
    PROVE  /\ Drive(t) \in TradeRec
           /\ Finishes(t, Drive(t))
           /\ Drive(t).tracked => TradeEvolves(t, Drive(t))
<1>1. CASE Untracked(t)
  <2>1. Drive(t) = [t EXCEPT !.tracked = FALSE]
    BY <1>1 DEF Drive
  <2>2. Drive(t) \in TradeRec /\ Drive(t).tracked = FALSE /\ Drive(t).orders = t.orders
    BY <2>1 DEF TradeRec
  <2>3. QED BY <2>2 DEF Finishes, OpensNothing
<1>2. CASE ~Untracked(t)
  <2>1. TradeEvolves(t, Drive(t))
    BY <1>2, ComputeTradeSound DEF Drive, TradeSound
  <2>2. QED BY <2>1 DEF TradeEvolves, Evolves, Keeps, Finishes
<1>3. QED BY <1>1, <1>2

(* Marking the sent instruction Running leaves the type and the states. *)
LEMMA MarkTyped ==
    ASSUME NEW t \in TradeRec
    PROVE  /\ MarkRunning(t) \in TradeRec
           /\ MarkRunning(t).tracked = t.tracked
           /\ Finishes(t, MarkRunning(t))
           /\ \A k \in Kinds :
                 MarkRunning(t).orders[k] =
                     IF Sends(t, k) THEN [t.orders[k] EXCEPT !.instr.st = "Running"]
                     ELSE t.orders[k]
<1> DEFINE n(k) == IF Sends(t, k) THEN [t.orders[k] EXCEPT !.instr.st = "Running"]
                   ELSE t.orders[k]
           f == [k \in Kinds |-> n(k)]
<1>1. ASSUME NEW k \in Kinds
      PROVE  /\ n(k) \in OrderRec /\ n(k).state = t.orders[k].state
             /\ OpensNothing(t.orders[k], n(k))
  <2>1. t.orders[k] \in OrderRec
    BY TradeOrders
  <2>2. CASE ~Sends(t, k)
    BY <2>1, <2>2 DEF OpensNothing
  <2>3. CASE Sends(t, k)
    <3>1. t.orders[k].instr \in Instruction
      BY <2>1, <2>3 DEF OrderRec, NoInstr, Sends
    <3>2. [t.orders[k].instr EXCEPT !.st = "Running"] \in Instruction
      BY <3>1 DEF Instruction, InstructionState
    <3>3. /\ n(k) \in OrderRec /\ n(k).state = t.orders[k].state
          /\ n(k).instr.kind = t.orders[k].instr.kind /\ n(k).term = t.orders[k].term
      BY <2>1, <2>3, <3>1, <3>2 DEF OrderRec, Instruction
    <3>4. QED BY <3>3 DEF OpensNothing
  <2>4. QED BY <2>2, <2>3
<1>2. f \in [Kinds -> OrderRec] /\ \A k \in Kinds : f[k] = n(k)
  BY <1>1
<1>3. MarkRunning(t) = [t EXCEPT !.orders = f]
  BY DEF MarkRunning
<1> HIDE DEF f, n
<1>4. /\ MarkRunning(t) \in TradeRec
      /\ MarkRunning(t).tracked = t.tracked
      /\ MarkRunning(t).orders = f
  BY <1>2, <1>3 DEF TradeRec
<1>5. Finishes(t, MarkRunning(t))
  BY <1>1, <1>2, <1>4 DEF Finishes
<1>6. QED BY <1>2, <1>4, <1>5 DEF n

(* What is sent for an order, and for the others nothing. *)
LEMMA SentOf ==
    ASSUME NEW t, NEW k \in Kinds, NEW Q
    PROVE  OutOf(k, Q \cup Sent(t)) =
              IF Sends(t, k) THEN OutOf(k, Q) \cup {RequestOf(k, t.orders[k].instr)}
              ELSE OutOf(k, Q)
<1>1. \A j : RequestOf(j, t.orders[j].instr).order = j
  BY DEF RequestOf
<1>2. OutOf(k, Sent(t)) = IF Sends(t, k) THEN {RequestOf(k, t.orders[k].instr)} ELSE {}
  BY <1>1 DEF OutOf, Sent
<1>3. OutOf(k, Q \cup Sent(t)) = OutOf(k, Q) \cup OutOf(k, Sent(t))
  BY DEF OutOf
<1>4. QED BY <1>2, <1>3

(* A pass of the trader sends an instruction exactly when it marks it. *)
LEMMA PassInFlight ==
    ASSUME NEW t \in TradeRec, price \in Int, NEW Q, NEW R,
           Q \subseteq Request, InFlight(t, Q, R)
    PROVE  /\ Pass(t) \in TradeRec
           /\ Q \cup Sent(Drive(t)) \subseteq Request
           /\ InFlight(Pass(t), Q \cup Sent(Drive(t)), R)
           /\ Finishes(t, Pass(t))
<1> DEFINE d == Drive(t)
           m == MarkRunning(d)
<1>1. /\ d \in TradeRec /\ Finishes(t, d)
      /\ d.tracked => TradeEvolves(t, d)
  BY DriveTracked
<1>2. m \in TradeRec /\ Finishes(d, m) /\ m.tracked = d.tracked
  BY <1>1, MarkTyped
<1>3. ASSUME NEW k \in Kinds, Sends(d, k)
      PROVE  d.orders[k].instr \in Instruction /\ RequestOf(k, d.orders[k].instr) \in Request
  <2>1. d.orders[k] \in OrderRec
    BY <1>1, TradeOrders
  <2>2. d.orders[k].instr \in Instruction
    BY <1>3, <2>1 DEF OrderRec, NoInstr, Sends
  <2>3. QED BY <2>2 DEF RequestOf, Request, Instruction
<1>4. Q \cup Sent(d) \subseteq Request
  BY <1>3 DEF Sent
<1>5. ASSUME d.tracked, NEW k \in Kinds
      PROVE  OrderInFlight(m.orders[k], k, Q \cup Sent(d), R)
  <2>1. OrderInFlight(d.orders[k], k, Q, R)
    BY <1>1, <1>5, EvolvesInFlight DEF InFlight
  <2>2. CASE ~Sends(d, k)
    <3>1. m.orders[k] = d.orders[k]
      BY <1>1, <2>2, MarkTyped
    <3>2. OutOf(k, Q \cup Sent(d)) = OutOf(k, Q)
      BY <2>2, SentOf
    <3>3. QED BY <2>1, <3>1, <3>2 DEF OrderInFlight
  <2>3. CASE Sends(d, k)
    <3>1. m.orders[k] = [d.orders[k] EXCEPT !.instr.st = "Running"]
      BY <1>1, <2>3, MarkTyped
    <3>2. /\ m.orders[k].instr = [d.orders[k].instr EXCEPT !.st = "Running"]
      BY <1>1, <3>1, TradeOrders DEF OrderRec
    <3>3. /\ RequestOf(k, m.orders[k].instr) = RequestOf(k, d.orders[k].instr)
          /\ m.orders[k].instr.st = "Running"
      BY <1>3, <2>3, <3>2 DEF RequestOf, Instruction
    <3>4. OutOf(k, Q) = {} /\ OutOf(k, R) = {}
      BY <2>1, <2>3 DEF OrderInFlight, Sends
    <3>5. OutOf(k, Q \cup Sent(d)) = {RequestOf(k, d.orders[k].instr)}
      BY <2>3, <3>4, SentOf
    <3>6. QED BY <3>3, <3>4, <3>5 DEF OrderInFlight
  <2>4. QED BY <2>2, <2>3
<1>6. InFlight(m, Q \cup Sent(d), R)
  BY <1>2, <1>5 DEF InFlight
<1>7. Pass(t) = m
  BY DEF Pass
<1>8. QED BY <1>1, <1>2, <1>4, <1>6, <1>7, FinishesTrans

(* What is left of a handler keeps the agreement its method left. *)
LEMMA SettleInFlight ==
    ASSUME price \in Int, requests \subseteq Request, up \in BOOLEAN,
           NEW r, r.t \in TradeRec, r.ok \in BOOLEAN, NEW R,
           InFlight(r.t, requests, R),
           Settle(r) \/ SettleTwice(r)
    PROVE  /\ trade' \in TradeRec
           /\ requests' \subseteq Request
           /\ up' \in BOOLEAN
           /\ InFlight(trade', requests', R)
           /\ Finishes(r.t, trade')
<1> DEFINE p1 == Pass(r.t)
           Q1 == requests \cup Sent(Drive(r.t))
           p2 == Pass(p1)
           Q2 == Q1 \cup Sent(Drive(p1))
<1>1. p1 \in TradeRec /\ Q1 \subseteq Request /\ InFlight(p1, Q1, R) /\ Finishes(r.t, p1)
  BY PassInFlight
<1>2. p2 \in TradeRec /\ Q2 \subseteq Request /\ InFlight(p2, Q2, R) /\ Finishes(r.t, p2)
  <2>1. p2 \in TradeRec /\ Q2 \subseteq Request /\ InFlight(p2, Q2, R) /\ Finishes(p1, p2)
    BY <1>1, PassInFlight
  <2>2. QED BY <1>1, <2>1, FinishesTrans
<1>3. CASE Settle(r) /\ r.ok
  BY <1>1, <1>3 DEF Settle
<1>4. CASE Settle(r) /\ ~r.ok
  BY <1>4, EnvAssumption DEF Settle, Finishes, OpensNothing
<1>5. CASE SettleTwice(r) /\ ~r.ok
  BY <1>4, <1>5 DEF SettleTwice
<1>6. CASE SettleTwice(r) /\ r.ok
  BY <1>2, <1>6 DEF SettleTwice
<1>7. QED BY <1>3, <1>4, <1>5, <1>6
----------------------------------------------------------------------------
(* Events *)

(* A handler that refuses leaves the trade as it is. *)
LEMMA RefusalSound == ASSUME NEW t \in TradeRec PROVE TradeSound(t, TErr(t)) /\ TradeSound(t, TOk(t))
BY TradeRefl, TradeOk

(* Confirming the failure twice evolves the orders. *)
LEMMA OpenFailedTwiceSound ==
    ASSUME NEW t \in TradeRec, NEW k \in Kinds, price \in Int
    PROVE  TradeSound(t, ConfirmOpenFailedTwice(t, k))
<1> DEFINE r == TradeConfirmOpenFailed(t, k, price)
<1>1. TradeSound(t, r)
  BY ConfirmOpenFailedSound
<1>2. TradeEvolves(t, r.t) /\ r.t \in TradeRec
  BY <1>1 DEF TradeSound, TradeEvolves
<1>3. TradeSound(r.t, TradeConfirmOpenFailed(r.t, k, price))
  BY <1>2, ConfirmOpenFailedSound
<1>4. TradeSound(t, TradeConfirmOpenFailed(r.t, k, price))
  BY <1>2, <1>3, TradeAfter
<1>5. QED BY <1>1, <1>4 DEF ConfirmOpenFailedTwice

(* An event, whoever routes it, keeps every order. *)
LEMMA EventSound ==
    ASSUME trade \in TradeRec, price \in Int, NEW router, NEW e \in Event
    PROVE  TradeSound(trade, ConfirmEvent(router, e))
<1>1. /\ e.order \in Kinds /\ e.kind \in EventKind /\ e.seq \in 0..MaxSeq /\ e.qty \in Int
      /\ e.filled \in Nat /\ e.full \in BOOLEAN /\ e.stop \in Int
  BY DEF Event
<1>2. TradeSound(trade, ConfirmNew(router, e))
  BY <1>1, ConfirmsSound, ConfirmReplacedSound DEF ConfirmNew
<1>3. TradeSound(trade, TradeConfirmFilled(trade, e.order, e.filled, e.full, price))
  BY <1>1, ConfirmFilledSound
<1>4. TradeSound(trade, ConfirmEnd(router, e))
  BY <1>1, ConfirmsSound DEF ConfirmEnd
<1>5. TradeSound(trade, ConfirmRejection(router, e))
  BY <1>1, ConfirmsSound, OpenFailedTwiceSound DEF ConfirmRejection
<1>6. TradeSound(trade, TErr(trade))
  BY RefusalSound
<1>7. QED BY <1>1, <1>2, <1>3, <1>4, <1>5, <1>6 DEF ConfirmEvent, EventKind
----------------------------------------------------------------------------
(* The inductive invariant *)

(* The agreement needs the types; nothing else of the state is needed, for
   the trader's pass and every method treat the slot the same way whatever
   state the order is in.                                                   *)
IInv == TypeOK /\ InFlightMatchesSlot

(* The invariant of the specification is the predicate used above. *)
LEMMA IInvInFlight ==
    /\ InFlightMatchesSlot <=> InFlight(trade, requests, results)
    /\ InFlightMatchesSlot' <=> InFlight(trade', requests', results')
BY DEF InFlightMatchesSlot, InFlight, OrderInFlight

(* What a step leaves behind when it only changes the trade by a method. *)
LEMMA EvolvesIInv ==
    ASSUME IInv, TradeEvolves(trade, trade'),
           UNCHANGED <<price, requests, results, ex, events, held, up>>
    PROVE  IInv'
<1>1. InFlight(trade', requests', results')
  BY EvolvesInFlight, IInvInFlight DEF IInv
<1>2. trade' \in TradeRec
  BY DEF TradeEvolves
<1>3. QED BY <1>1, <1>2, IInvInFlight DEF IInv, TypeOK

(* The handlers that end in Settle. *)
LEMMA SettleIInv ==
    ASSUME IInv, NEW r, r.t \in TradeRec, r.ok \in BOOLEAN,
           InFlight(r.t, requests, results'), Settle(r) \/ SettleTwice(r),
           results' \subseteq Result, events' \in Seq(Event), UNCHANGED <<price, ex, held>>
    PROVE  IInv'
<1>1. /\ trade' \in TradeRec
      /\ requests' \subseteq Request
      /\ up' \in BOOLEAN
      /\ InFlight(trade', requests', results')
  <2>1. /\ price \in Int /\ requests \subseteq Request /\ up \in BOOLEAN
    BY EnvAssumption DEF IInv, TypeOK
  <2>2. QED BY <2>1, SettleInFlight
<1>2. QED BY <1>1, IInvInFlight DEF IInv, TypeOK

(* A fresh order has its type. *)
LEMMA NewOrderTyped ==
    ASSUME NEW type \in {"limit", "stop"}, NEW side \in {"Buy", "Sell"},
           NEW armed \in BOOLEAN, NEW qty \in Int, NEW stop \in Int
    PROVE  NewOrder(type, side, armed, qty, stop) \in OrderRec
BY RetriesAssumption, SeqAssumption, IdAssumption
   DEF NewOrder, OrderRec, OrderState, OrderMode, NoInstr

(* The invariant holds initially: nothing runs and nothing is in flight. *)
LEMMA InitIInv == Init => IInv
<1> SUFFICES ASSUME Init PROVE IInv
  OBVIOUS
<1>1. PICK armed \in BOOLEAN :
          trade = NewTrade(NewOrder("limit", "Buy", armed, Qty, 0),
                           NewOrder("limit", "Sell", ExitIsInstant, Qty, 0),
                           NewOrder("stop", "Sell", TRUE, Qty, InitialStop))
  BY DEF Init
<1> DEFINE n == NewOrder("limit", "Buy", armed, Qty, 0)
           x == NewOrder("limit", "Sell", ExitIsInstant, Qty, 0)
           s == NewOrder("stop", "Sell", TRUE, Qty, InitialStop)
<1>2. n \in OrderRec /\ x \in OrderRec /\ s \in OrderRec
  <2>1. Qty \in Int /\ 0 \in Int /\ InitialStop \in Int /\ ExitIsInstant \in BOOLEAN
    BY EnvAssumption
  <2>2. n \in OrderRec
    BY <2>1, NewOrderTyped
  <2>3. x \in OrderRec
    BY <2>1, NewOrderTyped
  <2>4. s \in OrderRec
    BY <2>1, NewOrderTyped
  <2>5. QED BY <2>2, <2>3, <2>4
<1>3. n.instr.st # "Running" /\ x.instr.st # "Running" /\ s.instr.st # "Running"
  BY DEF NewOrder, NoInstr
<1> HIDE DEF n, x, s
<1>4. trade = NewTrade(n, x, s)
  BY <1>1 DEF n, x, s
<1>5. trade \in TradeRec
  BY <1>2, <1>4 DEF NewTrade, TradeRec, TradeState, TradeStatus, Kinds
<1>6. \A k \in Kinds : trade.orders[k].instr.st # "Running"
  BY <1>3, <1>4 DEF NewTrade, Kinds
<1>7. OutOf("entry", {}) = {} /\ \A k \in Kinds : OutOf(k, {}) = {}
  BY DEF OutOf
<1>8. InFlightMatchesSlot
  BY <1>6, <1>7 DEF Init, InFlightMatchesSlot
<1>9. NoExchangeOrder \in ExchangeOrder
  BY SeqAssumption DEF NoExchangeOrder, ExchangeOrder
<1>10. QED BY <1>5, <1>8, <1>9, EnvAssumption DEF Init, IInv, TypeOK
----------------------------------------------------------------------------
(* Each action keeps it. *)

(* The trader's own pass preserves the invariant. *)
LEMMA TraderIInv == IInv /\ TraderCompute => IInv'
<1> SUFFICES ASSUME IInv, TraderCompute PROVE IInv'
  OBVIOUS
<1>1. TOk(trade).t = trade /\ TOk(trade).ok = TRUE
  BY DEF TOk
<1>2. InFlight(trade, requests, results)
  BY IInvInFlight DEF IInv
<1>3. QED BY <1>1, <1>2, SettleIInv DEF TraderCompute, IInv, TypeOK

(* An activator that starts to say yes preserves it. *)
LEMMA ActivateIInv == ASSUME NEW k \in Kinds PROVE IInv /\ Activate(k) => IInv'
<1> SUFFICES ASSUME IInv, Activate(k) PROVE IInv'
  OBVIOUS
<1> DEFINE o == trade.orders[k]
           p == [o EXCEPT !.armed = TRUE]
<1>1. o \in OrderRec /\ trade \in TradeRec
  BY TradeOrders DEF IInv, TypeOK
<1>2. Evolves(o, p)
  BY <1>1 DEF Evolves, Keeps, OpensNothing, OrderRec
<1>3. trade' = With(trade, k, p)
  BY <1>1 DEF Activate, With, TradeRec
<1>4. TradeEvolves(trade, trade')
  BY <1>1, <1>2, <1>3, WithEvolves
<1>5. QED BY <1>4, EvolvesIInv DEF Activate

(* A strategy's call preserves it. *)
LEMMA CallIInv == IInv /\ StrategyCall => IInv'
<1> SUFFICES ASSUME IInv, StrategyCall PROVE IInv'
  OBVIOUS
<1>1. trade \in TradeRec /\ price \in Int
  BY EnvAssumption DEF IInv, TypeOK
<1>2. ASSUME NEW name, NEW r, Call(name, r), TradeSound(trade, r)
      PROVE  IInv'
  BY <1>2, EvolvesIInv DEF Call, TradeSound
<1>3. QED BY <1>1, <1>2, CallsSound
  DEF StrategyCall, CallTerminate, CallCancelAndIdle, CallResume

(* The request performed is all there is under way for its order; its result
   takes its place.  For the other orders nothing changes.                   *)
LEMMA ReportsInFlight ==
    ASSUME IInv, NEW req \in requests, NEW b \in BOOLEAN, Reports(req, b)
    PROVE  InFlightMatchesSlot' /\ requests' \subseteq Request /\ results' \subseteq Result
<1> DEFINE k == req.order
           res == [order |-> k, id |-> req.id, success |-> b]
<1>1. k \in Kinds /\ req.id \in 0..(IdPeriod - 1)
  BY DEF IInv, TypeOK, Request
<1>2. requests' = requests \ {req} /\ results' = results \cup {res} /\ trade' = trade
  BY DEF Reports
<1>3. res.order = k /\ res.id = req.id /\ res.success = b /\ res \in Result
  BY <1>1 DEF Result
<1> HIDE DEF res
<1>4. requests' \subseteq Request /\ results' \subseteq Result
  BY <1>2, <1>3 DEF IInv, TypeOK
<1>5. ASSUME trade.tracked, NEW j \in Kinds
      PROVE  OrderInFlight(trade.orders[j], j, requests', results')
  <2>1. OrderInFlight(trade.orders[j], j, requests, results)
    BY <1>5, IInvInFlight DEF IInv, InFlight
  <2>2. CASE j # k
    <3>1. OutOf(j, requests') = OutOf(j, requests) /\ OutOf(j, results') = OutOf(j, results)
      BY <1>2, <1>3, <2>2 DEF OutOf
    <3>2. QED BY <2>1, <3>1 DEF OrderInFlight
  <2>3. CASE j = k
    <3>1. req \in OutOf(j, requests)
      BY <2>3 DEF OutOf
    <3>2. /\ trade.orders[j].instr.st = "Running"
          /\ OutOf(j, requests) = {req} /\ OutOf(j, results) = {}
          /\ req = RequestOf(j, trade.orders[j].instr)
      BY <2>1, <3>1 DEF OrderInFlight
    <3>3. req.id = trade.orders[j].instr.id
      BY <3>2 DEF RequestOf
    <3>4. OutOf(j, requests') = {} /\ OutOf(j, results') = {res}
      BY <1>2, <1>3, <2>3, <3>2 DEF OutOf
    <3>5. res = [order |-> j, id |-> trade.orders[j].instr.id, success |-> b]
      BY <2>3, <3>3 DEF res
    <3>6. QED BY <3>2, <3>4, <3>5 DEF OrderInFlight
  <2>4. QED BY <2>2, <2>3
<1>6. InFlight(trade', requests', results')
  BY <1>2, <1>5 DEF InFlight
<1>7. QED BY <1>4, <1>6, IInvInFlight

(* What the exchange records of an order, and says of it, has its type. *)
LEMMA EventTyped ==
    ASSUME NEW k \in Kinds, NEW kind \in EventKind, NEW e \in ExchangeOrder
    PROVE  EventOf(k, kind, e) \in Event
BY DEF EventOf, Event, ExchangeOrder

(* The exchange's record of a request is well-typed. *)
LEMMA OpenedTyped == ASSUME NEW req \in Request PROVE Opened(req) \in ExchangeOrder
BY DEF Opened, Request, ExchangeOrder

(* Performing a request turns it into its result, so it preserves the invariant. *)
LEMMA PerformIInv == IInv /\ Perform => IInv'
<1> SUFFICES ASSUME IInv, Perform PROVE IInv'
  OBVIOUS
<1>1. PICK req \in requests : PerformRequest(req)
  BY DEF Perform
<1> DEFINE k == req.order
<1>2. req \in Request /\ k \in Kinds /\ ex \in [Kinds -> ExchangeOrder] /\ events \in Seq(Event)
  BY DEF IInv, TypeOK, Request
<1>3. /\ Opened(req) \in ExchangeOrder /\ ex[k] \in ExchangeOrder
      /\ EventOf(k, "New", Opened(req)) \in Event
      /\ EventOf(k, "Rejected", Opened(req)) \in Event
      /\ EventOf(k, "Cancelled", ex[k]) \in Event
  BY <1>2, OpenedTyped, EventTyped DEF EventKind
<1>4. ex' \in [Kinds -> ExchangeOrder] /\ events' \in Seq(Event)
  <2>1. CASE ExchangeCreate(req)
    BY <1>2, <1>3, <2>1 DEF ExchangeCreate
  <2>2. CASE ExchangeReject(req)
    BY <1>2, <1>3, <2>2 DEF ExchangeReject
  <2>3. CASE ExchangeCancel(req)
    <3>1. [ex[k] EXCEPT !.status = "gone"] \in ExchangeOrder
      BY <1>3 DEF ExchangeOrder
    <3>2. ex' = [ex EXCEPT ![k] = [ex[k] EXCEPT !.status = "gone"]]
      BY <2>3 DEF ExchangeCancel
    <3>3. QED BY <1>2, <1>3, <2>3, <3>1, <3>2 DEF ExchangeCancel
  <2>4. CASE ExchangeCancelReplace(req)
    BY <1>2, <1>3, <2>4 DEF ExchangeCancelReplace
  <2>5. CASE ExchangeCannotCancel(req)
    BY <1>2, <2>5 DEF ExchangeCannotCancel
  <2>6. QED BY <1>1, <2>1, <2>2, <2>3, <2>4, <2>5 DEF PerformRequest
<1>5. PICK b \in BOOLEAN : Reports(req, b)
  BY <1>1 DEF PerformRequest, ExchangeCreate, ExchangeReject, ExchangeCancel,
              ExchangeCancelReplace, ExchangeCannotCancel
<1>6. InFlightMatchesSlot' /\ requests' \subseteq Request /\ results' \subseteq Result
  BY <1>5, ReportsInFlight
<1>7. UNCHANGED <<trade, price, held, up>>
  BY <1>5 DEF Reports
<1>8. QED BY <1>4, <1>6, <1>7 DEF IInv, TypeOK

(* What the exchange does by itself preserves it. *)
LEMMA ExchangeIInv == ASSUME NEW k \in Kinds PROVE IInv /\ ExchangeActs(k) => IInv'
<1> SUFFICES ASSUME IInv, ExchangeActs(k) PROVE IInv'
  OBVIOUS
<1>1. ex \in [Kinds -> ExchangeOrder] /\ events \in Seq(Event) /\ ex[k] \in ExchangeOrder
      /\ held \in Int
  BY DEF IInv, TypeOK
<1>2. ASSUME NEW e \in ExchangeOrder, NEW kind \in EventKind, NEW f \in ExchangeOrder,
             ex' = [ex EXCEPT ![k] = e], events' = Append(events, EventOf(k, kind, f)),
             held' \in Int, UNCHANGED <<trade, price, requests, results, up>>
      PROVE  IInv'
  <2>1. ex' \in [Kinds -> ExchangeOrder] /\ events' \in Seq(Event)
    BY <1>1, <1>2, EventTyped
  <2>2. QED BY <1>2, <2>1, IInvInFlight DEF IInv, TypeOK
<1>3. ASSUME NEW filled \in 1..Qty, ExchangeFill(k, filled)
      PROVE  IInv'
  <2> DEFINE s == IF filled = ex[k].qty THEN "gone" ELSE "open"
             e == [ex[k] EXCEPT !.filled = filled, !.status = s]
  <2>1. filled \in Nat /\ ex[k].filled \in Nat /\ s \in {"none", "open", "gone"}
    BY <1>1, EnvAssumption DEF ExchangeOrder
  <2>2. e \in ExchangeOrder
    BY <1>1, <2>1 DEF ExchangeOrder
  <2>3. ex' = [ex EXCEPT ![k] = e]
    BY <1>1, <1>3 DEF ExchangeFill
  <2>4. ex'[k] = e
    BY <1>1, <2>3
  <2>5. held' \in Int
    BY <1>1, <1>3, <2>1 DEF ExchangeFill
  <2> HIDE DEF e
  <2>6. events' = Append(events, EventOf(k, "Fill", e))
    BY <1>3, <2>4 DEF ExchangeFill
  <2>7. "Fill" \in EventKind
    BY DEF EventKind
  <2>8. UNCHANGED <<trade, price, requests, results, up>>
    BY <1>3 DEF ExchangeFill
  <2>9. QED BY <1>2, <2>2, <2>3, <2>5, <2>6, <2>7, <2>8
<1>4. ASSUME NEW fault, NEW kind \in EventKind, ExchangeEnds(k, fault, kind)
      PROVE  IInv'
  <2> DEFINE e == [ex[k] EXCEPT !.status = "gone"]
  <2>1. e \in ExchangeOrder
    BY <1>1 DEF ExchangeOrder
  <2>2. ex' = [ex EXCEPT ![k] = e]
    BY <1>1, <1>4 DEF ExchangeEnds
  <2>3. QED BY <1>1, <1>2, <1>4, <2>1, <2>2 DEF ExchangeEnds
<1>5. "Cancelled" \in EventKind /\ "Expired" \in EventKind
  BY DEF EventKind
<1>6. QED BY <1>3, <1>4, <1>5 DEF ExchangeActs, ExternalCancel, ExternalExpire

(* Applying an event preserves it. *)
LEMMA EventIInv == ASSUME NEW router PROVE IInv /\ HandleEvent(router) => IInv'
<1> SUFFICES ASSUME IInv, HandleEvent(router) PROVE IInv'
  OBVIOUS
<1> DEFINE r == ConfirmEvent(router, Head(events))
<1>1. Head(events) \in Event /\ Tail(events) \in Seq(Event)
  BY DEF HandleEvent, IInv, TypeOK
<1>2. TradeSound(trade, r)
  BY <1>1, EventSound, EnvAssumption DEF IInv, TypeOK
<1>3. InFlight(r.t, requests, results)
  BY <1>2, EvolvesInFlight, IInvInFlight DEF IInv, TradeSound
<1>4. /\ r.t \in TradeRec /\ r.ok \in BOOLEAN
      /\ InFlight(r.t, requests, results')
      /\ results' \subseteq Result /\ events' \in Seq(Event)
      /\ UNCHANGED <<price, ex, held>>
  BY <1>1, <1>2, <1>3 DEF HandleEvent, TradeSound, TradeEvolves, IInv, TypeOK
<1>5. Settle(r) \/ SettleTwice(r)
  BY DEF HandleEvent
<1>6. QED BY <1>4, <1>5, SettleIInv

(* A result ends the Running instruction of its order, and of no other. *)
LEMMA ResultSound ==
    ASSUME IInv, NEW res \in results
    PROVE  LET r == ConfirmResult(res)
           IN  /\ r.t \in TradeRec /\ r.ok \in BOOLEAN
               /\ InFlight(r.t, requests, results \ {res})
               /\ Finishes(trade, r.t)
<1> DEFINE r == ConfirmResult(res)
           k == res.order
<1>1. /\ res \in Result /\ k \in Kinds /\ res.success \in BOOLEAN
      /\ trade \in TradeRec /\ price \in Int
  BY EnvAssumption DEF IInv, TypeOK, Result
<1>2. CASE ~trade.tracked
  BY <1>1, <1>2 DEF ConfirmResult, TErr, InFlight, Finishes, OpensNothing
<1>3. CASE trade.tracked
  <2>1. OrderInFlight(trade.orders[k], k, requests, results)
    BY <1>1, <1>3, IInvInFlight DEF IInv, InFlight
  <2>2. res \in OutOf(k, results)
    BY DEF OutOf
  <2>3. /\ trade.orders[k].instr.st = "Running"
        /\ OutOf(k, requests) = {} /\ OutOf(k, results) = {res}
        /\ res.id = trade.orders[k].instr.id
    BY <2>1, <2>2 DEF OrderInFlight
  <2>4. Ends(trade, k, r.t) /\ r.ok \in BOOLEAN
    BY <1>1, <1>3, <2>3, ExecutionEndsTrade DEF ConfirmResult
  <2>5. ASSUME NEW j \in Kinds
        PROVE  OrderInFlight(r.t.orders[j], j, requests, results \ {res})
    <3>1. CASE j = k
      BY <2>3, <2>4, <3>1 DEF OrderInFlight, OutOf, Ends
    <3>2. CASE j # k
      <4>1. Keeps(trade.orders[j], r.t.orders[j])
        BY <2>4, <3>2 DEF Ends
      <4>2. OrderInFlight(trade.orders[j], j, requests, results)
        BY <1>3, IInvInFlight DEF IInv, InFlight
      <4>3. OutOf(j, results \ {res}) = OutOf(j, results)
        BY <3>2 DEF OutOf
      <4>4. OrderInFlight(trade.orders[j], j, requests, results \ {res})
        BY <4>2, <4>3 DEF OrderInFlight
      <4>5. QED BY <4>1, <4>4, KeepsInFlight
    <3>3. QED BY <3>1, <3>2
  <2>6. QED BY <2>4, <2>5 DEF InFlight, Ends, Finishes
<1>4. QED BY <1>2, <1>3

(* Applying a result ends the run it answers, so it preserves the invariant. *)
LEMMA ResultIInv == IInv /\ HandleResult => IInv'
<1> SUFFICES ASSUME IInv, HandleResult PROVE IInv'
  OBVIOUS
<1>1. PICK res \in results : results' = results \ {res} /\ Settle(ConfirmResult(res))
  BY DEF HandleResult
<1>2. /\ results' \subseteq Result /\ events' \in Seq(Event)
      /\ UNCHANGED <<price, ex, held>>
  BY <1>1 DEF HandleResult, IInv, TypeOK
<1>3. QED BY <1>1, <1>2, ResultSound, SettleIInv

(* Every step preserves the invariant. *)
LEMMA NextIInv == IInv /\ [Next]_vars => IInv'
<1> SUFFICES ASSUME IInv, [Next]_vars PROVE IInv'
  OBVIOUS
<1>1. CASE TraderCompute
  BY <1>1, TraderIInv
<1>2. ASSUME NEW p \in 1..MaxPrice, PriceMoves(p) PROVE IInv'
  BY <1>2, IInvInFlight DEF PriceMoves, IInv, TypeOK
<1>3. ASSUME NEW k \in Kinds, Activate(k) PROVE IInv'
  BY <1>3, ActivateIInv
<1>4. CASE StrategyCall
  BY <1>4, CallIInv
<1>5. CASE Perform
  BY <1>5, PerformIInv
<1>6. ASSUME NEW k \in Kinds, ExchangeActs(k) PROVE IInv'
  BY <1>6, ExchangeIInv
<1>7. ASSUME NEW router \in Routers, HandleEvent(router) PROVE IInv'
  BY <1>7, EventIInv
<1>8. CASE HandleResult
  BY <1>8, ResultIInv
<1>9. CASE UNCHANGED vars
  BY <1>9, IInvInFlight DEF vars, IInv, TypeOK
<1>10. QED BY <1>1, <1>2, <1>3, <1>4, <1>5, <1>6, <1>7, <1>8, <1>9 DEF Next

(* Every state of the system has its type, whatever the exchange, the market,
   the strategy and the two event routers do.  In particular no sequence
   number passes the largest a SmartId can hold.                             *)
THEOREM TypeCorrect == Spec => []TypeOK
<1>1. IInv => TypeOK
  BY DEF IInv
<1>2. QED BY InitIInv, NextIInv, <1>1, PTL DEF Spec

(* While a trade is tracked, a Running instruction of each of its orders is
   exactly what is under way for it at the exchange client: none is sent
   twice, none is overwritten or dropped while it runs, and every result
   meets the instruction it belongs to.                                      *)
THEOREM SlotMatchesInFlight == Spec => []InFlightMatchesSlot
<1>1. IInv => InFlightMatchesSlot
  BY DEF IInv
<1>2. QED BY InitIInv, NextIInv, <1>1, PTL DEF Spec
----------------------------------------------------------------------------
(* A finished order stays finished, and a terminated one opens nothing *)

(* Nothing is revived where nothing changes. *)
LEMMA FinishesRefl == Finishes(trade, trade)
BY DEF Finishes, OpensNothing

(* No step revives a finished order, or has a terminated one ask for a new order. *)
LEMMA FinishesNext ==
    ASSUME IInv, [Next]_vars
    PROVE  Finishes(trade, trade')
<1>1. /\ trade \in TradeRec /\ price \in Int /\ requests \subseteq Request
      /\ up \in BOOLEAN /\ InFlight(trade, requests, results)
  BY EnvAssumption, IInvInFlight DEF IInv, TypeOK
<1>2. ASSUME NEW t, TradeEvolves(trade, t) PROVE Finishes(trade, t)
  BY <1>2 DEF TradeEvolves, Evolves, Keeps, Finishes
<1>3. CASE TraderCompute
  <2>1. TOk(trade).t = trade /\ TOk(trade).ok = TRUE
    BY DEF TOk
  <2>2. Settle(TOk(trade))
    BY <1>3 DEF TraderCompute
  <2>3. QED BY <1>1, <2>1, <2>2, SettleInFlight
<1>4. ASSUME NEW k \in Kinds, Activate(k) PROVE Finishes(trade, trade')
  <2>1. \A j \in Kinds : /\ trade'.orders[j].state = trade.orders[j].state
                         /\ trade'.orders[j].term = trade.orders[j].term
                         /\ trade'.orders[j].instr = trade.orders[j].instr
    BY <1>1, <1>4, TradeOrders DEF Activate, TradeRec, OrderRec
  <2>2. QED BY <2>1 DEF Finishes, OpensNothing
<1>5. CASE StrategyCall
  <2>1. ASSUME NEW name, NEW r, Call(name, r), TradeSound(trade, r)
        PROVE  Finishes(trade, trade')
    BY <1>2, <2>1 DEF Call, TradeSound
  <2>2. QED BY <1>1, <1>5, <2>1, CallsSound
    DEF StrategyCall, CallTerminate, CallCancelAndIdle, CallResume
<1>6. CASE Perform
  BY <1>6, FinishesRefl DEF Perform, PerformRequest, ExchangeCreate, ExchangeReject,
     ExchangeCancel, ExchangeCancelReplace, ExchangeCannotCancel, Reports
<1>7. ASSUME NEW k \in Kinds, ExchangeActs(k) PROVE Finishes(trade, trade')
  BY <1>7, FinishesRefl DEF ExchangeActs, ExchangeFill, ExternalCancel, ExternalExpire,
     ExchangeEnds
<1>8. ASSUME NEW router \in Routers, HandleEvent(router) PROVE Finishes(trade, trade')
  <2> DEFINE r == ConfirmEvent(router, Head(events))
  <2>1. Head(events) \in Event
    BY <1>8 DEF HandleEvent, IInv, TypeOK
  <2>2. TradeSound(trade, r)
    BY <1>1, <2>1, EventSound
  <2>3. /\ r.t \in TradeRec /\ r.ok \in BOOLEAN
        /\ InFlight(r.t, requests, results)
        /\ Finishes(trade, r.t)
    BY <1>1, <1>2, <2>2, EvolvesInFlight DEF TradeSound, TradeEvolves
  <2>4. Settle(r) \/ SettleTwice(r)
    BY <1>8 DEF HandleEvent
  <2>5. Finishes(r.t, trade')
    BY <1>1, <2>3, <2>4, SettleInFlight
  <2>6. QED BY <2>3, <2>5, FinishesTrans
<1>9. CASE HandleResult
  <2>1. PICK res \in results : Settle(ConfirmResult(res))
    BY <1>9 DEF HandleResult
  <2>2. Finishes(ConfirmResult(res).t, trade')
    BY <1>1, <2>1, ResultSound, SettleInFlight
  <2>3. QED BY <2>2, ResultSound, FinishesTrans
<1>10. CASE UNCHANGED vars \/ \E p \in 1..MaxPrice : PriceMoves(p)
  BY <1>10, FinishesRefl DEF vars, PriceMoves
<1>11. QED BY <1>3, <1>4, <1>5, <1>6, <1>7, <1>8, <1>9, <1>10 DEF Next

(* No event, result, call, market move or pass of the trader revives a
   finished order, whichever handler it goes through.                        *)
THEOREM FinishedStaysFinished == Spec => FinishedIsFinal
<1>1. IInv /\ [Next]_vars => [\A k \in Kinds : trade.orders[k].state = "Finished"
                                        => trade'.orders[k].state = "Finished"]_vars
  BY FinishesNext DEF Finishes
<1>2. QED BY InitIInv, NextIInv, <1>1, PTL DEF Spec, FinishedIsFinal

(* An order that a strategy, a failed instruction or the end of its retries has
   terminated asks for no new order, through whichever handler, call or pass
   it goes; a request it had made before may still be sent.                  *)
THEOREM TerminatedStaysQuiet == Spec => TerminatedOpensNothing
<1>1. IInv /\ [Next]_vars =>
        [\A k \in Kinds : trade.orders[k].term /\ trade'.orders[k].instr.kind = "CreateOrder"
                             => trade.orders[k].instr.kind = "CreateOrder"]_vars
  BY FinishesNext DEF Finishes, OpensNothing
<1>2. QED BY InitIInv, NextIInv, <1>1, PTL DEF Spec, TerminatedOpensNothing
=============================================================================
