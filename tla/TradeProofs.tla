---------------------------- MODULE TradeProofs ----------------------------
(***************************************************************************)
(* Lemmas about the operators of Trade: every method of a trade changes    *)
(* its orders only through methods of Order, so each of the three orders   *)
(* keeps what Order's methods keep (Evolves), and the trade its type.      *)
(* The second half is about what a trade knows of its orders at the        *)
(* exchange (TradeBook).                                                   *)
(***************************************************************************)
EXTENDS Trade, OrderProofs

(* A trade went from t to u through methods of its orders. *)
TradeEvolves(t, u) ==
    /\ u \in TradeRec
    /\ u.tracked = t.tracked
    /\ \A k \in Kinds : Evolves(t.orders[k], u.orders[k])

(* What a method of a trade returns. *)
TradeSound(t, r) == TradeEvolves(t, r.t) /\ r.ok \in BOOLEAN

(* The three orders of a trade. *)
LEMMA KindsOf == "entry" \in Kinds /\ "exit" \in Kinds /\ "stop" \in Kinds
BY DEF Kinds

(* Each of them is an order. *)
LEMMA TradeOrders ==
    ASSUME NEW t \in TradeRec, NEW k \in Kinds
    PROVE  t.orders[k] \in OrderRec
BY DEF TradeRec

(* A trade evolves into itself. *)
LEMMA TradeRefl == ASSUME NEW t \in TradeRec PROVE TradeEvolves(t, t)
BY TradeOrders, EvolvesRefl DEF TradeEvolves

(* Two evolutions of a trade in a row are one. *)
LEMMA TradeTrans ==
    ASSUME NEW t, NEW u, NEW v, TradeEvolves(t, u), TradeEvolves(u, v)
    PROVE  TradeEvolves(t, v)
BY EvolvesTrans DEF TradeEvolves

(* A sound method after an evolution is sound from the start. *)
LEMMA TradeAfter ==
    ASSUME NEW t, NEW u, NEW r, TradeEvolves(t, u), TradeSound(u, r)
    PROVE  TradeSound(t, r)
BY TradeTrans DEF TradeSound

(* A method that leaves the trade evolved may succeed or fail. *)
LEMMA TradeOk ==
    ASSUME NEW t, NEW u, TradeEvolves(t, u)
    PROVE  TradeSound(t, TOk(u)) /\ TradeSound(t, TErr(u))
BY DEF TradeSound, TOk, TErr

(* The fields of the trade itself do not touch the orders. *)
LEMMA TradeFields ==
    ASSUME NEW t \in TradeRec, NEW s \in TradeState, NEW st \in TradeStatus,
           NEW p \in Kinds \cup {"none"}, NEW c \in {"None", "Normal", "Cancelled"}
    PROVE  /\ TradeEvolves(t, [t EXCEPT !.state = s])
           /\ TradeEvolves(t, [t EXCEPT !.status = st])
           /\ TradeEvolves(t, [t EXCEPT !.pending = p])
           /\ TradeEvolves(t, [t EXCEPT !.reason = c])
           /\ TradeEvolves(t, [t EXCEPT !.status = st, !.state = s])
           /\ TradeEvolves(t, [t EXCEPT !.state = s, !.pending = p])
           /\ TradeEvolves(t, [t EXCEPT !.reason = c, !.state = s, !.status = st])
<1>1. \A k \in Kinds : Evolves(t.orders[k], t.orders[k])
  BY TradeOrders, EvolvesRefl
<1>2. ASSUME NEW u, u \in TradeRec, u.tracked = t.tracked, u.orders = t.orders
      PROVE  TradeEvolves(t, u)
  BY <1>1, <1>2 DEF TradeEvolves
<1> DEFINE a == [t EXCEPT !.state = s]
           b == [t EXCEPT !.status = st]
           d == [t EXCEPT !.pending = p]
           e == [t EXCEPT !.reason = c]
           f == [t EXCEPT !.status = st, !.state = s]
           g == [t EXCEPT !.state = s, !.pending = p]
           h == [t EXCEPT !.reason = c, !.state = s, !.status = st]
<1>3. a \in TradeRec /\ a.tracked = t.tracked /\ a.orders = t.orders
  BY DEF TradeRec
<1>4. b \in TradeRec /\ b.tracked = t.tracked /\ b.orders = t.orders
  BY DEF TradeRec
<1>5. d \in TradeRec /\ d.tracked = t.tracked /\ d.orders = t.orders
  BY DEF TradeRec
<1>6. e \in TradeRec /\ e.tracked = t.tracked /\ e.orders = t.orders
  BY DEF TradeRec
<1>7. f \in TradeRec /\ f.tracked = t.tracked /\ f.orders = t.orders
  BY DEF TradeRec
<1>8. g \in TradeRec /\ g.tracked = t.tracked /\ g.orders = t.orders
  BY DEF TradeRec
<1>9. h \in TradeRec /\ h.tracked = t.tracked /\ h.orders = t.orders
  BY DEF TradeRec
<1> HIDE DEF a, b, d, e, f, g, h
<1>10. /\ TradeEvolves(t, a) /\ TradeEvolves(t, b) /\ TradeEvolves(t, d)
       /\ TradeEvolves(t, e) /\ TradeEvolves(t, f) /\ TradeEvolves(t, g)
       /\ TradeEvolves(t, h)
  BY <1>2, <1>3, <1>4, <1>5, <1>6, <1>7, <1>8, <1>9
<1>11. QED BY <1>10 DEF a, b, d, e, f, g, h

(* Evolving one order evolves the trade. *)
LEMMA WithEvolves ==
    ASSUME NEW t \in TradeRec, NEW k \in Kinds, NEW p, Evolves(t.orders[k], p)
    PROVE  TradeEvolves(t, With(t, k, p)) /\ With(t, k, p).orders[k] = p
<1> DEFINE u == With(t, k, p)
<1>1. p \in OrderRec
  BY DEF Evolves, Keeps
<1>2. u \in TradeRec /\ u.tracked = t.tracked
  BY <1>1 DEF With, TradeRec
<1>3. \A j \in Kinds : u.orders[j] = IF j = k THEN p ELSE t.orders[j]
  BY DEF With, TradeRec
<1>4. \A j \in Kinds : Evolves(t.orders[j], u.orders[j])
  BY <1>3, TradeOrders, EvolvesRefl
<1>5. QED BY <1>2, <1>3, <1>4 DEF TradeEvolves

(* A sound method of one order is a sound method of the trade. *)
LEMMA OnOrderSound ==
    ASSUME NEW t \in TradeRec, NEW k \in Kinds, NEW r, Sound(t.orders[k], r)
    PROVE  TradeSound(t, OnOrder(t, k, r))
BY WithEvolves DEF Sound, TradeSound, OnOrder

(* Trade::set_state does not touch the orders. *)
LEMMA SetTradeStateSound ==
    ASSUME NEW t \in TradeRec, NEW to \in TradeState
    PROVE  TradeSound(t, SetTradeState(t, to))
<1>1. TradeEvolves(t, [t EXCEPT !.state = to])
  BY TradeFields DEF TradeStatus
<1>2. QED BY <1>1, TradeRefl, TradeOk DEF SetTradeState
----------------------------------------------------------------------------
(* compute_lifecycle *)

(* Ending the entry or the exit does not touch the orders. *)
LEMMA DoneEvolves ==
    ASSUME NEW t \in TradeRec
    PROVE  TradeEvolves(t, EntryDone(t)) /\ TradeEvolves(t, ExitDone(t))
<1>1. /\ "Idle" \in TradeStatus /\ "Exiting" \in TradeState /\ "Closed" \in TradeState
      /\ "Normal" \in {"None", "Normal", "Cancelled"} /\ "none" \in Kinds \cup {"none"}
  BY DEF TradeStatus, TradeState
<1>2. /\ TradeEvolves(t, [t EXCEPT !.status = "Idle", !.state = "Exiting"])
      /\ TradeEvolves(t, [t EXCEPT !.reason = "Normal", !.state = "Closed", !.status = "Idle"])
  BY <1>1, TradeFields
<1>3. QED BY <1>2, TradeRefl DEF EntryDone, ExitDone

(* Closing a trade whose entry was cancelled evolves its orders. *)
LEMMA EntryCancelledSound ==
    ASSUME NEW t \in TradeRec, NEW price \in Int
    PROVE  TradeSound(t, EntryCancelled(t, price))
<1> DEFINE r == Terminate(t.orders["entry"], price)
           c == OnOrder(t, "entry", r)
           u == [c.t EXCEPT !.reason = "Cancelled"]
<1>1. TradeSound(t, c) /\ c.t \in TradeRec
  BY TradeOrders, KindsOf, SoundCalls, OnOrderSound DEF TradeSound, TradeEvolves
<1>2. TradeEvolves(c.t, u) /\ u \in TradeRec
  <2>1. /\ "Idle" \in TradeStatus /\ "Closed" \in TradeState
        /\ "Cancelled" \in {"None", "Normal", "Cancelled"} /\ "none" \in Kinds \cup {"none"}
    BY DEF TradeStatus, TradeState
  <2>2. QED BY <1>1, <2>1, TradeFields, ZenonT(40) DEF TradeEvolves
<1>3. TradeSound(u, SetTradeState(u, "Closed"))
  BY <1>2, SetTradeStateSound DEF TradeState
<1>4. TradeSound(t, SetTradeState(u, "Closed"))
  BY <1>1, <1>2, <1>3, TradeAfter, TradeTrans DEF TradeSound
<1>5. QED BY <1>1, <1>4 DEF EntryCancelled

(* compute_lifecycle evolves the orders. *)
LEMMA LifecycleSound ==
    ASSUME NEW t \in TradeRec, NEW price \in Int
    PROVE  TradeSound(t, Lifecycle(t, price))
<1> DEFINE f == IF IsFailed(t.orders["entry"]) THEN SetTradeState(t, "EntryFailed") ELSE TOk(t)
           d == EntryDone(f.t)
<1>1. TradeSound(t, f) /\ f.t \in TradeRec
  <2>1. TradeSound(t, SetTradeState(t, "EntryFailed"))
    BY SetTradeStateSound DEF TradeState
  <2>2. TradeSound(t, TOk(t))
    BY TradeRefl, TradeOk
  <2>3. TradeSound(t, f)
    BY <2>1, <2>2
  <2>4. QED BY <2>3 DEF TradeSound, TradeEvolves
<1>2. TradeSound(t, EntryCancelled(f.t, price))
  BY <1>1, EntryCancelledSound, TradeAfter DEF TradeSound
<1>3. TradeEvolves(f.t, d) /\ d \in TradeRec
  BY <1>1, DoneEvolves DEF TradeEvolves
<1>4. TradeEvolves(f.t, ExitDone(d))
  BY <1>3, DoneEvolves, TradeTrans
<1>5. TradeSound(t, TOk(ExitDone(d)))
  BY <1>1, <1>4, TradeTrans, TradeOk DEF TradeSound
<1>6. QED BY <1>1, <1>2, <1>5 DEF Lifecycle
----------------------------------------------------------------------------
(* compute *)

(* What HandOver does to a trade whose entry order was computed. *)
LEMMA HandOverSound ==
    ASSUME NEW t \in TradeRec, NEW c, TradeSound(t, c)
    PROVE  TradeSound(t, HandOver(c))
<1> DEFINE p == IF HasInstr(c.t.orders["entry"]) THEN "entry" ELSE "none"
           f == [c.t EXCEPT !.state = "Entering", !.pending = p]
<1>1. TradeEvolves(t, c.t) /\ c.t \in TradeRec
  BY DEF TradeSound, TradeEvolves
<1>2. TradeEvolves(c.t, f)
  <2>1. p \in Kinds \cup {"none"} /\ "Entering" \in TradeState /\ "Idle" \in TradeStatus
    BY KindsOf DEF TradeState, TradeStatus
  <2> HIDE DEF p
  <2>2. QED BY <1>1, <2>1, TradeFields
<1>3. TradeSound(t, TOk(f))
  BY <1>1, <1>2, TradeTrans, TradeOk
<1>4. QED BY <1>3 DEF HandOver

(* compute of an entry order keeps every order of the trade. *)
LEMMA ComputeEntrySound ==
    ASSUME NEW t \in TradeRec, NEW price \in Int
    PROVE  TradeSound(t, ComputeEntry(t, price))
<1>1. Sound(t.orders["entry"], Compute(t.orders["entry"], price))
  BY TradeOrders, KindsOf, SoundCalls
<1>2. TradeSound(t, OnOrder(t, "entry", Compute(t.orders["entry"], price)))
  BY <1>1, KindsOf, OnOrderSound
<1>3. QED BY <1>2, HandOverSound DEF ComputeEntry

(* A trade may name any of its orders as pending. *)
LEMMA PendingEvolves ==
    ASSUME NEW t \in TradeRec, NEW p \in Kinds \cup {"none"}
    PROVE  TradeEvolves(t, [t EXCEPT !.pending = p]) /\ TradeSound(t, TOk([t EXCEPT !.pending = p]))
<1>1. "Idle" \in TradeStatus /\ "New" \in TradeState
  BY DEF TradeState, TradeStatus
<1>2. TradeEvolves(t, [t EXCEPT !.pending = p])
  BY <1>1, TradeFields
<1>3. QED BY <1>2, TradeOk

(* maintenance does not touch the orders. *)
LEMMA MaintainedEvolves ==
    ASSUME NEW t \in TradeRec
    PROVE  TradeEvolves(t, Maintained(t)) /\ Maintained(t) \in TradeRec
<1>1. TradeEvolves(t, [t EXCEPT !.pending = "none"])
  BY PendingEvolves
<1>2. QED BY <1>1, TradeRefl DEF Maintained, TradeEvolves

(* Withdrawing the stoploss for the exit evolves the orders. *)
LEMMA YieldToExitSound ==
    ASSUME NEW t \in TradeRec, NEW price \in Int
    PROVE  TradeSound(t, YieldToExit(t, price))
<1> DEFINE stop == t.orders["stop"]
           w == CancelPendingInstruction(stop, price)
           i == CancelAndIdle(w.o, price)
           u == With(t, "stop", w.o)
<1>1. stop \in OrderRec /\ Sound(stop, w)
  BY TradeOrders, KindsOf, SoundCalls
<1>2. w.o \in OrderRec
  BY <1>1 DEF Sound, Evolves, Keeps
<1>3. Sound(stop, i)
  BY <1>1, <1>2, SoundCalls, EvolvesTrans DEF Sound
<1>4. TradeSound(t, OnOrder(t, "stop", w)) /\ TradeSound(t, OnOrder(t, "stop", i))
  BY <1>1, <1>3, KindsOf, OnOrderSound
<1>5. TradeEvolves(t, u) /\ u \in TradeRec
  BY <1>1, KindsOf, WithEvolves DEF Sound, TradeEvolves
<1>6. TradeSound(t, TOk([u EXCEPT !.pending = "exit"]))
  BY <1>5, KindsOf, PendingEvolves, TradeAfter
<1>7. TradeSound(t, TOk(t))
  BY TradeRefl, TradeOk
<1>8. QED BY <1>4, <1>6, <1>7 DEF YieldToExit

(* So does choosing which of the two may speak. *)
LEMMA ArbitrateSound ==
    ASSUME NEW t \in TradeRec, NEW price \in Int
    PROVE  TradeSound(t, Arbitrate(t, price))
<1>1. TradeSound(t, TOk([t EXCEPT !.pending = "stop"]))
  BY PendingEvolves, KindsOf
<1>2. TradeSound(t, TOk(t))
  BY TradeRefl, TradeOk
<1>3. QED BY <1>1, <1>2, YieldToExitSound DEF Arbitrate

(* compute of the exit and stoploss orders keeps every order of the trade. *)
LEMMA ComputeExitSound ==
    ASSUME NEW t \in TradeRec, NEW price \in Int
    PROVE  TradeSound(t, ComputeExit(t, price))
<1> DEFINE x == OnOrder(t, "exit", Compute(t.orders["exit"], price))
           s == OnOrder(x.t, "stop", Compute(x.t.orders["stop"], price))
           c == ThenStop(x, price)
<1>1. TradeSound(t, x) /\ x.t \in TradeRec
  BY TradeOrders, KindsOf, SoundCalls, OnOrderSound DEF TradeSound, TradeEvolves
<1>2. TradeSound(x.t, s)
  BY <1>1, TradeOrders, KindsOf, SoundCalls, OnOrderSound
<1>3. TradeSound(t, s)
  BY <1>1, <1>2, TradeAfter DEF TradeSound
<1>4. TradeSound(t, c) /\ c.t \in TradeRec
  BY <1>1, <1>3 DEF ThenStop, TradeSound, TradeEvolves
<1>5. TradeSound(t, Arbitrate(c.t, price))
  BY <1>4, ArbitrateSound, TradeAfter DEF TradeSound
<1>6. QED BY <1>4, <1>5 DEF ComputeExit, ThenArbitrate

(* compute of a trade keeps every order. *)
LEMMA ComputeTradeSound ==
    ASSUME NEW t \in TradeRec, NEW price \in Int
    PROVE  TradeSound(t, ComputeTrade(t, price))
<1> DEFINE l == Lifecycle(t, price)
           m == Maintained(l.t)
<1>1. TradeSound(t, l) /\ TradeEvolves(t, l.t) /\ l.t \in TradeRec
  BY LifecycleSound DEF TradeSound, TradeEvolves
<1>2. TradeSound(t, ComputeEntry(l.t, price))
  BY <1>1, ComputeEntrySound, TradeAfter
<1>3. TradeEvolves(t, m) /\ m \in TradeRec
  BY <1>1, MaintainedEvolves, TradeTrans
<1>4. TradeSound(t, ComputeExit(m, price))
  BY <1>3, ComputeExitSound, TradeAfter
<1>5. QED BY <1>1, <1>2, <1>4 DEF ComputeTrade, AfterLifecycle

(* compute of a trade that has evolved. *)
LEMMA ComputeTradeAfter ==
    ASSUME NEW t, NEW u, TradeEvolves(t, u), NEW price \in Int
    PROVE  TradeSound(t, ComputeTrade(u, price))
BY ComputeTradeSound, TradeAfter DEF TradeEvolves
----------------------------------------------------------------------------
(* Calls and confirmations *)

(* The strategy's calls evolve the orders. *)
LEMMA CallsSound ==
    ASSUME NEW t \in TradeRec, NEW price \in Int
    PROVE  /\ TradeSound(t, CancelActiveOrderAndIdle(t, price))
           /\ TradeSound(t, CancelActiveOrderAndTerminate(t, price))
           /\ \A k \in Kinds : TradeSound(t, OnOrder(t, k, Resume(t.orders[k], price)))
<1>1. ASSUME NEW k \in Kinds
      PROVE  /\ TradeSound(t, OnOrder(t, k, CancelAndIdle(t.orders[k], price)))
             /\ TradeSound(t, OnOrder(t, k, Terminate(t.orders[k], price)))
             /\ TradeSound(t, OnOrder(t, k, Resume(t.orders[k], price)))
  BY TradeOrders, SoundCalls, OnOrderSound
<1>2. ActiveOrder(t) # "none" => ActiveOrder(t) \in Kinds
  BY KindsOf DEF ActiveOrder
<1>3. TradeSound(t, TOk(t))
  BY TradeRefl, TradeOk
<1>4. QED BY <1>1, <1>2, <1>3 DEF CancelActiveOrderAndIdle, CancelActiveOrderAndTerminate

(* Setting the status and computing evolve the orders. *)
LEMMA StatusThenComputeSound ==
    ASSUME NEW t \in TradeRec, NEW c, TradeSound(t, c), NEW s \in TradeStatus, NEW price \in Int
    PROVE  TradeSound(t, StatusThenCompute(c, s, price))
<1>1. c.t \in TradeRec /\ TradeEvolves(t, c.t)
  BY DEF TradeSound, TradeEvolves
<1>2. TradeEvolves(c.t, [c.t EXCEPT !.status = s])
  BY <1>1, TradeFields DEF TradeState
<1>3. TradeSound(t, ComputeTrade([c.t EXCEPT !.status = s], price))
  BY <1>1, <1>2, TradeTrans, ComputeTradeAfter
<1>4. QED BY <1>3 DEF StatusThenCompute

(* Every order has a status of the trade that names it. *)
LEMMA StatusOfKind == ASSUME NEW k \in Kinds PROVE StatusOf(k) \in TradeStatus
BY DEF Kinds, StatusOf, TradeStatus

(* The confirmations without quantities evolve the orders. *)
LEMMA ConfirmsSound ==
    ASSUME NEW t \in TradeRec, NEW k \in Kinds, NEW price \in Int
    PROVE  /\ TradeSound(t, TradeConfirmOpened(t, k, price))
           /\ TradeSound(t, TradeConfirmCancelled(t, k, price))
           /\ TradeSound(t, TradeConfirmRejected(t, k, price))
           /\ TradeSound(t, TradeConfirmExpired(t, k, price))
<1> DEFINE o == t.orders[k]
<1>1. /\ TradeSound(t, OnOrder(t, k, ConfirmOpened(o, price)))
      /\ TradeSound(t, OnOrder(t, k, ConfirmCancelled(o, price)))
      /\ TradeSound(t, OnOrder(t, k, ConfirmRejected(o, price)))
      /\ TradeSound(t, OnOrder(t, k, ConfirmExpired(o, price)))
  BY TradeOrders, SoundConfirms, OnOrderSound
<1>2. "Idle" \in TradeStatus /\ StatusOf(k) \in TradeStatus /\ t.status \in TradeStatus
  BY StatusOfKind DEF TradeStatus, TradeRec
<1>3. QED BY <1>1, <1>2, StatusThenComputeSound DEF TradeConfirmOpened, TradeConfirmCancelled,
             TradeConfirmRejected, TradeConfirmExpired

(* The confirmation of a replacement evolves the orders. *)
LEMMA ConfirmReplacedSound ==
    ASSUME NEW t \in TradeRec, NEW k \in Kinds, NEW e, e.seq \in 0..MaxSeq, e.stop \in Int,
           e.qty \in Int, e.filled \in Nat, NEW price \in Int
    PROVE  TradeSound(t, TradeConfirmReplaced(t, k, e, price))
<1>1. Sound(t.orders[k], ConfirmReplaced(t.orders[k], e, price))
  BY TradeOrders, SoundReplaced
<1>2. TradeSound(t, OnOrder(t, k, ConfirmReplaced(t.orders[k], e, price)))
  BY <1>1, OnOrderSound
<1>3. QED BY <1>2, StatusOfKind, StatusThenComputeSound DEF TradeConfirmReplaced

(* A fill of the entry sets what the exit and the stoploss are to sell. *)
LEMMA QuantityEvolves ==
    ASSUME NEW t \in TradeRec, NEW n \in Int
    PROVE  TradeEvolves(t, [t EXCEPT !.orders["exit"].qty = n, !.orders["stop"].qty = n])
<1> DEFINE u == [t EXCEPT !.orders["exit"].qty = n, !.orders["stop"].qty = n]
<1>1. ASSUME NEW o \in OrderRec
      PROVE  Evolves(o, [o EXCEPT !.qty = n]) /\ [o EXCEPT !.qty = n] \in OrderRec
  BY DEF Evolves, Keeps, OpensNothing, OrderRec
<1>2. /\ t.orders["exit"] \in OrderRec
      /\ t.orders["stop"] \in OrderRec
      /\ t.orders["entry"] \in OrderRec
  BY TradeOrders, KindsOf
<1>3. /\ u.orders["exit"] = [t.orders["exit"] EXCEPT !.qty = n]
      /\ u.orders["stop"] = [t.orders["stop"] EXCEPT !.qty = n]
      /\ u.orders["entry"] = t.orders["entry"]
      /\ u.orders = [j \in Kinds |-> u.orders[j]]
      /\ u = [t EXCEPT !.orders = u.orders]
  BY KindsOf DEF TradeRec
<1>4. \A j \in Kinds : u.orders[j] \in OrderRec /\ Evolves(t.orders[j], u.orders[j])
  BY <1>1, <1>2, <1>3, EvolvesRefl DEF Kinds
<1>5. u \in TradeRec /\ u.tracked = t.tracked
  BY <1>3, <1>4 DEF TradeRec
<1>6. QED BY <1>4, <1>5 DEF TradeEvolves

(* The confirmation of a fill evolves the orders, the quantities it hands on included. *)
LEMMA ConfirmFilledSound ==
    ASSUME NEW t \in TradeRec, NEW k \in Kinds, NEW filled \in Nat, NEW full \in BOOLEAN,
           NEW price \in Int
    PROVE  TradeSound(t, TradeConfirmFilled(t, k, filled, full, price))
<1> DEFINE c == OnOrder(t, k, ConfirmFilled(t.orders[k], filled, full, price))
           n == c.t.orders["entry"].filled
           u == [c.t EXCEPT !.orders["exit"].qty = n, !.orders["stop"].qty = n]
<1>1. TradeSound(t, c)
  BY TradeOrders, SoundFilled, OnOrderSound
<1>2. TradeEvolves(t, c.t) /\ c.t \in TradeRec
  BY <1>1 DEF TradeSound, TradeEvolves
<1>3. n \in Int
  <2>1. c.t.orders["entry"] \in OrderRec
    BY <1>2, KindsOf, TradeOrders
  <2>2. QED BY <2>1 DEF OrderRec
<1>4. TradeEvolves(c.t, u)
  BY <1>2, <1>3, QuantityEvolves
<1>5. TradeSound(t, ComputeTrade(c.t, price)) /\ TradeSound(t, ComputeTrade(u, price))
  BY <1>2, <1>4, TradeTrans, ComputeTradeAfter
<1>6. QED BY <1>1, <1>5 DEF TradeConfirmFilled, ThenComputeTrade, Offered, TOk

(* The confirmation that an order failed to open evolves the orders. *)
LEMMA ConfirmOpenFailedSound ==
    ASSUME NEW t \in TradeRec, NEW k \in Kinds, NEW price \in Int
    PROVE  TradeSound(t, TradeConfirmOpenFailed(t, k, price))
<1> DEFINE c == OnOrder(t, k, ConfirmOpenFailed(t.orders[k], price))
           u == [c.t EXCEPT !.status = "Idle"]
           to == IF t.state = "Entering" THEN "EntryFailed" ELSE "ExitFailed"
           s == SetTradeState(u, to)
<1>1. TradeSound(t, c)
  BY TradeOrders, SoundConfirms, OnOrderSound
<1>2. TradeEvolves(t, u) /\ u \in TradeRec
  <2>1. c.t \in TradeRec
    BY <1>1 DEF TradeSound, TradeEvolves
  <2>2. "Idle" \in TradeStatus /\ "New" \in TradeState
    BY DEF TradeStatus, TradeState
  <2>3. TradeEvolves(c.t, u)
    BY <2>1, <2>2, TradeFields
  <2>4. QED BY <1>1, <2>3, TradeTrans DEF TradeSound, TradeEvolves
<1>3. to \in TradeState
  BY DEF TradeState
<1>4. TradeSound(t, s)
  BY <1>2, <1>3, SetTradeStateSound, TradeAfter
<1>5. TradeSound(t, ComputeTrade(s.t, price))
  BY <1>4, ComputeTradeAfter DEF TradeSound
<1>6. QED BY <1>1, <1>4, <1>5 DEF TradeConfirmOpenFailed, ThenComputeTrade, FailTrade
----------------------------------------------------------------------------
(* The result of an instruction *)

(* t became u: order k has nothing Running any more, the others evolved. *)
Ends(t, k, u) ==
    /\ u \in TradeRec
    /\ u.tracked = t.tracked
    /\ u.orders[k].instr.st # "Running"
    /\ \A j \in Kinds \ {k} : Keeps(t.orders[j], u.orders[j])
    /\ \A j \in Kinds : /\ t.orders[j].state = "Finished" => u.orders[j].state = "Finished"
                        /\ OpensNothing(t.orders[j], u.orders[j])

(* What evolves from there still has nothing Running in order k. *)
LEMMA EndsThenEvolves ==
    ASSUME NEW t, NEW k \in Kinds, NEW u, NEW v, Ends(t, k, u), TradeEvolves(u, v)
    PROVE  Ends(t, k, v)
<1>1. v.orders[k].instr.st # "Running"
  BY DEF Ends, TradeEvolves, Evolves, Keeps
<1>2. \A j \in Kinds \ {k} : Keeps(t.orders[j], v.orders[j])
  BY KeepsTrans DEF Ends, TradeEvolves, Evolves
<1>3. \A j \in Kinds : OpensNothing(t.orders[j], v.orders[j])
  BY DEF Ends, TradeEvolves, Evolves, Keeps, OpensNothing
<1>4. QED BY <1>1, <1>2, <1>3 DEF Ends, TradeEvolves, Evolves

(* The result of the instruction that runs in order k ends it, and no other. *)
LEMMA ExecutionEndsTrade ==
    ASSUME NEW t \in TradeRec, NEW k \in Kinds, t.orders[k].instr.st = "Running",
           NEW success \in BOOLEAN, NEW price \in Int
    PROVE  LET r == ConfirmExecution(t, k, t.orders[k].instr.id, success, price)
           IN  Ends(t, k, r.t) /\ r.ok \in BOOLEAN
<1> DEFINE o == t.orders[k]
           r == ConfirmInstructionExecution(o, o.instr.id, success, price)
           c == OnOrder(t, k, r)
           p == [c.t EXCEPT !.pending = "none"]
           l == Lifecycle(p, price)
           m == ComputeTrade(l.t, price)
<1>1. o \in OrderRec
  BY TradeOrders
<1>2. r.o \in OrderRec /\ r.ok \in BOOLEAN /\ r.o.instr.st # "Running" /\ OpensNothing(o, r.o)
  BY <1>1, ExecutionEnds
<1>3. o.state = "Finished" => r.o.state = "Finished"
  BY <1>1, FinalExecution DEF IsFinal
<1>4. Ends(t, k, c.t) /\ c.t \in TradeRec
  <2>1. c.t = With(t, k, r.o)
    BY DEF OnOrder
  <2>2. c.t \in TradeRec /\ c.t.tracked = t.tracked
    BY <1>2, <2>1 DEF With, TradeRec
  <2>3. \A j \in Kinds : c.t.orders[j] = IF j = k THEN r.o ELSE t.orders[j]
    BY <2>1 DEF With, TradeRec
  <2>4. \A j \in Kinds \ {k} : Keeps(t.orders[j], c.t.orders[j])
    BY <2>3, TradeOrders, KeepsRefl
  <2>5. \A j \in Kinds : OpensNothing(t.orders[j], c.t.orders[j])
    BY <1>2, <2>3, <2>4 DEF Keeps
  <2>6. QED BY <1>2, <1>3, <2>2, <2>3, <2>4, <2>5 DEF Ends
<1>5. TradeEvolves(c.t, p) /\ p \in TradeRec
  BY <1>4, PendingEvolves DEF TradeEvolves
<1>6. TradeEvolves(c.t, l.t) /\ l.t \in TradeRec
  BY <1>5, LifecycleSound, TradeTrans DEF TradeSound, TradeEvolves
<1>7. TradeSound(c.t, m)
  BY <1>6, ComputeTradeAfter
<1>8. Ends(t, k, m.t) /\ m.ok \in BOOLEAN
  BY <1>4, <1>7, EndsThenEvolves DEF TradeSound
<1>9. ConfirmExecution(t, k, o.instr.id, success, price) = IF ~c.ok THEN c ELSE m
  BY DEF ConfirmExecution
<1>10. c.ok \in BOOLEAN
  BY <1>2 DEF OnOrder
<1>11. QED BY <1>4, <1>8, <1>9, <1>10

-----------------------------------------------------------------------------
(* What a trade knows of its orders that are out, and how its methods keep it. *)

(* Nothing of the trade is out, and what it may still send opens no order. *)
Quiet(t, U) ==
    /\ \A k \in Kinds : k \notin U
    /\ t.pending # "none" => t.orders[t.pending].state = "Finished"

(* What the trade knows of its orders of which something is out (U). *)
TradeBook(t, U) ==
    /\ \A k \in Kinds : /\ Settled(t.orders[k]) /\ Idles(t.orders[k])
                        /\ Ashore(t.orders[k]) => k \notin U
    /\ t.pending = "exit" \/ "exit" \in U => Dormant(t.orders["stop"]) /\ "stop" \notin U
    /\ t.pending = "stop" => "exit" \notin U
    /\ t.state \in {"New", "Entering"} =>
          Fresh(t.orders["exit"]) /\ Fresh(t.orders["stop"]) /\ t.pending \in {"none", "entry"}
    /\ t.state = "Exiting" => t.orders["entry"].state = "Finished" /\ ~t.orders["entry"].byCancel
    /\ t.state = "Exiting" /\ (\E k \in {"exit", "stop"} : t.orders[k].state = "Finished")
          => Quiet(t, U)
    /\ t.state = "Closed" => Quiet(t, U)

(* No method of the trade does by itself what Stays rules out of its orders. *)
TradeStays(t, u) == \A k \in Kinds : Stays(t.orders[k], u.orders[k])

(* The book is kept from t to u, and the orders stay what they were in it. *)
Minds(t, u, U) == TradeBook(u, U) /\ TradeStays(t, u)

(* The trade itself. *)
LEMMA MindsRefl == ASSUME NEW t \in TradeRec, NEW U, TradeBook(t, U) PROVE Minds(t, t, U)
BY StaysRefl, TradeOrders DEF Minds, TradeStays, TradeBook

(* Two methods in a row. *)
LEMMA MindsTrans ==
    ASSUME NEW t, NEW u, NEW v, NEW U, TradeStays(t, u), Minds(u, v, U)
    PROVE  Minds(t, v, U)
BY StaysTrans DEF Minds, TradeStays

(* What is no longer out may be forgotten. *)
LEMMA BookShrinks ==
    ASSUME NEW t, NEW U, NEW V, V \subseteq U, TradeBook(t, U)
    PROVE  TradeBook(t, V)
BY DEF TradeBook, Quiet

(* The status and the close reason are not in the book. *)
LEMMA BookFields ==
    ASSUME NEW t \in TradeRec, NEW U, TradeBook(t, U),
           NEW u, u.orders = t.orders, u.state = t.state, u.pending = t.pending
    PROVE  Minds(t, u, U)
<1>1. TradeBook(u, U)
  BY DEF TradeBook, Quiet
<1>2. TradeStays(t, u)
  BY MindsRefl DEF Minds, TradeStays
<1>3. QED BY <1>1, <1>2 DEF Minds

(* What With changes. *)
LEMMA WithFields ==
    ASSUME NEW t \in TradeRec, NEW k \in Kinds, NEW p
    PROVE  LET u == With(t, k, p)
           IN  /\ u.state = t.state /\ u.pending = t.pending /\ u.tracked = t.tracked
               /\ u.status = t.status
               /\ \A j \in Kinds : u.orders[j] = IF j = k THEN p ELSE t.orders[j]
BY DEF With, TradeRec

(* One order goes through a method that leaves it as Stays says. *)
LEMMA BookWith ==
    ASSUME NEW t \in TradeRec, NEW U, TradeBook(t, U), NEW k \in Kinds, NEW p,
           Stays(t.orders[k], p), Idles(p),
           t.state \in {"New", "Entering"} /\ Fresh(t.orders[k]) => k = "entry" \/ Fresh(p)
    PROVE  Minds(t, With(t, k, p), U)
<1> DEFINE u == With(t, k, p)
           o == t.orders[k]
<1>1. /\ u.state = t.state /\ u.pending = t.pending
      /\ \A j \in Kinds : u.orders[j] = IF j = k THEN p ELSE t.orders[j]
  BY WithFields
<1> HIDE DEF u
<1>2. \A j \in Kinds : Stays(t.orders[j], u.orders[j])
  BY <1>1, MindsRefl DEF Minds, TradeStays
<1>3. \A j \in Kinds : Settled(u.orders[j]) /\ Idles(u.orders[j]) /\ (Ashore(u.orders[j]) => j \notin U)
  BY <1>1, <1>2 DEF TradeBook, Stays
<1>4. u.pending = "exit" \/ "exit" \in U => Dormant(u.orders["stop"]) /\ "stop" \notin U
  BY <1>1, <1>2, KindsOf DEF TradeBook, Stays
<1>5. u.pending = "stop" => "exit" \notin U
  BY <1>1 DEF TradeBook
<1>6. u.state \in {"New", "Entering"} =>
          Fresh(u.orders["exit"]) /\ Fresh(u.orders["stop"]) /\ u.pending \in {"none", "entry"}
  BY <1>1, KindsOf DEF TradeBook
<1>7. \A j \in Kinds : u.orders[j].state = "Finished" <=> t.orders[j].state = "Finished"
  BY <1>2 DEF Stays
<1>8. u.state = "Exiting" => u.orders["entry"].state = "Finished" /\ ~u.orders["entry"].byCancel
  BY <1>1, <1>2, KindsOf DEF TradeBook, Stays
<1>9. Quiet(t, U) => Quiet(u, U)
  <2>1. t.pending \in Kinds \cup {"none"}
    BY DEF TradeRec
  <2>2. QED BY <1>1, <1>7, <2>1 DEF Quiet
<1>10. u.state = "Exiting" /\ (\E j \in {"exit", "stop"} : u.orders[j].state = "Finished")
          => Quiet(u, U)
  BY <1>1, <1>7, <1>9, KindsOf DEF TradeBook
<1>11. u.state = "Closed" => Quiet(u, U)
  BY <1>1, <1>9 DEF TradeBook
<1>12. TradeBook(u, U)
  BY <1>3, <1>4, <1>5, <1>6, <1>8, <1>10, <1>11 DEF TradeBook
<1>13. QED BY <1>2, <1>12 DEF Minds, TradeStays, u

(* The three calls of compute. *)
LEMMA BookCompute ==
    ASSUME NEW t \in TradeRec, NEW U, TradeBook(t, U), NEW k \in Kinds,
           k = "entry" \/ t.state \notin {"New", "Entering"}, NEW price \in Int \ {0}
    PROVE  Minds(t, OnOrder(t, k, Compute(t.orders[k], price)).t, U)
<1>1. t.orders[k] \in OrderRec /\ Settled(t.orders[k])
  BY TradeOrders DEF TradeBook
<1>2. Stays(t.orders[k], Compute(t.orders[k], price).o) /\ Idles(Compute(t.orders[k], price).o)
  BY <1>1, ComputeStays
<1>3. QED BY <1>2, BookWith DEF OnOrder

----------------------------------------------------------------------------
(* The state of the trade and the book *)

(* A trade that fails, one that closes when it is quiet, and one whose entry
   is done keep the book.                                                    *)
LEMMA BookMoves ==
    ASSUME NEW t \in TradeRec, NEW U, TradeBook(t, U),
           NEW u, u.orders = t.orders, u.pending = t.pending,
           \/ u.state \in {t.state, "EntryFailed", "ExitFailed", "Failed"}
           \/ u.state = "Closed" /\ Quiet(t, U)
           \/ /\ u.state = "Exiting" /\ t.state = "Entering"
              /\ t.orders["entry"].state = "Finished" /\ ~t.orders["entry"].byCancel
    PROVE  Minds(t, u, U)
<1>1. TradeStays(t, u)
  BY MindsRefl DEF Minds, TradeStays
<1>2. Quiet(u, U) <=> Quiet(t, U)
  BY DEF Quiet
<1>3. CASE u.state = t.state
  BY <1>3, BookFields
<1>4. CASE u.state \in {"EntryFailed", "ExitFailed", "Failed"}
  BY <1>1, <1>4 DEF TradeBook, Minds
<1>5. CASE u.state = "Closed" /\ Quiet(t, U)
  BY <1>1, <1>2, <1>5 DEF TradeBook, Minds
<1>6. CASE /\ u.state = "Exiting" /\ t.state = "Entering"
           /\ t.orders["entry"].state = "Finished" /\ ~t.orders["entry"].byCancel
  <2>1. \A k \in {"exit", "stop"} : u.orders[k].state = "Idle"
    BY <1>6 DEF TradeBook, Fresh
  <2>2. QED BY <1>1, <1>6, <2>1 DEF TradeBook, Minds
<1>7. QED BY <1>3, <1>4, <1>5, <1>6

(* set_state to one of the failures. *)
LEMMA BookFails ==
    ASSUME NEW t \in TradeRec, NEW U, TradeBook(t, U), NEW to \in {"EntryFailed", "ExitFailed"}
    PROVE  Minds(t, SetTradeState(t, to).t, U)
<1>1. LET u == [t EXCEPT !.state = to]
      IN  u.orders = t.orders /\ u.pending = t.pending /\ u.state = to
  BY DEF TradeRec
<1>2. Minds(t, [t EXCEPT !.state = to], U)
  BY <1>1, BookMoves
<1>3. QED BY <1>2, MindsRefl DEF SetTradeState, TOk, TErr

(* The entry was cancelled: nothing of the trade is out, and it closes. *)
LEMMA BookEntryCancelled ==
    ASSUME NEW t \in TradeRec, NEW U, TradeBook(t, U), NEW price \in Int \ {0},
           t.orders["entry"].byCancel
    PROVE  Minds(t, EntryCancelled(t, price).t, U) /\ EntryCancelled(t, price).t.state # "Exiting"
<1> DEFINE o == t.orders["entry"]
           r == Terminate(o, price)
           c == OnOrder(t, "entry", r)
           u == [c.t EXCEPT !.reason = "Cancelled"]
           v == [u EXCEPT !.state = "Closed"]
<1>1. o \in OrderRec /\ Settled(o) /\ Idles(o) /\ o.state = "Finished"
  BY TradeOrders, KindsOf DEF TradeBook, Settled
<1>2. Stays(o, r.o) /\ Idles(r.o)
  BY <1>1, CallsStay DEF OrderMode
<1>3. Minds(t, c.t, U)
  BY <1>2, BookWith, KindsOf DEF OnOrder
<1>4. /\ c.t.state = t.state /\ c.t.pending = t.pending
      /\ c.t.orders["entry"].state = "Finished" /\ c.t.orders["entry"].byCancel
      /\ c.t.orders["exit"] = t.orders["exit"] /\ c.t.orders["stop"] = t.orders["stop"]
  <2>1. c.t = With(t, "entry", r.o)
    BY DEF OnOrder
  <2>2. c.t.orders["entry"] = r.o
    BY <2>1, KindsOf, WithFields
  <2>3. r.o.state = "Finished" /\ r.o.byCancel
    BY <1>1, <1>2 DEF Stays
  <2>4. QED BY <2>1, <2>2, <2>3, KindsOf, WithFields
<1>5. t.state # "Exiting"
  BY DEF TradeBook
<1>6. c.t \in TradeRec
  BY <1>1, KindsOf, SoundCalls, OnOrderSound DEF TradeSound, TradeEvolves
<1> HIDE DEF c
<1>7. /\ u.orders = c.t.orders /\ u.pending = c.t.pending /\ u.state = c.t.state
      /\ v.orders = c.t.orders /\ v.pending = c.t.pending /\ v.state = "Closed"
  BY <1>6 DEF TradeRec
<1>8. Minds(c.t, u, U)
  BY <1>3, <1>6, <1>7, BookFields DEF Minds
<1>9. CASE t.state \in {"New", "Entering", "Closed"}
  <2>1. Quiet(c.t, U)
    <3>1. CASE t.state = "Closed"
      BY <1>3, <1>4, <3>1 DEF Minds, TradeBook
    <3>2. CASE t.state \in {"New", "Entering"}
      <4>1. \A k \in Kinds : Ashore(c.t.orders[k])
        BY <1>3, <1>4, <3>2 DEF Minds, TradeBook, Fresh, Ashore, Kinds
      <4>2. \A k \in Kinds : k \notin U
        BY <1>3, <4>1 DEF Minds, TradeBook
      <4>3. QED BY <1>3, <1>4, <3>2, <4>2 DEF Minds, TradeBook, Quiet
    <3>3. QED BY <1>9, <3>1, <3>2
  <2>2. Minds(c.t, v, U)
    BY <1>3, <1>6, <1>7, <2>1, BookMoves DEF Minds
  <2> HIDE DEF u, v
  <2>3. Minds(t, u, U) /\ Minds(t, v, U) /\ Minds(t, c.t, U)
    BY <1>3, <1>8, <2>2, MindsTrans DEF Minds
  <2>4. EntryCancelled(t, price).t \in {c.t, u, v}
    BY DEF EntryCancelled, SetTradeState, TOk, TErr, c, u, v
  <2>5. QED BY <1>4, <1>5, <1>7, <2>3, <2>4
<1>10. CASE t.state \notin {"New", "Entering", "Closed"}
  <2>1. u.state \notin {"New", "Entering", "Exiting", "Closed"}
    BY <1>4, <1>5, <1>7, <1>10
  <2>2. SetTradeState(u, "Closed").t = u
    BY <2>1 DEF SetTradeState, TradeMoves, TErr
  <2> HIDE DEF u
  <2>3. EntryCancelled(t, price).t \in {c.t, u}
    BY <2>2 DEF EntryCancelled, u, c
  <2>4. Minds(t, u, U)
    BY <1>3, <1>8, MindsTrans DEF Minds
  <2>5. QED BY <1>3, <1>4, <1>5, <1>7, <2>3, <2>4
<1>11. QED BY <1>9, <1>10

(* While the trade is exiting neither order has ended it yet. *)
StillExiting(t) ==
    t.state = "Exiting" => t.orders["exit"].state # "Finished" /\ t.orders["stop"].state # "Finished"

(* compute_lifecycle keeps the book, and closes a trade that is over. *)
LEMMA BookLifecycle ==
    ASSUME NEW t \in TradeRec, NEW U, TradeBook(t, U), NEW price \in Int \ {0}
    PROVE  LET l == Lifecycle(t, price)
           IN  Minds(t, l.t, U) /\ (l.ok => StillExiting(l.t))
<1> DEFINE f == IF IsFailed(t.orders["entry"]) THEN SetTradeState(t, "EntryFailed") ELSE TOk(t)
           d == EntryDone(f.t)
           x == ExitDone(d)
           l == Lifecycle(t, price)
<1>1. Minds(t, f.t, U) /\ f.t \in TradeRec
  <2>1. Minds(t, SetTradeState(t, "EntryFailed").t, U)
    BY BookFails
  <2>2. SetTradeState(t, "EntryFailed").t \in TradeRec
    BY SetTradeStateSound DEF TradeState, TradeSound, TradeEvolves
  <2>3. QED BY <2>1, <2>2, MindsRefl DEF TOk
<1> HIDE DEF f
<1>2. CASE ~f.ok
  <2>1. l = f
    BY <1>2 DEF Lifecycle, f
  <2>2. QED BY <1>1, <1>2, <2>1
<1>3. CASE f.ok /\ f.t.orders["entry"].byCancel /\ f.t.orders["entry"].state # "PartiallyFilled"
  <2>1. l = EntryCancelled(f.t, price)
    BY <1>3 DEF Lifecycle, f
  <2>2. Minds(f.t, l.t, U) /\ l.t.state # "Exiting"
    BY <1>1, <1>3, <2>1, BookEntryCancelled DEF Minds
  <2>3. QED BY <1>1, <2>2, MindsTrans DEF Minds, StillExiting
<1>4. CASE f.ok /\ ~(f.t.orders["entry"].byCancel /\ f.t.orders["entry"].state # "PartiallyFilled")
  <2>1. l = TOk(x)
    BY <1>4 DEF Lifecycle, f
  <2>2. ~f.t.orders["entry"].byCancel
    BY <1>1, <1>4, KindsOf DEF Minds, TradeBook, Settled
  <2>3. Minds(f.t, d, U) /\ d \in TradeRec
    <3>1. CASE f.t.state = "Entering" /\ IsFinished(f.t.orders["entry"])
      <4>1. d = [f.t EXCEPT !.status = "Idle", !.state = "Exiting"]
        BY <3>1 DEF EntryDone
      <4>2. d.orders = f.t.orders /\ d.pending = f.t.pending /\ d.state = "Exiting"
        BY <1>1, <4>1 DEF TradeRec
      <4>3. d \in TradeRec
        BY <1>1, DoneEvolves DEF TradeEvolves
      <4> HIDE DEF d
      <4>4. QED BY <1>1, <2>2, <3>1, <4>2, <4>3, BookMoves DEF Minds, IsFinished
    <3>2. CASE ~(f.t.state = "Entering" /\ IsFinished(f.t.orders["entry"]))
      BY <1>1, <3>2, MindsRefl DEF EntryDone, Minds
    <3>3. QED BY <3>1, <3>2
  <2> HIDE DEF d
  <2>4. Minds(d, x, U) /\ StillExiting(x)
    <3>1. CASE d.state = "Exiting" /\ (IsFinished(d.orders["exit"]) \/ IsFinished(d.orders["stop"]))
      <4>1. x = [d EXCEPT !.reason = "Normal", !.state = "Closed", !.status = "Idle"]
        BY <3>1 DEF ExitDone
      <4>2. x.orders = d.orders /\ x.pending = d.pending /\ x.state = "Closed"
        BY <2>3, <4>1 DEF TradeRec
      <4>3. Quiet(d, U)
        BY <2>3, <3>1 DEF Minds, TradeBook, IsFinished
      <4> HIDE DEF x
      <4>4. QED BY <2>3, <4>2, <4>3, BookMoves DEF Minds, StillExiting
    <3>2. CASE ~(d.state = "Exiting" /\ (IsFinished(d.orders["exit"]) \/ IsFinished(d.orders["stop"])))
      BY <2>3, <3>2, MindsRefl DEF ExitDone, Minds, StillExiting, IsFinished
    <3>3. QED BY <3>1, <3>2
  <2> HIDE DEF x
  <2>5. Minds(t, x, U)
    BY <1>1, <2>3, <2>4, MindsTrans DEF Minds
  <2>6. QED BY <2>1, <2>4, <2>5 DEF TOk
<1>5. QED BY <1>2, <1>3, <1>4
----------------------------------------------------------------------------
(* compute and the book *)

(* Handing over the entry's instruction keeps the book. *)
LEMMA BookHandOver ==
    ASSUME NEW c, c.t \in TradeRec, NEW U, TradeBook(c.t, U), c.t.state \in {"New", "Entering"}
    PROVE  Minds(c.t, HandOver(c).t, U)
<1> DEFINE p == IF HasInstr(c.t.orders["entry"]) THEN "entry" ELSE "none"
           u == [c.t EXCEPT !.state = "Entering", !.pending = p]
<1>1. u.orders = c.t.orders /\ u.pending \in {"none", "entry"} /\ u.state = "Entering"
  BY DEF TradeRec
<1> HIDE DEF u
<1>2. TradeBook(u, U)
  BY <1>1 DEF TradeBook
<1>3. TradeStays(c.t, u)
  BY <1>1, MindsRefl DEF Minds, TradeStays
<1>4. QED BY <1>2, <1>3, MindsRefl DEF HandOver, TOk, u, Minds

(* compute of the entry keeps the book. *)
LEMMA BookComputeEntry ==
    ASSUME NEW t \in TradeRec, NEW U, TradeBook(t, U), t.state \in {"New", "Entering"},
           NEW price \in Int \ {0}
    PROVE  Minds(t, ComputeEntry(t, price).t, U)
<1> DEFINE c == OnOrder(t, "entry", Compute(t.orders["entry"], price))
<1>1. Minds(t, c.t, U)
  BY KindsOf, BookCompute
<1>2. c.t \in TradeRec /\ c.t.state = t.state
  BY TradeOrders, KindsOf, SoundCalls, OnOrderSound, WithFields
  DEF OnOrder, TradeSound, TradeEvolves
<1>3. Minds(c.t, HandOver(c).t, U)
  BY <1>1, <1>2, BookHandOver DEF Minds
<1>4. QED BY <1>1, <1>3, MindsTrans DEF ComputeEntry, Minds

(* maintenance keeps the book. *)
LEMMA BookMaintained ==
    ASSUME NEW t \in TradeRec, NEW U, TradeBook(t, U)
    PROVE  /\ Minds(t, Maintained(t), U) /\ Maintained(t).state = t.state
           /\ Maintained(t).orders = t.orders
<1> DEFINE u == [t EXCEPT !.pending = "none"]
<1>1. u.orders = t.orders /\ u.pending = "none" /\ u.state = t.state
  BY DEF TradeRec
<1> HIDE DEF u
<1>2. TradeBook(u, U)
  BY <1>1 DEF TradeBook, Quiet
<1>3. TradeStays(t, u)
  BY <1>1, MindsRefl DEF Minds, TradeStays
<1>4. QED BY <1>1, <1>2, <1>3, MindsRefl DEF Maintained, u, Minds

(* Naming an order of an exiting trade as pending keeps the book, where the
   other one is not out, and does not come out by itself.                    *)
LEMMA BookNames ==
    ASSUME NEW t \in TradeRec, NEW U, TradeBook(t, U), StillExiting(t),
           t.state \notin {"New", "Entering", "Closed"}, NEW k \in {"exit", "stop"},
           k = "exit" => Dormant(t.orders["stop"]) /\ "stop" \notin U,
           k = "stop" => "exit" \notin U
    PROVE  Minds(t, [t EXCEPT !.pending = k], U)
<1> DEFINE u == [t EXCEPT !.pending = k]
<1>1. u.orders = t.orders /\ u.pending = k /\ u.state = t.state
  BY DEF TradeRec
<1> HIDE DEF u
<1>2. TradeBook(u, U)
  BY <1>1 DEF TradeBook, StillExiting
<1>3. TradeStays(t, u)
  BY <1>1, MindsRefl DEF Minds, TradeStays
<1>4. QED BY <1>2, <1>3 DEF u, Minds

(* The book and the orders that are not active: nothing of them is out. *)
LEMMA InactiveAshore ==
    ASSUME NEW o, Settled(o), ~IsActive(o)
    PROVE  Ashore(o)
BY DEF Settled, RestStates, IsActive, Ashore

(* The exit waits for the stoploss to leave the book, so the book is kept. *)
LEMMA BookYieldToExit ==
    ASSUME NEW t \in TradeRec, NEW U, TradeBook(t, U), StillExiting(t),
           t.state \notin {"New", "Entering", "Closed"}, NEW price \in Int \ {0},
           t.orders["stop"].instr.kind # "CancelOrder"
    PROVE  Minds(t, YieldToExit(t, price).t, U)
<1> DEFINE exit == t.orders["exit"]
           stop == t.orders["stop"]
           w    == CancelPendingInstruction(stop, price)
           i    == CancelAndIdle(w.o, price)
           u    == With(t, "stop", w.o)
<1>1. stop \in OrderRec /\ Settled(stop) /\ Idles(stop)
  BY TradeOrders, KindsOf DEF TradeBook
<1>2. CASE \/ exit.state # "PendingOpen" /\ IsActive(exit)
           \/ stop.state = "PendingCancel"
           \/ ~stop.toReplace /\ stop.toIdle
           \/ ~stop.toReplace /\ ~IsActive(stop) /\ exit.state # "PendingOpen"
                 /\ stop.state # "Idle"
  BY <1>2, MindsRefl DEF YieldToExit, TOk
<1>3. CASE ~(\/ exit.state # "PendingOpen" /\ IsActive(exit)
             \/ stop.state = "PendingCancel"
             \/ ~stop.toReplace /\ stop.toIdle
             \/ ~stop.toReplace /\ ~IsActive(stop) /\ exit.state # "PendingOpen"
                   /\ stop.state # "Idle")
  <2>1. stop.state # "PendingCancel"
    BY <1>3
  <2>2. Stays(stop, w.o) /\ Idles(w.o)
    BY <1>1, <2>1, WithdrawStays
  <2>3. w.o \in OrderRec
    BY <1>1, DoneCalls DEF Done, Keeps
  <2> HIDE DEF w
  <2>4. Minds(t, u, U)
    BY <2>2, KindsOf, BookWith
  <2>5. u \in TradeRec /\ u.state = t.state /\ u.orders["stop"] = w.o
        /\ u.orders["exit"] = t.orders["exit"]
    <3>1. u \in TradeRec
      BY <2>3 DEF With, TradeRec
    <3>2. QED BY <3>1, KindsOf, WithFields
  <2>6. Stays(w.o, i.o) /\ (Idles(w.o) => Idles(i.o))
    BY <2>2, <2>3, CallsStay DEF Stays, OrderMode
  <2> HIDE DEF i
  <2>7. Stays(stop, i.o) /\ Idles(i.o)
    BY <2>2, <2>6, StaysTrans
  <2>8. Minds(t, OnOrder(t, "stop", w).t, U) /\ Minds(t, OnOrder(t, "stop", i).t, U)
    BY <2>2, <2>4, <2>7, KindsOf, BookWith DEF OnOrder
  <2>9. CASE stop.toReplace \/ ~w.ok
    <3>1. YieldToExit(t, price) = OnOrder(t, "stop", w)
      BY <1>3, <2>9 DEF YieldToExit, w
    <3>2. QED BY <2>8, <3>1
  <2>10. CASE ~(stop.toReplace \/ ~w.ok) /\ IsActive(stop)
    <3>1. YieldToExit(t, price) = OnOrder(t, "stop", i)
      BY <1>3, <2>10 DEF YieldToExit, w, i
    <3>2. QED BY <2>8, <3>1
  <2>11. CASE ~(stop.toReplace \/ ~w.ok) /\ ~IsActive(stop)
    <3> DEFINE v == [u EXCEPT !.pending = "exit"]
    <3>1. YieldToExit(t, price) = TOk(v)
      BY <1>3, <2>11 DEF YieldToExit, w, u
    <3>2. Ashore(stop)
      BY <1>1, <2>11, InactiveAshore
    <3>3. Dormant(stop)
      BY <1>1, <2>11 DEF Settled, RestStates, IsActive, Dormant
    <3>4. "stop" \notin U /\ Dormant(u.orders["stop"])
      BY <2>2, <2>5, <3>2, <3>3, KindsOf DEF TradeBook, Stays
    <3>5. StillExiting(u)
      BY <2>2, <2>5 DEF StillExiting, Stays
    <3> HIDE DEF u
    <3>6. TradeBook(u, U) /\ TradeStays(t, u)
      BY <2>4 DEF Minds
    <3>7. Minds(u, v, U)
      <4>1. u.state \notin {"New", "Entering", "Closed"}
        BY <2>5
      <4>2. QED BY <2>5, <3>4, <3>5, <3>6, <4>1, BookNames
    <3>8. Minds(t, v, U)
      BY <3>6, <3>7, MindsTrans
    <3>9. QED BY <3>1, <3>8 DEF TOk
  <2>12. QED BY <2>9, <2>10, <2>11
<1>4. QED BY <1>2, <1>3

(* Whichever of the two may speak, the other is not out. *)
LEMMA BookArbitrate ==
    ASSUME NEW t \in TradeRec, NEW U, TradeBook(t, U), StillExiting(t),
           t.state \notin {"New", "Entering", "Closed"}, NEW price \in Int \ {0}
    PROVE  Minds(t, Arbitrate(t, price).t, U)
<1> DEFINE exit == t.orders["exit"]
           stop == t.orders["stop"]
<1>1. Settled(exit) /\ Settled(stop)
  BY KindsOf DEF TradeBook
<1>2. CASE HasInstr(stop) /\ (stop.instr.kind = "CancelOrder" \/ stop.state = "PendingCancel")
  <2>1. ~Dormant(stop)
    BY <1>2 DEF Dormant
  <2>2. "exit" \notin U
    BY <2>1 DEF TradeBook
  <2>3. Minds(t, [t EXCEPT !.pending = "stop"], U)
    BY <2>2, BookNames
  <2>4. QED BY <1>2, <2>3 DEF Arbitrate, TOk
<1>3. CASE /\ ~(HasInstr(stop) /\ (stop.instr.kind = "CancelOrder" \/ stop.state = "PendingCancel"))
           /\ HasInstr(exit)
  <2>1. stop.instr.kind # "CancelOrder"
    BY <1>3 DEF HasInstr
  <2>2. QED BY <1>3, <2>1, BookYieldToExit DEF Arbitrate
<1>4. CASE /\ ~(HasInstr(stop) /\ (stop.instr.kind = "CancelOrder" \/ stop.state = "PendingCancel"))
           /\ ~HasInstr(exit) /\ HasInstr(stop) /\ ~IsActive(exit) /\ IsActive(stop)
  <2>1. "exit" \notin U
    BY <1>1, <1>4, InactiveAshore, KindsOf DEF TradeBook
  <2>2. Minds(t, [t EXCEPT !.pending = "stop"], U)
    BY <2>1, BookNames
  <2>3. QED BY <1>4, <2>2 DEF Arbitrate, TOk
<1>5. QED BY <1>2, <1>3, <1>4, MindsRefl DEF Arbitrate, TOk

(* compute of one order: the state of the trade stays, and what is Finished. *)
LEMMA ComputeOne ==
    ASSUME NEW t \in TradeRec, NEW U, TradeBook(t, U), NEW k \in {"exit", "stop"},
           t.state \notin {"New", "Entering", "Closed"}, StillExiting(t), NEW price \in Int \ {0}
    PROVE  LET u == OnOrder(t, k, Compute(t.orders[k], price)).t
           IN  Minds(t, u, U) /\ u \in TradeRec /\ u.state = t.state /\ StillExiting(u)
<1> DEFINE u == OnOrder(t, k, Compute(t.orders[k], price)).t
<1>1. k \in Kinds
  BY DEF Kinds
<1>2. Minds(t, u, U)
  BY <1>1, BookCompute
<1>3. u \in TradeRec
  BY <1>1, TradeOrders, SoundCalls, OnOrderSound DEF TradeSound, TradeEvolves
<1>4. u.state = t.state
  BY <1>1, WithFields DEF OnOrder
<1> HIDE DEF u
<1>5. StillExiting(u)
  BY <1>2, <1>4, KindsOf DEF Minds, TradeStays, Stays, StillExiting
<1>6. QED BY <1>2, <1>3, <1>4, <1>5 DEF u

(* compute of the exit and the stoploss keeps the book. *)
LEMMA BookComputeExit ==
    ASSUME NEW t \in TradeRec, NEW U, TradeBook(t, U), StillExiting(t),
           t.state \notin {"New", "Entering", "Closed"}, NEW price \in Int \ {0}
    PROVE  Minds(t, ComputeExit(t, price).t, U)
<1> DEFINE x == OnOrder(t, "exit", Compute(t.orders["exit"], price))
           s == OnOrder(x.t, "stop", Compute(x.t.orders["stop"], price))
           c == ThenStop(x, price)
<1>1. Minds(t, x.t, U) /\ x.t \in TradeRec /\ x.t.state = t.state /\ StillExiting(x.t)
  BY ComputeOne
<1> HIDE DEF x
<1>2. Minds(x.t, s.t, U) /\ s.t \in TradeRec /\ s.t.state = t.state /\ StillExiting(s.t)
  <2>1. TradeBook(x.t, U) /\ x.t.state \notin {"New", "Entering", "Closed"}
    BY <1>1 DEF Minds
  <2>2. QED BY <1>1, <2>1, ComputeOne
<1>3. Minds(t, s.t, U)
  BY <1>1, <1>2, MindsTrans DEF Minds
<1>4. Minds(t, c.t, U) /\ c.t \in TradeRec /\ c.t.state = t.state /\ StillExiting(c.t)
  <2>1. c = s \/ c = x
    BY DEF ThenStop
  <2> HIDE DEF c, s
  <2>2. QED BY <1>1, <1>2, <1>3, <2>1
<1> HIDE DEF c
<1>5. Minds(c.t, Arbitrate(c.t, price).t, U)
  BY <1>4, BookArbitrate DEF Minds
<1>6. Minds(t, Arbitrate(c.t, price).t, U)
  BY <1>4, <1>5, MindsTrans DEF Minds
<1>7. ComputeExit(t, price) = ThenArbitrate(c, price)
  BY DEF ComputeExit, c, x
<1>8. QED BY <1>4, <1>6, <1>7 DEF ThenArbitrate

(* compute of the trade keeps the book. *)
LEMMA BookComputeTrade ==
    ASSUME NEW t \in TradeRec, NEW U, TradeBook(t, U), NEW price \in Int \ {0}
    PROVE  Minds(t, ComputeTrade(t, price).t, U)
<1> DEFINE l == Lifecycle(t, price)
           m == Maintained(l.t)
<1>1. Minds(t, l.t, U) /\ (l.ok => StillExiting(l.t))
  BY BookLifecycle
<1>2. l.t \in TradeRec
  BY LifecycleSound DEF TradeSound, TradeEvolves
<1> HIDE DEF l
<1>3. CASE ~l.ok \/ l.t.state = "Closed"
  BY <1>1, <1>3 DEF ComputeTrade, AfterLifecycle, l
<1>4. CASE l.ok /\ l.t.state \in {"New", "Entering"}
  <2>1. Minds(l.t, ComputeEntry(l.t, price).t, U)
    BY <1>1, <1>2, <1>4, BookComputeEntry DEF Minds
  <2>2. Minds(t, ComputeEntry(l.t, price).t, U)
    BY <1>1, <2>1, MindsTrans DEF Minds
  <2>3. QED BY <1>4, <2>2 DEF ComputeTrade, AfterLifecycle, l
<1>5. CASE l.ok /\ l.t.state \notin {"New", "Entering", "Closed"}
  <2>1. Minds(l.t, m, U) /\ m.state = l.t.state /\ m.orders = l.t.orders
    BY <1>1, <1>2, BookMaintained DEF Minds
  <2>2. m \in TradeRec
    BY <1>2, MaintainedEvolves
  <2>3. StillExiting(m)
    BY <1>1, <1>5, <2>1 DEF StillExiting
  <2> HIDE DEF m
  <2>4. Minds(m, ComputeExit(m, price).t, U)
    BY <1>5, <2>1, <2>2, <2>3, BookComputeExit DEF Minds
  <2>5. Minds(l.t, ComputeExit(m, price).t, U)
    BY <2>1, <2>4, MindsTrans DEF Minds
  <2>6. Minds(t, ComputeExit(m, price).t, U)
    BY <1>1, <2>5, MindsTrans DEF Minds
  <2>7. QED BY <1>5, <2>6 DEF ComputeTrade, AfterLifecycle, l, m
<1>6. QED BY <1>3, <1>4, <1>5

(* A call of the strategy keeps the book. *)
LEMMA BookCalls ==
    ASSUME NEW t \in TradeRec, NEW U, TradeBook(t, U), NEW price \in Int \ {0}
    PROVE  /\ Minds(t, CancelActiveOrderAndIdle(t, price).t, U)
           /\ Minds(t, CancelActiveOrderAndTerminate(t, price).t, U)
           /\ \A k \in Kinds : Minds(t, OnOrder(t, k, Resume(t.orders[k], price)).t, U)
<1>1. ASSUME NEW k \in Kinds, IsActive(t.orders[k])
      PROVE  /\ Minds(t, OnOrder(t, k, CancelAndIdle(t.orders[k], price)).t, U)
             /\ Minds(t, OnOrder(t, k, Terminate(t.orders[k], price)).t, U)
  <2> DEFINE o == t.orders[k]
             i == CancelAndIdle(o, price)
             e == Terminate(o, price)
  <2>1. o \in OrderRec /\ Settled(o) /\ Idles(o) /\ ~Fresh(o)
    BY <1>1, TradeOrders DEF TradeBook, IsActive, Fresh
  <2>2. Stays(o, i.o) /\ Idles(i.o) /\ Stays(o, e.o) /\ Idles(e.o)
    BY <2>1, CallsStay DEF OrderMode
  <2> HIDE DEF i, e
  <2>3. Minds(t, OnOrder(t, k, i).t, U) /\ Minds(t, OnOrder(t, k, e).t, U)
    BY <2>1, <2>2, BookWith DEF OnOrder
  <2>4. QED BY <2>3 DEF i, e
<1>2. ASSUME NEW k \in Kinds
      PROVE  Minds(t, OnOrder(t, k, Resume(t.orders[k], price)).t, U)
  <2> DEFINE o == t.orders[k]
             e == Resume(o, price)
  <2>1. o \in OrderRec /\ Settled(o) /\ Idles(o)
    BY TradeOrders DEF TradeBook
  <2>2. Stays(o, e.o) /\ Idles(e.o) /\ (Fresh(o) => Fresh(e.o))
    BY <2>1, CallsStay, ResumeFresh DEF OrderMode, Resume
  <2> HIDE DEF e
  <2>3. Minds(t, OnOrder(t, k, e).t, U)
    BY <2>1, <2>2, BookWith DEF OnOrder
  <2>4. QED BY <2>3 DEF e
<1>3. ActiveOrder(t) # "none" => ActiveOrder(t) \in Kinds /\ IsActive(t.orders[ActiveOrder(t)])
  BY KindsOf DEF ActiveOrder
<1>4. Minds(t, TOk(t).t, U)
  BY MindsRefl DEF TOk
<1>5. QED BY <1>1, <1>2, <1>3, <1>4 DEF CancelActiveOrderAndIdle, CancelActiveOrderAndTerminate

----------------------------------------------------------------------------
(* What a confirmation does after the order's own method *)

(* The status is set, and the trade computed. *)
LEMMA BookStatus ==
    ASSUME NEW c, c.t \in TradeRec, NEW U, TradeBook(c.t, U), NEW s \in TradeStatus,
           NEW price \in Int \ {0}
    PROVE  Minds(c.t, StatusThenCompute(c, s, price).t, U)
<1> DEFINE u == [c.t EXCEPT !.status = s]
<1>1. /\ u \in TradeRec
      /\ u.orders = c.t.orders /\ u.state = c.t.state /\ u.pending = c.t.pending
  BY DEF TradeRec
<1> HIDE DEF u
<1>2. Minds(c.t, u, U)
  BY <1>1, BookFields
<1>3. Minds(u, ComputeTrade(u, price).t, U)
  BY <1>1, <1>2, BookComputeTrade DEF Minds
<1>4. Minds(c.t, ComputeTrade(u, price).t, U)
  BY <1>2, <1>3, MindsTrans DEF Minds
<1>5. QED BY <1>4, MindsRefl DEF StatusThenCompute, u

(* compute after a method that may have failed. *)
LEMMA BookThenCompute ==
    ASSUME NEW c, c.t \in TradeRec, NEW U, TradeBook(c.t, U), NEW price \in Int \ {0}
    PROVE  Minds(c.t, ThenComputeTrade(c, price).t, U)
BY BookComputeTrade, MindsRefl DEF ThenComputeTrade

(* Another quantity for an order: the book does not look at it. *)
LEMMA BookQuantity ==
    ASSUME NEW t \in TradeRec, NEW U, TradeBook(t, U), NEW k \in Kinds, NEW n \in Int
    PROVE  LET u == With(t, k, [t.orders[k] EXCEPT !.qty = n])
           IN  Minds(t, u, U) /\ u \in TradeRec
<1> DEFINE o == t.orders[k]
           p == [o EXCEPT !.qty = n]
<1>1. o \in OrderRec /\ Settled(o) /\ Idles(o)
  BY TradeOrders DEF TradeBook
<1>2. /\ p \in OrderRec
      /\ p.state = o.state /\ p.instr = o.instr /\ p.seq = o.seq /\ p.armed = o.armed
      /\ p.byCancel = o.byCancel /\ p.toReplace = o.toReplace /\ p.created = o.created
      /\ p.toIdle = o.toIdle /\ p.mode = o.mode /\ p.pendingMode = o.pendingMode
      /\ SameStop(o, p)
  BY <1>1 DEF OrderRec, SameStop
<1> HIDE DEF p
<1>3. Stays(o, p)
  BY <1>1, <1>2, OtherFieldsStay
<1>4. Idles(p) /\ (Fresh(o) => Fresh(p))
  BY <1>1, <1>2 DEF Idles, Fresh, HasInstr
<1> HIDE DEF o
<1>5. Minds(t, With(t, k, p), U)
  BY <1>3, <1>4, BookWith DEF o
<1>6. With(t, k, p) \in TradeRec
  BY <1>2 DEF With, TradeRec
<1>7. QED BY <1>5, <1>6 DEF p, o

(* Offering what the entry has bought keeps the book. *)
LEMMA BookOffered ==
    ASSUME NEW c, c.t \in TradeRec, NEW U, TradeBook(c.t, U), NEW k
    PROVE  Minds(c.t, Offered(c, k).t, U) /\ Offered(c, k).t \in TradeRec
<1> DEFINE t == c.t
           n == t.orders["entry"].filled
           u == [t EXCEPT !.orders["exit"].qty = n, !.orders["stop"].qty = n]
           x == With(t, "exit", [t.orders["exit"] EXCEPT !.qty = n])
           v == With(x, "stop", [x.orders["stop"] EXCEPT !.qty = n])
<1>1. n \in Int
  <2>1. t.orders["entry"] \in OrderRec
    BY KindsOf, TradeOrders
  <2>2. QED BY <2>1 DEF OrderRec
<1>2. u \in TradeRec
  BY <1>1, QuantityEvolves DEF TradeEvolves
<1>3. Minds(t, x, U) /\ x \in TradeRec
  BY <1>1, KindsOf, BookQuantity
<1>4. Minds(x, v, U) /\ v \in TradeRec
  BY <1>1, <1>3, KindsOf, BookQuantity DEF Minds
<1>5. Minds(t, v, U)
  BY <1>3, <1>4, MindsTrans DEF Minds
<1>6. u.orders = v.orders /\ u.state = v.state /\ u.pending = v.pending
  <2>1. /\ u.orders["exit"] = [t.orders["exit"] EXCEPT !.qty = n]
        /\ u.orders["stop"] = [t.orders["stop"] EXCEPT !.qty = n]
        /\ u.orders["entry"] = t.orders["entry"]
        /\ u.state = t.state /\ u.pending = t.pending
    BY KindsOf DEF TradeRec
  <2>2. /\ x.orders["exit"] = [t.orders["exit"] EXCEPT !.qty = n]
        /\ x.orders["stop"] = t.orders["stop"] /\ x.orders["entry"] = t.orders["entry"]
        /\ x.state = t.state /\ x.pending = t.pending
    BY KindsOf, WithFields
  <2>3. /\ v.orders["exit"] = x.orders["exit"]
        /\ v.orders["stop"] = [x.orders["stop"] EXCEPT !.qty = n]
        /\ v.orders["entry"] = x.orders["entry"]
        /\ v.state = x.state /\ v.pending = x.pending
    <3>1. x \in TradeRec
      BY <1>3
    <3> HIDE DEF x, n
    <3>2. /\ v.state = x.state /\ v.pending = x.pending
          /\ \A j \in Kinds : v.orders[j] = IF j = "stop" THEN [x.orders["stop"] EXCEPT !.qty = n]
                             ELSE x.orders[j]
      BY <3>1, KindsOf, WithFields
    <3>3. QED BY <3>2, KindsOf
  <2> HIDE DEF u, v, x
  <2>4. \A j \in Kinds : u.orders[j] = v.orders[j]
    BY <2>1, <2>2, <2>3 DEF Kinds
  <2>5. u.orders \in [Kinds -> OrderRec] /\ v.orders \in [Kinds -> OrderRec]
    BY <1>2, <1>4 DEF TradeRec
  <2>6. u.orders = v.orders
    BY <2>4, <2>5
  <2>7. QED BY <2>1, <2>2, <2>3, <2>6
<1> HIDE DEF u, v, x
<1>7. Minds(v, u, U)
  BY <1>4, <1>5, <1>6, BookFields DEF Minds
<1>8. Minds(t, u, U)
  BY <1>5, <1>7, MindsTrans DEF Minds
<1>9. Offered(c, k).t \in {u, c.t}
  BY DEF Offered, TOk, u
<1>10. QED BY <1>2, <1>8, <1>9, MindsRefl

(* The trade fails, and is computed. *)
LEMMA BookFailTrade ==
    ASSUME NEW c, c.t \in TradeRec, NEW U, TradeBook(c.t, U), NEW from, NEW price \in Int \ {0}
    PROVE  Minds(c.t, ThenComputeTrade(FailTrade(c, from), price).t, U)
<1> DEFINE u == [c.t EXCEPT !.status = "Idle"]
           to == IF from = "Entering" THEN "EntryFailed" ELSE "ExitFailed"
           s == SetTradeState(u, to)
           f == FailTrade(c, from)
<1>1. /\ u \in TradeRec
      /\ u.orders = c.t.orders /\ u.state = c.t.state /\ u.pending = c.t.pending
  BY DEF TradeRec, TradeStatus
<1>2. f \in {s, c}
  BY DEF FailTrade
<1>3. to \in {"EntryFailed", "ExitFailed"}
  OBVIOUS
<1> HIDE DEF u, to
<1>4. Minds(c.t, u, U)
  BY <1>1, BookFields
<1>5. Minds(u, s.t, U) /\ s.t \in TradeRec
  <2>1. to \in TradeState
    BY <1>3 DEF TradeState
  <2>2. QED BY <1>1, <1>3, <1>4, <2>1, BookFails, SetTradeStateSound
    DEF Minds, TradeSound, TradeEvolves
<1>6. Minds(c.t, s.t, U)
  BY <1>4, <1>5, MindsTrans DEF Minds
<1> HIDE DEF s, f
<1>7. Minds(c.t, f.t, U) /\ f.t \in TradeRec
  BY <1>2, <1>5, <1>6, MindsRefl
<1>8. Minds(f.t, ThenComputeTrade(f, price).t, U)
  BY <1>7, BookThenCompute DEF Minds
<1>9. Minds(c.t, ThenComputeTrade(f, price).t, U)
  BY <1>7, <1>8, MindsTrans DEF Minds
<1>10. QED BY <1>9 DEF f

----------------------------------------------------------------------------
(* What happened to an order that was out *)

(* The last of an order of which something was out may be that it ended, so the
   trade forgets it; until then it may be in any state.                      *)
LEMMA BookEvent ==
    ASSUME NEW t \in TradeRec, NEW U, TradeBook(t, U), NEW k \in Kinds, k \in U,
           NEW V, V \subseteq U, NEW p, Settled(p), Idles(p), Ashore(p) => k \notin V
    PROVE  TradeBook(With(t, k, p), V)
<1> DEFINE u == With(t, k, p)
           o == t.orders[k]
<1>1. /\ u.state = t.state /\ u.pending = t.pending
      /\ \A j \in Kinds : u.orders[j] = IF j = k THEN p ELSE t.orders[j]
  BY WithFields
<1> HIDE DEF u
<1>2. ~Ashore(o)
  BY DEF TradeBook
<1>3. \A j \in Kinds : Settled(u.orders[j]) /\ Idles(u.orders[j]) /\ (Ashore(u.orders[j]) => j \notin V)
  BY <1>1 DEF TradeBook
<1>4. u.pending = "exit" \/ "exit" \in V => Dormant(u.orders["stop"]) /\ "stop" \notin V
  BY <1>1, KindsOf DEF TradeBook
<1>5. u.pending = "stop" => "exit" \notin V
  BY <1>1 DEF TradeBook
<1>6. u.state \in {"New", "Entering"} =>
          Fresh(u.orders["exit"]) /\ Fresh(u.orders["stop"]) /\ u.pending \in {"none", "entry"}
  BY <1>1, <1>2, KindsOf DEF TradeBook, Fresh, Ashore
<1>7. u.state = "Exiting" =>
         k # "entry" /\ u.orders["entry"].state = "Finished" /\ ~u.orders["entry"].byCancel
  BY <1>1, <1>2, KindsOf DEF TradeBook, Ashore
<1>8. u.state # "Closed"
  BY <1>1 DEF TradeBook, Quiet
<1>9. ASSUME u.state = "Exiting", NEW j \in {"exit", "stop"}, u.orders[j].state = "Finished"
      PROVE  Quiet(u, V)
  <2>1. j = k
    <3>1. ~Quiet(t, U)
      BY DEF Quiet
    <3>2. t.orders[j].state # "Finished"
      BY <1>1, <1>9, <3>1 DEF TradeBook
    <3>3. j \in Kinds
      BY DEF Kinds
    <3>4. QED BY <1>1, <1>9, <3>2, <3>3
  <2>2. p.state = "Finished" /\ Ashore(p)
    BY <1>1, <1>9, <2>1 DEF Ashore
  <2>3. \A i \in Kinds : i \notin V
    <3>1. Ashore(t.orders["entry"]) /\ "entry" \notin U
      BY <1>1, <1>9, KindsOf DEF TradeBook, Ashore
    <3>2. "exit" \in U => "stop" \notin U
      BY DEF TradeBook
    <3>3. QED BY <2>1, <2>2, <3>1, <3>2 DEF Kinds
  <2>4. t.pending \in Kinds \cup {"none"}
    BY DEF TradeRec
  <2>5. t.pending \in {"none", "entry", k}
    BY <2>1, <2>4 DEF Kinds, TradeBook
  <2>6. u.pending # "none" => u.orders[u.pending].state = "Finished"
    BY <1>1, <1>7, <1>9, <2>2, <2>5, KindsOf
  <2>7. QED BY <2>3, <2>6 DEF Quiet
<1>10. TradeBook(u, V)
  BY <1>3, <1>4, <1>5, <1>6, <1>7, <1>8, <1>9 DEF TradeBook
<1>11. QED BY <1>10 DEF u

(* An order that was to be opened failed to; nothing of it is out. *)
LEMMA BookRefused ==
    ASSUME NEW t \in TradeRec, NEW U, TradeBook(t, U), NEW k \in Kinds, k \notin U,
           t.orders[k].state = "PendingOpen", NEW p, Idles(p),
           Stays([t.orders[k] EXCEPT !.state = "OpenFailed"], p)
    PROVE  TradeBook(With(t, k, p), U)
<1> DEFINE u == With(t, k, p)
           o == t.orders[k]
           q == [o EXCEPT !.state = "OpenFailed"]
<1>1. /\ u.state = t.state /\ u.pending = t.pending
      /\ \A j \in Kinds : u.orders[j] = IF j = k THEN p ELSE t.orders[j]
  BY WithFields
<1> HIDE DEF u
<1>2. q.state = "OpenFailed" /\ q.instr = o.instr
  BY TradeOrders DEF OrderRec
<1>3. Settled(p) /\ (Dormant(q) => Dormant(p)) /\ p.state # "Finished"
  BY <1>2 DEF Stays
<1>4. Dormant(o) => Dormant(p)
  BY <1>2, <1>3 DEF Dormant
<1>5. \A j \in Kinds : Settled(u.orders[j]) /\ Idles(u.orders[j]) /\ (Ashore(u.orders[j]) => j \notin U)
  BY <1>1, <1>3 DEF TradeBook
<1>6. u.pending = "exit" \/ "exit" \in U => Dormant(u.orders["stop"]) /\ "stop" \notin U
  BY <1>1, <1>4, KindsOf DEF TradeBook
<1>7. u.state \in {"New", "Entering"} =>
          Fresh(u.orders["exit"]) /\ Fresh(u.orders["stop"]) /\ u.pending \in {"none", "entry"}
  BY <1>1, KindsOf DEF TradeBook, Fresh
<1>8. u.state = "Exiting" => u.orders["entry"].state = "Finished" /\ ~u.orders["entry"].byCancel
  BY <1>1, KindsOf DEF TradeBook
<1>9. \A j \in Kinds : u.orders[j].state = "Finished" <=> t.orders[j].state = "Finished"
  BY <1>1, <1>3
<1>10. Quiet(t, U) => Quiet(u, U)
  <2>1. t.pending \in Kinds \cup {"none"}
    BY DEF TradeRec
  <2>2. QED BY <1>1, <1>9, <2>1 DEF Quiet
<1>11. u.state = "Exiting" /\ (\E j \in {"exit", "stop"} : u.orders[j].state = "Finished")
          => Quiet(u, U)
  BY <1>1, <1>9, <1>10, KindsOf DEF TradeBook
<1>12. (u.pending = "stop" => "exit" \notin U) /\ (u.state = "Closed" => Quiet(u, U))
  BY <1>1, <1>10 DEF TradeBook
<1>13. TradeBook(u, U)
  BY <1>5, <1>6, <1>7, <1>8, <1>11, <1>12 DEF TradeBook
<1>14. QED BY <1>13 DEF u

(* The result of the instruction that runs in order k keeps the book; a failure
   leaves the order terminated, and not asking to be opened.                  *)
LEMMA BookExecution ==
    ASSUME NEW t \in TradeRec, NEW U, TradeBook(t, U), NEW k \in Kinds,
           t.orders[k].instr.st = "Running", NEW success \in BOOLEAN, NEW price \in Int \ {0}
    PROVE  LET u == ConfirmExecution(t, k, t.orders[k].instr.id, success, price).t
           IN  /\ Minds(t, u, U)
               /\ ~success => u.orders[k].term /\ u.orders[k].instr.kind # "CreateOrder"
<1> DEFINE o == t.orders[k]
           r == ConfirmInstructionExecution(o, o.instr.id, success, price)
           c == OnOrder(t, k, r)
           p == [c.t EXCEPT !.pending = "none"]
           l == Lifecycle(p, price)
           m == ComputeTrade(l.t, price)
<1>1. o \in OrderRec /\ Settled(o) /\ Idles(o) /\ ~Fresh(o)
  BY TradeOrders DEF TradeBook, Fresh, HasInstr, OrderRec, NoInstr, Instruction, InstructionKind
<1>2. /\ Stays(o, r.o) /\ Idles(r.o)
      /\ ~success => r.o.term /\ r.o.instr.kind # "CreateOrder"
  BY <1>1, ExecutionMoves
<1>3. r.o \in OrderRec
  BY <1>1, ExecutionEnds
<1> HIDE DEF r
<1>4. Minds(t, c.t, U)
  BY <1>1, <1>2, BookWith DEF OnOrder
<1>5. c.t \in TradeRec /\ c.t.orders[k] = r.o
  BY <1>3, WithFields DEF OnOrder, With, TradeRec
<1> HIDE DEF c
<1>6. p \in TradeRec /\ p.orders = c.t.orders /\ p.pending = "none" /\ p.state = c.t.state
      /\ TradeEvolves(c.t, p)
  <2>1. p \in TradeRec /\ p.orders = c.t.orders /\ p.pending = "none" /\ p.state = c.t.state
    BY <1>5 DEF TradeRec
  <2>2. QED BY <1>5, <2>1, PendingEvolves
<1>7. Minds(c.t, p, U)
  <2>1. TradeBook(p, U)
    BY <1>4, <1>6 DEF Minds, TradeBook, Quiet
  <2>2. TradeStays(c.t, p)
    BY <1>4, <1>5, <1>6, MindsRefl DEF Minds, TradeStays
  <2>3. QED BY <2>1, <2>2 DEF Minds
<1> HIDE DEF p
<1>8. Minds(p, l.t, U) /\ l.t \in TradeRec /\ TradeEvolves(p, l.t)
  BY <1>6, <1>7, BookLifecycle, LifecycleSound DEF Minds, TradeSound, TradeEvolves
<1> HIDE DEF l
<1>9. Minds(l.t, m.t, U) /\ TradeEvolves(l.t, m.t)
  BY <1>8, BookComputeTrade, ComputeTradeSound DEF Minds, TradeSound
<1> HIDE DEF m
<1>10. Minds(t, m.t, U)
  <2>1. Minds(p, m.t, U)
    BY <1>8, <1>9, MindsTrans DEF Minds
  <2>2. Minds(c.t, m.t, U)
    BY <1>7, <2>1, MindsTrans DEF Minds
  <2>3. QED BY <1>4, <2>2, MindsTrans DEF Minds
<1>11. ~success => m.t.orders[k].term /\ m.t.orders[k].instr.kind # "CreateOrder"
  <2>1. TradeEvolves(c.t, m.t)
    BY <1>6, <1>8, <1>9, TradeTrans
  <2>2. QED BY <1>2, <1>5, <2>1 DEF TradeEvolves, Evolves, Keeps, OpensNothing
<1>12. ConfirmExecution(t, k, o.instr.id, success, price) \in {c, m}
  BY DEF ConfirmExecution, c, m, l, p, r
<1>13. QED BY <1>2, <1>4, <1>5, <1>10, <1>11, <1>12

----------------------------------------------------------------------------
(* The instruction of the pending order is sent *)

(* What marking the instruction of an order as Running changes. *)
LEMMA MarkFields ==
    ASSUME NEW o \in OrderRec, o.instr.st = "New", Settled(o), Idles(o)
    PROVE  LET p == [o EXCEPT !.instr.st = "Running"]
           IN  /\ Settled(p) /\ Idles(p) /\ p.state = o.state /\ p.seq = o.seq
               /\ p.instr.st = "Running" /\ p.instr.kind = o.instr.kind
               /\ p.stop = o.stop /\ p.instr.stop = o.instr.stop /\ p.created = o.created
               /\ p.byCancel = o.byCancel /\ p.toReplace = o.toReplace /\ p.term = o.term
               /\ o.instr.kind = "CreateOrder" => p.state = "PendingOpen" /\ ~Ashore(p) /\ Ashore(o)
               /\ o.instr.kind # "CreateOrder" => (Ashore(p) <=> Ashore(o))
               /\ (Dormant(o) <=> Dormant(p)) /\ ~Fresh(o)
<1> DEFINE p == [o EXCEPT !.instr.st = "Running"]
<1>1. o.instr \in Instruction
  BY DEF OrderRec, NoInstr
<1>2. /\ p.state = o.state /\ p.seq = o.seq /\ p.instr.st = "Running"
      /\ p.instr.kind = o.instr.kind /\ p.byCancel = o.byCancel /\ p.toReplace = o.toReplace
      /\ p.term = o.term /\ p.toIdle = o.toIdle /\ p.armed = o.armed /\ p.created = o.created
      /\ p.instr.stop = o.instr.stop /\ SameStop(o, p)
  BY <1>1 DEF OrderRec, Instruction, SameStop
<1> HIDE DEF p
<1>3. HasInstr(o)
  BY <1>1 DEF HasInstr, Instruction, InstructionKind
<1>4. Settled(p) /\ Idles(p)
  BY <1>2, <1>3 DEF Settled, Idles, CreateNew, ReplaceNew, HasInstr, SameStop
<1>5. o.instr.kind = "CreateOrder" => p.state = "PendingOpen" /\ ~Ashore(p) /\ Ashore(o)
  BY <1>2 DEF Settled, Ashore, CreateNew
<1>6. o.instr.kind # "CreateOrder" => (Ashore(p) <=> Ashore(o))
  BY <1>2 DEF Ashore, CreateNew
<1>7. (Dormant(o) <=> Dormant(p)) /\ ~Fresh(o)
  BY <1>2, <1>3 DEF Dormant, Fresh
<1>8. QED BY <1>2, <1>4, <1>5, <1>6, <1>7 DEF p, SameStop

(* Sending the pending order's instruction keeps the book: an order that is to
   be opened is the only way out that is open.                               *)
LEMMA BookMark ==
    ASSUME NEW t \in TradeRec, NEW U, TradeBook(t, U), NEW k \in Kinds, t.pending = k,
           t.orders[k].instr.st = "New", NEW u, u.state = t.state, u.pending = t.pending,
           \A j \in Kinds : u.orders[j] = IF j = k THEN [t.orders[k] EXCEPT !.instr.st = "Running"]
                                          ELSE t.orders[j],
           NEW V, V \subseteq U \cup {k},
           t.orders[k].instr.kind # "CreateOrder" => V \subseteq U
    PROVE  TradeBook(u, V)
<1> DEFINE o == t.orders[k]
           p == [o EXCEPT !.instr.st = "Running"]
<1>1. o \in OrderRec /\ Settled(o) /\ Idles(o)
  BY TradeOrders DEF TradeBook
<1>2. /\ Settled(p) /\ Idles(p) /\ p.state = o.state /\ p.byCancel = o.byCancel
      /\ o.instr.kind = "CreateOrder" => p.state = "PendingOpen" /\ ~Ashore(p)
      /\ o.instr.kind # "CreateOrder" => (Ashore(p) <=> Ashore(o))
      /\ (Dormant(o) <=> Dormant(p)) /\ ~Fresh(o)
  BY <1>1, MarkFields
<1> HIDE DEF p
<1>3. \A j \in Kinds : u.orders[j] = IF j = k THEN p ELSE t.orders[j]
  BY DEF p
<1>4. \A j \in Kinds : /\ Settled(u.orders[j]) /\ Idles(u.orders[j])
                       /\ u.orders[j].state = t.orders[j].state
                       /\ u.orders[j].byCancel = t.orders[j].byCancel
                       /\ Dormant(t.orders[j]) => Dormant(u.orders[j])
                       /\ Ashore(u.orders[j]) => j \notin V
  BY <1>2, <1>3 DEF TradeBook
<1>5. Quiet(t, U) => Quiet(u, V)
  <2>1. ASSUME Quiet(t, U) PROVE o.instr.kind # "CreateOrder"
    <3>1. k # "none"
      BY DEF Kinds
    <3>2. o.state = "Finished"
      BY <2>1, <3>1 DEF Quiet
    <3>3. QED BY <1>2, <3>2
  <2>2. QED BY <1>4, <2>1 DEF Quiet
<1>6. u.pending = "exit" \/ "exit" \in V => Dormant(u.orders["stop"]) /\ "stop" \notin V
  <2>1. ASSUME u.pending = "exit" \/ "exit" \in V
        PROVE  t.pending = "exit" \/ "exit" \in U
    BY <2>1
  <2>2. ASSUME t.pending = "exit" \/ "exit" \in U
        PROVE  Dormant(t.orders["stop"]) /\ "stop" \notin U
    BY <2>2 DEF TradeBook
  <2>3. ASSUME u.pending = "exit" \/ "exit" \in V PROVE k # "stop"
    BY <2>1, <2>2, <2>3 DEF TradeBook
  <2>4. QED BY <1>4, <2>1, <2>2, <2>3, KindsOf
<1>7. u.pending = "stop" => "exit" \notin V
  BY DEF TradeBook
<1>8. u.state \in {"New", "Entering"} =>
          Fresh(u.orders["exit"]) /\ Fresh(u.orders["stop"]) /\ u.pending \in {"none", "entry"}
  BY <1>2, <1>3, KindsOf DEF TradeBook
<1>9. /\ u.state = "Exiting" => u.orders["entry"].state = "Finished" /\ ~u.orders["entry"].byCancel
      /\ u.state = "Exiting" /\ (\E j \in {"exit", "stop"} : u.orders[j].state = "Finished")
            => Quiet(u, V)
      /\ u.state = "Closed" => Quiet(u, V)
  BY <1>4, <1>5, KindsOf DEF TradeBook
<1>10. QED BY <1>4, <1>6, <1>7, <1>8, <1>9 DEF TradeBook

----------------------------------------------------------------------------
(* How much the orders of a trade are for *)

(* The states a method of the trade takes it to, where no order failed to open. *)
Proceeds(t, u) ==
    \/ u.state = t.state
    \/ t.state \notin {"EntryFailed", "ExitFailed"} /\ u.state \in {"Entering", "Exiting", "Closed"}

(* No method of a trade whose entry did not fail to open changes what its orders
   are for, nor does it fail.                                                   *)
TradeWeighs(t, u) ==
    /\ \A k \in Kinds : Weighs(t.orders[k], u.orders[k])
    /\ Proceeds(t, u)

(* A trade weighs what it weighs. *)
LEMMA TradeWeighsRefl == ASSUME NEW t PROVE TradeWeighs(t, t)
BY WeighsRefl DEF TradeWeighs, Proceeds

(* What two methods in a row leave, both leave. *)
LEMMA TradeWeighsTrans ==
    ASSUME NEW t, NEW u, NEW v, TradeWeighs(t, u), TradeWeighs(u, v)
    PROVE  TradeWeighs(t, v)
<1>1. \A k \in Kinds : Weighs(t.orders[k], v.orders[k])
  BY WeighsTrans DEF TradeWeighs
<1>2. Proceeds(t, v)
  BY DEF TradeWeighs, Proceeds
<1>3. QED BY <1>1, <1>2 DEF TradeWeighs

(* The fields of the trade itself. *)
LEMMA WeighsFields ==
    ASSUME NEW t, NEW u, u.orders = t.orders, Proceeds(t, u)
    PROVE  TradeWeighs(t, u)
BY WeighsRefl DEF TradeWeighs

(* One order goes through a method. *)
LEMMA WeighsWith ==
    ASSUME NEW t \in TradeRec, NEW k \in Kinds, NEW p, Weighs(t.orders[k], p)
    PROVE  TradeWeighs(t, With(t, k, p))
<1>1. /\ With(t, k, p).state = t.state
      /\ \A j \in Kinds : With(t, k, p).orders[j] = IF j = k THEN p ELSE t.orders[j]
  BY WithFields
<1>2. QED BY <1>1, WeighsRefl DEF TradeWeighs, Proceeds

(* Its compute, which keeps the trade's type. *)
LEMMA WeighsComputeOne ==
    ASSUME NEW t \in TradeRec, NEW k \in Kinds, NEW price \in Int
    PROVE  LET u == OnOrder(t, k, Compute(t.orders[k], price)).t
           IN  TradeWeighs(t, u) /\ u \in TradeRec /\ u.state = t.state
<1>1. t.orders[k] \in OrderRec
  BY TradeOrders
<1>2. TradeWeighs(t, OnOrder(t, k, Compute(t.orders[k], price)).t)
  BY <1>1, WeighsCompute, WeighsWith DEF OnOrder
<1>3. OnOrder(t, k, Compute(t.orders[k], price)).t \in TradeRec
  BY <1>1, SoundCalls, OnOrderSound DEF TradeSound, TradeEvolves
<1>4. QED BY <1>2, <1>3, WithFields DEF OnOrder

(* Closing a trade whose entry was cancelled. *)
LEMMA WeighsEntryCancelled ==
    ASSUME NEW t \in TradeRec, NEW price \in Int
    PROVE  TradeWeighs(t, EntryCancelled(t, price).t)
<1> DEFINE r == Terminate(t.orders["entry"], price)
           c == OnOrder(t, "entry", r)
           u == [c.t EXCEPT !.reason = "Cancelled"]
           v == [u EXCEPT !.state = "Closed"]
<1>1. t.orders["entry"] \in OrderRec
  BY TradeOrders, KindsOf
<1>2. TradeWeighs(t, c.t) /\ c.t.state = t.state
  BY <1>1, KindsOf, WeighsCalls, WeighsWith, WithFields DEF OnOrder
<1>3. c.t \in TradeRec
  BY <1>1, KindsOf, SoundCalls, OnOrderSound DEF TradeSound, TradeEvolves
<1> HIDE DEF c
<1>4. /\ u.orders = c.t.orders /\ u.state = c.t.state
      /\ v.orders = c.t.orders /\ v.state = "Closed"
  BY <1>3 DEF TradeRec
<1>5. EntryCancelled(t, price).t \in {c.t, u} \/
         (EntryCancelled(t, price).t = v /\ u.state \notin {"EntryFailed", "ExitFailed"})
  BY DEF EntryCancelled, SetTradeState, TradeMoves, TOk, TErr, c
<1> HIDE DEF u, v
<1>6. TradeWeighs(c.t, EntryCancelled(t, price).t)
  BY <1>4, <1>5, WeighsFields, WeighsRefl DEF Proceeds, TradeWeighs
<1>7. QED BY <1>2, <1>6, TradeWeighsTrans

(* compute_lifecycle, where the entry has not failed or the trade has already. *)
LEMMA WeighsLifecycle ==
    ASSUME NEW t \in TradeRec, NEW price \in Int,
           IsFailed(t.orders["entry"]) => t.state = "EntryFailed"
    PROVE  TradeWeighs(t, Lifecycle(t, price).t)
<1> DEFINE f == IF IsFailed(t.orders["entry"]) THEN SetTradeState(t, "EntryFailed") ELSE TOk(t)
           d == EntryDone(t)
           x == ExitDone(d)
<1>1. f = TOk(t)
  <2>1. t.state = "EntryFailed" => [t EXCEPT !.state = "EntryFailed"] = t
    BY DEF TradeRec
  <2>2. QED BY <2>1 DEF SetTradeState
<1> HIDE DEF f
<1>2. Lifecycle(t, price).t \in {EntryCancelled(t, price).t, x}
  <2>1. f.ok /\ f.t = t
    BY <1>1 DEF TOk
  <2>2. QED BY <2>1 DEF Lifecycle, TOk, f
<1>3. d.orders = t.orders /\ (d.state = t.state \/ (t.state = "Entering" /\ d.state = "Exiting"))
      /\ d \in TradeRec
  BY DoneEvolves DEF EntryDone, TradeRec, TradeEvolves
<1> HIDE DEF d
<1>4. x.orders = d.orders /\ (x.state = d.state \/ (d.state = "Exiting" /\ x.state = "Closed"))
  BY <1>3 DEF ExitDone, TradeRec
<1> HIDE DEF x
<1>5. TradeWeighs(t, x)
  BY <1>3, <1>4, WeighsFields DEF Proceeds
<1>6. QED BY <1>2, <1>5, WeighsEntryCancelled

(* Choosing which of the two exits may speak. *)
LEMMA WeighsArbitrate ==
    ASSUME NEW t \in TradeRec, NEW price \in Int
    PROVE  TradeWeighs(t, Arbitrate(t, price).t)
<1> DEFINE stop == t.orders["stop"]
           w == CancelPendingInstruction(stop, price)
           i == CancelAndIdle(w.o, price)
           u == With(t, "stop", w.o)
           v == [u EXCEPT !.pending = "exit"]
           s == [t EXCEPT !.pending = "stop"]
<1>1. stop \in OrderRec /\ w.o \in OrderRec /\ Weighs(stop, w.o)
  BY TradeOrders, KindsOf, WeighsWithdraw, DoneCalls DEF Done, Keeps
<1> HIDE DEF w
<1>2. Weighs(stop, i.o)
  BY <1>1, WeighsCalls, WeighsTrans
<1>3. TradeWeighs(t, u) /\ TradeWeighs(t, OnOrder(t, "stop", w).t)
      /\ TradeWeighs(t, OnOrder(t, "stop", i).t)
  BY <1>1, <1>2, KindsOf, WeighsWith DEF OnOrder
<1>4. u \in TradeRec
  BY <1>1 DEF With, TradeRec
<1> HIDE DEF i, u
<1>5. TradeWeighs(u, v) /\ TradeWeighs(t, s)
  <2>1. v.orders = u.orders /\ v.state = u.state /\ s.orders = t.orders /\ s.state = t.state
    BY <1>4 DEF TradeRec
  <2>2. QED BY <2>1, WeighsFields DEF Proceeds
<1>6. TradeWeighs(t, v)
  BY <1>3, <1>5, TradeWeighsTrans
<1>7. Arbitrate(t, price).t \in {s, t, v, OnOrder(t, "stop", w).t, OnOrder(t, "stop", i).t}
  BY DEF Arbitrate, YieldToExit, TOk, w, i, u
<1>8. QED BY <1>3, <1>5, <1>6, <1>7, TradeWeighsRefl

(* compute of the entry, and of the exits. *)
LEMMA WeighsComputeBoth ==
    ASSUME NEW t \in TradeRec, NEW price \in Int
    PROVE  /\ t.state \in {"New", "Entering"} => TradeWeighs(t, ComputeEntry(t, price).t)
           /\ TradeWeighs(t, ComputeExit(t, price).t)
<1>1. ASSUME t.state \in {"New", "Entering"} PROVE TradeWeighs(t, ComputeEntry(t, price).t)
  <2> DEFINE c == OnOrder(t, "entry", Compute(t.orders["entry"], price))
             p == IF HasInstr(c.t.orders["entry"]) THEN "entry" ELSE "none"
             f == [c.t EXCEPT !.state = "Entering", !.pending = p]
  <2>1. TradeWeighs(t, c.t) /\ c.t \in TradeRec /\ c.t.state = t.state
    BY KindsOf, WeighsComputeOne
  <2> HIDE DEF c
  <2>2. f.orders = c.t.orders /\ f.state = "Entering"
    BY <2>1 DEF TradeRec
  <2>3. ComputeEntry(t, price).t \in {c.t, f}
    BY DEF ComputeEntry, HandOver, TOk, c
  <2> HIDE DEF f
  <2>4. TradeWeighs(c.t, f)
    BY <1>1, <2>1, <2>2, WeighsFields DEF Proceeds
  <2>5. QED BY <2>1, <2>3, <2>4, TradeWeighsTrans
<1>2. TradeWeighs(t, ComputeExit(t, price).t)
  <2> DEFINE x == OnOrder(t, "exit", Compute(t.orders["exit"], price))
             s == OnOrder(x.t, "stop", Compute(x.t.orders["stop"], price))
             c == ThenStop(x, price)
  <2>1. TradeWeighs(t, x.t) /\ x.t \in TradeRec
    BY KindsOf, WeighsComputeOne
  <2> HIDE DEF x
  <2>2. TradeWeighs(x.t, s.t) /\ s.t \in TradeRec
    BY <2>1, KindsOf, WeighsComputeOne
  <2>3. c \in {s, x}
    BY DEF ThenStop
  <2> HIDE DEF s, c
  <2>4. TradeWeighs(t, c.t) /\ c.t \in TradeRec
    BY <2>1, <2>2, <2>3, TradeWeighsTrans
  <2>5. TradeWeighs(t, Arbitrate(c.t, price).t)
    BY <2>4, WeighsArbitrate, TradeWeighsTrans
  <2>6. ComputeExit(t, price).t \in {c.t, Arbitrate(c.t, price).t}
    BY DEF ComputeExit, ThenArbitrate, c, x
  <2>7. QED BY <2>4, <2>5, <2>6
<1>3. QED BY <1>1, <1>2

(* compute *)
LEMMA WeighsComputeTrade ==
    ASSUME NEW t \in TradeRec, NEW price \in Int,
           IsFailed(t.orders["entry"]) => t.state = "EntryFailed"
    PROVE  TradeWeighs(t, ComputeTrade(t, price).t)
<1> DEFINE l == Lifecycle(t, price)
           m == Maintained(l.t)
<1>1. TradeWeighs(t, l.t) /\ l.t \in TradeRec
  BY WeighsLifecycle, LifecycleSound DEF TradeSound, TradeEvolves
<1> HIDE DEF l
<1>2. m \in TradeRec /\ TradeWeighs(l.t, m)
  <2>1. m.orders = l.t.orders /\ m.state = l.t.state
    BY <1>1 DEF Maintained, TradeRec
  <2>2. QED BY <1>1, <2>1, MaintainedEvolves, WeighsFields DEF Proceeds
<1> HIDE DEF m
<1>3. TradeWeighs(t, ComputeExit(m, price).t)
  BY <1>1, <1>2, WeighsComputeBoth, TradeWeighsTrans
<1>4. l.t.state \in {"New", "Entering"} => TradeWeighs(t, ComputeEntry(l.t, price).t)
  BY <1>1, WeighsComputeBoth, TradeWeighsTrans
<1>5. ComputeTrade(t, price).t = l.t
         \/ ComputeTrade(t, price).t = ComputeExit(m, price).t
         \/ (l.t.state \in {"New", "Entering"}
               /\ ComputeTrade(t, price).t = ComputeEntry(l.t, price).t)
  BY DEF ComputeTrade, AfterLifecycle, l, m
<1>6. QED BY <1>1, <1>3, <1>4, <1>5

(* The calls of a strategy. *)
LEMMA WeighsTradeCalls ==
    ASSUME NEW t \in TradeRec, NEW price \in Int
    PROVE  /\ TradeWeighs(t, CancelActiveOrderAndIdle(t, price).t)
           /\ TradeWeighs(t, CancelActiveOrderAndTerminate(t, price).t)
           /\ \A k \in Kinds : TradeWeighs(t, OnOrder(t, k, Resume(t.orders[k], price)).t)
<1>1. ASSUME NEW k \in Kinds
      PROVE  /\ TradeWeighs(t, OnOrder(t, k, CancelAndIdle(t.orders[k], price)).t)
             /\ TradeWeighs(t, OnOrder(t, k, Terminate(t.orders[k], price)).t)
             /\ TradeWeighs(t, OnOrder(t, k, Resume(t.orders[k], price)).t)
  BY TradeOrders, WeighsCalls, WeighsWith DEF OnOrder
<1>2. ActiveOrder(t) # "none" => ActiveOrder(t) \in Kinds
  BY KindsOf DEF ActiveOrder
<1>3. TradeWeighs(t, TOk(t).t)
  BY TradeWeighsRefl DEF TOk
<1>4. QED BY <1>1, <1>2, <1>3 DEF CancelActiveOrderAndIdle, CancelActiveOrderAndTerminate
=============================================================================
