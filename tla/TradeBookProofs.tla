-------------------------- MODULE TradeBookProofs --------------------------
(***************************************************************************)
(* The book of a trade: which of its orders are at the exchange, or may    *)
(* be, by the requests under way, the events not yet applied and the       *)
(* orders on the exchange's book; and what the trade, which sees none of   *)
(* this, knows of it from the states of its own orders (TradeLedger).  It  *)
(* is kept by every step, and from it follow OneWayOut, NoDoubleCreate,    *)
(* ClosedIsQuiet and StopNeverRetreats, for every value of the constants.  *)
(* While errors end the worker, the trade agrees with the book as far as   *)
(* it has seen the events (Agreed), from which follows BookAgreement.      *)
(***************************************************************************)
EXTENDS TradeExchangeProofs

(* The places of the events of an order. *)
Places(k, E) == {n \in 1..Len(E) : E[n].order = k}

Asked(k, kind, Q) == \E q \in Q : q.order = k /\ q.kind = kind

(* A cancellation that is followed at once by its replacement. *)
IsPair(E, n) ==
    /\ E[n].kind = "Cancelled" /\ n + 1 \in 1..Len(E)
    /\ E[n + 1].order = E[n].order /\ E[n + 1].kind = "New"

Second(E, n) == n > 1 /\ IsPair(E, n - 1)

EndsOrder(e) == e.kind \in {"Cancelled", "Expired"} \/ (e.kind = "Fill" /\ e.full)

(* The order k, x at the exchange, is on the book or about to be. *)
Live(k, x, Q) == x.status = "open" \/ Asked(k, "CreateOrder", Q)

(* It is, or some event of it was not told yet. *)
Out(k, x, E, Q) == Live(k, x, Q) \/ \E n \in Places(k, E) : E[n].kind # "Rejected"

(* Two of an order, an event of it and the order at the exchange say the same
   of where it stands: its number, and its stop.                             *)
Alike(a, b) == a.seq = b.seq /\ a.stop = b.stop

(* The order in which the events of an order k come. *)
Pipe(k, x, E, Q) ==
    /\ Asked(k, "CreateOrder", Q) => x.status # "open" /\ Places(k, E) = {}
    /\ \A n \in Places(k, E) :
          /\ EndsOrder(E[n]) => IsPair(E, n) \/ (~Live(k, x, Q) /\ \A m \in Places(k, E) : m <= n)
          /\ E[n].kind = "New" => Second(E, n) \/ \A m \in Places(k, E) : n <= m
          /\ E[n].kind = "New" /\ x.status = "open" => Alike(E[n], x)
          /\ E[n].kind = "Rejected" => ~Live(k, x, Q) /\ \A m \in Places(k, E) : m = n
          /\ x.status # "open" /\ (\A m \in Places(k, E) : m <= n)
                => E[n].kind = "Rejected" \/ EndsOrder(E[n])
    /\ \A n, m \in Places(k, E) : IsPair(E, n) /\ IsPair(E, m) => n = m

(* The instruction to open o was refused: its failure is reported, or was. *)
Refused(k, o, R) ==
    \/ /\ o.instr.kind = "CreateOrder" /\ o.instr.st = "Running"
       /\ [order |-> k, id |-> o.instr.id, success |-> FALSE] \in R
    \/ o.term /\ o.instr.kind # "CreateOrder"

(* Where the order o of kind k wants its stop, and where it stands or is asked
   to: a stop that replaces another is not below it.                          *)
Stops(k, o, x, Q) ==
    /\ \A q \in OutOf(k, Q) : q.kind = "CreateOrder" => q.stop = o.stop
    /\ x.status = "open" =>
          /\ o.state = "PendingOpen" => x.stop = o.stop
          /\ \A q \in OutOf(k, Q) : q.kind = "CancelReplaceOrder" => q.stop >= o.stop

(* What the order o of kind k knows of them. *)
OrderLedger(k, o, x, E, Q, R) ==
    /\ Asked(k, "CreateOrder", Q) => o.state = "PendingOpen"
    /\ \A n \in Places(k, E) :
          /\ E[n].kind = "Rejected" => Refused(k, o, R)
          /\ IsPair(E, n) =>
                /\ o.toReplace /\ o.state = "PendingCancel" /\ o.instr.st # "New"
                /\ E[n].seq = o.seq /\ ~Asked(k, "CancelReplaceOrder", Q)
          /\ E[n].kind = "New" =>
                \/ Second(E, n)
                \/ o.state = "PendingOpen"
                \/ o.state = "CancelledAndPendingReplace" /\ o.instr.st # "New"
    /\ x.status = "open" /\ (Asked(k, "CancelReplaceOrder", Q) \/ ReplaceNew(o)) =>
          o.toReplace /\ o.state = "PendingCancel"
    /\ x.status = "open" /\ o.state \in OnBook /\ (\A n \in Places(k, E) : ~IsPair(E, n)) =>
          Alike(x, o)
    /\ Stops(k, o, x, Q)

(* The orders of which something is out. *)
OutOrders(X, E, Q) == {k \in Kinds : Out(k, X[k], E, Q)}

(* What the trade, while it is tracked, knows of its orders. *)
Known(t, X, E, Q, R) ==
    /\ TradeBook(t, OutOrders(X, E, Q))
    /\ \A k \in Kinds : OrderLedger(k, t.orders[k], X[k], E, Q, R)

(* The whole book: the exchange's part, and the trade's while it is tracked. *)
TradeLedger(t, X, E, Q, R) ==
    /\ \A k \in Kinds : Pipe(k, X[k], E, Q)
    /\ t.tracked => Known(t, X, E, Q, R)
    /\ ~t.tracked => OutOrders(X, E, Q) = {}

(* The first event of an order that the trade has not seen. *)
IsFirst(k, E, n) == n \in Places(k, E) /\ \A m \in Places(k, E) : n <= m

(* Whether the order o of kind k takes itself to be on the book is what was
   true before the first event it has not seen, which announces or refuses an
   order that was not there, and fills or ends one that was.                 *)
Agrees(k, o, x, E) ==
    /\ o.created => o.state \in OnBook
    /\ Places(k, E) = {} => (o.created <=> x.status = "open")
    /\ \A n \in Places(k, E) :
          IsFirst(k, E, n) => (o.created <=> E[n].kind \notin {"New", "Rejected"})

TradeAgrees(t, X, E) == \A k \in Kinds : Agrees(k, t.orders[k], X[k], E)

Seen(t, X, E) == t.tracked => TradeAgrees(t, X, E)

(* What r is after the trade's method returned c: it goes on from it. *)
After(c, r) == (r.ok => c.ok) /\ TradeStays(c.t, r.t)

(* r is what the trade t made of the first event: unless it is an error, the
   trade agrees with the book as before.                                     *)
Follows(t, r, X, E, Q, R) ==
    /\ Known(r.t, X, Tail(E), Q, R)
    /\ r.ok /\ TradeAgrees(t, X, E) => TradeAgrees(r.t, X, Tail(E))

----------------------------------------------------------------------------
(* The events, when the first of them is applied *)

(* The places of what is left. *)
LEMMA TailPlaces ==
    ASSUME NEW E \in Seq(Event), E # <<>>, NEW k
    PROVE  LET T == Tail(E)
           IN  /\ 1 \in 1..Len(E)
               /\ \A n \in Places(k, T) : /\ n \in Nat /\ n >= 1 /\ n + 1 \in Places(k, E)
                                          /\ T[n] = E[n + 1]
                                          /\ IsPair(T, n) <=> IsPair(E, n + 1)
               /\ \A m \in Places(k, E) : /\ m \in Nat /\ m >= 1
                                          /\ m = 1 \/ m - 1 \in Places(k, T)
<1> DEFINE T == Tail(E)
<1>1. Len(E) \in Nat /\ Len(E) >= 1 /\ Len(T) = Len(E) - 1
  OBVIOUS
<1>2. \A n \in 1..Len(T) : T[n] = E[n + 1]
  OBVIOUS
<1>3. \A n \in 1..Len(T) : n \in Nat /\ n >= 1 /\ n + 1 \in 1..Len(E)
  BY <1>1
<1>4. \A m \in 1..Len(E) : m \in Nat /\ m >= 1 /\ (m = 1 \/ m - 1 \in 1..Len(T))
  BY <1>1
<1> HIDE DEF T
<1>5. ASSUME NEW n \in Places(k, T) PROVE IsPair(T, n) <=> IsPair(E, n + 1)
  <2>1. n \in 1..Len(T) /\ n \in Nat
    BY <1>3 DEF Places
  <2>2. n + 1 \in 1..Len(T) <=> n + 1 + 1 \in 1..Len(E)
    BY <1>1, <2>1
  <2>3. n + 1 \in 1..Len(T) => T[n + 1] = E[n + 1 + 1]
    BY <1>2
  <2>4. QED BY <1>2, <2>1, <2>2, <2>3 DEF IsPair
<1>6. ASSUME NEW n \in Places(k, T)
      PROVE  n \in Nat /\ n >= 1 /\ n + 1 \in Places(k, E) /\ T[n] = E[n + 1]
  BY <1>2, <1>3 DEF Places
<1>7. ASSUME NEW m \in Places(k, E)
      PROVE  m \in Nat /\ m >= 1 /\ (m = 1 \/ m - 1 \in Places(k, T))
  <2>1. m \in 1..Len(E) /\ E[m].order = k
    BY DEF Places
  <2>2. m \in Nat /\ m >= 1 /\ (m = 1 \/ m - 1 \in 1..Len(T))
    BY <1>4, <2>1
  <2>3. CASE m # 1
    <3>1. T[m - 1] = E[m - 1 + 1] /\ m - 1 + 1 = m
      BY <1>2, <2>2, <2>3
    <3>2. QED BY <2>1, <2>2, <2>3, <3>1 DEF Places
  <2>4. QED BY <2>2, <2>3
<1>8. 1 \in 1..Len(E)
  BY <1>1
<1>9. QED BY <1>5, <1>6, <1>7, <1>8, Zenon DEF T

(* What comes second in a pair still does, unless its first part is gone. *)
LEMMA TailSecond ==
    ASSUME NEW E \in Seq(Event), E # <<>>, NEW k, NEW n \in Places(k, Tail(E)),
           Second(E, n + 1)
    PROVE  Second(Tail(E), n) \/ (n = 1 /\ E[1].order = k /\ IsPair(E, 1))
<1> DEFINE T == Tail(E)
<1>1. n \in Nat /\ n >= 1 /\ n + 1 \in Places(k, E) /\ n + 1 - 1 = n
  BY TailPlaces
<1>2. IsPair(E, n) /\ E[n + 1].order = k /\ E[n].order = k
  BY <1>1 DEF Second, IsPair, Places
<1>3. CASE n = 1
  BY <1>2, <1>3
<1>4. CASE n # 1
  <2>1. n \in Places(k, E)
    <3>1. n \in 1..Len(E)
      BY <1>1 DEF Places
    <3>2. QED BY <1>2, <3>1 DEF Places
  <2>2. n - 1 \in Places(k, T) /\ n - 1 + 1 = n
    BY <1>1, <1>4, <2>1, TailPlaces
  <2>3. IsPair(T, n - 1)
    BY <1>2, <2>2, TailPlaces
  <2>4. QED BY <1>1, <1>4, <2>3 DEF Second
<1>5. QED BY <1>3, <1>4

(* The order in which the events come stays right. *)
LEMMA TailPipe ==
    ASSUME NEW E \in Seq(Event), E # <<>>, NEW k, NEW x, NEW Q, Pipe(k, x, E, Q)
    PROVE  Pipe(k, x, Tail(E), Q)
<1> DEFINE T == Tail(E)
<1>1. \A n \in Places(k, T) : /\ n \in Nat /\ n >= 1 /\ n + 1 \in Places(k, E)
                              /\ T[n] = E[n + 1] /\ (IsPair(T, n) <=> IsPair(E, n + 1))
  BY TailPlaces
<1>2. ASSUME NEW n \in Places(k, T), Second(E, n + 1)
      PROVE  Second(T, n) \/ \A m \in Places(k, T) : n <= m
  BY <1>1, <1>2, TailSecond
<1>9. ASSUME NEW n \in Nat, \A m \in Places(k, T) : m <= n, NEW m \in Places(k, E)
      PROVE  m <= n + 1
  <2>1. m \in Nat /\ (m = 1 \/ m - 1 \in Places(k, T))
    BY TailPlaces
  <2>2. QED BY <1>9, <2>1
<1> HIDE DEF T
<1>3. Asked(k, "CreateOrder", Q) => x.status # "open" /\ Places(k, T) = {}
  BY <1>1 DEF Pipe
<1>4. ASSUME NEW n \in Places(k, T)
      PROVE  /\ EndsOrder(T[n]) => IsPair(T, n) \/ (~Live(k, x, Q) /\ \A m \in Places(k, T) : m <= n)
             /\ T[n].kind = "New" /\ x.status = "open" => Alike(T[n], x)
             /\ T[n].kind = "Rejected" => ~Live(k, x, Q) /\ \A m \in Places(k, T) : m = n
             /\ x.status # "open" /\ (\A m \in Places(k, T) : m <= n)
                   => T[n].kind = "Rejected" \/ EndsOrder(T[n])
  <2>1. \A m \in Places(k, T) : (m + 1 <= n + 1 => m <= n) /\ (m + 1 = n + 1 => m = n)
    BY <1>1
  <2>2. (\A m \in Places(k, T) : m <= n) => \A m \in Places(k, E) : m <= n + 1
    BY <1>1, <1>9
  <2>3. QED BY <1>1, <2>1, <2>2 DEF Pipe
<1>5. ASSUME NEW n \in Places(k, T), T[n].kind = "New"
      PROVE  Second(T, n) \/ \A m \in Places(k, T) : n <= m
  <2>1. Second(E, n + 1) \/ \A m \in Places(k, E) : n + 1 <= m
    BY <1>1, <1>5 DEF Pipe
  <2>2. (\A m \in Places(k, E) : n + 1 <= m) => \A m \in Places(k, T) : n <= m
    BY <1>1
  <2>3. QED BY <1>2, <2>1, <2>2
<1>6. ASSUME NEW n \in Places(k, T), NEW m \in Places(k, T), IsPair(T, n), IsPair(T, m)
      PROVE  n = m
  <2>1. n + 1 = m + 1
    BY <1>1, <1>6 DEF Pipe
  <2>2. QED BY <1>1, <2>1
<1>7. Pipe(k, x, T, Q)
  BY <1>3, <1>4, <1>5, <1>6 DEF Pipe
<1>8. QED BY <1>7 DEF T

(* Nothing more comes out by it. *)
LEMMA TailOut ==
    ASSUME NEW E \in Seq(Event), E # <<>>, NEW k, NEW x, NEW Q, Out(k, x, Tail(E), Q)
    PROVE  Out(k, x, E, Q)
BY TailPlaces, ZenonT(40) DEF Out

(* What the order knows stays right, unless the first part of a pair is gone. *)
LEMMA TailLedger ==
    ASSUME NEW E \in Seq(Event), E # <<>>, NEW k, NEW o, NEW x, NEW Q, NEW R,
           OrderLedger(k, o, x, E, Q, R), E[1].order = k => ~IsPair(E, 1)
    PROVE  OrderLedger(k, o, x, Tail(E), Q, R)
<1> DEFINE T == Tail(E)
<1>1. \A n \in Places(k, T) : /\ n \in Nat /\ n >= 1 /\ n + 1 \in Places(k, E)
                              /\ T[n] = E[n + 1] /\ (IsPair(T, n) <=> IsPair(E, n + 1))
  BY TailPlaces
<1>2. \A n \in Places(k, T) : Second(E, n + 1) => Second(T, n)
  BY TailSecond
<1>3. (\A n \in Places(k, T) : ~IsPair(T, n)) => \A m \in Places(k, E) : ~IsPair(E, m)
  <2> SUFFICES ASSUME \A n \in Places(k, T) : ~IsPair(T, n), NEW m \in Places(k, E), IsPair(E, m)
               PROVE  FALSE
    OBVIOUS
  <2>1. m # 1
    BY DEF Places
  <2>2. m - 1 \in Places(k, T) /\ m - 1 + 1 = m
    BY <2>1, TailPlaces
  <2>3. QED BY <1>1, <2>2
<1> HIDE DEF T
<1>4. ASSUME NEW n \in Places(k, T)
      PROVE  /\ T[n].kind = "Rejected" => Refused(k, o, R)
             /\ IsPair(T, n) =>
                   /\ o.toReplace /\ o.state = "PendingCancel" /\ o.instr.st # "New"
                   /\ T[n].seq = o.seq /\ ~Asked(k, "CancelReplaceOrder", Q)
             /\ T[n].kind = "New" =>
                   \/ Second(T, n)
                   \/ o.state = "PendingOpen"
                   \/ o.state = "CancelledAndPendingReplace" /\ o.instr.st # "New"
  BY <1>1, <1>2 DEF OrderLedger
<1>5. OrderLedger(k, o, x, T, Q, R)
  BY <1>3, <1>4 DEF OrderLedger
<1>6. QED BY <1>5 DEF T

(* An order that is over, or was never sent, may know anything. *)
LEMMA QuietLedger ==
    ASSUME NEW k, NEW o, NEW x, NEW E, NEW Q, NEW R, ~Live(k, x, Q), Places(k, E) = {}
    PROVE  OrderLedger(k, o, x, E, Q, R) /\ Pipe(k, x, E, Q) /\ ~Out(k, x, E, Q)
<1>1. ~Asked(k, "CreateOrder", Q) /\ x.status # "open"
  BY DEF Live
<1>2. Stops(k, o, x, Q)
  BY <1>1 DEF Stops, Asked, OutOf
<1>3. QED BY <1>1, <1>2 DEF OrderLedger, Pipe, Live, Out

----------------------------------------------------------------------------
(* The orders, and what the trade does with them *)

(* An order that stays as it is goes on to know what it knew. *)
LEMMA LedgerStays ==
    ASSUME NEW k, NEW o, NEW p, NEW x, NEW E, NEW Q, NEW R, NEW S,
           Settled(o), Stays(o, p), OrderLedger(k, o, x, E, Q, R),
           Out(k, x, E, Q) => ~Ashore(o) /\ ~CreateNew(o),
           Refused(k, o, R) => Refused(k, p, S)
    PROVE  OrderLedger(k, p, x, E, Q, S)
<1>1. Asked(k, "CreateOrder", Q) => p.state = "PendingOpen"
  BY DEF OrderLedger, Stays, Out, Live
<1>2. ASSUME NEW n \in Places(k, E)
      PROVE  /\ E[n].kind = "Rejected" => Refused(k, p, S)
             /\ IsPair(E, n) =>
                   /\ p.toReplace /\ p.state = "PendingCancel" /\ p.instr.st # "New"
                   /\ E[n].seq = p.seq /\ ~Asked(k, "CancelReplaceOrder", Q)
             /\ E[n].kind = "New" =>
                   \/ Second(E, n)
                   \/ p.state = "PendingOpen"
                   \/ p.state = "CancelledAndPendingReplace" /\ p.instr.st # "New"
  <2>1. E[n].kind = "New" => ~CreateNew(o)
    BY DEF Out
  <2>2. QED BY <2>1 DEF OrderLedger, Stays
<1>3. x.status = "open" /\ (Asked(k, "CancelReplaceOrder", Q) \/ ReplaceNew(p)) =>
          p.toReplace /\ p.state = "PendingCancel"
  <2>1. ReplaceNew(p) => ReplaceNew(o) \/ (p.state = "PendingCancel" /\ p.toReplace)
    BY DEF Stays, ReplaceNew
  <2>2. QED BY <2>1 DEF OrderLedger, Stays
<1>4. x.status = "open" /\ p.state \in OnBook /\ (\A n \in Places(k, E) : ~IsPair(E, n)) =>
          Alike(x, p)
  BY DEF OrderLedger, Stays, Alike
<1>5. Stops(k, p, x, Q)
  <2>1. x.status = "open" /\ p.state = "PendingOpen" => o.state = "PendingOpen"
    BY DEF Out, Live, Settled, RestStates, Ashore, Stays, OnBook
  <2>2. p.stop = o.stop /\ Stops(k, o, x, Q)
    BY DEF Stays, OrderLedger
  <2>3. QED BY <2>1, <2>2 DEF Stops
<1>6. QED BY <1>1, <1>2, <1>3, <1>4, <1>5 DEF OrderLedger

(* Nor does a method of an order undo that its instruction was refused. *)
LEMMA KeepsRefused ==
    ASSUME NEW k, NEW o, NEW p, Keeps(o, p), NEW R, Refused(k, o, R)
    PROVE  Refused(k, p, R)
BY DEF Refused, Keeps, OpensNothing

(* Of an order something is out of, no request to open it waits to be sent. *)
LEMMA OutNotNew ==
    ASSUME NEW t, NEW X, NEW E, NEW Q, TradeBook(t, OutOrders(X, E, Q)), NEW k \in Kinds,
           Out(k, X[k], E, Q)
    PROVE  ~Ashore(t.orders[k]) /\ ~CreateNew(t.orders[k])
<1>1. k \in OutOrders(X, E, Q)
  BY DEF OutOrders
<1>2. ~Ashore(t.orders[k]) /\ Settled(t.orders[k])
  BY <1>1 DEF TradeBook
<1>3. QED BY <1>2 DEF Settled, Ashore

(* A method of the trade that keeps the book keeps all that the trade knows. *)
LEMMA KnownEvolves ==
    ASSUME NEW t, NEW u, NEW X, NEW E, NEW Q, NEW R, Known(t, X, E, Q, R),
           Minds(t, u, OutOrders(X, E, Q)), TradeEvolves(t, u)
    PROVE  Known(u, X, E, Q, R)
<1>1. ASSUME NEW k \in Kinds PROVE OrderLedger(k, u.orders[k], X[k], E, Q, R)
  <2>1. Stays(t.orders[k], u.orders[k]) /\ Keeps(t.orders[k], u.orders[k])
    BY DEF Minds, TradeStays, TradeEvolves, Evolves
  <2>2. Refused(k, t.orders[k], R) => Refused(k, u.orders[k], R)
    BY <2>1, KeepsRefused
  <2>3. Out(k, X[k], E, Q) => ~Ashore(t.orders[k]) /\ ~CreateNew(t.orders[k])
    BY OutNotNew DEF Known
  <2>4. OrderLedger(k, t.orders[k], X[k], E, Q, R) /\ Settled(t.orders[k])
    BY DEF Known, TradeBook
  <2>5. QED BY <2>1, <2>2, <2>3, <2>4, LedgerStays
<1>2. QED BY <1>1 DEF Known, Minds

(* Only the requests of an order matter to it. *)
LEMMA OthersAsk ==
    ASSUME NEW k, NEW Q, NEW S, OutOf(k, Q) = OutOf(k, S), NEW o, NEW x, NEW E, NEW R
    PROVE  /\ Pipe(k, x, E, Q) <=> Pipe(k, x, E, S)
           /\ Out(k, x, E, Q) <=> Out(k, x, E, S)
           /\ OrderLedger(k, o, x, E, Q, R) <=> OrderLedger(k, o, x, E, S, R)
<1>1. \A kind : Asked(k, kind, Q) <=> Asked(k, kind, S)
  BY DEF Asked, OutOf
<1>2. Live(k, x, Q) <=> Live(k, x, S)
  BY <1>1 DEF Live
<1>3. Pipe(k, x, E, Q) <=> Pipe(k, x, E, S)
  BY <1>1, <1>2 DEF Pipe
<1>4. Out(k, x, E, Q) <=> Out(k, x, E, S)
  BY <1>2 DEF Out
<1>5. OrderLedger(k, o, x, E, Q, R) <=> OrderLedger(k, o, x, E, S, R)
  BY <1>1 DEF OrderLedger, Stops
<1>6. QED BY <1>3, <1>4, <1>5

(* The trade keeps the ledger until it sends something; a trade that leaves the
   list has nothing out.                                                      *)
LEMMA DriveLedger ==
    ASSUME NEW t \in TradeRec, price \in Int \ {0}, NEW X, NEW E, NEW Q, NEW R,
           TradeLedger(t, X, E, Q, R)
    PROVE  TradeLedger(Drive(t), X, E, Q, R)
<1>1. CASE Untracked(t)
  <2>1. Drive(t) = [t EXCEPT !.tracked = FALSE]
    BY <1>1 DEF Drive
  <2>2. Drive(t).tracked = FALSE
    BY <2>1 DEF TradeRec
  <2>3. OutOrders(X, E, Q) = {}
    <3>1. CASE ~t.tracked
      BY <3>1 DEF TradeLedger
    <3>2. CASE t.tracked /\ t.state = "Closed"
      BY <3>2 DEF TradeLedger, Known, TradeBook, Quiet, OutOrders
    <3>3. QED BY <1>1, <3>1, <3>2 DEF Untracked
  <2>4. QED BY <2>2, <2>3 DEF TradeLedger
<1>2. CASE ~Untracked(t)
  <2> DEFINE u == ComputeTrade(t, price).t
  <2>1. Drive(t) = u /\ t.tracked = TRUE
    BY <1>2 DEF Drive, Untracked, TradeRec
  <2>2. Known(t, X, E, Q, R)
    BY <2>1 DEF TradeLedger
  <2>3. Minds(t, u, OutOrders(X, E, Q)) /\ TradeEvolves(t, u)
    BY <2>2, BookComputeTrade, ComputeTradeSound DEF Known, TradeSound
  <2> HIDE DEF u
  <2>4. Known(u, X, E, Q, R)
    BY <2>2, <2>3, KnownEvolves
  <2>5. u.tracked = TRUE
    BY <2>1, <2>3 DEF TradeEvolves
  <2>6. QED BY <2>1, <2>4, <2>5 DEF TradeLedger
<1>3. QED BY <1>1, <1>2

----------------------------------------------------------------------------
(* Sending an instruction *)

(* The instruction of one order is sent: what opens it finds nothing of it out. *)
LEMMA SendLedger ==
    ASSUME NEW k, NEW o \in OrderRec, NEW x, NEW E, NEW Q, NEW R, NEW S,
           OutOf(k, Q) = {}, OutOf(k, S) = {RequestOf(k, o.instr)},
           o.instr.st = "New", Settled(o), Idles(o), Ashore(o) => ~Out(k, x, E, Q),
           Pipe(k, x, E, Q), OrderLedger(k, o, x, E, Q, R)
    PROVE  LET p == [o EXCEPT !.instr.st = "Running"]
           IN  /\ Pipe(k, x, E, S) /\ OrderLedger(k, p, x, E, S, R)
               /\ o.instr.kind # "CreateOrder" => (Out(k, x, E, S) => Out(k, x, E, Q))
<1> DEFINE p == [o EXCEPT !.instr.st = "Running"]
<1>1. \A kind : ~Asked(k, kind, Q) /\ (Asked(k, kind, S) <=> kind = o.instr.kind)
  <2>1. RequestOf(k, o.instr).kind = o.instr.kind /\ RequestOf(k, o.instr).order = k
    BY DEF RequestOf
  <2>2. RequestOf(k, o.instr) \in S /\ \A q \in S : q.order = k => q = RequestOf(k, o.instr)
    BY DEF OutOf
  <2>3. \A q \in Q : q.order # k
    BY DEF OutOf
  <2>4. QED BY <2>1, <2>2, <2>3 DEF Asked
<1>2. /\ p.state = o.state /\ p.seq = o.seq /\ p.instr.st = "Running"
      /\ p.instr.kind = o.instr.kind /\ p.toReplace = o.toReplace /\ p.term = o.term
      /\ p.stop = o.stop
      /\ (o.instr.kind = "CreateOrder" => p.state = "PendingOpen" /\ Ashore(o))
  BY MarkFields
<1> HIDE DEF p
<1>6. Stops(k, p, x, S)
  <2> DEFINE q == RequestOf(k, o.instr)
  <2>1. q.kind = o.instr.kind /\ q.stop = o.instr.stop
    BY DEF RequestOf
  <2> HIDE DEF q
  <2>2. q.kind = "CreateOrder" => q.stop = o.stop /\ x.status # "open"
    BY <1>2, <2>1 DEF Settled, CreateNew, Out, Live
  <2>3. q.kind = "CancelReplaceOrder" => q.stop >= o.stop
    BY <2>1 DEF Settled, ReplaceNew
  <2>4. OutOf(k, S) = {q}
    BY DEF q
  <2>5. x.status = "open" /\ o.state = "PendingOpen" => x.stop = o.stop
    BY DEF OrderLedger, Stops
  <2>6. QED BY <1>2, <2>2, <2>3, <2>4, <2>5 DEF Stops
<1>3. CASE o.instr.kind = "CreateOrder"
  <2>1. x.status # "open" /\ \A n \in Places(k, E) : E[n].kind = "Rejected"
    BY <1>2, <1>3 DEF Out, Live
  <2>2. ~Refused(k, o, R)
    BY <1>3 DEF Refused
  <2>3. Places(k, E) = {}
    BY <2>1, <2>2 DEF OrderLedger
  <2>4. Pipe(k, x, E, S)
    BY <2>1, <2>3 DEF Pipe
  <2>5. OrderLedger(k, p, x, E, S, R)
    BY <1>2, <1>3, <1>6, <2>1, <2>3 DEF OrderLedger
  <2>6. QED BY <1>3, <2>4, <2>5 DEF p
<1>4. CASE o.instr.kind # "CreateOrder"
  <2>1. ~Asked(k, "CreateOrder", Q) /\ ~Asked(k, "CreateOrder", S)
    BY <1>1, <1>4
  <2>2. (Live(k, x, Q) <=> Live(k, x, S)) /\ (Out(k, x, E, S) <=> Out(k, x, E, Q))
    BY <2>1 DEF Live, Out
  <2>3. Pipe(k, x, E, S)
    BY <2>1, <2>2 DEF Pipe
  <2>4. Refused(k, o, R) => Refused(k, p, R)
    BY <1>2, <1>4 DEF Refused
  <2>5. \A n \in Places(k, E) : ~IsPair(E, n)
    BY DEF OrderLedger
  <2>6. \A n \in Places(k, E) :
          /\ E[n].kind = "Rejected" => Refused(k, p, R)
          /\ E[n].kind = "New" => Second(E, n) \/ p.state = "PendingOpen"
    BY <1>2, <2>4 DEF OrderLedger
  <2>7. x.status = "open" /\ (Asked(k, "CancelReplaceOrder", S) \/ ReplaceNew(p)) =>
          p.toReplace /\ p.state = "PendingCancel"
    <3>1. Asked(k, "CancelReplaceOrder", S) \/ ReplaceNew(p) => ReplaceNew(o)
      BY <1>1, <1>2 DEF ReplaceNew
    <3>2. QED BY <1>2, <3>1 DEF OrderLedger
  <2>8. x.status = "open" /\ p.state \in OnBook /\ (\A n \in Places(k, E) : ~IsPair(E, n)) =>
          Alike(x, p)
    BY <1>2 DEF OrderLedger, Alike
  <2>9. OrderLedger(k, p, x, E, S, R)
    BY <1>6, <2>1, <2>5, <2>6, <2>7, <2>8 DEF OrderLedger
  <2>10. QED BY <1>4, <2>2, <2>3, <2>9 DEF p
<1>5. QED BY <1>3, <1>4

(* Sending the pending instruction keeps the ledger. *)
LEMMA MarkLedger ==
    ASSUME NEW d \in TradeRec, NEW X, NEW E, NEW Q, NEW R, InFlight(d, Q, R),
           TradeLedger(d, X, E, Q, R)
    PROVE  TradeLedger(MarkRunning(d), X, E, Q \cup Sent(d), R)
<1> DEFINE m == MarkRunning(d)
           S == Q \cup Sent(d)
           k == d.pending
<1>1. /\ m.tracked = d.tracked
      /\ \A j \in Kinds : m.orders[j] = IF Sends(d, j) THEN [d.orders[j] EXCEPT !.instr.st = "Running"]
                                        ELSE d.orders[j]
  BY MarkTyped
<1>2. \A j \in Kinds : OutOf(j, S) = IF Sends(d, j) THEN OutOf(j, Q) \cup {RequestOf(j, d.orders[j].instr)}
                                     ELSE OutOf(j, Q)
  BY SentOf
<1>3. m.state = d.state /\ m.pending = d.pending
  BY DEF MarkRunning, TradeRec
<1> HIDE DEF m, S
<1>4. ASSUME NEW j \in Kinds, ~Sends(d, j)
      PROVE  /\ Pipe(j, X[j], E, S) /\ (Out(j, X[j], E, S) <=> Out(j, X[j], E, Q))
             /\ m.orders[j] = d.orders[j]
             /\ d.tracked => OrderLedger(j, m.orders[j], X[j], E, S, R)
  <2>1. OutOf(j, S) = OutOf(j, Q) /\ m.orders[j] = d.orders[j]
    BY <1>1, <1>2, <1>4
  <2>2. Pipe(j, X[j], E, S) /\ (Out(j, X[j], E, S) <=> Out(j, X[j], E, Q))
    BY <2>1, OthersAsk DEF TradeLedger
  <2>3. d.tracked => OrderLedger(j, m.orders[j], X[j], E, S, R)
    BY <2>1, OthersAsk DEF TradeLedger, Known
  <2>4. QED BY <2>1, <2>2, <2>3
<1>5. ASSUME NEW j \in Kinds, Sends(d, j)
      PROVE  /\ Pipe(j, X[j], E, S) /\ OrderLedger(j, m.orders[j], X[j], E, S, R)
             /\ d.orders[j].instr.kind # "CreateOrder" => (Out(j, X[j], E, S) => Out(j, X[j], E, Q))
             /\ j = k /\ d.tracked /\ d.orders[j].instr.st = "New"
  <2>1. j = k /\ d.tracked /\ d.orders[j].instr.st = "New"
    BY <1>5 DEF Sends
  <2>2. OrderInFlight(d.orders[j], j, Q, R)
    BY <2>1 DEF InFlight
  <2>3. OutOf(j, Q) = {}
    BY <2>1, <2>2 DEF OrderInFlight
  <2>4. OutOf(j, S) = {RequestOf(j, d.orders[j].instr)}
    BY <1>2, <1>5, <2>3
  <2>5. Known(d, X, E, Q, R) /\ Pipe(j, X[j], E, Q)
    BY <2>1 DEF TradeLedger
  <2>6. /\ Settled(d.orders[j]) /\ Idles(d.orders[j]) /\ d.orders[j] \in OrderRec
        /\ Ashore(d.orders[j]) => ~Out(j, X[j], E, Q)
        /\ OrderLedger(j, d.orders[j], X[j], E, Q, R)
    BY <2>5, TradeOrders DEF Known, TradeBook, OutOrders
  <2>7. m.orders[j] = [d.orders[j] EXCEPT !.instr.st = "Running"]
    BY <1>1, <1>5
  <2>8. QED BY <2>1, <2>3, <2>4, <2>5, <2>6, <2>7, SendLedger
<1>6. CASE \A j \in Kinds : ~Sends(d, j)
  <2>1. OutOrders(X, E, S) = OutOrders(X, E, Q)
    BY <1>4, <1>6 DEF OutOrders
  <2>2. d.tracked => TradeBook(m, OutOrders(X, E, Q))
    <3>1. d.tracked => TradeBook(d, OutOrders(X, E, Q))
      BY DEF TradeLedger, Known
    <3>2. \A j \in Kinds : m.orders[j] = d.orders[j]
      BY <1>4, <1>6
    <3>3. d.pending \in Kinds \cup {"none"}
      BY DEF TradeRec
    <3>4. "entry" \in Kinds /\ "exit" \in Kinds /\ "stop" \in Kinds
      BY DEF Kinds
    <3>5. Quiet(d, OutOrders(X, E, Q)) => Quiet(m, OutOrders(X, E, Q))
      BY <1>3, <3>2, <3>3 DEF Quiet
    <3>6. QED BY <1>3, <3>1, <3>2, <3>4, <3>5 DEF TradeBook
  <2>3. TradeLedger(m, X, E, S, R)
    BY <1>1, <1>4, <1>6, <2>1, <2>2 DEF TradeLedger, Known
  <2>4. QED BY <2>3 DEF m, S
<1>7. CASE ~\A j \in Kinds : ~Sends(d, j)
  <2>1. k \in Kinds /\ Sends(d, k) /\ d.tracked /\ d.orders[k].instr.st = "New"
    BY <1>5, <1>7
  <2>2. \A j \in Kinds : j # k => ~Sends(d, j)
    BY DEF Sends
  <2>3. OutOrders(X, E, S) \subseteq OutOrders(X, E, Q) \cup {k}
    BY <1>4, <2>2 DEF OutOrders
  <2>4. d.orders[k].instr.kind # "CreateOrder" => OutOrders(X, E, S) \subseteq OutOrders(X, E, Q)
    BY <1>4, <1>5, <2>1, <2>2 DEF OutOrders
  <2>5. \A j \in Kinds : m.orders[j] = IF j = k THEN [d.orders[k] EXCEPT !.instr.st = "Running"]
                                       ELSE d.orders[j]
    BY <1>1, <2>1, <2>2
  <2>6. TradeBook(d, OutOrders(X, E, Q))
    BY <2>1 DEF TradeLedger, Known
  <2>7. TradeBook(m, OutOrders(X, E, S))
    BY <1>3, <2>1, <2>3, <2>4, <2>5, <2>6, BookMark
  <2>8. \A j \in Kinds : Pipe(j, X[j], E, S) /\ OrderLedger(j, m.orders[j], X[j], E, S, R)
    BY <1>4, <1>5, <2>1
  <2>9. m.tracked = TRUE
    BY <1>1, <2>1 DEF TradeRec
  <2>10. TradeLedger(m, X, E, S, R)
    BY <2>7, <2>8, <2>9 DEF TradeLedger, Known
  <2>11. QED BY <2>10 DEF m, S
<1>8. QED BY <1>6, <1>7

(* A pass of the trader keeps it. *)
LEMMA PassLedger ==
    ASSUME NEW t \in TradeRec, price \in Int \ {0}, NEW X, NEW E, NEW Q, NEW R,
           InFlight(t, Q, R), TradeLedger(t, X, E, Q, R)
    PROVE  TradeLedger(Pass(t), X, E, Q \cup Sent(Drive(t)), R)
<1> DEFINE d == Drive(t)
<1>1. d \in TradeRec /\ (d.tracked => TradeEvolves(t, d))
  BY DriveTracked
<1>2. InFlight(d, Q, R)
  <2>1. CASE d.tracked
    BY <1>1, <2>1, EvolvesInFlight
  <2>2. CASE ~d.tracked
    BY <2>2 DEF InFlight
  <2>3. QED BY <2>1, <2>2
<1>3. TradeLedger(d, X, E, Q, R)
  BY DriveLedger
<1>4. QED BY <1>1, <1>2, <1>3, MarkLedger DEF Pass

(* So does what is left of a handler. *)
LEMMA SettleLedger ==
    ASSUME price \in Int \ {0}, requests \subseteq Request,
           NEW r, r.t \in TradeRec, NEW X, NEW E, NEW R, InFlight(r.t, requests, R),
           TradeLedger(r.t, X, E, requests, R), Settle(r) \/ SettleTwice(r)
    PROVE  TradeLedger(trade', X, E, requests', R)
<1> DEFINE p1 == Pass(r.t)
           Q1 == requests \cup Sent(Drive(r.t))
           p2 == Pass(p1)
           Q2 == Q1 \cup Sent(Drive(p1))
<1>1. /\ p1 \in TradeRec /\ Q1 \subseteq Request /\ InFlight(p1, Q1, R)
      /\ TradeLedger(p1, X, E, Q1, R)
  BY PassInFlight, PassLedger
<1>2. TradeLedger(p2, X, E, Q2, R)
  BY <1>1, PassLedger
<1>3. CASE Settle(r) /\ r.ok
  BY <1>1, <1>3 DEF Settle
<1>4. CASE Settle(r) /\ ~r.ok
  BY <1>4 DEF Settle
<1>5. CASE SettleTwice(r) /\ ~r.ok
  BY <1>4, <1>5 DEF SettleTwice
<1>6. CASE SettleTwice(r) /\ r.ok
  BY <1>2, <1>6 DEF SettleTwice
<1>7. QED BY <1>3, <1>4, <1>5, <1>6

----------------------------------------------------------------------------
(* What follows the method of an order: the trade computes *)

(* The status is set and the trade computed. *)
LEMMA KnownStatus ==
    ASSUME NEW c, c.t \in TradeRec, NEW s \in TradeStatus, NEW p \in Int \ {0},
           NEW X, NEW E, NEW Q, NEW R, Known(c.t, X, E, Q, R)
    PROVE  Known(StatusThenCompute(c, s, p).t, X, E, Q, R) /\ After(c, StatusThenCompute(c, s, p))
<1> DEFINE u == [c.t EXCEPT !.status = s]
           r == StatusThenCompute(c, s, p)
<1>1. Minds(c.t, r.t, OutOrders(X, E, Q))
  BY BookStatus DEF Known
<1>2. TradeEvolves(c.t, u)
  BY TradeFields DEF TradeState
<1>3. TradeSound(c.t, ComputeTrade(u, p))
  BY <1>2, ComputeTradeAfter
<1>4. TradeEvolves(c.t, r.t)
  BY <1>3, TradeRefl DEF StatusThenCompute, TradeSound
<1>5. r.ok => c.ok
  BY DEF StatusThenCompute
<1> HIDE DEF r
<1>6. QED BY <1>1, <1>4, <1>5, KnownEvolves DEF After, Minds, r

(* Another of the trade's methods was computed after. *)
LEMMA KnownCompute ==
    ASSUME NEW c, c.t \in TradeRec, NEW p \in Int \ {0},
           NEW X, NEW E, NEW Q, NEW R, Known(c.t, X, E, Q, R)
    PROVE  Known(ThenComputeTrade(c, p).t, X, E, Q, R) /\ After(c, ThenComputeTrade(c, p))
<1> DEFINE r == ThenComputeTrade(c, p)
<1>1. Minds(c.t, r.t, OutOrders(X, E, Q))
  BY BookThenCompute DEF Known
<1>2. TradeEvolves(c.t, r.t)
  BY ComputeTradeSound, TradeRefl DEF ThenComputeTrade, TradeSound
<1>3. r.ok => c.ok
  BY DEF ThenComputeTrade
<1> HIDE DEF r
<1>4. QED BY <1>1, <1>2, <1>3, KnownEvolves DEF After, Minds, r

(* A fill is offered to the exit and the stoploss, and the trade computed. *)
LEMMA KnownOffered ==
    ASSUME NEW c, c.t \in TradeRec, NEW k, NEW p \in Int \ {0},
           NEW X, NEW E, NEW Q, NEW R, Known(c.t, X, E, Q, R)
    PROVE  LET r == ThenComputeTrade(Offered(c, k), p)
           IN  Known(r.t, X, E, Q, R) /\ After(c, r)
<1> DEFINE f == Offered(c, k)
           r == ThenComputeTrade(f, p)
           n == c.t.orders["entry"].filled
<1>1. Minds(c.t, f.t, OutOrders(X, E, Q)) /\ f.t \in TradeRec
  BY BookOffered DEF Known
<1>2. TradeEvolves(c.t, f.t)
  <2>1. n \in Int
    BY KindsOf, TradeOrders DEF OrderRec
  <2>2. TradeEvolves(c.t, [c.t EXCEPT !.orders["exit"].qty = n, !.orders["stop"].qty = n])
    BY <2>1, QuantityEvolves
  <2>3. QED BY <2>2, TradeRefl DEF Offered, TOk
<1>3. Known(f.t, X, E, Q, R)
  BY <1>1, <1>2, KnownEvolves
<1>4. f.ok => c.ok
  BY DEF Offered
<1> HIDE DEF f
<1>5. Known(r.t, X, E, Q, R) /\ After(f, r)
  BY <1>1, <1>3, KnownCompute
<1> HIDE DEF r
<1>6. TradeStays(c.t, r.t)
  BY <1>1, <1>5, StaysTrans DEF Minds, After, TradeStays
<1>7. QED BY <1>4, <1>5, <1>6 DEF After, f, r

(* The trade fails, and is computed. *)
LEMMA KnownFails ==
    ASSUME NEW c, c.t \in TradeRec, NEW from, NEW p \in Int \ {0},
           NEW X, NEW E, NEW Q, NEW R, Known(c.t, X, E, Q, R)
    PROVE  LET r == ThenComputeTrade(FailTrade(c, from), p)
           IN  Known(r.t, X, E, Q, R) /\ TradeStays(c.t, r.t)
<1> DEFINE u == [c.t EXCEPT !.status = "Idle"]
           to == IF from = "Entering" THEN "EntryFailed" ELSE "ExitFailed"
           s == SetTradeState(u, to)
           f == FailTrade(c, from)
<1>1. Minds(c.t, ThenComputeTrade(f, p).t, OutOrders(X, E, Q))
  BY BookFailTrade DEF Known
<1>2. TradeEvolves(c.t, u) /\ u \in TradeRec
  <2>1. "Idle" \in TradeStatus /\ "New" \in TradeState
    BY DEF TradeStatus, TradeState
  <2>2. TradeEvolves(c.t, u)
    BY <2>1, TradeFields
  <2>3. QED BY <2>2 DEF TradeEvolves
<1>3. to \in TradeState
  BY DEF TradeState
<1>4. TradeEvolves(c.t, s.t)
  BY <1>2, <1>3, SetTradeStateSound, TradeAfter DEF TradeSound
<1>5. TradeEvolves(c.t, f.t)
  BY <1>4, TradeRefl DEF FailTrade
<1>6. TradeEvolves(c.t, ThenComputeTrade(f, p).t)
  BY <1>5, ComputeTradeAfter DEF ThenComputeTrade, TradeSound
<1>7. QED BY <1>1, <1>6, KnownEvolves DEF Minds

----------------------------------------------------------------------------
(* The event that comes first *)

(* An event that is not the first part of a pair may be applied to nothing. *)
LEMMA EventIgnored ==
    ASSUME NEW t, NEW X, NEW E \in Seq(Event), E # <<>>, NEW Q, NEW R,
           Known(t, X, E, Q, R), ~IsPair(E, 1)
    PROVE  Known(t, X, Tail(E), Q, R)
<1>1. OutOrders(X, Tail(E), Q) \subseteq OutOrders(X, E, Q)
  BY TailOut DEF OutOrders
<1>2. TradeBook(t, OutOrders(X, Tail(E), Q))
  BY <1>1, BookShrinks DEF Known
<1>3. QED BY <1>2, TailLedger DEF Known

(* Its order k goes through a method that leaves p. *)
LEMMA EventApplied ==
    ASSUME NEW t \in TradeRec, NEW X, NEW E \in Seq(Event), E # <<>>, NEW Q, NEW R,
           Known(t, X, E, Q, R), NEW k \in Kinds, k = E[1].order, Out(k, X[k], E, Q),
           NEW p, Settled(p), Idles(p), Ashore(p) => ~Out(k, X[k], Tail(E), Q),
           OrderLedger(k, p, X[k], Tail(E), Q, R)
    PROVE  Known(With(t, k, p), X, Tail(E), Q, R)
<1> DEFINE u == With(t, k, p)
           U == OutOrders(X, E, Q)
           V == OutOrders(X, Tail(E), Q)
<1>1. \A j \in Kinds : u.orders[j] = IF j = k THEN p ELSE t.orders[j]
  BY WithFields
<1>2. V \subseteq U /\ k \in U /\ (Ashore(p) => k \notin V)
  BY TailOut DEF OutOrders
<1> HIDE DEF u
<1>3. TradeBook(u, V)
  BY <1>2, BookEvent DEF Known, u
<1>4. ASSUME NEW j \in Kinds PROVE OrderLedger(j, u.orders[j], X[j], Tail(E), Q, R)
  BY <1>1, TailLedger DEF Known
<1>5. QED BY <1>3, <1>4 DEF Known, u

(* What comes first in an order's events, and what that says of the others. *)
LEMMA HeadPlace ==
    ASSUME NEW E \in Seq(Event), E # <<>>, NEW k, k = E[1].order, NEW x, NEW Q, Pipe(k, x, E, Q)
    PROVE  /\ 1 \in Places(k, E) /\ ~Asked(k, "CreateOrder", Q) /\ ~Second(E, 1)
           /\ E[1].kind # "Rejected" => Out(k, x, E, Q)
           /\ \A n \in Places(k, Tail(E)) : Tail(E)[n].kind # "Rejected"
           /\ E[1].kind = "Rejected" => Places(k, Tail(E)) = {} /\ ~Live(k, x, Q)
           /\ EndsOrder(E[1]) /\ ~IsPair(E, 1) => Places(k, Tail(E)) = {} /\ ~Live(k, x, Q)
<1> DEFINE T == Tail(E)
<1>1. \A n \in Places(k, T) : /\ n \in Nat /\ n >= 1 /\ n + 1 \in Places(k, E) /\ T[n] = E[n + 1]
  BY TailPlaces
<1>2. 1 \in Places(k, E)
  BY TailPlaces DEF Places
<1> HIDE DEF T
<1>3. \A n \in Places(k, T) : ~(n + 1 <= 1) /\ n + 1 # 1
  BY <1>1
<1>4. \A n \in Places(k, T) : T[n].kind # "Rejected"
  BY <1>1, <1>2, <1>3 DEF Pipe
<1>5. E[1].kind = "Rejected" => Places(k, T) = {} /\ ~Live(k, x, Q)
  BY <1>1, <1>2, <1>3 DEF Pipe
<1>6. EndsOrder(E[1]) /\ ~IsPair(E, 1) => Places(k, T) = {} /\ ~Live(k, x, Q)
  BY <1>1, <1>2, <1>3 DEF Pipe
<1>7. ~Asked(k, "CreateOrder", Q) /\ ~Second(E, 1) /\ (E[1].kind # "Rejected" => Out(k, x, E, Q))
  BY <1>2 DEF Pipe, Out, Second
<1>8. QED BY <1>2, <1>4, <1>5, <1>6, <1>7 DEF T

(* An event of another order changes nothing in what the order agrees with. *)
LEMMA AgreesOther ==
    ASSUME NEW E \in Seq(Event), E # <<>>, NEW j, j # E[1].order, NEW o, NEW x,
           Agrees(j, o, x, E)
    PROVE  Agrees(j, o, x, Tail(E))
<1> DEFINE T == Tail(E)
<1>1. \A n \in Places(j, T) : n \in Nat /\ n + 1 \in Places(j, E) /\ T[n] = E[n + 1]
  BY TailPlaces
<1>2. \A m \in Places(j, E) : m \in Nat /\ m - 1 \in Places(j, T)
  BY TailPlaces DEF Places
<1> HIDE DEF T
<1>3. Places(j, T) = {} => Places(j, E) = {}
  BY <1>2
<1>4. ASSUME NEW n \in Places(j, T), IsFirst(j, T, n) PROVE IsFirst(j, E, n + 1)
  <2>1. \A m \in Places(j, E) : n <= m - 1
    BY <1>2, <1>4 DEF IsFirst
  <2>2. \A m \in Places(j, E) : n + 1 <= m
    BY <1>1, <1>2, <2>1
  <2>3. QED BY <1>1, <2>2 DEF IsFirst
<1>5. QED BY <1>1, <1>3, <1>4 DEF Agrees, T

(* The event an order agrees with next is the first of its own. *)
LEMMA AgreesFirst ==
    ASSUME NEW E \in Seq(Event), E # <<>>, NEW k, k = E[1].order, NEW o, NEW x, Agrees(k, o, x, E)
    PROVE  o.created <=> E[1].kind \notin {"New", "Rejected"}
<1>1. 1 \in Places(k, E) /\ \A m \in Places(k, E) : m >= 1
  BY TailPlaces DEF Places
<1>2. IsFirst(k, E, 1)
  BY <1>1, TailPlaces DEF IsFirst
<1>3. QED BY <1>1, <1>2 DEF Agrees

(* After an event that leaves the order open, the order p is on the book. *)
LEMMA AgreesOpen ==
    ASSUME NEW E \in Seq(Event), E # <<>>, NEW k, k = E[1].order, NEW x, NEW Q, Pipe(k, x, E, Q),
           ~EndsOrder(E[1]), E[1].kind # "Rejected", NEW p, p.created, p.state \in OnBook
    PROVE  Agrees(k, p, x, Tail(E))
<1> DEFINE T == Tail(E)
<1>1. 1 \in Places(k, E) /\ \A n \in Places(k, T) : T[n].kind # "Rejected"
  BY HeadPlace
<1>2. \A n \in Places(k, T) : /\ n \in Nat /\ n >= 1 /\ n + 1 \in Places(k, E)
                              /\ T[n] = E[n + 1] /\ (IsPair(T, n) <=> IsPair(E, n + 1))
  BY TailPlaces
<1>3. \A n \in Places(k, T) : Second(E, n + 1) => Second(T, n)
  BY TailSecond DEF IsPair, EndsOrder
<1>4. \A m \in Places(k, E) : m = 1 \/ m - 1 \in Places(k, T)
  BY TailPlaces
<1>5. \A n \in Places(k, T) : Len(T) \in Nat /\ n \in 1..Len(T) /\ T[n].order = k
  BY DEF Places
<1> HIDE DEF T
<1>6. Places(k, T) = {} => x.status = "open"
  <2> SUFFICES ASSUME Places(k, T) = {}, x.status # "open" PROVE FALSE
    OBVIOUS
  <2>1. \A m \in Places(k, E) : m <= 1
    BY <1>4
  <2>2. QED BY <1>1, <2>1 DEF Pipe
<1>7. ASSUME NEW n \in Places(k, T), IsFirst(k, T, n) PROVE T[n].kind # "New"
  <2>1. ~Second(T, n)
    <3> SUFFICES ASSUME Second(T, n) PROVE FALSE
      OBVIOUS
    <3>1. n - 1 \in 1..Len(T) /\ n - 1 + 1 = n /\ n - 1 < n
      BY <1>5 DEF Second
    <3>2. T[n - 1].order = k
      BY <1>5, <3>1 DEF Second, IsPair
    <3>3. n - 1 \in Places(k, T)
      BY <3>1, <3>2 DEF Places
    <3>4. QED BY <1>2, <1>7, <3>1, <3>3 DEF IsFirst
  <2>2. ~(n + 1 <= 1)
    BY <1>2
  <2>3. QED BY <1>1, <1>2, <1>3, <2>1, <2>2 DEF Pipe
<1>8. QED BY <1>1, <1>6, <1>7 DEF Agrees, T

(* After one that ends it or was its rejection, it is not. *)
LEMMA AgreesOver ==
    ASSUME NEW E \in Seq(Event), E # <<>>, NEW k, k = E[1].order, NEW x, NEW Q, Pipe(k, x, E, Q),
           EndsOrder(E[1]) \/ E[1].kind = "Rejected", NEW p, ~p.created
    PROVE  Agrees(k, p, x, Tail(E))
<1> DEFINE T == Tail(E)
<1>1. CASE ~IsPair(E, 1)
  <2>1. Places(k, T) = {} /\ ~Live(k, x, Q)
    BY <1>1, HeadPlace, Zenon
  <2>2. QED BY <2>1 DEF Agrees, Live
<1>2. CASE IsPair(E, 1)
  <2>1. Len(E) \in Nat /\ Len(T) = Len(E) - 1 /\ 2 \in 1..Len(E)
    BY <1>2 DEF IsPair
  <2>2. 1 \in 1..Len(T) /\ T[1] = E[2]
    BY <2>1
  <2>3. E[2].order = k /\ E[2].kind = "New"
    BY <1>2 DEF IsPair
  <2> HIDE DEF T
  <2>4. 1 \in Places(k, T) /\ T[1].kind = "New"
    BY <2>2, <2>3 DEF Places
  <2>5. \A n \in Places(k, T) : IsFirst(k, T, n) => n = 1
    BY <2>4 DEF IsFirst, Places
  <2>6. QED BY <2>4, <2>5 DEF Agrees, T
<1>3. QED BY <1>1, <1>2

(* A trade agrees when the order k, which went through a method, and all the
   others do.                                                                *)
LEMMA WithAgrees ==
    ASSUME NEW t \in TradeRec, NEW X, NEW E \in Seq(Event), E # <<>>, TradeAgrees(t, X, E),
           NEW k \in Kinds, k = E[1].order, NEW p, Agrees(k, p, X[k], Tail(E))
    PROVE  TradeAgrees(With(t, k, p), X, Tail(E))
<1>1. \A j \in Kinds : With(t, k, p).orders[j] = IF j = k THEN p ELSE t.orders[j]
  BY WithFields
<1>2. \A j \in Kinds : j # k => Agrees(j, t.orders[j], X[j], Tail(E))
  BY AgreesOther DEF TradeAgrees
<1>3. QED BY <1>1, <1>2 DEF TradeAgrees

(* So it does when its orders stay as they are. *)
LEMMA StaysAgrees ==
    ASSUME NEW t, NEW u, TradeStays(t, u), NEW X, NEW E, TradeAgrees(t, X, E)
    PROVE  TradeAgrees(u, X, E)
<1>1. ASSUME NEW k \in Kinds PROVE Agrees(k, u.orders[k], X[k], E)
  BY DEF TradeStays, Stays, TradeAgrees, Agrees
<1>2. QED BY <1>1 DEF TradeAgrees

(* What comes after the order's own method keeps the agreement. *)
LEMMA FollowsAfter ==
    ASSUME NEW t, NEW c, NEW r, NEW X, NEW E, NEW Q, NEW R,
           Follows(t, c, X, E, Q, R), After(c, r), Known(r.t, X, Tail(E), Q, R)
    PROVE  Follows(t, r, X, E, Q, R)
BY StaysAgrees DEF Follows, After

(* An error leaves the trade with what it should know, and promises no more. *)
LEMMA FollowsError ==
    ASSUME NEW t, NEW X, NEW E, NEW Q, NEW R, Known(t, X, Tail(E), Q, R)
    PROVE  Follows(t, TErr(t), X, E, Q, R)
BY DEF Follows, TErr

(* The order's own method left p: the trade knows what it should, and agrees. *)
LEMMA FollowsWith ==
    ASSUME NEW t \in TradeRec, NEW X, NEW E \in Seq(Event), E # <<>>, NEW Q, NEW R,
           NEW k \in Kinds, k = E[1].order, NEW r,
           Known(With(t, k, r.o), X, Tail(E), Q, R),
           r.ok /\ Agrees(k, t.orders[k], X[k], E) => Agrees(k, r.o, X[k], Tail(E))
    PROVE  Follows(t, OnOrder(t, k, r), X, E, Q, R)
<1> DEFINE c == OnOrder(t, k, r)
<1>1. c.t = With(t, k, r.o) /\ c.ok = r.ok
  BY DEF OnOrder
<1>2. ASSUME c.ok, TradeAgrees(t, X, E) PROVE TradeAgrees(c.t, X, Tail(E))
  BY <1>1, <1>2, WithAgrees DEF TradeAgrees
<1>3. QED BY <1>1, <1>2 DEF Follows

(* The method leaves the order as it was: the event is not the first of a pair. *)
LEMMA EventStays ==
    ASSUME NEW t \in TradeRec, NEW X, NEW E \in Seq(Event), E # <<>>, NEW Q, NEW R,
           Known(t, X, E, Q, R), NEW k \in Kinds, k = E[1].order, Out(k, X[k], E, Q),
           ~IsPair(E, 1), NEW p, Stays(t.orders[k], p), Idles(p), Keeps(t.orders[k], p)
    PROVE  Known(With(t, k, p), X, Tail(E), Q, R)
<1> DEFINE o == t.orders[k]
<1>1. ~Ashore(o) /\ ~CreateNew(o)
  BY OutNotNew DEF Known
<1>2. Refused(k, o, R) => Refused(k, p, R)
  BY KeepsRefused
<1>3. OrderLedger(k, p, X[k], E, Q, R)
  BY <1>1, <1>2, LedgerStays DEF Known, TradeBook
<1>4. OrderLedger(k, p, X[k], Tail(E), Q, R)
  BY <1>3, TailLedger
<1>5. Settled(p) /\ ~Ashore(p)
  BY <1>1 DEF Stays
<1>6. QED BY <1>4, <1>5, EventApplied

(* The event ends the order: nothing of it is out any more. *)
LEMMA LastEvent ==
    ASSUME NEW t \in TradeRec, NEW X, NEW E \in Seq(Event), E # <<>>, NEW Q, NEW R,
           Known(t, X, E, Q, R), NEW k \in Kinds, k = E[1].order, Pipe(k, X[k], E, Q),
           EndsOrder(E[1]), ~IsPair(E, 1), NEW p, Settled(p), Idles(p)
    PROVE  Known(With(t, k, p), X, Tail(E), Q, R)
<1>1. E[1].kind # "Rejected"
  BY DEF EndsOrder
<1>2. Out(k, X[k], E, Q) /\ Places(k, Tail(E)) = {} /\ ~Live(k, X[k], Q)
  BY <1>1, HeadPlace
<1>3. OrderLedger(k, p, X[k], Tail(E), Q, R) /\ ~Out(k, X[k], Tail(E), Q)
  BY <1>2, QuietLedger
<1>4. QED BY <1>2, <1>3, EventApplied

(* The order is announced: it becomes q, open under the number of the event. *)
LEMMA NewApplied ==
    ASSUME NEW t \in TradeRec, NEW X, NEW E \in Seq(Event), E # <<>>, NEW Q, NEW R,
           Known(t, X, E, Q, R), NEW k \in Kinds, k = E[1].order, Pipe(k, X[k], E, Q),
           E[1].kind = "New", NEW q, q.state = "Opened", q.instr = t.orders[k].instr,
           q.seq = E[1].seq, X[k].status = "open" => q.stop = X[k].stop,
           NEW p, Stays(q, p), Idles(p)
    PROVE  Known(With(t, k, p), X, Tail(E), Q, R)
<1> DEFINE o == t.orders[k]
           T == Tail(E)
           x == X[k]
<1>1. /\ 1 \in Places(k, E) /\ ~Asked(k, "CreateOrder", Q) /\ ~Second(E, 1)
      /\ Out(k, x, E, Q) /\ \A n \in Places(k, T) : T[n].kind # "Rejected"
  BY HeadPlace
<1>2. \A n \in Places(k, T) : /\ n \in Nat /\ n >= 1 /\ n + 1 \in Places(k, E)
                              /\ T[n] = E[n + 1] /\ (IsPair(T, n) <=> IsPair(E, n + 1))
  BY TailPlaces
<1>3. OrderLedger(k, o, x, E, Q, R)
  BY DEF Known
<1>4. o.state \in {"PendingOpen", "CancelledAndPendingReplace"}
  BY <1>1, <1>3 DEF OrderLedger
<1>5. \A n \in Places(k, E) : ~IsPair(E, n)
  BY <1>3, <1>4 DEF OrderLedger
<1>6. p.seq = E[1].seq /\ ~Ashore(p) /\ Settled(p)
  BY DEF Stays, Ashore
<1> HIDE DEF T
<1>7. ASSUME NEW n \in Places(k, T) PROVE T[n].kind # "New" /\ ~IsPair(T, n)
  <2>1. ~Second(E, n + 1)
    <3> SUFFICES ASSUME Second(E, n + 1) PROVE FALSE
      OBVIOUS
    <3>1. n + 1 - 1 = n /\ n \in 1..Len(E)
      BY <1>2 DEF Places
    <3>2. IsPair(E, n) /\ E[n + 1].order = k
      BY <1>2, <3>1 DEF Second, Places
    <3>3. n \in Places(k, E)
      BY <3>1, <3>2 DEF Places, IsPair
    <3>4. QED BY <1>5, <3>2, <3>3
  <2>2. ~(n + 1 <= 1)
    BY <1>2
  <2>3. QED BY <1>1, <1>2, <1>5, <2>1, <2>2 DEF Pipe
<1>8. x.status = "open" /\ (Asked(k, "CancelReplaceOrder", Q) \/ ReplaceNew(p)) =>
          p.toReplace /\ p.state = "PendingCancel"
  <2>1. x.status = "open" => ~Asked(k, "CancelReplaceOrder", Q) /\ ~ReplaceNew(o)
    BY <1>3, <1>4 DEF OrderLedger
  <2>2. ReplaceNew(p) => ReplaceNew(o) \/ (p.state = "PendingCancel" /\ p.toReplace)
    BY DEF Stays, ReplaceNew
  <2>3. QED BY <2>1, <2>2
<1>9. x.status = "open" => Alike(x, p)
  <2>1. x.status = "open" => Alike(E[1], x)
    BY <1>1 DEF Pipe
  <2>2. p.stop = q.stop
    BY DEF Stays
  <2>3. QED BY <1>6, <2>1, <2>2 DEF Alike
<1>12. Stops(k, p, x, Q)
  <2>1. \A r \in OutOf(k, Q) : r.kind # "CreateOrder"
    BY <1>1 DEF Asked, OutOf
  <2>2. x.status = "open" => \A r \in OutOf(k, Q) : r.kind # "CancelReplaceOrder"
    BY <1>3, <1>4 DEF OrderLedger, Asked, OutOf
  <2>3. p.state # "PendingOpen"
    BY DEF Stays, OnBook
  <2>4. QED BY <2>1, <2>2, <2>3 DEF Stops
<1>10. OrderLedger(k, p, x, T, Q, R)
  BY <1>1, <1>7, <1>8, <1>9, <1>12 DEF OrderLedger
<1>11. QED BY <1>1, <1>6, <1>10, EventApplied DEF T

(* The order is cancelled to be replaced: it waits for its replacement. *)
LEMMA PairApplied ==
    ASSUME NEW t \in TradeRec, NEW X, NEW E \in Seq(Event), E # <<>>, NEW Q, NEW R,
           Known(t, X, E, Q, R), NEW k \in Kinds, k = E[1].order, Pipe(k, X[k], E, Q),
           IsPair(E, 1), NEW p, Settled(p), Idles(p), p.state = "CancelledAndPendingReplace",
           p.instr.st = "New" => p.instr = t.orders[k].instr
    PROVE  Known(With(t, k, p), X, Tail(E), Q, R)
<1> DEFINE o == t.orders[k]
           T == Tail(E)
           x == X[k]
<1>1. /\ 1 \in Places(k, E) /\ ~Asked(k, "CreateOrder", Q)
      /\ Out(k, x, E, Q) /\ \A n \in Places(k, T) : T[n].kind # "Rejected"
  BY HeadPlace DEF IsPair
<1>2. \A n \in Places(k, T) : /\ n \in Nat /\ n >= 1 /\ n + 1 \in Places(k, E)
                              /\ T[n] = E[n + 1] /\ (IsPair(T, n) <=> IsPair(E, n + 1))
  BY TailPlaces
<1>3. o.instr.st # "New" /\ ~Asked(k, "CancelReplaceOrder", Q)
  BY <1>1 DEF Known, OrderLedger
<1> HIDE DEF T
<1>4. ASSUME NEW n \in Places(k, T) PROVE ~IsPair(T, n)
  <2>1. n + 1 # 1
    BY <1>2
  <2>2. QED BY <1>1, <1>2, <2>1 DEF Pipe
<1>5. p.instr.st # "New" /\ ~ReplaceNew(p) /\ p.state \notin OnBook /\ ~Ashore(p)
  BY <1>3 DEF ReplaceNew, OnBook, Ashore
<1>6. Stops(k, p, x, Q)
  BY <1>1, <1>3 DEF Stops, Asked, OutOf
<1>7. OrderLedger(k, p, x, T, Q, R)
  BY <1>1, <1>3, <1>4, <1>5, <1>6 DEF OrderLedger
<1>8. QED BY <1>1, <1>5, <1>7, EventApplied DEF T

(* The order goes on as it was, whatever the method made of the event. *)
LEMMA WithSame ==
    ASSUME NEW t \in TradeRec, NEW k \in Kinds
    PROVE  With(t, k, t.orders[k]) = t
<1>1. t.orders = [t.orders EXCEPT ![k] = t.orders[k]]
  BY DEF TradeRec
<1>2. t = [t EXCEPT !.orders = t.orders]
  BY DEF TradeRec
<1>3. QED BY <1>1, <1>2 DEF With

----------------------------------------------------------------------------
(* Each kind of event; m is the market price *)

(* What an order's method returned, within the trade. *)
LEMMA OnOrderTyped ==
    ASSUME NEW t \in TradeRec, NEW k \in Kinds, NEW r, Sound(t.orders[k], r)
    PROVE  OnOrder(t, k, r).t = With(t, k, r.o) /\ OnOrder(t, k, r).t \in TradeRec
BY OnOrderSound DEF OnOrder, TradeSound, TradeEvolves

(* The order is opened, under the number it asked for. *)
LEMMA NewLedger ==
    ASSUME NEW t \in TradeRec, NEW X, NEW E \in Seq(Event), E # <<>>, NEW Q, NEW R,
           Known(t, X, E, Q, R), NEW k \in Kinds, k = E[1].order, Pipe(k, X[k], E, Q),
           NEW m \in Int \ {0}, E[1].kind = "New", t.orders[k].seq = E[1].seq
    PROVE  Follows(t, TradeConfirmOpened(t, k, m), X, E, Q, R)
<1> DEFINE o == t.orders[k]
           r == ConfirmOpened(o, m)
           c == OnOrder(t, k, r)
           q(b) == [o EXCEPT !.state = "Opened", !.created = b]
<1>1. o \in OrderRec /\ Sound(o, r)
  BY TradeOrders, SoundConfirms
<1>2. c.t = With(t, k, r.o) /\ c.t \in TradeRec
  BY <1>1, OnOrderTyped
<1>3. /\ 1 \in Places(k, E) /\ ~Second(E, 1) /\ Out(k, X[k], E, Q)
  BY HeadPlace
<1>4. o.state \in {"PendingOpen", "CancelledAndPendingReplace"}
  BY <1>3 DEF Known, OrderLedger
<1>5. Settled(o) /\ Idles(o) /\ ~CreateNew(o)
  BY <1>3, OutNotNew DEF Known, TradeBook
<1>6. \A b \in BOOLEAN : /\ q(b).state = "Opened" /\ q(b).instr = o.instr
                        /\ q(b).seq = o.seq /\ q(b).stop = o.stop
  BY <1>1 DEF OrderRec
<1> HIDE DEF r
<1>7. /\ Idles(r.o)
      /\ \/ r.o = o /\ ~r.ok
         \/ o.state = "PendingOpen" /\ \E b \in BOOLEAN : (r.ok => b) /\ Stays(q(b), r.o)
  BY <1>1, <1>4, <1>5, OpenedMoves DEF r
<1>11. \A b \in BOOLEAN : q(b).created = b
  BY <1>1 DEF OrderRec
<1> HIDE DEF q
<1>8. ASSUME r.o = o
      PROVE  Known(c.t, X, Tail(E), Q, R)
  <2>1. Stays(o, r.o) /\ Keeps(o, r.o)
    BY <1>1, <1>5, <1>8, StaysRefl DEF Sound, Evolves
  <2>2. ~IsPair(E, 1)
    BY DEF IsPair
  <2>3. Known(c.t, X, Tail(E), Q, R)
    BY <1>2, <1>3, <1>7, <2>1, <2>2, EventStays
  <2>4. QED BY <2>3
<1>9. ASSUME r.o # o
      PROVE  Known(c.t, X, Tail(E), Q, R)
  <2>1. PICK b \in BOOLEAN : Stays(q(b), r.o)
    BY <1>7, <1>9
  <2>2. X[k].status = "open" => o.stop = X[k].stop
    BY <1>7, <1>9 DEF Known, OrderLedger, Stops
  <2>3. Known(c.t, X, Tail(E), Q, R)
    BY <1>2, <1>6, <1>7, <2>1, <2>2, NewApplied
  <2>4. QED BY <2>3
<1>10. r.ok => r.o.created /\ r.o.state \in OnBook
  BY <1>6, <1>7, <1>11 DEF Stays, OnBook
<1>12. r.ok => Agrees(k, r.o, X[k], Tail(E))
  BY <1>10, AgreesOpen DEF EndsOrder
<1>13. Follows(t, c, X, E, Q, R)
  BY <1>2, <1>8, <1>9, <1>12, FollowsWith
<1> HIDE DEF c
<1>14. TradeConfirmOpened(t, k, m) = StatusThenCompute(c, StatusOf(k), m)
  BY DEF TradeConfirmOpened, c, r
<1>15. QED BY <1>2, <1>13, <1>14, StatusOfKind, KnownStatus, FollowsAfter DEF Follows

(* The order is replaced, under the number that is announced. *)
LEMMA ReplacedLedger ==
    ASSUME NEW t \in TradeRec, NEW X, NEW E \in Seq(Event), E # <<>>, NEW Q, NEW R,
           Known(t, X, E, Q, R), NEW k \in Kinds, k = E[1].order, Pipe(k, X[k], E, Q),
           NEW m \in Int \ {0}, E[1].kind = "New"
    PROVE  Follows(t, TradeConfirmReplaced(t, k, E[1], m), X, E, Q, R)
<1> DEFINE o == t.orders[k]
           e == E[1]
           r == ConfirmReplaced(o, e, m)
           c == OnOrder(t, k, r)
<1>0. e \in Event
  OBVIOUS
<1>1. e.seq \in 0..MaxSeq /\ e.stop \in Int /\ e.qty \in Int /\ e.filled \in Nat
  BY <1>0 DEF Event
<1>2. o \in OrderRec /\ Sound(o, r)
  BY <1>1, TradeOrders, SoundReplaced
<1>3. c.t = With(t, k, r.o) /\ c.t \in TradeRec
  BY <1>2, OnOrderTyped
<1>4. /\ 1 \in Places(k, E) /\ ~Second(E, 1) /\ Out(k, X[k], E, Q)
  BY HeadPlace
<1>5. /\ o.state \in {"PendingOpen", "CancelledAndPendingReplace"}
      /\ o.state = "CancelledAndPendingReplace" => o.instr.st # "New"
  BY <1>4 DEF Known, OrderLedger
<1>6. Settled(o) /\ Idles(o)
  BY DEF Known, TradeBook
<1>7. /\ Idles(r.o)
      /\ \/ r.o = o /\ ~r.ok
         \/ \E q \in OrderRec : /\ q.state = "Opened" /\ q.seq = e.seq /\ q.stop = e.stop
                                /\ q.instr = o.instr /\ q.created /\ Stays(q, r.o)
  BY <1>1, <1>2, <1>5, <1>6, ReplacedMoves
<1> HIDE DEF r
<1>8. ASSUME r.o = o
      PROVE  Known(c.t, X, Tail(E), Q, R)
  <2>1. Stays(o, r.o) /\ Keeps(o, r.o)
    BY <1>2, <1>6, <1>8, StaysRefl DEF Sound, Evolves
  <2>2. ~IsPair(E, 1)
    BY DEF IsPair
  <2>3. Known(c.t, X, Tail(E), Q, R)
    BY <1>3, <1>4, <1>7, <2>1, <2>2, EventStays
  <2>4. QED BY <2>3
<1>9. ASSUME r.o # o
      PROVE  Known(c.t, X, Tail(E), Q, R)
  <2>1. PICK q \in OrderRec : /\ q.state = "Opened" /\ q.seq = e.seq /\ q.stop = e.stop
                              /\ q.instr = o.instr /\ Stays(q, r.o)
    BY <1>7, <1>9
  <2>4. X[k].status = "open" => e.stop = X[k].stop
    BY <1>4 DEF Pipe, Alike
  <2>2. Known(c.t, X, Tail(E), Q, R)
    BY <1>3, <1>7, <2>1, <2>4, NewApplied
  <2>3. QED BY <2>2
<1>10. r.ok => r.o.created /\ r.o.state \in OnBook
  BY <1>7 DEF Stays, OnBook
<1>11. r.ok => Agrees(k, r.o, X[k], Tail(E))
  BY <1>10, AgreesOpen DEF EndsOrder
<1>12. Follows(t, c, X, E, Q, R)
  BY <1>3, <1>8, <1>9, <1>11, FollowsWith
<1> HIDE DEF c
<1>13. TradeConfirmReplaced(t, k, e, m) = StatusThenCompute(c, StatusOf(k), m)
  BY DEF TradeConfirmReplaced, c, r
<1>14. QED BY <1>3, <1>12, <1>13, StatusOfKind, KnownStatus, FollowsAfter DEF Follows

(* The order is filled, in part or in full. *)
LEMMA FilledLedger ==
    ASSUME NEW t \in TradeRec, NEW X, NEW E \in Seq(Event), E # <<>>, NEW Q, NEW R,
           Known(t, X, E, Q, R), NEW k \in Kinds, k = E[1].order, Pipe(k, X[k], E, Q),
           NEW m \in Int \ {0}, E[1].kind = "Fill"
    PROVE  Follows(t, TradeConfirmFilled(t, k, E[1].filled, E[1].full, m), X, E, Q, R)
<1> DEFINE o == t.orders[k]
           e == E[1]
           r == ConfirmFilled(o, e.filled, e.full, m)
           c == OnOrder(t, k, r)
<1>1. e \in Event
  OBVIOUS
<1>2. e.filled \in Nat /\ e.full \in BOOLEAN
  BY <1>1 DEF Event
<1>3. o \in OrderRec /\ Sound(o, r)
  BY <1>2, TradeOrders, SoundFilled
<1>4. c.t = With(t, k, r.o) /\ c.t \in TradeRec
  BY <1>3, OnOrderTyped
<1>5. Out(k, X[k], E, Q) /\ ~IsPair(E, 1)
  BY HeadPlace DEF IsPair
<1>6. Settled(o) /\ Idles(o) /\ ~Ashore(o)
  BY <1>5, OutNotNew DEF Known, TradeBook
<1>7. /\ Idles(r.o)
      /\ (Stays(o, r.o) /\ (e.full => ~r.ok)) \/ (e.full /\ Settled(r.o) /\ ~r.o.created)
  BY <1>2, <1>3, <1>6, FilledMoves
<1> HIDE DEF r
<1>8. ASSUME Stays(o, r.o) /\ (e.full => ~r.ok)
      PROVE  Follows(t, c, X, E, Q, R)
  <2>1. Keeps(o, r.o)
    BY <1>3 DEF Sound, Evolves
  <2>2. Known(c.t, X, Tail(E), Q, R)
    BY <1>4, <1>5, <1>7, <1>8, <2>1, EventStays
  <2>3. ASSUME r.ok, Agrees(k, o, X[k], E) PROVE Agrees(k, r.o, X[k], Tail(E))
    <3>1. o.created /\ o.state \in OnBook
      BY <2>3, AgreesFirst DEF Agrees
    <3>2. r.o.created /\ r.o.state \in OnBook
      BY <1>8, <3>1 DEF Stays
    <3>3. ~EndsOrder(E[1])
      BY <1>8, <2>3 DEF EndsOrder
    <3>4. QED BY <3>2, <3>3, AgreesOpen
  <2>4. QED BY <1>4, <2>2, <2>3, FollowsWith
<1>9. ASSUME e.full /\ Settled(r.o) /\ ~r.o.created
      PROVE  Follows(t, c, X, E, Q, R)
  <2>1. EndsOrder(E[1])
    BY <1>9 DEF EndsOrder
  <2>2. Known(c.t, X, Tail(E), Q, R)
    BY <1>4, <1>5, <1>7, <1>9, <2>1, LastEvent
  <2>3. Agrees(k, r.o, X[k], Tail(E))
    BY <1>9, <2>1, AgreesOver
  <2>4. QED BY <1>4, <2>2, <2>3, FollowsWith
<1>10. Follows(t, c, X, E, Q, R)
  BY <1>7, <1>8, <1>9
<1> HIDE DEF c
<1> DEFINE f == ThenComputeTrade(Offered(c, k), m)
<1>11. TradeConfirmFilled(t, k, e.filled, e.full, m) = f
  BY DEF TradeConfirmFilled, c, r
<1>12. Known(c.t, X, Tail(E), Q, R)
  BY <1>10 DEF Follows
<1>13. Known(f.t, X, Tail(E), Q, R) /\ After(c, f)
  BY <1>4, <1>12, KnownOffered, Zenon
<1> HIDE DEF f, e
<1>14. Follows(t, f, X, E, Q, R)
  BY <1>10, <1>13, FollowsAfter
<1>15. QED BY <1>11, <1>14 DEF e

(* The order is cancelled, for good or to be replaced. *)
LEMMA CancelledLedger ==
    ASSUME NEW t \in TradeRec, NEW X, NEW E \in Seq(Event), E # <<>>, NEW Q, NEW R,
           Known(t, X, E, Q, R), NEW k \in Kinds, k = E[1].order, Pipe(k, X[k], E, Q),
           NEW m \in Int \ {0}, E[1].kind \in {"Cancelled", "Expired"}
    PROVE  Follows(t, TradeConfirmCancelled(t, k, m), X, E, Q, R)
<1> DEFINE o == t.orders[k]
           r == ConfirmCancelled(o, m)
           c == OnOrder(t, k, r)
<1>1. o \in OrderRec /\ Sound(o, r)
  BY TradeOrders, SoundConfirms
<1>2. c.t = With(t, k, r.o) /\ c.t \in TradeRec
  BY <1>1, OnOrderTyped
<1>3. Out(k, X[k], E, Q) /\ EndsOrder(E[1]) /\ 1 \in Places(k, E)
  BY HeadPlace DEF EndsOrder
<1>4. Settled(o) /\ Idles(o) /\ ~Ashore(o)
  BY <1>3, OutNotNew DEF Known, TradeBook
<1>5. /\ Settled(r.o) /\ Idles(r.o)
      /\ r.ok => ~r.o.created \/ (r.o = o /\ o.state = "CancelledAndPendingReplace")
      /\ o.toReplace /\ o.state = "PendingCancel" =>
            /\ r.o.state = "CancelledAndPendingReplace"
            /\ r.o.instr.st = "New" => r.o.instr = o.instr
  BY <1>1, <1>4, CancelledMoves
<1> HIDE DEF r
<1>6. "Idle" \in TradeStatus
  BY DEF TradeStatus
<1>7. ASSUME IsPair(E, 1)
      PROVE  Known(c.t, X, Tail(E), Q, R)
  <2>1. o.toReplace /\ o.state = "PendingCancel"
    BY <1>3, <1>7 DEF Known, OrderLedger
  <2>2. Known(c.t, X, Tail(E), Q, R)
    BY <1>2, <1>5, <1>7, <2>1, PairApplied
  <2>3. QED BY <2>2
<1>8. ASSUME ~IsPair(E, 1)
      PROVE  Known(c.t, X, Tail(E), Q, R)
  <2>1. Known(c.t, X, Tail(E), Q, R)
    BY <1>2, <1>3, <1>5, <1>8, LastEvent
  <2>2. QED BY <2>1
<1>9. ASSUME r.ok, Agrees(k, o, X[k], E) PROVE Agrees(k, r.o, X[k], Tail(E))
  <2>1. o.state \in OnBook
    BY <1>9, AgreesFirst DEF Agrees
  <2>2. ~r.o.created
    BY <1>5, <1>9, <2>1 DEF OnBook
  <2>3. QED BY <1>3, <2>2, AgreesOver
<1>10. Follows(t, c, X, E, Q, R)
  BY <1>2, <1>7, <1>8, <1>9, FollowsWith
<1> HIDE DEF c
<1>11. TradeConfirmCancelled(t, k, m) = StatusThenCompute(c, "Idle", m)
  BY DEF TradeConfirmCancelled, c, r
<1>12. QED BY <1>2, <1>6, <1>10, <1>11, KnownStatus, FollowsAfter DEF Follows

(* The trader refuses an expiry and a rejection. *)
LEMMA IgnoredLedger ==
    ASSUME NEW t \in TradeRec, NEW X, NEW E \in Seq(Event), E # <<>>, NEW Q, NEW R,
           Known(t, X, E, Q, R), NEW k \in Kinds,
           NEW m \in Int \ {0}, E[1].kind \in {"Expired", "Rejected"}
    PROVE  /\ Follows(t, TradeConfirmExpired(t, k, m), X, E, Q, R)
           /\ Follows(t, TradeConfirmRejected(t, k, m), X, E, Q, R)
<1> DEFINE o == t.orders[k]
<1>1. Settled(o)
  BY DEF Known, TradeBook
<1>2. ConfirmExpired(o, m) = Err(o) /\ ConfirmRejected(o, m) = Err(o)
  BY <1>1, RefusedMoves
<1>3. OnOrder(t, k, Err(o)) = TErr(t)
  BY WithSame DEF OnOrder, Err, TErr
<1>4. TradeConfirmExpired(t, k, m) = TErr(t) /\ TradeConfirmRejected(t, k, m) = TErr(t)
  BY <1>2, <1>3 DEF TradeConfirmExpired, TradeConfirmRejected, StatusThenCompute, TErr
<1>5. ~IsPair(E, 1)
  BY DEF IsPair
<1>6. Known(t, X, Tail(E), Q, R)
  BY <1>5, EventIgnored
<1>7. QED BY <1>4, <1>6, FollowsError

(* The failure to open an order that nothing is out of, confirmed by the client. *)
LEMMA OpenFailedLedger ==
    ASSUME NEW t \in TradeRec, NEW X, NEW E, NEW Q, NEW R, Known(t, X, E, Q, R),
           NEW k \in Kinds, ~Live(k, X[k], Q), Places(k, E) = {}, Refused(k, t.orders[k], R),
           NEW m \in Int \ {0}
    PROVE  LET u == TradeConfirmOpenFailed(t, k, m).t
           IN  /\ Known(u, X, E, Q, R) /\ u \in TradeRec /\ Refused(k, u.orders[k], R)
               /\ TradeAgrees(t, X, E) => TradeAgrees(u, X, E)
<1> DEFINE o == t.orders[k]
           r == ConfirmOpenFailed(o, m)
           c == OnOrder(t, k, r)
           u == TradeConfirmOpenFailed(t, k, m).t
           U == OutOrders(X, E, Q)
<1>1. o \in OrderRec /\ Sound(o, r)
  BY TradeOrders, SoundConfirms
<1>2. c.t = With(t, k, r.o) /\ c.t \in TradeRec
  BY <1>1, OnOrderTyped
<1>3. k \notin U
  BY DEF OutOrders, Out
<1>4. Settled(o) /\ Idles(o)
  BY DEF Known, TradeBook
<1>5. ~CreateNew(o)
  BY DEF Refused, CreateNew
<1>6. Idles(r.o) /\ (r.o = o \/ (o.state = "PendingOpen" /\ Stays([o EXCEPT !.state = "OpenFailed"], r.o)))
  BY <1>1, <1>4, <1>5, OpenFailedMoves
<1>7. Known(c.t, X, E, Q, R)
  <2>1. CASE r.o = o
    BY <1>2, <2>1, WithSame
  <2>2. CASE o.state = "PendingOpen" /\ Stays([o EXCEPT !.state = "OpenFailed"], r.o)
    <3>1. TradeBook(With(t, k, r.o), U)
      BY <1>3, <1>6, <2>2, BookRefused DEF Known
    <3>2. \A j \in Kinds : With(t, k, r.o).orders[j] = IF j = k THEN r.o ELSE t.orders[j]
      BY WithFields
    <3>3. OrderLedger(k, r.o, X[k], E, Q, R)
      BY QuietLedger
    <3>4. QED BY <1>2, <3>1, <3>2, <3>3 DEF Known
  <2>3. QED BY <1>6, <2>1, <2>2
<1>8. Known(u, X, E, Q, R) /\ TradeStays(c.t, u)
  BY <1>2, <1>7, KnownFails DEF TradeConfirmOpenFailed
<1>9. TradeEvolves(t, u)
  BY ConfirmOpenFailedSound DEF TradeSound
<1>10. u \in TradeRec /\ Keeps(o, u.orders[k])
  BY <1>9 DEF TradeEvolves, Evolves
<1>11. ASSUME TradeAgrees(t, X, E) PROVE TradeAgrees(u, X, E)
  <2>1. ~o.created /\ X[k].status # "open"
    BY <1>11 DEF TradeAgrees, Agrees, Live
  <2>2. [o EXCEPT !.state = "OpenFailed"].created = o.created
    BY <1>1 DEF OrderRec
  <2>3. ~r.o.created
    BY <1>6, <2>1, <2>2 DEF Stays
  <2>4. Agrees(k, r.o, X[k], E)
    BY <2>1, <2>3 DEF Agrees
  <2>5. \A j \in Kinds : With(t, k, r.o).orders[j] = IF j = k THEN r.o ELSE t.orders[j]
    BY WithFields
  <2>6. TradeAgrees(c.t, X, E)
    BY <1>2, <1>11, <2>4, <2>5 DEF TradeAgrees
  <2>7. QED BY <1>8, <2>6, StaysAgrees
<1>12. QED BY <1>8, <1>10, <1>11, KeepsRefused

(* A rejection that the client takes for a failure to open, confirmed twice. *)
LEMMA RejectedLedger ==
    ASSUME NEW t \in TradeRec, NEW X, NEW E \in Seq(Event), E # <<>>, NEW Q, NEW R,
           Known(t, X, E, Q, R), NEW k \in Kinds, k = E[1].order, Pipe(k, X[k], E, Q),
           price \in Int \ {0}, E[1].kind = "Rejected"
    PROVE  Follows(t, ConfirmOpenFailedTwice(t, k), X, E, Q, R)
<1> DEFINE r == TradeConfirmOpenFailed(t, k, price)
<1>1. 1 \in Places(k, E) /\ Places(k, Tail(E)) = {} /\ ~Live(k, X[k], Q)
  BY HeadPlace
<1>2. Refused(k, t.orders[k], R)
  BY <1>1 DEF Known, OrderLedger
<1>3. Known(t, X, Tail(E), Q, R)
  BY EventIgnored DEF IsPair
<1>4. /\ Known(r.t, X, Tail(E), Q, R) /\ r.t \in TradeRec /\ Refused(k, r.t.orders[k], R)
      /\ TradeAgrees(t, X, Tail(E)) => TradeAgrees(r.t, X, Tail(E))
  BY <1>1, <1>2, <1>3, OpenFailedLedger
<1> HIDE DEF r
<1>5. LET u == TradeConfirmOpenFailed(r.t, k, price).t
      IN  /\ Known(u, X, Tail(E), Q, R)
          /\ TradeAgrees(r.t, X, Tail(E)) => TradeAgrees(u, X, Tail(E))
  BY <1>1, <1>4, OpenFailedLedger
<1>6. ASSUME TradeAgrees(t, X, E) PROVE TradeAgrees(t, X, Tail(E))
  <2>1. ~t.orders[k].created
    BY <1>6, AgreesFirst DEF TradeAgrees
  <2>2. Agrees(k, t.orders[k], X[k], Tail(E))
    BY <2>1, AgreesOver
  <2>3. QED BY <1>6, <2>2, WithAgrees, WithSame
<1>7. ConfirmOpenFailedTwice(t, k) \in {r, TradeConfirmOpenFailed(r.t, k, price)}
  BY DEF ConfirmOpenFailedTwice, r
<1>8. QED BY <1>4, <1>5, <1>6, <1>7 DEF Follows

(* Whoever routes it, an event leaves the trade with what it should know of the
   events that are left.                                                     *)
LEMMA EventLedger ==
    ASSUME IInv, price \in Int \ {0}, events # <<>>, TradeLedger(trade, ex, events, requests, results),
           NEW router
    PROVE  LET r == ConfirmEvent(router, events[1])
           IN  /\ TradeLedger(r.t, ex, Tail(events), requests, results)
               /\ r.ok /\ Seen(trade, ex, events) => Seen(r.t, ex, Tail(events))
<1> DEFINE e == events[1]
           k == e.order
           r == ConfirmEvent(router, e)
           T == Tail(events)
<1>1. trade \in TradeRec /\ events \in Seq(Event) /\ price \in Int
  BY EnvAssumption DEF IInv, TypeOK
<1>2. e \in Event
  BY <1>1
<1>3. k \in Kinds /\ e.kind \in EventKind
  BY <1>2 DEF Event
<1>4. \A j \in Kinds : Pipe(j, ex[j], events, requests) /\ Pipe(j, ex[j], T, requests)
  BY <1>1, TailPipe DEF TradeLedger
<1>5. r.t.tracked = trade.tracked
  BY <1>1, <1>2, EventSound DEF TradeSound, TradeEvolves
<1>6. CASE ~trade.tracked
  <2>1. OutOrders(ex, T, requests) \subseteq OutOrders(ex, events, requests)
    BY <1>1, TailOut DEF OutOrders
  <2>2. QED BY <1>4, <1>5, <1>6, <2>1 DEF TradeLedger, Seen
<1>7. CASE trade.tracked
  <2> DEFINE Fw(c) == Follows(trade, c, ex, events, requests, results)
  <2> SUFFICES Fw(r)
    BY <1>4, <1>5, <1>7 DEF Follows, TradeLedger, Seen
  <2>1. Known(trade, ex, events, requests, results)
    BY <1>7 DEF TradeLedger
  <2>2. Pipe(k, ex[k], events, requests)
    BY <1>3, <1>4
  <2>3. CASE ~IsKnown(router, e)
    <3>1. r = TErr(trade)
      BY <2>3 DEF ConfirmEvent
    <3>2. ~IsPair(events, 1)
      <4> SUFFICES ASSUME IsPair(events, 1) PROVE FALSE
        OBVIOUS
      <4>1. 1 \in Places(k, events)
        BY <1>1, <2>2, HeadPlace
      <4>2. e.seq = trade.orders[k].seq /\ e.kind # "New"
        BY <1>3, <2>1, <4>1 DEF Known, OrderLedger, IsPair
      <4>3. QED BY <1>7, <2>3, <4>2 DEF IsKnown, IsReplacement
    <3>3. Known(trade, ex, T, requests, results)
      BY <1>1, <2>1, <3>2, EventIgnored
    <3>4. QED BY <3>1, <3>3, FollowsError
  <2>4. CASE IsKnown(router, e) /\ e.kind = "New"
    <3>1. r = ConfirmNew(router, e)
      BY <2>4 DEF ConfirmEvent
    <3>2. ~IsReplacement(router, e) => trade.orders[k].seq = e.seq
      BY <2>4 DEF IsKnown
    <3>3. CASE IsReplacement(router, e)
      <4>1. Fw(TradeConfirmReplaced(trade, k, e, price))
        BY <1>1, <1>3, <2>1, <2>2, <2>4, ReplacedLedger
      <4>2. QED BY <3>1, <3>3, <4>1 DEF ConfirmNew
    <3>4. CASE ~IsReplacement(router, e)
      <4>1. Fw(TradeConfirmOpened(trade, k, price))
        BY <1>1, <1>3, <2>1, <2>2, <2>4, <3>2, <3>4, NewLedger
      <4>2. QED BY <3>1, <3>4, <4>1 DEF ConfirmNew
    <3>5. QED BY <3>3, <3>4
  <2>5. CASE IsKnown(router, e) /\ e.kind = "Fill"
    <3>1. r = TradeConfirmFilled(trade, k, e.filled, e.full, price)
      BY <2>5 DEF ConfirmEvent
    <3>2. Fw(TradeConfirmFilled(trade, k, e.filled, e.full, price))
      BY <1>1, <1>3, <2>1, <2>2, <2>5, FilledLedger
    <3>3. QED BY <3>1, <3>2
  <2>6. CASE IsKnown(router, e) /\ e.kind \in {"Cancelled", "Expired"}
    <3>1. r = ConfirmEnd(router, e)
      BY <2>6 DEF ConfirmEvent
    <3>2. Fw(TradeConfirmCancelled(trade, k, price))
      BY <1>1, <1>3, <2>1, <2>2, <2>6, CancelledLedger
    <3>3. e.kind = "Expired" => Fw(TradeConfirmExpired(trade, k, price))
      BY <1>1, <1>3, <2>1, IgnoredLedger
    <3>4. QED BY <3>1, <3>2, <3>3 DEF ConfirmEnd
  <2>7. CASE IsKnown(router, e) /\ e.kind = "Rejected"
    <3>1. r = ConfirmRejection(router, e)
      BY <2>7 DEF ConfirmEvent
    <3>2. Fw(TradeConfirmRejected(trade, k, price))
      BY <1>1, <1>3, <2>1, <2>7, IgnoredLedger
    <3>3. Fw(ConfirmOpenFailedTwice(trade, k))
      BY <1>1, <1>3, <2>1, <2>2, <2>7, RejectedLedger
    <3>4. QED BY <3>1, <3>2, <3>3 DEF ConfirmRejection
  <2>8. QED BY <1>3, <2>3, <2>4, <2>5, <2>6, <2>7 DEF EventKind
<1>8. QED BY <1>6, <1>7

----------------------------------------------------------------------------
(* The result of an instruction *)

(* A result leaves the trade with what it knew: a failure to open that is
   taken from the results is remembered by the termination of the order.     *)
LEMMA ResultLedger ==
    ASSUME IInv, price \in Int \ {0}, TradeLedger(trade, ex, events, requests, results),
           NEW res \in results
    PROVE  /\ TradeLedger(ConfirmResult(res).t, ex, events, requests, results \ {res})
           /\ Seen(trade, ex, events) => Seen(ConfirmResult(res).t, ex, events)
<1> DEFINE k == res.order
           r == ConfirmResult(res)
           u == r.t
           S == results \ {res}
<1>1. /\ res \in Result /\ k \in Kinds /\ res.success \in BOOLEAN
      /\ trade \in TradeRec /\ price \in Int
  BY EnvAssumption DEF IInv, TypeOK, Result
<1>2. CASE ~trade.tracked
  BY <1>1, <1>2 DEF ConfirmResult, TErr, TradeLedger, Seen
<1>3. CASE trade.tracked
  <2> DEFINE o == trade.orders[k]
  <2>1. OrderInFlight(o, k, requests, results)
    BY <1>1, <1>3, IInvInFlight DEF IInv, InFlight
  <2>2. res \in OutOf(k, results)
    BY DEF OutOf
  <2>3. o.instr.st = "Running" /\ OutOf(k, results) = {res} /\ res.id = o.instr.id
    BY <2>1, <2>2 DEF OrderInFlight
  <2>4. u = ConfirmExecution(trade, k, o.instr.id, res.success, price).t
    BY <1>3, <2>3 DEF ConfirmResult
  <2>5. Ends(trade, k, u)
    BY <1>1, <2>3, <2>4, ExecutionEndsTrade
  <2>6. Known(trade, ex, events, requests, results)
    BY <1>3 DEF TradeLedger
  <2>7. /\ Minds(trade, u, OutOrders(ex, events, requests))
        /\ ~res.success => u.orders[k].term /\ u.orders[k].instr.kind # "CreateOrder"
    BY <1>1, <2>3, <2>4, <2>6, BookExecution, ZenonT(40) DEF Known
  <2> HIDE DEF u, r
  <2>8. ASSUME NEW j \in Kinds, Refused(j, trade.orders[j], results)
        PROVE  Refused(j, u.orders[j], S)
    <3> DEFINE f == [order |-> j, id |-> trade.orders[j].instr.id, success |-> FALSE]
    <3>1. CASE j # k
      <4>1. Keeps(trade.orders[j], u.orders[j])
        BY <2>5, <3>1 DEF Ends
      <4>2. f # res
        BY <3>1
      <4>3. Refused(j, trade.orders[j], S)
        BY <2>8, <4>2 DEF Refused
      <4>4. QED BY <4>1, <4>3, KeepsRefused
    <3>2. CASE j = k /\ o.instr.kind = "CreateOrder"
      <4>1. f \in results
        BY <2>8, <3>2 DEF Refused
      <4>2. f \in OutOf(k, results)
        BY <3>2, <4>1 DEF OutOf
      <4>3. res = f
        BY <2>3, <4>2
      <4>4. ~res.success
        BY <4>3
      <4>5. QED BY <2>7, <3>2, <4>4 DEF Refused
    <3>3. CASE j = k /\ o.instr.kind # "CreateOrder"
      <4>1. o.term
        BY <2>8, <3>3 DEF Refused
      <4>2. OpensNothing(o, u.orders[k])
        BY <1>1, <2>5 DEF Ends
      <4>3. QED BY <3>3, <4>1, <4>2 DEF OpensNothing, Refused
    <3>4. QED BY <3>1, <3>2, <3>3
  <2>9. ASSUME NEW j \in Kinds
        PROVE  OrderLedger(j, u.orders[j], ex[j], events, requests, S)
    <3>1. Stays(trade.orders[j], u.orders[j])
      BY <2>7 DEF Minds, TradeStays
    <3>2. Out(j, ex[j], events, requests)
             => ~Ashore(trade.orders[j]) /\ ~CreateNew(trade.orders[j])
      BY <2>6, OutNotNew DEF Known
    <3>3. /\ OrderLedger(j, trade.orders[j], ex[j], events, requests, results)
          /\ Settled(trade.orders[j])
      BY <2>6 DEF Known, TradeBook
    <3>4. QED BY <2>8, <3>1, <3>2, <3>3, LedgerStays
  <2>10. u.tracked = trade.tracked
    BY <2>5 DEF Ends
  <2>11. Known(u, ex, events, requests, S)
    BY <2>7, <2>9 DEF Known, Minds
  <2>12. TradeLedger(u, ex, events, requests, S)
    BY <1>3, <2>10, <2>11 DEF TradeLedger
  <2>13. Seen(trade, ex, events) => Seen(u, ex, events)
    BY <2>7, <2>10, StaysAgrees DEF Seen, Minds
  <2>14. QED BY <2>12, <2>13 DEF u, r
<1>4. QED BY <1>2, <1>3

----------------------------------------------------------------------------
(* The exchange: one more event *)

(* The places of the events when e is added to them. *)
LEMMA AppendPlaces ==
    ASSUME NEW E \in Seq(Event), NEW e \in Event, NEW j
    PROVE  LET F == Append(E, e)
               l == Len(E) + 1
           IN  /\ F \in Seq(Event) /\ Len(F) = l /\ l \in Nat /\ F[l] = e /\ ~IsPair(F, l)
               /\ e.order = j => l \in Places(j, F)
               /\ \A n \in Places(j, F) : n \in Places(j, E) \/ (n = l /\ e.order = j)
               /\ \A n \in Places(j, E) :
                     /\ n \in Places(j, F) /\ n \in Nat /\ n >= 1 /\ n < l /\ F[n] = E[n]
                     /\ Second(F, n) <=> Second(E, n)
                     /\ IsPair(E, n) => IsPair(F, n)
                     /\ e.kind # "New" \/ e.order # j => (IsPair(F, n) <=> IsPair(E, n))
<1> DEFINE F == Append(E, e)
           l == Len(E) + 1
<1>1. F \in Seq(Event) /\ Len(F) = l /\ Len(E) \in Nat /\ l \in Nat /\ F[l] = e
  OBVIOUS
<1>2. \A n \in 1..Len(E) : F[n] = E[n] /\ n \in 1..Len(F) /\ n \in Nat /\ n >= 1 /\ n < l
  BY <1>1
<1>3. \A n \in 1..Len(F) : n \in 1..Len(E) \/ n = l
  BY <1>1
<1>4. l \in 1..Len(F) /\ l + 1 \notin 1..Len(F)
  BY <1>1
<1> HIDE DEF F
<1>5. \A n \in 1..Len(E) : n + 1 \in 1..Len(F) /\ (n + 1 \in 1..Len(E) \/ n + 1 = l)
  BY <1>1
<1>6. \A n \in 1..Len(E) : n + 1 \in 1..Len(E) => (IsPair(F, n) <=> IsPair(E, n))
  BY <1>2, <1>5 DEF IsPair
<1>7. \A n \in 1..Len(E) : n + 1 \notin 1..Len(E) => ~IsPair(E, n)
  BY DEF IsPair
<1>8. ASSUME NEW n \in Places(j, E)
      PROVE  /\ Second(F, n) <=> Second(E, n)
             /\ IsPair(E, n) => IsPair(F, n)
             /\ e.kind # "New" \/ e.order # j => (IsPair(F, n) <=> IsPair(E, n))
  <2>1. n \in 1..Len(E) /\ E[n].order = j /\ n \in Nat
    BY <1>2 DEF Places
  <2>2. Second(F, n) <=> Second(E, n)
    <3>1. CASE n > 1
      <4>1. n - 1 \in 1..Len(E) /\ n - 1 + 1 = n
        BY <1>1, <2>1, <3>1
      <4>2. IsPair(F, n - 1) <=> IsPair(E, n - 1)
        BY <1>6, <2>1, <4>1
      <4>3. QED BY <4>2 DEF Second
    <3>2. CASE ~(n > 1)
      BY <3>2 DEF Second
    <3>3. QED BY <3>1, <3>2
  <2>3. IsPair(E, n) => IsPair(F, n)
    BY <1>6, <1>7, <2>1
  <2>4. ASSUME e.kind # "New" \/ e.order # j, IsPair(F, n) PROVE IsPair(E, n)
    <3>1. n + 1 # l
      BY <1>1, <1>2, <2>1, <2>4 DEF IsPair
    <3>2. QED BY <1>5, <1>6, <2>1, <2>4, <3>1
  <2>5. QED BY <2>2, <2>3, <2>4
<1>9. ~IsPair(F, l)
  BY <1>4 DEF IsPair
<1>10. \A n \in Places(j, F) : n \in Places(j, E) \/ (n = l /\ e.order = j)
  BY <1>1, <1>2, <1>3 DEF Places
<1>11. \A n \in Places(j, E) : n \in Places(j, F) /\ n \in Nat /\ n >= 1 /\ n < l /\ F[n] = E[n]
  BY <1>2 DEF Places
<1>12. e.order = j => l \in Places(j, F)
  BY <1>1, <1>4 DEF Places
<1>13. QED BY <1>1, <1>8, <1>9, <1>10, <1>11, <1>12 DEF F

(* An event of one order changes nothing for the others. *)
LEMMA OtherAppend ==
    ASSUME NEW E \in Seq(Event), NEW e \in Event, NEW j, e.order # j,
           NEW x, NEW Q, NEW R, Pipe(j, x, E, Q)
    PROVE  /\ Pipe(j, x, Append(E, e), Q) /\ (Out(j, x, Append(E, e), Q) => Out(j, x, E, Q))
           /\ \A o : OrderLedger(j, o, x, E, Q, R) => OrderLedger(j, o, x, Append(E, e), Q, R)
<1> DEFINE F == Append(E, e)
<1>1. /\ \A n \in Places(j, F) : n \in Places(j, E)
      /\ \A n \in Places(j, E) : /\ n \in Places(j, F) /\ F[n] = E[n]
                                 /\ (Second(F, n) <=> Second(E, n))
                                 /\ (IsPair(F, n) <=> IsPair(E, n))
  BY AppendPlaces
<1> HIDE DEF F
<1>2. Pipe(j, x, F, Q)
  <2>1. Asked(j, "CreateOrder", Q) => x.status # "open" /\ Places(j, F) = {}
    BY <1>1 DEF Pipe
  <2>2. ASSUME NEW n \in Places(j, F)
        PROVE  /\ EndsOrder(F[n]) => IsPair(F, n) \/ (~Live(j, x, Q) /\ \A m \in Places(j, F) : m <= n)
               /\ F[n].kind = "New" => Second(F, n) \/ \A m \in Places(j, F) : n <= m
               /\ F[n].kind = "New" /\ x.status = "open" => Alike(F[n], x)
               /\ F[n].kind = "Rejected" => ~Live(j, x, Q) /\ \A m \in Places(j, F) : m = n
               /\ x.status # "open" /\ (\A m \in Places(j, F) : m <= n)
                     => F[n].kind = "Rejected" \/ EndsOrder(F[n])
    BY <1>1 DEF Pipe
  <2>3. \A n, m \in Places(j, F) : IsPair(F, n) /\ IsPair(F, m) => n = m
    BY <1>1 DEF Pipe
  <2>4. QED BY <2>1, <2>2, <2>3 DEF Pipe
<1>3. Out(j, x, F, Q) => Out(j, x, E, Q)
  BY <1>1 DEF Out
<1>4. ASSUME NEW o, OrderLedger(j, o, x, E, Q, R) PROVE OrderLedger(j, o, x, F, Q, R)
  BY <1>1, <1>4 DEF OrderLedger
<1>5. QED BY <1>2, <1>3, <1>4 DEF F

(* Less is asked for, and more is answered. *)
LEMMA FewerAsked ==
    ASSUME NEW Q, NEW S, S \subseteq Q, NEW R, NEW W, R \subseteq W,
           NEW k, NEW x, NEW E, Pipe(k, x, E, Q)
    PROVE  /\ Pipe(k, x, E, S) /\ (Out(k, x, E, S) => Out(k, x, E, Q))
           /\ \A o : OrderLedger(k, o, x, E, Q, R) => OrderLedger(k, o, x, E, S, W)
<1>1. \A kind : Asked(k, kind, S) => Asked(k, kind, Q)
  BY DEF Asked
<1>2. Live(k, x, S) => Live(k, x, Q)
  BY <1>1 DEF Live
<1>3. Pipe(k, x, E, S) /\ (Out(k, x, E, S) => Out(k, x, E, Q))
  BY <1>1, <1>2 DEF Pipe, Out
<1>4. ASSUME NEW o, OrderLedger(k, o, x, E, Q, R) PROVE OrderLedger(k, o, x, E, S, W)
  <2>1. Refused(k, o, R) => Refused(k, o, W)
    BY DEF Refused
  <2>2. Stops(k, o, x, S)
    BY <1>4 DEF OrderLedger, Stops, OutOf
  <2>3. QED BY <1>1, <1>4, <2>1, <2>2 DEF OrderLedger
<1>5. QED BY <1>3, <1>4

(* A fill, a cancellation or an expiry of an open order x, which becomes y. *)
LEMMA AppendEnd ==
    ASSUME NEW E \in Seq(Event), NEW e \in Event, NEW k, e.order = k,
           e.kind \in {"Fill", "Cancelled", "Expired"},
           NEW x, x.status = "open",
           NEW y, EndsOrder(e) => y.status # "open",
           ~EndsOrder(e) => y.status = "open" /\ Alike(y, x),
           NEW Q, NEW R, Pipe(k, x, E, Q)
    PROVE  /\ Pipe(k, y, Append(E, e), Q) /\ Out(k, x, E, Q)
           /\ \A o : OrderLedger(k, o, x, E, Q, R) => OrderLedger(k, o, y, Append(E, e), Q, R)
<1> DEFINE F == Append(E, e)
           l == Len(E) + 1
<1>1. /\ l \in Nat /\ F[l] = e /\ ~IsPair(F, l) /\ l \in Places(k, F)
      /\ \A n \in Places(k, F) : n \in Places(k, E) \/ n = l
      /\ \A n \in Places(k, E) : /\ n \in Places(k, F) /\ n \in Nat /\ n < l /\ F[n] = E[n]
                                 /\ (Second(F, n) <=> Second(E, n))
                                 /\ (IsPair(F, n) <=> IsPair(E, n))
  BY AppendPlaces
<1> HIDE DEF F, l
<1>2. Live(k, x, Q) /\ ~Asked(k, "CreateOrder", Q) /\ Out(k, x, E, Q)
  BY DEF Live, Pipe, Out
<1>3. EndsOrder(e) => ~Live(k, y, Q)
  BY <1>2 DEF Live
<1>4. Pipe(k, y, F, Q)
  <2>1. ASSUME NEW n \in Places(k, E)
        PROVE  /\ EndsOrder(F[n]) => IsPair(F, n)
               /\ F[n].kind = "New" => Second(F, n) \/ \A m \in Places(k, F) : n <= m
               /\ F[n].kind = "New" /\ y.status = "open" => Alike(F[n], y)
               /\ F[n].kind # "Rejected" /\ n < l
    <3>1. n \in Nat /\ n < l /\ F[n] = E[n] /\ l \in Nat
      BY <1>1
    <3>2. (\A m \in Places(k, E) : n <= m) => \A m \in Places(k, F) : n <= m
      BY <1>1, <3>1
    <3>3. QED BY <1>1, <1>2, <3>1, <3>2 DEF Pipe, Alike
  <2>2. EndsOrder(F[l]) => ~Live(k, y, Q) /\ \A m \in Places(k, F) : m <= l
    BY <1>1, <1>3
  <2>3. F[l].kind # "New" /\ F[l].kind # "Rejected"
    BY <1>1
  <2>4. \A n, m \in Places(k, F) : IsPair(F, n) /\ IsPair(F, m) => n = m
    BY <1>1 DEF Pipe
  <2>5. ASSUME y.status # "open", NEW n \in Places(k, F), \A m \in Places(k, F) : m <= n
        PROVE  F[n].kind = "Rejected" \/ EndsOrder(F[n])
    <3>1. n = l
      <4>1. l <= n /\ l \in Nat /\ (n \in Places(k, E) => n \in Nat /\ n < l)
        BY <1>1, <2>5
      <4>2. n \notin Places(k, E)
        BY <4>1
      <4>3. QED BY <1>1, <4>2
    <3>2. F[n] = e
      BY <1>1, <3>1
    <3>3. QED BY <2>5, <3>2
  <2>6. QED BY <1>1, <1>2, <2>1, <2>2, <2>3, <2>4, <2>5 DEF Pipe
<1>5. ASSUME NEW o, OrderLedger(k, o, x, E, Q, R) PROVE OrderLedger(k, o, y, F, Q, R)
  <2>1. (\A n \in Places(k, F) : ~IsPair(F, n)) => \A n \in Places(k, E) : ~IsPair(E, n)
    BY <1>1
  <2>2. ASSUME NEW n \in Places(k, F)
        PROVE  /\ F[n].kind = "Rejected" => Refused(k, o, R)
               /\ IsPair(F, n) =>
                     /\ o.toReplace /\ o.state = "PendingCancel" /\ o.instr.st # "New"
                     /\ F[n].seq = o.seq /\ ~Asked(k, "CancelReplaceOrder", Q)
               /\ F[n].kind = "New" =>
                     \/ Second(F, n)
                     \/ o.state = "PendingOpen"
                     \/ o.state = "CancelledAndPendingReplace" /\ o.instr.st # "New"
    <3>1. CASE n = l
      BY <1>1, <3>1
    <3>2. CASE n \in Places(k, E)
      BY <1>1, <1>5, <3>2 DEF OrderLedger
    <3>3. QED BY <1>1, <3>1, <3>2
  <2>3. y.status = "open" => Alike(y, x)
    OBVIOUS
  <2>4. Stops(k, o, y, Q)
    BY <1>5, <2>3 DEF OrderLedger, Stops, Alike
  <2>5. QED BY <1>2, <1>5, <2>1, <2>2, <2>3, <2>4 DEF OrderLedger, Alike
<1>6. QED BY <1>2, <1>4, <1>5 DEF F

(* An order is created and announced: y, open under the number of the event. *)
LEMMA AppendCreated ==
    ASSUME NEW E \in Seq(Event), NEW e \in Event, NEW k, e.order = k, e.kind = "New",
           NEW x, NEW y, Alike(e, y), y.status = "open",
           NEW Q, NEW S, NEW R, NEW W, NEW o, y.stop = o.stop,
           Pipe(k, x, E, Q), OrderLedger(k, o, x, E, Q, R), Asked(k, "CreateOrder", Q),
           OutOf(k, S) = {}, o.instr.st = "Running"
    PROVE  Pipe(k, y, Append(E, e), S) /\ OrderLedger(k, o, y, Append(E, e), S, W)
<1> DEFINE F == Append(E, e)
           l == Len(E) + 1
<1>1. Places(k, E) = {} /\ o.state = "PendingOpen"
  BY DEF Pipe, OrderLedger
<1>2. l \in Nat /\ F[l] = e /\ ~IsPair(F, l) /\ \A n \in Places(k, F) : n = l
  BY <1>1, AppendPlaces
<1> HIDE DEF F, l
<1>3. \A kind : ~Asked(k, kind, S)
  BY DEF Asked, OutOf
<1>4. \A n \in Places(k, F) : F[n].kind = "New" /\ Alike(F[n], y) /\ ~IsPair(F, n)
  BY <1>2
<1>5. Pipe(k, y, F, S)
  BY <1>2, <1>3, <1>4 DEF Pipe, EndsOrder
<1>6. Stops(k, o, y, S)
  BY DEF Stops
<1>7. OrderLedger(k, o, y, F, S, W)
  BY <1>1, <1>3, <1>4, <1>6 DEF OrderLedger, ReplaceNew, OnBook
<1>8. QED BY <1>5, <1>7 DEF F

(* The rejection of a request is announced, and reported. *)
LEMMA AppendRejected ==
    ASSUME NEW E \in Seq(Event), NEW e \in Event, NEW k, e.order = k, e.kind = "Rejected",
           NEW x, NEW Q, NEW S, NEW R, NEW W, NEW o,
           Pipe(k, x, E, Q), OrderLedger(k, o, x, E, Q, R), Asked(k, "CreateOrder", Q),
           OutOf(k, S) = {}, o.instr.st = "Running", Refused(k, o, W)
    PROVE  /\ Pipe(k, x, Append(E, e), S) /\ ~Out(k, x, Append(E, e), S)
           /\ OrderLedger(k, o, x, Append(E, e), S, W)
<1> DEFINE F == Append(E, e)
           l == Len(E) + 1
<1>1. Places(k, E) = {} /\ x.status # "open"
  BY DEF Pipe
<1>2. l \in Nat /\ F[l] = e /\ ~IsPair(F, l) /\ \A n \in Places(k, F) : n = l
  BY <1>1, AppendPlaces
<1> HIDE DEF F, l
<1>3. \A kind : ~Asked(k, kind, S)
  BY DEF Asked, OutOf
<1>4. \A n \in Places(k, F) : F[n].kind = "Rejected" /\ ~IsPair(F, n)
  BY <1>2
<1>5. ~Live(k, x, S)
  BY <1>1, <1>3 DEF Live
<1>6. Pipe(k, x, F, S) /\ ~Out(k, x, F, S)
  BY <1>2, <1>3, <1>4, <1>5 DEF Pipe, EndsOrder, Out
<1>7. Stops(k, o, x, S)
  BY <1>1 DEF Stops
<1>8. OrderLedger(k, o, x, F, S, W)
  BY <1>1, <1>3, <1>4, <1>7 DEF OrderLedger
<1>9. QED BY <1>6, <1>8 DEF F

(* An open order is replaced: c cancels it, and w announces y in its place. *)
LEMMA AppendReplaced ==
    ASSUME NEW E \in Seq(Event), NEW c \in Event, NEW w \in Event, NEW k,
           c.order = k, c.kind = "Cancelled", w.order = k, w.kind = "New",
           NEW x, x.status = "open", Alike(c, x), NEW y, y.status = "open", Alike(w, y),
           NEW Q, NEW S, NEW R, NEW W, NEW o,
           Pipe(k, x, E, Q), OrderLedger(k, o, x, E, Q, R), Asked(k, "CancelReplaceOrder", Q),
           OutOf(k, S) = {}, o.instr.st = "Running"
    PROVE  LET G == Append(Append(E, c), w)
           IN  Pipe(k, y, G, S) /\ OrderLedger(k, o, y, G, S, W) /\ Out(k, x, E, Q)
<1> DEFINE F == Append(E, c)
           G == Append(F, w)
           l == Len(E) + 1
<1>1. Live(k, x, Q) /\ Out(k, x, E, Q)
  BY DEF Live, Out
<1>2. o.toReplace /\ o.state = "PendingCancel"
  BY DEF OrderLedger
<1>3. \A n \in Places(k, E) : ~IsPair(E, n)
  BY DEF OrderLedger
<1>4. x.seq = o.seq /\ c.seq = o.seq
  BY <1>2, <1>3 DEF OrderLedger, OnBook, Alike
<1>5. ASSUME NEW n \in Places(k, E)
      PROVE  ~EndsOrder(E[n]) /\ E[n].kind # "New" /\ E[n].kind # "Rejected"
  <2>1. ~Second(E, n)
    <3> SUFFICES ASSUME Second(E, n) PROVE FALSE
      OBVIOUS
    <3>1. n \in 1..Len(E) /\ E[n].order = k /\ n > 1 /\ Len(E) \in Nat
      BY DEF Places, Second
    <3>2. n - 1 \in 1..Len(E) /\ n - 1 + 1 = n
      BY <3>1
    <3>3. IsPair(E, n - 1) /\ E[n - 1].order = k
      BY <3>1, <3>2 DEF Second, IsPair
    <3>4. n - 1 \in Places(k, E)
      BY <3>2, <3>3 DEF Places
    <3>5. QED BY <1>3, <3>3, <3>4
  <2>2. E[n].kind # "New"
    BY <1>2, <2>1 DEF OrderLedger
  <2>3. QED BY <1>1, <1>3, <2>2 DEF Pipe
<1>6. /\ F \in Seq(Event) /\ Len(F) = l /\ l \in Nat /\ F[l] = c /\ l \in Places(k, F)
      /\ \A n \in Places(k, F) : n \in Places(k, E) \/ n = l
      /\ \A n \in Places(k, E) : n \in Places(k, F) /\ F[n] = E[n]
  BY AppendPlaces
<1> HIDE DEF F
<1>7. /\ G[l + 1] = w /\ ~IsPair(G, l + 1) /\ l + 1 \in Nat /\ l + 1 \in Places(k, G) /\ Len(G) = l + 1
      /\ \A n \in Places(k, G) : n \in Places(k, F) \/ n = l + 1
      /\ \A n \in Places(k, F) : n \in Places(k, G) /\ G[n] = F[n]
  BY <1>6, AppendPlaces
<1> HIDE DEF G
<1>8. IsPair(G, l) /\ Second(G, l + 1)
  <2>1. l \in Nat /\ l > 0 /\ l + 1 \in 1..Len(G) /\ l + 1 > 1 /\ l + 1 - 1 = l
    BY <1>6, <1>7
  <2>2. G[l] = c /\ G[l + 1] = w
    BY <1>6, <1>7
  <2>3. IsPair(G, l)
    BY <2>1, <2>2 DEF IsPair
  <2>4. QED BY <2>1, <2>3 DEF Second
<1> HIDE DEF l
<1>9. ASSUME NEW n \in Places(k, G)
      PROVE  \/ n = l /\ G[n] = c
             \/ n = l + 1 /\ G[n] = w
             \/ /\ ~EndsOrder(G[n]) /\ G[n].kind # "New" /\ G[n].kind # "Rejected" /\ ~IsPair(G, n)
  <2>1. CASE n \in Places(k, E)
    BY <1>5, <1>6, <1>7, <2>1, ZenonT(40) DEF IsPair, EndsOrder
  <2>2. CASE n = l \/ n = l + 1
    BY <1>6, <1>7, <2>2
  <2>3. QED BY <1>6, <1>7, <2>1, <2>2
<1>10. \A kind : ~Asked(k, kind, S)
  BY DEF Asked, OutOf
<1>11. \A n \in Places(k, G) : /\ IsPair(G, n) => n = l /\ G[n] = c
                               /\ EndsOrder(G[n]) => IsPair(G, n)
                               /\ G[n].kind = "New" => Second(G, n) /\ Alike(G[n], y)
                               /\ G[n].kind # "Rejected"
  BY <1>7, <1>8, <1>9 DEF EndsOrder
<1>12. Pipe(k, y, G, S)
  BY <1>10, <1>11 DEF Pipe
<1>13. l \in Places(k, G)
  BY <1>6, <1>7
<1>14. Stops(k, o, y, S)
  BY <1>2 DEF Stops
<1>15. OrderLedger(k, o, y, G, S, W)
  BY <1>2, <1>4, <1>8, <1>10, <1>11, <1>13, <1>14 DEF OrderLedger, ReplaceNew
<1>16. QED BY <1>1, <1>12, <1>15 DEF F, G

----------------------------------------------------------------------------
(* The exchange: its steps *)

(* The exchange brings nothing more out, and every order knows what it should. *)
LEMMA ExchangeLedger ==
    ASSUME NEW t, NEW X, NEW E, NEW Q, NEW R, TradeLedger(t, X, E, Q, R),
           NEW Y, NEW F, NEW S, NEW W,
           \A j \in Kinds : /\ Pipe(j, Y[j], F, S)
                            /\ Out(j, Y[j], F, S) => Out(j, X[j], E, Q)
                            /\ t.tracked => OrderLedger(j, t.orders[j], Y[j], F, S, W)
    PROVE  TradeLedger(t, Y, F, S, W)
<1>1. OutOrders(Y, F, S) \subseteq OutOrders(X, E, Q)
  BY DEF OutOrders
<1>2. t.tracked => TradeBook(t, OutOrders(Y, F, S))
  BY <1>1, BookShrinks DEF TradeLedger, Known
<1>3. QED BY <1>1, <1>2 DEF TradeLedger, Known

(* The events F leave the order j, x at the exchange, as the events E do. *)
Unmoved(j, x, E, F, Q, R) ==
    /\ Pipe(j, x, F, Q)
    /\ Out(j, x, F, Q) => Out(j, x, E, Q)
    /\ \A o : OrderLedger(j, o, x, E, Q, R) => OrderLedger(j, o, x, F, Q, R)

(* No event, one, or two, of another order. *)
LEMMA OthersLedger ==
    ASSUME NEW j, NEW E \in Seq(Event), NEW x, NEW Q, NEW R, Pipe(j, x, E, Q),
           NEW a \in Event, a.order # j, NEW b \in Event, b.order # j,
           NEW F, F \in {E, Append(E, a), Append(Append(E, a), b)}
    PROVE  Unmoved(j, x, E, F, Q, R)
<1>1. Unmoved(j, x, E, E, Q, R)
  BY DEF Unmoved
<1>2. Unmoved(j, x, E, Append(E, a), Q, R) /\ Append(E, a) \in Seq(Event)
  BY OtherAppend DEF Unmoved
<1>3. Unmoved(j, x, E, Append(Append(E, a), b), Q, R)
  <2> DEFINE G == Append(E, a)
  <2>1. G \in Seq(Event) /\ Unmoved(j, x, E, G, Q, R)
    BY <1>2
  <2> HIDE DEF G
  <2>2. /\ Pipe(j, x, Append(G, b), Q) /\ (Out(j, x, Append(G, b), Q) => Out(j, x, G, Q))
        /\ \A o : OrderLedger(j, o, x, G, Q, R) => OrderLedger(j, o, x, Append(G, b), Q, R)
    BY <2>1, OtherAppend DEF Unmoved
  <2>3. Unmoved(j, x, E, Append(G, b), Q, R)
    BY <2>1, <2>2 DEF Unmoved
  <2>4. QED BY <2>3 DEF G
<1>4. QED BY <1>1, <1>2, <1>3

(* What is performed of the requests keeps the ledger. *)
LEMMA PerformLedger ==
    ASSUME IInv, TradeLedger(trade, ex, events, requests, results), Perform
    PROVE  TradeLedger(trade, ex', events', requests', results')
<1>1. PICK req \in requests : PerformRequest(req)
  BY DEF Perform
<1> DEFINE k == req.order
           x == ex[k]
           y == Opened(req)
           g == [x EXCEPT !.status = "gone"]
           o == trade.orders[k]
           S == requests \ {req}
           c == EventOf(k, "Cancelled", x)
           w == EventOf(k, "New", y)
           z == EventOf(k, "Rejected", y)
<1>2. /\ req \in Request /\ k \in Kinds /\ ex \in [Kinds -> ExchangeOrder]
      /\ events \in Seq(Event) /\ trade \in TradeRec
  BY DEF IInv, TypeOK, Request
<1>3. /\ x \in ExchangeOrder /\ y \in ExchangeOrder
      /\ c \in Event /\ w \in Event /\ z \in Event
  BY <1>2, OpenedTyped, EventTyped DEF EventKind
<1>4. /\ c.order = k /\ c.kind = "Cancelled" /\ c.seq = x.seq
      /\ w.order = k /\ w.kind = "New" /\ w.seq = y.seq
      /\ z.order = k /\ z.kind = "Rejected"
  BY DEF EventOf
<1>17. Alike(c, x) /\ Alike(w, y) /\ y.status = "open" /\ y.stop = req.stop
  BY DEF EventOf, Opened, Alike
<1>5. \E b \in BOOLEAN : Reports(req, b)
  BY <1>1 DEF PerformRequest, ExchangeCreate, ExchangeReject, ExchangeCancel,
              ExchangeCancelReplace, ExchangeCannotCancel
<1>6. requests' = S /\ S \subseteq requests /\ results \subseteq results'
  BY <1>5 DEF Reports
<1>7. Asked(k, req.kind, requests)
  BY DEF Asked
<1>8. Pipe(k, x, events, requests)
  BY <1>2 DEF TradeLedger
<1>9. trade.tracked => OrderLedger(k, o, x, events, requests, results)
  BY <1>2 DEF TradeLedger, Known
<1>10. Live(k, x, requests) => trade.tracked /\ Out(k, x, events, requests)
  BY <1>2 DEF TradeLedger, OutOrders, Out
<1>11. trade.tracked => /\ o.instr.st = "Running" /\ OutOf(k, S) = {}
                        /\ o.instr.kind = req.kind /\ o.instr.id = req.id
  <2> SUFFICES ASSUME trade.tracked PROVE /\ o.instr.st = "Running" /\ OutOf(k, S) = {}
                                          /\ o.instr.kind = req.kind /\ o.instr.id = req.id
    OBVIOUS
  <2>1. OrderInFlight(o, k, requests, results)
    BY <1>2, IInvInFlight DEF IInv, InFlight
  <2>2. req \in OutOf(k, requests)
    BY DEF OutOf
  <2>3. o.instr.st = "Running" /\ OutOf(k, requests) = {req} /\ req = RequestOf(k, o.instr)
    BY <2>1, <2>2 DEF OrderInFlight
  <2>4. OutOf(k, S) = {}
    BY <2>3 DEF OutOf
  <2>5. RequestOf(k, o.instr).kind = o.instr.kind /\ RequestOf(k, o.instr).id = o.instr.id
    BY DEF RequestOf
  <2>6. QED BY <2>3, <2>4, <2>5
<1> HIDE DEF c, w, z, y, S
<1>12. \E a \in {c, w, z} : \E b \in {c, w, z} :
         /\ events' \in {events, Append(events, a), Append(Append(events, a), b)}
         /\ \A j \in Kinds : j # k => ex'[j] = ex[j]
  <2>1. CASE ExchangeCreate(req)
    <3>1. events' = Append(events, w) /\ \A j \in Kinds : j # k => ex'[j] = ex[j]
      BY <1>2, <2>1 DEF ExchangeCreate, w, y
    <3>2. QED BY <3>1
  <2>2. CASE ExchangeReject(req)
    <3>1. events' \in {events, Append(events, z)} /\ \A j \in Kinds : j # k => ex'[j] = ex[j]
      BY <1>2, <2>2 DEF ExchangeReject, z, y
    <3>2. QED BY <3>1
  <2>3. CASE ExchangeCancel(req)
    <3>1. events' = Append(events, c) /\ \A j \in Kinds : j # k => ex'[j] = ex[j]
      BY <1>2, <2>3 DEF ExchangeCancel, c
    <3>2. QED BY <3>1
  <2>4. CASE ExchangeCancelReplace(req)
    <3>1. events' = events \o <<c, w>> /\ \A j \in Kinds : j # k => ex'[j] = ex[j]
      BY <1>2, <2>4 DEF ExchangeCancelReplace, c, w, y
    <3>2. events \o <<c, w>> = Append(Append(events, c), w)
      BY <1>2, <1>3
    <3>3. QED BY <3>1, <3>2
  <2>5. CASE ExchangeCannotCancel(req)
    BY <2>5 DEF ExchangeCannotCancel
  <2>6. QED BY <1>1, <2>1, <2>2, <2>3, <2>4, <2>5 DEF PerformRequest
<1>13. ASSUME NEW j \in Kinds, j # k
       PROVE  /\ Pipe(j, ex'[j], events', S)
              /\ Out(j, ex'[j], events', S) => Out(j, ex[j], events, requests)
              /\ trade.tracked => OrderLedger(j, trade.orders[j], ex'[j], events', S, results')
  <2>1. PICK a \in {c, w, z}, b \in {c, w, z} :
            events' \in {events, Append(events, a), Append(Append(events, a), b)}
    BY <1>12
  <2>2. a \in Event /\ a.order # j /\ b \in Event /\ b.order # j
    BY <1>3, <1>4, <1>13
  <2>3. Pipe(j, ex[j], events, requests) /\ ex'[j] = ex[j]
    BY <1>12, <1>13 DEF TradeLedger
  <2>4. trade.tracked => OrderLedger(j, trade.orders[j], ex[j], events, requests, results)
    BY DEF TradeLedger, Known
  <2>5. Unmoved(j, ex[j], events, events', requests, results)
    BY <1>2, <2>1, <2>2, <2>3, OthersLedger
  <2>6. /\ Pipe(j, ex[j], events', S) /\ (Out(j, ex[j], events', S) => Out(j, ex[j], events', requests))
        /\ \A p : OrderLedger(j, p, ex[j], events', requests, results)
                     => OrderLedger(j, p, ex[j], events', S, results')
    BY <1>6, <2>5, FewerAsked DEF Unmoved
  <2>7. QED BY <2>3, <2>4, <2>5, <2>6 DEF Unmoved
<1>14. /\ Pipe(k, ex'[k], events', S)
       /\ Out(k, ex'[k], events', S) => Out(k, x, events, requests)
       /\ trade.tracked => OrderLedger(k, o, ex'[k], events', S, results')
  <2>1. CASE ExchangeCreate(req)
    <3>1. ex'[k] = y /\ events' = Append(events, w) /\ Asked(k, "CreateOrder", requests)
      BY <1>2, <1>7, <2>1 DEF ExchangeCreate, w, y
    <3>2. trade.tracked /\ Out(k, x, events, requests)
      BY <1>10, <3>1 DEF Live
    <3>3. req.stop = o.stop
      BY <1>9, <2>1, <3>2 DEF ExchangeCreate, OrderLedger, Stops, OutOf
    <3>4. /\ Pipe(k, y, Append(events, w), S)
          /\ OrderLedger(k, o, y, Append(events, w), S, results')
      BY <1>2, <1>3, <1>4, <1>8, <1>9, <1>11, <1>17, <3>1, <3>2, <3>3, AppendCreated, ZenonT(40)
    <3>5. QED BY <3>1, <3>2, <3>4
  <2>2. CASE ExchangeReject(req) /\ events' = events
    <3>1. ex' = ex
      BY <2>2 DEF ExchangeReject
    <3>2. QED BY <1>6, <1>8, <1>9, <2>2, <3>1, FewerAsked
  <2>3. CASE ExchangeReject(req) /\ events' # events
    <3>1. /\ ex' = ex /\ events' = Append(events, z) /\ Asked(k, "CreateOrder", requests)
          /\ req.kind = "CreateOrder"
      BY <1>7, <2>3 DEF ExchangeReject, z, y
    <3>2. trade.tracked
      BY <1>10, <3>1 DEF Live
    <3>3. [order |-> k, id |-> req.id, success |-> FALSE] \in results'
      BY <2>3 DEF ExchangeReject, Reports
    <3>4. Refused(k, o, results')
      BY <1>11, <3>1, <3>2, <3>3 DEF Refused
    <3>5. /\ Pipe(k, x, Append(events, z), S) /\ ~Out(k, x, Append(events, z), S)
          /\ OrderLedger(k, o, x, Append(events, z), S, results')
      BY <1>2, <1>3, <1>4, <1>8, <1>9, <1>11, <3>1, <3>2, <3>4, AppendRejected
    <3>6. QED BY <3>1, <3>2, <3>5
  <2>4. CASE ExchangeCancel(req)
    <3>1. ex'[k] = g /\ events' = Append(events, c) /\ x.status = "open"
      BY <1>2, <2>4 DEF ExchangeCancel, c
    <3>2. g.status = "gone"
      BY <1>3 DEF ExchangeOrder
    <3> HIDE DEF g
    <3>6. EndsOrder(c)
      BY <1>4 DEF EndsOrder
    <3>3. /\ Pipe(k, g, Append(events, c), requests) /\ Out(k, x, events, requests)
          /\ \A p : OrderLedger(k, p, x, events, requests, results)
                       => OrderLedger(k, p, g, Append(events, c), requests, results)
      BY <1>2, <1>3, <1>4, <1>8, <3>1, <3>2, <3>6, AppendEnd
    <3>4. /\ Pipe(k, g, Append(events, c), S)
          /\ \A p : OrderLedger(k, p, g, Append(events, c), requests, results)
                       => OrderLedger(k, p, g, Append(events, c), S, results')
      BY <1>6, <3>3, FewerAsked
    <3>5. QED BY <1>9, <3>1, <3>3, <3>4
  <2>5. CASE ExchangeCancelReplace(req)
    <3>1. /\ ex'[k] = y /\ events' = events \o <<c, w>> /\ x.status = "open"
          /\ Asked(k, "CancelReplaceOrder", requests)
      BY <1>2, <1>7, <2>5 DEF ExchangeCancelReplace, c, w, y
    <3>2. events' = Append(Append(events, c), w)
      BY <1>2, <1>3, <3>1
    <3>3. trade.tracked
      BY <1>10, <3>1 DEF Live
    <3>4. OrderLedger(k, o, x, events, requests, results) /\ OutOf(k, S) = {} /\ o.instr.st = "Running"
      BY <1>9, <1>11, <3>3
    <3>5. LET G == Append(Append(events, c), w)
          IN  /\ Pipe(k, y, G, S) /\ OrderLedger(k, o, y, G, S, results')
              /\ Out(k, x, events, requests)
      BY <1>2, <1>3, <1>4, <1>8, <1>17, <3>1, <3>4, AppendReplaced, ZenonT(40)
    <3>6. QED BY <3>1, <3>2, <3>5
  <2>6. CASE ExchangeCannotCancel(req)
    <3>1. ex' = ex /\ events' = events
      BY <2>6 DEF ExchangeCannotCancel
    <3>2. QED BY <1>6, <1>8, <1>9, <3>1, FewerAsked
  <2>7. QED BY <1>1, <2>1, <2>2, <2>3, <2>4, <2>5, <2>6 DEF PerformRequest
<1>15. TradeLedger(trade, ex', events', S, results')
  <2>1. \A j \in Kinds : /\ Pipe(j, ex'[j], events', S)
                         /\ Out(j, ex'[j], events', S) => Out(j, ex[j], events, requests)
                         /\ trade.tracked => OrderLedger(j, trade.orders[j], ex'[j], events', S, results')
    BY <1>13, <1>14
  <2>2. QED BY <2>1, ExchangeLedger
<1>16. QED BY <1>6, <1>15

(* What the exchange does by itself keeps the ledger. *)
LEMMA ActsLedger ==
    ASSUME IInv, TradeLedger(trade, ex, events, requests, results), NEW k \in Kinds, ExchangeActs(k)
    PROVE  TradeLedger(trade, ex', events', requests, results)
<1> DEFINE x == ex[k]
<1>1. /\ ex \in [Kinds -> ExchangeOrder] /\ x \in ExchangeOrder
      /\ events \in Seq(Event) /\ trade \in TradeRec
  BY DEF IInv, TypeOK
<1>2. ASSUME NEW e \in Event, e.order = k, e.kind \in {"Fill", "Cancelled", "Expired"},
             NEW y, EndsOrder(e) => y.status # "open",
             ~EndsOrder(e) => y.status = "open" /\ Alike(y, x), x.status = "open",
             ex' = [ex EXCEPT ![k] = y], events' = Append(events, e)
      PROVE  TradeLedger(trade, ex', events', requests, results)
  <2>1. ex'[k] = y /\ \A j \in Kinds : j # k => ex'[j] = ex[j]
    BY <1>1, <1>2
  <2>2. Pipe(k, x, events, requests)
    BY DEF TradeLedger
  <2>3. /\ Pipe(k, y, events', requests) /\ Out(k, x, events, requests)
        /\ \A o : OrderLedger(k, o, x, events, requests, results)
                     => OrderLedger(k, o, y, events', requests, results)
    BY <1>1, <1>2, <2>2, AppendEnd
  <2>4. ASSUME NEW j \in Kinds, j # k
        PROVE  Unmoved(j, ex[j], events, events', requests, results)
    <3>1. Pipe(j, ex[j], events, requests)
      BY DEF TradeLedger
    <3>2. e.order # j /\ events' \in {events, Append(events, e), Append(Append(events, e), e)}
      BY <1>2, <2>4
    <3>3. QED BY <1>1, <3>1, <3>2, OthersLedger
  <2>5. ASSUME NEW j \in Kinds
        PROVE  /\ Pipe(j, ex'[j], events', requests)
               /\ Out(j, ex'[j], events', requests) => Out(j, ex[j], events, requests)
               /\ trade.tracked => OrderLedger(j, trade.orders[j], ex'[j], events', requests, results)
    <3>1. trade.tracked => OrderLedger(j, trade.orders[j], ex[j], events, requests, results)
      BY DEF TradeLedger, Known
    <3>2. CASE j = k
      BY <2>1, <2>3, <3>1, <3>2
    <3>3. CASE j # k
      BY <2>1, <2>4, <3>1, <3>3 DEF Unmoved
    <3>4. QED BY <3>2, <3>3
  <2>6. QED BY <2>5, ExchangeLedger
<1>3. ASSUME NEW filled \in 1..Qty, ExchangeFill(k, filled)
      PROVE  TradeLedger(trade, ex', events', requests, results)
  <2> DEFINE s == IF filled = x.qty THEN "gone" ELSE "open"
             y == [x EXCEPT !.filled = filled, !.status = s]
             e == EventOf(k, "Fill", y)
  <2>1. /\ y \in ExchangeOrder /\ Alike(y, x) /\ y.filled = filled /\ y.qty = x.qty /\ y.status = s
    <3>1. filled \in Nat /\ s \in {"none", "open", "gone"}
      BY EnvAssumption
    <3>2. QED BY <1>1, <3>1 DEF ExchangeOrder, Alike
  <2>2. x.status = "open" /\ ex' = [ex EXCEPT ![k] = y]
    BY <1>1, <1>3 DEF ExchangeFill
  <2>3. ex'[k] = y
    BY <1>1, <2>2
  <2> HIDE DEF y
  <2>4. e \in Event
    BY <2>1, EventTyped DEF EventKind
  <2>5. e.order = k /\ e.kind = "Fill" /\ e.full = (filled = x.qty)
    BY <2>1 DEF EventOf
  <2>6. /\ EndsOrder(e) => y.status # "open"
        /\ ~EndsOrder(e) => y.status = "open" /\ Alike(y, x)
    BY <2>1, <2>5 DEF EndsOrder
  <2>7. events' = Append(events, e)
    BY <1>3, <2>3 DEF ExchangeFill
  <2> HIDE DEF e
  <2>8. QED BY <1>2, <2>2, <2>4, <2>5, <2>6, <2>7
<1>4. ASSUME NEW fault, NEW kind \in {"Cancelled", "Expired"}, ExchangeEnds(k, fault, kind)
      PROVE  TradeLedger(trade, ex', events', requests, results)
  <2> DEFINE y == [x EXCEPT !.status = "gone"]
             e == EventOf(k, kind, x)
  <2>1. y.status = "gone" /\ x.status = "open" /\ ex' = [ex EXCEPT ![k] = y] /\ events' = Append(events, e)
    BY <1>1, <1>4 DEF ExchangeEnds, ExchangeOrder
  <2>2. e \in Event /\ e.order = k /\ e.kind = kind /\ EndsOrder(e)
    BY <1>1, EventTyped DEF EventKind, EventOf, EndsOrder
  <2> HIDE DEF y, e
  <2>3. QED BY <1>2, <2>1, <2>2
<1>5. QED BY <1>3, <1>4 DEF ExchangeActs, ExternalCancel, ExternalExpire
----------------------------------------------------------------------------
(* The trade agrees with the book as far as it has seen the events *)

(* A pass of the trader takes no order on the book, nor off it. *)
LEMMA PassSeen ==
    ASSUME NEW t \in TradeRec, price \in Int \ {0}, NEW X, NEW E, NEW Q, NEW R,
           TradeLedger(t, X, E, Q, R), Seen(t, X, E)
    PROVE  Seen(Pass(t), X, E)
<1> DEFINE d == Drive(t)
<1>1. d \in TradeRec /\ Pass(t) = MarkRunning(d)
  BY DriveTracked DEF Pass
<1>2. Seen(d, X, E)
  <2>1. CASE Untracked(t)
    <3>1. d = [t EXCEPT !.tracked = FALSE]
      BY <2>1 DEF Drive
    <3>2. d.tracked = FALSE
      BY <3>1 DEF TradeRec
    <3>3. QED BY <3>2 DEF Seen
  <2>2. CASE ~Untracked(t)
    <3>1. d = ComputeTrade(t, price).t /\ t.tracked
      BY <2>2 DEF Drive, Untracked
    <3>2. TradeBook(t, OutOrders(X, E, Q)) /\ TradeAgrees(t, X, E)
      BY <3>1 DEF TradeLedger, Known, Seen
    <3>3. TradeStays(t, d)
      BY <3>1, <3>2, BookComputeTrade DEF Minds
    <3>4. QED BY <3>2, <3>3, StaysAgrees DEF Seen
  <2>3. QED BY <2>1, <2>2
<1> HIDE DEF d
<1>3. ASSUME NEW k \in Kinds
      PROVE  /\ MarkRunning(d).orders[k].created = d.orders[k].created
             /\ MarkRunning(d).orders[k].state = d.orders[k].state
  <2>1. d.orders[k] \in OrderRec
    BY <1>1, TradeOrders
  <2>2. MarkRunning(d).orders[k] \in {[d.orders[k] EXCEPT !.instr.st = "Running"], d.orders[k]}
    BY <1>1, MarkTyped
  <2>3. QED BY <2>1, <2>2 DEF OrderRec
<1>4. MarkRunning(d).tracked = d.tracked
  BY <1>1, MarkTyped
<1>5. QED BY <1>1, <1>2, <1>3, <1>4 DEF Seen, TradeAgrees, Agrees

(* Neither does what is left of a handler, unless it ends the worker. *)
LEMMA SettleSeen ==
    ASSUME price \in Int \ {0}, requests \subseteq Request, ExitOnError,
           NEW r, r.t \in TradeRec, NEW X, NEW E, NEW R, InFlight(r.t, requests, R),
           TradeLedger(r.t, X, E, requests, R), r.ok => Seen(r.t, X, E),
           Settle(r) \/ SettleTwice(r), up'
    PROVE  Seen(trade', X, E)
<1>1. r.ok
  BY DEF Settle, SettleTwice
<1> DEFINE p1 == Pass(r.t)
           Q1 == requests \cup Sent(Drive(r.t))
<1>2. p1 \in TradeRec /\ TradeLedger(p1, X, E, Q1, R)
  BY PassInFlight, PassLedger
<1>3. Seen(p1, X, E)
  BY <1>1, PassSeen
<1>4. Seen(Pass(p1), X, E)
  BY <1>2, <1>3, PassSeen
<1>5. trade' \in {p1, Pass(p1)}
  BY <1>1 DEF Settle, SettleTwice
<1>6. QED BY <1>3, <1>4, <1>5

(* One more event of an order the trade has seen everything of: it takes the
   order on the book or says that it was there.                              *)
LEMMA AppendAgrees ==
    ASSUME NEW E \in Seq(Event), NEW e \in Event, NEW j, NEW o, NEW x, NEW y, Agrees(j, o, x, E),
           e.order = j /\ Places(j, E) = {}
              => (x.status = "open" <=> e.kind \notin {"New", "Rejected"}),
           e.order # j => y = x
    PROVE  Agrees(j, o, y, Append(E, e))
<1> DEFINE F == Append(E, e)
           l == Len(E) + 1
<1>1. /\ F[l] = e /\ l \in Nat
      /\ e.order = j => l \in Places(j, F)
      /\ \A n \in Places(j, F) : n \in Places(j, E) \/ (n = l /\ e.order = j)
      /\ \A n \in Places(j, E) : n \in Places(j, F) /\ n \in Nat /\ n < l /\ F[n] = E[n]
  BY AppendPlaces
<1> HIDE DEF F, l
<1>2. CASE Places(j, E) = {} /\ e.order = j
  <2>1. o.created <=> e.kind \notin {"New", "Rejected"}
    BY <1>2 DEF Agrees
  <2>2. \A n \in Places(j, F) : F[n] = e
    BY <1>1, <1>2
  <2>3. Places(j, F) # {}
    BY <1>1, <1>2
  <2>4. QED BY <2>1, <2>2, <2>3 DEF Agrees, F
<1>3. CASE Places(j, E) = {} /\ e.order # j
  <2>1. Places(j, F) = {}
    BY <1>1, <1>3
  <2>2. QED BY <1>3, <2>1 DEF Agrees, F
<1>4. CASE Places(j, E) # {}
  <2>1. Places(j, F) # {}
    BY <1>1, <1>4
  <2>2. ASSUME NEW n \in Places(j, F), IsFirst(j, F, n)
        PROVE  IsFirst(j, E, n) /\ F[n] = E[n]
    <3>1. n \in Places(j, E)
      <4>1. PICK m \in Places(j, E) : TRUE
        BY <1>4
      <4>2. n <= m /\ m < l /\ m \in Nat /\ l \in Nat
        BY <1>1, <2>2, <4>1 DEF IsFirst
      <4>3. n # l
        BY <4>2
      <4>4. QED BY <1>1, <4>3
    <3>2. QED BY <1>1, <2>2, <3>1 DEF IsFirst
  <2>3. ASSUME NEW n \in Places(j, F), IsFirst(j, F, n)
        PROVE  o.created <=> F[n].kind \notin {"New", "Rejected"}
    <3>1. IsFirst(j, E, n) /\ n \in Places(j, E) /\ F[n] = E[n]
      BY <2>2, <2>3 DEF IsFirst
    <3>2. QED BY <3>1 DEF Agrees
  <2>4. Agrees(j, o, y, F)
    BY <2>1, <2>3 DEF Agrees
  <2>5. QED BY <2>4 DEF F
<1>5. QED BY <1>2, <1>3, <1>4

(* So the trade goes on to agree, whatever the exchange does with the order k. *)
LEMMA ExchangeAgrees ==
    ASSUME NEW t, NEW X, NEW Y, NEW E \in Seq(Event), NEW k \in Kinds, TradeAgrees(t, X, E),
           \A j \in Kinds : j # k => Y[j] = X[j],
           NEW e \in Event, e.order = k, Places(k, E) = {}
              => (X[k].status = "open" <=> e.kind \notin {"New", "Rejected"})
    PROVE  TradeAgrees(t, Y, Append(E, e))
<1>1. ASSUME NEW j \in Kinds PROVE Agrees(j, t.orders[j], Y[j], Append(E, e))
  BY AppendAgrees DEF TradeAgrees
<1>2. QED BY <1>1 DEF TradeAgrees

(* A second event of the order at once, which the first hides. *)
LEMMA ExchangeAgreesTwice ==
    ASSUME NEW t, NEW X, NEW Y, NEW E \in Seq(Event), NEW k \in Kinds, TradeAgrees(t, X, E),
           \A j \in Kinds : j # k => Y[j] = X[j], X[k].status = "open",
           NEW c \in Event, c.order = k, c.kind = "Cancelled", NEW w \in Event, w.order = k
    PROVE  TradeAgrees(t, Y, Append(Append(E, c), w))
<1> DEFINE F == Append(E, c)
<1>1. TradeAgrees(t, Y, F)
  BY ExchangeAgrees
<1>2. F \in Seq(Event) /\ Places(k, F) # {}
  BY AppendPlaces
<1> HIDE DEF F
<1>3. TradeAgrees(t, Y, Append(F, w))
  BY <1>1, <1>2, ExchangeAgrees
<1>4. QED BY <1>3 DEF F

----------------------------------------------------------------------------
(* What is left: an activator, and the calls of a strategy *)

(* An activator that starts to say yes is not in the ledger. *)
LEMMA ArmedLedger ==
    ASSUME IInv, TradeLedger(trade, ex, events, requests, results), NEW k \in Kinds, Activate(k)
    PROVE  TradeLedger(trade', ex, events, requests, results)
<1> DEFINE u == [trade EXCEPT !.orders[k].armed = TRUE]
           o == trade.orders[k]
           p == [o EXCEPT !.armed = TRUE]
           U == OutOrders(ex, events, requests)
<1>1. trade \in TradeRec /\ o \in OrderRec
  BY TradeOrders DEF IInv, TypeOK
<1>2. /\ u.state = trade.state /\ u.pending = trade.pending /\ u.tracked = trade.tracked
      /\ \A j \in Kinds : u.orders[j] = IF j = k THEN p ELSE trade.orders[j]
  BY <1>1 DEF TradeRec
<1>3. /\ p.state = o.state /\ p.instr = o.instr /\ p.seq = o.seq /\ p.byCancel = o.byCancel
      /\ p.toReplace = o.toReplace /\ p.toIdle = o.toIdle /\ p.created = o.created
      /\ p.mode = o.mode /\ p.pendingMode = o.pendingMode /\ p.term = o.term /\ p.armed
      /\ SameStop(o, p)
  BY <1>1 DEF OrderRec, SameStop
<1> HIDE DEF u, p
<1>4. /\ Settled(o) => Settled(p)
      /\ Idles(o) => Idles(p)
      /\ (Ashore(p) <=> Ashore(o)) /\ (Dormant(p) <=> Dormant(o)) /\ (Fresh(p) <=> Fresh(o))
  BY <1>3 DEF Settled, Idles, Ashore, Dormant, Fresh, CreateNew, ReplaceNew, HasInstr, SameStop
<1>5. \A j \in Kinds : /\ u.orders[j].state = trade.orders[j].state
                       /\ u.orders[j].byCancel = trade.orders[j].byCancel
                       /\ Settled(trade.orders[j]) => Settled(u.orders[j])
                       /\ Idles(trade.orders[j]) => Idles(u.orders[j])
                       /\ (Ashore(u.orders[j]) <=> Ashore(trade.orders[j]))
                       /\ (Dormant(u.orders[j]) <=> Dormant(trade.orders[j]))
                       /\ (Fresh(u.orders[j]) <=> Fresh(trade.orders[j]))
  BY <1>2, <1>3, <1>4
<1>6. TradeBook(trade, U) => TradeBook(u, U)
  <2>1. trade.pending \in Kinds \cup {"none"}
    BY <1>1 DEF TradeRec
  <2>2. Quiet(trade, U) => Quiet(u, U)
    BY <1>2, <1>5, <2>1 DEF Quiet
  <2>3. "entry" \in Kinds /\ "exit" \in Kinds /\ "stop" \in Kinds
    BY DEF Kinds
  <2> SUFFICES ASSUME TradeBook(trade, U) PROVE TradeBook(u, U)
    OBVIOUS
  <2>4. \A j \in Kinds : /\ Settled(u.orders[j]) /\ Idles(u.orders[j])
                         /\ Ashore(u.orders[j]) => j \notin U
    BY <1>5 DEF TradeBook
  <2>5. u.state = "Exiting" /\ (\E j \in {"exit", "stop"} : u.orders[j].state = "Finished")
          => Quiet(u, U)
    BY <1>2, <1>5, <2>2, <2>3 DEF TradeBook
  <2>6. QED BY <1>2, <1>5, <2>2, <2>3, <2>4, <2>5 DEF TradeBook
<1>7. ASSUME OrderLedger(k, o, ex[k], events, requests, results)
      PROVE  OrderLedger(k, p, ex[k], events, requests, results)
  BY <1>3, <1>7 DEF OrderLedger, Refused, ReplaceNew, Alike, Stops, SameStop
<1>8. TradeLedger(u, ex, events, requests, results)
  BY <1>2, <1>6, <1>7 DEF TradeLedger, Known
<1>9. QED BY <1>8 DEF Activate, u

(* A strategy's call keeps it. *)
LEMMA CallLedger ==
    ASSUME IInv, price \in Int \ {0}, TradeLedger(trade, ex, events, requests, results), StrategyCall
    PROVE  /\ TradeLedger(trade', ex, events, requests, results)
           /\ Seen(trade, ex, events) => Seen(trade', ex, events)
<1>1. trade \in TradeRec /\ price \in Int
  BY EnvAssumption DEF IInv, TypeOK
<1>2. ASSUME NEW name, NEW r, Call(name, r), TradeSound(trade, r),
             TradeBook(trade, OutOrders(ex, events, requests))
                => Minds(trade, r.t, OutOrders(ex, events, requests))
      PROVE  /\ TradeLedger(trade', ex, events, requests, results)
             /\ Seen(trade, ex, events) => Seen(trade', ex, events)
  <2>1. trade.tracked = TRUE /\ trade' = r.t
    BY <1>1, <1>2 DEF Call, TradeRec
  <2>2. Known(trade, ex, events, requests, results)
    BY <2>1 DEF TradeLedger
  <2>3. TradeEvolves(trade, r.t) /\ Minds(trade, r.t, OutOrders(ex, events, requests))
    BY <1>2, <2>2 DEF TradeSound, Known
  <2>4. Known(r.t, ex, events, requests, results) /\ r.t.tracked = TRUE
    BY <2>1, <2>2, <2>3, KnownEvolves DEF TradeEvolves
  <2>5. Seen(trade, ex, events) => Seen(r.t, ex, events)
    BY <2>1, <2>3, StaysAgrees DEF Seen, Minds
  <2>6. QED BY <2>1, <2>4, <2>5 DEF TradeLedger
<1>3. CASE CallTerminate
  BY <1>1, <1>2, <1>3, CallsSound, BookCalls DEF CallTerminate
<1>4. CASE CallCancelAndIdle
  BY <1>1, <1>2, <1>4, CallsSound, BookCalls DEF CallCancelAndIdle
<1>5. ASSUME NEW k \in Kinds, CallResume(k)
      PROVE  /\ TradeLedger(trade', ex, events, requests, results)
             /\ Seen(trade, ex, events) => Seen(trade', ex, events)
  BY <1>1, <1>2, <1>5, CallsSound, BookCalls DEF CallResume
<1>6. QED BY <1>3, <1>4, <1>5 DEF StrategyCall

(* The inductive invariant behind the theorems. *)
Book == IInv /\ TradeLedger(trade, ex, events, requests, results)

(* A market price is a positive number. *)
LEMMA PriceTyped == IInv => price \in Int \ {0}
BY EnvAssumption DEF IInv, TypeOK

(* The book holds initially: nothing was asked, and nothing happened. *)
LEMMA InitBook == Init => Book
<1> SUFFICES ASSUME Init PROVE Book
  OBVIOUS
<1>1. IInv
  BY InitIInv
<1>2. PICK armed \in BOOLEAN :
          trade = NewTrade(NewOrder("limit", "Buy", armed, Qty, 0),
                           NewOrder("limit", "Sell", ExitIsInstant, Qty, 0),
                           NewOrder("stop", "Sell", TRUE, Qty, InitialStop))
  BY DEF Init
<1>3. /\ trade.state = "New" /\ trade.pending = "none" /\ trade.tracked = TRUE
      /\ \A k \in Kinds :
            LET o == trade.orders[k]
            IN  /\ o.state = "Idle" /\ o.mode = "Normal" /\ o.pendingMode = "None"
                /\ o.instr = NoInstr /\ o.toIdle = FALSE /\ o.created = FALSE
                /\ o.byCancel = FALSE /\ (o.type = "stop" => o.side = "Sell")
  BY <1>2 DEF NewTrade, NewOrder, Kinds
<1>4. ASSUME NEW k \in Kinds
      PROVE  ~Live(k, ex[k], requests) /\ Places(k, events) = {}
  BY DEF Init, Live, Asked, Places, NoExchangeOrder
<1>5. \A k \in Kinds : /\ OrderLedger(k, trade.orders[k], ex[k], events, requests, results)
                       /\ Pipe(k, ex[k], events, requests)
                       /\ ~Out(k, ex[k], events, requests)
  BY <1>4, QuietLedger
<1>6. OutOrders(ex, events, requests) = {}
  BY <1>5 DEF OutOrders
<1>7. ASSUME NEW k \in Kinds
      PROVE  /\ Settled(trade.orders[k]) /\ Idles(trade.orders[k]) /\ Fresh(trade.orders[k])
  <2>1. /\ ~HasInstr(trade.orders[k]) /\ ~CreateNew(trade.orders[k])
        /\ ~ReplaceNew(trade.orders[k])
    BY <1>3 DEF NoInstr, HasInstr, CreateNew, ReplaceNew
  <2>2. QED BY <1>3, <2>1 DEF Settled, Idles, Fresh, RestStates
<1>8. TradeBook(trade, {})
  BY <1>3, <1>7 DEF TradeBook, Kinds
<1>9. QED BY <1>1, <1>3, <1>5, <1>6, <1>8 DEF Book, TradeLedger, Known

(* Every step keeps it. *)
LEMMA NextBook == Book /\ [Next]_vars => Book'
<1> SUFFICES ASSUME Book, [Next]_vars PROVE Book'
  OBVIOUS
<1>1. /\ IInv /\ TradeLedger(trade, ex, events, requests, results) /\ price \in Int \ {0}
      /\ requests \subseteq Request /\ trade \in TradeRec /\ events \in Seq(Event)
      /\ InFlight(trade, requests, results)
  BY PriceTyped, IInvInFlight DEF Book, IInv, TypeOK
<1>2. SUFFICES TradeLedger(trade', ex', events', requests', results')
  BY <1>1, NextIInv DEF Book
<1>3. CASE TraderCompute
  <2>1. TOk(trade).t = trade
    BY DEF TOk
  <2>2. Settle(TOk(trade)) /\ UNCHANGED <<ex, events, results>>
    BY <1>3 DEF TraderCompute
  <2>3. TradeLedger(trade', ex, events, requests', results)
    BY <1>1, <2>1, <2>2, SettleLedger
  <2>4. QED BY <2>2, <2>3
<1>4. CASE UNCHANGED vars \/ \E p \in 1..MaxPrice : PriceMoves(p)
  BY <1>1, <1>4 DEF vars, PriceMoves
<1>5. ASSUME NEW k \in Kinds, Activate(k) PROVE TradeLedger(trade', ex', events', requests', results')
  <2>1. TradeLedger(trade', ex, events, requests, results)
    BY <1>1, <1>5, ArmedLedger
  <2>2. QED BY <1>5, <2>1 DEF Activate
<1>6. CASE StrategyCall
  <2>1. TradeLedger(trade', ex, events, requests, results)
    BY <1>1, <1>6, CallLedger
  <2>2. UNCHANGED <<ex, events, requests, results>>
    BY <1>6 DEF StrategyCall, CallTerminate, CallCancelAndIdle, CallResume, Call
  <2>3. QED BY <2>1, <2>2
<1>7. CASE Perform
  <2>1. TradeLedger(trade, ex', events', requests', results')
    BY <1>1, <1>7, PerformLedger
  <2>2. trade' = trade
    BY <1>7 DEF Perform, PerformRequest, ExchangeCreate, ExchangeReject, ExchangeCancel,
                ExchangeCancelReplace, ExchangeCannotCancel, Reports
  <2>3. QED BY <2>1, <2>2
<1>8. ASSUME NEW k \in Kinds, ExchangeActs(k)
      PROVE  TradeLedger(trade', ex', events', requests', results')
  <2>1. TradeLedger(trade, ex', events', requests, results)
    BY <1>1, <1>8, ActsLedger
  <2>2. UNCHANGED <<trade, requests, results>>
    BY <1>8 DEF ExchangeActs, ExchangeFill, ExternalCancel, ExternalExpire, ExchangeEnds
  <2>3. QED BY <2>1, <2>2
<1>9. ASSUME NEW router \in Routers, HandleEvent(router)
      PROVE  TradeLedger(trade', ex', events', requests', results')
  <2> DEFINE r == ConfirmEvent(router, events[1])
             T == Tail(events)
  <2>1. /\ events # <<>> /\ events' = T /\ UNCHANGED <<results, ex>>
        /\ Settle(r) \/ SettleTwice(r)
    BY <1>9 DEF HandleEvent
  <2>2. events[1] \in Event
    BY <1>1, <2>1
  <2>3. TradeSound(trade, r)
    BY <1>1, <2>2, EventSound
  <2>4. TradeLedger(r.t, ex, T, requests, results)
    BY <1>1, <2>1, EventLedger
  <2> HIDE DEF r, T
  <2>5. r.t \in TradeRec /\ InFlight(r.t, requests, results)
    BY <1>1, <2>3, EvolvesInFlight DEF TradeSound, TradeEvolves
  <2>6. TradeLedger(trade', ex, T, requests', results)
    BY <1>1, <2>1, <2>4, <2>5, SettleLedger
  <2>7. QED BY <2>1, <2>6
<1>10. CASE HandleResult
  <2>1. PICK res \in results : results' = results \ {res} /\ Settle(ConfirmResult(res))
    BY <1>10 DEF HandleResult
  <2> DEFINE r == ConfirmResult(res)
             S == results \ {res}
  <2>2. r.t \in TradeRec /\ InFlight(r.t, requests, S)
    BY <1>1, ResultSound
  <2>3. TradeLedger(r.t, ex, events, requests, S)
    BY <1>1, ResultLedger
  <2>4. Settle(r) /\ results' = S /\ UNCHANGED <<ex, events>>
    BY <1>10, <2>1 DEF HandleResult
  <2> HIDE DEF r, S
  <2>5. TradeLedger(trade', ex, events, requests', S)
    BY <1>1, <2>2, <2>3, <2>4, SettleLedger
  <2>6. QED BY <2>4, <2>5
<1>11. QED BY <1>3, <1>4, <1>5, <1>6, <1>7, <1>8, <1>9, <1>10 DEF Next

(* The exit and the stoploss of a trade never stand on the exchange's book
   together, whatever its client, the market, the strategy and the order of
   events and results do: neither is asked for while the other is there, is
   about to be, or was there in an event the trade has not seen yet.         *)
THEOREM OneLegOnTheBook == Spec => []OneWayOut
<1>1. Book => OneWayOut
  <2> SUFFICES ASSUME Book, ex["exit"].status = "open", ex["stop"].status = "open"
               PROVE  FALSE
    BY DEF OneWayOut
  <2>1. {"exit", "stop"} \subseteq OutOrders(ex, events, requests)
    BY DEF OutOrders, Out, Live, Kinds
  <2>2. trade.tracked /\ TradeBook(trade, OutOrders(ex, events, requests))
    BY <2>1 DEF Book, TradeLedger, Known
  <2>3. QED BY <2>1, <2>2 DEF TradeBook
<1>2. QED BY InitBook, NextBook, <1>1, PTL DEF Spec

(* No order is requested while one of its kind is on the exchange's book, or
   may be by the events the trade has not seen yet: whatever was lost, refused,
   cancelled or replaced before, it opens no order twice.                    *)
THEOREM NoSecondCreate == Spec => []NoDoubleCreate
<1>1. Book => NoDoubleCreate
  <2> SUFFICES ASSUME Book, NEW req \in requests, req.kind = "CreateOrder"
               PROVE  /\ ex[req.order].status # "open"
                      /\ \A n \in 1..Len(events) :
                            events[n].order = req.order => events[n].kind = "Rejected"
    BY DEF NoDoubleCreate
  <2>1. req.order \in Kinds
    BY DEF Book, IInv, TypeOK, Request
  <2>2. Asked(req.order, "CreateOrder", requests)
    BY DEF Asked
  <2>3. ex[req.order].status # "open" /\ Places(req.order, events) = {}
    BY <2>1, <2>2 DEF Book, TradeLedger, Pipe
  <2>4. QED BY <2>3 DEF Places
<1>2. QED BY InitBook, NextBook, <1>1, PTL DEF Spec

(* A trade that leaves the trader's list leaves nothing on the exchange's
   book, and nothing of it comes there later: no request to open an order is
   under way when it goes.                                                   *)
THEOREM ClosedLeavesNothing == Spec => []ClosedIsQuiet
<1>1. Book => ClosedIsQuiet
  BY DEF Book, TradeLedger, OutOrders, Out, Live, ClosedIsQuiet
<1>2. QED BY InitBook, NextBook, <1>1, PTL DEF Spec
(* A request performed on an order on the book leaves its stop no lower: what
   replaces it was asked for by a trade that knew where the stop stands.     *)
LEMMA PerformStop ==
    ASSUME Book, Perform, NEW k \in Kinds, ex[k].status = "open", ex'[k].status = "open"
    PROVE  ex'[k].stop >= ex[k].stop
<1> DEFINE x == ex[k]
           o == trade.orders[k]
<1>1. PICK req \in requests : PerformRequest(req)
  BY DEF Perform
<1>2. /\ req \in Request /\ ex \in [Kinds -> ExchangeOrder]
      /\ x \in ExchangeOrder /\ x.stop \in Int
  BY DEF Book, IInv, TypeOK, ExchangeOrder
<1>3. TradeLedger(trade, ex, events, requests, results) /\ Pipe(k, x, events, requests)
  BY DEF Book, TradeLedger
<1>4. k \in OutOrders(ex, events, requests)
  BY DEF OutOrders, Out, Live
<1>5. trade.tracked /\ OrderLedger(k, o, x, events, requests, results)
  BY <1>3, <1>4 DEF TradeLedger, Known
<1>6. CASE ExchangeCreate(req)
  <2>1. req.order # k
    BY <1>3, <1>6 DEF ExchangeCreate, Pipe, Asked
  <2>2. ex'[k] = x
    BY <1>2, <1>6, <2>1 DEF ExchangeCreate
  <2>3. QED BY <1>2, <2>2
<1>7. CASE ExchangeReject(req) \/ ExchangeCannotCancel(req)
  <2>1. ex' = ex
    BY <1>7 DEF ExchangeReject, ExchangeCannotCancel
  <2>2. QED BY <1>2, <2>1
<1>8. CASE ExchangeCancel(req)
  <2>1. req.order # k
    BY <1>2, <1>8 DEF ExchangeCancel, ExchangeOrder
  <2>2. ex'[k] = x
    BY <1>2, <1>8, <2>1 DEF ExchangeCancel
  <2>3. QED BY <1>2, <2>2
<1>9. CASE ExchangeCancelReplace(req) /\ req.order # k
  <2>1. ex'[k] = x
    BY <1>2, <1>9 DEF ExchangeCancelReplace
  <2>2. QED BY <1>2, <2>1
<1>10. CASE ExchangeCancelReplace(req) /\ req.order = k
  <2>1. ex'[k].stop = req.stop /\ req.kind = "CancelReplaceOrder"
    BY <1>2, <1>10 DEF ExchangeCancelReplace, Opened
  <2>2. Asked(k, "CancelReplaceOrder", requests) /\ req \in OutOf(k, requests)
    BY <1>10, <2>1 DEF Asked, OutOf
  <2>3. o.state \in OnBook /\ \A n \in Places(k, events) : ~IsPair(events, n)
    BY <1>5, <2>2 DEF OrderLedger, OnBook
  <2>4. x.stop = o.stop
    BY <1>5, <2>3 DEF OrderLedger, Alike
  <2>5. req.stop >= o.stop
    BY <1>5, <2>1, <2>2 DEF OrderLedger, Stops
  <2>6. QED BY <2>1, <2>4, <2>5
<1>11. QED BY <1>1, <1>6, <1>7, <1>8, <1>9, <1>10 DEF PerformRequest

(* A trailing stop only rises on the exchange's book, whatever the market does
   between the request that moves it and its execution.                      *)
THEOREM TrailsUpwards == Spec => StopNeverRetreats
<1> DEFINE Rises == ex["stop"].status = "open" /\ ex'["stop"].status = "open"
                        => ex'["stop"].stop >= ex["stop"].stop
<1>1. Book /\ [Next]_vars => [Rises]_vars
  <2> SUFFICES ASSUME Book, Next, ex["stop"].status = "open", ex'["stop"].status = "open"
               PROVE  ex'["stop"].stop >= ex["stop"].stop
    BY DEF Rises
  <2>1. /\ "stop" \in Kinds /\ ex \in [Kinds -> ExchangeOrder] /\ ex["stop"].stop \in Int
    BY DEF Book, IInv, TypeOK, ExchangeOrder, Kinds
  <2>2. CASE Perform
    BY <2>1, <2>2, PerformStop
  <2>3. ASSUME NEW k \in Kinds, ExchangeActs(k) PROVE ex'["stop"].stop >= ex["stop"].stop
    <3>1. ASSUME NEW filled, ExchangeFill(k, filled) PROVE ex'["stop"].stop = ex["stop"].stop
      BY <2>1, <3>1 DEF ExchangeFill, ExchangeOrder
    <3>2. ASSUME NEW fault, NEW kind, ExchangeEnds(k, fault, kind)
          PROVE  ex'["stop"].stop = ex["stop"].stop
      BY <2>1, <3>2 DEF ExchangeEnds, ExchangeOrder
    <3>3. ex'["stop"].stop = ex["stop"].stop
      BY <2>3, <3>1, <3>2 DEF ExchangeActs, ExternalCancel, ExternalExpire
    <3>4. QED BY <2>1, <3>3
  <2>4. CASE ~Perform /\ ~\E k \in Kinds : ExchangeActs(k)
    <3>1. ex' = ex
      BY <2>4 DEF Next, TraderCompute, PriceMoves, Activate, StrategyCall, CallTerminate,
                  CallCancelAndIdle, CallResume, Call, HandleEvent, HandleResult
    <3>2. QED BY <2>1, <3>1
  <2>5. QED BY <2>2, <2>3, <2>4
<1>2. QED BY InitBook, NextBook, <1>1, PTL DEF Spec, StopNeverRetreats, Rises
(* What is performed of the requests leaves the trade, which sees none of it,
   in agreement with the book.                                               *)
LEMMA PerformAgrees ==
    ASSUME Book, Perform, TradeAgrees(trade, ex, events)
    PROVE  TradeAgrees(trade, ex', events')
<1>1. PICK req \in requests : PerformRequest(req)
  BY DEF Perform
<1> DEFINE k == req.order
           x == ex[k]
           y == Opened(req)
           c == EventOf(k, "Cancelled", x)
           w == EventOf(k, "New", y)
           z == EventOf(k, "Rejected", y)
<1>2. /\ req \in Request /\ k \in Kinds /\ ex \in [Kinds -> ExchangeOrder]
      /\ events \in Seq(Event)
  BY DEF Book, IInv, TypeOK, Request
<1>3. c \in Event /\ w \in Event /\ z \in Event
  BY <1>2, OpenedTyped, EventTyped DEF EventKind
<1>4. /\ c.order = k /\ c.kind = "Cancelled" /\ w.order = k /\ w.kind = "New"
      /\ z.order = k /\ z.kind = "Rejected"
  BY DEF EventOf
<1>5. req.kind = "CreateOrder" => x.status # "open"
  BY <1>2 DEF Book, TradeLedger, Pipe, Asked
<1> HIDE DEF c, w, z, y
<1>6. CASE ExchangeCreate(req)
  <2>1. events' = Append(events, w) /\ req.kind = "CreateOrder" /\ \A j \in Kinds : j # k => ex'[j] = ex[j]
    BY <1>2, <1>6 DEF ExchangeCreate, w, y
  <2>2. QED BY <1>2, <1>3, <1>4, <1>5, <2>1, ExchangeAgrees
<1>7. CASE ExchangeReject(req) /\ events' # events
  <2>1. events' = Append(events, z) /\ req.kind = "CreateOrder" /\ ex' = ex
    BY <1>7 DEF ExchangeReject, z, y
  <2>2. QED BY <1>2, <1>3, <1>4, <1>5, <2>1, ExchangeAgrees
<1>8. CASE (ExchangeReject(req) /\ events' = events) \/ ExchangeCannotCancel(req)
  BY <1>8 DEF ExchangeReject, ExchangeCannotCancel
<1>9. CASE ExchangeCancel(req)
  <2>1. events' = Append(events, c) /\ x.status = "open" /\ \A j \in Kinds : j # k => ex'[j] = ex[j]
    BY <1>2, <1>9 DEF ExchangeCancel, c
  <2>2. QED BY <1>2, <1>3, <1>4, <2>1, ExchangeAgrees
<1>10. CASE ExchangeCancelReplace(req)
  <2>1. events' = events \o <<c, w>> /\ x.status = "open" /\ \A j \in Kinds : j # k => ex'[j] = ex[j]
    BY <1>2, <1>10 DEF ExchangeCancelReplace, c, w, y
  <2>2. events' = Append(Append(events, c), w)
    BY <1>2, <1>3, <2>1
  <2>3. QED BY <1>2, <1>3, <1>4, <2>1, <2>2, ExchangeAgreesTwice
<1>11. QED BY <1>1, <1>6, <1>7, <1>8, <1>9, <1>10 DEF PerformRequest

(* So does what the exchange does by itself. *)
LEMMA ActsAgree ==
    ASSUME Book, NEW k \in Kinds, ExchangeActs(k), TradeAgrees(trade, ex, events)
    PROVE  TradeAgrees(trade, ex', events')
<1>1. ex \in [Kinds -> ExchangeOrder] /\ ex[k] \in ExchangeOrder /\ events \in Seq(Event)
  BY DEF Book, IInv, TypeOK
<1>2. ASSUME NEW filled \in 1..Qty, ExchangeFill(k, filled)
      PROVE  TradeAgrees(trade, ex', events')
  <2> DEFINE e == EventOf(k, "Fill", ex'[k])
  <2>1. ex[k].status = "open" /\ events' = Append(events, e) /\ \A j \in Kinds : j # k => ex'[j] = ex[j]
    BY <1>1, <1>2 DEF ExchangeFill
  <2>2. ex' \in [Kinds -> ExchangeOrder]
    <3>1. filled \in Nat
      OBVIOUS
    <3>2. QED BY <1>1, <1>2, <3>1 DEF ExchangeFill, ExchangeOrder
  <2>3. e \in Event /\ e.order = k /\ e.kind = "Fill"
    BY <2>2, EventTyped DEF EventKind, EventOf
  <2> HIDE DEF e
  <2>4. QED BY <1>1, <2>1, <2>3, ExchangeAgrees
<1>3. ASSUME NEW fault, NEW kind \in {"Cancelled", "Expired"}, ExchangeEnds(k, fault, kind)
      PROVE  TradeAgrees(trade, ex', events')
  <2> DEFINE e == EventOf(k, kind, ex[k])
  <2>1. ex[k].status = "open" /\ events' = Append(events, e) /\ \A j \in Kinds : j # k => ex'[j] = ex[j]
    BY <1>1, <1>3 DEF ExchangeEnds
  <2>2. e \in Event /\ e.order = k /\ e.kind = kind
    BY <1>1, EventTyped DEF EventKind, EventOf
  <2> HIDE DEF e
  <2>3. QED BY <1>1, <2>1, <2>2, ExchangeAgrees
<1>4. QED BY <1>2, <1>3 DEF ExchangeActs, ExternalCancel, ExternalExpire

(* While the worker goes on, and an error ends it, the trade agrees with the
   book as far as it has seen the events.                                    *)
Agreed == Book /\ (up /\ ExitOnError => Seen(trade, ex, events))

(* So it does initially: nothing was opened. *)
LEMMA InitAgreed == Init => Agreed
<1> SUFFICES ASSUME Init PROVE Seen(trade, ex, events)
  BY InitBook DEF Agreed
<1>1. PICK armed \in BOOLEAN :
          trade = NewTrade(NewOrder("limit", "Buy", armed, Qty, 0),
                           NewOrder("limit", "Sell", ExitIsInstant, Qty, 0),
                           NewOrder("stop", "Sell", TRUE, Qty, InitialStop))
  BY DEF Init
<1>2. \A k \in Kinds : trade.orders[k].created = FALSE
  BY <1>1 DEF NewTrade, NewOrder, Kinds
<1>3. \A k \in Kinds : Places(k, events) = {} /\ ex[k].status # "open"
  BY DEF Init, Places, NoExchangeOrder
<1>4. QED BY <1>2, <1>3 DEF Seen, TradeAgrees, Agrees

(* Every step keeps it. *)
LEMMA NextAgreed == Agreed /\ [Next]_vars => Agreed'
<1> SUFFICES ASSUME Agreed, [Next]_vars, up', ExitOnError PROVE Seen(trade', ex', events')
  BY NextBook DEF Agreed
<1>1. /\ Book /\ IInv /\ TradeLedger(trade, ex, events, requests, results) /\ price \in Int \ {0}
      /\ requests \subseteq Request /\ trade \in TradeRec /\ events \in Seq(Event)
      /\ InFlight(trade, requests, results)
  BY PriceTyped, IInvInFlight DEF Agreed, Book, IInv, TypeOK
<1>2. up => Seen(trade, ex, events)
  BY DEF Agreed
<1>3. CASE TraderCompute
  <2>1. TOk(trade).t = trade
    BY DEF TOk
  <2>2. Settle(TOk(trade)) /\ UNCHANGED <<ex, events>> /\ up
    BY <1>3 DEF TraderCompute
  <2>3. Seen(trade', ex, events)
    BY <1>1, <1>2, <2>1, <2>2, SettleSeen
  <2>4. QED BY <2>2, <2>3
<1>4. CASE UNCHANGED vars \/ \E p \in 1..MaxPrice : PriceMoves(p)
  BY <1>2, <1>4 DEF vars, PriceMoves
<1>5. ASSUME NEW k \in Kinds, Activate(k) PROVE Seen(trade', ex', events')
  <2>1. /\ trade' = [trade EXCEPT !.orders[k].armed = TRUE] /\ ex' = ex /\ events' = events
        /\ Seen(trade, ex, events)
    BY <1>2, <1>5 DEF Activate
  <2>2. \A j \in Kinds : trade.orders[j] \in OrderRec
    BY <1>1, TradeOrders
  <2>3. trade'.tracked = trade.tracked
    BY <1>1, <2>1 DEF TradeRec
  <2>4. \A j \in Kinds : /\ trade'.orders[j].created = trade.orders[j].created
                         /\ trade'.orders[j].state = trade.orders[j].state
    BY <1>1, <2>1, <2>2 DEF TradeRec, OrderRec
  <2>5. QED BY <2>1, <2>3, <2>4 DEF Seen, TradeAgrees, Agrees
<1>6. CASE StrategyCall
  <2>1. UNCHANGED <<ex, events, up>>
    BY <1>6 DEF StrategyCall, CallTerminate, CallCancelAndIdle, CallResume, Call
  <2>2. Seen(trade, ex, events) => Seen(trade', ex, events)
    BY <1>1, <1>6, CallLedger
  <2>3. QED BY <1>2, <2>1, <2>2
<1>7. CASE Perform
  <2>1. trade' = trade /\ up' = up
    BY <1>7 DEF Perform, PerformRequest, ExchangeCreate, ExchangeReject, ExchangeCancel,
                ExchangeCancelReplace, ExchangeCannotCancel, Reports
  <2>2. QED BY <1>1, <1>2, <1>7, <2>1, PerformAgrees DEF Seen
<1>8. ASSUME NEW k \in Kinds, ExchangeActs(k) PROVE Seen(trade', ex', events')
  <2>1. trade' = trade /\ up' = up
    BY <1>8 DEF ExchangeActs, ExchangeFill, ExternalCancel, ExternalExpire, ExchangeEnds
  <2>2. QED BY <1>1, <1>2, <1>8, <2>1, ActsAgree DEF Seen
<1>9. ASSUME NEW router \in Routers, HandleEvent(router) PROVE Seen(trade', ex', events')
  <2> DEFINE r == ConfirmEvent(router, events[1])
             T == Tail(events)
  <2>1. /\ events # <<>> /\ events' = T /\ UNCHANGED ex /\ up
        /\ Settle(r) \/ SettleTwice(r)
    BY <1>9 DEF HandleEvent
  <2>2. events[1] \in Event
    BY <1>1, <2>1
  <2>3. TradeSound(trade, r)
    BY <1>1, <2>2, EventSound
  <2>4. TradeLedger(r.t, ex, T, requests, results) /\ (r.ok => Seen(r.t, ex, T))
    BY <1>1, <1>2, <2>1, EventLedger, Zenon
  <2> HIDE DEF r, T
  <2>5. r.t \in TradeRec /\ InFlight(r.t, requests, results)
    BY <1>1, <2>3, EvolvesInFlight DEF TradeSound, TradeEvolves
  <2>6. Seen(trade', ex, T)
    BY <1>1, <2>1, <2>4, <2>5, SettleSeen
  <2>7. QED BY <2>1, <2>6
<1>10. CASE HandleResult
  <2>1. PICK res \in results : results' = results \ {res} /\ Settle(ConfirmResult(res))
    BY <1>10 DEF HandleResult
  <2> DEFINE r == ConfirmResult(res)
             S == results \ {res}
  <2>2. r.t \in TradeRec /\ InFlight(r.t, requests, S)
    BY <1>1, ResultSound
  <2>3. TradeLedger(r.t, ex, events, requests, S) /\ (Seen(trade, ex, events) => Seen(r.t, ex, events))
    BY <1>1, ResultLedger
  <2>4. Settle(r) /\ UNCHANGED <<ex, events>> /\ up
    BY <1>10, <2>1 DEF HandleResult
  <2> HIDE DEF r, S
  <2>5. Seen(trade', ex, events)
    BY <1>1, <1>2, <2>2, <2>3, <2>4, SettleSeen
  <2>6. QED BY <2>4, <2>5
<1>11. QED BY <1>3, <1>4, <1>5, <1>6, <1>7, <1>8, <1>9, <1>10 DEF Next

(* Once every event was applied, the trader and the exchange agree on which
   orders are on the book, under which number and with which stop, when an
   error of a handler ends the worker (as in the playground).  The worker of
   src/src/context.rs goes on after an error, and promises no such thing.    *)
THEOREM BookAgreed == Spec => [](ExitOnError => BookAgreement)
<1>1. Agreed => (ExitOnError => BookAgreement)
  <2> SUFFICES ASSUME Agreed, ExitOnError, up, trade.tracked, events = <<>>, NEW k \in Kinds
               PROVE  /\ trade.orders[k].created <=> ex[k].status = "open"
                      /\ ex[k].status = "open" =>
                            trade.orders[k].seq = ex[k].seq /\ trade.orders[k].stop = ex[k].stop
    BY DEF BookAgreement
  <2>1. Places(k, events) = {}
    BY DEF Places
  <2>2. /\ trade.orders[k].created <=> ex[k].status = "open"
        /\ trade.orders[k].created => trade.orders[k].state \in OnBook
    BY <2>1 DEF Agreed, Seen, TradeAgrees, Agrees
  <2>3. OrderLedger(k, trade.orders[k], ex[k], events, requests, results)
    BY DEF Agreed, Book, TradeLedger, Known
  <2>4. ex[k].status = "open" => Alike(ex[k], trade.orders[k])
    BY <2>1, <2>2, <2>3 DEF OrderLedger
  <2>5. QED BY <2>2, <2>4 DEF Alike
<1>2. QED BY InitAgreed, NextAgreed, <1>1, PTL DEF Spec

----------------------------------------------------------------------------
(* What the trade has bought, and sells *)

Legs == {"exit", "stop"}

(* The events of an order not applied yet. *)
Said(k, E) == {E[n] : n \in Places(k, E)}

(* The order was filled in full. *)
Whole(x) == x.status = "gone" /\ x.filled = x.qty /\ x.filled > 0

FullFill(e) == e.kind = "Fill" /\ e.full

(* The entry was filled in full, with n at least. *)
Bought(X, n) == Whole(X["entry"]) /\ n <= X["entry"].filled

(* Nothing of the other way out was sold, nor can be. *)
Alone(k, X, Q) == \A j \in Legs \ {k} : ~Live(j, X[j], Q) /\ X[j].filled = 0

(* The exchange's part: what is held is what the entry bought less what was
   sold; an exit is asked for, announced and filled only for what was bought,
   and only the one.                                                         *)
Backed(X, E, Q, h) ==
    /\ h >= X["entry"].filled - X["exit"].filled - X["stop"].filled
    /\ \A k \in Kinds : /\ Asked(k, "CreateOrder", Q) => ~Whole(X[k])
                        /\ X[k].status = "open" /\ X[k].filled > 0 => X[k].filled < X[k].qty
    /\ \A k \in Legs : /\ X[k].status # "none" => Bought(X, X[k].qty)
                       /\ \A q \in OutOf(k, Q) : q.kind # "CancelOrder" => Bought(X, q.qty)
                       /\ \A e \in Said(k, E) : e.kind = "New" => Bought(X, e.qty)
                       /\ X[k].filled > 0 => Whole(X[k]) /\ Alone(k, X, Q)

(* The order ended otherwise than by a cancellation. *)
Spent(o) == o.state = "Finished" /\ ~o.byCancel

(* The entry did not fail to open; where an exit did, the entry is spent. *)
Sane(t) ==
    /\ t.state \notin {"EntryFailed", "Failed"}
    /\ t.orders["entry"].state # "OpenFailed"
    /\ t.state = "ExitFailed" => Spent(t.orders["entry"])

(* The trade's part: a spent entry is one that bought what the exits are for;
   where an exit failed, one was refused; and the trade knows of an order that
   was filled, or is still to be told.                                        *)
Holding(t, X, E, Q, R) ==
    /\ Sane(t)
    /\ Spent(t.orders["entry"]) =>
          Whole(X["entry"]) /\ \A k \in Legs : Within(t.orders[k], X["entry"].filled)
    /\ t.state = "ExitFailed" => \E k \in Legs : /\ Refused(k, t.orders[k], R)
                                                 /\ t.orders[k].state # "Finished"
                                                 /\ ~Out(k, X[k], E, Q)
    /\ \A k \in Kinds : Whole(X[k]) => \/ t.orders[k].state = "Finished"
                                       \/ \E e \in Said(k, E) : FullFill(e)
    /\ \A e \in Said("entry", E) : FullFill(e) => Whole(X["entry"]) /\ e.filled = X["entry"].filled

(* Only the order k is another at the exchange. *)
Others(k, X, Y) == \A j \in Kinds \ {k} : Y[j] = X[j]

(* The events F announce no way out that the events E do not, but one for n. *)
NoNews(E, F) == \A j \in Legs : \A e \in Said(j, F) : e.kind = "New" => e \in Said(j, E)

News(k, n, E, F) ==
    \A j \in Legs : \A e \in Said(j, F) :
        e.kind = "New" => e \in Said(j, E) \/ (j = k /\ e.qty = n)

(* The two ways out are orders of the trade. *)
LEMMA LegsOf == Legs \subseteq Kinds /\ "entry" \notin Legs /\ "exit" \in Legs /\ "stop" \in Legs
BY DEF Legs, Kinds

(* What is out, by the events. *)
LEMMA SaidOut ==
    ASSUME NEW k, NEW x, NEW E, NEW Q
    PROVE  Out(k, x, E, Q) <=> Live(k, x, Q) \/ \E e \in Said(k, E) : e.kind # "Rejected"
BY DEF Out, Said

(* What is left when the first event is applied. *)
LEMMA SaidTail ==
    ASSUME NEW E \in Seq(Event), E # <<>>, NEW j
    PROVE  /\ Said(j, Tail(E)) \subseteq Said(j, E)
           /\ \A e \in Said(j, E) : e.order = j /\ (e = E[1] \/ e \in Said(j, Tail(E)))
           /\ E[1] \in Said(E[1].order, E)
<1>1. ASSUME NEW e \in Said(j, Tail(E)) PROVE e \in Said(j, E)
  <2>1. PICK n \in Places(j, Tail(E)) : e = Tail(E)[n]
    BY DEF Said
  <2>2. n + 1 \in Places(j, E) /\ Tail(E)[n] = E[n + 1]
    BY TailPlaces
  <2>3. QED BY <2>1, <2>2 DEF Said
<1>2. ASSUME NEW e \in Said(j, E) PROVE e.order = j /\ (e = E[1] \/ e \in Said(j, Tail(E)))
  <2>1. PICK m \in Places(j, E) : e = E[m]
    BY DEF Said
  <2>2. e.order = j
    BY <2>1 DEF Places
  <2>3. CASE m # 1
    <3>1. m - 1 \in Places(j, Tail(E)) /\ m \in Nat
      BY <2>3, TailPlaces
    <3>2. Tail(E)[m - 1] = E[m]
      <4> DEFINE n == m - 1
      <4>1. n \in Places(j, Tail(E)) /\ n + 1 = m
        BY <3>1
      <4> HIDE DEF n
      <4>2. Tail(E)[n] = E[n + 1]
        BY <4>1, TailPlaces
      <4>3. QED BY <4>1, <4>2 DEF n
    <3>3. QED BY <2>1, <2>2, <3>1, <3>2 DEF Said
  <2>4. QED BY <2>1, <2>2, <2>3
<1>3. 1 \in Places(E[1].order, E)
  BY DEF Places
<1>4. QED BY <1>1, <1>2, <1>3 DEF Said

(* One more event. *)
LEMMA SaidAppend ==
    ASSUME NEW E \in Seq(Event), NEW e \in Event, NEW j
    PROVE  LET F == Append(E, e)
           IN  /\ F \in Seq(Event) /\ Said(j, E) \subseteq Said(j, F)
               /\ \A d \in Said(j, F) : d \in Said(j, E) \/ (d = e /\ e.order = j)
               /\ e.order = j => e \in Said(j, F)
<1> DEFINE F == Append(E, e)
           l == Len(E) + 1
<1>1. /\ F \in Seq(Event) /\ F[l] = e /\ (e.order = j => l \in Places(j, F))
      /\ \A n \in Places(j, F) : n \in Places(j, E) \/ (n = l /\ e.order = j)
      /\ \A n \in Places(j, E) : n \in Places(j, F) /\ F[n] = E[n]
  BY AppendPlaces
<1> HIDE DEF F, l
<1>2. \A d \in Said(j, E) : d \in Said(j, F)
  BY <1>1 DEF Said
<1>3. \A d \in Said(j, F) : d \in Said(j, E) \/ (d = e /\ e.order = j)
  BY <1>1 DEF Said
<1>4. QED BY <1>1, <1>2, <1>3 DEF Said, F, l

----------------------------------------------------------------------------
(* The exchange *)

(* What is asked for, of fewer requests. *)
LEMMA FewerLive ==
    ASSUME NEW Q, NEW S, S \subseteq Q, NEW k, NEW x
    PROVE  /\ \A kind : Asked(k, kind, S) => Asked(k, kind, Q)
           /\ Live(k, x, S) => Live(k, x, Q)
           /\ OutOf(k, S) \subseteq OutOf(k, Q)
BY DEF Asked, Live, OutOf

(* Fewer requests, and no new announcement. *)
LEMMA BackedLess ==
    ASSUME NEW X, NEW E, NEW F, NEW Q, NEW S, NEW h \in Int, Backed(X, E, Q, h), S \subseteq Q,
           NoNews(E, F)
    PROVE  Backed(X, F, S, h)
<1> USE DEF Others, NoNews, News
<1>1. \A k \in Legs : Alone(k, X, Q) => Alone(k, X, S)
  BY FewerLive DEF Alone
<1>2. QED BY <1>1, FewerLive DEF Backed

(* Before the entry was filled, no way out is opened or asked for. *)
LEMMA Unbought ==
    ASSUME NEW X \in [Kinds -> ExchangeOrder], NEW E, NEW Q, NEW h \in Int, Backed(X, E, Q, h),
           ~Whole(X["entry"]), NEW k \in Legs
    PROVE  /\ X[k].status = "none" /\ X[k].filled = 0
           /\ \A q \in OutOf(k, Q) : q.kind = "CancelOrder"
           /\ \A e \in Said(k, E) : e.kind # "New"
<1>1. X[k].filled \in Nat
  BY LegsOf DEF ExchangeOrder
<1>2. X[k].status = "none" /\ ~Whole(X[k])
  BY DEF Backed, Bought, Whole
<1>3. QED BY <1>1, <1>2 DEF Backed, Bought

(* An order is opened, as it was asked for. *)
LEMMA BackedOpens ==
    ASSUME ex \in [Kinds -> ExchangeOrder], held \in Int, Backed(ex, events, requests, held),
           NEW req \in requests, NEW k \in Kinds, k = req.order,
           \/ req.kind = "CreateOrder"
           \/ req.kind = "CancelReplaceOrder" /\ ex[k].status = "open",
           ex'[k] = Opened(req), Others(k, ex, ex'),
           requests' \subseteq requests, held' = held,
           News(k, req.qty, events, events')
    PROVE  Backed(ex', events', requests', held') /\ ~Whole(ex[k]) /\ ~Whole(ex'[k])
<1> USE DEF Others, NoNews, News
<1>1. ~Whole(ex[k])
  BY DEF Backed, Asked, Whole
<1>2. ex'[k].status = "open" /\ ex'[k].filled = 0 /\ ex'[k].qty = req.qty
  BY DEF Opened
<1>3. ~Whole(ex'[k])
  BY <1>2 DEF Whole
<1>4. \A j \in Kinds : ex[j].filled \in Nat
  BY DEF ExchangeOrder
<1>5. Live(k, ex[k], requests)
  BY DEF Live, Asked
<1>6. ASSUME NEW j \in Kinds
      PROVE  /\ Asked(j, "CreateOrder", requests') => ~Whole(ex'[j])
             /\ ex'[j].status = "open" /\ ex'[j].filled > 0 => ex'[j].filled < ex'[j].qty
  <2>1. CASE j = k
    BY <1>2, <1>3, <2>1
  <2>2. CASE j # k
    <3>1. ex'[j] = ex[j] /\ (Asked(j, "CreateOrder", requests') => Asked(j, "CreateOrder", requests))
      BY <2>2, FewerLive
    <3>2. QED BY <3>1 DEF Backed
  <2>3. QED BY <2>1, <2>2
<1>7. CASE k = "entry"
  <2>1. \A j \in Legs : /\ ex'[j].status = "none" /\ ex'[j].filled = 0
                        /\ \A q \in OutOf(j, requests') : q.kind = "CancelOrder"
                        /\ \A e \in Said(j, events') : e.kind # "New"
    <3>1. \A j \in Legs : /\ ex[j].status = "none" /\ ex[j].filled = 0
                          /\ \A q \in OutOf(j, requests) : q.kind = "CancelOrder"
                          /\ \A e \in Said(j, events) : e.kind # "New"
      BY <1>1, <1>7, Unbought
    <3>2. \A j \in Legs : ex'[j] = ex[j] /\ j # k /\ j \in Kinds /\ OutOf(j, requests') \subseteq OutOf(j, requests)
      BY <1>7, LegsOf, FewerLive
    <3>3. QED BY <3>1, <3>2
  <2>2. held' >= ex'["entry"].filled - ex'["exit"].filled - ex'["stop"].filled
    <3>1. ex["exit"].filled = 0 /\ ex["stop"].filled = 0 /\ ex'["exit"].filled = 0 /\ ex'["stop"].filled = 0
      BY <1>1, <1>7, <2>1, Unbought, LegsOf
    <3>2. held >= ex["entry"].filled - ex["exit"].filled - ex["stop"].filled
      BY DEF Backed
    <3>3. ex'["entry"].filled = 0
      BY <1>2, <1>7
    <3>4. held >= ex["entry"].filled
      BY <1>4, <3>1, <3>2, KindsOf
    <3>5. held >= 0
      BY <1>4, <3>4, KindsOf
    <3>6. QED BY <3>1, <3>3, <3>5
  <2>3. Backed(ex', events', requests', held')
    BY <1>6, <2>1, <2>2 DEF Backed
  <2>4. QED BY <1>1, <1>3, <2>3
<1>8. CASE k \in Legs
  <2>1. ex'["entry"] = ex["entry"] /\ ex[k].filled = 0 /\ ex'[k].filled = ex[k].filled
    BY <1>1, <1>2, <1>4, <1>8, LegsOf, KindsOf DEF Backed
  <2>2. \A n : Bought(ex', n) <=> Bought(ex, n)
    BY <2>1 DEF Bought
  <2>3. Bought(ex, req.qty)
    BY <1>8 DEF Backed, OutOf
  <2>4. held' >= ex'["entry"].filled - ex'["exit"].filled - ex'["stop"].filled
    <3>1. \A j \in Kinds : ex'[j].filled = ex[j].filled
      BY <2>1
    <3>2. QED BY <3>1, KindsOf DEF Backed
  <2>5. ASSUME NEW j \in Legs
        PROVE  /\ ex'[j].status # "none" => Bought(ex', ex'[j].qty)
               /\ \A q \in OutOf(j, requests') : q.kind # "CancelOrder" => Bought(ex', q.qty)
               /\ \A e \in Said(j, events') : e.kind = "New" => Bought(ex', e.qty)
               /\ ex'[j].filled > 0 => Whole(ex'[j]) /\ Alone(j, ex', requests')
    <3>1. j \in Kinds
      BY LegsOf
    <3>2. ex'[j].status # "none" => Bought(ex', ex'[j].qty)
      BY <1>2, <2>2, <2>3, <3>1 DEF Backed
    <3>3. \A q \in OutOf(j, requests') : q.kind # "CancelOrder" => Bought(ex', q.qty)
      BY <2>2, FewerLive DEF Backed
    <3>4. \A e \in Said(j, events') : e.kind = "New" => Bought(ex', e.qty)
      BY <2>2, <2>3 DEF Backed
    <3>5. ~(ex'[j].filled > 0)
      <4>1. CASE j = k
        BY <1>2, <4>1
      <4>2. CASE j # k
        <5>1. ~Alone(j, ex, requests)
          BY <1>5, <1>8, <4>2 DEF Alone
        <5>2. QED BY <3>1, <4>2, <5>1 DEF Backed
      <4>3. QED BY <4>1, <4>2
    <3>6. QED BY <3>2, <3>3, <3>4, <3>5
  <2>6. Backed(ex', events', requests', held')
    BY <1>6, <2>4, <2>5 DEF Backed
  <2>7. QED BY <1>1, <1>3, <2>6
<1>9. QED BY <1>7, <1>8 DEF Legs, Kinds

(* An order leaves the book with what was filled of it. *)
LEMMA BackedCloses ==
    ASSUME ex \in [Kinds -> ExchangeOrder], held \in Int, Backed(ex, events, requests, held),
           NEW k \in Kinds, ex[k].status = "open",
           ex'[k] = [ex[k] EXCEPT !.status = "gone"], Others(k, ex, ex'),
           requests' \subseteq requests, held' = held,
           NoNews(events, events')
    PROVE  Backed(ex', events', requests', held') /\ ~Whole(ex[k]) /\ ~Whole(ex'[k])
<1> USE DEF Others, NoNews, News
<1>1. ex[k] \in ExchangeOrder
  OBVIOUS
<1>2. ex'[k].status = "gone" /\ ex'[k].filled = ex[k].filled /\ ex'[k].qty = ex[k].qty
      /\ ex[k].filled \in Nat /\ ex[k].qty \in Int
  BY <1>1 DEF ExchangeOrder
<1>3. ~Whole(ex[k]) /\ ~Whole(ex'[k])
  BY <1>2 DEF Whole, Backed
<1>4. \A j \in Kinds : ex'[j].filled = ex[j].filled /\ ex'[j].qty = ex[j].qty /\ (Whole(ex'[j]) <=> Whole(ex[j]))
  BY <1>2, <1>3
<1>5. \A n : Bought(ex', n) <=> Bought(ex, n)
  BY <1>4, KindsOf DEF Bought
<1>6. \A j \in Kinds : /\ Asked(j, "CreateOrder", requests') => ~Whole(ex'[j])
                       /\ ex'[j].status = "open" /\ ex'[j].filled > 0 => ex'[j].filled < ex'[j].qty
  BY <1>2, <1>4, FewerLive DEF Backed
<1>7. held' >= ex'["entry"].filled - ex'["exit"].filled - ex'["stop"].filled
  BY <1>4, KindsOf DEF Backed
<1>8. \A j \in Kinds : Live(j, ex'[j], requests') => Live(j, ex[j], requests)
  BY <1>2, FewerLive DEF Live
<1>9. \A j \in Legs : Alone(j, ex, requests) => Alone(j, ex', requests')
  BY <1>4, <1>8, LegsOf DEF Alone
<1>10. \A j \in Legs : ex'[j].status # "none" => ex[j].status # "none"
  BY <1>2, LegsOf
<1>11. ASSUME NEW j \in Legs
       PROVE  /\ ex'[j].status # "none" => Bought(ex', ex'[j].qty)
              /\ \A q \in OutOf(j, requests') : q.kind # "CancelOrder" => Bought(ex', q.qty)
              /\ \A e \in Said(j, events') : e.kind = "New" => Bought(ex', e.qty)
              /\ ex'[j].filled > 0 => Whole(ex'[j]) /\ Alone(j, ex', requests')
  <2>1. ex'[j].status # "none" => Bought(ex', ex'[j].qty)
    BY <1>4, <1>5, <1>10, LegsOf DEF Backed
  <2>2. \A q \in OutOf(j, requests') : q.kind # "CancelOrder" => Bought(ex', q.qty)
    BY <1>5, FewerLive DEF Backed
  <2>3. \A e \in Said(j, events') : e.kind = "New" => Bought(ex', e.qty)
    BY <1>5 DEF Backed
  <2>4. ex'[j].filled > 0 => Whole(ex'[j]) /\ Alone(j, ex', requests')
    BY <1>4, <1>9, LegsOf DEF Backed
  <2>5. QED BY <2>1, <2>2, <2>3, <2>4
<1>12. Backed(ex', events', requests', held')
  BY <1>6, <1>7, <1>11 DEF Backed
<1>13. QED BY <1>3, <1>12

(* A part of the entry is filled: nothing was sold of it yet. *)
LEMMA BackedBuys ==
    ASSUME ex \in [Kinds -> ExchangeOrder], held \in Int, Backed(ex, events, requests, held),
           ex["entry"].status = "open", ~Asked("entry", "CreateOrder", requests),
           NEW filled \in Nat, filled > ex["entry"].filled, filled <= ex["entry"].qty,
           Others("entry", ex, ex'),
           ex'["entry"].filled = filled, ex'["entry"].qty = ex["entry"].qty,
           ex'["entry"].status = IF filled = ex["entry"].qty THEN "gone" ELSE "open",
           NoNews(events, events'), requests' = requests, held' = held + filled - ex["entry"].filled
    PROVE  /\ Backed(ex', events', requests', held')
           /\ ~Whole(ex["entry"]) /\ (Whole(ex'["entry"]) <=> filled = ex["entry"].qty)
<1> USE DEF Others, NoNews, News
<1>1. ex["entry"] \in ExchangeOrder /\ ex["entry"].filled \in Nat /\ ex["entry"].qty \in Int
  BY KindsOf DEF ExchangeOrder
<1>2. ~Whole(ex["entry"])
  BY DEF Whole
<1>3. \A j \in Legs : /\ ex[j].status = "none" /\ ex[j].filled = 0
                      /\ \A q \in OutOf(j, requests) : q.kind = "CancelOrder"
                      /\ \A e \in Said(j, events) : e.kind # "New"
  BY <1>2, Unbought
<1>4. \A j \in Legs : ex'[j] = ex[j] /\ j \in Kinds
  BY LegsOf
<1>5. held >= ex["entry"].filled - ex["exit"].filled - ex["stop"].filled
  BY DEF Backed
<1>6. held >= ex["entry"].filled
  BY <1>1, <1>3, <1>5, LegsOf
<1>7. held' >= ex'["entry"].filled - ex'["exit"].filled - ex'["stop"].filled
  <2>1. ex'["exit"].filled = 0 /\ ex'["stop"].filled = 0
    BY <1>3, <1>4, LegsOf
  <2>2. QED BY <1>1, <1>6, <2>1
<1>8. Whole(ex'["entry"]) <=> filled = ex["entry"].qty
  BY <1>1 DEF Whole
<1>9. ASSUME NEW j \in Kinds
      PROVE  /\ Asked(j, "CreateOrder", requests) => ~Whole(ex'[j])
             /\ ex'[j].status = "open" /\ ex'[j].filled > 0 => ex'[j].filled < ex'[j].qty
  <2>1. CASE j = "entry"
    BY <1>1, <2>1
  <2>2. CASE j # "entry"
    BY <2>2 DEF Backed
  <2>3. QED BY <2>1, <2>2
<1>10. \A j \in Legs : /\ ex'[j].status # "none" => Bought(ex', ex'[j].qty)
                       /\ \A q \in OutOf(j, requests) : q.kind # "CancelOrder" => Bought(ex', q.qty)
                       /\ \A e \in Said(j, events') : e.kind = "New" => Bought(ex', e.qty)
                       /\ ex'[j].filled > 0 => Whole(ex'[j]) /\ Alone(j, ex', requests)
  BY <1>3, <1>4
<1>11. Backed(ex', events', requests', held')
  BY <1>7, <1>9, <1>10 DEF Backed
<1>12. QED BY <1>2, <1>8, <1>11

(* The exit or the stoploss is filled, which it only is in full, while the other
   one is not on the book.                                                     *)
LEMMA BackedSells ==
    ASSUME ex \in [Kinds -> ExchangeOrder], held \in Int, Backed(ex, events, requests, held),
           NEW k \in Legs, ex[k].status = "open", ~Asked(k, "CreateOrder", requests),
           \A j \in Legs \ {k} : ~Live(j, ex[j], requests), ex[k].qty > ex[k].filled,
           Others(k, ex, ex'),
           ex'[k].filled = ex[k].qty, ex'[k].qty = ex[k].qty, ex'[k].status = "gone",
           NoNews(events, events'), requests' = requests, held' = held - ex[k].qty + ex[k].filled
    PROVE  Backed(ex', events', requests', held') /\ Whole(ex'[k])
<1> USE DEF Others, NoNews, News
<1>1. \A j \in Kinds : ex[j] \in ExchangeOrder /\ ex[j].filled \in Nat /\ ex[j].qty \in Int
  BY DEF ExchangeOrder
<1>2. k \in Kinds /\ k # "entry"
  BY LegsOf
<1>3. ex[k].filled = 0 /\ Whole(ex'[k])
  BY <1>1, <1>2 DEF Backed, Whole
<1>4. \A j \in Legs \ {k} : ex[j].filled = 0 /\ ex'[j] = ex[j]
  <2> SUFFICES ASSUME NEW j \in Legs \ {k} PROVE ex[j].filled = 0 /\ ex'[j] = ex[j]
    OBVIOUS
  <2>1. j \in Kinds
    BY LegsOf
  <2>2. ~Alone(j, ex, requests)
    BY DEF Alone, Live
  <2>3. QED BY <1>1, <2>1, <2>2 DEF Backed
<1>5. ex'["entry"] = ex["entry"]
  BY <1>2, LegsOf, KindsOf
<1>6. \A n : Bought(ex', n) <=> Bought(ex, n)
  BY <1>5 DEF Bought
<1>7. held' >= ex'["entry"].filled - ex'["exit"].filled - ex'["stop"].filled
  <2>1. held >= ex["entry"].filled - ex["exit"].filled - ex["stop"].filled
    BY DEF Backed
  <2>2. CASE k = "exit"
    <3>1. ex["stop"].filled = 0 /\ ex'["stop"].filled = 0 /\ ex["exit"].filled = 0 /\ ex'["exit"].filled = ex["exit"].qty
      BY <1>3, <1>4, <2>2, LegsOf
    <3>2. QED BY <1>1, <1>5, <2>1, <2>2, <3>1, KindsOf
  <2>3. CASE k = "stop"
    <3>1. ex["exit"].filled = 0 /\ ex'["exit"].filled = 0 /\ ex["stop"].filled = 0 /\ ex'["stop"].filled = ex["stop"].qty
      BY <1>3, <1>4, <2>3, LegsOf
    <3>2. QED BY <1>1, <1>5, <2>1, <2>3, <3>1, KindsOf
  <2>4. QED BY <2>2, <2>3 DEF Legs
<1>8. ASSUME NEW j \in Kinds
      PROVE  /\ Asked(j, "CreateOrder", requests) => ~Whole(ex'[j])
             /\ ex'[j].status = "open" /\ ex'[j].filled > 0 => ex'[j].filled < ex'[j].qty
  <2>1. CASE j = k
    BY <2>1
  <2>2. CASE j # k
    BY <2>2 DEF Backed
  <2>3. QED BY <2>1, <2>2
<1>9. Alone(k, ex', requests)
  BY <1>4 DEF Alone
<1>10. ASSUME NEW j \in Legs
       PROVE  /\ ex'[j].status # "none" => Bought(ex', ex'[j].qty)
              /\ \A q \in OutOf(j, requests) : q.kind # "CancelOrder" => Bought(ex', q.qty)
              /\ \A e \in Said(j, events') : e.kind = "New" => Bought(ex', e.qty)
              /\ ex'[j].filled > 0 => Whole(ex'[j]) /\ Alone(j, ex', requests)
  <2>1. ex'[j].status # "none" => ex[j].status # "none" /\ ex'[j].qty = ex[j].qty
    BY <1>4
  <2>2. ex'[j].status # "none" => Bought(ex', ex'[j].qty)
    BY <1>6, <2>1 DEF Backed
  <2>3. \A q \in OutOf(j, requests) : q.kind # "CancelOrder" => Bought(ex', q.qty)
    BY <1>6 DEF Backed
  <2>4. \A e \in Said(j, events') : e.kind = "New" => Bought(ex', e.qty)
    BY <1>6 DEF Backed
  <2>5. ex'[j].filled > 0 => Whole(ex'[j]) /\ Alone(j, ex', requests)
    BY <1>3, <1>4, <1>9
  <2>6. QED BY <2>2, <2>3, <2>4, <2>5
<1>11. Backed(ex', events', requests', held')
  BY <1>7, <1>8, <1>10 DEF Backed
<1>12. QED BY <1>3, <1>11

(* What the trade knows stays right when the exchange moves an order that is
   out, and tells so; a fill in full it announces.                           *)
LEMMA HoldExchange ==
    ASSUME Holding(trade, ex, events, requests, results), requests' \subseteq requests,
           results \subseteq results',
           NEW k \in Kinds, Out(k, ex[k], events, requests), k = "entry" => ~Whole(ex[k]),
           Others(k, ex, ex'),
           \A j \in Kinds \ {k} : Said(j, events') = Said(j, events), Said(k, events) \subseteq Said(k, events'),
           \A e \in Said(k, events') : FullFill(e)
              => e \in Said(k, events) \/ (Whole(ex'[k]) /\ e.filled = ex'[k].filled),
           Whole(ex'[k]) => \E e \in Said(k, events') : FullFill(e)
    PROVE  Holding(trade, ex', events', requests', results')
<1> USE DEF Others, NoNews, News
<1>1. Whole(ex["entry"]) => k # "entry" /\ ex'["entry"] = ex["entry"]
  BY KindsOf
<1>2. Spent(trade.orders["entry"]) =>
         Whole(ex'["entry"]) /\ \A l \in Legs : Within(trade.orders[l], ex'["entry"].filled)
  BY <1>1 DEF Holding
<1>3. ASSUME NEW l \in Legs, Refused(l, trade.orders[l], results), ~Out(l, ex[l], events, requests)
      PROVE  Refused(l, trade.orders[l], results') /\ ~Out(l, ex'[l], events', requests')
  <2>1. l # k /\ l \in Kinds
    BY <1>3, LegsOf
  <2>2. ex'[l] = ex[l] /\ Said(l, events') = Said(l, events)
    BY <2>1
  <2>3. QED BY <1>3, <2>2, SaidOut, FewerLive DEF Refused
<1>4. \A j \in Kinds : Whole(ex'[j]) => \/ trade.orders[j].state = "Finished"
                                      \/ \E e \in Said(j, events') : FullFill(e)
  BY DEF Holding
<1>5. \A e \in Said("entry", events') : FullFill(e) => Whole(ex'["entry"]) /\ e.filled = ex'["entry"].filled
  <2>1. CASE k = "entry"
    BY <2>1 DEF Holding
  <2>2. CASE k # "entry"
    BY <2>2, KindsOf DEF Holding
  <2>3. QED BY <2>1, <2>2
<1>6. trade.state = "ExitFailed" => \E l \in Legs : /\ Refused(l, trade.orders[l], results')
                                                /\ trade.orders[l].state # "Finished"
                                                /\ ~Out(l, ex'[l], events', requests')
  BY <1>3 DEF Holding
<1>7. Sane(trade)
  BY DEF Holding
<1>8. QED BY <1>2, <1>4, <1>5, <1>6, <1>7 DEF Holding

(* So does what only answers a request. *)
LEMMA HoldReported ==
    ASSUME NEW t, NEW X, NEW E, NEW Q, NEW R, Holding(t, X, E, Q, R),
           NEW F, \A j \in Kinds : Said(j, E) \subseteq Said(j, F),
           \A j \in Kinds : \A e \in Said(j, F) : e \in Said(j, E) \/ e.kind = "Rejected",
           NEW S, S \subseteq Q, NEW T, R \subseteq T
    PROVE  Holding(t, X, F, S, T)
<1>1. ASSUME NEW l \in Legs, Refused(l, t.orders[l], R), ~Out(l, X[l], E, Q)
      PROVE  Refused(l, t.orders[l], T) /\ ~Out(l, X[l], F, S)
  BY <1>1, SaidOut, FewerLive, LegsOf DEF Refused
<1>2. \A j \in Kinds : \A e \in Said(j, F) : FullFill(e) => e \in Said(j, E)
  BY DEF FullFill
<1>3. QED BY <1>1, <1>2, KindsOf DEF Holding

----------------------------------------------------------------------------
(* The exchange: its steps *)

(* The events of one order are added to, by one that announces no fill. *)
LEMMA SaidMore ==
    ASSUME NEW E \in Seq(Event), NEW e \in Event, e.kind # "Fill"
    PROVE  LET F == Append(E, e)
           IN  /\ \A j \in Kinds : Said(j, E) \subseteq Said(j, F)
               /\ \A j \in Kinds \ {e.order} : Said(j, F) = Said(j, E)
               /\ \A j \in Kinds : \A d \in Said(j, F) : /\ d \in Said(j, E) \/ d = e
                                                         /\ FullFill(d) => d \in Said(j, E)
<1> DEFINE F == Append(E, e)
<1>1. ASSUME NEW j
      PROVE  /\ Said(j, E) \subseteq Said(j, F)
             /\ \A d \in Said(j, F) : d \in Said(j, E) \/ (d = e /\ e.order = j)
  BY SaidAppend
<1> HIDE DEF F
<1>2. ASSUME NEW j \in Kinds \ {e.order} PROVE Said(j, F) = Said(j, E)
  <2>1. e.order # j
    OBVIOUS
  <2>2. \A d \in Said(j, F) : d \in Said(j, E)
    BY <1>1, <2>1
  <2>3. \A d \in Said(j, E) : d \in Said(j, F)
    BY <1>1
  <2>4. QED BY <2>2, <2>3
<1>3. \A j \in Kinds : \A d \in Said(j, F) : FullFill(d) => d \in Said(j, E)
  BY <1>1 DEF FullFill
<1>4. QED BY <1>1, <1>2, <1>3 DEF F

(* What is performed of the requests keeps what is held, and what is known of it. *)
LEMMA PerformHold ==
    ASSUME IInv, Perform, Backed(ex, events, requests, held)
    PROVE  /\ Backed(ex', events', requests', held')
           /\ Holding(trade, ex, events, requests, results)
                => Holding(trade, ex', events', requests', results')
<1>1. PICK req \in requests : PerformRequest(req)
  BY DEF Perform
<1> DEFINE k == req.order
           x == ex[k]
           y == Opened(req)
           c == EventOf(k, "Cancelled", x)
           w == EventOf(k, "New", y)
           z == EventOf(k, "Rejected", y)
<1>2. /\ req \in Request /\ k \in Kinds /\ ex \in [Kinds -> ExchangeOrder]
      /\ events \in Seq(Event) /\ held \in Int
  BY DEF IInv, TypeOK, Request
<1>3. /\ x \in ExchangeOrder /\ y \in ExchangeOrder
      /\ c \in Event /\ w \in Event /\ z \in Event
  BY <1>2, OpenedTyped, EventTyped DEF EventKind
<1>4. /\ c.order = k /\ c.kind = "Cancelled"
      /\ w.order = k /\ w.kind = "New" /\ w.qty = req.qty
      /\ z.order = k /\ z.kind = "Rejected"
  BY DEF EventOf, Opened
<1>5. \E b \in BOOLEAN : Reports(req, b)
  BY <1>1 DEF PerformRequest, ExchangeCreate, ExchangeReject, ExchangeCancel,
              ExchangeCancelReplace, ExchangeCannotCancel
<1>6. requests' \subseteq requests /\ results \subseteq results' /\ held' = held
  BY <1>5 DEF Reports
<1>7. Asked(k, req.kind, requests)
  BY DEF Asked
<1> DEFINE Moved == /\ Backed(ex', events', requests', held')
                    /\ Holding(trade, ex, events, requests, results)
                         => Holding(trade, ex', events', requests', results')
<1> HIDE DEF c, w, z, y
<1>8. ASSUME Live(k, x, requests), ~Whole(x), ~Whole(ex'[k]), Others(k, ex, ex'),
             \A j \in Kinds \ {k} : Said(j, events') = Said(j, events),
             Said(k, events) \subseteq Said(k, events'),
             \A d \in Said(k, events') : FullFill(d) => d \in Said(k, events),
             Holding(trade, ex, events, requests, results)
      PROVE  Holding(trade, ex', events', requests', results')
  <2>1. Out(k, x, events, requests)
    BY <1>8 DEF Out
  <2>2. QED BY <1>2, <1>6, <1>8, <2>1, HoldExchange
<1>9. CASE ExchangeCreate(req)
  <2>1. /\ ex'[k] = y /\ events' = Append(events, w) /\ Asked(k, "CreateOrder", requests)
        /\ Others(k, ex, ex')
    BY <1>2, <1>7, <1>9 DEF ExchangeCreate, w, y, Others
  <2>2. /\ \A j \in Kinds : Said(j, events) \subseteq Said(j, events')
        /\ \A j \in Kinds \ {k} : Said(j, events') = Said(j, events)
        /\ \A j \in Kinds : \A d \in Said(j, events') : /\ d \in Said(j, events) \/ d = w
                                                        /\ FullFill(d) => d \in Said(j, events)
    BY <1>2, <1>3, <1>4, <2>1, SaidMore
  <2>3. News(k, req.qty, events, events')
    BY <1>4, <2>2, LegsOf DEF NoNews, News
  <2>4. Backed(ex', events', requests', held') /\ ~Whole(x) /\ ~Whole(ex'[k])
    <3>1. req.kind = "CreateOrder" /\ ex'[k] = Opened(req)
      BY <1>9, <2>1 DEF ExchangeCreate, y, Others
    <3>2. QED BY <1>2, <1>6, <2>1, <2>3, <3>1, BackedOpens
  <2>5. Live(k, x, requests)
    BY <2>1 DEF Live
  <2>6. Moved
    BY <1>2, <1>8, <2>1, <2>2, <2>4, <2>5
  <2>7. QED BY <1>6, <2>6
<1>10. CASE ExchangeReject(req) \/ ExchangeCannotCancel(req)
  <2>1. ex' = ex /\ events' \in {events, Append(events, z)}
    BY <1>10 DEF ExchangeReject, ExchangeCannotCancel, z, y
  <2>2. /\ \A j \in Kinds : Said(j, events) \subseteq Said(j, events')
        /\ \A j \in Kinds : \A d \in Said(j, events') : d \in Said(j, events) \/ d = z
    BY <1>2, <1>3, <1>4, <2>1, SaidMore
  <2>3. NoNews(events, events')
    BY <1>4, <2>2, LegsOf DEF NoNews, News
  <2>4. Backed(ex', events', requests', held')
    <3>1. Backed(ex, events', requests', held)
      BY <1>2, <1>6, <2>3, BackedLess
    <3>2. QED BY <1>6, <2>1, <3>1
  <2>5. \A j \in Kinds : \A e \in Said(j, events') : e \in Said(j, events) \/ e.kind = "Rejected"
    BY <1>4, <2>2
  <2>6. Moved
    BY <1>6, <2>1, <2>2, <2>4, <2>5, HoldReported
  <2>7. QED BY <1>6, <2>6
<1>11. CASE ExchangeCancel(req)
  <2>1. /\ ex'[k] = [x EXCEPT !.status = "gone"] /\ events' = Append(events, c) /\ x.status = "open"
        /\ Others(k, ex, ex')
    BY <1>2, <1>11 DEF ExchangeCancel, c, Others
  <2>2. /\ \A j \in Kinds : Said(j, events) \subseteq Said(j, events')
        /\ \A j \in Kinds \ {k} : Said(j, events') = Said(j, events)
        /\ \A j \in Kinds : \A d \in Said(j, events') : /\ d \in Said(j, events) \/ d = c
                                                        /\ FullFill(d) => d \in Said(j, events)
    BY <1>2, <1>3, <1>4, <2>1, SaidMore
  <2>3. NoNews(events, events')
    BY <1>4, <2>2, LegsOf DEF NoNews, News
  <2>4. Backed(ex', events', requests', held') /\ ~Whole(x) /\ ~Whole(ex'[k])
    BY <1>2, <1>6, <2>1, <2>3, BackedCloses
  <2>5. Live(k, x, requests)
    BY <2>1 DEF Live
  <2>6. Moved
    BY <1>2, <1>8, <2>1, <2>2, <2>4, <2>5
  <2>7. QED BY <1>6, <2>6
<1>12. CASE ExchangeCancelReplace(req)
  <2> DEFINE G == Append(events, c)
  <2>1. /\ ex'[k] = y /\ events' = Append(G, w) /\ x.status = "open"
        /\ Others(k, ex, ex')
    <3>1. ex'[k] = y /\ events' = events \o <<c, w>> /\ x.status = "open"
      BY <1>2, <1>12 DEF ExchangeCancelReplace, c, w, y, Others
    <3>2. events \o <<c, w>> = Append(Append(events, c), w)
      BY <1>2, <1>3
    <3>3. Others(k, ex, ex')
      BY <1>2, <1>12 DEF ExchangeCancelReplace, Others
    <3>4. QED BY <3>1, <3>2, <3>3
  <2>2. G \in Seq(Event)
    BY <1>2, <1>3
  <2>3. /\ \A j \in Kinds : Said(j, events) \subseteq Said(j, G)
        /\ \A j \in Kinds \ {k} : Said(j, G) = Said(j, events)
        /\ \A j \in Kinds : \A d \in Said(j, G) : /\ d \in Said(j, events) \/ d = c
                                                  /\ FullFill(d) => d \in Said(j, events)
    BY <1>2, <1>3, <1>4, SaidMore
  <2> HIDE DEF G
  <2>4. /\ \A j \in Kinds : Said(j, G) \subseteq Said(j, events')
        /\ \A j \in Kinds \ {k} : Said(j, events') = Said(j, G)
        /\ \A j \in Kinds : \A d \in Said(j, events') : /\ d \in Said(j, G) \/ d = w
                                                        /\ FullFill(d) => d \in Said(j, G)
    BY <1>3, <1>4, <2>1, <2>2, SaidMore
  <2>5. News(k, req.qty, events, events')
    BY <1>4, <2>3, <2>4, LegsOf DEF NoNews, News
  <2>6. Backed(ex', events', requests', held') /\ ~Whole(x) /\ ~Whole(ex'[k])
    <3>1. req.kind = "CancelReplaceOrder" /\ ex'[k] = Opened(req)
      BY <1>12, <2>1 DEF ExchangeCancelReplace, y, Others
    <3>2. x.status = "open" /\ Others(k, ex, ex')
      BY <2>1
    <3>3. QED BY <1>2, <1>6, <2>5, <3>1, <3>2, BackedOpens
  <2>7. Live(k, x, requests)
    BY <2>1 DEF Live
  <2>8. Moved
    BY <1>2, <1>8, <2>1, <2>3, <2>4, <2>6, <2>7
  <2>9. QED BY <1>6, <2>8
<1>13. QED BY <1>1, <1>9, <1>10, <1>11, <1>12 DEF PerformRequest

(* So does what the exchange does by itself, where it fills the exit and the
   stoploss in full or not at all.                                           *)
LEMMA ActsHold ==
    ASSUME Book, PartialFills \subseteq {"entry"}, NEW k \in Kinds, ExchangeActs(k),
           Backed(ex, events, requests, held)
    PROVE  /\ Backed(ex', events', requests', held')
           /\ Holding(trade, ex, events, requests, results)
                => Holding(trade, ex', events', requests', results')
<1> DEFINE x == ex[k]
<1>1. /\ ex \in [Kinds -> ExchangeOrder] /\ x \in ExchangeOrder
      /\ events \in Seq(Event) /\ trade \in TradeRec /\ held \in Int
      /\ x.filled \in Nat /\ x.qty \in Int
  BY DEF Book, IInv, TypeOK, ExchangeOrder
<1>2. ASSUME NEW filled \in 1..Qty, ExchangeFill(k, filled)
      PROVE  /\ Backed(ex', events', requests', held')
             /\ Holding(trade, ex, events, requests, results)
                  => Holding(trade, ex', events', requests', results')
  <2> DEFINE y == ex'[k]
             e == EventOf(k, "Fill", y)
  <2>1. /\ y.filled = filled /\ y.qty = x.qty /\ y.status = (IF filled = x.qty THEN "gone" ELSE "open")
        /\ y \in ExchangeOrder /\ x.status = "open" /\ filled > x.filled /\ filled <= x.qty
        /\ Others(k, ex, ex')
        /\ filled \in Nat
    <3>1. filled \in Nat
      BY EnvAssumption
    <3>2. ex' = [ex EXCEPT ![k] = [x EXCEPT !.filled = filled,
                                            !.status = IF filled = x.qty THEN "gone" ELSE "open"]]
      BY <1>1, <1>2 DEF ExchangeFill
    <3>3. QED BY <1>1, <1>2, <3>1, <3>2 DEF ExchangeFill, ExchangeOrder, Others
  <2>2. events' = Append(events, e) /\ requests' = requests /\ results' = results
    BY <1>2 DEF ExchangeFill
  <2>3. e \in Event /\ e.order = k /\ e.kind = "Fill" /\ e.full = (filled = x.qty) /\ e.filled = filled
    BY <2>1, EventTyped DEF EventKind, EventOf
  <2> HIDE DEF y, e
  <2>4. /\ \A j \in Kinds : Said(j, events) \subseteq Said(j, events')
        /\ \A j \in Kinds : \A d \in Said(j, events') : d \in Said(j, events) \/ (d = e /\ j = k)
        /\ e \in Said(k, events')
    BY <1>1, <2>2, <2>3, SaidAppend
  <2>5. NoNews(events, events')
    BY <2>3, <2>4, LegsOf DEF NoNews, News
  <2>6. ~Asked(k, "CreateOrder", requests) /\ Out(k, x, events, requests)
    BY <2>1 DEF Book, TradeLedger, Pipe, Out, Live
  <2>7. Backed(ex', events', requests', held') /\ (k = "entry" => ~Whole(x))
        /\ (Whole(y) <=> filled = x.qty)
    <3>1. CASE k = "entry"
      <4>1. held' = held + filled - x.filled
        BY <1>2, <3>1 DEF ExchangeFill
      <4>2. QED BY <1>1, <2>1, <2>2, <2>5, <2>6, <3>1, <4>1, BackedBuys DEF y
    <3>2. CASE k # "entry"
      <4>1. k \in Legs /\ filled = x.qty /\ held' = held - filled + x.filled
        BY <1>2, <3>2 DEF ExchangeFill, Legs, Kinds
      <4>2. \A j \in Legs \ {k} : ~Live(j, ex[j], requests)
        <5>1. trade.tracked
          BY <2>6 DEF Book, TradeLedger, OutOrders
        <5>2. TradeBook(trade, OutOrders(ex, events, requests)) /\ k \in OutOrders(ex, events, requests)
          BY <2>6, <5>1 DEF Book, TradeLedger, Known, OutOrders
        <5>3. \A j \in Legs \ {k} : j \notin OutOrders(ex, events, requests)
          BY <4>1, <5>2 DEF TradeBook, Legs
        <5>4. QED BY <5>3, LegsOf DEF OutOrders, Out
      <4>3. Backed(ex', events', requests', held') /\ Whole(y)
        BY <1>1, <2>1, <2>2, <2>5, <2>6, <4>1, <4>2, BackedSells DEF y
      <4>4. QED BY <3>2, <4>1, <4>3
    <3>3. QED BY <3>1, <3>2
  <2>8. ASSUME Holding(trade, ex, events, requests, results)
        PROVE  Holding(trade, ex', events', requests', results')
    <3>1. \A d \in Said(k, events') : FullFill(d)
             => d \in Said(k, events) \/ (Whole(ex'[k]) /\ d.filled = ex'[k].filled)
      BY <2>1, <2>3, <2>4, <2>7 DEF FullFill, y
    <3>2. Whole(ex'[k]) => \E d \in Said(k, events') : FullFill(d)
      BY <2>3, <2>4, <2>7 DEF FullFill, y
    <3>3. \A j \in Kinds \ {k} : Said(j, events') = Said(j, events)
      BY <2>4
    <3>4. QED BY <2>1, <2>2, <2>4, <2>6, <2>7, <2>8, <3>1, <3>2, <3>3, HoldExchange
  <2>9. QED BY <2>7, <2>8
<1>3. ASSUME NEW fault, NEW kind \in {"Cancelled", "Expired"}, ExchangeEnds(k, fault, kind)
      PROVE  /\ Backed(ex', events', requests', held')
             /\ Holding(trade, ex, events, requests, results)
                  => Holding(trade, ex', events', requests', results')
  <2> DEFINE e == EventOf(k, kind, x)
  <2>1. /\ ex'[k] = [x EXCEPT !.status = "gone"] /\ x.status = "open" /\ events' = Append(events, e)
        /\ Others(k, ex, ex')
        /\ held' = held /\ requests' = requests /\ results' = results
    BY <1>1, <1>3 DEF ExchangeEnds, Others
  <2>2. e \in Event /\ e.order = k /\ e.kind = kind
    BY <1>1, EventTyped DEF EventKind, EventOf
  <2> HIDE DEF e
  <2>3. /\ \A j \in Kinds : Said(j, events) \subseteq Said(j, events')
        /\ \A j \in Kinds \ {k} : Said(j, events') = Said(j, events)
        /\ \A j \in Kinds : \A d \in Said(j, events') : /\ d \in Said(j, events) \/ d = e
                                                        /\ FullFill(d) => d \in Said(j, events)
    BY <1>1, <2>1, <2>2, SaidMore
  <2>4. NoNews(events, events')
    BY <2>2, <2>3, LegsOf DEF NoNews
  <2>5. Backed(ex', events', requests', held') /\ ~Whole(x) /\ ~Whole(ex'[k])
    BY <1>1, <2>1, <2>4, BackedCloses
  <2>6. Out(k, x, events, requests)
    BY <2>1 DEF Out, Live
  <2>7. QED BY <2>1, <2>3, <2>5, <2>6, HoldExchange
<1>4. QED BY <1>2, <1>3 DEF ExchangeActs, ExternalCancel, ExternalExpire

----------------------------------------------------------------------------
(* The trade: what its own methods keep *)

(* What the exchange's part is, and the trade's while it is tracked. *)
Holds(t, X, E, Q, R, h) == Backed(X, E, Q, h) /\ (t.tracked => Holding(t, X, E, Q, R))

(* An entry that did not fail to open has not failed. *)
LEMMA SaneNotFailed ==
    ASSUME NEW t, Sane(t), Settled(t.orders["entry"])
    PROVE  ~IsFailed(t.orders["entry"])
BY DEF Sane, Settled, RestStates, IsFailed

(* A method of the trade leaves it sane. *)
LEMMA SaneEvolves ==
    ASSUME NEW t, NEW u, Sane(t), TradeStays(t, u), TradeWeighs(t, u)
    PROVE  /\ Sane(u) /\ (u.state = "ExitFailed" <=> t.state = "ExitFailed")
           /\ Spent(u.orders["entry"]) <=> Spent(t.orders["entry"])
<1>1. Spent(u.orders["entry"]) <=> Spent(t.orders["entry"])
  BY KindsOf DEF TradeStays, Stays, Spent
<1>2. u.orders["entry"].state # "OpenFailed"
  BY KindsOf DEF Sane, TradeWeighs, Weighs
<1>3. u.state \notin {"EntryFailed", "Failed"} /\ (u.state = "ExitFailed" <=> t.state = "ExitFailed")
  BY DEF Sane, TradeWeighs, Proceeds
<1>4. QED BY <1>1, <1>2, <1>3 DEF Sane

(* What the trade knows of what it holds stays right through its methods. *)
LEMMA HoldEvolves ==
    ASSUME NEW t \in TradeRec, NEW u \in TradeRec, NEW X \in [Kinds -> ExchangeOrder],
           NEW E, NEW Q, NEW R, Holding(t, X, E, Q, R), TradeStays(t, u), TradeWeighs(t, u),
           NEW S, \A l \in Legs : Refused(l, t.orders[l], R) => Refused(l, u.orders[l], S)
    PROVE  Holding(u, X, E, Q, S)
<1>1. Sane(t)
  BY DEF Holding
<1>2. /\ Sane(u) /\ (u.state = "ExitFailed" <=> t.state = "ExitFailed")
      /\ Spent(u.orders["entry"]) <=> Spent(t.orders["entry"])
  BY <1>1, SaneEvolves
<1>3. \A k \in Kinds : u.orders[k].state = "Finished" <=> t.orders[k].state = "Finished"
  BY DEF TradeStays, Stays
<1>4. X["entry"].filled \in Int
  BY KindsOf DEF ExchangeOrder
<1>5. ASSUME NEW k \in Legs, Within(t.orders[k], X["entry"].filled)
      PROVE  Within(u.orders[k], X["entry"].filled)
  <2>1. t.orders[k] \in OrderRec /\ u.orders[k] \in OrderRec /\ Weighs(t.orders[k], u.orders[k])
    BY LegsOf, TradeOrders DEF TradeWeighs
  <2>2. QED BY <1>4, <1>5, <2>1, WeighsWithin
<1>6. Spent(u.orders["entry"]) =>
          Whole(X["entry"]) /\ \A k \in Legs : Within(u.orders[k], X["entry"].filled)
  BY <1>2, <1>5 DEF Holding
<1>7. u.state = "ExitFailed" => \E k \in Legs : /\ Refused(k, u.orders[k], S)
                                                /\ u.orders[k].state # "Finished"
                                                /\ ~Out(k, X[k], E, Q)
  BY <1>2, <1>3, LegsOf DEF Holding
<1>8. \A k \in Kinds : Whole(X[k]) => \/ u.orders[k].state = "Finished"
                                      \/ \E e \in Said(k, E) : FullFill(e)
  BY <1>3 DEF Holding
<1>9. \A e \in Said("entry", E) : FullFill(e) => Whole(X["entry"]) /\ e.filled = X["entry"].filled
  BY DEF Holding
<1>10. QED BY <1>2, <1>6, <1>7, <1>8, <1>9 DEF Holding

(* The trade computes, or leaves the list. *)
LEMMA DriveHold ==
    ASSUME NEW t \in TradeRec, price \in Int \ {0}, NEW X \in [Kinds -> ExchangeOrder],
           NEW E, NEW Q, NEW R, NEW h, TradeLedger(t, X, E, Q, R), Holds(t, X, E, Q, R, h)
    PROVE  Holds(Drive(t), X, E, Q, R, h)
<1>1. CASE Untracked(t)
  <2>1. Drive(t) = [t EXCEPT !.tracked = FALSE]
    BY <1>1 DEF Drive
  <2>2. Drive(t).tracked = FALSE
    BY <2>1 DEF TradeRec
  <2>3. QED BY <2>2 DEF Holds
<1>2. CASE ~Untracked(t)
  <2> DEFINE u == ComputeTrade(t, price).t
  <2>1. Drive(t) = u /\ t.tracked
    BY <1>2 DEF Drive, Untracked
  <2>2. Known(t, X, E, Q, R) /\ Holding(t, X, E, Q, R)
    BY <2>1 DEF TradeLedger, Holds
  <2>3. ~IsFailed(t.orders["entry"])
    BY <2>2, SaneNotFailed, KindsOf DEF Holding, Known, TradeBook
  <2>4. TradeStays(t, u) /\ TradeEvolves(t, u) /\ TradeWeighs(t, u)
    BY <2>2, <2>3, BookComputeTrade, ComputeTradeSound, WeighsComputeTrade
       DEF Known, TradeSound, Minds
  <2> HIDE DEF u
  <2>5. \A l \in Legs : Refused(l, t.orders[l], R) => Refused(l, u.orders[l], R)
    BY <2>4, LegsOf, KeepsRefused DEF TradeEvolves, Evolves
  <2>6. Holding(u, X, E, Q, R)
    BY <2>2, <2>4, <2>5, HoldEvolves DEF TradeEvolves
  <2>7. QED BY <2>1, <2>6 DEF Holds
<1>3. QED BY <1>1, <1>2

----------------------------------------------------------------------------
(* Sending an instruction *)

(* An exit that is sent is one of a trade whose entry is spent. *)
LEMMA SendsSpent ==
    ASSUME NEW d \in TradeRec, NEW U, TradeBook(d, U), Sane(d), NEW k \in Legs, Sends(d, k),
           d.orders[k].instr.kind # "CancelOrder"
    PROVE  Spent(d.orders["entry"]) /\ d.state # "Closed" /\ d.orders[k].state # "Finished"
<1>1. k \in Kinds /\ k # "entry" /\ d.pending = k /\ d.orders[k].instr.st = "New"
  BY LegsOf DEF Sends
<1>2. d.state \notin {"New", "Entering"}
  BY <1>1 DEF TradeBook, Kinds
<1>3. d.orders[k].state # "Finished"
  <2>1. Settled(d.orders[k]) /\ d.orders[k] \in OrderRec
    BY <1>1, TradeOrders DEF TradeBook
  <2>2. d.orders[k].instr.kind \in InstructionKind
    BY <1>1, <2>1 DEF OrderRec, Instruction, NoInstr
  <2>3. CreateNew(d.orders[k]) \/ ReplaceNew(d.orders[k])
    BY <1>1, <2>2 DEF CreateNew, ReplaceNew, InstructionKind
  <2>4. QED BY <2>1, <2>3 DEF Settled
<1>4. d.state # "Closed"
  BY <1>1, <1>3 DEF TradeBook, Quiet, Kinds
<1>5. Spent(d.orders["entry"])
  BY <1>2, <1>4 DEF Sane, TradeBook, Spent, TradeRec, TradeState
<1>6. QED BY <1>3, <1>4, <1>5

(* Where one of the two was filled, the other is not asked for. *)
LEMMA SendsAlone ==
    ASSUME NEW d \in TradeRec, NEW X, NEW E, NEW Q, NEW R, Known(d, X, E, Q, R),
           Holding(d, X, E, Q, R), NEW k \in Legs, Sends(d, k), CreateNew(d.orders[k]),
           NEW i \in Legs \ {k}, Whole(X[i])
    PROVE  FALSE
<1> DEFINE U == OutOrders(X, E, Q)
<1>1. TradeBook(d, U) /\ Sane(d)
  BY DEF Known, Holding
<1> HIDE DEF U
<1>2. /\ Spent(d.orders["entry"]) /\ d.state # "Closed" /\ d.orders[k].state # "Finished"
      /\ k \in Kinds /\ i \in Kinds /\ d.pending = k
  BY <1>1, SendsSpent, LegsOf DEF CreateNew, Sends
<1>3. d.orders[i].state = "Finished" \/ Out(i, X[i], E, Q)
  <2>1. d.orders[i].state = "Finished" \/ \E e \in Said(i, E) : FullFill(e)
    BY <1>2 DEF Holding
  <2>2. QED BY <2>1, SaidOut DEF FullFill
<1>4. d.state \in {"Exiting", "ExitFailed"}
  <2>1. d.state \notin {"New", "Entering"}
    BY <1>1, <1>2, LegsOf DEF TradeBook, Legs
  <2>2. QED BY <1>1, <1>2, <2>1 DEF Sane, TradeRec, TradeState
<1>5. CASE d.state = "Exiting"
  <2>1. d.orders[i].state # "Finished"
    BY <1>1, <1>2, <1>5 DEF TradeBook, Quiet, Legs
  <2>2. i \in U
    BY <1>2, <1>3, <2>1 DEF OutOrders, U
  <2>3. QED BY <1>1, <1>2, <2>2 DEF TradeBook, Legs
<1>6. CASE d.state = "ExitFailed"
  <2>1. PICK l \in Legs : Refused(l, d.orders[l], R) /\ d.orders[l].state # "Finished" /\ ~Out(l, X[l], E, Q)
    BY <1>6 DEF Holding
  <2>2. ~Refused(k, d.orders[k], R)
    BY DEF Refused, CreateNew
  <2>3. l = i
    BY <2>1, <2>2 DEF Legs
  <2>4. QED BY <1>3, <2>1, <2>3
<1>7. QED BY <1>4, <1>5, <1>6

(* What is asked for then is what the entry has bought. *)
LEMMA SendBacked ==
    ASSUME NEW d \in TradeRec, NEW X \in [Kinds -> ExchangeOrder], NEW E, NEW Q, NEW R, NEW h,
           Known(d, X, E, Q, R), Holding(d, X, E, Q, R), Backed(X, E, Q, h),
           NEW k \in Kinds, Sends(d, k), NEW S,
           \A j \in Kinds : OutOf(j, S) = IF j = k THEN OutOf(j, Q) \cup {RequestOf(k, d.orders[k].instr)}
                                          ELSE OutOf(j, Q)
    PROVE  Backed(X, E, S, h)
<1> DEFINE o == d.orders[k]
           req == RequestOf(k, o.instr)
<1>1. /\ o \in OrderRec /\ Settled(o) /\ o.instr.st = "New" /\ TradeBook(d, OutOrders(X, E, Q))
      /\ Sane(d)
  BY TradeOrders DEF Sends, Known, TradeBook, Holding
<1>2. req.kind = o.instr.kind /\ req.qty = o.instr.qty
  BY DEF RequestOf
<1>3. \A j \in Kinds : Asked(j, "CreateOrder", S) => Asked(j, "CreateOrder", Q) \/ (j = k /\ CreateNew(o))
  <2> SUFFICES ASSUME NEW j \in Kinds, NEW q \in S, q.order = j, q.kind = "CreateOrder",
                      ~Asked(j, "CreateOrder", Q)
               PROVE  j = k /\ CreateNew(o)
    BY DEF Asked
  <2>1. q \in OutOf(j, S) /\ q \notin OutOf(j, Q)
    BY DEF OutOf, Asked
  <2>2. j = k /\ q = req
    BY <2>1
  <2>3. QED BY <1>1, <1>2, <2>2 DEF CreateNew
<1> HIDE DEF req
<1>4. CreateNew(o) => ~Whole(X[k])
  <2> SUFFICES ASSUME CreateNew(o), Whole(X[k]) PROVE FALSE
    OBVIOUS
  <2>1. o.state = "PendingOpen"
    BY <1>1 DEF Settled
  <2>2. k \notin OutOrders(X, E, Q)
    BY <1>1, <2>1 DEF TradeBook, Ashore
  <2>3. \E e \in Said(k, E) : FullFill(e)
    BY <2>1 DEF Holding
  <2>4. Out(k, X[k], E, Q)
    BY <2>3, SaidOut DEF FullFill
  <2>5. QED BY <2>2, <2>4 DEF OutOrders
<1>5. ASSUME k \in Legs, o.instr.kind # "CancelOrder" PROVE Bought(X, o.instr.qty)
  <2>1. Spent(d.orders["entry"])
    BY <1>1, <1>5, SendsSpent
  <2>2. Whole(X["entry"]) /\ Within(o, X["entry"].filled)
    BY <1>5, <2>1 DEF Holding
  <2>3. HasInstr(o)
    BY <1>1 DEF HasInstr, OrderRec, Instruction, NoInstr, InstructionKind
  <2>4. QED BY <2>2, <2>3 DEF Bought, Within
<1>6. ASSUME NEW i \in Legs, Whole(X[i]), Alone(i, X, Q) PROVE Alone(i, X, S)
  <2>1. ASSUME NEW j \in Legs \ {i} PROVE ~Live(j, X[j], S)
    <3>1. ~(j = k /\ CreateNew(o))
      BY <1>6, SendsAlone
    <3>2. ~Live(j, X[j], Q) /\ j \in Kinds
      BY <1>6, LegsOf DEF Alone
    <3>3. QED BY <1>3, <3>1, <3>2 DEF Live
  <2>2. QED BY <1>6, <2>1 DEF Alone
<1>7. h >= X["entry"].filled - X["exit"].filled - X["stop"].filled
  BY DEF Backed
<1>8. ASSUME NEW j \in Kinds
      PROVE  /\ Asked(j, "CreateOrder", S) => ~Whole(X[j])
             /\ X[j].status = "open" /\ X[j].filled > 0 => X[j].filled < X[j].qty
  BY <1>3, <1>4 DEF Backed
<1>9. ASSUME NEW j \in Legs
      PROVE  /\ X[j].status # "none" => Bought(X, X[j].qty)
             /\ \A q \in OutOf(j, S) : q.kind # "CancelOrder" => Bought(X, q.qty)
             /\ \A e \in Said(j, E) : e.kind = "New" => Bought(X, e.qty)
             /\ X[j].filled > 0 => Whole(X[j]) /\ Alone(j, X, S)
  <2>1. ASSUME NEW q \in OutOf(j, S), q.kind # "CancelOrder" PROVE Bought(X, q.qty)
    <3>1. j \in Kinds
      BY LegsOf
    <3>2. q \in OutOf(j, Q) \/ (j = k /\ q = req)
      BY <3>1 DEF req
    <3>3. QED BY <1>2, <1>5, <2>1, <3>2 DEF Backed
  <2>2. X[j].filled > 0 => Whole(X[j]) /\ Alone(j, X, S)
    BY <1>6 DEF Backed
  <2>3. QED BY <2>1, <2>2 DEF Backed
<1>10. QED BY <1>7, <1>8, <1>9 DEF Backed

(* The order is marked as sent; what the trade knows stays right. *)
LEMMA MarkHold ==
    ASSUME NEW d \in TradeRec, NEW X \in [Kinds -> ExchangeOrder], NEW E, NEW Q, NEW R, NEW h,
           TradeLedger(d, X, E, Q, R), Holds(d, X, E, Q, R, h)
    PROVE  Holds(MarkRunning(d), X, E, Q \cup Sent(d), R, h)
<1> DEFINE m == MarkRunning(d)
           S == Q \cup Sent(d)
           k == d.pending
<1>1. /\ m \in TradeRec /\ m.tracked = d.tracked
      /\ \A j \in Kinds : m.orders[j] = IF Sends(d, j) THEN [d.orders[j] EXCEPT !.instr.st = "Running"]
                                        ELSE d.orders[j]
  BY MarkTyped
<1>2. \A j \in Kinds : OutOf(j, S) = IF Sends(d, j) THEN OutOf(j, Q) \cup {RequestOf(j, d.orders[j].instr)}
                                     ELSE OutOf(j, Q)
  BY SentOf
<1>3. m.state = d.state
  BY DEF MarkRunning, TradeRec
<1>4. (\A j \in Kinds : ~Sends(d, j)) => S = Q
  BY DEF Sent
<1> HIDE DEF m, S
<1>5. CASE ~d.tracked
  <2>1. \A j \in Kinds : ~Sends(d, j)
    BY <1>5 DEF Sends
  <2>2. Holds(m, X, E, S, R, h)
    BY <1>1, <1>4, <1>5, <2>1 DEF Holds
  <2>3. QED BY <2>2 DEF m, S
<1>6. CASE d.tracked
  <2>1. Known(d, X, E, Q, R) /\ Holding(d, X, E, Q, R) /\ Backed(X, E, Q, h)
    BY <1>6 DEF TradeLedger, Holds
  <2>2. ASSUME NEW j \in Kinds
        PROVE  /\ Stays(d.orders[j], m.orders[j]) /\ Weighs(d.orders[j], m.orders[j])
               /\ Refused(j, d.orders[j], R) => Refused(j, m.orders[j], R)
               /\ Sends(d, j) /\ CreateNew(d.orders[j]) => ~Refused(j, d.orders[j], R)
    <3> DEFINE o == d.orders[j]
               p == [o EXCEPT !.instr.st = "Running"]
    <3>1. o \in OrderRec /\ Settled(o) /\ Idles(o)
      BY <2>1, TradeOrders DEF Known, TradeBook
    <3>2. CASE ~Sends(d, j)
      BY <1>1, <3>1, <3>2, StaysRefl, WeighsRefl
    <3>3. CASE Sends(d, j)
      <4>1. o.instr.st = "New" /\ m.orders[j] = p
        BY <1>1, <3>3 DEF Sends
      <4>2. /\ Settled(p) /\ p.state = o.state /\ p.seq = o.seq
            /\ p.instr.st = "Running" /\ p.instr.kind = o.instr.kind
            /\ p.stop = o.stop /\ p.created = o.created
            /\ p.byCancel = o.byCancel /\ p.toReplace = o.toReplace /\ p.term = o.term
            /\ o.instr.kind = "CreateOrder" => ~Ashore(p)
            /\ o.instr.kind # "CreateOrder" => (Ashore(p) <=> Ashore(o))
            /\ (Dormant(o) <=> Dormant(p))
        BY <3>1, <4>1, MarkFields
      <4>3. p.armed = o.armed /\ p.qty = o.qty /\ p.filled = o.filled /\ p.instr.qty = o.instr.qty
        BY <3>1 DEF OrderRec, Instruction, NoInstr
      <4> HIDE DEF p
      <4>4. Stays(o, p)
        BY <4>2, <4>3 DEF Stays, ReplaceNew
      <4>5. Weighs(o, p)
        BY <4>2, <4>3 DEF Weighs, HasInstr
      <4>6. Refused(j, o, R) => Refused(j, p, R)
        BY <4>1, <4>2 DEF Refused
      <4>7. CreateNew(o) => ~Refused(j, o, R)
        BY DEF Refused, CreateNew
      <4>8. QED BY <4>1, <4>4, <4>5, <4>6, <4>7
    <3>4. QED BY <3>2, <3>3
  <2>3. TradeStays(d, m) /\ TradeWeighs(d, m)
    BY <1>3, <2>2 DEF TradeStays, TradeWeighs, Proceeds
  <2>4. Holding(m, X, E, Q, R)
    BY <1>1, <2>1, <2>2, <2>3, LegsOf, HoldEvolves
  <2>5. CASE \A j \in Kinds : ~Sends(d, j)
    <3>1. Holds(m, X, E, S, R, h)
      BY <1>4, <2>1, <2>4, <2>5 DEF Holds
    <3>2. QED BY <3>1 DEF m, S
  <2>6. CASE ~\A j \in Kinds : ~Sends(d, j)
    <3>1. k \in Kinds /\ Sends(d, k) /\ \A j \in Kinds : j # k => ~Sends(d, j)
      BY <2>6 DEF Sends
    <3>2. \A j \in Kinds : OutOf(j, S) = IF j = k THEN OutOf(j, Q) \cup {RequestOf(k, d.orders[k].instr)}
                                         ELSE OutOf(j, Q)
      BY <1>2, <3>1
    <3>3. Backed(X, E, S, h)
      BY <2>1, <3>1, <3>2, SendBacked
    <3>4. ASSUME NEW l \in Legs, Refused(l, d.orders[l], R), ~Out(l, X[l], E, Q)
          PROVE  ~Out(l, X[l], E, S)
      <4>1. l \in Kinds
        BY LegsOf
      <4>2. ~Asked(l, "CreateOrder", S)
        <5> SUFFICES ASSUME NEW q \in S, q.order = l, q.kind = "CreateOrder" PROVE FALSE
          BY DEF Asked
        <5>1. q \notin Q
          BY <3>4 DEF Out, Live, Asked
        <5>2. q \in OutOf(l, S) /\ q \notin OutOf(l, Q)
          BY <5>1 DEF OutOf
        <5>3. l = k /\ q = RequestOf(k, d.orders[k].instr)
          BY <3>2, <4>1, <5>2
        <5>4. d.orders[k].instr.kind = "CreateOrder" /\ d.orders[k].instr.st = "New"
          BY <3>1, <5>3 DEF RequestOf, Sends
        <5>5. QED BY <2>2, <3>1, <3>4, <5>3, <5>4 DEF CreateNew
      <4>3. QED BY <3>4, <4>2 DEF Out, Live
    <3>5. m.state = "ExitFailed" => \E l \in Legs : /\ Refused(l, m.orders[l], R)
                                                    /\ m.orders[l].state # "Finished"
                                                    /\ ~Out(l, X[l], E, S)
      <4>1. d.state = "ExitFailed" => \E l \in Legs : /\ Refused(l, d.orders[l], R)
                                                      /\ d.orders[l].state # "Finished"
                                                      /\ ~Out(l, X[l], E, Q)
        BY <2>1 DEF Holding
      <4>2. \A l \in Legs : /\ Refused(l, d.orders[l], R) => Refused(l, m.orders[l], R)
                            /\ d.orders[l].state # "Finished" => m.orders[l].state # "Finished"
        BY <2>2, LegsOf DEF Stays
      <4>3. QED BY <1>3, <3>4, <4>1, <4>2
    <3>6. Holding(m, X, E, S, R)
      BY <2>4, <3>5 DEF Holding
    <3>7. Holds(m, X, E, S, R, h)
      BY <3>3, <3>6 DEF Holds
    <3>8. QED BY <3>7 DEF m, S
  <2>7. QED BY <2>5, <2>6
<1>7. QED BY <1>5, <1>6

(* A pass of the trader. *)
LEMMA PassHold ==
    ASSUME NEW t \in TradeRec, price \in Int \ {0}, NEW X \in [Kinds -> ExchangeOrder],
           NEW E, NEW Q, NEW R, NEW h, TradeLedger(t, X, E, Q, R), Holds(t, X, E, Q, R, h)
    PROVE  Holds(Pass(t), X, E, Q \cup Sent(Drive(t)), R, h)
<1>1. Drive(t) \in TradeRec
  BY DriveTracked
<1>2. TradeLedger(Drive(t), X, E, Q, R)
  BY DriveLedger
<1>3. Holds(Drive(t), X, E, Q, R, h)
  BY DriveHold
<1>4. QED BY <1>1, <1>2, <1>3, MarkHold DEF Pass

(* So does what is left of a handler that succeeded. *)
LEMMA SettleHold ==
    ASSUME price \in Int \ {0}, requests \subseteq Request,
           NEW r, r.ok, r.t \in TradeRec, NEW X \in [Kinds -> ExchangeOrder], NEW E, NEW R, NEW h,
           InFlight(r.t, requests, R), TradeLedger(r.t, X, E, requests, R),
           Holds(r.t, X, E, requests, R, h), Settle(r) \/ SettleTwice(r)
    PROVE  Holds(trade', X, E, requests', R, h)
<1> DEFINE p1 == Pass(r.t)
           Q1 == requests \cup Sent(Drive(r.t))
           p2 == Pass(p1)
           Q2 == Q1 \cup Sent(Drive(p1))
<1>1. /\ p1 \in TradeRec /\ Q1 \subseteq Request /\ InFlight(p1, Q1, R)
      /\ TradeLedger(p1, X, E, Q1, R) /\ Holds(p1, X, E, Q1, R, h)
  BY PassInFlight, PassLedger, PassHold
<1>2. Holds(p2, X, E, Q2, R, h)
  BY <1>1, PassHold
<1>3. CASE Settle(r)
  BY <1>1, <1>3 DEF Settle
<1>4. CASE SettleTwice(r)
  BY <1>2, <1>4 DEF SettleTwice
<1>5. QED BY <1>3, <1>4

----------------------------------------------------------------------------
(* The trade: what it makes of an event *)

(* Only the state of the trade and its orders matter. *)
LEMMA HoldSame ==
    ASSUME NEW t, NEW u, u.orders = t.orders, u.state = t.state,
           NEW X, NEW E, NEW Q, NEW R, Holding(t, X, E, Q, R)
    PROVE  Holding(u, X, E, Q, R)
BY DEF Holding, Sane

(* The trade computes. *)
LEMMA ComputeHold ==
    ASSUME NEW t \in TradeRec, NEW m \in Int \ {0}, NEW X \in [Kinds -> ExchangeOrder],
           NEW E, NEW Q, NEW R, NEW U, TradeBook(t, U), Holding(t, X, E, Q, R)
    PROVE  Holding(ComputeTrade(t, m).t, X, E, Q, R)
<1> DEFINE u == ComputeTrade(t, m).t
<1>1. ~IsFailed(t.orders["entry"])
  BY SaneNotFailed, KindsOf DEF Holding, TradeBook
<1>2. TradeStays(t, u) /\ TradeEvolves(t, u) /\ TradeWeighs(t, u)
  BY <1>1, BookComputeTrade, ComputeTradeSound, WeighsComputeTrade DEF TradeSound, Minds
<1> HIDE DEF u
<1>3. \A l \in Legs : Refused(l, t.orders[l], R) => Refused(l, u.orders[l], R)
  BY <1>2, LegsOf, KeepsRefused DEF TradeEvolves, Evolves
<1>4. Holding(u, X, E, Q, R)
  BY <1>2, <1>3, HoldEvolves DEF TradeEvolves
<1>5. QED BY <1>4 DEF u

(* The status is set, and the trade computed. *)
LEMMA StatusHold ==
    ASSUME NEW c, c.t \in TradeRec, NEW s \in TradeStatus, NEW m \in Int \ {0},
           NEW X \in [Kinds -> ExchangeOrder], NEW E, NEW Q, NEW R, NEW U,
           TradeBook(c.t, U), Holding(c.t, X, E, Q, R)
    PROVE  Holding(StatusThenCompute(c, s, m).t, X, E, Q, R)
<1> DEFINE d == [c.t EXCEPT !.status = s]
<1>1. d \in TradeRec /\ d.orders = c.t.orders /\ d.state = c.t.state /\ d.pending = c.t.pending
  BY DEF TradeRec
<1> HIDE DEF d
<1>2. Holding(d, X, E, Q, R) /\ TradeBook(d, U)
  BY <1>1, HoldSame, BookFields DEF Minds
<1>3. Holding(ComputeTrade(d, m).t, X, E, Q, R)
  BY <1>1, <1>2, ComputeHold
<1>4. StatusThenCompute(c, s, m) = IF c.ok THEN ComputeTrade(d, m) ELSE c
  BY DEF StatusThenCompute, d
<1>5. QED BY <1>3, <1>4

(* The first event is applied to an order that is out, and nothing of the sort
   happens to the others.                                                     *)
LEMMA HoldEvent ==
    ASSUME NEW t, NEW u, NEW X, NEW E \in Seq(Event), E # <<>>, NEW Q, NEW R,
           Holding(t, X, E, Q, R), NEW k \in Kinds, k = E[1].order,
           Out(k, X[k], E, Q), t.orders[k].state # "Finished",
           u.state = t.state, u.orders["entry"].state # "OpenFailed",
           k # "entry" => \A j \in Kinds \ {k} : u.orders[j] = t.orders[j],
           k = "entry" => \A j \in Legs : u.orders[j].state = t.orders[j].state,
           FullFill(E[1]) => u.orders[k].state = "Finished",
           Spent(u.orders["entry"]) =>
               Whole(X["entry"]) /\ \A l \in Legs : Within(u.orders[l], X["entry"].filled)
    PROVE  Holding(u, X, Tail(E), Q, R)
<1> DEFINE F == Tail(E)
<1>1. /\ \A j : Said(j, F) \subseteq Said(j, E)
      /\ \A j : \A e \in Said(j, E) : e.order = j /\ (e = E[1] \/ e \in Said(j, F))
  BY SaidTail
<1>2. t.state = "ExitFailed" => k # "entry" /\ u.orders["entry"] = t.orders["entry"]
  BY KindsOf DEF Holding, Sane, Spent
<1>3. Sane(u)
  BY <1>2 DEF Holding, Sane
<1>4. \A l : ~Out(l, X[l], E, Q) => ~Out(l, X[l], F, Q)
  BY TailOut
<1> HIDE DEF F
<1>5. u.state = "ExitFailed" => \E l \in Legs : /\ Refused(l, u.orders[l], R)
                                                /\ u.orders[l].state # "Finished"
                                                /\ ~Out(l, X[l], F, Q)
  <2> SUFFICES ASSUME u.state = "ExitFailed"
               PROVE \E l \in Legs : /\ Refused(l, u.orders[l], R)
                                     /\ u.orders[l].state # "Finished"
                                     /\ ~Out(l, X[l], F, Q)
    OBVIOUS
  <2>1. PICK l \in Legs : /\ Refused(l, t.orders[l], R) /\ t.orders[l].state # "Finished"
                          /\ ~Out(l, X[l], E, Q)
    BY DEF Holding
  <2>2. u.orders[l] = t.orders[l]
    BY <1>2, <2>1, LegsOf
  <2>3. QED BY <1>4, <2>1, <2>2
<1>6. ASSUME NEW j \in Kinds, Whole(X[j])
      PROVE  u.orders[j].state = "Finished" \/ \E e \in Said(j, F) : FullFill(e)
  <2>1. t.orders[j].state = "Finished" \/ \E e \in Said(j, E) : FullFill(e)
    BY <1>6 DEF Holding
  <2>2. CASE j = k
    BY <1>1, <2>1, <2>2
  <2>3. CASE j # k
    <3>1. u.orders[j].state = t.orders[j].state
      <4>1. CASE k = "entry"
        BY <2>3, <4>1 DEF Kinds, Legs
      <4>2. CASE k # "entry"
        BY <2>3, <4>2
      <4>3. QED BY <4>1, <4>2
    <3>2. QED BY <1>1, <2>1, <2>3, <3>1
  <2>4. QED BY <2>2, <2>3
<1>7. \A e \in Said("entry", F) : FullFill(e) => Whole(X["entry"]) /\ e.filled = X["entry"].filled
  BY <1>1 DEF Holding
<1>8. Holding(u, X, F, Q, R)
  BY <1>3, <1>5, <1>6, <1>7 DEF Holding
<1>9. QED BY <1>8 DEF F

(* What comes after the order's own method. *)
LEMMA StatusOk ==
    ASSUME NEW c, NEW s, NEW m
    PROVE  /\ StatusThenCompute(c, s, m).ok => c.ok
           /\ ThenComputeTrade(c, m).ok => c.ok
BY DEF StatusThenCompute, ThenComputeTrade

(* The order k goes through a method of its own that leaves p. *)
LEMMA HoldWith ==
    ASSUME NEW t \in TradeRec, NEW X, NEW E \in Seq(Event), E # <<>>, NEW Q, NEW R,
           Known(t, X, E, Q, R), Holding(t, X, E, Q, R), NEW k \in Kinds, k = E[1].order,
           Out(k, X[k], E, Q), NEW p, Settled(p), Idles(p),
           k = "entry" => p.state # "OpenFailed" /\ ~Spent(p),
           FullFill(E[1]) => p.state = "Finished",
           k # "entry" /\ Within(t.orders[k], X["entry"].filled) => Within(p, X["entry"].filled)
    PROVE  Holding(With(t, k, p), X, Tail(E), Q, R) /\ TradeBook(With(t, k, p), {})
<1> DEFINE u == With(t, k, p)
<1>1. /\ u.state = t.state
      /\ \A j \in Kinds : u.orders[j] = IF j = k THEN p ELSE t.orders[j]
  BY WithFields
<1>2. k \in OutOrders(X, E, Q)
  BY DEF OutOrders
<1>3. TradeBook(u, {})
  BY <1>2, BookEvent DEF Known
<1>4. t.orders[k].state # "Finished"
  BY OutNotNew DEF Known, Ashore
<1> HIDE DEF u
<1>5. u.orders["entry"].state # "OpenFailed"
  BY <1>1, KindsOf DEF Holding, Sane
<1>6. Spent(u.orders["entry"]) =>
          Whole(X["entry"]) /\ \A l \in Legs : Within(u.orders[l], X["entry"].filled)
  <2> SUFFICES ASSUME Spent(u.orders["entry"])
               PROVE  Whole(X["entry"]) /\ \A l \in Legs : Within(u.orders[l], X["entry"].filled)
    OBVIOUS
  <2>1. k # "entry" /\ u.orders["entry"] = t.orders["entry"]
    BY <1>1, KindsOf
  <2>2. Whole(X["entry"]) /\ \A l \in Legs : Within(t.orders[l], X["entry"].filled)
    BY <2>1 DEF Holding
  <2>3. k \in Legs
    BY <2>1 DEF Kinds, Legs
  <2>4. Within(p, X["entry"].filled)
    BY <2>1, <2>2, <2>3
  <2>5. QED BY <1>1, <2>2, <2>4, LegsOf
<1>7. k # "entry" => \A j \in Kinds \ {k} : u.orders[j] = t.orders[j]
  BY <1>1
<1>8. k = "entry" => \A j \in Legs : u.orders[j].state = t.orders[j].state
  BY <1>1, LegsOf
<1>9. FullFill(E[1]) => u.orders[k].state = "Finished"
  BY <1>1
<1>10. Holding(u, X, Tail(E), Q, R)
  BY <1>1, <1>4, <1>5, <1>6, <1>7, <1>8, <1>9, HoldEvent
<1>11. QED BY <1>3, <1>10 DEF u

----------------------------------------------------------------------------
(* Each kind of event; m is the market price *)

(* The order is opened. *)
LEMMA NewHold ==
    ASSUME NEW t \in TradeRec, NEW X \in [Kinds -> ExchangeOrder], NEW E \in Seq(Event), E # <<>>,
           NEW Q, NEW R, Known(t, X, E, Q, R), Holding(t, X, E, Q, R),
           NEW k \in Kinds, k = E[1].order, Pipe(k, X[k], E, Q),
           NEW m \in Int \ {0}, E[1].kind = "New",
           NEW r, r = TradeConfirmOpened(t, k, m), r.ok
    PROVE  Holding(r.t, X, Tail(E), Q, R)
<1> DEFINE o == t.orders[k]
           a == ConfirmOpened(o, m)
           c == OnOrder(t, k, a)
           q(b) == [o EXCEPT !.state = "Opened", !.created = b]
<1>1. o \in OrderRec /\ Sound(o, a)
  BY TradeOrders, SoundConfirms
<1>2. c.t = With(t, k, a.o) /\ c.t \in TradeRec /\ c.ok = a.ok
  BY <1>1, OnOrderTyped DEF OnOrder
<1>3. /\ 1 \in Places(k, E) /\ ~Second(E, 1) /\ Out(k, X[k], E, Q)
  BY HeadPlace
<1>4. o.state \in {"PendingOpen", "CancelledAndPendingReplace"}
  BY <1>3 DEF Known, OrderLedger
<1>5. Settled(o) /\ Idles(o) /\ ~CreateNew(o)
  BY <1>3, OutNotNew DEF Known, TradeBook
<1>6. Weighs(o, a.o) /\ a.o \in OrderRec
  BY <1>1, WeighsConfirms DEF Sound, Evolves, Keeps
<1>7. \A b \in BOOLEAN : q(b).state = "Opened"
  BY <1>1 DEF OrderRec
<1> HIDE DEF a
<1>8. /\ Idles(a.o)
      /\ \/ a.o = o /\ ~a.ok
         \/ \E b \in BOOLEAN : Stays(q(b), a.o)
  BY <1>1, <1>4, <1>5, OpenedMoves DEF a
<1> HIDE DEF q
<1>9. r = StatusThenCompute(c, StatusOf(k), m)
  BY DEF TradeConfirmOpened, c, a
<1>10. c.ok /\ a.ok
  BY <1>2, <1>9, StatusOk
<1>11. PICK b \in BOOLEAN : Stays(q(b), a.o)
  BY <1>8, <1>10
<1>12. Settled(a.o) /\ a.o.state # "Finished"
  BY <1>7, <1>11 DEF Stays
<1>13. a.o.state # "OpenFailed"
  BY <1>4, <1>6 DEF Weighs
<1>14. Within(o, X["entry"].filled) => Within(a.o, X["entry"].filled)
  <2>1. X["entry"].filled \in Int
    BY KindsOf DEF ExchangeOrder
  <2>2. QED BY <1>1, <1>6, <2>1, WeighsWithin
<1>15. ~FullFill(E[1]) /\ ~Spent(a.o)
  BY <1>12 DEF FullFill, Spent
<1>16. Holding(c.t, X, Tail(E), Q, R) /\ TradeBook(c.t, {})
  BY <1>2, <1>3, <1>8, <1>12, <1>13, <1>14, <1>15, HoldWith
<1> HIDE DEF c
<1>17. Holding(StatusThenCompute(c, StatusOf(k), m).t, X, Tail(E), Q, R)
  BY <1>2, <1>16, StatusOfKind, StatusHold
<1>18. QED BY <1>9, <1>17

(* The order is cancelled, for good or to be replaced. *)
LEMMA CancelledHold ==
    ASSUME NEW t \in TradeRec, NEW X \in [Kinds -> ExchangeOrder], NEW E \in Seq(Event), E # <<>>,
           NEW Q, NEW R, Known(t, X, E, Q, R), Holding(t, X, E, Q, R),
           NEW k \in Kinds, k = E[1].order, Pipe(k, X[k], E, Q),
           NEW m \in Int \ {0}, E[1].kind \in {"Cancelled", "Expired"},
           NEW r, r = TradeConfirmCancelled(t, k, m)
    PROVE  Holding(r.t, X, Tail(E), Q, R)
<1> DEFINE o == t.orders[k]
           a == ConfirmCancelled(o, m)
           c == OnOrder(t, k, a)
<1>1. o \in OrderRec /\ Sound(o, a)
  BY TradeOrders, SoundConfirms
<1>2. c.t = With(t, k, a.o) /\ c.t \in TradeRec
  BY <1>1, OnOrderTyped
<1>3. Out(k, X[k], E, Q)
  BY HeadPlace
<1>4. Settled(o) /\ Idles(o) /\ ~Ashore(o)
  BY <1>3, OutNotNew DEF Known, TradeBook
<1>5. Settled(a.o) /\ Idles(a.o) /\ (a.o.state = "Finished" => a.o.byCancel)
  BY <1>1, <1>4, CancelledMoves
<1>6. Weighs(o, a.o) /\ a.o \in OrderRec
  BY <1>1, WeighsConfirms DEF Sound, Evolves, Keeps
<1> HIDE DEF a
<1>7. a.o.state # "OpenFailed"
  BY <1>4, <1>6 DEF Weighs, Ashore
<1>8. Within(o, X["entry"].filled) => Within(a.o, X["entry"].filled)
  <2>1. X["entry"].filled \in Int
    BY KindsOf DEF ExchangeOrder
  <2>2. QED BY <1>1, <1>6, <2>1, WeighsWithin
<1>9. ~FullFill(E[1]) /\ ~Spent(a.o)
  BY <1>5 DEF FullFill, Spent
<1>10. Holding(c.t, X, Tail(E), Q, R) /\ TradeBook(c.t, {})
  BY <1>2, <1>3, <1>5, <1>7, <1>8, <1>9, HoldWith
<1> HIDE DEF c
<1>11. "Idle" \in TradeStatus
  BY DEF TradeStatus
<1>12. Holding(StatusThenCompute(c, "Idle", m).t, X, Tail(E), Q, R)
  BY <1>2, <1>10, <1>11, StatusHold
<1>13. r = StatusThenCompute(c, "Idle", m)
  BY DEF TradeConfirmCancelled, c, a
<1>14. QED BY <1>12, <1>13

(* The order is replaced: an exit by one for what was bought. *)
LEMMA ReplacedHold ==
    ASSUME NEW t \in TradeRec, NEW X \in [Kinds -> ExchangeOrder], NEW E \in Seq(Event), E # <<>>,
           NEW Q, NEW R, Known(t, X, E, Q, R), Holding(t, X, E, Q, R), NEW h, Backed(X, E, Q, h),
           NEW k \in Kinds, k = E[1].order, Pipe(k, X[k], E, Q),
           NEW m \in Int \ {0}, E[1].kind = "New",
           NEW r, r = TradeConfirmReplaced(t, k, E[1], m), r.ok
    PROVE  Holding(r.t, X, Tail(E), Q, R)
<1> DEFINE o == t.orders[k]
           e == E[1]
           a == ConfirmReplaced(o, e, m)
           c == OnOrder(t, k, a)
           w == [o EXCEPT !.qty = e.qty, !.filled = e.filled]
<1>0. e \in Event
  OBVIOUS
<1>1. e.seq \in 0..MaxSeq /\ e.stop \in Int /\ e.qty \in Int /\ e.filled \in Nat
  BY <1>0 DEF Event
<1>2. o \in OrderRec /\ Sound(o, a)
  BY <1>1, TradeOrders, SoundReplaced
<1>3. c.t = With(t, k, a.o) /\ c.t \in TradeRec /\ c.ok = a.ok
  BY <1>2, OnOrderTyped DEF OnOrder
<1>4. /\ 1 \in Places(k, E) /\ ~Second(E, 1) /\ Out(k, X[k], E, Q)
  BY HeadPlace
<1>5. /\ o.state \in {"PendingOpen", "CancelledAndPendingReplace"}
      /\ o.state = "CancelledAndPendingReplace" => o.instr.st # "New"
  BY <1>4 DEF Known, OrderLedger
<1>6. Settled(o) /\ Idles(o)
  BY DEF Known, TradeBook
<1>7. /\ Idles(a.o)
      /\ \/ a.o = o /\ ~a.ok
         \/ o.state = "CancelledAndPendingReplace"
            /\ \E q \in OrderRec : q.state = "Opened" /\ Stays(q, a.o)
  BY <1>1, <1>2, <1>5, <1>6, ReplacedMoves
<1>8. r = StatusThenCompute(c, StatusOf(k), m)
  BY DEF TradeConfirmReplaced
<1>9. c.ok /\ a.ok
  BY <1>3, <1>8, StatusOk
<1>10. o.state = "CancelledAndPendingReplace" /\ \E q \in OrderRec : q.state = "Opened" /\ Stays(q, a.o)
  BY <1>7, <1>9
<1>11. Weighs(w, a.o) /\ a.o \in OrderRec
  BY <1>1, <1>2, <1>10, WeighsReplacement DEF Sound, Evolves, Keeps
<1>12. w \in OrderRec /\ w.qty = e.qty /\ w.state = o.state /\ w.instr = o.instr
  BY <1>1, <1>2 DEF OrderRec
<1> HIDE DEF a, w
<1>13. Settled(a.o) /\ a.o.state # "Finished"
  BY <1>10 DEF Stays
<1>14. a.o.state # "OpenFailed"
  BY <1>10, <1>11, <1>12 DEF Weighs
<1>15. ASSUME k # "entry", Within(o, X["entry"].filled) PROVE Within(a.o, X["entry"].filled)
  <2>1. X["entry"].filled \in Int
    BY KindsOf DEF ExchangeOrder
  <2>2. k \in Legs
    BY <1>15 DEF Kinds, Legs
  <2>3. e \in Said(k, E)
    BY SaidTail
  <2>4. e.qty <= X["entry"].filled
    BY <2>2, <2>3 DEF Backed, Bought
  <2>5. Within(w, X["entry"].filled)
    BY <1>12, <1>15, <2>4 DEF Within, HasInstr
  <2>6. QED BY <1>11, <1>12, <2>1, <2>5, WeighsWithin
<1>16. ~FullFill(E[1]) /\ ~Spent(a.o)
  BY <1>13 DEF FullFill, Spent
<1>17. Holding(c.t, X, Tail(E), Q, R) /\ TradeBook(c.t, {})
  BY <1>3, <1>4, <1>7, <1>13, <1>14, <1>15, <1>16, HoldWith
<1> HIDE DEF c
<1>18. Holding(StatusThenCompute(c, StatusOf(k), m).t, X, Tail(E), Q, R)
  BY <1>3, <1>17, StatusOfKind, StatusHold
<1>19. QED BY <1>8, <1>18

(* What the entry has bought is offered to the exits. *)
LEMMA OfferedFields ==
    ASSUME NEW c, c.t \in TradeRec, c.ok
    PROVE  LET u == Offered(c, "entry").t
               n == c.t.orders["entry"].filled
           IN  /\ u.state = c.t.state /\ u.orders["entry"] = c.t.orders["entry"]
               /\ \A l \in Legs : u.orders[l] = [c.t.orders[l] EXCEPT !.qty = n]
<1> DEFINE t == c.t
           n == t.orders["entry"].filled
           u == [t EXCEPT !.orders["exit"].qty = n, !.orders["stop"].qty = n]
<1>1. u = Offered(c, "entry").t
  BY DEF Offered, TOk
<1>2. u.state = t.state /\ u.orders = [t.orders EXCEPT !["exit"].qty = n, !["stop"].qty = n]
  BY DEF TradeRec
<1>3. t.orders = [k \in Kinds |-> t.orders[k]]
  BY DEF TradeRec
<1>4. \A k \in Kinds : u.orders[k] = IF k = "entry" THEN t.orders[k] ELSE [t.orders[k] EXCEPT !.qty = n]
  BY <1>2, <1>3 DEF Kinds
<1> HIDE DEF u
<1>5. QED BY <1>1, <1>2, <1>4, KindsOf, LegsOf

(* An entry is filled before the trade exits. *)
LEMMA EntersYet ==
    ASSUME NEW t, NEW X, NEW E, NEW Q, NEW R, Known(t, X, E, Q, R), t \in TradeRec,
           Holding(t, X, E, Q, R), Out("entry", X["entry"], E, Q)
    PROVE  /\ t.state \in {"New", "Entering"} /\ ~Ashore(t.orders["entry"])
           /\ \A l \in Legs : Fresh(t.orders[l])
<1>1. ~Ashore(t.orders["entry"]) /\ t.orders["entry"].state # "Finished"
  BY OutNotNew, KindsOf DEF Known, Ashore
<1>2. "entry" \in OutOrders(X, E, Q)
  BY KindsOf DEF OutOrders
<1>3. t.state \notin {"Exiting", "Closed"}
  BY <1>1, <1>2, KindsOf DEF Known, TradeBook, Quiet
<1>4. t.state \notin {"EntryFailed", "Failed", "ExitFailed"}
  BY <1>1 DEF Holding, Sane, Spent
<1>5. t.state \in {"New", "Entering"}
  BY <1>3, <1>4 DEF TradeRec, TradeState
<1>6. QED BY <1>1, <1>5 DEF Known, TradeBook, Legs

(* The order is filled, in part or in full: what the entry has bought is what
   the exits are for.                                                        *)
LEMMA FilledHold ==
    ASSUME NEW t \in TradeRec, NEW X \in [Kinds -> ExchangeOrder], NEW E \in Seq(Event), E # <<>>,
           NEW Q, NEW R, Known(t, X, E, Q, R), Holding(t, X, E, Q, R),
           NEW k \in Kinds, k = E[1].order, Pipe(k, X[k], E, Q),
           NEW m \in Int \ {0}, E[1].kind = "Fill",
           NEW r, r = TradeConfirmFilled(t, k, E[1].filled, E[1].full, m), r.ok
    PROVE  Holding(r.t, X, Tail(E), Q, R)
<1> DEFINE o == t.orders[k]
           e == E[1]
           a == ConfirmFilled(o, e.filled, e.full, m)
           c == OnOrder(t, k, a)
           f == Offered(c, k)
           w == [o EXCEPT !.filled = e.filled]
<1>1. e \in Event /\ e.filled \in Nat /\ e.full \in BOOLEAN
  <2>1. e \in Event
    OBVIOUS
  <2>2. QED BY <2>1 DEF Event
<1>2. o \in OrderRec /\ Sound(o, a)
  BY <1>1, TradeOrders, SoundFilled
<1>3. c.t = With(t, k, a.o) /\ c.t \in TradeRec /\ c.ok = a.ok
  BY <1>2, OnOrderTyped DEF OnOrder
<1>4. Out(k, X[k], E, Q)
  BY HeadPlace
<1>5. Settled(o) /\ Idles(o) /\ ~Ashore(o)
  BY <1>4, OutNotNew DEF Known, TradeBook
<1>6. r = ThenComputeTrade(f, m)
  BY DEF TradeConfirmFilled
<1>7. f.ok /\ c.ok
  <2>1. f.ok
    BY <1>6, StatusOk
  <2> HIDE DEF c
  <2>2. f.ok => c.ok
    BY DEF Offered
  <2>3. QED BY <2>1, <2>2
<1>8. /\ Idles(a.o) /\ Settled(a.o)
      /\ e.full => a.o.state = "Finished"
      /\ ~e.full => Stays(o, a.o)
  <2>1. /\ Idles(a.o)
        /\ \/ Stays(o, a.o) /\ (e.full => ~a.ok)
           \/ e.full /\ Settled(a.o) /\ a.o.state = "Finished"
    BY <1>1, <1>2, <1>5, FilledMoves
  <2>2. a.ok
    BY <1>3, <1>7
  <2> HIDE DEF a
  <2>3. QED BY <2>1, <2>2 DEF Stays
<1>9. Weighs(w, a.o) /\ a.o \in OrderRec
  BY <1>1, <1>2, <1>5, WeighsFilled DEF Sound, Evolves, Keeps, Settled, RestStates
<1>10. w \in OrderRec /\ w.qty = o.qty /\ w.filled = e.filled /\ w.state = o.state /\ w.instr = o.instr
  BY <1>1, <1>2 DEF OrderRec
<1> HIDE DEF a, w
<1>11. a.o.filled = e.filled /\ a.o.state # "OpenFailed"
  BY <1>5, <1>9, <1>10 DEF Weighs, Ashore
<1>12. X["entry"].filled \in Int
  BY KindsOf DEF ExchangeOrder
<1>13. Within(o, X["entry"].filled) => Within(a.o, X["entry"].filled)
  <2>1. Within(o, X["entry"].filled) => Within(w, X["entry"].filled)
    BY <1>10 DEF Within, HasInstr
  <2>2. QED BY <1>9, <1>10, <1>12, <2>1, WeighsWithin
<1>14. FullFill(e) => a.o.state = "Finished"
  BY <1>8 DEF FullFill
<1>15. ~e.full => a.o.state # "Finished"
  BY <1>5, <1>8 DEF Stays, Ashore
<1>16. f.t \in TradeRec /\ Holding(f.t, X, Tail(E), Q, R) /\ TradeBook(f.t, {})
  <2>1. k \in OutOrders(X, E, Q)
    BY <1>4 DEF OutOrders
  <2>2. TradeBook(c.t, {})
    <3>1. TradeBook(With(t, k, a.o), {})
      BY <1>8, <2>1, BookEvent DEF Known
    <3>2. QED BY <1>3, <3>1
  <2>3. f.t \in TradeRec /\ TradeBook(f.t, {})
    BY <1>3, <2>2, BookOffered DEF Minds
  <2>4. CASE k # "entry"
    <3>1. Holding(c.t, X, Tail(E), Q, R)
      BY <1>3, <1>4, <1>8, <1>13, <1>14, <2>4, HoldWith
    <3>2. f = c
      BY <2>4 DEF Offered
    <3>3. QED BY <2>3, <3>1, <3>2
  <2>5. CASE k = "entry"
    <3> DEFINE u == f.t
    <3>1. t.state \in {"New", "Entering"} /\ \A l \in Legs : Fresh(t.orders[l])
      BY <1>4, <2>5, EntersYet
    <3>2. /\ c.t.state = t.state /\ c.t.orders[k] = a.o
          /\ \A l \in Legs : c.t.orders[l] = t.orders[l] /\ t.orders[l] \in OrderRec
      BY <1>3, <2>5, WithFields, LegsOf, TradeOrders
    <3>3. /\ u.state = t.state /\ u.orders[k] = a.o
          /\ \A l \in Legs : u.orders[l] = [t.orders[l] EXCEPT !.qty = e.filled]
      BY <1>3, <1>7, <1>11, <2>5, <3>2, OfferedFields
    <3>4. \A l \in Legs : /\ u.orders[l].state = t.orders[l].state
                          /\ u.orders[l].instr = t.orders[l].instr
                          /\ u.orders[l].qty = e.filled
      <4> SUFFICES ASSUME NEW l \in Legs
                   PROVE  LET p == [t.orders[l] EXCEPT !.qty = e.filled]
                          IN  p.state = t.orders[l].state /\ p.instr = t.orders[l].instr /\ p.qty = e.filled
        BY <3>3
      <4>1. t.orders[l] \in OrderRec
        BY <3>2
      <4>2. QED BY <4>1 DEF OrderRec
    <3> HIDE DEF u
    <3>5. ASSUME Spent(u.orders["entry"])
          PROVE  Whole(X["entry"]) /\ \A l \in Legs : Within(u.orders[l], X["entry"].filled)
      <4>1. e.full
        BY <1>15, <2>5, <3>3, <3>5 DEF Spent
      <4>2. e \in Said("entry", E) /\ FullFill(e)
        BY <2>5, <4>1, SaidTail DEF FullFill
      <4>3. Whole(X["entry"]) /\ e.filled = X["entry"].filled
        BY <4>2 DEF Holding
      <4>4. \A l \in Legs : Within(u.orders[l], X["entry"].filled)
        BY <1>12, <3>1, <3>4, <4>3 DEF Within, Fresh, HasInstr
      <4>5. QED BY <4>3, <4>4
    <3>6. o.state # "Finished"
      BY <1>5 DEF Ashore
    <3>7. u.orders["entry"].state # "OpenFailed" /\ (FullFill(e) => u.orders[k].state = "Finished")
      BY <1>11, <1>14, <2>5, <3>3
    <3>8. Holding(u, X, Tail(E), Q, R)
      BY <1>4, <2>5, <3>3, <3>4, <3>5, <3>6, <3>7, HoldEvent
    <3>9. QED BY <2>3, <3>8 DEF u
  <2>6. QED BY <2>4, <2>5
<1> HIDE DEF f
<1>17. Holding(ComputeTrade(f.t, m).t, X, Tail(E), Q, R)
  BY <1>16, ComputeHold
<1>18. QED BY <1>6, <1>7, <1>17 DEF ThenComputeTrade

(* A trade fails where it entered or exited. *)
LEMMA FailFields ==
    ASSUME NEW c, c.t \in TradeRec, NEW m, ThenComputeTrade(FailTrade(c, c.t.state), m).ok
    PROVE  LET f == FailTrade(c, c.t.state)
           IN  /\ c.ok /\ f.t \in TradeRec
               /\ ThenComputeTrade(f, m) = ComputeTrade(f.t, m)
               /\ f.t.orders = c.t.orders /\ f.t.pending = c.t.pending
               /\ c.t.state \in {"Entering", "Exiting", "ExitFailed"}
               /\ f.t.state = IF c.t.state = "Entering" THEN "EntryFailed" ELSE "ExitFailed"
<1> DEFINE t == c.t
           to == IF t.state = "Entering" THEN "EntryFailed" ELSE "ExitFailed"
           u == [t EXCEPT !.status = "Idle"]
           f == FailTrade(c, t.state)
<1>1. f.ok
  BY StatusOk
<1>2. f = IF c.ok THEN SetTradeState(u, to) ELSE c
  BY DEF FailTrade
<1>3. c.ok /\ f = SetTradeState(u, to)
  BY <1>1, <1>2
<1>4. u \in TradeRec /\ u.orders = t.orders /\ u.pending = t.pending /\ u.state = t.state
  BY DEF TradeRec, TradeStatus
<1> HIDE DEF u
<1>5. f = TOk([u EXCEPT !.state = to])
  BY <1>1, <1>3 DEF SetTradeState, TErr
<1>6. \/ u.state \in {"Entering", "Exiting"}
      \/ u.state = to
      \/ <<u.state, to>> \in TradeMoves
  BY <1>1, <1>3 DEF SetTradeState, TErr
<1>7. t.state \in {"Entering", "Exiting", "ExitFailed"}
  BY <1>4, <1>6 DEF TradeMoves
<1>8. f.t = [u EXCEPT !.state = to]
  BY <1>5 DEF TOk
<1>9. f.t \in TradeRec /\ f.t.orders = u.orders /\ f.t.pending = u.pending /\ f.t.state = to
  BY <1>4, <1>8 DEF TradeRec, TradeState
<1>10. QED BY <1>1, <1>3, <1>4, <1>7, <1>9 DEF ThenComputeTrade

(* The failure to open an order that nothing is out of, where it is accepted: a
   trade whose exit failed is one that still holds what it bought.            *)
LEMMA OpenFailedHold ==
    ASSUME NEW t \in TradeRec, NEW X \in [Kinds -> ExchangeOrder], NEW E, NEW Q, NEW R,
           Known(t, X, E, Q, R), Holding(t, X, E, Q, R), NEW k \in Kinds, ~Out(k, X[k], E, Q),
           Refused(k, t.orders[k], R), NEW m \in Int \ {0},
           NEW r, r = TradeConfirmOpenFailed(t, k, m), r.ok
    PROVE  IF k = "entry" THEN r.t.state = "EntryFailed" ELSE Holding(r.t, X, E, Q, R)
<1> DEFINE o == t.orders[k]
           a == ConfirmOpenFailed(o, m)
           c == OnOrder(t, k, a)
           f == FailTrade(c, c.t.state)
           q == [o EXCEPT !.state = "OpenFailed"]
           U == OutOrders(X, E, Q)
<1>1. o \in OrderRec /\ Sound(o, a)
  BY TradeOrders, SoundConfirms
<1>2. c.t = With(t, k, a.o) /\ c.t \in TradeRec /\ c.ok = a.ok
  BY <1>1, OnOrderTyped DEF OnOrder
<1>3. /\ c.t.state = t.state
      /\ \A j \in Kinds : c.t.orders[j] = IF j = k THEN a.o ELSE t.orders[j]
  BY <1>2, WithFields
<1>4. r = ThenComputeTrade(f, m)
  BY <1>3 DEF TradeConfirmOpenFailed
<1>5. /\ c.ok /\ f.t \in TradeRec /\ r = ComputeTrade(f.t, m)
      /\ f.t.orders = c.t.orders /\ f.t.pending = c.t.pending
      /\ t.state \in {"Entering", "Exiting", "ExitFailed"}
      /\ f.t.state = IF t.state = "Entering" THEN "EntryFailed" ELSE "ExitFailed"
  BY <1>2, <1>3, <1>4, FailFields
<1>6. Settled(o) /\ Idles(o) /\ ~CreateNew(o)
  BY DEF Known, TradeBook, Refused, CreateNew
<1>7. o.state \in {"OpenFailed", "PendingOpen"}
  BY <1>2, <1>5 DEF ConfirmOpenFailed, SetState, ThenCompute, Err, Moves
<1>8. Idles(a.o) /\ (a.o = o \/ (o.state = "PendingOpen" /\ Stays(q, a.o)))
  BY <1>1, <1>6, OpenFailedMoves
<1>9. q \in OrderRec /\ q.state = "OpenFailed" /\ q.instr = o.instr /\ q.qty = o.qty
  BY <1>1 DEF OrderRec, OrderState
<1>10. a.o = o \/ Weighs(q, a.o)
  <2>1. CASE o.state = "OpenFailed"
    BY <2>1 DEF ConfirmOpenFailed, Ok
  <2>2. CASE o.state = "PendingOpen"
    <3>1. a = ThenCompute(Compute(q, m), m)
      BY <2>2 DEF ConfirmOpenFailed, SetState, Moves, Target
    <3>2. Weighs(q, Compute(q, m).o) /\ Compute(q, m).o \in OrderRec
      BY <1>9, WeighsRefl, WeighsAfter
    <3>3. QED BY <3>1, <3>2, WeighsThen
  <2>3. QED BY <1>7, <2>1, <2>2
<1>11. Refused(k, a.o, R) /\ a.o \in OrderRec
  BY <1>1, KeepsRefused DEF Sound, Evolves, Keeps
<1> HIDE DEF a, q
<1>12. a.o.state # "Finished" /\ Settled(a.o)
  BY <1>6, <1>7, <1>8, <1>9 DEF Stays
<1>13. TradeBook(c.t, U)
  <2>1. k \notin U
    BY DEF OutOrders
  <2>2. CASE a.o = o
    BY <1>2, <2>2, WithSame DEF Known
  <2>3. CASE o.state = "PendingOpen" /\ Stays(q, a.o)
    <3>1. TradeBook(With(t, k, a.o), U)
      BY <1>8, <2>1, <2>3, BookRefused DEF Known, q
    <3>2. QED BY <1>2, <3>1
  <2>4. QED BY <1>8, <2>2, <2>3
<1> HIDE DEF c, f
<1>14. TradeBook(f.t, U)
  BY <1>5, <1>13 DEF TradeBook, Quiet
<1>15. CASE k = "entry"
  <2>1. t.state = "Entering"
    BY <1>5, <1>7, <1>15 DEF Known, TradeBook, Holding, Sane, Spent
  <2>2. f.t.state = "EntryFailed"
    BY <1>5, <2>1
  <2>3. Proceeds(f.t, r.t)
    BY <1>5, <2>2, WeighsComputeTrade DEF TradeWeighs
  <2>4. QED BY <1>15, <2>2, <2>3 DEF Proceeds
<1>16. CASE k # "entry"
  <2>1. k \in Legs
    BY <1>16 DEF Kinds, Legs
  <2>2. t.state # "Entering"
    BY <1>7, <2>1 DEF Known, TradeBook, Fresh, Legs
  <2>3. Spent(t.orders["entry"])
    BY <1>5, <2>2 DEF Known, TradeBook, Holding, Sane, Spent
  <2>4. f.t.state = "ExitFailed" /\ f.t.orders["entry"] = t.orders["entry"] /\ f.t.orders[k] = a.o
    BY <1>3, <1>5, <1>16, <2>2, KindsOf
  <2>5. Sane(f.t)
    BY <2>3, <2>4 DEF Holding, Sane
  <2>6. Whole(X["entry"]) /\ \A l \in Legs : Within(f.t.orders[l], X["entry"].filled)
    <3> DEFINE n == X["entry"].filled
    <3>1. Whole(X["entry"]) /\ \A l \in Legs : Within(t.orders[l], n)
      BY <2>3 DEF Holding
    <3>2. n \in Int
      BY KindsOf DEF ExchangeOrder
    <3>3. Within(q, n)
      BY <1>9, <2>1, <3>1 DEF Within, HasInstr
    <3>4. Within(a.o, n)
      BY <1>9, <1>10, <1>11, <2>1, <3>1, <3>2, <3>3, WeighsWithin
    <3>5. QED BY <1>3, <1>5, <3>1, <3>4, LegsOf
  <2>7. \A j \in Kinds : t.orders[j].state = "Finished" => f.t.orders[j].state = "Finished"
    BY <1>3, <1>5, <1>7
  <2>8. Holding(f.t, X, E, Q, R)
    BY <1>11, <1>12, <2>1, <2>4, <2>5, <2>6, <2>7 DEF Holding
  <2>9. Holding(ComputeTrade(f.t, m).t, X, E, Q, R)
    BY <1>5, <1>14, <2>8, ComputeHold
  <2>10. QED BY <1>5, <1>16, <2>9
<1>17. QED BY <1>15, <1>16

(* An event that is not a fill may be applied to nothing. *)
LEMMA HoldIgnored ==
    ASSUME NEW t, NEW X, NEW E \in Seq(Event), E # <<>>, NEW Q, NEW R, Holding(t, X, E, Q, R),
           E[1].kind # "Fill"
    PROVE  Holding(t, X, Tail(E), Q, R)
<1> DEFINE F == Tail(E)
<1>1. /\ \A j : Said(j, F) \subseteq Said(j, E)
      /\ \A j : \A e \in Said(j, E) : e = E[1] \/ e \in Said(j, F)
  BY SaidTail
<1>2. \A l : ~Out(l, X[l], E, Q) => ~Out(l, X[l], F, Q)
  BY TailOut
<1>3. ~FullFill(E[1])
  BY DEF FullFill
<1> HIDE DEF F
<1>4. Holding(t, X, F, Q, R)
  BY <1>1, <1>2, <1>3 DEF Holding
<1>5. QED BY <1>4 DEF F

(* A rejection that the client takes for a failure to open, confirmed twice: the
   entry's is not accepted the second time.                                    *)
LEMMA RejectedHold ==
    ASSUME NEW t \in TradeRec, NEW X \in [Kinds -> ExchangeOrder], NEW E \in Seq(Event), E # <<>>,
           NEW Q, NEW R, Known(t, X, E, Q, R), Holding(t, X, E, Q, R),
           NEW k \in Kinds, k = E[1].order, Pipe(k, X[k], E, Q),
           price \in Int \ {0}, E[1].kind = "Rejected",
           NEW r, r = ConfirmOpenFailedTwice(t, k), r.ok
    PROVE  Holding(r.t, X, Tail(E), Q, R)
<1> DEFINE F == Tail(E)
           a == TradeConfirmOpenFailed(t, k, price)
<1>1. 1 \in Places(k, E) /\ Places(k, F) = {} /\ ~Live(k, X[k], Q)
  BY HeadPlace
<1>2. Refused(k, t.orders[k], R)
  BY <1>1 DEF Known, OrderLedger
<1>3. Known(t, X, F, Q, R) /\ Holding(t, X, F, Q, R)
  BY EventIgnored, HoldIgnored DEF IsPair
<1>4. ~Out(k, X[k], F, Q)
  BY <1>1 DEF Out
<1>5. a.ok /\ r = TradeConfirmOpenFailed(a.t, k, price)
  BY DEF ConfirmOpenFailedTwice
<1>6. Known(a.t, X, F, Q, R) /\ a.t \in TradeRec /\ Refused(k, a.t.orders[k], R)
  BY <1>1, <1>2, <1>3, OpenFailedLedger
<1>7. IF k = "entry" THEN a.t.state = "EntryFailed" ELSE Holding(a.t, X, F, Q, R)
  BY <1>2, <1>3, <1>4, <1>5, OpenFailedHold
<1> HIDE DEF a, F
<1>8. CASE k = "entry"
  <2> DEFINE b == ConfirmOpenFailed(a.t.orders[k], price)
             c == OnOrder(a.t, k, b)
  <2>1. c.t = With(a.t, k, b.o) /\ c.t \in TradeRec
    BY <1>6, TradeOrders, SoundConfirms, OnOrderTyped
  <2>2. c.t.state = "EntryFailed" /\ c.t.state = a.t.state
    BY <1>6, <1>7, <1>8, <2>1, WithFields
  <2>3. r = ThenComputeTrade(FailTrade(c, c.t.state), price)
    BY <1>5, <2>2 DEF TradeConfirmOpenFailed
  <2> HIDE DEF c
  <2>4. ThenComputeTrade(FailTrade(c, c.t.state), price).ok
    BY <2>3
  <2>5. c.t.state \in {"Entering", "Exiting", "ExitFailed"}
    BY <2>1, <2>4, FailFields
  <2>6. QED BY <2>2, <2>5
<1>9. CASE k # "entry"
  <2>1. Holding(r.t, X, F, Q, R)
    BY <1>4, <1>5, <1>6, <1>7, <1>9, OpenFailedHold
  <2>2. QED BY <2>1 DEF F
<1>10. QED BY <1>8, <1>9

(* Whoever routes it, an event that is accepted leaves the trade with what it
   should hold.                                                              *)
LEMMA EventHold ==
    ASSUME IInv, price \in Int \ {0}, events # <<>>, TradeLedger(trade, ex, events, requests, results),
           Holds(trade, ex, events, requests, results, held),
           NEW router, NEW r, r = ConfirmEvent(router, events[1]), r.ok
    PROVE  Holds(r.t, ex, Tail(events), requests, results, held)
<1> DEFINE e == events[1]
           k == e.order
           F == Tail(events)
           Hold(c) == Holding(c.t, ex, F, requests, results)
<1>1. /\ trade \in TradeRec /\ events \in Seq(Event) /\ price \in Int
      /\ ex \in [Kinds -> ExchangeOrder] /\ held \in Int
  BY EnvAssumption DEF IInv, TypeOK
<1>2. e \in Event
  BY <1>1
<1>3. k \in Kinds /\ e.kind \in EventKind
  BY <1>2 DEF Event
<1>4. Pipe(k, ex[k], events, requests)
  BY <1>3 DEF TradeLedger
<1>5. IsKnown(router, e) /\ trade.tracked
  BY DEF ConfirmEvent, TErr, IsKnown
<1>6. /\ Known(trade, ex, events, requests, results)
      /\ Holding(trade, ex, events, requests, results)
      /\ Backed(ex, events, requests, held)
  BY <1>5 DEF TradeLedger, Holds
<1>7. Backed(ex, F, requests, held)
  <2>1. NoNews(events, F)
    BY <1>1, SaidTail DEF NoNews
  <2>2. QED BY <1>1, <1>6, <2>1, BackedLess
<1>8. Hold(r)
  <2>1. CASE e.kind = "New"
    <3>1. r = ConfirmNew(router, e)
      BY <1>5, <2>1 DEF ConfirmEvent
    <3>2. CASE IsReplacement(router, e)
      <4>1. r = TradeConfirmReplaced(trade, k, e, price)
        BY <3>1, <3>2 DEF ConfirmNew
      <4>2. QED BY <1>1, <1>3, <1>4, <1>6, <2>1, <4>1, ReplacedHold
    <3>3. CASE ~IsReplacement(router, e)
      <4>1. r = TradeConfirmOpened(trade, k, price)
        BY <3>1, <3>3 DEF ConfirmNew
      <4>2. QED BY <1>1, <1>3, <1>4, <1>6, <2>1, <4>1, NewHold
    <3>4. QED BY <3>2, <3>3
  <2>2. CASE e.kind = "Fill"
    <3>1. r = TradeConfirmFilled(trade, k, e.filled, e.full, price)
      BY <1>5, <2>2 DEF ConfirmEvent
    <3>2. QED BY <1>1, <1>3, <1>4, <1>6, <2>2, <3>1, FilledHold
  <2>3. CASE e.kind \in {"Cancelled", "Expired"}
    <3>1. r = ConfirmEnd(router, e)
      BY <1>5, <2>3 DEF ConfirmEvent
    <3>2. TradeConfirmExpired(trade, k, price).ok = FALSE
      BY <1>3, <1>6, RefusedMoves DEF TradeConfirmExpired, StatusThenCompute, OnOrder, Err, Known, TradeBook
    <3>3. r = TradeConfirmCancelled(trade, k, price)
      BY <3>1, <3>2 DEF ConfirmEnd
    <3>4. QED BY <1>1, <1>3, <1>4, <1>6, <2>3, <3>3, CancelledHold
  <2>4. CASE e.kind = "Rejected"
    <3>1. r = ConfirmRejection(router, e)
      BY <1>5, <2>4 DEF ConfirmEvent
    <3>2. TradeConfirmRejected(trade, k, price).ok = FALSE
      BY <1>3, <1>6, RefusedMoves DEF TradeConfirmRejected, StatusThenCompute, OnOrder, Err, Known, TradeBook
    <3>3. r = ConfirmOpenFailedTwice(trade, k)
      BY <3>1, <3>2 DEF ConfirmRejection
    <3>4. QED BY <1>1, <1>3, <1>4, <1>6, <2>4, <3>3, RejectedHold
  <2>5. QED BY <1>3, <2>1, <2>2, <2>3, <2>4 DEF EventKind
<1>9. QED BY <1>7, <1>8 DEF Holds

----------------------------------------------------------------------------
(* The result of an instruction, and the calls of a strategy *)

(* A refusal that is taken from the results is remembered by the order. *)
LEMMA ResultRefused ==
    ASSUME IInv, price \in Int \ {0}, trade.tracked,
           Known(trade, ex, events, requests, results), NEW res \in results,
           NEW j \in Kinds, Refused(j, trade.orders[j], results)
    PROVE  Refused(j, ConfirmResult(res).t.orders[j], results \ {res})
<1> DEFINE k == res.order
           u == ConfirmResult(res).t
           S == results \ {res}
           o == trade.orders[k]
           f == [order |-> j, id |-> trade.orders[j].instr.id, success |-> FALSE]
<1>1. /\ res \in Result /\ k \in Kinds /\ res.success \in BOOLEAN
      /\ trade \in TradeRec /\ price \in Int
  BY EnvAssumption DEF IInv, TypeOK, Result
<1>2. OrderInFlight(o, k, requests, results)
  BY <1>1, IInvInFlight DEF IInv, InFlight
<1>3. res \in OutOf(k, results)
  BY DEF OutOf
<1>4. o.instr.st = "Running" /\ OutOf(k, results) = {res} /\ res.id = o.instr.id
  BY <1>2, <1>3 DEF OrderInFlight
<1>5. u = ConfirmExecution(trade, k, o.instr.id, res.success, price).t
  BY <1>4 DEF ConfirmResult
<1>6. Ends(trade, k, u)
  BY <1>1, <1>4, <1>5, ExecutionEndsTrade
<1>7. ~res.success => u.orders[k].term /\ u.orders[k].instr.kind # "CreateOrder"
  BY <1>1, <1>4, <1>5, BookExecution, ZenonT(40) DEF Known
<1> HIDE DEF u
<1>8. CASE j # k
  <2>1. Keeps(trade.orders[j], u.orders[j])
    BY <1>6, <1>8 DEF Ends
  <2>2. f # res
    BY <1>8
  <2>3. Refused(j, trade.orders[j], S)
    BY <2>2 DEF Refused
  <2>4. QED BY <2>1, <2>3, KeepsRefused DEF u
<1>9. CASE j = k /\ o.instr.kind = "CreateOrder"
  <2>1. f \in results
    BY <1>9 DEF Refused
  <2>2. f \in OutOf(k, results)
    BY <1>9, <2>1 DEF OutOf
  <2>3. res = f
    BY <1>4, <2>2
  <2>4. ~res.success
    BY <2>3
  <2>5. Refused(j, u.orders[j], S)
    BY <1>7, <1>9, <2>4 DEF Refused
  <2>6. QED BY <2>5 DEF u
<1>10. CASE j = k /\ o.instr.kind # "CreateOrder"
  <2>1. o.term
    BY <1>10 DEF Refused
  <2>2. OpensNothing(o, u.orders[k])
    BY <1>1, <1>6 DEF Ends
  <2>3. Refused(j, u.orders[j], S)
    BY <1>10, <2>1, <2>2 DEF OpensNothing, Refused
  <2>4. QED BY <2>3 DEF u
<1>11. QED BY <1>8, <1>9, <1>10

(* The result of the instruction that runs changes nothing in what orders are for. *)
LEMMA ExecutionWeighs ==
    ASSUME NEW t \in TradeRec, NEW U, TradeBook(t, U), Sane(t), NEW k \in Kinds,
           t.orders[k].instr.st = "Running", NEW success \in BOOLEAN, NEW m \in Int \ {0}
    PROVE  TradeWeighs(t, ConfirmExecution(t, k, t.orders[k].instr.id, success, m).t)
<1> DEFINE o == t.orders[k]
           a == ConfirmInstructionExecution(o, o.instr.id, success, m)
           c == OnOrder(t, k, a)
           p == [c.t EXCEPT !.pending = "none"]
           l == Lifecycle(p, m)
           d == ComputeTrade(l.t, m)
<1>1. o \in OrderRec /\ Settled(o) /\ Idles(o) /\ ~Fresh(o)
  BY TradeOrders DEF TradeBook, Fresh, HasInstr, OrderRec, NoInstr, Instruction, InstructionKind
<1>2. Stays(o, a.o) /\ Idles(a.o) /\ Weighs(o, a.o)
  BY <1>1, ExecutionMoves, WeighsExecution
<1>3. a.o \in OrderRec
  BY <1>1, ExecutionEnds
<1> HIDE DEF a
<1>4. Minds(t, c.t, U) /\ TradeWeighs(t, c.t)
  BY <1>1, <1>2, BookWith, WeighsWith DEF OnOrder
<1>5. c.t \in TradeRec
  BY <1>3, WithFields DEF OnOrder, With, TradeRec
<1> HIDE DEF c
<1>6. p \in TradeRec /\ p.orders = c.t.orders /\ p.pending = "none" /\ p.state = c.t.state
  BY <1>5 DEF TradeRec
<1>7. TradeBook(p, U) /\ Sane(p)
  <2>1. TradeBook(p, U)
    BY <1>4, <1>6 DEF Minds, TradeBook, Quiet
  <2>2. Sane(c.t)
    BY <1>4, SaneEvolves DEF Minds
  <2>3. QED BY <1>6, <2>1, <2>2 DEF Sane
<1>8. TradeWeighs(c.t, p)
  BY <1>6, WeighsFields DEF Proceeds
<1> HIDE DEF p
<1>9. ~IsFailed(p.orders["entry"])
  BY <1>7, SaneNotFailed, KindsOf DEF TradeBook
<1>10. Minds(p, l.t, U) /\ l.t \in TradeRec /\ TradeWeighs(p, l.t)
  BY <1>6, <1>7, <1>9, BookLifecycle, LifecycleSound, WeighsLifecycle DEF TradeSound, TradeEvolves
<1> HIDE DEF l
<1>11. ~IsFailed(l.t.orders["entry"])
  BY <1>7, <1>10, SaneEvolves, SaneNotFailed, KindsOf DEF Minds, TradeBook
<1>12. TradeWeighs(l.t, d.t)
  BY <1>10, <1>11, WeighsComputeTrade
<1> HIDE DEF d
<1>13. TradeWeighs(t, d.t)
  BY <1>4, <1>8, <1>10, <1>12, TradeWeighsTrans
<1>14. ConfirmExecution(t, k, o.instr.id, success, m) \in {c, d}
  BY DEF ConfirmExecution, c, d, l, p, a
<1>15. QED BY <1>4, <1>13, <1>14

(* A result leaves the trade with what it should hold. *)
LEMMA ResultHold ==
    ASSUME IInv, price \in Int \ {0}, TradeLedger(trade, ex, events, requests, results),
           Holds(trade, ex, events, requests, results, held), NEW res \in results
    PROVE  Holds(ConfirmResult(res).t, ex, events, requests, results \ {res}, held)
<1> DEFINE k == res.order
           u == ConfirmResult(res).t
           S == results \ {res}
           o == trade.orders[k]
           U == OutOrders(ex, events, requests)
<1>1. /\ res \in Result /\ k \in Kinds /\ res.success \in BOOLEAN
      /\ trade \in TradeRec /\ price \in Int /\ ex \in [Kinds -> ExchangeOrder]
  BY EnvAssumption DEF IInv, TypeOK, Result
<1>2. CASE ~trade.tracked
  BY <1>2 DEF ConfirmResult, TErr, Holds
<1>3. CASE trade.tracked
  <2>1. /\ Known(trade, ex, events, requests, results)
        /\ Holding(trade, ex, events, requests, results)
    BY <1>3 DEF TradeLedger, Holds
  <2>2. OrderInFlight(o, k, requests, results)
    BY <1>1, <1>3, IInvInFlight DEF IInv, InFlight
  <2>3. res \in OutOf(k, results)
    BY DEF OutOf
  <2>4. o.instr.st = "Running" /\ res.id = o.instr.id
    BY <2>2, <2>3 DEF OrderInFlight
  <2>5. u = ConfirmExecution(trade, k, o.instr.id, res.success, price).t
    BY <1>3, <2>4 DEF ConfirmResult
  <2>6. TradeBook(trade, U) /\ Sane(trade)
    BY <2>1 DEF Known, Holding
  <2>7. TradeWeighs(trade, u)
    BY <1>1, <2>4, <2>5, <2>6, ExecutionWeighs
  <2>8. TradeStays(trade, u)
    BY <1>1, <2>4, <2>5, <2>6, BookExecution, ZenonT(40) DEF Minds
  <2>9. u \in TradeRec
    <3>1. Ends(trade, k, u)
      BY <1>1, <2>4, <2>5, ExecutionEndsTrade
    <3>2. QED BY <3>1 DEF Ends
  <2>10. \A l \in Legs : Refused(l, trade.orders[l], results) => Refused(l, u.orders[l], S)
    BY <1>3, <2>1, LegsOf, ResultRefused
  <2> HIDE DEF u, S
  <2>11. Holding(u, ex, events, requests, S)
    BY <1>1, <2>1, <2>7, <2>8, <2>9, <2>10, HoldEvolves
  <2>12. QED BY <2>11 DEF Holds, u, S
<1>4. QED BY <1>2, <1>3

(* A strategy's call keeps it. *)
LEMMA CallHold ==
    ASSUME IInv, price \in Int \ {0}, TradeLedger(trade, ex, events, requests, results),
           Holds(trade, ex, events, requests, results, held), StrategyCall
    PROVE  Holds(trade', ex, events, requests, results, held)
<1>1. trade \in TradeRec /\ price \in Int /\ ex \in [Kinds -> ExchangeOrder]
  BY EnvAssumption DEF IInv, TypeOK
<1>2. ASSUME NEW name, NEW r, Call(name, r), TradeSound(trade, r), TradeWeighs(trade, r.t),
             TradeBook(trade, OutOrders(ex, events, requests))
                => Minds(trade, r.t, OutOrders(ex, events, requests))
      PROVE  Holds(trade', ex, events, requests, results, held)
  <2>1. trade.tracked = TRUE /\ trade' = r.t
    BY <1>1, <1>2 DEF Call, TradeRec
  <2>2. Known(trade, ex, events, requests, results) /\ Holding(trade, ex, events, requests, results)
    BY <2>1 DEF TradeLedger, Holds
  <2>3. TradeEvolves(trade, r.t) /\ TradeStays(trade, r.t) /\ r.t \in TradeRec
    BY <1>2, <2>2 DEF TradeSound, Known, Minds, TradeEvolves
  <2>4. \A l \in Legs : Refused(l, trade.orders[l], results) => Refused(l, r.t.orders[l], results)
    BY <2>3, LegsOf, KeepsRefused DEF TradeEvolves, Evolves
  <2>5. Holding(r.t, ex, events, requests, results)
    BY <1>1, <1>2, <2>2, <2>3, <2>4, HoldEvolves
  <2>6. QED BY <2>1, <2>5 DEF Holds
<1>3. CASE CallTerminate
  BY <1>1, <1>2, <1>3, CallsSound, BookCalls, WeighsTradeCalls DEF CallTerminate
<1>4. CASE CallCancelAndIdle
  BY <1>1, <1>2, <1>4, CallsSound, BookCalls, WeighsTradeCalls DEF CallCancelAndIdle
<1>5. ASSUME NEW k \in Kinds, CallResume(k)
      PROVE  Holds(trade', ex, events, requests, results, held)
  BY <1>1, <1>2, <1>5, CallsSound, BookCalls, WeighsTradeCalls DEF CallResume
<1>6. QED BY <1>3, <1>4, <1>5 DEF StrategyCall

(* An activator that starts to say yes is not in it. *)
LEMMA ArmedHold ==
    ASSUME IInv, Holds(trade, ex, events, requests, results, held), NEW k \in Kinds, Activate(k)
    PROVE  Holds(trade', ex, events, requests, results, held)
<1>1. trade \in TradeRec /\ \A j \in Kinds : trade.orders[j] \in OrderRec
  BY TradeOrders DEF IInv, TypeOK
<1>2. trade' = [trade EXCEPT !.orders[k].armed = TRUE]
  BY DEF Activate
<1>3. trade'.tracked = trade.tracked /\ trade'.state = trade.state
  BY <1>1, <1>2 DEF TradeRec
<1>4. \A j \in Kinds : /\ trade'.orders[j].state = trade.orders[j].state
                       /\ trade'.orders[j].byCancel = trade.orders[j].byCancel
                       /\ trade'.orders[j].instr = trade.orders[j].instr
                       /\ trade'.orders[j].term = trade.orders[j].term
                       /\ trade'.orders[j].qty = trade.orders[j].qty
  BY <1>1, <1>2 DEF TradeRec, OrderRec
<1>5. \A j \in Kinds : /\ Spent(trade'.orders[j]) <=> Spent(trade.orders[j])
                       /\ \A n : Within(trade.orders[j], n) => Within(trade'.orders[j], n)
                       /\ Refused(j, trade.orders[j], results) => Refused(j, trade'.orders[j], results)
  BY <1>4 DEF Spent, Within, Refused, HasInstr
<1>6. Holding(trade, ex, events, requests, results) => Holding(trade', ex, events, requests, results)
  BY <1>3, <1>4, <1>5, KindsOf, LegsOf DEF Holding, Sane
<1>7. QED BY <1>3, <1>6 DEF Holds

----------------------------------------------------------------------------
(* The invariant *)

(* While an error ends the worker, and only the entry is filled in part. *)
Held ==
    /\ Book
    /\ ExitOnError /\ PartialFills \subseteq {"entry"} =>
          IF up THEN Holds(trade, ex, events, requests, results, held)
          ELSE Backed(ex, events, requests, held)

(* Nothing is held at first, and nothing was asked for. *)
LEMMA InitHeld == Init => Held
<1> SUFFICES ASSUME Init PROVE Holds(trade, ex, events, requests, results, held)
  BY InitBook DEF Held, Init
<1>1. PICK armed \in BOOLEAN :
          trade = NewTrade(NewOrder("limit", "Buy", armed, Qty, 0),
                           NewOrder("limit", "Sell", ExitIsInstant, Qty, 0),
                           NewOrder("stop", "Sell", TRUE, Qty, InitialStop))
  BY DEF Init
<1>2. trade.state = "New" /\ \A k \in Kinds : trade.orders[k].state = "Idle"
  BY <1>1 DEF NewTrade, NewOrder, Kinds
<1>3. /\ \A k \in Kinds : ex[k].status = "none" /\ ex[k].filled = 0 /\ ex[k].qty = 0
      /\ requests = {} /\ held = 0 /\ \A k : Said(k, events) = {}
  BY DEF Init, NoExchangeOrder, Said, Places
<1>4. Backed(ex, events, requests, held)
  BY <1>3, KindsOf, LegsOf DEF Backed, Asked, OutOf, Whole
<1>5. Holding(trade, ex, events, requests, results)
  BY <1>2, <1>3, KindsOf DEF Holding, Sane, Spent, Whole
<1>6. QED BY <1>4, <1>5 DEF Holds

(* Every step keeps it: an error leaves nothing but the exchange's part. *)
LEMMA NextHeld == Held /\ [Next]_vars => Held'
<1> DEFINE Assumed == ExitOnError /\ PartialFills \subseteq {"entry"}
           Hs(t, X, E, Q, R, h, b) == IF b THEN Holds(t, X, E, Q, R, h) ELSE Backed(X, E, Q, h)
<1> SUFFICES ASSUME Held, [Next]_vars, Assumed
             PROVE  Hs(trade', ex', events', requests', results', held', up')
  BY NextBook DEF Held
<1>1. /\ Book /\ IInv /\ TradeLedger(trade, ex, events, requests, results) /\ price \in Int \ {0}
      /\ requests \subseteq Request /\ trade \in TradeRec /\ events \in Seq(Event)
      /\ InFlight(trade, requests, results) /\ ex \in [Kinds -> ExchangeOrder] /\ held \in Int
      /\ up \in BOOLEAN
  BY PriceTyped, IInvInFlight DEF Held, Book, IInv, TypeOK
<1>2. /\ up => Holds(trade, ex, events, requests, results, held)
      /\ Backed(ex, events, requests, held)
  BY DEF Held, Holds
<1>3. CASE TraderCompute
  <2>1. TOk(trade).t = trade /\ TOk(trade).ok
    BY DEF TOk
  <2>2. Settle(TOk(trade)) /\ UNCHANGED <<ex, events, results, held>> /\ up
    BY <1>3 DEF TraderCompute
  <2>3. Holds(trade', ex, events, requests', results, held)
    BY <1>1, <1>2, <2>1, <2>2, SettleHold
  <2>4. up'
    BY <2>1, <2>2 DEF Settle
  <2>5. QED BY <2>2, <2>3, <2>4
<1>4. CASE UNCHANGED vars \/ \E p \in 1..MaxPrice : PriceMoves(p)
  BY <1>2, <1>4 DEF vars, PriceMoves
<1>5. ASSUME NEW k \in Kinds, Activate(k)
      PROVE  Hs(trade', ex', events', requests', results', held', up')
  <2>1. up /\ UNCHANGED <<ex, events, requests, results, held, up>>
    BY <1>5 DEF Activate
  <2>2. Holds(trade', ex, events, requests, results, held)
    BY <1>1, <1>2, <1>5, <2>1, ArmedHold
  <2>3. QED BY <2>1, <2>2
<1>6. CASE StrategyCall
  <2>1. up /\ UNCHANGED <<ex, events, requests, results, held, up>>
    BY <1>6 DEF StrategyCall, CallTerminate, CallCancelAndIdle, CallResume, Call
  <2>2. Holds(trade', ex, events, requests, results, held)
    BY <1>1, <1>2, <1>6, <2>1, CallHold
  <2>3. QED BY <2>1, <2>2
<1>7. CASE Perform
  <2>1. trade' = trade /\ up' = up
    BY <1>7 DEF Perform, PerformRequest, ExchangeCreate, ExchangeReject, ExchangeCancel,
                ExchangeCancelReplace, ExchangeCannotCancel, Reports
  <2>2. /\ Backed(ex', events', requests', held')
        /\ Holding(trade, ex, events, requests, results)
             => Holding(trade, ex', events', requests', results')
    BY <1>1, <1>2, <1>7, PerformHold
  <2>3. QED BY <1>2, <2>1, <2>2 DEF Holds
<1>8. ASSUME NEW k \in Kinds, ExchangeActs(k)
      PROVE  Hs(trade', ex', events', requests', results', held', up')
  <2>1. trade' = trade /\ up' = up
    BY <1>8 DEF ExchangeActs, ExchangeFill, ExternalCancel, ExternalExpire, ExchangeEnds
  <2>2. /\ Backed(ex', events', requests', held')
        /\ Holding(trade, ex, events, requests, results)
             => Holding(trade, ex', events', requests', results')
    BY <1>1, <1>2, <1>8, ActsHold
  <2>3. QED BY <1>2, <2>1, <2>2 DEF Holds
<1>9. ASSUME NEW router \in Routers, HandleEvent(router)
      PROVE  Hs(trade', ex', events', requests', results', held', up')
  <2> DEFINE r == ConfirmEvent(router, events[1])
             T == Tail(events)
  <2>1. /\ events # <<>> /\ events' = T /\ UNCHANGED <<results, ex, held>> /\ up
        /\ Settle(r) \/ SettleTwice(r)
    BY <1>9 DEF HandleEvent
  <2>2. events[1] \in Event
    BY <1>1, <2>1
  <2>3. TradeSound(trade, r)
    BY <1>1, <2>2, EventSound
  <2>4. TradeLedger(r.t, ex, T, requests, results)
    BY <1>1, <2>1, EventLedger
  <2>5. r.ok => Holds(r.t, ex, T, requests, results, held)
    BY <1>1, <1>2, <2>1, EventHold
  <2>6. NoNews(events, T)
    BY <1>1, <2>1, SaidTail DEF NoNews
  <2> HIDE DEF r, T
  <2>7. r.t \in TradeRec /\ InFlight(r.t, requests, results)
    BY <1>1, <2>3, EvolvesInFlight DEF TradeSound, TradeEvolves
  <2>8. CASE r.ok
    <3>1. Holds(trade', ex, T, requests', results, held)
      BY <1>1, <2>1, <2>4, <2>5, <2>7, <2>8, SettleHold
    <3>2. up'
      BY <2>1, <2>8 DEF Settle, SettleTwice
    <3>3. QED BY <2>1, <3>1, <3>2
  <2>9. CASE ~r.ok
    <3>1. requests' = requests /\ ~up'
      BY <2>1, <2>9 DEF Settle, SettleTwice
    <3>2. Backed(ex, T, requests, held)
      BY <1>1, <1>2, <2>6, BackedLess
    <3>3. QED BY <2>1, <3>1, <3>2
  <2>10. QED BY <2>8, <2>9
<1>10. CASE HandleResult
  <2>1. PICK res \in results : results' = results \ {res} /\ Settle(ConfirmResult(res))
    BY <1>10 DEF HandleResult
  <2> DEFINE r == ConfirmResult(res)
             S == results \ {res}
  <2>2. r.t \in TradeRec /\ InFlight(r.t, requests, S)
    BY <1>1, ResultSound
  <2>3. TradeLedger(r.t, ex, events, requests, S)
    BY <1>1, ResultLedger
  <2>4. Settle(r) /\ results' = S /\ UNCHANGED <<ex, events, held>> /\ up
    BY <1>10, <2>1 DEF HandleResult
  <2>5. Holds(r.t, ex, events, requests, S, held)
    BY <1>1, <1>2, <2>4, ResultHold
  <2> HIDE DEF r, S
  <2>6. CASE r.ok
    <3>1. Holds(trade', ex, events, requests', S, held)
      BY <1>1, <2>2, <2>3, <2>4, <2>5, <2>6, SettleHold
    <3>2. up'
      BY <2>4, <2>6 DEF Settle
    <3>3. QED BY <2>4, <3>1, <3>2
  <2>7. CASE ~r.ok
    BY <1>2, <2>4, <2>7 DEF Settle
  <2>8. QED BY <2>6, <2>7
<1>11. QED BY <1>3, <1>4, <1>5, <1>6, <1>7, <1>8, <1>9, <1>10 DEF Next

(* What is backed is not oversold, and covers what is offered. *)
LEMMA BackedSolvent ==
    ASSUME ex \in [Kinds -> ExchangeOrder], held \in Int, Backed(ex, events, requests, held)
    PROVE  NeverOversold /\ OffersWhatItHolds
<1>1. /\ \A k \in Kinds : ex[k].filled \in Nat /\ ex[k].qty \in Int
      /\ held >= ex["entry"].filled - ex["exit"].filled - ex["stop"].filled
  BY KindsOf DEF ExchangeOrder, Backed
<1>2. ASSUME NEW k \in Legs, ex[k].filled > 0
      PROVE  /\ ex[k].status = "gone" /\ ex[k].filled <= ex["entry"].filled
             /\ \A j \in Legs \ {k} : ex[j].status # "open" /\ ex[j].filled = 0
  <2>1. Whole(ex[k]) /\ Alone(k, ex, requests)
    BY <1>2 DEF Backed
  <2>2. ex[k].status # "none" => ex[k].qty <= ex["entry"].filled
    BY DEF Backed, Bought
  <2>3. QED BY <2>1, <2>2 DEF Whole, Alone, Live
<1>3. NeverOversold
  <2>1. CASE ex["exit"].filled > 0
    BY <1>1, <1>2, <2>1, KindsOf, LegsOf DEF NeverOversold, Legs
  <2>2. CASE ex["stop"].filled > 0
    BY <1>1, <1>2, <2>2, KindsOf, LegsOf DEF NeverOversold, Legs
  <2>3. CASE ~(ex["exit"].filled > 0) /\ ~(ex["stop"].filled > 0)
    BY <1>1, <2>3, KindsOf DEF NeverOversold
  <2>4. QED BY <2>1, <2>2, <2>3
<1>4. ASSUME NEW k \in Legs, ex[k].status = "open" PROVE ex[k].qty - ex[k].filled <= held
  <2>1. \A j \in Legs : ~(ex[j].filled > 0)
    BY <1>2, <1>4
  <2>2. ex["exit"].filled = 0 /\ ex["stop"].filled = 0 /\ ex[k].filled = 0
    BY <1>1, <2>1, KindsOf, LegsOf
  <2>3. ex[k].qty <= ex["entry"].filled
    BY <1>4 DEF Backed, Bought
  <2>4. QED BY <1>1, <2>2, <2>3, KindsOf, LegsOf
<1>5. QED BY <1>3, <1>4 DEF OffersWhatItHolds, Legs

(* A trade never sells more than it has bought, in whatever order the events and
   results arrive and whatever is refused, cancelled or replaced: where an error
   of a handler ends the worker, and the exit and the stoploss are filled in
   full or not at all.                                                         *)
THEOREM SellsNoMoreThanBought ==
    Spec => [](ExitOnError /\ PartialFills \subseteq {"entry"} => NeverOversold)
<1>1. Held => (ExitOnError /\ PartialFills \subseteq {"entry"} => NeverOversold)
  BY BackedSolvent DEF Held, Holds, Book, IInv, TypeOK
<1>2. QED BY <1>1, InitHeld, NextHeld, PTL DEF Spec

(* What the exit or the stoploss offers for sale on the exchange's book is held,
   under the same conditions: a fill of the entry that comes in parts is offered
   when the order is over, and what one exit sold the other does not offer.    *)
THEOREM OffersOnlyHoldings ==
    Spec => [](ExitOnError /\ PartialFills \subseteq {"entry"} => OffersWhatItHolds)
<1>1. Held => (ExitOnError /\ PartialFills \subseteq {"entry"} => OffersWhatItHolds)
  BY BackedSolvent DEF Held, Holds, Book, IInv, TypeOK
<1>2. QED BY <1>1, InitHeld, NextHeld, PTL DEF Spec
=============================================================================
