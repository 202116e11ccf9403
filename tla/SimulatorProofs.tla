-------------------------- MODULE SimulatorProofs --------------------------
(***************************************************************************)
(* Theorems about Simulator: every order is found under the id its client  *)
(* gave it, no two orders of one family are filled, the other leg of a     *)
(* pair goes with the first, and the simulator implements OrderLives; for  *)
(* all clients, numbers of orders, prices and types of orders.             *)
(***************************************************************************)
EXTENDS Simulator, SequenceTheorems, TLAPS

(* The types of the variables. *)
SimulatorTypeOK ==
    /\ book \in [DOMAIN book -> SimulatorOrder] /\ DOMAIN book \subseteq Ids
    /\ ids \in [DOMAIN ids -> Ids]
    /\ market \in 0..MaxPrice /\ previous \in 0..MaxPrice
    /\ alive \in BOOLEAN /\ taken \in BOOLEAN
    /\ nextId \in 1..MaxId + 1
    /\ feed \in [Ids -> Seq(EventKind)]
    /\ fate \in [Ids -> {"none", "Filled", "Cancelled"}]
    /\ root \in [Ids -> 0..MaxId]

(* What is not there yet has no history, and what is there was numbered. *)
Numbered ==
    /\ \A i \in DOMAIN book : i < nextId /\ book[i].other < nextId
    /\ \A i \in Ids : root[i] < nextId
    /\ \A i \in Ids : fate[i] # "none" => i < nextId

(* The map of the clients' ids and the book are inverse to each other. *)
Found ==
    /\ DOMAIN ids = {book[i].client : i \in DOMAIN book}
    /\ \A i \in DOMAIN book : ids[book[i].client] = i

(* What was announced of an order, with what is to be announced with the next
   tick, is what has become of it.                                          *)
Told(i) ==
    IF i \in DOMAIN book
    THEN \/ /\ book[i].state = "Opened"
            /\ \/ feed[i] = <<>> /\ book[i].news = <<"New">>
               \/ feed[i] = <<"New">> /\ book[i].news = <<>>
         \/ /\ book[i].state = "Cancelled"
            /\ \/ feed[i] = <<>> /\ book[i].news = <<"New", "Cancelled">>
               \/ feed[i] = <<"New">> /\ book[i].news = <<"Cancelled">>
    ELSE \/ fate[i] = "none" /\ feed[i] = <<>>
         \/ fate[i] = "Filled" /\ feed[i] = <<"New", "Fill">>
         \/ fate[i] = "Cancelled" /\ feed[i] = <<"New", "Cancelled">>

AllTold == (\A i \in Ids : Told(i)) /\ (\A i \in DOMAIN book : fate[i] = "none")

(* A replacement waits in one order at most, from the request to the tick, and
   nothing else has its numbers.                                            *)
Waits(i) == book[i].repl # NoReplacement

Embeds ==
    \A i \in DOMAIN book : Waits(i) =>
        /\ taken /\ book[i].state = "Cancelled" /\ ~book[i].byOther
        /\ book[i].repl.id < nextId /\ book[i].repl.id \notin DOMAIN book
        /\ fate[book[i].repl.id] = "none" /\ root[book[i].repl.id] = root[i]
        /\ \A k \in DOMAIN book :
              /\ book[k].client # book[i].repl.client /\ book[k].other # book[i].repl.id
              /\ Waits(k) => k = i

(* Between a tick and the next request only the other legs are cancelled. *)
Rests == ~taken => \A i \in DOMAIN book : book[i].state = "Cancelled" => book[i].byOther

(* The legs of a pair of the types that exclude one another: the limit that
   sells above a price, and the stop that sells below one.                   *)
Excludes(o, q) ==
    /\ o.type = "Limit" /\ o.side = "Sell"
    /\ q.type = "StopLossLimit" /\ q.side = "Sell" /\ q.limit < o.price

(* A leg that is open has its other leg beside it. *)
Pairs ==
    \A i \in DOMAIN book : book[i].other # 0 =>
        /\ book[i].other # i
        /\ book[i].other \in DOMAIN book => book[book[i].other].other = i
        /\ book[i].state = "Opened" =>
              /\ book[i].other \in DOMAIN book /\ ~book[book[i].other].byOther
              /\ OcoStops \subseteq {"StopLossLimit"} =>
                    \/ Excludes(book[i], book[book[i].other])
                    \/ Excludes(book[book[i].other], book[i])

(* Something of the order may still be filled. *)
Live(i) == book[i].state = "Opened" \/ Waits(i)

(* Of a family two may be live only as the legs of a pair, and none once one of
   them was filled.                                                         *)
Families ==
    /\ \A i, k \in DOMAIN book :
          root[i] = root[k] /\ i # k /\ Live(i) /\ Live(k) => book[i].other = k
    /\ \A e \in executed, k \in DOMAIN book : root[e] = root[k] => ~Live(k)

(* The inductive invariant.  A thread that has panicked does nothing more, and
   leaves its map and what it has announced as they were.                    *)
AliveInv == Numbered /\ Found /\ AllTold /\ Embeds /\ Rests /\ Pairs /\ Families

IInv ==
    /\ SimulatorTypeOK
    /\ alive => AliveInv
    /\ alive \/ OcoStops \subseteq {"StopLossLimit"} => ExecutedOnce

----------------------------------------------------------------------------
(* Orders *)

(* What is announced, a step further. *)
LEMMA News ==
    /\ Append(<<>>, "Cancelled") = <<"Cancelled">> /\ Append(<<>>, "Fill") = <<"Fill">>
    /\ Append(<<"New">>, "Cancelled") = <<"New", "Cancelled">>
    /\ Append(<<"New">>, "Fill") = <<"New", "Fill">>
    /\ <<"New">> \o <<"Cancelled">> = <<"New", "Cancelled">>
    /\ <<"New">> \o <<"Fill">> = <<"New", "Fill">>
    /\ \A s \in Seq(EventKind) : <<>> \o s = s /\ s \o <<>> = s
<1> DEFINE E == EventKind
<1>1. /\ <<>> \in Seq(E) /\ <<"New">> \in Seq(E) /\ <<"Cancelled">> \in Seq(E) /\ <<"Fill">> \in Seq(E)
      /\ <<"New", "Cancelled">> \in Seq(E) /\ <<"New", "Fill">> \in Seq(E)
  BY DEF EventKind
<1>2. \A s \in Seq(E) : <<>> \o s = s /\ s \o <<>> = s
  BY ConcatEmptySeq
<1>3. ASSUME NEW e \in {"Cancelled", "Fill"}
      PROVE  <<"New">> \o <<e>> = <<"New", e>>
  <2>1. <<"New">> \o <<e>> \in Seq(E) /\ <<"New", e>> \in Seq(E) /\ <<e>> \in Seq(E)
    BY <1>1, ConcatProperties DEF EventKind
  <2>2. /\ Len(<<"New">> \o <<e>>) = 2
        /\ (<<"New">> \o <<e>>)[1] = "New" /\ (<<"New">> \o <<e>>)[2] = e
    BY <1>1, <2>1, ConcatProperties
  <2>3. Len(<<"New", e>>) = 2 /\ <<"New", e>>[1] = "New" /\ <<"New", e>>[2] = e
    OBVIOUS
  <2>4. \A i \in 1..Len(<<"New", e>>) : (<<"New">> \o <<e>>)[i] = <<"New", e>>[i]
    BY <2>2, <2>3
  <2> QED  BY <2>1, <2>2, <2>3, <2>4, SeqEqual
<1>4. ASSUME NEW e \in {"Cancelled", "Fill"}
      PROVE  /\ Append(<<>>, e) = <<e>>
             /\ Append(<<"New">>, e) = <<"New", e>>
  <2>1. e \in E /\ <<e>> \in Seq(E)
    BY DEF EventKind
  <2>2. Append(<<>>, e) = <<>> \o <<e>> /\ Append(<<"New">>, e) = <<"New">> \o <<e>>
    BY <1>1, <2>1, AppendIsConcat
  <2> QED  BY <1>2, <1>3, <2>1, <2>2
<1> QED  BY <1>2, <1>3, <1>4

(* What two orders have in common that differ in what became of them. *)
SameOrder(o, q) ==
    /\ q.client = o.client /\ q.other = o.other /\ q.side = o.side /\ q.type = o.type
    /\ q.price = o.price /\ q.limit = o.limit /\ q.repl = o.repl

(* SimulatorOrder::cancel changes an open order only. *)
LEMMA CancelledIs ==
    ASSUME NEW o \in SimulatorOrder, NEW b \in BOOLEAN
    PROVE  /\ Cancelled(o, b) \in SimulatorOrder
           /\ SameOrder(o, Cancelled(o, b))
           /\ o.state # "Opened" => Cancelled(o, b) = o
           /\ o.state = "Opened" =>
                 /\ Cancelled(o, b).state = "Cancelled" /\ Cancelled(o, b).byOther = b
                 /\ Cancelled(o, b).news = Append(o.news, "Cancelled")
<1>1. o.news \in Seq(EventKind) /\ Append(o.news, "Cancelled") \in Seq(EventKind)
  BY AppendProperties DEF SimulatorOrder, EventKind
<1> QED  BY <1>1 DEF Cancelled, SameOrder, SimulatorOrder

(* SimulatorOrder::compute changes an open order only, and fills it or not. *)
LEMMA ComputedIs ==
    ASSUME NEW o \in SimulatorOrder, NEW p
    PROVE  /\ Computed(o, p) \in SimulatorOrder
           /\ SameOrder(o, Computed(o, p)) /\ Computed(o, p).byOther = o.byOther
           /\ o.state # "Opened" => Computed(o, p) = o
           /\ o.state = "Opened" =>
                 \/ /\ Computed(o, p).state = "Filled" /\ Matches(o, p)
                    /\ Computed(o, p).news = Append(o.news, "Fill")
                 \/ Computed(o, p).state = "Opened" /\ Computed(o, p).news = o.news
<1> DEFINE m == [o EXCEPT !.mode = IF Triggered(o, p) THEN "StopTriggered" ELSE o.mode]
<1>1. Append(o.news, "Fill") \in Seq(EventKind)
  BY AppendProperties DEF SimulatorOrder, EventKind
<1>2. m \in SimulatorOrder /\ SameOrder(o, m) /\ m.byOther = o.byOther /\ m.state = o.state /\ m.news = o.news
  BY DEF SimulatorOrder, SameOrder
<1>3. Computed(o, p) = IF o.state # "Opened" THEN o
                       ELSE IF Matches(o, p)
                       THEN [m EXCEPT !.state = "Filled", !.news = Append(o.news, "Fill")]
                       ELSE m
  BY DEF Computed
<1> HIDE DEF m
<1>4. CASE o.state = "Opened" /\ Matches(o, p)
  BY <1>1, <1>2, <1>3, <1>4, ZenonT(40) DEF SimulatorOrder, SameOrder
<1>5. CASE ~(o.state = "Opened" /\ Matches(o, p))
  BY <1>2, <1>3, <1>5 DEF SameOrder
<1> QED  BY <1>4, <1>5

(* Of two orders that exclude one another a price fills one at most. *)
LEMMA ExcludesMatches ==
    ASSUME NEW o \in SimulatorOrder, NEW q \in SimulatorOrder, Excludes(o, q), NEW p \in Price,
           Matches(o, p)
    PROVE  ~Matches(q, p)
BY DEF Excludes, Matches, SimulatorOrder, Price, SimulatorAssumption

(* A new order is typed. *)
LEMMA NewOrderIs ==
    ASSUME NEW c \in Clients, NEW t \in OrderTypes, NEW s \in {"Buy", "Sell"},
           NEW p \in 0..MaxPrice, NEW l \in 0..MaxPrice, NEW other \in Ids \cup {0}
    PROVE  NewOrder(c, t, s, p, l, other) \in SimulatorOrder
<1>1. <<"New">> \in Seq(EventKind)
  BY DEF EventKind
<1> QED  BY <1>1 DEF NewOrder, SimulatorOrder

(* Nothing has happened at the start. *)
LEMMA InitIInv == Init => IInv
<1> SUFFICES ASSUME Init PROVE IInv
  OBVIOUS
<1>1. book = [i \in {} |-> NoReplacement] /\ DOMAIN book = {} /\ ids = [c \in {} |-> 0] /\ DOMAIN ids = {}
  BY DEF Init
<1>2. book \in [DOMAIN book -> SimulatorOrder] /\ ids \in [DOMAIN ids -> Ids]
  BY <1>1
<1>3. SimulatorTypeOK
  <2>1. MaxId \in Nat /\ MaxPrice \in Nat
    BY SimulatorAssumption
  <2>2. feed \in [Ids -> Seq(EventKind)] /\ fate \in [Ids -> {"none", "Filled", "Cancelled"}]
    BY DEF Init
  <2>3. root \in [Ids -> 0..MaxId] /\ market \in 0..MaxPrice /\ previous \in 0..MaxPrice
    BY <2>1 DEF Init
  <2>4. nextId \in 1..MaxId + 1 /\ DOMAIN book \subseteq Ids
    BY <1>1, <2>1 DEF Init
  <2>5. alive \in BOOLEAN /\ taken \in BOOLEAN
    BY DEF Init
  <2> QED  BY <1>2, <2>2, <2>3, <2>4, <2>5 DEF SimulatorTypeOK
<1>4. executed = {}
  BY DEF Init, executed
<1>5. Numbered /\ Found /\ AllTold /\ Embeds /\ Rests /\ Pairs /\ Families
  BY <1>1, <1>4 DEF Init, Numbered, Found, AllTold, Told, Embeds, Rests, Pairs, Families, Ids
<1> QED  BY <1>3, <1>4, <1>5 DEF IInv, AliveInv, ExecutedOnce
----------------------------------------------------------------------------
(* Requests *)

(* An order of its own: its number and its client's id are new. *)
LEMMA CreateIInv ==
    ASSUME IInv, alive, ~taken, taken' = TRUE, NEW c \in Clients, NEW t \in Types, NEW s \in Sides,
           NEW p \in 0..MaxPrice, NEW l \in 0..MaxPrice, CreateOrder(c, t, s, p, l)
    PROVE  IInv'
<1> DEFINE n == nextId
           o == NewOrder(c, t, s, p, l, 0)
<1>1. SimulatorTypeOK /\ AliveInv /\ ExecutedOnce
  BY DEF IInv
<1>2. /\ n \in Ids /\ n \notin DOMAIN book /\ n \in Nat
      /\ root[n] < n /\ fate[n] = "none"
  BY <1>1, SimulatorAssumption DEF SimulatorTypeOK, AliveInv, Numbered, CreateOrder, Ids
<1>3. o \in SimulatorOrder
  BY NewOrderIs, SimulatorAssumption
<1>4. /\ DOMAIN book' = DOMAIN book \cup {n}
      /\ book'[n] = o
      /\ \A i \in DOMAIN book : book'[i] = book[i]
      /\ book' \in [DOMAIN book' -> SimulatorOrder]
  <2>1. book' = Extend(book, At(n, o))
    BY DEF CreateOrder
  <2>2. book' = [x \in DOMAIN book \cup {n} |-> IF x \in {n} THEN o ELSE book[x]]
    BY <2>1 DEF Extend, At
  <2> QED  BY <1>1, <1>2, <1>3, <2>2 DEF SimulatorTypeOK
<1>5. c \notin {book[i].client : i \in DOMAIN book} /\ \A i \in DOMAIN book : book[i].repl.client # c
  BY DEF CreateOrder, InUse
<1>6. /\ DOMAIN ids' = DOMAIN ids \cup {c}
      /\ ids'[c] = n
      /\ \A x \in DOMAIN ids : x # c => ids'[x] = ids[x]
      /\ ids' \in [DOMAIN ids' -> Ids]
  <2>1. ids' = [x \in DOMAIN ids \cup {c} |-> IF x \in {c} THEN n ELSE ids[x]]
    BY DEF Extend, At, CreateOrder
  <2> QED  BY <1>1, <1>2, <2>1 DEF SimulatorTypeOK
<1>7. /\ nextId' = n + 1 /\ root' = [root EXCEPT ![n] = n]
      /\ UNCHANGED <<market, previous, alive, feed, fate>>
      /\ root'[n] = n /\ \A i \in Ids : i # n => root'[i] = root[i]
      /\ root' \in [Ids -> 0..MaxId]
  BY <1>1, <1>2 DEF CreateOrder, SimulatorTypeOK, Ids
<1>8. SimulatorTypeOK'
  <2>1. DOMAIN book' \subseteq Ids
    BY <1>1, <1>2, <1>4 DEF SimulatorTypeOK
  <2>2. nextId' \in 1..MaxId + 1
    BY <1>2, <1>7, SimulatorAssumption DEF Ids
  <2> QED  BY <1>1, <1>4, <1>6, <1>7, <2>1, <2>2 DEF SimulatorTypeOK
<1>9. Numbered'
  <2>1. \A i \in DOMAIN book' : i < nextId' /\ book'[i].other < nextId'
    <3>1. \A i \in DOMAIN book : i \in Nat /\ book[i].other \in Nat
      BY <1>1 DEF SimulatorTypeOK, SimulatorOrder, Ids
    <3> QED  BY <1>1, <1>2, <1>4, <1>7, <3>1 DEF AliveInv, Numbered, NewOrder
  <2>2. \A i \in Ids : root'[i] < nextId' /\ (fate'[i] # "none" => i < nextId')
    BY <1>1, <1>2, <1>7 DEF SimulatorTypeOK, AliveInv, Numbered, Ids
  <2> QED  BY <2>1, <2>2 DEF Numbered
<1>10. Found'
  BY <1>1, <1>4, <1>5, <1>6 DEF AliveInv, Found, NewOrder
<1>11. AllTold'
  BY <1>1, <1>2, <1>4, <1>7 DEF AliveInv, AllTold, Told, NewOrder
<1>12. Embeds'
  BY <1>1, <1>2, <1>4, <1>5, <1>7 DEF AliveInv, Embeds, Waits, NewOrder
<1>13. Rests'
  BY DEF Rests
<1>14. Pairs'
  BY <1>1, <1>2, <1>4 DEF AliveInv, Pairs, Numbered, NewOrder
<1>15. executed' = executed /\ ExecutedOnce'
  BY <1>1, <1>2, <1>7 DEF executed, ExecutedOnce
<1>16. Families'
  <2>1. \A i \in DOMAIN book : i \in Ids /\ i # n /\ root[i] # n
    BY <1>1, <1>2 DEF SimulatorTypeOK, AliveInv, Numbered, Ids
  <2>2. \A e \in executed : e \in Ids /\ e # n /\ root[e] # n
    BY <1>1, <1>2 DEF executed, SimulatorTypeOK, AliveInv, Numbered, Ids
  <2>3. \A i \in DOMAIN book : Live(i)' = Live(i)
    BY <1>4 DEF Live, Waits
  <2> QED  BY <1>1, <1>4, <1>7, <1>15, <2>1, <2>2, <2>3 DEF AliveInv, Families
<1> QED  BY <1>8, <1>9, <1>10, <1>11, <1>12, <1>13, <1>14, <1>15, <1>16 DEF IInv, AliveInv

(* Two orders of one family that are the other legs of one another. *)
LEMMA CreateOcoIInv ==
    ASSUME IInv, alive, ~taken, taken' = TRUE, NEW c \in Clients, NEW d \in Clients, NEW t \in OcoStops,
           NEW p \in Price, NEW q \in Price, NEW l \in 0..MaxPrice,
           q < p, t = "StopLossLimit" => l <= q,
           CreateOcoOrder(c, d, "Sell", p, t, q, l)
    PROVE  IInv'
<1> DEFINE n == nextId
           m == nextId + 1
           o == NewOrder(c, "Limit", "Sell", p, 0, m)
           r == NewOrder(d, t, "Sell", q, l, n)
<1>1. SimulatorTypeOK /\ AliveInv /\ ExecutedOnce
  BY DEF IInv
<1>2. /\ n \in Ids /\ n \notin DOMAIN book /\ n \in Nat /\ n # 0
      /\ m \in Ids /\ m \notin DOMAIN book /\ m \in Nat /\ m # 0 /\ m = n + 1
      /\ root[n] < n /\ fate[n] = "none" /\ root[m] < n /\ fate[m] = "none"
  BY <1>1, SimulatorAssumption DEF SimulatorTypeOK, AliveInv, Numbered, CreateOcoOrder, Ids
<1>3. o \in SimulatorOrder /\ r \in SimulatorOrder
  <2>1. p \in 0..MaxPrice /\ q \in 0..MaxPrice /\ 0 \in 0..MaxPrice /\ t \in OrderTypes
        /\ "Limit" \in OrderTypes
    BY SimulatorAssumption DEF Price, OrderTypes
  <2> QED  BY <1>2, <2>1, NewOrderIs
<1>4. /\ DOMAIN book' = DOMAIN book \cup {n, m}
      /\ book'[n] = o /\ book'[m] = r
      /\ \A i \in DOMAIN book : book'[i] = book[i]
      /\ book' \in [DOMAIN book' -> SimulatorOrder]
  <2>1. book' = Extend(book, Extend(At(n, o), At(m, r)))
    BY DEF CreateOcoOrder
  <2>2. Extend(At(n, o), At(m, r)) = [x \in {n, m} |-> IF x = m THEN r ELSE o]
    BY DEF Extend, At
  <2>3. book' = [x \in DOMAIN book \cup {n, m} |->
                    IF x \in {n, m} THEN (IF x = m THEN r ELSE o) ELSE book[x]]
    BY <2>1, <2>2 DEF Extend
  <2> QED  BY <1>1, <1>2, <1>3, <2>3 DEF SimulatorTypeOK
<1>5. /\ {c, d} \cap {book[i].client : i \in DOMAIN book} = {} /\ c # d
      /\ \A i \in DOMAIN book : book[i].repl.client \notin {c, d}
  BY DEF CreateOcoOrder, InUse
<1>6. /\ DOMAIN ids' = DOMAIN ids \cup {c, d}
      /\ ids'[c] = n /\ ids'[d] = m
      /\ \A x \in DOMAIN ids : x \notin {c, d} => ids'[x] = ids[x]
      /\ ids' \in [DOMAIN ids' -> Ids]
  <2>1. ids' = Extend(ids, Extend(At(c, n), At(d, m)))
    BY DEF CreateOcoOrder
  <2>2. Extend(At(c, n), At(d, m)) = [x \in {c, d} |-> IF x = d THEN m ELSE n]
    BY DEF Extend, At
  <2>3. ids' = [x \in DOMAIN ids \cup {c, d} |->
                   IF x \in {c, d} THEN (IF x = d THEN m ELSE n) ELSE ids[x]]
    BY <2>1, <2>2 DEF Extend
  <2> QED  BY <1>1, <1>2, <1>5, <2>3 DEF SimulatorTypeOK
<1>7. /\ nextId' = n + 2
      /\ UNCHANGED <<market, previous, alive, feed, fate>>
      /\ root'[n] = n /\ root'[m] = n
      /\ \A i \in Ids : i \notin {n, m} => root'[i] = root[i]
      /\ root' \in [Ids -> 0..MaxId]
  <2>1. /\ nextId' = n + 2 /\ root' = [root EXCEPT ![n] = n, ![m] = n]
        /\ UNCHANGED <<market, previous, alive, feed, fate>>
    BY DEF CreateOcoOrder
  <2>2. root \in [Ids -> 0..MaxId] /\ n \in 0..MaxId
    BY <1>1, <1>2 DEF SimulatorTypeOK, Ids
  <2> QED  BY <1>2, <2>1, <2>2
<1>8. SimulatorTypeOK'
  <2>1. DOMAIN book' \subseteq Ids
    BY <1>1, <1>2, <1>4 DEF SimulatorTypeOK
  <2>2. nextId' \in 1..MaxId + 1
    BY <1>2, <1>7, SimulatorAssumption DEF Ids
  <2> QED  BY <1>1, <1>4, <1>6, <1>7, <2>1, <2>2 DEF SimulatorTypeOK
<1>9. Numbered'
  <2>1. \A i \in DOMAIN book' : i < nextId' /\ book'[i].other < nextId'
    <3>1. \A i \in DOMAIN book : i \in Nat /\ book[i].other \in Nat
      BY <1>1 DEF SimulatorTypeOK, SimulatorOrder, Ids
    <3> QED  BY <1>1, <1>2, <1>4, <1>7, <3>1 DEF AliveInv, Numbered, NewOrder
  <2>2. \A i \in Ids : root'[i] < nextId' /\ (fate'[i] # "none" => i < nextId')
    <3>1. \A i \in Ids : root[i] \in Nat /\ i \in Nat
      BY <1>1 DEF SimulatorTypeOK, Ids
    <3>2. \A i \in Ids : root[i] < n /\ (fate[i] # "none" => i < n)
      BY <1>1 DEF AliveInv, Numbered
    <3> QED  BY <1>2, <1>7, <3>1, <3>2
  <2> QED  BY <2>1, <2>2 DEF Numbered
<1>10. Found'
  BY <1>1, <1>4, <1>5, <1>6 DEF AliveInv, Found, NewOrder
<1>11. AllTold'
  BY <1>1, <1>2, <1>4, <1>7 DEF AliveInv, AllTold, Told, NewOrder
<1>12. Embeds'
  <2>1. \A i \in DOMAIN book : ~Waits(i)
    BY <1>1 DEF AliveInv, Embeds
  <2> QED  BY <1>4, <2>1 DEF Embeds, Waits, NewOrder
<1>13. Rests'
  BY DEF Rests
<1>14. Pairs'
  <2>1. ASSUME NEW i \in DOMAIN book PROVE book[i].other \notin {n, m} /\ i \notin {n, m}
    BY <1>1, <1>2 DEF AliveInv, Numbered, SimulatorTypeOK, SimulatorOrder, Ids
  <2>2. OcoStops \subseteq {"StopLossLimit"} => Excludes(o, r)
    BY DEF Excludes, NewOrder, Price
  <2> QED  BY <1>1, <1>2, <1>4, <2>1, <2>2 DEF AliveInv, Pairs, NewOrder, Excludes
<1>15. executed' = executed /\ ExecutedOnce'
  BY <1>1, <1>2, <1>7 DEF executed, ExecutedOnce
<1>16. Families'
  <2>1. \A i \in DOMAIN book : i \in Ids /\ i # n /\ i # m /\ root[i] # n
    BY <1>1, <1>2 DEF SimulatorTypeOK, AliveInv, Numbered, Ids
  <2>2. \A e \in executed : e \in Ids /\ e # n /\ e # m /\ root[e] # n
    BY <1>1, <1>2 DEF executed, SimulatorTypeOK, AliveInv, Numbered, Ids
  <2>3. \A i \in DOMAIN book : Live(i)' = Live(i)
    BY <1>4 DEF Live, Waits
  <2> QED  BY <1>1, <1>4, <1>7, <1>15, <2>1, <2>2, <2>3 DEF AliveInv, Families, NewOrder
<1> QED  BY <1>8, <1>9, <1>10, <1>11, <1>12, <1>13, <1>14, <1>15, <1>16 DEF IInv, AliveInv

(* A cancellation changes the order it is for, and this one is cancelled by its
   client.                                                                  *)
LEMMA CancelIInv ==
    ASSUME IInv, alive, ~taken, taken' = TRUE, NEW c \in Clients, CancelOrder(c)
    PROVE  IInv'
<1> DEFINE n == ids[c]
           o == Cancelled(book[n], FALSE)
<1>1. SimulatorTypeOK /\ AliveInv /\ ExecutedOnce
  BY DEF IInv
<1>2. n \in DOMAIN book /\ book[n] \in SimulatorOrder /\ \A i \in DOMAIN book : book[i] \in SimulatorOrder
  BY <1>1 DEF CancelOrder, SimulatorTypeOK
<1>3. /\ o \in SimulatorOrder /\ SameOrder(book[n], o)
      /\ book[n].state # "Opened" => o = book[n]
      /\ book[n].state = "Opened" =>
            o.state = "Cancelled" /\ o.byOther = FALSE /\ o.news = Append(book[n].news, "Cancelled")
  BY <1>2, CancelledIs
<1>4. /\ DOMAIN book' = DOMAIN book /\ book'[n] = o
      /\ \A i \in DOMAIN book : i # n => book'[i] = book[i]
      /\ book' \in [DOMAIN book' -> SimulatorOrder]
      /\ UNCHANGED <<ids, market, previous, alive, nextId, feed, fate, root>>
  BY <1>1, <1>2, <1>3 DEF CancelOrder, SimulatorTypeOK
<1>5. \A i \in DOMAIN book : SameOrder(book[i], book'[i])
  BY <1>3, <1>4 DEF SameOrder
<1> HIDE DEF o, n
<1>6. SimulatorTypeOK'
  BY <1>1, <1>4 DEF SimulatorTypeOK
<1>7. Numbered' /\ Found'
  BY <1>1, <1>4, <1>5 DEF AliveInv, Numbered, Found, SameOrder
<1>8. \A i \in DOMAIN book : ~Waits(i) /\ ~Waits(i)'
  BY <1>1, <1>4, <1>5 DEF AliveInv, Embeds, Waits, SameOrder
<1>9. AllTold'
  BY <1>1, <1>2, <1>3, <1>4, News, ZenonT(40) DEF AliveInv, AllTold, Told
<1>10. Embeds' /\ Rests'
  BY <1>4, <1>8 DEF Embeds, Rests
<1>11. Pairs'
  <2>1. \A i \in DOMAIN book : book'[i].state = "Opened" => book[i].state = "Opened"
    BY <1>3, <1>4
  <2>2. \A i \in DOMAIN book : ~book[i].byOther => ~book'[i].byOther
    BY <1>3, <1>4
  <2>3. ASSUME NEW i \in DOMAIN book, NEW k \in DOMAIN book, Excludes(book[i], book[k])
        PROVE  Excludes(book'[i], book'[k])
    BY <1>5, <2>3 DEF Excludes, SameOrder
  <2> QED  BY <1>1, <1>4, <1>5, <2>1, <2>2, <2>3 DEF AliveInv, Pairs, SameOrder
<1>12. executed' = executed /\ ExecutedOnce'
  BY <1>1, <1>4 DEF executed, ExecutedOnce
<1>13. Families'
  <2>1. \A i \in DOMAIN book : Live(i)' => Live(i)
    BY <1>3, <1>4, <1>8 DEF Live
  <2> QED  BY <1>1, <1>4, <1>5, <1>12, <2>1 DEF AliveInv, Families, SameOrder
<1> QED  BY <1>6, <1>7, <1>9, <1>10, <1>11, <1>12, <1>13 DEF IInv, AliveInv

(* The order that is to be replaced is cancelled, and holds its replacement. *)
LEMMA CancelReplaceIInv ==
    ASSUME IInv, alive, ~taken, taken' = TRUE, NEW c \in Clients, NEW d \in Clients, NEW t \in Types,
           NEW p \in Price, NEW l \in 0..MaxPrice, CancelReplaceOrder(c, d, t, p, l)
    PROVE  IInv'
<1>0. PICK n, k : n = nextId /\ k = ids[c]
  OBVIOUS
<1> DEFINE repl == [id |-> n, client |-> d, type |-> t, price |-> p, limit |-> l]
           o == Cancelled(Embedded(book[k], d, t, p, l), FALSE)
<1>1. SimulatorTypeOK /\ AliveInv /\ ExecutedOnce
  BY DEF IInv
<1>2. /\ k \in DOMAIN book /\ book[k].state = "Opened" /\ book[k] \in SimulatorOrder /\ k \in Ids
      /\ n \in Ids /\ n \notin DOMAIN book /\ n \in Nat /\ n # 0
      /\ root[n] < n /\ fate[n] = "none"
      /\ \A i \in DOMAIN book : book[i] \in SimulatorOrder /\ i \in Ids
  BY <1>0, <1>1, SimulatorAssumption
  DEF CancelReplaceOrder, SimulatorTypeOK, AliveInv, Numbered, Ids
<1>3. /\ o \in SimulatorOrder /\ o.repl = repl /\ repl # NoReplacement
      /\ o.client = book[k].client /\ o.other = book[k].other /\ o.state = "Cancelled"
      /\ o.byOther = FALSE /\ o.news = Append(book[k].news, "Cancelled")
  <2> DEFINE e == [book[k] EXCEPT !.repl = repl]
  <2>1. repl \in Replacement /\ repl # NoReplacement
    BY <1>2, SimulatorAssumption DEF Replacement, NoReplacement
  <2>2. /\ e \in SimulatorOrder /\ e.repl = repl /\ e.client = book[k].client
        /\ e.other = book[k].other /\ e.state = "Opened" /\ e.news = book[k].news
    <3> HIDE DEF repl
    <3> QED  BY <1>2, <2>1 DEF SimulatorOrder
  <2>3. o = Cancelled(e, FALSE)
    BY <1>0 DEF Embedded
  <2> HIDE DEF e, o, repl
  <2>4. FALSE \in BOOLEAN
    OBVIOUS
  <2>5. /\ Cancelled(e, FALSE) \in SimulatorOrder /\ SameOrder(e, Cancelled(e, FALSE))
        /\ Cancelled(e, FALSE).state = "Cancelled" /\ Cancelled(e, FALSE).byOther = FALSE
        /\ Cancelled(e, FALSE).news = Append(e.news, "Cancelled")
    BY <2>2, <2>4, CancelledIs
  <2> QED  BY <2>1, <2>2, <2>3, <2>5 DEF SameOrder
<1>4. /\ DOMAIN book' = DOMAIN book /\ book'[k] = o
      /\ \A i \in DOMAIN book : i # k => book'[i] = book[i]
      /\ book' \in [DOMAIN book' -> SimulatorOrder]
  BY <1>0, <1>1, <1>2, <1>3 DEF CancelReplaceOrder, SimulatorTypeOK
<1>5. /\ d \notin {book[i].client : i \in DOMAIN book}
      /\ UNCHANGED <<ids, market, previous, alive, feed, fate>>
      /\ nextId' = n + 1
      /\ root'[n] = root[k] /\ \A i \in Ids : i # n => root'[i] = root[i]
      /\ root' \in [Ids -> 0..MaxId]
  BY <1>0, <1>1, <1>2 DEF CancelReplaceOrder, InUse, SimulatorTypeOK
<1>6. repl.id = n /\ repl.client = d
  OBVIOUS
<1> HIDE DEF o, repl
<1>7. SimulatorTypeOK'
  <2>1. nextId' \in 1..MaxId + 1
    BY <1>0, <1>2, <1>5, SimulatorAssumption DEF Ids
  <2> QED  BY <1>1, <1>4, <1>5, <2>1 DEF SimulatorTypeOK
<1>8. \A i \in DOMAIN book : book'[i].client = book[i].client /\ book'[i].other = book[i].other
  BY <1>3, <1>4
<1>9. Numbered'
  <2>1. \A i \in DOMAIN book' : i < nextId' /\ book'[i].other < nextId'
    <3>1. \A i \in DOMAIN book : i \in Nat /\ book[i].other \in Nat
      BY <1>1 DEF SimulatorTypeOK, SimulatorOrder, Ids
    <3> QED  BY <1>0, <1>1, <1>2, <1>4, <1>5, <1>8, <3>1 DEF AliveInv, Numbered
  <2>2. \A i \in Ids : root'[i] < nextId' /\ (fate'[i] # "none" => i < nextId')
    <3>1. \A i \in Ids : root[i] \in Nat /\ i \in Nat
      BY <1>1 DEF SimulatorTypeOK, Ids
    <3>2. \A i \in Ids : root[i] < n /\ (fate[i] # "none" => i < n)
      BY <1>0, <1>1 DEF AliveInv, Numbered
    <3> QED  BY <1>0, <1>2, <1>5, <3>1, <3>2
  <2> QED  BY <2>1, <2>2 DEF Numbered
<1>10. Found'
  BY <1>1, <1>4, <1>5, <1>8 DEF AliveInv, Found
<1>11. AllTold'
  <2>1. Told(k)'
    <3>1. Told(k) /\ fate[k] = "none"
      BY <1>1, <1>2 DEF AliveInv, AllTold
    <3> QED  BY <1>2, <1>3, <1>4, <1>5, <3>1, News DEF Told
  <2>2. ASSUME NEW i \in Ids, i # k PROVE Told(i)'
    <3>1. Told(i)
      BY <1>1 DEF AliveInv, AllTold
    <3> QED  BY <1>4, <1>5, <2>2, <3>1 DEF Told
  <2> QED  BY <1>1, <1>4, <1>5, <2>1, <2>2 DEF AliveInv, AllTold
<1>12. \A i \in DOMAIN book : ~Waits(i) /\ (Waits(i)' <=> i = k)
  BY <1>1, <1>2, <1>3, <1>4 DEF AliveInv, Embeds, Waits
<1>13. Embeds'
  <2>1. \A i \in DOMAIN book : book'[i].other # n
    <3>1. \A i \in DOMAIN book : book[i].other < n
      BY <1>0, <1>1 DEF AliveInv, Numbered
    <3> QED  BY <1>2, <1>8, <3>1
  <2> QED  BY <1>0, <1>2, <1>3, <1>4, <1>5, <1>6, <1>8, <1>12, <2>1 DEF Embeds
<1>14. Rests'
  BY DEF Rests
<1>15. Pairs'
  <2>1. \A i \in DOMAIN book : book'[i].state = "Opened" => book[i].state = "Opened" /\ i # k
    BY <1>3, <1>4
  <2>2. \A i \in DOMAIN book : ~book[i].byOther => ~book'[i].byOther
    BY <1>3, <1>4
  <2>3. ASSUME NEW i \in DOMAIN book, NEW j \in DOMAIN book, Excludes(book[i], book[j])
        PROVE  Excludes(book'[i], book'[j])
    <3>1. /\ o.type = book[k].type /\ o.side = book[k].side
          /\ o.price = book[k].price /\ o.limit = book[k].limit
      BY <1>2 DEF o, Cancelled, Embedded, SimulatorOrder
    <3> QED  BY <1>4, <2>3, <3>1 DEF Excludes
  <2> QED  BY <1>1, <1>4, <1>8, <2>1, <2>2, <2>3 DEF AliveInv, Pairs
<1>16. executed' = executed /\ ExecutedOnce'
  BY <1>1, <1>2, <1>5 DEF executed, ExecutedOnce
<1>17. Families'
  <2>1. \A i \in DOMAIN book : Live(i)' => Live(i)
    BY <1>2, <1>3, <1>4, <1>12 DEF Live
  <2>2. \A i \in DOMAIN book : root'[i] = root[i]
    BY <1>2, <1>5
  <2>3. \A e \in executed : root'[e] = root[e]
    BY <1>2, <1>5 DEF executed
  <2> QED  BY <1>1, <1>4, <1>8, <1>16, <2>1, <2>2, <2>3 DEF AliveInv, Families
<1> QED
  BY <1>7, <1>9, <1>10, <1>11, <1>13, <1>14, <1>15, <1>16, <1>17 DEF IInv, AliveInv

(* Whatever is asked of the simulator. *)
LEMMA RequestIInv == ASSUME IInv, Request PROVE IInv'
<1>1. ~taken /\ taken' = TRUE
  BY DEF Request
<1>2. \A t \in OrderTypes : LimitPrices(t) \subseteq 0..MaxPrice
  BY SimulatorAssumption DEF LimitPrices, Price
<1>3. ASSUME NEW c \in Clients, NEW t \in Types, NEW s \in Sides,
             NEW p \in IF t = "Market" THEN {0} ELSE Price, NEW l \in LimitPrices(t),
             CreateOrder(c, t, s, p, l)
      PROVE  IInv'
  <2>1. p \in 0..MaxPrice /\ l \in 0..MaxPrice /\ alive
    BY <1>2, <1>3, SimulatorAssumption DEF Price, CreateOrder
  <2> QED  BY <1>1, <1>3, <2>1, CreateIInv
<1>4. ASSUME NEW c \in Clients, CancelOrder(c) PROVE IInv'
  BY <1>1, <1>4, CancelIInv DEF CancelOrder
<1>5. ASSUME NEW c \in Clients, NEW n \in Clients, NEW t \in Types, NEW p \in Price, NEW l \in LimitPrices(t),
             CancelReplaceOrder(c, n, t, p, l)
      PROVE  IInv'
  <2>1. l \in 0..MaxPrice /\ alive
    BY <1>2, <1>5, SimulatorAssumption DEF CancelReplaceOrder
  <2> QED  BY <1>1, <1>5, <2>1, CancelReplaceIInv
<1>6. ASSUME NEW c \in Clients, NEW n \in Clients, NEW t \in OcoStops, NEW p \in Price, NEW q \in Price,
             NEW l \in IF t = "StopLossLimit" THEN 1..q ELSE {0},
             q < p, CreateOcoOrder(c, n, "Sell", p, t, q, l)
      PROVE  IInv'
  <2>1. l \in 0..MaxPrice /\ alive /\ (t = "StopLossLimit" => l <= q)
    BY <1>6, SimulatorAssumption DEF Price, CreateOcoOrder
  <2> QED  BY <1>1, <1>6, <2>1, CreateOcoIInv
<1> QED  BY <1>3, <1>4, <1>5, <1>6 DEF Request
----------------------------------------------------------------------------
(* A tick *)

(* The orders that leave the book, those that stay, and the legs that go with
   what left by itself.                                                     *)
Leaves(i, p) == Computed(book[i], p).state # "Opened"
Left(p)      == {i \in DOMAIN book : Leaves(i, p)}
OtherLegs(p) == {book[i].other : i \in {x \in Left(p) : ~book[x].byOther}} \ {0}
Stays(i, p)  == [Computed(book[i], p) EXCEPT !.news = <<>>]
Replaced     == {i \in DOMAIN book : Waits(i)}

(* What a tick makes of every order, without the sets it goes through. *)
TickEffect(p) ==
    /\ taken' = FALSE /\ market' = p /\ UNCHANGED <<nextId, root>>
    /\ alive' = (OtherLegs(p) \subseteq DOMAIN book \ Left(p))
    /\ DOMAIN book' = (DOMAIN book \ Left(p)) \cup {book[i].repl.id : i \in Replaced}
    /\ book' \in [DOMAIN book' -> SimulatorOrder]
    /\ \A i \in DOMAIN book \ Left(p) :
          book'[i] = IF i \in OtherLegs(p) THEN Cancelled(Stays(i, p), TRUE) ELSE Stays(i, p)
    /\ \A i \in Replaced :
          book'[book[i].repl.id] =
              NewOrder(book[i].repl.client, book[i].repl.type, book[i].side,
                       book[i].repl.price, book[i].repl.limit, 0)
    /\ fate' = [i \in Ids |-> IF i \in Left(p) THEN Computed(book[i], p).state ELSE fate[i]]
    /\ IF alive'
       THEN /\ DOMAIN ids' = (DOMAIN ids \cup {book[i].repl.client : i \in Replaced})
                                \ {book[i].client : i \in Left(p)}
            /\ \A i \in Replaced : book[i].repl.client \in DOMAIN ids'
                                     => ids'[book[i].repl.client] = book[i].repl.id
            /\ \A c \in DOMAIN ids' \cap DOMAIN ids : ids'[c] = ids[c]
            /\ ids' \in [DOMAIN ids' -> Ids]
            /\ feed' = [i \in Ids |-> IF i \in DOMAIN book THEN feed[i] \o Computed(book[i], p).news
                                      ELSE feed[i]]
            /\ previous' = p
       ELSE ids' \in [DOMAIN ids' -> Ids] /\ UNCHANGED <<feed, previous>>

(* Tick has that effect: the CHOOSEs in it find the one order replaced. *)
LEMMA TickHas ==
    ASSUME SimulatorTypeOK, AliveInv, NEW p \in Price, Tick(p)
    PROVE  TickEffect(p)
<1> DEFINE now      == [i \in DOMAIN book |-> Computed(book[i], p)]
           ended    == {i \in DOMAIN now : now[i].state # "Opened"}
           kept     == [i \in DOMAIN now \ ended |-> [now[i] EXCEPT !.news = <<>>]]
           replaced == {i \in ended : Replaces(now[i])}
           fresh    == [j \in {now[i].repl.id : i \in replaced} |->
                           Opened(now[CHOOSE i \in replaced : now[i].repl.id = j])]
           freshIds == [c \in {now[i].repl.client : i \in replaced} |->
                           now[CHOOSE i \in replaced : now[i].repl.client = c].repl.id]
           others   == {now[i].other : i \in {x \in ended : ~now[x].byOther}} \ {0}
           opened   == Extend(kept, fresh)
<1>1. /\ alive /\ taken' = FALSE /\ market' = p /\ UNCHANGED <<nextId, root>>
      /\ alive' = (others \subseteq DOMAIN kept)
      /\ fate' = [i \in Ids |-> IF i \in ended THEN now[i].state ELSE fate[i]]
      /\ book' = [i \in DOMAIN opened |->
                    IF i \in others THEN Cancelled(opened[i], TRUE) ELSE opened[i]]
      /\ IF others \subseteq DOMAIN kept
         THEN /\ ids' = Without(Extend(ids, freshIds), {now[i].client : i \in ended})
              /\ feed' = [i \in Ids |-> IF i \in DOMAIN now THEN feed[i] \o now[i].news ELSE feed[i]]
              /\ previous' = p
         ELSE /\ ids' = Extend(ids, freshIds)
              /\ UNCHANGED <<feed, previous>>
  BY DEF Tick
<1>2. \A i \in DOMAIN book : book[i] \in SimulatorOrder /\ i \in Ids
  BY DEF SimulatorTypeOK
<1>3. ASSUME NEW i \in DOMAIN book
      PROVE  /\ now[i] = Computed(book[i], p) /\ now[i] \in SimulatorOrder
             /\ SameOrder(book[i], now[i]) /\ now[i].byOther = book[i].byOther
             /\ book[i].state # "Opened" => now[i] = book[i]
             /\ Replaces(now[i]) <=> Waits(i)
  <2>1. now[i] = Computed(book[i], p)
    OBVIOUS
  <2> HIDE DEF now
  <2>2. /\ now[i] \in SimulatorOrder
        /\ SameOrder(book[i], now[i]) /\ now[i].byOther = book[i].byOther
        /\ book[i].state # "Opened" => now[i] = book[i]
    BY <1>2, <2>1, ComputedIs
  <2>3. Waits(i) => book[i].state = "Cancelled"
    BY DEF AliveInv, Embeds
  <2> QED  BY <2>1, <2>2, <2>3 DEF Replaces, Waits, SameOrder
<1>4. DOMAIN now = DOMAIN book /\ ended = Left(p) /\ replaced = Replaced
  <2>1. DOMAIN now = DOMAIN book
    OBVIOUS
  <2>2. ended = Left(p)
    BY <1>3 DEF Left, Leaves
  <2>3. \A i \in DOMAIN book : Waits(i) => i \in ended
    BY <1>3 DEF AliveInv, Embeds
  <2> HIDE DEF now, ended
  <2> QED  BY <1>3, <2>1, <2>2, <2>3 DEF Replaced, Left
<1>5. others = OtherLegs(p)
  <2>1. \A i \in DOMAIN book : now[i].other = book[i].other
    BY <1>3 DEF SameOrder
  <2> HIDE DEF now, ended
  <2> QED  BY <1>3, <1>4, <2>1 DEF OtherLegs, Left
<1>6. /\ DOMAIN kept = DOMAIN book \ Left(p)
      /\ \A i \in DOMAIN kept : kept[i] = Stays(i, p) /\ kept[i] \in SimulatorOrder
  <2>1. DOMAIN kept = DOMAIN book \ Left(p)
    BY <1>4
  <2>2. ASSUME NEW i \in DOMAIN kept PROVE kept[i] = Stays(i, p) /\ kept[i] \in SimulatorOrder
    <3>1. kept[i] = [now[i] EXCEPT !.news = <<>>] /\ i \in DOMAIN book
      BY <2>1, <2>2
    <3> HIDE DEF now, kept
    <3>2. kept[i] = Stays(i, p)
      BY <1>3, <3>1 DEF Stays
    <3>3. <<>> \in Seq(EventKind)
      OBVIOUS
    <3>4. kept[i] \in SimulatorOrder
      BY <1>3, <3>1, <3>3 DEF SimulatorOrder
    <3> QED  BY <3>2, <3>4
  <2> QED  BY <2>1, <2>2
<1>7. ASSUME NEW i \in Replaced
      PROVE  /\ book[i].repl \in Replacement /\ now[i] = book[i] /\ i \in DOMAIN book
             /\ book[i].repl.id \in Ids \ DOMAIN book /\ book[i].repl.id \notin OtherLegs(p)
             /\ Replaced = {i}
  <2>1. i \in DOMAIN book /\ book[i].state = "Cancelled" /\ Waits(i)
    BY DEF Replaced, AliveInv, Embeds
  <2>2. book[i].repl \in Replacement
    BY <1>2, <2>1 DEF Waits, SimulatorOrder
  <2>3. book[i].repl.id \in Ids
    BY <2>2 DEF Replacement
  <2>4. /\ book[i].repl.id \notin DOMAIN book
        /\ \A k \in DOMAIN book : book[k].other # book[i].repl.id /\ (Waits(k) => k = i)
    BY <2>1 DEF AliveInv, Embeds
  <2> QED  BY <1>3, <2>1, <2>2, <2>3, <2>4 DEF Replaced, OtherLegs, Left
<1>8. /\ DOMAIN fresh = {book[i].repl.id : i \in Replaced}
      /\ \A i \in Replaced :
            /\ fresh[book[i].repl.id] =
                  NewOrder(book[i].repl.client, book[i].repl.type, book[i].side,
                           book[i].repl.price, book[i].repl.limit, 0)
            /\ fresh[book[i].repl.id] \in SimulatorOrder
  <2>1. DOMAIN fresh = {book[i].repl.id : i \in Replaced}
    <3> HIDE DEF now, replaced
    <3> QED  BY <1>4, <1>7
  <2>2. ASSUME NEW i \in Replaced
        PROVE  fresh[book[i].repl.id] = Opened(now[i])
    <3>1. replaced = {i} /\ now[i].repl.id = book[i].repl.id
      BY <1>4, <1>7
    <3> HIDE DEF now, replaced
    <3>2. (CHOOSE x \in replaced : now[x].repl.id = book[i].repl.id) = i
      BY <3>1
    <3>3. book[i].repl.id \in {now[x].repl.id : x \in replaced}
      BY <3>1
    <3> QED  BY <3>2, <3>3
  <2>3. ASSUME NEW i \in Replaced
        PROVE  Opened(now[i]) = NewOrder(book[i].repl.client, book[i].repl.type, book[i].side,
                                         book[i].repl.price, book[i].repl.limit, 0)
    <3>1. now[i] = book[i]
      BY <1>7
    <3> HIDE DEF now
    <3> QED  BY <3>1 DEF Opened
  <2>4. ASSUME NEW i \in Replaced
        PROVE  NewOrder(book[i].repl.client, book[i].repl.type, book[i].side,
                        book[i].repl.price, book[i].repl.limit, 0) \in SimulatorOrder
    <3>1. /\ book[i].repl.client \in Clients /\ book[i].repl.type \in OrderTypes
          /\ book[i].repl.price \in 0..MaxPrice /\ book[i].repl.limit \in 0..MaxPrice
      <4>1. book[i].repl \in Replacement
        BY <1>7
      <4>2. Price \subseteq 0..MaxPrice
        BY SimulatorAssumption DEF Price
      <4> QED  BY <4>1, <4>2 DEF Replacement
    <3>2. book[i].side \in {"Buy", "Sell"}
      BY <1>2, <1>7 DEF SimulatorOrder
    <3> QED  BY <3>1, <3>2, NewOrderIs
  <2> HIDE DEF fresh, now
  <2> QED  BY <2>1, <2>2, <2>3, <2>4
<1>9. /\ DOMAIN freshIds = {book[i].repl.client : i \in Replaced}
      /\ \A i \in Replaced : freshIds[book[i].repl.client] = book[i].repl.id
  <2>1. DOMAIN freshIds = {book[i].repl.client : i \in Replaced}
    <3> HIDE DEF now, replaced
    <3> QED  BY <1>4, <1>7
  <2>2. ASSUME NEW i \in Replaced
        PROVE  freshIds[book[i].repl.client] = book[i].repl.id
    <3>1. replaced = {i} /\ now[i].repl = book[i].repl
      BY <1>4, <1>7
    <3> HIDE DEF now, replaced
    <3>2. (CHOOSE x \in replaced : now[x].repl.client = book[i].repl.client) = i
      BY <3>1
    <3>3. book[i].repl.client \in {now[x].repl.client : x \in replaced}
      BY <3>1
    <3> QED  BY <3>1, <3>2, <3>3
  <2> QED  BY <2>1, <2>2
<1> HIDE DEF kept, fresh, freshIds, others, replaced
<1>10. /\ DOMAIN opened = (DOMAIN book \ Left(p)) \cup {book[i].repl.id : i \in Replaced}
       /\ \A i \in DOMAIN book \ Left(p) : opened[i] = Stays(i, p)
       /\ \A i \in Replaced : opened[book[i].repl.id] = fresh[book[i].repl.id]
       /\ \A i \in DOMAIN opened : opened[i] \in SimulatorOrder
  <2>1. /\ DOMAIN opened = DOMAIN kept \cup DOMAIN fresh
        /\ \A i \in DOMAIN fresh : opened[i] = fresh[i]
        /\ \A i \in DOMAIN kept \ DOMAIN fresh : opened[i] = kept[i]
    BY DEF Extend
  <2> HIDE DEF opened
  <2>2. DOMAIN fresh \cap DOMAIN book = {}
    <3>1. \A i \in Replaced : book[i].repl.id \notin DOMAIN book
      BY <1>7
    <3> QED  BY <1>8, <3>1
  <2>3. \A i \in DOMAIN fresh : fresh[i] \in SimulatorOrder
    BY <1>8
  <2>4. \A i \in Replaced : book[i].repl.id \in DOMAIN fresh
    BY <1>8
  <2> QED  BY <1>6, <1>8, <2>1, <2>2, <2>3, <2>4
<1> HIDE DEF opened
<1>11. /\ DOMAIN book' = DOMAIN opened
       /\ book' \in [DOMAIN book' -> SimulatorOrder]
       /\ \A i \in DOMAIN opened :
             book'[i] = IF i \in OtherLegs(p) THEN Cancelled(opened[i], TRUE) ELSE opened[i]
  <2>1. \A i \in DOMAIN opened : Cancelled(opened[i], TRUE) \in SimulatorOrder
    BY <1>10, CancelledIs
  <2> QED  BY <1>1, <1>5, <1>10, <2>1
<1>12. \A i \in Replaced : book'[book[i].repl.id] =
              NewOrder(book[i].repl.client, book[i].repl.type, book[i].side,
                       book[i].repl.price, book[i].repl.limit, 0)
  <2> SUFFICES ASSUME NEW i \in Replaced
               PROVE  book'[book[i].repl.id] = fresh[book[i].repl.id]
    BY <1>8
  <2>1. book[i].repl.id \notin OtherLegs(p)
    BY <1>7
  <2>2. book[i].repl.id \in DOMAIN opened /\ opened[book[i].repl.id] = fresh[book[i].repl.id]
    BY <1>10
  <2>3. PICK j : j = book[i].repl.id
    OBVIOUS
  <2>4. book'[j] = opened[j]
    BY <1>11, <2>1, <2>2, <2>3
  <2> QED  BY <2>2, <2>3, <2>4
<1>13. /\ DOMAIN Extend(ids, freshIds) = DOMAIN ids \cup {book[i].repl.client : i \in Replaced}
       /\ \A i \in Replaced : Extend(ids, freshIds)[book[i].repl.client] = book[i].repl.id
       /\ \A c \in DOMAIN ids : Extend(ids, freshIds)[c] = ids[c]
       /\ Extend(ids, freshIds) \in [DOMAIN Extend(ids, freshIds) -> Ids]
  <2>1. \A i \in Replaced : book[i].repl.client \notin DOMAIN ids
    BY <1>7 DEF AliveInv, Embeds, Found, Replaced
  <2>2. /\ DOMAIN Extend(ids, freshIds) = DOMAIN ids \cup {book[i].repl.client : i \in Replaced}
        /\ \A i \in Replaced : Extend(ids, freshIds)[book[i].repl.client] = book[i].repl.id
        /\ \A c \in DOMAIN ids : Extend(ids, freshIds)[c] = ids[c]
    BY <1>9, <2>1 DEF Extend
  <2>3. Extend(ids, freshIds) = [x \in DOMAIN Extend(ids, freshIds) |-> Extend(ids, freshIds)[x]]
    BY DEF Extend
  <2>4. \A c \in DOMAIN ids : ids[c] \in Ids
    BY DEF SimulatorTypeOK
  <2>5. \A i \in Replaced : book[i].repl.id \in Ids
    BY <1>7
  <2> DEFINE f == Extend(ids, freshIds)
  <2>6. \A c \in DOMAIN f : f[c] \in Ids
    <3> HIDE DEF f
    <3> QED  BY <2>2, <2>4, <2>5 DEF f
  <2>7. f \in [DOMAIN f -> Ids]
    <3> HIDE DEF f
    <3>1. f = [x \in DOMAIN f |-> f[x]]
      BY <2>3 DEF f
    <3> QED  BY <2>6, <3>1
  <2> QED  BY <2>2, <2>7
<1>14. {now[i].client : i \in ended} = {book[i].client : i \in Left(p)}
  <2>1. \A i \in DOMAIN book : now[i].client = book[i].client
    BY <1>3 DEF SameOrder
  <2> HIDE DEF now, ended
  <2> QED  BY <1>4, <2>1 DEF Left
<1>15. IF alive'
       THEN /\ DOMAIN ids' = (DOMAIN ids \cup {book[i].repl.client : i \in Replaced})
                                \ {book[i].client : i \in Left(p)}
            /\ \A i \in Replaced : book[i].repl.client \in DOMAIN ids'
                                     => ids'[book[i].repl.client] = book[i].repl.id
            /\ \A c \in DOMAIN ids' \cap DOMAIN ids : ids'[c] = ids[c]
            /\ ids' \in [DOMAIN ids' -> Ids]
            /\ feed' = [i \in Ids |-> IF i \in DOMAIN book THEN feed[i] \o Computed(book[i], p).news
                                      ELSE feed[i]]
            /\ previous' = p
       ELSE ids' \in [DOMAIN ids' -> Ids] /\ UNCHANGED <<feed, previous>>
  <2>1. CASE others \subseteq DOMAIN kept
    <3>1. alive'
      BY <1>1, <2>1
    <3>2. /\ ids' = Without(Extend(ids, freshIds), {book[i].client : i \in Left(p)})
          /\ previous' = p
      BY <1>1, <1>14, <2>1
    <3>3. feed' = [i \in Ids |-> IF i \in DOMAIN book THEN feed[i] \o Computed(book[i], p).news
                                 ELSE feed[i]]
      <4>1. feed' = [i \in Ids |-> IF i \in DOMAIN now THEN feed[i] \o now[i].news ELSE feed[i]]
        BY <1>1, <2>1
      <4>2. \A i \in DOMAIN book : now[i] = Computed(book[i], p)
        BY <1>3
      <4> HIDE DEF now
      <4> QED  BY <1>4, <4>1, <4>2
    <3>4. /\ DOMAIN ids' = DOMAIN Extend(ids, freshIds) \ {book[i].client : i \in Left(p)}
          /\ \A c \in DOMAIN ids' : ids'[c] = Extend(ids, freshIds)[c]
          /\ ids' = [c \in DOMAIN ids' |-> ids'[c]]
      BY <3>2 DEF Without
    <3>5. ids' \in [DOMAIN ids' -> Ids]
      BY <1>13, <3>4
    <3> QED  BY <1>13, <3>1, <3>2, <3>3, <3>4, <3>5
  <2>2. CASE ~(others \subseteq DOMAIN kept)
    <3>1. ~alive'
      BY <1>1, <2>2
    <3> QED  BY <1>1, <1>13, <2>2, <3>1
  <2> QED  BY <2>1, <2>2
<1>16. fate' = [i \in Ids |-> IF i \in Left(p) THEN Computed(book[i], p).state ELSE fate[i]]
  <2>1. \A i \in Left(p) : now[i].state = Computed(book[i], p).state
    BY <1>3 DEF Left
  <2> HIDE DEF now, ended
  <2> QED  BY <1>1, <1>4, <2>1
<1>17. alive' = (OtherLegs(p) \subseteq DOMAIN book \ Left(p))
  BY <1>1, <1>5, <1>6
<1> QED  BY <1>1, <1>10, <1>11, <1>12, <1>15, <1>16, <1>17 DEF TickEffect

(* What a tick makes of each kind of order: one that stays was open and holds
   no replacement; one that leaves was filled now or cancelled before; and one
   that is replaced was cancelled by its client.                             *)
StaysSo(i, p) ==
    /\ book[i].state = "Opened" /\ ~Waits(i) /\ SameOrder(book[i], book'[i])
    /\ IF i \in OtherLegs(p)
       THEN book'[i].state = "Cancelled" /\ book'[i].byOther = TRUE /\ book'[i].news = <<"Cancelled">>
       ELSE book'[i].state = "Opened" /\ book'[i].byOther = book[i].byOther /\ book'[i].news = <<>>

LeavesSo(i, p) ==
    \/ /\ book[i].state = "Opened" /\ Matches(book[i], p) /\ fate'[i] = "Filled"
       /\ Computed(book[i], p).news = Append(book[i].news, "Fill")
    \/ /\ book[i].state = "Cancelled" /\ fate'[i] = "Cancelled"
       /\ Computed(book[i], p).news = book[i].news

GivesWay(i, p) ==
    /\ i \in Left(p) /\ ~book[i].byOther /\ Waits(i) /\ book[i].state = "Cancelled"
    /\ \E j \in DOMAIN book' :
          /\ j = book[i].repl.id /\ j \in Ids \ DOMAIN book
          /\ j < nextId /\ root[j] = root[i] /\ fate[j] = "none"
          /\ book'[j].client = book[i].repl.client /\ book'[j].other = 0
          /\ book'[j].state = "Opened" /\ book'[j].repl = NoReplacement /\ book'[j].news = <<"New">>

(* Every order of the book is of one of these kinds. *)
LEMMA TickCases ==
    ASSUME SimulatorTypeOK, AliveInv, NEW p \in Price, TickEffect(p)
    PROVE  /\ \A i \in DOMAIN book \ Left(p) : i \in DOMAIN book' /\ StaysSo(i, p)
           /\ \A i \in Left(p) : i \in DOMAIN book /\ i \notin DOMAIN book' /\ LeavesSo(i, p)
           /\ \A i \in Replaced : GivesWay(i, p)
           /\ \A i, k \in Replaced : i = k
           /\ \A j \in DOMAIN book' \ DOMAIN book : \E i \in Replaced : j = book[i].repl.id
           /\ \A j \in DOMAIN book' \cap DOMAIN book : j \notin Left(p)
<1>1. \A i \in DOMAIN book : /\ book[i] \in SimulatorOrder /\ i \in Ids
                             /\ book[i].state \in {"Opened", "Cancelled"}
  BY DEF SimulatorTypeOK, AliveInv, AllTold, Told
<1>2. \A i \in DOMAIN book :
         /\ Waits(i) => book[i].state = "Cancelled" /\ ~book[i].byOther
         /\ book[i].state = "Cancelled" => i \in Left(p)
  <2> SUFFICES ASSUME NEW i \in DOMAIN book
               PROVE  /\ Waits(i) => book[i].state = "Cancelled" /\ ~book[i].byOther
                      /\ book[i].state = "Cancelled" => i \in Left(p)
    OBVIOUS
  <2>1. book[i].state = "Cancelled" => Computed(book[i], p) = book[i]
    BY <1>1, ComputedIs
  <2> QED  BY <2>1 DEF AliveInv, Embeds, Left, Leaves
<1>3. ASSUME NEW i \in DOMAIN book \ Left(p) PROVE i \in DOMAIN book' /\ StaysSo(i, p)
  <2>1. /\ book[i].state = "Opened" /\ ~Waits(i) /\ Computed(book[i], p).state = "Opened"
    BY <1>1, <1>2 DEF Left, Leaves
  <2>2. /\ Stays(i, p) \in SimulatorOrder /\ SameOrder(book[i], Stays(i, p))
        /\ Stays(i, p).state = "Opened" /\ Stays(i, p).byOther = book[i].byOther
        /\ Stays(i, p).news = <<>>
    <3>1. /\ Computed(book[i], p) \in SimulatorOrder /\ SameOrder(book[i], Computed(book[i], p))
          /\ Computed(book[i], p).byOther = book[i].byOther
      BY <1>1, ComputedIs
    <3>2. <<>> \in Seq(EventKind)
      OBVIOUS
    <3> QED  BY <2>1, <3>1, <3>2 DEF Stays, SimulatorOrder, SameOrder
  <2>3. i \in DOMAIN book'
        /\ book'[i] = IF i \in OtherLegs(p) THEN Cancelled(Stays(i, p), TRUE) ELSE Stays(i, p)
    BY DEF TickEffect
  <2>4. TRUE \in BOOLEAN
    OBVIOUS
  <2>5. /\ SameOrder(Stays(i, p), Cancelled(Stays(i, p), TRUE))
        /\ Cancelled(Stays(i, p), TRUE).state = "Cancelled" /\ Cancelled(Stays(i, p), TRUE).byOther = TRUE
        /\ Cancelled(Stays(i, p), TRUE).news = Append(Stays(i, p).news, "Cancelled")
    BY <2>2, <2>4, CancelledIs
  <2> QED  BY <2>1, <2>2, <2>3, <2>5, News DEF StaysSo, SameOrder
<1>4. ASSUME NEW i \in Replaced PROVE GivesWay(i, p)
  <2>1. i \in DOMAIN book /\ Waits(i) /\ i \in Left(p) /\ ~book[i].byOther /\ book[i].state = "Cancelled"
    BY <1>2 DEF Replaced
  <2>2. book[i].repl.id \in Ids
    BY <1>1, <2>1 DEF Waits, SimulatorOrder, Replacement
  <2>3. book[i].repl.id \in DOMAIN book'
        /\ book'[book[i].repl.id] =
              NewOrder(book[i].repl.client, book[i].repl.type, book[i].side,
                       book[i].repl.price, book[i].repl.limit, 0)
    BY DEF TickEffect
  <2>4. /\ book[i].repl.id < nextId /\ book[i].repl.id \notin DOMAIN book
        /\ fate[book[i].repl.id] = "none" /\ root[book[i].repl.id] = root[i]
    BY <2>1 DEF AliveInv, Embeds
  <2> QED  BY <2>1, <2>2, <2>3, <2>4 DEF GivesWay, NewOrder
<1>5. /\ \A j \in DOMAIN book' \ DOMAIN book : \E i \in Replaced : j = book[i].repl.id
      /\ \A j \in DOMAIN book' \cap DOMAIN book : j \notin Left(p)
  BY <1>4 DEF TickEffect, GivesWay
<1>6. ASSUME NEW i \in Left(p) PROVE i \in DOMAIN book /\ i \notin DOMAIN book' /\ LeavesSo(i, p)
  <2>1. i \in DOMAIN book /\ i \in Ids
    BY <1>1 DEF Left
  <2>2. fate'[i] = Computed(book[i], p).state
    BY <2>1 DEF TickEffect
  <2>3. Computed(book[i], p).state # "Opened"
    BY DEF Left, Leaves
  <2> QED  BY <1>1, <1>5, <2>1, <2>2, <2>3, ComputedIs DEF LeavesSo
<1>7. \A i, k \in Replaced : i = k
  BY DEF Replaced, AliveInv, Embeds
<1> QED  BY <1>3, <1>4, <1>5, <1>6, <1>7

(* What is filled by a tick was open, and nothing that was filled is forgotten. *)
LEMMA TickExecutes ==
    ASSUME SimulatorTypeOK, AliveInv, NEW p \in Price, TickEffect(p)
    PROVE  /\ executed \subseteq executed'
           /\ \A i \in executed' \ executed :
                 /\ i \in Left(p) /\ i \in DOMAIN book /\ book[i].state = "Opened"
                 /\ Matches(book[i], p) /\ Live(i)
<1>1. ASSUME NEW i \in Ids, i \notin Left(p) PROVE fate'[i] = fate[i]
  BY <1>1 DEF TickEffect
<1>2. ASSUME NEW i \in Left(p)
      PROVE  i \in DOMAIN book /\ fate[i] = "none" /\ LeavesSo(i, p)
  BY TickCases DEF AliveInv, AllTold
<1> QED  BY <1>1, <1>2 DEF executed, LeavesSo, Live

(* Two of a family are filled in one tick only if they are the legs of a pair
   that do not exclude one another, and then the thread panics.              *)
LEMMA TickOnce ==
    ASSUME SimulatorTypeOK, AliveInv, ExecutedOnce, NEW p \in Price, TickEffect(p),
           alive' \/ OcoStops \subseteq {"StopLossLimit"}
    PROVE  ExecutedOnce'
<1> SUFFICES ASSUME NEW i \in executed', NEW k \in executed', root[i] = root[k], i # k
             PROVE  FALSE
  BY DEF ExecutedOnce, TickEffect
<1>1. \A e \in executed, j \in executed' \ executed : root[e] # root[j]
  BY TickExecutes DEF AliveInv, Families
<1>2. i \notin executed /\ k \notin executed
  BY <1>1 DEF ExecutedOnce
<1>3. /\ i \in Left(p) /\ i \in DOMAIN book /\ book[i].state = "Opened" /\ Matches(book[i], p) /\ Live(i)
      /\ k \in Left(p) /\ k \in DOMAIN book /\ book[k].state = "Opened" /\ Matches(book[k], p) /\ Live(k)
  BY <1>2, TickExecutes
<1>4. book[i].other = k /\ book[k].other = i /\ k # 0
  BY <1>3 DEF AliveInv, Families, SimulatorTypeOK, Ids
<1>5. CASE alive'
  <2>1. ~book[i].byOther
    BY <1>3, <1>4 DEF AliveInv, Pairs, SimulatorTypeOK, Ids
  <2>2. k \in OtherLegs(p)
    BY <1>3, <1>4, <2>1 DEF OtherLegs
  <2> QED  BY <1>3, <1>5, <2>2 DEF TickEffect
<1>6. CASE OcoStops \subseteq {"StopLossLimit"}
  <2>1. book[i] \in SimulatorOrder /\ book[k] \in SimulatorOrder
    BY <1>3 DEF SimulatorTypeOK
  <2>2. Excludes(book[i], book[k]) \/ Excludes(book[k], book[i])
    BY <1>3, <1>4, <1>6 DEF AliveInv, Pairs
  <2> QED  BY <1>3, <2>1, <2>2, ExcludesMatches
<1> QED  BY <1>5, <1>6

(* A tick leaves every variable in its type. *)
LEMMA TickTypes ==
    ASSUME SimulatorTypeOK, alive, AliveInv, NEW p \in Price, TickEffect(p)
    PROVE  SimulatorTypeOK'
<1>1. DOMAIN book' \subseteq Ids /\ book' \in [DOMAIN book' -> SimulatorOrder]
  <2>1. \A j \in DOMAIN book' : j \in DOMAIN book \/ j \in Ids
    BY TickCases DEF GivesWay
  <2> QED  BY <2>1 DEF SimulatorTypeOK, TickEffect
<1>2. \A i \in Left(p) : fate'[i] \in {"none", "Filled", "Cancelled"}
  BY TickCases DEF LeavesSo
<1>3. fate' \in [Ids -> {"none", "Filled", "Cancelled"}]
  BY <1>2 DEF TickEffect, SimulatorTypeOK
<1>4. feed' \in [Ids -> Seq(EventKind)]
  <2>1. CASE ~alive'
    BY <2>1 DEF TickEffect, SimulatorTypeOK
  <2>2. CASE alive'
    <3>1. ASSUME NEW i \in DOMAIN book PROVE Computed(book[i], p).news \in Seq(EventKind)
      BY ComputedIs DEF SimulatorTypeOK, SimulatorOrder
    <3>2. ASSUME NEW i \in DOMAIN book, i \in Ids
          PROVE  feed[i] \o Computed(book[i], p).news \in Seq(EventKind)
      BY <3>1, <3>2, ConcatProperties DEF SimulatorTypeOK
    <3>3. feed' = [i \in Ids |-> IF i \in DOMAIN book THEN feed[i] \o Computed(book[i], p).news
                                ELSE feed[i]]
      BY <2>2 DEF TickEffect
    <3>4. \A i \in Ids : feed[i] \in Seq(EventKind)
      BY DEF SimulatorTypeOK
    <3> QED  BY <3>2, <3>3, <3>4
  <2> QED  BY <2>1, <2>2
<1>5. ids' \in [DOMAIN ids' -> Ids]
  BY DEF TickEffect
<1>6. market' \in 0..MaxPrice /\ previous' \in 0..MaxPrice
  BY SimulatorAssumption DEF TickEffect, SimulatorTypeOK, Price
<1>7. alive' \in BOOLEAN /\ taken' \in BOOLEAN
  <2>1. taken' \in BOOLEAN
    BY DEF TickEffect
  <2>2. alive' = (OtherLegs(p) \subseteq DOMAIN book \ Left(p))
    BY DEF TickEffect
  <2> QED  BY <2>1, <2>2
<1>8. nextId' \in 1..MaxId + 1 /\ root' \in [Ids -> 0..MaxId]
  BY DEF TickEffect, SimulatorTypeOK
<1> QED  BY <1>1, <1>3, <1>4, <1>5, <1>6, <1>7, <1>8 DEF SimulatorTypeOK

(* What is in the book after a tick was there before, open, or is the one
   replacement that was waited for.                                         *)
LEMMA TickKeeps ==
    ASSUME SimulatorTypeOK, AliveInv, NEW p \in Price, TickEffect(p), NEW j \in DOMAIN book'
    PROVE  \/ j \in DOMAIN book /\ j \notin Left(p) /\ StaysSo(j, p)
           \/ j \notin DOMAIN book /\ \E i \in Replaced : j = book[i].repl.id /\ GivesWay(i, p)
BY TickCases

(* A tick leaves the numbers and the map of the ids in order. *)
LEMMA TickFinds ==
    ASSUME SimulatorTypeOK, AliveInv, NEW p \in Price, TickEffect(p), alive'
    PROVE  Numbered' /\ Found'
<1>1. Numbered'
  <2>1. nextId' = nextId /\ root' = root /\ nextId > 0
    BY DEF TickEffect, SimulatorTypeOK
  <2>2. \A j \in DOMAIN book' : j < nextId /\ book'[j].other < nextId
    <3> SUFFICES ASSUME NEW j \in DOMAIN book' PROVE j < nextId /\ book'[j].other < nextId
      OBVIOUS
    <3>1. CASE j \in DOMAIN book /\ StaysSo(j, p)
      BY <3>1 DEF StaysSo, SameOrder, AliveInv, Numbered
    <3>2. ASSUME NEW i \in Replaced, j = book[i].repl.id, GivesWay(i, p)
          PROVE  j < nextId /\ book'[j].other < nextId
      BY <2>1, <3>2 DEF GivesWay
    <3> QED  BY <3>1, <3>2, TickKeeps
  <2>3. \A i \in Ids : fate'[i] # "none" => i < nextId
    BY DEF TickEffect, AliveInv, Numbered, Left
  <2> QED  BY <2>1, <2>2, <2>3 DEF AliveInv, Numbered
<1>2. /\ DOMAIN ids' = (DOMAIN ids \cup {book[i].repl.client : i \in Replaced})
                           \ {book[i].client : i \in Left(p)}
      /\ \A i \in Replaced : book[i].repl.client \in DOMAIN ids'
                               => ids'[book[i].repl.client] = book[i].repl.id
      /\ \A c \in DOMAIN ids' \cap DOMAIN ids : ids'[c] = ids[c]
  BY DEF TickEffect
<1>3. /\ DOMAIN ids = {book[i].client : i \in DOMAIN book}
      /\ \A i \in DOMAIN book : ids[book[i].client] = i
  BY DEF AliveInv, Found
<1>4. \A i \in Left(p) : i \in DOMAIN book
  BY DEF Left
<1>5. \A i \in DOMAIN book \ Left(p) :
         i \in DOMAIN book' /\ book'[i].client = book[i].client
         /\ book[i].client \in DOMAIN ids' /\ ids'[book[i].client] = i
  <2>1. \A i \in DOMAIN book \ Left(p) : i \in DOMAIN book' /\ book'[i].client = book[i].client
    BY TickCases DEF StaysSo, SameOrder
  <2>2. \A i \in DOMAIN book \ Left(p) : book[i].client \in DOMAIN ids'
    BY <1>2, <1>3, <1>4
  <2> QED  BY <1>2, <1>3, <2>1, <2>2
<1>6. \A i \in Replaced : /\ book[i].repl.id \in DOMAIN book'
                         /\ book'[book[i].repl.id].client = book[i].repl.client
                         /\ book[i].repl.client \in DOMAIN ids'
                         /\ ids'[book[i].repl.client] = book[i].repl.id
  <2>1. \A i \in Replaced : \A k \in DOMAIN book : book[k].client # book[i].repl.client
    BY DEF AliveInv, Embeds, Replaced
  <2>2. \A i \in Replaced : book[i].repl.client \in DOMAIN ids'
    BY <1>2, <1>4, <2>1
  <2>3. \A i \in Replaced : /\ book[i].repl.id \in DOMAIN book'
                           /\ book'[book[i].repl.id].client = book[i].repl.client
    BY TickCases DEF GivesWay
  <2> QED  BY <1>2, <2>2, <2>3
<1>7. \A j \in DOMAIN book' : /\ book'[j].client \in DOMAIN ids'
                             /\ ids'[book'[j].client] = j
  BY <1>5, <1>6, TickKeeps
<1>8. \A c \in DOMAIN ids' : \E j \in DOMAIN book' : book'[j].client = c
  <2> SUFFICES ASSUME NEW c \in DOMAIN ids' PROVE \E j \in DOMAIN book' : book'[j].client = c
    OBVIOUS
  <2>1. CASE c \in DOMAIN ids
    <3>1. PICK i \in DOMAIN book : book[i].client = c
      BY <1>3, <2>1
    <3>2. i \notin Left(p)
      BY <1>2, <3>1
    <3> QED  BY <1>5, <3>1, <3>2
  <2>2. CASE c \notin DOMAIN ids
    BY <1>2, <1>6, <2>2
  <2> QED  BY <2>1, <2>2
<1>9. Found'
  BY <1>7, <1>8 DEF Found
<1> QED  BY <1>1, <1>9

(* What a tick announces is what has become of every order. *)
LEMMA TickTells ==
    ASSUME SimulatorTypeOK, AliveInv, NEW p \in Price, TickEffect(p), alive'
    PROVE  AllTold'
<1>1. \A i \in Ids : feed'[i] = IF i \in DOMAIN book THEN feed[i] \o Computed(book[i], p).news
                                                    ELSE feed[i]
  BY DEF TickEffect
<1>2. \A i \in Ids : i \notin Left(p) => fate'[i] = fate[i]
  BY DEF TickEffect
<1>3. \A i \in Ids : feed[i] \in Seq(EventKind)
  BY DEF SimulatorTypeOK
<1>4. ASSUME NEW i \in DOMAIN book \ Left(p), i \in Ids PROVE Told(i)' /\ fate'[i] = "none"
  <2>1. book[i].state = "Opened" /\ Computed(book[i], p).news = book[i].news /\ fate[i] = "none"
    <3>1. Computed(book[i], p).state = "Opened" /\ book[i] \in SimulatorOrder
      BY DEF Left, Leaves, SimulatorTypeOK
    <3> QED  BY <3>1, TickCases, ComputedIs DEF StaysSo, AliveInv, AllTold
  <2>2. i \in DOMAIN book' /\ StaysSo(i, p)
    BY TickCases
  <2>3. feed'[i] = <<"New">>
    <3>1. \/ feed[i] = <<>> /\ book[i].news = <<"New">>
          \/ feed[i] = <<"New">> /\ book[i].news = <<>>
      BY <1>4, <2>1 DEF AliveInv, AllTold, Told
    <3>2. <<>> \o <<"New">> = <<"New">> /\ <<"New">> \o <<>> = <<"New">>
      BY News DEF EventKind
    <3> QED  BY <1>1, <1>4, <2>1, <3>1, <3>2
  <2> QED  BY <1>2, <1>4, <2>1, <2>2, <2>3 DEF Told, StaysSo
<1>5. ASSUME NEW i \in Left(p), i \in Ids PROVE Told(i)'
  <2>1. i \in DOMAIN book /\ i \notin DOMAIN book' /\ LeavesSo(i, p)
    BY TickCases
  <2>2. Told(i)
    BY <1>5 DEF AliveInv, AllTold
  <2>3. CASE book[i].state = "Opened"
    <3>1. fate'[i] = "Filled" /\ feed'[i] = feed[i] \o Append(book[i].news, "Fill")
      BY <1>1, <1>5, <2>1, <2>3 DEF LeavesSo
    <3>2. <<"New">> \o <<"Fill">> = <<"New", "Fill">> /\ <<>> \o <<"New", "Fill">> = <<"New", "Fill">>
          /\ Append(<<"New">>, "Fill") = <<"New", "Fill">> /\ Append(<<>>, "Fill") = <<"Fill">>
      BY News DEF EventKind
    <3>3. feed'[i] = <<"New", "Fill">>
      BY <2>1, <2>2, <2>3, <3>1, <3>2 DEF Told
    <3> QED  BY <2>1, <3>1, <3>3 DEF Told
  <2>4. CASE book[i].state = "Cancelled"
    <3>1. fate'[i] = "Cancelled" /\ feed'[i] = feed[i] \o book[i].news
      BY <1>1, <1>5, <2>1, <2>4 DEF LeavesSo
    <3>2. <<"New">> \o <<"Cancelled">> = <<"New", "Cancelled">>
          /\ <<>> \o <<"New", "Cancelled">> = <<"New", "Cancelled">>
      BY News DEF EventKind
    <3>3. feed'[i] = <<"New", "Cancelled">>
      BY <2>1, <2>2, <2>4, <3>1, <3>2 DEF Told
    <3> QED  BY <2>1, <3>1, <3>3 DEF Told
  <2> QED  BY <2>1, <2>3, <2>4 DEF LeavesSo
<1>6. ASSUME NEW i \in Replaced, NEW j \in DOMAIN book', j = book[i].repl.id
      PROVE  Told(j)' /\ fate'[j] = "none"
  <2>1. /\ j \in Ids \ DOMAIN book /\ fate[j] = "none"
        /\ book'[j].state = "Opened" /\ book'[j].news = <<"New">>
    BY <1>6, TickCases DEF GivesWay
  <2>2. fate'[j] = "none" /\ feed'[j] = <<>>
    <3>1. feed[j] = <<>> /\ j \notin Left(p)
      BY <2>1 DEF AliveInv, AllTold, Told, Left
    <3> QED  BY <1>1, <1>2, <2>1, <3>1
  <2> QED  BY <1>6, <2>1, <2>2 DEF Told
<1>7. ASSUME NEW i \in Ids, i \notin DOMAIN book, i \notin DOMAIN book' PROVE Told(i)'
  <2>1. feed'[i] = feed[i] /\ fate'[i] = fate[i]
    BY <1>1, <1>2, <1>7 DEF Left
  <2> QED  BY <1>7, <2>1 DEF AliveInv, AllTold, Told
<1>8. \A i \in Ids : Told(i)'
  BY <1>4, <1>5, <1>6, <1>7, TickKeeps
<1>9. \A i \in DOMAIN book' : fate'[i] = "none"
  <2> SUFFICES ASSUME NEW j \in DOMAIN book' PROVE fate'[j] = "none"
    OBVIOUS
  <2>1. CASE j \in DOMAIN book \ Left(p)
    BY <1>4, <2>1 DEF SimulatorTypeOK
  <2>2. CASE \E i \in Replaced : j = book[i].repl.id
    BY <1>6, <2>2
  <2> QED  BY <2>1, <2>2, TickKeeps
<1> QED  BY <1>8, <1>9 DEF AllTold

(* After a tick no replacement is waited for, and only other legs are cancelled. *)
LEMMA TickRests ==
    ASSUME SimulatorTypeOK, AliveInv, NEW p \in Price, TickEffect(p), alive'
    PROVE  Embeds' /\ Rests' /\ \A j \in DOMAIN book' : ~Waits(j)'
<1>1. ASSUME NEW j \in DOMAIN book'
      PROVE  ~Waits(j)' /\ (book'[j].state = "Cancelled" => book'[j].byOther)
  <2>1. CASE j \in DOMAIN book /\ StaysSo(j, p)
    BY <2>1 DEF StaysSo, SameOrder, Waits
  <2>2. ASSUME NEW i \in Replaced, j = book[i].repl.id, GivesWay(i, p)
        PROVE  ~Waits(j)' /\ (book'[j].state = "Cancelled" => book'[j].byOther)
    BY <2>2 DEF GivesWay, Waits
  <2> QED  BY <2>1, <2>2, TickKeeps
<1> QED  BY <1>1 DEF Embeds, Rests

(* The legs of a pair leave together, or stay together. *)
LEMMA TickPairs ==
    ASSUME SimulatorTypeOK, AliveInv, NEW p \in Price, TickEffect(p), alive'
    PROVE  Pairs'
<1>1. \A j \in DOMAIN book' \ DOMAIN book : book'[j].other = 0
  BY TickCases DEF GivesWay
<1>2. OtherLegs(p) \subseteq DOMAIN book \ Left(p)
  BY DEF TickEffect
<1>3. \A i \in DOMAIN book : i \in Ids /\ i # 0 /\ book[i].other \in Ids \cup {0}
  BY DEF SimulatorTypeOK, SimulatorOrder, Ids
<1>4. ASSUME NEW i \in DOMAIN book \ Left(p), book[i].other # 0, book[i].other \in DOMAIN book
      PROVE  book[i].other \notin Left(p) \/ i \in OtherLegs(p)
  <2>1. book[i].state = "Opened"
    BY TickCases DEF StaysSo
  <2>2. ~book[book[i].other].byOther /\ book[book[i].other].other = i
    BY <1>4, <2>1 DEF AliveInv, Pairs
  <2> QED  BY <1>3, <1>4, <2>2 DEF OtherLegs, Left
<1>5. ASSUME NEW i \in DOMAIN book \ Left(p), i \in OtherLegs(p)
      PROVE  book[i].other # 0 /\ book[i].other \in Left(p)
  <2>1. PICK x \in Left(p) : book[x].other = i /\ ~book[x].byOther
    BY <1>5 DEF OtherLegs
  <2>2. x \in DOMAIN book
    BY DEF Left
  <2> QED  BY <1>3, <2>1, <2>2 DEF AliveInv, Pairs
<1>6. ASSUME NEW j \in DOMAIN book', book'[j].other # 0
      PROVE  /\ book'[j].other # j
             /\ book'[j].other \in DOMAIN book' => book'[book'[j].other].other = j
             /\ book'[j].state = "Opened" =>
                   /\ book'[j].other \in DOMAIN book' /\ ~book'[book'[j].other].byOther
                   /\ OcoStops \subseteq {"StopLossLimit"} =>
                         \/ Excludes(book'[j], book'[book'[j].other])
                         \/ Excludes(book'[book'[j].other], book'[j])
  <2>1. j \in DOMAIN book \ Left(p) /\ StaysSo(j, p)
    BY <1>1, <1>6, TickKeeps
  <2>2. book'[j].other = book[j].other /\ book[j].other # 0 /\ book[j].state = "Opened"
    BY <1>6, <2>1 DEF StaysSo, SameOrder
  <2> DEFINE k == book[j].other
  <2>3. k # j /\ k \in DOMAIN book /\ book[k].other = j /\ ~book[k].byOther
        /\ (OcoStops \subseteq {"StopLossLimit"} => Excludes(book[j], book[k]) \/ Excludes(book[k], book[j]))
    BY <2>1, <2>2 DEF AliveInv, Pairs
  <2> HIDE DEF k
  <2>4. book'[j].other = k
    BY <2>2 DEF k
  <2>5. k \in DOMAIN book' => k \notin Left(p) /\ StaysSo(k, p) /\ book'[k].other = j
    BY <2>3, TickCases DEF StaysSo, SameOrder
  <2>6. ASSUME book'[j].state = "Opened"
        PROVE  /\ k \in DOMAIN book' /\ ~book'[k].byOther
               /\ Excludes(book[j], book[k]) => Excludes(book'[j], book'[k])
               /\ Excludes(book[k], book[j]) => Excludes(book'[k], book'[j])
    <3>1. j \notin OtherLegs(p)
      BY <2>1, <2>6 DEF StaysSo
    <3>2. k \notin Left(p)
      BY <1>4, <2>1, <2>2, <2>3, <3>1 DEF k
    <3>3. k \in DOMAIN book' /\ StaysSo(k, p)
      BY <2>3, <3>2, TickCases
    <3>4. k \notin OtherLegs(p)
      BY <1>5, <2>1, <2>3, <3>2
    <3>5. ~book'[k].byOther
      BY <2>3, <3>3, <3>4 DEF StaysSo
    <3> QED  BY <2>1, <3>3, <3>5 DEF StaysSo, SameOrder, Excludes
  <2> QED  BY <2>3, <2>4, <2>5, <2>6
<1> QED  BY <1>6 DEF Pairs

(* No family comes to have two orders that may be filled. *)
LEMMA TickFamilies ==
    ASSUME SimulatorTypeOK, AliveInv, NEW p \in Price, TickEffect(p), alive'
    PROVE  Families'
<1>1. root' = root /\ OtherLegs(p) \subseteq DOMAIN book \ Left(p)
  BY DEF TickEffect
<1>2. ASSUME NEW j \in DOMAIN book', Live(j)'
      PROVE  \/ j \in DOMAIN book /\ j \notin Left(p) /\ j \notin OtherLegs(p) /\ Live(j)
                /\ book'[j].other = book[j].other
             \/ \E i \in Replaced : /\ j = book[i].repl.id /\ GivesWay(i, p) /\ i \in DOMAIN book
                                   /\ Live(i) /\ root[j] = root[i]
  <2>1. ~Waits(j)'
    BY TickRests
  <2>2. book'[j].state = "Opened"
    BY <1>2, <2>1 DEF Live
  <2>3. CASE j \in DOMAIN book /\ j \notin Left(p) /\ StaysSo(j, p)
    BY <2>2, <2>3 DEF StaysSo, Live, SameOrder
  <2>4. ASSUME NEW i \in Replaced, j = book[i].repl.id, GivesWay(i, p)
        PROVE  i \in DOMAIN book /\ Live(i) /\ root[j] = root[i]
    BY <2>4 DEF GivesWay, Live, Replaced
  <2> QED  BY <2>3, <2>4, TickKeeps
<1>3. ASSUME NEW i \in Replaced, GivesWay(i, p), NEW k \in DOMAIN book, k \notin Left(p),
             k \notin OtherLegs(p), Live(k)
      PROVE  root[i] # root[k]
  <2>1. /\ i \in Left(p) /\ ~book[i].byOther /\ Live(i) /\ i \in DOMAIN book /\ i # k /\ k # 0
    BY <1>3 DEF GivesWay, Live, Replaced, SimulatorTypeOK, Ids
  <2>2. root[i] = root[k] => book[i].other = k
    BY <1>3, <2>1 DEF AliveInv, Families
  <2> QED  BY <1>3, <2>1, <2>2 DEF OtherLegs
<1>4. ASSUME NEW i \in DOMAIN book', NEW k \in DOMAIN book', root[i] = root[k], i # k, Live(i)', Live(k)'
      PROVE  book'[i].other = k
  <2>1. CASE i \in DOMAIN book /\ k \in DOMAIN book
    <3>1. Live(i) /\ Live(k) /\ book'[i].other = book[i].other
      BY <1>2, <1>4, <2>1 DEF GivesWay
    <3> QED  BY <1>4, <2>1, <3>1 DEF AliveInv, Families
  <2>2. CASE i \in DOMAIN book /\ k \notin DOMAIN book
    <3>1. /\ i \notin Left(p) /\ i \notin OtherLegs(p) /\ Live(i)
      BY <1>2, <1>4, <2>2 DEF GivesWay
    <3>2. PICK x \in Replaced : GivesWay(x, p) /\ root[k] = root[x]
      BY <1>2, <1>4, <2>2
    <3>3. root[x] # root[i]
      BY <1>3, <2>2, <3>1, <3>2
    <3> QED  BY <1>4, <3>2, <3>3
  <2>3. CASE i \notin DOMAIN book /\ k \in DOMAIN book
    <3>1. /\ k \notin Left(p) /\ k \notin OtherLegs(p) /\ Live(k)
      BY <1>2, <1>4, <2>3 DEF GivesWay
    <3>2. PICK x \in Replaced : GivesWay(x, p) /\ root[i] = root[x]
      BY <1>2, <1>4, <2>3
    <3>3. root[x] # root[k]
      BY <1>3, <2>3, <3>1, <3>2
    <3> QED  BY <1>4, <3>2, <3>3
  <2>4. CASE i \notin DOMAIN book /\ k \notin DOMAIN book
    BY <1>2, <1>4, <2>4, TickCases
  <2> QED  BY <2>1, <2>2, <2>3, <2>4
<1>5. ASSUME NEW e \in executed', NEW k \in DOMAIN book', root[e] = root[k], Live(k)'
      PROVE  FALSE
  <2>1. PICK x \in DOMAIN book : /\ Live(x) /\ root[x] = root[k]
                               /\ \/ x = k /\ x \notin Left(p) /\ x \notin OtherLegs(p)
                                  \/ x \in Replaced /\ GivesWay(x, p)
    BY <1>2, <1>5
  <2>2. e \notin executed
    BY <1>5, <2>1 DEF AliveInv, Families
  <2>3. e \in Left(p) /\ e \in DOMAIN book /\ book[e].state = "Opened" /\ Live(e)
    BY <1>5, <2>2, TickExecutes
  <2>4. e # x
    BY <2>1, <2>3 DEF GivesWay
  <2>5. book[e].other = x /\ book[x].other = e /\ x # 0 /\ e # 0
    BY <1>5, <2>1, <2>3, <2>4 DEF AliveInv, Families, SimulatorTypeOK, Ids
  <2>6. CASE x = k /\ x \notin Left(p) /\ x \notin OtherLegs(p)
    <3>1. book[x].state = "Opened"
      BY <2>6, TickCases DEF StaysSo
    <3>2. ~book[e].byOther
      BY <2>3, <2>5, <3>1 DEF AliveInv, Pairs
    <3> QED  BY <2>3, <2>5, <2>6, <3>2 DEF OtherLegs
  <2>7. CASE x \in Replaced /\ GivesWay(x, p)
    <3>1. e \in OtherLegs(p)
      BY <2>5, <2>7 DEF OtherLegs, GivesWay
    <3> QED  BY <1>1, <2>3, <3>1
  <2> QED  BY <2>1, <2>6, <2>7
<1> QED  BY <1>1, <1>4, <1>5 DEF Families

(* A tick, whether or not the thread survives it. *)
LEMMA TickIInv == ASSUME IInv, NEW p \in Price, Tick(p) PROVE IInv'
<1>1. alive /\ SimulatorTypeOK /\ AliveInv /\ ExecutedOnce
  BY DEF Tick, IInv
<1>2. TickEffect(p)
  BY <1>1, TickHas
<1>3. SimulatorTypeOK'
  BY <1>1, <1>2, TickTypes
<1>4. alive' \/ OcoStops \subseteq {"StopLossLimit"} => ExecutedOnce'
  BY <1>1, <1>2, TickOnce
<1>5. alive' => AliveInv'
  BY <1>1, <1>2, TickFinds, TickTells, TickRests, TickPairs, TickFamilies DEF AliveInv
<1> QED  BY <1>3, <1>4, <1>5 DEF IInv

(* The invariant is inductive. *)
LEMMA StepIInv == IInv /\ [Next]_vars => IInv'
<1> SUFFICES ASSUME IInv, [Next]_vars PROVE IInv'
  OBVIOUS
<1>1. CASE Request
  BY <1>1, RequestIInv
<1>2. CASE Compute
  BY <1>2, TickIInv DEF Compute
<1>3. CASE UNCHANGED vars
  <2>1. UNCHANGED <<book, ids, market, previous, alive, taken, nextId, feed, fate, root>>
    BY <1>3 DEF vars
  <2>2. SimulatorTypeOK'
    BY <2>1 DEF IInv, SimulatorTypeOK
  <2>3. ExecutedOnce' = ExecutedOnce /\ executed' = executed
    BY <2>1 DEF ExecutedOnce, executed
  <2>4. AliveInv' = AliveInv
    BY <2>1, <2>3 DEF AliveInv, Numbered, Found, AllTold, Told, Embeds, Waits, Rests, Pairs, Families, Live
  <2> QED  BY <2>1, <2>2, <2>3, <2>4 DEF IInv
<1> QED  BY <1>1, <1>2, <1>3 DEF Next
----------------------------------------------------------------------------
(* Theorems *)

(* What holds of a simulator whose thread is alive, and of the orders filled.
   The other theorems follow from it.                                       *)
THEOREM Invariance == Spec => []IInv
BY InitIInv, StepIInv, PTL DEF Spec

(* No variable leaves its type. *)
THEOREM TypeCorrect == Spec => []SimulatorTypeOK
<1>1. IInv => SimulatorTypeOK
  BY DEF IInv
<1> QED  BY <1>1, Invariance, PTL

(* Every order kept is found under the id its client gave it, after any
   sequence of requests, replacements and ticks (client_to_internal_id_map). *)
THEOREM FoundAlways == Spec => []FoundByClientId
<1>1. IInv => FoundByClientId
  BY DEF IInv, AliveInv, Found, FoundByClientId
<1> QED  BY <1>1, Invariance, PTL

(* Of an order, its replacements and the other leg of its pair only one is
   ever filled, where the stop leg of a pair has a limit price.  With a plain
   stop, that is filled at any price, both legs may be filled by one tick.   *)
THEOREM NoFamilyFilledTwice ==
    ASSUME OcoStops \subseteq {"StopLossLimit"} PROVE Spec => []ExecutedOnce
<1>1. IInv => ExecutedOnce
  BY DEF IInv
<1> QED  BY <1>1, Invariance, PTL

(* The same, whatever the stop leg is, as long as the thread has not panicked. *)
THEOREM NoFamilyFilledTwiceAlive == Spec => [](alive => ExecutedOnce)
<1>1. IInv => (alive => ExecutedOnce)
  BY DEF IInv
<1> QED  BY <1>1, Invariance, PTL

(* What a request does to an order: it opens it, cancels it or leaves it. *)
OpensOrCancels(i) ==
    \/ i \notin DOMAIN book /\ i \notin DOMAIN book'
    \/ i \notin DOMAIN book /\ fate[i] = "none" /\ i \in DOMAIN book' /\ book'[i].state = "Opened"
    \/ /\ i \in DOMAIN book /\ i \in DOMAIN book'
       /\ \/ book'[i].state = book[i].state
          \/ book[i].state = "Opened" /\ book'[i].state = "Cancelled"

(* Every request does one of these to every order. *)
LEMMA RequestOpens ==
    ASSUME IInv, Request
    PROVE  UNCHANGED <<fate, feed>> /\ \A i \in Ids : OpensOrCancels(i)
<1>1. ASSUME NEW c \in Clients, NEW t \in Types, NEW s \in Sides,
             NEW p \in IF t = "Market" THEN {0} ELSE Price, NEW l \in LimitPrices(t),
             CreateOrder(c, t, s, p, l)
      PROVE  UNCHANGED <<fate, feed>> /\ \A i \in Ids : OpensOrCancels(i)
  <2> DEFINE o == NewOrder(c, t, s, p, l, 0)
  <2>1. alive /\ UNCHANGED <<fate, feed>>
    BY <1>1 DEF CreateOrder
  <2>2. nextId \notin DOMAIN book /\ (nextId \in Ids => fate[nextId] = "none")
    BY <2>1 DEF IInv, AliveInv, Numbered, SimulatorTypeOK, Ids
  <2>3. book' = [x \in DOMAIN book \cup {nextId} |-> IF x \in {nextId} THEN o ELSE book[x]]
    BY <1>1 DEF CreateOrder, Extend, At
  <2>4. o.state = "Opened"
    BY DEF NewOrder
  <2> HIDE DEF o
  <2> QED  BY <2>1, <2>2, <2>3, <2>4 DEF OpensOrCancels
<1>2. ASSUME NEW c \in Clients, CancelOrder(c)
      PROVE  UNCHANGED <<fate, feed>> /\ \A i \in Ids : OpensOrCancels(i)
  <2>1. alive /\ UNCHANGED <<fate, feed>> /\ ids[c] \in DOMAIN book
        /\ book' = [book EXCEPT ![ids[c]] = Cancelled(@, FALSE)]
    BY <1>2 DEF CancelOrder
  <2>2. book[ids[c]] \in SimulatorOrder /\ FALSE \in BOOLEAN
    BY <2>1 DEF IInv, SimulatorTypeOK
  <2>3. \/ Cancelled(book[ids[c]], FALSE).state = book[ids[c]].state
        \/ book[ids[c]].state = "Opened" /\ Cancelled(book[ids[c]], FALSE).state = "Cancelled"
    BY <2>2, CancelledIs
  <2> QED  BY <2>1, <2>3 DEF OpensOrCancels
<1>3. ASSUME NEW c \in Clients, NEW d \in Clients, NEW t \in Types, NEW p \in Price,
             NEW l \in LimitPrices(t), CancelReplaceOrder(c, d, t, p, l)
      PROVE  UNCHANGED <<fate, feed>> /\ \A i \in Ids : OpensOrCancels(i)
  <2> DEFINE n == ids[c]
             o == Cancelled(Embedded(book[n], d, t, p, l), FALSE)
  <2>1. alive /\ UNCHANGED <<fate, feed>> /\ n \in DOMAIN book /\ book[n].state = "Opened"
        /\ book' = [book EXCEPT ![n] = o]
    BY <1>3 DEF CancelReplaceOrder
  <2>2. book[n] \in SimulatorOrder
    BY <2>1 DEF IInv, SimulatorTypeOK
  <2>3. o.state = "Cancelled"
    BY <2>1, <2>2 DEF Cancelled, Embedded, SimulatorOrder
  <2> HIDE DEF o, n
  <2> QED  BY <2>1, <2>3 DEF OpensOrCancels
<1>4. ASSUME NEW c \in Clients, NEW d \in Clients, NEW t \in OcoStops, NEW p \in Price, NEW q \in Price,
             NEW l \in IF t = "StopLossLimit" THEN 1..q ELSE {0},
             q < p, CreateOcoOrder(c, d, "Sell", p, t, q, l)
      PROVE  UNCHANGED <<fate, feed>> /\ \A i \in Ids : OpensOrCancels(i)
  <2> DEFINE n == nextId
             m == nextId + 1
             o == NewOrder(c, "Limit", "Sell", p, 0, m)
             r == NewOrder(d, t, "Sell", q, l, n)
  <2>1. alive /\ UNCHANGED <<fate, feed>>
        /\ book' = Extend(book, Extend(At(n, o), At(m, r)))
    BY <1>4 DEF CreateOcoOrder
  <2>2. /\ n \notin DOMAIN book /\ (n \in Ids => fate[n] = "none")
        /\ m \notin DOMAIN book /\ (m \in Ids => fate[m] = "none")
    BY <2>1, SimulatorAssumption DEF IInv, AliveInv, Numbered, SimulatorTypeOK, Ids
  <2>3. o.state = "Opened" /\ r.state = "Opened"
    BY DEF NewOrder
  <2> HIDE DEF o, r, n, m
  <2>4. /\ DOMAIN book' = DOMAIN book \cup {n, m}
        /\ \A i \in DOMAIN book \ {n, m} : book'[i] = book[i]
        /\ book'[n] \in {o, r} /\ book'[m] = r
    BY <2>1 DEF Extend, At
  <2> QED  BY <2>1, <2>2, <2>3, <2>4 DEF OpensOrCancels
<1> QED  BY <1>1, <1>2, <1>3, <1>4 DEF Request

(* When a leg of a pair is filled the other leg is in the book: had it ended
   before, this leg would have left with it (Simulator::compute).            *)
THEOREM OtherLegGoes == Spec => OtherLegIsOut
<1> DEFINE A == \A i \in executed' \ executed : book[i].other # 0 => book[i].other \in DOMAIN book
<1>1. ASSUME IInv, [Next]_vars PROVE [A]_vars
  <2>1. CASE UNCHANGED vars
    BY <2>1
  <2>2. CASE Request
    <3>1. fate' = fate
      BY <1>1, <2>2, RequestOpens
    <3> QED  BY <3>1 DEF executed
  <2>3. CASE Compute
    <3>1. PICK p \in Price : Tick(p)
      BY <2>3 DEF Compute
    <3>2. SimulatorTypeOK /\ AliveInv
      BY <1>1, <3>1 DEF Tick, IInv
    <3>3. \A i \in executed' \ executed : i \in DOMAIN book /\ book[i].state = "Opened"
      BY <3>1, <3>2, TickHas, TickExecutes
    <3> QED  BY <3>2, <3>3 DEF AliveInv, Pairs
  <2> QED  BY <1>1, <2>1, <2>2, <2>3 DEF Next
<1>2. IInv /\ [Next]_vars => [A]_vars
  BY <1>1
<1>3. Spec => [][A]_vars
  BY <1>2, Invariance, PTL DEF Spec
<1> QED  BY <1>3 DEF OtherLegIsOut
----------------------------------------------------------------------------
(* What OrderLives promises *)

(* A status that goes on as OrderLives has it, of all orders. *)
LEMMA LivesIs ==
    ASSUME NEW i \in Ids,
           \/ Status(i)' = Status(i)
           \/ Status(i) = "none" /\ Status(i)' = "open"
           \/ Status(i) = "open" /\ Status(i)' \in {"filled", "cancelled"}
    PROVE  Promise!Lives(i)
BY DEF Promise!Lives

(* A request opens or cancels, and announces nothing. *)
LEMMA RequestPromise == ASSUME IInv, Request PROVE Promise!Next
<1>1. UNCHANGED <<fate, feed>> /\ \A i \in Ids : OpensOrCancels(i)
  BY RequestOpens
<1>2. ASSUME NEW i \in Ids PROVE Promise!Lives(i)
  <2>1. \/ Status(i)' = Status(i)
        \/ Status(i) = "none" /\ Status(i)' = "open"
        \/ Status(i) = "open" /\ Status(i)' \in {"filled", "cancelled"}
    <3>1. fate'[i] = fate[i] /\ fate[i] \in {"none", "Filled", "Cancelled"} /\ OpensOrCancels(i)
      BY <1>1 DEF IInv, SimulatorTypeOK
    <3>2. CASE i \in DOMAIN book
      BY <3>1, <3>2 DEF OpensOrCancels, Status
    <3>3. CASE i \notin DOMAIN book /\ i \in DOMAIN book'
      BY <3>1, <3>3 DEF OpensOrCancels, Status
    <3>4. CASE i \notin DOMAIN book /\ i \notin DOMAIN book'
      BY <3>1, <3>4 DEF Status
    <3> QED  BY <3>2, <3>3, <3>4
  <2> QED  BY <2>1, LivesIs
<1>3. ASSUME NEW i \in Ids PROVE Promise!Hears(i)
  BY <1>1 DEF Promise!Hears
<1> QED  BY <1>2, <1>3 DEF Promise!Next

(* A tick ends what was open or was cancelled before, opens the replacements
   and cancels the other legs.                                              *)
LEMMA TickLives ==
    ASSUME SimulatorTypeOK, AliveInv, NEW p \in Price, TickEffect(p), NEW i \in Ids
    PROVE  Promise!Lives(i)
<1>1. CASE i \in DOMAIN book \ Left(p)
  <2>1. i \in DOMAIN book' /\ StaysSo(i, p)
    BY <1>1, TickCases
  <2> QED  BY <1>1, <2>1, LivesIs DEF StaysSo, Status
<1>2. CASE i \in Left(p)
  <2>1. i \in DOMAIN book /\ i \notin DOMAIN book' /\ LeavesSo(i, p)
    BY <1>2, TickCases
  <2> QED  BY <2>1, LivesIs DEF LeavesSo, Status
<1>3. CASE i \notin DOMAIN book
  <2>1. fate'[i] = fate[i]
    BY <1>3 DEF TickEffect, Left
  <2>2. CASE i \notin DOMAIN book'
    <3>1. fate[i] \in {"none", "Filled", "Cancelled"}
      BY DEF SimulatorTypeOK
    <3>2. Status(i)' = Status(i)
      BY <1>3, <2>1, <2>2, <3>1 DEF Status
    <3> QED  BY <3>2, LivesIs
  <2>3. CASE i \in DOMAIN book'
    <3>1. fate[i] = "none" /\ book'[i].state = "Opened"
      BY <1>3, <2>3, TickKeeps DEF GivesWay
    <3> QED  BY <1>3, <2>3, <3>1, LivesIs DEF Status
  <2> QED  BY <2>2, <2>3
<1> QED  BY <1>1, <1>2, <1>3 DEF Left

(* What is told of an order by the next tick continues what was told before,
   and is a beginning of its story.                                         *)
LEMMA TickHears ==
    ASSUME SimulatorTypeOK, AliveInv, NEW p \in Price, TickEffect(p), NEW i \in Ids
    PROVE  Promise!Hears(i)
<1>1. CASE feed'[i] = feed[i]
  BY <1>1 DEF Promise!Hears
<1>2. CASE feed'[i] # feed[i]
  <2>1. alive' /\ i \in DOMAIN book
    BY <1>2 DEF TickEffect
  <2>2. Told(i) /\ Told(i)' /\ fate[i] = "none"
    BY <2>1, TickTells DEF AliveInv, AllTold
  <2>3. feed[i] = <<>> \/ feed[i] = <<"New">>
    BY <2>1, <2>2 DEF Told
  <2>4. CASE i \in DOMAIN book'
    <3>1. StaysSo(i, p)
      BY <2>1, <2>4, TickKeeps
    <3>2. feed'[i] = <<"New">>
      BY <2>2, <2>4, <3>1 DEF Told, StaysSo
    <3>3. Status(i)' \in {"open", "cancelled"}
      BY <2>4 DEF Status
    <3> QED  BY <1>2, <2>3, <3>2, <3>3
             DEF Promise!Hears, Promise!IsStrictPrefix, Promise!IsPrefix, Promise!Story
  <2>5. CASE i \notin DOMAIN book'
    <3>1. \/ fate'[i] = "Filled" /\ feed'[i] = <<"New", "Fill">> /\ Status(i)' = "filled"
          \/ fate'[i] = "Cancelled" /\ feed'[i] = <<"New", "Cancelled">> /\ Status(i)' = "cancelled"
      <4>1. LeavesSo(i, p)
        BY <2>1, <2>5, TickCases
      <4>2. CASE fate'[i] = "Filled"
        <5>1. Status(i)' = "filled"
          BY <2>5, <4>2 DEF Status
        <5> QED  BY <2>2, <2>5, <4>2, <5>1 DEF Told
      <4>3. CASE fate'[i] = "Cancelled"
        <5>1. Status(i)' = "cancelled"
          BY <2>5, <4>3 DEF Status
        <5> QED  BY <2>2, <2>5, <4>3, <5>1 DEF Told
      <4> QED  BY <4>1, <4>2, <4>3 DEF LeavesSo
    <3>2. CASE feed'[i] = <<"New", "Fill">> /\ Status(i)' = "filled"
      BY <1>2, <2>3, <3>2 DEF Promise!Hears, Promise!IsStrictPrefix, Promise!IsPrefix, Promise!Story
    <3>3. CASE feed'[i] = <<"New", "Cancelled">> /\ Status(i)' = "cancelled"
      BY <1>2, <2>3, <3>3 DEF Promise!Hears, Promise!IsStrictPrefix, Promise!IsPrefix, Promise!Story
    <3> QED  BY <3>1, <3>2, <3>3
  <2> QED  BY <2>4, <2>5
<1> QED  BY <1>1, <1>2

(* The simulator implements OrderLives: an order opens once and ends once, and
   what is announced of it is what happened to it, in order.                 *)
THEOREM PromiseKept == Spec => KeepsThePromise
<1>1. Init => Promise!Init
  BY DEF Init, Promise!Init, Status
<1>2. IInv /\ [Next]_vars => [Promise!Next]_(Promise!vars)
  <2> SUFFICES ASSUME IInv, [Next]_vars PROVE [Promise!Next]_(Promise!vars)
    OBVIOUS
  <2>1. CASE UNCHANGED vars
    BY <2>1 DEF vars, Promise!vars, Status
  <2>2. CASE Request
    BY <2>2, RequestPromise
  <2>3. CASE Compute
    <3>1. PICK p \in Price : Tick(p)
      BY <2>3 DEF Compute
    <3>2. SimulatorTypeOK /\ AliveInv
      BY <3>1 DEF Tick, IInv
    <3>3. TickEffect(p)
      BY <3>1, <3>2, TickHas
    <3>4. \A i \in Ids : Promise!Lives(i) /\ Promise!Hears(i)
      BY <3>2, <3>3, TickLives, TickHears
    <3> QED  BY <3>4 DEF Promise!Next
  <2> QED  BY <2>1, <2>2, <2>3 DEF Next
<1>3. Spec => Promise!Spec
  BY <1>1, <1>2, Invariance, PTL DEF Spec, Promise!Spec
<1> QED  BY <1>3 DEF KeepsThePromise
=============================================================================
