----------------------------- MODULE Simulator -----------------------------
(***************************************************************************)
(* The simulated exchange: src/src/simulator.rs and simulator_order.rs.    *)
(*                                                                         *)
(* One worker thread takes a request, if there is one, answers it, and     *)
(* then computes the next tick (PlaygroundContext::start_simulator_worker).*)
(* There is a tick after every request.  A request changes the book at     *)
(* once, but what it changed is announced by that tick, when the events of *)
(* every order are collected and the orders that have ended leave the book.*)
(*                                                                         *)
(* Orders carry an internal id (new_id_u64, here the next number) and the  *)
(* id their client gave them; `ids` maps the one to the other.  Orders are *)
(* filled whole, so quantities are left out.  A request that is refused    *)
(* changes nothing but the statistics, which are left out too: a refusal   *)
(* is a guard.  The events of one order are kept in order; no property     *)
(* looks at how those of different orders are mixed.                       *)
(***************************************************************************)
EXTENDS Naturals, Sequences, FiniteSets

CONSTANTS
    Clients,    \* ids a client may give to an order
    MaxId,      \* bound: orders that are ever created
    MaxPrice,   \* market prices are 1..MaxPrice
    Types,      \* types of the orders requested
    Sides,      \* sides of the orders requested
    OcoStops    \* types of the stop leg of a pair: {} when no pair is requested

OrderTypes == {"Market", "Limit", "LimitMaker", "StopLoss", "StopLossLimit"}

ASSUME SimulatorAssumption ==
    /\ MaxId \in Nat /\ MaxPrice \in Nat \ {0}
    /\ 0 \notin Clients
    /\ Types \subseteq OrderTypes
    /\ Sides \subseteq {"Buy", "Sell"}
    /\ OcoStops \subseteq {"StopLoss", "StopLossLimit"}

Ids == 1..MaxId

VARIABLES
    book,       \* the orders kept, by internal id
    ids,        \* client_to_internal_id_map
    market,     \* market_price
    previous,   \* previous_market_price
    alive,      \* the worker thread has not panicked
    taken,      \* a request was taken since the last tick
    nextId,     \* the next internal id
    feed,       \* history: what was announced of each order
    fate,       \* history: how the orders that left the book have ended
    root        \* history: the order or pair an order goes back to

vars == <<book, ids, market, previous, alive, taken, nextId, feed, fate, root>>

Price == 1..MaxPrice

EventKind == {"New", "Fill", "Cancelled"}

(* replace_with_on_cancel: its id, the client's id, type and prices. *)
NoReplacement == [id |-> 0, client |-> 0, type |-> "Limit", price |-> 0, limit |-> 0]

Replacement ==
    [id : Ids, client : Clients, type : OrderTypes, price : Price, limit : 0..MaxPrice]

SimulatorOrder ==
    [client  : Clients,
     other   : Ids \cup {0},                 \* other_order_id, of a pair
     byOther : BOOLEAN,                      \* is_cancelled_by_other_order
     mode    : {"Regular", "StopTriggered"},
     side    : {"Buy", "Sell"},
     type    : OrderTypes,
     price   : 0..MaxPrice,
     limit   : 0..MaxPrice,                  \* limit_price, 0 for None
     state   : {"Opened", "Filled", "Cancelled"},
     repl    : Replacement \cup {NoReplacement},
     news    : Seq(EventKind)]               \* events not yet collected

Init ==
    /\ book = [i \in {} |-> NoReplacement]
    /\ ids = [c \in {} |-> 0]
    /\ market = 0
    /\ previous = 0
    /\ alive = TRUE
    /\ taken = FALSE
    /\ nextId = 1
    /\ feed = [i \in Ids |-> <<>>]
    /\ fate = [i \in Ids |-> "none"]
    /\ root = [i \in Ids |-> 0]

----------------------------------------------------------------------------
(* Functions with one more, or with fewer, arguments. *)

Extend(f, g)   == [x \in DOMAIN f \cup DOMAIN g |-> IF x \in DOMAIN g THEN g[x] ELSE f[x]]
Without(f, S)  == [x \in DOMAIN f \ S |-> f[x]]
At(x, v)       == [y \in {x} |-> v]

----------------------------------------------------------------------------
(* Requests *)

IsStop(type) == type \in {"StopLoss", "StopLossLimit"}

(* SimulatorOrder::validate, as far as prices go. *)
IsValid(type, price, limit) ==
    /\ type = "Market" => price = market
    /\ type = "StopLossLimit" => limit > 0

(* create_order: a LIMIT_MAKER must not match at once. *)
WouldTake(type, side, price) ==
    /\ type = "LimitMaker"
    /\ IF side = "Buy" THEN market <= price ELSE market >= price

(* The ids of what a client has asked for and not seen the end of. *)
InUse == {book[i].client : i \in DOMAIN book} \cup {book[i].repl.client : i \in DOMAIN book}

NewOrder(client, type, side, price, limit, other) ==
    [client |-> client, other |-> other, byOther |-> FALSE, mode |-> "Regular", side |-> side,
     type |-> type, price |-> price, limit |-> limit, state |-> "Opened",
     repl |-> NoReplacement, news |-> <<"New">>]

(* A client uses an id again only after the end of the order that had it. *)
CreateOrder(client, type, side, price, limit) ==
    /\ alive /\ nextId <= MaxId
    /\ client \notin InUse
    /\ IsValid(type, price, limit)
    /\ ~WouldTake(type, side, price)
    /\ book' = Extend(book, At(nextId, NewOrder(client, type, side, price, limit, 0)))
    /\ ids' = Extend(ids, At(client, nextId))
    /\ nextId' = nextId + 1
    /\ root' = [root EXCEPT ![nextId] = nextId]
    /\ UNCHANGED <<market, previous, alive, feed, fate>>

(* create_oco_order: a limit order and a stop order, each the other's. *)
CreateOcoOrder(limitClient, stopClient, side, price, stopType, stopPrice, stopLimit) ==
    LET l == nextId
        s == nextId + 1
    IN  /\ alive /\ s <= MaxId
        /\ {limitClient, stopClient} \cap InUse = {} /\ limitClient # stopClient
        /\ IsValid(stopType, stopPrice, stopLimit)
        /\ book' = Extend(book,
                     Extend(At(l, NewOrder(limitClient, "Limit", side, price, 0, s)),
                            At(s, NewOrder(stopClient, stopType, side, stopPrice, stopLimit, l))))
        /\ ids' = Extend(ids, Extend(At(limitClient, l), At(stopClient, s)))
        /\ nextId' = nextId + 2
        /\ root' = [root EXCEPT ![l] = l, ![s] = l]
        /\ UNCHANGED <<market, previous, alive, feed, fate>>

(* Mutant: the other leg of a pair is left as it is. *)
CancelledByClientOnly(o, byOther) ==
    IF o.state # "Opened" \/ byOther THEN o
    ELSE [o EXCEPT !.state = "Cancelled", !.news = Append(o.news, "Cancelled")]

(* Mutant: a cancellation is not announced. *)
CancelledSilently(o, byOther) ==
    IF o.state # "Opened" THEN o ELSE [o EXCEPT !.byOther = byOther, !.state = "Cancelled"]

(* SimulatorOrder::cancel *)
Cancelled(o, byOther) ==
    IF o.state # "Opened" THEN o
    ELSE [o EXCEPT !.byOther = byOther, !.state = "Cancelled",
                   !.news = Append(o.news, "Cancelled")]

CancelOrder(client) ==
    /\ alive
    /\ client \in DOMAIN ids /\ ids[client] \in DOMAIN book
    /\ book' = [book EXCEPT ![ids[client]] = Cancelled(@, FALSE)]
    /\ UNCHANGED <<ids, market, previous, alive, nextId, feed, fate, root>>

(* Mutant: the replacement keeps the id its client gave the original. *)
EmbeddedUnderTheOldId(o, client, type, price, limit) ==
    [o EXCEPT !.repl = [id |-> nextId, client |-> o.client, type |-> type,
                        price |-> price, limit |-> limit]]

Embedded(o, client, type, price, limit) ==
    [o EXCEPT !.repl = [id |-> nextId, client |-> client, type |-> type,
                        price |-> price, limit |-> limit]]

(* cancel_replace_order: the replacement is embedded in the order it is to
   replace, which is then cancelled.                                        *)
CancelReplaceOrder(client, newClient, type, price, limit) ==
    LET i == ids[client]
    IN  /\ alive /\ nextId <= MaxId
        /\ client \in DOMAIN ids /\ i \in DOMAIN book
        /\ newClient \notin DOMAIN ids /\ newClient \notin InUse
        /\ book[i].state = "Opened"
        /\ IsStop(book[i].type) <=> IsStop(type)
        /\ book' = [book EXCEPT ![i] =
                      Cancelled(Embedded(book[i], newClient, type, price, limit), FALSE)]
        /\ nextId' = nextId + 1
        /\ root' = [root EXCEPT ![nextId] = root[i]]
        /\ UNCHANGED <<ids, market, previous, alive, feed, fate>>

----------------------------------------------------------------------------
(* A tick *)

(* compute_stoploss_limit: the stop price is crossed between two ticks. *)
Crosses(o, p) ==
    /\ o.type = "StopLossLimit" /\ o.mode = "Regular"
    /\ IF o.side = "Buy" THEN previous < o.price /\ p >= o.price
                         ELSE previous > o.price /\ p <= o.price

Triggered(o, p) == o.mode = "StopTriggered" \/ Crosses(o, p)

Matches(o, p) ==
    CASE o.type \in {"Market", "StopLoss"} -> TRUE
      [] o.type \in {"Limit", "LimitMaker"} ->
            IF o.side = "Buy" THEN p <= o.price ELSE p >= o.price
      [] o.type = "StopLossLimit" ->
            Triggered(o, p) /\ IF o.side = "Buy" THEN p >= o.limit ELSE p <= o.limit

(* Mutant: an order that was cancelled since the last tick is matched. *)
ComputedAfterCancel(o, p) ==
    LET m == [o EXCEPT !.mode = IF Triggered(o, p) THEN "StopTriggered" ELSE o.mode]
    IN  IF Matches(o, p) THEN [m EXCEPT !.state = "Filled", !.news = Append(o.news, "Fill")]
        ELSE m

(* SimulatorOrder::compute *)
Computed(o, p) ==
    LET m == [o EXCEPT !.mode = IF Triggered(o, p) THEN "StopTriggered" ELSE o.mode]
    IN  IF o.state # "Opened" THEN o
        ELSE IF Matches(o, p)
        THEN [m EXCEPT !.state = "Filled", !.news = Append(o.news, "Fill")]
        ELSE m

Replaces(o) == o.state = "Cancelled" /\ o.repl # NoReplacement

Opened(o) == NewOrder(o.repl.client, o.repl.type, o.side, o.repl.price, o.repl.limit, 0)

(* What the book becomes: `now` the orders computed, `ended` those of them
   that leave, `replaced` those that make way for their replacement and
   `others` the other legs of what ended by itself.                         *)
Tick(p) ==
    LET now      == [i \in DOMAIN book |-> Computed(book[i], p)]
        ended    == {i \in DOMAIN now : now[i].state # "Opened"}
        kept     == [i \in DOMAIN now \ ended |-> [now[i] EXCEPT !.news = <<>>]]
        replaced == {i \in ended : Replaces(now[i])}
        fresh    == [j \in {now[i].repl.id : i \in replaced} |->
                        Opened(now[CHOOSE i \in replaced : now[i].repl.id = j])]
        freshIds == [c \in {now[i].repl.client : i \in replaced} |->
                        now[CHOOSE i \in replaced : now[i].repl.client = c].repl.id]
        others   == {now[i].other : i \in {x \in ended : ~now[x].byOther}} \ {0}
        opened   == Extend(kept, fresh)
    IN  /\ alive
        /\ taken' = FALSE
        /\ market' = p
        /\ alive' = (others \subseteq DOMAIN kept)
        /\ fate' = [i \in Ids |-> IF i \in ended THEN now[i].state ELSE fate[i]]
        /\ book' = [i \in DOMAIN opened |->
                      IF i \in others THEN Cancelled(opened[i], TRUE) ELSE opened[i]]
        (* An error drops the events collected, and ends the thread. *)
        /\ IF others \subseteq DOMAIN kept
           THEN /\ ids' = Without(Extend(ids, freshIds), {now[i].client : i \in ended})
                /\ feed' = [i \in Ids |-> IF i \in DOMAIN now THEN feed[i] \o now[i].news
                                          ELSE feed[i]]
                /\ previous' = p
           ELSE /\ ids' = Extend(ids, freshIds)
                /\ UNCHANGED <<feed, previous>>
        /\ UNCHANGED <<nextId, root>>

----------------------------------------------------------------------------
LimitPrices(type) == IF type = "StopLossLimit" THEN Price ELSE {0}

Request ==
    /\ ~taken
    /\ taken' = TRUE
    (* The exchange client gives a market order the price 0. *)
    /\ \/ \E c \in Clients, t \in Types, s \in Sides :
             \E p \in IF t = "Market" THEN {0} ELSE Price : \E l \in LimitPrices(t) :
                 CreateOrder(c, t, s, p, l)
       \/ \E c \in Clients : CancelOrder(c)
       \/ \E c, n \in Clients, t \in Types \ {"Market"}, p \in Price : \E l \in LimitPrices(t) :
             CancelReplaceOrder(c, n, t, p, l)
       (* The legs of a selling pair: the limit above the stop. *)
       \/ \E c, n \in Clients, t \in OcoStops, p, q \in Price :
             \E l \in IF t = "StopLossLimit" THEN 1..q ELSE {0} :
                 q < p /\ CreateOcoOrder(c, n, "Sell", p, t, q, l)

Compute == \E p \in Price : Tick(p)

Next == Request \/ Compute

Spec == Init /\ [][Next]_vars

(* The worker computes a tick at least every millisecond, whatever is asked. *)
FairSpec == Spec /\ WF_vars(Compute)

----------------------------------------------------------------------------
(* Properties *)

(* Every order kept is found under the id its client gave it, and no id
   leads to another order or to none (client_to_internal_id_map).           *)
FoundByClientId ==
    alive => /\ DOMAIN ids = {book[i].client : i \in DOMAIN book}
             /\ \A i \in DOMAIN book : ids[book[i].client] = i

(* Of an order, its replacements and the other leg of its pair only one is
   ever filled.                                                             *)
executed == {i \in Ids : fate[i] = "Filled"}

ExecutedOnce == \A i, j \in executed : root[i] = root[j] => i = j

(* Once one leg of a pair has left the book the other leg is filled no more. *)
OtherLegIsOut ==
    [][\A i \in executed' \ executed :
          book[i].other # 0 => book[i].other \in DOMAIN book]_vars

(* The simulator keeps what OrderLives promises: an order opens once and ends
   once, and what is announced is what happened.  The status of an order is
   read off the book while it is there, off its fate once it has left.      *)
Status(i) ==
    IF i \in DOMAIN book
    THEN IF book[i].state = "Opened" THEN "open" ELSE "cancelled"
    ELSE CASE fate[i] = "none"      -> "none"
           [] fate[i] = "Filled"    -> "filled"
           [] fate[i] = "Cancelled" -> "cancelled"

Promise == INSTANCE OrderLives WITH status <- [i \in Ids |-> Status(i)]

KeepsThePromise == Promise!Spec

(* What is to end is announced in the end. *)
CancelledIsAnnounced ==
    \A i \in Ids :
        i \in DOMAIN book /\ book[i].state = "Cancelled"
            ~> feed[i] = <<"New", "Cancelled">> \/ ~alive

(* What src/src/playground_context.rs expects of Simulator::compute. *)
ComputeNeverFails == alive
=============================================================================
