------------------------------ MODULE TraderGate ------------------------------
(***************************************************************************)
(* trader.rs and cooldown.rs: Trader::create_order, to which market_buy,   *)
(* limit_sell and the others lead, called by any thread that holds a clone *)
(* of the trader.  It asks can_create_order, which takes the read lock     *)
(* only, and then takes the write lock to add the order: between the two   *)
(* another thread may do the same.  One symbol and a fixed free balance.   *)
(* Orders leave the list nowhere in the trader.  Left out: is_paused,      *)
(* which nothing sets, and an id that is there already.                    *)
(***************************************************************************)
EXTENDS Integers, FiniteSetsExt

CONSTANTS
    Askers,         \* threads
    MaxOrders,      \* max_orders
    TotalUses,      \* max_orders_per_cooldown
    Downtime,       \* duration of a cooldown in ticks
    Funds,          \* free amount of the asset an order needs
    Amounts         \* amounts of the orders

ASSUME GateAssumption ==
    /\ MaxOrders \in Nat \ {0} /\ TotalUses \in Nat \ {0} /\ Downtime \in Nat \ {0}
    /\ Funds \in Nat /\ Amounts \subseteq Nat /\ IsFiniteSet(Askers)

Doors == {"entry", "exit"}

VARIABLES
    cooldown,   \* of entry and of exit: [left, cooling, elapsed]
    orders,     \* cx.orders.len()
    asker,      \* each thread: [pc, order]
    passed      \* for the property: the orders let in by each door, with their ages

gateVars == <<cooldown, orders, asker, passed>>

NewOrders == [door : Doors, amount : Amounts, closed : BOOLEAN]
NoOrder == [door |-> "entry", amount |-> 0, closed |-> TRUE]
IdleAsker == [pc |-> "idle", order |-> NoOrder]

-----------------------------------------------------------------------------
(* cooldown.rs *)

NewCooldown == [left |-> TotalUses, cooling |-> FALSE, elapsed |-> 0]

IsCooldownExpired(c) == c.cooling /\ c.elapsed >= Downtime
IsAvailable(c) == (c.left > 0 /\ ~c.cooling) \/ IsCooldownExpired(c)

(* Mutant: the last use does not start the downtime. *)
UseWithoutEnd(c) ==
    IF c.left > 1 THEN [c EXCEPT !.left = @ - 1] ELSE [c EXCEPT !.left = TotalUses]

(* use_cooldown, of one that is available: the last use starts the clock, and
   the use that ends the downtime is not counted.                           *)
UseCooldown(c) ==
    IF c.left > 0 /\ ~c.cooling
    THEN [left |-> c.left - 1, cooling |-> c.left = 1, elapsed |-> IF c.left = 1 THEN 0 ELSE c.elapsed]
    ELSE [c EXCEPT !.left = TotalUses, !.cooling = FALSE]

-----------------------------------------------------------------------------

GateInit ==
    /\ cooldown = [d \in Doors |-> NewCooldown]
    /\ orders = 0
    /\ asker = [t \in Askers |-> IdleAsker]
    /\ passed = [d \in Doors |-> {}]

(* create_order is called with an order that validates. *)
AskForOrder(t, o) ==
    /\ asker[t].pc = "idle"
    /\ asker' = [asker EXCEPT ![t] = [pc |-> "asked", order |-> o]]
    /\ UNCHANGED <<cooldown, orders, passed>>

(* can_create_order; what is free is not reserved for the order. *)
CanCreateOrder(o) ==
    /\ ~o.closed
    /\ orders < MaxOrders
    /\ IsAvailable(cooldown[o.door])
    /\ Funds >= o.amount

(* Under the read lock; a refusal is an Ok like any other. *)
AskTrader(t) ==
    /\ asker[t].pc = "asked"
    /\ asker' = [asker EXCEPT ![t] = IF CanCreateOrder(asker[t].order)
                                     THEN [asker[t] EXCEPT !.pc = "allowed"] ELSE IdleAsker]
    /\ UNCHANGED <<cooldown, orders, passed>>

(* Under the write lock; an order whose cooldown another thread has used up
   is dropped without a word.                                              *)
EnterOrder(t) ==
    /\ asker[t].pc = "allowed"
    /\ asker' = [asker EXCEPT ![t] = IdleAsker]
    /\ \E door \in {asker[t].order.door} :
        IF IsAvailable(cooldown[door])
        THEN /\ cooldown' = [cooldown EXCEPT ![door] = UseCooldown(@)]
             /\ orders' = orders + 1
             /\ passed' = [passed EXCEPT ![door] = @ \cup {[nr |-> orders, age |-> 0]}]
        ELSE UNCHANGED <<cooldown, orders, passed>>

GateTick ==
    /\ cooldown' = [d \in Doors |-> [cooldown[d] EXCEPT !.elapsed = Min({@ + 1, Downtime})]]
    /\ passed' = [d \in Doors |->
                    {[p EXCEPT !.age = @ + 1] : p \in {q \in passed[d] : q.age + 1 < Downtime}}]
    /\ UNCHANGED <<orders, asker>>

GateNext ==
    \/ GateTick
    \/ \E t \in Askers : AskTrader(t) \/ EnterOrder(t) \/ \E o \in NewOrders : AskForOrder(t, o)

GateSpec == GateInit /\ [][GateNext]_gateVars

-----------------------------------------------------------------------------
(* Within less than the downtime a door lets in as many orders as it has uses,
   and one more, the one that ended the last downtime, whichever threads ask;
   and the limit of the orders is passed by at most one for each of the other
   threads, which had all been let through before.                          *)
OrdersWithinLimits ==
    /\ \A d \in Doors : Cardinality(passed[d]) <= TotalUses + 1
    /\ orders <= MaxOrders + Cardinality(Askers) - 1
=============================================================================
