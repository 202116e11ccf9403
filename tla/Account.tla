------------------------------- MODULE Account -------------------------------
(***************************************************************************)
(* context.rs, balance.rs and position.rs, with the loop of command_run    *)
(* that reads the user stream: the exchange tells of orders and of the     *)
(* account; the loop takes the events one after the other, an order's into *)
(* the position and the trader, the account's into the balance sheet that  *)
(* the trading threads read.  What the trader does with an order's event   *)
(* is in TradeExchange.  One symbol and one asset.                         *)
(*                                                                         *)
(* Decimals are fractions, so that an average price is exact; the program  *)
(* rounds it to 28 digits.                                                 *)
(***************************************************************************)
EXTENDS Integers, Sequences, FiniteSetsExt

CONSTANTS
    FillAmounts, FillPrices,
    Balances,       \* <<free, locked>> as the exchange reports it
    MaxEvents       \* bound on the events the exchange sends

ASSUME AccountAssumption ==
    /\ FillAmounts \subseteq Nat \ {0} /\ FillPrices \subseteq Nat \ {0}
    /\ Balances \subseteq Nat \X Nat /\ Balances # {} /\ MaxEvents \in Nat

VARIABLES
    started,    \* run has returned, and the loop has been started
    stream,     \* the channel of user events
    told,       \* events sent so far
    reading,    \* FALSE once the loop has panicked
    sheet,      \* <<free, locked>> in the balance sheet
    writing,    \* the update whose locked amount is still to be set
    reports,    \* the last two reports that were, or are being, written
    view,       \* what a trading thread got last
    position,
    shorted     \* for the property: more has been sold than was held

sheetVars == <<sheet, writing, reports>>
positionVars == <<position, shorted>>
accountVars == <<started, stream, told, reading, sheetVars, view, positionVars>>

Nobody == <<>>

-----------------------------------------------------------------------------
(* Fractions in lowest terms, with a positive denominator. *)

Reduced(n, d) == LET g == Max({k \in 1 .. d : n % k = 0 /\ d % k = 0}) IN <<n \div g, d \div g>>
Whole(n) == <<n, 1>>
Plus(x, y) == Reduced(x[1] * y[2] + y[1] * x[2], x[2] * y[2])
Times(x, n) == Reduced(x[1] * n, x[2])
Minus(x, y) == Plus(x, Times(y, -1))
Over(x, n) == IF n > 0 THEN Reduced(x[1], x[2] * n) ELSE Reduced(0 - x[1], x[2] * (0 - n))

-----------------------------------------------------------------------------
(* position.rs *)

NewPosition ==
    [held |-> 0, invested |-> 0, allocated |-> 0, revenue |-> 0,
     average |-> Whole(0), realized |-> Whole(0)]

(* Mutant: the average is taken before the amount is added. *)
UpdateOnBuyEarly(p, amount, price) ==
    [p EXCEPT !.invested = @ + amount * price, !.allocated = @ + amount * price, !.held = @ + amount,
              !.average = IF p.held # 0 THEN Over(Plus(Times(p.average, p.held), Whole(amount * price)), p.held)
                          ELSE Whole(price)]

UpdateOnBuy(p, amount, price) ==
    LET cost == Plus(Times(p.average, p.held), Whole(amount * price))
        held == p.held + amount
    IN  [p EXCEPT !.invested = @ + amount * price, !.allocated = @ + amount * price, !.held = held,
                  !.average = IF held # 0 THEN Over(cost, held) ELSE Whole(0)]

UpdateOnSell(p, amount, price) ==
    [p EXCEPT !.revenue = @ + amount * price, !.held = @ - amount,
              !.realized = Plus(@, Times(Minus(Whole(price), p.average), amount))]

RegisterTrade(p, side, amount, price) ==
    IF side = "Buy" THEN UpdateOnBuy(p, amount, price) ELSE UpdateOnSell(p, amount, price)

-----------------------------------------------------------------------------
(* The events.  "fill" is a trade that fills an order, in part or not; every
   other event of an order is "order", and no business of the position.     *)
Events ==
    [kind : {"fill"}, side : {"Buy", "Sell"}, amount : FillAmounts, price : FillPrices]
    \cup [kind : {"order", "balance"}]
    \cup [kind : {"account"}, report : Balances]

(* ContextInstance::new fetches the account and fills the sheet. *)
AccountInit ==
    /\ started = FALSE /\ reading = TRUE
    /\ stream = <<>> /\ told = 0
    /\ sheet \in Balances
    /\ writing = Nobody /\ reports = <<sheet, sheet>> /\ view = sheet
    /\ position = NewPosition /\ shorted = FALSE

(* The stream is subscribed to before the context is even made. *)
Tell(e) ==
    /\ told < MaxEvents
    /\ told' = told + 1
    /\ stream' = Append(stream, e)
    /\ UNCHANGED <<started, reading, sheetVars, view, positionVars>>

(* run has started the coin workers, and the loop's thread is spawned. *)
StartLoop ==
    /\ ~started
    /\ started' = TRUE
    /\ UNCHANGED <<stream, told, reading, sheetVars, view, positionVars>>

TakeEvent(kind) ==
    /\ started /\ reading /\ writing = Nobody
    /\ stream # <<>> /\ Head(stream).kind = kind
    /\ stream' = Tail(stream)

(* process_order_update: the position is updated before the trader looks for
   the order, and stays so if it finds none.                                *)
ProcessFill ==
    /\ TakeEvent("fill")
    /\ \E e \in {Head(stream)} :
        /\ position' = RegisterTrade(position, e.side, e.amount, e.price)
        /\ shorted' = (shorted \/ position'.held < 0)
    /\ UNCHANGED <<started, told, reading, sheetVars, view>>

ProcessOrderUpdate ==
    /\ TakeEvent("order")
    /\ UNCHANGED <<started, told, reading, sheetVars, view, positionVars>>

(* Mutant: the first half sets the locked amount. *)
SetLockedFirst ==
    /\ TakeEvent("account")
    /\ \E r \in {Head(stream).report} :
        /\ sheet' = [sheet EXCEPT ![2] = r[2]]
        /\ writing' = <<r[1], r[2]>>
        /\ reports' = <<reports[2], r>>
    /\ UNCHANGED <<started, told, reading, view, positionVars>>

(* process_account_update: set_free, and then, in a locking of its own,
   set_locked.                                                              *)
SetFree ==
    /\ TakeEvent("account")
    /\ \E r \in {Head(stream).report} :
        /\ sheet' = [sheet EXCEPT ![1] = r[1]]
        /\ writing' = r
        /\ reports' = <<reports[2], r>>
    /\ UNCHANGED <<started, told, reading, view, positionVars>>

SetLocked ==
    /\ writing # Nobody
    /\ sheet' = [sheet EXCEPT ![2] = writing[2]]
    /\ writing' = Nobody
    /\ UNCHANGED <<started, stream, told, reading, reports, view, positionVars>>

(* process_balance_update is not implemented: it panics, and the loop with it. *)
ProcessBalanceUpdate ==
    /\ TakeEvent("balance")
    /\ reading' = FALSE
    /\ UNCHANGED <<started, told, sheetVars, view, positionVars>>

(* get, to which total, free, check and query all come down. *)
Get ==
    /\ view' = sheet
    /\ UNCHANGED <<started, stream, told, reading, sheetVars, positionVars>>

AccountNext ==
    \/ \E e \in Events : Tell(e)
    \/ StartLoop
    \/ ProcessFill \/ ProcessOrderUpdate \/ SetFree \/ SetLocked \/ ProcessBalanceUpdate
    \/ Get

AccountSpec == AccountInit /\ [][AccountNext]_accountVars

-----------------------------------------------------------------------------
SameNumber(x, y) == x[1] * y[2] = y[1] * x[2]

(* As long as no more was sold than was held, the books balance: what was
   earned and what is held at its average price is what was invested and what
   has been made of it, to the last fraction, for any fills in any order.    *)
BooksBalance ==
    shorted \/ SameNumber(Plus(Whole(position.revenue), Times(position.average, position.held)),
                          Plus(Whole(position.invested), position.realized))

(* What a trading thread gets between the two halves of an update is the free
   amount of the newer report with the locked amount of the older: an order
   just released is counted twice in the total, one just placed not at all,
   but never is the free amount older than the locked one.                  *)
ReadsAreRecent ==
    [][Get => view' \in {reports[2], <<reports[2][1], reports[1][2]>>}]_accountVars
=============================================================================
