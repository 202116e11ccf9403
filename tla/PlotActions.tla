------------------------------ MODULE PlotActions ------------------------------
(***************************************************************************)
(* The actions on the plot of the playground, one at a time: the ruler,    *)
(* the bias of the simulated price, and the builder of a trade, whose      *)
(* prices are clicked one after the other while the market moves.  A trade *)
(* that is built waits for an answer to a dialog and then goes to          *)
(* create_trade; the templates of the trader lead there, too.  The pass    *)
(* over the plot and the dialog of a frame are steps of their own.  Any    *)
(* error of an action ends the action, so errors are not told apart.       *)
(* Drawing is left out, and the older app.rs, which does the same without  *)
(* the bias, is left to its configuration.                                 *)
(***************************************************************************)
EXTENDS Triggers, SequencesExt

CONSTANTS
    BuilderConfigs,     \* what TradeBuilderActions are made with
    PlotPoints,         \* prices under the pointer
    TickSize,           \* of the price filter
    MarketPrices,
    MaxTrades           \* bound on the trades of the trader

ASSUME PlotAssumption ==
    /\ PlotPoints \subseteq Nat /\ MarketPrices \subseteq Nat \ {0}
    /\ TickSize \in Nat \ {0} /\ MaxTrades \in Nat \ {0}

VARIABLES
    market,     \* atomic_price of the coin
    action,     \* of the app
    pending,    \* trade_pending_confirmation
    tracked,    \* trades that create_trade has taken
    drag,       \* allow_plot_drag
    bias        \* target price in the configuration of the generator

plotVars == <<market, action, pending, tracked, drag, bias>>

Nowhere == -1
NoAction == [kind |-> "none"]
NoTrade == [by |-> "nobody"]

StopTypes == {"StopLoss", "StopLossLimit"}
Roles == {"activator", "deactivator"}
On(a, d) == [r \in Roles |-> IF r = "activator" THEN a ELSE d]
Plain(kind) == [kind |-> kind]

(* A trade is long or short, and a trigger is of a kind there is. *)
ASSUME BuilderAssumption ==
    \A c \in BuilderConfigs :
        /\ c.type \in {"Long", "Short"}
        /\ \A r \in Roles : "kind" \in DOMAIN c.exit[r] /\ c.exit[r].kind \in TriggerKinds

-----------------------------------------------------------------------------
(* TradeBuilderConfig, of a trade on a time frame, if it is framed. *)

AppConfig ==
    [type |-> "Long", framed |-> TRUE, closer |-> "TakeProfit", closes |-> TRUE, stops |-> TRUE,
     entryType |-> "LimitMaker", exitType |-> "Limit", stopType |-> "StopLossLimit",
     entry |-> On(Plain("instant"), Plain("none")), exit |-> On(Plain("instant"), Plain("none"))]

PlaygroundConfig ==
    [AppConfig EXCEPT !.exit["activator"] =
        [kind |-> "proximity", anchor |-> 0, target |-> 0, ratio |-> Ratio]]

(* long_with_exit_and_stop *)
LongWithExitAndStop(entry, exit) ==
    LET Near(a, t) == [kind |-> "proximity", anchor |-> a, target |-> t, ratio |-> Ratio]
    IN  [AppConfig EXCEPT !.entry = On(Near(entry, exit), Near(entry, exit)),
                          !.exit["activator"] = Near(exit, entry)]

RequiredInputs(c) ==
    <<"entry">> \o (IF c.closes THEN <<"exit">> ELSE <<>>) \o (IF c.stops THEN <<"stop">> ELSE <<>>)

-----------------------------------------------------------------------------
(* A click.  The input it answers is the next of the sequence, and the price
   is compared as it is, before it is normalized to the tick.               *)

IsComplete(a) == Len(a.points) >= Len(RequiredInputs(a.config))
NextInput(a) == RequiredInputs(a.config)[Len(a.points) + 1]

(* Mutant: a short trade takes its stop where a long one does. *)
TakesStopBelow(a, y) ==
    LET short == a.config.type = "Short"
    IN  CASE NextInput(a) = "entry" -> IF short THEN y >= market ELSE y <= market
          [] NextInput(a) = "exit" -> IF short THEN y <= a.points[1] ELSE y >= a.points[1]
          [] NextInput(a) = "stop" -> y <= a.points[1]

TakesClick(a, y) ==
    LET short == a.config.type = "Short"
    IN  CASE NextInput(a) = "entry" -> IF short THEN y >= market ELSE y <= market
          [] NextInput(a) = "exit" -> IF short THEN y <= a.points[1] ELSE y >= a.points[1]
          [] NextInput(a) = "stop" -> IF short THEN y >= a.points[1] ELSE y <= a.points[1]

TickPrice(y) == y - (y % TickSize)

(* get_point *)
PointOf(a, input) ==
    TickPrice(a.points[CHOOSE i \in DOMAIN a.points : RequiredInputs(a.config)[i] = input])

(* A metadata with some parameters given anew. *)
With(given, m) == [p \in DOMAIN given \cup DOMAIN m |-> IF p \in DOMAIN given THEN given[p] ELSE m[p]]

(* The triggers of the entry that need a price are made of those of the exit,
   and the stop gets those of the entry as they are in the configuration.   *)
EntryTriggers(c, entry) ==
    [r \in Roles |->
        CASE c.entry[r].kind = "distance" -> With([anchor |-> entry], c.exit[r])
          [] c.entry[r].kind = "proximity" -> With([anchor |-> market, target |-> entry], c.exit[r])
          [] OTHER -> c.entry[r]]

ExitTriggers(c, entry, exit) ==
    [r \in Roles |->
        CASE c.exit[r].kind = "distance" -> With([anchor |-> entry], c.exit[r])
          [] c.exit[r].kind = "proximity" -> With([anchor |-> entry, target |-> exit], c.exit[r])
          [] OTHER -> c.exit[r]]

StopTriggers(c) == c.entry

AllInitializable(triggers) == \A r \in Roles : IsInitializable(triggers[r])
IntoTriggers(triggers) == [r \in Roles |-> IntoTrigger(triggers[r])]

Sides(type) == IF type = "Long" THEN <<"Buy", "Sell", "Sell">> ELSE <<"Sell", "Buy", "Buy">>

(* Trade::validate, also in create_trade: the orders are of the sides that the
   type of the trade asks for.  That they are of one trade, one time frame
   and one quantity both makers see to.                                      *)
TradeIsValid(t) == t.sides = Sides(t.type)

(* build and what it calls, to the validation of the builder and the trade.
   A trade needs its exit, its stop and its closer whatever is required.    *)
CanBuild(a) ==
    LET c == a.config
    IN  /\ c.closes /\ c.stops
        /\ c.closer = "TakeProfit" \/ (c.closer = "TrendFollowing" /\ c.framed)
        /\ c.entryType \notin StopTypes /\ c.stopType \in StopTypes
        /\ AllInitializable(EntryTriggers(c, PointOf(a, "entry")))
        /\ AllInitializable(ExitTriggers(c, PointOf(a, "entry"), PointOf(a, "exit")))
        /\ AllInitializable(StopTriggers(c))

(* The limit of the stop is below it for a short trade, too; no order is
   validated, and the exit is of the entry's type.                          *)
Build(a) ==
    LET c == a.config
        side == Sides(c.type)[1]
        opposite == IF side = "Buy" THEN "Sell" ELSE "Buy"
    IN  [by |-> "builder", type |-> c.type, sides |-> <<side, opposite, opposite>>,
         entry |-> PointOf(a, "entry"), exit |-> PointOf(a, "exit"), stop |-> PointOf(a, "stop"),
         limit |-> IF c.stopType = "StopLossLimit" THEN "below" ELSE "none",
         exitType |-> c.entryType,
         triggers |-> <<IntoTriggers(EntryTriggers(c, PointOf(a, "entry"))),
                        IntoTriggers(ExitTriggers(c, PointOf(a, "entry"), PointOf(a, "exit"))),
                        IntoTriggers(StopTriggers(c))>>]

-----------------------------------------------------------------------------
(* The templates of the trader, which are validated one by one. *)

OrderTemplateIsValid(type, price) == price # 0 \/ type = "Market"

(* The limit is on the far side of the stop for the side of the exit; but the
   stop is made a Sell, whatever it is asked for, and validated as one.  So
   no template of a short trade is valid.                                    *)
FarSide(c) == IF c.type = "Long" THEN "below" ELSE "above"

StopTemplateIsValid(c, entry, stop) ==
    stop # 0 /\ entry # 0 /\ stop < entry /\ FarSide(c) = "below"

TemplateIsValid(c, entry, exit, stop) ==
    /\ OrderTemplateIsValid(c.entryType, entry) /\ OrderTemplateIsValid(c.exitType, exit)
    /\ c.stopType = "StopLossLimit" /\ StopTemplateIsValid(c, entry, stop)
    /\ c.closer = "TakeProfit" => exit # 0
    /\ c.closer = "TrendFollowing" => c.framed
    /\ c.entryType \notin StopTypes /\ c.exitType \notin StopTypes

TradeTemplate(c, entry, exit, stop) ==
    [by |-> "template", type |-> c.type, sides |-> <<Sides(c.type)[1], Sides(c.type)[2], "Sell">>,
     entry |-> entry, exit |-> exit, stop |-> stop,
     limit |-> FarSide(c), exitType |-> c.exitType,
     triggers |-> [i \in 1 .. 3 |-> IntoTriggers(On(Plain("instant"), Plain("instant")))]]

-----------------------------------------------------------------------------
PlotInit ==
    /\ market \in MarketPrices
    /\ action = NoAction /\ pending = NoTrade /\ tracked = <<>>
    /\ drag = TRUE /\ bias = Nowhere

MarketMoves ==
    /\ \E p \in MarketPrices : market' = p
    /\ UNCHANGED <<action, pending, tracked, drag, bias>>

(* Of the actions whose keys are down the last one is kept. *)
StartAction ==
    /\ action = NoAction
    /\ action' \in [kind : {"ruler"}, state : {"Active"}]
                   \cup [kind : {"bias"}]
                   \cup [kind : {"builder"}, config : BuilderConfigs, points : {<<>>}]
    /\ UNCHANGED <<market, pending, tracked, drag, bias>>

LetGo == action' = NoAction /\ drag' = TRUE

(* Escape ends the action; what a bias has set stays. *)
Escape ==
    /\ action # NoAction
    /\ LetGo
    /\ UNCHANGED <<market, pending, tracked, bias>>

(* The ruler: whether it is cancelled or finished, the app does not let go of
   it.  A frame without shift cancels it, a release over the plot ends it.   *)
RulerFrame ==
    /\ action.kind = "ruler"
    /\ drag' = FALSE
    /\ \E state \in {action.state, "Cancelled", "Finished"} : action' = [action EXCEPT !.state = state]
    /\ UNCHANGED <<market, pending, tracked, bias>>

(* The bias follows the pointer while the button is down. *)
BiasFollows ==
    /\ action.kind = "bias"
    /\ drag' = FALSE
    /\ \E y \in PlotPoints : bias' = y
    /\ UNCHANGED <<market, action, pending, tracked>>

BiasEnds ==
    /\ action.kind = "bias"
    /\ LetGo
    /\ bias' = Nowhere
    /\ UNCHANGED <<market, pending, tracked>>

(* A frame of the builder without a click, or with its key still down. *)
BuilderWaits ==
    /\ action.kind = "builder"
    /\ drag' = FALSE
    /\ UNCHANGED <<market, action, pending, tracked, bias>>

(* The builder is clicked, and built with the last click.  A price on the
   wrong side ends it as any other error does.                              *)
BuilderClick(y) ==
    /\ action.kind = "builder"
    /\ \E clicked \in {[action EXCEPT !.points = Append(@, y)]} :
        IF ~TakesClick(action, y) THEN LetGo /\ UNCHANGED pending
        ELSE IF ~IsComplete(clicked) THEN action' = clicked /\ drag' = FALSE /\ UNCHANGED pending
        ELSE LetGo /\ pending' = IF CanBuild(clicked) /\ TradeIsValid(Build(clicked)) THEN Build(clicked) ELSE pending
    /\ UNCHANGED <<market, tracked, bias>>

(* The pointer is beneath the plot, where prices are negative. *)
BuilderFails ==
    /\ action.kind = "builder"
    /\ LetGo
    /\ UNCHANGED <<market, pending, tracked, bias>>

(* The dialog.  Nothing asks again where the market is. *)
Confirm ==
    /\ pending # NoTrade /\ Len(tracked) < MaxTrades
    /\ tracked' = (IF TradeIsValid(pending) THEN Append(tracked, pending) ELSE tracked)
    /\ pending' = NoTrade
    /\ UNCHANGED <<market, action, drag, bias>>

Decline ==
    /\ pending # NoTrade
    /\ pending' = NoTrade
    /\ UNCHANGED <<market, action, tracked, drag, bias>>

(* A caller of the trader has a trade made from the templates. *)
CreateFromTemplate(c, entry, exit, stop) ==
    /\ Len(tracked) < MaxTrades
    /\ TemplateIsValid(c, entry, exit, stop) /\ TradeIsValid(TradeTemplate(c, entry, exit, stop))
    /\ tracked' = Append(tracked, TradeTemplate(c, entry, exit, stop))
    /\ UNCHANGED <<market, action, pending, drag, bias>>

PlotNext ==
    /\ Len(tracked) < MaxTrades
    /\ \/ MarketMoves \/ StartAction \/ Escape \/ RulerFrame \/ BiasFollows \/ BiasEnds
       \/ BuilderWaits \/ BuilderFails \/ Confirm \/ Decline
       \/ \E y \in PlotPoints : BuilderClick(y)
       \/ /\ action = NoAction /\ pending = NoTrade     \* which it does not depend on
          /\ \E c \in BuilderConfigs : \E entry, exit, stop \in PlotPoints :
                CreateFromTemplate(c, entry, exit, stop)

PlotSpec == PlotInit /\ [][PlotNext]_plotVars

-----------------------------------------------------------------------------
(* Whatever the market does between the clicks and the answer, the orders of a
   trade fit each other: the exit and the stop undo the entry; for a long
   trade the stop is not above and the exit not below the entry, for a short
   one the other way round; a template keeps the stop strictly off the entry
   and its limit beyond it, which the builder does not for a short trade; and
   an exit that waits for a price to come near waits for its own.            *)
StandsInOrder(t) ==
    /\ t.sides[2] = t.sides[3] /\ t.sides[1] # t.sides[2]
    /\ IF t.type = "Long" THEN t.stop <= t.entry /\ t.limit # "above"
                          ELSE t.stop >= t.entry
    /\ t.by = "builder" => IF t.type = "Long" THEN t.exit >= t.entry ELSE t.exit <= t.entry
    /\ t.by = "template" => t.stop # t.entry /\ t.limit = (IF t.type = "Long" THEN "below" ELSE "above")
    /\ t.triggers[2]["activator"].kind = "proximity" =>
            t.triggers[2]["activator"].anchor = t.entry /\ t.triggers[2]["activator"].target = t.exit

TradesStandInOrder == \A t \in Range(tracked) \cup ({pending} \ {NoTrade}) : StandsInOrder(t)

(* Once no action is under way the plot can be dragged, and the simulated
   price is no longer drawn to a target: as playground_app.rs has it, the bias
   is to be cleared, whether the action has finished or was cancelled.       *)
PlotIsReleased == action = NoAction => drag /\ bias = Nowhere
=============================================================================
