------------------------------- MODULE MCParts -------------------------------
(***************************************************************************)
(* The parts that keep market data and those on the way to an exchange,    *)
(* real or not, side by side.  None of them writes what another one reads, *)
(* so that a behaviour moves a single part, the one in focus, and the      *)
(* others stay as they begin: the states of the run are then the sum and   *)
(* not the product of those of the parts.                                  *)
(***************************************************************************)
EXTENDS SlidingWindow, TimeSet, CandleSeries, CandleStore, OrderBook,
        ExchangeClient, Triggers, TraderGate, Account, Generator, PlotActions, OrderWire

CONSTANT Focuses    \* the parts that move

VARIABLE focus

(* Three levels a side, the walls and the best levels in every order. *)
MarketBids == {<<<<4, a>>, <<p, 2>>, <<1, c>>>> : a \in {1, 3}, p \in {2, 3}, c \in {1, 5}}
MarketAsks == {<<<<5, a>>, <<p, 2>>, <<9, c>>>> : a \in {1, 3}, p \in {6, 8}, c \in {1, 5}}
MarketBooks == [bids : MarketBids, asks : MarketAsks]

(* The frames of a coin that names none: those of the configuration file. *)
MarketFrames == WorkerFrames(<<<<"1m", "default">>, <<"1h", "default">>>>, {})

(* What the app and the test of the trader build trades with, a short trade,
   one that follows the trend with the entry's triggers borrowed from the
   exit, and some that can never be built.                                 *)
SomeConfigs ==
    {AppConfig, PlaygroundConfig, LongWithExitAndStop(4, 6),
     [PlaygroundConfig EXCEPT !.type = "Short"],
     [AppConfig EXCEPT !.entry["deactivator"] = Plain("distance"), !.closer = "TrendFollowing",
                       !.stopType = "StopLoss"],
     [AppConfig EXCEPT !.stops = FALSE],
     [AppConfig EXCEPT !.closer = "NoCloser", !.type = "Short", !.exitType = "Market"]}

OneHalf == <<1, 2>>
SomeBalances == {<<6, 0>>, <<4, 2>>}

(* A coarse and a fine tick; orders from the templates and from the plot,
   with a stop that has its limit on the wrong side and a quantity that is
   rounded to nothing.                                                     *)
TickOf(tick, step) ==
    {[type |-> "PRICE_FILTER", min |-> tick, max |-> 1000000, step |-> tick],
     [type |-> "LOT_SIZE", min |-> step, max |-> 1000000, step |-> step]}

SomeFilters == {TickOf(10, 10), TickOf(1, 10)}

DraftOf(by, side, type, prices) ==
    [by |-> by, standalone |-> FALSE, purpose |-> IF IsStopType(type) THEN "StoplossOrder" ELSE "EntryOrder",
     side |-> side, type |-> type, price |-> prices[1], limit |-> prices[2],
     reference |-> 2004, quantity |-> 27]

SomeDrafts ==
    {DraftOf("template", "Buy", "Limit", <<2008, 0>>),
     [DraftOf("template", "Sell", "Limit", <<2008, 0>>) EXCEPT !.standalone = TRUE],
     DraftOf("template", "Sell", "LimitMaker", <<2008, 0>>),
     DraftOf("template", "Buy", "Market", <<0, 0>>),
     DraftOf("template", "Sell", "StopLoss", <<1019, 0>>),
     DraftOf("template", "Sell", "StopLossLimit", <<1019, 1017>>),
     DraftOf("template", "Buy", "StopLossLimit", <<2019, 2027>>),
     DraftOf("plot", "Buy", "StopLossLimit", <<2019, 2007>>),
     [DraftOf("plot", "Sell", "Market", <<0, 0>>) EXCEPT !.quantity = 7]}

PartsInit ==
    /\ focus \in Focuses
    /\ WindowInit /\ BookInit /\ SeriesInit /\ StoreInit
    /\ ClientInit /\ TriggerInit /\ GateInit /\ AccountInit /\ GeneratorInit /\ PlotInit /\ WireInit
    /\ focus # "series" => goal = 1
    /\ focus # "store" => \A f \in FrameSet : DOMAIN table[f] = {}
    /\ focus # "triggers" => trigger.kind = "none"
    /\ focus # "account" => sheet = <<6, 0>>
    /\ focus # "generator" => wanted = 0 /\ candleSize = 1
    /\ focus # "plot" => market = 3
    /\ focus # "wire" => route = "real" /\ appraiser = NewAppraiser(TickOf(10, 10))

marketVars == <<windowVars, bookVars, seriesVars, storeVars>>
accountSideVars ==
    <<clientVars, triggerVars, gateVars, accountVars, generatorVars, plotVars, wireVars>>

MarketNext ==
    /\ UNCHANGED accountSideVars
    /\ \/ /\ focus = "window" /\ WindowNext
          /\ UNCHANGED <<bookVars, seriesVars, storeVars>>
       \/ /\ focus = "book" /\ BookNext
          /\ UNCHANGED <<windowVars, seriesVars, storeVars>>
       \/ /\ focus = "series" /\ SeriesNext
          /\ UNCHANGED <<windowVars, bookVars, storeVars>>
       \/ /\ focus = "store" /\ StoreNext
          /\ UNCHANGED <<windowVars, bookVars, seriesVars>>

AccountSideNext ==
    /\ UNCHANGED marketVars
    /\ \/ /\ focus = "client" /\ ClientNext
          /\ UNCHANGED <<triggerVars, gateVars, accountVars, generatorVars, plotVars, wireVars>>
       \/ /\ focus = "triggers" /\ TriggerNext
          /\ UNCHANGED <<clientVars, gateVars, accountVars, generatorVars, plotVars, wireVars>>
       \/ /\ focus = "gate" /\ GateNext
          /\ UNCHANGED <<clientVars, triggerVars, accountVars, generatorVars, plotVars, wireVars>>
       \/ /\ focus = "account" /\ AccountNext
          /\ UNCHANGED <<clientVars, triggerVars, gateVars, generatorVars, plotVars, wireVars>>
       \/ /\ focus = "generator" /\ GeneratorNext
          /\ UNCHANGED <<clientVars, triggerVars, gateVars, accountVars, plotVars, wireVars>>
       \/ /\ focus = "plot" /\ PlotNext
          /\ UNCHANGED <<clientVars, triggerVars, gateVars, accountVars, generatorVars, wireVars>>
       \/ /\ focus = "wire" /\ WireNext
          /\ UNCHANGED <<clientVars, triggerVars, gateVars, accountVars, generatorVars, plotVars>>

PartsNext == UNCHANGED focus /\ (MarketNext \/ AccountSideNext)

PartsSpec == PartsInit /\ [][PartsNext]_<<focus, marketVars, accountSideVars>>

=============================================================================
