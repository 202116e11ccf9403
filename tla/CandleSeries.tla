----------------------------- MODULE CandleSeries -----------------------------
(***************************************************************************)
(* The live series of candles of src/src/candle_series.rs, as a coin       *)
(* (src/src/coin.rs) feeds it: klines of the exchange, snapshots of the    *)
(* open candle and the closed candle, and trades.  The klines come in      *)
(* order and so do the trades, but a trade may overtake the kline that     *)
(* closes the candle before it.                                            *)
(*                                                                         *)
(* A candle is its times, whether it is of the series' own time frame,     *)
(* whether it is final, and its volume; the other figures are merged the   *)
(* same way.  The states of the indicators are the candle they were        *)
(* computed from; "fed" lists the candles an indicator has taken for good  *)
(* with init() or next(), which cannot be undone (peek_next can).  Those   *)
(* that are stored and never advanced (the averages of 5, 8 and 13         *)
(* candles, MACD, KST, the parabolic SARs) and those that do not take the  *)
(* candles as they come (the true range and the deviations) are left out.  *)
(***************************************************************************)
EXTENDS Integers, Sequences, SequencesExt

CONSTANTS
    SeriesCapacity, \* candles and states kept
    Goals,          \* base candles that make one candle of the series
    BaseTicks,      \* ticks of a base candle
    LoadedCandles,  \* closed candles in the database at the start
    MaxTicks,       \* bound: the length of a behaviour
    MaxVolume       \* bound: trades in a candle

(* A candle closes after it opens, and a series keeps two at least. *)
ASSUME SeriesAssumption ==
    /\ SeriesCapacity \in Nat \ {0, 1} /\ BaseTicks \in Nat \ {0, 1}
    /\ Goals \subseteq Nat \ {0} /\ LoadedCandles \in Nat
    /\ MaxTicks \in Nat /\ MaxVolume \in Nat

VARIABLES
    series,         \* the CandleSeries
    goal,           \* working_index_goal, fixed
    due,            \* candles of the database not pushed yet
    now,            \* the time of the exchange
    traded,         \* trades of the exchange's open candle so far
    closedBy,       \* the number of klines sent that close a candle
    closing         \* the volume of the candle whose closing kline is due

seriesVars == <<series, goal, due, now, traded, closedBy, closing>>

Kept == INSTANCE BoundedLog WITH Capacity <- SeriesCapacity, Items <- {}, log <- series

KeepIn(s, x) == Kept!Keep(s, x, SeriesCapacity)

NoCandle == [open |-> -1, close |-> -1, main |-> FALSE, final |-> FALSE, volume |-> 0]

Candle(open, ticks, main, final, volume) ==
    [open |-> open, close |-> open + ticks - 1, main |-> main, final |-> final, volume |-> volume]

-----------------------------------------------------------------------------
(* new *)
NewSeries ==
    [candles |-> <<>>, states |-> <<>>, working |-> NoCandle, backup |-> NoCandle,
     next |-> NoCandle, index |-> 0, started |-> FALSE, fed |-> [pair |-> <<>>, alone |-> <<>>]]

LastFinalized(s) == IF s.candles = <<>> THEN NoCandle ELSE Last(s.candles)

(* head_candle *)
HeadCandle(s) == IF s.working # NoCandle THEN s.working ELSE LastFinalized(s)

NumCandles(s) == Len(s.candles) + (IF s.working # NoCandle THEN 1 ELSE 0)

(* get_candle: 0 is the working candle, but 1 is already the second of the
   closed ones.                                                            *)
GetCandle(s, i) ==
    IF i = 0 THEN s.working
    ELSE IF i >= Len(s.candles) THEN NoCandle ELSE s.candles[Len(s.candles) - i]

(* The indicators as they are stored: ema_3 and ema_21 ("pair") have taken
   the two oldest candles kept.  The Fibonacci averages, the RSIs, the bands,
   the channel and KAMA ("alone") have taken the oldest only.              *)
WorkingState(s) ==
    LET c0 == s.candles[1].open
    IN  [s EXCEPT !.started = TRUE, !.fed = [pair |-> <<c0, s.candles[2].open>>, alone |-> <<c0>>]]

(* initialize_working_state: the indicators are made when there are three
   candles, the working one among them.                                    *)
InitializeWorkingState(s) == IF s.started \/ NumCandles(s) < 3 THEN s ELSE WorkingState(s)

(* next for a closed candle, peek_next for an open one. *)
Feed(s) ==
    LET c == HeadCandle(s).open
    IN  IF HeadCandle(s).final
        THEN [s EXCEPT !.fed = [pair |-> Append(@.pair, c), alone |-> Append(@.alone, c)]] ELSE s

(* The state of a closed candle is a new one, that of an open one takes the
   place of the newest.                                                    *)
KeepState(s) ==
    [s EXCEPT !.states = IF HeadCandle(s).final \/ s.states = <<>> THEN KeepIn(@, HeadCandle(s))
                         ELSE ReplaceAt(@, Len(@), HeadCandle(s))]

(* compute: with two candles at least, and once the indicators are made. *)
Compute(s) ==
    LET ready == InitializeWorkingState(s)
    IN  IF NumCandles(s) < 2 \/ ~ready.started THEN s ELSE KeepState(Feed(ready))

(* Pushing the working candle into the series. *)
Finalize(s) == [s EXCEPT !.candles = KeepIn(@, [s.working EXCEPT !.final = TRUE]), !.working = NoCandle]

(* push_candle, the candle is a base candle of a larger one: the candle that
   opens the larger one counts towards the goal, and the others only touch
   the working candle.                                                     *)
Aggregate(s, c, g) ==
    LET fresh == s.working = NoCandle
        working == IF fresh THEN [c EXCEPT !.close = c.open + g * BaseTicks - 1, !.main = TRUE, !.final = FALSE]
                   ELSE s.working
        index == IF fresh THEN 0 ELSE s.index
        backup == IF s.backup = NoCandle THEN working ELSE s.backup
        volume == IF index = 0 THEN c.volume ELSE backup.volume + c.volume
        counts == c.final /\ c.open = working.open
        merged == [s EXCEPT !.working = [(IF counts THEN backup ELSE working) EXCEPT !.volume = volume],
                            !.backup = IF counts THEN [backup EXCEPT !.volume = volume] ELSE backup,
                            !.index = IF counts THEN index + 1 ELSE index]
    IN  Compute(IF merged.index >= g /\ c.final
                THEN [Finalize(merged) EXCEPT !.backup = NoCandle, !.index = 0]
                ELSE merged)

(* Mutant: a closed working candle is pushed and nothing is computed. *)
TakeOwnUncomputed(s, c) ==
    LET w == s.working
    IN  CASE w = NoCandle /\ c.final -> Compute([s EXCEPT !.candles = KeepIn(@, c)])
          [] w = NoCandle /\ ~c.final -> Compute([s EXCEPT !.working = c])
          [] w # NoCandle /\ c.open <= w.open -> s
          [] w # NoCandle /\ c.open > w.close -> Finalize(s)
          [] OTHER -> Compute([s EXCEPT !.candles = KeepIn(@, w), !.working = c, !.backup = NoCandle])

(* push_candle, the candle is of the series' own frame.  The branch that
   merges a snapshot of the working candle is not here: the check before it
   (the fourth case) returns for every candle that would reach it.         *)
TakeOwn(s, c) ==
    LET w == s.working
    IN  CASE w = NoCandle /\ c.final -> Compute([s EXCEPT !.candles = KeepIn(@, c)])
          [] w = NoCandle /\ ~c.final -> Compute([s EXCEPT !.working = c])
          [] w # NoCandle /\ c.open > w.close /\ w.final -> Compute([Finalize(s) EXCEPT !.next = c])
          [] w # NoCandle /\ c.open <= w.open -> s
          [] w # NoCandle /\ c.open > w.close /\ ~w.final -> Compute(Finalize(s))
          [] w # NoCandle /\ c.open > w.open /\ c.open <= w.close ->
                Compute([s EXCEPT !.candles = KeepIn(@, w), !.working = c, !.backup = NoCandle])

(* Mutant: the candle is pushed whatever the last closed candle covers. *)
PushAnyCandle(s, new, g) ==
    LET c == IF s.next = NoCandle THEN new ELSE s.next
        taken == [s EXCEPT !.next = new]
    IN  IF g > 1 /\ ~c.main THEN Aggregate(taken, c, g) ELSE TakeOwn(taken, c)

(* push_candle: what is taken is the candle of the push before; the first is
   taken twice.                                                            *)
PushCandle(s, new, g) ==
    LET c == IF s.next = NoCandle THEN new ELSE s.next
        taken == [s EXCEPT !.next = new]
    IN  IF c.open < LastFinalized(s).close THEN taken
        ELSE IF g > 1 /\ ~c.main THEN Aggregate(taken, c, g)
        ELSE TakeOwn(taken, c)

(* calculate_candle_start_time: whole frames since midnight, which is 0. *)
StartTime(t) == (t \div BaseTicks) * BaseTicks

(* apply_trade: a trade after the working candle's time closes it and is
   itself in no candle.                                                    *)
ApplyTrade(s, t, g) ==
    CASE s.working # NoCandle /\ t <= s.working.close ->
            Compute([s EXCEPT !.working.volume = @ + 1])
      [] s.working # NoCandle /\ t > s.working.close -> Compute(Finalize(s))
      [] OTHER -> Compute([s EXCEPT !.working = Candle(StartTime(t), BaseTicks, g = 1, FALSE, 1)])

-----------------------------------------------------------------------------
(* The candle of the exchange that is open. *)
Current == StartTime(now)

Kline(open, final, volume) == Candle(open, BaseTicks, goal = 1, final, volume)

SeriesInit ==
    /\ goal \in Goals
    /\ series = NewSeries
    /\ due = IF goal = 1 THEN LoadedCandles + 1 ELSE 0
    /\ now = IF goal = 1 THEN LoadedCandles * BaseTicks ELSE 0
    /\ traded = 1
    /\ closedBy = now \div BaseTicks
    /\ closing = 0

(* coin_worker.rs: a fresh series takes the candles of the database, the last
   of which is still open, before the coin is live; no time passes here.     *)
LoadCandle ==
    /\ due > 0
    /\ series' = PushCandle(series, Candle((LoadedCandles + 1 - due) * BaseTicks, BaseTicks, TRUE, due > 1, 1), 1)
    /\ due' = due - 1
    /\ UNCHANGED <<goal, now, traded, closedBy, closing>>

(* Time passes on the exchange; a candle that ends has a closing kline. *)
SeriesTick ==
    /\ due = 0 /\ now < MaxTicks
    /\ now' = now + 1
    /\ IF StartTime(now + 1) = Current
       THEN UNCHANGED <<traded, closing>>
       ELSE closedBy = Current \div BaseTicks /\ closing' = traded /\ traded' = 0
    /\ UNCHANGED <<series, goal, due, closedBy>>

(* Coin::push_candle with a snapshot of the open candle. *)
PushSnapshot ==
    /\ due = 0 /\ closedBy = Current \div BaseTicks
    /\ traded > 0
    /\ series' = PushCandle(series, Kline(Current, FALSE, traded), goal)
    /\ UNCHANGED <<goal, due, now, traded, closedBy, closing>>

(* Coin::push_candle with a candle that is closed. *)
PushClosed ==
    /\ due = 0 /\ closedBy < Current \div BaseTicks
    /\ series' = PushCandle(series, Kline(closedBy * BaseTicks, TRUE, closing), goal)
    /\ closedBy' = closedBy + 1
    /\ UNCHANGED <<goal, due, now, traded, closing>>

(* Coin::push_trade *)
PushTrade ==
    /\ due = 0 /\ goal = 1
    /\ traded < MaxVolume
    /\ traded' = traded + 1
    /\ series' = ApplyTrade(series, now, goal)
    /\ UNCHANGED <<goal, due, now, closedBy, closing>>

SeriesNext == LoadCandle \/ SeriesTick \/ PushSnapshot \/ PushClosed \/ PushTrade

SeriesSpec == SeriesInit /\ [][SeriesNext]_seriesVars

-----------------------------------------------------------------------------
(* Whatever overtakes what, the closed candles follow one another without
   overlap, and the working candle follows them; what get_candle calls the
   previous candle is older than the one before it.                        *)
CandlesInOrder ==
    LET all == series.candles \o (IF series.working = NoCandle THEN <<>> ELSE <<series.working>>)
    IN  /\ \A i \in 1 .. Len(all) - 1 : all[i].close < all[i + 1].open
        /\ \A i \in 1 .. SeriesCapacity :
            GetCandle(series, i) # NoCandle =>
                GetCandle(series, i - 1) = NoCandle
                    \/ GetCandle(series, i).close < GetCandle(series, i - 1).open

Rises(s) == \A i \in 1 .. Len(s) - 1 : s[i] < s[i + 1]

(* The indicators, which cannot take back a candle, take closed candles only,
   in order and none twice.  ema_3 and ema_21 take every one that is kept;
   the others miss one for ever, the second of those they were made from.
   And the state a strategy reads first was computed from the newest candle. *)
IndicatorsFollow ==
    LET pair == series.fed.pair
        alone == series.fed.alone
    IN  /\ Rises(pair) /\ Rises(alone)
        /\ ~Contains(pair, series.working.open) /\ ~Contains(alone, series.working.open)
        /\ series.started =>
             /\ ~Contains(alone, pair[2])
             /\ \A i \in 1 .. Len(series.candles) :
                  LET c == series.candles[i].open
                  IN  Contains(pair, c) /\ (c # pair[2] => Contains(alone, c))
        /\ series.states # <<>> => Last(series.states) = HeadCandle(series)
=============================================================================
