------------------------------- MODULE Generator -------------------------------
(***************************************************************************)
(* simulator_generator.rs: the candles of the playground.  Each compute is *)
(* a tick with a price; after a number of ticks drawn anew each time the   *)
(* base frame rotates to its next candle, and after a number of base       *)
(* candles so does each other frame.  The candles go through the push of   *)
(* CandleSeries, which takes a candle one push late.                       *)
(*                                                                         *)
(* A candle is that of CandleSeries.  The price of a tick is left out and  *)
(* its volume is 1, so that a base candle's volume counts its ticks.  The  *)
(* candles drawn, ui, are their opening times.  Of the indicators there is *)
(* how often they took a candle for good, which cannot be undone.          *)
(***************************************************************************)
EXTENDS Integers, Sequences, SequencesExt

CONSTANTS
    GenCapacity,    \* series_capacity
    Factors,        \* base candles in a candle of the other frames, below an hour
    TicksPerCandle, \* ticks_per_candle
    Counts,         \* the candles generate_candles may be asked for at the start
    MaxGenTicks     \* bound on the calls of compute

(* As in CandleSeries, two candles are kept at least. *)
ASSUME GeneratorAssumption ==
    /\ GenCapacity \in Nat \ {0, 1} /\ MaxGenTicks \in Nat
    /\ TicksPerCandle \subseteq Nat /\ TicksPerCandle # {} /\ Counts \subseteq Nat
    /\ Factors \subseteq Nat \ {0, 1}

VARIABLES
    frame,          \* timeframes: 1 is the base frame
    tickCounter,
    candleSize,
    genTicks,       \* calls of compute so far
    wanted          \* the number of candles generate_candles waits for, or 0

generatorVars == <<frame, tickCounter, candleSize, genTicks, wanted>>

GenFrames == Factors \cup {1}

Series == INSTANCE CandleSeries WITH
        SeriesCapacity <- GenCapacity, Goals <- {1}, BaseTicks <- 2, LoadedCandles <- 0,
        MaxTicks <- 0, MaxVolume <- 0, series <- 0, goal <- 1, due <- 0, now <- 0, traded <- 0,
        closedBy <- 0, closing <- 0

Num(s) == Series!NumCandles(s)

(* A minute is two units of time, of which the last is the offset.  A candle
   of the base frame opens after its predecessor has closed, one of another
   frame as it closes.                                                      *)
GenCandle(k, open, volume) == Series!Candle(open, 2 * k, TRUE, FALSE, volume)
NextOpen(k, c) == IF k = 1 THEN c.close + 1 ELSE c.close

(* new, and generate_candles of some candles more, or none. *)
GeneratorInit ==
    /\ frame = [k \in GenFrames |->
                 [series |-> Series!PushCandle(Series!NewSeries, GenCandle(k, 0, 0), 1),
                  ui |-> <<0>>, observed |-> 0, fed |-> <<>>]]
    /\ tickCounter = 0
    /\ candleSize \in TicksPerCandle
    /\ genTicks = 0
    /\ wanted \in {0} \cup {Num(frame[1].series) + n : n \in Counts}

(* head_candle_mut *)
SetHead(s, c) ==
    IF s.working # Series!NoCandle THEN [s EXCEPT !.working = c] ELSE [s EXCEPT !.candles[Len(s.candles)] = c]

(* compute_indicators: next for a final candle, peek_next for any other. *)
ComputeIndicators(f, c) == IF c.final THEN [f EXCEPT !.fed = Append(@, c.open)] ELSE f

(* Mutant: the head is not finalized. *)
RotateUnfinalized(k, f, volume) ==
    LET head == Series!HeadCandle(f.series)
        new  == GenCandle(k, NextOpen(k, head), volume)
    IN  [ComputeIndicators(f, head)
            EXCEPT !.series = Series!PushCandle(SetHead(f.series, head), new, 1), !.ui = Append(@, new.open)]

(* The head is finalized, fed, and the next candle pushed and drawn. *)
Rotate(k, f, volume) ==
    LET head == [Series!HeadCandle(f.series) EXCEPT !.final = TRUE]
        new  == GenCandle(k, NextOpen(k, head), volume)
    IN  [ComputeIndicators(f, head)
            EXCEPT !.series = Series!PushCandle(SetHead(f.series, head), new, 1), !.ui = Append(@, new.open)]

(* The head takes the tick, whether it is final or not. *)
TakeTick(f, volume) ==
    LET head == [Series!HeadCandle(f.series) EXCEPT !.volume = @ + volume]
    IN  [ComputeIndicators(f, head) EXCEPT !.series = SetHead(@, head)]

(* compute_base_timeframe: the tick that finds the candle full opens the next
   one, and is not counted.                                                 *)
ComputeBaseTimeframe(f) == IF tickCounter = candleSize THEN Rotate(1, f, 1) ELSE TakeTick(f, 1)

(* The others rotate when the number of base candles, as many as are kept,
   is a multiple of theirs that they have not seen.                         *)
CountsBaseCandles(k, f, base) == Num(base.series) % k = 0 /\ f.observed < Num(base.series)

(* compute_other_timeframes: each tick adds all of the base candle's volume. *)
ComputeOtherTimeframe(k, f, base) ==
    IF CountsBaseCandles(k, f, base)
    THEN [Rotate(k, f, 0) EXCEPT !.observed = Num(base.series)]
    ELSE TakeTick(f, Series!HeadCandle(base.series).volume)

CountTick ==
    IF tickCounter = candleSize
    THEN tickCounter' = 0 /\ candleSize' \in TicksPerCandle
    ELSE tickCounter' = tickCounter + 1 /\ UNCHANGED candleSize

(* compute *)
ComputeGenerator ==
    /\ genTicks < MaxGenTicks
    /\ genTicks' = genTicks + 1
    /\ \E base \in {ComputeBaseTimeframe(frame[1])} :
        frame' = [k \in GenFrames |-> IF k = 1 THEN base ELSE ComputeOtherTimeframe(k, frame[k], base)]
    /\ CountTick
    /\ UNCHANGED wanted

HasWanted == Num(frame[1].series) >= wanted

(* generate_candles: computed until the series has grown. *)
Generate == wanted # 0 /\ ~HasWanted /\ ComputeGenerator

GenerateReturns ==
    /\ wanted # 0 /\ HasWanted
    /\ wanted' = 0
    /\ UNCHANGED <<frame, tickCounter, candleSize, genTicks>>

(* Simulator::compute, once there is a simulator. *)
GenerateTick == wanted = 0 /\ ComputeGenerator

GeneratorNext == Generate \/ GenerateReturns \/ GenerateTick

GeneratorSpec == GeneratorInit /\ [][GeneratorNext]_generatorVars

-----------------------------------------------------------------------------
(* generate_candles of the base frame alone, without a bound on the calls.
   Once the series is full the code only compares times with one another, so
   that they are counted from the candle at the head, and what was drawn and
   fed is dropped: the loop has finitely many states.                        *)
FromHead(f) ==
    LET by == Series!HeadCandle(f.series).open
        Earlier(c) == IF c = Series!NoCandle THEN c ELSE [c EXCEPT !.open = @ - by, !.close = @ - by]
        EarlierAll(q) == [i \in DOMAIN q |-> Earlier(q[i])]
    IN  IF Len(f.series.candles) < GenCapacity THEN f
        ELSE [f EXCEPT !.series.candles = EarlierAll(@), !.series.states = EarlierAll(@),
                       !.series.working = Earlier(@), !.series.backup = Earlier(@),
                       !.series.next = Earlier(@), !.series.fed = Series!NewSeries.fed,
                       !.ui = <<Last(@) - by>>, !.fed = <<>>]

GenerateOn ==
    /\ wanted # 0 /\ ~HasWanted
    /\ \E base \in {ComputeBaseTimeframe(frame[1])} : frame' = [frame EXCEPT ![1] = FromHead(base)]
    /\ CountTick
    /\ UNCHANGED <<genTicks, wanted>>

(* The loop is that of one thread, which goes on. *)
GenerationSpec ==
    /\ GeneratorInit
    /\ [][GenerateOn \/ GenerateReturns]_generatorVars
    /\ WF_generatorVars(GenerateOn \/ GenerateReturns)

-----------------------------------------------------------------------------
(* All closed candles of a frame, and the open one. *)
AllOf(f) == f.series.candles \o (IF f.series.working = Series!NoCandle THEN <<>> ELSE <<f.series.working>>)

(* The candles of a frame adjoin, although the series takes each one push late
   and the first twice; what is drawn is the head or the candle after it, each
   at most three times over; and what the indicators have taken for good they
   took in order, each closed candle among it, none that is still open.      *)
GeneratorKeepsUp ==
    \A k \in GenFrames :
        \E f \in {frame[k]} : \E all \in {AllOf(f)} :
            /\ \A i \in 1 .. Len(all) - 1 : all[i + 1].open = NextOpen(k, all[i])
            /\ Last(f.ui) \in {Last(all).open, NextOpen(k, Last(all))}
            /\ \A i \in 1 .. Len(f.ui) - 3 : f.ui[i] < f.ui[i + 3]
            /\ \A i \in 1 .. Len(f.fed) - 1 : f.fed[i] <= f.fed[i + 1]
            /\ \A i \in DOMAIN all : Contains(f.fed, all[i].open) <=> all[i].final

(* generate_candles returns, whatever it is asked for: test_candle_generation
   asks for ten times the candles the series keeps.                          *)
GenerationEnds == <>(wanted = 0)
=============================================================================
