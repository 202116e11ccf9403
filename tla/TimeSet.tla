------------------------------- MODULE TimeSet -------------------------------
(***************************************************************************)
(* The frames a coin worker loads: the time frames (src/src/timeframe.rs), *)
(* the set with one optional value for each of the sixteen frames of the   *)
(* exchange (src/src/timeset.rs), and how the configurations of a coin are *)
(* made from the configuration file (src/src/util.rs).  A frame is written *)
(* as the exchange writes it; the value of a slot is abstract.             *)
(***************************************************************************)
EXTENDS Integers, Sequences, SequencesExt

Frames == << "1s", "1m", "3m", "5m", "15m", "30m", "1h", "2h", "4h", "6h", "8h",
             "12h", "1d", "3d", "1w", "1M" >>

ExchangeFrames == ToSet(Frames)

(* duration, in seconds; a month is one of thirty days. *)
Duration == [f \in ExchangeFrames |->
    CASE f = "1s" -> 1 [] f = "1m" -> 60 [] f = "3m" -> 180 [] f = "5m" -> 300
      [] f = "15m" -> 900 [] f = "30m" -> 1800 [] f = "1h" -> 3600 [] f = "2h" -> 7200
      [] f = "4h" -> 14400 [] f = "6h" -> 21600 [] f = "8h" -> 28800 [] f = "12h" -> 43200
      [] f = "1d" -> 86400 [] f = "3d" -> 259200 [] f = "1w" -> 604800
      [] f = "1M" -> 2592000]

-----------------------------------------------------------------------------
NoValue == "none"

(* new *)
EmptySet == [f \in ExchangeFrames |-> NoValue]

(* set; what is no frame of the exchange is an error. *)
SetSlot(ts, f, v) == IF f \in ExchangeFrames THEN [ts EXCEPT ![f] = v] ELSE ts

(* iter: the frames of the filled slots, the shortest first. *)
Iterate(ts) == SelectSeq(Frames, LAMBDA f : ts[f] # NoValue)

-----------------------------------------------------------------------------
(* sort_timeframes_by_duration: the longest first. *)
SortFrames(frames) == SortSeq(frames, LAMBDA f, g : Duration[f] > Duration[g])

(* coin_specific_timeframe_configs: the default configurations, each a frame
   and a value, of the frames the coin names, or of all; a frame with no
   default is left out silently.                                            *)
CoinConfigs(defaults, own) ==
    LET frames == IF own = {} THEN {e[1] : e \in ToSet(defaults)} ELSE own
    IN  FoldSeq(LAMBDA e, ts : SetSlot(ts, e[1], e[2]), EmptySet,
                SelectSeq(defaults, LAMBDA e : e[1] \in frames))

(* start_coin_worker: the frames a worker loads. *)
WorkerFrames(defaults, own) == SortFrames(Iterate(CoinConfigs(defaults, own)))
=============================================================================
