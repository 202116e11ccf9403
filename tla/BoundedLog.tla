----------------------------- MODULE BoundedLog -----------------------------
(***************************************************************************)
(* What a window of the last values promises: a log that forgets its       *)
(* oldest entry when it is full.  CandleSeries keeps its candles in one;   *)
(* SlidingWindow is the ring buffer that implements it.                    *)
(***************************************************************************)
EXTENDS Naturals, Sequences

CONSTANTS
    Capacity,   \* how many items are kept
    Items       \* what is pushed

VARIABLE log    \* oldest first

(* s with x at its end and no more than n items. *)
Keep(s, x, n) == IF Len(s) < n THEN Append(s, x) ELSE Append(Tail(s), x)

LogInit == log = <<>>

LogPush(x) == log' = Keep(log, x, Capacity)

(* pop takes the newest item. *)
LogPop ==
    /\ Len(log) > 0
    /\ log' = SubSeq(log, 1, Len(log) - 1)

LogNext == (\E x \in Items : LogPush(x)) \/ LogPop

LogSpec == LogInit /\ [][LogNext]_log
=============================================================================
