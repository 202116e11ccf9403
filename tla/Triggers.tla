------------------------------- MODULE Triggers -------------------------------
(***************************************************************************)
(* trigger.rs and trigger_*.rs: what decides that an order may be sent.  A *)
(* TriggerMetadata describes a trigger and into_trigger makes it; check is *)
(* called with a price now and then, and reset when the order is retried.  *)
(* A trigger is a record with the kind and the fields of that kind.  Time  *)
(* passes in ticks, and an Instant is the number of ticks since it.  A     *)
(* price ratio is a fraction; the rounding of calc_relative_position_...   *)
(* to two digits is left out.                                              *)
(***************************************************************************)
EXTENDS Integers, Sequences

CONSTANTS
    TriggerPrices,
    Delay,          \* in ticks
    Ratio,          \* distance_ratio, and proximity: <<numerator, denominator>>
    MaxWait,        \* bound on the ticks between two resets
    MaxChecks       \* bound on the checks between two resets

ASSUME TriggerAssumption ==
    /\ TriggerPrices \subseteq Nat \ {0} /\ Delay \in Nat /\ MaxWait \in Nat /\ MaxWait > Delay
    /\ Ratio \in Nat \X (Nat \ {0}) /\ Ratio[1] < Ratio[2]

NoClock == -1
NoPriceYet == 0

VARIABLES
    trigger,
    since,      \* ticks since the trigger was made or reset
    seen,       \* for the property: the checks since then, with their age
    kept,       \* for the property: the price it had seen last before then
    judged      \* the latest step was a check

triggerVars == <<trigger, since, seen, kept, judged>>

-----------------------------------------------------------------------------
(* TriggerMetadata: the parameters that are missing are simply not there. *)

TriggerKinds == {"none", "instant", "delayed", "zone", "distance", "proximity"}

Parameters(kind) ==
    CASE kind \in {"none", "instant"} -> {}
      [] kind = "delayed" -> {"delay"}
      [] kind = "zone" -> {"target", "threshold", "delay", "resets"}
      [] kind = "distance" -> {"anchor", "ratio"}
      [] kind = "proximity" -> {"anchor", "target", "ratio"}

(* into_trigger and the constructors: an error, or the trigger. *)
IsInitializable(m) ==
    /\ Parameters(m.kind) \subseteq DOMAIN m
    /\ m.kind = "zone" => m.target # m.threshold
    /\ m.kind = "distance" => m.ratio[1] > 0
    /\ m.kind = "proximity" => 0 < m.ratio[1] /\ m.ratio[1] < m.ratio[2]

IntoTrigger(m) ==
    CASE m.kind \in {"none", "instant"} -> [kind |-> m.kind]
      [] m.kind = "delayed" -> [kind |-> "delayed", delay |-> m.delay, clock |-> 0, fired |-> FALSE]
      [] m.kind = "zone" ->
            [kind |-> "zone", target |-> m.target, threshold |-> m.threshold, delay |-> m.delay,
             resets |-> m.resets, clock |-> NoClock, paused |-> FALSE]
      [] m.kind = "distance" ->
            [kind |-> "distance", anchor |-> m.anchor, ratio |-> m.ratio, fired |-> FALSE]
      [] m.kind = "proximity" ->
            [kind |-> "proximity", anchor |-> m.anchor, target |-> m.target, ratio |-> m.ratio,
             previous |-> NoPriceYet, fired |-> FALSE]

(* Descriptions of all kinds, and some that lack a parameter. *)
Descriptions ==
    [kind : TriggerKinds]
    \cup [kind : {"delayed"}, delay : {Delay}]
    \cup [kind : {"zone"}, target : TriggerPrices, threshold : TriggerPrices, delay : {Delay},
          resets : BOOLEAN]
    \cup [kind : {"distance"}, anchor : TriggerPrices, ratio : {Ratio, <<0, 1>>}]
    \cup [kind : {"proximity"}, anchor : TriggerPrices, target : TriggerPrices,
          ratio : {Ratio, <<0, 1>>, <<1, 1>>, <<3, 2>>}]

-----------------------------------------------------------------------------
Apart(p, q) == IF p < q THEN q - p ELSE p - q

(* The zone trigger: a target below the threshold is taken for shorting. *)
Beyond(price, limit, t) == IF t.target < t.threshold THEN price > limit ELSE price < limit

IsInCriticalZone(price, t) == price = t.threshold \/ Beyond(price, t.threshold, t)
IsInNormalZone(price, t) == price # t.target /\ ~Beyond(price, t.target, t)

(* Mutant: back in the normal zone the clock goes on. *)
RunClockThrough(price, t) ==
    IF ~IsInNormalZone(price, t) /\ t.clock = NoClock THEN [t EXCEPT !.clock = 0] ELSE t

(* Outside of the normal zone the clock starts unless there is one, and back
   in it the clock is dropped, or else paused for good: nothing resumes it.  *)
RunClock(price, t) ==
    IF ~IsInNormalZone(price, t) THEN (IF t.clock = NoClock THEN [t EXCEPT !.clock = 0] ELSE t)
    ELSE IF t.clock = NoClock THEN t
    ELSE IF t.resets THEN [t EXCEPT !.clock = NoClock, !.paused = FALSE]
    ELSE [t EXCEPT !.paused = TRUE]

HasReachedDistance(price, t) == t.ratio[2] * Apart(price, t.anchor) >= t.ratio[1] * t.anchor

(* The proximity trigger says nothing of the first price it sees, and what it
   takes for a crossing of the target is one away from the target.           *)
CrossedTarget(price, t) ==
    IF t.anchor > t.target THEN t.previous < t.target /\ price >= t.target
    ELSE t.previous > t.target /\ price <= t.target

(* For a target that is the anchor the relative position is no number. *)
IsWithin(price, t) ==
    /\ t.target # t.anchor
    /\ t.ratio[2] * Apart(t.target, price) <= t.ratio[1] * Apart(t.target, t.anchor)

IsNearTarget(price, t) ==
    t.previous # NoPriceYet /\ (CrossedTarget(price, t) \/ IsWithin(price, t))

(* check: the trigger and the verdict. *)
CheckTrigger(price, t) ==
    CASE t.kind = "none" -> <<t, FALSE>>
      [] t.kind = "instant" -> <<t, TRUE>>
      [] t.kind = "delayed" ->
            LET fires == ~t.fired /\ t.clock >= t.delay
            IN  <<[t EXCEPT !.fired = @ \/ fires], fires>>
      [] t.kind = "zone" ->
            IF IsInCriticalZone(price, t) THEN <<t, TRUE>>
            ELSE <<RunClock(price, t), RunClock(price, t).clock > t.delay>>
      [] t.kind = "distance" ->
            LET fires == t.fired \/ HasReachedDistance(price, t)
            IN  <<[t EXCEPT !.fired = fires], fires>>
      [] t.kind = "proximity" ->
            LET fires == t.fired \/ IsNearTarget(price, t)
            IN  <<[t EXCEPT !.fired = fires, !.previous = price], fires>>

(* reset; the proximity trigger keeps the price it saw last. *)
ResetTrigger(t) ==
    CASE t.kind \in {"none", "instant"} -> t
      [] t.kind = "delayed" -> [t EXCEPT !.clock = 0, !.fired = FALSE]
      [] t.kind = "zone" -> [t EXCEPT !.clock = NoClock, !.paused = FALSE]
      [] t.kind \in {"distance", "proximity"} -> [t EXCEPT !.fired = FALSE]

(* Clone: the copy of a zone trigger starts without a clock. *)
CloneTrigger(t) ==
    IF t.kind = "zone" THEN [t EXCEPT !.clock = NoClock, !.paused = FALSE] ELSE t

-----------------------------------------------------------------------------
(* What has happened to the trigger since it was made, reset or, if that
   forgets, cloned.                                                         *)
Anew == since' = 0 /\ seen' = <<>> /\ judged' = FALSE

TriggerInit ==
    /\ trigger \in {IntoTrigger(m) : m \in {d \in Descriptions : IsInitializable(d)}}
    /\ since = 0 /\ seen = <<>> /\ kept = NoPriceYet /\ judged = FALSE

Check(price) ==
    /\ Len(seen) < MaxChecks
    /\ trigger' = CheckTrigger(price, trigger)[1]
    /\ seen' = Append(seen, [age |-> 0, price |-> price, fires |-> CheckTrigger(price, trigger)[2]])
    /\ judged' = TRUE
    /\ UNCHANGED <<since, kept>>

Reset ==
    /\ trigger' = ResetTrigger(trigger)
    /\ kept' = IF trigger.kind = "proximity" THEN trigger.previous ELSE kept
    /\ Anew

Clone ==
    /\ trigger' = CloneTrigger(trigger)
    /\ IF trigger.kind = "zone" THEN Anew ELSE judged' = FALSE /\ UNCHANGED <<since, seen>>
    /\ UNCHANGED kept

TriggerTick ==
    /\ since < MaxWait
    /\ trigger' = IF trigger.kind \in {"delayed", "zone"}
                     /\ trigger.clock # NoClock /\ (trigger.kind = "zone" => ~trigger.paused)
                  THEN [trigger EXCEPT !.clock = @ + 1] ELSE trigger
    /\ since' = since + 1
    /\ seen' = [i \in DOMAIN seen |-> [seen[i] EXCEPT !.age = @ + 1]]
    /\ judged' = FALSE
    /\ UNCHANGED kept

TriggerNext == TriggerTick \/ Reset \/ Clone \/ \E price \in TriggerPrices : Check(price)

TriggerSpec == TriggerInit /\ [][TriggerNext]_triggerVars

-----------------------------------------------------------------------------
(* The price left the normal zone for the delayed one at check i and was not
   seen back in it before check j.                                          *)
IsOut(i, j, t) ==
    /\ ~IsInNormalZone(seen[i].price, t) /\ ~IsInCriticalZone(seen[i].price, t)
    /\ \A k \in i .. j - 1 : ~IsInNormalZone(seen[k].price, t)

(* It stayed out longer than the delay, and if the timer is to be reset, it
   is out still.                                                            *)
LongOutside(t) ==
    \E i \in DOMAIN seen : \E j \in i .. Len(seen) :
        /\ IsOut(i, j, t) /\ seen[i].age - seen[j].age > t.delay
        /\ t.resets => j = Len(seen) /\ ~IsInNormalZone(seen[j].price, t)

(* The price has got to the target, or past it. *)
HasReached(price, t) == IF t.anchor > t.target THEN price <= t.target ELSE price >= t.target

(* A trigger fires for what it has seen, and only for that: the delayed one
   once, when its time has come; the zone trigger in the critical zone, and
   else only after the price has stayed out for the delay, which is all it
   takes if its timer is reset; the distance trigger from the first price
   that went as far as it was told.  The proximity trigger fires from a price
   within its proximity on, unless it is the first it ever sees, until it is
   reset; and it never does before the price has come as near or has reached
   the target, be it as the last price before the reset.                    *)
FiresForCause ==
    judged =>
        LET last  == seen[Len(seen)]
            Yes   == {i \in DOMAIN seen : seen[i].fires}
        IN  CASE trigger.kind = "none" -> ~last.fires
              [] trigger.kind = "instant" -> last.fires
              [] trigger.kind = "delayed" ->
                    last.fires <=> since >= trigger.delay /\ Yes \subseteq {Len(seen)}
              [] trigger.kind = "zone" ->
                    /\ last.fires => IsInCriticalZone(last.price, trigger) \/ LongOutside(trigger)
                    /\ IsInCriticalZone(last.price, trigger) => last.fires
                    /\ trigger.resets /\ LongOutside(trigger) => last.fires
              [] trigger.kind = "distance" ->
                    last.fires <=> \E i \in DOMAIN seen : HasReachedDistance(seen[i].price, trigger)
              [] trigger.kind = "proximity" ->
                    /\ (\E i \in DOMAIN seen : /\ i > 1 \/ kept # NoPriceYet
                                               /\ IsWithin(seen[i].price, trigger)) => last.fires
                    /\ Yes # {} => last.fires
                    /\ last.fires =>
                          \/ \E i \in DOMAIN seen : \/ IsWithin(seen[i].price, trigger)
                                                    \/ HasReached(seen[i].price, trigger)
                          \/ kept # NoPriceYet /\ HasReached(kept, trigger)

(* What a trigger is there for makes it fire: a price within the proximity of
   the target, the first as well as any other, or past the target, and a price
   that has just stayed out of the normal zone for the delay.                *)
FiresWhenDue ==
    judged =>
        LET last == seen[Len(seen)]
        IN  /\ trigger.kind = "proximity" /\ trigger.anchor # trigger.target =>
                    (IsWithin(last.price, trigger) \/ HasReached(last.price, trigger) => last.fires)
            /\ trigger.kind = "zone" =>
                    \A i \in DOMAIN seen :
                        IsOut(i, Len(seen) + 1, trigger) /\ seen[i].age > trigger.delay => last.fires
=============================================================================
