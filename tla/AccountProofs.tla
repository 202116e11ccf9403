------------------------------ MODULE AccountProofs ------------------------------
(***************************************************************************)
(* Proofs about the parts on the way to an exchange and about the account: *)
(* the client of the exchange, the rate limiter, the gate of the trader,   *)
(* the balance sheet and the position, the triggers of an order, the       *)
(* actions on the plot, and the generator of candles; and about the ids.   *)
(* No part writes what another reads, so that each has an inductive        *)
(* invariant of its own.                                                   *)
(***************************************************************************)
EXTENDS ExchangeClient, RateLimiter, TraderGate, Account, PlotActions, SmartId, Generator,
        FiniteSetTheorems, SequenceTheorems, WellFoundedInduction, TLAPS

-----------------------------------------------------------------------------
(* The client of the exchange, for any number of instructions and whatever
   priorities: the heap is empty between two steps of the worker, and so
   the priorities order nothing and the call that may end the worker never
   finds a job.                                                            *)

(* The inductive invariant.  What was served and what waits in the channel
   are together the instructions sent, in the order they were sent.        *)
ClientIInv ==
    /\ ClientTypeOK
    /\ jobs = {}
    /\ working
    /\ Len(served) + Len(inbox) = Len(outcome)
    /\ \A i \in 1 .. Len(served) : served[i] = i
    /\ \A i \in 1 .. Len(inbox) : inbox[i].id = Len(served) + i
    /\ \A i \in 1 .. Len(outcome) : outcome[i] # "running" => i <= Len(served)

(* Nothing is sent and nothing waits at the start. *)
LEMMA InitClient == ClientInit => ClientIInv
  BY DEF ClientInit, ClientIInv, ClientTypeOK

(* Trader::compute: the new instruction is behind all the others. *)
LEMMA InstructKeeps ==
  ASSUME ClientIInv, NEW kind \in Kinds, NEW priority \in Priorities, Instruct(kind, priority)
  PROVE  ClientIInv'
<1> DEFINE new == [id |-> Len(outcome) + 1, kind |-> kind, priority |-> priority]
<1>1. new \in Jobs /\ new.id = Len(outcome) + 1
  BY DEF Jobs, ClientIInv, ClientTypeOK
<1>2. inbox \in Seq(Jobs) /\ outcome \in Seq(Outcomes) /\ served \in Seq(Nat)
  BY DEF ClientIInv, ClientTypeOK
<1>3. inbox' = Append(inbox, new) /\ outcome' = Append(outcome, "running")
      /\ jobs' = jobs /\ served' = served /\ working' = working
  BY DEF Instruct
<1>4. ClientTypeOK'
  BY <1>1, <1>2, <1>3 DEF ClientIInv, ClientTypeOK, Outcomes
<1>5. Len(inbox') = Len(inbox) + 1 /\ Len(outcome') = Len(outcome) + 1
  BY <1>1, <1>2, <1>3 DEF Outcomes
<1>6. \A i \in 1 .. Len(inbox') : inbox'[i].id = Len(served) + i
  <2> TAKE i \in 1 .. Len(inbox')
  <2>1. CASE i = Len(inbox) + 1
    <3>1. inbox'[i] = new
      BY <1>1, <1>2, <1>3, <2>1
    <3>2. Len(outcome) = Len(served) + Len(inbox) /\ new.id = Len(outcome) + 1
      BY <1>1 DEF ClientIInv
    <3> HIDE DEF new
    <3>3. inbox'[i].id = new.id
      BY <3>1
    <3> QED  BY <1>2, <2>1, <3>2, <3>3
  <2>2. CASE i # Len(inbox) + 1
    <3>1. i \in 1 .. Len(inbox)
      BY <1>2, <1>5, <2>2
    <3>2. inbox'[i] = inbox[i]
      BY <1>1, <1>2, <1>3, <3>1
    <3> QED  BY <3>1, <3>2 DEF ClientIInv
  <2> QED  BY <2>1, <2>2
<1>7. \A i \in 1 .. Len(outcome') : outcome'[i] # "running" => i <= Len(served)
  <2> SUFFICES ASSUME NEW i \in 1 .. Len(outcome'), outcome'[i] # "running"
               PROVE  i <= Len(served)
    OBVIOUS
  <2>1. i # Len(outcome) + 1
    BY <1>2, <1>3 DEF Outcomes
  <2>2. i \in 1 .. Len(outcome) /\ outcome'[i] = outcome[i]
    BY <1>2, <1>3, <1>5, <2>1 DEF Outcomes
  <2> QED  BY <2>2 DEF ClientIInv
<1> HIDE DEF new
<1> QED  BY <1>2, <1>3, <1>4, <1>5, <1>6, <1>7 DEF ClientIInv

(* The only job is the most urgent one. *)
LEMMA OneJob ==
  ASSUME NEW job \in Jobs PROVE MostUrgent({job}) = {job}
<1>1. job.priority \in Int
  BY ClientAssumption DEF Jobs
<1>2. job.priority <= job.priority
  BY <1>1
<1>3. \A j : j \in MostUrgent({job}) <=> j = job
  BY <1>2, Zenon DEF MostUrgent
<1> QED  BY <1>3

(* push_instruction: the oldest instruction goes through the heap and is
   served within the step.                                                 *)
LEMMA PushKeeps ==
  ASSUME ClientIInv, PushInstruction PROVE ClientIInv'
<1> DEFINE job == Head(inbox)
<1>1. inbox \in Seq(Jobs) /\ inbox # <<>> /\ outcome \in Seq(Outcomes) /\ served \in Seq(Nat)
      /\ inbox' = Tail(inbox) /\ jobs = {}
  BY DEF PushInstruction, ClientIInv, ClientTypeOK
<1>2. Len(inbox) >= 1 /\ job \in Jobs /\ job.id = Len(served) + 1 /\ job = inbox[1]
  BY <1>1 DEF ClientIInv
<1>3. job.id \in 1 .. Len(outcome)
  BY <1>1, <1>2 DEF ClientIInv
<1>4. PICK o \in ComesTo(job) :
        /\ jobs' = {}
        /\ served' = Append(served, job.id)
        /\ outcome' = [outcome EXCEPT ![job.id] = o]
        /\ working' = TRUE
  <2>1. ComputeJobs({job}, TRUE)
    BY <1>1 DEF PushInstruction
  <2>2. PICK j \in MostUrgent({job}) : \E o \in ComesTo(j) :
            /\ jobs' = {job} \ {j}
            /\ served' = Append(served, j.id)
            /\ outcome' = [outcome EXCEPT ![j.id] = o]
            /\ working' = TRUE
    BY <2>1 DEF ComputeJobs
  <2>3. j = job
    BY <1>2, <2>2, OneJob
  <2> QED  BY <2>2, <2>3
<1> HIDE DEF job
<1>5. o \in Outcomes
  BY <1>4 DEF ComesTo, Outcomes
<1>6. served' \in Seq(Nat) /\ Len(served') = Len(served) + 1
      /\ \A i \in 1 .. Len(served') : served'[i] = i
  BY <1>1, <1>2, <1>4, SMTT(30) DEF ClientIInv
<1>7. inbox' \in Seq(Jobs) /\ Len(inbox') = Len(inbox) - 1
      /\ \A i \in 1 .. Len(inbox') : inbox'[i] = inbox[i + 1]
  BY <1>1, <1>2
<1>8. \A i \in 1 .. Len(inbox') : inbox'[i].id = Len(served') + i
  <2> TAKE i \in 1 .. Len(inbox')
  <2>1. i + 1 \in 1 .. Len(inbox)
    BY <1>1, <1>7
  <2>2. inbox[i + 1].id = Len(served) + (i + 1)
    BY <2>1 DEF ClientIInv
  <2> QED  BY <1>1, <1>6, <1>7, <2>2
<1>9. outcome' \in Seq(Outcomes) /\ Len(outcome') = Len(outcome)
      /\ \A i \in 1 .. Len(outcome) : i # job.id => outcome'[i] = outcome[i]
  BY <1>1, <1>3, <1>4, <1>5
<1>10. \A i \in 1 .. Len(outcome') : outcome'[i] # "running" => i <= Len(served')
  <2> SUFFICES ASSUME NEW i \in 1 .. Len(outcome'), outcome'[i] # "running"
               PROVE  i <= Len(served')
    OBVIOUS
  <2>1. CASE i = job.id
    BY <1>1, <1>2, <1>6, <2>1
  <2>2. CASE i # job.id
    <3>1. i \in 1 .. Len(outcome) /\ outcome[i] # "running"
      BY <1>9, <2>2
    <3>2. i <= Len(served)
      BY <3>1 DEF ClientIInv
    <3> QED  BY <1>1, <1>6, <3>2
  <2> QED  BY <2>1, <2>2
<1>11. ClientTypeOK'
  BY <1>4, <1>6, <1>7, <1>9 DEF ClientTypeOK
<1>12. Len(served') + Len(inbox') = Len(outcome')
  BY <1>1, <1>6, <1>7, <1>9 DEF ClientIInv
<1> QED  BY <1>4, <1>6, <1>8, <1>10, <1>11, <1>12 DEF ClientIInv

(* Without a message the worker finds nothing to do. *)
LEMMA IdleKeeps ==
  ASSUME ClientIInv, ComputeWhenIdle PROVE UNCHANGED clientVars
  BY DEF ClientIInv, ComputeWhenIdle, ComputeJobs, clientVars

LEMMA StepClient == ClientIInv /\ [ClientNext]_clientVars => ClientIInv'
<1> SUFFICES ASSUME ClientIInv, [ClientNext]_clientVars PROVE ClientIInv'
  OBVIOUS
<1>1. CASE \E kind \in Kinds, priority \in Priorities : Instruct(kind, priority)
  BY <1>1, InstructKeeps
<1>2. CASE PushInstruction
  BY <1>2, PushKeeps
<1>3. CASE UNCHANGED clientVars
  BY <1>3 DEF clientVars, ClientIInv, ClientTypeOK
<1>4. CASE ComputeWhenIdle
  <2>1. UNCHANGED clientVars
    BY <1>4, IdleKeeps
  <2> QED  BY <2>1, <1>3
<1> QED  BY <1>1, <1>2, <1>3, <1>4 DEF ClientNext

(* push_instruction and compute of the exchange client: the instructions are
   served in the order they were sent, whatever their priorities, and only
   those served have an answer.                                            *)
THEOREM InstructionsInOrder == ClientSpec => []ExecutedInOrder
<1>1. ClientIInv => ExecutedInOrder
  <2> SUFFICES ASSUME ClientIInv PROVE ExecutedInOrder
    OBVIOUS
  <2>1. DOMAIN served = 1 .. Len(served) /\ DOMAIN outcome = 1 .. Len(outcome)
    BY DEF ClientIInv, ClientTypeOK
  <2> QED  BY <2>1 DEF ClientIInv, ExecutedInOrder
<1> QED  BY InitClient, StepClient, <1>1, PTL DEF ClientSpec

(* The worker's thread never panics: compute is called outside of
   push_instruction only while the heap is empty.                          *)
THEOREM WorkerNeverPanics == ClientSpec => []WorkerSurvives
<1>1. ClientIInv => WorkerSurvives
  BY DEF ClientIInv, WorkerSurvives
<1> QED  BY InitClient, StepClient, <1>1, PTL DEF ClientSpec

-----------------------------------------------------------------------------
(* The gate of the trader, for any number of threads. *)

(* A pair is let in at an age; the limits are the cardinalities of these. *)
Entries == [nr : Nat, age : Nat]
Cooldowns == [left : 0 .. TotalUses, cooling : BOOLEAN, elapsed : 0 .. Downtime]
Askings == [pc : {"idle", "asked", "allowed"}, order : NewOrders \cup {NoOrder}]

GateTypeOK ==
    /\ cooldown \in [Doors -> Cooldowns]
    /\ orders \in Nat
    /\ asker \in [Askers -> Askings]
    /\ passed \in [Doors -> SUBSET Entries]

(* The threads that have been told they may create an order. *)
Allowed == {t \in Askers : asker[t].pc = "allowed"}

(* A door that is open has let in no more than its uses taken, and the one
   that opened it; of a door that is closed, nobody is younger than its
   downtime.                                                                *)
DoorIsKept(c, entered) ==
    /\ IsFiniteSet(entered)
    /\ \A p \in entered : p.age < Downtime
    /\ c.cooling => /\ c.left = 0
                    /\ Cardinality(entered) <= TotalUses + 1
                    /\ \A p \in entered : c.elapsed <= p.age
    /\ ~c.cooling => /\ c.left > 0
                     /\ Cardinality(entered) + c.left <= TotalUses + 1

GateIInv ==
    /\ GateTypeOK
    /\ \A d \in Doors : DoorIsKept(cooldown[d], passed[d])
    /\ orders + Cardinality(Allowed) <= MaxOrders + Cardinality(Askers) - 1

(* No more threads are let through than there are. *)
LEMMA FewAllowed == 
  /\ IsFiniteSet(Allowed) /\ IsFiniteSet(Askers)
  /\ Cardinality(Allowed) \in Nat /\ Cardinality(Askers) \in Nat
  /\ Cardinality(Allowed) <= Cardinality(Askers)
<1>1. IsFiniteSet(Askers) /\ Allowed \subseteq Askers
  BY GateAssumption DEF Allowed
<1>2. IsFiniteSet(Allowed) /\ Cardinality(Allowed) <= Cardinality(Askers)
  BY <1>1, FS_Subset
<1> QED  BY <1>1, <1>2, FS_CardinalityType

(* Both doors are open and nobody has asked. *)
LEMMA InitGate == GateInit => GateIInv
<1> SUFFICES ASSUME GateInit PROVE GateIInv
  OBVIOUS
<1>1. GateTypeOK
  BY GateAssumption DEF GateInit, GateTypeOK, NewCooldown, Cooldowns, Askings, IdleAsker, Entries
<1>2. \A d \in Doors : DoorIsKept(cooldown[d], passed[d])
  BY GateAssumption, FS_EmptySet DEF GateInit, NewCooldown, DoorIsKept
<1>3. Allowed = {}
  BY DEF GateInit, Allowed, IdleAsker
<1>4. orders + Cardinality(Allowed) <= MaxOrders + Cardinality(Askers) - 1
  BY <1>3, FewAllowed, FS_EmptySet, GateAssumption DEF GateInit
<1> QED  BY <1>1, <1>2, <1>4 DEF GateIInv

(* A thread that asks is not let through yet. *)
LEMMA AskForOrderKeeps ==
  ASSUME GateIInv, NEW t \in Askers, NEW o \in NewOrders, AskForOrder(t, o) PROVE GateIInv'
<1>1. asker' = [asker EXCEPT ![t] = [pc |-> "asked", order |-> o]] /\ asker[t].pc = "idle"
      /\ cooldown' = cooldown /\ orders' = orders /\ passed' = passed
  BY DEF AskForOrder
<1>2. GateTypeOK'
  BY <1>1 DEF GateIInv, GateTypeOK, Askings
<1>3. Allowed' = Allowed
  BY <1>1 DEF GateIInv, GateTypeOK, Allowed
<1> QED  BY <1>1, <1>2, <1>3 DEF GateIInv

(* can_create_order reads the number of orders: whoever is let through finds
   it below the limit then, and no more than all the threads can be through. *)
LEMMA AskTraderKeeps ==
  ASSUME GateIInv, NEW t \in Askers, AskTrader(t) PROVE GateIInv'
<1> DEFINE answer == IF CanCreateOrder(asker[t].order) THEN [asker[t] EXCEPT !.pc = "allowed"] ELSE IdleAsker
<1>1. asker' = [asker EXCEPT ![t] = answer] /\ asker[t].pc = "asked"
      /\ cooldown' = cooldown /\ orders' = orders /\ passed' = passed
  BY DEF AskTrader
<1>2. answer \in Askings /\ answer.pc \in {"allowed", "idle"}
  BY DEF GateIInv, GateTypeOK, Askings, IdleAsker
<1>3. GateTypeOK'
  BY <1>1, <1>2 DEF GateIInv, GateTypeOK
<1>4. orders' + Cardinality(Allowed') <= MaxOrders + Cardinality(Askers) - 1
  <2>1. CASE CanCreateOrder(asker[t].order)
    <3>1. orders' < MaxOrders /\ orders' \in Nat /\ MaxOrders \in Nat
      BY <1>1, <2>1, GateAssumption DEF CanCreateOrder, GateIInv, GateTypeOK
    <3>2. Allowed' \subseteq Askers /\ IsFiniteSet(Askers)
      BY GateAssumption DEF Allowed
    <3>3. IsFiniteSet(Allowed') /\ Cardinality(Allowed') <= Cardinality(Askers)
      BY <3>2, FS_Subset
    <3>4. Cardinality(Allowed') \in Nat /\ Cardinality(Askers) \in Nat
      BY <3>2, <3>3, FS_CardinalityType
    <3> QED  BY <3>1, <3>3, <3>4
  <2>2. CASE ~CanCreateOrder(asker[t].order)
    <3>1. answer.pc = "idle"
      BY <2>2 DEF IdleAsker
    <3>2. Allowed' = Allowed
      BY <1>1, <3>1 DEF GateIInv, GateTypeOK, Allowed
    <3> QED  BY <1>1, <3>2 DEF GateIInv
  <2> QED  BY <2>1, <2>2
<1> QED  BY <1>1, <1>3, <1>4 DEF GateIInv

(* use_cooldown of one that is available. *)
LEMMA DoorLetsIn ==
  ASSUME NEW c \in Cooldowns, NEW entered \in SUBSET Entries, NEW nr \in Nat,
         IsAvailable(c), DoorIsKept(c, entered)
  PROVE  /\ UseCooldown(c) \in Cooldowns
         /\ DoorIsKept(UseCooldown(c), entered \cup {[nr |-> nr, age |-> 0]})
<1> DEFINE new == [nr |-> nr, age |-> 0]
<1> DEFINE now == entered \cup {new}
<1>1. IsFiniteSet(now) /\ IsFiniteSet(entered)
      /\ Cardinality(now) \in Nat /\ Cardinality(entered) \in Nat
      /\ Cardinality(now) <= Cardinality(entered) + 1
  <2>1. IsFiniteSet(entered)
    BY DEF DoorIsKept
  <2>2. IsFiniteSet(now) /\ Cardinality(now) = IF new \in entered THEN Cardinality(entered) ELSE Cardinality(entered) + 1
    BY <2>1, FS_AddElement
  <2>3. Cardinality(now) \in Nat /\ Cardinality(entered) \in Nat
    BY <2>1, <2>2, FS_CardinalityType
  <2> QED  BY <2>1, <2>2, <2>3
<1>2. \A p \in now : p.age < Downtime /\ 0 <= p.age
  BY GateAssumption DEF DoorIsKept, Entries
<1>3. CASE c.left > 0 /\ ~c.cooling
  <2>2. UseCooldown(c) \in Cooldowns
    BY <1>3, GateAssumption DEF UseCooldown, Cooldowns
  <2>3. Cardinality(entered) + c.left <= TotalUses + 1 /\ c.left \in Nat /\ TotalUses \in Nat
    BY <1>3, GateAssumption DEF DoorIsKept, Cooldowns
  <2>4. CASE c.left = 1
    <3>1. UseCooldown(c) = [left |-> 0, cooling |-> TRUE, elapsed |-> 0]
      <4>1. UseCooldown(c) = [left |-> c.left - 1, cooling |-> c.left = 1,
                              elapsed |-> IF c.left = 1 THEN 0 ELSE c.elapsed]
        BY <1>3 DEF UseCooldown
      <4>2. (c.left = 1) = TRUE
        BY <2>4
      <4>3. UseCooldown(c) = [left |-> c.left - 1, cooling |-> TRUE, elapsed |-> 0]
        BY <4>1, <4>2, <2>4, Zenon
      <4>4. c.left - 1 = 0
        BY <2>4
      <4> QED  BY <4>3, <4>4
    <3>2. Cardinality(now) <= TotalUses + 1
      BY <1>1, <2>3, <2>4
    <3>3. DoorIsKept([left |-> 0, cooling |-> TRUE, elapsed |-> 0], now)
      <4> HIDE DEF now
      <4> QED  BY <1>1, <1>2, <3>2 DEF DoorIsKept
    <3> QED  BY <2>2, <3>1, <3>3
  <2>5. CASE c.left # 1
    <3>1. UseCooldown(c) = [left |-> c.left - 1, cooling |-> FALSE, elapsed |-> c.elapsed]
      BY <1>3, <2>5 DEF UseCooldown
    <3>2. Cardinality(now) + (c.left - 1) <= TotalUses + 1 /\ c.left - 1 > 0
      BY <1>1, <1>3, <2>3, <2>5
    <3>3. DoorIsKept([left |-> c.left - 1, cooling |-> FALSE, elapsed |-> c.elapsed], now)
      <4> HIDE DEF now
      <4> QED  BY <1>1, <1>2, <3>2 DEF DoorIsKept
    <3> QED  BY <2>2, <3>1, <3>3
  <2> QED  BY <2>4, <2>5
<1>4. CASE ~(c.left > 0 /\ ~c.cooling)
  <2>1. c.cooling /\ c.elapsed >= Downtime
    BY <1>4 DEF IsAvailable, IsCooldownExpired
  <2>2. entered = {}
    <3> SUFFICES ASSUME NEW p \in entered PROVE FALSE
      OBVIOUS
    <3>1. p.age < Downtime /\ c.elapsed <= p.age /\ p.age \in Nat /\ c.elapsed \in Nat /\ Downtime \in Nat
      BY <2>1, GateAssumption DEF DoorIsKept, Entries, Cooldowns
    <3> QED  BY <2>1, <3>1
  <2>3. Cardinality(now) <= 1
    BY <1>1, <2>2, FS_EmptySet
  <2>4. UseCooldown(c) = [left |-> TotalUses, cooling |-> FALSE, elapsed |-> c.elapsed]
    BY <1>4 DEF UseCooldown, Cooldowns
  <2>5. UseCooldown(c) \in Cooldowns
    BY <2>4, GateAssumption DEF Cooldowns
  <2>6. DoorIsKept([left |-> TotalUses, cooling |-> FALSE, elapsed |-> c.elapsed], now)
    <3> HIDE DEF now
    <3> QED  BY <1>1, <1>2, <2>3, GateAssumption DEF DoorIsKept
  <2> QED  BY <2>4, <2>5, <2>6
<1> QED  BY <1>3, <1>4

(* create_order, under the write lock: the thread that enters is one less to be
   let through, and the cooldown is looked at once more.                     *)
LEMMA EnterOrderKeeps ==
  ASSUME GateIInv, NEW t \in Askers, EnterOrder(t) PROVE GateIInv'
<1>1. asker' = [asker EXCEPT ![t] = IdleAsker] /\ asker[t].pc = "allowed"
  BY DEF EnterOrder
<1>2. asker' \in [Askers -> Askings]
  BY <1>1 DEF GateIInv, GateTypeOK, Askings, IdleAsker
<1>3. Allowed' = Allowed \ {t} /\ t \in Allowed
  BY <1>1 DEF GateIInv, GateTypeOK, Allowed, IdleAsker
<1>4. Cardinality(Allowed') = Cardinality(Allowed) - 1 /\ Cardinality(Allowed) \in Nat
  BY <1>3, FewAllowed, FS_RemoveElement
<1>5. PICK door \in Doors :
        IF IsAvailable(cooldown[door])
        THEN /\ cooldown' = [cooldown EXCEPT ![door] = UseCooldown(@)]
             /\ orders' = orders + 1
             /\ passed' = [passed EXCEPT ![door] = @ \cup {[nr |-> orders, age |-> 0]}]
        ELSE UNCHANGED <<cooldown, orders, passed>>
  <2>1. asker[t].order.door \in Doors
    BY DEF GateIInv, GateTypeOK, Askings, NewOrders, NoOrder, Doors
  <2> QED  BY <2>1 DEF EnterOrder
<1>6. CASE ~IsAvailable(cooldown[door])
  <2>1. cooldown' = cooldown /\ orders' = orders /\ passed' = passed
    BY <1>5, <1>6
  <2>2. GateTypeOK'
    BY <1>2, <2>1 DEF GateIInv, GateTypeOK
  <2>3. orders' + Cardinality(Allowed') <= MaxOrders + Cardinality(Askers) - 1
    BY <1>4, <2>1, FewAllowed, GateAssumption DEF GateIInv, GateTypeOK
  <2> QED  BY <2>1, <2>2, <2>3 DEF GateIInv
<1>7. CASE IsAvailable(cooldown[door])
  <2>1. /\ cooldown' = [cooldown EXCEPT ![door] = UseCooldown(@)]
        /\ orders' = orders + 1
        /\ passed' = [passed EXCEPT ![door] = @ \cup {[nr |-> orders, age |-> 0]}]
    BY <1>5, <1>7
  <2>2. cooldown[door] \in Cooldowns /\ passed[door] \in SUBSET Entries /\ orders \in Nat
        /\ DoorIsKept(cooldown[door], passed[door])
    BY DEF GateIInv, GateTypeOK
  <2>3. /\ UseCooldown(cooldown[door]) \in Cooldowns
        /\ DoorIsKept(UseCooldown(cooldown[door]), passed[door] \cup {[nr |-> orders, age |-> 0]})
    BY <1>7, <2>2, DoorLetsIn
  <2>4. GateTypeOK'
    BY <1>2, <2>1, <2>2, <2>3 DEF GateIInv, GateTypeOK, Entries
  <2>5. \A d \in Doors : DoorIsKept(cooldown'[d], passed'[d])
    <3> TAKE d \in Doors
    <3>1. CASE d = door
      <4>1. cooldown'[d] = UseCooldown(cooldown[door]) /\ passed'[d] = passed[door] \cup {[nr |-> orders, age |-> 0]}
        BY <2>1, <3>1 DEF GateIInv, GateTypeOK
      <4> QED  BY <2>3, <4>1
    <3>2. CASE d # door
      <4>1. cooldown'[d] = cooldown[d] /\ passed'[d] = passed[d]
        BY <2>1, <3>2 DEF GateIInv, GateTypeOK
      <4> QED  BY <4>1 DEF GateIInv
    <3> QED  BY <3>1, <3>2
  <2>6. orders' + Cardinality(Allowed') <= MaxOrders + Cardinality(Askers) - 1
    BY <1>4, <2>1, FewAllowed, GateAssumption DEF GateIInv, GateTypeOK
  <2> QED  BY <2>4, <2>5, <2>6 DEF GateIInv
<1> QED  BY <1>6, <1>7

(* Time takes only the oldest from the door, and closed ones grow older with
   their cooldown.                                                          *)
LEMMA DoorGrowsOlder ==
  ASSUME NEW c \in Cooldowns, NEW entered \in SUBSET Entries, DoorIsKept(c, entered)
  PROVE  LET older == [c EXCEPT !.elapsed = Min({@ + 1, Downtime})]
             left  == {[p EXCEPT !.age = @ + 1] : p \in {q \in entered : q.age + 1 < Downtime}}
         IN  older \in Cooldowns /\ left \in SUBSET Entries /\ DoorIsKept(older, left)
<1> DEFINE older == [c EXCEPT !.elapsed = Min({@ + 1, Downtime})]
<1> DEFINE young == {q \in entered : q.age + 1 < Downtime}
<1> DEFINE left == {[p EXCEPT !.age = @ + 1] : p \in young}
<1>1. c.elapsed \in Nat /\ Downtime \in Nat /\ c.elapsed <= Downtime
  BY GateAssumption DEF Cooldowns
<1>2. Min({c.elapsed + 1, Downtime}) = IF c.elapsed < Downtime THEN c.elapsed + 1 ELSE Downtime
  BY <1>1 DEF Min
<1>3. older \in Cooldowns /\ older.left = c.left /\ older.cooling = c.cooling
      /\ older.elapsed <= c.elapsed + 1
  BY <1>1, <1>2 DEF Cooldowns
<1>4. left \in SUBSET Entries
  BY DEF Entries
<1>5. IsFiniteSet(young) /\ Cardinality(young) <= Cardinality(entered) /\ IsFiniteSet(entered)
  BY FS_Subset DEF DoorIsKept
<1>6. IsFiniteSet(left) /\ Cardinality(left) <= Cardinality(young)
  <2> DEFINE image == [p \in young |-> [p EXCEPT !.age = @ + 1]]
  <2>1. image \in Surjection(young, left)
    BY DEF Surjection
  <2> HIDE DEF image, left
  <2> QED  BY <1>5, <2>1, FS_Surjection
<1>7. Cardinality(left) \in Nat /\ Cardinality(entered) \in Nat /\ Cardinality(young) \in Nat
  BY <1>5, <1>6, FS_CardinalityType
<1>8. \A p \in left : p.age < Downtime /\ \E q \in entered : p.age = q.age + 1 /\ q.age \in Nat
  BY DEF Entries
<1>9. c.cooling => \A p \in left : older.elapsed <= p.age
  <2> SUFFICES ASSUME c.cooling, NEW p \in left PROVE older.elapsed <= p.age
    OBVIOUS
  <2>1. PICK q \in entered : p.age = q.age + 1 /\ q.age \in Nat
    BY <1>8
  <2>2. c.elapsed <= q.age
    BY DEF DoorIsKept
  <2>3. older.elapsed \in Nat
    BY <1>3 DEF Cooldowns
  <2> HIDE DEF older
  <2> QED  BY <1>1, <1>3, <2>1, <2>2, <2>3
<1>10. c.left \in Nat /\ TotalUses \in Nat
  BY GateAssumption DEF Cooldowns
<1>11. DoorIsKept(older, left)
  <2> HIDE DEF older, left, young
  <2> QED  BY <1>3, <1>5, <1>6, <1>7, <1>8, <1>9, <1>10 DEF DoorIsKept
<1> QED  BY <1>3, <1>4, <1>11

(* A tick, at both doors. *)
LEMMA GateTickKeeps == ASSUME GateIInv, GateTick PROVE GateIInv'
<1>1. asker' = asker /\ orders' = orders
  BY DEF GateTick
<1>2. Allowed' = Allowed
  BY <1>1 DEF Allowed
<1> DEFINE Aged(c) == [c EXCEPT !.elapsed = Min({@ + 1, Downtime})]
<1> DEFINE Stay(entered) == {[p EXCEPT !.age = @ + 1] : p \in {q \in entered : q.age + 1 < Downtime}}
<1>3. cooldown' = [d \in Doors |-> Aged(cooldown[d])] /\ passed' = [d \in Doors |-> Stay(passed[d])]
  BY DEF GateTick
<1>4. \A d \in Doors : Aged(cooldown[d]) \in Cooldowns /\ Stay(passed[d]) \in SUBSET Entries
                       /\ DoorIsKept(Aged(cooldown[d]), Stay(passed[d]))
  BY DoorGrowsOlder DEF GateIInv, GateTypeOK
<1> HIDE DEF Aged, Stay
<1>5. GateTypeOK'
  BY <1>1, <1>3, <1>4 DEF GateIInv, GateTypeOK
<1>6. \A d \in Doors : DoorIsKept(cooldown'[d], passed'[d])
  BY <1>3, <1>4
<1> QED  BY <1>1, <1>2, <1>5, <1>6 DEF GateIInv

(* Every step of the gate. *)
LEMMA StepGate == GateIInv /\ [GateNext]_gateVars => GateIInv'
<1> SUFFICES ASSUME GateIInv, [GateNext]_gateVars PROVE GateIInv'
  OBVIOUS
<1>1. CASE GateTick
  BY <1>1, GateTickKeeps
<1>2. CASE \E t \in Askers : AskTrader(t)
  BY <1>2, AskTraderKeeps
<1>3. CASE \E t \in Askers : EnterOrder(t)
  BY <1>3, EnterOrderKeeps
<1>4. CASE \E t \in Askers : \E o \in NewOrders : AskForOrder(t, o)
  BY <1>4, AskForOrderKeeps
<1>5. CASE UNCHANGED gateVars
  <2>1. Allowed' = Allowed
    BY <1>5 DEF gateVars, Allowed
  <2> QED  BY <1>5, <2>1 DEF gateVars, GateIInv, GateTypeOK
<1> QED  BY <1>1, <1>2, <1>3, <1>4, <1>5 DEF GateNext

(* can_create_order and create_order: whichever threads ask between the two
   locks, a door is never passed by more than its uses and one within a
   downtime, nor the limit of the orders by more than all threads but one. *)
THEOREM GateHoldsLimits == GateSpec => []OrdersWithinLimits
<1>1. GateIInv => OrdersWithinLimits
  <2> SUFFICES ASSUME GateIInv PROVE OrdersWithinLimits
    OBVIOUS
  <2>1. \A d \in Doors : Cardinality(passed[d]) <= TotalUses + 1
    <3> TAKE d \in Doors
    <3>1. DoorIsKept(cooldown[d], passed[d]) /\ cooldown[d] \in Cooldowns
      BY DEF GateIInv, GateTypeOK
    <3>2. Cardinality(passed[d]) \in Nat
      BY <3>1, FS_CardinalityType DEF DoorIsKept
    <3> QED  BY <3>1, <3>2, GateAssumption DEF DoorIsKept, Cooldowns
  <2>2. orders <= MaxOrders + Cardinality(Askers) - 1
    BY FewAllowed, GateAssumption DEF GateIInv, GateTypeOK
  <2> QED  BY <2>1, <2>2 DEF OrdersWithinLimits
<1> QED  BY InitGate, StepGate, <1>1, PTL DEF GateSpec

-----------------------------------------------------------------------------
(* The rate limiter, for any callers, limits, weights and plans. *)

(* What no step of the limiter leaves: a bucket never holds more than its
   size, no call is of a negative weight, and all that was let through in a
   stretch of time is still in the bucket, less what has dripped out since.  *)
LimiterIInv ==
    /\ todo \in [Callers -> Seq(Limits \X Nat)]
    /\ level \in [Limits -> Nat]
    /\ granted \in [Limits -> UNION {[0 .. Full[l] -> Nat] : l \in Limits}]
    /\ \A l \in Limits :
        /\ level[l] <= Full[l]
        /\ granted[l] \in [0 .. Full[l] -> Nat]
        /\ \A age \in 0 .. Full[l] : granted[l][age] * Interval[l] <= level[l] + age

(* The buckets are empty at the start. *)
LEMMA InitLimiter == LimiterInit => LimiterIInv
<1> SUFFICES ASSUME LimiterInit PROVE LimiterIInv
  OBVIOUS
<1>1. todo \in [Callers -> Seq(Limits \X Nat)]
  BY LimiterAssumption DEF LimiterInit
<1>2. level \in [Limits -> Nat] /\ \A l \in Limits : level[l] = 0 /\ level[l] <= Full[l]
  BY LimiterAssumption DEF LimiterInit
<1>3. \A l \in Limits : granted[l] = [age \in 0 .. Full[l] |-> 0]
  BY DEF LimiterInit
<1>4. ASSUME NEW l \in Limits PROVE granted[l] \in [0 .. Full[l] -> Nat]
  <2>1. [age \in 0 .. Full[l] |-> 0] \in [0 .. Full[l] -> Nat]
    OBVIOUS
  <2> QED BY <1>3, <2>1
<1>5. granted \in [Limits -> UNION {[0 .. Full[l] -> Nat] : l \in Limits}]
  BY <1>3, <1>4 DEF LimiterInit
<1>6. ASSUME NEW l \in Limits, NEW age \in 0 .. Full[l]
      PROVE  granted[l][age] * Interval[l] <= level[l] + age
  <2>1. granted[l][age] = 0 /\ Interval[l] \in Nat /\ level[l] = 0 /\ Full[l] \in Nat
    BY <1>2, <1>3, LimiterAssumption
  <2>2. 0 * Interval[l] = 0
    BY <2>1
  <2> QED BY <2>1, <2>2
<1> QED BY <1>1, <1>2, <1>4, <1>5, <1>6 DEF LimiterIInv

(* A call that has not returned is for a bucket there is. *)
LEMMA CallIsSound ==
  ASSUME LimiterIInv, NEW c \in Callers, todo[c] # <<>>
  PROVE  /\ Call(c) \in Limits \X Nat
         /\ Return(c) => todo' \in [Callers -> Seq(Limits \X Nat)]
<1>1. todo[c] \in Seq(Limits \X Nat)
  BY DEF LimiterIInv
<1>2. Head(todo[c]) \in Limits \X Nat /\ Tail(todo[c]) \in Seq(Limits \X Nat)
  BY <1>1
<1> QED BY <1>2 DEF Call, Return, LimiterIInv

(* A request goes into the bucket and into the account of every age alike. *)
LEMMA GrantKeeps ==
  ASSUME LimiterIInv, NEW c \in Callers, Grant(c)
  PROVE  LimiterIInv'
<1>1. PICK l \in Limits, w \in Nat : Call(c) = <<l, w>>
  BY CallIsSound DEF Grant
<1>2. Interval[l] \in Nat /\ Full[l] \in Nat
  BY LimiterAssumption
<1>3. PICK units \in Nat : units = w * Interval[l] /\ units = Units(Call(c))
  BY <1>1, <1>2 DEF Units
<1>4. /\ level' = [level EXCEPT ![l] = @ + units]
      /\ granted' = [granted EXCEPT ![l] = [age \in DOMAIN @ |-> @[age] + w]]
      /\ level[l] + units <= Full[l]
  <2>1. Call(c)[1] = l /\ Call(c)[2] = w
    BY <1>1
  <2> QED BY <1>3, <2>1 DEF Grant, Conforms
<1>5. todo' \in [Callers -> Seq(Limits \X Nat)]
  BY CallIsSound DEF Grant
<1>6. level' \in [Limits -> Nat] /\ level'[l] = level[l] + units
      /\ \A k \in Limits : k # l => level'[k] = level[k]
  BY <1>4 DEF LimiterIInv
<1>7. granted'[l] = [age \in 0 .. Full[l] |-> granted[l][age] + w]
      /\ \A k \in Limits : k # l => granted'[k] = granted[k]
  BY <1>4 DEF LimiterIInv
<1>8. \A k \in Limits : granted'[k] \in [0 .. Full[k] -> Nat]
  <2> TAKE k \in Limits
  <2>1. granted[k] \in [0 .. Full[k] -> Nat]
    BY DEF LimiterIInv
  <2>2. CASE k # l
    BY <1>7, <2>1, <2>2
  <2>3. CASE k = l
    <3>1. ASSUME NEW age \in 0 .. Full[l] PROVE granted[l][age] + w \in Nat
      <4>1. granted[l] \in [0 .. Full[l] -> Nat]
        BY DEF LimiterIInv
      <4>2. granted[l][age] \in Nat
        BY <4>1
      <4> QED BY <4>2
    <3> QED BY <1>7, <2>3, <3>1
  <2> QED BY <2>2, <2>3
<1>9. granted' \in [Limits -> UNION {[0 .. Full[k] -> Nat] : k \in Limits}]
  <2>1. DOMAIN granted' = Limits /\ granted' = [k \in Limits |-> granted'[k]]
    BY <1>4 DEF LimiterIInv
  <2> QED BY <1>8, <2>1
<1>10. ASSUME NEW k \in Limits, NEW age \in 0 .. Full[k]
       PROVE  granted'[k][age] * Interval[k] <= level'[k] + age
  <2>1. granted[k][age] \in Nat /\ granted[k][age] * Interval[k] <= level[k] + age
    BY DEF LimiterIInv
  <2>2. CASE k # l
    BY <1>6, <1>7, <2>1, <2>2
  <2>3. CASE k = l
    <3>1. granted'[k][age] = granted[k][age] + w
      BY <1>7, <2>3
    <3>2. (granted[k][age] + w) * Interval[k] = granted[k][age] * Interval[k] + w * Interval[k]
      BY <1>2, <2>1, <2>3
    <3>3. level[l] \in Nat
      BY DEF LimiterIInv
    <3>4. granted[l][age] * Interval[l] \in Nat
      BY <1>2, <2>1, <2>3
    <3> QED BY <1>2, <1>3, <1>6, <2>1, <2>3, <3>1, <3>2, <3>3, <3>4
  <2> QED BY <2>2, <2>3
<1> QED BY <1>2, <1>4, <1>5, <1>6, <1>8, <1>9, <1>10 DEF LimiterIInv

(* A tick makes every grant one older, and no bucket loses more than one. *)
LEMMA LimiterTickKeeps ==
  ASSUME LimiterIInv, LimiterTick
  PROVE  LimiterIInv'
<1>1. \A l \in Limits : Full[l] \in Nat /\ Interval[l] \in Nat /\ level[l] \in Nat /\ level[l] <= Full[l]
  BY LimiterAssumption DEF LimiterIInv
<1>2. level' = [l \in Limits |-> IF level[l] = 0 THEN 0 ELSE level[l] - 1]
  BY DEF LimiterTick
<1>3. level' \in [Limits -> Nat]
      /\ \A l \in Limits : level'[l] <= Full[l] /\ level'[l] >= level[l] - 1 /\ level'[l] \in Nat
  BY <1>1, <1>2
<1>4. \A l \in Limits :
        granted'[l] = [age \in 0 .. Full[l] |-> IF age = 0 THEN 0 ELSE granted[l][age - 1]]
  BY DEF LimiterTick
<1>5. ASSUME NEW l \in Limits
      PROVE  /\ granted'[l] \in [0 .. Full[l] -> Nat]
             /\ \A age \in 0 .. Full[l] : granted'[l][age] * Interval[l] <= level'[l] + age
  <2>1. /\ granted[l] \in [0 .. Full[l] -> Nat]
        /\ \A age \in 0 .. Full[l] : granted[l][age] * Interval[l] <= level[l] + age
    BY DEF LimiterIInv
  <2>2. ASSUME NEW age \in 0 .. Full[l], age # 0
        PROVE  /\ granted'[l][age] = granted[l][age - 1] /\ granted[l][age - 1] \in Nat
               /\ granted[l][age - 1] * Interval[l] <= level[l] + (age - 1)
    <3>1. age - 1 \in 0 .. Full[l]
      BY <1>1, <2>2
    <3> QED BY <1>4, <2>1, <2>2, <3>1
  <2>3. ASSUME NEW age \in 0 .. Full[l]
        PROVE  granted'[l][age] \in Nat /\ granted'[l][age] * Interval[l] <= level'[l] + age
    <3>1. CASE age = 0
      <4>1. granted'[l][age] = 0
        BY <1>4, <3>1
      <4> QED BY <1>1, <1>3, <3>1, <4>1
    <3>2. CASE age # 0
      <4>1. level'[l] >= level[l] - 1 /\ level'[l] \in Nat /\ level[l] \in Nat
        BY <1>1, <1>3
      <4>2. granted[l][age - 1] * Interval[l] \in Nat
        BY <1>1, <2>2, <3>2
      <4> QED BY <1>1, <2>2, <3>2, <4>1, <4>2
    <3> QED BY <3>1, <3>2
  <2>4. DOMAIN granted'[l] = 0 .. Full[l]
        /\ granted'[l] = [age \in 0 .. Full[l] |-> granted'[l][age]]
    BY <1>4
  <2> QED BY <2>3, <2>4
<1>6. granted' \in [Limits -> UNION {[0 .. Full[l] -> Nat] : l \in Limits}]
  <2>1. DOMAIN granted' = Limits /\ granted' = [l \in Limits |-> granted'[l]]
    BY DEF LimiterTick
  <2> QED BY <1>5, <2>1
<1>7. todo' \in [Callers -> Seq(Limits \X Nat)]
  BY DEF LimiterTick, LimiterIInv
<1> QED BY <1>3, <1>5, <1>6, <1>7 DEF LimiterIInv

(* Every step of the limiter. *)
LEMMA LimiterKeeps == LimiterIInv /\ [LimiterNext]_limiterVars => LimiterIInv'
<1> SUFFICES ASSUME LimiterIInv, [LimiterNext]_limiterVars PROVE LimiterIInv'
  OBVIOUS
<1>1. CASE LimiterTick
  BY <1>1, LimiterTickKeeps
<1>2. CASE UNCHANGED limiterVars
  BY <1>2 DEF limiterVars, LimiterIInv
<1>3. ASSUME NEW c \in Callers, CallerStep(c) PROVE LimiterIInv'
  <2>1. CASE Grant(c)
    BY <2>1, GrantKeeps
  <2>2. CASE Skip(c)
    <3>1. todo' \in [Callers -> Seq(Limits \X Nat)]
      BY <2>2, CallIsSound DEF Skip
    <3> QED BY <2>2, <3>1 DEF Skip, LimiterIInv
  <2>3. CASE Sleep(c) \/ WakeUp(c)
    BY <2>3 DEF Sleep, WakeUp, LimiterIInv
  <2> QED BY <1>3, <2>1, <2>2, <2>3 DEF CallerStep
<1> QED BY <1>1, <1>2, <1>3 DEF LimiterNext

(* The limits hold: for any callers, limits, weights and plans, what a limit
   lets through in any stretch of time up to the time the limit is meant for
   is at most the capacity of its bucket and what drips out meanwhile, in
   whatever order the callers sleep and wake.                              *)
THEOREM LimitsHold == LimiterSpec => []GrantsBounded
<1>1. LimiterIInv => GrantsBounded
  <2> SUFFICES ASSUME LimiterIInv, NEW l \in Limits, NEW age \in 0 .. Full[l]
               PROVE  granted[l][age] * Interval[l] <= Full[l] + age
    BY DEF GrantsBounded
  <2>1. granted[l][age] \in Nat /\ Interval[l] \in Nat /\ Full[l] \in Nat /\ level[l] \in Nat
    BY LimiterAssumption DEF LimiterIInv
  <2>2. granted[l][age] * Interval[l] <= level[l] + age /\ level[l] <= Full[l]
    BY DEF LimiterIInv
  <2>3. granted[l][age] * Interval[l] \in Nat
    BY <2>1
  <2> QED BY <2>1, <2>2, <2>3
<1> QED BY <1>1, InitLimiter, LimiterKeeps, PTL DEF LimiterSpec

-----------------------------------------------------------------------------
(* The balance sheet. *)

(* Between two updates the sheet is the latest report, and within one it has
   the free amount of that report and the locked amount of the one before.  *)
SheetIInv ==
    /\ reports \in Balances \X Balances
    /\ stream \in Seq(Events)
    /\ writing = Nobody => sheet = reports[2]
    /\ writing # Nobody => writing = reports[2] /\ sheet = <<reports[2][1], reports[1][2]>>

(* ContextInstance::new fetches the account. *)
LEMMA InitSheet == AccountInit => SheetIInv
  BY DEF AccountInit, SheetIInv, Nobody

(* TakeEvent: what is taken from the channel is one of the events, and so is
   all that stays in it.                                                    *)
LEMMA Taken ==
  ASSUME SheetIInv, NEW kind, TakeEvent(kind)
  PROVE  /\ Head(stream) \in Events /\ Head(stream).kind = kind
         /\ stream' \in Seq(Events) /\ writing = Nobody
  BY DEF SheetIInv, TakeEvent

(* process_account_update, its first half. *)
LEMMA SetFreeKeeps == ASSUME SheetIInv, SetFree PROVE SheetIInv'
<1>1. TakeEvent("account")
  BY DEF SetFree
<1> DEFINE r == Head(stream).report
<1>2. r \in Balances
  BY <1>1, Taken DEF Events
<1>3. sheet' = [sheet EXCEPT ![1] = r[1]] /\ writing' = r /\ reports' = <<reports[2], r>>
  BY DEF SetFree
<1>4. reports[2] \in Nat \X Nat /\ r \in Nat \X Nat /\ sheet = reports[2]
  BY <1>1, <1>2, Taken, AccountAssumption DEF SheetIInv
<1>5. sheet' = <<r[1], reports[2][2]>> /\ r # <<>>
  BY <1>3, <1>4
<1> HIDE DEF r
<1>6. reports' \in Balances \X Balances /\ reports'[1] = reports[2] /\ reports'[2] = r
  BY <1>2, <1>3 DEF SheetIInv
<1>7. writing' # Nobody
  BY <1>3, <1>5 DEF Nobody
<1> QED  BY <1>1, <1>3, <1>5, <1>6, <1>7, Taken DEF SheetIInv

(* The second half. *)
LEMMA SetLockedKeeps == ASSUME SheetIInv, SetLocked PROVE SheetIInv'
<1>1. writing = reports[2] /\ sheet = <<reports[2][1], reports[1][2]>>
  BY DEF SetLocked, SheetIInv
<1>2. sheet' = [sheet EXCEPT ![2] = writing[2]] /\ writing' = Nobody
      /\ reports' = reports /\ stream' = stream
  BY DEF SetLocked
<1>3. reports[2] \in Nat \X Nat
  BY AccountAssumption DEF SheetIInv
<1>4. sheet' = reports[2]
  <2>1. reports[2] = <<reports[2][1], reports[2][2]>>
    BY <1>3
  <2>2. sheet' = <<reports[2][1], reports[2][2]>>
    <3>1. \A a, b, c : [<<a, b>> EXCEPT ![2] = c] = <<a, c>>
      OBVIOUS
    <3> QED  BY <1>1, <1>2, <3>1, Zenon
  <2> QED  BY <2>1, <2>2
<1> QED  BY <1>2, <1>4 DEF SheetIInv

(* Every step of the account. *)
LEMMA StepSheet == SheetIInv /\ [AccountNext]_accountVars => SheetIInv'
<1> SUFFICES ASSUME SheetIInv, [AccountNext]_accountVars PROVE SheetIInv'
  OBVIOUS
<1> USE DEF sheetVars, positionVars
<1>1. CASE \E e \in Events : Tell(e)
  BY <1>1 DEF Tell, SheetIInv
<1>2. CASE SetFree
  BY <1>2, SetFreeKeeps
<1>3. CASE SetLocked
  BY <1>3, SetLockedKeeps
<1>4. CASE ProcessFill
  BY <1>4, Taken DEF ProcessFill, SheetIInv
<1>5. CASE ProcessOrderUpdate
  BY <1>5, Taken DEF ProcessOrderUpdate, SheetIInv
<1>6. CASE ProcessBalanceUpdate
  BY <1>6, Taken DEF ProcessBalanceUpdate, SheetIInv
<1>7. CASE StartLoop \/ Get \/ UNCHANGED accountVars
  BY <1>7 DEF StartLoop, Get, accountVars, SheetIInv
<1> QED  BY <1>1, <1>2, <1>3, <1>4, <1>5, <1>6, <1>7 DEF AccountNext

(* process_account_update, set_free and set_locked against get: what a trading
   thread reads has the free amount of the latest report, and the locked one
   of that report or the one before.                                        *)
THEOREM ReadsRecent == AccountSpec => ReadsAreRecent
<1>1. SheetIInv /\ [AccountNext]_accountVars
        => [Get => view' \in {reports[2], <<reports[2][1], reports[1][2]>>}]_accountVars
  <2> SUFFICES ASSUME SheetIInv, Get PROVE view' \in {reports[2], <<reports[2][1], reports[1][2]>>}
    OBVIOUS
  <2> QED  BY DEF Get, SheetIInv
<1> QED  BY InitSheet, StepSheet, <1>1, PTL DEF AccountSpec, ReadsAreRecent

-----------------------------------------------------------------------------
(* Numbers and fractions. *)

(* Every set of natural numbers that is not empty has a least one. *)
LEMMA LeastNumber ==
    ASSUME NEW S, S \subseteq Nat, S # {}
    PROVE  \E m \in S : \A k \in S : m <= k
<1> DEFINE R == OpToRel(<, Nat)
<1>1. IsWellFoundedOn(R, Nat)
  BY NatLessThanWellFounded, Zenon
<1>2. \A x, y \in Nat : x < y => <<x, y>> \in R
  BY Zenon DEF OpToRel
<1> HIDE DEF R
<1>a. \A Q, U : IsWellFoundedOn(Q, U) => \A T : T \subseteq U /\ T # {} => \E x \in T : \A y \in T : ~ (<<y, x>> \in Q)
  BY WFMin, Zenon
<1>b. \E x \in S : \A y \in S : ~ (<<y, x>> \in R)
  BY <1>1, <1>a
<1>3. PICK m \in S : \A k \in S : ~ (<<k, m>> \in R)
  BY <1>b
<1>4. ASSUME NEW k \in S PROVE m <= k
  <2>1. ~ (k < m)
    BY <1>2, <1>3
  <2>2. QED BY <2>1
<1>5. QED BY <1>4

(* A factor other than 0 can be left out of both sides. *)
LEMMA Cancel ==
  ASSUME NEW k \in Int, NEW a \in Int, NEW b \in Int, k # 0, a * k = b * k
  PROVE  a = b
<1>1. (a - b) * k = 0
  OBVIOUS
<1> QED BY <1>1

(* Max of a bounded set of numbers is one of them. *)
LEMMA MaxIsMember ==
  ASSUME NEW d \in Nat, NEW S, S \subseteq 1 .. d, S # {}
  PROVE  Max(S) \in S
<1> DEFINE T == {d - k : k \in S}
<1>1. T \subseteq Nat /\ T # {}
  <2>1. ASSUME NEW k \in S PROVE d - k \in Nat
    <3>1. k \in 1 .. d
      OBVIOUS
    <3> QED BY <3>1
  <2> QED BY <2>1
<1>2. PICK t \in T : \A u \in T : t <= u
  BY <1>1, LeastNumber
<1>3. PICK m \in S : t = d - m
  OBVIOUS
<1>4. \A k \in S : m >= k
  <2> TAKE k \in S
  <2>1. t <= d - k
    BY <1>2
  <2> QED BY <1>3, <2>1
<1>5. Max(S) = CHOOSE x \in S : \A y \in S : x >= y
  BY DEF Max
<1> QED BY <1>4, <1>5, Zenon

(* Dividing by a divisor loses nothing. *)
LEMMA Quotient ==
  ASSUME NEW n \in Int, NEW g \in Nat \ {0}, n % g = 0
  PROVE  n \div g \in Int /\ n = g * (n \div g)
OBVIOUS

(* Lowest terms are the same number as the fraction they were made from. *)
LEMMA Reduces ==
  ASSUME NEW n \in Int, NEW d \in Nat \ {0}
  PROVE  /\ Reduced(n, d) \in Int \X (Nat \ {0})
         /\ Reduced(n, d)[1] * d = n * Reduced(n, d)[2]
<1> DEFINE S == {k \in 1 .. d : n % k = 0 /\ d % k = 0}
<1>1. S \subseteq 1 .. d /\ 1 \in S
  OBVIOUS
<1>2. Max(S) \in S
  BY <1>1, MaxIsMember
<1>3. PICK g \in 1 .. d : g = Max(S) /\ n % g = 0 /\ d % g = 0
  BY <1>2
<1>4. PICK a \in Int, b \in Int : a = n \div g /\ b = d \div g /\ n = g * a /\ d = g * b
  <2>1. g \in Nat \ {0}
    OBVIOUS
  <2>2. n % g = 0 /\ d % g = 0 /\ d \in Int
    BY <1>3
  <2>3. n \div g \in Int /\ n = g * (n \div g)
    BY <2>1, <2>2, Quotient
  <2>4. d \div g \in Int /\ d = g * (d \div g)
    BY <2>1, <2>2, Quotient
  <2> QED BY <2>3, <2>4
<1>5. b > 0
  <2>1. g * b > 0 /\ g > 0
    BY <1>4
  <2> QED BY <2>1, SMT
<1>6. Reduced(n, d) = <<a, b>>
  BY <1>3, <1>4 DEF Reduced
<1>7. a * (g * b) = (g * a) * b
  BY <1>4
<1> QED BY <1>4, <1>5, <1>6, <1>7

(* The fractions, all with a positive denominator. *)
Fractions == Int \X (Nat \ {0})
Positive == Nat \ {0}

(* x is N divided by D. *)
IsRatio(x, N, D) == x \in Fractions /\ x[1] * D = N * x[2]

(* Two ratios of the same numbers are the same number. *)
LEMMA SameRatio ==
  ASSUME NEW N \in Int, NEW D \in Positive, NEW x, NEW y, IsRatio(x, N, D), IsRatio(y, N, D)
  PROVE  x[1] * y[2] = y[1] * x[2]
<1>1. PICK a \in Int, b \in Positive, c \in Int, d \in Positive :
        /\ x[1] = a /\ x[2] = b /\ y[1] = c /\ y[2] = d /\ a * D = N * b /\ c * D = N * d
  BY DEF IsRatio, Fractions, Positive
<1>2. (a * d) * D = (a * D) * d /\ (c * b) * D = (c * D) * b
  BY <1>1 DEF Positive
<1>3. (N * b) * d = (N * d) * b
  BY <1>1 DEF Positive
<1>4. (a * d) * D = (c * b) * D
  BY <1>1, <1>2, <1>3
<1>5. a * d \in Int /\ c * b \in Int /\ D \in Int /\ D # 0
  BY <1>1 DEF Positive
<1>6. a * d = c * b
  BY <1>4, <1>5, Cancel
<1> QED BY <1>1, <1>6

(* And the other way round. *)
LEMMA SameNumerator ==
  ASSUME NEW N \in Int, NEW M \in Int, NEW D \in Positive, NEW x, NEW y,
         IsRatio(x, N, D), IsRatio(y, M, D), x[1] * y[2] = y[1] * x[2]
  PROVE  N = M
<1>1. PICK a \in Int, b \in Positive, c \in Int, d \in Positive :
        /\ x[1] = a /\ x[2] = b /\ y[1] = c /\ y[2] = d /\ a * D = N * b /\ c * D = M * d
  BY DEF IsRatio, Fractions, Positive
<1>2. a * d = c * b
  BY <1>1
<1>3. (a * d) * D = (a * D) * d /\ (c * b) * D = (c * D) * b
  BY <1>1 DEF Positive
<1>4. (N * b) * d = N * (b * d) /\ (M * d) * b = M * (b * d)
  BY <1>1 DEF Positive
<1>5. N * (b * d) = M * (b * d)
  BY <1>1, <1>2, <1>3, <1>4
<1>6. b * d \in Int /\ b * d # 0
  BY <1>1 DEF Positive
<1> QED BY <1>5, <1>6, Cancel

(* Any fraction is a number divided by its own denominator, or by a multiple of it. *)
LEMMA RatioOfItself ==
  ASSUME NEW x \in Fractions, NEW k \in Positive
  PROVE  IsRatio(x, x[1] * k, x[2] * k)
<1>1. PICK a \in Int, b \in Positive : x[1] = a /\ x[2] = b
  BY DEF Fractions, Positive
<1>2. a * (b * k) = (a * k) * b
  BY <1>1 DEF Positive
<1> QED BY <1>1, <1>2 DEF IsRatio

(* What the operations on fractions make of ratios over one denominator. *)
LEMMA WholeRatio ==
  ASSUME NEW n \in Int, NEW D \in Positive
  PROVE  IsRatio(Whole(n), n * D, D)
<1>1. (n * D) * 1 = n * D
  BY DEF Positive
<1> QED BY <1>1 DEF IsRatio, Whole, Fractions, Positive

LEMMA PlusRatio ==
  ASSUME NEW N \in Int, NEW M \in Int, NEW D \in Positive, NEW x, NEW y, IsRatio(x, N, D), IsRatio(y, M, D)
  PROVE  IsRatio(Plus(x, y), N + M, D)
<1>1. PICK a \in Int, b \in Positive, c \in Int, d \in Positive :
        /\ x[1] = a /\ x[2] = b /\ y[1] = c /\ y[2] = d /\ a * D = N * b /\ c * D = M * d
  BY DEF IsRatio, Fractions, Positive
<1> DEFINE n == a * d + c * b
           m == b * d
<1>2. n \in Int /\ m \in Nat \ {0} /\ m \in Positive
  BY <1>1 DEF Positive
<1>3. Plus(x, y) = Reduced(n, m)
  BY <1>1 DEF Plus
<1>4. Reduced(n, m) \in Int \X (Nat \ {0}) /\ Reduced(n, m)[1] * m = n * Reduced(n, m)[2]
  BY <1>2, Reduces
<1>5. PICK p \in Int, q \in Positive : Reduced(n, m) = <<p, q>>
  BY <1>4 DEF Positive
<1>6. p * m = n * q
  BY <1>4, <1>5
<1>7. n * D = (N + M) * m
  <2>1. n * D = (a * D) * d + (c * D) * b
    BY <1>1 DEF Positive
  <2>2. (N * b) * d + (M * d) * b = (N + M) * (b * d)
    BY <1>1 DEF Positive
  <2> QED BY <1>1, <2>1, <2>2
<1> HIDE DEF n, m
<1>8. (p * D) * m = ((N + M) * q) * m
  <2>1. (p * D) * m = (p * m) * D
    BY <1>2 DEF Positive
  <2>2. (n * q) * D = (n * D) * q
    BY <1>2 DEF Positive
  <2>3. ((N + M) * m) * q = ((N + M) * q) * m
    BY <1>2 DEF Positive
  <2> QED BY <1>6, <1>7, <2>1, <2>2, <2>3
<1>9. p * D = (N + M) * q
  <2>1. p * D \in Int /\ (N + M) * q \in Int /\ m \in Int /\ m # 0
    BY <1>2 DEF Positive
  <2> QED BY <1>8, <2>1, Cancel
<1> QED BY <1>3, <1>4, <1>5, <1>9 DEF IsRatio, Fractions

LEMMA TimesRatio ==
  ASSUME NEW N \in Int, NEW D \in Positive, NEW k \in Int, NEW x, IsRatio(x, N, D)
  PROVE  IsRatio(Times(x, k), N * k, D)
<1>1. PICK a \in Int, b \in Positive : x[1] = a /\ x[2] = b /\ a * D = N * b
  BY DEF IsRatio, Fractions, Positive
<1> DEFINE n == a * k
<1>2. n \in Int /\ b \in Nat \ {0}
  BY <1>1 DEF Positive
<1>3. Times(x, k) = Reduced(n, b)
  BY <1>1 DEF Times
<1>4. Reduced(n, b) \in Int \X (Nat \ {0}) /\ Reduced(n, b)[1] * b = n * Reduced(n, b)[2]
  BY <1>2, Reduces
<1>5. PICK p \in Int, q \in Positive : Reduced(n, b) = <<p, q>>
  BY <1>4 DEF Positive
<1>6. p * b = n * q
  BY <1>4, <1>5
<1>7. n * D = (N * k) * b
  <2>1. (a * k) * D = (a * D) * k
    BY <1>1 DEF Positive
  <2>2. (N * b) * k = (N * k) * b
    BY <1>1 DEF Positive
  <2> QED BY <1>1, <2>1, <2>2
<1> HIDE DEF n
<1>8. (p * D) * b = ((N * k) * q) * b
  <2>1. (p * D) * b = (p * b) * D
    BY <1>2 DEF Positive
  <2>2. (n * q) * D = (n * D) * q
    BY <1>2 DEF Positive
  <2>3. ((N * k) * b) * q = ((N * k) * q) * b
    BY <1>2 DEF Positive
  <2> QED BY <1>6, <1>7, <2>1, <2>2, <2>3
<1>9. p * D = (N * k) * q
  <2>1. p * D \in Int /\ (N * k) * q \in Int /\ b \in Int /\ b # 0
    BY <1>2 DEF Positive
  <2> QED BY <1>8, <2>1, Cancel
<1> QED BY <1>3, <1>4, <1>5, <1>9 DEF IsRatio, Fractions

LEMMA OverRatio ==
  ASSUME NEW N \in Int, NEW D \in Positive, NEW k \in Positive, NEW x, IsRatio(x, N, D)
  PROVE  IsRatio(Over(x, k), N, D * k)
<1>1. PICK a \in Int, b \in Positive : x[1] = a /\ x[2] = b /\ a * D = N * b
  BY DEF IsRatio, Fractions, Positive
<1> DEFINE m == b * k
<1>2. m \in Nat \ {0} /\ k > 0
  BY <1>1 DEF Positive
<1>3. Over(x, k) = Reduced(a, m)
  BY <1>1, <1>2 DEF Over
<1>4. Reduced(a, m) \in Int \X (Nat \ {0}) /\ Reduced(a, m)[1] * m = a * Reduced(a, m)[2]
  BY <1>2, Reduces
<1>5. PICK p \in Int, q \in Positive : Reduced(a, m) = <<p, q>>
  BY <1>4 DEF Positive
<1>6. p * (b * k) = a * q
  BY <1>4, <1>5
<1>7. (p * (D * k)) * b = (N * q) * b
  <2>1. (p * (D * k)) * b = (p * (b * k)) * D
    BY <1>1 DEF Positive
  <2>2. (a * q) * D = (a * D) * q
    BY <1>1 DEF Positive
  <2>3. (N * b) * q = (N * q) * b
    BY <1>1 DEF Positive
  <2> QED BY <1>1, <1>6, <2>1, <2>2, <2>3
<1>8. p * (D * k) = N * q
  <2>1. p * (D * k) \in Int /\ N * q \in Int /\ b \in Int /\ b # 0
    BY <1>1 DEF Positive
  <2> QED BY <1>7, <2>1, Cancel
<1> QED BY <1>3, <1>4, <1>5, <1>8 DEF IsRatio, Fractions

LEMMA MinusRatio ==
  ASSUME NEW N \in Int, NEW M \in Int, NEW D \in Positive, NEW x, NEW y, IsRatio(x, N, D), IsRatio(y, M, D)
  PROVE  IsRatio(Minus(x, y), N - M, D)
<1>1. IsRatio(Times(y, -1), M * (-1), D)
  BY TimesRatio
<1>2. M * (-1) \in Int /\ N + M * (-1) = N - M
  OBVIOUS
<1>3. IsRatio(Plus(x, Times(y, -1)), N + M * (-1), D)
  BY <1>1, <1>2, PlusRatio
<1> QED BY <1>2, <1>3 DEF Minus

-----------------------------------------------------------------------------
(* The position, for fills of any amount at any price. *)

(* The books as the proof keeps them. *)
BooksIInv ==
    shorted \/ /\ position \in [held : Nat, invested : Int, allocated : Int, revenue : Int,
                                average : Fractions, realized : Fractions]
               /\ BooksBalance

(* A new position has earned, holds, has invested and has made nothing. *)
LEMMA InitBooks == AccountInit => BooksIInv
<1> SUFFICES ASSUME AccountInit PROVE BooksIInv
  OBVIOUS
<1>1. position = NewPosition /\ Whole(0) \in Fractions
  BY DEF AccountInit, Whole, Fractions
<1>2. position \in [held : Nat, invested : Int, allocated : Int, revenue : Int,
                    average : Fractions, realized : Fractions]
  BY <1>1 DEF NewPosition
<1>3. 1 \in Positive /\ 0 * 1 = 0
  BY DEF Positive
<1>4. IsRatio(Whole(0), 0, 1)
  BY <1>3, WholeRatio
<1>5. IsRatio(Times(Whole(0), 0), 0, 1)
  <2>1. IsRatio(Times(Whole(0), 0), 0 * 0, 1)
    BY <1>3, <1>4, TimesRatio
  <2> QED BY <2>1
<1>6. IsRatio(Plus(Whole(0), Times(Whole(0), 0)), 0, 1) /\ IsRatio(Plus(Whole(0), Whole(0)), 0, 1)
  <2>1. IsRatio(Plus(Whole(0), Times(Whole(0), 0)), 0 + 0, 1) /\ IsRatio(Plus(Whole(0), Whole(0)), 0 + 0, 1)
    BY <1>3, <1>4, <1>5, PlusRatio
  <2> QED BY <2>1
<1>7. SameNumber(Plus(Whole(0), Times(Whole(0), 0)), Plus(Whole(0), Whole(0)))
  BY <1>3, <1>6, SameRatio DEF SameNumber
<1>8. position.revenue = 0 /\ position.held = 0 /\ position.invested = 0
      /\ position.average = Whole(0) /\ position.realized = Whole(0)
  BY <1>1 DEF NewPosition
<1> QED BY <1>2, <1>7, <1>8 DEF BooksIInv, BooksBalance

(* What BooksBalance says of the numerators over a common denominator. *)
LEMMA BooksInNumbers ==
  ASSUME NEW D \in Positive, NEW A \in Int, NEW C \in Int, NEW avg, NEW real,
         NEW held \in Int, NEW revenue \in Int, NEW invested \in Int,
         IsRatio(avg, A, D), IsRatio(real, C, D)
  PROVE  SameNumber(Plus(Whole(revenue), Times(avg, held)), Plus(Whole(invested), real))
           <=> revenue * D + A * held = invested * D + C
<1>1. IsRatio(Whole(revenue), revenue * D, D) /\ IsRatio(Whole(invested), invested * D, D)
  BY WholeRatio
<1>2. IsRatio(Times(avg, held), A * held, D)
  BY TimesRatio
<1>3. revenue * D \in Int /\ invested * D \in Int /\ A * held \in Int
  BY DEF Positive
<1>4. IsRatio(Plus(Whole(revenue), Times(avg, held)), revenue * D + A * held, D)
  BY <1>1, <1>2, <1>3, PlusRatio
<1>5. IsRatio(Plus(Whole(invested), real), invested * D + C, D)
  BY <1>1, <1>3, PlusRatio
<1>6. revenue * D + A * held \in Int /\ invested * D + C \in Int
  BY <1>3
<1>7. ASSUME revenue * D + A * held = invested * D + C
      PROVE  SameNumber(Plus(Whole(revenue), Times(avg, held)), Plus(Whole(invested), real))
  BY <1>4, <1>5, <1>6, <1>7, SameRatio DEF SameNumber
<1>8. ASSUME SameNumber(Plus(Whole(revenue), Times(avg, held)), Plus(Whole(invested), real))
      PROVE  revenue * D + A * held = invested * D + C
  <2> DEFINE l == Plus(Whole(revenue), Times(avg, held))
             r == Plus(Whole(invested), real)
  <2>1. l[1] * r[2] = r[1] * l[2]
    BY <1>8 DEF SameNumber
  <2> HIDE DEF l, r
  <2>2. IsRatio(l, revenue * D + A * held, D) /\ IsRatio(r, invested * D + C, D)
    BY <1>4, <1>5 DEF l, r
  <2> QED BY <1>6, <2>1, <2>2, SameNumerator
<1> QED BY <1>7, <1>8

(* A position's two fractions over the product of their denominators. *)
LEMMA CommonDenominator ==
  ASSUME NEW x \in Fractions, NEW y \in Fractions
  PROVE  \E N \in Int, M \in Int, D \in Positive : IsRatio(x, N, D) /\ IsRatio(y, M, D)
<1>1. PICK a \in Int, b \in Positive, c \in Int, d \in Positive : x = <<a, b>> /\ y = <<c, d>>
  BY DEF Fractions, Positive
<1>2. b * d \in Positive /\ a * d \in Int /\ c * b \in Int /\ d * b = b * d
  BY <1>1 DEF Positive
<1>3. IsRatio(x, a * d, b * d) /\ IsRatio(y, c * b, d * b)
  BY <1>1, RatioOfItself
<1> QED BY <1>2, <1>3

(* update_on_buy: the amount and its price go into the average. *)
LEMMA BuyBalances ==
  ASSUME NEW p \in [held : Nat, invested : Int, allocated : Int, revenue : Int,
                    average : Fractions, realized : Fractions],
         NEW amount \in Nat \ {0}, NEW price \in Nat \ {0},
         SameNumber(Plus(Whole(p.revenue), Times(p.average, p.held)),
                    Plus(Whole(p.invested), p.realized))
  PROVE  LET q == UpdateOnBuy(p, amount, price)
         IN  /\ q \in [held : Nat, invested : Int, allocated : Int, revenue : Int,
                       average : Fractions, realized : Fractions]
             /\ SameNumber(Plus(Whole(q.revenue), Times(q.average, q.held)),
                           Plus(Whole(q.invested), q.realized))
<1> DEFINE q == UpdateOnBuy(p, amount, price)
           held == p.held + amount
           cost == amount * price
           total == Plus(Times(p.average, p.held), Whole(cost))
<1>1. held \in Positive /\ held # 0 /\ cost \in Nat /\ p.held \in Nat
  BY DEF Positive
<1>2. q = [p EXCEPT !.invested = @ + cost, !.allocated = @ + cost, !.held = held,
                    !.average = Over(total, held)]
  BY <1>1 DEF UpdateOnBuy
<1>3. PICK A \in Int, C \in Int, D \in Positive : IsRatio(p.average, A, D) /\ IsRatio(p.realized, C, D)
  BY CommonDenominator
<1>4. PICK H \in Nat, R \in Int, I \in Int : H = p.held /\ R = p.revenue /\ I = p.invested
  OBVIOUS
<1>5. R * D + A * H = I * D + C
  BY <1>3, <1>4, BooksInNumbers
<1> HIDE DEF q, held, cost
<1>6. IsRatio(total, A * H + cost * D, D)
  <2>1. IsRatio(Times(p.average, p.held), A * H, D)
    BY <1>3, <1>4, TimesRatio
  <2>2. IsRatio(Whole(cost), cost * D, D)
    BY <1>1, WholeRatio
  <2>3. A * H \in Int /\ cost * D \in Int
    BY <1>1 DEF Positive
  <2> QED BY <2>1, <2>2, <2>3, PlusRatio
<1>7. A * H + cost * D \in Int
  BY <1>1 DEF Positive
<1> HIDE DEF total
<1>8. IsRatio(Over(total, held), A * H + cost * D, D * held)
  BY <1>1, <1>6, <1>7, OverRatio
<1>9. q \in [held : Nat, invested : Int, allocated : Int, revenue : Int,
             average : Fractions, realized : Fractions]
  <2>1. Over(total, held) \in Fractions
    BY <1>8 DEF IsRatio
  <2>2. held \in Nat /\ p.invested + cost \in Int /\ p.allocated + cost \in Int
    BY <1>1 DEF Positive
  <2> HIDE DEF total
  <2>3. q = [held |-> held, invested |-> p.invested + cost, allocated |-> p.allocated + cost,
             revenue |-> p.revenue, average |-> Over(total, held), realized |-> p.realized]
    BY <1>2
  <2> QED BY <2>1, <2>2, <2>3
<1>10. /\ q.revenue = R /\ q.average = Over(total, held) /\ q.held = held
       /\ q.invested = I + cost /\ q.realized = p.realized
  BY <1>2, <1>4
<1>11. D * held \in Positive /\ C * held \in Int
  BY <1>1 DEF Positive
<1>12. IsRatio(p.realized, C * held, D * held)
  <2>1. PICK c \in Int, d \in Positive : p.realized[1] = c /\ p.realized[2] = d /\ c * D = C * d
    BY <1>3 DEF IsRatio, Fractions, Positive
  <2>2. c * (D * held) = (c * D) * held /\ (C * held) * d = (C * d) * held
    BY <1>1, <2>1 DEF Positive
  <2> QED BY <1>3, <2>1, <2>2 DEF IsRatio
<1>13. R * (D * held) + (A * H + cost * D) * held = (I + cost) * (D * held) + C * held
  <2>1. R * (D * held) + (A * H + cost * D) * held = (R * D + A * H) * held + (cost * D) * held
    BY <1>1 DEF Positive
  <2>2. (I + cost) * (D * held) + C * held = (I * D + C) * held + (cost * D) * held
    BY <1>1 DEF Positive
  <2> QED BY <1>5, <2>1, <2>2
<1>14. held \in Int /\ I + cost \in Int
  BY <1>1 DEF Positive
<1>15. SameNumber(Plus(Whole(R), Times(Over(total, held), held)), Plus(Whole(I + cost), p.realized))
  BY <1>7, <1>8, <1>11, <1>12, <1>13, <1>14, BooksInNumbers
<1> QED BY <1>9, <1>10, <1>15 DEF q

(* update_on_sell: what is sold leaves at the average price, and what it
   fetched above that has been made.                                       *)
LEMMA SellBalances ==
  ASSUME NEW p \in [held : Nat, invested : Int, allocated : Int, revenue : Int,
                    average : Fractions, realized : Fractions],
         NEW amount \in Nat \ {0}, NEW price \in Nat \ {0},
         SameNumber(Plus(Whole(p.revenue), Times(p.average, p.held)),
                    Plus(Whole(p.invested), p.realized))
  PROVE  LET q == UpdateOnSell(p, amount, price)
         IN  /\ q \in [held : Int, invested : Int, allocated : Int, revenue : Int,
                       average : Fractions, realized : Fractions]
             /\ SameNumber(Plus(Whole(q.revenue), Times(q.average, q.held)),
                           Plus(Whole(q.invested), q.realized))
<1> DEFINE q == UpdateOnSell(p, amount, price)
           made == Plus(p.realized, Times(Minus(Whole(price), p.average), amount))
<1>1. PICK fetched \in Nat : fetched = amount * price
  OBVIOUS
<1>2. q = [p EXCEPT !.revenue = @ + fetched, !.held = @ - amount, !.realized = made]
  BY <1>1 DEF UpdateOnSell
<1>3. PICK A \in Int, C \in Int, D \in Positive : IsRatio(p.average, A, D) /\ IsRatio(p.realized, C, D)
  BY CommonDenominator
<1>4. PICK H \in Nat, R \in Int, I \in Int : H = p.held /\ R = p.revenue /\ I = p.invested
  OBVIOUS
<1>5. R * D + A * H = I * D + C
  BY <1>3, <1>4, BooksInNumbers
<1>6. PICK P \in Int : P = price * D
  BY DEF Positive
<1>7. IsRatio(Minus(Whole(price), p.average), P - A, D)
  <2>1. IsRatio(Whole(price), P, D)
    BY <1>6, WholeRatio
  <2> QED BY <1>3, <2>1, MinusRatio
<1>8. PICK M \in Int : M = (P - A) * amount
  OBVIOUS
<1>9. IsRatio(made, C + M, D)
  <2>1. P - A \in Int /\ amount \in Int
    OBVIOUS
  <2>2. IsRatio(Times(Minus(Whole(price), p.average), amount), M, D)
    BY <1>7, <1>8, <2>1, TimesRatio
  <2> QED BY <1>3, <2>2, PlusRatio
<1> HIDE DEF made
<1>10. q \in [held : Int, invested : Int, allocated : Int, revenue : Int,
              average : Fractions, realized : Fractions]
  <2>1. made \in Fractions
    BY <1>9 DEF IsRatio
  <2>2. p.revenue + fetched \in Int /\ p.held - amount \in Int
    OBVIOUS
  <2> QED BY <1>2, <2>1, <2>2
<1>11. /\ q.revenue = R + fetched /\ q.average = p.average /\ q.held = H - amount
       /\ q.invested = I /\ q.realized = made
  BY <1>2, <1>4
<1>12. (R + fetched) * D + A * (H - amount) = I * D + (C + M)
  <2>1. (R + fetched) * D + A * (H - amount) = (R * D + A * H) + (fetched * D - A * amount)
    BY DEF Positive
  <2>2. M = (price * D) * amount - A * amount
    BY <1>6, <1>8 DEF Positive
  <2>3. (price * D) * amount = (amount * price) * D
    BY DEF Positive
  <2>4. I * D \in Int /\ fetched * D \in Int /\ A * amount \in Int
    BY DEF Positive
  <2> QED BY <1>1, <1>5, <2>1, <2>2, <2>3, <2>4
<1>13. R + fetched \in Int /\ H - amount \in Int /\ C + M \in Int
  OBVIOUS
<1> HIDE DEF q
<1>14. SameNumber(Plus(Whole(R + fetched), Times(p.average, H - amount)), Plus(Whole(I), made))
  BY <1>3, <1>9, <1>12, <1>13, BooksInNumbers
<1> QED BY <1>10, <1>11, <1>14 DEF q

(* process_order_update, with a trade that fills an order. *)
LEMMA FillKeeps == ASSUME SheetIInv, BooksIInv, ProcessFill PROVE BooksIInv'
<1>1. PICK e \in Events : /\ e.kind = "fill"
                          /\ position' = RegisterTrade(position, e.side, e.amount, e.price)
                          /\ shorted' = (shorted \/ position'.held < 0)
  <2>1. Head(stream) \in Events /\ Head(stream).kind = "fill"
    BY Taken DEF ProcessFill
  <2> QED BY <2>1 DEF ProcessFill
<1>2. e.side \in {"Buy", "Sell"} /\ e.amount \in Nat \ {0} /\ e.price \in Nat \ {0}
  BY <1>1, AccountAssumption DEF Events
<1>3. CASE shorted'
  BY <1>3 DEF BooksIInv
<1>4. CASE ~shorted'
  <2>1. /\ ~shorted /\ ~(position'.held < 0)
        /\ position \in [held : Nat, invested : Int, allocated : Int, revenue : Int,
                         average : Fractions, realized : Fractions]
        /\ SameNumber(Plus(Whole(position.revenue), Times(position.average, position.held)),
                      Plus(Whole(position.invested), position.realized))
    BY <1>1, <1>4 DEF BooksIInv, BooksBalance
  <2>2. CASE e.side = "Buy"
    <3>1. position' = UpdateOnBuy(position, e.amount, e.price)
      BY <1>1, <2>2 DEF RegisterTrade
    <3> QED BY <1>2, <2>1, <3>1, BuyBalances DEF BooksIInv, BooksBalance
  <2>3. CASE e.side = "Sell"
    <3>1. position' = UpdateOnSell(position, e.amount, e.price)
      BY <1>1, <2>3 DEF RegisterTrade
    <3>2. /\ position' \in [held : Int, invested : Int, allocated : Int, revenue : Int,
                            average : Fractions, realized : Fractions]
          /\ SameNumber(Plus(Whole(position'.revenue), Times(position'.average, position'.held)),
                        Plus(Whole(position'.invested), position'.realized))
      BY <1>2, <2>1, <3>1, SellBalances
    <3>3. position'.held \in Nat
      BY <2>1, <3>2
    <3>4. position' \in [held : Nat, invested : Int, allocated : Int, revenue : Int,
                         average : Fractions, realized : Fractions]
      BY <3>2, <3>3
    <3> QED BY <3>2, <3>4 DEF BooksIInv, BooksBalance
  <2> QED BY <1>2, <2>2, <2>3
<1> QED BY <1>3, <1>4

(* No other step touches the position. *)
LEMMA StepBooks == SheetIInv /\ BooksIInv /\ [AccountNext]_accountVars => BooksIInv'
<1> SUFFICES ASSUME SheetIInv, BooksIInv, [AccountNext]_accountVars PROVE BooksIInv'
  OBVIOUS
<1>1. CASE ProcessFill
  BY <1>1, FillKeeps
<1>2. CASE UNCHANGED positionVars
  BY <1>2 DEF positionVars, BooksIInv, BooksBalance
<1>3. ProcessFill \/ UNCHANGED positionVars
  BY DEF AccountNext, accountVars, Tell, StartLoop, ProcessOrderUpdate, SetFree, SetLocked,
         ProcessBalanceUpdate, Get
<1> QED BY <1>1, <1>2, <1>3

(* update_on_buy and update_on_sell, with any amounts at any prices in any
   order: as long as no more was sold than was held, what was earned and
   what is held at its average price is what was invested and what was made
   of it.                                                                  *)
THEOREM BooksAlwaysBalance == AccountSpec => []BooksBalance
<1>1. BooksIInv => BooksBalance
  BY DEF BooksIInv, BooksBalance
<1> QED BY <1>1, InitSheet, StepSheet, InitBooks, StepBooks, PTL DEF AccountSpec

-----------------------------------------------------------------------------
(* The triggers, with any delay, ratio and prices. *)

DelayedTriggers == [kind : {"delayed"}, delay : {Delay}, clock : Nat, fired : BOOLEAN]
ZoneTriggers ==
    [kind : {"zone"}, target : TriggerPrices, threshold : TriggerPrices, delay : {Delay},
     resets : BOOLEAN, clock : {NoClock} \cup Nat, paused : BOOLEAN]
DistanceTriggers ==
    [kind : {"distance"}, anchor : TriggerPrices, ratio : {Ratio, <<0, 1>>}, fired : BOOLEAN]
ProximityTriggers ==
    [kind : {"proximity"}, anchor : TriggerPrices, target : TriggerPrices, ratio : {Ratio, <<0, 1>>, <<1, 1>>, <<3, 2>>},
     previous : TriggerPrices \cup {NoPriceYet}, fired : BOOLEAN]

(* The checks since the trigger was made or reset, each with its age. *)
Checks == [age : Nat, price : TriggerPrices, fires : BOOLEAN]

SeenIInv ==
    /\ seen \in Seq(Checks)
    /\ since \in Nat
    /\ judged \in BOOLEAN
    /\ judged => Len(seen) > 0

LastFires == seen[Len(seen)].fires

PlainIInv ==
    /\ trigger \in [kind : {"none", "instant"}]
    /\ judged => (LastFires <=> trigger.kind = "instant")

(* The clock of the delayed trigger runs from its making, and it has fired if
   one of its checks did.                                                   *)
DelayedIInv ==
    /\ trigger \in DelayedTriggers
    /\ trigger.clock = since
    /\ trigger.fired <=> \E i \in DOMAIN seen : seen[i].fires
    /\ judged => (LastFires <=> since >= trigger.delay /\ {i \in DOMAIN seen : seen[i].fires} \subseteq {Len(seen)})

(* The check at which the price was outside of the normal zone, and it has
   not been in it since.                                                    *)
Left(i) ==
    /\ ~IsInNormalZone(seen[i].price, trigger) /\ ~IsInCriticalZone(seen[i].price, trigger)
    /\ \A k \in i .. Len(seen) : ~IsInNormalZone(seen[k].price, trigger)

(* It was out from check i to check j, and for so long. *)
WasOut(i, j) == IsOut(i, j, trigger) /\ seen[i].age - seen[j].age >= trigger.clock

(* The clock of the zone trigger runs from such a check, and if it is reset,
   from the first; a clock that is paused has run while the price was out.  *)
ZoneIInv ==
    /\ trigger \in ZoneTriggers /\ trigger.target # trigger.threshold
    /\ trigger.clock # NoClock /\ ~trigger.paused => \E i \in DOMAIN seen : Left(i) /\ seen[i].age >= trigger.clock
    /\ trigger.paused => /\ trigger.clock # NoClock
                         /\ \E i \in DOMAIN seen : \E j \in i .. Len(seen) : WasOut(i, j)
    /\ trigger.resets => /\ ~trigger.paused
                         /\ \A i \in DOMAIN seen : Left(i) =>
                                trigger.clock # NoClock /\ seen[i].age <= trigger.clock
    /\ judged => /\ seen[Len(seen)].age = 0
                 /\ LastFires <=> \/ IsInCriticalZone(seen[Len(seen)].price, trigger)
                                  \/ trigger.clock > trigger.delay

DistanceIInv ==
    /\ trigger \in DistanceTriggers
    /\ trigger.fired <=> \E i \in DOMAIN seen : HasReachedDistance(seen[i].price, trigger)
    /\ judged => (LastFires <=> trigger.fired)

(* The prices the proximity trigger has seen, and the one it saw last before
   its reset, if any.                                                       *)
Came ==
    \/ \E i \in DOMAIN seen : IsWithin(seen[i].price, trigger) \/ HasReached(seen[i].price, trigger)
    \/ kept # NoPriceYet /\ HasReached(kept, trigger)

(* The price that the proximity trigger saw last is the one before the latest
   reset, which does not take it away, until there is another.              *)
ProximityIInv ==
    /\ trigger \in ProximityTriggers
    /\ trigger.previous = IF Len(seen) = 0 THEN kept ELSE seen[Len(seen)].price
    /\ kept \in TriggerPrices \cup {NoPriceYet}
    /\ \A i \in DOMAIN seen : (i > 1 \/ kept # NoPriceYet) /\ IsWithin(seen[i].price, trigger) => trigger.fired
    /\ \A i \in DOMAIN seen : seen[i].fires => trigger.fired
    /\ trigger.fired => Came
    /\ judged => (LastFires <=> trigger.fired)

TriggerIInv ==
    /\ SeenIInv
    /\ PlainIInv \/ DelayedIInv \/ ZoneIInv \/ DistanceIInv \/ ProximityIInv

LEMMA Wait == Delay \in Nat
  BY TriggerAssumption

(* What a check adds to the checks. *)
LEMMA OneMore ==
  ASSUME SeenIInv, NEW price \in TriggerPrices, NEW fires \in BOOLEAN, Check(price),
         CheckTrigger(price, trigger)[2] = fires
  PROVE  /\ SeenIInv' /\ judged' = TRUE /\ since' = since /\ kept' = kept
         /\ Len(seen') = Len(seen) + 1 /\ Len(seen) \in Nat
         /\ DOMAIN seen = 1 .. Len(seen) /\ DOMAIN seen' = 1 .. Len(seen) + 1
         /\ \A i \in 1 .. Len(seen) : seen'[i] = seen[i]
         /\ seen'[Len(seen) + 1].age = 0 /\ seen'[Len(seen) + 1].price = price
         /\ seen'[Len(seen) + 1].fires = fires
<1> DEFINE new == [age |-> 0, price |-> price, fires |-> fires]
<1>1. new \in Checks /\ new.age = 0 /\ new.price = price /\ new.fires = fires
  BY Wait DEF Checks
<1>2. seen' = Append(seen, new) /\ judged' = TRUE /\ since' = since /\ kept' = kept /\ seen \in Seq(Checks)
  BY DEF Check, SeenIInv
<1>3. since \in Nat
  BY DEF SeenIInv
<1> HIDE DEF new
<1>4. /\ seen' \in Seq(Checks) /\ Len(seen') = Len(seen) + 1 /\ Len(seen) \in Nat
      /\ DOMAIN seen = 1 .. Len(seen) /\ DOMAIN seen' = 1 .. Len(seen) + 1
      /\ \A i \in 1 .. Len(seen) : seen'[i] = seen[i]
      /\ seen'[Len(seen) + 1] = new
  BY <1>1, <1>2
<1>5. SeenIInv'
  BY <1>2, <1>3, <1>4 DEF SeenIInv
<1> QED  BY <1>1, <1>2, <1>4, <1>5

(* Time makes the checks older, and no more. *)
LEMMA AllOlder ==
  ASSUME SeenIInv, TriggerTick
  PROVE  /\ SeenIInv' /\ judged' = FALSE /\ since' = since + 1 /\ kept' = kept
         /\ Len(seen') = Len(seen) /\ DOMAIN seen' = DOMAIN seen
         /\ DOMAIN seen = 1 .. Len(seen) /\ Len(seen) \in Nat
         /\ \A i \in DOMAIN seen : /\ seen'[i].age = seen[i].age + 1 /\ seen[i].age \in Nat
                                   /\ seen'[i].price = seen[i].price /\ seen'[i].fires = seen[i].fires
<1>1. seen \in Seq(Checks) /\ since \in Nat
  BY DEF SeenIInv
<1>2. Len(seen) \in Nat /\ DOMAIN seen = 1 .. Len(seen) /\ \A i \in DOMAIN seen : seen[i] \in Checks
  BY <1>1
<1>3. seen' = [i \in DOMAIN seen |-> [seen[i] EXCEPT !.age = @ + 1]] /\ since' = since + 1 /\ judged' = FALSE
      /\ kept' = kept
  BY DEF TriggerTick
<1>4. \A i \in DOMAIN seen : seen[i].age + 1 \in Nat
  BY <1>2 DEF Checks
<1>5. \A i \in DOMAIN seen : /\ seen'[i] \in Checks /\ seen'[i].age = seen[i].age + 1
                             /\ seen[i].age \in Nat
                             /\ seen'[i].price = seen[i].price /\ seen'[i].fires = seen[i].fires
  BY <1>2, <1>3, <1>4 DEF Checks
<1>6. seen' \in Seq(Checks) /\ Len(seen') = Len(seen) /\ DOMAIN seen' = DOMAIN seen
  <2>1. DOMAIN seen' = DOMAIN seen /\ DOMAIN seen = 1 .. Len(seen)
    BY <1>2, <1>3
  <2>2. seen' = [i \in 1 .. Len(seen) |-> seen'[i]]
    BY <1>2, <1>3
  <2>3. seen' \in [1 .. Len(seen) -> Checks]
    BY <1>5, <2>1, <2>2
  <2> QED  BY <1>2, <2>1, <2>3
<1>7. since' \in Nat
  BY <1>1, <1>3
<1>8. SeenIInv'
  BY <1>3, <1>6, <1>7 DEF SeenIInv
<1> QED  BY <1>2, <1>3, <1>5, <1>6, <1>8

(* After a reset nothing has been seen. *)
LEMMA NothingSeen ==
  ASSUME Anew
  PROVE  /\ SeenIInv' /\ since' = 0 /\ Len(seen') = 0 /\ DOMAIN seen' = {} /\ judged' = FALSE
<1>1. seen' = <<>> /\ since' = 0 /\ judged' = FALSE
  BY DEF Anew
<1>2. seen' \in Seq(Checks) /\ Len(seen') = 0 /\ DOMAIN seen' = {}
  BY <1>1
<1>3. since' \in Nat
  BY <1>1, Wait
<1> QED  BY <1>1, <1>2, <1>3 DEF SeenIInv

(* A copy has seen what its original has. *)
LEMMA CopySeen ==
  ASSUME SeenIInv, Clone, trigger.kind # "zone"
  PROVE  SeenIInv' /\ trigger' = trigger /\ judged' = FALSE /\ since' = since /\ seen' = seen /\ kept' = kept
  BY DEF Clone, CloneTrigger, SeenIInv

-----------------------------------------------------------------------------
(* The triggers none and instant. *)
LEMMA PlainKeeps ==
  ASSUME SeenIInv, PlainIInv, TriggerNext PROVE SeenIInv' /\ PlainIInv'
<1>1. trigger \in [kind : {"none", "instant"}] /\ trigger.kind \in {"none", "instant"}
  BY DEF PlainIInv
<1>2. CASE TriggerTick
  <2>1. trigger' = trigger
    BY <1>1, <1>2 DEF TriggerTick
  <2> QED  BY <1>1, <1>2, <2>1, AllOlder DEF PlainIInv
<1>3. CASE Reset
  <2>1. trigger' = trigger
    BY <1>1, <1>3 DEF Reset, ResetTrigger
  <2> QED  BY <1>1, <1>3, <2>1, NothingSeen DEF PlainIInv, Reset
<1>4. CASE Clone
  BY <1>1, <1>4, CopySeen DEF PlainIInv
<1>5. CASE \E price \in TriggerPrices : Check(price)
  <2>1. PICK price \in TriggerPrices : Check(price)
    BY <1>5
  <2>2. CASE trigger.kind = "none"
    <3>1. CheckTrigger(price, trigger) = <<trigger, FALSE>>
      BY <2>2 DEF CheckTrigger
    <3>3. CheckTrigger(price, trigger)[2] = FALSE /\ trigger' = trigger
      BY <2>1, <3>1 DEF Check
    <3>5. FALSE \in BOOLEAN
      OBVIOUS
    <3>4. SeenIInv' /\ Len(seen') = Len(seen) + 1 /\ seen'[Len(seen) + 1].fires = FALSE
      BY <2>1, <3>3, <3>5, OneMore, Zenon
    <3>2. trigger' = trigger /\ LastFires' = FALSE /\ SeenIInv'
      BY <3>3, <3>4 DEF LastFires
    <3> QED  BY <1>1, <2>2, <3>2 DEF PlainIInv
  <2>3. CASE trigger.kind = "instant"
    <3>1. CheckTrigger(price, trigger) = <<trigger, TRUE>>
      BY <2>3 DEF CheckTrigger
    <3>3. CheckTrigger(price, trigger)[2] = TRUE /\ trigger' = trigger
      BY <2>1, <3>1 DEF Check
    <3>5. TRUE \in BOOLEAN
      OBVIOUS
    <3>4. SeenIInv' /\ Len(seen') = Len(seen) + 1 /\ seen'[Len(seen) + 1].fires = TRUE
      BY <2>1, <3>3, <3>5, OneMore, Zenon
    <3>2. trigger' = trigger /\ LastFires' = TRUE /\ SeenIInv'
      BY <3>3, <3>4 DEF LastFires
    <3> QED  BY <1>1, <2>3, <3>2 DEF PlainIInv
  <2> QED  BY <1>1, <2>2, <2>3
<1> QED  BY <1>2, <1>3, <1>4, <1>5 DEF TriggerNext

-----------------------------------------------------------------------------
(* The delayed trigger: its clock is reset with what has been seen. *)
LEMMA DelayedKeeps ==
  ASSUME SeenIInv, DelayedIInv, TriggerNext PROVE SeenIInv' /\ DelayedIInv'
<1>1. trigger \in DelayedTriggers /\ trigger.kind = "delayed" /\ trigger.delay = Delay
      /\ trigger.clock \in Nat /\ trigger.fired \in BOOLEAN /\ trigger.clock = since
  BY DEF DelayedIInv, DelayedTriggers
<1>2. CASE TriggerTick
  <2>1. trigger.clock # NoClock
    BY <1>1, Wait DEF NoClock
  <2>2. trigger' = [trigger EXCEPT !.clock = @ + 1]
    BY <1>1, <1>2, <2>1 DEF TriggerTick
  <2>3. trigger' \in DelayedTriggers /\ trigger'.clock = since' /\ trigger'.fired = trigger.fired
    BY <1>1, <1>2, <2>2, AllOlder DEF DelayedTriggers
  <2>4. (\E i \in DOMAIN seen' : seen'[i].fires) <=> (\E i \in DOMAIN seen : seen[i].fires)
    BY <1>2, AllOlder
  <2> QED  BY <1>2, <2>3, <2>4, AllOlder DEF DelayedIInv
<1>3. CASE Reset
  <2>1. trigger' = [trigger EXCEPT !.clock = 0, !.fired = FALSE]
    BY <1>1, <1>3 DEF Reset, ResetTrigger
  <2>2. trigger' = [kind |-> "delayed", delay |-> Delay, clock |-> 0, fired |-> FALSE]
    BY <1>1, <2>1 DEF DelayedTriggers
  <2>3. trigger' \in DelayedTriggers /\ trigger'.clock = 0 /\ trigger'.fired = FALSE
    BY <2>2, Wait DEF DelayedTriggers
  <2> QED  BY <1>3, <2>3, NothingSeen DEF Reset, DelayedIInv
<1>4. CASE Clone
  BY <1>1, <1>4, CopySeen DEF DelayedIInv
<1>5. CASE \E price \in TriggerPrices : Check(price)
  <2>1. PICK price \in TriggerPrices : Check(price)
    BY <1>5
  <2> DEFINE fires == ~trigger.fired /\ trigger.clock >= trigger.delay
  <2>2. CheckTrigger(price, trigger) = <<[trigger EXCEPT !.fired = @ \/ fires], fires>> /\ fires \in BOOLEAN
    BY <1>1 DEF CheckTrigger
  <2> HIDE DEF fires
  <2>3. trigger' = [trigger EXCEPT !.fired = @ \/ fires]
    BY <2>1, <2>2 DEF Check
  <2>4. trigger' \in DelayedTriggers /\ trigger'.clock = trigger.clock /\ trigger'.delay = trigger.delay
    BY <1>1, <2>2, <2>3 DEF DelayedTriggers
  <2>5. trigger'.fired = (trigger.fired \/ fires)
    BY <1>1, <2>3 DEF DelayedTriggers
  <2>6. /\ SeenIInv' /\ since' = since /\ Len(seen') = Len(seen) + 1 /\ Len(seen) \in Nat
        /\ DOMAIN seen = 1 .. Len(seen) /\ DOMAIN seen' = 1 .. Len(seen) + 1
        /\ \A i \in 1 .. Len(seen) : seen'[i] = seen[i]
        /\ seen'[Len(seen) + 1].fires = fires
    <3>1. CheckTrigger(price, trigger)[2] = fires
      BY <2>2
    <3> QED  BY <2>1, <2>2, <3>1, OneMore, Zenon
  <2>7. LastFires' = fires
    BY <2>6 DEF LastFires
  <2>8. trigger'.fired <=> \E i \in DOMAIN seen' : seen'[i].fires
    <3>1. (\E i \in DOMAIN seen' : seen'[i].fires) <=> fires \/ \E i \in DOMAIN seen : seen[i].fires
      BY <2>6
    <3> QED  BY <2>5, <3>1 DEF DelayedIInv
  <2>9. fires <=> since >= trigger.delay /\ {i \in DOMAIN seen' : seen'[i].fires} \subseteq {Len(seen')}
    <3>1. CASE trigger.fired
      <4>1. PICK i \in DOMAIN seen : seen[i].fires
        BY <3>1 DEF DelayedIInv
      <4>2. i \in DOMAIN seen' /\ seen'[i].fires /\ i # Len(seen')
        BY <2>6, <4>1
      <4> QED  BY <3>1, <4>2 DEF fires
    <3>2. CASE ~trigger.fired
      <4>1. \A i \in DOMAIN seen : ~seen[i].fires
        BY <3>2 DEF DelayedIInv
      <4>2. {i \in DOMAIN seen' : seen'[i].fires} \subseteq {Len(seen')}
        BY <2>6, <4>1
      <4> QED  BY <1>1, <3>2, <4>2 DEF fires
    <3> QED  BY <3>1, <3>2
  <2> QED  BY <1>1, <2>4, <2>6, <2>7, <2>8, <2>9 DEF DelayedIInv
<1> QED  BY <1>2, <1>3, <1>4, <1>5 DEF TriggerNext

-----------------------------------------------------------------------------
(* What a distance is measured by does not change. *)
LEMMA SameDistance ==
  ASSUME NEW price, NEW t, NEW u, u.anchor = t.anchor, u.ratio = t.ratio
  PROVE  HasReachedDistance(price, u) = HasReachedDistance(price, t)
  BY DEF HasReachedDistance

(* The distance trigger, which remembers that it has fired. *)
LEMMA DistanceKeeps ==
  ASSUME SeenIInv, DistanceIInv, TriggerNext PROVE SeenIInv' /\ DistanceIInv'
<1> DEFINE Reached(i) == HasReachedDistance(seen[i].price, trigger)
<1>1. trigger \in DistanceTriggers /\ trigger.kind = "distance" /\ trigger.fired \in BOOLEAN
  BY DEF DistanceIInv, DistanceTriggers
<1>2. CASE TriggerTick
  <2>1. trigger' = trigger
    BY <1>1, <1>2 DEF TriggerTick
  <2>2. (\E i \in DOMAIN seen : HasReachedDistance(seen[i].price, trigger))
            <=> \E i \in DOMAIN seen' : HasReachedDistance(seen'[i].price, trigger)
    BY <1>2, AllOlder
  <2> QED  BY <1>1, <1>2, <2>1, <2>2, AllOlder DEF DistanceIInv
<1>3. CASE Reset
  <2>1. trigger' = [trigger EXCEPT !.fired = FALSE]
    BY <1>1, <1>3 DEF Reset, ResetTrigger
  <2>2. trigger' \in DistanceTriggers /\ trigger'.fired = FALSE
    BY <1>1, <2>1 DEF DistanceTriggers
  <2> QED  BY <1>3, <2>2, NothingSeen DEF Reset, DistanceIInv
<1>4. CASE Clone
  BY <1>1, <1>4, CopySeen DEF DistanceIInv
<1>5. CASE \E price \in TriggerPrices : Check(price)
  <2>1. PICK price \in TriggerPrices : Check(price)
    BY <1>5
  <2> DEFINE fires == trigger.fired \/ HasReachedDistance(price, trigger)
  <2>2. CheckTrigger(price, trigger) = <<[trigger EXCEPT !.fired = fires], fires>>
    BY <1>1 DEF CheckTrigger
  <2>3. fires \in BOOLEAN
    OBVIOUS
  <2>4. fires <=> trigger.fired \/ HasReachedDistance(price, trigger)
    OBVIOUS
  <2> HIDE DEF fires
  <2>5. trigger' = [trigger EXCEPT !.fired = fires]
    BY <2>1, <2>2 DEF Check
  <2>6. trigger' \in DistanceTriggers /\ trigger'.anchor = trigger.anchor /\ trigger'.ratio = trigger.ratio
        /\ trigger'.fired = fires
    BY <1>1, <2>3, <2>5 DEF DistanceTriggers
  <2>7. /\ SeenIInv' /\ Len(seen') = Len(seen) + 1 /\ Len(seen) \in Nat
        /\ DOMAIN seen = 1 .. Len(seen) /\ DOMAIN seen' = 1 .. Len(seen) + 1
        /\ \A i \in 1 .. Len(seen) : seen'[i] = seen[i]
        /\ seen'[Len(seen) + 1].fires = fires /\ seen'[Len(seen) + 1].price = price
    <3>1. CheckTrigger(price, trigger)[2] = fires
      BY <2>2
    <3> QED  BY <2>1, <2>3, <3>1, OneMore, Zenon
  <2>8. LastFires' = fires
    BY <2>7 DEF LastFires
  <2>9. fires <=> \E i \in DOMAIN seen' : HasReachedDistance(seen'[i].price, trigger')
    <3>1. \A p : HasReachedDistance(p, trigger') = HasReachedDistance(p, trigger)
      BY <2>6, SameDistance
    <3>2. (\E i \in DOMAIN seen' : HasReachedDistance(seen'[i].price, trigger))
            <=> HasReachedDistance(price, trigger) \/ \E i \in DOMAIN seen : HasReachedDistance(seen[i].price, trigger)
      BY <2>7
    <3> QED  BY <2>4, <3>1, <3>2 DEF DistanceIInv
  <2> QED  BY <2>6, <2>7, <2>8, <2>9 DEF DistanceIInv
<1> QED  BY <1>2, <1>3, <1>4, <1>5 DEF TriggerNext

-----------------------------------------------------------------------------
(* What the proximity trigger goes by does not change. *)
LEMMA SameTarget ==
  ASSUME NEW t, NEW u, u.anchor = t.anchor, u.target = t.target, u.ratio = t.ratio
  PROVE  \A price : IsWithin(price, u) = IsWithin(price, t) /\ HasReached(price, u) = HasReached(price, t)
  BY DEF IsWithin, HasReached

(* The proximity trigger: a price is near once there is one before it, and a
   crossing begins beyond the target.                                       *)
LEMMA ProximityKeeps ==
  ASSUME SeenIInv, ProximityIInv, TriggerNext PROVE SeenIInv' /\ ProximityIInv'
<1>1. /\ trigger \in ProximityTriggers /\ trigger.kind = "proximity" /\ trigger.fired \in BOOLEAN
      /\ trigger.previous \in TriggerPrices \cup {NoPriceYet}
  BY DEF ProximityIInv, ProximityTriggers
<1>2. CASE TriggerTick
  <2>1. trigger' = trigger
    BY <1>1, <1>2 DEF TriggerTick
  <2>2. /\ Len(seen') = Len(seen) /\ DOMAIN seen' = DOMAIN seen /\ judged' = FALSE /\ SeenIInv'
        /\ DOMAIN seen = 1 .. Len(seen) /\ Len(seen) \in Nat /\ kept' = kept
        /\ \A i \in DOMAIN seen : seen'[i].price = seen[i].price /\ seen'[i].fires = seen[i].fires
    BY <1>2, AllOlder
  <2>3. Came => Came'
    BY <2>1, <2>2 DEF Came
  <2>4. Len(seen) # 0 => seen'[Len(seen')].price = seen[Len(seen)].price
    BY <2>2
  <2> QED  BY <1>1, <2>1, <2>2, <2>3, <2>4 DEF ProximityIInv
<1>3. CASE Reset
  <2>1. trigger' = [trigger EXCEPT !.fired = FALSE] /\ kept' = trigger.previous
    BY <1>1, <1>3 DEF Reset, ResetTrigger
  <2>2. trigger' \in ProximityTriggers /\ trigger'.fired = FALSE /\ trigger'.previous = kept'
    BY <1>1, <2>1 DEF ProximityTriggers
  <2>3. SeenIInv' /\ Len(seen') = 0 /\ DOMAIN seen' = {} /\ judged' = FALSE
    BY <1>3, NothingSeen DEF Reset
  <2> QED  BY <1>1, <2>1, <2>2, <2>3 DEF ProximityIInv
<1>4. CASE Clone
  <2>1. /\ SeenIInv' /\ trigger' = trigger /\ judged' = FALSE /\ seen' = seen /\ kept' = kept
    BY <1>1, <1>4, CopySeen
  <2> QED  BY <2>1 DEF ProximityIInv, Came
<1>5. CASE \E price \in TriggerPrices : Check(price)
  <2>1. PICK price \in TriggerPrices : Check(price)
    BY <1>5
  <2> DEFINE fires == trigger.fired \/ IsNearTarget(price, trigger)
  <2>2. CheckTrigger(price, trigger) = <<[trigger EXCEPT !.fired = fires, !.previous = price], fires>>
    BY <1>1 DEF CheckTrigger
  <2>3. fires \in BOOLEAN
    OBVIOUS
  <2>4. fires <=> trigger.fired \/ IsNearTarget(price, trigger)
    OBVIOUS
  <2> HIDE DEF fires
  <2>5. trigger' = [trigger EXCEPT !.fired = fires, !.previous = price] /\ CheckTrigger(price, trigger)[2] = fires
    BY <2>1, <2>2 DEF Check
  <2>6. /\ trigger' \in ProximityTriggers /\ trigger'.anchor = trigger.anchor /\ trigger'.ratio = trigger.ratio
        /\ trigger'.target = trigger.target /\ trigger'.fired = fires /\ trigger'.previous = price
    BY <1>1, <2>3, <2>5 DEF ProximityTriggers
  <2>7. /\ SeenIInv' /\ Len(seen') = Len(seen) + 1 /\ Len(seen) \in Nat /\ kept' = kept
        /\ DOMAIN seen = 1 .. Len(seen) /\ DOMAIN seen' = 1 .. Len(seen) + 1
        /\ \A i \in 1 .. Len(seen) : seen'[i] = seen[i]
        /\ seen'[Len(seen) + 1].fires = fires /\ seen'[Len(seen) + 1].price = price
    BY <2>1, <2>3, <2>5, OneMore, Zenon
  <2>8. LastFires' = fires
    BY <2>7 DEF LastFires
  <2>9. \A p : IsWithin(p, trigger') = IsWithin(p, trigger) /\ HasReached(p, trigger') = HasReached(p, trigger)
    BY <2>6, SameTarget
  <2>10. trigger'.previous = IF Len(seen') = 0 THEN kept' ELSE seen'[Len(seen')].price
    BY <2>6, <2>7
  <2>11. ASSUME NEW i \in DOMAIN seen', i > 1 \/ kept # NoPriceYet, IsWithin(seen'[i].price, trigger) PROVE fires
    <3>1. CASE i = Len(seen) + 1
      <4>1. \A p \in TriggerPrices : p # NoPriceYet
        BY TriggerAssumption DEF NoPriceYet
      <4>2. trigger.previous # NoPriceYet
        <5>1. CASE Len(seen) = 0
          BY <2>11, <3>1, <5>1 DEF ProximityIInv
        <5>2. CASE Len(seen) # 0
          <6>1. seen[Len(seen)] \in Checks
            BY <2>7, <5>2 DEF SeenIInv
          <6> QED  BY <4>1, <5>2, <6>1 DEF ProximityIInv, Checks
        <5> QED  BY <5>1, <5>2
      <4>3. IsWithin(price, trigger)
        BY <2>7, <2>11, <3>1
      <4> QED  BY <2>4, <4>2, <4>3 DEF IsNearTarget
    <3>2. CASE i # Len(seen) + 1
      <4>1. i \in DOMAIN seen /\ seen'[i] = seen[i]
        BY <2>7, <3>2
      <4> QED  BY <2>4, <2>11, <4>1 DEF ProximityIInv
    <3> QED  BY <3>1, <3>2
  <2>12. fires => Came'
    <3>1. ASSUME NEW i \in DOMAIN seen PROVE i \in DOMAIN seen' /\ seen'[i] = seen[i]
      BY <2>7
    <3>2. Came => Came'
      BY <2>7, <2>9, <3>1 DEF Came
    <3>3. IsWithin(price, trigger) => Came'
      <4>1. Len(seen) + 1 \in DOMAIN seen'
        BY <2>7
      <4> QED  BY <2>7, <2>9, <4>1 DEF Came
    <3>4. trigger.previous # NoPriceYet /\ HasReached(trigger.previous, trigger) => Came
      <4>1. CASE Len(seen) = 0
        BY <4>1 DEF ProximityIInv, Came
      <4>2. CASE Len(seen) # 0
        <5>1. Len(seen) \in DOMAIN seen
          BY <2>7, <4>2
        <5> QED  BY <4>2, <5>1 DEF ProximityIInv, Came
      <4> QED  BY <4>1, <4>2
    <3>5. trigger.previous # NoPriceYet /\ CrossedTarget(price, trigger) => HasReached(trigger.previous, trigger)
      <4>1. trigger.previous \in Nat \cup {NoPriceYet} /\ trigger.target \in Nat
        BY <1>1, TriggerAssumption DEF ProximityTriggers
      <4> QED  BY <4>1 DEF CrossedTarget, HasReached, NoPriceYet
    <3>6. trigger.fired => Came
      BY DEF ProximityIInv
    <3> QED  BY <2>4, <3>2, <3>3, <3>4, <3>5, <3>6 DEF IsNearTarget
  <2>13. ASSUME NEW i \in DOMAIN seen', seen'[i].fires PROVE fires
    <3>1. CASE i = Len(seen) + 1
      BY <2>7, <2>13, <3>1
    <3>2. CASE i # Len(seen) + 1
      <4>1. i \in DOMAIN seen /\ seen'[i] = seen[i]
        BY <2>7, <3>2
      <4> QED  BY <2>4, <2>13, <4>1 DEF ProximityIInv
    <3> QED  BY <3>1, <3>2
  <2>14. kept' \in TriggerPrices \cup {NoPriceYet}
    BY <2>7 DEF ProximityIInv
  <2> QED  BY <2>6, <2>7, <2>8, <2>9, <2>10, <2>11, <2>12, <2>13, <2>14 DEF ProximityIInv
<1> QED  BY <1>2, <1>3, <1>4, <1>5 DEF TriggerNext

-----------------------------------------------------------------------------
(* The zones do not move. *)
LEMMA SameZone ==
  ASSUME NEW t, NEW u, u.target = t.target, u.threshold = t.threshold
  PROVE  \A price : IsInNormalZone(price, u) = IsInNormalZone(price, t)
                    /\ IsInCriticalZone(price, u) = IsInCriticalZone(price, t)
  BY DEF IsInNormalZone, IsInCriticalZone, Beyond

(* The critical zone is far from the normal one. *)
LEMMA CriticalIsNotNormal ==
  ASSUME NEW t \in ZoneTriggers, t.target # t.threshold, NEW price \in TriggerPrices, IsInCriticalZone(price, t)
  PROVE  ~IsInNormalZone(price, t)
<1>1. t.target \in Nat /\ t.threshold \in Nat /\ price \in Nat
  BY TriggerAssumption DEF ZoneTriggers
<1> QED  BY <1>1 DEF IsInNormalZone, IsInCriticalZone, Beyond

(* A reset, and a copy, which is one without a clock. *)
LEMMA ZoneAnew ==
  ASSUME ZoneIInv, Anew, trigger' = [trigger EXCEPT !.clock = NoClock, !.paused = FALSE]
  PROVE  ZoneIInv'
<1>1. trigger \in ZoneTriggers /\ trigger.target # trigger.threshold
  BY DEF ZoneIInv
<1>2. /\ trigger' \in ZoneTriggers /\ trigger'.clock = NoClock /\ trigger'.paused = FALSE
      /\ trigger'.target # trigger'.threshold
  BY <1>1 DEF ZoneTriggers
<1>3. DOMAIN seen' = {} /\ judged' = FALSE
  BY NothingSeen
<1> QED  BY <1>2, <1>3 DEF ZoneIInv

(* Time: a clock that runs keeps up with the check that started it, and one
   that is paused falls behind it.                                          *)
LEMMA ZoneTicks ==
  ASSUME SeenIInv, ZoneIInv, TriggerTick PROVE ZoneIInv'
<1>1. /\ trigger \in ZoneTriggers /\ trigger.kind = "zone" /\ trigger.clock \in {NoClock} \cup Nat
      /\ trigger.resets \in BOOLEAN /\ trigger.paused \in BOOLEAN /\ trigger.target # trigger.threshold
  BY DEF ZoneIInv, ZoneTriggers
<1>2. /\ Len(seen') = Len(seen) /\ DOMAIN seen' = DOMAIN seen /\ judged' = FALSE
      /\ DOMAIN seen = 1 .. Len(seen) /\ Len(seen) \in Nat
      /\ \A i \in DOMAIN seen : seen'[i].age = seen[i].age + 1 /\ seen[i].age \in Nat
                                /\ seen'[i].price = seen[i].price
  BY AllOlder
<1> DEFINE runs == trigger.clock # NoClock /\ ~trigger.paused
<1>3. trigger' = IF runs THEN [trigger EXCEPT !.clock = @ + 1] ELSE trigger
  BY <1>1 DEF TriggerTick
<1>4. runs => trigger.clock \in Nat /\ trigger.clock + 1 \in Nat /\ trigger.clock + 1 # NoClock
  BY <1>1 DEF NoClock
<1>5. /\ trigger' \in ZoneTriggers /\ trigger'.target = trigger.target /\ trigger'.threshold = trigger.threshold
      /\ trigger'.resets = trigger.resets /\ trigger'.paused = trigger.paused
      /\ trigger'.clock = IF runs THEN trigger.clock + 1 ELSE trigger.clock
  BY <1>1, <1>3, <1>4 DEF ZoneTriggers
<1>6. \A price : IsInNormalZone(price, trigger') = IsInNormalZone(price, trigger)
                 /\ IsInCriticalZone(price, trigger') = IsInCriticalZone(price, trigger)
  BY <1>5, SameZone
<1>7. \A i \in DOMAIN seen : \A j \in i .. Len(seen) : j \in DOMAIN seen
  BY <1>2
<1>8. \A i \in DOMAIN seen : Left(i)' <=> Left(i)
  BY <1>2, <1>6, <1>7 DEF Left
<1>9. trigger'.clock # NoClock /\ ~trigger'.paused => \E i \in DOMAIN seen' : Left(i)' /\ seen'[i].age >= trigger'.clock
  <2> SUFFICES ASSUME runs
               PROVE  \E i \in DOMAIN seen' : Left(i)' /\ seen'[i].age >= trigger'.clock
    BY <1>5
  <2>1. PICK i \in DOMAIN seen : Left(i) /\ seen[i].age >= trigger.clock
    BY DEF ZoneIInv
  <2>2. seen'[i].age >= trigger'.clock
    <3>1. seen[i].age \in Nat /\ trigger.clock \in Nat /\ seen'[i].age = seen[i].age + 1
          /\ trigger'.clock = trigger.clock + 1
      BY <1>2, <1>4, <1>5
    <3> QED  BY <2>1, <3>1
  <2> QED  BY <1>2, <1>8, <2>1, <2>2
<1>10. trigger'.paused => /\ trigger'.clock # NoClock
                          /\ \E i \in DOMAIN seen' : \E j \in i .. Len(seen') : WasOut(i, j)'
  <2> SUFFICES ASSUME trigger.paused
               PROVE  /\ trigger'.clock # NoClock
                      /\ \E i \in DOMAIN seen' : \E j \in i .. Len(seen') : WasOut(i, j)'
    BY <1>5
  <2>1. trigger'.clock = trigger.clock /\ trigger.clock # NoClock
    BY <1>5 DEF ZoneIInv
  <2>2. PICK i \in DOMAIN seen : \E j \in i .. Len(seen) : WasOut(i, j)
    BY DEF ZoneIInv
  <2>3. PICK j \in i .. Len(seen) : WasOut(i, j)
    BY <2>2
  <2>4. \A k \in i .. j - 1 : k \in DOMAIN seen
    BY <1>2
  <2>5. IsOut(i, j, trigger)'
    BY <1>2, <1>6, <2>3, <2>4 DEF WasOut, IsOut
  <2>6. seen'[i].age - seen'[j].age >= trigger'.clock
    <3>1. j \in DOMAIN seen
      BY <1>7
    <3>2. seen[i].age \in Nat /\ seen[j].age \in Nat /\ seen'[i].age = seen[i].age + 1 /\ seen'[j].age = seen[j].age + 1
      BY <1>2, <3>1
    <3>3. seen'[i].age - seen'[j].age = seen[i].age - seen[j].age
      BY <3>2
    <3> QED  BY <2>1, <2>3, <3>3 DEF WasOut
  <2>7. WasOut(i, j)'
    BY <2>5, <2>6 DEF WasOut
  <2> QED  BY <1>2, <2>1, <2>7
<1>11. trigger'.resets => ~trigger'.paused /\ \A i \in DOMAIN seen' : Left(i)' =>
                                trigger'.clock # NoClock /\ seen'[i].age <= trigger'.clock
  <2> SUFFICES ASSUME trigger.resets
               PROVE  ~trigger.paused /\ \A i \in DOMAIN seen : Left(i) =>
                                trigger'.clock # NoClock /\ seen'[i].age <= trigger'.clock
    BY <1>2, <1>5, <1>8
  <2>1. ~trigger.paused /\ \A i \in DOMAIN seen : Left(i) => trigger.clock # NoClock /\ seen[i].age <= trigger.clock
    BY DEF ZoneIInv
  <2>2. ASSUME NEW i \in DOMAIN seen, Left(i) PROVE trigger'.clock # NoClock /\ seen'[i].age <= trigger'.clock
    <3>1. runs
      BY <2>1, <2>2
    <3>2. trigger'.clock = trigger.clock + 1 /\ trigger.clock \in Nat /\ trigger'.clock # NoClock
      BY <1>4, <1>5, <3>1
    <3>3. seen'[i].age = seen[i].age + 1 /\ seen[i].age \in Nat /\ trigger.clock >= seen[i].age
      BY <1>2, <2>1, <2>2, <3>2
    <3> QED  BY <3>2, <3>3
  <2> QED  BY <2>1, <2>2
<1> QED  BY <1>1, <1>2, <1>5, <1>9, <1>10, <1>11 DEF ZoneIInv

(* What a check does not change: how long the price was out before it. *)
LEMMA StaysOut ==
  ASSUME SeenIInv', Len(seen) \in Nat, DOMAIN seen = 1 .. Len(seen), Len(seen') = Len(seen) + 1,
         DOMAIN seen' = 1 .. Len(seen) + 1, \A i \in 1 .. Len(seen) : seen'[i] = seen[i],
         trigger'.target = trigger.target, trigger'.threshold = trigger.threshold,
         trigger'.clock = trigger.clock,
         \E i \in DOMAIN seen : \E j \in i .. Len(seen) : WasOut(i, j)
  PROVE  \E i \in DOMAIN seen' : \E j \in i .. Len(seen') : WasOut(i, j)'
<1>1. PICK i \in DOMAIN seen : \E j \in i .. Len(seen) : WasOut(i, j)
  OBVIOUS
<1>2. PICK j \in i .. Len(seen) : WasOut(i, j)
  BY <1>1
<1>3. i \in DOMAIN seen' /\ j \in i .. Len(seen') /\ seen'[i] = seen[i] /\ seen'[j] = seen[j]
      /\ \A k \in i .. j - 1 : seen'[k] = seen[k]
  OBVIOUS
<1>4. \A price : IsInNormalZone(price, trigger') = IsInNormalZone(price, trigger)
                 /\ IsInCriticalZone(price, trigger') = IsInCriticalZone(price, trigger)
  BY SameZone
<1>5. WasOut(i, j)'
  BY <1>2, <1>3, <1>4 DEF WasOut, IsOut
<1> QED  BY <1>3, <1>5

(* A check in the critical zone leaves the clock alone. *)
LEMMA ZoneCritical ==
  ASSUME SeenIInv, ZoneIInv, NEW price \in TriggerPrices, Check(price), IsInCriticalZone(price, trigger)
  PROVE  SeenIInv' /\ ZoneIInv'
<1>1. trigger \in ZoneTriggers /\ trigger.kind = "zone" /\ trigger.target # trigger.threshold
  BY DEF ZoneIInv, ZoneTriggers
<1>2. CheckTrigger(price, trigger) = <<trigger, TRUE>>
  BY <1>1 DEF CheckTrigger
<1>3. trigger' = trigger /\ CheckTrigger(price, trigger)[2] = TRUE /\ TRUE \in BOOLEAN
  BY <1>2 DEF Check
<1>4. /\ SeenIInv' /\ Len(seen') = Len(seen) + 1 /\ Len(seen) \in Nat
      /\ DOMAIN seen = 1 .. Len(seen) /\ DOMAIN seen' = 1 .. Len(seen) + 1
      /\ \A i \in 1 .. Len(seen) : seen'[i] = seen[i]
      /\ seen'[Len(seen) + 1].fires = TRUE /\ seen'[Len(seen) + 1].price = price
      /\ seen'[Len(seen) + 1].age = 0
  BY <1>3, OneMore, Zenon
<1>5. ~IsInNormalZone(price, trigger)
  BY <1>1, CriticalIsNotNormal
<1>6. \A i \in DOMAIN seen : Left(i)' <=> Left(i)
  <2> SUFFICES ASSUME NEW i \in DOMAIN seen
               PROVE  (\A j \in i .. Len(seen') : ~IsInNormalZone(seen'[j].price, trigger))
                         <=> \A j \in i .. Len(seen) : ~IsInNormalZone(seen[j].price, trigger)
    BY <1>3, <1>4 DEF Left
  <2>1. \A j \in i .. Len(seen) : j \in i .. Len(seen') /\ seen'[j] = seen[j]
    BY <1>4
  <2>2. \A j \in i .. Len(seen') : j \in i .. Len(seen) \/ j = Len(seen) + 1
    BY <1>4
  <2> QED  BY <1>4, <1>5, <2>1, <2>2
<1>7. ASSUME NEW i \in DOMAIN seen', Left(i)' PROVE i # Len(seen) + 1
  BY <1>3, <1>4, <1>7 DEF Left
<1>8. trigger'.clock # NoClock /\ ~trigger'.paused => \E i \in DOMAIN seen' : Left(i)' /\ seen'[i].age >= trigger'.clock
  <2> SUFFICES ASSUME trigger.clock # NoClock, ~trigger.paused
               PROVE  \E i \in DOMAIN seen' : Left(i)' /\ seen'[i].age >= trigger.clock
    BY <1>3
  <2>1. PICK i \in DOMAIN seen : Left(i) /\ seen[i].age >= trigger.clock
    BY DEF ZoneIInv
  <2>2. i \in DOMAIN seen' /\ seen'[i] = seen[i]
    BY <1>4
  <2> QED  BY <1>6, <2>1, <2>2
<1>9. trigger'.paused => /\ trigger'.clock # NoClock
                         /\ \E i \in DOMAIN seen' : \E j \in i .. Len(seen') : WasOut(i, j)'
  BY <1>3, <1>4, StaysOut DEF ZoneIInv
<1>10. trigger'.resets => ~trigger'.paused /\ \A i \in DOMAIN seen' : Left(i)' =>
                                trigger'.clock # NoClock /\ seen'[i].age <= trigger'.clock
  <2> SUFFICES ASSUME trigger.resets
               PROVE  ~trigger.paused /\ \A i \in DOMAIN seen' : Left(i)' =>
                                trigger.clock # NoClock /\ seen'[i].age <= trigger.clock
    BY <1>3
  <2>1. ~trigger.paused /\ \A i \in DOMAIN seen : Left(i) => trigger.clock # NoClock /\ seen[i].age <= trigger.clock
    BY DEF ZoneIInv
  <2>2. ASSUME NEW i \in DOMAIN seen', Left(i)' PROVE trigger.clock # NoClock /\ seen'[i].age <= trigger.clock
    <3>1. i # Len(seen) + 1
      BY <1>7, <2>2
    <3>2. i \in DOMAIN seen /\ seen'[i] = seen[i]
      BY <1>4, <3>1
    <3> QED  BY <1>6, <2>1, <2>2, <3>2
  <2> QED  BY <2>1, <2>2
<1>11. LastFires' = TRUE /\ seen'[Len(seen')].price = price /\ seen'[Len(seen')].age = 0
  BY <1>4 DEF LastFires
<1> QED  BY <1>1, <1>3, <1>4, <1>8, <1>9, <1>10, <1>11 DEF ZoneIInv

(* Any other check goes by the clock, as it is then. *)
LEMMA ZoneClock ==
  ASSUME SeenIInv, ZoneIInv, NEW price \in TriggerPrices, Check(price), ~IsInCriticalZone(price, trigger)
  PROVE  /\ trigger' = RunClock(price, trigger)
         /\ trigger' \in ZoneTriggers /\ trigger'.target = trigger.target
         /\ trigger'.threshold = trigger.threshold /\ trigger'.resets = trigger.resets
         /\ trigger'.delay = trigger.delay /\ trigger'.delay = Delay
         /\ SeenIInv' /\ Len(seen') = Len(seen) + 1 /\ Len(seen) \in Nat
         /\ DOMAIN seen = 1 .. Len(seen) /\ DOMAIN seen' = 1 .. Len(seen) + 1
         /\ \A i \in 1 .. Len(seen) : seen'[i] = seen[i]
         /\ seen'[Len(seen) + 1].price = price /\ seen'[Len(seen) + 1].age = 0
         /\ LastFires' <=> trigger'.clock > trigger'.delay
<1>1. trigger \in ZoneTriggers /\ trigger.kind = "zone"
  BY DEF ZoneIInv, ZoneTriggers
<1> DEFINE fires == RunClock(price, trigger).clock > trigger.delay
<1>2. CheckTrigger(price, trigger) = <<RunClock(price, trigger), fires>>
  BY <1>1 DEF CheckTrigger
<1>3. fires \in BOOLEAN
  OBVIOUS
<1>4. trigger' = RunClock(price, trigger) /\ CheckTrigger(price, trigger)[2] = fires
  BY <1>2 DEF Check
<1>5. /\ RunClock(price, trigger) \in ZoneTriggers
      /\ RunClock(price, trigger).target = trigger.target
      /\ RunClock(price, trigger).threshold = trigger.threshold
      /\ RunClock(price, trigger).resets = trigger.resets
      /\ RunClock(price, trigger).delay = trigger.delay /\ trigger.delay = Delay
  <2>1. [trigger EXCEPT !.clock = 0] \in ZoneTriggers
    BY <1>1, Wait DEF ZoneTriggers
  <2>2. [trigger EXCEPT !.clock = NoClock, !.paused = FALSE] \in ZoneTriggers
    BY <1>1 DEF ZoneTriggers
  <2>3. [trigger EXCEPT !.paused = TRUE] \in ZoneTriggers
    BY <1>1 DEF ZoneTriggers
  <2>4. RunClock(price, trigger) \in {trigger, [trigger EXCEPT !.clock = 0],
            [trigger EXCEPT !.clock = NoClock, !.paused = FALSE], [trigger EXCEPT !.paused = TRUE]}
    BY DEF RunClock
  <2>5. RunClock(price, trigger) \in ZoneTriggers
    BY <1>1, <2>1, <2>2, <2>3, <2>4
  <2>6. \A t \in {trigger, [trigger EXCEPT !.clock = 0],
            [trigger EXCEPT !.clock = NoClock, !.paused = FALSE], [trigger EXCEPT !.paused = TRUE]} :
              t.target = trigger.target /\ t.threshold = trigger.threshold /\ t.resets = trigger.resets
              /\ t.delay = trigger.delay
    BY <1>1 DEF ZoneTriggers
  <2> QED  BY <1>1, <2>4, <2>5, <2>6 DEF ZoneTriggers
<1>6. fires <=> trigger'.clock > trigger'.delay
  BY <1>4, <1>5
<1> HIDE DEF fires
<1>7. /\ SeenIInv' /\ Len(seen') = Len(seen) + 1 /\ Len(seen) \in Nat
      /\ DOMAIN seen = 1 .. Len(seen) /\ DOMAIN seen' = 1 .. Len(seen) + 1
      /\ \A i \in 1 .. Len(seen) : seen'[i] = seen[i]
      /\ seen'[Len(seen) + 1].fires = fires /\ seen'[Len(seen) + 1].price = price
      /\ seen'[Len(seen) + 1].age = 0
  BY <1>3, <1>4, OneMore, Zenon
<1>8. LastFires' = fires
  BY <1>7 DEF LastFires
<1> QED  BY <1>4, <1>5, <1>6, <1>7, <1>8

(* A check outside of the normal zone starts the clock, one in it drops or
   pauses it.                                                               *)
LEMMA ZoneChecked ==
  ASSUME SeenIInv, ZoneIInv, NEW price \in TriggerPrices, Check(price), ~IsInCriticalZone(price, trigger)
  PROVE  SeenIInv' /\ ZoneIInv'
<1>0. PICK k \in Nat : k = Len(seen) + 1
  BY DEF SeenIInv
<1>1. trigger \in ZoneTriggers /\ trigger.target # trigger.threshold /\ trigger.resets \in BOOLEAN
  BY DEF ZoneIInv, ZoneTriggers
<1>2. /\ trigger' = RunClock(price, trigger)
      /\ trigger' \in ZoneTriggers /\ trigger'.target = trigger.target
      /\ trigger'.threshold = trigger.threshold /\ trigger'.resets = trigger.resets
      /\ SeenIInv' /\ Len(seen') = k /\ k = Len(seen) + 1 /\ Len(seen) \in Nat /\ k \in Nat
      /\ DOMAIN seen = 1 .. Len(seen) /\ DOMAIN seen' = 1 .. k
      /\ \A i \in 1 .. Len(seen) : seen'[i] = seen[i]
      /\ seen'[k].price = price /\ seen'[k].age = 0
      /\ LastFires' <=> trigger'.clock > trigger'.delay
  BY <1>0, ZoneClock
<1>3. \A p : IsInNormalZone(p, trigger') = IsInNormalZone(p, trigger)
             /\ IsInCriticalZone(p, trigger') = IsInCriticalZone(p, trigger)
  BY <1>2, SameZone
<1>4. \A i \in DOMAIN seen : \A j \in i .. k : j \in i .. Len(seen) \/ j = k
  BY <1>2
<1>5. \A i \in DOMAIN seen : \A j \in i .. Len(seen) : j \in i .. k /\ seen'[j] = seen[j]
  BY <1>2
<1>6. \A i \in DOMAIN seen : k \in i .. k /\ i \in DOMAIN seen' /\ seen'[i] = seen[i]
  BY <1>2
<1>7. \A i \in DOMAIN seen' : i \in DOMAIN seen \/ i = k
  BY <1>2
<1>8. /\ seen'[Len(seen')].price = price /\ ~IsInCriticalZone(price, trigger')
      /\ seen'[Len(seen')].age = 0
  BY <1>2, <1>3
<1>9. CASE IsInNormalZone(price, trigger)
  <2>1. CASE trigger.resets
    <3>1. trigger'.clock = NoClock /\ trigger'.paused = FALSE
      <4>1. CASE trigger.clock = NoClock
        BY <1>2, <1>9, <2>1, <4>1 DEF RunClock, ZoneIInv, ZoneTriggers
      <4>2. CASE trigger.clock # NoClock
        <5>1. trigger' = [trigger EXCEPT !.clock = NoClock, !.paused = FALSE]
          BY <1>2, <1>9, <2>1, <4>2 DEF RunClock
        <5> QED  BY <1>1, <5>1 DEF ZoneTriggers
      <4> QED  BY <4>1, <4>2
    <3>2. \A i \in DOMAIN seen' : ~Left(i)'
      <4> SUFFICES ASSUME NEW i \in DOMAIN seen', Left(i)' PROVE FALSE
        OBVIOUS
      <4>1. k \in i .. Len(seen')
        BY <1>2, <1>6, <1>7
      <4> QED  BY <1>2, <1>3, <1>9, <2>1, <4>1 DEF Left
    <3> QED  BY <1>1, <1>2, <1>8, <3>1, <3>2 DEF ZoneIInv
  <2>2. CASE ~trigger.resets /\ trigger.clock = NoClock
    <3>1. trigger' = trigger /\ ~trigger.paused
      BY <1>2, <1>9, <2>2 DEF RunClock, ZoneIInv
    <3> QED  BY <1>1, <1>2, <1>8, <2>2, <3>1 DEF ZoneIInv
  <2>3. CASE ~trigger.resets /\ trigger.clock # NoClock
    <3>1. trigger' = [trigger EXCEPT !.paused = TRUE]
      BY <1>2, <1>9, <2>3 DEF RunClock
    <3>2. trigger'.clock = trigger.clock /\ trigger'.paused = TRUE
      BY <1>1, <3>1 DEF ZoneTriggers
    <3>3. \E i \in DOMAIN seen' : \E j \in i .. Len(seen') : WasOut(i, j)'
      <4>1. CASE trigger.paused
        BY <1>2, <3>2, <4>1, StaysOut DEF ZoneIInv
      <4>2. CASE ~trigger.paused
        <5>1. PICK i \in DOMAIN seen : Left(i) /\ seen[i].age >= trigger.clock
          BY <2>3, <4>2 DEF ZoneIInv
        <5>2. /\ i \in DOMAIN seen' /\ k \in i .. Len(seen') /\ seen'[i] = seen[i]
              /\ \A m \in i .. k - 1 : m \in i .. Len(seen) /\ seen'[m] = seen[m]
          BY <1>2
        <5>3. IsOut(i, k, trigger)'
          BY <1>3, <5>1, <5>2 DEF Left, IsOut
        <5>4. seen'[i].age - seen'[k].age >= trigger'.clock
          <6>1. seen[i] \in Checks
            BY <5>1 DEF SeenIInv
          <6>2. seen'[i].age = seen[i].age /\ seen[i].age \in Nat /\ seen'[k].age = 0
            BY <1>2, <5>2, <6>1 DEF Checks
          <6> QED  BY <3>2, <5>1, <6>2
        <5>5. WasOut(i, k)'
          BY <5>3, <5>4 DEF WasOut
        <5> QED  BY <5>2, <5>5
      <4> QED  BY <4>1, <4>2
    <3> QED  BY <1>1, <1>2, <1>8, <2>3, <3>2, <3>3 DEF ZoneIInv
  <2> QED  BY <2>1, <2>2, <2>3
<1>10. CASE ~IsInNormalZone(price, trigger)
  <2>1. \A i \in DOMAIN seen : Left(i)' <=> Left(i)
    BY <1>2, <1>3, <1>4, <1>5, <1>6, <1>10 DEF Left
  <2>2. Left(k)'
    <3>1. \A j \in k .. k : j = k
      BY <1>2
    <3> QED  BY <1>2, <1>3, <1>10, <3>1 DEF Left
  <2>3. k \in DOMAIN seen' /\ seen'[k].age = 0
    BY <1>2
  <2>4. CASE trigger.clock = NoClock
    <3>1. trigger' = [trigger EXCEPT !.clock = 0] /\ ~trigger.paused
      BY <1>2, <1>10, <2>4 DEF RunClock, ZoneIInv
    <3>2. trigger'.clock = 0 /\ ~trigger'.paused /\ 0 # NoClock
      BY <1>1, <3>1 DEF ZoneTriggers, NoClock
    <3>3. \E i \in DOMAIN seen' : Left(i)' /\ seen'[i].age >= trigger'.clock
      BY <2>2, <2>3, <3>2
    <3>4. trigger.resets => \A i \in DOMAIN seen : ~Left(i)
      BY <2>4 DEF ZoneIInv
    <3>5. trigger'.resets => ~trigger'.paused /\ \A i \in DOMAIN seen' : Left(i)' =>
                                trigger'.clock # NoClock /\ seen'[i].age <= trigger'.clock
      BY <1>2, <1>7, <2>1, <2>3, <3>2, <3>4
    <3> QED  BY <1>1, <1>2, <1>8, <3>2, <3>3, <3>5 DEF ZoneIInv
  <2>5. CASE trigger.clock # NoClock
    <3>1. trigger' = trigger
      BY <1>2, <1>10, <2>5 DEF RunClock
    <3>2. trigger.clock >= 0
      BY <1>1, <2>5 DEF ZoneTriggers
    <3>3. ~trigger.paused => \E i \in DOMAIN seen' : Left(i)' /\ seen'[i].age >= trigger'.clock
      <4> SUFFICES ASSUME ~trigger.paused PROVE \E i \in DOMAIN seen' : Left(i)' /\ seen'[i].age >= trigger'.clock
        OBVIOUS
      <4>1. PICK i \in DOMAIN seen : Left(i) /\ seen[i].age >= trigger.clock
        BY <2>5 DEF ZoneIInv
      <4> QED  BY <1>6, <2>1, <3>1, <4>1
    <3>4. trigger.paused => \E i \in DOMAIN seen' : \E j \in i .. Len(seen') : WasOut(i, j)'
      BY <1>2, <3>1, StaysOut DEF ZoneIInv
    <3>5. trigger.resets => ~trigger.paused /\ \A i \in DOMAIN seen : Left(i) => seen[i].age <= trigger.clock
      BY DEF ZoneIInv
    <3>6. trigger'.resets => ~trigger'.paused /\ \A i \in DOMAIN seen' : Left(i)' =>
                                trigger'.clock # NoClock /\ seen'[i].age <= trigger'.clock
      BY <1>6, <1>7, <2>1, <2>3, <2>5, <3>1, <3>2, <3>5
    <3> QED  BY <1>1, <1>2, <1>8, <2>5, <3>1, <3>3, <3>4, <3>6 DEF ZoneIInv
  <2> QED  BY <2>4, <2>5
<1> QED  BY <1>9, <1>10

(* The zone trigger, of which a copy is anew. *)
LEMMA ZoneKeeps ==
  ASSUME SeenIInv, ZoneIInv, TriggerNext PROVE SeenIInv' /\ ZoneIInv'
<1>1. trigger.kind = "zone"
  BY DEF ZoneIInv, ZoneTriggers
<1>2. CASE TriggerTick
  BY <1>2, ZoneTicks, AllOlder
<1>3. CASE Reset
  BY <1>1, <1>3, ZoneAnew, NothingSeen DEF Reset, ResetTrigger
<1>4. CASE Clone
  BY <1>1, <1>4, ZoneAnew, NothingSeen DEF Clone, CloneTrigger
<1>5. CASE \E price \in TriggerPrices : Check(price)
  BY <1>5, ZoneCritical, ZoneChecked
<1> QED  BY <1>2, <1>3, <1>4, <1>5 DEF TriggerNext

-----------------------------------------------------------------------------
(* into_trigger of any description that has its parameters. *)
LEMMA InitTrigger == TriggerInit => TriggerIInv
<1> SUFFICES ASSUME TriggerInit PROVE TriggerIInv
  OBVIOUS
<1>1. seen = <<>> /\ since = 0 /\ judged = FALSE /\ kept = NoPriceYet
  BY DEF TriggerInit
<1>2. seen \in Seq(Checks) /\ Len(seen) = 0 /\ DOMAIN seen = {} /\ since \in Nat
  BY <1>1, Wait
<1>3. SeenIInv
  BY <1>1, <1>2 DEF SeenIInv
<1>4. PICK m \in Descriptions : IsInitializable(m) /\ trigger = IntoTrigger(m)
  BY DEF TriggerInit
<1>5. m.kind \in TriggerKinds /\ Parameters(m.kind) \subseteq DOMAIN m
  BY <1>4 DEF Descriptions, TriggerKinds, IsInitializable
<1>6. CASE m.kind \in {"none", "instant"}
  <2>1. trigger = [kind |-> m.kind]
    BY <1>4, <1>6 DEF IntoTrigger
  <2>2. PlainIInv
    BY <1>1, <1>6, <2>1 DEF PlainIInv
  <2> QED  BY <1>3, <2>2 DEF TriggerIInv
<1>7. CASE m.kind = "delayed"
  <2>1. "delay" \in DOMAIN m
    BY <1>5, <1>7 DEF Parameters
  <2>2. m.delay = Delay
    BY <1>7, <2>1 DEF Descriptions
  <2>3. trigger = [kind |-> "delayed", delay |-> Delay, clock |-> 0, fired |-> FALSE]
    BY <1>4, <1>7, <2>2 DEF IntoTrigger
  <2>4. trigger \in DelayedTriggers /\ trigger.clock = 0 /\ trigger.fired = FALSE
    BY <2>3, Wait DEF DelayedTriggers
  <2>5. DelayedIInv
    BY <1>1, <1>2, <2>4 DEF DelayedIInv
  <2> QED  BY <1>3, <2>5 DEF TriggerIInv
<1>8. CASE m.kind = "zone"
  <2>1. "target" \in DOMAIN m
    BY <1>5, <1>8 DEF Parameters
  <2>2. m \in [kind : {"zone"}, target : TriggerPrices, threshold : TriggerPrices, delay : {Delay}, resets : BOOLEAN]
    BY <1>8, <2>1 DEF Descriptions
  <2>3. trigger = [kind |-> "zone", target |-> m.target, threshold |-> m.threshold, delay |-> m.delay,
                   resets |-> m.resets, clock |-> NoClock, paused |-> FALSE]
    BY <1>4, <1>8 DEF IntoTrigger
  <2>4. m.target # m.threshold
    BY <1>4, <1>8 DEF IsInitializable
  <2>5. trigger \in ZoneTriggers /\ trigger.clock = NoClock /\ trigger.paused = FALSE
        /\ trigger.target # trigger.threshold
    BY <2>2, <2>3, <2>4 DEF ZoneTriggers
  <2>6. ZoneIInv
    BY <1>1, <1>2, <2>5 DEF ZoneIInv
  <2> QED  BY <1>3, <2>6 DEF TriggerIInv
<1>9. CASE m.kind = "distance"
  <2>1. "anchor" \in DOMAIN m
    BY <1>5, <1>9 DEF Parameters
  <2>2. m \in [kind : {"distance"}, anchor : TriggerPrices, ratio : {Ratio, <<0, 1>>}]
    BY <1>9, <2>1 DEF Descriptions
  <2>3. trigger = [kind |-> "distance", anchor |-> m.anchor, ratio |-> m.ratio, fired |-> FALSE]
    BY <1>4, <1>9 DEF IntoTrigger
  <2>4. trigger \in DistanceTriggers /\ trigger.fired = FALSE
    BY <2>2, <2>3 DEF DistanceTriggers
  <2>5. DistanceIInv
    BY <1>1, <1>2, <2>4 DEF DistanceIInv
  <2> QED  BY <1>3, <2>5 DEF TriggerIInv
<1>10. CASE m.kind = "proximity"
  <2>1. "anchor" \in DOMAIN m
    BY <1>5, <1>10 DEF Parameters
  <2>2. m \in [kind : {"proximity"}, anchor : TriggerPrices, target : TriggerPrices,
               ratio : {Ratio, <<0, 1>>, <<1, 1>>, <<3, 2>>}]
    BY <1>10, <2>1 DEF Descriptions
  <2>3. trigger = [kind |-> "proximity", anchor |-> m.anchor, target |-> m.target, ratio |-> m.ratio,
                   previous |-> NoPriceYet, fired |-> FALSE]
    BY <1>4, <1>10 DEF IntoTrigger
  <2>4. trigger \in ProximityTriggers /\ trigger.fired = FALSE /\ trigger.previous = NoPriceYet
    BY <2>2, <2>3 DEF ProximityTriggers
  <2>5. ProximityIInv
    BY <1>1, <1>2, <2>4 DEF ProximityIInv
  <2> QED  BY <1>3, <2>5 DEF TriggerIInv
<1> QED  BY <1>5, <1>6, <1>7, <1>8, <1>9, <1>10 DEF TriggerKinds

(* Every step of a trigger; it stays of its kind. *)
LEMMA StepTrigger == TriggerIInv /\ [TriggerNext]_triggerVars => TriggerIInv'
<1> SUFFICES ASSUME TriggerIInv, [TriggerNext]_triggerVars PROVE TriggerIInv'
  OBVIOUS
<1>1. CASE TriggerNext
  BY <1>1, PlainKeeps, DelayedKeeps, ZoneKeeps, DistanceKeeps, ProximityKeeps DEF TriggerIInv
<1>2. CASE UNCHANGED triggerVars
  <2>1. trigger' = trigger /\ since' = since /\ seen' = seen /\ kept' = kept /\ judged' = judged
    BY <1>2 DEF triggerVars
  <2>2. SeenIInv' <=> SeenIInv
    BY <2>1 DEF SeenIInv
  <2>3. (PlainIInv' <=> PlainIInv) /\ (DelayedIInv' <=> DelayedIInv) /\ (DistanceIInv' <=> DistanceIInv)
        /\ (ProximityIInv' <=> ProximityIInv) /\ (ZoneIInv' <=> ZoneIInv)
    BY <2>1, Zenon DEF PlainIInv, DelayedIInv, DistanceIInv, ProximityIInv, Came, ZoneIInv, LastFires, Left, WasOut, IsOut
  <2> QED  BY <2>2, <2>3 DEF TriggerIInv
<1> QED  BY <1>1, <1>2

(* What the inductive invariant knows of the latest check is its cause. *)
LEMMA Causes == TriggerIInv => FiresForCause
<1> SUFFICES ASSUME TriggerIInv, judged = TRUE PROVE FiresForCause
  BY DEF FiresForCause, TriggerIInv, SeenIInv
<1>1. seen \in Seq(Checks) /\ Len(seen) > 0 /\ Len(seen) \in Nat /\ DOMAIN seen = 1 .. Len(seen)
      /\ \A i \in DOMAIN seen : seen[i].age \in Nat
  <2>1. seen \in Seq(Checks) /\ Len(seen) > 0
    BY DEF TriggerIInv, SeenIInv
  <2>2. \A i \in DOMAIN seen : seen[i] \in Checks
    BY <2>1
  <2> QED  BY <2>1, <2>2 DEF Checks
<1>2. CASE PlainIInv
  BY <1>2 DEF PlainIInv, LastFires, FiresForCause
<1>3. CASE DelayedIInv
  BY <1>3 DEF DelayedIInv, DelayedTriggers, LastFires, FiresForCause
<1>4. CASE ZoneIInv
  <2>1. trigger.kind = "zone" /\ trigger.delay = Delay /\ trigger.clock \in {NoClock} \cup Nat
    BY <1>4 DEF ZoneIInv, ZoneTriggers
  <2>2. Len(seen) \in DOMAIN seen /\ seen[Len(seen)].age = 0 /\ trigger.delay \in Nat
    BY <1>1, <1>4, <2>1, Wait DEF ZoneIInv
  <2>3. trigger.clock > trigger.delay => LongOutside(trigger)
    <3> SUFFICES ASSUME trigger.clock > trigger.delay PROVE LongOutside(trigger)
      OBVIOUS
    <3>1. trigger.clock # NoClock /\ trigger.clock \in Nat
      BY <2>1, <2>2 DEF NoClock
    <3>2. CASE ~trigger.paused
      <4>1. PICK i \in DOMAIN seen : Left(i) /\ seen[i].age >= trigger.clock
        BY <1>4, <3>1, <3>2 DEF ZoneIInv
      <4>2. Len(seen) \in i .. Len(seen) /\ \A k \in i .. Len(seen) - 1 : k \in i .. Len(seen)
        BY <1>1
      <4>3. IsOut(i, Len(seen), trigger) /\ ~IsInNormalZone(seen[Len(seen)].price, trigger)
        BY <4>1, <4>2 DEF Left, IsOut
      <4>4. seen[i].age - seen[Len(seen)].age > trigger.delay
        <5>1. seen[i].age \in Nat
          BY <1>1
        <5> QED  BY <2>2, <3>1, <4>1, <5>1
      <4> QED  BY <4>2, <4>3, <4>4 DEF LongOutside
    <3>3. CASE trigger.paused
      <4>1. PICK i \in DOMAIN seen : \E j \in i .. Len(seen) : WasOut(i, j)
        BY <1>4, <3>3 DEF ZoneIInv
      <4>2. PICK j \in i .. Len(seen) : WasOut(i, j)
        BY <4>1
      <4>3. seen[i].age - seen[j].age > trigger.delay
        <5>1. j \in DOMAIN seen
          BY <1>1
        <5>2. seen[i].age \in Nat /\ seen[j].age \in Nat
          BY <1>1, <5>1
        <5> QED  BY <2>2, <3>1, <4>2, <5>2 DEF WasOut
      <4>4. ~trigger.resets
        BY <1>4, <3>3 DEF ZoneIInv
      <4> QED  BY <4>2, <4>3, <4>4 DEF LongOutside, WasOut
    <3> QED  BY <3>2, <3>3
  <2>4. trigger.resets /\ LongOutside(trigger) => trigger.clock > trigger.delay
    <3> SUFFICES ASSUME trigger.resets, LongOutside(trigger) PROVE trigger.clock > trigger.delay
      OBVIOUS
    <3>1. PICK i \in DOMAIN seen :
            /\ Len(seen) \in i .. Len(seen) /\ IsOut(i, Len(seen), trigger)
            /\ seen[i].age - seen[Len(seen)].age > trigger.delay
            /\ ~IsInNormalZone(seen[Len(seen)].price, trigger)
      BY DEF LongOutside
    <3>2. \A k \in i .. Len(seen) : k \in i .. Len(seen) - 1 \/ k = Len(seen)
      <4>1. i \in Nat /\ Len(seen) \in Nat
        BY <1>1
      <4>2. \A n \in Nat : \A k \in i .. n : k \in i .. n - 1 \/ k = n
        BY <4>1
      <4> QED  BY <4>1, <4>2
    <3>3. Left(i)
      BY <3>1, <3>2 DEF Left, IsOut
    <3>4. trigger.clock # NoClock /\ seen[i].age <= trigger.clock
      BY <1>4, <3>3 DEF ZoneIInv
    <3>5. seen[i].age \in Nat /\ trigger.clock \in Nat
      BY <1>1, <2>1, <3>4
    <3> QED  BY <2>2, <3>1, <3>4, <3>5
  <2>5. LastFires <=> IsInCriticalZone(seen[Len(seen)].price, trigger) \/ trigger.clock > trigger.delay
    BY <1>4 DEF ZoneIInv
  <2> QED  BY <2>1, <2>3, <2>4, <2>5, Zenon DEF FiresForCause, LastFires
<1>5. CASE DistanceIInv
  BY <1>5 DEF DistanceIInv, DistanceTriggers, LastFires, FiresForCause
<1>6. CASE ProximityIInv
  <2>1. trigger.kind = "proximity"
    BY <1>6 DEF ProximityIInv, ProximityTriggers
  <2>2. LastFires <=> trigger.fired
    BY <1>6 DEF ProximityIInv
  <2>3. (\E i \in DOMAIN seen : (i > 1 \/ kept # NoPriceYet) /\ IsWithin(seen[i].price, trigger)) => LastFires
    BY <1>6, <2>2 DEF ProximityIInv
  <2>4. {i \in DOMAIN seen : seen[i].fires} # {} => LastFires
    BY <1>6, <2>2 DEF ProximityIInv
  <2>5. LastFires => Came
    BY <1>6, <2>2 DEF ProximityIInv
  <2> QED  BY <2>1, <2>3, <2>4, <2>5, Zenon DEF FiresForCause, LastFires, Came
<1> QED  BY <1>2, <1>3, <1>4, <1>5, <1>6 DEF TriggerIInv

(* check, reset and clone of every kind of trigger, and time between them in any
   order: a trigger fires for what it has seen since it was made or reset, and
   as soon as it has.                                                        *)
THEOREM TriggersFireForCause == TriggerSpec => []FiresForCause
  BY InitTrigger, StepTrigger, Causes, PTL DEF TriggerSpec

-----------------------------------------------------------------------------
(* The actions on the plot, for any configurations and prices. *)

(* The builder has fewer points than it asks for. *)
Builders ==
    {a \in [kind : {"builder"}, config : BuilderConfigs, points : Seq(PlotPoints)] :
        Len(a.points) < Len(RequiredInputs(a.config))}

(* A builder that has its exit has it on the right side of the entry. *)
ExitStands(a) ==
    a.config.closes /\ Len(a.points) >= 2 =>
        IF a.config.type = "Short" THEN a.points[2] <= a.points[1] ELSE a.points[2] >= a.points[1]

PlotIInv ==
    /\ \/ action = NoAction
       \/ action.kind = "ruler"
       \/ action.kind = "bias"
       \/ action \in Builders /\ ExitStands(action)
    /\ pending # NoTrade => StandsInOrder(pending)
    /\ \E trades : tracked \in Seq(trades) /\ \A t \in trades : StandsInOrder(t)

(* normalized_price of the tick: prices are brought to their tick in order. *)
LEMMA TicksInOrder ==
  ASSUME NEW p \in Nat, NEW q \in Nat, p <= q PROVE TickPrice(p) <= TickPrice(q)
<1>1. TickSize \in Nat /\ TickSize > 0
  BY PlotAssumption
<1>2. \A y \in Nat : y = TickSize * (y \div TickSize) + (y % TickSize)
                     /\ y % TickSize \in 0 .. TickSize - 1 /\ y \div TickSize \in Nat
  BY <1>1
<1> DEFINE m == p \div TickSize
<1> DEFINE n == q \div TickSize
<1>3. /\ m \in Nat /\ n \in Nat
      /\ TickPrice(p) = TickSize * m /\ TickPrice(q) = TickSize * n
      /\ p >= TickSize * m /\ q < TickSize * n + TickSize
  BY <1>1, <1>2 DEF TickPrice
<1> HIDE DEF m, n
<1>4. m <= n
  <2> SUFFICES ASSUME m >= n + 1 PROVE FALSE
    BY <1>3
  <2>1. TickSize * m >= TickSize * (n + 1)
    BY <1>1, <1>3
  <2>2. TickSize * (n + 1) = TickSize * n + TickSize
    BY <1>1, <1>3
  <2>3. TickSize * m \in Nat /\ TickSize * n \in Nat
    BY <1>1, <1>3
  <2> QED  BY <1>1, <1>3, <2>1, <2>2, <2>3
<1>5. TickSize * m <= TickSize * n
  BY <1>1, <1>3, <1>4
<1> QED  BY <1>3, <1>5

(* Nothing has been made. *)
LEMMA InitPlot == PlotInit => PlotIInv
<1> SUFFICES ASSUME PlotInit PROVE PlotIInv
  OBVIOUS
<1>1. \E trades : tracked \in Seq(trades) /\ \A t \in trades : StandsInOrder(t)
  <2>1. tracked \in Seq({})
    BY DEF PlotInit
  <2> QED  BY <2>1
<1>2. action = NoAction /\ pending = NoTrade
  BY DEF PlotInit
<1> QED  BY <1>1, <1>2 DEF PlotIInv

(* RequiredInputs of a builder of all three prices. *)
LEMMA Inputs ==
  ASSUME NEW c, c.closes, c.stops
  PROVE  RequiredInputs(c) = <<"entry", "exit", "stop">>
<1> DEFINE E == {"entry", "exit", "stop"}
<1>1. \A x \in E : <<x>> \in Seq(E) /\ Len(<<x>>) = 1 /\ <<x>>[1] = x
  OBVIOUS
<1>2. \A s, t \in Seq(E) : /\ s \o t \in Seq(E) /\ Len(s \o t) = Len(s) + Len(t)
                         /\ \A i \in 1 .. Len(s) : (s \o t)[i] = s[i]
                         /\ \A j \in 1 .. Len(t) : (s \o t)[Len(s) + j] = t[j]
  OBVIOUS
<1>3. "entry" \in E /\ "exit" \in E /\ "stop" \in E
  OBVIOUS
<1> HIDE DEF E
<1> DEFINE two == <<"entry">> \o <<"exit">>
<1>4. two \in Seq(E) /\ Len(two) = 2 /\ two[1] = "entry" /\ two[2] = "exit"
  BY <1>1, <1>2, <1>3
<1> DEFINE three == two \o <<"stop">>
<1>5. three \in Seq(E) /\ Len(three) = 3 /\ three[1] = "entry" /\ three[2] = "exit" /\ three[3] = "stop"
  <2> HIDE DEF two
  <2> QED  BY <1>1, <1>2, <1>3, <1>4
<1>6. RequiredInputs(c) = three
  BY DEF RequiredInputs
<1> HIDE DEF three
<1> QED  BY <1>5, <1>6

(* What is appended comes last. *)
LEMMA Fresh == \A S : \A x \in S : \A s \in Seq(S) : Append(s, x) \in Seq(S) /\ Len(Append(s, x)) = Len(s) + 1
                         /\ Append(s, x)[Len(s) + 1] = x /\ \A i \in 1 .. Len(s) : Append(s, x)[i] = s[i]
  OBVIOUS

(* handle_click: the exit is on its side of the entry when it is taken. *)
LEMMA ClickStands ==
  ASSUME NEW a \in Builders, ExitStands(a), NEW y \in PlotPoints, TakesClick(a, y), a.config.closes
  PROVE  ExitStands([a EXCEPT !.points = Append(@, y)])
<1> DEFINE b == [a EXCEPT !.points = Append(@, y)]
<1>1. a.points \in Seq(PlotPoints) /\ b.config = a.config /\ b.points = Append(a.points, y)
  BY DEF Builders
<1>2. Len(b.points) = Len(a.points) + 1 /\ b.points[Len(a.points) + 1] = y
      /\ \A i \in 1 .. Len(a.points) : b.points[i] = a.points[i]
  BY <1>1, Fresh
<1>3. CASE Len(a.points) >= 2
  BY <1>1, <1>2, <1>3 DEF ExitStands
<1>4. CASE Len(a.points) = 1
  <2>1. NextInput(a) = "exit"
    BY <1>4 DEF NextInput, RequiredInputs
  <2>2. IF a.config.type = "Short" THEN y <= a.points[1] ELSE y >= a.points[1]
    BY <2>1 DEF TakesClick
  <2>3. b.points[1] = a.points[1] /\ b.points[2] = y
    BY <1>2, <1>4
  <2> QED  BY <1>1, <2>2, <2>3 DEF ExitStands
<1>5. CASE Len(a.points) = 0
  BY <1>2, <1>5 DEF ExitStands
<1>6. Len(a.points) \in Nat
  BY <1>1
<1>7. Len(a.points) >= 2 \/ Len(a.points) = 1 \/ Len(a.points) = 0
  <2>1. \A n \in Nat : n >= 2 \/ n = 1 \/ n = 0
    OBVIOUS
  <2> QED  BY <1>6, <2>1, Zenon
<1> QED  BY <1>3, <1>4, <1>5, <1>7, Zenon

(* get_point of a builder of all three prices. *)
LEMMA Points ==
  ASSUME NEW a, a.config.closes, a.config.stops, a.points \in Seq(PlotPoints), Len(a.points) = 3
  PROVE  /\ PointOf(a, "entry") = TickPrice(a.points[1])
         /\ PointOf(a, "exit") = TickPrice(a.points[2])
         /\ PointOf(a, "stop") = TickPrice(a.points[3])
<1>1. RequiredInputs(a.config) = <<"entry", "exit", "stop">>
  BY Inputs
<1>2. DOMAIN a.points = 1 .. 3
  OBVIOUS
<1>3. \A i \in 1 .. 3 : i = 1 \/ i = 2 \/ i = 3
  OBVIOUS
<1> DEFINE At(input) == CHOOSE i \in DOMAIN a.points : RequiredInputs(a.config)[i] = input
<1>4. At("entry") = 1
  BY <1>1, <1>2, <1>3
<1>5. At("exit") = 2
  BY <1>1, <1>2, <1>3
<1>6. At("stop") = 3
  BY <1>1, <1>2, <1>3
<1> QED  BY <1>4, <1>5, <1>6 DEF PointOf

(* into_trigger of the triggers of the exit: one that waits for a price near
   its target has the exit for it.                                          *)
LEMMA ExitWaitsForItself ==
  ASSUME NEW c \in BuilderConfigs, NEW entry, NEW exit, NEW r \in Roles,
         IntoTriggers(ExitTriggers(c, entry, exit))[r].kind = "proximity"
  PROVE  /\ IntoTriggers(ExitTriggers(c, entry, exit))[r].anchor = entry
         /\ IntoTriggers(ExitTriggers(c, entry, exit))[r].target = exit
<1> DEFINE m == ExitTriggers(c, entry, exit)[r]
<1>1. IntoTriggers(ExitTriggers(c, entry, exit))[r] = IntoTrigger(m)
  BY DEF IntoTriggers
<1>2. "kind" \in DOMAIN c.exit[r] /\ c.exit[r].kind \in TriggerKinds
  BY BuilderAssumption
<1>3. CASE c.exit[r].kind = "distance"
  <2>1. m = With([anchor |-> entry], c.exit[r])
    BY <1>3 DEF ExitTriggers
  <2>2. m.kind = "distance"
    BY <1>2, <1>3, <2>1 DEF With
  <2>3. IntoTrigger(m).kind = "distance"
    BY <2>2 DEF IntoTrigger
  <2> QED  BY <1>1, <2>3
<1>4. CASE c.exit[r].kind = "proximity"
  <2>1. m = With([anchor |-> entry, target |-> exit], c.exit[r])
    BY <1>4 DEF ExitTriggers
  <2>2. m.kind = "proximity" /\ m.anchor = entry /\ m.target = exit
    BY <1>2, <1>4, <2>1 DEF With
  <2>3. IntoTrigger(m).anchor = entry /\ IntoTrigger(m).target = exit
    BY <2>2 DEF IntoTrigger
  <2> QED  BY <1>1, <2>3
<1>5. CASE c.exit[r].kind \in {"none", "instant", "delayed", "zone"}
  <2>1. m = c.exit[r]
    BY <1>5 DEF ExitTriggers
  <2> HIDE DEF m
  <2>2. IntoTrigger(m).kind \in {"none", "instant", "delayed", "zone"}
    BY <1>5, <2>1 DEF IntoTrigger
  <2> QED  BY <1>1, <2>2
<1> QED  BY <1>2, <1>3, <1>4, <1>5 DEF TriggerKinds

(* build: the trade made of three clicks. *)
LEMMA BuiltStands ==
  ASSUME NEW a \in Builders, ExitStands(a), NEW y \in PlotPoints, TakesClick(a, y),
         LET b == [a EXCEPT !.points = Append(@, y)] IN IsComplete(b) /\ CanBuild(b)
  PROVE  StandsInOrder(Build([a EXCEPT !.points = Append(@, y)]))
<1> DEFINE b == [a EXCEPT !.points = Append(@, y)]
<1> DEFINE c == a.config
<1> DEFINE t == Build(b)
<1>1. a.points \in Seq(PlotPoints) /\ c \in BuilderConfigs /\ b.config = c /\ b.points = Append(a.points, y)
      /\ Len(a.points) < Len(RequiredInputs(c)) /\ c.type \in {"Long", "Short"}
  BY BuilderAssumption DEF Builders
<1>2. c.closes /\ c.stops
  BY <1>1 DEF CanBuild
<1>3. RequiredInputs(c) = <<"entry", "exit", "stop">>
  BY <1>2, Inputs
<1>4. b.points \in Seq(PlotPoints) /\ Len(b.points) = Len(a.points) + 1 /\ b.points[Len(a.points) + 1] = y
      /\ \A i \in 1 .. Len(a.points) : b.points[i] = a.points[i]
  BY <1>1, Fresh
<1>5. Len(a.points) = 2
  <2>1. Len(<<"entry", "exit", "stop">>) = 3
    OBVIOUS
  <2>2. Len(b.points) >= 3 /\ Len(a.points) < 3
    BY <1>1, <1>3, <2>1 DEF IsComplete
  <2>3. \A n \in Nat : n < 3 /\ n + 1 >= 3 => n = 2
    OBVIOUS
  <2>4. Len(a.points) \in Nat
    BY <1>1
  <2> QED  BY <1>4, <2>2, <2>3, <2>4
<1>6. b.points[1] = a.points[1] /\ b.points[2] = a.points[2] /\ b.points[3] = y
  BY <1>4, <1>5
<1>7. b.points[1] \in Nat /\ b.points[2] \in Nat /\ b.points[3] \in Nat
  BY <1>4, <1>5, PlotAssumption
<1>8. IF c.type = "Short" THEN b.points[2] <= b.points[1] ELSE b.points[2] >= b.points[1]
  BY <1>2, <1>5, <1>6 DEF ExitStands
<1>9. IF c.type = "Short" THEN b.points[3] >= b.points[1] ELSE b.points[3] <= b.points[1]
  <2>1. NextInput(a) = "stop"
    BY <1>3, <1>5 DEF NextInput
  <2> QED  BY <1>6, <2>1 DEF TakesClick
<1> HIDE DEF b
<1>20. b.config.closes /\ b.config.stops /\ Len(b.points) = 3
  BY <1>1, <1>2, <1>4, <1>5
<1>10. /\ PointOf(b, "entry") = TickPrice(b.points[1])
       /\ PointOf(b, "exit") = TickPrice(b.points[2])
       /\ PointOf(b, "stop") = TickPrice(b.points[3])
  BY <1>4, <1>20, Points
<1>11. t.entry = TickPrice(b.points[1]) /\ t.exit = TickPrice(b.points[2]) /\ t.stop = TickPrice(b.points[3])
       /\ t.type = c.type /\ t.by = "builder" /\ t.limit \in {"below", "none"}
       /\ t.triggers[2] = IntoTriggers(ExitTriggers(c, TickPrice(b.points[1]), TickPrice(b.points[2])))
  BY <1>1, <1>10 DEF Build
<1>12. t.sides[2] = t.sides[3] /\ t.sides[1] # t.sides[2]
  BY <1>1 DEF Build, Sides
<1> HIDE DEF t
<1>13. IF t.type = "Long" THEN t.stop <= t.entry /\ t.exit >= t.entry ELSE t.stop >= t.entry /\ t.exit <= t.entry
  <2>1. CASE c.type = "Long"
    BY <1>7, <1>8, <1>9, <1>11, <2>1, TicksInOrder
  <2>2. CASE c.type = "Short"
    BY <1>7, <1>8, <1>9, <1>11, <2>2, TicksInOrder
  <2> QED  BY <1>1, <2>1, <2>2
<1>14. t.triggers[2]["activator"].kind = "proximity" =>
            t.triggers[2]["activator"].anchor = t.entry /\ t.triggers[2]["activator"].target = t.exit
  <2>1. t.triggers[2]["activator"]
            = IntoTriggers(ExitTriggers(c, t.entry, t.exit))["activator"]
    BY <1>11
  <2>2. "activator" \in Roles
    BY DEF Roles
  <2> DEFINE w == IntoTriggers(ExitTriggers(c, t.entry, t.exit))["activator"]
  <2>3. w.kind = "proximity" => w.anchor = t.entry /\ w.target = t.exit
    BY <1>1, <2>2, ExitWaitsForItself
  <2> HIDE DEF w
  <2>4. t.triggers[2]["activator"] = w
    BY <2>1 DEF w
  <2> QED  BY <2>3, <2>4
<1>15. StandsInOrder(t)
  BY <1>11, <1>12, <1>13, <1>14 DEF StandsInOrder
<1> QED  BY <1>15 DEF t, b

(* create_trade_from_template: what is valid is long, with its stop below. *)
LEMMA TemplateStands ==
  ASSUME NEW c \in BuilderConfigs, NEW entry \in PlotPoints, NEW exit, NEW stop \in PlotPoints,
         TemplateIsValid(c, entry, exit, stop)
  PROVE  StandsInOrder(TradeTemplate(c, entry, exit, stop))
<1> DEFINE t == TradeTemplate(c, entry, exit, stop)
<1>1. FarSide(c) = "below" /\ stop < entry /\ stop \in Nat /\ entry \in Nat
  BY PlotAssumption DEF TemplateIsValid, StopTemplateIsValid
<1>2. c.type = "Long"
  BY <1>1 DEF FarSide
<1>3. t.type = "Long" /\ t.by = "template" /\ t.entry = entry /\ t.stop = stop /\ t.limit = "below"
      /\ t.sides = <<"Buy", "Sell", "Sell">>
  BY <1>1, <1>2 DEF TradeTemplate, Sides
<1>4. t.triggers[2]["activator"].kind = "instant"
  BY DEF TradeTemplate, IntoTriggers, On, Plain, IntoTrigger, Roles
<1> HIDE DEF t
<1>5. t.stop <= t.entry /\ t.stop # t.entry
  BY <1>1, <1>3
<1>6. StandsInOrder(t)
  BY <1>3, <1>4, <1>5 DEF StandsInOrder
<1> QED  BY <1>6 DEF t

(* create_trade: a trade is taken into the trader as it stands. *)
LEMMA TakesTrade ==
  ASSUME \E trades : tracked \in Seq(trades) /\ \A t \in trades : StandsInOrder(t),
         NEW t, StandsInOrder(t), tracked' = Append(tracked, t)
  PROVE  \E trades : tracked' \in Seq(trades) /\ \A s \in trades : StandsInOrder(s)
<1>1. PICK trades : tracked \in Seq(trades) /\ \A s \in trades : StandsInOrder(s)
  OBVIOUS
<1>2. tracked \in Seq(trades \cup {t})
  BY <1>1
<1>3. tracked' \in Seq(trades \cup {t})
  BY <1>2
<1> QED  BY <1>1, <1>3

(* A step of the plot that makes no trade. *)
LEMMA PlotKeeps ==
  ASSUME PlotIInv, action' = NoAction \/ action'.kind = "ruler" \/ action'.kind = "bias"
                   \/ (action' \in Builders /\ ExitStands(action')),
         UNCHANGED <<pending, tracked>>
  PROVE  PlotIInv'
  BY DEF PlotIInv

(* The kinds of action are told apart. *)
LEMMA KindsOfAction ==
  ASSUME PlotIInv
  PROVE  /\ action = NoAction => action.kind = "none"
         /\ action.kind \in {"ruler", "bias", "builder"} => action # NoAction
         /\ action.kind = "builder" => action \in Builders /\ ExitStands(action)
  BY DEF PlotIInv, NoAction, Builders

(* A builder starts with no point, and asks for one at least. *)
LEMMA StartActionKeeps == ASSUME PlotIInv, StartAction PROVE PlotIInv'
<1>1. action = NoAction /\ UNCHANGED <<market, pending, tracked, drag, bias>>
  BY DEF StartAction
<1>4. CASE action'.kind = "builder"
  <2>1. PICK c \in BuilderConfigs : action' = [kind |-> "builder", config |-> c, points |-> <<>>]
    BY <1>4 DEF StartAction
  <2>2. 0 < Len(RequiredInputs(c))
    <3>1. \A s, t : s \in Seq({"exit", "stop"}) /\ t \in Seq({"exit", "stop"})
                    => Len(<<"entry">> \o s \o t) >= 1
      <4>1. \A s : s \in Seq({"exit", "stop"}) => s \in Seq({"entry", "exit", "stop"})
        OBVIOUS
      <4>2. <<"entry">> \in Seq({"entry", "exit", "stop"}) /\ Len(<<"entry">>) = 1
        OBVIOUS
      <4> QED  BY <4>1, <4>2
    <3>2. <<"exit">> \in Seq({"exit", "stop"}) /\ <<"stop">> \in Seq({"exit", "stop"})
          /\ <<>> \in Seq({"exit", "stop"})
      OBVIOUS
    <3> QED  BY <3>1, <3>2 DEF RequiredInputs
  <2>3. action' \in Builders /\ ExitStands(action')
    BY <2>1, <2>2 DEF Builders, ExitStands
  <2> QED  BY <1>1, <2>3, PlotKeeps
<1>5. action'.kind \in {"ruler", "bias", "builder"}
  BY DEF StartAction
<1> QED  BY <1>1, <1>4, <1>5, PlotKeeps

(* Whoever lets go of the action makes no trade. *)
LEMMA LettingGoKeeps ==
  ASSUME PlotIInv, LetGo, UNCHANGED <<pending, tracked>>
  PROVE  PlotIInv'
  BY PlotKeeps DEF LetGo

(* The frames of every action, but a click of the builder. *)
LEMMA FramesKeep ==
  ASSUME PlotIInv, Escape \/ RulerFrame \/ BiasFollows \/ BiasEnds \/ BuilderWaits \/ BuilderFails
  PROVE  PlotIInv'
<1>1. CASE Escape \/ BiasEnds \/ BuilderFails
  BY <1>1, LettingGoKeeps DEF Escape, BiasEnds, BuilderFails
<1>2. CASE RulerFrame
  <2>1. action'.kind = "ruler"
    <3>1. action \in [kind : {"ruler"}, state : {"Active", "Cancelled", "Finished"}] \/ action'.kind = "ruler"
      BY <1>2 DEF RulerFrame
    <3> QED  BY <1>2, <3>1 DEF RulerFrame
  <2> QED  BY <1>2, <2>1, PlotKeeps DEF RulerFrame
<1>3. CASE BiasFollows
  BY <1>3, PlotKeeps DEF BiasFollows
<1>4. CASE BuilderWaits
  BY <1>4, KindsOfAction, PlotKeeps DEF BuilderWaits
<1> QED  BY <1>1, <1>2, <1>3, <1>4

(* handle_click, and the trade that the last click makes. *)
LEMMA ClickKeeps == ASSUME PlotIInv, NEW y \in PlotPoints, BuilderClick(y) PROVE PlotIInv'
<1> DEFINE clicked == [action EXCEPT !.points = Append(@, y)]
<1>1. action.kind = "builder" /\ tracked' = tracked
  BY DEF BuilderClick
<1>2. action \in Builders /\ ExitStands(action) /\ action # NoAction
  BY <1>1, KindsOfAction
<1>4. IF ~TakesClick(action, y) THEN LetGo /\ UNCHANGED pending
      ELSE IF ~IsComplete(clicked) THEN action' = clicked /\ drag' = FALSE /\ UNCHANGED pending
      ELSE LetGo /\ pending' = IF CanBuild(clicked) /\ TradeIsValid(Build(clicked)) THEN Build(clicked) ELSE pending
  BY DEF BuilderClick
<1>5. CASE ~TakesClick(action, y)
  BY <1>1, <1>4, <1>5, LettingGoKeeps
<1>6. CASE TakesClick(action, y) /\ ~IsComplete(clicked)
  <2>1. action' = clicked /\ pending' = pending
    BY <1>4, <1>6
  <2>2. clicked \in [kind : {"builder"}, config : BuilderConfigs, points : Seq(PlotPoints)]
        /\ clicked.config = action.config
    BY <1>2 DEF Builders
  <2>3. Len(clicked.points) < Len(RequiredInputs(clicked.config))
    <3>1. RequiredInputs(clicked.config) \in Seq({"entry", "exit", "stop"})
      <4>1. <<"entry">> \in Seq({"entry", "exit", "stop"}) /\ <<"exit">> \in Seq({"entry", "exit", "stop"})
            /\ <<"stop">> \in Seq({"entry", "exit", "stop"}) /\ <<>> \in Seq({"entry", "exit", "stop"})
        OBVIOUS
      <4>2. \A S : \A r, s, t \in Seq(S) : r \o s \o t \in Seq(S)
        OBVIOUS
      <4> DEFINE r == IF clicked.config.closes THEN <<"exit">> ELSE <<>>
      <4> DEFINE s == IF clicked.config.stops THEN <<"stop">> ELSE <<>>
      <4>3. r \in Seq({"entry", "exit", "stop"}) /\ s \in Seq({"entry", "exit", "stop"})
        BY <4>1
      <4>4. RequiredInputs(clicked.config) = <<"entry">> \o r \o s
        BY DEF RequiredInputs
      <4> HIDE DEF r, s
      <4>5. <<"entry">> \o r \o s \in Seq({"entry", "exit", "stop"})
        BY <4>1, <4>2, <4>3, Zenon
      <4> QED  BY <4>4, <4>5, Zenon
    <3>2. Len(clicked.points) \in Nat /\ Len(RequiredInputs(clicked.config)) \in Nat
      BY <2>2, <3>1
    <3>3. ~(Len(clicked.points) >= Len(RequiredInputs(clicked.config)))
      BY <1>6 DEF IsComplete
    <3> HIDE DEF clicked
    <3> QED  BY <3>2, <3>3
  <2>4. ExitStands(clicked)
    <3>1. CASE action.config.closes
      BY <1>2, <1>6, <3>1, ClickStands
    <3>2. CASE ~action.config.closes
      BY <2>2, <3>2 DEF ExitStands
    <3> QED  BY <3>1, <3>2
  <2>5. clicked \in Builders
    BY <2>2, <2>3 DEF Builders
  <2> QED  BY <1>1, <2>1, <2>4, <2>5, PlotKeeps
<1>7. CASE TakesClick(action, y) /\ IsComplete(clicked)
  <2>1. LetGo /\ pending' = IF CanBuild(clicked) /\ TradeIsValid(Build(clicked)) THEN Build(clicked) ELSE pending
    BY <1>4, <1>7
  <2>2. pending' # NoTrade => StandsInOrder(pending')
    <3>1. CASE CanBuild(clicked) /\ TradeIsValid(Build(clicked))
      <4>1. StandsInOrder(Build(clicked))
        BY <1>2, <1>7, <3>1, BuiltStands
      <4>2. pending' = Build(clicked)
        BY <2>1, <3>1
      <4> HIDE DEF clicked
      <4> QED  BY <4>1, <4>2
    <3>2. CASE ~(CanBuild(clicked) /\ TradeIsValid(Build(clicked)))
      BY <2>1, <3>2 DEF PlotIInv
    <3> QED  BY <3>1, <3>2
  <2>4. action' = NoAction
    BY <2>1 DEF LetGo
  <2>5. \E trades : tracked' \in Seq(trades) /\ \A t \in trades : StandsInOrder(t)
    BY <1>1 DEF PlotIInv
  <2> HIDE DEF clicked
  <2> QED  BY <2>2, <2>4, <2>5 DEF PlotIInv
<1> QED  BY <1>5, <1>6, <1>7

(* Every step of the plot. *)
LEMMA StepPlot == PlotIInv /\ [PlotNext]_plotVars => PlotIInv'
<1> SUFFICES ASSUME PlotIInv, [PlotNext]_plotVars PROVE PlotIInv'
  OBVIOUS
<1>1. CASE MarketMoves \/ UNCHANGED plotVars
  BY <1>1 DEF MarketMoves, plotVars, PlotIInv
<1>2. CASE StartAction
  BY <1>2, StartActionKeeps
<1>3. CASE Escape \/ RulerFrame \/ BiasFollows \/ BiasEnds \/ BuilderWaits \/ BuilderFails
  BY <1>3, FramesKeep
<1>4. CASE \E y \in PlotPoints : BuilderClick(y)
  BY <1>4, ClickKeeps
<1>5. CASE Confirm
  <2>1. \E trades : tracked' \in Seq(trades) /\ \A t \in trades : StandsInOrder(t)
    <3>1. CASE TradeIsValid(pending)
      <4>1. tracked' = Append(tracked, pending) /\ StandsInOrder(pending)
        BY <1>5, <3>1 DEF Confirm, PlotIInv
      <4> QED  BY <4>1, TakesTrade DEF PlotIInv
    <3>2. CASE ~TradeIsValid(pending)
      BY <1>5, <3>2 DEF Confirm, PlotIInv
    <3> QED  BY <3>1, <3>2
  <2> QED  BY <1>5, <2>1 DEF Confirm, PlotIInv
<1>6. CASE Decline
  BY <1>6 DEF Decline, PlotIInv
<1>7. CASE \E c \in BuilderConfigs : \E entry, exit, stop \in PlotPoints : CreateFromTemplate(c, entry, exit, stop)
  <2>1. PICK c \in BuilderConfigs, entry \in PlotPoints, exit \in PlotPoints, stop \in PlotPoints :
            CreateFromTemplate(c, entry, exit, stop)
    BY <1>7
  <2>2. \E trades : tracked' \in Seq(trades) /\ \A t \in trades : StandsInOrder(t)
    BY <2>1, TemplateStands, TakesTrade DEF CreateFromTemplate, PlotIInv
  <2> QED  BY <2>1, <2>2 DEF CreateFromTemplate, PlotIInv
<1> QED  BY <1>1, <1>2, <1>3, <1>4, <1>5, <1>6, <1>7 DEF PlotNext

(* TradeBuilderAction::build, create_trade and the templates: the orders of
   every trade that is made stand in the order the trade needs, whatever the
   market did while it was clicked together.                               *)
THEOREM TradesMadeInOrder == PlotSpec => []TradesStandInOrder
<1>1. PlotIInv => TradesStandInOrder
  <2> SUFFICES ASSUME PlotIInv, NEW t \in Range(tracked) \cup ({pending} \ {NoTrade}) PROVE StandsInOrder(t)
    BY DEF TradesStandInOrder
  <2>1. CASE t = pending /\ pending # NoTrade
    BY <2>1 DEF PlotIInv
  <2>2. CASE t \in Range(tracked)
    <3>1. PICK i \in DOMAIN tracked : t = tracked[i]
      BY <2>2 DEF Range
    <3>2. PICK trades : tracked \in Seq(trades) /\ \A s \in trades : StandsInOrder(s)
      BY DEF PlotIInv
    <3> QED  BY <3>1, <3>2
  <2> QED  BY <2>1, <2>2
<1> QED  BY InitPlot, StepPlot, <1>1, PTL DEF PlotSpec

-----------------------------------------------------------------------------
(* What id.rs rests on, for every width of the fields: an order id is read
   back as it was packed, and moving its sequence number moves nothing else.
   The trader finds a trade by the handle, and the order that was replaced by
   the id before it (trader.rs, handle_order_event).                       *)

(* The numbers that fit each field. *)
Codes == 0 .. KindSpan - 1
SequenceNumbers == 0 .. SequenceSpan - 1
Uniques == 0 .. UniqueSpan - 1

(* A number that was shifted by n and filled up below comes back whole. *)
LEMMA DivIsUnique ==
    ASSUME NEW n \in Nat \ {0}, NEW a \in Nat, NEW b \in 0 .. n - 1
    PROVE  (a * n + b) \div n = a /\ (a * n + b) % n = b
BY SMT

(* The widths are positive. *)
LEMMA Widths == UniqueSpan \in Nat \ {0} /\ KindSpan \in Nat \ {0} /\ SequenceSpan \in Nat \ {0}
BY SmartIdAssumption, SMT DEF UniqueSpan, KindSpan

(* decode reads what new_order_id has packed. *)
LEMMA Unpacked ==
    ASSUME NEW h \in Nat, NEW c \in Codes, NEW s \in SequenceNumbers, NEW u \in Uniques
    PROVE  /\ Packed(h, c, s, u) \in Nat
           /\ HandleId(Packed(h, c, s, u)) = h
           /\ CodeBits(Packed(h, c, s, u)) = c
           /\ SequenceNumber(Packed(h, c, s, u)) = s
           /\ Packed(h, c, s, u) % UniqueSpan = u
<1> DEFINE hc == h * KindSpan + c
           hcs == hc * SequenceSpan + s
<1>1. hc \in Nat /\ hc \div KindSpan = h /\ hc % KindSpan = c
  <2>1. hc \in Nat
    BY Widths, SMT DEF Codes
  <2>2. h \in Nat /\ c \in 0 .. KindSpan - 1
    BY DEF Codes
  <2> QED BY <2>1, <2>2, Widths, DivIsUnique
<1>2. hcs \in Nat /\ hcs \div SequenceSpan = hc /\ hcs % SequenceSpan = s
  <2> HIDE DEF hc
  <2>1. hcs \in Nat
    BY <1>1, Widths, SMT DEF SequenceNumbers
  <2>2. s \in 0 .. SequenceSpan - 1
    BY DEF SequenceNumbers
  <2> QED BY <1>1, <2>1, <2>2, Widths, DivIsUnique
<1>3. /\ hcs * UniqueSpan + u \in Nat
      /\ (hcs * UniqueSpan + u) \div UniqueSpan = hcs
      /\ (hcs * UniqueSpan + u) % UniqueSpan = u
  <2> HIDE DEF hcs
  <2>1. hcs * UniqueSpan + u \in Nat
    BY <1>2, Widths, SMT DEF Uniques
  <2>2. u \in 0 .. UniqueSpan - 1
    BY DEF Uniques
  <2> QED BY <1>2, <2>1, <2>2, Widths, DivIsUnique
<1>4. Packed(h, c, s, u) = hcs * UniqueSpan + u
  BY DEF Packed
<1> HIDE DEF hcs, hc
<1> QED BY <1>1, <1>2, <1>3, <1>4 DEF HandleId, CodeBits, SequenceNumber

(* Every number is the packing of its own fields. *)
LEMMA Repacked ==
    ASSUME NEW id \in Nat
    PROVE  /\ HandleId(id) \in Nat /\ CodeBits(id) \in Codes
           /\ SequenceNumber(id) \in SequenceNumbers /\ id % UniqueSpan \in Uniques
           /\ Packed(HandleId(id), CodeBits(id), SequenceNumber(id), id % UniqueSpan) = id
<1> DEFINE top == id \div UniqueSpan
           tip == top \div SequenceSpan
<1>1. top \in Nat /\ id % UniqueSpan \in Uniques /\ top * UniqueSpan + (id % UniqueSpan) = id
  BY Widths, SMT DEF Uniques
<1>2. tip \in Nat /\ top % SequenceSpan \in SequenceNumbers /\ tip * SequenceSpan + (top % SequenceSpan) = top
  <2> HIDE DEF top
  <2> QED BY <1>1, Widths, SMT DEF SequenceNumbers
<1>3. /\ tip \div KindSpan \in Nat /\ tip % KindSpan \in Codes
      /\ (tip \div KindSpan) * KindSpan + (tip % KindSpan) = tip
  <2> HIDE DEF tip
  <2> QED BY <1>2, Widths, SMT DEF Codes
<1> QED BY <1>1, <1>2, <1>3 DEF Packed, HandleId, CodeBits, SequenceNumber

(* The four fields of an id with another sequence number. *)
LEMMA Resequenced ==
    ASSUME NEW id \in Nat, NEW s \in SequenceNumbers
    PROVE  /\ WithSequence(id, s) \in Nat
           /\ HandleId(WithSequence(id, s)) = HandleId(id)
           /\ CodeBits(WithSequence(id, s)) = CodeBits(id)
           /\ SequenceNumber(WithSequence(id, s)) = s
           /\ WithSequence(id, s) % UniqueSpan = id % UniqueSpan
BY Repacked, Unpacked DEF WithSequence

(* An order id of a trade leads back to the trade, to what the order is
   for and, with sequence number 0, to the confirmation of an opened order:
   new_order_id and decode agree whatever the clock and the counter are.   *)
THEOREM NewIdsAreRead ==
    ASSUME NEW h \in Nat, NEW kind \in DOMAIN KindCode, NEW now \in Nat, NEW counter \in Nat
    PROVE  /\ HandleId(NewOrderId(h, kind, now, counter)) = h
           /\ CodeBits(NewOrderId(h, kind, now, counter)) = KindCode[kind]
           /\ SequenceNumber(NewOrderId(h, kind, now, counter)) = 0
<1> DEFINE unique == (now % HalfSpan) * HalfSpan + (counter % HalfSpan)
<1>1. unique \in Uniques
  <2>1. now % HalfSpan \in 0 .. HalfSpan - 1 /\ counter % HalfSpan \in 0 .. HalfSpan - 1
    BY SmartIdAssumption, SMT
  <2>2. (now % HalfSpan) * HalfSpan <= (HalfSpan - 1) * HalfSpan
    BY <2>1, SmartIdAssumption, SMT
  <2> QED BY <2>1, <2>2, SmartIdAssumption, SMT DEF Uniques, UniqueSpan
<1>2. KindCode[kind] \in Codes
  BY SMT DEF KindCode, Codes, KindSpan
<1>3. 0 \in SequenceNumbers
  BY SmartIdAssumption, SMT DEF SequenceNumbers
<1>4. NewOrderId(h, kind, now, counter) = Packed(h, KindCode[kind], 0, unique)
  BY DEF NewOrderId
<1> HIDE DEF unique
<1> QED BY <1>1, <1>2, <1>3, <1>4, Unpacked

(* The id of a replacement belongs to the trade, the kind and the order it
   replaces, and the id before it is that of its original: the only way
   confirm_order_replaced has to find the order that waits for it.         *)
THEOREM ReplacementsAreFound ==
    ASSUME NEW id \in Nat, NewIncrementedId(id) # Overflow
    PROVE  /\ HandleId(NewIncrementedId(id)) = HandleId(id)
           /\ CodeBits(NewIncrementedId(id)) = CodeBits(id)
           /\ DecrementedId(NewIncrementedId(id)) = id
           /\ OriginalId(NewIncrementedId(id)) = OriginalId(id)
<1> DEFINE s == SequenceNumber(id)
           next == WithSequence(id, s + 1)
<1>1. s \in SequenceNumbers /\ s + 1 \in SequenceNumbers /\ s + 1 > 0 /\ (s + 1) - 1 = s
  <2>1. s \in SequenceNumbers
    BY Repacked
  <2>2. s + 1 < SequenceSpan
    BY DEF NewIncrementedId
  <2> HIDE DEF s
  <2> QED BY <2>1, <2>2, SmartIdAssumption, SMT DEF SequenceNumbers
<1>2. NewIncrementedId(id) = next
  BY DEF NewIncrementedId
<1>3. /\ next \in Nat /\ HandleId(next) = HandleId(id) /\ CodeBits(next) = CodeBits(id)
      /\ SequenceNumber(next) = s + 1 /\ next % UniqueSpan = id % UniqueSpan
  BY <1>1, Resequenced
<1>4. DecrementedId(next) = WithSequence(next, s)
  <2> HIDE DEF s, next
  <2> QED BY <1>1, <1>3 DEF DecrementedId
<1>5. WithSequence(next, s) = Packed(HandleId(id), CodeBits(id), s, id % UniqueSpan)
  <2> HIDE DEF s, next
  <2> QED BY <1>3 DEF WithSequence
<1>6. WithSequence(next, s) = id
  BY <1>5, Repacked
<1>7. OriginalId(next) = OriginalId(id)
  <2> HIDE DEF s, next
  <2> QED BY <1>3 DEF OriginalId, WithSequence
<1> HIDE DEF s, next
<1> QED BY <1>2, <1>3, <1>4, <1>6, <1>7
-----------------------------------------------------------------------------
(* The candles of the playground, for series of any capacity, frames of any
   factors, and base candles of however many ticks.                        *)
GenCandles == [open : Int, close : Int, main : BOOLEAN, final : BOOLEAN, volume : Int]
GenFedRecs == [pair : Seq(Int), alone : Seq(Int)]
GenSeriesRecs == [candles : Seq(GenCandles), states : Seq(GenCandles), working : GenCandles,
                  backup : GenCandles, next : GenCandles, index : Int, started : BOOLEAN, fed : GenFedRecs]

Lasts(k, x) == x \in GenCandles /\ x.open \in Nat /\ x.close = x.open + 2 * k - 1

(* Closed candles that adjoin, and a candle that comes after them. *)
Adjoin(k, q) ==
    /\ \A i \in DOMAIN q : Lasts(k, q[i]) /\ q[i].final
    /\ \A i \in 1 .. Len(q) - 1 : q[i + 1].open = NextOpen(k, q[i])

ComesAfter(k, q, x) == q # <<>> => x.open = NextOpen(k, q[Len(q)])

(* What was drawn: in order, each candle three times at most, and the last
   one d times at most.                                                    *)
Drawn(u, d) ==
    /\ Len(u) > 0
    /\ \A i \in 1 .. Len(u) - 3 : u[i] < u[i + 3]
    /\ \A i \in 1 .. Len(u) : u[i] <= u[Len(u)]
    /\ \A i \in 1 .. Len(u) - d : u[i] < u[Len(u)]

(* What the indicators took: in order, and up to a candle. *)
Ordered(e) == \A i, j \in DOMAIN e : i <= j => e[i] <= e[j]
Ate(e, o) == \E j \in DOMAIN e : e[j] = o
UpTo(e, o) == \A j \in DOMAIN e : e[j] <= o

Grown(k, s, e, u) ==
    /\ s \in GenSeriesRecs /\ e \in Seq(Int) /\ u \in Seq(Int)
    /\ Adjoin(k, s.candles)
    /\ Lasts(k, s.next) /\ ~s.next.final
    /\ s.working # Series!NoCandle => Lasts(k, s.working) /\ ComesAfter(k, s.candles, s.working)
    /\ Ordered(e)
    /\ \A i \in DOMAIN s.candles : Ate(e, s.candles[i].open)
    /\ Len(u) > 0 /\ u[Len(u)] = s.next.open

(* The working candle is open, and waits to be pushed once more. *)
Waits(s, e, u) ==
    /\ s.working # Series!NoCandle /\ ~s.working.final
    /\ s.next.open = s.working.open
    /\ \A j \in DOMAIN e : e[j] < s.working.open
    /\ Drawn(u, 3)

(* It is closed at the head of the series: its second push finds it there. *)
Ended(s, e, u) ==
    /\ s.working # Series!NoCandle /\ s.working.final
    /\ s.next.open = s.working.open
    /\ Ate(e, s.working.open) /\ UpTo(e, s.working.open)
    /\ Drawn(u, 3)

(* The candle after it waits. *)
Turns(k, s, e, u) ==
    /\ s.working # Series!NoCandle /\ s.working.final
    /\ s.next.open = NextOpen(k, s.working)
    /\ Ate(e, s.working.open) /\ UpTo(e, s.working.open)
    /\ Drawn(u, 1)

(* It was pushed, and the candle after it still waits: in the base frame. *)
Turned(k, s, e, u) ==
    /\ k = 1 /\ s.working = Series!NoCandle /\ s.candles # <<>>
    /\ s.next.open = NextOpen(k, s.candles[Len(s.candles)])
    /\ UpTo(e, s.candles[Len(s.candles)].open)
    /\ Drawn(u, 2)

Between(k, s, e, u) ==
    Grown(k, s, e, u) /\ (Waits(s, e, u) \/ Turns(k, s, e, u) \/ Turned(k, s, e, u))

GenFrameRecs == [series : GenSeriesRecs, ui : Seq(Int), observed : Int, fed : Seq(Int)]

GeneratorIInv ==
    /\ frame \in [GenFrames -> GenFrameRecs]
    /\ \A k \in GenFrames : Between(k, frame[k].series, frame[k].fed, frame[k].ui)

(* What the log keeps: the newest, and of what it had all but the oldest. *)
LEMMA GenKeepIs ==
    ASSUME NEW s \in Seq(GenCandles), NEW x \in GenCandles
    PROVE  /\ Series!KeepIn(s, x) \in Seq(GenCandles)
           /\ \E d \in {0, 1} :
                /\ Len(Series!KeepIn(s, x)) = Len(s) + 1 - d
                /\ Series!KeepIn(s, x)[Len(s) + 1 - d] = x
                /\ \A i \in 1 .. Len(s) - d : i + d \in 1 .. Len(s) /\ Series!KeepIn(s, x)[i] = s[i + d]
                /\ d = 1 => Len(s) >= 2
<1> DEFINE p == Series!KeepIn(s, x)
<1>1. p = IF Len(s) < GenCapacity THEN Append(s, x) ELSE Append(Tail(s), x)
  BY DEF Series!KeepIn, Series!Kept!Keep
<1>2. GenCapacity \in Nat /\ GenCapacity >= 2 /\ Len(s) \in Nat
  BY GeneratorAssumption
<1> HIDE DEF p
<1>3. CASE Len(s) < GenCapacity
  <2>1. p = Append(s, x)
    BY <1>1, <1>3
  <2>2. /\ Append(s, x) \in Seq(GenCandles) /\ Len(Append(s, x)) = Len(s) + 1 - 0
        /\ Append(s, x)[Len(s) + 1 - 0] = x
        /\ \A i \in 1 .. Len(s) - 0 : i + 0 \in 1 .. Len(s) /\ Append(s, x)[i] = s[i + 0]
    BY <1>2
  <2> QED BY <2>1, <2>2 DEF p
<1>4. CASE Len(s) >= GenCapacity
  <2>1. p = Append(Tail(s), x)
    BY <1>1, <1>2, <1>4
  <2>2. s # <<>> /\ Len(s) >= 2
    BY <1>2, <1>4
  <2>3. Tail(s) \in Seq(GenCandles) /\ Len(Tail(s)) = Len(s) - 1 /\ \A i \in 1 .. Len(s) - 1 : Tail(s)[i] = s[i + 1]
    BY <2>2
  <2> DEFINE u == Tail(s)
  <2>4. /\ Append(u, x) \in Seq(GenCandles) /\ Len(Append(u, x)) = Len(u) + 1
        /\ Append(u, x)[Len(u) + 1] = x
        /\ \A i \in 1 .. Len(u) : Append(u, x)[i] = u[i]
    BY <2>3
  <2>5. /\ Append(u, x) \in Seq(GenCandles) /\ Len(Append(u, x)) = Len(s) + 1 - 1
        /\ Append(u, x)[Len(s) + 1 - 1] = x
        /\ \A i \in 1 .. Len(s) - 1 : i + 1 \in 1 .. Len(s) /\ Append(u, x)[i] = s[i + 1]
    BY <1>2, <2>3, <2>4
  <2> QED BY <2>1, <2>2, <2>5 DEF p
<1> QED BY <1>2, <1>3, <1>4

(* A candle that comes after the others is kept after them. *)
LEMMA AdjoinKeeps ==
    ASSUME NEW k, NEW q \in Seq(GenCandles), Adjoin(k, q),
           NEW x, Lasts(k, x), x.final, ComesAfter(k, q, x)
    PROVE  LET p == Series!KeepIn(q, x)
           IN  /\ p \in Seq(GenCandles) /\ Adjoin(k, p) /\ p # <<>> /\ p[Len(p)] = x
               /\ \A i \in DOMAIN p : p[i] = x \/ \E j \in DOMAIN q : p[i] = q[j]
<1> DEFINE p == Series!KeepIn(q, x)
<1>1. x \in GenCandles /\ Len(q) \in Nat /\ DOMAIN q = 1 .. Len(q)
  BY DEF Lasts
<1>2. p \in Seq(GenCandles)
  BY <1>1, GenKeepIs
<1>3. PICK d \in {0, 1} :
         /\ Len(p) = Len(q) + 1 - d
         /\ p[Len(q) + 1 - d] = x
         /\ \A i \in 1 .. Len(q) - d : i + d \in 1 .. Len(q) /\ p[i] = q[i + d]
         /\ d = 1 => Len(q) >= 2
  BY <1>1, GenKeepIs
<1> HIDE DEF p
<1>4. Len(p) \in Nat \ {0} /\ DOMAIN p = 1 .. Len(p) /\ p[Len(p)] = x /\ p # <<>>
  BY <1>1, <1>2, <1>3
<1>5. \A i \in 1 .. Len(p) : i = Len(p) \/ i \in 1 .. Len(q) - d
  BY <1>1, <1>3
<1>6. \A i \in DOMAIN p : p[i] = x \/ \E j \in DOMAIN q : p[i] = q[j]
  BY <1>1, <1>3, <1>4, <1>5
<1>7. \A i \in DOMAIN p : Lasts(k, p[i]) /\ p[i].final
  BY <1>6 DEF Adjoin
<1>8. ASSUME NEW i \in 1 .. Len(p) - 1 PROVE p[i + 1].open = NextOpen(k, p[i])
  <2>1. i \in 1 .. Len(q) - d /\ i + d \in 1 .. Len(q) /\ p[i] = q[i + d] /\ i + 1 \in 1 .. Len(p)
    BY <1>1, <1>3, <1>4
  <2>2. CASE i + 1 = Len(p)
    <3>1. i + d = Len(q) /\ q # <<>>
      <4> DEFINE n == Len(q)
                 m == Len(p)
      <4>1. n \in Nat /\ m = n + 1 - d /\ i \in Int /\ i + 1 = m /\ i + d \in 1 .. n
        BY <1>1, <1>3, <2>1, <2>2
      <4> HIDE DEF n, m
      <4>2. i + d = n /\ n # 0
        BY <4>1
      <4>3. q # <<>>
        BY <4>2 DEF n
      <4> QED BY <4>2, <4>3 DEF n
    <3> QED BY <1>4, <2>1, <2>2, <3>1 DEF ComesAfter
  <2>3. CASE i + 1 # Len(p)
    <3>1. i + 1 \in 1 .. Len(q) - d /\ (i + 1) + d = (i + d) + 1 /\ i + d \in 1 .. Len(q) - 1
      BY <1>1, <1>3, <1>4, <2>1, <2>3
    <3>2. p[i + 1] = q[(i + 1) + d]
      <4> DEFINE m == i + 1
      <4>1. m \in 1 .. Len(q) - d
        BY <3>1
      <4> HIDE DEF m
      <4>2. p[m] = q[m + d]
        BY <1>3, <4>1
      <4> QED BY <4>2 DEF m
    <3> QED BY <2>1, <3>1, <3>2 DEF Adjoin
  <2> QED BY <2>2, <2>3
<1>9. Adjoin(k, p)
  BY <1>7, <1>8 DEF Adjoin
<1> QED BY <1>2, <1>4, <1>6, <1>9 DEF p

(* The candles of a series are not what its indicators are computed from to
   change: compute leaves them.                                            *)
LEMMA GenNone == Series!NoCandle \in GenCandles /\ Series!NoCandle.open = 0 - 1
                 /\ Series!NoCandle.close = 0 - 1 /\ ~Series!NoCandle.final
BY DEF Series!NoCandle, GenCandles

LEMMA GenHeadIs ==
    ASSUME NEW s \in GenSeriesRecs
    PROVE  /\ Series!HeadCandle(s) \in GenCandles
           /\ s.working # Series!NoCandle => Series!HeadCandle(s) = s.working
           /\ s.working = Series!NoCandle /\ s.candles # <<>> =>
                Series!HeadCandle(s) = s.candles[Len(s.candles)]
<1>1. s.working \in GenCandles /\ s.candles \in Seq(GenCandles)
  BY DEF GenSeriesRecs
<1>2. CASE s.working # Series!NoCandle
  BY <1>1, <1>2 DEF Series!HeadCandle
<1>3. CASE s.working = Series!NoCandle /\ s.candles # <<>>
  <2>1. Len(s.candles) \in DOMAIN s.candles
    BY <1>1, <1>3
  <2>2. s.candles[Len(s.candles)] \in GenCandles
    BY <1>1, <2>1
  <2>3. Series!HeadCandle(s) = s.candles[Len(s.candles)]
    BY <1>3 DEF Series!HeadCandle, Series!LastFinalized, Series!Last
  <2> QED BY <1>3, <2>2, <2>3
<1>4. CASE s.working = Series!NoCandle /\ s.candles = <<>>
  <2>1. Series!HeadCandle(s) = Series!NoCandle
    BY <1>4 DEF Series!HeadCandle, Series!LastFinalized
  <2> QED BY <1>4, <2>1, GenNone
<1> QED BY <1>2, <1>3, <1>4

LEMMA GenReadyIs ==
    ASSUME NEW s \in GenSeriesRecs
    PROVE  LET r == Series!InitializeWorkingState(s)
           IN  r \in GenSeriesRecs /\ r.candles = s.candles /\ r.working = s.working /\ r.next = s.next
<1> DEFINE r == Series!InitializeWorkingState(s)
           q == s.candles
<1>1. q \in Seq(GenCandles) /\ Len(q) \in Nat /\ DOMAIN q = 1 .. Len(q)
  BY DEF GenSeriesRecs
<1>2. CASE s.started \/ Series!NumCandles(s) < 3
  <2>1. r = s
    BY <1>2 DEF Series!InitializeWorkingState
  <2> QED BY <2>1
<1>3. CASE ~(s.started \/ Series!NumCandles(s) < 3)
  <2>1. Len(q) >= 2
    <3>1. Series!NumCandles(s) = Len(q) + 1 \/ Series!NumCandles(s) = Len(q)
      <4>1. CASE s.working = Series!NoCandle
        <5>1. Series!NumCandles(s) = Len(q) + 0
          BY <4>1 DEF Series!NumCandles
        <5> QED BY <1>1, <5>1
      <4>2. CASE s.working # Series!NoCandle
        BY <4>2 DEF Series!NumCandles
      <4> QED BY <4>1, <4>2
    <3> HIDE DEF q
    <3> QED BY <1>1, <1>3, <3>1
  <2>2. q[1] \in GenCandles /\ q[2] \in GenCandles
    <3>1. 1 \in 1 .. Len(q) /\ 2 \in 1 .. Len(q)
      BY <1>1, <2>1
    <3> QED BY <1>1, <3>1
  <2> DEFINE f == [pair |-> <<q[1].open, q[2].open>>, alone |-> <<q[1].open>>]
             a == [s EXCEPT !.started = TRUE]
  <2>3. f \in GenFedRecs
    <3>1. <<q[1].open, q[2].open>> \in Seq(Int) /\ <<q[1].open>> \in Seq(Int)
      BY <2>2 DEF GenCandles
    <3> QED BY <3>1 DEF GenFedRecs
  <2>4. r = [a EXCEPT !.fed = f]
    BY <1>3 DEF Series!InitializeWorkingState, Series!WorkingState
  <2>5. a \in GenSeriesRecs /\ a.candles = s.candles /\ a.working = s.working /\ a.next = s.next
    BY DEF GenSeriesRecs
  <2> HIDE DEF a, f, r, q
  <2>6. r \in GenSeriesRecs /\ r.candles = s.candles /\ r.working = s.working /\ r.next = s.next
    BY <2>3, <2>4, <2>5 DEF GenSeriesRecs
  <2> QED BY <2>6 DEF r
<1> QED BY <1>2, <1>3

LEMMA GenFeedIs ==
    ASSUME NEW s \in GenSeriesRecs
    PROVE  LET r == Series!Feed(s)
           IN  r \in GenSeriesRecs /\ r.candles = s.candles /\ r.working = s.working /\ r.next = s.next
<1> DEFINE h == Series!HeadCandle(s)
           fp == Append(s.fed.pair, h.open)
           fa == Append(s.fed.alone, h.open)
           f == [pair |-> fp, alone |-> fa]
           r == Series!Feed(s)
<1>1. h.open \in Int
  BY GenHeadIs DEF GenCandles
<1>2. f \in GenFedRecs
  <2>1. fp \in Seq(Int) /\ fa \in Seq(Int)
    BY <1>1 DEF GenSeriesRecs, GenFedRecs
  <2> HIDE DEF fp, fa
  <2> QED BY <2>1 DEF GenFedRecs
<1>3. r = IF h.final THEN [s EXCEPT !.fed = f] ELSE s
  BY DEF Series!Feed
<1> HIDE DEF f, r, h
<1>4. r \in GenSeriesRecs /\ r.candles = s.candles /\ r.working = s.working /\ r.next = s.next
  BY <1>2, <1>3 DEF GenSeriesRecs
<1> QED BY <1>4 DEF r

LEMMA GenKeepStateIs ==
    ASSUME NEW s \in GenSeriesRecs
    PROVE  LET r == Series!KeepState(s)
           IN  r \in GenSeriesRecs /\ r.candles = s.candles /\ r.working = s.working /\ r.next = s.next
<1> DEFINE h == Series!HeadCandle(s)
           v == s.states
           new == IF h.final \/ v = <<>> THEN Series!KeepIn(v, h) ELSE Series!ReplaceAt(v, Len(v), h)
           r == Series!KeepState(s)
<1>1. h \in GenCandles /\ v \in Seq(GenCandles)
  BY GenHeadIs DEF GenSeriesRecs
<1>2. Series!KeepIn(v, h) \in Seq(GenCandles)
  BY <1>1, GenKeepIs
<1>3. ASSUME v # <<>> PROVE Series!ReplaceAt(v, Len(v), h) \in Seq(GenCandles)
  <2>1. Series!ReplaceAt(v, Len(v), h) = [v EXCEPT ![Len(v)] = h]
    BY DEF Series!ReplaceAt
  <2>2. Len(v) \in 1 .. Len(v)
    BY <1>1, <1>3
  <2> HIDE DEF v, h
  <2> QED BY <1>1, <2>1, <2>2
<1>4. new \in Seq(GenCandles)
  BY <1>2, <1>3
<1>5. r = [s EXCEPT !.states = new]
  BY DEF Series!KeepState
<1> HIDE DEF new, r
<1>6. r \in GenSeriesRecs /\ r.candles = s.candles /\ r.working = s.working /\ r.next = s.next
  BY <1>4, <1>5 DEF GenSeriesRecs
<1> QED BY <1>6 DEF r

(* compute changes what the indicators are, and no candle. *)
LEMMA GenComputeIs ==
    ASSUME NEW s \in GenSeriesRecs
    PROVE  /\ Series!Compute(s) \in GenSeriesRecs
           /\ Series!Compute(s).candles = s.candles /\ Series!Compute(s).working = s.working
           /\ Series!Compute(s).next = s.next
<1> DEFINE a == Series!InitializeWorkingState(s)
           b == Series!Feed(a)
           c == Series!KeepState(b)
<1>1. a \in GenSeriesRecs /\ a.candles = s.candles /\ a.working = s.working /\ a.next = s.next
  BY GenReadyIs
<1>2. b \in GenSeriesRecs /\ b.candles = a.candles /\ b.working = a.working /\ b.next = a.next
  BY <1>1, GenFeedIs
<1>3. c \in GenSeriesRecs /\ c.candles = b.candles /\ c.working = b.working /\ c.next = b.next
  BY <1>2, GenKeepStateIs
<1>4. Series!Compute(s) = s \/ Series!Compute(s) = c
  BY DEF Series!Compute
<1> HIDE DEF a, b, c
<1> QED BY <1>1, <1>2, <1>3, <1>4

(* The candle at the head is changed where it is. *)
LEMMA SetHeadIs ==
    ASSUME NEW s \in GenSeriesRecs, NEW h \in GenCandles, h # Series!NoCandle
    PROVE  /\ s.working # Series!NoCandle =>
                /\ SetHead(s, h) \in GenSeriesRecs /\ SetHead(s, h).candles = s.candles
                /\ SetHead(s, h).working = h /\ SetHead(s, h).next = s.next
           /\ s.working = Series!NoCandle /\ s.candles # <<>> =>
                /\ SetHead(s, h) \in GenSeriesRecs
                /\ SetHead(s, h).candles = [s.candles EXCEPT ![Len(s.candles)] = h]
                /\ SetHead(s, h).working = Series!NoCandle /\ SetHead(s, h).next = s.next
<1> DEFINE r == SetHead(s, h)
<1>1. CASE s.working # Series!NoCandle
  <2>1. r = [s EXCEPT !.working = h]
    BY <1>1 DEF SetHead
  <2> HIDE DEF r
  <2>2. r \in GenSeriesRecs /\ r.candles = s.candles /\ r.working = h /\ r.next = s.next
    BY <2>1 DEF GenSeriesRecs
  <2> QED BY <1>1, <2>2 DEF r
<1>2. CASE s.working = Series!NoCandle /\ s.candles # <<>>
  <2> DEFINE q == s.candles
             p == [q EXCEPT ![Len(q)] = h]
  <2>1. r = [s EXCEPT !.candles = p]
    BY <1>2 DEF SetHead
  <2>2. q \in Seq(GenCandles)
    BY DEF GenSeriesRecs
  <2>3. p \in Seq(GenCandles)
    <3>1. Len(q) \in 1 .. Len(q)
      BY <1>2, <2>2
    <3> HIDE DEF q
    <3> QED BY <2>2, <3>1
  <2> HIDE DEF r, p
  <2>4. r \in GenSeriesRecs /\ r.candles = p /\ r.working = s.working /\ r.next = s.next
    BY <2>1, <2>3 DEF GenSeriesRecs
  <2> QED BY <1>2, <2>4 DEF r, p
<1> QED BY <1>1, <1>2

(* A candle of a frame opens later than the one before it. *)
LEMMA NextOpenIs ==
    ASSUME NEW k \in GenFrames, NEW x, Lasts(k, x)
    PROVE  /\ NextOpen(k, x) \in Nat /\ x.open < NextOpen(k, x) /\ x.close <= NextOpen(k, x)
           /\ x.close \in Nat /\ x.open \in Nat /\ x.open < x.close
           /\ IF k = 1 THEN NextOpen(k, x) > x.close ELSE NextOpen(k, x) = x.close
           /\ x # Series!NoCandle /\ x \in GenCandles
<1>1. k \in Nat /\ k >= 1
  BY GeneratorAssumption DEF GenFrames
<1>2. x.open \in Nat /\ x.close = x.open + 2 * k - 1 /\ x \in GenCandles
  BY DEF Lasts
<1>3. x.close \in Nat /\ x.open < x.close
  BY <1>1, <1>2
<1>4. x # Series!NoCandle
  BY <1>2, GenNone
<1>5. CASE k = 1
  BY <1>2, <1>3, <1>4, <1>5 DEF NextOpen
<1>6. CASE k # 1
  BY <1>2, <1>3, <1>4, <1>6 DEF NextOpen
<1> QED BY <1>5, <1>6

LEMMA GenCandleIs ==
    ASSUME NEW k \in GenFrames, NEW o \in Nat, NEW v \in Int
    PROVE  Lasts(k, GenCandle(k, o, v)) /\ GenCandle(k, o, v).open = o /\ ~GenCandle(k, o, v).final
<1> DEFINE c == GenCandle(k, o, v)
           e == o + 2 * k - 1
<1>1. k \in Nat
  BY GeneratorAssumption DEF GenFrames
<1>2. e \in Int
  BY <1>1
<1>3. c = [open |-> o, close |-> e, main |-> TRUE, final |-> FALSE, volume |-> v]
  BY DEF GenCandle, Series!Candle
<1> HIDE DEF c, e
<1>4. c \in GenCandles /\ c.open = o /\ c.close = e /\ ~c.final
  BY <1>2, <1>3 DEF GenCandles
<1>5. Lasts(k, c)
  BY <1>4 DEF Lasts, e
<1> QED BY <1>4, <1>5 DEF c

(* What is drawn once more, and what is drawn after all that was. *)
LEMMA DrawnAgain ==
    ASSUME NEW u \in Seq(Int), NEW d \in {1, 2}, Drawn(u, d)
    PROVE  /\ Drawn(Append(u, u[Len(u)]), d + 1) /\ Append(u, u[Len(u)]) \in Seq(Int)
           /\ Append(u, u[Len(u)])[Len(Append(u, u[Len(u)]))] = u[Len(u)]
<1> DEFINE n == Len(u)
           a == u[Len(u)]
           p == Append(u, a)
<1>1. n \in Nat /\ n > 0 /\ \A i \in 1 .. n : u[i] \in Int
  BY DEF Drawn
<1>2. a \in Int
  <2>1. n \in 1 .. n
    BY <1>1
  <2> QED BY <1>1, <2>1
<1>3. /\ \A i \in 1 .. n - 3 : u[i] < u[i + 3]
      /\ \A i \in 1 .. n : u[i] <= a
      /\ \A i \in 1 .. n - d : u[i] < a
  BY DEF Drawn
<1> HIDE DEF a
<1>4. p \in Seq(Int) /\ Len(p) = n + 1 /\ p[n + 1] = a /\ \A i \in 1 .. n : p[i] = u[i]
  BY <1>2
<1> HIDE DEF p, n
<1>5. ASSUME NEW i \in 1 .. (n + 1) - 3 PROVE p[i] < p[i + 3]
  <2>1. i \in 1 .. n
    BY <1>1
  <2>2. CASE i + 3 = n + 1
    <3>1. i \in 1 .. n - d
      BY <1>1, <2>2
    <3> QED BY <1>3, <1>4, <2>1, <2>2, <3>1
  <2>3. CASE i + 3 # n + 1
    <3>1. i \in 1 .. n - 3 /\ i + 3 \in 1 .. n
      BY <1>1, <2>3
    <3> QED BY <1>3, <1>4, <2>1, <3>1
  <2> QED BY <2>2, <2>3
<1>6. ASSUME NEW i \in 1 .. n + 1 PROVE p[i] <= a
  <2>1. CASE i = n + 1
    BY <1>2, <1>4, <2>1
  <2>2. CASE i # n + 1
    <3>1. i \in 1 .. n
      BY <1>1, <2>2
    <3> QED BY <1>3, <1>4, <3>1
  <2> QED BY <2>1, <2>2
<1>7. ASSUME NEW i \in 1 .. (n + 1) - (d + 1) PROVE p[i] < a
  <2>1. i \in 1 .. n - d /\ i \in 1 .. n
    BY <1>1
  <2> QED BY <1>3, <1>4, <2>1
<1>8. Len(p) > 0 /\ p[Len(p)] = a
  BY <1>1, <1>4
<1>9. Drawn(p, d + 1)
  BY <1>4, <1>5, <1>6, <1>7, <1>8 DEF Drawn
<1> QED BY <1>4, <1>8, <1>9 DEF p, a

LEMMA DrawnAfter ==
    ASSUME NEW u \in Seq(Int), Drawn(u, 3), NEW a \in Int, u[Len(u)] < a
    PROVE  /\ Drawn(Append(u, a), 1) /\ Append(u, a) \in Seq(Int)
           /\ Append(u, a)[Len(Append(u, a))] = a
<1> DEFINE n == Len(u)
           p == Append(u, a)
<1>1. n \in Nat /\ n > 0 /\ \A i \in 1 .. n : u[i] \in Int
  BY DEF Drawn
<1>2. u[n] \in Int
  <2>1. n \in 1 .. n
    BY <1>1
  <2> QED BY <1>1, <2>1
<1>3. /\ \A i \in 1 .. n - 3 : u[i] < u[i + 3]
      /\ \A i \in 1 .. n : u[i] <= u[n]
  BY DEF Drawn
<1>4. p \in Seq(Int) /\ Len(p) = n + 1 /\ p[n + 1] = a /\ \A i \in 1 .. n : p[i] = u[i]
  OBVIOUS
<1>5. u[n] < a
  OBVIOUS
<1> HIDE DEF p, n
<1>6. \A i \in 1 .. n : p[i] < a
  BY <1>1, <1>2, <1>3, <1>4, <1>5
<1>7. ASSUME NEW i \in 1 .. (n + 1) - 3 PROVE p[i] < p[i + 3]
  <2>1. i \in 1 .. n
    BY <1>1
  <2>2. CASE i + 3 = n + 1
    BY <1>4, <1>6, <2>1, <2>2
  <2>3. CASE i + 3 # n + 1
    <3>1. i \in 1 .. n - 3 /\ i + 3 \in 1 .. n
      BY <1>1, <2>3
    <3> QED BY <1>3, <1>4, <2>1, <3>1
  <2> QED BY <2>2, <2>3
<1>8. ASSUME NEW i \in 1 .. n + 1 PROVE p[i] <= a
  <2>1. CASE i = n + 1
    BY <1>4, <2>1
  <2>2. CASE i # n + 1
    <3>1. i \in 1 .. n
      BY <1>1, <2>2
    <3>2. p[i] \in Int /\ p[i] < a
      BY <1>1, <1>4, <1>6, <3>1
    <3> QED BY <3>2
  <2> QED BY <2>1, <2>2
<1>9. ASSUME NEW i \in 1 .. (n + 1) - 1 PROVE p[i] < a
  <2>1. i \in 1 .. n
    BY <1>1
  <2> QED BY <1>6, <2>1
<1>10. Len(p) > 0 /\ p[Len(p)] = a
  BY <1>1, <1>4
<1>11. Drawn(p, 1)
  BY <1>4, <1>7, <1>8, <1>9, <1>10 DEF Drawn
<1> QED BY <1>4, <1>10, <1>11 DEF p

(* What is taken after all that was taken. *)
LEMMA EatsMore ==
    ASSUME NEW e \in Seq(Int), Ordered(e), NEW o \in Int, UpTo(e, o)
    PROVE  LET p == Append(e, o)
           IN  /\ p \in Seq(Int) /\ Ordered(p) /\ Ate(p, o) /\ UpTo(p, o)
               /\ \A a : Ate(e, a) => Ate(p, a)
<1> DEFINE n == Len(e)
           p == Append(e, o)
<1>1. n \in Nat /\ DOMAIN e = 1 .. n
  OBVIOUS
<1>2. p \in Seq(Int) /\ Len(p) = n + 1 /\ DOMAIN p = 1 .. n + 1 /\ p[n + 1] = o /\ \A i \in 1 .. n : p[i] = e[i]
  BY <1>1
<1>3. \A i \in 1 .. n + 1 : i = n + 1 \/ i \in 1 .. n
  BY <1>1
<1> HIDE DEF p, n
<1>4. UpTo(p, o)
  BY <1>1, <1>2, <1>3 DEF UpTo
<1>5. Ordered(p)
  <2> SUFFICES ASSUME NEW i \in 1 .. n + 1, NEW j \in 1 .. n + 1, i <= j PROVE p[i] <= p[j]
    BY <1>2 DEF Ordered
  <2>1. CASE j = n + 1
    BY <1>2, <1>4, <2>1 DEF UpTo
  <2>2. CASE j # n + 1
    <3>1. i \in 1 .. n /\ j \in 1 .. n
      BY <1>1, <2>2
    <3> QED BY <1>1, <1>2, <3>1 DEF Ordered
  <2> QED BY <2>1, <2>2
<1>6. n + 1 \in 1 .. n + 1 /\ \A i \in 1 .. n : i \in 1 .. n + 1
  BY <1>1
<1>7. Ate(p, o)
  BY <1>2, <1>6 DEF Ate
<1>8. \A a : Ate(e, a) => Ate(p, a)
  BY <1>1, <1>2, <1>6 DEF Ate
<1> QED BY <1>2, <1>4, <1>5, <1>7, <1>8 DEF p

(* Taking more leaves what grew as it is. *)
LEMMA GrownFed ==
    ASSUME NEW k, NEW s, NEW e, NEW u, Grown(k, s, e, u),
           NEW p \in Seq(Int), Ordered(p), \A a : Ate(e, a) => Ate(p, a)
    PROVE  Grown(k, s, p, u)
BY DEF Grown

(* The head is replaced by a candle of the same time. *)
LEMMA HeadChanged ==
    ASSUME NEW k \in GenFrames, NEW s, NEW e, NEW u, Grown(k, s, e, u),
           NEW h \in GenCandles, h.open = Series!HeadCandle(s).open, h.close = Series!HeadCandle(s).close,
           s.working # Series!NoCandle \/ (s.candles # <<>> /\ h.final)
    PROVE  LET r == SetHead(s, h)
           IN  /\ Grown(k, r, e, u) /\ r.next = s.next /\ Lasts(k, h)
               /\ s.working # Series!NoCandle => r.working = h /\ h # Series!NoCandle
               /\ s.working = Series!NoCandle =>
                    /\ r.working = Series!NoCandle /\ r.candles # <<>>
                    /\ r.candles[Len(r.candles)] = h
                    /\ s.candles # <<>> /\ Series!HeadCandle(s) = s.candles[Len(s.candles)]
<1> DEFINE r == SetHead(s, h)
           q == s.candles
           H == Series!HeadCandle(s)
<1>1. /\ s \in GenSeriesRecs /\ Adjoin(k, q) /\ q \in Seq(GenCandles)
      /\ s.working # Series!NoCandle => Lasts(k, s.working) /\ ComesAfter(k, q, s.working)
  BY DEF Grown, GenSeriesRecs
<1>2. /\ s.working # Series!NoCandle => H = s.working
      /\ s.working = Series!NoCandle => q # <<>> /\ H = q[Len(q)]
  BY <1>1, GenHeadIs
<1>3. Lasts(k, H)
  <2>1. CASE s.working # Series!NoCandle
    BY <1>1, <1>2, <2>1
  <2>2. CASE s.working = Series!NoCandle
    <3>1. Len(q) \in DOMAIN q
      BY <1>1, <1>2, <2>2
    <3> QED BY <1>1, <1>2, <2>2, <3>1 DEF Adjoin
  <2> QED BY <2>1, <2>2
<1>4. Lasts(k, h)
  BY <1>3 DEF Lasts
<1>5. h # Series!NoCandle
  BY <1>4, NextOpenIs
<1>6. CASE s.working # Series!NoCandle
  <2>1. r \in GenSeriesRecs /\ r.candles = q /\ r.working = h /\ r.next = s.next
    BY <1>1, <1>5, <1>6, SetHeadIs
  <2>2. ComesAfter(k, q, h)
    BY <1>1, <1>2, <1>6 DEF ComesAfter
  <2> HIDE DEF r, q
  <2>3. Grown(k, r, e, u)
    BY <1>4, <2>1, <2>2 DEF Grown, q
  <2> QED BY <1>4, <1>5, <1>6, <2>1, <2>3 DEF r
<1>7. CASE s.working = Series!NoCandle
  <2> DEFINE p == [q EXCEPT ![Len(q)] = h]
             n == Len(q)
  <2>1. r \in GenSeriesRecs /\ r.candles = p /\ r.working = Series!NoCandle /\ r.next = s.next
    BY <1>1, <1>2, <1>5, <1>7, SetHeadIs
  <2>2. n \in Nat /\ n > 0 /\ DOMAIN q = 1 .. n
    BY <1>1, <1>2, <1>7
  <2>3. p \in Seq(GenCandles) /\ Len(p) = n /\ p[n] = h /\ DOMAIN p = 1 .. n
        /\ \A i \in 1 .. n : i # n => p[i] = q[i]
    <3>1. n \in 1 .. n
      BY <2>2
    <3> HIDE DEF q
    <3> QED BY <1>1, <2>2, <3>1
  <2>4. h.final /\ h.open = q[n].open /\ q[n].final
    <3>1. n \in DOMAIN q
      BY <2>2
    <3> QED BY <1>1, <1>2, <1>7, <3>1 DEF Adjoin
  <2> HIDE DEF p, n, q, H
  <2>5. \A i \in 1 .. n : p[i].open = q[i].open
    BY <2>3, <2>4
  <2>6. \A i \in 1 .. n : Lasts(k, p[i]) /\ p[i].final
    BY <1>1, <1>4, <2>2, <2>3, <2>4 DEF Adjoin
  <2>7. ASSUME NEW i \in 1 .. n - 1 PROVE p[i + 1].open = NextOpen(k, p[i])
    <3>1. i \in 1 .. n /\ i + 1 \in 1 .. n /\ i # n
      BY <2>2
    <3>2. q[i + 1].open = NextOpen(k, q[i])
      BY <1>1 DEF Adjoin, n
    <3> QED BY <2>3, <2>5, <3>1, <3>2
  <2>8. Adjoin(k, p)
    BY <2>3, <2>6, <2>7 DEF Adjoin
  <2>9. \A i \in 1 .. n : Ate(e, p[i].open)
    BY <2>2, <2>5 DEF Grown, q
  <2>10. Grown(k, r, e, u)
    BY <2>1, <2>3, <2>8, <2>9 DEF Grown
  <2>11. r.candles # <<>> /\ r.candles[Len(r.candles)] = h
    BY <2>1, <2>2, <2>3
  <2> QED BY <1>2, <1>4, <1>7, <2>1, <2>10, <2>11 DEF r, q, H
<1> QED BY <1>6, <1>7

(* The head is closed and taken by the indicators. *)
LEMMA HeadFed ==
    ASSUME NEW k \in GenFrames, NEW s, NEW e, NEW u, Between(k, s, e, u),
           NEW h \in GenCandles, h.open = Series!HeadCandle(s).open, h.close = Series!HeadCandle(s).close,
           h.final
    PROVE  LET r == SetHead(s, h)
               p == Append(e, h.open)
           IN  /\ Grown(k, r, p, u) /\ p \in Seq(Int) /\ Lasts(k, h)
               /\ \/ Waits(s, e, u) /\ Ended(r, p, u) /\ r.working = h
                  \/ Turns(k, r, p, u) /\ r.working = h
                  \/ Turned(k, r, p, u) /\ r.candles[Len(r.candles)] = h
<1> DEFINE r == SetHead(s, h)
           p == Append(e, h.open)
           H == Series!HeadCandle(s)
<1>1. /\ Grown(k, s, e, u) /\ s \in GenSeriesRecs /\ e \in Seq(Int) /\ Ordered(e)
      /\ Waits(s, e, u) \/ Turns(k, s, e, u) \/ Turned(k, s, e, u)
  BY DEF Between, Grown
<1>2. s.working # Series!NoCandle \/ (s.candles # <<>> /\ h.final)
  BY <1>1 DEF Waits, Turns, Turned
<1>3. /\ Grown(k, r, e, u) /\ r.next = s.next /\ Lasts(k, h)
      /\ s.working # Series!NoCandle => r.working = h /\ h # Series!NoCandle
      /\ s.working = Series!NoCandle =>
            /\ r.working = Series!NoCandle /\ r.candles # <<>>
            /\ r.candles[Len(r.candles)] = h
            /\ s.candles # <<>> /\ Series!HeadCandle(s) = s.candles[Len(s.candles)]
  BY <1>1, <1>2, HeadChanged
<1>4. s.working # Series!NoCandle => H = s.working
  BY <1>1, GenHeadIs
<1>5. h.open \in Int /\ NextOpen(k, h) = NextOpen(k, H)
  BY DEF GenCandles, NextOpen
<1>6. UpTo(e, h.open)
  <2>1. CASE Waits(s, e, u)
    <3>1. \A j \in DOMAIN e : e[j] < h.open /\ e[j] \in Int
      BY <1>1, <1>4, <2>1 DEF Waits
    <3> QED BY <1>5, <3>1 DEF UpTo
  <2>2. CASE Turns(k, s, e, u)
    BY <1>4, <2>2 DEF Turns
  <2>3. CASE Turned(k, s, e, u)
    BY <1>3, <2>3 DEF Turned
  <2> QED BY <1>1, <2>1, <2>2, <2>3
<1>7. p \in Seq(Int) /\ Ordered(p) /\ Ate(p, h.open) /\ UpTo(p, h.open) /\ \A a : Ate(e, a) => Ate(p, a)
  BY <1>1, <1>5, <1>6, EatsMore
<1> HIDE DEF r, p, H
<1>8. Grown(k, r, p, u)
  BY <1>3, <1>7, GrownFed
<1>9. CASE Waits(s, e, u)
  <2>1. Ended(r, p, u) /\ r.working = h
    BY <1>3, <1>4, <1>7, <1>9 DEF Waits, Ended, H
  <2> QED BY <1>3, <1>7, <1>8, <1>9, <2>1 DEF r, p
<1>10. CASE Turns(k, s, e, u)
  <2>1. Turns(k, r, p, u) /\ r.working = h
    BY <1>3, <1>4, <1>5, <1>7, <1>10 DEF Turns
  <2> QED BY <1>3, <1>7, <1>8, <2>1 DEF r, p
<1>11. CASE Turned(k, s, e, u)
  <2>1. Turned(k, r, p, u) /\ r.candles[Len(r.candles)] = h
    BY <1>3, <1>5, <1>7, <1>11 DEF Turned, H
  <2> QED BY <1>3, <1>7, <1>8, <2>1 DEF r, p
<1> QED BY <1>1, <1>9, <1>10, <1>11

(* The candle that waited is pushed, whatever it is, and the new one waits. *)
LEMMA PushIs ==
    ASSUME NEW k \in GenFrames, NEW s, NEW e, NEW u, Grown(k, s, e, u),
           s.candles # <<>> => s.next.open >= NextOpen(k, s.candles[Len(s.candles)]),
           NEW new \in GenCandles
    PROVE  LET t == [s EXCEPT !.next = new]
           IN  /\ Series!PushCandle(s, new, 1) = Series!TakeOwn(t, s.next)
               /\ t \in GenSeriesRecs /\ t.candles = s.candles /\ t.working = s.working /\ t.next = new
<1> DEFINE t == [s EXCEPT !.next = new]
           q == s.candles
<1>1. s \in GenSeriesRecs /\ q \in Seq(GenCandles) /\ Adjoin(k, q) /\ Lasts(k, s.next)
  BY DEF Grown, GenSeriesRecs
<1>2. s.next # Series!NoCandle /\ s.next.open \in Nat
  BY <1>1, NextOpenIs
<1>3. ~(s.next.open < Series!LastFinalized(s).close)
  <2>1. CASE q = <<>>
    <3>1. Series!LastFinalized(s) = Series!NoCandle
      BY <2>1 DEF Series!LastFinalized
    <3> QED BY <1>2, <3>1, GenNone
  <2>2. CASE q # <<>>
    <3>1. Series!LastFinalized(s) = q[Len(q)]
      BY <2>2 DEF Series!LastFinalized, Series!Last
    <3>2. Len(q) \in DOMAIN q
      BY <1>1, <2>2
    <3>3. Lasts(k, q[Len(q)])
      BY <1>1, <3>2 DEF Adjoin
    <3>4. /\ q[Len(q)].close <= NextOpen(k, q[Len(q)]) /\ NextOpen(k, q[Len(q)]) \in Nat
          /\ q[Len(q)].close \in Nat
      BY <3>3, NextOpenIs
    <3>5. s.next.open >= NextOpen(k, q[Len(q)])
      BY <2>2
    <3> HIDE DEF q
    <3> QED BY <1>2, <3>1, <3>4, <3>5
  <2> QED BY <2>1, <2>2
<1>4. Series!PushCandle(s, new, 1) = Series!TakeOwn(t, s.next)
  BY <1>2, <1>3 DEF Series!PushCandle
<1>5. t \in GenSeriesRecs /\ t.candles = s.candles /\ t.working = s.working /\ t.next = new
  BY <1>1 DEF GenSeriesRecs
<1> QED BY <1>4, <1>5

(* The second push of a candle that has ended finds it there. *)
LEMMA PushEnded ==
    ASSUME NEW k \in GenFrames, NEW s, NEW e, NEW u, Grown(k, s, e, u), Ended(s, e, u),
           NEW new, Lasts(k, new), ~new.final, new.open = NextOpen(k, s.working)
    PROVE  Between(k, Series!PushCandle(s, new, 1), e, Append(u, new.open))
<1> DEFINE t == [s EXCEPT !.next = new]
           q == s.candles
           w == s.working
           c == s.next
           v == Append(u, new.open)
<1>1. /\ s \in GenSeriesRecs /\ u \in Seq(Int) /\ Lasts(k, w) /\ w.final /\ w # Series!NoCandle
      /\ ComesAfter(k, q, w) /\ c.open = w.open /\ u[Len(u)] = c.open /\ Drawn(u, 3)
      /\ new.open = NextOpen(k, w)
  BY DEF Grown, Ended
<1>2. w.open \in Nat /\ w.close \in Nat /\ w.open < w.close /\ w.open < NextOpen(k, w)
      /\ NextOpen(k, w) \in Nat /\ new \in GenCandles
  BY <1>1, NextOpenIs
<1>3. q # <<>> => c.open >= NextOpen(k, q[Len(q)])
  <2> SUFFICES ASSUME q # <<>> PROVE c.open >= NextOpen(k, q[Len(q)])
    OBVIOUS
  <2>1. c.open = NextOpen(k, q[Len(q)]) /\ c.open \in Nat
    BY <1>1, <1>2 DEF ComesAfter
  <2> QED BY <2>1
<1>4. /\ Series!PushCandle(s, new, 1) = Series!TakeOwn(t, c)
      /\ t \in GenSeriesRecs /\ t.candles = q /\ t.working = w /\ t.next = new
  BY <1>2, <1>3, PushIs
<1> HIDE DEF t, q, w, c, v
<1>5. Series!TakeOwn(t, c) = t
  <2> DEFINE later == c.open > w.close
             within == c.open > w.open
             earlier == c.open <= w.open
             none == w = Series!NoCandle
  <2>1. Series!TakeOwn(t, c) =
        CASE none /\ c.final -> Series!Compute([t EXCEPT !.candles = Series!KeepIn(t.candles, c)])
          [] none /\ ~c.final -> Series!Compute([t EXCEPT !.working = c])
          [] ~none /\ later /\ w.final -> Series!Compute([Series!Finalize(t) EXCEPT !.next = c])
          [] ~none /\ earlier -> t
          [] ~none /\ later /\ ~w.final -> Series!Compute(Series!Finalize(t))
          [] ~none /\ within /\ c.open <= w.close ->
               Series!Compute([t EXCEPT !.candles = Series!KeepIn(t.candles, w), !.working = c, !.backup = Series!NoCandle])
    BY <1>4, Zenon DEF Series!TakeOwn
  <2>2. ~none /\ ~later /\ ~within /\ earlier
    BY <1>1, <1>2
  <2> HIDE DEF none, later, within, earlier
  <2> QED BY <2>1, <2>2
<1>6. /\ Drawn(v, 1) /\ v \in Seq(Int) /\ v[Len(v)] = new.open
  <2>1. u[Len(u)] < new.open /\ new.open \in Int
    BY <1>1, <1>2
  <2> QED BY <1>1, <2>1, DrawnAfter DEF v
<1>7. Len(v) > 0
  BY <1>6 DEF Drawn
<1>8. Grown(k, t, e, v)
  BY <1>4, <1>6, <1>7 DEF Grown, q, w
<1>9. Turns(k, t, e, v)
  BY <1>4, <1>6 DEF Ended, Turns, w
<1> QED BY <1>4, <1>5, <1>8, <1>9 DEF Between, v

(* The next one is pushed after it, which in the base frame takes a push more. *)
LEMMA PushTurns ==
    ASSUME NEW k \in GenFrames, NEW s, NEW e, NEW u, Grown(k, s, e, u), Turns(k, s, e, u),
           NEW new, Lasts(k, new), ~new.final, new.open = NextOpen(k, s.working)
    PROVE  Between(k, Series!PushCandle(s, new, 1), e, Append(u, new.open))
<1> DEFINE t == [s EXCEPT !.next = new]
           q == s.candles
           w == s.working
           c == s.next
           v == Append(u, new.open)
<1>1. /\ s \in GenSeriesRecs /\ u \in Seq(Int) /\ Lasts(k, w) /\ w.final /\ w # Series!NoCandle
      /\ ComesAfter(k, q, w) /\ c.open = NextOpen(k, w) /\ u[Len(u)] = c.open /\ Drawn(u, 1)
      /\ q \in Seq(GenCandles) /\ Adjoin(k, q) /\ Lasts(k, c) /\ ~c.final /\ c \in GenCandles
      /\ Ordered(e) /\ e \in Seq(Int) /\ UpTo(e, w.open) /\ Ate(e, w.open)
      /\ \A i \in DOMAIN q : Ate(e, q[i].open)
  BY DEF Grown, Turns, GenSeriesRecs
<1>2. /\ w.open \in Nat /\ w.close \in Nat /\ w.open < w.close /\ w.open < NextOpen(k, w)
      /\ NextOpen(k, w) \in Nat /\ w \in GenCandles
      /\ IF k = 1 THEN NextOpen(k, w) > w.close ELSE NextOpen(k, w) = w.close
      /\ new \in GenCandles /\ new # Series!NoCandle /\ c # Series!NoCandle
  BY <1>1, NextOpenIs
<1>3. q # <<>> => c.open >= NextOpen(k, q[Len(q)])
  <2> SUFFICES ASSUME q # <<>> PROVE c.open >= NextOpen(k, q[Len(q)])
    OBVIOUS
  <2>1. w.open = NextOpen(k, q[Len(q)]) /\ w.open < c.open /\ c.open \in Nat
    BY <1>1, <1>2 DEF ComesAfter
  <2> HIDE DEF c, w, q
  <2>2. w.open \in Nat
    BY <1>2
  <2> QED BY <2>1, <2>2
<1>4. /\ Series!PushCandle(s, new, 1) = Series!TakeOwn(t, c)
      /\ t \in GenSeriesRecs /\ t.candles = q /\ t.working = w /\ t.next = new
  BY <1>2, <1>3, PushIs
<1>5. new.open = c.open
  BY <1>1
<1> HIDE DEF t, q, w, c, v
<1>6. /\ Drawn(v, 2) /\ v \in Seq(Int) /\ v[Len(v)] = new.open
  <2>1. Drawn(v, 1 + 1) /\ v \in Seq(Int) /\ v[Len(v)] = new.open
    <3>1. v = Append(u, u[Len(u)])
      BY <1>1, <1>5 DEF v
    <3> QED BY <1>1, <1>5, <3>1, DrawnAgain
  <2> QED BY <2>1
<1>7. Len(v) > 0
  BY <1>6 DEF Drawn
<1> DEFINE later == c.open > w.close
           within == c.open > w.open
           earlier == c.open <= w.open
           inside == c.open <= w.close
           none == w = Series!NoCandle
<1>8. Series!TakeOwn(t, c) =
      CASE none /\ c.final -> Series!Compute([t EXCEPT !.candles = Series!KeepIn(t.candles, c)])
        [] none /\ ~c.final -> Series!Compute([t EXCEPT !.working = c])
        [] ~none /\ later /\ w.final -> Series!Compute([Series!Finalize(t) EXCEPT !.next = c])
        [] ~none /\ earlier -> t
        [] ~none /\ later /\ ~w.final -> Series!Compute(Series!Finalize(t))
        [] ~none /\ within /\ inside ->
             Series!Compute([t EXCEPT !.candles = Series!KeepIn(t.candles, w), !.working = c, !.backup = Series!NoCandle])
  BY <1>4, Zenon DEF Series!TakeOwn
<1>9. CASE k = 1
  <2> DEFINE x == [w EXCEPT !.final = TRUE]
             p == Series!KeepIn(q, x)
             m == Series!Finalize(t)
             a == [m EXCEPT !.next = c]
             r == Series!Compute(a)
  <2>1. Series!TakeOwn(t, c) = r
    <3>1. ~none /\ later /\ w.final /\ ~earlier /\ ~inside
      BY <1>1, <1>2, <1>9
    <3> HIDE DEF none, later, within, earlier, inside
    <3> QED BY <1>8, <3>1
  <2>2. x \in GenCandles /\ x.open = w.open /\ x.close = w.close /\ x.final
    BY <1>2 DEF GenCandles
  <2>3. Lasts(k, x) /\ ComesAfter(k, q, x) /\ NextOpen(k, x) = NextOpen(k, w)
    BY <1>1, <2>2 DEF Lasts, ComesAfter, NextOpen
  <2> HIDE DEF x
  <2>4. /\ p \in Seq(GenCandles) /\ Adjoin(k, p) /\ p # <<>> /\ p[Len(p)] = x
        /\ \A i \in DOMAIN p : p[i] = x \/ \E j \in DOMAIN q : p[i] = q[j]
    BY <1>1, <2>2, <2>3, AdjoinKeeps
  <2> HIDE DEF p
  <2>5. m = [t EXCEPT !.candles = p, !.working = Series!NoCandle]
    BY <1>4 DEF Series!Finalize, p, x
  <2> HIDE DEF m
  <2>6. m \in GenSeriesRecs /\ m.candles = p /\ m.working = Series!NoCandle
    <3> DEFINE b == [t EXCEPT !.candles = p]
    <3>1. b \in GenSeriesRecs /\ b.candles = p
      BY <1>4, <2>4 DEF GenSeriesRecs
    <3>2. m = [b EXCEPT !.working = Series!NoCandle]
      BY <2>5
    <3> HIDE DEF b
    <3> QED BY <3>1, <3>2, GenNone DEF GenSeriesRecs
  <2>7. a \in GenSeriesRecs /\ a.candles = p /\ a.working = Series!NoCandle /\ a.next = c
    BY <1>1, <2>6 DEF GenSeriesRecs
  <2> HIDE DEF a
  <2>8. r \in GenSeriesRecs /\ r.candles = p /\ r.working = Series!NoCandle /\ r.next = c
    BY <2>7, GenComputeIs
  <2> HIDE DEF r
  <2>9. \A i \in DOMAIN p : Ate(e, p[i].open)
    BY <1>1, <2>2, <2>4
  <2>10. Grown(k, r, e, v)
    BY <1>1, <1>5, <1>6, <1>7, <2>4, <2>8, <2>9 DEF Grown
  <2>11. Turned(k, r, e, v)
    BY <1>1, <1>6, <1>9, <2>2, <2>3, <2>4, <2>8 DEF Turned
  <2> QED BY <1>4, <2>1, <2>10, <2>11 DEF Between, v
<1>10. CASE k # 1
  <2> DEFINE p == Series!KeepIn(q, w)
             a == [t EXCEPT !.candles = p, !.working = c, !.backup = Series!NoCandle]
             r == Series!Compute(a)
  <2>1. Series!TakeOwn(t, c) = r
    <3>1. ~none /\ ~later /\ w.final /\ ~earlier /\ within /\ inside
      BY <1>1, <1>2, <1>10
    <3> HIDE DEF none, later, within, earlier, inside
    <3>2. Series!TakeOwn(t, c) =
            Series!Compute([t EXCEPT !.candles = Series!KeepIn(t.candles, w), !.working = c, !.backup = Series!NoCandle])
      BY <1>8, <3>1
    <3> QED BY <1>4, <3>2
  <2>2. /\ p \in Seq(GenCandles) /\ Adjoin(k, p) /\ p # <<>> /\ p[Len(p)] = w
        /\ \A i \in DOMAIN p : p[i] = w \/ \E j \in DOMAIN q : p[i] = q[j]
    BY <1>1, <1>2, AdjoinKeeps
  <2> HIDE DEF p
  <2>3. a \in GenSeriesRecs /\ a.candles = p /\ a.working = c /\ a.next = new
    <3> DEFINE b == [t EXCEPT !.candles = p]
               d == [b EXCEPT !.working = c]
    <3>1. b \in GenSeriesRecs /\ b.candles = p /\ b.next = new
      BY <1>4, <2>2 DEF GenSeriesRecs
    <3> HIDE DEF b
    <3>2. d \in GenSeriesRecs /\ d.candles = p /\ d.working = c /\ d.next = new
      BY <1>1, <3>1 DEF GenSeriesRecs
    <3>3. a = [d EXCEPT !.backup = Series!NoCandle]
      BY DEF b
    <3> HIDE DEF d, a
    <3> QED BY <3>2, <3>3, GenNone DEF GenSeriesRecs
  <2> HIDE DEF a
  <2>4. r \in GenSeriesRecs /\ r.candles = p /\ r.working = c /\ r.next = new
    BY <2>3, GenComputeIs
  <2> HIDE DEF r
  <2>5. \A i \in DOMAIN p : Ate(e, p[i].open)
    BY <1>1, <2>2
  <2>6. ComesAfter(k, p, c)
    BY <1>1, <2>2 DEF ComesAfter
  <2>7. Grown(k, r, e, v)
    BY <1>1, <1>6, <1>7, <2>2, <2>4, <2>5, <2>6 DEF Grown
  <2>8. \A j \in DOMAIN e : e[j] < c.open
    <3> SUFFICES ASSUME NEW j \in DOMAIN e PROVE e[j] < c.open
      OBVIOUS
    <3>1. e[j] \in Int /\ e[j] <= w.open
      BY <1>1 DEF UpTo
    <3>2. w.open < c.open /\ w.open \in Int /\ c.open \in Int
      BY <1>1, <1>2
    <3> QED BY <3>1, <3>2
  <2>9. Drawn(v, 3)
    <3> DEFINE n == Len(v)
    <3>1. n \in Nat /\ \A i \in 1 .. n - 2 : v[i] < v[n]
      BY <1>6 DEF Drawn
    <3>2. \A i \in 1 .. n - 3 : i \in 1 .. n - 2
      BY <3>1
    <3> HIDE DEF n
    <3>3. \A i \in 1 .. n - 3 : v[i] < v[n]
      BY <3>1, <3>2
    <3> QED BY <1>6, <3>3 DEF Drawn, n
  <2>10. Waits(r, e, v)
    BY <1>1, <1>2, <1>5, <2>4, <2>8, <2>9 DEF Waits
  <2> QED BY <1>4, <2>1, <2>7, <2>10 DEF Between, v
<1> QED BY <1>9, <1>10

(* And then it becomes the working one. *)
LEMMA PushTurned ==
    ASSUME NEW k \in GenFrames, NEW s, NEW e, NEW u, Grown(k, s, e, u), Turned(k, s, e, u),
           NEW new, Lasts(k, new), ~new.final, new.open = NextOpen(k, s.candles[Len(s.candles)])
    PROVE  Between(k, Series!PushCandle(s, new, 1), e, Append(u, new.open))
<1> DEFINE t == [s EXCEPT !.next = new]
           q == s.candles
           z == q[Len(q)]
           c == s.next
           v == Append(u, new.open)
           a == [t EXCEPT !.working = c]
           r == Series!Compute(a)
<1>1. /\ s \in GenSeriesRecs /\ u \in Seq(Int) /\ s.working = Series!NoCandle /\ q # <<>>
      /\ c.open = NextOpen(k, z) /\ u[Len(u)] = c.open /\ Drawn(u, 2)
      /\ q \in Seq(GenCandles) /\ Adjoin(k, q) /\ Lasts(k, c) /\ ~c.final /\ c \in GenCandles
      /\ Ordered(e) /\ e \in Seq(Int) /\ UpTo(e, z.open)
      /\ \A i \in DOMAIN q : Ate(e, q[i].open)
  BY DEF Grown, Turned, GenSeriesRecs, Lasts
<1>2. Lasts(k, z)
  <2>1. Len(q) \in DOMAIN q
    BY <1>1
  <2> QED BY <1>1, <2>1 DEF Adjoin
<1>3. /\ z.open \in Nat /\ z.open < NextOpen(k, z) /\ NextOpen(k, z) \in Nat
      /\ new \in GenCandles /\ new # Series!NoCandle /\ c # Series!NoCandle
  BY <1>1, <1>2, NextOpenIs
<1>4. c.open >= NextOpen(k, z)
  BY <1>1, <1>3
<1>5. /\ Series!PushCandle(s, new, 1) = Series!TakeOwn(t, c)
      /\ t \in GenSeriesRecs /\ t.candles = q /\ t.working = Series!NoCandle /\ t.next = new
  BY <1>1, <1>3, <1>4, PushIs
<1>6. new.open = c.open
  BY <1>1
<1> HIDE DEF t, c, v, q, z
<1>7. Series!TakeOwn(t, c) = r
  <2> DEFINE w == t.working
             later == c.open > w.close
             within == c.open > w.open
             earlier == c.open <= w.open
             inside == c.open <= w.close
             none == w = Series!NoCandle
  <2>1. Series!TakeOwn(t, c) =
        CASE none /\ c.final -> Series!Compute([t EXCEPT !.candles = Series!KeepIn(t.candles, c)])
          [] none /\ ~c.final -> Series!Compute([t EXCEPT !.working = c])
          [] ~none /\ later /\ w.final -> Series!Compute([Series!Finalize(t) EXCEPT !.next = c])
          [] ~none /\ earlier -> t
          [] ~none /\ later /\ ~w.final -> Series!Compute(Series!Finalize(t))
          [] ~none /\ within /\ inside ->
               Series!Compute([t EXCEPT !.candles = Series!KeepIn(t.candles, w), !.working = c, !.backup = Series!NoCandle])
    BY Zenon DEF Series!TakeOwn
  <2>2. none /\ ~c.final
    BY <1>1, <1>5
  <2> HIDE DEF none, later, within, earlier, inside, w
  <2> QED BY <2>1, <2>2
<1>8. a \in GenSeriesRecs /\ a.candles = q /\ a.working = c /\ a.next = new
  BY <1>1, <1>5 DEF GenSeriesRecs
<1> HIDE DEF a
<1>9. r \in GenSeriesRecs /\ r.candles = q /\ r.working = c /\ r.next = new
  BY <1>8, GenComputeIs
<1> HIDE DEF r
<1>10. /\ Drawn(v, 3) /\ v \in Seq(Int) /\ v[Len(v)] = new.open
  <2>1. Drawn(v, 2 + 1) /\ v \in Seq(Int) /\ v[Len(v)] = new.open
    <3>1. v = Append(u, u[Len(u)])
      BY <1>1, <1>6 DEF v
    <3> QED BY <1>1, <1>6, <3>1, DrawnAgain
  <2> QED BY <2>1
<1>11. Len(v) > 0
  BY <1>10 DEF Drawn
<1>12. ComesAfter(k, q, c)
  BY <1>1 DEF ComesAfter, z
<1>13. Grown(k, r, e, v)
  BY <1>1, <1>9, <1>10, <1>11, <1>12 DEF Grown
<1>14. \A j \in DOMAIN e : e[j] < c.open
  <2> SUFFICES ASSUME NEW j \in DOMAIN e PROVE e[j] < c.open
    OBVIOUS
  <2>1. e[j] \in Int /\ e[j] <= z.open
    BY <1>1 DEF UpTo
  <2>2. z.open < c.open /\ z.open \in Int /\ c.open \in Int
    BY <1>1, <1>3
  <2> QED BY <2>1, <2>2
<1>15. Waits(r, e, v)
  BY <1>1, <1>3, <1>6, <1>9, <1>10, <1>14 DEF Waits
<1> QED BY <1>5, <1>7, <1>13, <1>15 DEF Between, v

(* A frame rotates. *)
LEMMA RotateKeeps ==
    ASSUME NEW k \in GenFrames, NEW f \in GenFrameRecs, Between(k, f.series, f.fed, f.ui), NEW n \in Int
    PROVE  LET r == Rotate(k, f, n)
           IN  r \in GenFrameRecs /\ r.observed = f.observed /\ Between(k, r.series, r.fed, r.ui)
<1> DEFINE s == f.series
           e == f.fed
           u == f.ui
           H == Series!HeadCandle(s)
           h == [H EXCEPT !.final = TRUE]
           p == Append(e, h.open)
           new == GenCandle(k, NextOpen(k, h), n)
           t == SetHead(s, h)
           x == Series!PushCandle(t, new, 1)
           v == Append(u, new.open)
           g == [f EXCEPT !.fed = p]
           r == Rotate(k, f, n)
<1>1. s \in GenSeriesRecs /\ e \in Seq(Int) /\ u \in Seq(Int)
  BY DEF GenFrameRecs
<1>2. H \in GenCandles
  BY <1>1, GenHeadIs
<1> HIDE DEF H
<1>3. h \in GenCandles /\ h.open = H.open /\ h.close = H.close /\ h.final
  BY <1>2 DEF GenCandles
<1>4. ComputeIndicators(f, h) = g
  BY <1>3 DEF ComputeIndicators
<1>5. r = [g EXCEPT !.series = x, !.ui = v]
  <2>1. r = [ComputeIndicators(f, h) EXCEPT !.series = x, !.ui = Append(@, new.open)]
    BY DEF Rotate, H
  <2>2. g.ui = u
    BY DEF GenFrameRecs
  <2> HIDE DEF r, x, new, h, g
  <2> QED BY <1>4, <2>1, <2>2
<1> HIDE DEF s, e, u, h, r
<1>6. /\ Grown(k, t, p, u) /\ p \in Seq(Int) /\ Lasts(k, h)
      /\ \/ Ended(t, p, u) /\ t.working = h
         \/ Turns(k, t, p, u) /\ t.working = h
         \/ Turned(k, t, p, u) /\ t.candles[Len(t.candles)] = h
  <2>1. Between(k, s, e, u)
    BY DEF s, e, u
  <2> HIDE DEF t, p
  <2> QED BY <1>3, <2>1, HeadFed DEF H, t, p
<1>7. Lasts(k, new) /\ ~new.final /\ new.open = NextOpen(k, h) /\ new.open \in Nat
  <2>1. NextOpen(k, h) \in Nat
    BY <1>6, NextOpenIs
  <2> QED BY <2>1, GenCandleIs
<1> HIDE DEF t, p, new
<1>8. Between(k, x, p, v)
  <2>1. CASE Ended(t, p, u) /\ t.working = h
    BY <1>6, <1>7, <2>1, PushEnded
  <2>2. CASE Turns(k, t, p, u) /\ t.working = h
    BY <1>6, <1>7, <2>2, PushTurns
  <2>3. CASE Turned(k, t, p, u) /\ t.candles[Len(t.candles)] = h
    BY <1>6, <1>7, <2>3, PushTurned
  <2> QED BY <1>6, <2>1, <2>2, <2>3
<1>9. x \in GenSeriesRecs /\ v \in Seq(Int)
  BY <1>8 DEF Between, Grown
<1> HIDE DEF x, v
<1>10. g \in GenFrameRecs /\ g.fed = p /\ g.observed = f.observed
  BY <1>6 DEF GenFrameRecs
<1> HIDE DEF g
<1>11. r \in GenFrameRecs /\ r.series = x /\ r.ui = v /\ r.fed = p /\ r.observed = f.observed
  <2> DEFINE b == [g EXCEPT !.series = x]
  <2>1. b \in GenFrameRecs /\ b.series = x /\ b.fed = p /\ b.observed = f.observed
    BY <1>9, <1>10 DEF GenFrameRecs
  <2>2. r = [b EXCEPT !.ui = v]
    BY <1>5
  <2> HIDE DEF b
  <2> QED BY <1>9, <2>1, <2>2 DEF GenFrameRecs
<1> QED BY <1>8, <1>11 DEF r

(* A frame takes a tick. *)
LEMMA TakeTickKeeps ==
    ASSUME NEW k \in GenFrames, NEW f \in GenFrameRecs, Between(k, f.series, f.fed, f.ui), NEW n \in Int
    PROVE  LET r == TakeTick(f, n)
           IN  r \in GenFrameRecs /\ r.observed = f.observed /\ Between(k, r.series, r.fed, r.ui)
<1> DEFINE s == f.series
           e == f.fed
           u == f.ui
           H == Series!HeadCandle(s)
           h == [H EXCEPT !.volume = H.volume + n]
           p == IF h.final THEN Append(e, h.open) ELSE e
           t == SetHead(s, h)
           g == ComputeIndicators(f, h)
           r == TakeTick(f, n)
<1>1. s \in GenSeriesRecs /\ e \in Seq(Int) /\ u \in Seq(Int) /\ Between(k, s, e, u)
  BY DEF GenFrameRecs
<1>2. H \in GenCandles
  BY <1>1, GenHeadIs
<1> HIDE DEF H
<1>3. h \in GenCandles /\ h.open = H.open /\ h.close = H.close /\ h.final = H.final
  BY <1>2 DEF GenCandles
<1>4. r = [g EXCEPT !.series = t]
  <2>1. r = [g EXCEPT !.series = SetHead(@, h)]
    BY DEF TakeTick, H
  <2>2. g.series = s
    BY DEF ComputeIndicators, GenFrameRecs
  <2> HIDE DEF r, g, h
  <2> QED BY <2>1, <2>2
<1>5. g = [f EXCEPT !.fed = p]
  <2>1. CASE h.final
    <3> HIDE DEF h
    <3> QED BY <2>1 DEF ComputeIndicators
  <2>2. CASE ~h.final
    <3>1. g = f /\ p = f.fed
      BY <2>2 DEF ComputeIndicators
    <3> HIDE DEF p, g
    <3> QED BY <3>1 DEF GenFrameRecs
  <2> QED BY <2>1, <2>2
<1> HIDE DEF h, r, s, e, u, g
<1>6. p \in Seq(Int) /\ Between(k, t, p, u)
  <2>1. CASE h.final
    <3>1. /\ Grown(k, t, Append(e, h.open), u) /\ Append(e, h.open) \in Seq(Int)
          /\ \/ Waits(s, e, u)
             \/ Turns(k, t, Append(e, h.open), u)
             \/ Turned(k, t, Append(e, h.open), u)
      BY <1>1, <1>3, <2>1, HeadFed DEF H
    <3>2. ~Waits(s, e, u)
      <4>1. s.working # Series!NoCandle => H = s.working
        BY <1>1, GenHeadIs DEF H
      <4> QED BY <1>3, <2>1, <4>1 DEF Waits
    <3> QED BY <2>1, <3>1, <3>2 DEF Between
  <2>2. CASE ~h.final
    <3>1. Grown(k, s, e, u) /\ (Waits(s, e, u) \/ Turns(k, s, e, u) \/ Turned(k, s, e, u))
      BY <1>1 DEF Between
    <3>2. Waits(s, e, u) /\ H = s.working
      <4>1. /\ s.working # Series!NoCandle => H = s.working
            /\ s.working = Series!NoCandle /\ s.candles # <<>> => H = s.candles[Len(s.candles)]
        BY <1>1, GenHeadIs DEF H
      <4>2. ~Turns(k, s, e, u)
        BY <1>3, <2>2, <4>1 DEF Turns
      <4>3. ~Turned(k, s, e, u)
        <5> SUFFICES ASSUME Turned(k, s, e, u) PROVE FALSE
          OBVIOUS
        <5>1. s.candles # <<>> /\ H = s.candles[Len(s.candles)] /\ s.candles \in Seq(GenCandles)
              /\ Adjoin(k, s.candles)
          BY <3>1, <4>1 DEF Turned, Grown, GenSeriesRecs
        <5>2. Len(s.candles) \in DOMAIN s.candles
          BY <5>1
        <5> QED BY <1>3, <2>2, <5>1, <5>2 DEF Adjoin
      <4> QED BY <3>1, <4>1, <4>2, <4>3 DEF Waits
    <3>3. Grown(k, t, e, u) /\ t.next = s.next /\ t.working = h /\ h # Series!NoCandle
      BY <1>3, <3>1, <3>2, HeadChanged DEF H, Waits
    <3>4. Waits(t, e, u)
      BY <1>3, <2>2, <3>2, <3>3 DEF Waits
    <3> QED BY <1>1, <2>2, <3>3, <3>4 DEF Between
  <2> QED BY <2>1, <2>2
<1>7. t \in GenSeriesRecs
  BY <1>6 DEF Between, Grown
<1> HIDE DEF p, t
<1>8. g \in GenFrameRecs /\ g.fed = p /\ g.observed = f.observed /\ g.ui = u
  BY <1>5, <1>6 DEF GenFrameRecs, u
<1>9. r \in GenFrameRecs /\ r.series = t /\ r.ui = u /\ r.fed = p /\ r.observed = f.observed
  BY <1>4, <1>7, <1>8 DEF GenFrameRecs
<1> QED BY <1>6, <1>9 DEF r

(* The first candle of a frame is pushed at once. *)
LEMMA FrameStarts ==
    ASSUME NEW k \in GenFrames
    PROVE  LET f == [series |-> Series!PushCandle(Series!NewSeries, GenCandle(k, 0, 0), 1),
                     ui |-> <<0>>, observed |-> 0, fed |-> <<>>]
           IN  f \in GenFrameRecs /\ Between(k, f.series, f.fed, f.ui)
<1> DEFINE s == Series!NewSeries
           c == GenCandle(k, 0, 0)
           t == [s EXCEPT !.next = c]
           a == [t EXCEPT !.working = c]
           r == Series!Compute(a)
           e == <<>>
           u == <<0>>
           f == [series |-> Series!PushCandle(s, c, 1), ui |-> u, observed |-> 0, fed |-> e]
<1>1. Lasts(k, c) /\ c.open = 0 /\ ~c.final /\ c \in GenCandles /\ c # Series!NoCandle
  <2>1. Lasts(k, c) /\ c.open = 0 /\ ~c.final
    BY GenCandleIs
  <2> HIDE DEF c
  <2> QED BY <2>1, NextOpenIs
<1>2. s \in GenSeriesRecs /\ s.candles = <<>> /\ s.working = Series!NoCandle /\ s.next = Series!NoCandle
  <2> DEFINE fed == [pair |-> <<>>, alone |-> <<>>]
  <2>1. fed \in GenFedRecs
    BY DEF GenFedRecs
  <2> HIDE DEF fed
  <2>2. s = [candles |-> <<>>, states |-> <<>>, working |-> Series!NoCandle, backup |-> Series!NoCandle,
             next |-> Series!NoCandle, index |-> 0, started |-> FALSE, fed |-> fed]
    BY DEF Series!NewSeries, fed
  <2> HIDE DEF s
  <2> QED BY <2>1, <2>2, GenNone DEF GenSeriesRecs
<1> HIDE DEF s, c
<1>3. t \in GenSeriesRecs /\ t.candles = <<>> /\ t.working = Series!NoCandle /\ t.next = c
  BY <1>1, <1>2 DEF GenSeriesRecs
<1>4. Series!PushCandle(s, c, 1) = Series!TakeOwn(t, c)
  <2>1. Series!LastFinalized(s) = Series!NoCandle
    BY <1>2 DEF Series!LastFinalized
  <2>2. ~(c.open < Series!LastFinalized(s).close)
    BY <1>1, <2>1, GenNone
  <2> QED BY <1>2, <2>2 DEF Series!PushCandle
<1> HIDE DEF t
<1>5. Series!TakeOwn(t, c) = r
  <2> DEFINE w == t.working
             later == c.open > w.close
             within == c.open > w.open
             earlier == c.open <= w.open
             inside == c.open <= w.close
             none == w = Series!NoCandle
  <2>1. Series!TakeOwn(t, c) =
        CASE none /\ c.final -> Series!Compute([t EXCEPT !.candles = Series!KeepIn(t.candles, c)])
          [] none /\ ~c.final -> Series!Compute([t EXCEPT !.working = c])
          [] ~none /\ later /\ w.final -> Series!Compute([Series!Finalize(t) EXCEPT !.next = c])
          [] ~none /\ earlier -> t
          [] ~none /\ later /\ ~w.final -> Series!Compute(Series!Finalize(t))
          [] ~none /\ within /\ inside ->
               Series!Compute([t EXCEPT !.candles = Series!KeepIn(t.candles, w), !.working = c, !.backup = Series!NoCandle])
    BY Zenon DEF Series!TakeOwn
  <2>2. none /\ ~c.final
    BY <1>1, <1>3
  <2> HIDE DEF none, later, within, earlier, inside, w
  <2> QED BY <2>1, <2>2
<1>6. a \in GenSeriesRecs /\ a.candles = <<>> /\ a.working = c /\ a.next = c
  BY <1>1, <1>3 DEF GenSeriesRecs
<1> HIDE DEF a
<1>7. r \in GenSeriesRecs /\ r.candles = <<>> /\ r.working = c /\ r.next = c
  BY <1>6, GenComputeIs
<1> HIDE DEF r
<1>8. u \in Seq(Int) /\ Len(u) = 1 /\ u[1] = 0 /\ e \in Seq(Int) /\ DOMAIN e = {}
  OBVIOUS
<1> HIDE DEF u, e
<1>9. Drawn(u, 3)
  BY <1>8 DEF Drawn
<1>10. Grown(k, r, e, u)
  BY <1>1, <1>7, <1>8 DEF Grown, Adjoin, ComesAfter, Ordered
<1>11. Waits(r, e, u)
  BY <1>1, <1>7, <1>8, <1>9 DEF Waits
<1>12. Between(k, r, e, u)
  BY <1>10, <1>11 DEF Between
<1>13. f \in GenFrameRecs /\ f.series = r /\ f.fed = e /\ f.ui = u
  BY <1>4, <1>5, <1>7, <1>8 DEF GenFrameRecs
<1> QED BY <1>12, <1>13 DEF e, u, s, c

LEMMA GeneratorStarts == GeneratorInit => GeneratorIInv
<1> SUFFICES ASSUME GeneratorInit PROVE GeneratorIInv
  OBVIOUS
<1> DEFINE F(k) == [series |-> Series!PushCandle(Series!NewSeries, GenCandle(k, 0, 0), 1),
                    ui |-> <<0>>, observed |-> 0, fed |-> <<>>]
<1>1. frame = [k \in GenFrames |-> F(k)]
  BY DEF GeneratorInit
<1>2. \A k \in GenFrames : F(k) \in GenFrameRecs /\ Between(k, F(k).series, F(k).fed, F(k).ui)
  BY FrameStarts
<1> HIDE DEF F
<1>3. \A k \in GenFrames : frame[k] = F(k)
  BY <1>1
<1>4. frame \in [GenFrames -> GenFrameRecs]
  BY <1>1, <1>2
<1> QED BY <1>2, <1>3, <1>4 DEF GeneratorIInv

(* A tick of the generator: every frame takes it or rotates. *)
LEMMA ComputeGeneratorKeeps == GeneratorIInv /\ ComputeGenerator => GeneratorIInv'
<1> SUFFICES ASSUME GeneratorIInv, ComputeGenerator PROVE GeneratorIInv'
  OBVIOUS
<1> DEFINE base == ComputeBaseTimeframe(frame[1])
           F(k) == IF k = 1 THEN base ELSE ComputeOtherTimeframe(k, frame[k], base)
<1>1. /\ frame \in [GenFrames -> GenFrameRecs] /\ 1 \in GenFrames
      /\ \A k \in GenFrames : frame[k] \in GenFrameRecs /\ Between(k, frame[k].series, frame[k].fed, frame[k].ui)
  BY DEF GeneratorIInv, GenFrames
<1>2. frame' = [k \in GenFrames |-> F(k)]
  BY DEF ComputeGenerator
<1>3. base \in GenFrameRecs /\ Between(1, base.series, base.fed, base.ui)
  <2> DEFINE f == frame[1]
  <2>1. f \in GenFrameRecs /\ Between(1, f.series, f.fed, f.ui)
    BY <1>1
  <2>2. base = Rotate(1, f, 1) \/ base = TakeTick(f, 1)
    BY DEF ComputeBaseTimeframe
  <2> HIDE DEF f, base
  <2>3. LET r == Rotate(1, f, 1) IN r \in GenFrameRecs /\ Between(1, r.series, r.fed, r.ui)
    BY <1>1, <2>1, RotateKeeps
  <2>4. LET r == TakeTick(f, 1) IN r \in GenFrameRecs /\ Between(1, r.series, r.fed, r.ui)
    BY <1>1, <2>1, TakeTickKeeps
  <2> QED BY <2>2, <2>3, <2>4
<1> HIDE DEF base
<1>4. ASSUME NEW k \in GenFrames, k # 1
      PROVE  F(k) \in GenFrameRecs /\ Between(k, F(k).series, F(k).fed, F(k).ui)
  <2> DEFINE f == frame[k]
             a == Num(base.series)
             n == Series!HeadCandle(base.series).volume
             rot == Rotate(k, f, 0)
             tick == TakeTick(f, n)
  <2>1. f \in GenFrameRecs /\ Between(k, f.series, f.fed, f.ui)
    BY <1>1
  <2>2. base.series \in GenSeriesRecs
    BY <1>3 DEF GenFrameRecs
  <2>3. n \in Int
    BY <2>2, GenHeadIs DEF GenCandles
  <2>4. a \in Int
    <3>1. Len(base.series.candles) \in Int
      BY <2>2 DEF GenSeriesRecs
    <3>2. CASE base.series.working = Series!NoCandle
      <4>1. a = Len(base.series.candles) + 0
        BY <3>2 DEF Num, Series!NumCandles
      <4> QED BY <3>1, <4>1
    <3>3. CASE base.series.working # Series!NoCandle
      <4>1. a = Len(base.series.candles) + 1
        BY <3>3 DEF Num, Series!NumCandles
      <4> QED BY <3>1, <4>1
    <3> QED BY <3>2, <3>3
  <2>5. F(k) = [rot EXCEPT !.observed = a] \/ F(k) = tick
    BY <1>4 DEF ComputeOtherTimeframe
  <2> HIDE DEF f, a, n, F
  <2>6. rot \in GenFrameRecs /\ Between(k, rot.series, rot.fed, rot.ui)
    BY <2>1, RotateKeeps
  <2>7. tick \in GenFrameRecs /\ Between(k, tick.series, tick.fed, tick.ui)
    BY <2>1, <2>3, TakeTickKeeps
  <2> HIDE DEF rot, tick
  <2>8. CASE F(k) = [rot EXCEPT !.observed = a]
    <3>1. F(k) \in GenFrameRecs /\ F(k).series = rot.series /\ F(k).fed = rot.fed /\ F(k).ui = rot.ui
      BY <2>4, <2>6, <2>8 DEF GenFrameRecs
    <3> QED BY <2>6, <3>1
  <2> QED BY <2>5, <2>7, <2>8
<1>5. \A k \in GenFrames : F(k) \in GenFrameRecs /\ Between(k, F(k).series, F(k).fed, F(k).ui)
  <2>1. F(1) = base
    OBVIOUS
  <2> HIDE DEF F
  <2> QED BY <1>3, <1>4, <2>1
<1> HIDE DEF F
<1>6. \A k \in GenFrames : frame'[k] = F(k)
  BY <1>2
<1>7. frame' \in [GenFrames -> GenFrameRecs]
  BY <1>2, <1>5
<1> QED BY <1>5, <1>6, <1>7 DEF GeneratorIInv

LEMMA GeneratorSteps == GeneratorIInv /\ [GeneratorNext]_generatorVars => GeneratorIInv'
<1> SUFFICES ASSUME GeneratorIInv, [GeneratorNext]_generatorVars PROVE GeneratorIInv'
  OBVIOUS
<1>1. CASE Generate
  BY <1>1, ComputeGeneratorKeeps DEF Generate
<1>2. CASE GenerateReturns
  BY <1>2 DEF GenerateReturns, GeneratorIInv
<1>3. CASE GenerateTick
  BY <1>3, ComputeGeneratorKeeps DEF GenerateTick
<1>4. CASE UNCHANGED generatorVars
  BY <1>4 DEF generatorVars, GeneratorIInv
<1> QED BY <1>1, <1>2, <1>3, <1>4 DEF GeneratorNext

(* What is between two ticks is what the playground relies on. *)
LEMMA BetweenKeepsUp ==
    ASSUME GeneratorIInv, NEW k \in GenFrames
    PROVE  LET f == frame[k]
               all == AllOf(f)
           IN  /\ \A i \in 1 .. Len(all) - 1 : all[i + 1].open = NextOpen(k, all[i])
               /\ Series!Last(f.ui) \in {Series!Last(all).open, NextOpen(k, Series!Last(all))}
               /\ \A i \in 1 .. Len(f.ui) - 3 : f.ui[i] < f.ui[i + 3]
               /\ \A i \in 1 .. Len(f.fed) - 1 : f.fed[i] <= f.fed[i + 1]
               /\ \A i \in DOMAIN all : Series!Contains(f.fed, all[i].open) <=> all[i].final
<1> DEFINE s == frame[k].series
           e == frame[k].fed
           u == frame[k].ui
           q == s.candles
           w == s.working
           n == Len(q)
           all == q \o (IF w = Series!NoCandle THEN <<>> ELSE <<w>>)
<1>1. /\ Grown(k, s, e, u) /\ (Waits(s, e, u) \/ Turns(k, s, e, u) \/ Turned(k, s, e, u))
      /\ q \in Seq(GenCandles) /\ e \in Seq(Int) /\ u \in Seq(Int) /\ Adjoin(k, q)
      /\ w # Series!NoCandle => ComesAfter(k, q, w)
      /\ u[Len(u)] = s.next.open
      /\ \A i \in DOMAIN q : q[i].final /\ Ate(e, q[i].open)
      /\ Ordered(e)
  BY DEF GeneratorIInv, Between, Grown, GenSeriesRecs, Adjoin
<1>2. AllOf(frame[k]) = all
  BY DEF AllOf
<1>3. n \in Nat /\ DOMAIN q = 1 .. n
  BY <1>1
<1>4. \A i \in 1 .. n - 1 : q[i + 1].open = NextOpen(k, q[i])
  BY <1>1 DEF Adjoin
<1>5. \A i \in 1 .. Len(u) - 3 : u[i] < u[i + 3]
  BY <1>1 DEF Waits, Turns, Turned, Drawn
<1>6. \A i \in 1 .. Len(e) - 1 : e[i] <= e[i + 1]
  <2>1. Len(e) \in Nat /\ DOMAIN e = 1 .. Len(e)
    BY <1>1
  <2> SUFFICES ASSUME NEW i \in 1 .. Len(e) - 1 PROVE e[i] <= e[i + 1]
    OBVIOUS
  <2> HIDE DEF e
  <2>2. i \in DOMAIN e /\ i + 1 \in DOMAIN e /\ i <= i + 1
    BY <2>1
  <2> QED BY <1>1, <2>2 DEF Ordered
<1>7. \A a : Series!Contains(e, a) <=> Ate(e, a)
  <2>1. DOMAIN e = 1 .. Len(e)
    BY <1>1
  <2> QED BY <2>1 DEF Series!Contains, Ate
<1> HIDE DEF q, w, e, u, s
<1>8. CASE w # Series!NoCandle
  <2>1. all = q \o <<w>>
    BY <1>8
  <2>2. Len(all) = n + 1 /\ all[n + 1] = w /\ (\A i \in 1 .. n : all[i] = q[i]) /\ DOMAIN all = 1 .. n + 1
    BY <1>1, <1>3, <2>1
  <2> HIDE DEF all
  <2>3. ASSUME NEW i \in 1 .. Len(all) - 1 PROVE all[i + 1].open = NextOpen(k, all[i])
    <3>1. i \in 1 .. n
      BY <1>3, <2>2, <2>3
    <3>2. CASE i = n
      <4>1. q # <<>>
        BY <1>3, <3>1, <3>2
      <4> QED BY <1>1, <1>8, <2>2, <3>1, <3>2, <4>1 DEF ComesAfter
    <3>3. CASE i # n
      <4>1. n \in Nat
        BY <1>3
      <4> HIDE DEF n
      <4>2. i \in 1 .. n - 1 /\ i + 1 \in 1 .. n
        BY <3>1, <3>3, <4>1
      <4> QED BY <1>4, <2>2, <3>1, <4>2
    <3> QED BY <3>2, <3>3
  <2>4. Waits(s, e, u) \/ Turns(k, s, e, u)
    BY <1>1, <1>8 DEF Turned, w
  <2>5. u[Len(u)] \in {w.open, NextOpen(k, w)}
    BY <1>1, <2>4 DEF Waits, Turns, w
  <2>6. Ate(e, w.open) <=> w.final
    <3>1. CASE Waits(s, e, u)
      <4>1. ~w.final /\ \A j \in DOMAIN e : e[j] < w.open /\ e[j] \in Int
        BY <1>1, <3>1 DEF Waits, w
      <4>2. w.open \in Int
        BY <1>1, <1>8 DEF Grown, Lasts, w
      <4>3. \A j \in DOMAIN e : e[j] # w.open
        BY <4>1, <4>2
      <4> QED BY <4>1, <4>3 DEF Ate
    <3>2. CASE Turns(k, s, e, u)
      BY <3>2 DEF Turns, w
    <3> QED BY <2>4, <3>1, <3>2
  <2>7. ASSUME NEW i \in 1 .. n + 1 PROVE Ate(e, all[i].open) <=> all[i].final
    <3>1. CASE i = n + 1
      BY <2>2, <2>6, <3>1
    <3>2. CASE i # n + 1
      <4>1. i \in 1 .. n
        BY <1>3, <3>2
      <4> QED BY <1>1, <1>3, <2>2, <4>1
    <3> QED BY <3>1, <3>2
  <2>8. Series!Last(all) = w /\ Series!Last(u) = u[Len(u)]
    BY <2>2 DEF Series!Last
  <2> QED BY <1>2, <1>5, <1>6, <1>7, <2>2, <2>3, <2>5, <2>7, <2>8 DEF e, u
<1>9. CASE w = Series!NoCandle
  <2>1. all = q
    BY <1>1, <1>9
  <2>2. Turned(k, s, e, u)
    BY <1>1, <1>9 DEF Waits, Turns, w
  <2>3. u[Len(u)] = NextOpen(k, q[n])
    BY <1>1, <2>2 DEF Turned, q
  <2>4. Series!Last(q) = q[n] /\ Series!Last(u) = u[Len(u)]
    BY DEF Series!Last
  <2> HIDE DEF all
  <2> QED BY <1>1, <1>2, <1>4, <1>5, <1>6, <1>7, <2>1, <2>3, <2>4 DEF e, u
<1> QED BY <1>8, <1>9

(* The candles of every frame adjoin although each push takes the candle of
   the push before, and the first twice; what is drawn is the head or the
   candle after it, three times over at most; the indicators take each closed
   candle, in order, and none that is open (simulator_generator.rs).        *)
THEOREM GeneratorStaysUp == GeneratorSpec => []GeneratorKeepsUp
<1>1. GeneratorSpec => []GeneratorIInv
  BY GeneratorStarts, GeneratorSteps, PTL DEF GeneratorSpec
<1>2. GeneratorIInv => GeneratorKeepsUp
  BY BetweenKeepsUp DEF GeneratorKeepsUp, Series!Last, Last, Series!Contains, Contains
<1> QED BY <1>1, <1>2, PTL
=============================================================================
