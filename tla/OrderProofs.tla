---------------------------- MODULE OrderProofs ----------------------------
(***************************************************************************)
(* Lemmas about the operators of Order: what every method of an order      *)
(* keeps, whatever state the order is in (the theorems of                  *)
(* TradeExchangeProofs rest on them), and what it keeps of an order that   *)
(* is at rest between two calls (those of TradeBookProofs).                *)
(***************************************************************************)
EXTENDS Order, TLAPS

(* A terminated order stays so, and comes to ask for no new order. *)
OpensNothing(o, p) ==
    o.term => p.term /\ (p.instr.kind = "CreateOrder" => o.instr.kind = "CreateOrder")

(* What every method preserves: the type of the order, an instruction that is
   Running, which no method starts, replaces or drops, and being terminated. *)
Keeps(o, p) ==
    /\ p \in OrderRec
    /\ o.instr.st = "Running" \/ p.instr.st = "Running" => p.instr = o.instr
    /\ OpensNothing(o, p)

(* What a handler returns. *)
Handled(o, h) ==
    /\ Keeps(o, h.o)
    /\ h.ask \in InstructionKind \cup {"None"}
    /\ h.stop \in Int
    /\ h.ok \in BOOLEAN
    /\ h.ask = "CancelReplaceOrder" => h.o.seq < MaxSeq /\ ~HasInstr(h.o)
    /\ h.ask = "CreateOrder" => ~h.o.term

(* What a method returns. *)
Done(o, r) == Keeps(o, r.o) /\ r.ok \in BOOLEAN

(* An order keeps itself. *)
LEMMA KeepsRefl == ASSUME NEW o \in OrderRec PROVE Keeps(o, o)
BY DEF Keeps, OpensNothing

(* What two steps in a row keep, both keep. *)
LEMMA KeepsTrans ==
    ASSUME NEW o, NEW p, NEW q, Keeps(o, p), Keeps(p, q)
    PROVE  Keeps(o, q)
BY DEF Keeps, OpensNothing

(* Setting the state keeps the order. *)
LEMMA KeepsState ==
    ASSUME NEW o \in OrderRec, NEW s \in OrderState
    PROVE  Keeps(o, [o EXCEPT !.state = s])
BY DEF Keeps, OpensNothing, OrderRec

(* Setting one of the flags keeps the order. *)
LEMMA KeepsFlags ==
    ASSUME NEW o \in OrderRec, NEW b \in BOOLEAN
    PROVE  /\ Keeps(o, [o EXCEPT !.term = TRUE])
           /\ Keeps(o, [o EXCEPT !.toIdle = b])
           /\ Keeps(o, [o EXCEPT !.toReplace = b])
           /\ Keeps(o, [o EXCEPT !.created = b])
           /\ Keeps(o, [o EXCEPT !.byCancel = b])
           /\ Keeps(o, [o EXCEPT !.armed = b])
<1>1. Keeps(o, [o EXCEPT !.term = TRUE])
  BY DEF Keeps, OpensNothing, OrderRec
<1>2. /\ Keeps(o, [o EXCEPT !.toIdle = b])
      /\ Keeps(o, [o EXCEPT !.toReplace = b])
      /\ Keeps(o, [o EXCEPT !.created = b])
  BY DEF Keeps, OpensNothing, OrderRec
<1>3. /\ Keeps(o, [o EXCEPT !.byCancel = b])
      /\ Keeps(o, [o EXCEPT !.armed = b])
  BY DEF Keeps, OpensNothing, OrderRec
<1>4. QED BY <1>1, <1>2, <1>3

(* An empty slot may be cleared; so may one whose instruction is over. *)
LEMMA KeepsClear ==
    ASSUME NEW o \in OrderRec, o.instr.st # "Running"
    PROVE  Keeps(o, ClearPendingInstruction(o))
BY DEF Keeps, OpensNothing, OrderRec, ClearPendingInstruction, NoInstr, Instruction

(* Clearing an instruction that is over, as compute does on entry, keeps the order. *)
LEMMA KeepsRest ==
    ASSUME NEW o \in OrderRec
    PROVE  Keeps(o, ClearDone(o)) /\ Keeps(o, Rest(o))
BY KeepsClear, KeepsRefl DEF ClearDone, Rest

(* Entering a resting state (set_state and the compute it ends in) keeps the order. *)
LEMMA KeepsEnter ==
    ASSUME NEW o \in OrderRec, NEW s \in OrderState
    PROVE  Keeps(o, Enter(o, s))
BY KeepsState, KeepsRest, KeepsTrans DEF Enter, Keeps

(* Asking for a mode, and taking the one asked for, keep the order. *)
LEMMA KeepsMode ==
    ASSUME NEW o \in OrderRec, NEW m \in OrderMode
    PROVE  /\ Keeps(o, TakeMode(o))
           /\ Keeps(o, [o EXCEPT !.pendingMode = m])
<1>1. Keeps(o, [o EXCEPT !.pendingMode = m])
  BY DEF Keeps, OpensNothing, OrderRec
<1>2. CASE o.pendingMode = "None"
  BY <1>1, <1>2, KeepsRefl DEF TakeMode
<1>3. CASE o.pendingMode # "None"
  <2>1. o.pendingMode \in OrderMode
    BY <1>3 DEF OrderRec
  <2>2. Keeps(o, [o EXCEPT !.mode = o.pendingMode, !.pendingMode = "None"])
    BY <2>1 DEF Keeps, OpensNothing, OrderRec
  <2>3. QED BY <1>1, <1>3, <2>2 DEF TakeMode
<1>4. QED BY <1>2, <1>3

(* The slot takes a new instruction only when nothing is Running in it. *)
LEMMA KeepsSetPending ==
    ASSUME NEW o \in OrderRec, NEW kind \in InstructionKind, NEW stop \in Int,
           kind = "CancelReplaceOrder" => o.seq < MaxSeq, kind = "CreateOrder" => ~o.term
    PROVE  Keeps(o, SetPendingInstruction(o, kind, stop))
<1> DEFINE i == NewInstruction(o, kind, stop)
<1>1. NextId(o) \in 0..(IdPeriod - 1)
  <2>1. o.lastId \in Nat /\ IdPeriod \in Nat \ {0}
    BY IdAssumption DEF OrderRec
  <2>2. QED BY <2>1 DEF NextId
<1>2. i \in Instruction /\ i.st = "New" /\ i.kind = kind
  <2> DEFINE qty == IF kind = "CancelReplaceOrder" THEN o.qty - o.filled ELSE o.qty
             seq == IF kind = "CancelReplaceOrder" THEN o.seq + 1 ELSE o.seq
  <2>1. qty \in Int /\ seq \in 0..MaxSeq
    BY SeqAssumption DEF OrderRec
  <2>2. i = [kind |-> kind, st |-> "New", id |-> NextId(o), stop |-> stop,
             qty |-> qty, seq |-> seq]
    BY DEF NewInstruction
  <2> HIDE DEF i, qty, seq
  <2>3. QED BY <1>1, <2>1, <2>2 DEF Instruction, InstructionState
<1> HIDE DEF i
<1>3. CASE ~MayOverride(o, kind)
  BY <1>3, KeepsRefl DEF SetPendingInstruction
<1>4. CASE MayOverride(o, kind)
  <2>1. o.instr.st # "Running"
    BY <1>4 DEF MayOverride, HasInstr, OrderRec, Instruction, NoInstr, InstructionKind
  <2>2. SetPendingInstruction(o, kind, stop) = [o EXCEPT !.instr = i, !.lastId = NextId(o)]
    BY <1>4 DEF SetPendingInstruction, i
  <2>3. [o EXCEPT !.instr = i, !.lastId = NextId(o)] \in OrderRec
    BY <1>1, <1>2 DEF OrderRec
  <2>4. [o EXCEPT !.instr = i, !.lastId = NextId(o)].instr.st = "New"
    BY <1>2 DEF OrderRec
  <2>5. OpensNothing(o, [o EXCEPT !.instr = i, !.lastId = NextId(o)])
    <3>1. /\ [o EXCEPT !.instr = i, !.lastId = NextId(o)].instr = i
          /\ [o EXCEPT !.instr = i, !.lastId = NextId(o)].term = o.term
      BY DEF OrderRec
    <3>2. QED BY <1>2, <3>1 DEF OpensNothing
  <2>6. QED BY <2>1, <2>2, <2>3, <2>4, <2>5 DEF Keeps
<1>5. QED BY <1>3, <1>4

(* Installing what a handler asked for keeps what the handler keeps. *)
LEMMA DoneInstall ==
    ASSUME NEW o, NEW h, Handled(o, h)
    PROVE  Done(o, Install(h))
<1>1. CASE ~h.ok \/ h.ask = "None"
  BY <1>1 DEF Install, Done, Handled, Ok, Err
<1>2. CASE h.ok /\ h.ask # "None"
  <2>1. h.ask \in InstructionKind /\ h.o \in OrderRec
    BY <1>2 DEF Handled, Keeps
  <2>2. Keeps(h.o, SetPendingInstruction(h.o, h.ask, h.stop))
    BY <2>1, KeepsSetPending DEF Handled
  <2>3. Keeps(o, SetPendingInstruction(h.o, h.ask, h.stop))
    BY <2>2, KeepsTrans DEF Handled
  <2>4. QED BY <1>2, <2>3 DEF Install, Done, Ok
<1>3. QED BY <1>1, <1>2 DEF Handled
----------------------------------------------------------------------------
(* Handlers *)

(* A handler that returns Ok(None) or an error is sound when the order it leaves is. *)
LEMMA HandledNothing ==
    ASSUME NEW o, NEW p, Keeps(o, p)
    PROVE  Handled(o, Nothing(p)) /\ Handled(o, Failure(p))
BY DEF Handled, Nothing, Failure

(* So is one that asks for an instruction; a replacement needs a free number and slot. *)
LEMMA HandledAsk ==
    ASSUME NEW o, NEW p, Keeps(o, p), NEW kind \in InstructionKind, NEW stop \in Int,
           kind = "CancelReplaceOrder" => p.seq < MaxSeq /\ ~HasInstr(p),
           kind = "CreateOrder" => ~p.term
    PROVE  Handled(o, Ask(p, kind, stop))
BY DEF Handled, Ask

(* A resting state leaves the sequence number, the flags and an empty slot alone. *)
LEMMA EnterSeq ==
    ASSUME NEW o \in OrderRec, NEW s \in OrderState
    PROVE  /\ Enter(o, s).seq = o.seq /\ Enter(o, s).term = o.term
           /\ ~HasInstr(o) => ~HasInstr(Enter(o, s))
BY DEF Enter, Rest, ClearDone, ClearPendingInstruction, OrderRec, HasInstr, NoInstr

(* handle_idle *)
LEMMA HandledIdle ==
    ASSUME NEW o \in OrderRec
    PROVE  Handled(o, HandleIdle(o))
<1> DEFINE m == TakeMode(o)
<1>1. Keeps(o, m) /\ m \in OrderRec
  BY KeepsMode DEF Keeps, OrderMode
<1>2. Handled(o, Nothing(m))
  BY <1>1, HandledNothing
<1>3. Keeps(o, Enter(m, "PendingOpen"))
  BY <1>1, KeepsEnter, KeepsTrans DEF OrderState
<1>4. "CreateOrder" \in InstructionKind /\ m.stop \in Int
  BY <1>1 DEF InstructionKind, OrderRec
<1>5. ASSUME ~m.term PROVE Handled(o, Ask(Enter(m, "PendingOpen"), "CreateOrder", m.stop))
  <2>1. ~Enter(m, "PendingOpen").term
    BY <1>1, <1>5, EnterSeq DEF OrderState
  <2>2. QED BY <1>3, <1>4, <2>1, HandledAsk
<1>6. QED BY <1>2, <1>5 DEF HandleIdle

(* handle_open_failed: the retry countdown stays within its range. *)
LEMMA HandledOpenFailed ==
    ASSUME NEW o \in OrderRec
    PROVE  Handled(o, HandleOpenFailed(o))
<1> DEFINE t == [o EXCEPT !.retries = o.retries - 1, !.term = TRUE]
<1>1. Handled(o, Nothing(o))
  BY HandledNothing, KeepsRefl
<1>2. CASE o.retries > 0
  <2>1. o.retries - 1 \in 0..MaxRetries
    BY <1>2, RetriesAssumption DEF OrderRec
  <2>2. t \in OrderRec /\ Keeps(o, t)
    BY <2>1 DEF OrderRec, Keeps, OpensNothing
  <2>3. Keeps(o, Rest(t))
    BY <2>2, KeepsRest, KeepsTrans
  <2>4. QED BY <1>1, <1>2, <2>3, HandledNothing DEF HandleOpenFailed
<1>3. CASE ~(o.retries > 0)
  <2>1. Keeps(o, Enter(o, "PendingOpen"))
    BY KeepsEnter DEF OrderState
  <2>2. "CreateOrder" \in InstructionKind /\ o.stop \in Int
    BY DEF InstructionKind, OrderRec
  <2>3. ASSUME ~o.term PROVE Handled(o, Ask(Enter(o, "PendingOpen"), "CreateOrder", o.stop))
    <3>1. ~Enter(o, "PendingOpen").term
      BY <2>3, EnterSeq DEF OrderState
    <3>2. QED BY <2>1, <2>2, <3>1, HandledAsk
  <2>4. QED BY <1>1, <1>3, <2>3 DEF HandleOpenFailed
<1>4. QED BY <1>2, <1>3

(* compute_stoploss: the overflow test leaves a number for the replacement. *)
LEMMA HandledStoploss ==
    ASSUME NEW o \in OrderRec, NEW price \in Int
    PROVE  Handled(o, ComputeStoploss(o, price))
<1> DEFINE f == [o EXCEPT !.toReplace = TRUE]
           p == Enter(f, "PendingCancel")
<1>1. CASE ~ShouldTrail(o, price)
  BY <1>1, HandledNothing, KeepsRefl DEF ComputeStoploss
<1>2. CASE ShouldTrail(o, price)
  <2>1. Keeps(o, f) /\ f \in OrderRec /\ f.seq = o.seq /\ ~HasInstr(f)
    <3>1. Keeps(o, f)
      BY KeepsFlags
    <3>2. f.seq = o.seq /\ ~HasInstr(f)
      BY <1>2 DEF OrderRec, ShouldTrail, HasInstr
    <3>3. QED BY <3>1, <3>2 DEF Keeps, OpensNothing
  <2>2. Keeps(o, p) /\ p.seq = o.seq /\ ~HasInstr(p)
    BY <2>1, KeepsEnter, KeepsTrans, EnterSeq DEF OrderState
  <2>3. NewStop(o, price) \in Int
    BY DEF NewStop, TrailDelta, OrderRec
  <2>4. CASE o.seq = MaxSeq
    BY <1>2, <2>2, <2>4, HandledNothing DEF ComputeStoploss
  <2>5. CASE o.seq # MaxSeq
    <3>1. p.seq < MaxSeq
      BY <2>2, <2>5, SeqAssumption DEF OrderRec
    <3>2. Handled(o, Ask(p, "CancelReplaceOrder", NewStop(o, price)))
      BY <2>2, <2>3, <3>1, HandledAsk DEF InstructionKind
    <3>3. QED BY <1>2, <2>5, <3>2 DEF ComputeStoploss
  <2>6. QED BY <2>4, <2>5
<1>3. QED BY <1>1, <1>2

(* handle_opened, handle_partially_filled *)
LEMMA HandledOpened ==
    ASSUME NEW o \in OrderRec, NEW price \in Int
    PROVE  Handled(o, HandleOpened(o, price))
<1>1. CASE price = 0
  BY <1>1, HandledNothing, KeepsRefl DEF HandleOpened
<1>2. CASE price # 0 /\ (o.term \/ o.toIdle)
  <2>1. Keeps(o, Enter(o, "PendingCancel"))
    BY KeepsEnter DEF OrderState
  <2>2. "CancelOrder" \in InstructionKind /\ o.stop \in Int
    BY DEF InstructionKind, OrderRec
  <2>3. Handled(o, Ask(Enter(o, "PendingCancel"), "CancelOrder", o.stop))
    BY <2>1, <2>2, HandledAsk
  <2>4. QED BY <1>2, <2>3 DEF HandleOpened
<1>3. CASE price # 0 /\ ~(o.term \/ o.toIdle)
  BY <1>3, HandledStoploss DEF HandleOpened
<1>4. QED BY <1>1, <1>2, <1>3

(* handle_cancelled *)
LEMMA HandledCancelled ==
    ASSUME NEW o \in OrderRec
    PROVE  Handled(o, HandleCancelled(o))
<1>1. Keeps(o, Enter(o, "Finished")) /\ Enter(o, "Finished") \in OrderRec
  BY KeepsEnter DEF OrderState, Keeps
<1>2. Keeps(o, [Enter(o, "Finished") EXCEPT !.byCancel = TRUE])
  BY <1>1, KeepsFlags, KeepsTrans
<1>3. QED BY <1>2, HandledNothing DEF HandleCancelled

(* handle_closed *)
LEMMA HandledClosed ==
    ASSUME NEW o \in OrderRec
    PROVE  Handled(o, HandleClosed(o))
<1>1. Keeps(o, [o EXCEPT !.created = FALSE])
  BY KeepsFlags
<1>2. Keeps(o, Enter([o EXCEPT !.created = FALSE], "Finished"))
  <2>1. [o EXCEPT !.created = FALSE] \in OrderRec /\ "Finished" \in OrderState
    BY <1>1 DEF Keeps, OrderState
  <2>2. QED BY <1>1, <2>1, KeepsEnter, KeepsTrans
<1>3. QED BY <1>2, HandledNothing DEF HandleClosed

(* handle_filled *)
LEMMA HandledFilled ==
    ASSUME NEW o \in OrderRec
    PROVE  Handled(o, HandleFilled(o))
<1> DEFINE c == [o EXCEPT !.state = "Closed"]
<1>1. Keeps(o, c) /\ c \in OrderRec
  BY KeepsState DEF OrderState, Keeps
<1>2. Handled(c, HandleClosed(c))
  BY <1>1, HandledClosed
<1>3. QED BY <1>1, <1>2, KeepsTrans DEF Handled, HandleFilled

(* set_state(Opened) of a replaced order keeps it. *)
LEMMA DoneReopen ==
    ASSUME NEW o \in OrderRec, NEW price \in Int
    PROVE  Done(o, Reopen(o, price))
<1> DEFINE p == [o EXCEPT !.state = "Opened"]
<1>1. Keeps(o, p) /\ p \in OrderRec
  BY KeepsState DEF OrderState, Keeps
<1>2. Keeps(o, ClearDone(p)) /\ ClearDone(p) \in OrderRec
  BY <1>1, KeepsRest, KeepsTrans DEF Keeps, OpensNothing
<1>3. Handled(o, HandleOpened(ClearDone(p), price))
  BY <1>2, HandledOpened, KeepsTrans DEF Handled
<1>4. Done(o, Install(HandleOpened(ClearDone(p), price)))
  BY <1>3, DoneInstall
<1>5. QED BY <1>1, <1>4 DEF Reopen, Done, Ok

(* handle_replaced *)
LEMMA HandledReplaced ==
    ASSUME NEW o \in OrderRec, NEW price \in Int
    PROVE  Handled(o, HandleReplaced(o, price))
<1> DEFINE r == Reopen(o, price)
<1>1. Keeps(o, r.o) /\ r.o \in OrderRec
  BY DoneReopen DEF Done, Keeps
<1>2. Handled(o, HandleOpened(r.o, price))
  BY <1>1, HandledOpened, KeepsTrans DEF Handled
<1>3. Handled(o, Nothing(r.o)) /\ Handled(o, Failure(r.o))
  BY <1>1, HandledNothing
<1>4. QED BY <1>2, <1>3 DEF HandleReplaced, AskAgain

(* compute_next_instruction keeps the order, whatever its state. *)
LEMMA HandledNext ==
    ASSUME NEW o \in OrderRec, NEW price \in Int
    PROVE  Handled(o, NextInstruction(o, price))
<1>1. CASE o.state = "Idle"
  BY <1>1, HandledIdle DEF NextInstruction
<1>2. CASE o.state = "OpenFailed"
  BY <1>2, HandledOpenFailed DEF NextInstruction
<1>3. CASE o.state \in {"Opened", "PartiallyFilled"}
  BY <1>3, HandledOpened DEF NextInstruction
<1>4. CASE o.state = "Cancelled"
  BY <1>4, HandledCancelled DEF NextInstruction
<1>5. CASE o.state = "Expired"
  BY <1>5, HandledNothing, KeepsRefl DEF NextInstruction
<1>6. CASE o.state = "Replaced"
  BY <1>6, HandledReplaced DEF NextInstruction
<1>7. CASE o.state = "Filled"
  BY <1>7, HandledFilled DEF NextInstruction
<1>8. CASE o.state = "Closed"
  BY <1>8, HandledClosed DEF NextInstruction
<1>9. CASE o.state \notin {"Idle", "OpenFailed", "Opened", "PartiallyFilled", "Cancelled",
                          "Expired", "Replaced", "Filled", "Closed"}
  BY <1>9, HandledNothing, KeepsRefl DEF NextInstruction
<1>10. QED BY <1>1, <1>2, <1>3, <1>4, <1>5, <1>6, <1>7, <1>8, <1>9
----------------------------------------------------------------------------
(* compute, set_state and the public methods *)

(* compute, without an instruction to pre-empt, keeps the order. *)
LEMMA DoneAdvance ==
    ASSUME NEW o \in OrderRec, NEW price \in Int
    PROVE  Done(o, Advance(o, price))
<1>1. Keeps(o, ClearDone(o)) /\ ClearDone(o) \in OrderRec
  BY KeepsRest DEF Keeps, OpensNothing
<1>2. Handled(o, NextInstruction(ClearDone(o), price))
  BY <1>1, HandledNext, KeepsTrans DEF Handled
<1>3. QED BY <1>2, DoneInstall, KeepsRefl DEF Advance, Done, Ok

(* Steps that follow one another keep the order: p reached from o, r from p. *)
LEMMA DoneAfter ==
    ASSUME NEW o, NEW p, NEW r, Keeps(o, p), Done(p, r)
    PROVE  Done(o, r)
BY KeepsTrans DEF Done

(* A method that keeps the order may succeed or fail. *)
LEMMA DoneOk ==
    ASSUME NEW o, NEW p, Keeps(o, p)
    PROVE  Done(o, Ok(p)) /\ Done(o, Err(p))
BY DEF Done, Ok, Err

(* Reverting to Idle or Opened keeps the order. *)
LEMMA DoneReverted ==
    ASSUME NEW o \in OrderRec, NEW price \in Int
    PROVE  Done(o, Reverted(o, price))
<1>1. ASSUME NEW s \in {"Idle", "Opened"}
      PROVE  Done(o, Advance([o EXCEPT !.state = s], price))
  <2> DEFINE q == [o EXCEPT !.state = s]
  <2>1. s \in OrderState
    BY DEF OrderState
  <2>2. Keeps(o, q)
    BY <2>1, KeepsState
  <2> HIDE DEF q
  <2>3. q \in OrderRec
    BY <2>2 DEF Keeps
  <2>4. Done(o, Advance(q, price))
    BY <2>2, <2>3, DoneAdvance, DoneAfter
  <2>5. QED BY <2>4 DEF q
<1>2. CASE o.state = "PendingOpen"
  BY <1>1, <1>2 DEF Reverted
<1>3. CASE o.state = "PendingCancel"
  BY <1>1, <1>3 DEF Reverted
<1>4. CASE o.state \notin {"PendingOpen", "PendingCancel"}
  BY <1>4, DoneOk, KeepsRefl DEF Reverted
<1>5. QED BY <1>2, <1>3, <1>4

(* Resetting the flag of a withdrawn cancellation keeps the order. *)
LEMMA KeepsUnflagged ==
    ASSUME NEW o, NEW p \in OrderRec
    PROVE  Keeps(p, Unflagged(o, p))
<1>1. /\ Keeps(p, [p EXCEPT !.toReplace = FALSE])
      /\ Keeps(p, [p EXCEPT !.toIdle = FALSE])
      /\ Keeps(p, p)
  BY KeepsFlags, KeepsRefl
<1>2. CASE o.state = "PendingCancel" /\ o.toReplace
  BY <1>1, <1>2 DEF Unflagged
<1>3. CASE o.state = "PendingCancel" /\ ~o.toReplace /\ o.toIdle
  BY <1>1, <1>3 DEF Unflagged
<1>4. CASE ~(o.state = "PendingCancel" /\ (o.toReplace \/ o.toIdle))
  BY <1>1, <1>4 DEF Unflagged
<1>5. QED BY <1>2, <1>3, <1>4

(* An instruction that is Running cannot be withdrawn. *)
LEMMA DoneCancelPending ==
    ASSUME NEW o \in OrderRec, NEW price \in Int
    PROVE  Done(o, CancelPendingInstruction(o, price))
<1> DEFINE p == ClearPendingInstruction(o)
           r == Reverted(p, price)
           u == Unflagged(o, r.o)
<1>1. CASE o.term \/ ~HasInstr(o) \/ o.instr.st # "New"
  BY <1>1, DoneOk, KeepsRefl DEF CancelPendingInstruction
<1>2. CASE ~(o.term \/ ~HasInstr(o) \/ o.instr.st # "New")
  <2>1. Keeps(o, p) /\ p \in OrderRec
    BY <1>2, KeepsClear DEF Keeps, OpensNothing
  <2>2. Done(o, r) /\ r.o \in OrderRec
    <3>1. Done(p, r)
      BY <2>1, DoneReverted
    <3>2. Done(o, r)
      BY <2>1, <3>1, DoneAfter
    <3>3. QED BY <3>2 DEF Done, Keeps
  <2>3. Keeps(o, u) /\ u \in OrderRec
    BY <2>2, KeepsUnflagged, KeepsTrans DEF Done, Keeps
  <2>4. Done(o, Advance(u, price))
    BY <2>3, DoneAdvance, DoneAfter
  <2>5. QED BY <1>2, <2>2, <2>4 DEF CancelPendingInstruction, Withdrawn
<1>3. QED BY <1>1, <1>2

(* compute neither starts nor drops a Running instruction. *)
LEMMA DoneCompute ==
    ASSUME NEW o \in OrderRec, NEW price \in Int
    PROVE  Done(o, Compute(o, price))
<1> DEFINE r == NextInstruction(ClearDone(o), price)
           c == CancelPendingInstruction(r.o, price)
<1>1. Keeps(o, ClearDone(o)) /\ ClearDone(o) \in OrderRec
  BY KeepsRest DEF Keeps, OpensNothing
<1>2. Handled(o, r) /\ r.o \in OrderRec
  BY <1>1, HandledNext, KeepsTrans DEF Handled, Keeps
<1>3. Done(o, Install(r))
  BY <1>2, DoneInstall
<1>4. Done(o, c) /\ c.o \in OrderRec
  BY <1>2, DoneCancelPending, DoneAfter DEF Handled, Done, Keeps
<1>5. CASE ~Gate(o) \/ ~Preempts(r) \/ ~c.ok
  BY <1>3, <1>4, <1>5, DoneOk, KeepsRefl DEF Compute, Resolve, InstallAfter
<1>6. CASE Gate(o) /\ Preempts(r) /\ c.ok
  <2>1. r.ask \in InstructionKind /\ r.stop \in Int
    BY <1>2, <1>6 DEF Handled, Preempts
  <2>2. r.ask # "CancelReplaceOrder" /\ r.ask # "CreateOrder"
    BY <1>2, <1>6 DEF Handled, Preempts, Outranks
  <2>3. Keeps(o, SetPendingInstruction(c.o, r.ask, r.stop))
    <3>1. Keeps(c.o, SetPendingInstruction(c.o, r.ask, r.stop))
      BY <1>4, <2>1, <2>2, KeepsSetPending
    <3>2. QED BY <1>4, <3>1, KeepsTrans DEF Done
  <2>4. QED BY <1>6, <2>3, DoneOk DEF Compute, Resolve, InstallAfter
<1>7. QED BY <1>5, <1>6

(* An order reached from o, then computed. *)
LEMMA DoneComputeAfter ==
    ASSUME NEW o, NEW p, Keeps(o, p), NEW price \in Int
    PROVE  Done(o, Compute(p, price)) /\ Compute(p, price).o \in OrderRec
<1>1. p \in OrderRec
  BY DEF Keeps, OpensNothing
<1>2. QED BY <1>1, DoneCompute, DoneAfter DEF Done, Keeps

(* set_state keeps the order, accepted or refused. *)
LEMMA DoneSetState ==
    ASSUME NEW o \in OrderRec, NEW to \in OrderState, NEW price \in Int
    PROVE  Done(o, SetState(o, to, price))
<1>1. Target(o.state, to) \in OrderState
  BY DEF Target, OrderState
<1>2. Keeps(o, [o EXCEPT !.state = Target(o.state, to)])
  BY <1>1, KeepsState
<1>3. QED BY <1>2, DoneComputeAfter, DoneOk, KeepsRefl DEF SetState

(* The calls a strategy or a trade makes. *)
LEMMA DoneCalls ==
    ASSUME NEW o \in OrderRec, NEW price \in Int
    PROVE  /\ Done(o, Terminate(o, price))
           /\ Done(o, CancelAndIdle(o, price))
           /\ Done(o, Pause(o, price))
           /\ Done(o, Resume(o, price))
           /\ Done(o, CancelPendingInstruction(o, price))
<1>1. Done(o, Terminate(o, price))
  BY KeepsFlags, DoneComputeAfter DEF Terminate
<1>2. Done(o, CancelAndIdle(o, price))
  BY KeepsFlags, DoneComputeAfter, DoneOk, KeepsRefl DEF CancelAndIdle
<1>3. ASSUME NEW m \in OrderMode
      PROVE  Done(o, SetPendingMode(o, m, price))
  BY KeepsMode, DoneComputeAfter DEF SetPendingMode
<1>4. Done(o, Pause(o, price)) /\ Done(o, Resume(o, price))
  BY <1>3 DEF Pause, Resume, OrderMode
<1>5. QED BY <1>1, <1>2, <1>4, DoneCancelPending

(* A confirmation that sets the state and computes once more. *)
LEMMA DoneThenCompute ==
    ASSUME NEW o, NEW r, Done(o, r), NEW price \in Int
    PROVE  /\ Done(o, Compute(r.o, price))
           /\ Done(o, ThenCompute(r, price))
           /\ Done(o, NotCreated(r))
           /\ Done(o, Created(r))
<1>1. r.o \in OrderRec /\ Keeps(o, r.o)
  BY DEF Done, Keeps
<1>2. /\ Keeps(r.o, [r.o EXCEPT !.created = TRUE])
      /\ Keeps(r.o, [r.o EXCEPT !.created = FALSE])
  BY <1>1, KeepsFlags
<1>3. /\ Keeps(o, [r.o EXCEPT !.created = TRUE])
      /\ Keeps(o, [r.o EXCEPT !.created = FALSE])
  BY <1>1, <1>2, KeepsTrans
<1>4. Done(o, NotCreated(r))
  BY <1>3, DoneOk DEF NotCreated
<1>5. Done(o, Created(r))
  BY <1>3, DoneOk DEF Created
<1>6. Done(o, Compute(r.o, price))
  BY <1>1, DoneComputeAfter
<1>7. Done(o, ThenCompute(r, price))
  BY <1>6 DEF ThenCompute
<1>8. QED BY <1>4, <1>5, <1>6, <1>7

(* The confirmation that an order was opened. *)
LEMMA DoneOpened ==
    ASSUME NEW o \in OrderRec, NEW price \in Int
    PROVE  Done(o, ConfirmOpened(o, price))
<1> DEFINE r == SetState(o, "Opened", price)
<1>1. Done(o, r)
  BY DoneSetState DEF OrderState
<1>2. Done(o, ThenCompute(Created(r), price))
  BY <1>1, DoneThenCompute
<1>3. QED BY <1>2, DoneOk, KeepsRefl DEF ConfirmOpened

(* The confirmations that only set a state keep the order. *)
LEMMA DoneFailures ==
    ASSUME NEW o \in OrderRec, NEW price \in Int
    PROVE  /\ Done(o, ConfirmOpenFailed(o, price))
           /\ Done(o, ConfirmReplaceFailed(o, price))
           /\ Done(o, ConfirmCancelFailed(o, price))
           /\ Done(o, ConfirmRejected(o, price))
           /\ Done(o, ConfirmExpired(o, price))
<1>1. ASSUME NEW s \in OrderState
      PROVE  /\ Done(o, SetState(o, s, price))
             /\ Done(o, ThenCompute(SetState(o, s, price), price))
  BY DoneSetState, DoneThenCompute
<1>2. /\ "OpenFailed" \in OrderState
      /\ "ReplaceFailed" \in OrderState
      /\ {"CancelFailed", "Rejected", "Expired"} \subseteq OrderState
  BY DEF OrderState
<1>3. Done(o, ConfirmOpenFailed(o, price))
  BY <1>1, <1>2, DoneOk, KeepsRefl DEF ConfirmOpenFailed
<1>4. Done(o, ConfirmReplaceFailed(o, price))
  BY <1>1, <1>2, DoneOk, KeepsRefl DEF ConfirmReplaceFailed
<1>5. QED BY <1>1, <1>2, <1>3, <1>4 DEF ConfirmCancelFailed, ConfirmRejected, ConfirmExpired

(* confirm_filled keeps the order. *)
LEMMA DoneFilled ==
    ASSUME NEW o \in OrderRec, NEW price \in Int, NEW filled \in Nat, NEW full \in BOOLEAN
    PROVE  Done(o, ConfirmFilled(o, filled, full, price))
<1> DEFINE f == [o EXCEPT !.filled = filled]
           s == IF full THEN "Filled" ELSE "PartiallyFilled"
           r == SetState(f, s, price)
<1>1. Keeps(o, f) /\ f \in OrderRec
  BY DEF Keeps, OpensNothing, OrderRec
<1>2. s \in OrderState
  BY DEF OrderState
<1>3. Done(o, r)
  BY <1>1, <1>2, DoneSetState, DoneAfter
<1>4. Done(o, ThenCompute(r, price))
  BY <1>3, DoneThenCompute
<1>5. QED BY <1>4, DoneOk, KeepsRefl DEF ConfirmFilled

(* confirm_cancelled keeps the order, whichever flag it answers. *)
LEMMA DoneCancelled ==
    ASSUME NEW o \in OrderRec, NEW price \in Int
    PROVE  Done(o, ConfirmCancelled(o, price))
<1>1. ASSUME NEW p \in OrderRec, Keeps(o, p), NEW s \in OrderState
      PROVE  Done(o, NotCreated(SetState(p, s, price)))
  BY <1>1, DoneSetState, DoneAfter, DoneThenCompute
<1>2. /\ "CancelledAndPendingReplace" \in OrderState
      /\ "Idle" \in OrderState /\ "Cancelled" \in OrderState
  BY DEF OrderState
<1>3. CASE o.state \in {"Cancelled", "CancelledAndPendingReplace"}
  BY <1>3, DoneOk, KeepsRefl DEF ConfirmCancelled
<1>4. CASE o.state \notin {"Cancelled", "CancelledAndPendingReplace"} /\ o.toReplace
  <2>1. Keeps(o, [o EXCEPT !.toReplace = FALSE]) /\ [o EXCEPT !.toReplace = FALSE] \in OrderRec
    BY KeepsFlags DEF Keeps, OpensNothing
  <2>2. QED BY <1>1, <1>2, <1>4, <2>1 DEF ConfirmCancelled
<1>5. CASE o.state \notin {"Cancelled", "CancelledAndPendingReplace"} /\ ~o.toReplace /\ o.toIdle
  <2> DEFINE p == [o EXCEPT !.toIdle = FALSE]
             r == Pause(p, price)
  <2>1. Keeps(o, p) /\ p \in OrderRec
    BY KeepsFlags DEF Keeps, OpensNothing
  <2>2. Done(o, r) /\ r.o \in OrderRec /\ Keeps(o, r.o)
    <3>1. Done(p, r)
      BY <2>1, DoneCalls
    <3>2. Done(o, r)
      BY <2>1, <3>1, DoneAfter
    <3>3. QED BY <3>2 DEF Done, Keeps
  <2>3. Done(o, NotCreated(SetState(r.o, "Idle", price)))
    BY <1>1, <1>2, <2>2
  <2>4. QED BY <1>5, <2>2, <2>3 DEF ConfirmCancelled
<1>6. CASE o.state \notin {"Cancelled", "CancelledAndPendingReplace"} /\ ~o.toReplace /\ ~o.toIdle
  BY <1>1, <1>2, <1>6, KeepsRefl DEF ConfirmCancelled
<1>7. QED BY <1>3, <1>4, <1>5, <1>6 DEF OrderRec

(* confirm_replaced keeps the order, given a well-typed event. *)
LEMMA DoneReplaced ==
    ASSUME NEW o \in OrderRec, NEW e, e.seq \in 0..MaxSeq, e.stop \in Int,
           e.qty \in Int, e.filled \in Nat, NEW price \in Int
    PROVE  Done(o, ConfirmReplaced(o, e, price))
<1> DEFINE p == [o EXCEPT !.created = TRUE, !.seq = e.seq, !.stop = e.stop,
                          !.qty = e.qty, !.filled = e.filled]
<1>1. Keeps(o, p) /\ p \in OrderRec
  BY DEF Keeps, OpensNothing, OrderRec
<1>2. Done(o, SetState(p, "Replaced", price))
  BY <1>1, DoneSetState, DoneAfter DEF OrderState
<1>3. QED BY <1>2, DoneOk, KeepsRefl DEF ConfirmReplaced

(* The result of a Running instruction empties the slot, or marks it failed:
   afterwards nothing is Running, and a terminated order asks for nothing new. *)
LEMMA ExecutionEnds ==
    ASSUME NEW o \in OrderRec, o.instr.st = "Running", NEW success \in BOOLEAN,
           NEW price \in Int
    PROVE  LET r == ConfirmInstructionExecution(o, o.instr.id, success, price)
           IN  r.o \in OrderRec /\ r.ok \in BOOLEAN /\ r.o.instr.st # "Running"
               /\ OpensNothing(o, r.o)
<1> DEFINE r == ConfirmInstructionExecution(o, o.instr.id, success, price)
           c == ClearPendingInstruction(o)
           f == [o EXCEPT !.instr.st = "Failed", !.term = TRUE]
<1>1. o.instr \in Instruction /\ HasInstr(o)
  BY DEF OrderRec, NoInstr, HasInstr, Instruction, InstructionKind
<1>2. \A s \in InstructionState : InstructionMayMove(o.instr, s) <=> s \in {"Running", "Failed", "Executed"}
  BY <1>1 DEF InstructionMayMove, InstructionMoves, InstructionState
<1>3. c \in OrderRec /\ c.instr.st # "Running" /\ OpensNothing(o, c)
  BY DEF ClearPendingInstruction, OrderRec, NoInstr, OpensNothing
<1>4. f \in OrderRec /\ f.instr.st # "Running" /\ OpensNothing(o, f)
  <2>1. [o.instr EXCEPT !.st = "Failed"] \in Instruction
    BY <1>1 DEF Instruction, InstructionState
  <2>2. f \in OrderRec /\ f.instr.st # "Running"
    BY <2>1 DEF OrderRec, Instruction
  <2>3. f.instr.kind = o.instr.kind /\ f.term = TRUE
    BY <1>1 DEF OrderRec, Instruction
  <2>4. QED BY <2>2, <2>3 DEF OpensNothing
<1>5. ASSUME NEW p \in OrderRec, p.instr.st # "Running", OpensNothing(o, p)
      PROVE  /\ Compute(p, price).o \in OrderRec
             /\ Compute(p, price).ok \in BOOLEAN
             /\ Compute(p, price).o.instr.st # "Running"
             /\ OpensNothing(o, Compute(p, price).o)
  <2>1. Keeps(p, Compute(p, price).o) /\ Compute(p, price).ok \in BOOLEAN
    BY DoneCompute DEF Done
  <2>2. QED BY <1>5, <2>1 DEF Keeps, OpensNothing
<1>6. r = IF success THEN Compute(c, price) ELSE Compute(f, price)
  BY <1>1, <1>2 DEF ConfirmInstructionExecution, InstructionState
<1>7. QED BY <1>3, <1>4, <1>5, <1>6
----------------------------------------------------------------------------
(* A finished order *)

IsFinal(o) == o \in OrderRec /\ o.state = "Finished"

(* Setting a flag, a mode or the filled quantity leaves a finished order finished. *)
LEMMA FinalUpdates ==
    ASSUME NEW o, IsFinal(o), NEW b \in BOOLEAN, NEW m \in OrderMode, NEW filled \in Nat
    PROVE  /\ IsFinal([o EXCEPT !.term = b])
           /\ IsFinal([o EXCEPT !.toIdle = b])
           /\ IsFinal([o EXCEPT !.toReplace = b])
           /\ IsFinal([o EXCEPT !.created = b])
           /\ IsFinal([o EXCEPT !.armed = b])
           /\ IsFinal([o EXCEPT !.pendingMode = m])
           /\ IsFinal([o EXCEPT !.filled = filled])
BY DEF IsFinal, OrderRec

(* So does clearing its slot. *)
LEMMA FinalClear ==
    ASSUME NEW o, IsFinal(o)
    PROVE  IsFinal(ClearPendingInstruction(o)) /\ IsFinal(ClearDone(o))
BY DEF IsFinal, OrderRec, ClearPendingInstruction, ClearDone, NoInstr

(* compute has nothing left to do for it. *)
LEMMA FinalCompute ==
    ASSUME NEW o, IsFinal(o), NEW price
    PROVE  /\ Compute(o, price).ok /\ IsFinal(Compute(o, price).o)
           /\ IsFinal(Advance(o, price).o)
<1> DEFINE c == ClearDone(o)
<1>1. IsFinal(c)
  BY FinalClear
<1>2. NextInstruction(c, price) = Nothing(c)
  BY <1>1 DEF IsFinal, NextInstruction
<1>3. Install(Nothing(c)) = Ok(c) /\ ~Preempts(Nothing(c))
  BY DEF Install, Nothing, Preempts
<1>4. QED BY <1>1, <1>2, <1>3 DEF Compute, Resolve, Advance, Ok

(* No transition leaves Finished. *)
LEMMA FinalSetState ==
    ASSUME NEW o, IsFinal(o), NEW to, NEW price
    PROVE  IsFinal(SetState(o, to, price).o)
<1>1. <<o.state, to>> \notin Moves
  BY DEF IsFinal, Moves
<1>2. QED BY <1>1 DEF SetState, Ok, Err

(* The calls a strategy or a trade makes leave a finished order finished. *)
LEMMA FinalCalls ==
    ASSUME NEW o, IsFinal(o), NEW price
    PROVE  /\ IsFinal(Terminate(o, price).o)
           /\ IsFinal(CancelAndIdle(o, price).o)
           /\ IsFinal(Pause(o, price).o)
           /\ IsFinal(Resume(o, price).o)
           /\ IsFinal(CancelPendingInstruction(o, price).o)
<1>1. IsFinal(Terminate(o, price).o)
  BY FinalUpdates, FinalCompute DEF Terminate, OrderMode
<1>2. IsFinal(CancelAndIdle(o, price).o)
  BY FinalUpdates, FinalCompute DEF CancelAndIdle, OrderMode, Ok
<1>3. IsFinal(Pause(o, price).o) /\ IsFinal(Resume(o, price).o)
  BY FinalUpdates, FinalCompute DEF Pause, Resume, SetPendingMode, OrderMode
<1>4. IsFinal(CancelPendingInstruction(o, price).o)
  <2> DEFINE p == ClearPendingInstruction(o)
  <2>1. IsFinal(p)
    BY FinalClear
  <2>2. Reverted(p, price) = Ok(p) /\ Unflagged(o, p) = p
    BY <2>1 DEF Reverted, Unflagged, IsFinal
  <2>3. IsFinal(Advance(p, price).o)
    BY <2>1, FinalCompute
  <2>4. QED BY <2>2, <2>3 DEF CancelPendingInstruction, Withdrawn, Ok, Err
<1>5. QED BY <1>1, <1>2, <1>3, <1>4

(* So do the confirmations of events. *)
LEMMA FinalConfirms ==
    ASSUME NEW o, IsFinal(o), NEW price, NEW filled \in Nat, NEW full, NEW e
    PROVE  /\ IsFinal(ConfirmOpened(o, price).o)
           /\ IsFinal(ConfirmOpenFailed(o, price).o)
           /\ IsFinal(ConfirmFilled(o, filled, full, price).o)
           /\ IsFinal(ConfirmCancelled(o, price).o)
           /\ IsFinal(ConfirmRejected(o, price).o)
           /\ IsFinal(ConfirmExpired(o, price).o)
           /\ IsFinal(ConfirmReplaced(o, e, price).o)
<1>1. ASSUME NEW p, IsFinal(p), NEW to \in OrderState \ {"Finished"}
      PROVE  SetState(p, to, price) = Err(p)
  BY <1>1 DEF IsFinal, Moves, SetState
<1>2. IsFinal(ConfirmOpened(o, price).o)
  BY <1>1 DEF ConfirmOpened, ThenCompute, Created, OrderState, Err, Ok
<1>3. IsFinal(ConfirmOpenFailed(o, price).o)
  BY <1>1 DEF ConfirmOpenFailed, ThenCompute, OrderState, Err, Ok
<1>4. IsFinal(ConfirmFilled(o, filled, full, price).o)
  <2>1. IsFinal([o EXCEPT !.filled = filled])
    BY FinalUpdates DEF OrderMode
  <2>2. QED BY <1>1, <2>1 DEF ConfirmFilled, ThenCompute, OrderState, Err, Ok
<1>5. IsFinal(ConfirmCancelled(o, price).o)
  <2> DEFINE p == [o EXCEPT !.toReplace = FALSE]
             q == [o EXCEPT !.toIdle = FALSE]
             r == Pause(q, price)
  <2>1. IsFinal(p) /\ IsFinal(q)
    BY FinalUpdates DEF OrderMode
  <2>2. IsFinal(r.o)
    BY <2>1, FinalCalls
  <2>3. ASSUME NEW x, IsFinal(x), NEW to \in OrderState \ {"Finished"}
        PROVE  IsFinal(NotCreated(SetState(x, to, price)).o)
    BY <1>1, <2>3 DEF NotCreated, Err
  <2>4. {"CancelledAndPendingReplace", "Idle", "Cancelled"} \subseteq OrderState \ {"Finished"}
    BY DEF OrderState
  <2>5. QED BY <2>1, <2>2, <2>3, <2>4 DEF ConfirmCancelled, Ok
<1>6. IsFinal(ConfirmRejected(o, price).o) /\ IsFinal(ConfirmExpired(o, price).o)
  BY FinalSetState DEF ConfirmRejected, ConfirmExpired
<1>7. IsFinal(ConfirmReplaced(o, e, price).o)
  BY DEF ConfirmReplaced, IsFinal, Ok, Err
<1>8. QED BY <1>2, <1>3, <1>4, <1>5, <1>6, <1>7

(* So does the result of an instruction. *)
LEMMA FinalExecution ==
    ASSUME NEW o, IsFinal(o), NEW id, NEW success, NEW price
    PROVE  IsFinal(ConfirmInstructionExecution(o, id, success, price).o)
<1> DEFINE f == [o EXCEPT !.instr.st = "Failed", !.term = TRUE]
<1>1. IsFinal(ClearPendingInstruction(o))
  BY FinalClear
<1>2. ASSUME HasInstr(o) PROVE IsFinal(f)
  <2>1. o.instr \in Instruction
    BY <1>2 DEF IsFinal, OrderRec, HasInstr, NoInstr
  <2>2. [o.instr EXCEPT !.st = "Failed"] \in Instruction
    BY <2>1 DEF Instruction, InstructionState
  <2>3. QED BY <2>2 DEF IsFinal, OrderRec
<1>3. QED BY <1>1, <1>2, FinalCompute DEF ConfirmInstructionExecution, Ok, Err
----------------------------------------------------------------------------
(* What every method but the confirmation of an instruction keeps: the type,
   a Running instruction, and being finished.                              *)

Evolves(o, p) == Keeps(o, p) /\ (o.state = "Finished" => p.state = "Finished")

Sound(o, r) == Evolves(o, r.o) /\ r.ok \in BOOLEAN

(* An order evolves into itself. *)
LEMMA EvolvesRefl == ASSUME NEW o \in OrderRec PROVE Evolves(o, o)
BY KeepsRefl DEF Evolves

(* Two evolutions in a row are one. *)
LEMMA EvolvesTrans ==
    ASSUME NEW o, NEW p, NEW q, Evolves(o, p), Evolves(p, q)
    PROVE  Evolves(o, q)
BY KeepsTrans DEF Evolves

(* A method is sound when it keeps the order and leaves a finished one finished. *)
LEMMA SoundDone ==
    ASSUME NEW o \in OrderRec, NEW r, Done(o, r), IsFinal(o) => IsFinal(r.o)
    PROVE  Sound(o, r)
BY DEF Sound, Evolves, Done, IsFinal

(* The calls a strategy or a trade makes are sound. *)
LEMMA SoundCalls ==
    ASSUME NEW o \in OrderRec, NEW price \in Int
    PROVE  /\ Sound(o, Compute(o, price))
           /\ Sound(o, Terminate(o, price))
           /\ Sound(o, CancelAndIdle(o, price))
           /\ Sound(o, Resume(o, price))
           /\ Sound(o, CancelPendingInstruction(o, price))
<1>1. Sound(o, Compute(o, price))
  BY DoneCompute, FinalCompute, SoundDone
<1>2. Sound(o, Terminate(o, price))
  BY DoneCalls, FinalCalls, SoundDone
<1>3. Sound(o, CancelAndIdle(o, price))
  BY DoneCalls, FinalCalls, SoundDone
<1>4. Sound(o, Resume(o, price))
  BY DoneCalls, FinalCalls, SoundDone
<1>5. Sound(o, CancelPendingInstruction(o, price))
  BY DoneCalls, FinalCalls, SoundDone
<1>6. QED BY <1>1, <1>2, <1>3, <1>4, <1>5

(* The confirmations without quantities are sound. *)
LEMMA SoundConfirms ==
    ASSUME NEW o \in OrderRec, NEW price \in Int
    PROVE  /\ Sound(o, ConfirmOpened(o, price))
           /\ Sound(o, ConfirmOpenFailed(o, price))
           /\ Sound(o, ConfirmCancelled(o, price))
           /\ Sound(o, ConfirmRejected(o, price))
           /\ Sound(o, ConfirmExpired(o, price))
<1>1. IsFinal(o) => /\ IsFinal(ConfirmOpened(o, price).o)
                    /\ IsFinal(ConfirmOpenFailed(o, price).o)
                    /\ IsFinal(ConfirmCancelled(o, price).o)
                    /\ IsFinal(ConfirmRejected(o, price).o)
                    /\ IsFinal(ConfirmExpired(o, price).o)
  <2>1. 0 \in Nat
    OBVIOUS
  <2>2. QED BY <2>1, FinalConfirms
<1>2. Sound(o, ConfirmOpened(o, price))
  BY <1>1, DoneOpened, SoundDone
<1>3. Sound(o, ConfirmCancelled(o, price))
  BY <1>1, DoneCancelled, SoundDone
<1>4. Sound(o, ConfirmOpenFailed(o, price))
  BY <1>1, DoneFailures, SoundDone
<1>5. Sound(o, ConfirmRejected(o, price))
  BY <1>1, DoneFailures, SoundDone
<1>6. Sound(o, ConfirmExpired(o, price))
  BY <1>1, DoneFailures, SoundDone
<1>7. QED BY <1>2, <1>3, <1>4, <1>5, <1>6

(* confirm_filled is sound. *)
LEMMA SoundFilled ==
    ASSUME NEW o \in OrderRec, NEW price \in Int, NEW filled \in Nat, NEW full \in BOOLEAN
    PROVE  Sound(o, ConfirmFilled(o, filled, full, price))
BY DoneFilled, FinalConfirms, SoundDone

(* confirm_replaced is sound. *)
LEMMA SoundReplaced ==
    ASSUME NEW o \in OrderRec, NEW e, e.seq \in 0..MaxSeq, e.stop \in Int,
           e.qty \in Int, e.filled \in Nat, NEW price \in Int
    PROVE  Sound(o, ConfirmReplaced(o, e, price))
BY DoneReplaced, FinalConfirms, SoundDone

-----------------------------------------------------------------------------
(* What a method of an order leaves of the exchange's view of it: for the
   ledger of TradeBookProofs.                                              *)

(* An instruction to open the order, or to replace it, that was not sent yet. *)
CreateNew(o)  == o.instr.kind = "CreateOrder" /\ o.instr.st = "New"
ReplaceNew(o) == o.instr.kind = "CancelReplaceOrder" /\ o.instr.st = "New"

(* The states an order is in between two calls of its methods. *)
RestStates ==
    {"Idle", "PendingOpen", "OpenFailed", "Opened", "PartiallyFilled", "PendingCancel",
     "CancelledAndPendingReplace", "Finished"}

(* What holds of an order between two calls: only an order that waits to be
   opened has an instruction for it, and only one that ended was cancelled.
   A stop is opened where the order has it, and trails upwards.               *)
Settled(o) ==
    /\ o.state \in RestStates
    /\ o.state # "Idle" \/ HasInstr(o) \/ o.created => o.armed
    /\ o.byCancel => o.state = "Finished"
    /\ o.type = "stop" => o.side = "Sell"
    /\ CreateNew(o) => o.state = "PendingOpen" /\ o.instr.stop = o.stop
    /\ ReplaceNew(o) => /\ \/ o.state = "PendingCancel" /\ o.toReplace
                           \/ o.state = "CancelledAndPendingReplace"
                        /\ o.instr.stop >= o.stop

(* An order that is to go back to Idle asks to be cancelled. *)
Idles(o) == o.toIdle => o.state \notin {"Opened", "PartiallyFilled"}

(* By its own record the order is not on the book, and nothing was sent that
   may bring it there.                                                      *)
Ashore(o) ==
    \/ o.state \in {"Idle", "OpenFailed", "Finished"}
    \/ o.state = "PendingOpen" /\ CreateNew(o)

(* The states of an order that was announced under its present number. *)
OnBook == {"Opened", "PartiallyFilled", "PendingCancel"}

(* An order that was not opened, or is over, and does not ask to be cancelled. *)
Dormant(o) ==
    /\ o.state \in {"Idle", "PendingOpen", "OpenFailed", "Finished"}
    /\ o.instr.kind # "CancelOrder"

(* An order nothing was asked of yet. *)
Fresh(o) ==
    /\ o.state = "Idle" /\ ~HasInstr(o)
    /\ o.mode = "Normal" /\ o.pendingMode \in {"None", "Normal"}

(* What no method of a settled order does by itself, without an event. *)
Stays(o, p) ==
    /\ Settled(p) /\ p.seq = o.seq /\ p.stop = o.stop
    /\ p.armed = o.armed /\ p.created = o.created
    /\ Ashore(p) => Ashore(o)
    /\ o.state = "PendingOpen" /\ ~CreateNew(o) => p.state = "PendingOpen"
    /\ o.state = "CancelledAndPendingReplace" =>
          /\ p.state = "CancelledAndPendingReplace"
          /\ p.instr.st = "New" => p.instr = o.instr
    /\ o.state = "PendingCancel" =>
          /\ p.state = "PendingCancel" /\ p.toReplace = o.toReplace
          /\ p.instr.st = "New" => p.instr = o.instr
    /\ p.state \in OnBook <=> o.state \in OnBook
    /\ Dormant(o) => Dormant(p)
    /\ p.state = "Finished" <=> o.state = "Finished"
    /\ p.byCancel <=> o.byCancel
    /\ ReplaceNew(p) => p.instr = o.instr \/ (p.state = "PendingCancel" /\ p.toReplace)

(* A settled order stays as it is. *)
LEMMA StaysRefl == ASSUME NEW o \in OrderRec, Settled(o) PROVE Stays(o, o)
BY DEF Stays

(* What two methods in a row leave as it is, both do. *)
LEMMA StaysTrans ==
    ASSUME NEW o, NEW p, NEW q, Stays(o, p), Stays(p, q)
    PROVE  Stays(o, q)
BY DEF Stays, Ashore, CreateNew, ReplaceNew, OnBook

(* The fields that compute leaves alone at a resting state. *)
SameFields(o, p) ==
    /\ p.seq = o.seq /\ p.armed = o.armed /\ p.term = o.term /\ p.toIdle = o.toIdle
    /\ p.toReplace = o.toReplace /\ p.byCancel = o.byCancel /\ p.created = o.created
    /\ p.stop = o.stop /\ p.type = o.type /\ p.side = o.side

(* Where a stop is, and which way it trails. *)
SameStop(o, p) == p.stop = o.stop /\ p.type = o.type /\ p.side = o.side

(* The slot is as it was, or an instruction that is over was cleared. *)
SlotKept(o, p) ==
    \/ p.instr = o.instr
    \/ p.instr = NoInstr /\ o.instr.st \in {"Executed", "Failed"}

(* compute at a resting state, and set_state to one. *)
LEMMA RestFields ==
    ASSUME NEW o \in OrderRec, NEW s \in OrderState
    PROVE  /\ ClearDone(o) \in OrderRec /\ Enter(o, s) \in OrderRec
           /\ ClearDone(o).state = o.state /\ Enter(o, s).state = s
           /\ SameFields(o, ClearDone(o)) /\ SameFields(o, Enter(o, s))
           /\ SlotKept(o, ClearDone(o)) /\ SlotKept(o, Enter(o, s))
           /\ ClearDone(o).mode = o.mode /\ ClearDone(o).pendingMode = o.pendingMode
<1>1. ClearDone(o) \in OrderRec /\ Enter(o, s) \in OrderRec
  BY KeepsRest, KeepsEnter DEF Keeps
<1>2. \A q \in OrderRec :
         /\ ClearDone(q).state = q.state /\ SameFields(q, ClearDone(q)) /\ SlotKept(q, ClearDone(q))
         /\ ClearDone(q).mode = q.mode /\ ClearDone(q).pendingMode = q.pendingMode
  BY DEF ClearDone, ClearPendingInstruction, OrderRec, SameFields, SlotKept
<1>3. \A q \in OrderRec :
         Rest(q).state = q.state /\ SameFields(q, Rest(q)) /\ SlotKept(q, Rest(q))
  BY <1>2 DEF Rest, SameFields, SlotKept
<1> DEFINE p == [o EXCEPT !.state = s]
<1>4. p \in OrderRec /\ p.state = s /\ SameFields(o, p) /\ p.instr = o.instr
  BY DEF OrderRec, SameFields
<1>5. Rest(p).state = s /\ SameFields(p, Rest(p)) /\ SlotKept(p, Rest(p))
  BY <1>3, <1>4
<1>6. Enter(o, s).state = s /\ SameFields(o, Enter(o, s)) /\ SlotKept(o, Enter(o, s))
  BY <1>4, <1>5 DEF Enter, SameFields, SlotKept
<1>7. QED BY <1>1, <1>2, <1>6

(* An instruction is installed in the slot, or nothing changes. *)
LEMMA SlotFields ==
    ASSUME NEW o \in OrderRec, NEW kind, NEW stop
    PROVE  LET q == SetPendingInstruction(o, kind, stop)
           IN  /\ q.state = o.state /\ SameFields(o, q)
               /\ q.instr = o.instr \/ (q.instr.kind = kind /\ q.instr.st = "New" /\ q.instr.stop = stop)
BY DEF SetPendingInstruction, NewInstruction, OrderRec, SameFields

(* handle_idle: an order that is to be opened waits for it, with the slot
   still as it was; any other stays Idle.                                   *)
LEMMA IdleFields ==
    ASSUME NEW o \in OrderRec, o.state = "Idle"
    PROVE  LET r == HandleIdle(o)
           IN  /\ SameFields(o, r.o) /\ SlotKept(o, r.o) /\ r.ok /\ r.o \in OrderRec
               /\ \/ r.ask = "None" /\ r.o.state = "Idle" /\ r.o.instr = o.instr
                  \/ r.ask = "CreateOrder" /\ r.o.state = "PendingOpen" /\ r.stop = o.stop
<1> DEFINE m == TakeMode(o)
<1>1. m \in OrderRec
  BY KeepsMode DEF Keeps, OrderMode
<1>2. m.state = "Idle" /\ SameFields(o, m) /\ m.instr = o.instr
  BY DEF TakeMode, OrderRec, SameFields
<1> HIDE DEF m
<1>3. "PendingOpen" \in OrderState
  BY DEF OrderState
<1>4. LET p == Enter(m, "PendingOpen")
      IN  p.state = "PendingOpen" /\ SameFields(m, p) /\ SlotKept(m, p) /\ p \in OrderRec
  BY <1>1, <1>3, RestFields
<1>5. HandleIdle(o) = Nothing(m) \/ HandleIdle(o) = Ask(Enter(m, "PendingOpen"), "CreateOrder", m.stop)
  BY DEF HandleIdle, m
<1>6. CASE HandleIdle(o) = Nothing(m)
  BY <1>1, <1>2, <1>6 DEF Nothing, SlotKept
<1>7. CASE HandleIdle(o) = Ask(Enter(m, "PendingOpen"), "CreateOrder", m.stop)
  <2>1. SameFields(o, Enter(m, "PendingOpen")) /\ SlotKept(o, Enter(m, "PendingOpen"))
    BY <1>2, <1>4 DEF SameFields, SlotKept
  <2>2. QED BY <1>2, <1>4, <1>7, <2>1 DEF Ask, SameFields
<1>8. QED BY <1>5, <1>6, <1>7

(* handle_open_failed: the order gives up, or waits to be opened once more. *)
LEMMA OpenFailedFields ==
    ASSUME NEW o \in OrderRec, o.state = "OpenFailed"
    PROVE  LET r == HandleOpenFailed(o)
           IN  /\ r.ok /\ r.o \in OrderRec
               /\ r.o.seq = o.seq /\ r.o.armed = o.armed /\ r.o.byCancel = o.byCancel
               /\ r.o.created = o.created /\ SlotKept(o, r.o) /\ SameStop(o, r.o)
               /\ \/ r.ask = "None" /\ r.o.state = "OpenFailed"
                  \/ r.ask = "CreateOrder" /\ r.o.state = "PendingOpen" /\ r.stop = o.stop
<1>1. CASE o.term
  BY <1>1 DEF HandleOpenFailed, Nothing, SlotKept, SameStop
<1>2. CASE ~o.term /\ o.retries > 0
  <2> DEFINE t == [o EXCEPT !.retries = o.retries - 1, !.term = TRUE]
  <2>1. t \in OrderRec
    <3>1. o.retries - 1 \in 0..MaxRetries
      BY <1>2, RetriesAssumption DEF OrderRec
    <3>2. QED BY <3>1 DEF OrderRec
  <2>2. /\ t.state = "OpenFailed" /\ t.seq = o.seq /\ t.armed = o.armed
        /\ t.byCancel = o.byCancel /\ t.created = o.created /\ t.instr = o.instr
        /\ SameStop(o, t)
    BY DEF OrderRec, SameStop
  <2> HIDE DEF t
  <2>3. ClearDone(t) \in OrderRec /\ ClearDone(t).state = t.state
        /\ SameFields(t, ClearDone(t)) /\ SlotKept(t, ClearDone(t))
    BY <2>1, RestFields DEF OrderState
  <2>4. Rest(t) \in OrderRec /\ Rest(t).state = t.state /\ SameFields(t, Rest(t)) /\ SlotKept(t, Rest(t))
    BY <2>1, <2>3 DEF Rest, SameFields, SlotKept
  <2>5. HandleOpenFailed(o) = Nothing(Rest(t))
    BY <1>2 DEF HandleOpenFailed, t
  <2>6. QED BY <2>2, <2>4, <2>5 DEF Nothing, SameFields, SlotKept, SameStop
<1>3. CASE ~o.term /\ ~(o.retries > 0)
  <2>1. "PendingOpen" \in OrderState
    BY DEF OrderState
  <2>2. LET p == Enter(o, "PendingOpen")
        IN  p.state = "PendingOpen" /\ SameFields(o, p) /\ SlotKept(o, p) /\ p \in OrderRec
    BY <2>1, RestFields
  <2>3. QED BY <1>3, <2>2 DEF HandleOpenFailed, Ask, SameFields, SameStop
<1>4. QED BY <1>1, <1>2, <1>3

(* handle_opened: the order stands, or asks to be cancelled or replaced. *)
LEMMA OpenedFields ==
    ASSUME NEW o \in OrderRec, NEW price \in Int
    PROVE  LET r == HandleOpened(o, price)
           IN  /\ r.o \in OrderRec
               /\ r.o.seq = o.seq /\ r.o.armed = o.armed /\ r.o.byCancel = o.byCancel
               /\ r.o.created = o.created /\ SlotKept(o, r.o) /\ SameStop(o, r.o)
               /\ \/ r.ask = "None" /\ r.o = o /\ r.ok /\ (price = 0 \/ ~o.toIdle)
                  \/ r.ask = "CancelOrder" /\ r.o.state = "PendingCancel" /\ r.ok
                  \/ /\ r.ask \in {"None", "CancelReplaceOrder"}
                     /\ r.o.state = "PendingCancel" /\ r.o.toReplace /\ ~HasInstr(r.o)
                     /\ r.ask = "CancelReplaceOrder" /\ Settled(o) => r.stop >= o.stop
<1>1. "PendingCancel" \in OrderState
  BY DEF OrderState
<1>2. CASE HandleOpened(o, price) = Nothing(o) /\ (price = 0 \/ ~o.toIdle)
  BY <1>2 DEF Nothing, SlotKept, SameStop
<1>3. CASE HandleOpened(o, price) = Ask(Enter(o, "PendingCancel"), "CancelOrder", o.stop)
  <2>1. LET p == Enter(o, "PendingCancel")
        IN  p.state = "PendingCancel" /\ SameFields(o, p) /\ SlotKept(o, p) /\ p \in OrderRec
    BY <1>1, RestFields
  <2>2. QED BY <1>3, <2>1 DEF Ask, SameFields, SameStop
<1>4. CASE price # 0 /\ ~(o.term \/ o.toIdle) /\ ShouldTrail(o, price)
  <2> DEFINE f == [o EXCEPT !.toReplace = TRUE]
             p == Enter(f, "PendingCancel")
  <2>1. /\ f \in OrderRec /\ f.toReplace = TRUE /\ f.seq = o.seq /\ f.armed = o.armed
        /\ f.byCancel = o.byCancel /\ f.created = o.created /\ f.instr = o.instr
        /\ SameStop(o, f)
    BY DEF OrderRec, SameStop
  <2> HIDE DEF f
  <2>2. p.state = "PendingCancel" /\ SameFields(f, p) /\ SlotKept(f, p) /\ p \in OrderRec
    BY <1>1, <2>1, RestFields
  <2> HIDE DEF p
  <2>3. ~HasInstr(p)
    BY <1>4, <2>1, <2>2 DEF ShouldTrail, HasInstr, SlotKept, NoInstr
  <2>4. \/ HandleOpened(o, price) = Failure(p)
        \/ HandleOpened(o, price) = Ask(p, "CancelReplaceOrder", NewStop(o, price))
    BY <1>4 DEF HandleOpened, ComputeStoploss, p, f
  <2>5. ASSUME Settled(o) PROVE NewStop(o, price) >= o.stop
    <3>1. o.stop \in Int /\ o.side = "Sell"
      BY <1>4, <2>5 DEF Settled, ShouldTrail, OrderRec
    <3>2. QED BY <3>1 DEF NewStop, TrailDelta
  <2>6. QED BY <2>1, <2>2, <2>3, <2>4, <2>5 DEF Failure, Ask, SameFields, SlotKept, SameStop
<1>5. QED BY <1>2, <1>3, <1>4 DEF HandleOpened, ComputeStoploss

(* Without an instruction to open the order nothing is pre-empted. *)
LEMMA ResolvesAsInstalled ==
    ASSUME NEW r, NEW price, ~CreateNew(r.o) \/ r.ask \in {"None", "CreateOrder"}
    PROVE  Resolve(r, price) = Install(r)
BY DEF Resolve, Preempts, Outranks, CreateNew

(* What Install makes of what a handler returned. *)
LEMMA InstallFields ==
    ASSUME NEW r, r.o \in OrderRec
    PROVE  LET q == Install(r).o
           IN  /\ q.state = r.o.state /\ SameFields(r.o, q)
               /\ \/ q.instr = r.o.instr
                  \/ /\ q.instr.kind = r.ask /\ q.instr.st = "New" /\ r.ask # "None"
                     /\ q.instr.stop = r.stop
BY SlotFields DEF Install, Ok, Err, SameFields

(* An order that nothing more is asked of. *)
LEMMA RestStays ==
    ASSUME NEW o \in OrderRec, Settled(o), NEW p, p.state = o.state, SameFields(o, p), SlotKept(o, p)
    PROVE  Stays(o, p)
<1>1. Settled(p)
  BY DEF Settled, SameFields, SlotKept, HasInstr, CreateNew, ReplaceNew, NoInstr
<1>2. (Ashore(p) => Ashore(o)) /\ (CreateNew(p) => CreateNew(o)) /\ (Dormant(o) => Dormant(p))
  BY DEF SlotKept, Ashore, CreateNew, Dormant, NoInstr
<1>3. (ReplaceNew(p) => p.instr = o.instr) /\ (p.instr.st = "New" => p.instr = o.instr)
  BY DEF SlotKept, ReplaceNew, NoInstr
<1>4. QED BY <1>1, <1>2, <1>3 DEF Stays, SameFields

(* handle_opened, on an order that is settled. *)
LEMMA OpenedStays ==
    ASSUME NEW c \in OrderRec, Settled(c), c.state \in {"Opened", "PartiallyFilled"},
           NEW price \in Int \ {0}
    PROVE  LET r == HandleOpened(c, price)
           IN  r.o \in OrderRec /\ ~CreateNew(r.o) /\ Stays(c, Install(r).o) /\ Idles(Install(r).o)
<1> DEFINE r == HandleOpened(c, price)
           q == Install(r).o
<1>2. /\ r.o \in OrderRec
      /\ r.o.seq = c.seq /\ r.o.armed = c.armed /\ r.o.byCancel = c.byCancel
      /\ r.o.created = c.created /\ SlotKept(c, r.o) /\ SameStop(c, r.o)
      /\ \/ r.ask = "None" /\ r.o = c /\ r.ok /\ ~c.toIdle
         \/ r.ask = "CancelOrder" /\ r.o.state = "PendingCancel" /\ r.ok
         \/ /\ r.ask \in {"None", "CancelReplaceOrder"}
            /\ r.o.state = "PendingCancel" /\ r.o.toReplace /\ ~HasInstr(r.o)
            /\ r.ask = "CancelReplaceOrder" => r.stop >= c.stop
  BY OpenedFields
<1> HIDE DEF r
<1>3. /\ q.state = r.o.state /\ SameFields(r.o, q)
      /\ \/ q.instr = r.o.instr
         \/ /\ q.instr.kind = r.ask /\ q.instr.st = "New" /\ r.ask # "None"
            /\ q.instr.stop = r.stop
  BY <1>2, InstallFields
<1> HIDE DEF q
<1>4. ~CreateNew(c)
  BY DEF Settled
<1>5. ~CreateNew(r.o)
  BY <1>2, <1>4 DEF SlotKept, CreateNew, NoInstr
<1>6. /\ q.seq = c.seq /\ q.armed = c.armed /\ q.byCancel = c.byCancel
      /\ q.created = c.created /\ SameStop(c, q)
  BY <1>2, <1>3 DEF SameFields, SameStop
<1>11. ReplaceNew(q) =>
         /\ \/ q.state = "PendingCancel" /\ q.toReplace
            \/ q.state = "CancelledAndPendingReplace"
         /\ q.instr.stop >= q.stop
  BY <1>2, <1>3, <1>6
     DEF Settled, SameFields, SameStop, ReplaceNew, SlotKept, NoInstr, HasInstr
<1>12. Settled(q)
  BY <1>2, <1>3, <1>5, <1>6, <1>11
     DEF Settled, SameFields, SameStop, RestStates, CreateNew, SlotKept, NoInstr, HasInstr
<1>7. /\ ReplaceNew(q) => q.instr = c.instr \/ (q.state = "PendingCancel" /\ q.toReplace)
      /\ ~Ashore(q) /\ ~Dormant(c)
  BY <1>2, <1>3, <1>5
     DEF ReplaceNew, Dormant, SlotKept, NoInstr, SameFields, Ashore, HasInstr
<1>8. Stays(c, q)
  BY <1>2, <1>3, <1>6, <1>7, <1>12 DEF Stays, OnBook, SameFields, SameStop
<1>9. Idles(q)
  BY <1>2, <1>3 DEF Idles, SameFields
<1>10. QED BY <1>2, <1>5, <1>8, <1>9 DEF q, r

(* compute, on an order that is settled. *)
LEMMA ComputeStays ==
    ASSUME NEW o \in OrderRec, Settled(o), NEW price \in Int \ {0}
    PROVE  /\ Stays(o, Compute(o, price).o) /\ Idles(Compute(o, price).o)
           /\ Compute(o, price) = Advance(o, price)
<1> DEFINE c == ClearDone(o)
           r == NextInstruction(c, price)
           q == Install(r).o
<1>1. CASE ~Gate(o)
  BY <1>1, StaysRefl DEF Compute, Advance, Ok, Gate, Settled, Idles
<1>2. CASE Gate(o)
  <2>1. c \in OrderRec /\ c.state = o.state /\ SameFields(o, c) /\ SlotKept(o, c)
    BY RestFields DEF OrderState
  <2>2. Stays(o, c) /\ Settled(c)
    BY <2>1, RestStays DEF Stays
  <2>3. c.armed
    BY <1>2, <2>1 DEF Settled, Gate, SameFields
  <2> HIDE DEF c
  <2>4. /\ r.o \in OrderRec /\ Stays(c, q) /\ Idles(q)
        /\ ~CreateNew(r.o) \/ r.ask \in {"None", "CreateOrder"}
    <3>1. CASE c.state = "Idle"
      <4>1. r = HandleIdle(c)
        BY <3>1 DEF NextInstruction
      <4>2. /\ SameFields(c, r.o) /\ SlotKept(c, r.o) /\ r.ok /\ r.o \in OrderRec
            /\ \/ r.ask = "None" /\ r.o.state = "Idle" /\ r.o.instr = c.instr
               \/ r.ask = "CreateOrder" /\ r.o.state = "PendingOpen" /\ r.stop = c.stop
        BY <2>1, <3>1, <4>1, IdleFields
      <4> HIDE DEF r
      <4>3. /\ q.state = r.o.state /\ SameFields(r.o, q)
            /\ \/ q.instr = r.o.instr
               \/ /\ q.instr.kind = r.ask /\ q.instr.st = "New" /\ r.ask # "None"
                  /\ q.instr.stop = r.stop
        BY <4>2, InstallFields
      <4> HIDE DEF q
      <4>4. ~CreateNew(c)
        BY <2>2, <3>1 DEF Settled
      <4>5. ~CreateNew(r.o)
        BY <4>2, <4>4 DEF SlotKept, CreateNew, NoInstr
      <4>6. /\ q.seq = c.seq /\ q.armed = c.armed /\ q.byCancel = c.byCancel
            /\ q.created = c.created /\ SameStop(c, q)
        BY <4>2, <4>3 DEF SameFields, SameStop
      <4>11. ~ReplaceNew(q) /\ (CreateNew(q) => q.state = "PendingOpen" /\ q.instr.stop = q.stop)
        BY <2>2, <4>2, <4>3, <4>5, <4>6, <3>1
           DEF Settled, SameStop, CreateNew, ReplaceNew, SlotKept, NoInstr
      <4>12. Settled(q)
        BY <2>2, <2>3, <4>2, <4>3, <4>6, <4>11, <3>1
           DEF Settled, SameFields, SameStop, RestStates
      <4>7. (ReplaceNew(q) => q.instr = c.instr) /\ (Dormant(c) => Dormant(q))
        BY <4>2, <4>3, <3>1 DEF ReplaceNew, Dormant, SlotKept, NoInstr
      <4>8. Stays(c, q)
        BY <4>2, <4>3, <4>6, <4>7, <4>12, <3>1 DEF Stays, Ashore, OnBook, SameStop
      <4>9. Idles(q)
        BY <4>2, <4>3 DEF Idles
      <4>10. QED BY <4>2, <4>5, <4>8, <4>9
    <3>2. CASE c.state = "OpenFailed"
      <4>1. r = HandleOpenFailed(c)
        BY <3>2 DEF NextInstruction
      <4>2. /\ r.ok /\ r.o \in OrderRec
            /\ r.o.seq = c.seq /\ r.o.armed = c.armed /\ r.o.byCancel = c.byCancel
            /\ r.o.created = c.created /\ SlotKept(c, r.o) /\ SameStop(c, r.o)
            /\ \/ r.ask = "None" /\ r.o.state = "OpenFailed"
               \/ r.ask = "CreateOrder" /\ r.o.state = "PendingOpen" /\ r.stop = c.stop
        BY <2>1, <3>2, <4>1, OpenFailedFields
      <4> HIDE DEF r
      <4>3. /\ q.state = r.o.state /\ SameFields(r.o, q)
            /\ \/ q.instr = r.o.instr
               \/ /\ q.instr.kind = r.ask /\ q.instr.st = "New" /\ r.ask # "None"
                  /\ q.instr.stop = r.stop
        BY <4>2, InstallFields
      <4> HIDE DEF q
      <4>4. ~CreateNew(c)
        BY <2>2, <3>2 DEF Settled
      <4>5. ~CreateNew(r.o)
        BY <4>2, <4>4 DEF SlotKept, CreateNew, NoInstr
      <4>6. /\ q.seq = c.seq /\ q.armed = c.armed /\ q.byCancel = c.byCancel
            /\ q.created = c.created /\ SameStop(c, q)
        BY <4>2, <4>3 DEF SameFields, SameStop
      <4>11. ~ReplaceNew(q) /\ (CreateNew(q) => q.state = "PendingOpen" /\ q.instr.stop = q.stop)
        BY <2>2, <4>2, <4>3, <4>5, <4>6, <3>2
           DEF Settled, SameStop, CreateNew, ReplaceNew, SlotKept, NoInstr
      <4>12. Settled(q)
        BY <2>2, <2>3, <4>2, <4>3, <4>6, <4>11, <3>2
           DEF Settled, SameFields, SameStop, RestStates
      <4>7. (ReplaceNew(q) => q.instr = c.instr) /\ (Dormant(c) => Dormant(q))
        BY <4>2, <4>3, <3>2 DEF ReplaceNew, Dormant, SlotKept, NoInstr
      <4>8. Stays(c, q)
        BY <4>2, <4>3, <4>6, <4>7, <4>12, <3>2 DEF Stays, Ashore, OnBook, SameStop
      <4>9. Idles(q)
        BY <4>2, <4>3 DEF Idles
      <4>10. QED BY <4>2, <4>5, <4>8, <4>9
    <3>3. CASE c.state \in {"Opened", "PartiallyFilled"}
      BY <2>1, <2>2, <3>3, OpenedStays DEF NextInstruction
    <3>4. CASE c.state \in {"PendingOpen", "PendingCancel", "CancelledAndPendingReplace", "Finished"}
      <4>1. r = Nothing(c) /\ q = c
        BY <3>4 DEF NextInstruction, Nothing, Install, Ok
      <4>2. QED
        BY <2>1, <2>2, <4>1, StaysRefl, <3>4 DEF Nothing, RestStates, Settled, Idles
    <3>5. QED BY <2>2, <3>1, <3>2, <3>3, <3>4 DEF Settled, RestStates
  <2>5. QED
    BY <1>2, <2>2, <2>4, ResolvesAsInstalled, StaysTrans DEF Compute, Advance, c
<1>3. QED BY <1>1, <1>2

(* The fields no part of Stays looks at. *)
LEMMA OtherFieldsStay ==
    ASSUME NEW o \in OrderRec, Settled(o), NEW p, p.state = o.state, p.instr = o.instr,
           p.seq = o.seq, p.armed = o.armed, p.byCancel = o.byCancel,
           p.toReplace = o.toReplace, p.created = o.created, SameStop(o, p)
    PROVE  Stays(o, p)
BY DEF Stays, Settled, Ashore, CreateNew, ReplaceNew, Dormant, HasInstr, SameStop

(* Stays does not depend on whether the order is on the book by its record. *)
LEMMA CreatedStays ==
    ASSUME NEW o \in OrderRec, NEW p \in OrderRec, Stays(o, p), o.armed, NEW b \in BOOLEAN
    PROVE  Stays([o EXCEPT !.created = b], [p EXCEPT !.created = b])
<1> DEFINE f == [o EXCEPT !.created = b]
           g == [p EXCEPT !.created = b]
           Same(u, v) == /\ v.state = u.state /\ v.instr = u.instr /\ v.seq = u.seq
                         /\ v.armed = u.armed /\ v.byCancel = u.byCancel
                         /\ v.toReplace = u.toReplace /\ SameStop(u, v)
<1>1. Same(o, f) /\ Same(p, g) /\ f.created = b /\ g.created = b
  BY DEF OrderRec, SameStop
<1> HIDE DEF f, g
<1>2. Settled(g)
  BY <1>1 DEF Stays, Settled, SameStop, CreateNew, ReplaceNew, HasInstr
<1>3. /\ Ashore(f) <=> Ashore(o)
      /\ Ashore(g) <=> Ashore(p)
      /\ CreateNew(f) <=> CreateNew(o)
      /\ ReplaceNew(g) <=> ReplaceNew(p)
      /\ Dormant(f) <=> Dormant(o)
      /\ Dormant(g) <=> Dormant(p)
  BY <1>1 DEF Ashore, CreateNew, ReplaceNew, Dormant
<1>4. Stays(f, g)
  BY <1>1, <1>2, <1>3 DEF Stays, SameStop
<1>5. QED BY <1>4 DEF f, g

(* terminate, cancel_and_idle, set_pending_mode *)
LEMMA CallsStay ==
    ASSUME NEW o \in OrderRec, Settled(o), NEW price \in Int \ {0}, NEW mode \in OrderMode
    PROVE  /\ Stays(o, Terminate(o, price).o)
           /\ Stays(o, CancelAndIdle(o, price).o)
           /\ Stays(o, SetPendingMode(o, mode, price).o)
           /\ Idles(o) => /\ Idles(Terminate(o, price).o)
                          /\ Idles(CancelAndIdle(o, price).o)
                          /\ Idles(SetPendingMode(o, mode, price).o)
<1> DEFINE p1 == [o EXCEPT !.term = TRUE]
           p2 == [o EXCEPT !.toIdle = TRUE]
           p3 == [o EXCEPT !.pendingMode = mode]
<1>1. p1 \in OrderRec /\ p2 \in OrderRec /\ p3 \in OrderRec
  BY KeepsFlags, KeepsMode DEF Keeps
<1>2. Stays(o, p1) /\ Stays(o, p2) /\ Stays(o, p3)
  <2>1. \A p \in {p1, p2, p3} :
          /\ p.state = o.state /\ p.instr = o.instr /\ p.seq = o.seq /\ p.armed = o.armed
          /\ p.byCancel = o.byCancel /\ p.toReplace = o.toReplace /\ p.created = o.created
          /\ SameStop(o, p)
    BY DEF OrderRec, SameStop
  <2> HIDE DEF p1, p2, p3
  <2>2. \A p \in {p1, p2, p3} : Stays(o, p)
    BY <2>1, OtherFieldsStay
  <2>3. QED BY <2>2
<1> HIDE DEF p1, p2, p3
<1>3. /\ Stays(p1, Compute(p1, price).o) /\ Idles(Compute(p1, price).o)
      /\ Stays(p2, Compute(p2, price).o) /\ Idles(Compute(p2, price).o)
      /\ Stays(p3, Compute(p3, price).o) /\ Idles(Compute(p3, price).o)
  BY <1>1, <1>2, ComputeStays DEF Stays
<1>4. /\ Stays(o, Compute(p1, price).o)
      /\ Stays(o, Compute(p2, price).o)
      /\ Stays(o, Compute(p3, price).o)
  BY <1>2, <1>3, StaysTrans
<1>5. QED
  BY <1>3, <1>4, StaysRefl DEF Terminate, CancelAndIdle, SetPendingMode, Ok, p1, p2, p3

(* resume on an order nothing was asked of: it takes the mode it has. *)
LEMMA ResumeFresh ==
    ASSUME NEW o \in OrderRec, Fresh(o), NEW price
    PROVE  Fresh(Resume(o, price).o)
<1> DEFINE p == [o EXCEPT !.pendingMode = "Normal"]
           c == ClearDone(p)
           m == TakeMode(c)
<1>1. p \in OrderRec /\ p.state = "Idle" /\ p.mode = "Normal" /\ p.pendingMode = "Normal"
      /\ ~HasInstr(p)
  BY DEF OrderRec, OrderMode, Fresh, HasInstr
<1> HIDE DEF p
<1>2. CASE ~Gate(p)
  BY <1>1, <1>2 DEF Resume, SetPendingMode, Compute, Ok, Fresh, p
<1>3. CASE Gate(p)
  <2>1. /\ c \in OrderRec /\ c.state = "Idle" /\ c.mode = "Normal" /\ c.pendingMode = "Normal"
        /\ ~HasInstr(c)
    BY <1>1, RestFields DEF OrderState, SlotKept, HasInstr, NoInstr
  <2> HIDE DEF c
  <2>2. m.state = "Idle" /\ m.mode = "Normal" /\ m.pendingMode = "None" /\ ~HasInstr(m)
    BY <2>1 DEF TakeMode, OrderRec, HasInstr
  <2>3. HandleIdle(c) = Nothing(m)
    BY <2>1 DEF HandleIdle
  <2> HIDE DEF m
  <2>4. NextInstruction(c, price) = Nothing(m)
    BY <2>1, <2>3 DEF NextInstruction
  <2>5. Compute(p, price) = Ok(m)
    BY <1>3, <2>4 DEF Compute, Resolve, Preempts, Install, Nothing, c
  <2>6. QED BY <2>2, <2>5 DEF Resume, SetPendingMode, Ok, Fresh, p
<1>4. QED BY <1>2, <1>3

(* cancel_pending_instruction, where the trade calls it: on an order that is
   not being cancelled.  An instruction to open it is taken back, and asked
   for anew.                                                                *)
LEMMA WithdrawStays ==
    ASSUME NEW o \in OrderRec, Settled(o), NEW price \in Int \ {0}, o.state # "PendingCancel",
           o.instr.kind # "CancelOrder"
    PROVE  /\ Stays(o, CancelPendingInstruction(o, price).o)
           /\ Idles(o) => Idles(CancelPendingInstruction(o, price).o)
<1> DEFINE p == ClearPendingInstruction(o)
           r == Reverted(p, price)
<1>1. CASE o.term \/ ~HasInstr(o) \/ o.instr.st # "New"
  BY <1>1, StaysRefl DEF CancelPendingInstruction, Ok, Err
<1>2. CASE ~(o.term \/ ~HasInstr(o) \/ o.instr.st # "New")
  <2>1. /\ p \in OrderRec /\ p.state = o.state /\ p.instr = NoInstr
        /\ p.seq = o.seq /\ p.armed = o.armed /\ p.byCancel = o.byCancel
        /\ p.toReplace = o.toReplace /\ p.created = o.created /\ SameStop(o, p)
    <3>1. p \in OrderRec
      BY <1>2, KeepsClear DEF Keeps
    <3>2. QED BY <3>1 DEF ClearPendingInstruction, OrderRec, SameStop
  <2>2. o.instr \in Instruction
    BY <1>2 DEF OrderRec, HasInstr, NoInstr
  <2>3. \/ CreateNew(o) /\ o.state = "PendingOpen"
        \/ o.state = "CancelledAndPendingReplace"
    BY <1>2, <2>2 DEF Instruction, InstructionKind, CreateNew, ReplaceNew, Settled
  <2>4. o.armed
    BY <1>2 DEF Settled
  <2>5. CancelPendingInstruction(o, price) = Withdrawn(o, r, price)
    BY <1>2 DEF CancelPendingInstruction
  <2>6. Unflagged(o, r.o) = r.o
    BY DEF Unflagged
  <2> HIDE DEF p
  <2>7. r.o \in OrderRec /\ Stays(o, r.o) /\ Idles(r.o)
    <3>1. CASE o.state = "PendingOpen"
      <4> DEFINE q == [p EXCEPT !.state = "Idle"]
      <4>1. /\ q \in OrderRec /\ q.state = "Idle" /\ q.instr = NoInstr
            /\ q.seq = o.seq /\ q.armed = o.armed /\ q.byCancel = o.byCancel
            /\ q.created = o.created /\ SameStop(o, q)
        BY <2>1 DEF OrderRec, OrderState, SameStop
      <4> HIDE DEF q
      <4>2. Settled(q)
        BY <2>4, <4>1, <3>1 DEF Settled, RestStates, CreateNew, ReplaceNew, NoInstr, SameStop
      <4>3. Stays(o, q)
        BY <2>3, <3>1, <4>1, <4>2
           DEF Stays, Ashore, OnBook, Dormant, ReplaceNew, NoInstr, SameStop
      <4>4. Stays(q, Advance(q, price).o) /\ Idles(Advance(q, price).o) /\ Advance(q, price).o \in OrderRec
        BY <4>1, <4>2, ComputeStays, DoneAdvance DEF Done, Keeps
      <4>5. r = Advance(q, price)
        BY <2>1, <3>1 DEF Reverted, q
      <4>6. QED BY <4>3, <4>4, <4>5, StaysTrans
    <3>2. CASE o.state = "CancelledAndPendingReplace"
      <4>1. r.o = p
        BY <2>1, <3>2 DEF Reverted, Ok
      <4>2. Settled(p)
        BY <2>1, <3>2 DEF Settled, CreateNew, ReplaceNew, NoInstr, HasInstr, SameStop
      <4>3. Stays(o, p)
        BY <2>1, <3>2, <4>2
           DEF Stays, Ashore, OnBook, Dormant, ReplaceNew, CreateNew, NoInstr, SameStop
      <4>4. QED BY <2>1, <3>2, <4>1, <4>3 DEF Idles
    <3>3. QED BY <2>3, <3>1, <3>2
  <2>8. Stays(r.o, Advance(r.o, price).o) /\ Idles(Advance(r.o, price).o)
    BY <2>7, ComputeStays DEF Stays
  <2>9. Stays(o, Advance(r.o, price).o)
    BY <2>7, <2>8, StaysTrans
  <2>10. QED BY <2>5, <2>6, <2>7, <2>8, <2>9 DEF Withdrawn
<1>3. QED BY <1>1, <1>2

(* The confirmations of what the exchange announced.  Each is a change of
   state that the event stands for, and what the order does by itself then.
   set_state computes as well, on the order in its new state.               *)
LEMMA SetStateStays ==
    ASSUME NEW o \in OrderRec, NEW s \in OrderState, s # o.state, o.state # "OpenFailed",
           Settled([o EXCEPT !.state = s]), NEW price \in Int \ {0}
    PROVE  \/ SetState(o, s, price) = Err(o)
           \/ /\ <<o.state, s>> \in Moves
              /\ Stays([o EXCEPT !.state = s], SetState(o, s, price).o)
              /\ SetState(o, s, price).o \in OrderRec /\ Idles(SetState(o, s, price).o)
<1> DEFINE q == [o EXCEPT !.state = s]
<1>1. q \in OrderRec
  BY KeepsState DEF Keeps
<1>2. Stays(q, Compute(q, price).o) /\ Idles(Compute(q, price).o) /\ Compute(q, price).o \in OrderRec
  BY <1>1, ComputeStays, DoneCompute DEF Done, Keeps
<1>3. Target(o.state, s) = s
  BY DEF Target
<1>4. QED BY <1>2, <1>3 DEF SetState

(* What follows a method that left the order settled. *)
LEMMA ThenComputeStays ==
    ASSUME NEW q, NEW r, r.o \in OrderRec, Stays(q, r.o), Idles(r.o), NEW price \in Int \ {0}
    PROVE  /\ Stays(q, ThenCompute(r, price).o) /\ Idles(ThenCompute(r, price).o)
           /\ ThenCompute(r, price).o \in OrderRec
<1>1. Settled(r.o)
  BY DEF Stays
<1>2. Stays(r.o, Compute(r.o, price).o) /\ Idles(Compute(r.o, price).o) /\ Compute(r.o, price).o \in OrderRec
  BY <1>1, ComputeStays, DoneCompute DEF Done, Keeps
<1>3. QED BY <1>2, StaysTrans DEF ThenCompute

(* confirm_opened, of an order that waits for it *)
LEMMA OpenedMoves ==
    ASSUME NEW o \in OrderRec, Settled(o), Idles(o), ~CreateNew(o), NEW price \in Int \ {0},
           o.state \in {"PendingOpen", "CancelledAndPendingReplace"}
    PROVE  LET r == ConfirmOpened(o, price)
           IN  /\ Idles(r.o)
               /\ \/ r.o = o /\ ~r.ok
                  \/ /\ o.state = "PendingOpen"
                     /\ \E b \in BOOLEAN :
                           /\ r.ok => b
                           /\ Stays([o EXCEPT !.state = "Opened", !.created = b], r.o)
<1> DEFINE q == [o EXCEPT !.state = "Opened"]
           s == SetState(o, "Opened", price)
           c == Created(s)
<1>1. CASE o.state = "CancelledAndPendingReplace"
  <2>1. s = Err(o)
    BY <1>1 DEF SetState, Moves
  <2>2. QED BY <1>1, <2>1 DEF ConfirmOpened, Created, ThenCompute, Err
<1>2. CASE o.state = "PendingOpen"
  <2>1. q \in OrderRec /\ q.state = "Opened" /\ q.instr = o.instr /\ q.armed = o.armed
        /\ q.byCancel = o.byCancel /\ q.created = o.created /\ SameStop(o, q)
    BY DEF OrderRec, OrderState, SameStop
  <2>2. Settled(q)
    BY <1>2, <2>1 DEF Settled, RestStates, CreateNew, ReplaceNew, SameStop
  <2>3. s = Err(o) \/ (Stays(q, s.o) /\ Idles(s.o) /\ s.o \in OrderRec)
    BY <1>2, <2>2, SetStateStays DEF OrderState
  <2>4. CASE s = Err(o)
    <3>1. ConfirmOpened(o, price) = Err(o)
      <4>1. ~s.ok
        BY <2>4 DEF Err
      <4>2. ConfirmOpened(o, price) = s
        BY <1>2, <4>1 DEF ConfirmOpened, Created, ThenCompute
      <4>3. QED BY <2>4, <4>2
    <3>2. QED BY <3>1 DEF Err
  <2>5. CASE Stays(q, s.o) /\ Idles(s.o) /\ s.o \in OrderRec
    <3> DEFINE As(b) == [o EXCEPT !.state = "Opened", !.created = b]
               r == ThenCompute(c, price)
    <3>1. ConfirmOpened(o, price) = r /\ (r.ok => c.ok)
      BY <1>2 DEF ConfirmOpened, ThenCompute
    <3>2. q = As(o.created) /\ As(TRUE) = [q EXCEPT !.created = TRUE] /\ o.created \in BOOLEAN
      BY DEF OrderRec
    <3>3. SUFFICES ASSUME NEW b \in BOOLEAN, c.ok => b,
                          c.o \in OrderRec, Stays(As(b), c.o), Idles(c.o)
                   PROVE  (r.ok => b) /\ Stays(As(b), r.o) /\ Idles(r.o)
      <4> HIDE DEF r
      <4>1. CASE ~s.ok
        <5>1. c = s
          BY <4>1 DEF Created
        <5> HIDE DEF s, c, q
        <5>2. (r.ok => o.created) /\ Stays(q, r.o) /\ Idles(r.o)
          BY <2>5, <3>2, <3>3, <4>1, <5>1
        <5>3. QED BY <1>2, <3>1, <3>2, <5>2
      <4>2. CASE s.ok
        <5> DEFINE d == [s.o EXCEPT !.created = TRUE]
        <5>1. d \in OrderRec /\ d.state = s.o.state /\ d.toIdle = s.o.toIdle
          BY <2>5 DEF OrderRec
        <5>2. q.armed
          BY <2>1, <2>2 DEF Settled
        <5>3. Stays(As(TRUE), d)
          BY <2>1, <2>5, <3>2, <5>2, CreatedStays
        <5>4. c.o = d
          BY <4>2 DEF Created, Ok
        <5> HIDE DEF s, c, q, d
        <5>5. Idles(d)
          BY <2>5, <5>1 DEF Idles
        <5> HIDE DEF As
        <5>6. Stays(As(TRUE), r.o) /\ Idles(r.o)
          BY <3>3, <5>1, <5>3, <5>4, <5>5
        <5>7. QED BY <1>2, <3>1, <5>6 DEF As
      <4>3. QED BY <4>1, <4>2
    <3> HIDE DEF As, c
    <3>4. QED BY <3>1, <3>3, ThenComputeStays
  <2>6. QED BY <2>3, <2>4, <2>5
<1>3. QED BY <1>1, <1>2

(* confirm_filled, of an order that may be on the book *)
LEMMA FilledMoves ==
    ASSUME NEW o \in OrderRec, Settled(o), Idles(o), ~Ashore(o), NEW filled \in Nat,
           NEW full \in BOOLEAN, NEW price \in Int \ {0}
    PROVE  LET r == ConfirmFilled(o, filled, full, price)
           IN  /\ Idles(r.o)
               /\ \/ Stays(o, r.o) /\ (full => ~r.ok)
                  \/ /\ full /\ Settled(r.o) /\ ~r.o.created
                     /\ r.o.state = "Finished" /\ ~r.o.byCancel
<1> DEFINE f == [o EXCEPT !.filled = filled]
<1>1. /\ f \in OrderRec /\ f.state = o.state /\ f.instr = o.instr /\ f.seq = o.seq
      /\ f.armed = o.armed /\ f.byCancel = o.byCancel /\ f.toReplace = o.toReplace
      /\ f.created = o.created /\ f.toIdle = o.toIdle /\ SameStop(o, f)
  BY DEF OrderRec, SameStop
<1> HIDE DEF f
<1>2. Stays(o, f) /\ Settled(f) /\ Idles(f)
  <2>1. Stays(o, f)
    BY <1>1, OtherFieldsStay
  <2>2. QED BY <1>1, <2>1 DEF Stays, Idles
<1>3. o.state \in {"PendingOpen", "Opened", "PartiallyFilled", "PendingCancel",
                   "CancelledAndPendingReplace"}
  BY DEF Settled, RestStates, Ashore
<1>4. CASE full
  <2> DEFINE s == SetState(f, "Filled", price)
  <2>1. ConfirmFilled(o, filled, full, price) = ThenCompute(s, price)
    BY <1>3, <1>4 DEF ConfirmFilled, f
  <2>2. CASE o.state \notin {"Opened", "PartiallyFilled"}
    <3>1. s = Err(f)
      BY <1>1, <1>3, <2>2 DEF SetState, Moves
    <3>2. QED BY <1>2, <2>1, <3>1 DEF ThenCompute, Err
  <2>3. CASE o.state \in {"Opened", "PartiallyFilled"}
    <3> DEFINE g == [f EXCEPT !.state = "Filled"]
               c == ClearDone(g)
               h == [c EXCEPT !.state = "Closed"]
               d == [h EXCEPT !.created = FALSE]
               e == Enter(d, "Finished")
    <3>1. /\ g \in OrderRec /\ g.state = "Filled" /\ g.instr = o.instr /\ g.armed = o.armed
          /\ g.byCancel = o.byCancel /\ SameStop(o, g)
      BY <1>1 DEF OrderRec, OrderState, SameStop
    <3> HIDE DEF g
    <3>2. /\ c \in OrderRec /\ c.state = "Filled" /\ SameFields(g, c) /\ SlotKept(g, c)
      BY <3>1, RestFields DEF OrderState
    <3> HIDE DEF c
    <3>3. /\ d \in OrderRec /\ d.armed = c.armed /\ d.byCancel = c.byCancel /\ d.instr = c.instr
          /\ d.created = FALSE /\ SameStop(c, d)
      BY <3>2 DEF OrderRec, OrderState, SameStop
    <3> HIDE DEF d, h
    <3>4. e \in OrderRec /\ e.state = "Finished" /\ SameFields(d, e) /\ SlotKept(d, e)
      BY <3>3, RestFields DEF OrderState
    <3> HIDE DEF e
    <3>5. Gate(g)
      BY <1>3, <3>1, <2>3 DEF Gate, Settled
    <3>6. NextInstruction(c, price) = Nothing(e)
      BY <3>2 DEF NextInstruction, HandleFilled, HandleClosed, e, d, h
    <3>7. Compute(g, price) = Ok(e)
      BY <3>5, <3>6 DEF Compute, Resolve, Preempts, Install, Nothing, c
    <3>8. s = Ok(e)
      BY <1>1, <2>3, <3>7 DEF SetState, Moves, Target, g
    <3>9. Settled(e)
      <4>1. ~CreateNew(o) /\ ~ReplaceNew(o) /\ o.armed
        BY <2>3 DEF Settled
      <4>2. ~CreateNew(e) /\ ~ReplaceNew(e)
        BY <3>1, <3>2, <3>3, <3>4, <4>1 DEF SlotKept, CreateNew, ReplaceNew, NoInstr
      <4>3. e.armed
        BY <3>1, <3>2, <3>3, <3>4, <4>1 DEF SameFields
      <4>4. e.type = o.type /\ e.side = o.side
        BY <3>1, <3>2, <3>3, <3>4 DEF SameFields, SameStop
      <4>5. QED BY <3>4, <4>2, <4>3, <4>4 DEF Settled, RestStates
    <3>10. Stays(e, e) /\ Idles(e) /\ ~e.created
      BY <3>3, <3>4, <3>9, StaysRefl DEF Idles, SameFields
    <3>11. Stays(e, ThenCompute(s, price).o) /\ Idles(ThenCompute(s, price).o)
      BY <3>4, <3>8, <3>10, ThenComputeStays DEF Ok
    <3> HIDE DEF s
    <3>12. ~e.byCancel
      BY <1>3, <3>1, <3>2, <3>3, <3>4 DEF SameFields, Settled
    <3>13. /\ Settled(ThenCompute(s, price).o) /\ ~ThenCompute(s, price).o.created
           /\ ThenCompute(s, price).o.state = "Finished" /\ ~ThenCompute(s, price).o.byCancel
      BY <3>4, <3>10, <3>11, <3>12 DEF Stays
    <3>14. QED BY <1>4, <2>1, <3>11, <3>13
  <2>4. QED BY <2>2, <2>3
<1>5. CASE ~full
  <2> DEFINE s == SetState(f, "PartiallyFilled", price)
             q == [f EXCEPT !.state = "PartiallyFilled"]
  <2>1. ConfirmFilled(o, filled, full, price) = ThenCompute(s, price)
    BY <1>3, <1>5 DEF ConfirmFilled, f
  <2>2. s.o \in OrderRec /\ Stays(o, s.o) /\ Idles(s.o)
    <3>1. CASE o.state = "PartiallyFilled"
      BY <1>1, <1>2, <3>1 DEF SetState, Ok
    <3>2. CASE o.state = "Opened"
      <4>1. /\ q \in OrderRec /\ q.state = "PartiallyFilled" /\ q.instr = o.instr
            /\ q.seq = o.seq /\ q.armed = o.armed /\ q.byCancel = o.byCancel
            /\ q.toReplace = o.toReplace /\ q.created = o.created /\ SameStop(o, q)
        BY <1>1 DEF OrderRec, OrderState, SameStop
      <4>2. Settled(q)
        BY <3>2, <4>1 DEF Settled, RestStates, CreateNew, ReplaceNew, SameStop
      <4>3. Stays(o, q)
        BY <3>2, <4>1, <4>2 DEF Stays, Ashore, OnBook, Dormant, ReplaceNew, CreateNew, SameStop
      <4>4. s = Err(f) \/ (Stays(q, s.o) /\ Idles(s.o) /\ s.o \in OrderRec)
        BY <1>1, <3>2, <4>2, SetStateStays DEF OrderState
      <4>5. QED BY <1>1, <1>2, <4>3, <4>4, StaysTrans DEF Err
    <3>3. CASE o.state \notin {"Opened", "PartiallyFilled"}
      <4>1. s = Err(f)
        BY <1>1, <1>3, <3>3 DEF SetState, Moves
      <4>2. QED BY <1>1, <1>2, <4>1 DEF Err
    <3>4. QED BY <3>1, <3>2, <3>3
  <2> HIDE DEF s
  <2>3. Stays(o, ThenCompute(s, price).o) /\ Idles(ThenCompute(s, price).o)
    BY <2>2, ThenComputeStays
  <2>4. QED BY <1>5, <2>1, <2>3
<1>6. QED BY <1>4, <1>5

(* confirm_expired and confirm_rejected: set_state knows no such step. *)
LEMMA RefusedMoves ==
    ASSUME NEW o, Settled(o), NEW price
    PROVE  ConfirmExpired(o, price) = Err(o) /\ ConfirmRejected(o, price) = Err(o)
BY DEF ConfirmExpired, ConfirmRejected, SetState, Moves, Settled, RestStates

(* confirm_open_failed, of an order whose instruction to open it was sent or
   that asks for none.                                                      *)
LEMMA OpenFailedMoves ==
    ASSUME NEW o \in OrderRec, Settled(o), Idles(o), ~CreateNew(o), NEW price \in Int \ {0}
    PROVE  LET p == ConfirmOpenFailed(o, price).o
           IN  /\ Idles(p)
               /\ \/ p = o
                  \/ o.state = "PendingOpen" /\ Stays([o EXCEPT !.state = "OpenFailed"], p)
<1> DEFINE q == [o EXCEPT !.state = "OpenFailed"]
           s == SetState(o, "OpenFailed", price)
<1>1. CASE o.state # "PendingOpen"
  <2>1. o.state = "OpenFailed" \/ s = Err(o)
    BY <1>1 DEF SetState, Moves, Settled, RestStates
  <2>2. QED BY <2>1 DEF ConfirmOpenFailed, ThenCompute, Ok, Err
<1>2. CASE o.state = "PendingOpen"
  <2>1. q \in OrderRec /\ q.state = "OpenFailed" /\ q.instr = o.instr /\ q.armed = o.armed
        /\ q.byCancel = o.byCancel /\ q.created = o.created /\ SameStop(o, q)
    BY DEF OrderRec, OrderState, SameStop
  <2>2. Settled(q)
    BY <1>2, <2>1 DEF Settled, RestStates, CreateNew, ReplaceNew, SameStop
  <2>3. s = Err(o) \/ (Stays(q, s.o) /\ Idles(s.o) /\ s.o \in OrderRec)
    BY <1>2, <2>2, SetStateStays DEF OrderState
  <2>4. CASE s = Err(o)
    BY <1>2, <2>4 DEF ConfirmOpenFailed, ThenCompute, Err
  <2>5. CASE Stays(q, s.o) /\ Idles(s.o) /\ s.o \in OrderRec
    <3>1. Stays(q, ThenCompute(s, price).o) /\ Idles(ThenCompute(s, price).o)
      BY <2>5, ThenComputeStays
    <3>2. QED BY <1>2, <3>1 DEF ConfirmOpenFailed
  <2>6. QED BY <2>3, <2>4, <2>5
<1>3. QED BY <1>1, <1>2

(* What confirm_cancelled leaves of the order when all went well. *)
LEMMA NotCreatedSettled ==
    ASSUME NEW r, r.o \in OrderRec, Settled(r.o)
    PROVE  LET p == NotCreated(r).o
           IN  /\ Settled(p) /\ p.toIdle = r.o.toIdle /\ p.state = r.o.state /\ p.seq = r.o.seq /\ p.instr = r.o.instr
               /\ p.byCancel = r.o.byCancel
               /\ r.ok => ~p.created
<1> DEFINE d == [r.o EXCEPT !.created = FALSE]
<1>1. /\ d.state = r.o.state /\ d.instr = r.o.instr /\ d.seq = r.o.seq /\ d.armed = r.o.armed
      /\ d.byCancel = r.o.byCancel /\ d.toReplace = r.o.toReplace /\ d.created = FALSE
      /\ d.toIdle = r.o.toIdle /\ SameStop(r.o, d)
  BY DEF OrderRec, SameStop
<1> HIDE DEF d
<1>2. Settled(d)
  BY <1>1 DEF Settled, HasInstr, CreateNew, ReplaceNew, SameStop
<1>3. IF r.ok THEN NotCreated(r) = Ok(d) ELSE NotCreated(r) = r
  BY DEF NotCreated, d
<1>4. QED BY <1>1, <1>2, <1>3 DEF Ok

(* set_state(Cancelled), with the compute that finishes the order. *)
LEMMA CancelledFinishes ==
    ASSUME NEW o \in OrderRec, Settled(o), Idles(o), ~Ashore(o), ~o.toReplace,
           NEW price \in Int \ {0}
    PROVE  LET s == SetState(o, "Cancelled", price)
           IN  /\ s.o \in OrderRec /\ Settled(s.o) /\ Idles(s.o)
               /\ s.o.state = "Finished" => s.o.byCancel
<1> DEFINE s == SetState(o, "Cancelled", price)
           q == [o EXCEPT !.state = "Cancelled"]
           c == ClearDone(q)
           e == Enter(c, "Finished")
           b == [e EXCEPT !.byCancel = TRUE]
<1>1. o.state \in {"PendingOpen", "Opened", "PartiallyFilled", "PendingCancel",
                   "CancelledAndPendingReplace"}
  BY DEF Settled, RestStates, Ashore
<1>2. CASE o.state = "CancelledAndPendingReplace"
  <2>1. s = Err(o)
    BY <1>2 DEF SetState, Moves
  <2>2. QED BY <1>2, <2>1 DEF Err
<1>3. CASE o.state # "CancelledAndPendingReplace" /\ ~ReplaceNew(o)
  <2>1. /\ q \in OrderRec /\ q.state = "Cancelled" /\ q.instr = o.instr /\ q.armed = o.armed
        /\ SameStop(o, q)
    BY DEF OrderRec, OrderState, SameStop
  <2> HIDE DEF q
  <2>2. c \in OrderRec /\ c.state = "Cancelled" /\ SameFields(q, c) /\ SlotKept(q, c)
    BY <2>1, RestFields DEF OrderState
  <2> HIDE DEF c
  <2>3. e \in OrderRec /\ e.state = "Finished" /\ SameFields(c, e) /\ SlotKept(c, e)
    BY <2>2, RestFields DEF OrderState
  <2> HIDE DEF e
  <2>4. b \in OrderRec /\ b.state = "Finished" /\ b.instr = e.instr /\ b.armed = e.armed
        /\ b.byCancel /\ SameStop(e, b)
    BY <2>3 DEF OrderRec, SameStop
  <2>5. o.armed /\ Gate(q)
    BY <1>1, <2>1 DEF Settled, Gate
  <2>6. NextInstruction(c, price) = Nothing(b)
    BY <2>2 DEF NextInstruction, HandleCancelled, b, e
  <2> HIDE DEF b
  <2>7. Compute(q, price) = Ok(b)
    BY <2>5, <2>6 DEF Compute, Resolve, Preempts, Install, Nothing, c
  <2>8. s = Ok(b)
    BY <1>1, <1>3, <2>7 DEF SetState, Moves, Target, q
  <2>9. ~CreateNew(o)
    BY DEF Settled, Ashore
  <2>10. ~CreateNew(b) /\ ~ReplaceNew(b) /\ b.armed
    BY <1>3, <2>1, <2>2, <2>3, <2>4, <2>5, <2>9
       DEF SlotKept, SameFields, CreateNew, ReplaceNew, NoInstr
  <2>11. b.type = o.type /\ b.side = o.side
    BY <2>1, <2>2, <2>3, <2>4 DEF SameFields, SameStop
  <2>12. QED BY <2>4, <2>8, <2>10, <2>11 DEF Ok, Settled, RestStates, Idles
<1>4. ReplaceNew(o) => o.state = "CancelledAndPendingReplace"
  BY DEF Settled
<1>5. QED BY <1>2, <1>3, <1>4

(* confirm_cancelled, of an order that may be on the book: one that is to be
   replaced waits for its replacement.                                      *)
LEMMA CancelledMoves ==
    ASSUME NEW o \in OrderRec, Settled(o), Idles(o), ~Ashore(o), NEW price \in Int \ {0}
    PROVE  LET r == ConfirmCancelled(o, price)
               p == r.o
           IN  /\ Settled(p) /\ Idles(p)
               /\ p.state = "Finished" => p.byCancel
               /\ r.ok => ~p.created \/ (p = o /\ o.state = "CancelledAndPendingReplace")
               /\ o.toReplace /\ o.state = "PendingCancel" =>
                     /\ p.state = "CancelledAndPendingReplace" /\ p.seq = o.seq
                     /\ p.instr.st = "New" => p.instr = o.instr
<1>1. CASE o.state = "CancelledAndPendingReplace"
  BY <1>1 DEF ConfirmCancelled, Ok
<1>2. o.state # "Cancelled"
  BY DEF Settled, RestStates
<1>3. CASE o.state # "CancelledAndPendingReplace" /\ o.toReplace
  <2> DEFINE f == [o EXCEPT !.toReplace = FALSE]
             s == SetState(f, "CancelledAndPendingReplace", price)
             q == [f EXCEPT !.state = "CancelledAndPendingReplace"]
  <2>1. /\ f \in OrderRec /\ f.state = o.state /\ f.instr = o.instr /\ f.seq = o.seq
        /\ f.armed = o.armed /\ f.byCancel = o.byCancel /\ f.created = o.created
        /\ f.toIdle = o.toIdle /\ SameStop(o, f)
    BY DEF OrderRec, SameStop
  <2>2. ConfirmCancelled(o, price) = NotCreated(s)
    BY <1>2, <1>3 DEF ConfirmCancelled
  <2> HIDE DEF f
  <2>3. CASE o.state # "PendingCancel"
    <3>1. s = Err(f)
      BY <1>2, <1>3, <2>1, <2>3 DEF SetState, Moves
    <3>2. Settled(f) /\ Idles(f) /\ f.state # "Finished"
      BY <1>3, <2>1, <2>3 DEF Settled, HasInstr, CreateNew, ReplaceNew, Idles, SameStop, Ashore
    <3>3. QED BY <2>2, <2>3, <3>1, <3>2 DEF NotCreated, Err
  <2>4. CASE o.state = "PendingCancel"
    <3>1. /\ q \in OrderRec /\ q.state = "CancelledAndPendingReplace" /\ q.instr = o.instr
          /\ q.seq = o.seq /\ q.armed = o.armed /\ q.byCancel = o.byCancel /\ q.created = o.created
          /\ SameStop(o, q)
      BY <2>1 DEF OrderRec, OrderState, SameStop
    <3>2. Settled(q)
      BY <2>4, <3>1 DEF Settled, RestStates, CreateNew, ReplaceNew, SameStop
    <3>3. /\ <<f.state, "CancelledAndPendingReplace">> \in Moves
          /\ Target(f.state, "CancelledAndPendingReplace") = "CancelledAndPendingReplace"
      BY <2>1, <2>4 DEF Moves, Target
    <3>4. s = Compute(q, price)
      BY <2>1, <2>4, <3>3 DEF SetState
    <3>5. s.o \in OrderRec /\ Stays(q, s.o)
      BY <3>1, <3>2, <3>4, ComputeStays, DoneCompute DEF Done, Keeps
    <3>6. LET p == NotCreated(s).o
          IN  /\ Settled(p) /\ p.toIdle = s.o.toIdle /\ p.state = s.o.state /\ p.seq = s.o.seq /\ p.instr = s.o.instr
              /\ NotCreated(s).ok => ~p.created
      <4>1. NotCreated(s).ok => s.ok
        BY DEF NotCreated
      <4>2. QED BY <3>5, <4>1, NotCreatedSettled DEF Stays
    <3>7. QED BY <2>2, <3>1, <3>5, <3>6 DEF Stays, Idles
  <2>5. QED BY <2>3, <2>4
<1>4. CASE o.state # "CancelledAndPendingReplace" /\ ~o.toReplace /\ o.toIdle
  <2> DEFINE f == [o EXCEPT !.toIdle = FALSE]
             v == Pause(f, price)
             s == SetState(v.o, "Idle", price)
             q == [v.o EXCEPT !.state = "Idle"]
  <2>1. /\ f \in OrderRec /\ f.state = o.state /\ f.instr = o.instr /\ f.seq = o.seq
        /\ f.armed = o.armed /\ f.byCancel = o.byCancel /\ f.created = o.created
        /\ f.toReplace = o.toReplace /\ ~f.toIdle /\ SameStop(o, f)
    BY DEF OrderRec, SameStop
  <2>2. ConfirmCancelled(o, price) = IF v.ok THEN NotCreated(s) ELSE v
    BY <1>2, <1>4 DEF ConfirmCancelled
  <2> HIDE DEF f
  <2>3. Stays(o, f)
    BY <2>1, OtherFieldsStay
  <2>4. v.o \in OrderRec /\ Stays(o, v.o) /\ Idles(v.o)
    <3>1. "Paused" \in OrderMode /\ Settled(f)
      BY <2>3 DEF OrderMode, Stays
    <3>2. Stays(f, v.o) /\ Idles(v.o)
      BY <2>1, <3>1, CallsStay DEF Pause, Idles
    <3>3. v.o \in OrderRec
      BY <2>1, DoneCalls DEF Done, Keeps
    <3>4. QED BY <2>3, <3>2, <3>3, StaysTrans
  <2> HIDE DEF v
  <2>5. Settled(v.o) /\ ~Ashore(v.o)
    BY <2>4 DEF Stays
  <2>6. s.o \in OrderRec /\ Settled(s.o) /\ Idles(s.o) /\ s.o.state # "Finished"
    <3>1. o.state \in {"PendingOpen", "PendingCancel"} /\ ~CreateNew(f)
      BY <1>4, <2>1 DEF Idles, Settled, RestStates, Ashore, CreateNew
    <3>2. /\ v.o.state \in {"PendingOpen", "PendingCancel"}
          /\ v.o.state = "PendingCancel" => ~v.o.toReplace
      BY <1>4, <2>1, <2>4, <3>1 DEF Stays, CreateNew
    <3>3. ~CreateNew(v.o) /\ ~ReplaceNew(v.o)
      BY <2>5, <3>2 DEF Settled, Ashore
    <3>4. q \in OrderRec /\ q.state = "Idle" /\ q.instr = v.o.instr /\ q.armed = v.o.armed
          /\ q.byCancel = v.o.byCancel /\ q.created = v.o.created /\ SameStop(v.o, q)
      BY <2>4 DEF OrderRec, OrderState, SameStop
    <3>5. Settled(q)
      BY <2>5, <3>2, <3>3, <3>4
         DEF Settled, RestStates, CreateNew, ReplaceNew, HasInstr, SameStop
    <3>6. s = Err(v.o) \/ (Stays(q, s.o) /\ s.o \in OrderRec /\ Idles(s.o))
      BY <2>4, <3>2, <3>5, SetStateStays DEF OrderState
    <3>7. QED BY <2>4, <2>5, <3>2, <3>4, <3>6 DEF Err, Stays
  <2>7. NotCreated(s).ok => s.ok
    BY DEF NotCreated
  <2>8. v.o.state # "Finished"
    BY <2>5 DEF Ashore
  <2>9. QED BY <1>4, <2>2, <2>4, <2>5, <2>6, <2>7, <2>8, NotCreatedSettled DEF Idles
<1>5. CASE o.state # "CancelledAndPendingReplace" /\ ~o.toReplace /\ ~o.toIdle
  <2>1. ConfirmCancelled(o, price) = NotCreated(SetState(o, "Cancelled", price))
    BY <1>2, <1>5 DEF ConfirmCancelled
  <2>2. NotCreated(SetState(o, "Cancelled", price)).ok => SetState(o, "Cancelled", price).ok
    BY DEF NotCreated
  <2>3. QED BY <1>5, <2>1, <2>2, CancelledFinishes, NotCreatedSettled DEF Idles
<1>6. QED BY <1>1, <1>3, <1>4, <1>5

(* confirm_replaced, of an order that waits for it: it stands under the number
   of the replacement, and computes once more.                              *)
LEMMA ReplacedMoves ==
    ASSUME NEW o \in OrderRec, Settled(o), Idles(o), NEW price \in Int \ {0},
           o.state \in {"PendingOpen", "CancelledAndPendingReplace"},
           o.state = "CancelledAndPendingReplace" => o.instr.st # "New",
           NEW e, e.seq \in 0..MaxSeq, e.stop \in Int, e.qty \in Int, e.filled \in Nat
    PROVE  LET r == ConfirmReplaced(o, e, price)
           IN  /\ Idles(r.o)
               /\ \/ r.o = o /\ ~r.ok
                  \/ /\ o.state = "CancelledAndPendingReplace"
                     /\ \E q \in OrderRec :
                           /\ q.state = "Opened" /\ q.seq = e.seq /\ q.stop = e.stop
                           /\ q.instr = o.instr /\ q.created
                           /\ Stays(q, r.o)
<1>1. CASE o.state = "PendingOpen"
  BY <1>1 DEF ConfirmReplaced, Err
<1>2. CASE o.state = "CancelledAndPendingReplace"
  <2> DEFINE f == [o EXCEPT !.created = TRUE, !.seq = e.seq, !.stop = e.stop,
                            !.qty = e.qty, !.filled = e.filled]
             g == [f EXCEPT !.state = "Replaced"]
             c == ClearDone(g)
             q == [c EXCEPT !.state = "Opened"]
             r == Reopen(c, price)
             a == AskAgain(r, price)
             w == [f EXCEPT !.state = "Opened"]
  <2>1. /\ f \in OrderRec /\ f.state = o.state /\ f.seq = e.seq /\ f.instr = o.instr
        /\ f.armed = o.armed /\ f.byCancel = o.byCancel /\ f.created = TRUE
        /\ f.stop = e.stop /\ f.type = o.type /\ f.side = o.side
    BY DEF OrderRec
  <2> HIDE DEF f
  <2>2. /\ g \in OrderRec /\ g.state = "Replaced" /\ g.seq = e.seq /\ g.instr = o.instr
        /\ g.armed = o.armed /\ g.byCancel = o.byCancel /\ g.created = TRUE
        /\ g.stop = e.stop /\ g.type = o.type /\ g.side = o.side
    BY <2>1 DEF OrderRec, OrderState
  <2>3. /\ w \in OrderRec /\ w.state = "Opened" /\ w.seq = e.seq /\ w.instr = o.instr
        /\ w.armed = o.armed /\ w.byCancel = o.byCancel /\ w.created = TRUE
        /\ w.stop = e.stop /\ w.type = o.type /\ w.side = o.side
    BY <2>1 DEF OrderRec, OrderState
  <2> HIDE DEF g, w
  <2>4. c \in OrderRec /\ SameFields(g, c) /\ SlotKept(g, c) /\ c.state = "Replaced"
    BY <2>2, RestFields DEF OrderState
  <2> HIDE DEF c
  <2>5. /\ q \in OrderRec /\ q.state = "Opened" /\ q.seq = c.seq /\ q.instr = c.instr
        /\ q.armed = c.armed /\ q.byCancel = c.byCancel /\ q.created = c.created
        /\ SameStop(c, q)
    BY <2>4 DEF OrderRec, OrderState, SameStop
  <2>6. o.armed /\ ~o.byCancel
    BY <1>2 DEF Settled
  <2>7. ~CreateNew(q) /\ ~ReplaceNew(q) /\ ~CreateNew(w) /\ ~ReplaceNew(w)
    BY <1>2, <2>2, <2>3, <2>4, <2>5 DEF SlotKept, CreateNew, ReplaceNew, NoInstr
  <2>19. o.type = "stop" => o.side = "Sell"
    BY DEF Settled
  <2>20. q.type = o.type /\ q.side = o.side
    BY <2>2, <2>4, <2>5 DEF SameFields, SameStop
  <2>8. Settled(q) /\ Settled(w)
    <3>1. Settled(q)
      BY <2>2, <2>4, <2>5, <2>6, <2>7, <2>19, <2>20 DEF Settled, RestStates, SameFields
    <3>2. Settled(w)
      BY <2>3, <2>6, <2>7, <2>19 DEF Settled, RestStates
    <3>3. QED BY <3>1, <3>2
  <2>9. Stays(w, q)
    <3> HIDE DEF q
    <3>1. q.state = "Opened" /\ w.state = "Opened" /\ Settled(q)
      BY <2>3, <2>5, <2>8
    <3>2. q.seq = w.seq /\ q.stop = w.stop /\ q.armed = w.armed /\ q.created = w.created
      BY <2>2, <2>3, <2>4, <2>5, ZenonT(40) DEF SameFields, SameStop
    <3>3. ~Ashore(q)
      BY <3>1 DEF Ashore
    <3>4. q.byCancel = w.byCancel /\ q.type = w.type /\ q.side = w.side
      BY <2>2, <2>3, <2>4, <2>5 DEF SameFields, SameStop
    <3>5. ~Dormant(w)
      BY <3>1 DEF Dormant
    <3>6. QED BY <2>7, <3>1, <3>2, <3>3, <3>4, <3>5 DEF Stays, OnBook
  <2>10. r = Advance(q, price)
    <3>1. ClearDone(q).state = "Opened"
      BY <2>5, RestFields DEF OrderState
    <3>2. NextInstruction(ClearDone(q), price) = HandleOpened(ClearDone(q), price)
      BY <3>1 DEF NextInstruction
    <3>3. QED BY <3>2 DEF Reopen, Advance
  <2>11. r.o \in OrderRec /\ Stays(q, r.o) /\ Idles(r.o) /\ Settled(r.o)
    <3>1. Stays(q, r.o) /\ Idles(r.o)
      BY <2>5, <2>8, <2>10, ComputeStays
    <3>2. r.o \in OrderRec
      BY <2>5, <2>10, DoneAdvance DEF Done, Keeps
    <3>3. QED BY <3>1, <3>2 DEF Stays
  <2> HIDE DEF q, r
  <2>12. Resolve(a, price) = Install(a) /\ Stays(r.o, Install(a).o) /\ Idles(Install(a).o)
    <3>1. CASE r.ok /\ r.o.state = "Opened"
      <4>1. a = HandleOpened(r.o, price)
        BY <3>1 DEF AskAgain
      <4>2. a.o \in OrderRec /\ ~CreateNew(a.o) /\ Stays(r.o, Install(a).o) /\ Idles(Install(a).o)
        BY <2>11, <3>1, <4>1, OpenedStays
      <4>3. QED BY <4>2, ResolvesAsInstalled
    <3>2. CASE ~(r.ok /\ r.o.state = "Opened")
      <4>1. a = Nothing(r.o) \/ a = Failure(r.o)
        BY <3>2 DEF AskAgain
      <4>2. Resolve(a, price) = Install(a) /\ Install(a).o = r.o
        BY <4>1 DEF Resolve, Preempts, Install, Nothing, Failure, Ok, Err
      <4>3. QED BY <2>11, <4>2, StaysRefl
    <3>3. QED BY <3>1, <3>2
  <2>13. NextInstruction(c, price) = a
    BY <2>4 DEF NextInstruction, HandleReplaced, r
  <2>14. Compute(g, price) = Install(a)
    BY <2>2, <2>6, <2>12, <2>13 DEF Compute, Gate, c
  <2>15. SetState(f, "Replaced", price) = Compute(g, price)
    <3>1. /\ <<f.state, "Replaced">> \in Moves /\ Target(f.state, "Replaced") = "Replaced"
          /\ f.state # "Replaced"
      BY <1>2, <2>1 DEF Moves, Target
    <3>2. QED BY <3>1 DEF SetState, g
  <2>16. ConfirmReplaced(o, e, price) = Install(a)
    BY <1>2, <2>14, <2>15 DEF ConfirmReplaced, f
  <2>17. Stays(w, Install(a).o)
    BY <2>9, <2>11, <2>12, StaysTrans
  <2>18. QED BY <1>2, <2>3, <2>12, <2>16, <2>17
<1>3. QED BY <1>1, <1>2

(* confirm_instruction_execution: the slot is cleared, and an order whose
   instruction failed is terminated.                                        *)
LEMMA ExecutionMoves ==
    ASSUME NEW o \in OrderRec, Settled(o), Idles(o), NEW price \in Int \ {0},
           o.instr.st = "Running", NEW success \in BOOLEAN
    PROVE  LET p == ConfirmInstructionExecution(o, o.instr.id, success, price).o
           IN  /\ Stays(o, p) /\ Idles(p)
               /\ ~success => p.term /\ p.instr.kind # "CreateOrder"
<1> DEFINE p == ConfirmInstructionExecution(o, o.instr.id, success, price).o
<1>1. o.instr \in Instruction /\ HasInstr(o) /\ o.armed
  <2>1. o.instr \in Instruction
    BY DEF OrderRec, NoInstr
  <2>2. HasInstr(o)
    BY <2>1 DEF Instruction, InstructionKind, HasInstr
  <2>3. QED BY <2>1, <2>2 DEF Settled
<1>2. CASE success
  <2> DEFINE c == ClearPendingInstruction(o)
  <2>1. /\ c \in OrderRec /\ c.state = o.state /\ c.instr = NoInstr /\ c.seq = o.seq
        /\ c.armed = o.armed /\ c.byCancel = o.byCancel /\ c.toReplace = o.toReplace
        /\ c.created = o.created /\ SameStop(o, c)
    BY DEF ClearPendingInstruction, OrderRec, SameStop
  <2>2. InstructionMayMove(o.instr, "Executed")
    BY DEF InstructionMayMove, InstructionMoves
  <2>3. p = Compute(c, price).o
    BY <1>1, <1>2, <2>2 DEF ConfirmInstructionExecution
  <2> HIDE DEF c
  <2>4. Settled(c)
    BY <1>1, <2>1 DEF Settled, CreateNew, ReplaceNew, NoInstr, SameStop
  <2>5. Stays(o, c)
    BY <2>1, <2>4 DEF Stays, Ashore, CreateNew, ReplaceNew, Dormant, NoInstr, SameStop
  <2>6. Stays(c, p) /\ Idles(p)
    BY <2>1, <2>3, <2>4, ComputeStays
  <2>7. QED BY <1>2, <2>5, <2>6, StaysTrans
<1>3. CASE ~success
  <2> DEFINE f == [o EXCEPT !.instr.st = "Failed", !.term = TRUE]
             c == ClearDone(f)
  <2>1. /\ f \in OrderRec /\ f.state = o.state /\ f.seq = o.seq /\ f.term = TRUE
        /\ f.armed = o.armed /\ f.byCancel = o.byCancel /\ f.toReplace = o.toReplace
        /\ f.created = o.created /\ f.instr = [o.instr EXCEPT !.st = "Failed"]
        /\ SameStop(o, f)
    BY <1>1 DEF OrderRec, Instruction, InstructionState, SameStop
  <2>2. f.instr.st = "Failed" /\ f.instr.kind = o.instr.kind
    BY <1>1, <2>1 DEF Instruction
  <2>3. InstructionMayMove(o.instr, "Failed")
    BY DEF InstructionMayMove, InstructionMoves
  <2>4. p = Compute(f, price).o
    BY <1>1, <1>3, <2>3 DEF ConfirmInstructionExecution
  <2> HIDE DEF f
  <2>5. Settled(f)
    BY <1>1, <2>1, <2>2 DEF Settled, CreateNew, ReplaceNew, SameStop
  <2>6. Stays(o, f)
    BY <2>1, <2>2, <2>5 DEF Stays, Ashore, CreateNew, ReplaceNew, Dormant, SameStop
  <2>7. Stays(f, p) /\ Idles(p)
    BY <2>1, <2>4, <2>5, ComputeStays
  <2>8. c \in OrderRec /\ c.term /\ c.instr = NoInstr /\ c.armed
    <3>1. c \in OrderRec /\ SameFields(f, c)
      BY <2>1, RestFields DEF OrderState
    <3>2. c.instr = NoInstr
      BY <2>1, <2>2 DEF ClearDone, ClearPendingInstruction, OrderRec
    <3>3. QED BY <1>1, <2>1, <3>1, <3>2 DEF SameFields
  <2>9. Compute(f, price) = Compute(c, price)
    <3>1. ClearDone(c) = c
      BY <2>8 DEF ClearDone, NoInstr
    <3>2. Gate(f) /\ Gate(c)
      BY <1>1, <2>1, <2>8 DEF Gate
    <3>3. QED BY <3>1, <3>2 DEF Compute
  <2>10. Keeps(c, p)
    BY <2>4, <2>8, <2>9, DoneCompute DEF Done
  <2>11. p.term /\ p.instr.kind # "CreateOrder"
    BY <2>8, <2>10 DEF Keeps, OpensNothing, NoInstr
  <2>12. QED BY <1>3, <2>6, <2>7, <2>11, StaysTrans
<1>4. QED BY <1>2, <1>3

----------------------------------------------------------------------------
(* What an order is for, and what is asked for it *)

(* What no method of an order does by itself: it changes neither how much the
   order is for nor how much of it was filled, asks for no more than it is
   for, and does not fail to open it.                                       *)
Weighs(o, p) ==
    /\ p.qty = o.qty /\ p.filled = o.filled
    /\ HasInstr(p) => p.instr.qty <= p.qty \/ (HasInstr(o) /\ p.instr.qty = o.instr.qty)
    /\ p.state = "OpenFailed" => o.state = "OpenFailed"

(* What an order is for and what is asked for it are at most n. *)
Within(o, n) == o.qty <= n /\ (HasInstr(o) => o.instr.qty <= n)

(* An order weighs what it weighs. *)
LEMMA WeighsRefl == ASSUME NEW o PROVE Weighs(o, o)
BY DEF Weighs

(* What two steps in a row leave, both leave. *)
LEMMA WeighsTrans ==
    ASSUME NEW o, NEW p, NEW q, Weighs(o, p), Weighs(p, q)
    PROVE  Weighs(o, q)
BY DEF Weighs

(* A bound on the order stays one. *)
LEMMA WeighsWithin ==
    ASSUME NEW o \in OrderRec, NEW p \in OrderRec, NEW n \in Int, Weighs(o, p), Within(o, n)
    PROVE  Within(p, n)
<1>1. p.qty \in Int /\ (HasInstr(p) => p.instr.qty \in Int)
  BY DEF OrderRec, Instruction, NoInstr, HasInstr
<1>2. QED BY <1>1 DEF Weighs, Within

(* Setting the state, the flags and the modes of an order. *)
LEMMA WeighsSets ==
    ASSUME NEW o \in OrderRec, NEW b \in BOOLEAN, NEW m
    PROVE  /\ \A s \in OrderState : s # "OpenFailed" => Weighs(o, [o EXCEPT !.state = s])
           /\ Weighs(o, [o EXCEPT !.term = b])
           /\ Weighs(o, [o EXCEPT !.toIdle = b])
           /\ Weighs(o, [o EXCEPT !.toReplace = b])
           /\ Weighs(o, [o EXCEPT !.created = b])
           /\ Weighs(o, [o EXCEPT !.byCancel = b])
           /\ Weighs(o, [o EXCEPT !.armed = b])
           /\ Weighs(o, [o EXCEPT !.pendingMode = m])
           /\ Weighs(o, TakeMode(o))
BY DEF Weighs, OrderRec, HasInstr, TakeMode

(* Clearing the slot, and entering a state. *)
LEMMA WeighsRest ==
    ASSUME NEW o \in OrderRec
    PROVE  /\ Weighs(o, ClearPendingInstruction(o)) /\ Weighs(o, ClearDone(o)) /\ Weighs(o, Rest(o))
           /\ \A s \in OrderState : s # "OpenFailed" => Weighs(o, Enter(o, s))
<1>1. ASSUME NEW q \in OrderRec
      PROVE  Weighs(q, ClearPendingInstruction(q)) /\ Weighs(q, ClearDone(q)) /\ Weighs(q, Rest(q))
  <2>1. Weighs(q, ClearPendingInstruction(q))
    BY DEF ClearPendingInstruction, Weighs, OrderRec, HasInstr, NoInstr
  <2>2. QED BY <2>1, WeighsRefl DEF ClearDone, Rest
<1>2. ASSUME NEW s \in OrderState, s # "OpenFailed" PROVE Weighs(o, Enter(o, s))
  <2>1. [o EXCEPT !.state = s] \in OrderRec /\ Weighs(o, [o EXCEPT !.state = s])
    BY <1>2, KeepsState, WeighsSets DEF Keeps
  <2>2. QED BY <1>1, <2>1, WeighsTrans DEF Enter
<1>3. QED BY <1>1, <1>2

(* A new instruction asks for what the order is for, or for what is left of it. *)
LEMMA WeighsSetPending ==
    ASSUME NEW o \in OrderRec, NEW kind, NEW stop
    PROVE  Weighs(o, SetPendingInstruction(o, kind, stop))
<1> DEFINE i == NewInstruction(o, kind, stop)
           p == [o EXCEPT !.instr = i, !.lastId = NextId(o)]
<1>1. i.qty <= o.qty
  <2>1. o.qty \in Int /\ o.filled \in Nat
    BY DEF OrderRec
  <2>2. i.qty = o.qty - o.filled \/ i.qty = o.qty
    BY DEF NewInstruction
  <2>3. QED BY <2>1, <2>2
<1>2. p.qty = o.qty /\ p.filled = o.filled /\ p.instr = i /\ p.state = o.state
  BY DEF OrderRec
<1>3. Weighs(o, p)
  BY <1>1, <1>2 DEF Weighs
<1>4. QED BY <1>3, WeighsRefl DEF SetPendingInstruction

(* Installing what a handler asked for. *)
LEMMA WeighsInstall ==
    ASSUME NEW o, NEW r, r.o \in OrderRec, Weighs(o, r.o)
    PROVE  Weighs(o, Install(r).o)
BY WeighsSetPending, WeighsTrans DEF Install, Ok, Err

(* handle_opened *)
LEMMA WeighsOpened ==
    ASSUME NEW o \in OrderRec, NEW price \in Int
    PROVE  Weighs(o, HandleOpened(o, price).o)
<1> DEFINE f == [o EXCEPT !.toReplace = TRUE]
<1>1. f \in OrderRec /\ Weighs(o, f)
  BY WeighsSets, KeepsFlags DEF Keeps
<1>2. Weighs(o, Enter(o, "PendingCancel")) /\ Weighs(f, Enter(f, "PendingCancel"))
  BY <1>1, WeighsRest DEF OrderState
<1>3. Weighs(o, Enter(f, "PendingCancel"))
  BY <1>1, <1>2, WeighsTrans
<1>4. Weighs(o, ComputeStoploss(o, price).o)
  BY <1>3, WeighsRefl DEF ComputeStoploss, Nothing, Failure, Ask
<1>5. QED BY <1>2, <1>4, WeighsRefl DEF HandleOpened, Nothing, Ask

(* set_state(Opened) of a replaced order, and what handle_replaced does then. *)
LEMMA WeighsReplaced ==
    ASSUME NEW o \in OrderRec, NEW price \in Int
    PROVE  Weighs(o, HandleReplaced(o, price).o)
<1> DEFINE p == [o EXCEPT !.state = "Opened"]
           c == ClearDone(p)
           h == HandleOpened(c, price)
           r == Reopen(o, price)
<1>1. p \in OrderRec /\ Weighs(o, p)
  BY WeighsSets, KeepsState DEF Keeps, OrderState
<1>2. c \in OrderRec /\ Weighs(o, c)
  BY <1>1, WeighsRest, WeighsTrans, KeepsRest DEF Keeps
<1>3. h.o \in OrderRec /\ Weighs(o, h.o)
  BY <1>2, WeighsOpened, WeighsTrans, HandledOpened DEF Handled, Keeps
<1>4. r.o \in OrderRec
  BY DoneReopen DEF Done, Keeps
<1>5. Weighs(o, r.o)
  <2>1. r = Install(h) \/ r = Ok(p)
    BY DEF Reopen
  <2> HIDE DEF h, p, r
  <2>2. QED BY <1>1, <1>3, <2>1, WeighsInstall DEF Ok
<1> HIDE DEF r
<1>6. Weighs(o, HandleOpened(r.o, price).o)
  BY <1>4, <1>5, WeighsOpened, WeighsTrans
<1>7. QED BY <1>5, <1>6 DEF HandleReplaced, AskAgain, Nothing, Failure, r

(* compute_next_instruction *)
LEMMA WeighsNext ==
    ASSUME NEW o \in OrderRec, NEW price \in Int
    PROVE  Weighs(o, NextInstruction(o, price).o)
<1>1. CASE o.state = "Idle"
  <2> DEFINE m == TakeMode(o)
  <2>1. m \in OrderRec /\ Weighs(o, m)
    BY WeighsSets, KeepsMode DEF Keeps, OrderMode
  <2>2. Weighs(o, Enter(m, "PendingOpen"))
    BY <2>1, WeighsRest, WeighsTrans DEF OrderState
  <2>3. QED BY <1>1, <2>1, <2>2 DEF NextInstruction, HandleIdle, Nothing, Ask
<1>2. CASE o.state = "OpenFailed"
  <2> DEFINE t == [o EXCEPT !.retries = o.retries - 1, !.term = TRUE]
  <2>1. t \in OrderRec \/ ~(o.retries > 0)
    <3>1. o.retries > 0 => o.retries - 1 \in 0..MaxRetries
      BY RetriesAssumption DEF OrderRec
    <3>2. QED BY <3>1 DEF OrderRec
  <2>2. Weighs(o, t)
    BY DEF Weighs, OrderRec, HasInstr
  <2>3. o.retries > 0 => Weighs(o, Rest(t))
    BY <2>1, <2>2, WeighsRest, WeighsTrans
  <2>4. Weighs(o, Enter(o, "PendingOpen"))
    BY WeighsRest DEF OrderState
  <2>5. QED BY <1>2, <2>3, <2>4, WeighsRefl DEF NextInstruction, HandleOpenFailed, Nothing, Ask
<1>3. CASE o.state \in {"Opened", "PartiallyFilled"}
  BY <1>3, WeighsOpened DEF NextInstruction
<1>4. CASE o.state = "Cancelled"
  <2>1. Enter(o, "Finished") \in OrderRec /\ Weighs(o, Enter(o, "Finished"))
    BY WeighsRest, KeepsEnter DEF Keeps, OrderState
  <2>2. Weighs(o, [Enter(o, "Finished") EXCEPT !.byCancel = TRUE])
    BY <2>1, WeighsSets, WeighsTrans
  <2>3. QED BY <1>4, <2>2 DEF NextInstruction, HandleCancelled, Nothing
<1>5. CASE o.state = "Replaced"
  BY <1>5, WeighsReplaced DEF NextInstruction
<1>6. CASE o.state \in {"Filled", "Closed"}
  <2>1. ASSUME NEW q \in OrderRec PROVE Weighs(q, HandleClosed(q).o)
    <3>1. [q EXCEPT !.created = FALSE] \in OrderRec /\ Weighs(q, [q EXCEPT !.created = FALSE])
      BY WeighsSets, KeepsFlags DEF Keeps
    <3>2. QED BY <3>1, WeighsRest, WeighsTrans DEF HandleClosed, Nothing, OrderState
  <2>2. [o EXCEPT !.state = "Closed"] \in OrderRec /\ Weighs(o, [o EXCEPT !.state = "Closed"])
    BY WeighsSets, KeepsState DEF Keeps, OrderState
  <2>3. Weighs(o, HandleClosed(o).o) /\ Weighs(o, HandleFilled(o).o)
    BY <2>1, <2>2, WeighsTrans DEF HandleFilled
  <2>4. QED BY <1>6, <2>3 DEF NextInstruction
<1>7. CASE o.state \notin {"Idle", "OpenFailed", "Opened", "PartiallyFilled", "Cancelled",
                          "Replaced", "Filled", "Closed"}
  BY <1>7, WeighsRefl DEF NextInstruction, Nothing, Failure
<1>8. QED BY <1>1, <1>2, <1>3, <1>4, <1>5, <1>6, <1>7

(* compute, without an instruction to pre-empt *)
LEMMA WeighsAdvance ==
    ASSUME NEW o \in OrderRec, NEW price \in Int
    PROVE  Weighs(o, Advance(o, price).o)
<1> DEFINE c == ClearDone(o)
           r == NextInstruction(c, price)
<1>1. c \in OrderRec /\ Weighs(o, c)
  BY WeighsRest, KeepsRest DEF Keeps
<1>2. r.o \in OrderRec /\ Weighs(o, r.o)
  BY <1>1, WeighsNext, WeighsTrans, HandledNext DEF Handled, Keeps
<1>3. QED BY <1>2, WeighsInstall, WeighsRefl DEF Advance, Ok

(* cancel_pending_instruction *)
LEMMA WeighsWithdraw ==
    ASSUME NEW o \in OrderRec, NEW price \in Int
    PROVE  Weighs(o, CancelPendingInstruction(o, price).o)
<1> DEFINE p == ClearPendingInstruction(o)
           r == Reverted(p, price)
           u == Unflagged(o, r.o)
<1>1. CASE o.term \/ ~HasInstr(o) \/ o.instr.st # "New"
  BY <1>1, WeighsRefl DEF CancelPendingInstruction, Ok, Err
<1>2. CASE ~(o.term \/ ~HasInstr(o) \/ o.instr.st # "New")
  <2>1. p \in OrderRec /\ Weighs(o, p)
    BY <1>2, KeepsClear, WeighsRest DEF Keeps
  <2> HIDE DEF p
  <2>2. r.o \in OrderRec
    BY <2>1, DoneReverted DEF Done, Keeps
  <2>3. Weighs(p, r.o)
    <3>1. ASSUME NEW s \in {"Idle", "Opened"}
          PROVE  Weighs(p, Advance([p EXCEPT !.state = s], price).o)
      <4>1. [p EXCEPT !.state = s] \in OrderRec /\ Weighs(p, [p EXCEPT !.state = s])
        BY <2>1, WeighsSets, KeepsState DEF Keeps, OrderState
      <4>2. QED BY <4>1, WeighsAdvance, WeighsTrans
    <3>2. QED BY <3>1, WeighsRefl DEF Reverted, Ok
  <2> HIDE DEF r
  <2>4. Weighs(r.o, u) /\ u \in OrderRec
    BY <2>2, WeighsSets, WeighsRefl, KeepsUnflagged DEF Unflagged, Keeps
  <2> HIDE DEF u
  <2>5. Weighs(u, Advance(u, price).o)
    BY <2>4, WeighsAdvance
  <2>6. Weighs(o, r.o) /\ Weighs(o, Advance(u, price).o)
    BY <2>1, <2>3, <2>4, <2>5, WeighsTrans
  <2>7. QED BY <1>2, <2>6 DEF CancelPendingInstruction, Withdrawn, p, r, u
<1>3. QED BY <1>1, <1>2

(* compute *)
LEMMA WeighsCompute ==
    ASSUME NEW o \in OrderRec, NEW price \in Int
    PROVE  Weighs(o, Compute(o, price).o)
<1> DEFINE d == ClearDone(o)
           r == NextInstruction(d, price)
           c == CancelPendingInstruction(r.o, price)
<1>1. d \in OrderRec /\ Weighs(o, d)
  BY WeighsRest, KeepsRest DEF Keeps
<1>2. r.o \in OrderRec /\ Weighs(o, r.o)
  BY <1>1, WeighsNext, WeighsTrans, HandledNext DEF Handled, Keeps
<1> HIDE DEF r
<1>3. c.o \in OrderRec /\ Weighs(o, c.o)
  BY <1>2, WeighsWithdraw, WeighsTrans, DoneCancelPending DEF Done, Keeps
<1> HIDE DEF c
<1>4. Weighs(o, Install(r).o) /\ Weighs(o, InstallAfter(c, r).o)
  BY <1>2, <1>3, WeighsInstall, WeighsSetPending, WeighsTrans DEF InstallAfter, Ok
<1>5. QED BY <1>4, WeighsRefl DEF Compute, Resolve, Ok, c, r

(* compute, of an order that weighs the same. *)
LEMMA WeighsAfter ==
    ASSUME NEW o, NEW p \in OrderRec, Weighs(o, p), NEW price \in Int
    PROVE  Weighs(o, Compute(p, price).o) /\ Compute(p, price).o \in OrderRec
BY WeighsCompute, WeighsTrans, DoneCompute DEF Done, Keeps

(* set_state, but to the failure to open *)
LEMMA WeighsSetState ==
    ASSUME NEW o \in OrderRec, NEW s \in OrderState, s # "OpenFailed", NEW price \in Int
    PROVE  Weighs(o, SetState(o, s, price).o) /\ SetState(o, s, price).o \in OrderRec
<1>1. Target(o.state, s) \in OrderState /\ Target(o.state, s) # "OpenFailed"
  BY DEF Target, OrderState
<1>2. /\ [o EXCEPT !.state = Target(o.state, s)] \in OrderRec
      /\ Weighs(o, [o EXCEPT !.state = Target(o.state, s)])
  BY <1>1, WeighsSets, KeepsState DEF Keeps
<1>3. QED BY <1>2, WeighsAfter, WeighsRefl DEF SetState, Ok, Err

(* What a confirmation does after it set the state. *)
LEMMA WeighsThen ==
    ASSUME NEW o, NEW r, r.o \in OrderRec, Weighs(o, r.o), NEW price \in Int
    PROVE  /\ Weighs(o, ThenCompute(r, price).o) /\ ThenCompute(r, price).o \in OrderRec
           /\ Weighs(o, Created(r).o) /\ Created(r).o \in OrderRec
           /\ Weighs(o, NotCreated(r).o)
<1>1. ASSUME NEW b \in BOOLEAN
      PROVE  [r.o EXCEPT !.created = b] \in OrderRec /\ Weighs(o, [r.o EXCEPT !.created = b])
  <2> DEFINE q == r.o
  <2>1. q \in OrderRec /\ Weighs(o, q)
    OBVIOUS
  <2> HIDE DEF q
  <2>2. [q EXCEPT !.created = b] \in OrderRec /\ Weighs(q, [q EXCEPT !.created = b])
    BY <2>1, WeighsSets, KeepsFlags DEF Keeps
  <2>3. QED BY <2>1, <2>2, WeighsTrans DEF q
<1>2. QED BY <1>1, WeighsAfter DEF ThenCompute, Created, NotCreated, Ok

(* The calls a strategy or the trade makes, and the confirmations that bring
   no quantity with them.                                                    *)
LEMMA WeighsCalls ==
    ASSUME NEW o \in OrderRec, NEW price \in Int
    PROVE  /\ Weighs(o, Terminate(o, price).o)
           /\ Weighs(o, CancelAndIdle(o, price).o)
           /\ Weighs(o, Pause(o, price).o) /\ Pause(o, price).o \in OrderRec
           /\ Weighs(o, Resume(o, price).o)
<1>1. /\ [o EXCEPT !.term = TRUE] \in OrderRec /\ Weighs(o, [o EXCEPT !.term = TRUE])
      /\ [o EXCEPT !.toIdle = TRUE] \in OrderRec /\ Weighs(o, [o EXCEPT !.toIdle = TRUE])
  BY WeighsSets, KeepsFlags DEF Keeps
<1>2. ASSUME NEW m \in OrderMode
      PROVE  [o EXCEPT !.pendingMode = m] \in OrderRec /\ Weighs(o, [o EXCEPT !.pendingMode = m])
  BY WeighsSets, KeepsMode DEF Keeps
<1>3. QED BY <1>1, <1>2, WeighsAfter, WeighsRefl
          DEF Terminate, CancelAndIdle, Pause, Resume, SetPendingMode, OrderMode, Ok

(* The confirmations that bring no quantity with them. *)
LEMMA WeighsConfirms ==
    ASSUME NEW o \in OrderRec, NEW price \in Int
    PROVE  /\ Weighs(o, ConfirmOpened(o, price).o)
           /\ Weighs(o, ConfirmCancelled(o, price).o)
<1>1. Weighs(o, ConfirmOpened(o, price).o)
  <2>1. Weighs(o, SetState(o, "Opened", price).o) /\ SetState(o, "Opened", price).o \in OrderRec
    BY WeighsSetState DEF OrderState
  <2>2. Weighs(o, ThenCompute(Created(SetState(o, "Opened", price)), price).o)
    BY <2>1, WeighsThen
  <2>3. QED BY <2>2, WeighsRefl DEF ConfirmOpened, Ok
<1>2. ASSUME NEW q \in OrderRec, Weighs(o, q),
             NEW s \in {"CancelledAndPendingReplace", "Idle", "Cancelled"}
      PROVE  Weighs(o, NotCreated(SetState(q, s, price)).o)
  <2>1. Weighs(q, SetState(q, s, price).o) /\ SetState(q, s, price).o \in OrderRec
    BY WeighsSetState DEF OrderState
  <2>2. QED BY <1>2, <2>1, WeighsThen, WeighsTrans
<1>3. /\ [o EXCEPT !.toReplace = FALSE] \in OrderRec /\ Weighs(o, [o EXCEPT !.toReplace = FALSE])
      /\ [o EXCEPT !.toIdle = FALSE] \in OrderRec /\ Weighs(o, [o EXCEPT !.toIdle = FALSE])
  BY WeighsSets, KeepsFlags DEF Keeps
<1>4. LET v == Pause([o EXCEPT !.toIdle = FALSE], price)
      IN  Weighs(o, v.o) /\ v.o \in OrderRec
  BY <1>3, WeighsCalls, WeighsTrans
<1>5. QED BY <1>1, <1>2, <1>3, <1>4, WeighsRefl DEF ConfirmCancelled, Ok

(* confirm_filled: the order is for what it was for, and as much of it is
   filled as the event says.                                                *)
LEMMA WeighsFilled ==
    ASSUME NEW o \in OrderRec, NEW filled \in Nat, NEW full, NEW price \in Int, o.state # "Filled"
    PROVE  Weighs([o EXCEPT !.filled = filled], ConfirmFilled(o, filled, full, price).o)
<1> DEFINE f == [o EXCEPT !.filled = filled]
           s == SetState(f, IF full THEN "Filled" ELSE "PartiallyFilled", price)
<1>1. f \in OrderRec
  BY DEF OrderRec
<1> HIDE DEF f
<1>2. Weighs(f, s.o) /\ s.o \in OrderRec
  BY <1>1, WeighsSetState DEF OrderState
<1> HIDE DEF s
<1>3. Weighs(f, ThenCompute(s, price).o)
  BY <1>2, WeighsThen
<1>4. QED BY <1>3 DEF ConfirmFilled, f, s

(* confirm_replaced: the order is for what the event says. *)
LEMMA WeighsReplacement ==
    ASSUME NEW o \in OrderRec, o.state = "CancelledAndPendingReplace", NEW e,
           e.seq \in 0..MaxSeq, e.stop \in Int, e.qty \in Int, e.filled \in Nat, NEW price \in Int
    PROVE  Weighs([o EXCEPT !.qty = e.qty, !.filled = e.filled], ConfirmReplaced(o, e, price).o)
<1> DEFINE g == [o EXCEPT !.qty = e.qty, !.filled = e.filled]
           f == [o EXCEPT !.created = TRUE, !.seq = e.seq, !.stop = e.stop,
                          !.qty = e.qty, !.filled = e.filled]
<1>1. f \in OrderRec /\ Weighs(g, f)
  BY DEF OrderRec, Weighs, HasInstr
<1> HIDE DEF f, g
<1>2. Weighs(g, SetState(f, "Replaced", price).o)
  BY <1>1, WeighsSetState, WeighsTrans DEF OrderState
<1>3. QED BY <1>2 DEF ConfirmReplaced, f, g

(* confirm_instruction_execution *)
LEMMA WeighsExecution ==
    ASSUME NEW o \in OrderRec, NEW id, NEW success, NEW price \in Int
    PROVE  Weighs(o, ConfirmInstructionExecution(o, id, success, price).o)
<1> DEFINE c == ClearPendingInstruction(o)
           f == [o EXCEPT !.instr.st = "Failed", !.term = TRUE]
<1>1. CASE ~HasInstr(o) \/ o.instr.id # id
           \/ ~InstructionMayMove(o.instr, IF success THEN "Executed" ELSE "Failed")
  BY <1>1, WeighsRefl DEF ConfirmInstructionExecution, Err
<1>2. CASE ~(~HasInstr(o) \/ o.instr.id # id
             \/ ~InstructionMayMove(o.instr, IF success THEN "Executed" ELSE "Failed"))
  <2>1. o.instr \in Instruction
    BY <1>2 DEF OrderRec, HasInstr, NoInstr
  <2>2. c \in OrderRec /\ Weighs(o, c)
    BY WeighsRest DEF ClearPendingInstruction, OrderRec
  <2>3. f \in OrderRec /\ Weighs(o, f)
    BY <1>2, <2>1 DEF OrderRec, Instruction, InstructionState, Weighs, HasInstr
  <2> HIDE DEF c, f
  <2>4. Weighs(o, Compute(c, price).o) /\ Weighs(o, Compute(f, price).o)
    BY <2>2, <2>3, WeighsAfter
  <2>5. QED BY <1>2, <2>4 DEF ConfirmInstructionExecution, c, f
<1>3. QED BY <1>1, <1>2
=============================================================================
